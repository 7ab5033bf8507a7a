----------------------------- MODULE Connection -----------------------------
(***************************************************************************)
(* One connection, byte by byte: the REPL of the client                    *)
(* (src/src/bin/client.rs), the TCP stream, and the request loop of        *)
(* handle_client (src/src/bin/main.rs) with the encodings of               *)
(* src/src/protocol.rs.  Every write and every read is a step, so either   *)
(* side may be gone in the middle of a frame.                              *)
(*                                                                         *)
(* What the databases answer is a choice (Outcomes): modules Worker and    *)
(* Manager say which answers they give, that a query sent to a worker is   *)
(* never dropped, and when a create or a drop returns.                     *)
(***************************************************************************)
EXTENDS Integers, Sequences, SequencesExt

CONSTANTS
  Base,                 \* the number of values of a byte (256)
  Letters,              \* the bytes [A-Za-z0-9_-]
  MaxDbNameLen, MaxKeySize, MaxValueSize,
  DbNames, Keys, Values,  \* what the user types
  InitialDbs,           \* --db-name
  StatsPacket, InfoPacket,  \* what STATS and INFO have to say
  MaxRequests           \* bound: requests of one session

Operations == <<"Stats", "Ping", "Close", "Create", "Info", "Drop",
                "Get", "Set", "Delete">>
Statuses == <<"Ok", "Pong", "DbNotFound", "DbAlreadyExists", "KeyValue",
              "KeyNotFound", "InvalidRequest", "PayloadTooLarge",
              "InternalError">>

\* The packets.  A u32 has two bytes here, and an f64, which is twice as long,
\* stands for its bits: a lower and an upper u32.
U32 == 0 .. Base * Base - 1
StatsPackets ==
  [uptime_hrs : U32 \X U32, total_dbs : U32, total_active_connections : U32]
InfoPackets ==
  [size_on_disk : U32, size_in_memory : U32, min_key_size : U32,
   mean_key_size : U32, max_key_size : U32, key_count : U32]

ASSUME ConnectionAssumption ==
  /\ Base \in Nat /\ Base > Len(Operations)
  /\ Letters \subseteq 0 .. Base - 1 /\ Letters # {}
  /\ MaxDbNameLen \in 0 .. Base - 1
  /\ MaxKeySize \in Nat /\ MaxValueSize \in 0 .. Base * Base - 1   \* a u32
  /\ DbNames \cup Keys \cup Values \cup InitialDbs \subseteq Seq(0 .. Base - 1)
  /\ StatsPacket \in StatsPackets /\ InfoPacket \in InfoPackets

VARIABLES
  client,      \* "writing", "awaiting", "prompt", "eof", "quit" or "failed"
  current_db,
  req,         \* the request being sent or awaiting its answer
  out,         \* the writes of send_*() still to be made
  c2s, s2c,    \* the bytes under way in each direction
  reset,       \* TCP reset: the server's end is gone, bytes were not read
  server,      \* "reading", "closing" or "closed"
  todo,        \* the fields of the request still to be read
  frame,       \* the fields read
  (* history variables, read by no action *)
  sent,        \* the requests wholly written
  served,      \* per request the server answered or gave up: what it did
  got          \* the answers the client has read

clientVars == <<client, current_db, req, out>>
serverVars == <<server, todo, frame>>
vars == <<clientVars, c2s, s2c, reset, serverVars, sent, served, got>>

Drop(s, n) == SubSeq(s, n + 1, Len(s))

-----------------------------------------------------------------------------
(* Encodings (protocol.rs; write_u8, write_u32_le). *)

to_u8(op) == CHOOSE i \in 0 .. Len(Operations) - 1 : Operations[i + 1] = op
from_u8(b) == IF b < Len(Operations) THEN Operations[b + 1] ELSE "None"

u8(n) == <<n % Base>>
u32(n) == <<n % Base, (n \div Base) % Base>>
Number(bytes) == IF Len(bytes) = 1 THEN bytes[1] ELSE bytes[1] + Base * bytes[2]

\* put_u32_le of one word after the other, and get_u32_le of all there are.
put_words(words) ==
  [k \in 1 .. 2 * Len(words) |-> u32(words[(k + 1) \div 2])[2 - (k % 2)]]
get_words(bytes) ==
  [i \in 1 .. Len(bytes) \div 2 |-> Number(SubSeq(bytes, 2 * i - 1, 2 * i))]

\* What get_f64_le and get_u32_le make of too few bytes; more are ignored.
Panicked == [panicked |-> TRUE]

StatsToBytes(p) ==
  put_words(<<p.uptime_hrs[1], p.uptime_hrs[2], p.total_dbs,
              p.total_active_connections>>)
StatsFromBytes(bytes) ==
  LET w == get_words(bytes) IN
    IF Len(w) < 4 THEN Panicked
    ELSE [uptime_hrs |-> <<w[1], w[2]>>, total_dbs |-> w[3],
          total_active_connections |-> w[4]]

InfoToBytesCountFirst(p) ==   \* mutant: the writer's fields in another order
  put_words(<<p.key_count, p.size_on_disk, p.size_in_memory, p.min_key_size,
              p.mean_key_size, p.max_key_size>>)
InfoToBytes(p) ==
  put_words(<<p.size_on_disk, p.size_in_memory, p.min_key_size,
              p.mean_key_size, p.max_key_size, p.key_count>>)
InfoFromBytes(bytes) ==
  LET w == get_words(bytes) IN
    IF Len(w) < 6 THEN Panicked
    ELSE [size_on_disk |-> w[1], size_in_memory |-> w[2], min_key_size |-> w[3],
          mean_key_size |-> w[4], max_key_size |-> w[5], key_count |-> w[6]]

Response(status, payload) == [status |-> status, payload |-> payload]
Message(status) == Response(status, <<CHOOSE b \in Letters : TRUE>>)

code(status) == CHOOSE i \in 0 .. Len(Statuses) - 1 : Statuses[i + 1] = status
send_response_no_length(rsp) ==   \* mutant: the length does not count the payload
  u8(code(rsp.status)) \o u32(0) \o rsp.payload
send_response(rsp) ==
  u8(code(rsp.status)) \o u32(Len(rsp.payload)) \o rsp.payload

\* read_response: whether s2c holds a whole one, its length and what it says.
ResponseLen == 3 + Number(SubSeq(s2c, 2, 3))
ResponseIsWhole == Len(s2c) >= 3 /\ Len(s2c) >= ResponseLen
read_response ==
  IF s2c[1] < Len(Statuses)
  THEN Response(Statuses[s2c[1] + 1], SubSeq(s2c, 4, ResponseLen))
  ELSE Message("InternalError")

-----------------------------------------------------------------------------
(* The client *)

Request(op, name, key, val) == [op |-> op, name |-> name, key |-> key, val |-> val]
Plain(op) == Request(op, <<>>, <<>>, <<>>)

\* The writes of send_ping, send_close, send_stats, send_db_op, send_get,
\* send_delete and send_set.  `len() as u8` keeps the last byte of a length.
Writes(r) ==
  CASE r.op \in {"Stats", "Ping", "Close"} -> <<u8(to_u8(r.op))>>
    [] r.op \in {"Create", "Info", "Drop"} ->
         <<u8(to_u8(r.op)), u8(Len(r.name)), r.name>>
    [] r.op \in {"Get", "Delete"} ->
         <<u8(to_u8(r.op)), u8(Len(r.name)), u32(Len(r.key)), r.name, r.key>>
    [] r.op = "Set" ->
         <<u8(to_u8(r.op)), u8(Len(r.name)), u32(Len(r.key)), u32(Len(r.val)),
           r.name, r.key, r.val>>

Init ==
  /\ client = "writing" /\ current_db \in InitialDbs
  /\ req = Plain("Ping") /\ out = Writes(Plain("Ping"))
  /\ c2s = <<>> /\ s2c = <<>> /\ reset = FALSE
  /\ server = "reading" /\ todo = <<"op">> /\ frame = [op |-> "None"]
  /\ sent = <<>> /\ served = <<>> /\ got = <<>>

\* What a line of input can ask for.  CREATE, INFO and DROP check the length
\* of the name they are given; INFO without one takes the current database.
Commands ==
  {Plain(op) : op \in {"Stats", "Ping", "Close"}}
    \cup {Request(op, n, <<>>, <<>>) : op \in {"Create", "Info", "Drop"},
            n \in {m \in DbNames : Len(m) <= Base - 1}}
    \cup (IF Len(current_db) <= Base - 1
          THEN {Request("Info", current_db, <<>>, <<>>)} ELSE {})
    \cup {Request(op, current_db, k, <<>>) : op \in {"Get", "Delete"}, k \in Keys}
    \cup {Request("Set", current_db, k, v) : k \in Keys, v \in Values}

AskUnanswered(r) ==   \* mutant: a command whose answer is not waited for
  /\ client \in {"prompt", "awaiting"} /\ Len(sent) < MaxRequests
  /\ client' = "writing" /\ req' = r /\ out' = Writes(r)
  /\ UNCHANGED <<current_db, c2s, s2c, reset, serverVars, sent, served, got>>

Ask(r) ==
  /\ client = "prompt" /\ Len(sent) < MaxRequests
  /\ client' = "writing" /\ req' = r /\ out' = Writes(r)
  /\ UNCHANGED <<current_db, c2s, s2c, reset, serverVars, sent, served, got>>

Use(n) ==
  /\ client = "prompt" /\ n # current_db /\ Len(sent) < MaxRequests
  /\ current_db' = n
  /\ UNCHANGED <<client, req, out, c2s, s2c, reset, serverVars, sent, served, got>>

\* One write.  Bytes that reach a closed socket are answered with a reset.
Write ==
  /\ client = "writing"
  /\ out' = Tail(out)
  /\ IF server = "closed"
     THEN /\ reset' = (reset \/ Head(out) # <<>>) /\ UNCHANGED c2s
     ELSE /\ c2s' = c2s \o Head(out) /\ UNCHANGED reset
  /\ IF Len(out) > 1 THEN UNCHANGED <<client, sent>>
     ELSE /\ client' = IF req.op = "Close" THEN "quit" ELSE "awaiting"
          /\ sent' = Append(sent, req)
  /\ UNCHANGED <<current_db, req, s2c, serverVars, served, got>>

ReadResponse ==
  /\ client = "awaiting" /\ ResponseIsWhole
  /\ client' = "prompt"
  /\ got' = Append(got, read_response) /\ s2c' = Drop(s2c, ResponseLen)
  /\ UNCHANGED <<current_db, req, out, c2s, reset, serverVars, sent, served>>

\* A write or a read fails: main returns the error.
IoErr ==
  /\ \/ client = "writing" /\ reset
     \/ client = "awaiting" /\ server = "closed" /\ (reset \/ ~ResponseIsWhole)
  /\ client' = "failed" /\ out' = <<>>
  /\ UNCHANGED <<current_db, req, c2s, s2c, reset, serverVars, sent, served, got>>

\* The user kills the client, at any point of a frame.
Kill ==
  /\ client \notin {"quit", "failed"}
  /\ client' = "failed" /\ out' = <<>>
  /\ UNCHANGED <<current_db, req, c2s, s2c, reset, serverVars, sent, served, got>>

\* read_line returns 0 bytes at the end of the input, which the loop takes
\* for an empty line, over and over: the connection stays open.
EndOfInput ==
  /\ client = "prompt" /\ client' = "eof"
  /\ UNCHANGED <<current_db, req, out, c2s, s2c, reset, serverVars, sent, served, got>>

-----------------------------------------------------------------------------
(* The server *)

Gone == client \in {"quit", "failed"}

FieldsKeyUnread(op) ==   \* mutant: the key of a GET or DELETE stays in the stream
  CASE op \in {"Create", "Info", "Drop"} -> <<"nlen", "name">>
    [] op \in {"Get", "Delete"} -> <<"nlen", "klen", "name">>
    [] op = "Set" -> <<"nlen", "klen", "vlen", "name", "key", "val">>
    [] OTHER -> <<>>

\* The order in which handle_client reads the rest of a request.
Fields(op) ==
  CASE op \in {"Create", "Info", "Drop"} -> <<"nlen", "name">>
    [] op \in {"Get", "Delete"} -> <<"nlen", "klen", "name", "key">>
    [] op = "Set" -> <<"nlen", "klen", "vlen", "name", "key", "val">>
    [] OTHER -> <<>>

Width(f) ==
  CASE f \in {"op", "nlen"} -> 1
    [] f \in {"klen", "vlen"} -> 2
    [] f = "name" -> frame.nlen
    [] f = "key" -> frame.klen
    [] f = "val" -> frame.vlen

validate_db_name(fr) ==
  IF fr.name = <<>> THEN "InvalidRequest"
  ELSE IF Len(fr.name) > MaxDbNameLen THEN "PayloadTooLarge"
  ELSE IF ToSet(fr.name) \subseteq Letters THEN "valid" ELSE "InvalidRequest"

validate_size(n, max) ==
  IF n = 0 THEN "InvalidRequest" ELSE IF n > max THEN "PayloadTooLarge" ELSE "valid"

VerdictNameOnly(fr) == validate_db_name(fr)   \* mutant: sizes checked too late

\* The checks made once the name is read, before the key and the value are:
\* the first that fails decides.
Verdict(fr) ==
  IF validate_db_name(fr) # "valid" THEN validate_db_name(fr)
  ELSE IF fr.op \notin {"Get", "Set", "Delete"} THEN "valid"
  ELSE IF validate_size(fr.klen, MaxKeySize) # "valid"
       THEN validate_size(fr.klen, MaxKeySize)
  ELSE IF fr.op = "Set" THEN validate_size(fr.vlen, MaxValueSize) ELSE "valid"

\* An answer, and whether the loop goes on after it; "none" is the error of
\* create_db and drop_db (a file operation, or DROP of an unknown database),
\* which ends handle_client without an answer.
Goes(rsp) == [rsp |-> rsp, goes |-> TRUE]
Ends(rsp) == [rsp |-> rsp, goes |-> FALSE]
Silent == Ends(Response("none", <<>>))
Queried == {Ends(Message("DbNotFound")), Ends(Message("InternalError"))}

Outcomes(fr) ==
  CASE fr.op = "Stats" -> {Goes(Response("Ok", StatsToBytes(StatsPacket)))}
    [] fr.op = "Ping" -> {Goes(Message("Pong"))}
    [] fr.op = "Create" ->
         {Goes(Message("Ok")), Goes(Message("DbAlreadyExists")), Silent}
    [] fr.op = "Drop" ->
         {Goes(Message("Ok")), Goes(Message("InvalidRequest")), Silent}
    [] fr.op = "Info" -> {Goes(Response("Ok", InfoToBytes(InfoPacket)))} \cup Queried
    [] fr.op = "Get" ->
         {Goes(Response("KeyValue", v)) : v \in {w \in Values : Len(w) <= MaxValueSize}}
           \cup {Goes(Message("KeyNotFound"))} \cup Queried
    [] fr.op = "Set" -> {Goes(Message("Ok"))} \cup Queried
    [] fr.op = "Delete" ->
         {Goes(Message("Ok")), Goes(Message("KeyNotFound"))} \cup Queried

ExitsNever(o) == FALSE   \* mutant: an error is logged and the loop goes on
\* Every error leaves the loop.
Exits(o) == ~o.goes

\* send_response and what handle_client does next.  Writing to a client that
\* has gone may fail, and then handle_client returns.
Answer(o, executed) ==
  /\ s2c' = IF o.rsp.status = "none" THEN s2c ELSE s2c \o send_response(o.rsp)
  /\ served' = Append(served, [executed |-> executed, frame |-> frame', rsp |-> o.rsp])
  /\ \/ server' = (IF Exits(o) THEN "closing" ELSE "reading")
     \/ Gone /\ server' = "closing"
  /\ todo' = <<"op">>

Executable == todo = <<>> /\ frame.op \notin {"None", "Close"}

\* read_u8 of the operation, then read_u8, read_u32_le and
\* read_exact_reuse_buf of its fields.
ReadField ==
  /\ server = "reading" /\ todo # <<>>
  /\ LET f == Head(todo)
         bytes == SubSeq(c2s, 1, Width(f))
     IN /\ Len(c2s) >= Width(f)
        /\ c2s' = Drop(c2s, Width(f))
        /\ IF f = "op"
           THEN /\ frame' = [op |-> from_u8(bytes[1])]
                /\ IF frame'.op = "None" THEN Answer(Ends(Message("InvalidRequest")), FALSE)
                   ELSE /\ todo' = Fields(frame'.op)
                        /\ server' = IF frame'.op = "Close" THEN "closing" ELSE server
                        /\ UNCHANGED <<s2c, served>>
           ELSE /\ frame' = [g \in DOMAIN frame \cup {f} |->
                               IF g # f THEN frame[g]
                               ELSE IF f \in {"nlen", "klen", "vlen"}
                                    THEN Number(bytes) ELSE bytes]
                /\ IF f = "name" /\ Verdict(frame') # "valid"
                   THEN Answer(Ends(Message(Verdict(frame'))), FALSE)
                   ELSE todo' = Tail(todo) /\ UNCHANGED <<server, s2c, served>>
  /\ UNCHANGED <<clientVars, reset, sent, got>>

Execute ==
  /\ server = "reading" /\ Executable
  /\ UNCHANGED frame
  /\ \E o \in Outcomes(frame) : Answer(o, TRUE)
  /\ UNCHANGED <<clientVars, c2s, reset, sent, got>>

StreamEndsBetweenFrames ==   \* mutant: a read in a frame waits for more
  Gone /\ todo = <<"op">> /\ c2s = <<>>
\* The client's end is closed (too few bytes are left) or reset.
StreamEnds == Gone /\ (client = "failed" \/ Len(c2s) < Width(Head(todo)))

ReadErr ==
  /\ server = "reading" /\ todo # <<>> /\ StreamEnds
  /\ server' = "closing"
  /\ UNCHANGED <<clientVars, c2s, s2c, reset, todo, frame, sent, served, got>>

\* handle_client returns and drops the socket.  Bytes it has not read make
\* the kernel reset the connection.
CloseSocket ==
  /\ server = "closing"
  /\ server' = "closed" /\ c2s' = <<>> /\ reset' = (c2s # <<>>)
  /\ UNCHANGED <<clientVars, s2c, todo, frame, sent, served, got>>

ServerStep == ReadField \/ Execute \/ ReadErr \/ CloseSocket

Next ==
  \/ \E r \in Commands : Ask(r)
  \/ \E n \in DbNames : Use(n)
  \/ Write \/ ReadResponse \/ IoErr \/ Kill \/ EndOfInput
  \/ ReadField \/ Execute \/ ReadErr \/ CloseSocket

Spec == Init /\ [][Next]_vars

\* In create_db or drop_db, which wait for the lock and for a worker, that is
\* for other clients to read their answers.
Administering ==
  server = "reading" /\ Executable /\ frame.op \in {"Create", "Drop"}

\* The tasks run, queries are answered (Worker, QueriesAnswered) and the bytes
\* written arrive.  The user owes nothing, create_db and drop_db neither.
FairSpec == Spec /\ WF_vars(Write) /\ WF_vars(ReadResponse \/ IoErr)
                 /\ WF_vars(ServerStep /\ ~Administering)

-----------------------------------------------------------------------------
(* Properties *)

Requests == [op : ToSet(Operations), name : Seq(0 .. Base - 1),
             key : Seq(0 .. Base - 1), val : Seq(0 .. Base - 1)]

(* Type invariant: states of both sides, streams of bytes, and at most one  *)
(* request more than answers.                                               *)
TypeOK ==
  /\ client \in {"writing", "awaiting", "prompt", "eof", "quit", "failed"}
  /\ server \in {"reading", "closing", "closed"} /\ reset \in BOOLEAN
  /\ \A s \in {c2s, s2c, current_db} \cup ToSet(out) : ToSet(s) \subseteq 0 .. Base - 1
  /\ req \in Requests /\ ToSet(sent) \subseteq Requests
  /\ Len(got) <= Len(sent) /\ Len(sent) <= Len(got) + 1

\* What the limits of the server admit.
Valid(r) ==
  \/ r.op \in {"Stats", "Ping"}
  \/ /\ Len(r.name) \in 1 .. MaxDbNameLen /\ ToSet(r.name) \subseteq Letters
     /\ r.op \in {"Get", "Set", "Delete"} => Len(r.key) \in 1 .. MaxKeySize
     /\ r.op = "Set" => Len(r.val) \in 1 .. MaxValueSize

\* The i-th request that the server took is the i-th the client wrote.
TakenAsWritten(i) ==
  /\ i <= Len(sent)
  /\ \A f \in DOMAIN served[i].frame \ {"nlen", "klen", "vlen"} :
       served[i].frame[f] = sent[i][f]

(* What a worker or the manager is asked to do is what the user typed: the  *)
(* n-th request handle_client executes is the n-th the client has written,  *)
(* whole, with its name, key and value, whatever the cuts between reads and *)
(* wherever a client died; and it executes a request exactly when the       *)
(* limits admit it.                                                         *)
ExecutedAsAsked ==
  \A i \in 1 .. Len(served) :
    /\ served[i].executed => TakenAsWritten(i)
    /\ i <= Len(sent) => (served[i].executed <=> Valid(sent[i]))

(* The answer printed under a command is the answer to that command: the    *)
(* client reads the answers unchanged, one per request and in order, and    *)
(* print_stats_response and print_info_response decode the packet that was  *)
(* encoded, every field under its name, and do not panic on it.             *)
AnswersMatch ==
  \A i \in 1 .. Len(got) :
    /\ i <= Len(served) /\ got[i] = served[i].rsp
    /\ served[i].frame.op = sent[i].op
    /\ got[i].status = "Ok" /\ sent[i].op = "Stats" =>
         StatsFromBytes(got[i].payload) = StatsPacket
    /\ got[i].status = "Ok" /\ sent[i].op = "Info" =>
         InfoFromBytes(got[i].payload) = InfoPacket

(* read_exact_reuse_buf reserves the length the client claims before a byte *)
(* of the field arrives: keys and values are within the limits of the       *)
(* server by then, a name, whose limit is checked later, within its byte.   *)
BoundedReads ==
  server = "reading" /\ todo # <<>> =>
    Width(Head(todo)) <= (CASE Head(todo) = "key" -> MaxKeySize
                            [] Head(todo) = "val" -> MaxValueSize
                            [] OTHER -> Base - 1)

(* A client that was told nothing had its request not executed, unless a    *)
(* create or a drop failed or the client itself was killed: the answer to   *)
(* an executed request is never lost to the reset of a closing server.      *)
ExecutedAnswersArrive ==
  [][IoErr => \A i \in 1 .. Len(served) :
       served[i].executed /\ served[i].rsp.status # "none" => i <= Len(got)]_vars

(* create_db and drop_db return: Manager's AdminEnds says when they do.     *)
AdminReturns == []<>~Administering

(* Liveness: a request ends with an answer or with an error, a refused, a   *)
(* failed and a half-written one too, unless it is a CREATE or a DROP that  *)
(* never returns because some other client does not read.                   *)
RequestsEnd ==
  AdminReturns =>
    (client \in {"writing", "awaiting"} ~> client \in {"prompt", "quit", "failed"})

(* Liveness: the task of a client that has gone ends, in the middle of a    *)
(* frame too (run_server counts it until then), unless it is in a create or *)
(* a drop that never returns.                                               *)
TasksEnd == AdminReturns => (Gone ~> server = "closed")

(* What `--db-name` and USE promise (client.rs: "Database name to operate   *)
(* on."): a request goes to the database that was named, however long the   *)
(* name is.                                                                 *)
OperatesOnNamed ==
  \A i \in 1 .. Len(served) : served[i].executed => TakenAsWritten(i)
=============================================================================
