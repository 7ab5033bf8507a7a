------------------------------ MODULE KVStore ------------------------------
(***************************************************************************)
(* What one database promises its clients, with no queue, file or worker:  *)
(* a query takes effect at one instant between its call and its answer; a  *)
(* write answered with an error has no effect until a restart, and then    *)
(* perhaps has; a restart forgets at most what has not settled, a suffix   *)
(* of the writes, and may keep one write that nobody had answered yet.     *)
(***************************************************************************)
EXTENDS Naturals, Sequences, FiniteSets

CONSTANTS Keys, Vals, NoVal, Clients, Nothing

Writes == [op : {"SET"}, key : Keys, val : Vals]
            \cup [op : {"DELETE"}, key : Keys, val : {NoVal}]
Queries == Writes \cup [op : {"GET"}, key : Keys, val : {NoVal}]
                  \cup [op : {"INFO"}, key : {NoVal}, val : {NoVal}]

VARIABLES
  up,        \* the database takes queries
  log,       \* the writes a restart may find, oldest first
  settled,   \* how many of them every restart finds
  view,      \* what queries are answered from
  req, ans   \* per client: its query and the answer; Nothing when none

vars == <<up, log, settled, view, req, ans>>

Absent == [k \in Keys |-> NoVal]
Idle == [c \in Clients |-> Nothing]

\* m is what the writes of l leave: every key at its last one.
IsReplay(m, l) ==
  \A k \in Keys :
    LET on == {i \in DOMAIN l : l[i].key = k} IN
      \/ on = {} /\ m[k] = NoVal
      \/ \E i \in on : (\A j \in on : j <= i) /\ m[k] = l[i].val

Init ==
  /\ up = FALSE /\ log = <<>> /\ settled = 0 /\ view = Absent
  /\ req = Idle /\ ans = Idle

Pending(c) == req[c] # Nothing /\ ans[c] = Nothing
Answer(c, code, v) ==
  ans' = [ans EXCEPT ![c] = [op |-> code, key |-> NoVal, val |-> v]]

Call(c) ==
  /\ up /\ req[c] = Nothing
  /\ \E q \in Queries : req' = [req EXCEPT ![c] = q]
  /\ UNCHANGED <<up, log, settled, view, ans>>

Get(c) ==
  /\ Pending(c) /\ req[c].op = "GET"
  /\ LET v == view[req[c].key] IN
       IF v = NoVal THEN Answer(c, "KeyNotFound", NoVal)
                    ELSE Answer(c, "KeyValue", v)
  /\ UNCHANGED <<up, log, settled, view, req>>

\* The summary is of one instant; only its number of keys is said here.
Info(c) ==
  /\ Pending(c) /\ req[c].op = "INFO"
  /\ \E packet \in {ans'[c]} :
       /\ packet.op = "Info"
       /\ packet.key_count = Cardinality({k \in Keys : view[k] # NoVal})
       /\ ans' = [ans EXCEPT ![c] = packet]
  /\ UNCHANGED <<up, log, settled, view, req>>

Commit(c) ==
  /\ Pending(c) /\ req[c] \in Writes
  /\ log' = Append(log, req[c])
  /\ view' = [view EXCEPT ![req[c].key] = req[c].val]
  /\ IF req[c].op = "DELETE" /\ view[req[c].key] = NoVal
       THEN Answer(c, "KeyNotFound", NoVal) ELSE Answer(c, "Ok", NoVal)
  /\ settled' \in settled..Len(log')
  /\ UNCHANGED <<up, req>>

Refuse(c) ==
  /\ Pending(c) /\ req[c] \in Writes
  /\ log' \in {log, Append(log, req[c])}
  /\ Answer(c, "InternalError", NoVal)
  /\ UNCHANGED <<up, settled, view, req>>

Return(c) ==
  /\ ans[c] # Nothing
  /\ req' = [req EXCEPT ![c] = Nothing] /\ ans' = [ans EXCEPT ![c] = Nothing]
  /\ UNCHANGED <<up, log, settled, view>>

Settle ==
  /\ settled' \in settled..Len(log)
  /\ UNCHANGED <<up, log, view, req, ans>>

\* The database goes, by accident or in order, or is lost while it is down.
Stop ==
  /\ \/ \E n \in settled..Len(log) : log' = SubSeq(log, 1, n)
     \/ \E c \in Clients : /\ Pending(c) /\ req[c] \in Writes
                           /\ log' = Append(log, req[c])
  /\ up' = FALSE /\ view' = Absent /\ req' = Idle /\ ans' = Idle
  /\ UNCHANGED settled

Start ==
  /\ ~up /\ up' = TRUE
  /\ view' \in {m \in [Keys -> Vals \cup {NoVal}] : IsReplay(m, log)}
  /\ UNCHANGED <<log, settled, req, ans>>

Next ==
  \/ Settle \/ Stop \/ Start
  \/ \E c \in Clients :
       Call(c) \/ Get(c) \/ Info(c) \/ Commit(c) \/ Refuse(c) \/ Return(c)

Spec == Init /\ [][Next]_vars
=============================================================================
