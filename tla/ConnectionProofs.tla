-------------------------- MODULE ConnectionProofs --------------------------
(***************************************************************************)
(* What TLAPS proves about Connection, for every alphabet, all limits and  *)
(* all names, keys and values: reads stay within the limits, what is       *)
(* executed is what was typed, and an answer is read as it was sent, under *)
(* the request it belongs to.                                              *)
(*                                                                         *)
(* The last two hold as long as every request has fitted its length fields *)
(* (FitSoFar), always if all that can be typed fits (LengthsFit): the run  *)
(* of long names shows what happens otherwise.                             *)
(***************************************************************************)
EXTENDS Connection, SequenceTheorems, TLAPS

Byte == 0 .. Base - 1
OpNames == ToSet(Operations)
FieldNames == {"op", "nlen", "klen", "vlen", "name", "key", "val"}

LengthsFit ==
  /\ \A n \in DbNames \cup InitialDbs : Len(n) < Base
  /\ \A s \in Keys \cup Values : Len(s) < Base * Base

-----------------------------------------------------------------------------
(* The shape of the state: what the reads and the limits rest on. *)

Frames == UNION {[S -> OpNames \cup {"None"} \cup Nat \cup Seq(Byte)] :
                   S \in SUBSET FieldNames}
Responses == [status : ToSet(Statuses) \cup {"none"}, payload : Seq(Byte)]
Serveds == [executed : BOOLEAN, frame : Frames, rsp : Responses]

\* How many fields of the request the server has read.
Taken == IF todo = <<"op">> THEN 0 ELSE 1 + Len(Fields(frame.op)) - Len(todo)

\* The fields before the t-th of those that follow the operation.
Before(op, t) == {"op"} \cup {Fields(op)[i] : i \in 1 .. t - 1}

ClientInv ==
  /\ client \in {"writing", "awaiting", "prompt", "eof", "quit", "failed"}
  /\ req \in Requests /\ current_db \in Seq(Byte)
  /\ out \in Seq(Seq(Byte)) /\ Len(out) <= 7
  /\ client = "writing" <=> out # <<>>
  /\ sent \in Seq(Requests) /\ got \in Seq(Responses)
  /\ Len(sent) \in {Len(got), Len(got) + 1}
  /\ client \in {"writing", "prompt", "eof"} => Len(sent) = Len(got)
  /\ client \in {"awaiting", "quit"} => Len(sent) = Len(got) + 1

StreamTypes ==
  c2s \in Seq(Byte) /\ s2c \in Seq(Byte) /\ reset \in BOOLEAN

FrameInv ==
  /\ frame \in Frames
  /\ todo \in Seq(FieldNames)
  /\ server = "reading" /\ todo # <<"op">> =>
       /\ frame.op \in OpNames \ {"Close"}
       /\ Len(todo) <= Len(Fields(frame.op))
       /\ todo = SubSeq(Fields(frame.op), Taken, Len(Fields(frame.op)))
       /\ DOMAIN frame = Before(frame.op, Taken)
       /\ "nlen" \in DOMAIN frame => frame.nlen \in Byte
       /\ "klen" \in DOMAIN frame => frame.klen \in Nat
       /\ "vlen" \in DOMAIN frame => frame.vlen \in Nat
       /\ "name" \in DOMAIN frame => Verdict(frame) = "valid"

ServerInv ==
  /\ server \in {"reading", "closing", "closed"}
  /\ served \in Seq(Serveds)
  /\ FrameInv

ShapeInv == ClientInv /\ StreamTypes /\ ServerInv

-----------------------------------------------------------------------------
(* The conversation: what the answers rest on. *)

\* A few byte strings one after the other.
Part(w, i) == IF i <= Len(w) THEN w[i] ELSE <<>>
Cat(w) ==
  Part(w, 1) \o (Part(w, 2) \o (Part(w, 3) \o (Part(w, 4)
    \o (Part(w, 5) \o (Part(w, 6) \o Part(w, 7))))))

\* What a field of r is once it is read.
FieldOf(r, f) ==
  CASE f = "nlen" -> Len(r.name)
    [] f = "klen" -> Len(r.key)
    [] f = "vlen" -> Len(r.val)
    [] OTHER -> r[f]

\* The bytes of the request that the server has still to read, and those of
\* them that the client has still to write (or never will).
Unread == Cat(SubSeq(Writes(req), Taken + 1, Len(Writes(req))))
Missing == Drop(Unread, Len(c2s))

Fits(r) == Len(r.name) < Base /\ Len(r.key) < Base * Base /\ Len(r.val) < Base * Base

Answered == Len(served) = Len(got) + 1
Latest == served[Len(got) + 1]

RequestInv ==
  /\ Fits(req)
  /\ Len(sent) = Len(got) + 1 => sent[Len(sent)] = req
  /\ client = "quit" => req.op = "Close"
  /\ Valid(req) => \A i \in 1 .. Len(out) : out[i] # <<>>

\* A request under way: the stream holds what the server has not read of it.
PendingInv ==
  ~Answered =>
    /\ s2c = <<>>
    /\ server = "reading" /\ client \in {"prompt", "eof"} => c2s = <<>> /\ todo = <<"op">>
    /\ server = "reading" /\ client \notin {"prompt", "eof"} =>
         /\ c2s \o Missing = Unread /\ Len(c2s) <= Len(Unread)
         /\ client # "failed" => Missing = Cat(out)
         /\ Len(sent) = Len(got) /\ Valid(req) => Missing # <<>>
         /\ todo # <<"op">> => \A f \in DOMAIN frame : frame[f] = FieldOf(req, f)

GoodAnswer(op, rsp) ==
  /\ Len(rsp.payload) < Base * Base
  /\ rsp.status = "Ok" /\ op = "Stats" => rsp.payload = StatsToBytes(StatsPacket)
  /\ rsp.status = "Ok" /\ op = "Info" => rsp.payload = InfoToBytes(InfoPacket)

\* An answer under way: it is all there is in the stream, and after a request
\* that was executed nothing is left that could reset the connection.
AnsweredInv ==
  Answered =>
    /\ s2c = IF Latest.rsp.status = "none" THEN <<>> ELSE send_response(Latest.rsp)
    /\ GoodAnswer(req.op, Latest.rsp)
    /\ Latest.frame.op = req.op /\ req.op # "Close"
    /\ client \in {"writing", "awaiting", "failed"}
    /\ server = "reading" =>
         todo = <<"op">> /\ c2s = <<>> /\ Latest.executed /\ Latest.rsp.status # "none"
    /\ Latest.executed => client # "writing" /\ c2s = <<>> /\ ~reset
    /\ ~Latest.executed => ~Valid(req)

ConversationInv ==
  /\ Len(served) \in {Len(got), Len(got) + 1}
  /\ server # "closed" => ~reset
  /\ RequestInv /\ PendingInv /\ AnsweredInv
  /\ ExecutedAsAsked /\ AnswersMatch

ConnectionInv == ShapeInv /\ ConversationInv

-----------------------------------------------------------------------------
(* Operations, fields and lengths. *)

LEMMA BaseFacts ==
  /\ Base \in Nat /\ Base > 9 /\ Base * Base \in Nat /\ Base < Base * Base
  /\ MaxDbNameLen \in Nat /\ MaxKeySize \in Nat /\ MaxValueSize \in Nat
  /\ MaxValueSize < Base * Base
  /\ Letters \subseteq Byte /\ Letters # {}
  /\ DbNames \cup Keys \cup Values \cup InitialDbs \subseteq Seq(Byte)
<1>1. Base \in Nat /\ Base > 9
  BY ConnectionAssumption DEF Operations
<1>2. \A b \in Nat : b > 9 => b * b \in Nat /\ b < b * b
  OBVIOUS
<1>3. Base * Base \in Nat /\ Base < Base * Base
  BY <1>1, <1>2
<1> DEFINE bb == Base * Base
<1>4. MaxValueSize \in 0 .. bb - 1 /\ bb \in Nat
  BY <1>3, ConnectionAssumption
<1> HIDE DEF bb
<1>5. MaxValueSize \in Nat /\ MaxValueSize < bb
  BY <1>4
<1> QED
  BY <1>1, <1>3, <1>5, ConnectionAssumption DEF Byte, bb

LEMMA OpNamesAre ==
  /\ OpNames = {"Stats", "Ping", "Close", "Create", "Info", "Drop", "Get", "Set", "Delete"}
  /\ "None" \notin OpNames
BY DEF OpNames, Operations, ToSet

LEMMA StatusesAre ==
  ToSet(Statuses) = {"Ok", "Pong", "DbNotFound", "DbAlreadyExists", "KeyValue",
                     "KeyNotFound", "InvalidRequest", "PayloadTooLarge", "InternalError"}
BY DEF Statuses, ToSet

\* Which fields there are, and which ones precede which.
LEMMA FieldsFacts ==
  ASSUME NEW op
  PROVE  /\ Fields(op) \in Seq(FieldNames \ {"op"}) /\ Len(Fields(op)) \in {0, 2, 4, 6}
         /\ \A i, j \in 1 .. Len(Fields(op)) : Fields(op)[i] = Fields(op)[j] => i = j
         /\ op \in {"Stats", "Ping", "Close"} => Fields(op) = <<>>
         /\ op \in {"Create", "Info", "Drop"} => Fields(op) = <<"nlen", "name">>
         /\ op \in {"Get", "Delete"} => Fields(op) = <<"nlen", "klen", "name", "key">>
         /\ op = "Set" => Fields(op) = <<"nlen", "klen", "vlen", "name", "key", "val">>
<1>1. CASE op \in {"Create", "Info", "Drop"}
  <2>1. Fields(op) = <<"nlen", "name">>
    BY <1>1 DEF Fields
  <2> QED
    BY <1>1, <2>1 DEF FieldNames
<1>2. CASE op \in {"Get", "Delete"}
  <2>1. Fields(op) = <<"nlen", "klen", "name", "key">>
    BY <1>2 DEF Fields
  <2> QED
    BY <1>2, <2>1 DEF FieldNames
<1>3. CASE op = "Set"
  <2>1. Fields(op) = <<"nlen", "klen", "vlen", "name", "key", "val">>
    BY <1>3 DEF Fields
  <2>2. /\ Fields(op) \in Seq(FieldNames \ {"op"}) /\ Len(Fields(op)) = 6
        /\ \A i \in 1 .. 6 :
             Fields(op)[i] = IF i = 1 THEN "nlen" ELSE IF i = 2 THEN "klen"
                             ELSE IF i = 3 THEN "vlen" ELSE IF i = 4 THEN "name"
                             ELSE IF i = 5 THEN "key" ELSE "val"
    BY <2>1 DEF FieldNames
  <2>3. \A i, j \in 1 .. 6 : Fields(op)[i] = Fields(op)[j] => i = j
    BY <2>2
  <2> QED
    BY <1>3, <2>1, <2>2, <2>3
<1>4. CASE op \notin {"Create", "Info", "Drop", "Get", "Delete", "Set"}
  <2>1. Fields(op) = <<>>
    BY <1>4 DEF Fields
  <2> QED
    BY <1>4, <2>1
<1> QED
  BY <1>1, <1>2, <1>3, <1>4

-----------------------------------------------------------------------------
(* Encodings. *)

LEMMA U8 ==
  ASSUME NEW n \in Nat
  PROVE  /\ u8(n) \in Seq(Byte) /\ Len(u8(n)) = 1 /\ u8(n) = <<n % Base>>
         /\ n < Base => u8(n)[1] = n /\ Number(u8(n)) = n
<1>1. n % Base \in Byte /\ (n < Base => n % Base = n)
  BY BaseFacts DEF Byte
<1> QED
  BY <1>1 DEF u8, Number

LEMMA U32Bytes ==
  ASSUME NEW n \in Nat
  PROVE  /\ u32(n) \in Seq(Byte) /\ Len(u32(n)) = 2
         /\ n < Base * Base => Number(u32(n)) = n
<1> DEFINE lo == n % Base
           hi == n \div Base
<1>1. lo \in Byte /\ hi \in Nat /\ n = Base * hi + lo
  BY BaseFacts DEF Byte
<1>2. (hi % Base) \in Byte
  <2> HIDE DEF lo, hi
  <2> QED
    BY <1>1, BaseFacts DEF Byte
<1>3. u32(n) = <<lo, hi % Base>>
  BY DEF u32
<1>4. n < Base * Base => hi < Base
  <2> HIDE DEF lo, hi
  <2>1. ASSUME NEW b \in Nat, NEW h \in Nat, NEW l \in Nat, b * h + l < b * b, b > 0 PROVE h < b
    <3>1. SUFFICES ASSUME h >= b PROVE FALSE
      OBVIOUS
    <3>2. PICK d \in Nat : h = b + d
      <4>1. h - b \in Nat /\ h = b + (h - b)
        BY <3>1
      <4> QED
        BY <4>1
    <3>3. b * (b + d) = b * b + b * d /\ b * d \in Nat /\ b * b \in Nat
      OBVIOUS
    <3>4. b * h = b * b + b * d
      BY <3>2, <3>3
    <3> QED
      BY <2>1, <3>3, <3>4
  <2>2. lo \in Nat
    BY <1>1, BaseFacts DEF Byte
  <2> QED
    BY <1>1, <2>1, <2>2, BaseFacts
<1>5. n < Base * Base => hi % Base = hi
  <2> HIDE DEF lo, hi
  <2> QED
    BY <1>1, <1>4, BaseFacts
<1>6. Number(<<lo, hi % Base>>) = lo + Base * (hi % Base)
  BY DEF Number
<1>7. Base * hi \in Nat /\ lo \in Nat
  <2> HIDE DEF lo, hi
  <2> QED
    BY <1>1, BaseFacts DEF Byte
<1>8. n < Base * Base => lo + Base * (hi % Base) = n
  <2> HIDE DEF lo, hi
  <2> QED
    BY <1>1, <1>5, <1>7
<1>9. ASSUME NEW x \in Byte, NEW y \in Byte PROVE <<x, y>> \in Seq(Byte) /\ Len(<<x, y>>) = 2
  OBVIOUS
<1> HIDE DEF lo, hi
<1> QED
  BY <1>1, <1>2, <1>3, <1>6, <1>8, <1>9

LEMMA NumberNat ==
  ASSUME NEW b \in Seq(Byte), Len(b) \in {1, 2}
  PROVE  Number(b) \in Nat /\ (Len(b) = 1 => Number(b) \in Byte)
<1>1. \A i \in 1 .. Len(b) : b[i] \in Byte
  OBVIOUS
<1>2. CASE Len(b) = 1
  BY <1>1, <1>2, BaseFacts DEF Number, Byte
<1>3. CASE Len(b) = 2
  <2>1. b[1] \in Nat /\ b[2] \in Nat
    BY <1>1, <1>3, BaseFacts DEF Byte
  <2>2. \A x, y, z \in Nat : x + z * y \in Nat
    OBVIOUS
  <2>3. b[1] + Base * b[2] \in Nat
    BY <2>1, <2>2, BaseFacts
  <2> QED
    BY <1>3, <2>3 DEF Number
<1> QED
  BY <1>2, <1>3

LEMMA OpCodes ==
  ASSUME NEW op \in OpNames
  PROVE  to_u8(op) \in 0 .. 8 /\ from_u8(to_u8(op)) = op
<1>1. \E i \in 0 .. Len(Operations) - 1 : Operations[i + 1] = op
  <2>1. PICK k \in DOMAIN Operations : Operations[k] = op
    BY DEF OpNames, ToSet
  <2>2. k \in 1 .. 9 /\ Len(Operations) = 9
    BY DEF Operations
  <2>3. k - 1 \in 0 .. Len(Operations) - 1 /\ Operations[(k - 1) + 1] = op
    BY <2>1, <2>2
  <2> QED
    BY <2>3
<1>2. to_u8(op) \in 0 .. Len(Operations) - 1 /\ Operations[to_u8(op) + 1] = op
  BY <1>1, Zenon DEF to_u8
<1>3. Len(Operations) = 9
  BY DEF Operations
<1>4. to_u8(op) \in 0 .. 8 /\ to_u8(op) < 9
  BY <1>2, <1>3
<1> QED
  BY <1>2, <1>3, <1>4 DEF from_u8

LEMMA StatusCodes ==
  ASSUME NEW st \in ToSet(Statuses)
  PROVE  code(st) \in 0 .. 8 /\ Statuses[code(st) + 1] = st
<1>1. \E i \in 0 .. Len(Statuses) - 1 : Statuses[i + 1] = st
  <2>1. PICK k \in DOMAIN Statuses : Statuses[k] = st
    BY DEF ToSet
  <2>2. k \in 1 .. 9 /\ Len(Statuses) = 9
    BY DEF Statuses
  <2>3. k - 1 \in 0 .. Len(Statuses) - 1 /\ Statuses[(k - 1) + 1] = st
    BY <2>1, <2>2
  <2> QED
    BY <2>3
<1>2. code(st) \in 0 .. Len(Statuses) - 1 /\ Statuses[code(st) + 1] = st
  BY <1>1, Zenon DEF code
<1>3. Len(Statuses) = 9
  BY DEF Statuses
<1> QED
  BY <1>2, <1>3

-----------------------------------------------------------------------------
(* Streams. *)

LEMMA DropFacts ==
  ASSUME NEW S, NEW s \in Seq(S), NEW n \in 0 .. Len(s)
  PROVE  /\ Drop(s, n) \in Seq(S) /\ Len(Drop(s, n)) = Len(s) - n
         /\ \A i \in 1 .. Len(s) - n : Drop(s, n)[i] = s[n + i]
         /\ SubSeq(s, 1, n) \in Seq(S) /\ Len(SubSeq(s, 1, n)) = n
         /\ \A i \in 1 .. n : SubSeq(s, 1, n)[i] = s[i]
         /\ SubSeq(s, 1, n) \o Drop(s, n) = s
<1>1. Len(s) \in Nat /\ n \in Nat /\ n <= Len(s) /\ \A i \in 1 .. Len(s) : s[i] \in S
  OBVIOUS
<1>2. /\ SubSeq(s, n + 1, Len(s)) \in Seq(S) /\ Len(SubSeq(s, n + 1, Len(s))) = Len(s) - n
      /\ \A i \in 1 .. Len(s) - n : SubSeq(s, n + 1, Len(s))[i] = s[n + i]
  BY <1>1
<1>3. /\ SubSeq(s, 1, n) \in Seq(S) /\ Len(SubSeq(s, 1, n)) = n
      /\ \A i \in 1 .. n : SubSeq(s, 1, n)[i] = s[i]
  BY <1>1
<1>4. SubSeq(s, 1, n) \o SubSeq(s, n + 1, Len(s)) = SubSeq(s, 1, Len(s))
  <2>1. 1 \in 1 .. Len(s) + 1 /\ n \in 1 - 1 .. Len(s) /\ Len(s) \in n .. Len(s)
    BY <1>1
  <2> QED
    BY <2>1, ConcatAdjacentSubSeq
<1>5. SubSeq(s, 1, Len(s)) = s
  BY SubSeqFull
<1> QED
  BY <1>2, <1>3, <1>4, <1>5 DEF Drop

LEMMA Concat ==
  ASSUME NEW a \in Seq(Byte), NEW b \in Seq(Byte)
  PROVE  /\ a \o b \in Seq(Byte) /\ Len(a \o b) = Len(a) + Len(b)
         /\ Len(a) \in Nat /\ Len(b) \in Nat
         /\ \A i \in 1 .. Len(a) : (a \o b)[i] = a[i]
         /\ \A i \in 1 .. Len(b) : (a \o b)[Len(a) + i] = b[i]
OBVIOUS

LEMMA Assoc ==
  ASSUME NEW s \in Seq(Byte), NEW t \in Seq(Byte), NEW u \in Seq(Byte)
  PROVE  (s \o t) \o u = s \o (t \o u)
BY ConcatAssociative

\* The front of a stream that holds at least x.
LEMMA CutFront ==
  ASSUME NEW a \in Seq(Byte), NEW b \in Seq(Byte), NEW x \in Seq(Byte), NEW y \in Seq(Byte),
         a \o b = x \o y, Len(x) <= Len(a)
  PROVE  SubSeq(a, 1, Len(x)) = x /\ Drop(a, Len(x)) \o b = y
<1>1. Len(x) \in 0 .. Len(a) /\ Len(x) \in Nat
  OBVIOUS
<1>2. PICK p \in Seq(Byte), q \in Seq(Byte) :
        /\ p = SubSeq(a, 1, Len(x)) /\ q = Drop(a, Len(x)) /\ Len(p) = Len(x)
        /\ p \o q = a /\ \A i \in 1 .. Len(x) : p[i] = a[i]
  BY <1>1, DropFacts
<1>3. p = x
  <2>1. \A i \in 1 .. Len(x) : (a \o b)[i] = a[i] /\ (x \o y)[i] = x[i]
    BY <1>1
  <2>2. \A i \in 1 .. Len(x) : p[i] = x[i]
    BY <1>2, <2>1
  <2> QED
    BY <1>2, <2>2, SeqEqual
<1>4. x \o (q \o b) = x \o y
  <2>1. (p \o q) \o b = p \o (q \o b)
    BY Assoc
  <2> QED
    BY <1>2, <1>3, <2>1
<1>5. q \o b \in Seq(Byte)
  OBVIOUS
<1>6. q \o b = y
  BY <1>4, <1>5, ConcatSimplifications
<1> QED
  BY <1>2, <1>3, <1>6

LEMMA PartType ==
  ASSUME NEW w \in Seq(Seq(Byte)), NEW i \in Nat \ {0}
  PROVE  Part(w, i) \in Seq(Byte)
BY DEF Part

LEMMA CatType ==
  ASSUME NEW w \in Seq(Seq(Byte))
  PROVE  Cat(w) \in Seq(Byte) /\ (w = <<>> => Cat(w) = <<>>)
<1>1. \A i \in 1 .. 7 : Part(w, i) \in Seq(Byte)
  BY PartType
<1>2. Cat(w) \in Seq(Byte)
  BY <1>1 DEF Cat
<1>3. ASSUME w = <<>> PROVE Cat(w) = <<>>
  <2>1. \A i \in 1 .. 7 : Part(w, i) = <<>>
    BY <1>3 DEF Part
  <2>2. <<>> \o <<>> = <<>>
    OBVIOUS
  <2> QED
    BY <2>1, <2>2 DEF Cat
<1> QED
  BY <1>2, <1>3

LEMMA CatFirst ==
  ASSUME NEW w \in Seq(Seq(Byte)), w # <<>>, Len(w) <= 7
  PROVE  /\ Cat(w) = Head(w) \o Cat(Tail(w))
         /\ Head(w) \in Seq(Byte) /\ Tail(w) \in Seq(Seq(Byte)) /\ Cat(Tail(w)) \in Seq(Byte)
<1>1. Head(w) \in Seq(Byte) /\ Tail(w) \in Seq(Seq(Byte)) /\ Len(Tail(w)) = Len(w) - 1 /\ Len(w) > 0
  OBVIOUS
<1>2. \A i \in 1 .. 7 : Part(Tail(w), i) = Part(w, i + 1)
  BY <1>1 DEF Part
<1>3. Part(w, 8) = <<>> /\ Part(w, 1) = Head(w)
  BY <1>1 DEF Part
<1>4. Part(w, 7) \in Seq(Byte)
  BY PartType
<1>5. Part(w, 7) \o <<>> = Part(w, 7)
  BY <1>4
<1>6. Part(Tail(w), 6) \o Part(Tail(w), 7) = Part(w, 7)
  <2>1. Part(Tail(w), 6) = Part(w, 7) /\ Part(Tail(w), 7) = Part(w, 8)
    BY <1>2
  <2> QED
    BY <1>3, <1>5, <2>1, Zenon
<1>7. /\ Part(Tail(w), 1) = Part(w, 2) /\ Part(Tail(w), 2) = Part(w, 3)
      /\ Part(Tail(w), 3) = Part(w, 4) /\ Part(Tail(w), 4) = Part(w, 5)
      /\ Part(Tail(w), 5) = Part(w, 6)
  BY <1>2
<1>8. Cat(w) = Head(w) \o Cat(Tail(w))
  BY <1>3, <1>6, <1>7, Zenon DEF Cat
<1> QED
  BY <1>1, <1>8, CatType

\* A write moves the bytes from the one side of the stream to the other.
LEMMA CatWrite ==
  ASSUME NEW w \in Seq(Seq(Byte)), w # <<>>, Len(w) <= 7, NEW s \in Seq(Byte)
  PROVE  (s \o Head(w)) \o Cat(Tail(w)) = s \o Cat(w)
<1>1. /\ Cat(w) = Head(w) \o Cat(Tail(w))
      /\ Head(w) \in Seq(Byte) /\ Cat(Tail(w)) \in Seq(Byte)
  BY CatFirst
<1>2. PICK h \in Seq(Byte), t \in Seq(Byte) : h = Head(w) /\ t = Cat(Tail(w))
  BY <1>1, Zenon
<1>3. (s \o h) \o t = s \o (h \o t)
  BY Assoc
<1> QED
  BY <1>1, <1>2, <1>3

\* What is under way of a list of strings that are not empty is not empty.
LEMMA CatNotEmpty ==
  ASSUME NEW w \in Seq(Seq(Byte)), w # <<>>, Len(w) <= 7, Head(w) # <<>>
  PROVE  Cat(w) # <<>>
BY CatFirst, ConcatSimplifications

-----------------------------------------------------------------------------
(* Requests as bytes. *)

\* The bytes of a field of r.
Encoding(r, f) ==
  CASE f = "nlen" -> u8(Len(r.name))
    [] f = "klen" -> u32(Len(r.key))
    [] f = "vlen" -> u32(Len(r.val))
    [] f = "name" -> r.name
    [] f = "key" -> r.key
    [] f = "val" -> r.val

LEMMA RequestFacts ==
  ASSUME NEW r \in Requests
  PROVE  /\ r.op \in OpNames /\ r.name \in Seq(Byte) /\ r.key \in Seq(Byte) /\ r.val \in Seq(Byte)
         /\ Len(r.name) \in Nat /\ Len(r.key) \in Nat /\ Len(r.val) \in Nat
<1>1. r.op \in OpNames /\ r.name \in Seq(Byte) /\ r.key \in Seq(Byte) /\ r.val \in Seq(Byte)
  BY DEF Requests, OpNames, Byte
<1> QED
  BY <1>1, LenProperties

LEMMA EncodingFacts ==
  ASSUME NEW r \in Requests, NEW f \in FieldNames \ {"op"}
  PROVE  /\ Encoding(r, f) \in Seq(Byte)
         /\ f = "nlen" => Len(Encoding(r, f)) = 1
         /\ f \in {"klen", "vlen"} => Len(Encoding(r, f)) = 2
         /\ f = "name" => Len(Encoding(r, f)) = FieldOf(r, "nlen")
         /\ f = "key" => Len(Encoding(r, f)) = FieldOf(r, "klen")
         /\ f = "val" => Len(Encoding(r, f)) = FieldOf(r, "vlen")
<1>1. CASE f = "nlen"
  BY <1>1, RequestFacts, U8 DEF Encoding
<1>2. CASE f = "klen"
  BY <1>2, RequestFacts, U32Bytes DEF Encoding
<1>3. CASE f = "vlen"
  BY <1>3, RequestFacts, U32Bytes DEF Encoding
<1>4. CASE f = "name"
  BY <1>4, RequestFacts DEF Encoding, FieldOf
<1>5. CASE f = "key"
  BY <1>5, RequestFacts DEF Encoding, FieldOf
<1>6. CASE f = "val"
  BY <1>6, RequestFacts DEF Encoding, FieldOf
<1> QED
  BY <1>1, <1>2, <1>3, <1>4, <1>5, <1>6 DEF FieldNames

\* Reading a field back.
LEMMA DecodingFacts ==
  ASSUME NEW r \in Requests, Fits(r), NEW f \in FieldNames \ {"op"}
  PROVE  FieldOf(r, f) = IF f \in {"nlen", "klen", "vlen"}
                         THEN Number(Encoding(r, f)) ELSE Encoding(r, f)
<1>1. CASE f = "nlen"
  BY <1>1, RequestFacts, U8 DEF Encoding, FieldOf, Fits
<1>2. CASE f = "klen"
  BY <1>2, RequestFacts, U32Bytes DEF Encoding, FieldOf, Fits
<1>3. CASE f = "vlen"
  BY <1>3, RequestFacts, U32Bytes DEF Encoding, FieldOf, Fits
<1>4. CASE f = "name"
  BY <1>4 DEF Encoding, FieldOf
<1>5. CASE f = "key"
  BY <1>5 DEF Encoding, FieldOf
<1>6. CASE f = "val"
  BY <1>6 DEF Encoding, FieldOf
<1> QED
  BY <1>1, <1>2, <1>3, <1>4, <1>5, <1>6 DEF FieldNames

\* The client writes the fields in the order in which the server reads them.
LEMMA WritesFacts ==
  ASSUME NEW r \in Requests
  PROVE  /\ Writes(r) \in Seq(Seq(Byte)) /\ Len(Writes(r)) = 1 + Len(Fields(r.op))
         /\ Writes(r)[1] = u8(to_u8(r.op))
         /\ \A k \in 1 .. Len(Fields(r.op)) : Writes(r)[k + 1] = Encoding(r, Fields(r.op)[k])
<1>1. /\ u8(to_u8(r.op)) \in Seq(Byte) /\ u8(Len(r.name)) \in Seq(Byte)
      /\ u32(Len(r.key)) \in Seq(Byte) /\ u32(Len(r.val)) \in Seq(Byte)
      /\ r.name \in Seq(Byte) /\ r.key \in Seq(Byte) /\ r.val \in Seq(Byte)
  <2>1. /\ Len(r.name) \in Nat /\ Len(r.key) \in Nat /\ Len(r.val) \in Nat
        /\ r.name \in Seq(Byte) /\ r.key \in Seq(Byte) /\ r.val \in Seq(Byte)
        /\ r.op \in OpNames
    BY RequestFacts
  <2>2. to_u8(r.op) \in Nat
    BY <2>1, OpCodes
  <2> QED
    BY <2>1, <2>2, U8, U32Bytes
<1> DEFINE a == u8(to_u8(r.op))
           b == u8(Len(r.name))
           c == u32(Len(r.key))
           d == u32(Len(r.val))
<1>2. CASE r.op \in {"Stats", "Ping", "Close"}
  <2>1. Writes(r) = <<a>> /\ Fields(r.op) = <<>>
    BY <1>2, FieldsFacts DEF Writes
  <2> HIDE DEF a
  <2>2. a \in Seq(Byte)
    BY <1>1 DEF a
  <2>3. <<a>> \in Seq(Seq(Byte)) /\ Len(<<a>>) = 1 /\ <<a>>[1] = a
    BY <2>2
  <2> QED
    BY <2>1, <2>3 DEF a
<1>3. CASE r.op \in {"Create", "Info", "Drop"}
  <2>1. Writes(r) = <<a, b, r.name>> /\ Fields(r.op) = <<"nlen", "name">>
    BY <1>3, FieldsFacts DEF Writes
  <2>2. Encoding(r, "nlen") = b /\ Encoding(r, "name") = r.name
    BY DEF Encoding
  <2> HIDE DEF a, b
  <2>3. a \in Seq(Byte) /\ b \in Seq(Byte)
    BY <1>1 DEF a, b
  <2>4. Writes(r) \in Seq(Seq(Byte)) /\ Len(Writes(r)) = 3 /\ Writes(r)[1] = a
    BY <1>1, <2>1, <2>3
  <2>5. \A k \in 1 .. 2 : Writes(r)[k + 1] = Encoding(r, Fields(r.op)[k])
    BY <2>1, <2>2
  <2> QED
    BY <2>1, <2>4, <2>5 DEF a
<1>4. CASE r.op \in {"Get", "Delete"}
  <2>1. Writes(r) = <<a, b, c, r.name, r.key>> /\ Fields(r.op) = <<"nlen", "klen", "name", "key">>
    BY <1>4, FieldsFacts DEF Writes
  <2>2. /\ Encoding(r, "nlen") = b /\ Encoding(r, "name") = r.name
        /\ Encoding(r, "klen") = c /\ Encoding(r, "key") = r.key
    BY DEF Encoding
  <2> HIDE DEF a, b, c
  <2>3. a \in Seq(Byte) /\ b \in Seq(Byte) /\ c \in Seq(Byte)
    BY <1>1 DEF a, b, c
  <2>4. Writes(r) \in Seq(Seq(Byte)) /\ Len(Writes(r)) = 5 /\ Writes(r)[1] = a
    BY <1>1, <2>1, <2>3
  <2>5. \A k \in 1 .. 4 : Writes(r)[k + 1] = Encoding(r, Fields(r.op)[k])
    BY <2>1, <2>2
  <2> QED
    BY <2>1, <2>4, <2>5 DEF a
<1>5. CASE r.op = "Set"
  <2>1. /\ Writes(r) = <<a, b, c, d, r.name, r.key, r.val>>
        /\ Fields(r.op) = <<"nlen", "klen", "vlen", "name", "key", "val">>
    BY <1>5, FieldsFacts DEF Writes
  <2>2. /\ Encoding(r, "nlen") = b /\ Encoding(r, "name") = r.name
        /\ Encoding(r, "klen") = c /\ Encoding(r, "key") = r.key
        /\ Encoding(r, "vlen") = d /\ Encoding(r, "val") = r.val
    BY DEF Encoding
  <2> HIDE DEF a, b, c, d
  <2>3. a \in Seq(Byte) /\ b \in Seq(Byte) /\ c \in Seq(Byte) /\ d \in Seq(Byte)
    BY <1>1 DEF a, b, c, d
  <2>4. Writes(r) \in Seq(Seq(Byte)) /\ Len(Writes(r)) = 7 /\ Writes(r)[1] = a
    BY <1>1, <2>1, <2>3
  <2>5. \A k \in 1 .. 6 : Writes(r)[k + 1] = Encoding(r, Fields(r.op)[k])
    BY <2>1, <2>2
  <2> QED
    BY <2>1, <2>4, <2>5 DEF a
<1> QED
  BY <1>2, <1>3, <1>4, <1>5, RequestFacts, OpNamesAre

LEMMA ValidWrites ==
  ASSUME NEW r \in Requests, Valid(r)
  PROVE  \A i \in 1 .. Len(Writes(r)) : Writes(r)[i] # <<>>
<1> SUFFICES ASSUME NEW i \in 1 .. Len(Writes(r)) PROVE Writes(r)[i] # <<>>
  OBVIOUS
<1>1. Len(Fields(r.op)) \in Nat
  BY FieldsFacts
<1>2. CASE i = 1
  <2>1. to_u8(r.op) \in Nat
    BY RequestFacts, OpCodes
  <2>2. u8(to_u8(r.op)) # <<>>
    BY <2>1 DEF u8
  <2>3. Writes(r)[i] = u8(to_u8(r.op))
    BY <1>2, WritesFacts
  <2> QED
    BY <2>2, <2>3
<1>3. CASE i > 1
  <2> DEFINE k == i - 1
             f == Fields(r.op)[k]
  <2>1. k \in 1 .. Len(Fields(r.op)) /\ k + 1 = i
    BY <1>1, <1>3, WritesFacts
  <2> HIDE DEF k
  <2>2. Writes(r)[i] = Encoding(r, f)
    BY <2>1, WritesFacts
  <2>3. f \in FieldNames \ {"op"}
    BY <2>1, FieldsFacts
  <2>4. /\ r.op \notin {"Stats", "Ping"}
        /\ f = "key" => r.op \in {"Get", "Set", "Delete"}
        /\ f = "val" => r.op = "Set"
    <3>1. CASE r.op \in {"Stats", "Ping", "Close"}
      <4>1. Fields(r.op) = <<>>
        BY <3>1, FieldsFacts
      <4> QED
        BY <2>1, <4>1
    <3>2. CASE r.op \in {"Create", "Info", "Drop"}
      <4>1. Fields(r.op) = <<"nlen", "name">>
        BY <3>2, FieldsFacts
      <4>2. f \in {"nlen", "name"}
        BY <2>1, <4>1
      <4> QED
        BY <3>2, <4>2
    <3>3. CASE r.op \in {"Get", "Delete"}
      <4>1. Fields(r.op) = <<"nlen", "klen", "name", "key">>
        BY <3>3, FieldsFacts
      <4>2. f \in {"nlen", "klen", "name", "key"}
        BY <2>1, <4>1
      <4> QED
        BY <3>3, <4>2
    <3>4. CASE r.op = "Set"
      BY <3>4
    <3> QED
      BY <3>1, <3>2, <3>3, <3>4, RequestFacts, OpNamesAre
  <2> HIDE DEF f
  <2>5. CASE f \in {"nlen", "klen", "vlen"}
    <3>1. Len(Encoding(r, f)) \in {1, 2}
      BY <2>3, <2>5, EncodingFacts
    <3> QED
      BY <2>2, <3>1
  <2>6. CASE f = "name"
    <3>1. Encoding(r, f) = r.name /\ Len(r.name) > 0
      BY <2>4, <2>6, RequestFacts, BaseFacts DEF Valid, Encoding
    <3> QED
      BY <2>2, <3>1
  <2>7. CASE f = "key"
    <3>1. Encoding(r, f) = r.key /\ Len(r.key) > 0
      BY <2>4, <2>7, RequestFacts, BaseFacts DEF Valid, Encoding
    <3> QED
      BY <2>2, <3>1
  <2>8. CASE f = "val"
    <3>1. Encoding(r, f) = r.val /\ Len(r.val) > 0
      BY <2>4, <2>8, RequestFacts, BaseFacts DEF Valid, Encoding
    <3> QED
      BY <2>2, <3>1
  <2> QED
    BY <2>3, <2>5, <2>6, <2>7, <2>8 DEF FieldNames
<1> QED
  BY <1>2, <1>3

-----------------------------------------------------------------------------
(* Answers as bytes. *)

\* A byte, two bytes and the rest.
LEMMA TwoParts ==
  ASSUME NEW a \in Seq(Byte), NEW l \in Seq(Byte), Len(a) = 1, Len(l) = 2
  PROVE  \E h \in Seq(Byte) : /\ h = a \o l /\ Len(h) = 3
                              /\ h[1] = a[1] /\ h[2] = l[1] /\ h[3] = l[2]
<1>1. a \o l \in Seq(Byte) /\ Len(a \o l) = Len(a) + Len(l)
  BY Concat
<1>2. \A i \in 1 .. Len(a) : (a \o l)[i] = a[i]
  BY Concat
<1>3. \A i \in 1 .. Len(l) : (a \o l)[Len(a) + i] = l[i]
  BY Concat
<1> DEFINE h == a \o l
<1> HIDE DEF h
<1>4. Len(h) = 3 /\ h \in Seq(Byte)
  BY <1>1 DEF h
<1>5. h[1] = a[1]
  BY <1>2 DEF h
<1>6. h[2] = l[1] /\ h[3] = l[2]
  <2>1. \A i \in 1 .. 2 : h[1 + i] = l[i]
    BY <1>3 DEF h
  <2> QED
    BY <2>1
<1> QED
  BY <1>4, <1>5, <1>6 DEF h

LEMMA LastPart ==
  ASSUME NEW h \in Seq(Byte), NEW p \in Seq(Byte), NEW l \in Seq(Byte),
         Len(h) = 3, Len(l) = 2, h[2] = l[1], h[3] = l[2]
  PROVE  /\ h \o p \in Seq(Byte) /\ Len(h \o p) = 3 + Len(p) /\ (h \o p)[1] = h[1]
         /\ SubSeq(h \o p, 2, 3) = l /\ SubSeq(h \o p, 4, 3 + Len(p)) = p
<1>1. h \o p \in Seq(Byte) /\ Len(h \o p) = Len(h) + Len(p) /\ Len(p) \in Nat
  BY Concat
<1>2. \A i \in 1 .. Len(h) : (h \o p)[i] = h[i]
  BY Concat
<1>3. \A i \in 1 .. Len(p) : (h \o p)[Len(h) + i] = p[i]
  BY Concat
<1> DEFINE s == h \o p
           n == Len(p)
<1> HIDE DEF s, n
<1>4. s \in Seq(Byte) /\ n \in Nat /\ Len(s) = 3 + n
  BY <1>1 DEF s, n
<1>5. s[1] = h[1] /\ s[2] = h[2] /\ s[3] = h[3]
  BY <1>2 DEF s
<1>6. \A i \in 1 .. n : s[3 + i] = p[i]
  BY <1>3 DEF s, n
<1>7. SubSeq(s, 2, 3) = l
  <2>1. Len(SubSeq(s, 2, 3)) = 2 /\ SubSeq(s, 2, 3) \in Seq(Byte)
    BY <1>4
  <2>2. SubSeq(s, 2, 3)[1] = s[2] /\ SubSeq(s, 2, 3)[2] = s[3]
    BY <1>4
  <2>3. \A i \in 1 .. 2 : SubSeq(s, 2, 3)[i] = l[i]
    BY <1>5, <2>2
  <2> QED
    BY <2>1, <2>3, SeqEqual
<1>8. SubSeq(s, 4, 3 + n) = p
  <2>1. Len(SubSeq(s, 4, 3 + n)) = n /\ SubSeq(s, 4, 3 + n) \in Seq(Byte)
    BY <1>4
  <2>2. \A i \in 1 .. n : SubSeq(s, 4, 3 + n)[i] = s[3 + i]
    BY <1>4
  <2>3. \A i \in 1 .. n : SubSeq(s, 4, 3 + n)[i] = p[i]
    BY <1>6, <2>2
  <2>4. Len(p) = n
    BY DEF n
  <2> QED
    BY <2>1, <2>3, <2>4, SeqEqual
<1> QED
  BY <1>4, <1>5, <1>7, <1>8 DEF s, n

\* What the client reads from a stream that holds one response is that response.
LEMMA ResponseRoundTrip ==
  ASSUME NEW rsp \in Responses, rsp.status \in ToSet(Statuses),
         Len(rsp.payload) < Base * Base, NEW s, s = send_response(rsp)
  PROVE  /\ s \in Seq(Byte) /\ Len(s) = 3 + Len(rsp.payload)
         /\ Number(SubSeq(s, 2, 3)) = Len(rsp.payload)
         /\ s[1] < Len(Statuses) /\ Statuses[s[1] + 1] = rsp.status
         /\ SubSeq(s, 4, 3 + Len(rsp.payload)) = rsp.payload
         /\ rsp = Response(rsp.status, rsp.payload)
<1>1. rsp.payload \in Seq(Byte) /\ Len(rsp.payload) \in Nat
  BY LenProperties DEF Responses
<1> DEFINE c == code(rsp.status)
           a == u8(c)
           l == u32(Len(rsp.payload))
<1>2. c \in 0 .. 8 /\ Statuses[c + 1] = rsp.status
  BY StatusCodes
<1> HIDE DEF c
<1>3. c \in Nat /\ c < Base /\ c < 9
  BY <1>2, BaseFacts
<1>4. a \in Seq(Byte) /\ Len(a) = 1 /\ a[1] = c
  BY <1>3, U8
<1>5. l \in Seq(Byte) /\ Len(l) = 2 /\ Number(l) = Len(rsp.payload)
  BY <1>1, U32Bytes
<1>6. s = (a \o l) \o rsp.payload
  BY DEF send_response, c
<1> HIDE DEF a, l
<1>7. PICK h \in Seq(Byte) :
        h = a \o l /\ Len(h) = 3 /\ h[1] = a[1] /\ h[2] = l[1] /\ h[3] = l[2]
  BY <1>4, <1>5, TwoParts
<1>8. /\ s \in Seq(Byte) /\ Len(s) = 3 + Len(rsp.payload) /\ s[1] = a[1]
      /\ SubSeq(s, 2, 3) = l /\ SubSeq(s, 4, 3 + Len(rsp.payload)) = rsp.payload
  <2>1. s = h \o rsp.payload
    BY <1>6, <1>7
  <2>2. /\ h \o rsp.payload \in Seq(Byte)
        /\ Len(h \o rsp.payload) = 3 + Len(rsp.payload) /\ (h \o rsp.payload)[1] = h[1]
        /\ SubSeq(h \o rsp.payload, 2, 3) = l
        /\ SubSeq(h \o rsp.payload, 4, 3 + Len(rsp.payload)) = rsp.payload
    BY <1>1, <1>5, <1>7, LastPart
  <2> QED
    BY <1>7, <2>1, <2>2
<1>9. rsp = Response(rsp.status, rsp.payload)
  BY DEF Responses, Response
<1>10. Len(Statuses) = 9
  BY DEF Statuses
<1> QED
  BY <1>2, <1>3, <1>4, <1>5, <1>8, <1>9, <1>10

\* get_u32_le reads the words that put_u32_le wrote, however many they are.
LEMMA WordsRoundTrip ==
  ASSUME NEW p \in Seq(U32)
  PROVE  /\ put_words(p) \in Seq(Byte) /\ Len(put_words(p)) = 2 * Len(p)
         /\ get_words(put_words(p)) = p
<1>1. PICK n \in Nat : n = Len(p)
  BY LenProperties
<1>2. \A i \in 1 .. n : p[i] \in Nat /\ p[i] < Base * Base
  <2> DEFINE bb == Base * Base
  <2>1. bb \in Nat /\ \A i \in 1 .. n : p[i] \in 0 .. bb - 1
    BY <1>1, BaseFacts DEF U32
  <2> HIDE DEF bb
  <2>2. \A i \in 1 .. n : p[i] \in Nat /\ p[i] < bb
    BY <2>1
  <2> QED
    BY <2>2 DEF bb
<1> DEFINE At(k) == u32(p[(k + 1) \div 2])[2 - (k % 2)]
<1>3. \A k \in 1 .. 2 * n : At(k) \in Byte
  <2> TAKE k \in 1 .. 2 * n
  <2>1. (k + 1) \div 2 \in 1 .. n /\ 2 - (k % 2) \in 1 .. 2
    OBVIOUS
  <2>2. u32(p[(k + 1) \div 2]) \in Seq(Byte) /\ Len(u32(p[(k + 1) \div 2])) = 2
    BY <1>2, <2>1, U32Bytes
  <2> QED
    BY <2>1, <2>2, ElementOfSeq
<1>4. PICK b : b = put_words(p) /\ b = [k \in 1 .. 2 * n |-> At(k)]
  BY <1>1 DEF put_words
<1> HIDE DEF At
<1>5. b \in Seq(Byte) /\ Len(b) = 2 * n /\ \A k \in 1 .. 2 * n : b[k] = At(k)
  BY <1>3, <1>4
<1>6. \A i \in 1 .. n : Number(SubSeq(b, 2 * i - 1, 2 * i)) = p[i]
  <2> TAKE i \in 1 .. n
  <2>1. 2 * i - 1 \in 1 .. 2 * n /\ 2 * i \in 1 .. 2 * n
    OBVIOUS
  <2>2. b[2 * i - 1] = u32(p[i])[1] /\ b[2 * i] = u32(p[i])[2]
    <3>1. /\ ((2 * i - 1) + 1) \div 2 = i /\ 2 - ((2 * i - 1) % 2) = 1
          /\ (2 * i + 1) \div 2 = i /\ 2 - ((2 * i) % 2) = 2
      OBVIOUS
    <3>2. At(2 * i - 1) = u32(p[i])[1] /\ At(2 * i) = u32(p[i])[2]
      BY <3>1 DEF At
    <3> QED
      BY <1>5, <2>1, <3>2
  <2>3. PICK l \in Seq(Byte) : l = u32(p[i]) /\ Len(l) = 2 /\ Number(l) = p[i]
    BY <1>2, U32Bytes
  <2>4. /\ SubSeq(b, 2 * i - 1, 2 * i) \in Seq(Byte) /\ Len(SubSeq(b, 2 * i - 1, 2 * i)) = 2
        /\ SubSeq(b, 2 * i - 1, 2 * i)[1] = b[2 * i - 1]
        /\ SubSeq(b, 2 * i - 1, 2 * i)[2] = b[2 * i]
    BY <1>5, <2>1
  <2>5. SubSeq(b, 2 * i - 1, 2 * i) = l
    <3>1. PICK s \in Seq(Byte) : s = SubSeq(b, 2 * i - 1, 2 * i)
      BY <2>4
    <3>2. Len(s) = 2 /\ s[1] = l[1] /\ s[2] = l[2]
      BY <2>2, <2>3, <2>4, <3>1, Zenon
    <3>3. \A j \in 1 .. 2 : s[j] = l[j]
      BY <3>2
    <3> QED
      BY <2>3, <3>1, <3>2, <3>3, SeqEqual
  <2> QED
    BY <2>3, <2>5
<1>7. get_words(b) = p
  <2>1. Len(b) \div 2 = n
    BY <1>5
  <2>2. get_words(b) = [i \in 1 .. n |-> Number(SubSeq(b, 2 * i - 1, 2 * i))]
    BY <2>1 DEF get_words
  <2>3. p = [i \in 1 .. n |-> p[i]]
    BY <1>1
  <2> QED
    BY <1>6, <2>2, <2>3
<1> QED
  BY <1>1, <1>4, <1>5, <1>7

\* Decoding a packet gives back the packet that was encoded.  Whatever uptime
\* (the bits of the f64) and counts a StatsPacket holds, and whatever six
\* numbers an InfoPacket holds, each field is read under the name it was
\* written under, and from_bytes does not panic on what to_bytes produced.
THEOREM PacketRoundTrip ==
  /\ \A p \in StatsPackets :
       /\ StatsToBytes(p) \in Seq(Byte) /\ Len(StatsToBytes(p)) = 8
       /\ StatsFromBytes(StatsToBytes(p)) = p
  /\ \A p \in InfoPackets :
       /\ InfoToBytes(p) \in Seq(Byte) /\ Len(InfoToBytes(p)) = 12
       /\ InfoFromBytes(InfoToBytes(p)) = p
<1>1. ASSUME NEW p \in StatsPackets
      PROVE  /\ StatsToBytes(p) \in Seq(Byte) /\ Len(StatsToBytes(p)) = 8
             /\ StatsFromBytes(StatsToBytes(p)) = p
  <2>1. PICK a \in U32, b \in U32 : p.uptime_hrs = <<a, b>>
    BY DEF StatsPackets
  <2>2. p.total_dbs \in U32 /\ p.total_active_connections \in U32
    BY DEF StatsPackets
  <2> DEFINE Packet(u, d, c) ==
        [uptime_hrs |-> u, total_dbs |-> d, total_active_connections |-> c]
  <2>3. p = Packet(p.uptime_hrs, p.total_dbs, p.total_active_connections)
    BY DEF StatsPackets
  <2>4. PICK w : w = <<a, b, p.total_dbs, p.total_active_connections>>
    OBVIOUS
  <2>5. /\ w \in Seq(U32) /\ Len(w) = 4
        /\ w[1] = a /\ w[2] = b /\ w[3] = p.total_dbs
        /\ w[4] = p.total_active_connections
    BY <2>1, <2>2, <2>4
  <2>6. StatsToBytes(p) = put_words(w)
    BY <2>1, <2>4 DEF StatsToBytes
  <2>7. /\ put_words(w) \in Seq(Byte) /\ Len(put_words(w)) = 2 * Len(w)
        /\ get_words(put_words(w)) = w
    BY <2>5, WordsRoundTrip
  <2>8. ASSUME NEW x, ~(Len(get_words(x)) < 4)
        PROVE  StatsFromBytes(x) = Packet(<<get_words(x)[1], get_words(x)[2]>>,
                                          get_words(x)[3], get_words(x)[4])
    BY <2>8 DEF StatsFromBytes
  <2>9. <<w[1], w[2]>> = p.uptime_hrs /\ ~(Len(w) < 4)
    BY <2>1, <2>5
  <2> HIDE DEF Packet
  <2>10. StatsFromBytes(StatsToBytes(p)) = p
    BY <2>3, <2>5, <2>6, <2>7, <2>8, <2>9
  <2>11. StatsToBytes(p) \in Seq(Byte) /\ Len(StatsToBytes(p)) = 8
    BY <2>5, <2>6, <2>7
  <2> QED
    BY <2>10, <2>11
<1>2. ASSUME NEW p \in InfoPackets
      PROVE  /\ InfoToBytes(p) \in Seq(Byte) /\ Len(InfoToBytes(p)) = 12
             /\ InfoFromBytes(InfoToBytes(p)) = p
  <2>1. /\ p.size_on_disk \in U32 /\ p.size_in_memory \in U32
        /\ p.min_key_size \in U32 /\ p.mean_key_size \in U32
        /\ p.max_key_size \in U32 /\ p.key_count \in U32
    BY DEF InfoPackets
  <2> DEFINE Packet(d, m, mn, me, mx, c) ==
        [size_on_disk |-> d, size_in_memory |-> m, min_key_size |-> mn,
         mean_key_size |-> me, max_key_size |-> mx, key_count |-> c]
  <2>2. p = Packet(p.size_on_disk, p.size_in_memory, p.min_key_size,
                   p.mean_key_size, p.max_key_size, p.key_count)
    BY DEF InfoPackets
  <2>3. PICK w : w = <<p.size_on_disk, p.size_in_memory, p.min_key_size,
                       p.mean_key_size, p.max_key_size, p.key_count>>
    OBVIOUS
  <2>4. /\ w \in Seq(U32) /\ Len(w) = 6
        /\ w[1] = p.size_on_disk /\ w[2] = p.size_in_memory
        /\ w[3] = p.min_key_size /\ w[4] = p.mean_key_size
        /\ w[5] = p.max_key_size /\ w[6] = p.key_count
    BY <2>1, <2>3
  <2>5. InfoToBytes(p) = put_words(w)
    BY <2>3 DEF InfoToBytes
  <2>6. /\ put_words(w) \in Seq(Byte) /\ Len(put_words(w)) = 2 * Len(w)
        /\ get_words(put_words(w)) = w
    BY <2>4, WordsRoundTrip
  <2>7. ASSUME NEW x, ~(Len(get_words(x)) < 6)
        PROVE  InfoFromBytes(x) =
                 Packet(get_words(x)[1], get_words(x)[2], get_words(x)[3],
                        get_words(x)[4], get_words(x)[5], get_words(x)[6])
    BY <2>7 DEF InfoFromBytes
  <2> HIDE DEF Packet
  <2>8. InfoFromBytes(InfoToBytes(p)) = p
    BY <2>2, <2>4, <2>5, <2>6, <2>7
  <2>9. InfoToBytes(p) \in Seq(Byte) /\ Len(InfoToBytes(p)) = 12
    BY <2>4, <2>5, <2>6
  <2> QED
    BY <2>8, <2>9
<1> QED
  BY <1>1, <1>2

-----------------------------------------------------------------------------
(* What the server answers, and what it refuses. *)

LEMMA MessageFacts ==
  ASSUME NEW st \in ToSet(Statuses)
  PROVE  /\ Message(st) \in Responses /\ Message(st).status = st
         /\ Len(Message(st).payload) < Base * Base
<1>1. (CHOOSE b \in Letters : TRUE) \in Byte
  BY BaseFacts
<1>2. /\ Message(st).payload \in Seq(Byte) /\ Len(Message(st).payload) = 1
      /\ Message(st).status = st /\ Message(st) = Response(st, Message(st).payload)
  BY <1>1 DEF Message, Response
<1>3. Message(st) \in Responses
  BY <1>2 DEF Response, Responses
<1> QED
  BY <1>2, <1>3, BaseFacts

LEMMA PacketFacts ==
  /\ StatsToBytes(StatsPacket) \in Seq(Byte) /\ Len(StatsToBytes(StatsPacket)) < Base * Base
  /\ StatsFromBytes(StatsToBytes(StatsPacket)) = StatsPacket
  /\ InfoToBytes(InfoPacket) \in Seq(Byte) /\ Len(InfoToBytes(InfoPacket)) < Base * Base
  /\ InfoFromBytes(InfoToBytes(InfoPacket)) = InfoPacket
<1>1. 8 < Base * Base /\ 12 < Base * Base
  <2>1. \A b \in Nat : b > 9 => b * b > 12 /\ b * b \in Nat
    OBVIOUS
  <2> QED
    BY <2>1, BaseFacts
<1>2. StatsPacket \in StatsPackets /\ InfoPacket \in InfoPackets
  BY ConnectionAssumption
<1> QED
  BY <1>1, <1>2, PacketRoundTrip

LEMMA ValueFacts ==
  ASSUME NEW v \in Values, Len(v) <= MaxValueSize
  PROVE  Response("KeyValue", v) \in Responses /\ Len(v) < Base * Base
<1>1. v \in Seq(Byte) /\ Len(v) \in Nat
  BY BaseFacts, LenProperties
<1>2. Len(v) < Base * Base
  <2> DEFINE bb == Base * Base
  <2>1. bb \in Nat /\ MaxValueSize \in Nat /\ MaxValueSize < bb
    BY BaseFacts
  <2> HIDE DEF bb
  <2>2. Len(v) < bb
    BY <1>1, <2>1
  <2> QED
    BY <2>2 DEF bb
<1>3. "KeyValue" \in ToSet(Statuses)
  BY StatusesAre
<1> QED
  BY <1>1, <1>2, <1>3 DEF Responses, Response

LEMMA OutcomeFacts ==
  ASSUME NEW fr, fr.op \in OpNames \ {"Close"}, NEW o \in Outcomes(fr)
  PROVE  /\ o.rsp \in Responses /\ o.goes \in BOOLEAN
         /\ o.goes => o.rsp.status # "none"
         /\ GoodAnswer(fr.op, o.rsp)
<1> DEFINE Good(x) == /\ x.rsp \in Responses /\ x.goes \in BOOLEAN
                      /\ x.goes => x.rsp.status # "none"
                      /\ Len(x.rsp.payload) < Base * Base
<1>1. ASSUME NEW st \in ToSet(Statuses)
      PROVE  Good(Goes(Message(st))) /\ Good(Ends(Message(st)))
  <2>1. /\ Message(st) \in Responses /\ Message(st).status # "none"
        /\ Len(Message(st).payload) < Base * Base
    BY <1>1, MessageFacts, StatusesAre
  <2> QED
    BY <2>1 DEF Goes, Ends
<1>2. Good(Silent) /\ Silent.rsp.status = "none"
  <2>1. <<>> \in Seq(Byte) /\ Len(<<>>) = 0
    OBVIOUS
  <2>2. Response("none", <<>>) \in Responses
    BY <2>1 DEF Responses, Response
  <2> QED
    BY <2>1, <2>2, BaseFacts DEF Silent, Ends, Response
<1>3. ASSUME NEW x \in Queried
      PROVE  Good(x) /\ x.rsp.status \in {"DbNotFound", "InternalError"}
  <2>1. Good(Ends(Message("DbNotFound"))) /\ Good(Ends(Message("InternalError")))
    BY <1>1, StatusesAre
  <2>2. Ends(Message("DbNotFound")).rsp.status = "DbNotFound"
    BY MessageFacts, StatusesAre DEF Ends
  <2>3. Ends(Message("InternalError")).rsp.status = "InternalError"
    BY MessageFacts, StatusesAre DEF Ends
  <2> HIDE DEF Good
  <2> QED
    BY <2>1, <2>2, <2>3 DEF Queried
<1>4. ASSUME NEW p \in Seq(Byte), Len(p) < Base * Base
      PROVE  Good(Goes(Response("Ok", p))) /\ Goes(Response("Ok", p)).rsp.payload = p
  <2>1. "Ok" \in ToSet(Statuses) 
    BY StatusesAre
  <2> QED
    BY <1>4, <2>1 DEF Goes, Response, Responses
<1>5. CASE fr.op = "Stats"
  <2>1. o = Goes(Response("Ok", StatsToBytes(StatsPacket)))
    BY <1>5 DEF Outcomes
  <2> HIDE DEF Good
  <2>2. Good(o) /\ o.rsp.payload = StatsToBytes(StatsPacket)
    BY <1>4, <2>1, PacketFacts
  <2> QED
    BY <1>5, <2>2 DEF Good, GoodAnswer
<1>6. CASE fr.op = "Info"
  <2>1. o = Goes(Response("Ok", InfoToBytes(InfoPacket))) \/ o \in Queried
    BY <1>6 DEF Outcomes
  <2> HIDE DEF Good
  <2>2. Good(o) /\ (o.rsp.status = "Ok" => o.rsp.payload = InfoToBytes(InfoPacket))
    BY <1>3, <1>4, <2>1, PacketFacts
  <2> QED
    BY <1>6, <2>2 DEF Good, GoodAnswer
<1>7. CASE fr.op \notin {"Stats", "Info"}
  <2>1. \/ \E st \in ToSet(Statuses) : o = Goes(Message(st))
        \/ o = Silent \/ o \in Queried
        \/ \E v \in Values : Len(v) <= MaxValueSize /\ o = Goes(Response("KeyValue", v))
    BY <1>7, OpNamesAre, StatusesAre DEF Outcomes
  <2>2. ASSUME NEW v \in Values, Len(v) <= MaxValueSize PROVE Good(Goes(Response("KeyValue", v)))
    <3>1. "KeyValue" \in ToSet(Statuses)
      BY StatusesAre
    <3> QED
      BY <2>2, <3>1, ValueFacts DEF Goes, Response
  <2> HIDE DEF Good
  <2>3. Good(o)
    BY <1>1, <1>2, <1>3, <2>1, <2>2
  <2> QED
    BY <1>7, <2>3 DEF Good, GoodAnswer
<1> QED
  BY <1>5, <1>6, <1>7

\* The verdict over the fields read is the one over the request.
LEMMA VerdictIsValid ==
  ASSUME NEW fr, NEW r \in Requests, fr.op = r.op, fr.name = r.name,
         r.op \in {"Create", "Info", "Drop", "Get", "Set", "Delete"},
         r.op \in {"Get", "Set", "Delete"} => fr.klen = Len(r.key),
         r.op = "Set" => fr.vlen = Len(r.val)
  PROVE  Verdict(fr) = "valid" <=> Valid(r)
<1>1. validate_db_name(fr) = "valid" <=>
        Len(r.name) \in 1 .. MaxDbNameLen /\ ToSet(r.name) \subseteq Letters
  <2>1. r.name \in Seq(Byte) /\ Len(r.name) \in Nat /\ (r.name = <<>> <=> Len(r.name) = 0)
    BY RequestFacts
  <2> QED
    BY <2>1, BaseFacts DEF validate_db_name
<1>2. ASSUME NEW n \in Nat, NEW m \in Nat PROVE validate_size(n, m) = "valid" <=> n \in 1 .. m
  BY DEF validate_size
<1>3. /\ validate_size(Len(r.key), MaxKeySize) = "valid" <=> Len(r.key) \in 1 .. MaxKeySize
      /\ validate_size(Len(r.val), MaxValueSize) = "valid" <=> Len(r.val) \in 1 .. MaxValueSize
  BY <1>2, RequestFacts, BaseFacts
<1>4. CASE r.op \in {"Create", "Info", "Drop"}
  BY <1>1, <1>4 DEF Verdict, Valid
<1>5. CASE r.op \in {"Get", "Delete"}
  BY <1>1, <1>3, <1>5 DEF Verdict, Valid
<1>6. CASE r.op = "Set"
  BY <1>1, <1>3, <1>6 DEF Verdict, Valid
<1> QED
  BY <1>4, <1>5, <1>6

LEMMA VerdictStatus ==
  ASSUME NEW fr
  PROVE  Verdict(fr) \in {"valid", "InvalidRequest", "PayloadTooLarge"}
BY DEF Verdict, validate_db_name, validate_size

-----------------------------------------------------------------------------
(* The client keeps its shape. *)

LEMMA CommandFacts ==
  ASSUME current_db \in Seq(Byte), NEW r \in Commands
  PROVE  /\ r \in Requests
         /\ LengthsFit /\ Len(current_db) < Base => Fits(r)
<1> DEFINE Small == LengthsFit /\ Len(current_db) < Base
           Name(n) == n \in Seq(Byte) /\ (Small => Len(n) < Base)
           Text(t) == t \in Seq(Byte) /\ (Small => Len(t) < Base * Base)
           Good(x) == x \in Requests /\ (Small => Fits(x))
<1> HIDE DEF Small
<1>1. ASSUME NEW op \in OpNames, NEW n, Name(n), NEW k, Text(k), NEW v, Text(v)
      PROVE  Good(Request(op, n, k, v))
  <2>1. Request(op, n, k, v) \in Requests
    BY <1>1 DEF Request, Requests, OpNames, Byte
  <2> QED
    BY <1>1, <2>1 DEF Request, Fits
<1>2. Name(<<>>) /\ Text(<<>>)
  BY BaseFacts
<1>3. Name(current_db) /\ \A n \in DbNames : Name(n)
  BY BaseFacts DEF LengthsFit, Small
<1>4. \A t \in Keys \cup Values : Text(t)
  BY BaseFacts DEF LengthsFit, Small
<1> HIDE DEF Good, Name, Text
<1> SUFFICES Good(r)
  BY DEF Good, Small
<1>5. CASE \E op \in {"Stats", "Ping", "Close"} : r = Plain(op)
  BY <1>1, <1>2, <1>5, OpNamesAre DEF Plain
<1>6. CASE \E op \in {"Create", "Info", "Drop"}, n \in DbNames : r = Request(op, n, <<>>, <<>>)
  BY <1>1, <1>2, <1>3, <1>6, OpNamesAre
<1>7. CASE r = Request("Info", current_db, <<>>, <<>>)
  BY <1>1, <1>2, <1>3, <1>7, OpNamesAre
<1>8. CASE \E op \in {"Get", "Delete"}, k \in Keys : r = Request(op, current_db, k, <<>>)
  BY <1>1, <1>2, <1>3, <1>4, <1>8, OpNamesAre
<1>9. CASE \E k \in Keys, v \in Values : r = Request("Set", current_db, k, v)
  BY <1>1, <1>3, <1>4, <1>9, OpNamesAre
<1>10. \/ \E op \in {"Stats", "Ping", "Close"} : r = Plain(op)
       \/ \E op \in {"Create", "Info", "Drop"}, n \in DbNames : r = Request(op, n, <<>>, <<>>)
       \/ r = Request("Info", current_db, <<>>, <<>>)
       \/ \E op \in {"Get", "Delete"}, k \in Keys : r = Request(op, current_db, k, <<>>)
       \/ \E k \in Keys, v \in Values : r = Request("Set", current_db, k, v)
  BY DEF Commands
<1> QED
  BY <1>5, <1>6, <1>7, <1>8, <1>9, <1>10

LEMMA PlainPing == Plain("Ping") \in Requests /\ Fits(Plain("Ping")) /\ Plain("Ping").op = "Ping"
<1>1. <<>> \in Seq(0 .. Base - 1) /\ Len(<<>>) < Base /\ Len(<<>>) < Base * Base
  BY BaseFacts
<1> QED
  BY <1>1, OpNamesAre DEF Plain, Request, Requests, Fits, OpNames

LEMMA WritesLen ==
  ASSUME NEW r \in Requests
  PROVE  Writes(r) \in Seq(Seq(Byte)) /\ Len(Writes(r)) <= 7 /\ Writes(r) # <<>>
<1>1. Writes(r) \in Seq(Seq(Byte)) /\ Len(Writes(r)) = 1 + Len(Fields(r.op))
  BY WritesFacts
<1>2. PICK k \in {0, 2, 4, 6} : Len(Fields(r.op)) = k
  BY FieldsFacts
<1>3. Len(Writes(r)) <= 7 /\ Len(Writes(r)) # 0
  BY <1>1, <1>2
<1>4. Writes(r) # <<>>
  BY <1>3
<1> QED
  BY <1>1, <1>3, <1>4

LEMMA AskShape ==
  ASSUME ShapeInv, NEW r \in Commands, Ask(r)
  PROVE  ShapeInv'
<1> USE DEF ShapeInv
<1>1. r \in Requests
  BY CommandFacts DEF ClientInv
<1>2. Writes(r) \in Seq(Seq(Byte)) /\ Len(Writes(r)) <= 7 /\ Writes(r) # <<>>
  BY <1>1, WritesLen
<1>3. ClientInv'
  BY <1>1, <1>2 DEF Ask, ClientInv
<1>4. StreamTypes' /\ ServerInv'
  BY DEF Ask, serverVars, StreamTypes, ServerInv, FrameInv, Taken
<1> QED
  BY <1>3, <1>4

LEMMA UseShape ==
  ASSUME ShapeInv, NEW n \in DbNames, Use(n)
  PROVE  ShapeInv'
<1> USE DEF ShapeInv
<1>1. n \in Seq(Byte)
  BY BaseFacts
<1>2. ClientInv'
  BY <1>1 DEF Use, ClientInv
<1>3. StreamTypes' /\ ServerInv'
  BY DEF Use, serverVars, StreamTypes, ServerInv, FrameInv, Taken
<1> QED
  BY <1>2, <1>3

LEMMA WriteShape ==
  ASSUME ShapeInv, Write
  PROVE  ShapeInv'
<1> USE DEF ShapeInv
<1>1. /\ client = "writing" /\ out # <<>> /\ out \in Seq(Seq(Byte)) /\ Len(out) <= 7
      /\ out' = Tail(out) /\ UNCHANGED <<current_db, req, s2c, server, todo, frame, served, got>>
      /\ \/ c2s' = c2s /\ reset' \in BOOLEAN
         \/ c2s' = c2s \o Head(out) /\ reset' = reset
      /\ \/ Len(out) > 1 /\ client' = client /\ sent' = sent
         \/ Len(out) <= 1 /\ client' \in {"quit", "awaiting"} /\ sent' = Append(sent, req)
  <2>1. /\ client = "writing" /\ out # <<>> /\ out \in Seq(Seq(Byte)) /\ Len(out) <= 7
        /\ Len(out) \in Nat
    BY LenProperties DEF Write, ClientInv
  <2>2. \/ c2s' = c2s /\ reset' \in BOOLEAN
        \/ c2s' = c2s \o Head(out) /\ reset' = reset
    BY DEF Write, StreamTypes
  <2>3. \/ Len(out) > 1 /\ client' = client /\ sent' = sent
        \/ Len(out) <= 1 /\ client' \in {"quit", "awaiting"} /\ sent' = Append(sent, req)
    BY <2>1 DEF Write
  <2> QED
    BY <2>1, <2>2, <2>3 DEF Write, serverVars
<1>2. Head(out) \in Seq(Byte) /\ Tail(out) \in Seq(Seq(Byte)) /\ Len(Tail(out)) = Len(out) - 1
  BY <1>1
<1>3. out' \in Seq(Seq(Byte)) /\ Len(out') <= 7 /\ (out' # <<>> <=> Len(out) > 1)
  <2>1. \A s \in Seq(Seq(Byte)) : Len(s) \in Nat /\ (s # <<>> <=> Len(s) > 0)
    OBVIOUS
  <2>2. out' \in Seq(Seq(Byte)) /\ Len(out') = Len(out) - 1 /\ Len(out) \in Nat
    BY <1>1, <1>2, <2>1
  <2>3. out' # <<>> <=> Len(out') > 0
    BY <2>1, <2>2
  <2> QED
    BY <1>1, <2>2, <2>3
<1>4. c2s' \in Seq(Byte)
  BY <1>1, <1>2, Concat DEF StreamTypes
<1>5. /\ sent' \in Seq(Requests)
      /\ \/ Len(out) > 1 /\ Len(sent') = Len(sent)
         \/ Len(out) <= 1 /\ Len(sent') = Len(sent) + 1
  <2>1. sent \in Seq(Requests) /\ req \in Requests
    BY DEF ClientInv
  <2>2. Append(sent, req) \in Seq(Requests) /\ Len(Append(sent, req)) = Len(sent) + 1
    BY <2>1, AppendProperties
  <2> QED
    BY <1>1, <2>1, <2>2
<1>6. ClientInv'
  <2>1. CASE Len(out) > 1 /\ client' = client /\ sent' = sent
    BY <1>1, <1>3, <2>1 DEF ClientInv
  <2>2. CASE Len(out) <= 1 /\ client' \in {"quit", "awaiting"} /\ sent' = Append(sent, req)
    <3>1. Len(out) \in Nat /\ ~(Len(out) > 1)
      BY <1>1, <2>2, LenProperties
    <3>2. out' = <<>> /\ client' # "writing"
      BY <1>3, <2>2, <3>1
    <3>3. Len(sent') = Len(sent) + 1 /\ Len(sent) = Len(got)
      BY <1>1, <1>5, <3>1 DEF ClientInv
    <3> QED
      BY <1>1, <1>3, <1>5, <2>2, <3>2, <3>3 DEF ClientInv
  <2> QED
    BY <1>1, <2>1, <2>2
<1>7. StreamTypes' /\ ServerInv'
  BY <1>1, <1>4 DEF StreamTypes, ServerInv, FrameInv, Taken
<1> QED
  BY <1>6, <1>7

\* What the client takes for a response is one.
LEMMA ReadResponseType ==
  ASSUME s2c \in Seq(Byte), ResponseIsWhole
  PROVE  ResponseLen \in 3 .. Len(s2c) /\ read_response \in Responses
<1>1. Len(s2c) \in Nat /\ Len(s2c) >= 3 /\ Len(s2c) >= ResponseLen
  BY LenProperties DEF ResponseIsWhole
<1>2. SubSeq(s2c, 2, 3) \in Seq(Byte) /\ Len(SubSeq(s2c, 2, 3)) = 2
  BY <1>1
<1>3. Number(SubSeq(s2c, 2, 3)) \in Nat
  BY <1>2, NumberNat
<1>4. ResponseLen \in 3 .. Len(s2c)
  BY <1>1, <1>3 DEF ResponseLen
<1>5. SubSeq(s2c, 4, ResponseLen) \in Seq(Byte)
  <2>1. \A i \in 4 .. ResponseLen : s2c[i] \in Byte
    BY <1>1, <1>4
  <2> QED
    BY <1>4, <2>1, SubSeqProperties
<1>6. s2c[1] \in Nat
  BY <1>1, BaseFacts DEF Byte
<1>7. CASE s2c[1] < Len(Statuses)
  <2>1. Statuses[s2c[1] + 1] \in ToSet(Statuses)
    <3>1. \A c \in Nat : c < Len(Statuses) => c + 1 \in DOMAIN Statuses
      BY DEF Statuses
    <3> QED
      BY <1>6, <1>7, <3>1 DEF ToSet
  <2> QED
    BY <1>4, <1>5, <1>7, <2>1 DEF read_response, Responses, Response
<1>8. CASE ~(s2c[1] < Len(Statuses))
  BY <1>4, <1>8, MessageFacts, StatusesAre DEF read_response
<1> QED
  BY <1>7, <1>8

LEMMA ReadResponseShape ==
  ASSUME ShapeInv, ReadResponse
  PROVE  ShapeInv'
<1> USE DEF ShapeInv
<1>1. s2c \in Seq(Byte) /\ ResponseLen \in 0 .. Len(s2c) /\ read_response \in Responses
  BY ReadResponseType, LenProperties DEF ReadResponse, StreamTypes
<1>2. s2c' \in Seq(Byte)
  BY <1>1, DropFacts DEF ReadResponse
<1>3. got' \in Seq(Responses) /\ Len(got') = Len(got) + 1
  BY <1>1 DEF ReadResponse, ClientInv
<1>4. ClientInv'
  BY <1>3 DEF ReadResponse, ClientInv
<1>5. StreamTypes' /\ ServerInv'
  BY <1>2 DEF ReadResponse, serverVars, StreamTypes, ServerInv, FrameInv, Taken
<1> QED
  BY <1>4, <1>5

LEMMA EndsShape ==
  ASSUME ShapeInv, IoErr \/ Kill \/ EndOfInput
  PROVE  ShapeInv'
<1> USE DEF ShapeInv
<1>1. /\ \/ client' = "failed" /\ out' = <<>>
         \/ client = "prompt" /\ client' = "eof" /\ out' = out
      /\ UNCHANGED <<current_db, req, c2s, s2c, reset, server, todo, frame, sent, served, got>>
  BY DEF IoErr, Kill, EndOfInput, serverVars
<1>2. out' \in Seq(Seq(Byte)) /\ Len(out') <= 7
  <2>1. <<>> \in Seq(Seq(Byte)) /\ Len(<<>>) <= 7
    OBVIOUS
  <2> QED
    BY <1>1, <2>1 DEF ClientInv
<1>3. ClientInv'
  BY <1>1, <1>2 DEF ClientInv
<1>4. StreamTypes' /\ ServerInv'
  BY <1>1 DEF StreamTypes, ServerInv, FrameInv, Taken
<1> QED
  BY <1>3, <1>4

-----------------------------------------------------------------------------
(* The server keeps its shape. *)

\* The lengths are read before what they measure, and the name before the key.
LEMMA Precedes ==
  ASSUME NEW op \in OpNames, NEW t \in 1 .. Len(Fields(op)),
         NEW D, D = Before(op, t)
  PROVE  /\ Fields(op)[t] \in FieldNames \ {"op"} /\ Fields(op)[t] \notin D /\ D \subseteq FieldNames
         /\ Fields(op)[t] = "name" =>
              /\ op \in {"Create", "Info", "Drop", "Get", "Set", "Delete"} /\ "nlen" \in D
              /\ op \in {"Get", "Set", "Delete"} => "klen" \in D
              /\ op = "Set" => "vlen" \in D
         /\ Fields(op)[t] = "key" =>
              op \in {"Get", "Set", "Delete"} /\ "klen" \in D /\ "name" \in D
         /\ Fields(op)[t] = "val" => op = "Set" /\ "vlen" \in D /\ "name" \in D
         /\ "name" \in D =>
              /\ Fields(op)[t] \in {"key", "val"}
              /\ op \in {"Get", "Set", "Delete"} => "klen" \in D
              /\ op = "Set" => "vlen" \in D
<1> DEFINE F == Fields(op)
<1>1. /\ F \in Seq(FieldNames \ {"op"}) /\ Len(F) \in Nat
      /\ \A i, j \in 1 .. Len(F) : F[i] = F[j] => i = j
  BY FieldsFacts, LenProperties
<1>2. F[t] \in FieldNames \ {"op"} /\ F[t] \notin D /\ D \subseteq FieldNames
  <2>1. \A i \in 1 .. t - 1 : i \in 1 .. Len(F) /\ i # t
    BY <1>1
  <2>2. \A i \in 1 .. Len(F) : F[i] \in FieldNames \ {"op"}
    BY <1>1
  <2> HIDE DEF F
  <2>3. D = {"op"} \cup {F[i] : i \in 1 .. t - 1} /\ t \in 1 .. Len(F)
    BY DEF F, Before
  <2> QED
    BY <1>1, <2>1, <2>2, <2>3 DEF FieldNames
<1>3. CASE op \in {"Stats", "Ping", "Close"}
  <2>1. F = <<>>
    BY <1>3, FieldsFacts
  <2> QED
    BY <2>1
<1>4. CASE op \in {"Create", "Info", "Drop"}
  <2>1. F = <<"nlen", "name">>
    BY <1>4, FieldsFacts
  <2>2. Len(F) = 2 /\ F[1] = "nlen" /\ F[2] = "name"
    BY <2>1
  <2>n. "name" \notin D
    <3>1. \A i \in 1 .. t - 1 : i = 1
      BY <2>2
    <3> HIDE DEF F
    <3>2. D = {"op"} \cup {F[i] : i \in 1 .. t - 1}
      BY DEF F, Before
    <3> QED
      BY <2>2, <3>1, <3>2
  <2> HIDE DEF F
  <2>3. t \in 1 .. 2 /\ \A i \in 1 .. t - 1 : F[i] \in D
    BY <2>2 DEF F, Before
  <2>4. F[t] = "name" => t > 1
    BY <2>2, <2>3
  <2>5. t > 1 => "nlen" \in D
    BY <2>2, <2>3
  <2>6. F[t] \in {"nlen", "name"}
    BY <2>2, <2>3
  <2> QED
    BY <1>2, <1>4, <2>n, <2>4, <2>5, <2>6 DEF F
<1>5. CASE op \in {"Get", "Delete"}
  <2>1. F = <<"nlen", "klen", "name", "key">>
    BY <1>5, FieldsFacts
  <2>2. Len(F) = 4 /\ F[1] = "nlen" /\ F[2] = "klen" /\ F[3] = "name" /\ F[4] = "key"
    BY <2>1
  <2>n. "name" \in D => t > 3
    <3>1. t <= 3 => \A i \in 1 .. t - 1 : i \in 1 .. 2
      OBVIOUS
    <3> HIDE DEF F
    <3>2. D = {"op"} \cup {F[i] : i \in 1 .. t - 1}
      BY DEF F, Before
    <3>3. \A i \in 1 .. 2 : F[i] # "name"
      BY <2>2
    <3> QED
      BY <3>1, <3>2, <3>3
  <2> HIDE DEF F
  <2>3. t \in 1 .. 4 /\ \A i \in 1 .. t - 1 : F[i] \in D
    BY <2>2 DEF F, Before
  <2>4. (F[t] = "name" => t > 2) /\ (F[t] = "key" => t > 3)
    BY <2>2, <2>3
  <2>5. (t > 2 => "nlen" \in D /\ "klen" \in D) /\ (t > 3 => "name" \in D)
    BY <2>2, <2>3
  <2>6. F[t] \in {"nlen", "klen", "name", "key"} /\ (t > 3 => t > 2 /\ F[t] = "key")
    BY <2>2, <2>3
  <2> QED
    BY <1>2, <1>5, <2>n, <2>4, <2>5, <2>6 DEF F
<1>6. CASE op = "Set"
  <2>1. F = <<"nlen", "klen", "vlen", "name", "key", "val">>
    BY <1>6, FieldsFacts
  <2>2. /\ Len(F) = 6 /\ F[1] = "nlen" /\ F[2] = "klen" /\ F[3] = "vlen" /\ F[4] = "name"
        /\ F[5] = "key" /\ F[6] = "val"
    BY <2>1
  <2>n. "name" \in D => t > 4
    <3>1. t <= 4 => \A i \in 1 .. t - 1 : i \in 1 .. 3
      OBVIOUS
    <3> HIDE DEF F
    <3>2. D = {"op"} \cup {F[i] : i \in 1 .. t - 1}
      BY DEF F, Before
    <3>3. \A i \in 1 .. 3 : F[i] # "name"
      BY <2>2
    <3> QED
      BY <3>1, <3>2, <3>3
  <2> HIDE DEF F
  <2>3. t \in 1 .. 6 /\ \A i \in 1 .. t - 1 : F[i] \in D
    BY <2>2 DEF F, Before
  <2>4. (F[t] = "name" => t > 3) /\ (F[t] \in {"key", "val"} => t > 4)
    BY <2>2, <2>3
  <2>5. (t > 3 => "nlen" \in D /\ "klen" \in D /\ "vlen" \in D) /\ (t > 4 => "name" \in D)
    BY <2>2, <2>3
  <2>6. t > 4 => t > 3 /\ F[t] \in {"key", "val"}
    BY <2>2, <2>3
  <2> QED
    BY <1>2, <1>6, <2>n, <2>4, <2>5, <2>6 DEF F
<1> QED
  BY <1>3, <1>4, <1>5, <1>6, OpNamesAre

\* Where the server is in a request.
LEMMA Position ==
  ASSUME FrameInv, server = "reading", todo # <<"op">>, todo # <<>>
  PROVE  /\ frame.op \in OpNames \ {"Close"} /\ Taken \in 1 .. Len(Fields(frame.op))
         /\ Head(todo) = Fields(frame.op)[Taken]
         /\ Tail(todo) = SubSeq(Fields(frame.op), Taken + 1, Len(Fields(frame.op)))
         /\ Tail(todo) # <<"op">> /\ Len(Tail(todo)) = Len(Fields(frame.op)) - Taken
<1> DEFINE F == Fields(frame.op)
           n == Len(F)
           t == Taken
<1>1. F \in Seq(FieldNames \ {"op"}) /\ n \in Nat /\ \A i \in 1 .. n : F[i] # "op"
  BY FieldsFacts, LenProperties
<1>2. /\ frame.op \in OpNames \ {"Close"} /\ Len(todo) <= n /\ todo = SubSeq(F, t, n)
      /\ t = 1 + n - Len(todo)
  BY DEF FrameInv, Taken
<1> HIDE DEF F, n, t
<1>3. n = Len(F)
  BY DEF n
<1>4. Len(todo) \in Nat /\ Len(todo) > 0
  BY DEF FrameInv
<1>5. t \in 1 .. n
  BY <1>1, <1>2, <1>4
<1>6. Head(SubSeq(F, t, n)) = F[t] /\ Tail(SubSeq(F, t, n)) = SubSeq(F, t + 1, n)
  BY <1>1, <1>3, <1>5, HeadTailOfSubSeq
<1>7. /\ Len(SubSeq(F, t + 1, n)) = n - t
      /\ \A i \in 1 .. n - t : SubSeq(F, t + 1, n)[i] = F[t + i]
  BY <1>1, <1>3, <1>5
<1>8. SubSeq(F, t + 1, n) # <<"op">>
  <2>1. SUFFICES ASSUME SubSeq(F, t + 1, n) = <<"op">> PROVE FALSE
    OBVIOUS
  <2>2. Len(<<"op">>) = 1 /\ <<"op">>[1] = "op"
    OBVIOUS
  <2>3. n - t = 1 /\ SubSeq(F, t + 1, n)[1] = "op"
    BY <1>7, <2>1, <2>2
  <2>4. 1 \in 1 .. n - t /\ t + 1 \in 1 .. n
    BY <1>1, <1>5, <2>3
  <2> QED
    BY <1>1, <1>7, <2>3, <2>4
<1> QED
  BY <1>2, <1>5, <1>6, <1>7, <1>8 DEF F, n, t

\* What has been read when it is the turn of a field.
LEMMA AtField ==
  ASSUME FrameInv, server = "reading", todo # <<"op">>, todo # <<>>,
         NEW f, f = Head(todo), NEW D, D = DOMAIN frame
  PROVE  /\ f \in FieldNames \ {"op"} /\ f \notin D /\ D \subseteq FieldNames /\ "op" \in D
         /\ f = "name" =>
              /\ frame.op \in {"Create", "Info", "Drop", "Get", "Set", "Delete"} /\ "nlen" \in D
              /\ frame.op \in {"Get", "Set", "Delete"} => "klen" \in D
              /\ frame.op = "Set" => "vlen" \in D
         /\ f = "key" => frame.op \in {"Get", "Set", "Delete"} /\ "klen" \in D /\ "name" \in D
         /\ f = "val" => frame.op = "Set" /\ "vlen" \in D /\ "name" \in D
         /\ "name" \in D =>
              /\ f \in {"key", "val"}
              /\ frame.op \in {"Get", "Set", "Delete"} => "klen" \in D
              /\ frame.op = "Set" => "vlen" \in D
<1>1. PICK op \in OpNames : op = frame.op
  BY Position
<1>2. PICK t \in 1 .. Len(Fields(op)) : t = Taken /\ f = Fields(op)[t]
  BY <1>1, Position
<1>3. D = Before(op, t)
  BY <1>1, <1>2 DEF FrameInv
<1>4. "op" \in D
  BY <1>3 DEF Before
<1> QED
  BY <1>1, <1>2, <1>3, <1>4, Precedes

LEMMA WidthNat ==
  ASSUME FrameInv, server = "reading", todo # <<>>
  PROVE  Width(Head(todo)) \in Nat
<1>1. CASE todo = <<"op">>
  <2>1. Head(todo) = "op"
    BY <1>1
  <2> QED
    BY <2>1 DEF Width
<1>2. CASE todo # <<"op">>
  <2>1. PICK f : f = Head(todo)
    OBVIOUS
  <2>2. PICK D : D = DOMAIN frame
    OBVIOUS
  <2>3. /\ f \in FieldNames \ {"op"} /\ (f = "name" => "nlen" \in D)
        /\ (f = "key" => "klen" \in D) /\ (f = "val" => "vlen" \in D)
    BY <1>2, <2>1, <2>2, AtField
  <2>4. /\ "nlen" \in D => frame.nlen \in Nat
        /\ "klen" \in D => frame.klen \in Nat
        /\ "vlen" \in D => frame.vlen \in Nat
    BY <1>2, <2>2, BaseFacts DEF FrameInv, Byte
  <2>5. Width(f) \in Nat
    BY <2>3, <2>4 DEF Width, FieldNames
  <2> QED
    BY <2>1, <2>5
<1> QED
  BY <1>1, <1>2

LEMMA NewFrame ==
  ASSUME NEW op \in OpNames \cup {"None"}
  PROVE  [op |-> op] \in Frames /\ DOMAIN [op |-> op] = {"op"} /\ [op |-> op].op = op
<1>1. {"op"} \in SUBSET FieldNames
  BY DEF FieldNames
<1>2. [op |-> op] \in [{"op"} -> OpNames \cup {"None"} \cup Nat \cup Seq(Byte)]
  OBVIOUS
<1> QED
  BY <1>1, <1>2 DEF Frames

LEMMA FrameFacts ==
  ASSUME NEW fr \in Frames
  PROVE  /\ DOMAIN fr \subseteq FieldNames
         /\ \A g \in DOMAIN fr : fr[g] \in OpNames \cup {"None"} \cup Nat \cup Seq(Byte)
         /\ fr = [g \in DOMAIN fr |-> fr[g]]
<1>1. PICK S \in SUBSET FieldNames : fr \in [S -> OpNames \cup {"None"} \cup Nat \cup Seq(Byte)]
  BY DEF Frames
<1> QED
  BY <1>1

\* The fields read, with one more.
Extended(fr, f, v) == [g \in DOMAIN fr \cup {f} |-> IF g # f THEN fr[g] ELSE v]

OneMore(fx, fr, f, v) ==
  /\ fx \in Frames /\ DOMAIN fx = DOMAIN fr \cup {f} /\ fx[f] = v /\ fx.op = fr.op
  /\ \A g \in DOMAIN fr : g # f => fx[g] = fr[g]

LEMMA ExtendFrame ==
  ASSUME NEW fr \in Frames, "op" \in DOMAIN fr, NEW f \in FieldNames \ {"op"},
         NEW v \in Nat \cup Seq(Byte)
  PROVE  OneMore(Extended(fr, f, v), fr, f, v)
<1> DEFINE V == OpNames \cup {"None"} \cup Nat \cup Seq(Byte)
           S == DOMAIN fr \cup {f}
<1>1. S \in SUBSET FieldNames /\ \A g \in DOMAIN fr : fr[g] \in V
  BY FrameFacts
<1>2. v \in V
  OBVIOUS
<1> HIDE DEF V
<1>3. Extended(fr, f, v) \in [S -> V]
  BY <1>1, <1>2 DEF Extended
<1>4. Extended(fr, f, v) \in Frames
  BY <1>1, <1>3 DEF Frames, V
<1> QED
  BY <1>4 DEF Extended, OneMore

LEMMA SameVerdict ==
  ASSUME NEW fr, NEW gr, fr.op = gr.op, fr.name = gr.name,
         gr.op \in {"Get", "Set", "Delete"} => fr.klen = gr.klen,
         gr.op = "Set" => fr.vlen = gr.vlen
  PROVE  Verdict(fr) = Verdict(gr)
<1>1. validate_db_name(fr) = validate_db_name(gr)
  BY DEF validate_db_name
<1> QED
  BY <1>1 DEF Verdict

LEMMA SendType ==
  ASSUME NEW rsp \in Responses, rsp.status # "none"
  PROVE  send_response(rsp) \in Seq(Byte)
<1>1. code(rsp.status) \in Nat /\ rsp.payload \in Seq(Byte) /\ Len(rsp.payload) \in Nat
  BY StatusCodes, LenProperties DEF Responses
<1>2. u8(code(rsp.status)) \in Seq(Byte) /\ u32(Len(rsp.payload)) \in Seq(Byte)
  BY <1>1, U8, U32Bytes
<1> QED
  BY <1>1, <1>2, Concat DEF send_response

LEMMA AnswerShape ==
  ASSUME served \in Seq(Serveds), s2c \in Seq(Byte), frame' \in Frames,
         NEW o, o.rsp \in Responses, NEW executed \in BOOLEAN, Answer(o, executed)
  PROVE  /\ served' \in Seq(Serveds) /\ s2c' \in Seq(Byte)
         /\ served' = Append(served, [executed |-> executed, frame |-> frame', rsp |-> o.rsp])
         /\ Len(served') = Len(served) + 1 /\ Len(served) \in Nat
         /\ todo' = <<"op">> /\ server' \in {"reading", "closing"}
<1>1. [executed |-> executed, frame |-> frame', rsp |-> o.rsp] \in Serveds
  BY DEF Serveds
<1>2. served' = Append(served, [executed |-> executed, frame |-> frame', rsp |-> o.rsp])
  BY DEF Answer
<1>3. served' \in Seq(Serveds) /\ Len(served') = Len(served) + 1 /\ Len(served) \in Nat
  BY <1>1, <1>2, AppendProperties, LenProperties
<1>4. s2c' \in Seq(Byte)
  BY SendType, Concat DEF Answer
<1> QED
  BY <1>2, <1>3, <1>4 DEF Answer

\* read_u8 of the operation.
LEMMA ReadOp ==
  ASSUME ShapeInv, ReadField, todo = <<"op">>
  PROVE  /\ Len(c2s) >= 1 /\ c2s' = Drop(c2s, 1) /\ c2s[1] \in Byte
         /\ frame' = [op |-> from_u8(c2s[1])] /\ from_u8(c2s[1]) \in OpNames \cup {"None"}
         /\ \/ /\ from_u8(c2s[1]) = "None" /\ Answer(Ends(Message("InvalidRequest")), FALSE)
            \/ /\ from_u8(c2s[1]) # "None" /\ todo' = Fields(from_u8(c2s[1]))
               /\ server' = IF from_u8(c2s[1]) = "Close" THEN "closing" ELSE "reading"
               /\ UNCHANGED <<s2c, served>>
<1>1. Head(todo) = "op"
  BY DEF ReadField
<1>2. Width("op") = 1
  BY DEF Width
<1>3. c2s \in Seq(Byte) /\ Len(c2s) >= 1 /\ c2s' = Drop(c2s, 1)
  BY <1>1, <1>2 DEF ReadField, ShapeInv, StreamTypes
<1>4. c2s[1] \in Byte /\ SubSeq(c2s, 1, 1)[1] = c2s[1]
  BY <1>3
<1>5. from_u8(c2s[1]) \in OpNames \cup {"None"}
  <2>1. CASE c2s[1] < Len(Operations)
    <3>1. c2s[1] + 1 \in DOMAIN Operations
      BY <1>4, <2>1, BaseFacts DEF Operations, Byte
    <3> QED
      BY <2>1, <3>1 DEF from_u8, OpNames, ToSet
  <2>2. CASE ~(c2s[1] < Len(Operations))
    BY <2>2 DEF from_u8
  <2> QED
    BY <2>1, <2>2
<1>6. frame' = [op |-> from_u8(c2s[1])]
  BY <1>1, <1>2, <1>4 DEF ReadField
<1>7. frame'.op = from_u8(c2s[1])
  BY <1>6
<1>8. \/ frame'.op = "None" /\ Answer(Ends(Message("InvalidRequest")), FALSE)
      \/ /\ frame'.op # "None" /\ todo' = Fields(frame'.op)
         /\ server' = IF frame'.op = "Close" THEN "closing" ELSE "reading"
         /\ UNCHANGED <<s2c, served>>
  BY <1>1 DEF ReadField
<1> QED
  BY <1>3, <1>4, <1>5, <1>6, <1>7, <1>8

\* The value of a field of these bytes.
Decoded(f, bytes) == IF f \in {"nlen", "klen", "vlen"} THEN Number(bytes) ELSE bytes

\* The reads of the other fields.
LEMMA ReadRest ==
  ASSUME ShapeInv, ReadField, todo # <<"op">>
  PROVE  LET f == Head(todo)
             w == Width(f)
             v == Decoded(f, SubSeq(c2s, 1, w))
         IN  /\ server = "reading" /\ todo # <<>>
             /\ f \in FieldNames \ {"op"} /\ w \in 0 .. Len(c2s) /\ c2s' = Drop(c2s, w)
             /\ v \in Nat \cup Seq(Byte)
             /\ f = "nlen" => v \in Byte
             /\ f \in {"klen", "vlen"} => v \in Nat
             /\ frame' = Extended(frame, f, v)
             /\ \/ /\ f = "name" /\ Verdict(frame') # "valid"
                   /\ Answer(Ends(Message(Verdict(frame'))), FALSE)
                \/ /\ ~(f = "name" /\ Verdict(frame') # "valid")
                   /\ todo' = Tail(todo) /\ UNCHANGED <<server, s2c, served>>
<1>1. server = "reading" /\ todo # <<>> /\ FrameInv /\ c2s \in Seq(Byte)
  BY DEF ReadField, ShapeInv, ServerInv, StreamTypes
<1>2. PICK f : f = Head(todo) /\ f \in FieldNames \ {"op"}
  BY <1>1, AtField
<1>3. PICK w \in Nat : w = Width(f)
  BY <1>1, <1>2, WidthNat
<1>4. w \in 0 .. Len(c2s) /\ c2s' = Drop(c2s, w)
  BY <1>1, <1>2, <1>3 DEF ReadField
<1>5. PICK b \in Seq(Byte) : b = SubSeq(c2s, 1, w) /\ Len(b) = w
  <2>1. SubSeq(c2s, 1, w) \in Seq(Byte) /\ Len(SubSeq(c2s, 1, w)) = w
    BY <1>1, <1>4, DropFacts
  <2> QED
    BY <2>1, Zenon
<1>6. /\ Decoded(f, b) \in Nat \cup Seq(Byte)
      /\ f = "nlen" => Decoded(f, b) \in Byte
      /\ f \in {"klen", "vlen"} => Decoded(f, b) \in Nat
  <2>1. CASE f = "nlen"
    <3>1. Len(b) = 1
      BY <1>3, <1>5, <2>1 DEF Width
    <3>2. Number(b) \in Nat /\ Number(b) \in Byte
      BY <3>1, NumberNat
    <3> QED
      BY <2>1, <3>2 DEF Decoded
  <2>2. CASE f \in {"klen", "vlen"}
    <3>1. Len(b) = 2
      BY <1>3, <1>5, <2>2 DEF Width
    <3>2. Number(b) \in Nat
      BY <3>1, NumberNat
    <3> QED
      BY <2>2, <3>2 DEF Decoded
  <2>3. CASE f \notin {"nlen", "klen", "vlen"}
    BY <2>3 DEF Decoded
  <2> QED
    BY <2>1, <2>2, <2>3
<1>7. /\ frame' = Extended(frame, f, Decoded(f, b))
      /\ \/ /\ f = "name" /\ Verdict(frame') # "valid"
            /\ Answer(Ends(Message(Verdict(frame'))), FALSE)
         \/ /\ ~(f = "name" /\ Verdict(frame') # "valid")
            /\ todo' = Tail(todo) /\ UNCHANGED <<server, s2c, served>>
  BY <1>2, <1>3, <1>5 DEF ReadField, Decoded, Extended
<1> QED
  BY <1>1, <1>2, <1>3, <1>4, <1>5, <1>6, <1>7

LEMMA ReadFieldShape ==
  ASSUME ShapeInv, ReadField
  PROVE  ShapeInv'
<1> USE DEF ShapeInv
<1>1. /\ c2s \in Seq(Byte) /\ s2c \in Seq(Byte) /\ served \in Seq(Serveds)
      /\ frame \in Frames /\ server = "reading"
      /\ UNCHANGED <<client, current_db, req, out, reset, sent, got>>
  BY DEF StreamTypes, ServerInv, FrameInv, ReadField, clientVars
<1>2. ClientInv'
  BY <1>1 DEF ClientInv
<1>3. \A st \in {"InvalidRequest", "PayloadTooLarge"} : Ends(Message(st)).rsp \in Responses
  BY MessageFacts, StatusesAre DEF Ends
<1>4. <<"op">> \in Seq(FieldNames)
  BY DEF FieldNames
<1>5. ASSUME NEW o, Answer(o, FALSE), o.rsp \in Responses, frame' \in Frames, c2s' \in Seq(Byte)
      PROVE  StreamTypes' /\ ServerInv'
  <2>1. /\ served' \in Seq(Serveds) /\ s2c' \in Seq(Byte)
        /\ todo' = <<"op">> /\ server' \in {"reading", "closing"}
    BY <1>1, <1>5, AnswerShape
  <2> QED
    BY <1>1, <1>4, <1>5, <2>1 DEF StreamTypes, ServerInv, FrameInv
<1>6. CASE todo = <<"op">>
  <2>1. PICK op \in OpNames \cup {"None"} :
          /\ frame' = [op |-> op] /\ Len(c2s) >= 1 /\ c2s' = Drop(c2s, 1)
          /\ \/ op = "None" /\ Answer(Ends(Message("InvalidRequest")), FALSE)
             \/ /\ op # "None" /\ todo' = Fields(op)
                /\ server' = IF op = "Close" THEN "closing" ELSE "reading"
                /\ UNCHANGED <<s2c, served>>
    BY <1>6, ReadOp
  <2>2. frame' \in Frames /\ DOMAIN frame' = {"op"} /\ frame'.op = op
    BY <2>1, NewFrame
  <2>3. c2s' \in Seq(Byte)
    <3>1. 1 \in 0 .. Len(c2s)
      BY <1>1, <2>1
    <3> QED
      BY <1>1, <2>1, <3>1, DropFacts
  <2>4. CASE op = "None" /\ Answer(Ends(Message("InvalidRequest")), FALSE)
    BY <1>2, <1>3, <1>5, <2>2, <2>3, <2>4
  <2>5. CASE /\ op # "None" /\ todo' = Fields(op)
             /\ server' = IF op = "Close" THEN "closing" ELSE "reading"
             /\ UNCHANGED <<s2c, served>>
    <3>1. Fields(op) \in Seq(FieldNames \ {"op"}) /\ Len(Fields(op)) \in Nat
      BY FieldsFacts, LenProperties
    <3>2. Fields(op) \in Seq(FieldNames)
      BY <3>1
    <3>3. Fields(op) # <<"op">>
      <4>1. SUFFICES ASSUME Fields(op) = <<"op">> PROVE FALSE
        OBVIOUS
      <4>2. Len(<<"op">>) = 1 /\ <<"op">>[1] = "op"
        OBVIOUS
      <4>3. \A i \in 1 .. Len(Fields(op)) : Fields(op)[i] # "op"
        BY <3>1
      <4> QED
        BY <4>1, <4>2, <4>3
    <3>4. Taken' = 1
      BY <2>2, <2>5, <3>1, <3>3 DEF Taken
    <3>5. SubSeq(Fields(op), 1, Len(Fields(op))) = Fields(op)
      BY <3>1, SubSeqFull
    <3>6. Before(op, 1) = {"op"}
      BY DEF Before
    <3>7. FrameInv'
      <4>1. server' = "reading" => op \in OpNames \ {"Close"}
        BY <2>5
      <4>2. DOMAIN frame' = Before(frame'.op, Taken')
        BY <2>2, <3>4, <3>6
      <4>3. /\ Len(todo') <= Len(Fields(frame'.op))
            /\ todo' = SubSeq(Fields(frame'.op), Taken', Len(Fields(frame'.op)))
        BY <2>2, <2>5, <3>1, <3>4, <3>5
      <4> QED
        BY <2>2, <2>5, <3>2, <4>1, <4>2, <4>3 DEF FrameInv
    <3> QED
      BY <1>1, <1>2, <2>3, <2>5, <3>7 DEF StreamTypes, ServerInv
  <2> QED
    BY <2>1, <2>4, <2>5
<1>7. CASE todo # <<"op">>
  <2>1. PICK f \in FieldNames \ {"op"}, v \in Nat \cup Seq(Byte), w \in 0 .. Len(c2s) :
          /\ f = Head(todo) /\ c2s' = Drop(c2s, w) /\ todo # <<>>
          /\ f = "nlen" => v \in Byte
          /\ f \in {"klen", "vlen"} => v \in Nat
          /\ frame' = Extended(frame, f, v)
          /\ \/ /\ f = "name" /\ Verdict(frame') # "valid"
                /\ Answer(Ends(Message(Verdict(frame'))), FALSE)
             \/ /\ ~(f = "name" /\ Verdict(frame') # "valid")
                /\ todo' = Tail(todo) /\ UNCHANGED <<server, s2c, served>>
    BY <1>7, ReadRest
  <2>2. c2s' \in Seq(Byte)
    BY <1>1, <2>1, DropFacts
  <2>3. /\ FrameInv /\ "op" \in DOMAIN frame /\ f \notin DOMAIN frame
        /\ "name" \in DOMAIN frame =>
             /\ f \in {"key", "val"}
             /\ frame.op \in {"Get", "Set", "Delete"} => "klen" \in DOMAIN frame
             /\ frame.op = "Set" => "vlen" \in DOMAIN frame
    BY <1>1, <1>7, <2>1, AtField DEF ServerInv
  <2>4. /\ frame' \in Frames /\ DOMAIN frame' = DOMAIN frame \cup {f}
        /\ frame'[f] = v /\ frame'.op = frame.op
        /\ \A g \in DOMAIN frame : g # f => frame'[g] = frame[g]
    <3>1. OneMore(Extended(frame, f, v), frame, f, v)
      BY <1>1, <2>3, ExtendFrame
    <3>2. OneMore(frame', frame, f, v)
      BY <2>1, <3>1
    <3> QED
      BY <3>2 DEF OneMore
  <2>5. CASE f = "name" /\ Verdict(frame') # "valid" /\ Answer(Ends(Message(Verdict(frame'))), FALSE)
    <3>1. Ends(Message(Verdict(frame'))).rsp \in Responses
      BY <1>3, <2>5, VerdictStatus
    <3> QED
      BY <1>2, <1>5, <2>2, <2>4, <2>5, <3>1
  <2>6. CASE /\ ~(f = "name" /\ Verdict(frame') # "valid")
             /\ todo' = Tail(todo) /\ UNCHANGED <<server, s2c, served>>
    <3>0. PICK op \in OpNames \ {"Close"} : op = frame.op
      BY <1>1, <1>7, <2>1, <2>3, Position
    <3>1. PICK t \in 1 .. Len(Fields(op)) :
            /\ t = Taken /\ f = Fields(op)[t]
            /\ Tail(todo) = SubSeq(Fields(op), t + 1, Len(Fields(op)))
            /\ Tail(todo) # <<"op">> /\ Len(Tail(todo)) = Len(Fields(op)) - t
      BY <1>1, <1>7, <2>1, <2>3, <3>0, Position
    <3>2. Len(Fields(op)) \in Nat
      BY FieldsFacts, LenProperties
    <3>3. Taken' = t + 1
      <4>1. todo' # <<"op">> /\ Len(todo') = Len(Fields(op)) - t /\ frame'.op = op
        BY <2>4, <2>6, <3>0, <3>1
      <4>2. Taken' = 1 + Len(Fields(op)) - (Len(Fields(op)) - t)
        BY <4>1 DEF Taken
      <4> QED
        BY <3>2, <4>2
    <3>4. DOMAIN frame' = Before(op, t + 1)
      <4>1. DOMAIN frame = Before(op, t)
        BY <1>1, <1>7, <2>3, <3>0, <3>1 DEF FrameInv
      <4>2. 1 .. (t + 1) - 1 = (1 .. t - 1) \cup {t}
        BY <3>2
      <4>3. Before(op, t + 1) = Before(op, t) \cup {Fields(op)[t]}
        BY <4>2 DEF Before
      <4> QED
        BY <2>4, <3>0, <3>1, <4>1, <4>3
    <3>5. todo' \in Seq(FieldNames)
      BY <2>1, <2>3, <2>6 DEF FrameInv
    <3>6. /\ "nlen" \in DOMAIN frame' => frame'.nlen \in Byte
          /\ "klen" \in DOMAIN frame' => frame'.klen \in Nat
          /\ "vlen" \in DOMAIN frame' => frame'.vlen \in Nat
      BY <1>1, <1>7, <2>1, <2>3, <2>4 DEF FrameInv
    <3>7. "name" \in DOMAIN frame' => Verdict(frame') = "valid"
      <4>1. CASE f = "name"
        BY <2>6, <4>1
      <4>2. CASE "name" \in DOMAIN frame /\ f # "name"
        <5>1. /\ frame'.op = frame.op /\ frame'.name = frame.name
              /\ frame.op \in {"Get", "Set", "Delete"} => frame'.klen = frame.klen
              /\ frame.op = "Set" => frame'.vlen = frame.vlen
          BY <2>3, <2>4, <4>2
        <5>2. Verdict(frame) = "valid"
          BY <1>1, <1>7, <2>3, <4>2 DEF FrameInv
        <5> QED
          BY <5>1, <5>2, SameVerdict
      <4> QED
        BY <2>4, <4>1, <4>2
    <3>8. FrameInv'
      <4>1. /\ Len(todo') <= Len(Fields(frame'.op))
            /\ todo' = SubSeq(Fields(frame'.op), Taken', Len(Fields(frame'.op)))
        BY <2>4, <2>6, <3>0, <3>1, <3>2, <3>3
      <4>2. DOMAIN frame' = Before(frame'.op, Taken')
        BY <2>4, <3>0, <3>1, <3>3, <3>4
      <4> QED
        BY <2>4, <3>0, <3>1, <3>5, <3>6, <3>7, <4>1, <4>2 DEF FrameInv
    <3> QED
      BY <1>1, <1>2, <2>2, <2>6, <3>8 DEF StreamTypes, ServerInv
  <2> QED
    BY <2>1, <2>5, <2>6
<1> QED
  BY <1>6, <1>7

LEMMA ExecuteShape ==
  ASSUME ShapeInv, Execute
  PROVE  ShapeInv'
<1> USE DEF ShapeInv
<1>1. /\ c2s \in Seq(Byte) /\ s2c \in Seq(Byte) /\ served \in Seq(Serveds)
      /\ frame \in Frames /\ frame' = frame /\ server = "reading" /\ todo = <<>>
      /\ UNCHANGED <<client, current_db, req, out, c2s, reset, sent, got>>
  BY DEF StreamTypes, ServerInv, FrameInv, Execute, Executable, clientVars
<1>2. ClientInv'
  BY <1>1 DEF ClientInv
<1>3. frame.op \in OpNames \ {"Close"}
  <2>1. todo # <<"op">>
    BY <1>1
  <2> QED
    BY <1>1, <2>1 DEF ServerInv, FrameInv
<1>4. PICK o \in Outcomes(frame) : Answer(o, TRUE)
  BY DEF Execute
<1>5. o.rsp \in Responses
  BY <1>3, OutcomeFacts
<1>6. /\ served' \in Seq(Serveds) /\ s2c' \in Seq(Byte)
      /\ todo' = <<"op">> /\ server' \in {"reading", "closing"}
  BY <1>1, <1>4, <1>5, AnswerShape
<1>7. <<"op">> \in Seq(FieldNames)
  BY DEF FieldNames
<1> QED
  BY <1>1, <1>2, <1>6, <1>7 DEF StreamTypes, ServerInv, FrameInv

LEMMA CloseShape ==
  ASSUME ShapeInv, ReadErr \/ CloseSocket
  PROVE  ShapeInv'
<1> USE DEF ShapeInv
<1>1. /\ server' \in {"closing", "closed"} /\ c2s' \in {c2s, <<>>} /\ reset' \in BOOLEAN
      /\ UNCHANGED <<client, current_db, req, out, s2c, todo, frame, sent, served, got>>
  BY DEF ReadErr, CloseSocket, clientVars, StreamTypes
<1>2. <<>> \in Seq(Byte)
  OBVIOUS
<1> QED
  BY <1>1, <1>2 DEF ClientInv, StreamTypes, ServerInv, FrameInv

LEMMA ShapeInit ==
  ASSUME Init
  PROVE  ShapeInv
<1>1. PICK r \in Requests : r = Plain("Ping")
  BY PlainPing
<1>2. InitialDbs \subseteq Seq(Byte)
  BY BaseFacts
<1>3. <<>> \in Seq(Requests) /\ <<>> \in Seq(Responses) /\ <<>> \in Seq(Byte)
      /\ <<>> \in Seq(Serveds) /\ Len(<<>>) = 0 /\ <<"op">> \in Seq(FieldNames)
  BY DEF FieldNames
<1>4. [op |-> "None"] \in Frames
  BY NewFrame
<1>5. out = Writes(r) /\ req = r /\ current_db \in Seq(Byte) /\ client = "writing"
  BY <1>1, <1>2 DEF Init
<1>6. out \in Seq(Seq(Byte)) /\ Len(out) <= 7 /\ out # <<>>
  BY <1>5, WritesLen
<1>7. ClientInv
  BY <1>3, <1>5, <1>6 DEF Init, ClientInv
<1> QED
  BY <1>3, <1>4, <1>7 DEF Init, ShapeInv, StreamTypes, ServerInv, FrameInv

LEMMA ShapeNext ==
  ASSUME ShapeInv, [Next]_vars
  PROVE  ShapeInv'
<1>1. CASE \E r \in Commands : Ask(r)
  BY <1>1, AskShape
<1>2. CASE \E n \in DbNames : Use(n)
  BY <1>2, UseShape
<1>3. CASE Write
  BY <1>3, WriteShape
<1>4. CASE ReadResponse
  BY <1>4, ReadResponseShape
<1>5. CASE IoErr \/ Kill \/ EndOfInput
  BY <1>5, EndsShape
<1>6. CASE ReadField
  BY <1>6, ReadFieldShape
<1>7. CASE Execute
  BY <1>7, ExecuteShape
<1>8. CASE ReadErr \/ CloseSocket
  BY <1>8, CloseShape
<1>9. CASE UNCHANGED vars
  BY <1>9 DEF vars, clientVars, serverVars, ShapeInv, ClientInv, StreamTypes,
     ServerInv, FrameInv, Taken
<1> QED
  BY <1>1, <1>2, <1>3, <1>4, <1>5, <1>6, <1>7, <1>8, <1>9 DEF Next

\* Both sides keep their shape, whatever the user types and wherever a client
\* dies: in particular a field is read only after its length, and a key or a
\* value only after the limits have admitted its length.
THEOREM ConnectionShape == Spec => []ShapeInv
<1>1. Init => ShapeInv
  BY ShapeInit
<1>2. ShapeInv /\ [Next]_vars => ShapeInv'
  BY ShapeNext
<1> QED
  BY <1>1, <1>2, PTL DEF Spec

\* Type correctness of both sides and of the streams between them.
THEOREM ConnectionTypeCorrect == Spec => []TypeOK
<1>1. ShapeInv => TypeOK
  <2> SUFFICES ASSUME ShapeInv PROVE TypeOK
    OBVIOUS
  <2>1. /\ c2s \in Seq(Byte) /\ s2c \in Seq(Byte) /\ current_db \in Seq(Byte)
        /\ out \in Seq(Seq(Byte)) /\ sent \in Seq(Requests) /\ got \in Seq(Responses)
        /\ Len(sent) \in {Len(got), Len(got) + 1}
    BY DEF ShapeInv, ClientInv, StreamTypes
  <2>2. ASSUME NEW S, NEW s \in Seq(S) PROVE ToSet(s) \subseteq S
    BY DEF ToSet
  <2>3. \A s \in Seq(Byte) : ToSet(s) \subseteq 0 .. Base - 1
    BY <2>2 DEF Byte
  <2>4. \A s \in {c2s, s2c, current_db} \cup ToSet(out) : s \in Seq(Byte)
    BY <2>1, <2>2
  <2>5. ToSet(sent) \subseteq Requests
    BY <2>1, <2>2
  <2>6. Len(got) <= Len(sent) /\ Len(sent) <= Len(got) + 1
    <3>1. Len(got) \in Nat
      BY <2>1, LenProperties
    <3> QED
      BY <2>1, <3>1
  <2> QED
    BY <2>3, <2>4, <2>5, <2>6 DEF ShapeInv, ClientInv, StreamTypes, ServerInv,
       TypeOK
<1> QED
  BY <1>1, ConnectionShape, PTL

\* handle_client never reserves a buffer larger than the limits it is run
\* with, whatever lengths the client claims.
THEOREM ReadsAreBounded == Spec => []BoundedReads
<1>1. ShapeInv => BoundedReads
  <2> SUFFICES ASSUME ShapeInv, server = "reading", todo # <<>>,
                      NEW f, f = Head(todo), NEW D, D = DOMAIN frame
               PROVE  Width(f) <= (CASE f = "key" -> MaxKeySize
                                     [] f = "val" -> MaxValueSize
                                     [] OTHER -> Base - 1)
    BY DEF BoundedReads
  <2>0. FrameInv
    BY DEF ShapeInv, ServerInv
  <2>1. Base \in Nat /\ Base > 9 /\ MaxKeySize \in Nat /\ MaxValueSize \in Nat
    BY BaseFacts
  <2>2. CASE todo = <<"op">>
    <3>1. f = "op"
      BY <2>2
    <3> QED
      BY <2>1, <3>1 DEF Width
  <2>3. CASE todo # <<"op">>
    <3>1. /\ f \in FieldNames \ {"op"}
          /\ f = "name" => "nlen" \in D
          /\ f = "key" => frame.op \in {"Get", "Set", "Delete"} /\ "klen" \in D /\ "name" \in D
          /\ f = "val" => frame.op = "Set" /\ "vlen" \in D /\ "name" \in D
      BY <2>0, <2>3, AtField
    <3>2. /\ "nlen" \in D => frame.nlen \in Byte
          /\ "klen" \in D => frame.klen \in Nat
          /\ "vlen" \in D => frame.vlen \in Nat
          /\ "name" \in D => Verdict(frame) = "valid"
      BY <2>0, <2>3 DEF FrameInv
    <3>3. ASSUME NEW n \in Nat, NEW m \in Nat, validate_size(n, m) = "valid" PROVE n <= m
      BY <3>3 DEF validate_size
    <3>4. CASE f = "key"
      <4>1. validate_size(frame.klen, MaxKeySize) = "valid"
        BY <3>1, <3>2, <3>4 DEF Verdict
      <4> QED
        BY <2>1, <3>1, <3>2, <3>3, <3>4, <4>1 DEF Width
    <3>5. CASE f = "val"
      <4>1. validate_size(frame.vlen, MaxValueSize) = "valid"
        BY <3>1, <3>2, <3>5 DEF Verdict
      <4> QED
        BY <2>1, <3>1, <3>2, <3>3, <3>5, <4>1 DEF Width
    <3>6. CASE f = "name"
      BY <2>1, <3>1, <3>2, <3>6 DEF Width, Byte
    <3>7. CASE f \in {"nlen", "klen", "vlen"}
      BY <2>1, <3>7 DEF Width
    <3> QED
      BY <3>1, <3>4, <3>5, <3>6, <3>7 DEF FieldNames
  <2> QED
    BY <2>2, <2>3
<1> QED
  BY <1>1, ConnectionShape, PTL

-----------------------------------------------------------------------------
(* The conversation goes on. *)

\* The rest of a stream after its front.
LEMMA AfterFront ==
  ASSUME NEW a \in Seq(Byte), NEW b \in Seq(Byte), NEW u, u = a \o b
  PROVE  Len(a) <= Len(u) /\ Drop(u, Len(a)) = b /\ u \in Seq(Byte)
<1>1. u \in Seq(Byte) /\ Len(u) = Len(a) + Len(b) /\ Len(a) \in Nat /\ Len(b) \in Nat
  BY Concat
<1>2. PICK e \in Seq(Byte) : e = <<>>
  <2>1. <<>> \in Seq(Byte)
    OBVIOUS
  <2> QED
    BY <2>1, Zenon
<1>3. ASSUME NEW s \in Seq(Byte) PROVE s \o e = s
  BY <1>2
<1>4. Len(a) <= Len(u) /\ Len(a) \in 0 .. Len(u)
  BY <1>1
<1>5. u \o e = a \o b
  BY <1>1, <1>3
<1>6. Drop(u, Len(a)) \o e = b /\ Drop(u, Len(a)) \in Seq(Byte)
  <2>1. Drop(u, Len(a)) \o e = b
    BY <1>1, <1>4, <1>5, CutFront
  <2> QED
    BY <1>1, <1>4, <2>1, DropFacts
<1> QED
  BY <1>1, <1>3, <1>4, <1>6

\* A request of which nothing is written or read yet.
LEMMA FreshRequest ==
  ASSUME NEW r \in Requests, NEW u, u = Cat(SubSeq(Writes(r), 1, Len(Writes(r))))
  PROVE  /\ u = Cat(Writes(r)) /\ u \in Seq(Byte) /\ <<>> \o u = u /\ Drop(u, 0) = u
         /\ 0 <= Len(u) /\ (Valid(r) => u # <<>>)
<1>1. Writes(r) \in Seq(Seq(Byte)) /\ Len(Writes(r)) <= 7 /\ Writes(r) # <<>>
  BY WritesLen
<1>2. SubSeq(Writes(r), 1, Len(Writes(r))) = Writes(r)
  BY <1>1, SubSeqFull
<1>3. u = Cat(Writes(r)) /\ u \in Seq(Byte)
  BY <1>1, <1>2, CatType
<1>4. ASSUME NEW s \in Seq(Byte) PROVE <<>> \o s = s /\ SubSeq(s, 1, Len(s)) = s /\ 0 <= Len(s)
  BY SubSeqFull
<1>5. <<>> \o u = u /\ Drop(u, 0) = u /\ 0 <= Len(u)
  BY <1>3, <1>4 DEF Drop
<1>6. ASSUME Valid(r) PROVE u # <<>>
  <2>1. Len(Writes(r)) >= 1 /\ Head(Writes(r)) = Writes(r)[1]
    BY <1>1
  <2>2. Head(Writes(r)) # <<>>
    BY <1>6, <2>1, ValidWrites
  <2> QED
    BY <1>1, <1>3, <2>2, CatNotEmpty
<1> QED
  BY <1>3, <1>5, <1>6

\* The t-th write comes first of those from the t-th on.
LEMMA NextWrite ==
  ASSUME NEW r \in Requests, NEW t \in 1 .. Len(Writes(r))
  PROVE  /\ Cat(SubSeq(Writes(r), t, Len(Writes(r))))
              = Writes(r)[t] \o Cat(SubSeq(Writes(r), t + 1, Len(Writes(r))))
         /\ Writes(r)[t] \in Seq(Byte)
         /\ Cat(SubSeq(Writes(r), t + 1, Len(Writes(r)))) \in Seq(Byte)
<1>1. PICK w \in Seq(Seq(Byte)) : w = Writes(r) /\ Len(w) <= 7
  BY WritesLen
<1>2. PICK n \in Nat : n = Len(w)
  BY LenProperties
<1>3. t \in 1 .. n /\ n <= 7
  BY <1>1, <1>2
<1>4. PICK x \in Seq(Seq(Byte)) : x = SubSeq(w, t, n) /\ Len(x) = n - t + 1
  <2>1. \A i \in t .. n : w[i] \in Seq(Byte)
    BY <1>2, <1>3
  <2>2. SubSeq(w, t, n) \in Seq(Seq(Byte)) /\ Len(SubSeq(w, t, n)) = n - t + 1
    BY <1>2, <1>3, <2>1, SubSeqProperties
  <2> QED
    BY <2>2, Zenon
<1>5. Head(x) = w[t] /\ Tail(x) = SubSeq(w, t + 1, n)
  BY <1>2, <1>3, <1>4, HeadTailOfSubSeq
<1>6. Len(x) <= 7 /\ x # <<>>
  <2>1. n - t + 1 <= 7 /\ n - t + 1 # 0
    BY <1>3
  <2>2. Len(x) <= 7 /\ Len(x) # 0
    BY <1>4, <2>1, Zenon
  <2>3. Len(<<>>) = 0
    OBVIOUS
  <2> QED
    BY <2>2, <2>3, Zenon
<1>7. /\ Cat(x) = Head(x) \o Cat(Tail(x))
      /\ Head(x) \in Seq(Byte) /\ Cat(Tail(x)) \in Seq(Byte)
  BY <1>6, CatFirst
<1> QED
  BY <1>1, <1>2, <1>4, <1>5, <1>7

\* What is left of a request when all its fields are read.
LEMMA NothingLeft ==
  ASSUME NEW r \in Requests
  PROVE  Cat(SubSeq(Writes(r), Len(Writes(r)) + 1, Len(Writes(r)))) = <<>>
<1>1. PICK w \in Seq(Seq(Byte)) : w = Writes(r)
  BY WritesLen
<1>2. SubSeq(w, Len(w) + 1, Len(w)) = <<>>
  BY <1>1, SubSeqEmpty, LenProperties
<1>3. <<>> \in Seq(Seq(Byte))
  OBVIOUS
<1>4. Cat(<<>>) = <<>>
  BY <1>3, CatType
<1> QED
  BY <1>1, <1>2, <1>4

\* The histories say the same as long as they do not grow.
LEMMA SameHistory ==
  ASSUME ExecutedAsAsked, AnswersMatch, UNCHANGED <<sent, served, got>>
  PROVE  ExecutedAsAsked' /\ AnswersMatch' /\ Answered' = Answered
BY DEF ExecutedAsAsked, TakenAsWritten, AnswersMatch, Answered

\* The client asks only when it has the answer to what it asked before.
LEMMA PromptIsIdle ==
  ASSUME ConnectionInv, client \in {"prompt", "eof"}
  PROVE  /\ ~Answered /\ s2c = <<>> /\ Len(sent) = Len(got)
         /\ server = "reading" => c2s = <<>> /\ todo = <<"op">>
<1>1. ~Answered
  BY DEF ConnectionInv, ConversationInv, AnsweredInv
<1> QED
  BY <1>1 DEF ConnectionInv, ConversationInv, PendingInv, ShapeInv, ClientInv

\* A request of which nothing is written yet is under way.
LEMMA StartsFresh ==
  ASSUME NEW r \in Requests, c2s = <<>>, todo = <<"op">>, req = r
  PROVE  /\ c2s \o Missing = Unread /\ Len(c2s) <= Len(Unread)
         /\ Missing = Cat(Writes(r)) /\ (Valid(r) => Missing # <<>>)
<1>1. Taken = 0 /\ Len(c2s) = 0
  BY DEF Taken
<1>2. Unread = Cat(SubSeq(Writes(r), 1, Len(Writes(r))))
  BY <1>1 DEF Unread
<1>3. PICK u : u = Unread
  OBVIOUS
<1>4. /\ u = Cat(Writes(r)) /\ <<>> \o u = u /\ Drop(u, 0) = u
      /\ 0 <= Len(u) /\ (Valid(r) => u # <<>>)
  BY <1>2, <1>3, FreshRequest
<1>5. Missing = u
  BY <1>1, <1>3, <1>4 DEF Missing
<1> QED
  BY <1>1, <1>3, <1>4, <1>5

LEMMA InitConversation ==
  ASSUME Init
  PROVE  ConversationInv
<1>1. PICK r \in Requests : r = Plain("Ping") /\ Fits(r)
  BY PlainPing
<1>2. /\ client = "writing" /\ req = r /\ out = Writes(r) /\ c2s = <<>> /\ s2c = <<>>
      /\ reset = FALSE /\ todo = <<"op">>
      /\ Len(sent) = 0 /\ Len(served) = 0 /\ Len(got) = 0 /\ current_db \in InitialDbs
  BY <1>1 DEF Init
<1>3. RequestInv
  BY <1>1, <1>2, ValidWrites DEF RequestInv
<1>4. /\ c2s \o Missing = Unread /\ Len(c2s) <= Len(Unread)
      /\ Missing = Cat(Writes(r)) /\ (Valid(r) => Missing # <<>>)
  BY <1>2, StartsFresh
<1>5. PendingInv
  BY <1>2, <1>4 DEF PendingInv
<1>6. AnsweredInv
  BY <1>2 DEF AnsweredInv, Answered
<1>7. ExecutedAsAsked /\ AnswersMatch
  BY <1>2 DEF ExecutedAsAsked, AnswersMatch
<1> QED
  BY <1>2, <1>3, <1>5, <1>6, <1>7 DEF ConversationInv

LEMMA AskConversation ==
  ASSUME ConnectionInv, NEW r \in Commands, Fits(r), Ask(r)
  PROVE  ConversationInv'
<1>1. /\ client = "prompt" /\ client' = "writing" /\ req' = r /\ out' = Writes(r)
      /\ UNCHANGED <<current_db, c2s, s2c, reset, server, todo, frame, sent, served, got>>
  BY DEF Ask, serverVars
<1>2. r \in Requests /\ Fits(r)
  BY CommandFacts DEF ConnectionInv, ShapeInv, ClientInv
<1>3. /\ ~Answered /\ s2c = <<>> /\ Len(sent) = Len(got)
      /\ server = "reading" => c2s = <<>> /\ todo = <<"op">>
  BY <1>1, PromptIsIdle
<1>4. ExecutedAsAsked' /\ AnswersMatch' /\ Answered' = Answered
  BY <1>1, SameHistory DEF ConnectionInv, ConversationInv
<1>5. RequestInv'
  <2>1. Len(sent') = Len(got') /\ Len(got) \in Nat
    BY <1>1, <1>3 DEF ConnectionInv, ShapeInv, ClientInv
  <2>2. Valid(r) => \A i \in 1 .. Len(Writes(r)) : Writes(r)[i] # <<>>
    BY <1>2, ValidWrites
  <2> QED
    BY <1>1, <1>2, <2>1, <2>2 DEF RequestInv
<1>6. ASSUME server' = "reading"
      PROVE  /\ c2s' \o Missing' = Unread' /\ Len(c2s') <= Len(Unread')
             /\ Missing' = Cat(Writes(r)) /\ (Valid(r) => Missing' # <<>>)
             /\ todo' = <<"op">>
  <2>1. c2s' = <<>> /\ todo' = <<"op">> /\ req' = r
    BY <1>1, <1>3, <1>6
  <2>2. Taken' = 0 /\ Len(c2s') = 0
    BY <2>1 DEF Taken
  <2>3. Unread' = Cat(SubSeq(Writes(r), 1, Len(Writes(r))))
    BY <2>1, <2>2 DEF Unread
  <2>4. PICK u : u = Unread'
    OBVIOUS
  <2>5. /\ u = Cat(Writes(r)) /\ <<>> \o u = u /\ Drop(u, 0) = u
        /\ 0 <= Len(u) /\ (Valid(r) => u # <<>>)
    BY <1>2, <2>3, <2>4, FreshRequest
  <2>6. Missing' = u
    BY <2>2, <2>4, <2>5 DEF Missing
  <2> QED
    BY <2>1, <2>2, <2>4, <2>5, <2>6
<1>7. PendingInv'
  BY <1>1, <1>3, <1>6 DEF PendingInv
<1>8. AnsweredInv'
  BY <1>3, <1>4 DEF AnsweredInv
<1> QED
  BY <1>1, <1>4, <1>5, <1>7, <1>8 DEF ConnectionInv, ConversationInv

LEMMA UseConversation ==
  ASSUME ConnectionInv, NEW n \in DbNames, Use(n)
  PROVE  ConversationInv'
<1>1. UNCHANGED <<client, req, out, c2s, s2c, reset, server, todo, frame, sent, served, got>>
  BY DEF Use, serverVars
<1>2. ExecutedAsAsked' /\ AnswersMatch' /\ Answered' = Answered
  BY <1>1, SameHistory DEF ConnectionInv, ConversationInv
<1>3. RequestInv'
  BY <1>1 DEF ConnectionInv, ConversationInv, RequestInv
<1>4. PendingInv' /\ AnsweredInv'
  BY <1>1, <1>2 DEF ConnectionInv, ConversationInv, PendingInv, AnsweredInv,
     Missing, Unread, Taken, Latest
<1> QED
  BY <1>1, <1>2, <1>3, <1>4 DEF ConnectionInv, ConversationInv

\* The client fails, is killed or is left at the prompt.
LEMMA EndsConversation ==
  ASSUME ConnectionInv, IoErr \/ Kill \/ EndOfInput
  PROVE  ConversationInv'
<1>1. /\ UNCHANGED <<current_db, req, c2s, s2c, reset, server, todo, frame, sent, served, got>>
      /\ \/ client' = "failed" /\ out' = <<>>
         \/ client = "prompt" /\ client' = "eof" /\ out' = out
  BY DEF IoErr, Kill, EndOfInput, serverVars
<1>2. ExecutedAsAsked' /\ AnswersMatch' /\ Answered' = Answered
  BY <1>1, SameHistory DEF ConnectionInv, ConversationInv
<1>3. RequestInv'
  <2>1. Len(<<>>) = 0
    OBVIOUS
  <2> QED
    BY <1>1, <2>1 DEF ConnectionInv, ConversationInv, RequestInv
<1>4. Missing' = Missing /\ Unread' = Unread
  BY <1>1 DEF Missing, Unread, Taken
<1>5. PendingInv'
  <2>1. CASE client \in {"prompt", "eof"}
    <3>1. /\ ~Answered /\ s2c = <<>> /\ Len(sent) = Len(got)
          /\ server = "reading" => c2s = <<>> /\ todo = <<"op">>
      BY <2>1, PromptIsIdle
    <3>2. req \in Requests
      BY DEF ConnectionInv, ShapeInv, ClientInv
    <3>3. server = "reading" => /\ c2s \o Missing = Unread /\ Len(c2s) <= Len(Unread)
                                /\ Valid(req) => Missing # <<>>
      BY <3>1, <3>2, StartsFresh
    <3> QED
      BY <1>1, <1>2, <1>4, <3>1, <3>3 DEF PendingInv
  <2>2. CASE client \notin {"prompt", "eof"}
    BY <1>1, <1>2, <1>4, <2>2 DEF ConnectionInv, ConversationInv, PendingInv
  <2> QED
    BY <2>1, <2>2
<1>6. AnsweredInv'
  <2>1. Latest' = Latest
    BY <1>1 DEF Latest
  <2>2. CASE Answered
    <3>1. client \in {"writing", "awaiting", "failed"}
      BY <2>2 DEF ConnectionInv, ConversationInv, AnsweredInv
    <3> QED
      BY <1>1, <1>2, <2>1, <3>1 DEF ConnectionInv, ConversationInv, AnsweredInv
  <2>3. CASE ~Answered
    BY <1>2, <2>3 DEF AnsweredInv
  <2> QED
    BY <2>2, <2>3
<1> QED
  BY <1>1, <1>2, <1>3, <1>5, <1>6 DEF ConnectionInv, ConversationInv

\* A write completes the request exactly when it is the last one.
LEMMA WriteSteps ==
  ASSUME ConnectionInv, Write
  PROVE  /\ client = "writing" /\ out # <<>> /\ out' = Tail(out)
         /\ Len(sent) = Len(got) /\ Len(out') = Len(out) - 1 /\ Len(out) \in 1 .. 7
         /\ \/ /\ Len(out) > 1 /\ client' = "writing" /\ sent' = sent
            \/ /\ Len(out) = 1 /\ sent' = Append(sent, req)
               /\ client' = IF req.op = "Close" THEN "quit" ELSE "awaiting"
         /\ UNCHANGED <<current_db, req, s2c, server, todo, frame, served, got>>
         /\ server = "closed" => c2s' = c2s
         /\ server # "closed" => c2s' = c2s \o Head(out) /\ reset' = reset
<1>1. /\ client = "writing" /\ out # <<>> /\ out \in Seq(Seq(Byte)) /\ Len(out) <= 7
      /\ Len(sent) = Len(got)
  BY DEF ConnectionInv, ShapeInv, ClientInv, Write
<1>2. Len(out) \in 1 .. 7
  <2>1. \A s \in Seq(Seq(Byte)) : Len(s) \in Nat /\ (s # <<>> => Len(s) > 0)
    OBVIOUS
  <2>2. \A k \in Nat : k > 0 /\ k <= 7 => k \in 1 .. 7
    OBVIOUS
  <2>3. Len(out) \in Nat /\ Len(out) > 0 /\ Len(out) <= 7
    BY <1>1, <2>1
  <2> QED
    BY <2>2, <2>3, Zenon
<1>3. out' = Tail(out) /\ Len(Tail(out)) = Len(out) - 1
  BY <1>1 DEF Write
<1>4. Len(out) > 1 \/ Len(out) = 1
  BY <1>2
<1> QED
  BY <1>1, <1>2, <1>3, <1>4 DEF Write, serverVars

LEMMA WriteHistory ==
  ASSUME ConnectionInv, Write
  PROVE  /\ ExecutedAsAsked' /\ AnswersMatch' /\ Answered' = Answered
         /\ Len(sent') = Len(got) + 1 => sent'[Len(sent')] = req
<1>1. /\ sent \in Seq(Requests) /\ got \in Seq(Responses) /\ served \in Seq(Serveds)
      /\ req \in Requests /\ Len(served) \in {Len(got), Len(got) + 1}
  BY DEF ConnectionInv, ShapeInv, ClientInv, ServerInv, ConversationInv
<1>2. PICK n \in Nat : n = Len(sent) /\ n = Len(got)
  BY <1>1, WriteSteps, LenProperties
<1>3. UNCHANGED <<served, got>> /\ Answered' = Answered
  BY WriteSteps DEF Answered
<1>4. CASE sent' = sent
  <2>1. ExecutedAsAsked' /\ AnswersMatch'
    BY <1>3, <1>4, SameHistory DEF ConnectionInv, ConversationInv
  <2>2. Len(sent') # Len(got) + 1
    <3>1. n # n + 1
      OBVIOUS
    <3> QED
      BY <1>2, <1>4, <3>1, Zenon
  <2> QED
    BY <1>3, <2>1, <2>2
<1>5. CASE sent' = Append(sent, req)
  <2>1. Len(sent') = n + 1 /\ sent'[n + 1] = req /\ \A i \in 1 .. n : sent'[i] = sent[i]
    <3>1. /\ Len(Append(sent, req)) = Len(sent) + 1 /\ Append(sent, req)[Len(sent) + 1] = req
          /\ \A i \in 1 .. Len(sent) : Append(sent, req)[i] = sent[i]
      BY <1>1, AppendProperties
    <3> QED
      BY <1>2, <1>5, <3>1
  <2>2. Len(served) \in {n, n + 1}
    BY <1>1, <1>2
  <2>3. ASSUME NEW i \in 1 .. Len(served)
        PROVE  /\ served[i].executed => TakenAsWritten(i)'
               /\ i <= Len(sent') => (served[i].executed <=> Valid(sent'[i]))
    <3>1. CASE i <= n
      <4>1. i \in 1 .. n /\ sent'[i] = sent[i] /\ i <= Len(sent) /\ i <= Len(sent')
        BY <1>2, <2>1, <2>2, <3>1
      <4>2. /\ served[i].executed => TakenAsWritten(i)
            /\ served[i].executed <=> Valid(sent[i])
        BY <4>1 DEF ConnectionInv, ConversationInv, ExecutedAsAsked
      <4> QED
        BY <1>3, <4>1, <4>2 DEF TakenAsWritten
    <3>2. CASE ~(i <= n)
      <4>1. i = n + 1 /\ Len(served) = n + 1
        BY <2>2, <3>2
      <4>2. Answered /\ Latest = served[i]
        BY <1>2, <4>1 DEF Answered, Latest
      <4>3. ~Latest.executed /\ ~Valid(req)
        BY <4>2, WriteSteps DEF ConnectionInv, ConversationInv, AnsweredInv
      <4> QED
        BY <2>1, <4>1, <4>2, <4>3
    <3> QED
      BY <3>1, <3>2
  <2>4. ExecutedAsAsked'
    BY <1>3, <2>3 DEF ExecutedAsAsked
  <2>5. AnswersMatch'
    <3>1. \A i \in 1 .. Len(got) : sent'[i] = sent[i]
      BY <1>2, <2>1
    <3> QED
      BY <1>3, <3>1 DEF ConnectionInv, ConversationInv, AnswersMatch
  <2> QED
    BY <1>2, <1>3, <2>1, <2>4, <2>5
<1> QED
  BY <1>4, <1>5, WriteSteps

LEMMA SecondWrite ==
  ASSUME NEW s \in Seq(Seq(Byte)), Len(s) > 1, Len(s) <= 7
  PROVE  Head(Tail(s)) = s[2] /\ Tail(s) # <<>> /\ Len(Tail(s)) <= 7 /\ 2 \in 1 .. Len(s)
<1>1. Len(s) \in Nat /\ s # <<>>
  OBVIOUS
<1>2. PICK t \in Seq(Seq(Byte)) :
        t = Tail(s) /\ Len(t) = Len(s) - 1 /\ \A i \in 1 .. Len(t) : t[i] = s[i + 1]
  BY <1>1, HeadTailProperties
<1>3. PICK n \in Nat : n = Len(t) /\ n >= 1 /\ n <= 7 /\ Len(s) = n + 1
  <2>1. Len(t) \in Nat /\ Len(t) = Len(s) - 1
    BY <1>2, LenProperties
  <2>2. Len(t) \in Nat /\ Len(t) >= 1 /\ Len(t) <= 7 /\ Len(s) = Len(t) + 1
    BY <1>1, <2>1
  <2> QED
    BY <2>2, Zenon
<1>4. t[1] = s[2] /\ 2 \in 1 .. Len(s)
  BY <1>2, <1>3
<1>5. t # <<>> /\ Head(t) = t[1]
  BY <1>3
<1> QED
  BY <1>2, <1>3, <1>4, <1>5

\* The bytes of a write leave what is missing and join what is in the stream.
LEMMA WriteMoves ==
  ASSUME ConnectionInv, Write, ~Answered, server = "reading"
  PROVE  /\ c2s' \o Missing' = Unread' /\ Len(c2s') <= Len(Unread') /\ Missing' = Cat(out')
         /\ Len(sent') = Len(got) /\ Valid(req) => Missing' # <<>>
<1>1. /\ c2s \in Seq(Byte) /\ out \in Seq(Seq(Byte)) /\ out # <<>> /\ Len(out) <= 7
      /\ c2s \o Missing = Unread /\ Missing = Cat(out)
      /\ Valid(req) => \A i \in 1 .. Len(out) : out[i] # <<>>
  BY WriteSteps DEF ConnectionInv, ShapeInv, ClientInv, StreamTypes,
     ConversationInv, PendingInv, RequestInv
<1>2. /\ Head(out) \in Seq(Byte) /\ Tail(out) \in Seq(Seq(Byte)) /\ Cat(Tail(out)) \in Seq(Byte)
      /\ (c2s \o Head(out)) \o Cat(Tail(out)) = c2s \o Cat(out)
  BY <1>1, CatFirst, CatWrite
<1>3. PICK c \in Seq(Byte) : c = c2s'
  <2>1. c2s \o Head(out) \in Seq(Byte) /\ c2s' = c2s \o Head(out)
    BY <1>1, <1>2, Concat, WriteSteps
  <2> QED
    BY <2>1, Zenon
<1>4. PICK m \in Seq(Byte) : m = Cat(Tail(out))
  BY <1>2, Zenon
<1>5. PICK u : u = Unread
  OBVIOUS
<1>6. u = c \o m /\ Unread' = u
  <2>1. c = c2s \o Head(out)
    BY <1>3, WriteSteps
  <2>2. Unread' = Unread
    BY WriteSteps DEF Unread, Taken
  <2> QED
    BY <1>1, <1>2, <1>4, <1>5, <2>1, <2>2
<1>7. Len(c) <= Len(u) /\ Drop(u, Len(c)) = m
  BY <1>6, AfterFront
<1>8. Missing' = m
  BY <1>3, <1>6, <1>7 DEF Missing
<1>9. ASSUME Len(sent') = Len(got), Valid(req) PROVE m # <<>>
  <2>1. Len(out) > 1
    <3>1. SUFFICES ASSUME sent' = Append(sent, req) PROVE FALSE
      BY WriteSteps
    <3>2. sent \in Seq(Requests) /\ req \in Requests
      BY DEF ConnectionInv, ShapeInv, ClientInv
    <3>3. Len(sent') = Len(sent) + 1 /\ Len(sent) \in Nat
      BY <3>1, <3>2
    <3> QED
      BY <1>9, <3>3, WriteSteps
  <2>2. Head(Tail(out)) = out[2] /\ Tail(out) # <<>> /\ Len(Tail(out)) <= 7 /\ 2 \in 1 .. Len(out)
    BY <1>1, <2>1, SecondWrite
  <2>3. Head(Tail(out)) # <<>>
    BY <1>1, <1>9, <2>2
  <2> QED
    BY <1>2, <1>4, <2>2, <2>3, CatNotEmpty
<1> QED
  BY <1>3, <1>4, <1>6, <1>7, <1>8, <1>9, WriteSteps

LEMMA WriteConversation ==
  ASSUME ConnectionInv, Write
  PROVE  ConversationInv'
<1>1. /\ ExecutedAsAsked' /\ AnswersMatch' /\ Answered' = Answered
      /\ Len(sent') = Len(got) + 1 => sent'[Len(sent')] = req
  BY WriteHistory
<1>2. RequestInv'
  <2>1. Valid(req) => \A i \in 1 .. Len(out') : out'[i] # <<>>
    <3>1. out \in Seq(Seq(Byte)) /\ out # <<>>
      BY WriteSteps DEF ConnectionInv, ShapeInv, ClientInv
    <3>2. \A i \in 1 .. Len(Tail(out)) : i + 1 \in 1 .. Len(out) /\ Tail(out)[i] = out[i + 1]
      BY <3>1
    <3> QED
      BY <3>2, WriteSteps DEF ConnectionInv, ConversationInv, RequestInv
  <2> QED
    BY <1>1, <2>1, WriteSteps DEF ConnectionInv, ConversationInv, RequestInv
<1>3. PendingInv'
  <2>1. CASE Answered
    BY <1>1, <2>1 DEF PendingInv
  <2>2. CASE ~Answered
    <3>1. s2c' = <<>>
      BY <2>2, WriteSteps DEF ConnectionInv, ConversationInv, PendingInv
    <3>2. client' \notin {"prompt", "eof", "failed"}
      BY WriteSteps
    <3>3. server = "reading" /\ todo # <<"op">> => \A f \in DOMAIN frame : frame[f] = FieldOf(req, f)
      BY <2>2, WriteSteps DEF ConnectionInv, ConversationInv, PendingInv
    <3>4. UNCHANGED <<req, server, todo, frame, got>>
      BY WriteSteps
    <3>5. server = "reading" =>
            /\ c2s' \o Missing' = Unread' /\ Len(c2s') <= Len(Unread') /\ Missing' = Cat(out')
            /\ Len(sent') = Len(got) /\ Valid(req) => Missing' # <<>>
      BY <2>2, WriteMoves
    <3> QED
      BY <3>1, <3>2, <3>3, <3>4, <3>5 DEF PendingInv
  <2> QED
    BY <2>1, <2>2
<1>4. AnsweredInv'
  <2>1. CASE ~Answered
    BY <1>1, <2>1 DEF AnsweredInv
  <2>2. CASE Answered
    <3>1. /\ ~Latest.executed /\ server # "reading" /\ req.op # "Close" /\ ~Valid(req)
          /\ s2c = IF Latest.rsp.status = "none" THEN <<>> ELSE send_response(Latest.rsp)
          /\ GoodAnswer(req.op, Latest.rsp) /\ Latest.frame.op = req.op
      BY <2>2, WriteSteps DEF ConnectionInv, ConversationInv, AnsweredInv
    <3>2. Latest' = Latest
      BY WriteSteps DEF Latest
    <3>3. client' \in {"writing", "awaiting"} /\ UNCHANGED <<s2c, req, server>>
      BY <3>1, WriteSteps
    <3> QED
      BY <3>1, <3>2, <3>3 DEF AnsweredInv
  <2> QED
    BY <2>1, <2>2
<1>5. Len(served') \in {Len(got'), Len(got') + 1} /\ (server' # "closed" => ~reset')
  BY WriteSteps DEF ConnectionInv, ConversationInv
<1> QED
  BY <1>1, <1>2, <1>3, <1>4, <1>5 DEF ConversationInv

\* What the client reads is the answer to the request it awaits.
LEMMA ReadsLatest ==
  ASSUME ConnectionInv, client = "awaiting", ResponseIsWhole
  PROVE  Answered /\ read_response = Latest.rsp /\ ResponseLen = Len(s2c) /\ Latest \in Serveds
<1>1. s2c \in Seq(Byte) /\ Len(s2c) >= 3
  BY DEF ResponseIsWhole, ConnectionInv, ShapeInv, StreamTypes
<1>2. s2c # <<>>
  BY <1>1
<1>3. Answered
  BY <1>2 DEF ConnectionInv, ConversationInv, PendingInv
<1>4. PICK l \in Serveds : l = Latest
  <2>1. served \in Seq(Serveds) /\ got \in Seq(Responses)
    BY DEF ConnectionInv, ShapeInv, ClientInv, ServerInv
  <2>2. Len(got) + 1 \in 1 .. Len(served)
    BY <1>3, <2>1 DEF Answered
  <2>3. Latest \in Serveds
    BY <2>1, <2>2 DEF Latest
  <2> QED
    BY <2>3, Zenon
<1>5. l.rsp \in Responses /\ Len(l.rsp.payload) < Base * Base
  BY <1>3, <1>4 DEF Serveds, ConnectionInv, ConversationInv, AnsweredInv,
     GoodAnswer
<1>6. l.rsp.status # "none" /\ s2c = send_response(l.rsp)
  BY <1>2, <1>3, <1>4 DEF ConnectionInv, ConversationInv, AnsweredInv
<1>7. PICK rsp \in Responses : rsp = l.rsp
  BY <1>5
<1>8. rsp.status \in ToSet(Statuses)
  BY <1>6, <1>7 DEF Responses
<1>9. /\ Len(s2c) = 3 + Len(rsp.payload)
      /\ Number(SubSeq(s2c, 2, 3)) = Len(rsp.payload)
      /\ s2c[1] < Len(Statuses) /\ Statuses[s2c[1] + 1] = rsp.status
      /\ SubSeq(s2c, 4, 3 + Len(rsp.payload)) = rsp.payload
      /\ rsp = Response(rsp.status, rsp.payload)
  BY <1>5, <1>6, <1>7, <1>8, ResponseRoundTrip
<1>10. ResponseLen = 3 + Len(rsp.payload)
  BY <1>9 DEF ResponseLen
<1>11. read_response = rsp
  BY <1>9, <1>10 DEF read_response
<1> QED
  BY <1>3, <1>4, <1>7, <1>9, <1>10, <1>11

LEMMA ReadResponseConversation ==
  ASSUME ConnectionInv, ReadResponse
  PROVE  ConversationInv'
<1>1. /\ client = "awaiting" /\ client' = "prompt" /\ got' = Append(got, Latest.rsp)
      /\ UNCHANGED <<current_db, req, out, c2s, reset, server, todo, frame, sent, served>>
      /\ Answered /\ Latest \in Serveds /\ s2c' = Drop(s2c, Len(s2c))
  BY ReadsLatest DEF ReadResponse, serverVars
<1>2. s2c' = <<>>
  <2>1. s2c \in Seq(Byte)
    BY DEF ConnectionInv, ShapeInv, StreamTypes
  <2> QED
    BY <1>1, <2>1, SubSeqEmpty DEF Drop
<1>3. PICK n \in Nat : n = Len(got)
  BY LenProperties DEF ConnectionInv, ShapeInv, ClientInv
<1>4. /\ Len(got') = n + 1 /\ got'[n + 1] = Latest.rsp /\ \A i \in 1 .. n : got'[i] = got[i]
      /\ Latest.rsp \in Responses
  <2>1. got \in Seq(Responses) /\ Latest.rsp \in Responses
    BY <1>1 DEF ConnectionInv, ShapeInv, ClientInv, Serveds
  <2> QED
    BY <1>1, <1>3, <2>1, AppendProperties
<1>5. Len(served) = n + 1 /\ Latest = served[n + 1] /\ ~Answered'
  BY <1>1, <1>3, <1>4 DEF Answered, Latest
<1>6. Len(sent) = n + 1 /\ sent[n + 1] = req
  BY <1>1, <1>3 DEF ConnectionInv, ShapeInv, ClientInv, ConversationInv,
     RequestInv
<1>7. RequestInv'
  BY <1>1, <1>3, <1>4, <1>6 DEF ConnectionInv, ConversationInv, RequestInv
<1>8. PendingInv'
  <2>1. server = "reading" => todo = <<"op">> /\ c2s = <<>>
    BY <1>1 DEF ConnectionInv, ConversationInv, AnsweredInv
  <2> QED
    BY <1>1, <1>2, <2>1 DEF PendingInv
<1>9. AnsweredInv'
  BY <1>5 DEF AnsweredInv
<1>10. ExecutedAsAsked'
  BY <1>1 DEF ConnectionInv, ConversationInv, ExecutedAsAsked, TakenAsWritten
<1>11. AnswersMatch'
  <2> SUFFICES ASSUME NEW i \in 1 .. n + 1
               PROVE  /\ i <= Len(served) /\ got'[i] = served[i].rsp
                      /\ served[i].frame.op = sent[i].op
                      /\ got'[i].status = "Ok" /\ sent[i].op = "Stats" =>
                           StatsFromBytes(got'[i].payload) = StatsPacket
                      /\ got'[i].status = "Ok" /\ sent[i].op = "Info" =>
                           InfoFromBytes(got'[i].payload) = InfoPacket
    BY <1>1, <1>4 DEF AnswersMatch
  <2>1. CASE i <= n
    <3>1. i \in 1 .. Len(got) /\ got'[i] = got[i]
      BY <1>3, <1>4, <2>1
    <3> QED
      BY <3>1 DEF ConnectionInv, ConversationInv, AnswersMatch
  <2>2. CASE ~(i <= n)
    <3>1. i = n + 1
      BY <2>2
    <3>2. GoodAnswer(req.op, Latest.rsp) /\ Latest.frame.op = req.op
      BY <1>1 DEF ConnectionInv, ConversationInv, AnsweredInv
    <3>3. /\ got'[i] = served[i].rsp /\ served[i].frame.op = sent[i].op
          /\ GoodAnswer(sent[i].op, got'[i]) /\ i <= Len(served)
      BY <1>4, <1>5, <1>6, <3>1, <3>2
    <3> QED
      BY <3>3, PacketFacts DEF GoodAnswer
  <2> QED
    BY <2>1, <2>2
<1> QED
  BY <1>1, <1>3, <1>4, <1>5, <1>7, <1>8, <1>9, <1>10, <1>11 DEF ConnectionInv,
     ConversationInv

\* While the server reads a request, that request is under way.
LEMMA UnderWay ==
  ASSUME ConnectionInv, server = "reading", c2s # <<>> \/ todo # <<"op">>
  PROVE  /\ ~Answered /\ s2c = <<>> /\ client \notin {"prompt", "eof"} /\ ~reset
         /\ c2s \in Seq(Byte) /\ req \in Requests /\ Fits(req)
         /\ c2s \o Missing = Unread /\ Len(c2s) <= Len(Unread)
         /\ client # "failed" => Missing = Cat(out)
         /\ Len(sent) = Len(got) /\ Valid(req) => Missing # <<>>
         /\ todo # <<"op">> => \A f \in DOMAIN frame : frame[f] = FieldOf(req, f)
<1>1. ~Answered
  BY DEF ConnectionInv, ConversationInv, AnsweredInv
<1>2. client \notin {"prompt", "eof"}
  BY <1>1 DEF ConnectionInv, ConversationInv, PendingInv
<1> QED
  BY <1>1, <1>2 DEF ConnectionInv, ConversationInv, PendingInv, RequestInv,
     ShapeInv, ClientInv, StreamTypes

\* The stream starts with the bytes of the next field, and the read takes them.
LEMMA TakesNext ==
  ASSUME ConnectionInv, server = "reading", c2s # <<>> \/ todo # <<"op">>,
         NEW t \in 0 .. Len(Writes(req)) - 1, t = Taken,
         NEW e, e = Writes(req)[t + 1], Len(e) <= Len(c2s),
         c2s' = Drop(c2s, Len(e)), req' = req
  PROVE  /\ SubSeq(c2s, 1, Len(e)) = e /\ e \in Seq(Byte)
         /\ Taken' = t + 1 => /\ Missing' = Missing
                              /\ c2s' \o Missing' = Unread' /\ Len(c2s') <= Len(Unread')
<1>1. c2s \in Seq(Byte) /\ req \in Requests /\ c2s \o Missing = Unread /\ Len(c2s) <= Len(Unread)
  BY UnderWay
<1>2. PICK n \in Nat : n = Len(Writes(req))
  BY <1>1, WritesLen, LenProperties
<1>3. t + 1 \in 1 .. Len(Writes(req)) /\ t + 1 + 1 = t + 2
  BY <1>2
<1>4. PICK v \in Seq(Byte) : /\ v = Cat(SubSeq(Writes(req), t + 2, Len(Writes(req))))
                             /\ Unread = e \o v /\ e \in Seq(Byte)
  <2>1. PICK k \in 1 .. Len(Writes(req)) : k = t + 1 /\ k + 1 = t + 2
    BY <1>3
  <2>2. /\ Cat(SubSeq(Writes(req), k, Len(Writes(req))))
             = Writes(req)[k] \o Cat(SubSeq(Writes(req), k + 1, Len(Writes(req))))
        /\ Writes(req)[k] \in Seq(Byte)
        /\ Cat(SubSeq(Writes(req), k + 1, Len(Writes(req)))) \in Seq(Byte)
    BY <1>1, NextWrite
  <2>3. Unread = Cat(SubSeq(Writes(req), k, Len(Writes(req)))) /\ e = Writes(req)[k]
    BY <2>1 DEF Unread
  <2> QED
    BY <2>1, <2>2, <2>3, Zenon
<1>5. PICK m \in Seq(Byte) : m = Missing
  <2>1. Unread \in Seq(Byte)
    BY <1>4, Concat
  <2>2. Len(c2s) \in 0 .. Len(Unread)
    BY <1>1, <2>1, LenProperties
  <2> QED
    BY <2>1, <2>2, DropFacts DEF Missing
<1>6. PICK d : d = c2s'
  OBVIOUS
<1>7. c2s \o m = e \o v /\ d = Drop(c2s, Len(e))
  BY <1>1, <1>4, <1>5, <1>6
<1>8. /\ SubSeq(c2s, 1, Len(e)) = e
      /\ d \o m = v /\ Len(d) <= Len(v) /\ Drop(v, Len(d)) = m
  <2>1. PICK c \in Seq(Byte) : c = c2s
    BY <1>1, Zenon
  <2>2. PICK x \in Seq(Byte) : x = e
    BY <1>4, Zenon
  <2>3. c \o m = x \o v /\ Len(x) <= Len(c) /\ d = Drop(c, Len(x))
    BY <1>7, <2>1, <2>2, Zenon
  <2>4. /\ SubSeq(c, 1, Len(x)) = x
        /\ d \o m = v /\ Len(d) <= Len(v) /\ Drop(v, Len(d)) = m
    <3>1. SubSeq(c, 1, Len(x)) = x /\ Drop(c, Len(x)) \o m = v
      BY <2>3, CutFront
    <3>2. Len(x) \in 0 .. Len(c)
      BY <2>3, LenProperties
    <3>3. d \in Seq(Byte)
      BY <2>3, <3>2, DropFacts
    <3>4. v = d \o m
      BY <2>3, <3>1
    <3> QED
      BY <3>1, <3>3, <3>4, AfterFront
  <2> QED
    BY <2>1, <2>2, <2>4, Zenon
<1>9. ASSUME Taken' = t + 1
      PROVE  Missing' = m /\ c2s' \o Missing' = Unread' /\ Len(c2s') <= Len(Unread')
  <2>1. (t + 1) + 1 = t + 2
    OBVIOUS
  <2>2. Unread' = v
    BY <1>4, <1>9, <2>1 DEF Unread
  <2>3. Missing' = m
    BY <1>6, <1>8, <2>2 DEF Missing
  <2> QED
    BY <1>6, <1>8, <2>2, <2>3
<1> QED
  BY <1>4, <1>5, <1>8, <1>9

\* A step that keeps the request under way.
LEMMA StaysUnderWay ==
  ASSUME ConnectionInv, ConversationInv, ~Answered,
         UNCHANGED <<client, current_db, req, out, reset, sent, got, s2c, served>>,
         server' # "closed", server # "closed",
         s2c = <<>>, client \notin {"prompt", "eof"},
         server' = "reading" =>
           /\ c2s' \o Missing' = Unread' /\ Len(c2s') <= Len(Unread')
           /\ client # "failed" => Missing' = Cat(out)
           /\ Len(sent) = Len(got) /\ Valid(req) => Missing' # <<>>
           /\ todo' # <<"op">> => \A f \in DOMAIN frame' : frame'[f] = FieldOf(req, f)
  PROVE  ConversationInv'
<1>1. ExecutedAsAsked' /\ AnswersMatch' /\ Answered' = Answered
  BY SameHistory DEF ConversationInv
<1>2. RequestInv'
  BY DEF ConversationInv, RequestInv
<1>3. PendingInv'
  BY DEF PendingInv
<1>4. AnsweredInv'
  BY <1>1 DEF AnsweredInv
<1> QED
  BY <1>1, <1>2, <1>3, <1>4 DEF ConversationInv

\* The server answers a request under way, or gives it up.
LEMMA AnswerConversation ==
  ASSUME ConnectionInv, ~Answered, s2c = <<>>, ~reset, server = "reading",
         UNCHANGED <<client, current_db, req, out, reset, sent, got>>,
         frame' \in Frames, frame'.op = req.op, req.op # "Close",
         client \in {"writing", "awaiting", "failed"},
         NEW o, o.rsp \in Responses, GoodAnswer(req.op, o.rsp),
         o.goes => o.rsp.status # "none",
         NEW executed \in BOOLEAN, Answer(o, executed),
         executed =>
           /\ client # "writing" /\ c2s' = <<>> /\ Len(sent) = Len(got) + 1 /\ Valid(req)
           /\ \A f \in DOMAIN frame' \ {"nlen", "klen", "vlen"} : frame'[f] = req[f],
         ~executed => ~Valid(req) /\ ~o.goes
  PROVE  ConversationInv'
<1>1. /\ served \in Seq(Serveds) /\ s2c \in Seq(Byte) /\ sent \in Seq(Requests)
      /\ got \in Seq(Responses) /\ Len(served) \in {Len(got), Len(got) + 1}
      /\ Len(sent) \in {Len(got), Len(got) + 1}
  BY DEF ConnectionInv, ShapeInv, ClientInv, StreamTypes, ServerInv,
     ConversationInv
<1>2. PICK n \in Nat : n = Len(got) /\ n = Len(served)
  BY <1>1, LenProperties DEF Answered
<1>3. PICK l : l = [executed |-> executed, frame |-> frame', rsp |-> o.rsp]
  OBVIOUS
<1>4. l \in Serveds /\ l.executed = executed /\ l.frame = frame' /\ l.rsp = o.rsp
  BY <1>3 DEF Serveds
<1>5. /\ Len(served') = n + 1 /\ served'[n + 1] = l
      /\ \A i \in 1 .. n : served'[i] = served[i]
  <2>1. served' = Append(served, l)
    BY <1>3 DEF Answer
  <2>2. /\ Len(Append(served, l)) = Len(served) + 1 /\ Append(served, l)[Len(served) + 1] = l
        /\ \A i \in 1 .. Len(served) : Append(served, l)[i] = served[i]
    BY <1>1, <1>4, AppendProperties
  <2> QED
    BY <1>2, <2>1, <2>2
<1>6. Answered' /\ Latest' = l
  BY <1>2, <1>5 DEF Answered, Latest
<1>7. /\ todo' = <<"op">> /\ server' \in {"reading", "closing"}
      /\ server' = "reading" => executed /\ o.rsp.status # "none"
  BY DEF Answer, Exits
<1>8. s2c' = IF o.rsp.status = "none" THEN <<>> ELSE send_response(o.rsp)
  <2>1. ASSUME o.rsp.status # "none" PROVE <<>> \o send_response(o.rsp) = send_response(o.rsp)
    <3>1. send_response(o.rsp) \in Seq(Byte)
      BY <2>1, SendType
    <3>2. \A s \in Seq(Byte) : <<>> \o s = s
      OBVIOUS
    <3> QED
      BY <3>1, <3>2
  <2> QED
    BY <2>1 DEF Answer
<1>9. RequestInv' /\ PendingInv'
  BY <1>6 DEF ConnectionInv, ConversationInv, RequestInv, PendingInv
<1>10. AnsweredInv'
  BY <1>4, <1>6, <1>7, <1>8 DEF AnsweredInv
<1>11. Len(sent) = n + 1 => sent[n + 1] = req
  BY <1>2 DEF ConnectionInv, ConversationInv, RequestInv
<1>12. ExecutedAsAsked'
  <2> SUFFICES ASSUME NEW i \in 1 .. n + 1
               PROVE  /\ served'[i].executed => TakenAsWritten(i)'
                      /\ i <= Len(sent) => (served'[i].executed <=> Valid(sent[i]))
    BY <1>5 DEF ExecutedAsAsked
  <2>1. CASE i <= n
    <3>1. i \in 1 .. Len(served) /\ served'[i] = served[i]
      BY <1>2, <1>5, <2>1
    <3> QED
      BY <3>1 DEF ConnectionInv, ConversationInv, ExecutedAsAsked,
         TakenAsWritten
  <2>2. CASE ~(i <= n)
    <3>1. i = n + 1 /\ served'[i] = l
      BY <1>5, <2>2
    <3>2. i <= Len(sent) => Len(sent) = n + 1 /\ sent[i] = req
      BY <1>1, <1>2, <1>11, <3>1
    <3>3. l.executed => Len(sent) = n + 1 /\ sent[i] = req /\ i <= Len(sent)
      BY <1>2, <1>4, <1>11, <3>1
    <3>4. l.executed <=> Valid(req)
      BY <1>4
    <3>5. l.executed => TakenAsWritten(i)'
      BY <1>4, <3>1, <3>3 DEF TakenAsWritten
    <3> QED
      BY <3>1, <3>2, <3>4, <3>5
  <2> QED
    BY <2>1, <2>2
<1>13. AnswersMatch'
  <2>1. \A i \in 1 .. Len(got) : served'[i] = served[i] /\ i <= Len(served')
    BY <1>2, <1>5
  <2> QED
    BY <2>1 DEF ConnectionInv, ConversationInv, AnswersMatch
<1> QED
  BY <1>2, <1>5, <1>7, <1>9, <1>10, <1>12, <1>13 DEF ConversationInv

\* The operation read is the one that was written.
LEMMA ReadOpConversation ==
  ASSUME ConnectionInv, ReadField, todo = <<"op">>
  PROVE  ConversationInv'
<1>1. /\ server = "reading" /\ ShapeInv
      /\ UNCHANGED <<client, current_db, req, out, reset, sent, got>>
  BY DEF ConnectionInv, ReadField, clientVars
<1>2. /\ Len(c2s) >= 1 /\ c2s' = Drop(c2s, 1)
      /\ frame' = [op |-> from_u8(c2s[1])]
      /\ \/ from_u8(c2s[1]) = "None"
         \/ /\ todo' = Fields(from_u8(c2s[1])) /\ UNCHANGED <<s2c, served>>
            /\ server' = IF from_u8(c2s[1]) = "Close" THEN "closing" ELSE "reading"
  BY <1>1, ReadOp
<1>3. c2s # <<>>
  <2>1. Len(<<>>) = 0
    OBVIOUS
  <2> QED
    BY <1>2, <2>1
<1>4. /\ ~Answered /\ s2c = <<>> /\ client \notin {"prompt", "eof"} /\ ~reset
      /\ c2s \in Seq(Byte) /\ req \in Requests
      /\ client # "failed" => Missing = Cat(out)
      /\ Len(sent) = Len(got) /\ Valid(req) => Missing # <<>>
  BY <1>1, <1>3, UnderWay
<1>5. PICK op \in OpNames : op = req.op
  BY <1>4, RequestFacts
<1>6. to_u8(op) \in Nat /\ to_u8(op) < Base /\ from_u8(to_u8(op)) = op
  BY OpCodes, BaseFacts
<1>7. PICK e : e = Writes(req)[1]
  OBVIOUS
<1>8. Len(e) = 1 /\ e[1] = to_u8(op)
  BY <1>4, <1>5, <1>6, <1>7, WritesFacts, U8
<1>9. 0 = Taken /\ 0 \in 0 .. Len(Writes(req)) - 1 /\ 0 + 1 = 1
  <2>1. Len(Writes(req)) = 1 + Len(Fields(op)) /\ Len(Fields(op)) \in Nat
    BY <1>4, <1>5, WritesFacts, FieldsFacts, LenProperties
  <2> QED
    BY <2>1 DEF Taken
<1>10. /\ SubSeq(c2s, 1, Len(e)) = e
       /\ Taken' = 1 => /\ Missing' = Missing
                        /\ c2s' \o Missing' = Unread' /\ Len(c2s') <= Len(Unread')
  BY <1>1, <1>2, <1>3, <1>7, <1>8, <1>9, TakesNext
<1>11. from_u8(c2s[1]) = op
  <2>1. SubSeq(c2s, 1, 1)[1] = c2s[1]
    BY <1>2, <1>4
  <2> QED
    BY <1>6, <1>8, <1>10, <2>1
<1>12. /\ frame' = [op |-> op] /\ todo' = Fields(op) /\ UNCHANGED <<s2c, served>>
       /\ server' = IF op = "Close" THEN "closing" ELSE "reading"
  <2>1. op # "None"
    BY OpNamesAre
  <2> QED
    BY <1>2, <1>11, <2>1
<1>13. DOMAIN frame' = {"op"} /\ frame'.op = op
  BY <1>12, NewFrame
<1>14. Taken' = 1
  <2>1. Fields(op) \in Seq(FieldNames \ {"op"}) /\ Len(Fields(op)) \in Nat
    BY FieldsFacts, LenProperties
  <2>2. Fields(op) # <<"op">>
    <3>1. SUFFICES ASSUME Fields(op) = <<"op">> PROVE FALSE
      OBVIOUS
    <3>2. Len(<<"op">>) = 1 /\ <<"op">>[1] = "op"
      OBVIOUS
    <3>3. \A i \in 1 .. Len(Fields(op)) : Fields(op)[i] # "op"
      BY <2>1
    <3> QED
      BY <3>1, <3>2, <3>3
  <2> QED
    BY <1>12, <1>13, <2>1, <2>2 DEF Taken
<1>15. \A f \in DOMAIN frame' : frame'[f] = FieldOf(req, f)
  <2>1. FieldOf(req, "op") = req.op
    BY DEF FieldOf
  <2> QED
    BY <1>5, <1>13, <2>1
<1>16. /\ ConversationInv /\ server # "closed" /\ server' # "closed"
       /\ Missing' = Missing
       /\ c2s' \o Missing' = Unread' /\ Len(c2s') <= Len(Unread')
  BY <1>1, <1>10, <1>12, <1>14 DEF ConnectionInv
<1> QED
  BY <1>1, <1>4, <1>12, <1>15, <1>16, StaysUnderWay

LEMMA FrameGrows ==
  ASSUME ShapeInv, ReadField, NEW f, f = Head(todo)
  PROVE  todo # <<"op">> =>
           /\ Width(f) \in 0 .. Len(c2s) /\ c2s' = Drop(c2s, Width(f))
           /\ frame' \in Frames /\ DOMAIN frame' = DOMAIN frame \cup {f}
           /\ frame'[f] = Decoded(f, SubSeq(c2s, 1, Width(f)))
           /\ \A g \in DOMAIN frame : g # f => frame'[g] = frame[g]
<1>0. HAVE todo # <<"op">>
<1>1. /\ frame \in Frames /\ FrameInv /\ server = "reading" /\ todo # <<>>
  BY DEF ShapeInv, ServerInv, FrameInv, ReadField
<1>2. "op" \in DOMAIN frame
  <2>1. PICK D : D = DOMAIN frame
    OBVIOUS
  <2> QED
    BY <1>0, <1>1, <2>1, AtField
<1>3. PICK h \in FieldNames \ {"op"}, v \in Nat \cup Seq(Byte), w \in 0 .. Len(c2s) :
        /\ h = f /\ w = Width(f) /\ c2s' = Drop(c2s, w) /\ v = Decoded(f, SubSeq(c2s, 1, w))
        /\ frame' = Extended(frame, h, v)
  BY <1>0, ReadRest
<1>4. /\ frame' \in Frames /\ DOMAIN frame' = DOMAIN frame \cup {h}
      /\ frame'[h] = v /\ frame'.op = frame.op
      /\ \A g \in DOMAIN frame : g # h => frame'[g] = frame[g]
  <2>1. OneMore(Extended(frame, h, v), frame, h, v)
    BY <1>1, <1>2, ExtendFrame
  <2>2. OneMore(frame', frame, h, v)
    BY <1>3, <2>1
  <2> QED
    BY <2>2 DEF OneMore
<1> QED
  BY <1>3, <1>4

\* The next field the server reads, and the bytes that the client writes for it.
LEMMA NextField ==
  ASSUME ConnectionInv, server = "reading", todo # <<"op">>, todo # <<>>,
         NEW f, f = Head(todo)
  PROVE  /\ frame.op = req.op /\ "op" \in DOMAIN frame /\ f \in FieldNames \ {"op"}
         /\ Taken \in 1 .. Len(Fields(req.op)) /\ Taken \in 0 .. Len(Writes(req)) - 1
         /\ Writes(req)[Taken + 1] = Encoding(req, f) /\ Width(f) = Len(Encoding(req, f))
<1>1. FrameInv
  BY DEF ConnectionInv, ShapeInv, ServerInv
<1>2. req \in Requests /\ \A g \in DOMAIN frame : frame[g] = FieldOf(req, g)
  BY UnderWay
<1>3. PICK D : D = DOMAIN frame
  OBVIOUS
<1>4. /\ f \in FieldNames \ {"op"} /\ "op" \in D
      /\ (f = "name" => "nlen" \in D) /\ (f = "key" => "klen" \in D) /\ (f = "val" => "vlen" \in D)
  BY <1>1, <1>3, AtField
<1>5. frame.op = req.op
  BY <1>2, <1>3, <1>4 DEF FieldOf
<1>6. PICK op \in OpNames : op = req.op
  BY <1>2, RequestFacts
<1>7. PICK t \in 1 .. Len(Fields(op)) : t = Taken /\ f = Fields(op)[t]
  BY <1>1, <1>5, <1>6, Position
<1>8. PICK e : e = Writes(req)[t + 1]
  OBVIOUS
<1>9. e = Encoding(req, f)
  BY <1>2, <1>6, <1>7, <1>8, WritesFacts
<1>10. t \in 0 .. Len(Writes(req)) - 1
  <2>1. Len(Writes(req)) = 1 + Len(Fields(op)) /\ Len(Fields(op)) \in Nat
    BY <1>2, <1>6, WritesFacts, FieldsFacts, LenProperties
  <2> QED
    BY <2>1
<1>11. Width(f) = Len(e)
  <2>1. /\ "nlen" \in D => frame.nlen = FieldOf(req, "nlen")
        /\ "klen" \in D => frame.klen = FieldOf(req, "klen")
        /\ "vlen" \in D => frame.vlen = FieldOf(req, "vlen")
    BY <1>2, <1>3
  <2>2. /\ f = "nlen" => Len(e) = 1
        /\ f \in {"klen", "vlen"} => Len(e) = 2
        /\ f = "name" => Len(e) = frame.nlen
        /\ f = "key" => Len(e) = frame.klen
        /\ f = "val" => Len(e) = frame.vlen
    BY <1>2, <1>4, <1>9, <2>1, EncodingFacts
  <2> QED
    BY <1>4, <2>2 DEF Width, FieldNames
<1> QED
  BY <1>3, <1>4, <1>5, <1>6, <1>7, <1>8, <1>9, <1>10, <1>11

\* The name, the keys and the lengths read are those that were written.
LEMMA ReadsField ==
  ASSUME ConnectionInv, ReadField, todo # <<"op">>, NEW f, f = Head(todo)
  PROVE  /\ frame.op = req.op /\ "op" \in DOMAIN frame
         /\ Taken \in 1 .. Len(Fields(req.op))
         /\ DOMAIN frame' = DOMAIN frame \cup {f} /\ frame' \in Frames
         /\ \A g \in DOMAIN frame' : frame'[g] = FieldOf(req, g)
         /\ Taken' = Taken + 1 => /\ Missing' = Missing
                                  /\ c2s' \o Missing' = Unread' /\ Len(c2s') <= Len(Unread')
<1>1. server = "reading" /\ ShapeInv /\ todo # <<>> /\ req' = req
  BY DEF ConnectionInv, ReadField, clientVars
<1>2. req \in Requests /\ Fits(req) /\ \A g \in DOMAIN frame : frame[g] = FieldOf(req, g)
  BY <1>1, UnderWay
<1>3. PICK e : e = Encoding(req, f)
  OBVIOUS
<1>4. /\ frame.op = req.op /\ "op" \in DOMAIN frame /\ f \in FieldNames \ {"op"}
      /\ Taken \in 1 .. Len(Fields(req.op))
      /\ Taken \in 0 .. Len(Writes(req)) - 1 /\ e = Writes(req)[Taken + 1] /\ Width(f) = Len(e)
  BY <1>1, <1>3, NextField
<1>5. PICK t \in 0 .. Len(Writes(req)) - 1 : t = Taken
  BY <1>4
<1>6. /\ Width(f) \in 0 .. Len(c2s) /\ c2s' = Drop(c2s, Width(f))
      /\ frame' \in Frames /\ DOMAIN frame' = DOMAIN frame \cup {f}
      /\ frame'[f] = Decoded(f, SubSeq(c2s, 1, Width(f)))
      /\ \A g \in DOMAIN frame : g # f => frame'[g] = frame[g]
  BY <1>1, FrameGrows
<1>7. Len(e) <= Len(c2s) /\ c2s' = Drop(c2s, Len(e)) /\ e = Writes(req)[t + 1]
  BY <1>4, <1>5, <1>6
<1>8. /\ SubSeq(c2s, 1, Len(e)) = e
      /\ Taken' = t + 1 => /\ Missing' = Missing
                           /\ c2s' \o Missing' = Unread' /\ Len(c2s') <= Len(Unread')
  BY <1>1, <1>5, <1>7, TakesNext
<1>9. Decoded(f, e) = FieldOf(req, f)
  BY <1>2, <1>3, <1>4, DecodingFacts DEF Decoded
<1>10. frame'[f] = FieldOf(req, f)
  BY <1>4, <1>6, <1>8, <1>9
<1>11. \A g \in DOMAIN frame' : frame'[g] = FieldOf(req, g)
  BY <1>2, <1>6, <1>10
<1> QED
  BY <1>4, <1>5, <1>6, <1>8, <1>11

LEMMA ReadRestConversation ==
  ASSUME ConnectionInv, ReadField, todo # <<"op">>
  PROVE  ConversationInv'
<1>1. /\ server = "reading" /\ ShapeInv /\ FrameInv /\ todo # <<>>
      /\ UNCHANGED <<client, current_db, req, out, reset, sent, got>>
  BY DEF ConnectionInv, ShapeInv, ServerInv, ReadField, clientVars
<1>2. /\ ~Answered /\ s2c = <<>> /\ client \notin {"prompt", "eof"} /\ ~reset
      /\ req \in Requests
      /\ client # "failed" => Missing = Cat(out)
      /\ Len(sent) = Len(got) /\ Valid(req) => Missing # <<>>
  BY <1>1, UnderWay
<1>3. PICK f : f = Head(todo)
  OBVIOUS
<1>4. /\ frame.op = req.op /\ "op" \in DOMAIN frame /\ Taken \in 1 .. Len(Fields(req.op))
      /\ DOMAIN frame' = DOMAIN frame \cup {f} /\ frame' \in Frames
      /\ \A g \in DOMAIN frame' : frame'[g] = FieldOf(req, g)
      /\ Taken' = Taken + 1 => /\ Missing' = Missing
                               /\ c2s' \o Missing' = Unread' /\ Len(c2s') <= Len(Unread')
  BY <1>3, ReadsField
<1>5. frame'.op = req.op
  BY <1>4 DEF FieldOf
<1>6. req.op \in OpNames \ {"Close"}
  BY <1>1, <1>4, Position
<1>7. \/ /\ f = "name" /\ Verdict(frame') # "valid"
         /\ Answer(Ends(Message(Verdict(frame'))), FALSE)
      \/ todo' = Tail(todo) /\ UNCHANGED <<server, s2c, served>>
  BY <1>1, <1>3, ReadRest
<1>8. CASE /\ f = "name" /\ Verdict(frame') # "valid"
           /\ Answer(Ends(Message(Verdict(frame'))), FALSE)
  <2>1. PICK st \in {"InvalidRequest", "PayloadTooLarge"} : st = Verdict(frame')
    BY <1>8, VerdictStatus
  <2>2. /\ Message(st) \in Responses /\ Message(st).status = st
        /\ Len(Message(st).payload) < Base * Base
    BY MessageFacts, StatusesAre
  <2>3. PICK o : o = Ends(Message(st))
    OBVIOUS
  <2>4. o.rsp \in Responses /\ GoodAnswer(req.op, o.rsp) /\ ~o.goes /\ Answer(o, FALSE)
    BY <1>8, <2>1, <2>2, <2>3 DEF GoodAnswer, Ends
  <2>5. ~Valid(req)
    <3>1. PICK D : D = DOMAIN frame
      OBVIOUS
    <3>2. /\ req.op \in {"Create", "Info", "Drop", "Get", "Set", "Delete"}
          /\ req.op \in {"Get", "Set", "Delete"} => "klen" \in D
          /\ req.op = "Set" => "vlen" \in D
      BY <1>1, <1>3, <1>4, <1>8, <3>1, AtField
    <3>3. /\ frame'.name = req.name
          /\ req.op \in {"Get", "Set", "Delete"} => frame'.klen = Len(req.key)
          /\ req.op = "Set" => frame'.vlen = Len(req.val)
      BY <1>4, <1>8, <3>1, <3>2 DEF FieldOf
    <3>4. PICK fr : fr = frame'
      OBVIOUS
    <3>5. Verdict(fr) = "valid" <=> Valid(req)
      BY <1>2, <1>5, <3>2, <3>3, <3>4, VerdictIsValid
    <3> QED
      BY <1>8, <3>4, <3>5
  <2>6. client \in {"writing", "awaiting", "failed"}
    BY <1>2, <1>6 DEF ConnectionInv, ShapeInv, ClientInv, ConversationInv,
       RequestInv
  <2> QED
    BY <1>1, <1>2, <1>4, <1>5, <1>6, <2>4, <2>5, <2>6, AnswerConversation
<1>9. CASE todo' = Tail(todo) /\ UNCHANGED <<server, s2c, served>>
  <2>1. Taken' = Taken + 1
    <3>1. PICK n \in Nat : n = Len(Fields(req.op))
      BY FieldsFacts, LenProperties, <1>6
    <3>2. PICK t \in Nat : t = Taken
      BY <1>4
    <3>3. todo' # <<"op">> /\ Len(todo') = n - t
      BY <1>1, <1>4, <1>9, <3>1, <3>2, Position
    <3>4. Taken' = 1 + n - (n - t)
      BY <1>5, <3>1, <3>3 DEF Taken
    <3> QED
      BY <3>2, <3>4
  <2>2. /\ ConversationInv /\ server # "closed" /\ server' # "closed" /\ Missing' = Missing
        /\ c2s' \o Missing' = Unread' /\ Len(c2s') <= Len(Unread')
    BY <1>1, <1>4, <1>9, <2>1 DEF ConnectionInv
  <2> QED
    BY <1>1, <1>2, <1>4, <1>9, <2>2, StaysUnderWay
<1> QED
  BY <1>7, <1>8, <1>9

\* When all fields are read, so are the name and the lengths.
LEMMA AllFields ==
  ASSUME NEW op \in OpNames \ {"Close"}, op \notin {"Stats", "Ping"},
         NEW D, D = Before(op, 1 + Len(Fields(op)))
  PROVE  /\ op \in {"Create", "Info", "Drop", "Get", "Set", "Delete"} /\ "name" \in D
         /\ op \in {"Get", "Set", "Delete"} => "klen" \in D
         /\ op = "Set" => "vlen" \in D
<1>1. PICK n \in Nat : n = Len(Fields(op))
  BY FieldsFacts, LenProperties
<1>2. (1 + n) - 1 = n
  OBVIOUS
<1>3. \A i \in 1 .. n : Fields(op)[i] \in D
  BY <1>1, <1>2 DEF Before
<1>4. CASE op \in {"Create", "Info", "Drop"}
  <2>1. Fields(op) = <<"nlen", "name">>
    BY <1>4, FieldsFacts
  <2>2. n = 2 /\ Fields(op)[2] = "name"
    BY <1>1, <2>1
  <2> QED
    BY <1>3, <1>4, <2>2
<1>5. CASE op \in {"Get", "Delete"}
  <2>1. Fields(op) = <<"nlen", "klen", "name", "key">>
    BY <1>5, FieldsFacts
  <2>2. n = 4 /\ Fields(op)[2] = "klen" /\ Fields(op)[3] = "name"
    BY <1>1, <2>1
  <2> QED
    BY <1>3, <1>5, <2>2
<1>6. CASE op = "Set"
  <2>1. Fields(op) = <<"nlen", "klen", "vlen", "name", "key", "val">>
    BY <1>6, FieldsFacts
  <2>2. n = 6 /\ Fields(op)[2] = "klen" /\ Fields(op)[3] = "vlen" /\ Fields(op)[4] = "name"
    BY <1>1, <2>1
  <2> QED
    BY <1>3, <1>6, <2>2
<1> QED
  BY <1>4, <1>5, <1>6, OpNamesAre

\* A request is executed once all of it has arrived, and then the limits have
\* admitted it.
LEMMA ExecuteConversation ==
  ASSUME ConnectionInv, Execute
  PROVE  ConversationInv'
<1>1. /\ server = "reading" /\ FrameInv /\ todo = <<>> /\ todo # <<"op">>
      /\ frame \in Frames /\ frame' = frame
      /\ UNCHANGED <<client, current_db, req, out, c2s, reset, sent, got>>
  <2>1. <<>> # <<"op">>
    OBVIOUS
  <2> QED
    BY <2>1 DEF ConnectionInv, ShapeInv, ServerInv, FrameInv, Execute,
       Executable, clientVars
<1>2. /\ ~Answered /\ s2c = <<>> /\ client \notin {"prompt", "eof"} /\ ~reset
      /\ c2s \in Seq(Byte) /\ req \in Requests
      /\ c2s \o Missing = Unread /\ Len(c2s) <= Len(Unread)
      /\ Len(sent) = Len(got) /\ Valid(req) => Missing # <<>>
      /\ \A f \in DOMAIN frame : frame[f] = FieldOf(req, f)
  BY <1>1, UnderWay
<1>3. PICK op \in OpNames \ {"Close"} : op = frame.op
  BY <1>1 DEF FrameInv
<1>4. PICK n \in Nat : n = Len(Fields(op))
  BY FieldsFacts, LenProperties
<1>5. Taken = 1 + n
  <2>1. Len(todo) = 0
    BY <1>1
  <2> QED
    BY <1>1, <1>3, <1>4, <2>1 DEF Taken
<1>6. DOMAIN frame = Before(op, 1 + n)
  BY <1>1, <1>3, <1>5 DEF FrameInv
<1>7. op = req.op
  <2>1. "op" \in DOMAIN frame
    BY <1>6 DEF Before
  <2> QED
    BY <1>2, <1>3, <2>1 DEF FieldOf
<1>8. c2s = <<>> /\ Missing = <<>>
  <2>1. Len(Writes(req)) = 1 + n
    BY <1>2, <1>4, <1>7, WritesFacts
  <2>2. Unread = <<>>
    BY <1>2, <1>5, <2>1, NothingLeft DEF Unread
  <2>3. Len(c2s) = 0
    BY <1>2, <2>2
  <2>4. c2s = <<>>
    BY <1>2, <2>3
  <2>5. Missing = <<>>
    BY <2>2, <2>3, SubSeqEmpty DEF Missing, Drop
  <2> QED
    BY <2>4, <2>5
<1>9. Valid(req)
  <2>1. CASE op \in {"Stats", "Ping"}
    BY <1>7, <2>1 DEF Valid
  <2>2. CASE op \notin {"Stats", "Ping"}
    <3>1. /\ op \in {"Create", "Info", "Drop", "Get", "Set", "Delete"} /\ "name" \in DOMAIN frame
          /\ op \in {"Get", "Set", "Delete"} => "klen" \in DOMAIN frame
          /\ op = "Set" => "vlen" \in DOMAIN frame
      BY <1>4, <1>6, <2>2, AllFields
    <3>2. frame.name = req.name
      BY <1>2, <3>1 DEF FieldOf
    <3>3. /\ op \in {"Get", "Set", "Delete"} => frame.klen = Len(req.key)
          /\ op = "Set" => frame.vlen = Len(req.val)
      BY <1>2, <3>1 DEF FieldOf
    <3>4. Verdict(frame) = "valid"
      BY <1>1, <3>1 DEF FrameInv
    <3> QED
      BY <1>2, <1>3, <1>7, <3>1, <3>2, <3>3, <3>4, VerdictIsValid
  <2> QED
    BY <2>1, <2>2
<1>10. Len(sent) = Len(got) + 1
  BY <1>2, <1>8, <1>9 DEF ConnectionInv, ShapeInv, ClientInv
<1>11. client \in {"awaiting", "failed"}
  <2>1. got \in Seq(Responses) /\ Len(sent) # Len(got)
    BY <1>10 DEF ConnectionInv, ShapeInv, ClientInv
  <2> QED
    BY <1>2, <1>3, <1>7, <2>1 DEF ConnectionInv, ShapeInv, ClientInv,
       ConversationInv, RequestInv
<1>12. PICK o \in Outcomes(frame) : Answer(o, TRUE)
  BY DEF Execute
<1>13. /\ o.rsp \in Responses /\ GoodAnswer(req.op, o.rsp)
       /\ o.goes => o.rsp.status # "none"
  BY <1>3, <1>7, OutcomeFacts
<1>14. \A f \in DOMAIN frame' \ {"nlen", "klen", "vlen"} : frame'[f] = req[f]
  BY <1>1, <1>2 DEF FieldOf
<1>15. /\ client # "writing" /\ client \in {"writing", "awaiting", "failed"} /\ c2s' = <<>>
       /\ frame' \in Frames /\ frame'.op = req.op /\ req.op # "Close"
  BY <1>1, <1>3, <1>7, <1>8, <1>11
<1> QED
  BY <1>1, <1>2, <1>9, <1>10, <1>12, <1>13, <1>14, <1>15, AnswerConversation

LEMMA CloseConversation ==
  ASSUME ConnectionInv, ReadErr \/ CloseSocket
  PROVE  ConversationInv'
<1>1. /\ server' # "reading"
      /\ \/ server = "reading" /\ c2s' = c2s /\ reset' = reset
         \/ server' = "closed" /\ c2s' = <<>> /\ reset' = (c2s # <<>>)
      /\ UNCHANGED <<client, current_db, req, out, s2c, sent, served, got>>
  BY DEF ReadErr, CloseSocket, clientVars
<1>2. ExecutedAsAsked' /\ AnswersMatch' /\ Answered' = Answered
  BY <1>1, SameHistory DEF ConnectionInv, ConversationInv
<1>3. RequestInv'
  BY <1>1 DEF ConnectionInv, ConversationInv, RequestInv
<1>4. PendingInv'
  BY <1>1, <1>2 DEF ConnectionInv, ConversationInv, PendingInv
<1>5. AnsweredInv'
  <2>1. Latest' = Latest
    BY <1>1 DEF Latest
  <2> QED
    BY <1>1, <1>2, <2>1 DEF ConnectionInv, ConversationInv, AnsweredInv
<1> QED
  BY <1>1, <1>2, <1>3, <1>4, <1>5 DEF ConnectionInv, ConversationInv

-----------------------------------------------------------------------------
(* Theorems about the conversation. *)

\* Every request so far, the one being written included, fits its fields.
FitSoFar == Fits(req) /\ \A i \in 1 .. Len(sent) : Fits(sent[i])

\* The request last asked for is the last of those written.
AskedInv ==
  client \in {"awaiting", "prompt", "eof", "quit"} => sent # <<>> /\ sent[Len(sent)] = req

FittingInv == ShapeInv /\ AskedInv /\ (FitSoFar => ConversationInv)

\* What a step does to the history of requests.
LEMMA RequestSteps ==
  ASSUME ShapeInv, [Next]_vars
  PROVE  \/ \E r \in Commands : Ask(r) /\ client = "prompt" /\ req' = r /\ sent' = sent
                                 /\ client' = "writing"
         \/ req' = req /\ sent' = sent /\ (client' = client \/ client' \in {"writing", "failed"})
         \/ client = "awaiting" /\ client' = "prompt" /\ req' = req /\ sent' = sent
         \/ client = "prompt" /\ client' = "eof" /\ req' = req /\ sent' = sent
         \/ req' = req /\ sent' = Append(sent, req)
<1>1. CASE \E r \in Commands : Ask(r)
  BY <1>1 DEF Ask
<1>2. CASE \E n \in DbNames : Use(n)
  BY <1>2 DEF Use
<1>3. CASE Write
  BY <1>3 DEF Write
<1>4. CASE ReadResponse \/ IoErr \/ Kill \/ EndOfInput
  BY <1>4 DEF ReadResponse, IoErr, Kill, EndOfInput
<1>5. CASE ReadField \/ Execute \/ ReadErr \/ CloseSocket
  BY <1>5 DEF ReadField, Execute, ReadErr, CloseSocket, clientVars
<1>6. CASE UNCHANGED vars
  BY <1>6 DEF vars, clientVars
<1> QED
  BY <1>1, <1>2, <1>3, <1>4, <1>5, <1>6 DEF Next

LEMMA AppendedRequest ==
  ASSUME NEW s \in Seq(Requests), NEW r \in Requests
  PROVE  /\ Append(s, r) # <<>> /\ Append(s, r)[Len(Append(s, r))] = r
         /\ \A i \in 1 .. Len(s) : i \in 1 .. Len(Append(s, r)) /\ Append(s, r)[i] = s[i]
         /\ Len(Append(s, r)) \in 1 .. Len(Append(s, r))
<1>1. /\ Append(s, r) \in Seq(Requests) /\ Len(Append(s, r)) = Len(s) + 1 /\ Len(s) \in Nat
      /\ \A i \in 1 .. Len(s) : Append(s, r)[i] = s[i]
      /\ Append(s, r)[Len(s) + 1] = r
  BY AppendProperties, LenProperties
<1>2. Append(s, r) # <<>>
  BY <1>1
<1> QED
  BY <1>1, <1>2

LEMMA AskedNext ==
  ShapeInv /\ AskedInv /\ [Next]_vars => AskedInv'
<1> SUFFICES ASSUME ShapeInv, AskedInv, [Next]_vars PROVE AskedInv'
  OBVIOUS
<1>1. sent \in Seq(Requests) /\ req \in Requests
  BY DEF ShapeInv, ClientInv
<1>2. CASE req' = req /\ sent' = Append(sent, req)
  BY <1>1, <1>2, AppendedRequest DEF AskedInv
<1>3. CASE ~(req' = req /\ sent' = Append(sent, req))
  BY <1>3, RequestSteps DEF AskedInv
<1> QED
  BY <1>2, <1>3

\* Requests that fit have fitted all along.
LEMMA FitBefore ==
  ASSUME ShapeInv, AskedInv, [Next]_vars, FitSoFar'
  PROVE  FitSoFar
<1>1. sent \in Seq(Requests) /\ req \in Requests
  BY DEF ShapeInv, ClientInv
<1>2. CASE req' = req /\ sent' = Append(sent, req)
  BY <1>1, <1>2, AppendedRequest DEF FitSoFar
<1>3. CASE req' = req /\ sent' = sent
  BY <1>3 DEF FitSoFar
<1>4. CASE client = "prompt" /\ sent' = sent
  <2>1. sent # <<>> /\ sent[Len(sent)] = req
    BY <1>4 DEF AskedInv
  <2>2. Len(sent) \in 1 .. Len(sent)
    BY <1>1, <2>1, EmptySeq, LenProperties
  <2>3. \A i \in 1 .. Len(sent) : Fits(sent[i])
    BY <1>4 DEF FitSoFar
  <2>4. Fits(sent[Len(sent)])
    BY <2>2, <2>3
  <2> QED
    BY <2>1, <2>3, <2>4 DEF FitSoFar
<1> QED
  BY <1>2, <1>3, <1>4, RequestSteps

\* Every step keeps the conversation, as long as what it asks for fits.
LEMMA ConversationNext ==
  ASSUME ConnectionInv, [Next]_vars, Fits(req')
  PROVE  ConversationInv'
<1>1. ASSUME NEW r \in Commands, Ask(r) PROVE ConversationInv'
  <2>1. req' = r
    BY <1>1 DEF Ask
  <2> QED
    BY <1>1, <2>1, AskConversation
<1>2. CASE \E n \in DbNames : Use(n)
  BY <1>2, UseConversation
<1>3. CASE Write
  BY <1>3, WriteConversation
<1>4. CASE ReadResponse
  BY <1>4, ReadResponseConversation
<1>5. CASE IoErr \/ Kill \/ EndOfInput
  BY <1>5, EndsConversation
<1>6. CASE ReadField
  BY <1>6, ReadOpConversation, ReadRestConversation
<1>7. CASE Execute
  BY <1>7, ExecuteConversation
<1>8. CASE ReadErr \/ CloseSocket
  BY <1>8, CloseConversation
<1>9. CASE UNCHANGED vars
  <2>1. /\ UNCHANGED <<client, current_db, req, out, c2s, s2c, reset>>
        /\ UNCHANGED <<server, todo, frame, sent, served, got>>
    BY <1>9 DEF vars, clientVars, serverVars
  <2>2. ExecutedAsAsked' /\ AnswersMatch' /\ Answered' = Answered
    BY <2>1, SameHistory DEF ConnectionInv, ConversationInv
  <2>3. RequestInv' /\ PendingInv' /\ AnsweredInv'
    BY <2>1, <2>2 DEF ConnectionInv, ConversationInv, RequestInv, PendingInv,
       AnsweredInv, Missing, Unread, Taken, Latest
  <2> QED
    BY <2>1, <2>2, <2>3 DEF ConnectionInv, ConversationInv
<1> QED
  BY <1>1, <1>2, <1>3, <1>4, <1>5, <1>6, <1>7, <1>8, <1>9 DEF Next

\* One conversation at a time: what is under way is the rest of one request or
\* one answer, until a request is asked for that does not fit its fields.
THEOREM ConnectionInvariant == Spec => []FittingInv
<1>1. Init => FittingInv
  <2>1. Init => AskedInv
    BY DEF Init, AskedInv
  <2> QED
    BY <2>1, ShapeInit, InitConversation DEF FittingInv
<1>2. FittingInv /\ [Next]_vars => FittingInv'
  <2> SUFFICES ASSUME FittingInv, [Next]_vars PROVE FittingInv'
    OBVIOUS
  <2>1. ShapeInv' /\ AskedInv'
    BY ShapeNext, AskedNext DEF FittingInv
  <2>2. ASSUME FitSoFar' PROVE ConversationInv'
    <3>1. FitSoFar /\ Fits(req')
      BY <2>2, FitBefore DEF FittingInv, FitSoFar
    <3> QED
      BY <3>1, ConversationNext DEF FittingInv, ConnectionInv
  <2> QED
    BY <2>1, <2>2 DEF FittingInv
<1> QED
  BY <1>1, <1>2, PTL DEF Spec

\* As long as the requests fit their fields, each is executed as it was typed
\* and its answer is printed under it.  The first that does not fit, which the
\* client lets through after USE, ends the guarantee and nothing before it.
THEOREM ExactUntilOverlong ==
  Spec => [](FitSoFar => ExecutedAsAsked /\ AnswersMatch)
<1>1. FittingInv => (FitSoFar => ExecutedAsAsked /\ AnswersMatch)
  BY DEF FittingInv, ConversationInv
<1> QED
  BY <1>1, ConnectionInvariant, PTL

\* An answer in the stream is there whole.
LEMMA AnswerIsWhole ==
  ASSUME ConnectionInv, Answered, Latest.rsp.status # "none"
  PROVE  ResponseIsWhole
<1>1. Latest \in Serveds
  BY DEF ConnectionInv, ShapeInv, ServerInv, ClientInv, Answered, Latest
<1>2. s2c = send_response(Latest.rsp) /\ Len(Latest.rsp.payload) < Base * Base
  BY DEF ConnectionInv, ConversationInv, AnsweredInv, GoodAnswer
<1>3. PICK rsp \in Responses : rsp = Latest.rsp
  BY <1>1 DEF Serveds
<1>4. rsp.status \in ToSet(Statuses)
  BY <1>3 DEF Responses
<1>5. Len(s2c) = 3 + Len(rsp.payload) /\ Number(SubSeq(s2c, 2, 3)) = Len(rsp.payload)
  BY <1>2, <1>3, <1>4, ResponseRoundTrip
<1>6. Len(rsp.payload) \in Nat
  BY LenProperties DEF Responses
<1> QED
  BY <1>5, <1>6 DEF ResponseIsWhole, ResponseLen

\* A client that waits for its answer and a server that reads never wait for
\* each other: the answer is there, or the request is ready to be executed, or
\* the bytes of the field that read_exact waits for have been written.
NeverBothWait ==
  client = "awaiting" /\ server = "reading" =>
    \/ ResponseIsWhole
    \/ Executable
    \/ todo # <<>> /\ Len(c2s) >= Width(Head(todo))

\* While the server still reads the request, all of it has been written.
LEMMA AllWritten ==
  ASSUME ConnectionInv, client = "awaiting", server = "reading", ~Answered
  PROVE  c2s \in Seq(Byte) /\ req \in Requests /\ c2s = Unread
<1>1. /\ c2s \in Seq(Byte) /\ req \in Requests /\ out = <<>>
      /\ c2s \o Missing = Unread /\ Missing = Cat(out)
  <2>1. out = <<>> /\ c2s \in Seq(Byte) /\ req \in Requests
    BY DEF ConnectionInv, ShapeInv, ClientInv, StreamTypes
  <2> QED
    BY <2>1 DEF ConnectionInv, ConversationInv, PendingInv
<1>2. Cat(<<>>) = <<>>
  <2>1. \A i \in 1 .. 7 : Part(<<>>, i) = <<>>
    BY DEF Part
  <2> QED
    BY <2>1 DEF Cat
<1>3. \A s \in Seq(Byte) : s \o <<>> = s
  OBVIOUS
<1> QED
  BY <1>1, <1>2, <1>3

\* No request whose lengths fit can leave both sides waiting.
THEOREM NoMutualWait == Spec => [](FitSoFar => NeverBothWait)
<1>1. ASSUME ConnectionInv, client = "awaiting", server = "reading", ~Answered,
             NEW t \in 0 .. Len(Writes(req)) - 1, t = Taken
      PROVE  Len(c2s) >= Len(Writes(req)[t + 1])
  <2>1. c2s \in Seq(Byte) /\ req \in Requests /\ c2s = Unread
    BY <1>1, AllWritten
  <2>2. PICK n \in Nat : n = Len(Writes(req))
    BY <2>1, WritesLen, LenProperties
  <2>3. PICK k \in 1 .. Len(Writes(req)) : k = t + 1
    BY <2>2
  <2>4. PICK e \in Seq(Byte), v \in Seq(Byte) :
          e = Writes(req)[k] /\ Cat(SubSeq(Writes(req), k, Len(Writes(req)))) = e \o v
    BY <2>1, NextWrite
  <2>5. c2s = e \o v
    BY <1>1, <2>1, <2>3, <2>4 DEF Unread
  <2>6. Len(e \o v) >= Len(e)
    OBVIOUS
  <2> QED
    BY <2>3, <2>4, <2>5, <2>6
<1>2. ASSUME ConnectionInv PROVE NeverBothWait
  <2> SUFFICES ASSUME client = "awaiting", server = "reading"
               PROVE  \/ ResponseIsWhole
                      \/ Executable
                      \/ todo # <<>> /\ Len(c2s) >= Width(Head(todo))
    BY DEF NeverBothWait
  <2>1. CASE Answered
    <3>1. Latest.rsp.status # "none"
      BY <1>2, <2>1 DEF ConnectionInv, ConversationInv, AnsweredInv
    <3> QED
      BY <1>2, <2>1, <3>1, AnswerIsWhole
  <2>2. CASE ~Answered /\ todo = <<>>
    <3>1. frame.op \in OpNames \ {"Close"}
      <4>1. <<>> # <<"op">>
        OBVIOUS
      <4> QED
        BY <1>2, <2>2, <4>1 DEF ConnectionInv, ShapeInv, ServerInv, FrameInv
    <3> QED
      BY <2>2, <3>1, OpNamesAre DEF Executable
  <2>3. CASE ~Answered /\ todo = <<"op">>
    <3>1. Taken = 0 /\ Head(todo) = "op" /\ todo # <<>>
      BY <2>3 DEF Taken
    <3>2. req \in Requests
      BY <1>2 DEF ConnectionInv, ShapeInv, ClientInv
    <3>3. Writes(req)[1] = u8(to_u8(req.op)) /\ 0 \in 0 .. Len(Writes(req)) - 1
      <4>1. Len(Writes(req)) = 1 + Len(Fields(req.op)) /\ Len(Fields(req.op)) \in {0, 2, 4, 6}
        BY <3>2, WritesFacts, FieldsFacts
      <4> QED
        BY <3>2, <4>1, WritesFacts
    <3>4. Len(c2s) >= Len(Writes(req)[1])
      BY <1>1, <1>2, <2>3, <3>1, <3>3
    <3>5. Len(u8(to_u8(req.op))) = 1 /\ Width("op") = 1
      BY DEF u8, Width
    <3> QED
      BY <3>1, <3>3, <3>4, <3>5
  <2>4. CASE ~Answered /\ todo # <<>> /\ todo # <<"op">>
    <3>1. PICK f : f = Head(todo)
      OBVIOUS
    <3>2. /\ Taken \in 0 .. Len(Writes(req)) - 1
          /\ Writes(req)[Taken + 1] = Encoding(req, f) /\ Width(f) = Len(Encoding(req, f))
      BY <1>2, <2>4, <3>1, NextField
    <3>3. PICK t \in 0 .. Len(Writes(req)) - 1 : t = Taken
      BY <3>2
    <3>4. Len(c2s) >= Len(Writes(req)[t + 1])
      BY <1>1, <1>2, <2>4, <3>3
    <3> QED
      BY <2>4, <3>1, <3>2, <3>3, <3>4
  <2> QED
    BY <2>1, <2>2, <2>3, <2>4
<1>3. FittingInv => (FitSoFar => NeverBothWait)
  BY <1>2 DEF FittingInv, ConnectionInv
<1> QED
  BY <1>3, ConnectionInvariant, PTL

\* Names, keys and values that fit leave no request that does not.
LEMMA FitsAlways ==
  ASSUME LengthsFit
  PROVE  Spec => []FitSoFar
<1> DEFINE Inv == FitSoFar /\ Len(current_db) < Base
<1>1. Init => Inv
  <2> SUFFICES ASSUME Init PROVE Inv
    OBVIOUS
  <2>1. /\ req = Plain("Ping") /\ Len(sent) = 0 /\ current_db \in InitialDbs
    BY DEF Init
  <2> QED
    BY <2>1, PlainPing DEF FitSoFar, LengthsFit
<1>2. Inv /\ ShapeInv /\ [Next]_vars => Inv'
  <2> SUFFICES ASSUME Inv, ShapeInv, [Next]_vars PROVE Inv'
    OBVIOUS
  <2>1. sent \in Seq(Requests) /\ req \in Requests /\ current_db \in Seq(Byte)
    BY DEF ShapeInv, ClientInv
  <2>2. Len(current_db') < Base
    <3>1. current_db' = current_db \/ \E n \in DbNames : current_db' = n
      BY DEF Next, Ask, Use, Write, ReadResponse, IoErr, Kill, EndOfInput,
         ReadField, Execute, ReadErr, CloseSocket, clientVars, vars
    <3> QED
      BY <3>1 DEF LengthsFit
  <2>3. FitSoFar'
    <3>1. ASSUME NEW r \in Commands, req' = r, sent' = sent PROVE FitSoFar'
      <4>1. Fits(r)
        BY <2>1, CommandFacts
      <4> QED
        BY <3>1, <4>1 DEF FitSoFar
    <3>2. CASE req' = req /\ sent' = sent
      BY <3>2 DEF FitSoFar
    <3>3. CASE req' = req /\ sent' = Append(sent, req)
      <4>1. ASSUME NEW i \in 1 .. Len(sent') PROVE Fits(sent'[i])
        <5>1. /\ Len(sent') = Len(sent) + 1 /\ Len(sent) \in Nat
              /\ \A j \in 1 .. Len(sent) : sent'[j] = sent[j]
              /\ sent'[Len(sent) + 1] = req
          BY <2>1, <3>3, AppendProperties, LenProperties
        <5>2. i \in 1 .. Len(sent) \/ i = Len(sent) + 1
          BY <5>1
        <5> QED
          BY <5>1, <5>2 DEF FitSoFar
      <4> QED
        BY <3>3, <4>1 DEF FitSoFar
    <3> QED
      BY <3>1, <3>2, <3>3, RequestSteps
  <2> QED
    BY <2>2, <2>3
<1> QED
  BY <1>1, <1>2, ConnectionShape, PTL DEF Spec

\* handle_client executes the requests the client wrote, whole and in order,
\* and exactly those that its limits admit.
THEOREM RequestsAreExecutedAsAsked ==
  ASSUME LengthsFit
  PROVE  Spec => []ExecutedAsAsked
BY ExactUntilOverlong, FitsAlways, PTL

\* The client prints under a command the answer to that command.
THEOREM AnswersArriveUnchanged ==
  ASSUME LengthsFit
  PROVE  Spec => []AnswersMatch
BY ExactUntilOverlong, FitsAlways, PTL

\* The answer to an executed request is in the stream, whole, before the
\* client can fail: the reset of a closing server never destroys it.
THEOREM NoAnswerIsLost ==
  ASSUME LengthsFit
  PROVE  Spec => ExecutedAnswersArrive
<1>1. FitSoFar /\ FittingInv /\ [Next]_vars =>
        [IoErr => \A i \in 1 .. Len(served) :
           served[i].executed /\ served[i].rsp.status # "none" => i <= Len(got)]_vars
  <2> SUFFICES ASSUME ConnectionInv, IoErr, NEW i \in 1 .. Len(served),
                      served[i].executed, served[i].rsp.status # "none", ~(i <= Len(got))
               PROVE  FALSE
    BY DEF FittingInv, ConnectionInv
  <2>1. /\ served \in Seq(Serveds) /\ got \in Seq(Responses)
        /\ Len(served) \in {Len(got), Len(got) + 1}
    BY DEF ConnectionInv, ShapeInv, ClientInv, ServerInv, ConversationInv
  <2>2. Answered /\ i = Len(got) + 1
    BY <2>1 DEF Answered
  <2>3. Latest = served[i]
    BY <2>2 DEF Latest
  <2>4. client # "writing" /\ ~reset
    BY <2>2, <2>3 DEF ConnectionInv, ConversationInv, AnsweredInv
  <2>5. ResponseIsWhole
    BY <2>2, <2>3, AnswerIsWhole
  <2> QED
    BY <2>4, <2>5 DEF IoErr
<1> QED
  BY <1>1, ConnectionInvariant, FitsAlways, PTL DEF Spec, ExecutedAnswersArrive
=============================================================================
