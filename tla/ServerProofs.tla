---------------------------- MODULE ServerProofs ----------------------------
(***************************************************************************)
(* What TLAPS proves about module Server, for any finite set of clients    *)
(* and any log level.                                                      *)
(*                                                                         *)
(* The count of active connections is the number of tasks that live or     *)
(* have panicked, from the accept until the process ends.  That is what    *)
(* makes a count of zero mean that nobody is left.                         *)
(***************************************************************************)
EXTENDS Server, FiniteSetTheorems, TLAPS

Counted == {c \in Conns : conn[c] \in {"task", "ok", "disconnected", "failed", "panicked"}}

Ended == main \in {"exited", "crashed"}

CountInv ==
  /\ ~Ended => active_connections = Cardinality(Counted)
  /\ Ended \/ main = "stop" => Counted = {}

ServerInv == TypeOK /\ CountInv

(* Every set of clients is finite, and no larger than Conns.               *)
LEMMA CountedFinite ==
  ASSUME NEW S \in SUBSET Conns
  PROVE  IsFiniteSet(S) /\ Cardinality(S) \in Nat /\ Cardinality(S) <= Cardinality(Conns)
  BY FS_Subset, FS_CardinalityType, ServerAssumption DEF ServerAssumption

(* An action that leaves main, the count and the counted tasks as they are *)
(* keeps CountInv.                                                         *)
LEMMA SameCount ==
  ASSUME CountInv, main' = main, active_connections' = active_connections, Counted' = Counted
  PROVE  CountInv'
  BY DEF CountInv, Ended

(* The end of the process leaves nobody counted.                           *)
LEMMA NobodyCounted ==
  ASSUME TypeOK, conn' = Gone, main' \in {"exited", "crashed"}
  PROVE  CountInv' /\ conn' \in [Conns -> {"away", "over"}]
  <1>1. conn' \in [Conns -> {"away", "over"}]
    BY DEF Gone
  <1>2. Counted' = {}
    BY <1>1 DEF Counted
  <1> QED BY <1>1, <1>2 DEF CountInv, Ended

(* One client joins the counted.                                           *)
LEMMA OneMore ==
  ASSUME ServerInv, NEW c \in Conns, c \notin Counted, Counted' = Counted \cup {c}
  PROVE  /\ Cardinality(Counted') = Cardinality(Counted) + 1
         /\ Cardinality(Counted) + 1 \in 0 .. Cardinality(Conns)
  <1>1. Counted \in SUBSET Conns /\ Counted \cup {c} \in SUBSET Conns
    BY DEF Counted
  <1>2. IsFiniteSet(Counted) /\ Cardinality(Counted) \in Nat
    BY <1>1, CountedFinite
  <1>3. Cardinality(Counted \cup {c}) = Cardinality(Counted) + 1
    BY <1>2, FS_AddElement
  <1>4. Cardinality(Counted \cup {c}) <= Cardinality(Conns)
    BY <1>1, CountedFinite
  <1>5. Cardinality(Conns) \in Nat
    BY FS_CardinalityType, ServerAssumption DEF ServerAssumption
  <1> QED BY <1>2, <1>3, <1>4, <1>5

(* One client leaves them.                                                 *)
LEMMA OneLess ==
  ASSUME ServerInv, NEW c \in Conns, c \in Counted, Counted' = Counted \ {c}
  PROVE  /\ Cardinality(Counted') = Cardinality(Counted) - 1
         /\ Cardinality(Counted) - 1 \in 0 .. Cardinality(Conns)
  <1>1. Counted \in SUBSET Conns /\ Counted \ {c} \in SUBSET Conns
    BY DEF Counted
  <1>2. IsFiniteSet(Counted) /\ Cardinality(Counted) \in Nat
    BY <1>1, CountedFinite
  <1>3. Cardinality(Counted \ {c}) = Cardinality(Counted) - 1
    BY <1>2, FS_RemoveElement
  <1>4. Cardinality(Counted \ {c}) \in Nat /\ Cardinality(Counted \ {c}) <= Cardinality(Conns)
    BY <1>1, CountedFinite
  <1>5. Cardinality(Conns) \in Nat
    BY FS_CardinalityType, ServerAssumption DEF ServerAssumption
  <1> QED BY <1>2, <1>3, <1>4, <1>5

(* Initially nobody is counted.                                            *)
LEMMA InitInv == Init => ServerInv
  <1> SUFFICES ASSUME Init PROVE ServerInv
    OBVIOUS
  <1>1. Counted = {}
    BY DEF Init, Counted
  <1>2. Cardinality(Counted) = 0
    BY <1>1, FS_EmptySet
  <1>3. Cardinality(Conns) \in Nat
    BY FS_CardinalityType, ServerAssumption DEF ServerAssumption
  <1>4. 0 \in 0 .. Cardinality(Conns)
    BY <1>3
  <1>5. conn \in [Conns -> {"away"}]
    BY DEF Init
  <1>6. TypeOK
    BY <1>4, <1>5 DEF Init, TypeOK
  <1> QED BY <1>1, <1>2, <1>6 DEF Init, ServerInv, CountInv, Ended

(* The panic of the main task ends the process.                            *)
LEMMA MainFailsInv == ServerInv /\ MainFails => ServerInv'
  <1> SUFFICES ASSUME ServerInv, MainFails PROVE ServerInv'
    OBVIOUS
  <1>1. CountInv' /\ conn' \in [Conns -> {"away", "over"}]
    BY NobodyCounted DEF ServerInv, MainFails
  <1>2. TypeOK'
    BY <1>1 DEF ServerInv, TypeOK, MainFails, console
  <1> QED BY <1>1, <1>2 DEF ServerInv

(* A connection is accepted and counted, in one step of the main task.     *)
LEMMA AcceptInv ==
  ASSUME ServerInv, NEW c \in Conns, Accept(c)
  PROVE  ServerInv'
  <1>1. CASE MainFails
    BY <1>1, MainFailsInv
  <1>2. CASE ~MainFails
    <2>1. /\ active_connections' = active_connections + 1
          /\ conn' = [conn EXCEPT ![c] = "task"] /\ conn[c] = "queued"
          /\ main' = "round" /\ heard' = FALSE /\ installed' \in {installed, TRUE}
          /\ UNCHANGED console /\ Looping
      BY <1>2 DEF Accept, fetch_add, Queued
    <2>2. c \notin Counted /\ Counted' = Counted \cup {c}
      BY <2>1 DEF ServerInv, TypeOK, Counted
    <2>3. active_connections = Cardinality(Counted)
      BY <2>1 DEF ServerInv, CountInv, Ended, Looping
    <2>4. active_connections' = Cardinality(Counted') /\ active_connections' \in 0 .. Cardinality(Conns)
      BY <2>1, <2>2, <2>3, OneMore
    <2>5. TypeOK'
      BY <2>1, <2>4 DEF ServerInv, TypeOK, console
    <2>6. CountInv'
      BY <2>1, <2>4 DEF CountInv, Ended
    <2> QED BY <2>5, <2>6 DEF ServerInv
  <1> QED BY <1>1, <1>2

(* A task ends and is counted off, or panics and stays counted.            *)
LEMMA TaskEndsInv ==
  ASSUME ServerInv, NEW c \in Conns, TaskEnds(c)
  PROVE  ServerInv'
  <1>1. c \in Counted /\ conn[c] \in {"ok", "disconnected", "failed"}
        /\ UNCHANGED <<main, installed, heard, console>>
    BY DEF TaskEnds, Counted
  <1>2. CASE conn' = [conn EXCEPT ![c] = "panicked"] /\ UNCHANGED active_connections
    <2>1. Counted' = Counted
      BY <1>1, <1>2 DEF ServerInv, TypeOK, Counted
    <2>2. TypeOK'
      BY <1>1, <1>2 DEF ServerInv, TypeOK, console
    <2> QED BY <1>1, <1>2, <2>1, <2>2, SameCount DEF ServerInv
  <1>3. CASE active_connections' = active_connections - 1 /\ conn' = [conn EXCEPT ![c] = "over"]
    <2>1. Counted' = Counted \ {c}
      BY <1>1, <1>3 DEF ServerInv, TypeOK, Counted
    <2>2. ~Ended /\ main # "stop" /\ active_connections = Cardinality(Counted)
      BY <1>1 DEF ServerInv, CountInv
    <2>3. active_connections' = Cardinality(Counted') /\ active_connections' \in 0 .. Cardinality(Conns)
      BY <1>1, <1>3, <2>1, <2>2, OneLess
    <2>4. TypeOK'
      BY <1>1, <1>3, <2>3 DEF ServerInv, TypeOK, console
    <2>5. CountInv'
      BY <1>1, <2>2, <2>3 DEF CountInv, Ended
    <2> QED BY <2>4, <2>5 DEF ServerInv
  <1> QED BY <1>2, <1>3 DEF TaskEnds, fetch_sub

(* The steps of one client or its task that leave the count alone.         *)
LEMMA ClientInv ==
  ASSUME ServerInv, NEW c \in Conns, Connect(c) \/ AcceptErr(c) \/ HandleClient(c)
  PROVE  ServerInv'
  <1>1. CASE Connect(c)
    <2>1. Counted' = Counted
      BY <1>1 DEF Connect, ServerInv, TypeOK, Counted
    <2>2. TypeOK'
      BY <1>1 DEF Connect, ServerInv, TypeOK, console
    <2> QED BY <1>1, <2>1, <2>2, SameCount DEF Connect, ServerInv
  <1>2. CASE AcceptErr(c)
    <2>1. CASE MainFails
      BY <2>1, MainFailsInv
    <2>2. CASE ~MainFails
      <3>1. Counted' = Counted
        BY <1>2, <2>2 DEF AcceptErr, Queued, ServerInv, TypeOK, Counted
      <3>2. TypeOK'
        BY <1>2, <2>2 DEF AcceptErr, ServerInv, TypeOK, console
      <3>3. CountInv'
        BY <1>2, <2>2, <3>1 DEF AcceptErr, Looping, ServerInv, CountInv, Ended
      <3> QED BY <3>2, <3>3 DEF ServerInv
    <2> QED BY <2>1, <2>2
  <1>3. CASE HandleClient(c)
    <2>1. Counted' = Counted
      BY <1>3 DEF HandleClient, ServerInv, TypeOK, Counted
    <2>2. TypeOK'
      BY <1>3 DEF HandleClient, ServerInv, TypeOK, console
    <2> QED BY <1>3, <2>1, <2>2, SameCount DEF HandleClient, ServerInv
  <1> QED BY <1>1, <1>2, <1>3

(* Leaving the loop resets queued connections, none of which is counted.   *)
LEMMA StopInv == ServerInv /\ Stop => ServerInv'
  <1> SUFFICES ASSUME ServerInv, Stop PROVE ServerInv'
    OBVIOUS
  <1>1. CASE MainFails
    BY <1>1, MainFailsInv
  <1>2. CASE ~MainFails
    <2>1. /\ main = "select" /\ main' = "drain" /\ heard' = FALSE
          /\ conn' = [c \in Conns |-> IF c \in Queued THEN "over" ELSE conn[c]]
          /\ UNCHANGED <<installed, active_connections, console>>
      BY <1>2 DEF Stop
    <2>2. Counted' = Counted
      BY <2>1 DEF ServerInv, TypeOK, Counted, Queued
    <2>3. TypeOK'
      BY <2>1 DEF ServerInv, TypeOK, console
    <2>4. CountInv'
      BY <2>1, <2>2 DEF ServerInv, CountInv, Ended
    <2> QED BY <2>3, <2>4 DEF ServerInv
  <1> QED BY <1>1, <1>2

(* The drain is over when the count is zero, and then nobody is counted.   *)
LEMMA DrainedInv == ServerInv /\ Drained => ServerInv'
  <1> SUFFICES ASSUME ServerInv, Drained PROVE ServerInv'
    OBVIOUS
  <1>1. Cardinality(Counted) = 0 /\ Counted' = Counted
    BY DEF ServerInv, CountInv, Ended, Drained, Counted
  <1>2. IsFiniteSet(Counted)
    BY CountedFinite DEF Counted
  <1>3. Counted = {}
    BY <1>1, <1>2, FS_EmptySet
  <1>4. TypeOK'
    BY DEF ServerInv, TypeOK, Drained, console
  <1>5. CountInv'
    BY <1>1, <1>3 DEF ServerInv, CountInv, Ended, Drained
  <1> QED BY <1>4, <1>5 DEF ServerInv

(* The other steps of the main task and of the outside.                    *)
LEMMA OthersInv ==
  ASSUME ServerInv, Signal \/ StdoutCloses \/ Listen \/ PollSelect \/ Exit
  PROVE  ServerInv'
  <1>1. CASE Signal
    <2>1. CASE installed
      <3>1. Counted' = Counted /\ main' = main
        BY <1>1, <2>1 DEF Signal, Counted
      <3>2. TypeOK'
        BY <1>1, <2>1 DEF Signal, Hears, ServerInv, TypeOK, console
      <3> QED BY <1>1, <3>1, <3>2, SameCount DEF Signal, ServerInv
    <2>2. CASE ~installed
      <3>1. CountInv' /\ conn' \in [Conns -> {"away", "over"}]
        BY <1>1, <2>2, NobodyCounted DEF Signal, ServerInv
      <3>2. TypeOK'
        BY <1>1, <2>2, <3>1 DEF Signal, Hears, ServerInv, TypeOK, console
      <3> QED BY <3>1, <3>2 DEF ServerInv
    <2> QED BY <2>1, <2>2
  <1>2. CASE StdoutCloses
    <2>1. Counted' = Counted /\ TypeOK'
      BY <1>2 DEF StdoutCloses, Counted, ServerInv, TypeOK
    <2> QED BY <1>2, <2>1, SameCount DEF StdoutCloses, ServerInv
  <1>3. CASE Listen
    <2>1. CASE MainFails
      BY <2>1, MainFailsInv
    <2>2. CASE ~MainFails
      <3>1. Counted' = Counted /\ TypeOK'
        BY <1>3, <2>2 DEF Listen, Counted, ServerInv, TypeOK, console
      <3> QED BY <1>3, <2>2, <3>1 DEF Listen, ServerInv, CountInv, Ended
    <2> QED BY <2>1, <2>2
  <1>4. CASE PollSelect
    <2>1. Counted' = Counted /\ TypeOK'
      BY <1>4 DEF PollSelect, Counted, ServerInv, TypeOK, console
    <2> QED BY <1>4, <2>1 DEF PollSelect, ServerInv, CountInv, Ended
  <1>5. CASE Exit
    <2>1. CASE MainFails
      BY <2>1, MainFailsInv
    <2>2. CASE ~MainFails
      <3>1. CountInv' /\ conn' \in [Conns -> {"away", "over"}]
        BY <1>5, <2>2, NobodyCounted DEF Exit, ServerInv
      <3>2. TypeOK'
        BY <1>5, <2>2, <3>1 DEF Exit, ServerInv, TypeOK, console
      <3> QED BY <3>1, <3>2 DEF ServerInv
    <2> QED BY <2>1, <2>2
  <1> QED BY <1>1, <1>2, <1>3, <1>4, <1>5

(* The count is right in every reachable state.                            *)
THEOREM CountIsRight == Spec => []ServerInv
  <1>1. Init => ServerInv
    BY InitInv
  <1>2. ServerInv /\ [Next]_vars => ServerInv'
    <2> SUFFICES ASSUME ServerInv, [Next]_vars PROVE ServerInv'
      OBVIOUS
    <2>1. CASE UNCHANGED vars
      <3>1. Counted' = Counted /\ TypeOK'
        BY <2>1 DEF vars, Counted, ServerInv, TypeOK, console
      <3> QED BY <2>1, <3>1, SameCount DEF vars, ServerInv
    <2>2. CASE Next
      BY <2>2, AcceptInv, TaskEndsInv, ClientInv, StopInv, DrainedInv, OthersInv DEF Next
    <2> QED BY <2>1, <2>2
  <1> QED BY <1>1, <1>2, PTL DEF Spec

(* Type correctness: active_connections, an AtomicU32 from which every     *)
(* task subtracts, never falls below zero nor exceeds the clients.         *)
THEOREM ServerTypeCorrect == Spec => []TypeOK
  BY CountIsRight, PTL DEF ServerInv

(* No connection task is left when run_server shuts the workers down or    *)
(* has returned, however signals, panics and clients interleave.           *)
THEOREM ShutdownOvertakesNobody == Spec => []DrainIsComplete
  <1>1. ServerInv => DrainIsComplete
    BY DEF ServerInv, CountInv, Ended, Counted, DrainIsComplete, Live
  <1> QED BY <1>1, CountIsRight, PTL
=============================================================================
