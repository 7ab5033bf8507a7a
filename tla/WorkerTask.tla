---------------------------- MODULE WorkerTask ----------------------------
(***************************************************************************)
(* What the manager relies on about a worker task: it runs as long as      *)
(* anyone holds a clone of its sender, a clone is only ever made from      *)
(* another one, and the notice of its end comes after the last is gone.    *)
(***************************************************************************)
VARIABLES state, holders
vars == <<state, holders>>

Init == state = "free" /\ holders = {}

Spawn ==
  /\ state \in {"free", "returned"} /\ holders = {}
  /\ state' = "running" /\ holders' # {}

CloneOrDrop ==
  /\ state = "running" /\ holders # {}
  /\ UNCHANGED state

Exit ==
  /\ state = "running" /\ holders = {}
  /\ state' = "exited" /\ UNCHANGED holders

Return ==
  /\ state = "exited"
  /\ state' \in {"free", "returned"} /\ UNCHANGED holders

ProcessEnds == state' = "free" /\ holders' = {}

Next == Spawn \/ CloneOrDrop \/ Exit \/ Return \/ ProcessEnds

Spec == Init /\ [][Next]_vars
=============================================================================
