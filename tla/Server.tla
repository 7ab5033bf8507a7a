------------------------------- MODULE Server -------------------------------
(***************************************************************************)
(* run_server (src/src/bin/main.rs): the accept loop around `select!`, the *)
(* listeners for SIGINT and SIGTERM, the count of active connections, the  *)
(* drain; with the panics of the logging macros (src/src/log.rs), whose    *)
(* println! panics when standard output is gone.                           *)
(*                                                                         *)
(* What a connection does between its start and its end is in module       *)
(* Connection; what shutdown_all_workers does, in module Manager.          *)
(***************************************************************************)
EXTENDS Naturals, FiniteSets

CONSTANTS
  Conns,           \* clients, each of which connects once
  LogLevels        \* --log-level: a choice of 0 (trace) .. 4 (error)

ASSUME ServerAssumption ==
  /\ IsFiniteSet(Conns)
  /\ LogLevels \subseteq 0 .. 4

VARIABLES
  main,        \* "init", "round", "select", "drain", "stop", "exited", "crashed"
  installed,   \* tokio's signal handlers are installed: the default is off
  heard,       \* a signal has reached the listener of this round's select!
  conn,        \* per client: "away", "queued", "task", "ending", ...
  active_connections,
  stdout,      \* standard output can be written to
  LOG_LEVEL

console == <<stdout, LOG_LEVEL>>
vars == <<main, installed, heard, conn, active_connections, console>>

Trace == 0
Debug == 1
Info == 2
Error == 4

\* log::log prints, or returns early.
should_log(level) == level >= LOG_LEVEL
Panics(level) == should_log(level) /\ ~stdout

Live == {c \in Conns : conn[c] \in {"task", "ok", "disconnected", "failed"}}
Queued == {c \in Conns : conn[c] = "queued"}
Looping == main \in {"round", "select"}

\* The process ends: its sockets and tasks end with it.
Gone == [c \in Conns |-> IF conn[c] = "away" THEN "away" ELSE "over"]

Init ==
  /\ main = "init" /\ installed = FALSE /\ heard = FALSE
  /\ conn = [c \in Conns |-> "away"] /\ active_connections = 0
  /\ stdout = TRUE /\ LOG_LEVEL \in LogLevels

-----------------------------------------------------------------------------
(* The outside *)

\* The kernel takes connections as soon as the listener is bound.
Connect(c) ==
  /\ Looping /\ conn[c] = "away"
  /\ conn' = [conn EXCEPT ![c] = "queued"]
  /\ UNCHANGED <<main, installed, heard, active_connections, console>>

HearsUntilAccept ==   \* mutant: one listener, dropped by the first accept
  main = "select" /\ \A c \in Conns : conn[c] = "away"
Hears == main = "select"

\* SIGINT or SIGTERM, when tokio passes it on.  Without a handler it kills the
\* process; with one it reaches the listeners that exist at that moment, and
\* nobody else.
Signal ==
  /\ main \notin {"exited", "crashed"}
  /\ heard' = (heard \/ Hears)
  /\ IF installed THEN UNCHANGED <<main, conn>>
     ELSE main' = "crashed" /\ conn' = Gone
  /\ UNCHANGED <<installed, active_connections, console>>

\* The reader of standard output goes away.
StdoutCloses ==
  /\ stdout /\ stdout' = FALSE
  /\ UNCHANGED <<main, installed, heard, conn, active_connections, LOG_LEVEL>>

-----------------------------------------------------------------------------
(* The main task *)

\* run_server returns an error or panics, and the process with it.
MainFails ==
  /\ main' = "crashed" /\ conn' = Gone
  /\ UNCHANGED <<installed, heard, active_connections, console>>

\* DbManager::init, TcpListener::bind, local_addr and the two logs.  Any of
\* the three may return an error, which ends run_server.
Listen ==
  /\ main = "init"
  /\ \/ MainFails
     \/ /\ ~Panics(Info) /\ main' = "round"
        /\ UNCHANGED <<installed, heard, conn, active_connections, console>>

\* ctrl_c_handler() is created anew in every round and listens from its first
\* poll on: what came before is not heard.  Neither branch is ready, main sleeps.
PollSelect ==
  /\ main = "round" /\ Queued = {}
  /\ main' = "select" /\ installed' = TRUE /\ heard' = FALSE
  /\ UNCHANGED <<conn, active_connections, console>>

Uncounted(c) == active_connections   \* mutant: no fetch_add for the connection
fetch_add(c) == active_connections + 1

\* accept() is ready, at the first poll or after a sleep; select! drops the
\* signal branch, with whatever it has heard.
Accept(c) ==
  /\ Looping /\ c \in Queued
  /\ \/ Panics(Trace) /\ MainFails
     \/ /\ ~Panics(Trace)
        /\ active_connections' = fetch_add(c)
        /\ conn' = [conn EXCEPT ![c] = "task"]
        /\ main' = "round" /\ heard' = FALSE
        \* the signal branch may be polled before or after accept()
        /\ installed' \in {installed, TRUE}
        /\ UNCHANGED console

AcceptErr(c) ==
  /\ Looping /\ c \in Queued
  /\ \/ Panics(Error) /\ MainFails
     \/ /\ ~Panics(Error)
        /\ conn' = [conn EXCEPT ![c] = "over"]
        /\ main' = "round" /\ heard' = FALSE /\ installed' \in {installed, TRUE}
        /\ UNCHANGED <<active_connections, console>>

\* The signal branch: leave the loop and drop the listener, which resets the
\* connections that wait in it.
Stop ==
  /\ main = "select" /\ heard
  /\ \/ Panics(Info) /\ MainFails
     \/ /\ ~Panics(Info)
        /\ main' = "drain" /\ heard' = FALSE
        /\ conn' = [c \in Conns |-> IF c \in Queued THEN "over" ELSE conn[c]]
        /\ UNCHANGED <<installed, active_connections, console>>

Drained ==
  /\ main = "drain" /\ active_connections = 0
  /\ main' = "stop"
  /\ UNCHANGED <<installed, heard, conn, active_connections, console>>

\* shutdown_all_workers returns, run_server logs and returns.
Exit ==
  /\ main = "stop"
  /\ \/ Panics(Info) /\ MainFails
     \/ /\ ~Panics(Info) /\ main' = "exited" /\ conn' = Gone
        /\ UNCHANGED <<installed, heard, active_connections, console>>

-----------------------------------------------------------------------------
(* The tasks of the connections *)

\* handle_client returns Ok(()), a connection error, or another error.
HandleClient(c) ==
  /\ conn[c] = "task"
  /\ \E r \in {"ok", "disconnected", "failed"} : conn' = [conn EXCEPT ![c] = r]
  /\ UNCHANGED <<main, installed, heard, active_connections, console>>

SubOnOk(c) ==   \* mutant: `?` in the task instead of `if let Err`
  IF conn[c] = "ok" THEN active_connections - 1 ELSE active_connections
fetch_sub(c) == active_connections - 1

\* The error is logged, then the count goes down, unless the log panics.
TaskEnds(c) ==
  /\ conn[c] \in {"ok", "disconnected", "failed"}
  /\ IF \/ conn[c] = "disconnected" /\ Panics(Debug)
        \/ conn[c] = "failed" /\ Panics(Error)
     THEN /\ conn' = [conn EXCEPT ![c] = "panicked"]
          /\ UNCHANGED active_connections
     ELSE /\ active_connections' = fetch_sub(c)
          /\ conn' = [conn EXCEPT ![c] = "over"]
  /\ UNCHANGED <<main, installed, heard, console>>

MainStep ==
  \/ Listen \/ PollSelect \/ Stop \/ Drained \/ Exit
  \/ \E c \in Conns : Accept(c) \/ AcceptErr(c)

Next ==
  \/ \E c \in Conns : Connect(c) \/ Accept(c) \/ AcceptErr(c) \/ HandleClient(c) \/ TaskEnds(c)
  \/ Signal \/ StdoutCloses
  \/ Listen \/ PollSelect \/ Stop \/ Drained \/ Exit

Spec == Init /\ [][Next]_vars

\* Tasks are scheduled and every client ends its connection at last.  select!
\* picks a ready branch at random: one that is ready again and again is taken.
FairSpec ==
  /\ Spec /\ WF_vars(MainStep) /\ SF_vars(Stop)
  /\ \A c \in Conns : WF_vars(HandleClient(c)) /\ WF_vars(TaskEnds(c))

-----------------------------------------------------------------------------
(* Properties *)

(* Type invariant: the count stays between zero and the number of clients.  *)
TypeOK ==
  /\ main \in {"init", "round", "select", "drain", "stop", "exited", "crashed"}
  /\ conn \in [Conns -> {"away", "queued", "task", "ok", "disconnected",
                         "failed", "panicked", "over"}]
  /\ installed \in BOOLEAN /\ heard \in BOOLEAN /\ stdout \in BOOLEAN
  /\ LOG_LEVEL \in LogLevels
  /\ active_connections \in 0 .. Cardinality(Conns)

(* The drain is complete: while run_server shuts the workers down, and when *)
(* it has returned, no connection task is left that could still have a      *)
(* query answered or be cut off in one.                                     *)
DrainIsComplete == main \in {"stop", "exited"} => Live = {}

(* One signal can be lost, but not all of them: an operator who repeats the *)
(* signal gets the server out of its loop, unless clients connect for ever. *)
RepeatedSignalStops == WF_vars(Signal) => <>(main \notin {"init", "round", "select"})

(* Once the clients have gone the drain ends, unless a task panicked on the *)
(* way: then the count never reaches zero, as the TODO in run_server says.  *)
ServerDrains ==
  main = "drain" ~> \/ main \in {"exited", "crashed"}
                    \/ \E c \in Conns : conn[c] = "panicked"
=============================================================================
