------------------------------- MODULE MCNode -------------------------------
(***************************************************************************)
(* The framework the components run in: an event queue with two threads,   *)
(* and the life of two components with a delayed thread, a start that may  *)
(* fail and two timers (Docker).  The initial state says which of the two  *)
(* a behaviour is about; the other keeps its initial state.                *)
(***************************************************************************)
EXTENDS EventQueue

CONSTANTS t1, t2

VARIABLES part,
          main, k, status, fActived, fShutdown, compThr, told, intr,
          timerById, byExpiry, notify, nextId, cancelled,
          now, tpc, until, work, call, called, late

dockerVars == <<main, k, status, fActived, fShutdown, compThr, told, intr,
                timerById, byExpiry, notify, nextId, cancelled,
                now, tpc, until, work, call, called, late>>
mcVars == <<part, vars, dockerVars>>

D == INSTANCE Docker WITH
    thr <- compThr, Count <- 2, WithThread <- {1}, IfRunning <- {1}, MayFail <- {2},
    FailsLate <- TRUE, MaxTimers <- 2, MaxTime <- 1

ASSUME D!DockerAssumption

MCInit == part \in {"queue", "docker"} /\ Init /\ D!Init

MCNext ==
    /\ UNCHANGED part
    /\ \/ part = "queue" /\ Next /\ UNCHANGED dockerVars
       \/ part = "docker" /\ D!Next /\ UNCHANGED vars

\* The fairness of both, that of Docker for the behaviours about it.
DockerFairness ==
    /\ WF_dockerVars(part = "docker" /\ D!Main /\ main # "active")
    /\ WF_dockerVars(part = "docker" /\ D!TimerThread)
    /\ WF_dockerVars(part = "docker" /\ D!NotifyTimer)
    /\ WF_dockerVars(part = "docker" /\ D!Tick)
    /\ WF_dockerVars(part = "docker" /\ \E c \in {1} :
           D!ThreadDelayRun(c) \/ D!WaitInterrupted(c) \/ D!ThreadEnds(c))

MCSpec == MCInit /\ [][MCNext]_mcVars /\ Fairness /\ DockerFairness

\* A node that starts becomes active or ends, and a node that stops ends: no
\* join in Halt or Exit waits for ever, except that of a component that
\* interrupts its delayed thread only if it is running (CDataStat), after a
\* start that failed.  And an event that was added is handled unless the queue
\* is interrupted, whichever of the threads is notified.
NodeProgresses == (part = "docker" => D!Ends) /\ Serves

\* A timer that CancelTimer still found is never called, not even if the timer
\* thread had already taken it as due.
CancelHolds == D!CancelHolds
=============================================================================
