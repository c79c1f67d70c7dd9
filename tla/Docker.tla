------------------------------- MODULE Docker -------------------------------
(***************************************************************************)
(* CDocker: the components of a node are initialized and invoked in the    *)
(* order they were attached and halted in the reverse order; the threads   *)
(* they start with a delay begin when all are invoked; one thread calls    *)
(* the callbacks of their timers.                                          *)
(*                                                                         *)
(* The program's main thread calls Run and, when that failed or the node   *)
(* is to stop, Exit.  Each critical section of mtxDocker or mtxTimer is    *)
(* one step.  A component is its position in listInstalled and starts at   *)
(* most one delayed thread in its HandleInvoke.  There are two kinds of    *)
(* HandleHalt: nearly all components interrupt their thread and join it,   *)
(* CDataStat interrupts it only if it is running.                          *)
(*                                                                         *)
(* Timers are numbered in the order they are set; the wrap of the 32-bit   *)
(* number is left out.                                                     *)
(***************************************************************************)
EXTENDS Naturals, FiniteSets, Sequences, FiniteSetsExt, SequencesExt

CONSTANTS Count,       \* the number of components
          WithThread,  \* the components that start a delayed thread
          IfRunning,   \* those that interrupt it only if it is running
          MayFail,     \* the components whose Initialize or Invoke may fail
          FailsLate,   \* whether an Invoke may fail with the thread started
          MaxTimers,   \* bound: timers that are set
          MaxTime      \* bound: the latest time

DockerAssumption ==
    /\ Count \in Nat \ {0} /\ MaxTimers \in Nat /\ MaxTime \in Nat
    /\ WithThread \subseteq 1..Count /\ IfRunning \subseteq WithThread
    /\ MayFail \subseteq 1..Count /\ FailsLate \in BOOLEAN

Comps == 1..Count
Ids == 1..MaxTimers

VARIABLES main,       \* where the main thread is
          k,          \* the component it is at
          status,     \* per component, "attached", "initialized", "invoked", "deleted"
          fActived, fShutdown,
          thr,        \* per component, its thread: "none", "check", "wait", "run", "done"
          told,       \* the components whose thread was told to stop
          intr,       \* those whose thread was interrupted
          timerById,  \* mapTimerById: per timer, its component and time, or NoTimer
          byExpiry,   \* mapTimerByExpiry: the timers it holds
          now,
          tpc,        \* where the timer thread is
          until,      \* until when it sleeps, MaxTime + 1 for no limit
          work,       \* vWorkQueue of the timer thread
          call,       \* the callback it has taken, 0 for none
          notify,     \* a notify_all of condTimer is yet to come
          nextId,     \* nTimerIdAlloc
          cancelled,  \* history: timers CancelTimer has found and removed
          called,     \* history: timers whose callback was called
          late        \* history: callbacks that began after the shutdown

life == <<main, k, status, fActived, fShutdown, thr, told, intr>>
timers == <<timerById, byExpiry, notify, nextId, cancelled>>
timerThread == <<tpc, until, work, call, called, late>>
vars == <<life, timers, now, timerThread>>

NoTimer == [key |-> 0, at |-> 0]
Forever == MaxTime + 1

Init ==
    /\ main = "initialize" /\ k = 1
    /\ status = [c \in Comps |-> "attached"]
    /\ fActived = FALSE /\ fShutdown = FALSE
    /\ thr = [c \in Comps |-> "none"] /\ told = {} /\ intr = {}
    /\ timerById = [i \in Ids |-> NoTimer] /\ byExpiry = {}
    /\ now = 0 /\ nextId = 0 /\ notify = FALSE
    /\ tpc = "top" /\ until = 0 /\ work = <<>> /\ call = 0
    /\ cancelled = {} /\ called = {} /\ late = 0

----------------------------------------------------------------------------
(* The main thread: Run.                                                   *)

Initialize ==
    /\ main = "initialize" /\ k <= Count
    /\ status' = [status EXCEPT ![k] = "initialized"]
    /\ main' = IF k = Count THEN "invoke" ELSE main
    /\ k' = IF k = Count THEN 1 ELSE k + 1
    /\ UNCHANGED <<fActived, fShutdown, thr, told, intr, timers, now, timerThread>>

InitializeFails ==
    /\ main = "initialize" /\ k \in MayFail
    /\ main' = "halt" /\ k' = Count
    /\ UNCHANGED <<status, fActived, fShutdown, thr, told, intr, timers, now, timerThread>>

(* ThreadDelayStart in HandleInvoke.                                       *)
ThreadDelayStart(c) ==
    thr' = [thr EXCEPT ![c] = IF c \in WithThread THEN "check" ELSE "none"]

Invoke ==
    /\ main = "invoke"
    /\ status' = [status EXCEPT ![k] = "invoked"]
    /\ ThreadDelayStart(k)
    /\ main' = IF k = Count THEN "activate" ELSE main
    /\ k' = IF k = Count THEN 1 ELSE k + 1
    /\ UNCHANGED <<fActived, fShutdown, told, intr, timers, now, timerThread>>

(* A component whose Invoke failed stays initialized: it is not halted.    *)
InvokeFails ==
    /\ main = "invoke" /\ k \in MayFail
    /\ thr' = thr \/ (FailsLate /\ ThreadDelayStart(k))
    /\ main' = "halt" /\ k' = Count
    /\ UNCHANGED <<status, fActived, fShutdown, told, intr, timers, now, timerThread>>

Woken(t) == [c \in Comps |-> IF t[c] = "wait" THEN "check" ELSE t[c]]

(* The end of Run.                                                         *)
Activate ==
    /\ main = "activate"
    /\ fActived' = TRUE
    /\ thr' = Woken(thr)
    /\ main' = "active"
    /\ UNCHANGED <<k, status, fShutdown, told, intr, timers, now, timerThread>>

----------------------------------------------------------------------------
(* Exit, and Halt, which the failed Run calls as well.                     *)

(* The main program calls Exit when Run failed or the node is to stop.     *)
CallExit ==
    /\ main \in {"active", "failed"}
    /\ fShutdown' = TRUE
    /\ main' = "deactivate"
    /\ UNCHANGED <<k, status, fActived, thr, told, intr, timers, now, timerThread>>

Deactivate ==
    /\ main = "deactivate"
    /\ fActived' = FALSE
    /\ thr' = Woken(thr)
    /\ main' = "halt" /\ k' = Count
    /\ UNCHANGED <<status, fShutdown, told, intr, timers, now, timerThread>>

(* The threads interrupted when c is halted.                               *)
Interrupted(c) ==
    IF c \in WithThread /\ (c \in IfRunning => thr[c] = "run") THEN intr \cup {c} ELSE intr

(* HandleHalt of an invoked component up to the join of its thread.        *)
HandleHalt ==
    /\ main = "halt" /\ k > 0 /\ status[k] = "invoked"
    /\ told' = told \cup {k} /\ intr' = Interrupted(k)
    /\ main' = "join"
    /\ UNCHANGED <<k, status, fActived, fShutdown, thr, timers, now, timerThread>>

(* The join, and the rest of IBase::Halt.                                  *)
ThreadExit ==
    /\ main = "join" /\ thr[k] \in {"none", "done"}
    /\ status' = [status EXCEPT ![k] = "initialized"]
    /\ main' = "halt" /\ k' = k - 1
    /\ UNCHANGED <<fActived, fShutdown, thr, told, intr, timers, now, timerThread>>

SkipHalt ==
    /\ main = "halt" /\ k > 0 /\ status[k] # "invoked"
    /\ k' = k - 1
    /\ UNCHANGED <<main, status, fActived, fShutdown, thr, told, intr, timers, now, timerThread>>

(* All are halted: those that are initialized are deinitialized.           *)
Deinitialize ==
    /\ main = "halt" /\ k = 0
    /\ status' = [c \in Comps |-> IF status[c] = "initialized" THEN "attached" ELSE status[c]]
    /\ main' = "cancel" /\ k' = Count
    /\ UNCHANGED <<fActived, fShutdown, thr, told, intr, timers, now, timerThread>>

Before(i, j) ==
    \/ timerById[i].at < timerById[j].at
    \/ (timerById[i].at = timerById[j].at /\ i < j)
IsFirst(i) == \A j \in byExpiry \ {i} : Before(i, j)

(* CancelTimers(key): it looks for the timers of key in mapTimerByExpiry.  *)
CancelTimers ==
    /\ main = "cancel" /\ k > 0
    /\ LET mine == {i \in byExpiry : timerById[i].key = k}
       IN  /\ byExpiry' = byExpiry \ mine
           /\ timerById' = [i \in Ids |-> IF i \in mine THEN NoTimer ELSE timerById[i]]
           /\ notify' = (notify \/ \E i \in mine : IsFirst(i))
    /\ k' = k - 1
    /\ UNCHANGED <<main, status, fActived, fShutdown, thr, told, intr,
                   nextId, cancelled, now, timerThread>>

(* Run returns false, or Exit goes on.                                     *)
HaltReturns ==
    /\ main = "cancel" /\ k = 0
    /\ main' = IF fShutdown THEN "delete" ELSE "failed"
    /\ UNCHANGED <<k, status, fActived, fShutdown, thr, told, intr, timers, now, timerThread>>

Delete ==
    /\ main = "delete"
    /\ status' = [c \in Comps |-> "deleted"]
    /\ main' = "stop"
    /\ UNCHANGED <<k, fActived, fShutdown, thr, told, intr, timers, now, timerThread>>

(* The timer thread is notified, under mtxTimer, and then joined.          *)
StopTimer ==
    /\ main = "stop"
    /\ tpc' = IF tpc = "sleep" THEN "top" ELSE tpc
    /\ main' = "stopping"
    /\ UNCHANGED <<k, status, fActived, fShutdown, thr, told, intr, timers, now,
                   until, work, call, called, late>>

JoinTimer ==
    /\ main = "stopping" /\ tpc = "end"
    /\ main' = "exited"
    /\ UNCHANGED <<k, status, fActived, fShutdown, thr, told, intr, timers, now, timerThread>>

----------------------------------------------------------------------------
(* The delayed threads.                                                    *)

(* ThreadDelayRun: one turn of the loop around the wait.                   *)
ThreadDelayRun(c) ==
    /\ thr[c] = "check"
    /\ thr' = [thr EXCEPT ![c] = IF ~fActived /\ ~fShutdown THEN "wait"
                                 ELSE IF fShutdown THEN "done" ELSE "run"]
    /\ UNCHANGED <<main, k, status, fActived, fShutdown, told, intr, timers, now, timerThread>>

(* An interruption ends the wait, also one that came before it.            *)
WaitInterrupted(c) ==
    /\ thr[c] = "wait" /\ c \in intr
    /\ thr' = [thr EXCEPT ![c] = "done"]
    /\ UNCHANGED <<main, k, status, fActived, fShutdown, told, intr, timers, now, timerThread>>

(* The function of the thread returns once the component told it to.       *)
ThreadEnds(c) ==
    /\ thr[c] = "run" /\ c \in told
    /\ thr' = [thr EXCEPT ![c] = "done"]
    /\ UNCHANGED <<main, k, status, fActived, fShutdown, told, intr, timers, now, timerThread>>

----------------------------------------------------------------------------
(* Timers.  Any thread of an invoked component sets and cancels them.      *)

SetTimer(c, at) ==
    /\ status[c] = "invoked" /\ nextId < MaxTimers /\ at >= now
    /\ nextId' = nextId + 1
    /\ timerById' = [timerById EXCEPT ![nextId'] = [key |-> c, at |-> at]]
    /\ byExpiry' = byExpiry \cup {nextId'}
    /\ notify' = (notify \/ \A j \in byExpiry : at < timerById[j].at)
    /\ UNCHANGED <<life, cancelled, now, timerThread>>

CancelTimer(i) ==
    /\ timerById[i] # NoTimer /\ status[timerById[i].key] = "invoked"
    /\ timerById' = [timerById EXCEPT ![i] = NoTimer]
    /\ byExpiry' = byExpiry \ {i}
    /\ notify' = (notify \/ (i \in byExpiry /\ IsFirst(i)))
    /\ cancelled' = cancelled \cup {i}
    /\ UNCHANGED <<life, nextId, now, timerThread>>

(* The notify_all that follows, outside the mutex.                         *)
NotifyTimer ==
    /\ notify
    /\ notify' = FALSE
    /\ tpc' = IF tpc = "sleep" THEN "top" ELSE tpc
    /\ UNCHANGED <<life, timerById, byExpiry, nextId, cancelled, now,
                   until, work, call, called, late>>

Tick ==
    /\ now < MaxTime
    /\ now' = now + 1
    /\ UNCHANGED <<life, timers, timerThread>>

----------------------------------------------------------------------------
(* TimerProc.                                                              *)

DueIds == {i \in byExpiry : timerById[i].at <= now}

(* The critical section at the top of the loop.                            *)
TimerProc ==
    /\ tpc = "top"
    /\ \/ /\ fShutdown
          /\ tpc' = "end"
          /\ UNCHANGED <<until, work, byExpiry>>
       \/ /\ ~fShutdown /\ DueIds = {}
          /\ tpc' = "sleep"
          /\ until' = Min({timerById[i].at : i \in byExpiry} \cup {Forever})
          /\ UNCHANGED <<work, byExpiry>>
       \/ /\ ~fShutdown /\ DueIds # {}
          /\ tpc' = "work"
          /\ work' = SetToSortSeq(DueIds, Before)
          /\ byExpiry' = byExpiry \ DueIds
          /\ UNCHANGED until
    /\ UNCHANGED <<life, timerById, notify, nextId, cancelled, now, call, called, late>>

SleepEnds ==
    /\ tpc = "sleep" /\ now >= until
    /\ tpc' = "top"
    /\ UNCHANGED <<life, timers, now, until, work, call, called, late>>

TakeTimer_NoLookup ==
    /\ tpc = "work" /\ work # <<>> /\ ~fShutdown
    /\ tpc' = "call" /\ call' = Head(work)
    /\ work' = Tail(work)
    /\ timerById' = [timerById EXCEPT ![Head(work)] = NoTimer]
    /\ UNCHANGED <<life, byExpiry, notify, nextId, cancelled, now, until, called, late>>

(* One turn of the loop over vWorkQueue up to the call.                    *)
TakeTimer ==
    /\ tpc = "work" /\ work # <<>> /\ ~fShutdown
    /\ LET i == Head(work)
           found == timerById[i] # NoTimer
       IN  /\ tpc' = IF found THEN "call" ELSE tpc
           /\ call' = IF found THEN i ELSE 0
           /\ timerById' = [timerById EXCEPT ![i] = NoTimer]
    /\ work' = Tail(work)
    /\ UNCHANGED <<life, byExpiry, notify, nextId, cancelled, now, until, called, late>>

(* The loop ends: the queue is done, or the node shuts down.               *)
WorkDone ==
    /\ tpc = "work" /\ (work = <<>> \/ fShutdown)
    /\ tpc' = "top" /\ work' = <<>>
    /\ UNCHANGED <<life, timers, now, until, call, called, late>>

CallBegins ==
    /\ tpc = "call"
    /\ tpc' = "called"
    /\ called' = called \cup {call}
    /\ late' = IF fShutdown THEN late + 1 ELSE late
    /\ UNCHANGED <<life, timers, now, until, work, call>>

CallEnds ==
    /\ tpc = "called"
    /\ tpc' = "work" /\ call' = 0
    /\ UNCHANGED <<life, timers, now, until, work, called, late>>

Main ==
    \/ Initialize \/ InitializeFails \/ Invoke \/ InvokeFails \/ Activate
    \/ CallExit \/ Deactivate \/ HandleHalt \/ ThreadExit \/ SkipHalt
    \/ Deinitialize \/ CancelTimers \/ HaltReturns \/ Delete
    \/ StopTimer \/ JoinTimer

TimerThread ==
    TimerProc \/ SleepEnds \/ TakeTimer \/ WorkDone \/ CallBegins \/ CallEnds

Next ==
    \/ Main
    \/ TimerThread
    \/ \E c \in Comps : ThreadDelayRun(c) \/ WaitInterrupted(c) \/ ThreadEnds(c)
    \/ \E c \in Comps, at \in 0..MaxTime : SetTimer(c, at)
    \/ \E i \in Ids : CancelTimer(i)
    \/ NotifyTimer \/ Tick

(* Threads that can run do run and time goes on; a callback returns, a     *)
(* thread that was told to stop stops.  Nobody has to stop an active node. *)
Fairness ==
    /\ WF_vars(Main /\ main # "active")
    /\ WF_vars(TimerThread)
    /\ WF_vars(NotifyTimer) /\ WF_vars(Tick)
    /\ \A c \in Comps :
           WF_vars(ThreadDelayRun(c) \/ WaitInterrupted(c) \/ ThreadEnds(c))

Spec == Init /\ [][Next]_vars /\ Fairness


----------------------------------------------------------------------------
(* The only join that can wait for ever is that of a thread that still     *)
(* waits for the activation, after a start that failed, in a component     *)
(* that interrupts its thread only if it is running.                       *)
StatWaits ==
    /\ main = "join" /\ k \in IfRunning
    /\ thr[k] = "wait" /\ ~fActived /\ ~fShutdown

(* A node that starts becomes active or ends, and a node that stops ends:  *)
(* no join in Halt or Exit waits for ever, unless StatWaits.               *)
Ends == (main # "active") ~> (main \in {"active", "exited"} \/ StatWaits)

(* A timer that CancelTimer still found is never called, not even if the   *)
(* timer thread had already taken it as due.                               *)
CancelHolds == cancelled \cap called = {}
=============================================================================
