----------------------------- MODULE EventQueue -----------------------------
(***************************************************************************)
(* The event loop of a component: the queue CEventQueue and the threads    *)
(* CEventProc starts on it when the component is invoked and joins when it *)
(* is halted.                                                              *)
(*                                                                         *)
(* The mutex of the queue makes each of its critical sections one step.    *)
(* What happens outside it is a step of its own: the notify that follows a *)
(* push, the notify that follows an abort, the handling of an event.  The  *)
(* condition variable is the set of the threads blocked on it; a blocked   *)
(* thread may also wake up without a notification.                         *)
(***************************************************************************)
EXTENDS Naturals, FiniteSets, Sequences, Functions

CONSTANTS Threads,     \* the event threads (vEventThread)
          MaxEvents,   \* bound: events that are posted
          MayRefuse    \* whether a handler may return false

ASSUME EventQueueAssumption ==
    Threads # {} /\ MaxEvents \in Nat /\ MayRefuse \in BOOLEAN

VARIABLES phase,    \* of the component: "new", "running", "aborted", "joining", "halted", "gone"
          que,      \* que: events, numbered in the order they were posted
          fAbort,   \* fAbort
          posted,   \* the number of events posted so far
          notifies, \* pushes whose notify_one is yet to come
          thr,      \* per thread: "none", "fetch", "wait", "handle", "done"
          hand,     \* per thread, the event it handles, 0 for none
          freed,    \* history: how often an event was freed, counted to 2
          begun     \* history: the events whose handling began, in order

vars == <<phase, que, fAbort, posted, notifies, thr, hand, freed, begun>>

Events == 1..MaxEvents

Free(f, E) == [e \in Events |-> IF e \in E /\ f[e] < 2 THEN f[e] + 1 ELSE f[e]]

Init ==
    /\ phase = "new"
    /\ que = <<>> /\ fAbort = FALSE
    /\ posted = 0 /\ notifies = 0
    /\ thr = [t \in Threads |-> "none"]
    /\ hand = [t \in Threads |-> 0]
    /\ freed = [e \in Events |-> 0]
    /\ begun = <<>>

----------------------------------------------------------------------------
(* The component.                                                          *)

(* HandleInvoke: the queue is emptied, then every thread is started.       *)
HandleInvoke ==
    /\ phase = "new"
    /\ phase' = "running"
    /\ que' = <<>> /\ fAbort' = FALSE
    /\ freed' = Free(freed, Range(que))
    /\ thr' = [t \in Threads |-> "fetch"]
    /\ UNCHANGED <<posted, notifies, hand, begun>>

Interrupt_Frees ==
    /\ phase = "running"
    /\ phase' = "aborted"
    /\ fAbort' = TRUE
    /\ freed' = Free(freed, Range(que))
    /\ UNCHANGED <<que, posted, notifies, thr, hand, begun>>

(* Interrupt, the part under the mutex.                                    *)
Interrupt ==
    /\ phase = "running"
    /\ phase' = "aborted"
    /\ que' = <<>> /\ fAbort' = TRUE
    /\ freed' = Free(freed, Range(que))
    /\ UNCHANGED <<posted, notifies, thr, hand, begun>>

(* Interrupt's notify_all.                                                 *)
InterruptNotify ==
    /\ phase = "aborted"
    /\ phase' = "joining"
    /\ thr' = [t \in Threads |-> IF thr[t] = "wait" THEN "fetch" ELSE thr[t]]
    /\ UNCHANGED <<que, fAbort, posted, notifies, hand, freed, begun>>

(* HandleHalt returns when ThreadExit has joined every thread.             *)
Joined ==
    /\ phase = "joining"
    /\ \A t \in Threads : thr[t] = "done"
    /\ phase' = "halted"
    /\ UNCHANGED <<que, fAbort, posted, notifies, thr, hand, freed, begun>>

(* The destructor of the queue: Reset.  No call of AddNew is under way.    *)
Destroy ==
    /\ phase = "halted" /\ notifies = 0
    /\ phase' = "gone"
    /\ que' = <<>> /\ fAbort' = FALSE
    /\ freed' = Free(freed, Range(que))
    /\ UNCHANGED <<posted, notifies, thr, hand, begun>>

----------------------------------------------------------------------------
(* Those that post.  They may do so before the component is invoked and    *)
(* after it was halted, as long as it exists.                              *)

(* AddNew, the part under the mutex.                                       *)
PostEvent ==
    /\ phase # "gone" /\ posted < MaxEvents
    /\ posted' = posted + 1
    /\ que' = Append(que, posted')
    /\ notifies' = notifies + 1
    /\ UNCHANGED <<phase, fAbort, thr, hand, freed, begun>>

PostNotify_WhenFirst ==
    /\ notifies > 0
    /\ notifies' = notifies - 1
    /\ \/ /\ Len(que) = 1
          /\ \E t \in Threads : thr[t] = "wait" /\ thr' = [thr EXCEPT ![t] = "fetch"]
       \/ (Len(que) # 1 \/ \A t \in Threads : thr[t] # "wait") /\ thr' = thr
    /\ UNCHANGED <<phase, que, fAbort, posted, hand, freed, begun>>

(* AddNew's notify_one: any blocked thread, none if none is blocked.       *)
PostNotify ==
    /\ notifies > 0
    /\ notifies' = notifies - 1
    /\ \/ \E t \in Threads : thr[t] = "wait" /\ thr' = [thr EXCEPT ![t] = "fetch"]
       \/ (\A t \in Threads : thr[t] # "wait") /\ thr' = thr
    /\ UNCHANGED <<phase, que, fAbort, posted, hand, freed, begun>>

----------------------------------------------------------------------------
(* The threads.                                                            *)

Fetch_Newest(t) ==
    /\ thr[t] = "fetch"
    /\ \/ /\ que = <<>> /\ ~fAbort
          /\ thr' = [thr EXCEPT ![t] = "wait"]
          /\ UNCHANGED <<que, hand, begun>>
       \/ /\ que # <<>> /\ ~fAbort
          /\ thr' = [thr EXCEPT ![t] = "handle"]
          /\ hand' = [hand EXCEPT ![t] = que[Len(que)]]
          /\ begun' = Append(begun, que[Len(que)])
          /\ que' = SubSeq(que, 1, Len(que) - 1)
       \/ /\ fAbort
          /\ thr' = [thr EXCEPT ![t] = "done"]
          /\ UNCHANGED <<que, hand, begun>>
    /\ UNCHANGED <<phase, fAbort, posted, notifies, freed>>

(* Fetch: one turn of the loop around the wait.  An abort makes it return  *)
(* nothing, which ends the thread.                                         *)
Fetch(t) ==
    /\ thr[t] = "fetch"
    /\ \/ /\ que = <<>> /\ ~fAbort
          /\ thr' = [thr EXCEPT ![t] = "wait"]
          /\ UNCHANGED <<que, hand, begun>>
       \/ /\ que # <<>> /\ ~fAbort
          /\ thr' = [thr EXCEPT ![t] = "handle"]
          /\ hand' = [hand EXCEPT ![t] = Head(que)]
          /\ begun' = Append(begun, Head(que))
          /\ que' = Tail(que)
       \/ /\ fAbort
          /\ thr' = [thr EXCEPT ![t] = "done"]
          /\ UNCHANGED <<que, hand, begun>>
    /\ UNCHANGED <<phase, fAbort, posted, notifies, freed>>

(* A wait may end without a notification.                                  *)
Wake(t) ==
    /\ thr[t] = "wait"
    /\ thr' = [thr EXCEPT ![t] = "fetch"]
    /\ UNCHANGED <<phase, que, fAbort, posted, notifies, hand, freed, begun>>

(* The handler returned true: the event is freed.                          *)
Handled(t) ==
    /\ thr[t] = "handle"
    /\ thr' = [thr EXCEPT ![t] = "fetch"]
    /\ hand' = [hand EXCEPT ![t] = 0]
    /\ freed' = Free(freed, {hand[t]})
    /\ UNCHANGED <<phase, que, fAbort, posted, notifies, begun>>

(* The handler returned false: the queue is reset, the abort flag with it. *)
Refused(t) ==
    /\ MayRefuse
    /\ thr[t] = "handle"
    /\ que' = <<>> /\ fAbort' = FALSE
    /\ thr' = [thr EXCEPT ![t] = "fetch"]
    /\ hand' = [hand EXCEPT ![t] = 0]
    /\ freed' = Free(freed, Range(que) \cup {hand[t]})
    /\ UNCHANGED <<phase, posted, notifies, begun>>

Next ==
    \/ HandleInvoke \/ Interrupt \/ InterruptNotify \/ Joined \/ Destroy
    \/ PostEvent \/ PostNotify
    \/ \E t \in Threads : Fetch(t) \/ Wake(t) \/ Handled(t) \/ Refused(t)

(* Threads that can run do run, a handler returns, and whoever has begun   *)
(* to post or to halt goes on.  Nobody has to invoke, halt or post, no     *)
(* wait has to end by itself, and no handler has to refuse.                *)
Fairness ==
    /\ \A t \in Threads : WF_vars(Fetch(t)) /\ WF_vars(Handled(t))
    /\ WF_vars(PostNotify)
    /\ WF_vars(InterruptNotify) /\ WF_vars(Joined) /\ WF_vars(Destroy)

Spec == Init /\ [][Next]_vars /\ Fairness

----------------------------------------------------------------------------
(* Every event that was posted is at exactly one place: in the queue, in   *)
(* the hands of one thread, or freed, and that once.  Events are raw       *)
(* pointers that four pieces of code free: the loop, Reset, Interrupt and  *)
(* the destructor.                                                         *)
OnePlace ==
    \A e \in 1..posted :
        freed[e] + Cardinality({i \in DOMAIN que : que[i] = e})
                 + Cardinality({t \in Threads : hand[t] = e}) = 1

(* However many threads there are and whatever is dropped in between, the  *)
(* handling of events begins in the order in which they were posted.       *)
InOrder == \A i, j \in DOMAIN begun : i < j => begun[i] < begun[j]

(* While the component runs, an event in the queue is handled, or dropped   *)
(* with the queue when a handler refuses, unless the component is halted:   *)
(* no notify_one is lost between a push and a thread that is about to wait. *)
Serves ==
    \A e \in Events :
        (phase = "running" /\ e \in Range(que))
            ~> (e \in Range(begun) \/ freed[e] > 0 \/ phase # "running")
=============================================================================
