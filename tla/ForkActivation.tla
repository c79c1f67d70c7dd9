--------------------------- MODULE ForkActivation ---------------------------
(***************************************************************************)
(* The forks a node follows: CForkManager decides which are allowed and    *)
(* which a new block starts or ends, CDispatcher stores their origins and  *)
(* subscribes the channels to them, and a timer of CNetChannel compares    *)
(* its subscriptions with the chain.  Each of the threads that add blocks  *)
(* goes through these steps by itself; the chain may be reorganised, and a *)
(* fork's creating transaction with it, between any two of them.           *)
(***************************************************************************)
EXTENDS Integers, Sequences, FiniteSets, FiniteSetsExt, SequencesExt

CONSTANTS
    Blocks, Genesis, Prev,      \* the primary chain's tree
    Forks,                      \* the sub forks
    Creates,                    \* block -> forks its transactions create
    Joint, RefBlock,            \* fork -> the block before its origin; the one with the origin's time
    fAllowAnyFork, setForkAllowed, setGroupAllowed, setForkExcluded,
    Threads, MaxRestarts

ASSUME ForkAssumption ==
    /\ \A b \in Blocks : Prev[b] \in Blocks \union {Genesis} /\ Creates[b] \subseteq Forks
    /\ Genesis \notin Blocks
    /\ \A f \in Forks : Prev[RefBlock[f]] = Joint[f]
    /\ MaxRestarts \in Nat

VARIABLES
    stored, last,               \* CBlockChain: primary blocks, the last of them
    origins,                    \* forks whose origin is stored
    setCurActiveFork,
    thread,                     \* thread -> [stage, add, vActive, vDeactive]
    mapSched,                   \* forks CNetChannel has a schedule for
    channels,                   \* forks the other channels are subscribed to
    timer,                      \* ForkUpdateTimerFunc: [stage, valid, unsub, sub]
    nRestarts

chainVars == <<stored, last>>
vars == <<chainVars, origins, setCurActiveFork, thread, mapSched, channels, timer, nRestarts>>

IdleThread == [stage |-> "idle", add |-> <<>>, vActive |-> <<>>, vDeactive |-> {}]
IdleTimer == [stage |-> "idle", valid |-> {}, unsub |-> {}, sub |-> {}]

-----------------------------------------------------------------------------
(* CBlockChain.                                                            *)

Branch[b \in Blocks \union {Genesis}] == IF b = Genesis THEN <<>> ELSE Append(Branch[Prev[b]], b)

OnChain(b) == b = Genesis \/ b \in Range(Branch[last])

\* ListForkContext: the forks that the primary chain has created.
ForkContexts == {f \in Forks : \E b \in Range(Branch[last]) : f \in Creates[b]}

\* AddNewOrigin: the primary block of the origin's height has to have its time.
CanAddOrigin(f) == OnChain(RefBlock[f])

-----------------------------------------------------------------------------
(* CForkManager.                                                           *)

\* IsAllowedFork; every fork's parent is the genesis fork.
IsAllowedFork(f) ==
    /\ f \notin setForkExcluded
    /\ \/ fAllowAnyFork
       \/ f \in setForkAllowed \union setGroupAllowed
       \/ f \in ForkContexts /\ Genesis \in setGroupAllowed

\* The forks whose joint is b.
JoinedAt(b) == {f \in ForkContexts : Joint[f] = b /\ IsAllowedFork(f)}
CreatedBy(b) == {f \in Creates[b] \intersect ForkContexts : IsAllowedFork(f)}

\* vActive, the blocks from the last to the first.
Started(add) ==
    LET ByBlock(Set(_)) == FlattenSeq([i \in DOMAIN add |-> SetToSeq(Set(Reverse(add)[i]))])
    IN (IF ForkContexts = {} THEN <<>> ELSE ByBlock(JoinedAt)) \o ByBlock(CreatedBy)

\* ForkUpdate, of an update of the primary chain.
ForkUpdate(th) ==
    /\ thread[th].stage = "update"
    /\ thread' = [thread EXCEPT ![th] = [IdleThread EXCEPT !.stage = "activate",
                                                           !.vActive = Started(thread[th].add),
                                                           !.vDeactive = setCurActiveFork \ ForkContexts]]
    /\ setCurActiveFork' = (setCurActiveFork \intersect ForkContexts)
                               \union {f \in ForkContexts : IsAllowedFork(f)}
    /\ UNCHANGED <<chainVars, origins, mapSched, channels, timer, nRestarts>>

-----------------------------------------------------------------------------
(* CNetChannel.                                                            *)

\* SubscribeFork: not without a last block of the fork.
Subscribed(sched, f) == IF f \in origins THEN sched \union {f} ELSE sched

UnsubscribeFork(sched, f) == sched \ {f}

-----------------------------------------------------------------------------
(* CDispatcher.                                                            *)

\* AddNewBlock up to the call of ForkUpdate.  The longest chain wins.
AddNewBlock(th, b) ==
    /\ thread[th].stage = "idle"
    /\ b \notin stored /\ Prev[b] \in stored
    /\ stored' = stored \union {b}
    /\ IF Len(Branch[b]) > Len(Branch[last])
         THEN /\ last' = b
              /\ thread' = [thread EXCEPT ![th] = [IdleThread EXCEPT !.stage = "update",
                                !.add = SelectSeq(Branch[b], LAMBDA c : ~OnChain(c))]]
         ELSE UNCHANGED <<last, thread>>
    /\ UNCHANGED <<origins, setCurActiveFork, mapSched, channels, timer, nRestarts>>

\* The first part of ActivateFork: store the origin, or give up.
Activatable(f) == f \in origins \/ (f \in ForkContexts /\ OnChain(Joint[f]) /\ CanAddOrigin(f))

ActivateFork(th) ==
    /\ thread[th].stage = "activate" /\ thread[th].vActive # <<>>
    /\ LET f == Head(thread[th].vActive)
       IN IF Activatable(f)
            THEN /\ origins' = origins \union {f}
                 /\ thread' = [thread EXCEPT ![th].stage = "subscribe"]
            ELSE /\ thread' = [thread EXCEPT ![th].vActive = Tail(@)]
                 /\ UNCHANGED origins
    /\ UNCHANGED <<chainVars, setCurActiveFork, mapSched, channels, timer, nRestarts>>

\* The second part: all channels subscribe.
Subscribe(th) ==
    /\ thread[th].stage = "subscribe"
    /\ LET f == Head(thread[th].vActive)
       IN /\ mapSched' = Subscribed(mapSched, f)
          /\ channels' = channels \union {f}
    /\ thread' = [thread EXCEPT ![th].stage = "activate", ![th].vActive = Tail(@)]
    /\ UNCHANGED <<chainVars, origins, setCurActiveFork, timer, nRestarts>>

\* The vDeactive loop of AddNewBlock, one fork at a time.
Deactivate(th) ==
    /\ thread[th].stage = "activate" /\ thread[th].vActive = <<>>
    /\ \/ \E f \in thread[th].vDeactive :
              /\ mapSched' = UnsubscribeFork(mapSched, f)
              /\ thread' = [thread EXCEPT ![th].vDeactive = @ \ {f}]
       \/ /\ thread[th].vDeactive = {}
          /\ thread' = [thread EXCEPT ![th] = IdleThread]
          /\ UNCHANGED mapSched
    /\ UNCHANGED <<chainVars, origins, setCurActiveFork, channels, timer, nRestarts>>

-----------------------------------------------------------------------------
(* ForkUpdateTimerFunc lists the forks of the chain; UpdateValidFork       *)
(* compares them with mapSched under mtxSched and then, without the lock,  *)
(* goes through the differences.                                           *)

TimerList ==
    /\ timer.stage = "idle"
    /\ timer' = [IdleTimer EXCEPT !.stage = "listed", !.valid = ForkContexts]
    /\ UNCHANGED <<chainVars, origins, setCurActiveFork, thread, mapSched, channels, nRestarts>>

ToSubscribe(valid) == valid \ mapSched

ToUnsubscribe_None(valid) == {}
ToUnsubscribe(valid) == mapSched \ valid

\* The genesis fork is always in the list, so it is never empty.
TimerCompare ==
    /\ timer.stage = "listed"
    /\ timer' = [IdleTimer EXCEPT !.stage = "apply",
                                  !.unsub = ToUnsubscribe(timer.valid), !.sub = ToSubscribe(timer.valid)]
    /\ UNCHANGED <<chainVars, origins, setCurActiveFork, thread, mapSched, channels, nRestarts>>

TimerApply ==
    /\ timer.stage = "apply"
    /\ \/ \E f \in timer.unsub :
              /\ mapSched' = UnsubscribeFork(mapSched, f)
              /\ timer' = [timer EXCEPT !.unsub = @ \ {f}]
       \/ /\ timer.unsub = {}
          /\ \E f \in timer.sub :
                /\ mapSched' = Subscribed(mapSched, f)
                /\ timer' = [timer EXCEPT !.sub = @ \ {f}]
       \/ /\ timer.unsub \union timer.sub = {}
          /\ timer' = IdleTimer
          /\ UNCHANGED mapSched
    /\ UNCHANGED <<chainVars, origins, setCurActiveFork, thread, channels, nRestarts>>

\* A stop or crash at any point, and the next start's HandleInvoke: GetActiveFork, then
\* ActivateFork for each.
Restart ==
    /\ nRestarts < MaxRestarts
    /\ nRestarts' = nRestarts + 1
    /\ setCurActiveFork' = {f \in ForkContexts : IsAllowedFork(f)}
    /\ mapSched' = {} /\ channels' = {} /\ timer' = IdleTimer
    /\ \E main \in Threads :
          thread' = [th \in Threads |->
                        IF th = main
                          THEN [IdleThread EXCEPT !.stage = "activate",
                                                  !.vActive = SetToSeq({f \in ForkContexts : IsAllowedFork(f)})]
                          ELSE IdleThread]
    /\ UNCHANGED <<chainVars, origins>>

-----------------------------------------------------------------------------
Init ==
    /\ stored = {Genesis} /\ last = Genesis
    /\ origins = {} /\ setCurActiveFork = {}
    /\ thread = [th \in Threads |-> IdleThread]
    /\ mapSched = {} /\ channels = {}
    /\ timer = IdleTimer
    /\ nRestarts = 0

Step(th) == ForkUpdate(th) \/ ActivateFork(th) \/ Subscribe(th) \/ Deactivate(th)
TimerStep == TimerList \/ TimerCompare \/ TimerApply

Next ==
    \/ \E th \in Threads : \/ \E b \in Blocks : AddNewBlock(th, b)
                           \/ ForkUpdate(th) \/ ActivateFork(th) \/ Subscribe(th) \/ Deactivate(th)
    \/ TimerList \/ TimerCompare \/ TimerApply
    \/ Restart

\* A thread that has added a block goes on; the timer sets itself again every time.
Fairness == WF_vars(TimerStep) /\ \A th \in Threads : WF_vars(Step(th))

Spec == Init /\ [][Next]_vars /\ Fairness

-----------------------------------------------------------------------------
(* Properties.                                                             *)

\* Each fork the node may follow is in the end followed by all channels if it is on the
\* chain to stay, and CNetChannel follows no other: whatever reorganisations came between
\* the listing of forks and their use in the threads and the timer.
FollowsChain ==
    /\ \A f \in Forks : <>[](f \in ForkContexts /\ IsAllowedFork(f)) => <>[](f \in mapSched /\ f \in channels)
    /\ \A f \in Forks : <>[](f \notin ForkContexts) => <>[](f \notin mapSched)
=============================================================================
