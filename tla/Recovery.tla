------------------------------ MODULE Recovery ------------------------------
(***************************************************************************)
(* CRecovery: the blocks of another node's block files are added to the    *)
(* chain again.  The files hold the blocks of all forks in the order in    *)
(* which that node stored them.  With fSyncForkHeight the blocks wait in a *)
(* queue per fork, so that no fork gets far ahead of the others.           *)
(*                                                                         *)
(* Each fork is one chain: a block is its fork and height.  The origin of  *)
(* a sub fork follows the primary block at its joint height; a later block *)
(* names a primary block, its reference, of its own height or (a vacant    *)
(* block that was filled in) of a greater one.                             *)
(***************************************************************************)
EXTENDS Integers, Sequences, FiniteSets, FiniteSetsExt, SequencesExt

CONSTANTS
    Primary,
    ForkOrder,                  \* all forks by chain id
    Joint, Top,                 \* fork -> joint height (of sub forks); greatest height in the files
    RefHeight,                  \* sub fork -> height -> height of the reference
    ForkDelay,                  \* MIN_CREATE_FORK_INTERVAL_HEIGHT
    KeepHeight                  \* the 10 heights below the last that are tried again

Forks == Range(ForkOrder)
SubForks == Forks \ {Primary}

Block(f, h) == [fork |-> f, height |-> h]
Genesis == Block(Primary, 0)
IsOrigin(b) == b.fork # Primary /\ b.height = Joint[b.fork] + 1

Blocks ==
    {Block(Primary, h) : h \in 1 .. Top[Primary]}
        \union UNION {{Block(f, h) : h \in Joint[f] + 1 .. Top[f]} : f \in SubForks}

Prev(b) == IF IsOrigin(b) THEN Block(Primary, Joint[b.fork]) ELSE Block(b.fork, b.height - 1)
Ref(b) == Block(Primary, RefHeight[b.fork][b.height])
PrimaryAt(h) == Block(Primary, h)

RecoveryAssumption ==
    /\ \A f \in SubForks : \A h \in Joint[f] + 2 .. Top[f] : Ref(Block(f, h)) \in Blocks /\ RefHeight[f][h] >= h
    /\ KeepHeight \in Nat /\ ForkDelay \in Nat

VARIABLES
    fSyncForkHeight,
    chain,                      \* the blocks that are stored
    walked,                     \* the blocks of the files that have been visited
    mapForkLastHeight,          \* as it was at the start
    nPrimaryMinHeight,
    mapForkBlockQueue,          \* fork -> blocks
    result                      \* "walking", or WalkThrough's return value

vars == <<fSyncForkHeight, chain, walked, mapForkLastHeight, nPrimaryMinHeight, mapForkBlockQueue, result>>

\* What has to be stored before a block can be: see AddNewBlock.  A sub fork is created
\* by a transaction some blocks after its joint.
StoredBefore(b) ==
    {Prev(b)} \union
    CASE b.fork = Primary -> {}
      [] IsOrigin(b) -> {PrimaryAt(b.height), PrimaryAt(Joint[b.fork] + ForkDelay)}
      [] OTHER -> {Ref(b)}

Closed(bs) == \A b \in bs : StoredBefore(b) \subseteq bs \union {Genesis}

LastHeight(bs, f) == Max({b.height : b \in {x \in bs : x.fork = f}})
StoredForks(bs) == {b.fork : b \in bs}

\* CBlockBase::GetAllForkMinLastHeight
GetAllForkMinLastBlockHeight(bs) == Min({LastHeight(bs, f) : f \in StoredForks(bs)})

\* CDispatcher::AddNewBlock without the check of the heights, which its caller here does
\* not ask for.  An origin looks up the primary block of its own height.
AddNewBlock(bs, b) ==
    IF Prev(b) \notin bs THEN "missing_prev"
    ELSE IF b \in bs THEN "already_have"
    ELSE IF IsOrigin(b) /\ PrimaryAt(b.height) \notin bs THEN "storage_error"
    ELSE IF b.fork # Primary /\ ~ IsOrigin(b) /\ Ref(b) \notin bs THEN "proof_invalid"
    ELSE "ok"

GetForkLastHeight(bs) ==
    [f \in StoredForks(bs) |-> IF LastHeight(bs, f) <= KeepHeight THEN 0 ELSE LastHeight(bs, f) - KeepHeight]

\* The node may have a part of the chain already.
Init ==
    /\ fSyncForkHeight \in BOOLEAN
    /\ \E bs \in SUBSET Blocks : Closed(bs) /\ chain = bs \union {Genesis}
    /\ walked = {}
    /\ mapForkLastHeight = GetForkLastHeight(chain)
    /\ nPrimaryMinHeight = 0
    /\ mapForkBlockQueue = [f \in Forks |-> <<>>]
    /\ result = "walking"

-------------------------------------------------------------------------------
(* AddRecoveryBlock, on a record of what it changes                        *)

Pop(s, f) == [s EXCEPT !.queue[f] = Tail(@), !.count = @ + 1]

Add(s, f) ==
    LET b == Head(s.queue[f]) err == AddNewBlock(s.chain, b) IN
    CASE err = "ok" -> [Pop(s, f) EXCEPT !.chain = @ \union {b}]
      [] err = "already_have" -> Pop(s, f)
      [] OTHER -> [s EXCEPT !.failed = TRUE]

nAddHeight == 1

\* Fault: the reference of a block of a sub fork is not looked for.
TryFork_NoRef(s, f) ==
    IF s.failed \/ s.queue[f] = <<>> THEN s
    ELSE LET b == Head(s.queue[f]) IN
         IF b.fork = Primary \/ IsOrigin(b)
         THEN IF b.height > s.primaryMin + nAddHeight \/ (IsOrigin(b) /\ Prev(b) \notin s.chain)
              THEN s ELSE Add(s, f)
         ELSE IF b.height > s.min + nAddHeight THEN s ELSE Add(s, f)

\* The first block of one queue: it waits, or is added.  A reference that is missing lets
\* the primary fork go on to it.
TryFork(s, f) ==
    IF s.failed \/ s.queue[f] = <<>> THEN s
    ELSE LET b == Head(s.queue[f]) IN
         IF b.fork = Primary \/ IsOrigin(b)
         THEN IF b.height > s.primaryMin + nAddHeight \/ (IsOrigin(b) /\ Prev(b) \notin s.chain)
              THEN s ELSE Add(s, f)
         ELSE IF b.height > s.min + nAddHeight THEN s
         ELSE IF Ref(b) \notin s.chain THEN [s EXCEPT !.primaryMin = Max({@, Ref(b).height})]
         ELSE Add(s, f)

\* All queues in the order of the map; again as long as a block was added.
RECURSIVE TryForks(_)
TryForks(s) ==
    LET min == GetAllForkMinLastBlockHeight(s.chain)
        start == [s EXCEPT !.count = 0, !.min = min,
                           !.primaryMin = IF @ = 0 \/ min > @ THEN min ELSE @]
        end == FoldLeft(TryFork, start, ForkOrder)
    IN  IF end.count > 0 /\ ~ end.failed THEN TryForks(end) ELSE end

AddRecoveryBlock(b) ==
    LET s == TryForks([chain |-> chain, queue |-> [mapForkBlockQueue EXCEPT ![b.fork] = Append(@, b)],
                       primaryMin |-> nPrimaryMinHeight, min |-> 0, count |-> 0, failed |-> FALSE])
    IN  /\ chain' = s.chain /\ mapForkBlockQueue' = s.queue /\ nPrimaryMinHeight' = s.primaryMin
        /\ result' = IF s.failed THEN "fail" ELSE result

-------------------------------------------------------------------------------
Skipped(b) == b.fork \in DOMAIN mapForkLastHeight /\ b.height < mapForkLastHeight[b.fork]

\* CRecoveryWalker::Walk
Walk(b) ==
    /\ result = "walking"
    /\ b \notin walked /\ StoredBefore(b) \subseteq walked \union {Genesis}
    /\ walked' = walked \union {b}
    /\ \/ Skipped(b) /\ UNCHANGED <<chain, mapForkBlockQueue, nPrimaryMinHeight, result>>
       \/ /\ ~ Skipped(b) /\ ~ fSyncForkHeight
          /\ LET err == AddNewBlock(chain, b) IN
             /\ chain' = IF err = "ok" THEN chain \union {b} ELSE chain
             /\ result' = IF err \in {"ok", "already_have"} THEN result ELSE "fail"
          /\ UNCHANGED <<mapForkBlockQueue, nPrimaryMinHeight>>
       \/ ~ Skipped(b) /\ fSyncForkHeight /\ AddRecoveryBlock(b)
    /\ UNCHANGED <<fSyncForkHeight, mapForkLastHeight>>

\* RecoveryWork: the end of the files, whatever is in the queues.
RecoveryWork ==
    /\ result = "walking" /\ walked = Blocks
    /\ result' = "success"
    /\ UNCHANGED <<fSyncForkHeight, chain, walked, mapForkLastHeight, nPrimaryMinHeight, mapForkBlockQueue>>

Next == (\E b \in Blocks : Walk(b)) \/ RecoveryWork

Spec == Init /\ [][Next]_vars

-------------------------------------------------------------------------------
(* Properties                                                              *)

\* However the files order the blocks of the forks, none is given to the dispatcher
\* before what it needs, so that recovery is not broken off.
NotBrokenOff == result # "fail"

\* "Recovered success!": every block of the files is stored.
AllRecovered == result = "success" => Blocks \subseteq chain
=============================================================================
