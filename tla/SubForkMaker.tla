---------------------------- MODULE SubForkMaker ----------------------------
(***************************************************************************)
(* The blocks of one sub-fork, as the makers of the primary chain make     *)
(* them (blockchain/blockmaker.cpp, ProcessSubFork), verify them           *)
(* (blockchain.cpp, core.cpp) and choose among them (storage/blockbase.cpp)*)
(*                                                                         *)
(* The maker of a primary block also makes the subsidiary block of its     *)
(* height in every sub-fork, then an extended block for every later slot   *)
(* in which there are transactions, until the next primary block is due.   *)
(* A sub-fork that has fallen behind is first filled up with vacant blocks.*)
(* What the maker prepares when the primary block is out, it finishes      *)
(* later, when blocks of the previous maker, or the next primary block,    *)
(* may have come in between.                                               *)
(*                                                                         *)
(* Heights count primary blocks; the unit of time is                       *)
(* EXTENDED_BLOCK_SPACING.  The primary chain is one chain that all nodes  *)
(* see at once; block votes and signatures are left out.                   *)
(* WAIT_LAST_EXTENDED_TIME is 0 and a task runs no earlier than its block  *)
(* time, so that the branches that put a subsidiary task back to wait for  *)
(* the last extended block are never taken.                                *)
(***************************************************************************)
EXTENDS Integers, Sequences, FiniteSetsExt

CONSTANTS
    Nodes,           \* the makers, and the nodes that follow the sub-fork
    Spacing,         \* BLOCK_TARGET_SPACING in units of EXTENDED_BLOCK_SPACING
    LastBlockCount,  \* FORK_LAST_BLOCK_COUNT
    WaitBlockCount,  \* FORK_WAIT_BLOCK_COUNT
    WaitBlockSect,   \* FORK_WAIT_BLOCK_SECT
    Created,         \* the results CreateDelegatedBlock may have
    Prompt,          \* nothing arrives while a subsidiary task waits
    MaxHeight, MaxTime   \* bounds

VARIABLES
    now,       \* GetNetTime()
    prim,      \* the primary chain: prim[h] is the time of height h
    blocks,    \* every block of the sub-fork accepted by its maker
    known,     \* per node, the indexes of the blocks it has
    tip,       \* per node, the last block of the fork
    sent,      \* the blocks that peers were told of
    refused,   \* the blocks that the maker's own node refused
    task,      \* per node, the one entry of mapBlocks for this fork
    forkStat,  \* per node, mapForkLastStat of this fork
    whole      \* the last round was made with nothing outstanding

vars == <<now, prim, blocks, known, tip, sent, refused, task, forkStat, whole>>

None == [kind |-> "none"]

Origin == [kind |-> "origin", prev |-> 0, height |-> 0, slot |-> 0, time |-> 0,
           number |-> 0, ref |-> 0, trust |-> 0]

Heights == 0 .. MaxHeight

\* The time of the primary block of a height; the origin is at height 0, time 0.
PrimTime(h) == IF h = 0 THEN 0 ELSE prim[h]

Last == Len(prim)

\* The indexes of the blocks from block i back to the origin.
Chain(bs, i) ==
    LET c[j \in 0 .. Len(bs)] == IF j = 0 THEN {} ELSE {j} \cup c[bs[j].prev]
    IN  c[i]

-----------------------------------------------------------------------------
(* Verification and the choice of the long chain.                          *)

VerifyBlockHeight(bs, b) ==
    b.height = bs[b.prev].height + (IF b.kind = "extended" THEN 0 ELSE 1)

VerifySubsidiary(bs, b) ==
    /\ b.time > bs[b.prev].time
    /\ b.kind = "subsidiary" => b.slot = 0 /\ b.time = PrimTime(b.ref)
    /\ b.kind = "extended" =>
          /\ b.slot < Spacing
          /\ b.time > PrimTime(b.ref) /\ b.time < PrimTime(b.ref) + Spacing
          /\ b.time - PrimTime(b.ref) = b.slot

\* The piggyback proof must not refer to a primary block before the
\* predecessor's; an extended block has the agreement of its predecessor.
VerifyBlock(bs, b) ==
    LET p == bs[b.prev]
    IN  /\ VerifyBlockHeight(bs, b)
        /\ p.kind = "origin" \/ p.ref <= b.ref
        /\ b.kind = "extended" =>
              p.kind \notin {"origin", "vacant"} /\ p.ref = b.ref
        /\ IF b.kind = "vacant" THEN b.time = PrimTime(b.height)
                                ELSE VerifySubsidiary(bs, b)

GetBlockTrust(b) == IF b.kind = "vacant" THEN 0 ELSE 1

\* From i back over vacant blocks above the height of t to t itself.
IsBlockIndexEquivalent(bs, i, t) ==
    LET e[j \in 1 .. Len(bs)] ==
            \/ j = t
            \/ /\ bs[j].kind = "vacant" /\ bs[j].height > bs[t].height
               /\ e[bs[j].prev]
    IN  e[i]

\* The newest block wins.
CheckForkLongChain_Newest(bs, i, t) == TRUE

CheckForkLongChain(bs, i, t) ==
    ~ \/ bs[t].trust > bs[i].trust
      \/ bs[t].trust = bs[i].trust /\ ~IsBlockIndexEquivalent(bs, i, t)

\* The state that adding a block changes, as a record.
Store == [blocks |-> blocks, known |-> known, tip |-> tip, sent |-> sent,
          refused |-> refused]

\* Block i becomes known to node n.  Peers are told only of a block that
\* changes the long chain; its predecessors are then in the inventories.
Stored(s, n, i) ==
    LET long == CheckForkLongChain(s.blocks, i, s.tip[n])
    IN  [s EXCEPT !.known[n] = @ \cup {i},
                  !.tip[n] = IF long THEN i ELSE @,
                  !.sent = IF long THEN @ \cup Chain(s.blocks, i) ELSE @]

\* The maker's own node adds the block; a block it refuses goes no further.
DispatchBlock(s, n, b) ==
    IF VerifyBlock(s.blocks, b)
    THEN LET trust == s.blocks[b.prev].trust + GetBlockTrust(b)
             all == Append(s.blocks, [b EXCEPT !.trust = trust])
         IN  Stored([s EXCEPT !.blocks = all], n, Len(all))
    ELSE [s EXCEPT !.refused = @ \cup {b}]

-----------------------------------------------------------------------------
(* Making blocks.                                                          *)

NewBlock(kind, prev, ref, height, slot, time, number) ==
    [kind |-> kind, prev |-> prev, height |-> height, slot |-> slot,
     time |-> time, number |-> number, ref |-> ref, trust |-> 0]

\* The subsidiary block of primary height ref, whose predecessor is not yet
\* known; its number comes from the fork status at this moment.
PreparePiggyback(n, ref) ==
    [kind |-> "subsidiary", ref |-> ref, number |-> blocks[tip[n]].number + 1]

\* The extended block after a block at the given time, unless the next
\* primary block is due before it.
CreateExtended(ref, prev, time, number, slot) ==
    IF time + 1 < PrimTime(ref) + Spacing /\ now < PrimTime(ref) + Spacing
    THEN [kind |-> "extended", ref |-> ref, prev |-> prev, time |-> time + 1,
          number |-> number + 1, slot |-> slot + 1]
    ELSE None

\* The primary times are read back from the last primary block there is.
LastBlockTime(ref, h) == PrimTime(Last - (ref - h))

\* Vacant blocks from the last block of the fork up to the height before
\* ref; the first one that is refused ends the filling.
ReplenishSubForkVacant(n, ref) ==
    LET fill[h \in Heights] ==
            IF h = blocks[tip[n]].height THEN [s |-> Store, last |-> tip[n]]
            ELSE LET f == fill[h - 1]
                     p == f.s.blocks[f.last]
                     s == DispatchBlock(f.s, n,
                              NewBlock("vacant", f.last, ref, h, 0,
                                       LastBlockTime(ref, h), p.number + 1))
                 IN  IF f.last = 0 THEN f
                     ELSE [s |-> s, last |-> IF s.refused = f.s.refused
                                             THEN Len(s.blocks) ELSE 0]
    IN  fill[ref - 1]

Keep(s) ==
    /\ blocks' = s.blocks /\ known' = s.known /\ tip' = s.tip
    /\ sent' = s.sent /\ refused' = s.refused

\* Nothing but this task is left to do, and this node has what was sent.
Outstanding(n) == sent \ known[n] # {} \/ \E m \in Nodes \ {n} : task[m] # None

\* The subsidiary block with the given predecessor and number, if it can be
\* created, and the task for the extended block after it.
MakeSubsidiary(s, n, prev, number) ==
    \E ok \in Created :
        LET ref == task[n].ref
            b == NewBlock("subsidiary", prev, ref, ref, 0, PrimTime(ref), number)
            d == DispatchBlock(s, n, b)
            done == ok /\ d.refused = s.refused
        IN  /\ Keep(IF ok THEN d ELSE s)
            /\ task' = [task EXCEPT ![n] =
                            IF done THEN CreateExtended(ref, Len(d.blocks), b.time, number, 0)
                                    ELSE None]
            /\ whole' = (done /\ ~Outstanding(n))

\* The sub-fork has been filled up to height ref - 1, or filling failed.
FillAndMake(n) ==
    LET f == ReplenishSubForkVacant(n, task[n].ref)
    IN  IF f.last # 0
        THEN MakeSubsidiary(f.s, n, f.last, f.s.blocks[f.last].number + 1)
        ELSE Keep(f.s) /\ task' = [task EXCEPT ![n] = None] /\ whole' = FALSE

DropTask(n) ==
    /\ task' = [task EXCEPT ![n] = None]
    /\ whole' = FALSE
    /\ UNCHANGED <<blocks, known, tip, sent, refused>>

-----------------------------------------------------------------------------
Init ==
    /\ now = 0 /\ prim = <<>>
    /\ blocks = <<Origin>>
    /\ known = [n \in Nodes |-> {1}] /\ tip = [n \in Nodes |-> 1]
    /\ sent = {1} /\ refused = {}
    /\ task = [n \in Nodes |-> None]
    /\ forkStat = [n \in Nodes |-> [height |-> -1, since |-> 0]]
    /\ whole = FALSE

Tick ==
    /\ now < MaxTime
    /\ now' = now + 1
    /\ UNCHANGED <<prim, blocks, known, tip, sent, refused, task, forkStat, whole>>

Waiting == \E n \in Nodes : task[n].kind = "subsidiary"

\* The next primary block, at the last multiple of the spacing.
NewPrimary ==
    /\ Last < MaxHeight
    /\ now >= PrimTime(Last) + Spacing
    /\ Prompt => ~Waiting
    /\ prim' = Append(prim, PrimTime(Last) + Spacing * ((now - PrimTime(Last)) \div Spacing))

\* A delegate makes the primary block and starts on the sub-fork.
ProcessDelegatedProofOfStake(n) ==
    /\ task[n] = None
    /\ NewPrimary
    /\ task' = [task EXCEPT ![n] = PreparePiggyback(n, Last + 1)]
    /\ UNCHANGED <<now, blocks, known, tip, sent, refused, forkStat, whole>>

\* A proof-of-authority block, whose maker makes no sub-fork blocks.
PoaBlock ==
    /\ NewPrimary
    /\ UNCHANGED <<now, blocks, known, tip, sent, refused, task, forkStat, whole>>

\* VerifyForkRefLongChain: the last block refers to a later primary block.
Overtaken(n) ==
    blocks[tip[n]].kind # "origin" /\ blocks[tip[n]].ref > task[n].ref

TooFarBehind(n) ==
    /\ blocks[tip[n]].kind # "origin"
    /\ blocks[tip[n]].height < task[n].ref - LastBlockCount

SubsidiaryTask(n) == task[n].kind = "subsidiary" /\ UNCHANGED <<now, prim>>

SubsidiaryOvertaken(n) ==
    /\ SubsidiaryTask(n)
    /\ Overtaken(n)
    /\ DropTask(n)
    /\ UNCHANGED forkStat

\* The sub-fork is level: on its last block of the previous height.
SubsidiaryLevel(n) ==
    /\ SubsidiaryTask(n)
    /\ ~Overtaken(n)
    /\ blocks[tip[n]].height >= task[n].ref - 1
    /\ LET prev == Max({i \in Chain(blocks, tip[n]) : blocks[i].height < task[n].ref})
       IN  MakeSubsidiary(Store, n, prev, task[n].number)
    /\ UNCHANGED forkStat

SubsidiaryBehind(n) ==
    /\ SubsidiaryTask(n)
    /\ ~Overtaken(n)
    /\ blocks[tip[n]].height < task[n].ref - 1
    /\ ~TooFarBehind(n)
    /\ FillAndMake(n)
    /\ UNCHANGED forkStat

\* Too far behind to be filled at once: the missing blocks get
\* WaitBlockCount heights to arrive.
SubsidiaryFarBehind(n) ==
    LET ref == task[n].ref
        h == blocks[tip[n]].height
        st == IF forkStat[n].height # h THEN [height |-> h, since |-> ref] ELSE forkStat[n]
    IN  /\ SubsidiaryTask(n)
        /\ ~Overtaken(n)
        /\ h < ref - 1
        /\ TooFarBehind(n)
        /\ forkStat' = [forkStat EXCEPT ![n] = st]
        /\ IF ref - st.since >= WaitBlockCount * ((ref - h) \div WaitBlockSect + 1)
           THEN FillAndMake(n)
           ELSE DropTask(n)

\* An extended block is made on the maker's own last block, or is left out
\* when there is nothing to put into it or it cannot be made.
ExtendedBlock(n) ==
    /\ task[n].kind = "extended"
    /\ now >= task[n].time
    /\ \E made \in BOOLEAN :
          LET t == task[n]
              d == DispatchBlock(Store, n, NewBlock("extended", t.prev, t.ref, t.ref,
                                                    t.slot, t.time, t.number))
              done == made /\ d.refused = refused
          IN  /\ Keep(IF made THEN d ELSE Store)
              /\ task' = [task EXCEPT ![n] =
                    IF done THEN CreateExtended(t.ref, Len(d.blocks), t.time, t.number, t.slot)
                            ELSE CreateExtended(t.ref, t.prev, t.time, t.number - 1, t.slot)]
    /\ UNCHANGED <<now, prim, forkStat, whole>>

\* A peer's block arrives, after its predecessors.
Receive(n) ==
    /\ Prompt => task[n].kind # "subsidiary"
    /\ \E i \in sent \ known[n] :
          /\ blocks[i].prev \in known[n]
          /\ VerifyBlock(blocks, blocks[i])
          /\ Keep(Stored(Store, n, i))
    /\ UNCHANGED <<now, prim, task, forkStat, whole>>

Next ==
    \/ Tick
    \/ PoaBlock
    \/ \E n \in Nodes :
          \/ ProcessDelegatedProofOfStake(n)
          \/ SubsidiaryOvertaken(n)
          \/ SubsidiaryLevel(n)
          \/ SubsidiaryBehind(n)
          \/ SubsidiaryFarBehind(n)
          \/ ExtendedBlock(n)
          \/ Receive(n)

Spec == Init /\ [][Next]_vars

-----------------------------------------------------------------------------
TypeOK ==
    /\ now \in 0 .. MaxTime
    /\ Last <= MaxHeight
    /\ \A i \in DOMAIN blocks :
          /\ blocks[i].kind \in {"origin", "subsidiary", "extended", "vacant"}
          /\ blocks[i].prev < i /\ blocks[i].height \in Heights
    /\ \A n \in Nodes : known[n] \subseteq DOMAIN blocks /\ tip[n] \in known[n]
    /\ sent \subseteq DOMAIN blocks

\* GetBlockCount of a node
GetBlockCount(n) == blocks[tip[n]].number + 1

(***************************************************************************)
(* What getblockcount returns (blockchain.cpp, GetBlockCount: the number   *)
(* of the last block plus one) is the number of blocks of the fork, the    *)
(* extended and the vacant ones included: every block on the chain of      *)
(* every node is numbered one after its predecessor, whoever made it and   *)
(* however the sub-fork was filled up.                                     *)
(***************************************************************************)
CountIsLength == \A n \in Nodes : GetBlockCount(n) = Cardinality(Chain(blocks, tip[n]))

(***************************************************************************)
(* A maker's node accepts every block that its maker thread makes          *)
(* (DispatchBlock, AddNewBlock, VerifyBlock): heights, times and slots     *)
(* that ProcessSubFork computes from the primary chain and the fork's last *)
(* block are those that verification asks for.                             *)
(***************************************************************************)
OwnAccepted == refused = {}

(***************************************************************************)
(* One whole round heals the sub-fork: once a maker that had every block   *)
(* sent so far, with no other maker still at work, has made its subsidiary *)
(* block, all nodes have the same last block as soon as they have all the  *)
(* blocks, though they may have followed different chains of equal trust   *)
(* before (CheckForkLongChain keeps the chain a node has).                 *)
(***************************************************************************)
WholeRoundHeals ==
    (whole /\ \A n \in Nodes : task[n] = None /\ sent \subseteq known[n])
        => \A n, m \in Nodes : tip[n] = tip[m]
=============================================================================
