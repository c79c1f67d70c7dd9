------------------------------- MODULE TxPool -------------------------------
(***************************************************************************)
(* CForkTxPool: the pool of one fork, and what CTxPool does with it.  The  *)
(* chain stores a block and hands out a CBlockChainUpdate; the thread that *)
(* added the block passes it to the pool, with nothing that keeps other    *)
(* threads, or the pushing of transactions, out in between.  A halt writes *)
(* the pool to a file, the next start adds it from there; a crash may cut  *)
(* the writing off.                                                        *)
(*                                                                         *)
(* mapMissTx is never filled in this code and left out; a CDestState is    *)
(* its nonce.                                                              *)
(***************************************************************************)
EXTENDS Integers, Sequences, FiniteSets, FiniteSetsExt, SequencesExt

CONSTANTS
    Txs, From, To,              \* transactions and their addresses
    Certs, CertHeight,          \* those of TX_CERT: their nonce is a height
    CheapTxs,                   \* those below nMintMinGasPrice
    Known,                      \* addresses with a state in the genesis block
    Blocks, Genesis, Prev, Body,    \* the tree of blocks: block -> transactions
    EnrollInterval,             \* CONSENSUS_ENROLL_INTERVAL
    MaxThreads,                 \* threads that add blocks at a time
    MaxRestarts,
    NoEntry, NoFile, Partial

TxPoolAssumption ==
    /\ Certs \subseteq Txs /\ CheapTxs \subseteq Txs
    /\ Genesis \notin Blocks
    /\ \A b \in Blocks : Prev[b] \in Blocks \union {Genesis}
    /\ EnrollInterval \in Nat /\ MaxThreads \in Nat /\ MaxRestarts \in Nat

Addresses == {From[t] : t \in Txs} \union {To[t] : t \in Txs}

VARIABLES
    stored, last,               \* CBlockChain: the blocks, the fork's last one
    updates,                    \* the CBlockChainUpdates on their way to the pool
    mapTx,                      \* set of transactions
    setTxLinkIndex,             \* the same by sequence number
    mapAddressTxState,          \* address -> [mapDestTx, stateAddress], or NoEntry
    hashLastBlock,
    failed,                     \* SynchronizeBlockChain has returned false
    running, file, nRestarts

chainVars == <<stored, last, updates>>
poolVars == <<mapTx, setTxLinkIndex, mapAddressTxState>>
nodeVars == <<running, file, nRestarts>>
vars == <<chainVars, poolVars, hashLastBlock, failed, nodeVars>>

Pool == [txs |-> mapTx, links |-> setTxLinkIndex, addr |-> mapAddressTxState, ok |-> TRUE]

Become(p) ==
    /\ mapTx' = p.txs
    /\ setTxLinkIndex' = p.links
    /\ mapAddressTxState' = p.addr

EmptyPool == [txs |-> {}, links |-> <<>>, addr |-> [a \in Addresses |-> NoEntry], ok |-> TRUE]

-----------------------------------------------------------------------------
(* CBlockChain, as far as the pool sees it.                                *)

\* The blocks from the genesis block (left out) to b.
Branch[b \in Blocks \union {Genesis}] == IF b = Genesis THEN <<>> ELSE Append(Branch[Prev[b]], b)

Height(b) == Len(Branch[b])

\* ExistsTx: the transactions on the way to b.
MinedIn(blocks) == UNION {Range(Body[b]) : b \in blocks}
Mined(b) == MinedIn(Range(Branch[b]))

\* RetrieveDestState: a certificate leaves its address's nonce alone.
DbNonce(b, a) == Cardinality({t \in Mined(b) \ Certs : From[t] = a})
DbHas(b, a) == a \in Known \/ \E t \in Mined(b) : To[t] = a

\* AddNewBlock: a block higher than the last becomes the last, and vBlockAddNew is its
\* branch from the fork of the two.
ChainAdd(b) ==
    /\ running /\ b \notin stored /\ Prev[b] \in stored
    /\ stored' = stored \union {b}
    /\ IF Height(b) > Height(last)
         THEN /\ Cardinality(updates) < MaxThreads
              /\ last' = b
              /\ updates' = updates \union
                     {[last |-> b, add |-> SelectSeq(Branch[b], LAMBDA c : c \notin Range(Branch[last]))]}
         ELSE UNCHANGED <<last, updates>>
    /\ UNCHANGED <<poolVars, hashLastBlock, failed, nodeVars>>

-----------------------------------------------------------------------------
(* CForkTxPool.                                                            *)

Entry(p, a) == IF p.addr[a] = NoEntry THEN [mapDestTx |-> {}, stateAddress |-> NoEntry] ELSE p.addr[a]

\* AddPooledTx enters the transaction at both of its addresses.
AddPooledTx(p, t) ==
    [p EXCEPT !.txs = @ \union {t},
              !.links = Append(@, t),
              !.addr = [a \in Addresses |->
                           IF a \in {From[t], To[t]}
                             THEN [Entry(p, a) EXCEPT !.mapDestTx = @ \union {t}]
                             ELSE @[a]]]

\* GetDestState: the pending state if there is one.
Pending(p, a) == p.addr[a] # NoEntry /\ p.addr[a].stateAddress # NoEntry
HasDestState(p, a, b) == Pending(p, a) \/ DbHas(b, a)
DestNonce(p, a, b) == IF Pending(p, a) THEN p.addr[a].stateAddress ELSE IF DbHas(b, a) THEN DbNonce(b, a) ELSE 0

SetDestState(p, a, n) == [p EXCEPT !.addr[a] = [Entry(p, a) EXCEPT !.stateAddress = n]]

\* AddTx, with the chain's last block tip (ExistsTx) and hashLastBlock at.
AddTx(p, t, tip, at) ==
    IF t \in p.txs \/ t \in Mined(tip) \/ ~HasDestState(p, From[t], at)
      THEN p
      ELSE LET q == AddPooledTx(p, t)
               r == IF To[t] = From[t] THEN q ELSE SetDestState(q, To[t], DestNonce(q, To[t], at))
           IN SetDestState(r, From[t], DestNonce(p, From[t], at) + (IF t \in Certs THEN 0 ELSE 1))

\* removeDestTx for the addresses of a pooled transaction.
DropAt(p, a, t) ==
    IF p.addr[a] = NoEntry
      THEN [p EXCEPT !.ok = FALSE]
      ELSE LET rest == p.addr[a].mapDestTx \ {t}
           IN [p EXCEPT !.addr[a] = IF rest = {} THEN NoEntry ELSE [@ EXCEPT !.mapDestTx = rest]]

\* A failure returns before the transaction leaves mapTx.
RemoveFound(p, t) ==
    LET q == DropAt(p, From[t], t)
        r == IF q.ok /\ To[t] # From[t] THEN DropAt(q, To[t], t) ELSE q
    IN IF ~r.ok THEN r ELSE [r EXCEPT !.txs = @ \ {t}, !.links = SelectSeq(@, LAMBDA u : u # t)]

RemoveAll(p, ts) == FoldSet(LAMBDA t, q : IF q.ok THEN RemoveFound(q, t) ELSE q, p, ts)

\* RemovePooledTx: a transaction of a block that the pool has not seen takes away all
\* that the same address has in the pool.
RemovePooledTx(p, t) ==
    IF t \in p.txs THEN RemoveFound(p, t)
                   ELSE RemoveAll(p, {u \in Entry(p, From[t]).mapDestTx : From[u] = From[t]})

\* RemoveObsoletedCertTx goes on after a failure.
RemoveObsoletedCertTx(p, height) ==
    FoldSet(LAMBDA t, q : [RemovePooledTx(q, t) EXCEPT !.ok = q.ok],
            p, {t \in p.txs \intersect Certs : CertHeight[t] + EnrollInterval < height})

\* A pending state behind the chain's is replaced.
Refresh(p, a, b) ==
    IF p.addr[a] # NoEntry /\ p.addr[a].stateAddress < DbNonce(b, a) THEN SetDestState(p, a, DbNonce(b, a)) ELSE p

TxsOf(blocks) == FlattenSeq([i \in DOMAIN blocks |-> Body[blocks[i]]])

Removed_LastBlock(p, blocks) ==
    FoldLeft(LAMBDA q, t : IF q.ok THEN RemovePooledTx(q, t) ELSE q, p, Body[Last(blocks)])

\* The first loop of SynchronizeBlockChain.
Removed(p, blocks) ==
    FoldLeft(LAMBDA q, t : IF q.ok THEN RemovePooledTx(q, t) ELSE q, p, TxsOf(blocks))

Refreshed(p, as, b) == FoldSet(LAMBDA a, q : Refresh(q, a, b), p, as)

\* SynchronizeBlockChain: certificates are measured against the height before the update.
SynchronizeBlockChain(u) ==
    /\ running /\ u \in updates
    /\ updates' = updates \ {u}
    /\ LET p == Removed(Pool, u.add)
           q == Refreshed(p, {From[t] : t \in Range(TxsOf(u.add))}, u.last)
       IN IF p.ok
            THEN /\ Become(RemoveObsoletedCertTx(q, Height(hashLastBlock)))
                 /\ hashLastBlock' = u.last
                 /\ UNCHANGED failed
            ELSE /\ Become(p)
                 /\ failed' = TRUE
                 /\ UNCHANGED hashLastBlock
    /\ UNCHANGED <<stored, last, nodeVars>>

\* Push, and PushUserTx and PushCertTx for one transaction of their lists.
Push(t) ==
    /\ running
    /\ Become(AddTx(Pool, t, last, hashLastBlock))
    /\ UNCHANGED <<chainVars, hashLastBlock, failed, nodeVars>>

\* ClearTxPool, by a block maker whose block was refused.
ClearTxPool ==
    /\ running
    /\ Become(EmptyPool)
    /\ UNCHANGED <<chainVars, hashLastBlock, failed, nodeVars>>

\* One step of the loops of FetchArrangeBlockTx; a transaction counts as one byte.
Room(s, max) == ~s.full /\ s.size + 1 <= max
Take(s, t) == [s EXCEPT !.vtx = Append(@, t), !.size = @ + 2]

ArrangeCert(s, t, max) ==
    CASE t \notin Certs \/ s.full -> s
      [] ~Room(s, max) -> [s EXCEPT !.full = TRUE]
      [] <<To[t], CertHeight[t]>> \in s.seen -> s
      [] OTHER -> [Take(s, t) EXCEPT !.seen = @ \union {<<To[t], CertHeight[t]>>}]

ArrangeUser(s, t, max) ==
    CASE t \in Certs \/ s.full \/ From[t] \in s.seen -> s
      [] t \in CheapTxs -> [s EXCEPT !.seen = @ \union {From[t]}]
      [] ~Room(s, max) -> [s EXCEPT !.full = TRUE]
      [] OTHER -> Take(s, t)

\* FetchArrangeBlockTx for a block of max bytes after prev, in the genesis fork.
FetchArrangeBlockTx(prev, max) ==
    LET none == [vtx |-> <<>>, size |-> 0, seen |-> {}, full |-> FALSE]
        certs == FoldLeft(LAMBDA s, t : ArrangeCert(s, t, max), none, setTxLinkIndex)
        all == FoldLeft(LAMBDA s, t : ArrangeUser(s, t, max),
                        [certs EXCEPT !.seen = {}, !.full = FALSE], setTxLinkIndex)
    IN IF prev = hashLastBlock THEN all.vtx ELSE <<>>

-----------------------------------------------------------------------------
(* Halt, crash and start.                                                  *)

Stop ==
    /\ running /\ nRestarts < MaxRestarts
    /\ running' = FALSE
    /\ nRestarts' = nRestarts + 1
    /\ updates' = {}
    /\ UNCHANGED <<stored, last, poolVars, hashLastBlock, failed>>

\* HandleHalt: SaveData writes the transactions by sequence number.
HandleHalt == Stop /\ file' = setTxLinkIndex

\* CTxPoolData::Save empties the file before it writes.
CrashInSave == Stop /\ file' = Partial

Crash == Stop /\ UNCHANGED file

\* The loop of LoadData.
Loaded(list) == FoldLeft(LAMBDA p, t : AddTx(p, t, last, last), EmptyPool, list)

\* HandleInvoke: a file that cannot be read ends the start; one that was read is removed.
HandleInvoke ==
    /\ ~running /\ file # Partial
    /\ Become(Loaded(IF file = NoFile THEN <<>> ELSE file))
    /\ hashLastBlock' = last
    /\ file' = NoFile
    /\ running' = TRUE
    /\ UNCHANGED <<chainVars, failed, nRestarts>>

-----------------------------------------------------------------------------
Init ==
    /\ stored = {Genesis} /\ last = Genesis /\ updates = {}
    /\ mapTx = {} /\ setTxLinkIndex = <<>> /\ mapAddressTxState = EmptyPool.addr
    /\ hashLastBlock = Genesis
    /\ failed = FALSE
    /\ running = TRUE /\ file = NoFile /\ nRestarts = 0

Next ==
    \/ \E b \in Blocks : ChainAdd(b)
    \/ \E u \in updates : SynchronizeBlockChain(u)
    \/ \E t \in Txs : Push(t)
    \/ ClearTxPool
    \/ HandleHalt \/ CrashInSave \/ Crash \/ HandleInvoke

Spec == Init /\ [][Next]_vars

-----------------------------------------------------------------------------
(* Properties.                                                             *)

\* mapTx, setTxLinkIndex and the mapDestTx of the addresses hold the same transactions,
\* and an address without one has no entry, whatever AddPooledTx, RemovePooledTx (which
\* calls itself for the other transactions of an address) and ClearTxPool have done.
IndexesAgree ==
    /\ Range(setTxLinkIndex) = mapTx /\ IsInjective(setTxLinkIndex)
    /\ \A a \in Addresses :
           LET mine == {t \in mapTx : a \in {From[t], To[t]}}
           IN IF mine = {} THEN mapAddressTxState[a] = NoEntry
                           ELSE mapAddressTxState[a] # NoEntry /\ mapAddressTxState[a].mapDestTx = mine

\* SynchronizeBlockChain never gives up halfway because a pooled transaction cannot be
\* removed: CDispatcher::AddNewBlock would stop before it broadcasts the block.
NeverFails == ~failed

\* A pooled transaction that is on the chain is in a block whose update has not reached
\* the pool yet: so with no update on its way, in whatever order the threads delivered
\* them, FetchArrangeBlockTx cannot put a transaction into the chain a second time.
NotMinedTwice ==
    running => mapTx \intersect Mined(last) \subseteq MinedIn(UNION {Range(u.add) : u \in updates})

\* Of each address FetchArrangeBlockTx takes a prefix of what it has sent, in the order
\* of arrival, at whatever transaction the block is full or the gas price too low.
SenderPrefix ==
    \A max \in 0 .. 2 * Cardinality(Txs), a \in Addresses :
        LET Mine(s) == SelectSeq(s, LAMBDA t : From[t] = a /\ t \notin Certs)
        IN IsPrefix(Mine(FetchArrangeBlockTx(hashLastBlock, max)), Mine(setTxLinkIndex))
=============================================================================
