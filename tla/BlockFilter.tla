---------------------------- MODULE BlockFilter ----------------------------
(***************************************************************************)
(* The filters of the Ethereum interface (CBlockFilter): a client installs *)
(* a filter for logs, blocks or pending transactions and asks for what is  *)
(* new since it last asked.                                                *)
(*                                                                         *)
(* The dispatcher adds a block to the chain and then hands its receipts to *)
(* the filters; a new log filter first reads the receipts of the chain and *)
(* is then installed.  Neither pair of steps is atomic.                    *)
(*                                                                         *)
(* A block is its height and carries one receipt; chain[h] is the number   *)
(* of its logs that match.  One fork, which grows and is not reorganised.  *)
(***************************************************************************)
EXTENDS Integers, FiniteSets, Sequences, SequencesExt, FiniteSetsExt, Functions, TLC

CONSTANTS
    LogIds,        \* identifiers of filters for logs,
    BlockIds,      \* for blocks
    TxIds,         \* and for pending transactions: the first byte tells the kind
    ForkHash,      \* hash of the fork
    Txids,         \* transactions, numbers in the order of their hashes
    MAX_FILTER_CACHE_COUNT,
    FILTER_DEFAULT_TIMEOUT,
    LogCounts,     \* numbers of matching logs of a block
    MaxHeight,     \* bound: blocks of the chain
    MaxPending,    \* bound: transactions that become pending
    MaxCrashes     \* bound: stops, orderly or not

ForkIsNoFilter == ForkHash \notin LogIds \cup BlockIds \cup TxIds

VARIABLES
    chain,          \* matching logs of each block
    nDispatched,    \* height up to which the filters were told
    asking,         \* log filter being installed: the receipts it read
    mapLogFilter, mapBlockFilter, mapTxFilter,
    file,           \* filter.dat
    got,            \* history: what each log filter answered so far
    fFound,         \* history: the last poll of an installed filter found it
    nPending, nCrashes

vars == <<chain, nDispatched, asking, mapLogFilter, mapBlockFilter, mapTxFilter,
          file, got, fFound, nPending, nCrashes>>

Empty == <<>>
NoFile == [logs |-> Empty, blocks |-> Empty, txs |-> Empty]
Nobody == [id |-> ForkHash]

nCacheLimit == MAX_FILTER_CACHE_COUNT * 2

WithoutKey(f, k) == Restrict(f, DOMAIN f \ {k})

Init ==
    /\ chain = <<>>
    /\ nDispatched = 0
    /\ asking = Nobody
    /\ mapLogFilter = Empty /\ mapBlockFilter = Empty /\ mapTxFilter = Empty
    /\ file = NoFile
    /\ got = [f \in LogIds |-> <<>>]
    /\ fFound = TRUE
    /\ nPending = 0
    /\ nCrashes = 0

---------------------------------------------------------------------------
(* A log filter (CBlockLogsFilter): range, age, new and delivered logs.    *)

\* Matching logs in a sequence of receipts (nLogsCount, nHisLogsCount).
LogsCount(s) == FoldSeq(LAMBDA r, n : r.n + n, 0, s)

InRange(l, h) == (l.from = 0 \/ h >= l.from) /\ (l.to = 0 \/ h <= l.to)

Matches(l, h) == InRange(l, h) /\ chain[h] > 0

\* CBlockLogsFilter::AddTxReceipt, the receipt kept.
AddTxReceipt(l, h) ==
    IF Matches(l, h) THEN [l EXCEPT !.vReceiptLogs = Append(@, [h |-> h, n |-> chain[h]])] ELSE l

\* The filter goes when it times out, or its new logs grow past the limit.
isTimeout(l) == l.age >= FILTER_DEFAULT_TIMEOUT

Overflows(l, h) == Matches(l, h) /\ LogsCount(AddTxReceipt(l, h).vReceiptLogs) > nCacheLimit

Trim(s) ==
    LET n == Min({i \in 1 .. Len(s) + 1 : LogsCount(SubSeq(s, i, Len(s))) <= nCacheLimit})
    IN SubSeq(s, n, Len(s))

\* CBlockLogsFilter::GetTxReceiptLogs for the changes.
Delivered(l) ==
    [l EXCEPT !.vHisReceiptLogs = Trim(@ \o l.vReceiptLogs), !.vReceiptLogs = <<>>, !.age = 0]

---------------------------------------------------------------------------
(* eth_newFilter: CService reads the chain, CBlockFilter installs.         *)

ReadReceipts(f, from, to) ==
    /\ asking = Nobody
    /\ f \notin DOMAIN mapLogFilter
    /\ asking' = [id |-> f, from |-> from, to |-> to, top |-> IF to = 0 THEN Len(chain) ELSE to]
    /\ UNCHANGED <<chain, nDispatched, mapLogFilter, mapBlockFilter, mapTxFilter, file, got, fFound, nPending, nCrashes>>

NewLogsFilter(l) == FoldLeft(AddTxReceipt, l, [h \in 1 .. asking.top |-> h])

\* born is history: the height of the chain when the filter was installed.
AddLogsFilter ==
    /\ asking # Nobody
    /\ mapLogFilter' = mapLogFilter @@ asking.id :>
          NewLogsFilter([from |-> asking.from, to |-> asking.to, age |-> 0, born |-> Len(chain),
                         vReceiptLogs |-> <<>>, vHisReceiptLogs |-> <<>>])
    /\ got' = [got EXCEPT ![asking.id] = <<>>]
    /\ asking' = Nobody
    /\ UNCHANGED <<chain, nDispatched, mapBlockFilter, mapTxFilter, file, fFound, nPending, nCrashes>>

---------------------------------------------------------------------------
(* CDispatcher::AddNewBlock: the chain first, the filters after it.        *)

AddBlock ==
    /\ Len(chain) < MaxHeight
    /\ nDispatched = Len(chain)
    /\ \E n \in LogCounts : chain' = Append(chain, n)
    /\ UNCHANGED <<nDispatched, asking, mapLogFilter, mapBlockFilter, mapTxFilter, file, got, fFound, nPending, nCrashes>>

\* CBlockFilter::AddTxReceipt on every log filter, AddNewBlockInfo on every block filter.
DispatchReceipts ==
    /\ nDispatched < Len(chain)
    /\ LET h == nDispatched + 1
           kept == {f \in DOMAIN mapLogFilter : ~isTimeout(mapLogFilter[f]) /\ ~Overflows(mapLogFilter[f], h)}
           keptBlocks == {f \in DOMAIN mapBlockFilter : ~isTimeout(mapBlockFilter[f]) /\ Cardinality(mapBlockFilter[f].mapBlockHash) < nCacheLimit}
       IN /\ mapLogFilter' = [f \in kept |-> AddTxReceipt(mapLogFilter[f], h)]
          /\ mapBlockFilter' = [f \in keptBlocks |-> [mapBlockFilter[f] EXCEPT !.mapBlockHash = @ \cup {h}]]
          /\ nDispatched' = h
    /\ UNCHANGED <<chain, asking, mapTxFilter, file, got, fFound, nPending, nCrashes>>

\* eth_getFilterChanges on a log filter.
GetFilterLogs(f) ==
    /\ f \in DOMAIN mapLogFilter
    /\ got' = [got EXCEPT ![f] = @ \o mapLogFilter[f].vReceiptLogs]
    /\ mapLogFilter' = [mapLogFilter EXCEPT ![f] = Delivered(@)]
    /\ fFound' = TRUE
    /\ UNCHANGED <<chain, nDispatched, asking, mapBlockFilter, mapTxFilter, file, nPending, nCrashes>>

---------------------------------------------------------------------------
(* Block filters.                                                          *)

AddBlockFilter(f) ==
    /\ f \notin DOMAIN mapBlockFilter
    /\ mapBlockFilter' = mapBlockFilter @@ f :> [age |-> 0, mapBlockHash |-> {}]
    /\ UNCHANGED <<chain, nDispatched, asking, mapLogFilter, mapTxFilter, file, got, fFound, nPending, nCrashes>>

\* The identifier that CService::GetFilterBlockHashs passes on as the
\* filter's: it hands over its own first argument, the hash of the fork.
LookedUp(hashFork, f) == hashFork

\* eth_getFilterChanges on a block filter.  What CBlockMakerFilter then does
\* is never reached and left out.
GetFilterBlockHashs(f) ==
    /\ f \in DOMAIN mapBlockFilter
    /\ fFound' = (LookedUp(ForkHash, f) \in DOMAIN mapBlockFilter)
    /\ UNCHANGED <<chain, nDispatched, asking, mapLogFilter, mapBlockFilter, mapTxFilter, file, got, nPending, nCrashes>>

---------------------------------------------------------------------------
(* Filters for pending transactions.  mapHisSeq is a sequence: its keys    *)
(* only grow and its smallest are dropped.                                 *)

AddPendingTxFilter(f) ==
    /\ f \notin DOMAIN mapTxFilter
    /\ mapTxFilter' = mapTxFilter @@ f :> [age |-> 0, setTxid |-> {}, setHisTxid |-> {}, mapHisSeq |-> <<>>]
    /\ UNCHANGED <<chain, nDispatched, asking, mapLogFilter, mapBlockFilter, file, got, fFound, nPending, nCrashes>>

WithPending(x, txid) ==
    [x EXCEPT !.setTxid = @ \cup {txid}, !.setHisTxid = IF txid \in x.setTxid THEN @ ELSE @ \ {txid}]

AddPendingTx(txid) ==
    /\ nPending < MaxPending
    /\ nPending' = nPending + 1
    /\ LET kept == {f \in DOMAIN mapTxFilter : ~isTimeout(mapTxFilter[f]) /\ Cardinality(mapTxFilter[f].setTxid) < nCacheLimit}
       IN mapTxFilter' = [f \in kept |-> WithPending(mapTxFilter[f], txid)]
    /\ UNCHANGED <<chain, nDispatched, asking, mapLogFilter, mapBlockFilter, file, got, fFound, nCrashes>>

CutHistory(x) ==
    LET Left(i) == x.setHisTxid \ {x.mapHisSeq[j] : j \in 1 .. i}
        n == Min({i \in 0 .. Len(x.mapHisSeq) : Cardinality(Left(i)) <= nCacheLimit \/ i = Len(x.mapHisSeq)})
    IN [x EXCEPT !.setHisTxid = Left(n), !.mapHisSeq = SubSeq(@, n + 1, Len(@))]

\* eth_getFilterChanges on a filter for pending transactions; the set is walked in order.
GetFilterTxids(f) ==
    /\ f \in DOMAIN mapTxFilter
    /\ LET x == mapTxFilter[f]
       IN mapTxFilter' = [mapTxFilter EXCEPT ![f] =
             CutHistory([age |-> 0, setTxid |-> {}, setHisTxid |-> x.setHisTxid \cup x.setTxid,
                         mapHisSeq |-> x.mapHisSeq \o SetToSortSeq(x.setTxid, <)])]
    /\ fFound' = TRUE
    /\ UNCHANGED <<chain, nDispatched, asking, mapLogFilter, mapBlockFilter, file, got, nPending, nCrashes>>

---------------------------------------------------------------------------
(* eth_uninstallFilter, time, and stops of the node.                       *)

RemoveFilter(f) ==
    /\ f \in DOMAIN mapLogFilter \cup DOMAIN mapBlockFilter \cup DOMAIN mapTxFilter
    /\ mapLogFilter' = WithoutKey(mapLogFilter, f)
    /\ mapBlockFilter' = WithoutKey(mapBlockFilter, f)
    /\ mapTxFilter' = WithoutKey(mapTxFilter, f)
    /\ UNCHANGED <<chain, nDispatched, asking, file, got, fFound, nPending, nCrashes>>

Older(filters) ==
    [f \in DOMAIN filters |-> [filters[f] EXCEPT !.age = IF @ < FILTER_DEFAULT_TIMEOUT THEN @ + 1 ELSE @]]

Tick ==
    /\ mapLogFilter' = Older(mapLogFilter)
    /\ mapBlockFilter' = Older(mapBlockFilter)
    /\ mapTxFilter' = Older(mapTxFilter)
    /\ UNCHANGED <<chain, nDispatched, asking, file, got, fFound, nPending, nCrashes>>

\* CFilterData::Load: the file is removed once its filters are in memory.
FileAfterLoad_Stays(saved) == saved

FileAfterLoad(saved) == NoFile

Load(saved) ==
    /\ mapLogFilter' = saved.logs
    /\ mapBlockFilter' = saved.blocks
    /\ mapTxFilter' = saved.txs
    /\ file' = FileAfterLoad(saved)

\* An orderly stop saves the filters; the dispatcher has finished its block.
Halt ==
    /\ nCrashes < MaxCrashes
    /\ nDispatched = Len(chain)
    /\ Load([logs |-> mapLogFilter, blocks |-> mapBlockFilter, txs |-> mapTxFilter])
    /\ asking' = Nobody
    /\ nCrashes' = nCrashes + 1
    /\ UNCHANGED <<chain, nDispatched, got, fFound, nPending>>

\* A crash loses them; a block in the chain is not dispatched again.
Crash ==
    /\ nCrashes < MaxCrashes
    /\ Load(file)
    /\ asking' = Nobody
    /\ nDispatched' = Len(chain)
    /\ nCrashes' = nCrashes + 1
    /\ UNCHANGED <<chain, got, fFound, nPending>>

Next ==
    \/ \E f \in LogIds, from, to \in 0 .. Len(chain) : ReadReceipts(f, from, to)
    \/ AddLogsFilter
    \/ AddBlock
    \/ DispatchReceipts
    \/ \E f \in LogIds : GetFilterLogs(f)
    \/ \E f \in BlockIds : AddBlockFilter(f) \/ GetFilterBlockHashs(f)
    \/ \E f \in TxIds : AddPendingTxFilter(f) \/ GetFilterTxids(f)
    \/ \E f \in LogIds \cup BlockIds \cup TxIds : RemoveFilter(f)
    \/ \E txid \in Txids : AddPendingTx(txid)
    \/ Tick
    \/ Halt
    \/ Crash

Spec == Init /\ [][Next]_vars

---------------------------------------------------------------------------
(* Properties.                                                             *)

\* Of the blocks added since a log filter was installed, every receipt with
\* matching logs was answered or is waiting, in the order of the blocks and
\* none twice, over polls, timeouts, uninstalling, orderly stops and crashes
\* (CBlockLogsFilter::GetTxReceiptLogs, CFilterData::Save and Load).
LogsOnce ==
    \A f \in DOMAIN mapLogFilter :
       LET l == mapLogFilter[f]
       IN SelectSeq(got[f] \o l.vReceiptLogs, LAMBDA r : r.h > l.born)
            = SelectSeq([i \in 1 .. nDispatched |-> [h |-> i, n |-> chain[i]]],
                        LAMBDA r : r.h > l.born /\ Matches(l, r.h))

\* What a log filter keeps of its answers are the latest ones, as many as fit
\* the limit and no more: the bookkeeping of nHisLogsCount when answers are
\* added and the oldest dropped (CBlockLogsFilter::GetTxReceiptLogs).
HistoryIsRecent ==
    \A f \in DOMAIN mapLogFilter :
       LET his == mapLogFilter[f].vHisReceiptLogs
           n == Len(got[f]) - Len(his)
       IN /\ IsSuffix(his, got[f])
          /\ LogsCount(his) <= nCacheLimit
          /\ n > 0 => LogsCount(his) + got[f][n].n > nCacheLimit

\* A transaction is never both new and delivered, whatever the order in which
\* it becomes pending again and the client asks, so that a listing of all
\* names it once (CBlockPendingTxFilter::AddPendingTx, GetFilterTxids).
TxListedOnce ==
    \A f \in DOMAIN mapTxFilter : mapTxFilter[f].setTxid \cap mapTxFilter[f].setHisTxid = {}

\* The delivered transactions that are kept stay within the limit although
\* the sequence that says which to drop also names transactions that have
\* left the history (CBlockPendingTxFilter::GetFilterTxids).
TxHistoryBounded ==
    \A f \in DOMAIN mapTxFilter : Cardinality(mapTxFilter[f].setHisTxid) <= nCacheLimit
============================================================================
