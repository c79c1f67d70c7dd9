------------------------------ MODULE MCClients ------------------------------
(***************************************************************************)
(* What the clients of the RPC interface use: the keys of the wallet with  *)
(* two threads of the RPC server (Wallet), the same with a database that   *)
(* fails and restarts, and the filters for logs and for pending            *)
(* transactions (BlockFilter).  The initial state says which of them a     *)
(* behaviour is about; the others keep still.                              *)
(***************************************************************************)
EXTENDS Wallet

VARIABLES part,
          chain, nDispatched, asking, mapLogFilter, mapBlockFilter, mapTxFilter,
          file, got, fFound, nPending, nCrashes

filterVars == <<chain, nDispatched, asking, mapLogFilter, mapBlockFilter, mapTxFilter,
                file, got, fFound, nPending, nCrashes>>
mcVars == <<part, vars, filterVars>>

-------------------------------------------------------------------------------
\* The database fails, the node restarts, and a key has two passphrases.
Failing == INSTANCE Wallet WITH
    Passphrases <- {"p", "q"}, Timeouts <- {1}, MaxTimers <- 1, MaxTime <- 1,
    MaxFailures <- 2, MaxRestarts <- 1

Logs == INSTANCE BlockFilter WITH
    LogIds <- {"log"}, BlockIds <- {}, TxIds <- {}, ForkHash <- "fork", Txids <- {},
    MAX_FILTER_CACHE_COUNT <- 1, FILTER_DEFAULT_TIMEOUT <- 2, LogCounts <- 0 .. 2,
    MaxHeight <- 3, MaxPending <- 0, MaxCrashes <- 2

Txs == INSTANCE BlockFilter WITH
    LogIds <- {"log"}, BlockIds <- {"block"}, TxIds <- {"tx"}, ForkHash <- "fork", Txids <- 1 .. 4,
    MAX_FILTER_CACHE_COUNT <- 1, FILTER_DEFAULT_TIMEOUT <- 1, LogCounts <- {0},
    MaxHeight <- 0, MaxPending <- 5, MaxCrashes <- 1

ASSUME Logs!ForkIsNoFilter

-------------------------------------------------------------------------------
MCInit == part \in {"wallet", "failing", "logs", "txs"} /\ Init /\ Logs!Init

MCNext ==
    /\ UNCHANGED part
    /\ \/ part = "wallet" /\ Next /\ UNCHANGED filterVars
       \/ part = "failing" /\ Failing!Next /\ UNCHANGED filterVars
       \/ part = "logs" /\ Logs!Next /\ UNCHANGED vars
       \/ part = "txs" /\ Txs!Next /\ UNCHANGED vars

\* The timer thread never stops and time passes; the clients do as they like.
MCSpec ==
    /\ MCInit /\ [][MCNext]_mcVars
    /\ WF_vars(part = "wallet" /\ TimerProc) /\ WF_vars(part = "wallet" /\ Tick)

-------------------------------------------------------------------------------
(* Properties                                                              *)

\* A key unlocked for a time is locked again, or gone, unless signatures keep renewing
\* the time: the timer of the key is never lost between Unlock, UpdateAutoLock, Encrypt
\* and a callback (unlockkey's timeout).
UnlocksEnd == part = "wallet" => TimedUnlockEnds

\* Of the blocks added since a log filter was installed, every receipt with matching logs
\* was answered or is waiting, in the order of the blocks and none twice; a pending
\* transaction is never both new and delivered; and what a filter keeps of its answers
\* stays within the limit: over polls, timeouts, uninstalling, orderly stops and crashes.
FiltersAnswerOnce ==
    /\ part = "logs" => Logs!LogsOnce /\ Logs!HistoryIsRecent
    /\ part = "txs" => Txs!TxListedOnce /\ Txs!TxHistoryBounded
=============================================================================
