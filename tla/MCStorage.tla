------------------------------ MODULE MCStorage ------------------------------
(***************************************************************************)
(* What a node keeps on disk: the download of a snapshot (SnapshotDown,     *)
(* from a peer that keeps its files, or with failures), the files of        *)
(* records (TimeSeries), recovery from such files (Recovery) and a          *)
(* database of tries (TrieDB).  The initial state says which of them a      *)
(* behaviour is about; the others keep still.                               *)
(***************************************************************************)
EXTENDS SnapshotDown

CONSTANTS f1, f2

MCFiles == {f1, f2}
MCListedSize == f1 :> 3 @@ f2 :> 1
MCFullSize == f1 :> 3 @@ f2 :> 3

VARIABLES part,
          files, nLastFile, ring, mapCachePos, index, written,
          fSyncForkHeight, chain, walked, mapForkLastHeight, nPrimaryMinHeight, mapForkBlockQueue, result,
          stored, tries, adding, trieCrashes

seriesVars == <<files, nLastFile, ring, mapCachePos, index, written>>
recoveryVars == <<fSyncForkHeight, chain, walked, mapForkLastHeight, nPrimaryMinHeight, mapForkBlockQueue, result>>
trieVars == <<stored, tries, adding, trieCrashes>>
mcVars == <<part, vars, seriesVars, recoveryVars, trieVars>>

-------------------------------------------------------------------------------
\* Files are removed at the peer, and reads and writes fail.
Faulty == INSTANCE SnapshotDown WITH Failures <- TRUE, MaxConnections <- 2

\* Three records of different sizes, and files that hold one or two of them.
Series == INSTANCE TimeSeries WITH
    Recs <- 1 .. 3, SizeOf <- <<1, 3, 4>>, HEAD_SIZE <- 3, RESERVE <- 2, MAX_FILE_SIZE <- 10,
    CACHE_SIZE <- 12, CACHE_HEAD <- 2

\* The primary fork and two sub forks.  The first has vacant blocks that were filled in
\* for a later one.
Rec == INSTANCE Recovery WITH
    Primary <- "p", ForkOrder <- <<"p", "s1", "s2">>, Joint <- "s1" :> 0 @@ "s2" :> 2,
    Top <- "p" :> 5 @@ "s1" :> 5 @@ "s2" :> 5,
    RefHeight <- "s1" :> (2 :> 2 @@ 3 :> 5 @@ 4 :> 5 @@ 5 :> 5) @@ "s2" :> (4 :> 4 @@ 5 :> 5),
    ForkDelay <- 2, KeepHeight <- 1

\* Keys of one length, as the databases use, that share no, two or three nibbles.
TrieKeys == {<<17, 17>>, <<17, 18>>, <<33, 17>>}

T == INSTANCE TrieDB WITH
    crashes <- trieCrashes, Keys <- TrieKeys, Versions <- {1}, SameValues <- FALSE,
    Removable <- {<<17, 18>>}, BatchSizes <- {1, 2}, MaxBatches <- 2, MaxCrashes <- 1,
    WalkPrefixes <- {<<>>, <<17>>}

\* The same with values that do not name the key they belong to.
Shared == INSTANCE TrieDB WITH
    crashes <- trieCrashes, Keys <- {<<17>>, <<33>>, <<34>>}, Versions <- {1, 2}, SameValues <- TRUE,
    Removable <- {}, BatchSizes <- {1, 2, 3}, MaxBatches <- 1, MaxCrashes <- 0,
    WalkPrefixes <- {}

ASSUME Series!SeriesAssumption
ASSUME Rec!RecoveryAssumption

-------------------------------------------------------------------------------
RecoveryRests ==
    /\ fSyncForkHeight = FALSE /\ chain = {} /\ walked = {} /\ mapForkLastHeight = <<>>
    /\ nPrimaryMinHeight = 0 /\ mapForkBlockQueue = <<>> /\ result = "walking"

MCInit ==
    /\ part \in {"download", "faulty", "series", "recovery", "trie"}
    /\ Init /\ Series!Init /\ T!Init
    /\ IF part = "recovery" THEN Rec!Init ELSE RecoveryRests

MCNext ==
    /\ UNCHANGED part
    /\ \/ part = "download" /\ Next /\ UNCHANGED <<seriesVars, recoveryVars, trieVars>>
       \/ part = "faulty" /\ Faulty!Next /\ UNCHANGED <<seriesVars, recoveryVars, trieVars>>
       \/ part = "series" /\ Series!Next /\ UNCHANGED <<vars, recoveryVars, trieVars>>
       \/ part = "recovery" /\ Rec!Next /\ UNCHANGED <<vars, seriesVars, trieVars>>
       \/ part = "trie" /\ T!Next /\ UNCHANGED <<vars, seriesVars, recoveryVars>>

MCSpec == MCInit /\ [][MCNext]_mcVars /\ Fairness

SharedSpec ==
    /\ part = "trie" /\ Init /\ Series!Init /\ RecoveryRests /\ Shared!Init
    /\ [][Shared!Next /\ UNCHANGED <<part, vars, seriesVars, recoveryVars>>]_mcVars

-------------------------------------------------------------------------------
(* Properties                                                              *)

\* With a peer that keeps its files, a connection that stays up ends with all of them
\* copied, in whatever state earlier connections and restarts left the local files.
FilesDownloaded == part = "download" => Downloaded

\* Read returns the record, or the part of it, that Write put at the position, whatever
\* was written, cached, dropped from the ring or lost in a crash since; and WalkThrough
\* visits the records in the order of their writes up to the first incomplete one, also in
\* a copy of the files up to a record.
RecordsReadBack == part = "series" => Series!ReadBack /\ Series!WalkInOrder /\ Series!CopyInOrder

\* However the files order the blocks of the forks, none is given to the dispatcher
\* before what it needs, and after "Recovered success!" every block of the files is stored.
Recovers == part = "recovery" => Rec!NotBrokenOff /\ Rec!AllRecovered

\* Under every recorded root, Retrieve finds each key with the value the last batch that
\* named it gave it, and no other key, and WalkThroughTrie lists exactly these keys in
\* order: what later batches, other branches and interrupted writes add changes nothing.
TrieReads == part = "trie" => T!Retrievable /\ T!WalksInOrder

\* Retrieve finds every key of a batch after it was added, also when different keys
\* have equal values.
TrieShared == Shared!Retrievable
=============================================================================
