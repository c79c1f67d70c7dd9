----------------------------- MODULE TimeSeries -----------------------------
(***************************************************************************)
(* CTimeSeriesCached: records appended to numbered files of bounded size,  *)
(* with a cache of recently used ones in a ring of bytes.                  *)
(*                                                                         *)
(* Sizes are in units of four bytes: nMagic, nSize and nCrc are a unit     *)
(* each.  A file is a sequence of pieces; a piece shorter than its record  *)
(* is what a crash or a failed write leaves behind.  The checks of         *)
(* WalkThrough and ReadDirect (magic, size, crc) are taken to recognise    *)
(* such a piece.                                                           *)
(***************************************************************************)
EXTENDS Naturals, Sequences, FiniteSets, SequencesExt, Functions

CONSTANTS
    Recs, SizeOf,               \* records and the size of their data
    HEAD_SIZE,                  \* 3: nMagic, nSize, nCrc
    RESERVE,                    \* 2: the "+ 8" of GetLastFilePath
    MAX_FILE_SIZE,
    CACHE_SIZE, CACHE_HEAD      \* the ring, and the head of an entry in it

SeriesAssumption ==
    /\ SizeOf \in [Recs -> Nat \ {0}]
    /\ \A r \in Recs : SizeOf[r] + RESERVE <= MAX_FILE_SIZE

VARIABLES
    files,                      \* the files, a sequence of sequences of pieces
    nLastFile,
    ring,                       \* cacheStream: [begin, entries]
    mapCachePos,                \* position -> offset in the ring
    index,                      \* what the caller knows: record -> position
    written                     \* every piece written, in order (history)

vars == <<files, nLastFile, ring, mapCachePos, index, written>>

Position(f, o) == [nFile |-> f, nOffset |-> o]

-------------------------------------------------------------------------------
(* Files                                                                   *)

Length(pieces) == FoldLeft(LAMBDA n, p : n + p.len, 0, pieces)

Whole(p) == p.len = HEAD_SIZE + SizeOf[p.rec]

\* What is found at a position: a record, or a part of one (a transaction in its block).
ReadDirect(pos) ==
    LET f == files[pos.nFile]
        start(i) == Length(SubSeq(f, 1, i - 1)) + HEAD_SIZE
    IN  {[rec |-> f[i].rec, part |-> pos.nOffset - start(i)] :
            i \in {j \in DOMAIN f : /\ Whole(f[j])
                                    /\ start(j) <= pos.nOffset
                                    /\ pos.nOffset < start(j) + SizeOf[f[j].rec]}}

\* Initialize: the last of the files that follow each other.
Initialize(dir) == IF dir = <<>> THEN 1 ELSE Len(dir)

\* GetLastFilePath: the last file, or the next when it is full.
GetLastFile(dir, last, size) ==
    IF last > Len(dir) \/ Length(dir[last]) + size + RESERVE <= MAX_FILE_SIZE THEN last ELSE last + 1

AppendPiece(dir, f, p) == IF f > Len(dir) THEN Append(dir, <<p>>) ELSE [dir EXCEPT ![f] = Append(@, p)]

\* WalkThrough with fRepairFile false: every file up to the first that is too long or
\* has a piece that is not a record.
WalkThrough(dir) ==
    LET Bad(f) == Length(dir[f]) > MAX_FILE_SIZE
        Stop(f) == IF Bad(f) THEN 1 ELSE SelectInSeq(dir[f], LAMBDA p : ~ Whole(p))
        last == SelectInSeq([f \in DOMAIN dir |-> f], LAMBDA f : Stop(f) # 0)
    IN  IF last = 0 THEN FlattenSeq(dir)
        ELSE FlattenSeq(SubSeq(dir, 1, last - 1)) \o SubSeq(dir[last], 1, Stop(last) - 1)

\* SaveBlockFile: the files before that of a record, and its own up to its end.
CopyToPath(dir, pos) ==
    LET f == dir[pos.nFile]
        n == CHOOSE i \in DOMAIN f : Length(SubSeq(f, 1, i - 1)) + HEAD_SIZE = pos.nOffset
    IN  Append(SubSeq(dir, 1, pos.nFile - 1), SubSeq(f, 1, n))

-------------------------------------------------------------------------------
(* The cache                                                               *)

NoCache == [ring |-> [begin |-> 0, entries |-> <<>>], map |-> <<>>]

Used(r) == FoldLeft(LAMBDA n, e : n + CACHE_HEAD + e.size, 0, r.entries)

FreeSpace(r) == CACHE_SIZE - Used(r) - 1

\* One turn of the loop of VacateCache.
DropFirst(c) ==
    LET e == Head(c.ring.entries)
    IN  [ring |-> [begin |-> (c.ring.begin + CACHE_HEAD + e.size) % CACHE_SIZE,
                   entries |-> Tail(c.ring.entries)],
         map |-> Restrict(c.map, DOMAIN c.map \ {e.pos})]

\* VacateCache: entries go, oldest first, until there is room or none is left.
VacateCache(c, size) ==
    FoldLeft(LAMBDA d, e : IF FreeSpace(d.ring) < size + CACHE_HEAD THEN DropFirst(d) ELSE d,
             c, c.ring.entries)

\* Fault: the offset is taken before the head of the entry is written.
WriteToCache_Head(c, item, size, pos) ==
    IF pos \in DOMAIN c.map THEN c
    ELSE LET d == VacateCache(c, size)
             at == (d.ring.begin + Used(d.ring)) % CACHE_SIZE
         IN  IF FreeSpace(d.ring) < size + CACHE_HEAD
             THEN [NoCache EXCEPT !.ring.begin = d.ring.begin]
             ELSE [ring |-> [d.ring EXCEPT !.entries = Append(@, [pos |-> pos, item |-> item, size |-> size])],
                   map |-> d.map @@ (pos :> at)]

\* WriteToCache, with ResetCache where the entry does not fit into the ring at all.
WriteToCache(c, item, size, pos) ==
    IF pos \in DOMAIN c.map THEN c
    ELSE LET d == VacateCache(c, size)
             at == (d.ring.begin + Used(d.ring) + CACHE_HEAD) % CACHE_SIZE
         IN  IF FreeSpace(d.ring) < size + CACHE_HEAD
             THEN [NoCache EXCEPT !.ring.begin = d.ring.begin]
             ELSE [ring |-> [d.ring EXCEPT !.entries = Append(@, [pos |-> pos, item |-> item, size |-> size])],
                   map |-> d.map @@ (pos :> at)]

\* What the ring holds at an offset.
RingAt(r, at) ==
    {r.entries[i].item :
        i \in {j \in DOMAIN r.entries :
                  at = (r.begin + Used([r EXCEPT !.entries = SubSeq(@, 1, j - 1)]) + CACHE_HEAD) % CACHE_SIZE}}

\* What Read returns for a position.
Lookup(pos) ==
    IF pos \in DOMAIN mapCachePos THEN RingAt(ring, mapCachePos[pos]) ELSE ReadDirect(pos)

SetCache(c) == ring' = c.ring /\ mapCachePos' = c.map

Cache == [ring |-> ring, map |-> mapCachePos]

-------------------------------------------------------------------------------
Init ==
    /\ files = <<>> /\ nLastFile = 1
    /\ ring = NoCache.ring /\ mapCachePos = NoCache.map
    /\ index = <<>> /\ written = <<>>

Unwritten == {r \in Recs : \A i \in DOMAIN written : written[i].rec # r}

Put(r, len) ==
    LET f == GetLastFile(files, nLastFile, SizeOf[r])
        p == [rec |-> r, len |-> len]
    IN  files' = AppendPiece(files, f, p) /\ written' = Append(written, p)

Write(r) ==
    LET f == GetLastFile(files, nLastFile, SizeOf[r])
        offset == (IF f > Len(files) THEN 0 ELSE Length(files[f])) + HEAD_SIZE
        pos == Position(f, offset)
    IN  /\ r \in Unwritten
        /\ Put(r, HEAD_SIZE + SizeOf[r])
        /\ nLastFile' = f
        /\ index' = index @@ (r :> pos)
        /\ SetCache(WriteToCache(Cache, [rec |-> r, part |-> 0], SizeOf[r], pos))

\* How much of a record may be there when it is not complete: a part of its head, or all
\* but its end.
Partial(r) == {1, HEAD_SIZE + SizeOf[r] - 1}

\* The stream throws after some of the record was written.
WriteFails(r, len) ==
    /\ r \in Unwritten
    /\ Put(r, len)
    /\ nLastFile' = GetLastFile(files, nLastFile, SizeOf[r])
    /\ UNCHANGED <<index, ring, mapCachePos>>

\* The process ends, perhaps in a Write, and starts again.
Crash ==
    /\ \/ UNCHANGED <<files, written>>
       \/ \E r \in Unwritten : \E len \in Partial(r) \union {HEAD_SIZE + SizeOf[r]} : Put(r, len)
    /\ nLastFile' = Initialize(files')
    /\ SetCache(NoCache)
    /\ UNCHANGED index

\* Read of a record, or of a part of one that is one unit long.
Read(r, part) ==
    LET pos == [index[r] EXCEPT !.nOffset = @ + part]
        size == IF part = 0 THEN SizeOf[r] ELSE 1
    IN  /\ r \in DOMAIN index /\ part < SizeOf[r]
        /\ pos \notin DOMAIN mapCachePos
        /\ SetCache(WriteToCache(Cache, CHOOSE i \in ReadDirect(pos) : TRUE, size, pos))
        /\ UNCHANGED <<files, nLastFile, index, written>>

Next ==
    \/ Crash
    \/ \E r \in Recs :
        \/ Write(r)
        \/ \E len \in Partial(r) : WriteFails(r, len)
        \/ \E part \in {0, 1} : Read(r, part)

Spec == Init /\ [][Next]_vars

-------------------------------------------------------------------------------
(* Properties                                                              *)

\* Read returns the record, or the part of it, that Write put at the position, whatever
\* was written, cached, dropped from the ring or lost in a crash since.
ReadBack ==
    \A r \in DOMAIN index :
        \A part \in {0, 1} :
            part < SizeOf[r] => Lookup([index[r] EXCEPT !.nOffset = @ + part]) = {[rec |-> r, part |-> part]}

\* No file is longer than WalkThrough accepts.
FileSizeOk == \A f \in DOMAIN files : Length(files[f]) <= MAX_FILE_SIZE

\* WalkThrough visits the records in the order in which they were written, up to the
\* first that was not written completely, or to a file that became too long; over
\* restarts and changes of file none is left out and none comes twice.
WalkInOrder ==
    LET n == SelectInSeq(written, LAMBDA p : ~ Whole(p))
        good == IF n = 0 THEN written ELSE SubSeq(written, 1, n - 1)
    IN  /\ IsPrefix(WalkThrough(files), good)
        /\ FileSizeOk => WalkThrough(files) = good

\* A snapshot of the files up to a record, walked through elsewhere, holds what was
\* written up to that record.
CopyInOrder ==
    \A r \in DOMAIN index :
        LET n == SelectInSeq(written, LAMBDA p : p.rec = r)
        IN  FlattenSeq(CopyToPath(files, index[r])) = SubSeq(written, 1, n)
=============================================================================
