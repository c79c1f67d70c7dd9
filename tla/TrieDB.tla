------------------------------- MODULE TrieDB -------------------------------
(***************************************************************************)
(* A database of tries (storage/triedb.cpp) as the fork, address, vote,     *)
(* contract and exchange databases use it: for each block, AddNewTrie adds  *)
(* the keys of the block to the trie of the block before it, and            *)
(* WriteTrieRoot then records the new root with the block.  Nodes are       *)
(* written one by one, in the order of their hashes, so that a crash may    *)
(* keep any of them; the root record is written after the last one.         *)
(*                                                                         *)
(* A node is found by the hash of its serialised form, and the form of a    *)
(* node depends on the order in which its links were set.  The hash is      *)
(* taken to be injective, so a node stands for its own hash, a store for    *)
(* the set of the nodes it holds, and Zero for the hash 0.                  *)
(***************************************************************************)
EXTENDS Integers, Sequences, SequencesExt, FiniteSets

CONSTANTS
    Keys,        \* the keys, sequences of bytes
    Versions,    \* the versions of the value of a key
    SameValues,  \* a value is its version, whatever the key it belongs to
    Removable,   \* the keys a batch may also remove, with an empty value
    BatchSizes,  \* bound: how many keys a batch holds
    MaxBatches,  \* bound: how many tries are recorded
    MaxCrashes,  \* bound: how many crashes happen
    WalkPrefixes \* the prefixes walks are asked for

VARIABLES
    stored,   \* the nodes stored
    tries,    \* the recorded roots, each with the keys it should hold and its batch
    adding,   \* the trie being added, if any
    crashes

vars == <<stored, tries, adding, crashes>>

Zero == [type |-> "zero"]

----------------------------------------------------------------------------
(* Keys as bytes and as nibbles.                                           *)

\* CKeyNibble::Byte2Nibble: a set flag says that the last byte holds a single
\* nibble, its high one.
Byte2Nibble(bt, flag) ==
    [i \in 1..(2 * Len(bt) - (IF bt # <<>> THEN flag ELSE 0)) |->
        LET d == bt[(i + 1) \div 2] IN IF i % 2 = 1 THEN d \div 16 ELSE d % 16]

Nibble2Byte(nb) ==
    [flag |-> Len(nb) % 2,
     bt |-> [i \in 1..((Len(nb) + 1) \div 2) |->
                16 * nb[2 * i - 1] + (IF 2 * i <= Len(nb) THEN nb[2 * i] ELSE 0)]]

----------------------------------------------------------------------------
(* Branches: two tables of sixteen links, next and value.  A table is an    *)
(* index of one byte per nibble into a vector of hashes; idx holds its      *)
(* non-zero entries.                                                        *)

INDEX_SIZE == 256

NewTable == [idx |-> <<>>, slots |-> <<>>]

Indexed(t, n) == n \in DOMAIN t.idx /\ t.idx[n] <= Len(t.slots)

\* GetNextHash and GetValueHash.
GetHash(t, n) == IF Indexed(t, n) THEN t.slots[t.idx[n]] ELSE Zero

WithIndex(t, n, x) ==
    [m \in (DOMAIN t.idx \cup {n}) \ (IF x = 0 THEN {n} ELSE {}) |->
        IF m = n THEN x ELSE t.idx[m]]

\* SetNextHash and SetValueHash: a removed link leaves its slot behind, and
\* the index of a new slot is a byte.
SetHash(t, n, h) ==
    IF ~Indexed(t, n)
    THEN IF h = Zero THEN t
         ELSE [idx |-> WithIndex(t, n, (Len(t.slots) + 1) % INDEX_SIZE),
               slots |-> Append(t.slots, h)]
    ELSE [idx |-> IF h = Zero THEN WithIndex(t, n, 0) ELSE t.idx,
          slots |-> [t.slots EXCEPT ![t.idx[n]] = h]]

NewBranch == [type |-> "branch", next |-> NewTable, val |-> NewTable]

----------------------------------------------------------------------------
(* Extensions: a key and at most two links; first says which came first.    *)

\* CTrieExtension with SetKey on a new one.
NewExtension(nb) ==
    LET k == Nibble2Byte(nb)
    IN  [type |-> "ext", first |-> "next", odd |-> k.flag, key |-> k.bt, link |-> <<>>]

GetKey(e) == Byte2Nibble(e.key, e.odd)

LinkAt(e, i) == IF Len(e.link) >= i THEN e.link[i] ELSE Zero

SetLink(e, i, h) ==
    [e EXCEPT !.link = IF Len(e.link) >= i THEN [@ EXCEPT ![i] = h] ELSE Append(@, h)]

GetExtNext(e) == LinkAt(e, IF e.first = "next" THEN 1 ELSE 2)

GetExtValue(e) == LinkAt(e, IF e.first = "next" THEN 2 ELSE 1)

SetExtNext(e, h) ==
    IF e.first = "next" THEN SetLink(e, 1, h)
    ELSE IF e.link = <<>> THEN [e EXCEPT !.first = "next", !.link = <<h>>]
    ELSE SetLink(e, 2, h)

SetExtValue(e, h) ==
    IF e.first = "value" THEN SetLink(e, 1, h)
    ELSE IF e.link = <<>> THEN [e EXCEPT !.first = "value", !.link = <<h>>]
    ELSE SetLink(e, 2, h)

----------------------------------------------------------------------------
(* Nodes.                                                                   *)

NoValue == <<>>

ValueNode(v) == [type |-> "value", v |-> v]

\* CTrieValue::CalcHash: a node that holds nothing has the hash 0.
CalcHash(node) ==
    LET holds == CASE node.type = "branch" ->
                          \E n \in 0..15 : GetHash(node.next, n) # Zero \/ GetHash(node.val, n) # Zero
                   [] node.type = "ext"    -> GetExtNext(node) # Zero \/ GetExtValue(node) # Zero
                   [] node.type = "value"  -> node.v # NoValue
    IN  IF holds THEN node ELSE Zero

\* The link of a node towards nibble n (an extension has only one).
SetNext(node, n, h) ==
    IF node.type = "branch" THEN [node EXCEPT !.next = SetHash(@, n, h)] ELSE SetExtNext(node, h)

SetValue(node, n, h) ==
    IF node.type = "branch" THEN [node EXCEPT !.val = SetHash(@, n, h)] ELSE SetExtValue(node, h)

GetValue(node, n) == IF node.type = "branch" THEN GetHash(node.val, n) ELSE GetExtValue(node)

----------------------------------------------------------------------------
(* The path of a key: the nodes to write, from the root down.  An entry is  *)
(* shared by the keys already there and the new one, or carries only the    *)
(* old keys, or only the new one.                                           *)

Entry(kind, old, new, node) == [kind |-> kind, old |-> old, new |-> new, node |-> node]

\* What is left of the new key below the last node it shares.
NewTail(sy) ==
    CASE Len(sy) = 0 -> <<>>
      [] Len(sy) = 1 -> <<Entry("new", <<>>, sy, NewBranch)>>
      [] OTHER       -> <<Entry("new", <<>>, sy, NewExtension(sy))>>

\* A new branch or extension that takes over the links of extension e.
TakesLinks(node, n, e) == SetValue(SetNext(node, n, GetExtNext(e)), n, GetExtValue(e))

\* What is left of the key of extension e below the node it shares.
OldTail(nk, e) ==
    CASE Len(nk) = 0 -> <<>>
      [] Len(nk) = 1 -> <<Entry("old", nk, <<>>, TakesLinks(NewBranch, nk[1], e))>>
      [] OTHER       -> <<Entry("old", nk, <<>>, TakesLinks(NewExtension(nk), 0, e))>>

\* The branch at which the key of e and the new key go on together or part.
SplitBranch(nk, sy, e) ==
    Entry("share", <<nk[1]>>, <<sy[1]>>,
          IF Len(nk) = 1 THEN TakesLinks(NewBranch, nk[1], e) ELSE NewBranch)

SplitExtension(same, nk, sy, e) ==
    LET node == NewExtension(SubSeq(nk, 1, same))
    IN  Entry("share", SubSeq(nk, 1, same), SubSeq(sy, 1, same),
              IF Len(nk) = same THEN TakesLinks(node, 0, e) ELSE node)

Drop(s, n) == SubSeq(s, n + 1, Len(s))

\* A step down: the entries it adds, and the hash and key to go on with.
Down(path, hash, sy) == [path |-> path, more |-> TRUE, hash |-> hash, sy |-> sy]
Stop(path) == [path |-> path, more |-> FALSE, hash |-> Zero, sy |-> <<>>]

GetBranchPath(sy, node) ==
    LET hash  == GetHash(node.next, sy[1])
        entry == Entry("share", <<>>, <<sy[1]>>, node)
    IN  IF Len(sy) > 1 /\ hash # Zero
        THEN Down(<<entry>>, hash, Tail(sy))
        ELSE Stop(<<entry>> \o NewTail(Tail(sy)))

\* The key of the extension is the beginning of the new one.
AlongExtension(e, nk, rest) ==
    IF GetExtNext(e) = Zero
    THEN Stop(<<Entry("share", nk, nk, e)>> \o NewTail(rest))
    ELSE Down(<<Entry("share", nk, nk, e)>>, GetExtNext(e), rest)

\* The two keys below the node they share; split: a branch parts them.
Parted(nk, sy, split, e) ==
    IF split /\ nk # <<>> /\ sy # <<>>
    THEN <<SplitBranch(nk, sy, e)>> \o OldTail(Tail(nk), e) \o NewTail(Tail(sy))
    ELSE OldTail(nk, e) \o NewTail(sy)

\* nk is the key of extension e, of which the first same nibbles agree with sy.
ExtensionPath(sy, nk, same, e) ==
    LET cut == IF same = 0 THEN 1 ELSE same
    IN  IF same = Len(nk) THEN AlongExtension(e, nk, Drop(sy, same))
        ELSE Stop(<<IF same <= 1 THEN SplitBranch(nk, sy, e) ELSE SplitExtension(same, nk, sy, e)>>
                     \o Parted(Drop(nk, cut), Drop(sy, cut), same > 0, e))

GetExtensionPath(sy, e) ==
    ExtensionPath(sy, GetKey(e), Len(LongestCommonPrefix({sy, GetKey(e)})), e)

NoPath == [ok |-> FALSE, path |-> <<>>, removed |-> {}]

RECURSIVE PathFrom(_, _, _, _, _, _, _)
PathFrom(hash, sy, root, path, removed, cache, db) ==
    CASE sy = <<>> -> [ok |-> TRUE, path |-> path, removed |-> removed]
      [] sy # <<>> /\ hash \notin cache \cup db ->
            IF hash = root
            THEN [ok |-> TRUE, path |-> path \o NewTail(sy), removed |-> removed]
            ELSE NoPath
      [] sy # <<>> /\ hash \in cache \cup db /\ hash.type = "value" -> NoPath
      [] OTHER ->
            LET gone == removed \cup ({hash} \cap cache)
                Take(step) ==
                    IF step.more
                    THEN PathFrom(step.hash, step.sy, root, path \o step.path, gone, cache, db)
                    ELSE [ok |-> TRUE, path |-> path \o step.path, removed |-> gone]
            IN  Take(IF hash.type = "branch" THEN GetBranchPath(sy, hash) ELSE GetExtensionPath(sy, hash))

\* A root that cannot be read starts a trie of its own, whatever its hash.
GetNodePath(root, key, cache, db) == PathFrom(root, key, root, <<>>, {}, cache, db)

----------------------------------------------------------------------------
(* CTrieDB::AddNode.                                                        *)

\* From the bottom up, every node that keeps old keys links to the one below.
RECURSIVE LinkOld(_, _, _)
LinkOld(path, i, below) ==
    IF i = 0 THEN path
    ELSE LET kv   == path[i]
             node == IF below # Zero /\ (kv.node.type = "ext" \/ kv.old # <<>>)
                     THEN SetNext(kv.node, IF kv.old = <<>> THEN 0 ELSE kv.old[1], below)
                     ELSE kv.node
         IN  IF kv.kind = "new" THEN LinkOld(path, i - 1, below)
             ELSE LinkOld([path EXCEPT ![i].node = node], i - 1, CalcHash(node))

\* From the bottom up, the last node on the way of the new key takes the value
\* and every other one links to the one below.
RECURSIVE LinkNew(_, _, _, _)
LinkNew(path, i, below, isValue) ==
    IF i = 0 THEN [same |-> FALSE, path |-> path, root |-> below]
    ELSE LET kv   == path[i]
             n    == kv.new[1]
             node == IF isValue THEN SetValue(kv.node, n, below) ELSE SetNext(kv.node, n, below)
         IN  CASE kv.kind = "old" -> LinkNew(path, i - 1, below, isValue)
               [] kv.kind # "old" /\ isValue /\ below # Zero /\ GetValue(kv.node, n) = below ->
                     [same |-> TRUE, path |-> path, root |-> Zero]
               [] OTHER -> LinkNew([path EXCEPT ![i].node = node], i - 1, CalcHash(node), FALSE)

LinkOldKeys(path) == LinkOld(path, Len(path), Zero)
LinkNewKey(path, value) == LinkNew(path, Len(path), value, TRUE)

\* t holds the root and the cache of the nodes made so far; new is the path with
\* its links set.
Added(t, found, value, new) ==
    CASE ~t.ok \/ ~found.ok -> [t EXCEPT !.ok = FALSE]
      [] t.ok /\ found.ok /\ new.same -> t
      [] OTHER ->
            LET made == {CalcHash(new.path[i].node) : i \in DOMAIN new.path} \cup {value}
            IN  [ok |-> TRUE, root |-> new.root,
                 cache |-> (t.cache \ found.removed) \cup (made \ {Zero})]

AddFound(t, found, value) ==
    Added(t, found, value, LinkNewKey(LinkOldKeys(found.path), value))

AddNode(t, key, v, db) ==
    AddFound(t, GetNodePath(t.root, key, t.cache, db), CalcHash(ValueNode(v)))

----------------------------------------------------------------------------
(* The order of a map keyed by bytes.                                       *)

Less(a, b) ==
    LET same == Len(LongestCommonPrefix({a, b}))
    IN  a # b /\ (Len(a) = same \/ (Len(b) > same /\ a[same + 1] < b[same + 1]))

InOrder(keys) == SetToSortSeq(keys, Less)

CreateTrieNodeList(root, kvs, db) ==
    FoldLeft(LAMBDA t, k : AddNode(t, Byte2Nibble(k, 0), kvs[k], db),
             [ok |-> TRUE, root |-> root, cache |-> {}], InOrder(DOMAIN kvs))

----------------------------------------------------------------------------
(* CTrieDB::GetKeyValue: the value of a key, or NoValue.                    *)

RECURSIVE ValueFrom(_, _, _)
ValueFrom(hash, sy, db) ==
    IF hash \notin db THEN NoValue
    ELSE CASE hash.type = "value"  -> IF sy = <<>> THEN hash.v ELSE NoValue
           [] hash.type = "branch" ->
                 IF sy = <<>> THEN NoValue
                 ELSE ValueFrom(GetHash(IF Len(sy) = 1 THEN hash.val ELSE hash.next, sy[1]), Tail(sy), db)
           [] hash.type = "ext"    ->
                 LET nk == GetKey(hash)
                 IN  IF sy = <<>> \/ ~IsPrefix(nk, sy) THEN NoValue
                     ELSE ValueFrom(IF Len(sy) = Len(nk) THEN GetExtValue(hash) ELSE GetExtNext(hash),
                                    Drop(sy, Len(nk)), db)

Retrieve(root, key, db) == ValueFrom(root, Byte2Nibble(key, 0), db)

----------------------------------------------------------------------------
(* CTrieDB::WalkThroughNode.  w holds the key to begin at, cleared once the *)
(* walk is there, the keys and values listed and whether a node was         *)
(* missing; limit is how many the walker asks for (0: all).                 *)

Over(w, limit) == limit > 0 /\ Len(w.out) >= limit

Agree(a, b) == IsPrefix(a, b) \/ IsPrefix(b, a)

\* The walk has come to the key it is to begin at.
Begun(w, prev) ==
    IF w.begin # <<>> /\ prev # <<>> /\ IsPrefix(w.begin, prev) THEN [w EXCEPT !.begin = <<>>] ELSE w

RECURSIVE WalkThroughNode(_, _, _, _, _, _, _)
WalkThroughNode(hash, prefix, reverse, prev, w, limit, db) ==
    LET begun == Begun(w, prev)
        Follow(x, h, p, k) == IF h = Zero \/ ~x.ok THEN x ELSE WalkThroughNode(h, p, reverse, k, x, limit, db)
        Both(x, value, next, p, k) == Follow(Follow(x, value, p, k), next, p, k)
        nibbles == IF reverse THEN [i \in 1..16 |-> 16 - i] ELSE [i \in 1..16 |-> i - 1]
        wanted  == SelectSeq(nibbles, LAMBDA n : /\ prefix # <<>> => n = prefix[1]
                                                 /\ n \in DOMAIN hash.val.idx \cup DOMAIN hash.next.idx)
        key     == GetKey(hash)
    IN  CASE Over(w, limit) -> w
          [] ~Over(w, limit) /\ hash \notin db -> [w EXCEPT !.ok = FALSE]
          [] ~Over(w, limit) /\ hash \in db /\ w.begin # <<>> /\ prev # <<>> /\ ~Agree(w.begin, prev) -> w
          [] OTHER ->
                CASE hash.type = "branch" ->
                        FoldLeft(LAMBDA x, n : IF Over(x, limit) THEN x
                                               ELSE Both(x, GetHash(hash.val, n), GetHash(hash.next, n),
                                                         Drop(prefix, 1), Append(prev, n)),
                                 begun, wanted)
                  [] hash.type = "ext" ->
                        IF Agree(prefix, key)
                        THEN Both(begun, GetExtValue(hash), GetExtNext(hash), Drop(prefix, Len(key)), prev \o key)
                        ELSE begun
                  [] hash.type = "value" ->
                        [begun EXCEPT !.out = Append(@, <<Nibble2Byte(prev).bt, hash.v>>)]

\* CTrieDB::WalkThroughTrie.
WalkThroughTrie(root, prefix, tail, reverse, limit, db) ==
    LET nb    == Byte2Nibble(prefix, 0)
        begin == IF tail = <<>> THEN <<>> ELSE nb \o Byte2Nibble(tail, 0)
        w     == [begin |-> begin, out |-> <<>>, ok |-> TRUE]
    IN  IF root = Zero THEN w ELSE WalkThroughNode(root, nb, reverse, <<>>, w, limit, db)

----------------------------------------------------------------------------
(* The database.                                                           *)

ValueOf(k, v) == IF SameValues THEN <<v>> ELSE <<k, v>>

ValuesOf(k) == {ValueOf(k, v) : v \in Versions} \cup (IF k \in Removable THEN {NoValue} ELSE {})

Batches ==
    UNION {{f \in [ks -> UNION {ValuesOf(k) : k \in ks}] : \A k \in ks : f[k] \in ValuesOf(k)} :
            ks \in {s \in SUBSET Keys : Cardinality(s) \in BatchSizes}}

\* What a trie holds after a batch.
After(kvs, batch) ==
    [k \in {j \in DOMAIN kvs \cup DOMAIN batch : j \in DOMAIN batch => batch[j] # NoValue} |->
        IF k \in DOMAIN batch THEN batch[k] ELSE kvs[k]]

EmptyTrie == [root |-> Zero, kvs |-> <<>>, batch |-> <<>>]

Nothing == [todo |-> {}, trie |-> EmptyTrie]

Init == /\ stored = {}
        /\ tries = {EmptyTrie}
        /\ adding = Nothing
        /\ crashes = 0

----------------------------------------------------------------------------
\* CTrieDB::AddNewTrie up to the first write.
AddNewTrie(trie, batch) ==
    /\ adding = Nothing
    /\ Cardinality(tries) <= MaxBatches
    /\ \E t \in {CreateTrieNodeList(trie.root, batch, stored)} :
          /\ t.ok
          /\ adding' = [todo |-> t.cache,
                        trie |-> [root |-> t.root, kvs |-> After(trie.kvs, batch), batch |-> batch]]
    /\ UNCHANGED <<stored, tries, crashes>>

SetDbNodeValues ==
    /\ adding.todo # {}
    /\ stored' = stored \cup adding.todo
    /\ adding' = [adding EXCEPT !.todo = {}]
    /\ UNCHANGED <<tries, crashes>>

WriteTrieRoot_First ==
    /\ adding # Nothing
    /\ tries' = tries \cup {adding.trie}
    /\ adding' = IF adding.todo = {} THEN Nothing ELSE adding
    /\ UNCHANGED <<stored, crashes>>

WriteTrieRoot ==
    /\ adding # Nothing
    /\ adding.todo = {}
    /\ tries' = tries \cup {adding.trie}
    /\ adding' = Nothing
    /\ UNCHANGED <<stored, crashes>>

\* The node stops with some of the nodes of the trie written, and no root.
Crash ==
    /\ adding # Nothing
    /\ crashes < MaxCrashes
    /\ \E written \in SUBSET adding.todo : stored' = stored \cup written
    /\ adding' = Nothing
    /\ crashes' = crashes + 1
    /\ UNCHANGED tries

Next ==
    \/ \E trie \in tries, batch \in Batches : AddNewTrie(trie, batch)
    \/ SetDbNodeValues
    \/ WriteTrieRoot
    \/ Crash

Spec == Init /\ [][Next]_vars

----------------------------------------------------------------------------

\* Under every recorded root, Retrieve finds each key with the value the last
\* batch that named it gave it, and no other key: what later batches, other
\* branches and interrupted writes add changes nothing.
Retrievable ==
    \A t \in tries : \A k \in Keys :
        Retrieve(t.root, k, stored) = IF k \in DOMAIN t.kvs THEN t.kvs[k] ELSE NoValue

Listing(kvs, keys, reverse) ==
    LET ks == IF reverse THEN Reverse(InOrder(keys)) ELSE InOrder(keys)
    IN  [i \in 1..Len(ks) |-> <<ks[i], kvs[ks[i]]>>]

\* WalkThroughTrie under a recorded root finds every node and lists exactly the
\* keys with the prefix, in order or in reverse, from the key it is told to begin
\* at when the trie holds that key, and stops after as many as the walker wants.
WalksInOrder ==
    \A t \in tries : \A p \in WalkPrefixes, reverse \in BOOLEAN, limit \in 0..1 :
        LET keys == {k \in DOMAIN t.kvs : IsPrefix(p, k)}
            From(b) == {k \in keys : k = b \/ (IF reverse THEN Less(k, b) ELSE Less(b, k))}
            Cut(s) == IF limit = 0 THEN s ELSE SubSeq(s, 1, IF Len(s) < limit THEN Len(s) ELSE limit)
            Lists(w, listed) == w.ok /\ w.out = Cut(Listing(t.kvs, listed, reverse))
        IN  /\ Lists(WalkThroughTrie(t.root, p, <<>>, reverse, limit, stored), keys)
            /\ \A b \in keys \ {p} :
                  Lists(WalkThroughTrie(t.root, p, Drop(b, Len(p)), reverse, limit, stored), From(b))
=============================================================================
