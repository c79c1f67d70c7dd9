-------------------------- MODULE SnapshotDownProofs --------------------------
(***************************************************************************)
(* A local file is a beginning of the remote one, for any files, sizes,    *)
(* chunk size, lost connections, failures and restarts.                    *)
(*                                                                         *)
(* The chunks are appended without looking at their offset, so that this   *)
(* needs more than the handlers show: there is one request or one answer   *)
(* at a time, whichever connections it belongs to.  An answer is the first *)
(* thing in the queue that is no farewell; behind it a newer connection    *)
(* may be announced, and a request is made only when none is (InTurn,      *)
(* OneAtATime).  Thus nothing changes a file while a chunk of it is asked  *)
(* for or on its way (Aligned).                                            *)
(***************************************************************************)
EXTENDS SnapshotDown, FiniteSetTheorems, WellFoundedInduction, TLAPS

\* What is sent to the peer, and what reaches the channel.
Requests == {FilelistReq} \cup [msg : {"downdata_req"}, file : Files, offset : Nat]

Events ==
    [msg : {"active", "deactive"}, net : Nat \ {0}]
      \cup [msg : {"filelist_rsp"}, net : Nat \ {0}, size : [Files -> Nat]]
      \cup [msg : {"downdata_rsp"}, net : Nat \ {0}, file : Files, offset : Nat, data : Seq(Nat)]

Answers == {"filelist_rsp", "downdata_rsp"}

\* The types; no event is of a connection that is still to come.
Typed ==
    /\ connections \in Nat /\ link \in {0, connections}
    /\ requests \in Seq(Requests) /\ events \in Seq(Events)
    /\ vRemoteSnapFilelist \in Seq(Files)
    /\ local \in [Files -> Seq(Nat)] /\ remote \in [Files -> Nat]
    /\ \A i \in DOMAIN events : events[i].net =< connections

\* Only farewells come before an answer, and connections come in order.
InTurn(q) ==
    \A i, j \in DOMAIN q :
        i < j =>
            /\ q[j].msg \in Answers => q[i].msg = "deactive"
            /\ q[j].msg = "active" /\ q[i].msg # "deactive" => q[i].net < q[j].net

Quiet(q) == \A i \in DOMAIN q : q[i].msg = "deactive"

\* One request or one answer.
OneAtATime ==
    /\ InTurn(events)
    /\ Len(requests) =< 1
    /\ requests # <<>> => Quiet(events) /\ link # 0

\* What is asked for, or on its way, continues the local file.
Aligned ==
    /\ \A i \in DOMAIN requests :
          requests[i].msg = "downdata_req" => requests[i].offset = Len(local[requests[i].file])
    /\ \A i \in DOMAIN events :
          events[i].msg = "downdata_rsp" =>
              /\ events[i].offset = Len(local[events[i].file])
              /\ \A k \in DOMAIN events[i].data : events[i].data[k] = events[i].offset + k

\* The inductive invariant.
DownInv == Typed /\ OneAtATime /\ Aligned /\ LocalIsPrefix

-------------------------------------------------------------------------------
(* Queues                                                                  *)

\* What is behind the head of a queue.
LEMMA TailFacts ==
    ASSUME NEW S, NEW q \in Seq(S), q # <<>>
    PROVE  /\ Head(q) = q[1] /\ Head(q) \in S /\ 1 \in DOMAIN q /\ DOMAIN q \subseteq Nat
           /\ Tail(q) \in Seq(S) /\ Len(Tail(q)) = Len(q) - 1
           /\ \A i \in DOMAIN Tail(q) :
                 i \in Nat /\ i + 1 \in DOMAIN q /\ 1 < i + 1 /\ Tail(q)[i] = q[i + 1]
<1>1. Head(q) = q[1] /\ Head(q) \in S /\ Tail(q) \in Seq(S) /\ Len(Tail(q)) = Len(q) - 1
  OBVIOUS
<1>2. /\ DOMAIN q = 1 .. Len(q) /\ DOMAIN Tail(q) = 1 .. Len(q) - 1
      /\ \A i \in 1 .. Len(q) - 1 : Tail(q)[i] = q[i + 1]
      /\ Len(q) \in Nat \ {0}
  BY <1>1
<1> QED
  BY <1>1, <1>2

\* What an element at the end changes.
LEMMA AppendFacts ==
    ASSUME NEW S, NEW q \in Seq(S), NEW e \in S
    PROVE  /\ Append(q, e) \in Seq(S) /\ DOMAIN q \subseteq Nat
           /\ Append(q, e) # <<>> /\ Len(Append(q, e)) = Len(q) + 1
           /\ \A i \in DOMAIN Append(q, e) :
                 \/ i \in DOMAIN q /\ Append(q, e)[i] = q[i]
                 \/ i = Len(q) + 1 /\ i \notin DOMAIN q /\ Append(q, e)[i] = e
           /\ \A i \in DOMAIN q : i < Len(q) + 1
<1>1. Len(q) \in Nat /\ DOMAIN q = 1 .. Len(q)
  OBVIOUS
<1>2. /\ Append(q, e) \in Seq(S) /\ Len(Append(q, e)) = Len(q) + 1
      /\ \A i \in 1 .. Len(q) : Append(q, e)[i] = q[i]
      /\ Append(q, e)[Len(q) + 1] = e
  OBVIOUS
<1>3. DOMAIN Append(q, e) = 1 .. Len(q) + 1 /\ Append(q, e) # <<>>
  BY <1>1, <1>2
<1> QED
  BY <1>1, <1>2, <1>3

\* A beginning of a queue.
LEMMA CutFacts ==
    ASSUME NEW S, NEW q \in Seq(S), NEW n \in 0 .. Len(q)
    PROVE  /\ SubSeq(q, 1, n) \in Seq(S) /\ Len(SubSeq(q, 1, n)) = n
           /\ \A i \in DOMAIN SubSeq(q, 1, n) : i \in DOMAIN q /\ SubSeq(q, 1, n)[i] = q[i]
<1>1. Len(q) \in Nat /\ DOMAIN q = 1 .. Len(q) /\ n \in Nat
  OBVIOUS
<1>2. /\ SubSeq(q, 1, n) \in Seq(S) /\ Len(SubSeq(q, 1, n)) = n
      /\ \A i \in 1 .. n : SubSeq(q, 1, n)[i] = q[i]
  <2>1. \A i \in 1 .. n : q[i] \in S
    BY <1>1
  <2> QED
    BY <1>1, <2>1
<1>3. DOMAIN SubSeq(q, 1, n) = 1 .. n
  BY <1>2
<1> QED
  BY <1>1, <1>2, <1>3

\* Events that are taken from the front keep the rest in turn.
LEMMA TailInTurn ==
    ASSUME NEW q \in Seq(Events), q # <<>>, InTurn(q)
    PROVE  /\ InTurn(Tail(q))
           /\ q[1].msg # "deactive" => \A i \in DOMAIN Tail(q) : Tail(q)[i].msg \notin Answers
<1> HIDE DEF Events, Answers
<1>1. /\ 1 \in DOMAIN q
      /\ \A i \in DOMAIN Tail(q) :
            i \in Nat /\ i + 1 \in DOMAIN q /\ 1 < i + 1 /\ Tail(q)[i] = q[i + 1]
  BY TailFacts
<1>2. ASSUME NEW i \in DOMAIN Tail(q), NEW j \in DOMAIN Tail(q), i < j
      PROVE  /\ Tail(q)[j].msg \in Answers => Tail(q)[i].msg = "deactive"
             /\ Tail(q)[j].msg = "active" /\ Tail(q)[i].msg # "deactive" => Tail(q)[i].net < Tail(q)[j].net
  <2>1. i + 1 < j + 1 /\ i + 1 \in DOMAIN q /\ j + 1 \in DOMAIN q
    BY <1>1, <1>2
  <2> QED
    BY <1>1, <2>1 DEF InTurn
<1>3. ASSUME NEW i \in DOMAIN Tail(q), q[1].msg # "deactive"
      PROVE  Tail(q)[i].msg \notin Answers
  BY <1>1, <1>3 DEF InTurn
<1> QED
  BY <1>2, <1>3 DEF InTurn

\* Once the newest connection's event is handled only farewells are left.
LEMMA QuietAfter ==
    ASSUME NEW q \in Seq(Events), q # <<>>, InTurn(q), q[1].msg # "deactive",
           NEW c \in Nat, q[1].net = c, \A i \in DOMAIN q : q[i].net =< c
    PROVE  Quiet(Tail(q))
<1>1. /\ 1 \in DOMAIN q /\ Tail(q) \in Seq(Events)
      /\ \A i \in DOMAIN Tail(q) :
            i \in Nat /\ i + 1 \in DOMAIN q /\ 1 < i + 1 /\ Tail(q)[i] = q[i + 1]
  BY TailFacts
<1>2. ASSUME NEW i \in DOMAIN Tail(q) PROVE Tail(q)[i].msg = "deactive"
  <2>1. /\ i + 1 \in DOMAIN q /\ 1 < i + 1 /\ Tail(q)[i] = q[i + 1] /\ q[i + 1] \in Events
    BY <1>1
  <2>2. q[i + 1].msg \in Answers \cup {"active", "deactive"} /\ q[i + 1].net \in Nat
    BY <2>1 DEF Events, Answers
  <2>3. q[i + 1].msg \notin Answers
    BY <1>1, <2>1 DEF InTurn
  <2>4. q[i + 1].msg = "active" => q[1].net < q[i + 1].net
    BY <1>1, <2>1 DEF InTurn
  <2>5. q[i + 1].net =< c
    BY <2>1
  <2> QED
    BY <2>1, <2>2, <2>3, <2>4, <2>5, SMTT(30)
<1> QED
  BY <1>2 DEF Quiet

\* An event is added in turn: a farewell always, a connection newer than all, an
\* answer when only farewells are there.
LEMMA AppendInTurn ==
    ASSUME NEW q \in Seq(Events), InTurn(q), NEW e \in Events,
           \/ e.msg = "deactive"
           \/ e.msg = "active" /\ \A i \in DOMAIN q : q[i].net < e.net
           \/ Quiet(q)
    PROVE  InTurn(Append(q, e))
<1> DEFINE a == Append(q, e)
<1>1. /\ DOMAIN q \subseteq Nat
      /\ \A i \in DOMAIN a : \/ i \in DOMAIN q /\ a[i] = q[i]
                             \/ i = Len(q) + 1 /\ i \notin DOMAIN q /\ a[i] = e
      /\ \A i \in DOMAIN q : i < Len(q) + 1
      /\ Len(q) \in Nat
  BY AppendFacts
<1> HIDE DEF a
<1>2. ASSUME NEW i \in DOMAIN a, NEW j \in DOMAIN a, i < j
      PROVE  /\ a[j].msg \in Answers => a[i].msg = "deactive"
             /\ a[j].msg = "active" /\ a[i].msg # "deactive" => a[i].net < a[j].net
  <2>1. i \in DOMAIN q /\ a[i] = q[i]
    BY <1>1, <1>2
  <2>2. CASE j \in DOMAIN q
    <3>1. a[j] = q[j]
      BY <1>1, <2>2
    <3> QED
      BY <1>2, <2>1, <2>2, <3>1, SMTT(30) DEF InTurn
  <2>3. CASE j \notin DOMAIN q
    <3>1. a[j] = e
      BY <1>1, <2>3
    <3> QED
      BY <2>1, <3>1 DEF Quiet, Answers
  <2> QED
    BY <2>2, <2>3
<1> QED
  BY <1>2 DEF InTurn, a

-------------------------------------------------------------------------------
(* Files                                                                   *)

\* A chunk is the bytes from its offset on.
LEMMA ChunkFacts ==
    ASSUME NEW f \in Files, remote \in [Files -> Nat], NEW nOffset \in Nat
    PROVE  /\ ReadSnapshotFileData(f, nOffset) \in Seq(Nat)
           /\ \A k \in DOMAIN ReadSnapshotFileData(f, nOffset) :
                 ReadSnapshotFileData(f, nOffset)[k] = nOffset + k
<1> DEFINE size == remote[f]
           file == [i \in 1 .. size |-> i]
           from == nOffset + 1
           to == IF size - nOffset > READ_SNAPSHOT_FILE_SIZE THEN nOffset + READ_SNAPSHOT_FILE_SIZE ELSE size
           chunk == SubSeq(file, from, to)
<1>1. size \in Nat /\ READ_SNAPSHOT_FILE_SIZE \in Nat /\ from \in Nat /\ to \in Nat /\ to =< size
      /\ from >= 1
  BY DownAssumption
<1>2. file \in Seq(Nat) /\ Len(file) = size /\ \A i \in 1 .. size : file[i] = i
  <2> HIDE DEF size
  <2>1. file \in [1 .. size -> Nat]
    BY <1>1
  <2> QED
    BY <1>1, <2>1
<1>3. ReadSnapshotFileData(f, nOffset) = chunk
  BY DEF ReadSnapshotFileData
<1>4. chunk \in Seq(Nat) /\ \A k \in DOMAIN chunk : chunk[k] = nOffset + k
  <2> HIDE DEF size, file, to
  <2>1. CASE from =< to
    <3>1. \A i \in from .. to : file[i] \in Nat
      BY <1>1, <1>2
    <3>2. /\ chunk \in Seq(Nat) /\ Len(chunk) = to - from + 1
          /\ \A k \in 1 .. to - from + 1 : chunk[k] = file[from + k - 1]
      BY <1>1, <1>2, <2>1, <3>1
    <3>3. DOMAIN chunk = 1 .. to - from + 1
      BY <3>2
    <3>4. ASSUME NEW k \in DOMAIN chunk PROVE chunk[k] = nOffset + k
      <4>1. k \in 1 .. to - from + 1 /\ from + k - 1 \in 1 .. size /\ from + k - 1 = nOffset + k
        BY <1>1, <2>1, <3>3
      <4> QED
        BY <1>2, <3>2, <4>1
    <3> QED
      BY <3>2, <3>4
  <2>2. CASE ~ (from =< to)
    <3>1. chunk = <<>>
      BY <1>1, <1>2, <2>2
    <3> HIDE DEF chunk
    <3> QED
      BY <3>1
  <2> QED
    BY <2>1, <2>2
<1> QED
  BY <1>3, <1>4, SMTT(30)

\* Bytes that continue the file are appended to it.
LEMMA Appended ==
    ASSUME local \in [Files -> Seq(Nat)], LocalIsPrefix, NEW f \in Files, NEW d \in Seq(Nat),
           \A k \in DOMAIN d : d[k] = Len(local[f]) + k,
           local' = [local EXCEPT ![f] = @ \o d]
    PROVE  /\ local' \in [Files -> Seq(Nat)] /\ LocalIsPrefix'
           /\ Len(local'[f]) = Len(local[f]) + Len(d)
<1> DEFINE old == local[f]
           new == old \o d
<1>1. old \in Seq(Nat) /\ Len(old) \in Nat /\ DOMAIN old = 1 .. Len(old)
      /\ Len(d) \in Nat /\ DOMAIN d = 1 .. Len(d)
  OBVIOUS
<1>2. \A i \in 1 .. Len(old) : old[i] = i
  BY <1>1 DEF LocalIsPrefix
<1>3. local' = [local EXCEPT ![f] = new]
  OBVIOUS
<1>4. \A k \in 1 .. Len(d) : d[k] = Len(old) + k
  BY <1>1, Zenon
<1> HIDE DEF old
<1>5. /\ new \in Seq(Nat) /\ Len(new) = Len(old) + Len(d)
      /\ \A i \in 1 .. Len(old) + Len(d) : new[i] = IF i =< Len(old) THEN old[i] ELSE d[i - Len(old)]
  BY <1>1
<1>6. DOMAIN new = 1 .. Len(old) + Len(d)
  BY <1>5
<1>7. ASSUME NEW i \in DOMAIN new PROVE new[i] = i
  <2>1. i \in 1 .. Len(old) + Len(d)
    BY <1>6
  <2>2. CASE i =< Len(old)
    <3>1. i \in 1 .. Len(old) /\ new[i] = old[i]
      BY <1>1, <1>5, <2>1, <2>2, SMTT(30)
    <3> QED
      BY <1>2, <3>1
  <2>3. CASE ~ (i =< Len(old))
    <3>1. i - Len(old) \in 1 .. Len(d) /\ new[i] = d[i - Len(old)]
      BY <1>1, <1>5, <2>1, <2>3, SMTT(30)
    <3>2. d[i - Len(old)] = Len(old) + (i - Len(old))
      BY <1>4, <3>1, SMTT(30)
    <3> QED
      BY <1>1, <2>1, <3>1, <3>2, SMTT(30)
  <2> QED
    BY <2>2, <2>3
<1> HIDE DEF new
<1>8. local' \in [Files -> Seq(Nat)] /\ local'[f] = new /\ \A g \in Files : g # f => local'[g] = local[g]
  BY <1>3, <1>5, Zenon
<1>9. LocalIsPrefix'
  BY <1>7, <1>8 DEF LocalIsPrefix
<1> QED
  BY <1>5, <1>8, <1>9 DEF old

\* The first of a set of naturals, which Min picks.
LEMMA MinIsLeast ==
    ASSUME NEW S \in SUBSET Nat, S # {}
    PROVE  Min(S) \in S
<1> DEFINE R == {p \in Nat \X Nat : p[1] < p[2]}
<1>1. IsWellFoundedOn(R, Nat)
  BY NatLessThanWellFounded DEF OpToRel
<1>2. PICK x \in S : \A y \in S : ~ (<<y, x>> \in R)
  <2> HIDE DEF R
  <2> QED
    BY <1>1, WFMin, Zenon
<1>3. ASSUME NEW y \in S PROVE x =< y
  <2>1. y < x => <<y, x>> \in R
    OBVIOUS
  <2>2. x \in Nat /\ y \in Nat /\ ~ (y < x)
    BY <1>2, <2>1
  <2> QED
    BY <2>2
<1> QED
  BY <1>3, Zenon DEF Min

\* Erasing a name from the list of files.
LEMMA EraseFile ==
    ASSUME NEW q \in Seq(Files), NEW f
    PROVE  RemoveFirst(q, f) \in Seq(Files)
<1> DEFINE I == {i \in 1 .. Len(q) : q[i] = f}
<1>1. CASE I = {}
  BY <1>1 DEF RemoveFirst
<1>2. CASE I # {}
  <2> DEFINE m == Min(I)
  <2>1. m \in 1 .. Len(q)
    <3>1. I \in SUBSET Nat /\ I \subseteq 1 .. Len(q)
      OBVIOUS
    <3> HIDE DEF I
    <3> QED
      BY <1>2, <3>1, MinIsLeast, Zenon
  <2>2. RemoveFirst(q, f) = RemoveAt(q, m)
    BY <1>2 DEF RemoveFirst, SelectInSeq
  <2> HIDE DEF m
  <2>3. SubSeq(q, 1, m - 1) \in Seq(Files) /\ SubSeq(q, m + 1, Len(q)) \in Seq(Files)
    BY <2>1
  <2> QED
    BY <2>2, <2>3 DEF RemoveAt
<1> QED
  BY <1>1, <1>2

-------------------------------------------------------------------------------
(* The steps                                                               *)

\* The shortest queues.
LEMMA ShortQueues ==
    ASSUME NEW S, NEW r \in S
    PROVE  /\ <<>> \in Seq(S) /\ Len(<<>>) =< 1
           /\ <<r>> \in Seq(S) /\ Len(<<r>>) =< 1 /\ \A i \in DOMAIN <<r>> : <<r>>[i] = r
OBVIOUS

\* A request that is answered: the answer is the only one.
LEMMA AnsweredStep ==
    ASSUME DownInv, requests # <<>>, requests' = Tail(requests), NEW e \in Events,
           events' = Append(events, e) \/ events' = events, e.net = link,
           UNCHANGED <<link, connections, local, remote, vRemoteSnapFilelist>>,
           e.msg = "downdata_rsp" =>
              e.offset = Len(local[e.file]) /\ \A k \in DOMAIN e.data : e.data[k] = e.offset + k
    PROVE  DownInv'
<1>1. /\ requests \in Seq(Requests) /\ events \in Seq(Events) /\ Len(requests) =< 1 /\ InTurn(events)
      /\ Quiet(events) /\ connections \in Nat /\ link \in {0, connections}
      /\ \A i \in DOMAIN events : events[i].net =< connections
  BY DEF DownInv, Typed, OneAtATime
<1> HIDE DEF Events, Requests, Answers
<1>2. requests' = <<>>
  <2>1. requests' \in Seq(Requests) /\ Len(requests') = Len(requests) - 1
    BY <1>1, TailFacts
  <2>2. Len(requests) \in Nat /\ Len(requests') \in Nat
    BY <1>1, <2>1
  <2>3. Len(requests') = 0
    BY <1>1, <2>1, <2>2
  <2> QED
    BY <2>1, <2>3
<1>3. /\ events' \in Seq(Events)
      /\ \A i \in DOMAIN events' : (i \in DOMAIN events /\ events'[i] = events[i]) \/ events'[i] = e
  <2>1. CASE events' = events
    BY <1>1, <2>1
  <2>2. CASE events' = Append(events, e)
    <3> DEFINE a == Append(events, e)
    <3>1. a \in Seq(Events) /\ \A i \in DOMAIN a : (i \in DOMAIN events /\ a[i] = events[i]) \/ a[i] = e
      BY <1>1, AppendFacts
    <3> HIDE DEF a
    <3> QED
      BY <2>2, <3>1 DEF a
  <2> QED
    BY <2>1, <2>2
<1>4. InTurn(events')
  BY <1>1, AppendInTurn, Zenon
<1>5. \A i \in DOMAIN events' : events'[i].net =< connections
  BY <1>1, <1>3, SMTT(30)
<1>6. Typed'
  BY <1>2, <1>3, <1>5 DEF DownInv, Typed
<1>7. OneAtATime'
  <2>1. Len(requests') =< 1
    BY <1>2, ShortQueues, Zenon
  <2> QED
    BY <1>2, <1>4, <2>1 DEF OneAtATime
<1>8. Aligned'
  BY <1>2, <1>3 DEF DownInv, Aligned
<1> QED
  BY <1>6, <1>7, <1>8 DEF DownInv, LocalIsPrefix

\* An event that is handled: what it asks for is asked for alone.
LEMMA HandledStep ==
    ASSUME DownInv, events # <<>>, events' = Tail(events), UNCHANGED <<link, connections, remote>>,
           vRemoteSnapFilelist' \in Seq(Files), local' \in [Files -> Seq(Nat)], LocalIsPrefix',
           \/ UNCHANGED <<requests, local>>
           \/ /\ events[1].msg # "deactive"
              /\ \E r \in Requests :
                    /\ requests' = Dispatch(events[1].net, requests, r)
                    /\ r.msg = "downdata_req" => r.offset = Len(local'[r.file])
    PROVE  DownInv'
<1>1. /\ requests \in Seq(Requests) /\ events \in Seq(Events) /\ Len(requests) =< 1 /\ InTurn(events)
      /\ requests # <<>> => Quiet(events) /\ link # 0
      /\ connections \in Nat /\ link \in {0, connections}
      /\ \A i \in DOMAIN events : events[i].net =< connections
  BY DEF DownInv, Typed, OneAtATime
<1>2. /\ 1 \in DOMAIN events /\ events[1].net \in Nat \ {0}
  <2>1. 1 \in DOMAIN events /\ events[1] \in Events
    BY <1>1, TailFacts
  <2> QED
    BY <2>1 DEF Events
<1> HIDE DEF Events, Answers
<1>3. /\ events' \in Seq(Events) /\ InTurn(events')
      /\ events[1].msg # "deactive" => \A i \in DOMAIN events' : events'[i].msg \notin Answers
      /\ \A i \in DOMAIN events' : i + 1 \in DOMAIN events /\ events'[i] = events[i + 1]
  BY <1>1, TailFacts, TailInTurn, SMTT(30)
<1>4. \A i \in DOMAIN events' : events'[i].net =< connections
  BY <1>1, <1>3
<1>5. CASE UNCHANGED <<requests, local>>
  <2>1. Typed'
    BY <1>3, <1>4, <1>5 DEF DownInv, Typed
  <2>2. Quiet(events) => Quiet(events')
    BY <1>3 DEF Quiet
  <2>3. OneAtATime'
    BY <1>1, <1>3, <1>5, <2>2, SMTT(30) DEF OneAtATime
  <2>4. Aligned'
    BY <1>3, <1>5 DEF DownInv, Aligned
  <2> QED
    BY <2>1, <2>3, <2>4 DEF DownInv
<1>6. ASSUME events[1].msg # "deactive",
             NEW r \in Requests, requests' = Dispatch(events[1].net, requests, r),
             r.msg = "downdata_req" => r.offset = Len(local'[r.file])
      PROVE  DownInv'
  <2> HIDE DEF Requests
  <2>1. requests = <<>>
    BY <1>1, <1>2, <1>6 DEF Quiet
  <2>2. requests' = <<>> \/ (requests' = <<r>> /\ link = events[1].net)
    BY <1>6, <2>1 DEF Dispatch
  <2>3. requests' \in Seq(Requests) /\ Len(requests') =< 1
    <3>1. CASE requests' = <<>>
      BY <3>1, ShortQueues, Zenon
    <3>2. CASE requests' = <<r>>
      BY <3>2, ShortQueues, Zenon
    <3> QED
      BY <2>2, <3>1, <3>2
  <2>4. requests' # <<>> => Quiet(events') /\ link # 0
    <3> SUFFICES ASSUME requests' # <<>> PROVE Quiet(events') /\ link # 0
      OBVIOUS
    <3>1. link = events[1].net /\ link # 0 /\ link = connections
      BY <1>1, <1>2, <2>2
    <3> QED
      BY <1>1, <1>6, <3>1, QuietAfter, Zenon
  <2>5. Typed'
    BY <1>3, <1>4, <2>3 DEF DownInv, Typed
  <2>6. OneAtATime'
    BY <1>3, <2>3, <2>4 DEF OneAtATime
  <2>7. \A i \in DOMAIN requests' : requests'[i] = r
    BY <2>2
  <2>8. Aligned'
    BY <1>3, <1>6, <2>7, SMTT(30) DEF Aligned, Answers
  <2> QED
    BY <2>5, <2>6, <2>8 DEF DownInv
<1> QED
  BY <1>5, <1>6

\* The peer answers with its list.
LEMMA FilelistReqStep ==
    ASSUME DownInv, HandleMsgFilelistReq
    PROVE  DownInv'
<1> DEFINE e == [msg |-> "filelist_rsp", net |-> link, size |-> remote]
<1>1. /\ requests # <<>> /\ requests' = Tail(requests)
      /\ UNCHANGED <<link, connections, local, remote, vRemoteSnapFilelist>>
      /\ events' = Append(events, e)
  BY DEF HandleMsgFilelistReq, network, Dispatch
<1>2. link \in Nat \ {0} /\ remote \in [Files -> Nat]
  BY <1>1 DEF DownInv, Typed, OneAtATime
<1>3. e \in Events /\ e.net = link /\ e.msg # "downdata_rsp"
  BY <1>2 DEF Events
<1> HIDE DEF e
<1> QED
  BY <1>1, <1>3, AnsweredStep, SMTT(30)

\* The peer answers with a chunk, or does not answer.
LEMMA DownDataReqStep ==
    ASSUME DownInv, HandleMsgDownDataReq
    PROVE  DownInv'
<1> DEFINE r == Head(requests)
           d == ReadSnapshotFileData(r.file, r.offset)
           e == [msg |-> "downdata_rsp", net |-> link, file |-> r.file, offset |-> r.offset, data |-> d]
<1>1. /\ requests # <<>> /\ requests' = Tail(requests) /\ r.msg = "downdata_req"
      /\ UNCHANGED <<link, connections, local, remote, vRemoteSnapFilelist>>
      /\ events' = Append(events, e) \/ events' = events
  BY DEF HandleMsgDownDataReq, network, Dispatch
<1>2. link \in Nat \ {0} /\ remote \in [Files -> Nat] /\ requests \in Seq(Requests)
  BY <1>1 DEF DownInv, Typed, OneAtATime
<1>3. r \in Requests /\ r = requests[1] /\ 1 \in DOMAIN requests
  <2> HIDE DEF Requests
  <2> QED
    BY <1>1, <1>2, TailFacts, SMTT(30)
<1>4. r.file \in Files /\ r.offset \in Nat
  BY <1>1, <1>3 DEF Requests, FilelistReq
<1>5. r.offset = Len(local[r.file])
  BY <1>1, <1>3 DEF DownInv, Aligned
<1> HIDE DEF r
<1>6. d \in Seq(Nat) /\ \A k \in DOMAIN d : d[k] = r.offset + k
  BY <1>2, <1>4, ChunkFacts, Zenon
<1> HIDE DEF d
<1>7. e \in Events /\ e.net = link /\ e.file = r.file /\ e.offset = r.offset /\ e.data = d
  BY <1>2, <1>4, <1>6, SMTT(30) DEF Events
<1> HIDE DEF e
<1> QED
  BY <1>1, <1>5, <1>6, <1>7, AnsweredStep, SMTT(30)

\* The peer's files change.
LEMMA RemoteStep ==
    ASSUME DownInv, SaveSnapshotData \/ RemoveSnapshot
    PROVE  DownInv'
<1>1. UNCHANGED <<link, connections, requests, events, vRemoteSnapFilelist, local>>
  BY DEF SaveSnapshotData, RemoveSnapshot, network
<1>2. remote \in [Files -> Nat]
  BY DEF DownInv, Typed
<1>3. remote' \in [Files -> Nat]
  BY <1>2 DEF SaveSnapshotData, RemoveSnapshot
<1> QED
  BY <1>1, <1>3 DEF DownInv, Typed, OneAtATime, Aligned, LocalIsPrefix

\* The next file is asked for from where the local one ends.
LEMMA NextFile ==
    ASSUME NEW n, NEW q \in Seq(Files), RequstNextFile(n, q), local \in [Files -> Seq(Nat)]
    PROVE  \/ requests' = requests
           \/ \E r \in Requests :
                 /\ requests' = Dispatch(n, requests, r)
                 /\ r.msg = "downdata_req" => r.offset = Len(local[r.file])
<1>1. CASE q = <<>>
  BY <1>1 DEF RequstNextFile
<1>2. CASE q # <<>>
  <2> DEFINE f == Head(q)
             r == DownDataReq(f, Len(local[f]))
  <2>1. requests' = Dispatch(n, requests, r)
    BY <1>2 DEF RequstNextFile
  <2>2. f \in Files
    BY <1>2
  <2> HIDE DEF f
  <2>3. Len(local[f]) \in Nat
    BY <2>2
  <2>4. r \in Requests /\ r.file = f /\ r.offset = Len(local[f])
    BY <2>2, <2>3 DEF Requests, DownDataReq
  <2> HIDE DEF r
  <2> QED
    BY <2>1, <2>4
<1> QED
  BY <1>1, <1>2

\* The channel handles an event.
LEMMA HandleStep ==
    ASSUME DownInv, Handle
    PROVE  DownInv'
<1>1. /\ events # <<>> /\ events' = Tail(events) /\ UNCHANGED <<link, connections, remote>>
  BY Zenon DEF Handle, HandlePeerActive, HandlePeerDeactive, HandleMsgFilelistRsp, HandleMsgDownDataRsp,
         Event, network
<1>2. /\ events \in Seq(Events) /\ vRemoteSnapFilelist \in Seq(Files)
      /\ local \in [Files -> Seq(Nat)] /\ LocalIsPrefix
  BY DEF DownInv, Typed
<1>3. Head(events) = events[1] /\ events[1] \in Events /\ 1 \in DOMAIN events
  <2> HIDE DEF Events
  <2> QED
    BY <1>1, <1>2, TailFacts
<1>4. CASE UNCHANGED <<requests, local, vRemoteSnapFilelist>>
  <2>1. LocalIsPrefix'
    BY <1>2, <1>4 DEF LocalIsPrefix
  <2> QED
    BY <1>1, <1>2, <1>4, <2>1, HandledStep, SMTT(30)
<1>5. CASE HandlePeerActive
  <2>1. /\ UNCHANGED <<local, vRemoteSnapFilelist>> /\ events[1].msg = "active"
        /\ requests' = Dispatch(events[1].net, requests, FilelistReq)
    BY <1>3, <1>5 DEF HandlePeerActive, Event
  <2>2. FilelistReq \in Requests /\ FilelistReq.msg # "downdata_req"
    BY DEF Requests, FilelistReq
  <2>3. LocalIsPrefix'
    BY <1>2, <2>1 DEF LocalIsPrefix
  <2> QED
    BY <1>1, <1>2, <2>1, <2>2, <2>3, HandledStep, SMTT(30)
<1>6. CASE HandlePeerDeactive
  BY <1>4, <1>6 DEF HandlePeerDeactive
<1>7. CASE HandleMsgFilelistRsp
  <2> DEFINE e == Head(events)
             listed == {f \in Files : e.size[f] > 0}
             wanted == {f \in listed : Needed(f, e.size[f])}
  <2>1. CASE UNCHANGED <<vRemoteSnapFilelist, requests>>
    BY <1>4, <1>7, <2>1, SMTT(30) DEF HandleMsgFilelistRsp
  <2>2. ASSUME NEW order \in SetToSeqs(wanted),
               vRemoteSnapFilelist' = vRemoteSnapFilelist \o order,
               RequstNextFile(e.net, vRemoteSnapFilelist \o order)
        PROVE  DownInv'
    <3>1. wanted \subseteq Files
      OBVIOUS
    <3> HIDE DEF wanted
    <3>2. order \in Seq(Files)
      <4> DEFINE c == Cardinality(wanted)
      <4>1. c \in Nat
        BY <3>1, DownAssumption, FS_Subset, FS_CardinalityType, SMTT(30)
      <4>2. order \in [1 .. c -> wanted]
        BY <2>2 DEF SetToSeqs
      <4> HIDE DEF c
      <4>3. order \in [1 .. c -> Files]
        BY <3>1, <4>2
      <4> QED
        BY <4>1, <4>3
    <3>3. vRemoteSnapFilelist \o order \in Seq(Files)
      BY <1>2, <3>2
    <3>4. /\ local' = local /\ events[1].msg # "deactive" /\ e = events[1]
      BY <1>3, <1>7 DEF HandleMsgFilelistRsp, Event
    <3>5. LocalIsPrefix'
      BY <1>2, <3>4 DEF LocalIsPrefix
    <3>6. \/ requests' = requests
          \/ \E r \in Requests :
                /\ requests' = Dispatch(e.net, requests, r)
                /\ r.msg = "downdata_req" => r.offset = Len(local[r.file])
      BY <1>2, <2>2, <3>3, NextFile, Zenon
    <3> HIDE DEF Events, Requests
    <3> QED
      BY <1>1, <1>2, <2>2, <3>3, <3>4, <3>5, <3>6, HandledStep, SMTT(30)
  <2> QED
    BY <1>7, <2>1, <2>2, Zenon DEF HandleMsgFilelistRsp
<1>8. CASE HandleMsgDownDataRsp
  <2> DEFINE e == Head(events)
  <2>1. e = events[1] /\ e.msg = "downdata_rsp"
    BY <1>3, <1>8 DEF HandleMsgDownDataRsp, Event
  <2>2. e.file \in Files /\ e.offset \in Nat /\ e.data \in Seq(Nat)
    BY <1>3, <2>1 DEF Events
  <2>3. e.offset = Len(local[e.file]) /\ \A k \in DOMAIN e.data : e.data[k] = e.offset + k
    BY <1>3, <2>1 DEF DownInv, Aligned
  <2>4. \/ UNCHANGED <<requests, local, vRemoteSnapFilelist>>
        \/ EndOfFile(e.net, e.file) /\ UNCHANGED local
        \/ /\ local' = [local EXCEPT ![e.file] = @ \o e.data]
           /\ requests' = Dispatch(e.net, requests, DownDataReq(e.file, e.offset + Len(e.data)))
           /\ UNCHANGED vRemoteSnapFilelist
    BY <1>8, Zenon DEF HandleMsgDownDataRsp
  <2> HIDE DEF e, Events, Requests
  <2>5. CASE EndOfFile(e.net, e.file) /\ UNCHANGED local
    <3> DEFINE q == RemoveFirst(vRemoteSnapFilelist, e.file)
    <3>1. vRemoteSnapFilelist' = q /\ RequstNextFile(e.net, q) /\ q \in Seq(Files)
      BY <1>2, <2>5, EraseFile DEF EndOfFile
    <3> HIDE DEF q
    <3>2. \/ requests' = requests
          \/ \E r \in Requests :
                /\ requests' = Dispatch(e.net, requests, r)
                /\ r.msg = "downdata_req" => r.offset = Len(local[r.file])
      BY <1>2, <3>1, NextFile
    <3>3. LocalIsPrefix' /\ local' = local
      BY <1>2, <2>5 DEF LocalIsPrefix
    <3> QED
      BY <1>1, <1>2, <2>1, <3>1, <3>2, <3>3, HandledStep, SMTT(30)
  <2>6. CASE /\ local' = [local EXCEPT ![e.file] = @ \o e.data]
             /\ requests' = Dispatch(e.net, requests, DownDataReq(e.file, e.offset + Len(e.data)))
             /\ UNCHANGED vRemoteSnapFilelist
    <3> DEFINE f == e.file
               d == e.data
               r == DownDataReq(f, e.offset + Len(d))
    <3>1. f \in Files /\ d \in Seq(Nat) /\ (\A k \in DOMAIN d : d[k] = Len(local[f]) + k)
      BY <2>2, <2>3
    <3>2. requests' = Dispatch(e.net, requests, r) /\ local' = [local EXCEPT ![f] = @ \o d]
      BY <2>6
    <3>3. e.offset + Len(d) \in Nat
      BY <2>2
    <3>4. r \in Requests /\ r.file = f /\ r.offset = e.offset + Len(d)
      BY <3>1, <3>3 DEF Requests, DownDataReq
    <3> HIDE DEF f, d, r
    <3>5. /\ local' \in [Files -> Seq(Nat)] /\ LocalIsPrefix'
          /\ Len(local'[f]) = Len(local[f]) + Len(d)
      BY <1>2, <3>1, <3>2, Appended, Zenon
    <3>6. r.offset = Len(local'[r.file])
      BY <2>3, <3>4, <3>5, SMTT(30) DEF f
    <3> QED
      BY <1>1, <1>2, <2>1, <2>6, <3>2, <3>4, <3>5, <3>6, HandledStep, Zenon
  <2> QED
    BY <1>4, <2>4, <2>5, <2>6, Zenon
<1> QED
  BY <1>5, <1>6, <1>7, <1>8 DEF Handle

\* A connection comes; its number is larger than all before.
LEMMA ConnectStep ==
    ASSUME DownInv, Connect
    PROVE  DownInv'
<1> DEFINE e == [msg |-> "active", net |-> connections + 1]
           a == Append(events, e)
<1>1. /\ link = 0 /\ connections' = connections + 1 /\ link' = connections + 1
      /\ events' = a /\ UNCHANGED <<requests, vRemoteSnapFilelist, local, remote>>
  BY DEF Connect
<1>2. /\ connections \in Nat /\ events \in Seq(Events) /\ InTurn(events) /\ requests = <<>>
      /\ \A i \in DOMAIN events : events[i].net =< connections
  BY <1>1 DEF DownInv, Typed, OneAtATime
<1>3. e \in Events /\ e.msg = "active" /\ e.net = connections + 1
  BY <1>2 DEF Events
<1>4. \A i \in DOMAIN events : events[i].net \in Nat
  BY <1>2 DEF Events
<1> HIDE DEF e, Events
<1>5. a \in Seq(Events) /\ \A i \in DOMAIN a : (i \in DOMAIN events /\ a[i] = events[i]) \/ a[i] = e
  BY <1>2, <1>3, AppendFacts, SMTT(30)
<1>6. InTurn(a)
  <2>1. \A i \in DOMAIN events : events[i].net < e.net
    BY <1>2, <1>3, <1>4, SMTT(30)
  <2> QED
    BY <1>2, <1>3, <2>1, AppendInTurn, SMTT(30)
<1> HIDE DEF a
<1>7. \A i \in DOMAIN a : a[i].net =< connections + 1
  BY <1>2, <1>3, <1>4, <1>5, SMTT(30)
<1>8. Typed'
  BY <1>1, <1>2, <1>5, <1>7, SMTT(30) DEF DownInv, Typed
<1>9. OneAtATime'
  BY <1>1, <1>2, <1>6, SMTT(30) DEF DownInv, OneAtATime
<1>10. Aligned'
  BY <1>1, <1>3, <1>5, SMTT(30) DEF DownInv, Aligned
<1> QED
  BY <1>1, <1>8, <1>9, <1>10, SMTT(30) DEF DownInv, LocalIsPrefix

\* A connection goes, with what was under way on it.
LEMMA DisconnectStep ==
    ASSUME DownInv, Disconnect
    PROVE  DownInv'
<1>1. /\ link # 0 /\ link' = 0 /\ requests' = <<>>
      /\ UNCHANGED <<connections, vRemoteSnapFilelist, local, remote>>
  BY DEF Disconnect
<1>2. /\ connections \in Nat /\ link = connections /\ events \in Seq(Events) /\ InTurn(events)
      /\ \A i \in DOMAIN events : events[i].net =< connections
  BY <1>1 DEF DownInv, Typed, OneAtATime
<1> DEFINE e == [msg |-> "deactive", net |-> link]
<1>3. PICK n \in 0 .. Len(events) : events' = Append(SubSeq(events, 1, n), e)
  BY DEF Disconnect
<1>4. e \in Events /\ e.msg = "deactive" /\ e.net = connections
  BY <1>1, <1>2 DEF Events
<1> DEFINE c == SubSeq(events, 1, n)
           a == Append(c, e)
<1> HIDE DEF e, Events
<1>5. c \in Seq(Events) /\ \A i \in DOMAIN c : i \in DOMAIN events /\ c[i] = events[i]
  BY <1>2, CutFacts
<1>6. InTurn(c)
  BY <1>2, <1>5 DEF InTurn
<1>7. events' = a
  BY <1>3
<1> HIDE DEF c
<1>8. InTurn(a)
  BY <1>4, <1>5, <1>6, AppendInTurn, SMTT(30)
<1>9. a \in Seq(Events) /\ \A i \in DOMAIN a : (i \in DOMAIN c /\ a[i] = c[i]) \/ a[i] = e
  BY <1>4, <1>5, AppendFacts, SMTT(30)
<1> HIDE DEF a
<1>10. \A i \in DOMAIN a : (i \in DOMAIN events /\ a[i] = events[i]) \/ a[i] = e
  BY <1>5, <1>9
<1>11. \A i \in DOMAIN a : a[i].net =< connections
  BY <1>2, <1>4, <1>10, SMTT(30)
<1>12. Typed'
  BY <1>1, <1>2, <1>7, <1>9, <1>11, SMTT(30) DEF DownInv, Typed
<1>13. OneAtATime'
  <2>1. Len(requests') =< 1
    BY <1>1, ShortQueues, Zenon
  <2> QED
    BY <1>1, <1>7, <1>8, <2>1, SMTT(30) DEF OneAtATime
<1>14. Aligned'
  BY <1>1, <1>4, <1>7, <1>10, SMTT(30) DEF DownInv, Aligned
<1> QED
  BY <1>1, <1>12, <1>13, <1>14, SMTT(30) DEF DownInv, LocalIsPrefix

\* The node stops, also in the middle of a write.
LEMMA CrashStep ==
    ASSUME DownInv, Crash
    PROVE  DownInv'
<1>1. /\ link' = 0 /\ requests' = <<>> /\ events' = <<>> /\ vRemoteSnapFilelist' = <<>>
      /\ UNCHANGED <<connections, remote>>
  BY DEF Crash
<1>2. /\ connections \in Nat /\ events \in Seq(Events) /\ local \in [Files -> Seq(Nat)] /\ LocalIsPrefix
      /\ remote \in [Files -> Nat]
  BY DEF DownInv, Typed
<1>3. local' \in [Files -> Seq(Nat)] /\ LocalIsPrefix'
  <2>1. CASE UNCHANGED local
    BY <1>2, <2>1 DEF LocalIsPrefix
  <2>2. ASSUME events # <<>>, Head(events).msg = "downdata_rsp", NEW n \in 1 .. Len(Head(events).data),
               local' = [local EXCEPT ![Head(events).file] = @ \o SubSeq(Head(events).data, 1, n)]
        PROVE  local' \in [Files -> Seq(Nat)] /\ LocalIsPrefix'
    <3> DEFINE e == Head(events)
               f == e.file
               d == e.data
               w == SubSeq(d, 1, n)
    <3>1. e = events[1] /\ e \in Events /\ 1 \in DOMAIN events
      <4> HIDE DEF Events
      <4> QED
        BY <1>2, <2>2, TailFacts, SMTT(30)
    <3>2. f \in Files /\ e.offset \in Nat /\ d \in Seq(Nat)
      BY <2>2, <3>1 DEF Events
    <3>3. e.offset = Len(local[f]) /\ \A k \in DOMAIN d : d[k] = e.offset + k
      BY <2>2, <3>1 DEF DownInv, Aligned
    <3>4. local' = [local EXCEPT ![f] = @ \o w] /\ n \in 0 .. Len(d)
      BY <2>2, <3>2, SMTT(30)
    <3> HIDE DEF e, f, d
    <3>5. w \in Seq(Nat) /\ \A i \in DOMAIN w : i \in DOMAIN d /\ w[i] = d[i]
      BY <3>2, <3>4, CutFacts, SMTT(30)
    <3>6. \A k \in DOMAIN w : w[k] = Len(local[f]) + k
      BY <3>3, <3>5
    <3> HIDE DEF w
    <3> QED
      BY <1>2, <3>2, <3>4, <3>5, <3>6, Appended, ZenonT(30)
  <2> QED
    BY <2>1, <2>2, Zenon DEF Crash
<1>4. \A S : <<>> \in Seq(S) /\ Len(<<>>) =< 1 /\ DOMAIN <<>> = {}
  OBVIOUS
<1>5. Typed'
  BY <1>1, <1>2, <1>3, <1>4, SMTT(30) DEF Typed
<1>6. OneAtATime'
  BY <1>1, <1>4 DEF OneAtATime, InTurn
<1>7. Aligned'
  BY <1>1, <1>4 DEF Aligned
<1> QED
  BY <1>3, <1>5, <1>6, <1>7, SMTT(30) DEF DownInv

-------------------------------------------------------------------------------
(* The theorems                                                            *)

\* The invariant of the download, over connections and restarts of both nodes
\* (CSnapshotDownChannel).
THEOREM DownInvariant == Spec => []DownInv
<1>1. Init => DownInv
  <2> SUFFICES ASSUME Init PROVE DownInv
    OBVIOUS
  <2>1. \A S : <<>> \in Seq(S) /\ Len(<<>>) =< 1 /\ DOMAIN <<>> = {}
    OBVIOUS
  <2>2. local \in [Files -> Seq(Nat)] /\ LocalIsPrefix
    BY <2>1 DEF Init, LocalIsPrefix
  <2>3. Typed
    BY <2>1, <2>2, DownAssumption, SMTT(30) DEF Init, Typed
  <2>4. OneAtATime /\ Aligned
    BY <2>1 DEF Init, OneAtATime, InTurn, Aligned
  <2> QED
    BY <2>2, <2>3, <2>4, SMTT(30) DEF DownInv
<1>2. DownInv /\ [Next]_vars => DownInv'
  <2> SUFFICES ASSUME DownInv, [Next]_vars PROVE DownInv'
    OBVIOUS
  <2>1. CASE UNCHANGED vars
    BY <2>1 DEF vars, network, DownInv, Typed, OneAtATime, Aligned, LocalIsPrefix
  <2> QED
    BY <2>1, FilelistReqStep, DownDataReqStep, RemoteStep, HandleStep, ConnectStep, DisconnectStep,
       CrashStep, SMTT(30) DEF Next
<1> QED
  BY <1>1, <1>2, PTL DEF Spec

\* At all times a local file is a beginning of the remote one, although the
\* chunks are appended without looking at their offset
\* (WriteSnapshotDownFileData, HandleMsgDownDataRsp).
THEOREM LocalAlwaysPrefix == Spec => []LocalIsPrefix
<1>1. DownInv => LocalIsPrefix
  BY DEF DownInv
<1> QED
  BY <1>1, DownInvariant, PTL
===============================================================================
