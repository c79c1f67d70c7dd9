---------------------------- MODULE DelegateProofs ----------------------------
(***************************************************************************)
(* Proofs about two things the delegates rely on: the tables of DataSched  *)
(* stay in agreement, for every set of peers and of items, and Parallel is *)
(* right about its tasks, for any number of tasks and threads.             *)
(***************************************************************************)
EXTENDS DataSched, Parallel, TLAPS

-------------------------------------------------------------------------------
(* The tables of the requests                                              *)


\* The inductive invariant.
DataSound(d) == IsData(d) /\ HoldersAgreeIn(d) /\ AskedAgreeIn(d) /\ ~d.fNull

\* Reading mapData[x], with or without an entry, gives a CDataKnown.
LEMMA DataOfType ==
    ASSUME NEW d, IsData(d), NEW x \in Idents
    PROVE  /\ DataOf(d, x) \in DataKnown
           /\ DataOf(d, x).setKnownPeer \subseteq Peers
           /\ DataOf(d, x).nAssigned \in Peers \cup {NoPeer}
BY DEF IsData, DataOf, NewDataKnown, DataKnown

\* ActivatePeer adds a peer that has nothing, or leaves the tables alone.
LEMMA ActivatePeerSound ==
    ASSUME NEW d, DataSound(d), NEW p \in Peers
    PROVE  DataSound(ActivatePeer(d, p))
<1>1. CASE p \in DOMAIN d.mapPeer
  BY <1>1 DEF ActivatePeer
<1>2. CASE p \notin DOMAIN d.mapPeer
  <2> DEFINE mp == [q \in DOMAIN d.mapPeer \cup {p} |->
                       IF q = p THEN NewDataPeer ELSE d.mapPeer[q]]
             e == ActivatePeer(d, p)
  <2>1. e = [d EXCEPT !.mapPeer = mp]
    BY <1>2 DEF ActivatePeer
  <2>2. /\ mp \in [DOMAIN mp -> DataPeer] /\ DOMAIN mp = DOMAIN d.mapPeer \cup {p}
        /\ mp[p] = NewDataPeer /\ \A q \in DOMAIN d.mapPeer : mp[q] = d.mapPeer[q]
    BY <1>2 DEF DataSound, IsData, NewDataPeer, DataPeer
  <2> HIDE DEF mp
  <2>3. /\ IsData(e) /\ e.mapPeer = mp /\ e.mapData = d.mapData /\ ~e.fNull
    BY <2>1, <2>2 DEF DataSound, IsData
  <2>4. \A x \in Idents : DataOf(e, x) = DataOf(d, x) /\ DataOf(d, x).setKnownPeer \subseteq Peers
    BY <2>3, DataOfType DEF DataOf, DataSound
  <2>5. \A x \in Idents : p \notin DataOf(d, x).setKnownPeer /\ DataOf(d, x).nAssigned # p
    BY <1>2, NoPeerAssumption DEF DataSound, HoldersAgreeIn, AskedAgreeIn
  <2> HIDE DEF e
  <2>6. HoldersAgreeIn(e)
    BY <1>2, <2>2, <2>3, <2>4, <2>5 DEF DataSound, HoldersAgreeIn, NewDataPeer
  <2>7. AskedAgreeIn(e)
    BY <1>2, <2>2, <2>3, <2>4, <2>5 DEF DataSound, AskedAgreeIn, NewDataPeer
  <2>8. QED
    BY <2>3, <2>6, <2>7 DEF DataSound, e
<1>3. QED
  BY <1>1, <1>2

\* DeactivatePeer takes the peer out of every item it had.
LEMMA DeactivatePeerSound ==
    ASSUME NEW d, DataSound(d), NEW p \in Peers
    PROVE  DataSound(DeactivatePeer(d, p))
<1>1. CASE p \notin DOMAIN d.mapPeer
  BY <1>1 DEF DeactivatePeer
<1>2. CASE p \in DOMAIN d.mapPeer
  <2> DEFINE list == d.mapPeer[p].listDataIdent
             mp == [q \in DOMAIN d.mapPeer \ {p} |-> d.mapPeer[q]]
             md == [x \in DOMAIN d.mapData \cup list |->
                       IF x \in list THEN ForgetKnownPeer(DataOf(d, x), p) ELSE d.mapData[x]]
             e == DeactivatePeer(d, p)
  <2>1. e = [mapPeer |-> mp, mapData |-> md, fNull |-> d.fNull]
    BY <1>2 DEF DeactivatePeer
  <2>2. list \subseteq Idents
    BY <1>2 DEF DataSound, IsData, DataPeer
  <2>3. /\ mp \in [DOMAIN mp -> DataPeer] /\ DOMAIN mp = DOMAIN d.mapPeer \ {p}
        /\ \A q \in DOMAIN mp : mp[q] = d.mapPeer[q]
    BY DEF DataSound, IsData
  <2>4. \A x \in list : ForgetKnownPeer(DataOf(d, x), p) \in DataKnown
    BY <2>2, DataOfType DEF DataSound, ForgetKnownPeer, DataKnown
  <2>5. /\ md \in [DOMAIN md -> DataKnown] /\ DOMAIN md \subseteq Idents
        /\ DOMAIN md = DOMAIN d.mapData \cup list
        /\ \A x \in list : md[x] = ForgetKnownPeer(DataOf(d, x), p)
        /\ \A x \in DOMAIN d.mapData \ list : md[x] = d.mapData[x]
    BY <2>2, <2>4 DEF DataSound, IsData
  <2>6. \A x \in Idents : x \in list <=> p \in DataOf(d, x).setKnownPeer
    BY <1>2 DEF DataSound, HoldersAgreeIn
  <2> HIDE DEF mp, md
  <2>7. IsData(e) /\ e.mapPeer = mp /\ e.mapData = md /\ ~e.fNull
    BY <2>1, <2>3, <2>5 DEF DataSound, IsData
  <2> HIDE DEF list
  <2>8. ASSUME NEW x \in Idents
        PROVE  /\ DataOf(e, x).setKnownPeer = DataOf(d, x).setKnownPeer \ {p}
               /\ DataOf(e, x).nAssigned =
                     IF DataOf(d, x).nAssigned = p THEN NoPeer ELSE DataOf(d, x).nAssigned
    <3>1. CASE x \in list
      BY <2>5, <2>7, <3>1 DEF DataOf, ForgetKnownPeer
    <3>2. CASE x \notin list
      <4>1. DataOf(e, x) = DataOf(d, x)
        BY <2>5, <2>7, <3>2 DEF DataOf
      <4>2. p \notin DataOf(d, x).setKnownPeer /\ DataOf(d, x).nAssigned # p
        BY <2>6, <3>2, NoPeerAssumption DEF DataSound, AskedAgreeIn
      <4>3. QED
        BY <4>1, <4>2
    <3>3. QED
      BY <3>1, <3>2
  <2> HIDE DEF e
  <2>9. HoldersAgreeIn(e)
    BY <2>3, <2>7, <2>8 DEF DataSound, HoldersAgreeIn
  <2>a. \A x \in Idents : DataOf(e, x).nAssigned \in DataOf(e, x).setKnownPeer \cup {NoPeer}
    BY <2>8 DEF DataSound, AskedAgreeIn
  <2>b. \A q \in DOMAIN mp : q \in Peers /\ q # p /\ q # NoPeer
    BY <2>3, NoPeerAssumption DEF DataSound, IsData
  <2>c. \A q \in DOMAIN mp, x \in Idents :
           DataOf(e, x).nAssigned = q <=> DataOf(d, x).nAssigned = q
    BY <2>8, <2>b
  <2>d. \A q \in DOMAIN mp :
           mp[q].fAssigned <=> \E x \in Idents : DataOf(e, x).nAssigned = q
    BY <2>3, <2>c DEF DataSound, AskedAgreeIn
  <2>e. \A x, y \in Idents :
           DataOf(e, x).nAssigned = DataOf(e, y).nAssigned /\ DataOf(e, x).nAssigned # NoPeer
              => x = y
    BY <2>8 DEF DataSound, AskedAgreeIn
  <2>10. AskedAgreeIn(e)
    BY <2>7, <2>a, <2>d, <2>e DEF AskedAgreeIn
  <2>11. QED
    BY <2>7, <2>9, <2>10 DEF DataSound, e
<1>3. QED
  BY <1>1, <1>2

\* AddKnownData enters the offer in both tables, or in neither.
LEMMA AddKnownDataSound ==
    ASSUME NEW d, DataSound(d), NEW p \in Peers, NEW x \in Idents
    PROVE  DataSound(AddKnownData(d, p, x))
<1>1. CASE p \notin DOMAIN d.mapPeer
  BY <1>1 DEF AddKnownData
<1>2. CASE p \in DOMAIN d.mapPeer
  <2> DEFINE v == [listDataIdent |-> d.mapPeer[p].listDataIdent \cup {x},
                   fAssigned |-> d.mapPeer[p].fAssigned]
             w == [setKnownPeer |-> DataOf(d, x).setKnownPeer \cup {p},
                   nAssigned |-> DataOf(d, x).nAssigned]
             mp == [d.mapPeer EXCEPT ![p] = v]
             md == [y \in DOMAIN d.mapData \cup {x} |-> IF y = x THEN w ELSE d.mapData[y]]
             e == AddKnownData(d, p, x)
  <2>1. e = [mapPeer |-> mp, mapData |-> md, fNull |-> d.fNull]
    BY <1>2 DEF AddKnownData
  <2>2. v \in DataPeer
    BY <1>2 DEF DataSound, IsData, DataPeer
  <2>3. w \in DataKnown
    BY DataOfType DEF DataSound, DataKnown
  <2>4. /\ v.listDataIdent = d.mapPeer[p].listDataIdent \cup {x}
        /\ v.fAssigned = d.mapPeer[p].fAssigned
        /\ w.setKnownPeer = DataOf(d, x).setKnownPeer \cup {p}
        /\ w.nAssigned = DataOf(d, x).nAssigned
    OBVIOUS
  <2> HIDE DEF v, w
  <2>5. /\ mp \in [DOMAIN mp -> DataPeer] /\ DOMAIN mp = DOMAIN d.mapPeer
        /\ mp[p] = v /\ \A q \in DOMAIN mp \ {p} : mp[q] = d.mapPeer[q]
    BY <1>2, <2>2 DEF DataSound, IsData
  <2>6. /\ md \in [DOMAIN md -> DataKnown] /\ DOMAIN md \subseteq Idents
        /\ DOMAIN md = DOMAIN d.mapData \cup {x}
        /\ md[x] = w /\ \A y \in DOMAIN d.mapData \ {x} : md[y] = d.mapData[y]
    BY <2>3 DEF DataSound, IsData
  <2> HIDE DEF mp, md
  <2>7. IsData(e) /\ e.mapPeer = mp /\ e.mapData = md /\ ~e.fNull
    BY <2>1, <2>5, <2>6 DEF DataSound, IsData
  <2>8. DataOf(e, x) = w /\ \A y \in Idents \ {x} : DataOf(e, y) = DataOf(d, y)
    BY <2>6, <2>7 DEF DataOf
  <2>9. \A y \in Idents : DataOf(e, y).nAssigned = DataOf(d, y).nAssigned
    BY <2>4, <2>8
  <2>10. \A q \in DOMAIN mp : mp[q].fAssigned = d.mapPeer[q].fAssigned
    BY <2>4, <2>5
  <2> HIDE DEF e
  <2>11. HoldersAgreeIn(e)
    BY <1>2, <2>4, <2>5, <2>7, <2>8 DEF DataSound, HoldersAgreeIn
  <2>12. \A y \in Idents : DataOf(e, y).nAssigned \in DataOf(e, y).setKnownPeer \cup {NoPeer}
    BY <2>4, <2>8 DEF DataSound, AskedAgreeIn
  <2>13. AskedAgreeIn(e)
    BY <2>5, <2>7, <2>9, <2>10, <2>12 DEF DataSound, AskedAgreeIn
  <2>14. QED
    BY <2>7, <2>11, <2>13 DEF DataSound, e
<1>3. QED
  BY <1>1, <1>2

\* RemoveKnownData erases the item from the list of every peer that has it, and
\* frees the one that was asked for it; every peer it follows has an entry.
LEMMA RemoveKnownDataSound ==
    ASSUME NEW d, DataSound(d), NEW x \in Idents
    PROVE  DataSound(RemoveKnownData(d, x))
<1>1. CASE x \notin DOMAIN d.mapData
  BY <1>1 DEF RemoveKnownData
<1>2. CASE x \in DOMAIN d.mapData
  <2> DEFINE known == d.mapData[x]
             drop(p) == IF p \in known.setKnownPeer
                        THEN [listDataIdent |-> d.mapPeer[p].listDataIdent \ {x},
                              fAssigned |-> d.mapPeer[p].fAssigned]
                        ELSE d.mapPeer[p]
             mp == [p \in DOMAIN d.mapPeer |->
                       IF p = known.nAssigned THEN Released(drop(p)) ELSE drop(p)]
             md == [y \in DOMAIN d.mapData \ {x} |-> d.mapData[y]]
             nul == \/ d.fNull
                    \/ ~ known.setKnownPeer \cup {known.nAssigned}
                             \subseteq DOMAIN d.mapPeer \cup {NoPeer}
             e == RemoveKnownData(d, x)
  <2>1. e = [mapPeer |-> mp, mapData |-> md, fNull |-> nul]
    BY <1>2 DEF RemoveKnownData
  <2>2. known = DataOf(d, x) /\ known \in DataKnown /\ known.setKnownPeer \subseteq Peers
    BY <1>2, DataOfType DEF DataOf, DataSound
  <2>3. /\ known.nAssigned \in known.setKnownPeer \cup {NoPeer}
        /\ \A p \in Peers : p \in known.setKnownPeer <=>
              p \in DOMAIN d.mapPeer /\ x \in d.mapPeer[p].listDataIdent
    BY <2>2 DEF DataSound, AskedAgreeIn, HoldersAgreeIn
  <2>4. nul = FALSE
    BY <2>2, <2>3 DEF DataSound
  <2>5. \A p \in DOMAIN d.mapPeer : p \in Peers /\ d.mapPeer[p] \in DataPeer
    BY DEF DataSound, IsData
  <2> HIDE DEF known
  <2>6. \A p \in DOMAIN d.mapPeer :
           /\ drop(p) \in DataPeer
           /\ drop(p).listDataIdent = d.mapPeer[p].listDataIdent \ {x}
           /\ drop(p).fAssigned = d.mapPeer[p].fAssigned
    BY <2>3, <2>5, Zenon DEF DataPeer
  <2> HIDE DEF drop
  <2>7. /\ mp \in [DOMAIN mp -> DataPeer] /\ DOMAIN mp = DOMAIN d.mapPeer
        /\ \A p \in DOMAIN mp :
              /\ mp[p].listDataIdent = d.mapPeer[p].listDataIdent \ {x}
              /\ mp[p].fAssigned <=> d.mapPeer[p].fAssigned /\ p # known.nAssigned
    BY <2>6 DEF DataPeer, Released
  <2>8. /\ md \in [DOMAIN md -> DataKnown] /\ DOMAIN md \subseteq Idents
        /\ DOMAIN md = DOMAIN d.mapData \ {x}
        /\ \A y \in DOMAIN md : md[y] = d.mapData[y]
    BY DEF DataSound, IsData
  <2> HIDE DEF mp, md, nul
  <2>f. e = [mapPeer |-> mp, mapData |-> md, fNull |-> FALSE] /\ DOMAIN d.mapPeer \subseteq Peers
    BY <2>1, <2>4, Zenon DEF DataSound, IsData
  <2>9. IsData(e) /\ e.mapPeer = mp /\ e.mapData = md /\ ~e.fNull
    BY <2>f, <2>7, <2>8 DEF IsData
  <2>10. DataOf(e, x) = NewDataKnown /\ \A y \in Idents \ {x} : DataOf(e, y) = DataOf(d, y)
    BY <2>8, <2>9 DEF DataOf
  <2> HIDE DEF e
  <2>11. HoldersAgreeIn(e)
    BY <2>7, <2>9, <2>10 DEF DataSound, HoldersAgreeIn, NewDataKnown
  <2>a. \A y \in Idents : DataOf(e, y).nAssigned \in DataOf(e, y).setKnownPeer \cup {NoPeer}
    BY <2>10 DEF DataSound, AskedAgreeIn, NewDataKnown
  <2>b. \A p \in DOMAIN mp : p # NoPeer
    BY <2>7, <2>5, NoPeerAssumption
  <2>c. \A p \in DOMAIN mp, y \in Idents :
           DataOf(e, y).nAssigned = p <=> y # x /\ DataOf(d, y).nAssigned = p
    BY <2>10, <2>b DEF NewDataKnown
  <2>d. ASSUME NEW p \in DOMAIN mp
        PROVE  mp[p].fAssigned <=> \E y \in Idents : DataOf(e, y).nAssigned = p
    <3>1. d.mapPeer[p].fAssigned <=> \E y \in Idents : DataOf(d, y).nAssigned = p
      BY <2>7 DEF DataSound, AskedAgreeIn
    <3>2. \A y \in Idents : DataOf(d, y).nAssigned = p /\ DataOf(d, x).nAssigned = p => y = x
      BY <2>b DEF DataSound, AskedAgreeIn
    <3>3. QED
      BY <2>2, <2>7, <2>c, <3>1, <3>2
  <2>e. \A y, z \in Idents :
           DataOf(e, y).nAssigned = DataOf(e, z).nAssigned /\ DataOf(e, y).nAssigned # NoPeer
              => y = z
    BY <2>10 DEF DataSound, AskedAgreeIn, NewDataKnown
  <2>12. AskedAgreeIn(e)
    BY <2>9, <2>a, <2>d, <2>e DEF AskedAgreeIn
  <2>13. QED
    BY <2>9, <2>11, <2>12 DEF DataSound, e
<1>3. QED
  BY <1>1, <1>2

\* UnassignPeer frees the item and the peer that was asked for it together.
LEMMA UnassignPeerSound ==
    ASSUME NEW d, DataSound(d), NEW x \in Idents
    PROVE  DataSound(UnassignPeer(d, x))
<1> DEFINE p == DataOf(d, x).nAssigned
           w == [setKnownPeer |-> DataOf(d, x).setKnownPeer, nAssigned |-> NoPeer]
           mp == [q \in DOMAIN d.mapPeer |->
                     IF q = p THEN Released(d.mapPeer[q]) ELSE d.mapPeer[q]]
           md == [y \in DOMAIN d.mapData \cup {x} |-> IF y = x THEN w ELSE d.mapData[y]]
           nul == d.fNull \/ p \notin DOMAIN d.mapPeer \cup {NoPeer}
           e == UnassignPeer(d, x)
<1>1. e = [mapPeer |-> mp, mapData |-> md, fNull |-> nul]
  BY DEF UnassignPeer
<1>2. /\ w \in DataKnown /\ w.setKnownPeer = DataOf(d, x).setKnownPeer
      /\ w.nAssigned = NoPeer /\ DataOf(d, x).setKnownPeer \subseteq Peers
  BY DataOfType DEF DataSound, DataKnown
<1>3. p \in DOMAIN d.mapPeer \cup {NoPeer}
  BY <1>2 DEF DataSound, AskedAgreeIn, HoldersAgreeIn
<1>4. nul = FALSE
  BY <1>3 DEF DataSound
<1>5. \A q \in DOMAIN d.mapPeer : q \in Peers /\ q # NoPeer /\ d.mapPeer[q] \in DataPeer
  BY NoPeerAssumption DEF DataSound, IsData
<1> HIDE DEF w, nul
<1>6. /\ mp \in [DOMAIN mp -> DataPeer] /\ DOMAIN mp = DOMAIN d.mapPeer
      /\ \A q \in DOMAIN mp :
            /\ mp[q].listDataIdent = d.mapPeer[q].listDataIdent
            /\ mp[q].fAssigned <=> d.mapPeer[q].fAssigned /\ q # p
  BY <1>5 DEF DataPeer, Released
<1>7. /\ md \in [DOMAIN md -> DataKnown] /\ DOMAIN md \subseteq Idents
      /\ DOMAIN md = DOMAIN d.mapData \cup {x}
      /\ md[x] = w /\ \A y \in DOMAIN d.mapData \ {x} : md[y] = d.mapData[y]
  BY <1>2 DEF DataSound, IsData
<1> HIDE DEF mp, md
<1>a. e = [mapPeer |-> mp, mapData |-> md, fNull |-> FALSE] /\ DOMAIN d.mapPeer \subseteq Peers
  BY <1>1, <1>4, Zenon DEF DataSound, IsData
<1>8. IsData(e) /\ e.mapPeer = mp /\ e.mapData = md /\ ~e.fNull
  BY <1>a, <1>6, <1>7 DEF IsData
<1>9. DataOf(e, x) = w /\ \A y \in Idents \ {x} : DataOf(e, y) = DataOf(d, y)
  BY <1>7, <1>8 DEF DataOf
<1> HIDE DEF e
<1>10. HoldersAgreeIn(e)
  <2>1. \A y \in Idents : DataOf(e, y).setKnownPeer = DataOf(d, y).setKnownPeer
    BY <1>2, <1>9
  <2>2. QED
    BY <1>6, <1>8, <2>1 DEF DataSound, HoldersAgreeIn
<1>11. AskedAgreeIn(e)
  <2>1. \A y \in Idents : DataOf(e, y).nAssigned \in DataOf(e, y).setKnownPeer \cup {NoPeer}
    BY <1>2, <1>9 DEF DataSound, AskedAgreeIn
  <2>2. \A q \in DOMAIN mp, y \in Idents :
           DataOf(e, y).nAssigned = q <=> y # x /\ DataOf(d, y).nAssigned = q
    BY <1>2, <1>5, <1>6, <1>9
  <2>3. ASSUME NEW q \in DOMAIN mp
        PROVE  mp[q].fAssigned <=> \E y \in Idents : DataOf(e, y).nAssigned = q
    <3>1. d.mapPeer[q].fAssigned <=> \E y \in Idents : DataOf(d, y).nAssigned = q
      BY <1>6 DEF DataSound, AskedAgreeIn
    <3>2. \A y \in Idents : DataOf(d, y).nAssigned = q /\ p = q => y = x
      BY <1>5, <1>6 DEF DataSound, AskedAgreeIn
    <3>3. QED
      BY <1>6, <2>2, <3>1, <3>2
  <2>4. \A y, z \in Idents :
           DataOf(e, y).nAssigned = DataOf(e, z).nAssigned /\ DataOf(e, y).nAssigned # NoPeer
              => y = z
    BY <1>2, <1>9 DEF DataSound, AskedAgreeIn
  <2>5. QED
    BY <1>8, <2>1, <2>3, <2>4 DEF AskedAgreeIn
<1>12. QED
  BY <1>8, <1>10, <1>11 DEF DataSound, e

\* Schedule asks every peer it picks for one item nobody else is asked for.
LEMMA ScheduleSound ==
    ASSUME NEW d, DataSound(d), NEW P \in SUBSET Peers, NEW M \in [P -> Idents],
           NEW ignored, ScheduleChoice(d, M, ignored)
    PROVE  DataSound(Schedule(d, M))
<1> DEFINE by(x) == CHOOSE p \in DOMAIN M : M[p] = x
           mp == [p \in DOMAIN d.mapPeer |->
                     IF p \in DOMAIN M
                     THEN [listDataIdent |-> d.mapPeer[p].listDataIdent, fAssigned |-> TRUE]
                     ELSE d.mapPeer[p]]
           w(x) == [setKnownPeer |-> d.mapData[x].setKnownPeer, nAssigned |-> by(x)]
           md == [x \in DOMAIN d.mapData |->
                     IF \E p \in DOMAIN M : M[p] = x THEN w(x) ELSE d.mapData[x]]
           e == Schedule(d, M)
<1>1. e = [mapPeer |-> mp, mapData |-> md, fNull |-> d.fNull]
  BY DEF Schedule
<1>2. \A q \in DOMAIN d.mapPeer : q \in Peers /\ q # NoPeer /\ d.mapPeer[q] \in DataPeer
  BY NoPeerAssumption DEF DataSound, IsData
<1>3. \A p \in DOMAIN M :
         /\ p \in DOMAIN d.mapPeer /\ ~d.mapPeer[p].fAssigned
         /\ M[p] \in Idents /\ M[p] \in d.mapPeer[p].listDataIdent
         /\ DataOf(d, M[p]).nAssigned \in {NoPeer, p}
         /\ \A q \in DOMAIN M : M[p] = M[q] => p = q
  BY DEF ScheduleChoice, Assignable
<1>4. \A p \in DOMAIN M : /\ p \in DataOf(d, M[p]).setKnownPeer
                          /\ DataOf(d, M[p]).nAssigned = NoPeer
  BY <1>2, <1>3, Zenon DEF DataSound, HoldersAgreeIn, AskedAgreeIn
<1>5. \A p \in DOMAIN M : M[p] \in DOMAIN d.mapData
  BY <1>4 DEF DataOf, NewDataKnown
<1>6. \A p \in DOMAIN M : by(M[p]) = p
  BY <1>3
<1>7. \A x \in DOMAIN d.mapData : (\E p \in DOMAIN M : M[p] = x) => by(x) \in DOMAIN M
  OBVIOUS
<1> HIDE DEF by
<1>8. /\ mp \in [DOMAIN mp -> DataPeer] /\ DOMAIN mp = DOMAIN d.mapPeer
      /\ \A q \in DOMAIN mp :
            /\ mp[q].listDataIdent = d.mapPeer[q].listDataIdent
            /\ mp[q].fAssigned <=> d.mapPeer[q].fAssigned \/ q \in DOMAIN M
  BY <1>2 DEF DataPeer
<1>9. \A x \in DOMAIN d.mapData : (\E p \in DOMAIN M : M[p] = x) =>
         /\ w(x) \in DataKnown /\ w(x).setKnownPeer = d.mapData[x].setKnownPeer
         /\ w(x).nAssigned = by(x)
  BY <1>7 DEF DataSound, IsData, DataKnown
<1> HIDE DEF w
<1>10. /\ md \in [DOMAIN md -> DataKnown] /\ DOMAIN md = DOMAIN d.mapData
       /\ \A x \in DOMAIN md : md[x].setKnownPeer = d.mapData[x].setKnownPeer
       /\ \A p \in DOMAIN M : md[M[p]].nAssigned = p
       /\ \A x \in DOMAIN md : (\A p \in DOMAIN M : M[p] # x) => md[x] = d.mapData[x]
  <2>1. \A x \in DOMAIN d.mapData : d.mapData[x] \in DataKnown
    BY DEF DataSound, IsData
  <2>2. QED
    BY <1>5, <1>6, <1>9, <2>1
<1> HIDE DEF mp, md
<1>11. IsData(e) /\ e.mapPeer = mp /\ e.mapData = md /\ ~e.fNull
  BY <1>1, <1>8, <1>10 DEF DataSound, IsData
<1>12. /\ \A x \in Idents : DataOf(e, x).setKnownPeer = DataOf(d, x).setKnownPeer
       /\ \A p \in DOMAIN M : DataOf(e, M[p]).nAssigned = p
       /\ \A x \in Idents : (\A p \in DOMAIN M : M[p] # x) => DataOf(e, x) = DataOf(d, x)
  BY <1>5, <1>10, <1>11 DEF DataOf
<1> HIDE DEF e
<1>13. HoldersAgreeIn(e)
  BY <1>8, <1>11, <1>12 DEF DataSound, HoldersAgreeIn
<1>14. AskedAgreeIn(e)
  <2>1. \A x \in Idents : DataOf(e, x).nAssigned \in DataOf(e, x).setKnownPeer \cup {NoPeer}
    BY <1>4, <1>12 DEF DataSound, AskedAgreeIn
  <2>2. ASSUME NEW q \in DOMAIN mp
        PROVE  mp[q].fAssigned <=> \E y \in Idents : DataOf(e, y).nAssigned = q
    <3>1. d.mapPeer[q].fAssigned <=> \E y \in Idents : DataOf(d, y).nAssigned = q
      BY <1>8 DEF DataSound, AskedAgreeIn
    <3>2. \A y \in Idents : DataOf(d, y).nAssigned = q => \A p \in DOMAIN M : M[p] # y
      BY <1>2, <1>4, <1>8
    <3>3. \A y \in Idents : DataOf(d, y).nAssigned = q => DataOf(e, y).nAssigned = q
      BY <1>12, <3>2
    <3>4. q \in DOMAIN M => M[q] \in Idents /\ DataOf(e, M[q]).nAssigned = q
      BY <1>3, <1>12
    <3>5. \A y \in Idents : DataOf(e, y).nAssigned = q =>
             q \in DOMAIN M \/ DataOf(d, y).nAssigned = q
      BY <1>12
    <3>6. QED
      BY <1>8, <3>1, <3>3, <3>4, <3>5
  <2>3. ASSUME NEW x \in Idents, NEW y \in Idents,
               DataOf(e, x).nAssigned = DataOf(e, y).nAssigned, DataOf(e, x).nAssigned # NoPeer
        PROVE  x = y
    <3>1. \A z \in Idents : DataOf(d, z).nAssigned \notin DOMAIN M
      <4>1. \A p \in DOMAIN M : p \in DOMAIN d.mapPeer /\ ~d.mapPeer[p].fAssigned
        BY <1>3
      <4>2. QED
        BY <4>1 DEF DataSound, AskedAgreeIn
    <3>2. CASE \E p \in DOMAIN M : M[p] = x
      BY <1>12, <2>3, <3>1, <3>2
    <3>3. CASE \A p \in DOMAIN M : M[p] # x
      <4>1. \A p \in DOMAIN M : M[p] # y
        BY <1>12, <2>3, <3>1, <3>3
      <4>2. QED
        BY <1>12, <2>3, <3>3, <4>1 DEF DataSound, AskedAgreeIn
    <3>4. QED
      BY <3>2, <3>3
  <2>4. QED
    BY <1>11, <2>1, <2>2, <2>3 DEF AskedAgreeIn
<1>15. QED
  BY <1>11, <1>13, <1>14 DEF DataSound, e

\* A new scheduler, and one that has been cleared, is empty.
LEMMA EmptyDataSound == DataSound(EmptyData)
<1>1. /\ EmptyData.mapPeer \in [DOMAIN EmptyData.mapPeer -> DataPeer]
      /\ DOMAIN EmptyData.mapPeer = {}
      /\ EmptyData.mapData \in [DOMAIN EmptyData.mapData -> DataKnown]
      /\ DOMAIN EmptyData.mapData = {} /\ EmptyData.fNull = FALSE
  BY DEF EmptyData
<1>2. IsData(EmptyData)
  <2>1. EmptyData = [mapPeer |-> EmptyData.mapPeer, mapData |-> EmptyData.mapData,
                     fNull |-> EmptyData.fNull]
    BY DEF EmptyData
  <2>2. QED
    BY <1>1, <2>1, Zenon DEF IsData
<1>3. \A x : DataOf(EmptyData, x) = NewDataKnown
  BY <1>1 DEF DataOf
<1>4. HoldersAgreeIn(EmptyData)
  BY <1>1, <1>3 DEF HoldersAgreeIn, NewDataKnown
<1>5. AskedAgreeIn(EmptyData)
  BY <1>1, <1>3 DEF AskedAgreeIn, NewDataKnown
<1>6. QED
  BY <1>1, <1>2, <1>4, <1>5 DEF DataSound

\* Every call of a method of CDataScheduler keeps its tables in agreement.
LEMMA DataNextSound ==
    ASSUME DataSound(data), [DataNext]_data
    PROVE  DataSound(data')
<1>1. ASSUME NEW p \in Peers, Activate(p) PROVE DataSound(data')
  BY <1>1, ActivatePeerSound DEF Activate
<1>2. ASSUME NEW p \in Peers, Deactivate(p) PROVE DataSound(data')
  BY <1>2, DeactivatePeerSound DEF Deactivate
<1>3. ASSUME NEW p \in Peers, NEW x \in Idents, Offer(p, x) PROVE DataSound(data')
  BY <1>3, AddKnownDataSound DEF Offer
<1>4. ASSUME NEW x \in Idents, Remove(x) PROVE DataSound(data')
  BY <1>4, RemoveKnownDataSound DEF Remove
<1>5. ASSUME NEW x \in Idents, Unassign(x) PROVE DataSound(data')
  BY <1>5, UnassignPeerSound DEF Unassign
<1>6. ASSUME NEW P \in SUBSET Peers, NEW ignored, Assign(P, ignored) PROVE DataSound(data')
  <2>1. PICK M \in [P -> Idents] : ScheduleChoice(data, M, ignored) /\ data' = Schedule(data, M)
    BY <1>6 DEF Assign
  <2>2. QED
    BY <2>1, ScheduleSound
<1>7. CASE Clear
  <2>1. data' = EmptyData
    <3>1. data.fNull = FALSE
      BY DEF DataSound, IsData
    <3>2. QED
      BY <1>7, <3>1, Zenon DEF Clear, EmptyData
  <2>2. QED
    BY <2>1, EmptyDataSound
<1>8. CASE UNCHANGED data
  BY <1>8
<1>9. QED
  BY <1>1, <1>2, <1>3, <1>4, <1>5, <1>6, <1>7, <1>8 DEF DataNext

\* The tables of CDataScheduler stay in agreement whatever its client calls.
THEOREM DataInvariant == DataSpec => []DataSound(data)
<1>1. DataInit => DataSound(data)
  BY EmptyDataSound DEF DataInit
<1>2. DataSound(data) /\ [DataNext]_data => DataSound(data)'
  BY DataNextSound
<1>3. QED
  BY <1>1, <1>2, PTL DEF DataSpec

\* The scheduler's tables have their types, whatever its client calls.
THEOREM DataTypeCorrect == DataSpec => []DataTypeOK
<1>1. DataSound(data) => DataTypeOK
  BY DEF DataSound, DataTypeOK
<1>2. QED
  BY <1>1, DataInvariant, PTL

\* A peer's list and the peers known to have an item are each other's inverse.
THEOREM HoldersAlwaysAgree == DataSpec => []HoldersAgree
<1>1. DataSound(data) => HoldersAgree
  BY DEF DataSound, HoldersAgree
<1>2. QED
  BY <1>1, DataInvariant, PTL

\* Items asked for and peers asked correspond one to one, so neither an item nor
\* a peer is lost to later requests.
THEOREM AskedAlwaysAgree == DataSpec => []AskedAgree
<1>1. DataSound(data) => AskedAgree
  BY DEF DataSound, AskedAgree
<1>2. QED
  BY <1>1, DataInvariant, PTL

\* RemoveKnownData and UnassignPeer never follow a null peer pointer.
THEOREM NeverNullPeer == DataSpec => []NoNullPeer
<1>1. DataSound(data) => NoNullPeer
  BY DEF DataSound, NoNullPeer
<1>2. QED
  BY <1>1, DataInvariant, PTL

-------------------------------------------------------------------------------
(* The tasks of ParallelComputer: a task below the counter was run, or a   *)
(* thread has it, or the flag says that a task returned false, and then a  *)
(* thread stopped.                                                         *)

Working(t) == at[t] \in {"check", "task"}

JudgeTyped ==
    /\ nCurrent \in Nat /\ fContinue \in BOOLEAN /\ ret \in {"none", "true", "false"}
    /\ at \in [Threads -> {"next", "check", "task", "true", "false"}]
    /\ index \in [Threads -> Nat]
    /\ runs \in [Tasks -> 0 .. 1]

(* A thread has its task for itself.                                       *)
TakenOnce ==
    /\ \A i \in Tasks : nCurrent =< i => runs[i] = 0
    /\ \A t \in Threads : Working(t) => index[t] \in Tasks /\ index[t] < nCurrent /\ runs[index[t]] = 0
    /\ \A t, u \in Threads : Working(t) /\ Working(u) /\ index[t] = index[u] => t = u

(* A thread that has stopped has a reason.                                 *)
Reasons ==
    /\ \A i \in Tasks :
          i < nCurrent => runs[i] = 1 \/ ~fContinue \/ \E t \in Threads : Working(t) /\ index[t] = i
    /\ \A t \in Threads : at[t] = "false" => \E i \in Tasks : runs[i] = 1 /\ outcome[i] # "true"
    /\ \A i \in Tasks : runs[i] = 1 /\ outcome[i] # "true" => \E t \in Threads : at[t] = "false"
    /\ ~fContinue => \E t \in Threads : at[t] = "false"
    /\ \A t \in Threads : at[t] = "true" => nCurrent >= Total \/ ~fContinue

Returned ==
    ret # "none" =>
        /\ \A t \in Threads : at[t] \in {"true", "false"}
        /\ (ret = "true") = (\A t \in Threads : at[t] = "true")

(* The inductive invariant.                                                *)
JudgeInv == JudgeTyped /\ TakenOnce /\ Reasons /\ Returned

(* A thread takes the next task, or finds that there is none.              *)
LEMMA TakeJudged ==
    ASSUME JudgeInv, NEW t \in Threads, Take(t)
    PROVE  JudgeInv'
<1> HIDE DEF Threads
<1>1. /\ nCurrent \in Nat /\ Total \in Nat /\ at[t] = "next" /\ nCurrent' = nCurrent + 1
      /\ at \in [Threads -> {"next", "check", "task", "true", "false"}]
      /\ index \in [Threads -> Nat] /\ runs \in [Tasks -> 0 .. 1]
      /\ UNCHANGED <<outcome, fContinue, runs, ret>>
  BY ParallelAssumption DEF JudgeInv, JudgeTyped, Take
<1>2. /\ index'[t] = nCurrent /\ at'[t] = IF nCurrent < Total THEN "check" ELSE "true"
      /\ \A u \in Threads : u # t => at'[u] = at[u] /\ index'[u] = index[u]
  BY <1>1 DEF Take
<1>3. JudgeTyped'
  BY <1>1 DEF JudgeInv, JudgeTyped, Take
<1>4. \A u \in Threads : Working(u)' => IF u = t THEN nCurrent < Total /\ index'[u] = nCurrent
                                        ELSE Working(u) /\ index'[u] = index[u]
  BY <1>2 DEF Working
<1>5. nCurrent < Total => nCurrent \in Tasks
  BY <1>1 DEF Tasks
<1>6. TakenOnce'
  <2>1. \A i \in Tasks : nCurrent' =< i => runs'[i] = 0
    <3> TAKE i \in Tasks
    <3>1. i \in Int
      BY DEF Tasks
    <3> QED
      BY <1>1, <3>1 DEF JudgeInv, TakenOnce
  <2>2. ASSUME NEW u \in Threads, Working(u)'
        PROVE  index'[u] \in Tasks /\ index'[u] < nCurrent' /\ runs'[index'[u]] = 0
    <3>1. CASE u = t
      BY <1>1, <1>4, <1>5, <2>2, <3>1 DEF JudgeInv, TakenOnce
    <3>2. CASE u # t
      <4>1. index'[u] = index[u] /\ index[u] \in Tasks /\ index[u] < nCurrent /\ runs[index[u]] = 0
        BY <1>4, <2>2, <3>2 DEF JudgeInv, TakenOnce
      <4>2. index[u] \in Nat
        BY <1>1
      <4> QED
        BY <1>1, <4>1, <4>2
    <3> QED
      BY <3>1, <3>2
  <2>3. ASSUME NEW u \in Threads, NEW v \in Threads, Working(u)', Working(v)', index'[u] = index'[v]
        PROVE  u = v
    <3>1. ASSUME NEW w \in Threads, w # t, Working(w)' PROVE index'[w] < nCurrent /\ index'[w] \in Nat
      BY <1>1, <1>4, <3>1 DEF JudgeInv, TakenOnce
    <3>2. CASE u = t \/ v = t
      BY <1>1, <1>4, <2>3, <3>1, <3>2
    <3>3. CASE u # t /\ v # t
      BY <1>4, <2>3, <3>3 DEF JudgeInv, TakenOnce
    <3> QED
      BY <3>2, <3>3
  <2> QED
    BY <2>1, <2>2, <2>3 DEF TakenOnce
<1>7. Reasons'
  <2>1. ASSUME NEW i \in Tasks, i < nCurrent'
        PROVE  runs'[i] = 1 \/ ~fContinue' \/ \E u \in Threads : Working(u)' /\ index'[u] = i
    <3>1. i \in Int /\ 0 =< i /\ i < Total
      BY <1>1 DEF Tasks
    <3>2. CASE i < nCurrent
      <4>1. runs[i] = 1 \/ ~fContinue \/ \E u \in Threads : Working(u) /\ index[u] = i
        BY <3>2 DEF JudgeInv, Reasons
      <4>2. \A u \in Threads : Working(u) => Working(u)' /\ index'[u] = index[u]
        BY <1>1, <1>2 DEF Working
      <4> QED
        BY <1>1, <4>1, <4>2
    <3>3. CASE i = nCurrent
      BY <1>2, <3>1, <3>3 DEF Working
    <3> QED
      BY <1>1, <2>1, <3>1, <3>2, <3>3
  <2>2. \A u \in Threads : (at'[u] = "false") = (at[u] = "false")
    BY <1>1, <1>2
  <2>3. ASSUME NEW u \in Threads, at'[u] = "true" PROVE nCurrent' >= Total \/ ~fContinue'
    <3>1. CASE u = t
      BY <1>1, <1>2, <2>3, <3>1
    <3>2. CASE u # t
      <4>1. nCurrent >= Total \/ ~fContinue
        BY <1>2, <2>3, <3>2 DEF JudgeInv, Reasons
      <4> QED
        BY <1>1, <4>1
    <3> QED
      BY <3>1, <3>2
  <2> QED
    BY <1>1, <2>1, <2>2, <2>3 DEF JudgeInv, Reasons
<1>8. Returned'
  BY <1>1 DEF JudgeInv, Returned
<1> QED
  BY <1>3, <1>6, <1>7, <1>8 DEF JudgeInv

(* A thread looks at the flag, and goes on or gives up its task.           *)
LEMMA CheckJudged ==
    ASSUME JudgeInv, NEW t \in Threads, Check(t)
    PROVE  JudgeInv'
<1> HIDE DEF Threads
<1>1. /\ at[t] = "check" /\ UNCHANGED <<outcome, nCurrent, fContinue, index, runs, ret>>
      /\ at \in [Threads -> {"next", "check", "task", "true", "false"}]
      /\ at'[t] = "task" \/ (~fContinue /\ at'[t] = "true")
      /\ \A u \in Threads : u # t => at'[u] = at[u]
  BY DEF JudgeInv, JudgeTyped, Check
<1>2. JudgeTyped'
  BY <1>1 DEF JudgeInv, JudgeTyped, Check
<1>3. \A u \in Threads : Working(u)' => Working(u)
  BY <1>1 DEF Working
<1>4. TakenOnce'
  BY <1>1, <1>3 DEF JudgeInv, TakenOnce
<1>5. \A u \in Threads : Working(u) => Working(u)' \/ ~fContinue
  BY <1>1 DEF Working
<1>6. \A u \in Threads : (at'[u] = "false") = (at[u] = "false")
  BY <1>1
<1>7. \A i \in Tasks :
         i < nCurrent' => runs'[i] = 1 \/ ~fContinue' \/ \E u \in Threads : Working(u)' /\ index'[u] = i
  BY <1>1, <1>5 DEF JudgeInv, Reasons
<1>8. \A u \in Threads : at'[u] = "true" => nCurrent' >= Total \/ ~fContinue'
  BY <1>1 DEF JudgeInv, Reasons
<1>9. Reasons'
  BY <1>1, <1>6, <1>7, <1>8 DEF JudgeInv, Reasons
<1>10. Returned'
  BY <1>1 DEF JudgeInv, Returned
<1> QED
  BY <1>2, <1>4, <1>9, <1>10 DEF JudgeInv

(* A thread runs its task.                                                 *)
LEMMA RunJudged ==
    ASSUME JudgeInv, NEW t \in Threads, Run(t)
    PROVE  JudgeInv'
<1> DEFINE k == index[t]
<1> HIDE DEF Threads, Tasks
<1>1. /\ at[t] = "task" /\ UNCHANGED <<outcome, nCurrent, index, ret>>
      /\ at \in [Threads -> {"next", "check", "task", "true", "false"}]
      /\ runs \in [Tasks -> 0 .. 1] /\ fContinue \in BOOLEAN
      /\ at' = [at EXCEPT ![t] = IF outcome[k] = "true" THEN "next" ELSE "false"]
      /\ runs' = [runs EXCEPT ![k] = @ + 1]
      /\ fContinue' = (fContinue /\ outcome[k] # "false")
  BY DEF JudgeInv, JudgeTyped, Run
<1>2. k \in Tasks /\ k < nCurrent /\ runs[k] = 0
  BY <1>1 DEF JudgeInv, TakenOnce, Working
<1> HIDE DEF k
<1>3. /\ at'[t] = (IF outcome[k] = "true" THEN "next" ELSE "false")
      /\ \A u \in Threads : u # t => at'[u] = at[u]
      /\ at' \in [Threads -> {"next", "check", "task", "true", "false"}]
  BY <1>1
<1>4. /\ runs'[k] = 1 /\ \A i \in Tasks : i # k => runs'[i] = runs[i]
      /\ runs' \in [Tasks -> 0 .. 1]
  BY <1>1, <1>2
<1>5. JudgeTyped'
  BY <1>1, <1>3, <1>4 DEF JudgeInv, JudgeTyped
<1>6. \A u \in Threads : Working(u)' => Working(u) /\ u # t
  BY <1>3 DEF Working
<1>7. \A u \in Threads : Working(u) /\ u # t => index[u] # k
  BY <1>1 DEF JudgeInv, TakenOnce, Working, k
<1>8. TakenOnce'
  <2>1. \A i \in Tasks : nCurrent' =< i => runs'[i] = 0
    <3> TAKE i \in Tasks
    <3>1. nCurrent =< i => i # k
      <4>1. k \in Int /\ nCurrent \in Int
        BY <1>2 DEF Tasks, JudgeInv, JudgeTyped
      <4> QED
        BY <1>2, <4>1
    <3> QED
      BY <1>1, <1>4, <3>1 DEF JudgeInv, TakenOnce
  <2>2. \A u \in Threads :
           Working(u)' => index'[u] \in Tasks /\ index'[u] < nCurrent' /\ runs'[index'[u]] = 0
    BY <1>1, <1>4, <1>6, <1>7 DEF JudgeInv, TakenOnce
  <2>3. \A u, v \in Threads : Working(u)' /\ Working(v)' /\ index'[u] = index'[v] => u = v
    BY <1>1, <1>6 DEF JudgeInv, TakenOnce
  <2> QED
    BY <2>1, <2>2, <2>3 DEF TakenOnce
<1>9. Reasons'
  <2>1. ASSUME NEW i \in Tasks, i < nCurrent'
        PROVE  runs'[i] = 1 \/ ~fContinue' \/ \E u \in Threads : Working(u)' /\ index'[u] = i
    <3>1. CASE i = k
      BY <1>4, <3>1
    <3>2. CASE i # k
      <4>1. runs[i] = 1 \/ ~fContinue \/ \E u \in Threads : Working(u) /\ index[u] = i
        BY <1>1, <2>1 DEF JudgeInv, Reasons
      <4>2. \A u \in Threads : Working(u) /\ index[u] = i => Working(u)' /\ index'[u] = i
        BY <1>1, <1>3, <3>2 DEF Working, k
      <4> QED
        BY <1>1, <1>4, <3>2, <4>1, <4>2
    <3> QED
      BY <3>1, <3>2
  <2>2. ASSUME NEW u \in Threads, at'[u] = "false"
        PROVE  \E i \in Tasks : runs'[i] = 1 /\ outcome'[i] # "true"
    <3>1. CASE u = t
      BY <1>1, <1>2, <1>3, <1>4, <2>2, <3>1
    <3>2. CASE u # t
      <4>1. PICK i \in Tasks : runs[i] = 1 /\ outcome[i] # "true"
        BY <1>3, <2>2, <3>2 DEF JudgeInv, Reasons
      <4> QED
        BY <1>1, <1>2, <1>4, <4>1
    <3> QED
      BY <3>1, <3>2
  <2>3. \A u \in Threads : at[u] = "false" => at'[u] = "false"
    BY <1>1, <1>3
  <2>4. ASSUME NEW i \in Tasks, runs'[i] = 1, outcome'[i] # "true"
        PROVE  \E u \in Threads : at'[u] = "false"
    <3>1. CASE i = k
      BY <1>1, <1>3, <2>4, <3>1
    <3>2. CASE i # k
      BY <1>1, <1>4, <2>3, <2>4, <3>2 DEF JudgeInv, Reasons
    <3> QED
      BY <3>1, <3>2
  <2>5. ASSUME ~fContinue' PROVE \E u \in Threads : at'[u] = "false"
    <3>1. CASE outcome[k] = "false"
      BY <1>3, <3>1
    <3>2. CASE outcome[k] # "false"
      BY <1>1, <2>3, <2>5, <3>2 DEF JudgeInv, Reasons
    <3> QED
      BY <3>1, <3>2
  <2>6. ASSUME NEW u \in Threads, at'[u] = "true" PROVE nCurrent' >= Total \/ ~fContinue'
    <3>1. at[u] = "true"
      BY <1>3, <2>6
    <3> QED
      BY <1>1, <3>1 DEF JudgeInv, Reasons
  <2> QED
    BY <2>1, <2>2, <2>4, <2>5, <2>6 DEF Reasons
<1>10. Returned'
  BY <1>1 DEF JudgeInv, Returned
<1> QED
  BY <1>5, <1>8, <1>9, <1>10 DEF JudgeInv

(* The call returns when all threads have stopped.                         *)
LEMMA ReturnJudged ==
    ASSUME JudgeInv, Return
    PROVE  JudgeInv'
<1>1. UNCHANGED <<outcome, nCurrent, fContinue, at, index, runs>>
  BY DEF Return
<1>2. JudgeTyped'
  BY <1>1 DEF JudgeInv, JudgeTyped, Return
<1>3. TakenOnce' /\ Reasons'
  BY <1>1 DEF JudgeInv, TakenOnce, Reasons, Working
<1>4. Returned'
  BY <1>1, Zenon DEF Return, Returned
<1> QED
  BY <1>2, <1>3, <1>4 DEF JudgeInv

(* The invariant of the threads of ParallelComputer.                       *)
THEOREM JudgeInvariant == Spec => []JudgeInv
<1>1. Init => JudgeInv
  <2> SUFFICES ASSUME Init PROVE JudgeInv
    OBVIOUS
  <2>1. JudgeTyped
    BY DEF Init, JudgeTyped
  <2>2. TakenOnce /\ Reasons
    <3>1. \A i \in Tasks : ~(i < nCurrent) /\ runs[i] = 0
      BY DEF Init, Tasks
    <3>2. \A t \in Threads : at[t] = "next"
      BY DEF Init
    <3>3. fContinue = TRUE
      BY DEF Init
    <3> QED
      BY <3>1, <3>2, <3>3 DEF TakenOnce, Reasons, Working
  <2> QED
    BY <2>1, <2>2 DEF Init, JudgeInv, Returned
<1>2. JudgeInv /\ [Next]_vars => JudgeInv'
  <2> SUFFICES ASSUME JudgeInv, [Next]_vars PROVE JudgeInv'
    OBVIOUS
  <2>1. CASE UNCHANGED vars
    BY <2>1, Zenon DEF vars, JudgeInv, JudgeTyped, TakenOnce, Reasons, Returned, Working
  <2> QED
    BY <2>1, TakeJudged, CheckJudged, RunJudged, ReturnJudged DEF Next
<1> QED
  BY <1>1, <1>2, PTL DEF Spec

(* Transform, Execute and ExecuteUntil of ParallelComputer are right about *)
(* any number of tasks on any number of threads but none: the default is   *)
(* hardware_concurrency() in a byte, which is 0 when that is unknown or a  *)
(* multiple of 256, and then the call returns true with nothing run.       *)
THEOREM TasksAlwaysJudged ==
    ASSUME nParallelNum # 0
    PROVE  Spec => []TasksJudged
<1>1. JudgeInv => TasksJudged
  <2> SUFFICES ASSUME JudgeInv PROVE TasksJudged
    OBVIOUS
  <2>1. \A i \in Tasks : runs[i] \in 0 .. 1
    BY DEF JudgeInv, JudgeTyped
  <2>2. ASSUME Tasks # {} PROVE Threads # {}
    <3>1. Total \in Nat /\ Total > 0
      BY <2>2, ParallelAssumption DEF Tasks
    <3>2. nParallelNum \in Nat
      BY ParallelAssumption DEF nParallelNum, Byte
    <3>3. nThreads \in Nat /\ nThreads > 0
      BY <3>1, <3>2 DEF nThreads
    <3> QED
      BY <3>3 DEF Threads
  <2>3. ASSUME ret # "none", \A t \in Threads : at[t] = "true", NEW i \in Tasks
        PROVE  runs[i] = 1 /\ outcome[i] = "true"
    <3>1. fContinue
      BY <2>3 DEF JudgeInv, Reasons, JudgeTyped
    <3>2. nCurrent >= Total
      BY <2>2, <2>3, <3>1 DEF JudgeInv, Reasons
    <3>3. i < nCurrent
      BY <3>2, ParallelAssumption DEF Tasks, JudgeInv, JudgeTyped
    <3>4. runs[i] = 1
      BY <2>3, <3>1, <3>3 DEF JudgeInv, Reasons, Working
    <3> QED
      BY <2>3, <3>4 DEF JudgeInv, Reasons
  <2>4. ASSUME ret # "none", \A i \in Tasks : runs[i] = 1 /\ outcome[i] = "true"
        PROVE  \A t \in Threads : at[t] = "true"
    BY <2>4 DEF JudgeInv, Reasons, Returned
  <2>5. EachOnce
    BY <2>1 DEF EachOnce
  <2>6. Verdict
    BY <2>3, <2>4, Zenon DEF JudgeInv, Returned, Verdict
  <2> QED
    BY <2>5, <2>6 DEF TasksJudged
<1> QED
  BY <1>1, JudgeInvariant, PTL
===============================================================================
