------------------------------ MODULE DataSched -------------------------------
(***************************************************************************)
(* CDataScheduler: which peer has which data item, and which one of its    *)
(* items each peer has been asked for.  It is the request bookkeeping of   *)
(* CDelegatedChannel, used under its rwPeer lock, so every method is one   *)
(* atomic step.                                                            *)
(*                                                                         *)
(* As in Schedule, the methods are operators on a record, here             *)
(*    mapPeer: the peers, with listDataIdent (as a set) and fAssigned;     *)
(*    mapData: the items, with setKnownPeer and nAssigned.                 *)
(* mapData[x] on an item without an entry creates one that nobody has;     *)
(* mapPeer[p] on a peer without an entry creates a null pointer, which the *)
(* program dereferences: the flag fNull records that this has happened.    *)
(* ScheduleChoice allows what any order of the lists and of the nonces     *)
(* produces.                                                               *)
(***************************************************************************)
EXTENDS Naturals

CONSTANTS
    Peers,                      \* peer nonces
    Idents,                     \* CDataIdent
    NoPeer                      \* nAssigned = 0

ASSUME NoPeerAssumption == NoPeer \notin Peers

VARIABLE data                   \* the CDataScheduler object

-------------------------------------------------------------------------------
(* Data                                                                    *)

DataPeer == [listDataIdent : SUBSET Idents, fAssigned : BOOLEAN]
DataKnown == [setKnownPeer : SUBSET Peers, nAssigned : Peers \cup {NoPeer}]

NewDataPeer == [listDataIdent |-> {}, fAssigned |-> FALSE]

\* mapData[x] value-initialises a CDataKnown: nAssigned is 0.
NewDataKnown == [setKnownPeer |-> {}, nAssigned |-> NoPeer]

EmptyData ==
    [mapPeer |-> [p \in {} |-> NewDataPeer],
     mapData |-> [x \in {} |-> NewDataKnown], fNull |-> FALSE]

DataOf(d, x) == IF x \in DOMAIN d.mapData THEN d.mapData[x] ELSE NewDataKnown

-------------------------------------------------------------------------------
(* Methods                                                                 *)

ActivatePeer(d, p) ==
    IF p \in DOMAIN d.mapPeer THEN d
    ELSE [d EXCEPT !.mapPeer = [q \in DOMAIN d.mapPeer \cup {p} |->
                                   IF q = p THEN NewDataPeer ELSE d.mapPeer[q]]]

\* Fault: the peer is still among those known to have the item.
ForgetKnownPeer_KeepsPeer(k, p) ==
    [setKnownPeer |-> k.setKnownPeer,
     nAssigned |-> IF k.nAssigned = p THEN NoPeer ELSE k.nAssigned]

\* CDataKnown::RemovePeer.
ForgetKnownPeer(k, p) ==
    [setKnownPeer |-> k.setKnownPeer \ {p},
     nAssigned |-> IF k.nAssigned = p THEN NoPeer ELSE k.nAssigned]

DeactivatePeer(d, p) ==
    IF p \notin DOMAIN d.mapPeer THEN d
    ELSE LET list == d.mapPeer[p].listDataIdent
         IN  [mapPeer |-> [q \in DOMAIN d.mapPeer \ {p} |-> d.mapPeer[q]],
              mapData |-> [x \in DOMAIN d.mapData \cup list |->
                              IF x \in list THEN ForgetKnownPeer(DataOf(d, x), p)
                              ELSE d.mapData[x]],
              fNull |-> d.fNull]

AddKnownData(d, p, x) ==
    IF p \notin DOMAIN d.mapPeer THEN d
    ELSE [mapPeer |-> [d.mapPeer EXCEPT ![p] =
                          [listDataIdent |-> @.listDataIdent \cup {x},
                           fAssigned |-> @.fAssigned]],
          mapData |-> [y \in DOMAIN d.mapData \cup {x} |->
                          IF y = x
                          THEN [setKnownPeer |-> DataOf(d, x).setKnownPeer \cup {p},
                                nAssigned |-> DataOf(d, x).nAssigned]
                          ELSE d.mapData[y]],
          fNull |-> d.fNull]

\* Fault: the peer that was asked for the item is not free again.
Released_Never(peer) == peer

\* fAssigned = false for a peer whose item is taken back.
Released(peer) == [listDataIdent |-> peer.listDataIdent, fAssigned |-> FALSE]

RemoveKnownData(d, x) ==
    IF x \notin DOMAIN d.mapData THEN d
    ELSE LET known == d.mapData[x]
             forget(peer) == [listDataIdent |-> peer.listDataIdent \ {x},
                              fAssigned |-> peer.fAssigned]
             drop(p) == IF p \in known.setKnownPeer THEN forget(d.mapPeer[p])
                        ELSE d.mapPeer[p]
         IN  [mapPeer |-> [p \in DOMAIN d.mapPeer |->
                              IF p = known.nAssigned THEN Released(drop(p)) ELSE drop(p)],
              mapData |-> [y \in DOMAIN d.mapData \ {x} |-> d.mapData[y]],
              fNull |-> \/ d.fNull
                        \/ ~ known.setKnownPeer \cup {known.nAssigned}
                                 \subseteq DOMAIN d.mapPeer \cup {NoPeer}]

UnassignPeer(d, x) ==
    LET p == DataOf(d, x).nAssigned
    IN  [mapPeer |-> [q \in DOMAIN d.mapPeer |->
                         IF q = p THEN Released(d.mapPeer[q]) ELSE d.mapPeer[q]],
         mapData |-> [y \in DOMAIN d.mapData \cup {x} |->
                         IF y = x THEN [setKnownPeer |-> DataOf(d, x).setKnownPeer,
                                        nAssigned |-> NoPeer]
                         ELSE d.mapData[y]],
         fNull |-> d.fNull \/ p \notin DOMAIN d.mapPeer \cup {NoPeer}]

\* CDataKnown::Assign.
Assignable(k, p) == k.nAssigned \in {NoPeer, p}

\* The outcomes of Schedule: M gives some of the peers that are not busy one
\* item each, no two the same; a peer is passed over only when everything it has
\* is ignored, or taken by others.
ScheduleChoice(d, M, ignored) ==
    LET idle == {p \in DOMAIN d.mapPeer : ~d.mapPeer[p].fAssigned}
        offers(p) == {x \in d.mapPeer[p].listDataIdent \ ignored : Assignable(DataOf(d, x), p)}
        taken == {M[p] : p \in DOMAIN M}
    IN  /\ DOMAIN M \subseteq idle
        /\ \A p \in DOMAIN M : M[p] \in offers(p)
        /\ \A p, q \in DOMAIN M : M[p] = M[q] => p = q
        /\ \A p \in idle \ DOMAIN M : offers(p) \subseteq taken

Schedule(d, M) ==
    [mapPeer |-> [p \in DOMAIN d.mapPeer |->
                     IF p \in DOMAIN M
                     THEN [listDataIdent |-> d.mapPeer[p].listDataIdent, fAssigned |-> TRUE]
                     ELSE d.mapPeer[p]],
     mapData |-> [x \in DOMAIN d.mapData |->
                     IF \E p \in DOMAIN M : M[p] = x
                     THEN [setKnownPeer |-> d.mapData[x].setKnownPeer,
                           nAssigned |-> CHOOSE p \in DOMAIN M : M[p] = x]
                     ELSE d.mapData[x]],
     fNull |-> d.fNull]

\* GetAssignedPeer.
GetAssignedPeer(d, x) == DataOf(d, x).nAssigned

-------------------------------------------------------------------------------
(* A client that calls every method                                        *)

DataInit == data = EmptyData

Activate(p) == data' = ActivatePeer(data, p)
Deactivate(p) == data' = DeactivatePeer(data, p)
Offer(p, x) == data' = AddKnownData(data, p, x)
Remove(x) == data' = RemoveKnownData(data, x)
Unassign(x) == data' = UnassignPeer(data, x)
Assign(P, ignored) ==
    \E M \in [P -> Idents] :
       ScheduleChoice(data, M, ignored) /\ data' = Schedule(data, M)
Clear == data' = [EmptyData EXCEPT !.fNull = data.fNull]

DataNext ==
    \/ \E p \in Peers : Activate(p) \/ Deactivate(p)
    \/ \E p \in Peers, x \in Idents : Offer(p, x)
    \/ \E x \in Idents : Remove(x) \/ Unassign(x)
    \/ \E P \in SUBSET Peers, ignored \in SUBSET Idents : Assign(P, ignored)
    \/ Clear

DataSpec == DataInit /\ [][DataNext]_data

-------------------------------------------------------------------------------
(* Correctness                                                             *)

\* The scheduler's tables have their types.
IsData(d) ==
    /\ d = [mapPeer |-> d.mapPeer, mapData |-> d.mapData, fNull |-> d.fNull]
    /\ d.mapPeer \in [DOMAIN d.mapPeer -> DataPeer] /\ DOMAIN d.mapPeer \subseteq Peers
    /\ d.mapData \in [DOMAIN d.mapData -> DataKnown] /\ DOMAIN d.mapData \subseteq Idents
    /\ d.fNull \in BOOLEAN

\* A peer's list and the peers known to have an item are each other's inverse.
HoldersAgreeIn(d) ==
    \A p \in Peers, x \in Idents :
       p \in DataOf(d, x).setKnownPeer <=>
          p \in DOMAIN d.mapPeer /\ x \in d.mapPeer[p].listDataIdent

\* An item is assigned to one of the connected peers that have it, which is
\* then busy; a busy peer has been asked for exactly one item.  A peer left
\* busy without an item would never be asked again, and an item left assigned
\* to a peer that is free or gone would never be requested again.
AskedAgreeIn(d) ==
    /\ \A x \in Idents : DataOf(d, x).nAssigned \in DataOf(d, x).setKnownPeer \cup {NoPeer}
    /\ \A p \in DOMAIN d.mapPeer :
          d.mapPeer[p].fAssigned <=> \E x \in Idents : DataOf(d, x).nAssigned = p
    /\ \A x, y \in Idents :
          DataOf(d, x).nAssigned = DataOf(d, y).nAssigned /\ DataOf(d, x).nAssigned # NoPeer
             => x = y

\* The tables of the scheduler have their types.
DataTypeOK == IsData(data)

\* HoldersAgreeIn for the scheduler: AddKnownData, RemoveKnownData and
\* DeactivatePeer update both tables.
HoldersAgree == HoldersAgreeIn(data)

\* AskedAgreeIn for the scheduler: Schedule, UnassignPeer, RemoveKnownData and
\* DeactivatePeer keep nAssigned and fAssigned together.
AskedAgree == AskedAgreeIn(data)

\* RemoveKnownData and UnassignPeer only follow mapPeer[p] for peers that have
\* an entry, so they never dereference a null pointer.
NoNullPeer == ~data.fNull
===============================================================================
