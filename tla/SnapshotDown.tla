---------------------------- MODULE SnapshotDown ----------------------------
(***************************************************************************)
(* CSnapshotDownChannel: a node copies the files of a snapshot from the    *)
(* one peer its configuration names.  It asks for the list of files when   *)
(* the peer becomes active, then for one file after another, chunk by      *)
(* chunk, each request sent by the handler of the answer before it.  There *)
(* is no timer: what carries a download over a lost connection or a        *)
(* restart is the size of the local files.                                 *)
(*                                                                         *)
(* A byte is its position in the file.  Both nodes read and write files of *)
(* one snapshot block, so a file that is made again has the same bytes.    *)
(***************************************************************************)
EXTENDS Integers, Sequences, FiniteSets, SequencesExt

CONSTANTS
    Files,
    ListedSize, FullSize,       \* file -> its size at first, and when the peer has made it
    READ_SNAPSHOT_FILE_SIZE,    \* bytes in a chunk
    Failures,                   \* files are removed at the peer; reads and writes fail
    MaxConnections, MaxCrashes  \* bounds of the model

ASSUME DownAssumption ==
    /\ IsFiniteSet(Files)
    /\ ListedSize \in [Files -> Nat] /\ FullSize \in [Files -> Nat]
    /\ \A f \in Files : ListedSize[f] <= FullSize[f]
    /\ READ_SNAPSHOT_FILE_SIZE \in Nat \ {0}
    /\ Failures \in BOOLEAN

VARIABLES
    link,                       \* the connection that is up; 0: none
    connections, crashes,       \* how many there were
    requests,                   \* on the way to the peer
    events,                     \* on the way to, or in the queue of, the channel
    nSnapshotDownNetId,
    vRemoteSnapFilelist,        \* names
    local,                      \* file -> the bytes in "snapdown"; <<>> also when there is none
    remote,                     \* file -> its size; 0 also when it is not there
    asked                       \* history: the sizes in the list of this connection, or <<>>

network == <<link, connections, crashes>>
vars == <<network, requests, events, nSnapshotDownNetId, vRemoteSnapFilelist, local, remote, asked>>

Init ==
    /\ link = 0 /\ connections = 0 /\ crashes = 0
    /\ requests = <<>> /\ events = <<>>
    /\ nSnapshotDownNetId = 0 /\ vRemoteSnapFilelist = <<>>
    /\ local = [f \in Files |-> <<>>]
    /\ remote = ListedSize
    /\ asked = <<>>

\* DispatchEvent: sent when the peer is still there, otherwise lost.
Dispatch(nNetId, q, m) == IF link = nNetId THEN Append(q, m) ELSE q

FilelistReq == [msg |-> "filelist_req"]
DownDataReq(f, nOffset) == [msg |-> "downdata_req", file |-> f, offset |-> nOffset]

-------------------------------------------------------------------------------
(* The peer                                                                *)

\* Positions nOffset .. of the file, a chunk at most; none at or beyond its end.
ReadSnapshotFileData(f, nOffset) ==
    SubSeq([i \in 1 .. remote[f] |-> i], nOffset + 1,
           IF remote[f] - nOffset > READ_SNAPSHOT_FILE_SIZE THEN nOffset + READ_SNAPSHOT_FILE_SIZE ELSE remote[f])

\* The files that are there, with their sizes.
HandleMsgFilelistReq ==
    /\ requests # <<>> /\ Head(requests).msg = "filelist_req"
    /\ requests' = Tail(requests)
    /\ events' = Dispatch(link, events, [msg |-> "filelist_rsp", net |-> link, size |-> remote])
    /\ UNCHANGED <<network, nSnapshotDownNetId, vRemoteSnapFilelist, local, remote, asked>>

HandleMsgDownDataReq ==
    /\ requests # <<>> /\ Head(requests).msg = "downdata_req"
    /\ requests' = Tail(requests)
    /\ LET r == Head(requests) IN
       \/ events' = Dispatch(link, events, [msg |-> "downdata_rsp", net |-> link, file |-> r.file, offset |-> r.offset,
                                            data |-> ReadSnapshotFileData(r.file, r.offset)])
       \/ Failures /\ UNCHANGED events
    /\ UNCHANGED <<network, nSnapshotDownNetId, vRemoteSnapFilelist, local, remote, asked>>

\* The peer is still making the snapshot ...
SaveSnapshotData ==
    /\ \E f \in Files : remote[f] < FullSize[f] /\ remote' = [remote EXCEPT ![f] = @ + 1]
    /\ UNCHANGED <<network, requests, events, nSnapshotDownNetId, vRemoteSnapFilelist, local, asked>>

\* ... or removes it, and may make it again.
RemoveSnapshot ==
    /\ Failures
    /\ remote' = [f \in Files |-> 0]
    /\ UNCHANGED <<network, requests, events, nSnapshotDownNetId, vRemoteSnapFilelist, local, asked>>

-------------------------------------------------------------------------------
(* The channel                                                             *)

\* Fault: every file is asked for from its beginning.
RequstNextFile_Start(nNetId, vFilelist) ==
    requests' = IF vFilelist = <<>> THEN requests
                ELSE Dispatch(nNetId, requests, DownDataReq(Head(vFilelist), 0))

\* RequstNextFile: the first of the list, from where the local file ends.
RequstNextFile(nNetId, vFilelist) ==
    requests' = IF vFilelist = <<>> THEN requests
                ELSE Dispatch(nNetId, requests, DownDataReq(Head(vFilelist), Len(local[Head(vFilelist)])))

Event(msg) ==
    /\ events # <<>> /\ Head(events).msg = msg
    /\ events' = Tail(events)

HandlePeerActive ==
    /\ Event("active")
    /\ nSnapshotDownNetId' = Head(events).net
    /\ requests' = Dispatch(Head(events).net, requests, FilelistReq)
    /\ asked' = <<>>
    /\ UNCHANGED <<network, vRemoteSnapFilelist, local, remote>>

\* The list stays as it is.
HandlePeerDeactive ==
    /\ Event("deactive")
    /\ nSnapshotDownNetId' = IF nSnapshotDownNetId = Head(events).net THEN 0 ELSE nSnapshotDownNetId
    /\ UNCHANGED <<network, requests, vRemoteSnapFilelist, local, remote, asked>>

Needed(f, size) == local[f] = <<>> \/ Len(local[f]) # size

\* Files that are missing or of another size are added behind what an earlier connection
\* left in the list, in the order of the peer's directory, which is any.  An empty list is
\* the answer of a peer without the snapshot.
HandleMsgFilelistRsp ==
    /\ Event("filelist_rsp")
    /\ LET e == Head(events)
           listed == {f \in Files : e.size[f] > 0}
       IN  IF e.net # nSnapshotDownNetId \/ listed = {} THEN UNCHANGED <<vRemoteSnapFilelist, requests, asked>>
           ELSE \E order \in SetToSeqs({f \in listed : Needed(f, e.size[f])}) :
                   /\ vRemoteSnapFilelist' = vRemoteSnapFilelist \o order
                   /\ RequstNextFile(e.net, vRemoteSnapFilelist \o order)
                   /\ asked' = e.size
    /\ UNCHANGED <<network, nSnapshotDownNetId, local, remote>>

\* Fault: the file is done, the next one is not asked for.
EndOfFile_Stops(nNetId, f) ==
    /\ vRemoteSnapFilelist' = RemoveFirst(vRemoteSnapFilelist, f)
    /\ UNCHANGED requests

\* FileDownComplete erases the first entry of that name; then the next file.
EndOfFile(nNetId, f) ==
    LET vFilelist == RemoveFirst(vRemoteSnapFilelist, f) IN
        vRemoteSnapFilelist' = vFilelist /\ RequstNextFile(nNetId, vFilelist)

\* WriteSnapshotDownFileData appends, wherever nOffset points.
HandleMsgDownDataRsp ==
    /\ Event("downdata_rsp")
    /\ LET e == Head(events) IN
       IF e.net # nSnapshotDownNetId THEN UNCHANGED <<local, requests, vRemoteSnapFilelist>>
       ELSE \/ e.data = <<>> /\ EndOfFile(e.net, e.file) /\ UNCHANGED local
            \/ /\ e.data # <<>>
               /\ local' = [local EXCEPT ![e.file] = @ \o e.data]
               /\ requests' = Dispatch(e.net, requests, DownDataReq(e.file, e.offset + Len(e.data)))
               /\ UNCHANGED vRemoteSnapFilelist
            \/ e.data # <<>> /\ Failures /\ UNCHANGED <<local, requests, vRemoteSnapFilelist>>
    /\ UNCHANGED <<network, nSnapshotDownNetId, remote, asked>>

Handle ==
    \/ HandlePeerActive \/ HandlePeerDeactive
    \/ HandleMsgFilelistRsp \/ HandleMsgDownDataRsp

-------------------------------------------------------------------------------
(* Connections and restarts                                                *)

Connect ==
    /\ link = 0 /\ connections < MaxConnections
    /\ connections' = connections + 1 /\ link' = connections + 1
    /\ events' = Append(events, [msg |-> "active", net |-> connections + 1])
    /\ UNCHANGED <<crashes, requests, nSnapshotDownNetId, vRemoteSnapFilelist, local, remote, asked>>

\* What has not reached the queue of the channel is lost.
Disconnect ==
    /\ link # 0
    /\ link' = 0 /\ requests' = <<>>
    /\ \E n \in 0 .. Len(events) :
          /\ \A i \in n + 1 .. Len(events) : events[i].msg \notin {"active", "deactive"}
          /\ events' = Append(SubSeq(events, 1, n), [msg |-> "deactive", net |-> link])
    /\ UNCHANGED <<connections, crashes, nSnapshotDownNetId, vRemoteSnapFilelist, local, remote, asked>>

\* The node stops, perhaps in the middle of a write, and starts again.
Crash ==
    /\ crashes < MaxCrashes
    /\ crashes' = crashes + 1
    /\ \/ UNCHANGED local
       \/ /\ events # <<>> /\ Head(events).msg = "downdata_rsp"
          /\ \E n \in 1 .. Len(Head(events).data) :
                local' = [local EXCEPT ![Head(events).file] = @ \o SubSeq(Head(events).data, 1, n)]
    /\ link' = 0 /\ requests' = <<>> /\ events' = <<>>
    /\ nSnapshotDownNetId' = 0 /\ vRemoteSnapFilelist' = <<>> /\ asked' = <<>>
    /\ UNCHANGED <<connections, remote>>

Next ==
    \/ HandleMsgFilelistReq \/ HandleMsgDownDataReq \/ SaveSnapshotData \/ RemoveSnapshot
    \/ Handle \/ Connect \/ Disconnect \/ Crash

\* Both nodes go on handling what they have received.
Fairness ==
    /\ WF_vars(HandleMsgFilelistReq) /\ WF_vars(HandleMsgDownDataReq)
    /\ WF_vars(HandlePeerActive) /\ WF_vars(HandlePeerDeactive)
    /\ WF_vars(HandleMsgFilelistRsp) /\ WF_vars(HandleMsgDownDataRsp)

Spec == Init /\ [][Next]_vars /\ Fairness

-------------------------------------------------------------------------------
(* Properties                                                              *)

\* A local file is at all times a beginning of the remote one: no byte twice, none left
\* out, although chunks are appended without looking at their offset and a file is gone
\* on with after lost connections, lost answers and restarts.
LocalIsPrefix ==
    \A f \in Files : \A i \in DOMAIN local[f] : local[f][i] = i

\* With such a peer, a connection that stays up ends with all files copied.
Downloaded ==
    <>[](link # 0) => <>(asked # <<>> /\ \A f \in Files : Len(local[f]) >= asked[f])
=============================================================================
