---------------------------- MODULE FileTransfer ----------------------------
(***************************************************************************)
(* One file transfer between two agents: the goroutine POST /peers/:id     *)
(* starts (sendFile, writeWithLength), the libp2p stream it writes, and the*)
(* goroutine of handleIncomingFileStream at the other end (receiveFile,    *)
(* readWithLength).                                                        *)
(*                                                                         *)
(* The stream is a bounded FIFO of cells: one for the TransferHeader frame,*)
(* and for each file one for its FileInfo frame, one for its 8-byte size   *)
(* and one per byte of its contents. Once the receiver takes a cell for    *)
(* what it is not, it has lost the frame boundaries (aligned) and what it  *)
(* decodes from then on is arbitrary.                                      *)
(*                                                                         *)
(* QUIC is the environment: in order and reliable while the connection     *)
(* lives; the two ends learn of its loss at different times, and cells     *)
(* still under way are lost with it. Close at either end of a libp2p       *)
(* stream ends the writing (fin) and tells the peer to stop sending.       *)
(***************************************************************************)
EXTENDS Integers, Sequences, FiniteSets

CONSTANTS
    Names,           \* file names, as filepath.Base leaves them
    Requests,        \* the request bodies: sequences of files, see FileInfo
    SizeBits,        \* width of the size field: 64 in the code
    Window,          \* cells the sender may have under way
    Negotiations,    \* may the stream be opened with FileTransferProtocol, or not?
    LossMayHappen,   \* may the connection be lost?
    DiskMayFail,     \* may a file operation of either agent fail?
    NoFile,          \* saved under a name nothing was saved under
    NoName           \* no name decoded yet

\* A FileInfo and the file it names: Size is what the client of the API wrote
\* in the request, bytes what os.Open(Path) will find.
FileInfo ==
    [name : Names, size : 0 .. 2^SizeBits - 1, bytes : Nat, readable : BOOLEAN]

Cells == [kind : {"header", "meta", "size", "data"}, file : Nat, n : Nat]

ASSUME TransferAssumption ==
    /\ SizeBits \in Nat \ {0} /\ Window \in Nat \ {0}
    /\ Requests \subseteq Seq(FileInfo)
    /\ Negotiations \subseteq BOOLEAN /\ {LossMayHappen, DiskMayFail} \subseteq BOOLEAN
    /\ NoName \notin Names /\ NoFile \notin Seq(Cells)

VARIABLES
    files,      \* SendDataRequest.Files
    spc,        \* control point of the sending goroutine
    sIdx,       \* the file it is at
    sOff,       \* bytes of it io.Copy has written
    sStatus,    \* SendingFile.Status, "none" before the transfer is registered
    SentFiles,  \* SendingFile.SentFiles
    sampler,    \* the goroutine that samples the speed every second
    wire,       \* cells written and not yet read
    fin,        \* has the sender closed its end?
    stopped,    \* STOP_SENDING: "no", "sent" by the receiver, "arrived"
    negotiated, \* was it opened with FileTransferProtocol?
    up,         \* does each end still hold the connection open?
    rpc,        \* control point of the receiving goroutine
    rTotal,     \* len(header.Files)
    rName, rSize, rGot, \* meta.Name, fileSize and bytes written in receiveFile
    aligned,    \* is the receiver still on the sender's frame boundaries?
    rStatus,    \* ReceivingFile.Status, "none" before the transfer is registered
    ReceivedFiles, \* ReceivingFile.ReceivedFiles
    saved       \* contents of the save directory: name -> cells, or NoFile

senderVars == <<files, spc, sIdx, sOff, sStatus, SentFiles, sampler>>
streamVars == <<wire, fin, stopped, negotiated, up>>
receiverVars == <<rpc, rTotal, rName, rSize, rGot, aligned, rStatus, ReceivedFiles, saved>>
vars == <<senderVars, streamVars, receiverVars>>

Statuses == {"none", "pending", "sending", "done", "failed"}
Settled == {"done", "failed"}
SenderPoints ==
    {"idle", "begin", "header", "meta", "open", "size", "data", "finish", "closing", "closed"}
ReceiverPoints ==
    {"listening", "header", "begin", "mkdir", "meta", "size", "create", "data",
     "finish", "closing", "closed", "reset"}
Ends == {"sender", "receiver"}

Cell(kind, file, n) == [kind |-> kind, file |-> file, n |-> n]
Head1 == wire[1]
-----------------------------------------------------------------------------
Init ==
    /\ files \in Requests
    /\ spc = "idle" /\ sIdx = 1 /\ sOff = 0
    /\ sStatus = "none" /\ SentFiles = 0 /\ sampler = "none"
    /\ wire = <<>> /\ fin = FALSE /\ stopped = "no"
    /\ negotiated \in Negotiations
    /\ up = [e \in Ends |-> TRUE]
    /\ rpc = "listening" /\ rTotal = 0
    /\ rName = NoName /\ rSize = 0 /\ rGot = 0 /\ aligned = TRUE
    /\ rStatus = "none" /\ ReceivedFiles = 0
    /\ saved = [n \in Names |-> NoFile]

(***************************************************************************)
(* The sending goroutine                                                   *)
(***************************************************************************)

\* The handler opens the stream, registers the transfer, starts the goroutine
\* and answers 202. (Every earlier return of it leaves nothing behind.)
Post ==
    /\ spc = "idle" /\ up["sender"]
    /\ spc' = "begin"
    /\ sStatus' = "pending"
    /\ UNCHANGED <<files, sIdx, sOff, SentFiles, sampler, streamVars, receiverVars>>

\* Status -> sending, then go the speed sampler
BeginSending ==
    /\ spc = "begin"
    /\ spc' = "header"
    /\ sStatus' = "sending"
    /\ sampler' = "running"
    /\ UNCHANGED <<files, sIdx, sOff, SentFiles, streamVars, receiverVars>>

\* Mutant: the sender does not look at STOP_SENDING.
WriteFailing_NoStop == ~up["sender"]

WriteFailing == ~up["sender"] \/ stopped = "arrived"

\* A Write of the stream: blocks while the window is full
Write(cell) ==
    /\ ~WriteFailing
    /\ Len(wire) < Window
    /\ wire' = Append(wire, cell)
    /\ UNCHANGED <<fin, stopped, negotiated, up>>

NextFile(i) == IF i > Len(files) THEN "finish" ELSE "meta"

WriteHeader ==
    /\ spc = "header"
    /\ Write(Cell("header", 0, Len(files)))
    /\ spc' = NextFile(1)
    /\ UNCHANGED <<files, sIdx, sOff, sStatus, SentFiles, sampler, receiverVars>>

WriteMeta ==
    /\ spc = "meta"
    /\ Write(Cell("meta", sIdx, 0))
    /\ spc' = "open"
    /\ UNCHANGED <<files, sIdx, sOff, sStatus, SentFiles, sampler, receiverVars>>

OpenFile ==
    /\ spc = "open"
    /\ files[sIdx].readable
    /\ spc' = "size"
    /\ UNCHANGED <<files, sIdx, sOff, sStatus, SentFiles, sampler, streamVars, receiverVars>>

\* Mutant: the size is converted to a signed number before it is written.
SizeField_Signed(f) == IF f.size < 2^(SizeBits - 1) THEN f.size ELSE f.size - 2^SizeBits

\* The size on the wire: the one the client declared
SizeField(f) == f.size

\* Mutant: an empty file gets no size field.
WriteSize_NotForEmpty ==
    /\ spc = "size"
    /\ \/ files[sIdx].bytes > 0 /\ Write(Cell("size", sIdx, SizeField(files[sIdx])))
       \/ files[sIdx].bytes = 0 /\ UNCHANGED streamVars
    /\ spc' = "data"
    /\ UNCHANGED <<files, sIdx, sOff, sStatus, SentFiles, sampler, receiverVars>>

WriteSize ==
    /\ spc = "size"
    /\ Write(Cell("size", sIdx, SizeField(files[sIdx])))
    /\ spc' = "data"
    /\ UNCHANGED <<files, sIdx, sOff, sStatus, SentFiles, sampler, receiverVars>>

\* io.Copy writes the next byte of the file
CopyByte ==
    /\ spc = "data"
    /\ sOff < files[sIdx].bytes
    /\ Write(Cell("data", sIdx, sOff + 1))
    /\ sOff' = sOff + 1
    /\ UNCHANGED <<files, spc, sIdx, sStatus, SentFiles, sampler, receiverVars>>

\* Mutant: SentFiles = i, the zero-based index of the loop.
FileSent_ZeroBased ==
    /\ spc = "data"
    /\ sOff = files[sIdx].bytes
    /\ SentFiles' = sIdx - 1
    /\ sIdx' = sIdx + 1
    /\ sOff' = 0
    /\ spc' = NextFile(sIdx + 1)
    /\ UNCHANGED <<files, sStatus, sampler, streamVars, receiverVars>>

\* io.Copy met the end of the file: SentFiles = i + 1
FileSent ==
    /\ spc = "data"
    /\ sOff = files[sIdx].bytes
    /\ SentFiles' = sIdx
    /\ sIdx' = sIdx + 1
    /\ sOff' = 0
    /\ spc' = NextFile(sIdx + 1)
    /\ UNCHANGED <<files, sStatus, sampler, streamVars, receiverVars>>

\* Mutant: the stream's state is tested once more after the last file.
SendFails_LateCheck ==
    /\ \/ spc \in {"header", "meta", "size", "data", "finish"} /\ WriteFailing
       \/ spc = "open" /\ ~files[sIdx].readable
       \/ spc \in {"open", "data"} /\ DiskMayFail
    /\ sStatus' = "failed"
    /\ spc' = "closing"
    /\ UNCHANGED <<files, sIdx, sOff, SentFiles, sampler, streamVars, receiverVars>>

\* A Write, os.Open or a read of the file returns an error
SendFails ==
    /\ \/ spc \in {"header", "meta", "size"} /\ WriteFailing
       \/ spc = "data" /\ WriteFailing /\ sOff < files[sIdx].bytes
       \/ spc = "open" /\ ~files[sIdx].readable
       \/ spc \in {"open", "data"} /\ DiskMayFail
    /\ sStatus' = "failed"
    /\ spc' = "closing"
    /\ UNCHANGED <<files, sIdx, sOff, SentFiles, sampler, streamVars, receiverVars>>

FinishSending ==
    /\ spc = "finish"
    /\ sStatus' = "done"
    /\ spc' = "closing"
    /\ UNCHANGED <<files, sIdx, sOff, SentFiles, sampler, streamVars, receiverVars>>

\* Mutant: no deferred rawStream.Close().
CloseSender_NoClose ==
    /\ spc = "closing"
    /\ spc' = "closed"
    /\ sampler' = "stopping"
    /\ UNCHANGED <<files, sIdx, sOff, sStatus, SentFiles, streamVars, receiverVars>>

\* Mutant: a deferred rawStream.Reset(), which drops what is under way.
CloseSender_Reset ==
    /\ spc = "closing"
    /\ spc' = "closed"
    /\ sampler' = "stopping"
    /\ fin' = up["sender"] /\ wire' = <<>>
    /\ UNCHANGED <<files, sIdx, sOff, sStatus, SentFiles, stopped, negotiated, up,
                   receiverVars>>

\* The deferred close(stopSampler) and rawStream.Close()
CloseSender ==
    /\ spc = "closing"
    /\ spc' = "closed"
    /\ sampler' = "stopping"
    /\ fin' = up["sender"]
    /\ UNCHANGED <<files, sIdx, sOff, sStatus, SentFiles, wire, stopped, negotiated, up,
                   receiverVars>>

\* The sampler's select sees stopSampler closed. (Its ticks, which only touch
\* the speed history, leave every variable here alone.)
SamplerStops ==
    /\ sampler = "stopping"
    /\ sampler' = "stopped"
    /\ UNCHANGED <<files, spc, sIdx, sOff, sStatus, SentFiles, streamVars, receiverVars>>

(***************************************************************************)
(* The receiving goroutine                                                 *)
(***************************************************************************)

CanRead == up["receiver"] /\ wire # <<>>
AtEnd == ~up["receiver"] \/ (wire = <<>> /\ fin)
Consume == wire' = Tail(wire) /\ UNCHANGED <<fin, stopped, negotiated, up>>

\* libp2p hands the stream to handleIncomingFileStream, or resets it if it does
\* not begin with the negotiation of FileTransferProtocol.
AcceptStream ==
    /\ rpc = "listening" /\ CanRead
    /\ IF negotiated
       THEN rpc' = "header" /\ UNCHANGED streamVars
       ELSE /\ rpc' = "reset"
            /\ wire' = <<>> /\ stopped' = "sent" /\ UNCHANGED <<fin, negotiated, up>>
    /\ UNCHANGED <<senderVars, rTotal, rName, rSize, rGot, aligned, rStatus,
                   ReceivedFiles, saved>>

\* readWithLength, Unmarshal, SetReceivingFile
ReadHeader ==
    /\ rpc = "header" /\ CanRead
    /\ Consume
    /\ rTotal' = Head1.n
    /\ rStatus' = "pending"
    /\ rpc' = "begin"
    /\ UNCHANGED <<senderVars, rName, rSize, rGot, aligned, ReceivedFiles, saved>>

BeginReceiving ==
    /\ rpc = "begin"
    /\ rStatus' = "sending"
    /\ rpc' = "mkdir"
    /\ UNCHANGED <<senderVars, streamVars, rTotal, rName, rSize, rGot, aligned,
                   ReceivedFiles, saved>>

\* The head of the loop over header.Files, with k of them received
NextReceive(k) == IF k = rTotal THEN "finish" ELSE "meta"

MakeSaveDir ==
    /\ rpc = "mkdir"
    /\ rpc' = NextReceive(0)
    /\ UNCHANGED <<senderVars, streamVars, rTotal, rName, rSize, rGot, aligned,
                   rStatus, ReceivedFiles, saved>>

ReadMeta ==
    /\ rpc = "meta" /\ CanRead
    /\ aligned /\ Head1.kind = "meta"
    /\ Consume
    /\ rName' = files[Head1.file].name
    /\ rpc' = "size"
    /\ UNCHANGED <<senderVars, rTotal, rSize, rGot, aligned, rStatus, ReceivedFiles, saved>>

\* What is on the wire is not the FileInfo the receiver takes it for: it waits
\* for more bytes, or happens to decode some FileInfo (or fails: ReceiveFails).
ReadWrongMeta ==
    /\ rpc = "meta" /\ CanRead
    /\ ~(aligned /\ Head1.kind = "meta")
    /\ Consume
    /\ aligned' = FALSE
    /\ \/ UNCHANGED <<rpc, rName>>
       \/ rpc' = "size" /\ \E n \in Names : rName' = n
    /\ UNCHANGED <<senderVars, rTotal, rSize, rGot, rStatus, ReceivedFiles, saved>>

ReadSize ==
    /\ rpc = "size" /\ CanRead
    /\ aligned /\ Head1.kind = "size"
    /\ Consume
    /\ rSize' = Head1.n
    /\ rpc' = "create"
    /\ UNCHANGED <<senderVars, rTotal, rName, rGot, aligned, rStatus, ReceivedFiles, saved>>

ReadWrongSize ==
    /\ rpc = "size" /\ CanRead
    /\ ~(aligned /\ Head1.kind = "size")
    /\ Consume
    /\ aligned' = FALSE
    /\ \/ UNCHANGED <<rpc, rSize>>
       \/ rpc' = "create" /\ \E n \in 0 .. 2^SizeBits - 1 : rSize' = n
    /\ UNCHANGED <<senderVars, rTotal, rName, rGot, rStatus, ReceivedFiles, saved>>

\* Mutant: a file of that name is appended to.
CreateFile_Append ==
    /\ rpc = "create"
    /\ saved' = [saved EXCEPT ![rName] = IF @ = NoFile THEN <<>> ELSE @]
    /\ rGot' = 0
    /\ rpc' = "data"
    /\ UNCHANGED <<senderVars, streamVars, rTotal, rName, rSize, aligned, rStatus,
                   ReceivedFiles>>

\* os.Create, which truncates a file of that name
CreateFile ==
    /\ rpc = "create"
    /\ saved' = [saved EXCEPT ![rName] = <<>>]
    /\ rGot' = 0
    /\ rpc' = "data"
    /\ UNCHANGED <<senderVars, streamVars, rTotal, rName, rSize, aligned, rStatus,
                   ReceivedFiles>>

\* int64(fileSize): the top bit of the field is taken for a sign
Signed(n) == IF n < 2^(SizeBits - 1) THEN n ELSE n - 2^SizeBits
\* Mutant: one byte short.
CopyLimit_Short == Signed(rSize) - 1

CopyLimit == Signed(rSize)

\* io.CopyN moves one byte from the stream to the file
CopyNByte ==
    /\ rpc = "data" /\ CanRead
    /\ rGot < CopyLimit
    /\ Consume
    /\ saved' = [saved EXCEPT ![rName] = Append(@, Head1)]
    /\ rGot' = rGot + 1
    /\ aligned' = (aligned /\ Head1.kind = "data")
    /\ UNCHANGED <<senderVars, rpc, rTotal, rName, rSize, rStatus, ReceivedFiles>>

\* io.CopyN has its bytes: ReceivedFiles = i + 1
FileReceived ==
    /\ rpc = "data"
    /\ rGot >= CopyLimit
    /\ ReceivedFiles' = ReceivedFiles + 1
    /\ rpc' = NextReceive(ReceivedFiles + 1)
    /\ UNCHANGED <<senderVars, streamVars, rTotal, rName, rSize, rGot, aligned, rStatus, saved>>

\* A read meets the end of the stream or of the connection, a frame does not
\* decode, or the file system fails. Before the header nothing is registered.
ReceiveFails ==
    /\ \/ rpc \in {"header", "meta", "size"} /\ AtEnd
       \/ rpc = "data" /\ (AtEnd \/ DiskMayFail) /\ rGot < CopyLimit
       \/ rpc = "meta" /\ CanRead /\ ~(aligned /\ Head1.kind = "meta")
       \/ rpc \in {"mkdir", "create"} /\ DiskMayFail
    /\ rStatus' = IF rpc = "header" THEN rStatus ELSE "failed"
    /\ rpc' = "closing"
    /\ UNCHANGED <<senderVars, streamVars, rTotal, rName, rSize, rGot, aligned,
                   ReceivedFiles, saved>>

FinishReceiving ==
    /\ rpc = "finish"
    /\ rStatus' = "done"
    /\ rpc' = "closing"
    /\ UNCHANGED <<senderVars, streamVars, rTotal, rName, rSize, rGot, aligned,
                   ReceivedFiles, saved>>

\* The deferred stream.Close(): unread cells are dropped
CloseReceiver ==
    /\ rpc = "closing"
    /\ rpc' = "closed"
    /\ wire' = <<>>
    /\ stopped' = IF up["receiver"] THEN "sent" ELSE stopped
    /\ UNCHANGED <<senderVars, fin, negotiated, up, rTotal, rName, rSize, rGot, aligned, rStatus,
                   ReceivedFiles, saved>>

(***************************************************************************)
(* QUIC                                                                    *)
(***************************************************************************)

StopArrives ==
    /\ stopped = "sent" /\ \A e \in Ends : up[e]
    /\ stopped' = "arrived"
    /\ UNCHANGED <<senderVars, wire, fin, negotiated, up, receiverVars>>

\* End e finds the connection lost. What the sender still had to deliver, its
\* FIN last, is lost with it from some cell on.
LoseConn(e) ==
    /\ up[e]
    /\ LossMayHappen \/ \E other \in Ends : ~up[other]
    /\ up' = [up EXCEPT ![e] = FALSE]
    /\ \/ UNCHANGED <<wire, fin>>
       \/ /\ e = "sender" /\ fin' = FALSE
          /\ \E k \in 0 .. Len(wire) : wire' = SubSeq(wire, 1, k)
    /\ UNCHANGED <<senderVars, stopped, negotiated, receiverVars>>

NoticesLoss(e) == (\E other \in Ends : ~up[other]) /\ LoseConn(e)
-----------------------------------------------------------------------------
Sender ==
    \/ BeginSending \/ WriteHeader \/ WriteMeta \/ OpenFile \/ WriteSize
    \/ CopyByte \/ FileSent \/ SendFails \/ FinishSending \/ CloseSender

Receiver ==
    \/ AcceptStream \/ ReadHeader \/ BeginReceiving \/ MakeSaveDir
    \/ ReadMeta \/ ReadWrongMeta \/ ReadSize \/ ReadWrongSize
    \/ CreateFile \/ CopyNByte \/ FileReceived \/ ReceiveFails
    \/ FinishReceiving \/ CloseReceiver

Next ==
    \/ Post \/ Sender \/ SamplerStops \/ Receiver
    \/ StopArrives \/ \E e \in Ends : LoseConn(e)

\* Goroutines that can run do run, STOP_SENDING is delivered, and an end whose
\* peer is gone times out. No client has to post and no connection to be lost.
Fairness ==
    /\ WF_vars(Sender) /\ WF_vars(SamplerStops) /\ WF_vars(Receiver)
    /\ WF_vars(StopArrives)
    /\ \A e \in Ends : WF_vars(NoticesLoss(e))

Spec == Init /\ [][Next]_vars
FairSpec == Spec /\ Fairness
-----------------------------------------------------------------------------
TypeOK ==
    /\ files \in Requests
    /\ spc \in SenderPoints /\ sIdx \in Nat \ {0} /\ sOff \in Nat
    /\ sStatus \in Statuses /\ SentFiles \in Nat
    /\ sampler \in {"none", "running", "stopping", "stopped"}
    /\ wire \in Seq(Cells) /\ fin \in BOOLEAN
    /\ stopped \in {"no", "sent", "arrived"}
    /\ negotiated \in BOOLEAN /\ up \in [Ends -> BOOLEAN]
    /\ rpc \in ReceiverPoints /\ rTotal \in Nat
    /\ rName \in Names \cup {NoName} /\ rSize \in Nat /\ rGot \in Nat
    /\ aligned \in BOOLEAN
    /\ rStatus \in Statuses /\ ReceivedFiles \in Nat
    /\ saved \in [Names -> {NoFile} \cup Seq(Cells)]

Contents(i) == [k \in 1 .. files[i].bytes |-> Cell("data", i, k)]

\* A request whose files exist, with their true sizes, none of them so large
\* that the size field turns negative
SoundRequest ==
    \A i \in 1 .. Len(files) :
        files[i].readable /\ files[i].size = files[i].bytes /\ Signed(files[i].size) >= 0

DistinctNames == \A i, j \in 1 .. Len(files) : files[i].name = files[j].name => i = j

WellFormedRequest == SoundRequest /\ DistinctNames

\* Of a well-formed request, whatever is lost or fails on the way: every file
\* the receiver has counted is on its disk, complete and unmixed, and a
\* transfer it calls done has them all.
DeliveryIntegrity ==
    WellFormedRequest =>
        /\ \A i \in 1 .. ReceivedFiles : saved[files[i].name] = Contents(i)
        /\ rStatus = "done" => ReceivedFiles = Len(files)

\* Of a sound request, over a negotiated stream and on sound disks, an end
\* reports failed only once an end has lost the connection: neither end's Close,
\* nor the end of the stream or STOP_SENDING it becomes at the other, cuts off a
\* transfer that goes well.
FailsOnlyByLoss ==
    SoundRequest /\ negotiated /\ ~DiskMayFail /\ (\A e \in Ends : up[e]) =>
        sStatus # "failed" /\ rStatus # "failed"

\* The sender is in a Write that neither fails nor has room.
SenderBlocked ==
    /\ spc \in {"header", "meta", "size"} \/ (spc = "data" /\ sOff < files[sIdx].bytes)
    /\ ~WriteFailing /\ Len(wire) >= Window

\* The receiver is in a Read that has nothing to return.
ReceiverBlocked ==
    /\ rpc \in {"header", "meta", "size"} \/ (rpc = "data" /\ rGot < CopyLimit)
    /\ ~CanRead /\ ~AtEnd

\* No Read or Write of the stream has a deadline, so each one that blocks must
\* have something to wake it, whatever was lost or failed: the other goroutine
\* at work, its Close on the way, or a lost connection there is yet to notice.
BlockedIsAnswered ==
    /\ SenderBlocked =>
        \/ ~up["receiver"] \/ stopped = "sent"
        \/ rpc \notin {"closed", "reset"} /\ ~ReceiverBlocked
    /\ ReceiverBlocked =>
        ~up["sender"] \/ (spc \notin {"idle", "closed"} /\ ~SenderBlocked)

\* Every transfer a client started ends as done or failed, with its sampling
\* goroutine gone, however its request, the disks or the network misbehave: a
\* writer blocked on a full window and its reader never wait for each other.
SendingSettles == sStatus = "pending" ~> sStatus \in Settled /\ sampler = "stopped"

\* So does every transfer the receiver registered, and its stream is closed.
ReceivingSettles == rStatus = "pending" ~> rStatus \in Settled /\ rpc = "closed"

\* Both ends report a well-formed request done, unless the connection is lost.
BothReportDone ==
    WellFormedRequest /\ sStatus = "pending" ~>
        \/ sStatus = "done" /\ rStatus = "done"
        \/ \E e \in Ends : ~up[e]

\* post.go:151: the size on the wire is the actual size of the file, so a
\* transfer both ends report done has delivered every file whole.
DoneMeansWhole ==
    sStatus = "done" /\ rStatus = "done" =>
        \A i \in 1 .. Len(files) : saved[files[i].name] = Contents(i)

\* The bytes of the save directory, without the frames they came in
StoredBytes ==
    [n \in Names |->
        IF saved[n] = NoFile THEN NoFile
        ELSE [k \in DOMAIN saved[n] |-> <<saved[n][k].file, saved[n][k].n>>]]

\* A transfer, whatever fails, keeps the promise of Delivery: framing, window,
\* resets and losses included, its two ends do what a sender that hands over
\* files and a receiver that stores them in order would do.
D == INSTANCE Delivery WITH
        SizeLimit <- 2^(SizeBits - 1), Nothing <- NoFile,
        sender <- sStatus, receiver <- rStatus,
        sent <- SentFiles, counted <- ReceivedFiles, store <- StoredBytes
ImplementsDelivery == D!Spec
=============================================================================
