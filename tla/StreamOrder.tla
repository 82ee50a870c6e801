---------------------------- MODULE StreamOrder ----------------------------
(***************************************************************************)
(* Why a file transfer delivers what it reports: the cells of a request    *)
(* have an order, and the sender's position, the cells on the wire and the *)
(* receiver's position are consecutive in it, as long as the receiver is in*)
(* step with the frames. InOrder is the inductive invariant of FileTransfer*)
(* the proofs rest on.                                                     *)
(*                                                                         *)
(* A place is a pair: the file, 0 for the header, and the step in it, which*)
(* is 0 for the FileInfo, 1 for the size and n + 1 for byte n.             *)
(***************************************************************************)
EXTENDS FileTransfer

Place(cell) ==
    <<cell.file, IF cell.kind = "size" THEN 1 ELSE IF cell.kind = "data" THEN cell.n + 1 ELSE 0>>

HeaderPlace == <<0, 0>>
FilePlace(i) == <<i, 0>>
EndPlace == FilePlace(Len(files) + 1)

\* The place after p
After(p) ==
    IF p[1] = 0 THEN FilePlace(1)
    ELSE IF p[2] = 0 THEN <<p[1], 1>>
    ELSE IF p[2] <= files[p[1]].bytes THEN <<p[1], p[2] + 1>>
    ELSE FilePlace(p[1] + 1)

NotAfter(p, q) == p[1] < q[1] \/ (p[1] = q[1] /\ p[2] <= q[2])

\* The cells of the request
IsHeader(cell) == cell = Cell("header", 0, Len(files))
IsMeta(cell) == \E i \in 1 .. Len(files) : cell = Cell("meta", i, 0)
IsSize(cell) == \E i \in 1 .. Len(files) : cell = Cell("size", i, SizeField(files[i]))
IsData(cell) ==
    \E i \in 1 .. Len(files) : \E n \in 1 .. files[i].bytes : cell = Cell("data", i, n)
IsCell(cell) == IsHeader(cell) \/ IsMeta(cell) \/ IsSize(cell) \/ IsData(cell)

\* The place of the cell the sender writes next
SenderPlace ==
    CASE spc \in {"idle", "begin", "header"} -> HeaderPlace
      [] spc = "meta" -> FilePlace(sIdx)
      [] spc \in {"open", "size"} -> <<sIdx, 1>>
      [] spc = "data" -> After(<<sIdx, sOff + 1>>)
      [] OTHER -> EndPlace

\* No cell from this place on has been written.
Furthest == IF sStatus = "failed" THEN FilePlace(sIdx + 1) ELSE SenderPlace

\* The place of the cell the receiver waits for
ReceiverPlace ==
    CASE rpc \in {"listening", "header"} -> HeaderPlace
      [] rpc \in {"begin", "mkdir"} -> FilePlace(1)
      [] rpc = "size" -> <<ReceivedFiles + 1, 1>>
      [] rpc = "create" -> After(<<ReceivedFiles + 1, 1>>)
      [] rpc = "data" -> After(<<ReceivedFiles + 1, rGot + 1>>)
      [] OTHER -> IF ReceivedFiles = 0 THEN FilePlace(1) ELSE After(<<ReceivedFiles, rGot + 1>>)

Receiving == rpc \notin {"closing", "closed", "reset"}

ReceiverNotAhead == aligned => ReceivedFiles <= SentFiles + 1

SenderLeadOnWire ==
    aligned /\ Receiving /\ up["sender"] /\ sStatus # "failed" =>
        2 * (SentFiles - ReceivedFiles - 1) <= Len(wire)

\* As long as the frames are in step, the two counters a user watches agree with
\* the stream between them, in both directions: the receiver has counted no file
\* the sender has not begun, and every file but one by which a running sender
\* leads a running receiver has its FileInfo and its size still on the wire. (An
\* empty file has nothing else, so that it is the wire that bounds the lead.)
CountersMatchWire == ReceiverNotAhead /\ SenderLeadOnWire
-----------------------------------------------------------------------------
\* The sender's locals and what it reports fit its control point.
SenderInStep ==
    /\ sIdx \in 1 .. Len(files) + 1 /\ SentFiles = sIdx - 1
    /\ spc \in {"idle", "begin", "header"} => sIdx = 1
    /\ spc \in {"meta", "open", "size", "data"} => sIdx <= Len(files)
    /\ spc = "data" => sOff <= files[sIdx].bytes
    /\ spc # "data" /\ sStatus # "failed" => sOff = 0
    /\ spc = "finish" \/ sStatus = "done" => sIdx = Len(files) + 1
    /\ spc = "idle" => sStatus = "none"
    /\ spc = "begin" => sStatus = "pending"
    /\ spc \in {"header", "meta", "open", "size", "data", "finish"} => sStatus = "sending"
    /\ spc \in {"closing", "closed"} => sStatus \in Settled

\* The wire holds cells of the request one after the other, the sender goes on
\* where it ends, and nothing is on it that was not written.
WireInOrder ==
    /\ \A j \in 1 .. Len(wire) :
        IsCell(wire[j]) /\ NotAfter(After(Place(wire[j])), Furthest)
    /\ \A j \in 1 .. Len(wire) - 1 : Place(wire[j + 1]) = After(Place(wire[j]))
    /\ wire # <<>> /\ up["sender"] /\ sStatus # "failed" =>
        SenderPlace = After(Place(wire[Len(wire)]))

\* What the receiver reports and counts fits its control point.
ReceiverCounts ==
    /\ rpc \in {"listening", "header", "reset"} => rStatus = "none"
    /\ rpc = "begin" => rStatus = "pending"
    /\ rpc \in {"mkdir", "meta", "size", "create", "data", "finish"} => rStatus = "sending"
    /\ rpc \in {"listening", "header", "reset", "begin", "mkdir"} => ReceivedFiles = 0 /\ aligned
    /\ rpc \in {"begin", "mkdir", "meta", "size", "create", "data", "finish"} => rTotal = Len(files)
    /\ rpc \in {"meta", "size", "create", "data"} => ReceivedFiles < Len(files)
    /\ rpc = "finish" \/ rStatus = "done" => ReceivedFiles = Len(files)

\* In step or not, the receiver writes to a file it has created.
FileOpened ==
    /\ rpc \in {"size", "create", "data"} => rName \in Names
    /\ rpc = "data" => saved[rName] \in Seq(Cells)

\* In step, the next cell the receiver gets is the one it waits for, and it does
\* not wait for more than the sender has written.
ReceiverInStep ==
    Receiving /\ aligned =>
        /\ wire # <<>> => Place(wire[1]) = ReceiverPlace
        /\ wire = <<>> /\ up["sender"] /\ sStatus # "failed" => SenderPlace = ReceiverPlace
        /\ NotAfter(ReceiverPlace, Furthest)

\* In step, the file being received is the one after those counted, and what is
\* stored of it is its beginning.
FileInStep ==
    aligned =>
        /\ rpc \in {"size", "create", "data"} => rName = files[ReceivedFiles + 1].name
        /\ rpc \in {"create", "data"} => rSize = files[ReceivedFiles + 1].size
        /\ rpc = "data" =>
            /\ rGot <= files[ReceivedFiles + 1].bytes
            /\ saved[rName] = [k \in 1 .. rGot |-> Cell("data", ReceivedFiles + 1, k)]
        /\ rpc \in {"meta", "finish"} /\ ReceivedFiles > 0 => rGot <= files[ReceivedFiles].bytes

\* A sound request keeps the receiver in step, and each file gets what it has.
SoundInStep ==
    SoundRequest /\ Receiving =>
        /\ aligned
        /\ rpc \in {"meta", "finish"} /\ ReceivedFiles > 0 => rGot = files[ReceivedFiles].bytes

InOrder ==
    /\ SenderInStep /\ WireInOrder
    /\ ReceiverCounts /\ FileOpened /\ ReceiverInStep /\ FileInStep /\ SoundInStep

\* Of files with different names each one counted stays as it was stored.
CountedStored ==
    SoundRequest /\ DistinctNames =>
        \A i \in 1 .. ReceivedFiles : saved[files[i].name] = Contents(i)

\* Without disk failures a sender fails only while it has a cell to write, which
\* then nobody receives; what is reported done was all written.
FailedIsUnfinished ==
    ~DiskMayFail =>
        /\ sStatus = "failed" =>
            /\ \A j \in 1 .. Len(wire) : ~NotAfter(EndPlace, After(Place(wire[j])))
            /\ Receiving /\ aligned => ~NotAfter(EndPlace, ReceiverPlace)
        /\ SoundRequest /\ rStatus = "done" => NotAfter(EndPlace, Furthest) /\ sStatus # "failed"

\* What an end learns of the other is true, and it is told: the end of the stream
\* comes of the sender's Close and STOP_SENDING of the receiver's or a reset, and
\* the Close of an end that is up leaves one or the other behind.
CloseIsTold ==
    /\ spc = "idle" => wire = <<>> /\ rpc = "listening"
    /\ fin => spc = "closed"
    /\ spc = "closed" /\ up["sender"] => fin
    /\ stopped # "no" => rpc \in {"closed", "reset"}
    /\ rpc \in {"closed", "reset"} /\ up["receiver"] => stopped # "no"
    /\ rpc = "reset" => ~negotiated

\* As long as nothing is lost and no disk fails, neither end of a sound request
\* fails, and a receiver that closes is done.
GoesWell ==
    SoundRequest /\ negotiated /\ ~DiskMayFail /\ (\A e \in Ends : up[e]) =>
        /\ sStatus # "failed" /\ rStatus # "failed"
        /\ rpc \in {"closing", "closed"} => rStatus = "done"
=============================================================================
