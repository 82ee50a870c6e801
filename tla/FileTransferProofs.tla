------------------------- MODULE FileTransferProofs -------------------------
(***************************************************************************)
(* Proofs about one file transfer, for any requests, window, size field and*)
(* faults: its two ends and the wire stay in order, and what the receiver  *)
(* counts and reports is on its disk.                                      *)
(***************************************************************************)
EXTENDS StreamOrder, WellFoundedInduction, TLAPS

(***************************************************************************)
(* Requests, cells and places                                              *)
(***************************************************************************)

\* A request is a sequence of typed files.
LEMMA RequestTyped ==
    ASSUME TypeOK
    PROVE  /\ Len(files) \in Nat
           /\ \A i \in 1 .. Len(files) : files[i] \in FileInfo
BY TransferAssumption DEF TypeOK

LEMMA CellsTyped ==
    ASSUME TypeOK, NEW c, IsCell(c)
    PROVE  /\ c \in Cells
           /\ c.kind = "meta" => c.file \in 1 .. Len(files)
<1> USE RequestTyped DEF Cells, Cell, FileInfo
<1>1. CASE IsHeader(c)
  BY <1>1 DEF IsHeader
<1>2. CASE IsMeta(c)
  BY <1>2 DEF IsMeta
<1>3. CASE IsSize(c)
  BY <1>3 DEF IsSize, SizeField
<1>4. CASE IsData(c)
  BY <1>4 DEF IsData
<1> QED
  BY <1>1, <1>2, <1>3, <1>4 DEF IsCell

LEMMA PlaceTyped ==
    ASSUME NEW c \in Cells
    PROVE  Place(c) \in Nat \X Nat
BY DEF Place, Cells

LEMMA AfterTyped ==
    ASSUME NEW p \in Nat \X Nat
    PROVE  After(p) \in Nat \X Nat
BY DEF After, FilePlace

LEMMA SenderPlaceTyped ==
    ASSUME TypeOK
    PROVE  SenderPlace \in Nat \X Nat /\ Furthest \in Nat \X Nat
<1>1. sIdx \in Nat /\ sOff \in Nat /\ Len(files) \in Nat
  BY RequestTyped DEF TypeOK
<1>2. After(<<sIdx, sOff + 1>>) \in Nat \X Nat
  BY <1>1, AfterTyped
<1> QED
  BY <1>1, <1>2 DEF SenderPlace, Furthest, HeaderPlace, FilePlace, EndPlace

LEMMA FurthestTypedNext ==
    (TypeOK => Furthest \in Nat \X Nat)'
<1>1. TypeOK => Furthest \in Nat \X Nat
  BY SenderPlaceTyped
<1> QED
  BY <1>1, PTL

LEMMA NotAfterReflexive ==
    ASSUME NEW p \in Nat \X Nat
    PROVE  NotAfter(p, p)
BY DEF NotAfter

LEMMA NotAfterTransitive ==
    ASSUME NEW p \in Nat \X Nat, NEW q \in Nat \X Nat, NEW r \in Nat \X Nat,
           NotAfter(p, q), NotAfter(q, r)
    PROVE  NotAfter(p, r)
BY DEF NotAfter

\* The order of the places depends on the request only.
LEMMA AfterKept ==
    ASSUME files' = files, NEW p
    PROVE  After(p)' = After(p)
BY DEF After

LEMMA CellsKept ==
    ASSUME files' = files, NEW c
    PROVE  IsCell(c)' = IsCell(c)
BY DEF IsCell, IsHeader, IsMeta, IsSize, IsData

(***************************************************************************)
(* What a step of one end leaves to the other                              *)
(***************************************************************************)

Sending == Post \/ Sender \/ SamplerStops

Environment == StopArrives \/ \E e \in Ends : LoseConn(e)

LEMMA NextCases ==
    ASSUME [Next]_vars
    PROVE  Sending \/ Receiver \/ Environment \/ UNCHANGED vars
BY DEF Next, Sending, Environment

LEMMA SendingKeeps ==
    ASSUME Sending
    PROVE  /\ UNCHANGED <<receiverVars, files, up, negotiated, stopped>>
           /\ wire' = wire \/ \E c : wire' = Append(wire, c)
BY DEF Sending, Post, Sender, SamplerStops, BeginSending, WriteHeader, WriteMeta, OpenFile,
       WriteSize, CopyByte, FileSent, SendFails, FinishSending, CloseSender, Write, streamVars

LEMMA ReceiverKeeps ==
    ASSUME Receiver
    PROVE  /\ UNCHANGED <<senderVars, up>>
           /\ wire' \in {wire, <<>>} \/ (wire # <<>> /\ wire' = Tail(wire))
BY DEF Receiver, AcceptStream, ReadHeader, BeginReceiving, MakeSaveDir, ReadMeta, ReadWrongMeta,
       ReadSize, ReadWrongSize, CreateFile, CopyNByte, FileReceived, ReceiveFails,
       FinishReceiving, CloseReceiver, Consume, CanRead, streamVars

LEMMA EnvironmentKeeps ==
    ASSUME Environment
    PROVE  /\ UNCHANGED <<senderVars, receiverVars, negotiated>>
           /\ \/ UNCHANGED <<wire, up>>
              \/ \E e \in Ends : up' = [up EXCEPT ![e] = FALSE] /\ UNCHANGED wire
              \/ /\ up' = [up EXCEPT !["sender"] = FALSE]
                 /\ \E k \in 0 .. Len(wire) : wire' = SubSeq(wire, 1, k)
BY DEF Environment, StopArrives, LoseConn, streamVars

LEMMA FilesKept ==
    ASSUME [Next]_vars
    PROVE  files' = files
BY NextCases, SendingKeeps, ReceiverKeeps, EnvironmentKeeps DEF vars, senderVars

(***************************************************************************)
(* The sender                                                              *)
(***************************************************************************)

LEMMA SenderInStepKept ==
    ASSUME TypeOK, SenderInStep, [Next]_vars
    PROVE  SenderInStep'
<1> USE RequestTyped DEF TypeOK, SenderInStep, FileInfo, Settled
<1>1. CASE Sending
  <2>1. CASE Post
    BY <2>1 DEF Post
  <2>2. CASE BeginSending
    BY <2>2 DEF BeginSending
  <2>3. CASE WriteHeader
    BY <2>3 DEF WriteHeader, NextFile
  <2>4. CASE WriteMeta
    BY <2>4 DEF WriteMeta
  <2>5. CASE OpenFile
    BY <2>5 DEF OpenFile
  <2>6. CASE WriteSize
    BY <2>6 DEF WriteSize
  <2>7. CASE CopyByte
    BY <2>7 DEF CopyByte
  <2>8. CASE FileSent
    BY <2>8 DEF FileSent, NextFile
  <2>9. CASE SendFails
    BY <2>9 DEF SendFails
  <2>10. CASE FinishSending
    BY <2>10 DEF FinishSending
  <2>11. CASE CloseSender
    BY <2>11 DEF CloseSender
  <2>12. CASE SamplerStops
    BY <2>12 DEF SamplerStops
  <2> QED
    BY <1>1, <2>1, <2>2, <2>3, <2>4, <2>5, <2>6, <2>7, <2>8, <2>9, <2>10, <2>11, <2>12
    DEF Sending, Sender
<1>2. CASE UNCHANGED senderVars
  BY <1>2 DEF senderVars
<1> QED
  BY <1>1, <1>2, NextCases, ReceiverKeeps, EnvironmentKeeps DEF vars

\* The cell c goes onto the wire.
Writes(c) ==
    /\ sStatus' = sStatus /\ sStatus # "failed" /\ up["sender"]
    /\ SenderPlace' = After(SenderPlace)
    /\ IsCell(c) /\ Place(c) = SenderPlace
    /\ wire' = Append(wire, c)

LEMMA WriteHeaderEffect ==
    ASSUME TypeOK, SenderInStep, WriteHeader
    PROVE  Writes(Cell("header", 0, Len(files)))
<1>1. SenderPlace = HeaderPlace
  BY DEF WriteHeader, SenderPlace
<1>2. SenderPlace' = FilePlace(1)
  <2>1. sIdx = 1 /\ sIdx' = 1 /\ files' = files /\ Len(files) \in Nat
    BY RequestTyped DEF WriteHeader, SenderInStep
  <2>2. CASE 1 > Len(files)
    BY <2>1, <2>2 DEF WriteHeader, NextFile, SenderPlace, FilePlace, EndPlace
  <2>3. CASE ~(1 > Len(files))
    BY <2>1, <2>3 DEF WriteHeader, NextFile, SenderPlace, FilePlace
  <2> QED
    BY <2>2, <2>3
<1>3. After(HeaderPlace) = FilePlace(1)
  BY DEF After, HeaderPlace
<1>4. IsCell(Cell("header", 0, Len(files))) /\ Place(Cell("header", 0, Len(files))) = HeaderPlace
  BY DEF IsCell, IsHeader, Place, Cell, HeaderPlace
<1> QED
  BY <1>1, <1>2, <1>3, <1>4
  DEF Writes, WriteHeader, Write, WriteFailing, SenderInStep

LEMMA WriteMetaEffect ==
    ASSUME TypeOK, SenderInStep, WriteMeta
    PROVE  Writes(Cell("meta", sIdx, 0))
<1>1. sIdx \in 1 .. Len(files)
  BY RequestTyped DEF WriteMeta, SenderInStep
<1>2. SenderPlace = FilePlace(sIdx)
  BY DEF WriteMeta, SenderPlace
<1>3. SenderPlace' = <<sIdx, 1>>
  BY DEF WriteMeta, SenderPlace
<1>4. After(FilePlace(sIdx)) = <<sIdx, 1>>
  BY <1>1 DEF After, FilePlace
<1>5. IsCell(Cell("meta", sIdx, 0)) /\ Place(Cell("meta", sIdx, 0)) = FilePlace(sIdx)
  BY <1>1 DEF IsCell, IsMeta, Place, Cell, FilePlace
<1> QED
  BY <1>2, <1>3, <1>4, <1>5 DEF Writes, WriteMeta, Write, WriteFailing, SenderInStep

LEMMA WriteSizeEffect ==
    ASSUME TypeOK, SenderInStep, WriteSize
    PROVE  Writes(Cell("size", sIdx, SizeField(files[sIdx])))
<1> DEFINE c == Cell("size", sIdx, SizeField(files[sIdx]))
<1>1. sIdx \in 1 .. Len(files) /\ sOff = 0
  BY RequestTyped DEF WriteSize, SenderInStep
<1>2. SenderPlace = <<sIdx, 1>>
  BY DEF WriteSize, SenderPlace
<1>3. SenderPlace' = After(<<sIdx, 1>>)
  BY <1>1 DEF WriteSize, SenderPlace, After, FilePlace
<1>4. IsCell(c) /\ Place(c) = <<sIdx, 1>>
  BY <1>1 DEF IsCell, IsSize, Place, Cell
<1> QED
  BY <1>2, <1>3, <1>4 DEF Writes, WriteSize, Write, WriteFailing, SenderInStep

LEMMA CopyByteEffect ==
    ASSUME TypeOK, SenderInStep, CopyByte
    PROVE  Writes(Cell("data", sIdx, sOff + 1))
<1> DEFINE c == Cell("data", sIdx, sOff + 1)
<1>1. /\ sIdx \in 1 .. Len(files) /\ sOff \in Nat /\ sOff < files[sIdx].bytes
      /\ files[sIdx].bytes \in Nat
  BY RequestTyped DEF CopyByte, SenderInStep, TypeOK, FileInfo
<1>2. SenderPlace = <<sIdx, sOff + 2>>
  BY <1>1 DEF CopyByte, SenderPlace, After
<1>3. SenderPlace' = After(<<sIdx, sOff + 2>>)
  BY <1>1 DEF CopyByte, SenderPlace, After, FilePlace
<1>4. IsCell(c)
  BY <1>1 DEF IsCell, IsData
<1>5. Place(c) = <<sIdx, sOff + 2>>
  BY <1>1 DEF Place, Cell
<1> QED
  BY <1>2, <1>3, <1>4, <1>5 DEF Writes, CopyByte, Write, WriteFailing, SenderInStep

LEMMA SendFailsEffect ==
    ASSUME TypeOK, SenderInStep, SendFails
    PROVE  /\ NotAfter(SenderPlace, FilePlace(sIdx + 1))
           /\ DiskMayFail \/ ~NotAfter(EndPlace, SenderPlace)
<1>1. /\ sIdx \in 1 .. Len(files) + 1 /\ Len(files) \in Nat /\ sOff \in Nat
      /\ sIdx <= Len(files) => files[sIdx].bytes \in Nat
  BY RequestTyped DEF SenderInStep, TypeOK, FileInfo
<1>2. CASE spc = "header"
  <2>1. SenderPlace = HeaderPlace
    BY <1>2 DEF SenderPlace
  <2> QED
    BY <1>1, <2>1 DEF NotAfter, HeaderPlace, FilePlace, EndPlace
<1>3. CASE spc \in {"meta", "open", "size"}
  <2>1. \E n \in {0, 1} : SenderPlace = <<sIdx, n>>
    BY <1>3 DEF SenderPlace, FilePlace
  <2>2. sIdx <= Len(files)
    BY <1>3 DEF SenderInStep
  <2> QED
    BY <1>1, <2>1, <2>2 DEF NotAfter, FilePlace, EndPlace
<1>4. CASE spc = "data"
  <2>1. SenderPlace = IF sOff < files[sIdx].bytes THEN <<sIdx, sOff + 2>> ELSE FilePlace(sIdx + 1)
    <3>1. SenderPlace = After(<<sIdx, sOff + 1>>)
      BY <1>4 DEF SenderPlace
    <3>2. sOff <= files[sIdx].bytes /\ files[sIdx].bytes \in Nat /\ sIdx # 0
      BY <1>1, <1>4 DEF SenderInStep
    <3>3. sOff + 1 # 0 /\ (sOff + 1) + 1 = sOff + 2
          /\ (sOff + 1 <= files[sIdx].bytes <=> sOff < files[sIdx].bytes)
      BY <1>1, <3>2
    <3> QED
      BY <3>1, <3>2, <3>3 DEF After
  <2>2. sIdx <= Len(files)
    BY <1>4 DEF SenderInStep
  <2>3. DiskMayFail \/ sOff < files[sIdx].bytes
    BY <1>4 DEF SendFails
  <2> QED
    BY <1>1, <2>1, <2>2, <2>3 DEF NotAfter, FilePlace, EndPlace
<1> QED
  BY <1>2, <1>3, <1>4 DEF SendFails

\* A step of the sender writes the cell of its place and goes on to the place
\* after it, or writes nothing and stays where it is, or fails there.
LEMMA SendingEffect ==
    ASSUME TypeOK, SenderInStep, Sending
    PROVE  \/ \E c : Writes(c)
           \/ /\ UNCHANGED <<wire, SenderPlace>>
              /\ sStatus # "failed" /\ sStatus' # "failed"
           \/ UNCHANGED <<wire, sStatus, sIdx>> /\ sStatus = "failed"
           \/ SendFails
<1> USE DEF SenderInStep, streamVars
<1>1. CASE Post
  BY <1>1 DEF Post, SenderPlace, HeaderPlace
<1>2. CASE BeginSending
  BY <1>2 DEF BeginSending, SenderPlace, HeaderPlace
<1>3. CASE WriteHeader \/ WriteMeta \/ WriteSize \/ CopyByte
  BY <1>3, WriteHeaderEffect, WriteMetaEffect, WriteSizeEffect, CopyByteEffect
<1>4. CASE OpenFile
  BY <1>4 DEF OpenFile, SenderPlace
<1>5. CASE FileSent
  <2>1. sIdx \in 1 .. Len(files) /\ Len(files) \in Nat /\ files[sIdx].bytes \in Nat
    BY <1>5, RequestTyped DEF FileSent, FileInfo
  <2>2. SenderPlace = FilePlace(sIdx + 1)
    BY <1>5, <2>1 DEF FileSent, SenderPlace, After
  <2>3. SenderPlace' = FilePlace(sIdx + 1)
    BY <1>5, <2>1 DEF FileSent, SenderPlace, NextFile, FilePlace, EndPlace
  <2> QED
    BY <1>5, <2>2, <2>3 DEF FileSent
<1>6. CASE FinishSending
  BY <1>6 DEF FinishSending, SenderPlace, EndPlace, FilePlace
<1>7. CASE CloseSender
  BY <1>7 DEF CloseSender, Settled, SenderPlace, EndPlace, FilePlace
<1>8. CASE SamplerStops
  BY <1>8 DEF SamplerStops, SenderPlace, EndPlace, FilePlace, HeaderPlace, After
<1> QED
  BY <1>1, <1>2, <1>3, <1>4, <1>5, <1>6, <1>7, <1>8 DEF Sending, Sender

LEMMA AfterLater ==
    ASSUME NEW p \in Nat \X Nat
    PROVE  NotAfter(p, After(p))
BY DEF NotAfter, After, FilePlace

LEMMA SenderPlaceKept ==
    ASSUME UNCHANGED senderVars
    PROVE  UNCHANGED <<SenderPlace, Furthest>>
BY DEF senderVars, SenderPlace, Furthest, HeaderPlace, FilePlace, EndPlace, After

\* No step of the sender takes back what was written.
LEMMA FurthestGrows ==
    ASSUME TypeOK, SenderInStep, Sending
    PROVE  NotAfter(Furthest, Furthest')
<1>1. ASSUME NEW c, Writes(c) PROVE NotAfter(Furthest, Furthest')
  BY <1>1, SenderPlaceTyped, AfterLater DEF Writes, Furthest
<1>2. CASE UNCHANGED SenderPlace /\ sStatus # "failed" /\ sStatus' # "failed"
  BY <1>2, SenderPlaceTyped, NotAfterReflexive DEF Furthest
<1>3. CASE UNCHANGED <<sStatus, sIdx>> /\ sStatus = "failed"
  <2>1. Furthest' = Furthest
    BY <1>3 DEF Furthest, FilePlace
  <2> QED
    BY <2>1, SenderPlaceTyped, NotAfterReflexive
<1>4. CASE SendFails
  <2>1. spc \in {"header", "meta", "open", "size", "data"}
    BY <1>4 DEF SendFails
  <2>2. Furthest = SenderPlace
    BY <2>1 DEF Furthest, SenderInStep
  <2>3. Furthest' = FilePlace(sIdx + 1)
    BY <1>4 DEF SendFails, Furthest, FilePlace
  <2> QED
    BY <1>4, <2>2, <2>3, SendFailsEffect
<1> QED
  BY <1>1, <1>2, <1>3, <1>4, SendingEffect

(***************************************************************************)
(* The wire                                                                *)
(***************************************************************************)

LEMMA WireTyped ==
    ASSUME TypeOK, WireInOrder, NEW j \in 1 .. Len(wire)
    PROVE  /\ IsCell(wire[j]) /\ wire[j] \in Cells
           /\ Place(wire[j]) \in Nat \X Nat /\ After(Place(wire[j])) \in Nat \X Nat
<1>1. IsCell(wire[j])
  BY DEF WireInOrder
<1>2. wire[j] \in Cells
  BY <1>1, CellsTyped
<1> QED
  BY <1>1, <1>2, PlaceTyped, AfterTyped

LEMMA WriteKeepsOrder ==
    ASSUME TypeOK, TypeOK', SenderInStep, WireInOrder, [Next]_vars, Sending, NEW c, Writes(c)
    PROVE  WireInOrder'
<1>1. /\ wire \in Seq(Cells) /\ Len(wire) \in Nat
      /\ wire' = Append(wire, c) /\ files' = files
  BY FilesKept DEF Writes, TypeOK
<1>2. /\ Len(wire') = Len(wire) + 1
      /\ \A j \in 1 .. Len(wire) : wire'[j] = wire[j]
      /\ wire'[Len(wire) + 1] = c
  BY <1>1
<1>3. Furthest' = After(Place(c)) /\ Furthest' \in Nat \X Nat /\ SenderPlace' = After(Place(c))
  <2>1. Furthest' = After(Place(c)) /\ SenderPlace' = After(Place(c))
    BY DEF Writes, Furthest
  <2>2. Place(c) \in Nat \X Nat
    BY SenderPlaceTyped DEF Writes
  <2> QED
    BY <2>1, <2>2, AfterTyped
<1>4. ASSUME NEW j \in 1 .. Len(wire')
      PROVE  IsCell(wire'[j]) /\ NotAfter(After(Place(wire'[j])), Furthest')
  <2>1. CASE j = Len(wire) + 1
    BY <1>2, <1>3, <2>1, NotAfterReflexive DEF Writes
  <2>2. CASE j # Len(wire) + 1
    <3>1. j \in 1 .. Len(wire) /\ wire'[j] = wire[j]
      BY <1>1, <1>2, <2>2
    <3>2. IsCell(wire[j]) /\ NotAfter(After(Place(wire[j])), Furthest)
      BY <3>1 DEF WireInOrder
    <3>3. After(Place(wire[j])) \in Nat \X Nat /\ Furthest \in Nat \X Nat
      BY <3>1, WireTyped, SenderPlaceTyped
    <3>4. NotAfter(Furthest, Furthest')
      BY FurthestGrows
    <3> QED
      BY <1>3, <3>1, <3>2, <3>3, <3>4, NotAfterTransitive
  <2> QED
    BY <2>1, <2>2
<1>5. ASSUME NEW j \in 1 .. Len(wire') - 1
      PROVE  Place(wire'[j + 1]) = After(Place(wire'[j]))
  <2>1. CASE j = Len(wire)
    <3>1. SenderPlace = After(Place(wire[Len(wire)]))
      BY <1>1, <2>1 DEF WireInOrder, Writes
    <3> QED
      BY <1>1, <1>2, <2>1, <3>1 DEF Writes
  <2>2. CASE j # Len(wire)
    <3>1. j \in 1 .. Len(wire) - 1 /\ j + 1 \in 1 .. Len(wire) /\ j \in 1 .. Len(wire)
      BY <1>1, <1>2, <2>2
    <3> QED
      BY <1>2, <3>1 DEF WireInOrder
  <2> QED
    BY <2>1, <2>2
<1>6. SenderPlace' = After(Place(wire'[Len(wire')]))
  BY <1>2, <1>3
<1> QED
  BY <1>1, <1>4, <1>5, <1>6, AfterKept, CellsKept DEF WireInOrder

\* The wire loses its first m cells and keeps the n that follow, and only the
\* loss of the connection at the sender cuts off its end.
Leaves(m, n) ==
    /\ m \in Nat /\ n \in Nat /\ m + n <= Len(wire)
    /\ Len(wire') = n /\ \A j \in 1 .. n : wire'[j] = wire[j + m]
    /\ wire' # <<>> /\ up'["sender"] /\ sStatus' # "failed" =>
            m + n = Len(wire) /\ up["sender"] /\ sStatus # "failed" /\ UNCHANGED SenderPlace

\* The order survives what takes cells off the wire at either end.
LEMMA PartOfWireInOrder ==
    ASSUME TypeOK, TypeOK', WireInOrder, files' = files,
           NotAfter(Furthest, Furthest'), Furthest' \in Nat \X Nat,
           NEW m, NEW n, Leaves(m, n)
    PROVE  WireInOrder'
<1> USE DEF Leaves
<1>1. Len(wire) \in Nat /\ wire \in Seq(Cells)
  BY DEF TypeOK
<1>2. ASSUME NEW j \in 1 .. Len(wire')
      PROVE  IsCell(wire'[j]) /\ NotAfter(After(Place(wire'[j])), Furthest')
  <2>1. j + m \in 1 .. Len(wire) /\ wire'[j] = wire[j + m]
    BY <1>1
  <2>2. IsCell(wire[j + m]) /\ NotAfter(After(Place(wire[j + m])), Furthest)
    BY <2>1 DEF WireInOrder
  <2>3. After(Place(wire[j + m])) \in Nat \X Nat /\ Furthest \in Nat \X Nat
    BY <2>1, WireTyped, SenderPlaceTyped
  <2> QED
    BY <2>1, <2>2, <2>3, NotAfterTransitive
<1>3. ASSUME NEW j \in 1 .. Len(wire') - 1
      PROVE  Place(wire'[j + 1]) = After(Place(wire'[j]))
  <2>1. /\ j + m \in 1 .. Len(wire) - 1 /\ (j + 1) + m = (j + m) + 1
        /\ wire'[j] = wire[j + m] /\ wire'[j + 1] = wire[(j + 1) + m]
    BY <1>1
  <2> QED
    BY <2>1 DEF WireInOrder
<1>4. wire' # <<>> /\ up'["sender"] /\ sStatus' # "failed" =>
        SenderPlace' = After(Place(wire'[Len(wire')]))
  <2> SUFFICES ASSUME wire' # <<>>, up'["sender"], sStatus' # "failed"
               PROVE  SenderPlace' = After(Place(wire'[Len(wire')]))
    OBVIOUS
  <2>1. n > 0
    BY DEF TypeOK
  <2>2. m + n = Len(wire) /\ n \in 1 .. n /\ n + m = m + n
    BY <2>1
  <2>3. wire'[Len(wire')] = wire[Len(wire)]
    BY <2>2
  <2>4. wire # <<>> /\ SenderPlace = After(Place(wire[Len(wire)]))
    BY <1>1, <2>1, <2>2 DEF WireInOrder
  <2> QED
    BY <2>3, <2>4
<1> QED
  BY <1>2, <1>3, <1>4, AfterKept, CellsKept DEF WireInOrder

LEMMA WireInOrderKept ==
    ASSUME TypeOK, TypeOK', SenderInStep, WireInOrder, [Next]_vars
    PROVE  WireInOrder'
<1> USE FilesKept
<1>1. /\ wire \in Seq(Cells) /\ wire' \in Seq(Cells)
      /\ Len(wire) \in Nat /\ Len(wire') \in Nat
      /\ up \in [Ends -> BOOLEAN]
  BY DEF TypeOK
<1>2. Furthest \in Nat \X Nat /\ Furthest' \in Nat \X Nat
  <2>1. Furthest \in Nat \X Nat
    BY SenderPlaceTyped
  <2>2. Furthest' \in Nat \X Nat
    BY FurthestTypedNext
  <2> QED
    BY <2>1, <2>2
<1>3. CASE Sending
  <2>1. CASE \E c : Writes(c)
    BY <1>3, <2>1, WriteKeepsOrder
  <2>2. CASE UNCHANGED wire /\ (sStatus' # "failed" => sStatus # "failed" /\ UNCHANGED SenderPlace)
    <3>1. NotAfter(Furthest, Furthest') /\ up' = up
      BY <1>3, FurthestGrows, SendingKeeps
    <3>2. Leaves(0, Len(wire))
      BY <1>1, <2>2, <3>1 DEF Leaves
    <3> QED
      BY <1>2, <3>1, <3>2, PartOfWireInOrder
  <2>3. ASSUME SendFails PROVE UNCHANGED wire /\ sStatus' = "failed"
    BY <2>3 DEF SendFails, streamVars
  <2> QED
    BY <1>3, <2>1, <2>2, <2>3, SendingEffect
<1>4. CASE UNCHANGED senderVars
  <2>1. UNCHANGED <<Furthest, SenderPlace, sStatus>> /\ NotAfter(Furthest, Furthest')
    BY <1>2, <1>4, SenderPlaceKept, NotAfterReflexive DEF senderVars
  <2>2. ASSUME NEW m, NEW n, Leaves(m, n) PROVE WireInOrder'
    BY <1>2, <2>1, <2>2, PartOfWireInOrder
  <2>3. CASE UNCHANGED <<wire, up>>
    <3>1. Leaves(0, Len(wire))
      BY <1>1, <2>1, <2>3 DEF Leaves
    <3> QED
      BY <2>2, <3>1
  <2>4. CASE wire' = <<>>
    <3>1. Leaves(0, 0)
      BY <1>1, <2>4 DEF Leaves
    <3> QED
      BY <2>2, <3>1
  <2>5. CASE wire # <<>> /\ wire' = Tail(wire) /\ UNCHANGED up
    <3>1. Leaves(1, Len(wire) - 1)
      BY <1>1, <2>1, <2>5 DEF Leaves
    <3> QED
      BY <2>2, <3>1
  <2>6. ASSUME NEW e \in Ends, up' = [up EXCEPT ![e] = FALSE], UNCHANGED wire
        PROVE  WireInOrder'
    <3>1. up'["sender"] => up["sender"]
      BY <1>1, <2>6 DEF Ends
    <3>2. Leaves(0, Len(wire))
      BY <1>1, <2>1, <2>6, <3>1 DEF Leaves
    <3> QED
      BY <2>2, <3>2
  <2>7. ASSUME up' = [up EXCEPT !["sender"] = FALSE],
               NEW k \in 0 .. Len(wire), wire' = SubSeq(wire, 1, k)
        PROVE  WireInOrder'
    <3>1. ~up'["sender"]
      BY <1>1, <2>7 DEF Ends
    <3>2. Leaves(0, k)
      BY <1>1, <2>7, <3>1 DEF Leaves
    <3> QED
      BY <2>2, <3>2
  <2>8. CASE Receiver
    BY <2>3, <2>4, <2>5, <2>8, ReceiverKeeps
  <2>9. CASE Environment
    BY <2>3, <2>6, <2>7, <2>9, EnvironmentKeeps
  <2>10. CASE UNCHANGED vars
    BY <2>3, <2>10 DEF vars, streamVars
  <2>11. CASE Sending
    BY <1>3, <2>11
  <2> QED
    BY <2>8, <2>9, <2>10, <2>11, NextCases
<1> QED
  BY <1>3, <1>4, NextCases, ReceiverKeeps, EnvironmentKeeps DEF vars

(***************************************************************************)
(* Types                                                                   *)
(***************************************************************************)

LEMMA SendingTyped ==
    ASSUME TypeOK, SenderInStep, Sending
    PROVE  TypeOK'
<1> USE RequestTyped DEF SenderPoints, Statuses
<1>1. \A c \in Cells : wire' = Append(wire, c) => wire' \in Seq(Cells)
  BY DEF TypeOK
<1>2. CASE Post
  BY <1>2 DEF TypeOK, Post, streamVars, receiverVars
<1>3. CASE BeginSending
  BY <1>3 DEF TypeOK, BeginSending, streamVars, receiverVars
<1>4. CASE WriteHeader
  <2>1. Cell("header", 0, Len(files)) \in Cells
    BY DEF Cell, Cells
  <2> QED
    BY <1>1, <1>4, <2>1 DEF TypeOK, WriteHeader, Write, NextFile, receiverVars
<1>5. CASE WriteMeta
  <2>1. Cell("meta", sIdx, 0) \in Cells
    BY DEF TypeOK, Cell, Cells
  <2> QED
    BY <1>1, <1>5, <2>1 DEF TypeOK, WriteMeta, Write, receiverVars
<1>6. CASE OpenFile
  BY <1>6 DEF TypeOK, OpenFile, streamVars, receiverVars
<1>7. CASE WriteSize
  <2>1. sIdx \in 1 .. Len(files)
    BY <1>7 DEF WriteSize, SenderInStep
  <2>2. Cell("size", sIdx, SizeField(files[sIdx])) \in Cells
    BY <2>1 DEF Cell, Cells, SizeField, FileInfo
  <2> QED
    BY <1>1, <1>7, <2>2 DEF TypeOK, WriteSize, Write, receiverVars
<1>8. CASE CopyByte
  <2>1. Cell("data", sIdx, sOff + 1) \in Cells
    BY DEF TypeOK, Cell, Cells
  <2> QED
    BY <1>1, <1>8, <2>1 DEF TypeOK, CopyByte, Write, receiverVars
<1>9. CASE FileSent
  BY <1>9 DEF TypeOK, FileSent, NextFile, streamVars, receiverVars
<1>10. CASE SendFails
  BY <1>10 DEF TypeOK, SendFails, streamVars, receiverVars
<1>11. CASE FinishSending
  BY <1>11 DEF TypeOK, FinishSending, streamVars, receiverVars
<1>12. CASE CloseSender
  BY <1>12 DEF TypeOK, CloseSender, Ends, receiverVars
<1>13. CASE SamplerStops
  BY <1>13 DEF TypeOK, SamplerStops, streamVars, receiverVars
<1> QED
  BY <1>2, <1>3, <1>4, <1>5, <1>6, <1>7, <1>8, <1>9, <1>10, <1>11, <1>12, <1>13
  DEF Sending, Sender

\* The receiver's end of the wire: the cell it takes is one of the request.
LEMMA HeadTyped ==
    ASSUME TypeOK, WireInOrder, wire # <<>>
    PROVE  /\ 1 \in 1 .. Len(wire) /\ IsCell(Head1) /\ Head1 \in Cells
           /\ Head1.kind = "meta" => Head1.file \in 1 .. Len(files)
           /\ Tail(wire) \in Seq(Cells)
<1>1. wire \in Seq(Cells) /\ 1 \in 1 .. Len(wire)
  BY DEF TypeOK
<1> QED
  BY <1>1, WireTyped, CellsTyped DEF Head1

LEMMA ReceiverTyped ==
    ASSUME TypeOK, WireInOrder, FileOpened, Receiver
    PROVE  TypeOK'
<1> USE DEF ReceiverPoints, Statuses
<1>1. CASE AcceptStream
  <2>1. rpc' \in ReceiverPoints /\ wire' \in Seq(Cells) /\ stopped' \in {"no", "sent", "arrived"}
    <3>1. CASE negotiated
      BY <1>1, <3>1 DEF TypeOK, AcceptStream, streamVars
    <3>2. CASE ~negotiated
      BY <1>1, <3>2 DEF TypeOK, AcceptStream
    <3> QED
      BY <3>1, <3>2
  <2>2. UNCHANGED <<fin, negotiated, up>>
    BY <1>1 DEF AcceptStream, streamVars
  <2> QED
    BY <1>1, <2>1, <2>2 DEF TypeOK, AcceptStream, senderVars
<1>2. CASE ReadHeader
  <2>1. Head1.n \in Nat /\ Tail(wire) \in Seq(Cells)
    BY <1>2, HeadTyped DEF ReadHeader, CanRead, Cells
  <2> QED
    BY <1>2, <2>1 DEF TypeOK, ReadHeader, Consume, senderVars
<1>3. CASE BeginReceiving
  BY <1>3 DEF TypeOK, BeginReceiving, senderVars, streamVars
<1>4. CASE MakeSaveDir
  BY <1>4 DEF TypeOK, MakeSaveDir, NextReceive, senderVars, streamVars
<1>5. CASE ReadMeta
  <2>1. files[Head1.file].name \in Names /\ Tail(wire) \in Seq(Cells)
    BY <1>5, HeadTyped, RequestTyped DEF ReadMeta, CanRead, FileInfo
  <2> QED
    BY <1>5, <2>1 DEF TypeOK, ReadMeta, Consume, senderVars
<1>6. CASE ReadWrongMeta
  <2>1. wire' \in Seq(Cells)
    BY <1>6, HeadTyped DEF ReadWrongMeta, CanRead, Consume
  <2>2. rpc' \in ReceiverPoints /\ rName' \in Names \cup {NoName}
    BY <1>6 DEF TypeOK, ReadWrongMeta
  <2>3. /\ files' \in Requests
        /\ spc' \in SenderPoints /\ sIdx' \in Nat \ {0} /\ sOff' \in Nat
        /\ sStatus' \in Statuses /\ SentFiles' \in Nat
        /\ sampler' \in {"none", "running", "stopping", "stopped"}
    BY <1>6 DEF TypeOK, ReadWrongMeta, senderVars
  <2>4. /\ fin' \in BOOLEAN /\ stopped' \in {"no", "sent", "arrived"}
        /\ negotiated' \in BOOLEAN /\ up' \in [Ends -> BOOLEAN]
    BY <1>6 DEF TypeOK, ReadWrongMeta, Consume
  <2>5. /\ rTotal' \in Nat /\ rSize' \in Nat /\ rGot' \in Nat /\ aligned' \in BOOLEAN
        /\ rStatus' \in Statuses /\ ReceivedFiles' \in Nat
        /\ saved' \in [Names -> {NoFile} \cup Seq(Cells)]
    BY <1>6 DEF TypeOK, ReadWrongMeta
  <2> QED
    BY <2>1, <2>2, <2>3, <2>4, <2>5 DEF TypeOK
<1>7. CASE ReadSize
  <2>1. Head1.n \in Nat /\ Tail(wire) \in Seq(Cells)
    BY <1>7, HeadTyped DEF ReadSize, CanRead, Cells
  <2> QED
    BY <1>7, <2>1 DEF TypeOK, ReadSize, Consume, senderVars
<1>8. CASE ReadWrongSize
  <2>1. wire' \in Seq(Cells)
    BY <1>8, HeadTyped DEF ReadWrongSize, CanRead, Consume
  <2>2. rpc' \in ReceiverPoints /\ rSize' \in Nat
    BY <1>8 DEF TypeOK, ReadWrongSize
  <2>3. /\ files' \in Requests
        /\ spc' \in SenderPoints /\ sIdx' \in Nat \ {0} /\ sOff' \in Nat
        /\ sStatus' \in Statuses /\ SentFiles' \in Nat
        /\ sampler' \in {"none", "running", "stopping", "stopped"}
    BY <1>8 DEF TypeOK, ReadWrongSize, senderVars
  <2>4. /\ fin' \in BOOLEAN /\ stopped' \in {"no", "sent", "arrived"}
        /\ negotiated' \in BOOLEAN /\ up' \in [Ends -> BOOLEAN]
    BY <1>8 DEF TypeOK, ReadWrongSize, Consume
  <2>5. /\ rTotal' \in Nat /\ rName' \in Names \cup {NoName} /\ rGot' \in Nat /\ aligned' \in BOOLEAN
        /\ rStatus' \in Statuses /\ ReceivedFiles' \in Nat
        /\ saved' \in [Names -> {NoFile} \cup Seq(Cells)]
    BY <1>8 DEF TypeOK, ReadWrongSize
  <2> QED
    BY <2>1, <2>2, <2>3, <2>4, <2>5 DEF TypeOK
<1>9. CASE CreateFile
  <2>1. saved' \in [Names -> {NoFile} \cup Seq(Cells)]
    <3> DEFINE S == {NoFile} \cup Seq(Cells)
    <3>1. <<>> \in S /\ saved \in [Names -> S] /\ saved' = [saved EXCEPT ![rName] = <<>>]
      BY <1>9 DEF TypeOK, CreateFile
    <3> HIDE DEF S
    <3>2. saved' \in [Names -> S]
      BY <3>1
    <3> QED
      BY <3>2 DEF S
  <2> QED
    BY <1>9, <2>1 DEF TypeOK, CreateFile, senderVars, streamVars
<1>10. CASE CopyNByte
  <2>1. Head1 \in Cells /\ Tail(wire) \in Seq(Cells)
    BY <1>10, HeadTyped DEF CopyNByte, CanRead
  <2>2. Append(saved[rName], Head1) \in Seq(Cells)
    BY <1>10, <2>1 DEF CopyNByte, FileOpened
  <2>3. saved' \in [Names -> {NoFile} \cup Seq(Cells)]
    BY <1>10, <2>2 DEF TypeOK, CopyNByte
  <2> QED
    BY <1>10, <2>1, <2>3 DEF TypeOK, CopyNByte, Consume, senderVars
<1>11. CASE FileReceived
  BY <1>11 DEF TypeOK, FileReceived, NextReceive, senderVars, streamVars
<1>12. CASE ReceiveFails
  BY <1>12 DEF TypeOK, ReceiveFails, senderVars, streamVars
<1>13. CASE FinishReceiving
  BY <1>13 DEF TypeOK, FinishReceiving, senderVars, streamVars
<1>14. CASE CloseReceiver
  BY <1>14 DEF TypeOK, CloseReceiver, senderVars
<1> QED
  BY <1>1, <1>2, <1>3, <1>4, <1>5, <1>6, <1>7, <1>8, <1>9, <1>10, <1>11, <1>12, <1>13, <1>14
  DEF Receiver

LEMMA EnvironmentTyped ==
    ASSUME TypeOK, Environment
    PROVE  TypeOK'
<1>1. CASE StopArrives
  BY <1>1 DEF TypeOK, StopArrives, senderVars, receiverVars
<1>2. ASSUME NEW e \in Ends, LoseConn(e) PROVE TypeOK'
  <2>1. \A k \in 0 .. Len(wire) : SubSeq(wire, 1, k) \in Seq(Cells)
    BY DEF TypeOK
  <2> QED
    BY <1>2, <2>1 DEF TypeOK, LoseConn, senderVars, receiverVars
<1> QED
  BY <1>1, <1>2 DEF Environment

LEMMA TypeKept ==
    ASSUME TypeOK, SenderInStep, WireInOrder, FileOpened, [Next]_vars
    PROVE  TypeOK'
<1>1. CASE UNCHANGED vars
  BY <1>1 DEF TypeOK, vars, senderVars, streamVars, receiverVars
<1> QED
  BY <1>1, NextCases, SendingTyped, ReceiverTyped, EnvironmentTyped

(***************************************************************************)
(* The receiver                                                            *)
(***************************************************************************)

\* The place of a cell of the request tells which one it is.
LEMMA CellAt ==
    ASSUME TypeOK, NEW c, IsCell(c), NEW i \in Nat, NEW k \in Nat, Place(c) = <<i, k>>
    PROVE  /\ i = 0 => IsHeader(c)
           /\ i # 0 => i \in 1 .. Len(files)
           /\ i # 0 /\ k = 0 => c = Cell("meta", i, 0)
           /\ i # 0 /\ k = 1 => c = Cell("size", i, SizeField(files[i]))
           /\ i # 0 /\ k > 1 => c = Cell("data", i, k - 1) /\ k - 1 <= files[i].bytes
<1> USE RequestTyped DEF Place, Cell
<1>1. CASE IsHeader(c)
  BY <1>1 DEF IsHeader
<1>2. CASE IsMeta(c)
  BY <1>2 DEF IsMeta
<1>3. CASE IsSize(c)
  BY <1>3 DEF IsSize
<1>4. CASE IsData(c)
  BY <1>4 DEF IsData, FileInfo
<1> QED
  BY <1>1, <1>2, <1>3, <1>4 DEF IsCell

\* What is left of the stream when the receiver has read the cell it waits for
\* begins with the one it waits for next.
Reads == wire # <<>> /\ wire' = Tail(wire) /\ ReceiverPlace' = After(ReceiverPlace)

LEMMA HeadInStep ==
    ASSUME TypeOK, WireInOrder, ReceiverInStep, Receiving, aligned, wire # <<>>
    PROVE  IsCell(Head1) /\ Place(Head1) = ReceiverPlace
BY HeadTyped DEF ReceiverInStep, Head1

LEMMA ReadHeaderEffect ==
    ASSUME TypeOK, WireInOrder, ReceiverCounts, ReceiverInStep, ReadHeader
    PROVE  IsHeader(Head1) /\ Reads
<1>1. /\ rpc = "header" /\ Receiving /\ aligned /\ wire # <<>> /\ wire' = Tail(wire)
      /\ rpc' = "begin"
  BY DEF ReadHeader, CanRead, Consume, ReceiverCounts, Receiving
<1>2. ReceiverPlace = HeaderPlace /\ ReceiverPlace' = FilePlace(1)
  BY <1>1 DEF ReceiverPlace, FilePlace
<1>3. IsHeader(Head1)
  BY <1>1, <1>2, HeadInStep, CellAt DEF HeaderPlace
<1> QED
  BY <1>1, <1>2, <1>3 DEF Reads, After, HeaderPlace

LEMMA MetaPlace ==
    ASSUME TypeOK, ReceiverCounts, rpc = "meta"
    PROVE  /\ ReceivedFiles + 1 \in 1 .. Len(files)
           /\ \/ ReceiverPlace = FilePlace(ReceivedFiles + 1)
              \/ /\ ReceivedFiles > 0 /\ rGot < files[ReceivedFiles].bytes
                 /\ ReceiverPlace = <<ReceivedFiles, rGot + 2>>
<1>1. /\ ReceivedFiles \in Nat /\ rGot \in Nat /\ ReceivedFiles + 1 \in 1 .. Len(files)
      /\ ReceivedFiles > 0 => files[ReceivedFiles].bytes \in Nat
  BY RequestTyped DEF TypeOK, ReceiverCounts, FileInfo
<1>2. CASE ReceivedFiles = 0
  BY <1>1, <1>2 DEF ReceiverPlace
<1>3. CASE ReceivedFiles # 0
  <2>1. ReceiverPlace = After(<<ReceivedFiles, rGot + 1>>)
    BY <1>3 DEF ReceiverPlace
  <2> QED
    BY <1>1, <1>3, <2>1 DEF After
<1> QED
  BY <1>1, <1>2, <1>3

LEMMA ReadMetaEffect ==
    ASSUME TypeOK, WireInOrder, ReceiverCounts, ReceiverInStep, ReadMeta
    PROVE  Head1 = Cell("meta", ReceivedFiles + 1, 0) /\ Reads
<1>1. /\ rpc = "meta" /\ Receiving /\ aligned /\ wire # <<>> /\ wire' = Tail(wire)
      /\ rpc' = "size" /\ UNCHANGED <<files, ReceivedFiles>> /\ Head1.kind = "meta"
      /\ ReceivedFiles \in Nat /\ rGot \in Nat
  BY DEF ReadMeta, CanRead, Consume, Receiving, senderVars, TypeOK
<1>2. ReceiverPlace' = <<ReceivedFiles + 1, 1>>
  BY <1>1 DEF ReceiverPlace
<1>3. IsCell(Head1) /\ Place(Head1) = ReceiverPlace
  BY <1>1, HeadInStep
<1>4. ReceiverPlace = FilePlace(ReceivedFiles + 1)
  <2> SUFFICES ASSUME ReceiverPlace = <<ReceivedFiles, rGot + 2>>, ReceivedFiles > 0
               PROVE  FALSE
    BY <1>1, MetaPlace
  <2>1. Head1 = Cell("data", ReceivedFiles, (rGot + 2) - 1)
    BY <1>1, <1>3, CellAt, rGot + 2 \in Nat, rGot + 2 > 1
  <2> QED
    BY <1>1, <2>1 DEF Cell
<1>5. Head1 = Cell("meta", ReceivedFiles + 1, 0)
  BY <1>1, <1>3, <1>4, CellAt, ReceivedFiles + 1 \in Nat, ReceivedFiles + 1 # 0 DEF FilePlace
<1>6. After(FilePlace(ReceivedFiles + 1)) = <<ReceivedFiles + 1, 1>>
  BY <1>1 DEF After, FilePlace
<1> QED
  BY <1>1, <1>2, <1>4, <1>5, <1>6 DEF Reads

LEMMA SizePlace ==
    ASSUME TypeOK, WireInOrder, ReceiverCounts, ReceiverInStep,
           rpc = "size", aligned, wire # <<>>
    PROVE  Head1 = Cell("size", ReceivedFiles + 1, SizeField(files[ReceivedFiles + 1]))
<1>1. Receiving /\ ReceivedFiles + 1 \in Nat \ {0}
  BY DEF Receiving, TypeOK
<1>2. ReceiverPlace = <<ReceivedFiles + 1, 1>>
  BY DEF ReceiverPlace
<1> QED
  BY <1>1, <1>2, HeadInStep, CellAt

LEMMA ReadSizeEffect ==
    ASSUME TypeOK, WireInOrder, ReceiverCounts, ReceiverInStep, ReadSize
    PROVE  Head1.n = files[ReceivedFiles + 1].size /\ Reads
<1>1. /\ rpc = "size" /\ aligned /\ wire # <<>> /\ wire' = Tail(wire)
      /\ rpc' = "create" /\ UNCHANGED <<files, ReceivedFiles>>
  BY DEF ReadSize, CanRead, Consume, senderVars
<1>2. ReceiverPlace = <<ReceivedFiles + 1, 1>>
  BY <1>1 DEF ReceiverPlace
<1>3. ReceiverPlace' = After(<<ReceivedFiles + 1, 1>>)
  BY <1>1 DEF ReceiverPlace, After, FilePlace
<1> QED
  BY <1>1, <1>2, <1>3, SizePlace DEF Reads, Cell, SizeField

LEMMA DataPlace ==
    ASSUME TypeOK, ReceiverCounts, rpc = "data"
    PROVE  /\ ReceivedFiles + 1 \in 1 .. Len(files) /\ rGot \in Nat
           /\ files[ReceivedFiles + 1].bytes \in Nat
           /\ ReceiverPlace = IF rGot < files[ReceivedFiles + 1].bytes
                              THEN <<ReceivedFiles + 1, rGot + 2>>
                              ELSE FilePlace(ReceivedFiles + 2)
<1>1. /\ ReceivedFiles \in Nat /\ rGot \in Nat /\ ReceivedFiles + 1 \in 1 .. Len(files)
      /\ files[ReceivedFiles + 1].bytes \in Nat
  BY RequestTyped DEF TypeOK, ReceiverCounts, FileInfo
<1>2. ReceiverPlace = After(<<ReceivedFiles + 1, rGot + 1>>)
  BY DEF ReceiverPlace
<1> QED
  BY <1>1, <1>2 DEF After

LEMMA CopyNByteEffect ==
    ASSUME TypeOK, WireInOrder, ReceiverCounts, ReceiverInStep, CopyNByte, aligned'
    PROVE  /\ rGot < files[ReceivedFiles + 1].bytes
           /\ Head1 = Cell("data", ReceivedFiles + 1, rGot + 1) /\ Reads
<1>1. /\ rpc = "data" /\ Receiving /\ aligned /\ wire # <<>> /\ wire' = Tail(wire)
      /\ UNCHANGED <<rpc, files, ReceivedFiles>> /\ Head1.kind = "data" /\ rGot' = rGot + 1
      /\ ReceivedFiles \in Nat /\ rGot \in Nat
  BY DEF CopyNByte, CanRead, Consume, Receiving, senderVars, TypeOK
<1>2. IsCell(Head1) /\ Place(Head1) = ReceiverPlace
  BY <1>1, HeadInStep
<1>3. rGot < files[ReceivedFiles + 1].bytes
  <2> SUFFICES ASSUME ReceiverPlace = FilePlace(ReceivedFiles + 2)
               PROVE  FALSE
    BY <1>1, DataPlace
  <2>1. Head1 = Cell("meta", ReceivedFiles + 2, 0)
    BY <1>1, <1>2, CellAt, ReceivedFiles + 2 \in Nat, ReceivedFiles + 2 # 0 DEF FilePlace
  <2> QED
    BY <1>1, <2>1 DEF Cell
<1>4. ReceiverPlace = <<ReceivedFiles + 1, rGot + 2>>
  BY <1>1, <1>3, DataPlace
<1>5. Head1 = Cell("data", ReceivedFiles + 1, rGot + 1)
  <2>1. ReceivedFiles + 1 \in Nat \ {0} /\ rGot + 2 \in Nat /\ rGot + 2 > 1
    BY <1>1
  <2>2. (rGot + 2) - 1 = rGot + 1
    BY <1>1
  <2> QED
    BY <1>2, <1>4, <2>1, <2>2, CellAt
<1>6. ReceiverPlace' = After(<<ReceivedFiles + 1, rGot + 2>>)
  <2>1. ReceiverPlace' = After(<<ReceivedFiles + 1, rGot' + 1>>)
    BY <1>1 DEF ReceiverPlace, After, FilePlace
  <2>2. rGot' + 1 = rGot + 2
    BY <1>1
  <2> QED
    BY <2>1, <2>2
<1> QED
  BY <1>1, <1>3, <1>4, <1>5, <1>6 DEF Reads

\* In step, the receiver reads the cell of its place and goes on to the place
\* after it, or reads nothing and stays where it is.
LEMMA ReceiverEffect ==
    ASSUME TypeOK, InOrder, Receiver, Receiving', aligned'
    PROVE  Receiving /\ aligned /\ (Reads \/ UNCHANGED <<wire, ReceiverPlace>>)
<1> USE DEF InOrder, ReceiverCounts, Receiving, streamVars, senderVars
<1>1. CASE AcceptStream
  BY <1>1 DEF AcceptStream, ReceiverPlace, HeaderPlace
<1>2. CASE ReadHeader
  BY <1>2, ReadHeaderEffect DEF ReadHeader
<1>3. CASE BeginReceiving
  BY <1>3 DEF BeginReceiving, ReceiverPlace, FilePlace
<1>4. CASE MakeSaveDir
  BY <1>4 DEF MakeSaveDir, NextReceive, ReceiverPlace, FilePlace
<1>5. CASE ReadMeta
  BY <1>5, ReadMetaEffect DEF ReadMeta
<1>6. CASE ReadWrongMeta \/ ReadWrongSize
  BY <1>6 DEF ReadWrongMeta, ReadWrongSize
<1>7. CASE ReadSize
  BY <1>7, ReadSizeEffect DEF ReadSize
<1>8. CASE CreateFile
  <2>1. ReceiverPlace = After(<<ReceivedFiles + 1, 0 + 1>>)
    BY <1>8 DEF CreateFile, ReceiverPlace
  <2>2. ReceiverPlace' = After(<<ReceivedFiles + 1, 0 + 1>>)
    BY <1>8 DEF CreateFile, ReceiverPlace, After, FilePlace
  <2> QED
    BY <1>8, <2>1, <2>2 DEF CreateFile
<1>9. CASE CopyNByte
  BY <1>9, CopyNByteEffect DEF CopyNByte
<1>10. CASE FileReceived
  <2>1. ReceiverPlace = After(<<ReceivedFiles + 1, rGot + 1>>)
    BY <1>10 DEF FileReceived, ReceiverPlace
  <2>2. ReceivedFiles + 1 # 0
    BY DEF TypeOK
  <2>3. ReceiverPlace' = After(<<ReceivedFiles + 1, rGot + 1>>)
    BY <1>10, <2>2 DEF FileReceived, NextReceive, ReceiverPlace, After, FilePlace
  <2> QED
    BY <1>10, <2>1, <2>3 DEF FileReceived
<1>11. CASE ReceiveFails \/ FinishReceiving \/ CloseReceiver
  BY <1>11 DEF ReceiveFails, FinishReceiving, CloseReceiver
<1> QED
  BY <1>1, <1>2, <1>3, <1>4, <1>5, <1>6, <1>7, <1>8, <1>9, <1>10, <1>11 DEF Receiver

LEMMA ReceiverPlaceTyped ==
    ASSUME TypeOK
    PROVE  ReceiverPlace \in Nat \X Nat
<1>1. ReceivedFiles \in Nat /\ rGot \in Nat
  BY DEF TypeOK
<1>2. /\ <<ReceivedFiles + 1, 1>> \in Nat \X Nat
      /\ <<ReceivedFiles + 1, rGot + 1>> \in Nat \X Nat
      /\ <<ReceivedFiles, rGot + 1>> \in Nat \X Nat
  BY <1>1
<1> QED
  BY <1>2, AfterTyped DEF ReceiverPlace, HeaderPlace, FilePlace

LEMMA ReceiverPlaceKept ==
    ASSUME UNCHANGED <<files, receiverVars>>
    PROVE  UNCHANGED ReceiverPlace
BY DEF receiverVars, ReceiverPlace, HeaderPlace, FilePlace, After

LEMMA ReceiverInStepKept ==
    ASSUME TypeOK, TypeOK', InOrder, [Next]_vars
    PROVE  ReceiverInStep'
<1> SUFFICES ASSUME Receiving', aligned'
             PROVE  /\ wire' # <<>> => Place(wire'[1]) = ReceiverPlace'
                    /\ wire' = <<>> /\ up'["sender"] /\ sStatus' # "failed" =>
                            SenderPlace' = ReceiverPlace'
                    /\ NotAfter(ReceiverPlace', Furthest')
  BY DEF ReceiverInStep
<1>1. wire \in Seq(Cells) /\ up \in [Ends -> BOOLEAN]
  BY DEF TypeOK
<1>2. Furthest \in Nat \X Nat /\ Furthest' \in Nat \X Nat /\ ReceiverPlace \in Nat \X Nat
  BY SenderPlaceTyped, FurthestTypedNext, ReceiverPlaceTyped
<1>3. ASSUME Receiving, aligned
      PROVE  /\ wire # <<>> => Place(wire[1]) = ReceiverPlace
             /\ wire = <<>> /\ up["sender"] /\ sStatus # "failed" => SenderPlace = ReceiverPlace
             /\ NotAfter(ReceiverPlace, Furthest)
  BY <1>3 DEF InOrder, ReceiverInStep
<1>4. ASSUME UNCHANGED receiverVars
      PROVE  Receiving /\ aligned /\ UNCHANGED ReceiverPlace
  BY <1>4, FilesKept, ReceiverPlaceKept DEF receiverVars, Receiving
<1>5. ASSUME UNCHANGED senderVars
      PROVE  UNCHANGED <<SenderPlace, Furthest, sStatus>>
  BY <1>5, SenderPlaceKept DEF senderVars
<1>6. CASE Sending
  <2>1. UNCHANGED <<up, receiverVars>> /\ SenderInStep
    BY <1>6, SendingKeeps DEF InOrder
  <2>2. NotAfter(ReceiverPlace, Furthest')
    BY <1>2, <1>3, <1>4, <1>6, <2>1, FurthestGrows, NotAfterTransitive
  <2>3. ASSUME NEW c, Writes(c) PROVE wire' # <<>> /\ Place(wire'[1]) = ReceiverPlace
    <3>1. wire' = Append(wire, c) /\ Place(c) = SenderPlace /\ up["sender"] /\ sStatus # "failed"
      BY <2>3 DEF Writes
    <3>2. CASE wire = <<>>
      BY <1>3, <1>4, <2>1, <3>1, <3>2
    <3>3. CASE wire # <<>>
      BY <1>1, <1>3, <1>4, <2>1, <3>1, <3>3
    <3> QED
      BY <3>2, <3>3
  <2>4. SendFails => UNCHANGED wire /\ sStatus' = "failed"
    BY DEF SendFails, streamVars
  <2> QED
    BY <1>3, <1>4, <1>6, <2>1, <2>2, <2>3, <2>4, SendingEffect
<1>7. CASE Receiver
  <2>1. UNCHANGED <<SenderPlace, Furthest, sStatus, up>>
    BY <1>5, <1>7, ReceiverKeeps
  <2>2. Receiving /\ aligned /\ (Reads \/ UNCHANGED <<wire, ReceiverPlace>>)
    BY <1>7, ReceiverEffect
  <2>3. CASE UNCHANGED <<wire, ReceiverPlace>>
    BY <1>3, <2>1, <2>2, <2>3
  <2>4. CASE Reads
    <3>1. /\ wire # <<>> /\ wire' = Tail(wire) /\ Place(wire[1]) = ReceiverPlace
          /\ ReceiverPlace' = After(Place(wire[1])) /\ 1 \in 1 .. Len(wire)
      BY <1>1, <1>3, <2>2, <2>4 DEF Reads
    <3>2. NotAfter(ReceiverPlace', Furthest')
      BY <2>1, <3>1 DEF InOrder, WireInOrder
    <3>3. ASSUME wire' # <<>> PROVE Place(wire'[1]) = ReceiverPlace'
      <4>1. wire'[1] = wire[1 + 1] /\ 1 \in 1 .. Len(wire) - 1
        BY <1>1, <3>1, <3>3
      <4>2. \A j \in 1 .. Len(wire) - 1 : Place(wire[j + 1]) = After(Place(wire[j]))
        BY DEF InOrder, WireInOrder
      <4>3. Place(wire[1 + 1]) = After(Place(wire[1]))
        BY <4>1, <4>2
      <4> QED
        BY <3>1, <4>1, <4>3
    <3>4. ASSUME wire' = <<>>, up'["sender"], sStatus' # "failed"
          PROVE  SenderPlace' = ReceiverPlace'
      <4>1. Len(wire) = 1
        <5>1. Len(wire') = Len(wire) - 1 /\ Len(wire) \in Nat
          BY <1>1, <3>1
        <5>2. Len(wire') = 0
          BY <3>4
        <5> QED
          BY <5>1, <5>2
      <4> QED
        BY <2>1, <3>1, <3>4, <4>1 DEF InOrder, WireInOrder
    <3> QED
      BY <3>2, <3>3, <3>4
  <2> QED
    BY <2>2, <2>3, <2>4
<1>8. CASE Environment
  <2>1. UNCHANGED <<SenderPlace, Furthest, sStatus, receiverVars>>
    BY <1>5, <1>8, EnvironmentKeeps
  <2>2. ASSUME NEW e \in Ends, up' = [up EXCEPT ![e] = FALSE]
        PROVE  up'["sender"] => up["sender"]
    BY <1>1, <2>2 DEF Ends
  <2>3. ASSUME up' = [up EXCEPT !["sender"] = FALSE],
               NEW k \in 0 .. Len(wire), wire' = SubSeq(wire, 1, k)
        PROVE  ~up'["sender"] /\ (wire' # <<>> => wire # <<>> /\ wire'[1] = wire[1])
    BY <1>1, <2>3 DEF Ends
  <2> QED
    BY <1>3, <1>4, <1>8, <2>1, <2>2, <2>3, EnvironmentKeeps
<1>9. CASE UNCHANGED vars
  BY <1>3, <1>4, <1>5, <1>9 DEF vars, streamVars
<1> QED
  BY <1>6, <1>7, <1>8, <1>9, NextCases

\* Only its own steps change what the receiver holds.
LEMMA ReceiverAlone ==
    ASSUME [Next]_vars
    PROVE  files' = files /\ (Receiver \/ UNCHANGED receiverVars)
BY NextCases, FilesKept, SendingKeeps, EnvironmentKeeps DEF vars

LEMMA ReceiverCountsKept ==
    ASSUME TypeOK, InOrder, [Next]_vars
    PROVE  ReceiverCounts'
<1> USE DEF ReceiverCounts
<1>1. /\ files' = files /\ Len(files) \in Nat /\ ReceivedFiles \in Nat /\ rTotal \in Nat
      /\ ReceiverCounts
  BY ReceiverAlone, RequestTyped DEF TypeOK, InOrder
<1>2. CASE AcceptStream
  BY <1>1, <1>2 DEF AcceptStream
<1>3. CASE ReadHeader
  <2>1. Head1.n = Len(files)
    BY <1>3, ReadHeaderEffect DEF InOrder, IsHeader, Cell
  <2> QED
    BY <1>1, <1>3, <2>1 DEF ReadHeader
<1>4. CASE BeginReceiving
  BY <1>1, <1>4 DEF BeginReceiving
<1>5. CASE MakeSaveDir
  BY <1>1, <1>5 DEF MakeSaveDir, NextReceive
<1>6. CASE ReadMeta \/ ReadWrongMeta
  BY <1>1, <1>6 DEF ReadMeta, ReadWrongMeta
<1>7. CASE ReadSize \/ ReadWrongSize
  BY <1>1, <1>7 DEF ReadSize, ReadWrongSize
<1>8. CASE CreateFile \/ CopyNByte
  BY <1>1, <1>8 DEF CreateFile, CopyNByte
<1>9. CASE FileReceived
  BY <1>1, <1>9 DEF FileReceived, NextReceive
<1>10. CASE ReceiveFails
  BY <1>1, <1>10 DEF ReceiveFails
<1>11. CASE FinishReceiving \/ CloseReceiver
  BY <1>1, <1>11 DEF FinishReceiving, CloseReceiver
<1>12. CASE UNCHANGED receiverVars
  BY <1>1, <1>12 DEF receiverVars
<1> QED
  BY <1>2, <1>3, <1>4, <1>5, <1>6, <1>7, <1>8, <1>9, <1>10, <1>11, <1>12, ReceiverAlone
  DEF Receiver

LEMMA FileOpenedKept ==
    ASSUME TypeOK, InOrder, [Next]_vars
    PROVE  FileOpened'
<1> USE DEF FileOpened
<1>1. FileOpened /\ saved \in [Names -> {NoFile} \cup Seq(Cells)]
  BY DEF TypeOK, InOrder
<1>2. CASE ReadMeta
  <2>1. files[Head1.file].name \in Names
    BY <1>2, HeadTyped, RequestTyped DEF ReadMeta, CanRead, FileInfo, InOrder
  <2> QED
    BY <1>2, <2>1 DEF ReadMeta
<1>3. CASE ReadWrongMeta
  BY <1>1, <1>3 DEF ReadWrongMeta
<1>4. CASE ReadSize \/ ReadWrongSize
  BY <1>1, <1>4 DEF ReadSize, ReadWrongSize
<1>5. CASE CreateFile
  <2>1. rName \in Names /\ saved'[rName] = <<>> /\ rName' = rName
    BY <1>1, <1>5 DEF CreateFile
  <2>2. <<>> \in Seq(Cells)
    OBVIOUS
  <2> QED
    BY <2>1, <2>2
<1>6. CASE CopyNByte
  <2>1. rName \in Names /\ saved[rName] \in Seq(Cells) /\ Head1 \in Cells
    BY <1>1, <1>6, HeadTyped DEF CopyNByte, CanRead, InOrder
  <2>2. saved'[rName] = Append(saved[rName], Head1) /\ rName' = rName
    BY <1>1, <1>6, <2>1 DEF CopyNByte
  <2>3. Append(saved[rName], Head1) \in Seq(Cells)
    BY <2>1
  <2> QED
    BY <2>1, <2>2, <2>3
<1>7. CASE FileReceived \/ MakeSaveDir
  BY <1>7 DEF FileReceived, MakeSaveDir, NextReceive
<1>8. CASE AcceptStream \/ ReadHeader \/ BeginReceiving \/ ReceiveFails \/ FinishReceiving \/ CloseReceiver
  BY <1>8 DEF AcceptStream, ReadHeader, BeginReceiving, ReceiveFails, FinishReceiving, CloseReceiver
<1>9. CASE UNCHANGED receiverVars
  BY <1>1, <1>9 DEF receiverVars
<1> QED
  BY <1>2, <1>3, <1>4, <1>5, <1>6, <1>7, <1>8, <1>9, ReceiverAlone DEF Receiver

LEMMA FileInStepKept ==
    ASSUME TypeOK, InOrder, [Next]_vars
    PROVE  FileInStep'
<1> SUFFICES ASSUME aligned'
             PROVE  FileInStep'
  BY DEF FileInStep
<1> USE DEF FileInStep
<1>1. /\ files' = files /\ ReceivedFiles \in Nat /\ rGot \in Nat
      /\ saved \in [Names -> {NoFile} \cup Seq(Cells)]
      /\ aligned => FileInStep
  BY ReceiverAlone DEF TypeOK, InOrder
<1>2. CASE ReadMeta
  <2>1. files[Head1.file].name = files[ReceivedFiles + 1].name
    BY <1>2, ReadMetaEffect DEF InOrder, Cell
  <2> QED
    BY <1>1, <1>2, <2>1 DEF ReadMeta
<1>3. CASE ReadWrongMeta \/ ReadWrongSize
  BY <1>3 DEF ReadWrongMeta, ReadWrongSize
<1>4. CASE ReadSize
  <2>1. Head1.n = files[ReceivedFiles + 1].size
    BY <1>4, ReadSizeEffect DEF InOrder
  <2> QED
    BY <1>1, <1>4, <2>1 DEF ReadSize
<1>5. CASE CreateFile
  <2>1. rName \in Names /\ saved'[rName] = <<>> /\ rGot' = 0
    BY <1>1, <1>5 DEF CreateFile, InOrder, FileOpened
  <2>2. <<>> = [k \in 1 .. 0 |-> Cell("data", ReceivedFiles + 1, k)]
    OBVIOUS
  <2>3. files[ReceivedFiles + 1].bytes \in Nat
    BY <1>5, RequestTyped DEF CreateFile, InOrder, ReceiverCounts, TypeOK, FileInfo
  <2> QED
    BY <1>1, <1>5, <2>1, <2>2, <2>3 DEF CreateFile
<1>6. CASE CopyNByte
  <2> DEFINE Stored(n) == [k \in 1 .. n |-> Cell("data", ReceivedFiles + 1, k)]
  <2>1. /\ rpc = "data" /\ rpc' = "data" /\ aligned /\ rGot' = rGot + 1
        /\ UNCHANGED <<rName, rSize, ReceivedFiles>>
    BY <1>6 DEF CopyNByte
  <2>2. rGot < files[ReceivedFiles + 1].bytes /\ Head1 = Cell("data", ReceivedFiles + 1, rGot + 1)
    BY <1>6, CopyNByteEffect DEF InOrder
  <2>3. files[ReceivedFiles + 1].bytes \in Nat
    BY <2>1, DataPlace DEF InOrder
  <2>4. saved'[rName] = Append(Stored(rGot), Cell("data", ReceivedFiles + 1, rGot + 1))
    BY <1>1, <1>6, <2>1, <2>2 DEF CopyNByte, InOrder, FileOpened
  <2>5. Append(Stored(rGot), Cell("data", ReceivedFiles + 1, rGot + 1)) = Stored(rGot + 1)
    BY <1>1
  <2> QED
    BY <1>1, <2>1, <2>2, <2>3, <2>4, <2>5
<1>7. CASE FileReceived
  BY <1>1, <1>7 DEF FileReceived, NextReceive
<1>8. CASE MakeSaveDir
  BY <1>1, <1>8 DEF MakeSaveDir, NextReceive, InOrder, ReceiverCounts
<1>9. CASE AcceptStream \/ ReadHeader \/ BeginReceiving
  BY <1>9 DEF AcceptStream, ReadHeader, BeginReceiving
<1>10. CASE ReceiveFails \/ FinishReceiving \/ CloseReceiver
  BY <1>10 DEF ReceiveFails, FinishReceiving, CloseReceiver
<1>11. CASE UNCHANGED receiverVars
  BY <1>1, <1>11 DEF receiverVars
<1> QED
  BY <1>2, <1>3, <1>4, <1>5, <1>6, <1>7, <1>8, <1>9, <1>10, <1>11, ReceiverAlone DEF Receiver

LEMMA SoundSize ==
    ASSUME TypeOK, SoundRequest, NEW i \in 1 .. Len(files)
    PROVE  /\ files[i].size = files[i].bytes /\ files[i].bytes \in Nat /\ files[i].readable
           /\ Signed(files[i].size) = files[i].bytes
           /\ files[i].size < 2^(SizeBits - 1)
BY RequestTyped, TransferAssumption DEF SoundRequest, Signed, FileInfo

LEMMA SoundInStepKept ==
    ASSUME TypeOK, InOrder, [Next]_vars
    PROVE  SoundInStep'
<1> SUFFICES ASSUME SoundRequest, Receiving'
             PROVE  /\ aligned'
                    /\ rpc' \in {"meta", "finish"} /\ ReceivedFiles' > 0 =>
                            rGot' = files[ReceivedFiles'].bytes
  BY FilesKept DEF SoundInStep, SoundRequest
<1> USE DEF Receiving
<1>1. /\ files' = files /\ ReceivedFiles \in Nat /\ rGot \in Nat
      /\ Receiving =>
            /\ aligned
            /\ rpc \in {"meta", "finish"} /\ ReceivedFiles > 0 => rGot = files[ReceivedFiles].bytes
  BY FilesKept DEF TypeOK, InOrder, SoundInStep
<1>2. CASE ReadMeta \/ ReadSize \/ CreateFile
  BY <1>1, <1>2 DEF ReadMeta, ReadSize, CreateFile
<1>3. ASSUME ReadWrongMeta PROVE FALSE
  <2>1. rpc = "meta" /\ wire # <<>> /\ ~(aligned /\ Head1.kind = "meta")
    BY <1>3 DEF ReadWrongMeta, CanRead
  <2>2. aligned /\ (ReceivedFiles > 0 => rGot = files[ReceivedFiles].bytes)
    BY <1>1, <2>1
  <2>3. ReceiverPlace = FilePlace(ReceivedFiles + 1)
    BY <1>1, <2>1, <2>2, MetaPlace DEF InOrder
  <2>4. IsCell(Head1) /\ Place(Head1) = ReceiverPlace
    BY <2>1, <2>2, HeadInStep DEF InOrder
  <2>5. Head1 = Cell("meta", ReceivedFiles + 1, 0)
    BY <1>1, <2>3, <2>4, CellAt, ReceivedFiles + 1 \in Nat, ReceivedFiles + 1 # 0 DEF FilePlace
  <2> QED
    BY <2>1, <2>2, <2>5 DEF Cell
<1>4. ASSUME ReadWrongSize PROVE FALSE
  BY <1>1, <1>4, SizePlace DEF ReadWrongSize, CanRead, InOrder, Cell
<1>5. CASE CopyNByte
  <2>1. rpc = "data" /\ rpc' = "data" /\ wire # <<>> /\ rGot < Signed(rSize) /\ aligned
    BY <1>1, <1>5 DEF CopyNByte, CanRead, CopyLimit
  <2>2. ReceivedFiles + 1 \in 1 .. Len(files) /\ rSize = files[ReceivedFiles + 1].size
    BY <2>1, DataPlace DEF InOrder, FileInStep
  <2>3. rGot < files[ReceivedFiles + 1].bytes
    BY <2>1, <2>2, SoundSize
  <2>4. ReceiverPlace = <<ReceivedFiles + 1, rGot + 2>>
    BY <2>1, <2>3, DataPlace DEF InOrder
  <2>5. IsCell(Head1) /\ Place(Head1) = ReceiverPlace
    BY <2>1, HeadInStep DEF InOrder
  <2>6. Head1 = Cell("data", ReceivedFiles + 1, (rGot + 2) - 1)
    <3>1. ReceivedFiles + 1 \in Nat /\ ReceivedFiles + 1 # 0 /\ rGot + 2 \in Nat /\ rGot + 2 > 1
      BY <1>1
    <3> QED
      BY <2>4, <2>5, <3>1, CellAt
  <2> QED
    BY <1>5, <2>1, <2>6 DEF CopyNByte, Cell
<1>6. CASE FileReceived
  <2>1. /\ rpc = "data" /\ rGot >= Signed(rSize) /\ aligned /\ aligned' = aligned
        /\ ReceivedFiles' = ReceivedFiles + 1 /\ rGot' = rGot
    BY <1>1, <1>6 DEF FileReceived, CopyLimit
  <2>2. /\ ReceivedFiles + 1 \in 1 .. Len(files) /\ rSize = files[ReceivedFiles + 1].size
        /\ rGot <= files[ReceivedFiles + 1].bytes
    BY <2>1, DataPlace DEF InOrder, FileInStep
  <2>3. rGot = files[ReceivedFiles + 1].bytes
    BY <1>1, <2>1, <2>2, SoundSize
  <2> QED
    BY <2>1, <2>3
<1>7. CASE MakeSaveDir
  BY <1>1, <1>7 DEF MakeSaveDir, NextReceive, InOrder, ReceiverCounts
<1>8. CASE AcceptStream \/ ReadHeader \/ BeginReceiving
  BY <1>1, <1>8 DEF AcceptStream, ReadHeader, BeginReceiving
<1>9. CASE ReceiveFails \/ FinishReceiving \/ CloseReceiver
  BY <1>9 DEF ReceiveFails, FinishReceiving, CloseReceiver
<1>10. CASE UNCHANGED receiverVars
  BY <1>1, <1>10 DEF receiverVars
<1> QED
  BY <1>2, <1>3, <1>4, <1>5, <1>6, <1>7, <1>8, <1>9, <1>10, ReceiverAlone DEF Receiver

(***************************************************************************)
(* The invariant                                                           *)
(***************************************************************************)

LEMMA InitInOrder ==
    ASSUME Init
    PROVE  TypeOK /\ InOrder
<1> USE TransferAssumption DEF Init, Ends
<1>1. files \in Seq(FileInfo) /\ Len(files) \in Nat
  OBVIOUS
<1>2. TypeOK
  <2>1. wire \in Seq(Cells) /\ saved \in [Names -> {NoFile} \cup Seq(Cells)]
    OBVIOUS
  <2>2. fin \in BOOLEAN /\ aligned \in BOOLEAN /\ negotiated \in BOOLEAN /\ up \in [Ends -> BOOLEAN]
    OBVIOUS
  <2>3. /\ files \in Requests /\ spc \in SenderPoints
        /\ sIdx \in Nat \ {0} /\ sOff \in Nat
        /\ sStatus \in Statuses /\ SentFiles \in Nat
        /\ sampler \in {"none", "running", "stopping", "stopped"}
        /\ stopped \in {"no", "sent", "arrived"}
    BY DEF SenderPoints, Statuses
  <2>4. /\ rpc \in ReceiverPoints /\ rTotal \in Nat
        /\ rName \in Names \cup {NoName} /\ rSize \in Nat /\ rGot \in Nat
        /\ rStatus \in Statuses /\ ReceivedFiles \in Nat
    BY DEF ReceiverPoints, Statuses
  <2> HIDE DEF Init
  <2> QED
    BY <2>1, <2>2, <2>3, <2>4 DEF TypeOK
<1>3. SenderPlace = HeaderPlace /\ ReceiverPlace = HeaderPlace /\ Furthest = HeaderPlace
  BY DEF SenderPlace, ReceiverPlace, Furthest
<1>4. SenderInStep
  BY <1>1 DEF SenderInStep
<1>5. WireInOrder
  BY DEF WireInOrder
<1>6. ReceiverCounts /\ FileOpened
  BY DEF ReceiverCounts, FileOpened
<1>7. ReceiverInStep
  BY <1>3 DEF ReceiverInStep, NotAfter, HeaderPlace
<1>8. FileInStep /\ SoundInStep
  BY DEF FileInStep, SoundInStep
<1> QED
  BY <1>2, <1>4, <1>5, <1>6, <1>7, <1>8 DEF InOrder

LEMMA StepInOrder ==
    ASSUME TypeOK, InOrder, [Next]_vars
    PROVE  TypeOK' /\ InOrder'
<1>1. TypeOK'
  BY TypeKept DEF InOrder
<1>2. SenderInStep' /\ WireInOrder'
  BY <1>1, SenderInStepKept, WireInOrderKept DEF InOrder
<1> QED
  BY <1>1, <1>2, ReceiverCountsKept, FileOpenedKept, ReceiverInStepKept, FileInStepKept,
     SoundInStepKept
  DEF InOrder

\* The two ends and the wire stay in order: post.go writes the frames of a
\* request one after the other, and receiveFile reads them in the same order.
THEOREM StaysInOrder == Spec => [](TypeOK /\ InOrder)
<1>1. Init => TypeOK /\ InOrder
  BY InitInOrder
<1>2. TypeOK /\ InOrder /\ [Next]_vars => (TypeOK /\ InOrder)'
  BY StepInOrder
<1> QED
  BY <1>1, <1>2, PTL DEF Spec

\* Every variable of a transfer keeps its type; the types rest on the order:
\* the FileInfo of a cell the receiver reads is one of the request.
THEOREM TypeCorrect == Spec => []TypeOK
BY StaysInOrder, PTL

(***************************************************************************)
(* The two progress counters                                               *)
(***************************************************************************)

\* What the sender has passed lies in the files it has begun.
LEMMA FurthestFile ==
    ASSUME TypeOK, SenderInStep, NEW i \in Nat, NEW k \in Nat, NotAfter(<<i, k>>, Furthest)
    PROVE  i <= sIdx \/ (i = sIdx + 1 /\ k = 0)
<1>1. sIdx \in Nat /\ sOff \in Nat
  BY DEF TypeOK
<1>2. Furthest = FilePlace(sIdx + 1) \/ \E j \in 0 .. sIdx, n \in Nat : Furthest = <<j, n>>
  <2>1. CASE sStatus = "failed"
    BY <2>1 DEF Furthest
  <2>2. CASE sStatus # "failed" /\ spc \in {"idle", "begin", "header"}
    BY <1>1, <2>2 DEF Furthest, SenderPlace, HeaderPlace
  <2>3. CASE sStatus # "failed" /\ spc \in {"meta", "open", "size"}
    BY <1>1, <2>3 DEF Furthest, SenderPlace, FilePlace
  <2>4. CASE sStatus # "failed" /\ spc = "data"
    <3>1. Furthest = After(<<sIdx, sOff + 1>>) /\ sIdx # 0
      BY <2>4 DEF Furthest, SenderPlace, SenderInStep
    <3> QED
      BY <1>1, <3>1 DEF After
  <2>5. CASE sStatus # "failed" /\ spc \in {"finish", "closing", "closed"}
    <3>1. sIdx = Len(files) + 1
      BY <2>5 DEF SenderInStep, Settled
    <3>2. Furthest = <<sIdx, 0>>
      BY <2>5, <3>1 DEF Furthest, SenderPlace, EndPlace, FilePlace
    <3> QED
      BY <1>1, <3>2
  <2> QED
    BY <2>1, <2>2, <2>3, <2>4, <2>5 DEF TypeOK, SenderPoints
<1> QED
  BY <1>1, <1>2 DEF NotAfter, FilePlace

\* A file is created and received only while the sender is at it or past it.
LEMMA FileBegun ==
    ASSUME TypeOK, InOrder, aligned, rpc \in {"create", "data"}
    PROVE  ReceivedFiles <= SentFiles
<1>1. /\ Receiving /\ ReceivedFiles \in Nat /\ rGot \in Nat /\ sIdx \in Nat /\ SentFiles = sIdx - 1
      /\ ReceivedFiles + 1 \in Nat /\ ReceivedFiles + 2 \in Nat /\ rGot + 2 \in Nat
  BY DEF Receiving, TypeOK, InOrder, SenderInStep
<1>2. NotAfter(ReceiverPlace, Furthest)
  BY <1>1 DEF InOrder, ReceiverInStep
<1>3. \/ \E k \in Nat \ {0} : ReceiverPlace = <<ReceivedFiles + 1, k>>
      \/ ReceiverPlace = <<ReceivedFiles + 2, 0>>
  <2>1. CASE rpc = "data"
    <3>1. rGot + 2 \in Nat \ {0}
      BY <1>1
    <3> QED
      BY <2>1, <3>1, DataPlace DEF InOrder, FilePlace
  <2>2. CASE rpc = "create"
    <3>1. ReceiverPlace = After(<<ReceivedFiles + 1, 1>>) /\ ReceivedFiles + 1 # 0
      BY <1>1, <2>2 DEF ReceiverPlace
    <3> QED
      BY <1>1, <3>1 DEF After, FilePlace
  <2> QED
    BY <2>1, <2>2
<1>4. CASE \E k \in Nat \ {0} : ReceiverPlace = <<ReceivedFiles + 1, k>>
  BY <1>1, <1>2, <1>4, FurthestFile DEF InOrder
<1>5. CASE ReceiverPlace = <<ReceivedFiles + 2, 0>>
  BY <1>1, <1>2, <1>5, FurthestFile DEF InOrder
<1> QED
  BY <1>3, <1>4, <1>5

LEMMA CountersKept ==
    ASSUME TypeOK, InOrder, ReceiverNotAhead, [Next]_vars
    PROVE  ReceiverNotAhead'
<1> USE DEF ReceiverNotAhead
<1>1. ReceivedFiles \in Nat /\ SentFiles \in Nat
  BY DEF TypeOK
<1>2. ASSUME UNCHANGED receiverVars PROVE ReceiverNotAhead'
  <2>1. SentFiles' = SentFiles \/ (FileSent /\ SentFiles' = sIdx /\ SentFiles = sIdx - 1)
    <3>1. CASE Sending
      BY <3>1 DEF Sending, Post, Sender, SamplerStops, BeginSending, WriteHeader, WriteMeta,
         OpenFile, WriteSize, CopyByte, FileSent, SendFails, FinishSending, CloseSender,
         InOrder, SenderInStep
    <3> QED
      BY <3>1, NextCases, ReceiverKeeps, EnvironmentKeeps DEF vars, senderVars
  <2> QED
    BY <1>1, <1>2, <2>1 DEF receiverVars, TypeOK
<1>3. CASE FileReceived
  <2>1. rpc = "data" /\ UNCHANGED <<aligned, SentFiles>> /\ ReceivedFiles' = ReceivedFiles + 1
    BY <1>3 DEF FileReceived, senderVars
  <2> QED
    BY <1>1, <2>1, FileBegun
<1>4. CASE Receiver /\ ~FileReceived
  <2>1. UNCHANGED <<SentFiles, ReceivedFiles>>
    BY <1>4 DEF Receiver, AcceptStream, ReadHeader, BeginReceiving, MakeSaveDir, ReadMeta,
       ReadWrongMeta, ReadSize, ReadWrongSize, CreateFile, CopyNByte, ReceiveFails,
       FinishReceiving, CloseReceiver, senderVars
  <2>2. aligned' => aligned
    <3>1. CASE CopyNByte
      BY <3>1 DEF CopyNByte
    <3>2. CASE ReadWrongMeta \/ ReadWrongSize
      BY <3>2 DEF ReadWrongMeta, ReadWrongSize
    <3>3. CASE ~CopyNByte /\ ~ReadWrongMeta /\ ~ReadWrongSize
      BY <1>4, <3>3 DEF Receiver, AcceptStream, ReadHeader, BeginReceiving, MakeSaveDir, ReadMeta,
         ReadSize, CreateFile, ReceiveFails, FinishReceiving, CloseReceiver
    <3> QED
      BY <3>1, <3>2, <3>3
  <2> QED
    BY <2>1, <2>2
<1> QED
  BY <1>2, <1>3, <1>4, ReceiverAlone

\* A place in steps of the stream that every file has: its FileInfo and its size.
Weight(p) == IF p[1] = 0 THEN 1 ELSE 2 * p[1] + (IF p[2] = 0 THEN 0 ELSE 1)

LEMMA WeightTyped ==
    ASSUME NEW p \in Nat \X Nat
    PROVE  Weight(p) \in Nat
BY DEF Weight

\* No cell is more than one such step.
LEMMA WeightAfter ==
    ASSUME NEW p \in Nat \X Nat
    PROVE  Weight(After(p)) <= Weight(p) + 1
<1>1. p[1] \in Nat /\ p[2] \in Nat
  OBVIOUS
<1>2. CASE p[1] = 0
  BY <1>2 DEF Weight, After, FilePlace
<1>3. CASE p[1] # 0 /\ p[2] = 0
  BY <1>1, <1>3 DEF Weight, After
<1>4. CASE p[1] # 0 /\ p[2] # 0
  <2>1. After(p) = <<p[1], p[2] + 1>> \/ After(p) = <<p[1] + 1, 0>>
    BY <1>4 DEF After, FilePlace
  <2> QED
    BY <1>1, <1>4, <2>1 DEF Weight
<1> QED
  BY <1>2, <1>3, <1>4

\* Every set of naturals has a least member.
LEMMA Least ==
    ASSUME NEW T, T \subseteq Nat, T # {}
    PROVE  \E m \in T : \A n \in T : m <= n
<1>1. \E m \in T : \A n \in T : ~(<<n, m>> \in OpToRel(<, Nat))
  BY NatLessThanWellFounded, WFMin
<1>2. PICK m \in T : \A n \in T : ~(<<n, m>> \in OpToRel(<, Nat))
  BY <1>1
<1>3. \A n \in T : ~(n < m)
  BY <1>2 DEF OpToRel
<1> QED
  BY <1>3

\* Along the wire the places are at most one step apart.
LEMMA WeightOnWire ==
    ASSUME TypeOK, WireInOrder, NEW i \in 1 .. Len(wire)
    PROVE  Weight(After(Place(wire[i]))) <= Weight(Place(wire[1])) + i
<1> DEFINE T == {j \in 1 .. Len(wire) :
                   ~(Weight(After(Place(wire[j]))) <= Weight(Place(wire[1])) + j)}
<1> SUFFICES ASSUME T # {} PROVE FALSE
  OBVIOUS
<1>1. Len(wire) \in Nat
  BY DEF TypeOK
<1>2. \E m \in T : \A n \in T : m <= n
  <2>1. T \subseteq Nat
    BY <1>1
  <2> HIDE DEF T
  <2> QED
    BY <2>1, Least
<1>3. PICK j \in T : \A n \in T : j <= n
  BY <1>2
<1>4. j \in 1 .. Len(wire) /\ \A n \in T : ~(n < j)
  BY <1>1, <1>3
<1>5. ~(Weight(After(Place(wire[j]))) <= Weight(Place(wire[1])) + j)
  BY <1>3
<1>6. /\ Place(wire[j]) \in Nat \X Nat /\ Place(wire[1]) \in Nat \X Nat
      /\ After(Place(wire[j])) \in Nat \X Nat
  <2>1. 1 \in 1 .. Len(wire)
    BY <1>1, <1>4
  <2> QED
    BY <1>4, <2>1, WireTyped
<1>7. Weight(After(Place(wire[j]))) <= Weight(Place(wire[j])) + 1
  BY <1>6, WeightAfter
<1>8. /\ Weight(Place(wire[j])) \in Nat /\ Weight(Place(wire[1])) \in Nat
      /\ Weight(After(Place(wire[j]))) \in Nat
  BY <1>6, WeightTyped
<1>9. CASE j = 1
  BY <1>5, <1>7, <1>8, <1>9
<1>10. CASE j # 1
  <2>1. j - 1 \in 1 .. Len(wire) /\ j - 1 \in 1 .. Len(wire) - 1 /\ (j - 1) + 1 = j /\ j - 1 < j
    BY <1>1, <1>4, <1>10
  <2>2. Weight(After(Place(wire[j - 1]))) <= Weight(Place(wire[1])) + (j - 1)
    BY <1>4, <2>1
  <2>3. Place(wire[j]) = After(Place(wire[j - 1]))
    BY <2>1 DEF WireInOrder
  <2> QED
    BY <1>4, <1>5, <1>7, <1>8, <2>2, <2>3
<1> QED
  BY <1>9, <1>10

\* The receiver waits for nothing beyond the file after those it has counted,
LEMMA ReceiverWeight ==
    ASSUME TypeOK, Receiving
    PROVE  Weight(ReceiverPlace) <= 2 * ReceivedFiles + 4
<1>1. ReceivedFiles \in Nat /\ rGot \in Nat /\ rpc \in ReceiverPoints
  BY DEF TypeOK
<1>2. ASSUME NEW i \in Nat, NEW k \in Nat
      PROVE  Weight(<<i, k>>) <= 2 * i + 1 /\ Weight(After(<<i, k>>)) <= 2 * i + 2
  <2>1. Weight(<<i, k>>) <= 2 * i + 1
    BY DEF Weight
  <2>2. <<i, k>> \in Nat \X Nat /\ After(<<i, k>>) \in Nat \X Nat
    BY AfterTyped
  <2>3. Weight(<<i, k>>) \in Nat /\ Weight(After(<<i, k>>)) \in Nat
    BY <2>2, WeightTyped
  <2> QED
    BY <2>1, <2>2, <2>3, WeightAfter
<1>3. CASE ReceiverPlace \in {HeaderPlace, FilePlace(1)}
  BY <1>1, <1>3 DEF Weight, HeaderPlace, FilePlace
<1>4. CASE ReceiverPlace = <<ReceivedFiles + 1, 1>>
  BY <1>1, <1>4 DEF Weight
<1>5. CASE \E k \in Nat : ReceiverPlace = After(<<ReceivedFiles + 1, k>>)
  <2>1. PICK k \in Nat : ReceiverPlace = After(<<ReceivedFiles + 1, k>>)
    BY <1>5
  <2>2. ReceivedFiles + 1 \in Nat
    BY <1>1
  <2>3. Weight(ReceiverPlace) <= 2 * (ReceivedFiles + 1) + 2
    BY <1>2, <2>1, <2>2
  <2>4. Weight(ReceiverPlace) \in Nat
    BY ReceiverPlaceTyped, WeightTyped
  <2> QED
    BY <1>1, <2>3, <2>4
<1>6. CASE ReceiverPlace = After(<<ReceivedFiles, rGot + 1>>)
  <2>1. Weight(ReceiverPlace) <= 2 * ReceivedFiles + 2 /\ Weight(ReceiverPlace) \in Nat
    BY <1>1, <1>2, <1>6, ReceiverPlaceTyped, WeightTyped
  <2> QED
    BY <1>1, <2>1
<1>7. \/ ReceiverPlace \in {HeaderPlace, FilePlace(1)}
      \/ ReceiverPlace = <<ReceivedFiles + 1, 1>>
      \/ \E k \in Nat : ReceiverPlace = After(<<ReceivedFiles + 1, k>>)
      \/ ReceiverPlace = After(<<ReceivedFiles, rGot + 1>>)
  <2>1. rGot + 1 \in Nat
    BY <1>1
  <2> QED
    BY <2>1 DEF ReceiverPlace
<1> QED
  BY <1>3, <1>4, <1>5, <1>6, <1>7

\* and a sender that has not failed is past every file it has counted.
LEMMA SenderWeight ==
    ASSUME TypeOK, SenderInStep, sStatus # "failed"
    PROVE  SentFiles = 0 \/ Weight(SenderPlace) >= 2 * (SentFiles + 1)
<1>1. sIdx \in Nat \ {0} /\ sOff \in Nat /\ SentFiles = sIdx - 1 /\ spc \in SenderPoints
  BY DEF TypeOK, SenderInStep
<1>2. CASE spc \in {"idle", "begin", "header"}
  BY <1>1, <1>2 DEF SenderInStep
<1>3. CASE spc \in {"meta", "open", "size"}
  BY <1>1, <1>3 DEF SenderPlace, FilePlace, Weight
<1>4. CASE spc = "data"
  <2>1. SenderPlace = <<sIdx, sOff + 2>> \/ SenderPlace = <<sIdx + 1, 0>>
    BY <1>1, <1>4 DEF SenderPlace, After, FilePlace
  <2> QED
    BY <1>1, <2>1 DEF Weight
<1>5. CASE spc \in {"finish", "closing", "closed"}
  <2>1. sIdx = Len(files) + 1 /\ SenderPlace = <<sIdx, 0>>
    BY <1>5 DEF SenderInStep, Settled, SenderPlace, EndPlace, FilePlace
  <2> QED
    BY <1>1, <2>1 DEF Weight
<1> QED
  BY <1>1, <1>2, <1>3, <1>4, <1>5 DEF SenderPoints

\* Between them lies the wire.
LEMMA LeadOnWire ==
    ASSUME TypeOK, InOrder
    PROVE  SenderLeadOnWire
<1> SUFFICES ASSUME aligned, Receiving, up["sender"], sStatus # "failed"
             PROVE  2 * (SentFiles - ReceivedFiles - 1) <= Len(wire)
  BY DEF SenderLeadOnWire
<1>1. ReceivedFiles \in Nat /\ SentFiles \in Nat /\ Len(wire) \in Nat /\ wire \in Seq(Cells)
  BY DEF TypeOK
<1>2. Weight(SenderPlace) \in Nat /\ Weight(ReceiverPlace) \in Nat
  BY SenderPlaceTyped, ReceiverPlaceTyped, WeightTyped
<1>3. Weight(SenderPlace) <= Weight(ReceiverPlace) + Len(wire)
  <2>1. CASE wire = <<>>
    <3>1. SenderPlace = ReceiverPlace
      BY <2>1 DEF InOrder, ReceiverInStep
    <3> QED
      BY <1>1, <1>2, <3>1
  <2>2. CASE wire # <<>>
    <3>1. SenderPlace = After(Place(wire[Len(wire)])) /\ Place(wire[1]) = ReceiverPlace
      BY <2>2 DEF InOrder, WireInOrder, ReceiverInStep
    <3>2. Len(wire) \in 1 .. Len(wire)
      BY <1>1, <2>2
    <3> QED
      BY <3>1, <3>2, WeightOnWire DEF InOrder
  <2> QED
    BY <2>1, <2>2
<1>4. Weight(ReceiverPlace) <= 2 * ReceivedFiles + 4
  BY ReceiverWeight
<1>5. SentFiles = 0 \/ Weight(SenderPlace) >= 2 * (SentFiles + 1)
  BY SenderWeight DEF InOrder
<1> QED
  BY <1>1, <1>2, <1>3, <1>4, <1>5

(***************************************************************************)
(* What is counted is stored                                               *)
(***************************************************************************)

LEMMA CountedStoredKept ==
    ASSUME TypeOK, InOrder, CountedStored, [Next]_vars
    PROVE  CountedStored'
<1> SUFFICES ASSUME SoundRequest, DistinctNames, NEW i \in 1 .. ReceivedFiles'
             PROVE  saved'[files[i].name] = Contents(i)
  BY FilesKept DEF CountedStored, SoundRequest, DistinctNames, Contents
<1>1. /\ ReceivedFiles \in Nat /\ saved \in [Names -> {NoFile} \cup Seq(Cells)]
      /\ \A j \in 1 .. ReceivedFiles : saved[files[j].name] = Contents(j)
  BY DEF TypeOK, CountedStored
<1>2. ASSUME rpc \in {"create", "data"}, NEW j \in 1 .. ReceivedFiles
      PROVE  aligned /\ files[j].name # rName /\ rName = files[ReceivedFiles + 1].name
  <2>1. aligned
    BY <1>2 DEF InOrder, SoundInStep, Receiving
  <2>2. rName = files[ReceivedFiles + 1].name /\ ReceivedFiles < Len(files)
    BY <1>2, <2>1 DEF InOrder, FileInStep, ReceiverCounts
  <2>3. j \in 1 .. Len(files) /\ ReceivedFiles + 1 \in 1 .. Len(files) /\ j # ReceivedFiles + 1
    BY <1>1, <2>2, RequestTyped
  <2> QED
    BY <2>1, <2>2, <2>3 DEF DistinctNames
<1>3. CASE CreateFile \/ CopyNByte
  <2>1. /\ rpc \in {"create", "data"} /\ ReceivedFiles' = ReceivedFiles
        /\ \A n \in Names : n # rName => saved'[n] = saved[n]
    BY <1>1, <1>3 DEF CreateFile, CopyNByte
  <2>2. i \in 1 .. ReceivedFiles /\ files[i].name # rName
    BY <1>2, <2>1
  <2>3. files[i].name \in Names
    <3>1. ReceivedFiles < Len(files)
      BY <2>1 DEF InOrder, ReceiverCounts
    <3> QED
      BY <1>1, <2>2, <3>1, RequestTyped DEF FileInfo
  <2> QED
    BY <1>1, <2>1, <2>2, <2>3
<1>4. CASE FileReceived
  <2>1. rpc = "data" /\ rGot >= Signed(rSize) /\ ReceivedFiles' = ReceivedFiles + 1 /\ saved' = saved
    BY <1>4 DEF FileReceived, CopyLimit
  <2>2. CASE i \in 1 .. ReceivedFiles
    BY <1>1, <2>1, <2>2
  <2>3. CASE i = ReceivedFiles + 1
    <3>1. aligned
      BY <2>1 DEF InOrder, SoundInStep, Receiving
    <3>2. /\ rName = files[i].name /\ rSize = files[i].size /\ rGot <= files[i].bytes
          /\ saved[rName] = [k \in 1 .. rGot |-> Cell("data", i, k)]
      BY <2>1, <2>3, <3>1 DEF InOrder, FileInStep
    <3>3. i \in 1 .. Len(files) /\ rGot \in Nat
      BY <2>1, <2>3, DataPlace DEF InOrder
    <3>4. rGot = files[i].bytes
      BY <2>1, <3>2, <3>3, SoundSize
    <3> QED
      BY <2>1, <3>2, <3>4 DEF Contents
  <2> QED
    BY <1>1, <2>1, <2>2, <2>3
<1>5. CASE Receiver /\ ~CreateFile /\ ~CopyNByte /\ ~FileReceived
  <2>1. UNCHANGED <<ReceivedFiles, saved>>
    BY <1>5 DEF Receiver, AcceptStream, ReadHeader, BeginReceiving, MakeSaveDir, ReadMeta,
       ReadWrongMeta, ReadSize, ReadWrongSize, ReceiveFails, FinishReceiving, CloseReceiver
  <2> QED
    BY <1>1, <2>1
<1>6. CASE UNCHANGED receiverVars
  BY <1>1, <1>6 DEF receiverVars
<1> QED
  BY <1>3, <1>4, <1>5, <1>6, ReceiverAlone

(***************************************************************************)
(* What is reported failed is not reported done                            *)
(***************************************************************************)

LEMMA EndAtFinish ==
    ASSUME TypeOK, InOrder, SoundRequest, rpc = "finish"
    PROVE  Receiving /\ aligned /\ ReceiverPlace = EndPlace
<1>1. Receiving /\ aligned /\ ReceivedFiles = Len(files) /\ ReceivedFiles \in Nat
  BY DEF Receiving, InOrder, SoundInStep, ReceiverCounts, TypeOK
<1>2. CASE ReceivedFiles = 0
  BY <1>1, <1>2 DEF ReceiverPlace, EndPlace
<1>3. CASE ReceivedFiles # 0
  <2>1. rGot = files[ReceivedFiles].bytes /\ rGot \in Nat
    BY <1>1, <1>3 DEF InOrder, SoundInStep, TypeOK
  <2>2. ReceiverPlace = After(<<ReceivedFiles, rGot + 1>>)
    BY <1>3 DEF ReceiverPlace
  <2> QED
    BY <1>1, <1>3, <2>1, <2>2 DEF After, EndPlace
<1> QED
  BY <1>1, <1>2, <1>3

LEMMA EndPlaceTyped ==
    ASSUME TypeOK
    PROVE  EndPlace \in Nat \X Nat
BY RequestTyped DEF EndPlace, FilePlace

LEMMA FailedIsUnfinishedKept ==
    ASSUME TypeOK, InOrder, FailedIsUnfinished, [Next]_vars
    PROVE  FailedIsUnfinished'
<1> SUFFICES ASSUME ~DiskMayFail
             PROVE  /\ sStatus' = "failed" =>
                        /\ \A j \in 1 .. Len(wire') : ~NotAfter(EndPlace, After(Place(wire'[j])))
                        /\ Receiving' /\ aligned' => ~NotAfter(EndPlace, ReceiverPlace')
                    /\ SoundRequest /\ rStatus' = "done" =>
                        NotAfter(EndPlace, Furthest') /\ sStatus' # "failed"
  <2>1. EndPlace' = EndPlace /\ SoundRequest' = SoundRequest
    BY FilesKept DEF EndPlace, FilePlace, SoundRequest
  <2> QED
    BY <2>1, FilesKept, AfterKept DEF FailedIsUnfinished
<1>1. /\ sStatus = "failed" =>
            /\ \A j \in 1 .. Len(wire) : ~NotAfter(EndPlace, After(Place(wire[j])))
            /\ Receiving /\ aligned => ~NotAfter(EndPlace, ReceiverPlace)
      /\ SoundRequest /\ rStatus = "done" => NotAfter(EndPlace, Furthest) /\ sStatus # "failed"
  BY DEF FailedIsUnfinished
<1>2. /\ Furthest \in Nat \X Nat /\ ReceiverPlace \in Nat \X Nat /\ EndPlace \in Nat \X Nat
      /\ wire \in Seq(Cells) /\ SenderInStep /\ WireInOrder
  BY SenderPlaceTyped, ReceiverPlaceTyped, EndPlaceTyped DEF TypeOK, InOrder
<1>3. TypeOK' /\ Furthest' \in Nat \X Nat
  BY StepInOrder, FurthestTypedNext
<1>4. CASE Sending
  <2>1. /\ UNCHANGED <<rStatus, aligned>> /\ Receiving' = Receiving
        /\ ReceiverPlace' = ReceiverPlace
    BY <1>4, SendingKeeps, ReceiverPlaceKept DEF receiverVars, Receiving
  <2>2. NotAfter(Furthest, Furthest')
    BY <1>2, <1>4, FurthestGrows
  <2>3. NotAfter(EndPlace, Furthest) => NotAfter(EndPlace, Furthest')
    BY <1>2, <1>3, <2>2, NotAfterTransitive
  <2>4. CASE SendFails
    <3>1. UNCHANGED wire /\ spc \in {"header", "meta", "open", "size", "data"}
      BY <2>4 DEF SendFails, streamVars
    <3>2. Furthest = SenderPlace
      BY <3>1 DEF Furthest, InOrder, SenderInStep
    <3>3. ~NotAfter(EndPlace, Furthest)
      BY <1>2, <2>4, <3>2, SendFailsEffect
    <3>4. ASSUME NEW j \in 1 .. Len(wire) PROVE ~NotAfter(EndPlace, After(Place(wire[j])))
      <4>1. NotAfter(After(Place(wire[j])), Furthest) /\ After(Place(wire[j])) \in Nat \X Nat
        BY <1>2, WireTyped DEF WireInOrder
      <4> QED
        BY <1>2, <3>3, <4>1, NotAfterTransitive
    <3>5. Receiving /\ aligned => ~NotAfter(EndPlace, ReceiverPlace)
      <4>1. Receiving /\ aligned => NotAfter(ReceiverPlace, Furthest)
        BY DEF InOrder, ReceiverInStep
      <4> QED
        BY <1>2, <3>3, <4>1, NotAfterTransitive
    <3> QED
      BY <1>1, <2>1, <2>3, <3>1, <3>3, <3>4, <3>5
  <2>5. CASE UNCHANGED <<wire, sStatus>> /\ sStatus = "failed"
    BY <1>1, <2>1, <2>3, <2>5
  <2>6. CASE sStatus' # "failed"
    BY <1>1, <2>1, <2>3, <2>6
  <2> QED
    BY <1>2, <1>4, <2>4, <2>5, <2>6, SendingEffect DEF Writes
<1>5. CASE Receiver
  <2>1. UNCHANGED <<sStatus, Furthest>>
    BY <1>5, ReceiverKeeps, SenderPlaceKept DEF senderVars
  <2>2. ASSUME sStatus = "failed", NEW j \in 1 .. Len(wire')
        PROVE  ~NotAfter(EndPlace, After(Place(wire'[j])))
    <3>1. CASE wire' = wire
      BY <1>1, <2>2, <3>1
    <3>2. CASE wire # <<>> /\ wire' = Tail(wire)
      <4>1. j + 1 \in 1 .. Len(wire) /\ wire'[j] = wire[j + 1]
        BY <1>2, <2>2, <3>2
      <4> QED
        BY <1>1, <2>2, <4>1
    <3> QED
      BY <1>5, <2>2, <3>1, <3>2, ReceiverKeeps
  <2>3. ASSUME sStatus = "failed", Receiving', aligned'
        PROVE  ~NotAfter(EndPlace, ReceiverPlace')
    <3>1. Receiving /\ aligned /\ (Reads \/ UNCHANGED <<wire, ReceiverPlace>>)
      BY <1>5, <2>3, ReceiverEffect
    <3>2. CASE Reads
      <4>1. 1 \in 1 .. Len(wire) /\ ReceiverPlace' = After(Place(wire[1]))
        BY <1>2, <3>1, <3>2, HeadInStep DEF Reads, InOrder, Head1
      <4> QED
        BY <1>1, <2>3, <4>1
    <3> QED
      BY <1>1, <2>3, <3>1, <3>2
  <2>4. ASSUME SoundRequest, rStatus' = "done"
        PROVE  NotAfter(EndPlace, Furthest) /\ sStatus # "failed"
    <3>1. CASE rStatus = "done"
      BY <1>1, <2>4, <3>1
    <3>2. CASE rpc = "finish"
      <4>1. Receiving /\ aligned /\ ReceiverPlace = EndPlace
        BY <2>4, <3>2, EndAtFinish
      <4>2. NotAfter(EndPlace, Furthest)
        BY <4>1 DEF InOrder, ReceiverInStep
      <4> QED
        BY <1>1, <1>2, <4>1, <4>2, NotAfterReflexive
    <3>3. rStatus = "done" \/ rpc = "finish"
      BY <1>5, <2>4 DEF Receiver, AcceptStream, ReadHeader, BeginReceiving, MakeSaveDir,
         ReadMeta, ReadWrongMeta, ReadSize, ReadWrongSize, CreateFile, CopyNByte, FileReceived,
         ReceiveFails, FinishReceiving, CloseReceiver
    <3> QED
      BY <3>1, <3>2, <3>3
  <2> QED
    BY <2>1, <2>2, <2>3, <2>4
<1>6. CASE Environment \/ UNCHANGED vars
  <2>1. UNCHANGED <<senderVars, receiverVars>>
    BY <1>6, EnvironmentKeeps DEF vars
  <2>2. /\ UNCHANGED <<sStatus, Furthest, rStatus, aligned, ReceiverPlace>>
        /\ Receiving' = Receiving
    BY <2>1, SenderPlaceKept, ReceiverPlaceKept DEF senderVars, receiverVars, Receiving
  <2>3. ASSUME NEW j \in 1 .. Len(wire')
        PROVE  \E i \in 1 .. Len(wire) : wire'[j] = wire[i]
    <3>1. UNCHANGED wire \/ \E k \in 0 .. Len(wire) : wire' = SubSeq(wire, 1, k)
      BY <1>6, EnvironmentKeeps DEF vars, streamVars
    <3> QED
      BY <1>2, <2>3, <3>1
  <2> QED
    BY <1>1, <2>2, <2>3
<1> QED
  BY <1>4, <1>5, <1>6, NextCases

\* As long as the receiver is in step with the frames, ReceivedFiles, which
\* receiveFile counts, is at most one file ahead of SentFiles, which sendFile
\* counts, and each file but one by which it is behind has its FileInfo and its
\* size on the wire.
THEOREM CountersInStep == Spec => []CountersMatchWire
<1>1. Init => ReceiverNotAhead
  BY DEF Init, ReceiverNotAhead
<1>2. TypeOK /\ InOrder /\ ReceiverNotAhead /\ [Next]_vars => ReceiverNotAhead'
  BY CountersKept
<1>3. TypeOK /\ InOrder /\ ReceiverNotAhead => CountersMatchWire
  BY LeadOnWire DEF CountersMatchWire
<1> QED
  BY <1>1, <1>2, <1>3, StaysInOrder, PTL DEF Spec

\* Of a sound request with distinct names, every file receiveFile has counted
\* is on the disk, whole and unmixed, and all of them when it reports done.
THEOREM DeliveryCorrect == Spec => []DeliveryIntegrity
<1>1. Init => CountedStored
  BY DEF Init, CountedStored
<1>2. TypeOK /\ InOrder /\ CountedStored /\ [Next]_vars => CountedStored'
  BY CountedStoredKept
<1>3. InOrder /\ CountedStored => DeliveryIntegrity
  BY DEF InOrder, ReceiverCounts, CountedStored, DeliveryIntegrity, WellFormedRequest,
     SoundRequest, DistinctNames
<1> QED
  BY <1>1, <1>2, <1>3, StaysInOrder, PTL DEF Spec

\* With sound disks SendFails is only reached with a cell of the request left to
\* write, which then is neither on the wire nor behind the receiver, and a transfer
\* the receiver reports done was all written.
THEOREM FailedUnfinished == Spec => []FailedIsUnfinished
<1>1. Init => FailedIsUnfinished
  BY DEF Init, FailedIsUnfinished
<1>2. TypeOK /\ InOrder /\ FailedIsUnfinished /\ [Next]_vars => FailedIsUnfinished'
  BY FailedIsUnfinishedKept
<1> QED
  BY <1>1, <1>2, StaysInOrder, PTL DEF Spec

(***************************************************************************)
(* What an end learns of the other                                         *)
(***************************************************************************)

LEMMA CloseIsToldKept ==
    ASSUME TypeOK, CloseIsTold, [Next]_vars
    PROVE  CloseIsTold'
<1> USE DEF CloseIsTold, TypeOK
<1>1. CASE Sending
  <2> USE DEF streamVars, receiverVars
  <2>1. CASE WriteHeader \/ WriteMeta \/ WriteSize \/ CopyByte
    BY <2>1 DEF WriteHeader, WriteMeta, WriteSize, CopyByte, Write, NextFile
  <2>2. CASE Post \/ BeginSending \/ OpenFile \/ FileSent \/ SendFails \/ FinishSending
    BY <2>2 DEF Post, BeginSending, OpenFile, FileSent, NextFile, SendFails, FinishSending
  <2>3. CASE CloseSender
    BY <2>3 DEF CloseSender
  <2>4. CASE SamplerStops
    BY <2>4 DEF SamplerStops
  <2> QED
    BY <1>1, <2>1, <2>2, <2>3, <2>4 DEF Sending, Sender
<1>2. CASE Receiver
  <2> USE DEF streamVars, senderVars
  <2>1. CASE AcceptStream
    BY <2>1 DEF AcceptStream, CanRead
  <2>2. CASE ReadHeader \/ ReadMeta \/ ReadWrongMeta \/ ReadSize \/ ReadWrongSize \/ CopyNByte
    BY <2>2 DEF ReadHeader, ReadMeta, ReadWrongMeta, ReadSize, ReadWrongSize, CopyNByte, CanRead,
       Consume
  <2>3. CASE BeginReceiving \/ MakeSaveDir \/ CreateFile \/ FileReceived \/ FinishReceiving
    BY <2>3 DEF BeginReceiving, MakeSaveDir, NextReceive, CreateFile, FileReceived,
       FinishReceiving
  <2>4. CASE ReceiveFails
    BY <2>4 DEF ReceiveFails
  <2>5. CASE CloseReceiver
    BY <2>5 DEF CloseReceiver
  <2> QED
    BY <1>2, <2>1, <2>2, <2>3, <2>4, <2>5 DEF Receiver
<1>3. CASE Environment
  <2> USE DEF senderVars, receiverVars
  <2>1. CASE StopArrives
    BY <2>1 DEF StopArrives
  <2>2. ASSUME NEW e \in Ends, LoseConn(e) PROVE CloseIsTold'
    <3>1. UNCHANGED <<spc, rpc, stopped, negotiated>> /\ (wire = <<>> => wire' = <<>>)
      BY <2>2 DEF LoseConn
    <3>2. /\ fin' = fin \/ (fin' = FALSE /\ e = "sender")
          /\ ~up'[e] /\ \A other \in Ends : up'[other] => up[other]
      BY <2>2 DEF LoseConn
    <3> QED
      BY <3>1, <3>2 DEF Ends
  <2> QED
    BY <1>3, <2>1, <2>2 DEF Environment
<1>4. CASE UNCHANGED vars
  BY <1>4 DEF vars, senderVars, streamVars, receiverVars
<1> QED
  BY <1>1, <1>2, <1>3, <1>4, NextCases

\* What the Close of each end leaves behind is what the other end learns of it.
THEOREM ClosesAreTold == Spec => []CloseIsTold
<1>1. Init => CloseIsTold
  BY DEF Init, CloseIsTold
<1>2. TypeOK /\ CloseIsTold /\ [Next]_vars => CloseIsTold'
  BY CloseIsToldKept
<1> QED
  BY <1>1, <1>2, TypeCorrect, PTL DEF Spec

\* Nobody waits for nothing: a Write of the sender that blocks has a receiver
\* that goes on, one whose STOP_SENDING is on its way, or one that is gone; a Read
\* that blocks has a sender that goes on, or one that is gone.
THEOREM BlockedAnswered == Spec => []BlockedIsAnswered
<1>1. TypeOK /\ CloseIsTold => BlockedIsAnswered
  <2> SUFFICES ASSUME TypeOK, CloseIsTold PROVE BlockedIsAnswered
    OBVIOUS
  <2>1. Len(wire) \in Nat /\ Window \in Nat \ {0} /\ (Len(wire) > 0 <=> wire # <<>>)
    BY TransferAssumption DEF TypeOK
  <2>2. ~(SenderBlocked /\ ReceiverBlocked)
    BY <2>1 DEF SenderBlocked, ReceiverBlocked, CanRead, AtEnd
  <2>3. SenderBlocked /\ up["receiver"] /\ rpc \in {"closed", "reset"} => stopped = "sent"
    BY DEF SenderBlocked, WriteFailing, CloseIsTold, TypeOK
  <2>4. ReceiverBlocked /\ up["sender"] => spc \notin {"idle", "closed"}
    BY DEF ReceiverBlocked, CanRead, AtEnd, CloseIsTold
  <2> QED
    BY <2>2, <2>3, <2>4 DEF BlockedIsAnswered
<1> QED
  BY <1>1, ClosesAreTold, TypeCorrect, PTL

(***************************************************************************)
(* No end fails without a cause                                            *)
(***************************************************************************)

\* A receiver that reads is not behind the last cell of a sound request.
LEMMA ReaderNotAtEnd ==
    ASSUME TypeOK, InOrder, SoundRequest,
           rpc \in {"header", "meta", "size"} \/ (rpc = "data" /\ rGot < CopyLimit)
    PROVE  Receiving /\ aligned /\ ReceiverPlace # EndPlace
<1>1. Receiving /\ aligned
  BY DEF Receiving, InOrder, SoundInStep
<1>2. Len(files) \in Nat /\ ReceivedFiles \in Nat /\ ReceiverCounts
  BY RequestTyped DEF TypeOK, InOrder
<1>3. CASE rpc = "header"
  <2>1. ReceiverPlace = HeaderPlace
    BY <1>3 DEF ReceiverPlace
  <2> QED
    BY <1>1, <1>2, <2>1 DEF HeaderPlace, EndPlace, FilePlace
<1>4. CASE rpc = "meta"
  <2>1. ReceiverPlace = FilePlace(ReceivedFiles + 1) /\ ReceivedFiles + 1 \in 1 .. Len(files)
    BY <1>1, <1>2, <1>4, MetaPlace, RequestTyped DEF InOrder, SoundInStep, TypeOK, FileInfo
  <2> QED
    BY <1>1, <1>2, <2>1 DEF EndPlace, FilePlace
<1>5. CASE rpc = "size"
  <2>1. ReceiverPlace = <<ReceivedFiles + 1, 1>>
    BY <1>5 DEF ReceiverPlace
  <2> QED
    BY <1>1, <2>1 DEF EndPlace, FilePlace
<1>6. CASE rpc = "data" /\ rGot < CopyLimit
  <2>1. ReceivedFiles + 1 \in 1 .. Len(files) /\ rSize = files[ReceivedFiles + 1].size
    BY <1>1, <1>6, <1>2, DataPlace DEF InOrder, FileInStep
  <2>2. CopyLimit = files[ReceivedFiles + 1].bytes
    BY <2>1, SoundSize DEF CopyLimit, SoundRequest
  <2>3. ReceiverPlace = <<ReceivedFiles + 1, rGot + 2>>
    BY <1>2, <1>6, <2>2, DataPlace
  <2> QED
    BY <1>1, <2>3, rGot \in Nat DEF EndPlace, FilePlace, TypeOK
<1> QED
  BY <1>3, <1>4, <1>5, <1>6

\* Of a sound request on sound disks, while both ends are up, the receiver only
\* fails after the sender has.
LEMMA ReceiveFailsAfterSender ==
    ASSUME TypeOK, InOrder, CloseIsTold, SoundRequest, ~DiskMayFail, up["sender"], up["receiver"],
           ReceiveFails
    PROVE  sStatus = "failed"
<1> SUFFICES ASSUME sStatus # "failed" PROVE FALSE
  OBVIOUS
<1>1. Receiving /\ aligned /\ ReceiverPlace # EndPlace
  BY ReaderNotAtEnd, RequestTyped DEF ReceiveFails
<1>2. CASE AtEnd
  <2>1. wire = <<>> /\ spc = "closed"
    BY <1>2 DEF AtEnd, CloseIsTold
  <2>2. SenderPlace = EndPlace
    BY <2>1 DEF SenderPlace
  <2> QED
    BY <1>1, <2>1, <2>2 DEF InOrder, ReceiverInStep
<1>3. CASE rpc = "meta" /\ CanRead /\ ~(aligned /\ Head1.kind = "meta")
  <2>1. ReceiverPlace = FilePlace(ReceivedFiles + 1) /\ ReceivedFiles \in Nat
    BY <1>1, <1>3, MetaPlace, RequestTyped DEF InOrder, SoundInStep, TypeOK, FileInfo
  <2>2. IsCell(Head1) /\ Place(Head1) = FilePlace(ReceivedFiles + 1)
    BY <1>1, <1>3, <2>1, HeadInStep DEF InOrder, CanRead
  <2>3. Head1 = Cell("meta", ReceivedFiles + 1, 0)
    BY <2>1, <2>2, CellAt, ReceivedFiles + 1 \in Nat, ReceivedFiles + 1 # 0 DEF FilePlace
  <2> QED
    BY <1>1, <1>3, <2>3 DEF Cell
<1> QED
  BY <1>2, <1>3 DEF ReceiveFails

\* Of a sound request on sound disks the sender does not fail while both ends are
\* up and the receiver has not failed.
LEMMA NoSendFails ==
    ASSUME TypeOK, InOrder, FailedIsUnfinished, CloseIsTold, GoesWell,
           SoundRequest, negotiated, ~DiskMayFail, \A e \in Ends : up[e], SendFails
    PROVE  FALSE
<1>1. spc \in {"header", "meta", "open", "size", "data"} /\ ~NotAfter(EndPlace, SenderPlace)
  BY SendFailsEffect DEF SendFails, InOrder
<1>2. sStatus = "sending" /\ Furthest = SenderPlace
  BY <1>1 DEF Furthest, InOrder, SenderInStep
<1>3. WriteFailing
  <2>1. spc = "open" => sIdx \in 1 .. Len(files)
    BY RequestTyped DEF InOrder, SenderInStep
  <2> QED
    BY <2>1 DEF SendFails, SoundRequest
<1>4. rpc = "closed"
  BY <1>3 DEF WriteFailing, CloseIsTold, Ends
<1>5. rStatus = "done"
  BY <1>4 DEF GoesWell
<1> QED
  BY <1>1, <1>2, <1>5 DEF FailedIsUnfinished

LEMMA GoesWellKept ==
    ASSUME TypeOK, InOrder, FailedIsUnfinished, CloseIsTold, GoesWell, [Next]_vars
    PROVE  GoesWell'
<1>1. SoundRequest' = SoundRequest
  BY FilesKept DEF SoundRequest
<1>2. negotiated' = negotiated
  <2>1. CASE Receiver
    BY <2>1 DEF Receiver, AcceptStream, ReadHeader, BeginReceiving, MakeSaveDir, ReadMeta,
       ReadWrongMeta, ReadSize, ReadWrongSize, CreateFile, CopyNByte, FileReceived, ReceiveFails,
       FinishReceiving, CloseReceiver, Consume, streamVars
  <2> QED
    BY <2>1, NextCases, SendingKeeps, EnvironmentKeeps DEF vars, streamVars
<1>3. \A e \in Ends : up'[e] => up[e]
  <2>1. up \in [Ends -> BOOLEAN]
    BY DEF TypeOK
  <2> QED
    BY <2>1, NextCases, SendingKeeps, ReceiverKeeps, EnvironmentKeeps DEF vars, streamVars, Ends
<1> SUFFICES ASSUME SoundRequest, negotiated, ~DiskMayFail, \A e \in Ends : up[e]
             PROVE  /\ sStatus' # "failed" /\ rStatus' # "failed"
                    /\ rpc' \in {"closing", "closed"} => rStatus' = "done"
  BY <1>1, <1>2, <1>3 DEF GoesWell
<1>4. /\ sStatus # "failed" /\ rStatus # "failed"
      /\ rpc \in {"closing", "closed"} => rStatus = "done"
  BY DEF GoesWell
<1>5. CASE Sending
  <2>1. UNCHANGED <<rpc, rStatus>>
    BY <1>5, SendingKeeps DEF receiverVars
  <2>2. sStatus' # "failed"
    BY <1>4, <1>5, NoSendFails DEF Sending, Sender, Post, SamplerStops, BeginSending, WriteHeader,
       WriteMeta, OpenFile, WriteSize, CopyByte, FileSent, FinishSending, CloseSender
  <2> QED
    BY <1>4, <2>1, <2>2
<1>6. CASE Receiver
  <2>1. sStatus' = sStatus
    BY <1>6, ReceiverKeeps DEF senderVars
  <2>2. ~ReceiveFails
    BY <1>4, ReceiveFailsAfterSender DEF Ends
  <2> QED
    BY <1>4, <1>6, <2>1, <2>2 DEF Receiver, AcceptStream, ReadHeader, BeginReceiving, MakeSaveDir,
       ReadMeta, ReadWrongMeta, ReadSize, ReadWrongSize, CreateFile, CopyNByte, FileReceived,
       FinishReceiving, CloseReceiver, NextReceive
<1>7. CASE Environment \/ UNCHANGED vars
  BY <1>4, <1>7, EnvironmentKeeps DEF vars, senderVars, receiverVars
<1> QED
  BY <1>5, <1>6, <1>7, NextCases

\* Neither end of a sound request reports failed before the connection is lost, on
\* sound disks: each end closes only when it has all its cells written or read.
THEOREM OnlyLossFails == Spec => []FailsOnlyByLoss
<1>1. Init => GoesWell
  BY DEF Init, GoesWell
<1>2. TypeOK /\ InOrder /\ FailedIsUnfinished /\ CloseIsTold /\ GoesWell /\ [Next]_vars
        => GoesWell'
  BY GoesWellKept
<1>3. GoesWell => FailsOnlyByLoss
  BY DEF GoesWell, FailsOnlyByLoss
<1> QED
  BY <1>1, <1>2, <1>3, StaysInOrder, FailedUnfinished, ClosesAreTold, PTL DEF Spec

(***************************************************************************)
(* A transfer implements Delivery                                          *)
(***************************************************************************)

LEMMA SoundIsSound ==
    ASSUME TypeOK
    PROVE  D!Sound <=> SoundRequest
<1>1. ASSUME SoundRequest PROVE D!Sound
  BY <1>1, SoundSize DEF D!Sound, SoundRequest
<1>2. ASSUME D!Sound PROVE SoundRequest
  BY <1>2, RequestTyped DEF D!Sound, SoundRequest, Signed, FileInfo
<1> QED
  BY <1>1, <1>2

LEMMA StoredKept ==
    ASSUME saved' = saved
    PROVE  StoredBytes' = StoredBytes
BY DEF StoredBytes

\* The store holds what was written to a file as soon as it is written.
LEMMA StoredWritten ==
    ASSUME TypeOK, NEW name \in Names, NEW s \in Seq(Cells), saved' = [saved EXCEPT ![name] = s]
    PROVE  StoredBytes' = [StoredBytes EXCEPT ![name] =
                              [k \in DOMAIN s |-> <<s[k].file, s[k].n>>]]
<1> DEFINE Bytes(c) == IF c = NoFile THEN NoFile ELSE [k \in DOMAIN c |-> <<c[k].file, c[k].n>>]
<1>1. saved \in [Names -> {NoFile} \cup Seq(Cells)] /\ s # NoFile
  BY TransferAssumption DEF TypeOK
<1>2. Bytes(s) = [k \in DOMAIN s |-> <<s[k].file, s[k].n>>]
  BY <1>1
<1>3. StoredBytes = [n \in Names |-> Bytes(saved[n])]
  BY DEF StoredBytes
<1>4. StoredBytes' = [n \in Names |-> Bytes(saved'[n])]
  BY DEF StoredBytes
<1> HIDE DEF Bytes
<1>5. ASSUME NEW n \in Names
      PROVE  Bytes(saved'[n]) = IF n = name THEN Bytes(s) ELSE Bytes(saved[n])
  BY <1>1
<1>6. StoredBytes' = [StoredBytes EXCEPT ![name] = Bytes(s)]
  BY <1>3, <1>4, <1>5
<1> QED
  BY <1>2, <1>6

LEMMA BeginningStored ==
    ASSUME NEW name \in Names, NEW i, NEW n \in Nat, saved[name] \in Seq(Cells),
           saved[name] = [k \in 1 .. n |-> Cell("data", i, k)]
    PROVE  StoredBytes[name] = D!Beginning(i, n)
<1>1. saved[name] # NoFile
  BY TransferAssumption
<1>2. StoredBytes[name] = [k \in DOMAIN saved[name] |-> <<saved[name][k].file, saved[name][k].n>>]
  BY <1>1 DEF StoredBytes
<1>3. DOMAIN saved[name] = 1 .. n
  OBVIOUS
<1>4. \A k \in 1 .. n : saved[name][k].file = i /\ saved[name][k].n = k
  BY DEF Cell
<1> QED
  BY <1>2, <1>3, <1>4 DEF D!Beginning

LEMMA SenderRefines ==
    ASSUME TypeOK, InOrder, Sending
    PROVE  [D!Next]_(D!vars)
<1> USE DEF InOrder, SenderInStep
<1>1. UNCHANGED <<files, rStatus, ReceivedFiles, StoredBytes>>
  BY SendingKeeps, StoredKept DEF receiverVars
<1>2. CASE Post \/ BeginSending
  BY <1>1, <1>2 DEF Post, BeginSending, D!Next, D!SenderStarts
<1>3. CASE FileSent
  <2>1. sIdx \in 1 .. Len(files) /\ SentFiles = sIdx - 1 /\ SentFiles' = sIdx
    BY <1>3, RequestTyped DEF FileSent
  <2>2. sStatus = "sending" /\ sStatus' = sStatus
    BY <1>3 DEF FileSent
  <2> QED
    BY <1>1, <2>1, <2>2, RequestTyped DEF D!Next, D!FileLeaves
<1>4. CASE SendFails
  BY <1>1, <1>4 DEF SendFails, D!Next, D!SenderEnds
<1>5. CASE FinishSending
  BY <1>1, <1>5, RequestTyped DEF FinishSending, D!Next, D!SenderEnds
<1>6. CASE WriteHeader \/ WriteMeta \/ OpenFile \/ WriteSize \/ CopyByte \/ CloseSender \/ SamplerStops
  BY <1>1, <1>6 DEF WriteHeader, WriteMeta, OpenFile, WriteSize, CopyByte, CloseSender,
     SamplerStops, D!vars
<1> QED
  BY <1>2, <1>3, <1>4, <1>5, <1>6 DEF Sending, Sender

\* A receiver that waits for a FileInfo has got a header, so the sender has begun.
LEMMA HeaderWasSent ==
    ASSUME TypeOK, InOrder, NotAfter(FilePlace(1), Furthest)
    PROVE  sStatus \notin {"none", "pending"}
<1> SUFFICES ASSUME sStatus \in {"none", "pending"}
             PROVE  FALSE
  OBVIOUS
<1>1. spc \in {"idle", "begin"}
  BY DEF InOrder, SenderInStep, Settled, TypeOK, SenderPoints
<1>2. Furthest = HeaderPlace
  BY <1>1 DEF Furthest, SenderPlace
<1> QED
  BY <1>2 DEF NotAfter, FilePlace, HeaderPlace

LEMMA CreateFileRefines ==
    ASSUME TypeOK, InOrder, CreateFile
    PROVE  D!FileGrows
<1>1. /\ rpc = "create" /\ rStatus = "sending" /\ ReceivedFiles < Len(files) /\ rName \in Names
      /\ saved' = [saved EXCEPT ![rName] = <<>>]
      /\ UNCHANGED <<files, sStatus, rStatus, SentFiles, ReceivedFiles>>
  BY DEF CreateFile, InOrder, ReceiverCounts, FileOpened, senderVars
<1>2. ASSUME D!Sound
      PROVE  /\ ReceivedFiles <= SentFiles /\ rName = files[ReceivedFiles + 1].name
             /\ 0 \in 0 .. files[ReceivedFiles + 1].bytes
  <2>1. aligned
    BY <1>1, <1>2, SoundIsSound DEF InOrder, SoundInStep, Receiving
  <2>2. rName = files[ReceivedFiles + 1].name
    BY <1>1, <2>1 DEF InOrder, FileInStep
  <2>3. files[ReceivedFiles + 1].bytes \in Nat
    BY <1>1, RequestTyped DEF TypeOK, FileInfo
  <2> QED
    BY <1>1, <2>1, <2>2, <2>3, FileBegun
<1>3. StoredBytes' = [StoredBytes EXCEPT ![rName] = D!Beginning(ReceivedFiles + 1, 0)]
  <2>1. <<>> \in Seq(Cells)
    OBVIOUS
  <2> DEFINE s == <<>>
  <2>2. [k \in DOMAIN s |-> <<s[k].file, s[k].n>>] = D!Beginning(ReceivedFiles + 1, 0)
    BY DEF D!Beginning
  <2> QED
    BY <1>1, <2>1, <2>2, StoredWritten
<1>4. ASSUME D!Sound
      PROVE  \E n \in 0 .. files[ReceivedFiles + 1].bytes :
                /\ n > 0 => StoredBytes[files[ReceivedFiles + 1].name] = D!Beginning(ReceivedFiles + 1, n - 1)
                /\ StoredBytes' = [StoredBytes EXCEPT ![files[ReceivedFiles + 1].name] =
                                      D!Beginning(ReceivedFiles + 1, n)]
  <2> DEFINE Grows(n) ==
        /\ n > 0 => StoredBytes[files[ReceivedFiles + 1].name] = D!Beginning(ReceivedFiles + 1, n - 1)
        /\ StoredBytes' = [StoredBytes EXCEPT ![files[ReceivedFiles + 1].name] =
                              D!Beginning(ReceivedFiles + 1, n)]
  <2>1. rName = files[ReceivedFiles + 1].name /\ 0 \in 0 .. files[ReceivedFiles + 1].bytes
    BY <1>2, <1>4
  <2>2. Grows(0)
    BY <1>3, <2>1
  <2> HIDE DEF Grows
  <2>3. \E n \in 0 .. files[ReceivedFiles + 1].bytes : Grows(n)
    BY <2>1, <2>2
  <2> QED
    BY <2>3 DEF Grows
<1> QED
  BY <1>1, <1>2, <1>4 DEF D!FileGrows

LEMMA CopyNByteRefines ==
    ASSUME TypeOK, InOrder, CopyNByte
    PROVE  D!FileGrows
<1>1. /\ rpc = "data" /\ rStatus = "sending" /\ ReceivedFiles < Len(files) /\ rName \in Names
      /\ saved[rName] \in Seq(Cells)
      /\ UNCHANGED <<files, sStatus, rStatus, SentFiles, ReceivedFiles, rName>>
  BY DEF CopyNByte, InOrder, ReceiverCounts, FileOpened, senderVars
<1>2. ASSUME D!Sound
      PROVE  /\ ReceivedFiles <= SentFiles /\ rName = files[ReceivedFiles + 1].name
             /\ rGot + 1 \in 1 .. files[ReceivedFiles + 1].bytes
             /\ StoredBytes[rName] = D!Beginning(ReceivedFiles + 1, rGot)
             /\ StoredBytes' = [StoredBytes EXCEPT ![rName] =
                                    D!Beginning(ReceivedFiles + 1, rGot + 1)]
  <2>1. SoundRequest /\ SoundRequest' /\ Receiving /\ Receiving'
    BY <1>1, <1>2, SoundIsSound DEF Receiving, CopyNByte, SoundRequest
  <2>2. [Next]_vars
    BY DEF Next, Receiver
  <2>3. TypeOK' /\ InOrder'
    BY <2>2, StepInOrder
  <2>4. aligned /\ aligned'
    BY <2>1, <2>3 DEF InOrder, SoundInStep
  <2>5. /\ rName = files[ReceivedFiles + 1].name
        /\ saved[rName] = [k \in 1 .. rGot |-> Cell("data", ReceivedFiles + 1, k)]
    BY <1>1, <2>4 DEF InOrder, FileInStep
  <2>6. rGot < files[ReceivedFiles + 1].bytes /\ rGot \in Nat /\ files[ReceivedFiles + 1].bytes \in Nat
    BY <1>1, <2>4, CopyNByteEffect, DataPlace DEF InOrder
  <2>7. StoredBytes[rName] = D!Beginning(ReceivedFiles + 1, rGot)
    BY <1>1, <2>5, <2>6, BeginningStored
  <2>8. /\ Head1 = Cell("data", ReceivedFiles + 1, rGot + 1) /\ Head1 \in Cells
        /\ saved' = [saved EXCEPT ![rName] = Append(saved[rName], Head1)]
    BY <1>1, <2>4, CopyNByteEffect, HeadTyped DEF InOrder, CopyNByte, CanRead
  <2> DEFINE s == Append(saved[rName], Head1)
  <2>9. s \in Seq(Cells)
    BY <1>1, <2>8
  <2>10. s = [k \in 1 .. rGot + 1 |-> Cell("data", ReceivedFiles + 1, k)]
    BY <2>5, <2>6, <2>8
  <2> HIDE DEF s
  <2>11. [k \in DOMAIN s |-> <<s[k].file, s[k].n>>] = D!Beginning(ReceivedFiles + 1, rGot + 1)
    <3>1. DOMAIN s = 1 .. rGot + 1 /\ \A k \in 1 .. rGot + 1 : s[k].file = ReceivedFiles + 1 /\ s[k].n = k
      BY <2>10 DEF Cell
    <3> QED
      BY <3>1 DEF D!Beginning
  <2>12. StoredBytes' = [StoredBytes EXCEPT ![rName] = D!Beginning(ReceivedFiles + 1, rGot + 1)]
    <3>1. saved' = [saved EXCEPT ![rName] = s]
      BY <2>8 DEF s
    <3> QED
      BY <1>1, <2>9, <2>11, <3>1, StoredWritten
  <2> QED
    BY <1>1, <2>4, <2>5, <2>6, <2>7, <2>12, FileBegun
<1>3. rGot \in Nat /\ (rGot + 1) - 1 = rGot /\ rGot + 1 > 0
  BY DEF TypeOK
<1>4. ASSUME D!Sound
      PROVE  \E n \in 0 .. files[ReceivedFiles + 1].bytes :
                /\ n > 0 => StoredBytes[files[ReceivedFiles + 1].name] = D!Beginning(ReceivedFiles + 1, n - 1)
                /\ StoredBytes' = [StoredBytes EXCEPT ![files[ReceivedFiles + 1].name] =
                                      D!Beginning(ReceivedFiles + 1, n)]
  <2>1. rGot + 1 \in 0 .. files[ReceivedFiles + 1].bytes
    BY <1>2, <1>3, <1>4
  <2> QED
    BY <1>2, <1>3, <1>4, <2>1
<1> QED
  BY <1>1, <1>2, <1>4 DEF D!FileGrows

LEMMA FileReceivedRefines ==
    ASSUME TypeOK, InOrder, FileReceived
    PROVE  D!FileArrives
<1>1. /\ rpc = "data" /\ rStatus = "sending" /\ ReceivedFiles < Len(files) /\ rName \in Names
      /\ saved[rName] \in Seq(Cells) /\ ReceivedFiles' = ReceivedFiles + 1 /\ rGot >= Signed(rSize)
      /\ UNCHANGED <<files, sStatus, rStatus, SentFiles, saved>>
  BY DEF FileReceived, InOrder, ReceiverCounts, FileOpened, senderVars, CopyLimit
<1>2. ASSUME D!Sound
      PROVE  /\ ReceivedFiles <= SentFiles
             /\ StoredBytes[files[ReceivedFiles + 1].name] =
                    D!Beginning(ReceivedFiles + 1, files[ReceivedFiles + 1].bytes)
  <2>1. SoundRequest
    BY <1>2, SoundIsSound
  <2>2. aligned
    BY <1>1, <2>1 DEF InOrder, SoundInStep, Receiving
  <2>3. /\ rName = files[ReceivedFiles + 1].name /\ rSize = files[ReceivedFiles + 1].size
        /\ rGot <= files[ReceivedFiles + 1].bytes
        /\ saved[rName] = [k \in 1 .. rGot |-> Cell("data", ReceivedFiles + 1, k)]
    BY <1>1, <2>2 DEF InOrder, FileInStep
  <2>4. ReceivedFiles + 1 \in 1 .. Len(files) /\ rGot \in Nat
    BY <1>1, DataPlace DEF InOrder
  <2>5. rGot = files[ReceivedFiles + 1].bytes
    BY <1>1, <2>1, <2>3, <2>4, SoundSize
  <2>6. StoredBytes[rName] = D!Beginning(ReceivedFiles + 1, rGot)
    BY <1>1, <2>3, <2>4, BeginningStored
  <2> QED
    BY <1>1, <2>2, <2>3, <2>5, <2>6, FileBegun
<1>3. StoredBytes' = StoredBytes
  BY <1>1, StoredKept
<1> QED
  BY <1>1, <1>2, <1>3 DEF D!FileArrives

LEMMA ReceiverRefines ==
    ASSUME TypeOK, InOrder, Receiver
    PROVE  [D!Next]_(D!vars)
<1>1. UNCHANGED <<files, sStatus, SentFiles>>
  BY ReceiverKeeps DEF senderVars
<1>2. CASE ReadHeader
  <2>1. wire # <<>> /\ rpc = "header" /\ aligned /\ Receiving
    BY <1>2 DEF ReadHeader, CanRead, InOrder, ReceiverCounts, Receiving
  <2>2. 1 \in 1 .. Len(wire) /\ Place(wire[1]) = ReceiverPlace
    BY <2>1, HeadTyped DEF InOrder, ReceiverInStep
  <2>3. NotAfter(FilePlace(1), Furthest)
    <3>1. ReceiverPlace = HeaderPlace
      BY <2>1 DEF ReceiverPlace
    <3>2. After(HeaderPlace) = FilePlace(1)
      BY DEF After, HeaderPlace
    <3> QED
      BY <2>2, <3>1, <3>2 DEF InOrder, WireInOrder
  <2>4. StoredBytes' = StoredBytes
    BY <1>2, StoredKept DEF ReadHeader
  <2> QED
    BY <1>1, <1>2, <2>3, <2>4, HeaderWasSent
    DEF ReadHeader, InOrder, ReceiverCounts, D!Next, D!ReceiverStarts
<1>3. CASE BeginReceiving
  <2>1. rpc = "begin" /\ aligned /\ Receiving
    BY <1>3 DEF BeginReceiving, InOrder, ReceiverCounts, Receiving
  <2>2. NotAfter(FilePlace(1), Furthest)
    BY <2>1 DEF InOrder, ReceiverInStep, ReceiverPlace
  <2>3. StoredBytes' = StoredBytes
    BY <1>3, StoredKept DEF BeginReceiving
  <2> QED
    BY <1>1, <1>3, <2>2, <2>3, HeaderWasSent
    DEF BeginReceiving, InOrder, ReceiverCounts, D!Next, D!ReceiverStarts
<1>4. CASE CreateFile
  BY <1>4, CreateFileRefines DEF D!Next
<1>5. CASE CopyNByte
  BY <1>5, CopyNByteRefines DEF D!Next
<1>6. CASE FileReceived
  BY <1>6, FileReceivedRefines DEF D!Next
<1>7. CASE ReceiveFails
  <2>1. StoredBytes' = StoredBytes /\ ReceivedFiles' = ReceivedFiles
    BY <1>7, StoredKept DEF ReceiveFails
  <2>2. CASE rpc = "header"
    BY <1>1, <1>7, <2>1, <2>2 DEF ReceiveFails, D!vars
  <2>3. CASE rpc # "header"
    <3>1. rStatus = "sending" /\ rStatus' = "failed"
      BY <1>7, <2>3 DEF ReceiveFails, InOrder, ReceiverCounts
    <3> QED
      BY <1>1, <2>1, <3>1 DEF D!Next, D!ReceiverEnds
  <2> QED
    BY <2>2, <2>3
<1>8. CASE FinishReceiving
  <2>1. StoredBytes' = StoredBytes
    BY <1>8, StoredKept DEF FinishReceiving
  <2> QED
    BY <1>1, <1>8, <2>1 DEF FinishReceiving, InOrder, ReceiverCounts, D!Next, D!ReceiverEnds
<1>9. CASE AcceptStream \/ MakeSaveDir \/ ReadMeta \/ ReadWrongMeta \/ ReadSize \/ ReadWrongSize
             \/ CloseReceiver
  <2>1. UNCHANGED <<rStatus, ReceivedFiles, saved>>
    BY <1>9 DEF AcceptStream, MakeSaveDir, ReadMeta, ReadWrongMeta, ReadSize, ReadWrongSize,
       CloseReceiver
  <2> QED
    BY <1>1, <2>1, StoredKept DEF D!vars
<1> QED
  BY <1>2, <1>3, <1>4, <1>5, <1>6, <1>7, <1>8, <1>9 DEF Receiver

\* sendFile and receiveFile, with the frames, the window, the faults and the
\* losses between them, do what Delivery's two ends would do: whatever the
\* constants, every behaviour of a transfer is one of Delivery.
THEOREM TransferImplementsDelivery == Spec => ImplementsDelivery
<1>1. Init => D!Init
  BY DEF Init, D!Init, StoredBytes
<1>2. TypeOK /\ InOrder /\ [Next]_vars => [D!Next]_(D!vars)
  <2> SUFFICES ASSUME TypeOK, InOrder, [Next]_vars PROVE [D!Next]_(D!vars)
    OBVIOUS
  <2>1. CASE Sending
    BY <2>1, SenderRefines
  <2>2. CASE Receiver
    BY <2>2, ReceiverRefines
  <2>3. CASE Environment \/ UNCHANGED vars
    BY <2>3, EnvironmentKeeps, StoredKept DEF vars, senderVars, receiverVars, D!vars
  <2> QED
    BY <2>1, <2>2, <2>3, NextCases
<1> QED
  BY <1>1, <1>2, StaysInOrder, PTL DEF Spec, ImplementsDelivery, D!Spec

\* The theorems about Delivery, read through the mapping of FileTransfer
DP == INSTANCE DeliveryProofs WITH
        SizeLimit <- 2^(SizeBits - 1), Nothing <- NoFile,
        sender <- sStatus, receiver <- rStatus,
        sent <- SentFiles, counted <- ReceivedFiles, store <- StoredBytes

\* What is proved of Delivery alone holds of every transfer, as the two status
\* fields, the two counters and the save directory show it: a transfer needs no
\* more than the refinement to keep the promise.
THEOREM TransferKeepsPromise ==
    Spec => [](DP!CountedIsStored /\ DP!DoneIsEarned) /\ DP!ReportsAreFinal
<1>1. DP!RequestsHaveNames
  <2> SUFFICES ASSUME NEW r \in Requests
               PROVE  Len(r) \in Nat /\ \A i \in 1 .. Len(r) : r[i].name \in Names
    BY DEF DP!RequestsHaveNames
  <2>1. r \in Seq(FileInfo)
    BY TransferAssumption
  <2>2. \A i \in 1 .. Len(r) : r[i] \in FileInfo
    BY <2>1
  <2> QED
    BY <2>1, <2>2 DEF FileInfo
<1>2. DP!Spec => [](DP!CountedIsStored /\ DP!DoneIsEarned)
  BY <1>1, DP!CountingIsEarned
<1>3. DP!Spec => DP!ReportsAreFinal
  BY DP!FinalReports
<1>4. D!Init => DP!Init
  BY DEF D!Init, DP!Init
<1>5. [D!Next]_(D!vars) => [DP!Next]_(DP!vars)
  BY DEF D!Next, D!vars, D!SenderStarts, D!FileLeaves, D!SenderEnds, D!ReceiverStarts,
     D!FileGrows, D!FileArrives, D!ReceiverEnds, D!Sound, D!Beginning,
     DP!Next, DP!vars, DP!SenderStarts, DP!FileLeaves, DP!SenderEnds, DP!ReceiverStarts,
     DP!FileGrows, DP!FileArrives, DP!ReceiverEnds, DP!Sound, DP!Beginning
<1> QED
  BY <1>2, <1>3, <1>4, <1>5, TransferImplementsDelivery, PTL
  DEF ImplementsDelivery, D!Spec, DP!Spec
=============================================================================
