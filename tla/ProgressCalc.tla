---------------------------- MODULE ProgressCalc ----------------------------
(***************************************************************************)
(* The arithmetic of a "progress" event: how buildProgressPayload divides  *)
(* the one byte counter of a transfer's stream among the transfer's files, *)
(* and what it makes of the totals. One behaviour is one call, one step an *)
(* iteration of one of its two loops or what follows them. (The handler of *)
(* GET /transfer/progress repeats the same code.)                          *)
(*                                                                         *)
(* The counter also counts the frames around the contents: one header, and *)
(* for each file its FileInfo and its size. Percentages and speeds are     *)
(* computed as float64s: each is one of the numbers that Float64 allows,   *)
(* a percentage kept as its whole part.                                    *)
(***************************************************************************)
EXTENDS Float64, Sequences

CONSTANTS
    Width,       \* bits of an int64: 64 in the code
    Requests,    \* the Size fields of the files, unsigned
    ByteCounts,  \* what the stream's counter may read
    Speeds,      \* what CurrentSpeed and AverageSpeed may return
    HeaderLength, FrameLength,  \* bytes of the header and of a file's two frames
    NoEta

Half == 2^(Width - 1)

ASSUME CalcAssumption ==
    /\ Width \in Nat \ {0}
    /\ Requests \subseteq Seq(0 .. 2 * Half - 1)
    /\ ByteCounts \subseteq 0 .. Half - 1 /\ Speeds \subseteq 0 .. Half - 1
    /\ HeaderLength \in Nat /\ FrameLength \in Nat

VARIABLES
    sizes,        \* files[i].Size
    totalBytes,   \* Stream.BytesSent() or BytesReceived()
    currentSpeed, avgSpeed,
    pc, k,        \* the loop, and the files it is done with
    totalSize, bytesRemaining, totalTransferred,
    fileItems,    \* what is reported of each file
    totalProgress, eta

inputs == <<sizes, totalBytes, currentSpeed, avgSpeed>>
vars == <<inputs, pc, k, totalSize, bytesRemaining, totalTransferred, fileItems,
          totalProgress, eta>>

\* int64 arithmetic, and the conversion int64(uint64)
Int64(n) == ((n + Half) % (2 * Half)) - Half
Int64s == -Half .. Half - 1

\* int64(float64): of a number that does not fit, Go leaves the result to the
\* processor: the least int64 (amd64) or the nearest one (arm64)
Int64OfFloat(n) ==
    IF n \in Int64s THEN {n} ELSE IF n > 0 THEN {-Half, Half - 1} ELSE {-Half}

\* Mutant: not cut at 100.
Percents_NoLimit(part, whole) == IF whole <= 0 THEN {0} ELSE Truncated(100 * part, whole)

\* part / whole * 100, cut at 100, and 0 of nothing
Percents(part, whole) ==
    IF whole <= 0 THEN {0}
    ELSE IF part >= whole THEN {100}
    ELSE {IF percent > 100 THEN 100 ELSE percent : percent \in Truncated(100 * part, whole)}
-----------------------------------------------------------------------------
Init ==
    /\ sizes \in Requests /\ totalBytes \in ByteCounts
    /\ currentSpeed \in Speeds /\ avgSpeed \in Speeds
    /\ pc = "sizes" /\ k = 0
    /\ totalSize = 0 /\ bytesRemaining = totalBytes /\ totalTransferred = 0
    /\ fileItems = <<>>
    /\ totalProgress = 0 /\ eta = NoEta

\* totalSize += int64(f.Size)
AddSize ==
    /\ pc = "sizes" /\ k < Len(sizes)
    /\ totalSize' = Int64(totalSize + Int64(sizes[k + 1]))
    /\ k' = k + 1
    /\ UNCHANGED <<inputs, pc, bytesRemaining, totalTransferred, fileItems, totalProgress, eta>>

\* Mutant: the loop leaves out the last file.
SizesDone_Early ==
    /\ pc = "sizes" /\ k >= Len(sizes) - 1
    /\ pc' = "files" /\ k' = 0
    /\ UNCHANGED <<inputs, totalSize, bytesRemaining, totalTransferred, fileItems,
                   totalProgress, eta>>

SizesDone ==
    /\ pc = "sizes" /\ k = Len(sizes)
    /\ pc' = "files" /\ k' = 0
    /\ UNCHANGED <<inputs, totalSize, bytesRemaining, totalTransferred, fileItems,
                   totalProgress, eta>>

\* Mutant: a completed file takes nothing off the rest.
Left_NotTaken(size) == IF bytesRemaining >= size THEN bytesRemaining ELSE 0

\* Mutant: the bytes are divided among the files in proportion to their sizes.
Transferred_Prorated(size) ==
    IF totalSize > 0 THEN (totalBytes * size) \div totalSize ELSE 0

\* What the next file gets of the bytes not yet given to a file, and what is left
Transferred(size) == IF bytesRemaining >= size THEN size ELSE bytesRemaining
Left(size) == IF bytesRemaining >= size THEN Int64(bytesRemaining - size) ELSE 0

\* Mutant: every file is reported with the whole speed.
FileSpeeds_Undivided(size) == IF totalSize > 0 THEN {currentSpeed} ELSE {0}

\* The current speed in proportion to the file's size
FileSpeeds(size) ==
    IF totalSize > 0
    THEN UNION {Int64OfFloat(n) : n \in Truncated(currentSpeed * size, totalSize)} ELSE {0}

AddFile ==
    /\ pc = "files" /\ k < Len(sizes)
    /\ LET size == Int64(sizes[k + 1]) IN
        /\ bytesRemaining' = Left(size)
        /\ totalTransferred' = Int64(totalTransferred + Transferred(size))
        /\ \E progress \in Percents(Transferred(size), size), speed \in FileSpeeds(size) :
              fileItems' = Append(fileItems,
                  [size |-> size, transferred |-> Transferred(size),
                   progress |-> progress, speed |-> speed])
    /\ k' = k + 1
    /\ UNCHANGED <<inputs, pc, totalSize, totalProgress, eta>>

Totals ==
    /\ pc = "files" /\ k = Len(sizes)
    /\ totalProgress' \in Percents(totalTransferred, totalSize)
    /\ LET remaining == Int64(totalSize - totalTransferred) IN
        eta' = IF avgSpeed > 0 /\ remaining > 0 THEN remaining \div avgSpeed ELSE NoEta
    /\ pc' = "done"
    /\ UNCHANGED <<inputs, k, totalSize, bytesRemaining, totalTransferred, fileItems>>

Next == AddSize \/ SizesDone \/ AddFile \/ Totals

Spec == Init /\ [][Next]_vars
-----------------------------------------------------------------------------
Percentages == {n \in Int : n <= 100}
FileItems == [size : Int64s, transferred : Int64s, progress : Percentages, speed : Int64s]

TypeOK ==
    /\ sizes \in Requests /\ totalBytes \in ByteCounts
    /\ currentSpeed \in Speeds /\ avgSpeed \in Speeds
    /\ pc \in {"sizes", "files", "done"} /\ k \in 0 .. Len(sizes)
    /\ totalSize \in Int64s /\ bytesRemaining \in Int64s /\ totalTransferred \in Int64s
    /\ fileItems \in Seq(FileItems)
    /\ totalProgress \in Percentages
    /\ eta = NoEta \/ eta \in Nat

\* No byte is given to two files and none vanishes: what the files so far got
\* and what is left make the counter, for sizes of any sign and sums that wrap.
BytesConserved ==
    Int64(totalTransferred + bytesRemaining) = totalBytes

\* The sum of s[1] to s[n]
SumOfFirst(s, n) == LET sum[i \in 0 .. n] == IF i = 0 THEN 0 ELSE sum[i - 1] + s[i] IN sum[n]

\* The sizes of the first n files, and the speeds reported of them
SizeOfFirst(n) == SumOfFirst(sizes, n)
SpeedOfFirst(n) == SumOfFirst([i \in 1 .. Len(fileItems) |-> fileItems[i].speed], n)

\* Every size and their sum fit an int64.
SizesFit == SizeOfFirst(Len(sizes)) < Half

Clamp(low, n, high) == IF n < low THEN low ELSE IF n > high THEN high ELSE n

\* The bytes of the contents of file i among the first totalBytes of the stream
ContentSent(i) ==
    Clamp(0, totalBytes - HeaderLength - i * FrameLength - SizeOfFirst(i - 1), sizes[i])

\* A file is never reported with fewer bytes than it has sent, and a file gets
\* bytes only when the files before it are reported complete.
NeverUnderreported ==
    SizesFit => \A i \in 1 .. Len(fileItems) :
        /\ ContentSent(i) <= fileItems[i].transferred
        /\ fileItems[i].transferred > 0 =>
              \A j \in 1 .. i - 1 : fileItems[j].transferred = sizes[j]

\* No file is reported ahead of the stream by more than the frames sent so far:
\* the counter takes them for contents.
OverreportIsFraming ==
    SizesFit => \A i \in 1 .. Len(fileItems) :
        fileItems[i].transferred <= ContentSent(i) + HeaderLength + i * FrameLength

\* The percentages of one event agree: they are percentages, and the whole is at
\* 100 only if every file that is not empty is. (Above a total of Accuracy, 2^50
\* bytes, a float64 may not tell the last of them from all.)
TotalAgreesWithFiles ==
    SizesFit /\ pc = "done" =>
        /\ totalProgress \in 0 .. 100
        /\ totalProgress = 100 /\ totalSize <= Accuracy =>
            \A i \in 1 .. Len(fileItems) : sizes[i] > 0 => fileItems[i].progress = 100

\* Where the loops are and what they have: of sizes that fit, every file has got
\* what the counter leaves it after the files before it, and its percentage and
\* the whole one are of what was got.
FilesFilledInOrder ==
    SizesFit =>
        /\ totalSize = SizeOfFirst(IF pc = "sizes" THEN k ELSE Len(sizes))
        /\ Len(fileItems) = IF pc = "sizes" THEN 0 ELSE k
        /\ LET given == SizeOfFirst(Len(fileItems)) IN
            totalTransferred = IF given < totalBytes THEN given ELSE totalBytes
        /\ bytesRemaining = totalBytes - totalTransferred
        /\ \A i \in 1 .. Len(fileItems) :
            /\ fileItems[i].transferred = Clamp(0, totalBytes - SizeOfFirst(i - 1), sizes[i])
            /\ fileItems[i].progress \in Percents(fileItems[i].transferred, sizes[i])
        /\ pc = "done" =>
              k = Len(sizes) /\ totalProgress \in Percents(totalTransferred, totalSize)

\* The files' speeds, each rounded as a float64 is, do not add up to more than the
\* transfer's, up to one part in Accuracy, which is nothing below 2^50 bytes a second.
SpeedsAddUp ==
    SizesFit => SpeedOfFirst(Len(fileItems)) <= currentSpeed + currentSpeed \div Accuracy
=============================================================================
