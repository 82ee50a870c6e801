----------------------------- MODULE SpeedMeter -----------------------------
(***************************************************************************)
(* How fast a transfer is: the byte counter of its CountingStream, which   *)
(* the sending goroutine adds to, and the sampler goroutine that turns the *)
(* counter into the ring of speeds that CurrentSpeed and AverageSpeed read.*)
(*                                                                         *)
(* The clock ticks in units, Period of them to a second. A ticker's channel*)
(* holds one tick; those that find it full are lost. Everything the sampler*)
(* does between two ticks may be delayed and is interleaved with the clock *)
(* and the writer: the clock and the counter are read at different times.  *)
(* Of times only differences are kept: lastAge is time.Now() less          *)
(* LastSnapshot.Timestamp, which Sub saturates while no snapshot was taken.*)
(***************************************************************************)
EXTENDS Float64, SequencesExt

CONSTANTS
    HistorySize, \* speedHistorySize: 10 in the code
    Period,      \* clock units in a second
    Forever,     \* seconds since the zero time, which Sub saturates at, in units
    MaxBytes,    \* bound: bytes of the transfer
    MaxAge       \* bound: units the sampler may take between two clock readings

ASSUME MeterAssumption ==
    /\ {HistorySize, Period, Forever, MaxAge} \subseteq Nat \ {0}
    /\ MaxBytes \in Nat
    /\ MaxAge < Forever

VARIABLES
    bytesSent,    \* CountingStream.bytesSent
    sending,      \* is the sending goroutine running, stopSampler open?
    phase,        \* clock units since the ticker last fired
    tick,         \* is there a tick in ticker.C?
    pc,           \* control point of the sampler
    readAge,      \* time since its local now was read
    elapsed,      \* its local of that name
    currentBytes, \* its local of that name
    SpeedHistory,
    lastBytes,    \* LastSnapshot.Bytes
    lastAge       \* age of LastSnapshot.Timestamp

clockVars == <<phase, tick>>
localVars == <<readAge, elapsed, currentBytes>>
snapshotVars == <<lastBytes, lastAge>>
vars == <<bytesSent, sending, clockVars, pc, localVars, SpeedHistory, snapshotVars>>
-----------------------------------------------------------------------------
Init ==
    /\ bytesSent = 0 /\ sending = TRUE
    /\ phase = 0 /\ tick = FALSE
    /\ pc = "waiting" /\ readAge = 0 /\ elapsed = 0 /\ currentBytes = 0
    /\ SpeedHistory = <<>>
    /\ lastBytes = 0 /\ lastAge = Forever

(***************************************************************************)
(* The sending goroutine and the clock                                     *)
(***************************************************************************)

\* CountingStream.Write: n bytes are on the stream, add them to the counter
Write(n) ==
    /\ sending
    /\ bytesSent + n <= MaxBytes
    /\ bytesSent' = bytesSent + n
    /\ UNCHANGED <<sending, clockVars, pc, localVars, SpeedHistory, snapshotVars>>

\* The deferred close(stopSampler)
TransferEnds ==
    /\ sending
    /\ sending' = FALSE
    /\ UNCHANGED <<bytesSent, clockVars, pc, localVars, SpeedHistory, snapshotVars>>

Older(age) == IF age = Forever THEN Forever ELSE age + 1

\* Time passes, while the sampler is not later than the bound allows.
Clock ==
    /\ pc # "ended"
    /\ lastAge < MaxAge \/ lastAge = Forever
    /\ readAge < MaxAge
    /\ phase' = (phase + 1) % Period
    /\ tick' = (tick \/ phase' = 0)
    /\ lastAge' = Older(lastAge)
    /\ readAge' = IF pc \in {"waiting", "clock"} THEN 0 ELSE readAge + 1
    /\ UNCHANGED <<bytesSent, sending, pc, elapsed, currentBytes, SpeedHistory, lastBytes>>

(***************************************************************************)
(* The sampler                                                             *)
(***************************************************************************)

\* <-ticker.C, and the record of the transfer, which is always found
TakeTick ==
    /\ pc = "waiting" /\ tick
    /\ tick' = FALSE
    /\ pc' = "clock"
    /\ UNCHANGED <<bytesSent, sending, phase, localVars, SpeedHistory, snapshotVars>>

\* Mutant: stopSampler is not among the cases of the select.
StopSeen_Ignored == FALSE /\ UNCHANGED vars

\* <-stopSampler. When a tick is there too, select picks either.
StopSeen ==
    /\ pc = "waiting" /\ ~sending
    /\ pc' = "ended"
    /\ UNCHANGED <<bytesSent, sending, clockVars, localVars, SpeedHistory, snapshotVars>>

\* now := time.Now(), from which elapsed will be computed
ReadClock ==
    /\ pc = "clock"
    /\ elapsed' = lastAge
    /\ readAge' = 0
    /\ pc' = "bytes"
    /\ UNCHANGED <<bytesSent, sending, clockVars, currentBytes, SpeedHistory, snapshotVars>>

\* Mutant: nor if no byte has been sent.
ReadBytes_SkipsIdle ==
    /\ pc = "bytes"
    /\ currentBytes' = bytesSent
    /\ pc' = IF elapsed <= 0 \/ bytesSent = lastBytes THEN "waiting" ELSE "append"
    /\ UNCHANGED <<bytesSent, sending, clockVars, readAge, elapsed, SpeedHistory, snapshotVars>>

\* currentBytes := BytesSent(), and no sample if no time has passed
ReadBytes ==
    /\ pc = "bytes"
    /\ currentBytes' = bytesSent
    /\ pc' = IF elapsed <= 0 THEN "waiting" ELSE "append"
    /\ UNCHANGED <<bytesSent, sending, clockVars, readAge, elapsed, SpeedHistory, snapshotVars>>

\* Bytes per second, computed in float64 and cut off to an integer
SampleSpeeds == Truncated((currentBytes - lastBytes) * Period, elapsed)

\* Mutant: the ring is never cut.
AppendSample_Grows ==
    /\ pc = "append"
    /\ \E speed \in SampleSpeeds : SpeedHistory' = Append(SpeedHistory, speed)
    /\ pc' = "snapshot"
    /\ UNCHANGED <<bytesSent, sending, clockVars, localVars, snapshotVars>>

\* Under SpeedMu: append, and drop the oldest of too many
AppendSample ==
    /\ pc = "append"
    /\ \E speed \in SampleSpeeds :
        LET longer == Append(SpeedHistory, speed) IN
            SpeedHistory' = IF Len(longer) > HistorySize THEN Tail(longer) ELSE longer
    /\ pc' = "snapshot"
    /\ UNCHANGED <<bytesSent, sending, clockVars, localVars, snapshotVars>>

\* Mutant: the counter is read again for the snapshot.
TakeSnapshot_ReadsAgain ==
    /\ pc = "snapshot"
    /\ lastBytes' = bytesSent /\ lastAge' = readAge
    /\ pc' = "waiting"
    /\ readAge' = 0 /\ elapsed' = 0 /\ currentBytes' = 0
    /\ UNCHANGED <<bytesSent, sending, clockVars, SpeedHistory>>

\* LastSnapshot = {currentBytes, now}
TakeSnapshot ==
    /\ pc = "snapshot"
    /\ lastBytes' = currentBytes /\ lastAge' = readAge
    /\ pc' = "waiting"
    /\ readAge' = 0 /\ elapsed' = 0 /\ currentBytes' = 0
    /\ UNCHANGED <<bytesSent, sending, clockVars, SpeedHistory>>

(***************************************************************************)
(* What the readers are told, under SpeedMu                                *)
(***************************************************************************)

CurrentSpeed == IF SpeedHistory = <<>> THEN 0 ELSE Last(SpeedHistory)

AverageSpeed ==
    IF SpeedHistory = <<>> THEN 0
    ELSE FoldSeq(+, 0, SpeedHistory) \div Len(SpeedHistory)
-----------------------------------------------------------------------------
Sampler ==
    TakeTick \/ StopSeen \/ ReadClock \/ ReadBytes \/ AppendSample \/ TakeSnapshot

Next ==
    \/ \E n \in 1 .. MaxBytes : Write(n)
    \/ TransferEnds
    \/ Clock
    \/ Sampler

\* Time passes and the sampler, which never blocks outside its select, is
\* scheduled. There stopSampler is ready for good once closed, and select picks
\* among ready cases at random: it cannot miss it for ever. No byte has to be
\* sent and no transfer to end.
Fairness == WF_vars(Clock) /\ WF_vars(Sampler) /\ SF_vars(StopSeen)

Spec == Init /\ [][Next]_vars
FairSpec == Spec /\ Fairness
-----------------------------------------------------------------------------
TypeOK ==
    /\ bytesSent \in 0 .. MaxBytes /\ sending \in BOOLEAN
    /\ phase \in 0 .. Period - 1 /\ tick \in BOOLEAN
    /\ pc \in {"waiting", "clock", "bytes", "append", "snapshot", "ended"}
    /\ readAge \in 0 .. MaxAge
    /\ elapsed \in 0 .. MaxAge \cup {Forever}
    /\ currentBytes \in 0 .. MaxBytes
    /\ SpeedHistory \in Seq(Nat) /\ Len(SpeedHistory) <= HistorySize
    /\ lastBytes \in 0 .. MaxBytes
    /\ lastAge \in 0 .. MaxAge \cup {Forever}

\* A transfer that stalls without ending is shown to stand still: both speeds
\* reach zero and stay there, though the last busy seconds are in the ring and
\* ticks may be late, lost, or too close together for a sample.
StallShows ==
    \A n \in 0 .. MaxBytes :
        <>[](bytesSent = n /\ sending) => <>[](CurrentSpeed = 0 /\ AverageSpeed = 0)

\* The sampler ends when the transfer does, wherever it is and however many
\* ticks compete with the stop.
SamplerEnds == ~sending ~> pc = "ended"
=============================================================================
