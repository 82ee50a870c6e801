-------------------------- MODULE SpeedMeterProofs --------------------------
(***************************************************************************)
(* Proofs that the speeds explain the bytes, and that a stall shows in time*)
(* for any ring, clock, transfer and delay.                                *)
(***************************************************************************)
EXTENDS MCSpeedMeter, SequenceTheorems, TLAPS

\* Where the sampler is in the middle of a sample, some time has passed since
\* the snapshot and the counter it holds is between the snapshot's and the
\* transfer's; before the snapshot is taken the sample is in the ring.
SampleKnown ==
    /\ lastBytes <= bytesSent
    /\ pc \in {"append", "snapshot"} =>
        /\ elapsed > 0
        /\ lastBytes <= currentBytes /\ currentBytes <= bytesSent
    /\ pc = "snapshot" =>
        /\ Len(SpeedHistory) > 0
        /\ SpeedHistory[Len(SpeedHistory)] \in SampleSpeeds

\* A quotient is short of the fraction by less than the divisor.
LEMMA QuotientBounds ==
    ASSUME NEW x \in Nat, NEW e \in Nat \ {0}
    PROVE  /\ x \div e \in Nat
           /\ e * (x \div e) <= x
           /\ x < e * (x \div e) + e
OBVIOUS

\* What a float64 makes of a fraction is a natural number, which times the
\* divisor is the dividend up to one part in Accuracy and what is cut off.
LEMMA WholePartsBounds ==
    ASSUME NEW x \in Nat, NEW e \in Nat \ {0}, NEW q \in WholeParts(x, e)
    PROVE  /\ q \in Nat
           /\ Accuracy * (q * e) <= (Accuracy + 1) * x
           /\ (Accuracy - 1) * x < Accuracy * (q * e) + Accuracy * e
<1> DEFINE d == Accuracy * e
           low == (Accuracy - 1) * x
           high == (Accuracy + 1) * x
<1>1. Accuracy \in Nat \ {0}
  BY AccuracyAssumption
<1>2. d \in Nat \ {0} /\ low \in Nat /\ high \in Nat
  BY <1>1
<1>3. q \in low \div d .. high \div d
  BY DEF WholeParts
<1>4. q \in Int => d * q = Accuracy * (q * e)
  BY <1>1
<1> HIDE DEF d, low, high
<1>5. /\ low \div d \in Nat /\ low < d * (low \div d) + d
      /\ high \div d \in Nat /\ d * (high \div d) <= high
  BY <1>2, QuotientBounds
<1>6. q \in Nat /\ low \div d <= q /\ q <= high \div d
  BY <1>3, <1>5
<1>7. d * (low \div d) <= d * q /\ d * q <= d * (high \div d)
  <2> DEFINE a == low \div d
             b == high \div d
  <2>1. a \in Nat /\ b \in Nat /\ a <= q /\ q <= b
    BY <1>5, <1>6
  <2> HIDE DEF a, b
  <2>2. d * a <= d * q /\ d * q <= d * b
    BY <1>2, <1>6, <2>1
  <2> QED
    BY <2>2 DEF a, b
<1>8. d * q <= high /\ low < d * q + d
  <2> DEFINE a == d * (low \div d)
             b == d * (high \div d)
  <2>1. a \in Int /\ b \in Int /\ d * q \in Int
    <3>1. low \div d \in Int /\ high \div d \in Int /\ d \in Int /\ q \in Int
      BY <1>2, <1>5, <1>6
    <3> QED
      BY <3>1
  <2>2. low < a + d /\ b <= high /\ a <= d * q /\ d * q <= b
    BY <1>5, <1>7
  <2> HIDE DEF a, b
  <2> QED
    BY <1>2, <2>1, <2>2
<1> QED
  BY <1>4, <1>6, <1>8 DEF d, low, high

\* A speed is a natural number, and over its time it explains the bytes of its
\* sample, up to one part in Accuracy and the fraction it is cut by; no bytes, no
\* speed.
LEMMA SpeedExplainsSample ==
    ASSUME TypeOK, SampleKnown, pc \in {"append", "snapshot"}, NEW speed \in SampleSpeeds
    PROVE  LET units == (currentBytes - lastBytes) * Period IN
           /\ speed \in Nat
           /\ Accuracy * (speed * elapsed) <= (Accuracy + 1) * units
           /\ (Accuracy - 1) * units < Accuracy * (speed * elapsed) + Accuracy * elapsed
           /\ currentBytes = lastBytes => speed = 0
<1> DEFINE units == (currentBytes - lastBytes) * Period
<1>1. currentBytes - lastBytes \in Nat /\ Period \in Nat
  BY MeterAssumption DEF TypeOK, SampleKnown
<1>2. units \in Nat
  BY <1>1
<1>3. elapsed \in Nat \ {0} /\ Accuracy \in Nat \ {0}
  BY MeterAssumption, AccuracyAssumption DEF TypeOK, SampleKnown
<1>4. currentBytes = lastBytes => units = 0
  <2>1. currentBytes \in Nat /\ lastBytes \in Nat
    BY MeterAssumption DEF TypeOK
  <2> QED
    BY <1>1, <2>1
<1>5. speed \in Truncated(units, elapsed)
  BY DEF SampleSpeeds
<1> HIDE DEF units
<1>6. speed \in WholeParts(units, elapsed)
  BY <1>2, <1>5 DEF Truncated
<1>7. /\ speed \in Nat
      /\ Accuracy * (speed * elapsed) <= (Accuracy + 1) * units
      /\ (Accuracy - 1) * units < Accuracy * (speed * elapsed) + Accuracy * elapsed
  BY <1>2, <1>3, <1>6, WholePartsBounds
<1>8. units = 0 => speed = 0
  <2> SUFFICES ASSUME units = 0, speed # 0
               PROVE  FALSE
    OBVIOUS
  <2>1. speed * elapsed \in Nat \ {0}
    BY <1>3, <1>7
  <2>2. Accuracy * (speed * elapsed) > 0
    BY <1>3, <2>1
  <2>3. (Accuracy + 1) * units = 0
    BY <1>3
  <2> QED
    BY <1>3, <1>7, <2>2, <2>3
<1> QED
  BY <1>4, <1>7, <1>8 DEF units

\* What is appended to the ring is its last, and the ring has no more than n.
LEMMA RingAppend ==
    ASSUME NEW ring \in Seq(Nat), NEW s \in Nat, NEW n \in Nat \ {0}, Len(ring) <= n
    PROVE  LET longer == Append(ring, s)
               cut == IF Len(longer) > n THEN Tail(longer) ELSE longer
           IN  /\ cut \in Seq(Nat)
               /\ Len(cut) \in 1 .. n
               /\ cut[Len(cut)] = s
<1> DEFINE longer == Append(ring, s)
<1>1. /\ longer \in Seq(Nat) /\ Len(longer) = Len(ring) + 1 /\ Len(ring) \in Nat
      /\ longer[Len(longer)] = s
  OBVIOUS
<1> HIDE DEF longer
<1>2. CASE Len(longer) > n
  <2>1. Tail(longer) \in Seq(Nat) /\ Len(Tail(longer)) = Len(longer) - 1
    BY <1>1, <1>2
  <2>2. Tail(longer)[Len(longer) - 1] = longer[Len(longer)]
    BY <1>1, <1>2, <2>1
  <2> QED
    BY <1>1, <1>2, <2>1, <2>2 DEF longer
<1>3. CASE ~(Len(longer) > n)
  BY <1>1, <1>3 DEF longer
<1> QED
  BY <1>2, <1>3

LEMMA MeterTypeStep ==
    TypeOK /\ SampleKnown /\ [Next]_vars => TypeOK' /\ SampleKnown'
<1> SUFFICES ASSUME TypeOK, SampleKnown, [Next]_vars PROVE TypeOK' /\ SampleKnown'
  OBVIOUS
<1> USE MeterAssumption
    DEF TypeOK, SampleKnown, clockVars, localVars, snapshotVars
<1>1. ASSUME NEW n \in 1 .. MaxBytes, Write(n) PROVE TypeOK' /\ SampleKnown'
  BY <1>1 DEF Write, SampleSpeeds
<1>2. CASE TransferEnds
  BY <1>2 DEF TransferEnds, SampleSpeeds
<1>3. CASE Clock
  <2>1. TypeOK'
    <3>1. phase' \in 0 .. Period - 1
      BY <1>3 DEF Clock
    <3>2. lastAge' \in 0 .. MaxAge \cup {Forever} /\ readAge' \in 0 .. MaxAge
      BY <1>3 DEF Clock, Older
    <3> QED
      BY <1>3, <3>1, <3>2 DEF Clock
  <2>2. SampleKnown'
    BY <1>3 DEF Clock, SampleSpeeds
  <2> QED
    BY <2>1, <2>2
<1>4. CASE TakeTick
  BY <1>4 DEF TakeTick
<1>5. CASE StopSeen
  BY <1>5 DEF StopSeen
<1>6. CASE ReadClock
  BY <1>6 DEF ReadClock
<1>7. CASE ReadBytes
  BY <1>7 DEF ReadBytes
<1>8. CASE AppendSample
  <2>1. PICK speed \in SampleSpeeds :
          LET longer == Append(SpeedHistory, speed) IN
          SpeedHistory' = IF Len(longer) > HistorySize THEN Tail(longer) ELSE longer
    BY <1>8 DEF AppendSample
  <2>2. speed \in Nat
    <3> HIDE DEF TypeOK, SampleKnown
    <3> QED
      BY <1>8, SpeedExplainsSample DEF AppendSample
  <2>6. /\ SpeedHistory' \in Seq(Nat)
        /\ Len(SpeedHistory') \in 1 .. HistorySize
        /\ SpeedHistory'[Len(SpeedHistory')] = speed
    <3> HIDE DEF SampleKnown
    <3> QED
      BY <2>1, <2>2, RingAppend
  <2>7. SampleSpeeds' = SampleSpeeds
    BY <1>8 DEF AppendSample, SampleSpeeds
  <2> QED
    BY <1>8, <2>1, <2>6, <2>7 DEF AppendSample
<1>9. CASE TakeSnapshot
  BY <1>9 DEF TakeSnapshot
<1>10. CASE UNCHANGED vars
  BY <1>10 DEF vars, SampleSpeeds
<1> QED
  BY <1>1, <1>2, <1>3, <1>4, <1>5, <1>6, <1>7, <1>8, <1>9, <1>10 DEF Next, Sampler

\* Every variable keeps its type, and the locals of a sample are as above.
THEOREM MeterTypeCorrect == Spec => [](TypeOK /\ SampleKnown)
<1>1. Init => TypeOK /\ SampleKnown
  <2> SUFFICES ASSUME Init PROVE TypeOK /\ SampleKnown
    OBVIOUS
  <2>1. Period \in Nat \ {0} /\ MaxBytes \in Nat /\ MaxAge \in Nat /\ HistorySize \in Nat
    BY MeterAssumption
  <2>2. /\ bytesSent \in 0 .. MaxBytes /\ currentBytes \in 0 .. MaxBytes
        /\ lastBytes \in 0 .. MaxBytes
        /\ phase \in 0 .. Period - 1 /\ readAge \in 0 .. MaxAge
        /\ elapsed \in 0 .. MaxAge \cup {Forever}
    BY <2>1 DEF Init
  <2>3. lastAge \in 0 .. MaxAge \cup {Forever}
    BY DEF Init
  <2>4. SpeedHistory \in Seq(Nat) /\ Len(SpeedHistory) <= HistorySize
    BY <2>1 DEF Init
  <2>5. TypeOK
    BY <2>2, <2>3, <2>4 DEF Init, TypeOK
  <2>6. SampleKnown
    BY DEF Init, SampleKnown
  <2> QED
    BY <2>5, <2>6
<1> QED
  BY <1>1, MeterTypeStep, PTL DEF Spec

-----------------------------------------------------------------------------
\* The bytes sent between the first snapshot and the last, over the clock's unit.
UnitsSent == (lastBytes - before) * Period

\* Nothing is booked before the first snapshot; after it the area explains all
\* but the fractions, wherever the sampler is.
AreaKnown ==
    /\ area \in Nat /\ busy \in Nat /\ before \in Nat
    /\ lastAge = Forever => area = 0 /\ busy = 0
    /\ lastAge # Forever => /\ Accuracy * area <= (Accuracy + 1) * UnitsSent
                           /\ (Accuracy - 1) * UnitsSent <= Accuracy * (area + busy)

LEMMA MeterHistoryOnly == HSpec => Spec
<1>1. HInit => Init
  BY DEF HInit
<1>2. [HNext]_hvars => [Next]_vars
  BY DEF HNext, hvars
<1> QED
  BY <1>1, <1>2, PTL DEF HSpec, Spec

LEMMA AreaKnownStep ==
    /\ TypeOK /\ TypeOK' /\ SampleKnown /\ AreaKnown /\ [HNext]_hvars
    => AreaKnown'
<1> SUFFICES ASSUME TypeOK, TypeOK', SampleKnown, AreaKnown, [HNext]_hvars
             PROVE  AreaKnown'
  OBVIOUS
<1>1. CASE UNCHANGED <<area, busy, before, lastBytes>>
           /\ (lastAge' = Forever <=> lastAge = Forever)
  BY <1>1 DEF AreaKnown, UnitsSent
<1>2. CASE HNext /\ TakeSnapshot
  <2> USE MeterAssumption
  <2>1. /\ lastBytes' = currentBytes /\ lastAge' # Forever
        /\ currentBytes \in Nat /\ lastBytes \in Nat /\ elapsed \in Nat \ {0}
        /\ lastBytes <= currentBytes
        /\ pc = "snapshot" /\ pc' = "waiting" /\ Period \in Nat
    BY <1>2 DEF TakeSnapshot, TypeOK, SampleKnown
  <2>2. CASE lastAge = Forever
    <3>1. before' = lastBytes' /\ area' = 0 /\ busy' = 0
      BY <1>2, <2>1, <2>2 DEF HNext, AreaKnown
    <3>2. UnitsSent' = 0
      BY <2>1, <3>1 DEF UnitsSent
    <3>3. /\ Accuracy * 0 <= (Accuracy + 1) * 0
          /\ (Accuracy - 1) * 0 <= Accuracy * (0 + 0)
      BY AccuracyAssumption
    <3>4. /\ Accuracy * area' <= (Accuracy + 1) * UnitsSent'
          /\ (Accuracy - 1) * UnitsSent' <= Accuracy * (area' + busy')
      BY <3>1, <3>2, <3>3, Zenon
    <3> QED
      BY <2>1, <3>1, <3>4 DEF AreaKnown
  <2>3. CASE lastAge # Forever
    <3> DEFINE sampled == (currentBytes - lastBytes) * Period
               units == (lastBytes - before) * Period
               speed == SpeedHistory[Len(SpeedHistory)]
               explained == speed * elapsed
               booked == IF lastBytes' > lastBytes THEN elapsed ELSE 0
    <3>1. area' = area + explained /\ busy' = busy + booked /\ before' = before
      BY <1>2, <2>1, <2>3 DEF HNext, Last, SampleKnown
    <3>2. /\ speed \in Nat
          /\ Accuracy * explained <= (Accuracy + 1) * sampled
          /\ (Accuracy - 1) * sampled < Accuracy * explained + Accuracy * elapsed
          /\ currentBytes = lastBytes => speed = 0
      <4>1. speed \in SampleSpeeds
        BY <2>1 DEF SampleKnown
      <4> QED
        BY <2>1, <4>1, SpeedExplainsSample
    <3>3. Accuracy \in Nat \ {0}
      BY AccuracyAssumption
    <3>4. (lastBytes' - before') * Period = units + sampled
      BY <2>1, <3>1 DEF AreaKnown
    <3>5. units \in Int /\ sampled \in Int /\ explained \in Nat /\ booked \in Nat
      BY <2>1, <3>2 DEF AreaKnown
    <3>6. currentBytes = lastBytes => sampled = 0 /\ explained = 0 /\ booked = 0
      <4> HIDE DEF speed
      <4> QED
        BY <2>1, <3>2
    <3>7. currentBytes # lastBytes => booked = elapsed
      BY <2>1
    <3>8. /\ Accuracy * area <= (Accuracy + 1) * units
          /\ (Accuracy - 1) * units <= Accuracy * (area + busy)
          /\ area \in Nat /\ busy \in Nat
      BY <2>3 DEF AreaKnown, UnitsSent
    <3> HIDE DEF units, sampled, explained, booked
    <3>9. (Accuracy - 1) * sampled <= Accuracy * (explained + booked)
      <4>1. CASE currentBytes = lastBytes
        <5>1. (Accuracy - 1) * 0 = 0 /\ Accuracy * (0 + 0) = 0
          BY <3>3
        <5> QED
          BY <3>6, <4>1, <5>1
      <4>2. CASE currentBytes # lastBytes
        <5>1. Accuracy * (explained + elapsed) = Accuracy * explained + Accuracy * elapsed
          BY <2>1, <3>3, <3>5
        <5>2. Accuracy * explained \in Int /\ Accuracy * elapsed \in Int
              /\ (Accuracy - 1) * sampled \in Int
          BY <2>1, <3>3, <3>5
        <5> QED
          BY <3>2, <3>7, <4>2, <5>1, <5>2
      <4> QED
        BY <4>1, <4>2
    <3>10. Accuracy * (area + explained) <= (Accuracy + 1) * (units + sampled)
      <4>1. /\ Accuracy * (area + explained) = Accuracy * area + Accuracy * explained
            /\ (Accuracy + 1) * (units + sampled)
                 = (Accuracy + 1) * units + (Accuracy + 1) * sampled
        BY <3>3, <3>5, <3>8
      <4>2. /\ Accuracy * area \in Int /\ Accuracy * explained \in Int
            /\ (Accuracy + 1) * units \in Int /\ (Accuracy + 1) * sampled \in Int
        BY <3>3, <3>5, <3>8
      <4> QED
        BY <3>2, <3>8, <4>1, <4>2
    <3>11. (Accuracy - 1) * (units + sampled) <= Accuracy * ((area + explained) + (busy + booked))
      <4>1. /\ Accuracy * ((area + explained) + (busy + booked))
                 = Accuracy * (area + busy) + Accuracy * (explained + booked)
            /\ (Accuracy - 1) * (units + sampled)
                 = (Accuracy - 1) * units + (Accuracy - 1) * sampled
        BY <3>3, <3>5, <3>8
      <4>2. /\ Accuracy * (area + busy) \in Int /\ Accuracy * (explained + booked) \in Int
            /\ (Accuracy - 1) * units \in Int /\ (Accuracy - 1) * sampled \in Int
        BY <3>3, <3>5, <3>8
      <4> QED
        BY <3>8, <3>9, <4>1, <4>2
    <3>12. UnitsSent' = units + sampled
      BY <3>4 DEF UnitsSent
    <3>13. /\ Accuracy * area' <= (Accuracy + 1) * UnitsSent'
           /\ (Accuracy - 1) * UnitsSent' <= Accuracy * (area' + busy')
      BY <3>1, <3>10, <3>11, <3>12, Zenon
    <3>14. area' \in Nat /\ busy' \in Nat /\ before' \in Nat
      BY <3>1, <3>5, <3>8 DEF AreaKnown
    <3>15. lastAge' # Forever
      BY <2>1
    <3> QED
      BY <3>13, <3>14, <3>15, Zenon DEF AreaKnown
  <2> QED
    BY <2>2, <2>3
<1>3. CASE HNext /\ ~TakeSnapshot
  <2>1. UNCHANGED lastBytes /\ (lastAge' = Forever <=> lastAge = Forever)
    <3>1. CASE Clock
      <4>1. lastAge' = Forever <=> lastAge = Forever
        <5>1. Forever \in Nat /\ MaxAge \in Nat /\ MaxAge < Forever
          BY MeterAssumption
        <5>2. lastAge' = IF lastAge = Forever THEN Forever ELSE lastAge + 1
          BY <3>1 DEF Clock, Older
        <5>3. lastAge < MaxAge \/ lastAge = Forever
          BY <3>1 DEF Clock
        <5>4. lastAge \in 0 .. MaxAge \cup {Forever}
          BY DEF TypeOK
        <5> QED
          BY <5>1, <5>2, <5>3, <5>4
      <4> QED
        BY <3>1, <4>1 DEF Clock
    <3>2. CASE ~Clock
      BY <1>3, <3>2
      DEF HNext, Next, Sampler, Write, TransferEnds, TakeTick, StopSeen, ReadClock,
          ReadBytes, AppendSample, snapshotVars
    <3> QED
      BY <3>1, <3>2
  <2>2. ~(pc = "snapshot" /\ pc' = "waiting")
    BY <1>3
    DEF HNext, Next, Sampler, Write, TransferEnds, Clock, TakeTick, StopSeen,
        ReadClock, ReadBytes, AppendSample, clockVars, localVars, snapshotVars
  <2>3. UNCHANGED <<area, busy, before>>
    BY <1>3, <2>2 DEF HNext
  <2> QED
    BY <1>1, <2>1, <2>3
<1>4. CASE UNCHANGED hvars
  BY <1>1, <1>4 DEF hvars, vars, snapshotVars
<1> QED
  BY <1>2, <1>3, <1>4

\* Over any number of samples the speeds make the bytes: none counted twice,
\* none left out but the fraction each busy sample is cut by, and what the
\* float64s of RecordSpeedSample miss, which is one part in Accuracy at most.
THEOREM SpeedsExplain == HSpec => []SpeedsExplainBytes
<1>1. HInit => AreaKnown
  BY DEF HInit, Init, AreaKnown
<1>2. HSpec => [](TypeOK /\ SampleKnown)
  BY MeterHistoryOnly, MeterTypeCorrect
<1>3. AreaKnown => SpeedsExplainBytes
  BY DEF AreaKnown, SpeedsExplainBytes, UnitsSent
<1> QED
  BY <1>1, <1>2, <1>3, AreaKnownStep, PTL DEF HSpec

-----------------------------------------------------------------------------
\* The ring ends in z zeros.
EndsInZeros(ring, z) == \A k \in 1 .. Len(ring) : k + z > Len(ring) => ring[k] = 0

\* Since the last byte was sent: a sample begun after the first one has read the
\* counter to the end, the snapshot of the second has all its bytes, and the
\* samples from the third on are zeros.
QuietKnown ==
    /\ quiet \in 0 .. QuietEnough
    /\ quiet >= 1 /\ pc = "append" => currentBytes = bytesSent
    /\ quiet >= 2 /\ pc = "snapshot" => currentBytes = bytesSent
    /\ quiet >= 2 /\ pc # "snapshot" => lastBytes = bytesSent
    /\ quiet >= 2 => EndsInZeros(SpeedHistory, quiet - 2)

\* One more zero is appended, and the oldest speed may go.
LEMMA ZeroAppended ==
    ASSUME NEW ring \in Seq(Nat), NEW n \in Nat \ {0}, NEW z \in Nat, EndsInZeros(ring, z)
    PROVE  LET longer == Append(ring, 0) IN
           EndsInZeros(IF Len(longer) > n THEN Tail(longer) ELSE longer, z + 1)
<1> DEFINE longer == Append(ring, 0)
<1>1. /\ longer \in Seq(Nat) /\ Len(longer) = Len(ring) + 1 /\ Len(ring) \in Nat
      /\ longer[Len(longer)] = 0 /\ \A k \in 1 .. Len(ring) : longer[k] = ring[k]
  OBVIOUS
<1> HIDE DEF longer
<1>2. ASSUME NEW k \in 1 .. Len(longer), k + (z + 1) > Len(longer) PROVE longer[k] = 0
  <2>1. CASE k = Len(longer)
    BY <1>1, <2>1
  <2>2. CASE k # Len(longer)
    <3>1. k \in 1 .. Len(ring) /\ k + z > Len(ring)
      BY <1>1, <1>2, <2>2
    <3>2. ring[k] = 0
      BY <3>1 DEF EndsInZeros
    <3> QED
      BY <1>1, <3>1, <3>2
  <2> QED
    BY <2>1, <2>2
<1>3. ASSUME NEW k \in 1 .. Len(Tail(longer)), k + (z + 1) > Len(Tail(longer))
      PROVE  Tail(longer)[k] = 0
  <2>1. /\ Len(Tail(longer)) = Len(ring)
        /\ \A i \in 1 .. Len(Tail(longer)) : Tail(longer)[i] = longer[i + 1]
    <3>1. longer \in Seq(Nat) /\ longer # <<>>
      BY <1>1
    <3> QED
      BY <1>1, <3>1, HeadTailProperties
  <2>2. k \in 1 .. Len(ring) /\ k + (z + 1) > Len(ring)
    BY <1>3, <2>1
  <2>3. k + 1 \in 1 .. Len(longer) /\ (k + 1) + (z + 1) > Len(longer)
    BY <1>1, <2>2
  <2>4. Tail(longer)[k] = longer[k + 1]
    BY <1>3, <2>1
  <2> QED
    BY <1>2, <2>3, <2>4
<1> QED
  BY <1>2, <1>3 DEF EndsInZeros, longer

LEMMA QuietKnownStep ==
    TypeOK /\ SampleKnown /\ QuietKnown /\ [HNext]_hvars => QuietKnown'
<1> SUFFICES ASSUME TypeOK, SampleKnown, QuietKnown, [HNext]_hvars PROVE QuietKnown'
  OBVIOUS
<1>1. HistorySize \in Nat \ {0} /\ quiet \in 0 .. HistorySize + 2 /\ bytesSent \in Nat
  BY MeterAssumption DEF QuietKnown, QuietEnough, TypeOK
<1> USE DEF QuietKnown, QuietEnough, clockVars, localVars, snapshotVars
<1>2. CASE UNCHANGED hvars
  BY <1>2 DEF hvars, vars
<1>3. CASE HNext /\ AppendSample
  <2>1. /\ pc = "append" /\ pc' = "snapshot"
        /\ UNCHANGED <<bytesSent, currentBytes, lastBytes, elapsed>>
        /\ quiet' = IF quiet < HistorySize + 2 THEN quiet + 1 ELSE quiet
    BY <1>3 DEF HNext, AppendSample
  <2>2. ASSUME quiet >= 2 PROVE EndsInZeros(SpeedHistory', quiet - 1)
    <3>1. currentBytes = lastBytes
      BY <1>1, <2>1, <2>2
    <3>2. SampleSpeeds \subseteq {0}
      BY <2>1, <3>1, SpeedExplainsSample
    <3>3. SpeedHistory \in Seq(Nat) /\ quiet - 2 \in Nat /\ (quiet - 2) + 1 = quiet - 1
      BY <1>1, <2>2 DEF TypeOK
    <3>4. EndsInZeros(SpeedHistory, quiet - 2)
      BY <2>2
    <3> HIDE DEF QuietKnown
    <3>5. EndsInZeros(IF Len(Append(SpeedHistory, 0)) > HistorySize
                      THEN Tail(Append(SpeedHistory, 0)) ELSE Append(SpeedHistory, 0),
                      (quiet - 2) + 1)
      BY <1>1, <3>3, <3>4, ZeroAppended
    <3> QED
      <4>1. PICK speed \in SampleSpeeds :
              LET longer == Append(SpeedHistory, speed) IN
              SpeedHistory' = IF Len(longer) > HistorySize THEN Tail(longer) ELSE longer
        BY <1>3 DEF AppendSample
      <4>2. speed = 0
        BY <3>2
      <4> QED
        BY <3>3, <3>5, <4>1, <4>2
  <2>3. quiet' >= 2 => EndsInZeros(SpeedHistory', quiet' - 2)
    <3>1. CASE quiet < 2
      BY <1>1, <2>1, <3>1 DEF EndsInZeros
    <3>2. CASE quiet >= 2 /\ quiet < HistorySize + 2
      <4>1. quiet' - 2 = quiet - 1
        BY <1>1, <2>1, <3>2
      <4> QED
        BY <2>2, <3>2, <4>1
    <3>3. CASE quiet = HistorySize + 2
      <4>1. SpeedHistory' \in Seq(Nat) /\ Len(SpeedHistory') <= HistorySize
        BY MeterTypeStep, <1>3 DEF HNext, TypeOK
      <4> QED
        BY <1>1, <2>1, <2>2, <3>3, <4>1 DEF EndsInZeros
    <3> QED
      BY <1>1, <3>1, <3>2, <3>3
  <2> QED
    BY <1>1, <2>1, <2>3
<1>4. CASE HNext /\ \E n \in 1 .. MaxBytes : Write(n)
  <2>1. quiet' = 0
    BY <1>1, <1>4 DEF HNext, Write
  <2> QED
    BY <1>1, <2>1
<1>5. CASE HNext /\ (TransferEnds \/ Clock \/ TakeTick \/ StopSeen \/ ReadClock \/ ReadBytes)
  <2>1. UNCHANGED <<bytesSent, SpeedHistory, lastBytes, quiet>>
    BY <1>5 DEF HNext, TransferEnds, Clock, TakeTick, StopSeen, ReadClock, ReadBytes
  <2> QED
    BY <1>1, <1>5, <2>1
    DEF HNext, TransferEnds, Clock, TakeTick, StopSeen, ReadClock, ReadBytes
<1>6. CASE HNext /\ TakeSnapshot
  BY <1>1, <1>6 DEF HNext, TakeSnapshot
<1> QED
  BY <1>2, <1>3, <1>4, <1>5, <1>6 DEF HNext, Next, Sampler

\* A stall shows after HistorySize + 2 samples: the ring, which CurrentSpeed and
\* AverageSpeed read, has nothing but zeros then.
THEOREM StallShownInTime == HSpec => []StallShowsInTime
<1>1. HInit => QuietKnown
  BY MeterAssumption DEF HInit, Init, QuietKnown, QuietEnough
<1>2. HSpec => [](TypeOK /\ SampleKnown)
  BY MeterHistoryOnly, MeterTypeCorrect
<1>3. TypeOK /\ QuietKnown => StallShowsInTime
  <2> SUFFICES ASSUME TypeOK, QuietKnown, quiet = QuietEnough
               PROVE  SpeedHistory \in Seq({0})
    BY DEF StallShowsInTime
  <2>1. HistorySize \in Nat \ {0} /\ SpeedHistory \in Seq(Nat) /\ Len(SpeedHistory) <= HistorySize
    BY MeterAssumption DEF TypeOK
  <2>2. EndsInZeros(SpeedHistory, HistorySize)
    <3>1. QuietEnough >= 2 /\ QuietEnough - 2 = HistorySize
      BY <2>1 DEF QuietEnough
    <3> QED
      BY <3>1 DEF QuietKnown
  <2>3. \A k \in 1 .. Len(SpeedHistory) : SpeedHistory[k] \in {0}
    BY <2>1, <2>2 DEF EndsInZeros
  <2> QED
    BY <2>1, <2>3
<1> QED
  BY <1>1, <1>2, <1>3, QuietKnownStep, PTL DEF HSpec
=============================================================================
