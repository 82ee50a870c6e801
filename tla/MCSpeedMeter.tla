---------------------------- MODULE MCSpeedMeter ----------------------------
(***************************************************************************)
(* SpeedMeter with history variables: the area under the curve of speeds   *)
(* and times since the first snapshot, the time its busy samples took, the *)
(* bytes sent before it, and the samples since bytes were last sent.       *)
(***************************************************************************)
EXTENDS SpeedMeter

VARIABLES area, busy, before, quiet
hvars == <<vars, area, busy, before, quiet>>

\* Samples until a ring is full of zeros, once no byte is sent any more: the one
\* under way has read the counter before, the next one gets the last bytes.
QuietEnough == HistorySize + 2

HInit == Init /\ area = 0 /\ busy = 0 /\ before = 0 /\ quiet = 0

\* A sample is booked when the snapshot that ends it is taken.
HNext ==
    /\ Next
    /\ IF pc = "snapshot" /\ pc' = "waiting"
       THEN IF lastAge = Forever
            THEN before' = lastBytes' /\ UNCHANGED <<area, busy>>
            ELSE /\ area' = area + Last(SpeedHistory) * elapsed
                 /\ busy' = busy + IF lastBytes' > lastBytes THEN elapsed ELSE 0
                 /\ UNCHANGED before
       ELSE UNCHANGED <<area, busy, before>>
    /\ quiet' = IF bytesSent' # bytesSent THEN 0
                ELSE IF pc = "append" /\ pc' = "snapshot" /\ quiet < QuietEnough THEN quiet + 1
                ELSE quiet

HSpec == HInit /\ [][HNext]_hvars
HFairSpec == HSpec /\ Fairness

\* The speeds explain the bytes: over any number of samples, late or early, the
\* speeds times the times between the snapshots make the bytes sent between the
\* first snapshot and the last, none counted twice, and none left out but the
\* fraction each busy sample is cut by; up to one part in Accuracy, by which the
\* float64s may miss either way.
SpeedsExplainBytes ==
    LET units == (lastBytes - before) * Period IN
        pc = "waiting" /\ lastAge # Forever =>
            /\ Accuracy * area <= (Accuracy + 1) * units
            /\ (Accuracy - 1) * units <= Accuracy * (area + busy)

\* How long StallShows takes: HistorySize + 2 samples after the last byte there is
\* nothing but zeros in the ring, so that both speeds are 0, wherever in a sample
\* that byte was sent.
StallShowsInTime == quiet = QuietEnough => SpeedHistory \in Seq({0})
=============================================================================
