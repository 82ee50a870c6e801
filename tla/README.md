# Client_Agent in TLA+

Client_Agent is a local agent (HTTP on `:17432`) that connects to other agents
through NATs with libp2p hole punching, sends files over the connections and
streams the progress to its clients. This directory models the parts of it
where goroutines, the network and the disk meet, checks them with TLC and proves
with TLAPS every safety invariant and action property that a passing run checks:
of the connection table, of a file transfer and what it implements, of the progress
stream and its arithmetic, and of the speed meter.

## The system

| Component | State | Operations | Source |
|---|---|---|---|
| Connection manager | `Store.Connections`: peer -> `LibP2PConn{Conn, PeerID, StopCh}` under `ConnectionsMu` | `TryHolePunch` per request, `keepAlive`/`sendPing` per record, `CloseConn`, `CloseAllConns` | `pkg/service/p2p_service.go`, `pkg/handler/peers/connect.go` |
| Sending side | `SendingFile` (Status, SentFiles), a libp2p stream, a sampler goroutine | `Post`, the goroutine it starts, `sendFile`, `writeWithLength` | `pkg/handler/peers/post.go` |
| Receiving side | `ReceivingFile` (Status, ReceivedFiles), the save directory | `handleIncomingFileStream`, `receiveFile`, `readWithLength` | `pkg/session/session.go` |
| Transfer tables | `SendingFiles`, `ReceivingFiles`, a lock each | Set, Update status, Update progress, Get | `pkg/session/session.go` |
| Progress stream | one goroutine per client | `Get` (1 s ticker, select), `buildProgressPayload`, `toAPIStatus` | `pkg/handler/stream/get.go` |
| Progress arithmetic | none: one call | the second half of `buildProgressPayload`, repeated in `pkg/handler/transfer/progress.go` | `pkg/handler/stream/get.go` |
| Speed meter | a byte counter per stream, a ring of ten speeds and the last snapshot per record | `CountingStream.Write`, the sampler goroutine of `Post`, `RecordSpeedSample`, `CurrentSpeed`, `AverageSpeed` | `pkg/session/speed_measure.go`, `pkg/session/session.go`, `pkg/handler/peers/post.go` |
| Bootstrap | `Status.MultiAddress`, the host, stream handlers | `NewStore`, STUN request | `pkg/session/session.go` |
| Peer list, agent status | `AgentStatus` | GET /peers, GET and PATCH /status | `pkg/handler/peers/get.go`, `pkg/handler/status` |
| Router, middleware, logging | none of interest | request log, trace id, masking | `pkg/handler/handler.go`, `pkg/middleware`, `pkg/util` |

How they interact: `POST /peers` calls `TryHolePunch`, which fills
`Connections`; `POST /peers/:id` reads an entry, opens a stream on its
connection and registers a `SendingFile` that its goroutine and the sampler
update; the remote agent's stream handler registers a `ReceivingFile`; a
`GET /stream` goroutine polls both tables once a second and turns the stream's
byte counter and the speed history into events.

What is hard: locks are released between a test and the act it decides
(`TryHolePunch`, `buildProgressPayload`); `CloseConn` is keyed by the peer while
goroutines belong to records; no read or write of a file stream has a deadline;
the framing trusts a size the client declared; the two ends of a transfer learn
of a loss at different times and never acknowledge anything.

What makes each component correct: an entry is a live, direct, watched
connection to its own peer and dead ones go away; what the receiver counts is on
its disk, complete; both ends of a transfer settle; events are truthful, and
active transfers and their ends are shown; the division of the counter among the
files loses and invents nothing; the speeds shown add up to the bytes sent and
fall to zero when the transfer stalls. The hazards behind these are listed, line by
line, in `PROJECT.json`.

## Modules

**ConnectionManager** (`MCConnectionManager`, `ConnectionManagerProofs`).
Requests (`Handlers`) and records (`Records`, one `keepAlive` goroutine each)
have a program counter; `connections` is the table. A section under
`ConnectionsMu`, or a call that touches nothing shared, is one action: steps 3 to
8 of `TryHolePunch` are `LookupExisting`, `ReuseExisting`/`FoundDead`, `Evict`,
`HolePunch`, `WaitForDirectConn`, `StoreConn`, `SpawnKeepAlive`, with
`PunchFails` for every error or deadline; `Tick`, `PingOk`, `PingFails`,
`CloseConn`, `StopSeen` are the loop of `keepAlive`. `sendPing` opens its stream
through the host, so any connection to the peer answers it (`Reachable`). The
environment opens and loses transport connections (`ConnAppears`, `ConnDies`);
opening one is independent of any request, because a peer may dial us too. A
`Conn.Close` closes: the error `CloseConn` gives after one that failed
(`p2p_service.go:201-206`) is not modelled, nor what such a close leaves open.

**SerialisedRequests** (`SerialisedRequestsProofs`). ConnectionManager with a
history variable, the peers for which two requests have been under way at once.
Of the disagreements below `CM_overwrite`, and the eviction of a live entry, need such a pair;
`SerialisedStaysMaintained` says what a client gets that never issues one: no open connection of its is left
without a `keepAlive`, though `keepAlive` removes by peer and `Evict` deletes by
peer. `OverlapsKnown`, `OpenIsRegistered` and `EntryAsSeen` are the inductive invariant
of the proof.

**ConnectionTable** (`ConnectionTableProofs`) is the abstract specification of the table for
such a client: no requests, locks, pings or goroutines, only the entries and which
stored connections are open. A record enters an empty place, and leaves it when its
connection is closed, before or in that very step. SerialisedRequests implements
it; a peer whose requests have overlapped counts as one without entry, because to it
not even this is promised (`CM_overwrite`). That a stale `keepAlive` closes the
connection that replaced its own (`CM_stale_keepalive`) is allowed here: the record
goes with its connection. Like Delivery it has no lines of the code in `map`.

**FileTransfer** (`MCFileTransfer`, `FileTransferProofs`). One transfer, both ends, and the stream
between them. The stream is a FIFO of at most `Window` cells (a frame or a byte of
contents); `Write` blocks on a full window; `fin` and `stopped` are what `Close`
does at each end; `up` says for each end whether it still believes in the
connection, and a loss takes with it a suffix of what was under way. A receiver
that meets a cell of the wrong kind has lost the frame boundaries (`aligned`) and
decodes arbitrary values from then on. The size field is `SizeBits` wide and
converted to a signed number as the code does. `negotiated` says how the
stream was opened: `Post` opens it with no protocol (FALSE), which makes libp2p
reset it at the other end. That would hide everything else, so `FT_reliable`
assumes TRUE; `FT_as_built` takes the code as it is, and `FT_faults` both ways.

**Delivery** (`DeliveryProofs`) is the abstract specification of a transfer: no frames, windows,
connections, protocols or goroutines, only what each end reports, how many files
each is done with and what is stored. A file is counted when it is stored whole,
after those before it and not before the sender reached it; done needs all of
them; a report is final. `FileTransfer` implements it under the mapping at its
end: `sender` and `receiver` are the two `Status` fields, `sent` and `counted`
the two progress counters, `store` the save directory without the frames the
bytes came in (`StoredBytes`), `Names` are the names the requests use, and a size is
sound when it is the file's length and below the signed range of the field. Losing the connection, meeting a frame
where contents were expected, a blocked writer and a reset are stutters of
Delivery; of an unsound request it only promises the reports. `Delivery` models
no lines of the code and so has no entries in `map`. What it promises is said in it:
`CountedIsStored`, `DoneIsEarned` and `ReportsAreFinal`, which `DeliveryProofs` proves.

**StreamOrder** extends FileTransfer with the invariant its proofs rest on. The cells of
a request have places, pairs of a file and a step in it, in the order `Post` writes
them; `SenderPlace` is the one written next, `ReceiverPlace` the one waited for.
`InOrder` says that receiver, wire and sender are consecutive places as long as
the receiver is `aligned`. Like Delivery it adds no lines of the code; `FT_faults`
checks it. `CloseIsTold` and `GoesWell` are the invariants behind two more properties:
what each end knows of the other's `Close`, and that a transfer that loses
nothing goes well.

**ProgressStream** (`MCProgressStream`, `ProgressStreamProofs`). The stream goroutines against transfer
goroutines reduced to what they do to `Status`. The two searches are two actions
(two locks); the unlocked read of the status is two actions too, because a Go
string is an address and a length: if they come from assignments of different
lengths the text is no status and `toAPIStatus` calls it "preparing".
`MCProgressStream` adds two history variables, for what stayed active (`steady`) and
what was active at all (`seen`) since a client's tick: the first for the property
about idle events, the second for the one about the transfers it is shown.

**ProgressCalc** (`MCProgressCalc`, `ProgressCalcProofs`). The loops of the second half of
`buildProgressPayload`, an iteration a step, with int64 arithmetic of `Width` bits.
Percentages and the files' speeds are float64s in the code: here each is any of the
numbers `Float64` allows, a percentage kept as its whole part, and a speed that does
not fit an int64 is what the conversion may make of it.

**SpeedMeter** (`MCSpeedMeter`, `SpeedMeterProofs`). The goroutine that sends
(`Write` adds to the counter, `TransferEnds` closes `stopSampler`), the clock with
a ticker whose channel holds one tick, and the sampler. `RecordSpeedSample` is
four steps because it reads the clock first and the counter next, while
the sender writes, and keeps the snapshot after the sample is in the ring:
`ReadClock`, `ReadBytes`, `AppendSample`, `TakeSnapshot`. The clock may run on
between any two. Time itself is not kept, only ages: `lastAge` is how long ago the
last snapshot's time was, `Forever` before there was one, as `Sub` saturates
against Go's zero time. `MCSpeedMeter` adds four history variables: the area
under the samples, the time its busy samples took, the bytes sent before
the first snapshot, and how many samples were taken since the last byte (`quiet`). Only the sending side is modelled, because only it is sampled.

**Float64** says what the whole part of a float64 quotient may be. An expression of
the code rounds a handful of times, by less than one part in 2^52 each; `WholeParts` are
the whole parts of all numbers within one part in `Accuracy` of the exact quotient,
and `Truncated` is what `int64()` makes of them. With the code's `Accuracy` of 2^50 a
quotient just below a whole number may be rounded up to it: sizes 2^30 and 1 at a speed of
2^30 + 2 give the first file 2^30 + 1, one more than the exact quotient's whole part.
The model takes every such number, so it allows more than any one processor does.

Operators named `X_Something` after a "Mutant" comment are deliberate mistakes,
used to see that the properties notice them; no specification uses them.

## Runs

All runs pass `CHECK_DEADLOCK FALSE`: no client has to issue another request,
the pools of connections, records, transfers and requests are bounded, and a
calculation ends.

| Run | Instance | Shows |
|---|---|---|
| `CM_safety` | 2 requests, 2 peers, 3 records, 2 direct and 1 relayed connection, `CloseAllConns` | `TypeOK`, `RegisteredIsMaintained`, `RegisteredIsNotStopped`, `StoppedIsClosed`, `EntryIsDirectToPeer`, `EvictsNothingItSawAlive`, `SerialisedStaysMaintained`, and that SerialisedRequests implements ConnectionTable (`ImplementsTable`) |
| `CM_liveness` | 2 requests, 1 peer, 3 records, 2 connections, `CloseAllConns`, fair | `DeadIsRemoved`, `NoGoroutineLeak` |
| `FT_faults` | 3 good and 4 bad files: none, any one, any one and then a good one, or two empty ones; window 2, stream with and without the protocol, losses, disk failures, fair | `TypeOK`, `InOrder`, `DeliveryIntegrity`, `CountersMatchWire`, `BlockedIsAnswered`, `SendingSettles`, `ReceivingSettles`, and that FileTransfer implements Delivery (`ImplementsDelivery`) |
| `FT_reliable` | up to two good files, window 3, losses, sound disks, fair | `FailedIsUnfinished`, `FailsOnlyByLoss`, `BothReportDone` |
| `PS_stream` | 2 sends, 1 receive, 1 client, fair | `TypeOK`, `DoneIsTruthful`, `IdleHidesNoSteadyTransfer`, `ShowsOnlyActive`, `GoneStreamEnds`, `ActiveIsShown` |
| `PC_calc` | up to 3 files of sizes 0, 1, 4, 14 and a negative one, counter 0 to 15, 5-bit integers, floats up to an eighth off | `TypeOK`, `BytesConserved`, `FilesFilledInOrder`, `NeverUnderreported`, `OverreportIsFraming`, `TotalAgreesWithFiles`, `SpeedsAddUp` |
| `SM_speed` | 3 bytes, a ring of two, two clock units to a second, a sampler up to 4 units late, floats up to a third off, fair | `TypeOK`, `SpeedsExplainBytes`, `StallShowsInTime`, `StallShows`, `SamplerEnds` |

Runs that are expected to be violated, each the disagreement of a comment or of
`openapi.yaml` with the code:

| Run | Property | What happens |
|---|---|---|
| `CM_overwrite` | `LiveConnectionReused` | two requests for one peer, the second store replaces a live connection |
| `CM_stale_keepalive` | `KeepAliveRemovesItsOwn` | an old record's `keepAlive` closes the connection that replaced it |
| `FT_wrong_size` | `DoneMeansWhole` | the declared size goes on the wire: a longer file is cut off and both ends report done |
| `FT_as_built` | `BothReportDone` | the stream is opened without the protocol its receiver is registered for |
| `PS_end` | `EndIsAnnounced` | a transfer that ends between two ticks is never announced |

Disagreements that were seen and not given a run of their own: a request may evict
a live entry another request stored since it looked (`p2p_service.go:50`), whatever its own
entry was; a size of 2^63 or more is negative at the receiver, which then saves nothing and
succeeds (`session.go:425`), and at the sender makes the progress negative
(`get.go:175`); of two files with one base name the second replaces the first
(`session.go:418`); an idle event may be sent while one transfer ends and another
begins, though some transfer was active at every moment (`get.go:99`); with several transfers active each event may show another one, because
a map has no order (`get.go:89`); a total of 2^54 bytes is at 100 percent before its
last byte, as a float64 rounds one byte less to it (`get.go:213`); the 409 of
`openapi.yaml:257` is never sent; a file is shown complete before its last bytes
are sent, because frames count as contents (`get.go:178`); `progress.go:93` speaks
of a division in proportion to the sizes, the code fills files in order.

Others concern code that no run executes. `ReceivingFile.RecordSpeedSample`
has no caller, so the speeds and the time left of a transfer being received are
always 0 (`speed_measure.go:55`, against `openapi.yaml:659` and `:663`). The first
sample of a transfer is taken against the zero time: its speed is 0 whatever
was sent, and it drags the average down until it leaves the ring
(`speed_measure.go:11`). Nothing ever writes `Status.ConnectedPeer`, so `GET` and
`POST /peers` answer an empty list after a successful connection too
(`connect.go:32`). The callback of the STUN request stores its error in the variable
that the result of `Do` then overwrites (`session.go:281`): `getPublicAddrViaSTUN`
reports success, and what usually saves the caller is that `buildMultiAddress`
rejects the address it is left with. The STUN request goes out of a socket of its
own, so the port it learns is not the listener's (`session.go:273`). A host that
could not be created is logged, and dereferenced two statements later
(`session.go:346`).

**Bounds.** The table races need two requests for one peer and a third record
only when an evicted one is replaced and replaced again; two peers show that
peers do not mix. Two files are enough to lose a frame boundary and meet another
frame after it; windows of two and three cells make the writer block and let
it run ahead. `SizeBits = 3` puts sizes 4 to 7 beyond the signed
range. Clients of the progress stream share nothing but the tables they read, so
one is enough; two sends let a search choose, a send and a receive let one end
while the other begins. With `Width = 5` three small files fit, three large ones
wrap, and 30 is negative. `Accuracy` is small (8 and 3) so that results are rounded both up and
down across a whole number, and a share of a wrapped total need not fit 5 bits.
For the speeds a ring of two already drops samples; two units to a second make a
tick early, late or lost, and a sample over no time, one unit or more; `MaxAge`
bounds how late the sampler is; three bytes leave a fraction in a sample. `Forever`
is larger than any number of byte units, so that the first speed is 0, as it is
for any counter the code can reach in 292 years' seconds.
`Connect` has the one guard that is a bound and not code: a request starts only
while a record is left for every request under way.

**Fairness.** Weak fairness of each goroutine (a request, a `keepAlive`, a
sender, a receiver, a sampler, a stream): they block only on calls with
deadlines, on tickers that keep firing, or on the stream, where the guard of the
action says when it unblocks. `StopArrives` and `NoticesLoss` are fair because QUIC
retransmits while both ends live and times out when one is gone. `Leave` is
strongly fair: at a `select` the client's absence is ready for good and Go
chooses among ready cases at random, and so is `StopSeen` of the speed sampler,
which a tick competes with at every round; without the strong fairness
`SamplerEnds` would not follow. The clock and the sampler are weakly fair: the
sampler never blocks outside its select. No byte has to be written and no
transfer to end. Clients need not ask, transfers of
`ProgressStream` need not progress, and connections need not appear or die.

## Proofs

`ConnectionManagerProofs` proves, for any sets of peers, requests, records and
connections under `ConstantsAssumption`:

- `TypeCorrect`: `Spec => []TypeOK`;
- `WellFormedInvariant`: `Spec => []WellFormed`. None of the invariants below is
  inductive alone: that an entry is direct depends on the request's `hconn`
  still being a direct connection to `hpeer` at "store"; that a freshly stored
  record is unwatched depends on no two requests at "spawn" sharing a record. So
  `RecordsWellFormed`, `EntriesWellFormed`, `RequestHasPeer` and
  `RequestsWellFormed` are proved together, one step per action;
- `EntryIsDirect`, `StoppedConnIsClosed`, `RegisteredNotStopped` and
  `RegisteredMaintained`: the safety invariants of `CM_safety`, each from
  `WellFormed` (the third from the second's companion facts about records, the
  last by following a record from "spawn" through its `keepAlive`);
- `EvictsOnlyDead`: `Spec => []EvictSawDead`, a request at "evict" remembers a
  record whose connection is closed; inductive because a closed connection
  never opens again (`ClosedStaysClosed`). From it `NothingSawAliveEvicted`, the
  action property `EvictsNothingItSawAlive`.

`SerialisedRequestsProofs` continues, under the same assumption: `HSpec` implies
`Spec`, so everything above holds of it too; `SerialisedInvariant` proves
`Serialised`, the conjunction of `OverlapsKnown` (two requests for a peer are
remembered), `OpenIsRegistered` (what is open is what the table holds) and
`EntryAsSeen` (what a request knows of its entry is still so between its locks).
`StoreConn` needs the last of them, or it would overwrite an open record; and
`EntryAsSeen` needs the first, because only another request could change the
entry to something else. `SerialisedMaintained` follows with
`RegisteredIsMaintained`. `SerialisedImplementsTable` is the refinement,
`HSpec => ImplementsTable`: `StoringRefines` finds the place empty by `EntryAsSeen`,
`RemovingRefines` finds what goes closed because `OpenIsRegistered` holds after the step.
`ConnectionTableProofs` proves of the abstract table that what is open is always
an entry (`OpenEntered`, when the marker for no record is not a record).

`ProgressStreamProofs`, for any sets of sends, receives and clients under
`StreamAssumption`:

- `StreamTypeCorrect`: `Spec => [](TypeOK /\ PickKnown)`. `PickKnown` says that a
  stream past its searches holds a transfer, and that an end it has read is the
  transfer's status, torn reads included: a torn word is no end;
- `DoneTruthful`: `Spec => []DoneIsTruthful`, with `SettledIsFinal`, no step
  changes the status of a transfer that has ended;
- `IdleHidesNothingSteady`: `HSpec => IdleHidesNoSteadyTransfer`, from
  `SteadyKnown`: what is steady is active, and when the first search has found
  nothing no send is among it;
- `ShownWasActive`: `HSpec => ShowsOnlyActive`. The tables keep every transfer there
  ever was, so what keeps ended ones out of the events is the condition of the search.
  `SeenKnown` carries it past the locks: what is active in mid-tick has been
  seen, and so has the transfer the search returned, ended since or not.

`SpeedMeterProofs`, for any ring, second, transfer, delay and accuracy of the floats
under `MeterAssumption` and `AccuracyAssumption`:

- `MeterTypeCorrect`: `Spec => [](TypeOK /\ SampleKnown)`, the ring's length
  included. The type of the ring is not inductive alone: a speed is a natural
  number only because the counter never falls and a sample over no time is
  skipped, which `SampleKnown` says of the sampler's locals;
- `SpeedsExplain`: `HSpec => []SpeedsExplainBytes`, from `AreaKnown`, the same
  bounds wherever the sampler is, and `SpeedExplainsSample`, the bounds on one
  quotient;
- `StallShownInTime`: `HSpec => []StallShowsInTime`, the safety half of `StallShows`: after
  `HistorySize + 2` samples without a byte the ring holds nothing but zeros, so whatever
  `CurrentSpeed` and `AverageSpeed` make of it is zero. Two more than the ring has
  places, because the sample under way may have read the counter before the last byte,
  and the next one then still counts it; with one less TLC finds a counterexample. `QuietKnown` counts the zeros at the end of the ring, wherever the
  sampler is.

`FileTransferProofs`, for any requests, window, width of the size field and faults
under `TransferAssumption` (the width and the window are positive, requests are
sequences of files, the markers for no name and no file are neither):

- `StaysInOrder`: `Spec => [](TypeOK /\ InOrder)`, and from it `TypeCorrect`. The type
  is not inductive without the order: the receiver indexes the request with what it
  reads, so what is on the wire must be cells of the request. `InOrder` has seven
  parts. `SenderInStep` and `ReceiverCounts` tie each end's locals to its
  control point; `WireInOrder` says that the wire holds consecutive places that end
  where the sender goes on; `FileOpened` gives the receiver a file to write to, in
  step or not; `ReceiverInStep` says that the wire begins where the receiver waits,
  `FileInStep` that what is stored of the current file is its beginning, and
  `SoundInStep` that a sound request never puts the receiver out of step. A loss keeps
  it because it takes a suffix of the wire, and because the order of the wire's
  end is only claimed while the sender is up;
- `CountersInStep`: `Spec => []CountersMatchWire`. How far the receiver is ahead is kept
  by each step; how far the sender is ahead follows from `InOrder` alone: a place
  is given a `Weight`, two for each file before it, no cell adds more than one
  (`WeightAfter`), and so the wire is at least as long as the weights of its two ends
  differ (`WeightOnWire`, by the least counterexample);
- `DeliveryCorrect`: `Spec => []DeliveryIntegrity`, with `CountedStored` carried along:
  a file that is counted is not touched again when names differ;
- `FailedUnfinished`: `Spec => []FailedIsUnfinished`. On sound disks a sender fails only
  with a cell left to write, and a receiver that has not got that cell is not done: no
  sender reports failed what its receiver reports done. With failing disks that is
  false: reading the end of the last file may fail after its last byte was written;
- `TransferImplementsDelivery`: `Spec => ImplementsDelivery`, the refinement of Delivery.
  `SenderRefines` and `ReceiverRefines` map each step to a step of Delivery or a
  stutter, `CreateFileRefines`, `CopyNByteRefines` and `FileReceivedRefines` the ones that
  touch the store. In them an unsound request is the easy case, a sound one
  needs `SoundInStep` and `FileInStep`;
- `ClosesAreTold`: `Spec => []CloseIsTold`, and from it `BlockedAnswered`:
  `Spec => []BlockedIsAnswered`, the safety half of `SendingSettles` and `ReceivingSettles`.
  No read or write has a deadline; the theorem says that one that blocks has something
  to wake it, for every window: the other goroutine at work, its `Close` on the way, or a
  lost connection yet to be noticed. That the two never block on each other is the
  arithmetic of one wire, full and empty at once;
- `OnlyLossFails`: `Spec => []FailsOnlyByLoss`, from `GoesWell`. `ReaderNotAtEnd` finds the
  missing cell on the wire, by `InOrder`, whenever the sender has closed and the receiver
  still reads; `ReceiveFailsAfterSender` and `NoSendFails` rule out the failures
  of each end while nothing is lost;
- `TransferKeepsPromise`: `Spec => [](CountedIsStored /\ DoneIsEarned) /\ ReportsAreFinal`
  under the mapping, from `TransferImplementsDelivery` and what `DeliveryProofs` proves.

`DeliveryProofs`, of the abstract specification alone, for any requests whose files have
names of the store (`RequestsHaveNames`):

- `CountingIsEarned`: `Spec => [](CountedIsStored /\ DoneIsEarned)`: of a sound request the
  receiver is at most one file ahead, what it has counted is stored whole when names
  differ, and it reports done only what it has counted to the end. `InBounds` and
  the growth of one file at a time carry it;
- `FinalReports`: `Spec => ReportsAreFinal`, from the guards of the abstract actions.

`ProgressCalcProofs`, for integers of any width, any sizes, counters and speeds, and
floats of any accuracy, under `CalcAssumption` and `AccuracyAssumption`:

- lemmas on the operators. `SumOfFirst` is defined by a recursive function, so `SumExists`
  and `SumUnique` prove that it exists and is determined (by the least
  counterexample, `Least`), the others that it grows a member at a time; `DivMod`,
  `ModUnique`, `ModShift` and `DivOrder` are the facts about division; `Int64Sum` says that
  converting after each addition is converting the whole sum; `WholePartsBounds`,
  `PercentTyped` and `PercentFull` bound what the floats may be;
- `TypeCorrect` and `NoByteLostOrDoubled` (`BytesConserved`), of any sizes, also of
  sums that wrap: each inductive as it is, the second by `Int64Sum`;
- `FilledInOrder`: `Spec => []FilesFilledInOrder`, the loops in closed form: of sizes that
  fit an int64, file `i` has got what the counter leaves it after the files before
  it. `ReportedInOrder`, `AheadByFramesOnly` and `TotalsAgree` follow from it state by
  state; none of the three is inductive, as none says what is left for the next file;
- `SpeedsBounded`: `Spec => []SpeedsAddUp`, for every accuracy of the floats. Each file's
  speed may be rounded up, so the bound on the sum cannot be taken file by file:
  `SpeedsShared` carries through the loop the product of the total size and the speeds
  given so far, which `ShareOfFile` lets grow by the file's share and one part in
  `Accuracy` of it (from the bounds of `WholePartsBounds`), and `SharedSum` divides at the end.

Model-checked only: liveness (`DeadIsRemoved`, `NoGoroutineLeak`, `SendingSettles`,
`ReceivingSettles`, `BothReportDone`, `GoneStreamEnds`, `ActiveIsShown`, `StallShows`,
`SamplerEnds`), because TLAPS can use neither fairness nor ENABLED here, and the violated
runs, which are counterexamples. Of the liveness properties `BlockedIsAnswered` (for
`SendingSettles` and `ReceivingSettles`), `FailsOnlyByLoss` (for `BothReportDone`) and
`StallShowsInTime` (for `StallShows`) are the parts a proof reaches: that no wait is
for nobody, that nothing but a loss stands in the way, and how many steps are enough.
Every safety invariant and action property of a passing run has its theorem.

## Not modelled

The payload of messages and logs, HTTP parsing and its error answers, libp2p
internals, NAT behaviour. `PROJECT.json` gives the reason for each component; the
ones with code of their own are these.

- **Bootstrap.** `NewStore` runs once, alone, before the router exists. A model of it
  has a few sequential steps and no state that lives on, and the two hazards it
  has (the lost STUN error, the nil host) are visible in the statement itself;
  they are listed above. Streams that arrive before the handlers are registered
  are reset, which is `negotiated = FALSE` in FileTransfer. The responder of
  `/libp2p/keepalive` reads until its stream ends; ConnectionManager has it as
  `Reachable`.
- **Agent status.** One string that PATCH writes and GET reads without a lock; the
  code makes no promise about the overlap.
- **GET /transfer/progress**, cancel and set_property are not routed; the
  arithmetic of the first is a copy of the one in ProgressCalc.
- **An agent as a whole.** A composition of ConnectionManager with transfers would
  add only that `CloseConn` can close the connection under a transfer; FileTransfer
  loses its connection at any step already, for no reason needed, and the
  connection manager never looks at transfers. In the same way the transfers of
  ProgressStream move at any moment, and SpeedMeter's may end or stall at any.
- **An abstract connection table for any client** would promise that an entry lives until
  it dies or is closed, which the code does not do when requests overlap
  (`CM_overwrite`); `ConnectionTable` is what the others get.

## What could come next

- The liveness properties for all instances, with a prover for fairness and ENABLED; the
  ranking arguments are there (cells left in a request, samples since the last byte).
- What the average of a ring is: `AverageSpeed` folds over it, and what a fold computes is an
  induction over data. That a ring of zeros shows zero is read off its definition.
- Bootstrap and the routes listed below `Not modelled`, when they get state or callers
  of their own. `ReceivingFile`'s speeds join SpeedMeter when something samples them, and an
  abstract table for every client joins ConnectionTable when `TryHolePunch` looks
  again under the lock it stores with.
