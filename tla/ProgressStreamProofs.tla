------------------------ MODULE ProgressStreamProofs ------------------------
(***************************************************************************)
(* Proofs that the events of GET /stream tell the truth, for any numbers of*)
(* transfers and clients.                                                  *)
(***************************************************************************)
EXTENDS MCProgressStream, TLAPS

\* One name per disjunct of Next.
LEMMA StreamCases ==
    ASSUME Next
    PROVE  \/ \E t \in Transfers : Register(t)
           \/ \E t \in Transfers, s \in {"sending", "done", "failed"} : UpdateStatus(t, s)
           \/ \E c \in Clients : Get(c) \/ Disconnect(c) \/ Leave(c)
           \/ \E c \in Clients : ScanSending(c)
           \/ \E c \in Clients : ScanReceiving(c)
           \/ \E c \in Clients : Idle(c)
           \/ \E c \in Clients : ReadStatusWord(c)
           \/ \E c \in Clients : Emit(c)
BY DEF Next, Transfer, Stream

-----------------------------------------------------------------------------
\* What a stream goroutine holds between its steps: the search of SendingFiles
\* found a send or nothing, the status is read of a transfer, and a final
\* status whose address was read is the transfer's status still.
PickKnown ==
    \A c \in Clients :
        /\ pc[c] = "receiving" => pick[c] \in Sends \cup {NoTransfer}
        /\ pc[c] \in {"status", "emit"} => pick[c] \in Transfers
        /\ pc[c] = "emit" /\ word[c] \in {"done", "failed"} => status[pick[c]] = word[c]

\* A transfer that has ended does not change any more.
LEMMA SettledIsFinal ==
    ASSUME TypeOK, [Next]_vars, NEW t \in Transfers, Settled(t)
    PROVE  status'[t] = status[t]
<1> USE DEF TypeOK, Settled
<1>1. CASE UNCHANGED status
  BY <1>1
<1>2. ASSUME NEW u \in Transfers, Register(u) PROVE status'[t] = status[t]
  BY <1>2 DEF Register
<1>3. ASSUME NEW u \in Transfers, NEW s \in {"sending", "done", "failed"}, UpdateStatus(u, s)
      PROVE  status'[t] = status[t]
  BY <1>3 DEF UpdateStatus
<1> QED
  BY <1>1, <1>2, <1>3, StreamCases
  DEF Get, Disconnect, Leave, ScanSending, ScanReceiving, Idle, ReadStatusWord, Emit, vars

\* What an Emit step shows: "completed" or "failed" only of a transfer that has
\* ended so, torn strings included, because no two final statuses and no final
\* and open one have the same length.
LEMMA EmitIsTruthful ==
    ASSUME TypeOK, PickKnown, NEW c \in Clients, Emit(c)
    PROVE  LET shown == toAPIStatus(TornString(word[c], status[pick[c]])) IN
           /\ pick[c] \in Transfers
           /\ shown \in {"preparing", "transferring", "completed", "failed"}
           /\ shown = "completed" => status[pick[c]] = "done"
           /\ shown = "failed" => status[pick[c]] = "failed"
<1> DEFINE now == status[pick[c]]
<1>1. pick[c] \in Transfers /\ word[c] \in Statuses /\ now \in Statuses
  BY DEF TypeOK, PickKnown, Emit
<1>2. word[c] \in {"done", "failed"} => now = word[c]
  BY DEF PickKnown, Emit
<1>3. toAPIStatus(TornString(word[c], now)) = "completed" => word[c] = "done"
  BY <1>1 DEF toAPIStatus, TornString, Statuses
<1>4. toAPIStatus(TornString(word[c], now)) = "failed" => word[c] = "failed"
  BY <1>1 DEF toAPIStatus, TornString, Statuses
<1>5. toAPIStatus(TornString(word[c], now)) \in {"preparing", "transferring", "completed", "failed"}
  BY DEF toAPIStatus
<1> QED
  BY <1>1, <1>2, <1>3, <1>4, <1>5

\* Every variable keeps its type, and what the goroutines hold stays true.
THEOREM StreamTypeCorrect == Spec => [](TypeOK /\ PickKnown)
<1>1. Init => TypeOK /\ PickKnown
  BY DEF Init, TypeOK, PickKnown, Statuses, Event
<1>2. TypeOK /\ PickKnown /\ [Next]_vars => TypeOK' /\ PickKnown'
  <2> SUFFICES ASSUME TypeOK, PickKnown, [Next]_vars PROVE TypeOK' /\ PickKnown'
    OBVIOUS
  <2> USE StreamAssumption
      DEF TypeOK, PickKnown, Statuses, Event, Transfers, clientVars, ActiveOf
  <2>1. ASSUME NEW t \in Transfers, Register(t) PROVE TypeOK' /\ PickKnown'
    BY <2>1 DEF Register
  <2>2. ASSUME NEW t \in Transfers, NEW s \in {"sending", "done", "failed"}, UpdateStatus(t, s)
        PROVE  TypeOK' /\ PickKnown'
    <3>1. TypeOK'
      BY <2>2 DEF UpdateStatus
    <3>2. PickKnown'
      BY <2>2, SettledIsFinal DEF UpdateStatus, Settled
    <3> QED
      BY <3>1, <3>2
  <2>3. ASSUME NEW c \in Clients, Get(c) \/ Disconnect(c) \/ Leave(c)
        PROVE  TypeOK' /\ PickKnown'
    <3>1. CASE Get(c)
      BY <3>1 DEF Get
    <3>2. CASE Disconnect(c)
      BY <3>2 DEF Disconnect
    <3>3. CASE Leave(c)
      BY <3>3 DEF Leave
    <3> QED
      BY <2>3, <3>1, <3>2, <3>3
  <2>4. ASSUME NEW c \in Clients, ScanSending(c) PROVE TypeOK' /\ PickKnown'
    BY <2>4 DEF ScanSending
  <2>5. ASSUME NEW c \in Clients, ScanReceiving(c) PROVE TypeOK' /\ PickKnown'
    BY <2>5 DEF ScanReceiving
  <2>6. ASSUME NEW c \in Clients, Idle(c) PROVE TypeOK' /\ PickKnown'
    BY <2>6 DEF Idle
  <2>7. ASSUME NEW c \in Clients, ReadStatusWord(c) PROVE TypeOK' /\ PickKnown'
    BY <2>7 DEF ReadStatusWord
  <2>8. ASSUME NEW c \in Clients, Emit(c) PROVE TypeOK' /\ PickKnown'
    BY <2>8, EmitIsTruthful DEF Emit
  <2>9. CASE UNCHANGED vars
    BY <2>9 DEF vars
  <2> QED
    BY <2>1, <2>2, <2>3, <2>4, <2>5, <2>6, <2>7, <2>8, <2>9, StreamCases
<1> QED
  BY <1>1, <1>2, PTL DEF Spec

\* A "done" event is the truth when it is sent, and stays it.
LEMMA DoneIsTruthfulStep ==
    TypeOK /\ PickKnown /\ DoneIsTruthful /\ [Next]_vars => DoneIsTruthful'
<1> SUFFICES ASSUME TypeOK, PickKnown, DoneIsTruthful, [Next]_vars,
                    NEW c \in Clients, event'[c].kind = "done"
             PROVE  LET t == event'[c].transfer IN
                    /\ t \in Transfers
                    /\ status'[t] \in {"done", "failed"}
                    /\ event'[c].status = "completed" <=> status'[t] = "done"
  BY DEF DoneIsTruthful, Settled
<1>1. CASE event'[c] = event[c]
  BY <1>1, SettledIsFinal DEF DoneIsTruthful, Settled
<1>2. CASE Emit(c)
  BY <1>2, EmitIsTruthful DEF Emit, Event, TypeOK
<1>3. event'[c] = event[c] \/ Emit(c)
  <2> USE DEF TypeOK, Event, vars, clientVars
  <2>1. ASSUME NEW d \in Clients, Emit(d) PROVE event'[c] = event[c] \/ Emit(c)
    BY <2>1 DEF Emit
  <2>2. ASSUME NEW d \in Clients, Get(d) \/ Disconnect(d) \/ Leave(d) \/ Idle(d)
        PROVE  event'[c] = event[c]
    BY <2>2 DEF Get, Disconnect, Leave, Idle
  <2> QED
    BY <2>1, <2>2, StreamCases
    DEF Register, UpdateStatus, ScanSending, ScanReceiving, ReadStatusWord
<1> QED
  BY <1>1, <1>2, <1>3

\* A done event is true of its transfer when it is sent, and stays so, for ends are
\* final; a torn read of the status is no end.
THEOREM DoneTruthful == Spec => []DoneIsTruthful
<1>1. Init => DoneIsTruthful
  BY DEF Init, DoneIsTruthful, Event
<1> QED
  BY <1>1, DoneIsTruthfulStep, StreamTypeCorrect, PTL DEF Spec

-----------------------------------------------------------------------------
\* A stream goroutine between its two searches that has found nothing: no send
\* has been active all the time since the tick, and what has been is so still.
SteadyKnown ==
    \A c \in Clients :
        /\ steady[c] \subseteq ActiveOf(Transfers)
        /\ pc[c] = "receiving" /\ pick[c] = NoTransfer => steady[c] \cap Sends = {}

\* The history variable restricts nothing.
LEMMA StreamHistoryOnly == HSpec => Spec
<1>1. HInit => Init
  BY DEF HInit
<1>2. [HNext]_hvars => [Next]_vars
  BY DEF HNext, hvars
<1> QED
  BY <1>1, <1>2, PTL DEF HSpec, Spec

LEMMA SteadyKnownStep ==
    TypeOK /\ TypeOK' /\ PickKnown /\ SteadyKnown /\ [HNext]_hvars => SteadyKnown'
<1> SUFFICES ASSUME TypeOK, TypeOK', PickKnown, SteadyKnown, [HNext]_hvars, NEW c \in Clients
             PROVE  /\ steady'[c] \subseteq ActiveOf(Transfers)'
                    /\ pc'[c] = "receiving" /\ pick'[c] = NoTransfer
                          => steady'[c] \cap Sends = {}
  BY DEF SteadyKnown
<1>1. CASE UNCHANGED hvars
  BY <1>1 DEF hvars, vars, SteadyKnown, ActiveOf, Active
<1>2. CASE HNext
  <2>1. steady'[c] = ActiveOf(Transfers)' \cap
            IF ~Serves(c) THEN {} ELSE IF Takes(c) THEN ActiveOf(Transfers) ELSE steady[c]
    BY <1>2 DEF HNext
  <2>2. ASSUME pc'[c] = "receiving", pick'[c] = NoTransfer
        PROVE  steady'[c] \cap Sends = {}
    <3>1. CASE ScanSending(c)
      <4>1. pc[c] = "waiting"
        BY <3>1 DEF ScanSending
      <4>2. ActiveOf(Sends) = {}
        BY <2>2, <3>1, StreamAssumption DEF ScanSending, TypeOK, ActiveOf
      <4>3. steady'[c] \subseteq ActiveOf(Transfers)
        BY <2>1, <2>2, <4>1 DEF Takes
      <4> QED
        BY <4>2, <4>3 DEF ActiveOf
    <3>2. CASE pc[c] = "receiving" /\ pick[c] = NoTransfer
      <4>1. steady'[c] \subseteq steady[c]
        BY <2>1, <2>2, <3>2 DEF Takes
      <4> QED
        BY <3>2, <4>1 DEF SteadyKnown
    <3>3. ScanSending(c) \/ (pc[c] = "receiving" /\ pick[c] = NoTransfer)
      <4> USE <2>2 DEF TypeOK, clientVars
      <4>1. ASSUME NEW d \in Clients, ScanSending(d)
            PROVE  ScanSending(c) \/ (pc[c] = "receiving" /\ pick[c] = NoTransfer)
        <5>1. CASE d = c
          BY <4>1, <5>1
        <5>2. CASE d # c
          BY <4>1, <5>2 DEF ScanSending
        <5> QED
          BY <5>1, <5>2
      <4>2. ASSUME NEW d \in Clients,
                   \/ Get(d) \/ Disconnect(d) \/ Leave(d) \/ ScanReceiving(d)
                   \/ Idle(d) \/ ReadStatusWord(d) \/ Emit(d)
            PROVE  pc[c] = "receiving" /\ pick[c] = NoTransfer
        BY <4>2 DEF Get, Disconnect, Leave, ScanReceiving, Idle, ReadStatusWord, Emit
      <4> QED
        BY <1>2, <4>1, <4>2, StreamCases DEF HNext, Register, UpdateStatus
    <3> QED
      BY <3>1, <3>2, <3>3
  <2> QED
    BY <2>1, <2>2
<1> QED
  BY <1>1, <1>2

\* The "idle" event hides no transfer that was active all the time since the
\* tick: sends were looked for at the tick, receives just now.
THEOREM IdleHidesNothingSteady == HSpec => IdleHidesNoSteadyTransfer
<1>1. HInit => SteadyKnown
  BY DEF HInit, Init, SteadyKnown
<1>2. HSpec => [](TypeOK /\ PickKnown)
  BY StreamHistoryOnly, StreamTypeCorrect
<1>3. TypeOK /\ PickKnown /\ SteadyKnown /\ [HNext]_hvars
        => [\A c \in Clients :
              pc[c] = "receiving" /\ pc'[c] = "waiting" => steady[c] = {}]_hvars
  <2> SUFFICES ASSUME TypeOK, PickKnown, SteadyKnown, HNext,
                      NEW c \in Clients, pc[c] = "receiving", pc'[c] = "waiting"
               PROVE  steady[c] = {}
    OBVIOUS
  <2>1. Idle(c)
    <3> USE DEF TypeOK, clientVars
    <3>1. ASSUME NEW d \in Clients, Idle(d) PROVE Idle(c)
      BY <3>1 DEF Idle
    <3>2. ASSUME NEW d \in Clients,
                 \/ Get(d) \/ Disconnect(d) \/ Leave(d) \/ ScanSending(d)
                 \/ ScanReceiving(d) \/ ReadStatusWord(d) \/ Emit(d)
          PROVE  FALSE
      BY <3>2 DEF Get, Disconnect, Leave, ScanSending, ScanReceiving, ReadStatusWord, Emit
    <3> QED
      BY <3>1, <3>2, StreamCases DEF HNext, Register, UpdateStatus
  <2> QED
    BY <2>1 DEF Idle, SteadyKnown, ActiveOf, Transfers
<1>4. TypeOK /\ TypeOK' /\ PickKnown /\ SteadyKnown /\ [HNext]_hvars => SteadyKnown'
  BY SteadyKnownStep
<1> QED
  BY <1>1, <1>2, <1>3, <1>4, PTL DEF HSpec, IdleHidesNoSteadyTransfer

-----------------------------------------------------------------------------
\* What a stream goroutine has picked was active since the tick.
SeenKnown ==
    \A c \in Clients :
        /\ pc[c] = "receiving" => pick[c] \in seen[c] \cup {NoTransfer}
        /\ pc[c] \in {"status", "emit"} => pick[c] \in seen[c]

\* One step of a stream goroutine between its tick and its event: it picks what is
\* active at that moment, or keeps what it has.
LEMMA PicksActive ==
    ASSUME TypeOK, HNext, NEW c \in Clients, Serves(c)
    PROVE  \/ Takes(c) /\ pick'[c] \in ActiveOf(Transfers) \cup {NoTransfer}
           \/ pc[c] = "receiving" /\ pick'[c] \in ActiveOf(Transfers)'
           \/ pc'[c] = pc[c] /\ pick'[c] = pick[c]
           \/ pc[c] = "receiving" /\ pick'[c] = pick[c] /\ pick[c] # NoTransfer
           \/ pc[c] = "status" /\ pick'[c] = pick[c]
<1> USE DEF TypeOK, Serves, Takes, clientVars
<1>1. CASE \E t \in Transfers : Transfer(t)
  BY <1>1 DEF Transfer, Register, UpdateStatus
<1>2. ASSUME NEW d \in Clients, d # c, Get(d) \/ Disconnect(d) \/ Stream(d)
      PROVE  pc'[c] = pc[c] /\ pick'[c] = pick[c]
  BY <1>2 DEF Get, Disconnect, Stream, ScanSending, ScanReceiving, Idle, ReadStatusWord, Emit, Leave
<1>3. CASE Get(c) \/ Disconnect(c) \/ Leave(c) \/ Idle(c) \/ Emit(c)
  BY <1>3 DEF Get, Disconnect, Leave, Idle, Emit
<1>4. CASE ScanSending(c)
  <2>1. pick'[c] \in ActiveOf(Sends) \cup {NoTransfer}
    BY <1>4 DEF ScanSending
  <2>2. ActiveOf(Sends) \subseteq ActiveOf(Transfers)
    BY DEF ActiveOf, Transfers
  <2> QED
    BY <1>4, <2>1, <2>2 DEF ScanSending
<1>5. CASE ScanReceiving(c)
  <2>1. UNCHANGED status /\ pc[c] = "receiving"
    BY <1>5 DEF ScanReceiving
  <2>2. ActiveOf(Recvs) \subseteq ActiveOf(Transfers)'
    BY <2>1 DEF ActiveOf, Active, Transfers
  <2>3. CASE pick[c] # NoTransfer
    BY <1>5, <2>1, <2>3 DEF ScanReceiving
  <2>4. CASE pick[c] = NoTransfer
    <3>1. pick'[c] \in ActiveOf(Recvs)
      BY <1>5, <2>4 DEF ScanReceiving
    <3> QED
      BY <2>1, <2>2, <3>1
  <2> QED
    BY <2>3, <2>4
<1>6. CASE ReadStatusWord(c)
  BY <1>6 DEF ReadStatusWord
<1> QED
  BY <1>1, <1>2, <1>3, <1>4, <1>5, <1>6 DEF HNext, Next, Stream

LEMMA SeenKnownStep ==
    TypeOK /\ SeenKnown /\ [HNext]_hvars => SeenKnown'
<1> SUFFICES ASSUME TypeOK, SeenKnown, [HNext]_hvars, NEW c \in Clients
             PROVE  /\ pc'[c] = "receiving" => pick'[c] \in seen'[c] \cup {NoTransfer}
                    /\ pc'[c] \in {"status", "emit"} => pick'[c] \in seen'[c]
  BY DEF SeenKnown
<1>1. CASE UNCHANGED hvars
  BY <1>1 DEF hvars, vars, SeenKnown
<1>2. CASE HNext /\ Serves(c)
  <2>1. seen'[c] = ActiveOf(Transfers)' \cup IF Takes(c) THEN ActiveOf(Transfers) ELSE seen[c]
    BY <1>2 DEF HNext
  <2>2. CASE Takes(c) /\ pick'[c] \in ActiveOf(Transfers) \cup {NoTransfer}
    BY <2>1, <2>2 DEF Takes
  <2>3. CASE ~Takes(c)
    BY <1>2, <2>1, <2>3, PicksActive DEF SeenKnown
  <2>4. Takes(c) => pc[c] = "waiting" /\ pc'[c] = "receiving"
    BY DEF Takes
  <2> QED
    BY <1>2, <2>2, <2>3, <2>4, PicksActive
<1>3. CASE ~Serves(c)
  BY <1>3 DEF Serves
<1> QED
  BY <1>1, <1>2, <1>3

\* An event is about a transfer that was active at some moment since the tick,
\* not about one that is only still in the tables.
THEOREM ShownWasActive == HSpec => ShowsOnlyActive
<1>1. HInit => SeenKnown
  BY DEF HInit, Init, SeenKnown
<1>2. HSpec => []TypeOK
  BY StreamHistoryOnly, StreamTypeCorrect, PTL
<1>3. TypeOK /\ SeenKnown /\ [HNext]_hvars
        => [\A c \in Clients :
              pc[c] = "emit" /\ pc'[c] # "emit" => event'[c].transfer \in seen[c]]_hvars
  <2> SUFFICES ASSUME TypeOK, SeenKnown, HNext,
                      NEW c \in Clients, pc[c] = "emit", pc'[c] # "emit"
               PROVE  event'[c].transfer \in seen[c]
    OBVIOUS
  <2>1. Emit(c)
    <3> USE DEF TypeOK, clientVars
    <3>1. ASSUME NEW d \in Clients, Emit(d) PROVE Emit(c)
      BY <3>1 DEF Emit
    <3>2. ASSUME NEW d \in Clients,
                 \/ Get(d) \/ Disconnect(d) \/ Leave(d) \/ ScanSending(d)
                 \/ ScanReceiving(d) \/ Idle(d) \/ ReadStatusWord(d)
          PROVE  FALSE
      BY <3>2 DEF Get, Disconnect, Leave, ScanSending, ScanReceiving, Idle, ReadStatusWord
    <3> QED
      BY <3>1, <3>2, StreamCases DEF HNext, Register, UpdateStatus
  <2>2. event'[c].transfer = pick[c]
    BY <2>1 DEF Emit, Event, TypeOK
  <2> QED
    BY <2>2 DEF SeenKnown
<1> QED
  BY <1>1, <1>2, <1>3, SeenKnownStep, PTL DEF HSpec, ShowsOnlyActive
=============================================================================
