---------------------- MODULE SerialisedRequestsProofs ----------------------
(***************************************************************************)
(* Proof that a client whose requests for a peer do not overlap never has a*)
(* connection to it left open and unwatched.                               *)
(***************************************************************************)
EXTENDS SerialisedRequests, ConnectionManagerProofs

\* The history variable restricts nothing: what Spec implies, HSpec implies.
LEMMA HistoryOnly == HSpec => Spec
<1>1. HInit => Init
  BY DEF HInit
<1>2. [HNext]_hvars => [Next]_vars
  BY DEF HNext, hvars
<1> QED
  BY <1>1, <1>2, PTL DEF HSpec, Spec

\* Once two requests for a peer are seen they are remembered, and so two
\* requests nobody remembers do not exist.
LEMMA OverlapsKnownStep ==
    TypeOK /\ OverlapsKnown /\ [HNext]_hvars => OverlapsKnown' /\ overlapped \subseteq overlapped'
BY DEF OverlapsKnown, HNext, hvars, vars, reqVars, Overlapping

\* The entry of p and what is open for it: nothing but CloseRegistered, Evict
\* and StoreConn writes the entry.
LEMMA EntryAsSeenStep ==
    /\ TypeOK /\ TypeOK' /\ WellFormed
    /\ OverlapsKnown /\ EntryAsSeen /\ [HNext]_hvars
    => EntryAsSeen'
<1> SUFFICES ASSUME TypeOK, TypeOK', WellFormed, OverlapsKnown, EntryAsSeen, [HNext]_hvars,
                    NEW h \in Handlers, hpeer'[h] \notin overlapped'
             PROVE  /\ pc'[h] \in {"check", "evict"} =>
                          connections'[hpeer'[h]] \in {hrec'[h], NoRec}
                    /\ pc'[h] \in {"punch", "wait", "store"} => connections'[hpeer'[h]] = NoRec
  BY DEF EntryAsSeen
<1> DEFINE Seen == /\ pc'[h] \in {"check", "evict"} =>
                          connections'[hpeer'[h]] \in {hrec'[h], NoRec}
                   /\ pc'[h] \in {"punch", "wait", "store"} => connections'[hpeer'[h]] = NoRec
<1>1. [Next]_vars /\ hpeer'[h] \notin overlapped
  BY OverlapsKnownStep DEF HNext, hvars
<1> HIDE DEF Seen
<1>2. ASSUME pc'[h] = "idle" PROVE Seen
  BY <1>2 DEF Seen
<1> USE ConstantsAssumption
    DEF TypeOK, EntryAsSeen, recVars, reqVars, netVars, WellFormed, RequestHasPeer, InFlight
<1>3. ASSUME UNCHANGED <<pc, hpeer, hrec, connections>> PROVE Seen
  BY <1>1, <1>3 DEF Seen
<1>4. ASSUME NEW g \in Handlers, NEW p \in Peers, Connect(g, p) PROVE Seen
  BY <1>1, <1>4 DEF Seen, Connect
<1>5. ASSUME NEW g \in Handlers, LookupExisting(g) PROVE Seen
  BY <1>1, <1>5 DEF Seen, LookupExisting
<1>6. ASSUME NEW g \in Handlers, ReuseExisting(g) \/ PunchFails(g) \/ SpawnKeepAlive(g)
      PROVE  Seen
  BY <1>1, <1>6 DEF Seen, ReuseExisting, PunchFails, SpawnKeepAlive, Return
<1>7. ASSUME NEW g \in Handlers, FoundDead(g) \/ HolePunch(g) PROVE Seen
  BY <1>1, <1>7 DEF Seen, FoundDead, HolePunch
<1>8. ASSUME NEW g \in Handlers, Evict(g) PROVE Seen
  BY <1>1, <1>8 DEF Seen, Evict
<1>9. ASSUME NEW g \in Handlers, NEW c \in Conns, WaitForDirectConn(g, c) PROVE Seen
  BY <1>1, <1>9 DEF Seen, WaitForDirectConn
<1>10. ASSUME NEW g \in Handlers, NEW r \in Records, StoreConn(g, r) PROVE Seen
  <2>1. CASE g = h
    BY <1>10, <2>1 DEF Seen, StoreConn
  <2>2. CASE g # h /\ pc[h] # "idle"
    <3>1. hpeer[h] \in Peers \ overlapped /\ hpeer[g] # hpeer[h]
      BY <1>1, <1>10, <2>2 DEF StoreConn, OverlapsKnown, Overlapping
    <3> QED
      BY <1>10, <2>2, <3>1 DEF Seen, StoreConn
  <2>3. CASE g # h /\ pc[h] = "idle"
    BY <1>10, <2>3, <1>2 DEF StoreConn
  <2> QED
    BY <2>1, <2>2, <2>3
<1>11. ASSUME NEW ps \in SUBSET Peers, CloseRegistered(ps), UNCHANGED reqVars PROVE Seen
  BY <1>1, <1>11 DEF Seen, CloseRegistered
<1>12. ASSUME NEW r \in Records, CloseConn(r) PROVE Seen
  <2>1. recPeer[r] \in Peers
    BY <1>12 DEF CloseConn, RecordsWellFormed
  <2> QED
    BY <1>11, <1>12, <2>1 DEF CloseConn
<1>13. ASSUME CloseAllConns PROVE Seen
  BY <1>11, <1>13 DEF CloseAllConns
<1>14. Seen
  BY <1>1, <1>3, <1>4, <1>5, <1>6, <1>7, <1>8, <1>9, <1>10, <1>12, <1>13, NextCases
  DEF Tick, PingOk, PingFails, StopSeen, ConnAppears, ConnDies, vars
<1> QED
  BY <1>14 DEF Seen

\* A record that is open and was registered stays registered: only Evict, which
\* takes away dead entries, StoreConn, which meets none, and CloseRegistered,
\* which closes them, could end that.
LEMMA OpenIsRegisteredStep ==
    /\ TypeOK /\ WellFormed /\ EvictSawDead
    /\ OverlapsKnown /\ EntryAsSeen /\ OpenIsRegistered /\ [HNext]_hvars
    => OpenIsRegistered'
<1> SUFFICES ASSUME TypeOK, WellFormed, EvictSawDead, OverlapsKnown, EntryAsSeen,
                    OpenIsRegistered, [HNext]_hvars,
                    NEW s \in Records,
                    Allocated(s)', ~IsClosed(s)', recPeer'[s] \notin overlapped'
             PROVE  connections'[recPeer'[s]] = s
  BY DEF OpenIsRegistered
<1> DEFINE Kept == connections'[recPeer'[s]] = s
<1>1. [Next]_vars /\ recPeer'[s] \notin overlapped
  BY OverlapsKnownStep DEF HNext, hvars
<1>2. Allocated(s) => ~IsClosed(s)
  BY <1>1, ClosedStaysClosed
<1> USE ConstantsAssumption
    DEF TypeOK, OpenIsRegistered, Allocated, recVars, reqVars, netVars
<1>3. ASSUME UNCHANGED <<recPeer, recConn, connections>> PROVE Kept
  BY <1>1, <1>2, <1>3
<1>4. ASSUME NEW h \in Handlers, Evict(h) PROVE Kept
  <2>1. Allocated(s) /\ connections[recPeer[s]] = s /\ recPeer'[s] = recPeer[s]
    BY <1>1, <1>2, <1>4 DEF Evict
  <2>2. CASE hpeer[h] = recPeer[s]
    <3>1. s = hrec[h]
      BY <1>1, <1>4, <2>1, <2>2 DEF Evict, EntryAsSeen
    <3> QED
      BY <1>2, <1>4, <2>1, <3>1 DEF Evict, EvictSawDead
  <2>3. CASE hpeer[h] # recPeer[s]
    BY <1>4, <2>1, <2>3 DEF Evict
  <2> QED
    BY <2>2, <2>3
<1>5. ASSUME NEW h \in Handlers, NEW r \in Records, StoreConn(h, r) PROVE Kept
  <2>1. hpeer[h] \in Peers
    BY <1>5 DEF StoreConn, WellFormed, RequestHasPeer, InFlight
  <2>2. CASE s = r
    BY <1>5, <2>1, <2>2 DEF StoreConn
  <2>3. CASE s # r
    <3>1. Allocated(s) /\ connections[recPeer[s]] = s /\ recPeer'[s] = recPeer[s]
      BY <1>1, <1>2, <1>5, <2>3 DEF StoreConn
    <3>2. hpeer[h] # recPeer[s]
      BY <1>1, <1>5, <3>1 DEF StoreConn, EntryAsSeen
    <3> QED
      BY <1>5, <3>1, <3>2 DEF StoreConn
  <2> QED
    BY <2>2, <2>3
<1>6. ASSUME NEW ps \in SUBSET Peers, CloseRegistered(ps), UNCHANGED recVars PROVE Kept
  <2>1. Allocated(s) /\ connections[recPeer[s]] = s /\ recPeer'[s] = recPeer[s]
    BY <1>1, <1>2, <1>6
  <2>2. recPeer[s] \in Peers
    BY <2>1 DEF WellFormed, RecordsWellFormed
  <2>3. recPeer[s] \notin ps
    BY <1>6, <2>1, <2>2 DEF CloseRegistered, IsClosed
  <2> QED
    BY <1>6, <2>1, <2>2, <2>3 DEF CloseRegistered
<1>7. ASSUME NEW r \in Records, CloseConn(r) PROVE Kept
  <2>1. recPeer[r] \in Peers
    BY <1>7 DEF CloseConn, WellFormed, RecordsWellFormed
  <2> QED
    BY <1>6, <1>7, <2>1 DEF CloseConn
<1>8. CASE CloseAllConns
  BY <1>6, <1>8 DEF CloseAllConns
<1>9. Kept
  BY <1>1, <1>3, <1>4, <1>5, <1>7, <1>8, NextCases
  DEF Connect, LookupExisting, ReuseExisting, FoundDead, PunchFails, HolePunch,
      WaitForDirectConn, SpawnKeepAlive, Tick, PingOk, PingFails, StopSeen,
      ConnAppears, ConnDies, vars
<1> QED
  BY <1>9

\* What requests that do not overlap know of the table, and what is open.
THEOREM SerialisedInvariant == HSpec => []Serialised
<1>1. HInit => Serialised
  BY ConstantsAssumption
  DEF HInit, Init, Serialised, OverlapsKnown, Overlapping, OpenIsRegistered, EntryAsSeen,
      Allocated
<1>2. TypeOK /\ TypeOK' /\ WellFormed /\ EvictSawDead /\ Serialised /\ [HNext]_hvars
        => Serialised'
  BY OverlapsKnownStep, EntryAsSeenStep, OpenIsRegisteredStep DEF Serialised
<1> QED
  BY <1>1, <1>2, HistoryOnly, TypeCorrect, WellFormedInvariant, EvictsOnlyDead, PTL
  DEF HSpec

\* Requests for a peer that come one after the other leave no connection to it
\* open without its keepAlive: an open one is in the table, and what is in the
\* table is watched.
THEOREM SerialisedMaintained == HSpec => []SerialisedStaysMaintained
<1>1. WellFormed /\ RegisteredIsMaintained /\ Serialised => SerialisedStaysMaintained
  BY ConstantsAssumption
  DEF WellFormed, RecordsWellFormed, RegisteredIsMaintained, Serialised, OpenIsRegistered,
      SerialisedStaysMaintained, Registered
<1> QED
  BY <1>1, HistoryOnly, WellFormedInvariant, RegisteredMaintained, SerialisedInvariant, PTL

\* What a step does to the table itself: StoreConn writes an entry, nothing else
\* does more than to remove some.
LEMMA TableStep ==
    ASSUME TypeOK, WellFormed, [Next]_vars
    PROVE  \/ /\ recPeer' = recPeer /\ recConn' = recConn
              /\ \A p \in Peers : connections'[p] \in {connections[p], NoRec}
           \/ \E h \in Handlers, r \in Records : StoreConn(h, r)
<1> DEFINE Removes == /\ recPeer' = recPeer /\ recConn' = recConn
                      /\ \A p \in Peers : connections'[p] \in {connections[p], NoRec}
<1> USE DEF recVars, reqVars, netVars
<1>1. ASSUME UNCHANGED <<recPeer, recConn, connections>> PROVE Removes
  BY <1>1
<1>2. ASSUME NEW h \in Handlers, Evict(h) PROVE Removes
  BY <1>2 DEF Evict, TypeOK
<1>3. ASSUME NEW r \in Records, CloseConn(r) PROVE Removes
  BY <1>3 DEF CloseConn, CloseRegistered
<1>4. ASSUME CloseAllConns PROVE Removes
  BY <1>4 DEF CloseAllConns, CloseRegistered
<1> HIDE DEF Removes
<1>5. Removes \/ \E h \in Handlers, r \in Records : StoreConn(h, r)
  BY <1>1, <1>2, <1>3, <1>4, NextCases
  DEF Connect, LookupExisting, ReuseExisting, FoundDead, PunchFails, HolePunch,
      WaitForDirectConn, SpawnKeepAlive, Tick, PingOk, PingFails, StopSeen,
      ConnAppears, ConnDies, vars
<1> QED
  BY <1>5 DEF Removes

\* A step that stores nothing closes connections and removes records that are
\* closed by then. A peer whose requests come to overlap counts as removed.
LEMMA RemovingRefines ==
    ASSUME TypeOK, WellFormed, EntriesWellFormed', OpenIsRegistered', [HNext]_hvars,
           OverlapsKnown,
           recPeer' = recPeer, recConn' = recConn,
           \A p \in Peers : connections'[p] \in {connections[p], NoRec}
    PROVE  \E ps \in SUBSET Peers : T!CloseAndRemove(ps)
<1>1. [Next]_vars /\ overlapped \subseteq overlapped'
  BY OverlapsKnownStep DEF HNext, hvars
<1>2. SerialOpen' \subseteq SerialOpen
  <2> SUFFICES ASSUME NEW r \in SerialOpen'
               PROVE  r \in SerialOpen
    OBVIOUS
  <2>1. r \in Records /\ Allocated(r)' /\ ~IsClosed(r)' /\ recPeer'[r] \notin overlapped'
    BY DEF SerialOpen
  <2>2. Allocated(r) /\ recPeer[r] \notin overlapped
    BY <1>1, <2>1 DEF Allocated
  <2>3. ~IsClosed(r)
    BY <1>1, <2>1, <2>2, ClosedStaysClosed
  <2> QED
    BY <2>1, <2>2, <2>3 DEF SerialOpen
<1> DEFINE ps == {p \in Peers : SerialEntries'[p] = NoRec}
<1>3. ASSUME NEW p \in ps
      PROVE  SerialEntries[p] \notin SerialOpen'
  <2> SUFFICES ASSUME NEW r \in SerialOpen', SerialEntries[p] = r
               PROVE  FALSE
    OBVIOUS
  <2>1. r \in Records /\ Allocated(r)' /\ ~IsClosed(r)' /\ recPeer'[r] \notin overlapped'
    BY DEF SerialOpen
  <2>2. r # NoRec
    BY <2>1, ConstantsAssumption
  <2>3. r = connections[p]
    BY <2>2 DEF SerialEntries
  <2>4. recPeer[r] = p
    BY <2>2, <2>3 DEF WellFormed, EntriesWellFormed
  <2>5. connections'[p] = r /\ p \notin overlapped'
    BY <2>1, <2>4 DEF OpenIsRegistered
  <2> QED
    BY <2>2, <2>5 DEF SerialEntries
<1>4. SerialEntries' = [p \in Peers |-> IF p \in ps THEN NoRec ELSE SerialEntries[p]]
  BY <1>1 DEF SerialEntries
<1> QED
  BY <1>2, <1>3, <1>4 DEF T!CloseAndRemove

\* Storing a record for a peer without overlap fills an empty place; for another
\* peer it is not seen.
LEMMA StoringRefines ==
    ASSUME TypeOK, WellFormed, OverlapsKnown, EntryAsSeen, [HNext]_hvars,
           NEW h \in Handlers, NEW r \in Records, StoreConn(h, r)
    PROVE  [T!Next]_(T!vars)
<1> DEFINE p == hpeer[h]
<1>1. p \in Peers
  BY DEF StoreConn, WellFormed, RequestHasPeer, InFlight
<1>2. overlapped' = overlapped
  <2>1. \A q \in Peers : Overlapping(q)' <=> Overlapping(q)
    BY DEF StoreConn, Overlapping
  <2> QED
    BY <2>1 DEF HNext, hvars, OverlapsKnown
<1>3. /\ ~Allocated(r) /\ hconn[h] \in Conns
      /\ recPeer' = [recPeer EXCEPT ![r] = p] /\ recConn' = [recConn EXCEPT ![r] = hconn[h]]
      /\ connections' = [connections EXCEPT ![p] = r]
      /\ connUp' = connUp
  BY DEF StoreConn, WellFormed, RequestsWellFormed, netVars
<1>4. /\ connections \in [Peers -> Records \cup {NoRec}]
      /\ recPeer \in [Records -> Peers \cup {NoPeer}]
      /\ recConn \in [Records -> Conns \cup {NoConn}]
  BY DEF TypeOK
<1>5. \A q \in Peers : connections[q] # r
  BY <1>3, ConstantsAssumption DEF WellFormed, RecordsWellFormed, Registered, Allocated
<1>6. r \notin SerialOpen /\ \A q \in Peers : SerialEntries[q] # r
  BY <1>3, <1>5, ConstantsAssumption DEF SerialOpen, SerialEntries
<1>7. \A s \in Records \ {r} : s \in SerialOpen' <=> s \in SerialOpen
  BY <1>2, <1>3, <1>4 DEF SerialOpen, Allocated, IsClosed
<1>8. SerialOpen \subseteq Records /\ SerialOpen' \subseteq Records
  BY DEF SerialOpen
<1> HIDE DEF p
<1>9. CASE p \in overlapped
  <2>1. SerialEntries' = SerialEntries
    BY <1>1, <1>2, <1>3, <1>4, <1>9 DEF SerialEntries
  <2>2. r \notin SerialOpen'
    BY <1>2, <1>3, <1>4, <1>9 DEF SerialOpen
  <2>3. SerialOpen' = SerialOpen
    BY <1>6, <1>7, <1>8, <2>2
  <2> QED
    BY <2>1, <2>3 DEF T!vars
<1>10. CASE p \notin overlapped
  <2>1. SerialEntries[p] = NoRec
    BY <1>1, <1>10 DEF SerialEntries, EntryAsSeen, StoreConn, p
  <2>2. SerialEntries' = [SerialEntries EXCEPT ![p] = r]
    BY <1>1, <1>2, <1>3, <1>4, <1>10 DEF SerialEntries
  <2>3. SerialOpen' = SerialOpen \/ SerialOpen' = SerialOpen \cup {r}
    BY <1>6, <1>7, <1>8
  <2>4. T!Store(p, r)
    BY <1>6, <2>1, <2>2, <2>3 DEF T!Store
  <2> QED
    BY <1>1, <2>4 DEF T!Next
<1> QED
  BY <1>9, <1>10

\* The requests, goroutines and locks of p2p_service.go implement a plain table
\* for the clients that issue their requests to a peer one after the other.
THEOREM SerialisedImplementsTable == HSpec => ImplementsTable
<1>1. HInit => T!Init
  BY DEF HInit, Init, T!Init, SerialEntries, SerialOpen, Allocated
<1>2. TypeOK /\ WellFormed /\ WellFormed' /\ Serialised /\ Serialised' /\ [HNext]_hvars
        => [T!Next]_(T!vars)
  <2> SUFFICES ASSUME TypeOK, WellFormed, WellFormed', Serialised, Serialised', [HNext]_hvars
               PROVE  [T!Next]_(T!vars)
    OBVIOUS
  <2>1. [Next]_vars
    BY DEF HNext, hvars
  <2>2. CASE \E h \in Handlers, r \in Records : StoreConn(h, r)
    BY <2>2, StoringRefines DEF Serialised
  <2>3. CASE /\ recPeer' = recPeer /\ recConn' = recConn
             /\ \A p \in Peers : connections'[p] \in {connections[p], NoRec}
    BY <2>3, RemovingRefines DEF Serialised, WellFormed, T!Next
  <2> QED
    BY <2>1, <2>2, <2>3, TableStep
<1> QED
  BY <1>1, <1>2, HistoryOnly, TypeCorrect, WellFormedInvariant, SerialisedInvariant, PTL
  DEF HSpec, ImplementsTable, T!Spec
=============================================================================
