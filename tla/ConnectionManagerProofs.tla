----------------------- MODULE ConnectionManagerProofs -----------------------
(***************************************************************************)
(* Proofs that the connection table is sound for every number of peers,    *)
(* requests, records and connections.                                      *)
(***************************************************************************)
EXTENDS ConnectionManager, TLAPS

\* One name per disjunct of Next, so that each step proof splits on the same
\* list of operations.
LEMMA NextCases ==
    ASSUME Next
    PROVE  \/ \E h \in Handlers, p \in Peers : Connect(h, p)
           \/ \E h \in Handlers : LookupExisting(h)
           \/ \E h \in Handlers : ReuseExisting(h) \/ FoundDead(h) \/ PunchFails(h)
           \/ \E h \in Handlers : Evict(h)
           \/ \E h \in Handlers : HolePunch(h)
           \/ \E h \in Handlers, c \in Conns : WaitForDirectConn(h, c)
           \/ \E h \in Handlers, r \in Records : StoreConn(h, r)
           \/ \E h \in Handlers : SpawnKeepAlive(h)
           \/ \E r \in Records : Tick(r) \/ PingOk(r) \/ PingFails(r) \/ StopSeen(r)
           \/ \E r \in Records : CloseConn(r)
           \/ CloseAllConns
           \/ \E c \in Conns, p \in Peers : ConnAppears(c, p)
           \/ \E c \in Conns : ConnDies(c)
BY DEF Next, TryHolePunch, KeepAlive, Network

-----------------------------------------------------------------------------
\* Every variable keeps its type, whatever the constants.
THEOREM TypeCorrect == Spec => []TypeOK
<1> DEFINE Typed == TypeOK /\ RequestHasPeer
<1>1. Init => Typed
  BY DEF Init, TypeOK, KeepAlivePoints, RequestPoints, RequestHasPeer, InFlight
<1>2. Typed /\ [Next]_vars => Typed'
  <2> SUFFICES ASSUME TypeOK, RequestHasPeer, [Next]_vars PROVE Typed'
    OBVIOUS
  <2> USE DEF TypeOK, RequestHasPeer, InFlight, KeepAlivePoints, RequestPoints, recVars, reqVars, netVars
  <2>1. ASSUME NEW h \in Handlers, NEW p \in Peers, Connect(h, p) PROVE Typed'
    BY <2>1 DEF Connect
  <2>2. ASSUME NEW h \in Handlers, LookupExisting(h) PROVE Typed'
    BY <2>2 DEF LookupExisting
  <2>3. ASSUME NEW h \in Handlers, ReuseExisting(h) \/ FoundDead(h) \/ PunchFails(h)
        PROVE  Typed'
    BY <2>3 DEF ReuseExisting, FoundDead, PunchFails, Return
  <2>4. ASSUME NEW h \in Handlers, Evict(h) PROVE Typed'
    BY <2>4 DEF Evict
  <2>5. ASSUME NEW h \in Handlers, HolePunch(h) PROVE Typed'
    BY <2>5 DEF HolePunch
  <2>6. ASSUME NEW h \in Handlers, NEW c \in Conns, WaitForDirectConn(h, c) PROVE Typed'
    BY <2>6 DEF WaitForDirectConn
  <2>7. ASSUME NEW h \in Handlers, NEW r \in Records, StoreConn(h, r) PROVE Typed'
    BY <2>7 DEF StoreConn
  <2>8. ASSUME NEW h \in Handlers, SpawnKeepAlive(h) PROVE Typed'
    BY <2>8 DEF SpawnKeepAlive, Return
  <2>9. ASSUME NEW r \in Records, Tick(r) \/ PingOk(r) \/ PingFails(r) \/ StopSeen(r)
        PROVE  Typed'
    BY <2>9 DEF Tick, PingOk, PingFails, StopSeen
  <2>10. ASSUME NEW r \in Records, CloseConn(r) PROVE Typed'
    BY <2>10 DEF CloseConn, CloseRegistered
  <2>11. CASE CloseAllConns
    BY <2>11 DEF CloseAllConns, CloseRegistered
  <2>12. ASSUME NEW c \in Conns, NEW p \in Peers, ConnAppears(c, p) PROVE Typed'
    BY <2>12 DEF ConnAppears
  <2>13. ASSUME NEW c \in Conns, ConnDies(c) PROVE Typed'
    BY <2>13 DEF ConnDies
  <2>14. CASE UNCHANGED vars
    BY <2>14 DEF vars
  <2> QED
    BY <2>1, <2>2, <2>3, <2>4, <2>5, <2>6, <2>7, <2>8, <2>9, <2>10, <2>11, <2>12,
       <2>13, <2>14, NextCases
<1> QED
  BY <1>1, <1>2, PTL DEF Spec

-----------------------------------------------------------------------------
\* The strengthening: records, entries and the locals of the requests agree
\* with one another. A record is filed under its own peer, and the record a
\* request is about to watch is fresh and its alone, which is what lets an
\* entry be traced back to exactly one keepAlive goroutine.
LEMMA WellFormedStep ==
    TypeOK /\ TypeOK' /\ WellFormed /\ [Next]_vars => WellFormed'
<1> SUFFICES ASSUME TypeOK, TypeOK', WellFormed, [Next]_vars PROVE WellFormed'
  OBVIOUS
<1> USE ConstantsAssumption
    DEF TypeOK, WellFormed, RecordsWellFormed, EntriesWellFormed, RequestsWellFormed,
        RequestHasPeer, InFlight, Allocated, Registered, recVars, reqVars, netVars
<1>1. ASSUME NEW h \in Handlers, NEW p \in Peers, Connect(h, p) PROVE WellFormed'
  BY <1>1 DEF Connect
<1>2. ASSUME NEW h \in Handlers, LookupExisting(h) PROVE WellFormed'
  BY <1>2 DEF LookupExisting
<1>3. ASSUME NEW h \in Handlers, ReuseExisting(h) \/ FoundDead(h) \/ PunchFails(h)
      PROVE  WellFormed'
  BY <1>3 DEF ReuseExisting, FoundDead, PunchFails, Return
<1>4. ASSUME NEW h \in Handlers, Evict(h) PROVE WellFormed'
  BY <1>4 DEF Evict
<1>5. ASSUME NEW h \in Handlers, HolePunch(h) PROVE WellFormed'
  BY <1>5 DEF HolePunch
<1>6. ASSUME NEW h \in Handlers, NEW c \in Conns, WaitForDirectConn(h, c) PROVE WellFormed'
  BY <1>6 DEF WaitForDirectConn, IsRelayConn
<1>7. ASSUME NEW h \in Handlers, NEW r \in Records, StoreConn(h, r) PROVE WellFormed'
  <2>1. RecordsWellFormed'
    BY <1>7 DEF StoreConn
  <2>2. EntriesWellFormed'
    BY <1>7 DEF StoreConn
  <2>3. RequestHasPeer' /\ RequestsWellFormed'
    BY <1>7 DEF StoreConn
  <2> QED
    BY <2>1, <2>2, <2>3
<1>8. ASSUME NEW h \in Handlers, SpawnKeepAlive(h) PROVE WellFormed'
  BY <1>8 DEF SpawnKeepAlive, Return
<1>9. ASSUME NEW r \in Records, Tick(r) \/ PingOk(r) \/ PingFails(r) \/ StopSeen(r)
      PROVE  WellFormed'
  BY <1>9 DEF Tick, PingOk, PingFails, StopSeen
<1>10. ASSUME NEW r \in Records, CloseConn(r) PROVE WellFormed'
  BY <1>10 DEF CloseConn, CloseRegistered
<1>11. CASE CloseAllConns
  BY <1>11 DEF CloseAllConns, CloseRegistered
<1>12. ASSUME NEW c \in Conns, NEW p \in Peers, ConnAppears(c, p) PROVE WellFormed'
  BY <1>12 DEF ConnAppears
<1>13. ASSUME NEW c \in Conns, ConnDies(c) PROVE WellFormed'
  BY <1>13 DEF ConnDies
<1>14. CASE UNCHANGED vars
  BY <1>14 DEF vars
<1> QED
  BY <1>1, <1>2, <1>3, <1>4, <1>5, <1>6, <1>7, <1>8, <1>9, <1>10, <1>11, <1>12,
     <1>13, <1>14, NextCases

\* Records, entries and the locals of every request fit together between any two
\* sections under the lock; what follows about the table rests on it.
THEOREM WellFormedInvariant == Spec => []WellFormed
<1>1. Init => WellFormed
  BY ConstantsAssumption
  DEF Init, WellFormed, RecordsWellFormed, EntriesWellFormed, RequestHasPeer, InFlight,
      RequestsWellFormed, Allocated, Registered
<1> QED
  BY <1>1, WellFormedStep, TypeCorrect, PTL DEF Spec

-----------------------------------------------------------------------------
\* The entry of a peer is a direct connection to that peer: relays are never
\* stored, and two peers never get each other's connection.
THEOREM EntryIsDirect == Spec => []EntryIsDirectToPeer
<1>1. TypeOK /\ WellFormed => EntryIsDirectToPeer
  BY ConstantsAssumption
  DEF TypeOK, WellFormed, RecordsWellFormed, EntriesWellFormed, EntryIsDirectToPeer,
      Allocated, Registered
<1> QED
  BY <1>1, TypeCorrect, WellFormedInvariant, PTL

-----------------------------------------------------------------------------
\* StopCh is closed only together with the connection, under one hold of
\* ConnectionsMu, and a connection once closed stays closed.
LEMMA StoppedStep ==
    TypeOK /\ WellFormed /\ StoppedIsClosed /\ [Next]_vars => StoppedIsClosed'
<1> SUFFICES ASSUME TypeOK, WellFormed, StoppedIsClosed, [Next]_vars
             PROVE  StoppedIsClosed'
  OBVIOUS
<1> USE ConstantsAssumption
    DEF TypeOK, StoppedIsClosed, Allocated, IsClosed, recVars, reqVars, netVars
<1>1. CASE UNCHANGED <<stopClosed, recConn, connUp>>
  BY <1>1
<1>2. ASSUME NEW h \in Handlers, NEW r \in Records, StoreConn(h, r) PROVE StoppedIsClosed'
  BY <1>2 DEF StoreConn, WellFormed, RecordsWellFormed
<1>3. ASSUME NEW ps \in SUBSET Peers, CloseRegistered(ps), UNCHANGED recVars
      PROVE  StoppedIsClosed'
  BY <1>3 DEF CloseRegistered, WellFormed, RecordsWellFormed, Registered
<1>4. ASSUME NEW r \in Records, CloseConn(r) PROVE StoppedIsClosed'
  <2>1. recPeer[r] \in Peers
    BY <1>4 DEF CloseConn, WellFormed, RecordsWellFormed
  <2> QED
    BY <1>3, <1>4, <2>1 DEF CloseConn
<1>5. CASE CloseAllConns
  BY <1>3, <1>5 DEF CloseAllConns
<1>6. ASSUME NEW c \in Conns, NEW p \in Peers, ConnAppears(c, p) PROVE StoppedIsClosed'
  BY <1>6 DEF ConnAppears, WellFormed, RecordsWellFormed
<1>7. ASSUME NEW c \in Conns, ConnDies(c) PROVE StoppedIsClosed'
  BY <1>7 DEF ConnDies
<1> QED
  BY <1>1, <1>2, <1>4, <1>5, <1>6, <1>7, NextCases
  DEF Connect, LookupExisting, ReuseExisting, FoundDead, PunchFails, Evict, HolePunch,
      WaitForDirectConn, SpawnKeepAlive, Tick, PingOk, PingFails, StopSeen, vars

\* No connection is left open with its keepAlive told to stop.
THEOREM StoppedConnIsClosed == Spec => []StoppedIsClosed
<1>1. Init => StoppedIsClosed
  BY DEF Init, StoppedIsClosed
<1> QED
  BY <1>1, StoppedStep, TypeCorrect, WellFormedInvariant, PTL DEF Spec

-----------------------------------------------------------------------------
\* CloseConn and CloseAllConns close StopCh and delete the entry under one hold
\* of ConnectionsMu, and no record is ever stored twice.
LEMMA NotStoppedStep ==
    TypeOK /\ WellFormed /\ RegisteredIsNotStopped /\ [Next]_vars
        => RegisteredIsNotStopped'
<1> SUFFICES ASSUME TypeOK, WellFormed, RegisteredIsNotStopped, [Next]_vars
             PROVE  RegisteredIsNotStopped'
  OBVIOUS
<1> USE ConstantsAssumption
    DEF TypeOK, RegisteredIsNotStopped, Registered, recVars, reqVars, netVars
<1>1. CASE UNCHANGED <<stopClosed, connections>>
  BY <1>1
<1>2. ASSUME NEW h \in Handlers, Evict(h) PROVE RegisteredIsNotStopped'
  BY <1>2 DEF Evict
<1>3. ASSUME NEW h \in Handlers, NEW r \in Records, StoreConn(h, r)
      PROVE  RegisteredIsNotStopped'
  BY <1>3 DEF StoreConn, WellFormed, RecordsWellFormed, RequestHasPeer, InFlight, Allocated
<1>4. ASSUME NEW ps \in SUBSET Peers, CloseRegistered(ps) PROVE RegisteredIsNotStopped'
  <2> SUFFICES ASSUME NEW r \in Records, NEW p \in Peers, connections'[p] = r
               PROVE  ~stopClosed'[r]
    OBVIOUS
  <2>1. p \notin ps /\ connections[p] = r
    BY <1>4 DEF CloseRegistered
  <2>2. \A q \in ps : connections[q] # r
    BY <2>1 DEF WellFormed, EntriesWellFormed
  <2> QED
    BY <1>4, <2>1, <2>2 DEF CloseRegistered
<1>5. ASSUME NEW r \in Records, CloseConn(r) PROVE RegisteredIsNotStopped'
  <2>1. recPeer[r] \in Peers
    BY <1>5 DEF CloseConn, WellFormed, RecordsWellFormed
  <2> QED
    BY <1>4, <1>5, <2>1 DEF CloseConn
<1>6. CASE CloseAllConns
  BY <1>4, <1>6 DEF CloseAllConns
<1> QED
  BY <1>1, <1>2, <1>3, <1>5, <1>6, NextCases
  DEF Connect, LookupExisting, ReuseExisting, FoundDead, PunchFails, HolePunch,
      WaitForDirectConn, SpawnKeepAlive, Tick, PingOk, PingFails, StopSeen,
      ConnAppears, ConnDies, vars

\* No close of a closed StopCh: every record in the table is still unstopped.
THEOREM RegisteredNotStopped == Spec => []RegisteredIsNotStopped
<1>1. Init => RegisteredIsNotStopped
  BY DEF Init, RegisteredIsNotStopped
<1> QED
  BY <1>1, NotStoppedStep, TypeCorrect, WellFormedInvariant, PTL DEF Spec

-----------------------------------------------------------------------------
\* A keepAlive goroutine ends either because its record was stopped, and a
\* stopped record is not in the table, or after CloseConn emptied the entry of
\* its peer, the only entry its record can be in.
LEMMA MaintainedStep ==
    /\ TypeOK /\ TypeOK' /\ WellFormed
    /\ RegisteredIsNotStopped /\ RegisteredIsMaintained
    /\ [Next]_vars
    => RegisteredIsMaintained'
<1> SUFFICES ASSUME TypeOK, TypeOK', WellFormed,
                    RegisteredIsNotStopped, RegisteredIsMaintained, [Next]_vars,
                    NEW s \in Records, Registered(s)'
             PROVE  Maintained(s)'
  BY DEF RegisteredIsMaintained
<1> USE ConstantsAssumption DEF TypeOK, Registered, recVars, reqVars, netVars
<1>1. ASSUME UNCHANGED keepAlive,
             \A h \in Handlers : pc[h] = "spawn" => pc'[h] = "spawn" /\ hrec'[h] = hrec[h],
             Registered(s)
      PROVE  Maintained(s)'
  BY <1>1 DEF RegisteredIsMaintained, Maintained
<1>2. ASSUME NEW h \in Handlers,
             \/ \E p \in Peers : Connect(h, p)
             \/ \E c \in Conns : WaitForDirectConn(h, c)
             \/ LookupExisting(h) \/ ReuseExisting(h) \/ FoundDead(h) \/ PunchFails(h)
             \/ Evict(h) \/ HolePunch(h)
      PROVE  Maintained(s)'
  <2>1. UNCHANGED keepAlive /\ Registered(s)
    <3>1. CASE Evict(h)
      BY <3>1 DEF Evict
    <3>2. CASE ~Evict(h)
      BY <1>2, <3>2 DEF Connect, LookupExisting, ReuseExisting, FoundDead, PunchFails,
                        HolePunch, WaitForDirectConn
    <3> QED
      BY <3>1, <3>2
  <2>2. \A g \in Handlers : pc[g] = "spawn" => pc'[g] = "spawn" /\ hrec'[g] = hrec[g]
    <3>1. CASE ReuseExisting(h) \/ PunchFails(h)
      BY <3>1 DEF ReuseExisting, PunchFails, Return
    <3>2. CASE LookupExisting(h) \/ FoundDead(h) \/ Evict(h) \/ HolePunch(h)
      BY <3>2 DEF LookupExisting, FoundDead, Evict, HolePunch
    <3>3. CASE \/ \E p \in Peers : Connect(h, p)
               \/ \E c \in Conns : WaitForDirectConn(h, c)
      BY <3>3 DEF Connect, WaitForDirectConn
    <3> QED
      BY <1>2, <3>1, <3>2, <3>3
  <2> QED
    BY <1>1, <2>1, <2>2
<1>3. ASSUME NEW h \in Handlers, NEW r \in Records, StoreConn(h, r) PROVE Maintained(s)'
  <2>1. CASE s = r
    BY <1>3, <2>1 DEF StoreConn, Maintained
  <2>2. CASE s # r
    <3>1. Registered(s)
      BY <1>3, <2>2 DEF StoreConn
    <3> QED
      BY <1>1, <1>3, <3>1 DEF StoreConn
  <2> QED
    BY <2>1, <2>2
<1>4. ASSUME NEW h \in Handlers, SpawnKeepAlive(h) PROVE Maintained(s)'
  <2>1. Maintained(s) /\ hrec[h] \in Records
    BY <1>4 DEF SpawnKeepAlive, RegisteredIsMaintained, WellFormed, RequestsWellFormed
  <2>2. CASE s = hrec[h]
    BY <1>4, <2>2 DEF SpawnKeepAlive, Maintained
  <2>3. CASE s # hrec[h]
    BY <1>4, <2>1, <2>3 DEF SpawnKeepAlive, Return, Maintained
  <2> QED
    BY <2>2, <2>3
<1>5. ASSUME NEW r \in Records, Tick(r) \/ PingOk(r) \/ PingFails(r) PROVE Maintained(s)'
  BY <1>5 DEF Tick, PingOk, PingFails, RegisteredIsMaintained, Maintained
<1>6. ASSUME NEW r \in Records, StopSeen(r) PROVE Maintained(s)'
  <2>1. Registered(s) /\ s # r
    BY <1>6 DEF StopSeen, RegisteredIsNotStopped
  <2> QED
    BY <1>6, <2>1 DEF StopSeen, RegisteredIsMaintained, Maintained
<1>7. ASSUME NEW r \in Records, CloseConn(r) PROVE Maintained(s)'
  <2>1. recPeer[r] \in Peers /\ ~Registered(r)'
    BY <1>7 DEF CloseConn, CloseRegistered, WellFormed, RecordsWellFormed, EntriesWellFormed
  <2>2. Registered(s) /\ s # r
    BY <1>7, <2>1 DEF CloseConn, CloseRegistered
  <2> QED
    BY <1>7, <2>2 DEF CloseConn, RegisteredIsMaintained, Maintained
<1>8. CASE CloseAllConns
  BY <1>8 DEF CloseAllConns, CloseRegistered
<1>9. CASE \/ \E c \in Conns, p \in Peers : ConnAppears(c, p)
           \/ \E c \in Conns : ConnDies(c)
           \/ UNCHANGED vars
  <2>1. Registered(s) /\ UNCHANGED <<keepAlive, pc, hrec>>
    BY <1>9 DEF ConnAppears, ConnDies, vars
  <2> QED
    BY <1>1, <2>1
<1> QED
  BY <1>2, <1>3, <1>4, <1>5, <1>6, <1>7, <1>8, <1>9, NextCases

\* Every connection in the table is watched by a keepAlive goroutine.
THEOREM RegisteredMaintained == Spec => []RegisteredIsMaintained
<1>1. Init => RegisteredIsMaintained
  BY ConstantsAssumption DEF Init, RegisteredIsMaintained, Registered
<1> QED
  BY <1>1, MaintainedStep, TypeCorrect, WellFormedInvariant, RegisteredNotStopped, PTL
  DEF Spec

-----------------------------------------------------------------------------
\* The record a request is about to evict is the one it found dead.
EvictSawDead ==
    \A h \in Handlers : pc[h] = "evict" =>
        hrec[h] \in Records /\ Allocated(hrec[h]) /\ IsClosed(hrec[h])

\* A connection once closed stays closed.
LEMMA ClosedStaysClosed ==
    ASSUME TypeOK, WellFormed, [Next]_vars,
           NEW r \in Records, Allocated(r), IsClosed(r)
    PROVE  Allocated(r)' /\ IsClosed(r)'
<1> USE ConstantsAssumption
    DEF TypeOK, Allocated, IsClosed, recVars, reqVars, netVars
<1>1. CASE UNCHANGED <<recConn, connUp>>
  BY <1>1
<1>2. ASSUME NEW h \in Handlers, NEW s \in Records, StoreConn(h, s)
      PROVE  Allocated(r)' /\ IsClosed(r)'
  BY <1>2 DEF StoreConn
<1>3. ASSUME NEW ps \in SUBSET Peers, CloseRegistered(ps), UNCHANGED recVars
      PROVE  Allocated(r)' /\ IsClosed(r)'
  BY <1>3 DEF CloseRegistered
<1>4. ASSUME NEW s \in Records, CloseConn(s) PROVE Allocated(r)' /\ IsClosed(r)'
  BY <1>4 DEF CloseConn, CloseRegistered
<1>5. CASE CloseAllConns
  BY <1>3, <1>5 DEF CloseAllConns
<1>6. ASSUME NEW c \in Conns, NEW p \in Peers, ConnAppears(c, p)
      PROVE  Allocated(r)' /\ IsClosed(r)'
  BY <1>6 DEF ConnAppears, WellFormed, RecordsWellFormed
<1>7. ASSUME NEW c \in Conns, ConnDies(c) PROVE Allocated(r)' /\ IsClosed(r)'
  BY <1>7 DEF ConnDies
<1> QED
  BY <1>1, <1>2, <1>4, <1>5, <1>6, <1>7, NextCases
  DEF Connect, LookupExisting, ReuseExisting, FoundDead, PunchFails, Evict, HolePunch,
      WaitForDirectConn, SpawnKeepAlive, Tick, PingOk, PingFails, StopSeen, vars

\* FoundDead is the only way to "evict", and nothing there changes hrec.
LEMMA EvictSawDeadStep ==
    TypeOK /\ WellFormed /\ EvictSawDead /\ [Next]_vars => EvictSawDead'
<1> SUFFICES ASSUME TypeOK, WellFormed, EvictSawDead, [Next]_vars,
                    NEW h \in Handlers, pc'[h] = "evict"
             PROVE  /\ hrec'[h] \in Records
                    /\ Allocated(hrec[h])' /\ IsClosed(hrec[h])'
  BY DEF EvictSawDead
<1> DEFINE Kept == hrec'[h] = hrec[h] /\ (pc[h] = "evict" \/ FoundDead(h))
<1>1. Kept
  <2> USE DEF TypeOK, recVars, reqVars, netVars
  <2>1. ASSUME NEW g \in Handlers,
               \/ \E p \in Peers : Connect(g, p)
               \/ \E c \in Conns : WaitForDirectConn(g, c)
               \/ \E r \in Records : StoreConn(g, r)
               \/ LookupExisting(g) \/ Evict(g) \/ HolePunch(g)
        PROVE  Kept
    BY <2>1 DEF Connect, LookupExisting, Evict, HolePunch, WaitForDirectConn, StoreConn
  <2>2. ASSUME NEW g \in Handlers, FoundDead(g) PROVE Kept
    BY <2>2 DEF FoundDead
  <2>3. ASSUME NEW g \in Handlers,
               ReuseExisting(g) \/ PunchFails(g) \/ SpawnKeepAlive(g)
        PROVE  Kept
    BY <2>3 DEF ReuseExisting, PunchFails, SpawnKeepAlive, Return
  <2>4. CASE UNCHANGED <<pc, hrec>>
    BY <2>4
  <2> QED
    BY <2>1, <2>2, <2>3, <2>4, NextCases
    DEF vars, Tick, PingOk, PingFails, StopSeen, CloseConn, CloseAllConns, ConnAppears,
        ConnDies
<1>2. hrec[h] \in Records /\ Allocated(hrec[h]) /\ IsClosed(hrec[h])
  BY <1>1 DEF EvictSawDead, FoundDead, WellFormed, RequestsWellFormed
<1> QED
  BY <1>1, <1>2, ClosedStaysClosed DEF Allocated, IsClosed

\* What a request is about to evict it found dead, and it is dead still.
THEOREM EvictsOnlyDead == Spec => []EvictSawDead
<1>1. Init => EvictSawDead
  BY DEF Init, EvictSawDead
<1> QED
  BY <1>1, EvictSawDeadStep, TypeCorrect, WellFormedInvariant, PTL DEF Spec

\* The entry a request looked up is dead when the request deletes it.
THEOREM NothingSawAliveEvicted == Spec => EvictsNothingItSawAlive
<1>1. EvictSawDead =>
        [\A h \in Handlers :
           pc[h] = "evict" /\ pc'[h] # "evict" =>
              connections[hpeer[h]] # hrec[h] \/ IsClosed(hrec[h])]_vars
  BY DEF EvictSawDead
<1> QED
  BY <1>1, EvictsOnlyDead, PTL DEF EvictsNothingItSawAlive
=============================================================================
