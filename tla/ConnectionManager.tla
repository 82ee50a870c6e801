------------------------- MODULE ConnectionManager -------------------------
(***************************************************************************)
(* The connection table of the agent (session.Store.Connections) and the   *)
(* goroutines of P2PService that share it:                                 *)
(*                                                                         *)
(*  - one goroutine per POST /peers request, running TryHolePunch;         *)
(*  - one keepAlive goroutine per LibP2PConn record, woken every 15 s by   *)
(*    its ticker and stopped through the record's StopCh;                  *)
(*  - CloseConn and CloseAllConns, which run with ConnectionsMu held.      *)
(*                                                                         *)
(* A section of code run under ConnectionsMu, and a call that neither      *)
(* takes the lock nor writes shared state, is one atomic action; everything*)
(* between two such sections may be interleaved with every other goroutine.*)
(* go-libp2p is the environment: transport connections appear (a dial, an  *)
(* inbound connection, a hole punch that succeeded) and die at any time.   *)
(***************************************************************************)
EXTENDS Naturals, FiniteSets

CONSTANTS
    Peers,       \* peer ids, the keys of the table
    Handlers,    \* concurrent POST /peers requests
    Records,     \* addresses of LibP2PConn records: bounds the allocations
    Conns,       \* libp2p transport connections: bounds how many ever appear
    RelayConns,  \* those of Conns whose address goes through a relay
    CloseAllConnsCalled, \* does the embedding program call CloseAllConns?
    NoPeer, NoRec, NoConn

ASSUME ConstantsAssumption ==
    /\ RelayConns \subseteq Conns
    /\ CloseAllConnsCalled \in BOOLEAN
    /\ NoPeer \notin Peers /\ NoRec \notin Records /\ NoConn \notin Conns

VARIABLES
    connections, \* Store.Connections: peer -> record, or NoRec if absent
    recPeer,     \* LibP2PConn.PeerID, NoPeer while the record is unallocated
    recConn,     \* LibP2PConn.Conn, NoConn while the record is unallocated
    stopClosed,  \* has LibP2PConn.StopCh been closed?
    keepAlive,   \* control point of the record's keepAlive goroutine
    pc,          \* control point of TryHolePunch in each request
    hpeer,       \* local addrInfo.ID of the request
    hrec,        \* local existing, later hpConn, of the request
    hconn,       \* local directConn of the request
    connPeer,    \* remote peer of a transport connection, NoPeer if unused
    connUp       \* ~Conn.IsClosed()

recVars == <<recPeer, recConn>>
reqVars == <<pc, hpeer, hrec, hconn>>
netVars == <<connPeer, connUp>>
vars == <<connections, recVars, stopClosed, keepAlive, reqVars, netVars>>

RequestPoints == {"idle", "lookup", "check", "evict", "punch", "wait", "store", "spawn"}
KeepAlivePoints == {"none", "waiting", "pinging", "failing", "done"}
-----------------------------------------------------------------------------
Allocated(r) == recConn[r] # NoConn
Registered(r) == \E p \in Peers : connections[p] = r
IsClosed(r) == ~connUp[recConn[r]]
Reachable(p) == \E c \in Conns : connPeer[c] = p /\ connUp[c]
InFlight == {h \in Handlers : pc[h] # "idle"}

Init ==
    /\ connections = [p \in Peers |-> NoRec]
    /\ recPeer = [r \in Records |-> NoPeer]
    /\ recConn = [r \in Records |-> NoConn]
    /\ stopClosed = [r \in Records |-> FALSE]
    /\ keepAlive = [r \in Records |-> "none"]
    /\ pc = [h \in Handlers |-> "idle"]
    /\ hpeer = [h \in Handlers |-> NoPeer]
    /\ hrec = [h \in Handlers |-> NoRec]
    /\ hconn = [h \in Handlers |-> NoConn]
    /\ connPeer = [c \in Conns |-> NoPeer]
    /\ connUp = [c \in Conns |-> FALSE]

(***************************************************************************)
(* go-libp2p and the network                                               *)
(***************************************************************************)

\* The swarm gets a new connection to p: dialled by Host.Connect or NewStream,
\* accepted from p, or opened by the hole-punching service.
ConnAppears(c, p) ==
    /\ connPeer[c] = NoPeer
    /\ connPeer' = [connPeer EXCEPT ![c] = p]
    /\ connUp' = [connUp EXCEPT ![c] = TRUE]
    /\ UNCHANGED <<connections, recVars, stopClosed, keepAlive, reqVars>>

\* A connection is lost: idle timeout, NAT entry gone, closed by the peer.
ConnDies(c) ==
    /\ connUp[c]
    /\ connUp' = [connUp EXCEPT ![c] = FALSE]
    /\ UNCHANGED <<connections, recVars, stopClosed, keepAlive, reqVars, connPeer>>

(***************************************************************************)
(* TryHolePunch, in the goroutine of request h                             *)
(***************************************************************************)

\* TryHolePunch returns: nil, or an error the handler answers with 500.
Return(h) ==
    /\ pc' = [pc EXCEPT ![h] = "idle"]
    /\ hpeer' = [hpeer EXCEPT ![h] = NoPeer]
    /\ hrec' = [hrec EXCEPT ![h] = NoRec]
    /\ hconn' = [hconn EXCEPT ![h] = NoConn]

\* Steps 1-2: a request whose multiaddr parses, for peer p. (One that does not
\* parse is answered 400 or 500 and touches nothing.) The second conjunct is
\* the bound: a request starts only while records are left for all in flight.
Connect(h, p) ==
    /\ pc[h] = "idle"
    /\ Cardinality({r \in Records : ~Allocated(r)}) > Cardinality(InFlight)
    /\ pc' = [pc EXCEPT ![h] = "lookup"]
    /\ hpeer' = [hpeer EXCEPT ![h] = p]
    /\ UNCHANGED <<connections, recVars, stopClosed, keepAlive, hrec, hconn, netVars>>

\* Step 3, under RLock: existing, ok := Connections[peerKey]
LookupExisting(h) ==
    /\ pc[h] = "lookup"
    /\ LET existing == connections[hpeer[h]] IN
        /\ hrec' = [hrec EXCEPT ![h] = existing]
        /\ pc' = [pc EXCEPT ![h] = IF existing = NoRec THEN "punch" ELSE "check"]
    /\ UNCHANGED <<connections, recVars, stopClosed, keepAlive, hpeer, hconn, netVars>>

\* Step 3, after RUnlock: existing.Conn.IsClosed()
ReuseExisting(h) ==
    /\ pc[h] = "check"
    /\ ~IsClosed(hrec[h])
    /\ Return(h)
    /\ UNCHANGED <<connections, recVars, stopClosed, keepAlive, netVars>>

\* Mutant: any entry found is taken for dead.
FoundDead_NoTest(h) ==
    /\ pc[h] = "check"
    /\ pc' = [pc EXCEPT ![h] = "evict"]
    /\ UNCHANGED <<connections, recVars, stopClosed, keepAlive, hpeer, hrec, hconn, netVars>>

FoundDead(h) ==
    /\ pc[h] = "check"
    /\ IsClosed(hrec[h])
    /\ pc' = [pc EXCEPT ![h] = "evict"]
    /\ UNCHANGED <<connections, recVars, stopClosed, keepAlive, hpeer, hrec, hconn, netVars>>

\* Step 3, under Lock: delete(Connections, peerKey), whatever is there by now
Evict(h) ==
    /\ pc[h] = "evict"
    /\ connections' = [connections EXCEPT ![hpeer[h]] = NoRec]
    /\ pc' = [pc EXCEPT ![h] = "punch"]
    /\ hrec' = [hrec EXCEPT ![h] = NoRec]
    /\ UNCHANGED <<recVars, stopClosed, keepAlive, hpeer, hconn, netVars>>

\* Steps 4-6: Host.Connect and NewStream("/libp2p/dcutr") both succeed ...
HolePunch(h) ==
    /\ pc[h] = "punch"
    /\ Reachable(hpeer[h])
    /\ pc' = [pc EXCEPT ![h] = "wait"]
    /\ UNCHANGED <<connections, recVars, stopClosed, keepAlive, hpeer, hrec, hconn, netVars>>

\* ... or one of them fails or times out, or waitForDirectConn times out.
PunchFails(h) ==
    /\ pc[h] \in {"punch", "wait"}
    /\ Return(h)
    /\ UNCHANGED <<connections, recVars, stopClosed, keepAlive, netVars>>

\* Mutant: the relay component of an address is never found.
IsRelayConn_Never(c) == FALSE

\* isRelayConn: the remote address has a /p2p-circuit component
IsRelayConn(c) == c \in RelayConns

\* Step 7: a poll of waitForDirectConn finds c among ConnsToPeer
WaitForDirectConn(h, c) ==
    /\ pc[h] = "wait"
    /\ connPeer[c] = hpeer[h]
    /\ ~IsRelayConn(c) /\ connUp[c]
    /\ hconn' = [hconn EXCEPT ![h] = c]
    /\ pc' = [pc EXCEPT ![h] = "store"]
    /\ UNCHANGED <<connections, recVars, stopClosed, keepAlive, hpeer, hrec, netVars>>

\* Step 8, under Lock: allocate the record and put it in the table
StoreConn(h, r) ==
    /\ pc[h] = "store"
    /\ ~Allocated(r)
    /\ recPeer' = [recPeer EXCEPT ![r] = hpeer[h]]
    /\ recConn' = [recConn EXCEPT ![r] = hconn[h]]
    /\ connections' = [connections EXCEPT ![hpeer[h]] = r]
    /\ hrec' = [hrec EXCEPT ![h] = r]
    /\ pc' = [pc EXCEPT ![h] = "spawn"]
    /\ UNCHANGED <<stopClosed, keepAlive, hpeer, hconn, netVars>>

\* Step 8, after Unlock: go keepAlive(hpConn); return nil
SpawnKeepAlive(h) ==
    /\ pc[h] = "spawn"
    /\ keepAlive' = [keepAlive EXCEPT ![hrec[h]] = "waiting"]
    /\ Return(h)
    /\ UNCHANGED <<connections, recVars, stopClosed, netVars>>

(***************************************************************************)
(* keepAlive, in the goroutine of record r                                 *)
(***************************************************************************)

\* Mutant: sendPing does not test IsClosed.
Tick_NoTest(r) ==
    /\ keepAlive[r] = "waiting"
    /\ keepAlive' = [keepAlive EXCEPT ![r] = "pinging"]
    /\ UNCHANGED <<connections, recVars, stopClosed, reqVars, netVars>>

\* <-ticker.C, then the IsClosed test sendPing begins with
Tick(r) ==
    /\ keepAlive[r] = "waiting"
    /\ keepAlive' = [keepAlive EXCEPT ![r] = IF IsClosed(r) THEN "failing" ELSE "pinging"]
    /\ UNCHANGED <<connections, recVars, stopClosed, reqVars, netVars>>

\* sendPing asks the host, not the record's own connection, for a stream to
\* PeerID: any open connection to that peer will do.
PingOk(r) ==
    /\ keepAlive[r] = "pinging"
    /\ Reachable(recPeer[r])
    /\ keepAlive' = [keepAlive EXCEPT ![r] = "waiting"]
    /\ UNCHANGED <<connections, recVars, stopClosed, reqVars, netVars>>

PingFails(r) ==
    /\ keepAlive[r] = "pinging"
    /\ keepAlive' = [keepAlive EXCEPT ![r] = "failing"]
    /\ UNCHANGED <<connections, recVars, stopClosed, reqVars, netVars>>

\* Mutant: the table loses its key instead of the entry.
CloseRegistered_DropsKey(ps) ==
    LET closing == {connections[p] : p \in ps} \ {NoRec} IN
    /\ stopClosed' = [r \in Records |-> stopClosed[r] \/ r \in closing]
    /\ connUp' = [c \in Conns |-> connUp[c] /\ \A r \in closing : recConn[r] # c]
    /\ connections' = [p \in Peers \ ps |-> connections[p]]

\* Mutant: no delete.
CloseRegistered_KeepsEntry(ps) ==
    LET closing == {connections[p] : p \in ps} \ {NoRec} IN
    /\ stopClosed' = [r \in Records |-> stopClosed[r] \/ r \in closing]
    /\ connUp' = [c \in Conns |-> connUp[c] /\ \A r \in closing : recConn[r] # c]
    /\ UNCHANGED connections

\* Mutant: no Conn.Close().
CloseRegistered_LeavesOpen(ps) ==
    LET closing == {connections[p] : p \in ps} \ {NoRec} IN
    /\ stopClosed' = [r \in Records |-> stopClosed[r] \/ r \in closing]
    /\ connections' = [p \in Peers |-> IF p \in ps THEN NoRec ELSE connections[p]]
    /\ UNCHANGED connUp

\* Under Lock, for the records of the peers in ps: close StopCh unless it is
\* closed, close the transport connection, delete the entry.
CloseRegistered(ps) ==
    LET closing == {connections[p] : p \in ps} \ {NoRec} IN
    /\ stopClosed' = [r \in Records |-> stopClosed[r] \/ r \in closing]
    /\ connUp' = [c \in Conns |-> connUp[c] /\ \A r \in closing : recConn[r] # c]
    /\ connections' = [p \in Peers |-> IF p \in ps THEN NoRec ELSE connections[p]]

\* Mutant: keepAlive returns without CloseConn.
CloseConn_OnlyReturn(r) ==
    /\ keepAlive[r] = "failing"
    /\ keepAlive' = [keepAlive EXCEPT ![r] = "done"]
    /\ UNCHANGED <<connections, recVars, stopClosed, reqVars, netVars>>

\* Mutant: keepAlive calls CloseConn but does not return.
CloseConn_NoReturn(r) ==
    /\ keepAlive[r] = "failing"
    /\ CloseRegistered({recPeer[r]})
    /\ keepAlive' = [keepAlive EXCEPT ![r] = "waiting"]
    /\ UNCHANGED <<recVars, reqVars, connPeer>>

\* CloseConn(PeerID), which is keyed by the peer, then return
CloseConn(r) ==
    /\ keepAlive[r] = "failing"
    /\ CloseRegistered({recPeer[r]})
    /\ keepAlive' = [keepAlive EXCEPT ![r] = "done"]
    /\ UNCHANGED <<recVars, reqVars, connPeer>>

\* <-conn.StopCh. When the ticker is ready too, select picks either.
StopSeen(r) ==
    /\ keepAlive[r] = "waiting"
    /\ stopClosed[r]
    /\ keepAlive' = [keepAlive EXCEPT ![r] = "done"]
    /\ UNCHANGED <<connections, recVars, stopClosed, reqVars, netVars>>

\* CloseAllConns, meant for the service's shutdown; nothing in the agent calls
\* it yet.
CloseAllConns ==
    /\ CloseAllConnsCalled
    /\ CloseRegistered(Peers)
    /\ UNCHANGED <<recVars, keepAlive, reqVars, connPeer>>
-----------------------------------------------------------------------------
TryHolePunch(h) ==
    \/ LookupExisting(h) \/ ReuseExisting(h) \/ FoundDead(h) \/ Evict(h)
    \/ HolePunch(h) \/ PunchFails(h) \/ SpawnKeepAlive(h)
    \/ \E c \in Conns : WaitForDirectConn(h, c)
    \/ \E r \in Records : StoreConn(h, r)

KeepAlive(r) == Tick(r) \/ PingOk(r) \/ PingFails(r) \/ CloseConn(r) \/ StopSeen(r)

Network ==
    \/ \E c \in Conns, p \in Peers : ConnAppears(c, p)
    \/ \E c \in Conns : ConnDies(c)

Next ==
    \/ \E h \in Handlers, p \in Peers : Connect(h, p)
    \/ \E h \in Handlers : TryHolePunch(h)
    \/ \E r \in Records : KeepAlive(r)
    \/ CloseAllConns
    \/ Network

\* Every call a goroutine makes has a deadline (10 s, 30 s, 10 s and 5 s) and
\* the ticker keeps firing, so each goroutine keeps taking steps. No client has
\* to issue a request and no connection has to appear or die.
Fairness ==
    /\ \A h \in Handlers : WF_vars(TryHolePunch(h))
    /\ \A r \in Records : WF_vars(KeepAlive(r))

Spec == Init /\ [][Next]_vars
FairSpec == Spec /\ Fairness
-----------------------------------------------------------------------------
TypeOK ==
    /\ connections \in [Peers -> Records \cup {NoRec}]
    /\ recPeer \in [Records -> Peers \cup {NoPeer}]
    /\ recConn \in [Records -> Conns \cup {NoConn}]
    /\ stopClosed \in [Records -> BOOLEAN]
    /\ keepAlive \in [Records -> KeepAlivePoints]
    /\ pc \in [Handlers -> RequestPoints]
    /\ hpeer \in [Handlers -> Peers \cup {NoPeer}]
    /\ hrec \in [Handlers -> Records \cup {NoRec}]
    /\ hconn \in [Handlers -> Conns \cup {NoConn}]
    /\ connPeer \in [Conns -> Peers \cup {NoPeer}]
    /\ connUp \in [Conns -> BOOLEAN]

\* Is r's keepAlive goroutine running, or about to be started by the request
\* that stored r?
Maintained(r) ==
    \/ keepAlive[r] \in {"waiting", "pinging", "failing"}
    \/ \E h \in Handlers : pc[h] = "spawn" /\ hrec[h] = r

\* Every connection in the table has a keepAlive goroutine watching it: no
\* registered connection can lose its NAT entry, or die, unnoticed.
RegisteredIsMaintained ==
    \A r \in Records : Registered(r) => Maintained(r)

\* CloseConn never meets a record whose StopCh is already closed: a registered
\* record has not been stopped, so no close(StopCh) can panic.
RegisteredIsNotStopped ==
    \A r \in Records : Registered(r) => ~stopClosed[r]

\* A goroutine is told to stop only once the connection it watches is closed:
\* no connection is left open with its keepAlive stopped.
StoppedIsClosed ==
    \A r \in Records : stopClosed[r] => Allocated(r) /\ IsClosed(r)

\* A peer's entry holds a direct connection to that very peer, never a relayed
\* one: what POST /peers/:id opens its stream on is the hole-punched path.
EntryIsDirectToPeer ==
    \A p \in Peers : connections[p] # NoRec =>
        LET r == connections[p] IN
        /\ recPeer[r] = p
        /\ recConn[r] \in Conns \ RelayConns
        /\ connPeer[recConn[r]] = p

(***************************************************************************)
(* What makes the invariants above inductive.                              *)
(***************************************************************************)

\* A record nobody allocated yet is nowhere; an allocated one holds a direct
\* connection to its own peer.
RecordsWellFormed ==
    \A r \in Records :
        \/ /\ ~Allocated(r) /\ ~Registered(r)
           /\ ~stopClosed[r] /\ keepAlive[r] = "none"
        \/ /\ recPeer[r] \in Peers
           /\ recConn[r] \in Conns \ RelayConns
           /\ connPeer[recConn[r]] = recPeer[r]

\* Entries are filed under their own peer.
EntriesWellFormed ==
    \A p \in Peers : connections[p] # NoRec => recPeer[connections[p]] = p

\* A request under way knows its peer.
RequestHasPeer == \A h \in InFlight : hpeer[h] \in Peers

\* The locals of a request are set where TryHolePunch uses them, and the record
\* a request is about to watch is watched by nobody else.
RequestsWellFormed ==
    \A h \in Handlers :
        /\ pc[h] = "check" => hrec[h] \in Records /\ Allocated(hrec[h])
        /\ pc[h] = "store" =>
              hconn[h] \in Conns \ RelayConns /\ connPeer[hconn[h]] = hpeer[h]
        /\ pc[h] = "spawn" =>
              /\ hrec[h] \in Records /\ Allocated(hrec[h])
              /\ keepAlive[hrec[h]] = "none"
              /\ \A g \in Handlers \ {h} : pc[g] = "spawn" => hrec[g] # hrec[h]

WellFormed ==
    RecordsWellFormed /\ EntriesWellFormed /\ RequestHasPeer /\ RequestsWellFormed

\* p2p_service.go:42: a request leaves a live entry alone. TryHolePunch returns the connection it
\* finds alive instead of replacing it by another one.
LiveConnectionReused ==
    [][\A p \in Peers, r \in Records :
         connections[p] = r /\ ~IsClosed(r) => connections'[p] \in {r, NoRec}]_vars

\* A request never deletes the entry it looked up while that entry's connection
\* is alive: what Evict takes away alive was stored by somebody else since.
EvictsNothingItSawAlive ==
    [][\A h \in Handlers :
         pc[h] = "evict" /\ pc'[h] # "evict" =>
            connections[hpeer[h]] # hrec[h] \/ IsClosed(hrec[h])]_vars

\* p2p_service.go:149: when a ping fails, keepAlive removes the connection that failed, not the one
\* that has replaced it in the table since.
KeepAliveRemovesItsOwn ==
    [][\A r \in Records :
         keepAlive[r] = "failing" /\ keepAlive'[r] = "done" =>
            connections[recPeer[r]] \in {r, NoRec}]_vars

\* A dead connection does not stay in the table: its keepAlive notices and
\* removes it, even while other connections to the peer keep answering pings.
DeadIsRemoved ==
    \A r \in Records : Registered(r) /\ IsClosed(r) ~> ~Registered(r)

\* Every keepAlive goroutine whose connection is gone ends, also the ones whose
\* record was overwritten or evicted and whose StopCh nobody will ever close.
NoGoroutineLeak ==
    \A r \in Records : Allocated(r) /\ IsClosed(r) ~> keepAlive[r] = "done"
=============================================================================
