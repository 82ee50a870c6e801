------------------------- MODULE SerialisedRequests -------------------------
(***************************************************************************)
(* What the connection manager guarantees to a client that does not issue  *)
(* overlapping requests for one peer: ConnectionManager with a history     *)
(* variable that remembers the peers for which two requests have been under*)
(* way at the same time.                                                   *)
(***************************************************************************)
EXTENDS ConnectionManager

VARIABLE overlapped
hvars == <<vars, overlapped>>

Overlapping(p) == \E g, h \in Handlers : g # h /\ hpeer[g] = p /\ hpeer[h] = p

HInit == Init /\ overlapped = {}

HNext ==
    /\ Next
    /\ overlapped' = overlapped \cup {p \in Peers : Overlapping(p)'}

HSpec == HInit /\ [][HNext]_hvars

\* As long as the requests for a peer come one after the other, no connection
\* that was stored for it stays open with nobody to keep it alive: a keepAlive
\* that ends takes along the connection it watched, though what it closes is
\* whatever the table holds for its peer. (Requests that overlap overwrite and
\* evict live connections, and then it may close another one than its own.)
SerialisedStaysMaintained ==
    \A r \in Records :
        Allocated(r) /\ ~IsClosed(r) /\ recPeer[r] \notin overlapped => Maintained(r)

(***************************************************************************)
(* What makes it inductive.                                                *)
(***************************************************************************)

\* Two requests for one peer are remembered.
OverlapsKnown == \A p \in Peers \ overlapped : ~Overlapping(p)

\* The only open connection of a peer is the one in the table.
OpenIsRegistered ==
    \A r \in Records :
        Allocated(r) /\ ~IsClosed(r) /\ recPeer[r] \notin overlapped
            => connections[recPeer[r]] = r

\* What a request knows of its peer's entry is still so.
EntryAsSeen ==
    \A h \in Handlers : hpeer[h] \notin overlapped =>
        /\ pc[h] \in {"check", "evict"} => connections[hpeer[h]] \in {hrec[h], NoRec}
        /\ pc[h] \in {"punch", "wait", "store"} => connections[hpeer[h]] = NoRec

Serialised == OverlapsKnown /\ OpenIsRegistered /\ EntryAsSeen

(***************************************************************************)
(* The table as such a client sees it.                                     *)
(***************************************************************************)

\* A peer whose requests have overlapped counts as one without entry.
SerialEntries == [p \in Peers |-> IF p \in overlapped THEN NoRec ELSE connections[p]]
SerialOpen == {r \in Records : Allocated(r) /\ ~IsClosed(r) /\ recPeer[r] \notin overlapped}

\* Lookup, eviction, hole punching and storing take several locks, and
\* keepAlive removes by peer; to requests for a peer that do not overlap all of
\* it is one table whose entries stay until their connections are closed.
T == INSTANCE ConnectionTable WITH entry <- SerialEntries, open <- SerialOpen
ImplementsTable == T!Spec
=============================================================================
