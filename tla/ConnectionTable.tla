-------------------------- MODULE ConnectionTable --------------------------
(***************************************************************************)
(* What the connection manager promises, without requests, locks, pings or *)
(* goroutines, of a peer whose requests come one after the other: a table  *)
(* of records that is written at once. A record enters an empty place; it  *)
(* leaves only when its connection is closed, before or in that very step; *)
(* a closed connection stays closed, and an open one is always in the      *)
(* table.                                                                  *)
(***************************************************************************)
CONSTANTS Peers, Records, NoRec

VARIABLES
    entry,  \* peer -> its record, or NoRec
    open    \* the records that were stored and whose connections are open

vars == <<entry, open>>

Init ==
    /\ entry = [p \in Peers |-> NoRec]
    /\ open = {}

\* A new record is stored; its connection may have died since it was found.
Store(p, r) ==
    /\ entry[p] = NoRec
    /\ r \notin open /\ \A q \in Peers : entry[q] # r
    /\ entry' = [entry EXCEPT ![p] = r]
    /\ open' = open \/ open' = open \cup {r}

\* Connections close, and records whose connections are closed by then may go.
CloseAndRemove(ps) ==
    /\ open' \subseteq open
    /\ \A p \in ps : entry[p] \notin open'
    /\ entry' = [p \in Peers |-> IF p \in ps THEN NoRec ELSE entry[p]]

Next ==
    \/ \E p \in Peers, r \in Records : Store(p, r)
    \/ \E ps \in SUBSET Peers : CloseAndRemove(ps)

Spec == Init /\ [][Next]_vars
-----------------------------------------------------------------------------
\* An open connection is its peer's entry.
OpenIsEntered == \A r \in open : \E p \in Peers : entry[p] = r
=============================================================================
