------------------------ MODULE MCConnectionManager ------------------------
(* Small instances of ConnectionManager, with its history, for TLC. *)
EXTENDS SerialisedRequests, TLC

\* Sound for invariants and action properties only.
SafetySymmetry ==
    Permutations(Peers) \cup Permutations(Handlers) \cup Permutations(Records)
        \cup Permutations(Conns \ RelayConns)
=============================================================================
