-------------------------- MODULE MCProgressStream --------------------------
(***************************************************************************)
(* ProgressStream with history variables: which transfers have been active *)
(* at every moment since the tick a stream goroutine is serving, and which *)
(* at some moment?                                                         *)
(***************************************************************************)
EXTENDS ProgressStream

VARIABLES steady, seen
hvars == <<vars, steady, seen>>

HInit ==
    /\ Init
    /\ steady = [c \in Clients |-> {}] /\ seen = [c \in Clients |-> {}]

Takes(c) == pc[c] = "waiting" /\ pc'[c] = "receiving"
Serves(c) == pc'[c] \in {"receiving", "status", "emit"}

HNext ==
    /\ Next
    /\ steady' = [c \in Clients |->
          ActiveOf(Transfers)' \cap
            IF ~Serves(c) THEN {} ELSE IF Takes(c) THEN ActiveOf(Transfers) ELSE steady[c]]
    /\ seen' = [c \in Clients |->
          IF ~Serves(c) THEN {}
          ELSE ActiveOf(Transfers)' \cup IF Takes(c) THEN ActiveOf(Transfers) ELSE seen[c]]

HSpec == HInit /\ [][HNext]_hvars
HFairSpec == HSpec /\ Fairness

\* get.go:65, as far as the code makes it true: the "idle" event never hides a
\* transfer that was active all the time since the tick. (Between the two
\* searches one transfer may end and another begin.)
IdleHidesNoSteadyTransfer ==
    [][\A c \in Clients :
         pc[c] = "receiving" /\ pc'[c] = "waiting" => steady[c] = {}]_hvars

\* An event is about a transfer that was active at some moment since the tick,
\* though the tables keep every transfer there ever was: a client is not told of
\* what ended before, whichever lock the search had to wait for.
ShowsOnlyActive ==
    [][\A c \in Clients :
         pc[c] = "emit" /\ pc'[c] # "emit" => event'[c].transfer \in seen[c]]_hvars
=============================================================================
