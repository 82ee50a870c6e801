--------------------------- MODULE ProgressStream ---------------------------
(***************************************************************************)
(* GET /stream: the server-sent events that tell clients how the transfers *)
(* of this agent are doing.                                                *)
(*                                                                         *)
(* The transfer goroutines write the Status of the records in the two maps *)
(* of the Store, each under its own lock. Every second a stream goroutine  *)
(* searches the first map under that map's RLock, then the second one      *)
(* under the other, and reads the Status of the record it picked after     *)
(* releasing both. A Go string is two words, its address and its length:   *)
(* the unlocked read may get each from a different assignment.             *)
(***************************************************************************)
EXTENDS Naturals, FiniteSets

CONSTANTS
    Sends,      \* transfer ids, the keys of Store.SendingFiles
    Recvs,      \* transfer ids, the keys of Store.ReceivingFiles
    Clients,    \* requests of GET /stream
    NoTransfer

ASSUME StreamAssumption ==
    Sends \cap Recvs = {} /\ NoTransfer \notin Sends \cup Recvs

Transfers == Sends \cup Recvs

VARIABLES
    status,  \* the Status of each transfer, "none" before it is registered
    pc,      \* control point of each stream goroutine
    gone,    \* has the client disconnected?
    pick,    \* the record buildProgressPayload chose
    word,    \* the status whose address the unlocked read has got
    event    \* the last event sent to the client

vars == <<status, pc, gone, pick, word, event>>
clientVars == <<pc, gone, pick, word, event>>

StatusLength(s) ==
    CASE s = "pending" -> 7 [] s = "sending" -> 7 [] s = "done" -> 4
      [] s = "failed" -> 6 [] OTHER -> 0

Active(t) == status[t] \in {"pending", "sending"}
Settled(t) == status[t] \in {"done", "failed"}
ActiveOf(S) == {t \in S : Active(t)}

Event(kind, t, s) == [kind |-> kind, transfer |-> t, status |-> s]
-----------------------------------------------------------------------------
Init ==
    /\ status = [t \in Transfers |-> "none"]
    /\ pc = [c \in Clients |-> "absent"]
    /\ gone = [c \in Clients |-> FALSE]
    /\ pick = [c \in Clients |-> NoTransfer]
    /\ word = [c \in Clients |-> "none"]
    /\ event = [c \in Clients |-> Event("none", NoTransfer, "none")]

(***************************************************************************)
(* The transfer goroutines, as far as the Store sees them                  *)
(***************************************************************************)

\* SetSendingFile, SetReceivingFile
Register(t) ==
    /\ status[t] = "none"
    /\ status' = [status EXCEPT ![t] = "pending"]
    /\ UNCHANGED clientVars

\* UpdateSendingFileStatus, UpdateReceivingFileStatus
UpdateStatus(t, s) ==
    /\ \/ status[t] = "pending" /\ s = "sending"
       \/ status[t] = "sending" /\ s \in {"done", "failed"}
    /\ status' = [status EXCEPT ![t] = s]
    /\ UNCHANGED clientVars

(***************************************************************************)
(* The stream goroutine of client c                                        *)
(***************************************************************************)

\* Get up to its loop: headers, the "connected" event, the ticker
Get(c) ==
    /\ pc[c] = "absent"
    /\ pc' = [pc EXCEPT ![c] = "waiting"]
    /\ event' = [event EXCEPT ![c] = Event("connected", NoTransfer, "none")]
    /\ UNCHANGED <<status, gone, pick, word>>

\* The request's context is done
Disconnect(c) ==
    /\ pc[c] # "absent" /\ ~gone[c]
    /\ gone' = [gone EXCEPT ![c] = TRUE]
    /\ UNCHANGED <<status, pc, pick, word, event>>

\* Mutant: clientGone is not among the cases of the select.
Leave_Ignored(c) == FALSE /\ UNCHANGED vars

\* <-clientGone
Leave(c) ==
    /\ pc[c] = "waiting" /\ gone[c]
    /\ pc' = [pc EXCEPT ![c] = "closed"]
    /\ UNCHANGED <<status, gone, pick, word, event>>

\* Mutant: a pending transfer is not searched for.
ScanSending_NotPending(c) ==
    /\ pc[c] = "waiting"
    /\ pc' = [pc EXCEPT ![c] = "receiving"]
    /\ LET found == {t \in Sends : status[t] = "sending"} IN
       \E t \in IF found = {} THEN {NoTransfer} ELSE found :
         pick' = [pick EXCEPT ![c] = t]
    /\ UNCHANGED <<status, gone, word, event>>

\* Mutant: the search takes any record of the map.
ScanSending_AnyRecord(c) ==
    /\ pc[c] = "waiting"
    /\ pc' = [pc EXCEPT ![c] = "receiving"]
    /\ LET found == {t \in Sends : status[t] # "none"} IN
       \E t \in IF found = {} THEN {NoTransfer} ELSE found :
         pick' = [pick EXCEPT ![c] = t]
    /\ UNCHANGED <<status, gone, word, event>>

\* <-ticker.C, then the search of SendingFiles under RLock. Go's map iteration
\* has no order: any active record may be the first met.
ScanSending(c) ==
    /\ pc[c] = "waiting"
    /\ pc' = [pc EXCEPT ![c] = "receiving"]
    /\ \E t \in IF ActiveOf(Sends) = {} THEN {NoTransfer} ELSE ActiveOf(Sends) :
         pick' = [pick EXCEPT ![c] = t]
    /\ UNCHANGED <<status, gone, word, event>>

\* The search of ReceivingFiles under RLock, in favour of what was found above.
ScanReceiving(c) ==
    /\ pc[c] = "receiving"
    /\ pick[c] # NoTransfer \/ ActiveOf(Recvs) # {}
    /\ pc' = [pc EXCEPT ![c] = "status"]
    /\ IF pick[c] # NoTransfer THEN UNCHANGED pick
       ELSE \E t \in ActiveOf(Recvs) : pick' = [pick EXCEPT ![c] = t]
    /\ UNCHANGED <<status, gone, word, event>>

\* Neither search found anything: nil payload, "idle" event
Idle(c) ==
    /\ pc[c] = "receiving"
    /\ pick[c] = NoTransfer /\ ActiveOf(Recvs) = {}
    /\ pc' = [pc EXCEPT ![c] = "waiting"]
    /\ event' = [event EXCEPT ![c] = Event("idle", NoTransfer, "none")]
    /\ UNCHANGED <<status, gone, pick, word>>

\* First half of reading pick.Status: the address
ReadStatusWord(c) ==
    /\ pc[c] = "status"
    /\ word' = [word EXCEPT ![c] = status[pick[c]]]
    /\ pc' = [pc EXCEPT ![c] = "emit"]
    /\ UNCHANGED <<status, gone, pick, event>>

\* The string made of the address of s and the length of u: s itself, or a
\* text that is no status at all.
TornString(s, u) == IF StatusLength(s) = StatusLength(u) THEN s ELSE "torn"

\* Mutant: the status goes out under its internal name.
toAPIStatus_Raw(s) == s

\* Mutant: what is no known status is reported as failed.
toAPIStatus_DefaultFailed(s) ==
    CASE s = "pending" -> "preparing" [] s = "sending" -> "transferring"
      [] s = "done" -> "completed" [] OTHER -> "failed"

toAPIStatus(s) ==
    CASE s = "sending" -> "transferring" [] s = "done" -> "completed"
      [] s = "failed" -> "failed" [] OTHER -> "preparing"

\* Second half of the read, then the "progress" event, and the "done" event
\* and the end of the stream if the status is a final one.
Emit(c) ==
    /\ pc[c] = "emit"
    /\ LET shown == toAPIStatus(TornString(word[c], status[pick[c]]))
           ended == shown \in {"completed", "failed"}
       IN
        /\ event' = [event EXCEPT
             ![c] = Event(IF ended THEN "done" ELSE "progress", pick[c], shown)]
        /\ pc' = [pc EXCEPT ![c] = IF ended THEN "closed" ELSE "waiting"]
    /\ pick' = [pick EXCEPT ![c] = NoTransfer]
    /\ word' = [word EXCEPT ![c] = "none"]
    /\ UNCHANGED <<status, gone>>
-----------------------------------------------------------------------------
Transfer(t) ==
    Register(t) \/ \E s \in {"sending", "done", "failed"} : UpdateStatus(t, s)

Stream(c) ==
    \/ ScanSending(c) \/ ScanReceiving(c) \/ Idle(c) \/ ReadStatusWord(c) \/ Emit(c)
    \/ Leave(c)

Next ==
    \/ \E t \in Transfers : Transfer(t)
    \/ \E c \in Clients : Get(c) \/ Disconnect(c) \/ Stream(c)

\* The ticker fires every second and none of the steps blocks. At the select
\* the client's absence is ready at once and for good, the ticker at most once
\* a second, and select picks among ready cases at random: it cannot miss the
\* absence for ever. Transfers need not progress.
Fairness == \A c \in Clients : WF_vars(Stream(c)) /\ SF_vars(Leave(c))

Spec == Init /\ [][Next]_vars
FairSpec == Spec /\ Fairness
-----------------------------------------------------------------------------
Statuses == {"none", "pending", "sending", "done", "failed"}

TypeOK ==
    /\ status \in [Transfers -> Statuses]
    /\ pc \in [Clients -> {"absent", "waiting", "receiving", "status", "emit", "closed"}]
    /\ gone \in [Clients -> BOOLEAN]
    /\ pick \in [Clients -> Transfers \cup {NoTransfer}]
    /\ word \in [Clients -> Statuses]
    /\ event \in [Clients ->
         [kind : {"none", "connected", "idle", "progress", "done"},
          transfer : Transfers \cup {NoTransfer},
          status : {"none", "preparing", "transferring", "completed", "failed"}]]

\* A client is told that a transfer completed or failed only if it did, though
\* the status it is told was read without a lock and may be torn.
DoneIsTruthful ==
    \A c \in Clients : event[c].kind = "done" =>
        /\ event[c].transfer \in Transfers
        /\ Settled(event[c].transfer)
        /\ event[c].status = "completed" <=> status[event[c].transfer] = "done"

\* The goroutine of a client that has left ends, even if it left in the middle
\* of a tick.
GoneStreamEnds == \A c \in Clients : gone[c] ~> pc[c] = "closed"

\* A transfer that stays active, the only one, is shown to every client that
\* stays.
ActiveIsShown ==
    \A c \in Clients, t \in Transfers :
        pc[c] = "waiting" /\ Active(t) ~>
            \/ event[c].transfer = t \/ pc[c] = "closed"
            \/ ~Active(t) \/ \E u \in Transfers \ {t} : Active(u)

\* get.go:73: a client that follows a transfer gets a "done" event when it ends.
EndIsAnnounced ==
    \A c \in Clients, t \in Transfers :
        event[c].kind = "progress" /\ event[c].transfer = t /\ Settled(t) ~>
            event[c].kind = "done" \/ gone[c]
=============================================================================
