------------------------------ MODULE Delivery ------------------------------
(***************************************************************************)
(* What a file transfer promises, without frames, windows, connections or  *)
(* goroutines: the files of a sound request arrive one after the other,    *)
(* each is counted once it is there whole and not before the sender has    *)
(* reached it, what an end reports is earned, and a report is final. An    *)
(* end may fail at any moment. Of a request that is not sound only the     *)
(* reports are promised, not what is stored.                               *)
(***************************************************************************)
EXTENDS Naturals, Sequences

CONSTANTS
    Names,      \* what files are stored under
    Requests,   \* sequences of files, with a name, bytes, readable and size
    SizeLimit,  \* sizes from here on do not arrive as what they are
    Nothing     \* stored under a name nothing was stored under

VARIABLES
    files,               \* the request
    sender, receiver,    \* what each end reports
    sent, counted,       \* files each end is done with
    store                \* name -> the bytes stored under it, each as <<file, position>>

vars == <<files, sender, receiver, sent, counted, store>>

Sound ==
    \A i \in 1 .. Len(files) :
        files[i].readable /\ files[i].size = files[i].bytes /\ files[i].size < SizeLimit

\* The first n bytes of file i
Beginning(i, n) == [k \in 1 .. n |-> <<i, k>>]
-----------------------------------------------------------------------------
Init ==
    /\ files \in Requests
    /\ sender = "none" /\ receiver = "none"
    /\ sent = 0 /\ counted = 0
    /\ store = [n \in Names |-> Nothing]

SenderStarts ==
    /\ \/ sender = "none" /\ sender' = "pending"
       \/ sender = "pending" /\ sender' = "sending"
    /\ UNCHANGED <<files, receiver, sent, counted, store>>

FileLeaves ==
    /\ sender = "sending" /\ sent < Len(files)
    /\ sent' = sent + 1
    /\ UNCHANGED <<files, sender, receiver, counted, store>>

SenderEnds ==
    /\ sender = "sending"
    /\ sender' = "failed" \/ (sender' = "done" /\ sent = Len(files))
    /\ UNCHANGED <<files, receiver, sent, counted, store>>

\* Nothing is received that was not sent.
ReceiverStarts ==
    /\ sender \notin {"none", "pending"}
    /\ \/ receiver = "none" /\ receiver' = "pending"
       \/ receiver = "pending" /\ receiver' = "sending"
    /\ UNCHANGED <<files, sender, sent, counted, store>>

\* The file after those counted is begun, or grows by the next of its bytes.
FileGrows ==
    /\ receiver = "sending" /\ counted < Len(files)
    /\ Sound =>
        LET name == files[counted + 1].name IN
        /\ counted <= sent
        /\ \E n \in 0 .. files[counted + 1].bytes :
            /\ n > 0 => store[name] = Beginning(counted + 1, n - 1)
            /\ store' = [store EXCEPT ![name] = Beginning(counted + 1, n)]
    /\ UNCHANGED <<files, sender, receiver, sent, counted>>

FileArrives ==
    /\ receiver = "sending" /\ counted < Len(files)
    /\ Sound =>
        /\ counted <= sent
        /\ store[files[counted + 1].name] = Beginning(counted + 1, files[counted + 1].bytes)
    /\ counted' = counted + 1
    /\ UNCHANGED <<files, sender, receiver, sent, store>>

ReceiverEnds ==
    /\ receiver = "sending"
    /\ receiver' = "failed" \/ (receiver' = "done" /\ counted = Len(files))
    /\ UNCHANGED <<files, sender, sent, counted, store>>
-----------------------------------------------------------------------------
Next ==
    \/ SenderStarts \/ FileLeaves \/ SenderEnds
    \/ ReceiverStarts \/ FileGrows \/ FileArrives \/ ReceiverEnds

Spec == Init /\ [][Next]_vars
-----------------------------------------------------------------------------
DistinctNames == \A i, j \in 1 .. Len(files) : files[i].name = files[j].name => i = j

\* What is counted of a sound request is stored, and stays so if no two of its
\* files have one name; it is at most one file ahead of what was sent.
CountedIsStored ==
    /\ Sound => counted <= sent + 1
    /\ Sound /\ DistinctNames =>
        \A i \in 1 .. counted : store[files[i].name] = Beginning(i, files[i].bytes)

\* Done is said by an end that is done with every file, and what an end says last
\* it never takes back.
DoneIsEarned ==
    /\ sender = "done" => sent = Len(files)
    /\ receiver = "done" => counted = Len(files)

ReportsAreFinal ==
    [][ /\ sender \in {"done", "failed"} => sender' = sender
        /\ receiver \in {"done", "failed"} => receiver' = receiver ]_vars
=============================================================================
