--------------------------- MODULE DeliveryProofs ---------------------------
(***************************************************************************)
(* Proofs about Delivery alone: what a transfer promises its clients can be*)
(* read off the abstract specification, for any requests.                  *)
(***************************************************************************)
EXTENDS Delivery, TLAPS

\* A request is a sequence of files with names of the store.
RequestsHaveNames ==
    \A r \in Requests :
        /\ Len(r) \in Nat
        /\ \A i \in 1 .. Len(r) : r[i].name \in Names

\* How far each end is, and what the store of a sound request is a function of
InBounds ==
    /\ files \in Requests
    /\ sent \in 0 .. Len(files) /\ counted \in 0 .. Len(files)
    /\ Sound => DOMAIN store = Names

LEMMA InBoundsKept ==
    ASSUME RequestsHaveNames, InBounds, [Next]_vars
    PROVE  InBounds' /\ files' = files
<1>1. Len(files) \in Nat
  BY DEF InBounds, RequestsHaveNames
<1>2. files' = files /\ Sound' = Sound
  BY DEF Next, vars, SenderStarts, FileLeaves, SenderEnds, ReceiverStarts, FileGrows, FileArrives,
     ReceiverEnds, Sound
<1>3. sent' \in 0 .. Len(files) /\ counted' \in 0 .. Len(files)
  BY <1>1 DEF InBounds, Next, vars, SenderStarts, FileLeaves, SenderEnds, ReceiverStarts, FileGrows,
     FileArrives, ReceiverEnds
<1>4. Sound => DOMAIN store' = Names
  BY DEF InBounds, Next, vars, SenderStarts, FileLeaves, SenderEnds, ReceiverStarts, FileGrows,
     FileArrives, ReceiverEnds
<1> QED
  BY <1>2, <1>3, <1>4 DEF InBounds

\* The store changes only under the name of the file after those counted.
LEMMA CountedIsStoredKept ==
    ASSUME RequestsHaveNames, InBounds, CountedIsStored, [Next]_vars
    PROVE  CountedIsStored'
<1>1. /\ files' = files /\ Sound' = Sound /\ DistinctNames' = DistinctNames
      /\ \A i, n : Beginning(i, n)' = Beginning(i, n)
  BY InBoundsKept DEF Sound, DistinctNames, Beginning
<1> SUFFICES ASSUME Sound
             PROVE  /\ counted' <= sent' + 1
                    /\ DistinctNames => \A i \in 1 .. counted' :
                          store'[files[i].name] = Beginning(i, files[i].bytes)
  BY <1>1 DEF CountedIsStored
<1>2. /\ counted <= sent + 1
      /\ DistinctNames => \A i \in 1 .. counted :
            store[files[i].name] = Beginning(i, files[i].bytes)
  BY DEF CountedIsStored
<1>3. /\ Len(files) \in Nat /\ counted \in 0 .. Len(files) /\ sent \in 0 .. Len(files)
      /\ DOMAIN store = Names /\ \A i \in 1 .. Len(files) : files[i].name \in Names
  BY DEF InBounds, RequestsHaveNames
<1>4. CASE UNCHANGED <<sent, counted, store>>
  BY <1>2, <1>4
<1>5. CASE FileLeaves
  BY <1>2, <1>3, <1>5 DEF FileLeaves
<1>6. CASE FileGrows
  <2>1. UNCHANGED <<sent, counted>> /\ counted + 1 \in 1 .. Len(files)
    BY <1>3, <1>6 DEF FileGrows
  <2>2. PICK n \in 0 .. files[counted + 1].bytes :
            store' = [store EXCEPT ![files[counted + 1].name] = Beginning(counted + 1, n)]
    BY <1>6 DEF FileGrows
  <2>3. ASSUME DistinctNames, NEW i \in 1 .. counted
        PROVE  store'[files[i].name] = store[files[i].name]
    <3>1. files[i].name # files[counted + 1].name /\ files[i].name \in Names
      BY <1>3, <2>1, <2>3 DEF DistinctNames
    <3> QED
      BY <1>3, <2>2, <3>1
  <2> QED
    BY <1>2, <2>1, <2>3
<1>7. CASE FileArrives
  <2>1. /\ UNCHANGED <<sent, store>> /\ counted' = counted + 1 /\ counted <= sent
        /\ store[files[counted + 1].name] = Beginning(counted + 1, files[counted + 1].bytes)
    BY <1>7 DEF FileArrives
  <2>2. ASSUME NEW i \in 1 .. counted + 1, i \notin 1 .. counted PROVE i = counted + 1
    BY <1>3, <2>2
  <2> QED
    BY <1>2, <1>3, <2>1, <2>2
<1> QED
  BY <1>4, <1>5, <1>6, <1>7
  DEF Next, vars, SenderStarts, SenderEnds, ReceiverStarts, ReceiverEnds

\* Whatever the requests, as far as their names are names of the store: counting
\* is earned by storing, the receiver counts at most one file more than was sent,
\* and done is said of all files.
THEOREM CountingIsEarned ==
    ASSUME RequestsHaveNames
    PROVE  Spec => [](CountedIsStored /\ DoneIsEarned)
<1>1. Init => InBounds /\ CountedIsStored /\ DoneIsEarned
  BY DEF Init, InBounds, CountedIsStored, DoneIsEarned, RequestsHaveNames
<1>2. InBounds /\ [Next]_vars => InBounds'
  BY InBoundsKept
<1>3. InBounds /\ CountedIsStored /\ [Next]_vars => CountedIsStored'
  BY CountedIsStoredKept
<1>4. InBounds /\ DoneIsEarned /\ [Next]_vars => DoneIsEarned'
  <2> SUFFICES ASSUME InBounds, DoneIsEarned, [Next]_vars PROVE DoneIsEarned'
    OBVIOUS
  <2>1. files' = files /\ Len(files) \in Nat /\ sent \in Nat /\ counted \in Nat
    BY InBoundsKept DEF InBounds, RequestsHaveNames
  <2> QED
    BY <2>1 DEF DoneIsEarned, Next, vars, SenderStarts, FileLeaves, SenderEnds, ReceiverStarts,
       FileGrows, FileArrives, ReceiverEnds
<1> QED
  BY <1>1, <1>2, <1>3, <1>4, PTL DEF Spec

\* No end takes back what it reported last.
THEOREM FinalReports == Spec => ReportsAreFinal
<1>1. [Next]_vars =>
        [ /\ sender \in {"done", "failed"} => sender' = sender
          /\ receiver \in {"done", "failed"} => receiver' = receiver ]_vars
  BY DEF Next, vars, SenderStarts, FileLeaves, SenderEnds, ReceiverStarts, FileGrows, FileArrives,
     ReceiverEnds
<1> QED
  BY <1>1, PTL DEF Spec, ReportsAreFinal
=============================================================================
