----------------------- MODULE ConnectionTableProofs -----------------------
(***************************************************************************)
(* What the actions of the abstract connection table amount to.            *)
(***************************************************************************)
EXTENDS ConnectionTable, TLAPS

\* Entries are records or none, and what is open is a record.
TypeOK == entry \in [Peers -> Records \cup {NoRec}] /\ open \subseteq Records

\* A connection that is open is the entry of a peer: a client that asks one
\* request after another finds the connection it has, and leaks none.
THEOREM OpenEntered ==
    ASSUME NoRec \notin Records
    PROVE  Spec => []OpenIsEntered
<1> DEFINE Inv == TypeOK /\ OpenIsEntered
<1>1. Init => Inv
  BY DEF Init, TypeOK, OpenIsEntered
<1>2. Inv /\ [Next]_vars => Inv'
  <2> SUFFICES ASSUME Inv, [Next]_vars
               PROVE  Inv'
    OBVIOUS
  <2> USE DEF TypeOK, OpenIsEntered
  <2>1. ASSUME NEW p \in Peers, NEW r \in Records, Store(p, r)
        PROVE  Inv'
    <3>1. TypeOK'
      BY <2>1 DEF Store
    <3>2. entry'[p] = r /\ \A q \in Peers \ {p} : entry'[q] = entry[q]
      BY <2>1 DEF Store
    <3>3. ASSUME NEW s \in open'
          PROVE  \E q \in Peers : entry'[q] = s
      <4>1. CASE s = r
        BY <3>2, <4>1
      <4>2. CASE s # r
        <5>1. PICK q \in Peers : entry[q] = s
          BY <2>1, <3>3, <4>2 DEF Store
        <5>2. q # p
          BY <2>1, <3>3, <4>2, <5>1 DEF Store
        <5> QED
          BY <3>2, <5>1, <5>2
      <4> QED
        BY <4>1, <4>2
    <3> QED
      BY <3>1, <3>3
  <2>2. ASSUME NEW ps \in SUBSET Peers, CloseAndRemove(ps)
        PROVE  Inv'
    BY <2>2 DEF CloseAndRemove
  <2>3. CASE UNCHANGED vars
    BY <2>3 DEF vars
  <2> QED
    BY <2>1, <2>2, <2>3 DEF Next
<1>3. Inv => OpenIsEntered
  OBVIOUS
<1> QED
  BY <1>1, <1>2, <1>3, PTL DEF Spec
=============================================================================
