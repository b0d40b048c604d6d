----------------------------- MODULE RawBodyProofs -----------------------------
(* Theorems about RawBody for every cap, chunk size and stream length. *)
EXTENDS RawBody, TLAPS

Inv == TypeOK /\ ReadingInv /\ NeverPartial

USE DEF Rejections, Callbacks

\* Nothing has been read.
LEMMA InitInv == Init => Inv
BY BytesAssumption DEF BytesAssumption, Init, Inv, TypeOK, ReadingInv, NeverPartial

\* Every callback and every chunk keeps the invariant.
LEMMA NextInv == ASSUME Inv, [Next]_vars PROVE Inv'
<1> USE DEF Inv, TypeOK, ReadingInv, NeverPartial
<1>1. CASE ReadRawBody
  BY <1>1 DEF ReadRawBody
<1>2. ASSUME NEW n \in ChunkSizes, Data(n) PROVE Inv'
  <2>1. n \in Nat \ {0} /\ sent' = sent + n /\ sent' \in 0..MaxSent
    BY <1>2, BytesAssumption DEF BytesAssumption, Data
  <2>2. CASE "data" \in armed
    <3>1. promise = "pending" /\ total = sent /\ chunks = sent /\ total' = sent + n
      BY <1>2, <2>2 DEF Data, OnData
    <3>2. CASE total + n > MaxBytes
      <4>1. /\ promise' = "too-large" /\ armed' = {} /\ sent' > MaxBytes
            /\ UNCHANGED <<stream, chunks>>
        BY <1>2, <2>1, <2>2, <3>1, <3>2 DEF Data, OnData, Settle
      <4> QED
        BY <2>1, <3>1, <4>1
    <3>3. CASE ~(total + n > MaxBytes)
      <4>1. /\ chunks' = sent' /\ sent' <= MaxBytes
            /\ UNCHANGED <<stream, promise, armed>>
        BY <1>2, <2>1, <2>2, <3>1, <3>3, BytesAssumption
           DEF BytesAssumption, Data, OnData
      <4> QED
        BY <2>1, <3>1, <4>1
    <3> QED
      BY <3>2, <3>3
  <2>3. CASE "data" \notin armed
    BY <1>2, <2>1, <2>3, BytesAssumption DEF BytesAssumption, Data
  <2> QED
    BY <2>2, <2>3
<1>3. CASE End
  BY <1>3 DEF End, Finish, Settle
<1>4. CASE Error
  BY <1>4 DEF Error, Finish, Settle
<1>5. CASE Timeout
  BY <1>5 DEF Timeout, Settle
<1>6. CASE UNCHANGED vars
  BY <1>6 DEF vars
<1> QED
  BY <1>1, <1>2, <1>3, <1>4, <1>5, <1>6 DEF Next

\* Every reachable state has the declared shape; the callbacks are armed only
\* while the promise is pending.
THEOREM TypeCorrect == Spec => []TypeOK
<1>1. Inv => TypeOK
  BY DEF Inv
<1> QED
  BY <1>1, InitInv, NextInv, PTL DEF Spec

\* readRawBody never hands on a truncated or an oversized body.
THEOREM BodiesAreWhole == Spec => []NeverPartial
<1>1. Inv => NeverPartial
  BY DEF Inv
<1> QED
  BY <1>1, InitInv, NextInv, PTL DEF Spec

\* Once settled nothing is armed, so no callback runs.
LEMMA SettledStep ==
  ASSUME Inv, [Next]_vars, promise \notin {"uncalled", "pending"}
  PROVE  UNCHANGED <<promise, armed, total, chunks>>
<1>1. armed = {}
  BY DEF Inv, TypeOK
<1>2. ASSUME NEW n \in ChunkSizes, Data(n)
      PROVE  UNCHANGED <<promise, armed, total, chunks>>
  BY <1>1, <1>2 DEF Data
<1> QED
  BY <1>1, <1>2 DEF Next, ReadRawBody, End, Error, Finish, Timeout, vars

\* The first outcome stands: no callback changes anything after it.
THEOREM OutcomeStands == Spec => SettledOnce
<1>1. ASSUME Inv, [Next]_vars
      PROVE  [promise \notin {"uncalled", "pending"} =>
                UNCHANGED <<promise, armed, total, chunks>>]_vars
  BY <1>1, SettledStep
<1> QED
  BY <1>1, InitInv, NextInv, PTL DEF Spec, SettledOnce
=============================================================================
