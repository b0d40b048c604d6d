------------------------------ MODULE KeyLedger -------------------------------
(***************************************************************************)
(* What the dispatcher promises about its dedup keys, without saying how:  *)
(* a key that is taken has at most one holder, only its holder gives it    *)
(* back, one whose holder is done with it stays taken for the life of the  *)
(* process, and only a new process forgets.                                *)
(***************************************************************************)
EXTENDS Naturals

CONSTANTS Key, Holder

VARIABLES
  taken,    \* the keys nobody may claim
  holders,  \* who forwards each key now
  process   \* the number of the process, 0 for the first

state == <<taken, holders, process>>

Init == taken = {} /\ holders = [k \in Key |-> {}] /\ process = 0

Claim(k, h) ==
  /\ k \notin taken /\ holders[k] = {}
  /\ taken' = taken \cup {k}
  /\ holders' = [holders EXCEPT ![k] = {h}]
  /\ UNCHANGED process

\* The holder is done; the key stays taken.
Confirm(k, h) ==
  /\ k \in taken /\ holders[k] = {h}
  /\ holders' = [holders EXCEPT ![k] = {}]
  /\ UNCHANGED <<taken, process>>

Release(k, h) ==
  /\ k \in taken /\ holders[k] = {h}
  /\ taken' = taken \ {k}
  /\ holders' = [holders EXCEPT ![k] = {}]
  /\ UNCHANGED process

NewProcess ==
  /\ process' = process + 1
  /\ taken' = {} /\ holders' = [k \in Key |-> {}]

Next ==
  \/ \E k \in Key, h \in Holder : Claim(k, h) \/ Confirm(k, h) \/ Release(k, h)
  \/ NewProcess

Spec == Init /\ [][Next]_state
=============================================================================
