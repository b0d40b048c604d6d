----------------------------- MODULE DeployWatch -------------------------------
(***************************************************************************)
(* The deployment check and the live proof over one service.  They share   *)
(* nothing but what they look at.                                          *)
(***************************************************************************)
EXTENDS DeployCheck, LiveProof

vars == <<world, check, proof, changes>>

TypeOK == PlatformType /\ CheckType /\ ProofType

Init == PlatformInit /\ CheckInit /\ ProofInit

Unwatched == UNCHANGED <<gitHead, tree, drifted, proof, changes>>

Next ==
  \/ WorldStep /\ UNCHANGED check
  \/ CheckStep /\ Unwatched
  \/ ProofStep /\ UNCHANGED check

Spec == Init /\ [][Next]_vars

Released(d) ==
  /\ d \in DOMAIN deployments
  /\ Release(d) /\ Noted
  /\ UNCHANGED <<gitHead, tree, drifted, check>>

\* Railway lets go of what waited for CI.  The cron keeps starting the check, also
\* among runs somebody dispatches, and does not fail every time.
Fairness ==
  /\ \A d \in 1..MaxDeployments : WF_vars(Released(d))
  /\ SF_vars(configured = "yes" /\ StartCheck("schedule") /\ Unwatched)
  /\ WF_vars((QueryFails \/ Judge) /\ Unwatched)
  /\ SF_vars(target = Nothing /\ List /\ Unwatched)
  /\ SF_vars(target = Nothing /\ Judge /\ Unwatched)

FairSpec == Spec /\ Fairness
=============================================================================
