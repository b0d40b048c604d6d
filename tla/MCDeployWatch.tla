---------------------------- MODULE MCDeployWatch ------------------------------
(* A small instance of DeployWatch for TLC. *)
EXTENDS DeployWatch, FiniteSets

\* The check and the proof do not affect each other.  To keep TLC from their
\* product, the proof and what only the proof reads move where the check is not
\* configured and has not even been skipped yet.
ProofTurn == configured = "no" /\ verdict = "none"
CheckTurn == configured = "yes" \/ proofPc = "idle"

\* Bounds: the proof sees one deployment replace the first, one change while it
\* runs, and nothing after it; while only the first is there, and the files are
\* HEAD's, one setting may be off.
ProofBounds ==
  /\ Cardinality(drifted) <= 1
  /\ drifted = {} \/ (tree = gitHead /\ Len(deployments) = 1)
  /\ Len(deployments) <= 2
  /\ changes <= 1

\* Whether the live half is required matters only where it is not set up, and a
\* commit and a URL only where it is; with another site's URL, HEAD will do.
ProofInputs == proofPc = "head" =>
  /\ live = "yes" => required = "no"
  /\ live = "no" => aimed = "no"
  /\ aimed = "no" => expected = 0

MCNext ==
  \/ ~ProofTurn /\ CheckTurn /\ PlatformStep /\ Noted /\ UNCHANGED <<gitHead, tree, drifted, check>>
  \/ ProofTurn /\ proofPc # "done" /\ WorldStep /\ UNCHANGED check /\ ProofBounds'
  \/ CheckTurn /\ CheckStep /\ Unwatched
  \/ ProofTurn /\ ProofStep /\ UNCHANGED check /\ ProofInputs'

MCSpec == Init /\ [][MCNext]_vars /\ Fairness
=============================================================================
