----------------------------- MODULE DeployCheck -------------------------------
(***************************************************************************)
(* The scheduled deployment check: verify-deploy-cli.ts and the decisions  *)
(* of verify-deploy.ts, as railway-deploy-verify.yml runs them.  A run     *)
(* asks Railway once for the list of deployments and judges one of them;   *)
(* deployments go on changing between the question and the verdict.        *)
(***************************************************************************)
EXTENDS Deployments

\* No deployment, commit or status.
Nothing == 0

VARIABLES
  configured,  \* "yes" or "no": the three scoping variables are all set
  checkPc,  \* "idle", "asking" Railway, or "listed": it has answered
  target,   \* the commit the run was started for, Nothing for the newest
  suite,    \* the commit whose check suite the run is, Nothing if scheduled
  selected, \* the deployment the run picked from the list, or Nothing
  seen,     \* that deployment's status in the list
  verdict,  \* how the run ended; "none" before its end
  known     \* history: how many deployments there were when the run began

check == <<configured, checkPc, target, suite, selected, seen, verdict, known>>

Verdict == {"none", "skipped", "unknown", "nothing", "success", "failure", "pending"}

CheckType ==
  /\ configured \in {"yes", "no"}
  /\ checkPc \in {"idle", "asking", "listed"}
  /\ target \in Commit \cup {Nothing}
  /\ suite \in Commit \cup {Nothing}
  /\ selected \in 0..Len(deployments)
  /\ seen \in Status \cup {"none"}
  /\ verdict \in Verdict
  /\ known \in 0..Len(deployments)

CheckInit ==
  /\ configured \in {"yes", "no"}
  /\ checkPc = "idle"
  /\ target = Nothing
  /\ suite = Nothing
  /\ selected = Nothing
  /\ seen = "none"
  /\ verdict = "none"
  /\ known = 0

-----------------------------------------------------------------------------
\* railway deployment list: newest first.  Deployments go by their number in
\* the order they were made.
Listing == [i \in 1..Newest |-> Newest + 1 - i]

SelectLatestDeployment == IF Listing = <<>> THEN Nothing ELSE Listing[1]

\* Mutant: takes the last match of the list.
SelectOldestForCommit(c) ==
  LET matches == {i \in DOMAIN Listing : CommitOf(Listing[i]) = c}
  IN  IF matches = {} THEN Nothing
      ELSE Listing[CHOOSE i \in matches : \A j \in matches : j <= i]

\* deployments.find(): the first match of the list.
SelectDeploymentForCommit(c) ==
  LET matches == {i \in DOMAIN Listing : CommitOf(Listing[i]) = c}
  IN  IF matches = {} THEN Nothing
      ELSE Listing[CHOOSE i \in matches : \A j \in matches : i <= j]

\* Mutant: knows the four obvious failures only, as first written.
ClassifyObvious(s) ==
  CASE s = "SUCCESS" -> "success"
    [] s \in {"CRASHED", "FAILED", "REMOVED", "SKIPPED"} -> "failure"
    [] OTHER -> "pending"

ClassifyDeploymentStatus(s) ==
  CASE s = "SUCCESS" -> "success"
    [] s \in TerminalFailureStatuses -> "failure"
    [] OTHER -> "pending"

\* The commits a trigger may start a run for: its target and its suite.  A
\* dispatch may name a commit that no deployment has.
StartsFor(trigger, t, c) ==
  CASE trigger = "schedule"          -> t = Nothing /\ c = Nothing
    [] trigger = "workflow_dispatch" -> c = Nothing
    [] trigger = "push"              -> t = Nothing /\ c # Nothing
                                        /\ suites[c]["verify"] = "running"

\* The job starts; the concurrency group lets one run at a time.  Without its
\* configuration it ends at once.
StartCheck(trigger) ==
  /\ checkPc = "idle"
  /\ \E t, c \in Commit \cup {Nothing} :
       StartsFor(trigger, t, c) /\ target' = t /\ suite' = c
  /\ IF configured = "yes" THEN checkPc' = "asking" /\ verdict' = "none"
                           ELSE checkPc' = "idle" /\ verdict' = "skipped"
  /\ selected' = Nothing /\ seen' = "none"
  /\ known' = Newest
  /\ UNCHANGED <<platform, configured>>

\* Railway takes the list the run asked for.
List ==
  /\ checkPc = "asking"
  /\ LET d == IF target # Nothing THEN SelectDeploymentForCommit(target)
              ELSE SelectLatestDeployment
     IN  /\ selected' = d
         /\ seen' = IF d = Nothing THEN "none" ELSE StatusOf(d)
  /\ checkPc' = "listed"
  /\ UNCHANGED <<platform, configured, target, suite, verdict, known>>

\* The job's exit code, which is the suite's result when the run is one.
Concludes(v) ==
  /\ checkPc' = "idle"
  /\ verdict' = v
  /\ suites' = IF suite = Nothing THEN suites
               ELSE [suites EXCEPT ![suite]["verify"] =
                       IF v \in {"failure", "unknown"} THEN "failed" ELSE "passed"]
  /\ UNCHANGED <<deployments, route, configured, target, suite, selected, seen, known>>

\* Mutant: a query that failed is reported like a failed deployment.
QueryFailureBlames ==
  /\ checkPc \in {"asking", "listed"}
  /\ Concludes("failure")

\* The query fails, before or after Railway took the list, or the job is
\* cut off by timeout-minutes.
QueryFails ==
  /\ checkPc \in {"asking", "listed"}
  /\ Concludes("unknown")

\* The answer arrives and is judged.
Judge ==
  /\ checkPc = "listed"
  /\ Concludes(IF selected = Nothing THEN "nothing" ELSE ClassifyDeploymentStatus(seen))

CheckStep ==
  \/ \E trigger \in Triggers("verify") : StartCheck(trigger)
  \/ List \/ QueryFails \/ Judge

-----------------------------------------------------------------------------
\* Without a commit of its own, the scheduled case, a run judges what was the
\* newest deployment at its beginning, or a newer one: a deployment superseded
\* before it, which Railway removed or skipped in good order, is never what it
\* fails or passes for.  A run dispatched for a commit judges the newest
\* deployment of that commit, which may well have been superseded by another
\* commit's.  A query that failed passes or accuses no deployment.
VerdictsAreCurrent ==
  verdict \in {"success", "failure", "pending"} =>
    /\ selected # Nothing
    /\ target = Nothing => selected >= known
    /\ target # Nothing =>
         /\ CommitOf(selected) = target
         /\ \A d \in 1..known : CommitOf(d) = target => d <= selected

NewestIs(d, statuses) == d = Newest /\ StatusOf(d) \in statuses

\* The newest deployment ended or stopped, and somebody has to act.
Broken(d) == NewestIs(d, Status \ {"WAITING", "BUILDING", "SUCCESS"})

Reported(d) == verdict = "failure" /\ selected = d

\* The gap the check closes: a newest deployment that failed, stopped or waits
\* for an approval, and stays so, is reported by some run.
BrokenDeploymentIsReported ==
  \A d \in 1..MaxDeployments :
    (configured = "yes" /\ Broken(d)) ~> (Reported(d) \/ ~Broken(d))

\* The check observes and never gates: the newest deployment of a commit whose
\* CI passed leaves WAITING, and not to be skipped because a check of it failed.
GreenCommitDeploys ==
  \A d \in 1..MaxDeployments :
    (NewestIs(d, {"WAITING"}) /\ suites[CommitOf(d)]["ci"] = "passed")
      ~> ~NewestIs(d, {"WAITING", "SKIPPED"})
=============================================================================
