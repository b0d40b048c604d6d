----------------------------- MODULE Deployments -------------------------------
(***************************************************************************)
(* What the deployment check and the live proof look at: the pushed        *)
(* commits of main, the check suites GitHub runs for a push, and Railway's *)
(* deployments of one service under "Wait for CI", as the workflow files   *)
(* and the comments of verify-deploy-cli.ts and verify-deploy.ts describe  *)
(* them.  Everything but the triggers is external.                         *)
(***************************************************************************)
EXTENDS Naturals, Sequences

CONSTANTS
  MaxCommits,      \* bound on the commits of main; they are numbered in order
  MaxDeployments,  \* bound on the deployments Railway makes
  Stopped          \* how a running deployment may stop: of CRASHED, SLEEPING

ASSUME BoundsAssumption ==
  /\ MaxCommits \in Nat \ {0}
  /\ MaxDeployments \in Nat \ {0}
ASSUME StoppedAssumption == Stopped \subseteq {"CRASHED", "SLEEPING"}

Commit   == 1..MaxCommits
Workflow == {"ci", "verify"}

\* Mutant: the check is triggered by a push as well, as first planned.
TriggersWithPush(w) == {"schedule", "workflow_dispatch", "push"}

\* The "on" block of .github/workflows/railway-deploy-verify.yml.
VerifyTriggers(w) == {"schedule", "workflow_dispatch"}

\* What starts a workflow; ci.yml runs on every push to main.
Triggers(w) == IF w = "ci" THEN {"push"} ELSE VerifyTriggers(w)

\* The check suites of a push, which Railway waits for.
PushSuites == {w \in Workflow : "push" \in Triggers(w)}

\* terminalFailureStatuses: what will not become SUCCESS by itself.
TerminalFailureStatuses ==
  {"CRASHED", "FAILED", "NEEDS_APPROVAL", "REMOVED", "REMOVING", "SKIPPED", "SLEEPING"}

\* Of the statuses a deployment passes through, one stands for each kind:
\* WAITING before CI ended, BUILDING from then on to the end of the build.
Status == TerminalFailureStatuses \cup {"WAITING", "BUILDING", "SUCCESS"}

VARIABLES
  deployments,  \* the service's deployments, oldest first
  route,        \* the deployment whose container gets the domain's requests
  suites        \* the push suites of every commit

platform == <<deployments, route, suites>>

Deployment   == [commit : Commit, status : Status]
SuiteState   == {"none", "running", "passed", "failed"}
PlatformType ==
  /\ deployments \in Seq(Deployment)
  /\ Len(deployments) \in 1..MaxDeployments
  /\ route \in DOMAIN deployments
  /\ suites \in [Commit -> [Workflow -> SuiteState]]

\* One commit is deployed and runs.
PlatformInit ==
  /\ deployments = << [commit |-> 1, status |-> "SUCCESS"] >>
  /\ route = 1
  /\ suites = [c \in Commit |-> [w \in Workflow |->
                 IF c = 1 /\ w \in PushSuites THEN "passed" ELSE "none"]]

Newest      == Len(deployments)
StatusOf(d) == deployments[d].status
CommitOf(d) == deployments[d].commit
Pushed(c)   == \E d \in DOMAIN deployments : CommitOf(d) = c

HasRun(d)   == StatusOf(d) \in Stopped \cup {"SUCCESS"}

\* The deployment that answers the service's domain, if one does.
Serving(d) == d = route /\ StatusOf(d) = "SUCCESS"

-----------------------------------------------------------------------------
NewDeployment(c, s) ==
  /\ Len(deployments) < MaxDeployments
  /\ deployments' = Append(deployments, [commit |-> c, status |-> s])

Becomes(d, s) ==
  /\ deployments' = [deployments EXCEPT ![d].status = s]
  /\ UNCHANGED route

\* A commit is pushed: its suites start, its deployment waits for them.
Push ==
  \E c \in Commit :
    /\ ~Pushed(c) /\ \A b \in 1..(c - 1) : Pushed(b)
    /\ NewDeployment(c, "WAITING")
    /\ suites' = [suites EXCEPT ![c] =
                    [w \in Workflow |-> IF w \in PushSuites THEN "running" ELSE "none"]]
  /\ UNCHANGED route

\* An operator redeploys a commit that main has; nothing is waited for.
Redeploy ==
  /\ \E c \in Commit : Pushed(c) /\ NewDeployment(c, "BUILDING")
  /\ UNCHANGED <<route, suites>>

\* ci.yml ends for a commit; the verify job reports in DeployCheck.
CiEnds(c) ==
  /\ suites[c]["ci"] = "running"
  /\ \E s \in {"passed", "failed"} : suites' = [suites EXCEPT ![c]["ci"] = s]
  /\ UNCHANGED <<deployments, route>>

\* "Wait for CI": a deployment is held until every push suite of its commit
\* ended, and skipped when one of them failed.
Release(d) ==
  /\ StatusOf(d) = "WAITING"
  /\ \A w \in PushSuites : suites[CommitOf(d)][w] = "passed"
  /\ \E s \in {"BUILDING", "NEEDS_APPROVAL"} : Becomes(d, s)
  /\ UNCHANGED suites

Skip(d) ==
  /\ StatusOf(d) = "WAITING"
  /\ \A w \in PushSuites : suites[CommitOf(d)][w] \in {"passed", "failed"}
  /\ \E w \in PushSuites : suites[CommitOf(d)][w] = "failed"
  /\ Becomes(d, "SKIPPED")
  /\ UNCHANGED suites

Approve(d) ==
  /\ StatusOf(d) = "NEEDS_APPROVAL"
  /\ Becomes(d, "BUILDING")
  /\ UNCHANGED suites

BuildFails(d) ==
  /\ StatusOf(d) = "BUILDING"
  /\ Becomes(d, "FAILED")
  /\ UNCHANGED suites

\* The healthcheck of d passes, unless a newer deployment already runs.  Its
\* container is up; the domain still is where it was.
BuildSucceeds(d) ==
  /\ StatusOf(d) = "BUILDING"
  /\ \A e \in DOMAIN deployments : e > d => ~HasRun(e)
  /\ Becomes(d, "SUCCESS")
  /\ UNCHANGED suites

\* Some time after that the domain's requests go to d, as the comment at
\* index.ts:265 on a container in transition has it.
TakeOver(d) ==
  /\ d > route /\ StatusOf(d) = "SUCCESS"
  /\ route' = d
  /\ UNCHANGED <<deployments, suites>>

\* What ran before the deployment that took over is removed.
Retire(d) ==
  /\ d < route /\ HasRun(d)
  /\ Becomes(d, "REMOVED")
  /\ UNCHANGED suites

\* A newer deployment supersedes one that has not come to run (REMOVED stands
\* for SKIPPED as well).
Supersede(d) ==
  /\ d < Newest
  /\ StatusOf(d) \in {"WAITING", "BUILDING", "NEEDS_APPROVAL"}
  /\ Becomes(d, "REMOVED")
  /\ UNCHANGED suites

Stop(d) ==
  /\ StatusOf(d) = "SUCCESS"
  /\ \E s \in Stopped : Becomes(d, s)
  /\ UNCHANGED suites

\* It is restarted, or woken by a request.
Resume(d) ==
  /\ StatusOf(d) \in Stopped
  /\ Becomes(d, "SUCCESS")
  /\ UNCHANGED suites

Evolve(d) ==
  \/ Release(d) \/ Skip(d) \/ Approve(d) \/ BuildFails(d) \/ BuildSucceeds(d)
  \/ TakeOver(d) \/ Retire(d) \/ Supersede(d) \/ Stop(d) \/ Resume(d)

PlatformStep ==
  \/ Push \/ Redeploy
  \/ \E c \in Commit : CiEnds(c)
  \/ \E d \in DOMAIN deployments : Evolve(d)
=============================================================================
