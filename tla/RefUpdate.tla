------------------------------- MODULE RefUpdate -------------------------------
(***************************************************************************)
(* updateClientRefVariable() and rotateGatewayToken() of                   *)
(* packages/openclaw-railway-installer/src/provision-client.ts: calls that *)
(* read a variable of one live service, write it, redeploy, poll and read  *)
(* it back, each step a separate Railway command, while other calls and    *)
(* the platform move on between any two of them.                           *)
(***************************************************************************)
EXTENDS Naturals, FiniteSets

CONSTANTS
  Call,       \* invocations; each runs once
  Variable,   \* the variables calls are about
  Ref,        \* values an update may ask for
  Unset,      \* no value (EXPECTED_REF_UNSET)
  Requests,   \* what a call may be asked for
  NoRequest,  \* what a call that has not begun was asked for
  MaxDeploys  \* bound on the deployments of the service

\* A rotation writes a fresh secret: the call's own name stands for it.
Value == Ref \cup Call

\* An update names the ref it wants and the one it expects; a rotation neither.
ASSUME RequestsAssumption == Requests \subseteq
  [kind : {"update", "rotate"}, variable : Variable, next : Ref,
   expected : Ref \cup {Unset}, force : BOOLEAN]
ASSUME DeploysAssumption == MaxDeploys \in Nat \ {0}
ASSUME ValuesAssumption == Unset \notin Value /\ NoRequest \notin Requests

Deploy == 1..MaxDeploys

VARIABLES
  variables,  \* the service's variables
  last,       \* the newest deployment; they are numbered from 1
  status,     \* the status of each
  built,      \* the variables each was built from
  shown,      \* the deployment service list reports; it lags behind
  pc,         \* the step a call is about to take, or how it ended
  req,        \* what it was asked for
  prior,      \* priorDeploymentId
  touched,    \* history: what a call has really changed, or had accepted for nothing
  quiet       \* history: no other call ran since it began

service == <<variables, last, status, built, shown>>
vars    == <<service, pc, req, prior, touched, quiet>>

Steps      == {"reading", "confirming", "listing", "writing", "redeploying",
               "polling", "readying", "verifying"}
Untouched  == {"refused", "failed", "noop"}
WasUpdated == {"unconfirmed", "terminal", "unverified", "updated"}
Outcomes   == Untouched \cup WasUpdated \cup {"uncertain", "crashed"}

TypeOK ==
  /\ variables \in [Variable -> Value \cup {Unset}]
  /\ last \in Deploy /\ shown \in 0..last
  /\ status \in [Deploy -> {"none", "building", "SUCCESS", "FAILED"}]
  /\ built \in [Deploy -> [Variable -> Value \cup {Unset}]]
  /\ \A d \in Deploy : status[d] = "none" <=> d > last
  /\ pc \in [Call -> {"idle"} \cup Steps \cup Outcomes]
  /\ req \in [Call -> Requests \cup {NoRequest}]
  /\ \A c \in Call : pc[c] # "idle" => req[c] \in Requests
  /\ prior \in [Call -> 0..last]
  /\ touched \in [Call -> SUBSET {"variable", "dropped", "deployment"}]
  /\ quiet \in [Call -> {"quiet", "overlapped"}]

\* The service runs, or its last deployment failed; nothing is under way.
Init ==
  /\ variables \in [Variable -> Ref \cup {Unset}]
  /\ last = 1 /\ shown = 1
  /\ status \in {[d \in Deploy |-> IF d = 1 THEN s ELSE "none"] : s \in {"SUCCESS", "FAILED"}}
  /\ built = [d \in Deploy |-> variables]
  /\ pc = [c \in Call |-> "idle"]
  /\ req = [c \in Call |-> NoRequest]
  /\ prior = [c \in Call |-> 0]
  /\ touched = [c \in Call |-> {}]
  /\ quiet = [c \in Call |-> "quiet"]

NextOf(c)  == IF req[c].kind = "rotate" THEN c ELSE req[c].next
Current(c) == variables[req[c].variable]
Active(c)  == pc[c] \in Steps

\* The call's next step, or its outcome.
Go(c, step) == pc' = [pc EXCEPT ![c] = step]

-----------------------------------------------------------------------------
Start(c, q) ==
  /\ pc[c] = "idle"
  /\ Go(c, "reading")
  /\ req' = [req EXCEPT ![c] = q]
  /\ quiet' = [d \in Call |->
       IF d = c
       THEN IF shown = last /\ \A e \in Call : ~Active(e) THEN "quiet" ELSE "overlapped"
       ELSE IF Active(d) THEN "overlapped" ELSE quiet[d]]
  /\ UNCHANGED <<service, prior, touched>>

\* Mutant: only an unset variable is compared.
StaleIfUnset(c) == Current(c) = Unset /\ req[c].expected # Unset

\* The caller was wrong about the current value.
Stale(c) == Current(c) # req[c].expected

Refuses(c) == IF req[c].kind = "rotate" THEN Current(c) = Unset ELSE Stale(c)

AlreadyThere(c) ==
  req[c].kind = "update" /\ Current(c) = req[c].next /\ ~req[c].force

\* The variable is read and compared; on a match a no-op is only confirmed.
ReadCurrent(c) ==
  /\ pc[c] = "reading"
  /\ \/ Refuses(c) /\ Go(c, "refused")
     \/ ~Refuses(c) /\ AlreadyThere(c) /\ Go(c, "confirming")
     \/ ~Refuses(c) /\ ~AlreadyThere(c) /\ Go(c, "listing")
     \/ Go(c, "failed")
  /\ UNCHANGED <<service, req, prior, touched, quiet>>

\* Some deployment has succeeded and so there is something to answer.
Answers == \E d \in Deploy : status[d] = "SUCCESS"

\* assertInstanceReady before a no-op is reported.
ConfirmNoop(c) ==
  /\ pc[c] = "confirming"
  /\ \/ Answers /\ Go(c, "noop")
     \/ Go(c, "failed")
  /\ UNCHANGED <<service, req, prior, touched, quiet>>

\* Mutant: goes on when the deployment id cannot be read.
ListUnguarded(c) ==
  /\ pc[c] = "listing"
  /\ \E d \in {0, shown} : prior' = [prior EXCEPT ![c] = d]
  /\ Go(c, "writing")
  /\ UNCHANGED <<service, req, touched, quiet>>

\* priorDeploymentId; refuses when the listing does not tell it.
ListPrior(c) ==
  /\ pc[c] = "listing"
  /\ \/ shown > 0 /\ prior' = [prior EXCEPT ![c] = shown] /\ Go(c, "writing")
     \/ UNCHANGED prior /\ Go(c, "refused")
     \/ UNCHANGED prior /\ Go(c, "failed")
  /\ UNCHANGED <<service, req, touched, quiet>>

Apply(c) ==
  /\ variables' = [variables EXCEPT ![req[c].variable] = NextOf(c)]
  /\ touched' = [touched EXCEPT ![c] = @ \cup {"variable"}]

\* Mutant: a failed write is taken for one that did nothing.
WriteFailsCleanly(c) ==
  /\ pc[c] = "writing"
  /\ \/ Apply(c) /\ Go(c, "redeploying")
     \/ Apply(c) /\ Go(c, "failed")
     \/ UNCHANGED <<variables, touched>> /\ Go(c, "failed")
  /\ UNCHANGED <<last, status, built, shown, req, prior, quiet>>

\* The write is accepted and does not take effect.
Drop(c) ==
  /\ touched' = [touched EXCEPT ![c] = @ \cup {"dropped"}]
  /\ UNCHANGED variables

\* variable set --skip-deploys.  A failure may come after the value was taken.
Write(c) ==
  /\ pc[c] = "writing"
  /\ \/ Apply(c) /\ Go(c, "redeploying")
     \/ Drop(c) /\ Go(c, "redeploying")
     \/ Apply(c) /\ Go(c, "uncertain")
     \/ UNCHANGED <<variables, touched>> /\ Go(c, "uncertain")
  /\ UNCHANGED <<last, status, built, shown, req, prior, quiet>>

\* A new deployment starts to build from the variables as they are now.
Deployed(c) ==
  /\ last < MaxDeploys
  /\ last' = last + 1
  /\ status' = [status EXCEPT ![last + 1] = "building"]
  /\ built' = [built EXCEPT ![last + 1] = variables]
  /\ touched' = [touched EXCEPT ![c] = @ \cup {"deployment"}]

Redeploy(c) ==
  /\ pc[c] = "redeploying"
  /\ \/ Deployed(c) /\ Go(c, "polling")
     \/ Deployed(c) /\ Go(c, "unconfirmed")
     \/ UNCHANGED <<last, status, built, touched>> /\ Go(c, "unconfirmed")
  /\ UNCHANGED <<variables, shown, req, prior, quiet>>

\* Mutant: the deployment that was there before counts.
AnyDeployment(c) == TRUE

\* The listing shows a deployment other than the one before the redeploy.
RolledOver(c) == shown # prior[c]

\* Mutant: only a success is held against the prior deployment.
PollBlamesPrior(c) ==
  /\ pc[c] = "polling"
  /\ \/ shown > 0 /\ RolledOver(c) /\ status[shown] = "SUCCESS" /\ Go(c, "readying")
     \/ shown > 0 /\ status[shown] = "FAILED" /\ Go(c, "terminal")
     \/ Go(c, "unconfirmed")
  /\ UNCHANGED <<service, req, prior, touched, quiet>>

\* Mutant: no deadline.
PollForever(c) ==
  /\ pc[c] = "polling"
  /\ \/ shown > 0 /\ RolledOver(c) /\ status[shown] = "SUCCESS" /\ Go(c, "readying")
     \/ shown > 0 /\ RolledOver(c) /\ status[shown] = "FAILED" /\ Go(c, "terminal")
  /\ UNCHANGED <<service, req, prior, touched, quiet>>

\* pollServiceUntilSuccess up to the listing that decides it, or the deadline.
Poll(c) ==
  /\ pc[c] = "polling"
  /\ \/ shown > 0 /\ RolledOver(c) /\ status[shown] = "SUCCESS" /\ Go(c, "readying")
     \/ shown > 0 /\ RolledOver(c) /\ status[shown] = "FAILED" /\ Go(c, "terminal")
     \/ Go(c, "unconfirmed")
  /\ UNCHANGED <<service, req, prior, touched, quiet>>

AssertReady(c) ==
  /\ pc[c] = "readying"
  /\ \/ Answers /\ Go(c, "verifying")
     \/ Go(c, "unconfirmed")
  /\ UNCHANGED <<service, req, prior, touched, quiet>>

\* Mutant: that the write was accepted and the instance answers is enough.
VerifyUnread(c) ==
  /\ pc[c] = "verifying"
  /\ Go(c, "updated")
  /\ UNCHANGED <<service, req, prior, touched, quiet>>

\* The variable is read back.
Verify(c) ==
  /\ pc[c] = "verifying"
  /\ \/ Current(c) = NextOf(c) /\ Go(c, "updated")
     \/ Go(c, "unverified")
  /\ UNCHANGED <<service, req, prior, touched, quiet>>

\* The operator's process dies.
Crash(c) ==
  /\ Active(c)
  /\ Go(c, "crashed")
  /\ UNCHANGED <<service, req, prior, touched, quiet>>

-----------------------------------------------------------------------------
(* The platform (external).                                                *)

Build(d) ==
  /\ status[d] = "building"
  /\ \E s \in {"SUCCESS", "FAILED"} : status' = [status EXCEPT ![d] = s]
  /\ UNCHANGED <<variables, last, built, shown, pc, req, prior, touched, quiet>>

\* The listing catches up with a newer deployment.
RollOver ==
  /\ \E d \in shown + 1 .. last : shown' = d
  /\ UNCHANGED <<variables, last, status, built, pc, req, prior, touched, quiet>>

Step(c) ==
  \/ ReadCurrent(c) \/ ConfirmNoop(c) \/ ListPrior(c) \/ Write(c)
  \/ Redeploy(c) \/ Poll(c) \/ AssertReady(c) \/ Verify(c)

Next ==
  \/ \E c \in Call : (\E q \in Requests : Start(c, q)) \/ Step(c) \/ Crash(c)
  \/ \E d \in Deploy : Build(d)
  \/ RollOver

Spec == Init /\ [][Next]_vars

\* Commands return and deadlines pass; the platform owes nothing.
FairSpec == Spec /\ \A c \in Call : WF_vars(Step(c))

-----------------------------------------------------------------------------
\* Every way out of a call says truly whether the live service was touched:
\* refusals, no-ops and failed reads have changed nothing, a failed write never
\* redeployed, and whatever fails or succeeds later did write the variable, unless
\* the service accepted the write and dropped it.
OutcomeSaysWhatChanged == \A c \in Call :
  /\ pc[c] \in Untouched => touched[c] = {}
  /\ pc[c] = "uncertain" => touched[c] \subseteq {"variable"}
  /\ pc[c] \in WasUpdated => {"variable", "dropped"} \cap touched[c] # {}

\* Success and failure are read off a deployment newer than the one there before
\* the redeploy, whatever the listing showed in between: an old success is not
\* taken for the new one's, and a client whose last deployment had failed can be
\* recovered, since a call never fails on the deployment it set out to replace.
JudgesNewDeployments == \A c \in Call :
  /\ pc[c] = "updated" => \E d \in Deploy : d > prior[c] /\ status[d] = "SUCCESS"
  /\ pc[c] = "terminal" => \E d \in Deploy : d > prior[c] /\ status[d] = "FAILED"

\* The newest deployment that succeeded: the one that runs.
Runs(d) == status[d] = "SUCCESS" /\ \A e \in Deploy : status[e] = "SUCCESS" => e <= d

\* A call nobody else interfered with, begun when the listing was up to date,
\* reports success only with its own value built into the running deployment,
\* even when the service accepts a write that it then drops.
QuietUpdateRunsItsValue ==
  [][\A c \in Call :
       /\ pc[c] # "updated" /\ pc'[c] = "updated"
       /\ quiet[c] = "quiet"
       => \E d \in Deploy : Runs(d) /\ built[d][req[c].variable] = NextOf(c)]_vars

\* Such a call never overwrites a value its caller did not expect.
QuietWriteIsExpected ==
  [][\A c \in Call :
       /\ "variable" \notin touched[c] /\ "variable" \in touched'[c]
       /\ quiet[c] = "quiet" /\ req[c].kind = "update"
       => Current(c) = req[c].expected]_vars

\* Every call ends, even when nothing ever finishes building.
EveryCallEnds == \A c \in Call : pc[c] = "reading" ~> ~Active(c)
=============================================================================
