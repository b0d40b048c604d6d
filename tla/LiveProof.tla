------------------------------ MODULE LiveProof --------------------------------
(***************************************************************************)
(* The end-state proof: verify-proof-cli.ts, which reads the checkout, then *)
(* one after the other the service's settings, its newest deployment, its   *)
(* domain and its endpoints, and the checks of verify-proof.ts over what it *)
(* read.  Nothing holds still meanwhile.                                    *)
(***************************************************************************)
EXTENDS Deployments

CONSTANTS
  Sound  \* the commits whose files pass: the Dockerfile pins the lock's commit,
         \* railway.toml has the builder, the healthcheck and the mount

ASSUME SoundAssumption == Sound \subseteq Commit

\* What may be set otherwise in the dashboard, by the step that reads it.
Setting  == {"source", "runtime", "domain"}
Endpoint == {"setupHealth", "setup", "openclaw"}

\* Statuses that tell the checks apart, and those each endpoint may have.
HttpStatus  == {200, 302, 401, 404, 503}
Accepted(e) == IF e = "setupHealth" THEN {200} ELSE {200, 301, 302, 401}

VARIABLES
  gitHead,    \* the commit the local checkout is at
  tree,       \* the commit whose files lie in it
  drifted,    \* the settings that are not as expected
  proofPc,    \* the read the proof does next, "idle" or "done"
  live,       \* "yes" or "no": the four live variables are set
  required,   \* "yes" or "no": RAILWAY_PROOF_LIVE_REQUIRED
  aimed,      \* "yes" or "no": RAILWAY_PROOF_URL is the service's own domain
  expected,   \* the expected commit; 0 until it is read from HEAD
  files,      \* the commit whose files were read
  asExpected, \* the settings that were read and are as expected
  listed,     \* the deployment that was the newest when listed
  seenStatus, \* its status then
  answers,    \* of every endpoint, "expected" or "other" than that; "none" yet
  answeredBy, \* history: the deployments that answered
  changes     \* history: how often anything changed since the proof began

world   == <<platform, gitHead, tree, drifted>>
reading == <<live, required, aimed, expected, files, asExpected, listed, seenStatus,
             answers, answeredBy>>
proof   == <<proofPc, reading>>

ProofType ==
  /\ gitHead \in Commit /\ tree \in Commit
  /\ drifted \subseteq Setting
  /\ proofPc \in {"idle", "head", "deployment", "endpoints", "done"} \cup Setting
  /\ live \in {"yes", "no"} /\ required \in {"yes", "no"}
  /\ aimed \in {"yes", "no"}
  /\ expected \in Commit \cup {0}
  /\ files \in Commit
  /\ asExpected \subseteq Setting
  /\ listed \in 0..Len(deployments)
  /\ seenStatus \in Status \cup {"none"}
  /\ answers \in [Endpoint -> {"none", "expected", "other"}]
  /\ answeredBy \subseteq DOMAIN deployments
  /\ changes \in Nat

ProofInit ==
  /\ gitHead = 1 /\ tree = 1 /\ drifted = {}
  /\ proofPc = "idle"
  /\ live = "no" /\ required = "no" /\ aimed = "no"
  /\ expected = 0 /\ files = 1
  /\ asExpected = {}
  /\ listed = 0 /\ seenStatus = "none"
  /\ answers = [e \in Endpoint |-> "none"] /\ answeredBy = {}
  /\ changes = 0

-----------------------------------------------------------------------------
(* What changes under the proof.                                           *)

Checkout ==
  /\ \E c \in Commit : gitHead' = c /\ tree' = c
  /\ UNCHANGED <<platform, drifted>>

Edit ==
  /\ \E c \in Commit : tree' = c
  /\ UNCHANGED <<platform, gitHead, drifted>>

\* Somebody changes a setting in the dashboard, or puts it right again.
Drift(s) ==
  /\ drifted' = (drifted \ {s}) \cup ({s} \ drifted)
  /\ UNCHANGED <<platform, gitHead, tree>>

Noted ==
  /\ changes' = IF proofPc = "idle" THEN changes ELSE changes + 1
  /\ UNCHANGED proof

WorldStep ==
  /\ \/ PlatformStep /\ UNCHANGED <<gitHead, tree, drifted>>
     \/ Checkout \/ Edit
     \/ \E s \in Setting : Drift(s)
  /\ Noted

-----------------------------------------------------------------------------
(* The reads of main(), each awaited before the next.                      *)

After(read) ==
  CASE read = "head" -> "source" [] read = "source" -> "runtime"
    [] read = "runtime" -> "deployment" [] read = "deployment" -> "domain"
    [] read = "domain" -> "endpoints" [] OTHER -> "done"

\* The variables of a process that has read nothing.
Unread ==
  /\ asExpected' = {}
  /\ listed' = 0 /\ seenStatus' = "none"
  /\ answers' = [e \in Endpoint |-> "none"] /\ answeredBy' = {}
  /\ changes' = 0

Exits == proofPc' = "idle" /\ live' = "no" /\ required' = "no" /\ aimed' = "no"
         /\ expected' = 0 /\ files' = 1 /\ Unread

\* main() starts with its environment and the files of the checkout.  The three
\* are read at once, in milliseconds, and taken here to be of one state of it.
StartProof ==
  /\ proofPc \in {"idle", "done"}
  /\ live' \in {"yes", "no"} /\ required' \in {"yes", "no"}
  /\ aimed' \in {"yes", "no"}
  /\ expected' \in Commit \cup {0}
  /\ files' = tree
  /\ Unread
  /\ proofPc' = "head"
  /\ UNCHANGED world

\* The expected commit, RAILWAY_EXPECTED_COMMIT or HEAD.  Without the live
\* variables the files are all there is; when the live half is required, main() throws.
ReadHead ==
  /\ proofPc = "head"
  /\ live = "yes" \/ required = "no"
  /\ IF live = "yes"
     THEN /\ expected' = IF expected = 0 THEN gitHead ELSE expected
          /\ proofPc' = After("head")
     ELSE /\ proofPc' = "done"
          /\ UNCHANGED expected
  /\ UNCHANGED <<world, live, required, aimed, files, asExpected, listed, seenStatus,
                 answers, answeredBy, changes>>

ReadSetting(s) ==
  /\ proofPc = s
  /\ asExpected' = asExpected \cup ({s} \ drifted)
  /\ proofPc' = After(s)
  /\ UNCHANGED <<world, live, required, aimed, expected, files, listed, seenStatus,
                 answers, answeredBy, changes>>

ListNewest ==
  /\ proofPc = "deployment"
  /\ listed' = Newest
  /\ seenStatus' = StatusOf(Newest)
  /\ proofPc' = After("deployment")
  /\ UNCHANGED <<world, live, required, aimed, expected, files, asExpected,
                 answers, answeredBy, changes>>

\* One of the three GETs that run side by side is answered as they like: by the
\* deployment that has the domain or by Railway's edge, or, where the URL is not
\* the service's domain, by somebody else.
Fetch(e) ==
  /\ proofPc = "endpoints"
  /\ answers[e] = "none"
  /\ \E a \in HttpStatus :
       /\ a = 503 \/ aimed = "no" \/ Serving(route)
       /\ answers' = [answers EXCEPT ![e] =
                        IF a \in Accepted(e) THEN "expected" ELSE "other"]
  /\ answeredBy' = answeredBy \cup {d \in DOMAIN deployments : aimed = "yes" /\ Serving(d)}
  /\ proofPc' = IF \E f \in Endpoint \ {e} : answers[f] = "none"
                THEN proofPc ELSE After("endpoints")
  /\ UNCHANGED <<world, live, required, aimed, expected, files, asExpected, listed,
                 seenStatus, changes>>

\* A command or a request fails: main() rejects, nothing is judged, and what was
\* read goes with the process.
ProofThrows ==
  /\ proofPc \notin {"idle", "done"}
  /\ Exits
  /\ UNCHANGED world

ProofStep ==
  \/ StartProof \/ ReadHead \/ ListNewest \/ ProofThrows
  \/ \E s \in Setting : ReadSetting(s)
  \/ \E e \in Endpoint : Fetch(e)

-----------------------------------------------------------------------------
(* verifyOpenClawRailwayProof over what was read.                          *)

\* Mutant: any commit will do.
DeploymentChecksAnyCommit == seenStatus = "SUCCESS"

\* Repository and branch are checked as well; all deployments here are of those
\* that are expected.
DeploymentChecks == seenStatus = "SUCCESS" /\ CommitOf(listed) = expected

SettingChecks == asExpected = Setting

EndpointChecks == \A e \in Endpoint : answers[e] = "expected"

Passed ==
  /\ proofPc = "done"
  /\ files \in Sound
  /\ live = "yes" => SettingChecks /\ DeploymentChecks /\ EndpointChecks

\* A live proof that passes and saw no change is true: the newest deployment is
\* up and of the expected commit, every setting is as expected, and, where the
\* URL is the service's domain, what has the domain answers on it.  That may
\* still be the deployment the newest one is about to replace: nothing the proof
\* reads tells them apart.  When the expected commit is HEAD and the files are
\* HEAD's, then it is the deployed Dockerfile that pins the lock's commit.
PassingProofHolds ==
  Passed /\ live = "yes" /\ changes = 0 =>
    /\ drifted = {}
    /\ StatusOf(Newest) = "SUCCESS" /\ CommitOf(Newest) = expected
    /\ aimed = "yes" => Serving(route) /\ answeredBy = {route}
    /\ expected = gitHead /\ tree = gitHead => CommitOf(Newest) \in Sound
=============================================================================
