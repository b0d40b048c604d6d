----------------------------- MODULE ProfileApply ------------------------------
(***************************************************************************)
(* applyProfile() and runRegressionCheck() of openclaw-setup-applier: one  *)
(* profile, one service variable that holds its model-provider secret, and *)
(* the keys minted for it.  A call mints at most one key, which goes by    *)
(* the name of the call.  OpenRouter, Railway and the instance are         *)
(* external; any of their answers may fail, before or after taking effect. *)
(***************************************************************************)
EXTENDS Naturals

CONSTANTS
  Call,      \* invocations; each runs once
  Given,     \* a secret the operator set
  Absent,    \* no secret
  None       \* no configuration, no rollout

ASSUME SecretsAssumption == {Given, Absent, None} \cap Call = {}
                            /\ Given # Absent /\ Given # None /\ Absent # None

Secret == Call \cup {Given, Absent}

VARIABLES
  profile,   \* what it declares; every call gets the same one
  variable,  \* the Railway variable its secret name names
  running,   \* the value the serving process was started with
  rollout,   \* the value a deployment under way will start with
  config,    \* the secret /setup/api/run configured the instance with
  live,      \* the keys that exist at OpenRouter
  pc, job,   \* each call's next step or outcome, and which function it is
  secret,    \* existingVars[secretName], then the value the call works with
  verdict,   \* what a regression check found
  quiet,     \* history: no other call ran since it began
  minted,    \* history: keys ever created
  excused    \* history: keys lost track of for one of the known causes

instance == <<running, rollout, config>>
history  == <<quiet, minted, excused>>
vars     == <<profile, variable, instance, live, pc, job, secret, verdict, history>>

Profiles == [provider : {"none", "given", "managed"},
             customEnv : {"declared", "undeclared"},
             channels : {"present", "missing"}]

ApplySteps      == {"checking", "listing", "minting", "writing", "waiting",
                    "posting", "confirming"}
RegressionSteps == {"minting", "writing", "verifying", "deleting"}
Failures        == {"refused", "mintFailed", "writeFailed", "rejected",
                    "unhealthy", "postFailed", "unconfirmed", "crashed"}
Deleted         == {"passed", "failed"}
Outcomes        == Failures \cup Deleted
                   \cup {"alreadyConfigured", "applied", "undeleted"}

Active(c) == pc[c] \in ApplySteps \cup RegressionSteps

TypeOK ==
  /\ profile \in Profiles
  /\ variable \in minted \cup {Given, Absent}
  /\ running \in Secret /\ rollout \in Secret \cup {None}
  /\ config \in Secret \cup {None}
  /\ pc \in [Call -> {"idle"} \cup ApplySteps \cup RegressionSteps \cup Outcomes]
  /\ job \in [Call -> {"apply", "regression"}]
  /\ secret \in [Call -> Secret]
  /\ verdict \in [Call -> {"none", "pass", "fail"}]
  /\ quiet \in [Call -> {"quiet", "overlapped"}]
  /\ live \subseteq minted /\ minted \subseteq Call /\ excused \subseteq minted
  /\ \A c \in Call : secret[c] \in minted \cup {Given, Absent}
  /\ \A c \in Call : pc[c] \in {"waiting", "writing"} => secret[c] = c

Init ==
  /\ profile \in Profiles
  /\ variable \in {Given, Absent} /\ running = variable
  /\ rollout = None /\ config = None /\ live = {}
  /\ pc = [c \in Call |-> "idle"] /\ job = [c \in Call |-> "apply"]
  /\ secret = [c \in Call |-> Absent] /\ verdict = [c \in Call |-> "none"]
  /\ quiet = [c \in Call |-> "quiet"] /\ minted = {} /\ excused = {}

Go(c, step) == pc' = [pc EXCEPT ![c] = step]

-----------------------------------------------------------------------------
Begins(c, j, step) ==
  /\ pc[c] = "idle"
  /\ Go(c, step)
  /\ job' = [job EXCEPT ![c] = j]
  /\ quiet' = [d \in Call |->
       IF d = c THEN IF \E e \in Call : Active(e) THEN "overlapped" ELSE "quiet"
       ELSE IF Active(d) THEN "overlapped" ELSE quiet[d]]
  /\ UNCHANGED <<profile, variable, instance, live, secret, verdict, minted, excused>>

StartApply(c) == Begins(c, "apply", "checking")

\* A regression check needs exactly one provider with keyProvisioning.
StartRegression(c) ==
  Begins(c, "regression", IF profile.provider = "managed" THEN "minting" ELSE "refused")

\* getStatus: an instance that is configured already is left alone.
CheckStatus(c) ==
  /\ pc[c] = "checking"
  /\ \/ config # None /\ Go(c, "alreadyConfigured")
     \/ config = None /\ Go(c, "listing")
     \/ Go(c, "refused")
  /\ UNCHANGED <<profile, variable, instance, live, job, secret, verdict, history>>

\* The channels are checked against the variables listed before, and a
\* redeploy this call caused is waited for.
AfterSecret(redeploys) ==
  IF profile.channels = "missing" THEN "rejected"
  ELSE IF redeploys THEN "waiting" ELSE "posting"

\* Mutant: a key is minted whether or not the secret exists.
ListAndAlwaysMint(c) ==
  /\ pc[c] = "listing"
  /\ Go(c, IF profile.provider = "managed" THEN "minting" ELSE AfterSecret(FALSE))
  /\ secret' = [secret EXCEPT ![c] = variable]
  /\ UNCHANGED <<profile, variable, instance, live, job, verdict, history>>

\* listRailwayVariables and resolveProviderSecret up to its mint: a secret that
\* exists is used, an absent one minted if the profile says so.
ListVariables(c) ==
  /\ pc[c] = "listing"
  /\ secret' = [secret EXCEPT ![c] = IF profile.provider = "none" THEN Absent ELSE variable]
  /\ \/ (profile.provider = "none" \/ variable # Absent) /\ Go(c, AfterSecret(FALSE))
     \/ profile.provider = "managed" /\ variable = Absent /\ Go(c, "minting")
     \/ Go(c, "refused")
  /\ UNCHANGED <<profile, variable, instance, live, job, verdict, history>>

Created(c) == live' = live \cup {c} /\ minted' = minted \cup {c}

\* Mutant: the channels are checked between the mint and the write.
MintThenCheck(c) ==
  /\ pc[c] = "minting"
  /\ Created(c)
  /\ secret' = [secret EXCEPT ![c] = c]
  /\ Go(c, IF profile.channels = "missing" THEN "rejected" ELSE "writing")
  /\ UNCHANGED <<profile, variable, instance, job, verdict, quiet, excused>>

\* mintOpenRouterKey throws when the answer is lost, or is without key or hash,
\* although the key exists by then.
Mint(c) ==
  /\ pc[c] = "minting"
  /\ \/ Created(c) /\ UNCHANGED excused /\ Go(c, "writing")
        /\ secret' = [secret EXCEPT ![c] = c]
     \/ Created(c) /\ excused' = excused \cup {c} /\ Go(c, "mintFailed")
        /\ UNCHANGED secret
     \/ UNCHANGED <<live, minted, excused, secret>> /\ Go(c, "mintFailed")
  /\ UNCHANGED <<profile, variable, instance, job, verdict, quiet>>

\* The redeploy that comes with a write unless it says --skip-deploys.
Redeploys(c) == job[c] = "apply" /\ profile.customEnv = "declared"

\* The variable takes c's key.  An earlier key it held is known to nobody
\* unless its call was told the hash.
Stored(c) ==
  /\ variable' = c
  /\ rollout' = IF Redeploys(c) THEN c ELSE rollout
  /\ excused' = excused \cup ({variable} \cap minted)

\* What happens to a write that failed: the apply throws, the check goes on to
\* its finally block.
WriteFailed(c) ==
  IF job[c] = "apply"
  THEN Go(c, "writeFailed") /\ UNCHANGED verdict
  ELSE Go(c, "deleting") /\ verdict' = [verdict EXCEPT ![c] = "fail"]

WriteGoesOn(c) ==
  /\ Go(c, IF job[c] = "apply" THEN AfterSecret(Redeploys(c)) ELSE "verifying")
  /\ UNCHANGED verdict

\* Mutant: a failed write is not noticed.
WriteUnchecked(c) ==
  /\ pc[c] = "writing"
  /\ \/ Stored(c)
     \/ UNCHANGED <<variable, rollout, excused>>
  /\ WriteGoesOn(c)
  /\ UNCHANGED <<profile, running, config, live, job, secret, quiet, minted>>

Write(c) ==
  /\ pc[c] = "writing"
  /\ \/ Stored(c) /\ WriteGoesOn(c)
     \/ Stored(c) /\ WriteFailed(c)
     \/ UNCHANGED <<variable, rollout>> /\ excused' = excused \cup {c} /\ WriteFailed(c)
  /\ UNCHANGED <<profile, running, config, live, job, secret, quiet, minted>>

\* waitForHealthy: whichever instance answers, the first 200 ends it; so do the
\* deadline and a fetch that rejects.
WaitForHealthy(c) ==
  /\ pc[c] = "waiting"
  /\ \/ Go(c, "posting")
     \/ Go(c, "unhealthy")
  /\ UNCHANGED <<profile, variable, instance, live, job, secret, verdict, history>>

Run(c) ==
  /\ pc[c] = "posting"
  /\ \/ config' = secret[c] /\ Go(c, "confirming")
     \/ config' = secret[c] /\ Go(c, "postFailed")
     \/ UNCHANGED config /\ Go(c, "postFailed")
  /\ UNCHANGED <<profile, variable, running, rollout, live, job, secret, verdict, history>>

Confirm(c) ==
  /\ pc[c] = "confirming"
  /\ \/ config # None /\ Go(c, "applied")
     \/ Go(c, "unconfirmed")
  /\ UNCHANGED <<profile, variable, instance, live, job, secret, verdict, history>>

\* The check's status and health reads.
VerifyInstance(c) ==
  /\ pc[c] = "verifying"
  /\ \/ config # None /\ verdict' = [verdict EXCEPT ![c] = "pass"]
     \/ verdict' = [verdict EXCEPT ![c] = "fail"]
  /\ Go(c, "deleting")
  /\ UNCHANGED <<profile, variable, instance, live, job, secret, history>>

Verdict(c) == IF verdict[c] = "pass" THEN "passed" ELSE "failed"

\* Mutant: the error of the delete is swallowed.
DeleteUnchecked(c) ==
  /\ pc[c] = "deleting"
  /\ live' \in {live, live \ {c}}
  /\ Go(c, Verdict(c))
  /\ UNCHANGED <<profile, variable, instance, job, secret, verdict, history>>

\* The finally block: a delete that fails is reported, whatever was found.
DeleteMinted(c) ==
  /\ pc[c] = "deleting"
  /\ \/ live' = live \ {c} /\ Go(c, Verdict(c))
     \/ live' = live \ {c} /\ Go(c, "undeleted")
     \/ UNCHANGED live /\ Go(c, "undeleted")
  /\ UNCHANGED <<profile, variable, instance, job, secret, verdict, history>>

\* The process dies; the hash it held is gone.
Crash(c) ==
  /\ Active(c)
  /\ Go(c, "crashed")
  /\ excused' = excused \cup ({c} \cap minted)
  /\ UNCHANGED <<profile, variable, instance, live, job, secret, verdict, quiet, minted>>

\* The result carried mintedKeyHash.
Told(c) == c \in minted /\ pc[c] \in Deleted \cup {"applied", "undeleted"}

\* onboarding-cycle delete-key --hash.
DeleteKey(c) ==
  /\ Told(c)
  /\ live' = live \ {c}
  /\ UNCHANGED <<profile, variable, instance, pc, job, secret, verdict, history>>

\* The new deployment takes over (external).
RollOver ==
  /\ rollout # None
  /\ running' = rollout /\ rollout' = None
  /\ UNCHANGED <<profile, variable, config, live, pc, job, secret, verdict, history>>

Step(c) ==
  \/ CheckStatus(c) \/ ListVariables(c) \/ Mint(c) \/ Write(c) \/ WaitForHealthy(c)
  \/ Run(c) \/ Confirm(c) \/ VerifyInstance(c) \/ DeleteMinted(c)

Next ==
  \/ \E c \in Call : \/ StartApply(c) \/ StartRegression(c)
                     \/ Step(c) \/ Crash(c) \/ DeleteKey(c)
  \/ RollOver

Spec == Init /\ [][Next]_vars

-----------------------------------------------------------------------------
\* A key that still exists is in somebody's hands: its call is under way, or
\* told its hash, or the variable holds it for a retry to reuse.  Otherwise the
\* mint's answer or the write was lost, the process died, or a later call
\* overwrote the variable.
LostKeysAreExplained == \A c \in live :
  Active(c) \/ Told(c) \/ variable = c \/ c \in excused

\* A check that reports its key deleted has deleted it, whatever else it found
\* and whatever failed before; a check that ends with the key alive says so.
DeletionsAreReal == \A c \in Call : pc[c] \in Deleted => c \notin live

\* An apply that nobody interfered with mints only while there is no secret, so
\* retries after a failure reuse the key the failed attempt stored.
QuietMintNeedsAbsence ==
  [][\A c \in Call :
       c \notin minted /\ c \in minted' /\ job[c] = "apply" /\ quiet[c] = "quiet"
       => variable = Absent]_vars

\* When such an apply reports success the instance was configured with the
\* very secret the variable holds: the next redeploy changes nothing.
QuietApplyMatchesVariable ==
  [][\A c \in Call :
       /\ pc[c] # "applied" /\ pc'[c] = "applied"
       /\ quiet[c] = "quiet" /\ profile.provider # "none"
       => config = variable]_vars

\* "Waits it out by polling the healthcheck rather than racing it": when the
\* payload names a variable only the new process has, that process serves.
RunWaitsOutRedeploy == \A c \in Call :
  pc[c] = "posting" /\ secret[c] = c /\ Redeploys(c) => rollout # c
=============================================================================
