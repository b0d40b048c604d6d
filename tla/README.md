# Verification of openclaw-control-plane

TLA+ models of the control plane's own logic, TLC runs that check them on small
instances, and TLAPS proofs for every size where the prover reaches. The
reference is the code: every definition names the lines it stands for in
`PROJECT.json` ("map"), and what a name stands for in Railway, OpenRouter, GitHub
or the unpatched wrapper is marked external there.

* [1 The system](#1-the-system): components, state, operations, interactions
* [2 The modules](#2-the-modules): which module models which part, and how
* [3 The runs](#3-the-runs): what TLC checks, the bounds, the fairness
* [4 The proofs](#4-the-proofs): what is proved, from what, and how
* [5 Where code and text disagree](#5-where-code-and-text-disagree)
* [6 What is not modelled](#6-what-is-not-modelled)
* [7 Plan](#7-plan)

## 1 The system

The repository holds four kinds of program.

* A **wrapper** around one OpenClaw gateway process: the upstream template's
  `server.js`, patched at image build by `scripts/patch-*.mjs` and extended by
  `scripts/wrapper-*.mjs`. It is the only long-running concurrent part, an event
  loop whose handlers interleave at their awaits.
* An **installer** (`packages/openclaw-railway-installer`) that drives the Railway
  CLI and the wrapper's setup API from an operator's machine: provision an
  instance, move it to another ref, rotate its token, patch its origins, verify a
  deployment.
* An **applier** (`packages/openclaw-setup-applier`) that configures an instance
  from a profile: mint a provider key, write a variable, run setup; and the
  onboarding cycle around it, bootstrap and scheduled regression check.
* A trivial **vending worker**, build files, docs and tests.

Installer and applier keep no state of their own between runs. Their state is
the remote service's, read and written by separate commands that may fail before
or after they take effect, with anything happening in between; nothing locks it.

| Component | State | Operations | Hard part | What makes it correct |
|---|---|---|---|---|
| webhook dispatch (`wrapper-github-webhook-verify.mjs`) | dedup store, suspended handlers, POSTs under way | receive, verify, decide, mark, forward, release, restart | two awaits per request, lost answers, restarts that forget | one forward per key at a time; a failed one is released; only what the allowlist permits is forwarded |
| raw body read (same file) | stream, chunks, listeners, timer | data, end, error, timeout | four callbacks race for one promise | the whole body within the cap or a rejection, once, always |
| gateway control (`patch-wrapper-restart-gateway.mjs`) | `gatewayProc`, the processes behind it | restart, import, stop, exit, two timeouts | concurrent requests over one variable | one tracked gateway; what goes on has seen the old process exit; a restore begins with none |
| ref update, token rotation (`provision-client.ts`) | the service's variable, its deployments, the listing | read and compare, list, write, redeploy, poll, verify | check-then-act over a remote, lagging listing, failures that may have applied | outcomes are truthful; success and failure are read off the new deployment |
| profile apply, regression check (`apply-profile.ts`, `onboarding-cycle.ts`, `openrouter-provisioning.ts`) | provider secret, live keys, configured instance | status, list, mint, write, wait, run, delete | partial failure between mint and write; retries; two callers | no key is lost without a known cause; a reported deletion is real; a retry reuses |
| provisioning, install, bootstrap (`provision-client.ts`, `index.ts`, `patch-allowed-origins.ts`) | directory link, services, configuration documents, handoff files | link, create, find what is new, set variables, redeploy, poll, patch, file | everything resolves through an ambient link; a poll that may see the wrong deployment | a lone call touches only its own service, hands off stored credentials, breaks no configuration |
| scoped state export (`wrapper-state-export.mjs`) | walk, byte count, temporary tree | filter, snapshot, copy, archive, stream, clean up | the state is written while it is read | a whole response has what is documented and nothing else; each file restores to a content it had; the cap; no tree left behind |
| workspace import client | none | one POST | stops the gateway as a side effect | no retry |
| deployment check (`verify-deploy-cli.ts`, `verify-deploy.ts`, its workflow) | the job that runs, its check suite if it has one | start, list, select, classify, report | deployments change between the question and the verdict; a check that deployments wait for can stop them | a verdict is about the newest deployment of its scope; a broken one is reported; the check never holds one back |
| proof verification (`verify-proof-cli.ts`, `verify-proof.ts`) | what it has read so far | read the checkout, settings, newest deployment, domain, endpoints; judge | seven reads, one after the other, of a world that moves | a proof that passes over a world at rest is true |
| guard, template lock | none | predicates over one input | none | their tests |
| profile schema, command lines, auth and variable access | none | parse, print, one command each | none | their tests |
| image build patches, stream diagnostics | none | text substitution at build; counts over one stream | anchors that moved | fail the build |
| vending worker, repository tooling, Dockerfile, CI | none | examples and checks | none | not part of the system's logic |

How they interact. GitHub calls the webhook route; it POSTs to the gateway's
agent hook over loopback, and the gateway is the process that gateway control
starts and stops. The installer sets the variables a wrapper boots with, and
`redeploy` is a wrapper restart. The applier's variable write is a redeploy as
well, and its payload goes to whichever process answers. The bootstrap runs
provisioning, then the applier, then provisioning's origin patch again, because
setup establishes the `gateway.mode` the patch needs. The import client's POST is
the import request that gateway control interleaves with restarts. The deployment
check and the live proof only look: at Railway's deployments of one service, which
wait for the check suites of their commit, and the proof also at the checkout, the
dashboard's settings and the endpoints.

## 2 The modules

| Module | Role |
|---|---|
| `DispatchPolicy` | the webhook route's pure decisions: secrets, dedup key, allowlist, `planDispatch` |
| `KeyLedger` | abstract specification: what a dedup key may go through |
| `WebhookDispatch` | the route's handlers, the dedup store, the hook, restarts; EXTENDS `DispatchPolicy`, implements `KeyLedger` |
| `RawBody` | `readRawBody` |
| `GatewayControl` | `stopGatewayAndWait`, `restartGateway`, the import handler |
| `RefUpdate` | `updateClientTemplateRef`, `updateClientOpenClawRef`, `rotateGatewayToken` |
| `ProfileApply` | `applyProfile`, `runRegressionCheck`, `delete-key` |
| `Provisioning` | `provisionClientInstance`, `installOpenClawOnRailway`, `bootstrapOnboardingCycle` |
| `StateExport` | `filterStateEntry`, `buildStateExportTree`, the state-scope handler of `/setup/export` |
| `Wrapper` | composition: `WebhookDispatch` and `GatewayControl` in one process |
| `Deployments` | commits, check suites and Railway's deployments of one service (external but for the workflows' triggers) |
| `DeployCheck` | the scheduled deployment check; EXTENDS `Deployments` |
| `LiveProof` | the live proof; EXTENDS `Deployments` |
| `DeployWatch` | composition of the two over one service |
| `MCWebhookDispatch`, `MCWrapper`, `MCRefUpdate`, `MCProvisioning`, `MCStateExport`, `MCDeployWatch` | instances for TLC |
| `WebhookDispatchProofs`, `RawBodyProofs`, `GatewayControlProofs`, `RefUpdateProofs`, `ProfileApplyProofs`, `ProvisioningProofs`, `StateExportProofs`, `DeployWatchProofs` | theorems and their proofs |

Conventions. A handler or function is cut where it awaits; what runs between two
awaits is one action. A call that can fail has an alternative for a failure before
and, where the code cannot tell, one for a failure after taking effect. `pc` holds
the step a call takes next or how it ended. Variables commented *history* record
what no code keeps; no guard reads them except to bound a count (`MaxStrays`,
`MaxMeddling`). Definitions preceded by "Mutant" are the faults against which each
property is tested; no specification uses them.

### WebhookDispatch

`Arrive` runs a handler from its first line to the body read. From there
`ReadFails` (400), `AnswerOnly` (401, or 200 with any decision but forwarding) or
`AnswerAndForward` follow; the last one decides, marks `dedupStore`, answers and
starts the POST without an await, which is exactly the atomicity the comment on
`planDispatch` claims. `ForwardOk` and `ForwardFails` are the two ways
`forwardToAgentHook` resolves; a failure releases the key, whether the POST was
refused, never arrived, is still under way, or was accepted with its answer lost.
`HookAccepts`, `HookRefuses`, `PostLost` and `ReplayForgets` are the gateway and
the loopback connection; the gateway's own replay cache is modelled because it
decides whether a second POST is a second turn. `Restart` loses handlers, store
and connections and may find another environment. A body and its HMAC are the
delivery and the secret it was signed with; the `DispatchPolicy` operators keep
every check that separates one allowlist from another and leave their wording out.
`OnlyPermittedForwards` compares what `planDispatch` does with what the raw
allowlist says (`PermittedTrigger`, stated without `find`), and `NoGrantIsShadowed`
is its converse: `find` stops at the first match, and what the validator refuses is
what makes the first match the only one.

`KeyLedger` says what the store promises about each key: who claims it becomes its
only holder, only the holder gives it back, a key whose holder is done stays taken,
and only a new process forgets. `ImplementsLedger` is the refinement mapping: taken
is `dedupStore` itself, the holders are the handlers that forward, the process is
`boots`. No history variable takes part in it.

### RawBody

The stream, the listeners and timer as a set `armed`, and the promise. `Settle` is
the code's `settle` with its `settled` flag and cleanup, and a stream another
parser has consumed is an initial state.

### GatewayControl

`StopOrContinue` is the stop both handlers reach: capture, SIGTERM, suspend.
`Exit` resumes, in one turn of the event loop, the wrapper's exit handler and
every handler waiting for that process. `TermTimeout` and `KillTimeout` are the two
five-second waits; the second throws and keeps `gatewayProc`. `BeginFlatStop` and
`FlatStopElapsed` are the two stop sites the patch does not touch (external, as is
`Ensure`, the wrapper's `ensureGatewayRunning`).

### Wrapper

Instances of `WebhookDispatch` and `GatewayControl` with their variables side by
side; every action is one of theirs and what it means for the other. The hook,
which the route alone sees refuse at will, accepts only while a gateway is alive
(`Accept`), and its replay cache is empty when a gateway starts where none ran.
`Reboot` is the restart of the container: it takes handlers, store, requests and
gateway at once. `joined` records the gateways that start while a restore runs,
the one thing `RestoreStartsNoTurn` has to except: nothing in the code holds other
requests back during a restore.

### RefUpdate

One action per Railway command, in the order of `updateClientRefVariable`:
`ReadCurrent`, `ConfirmNoop` or `ListPrior`, `Write`, `Redeploy`, `Poll`,
`AssertReady`, `Verify`. A rotation takes the same path with a fresh secret and
without an expected value. `Build` and `RollOver` are the platform: a deployment
ends some time, and the listing shows it some time, not in step with each other.
`Poll` stands for the listing that decides it: polling reads and has no effect.
`Write` may fail before or after the value was taken, and it may be accepted and
`Drop` the value, which is what the read-back of `Verify` is for.

### ProfileApply

`CheckStatus`, `ListVariables` (with `resolveProviderSecret`'s decision), `Mint`,
`Write`, `WaitForHealthy`, `Run`, `Confirm` are an apply; `Mint`, `Write`,
`VerifyInstance`, `DeleteMinted` a regression check, which shares the helpers but
not what follows a failure. A key goes by the name of the call that minted it, so
"whose key does the variable hold" is a comparison. `RollOver` replaces the
serving process some time after the write that asked for it. A profile is the
three choices the control flow looks at: no provider, one with a given secret or
one with a managed key; whether the instance must see the variable; whether the
channels' variables exist.

### Provisioning

Calls run in one directory, and `linked` is what `railway link` left there: every
later command resolves its project, and its service when unnamed, through it.
`Link` to `Redeploy` create a service; `List` and `ReadBack` reuse one;
`Poll`, `Route` (one step for `ensureDomainPort`, which writes at most once),
`AwaitReady`, the origin patch (`GetConfig`, `PostConfig`,
`VerifyConfig`), `Pair` and the two files follow for both. With `path = "template"`
the same actions are the marketplace installer, which creates by `railway deploy
-t` and reuses by the template's name. A bootstrap goes on from `WriteHandoff`
with `Apply` and the second patch. A service has two deployments, the one that
created it and the one `redeploy` made, and the process of each has the variables
of the moment it was triggered: that difference is what the readiness check must
see. `Fail` ends a call at any step. `Meddle` is an operator with the Railway
dashboard and the setup page.

Two calls may overlap. The code has no lock, so nothing but what `TypeOK` and
`OriginNeedsBaseline` say is promised then; the other properties are about calls
that run *alone* (`quiet`), in a directory and among services that earlier calls,
failed or not, left in any state.

### StateExport

One request; requests share only the files they read, each has a temporary
directory of its own. The recursive walk is the list `todo`: `Enter` lists a
directory and puts its accepted entries before what was left, `Stat` reads and
counts a file's size against the cap, and, with the gateway writing in between, `Copy` copies a plain
file as it is by then while `Snapshot` takes a store with its log and corrects the
count. A snapshot is on disk before its bytes are counted: one that passes the cap
leaves `exceeded`, where nothing is left to do but throw. `Pack` closes the tree,
`Stream` sends the headers, and only from there does anything listen for the end:
`Finish`, `StreamFails` and `Leave` remove the directory, as `Fail` does for
whatever throws before `Pack` is over. Two ends go unheard (`unheard`).
`StatThrows` is the archive's size that cannot be read, after the `catch` and before
the listeners. `LeaveEarly` is a client that disconnects while the handler awaits a
snapshot or the archive (`Awaiting`); the rest is synchronous, and a close that
comes meanwhile is heard only when the handler awaits again. `GatewayWrites`
and `GatewayCreates` are the gateway: a plain file is rewritten, a store's rows go
to its log and by a checkpoint into the main file, files come and go.

A directory's entries are taken in one fixed order (`SetToSeq`), the order of
`readdir` being fixed as well. Only files come and go; a vanished directory is
`Fail`. Paths are sequences of names, so that the filter's tests on segments,
basenames and depth are the code's; the regular expressions are the sets of names
they match (`Leftover`, `AgentAllowed`, `Sqlite`).

### Deployments, DeployCheck, LiveProof, DeployWatch

`Deployments` is the platform as the workflow files and the comments of the
verifier describe it: a push makes a deployment that is `WAITING` for the suites of
its commit (`PushSuites`, from the workflows' "on" blocks), is released or skipped
by them, builds (`BuildSucceeds`), takes over the domain some time later (`TakeOver`,
`route`), whereupon the older one is removed (`Retire`), is superseded, stops and
resumes. Between its success and the takeover the older deployment still answers, as
the comment at `index.ts:265-271` says a container in transition does. Both programs
look at this, and it does not wait for them.

`DeployCheck` is a run of the check: `StartCheck` by a trigger, with a target
commit when one is dispatched, `List` when Railway takes the list, `Judge` when the
answer arrives. `QueryFails` ends it with the exit code that is not a verdict.
`Concludes` reports to the check suite when the run belongs to one, which by the
workflow's triggers it never does: `GreenCommitDeploys` is why that matters.

`LiveProof` is `main()` of `verify-proof-cli.ts`, one action per awaited read in
its order (`After`); `ProofThrows` is any of them failing. The checks over one
source are one predicate each (`Sound`, `drifted`, `Accepted`). `aimed` says whether
`RAILWAY_PROOF_URL` is the service's domain, which the code does not check; if not,
anybody may answer. `WorldStep` moves the platform, the checkout and the dashboard
between reads, counted in `changes`. Two abstractions: the three files of the
checkout are read in parallel and taken in one step, and all deployments of the model
are of the expected repository and branch, so those two checks always pass.

`DeployWatch` lets the two run beside each other.

## 3 The runs

Every property of a passing run is paired with a fault of the modelled code (a
dropped guard, a missing release, a swapped order) under which TLC finds it
violated; `PROJECT.json` lists the pairs. Type invariants are proved for every
value of the constants (section 4) and take no place in a run.

| Run | Instance | What it shows |
|---|---|---|
| `webhook_safety` | 2 requests, 5 deliveries on 3 keys and one without, 9 environments, 1 restart, symmetric requests | only permitted, signed deliveries are forwarded, and no grant of the allowlist is shadowed by another; the store is exact; one forward per key; a second turn for a key has one of two causes; the store implements the key ledger |
| `webhook_readme` | 2 requests, 2 deliveries of one head, no restart | violated: one turn per head within one process (the second delivery is another webhook of the same head) |
| `raw_body` | cap 6, chunks of 1 to 3, up to 12 bytes | a resolved body is whole and within the cap; the first outcome stands; a reader settles |
| `gateway` | 3 requests, 5 process slots, 1 stray | the variable names the gateway that runs; a stop that goes on is confirmed; a restore begins with none; every request ends |
| `wrapper` | 2 webhook requests for 1 delivery, 2 setup requests, 2 process slots, 1 container restart | no turn starts on state a restore is replacing, but in a gateway another request started; an event that keeps being redelivered gets its turn once a gateway stays up |
| `ref_update` | 2 calls among 6 requests, 3 deployments | outcomes are truthful; success and failure are those of a new deployment; a lone call overwrites what it expected and, when it reports success, runs what it asked for, though a write may be accepted and dropped; every call ends |
| `profile_apply` | 2 calls, 12 profiles | keys are accounted for; deletions are real; a lone apply mints only when it must and configures what is stored |
| `profile_health` | 1 call | violated: the run waits out the redeploy |
| `provisioning` | 2 calls, 1 existing project, 1 overlap or intervention, symmetric calls | a lone call touches its own service, never adds a second one, is ready on a service it created only when that is fully provisioned, files what is stored, keeps origins; no configuration is broken by anybody |
| `state_export` | 11 files, 9 directories, 2 links, cap 3, sizes to 2, 2 gateway writes | a whole response has every documented file that stayed and nothing else; each restores to a content it had; what passed the cap, but for growth under the copy, is never packed or sent; no tree stays behind an end the handler hears of |
| `state_export_aborted` | the same, no writes | violated: no tree outlives its request |
| `deploy_watch` | 2 commits, 3 deployments (2 under the proof), one drifted setting and one change under the proof | a verdict is about the newest deployment of its scope; a broken deployment is reported; a green commit deploys whatever the check says; a passing proof over a world at rest is true |

**Bounds.** Every conflict these components know is between two parties over one
thing: two deliveries over a key, two handlers over a process, two calls over a
variable. Two requests or calls therefore show each; `gateway` takes three,
because a restore and a restart can each wait for the same process while a third
request stops it. Slots that are reused (requests, processes) bound concurrency,
not the number of requests over time. `RefUpdate` needs three deployments for two
calls that both redeploy, beside the one before them; a call that finds no
deployment number left behaves as one whose redeploy failed. `MaxBytes` 6 with
chunks up to 3 reaches the cap exactly and passes it by one and by two, in one
chunk or over several. `MaxBoots` 1 is enough for each restart effect, since a
boot starts from nothing but the gateway's turns. `turns` counts to two, "two or
more". In `Provisioning` one project that exists beside the ones calls create
covers joining, reusing and being refused; a second call is the rerun or the other
client; `MaxMeddling` spends one event on either an overlap or the operator, which
is what keeps the run within minutes. Two of the nine environments of `webhook_safety`
repeat a repository or an event, the two repeats `find` could trip over; which
allowlists resolve beyond them, and what they grant, is proved. The state
directory has one entry at each place the filter looks: the three files the
gateway touches (a plain one, a store, an agent's store), which at size 1 reach
the cap of 3 exactly and pass it by any growth, and beside them an excluded
basename, a stale log, an excluded segment at the top and below, a directory with
an excluded name, an agent's stray file, and links. Two writes let a
file change both before it is counted and between its count and its copy.
In `wrapper` one delivery is enough for two forwards of a key (a failed one and its
redelivery), two setup requests for a restore beside a restart, and two slots for
the process that goes and the one that comes; unpatched stops are left to `gateway`
(`MaxStrays` 0). In `deploy_watch` the third deployment is what may supersede a
selected one or come up beside it. The check and the proof do not affect each other, so
`MCDeployWatch` takes them in turn rather than in product. The proof's property
speaks of a world without any change, for which one drifted setting, one newer
deployment (up, and with or still without the domain) and one change are each case
once; a setting drifts while there is one deployment, `Sound` holds one commit of
the two, so that the files may be sound or not, and the environment of a proof
leaves out combinations in which a variable is not looked at (`ProofInputs`).
In `ref_update` a rotation asks only whether there is a token, so `MCSpec` takes
one value or none.

**Deadlock** is checked in `webhook_readme`, `gateway` and `wrapper`; the other
configurations end where every call has run or every bound is spent and say so
with `CHECK_DEADLOCK FALSE`.

**Fairness.** *Requests and handlers*: the event loop runs a callback that can run
and the body timer fires, so `ReadFails`, the end of a forward and a gateway
handler's `Step` are weakly fair. No process has to exit and no sender to send:
`AlwaysSettles` and `EveryRequestEnds` hold by the timeouts alone. *Calls*: a
Railway command returns, a fetch settles, and the polls have deadlines, so a call's
`Step` is weakly fair; Railway owes nothing, so `EveryCallEnds` does not depend on a
build that finishes. *The environment*: two properties assume something of the
outside, because it is their premise. `RedeliverySurvivesRestarts` takes strong
fairness of redelivering, of the body arriving and of the hook accepting: a sender
that keeps trying, and a gateway that now and then works once one is alive for good.
No setup request has to end for it. `BrokenDeploymentIsReported` and
`GreenCommitDeploys` take it that the cron keeps starting the check, among
dispatched runs too, that its query does not fail every time, and that Railway
releases what waited; no build has to end. `profile_apply` and
`provisioning` have no liveness property: the former's calls have no wait but one poll
with a deadline, the latter's state space is too large for TLC's liveness check
within minutes, and its two waits are the poll and readiness loops whose deadlines `ref_update` covers.

## 4 The proofs

Each theorem holds for any finite or infinite choice of the constants under the
assumptions the component's module names (constants that stand for "nothing" are
not values, bounds are natural numbers, a byte cap is positive, the arrays of an
allowlist have numbered positions, for provisioning that calls are finitely many,
and for the export that entries are and that what an entry is in are directories).
TLC evaluates those assumptions in the runs. The pattern is the same throughout:
the initial states satisfy an inductive invariant, every action keeps it (one step
per action), and it implies the property.

| Theorem | Statement | Argument |
|---|---|---|
| `WebhookDispatchProofs!InvHolds` | `[]Inv` | `Inv` adds to the type: what a handler, its POST and the key's turn have in common (`HandlersInv`, `WireInv`, `TurnsInv`). `StoreIsExact` and `OneForwardPerKey` support each other: a forward starts only with a key outside the store, and the store is what is held or confirmed |
| `CheckAndMarkIsAtomic`, `StoreExactness`, `SecondTurnsAreExplained` | the three safety properties | conjuncts or consequences of `Inv`. `TurnsInv` is why a second turn needs an excuse: an unexcused key with a turn is confirmed or about to be, hence still in the store |
| `ForwardsArePermitted` | `[]OnlyPermittedForwards` | only `AnswerAndForward` adds a POST, and what `planDispatch` lets through is at a position of the raw allowlist that permits it (`ForwardedIsPermitted`); a restart loses the POST with the environment that permitted it |
| `GrantsAreNotShadowed` | `[]NoGrantIsShadowed` | the two checks for repeats make the first position `find` meets the only one (`FindsTheOnlyHit`) |
| `DispatcherImplementsLedger` | `Spec => ImplementsLedger` | each step maps to a ledger step of one key by one handler or a stutter; a restart is `NewProcess`. That a handler that gives a key back is its only holder is `OneForwardPerKey`, that the key is taken `StoreIsExact` |
| `RawBodyProofs!BodiesAreWhole`, `OutcomeStands` | `[]NeverPartial`, `SettledOnce` | while anything is armed, counter, list and stream agree within the cap; once settled nothing is armed |
| `GatewayControlProofs!StopsAreConfirmed`, `GatewayIsTracked`, `RestoresBeginStopped` | the three safety properties | each is inductive with the type invariant: a slot in use is never given to a new process, and the exit that wakes a handler is what clears the variable |
| `RestoresStartNoTurn` | `Wrapper!RestoreStartsNoTurn` | `RestoreInv`: during a restore, what is alive has strayed or joined. The step into a restore finds strays only (`RestoreStep`), a stray that lives stays one (`StraysStay`), and what starts later is counted as joined; a reboot leaves no restore |
| `RestartsKeepTheGateway` | the gateway's three safety properties, of `Wrapper` | the route leaves the gateway alone, a reboot is like an initial state (`RebootResets`) |
| `WrapperImplementsDispatch` | `Wrapper!Spec` implies `WebhookDispatch!Spec` | step by step: a gateway that stops refuses, one that starts is a replay cache that empties, a reboot is `Restart` |
| `RefUpdateProofs!OutcomesAreTruthful` | `[]OutcomeSaysWhatChanged` | `TouchedInv`: what each step may have touched so far |
| `NewDeploymentsAreJudged` | `[]JudgesNewDeployments` | `SeenInv`: the listing never goes back behind the prior deployment, so another one it shows is newer, and an ended deployment keeps its status |
| `QuietUpdatesRunTheirValue`, `QuietWritesAreExpected` | the two action properties | `RefUpdateProofs!QuietInv`: while a call is alone, the variable stays what it compared against until its own write, the listing is up to date until its own redeploy, and the one deployment since then is built from what the variable holds, which the read-back compares |
| `ProfileApplyProofs!KeysAreNotLost`, `ReportedDeletionsAreReal` | the two safety properties | `KeysInv`: a key whose call has tried to store it is in the variable or excused |
| `QuietMintsNeedAbsence`, `QuietAppliesMatch` | the two action properties | `QuietInv`: while a call is alone nobody else is active, so the variable is what it read or wrote and the configuration what it posted |
| `ProvisioningProofs!OriginsHaveBaselines`, `LonePatchesPreserve` | `[]OriginNeedsBaseline`, `AlonePreservesOrigins` | `ConfigInv`: a draft about to be posted has a `gateway.mode`, and a lone call's draft is the document it read |
| `ReadyMeansProvisioned` | `[]ReadyIsFullyProvisioned` | `AloneInv`, see below: a service that answers to its own call's password serves an environment that has one, and only the second deployment's image does. It is about calls nobody overlapped and services they created |
| `LoneCallsTouchTheirOwn`, `LoneCallsNeverDuplicate`, `LoneHandoffsAreStored`, `LoneBootstrapsAllowTheirOrigin` | the four action properties about a call that runs alone | `AloneInv`, of which each uses a part: where the call works (a name leads to its target, so that only the target's domain is touched beside the created service), that a client's reusing call saw the project empty before it created, what it read back or, for a created service, what the process was started with, and that the origin is there whenever a baseline is |
| `StateExportProofs!BackupsAreComplete` | `[]BackupIsComplete` | `CompleteInv`: every documented file that stayed is in the tree, or it or a directory above it is still listed in `todo`. It rests on the filter: whatever is above a documented file is accepted (`DocumentedIsReachable`), so listing a directory leads on (`ListingLeadsOn`) |
| `RestoresAreCurrent` | `[]RestoredStateIsCurrent` | `CurrentInv`: what the tree holds of a file was seen, and a store in it has its empty log beside it |
| `OversizeNeverGoesOut`, `TreesGo` | `[]OversizeIsNeverSent`, `[]NoTreeLeftBehind` | `CountInv`: written bytes are counted or raced, but for the file under copy, and what is packed or sent was counted within the cap; the second is inductive |
| `DeployWatchProofs!VerdictsAreAlwaysCurrent` | `[]VerdictsAreCurrent` | `CheckInv`: what a run has listed was its choice among the deployments known at its start; later deployments change neither number nor commit of an earlier one |
| `PassingProofAlwaysHolds` | `[]PassingProofHolds` | `LiveInv`: what was read of an unchanged world is what is, and what answered is what has the domain |
| `TypeCorrect` in each proof module | `[]TypeOK` | per action; in provisioning that a service keeps its shape under every nested update, and that a new one's name is within the count of services |

The theorems about `Wrapper` stand in `GatewayControlProofs`, with the composition as
an instance `W` over that module's variables. `SameGateway` says that the instance's
gateway is the module's, so the lemmas about the gateway serve both.

**Calls that run alone.** Several properties, of references, profiles and
provisioning, speak of calls that nobody overlaps, because the code has no lock and
promises nothing to two operators at once. Their invariants have one shape: *for an
active call that is still quiet, these facts hold*. That is inductive because two
active calls have marked each other as overlapped, so no other call's step can
disturb the facts (`AloneStep` in each module): what is left is the call's own steps
and the platform's. Of provisioning's `AloneInv`, four parts are less obvious:

* Railway resolves `--service` by name within the linked project, so that a lone call
  addresses the service it created needs names to tell services apart, and that
  holds because a new one's number is the count of those present (`NamesInv`, which
  has to hold of overlapping calls too, since they made what a lone one finds).
* A slot is empty before its call creates a service in it (`FreshInv`); otherwise
  `Placed` could not tell the created service from one found.
* The marketplace install (`TemplateInv`) never rewrites variables. That its reused
  service does not accept a freshly generated password follows from every password a
  template service has ever had being its own call's or the operator's.
* `Provisioned` tracks environment, image and running process apart. The poll may
  have taken the first deployment for the second, so nothing about the process is
  known after it, except that it serves no password or the call's whole environment;
  the readiness check then decides which.

**Only model-checked**: liveness, since fairness and `ENABLED` are out of the prover's
reach: `AlwaysSettles`, `EveryRequestEnds`, `RedeliverySurvivesRestarts`,
`EveryCallEnds`, `BrokenDeploymentIsReported`, `GreenCommitDeploys`. Every invariant
and every action property that a passing run checks is a theorem.

## 5 Where code and text disagree

Each is a run whose property quotes the text; TLC's trace is the disagreement.

* `webhook_readme`: `README.md:274` says a delivery is forwarded once per distinct
  head within one process. A forward whose answer is lost after the hook accepted it
  is released, as the code intends, and another webhook of the same head (a pull
  request opened, then marked ready) is forwarded and starts a second turn. It has a
  delivery id of its own, so the gateway's replay cache does not stop it, as it
  stops GitHub's redelivery of the first one while it remembers it. `SecondTurnExplained` is what does
  hold.
* `profile_health`: "waits it out by polling the healthcheck rather than racing it".
  The healthcheck is answered by the process about to be replaced, and the payload
  may go to it.
* `state_export_aborted`: the temporary tree is "removed as soon as the response
  finishes" and on close "for aborted requests"
  (`patch-wrapper-scoped-export.mjs:93`). The two listeners are registered after the
  tree is built and packed; a client that disconnects during an await before that has
  already caused the response's one close event, and tree and archive stay. `NoTreeLeftBehind` is what
  does hold.

Three more are hazards without a run.

* Two stop sites of the wrapper stay unpatched, on purpose by a test, and still
  lose a slow process; `TrackedGateway` and `StopIsConfirmed` say what holds beside
  them.
* "Stop gateway before restore so we don't overwrite live files" holds when a
  restore begins (`RestoreBeginsStopped`) and not while it runs: a restart in between
  finds no gateway and starts one. `RestoreStartsNoTurn` says what holds then: no
  agent turn starts but in such a gateway.
* The poll after provisioning's redeploy has no prior deployment to compare with. It
  may stop on the failure of the throwaway deployment (a loud failure, `Fail`), or
  go on at its success. `ReadyIsFullyProvisioned` shows why the latter is harmless:
  the readiness check authenticates with a password only the second deployment has.

## 6 What is not modelled

* **Of the state export**: a plain file torn by a write during its copy, a failure
  of `mkdtemp`, `VACUUM INTO` beyond a snapshot no larger than the content, the
  archive format, the wrapper's import beyond what it does to a stale log, the
  parsing of the cap, and the substitution that injects the handler.
* **Of the deployment check and the proof**: the parsing of Railway's answers, which
  line of a file fails a check, and the wording of reports.
* **Stateless checks** (guard, template lock, profile schema, argument parsing):
  predicates of one input with unit tests over their cases, where a model would
  repeat the code.
* **Build patches and stream diagnostics**: sequential text substitution and
  counting; a moved anchor fails the build.
* **Vending worker, repository tooling, Dockerfile, deployment settings, CI**: no
  logic of the system.
* Inside modelled parts: response wording, headers, log lines, URL and argument
  construction, HMAC and regular expressions (a signature is the secret that made
  it, a pattern the set of bodies it matches), which device asks to be paired, the
  profile's fields beyond the secret. `writeLocalFiles` keeps its default. The
  gateway token is handed off without a check against the running process, in the
  code as in the model.
* Railway, OpenRouter, GitHub, the gateway's hook and the unpatched wrapper are
  external: they do anything the code's handling of them allows for.

## 7 Plan

Done: the components above, in the order of what runs unattended and concurrently
first; then the webhook route and the gateway composed, the deployment check and
the live proof, and the allowlist's two properties for every environment; then the
proofs, which by now cover every safety property. Next:

1. **Export, import and gateway composed**: a whole archive restored by the import
   request of `GatewayControl` while a restart starts a gateway over the files, in
   place of `Restored`'s one stale log.
2. The child process behind the command lines (`runCommand`): its output, exit and
   error events race for one promise as `RawBody`'s do.
3. An abstract specification of the references (one variable, one running build, and
   what a retry may assume of both) that `RefUpdate` implements, as `KeyLedger` is
   for the dispatcher.
