------------------------------ MODULE Provisioning ------------------------------
(***************************************************************************)
(* provisionClientInstance(), bootstrapOnboardingCycle() around it, and    *)
(* installOpenClawOnRailway(), with what they share: ensureDomainPort,     *)
(* waitForSetupReady, patchAllowedOrigins and approveOwnDevicePairing.     *)
(* A service goes by the name of the call that created it.  The calls run  *)
(* in one directory, whose link to a project and a service every Railway   *)
(* command resolves its arguments by.  Railway and the instances are       *)
(* external.                                                               *)
(***************************************************************************)
EXTENDS Naturals, FiniteSets

CONSTANTS
  Call,         \* invocations; each runs once
  Project,      \* projects that exist already
  New,          \* no --project-id: the call creates a project
  Manual,       \* a credential the operator set by hand
  None,         \* nothing: no value, no project, no service, no process
  MaxMeddling   \* bound on the overlaps and on what the operator does

ASSUME ProvisioningAssumption ==
  /\ Call \cap Project = {} /\ {New, Manual, None} \cap (Call \cup Project) = {}
  /\ New # None /\ Manual # None /\ MaxMeddling \in Nat /\ IsFiniteSet(Call)

VARIABLES
  path,      \* which entry point this directory is used with
  linked,    \* the project and service the directory is linked to
  service,   \* what Railway knows of each service
  config,    \* the gateway configuration each instance keeps on its volume
  files,     \* .env.local and the handoff file
  pc, job,   \* each call's next step or outcome, and its options
  target,    \* the service it works on
  before,    \* the services listed before it created one
  cred,      \* the setup password and gateway token it works with
  draft,     \* the configuration patchAllowedOrigins read
  quiet,     \* history: nobody else acted while the call ran
  meddling   \* how often calls overlapped or the operator acted

world == <<linked, service, config, files>>
held  == <<target, before, cred, draft>>
fixed == <<path, job, quiet, meddling>>
vars  == <<pc, world, held, fixed>>

Projects    == Project \cup Call
Credentials == Call \cup {Manual, None}
Env         == [settings : {"missing", "set"}, password : Credentials, token : Credentials]
NoEnv       == [settings |-> "missing", password |-> None, token |-> None]
FullEnv(c)  == [settings |-> "set", password |-> c, token |-> c]
Statuses    == {"none", "BUILDING", "SUCCESS", "FAILED"}

\* settings: OPENCLAW_TEMPLATE_REF, PORT and the two directories.  first and
\* second: the deployment that created the service and the one that followed;
\* a deployment starts its process with the variables of when it was triggered
\* (none, for the first of a client); with no process serving is NoEnv as well.
Service == [at : Projects \cup {None}, name : 0..Cardinality(Call), env : Env,
            volume : {"absent", "attached"}, first : Statuses, second : Statuses,
            image : Env, shown : {"first", "second"},
            serving : Env, domain : {"none", "misrouted", "routed"}]

NoService == [at |-> None, name |-> 0, env |-> NoEnv, volume |-> "absent",
              first |-> "none", second |-> "none", image |-> NoEnv,
              shown |-> "first", serving |-> NoEnv, domain |-> "none"]

Config   == [mode : {"absent", "set"}, origins : SUBSET {"own", "other"}]
NoConfig == [mode |-> "absent", origins |-> {}]
Handoff  == [site : Call \cup {None}, password : Credentials, token : Credentials]
NoFile   == [site |-> None, password |-> None, token |-> None]

Jobs     == [force : {"reuse", "forceNew"}, project : Project \cup {New}]
NoJob    == [force |-> "reuse", project |-> New]

Before  == {"linking", "listing", "creating", "diffing", "linkingService", "attaching",
            "settings", "password", "token", "redeploying", "polling",
            "readingPassword", "readingToken", "routing", "awaiting"}
Tail    == {"getting", "posting", "verifying", "pairing", "filing", "handing"}
Retry   == {"applying", "gettingAgain", "postingAgain", "verifyingAgain", "pairingAgain"}
Steps   == Before \cup Tail \cup Retry
Active(c) == pc[c] \in Steps

TypeOK ==
  /\ path \in {"client", "template"}
  /\ linked \in [project : Projects, service : Call \cup {None}]
  /\ service \in [Call -> Service]
  /\ config \in [Call -> Config] /\ draft \in [Call -> Config]
  /\ files \in [envLocal : Handoff, handoff : Handoff]
  /\ pc \in [Call -> Steps \cup {"idle", "done", "failed"}]
  /\ job \in [Call -> Jobs ]
  /\ target \in [Call -> Call] /\ before \in [Call -> SUBSET Call]
  /\ cred \in [Call -> [password : Credentials \ {None}, token : Credentials \ {None}]]
  /\ quiet \in [Call -> {"quiet", "overlapped"}]
  /\ meddling \in 0..MaxMeddling

Init ==
  /\ path \in {"client", "template"}
  /\ linked \in [project : Project, service : {None}]
  /\ service = [s \in Call |-> NoService]
  /\ config = [s \in Call |-> NoConfig] /\ draft = config
  /\ files = [envLocal |-> NoFile, handoff |-> NoFile]
  /\ pc = [c \in Call |-> "idle"] /\ before = [c \in Call |-> {}] /\ target = [c \in Call |-> c]
  /\ job = [c \in Call |-> NoJob]
  /\ cred = [c \in Call |-> [password |-> c, token |-> c]]
  /\ quiet = [c \in Call |-> "quiet"] /\ meddling = 0

Go(c, step) == pc' = [pc EXCEPT ![c] = step]

\* What the commands of the linked project see.
Listed   == {s \in Call : service[s].at = linked.project}
Named(n) == {s \in Listed : service[s].name = n}
Status(s) == IF service[s].shown = "first" THEN service[s].first ELSE service[s].second

-----------------------------------------------------------------------------
\* A call that begins beside another, or an operator that acts beside one,
\* leaves neither alone.
Beside(c) == {d \in Call \ {c} : Active(d)}

Begin(c, j, step) ==
  /\ pc[c] = "idle" /\ Go(c, step)
  /\ job' = [job EXCEPT ![c] = j]
  /\ \/ Beside(c) = {} /\ UNCHANGED <<quiet, meddling>>
     \/ /\ Beside(c) # {} /\ meddling < MaxMeddling /\ meddling' = meddling + 1
        /\ quiet' = [d \in Call |-> IF d \in Beside(c) \cup {c} THEN "overlapped" ELSE quiet[d]]
  /\ UNCHANGED <<world, held, path>>

Provision(c) == path = "client" /\ \E j \in Jobs : Begin(c, j, "linking")
Install(c)   == path = "template" /\ \E j \in Jobs : Begin(c, j, "listing")

\* Mutant: only init links the directory.
LinkNewOnly(c) ==
  /\ pc[c] = "linking" /\ Go(c, "listing")
  /\ linked' = IF job[c].project = New THEN [project |-> c, service |-> None] ELSE linked
  /\ UNCHANGED <<service, config, files, held, fixed>>

\* railway link or railway init.
Link(c) ==
  /\ pc[c] = "linking" /\ Go(c, "listing")
  /\ linked' = [project |-> IF job[c].project = New THEN c ELSE job[c].project,
                service |-> None]
  /\ UNCHANGED <<service, config, files, held, fixed>>

\* What a call may reuse: the client's only service, or the one with the
\* template's name.
Existing == IF path = "client" THEN Listed ELSE Named(0)

\* Mutant: an existing service is never reused.
NothingToReuse(c) == {s \in Existing : FALSE}

ToReuse(c) == IF job[c].force = "reuse" THEN Existing ELSE {}

\* listServices, then selectSoleService or findTemplateService: two services
\* of a client are refused, and so is an unhealthy one that would be reused.
List(c) ==
  /\ pc[c] = "listing"
  /\ path = "client" => Cardinality(Listed) <= 1
  /\ \/ /\ ToReuse(c) = {} /\ Go(c, "creating")
        /\ before' = [before EXCEPT ![c] = Listed] /\ UNCHANGED target
     \/ \E s \in ToReuse(c) :
          /\ Status(s) = "SUCCESS"
          /\ target' = [target EXCEPT ![c] = s] /\ UNCHANGED before
          /\ Go(c, IF path = "client" THEN "readingPassword" ELSE "routing")
  /\ UNCHANGED <<world, cred, draft, fixed>>

\* railway up deploys what the directory holds, as a new service unless one is
\* linked; railway deploy -t always creates one and sets both credentials.
Created(c) ==
  [NoService EXCEPT !.at = linked.project, !.name = Cardinality(Listed),
                    !.first = "BUILDING",
                    !.volume = IF path = "client" THEN "absent" ELSE "attached",
                    !.env = IF path = "client" THEN NoEnv ELSE FullEnv(c),
                    !.domain = IF path = "client" THEN "none" ELSE "misrouted"]

\* A further deployment of a service, with the variables it has now.
Redeployed(one) == [one EXCEPT !.second = "BUILDING", !.image = one.env]

Create(c) ==
  /\ pc[c] = "creating"
  /\ IF linked.service = None \/ path = "template"
     THEN service' = [service EXCEPT ![c] = Created(c)]
     ELSE service' = [service EXCEPT ![linked.service] = Redeployed(@)]
  /\ Go(c, IF path = "client" THEN "diffing" ELSE "polling")
  /\ UNCHANGED <<linked, config, files, held, fixed>>

\* The services listed now and not before.
NewlyListed(c) == Listed \ before[c]

Diff(c) ==
  /\ pc[c] = "diffing" /\ Go(c, "linkingService")
  /\ \E s \in Call : NewlyListed(c) = {s} /\ target' = [target EXCEPT ![c] = s]
  /\ before' = [before EXCEPT ![c] = {}]
  /\ UNCHANGED <<world, cred, draft, fixed>>

-----------------------------------------------------------------------------
\* A command that names the call's service acts on the one of that name in the
\* linked project; it is refused when there is none.
Addressed(c) == Named(service[target[c]].name)

LinkService(c) ==
  /\ pc[c] = "linkingService"
  /\ \E s \in Addressed(c) : linked' = [linked EXCEPT !.service = s]
  /\ Go(c, "attaching")
  /\ UNCHANGED <<service, config, files, held, fixed>>

AttachVolume(c) ==
  /\ pc[c] = "attaching" /\ linked.service # None
  /\ service' = [service EXCEPT ![linked.service].volume = "attached"]
  /\ Go(c, "settings")
  /\ UNCHANGED <<linked, config, files, held, fixed>>

\* writeRailwayVariable with --skip-deploys, in this order.
WriteVariables(c) ==
  /\ \E s \in Addressed(c) :
       \/ pc[c] = "settings" /\ Go(c, "password")
          /\ service' = [service EXCEPT ![s].env.settings = "set"]
       \/ pc[c] = "password" /\ Go(c, "token")
          /\ service' = [service EXCEPT ![s].env.password = cred[c].password]
       \/ pc[c] = "token" /\ Go(c, "redeploying")
          /\ service' = [service EXCEPT ![s].env.token = cred[c].token]
  /\ UNCHANGED <<linked, config, files, held, fixed>>

Redeploy(c) ==
  /\ pc[c] = "redeploying"
  /\ \E s \in Addressed(c) : service' = [service EXCEPT ![s] = Redeployed(@)]
  /\ Go(c, "polling")
  /\ UNCHANGED <<linked, config, files, held, fixed>>

\* pollServiceUntilSuccess without a deployment to supersede: the status that
\* is listed decides, whichever deployment has it.
Polled(c) == IF path = "client" THEN Addressed(c) ELSE Named(0)

Poll(c) ==
  /\ pc[c] = "polling" /\ Go(c, "routing")
  /\ \E s \in Polled(c) : Status(s) = "SUCCESS" /\ target' = [target EXCEPT ![c] = s]
  /\ UNCHANGED <<world, before, cred, draft, fixed>>

Present(value) == value # None

\* Mutant: the token is not read back but generated.
ReadPasswordOnly(c) ==
  /\ pc[c] = "readingPassword" /\ Go(c, "routing")
  /\ \E s \in Addressed(c) : /\ Present(service[s].env.password)
                          /\ cred' = [cred EXCEPT ![c].password = service[s].env.password]
  /\ UNCHANGED <<world, target, before, draft, fixed>>

\* A reused service keeps the credentials it has; one that has none was never
\* provisioned and is refused.
ReadBack(c) ==
  /\ \E s \in Addressed(c) :
       LET env == service[s].env IN
       \/ /\ pc[c] = "readingPassword" /\ Present(env.password) /\ Go(c, "readingToken")
          /\ cred' = [cred EXCEPT ![c].password = env.password]
       \/ /\ pc[c] = "readingToken" /\ Present(env.token) /\ Go(c, "routing")
          /\ cred' = [cred EXCEPT ![c].token = env.token]
  /\ UNCHANGED <<world, target, before, draft, fixed>>

\* ensureDomainPort.  Of the two writes a run makes at most one, and the lists
\* around them change nothing: a domain is generated with the port asked for, and
\* only one with another port is updated; a command that fails after it is Fail
\* at the next step.  From here on the target is the service whose domain the call
\* was given.
Route(c) ==
  /\ pc[c] = "routing" /\ Go(c, "awaiting")
  /\ \E s \in Addressed(c) :
       /\ service' = [service EXCEPT ![s].domain = "routed"]
       /\ target' = [target EXCEPT ![c] = s]
  /\ UNCHANGED <<linked, config, files, before, cred, draft, fixed>>

\* Mutant: any process that serves the domain will do.
Serves(c) == service[target[c]].first = "SUCCESS" \/ service[target[c]].second = "SUCCESS"

\* /setup/api/status answers 200 only to the password its process was given.
Accepts(c) == service[target[c]].domain = "routed"
              /\ service[target[c]].serving.password = cred[c].password

\* waitForSetupReady.
AwaitReady(c) ==
  /\ pc[c] = "awaiting" /\ Accepts(c) /\ Go(c, "getting")
  /\ UNCHANGED <<world, held, fixed>>

-----------------------------------------------------------------------------
\* patchAllowedOrigins and approveOwnDevicePairing, which a bootstrap repeats.
Again == [getting |-> "gettingAgain", posting |-> "postingAgain",
          verifying |-> "verifyingAgain", pairing |-> "pairingAgain"]
At(c, step)   == pc[c] \in {step, Again[step]}
GoOn(c, step) == Go(c, IF pc[c] \in Retry THEN Again[step] ELSE step)

\* Mutant: issue #77, the origin is written whatever the document lacks.
LacksBaselineNever(doc) == FALSE

LacksBaseline(doc) == doc.mode = "absent"

GetConfig(c) ==
  /\ At(c, "getting")
  /\ LET doc == config[target[c]] IN
       IF "own" \in doc.origins \/ LacksBaseline(doc)
       THEN GoOn(c, "pairing") /\ UNCHANGED draft
       ELSE GoOn(c, "posting") /\ draft' = [draft EXCEPT ![c] = doc]
  /\ UNCHANGED <<world, target, before, cred, fixed>>

\* Mutant: the origins that were there are dropped.
OnlyOwnOrigin(doc) == [doc EXCEPT !.origins = {"own"}]

WithOwnOrigin(doc) == [doc EXCEPT !.origins = @ \cup {"own"}]

PostConfig(c) ==
  /\ At(c, "posting") /\ GoOn(c, "verifying")
  /\ config' = [config EXCEPT ![target[c]] = WithOwnOrigin(draft[c])]
  /\ draft' = [draft EXCEPT ![c] = NoConfig]
  /\ UNCHANGED <<linked, service, files, target, before, cred, fixed>>

VerifyConfig(c) ==
  /\ At(c, "verifying") /\ "own" \in config[target[c]].origins
  /\ GoOn(c, "pairing")
  /\ UNCHANGED <<world, held, fixed>>

\* The call is over; what it knew is gone.
End(c, outcome) ==
  /\ Go(c, outcome)
  /\ target' = [target EXCEPT ![c] = c] /\ before' = [before EXCEPT ![c] = {}]
  /\ cred' = [cred EXCEPT ![c] = [password |-> c, token |-> c]]
  /\ draft' = [draft EXCEPT ![c] = NoConfig]
  /\ job' = [job EXCEPT ![c] = NoJob] /\ quiet' = [quiet EXCEPT ![c] = "quiet"]
  /\ UNCHANGED <<path, meddling>>

\* Not ready, nothing pending, or the only request approved; with several
\* pending the call is refused.
Pair(c) ==
  /\ \/ pc[c] = "pairing" /\ Go(c, "filing") /\ UNCHANGED <<held, fixed>>
     \/ pc[c] = "pairingAgain" /\ End(c, "done")
  /\ UNCHANGED world

\* The installer's result has no token.
Result(c) == [site |-> target[c], password |-> cred[c].password,
              token |-> IF path = "client" THEN cred[c].token ELSE None]

\* mergeEnv replaces the lines of the keys it is given and keeps the others, as
\* the token of an earlier run would be; a directory is used with one entry point,
\* which always gives the same keys, so the result is all there is of them.
WriteEnvLocal(c) ==
  /\ pc[c] = "filing" /\ Go(c, "handing")
  /\ files' = [files EXCEPT !.envLocal = Result(c)]
  /\ UNCHANGED <<linked, service, config, held, fixed>>

\* Here a provision or an install ends; a bootstrap, which never forces a new
\* service, applies its profile.
WriteHandoff(c) ==
  /\ pc[c] = "handing"
  /\ files' = [files EXCEPT !.handoff = Result(c)]
  /\ \/ End(c, "done")
     \/ /\ path = "client" /\ job[c].force = "reuse" /\ Go(c, "applying")
        /\ UNCHANGED <<held, fixed>>
  /\ UNCHANGED <<linked, service, config>>

\* Mutant: the bootstrap does not repeat the patch after its apply.
ApplyAndEnd(c) ==
  /\ pc[c] = "applying" /\ End(c, "done")
  /\ config' = [config EXCEPT ![target[c]].mode = "set"]
  /\ UNCHANGED <<linked, service, files>>

\* applyProfile: setup establishes gateway.mode, unless the instance is
\* configured already.
Apply(c) ==
  /\ pc[c] = "applying" /\ Go(c, "gettingAgain")
  /\ \/ config' = [config EXCEPT ![target[c]].mode = "set"]
     \/ config[target[c]] # NoConfig /\ UNCHANGED config
  /\ UNCHANGED <<linked, service, files, held, fixed>>

\* A command fails, a check throws, a failed deployment or a deadline ends a
\* poll, or the process dies.
Fail(c) == Active(c) /\ End(c, "failed") /\ UNCHANGED world

-----------------------------------------------------------------------------
\* Railway.  A deployment needs the volume, and replaces an older one.
FirstEnds(s) ==
  /\ service[s].first = "BUILDING"
  /\ \/ service' = [service EXCEPT ![s].first = "FAILED"]
     \/ /\ service[s].volume = "attached"
        /\ service' = [service EXCEPT ![s].first = "SUCCESS",
             ![s].serving = IF service[s].second = "SUCCESS" THEN @
                            ELSE IF path = "client" THEN NoEnv ELSE FullEnv(s)]
  /\ UNCHANGED <<pc, linked, config, files, held, fixed>>

SecondEnds(s) ==
  /\ service[s].second = "BUILDING"
  /\ \/ service' = [service EXCEPT ![s].second = "FAILED"]
     \/ /\ service[s].volume = "attached"
        /\ service' = [service EXCEPT ![s].second = "SUCCESS",
                                      ![s].serving = service[s].image]
  /\ UNCHANGED <<pc, linked, config, files, held, fixed>>

\* service list begins to show the deployment that was asked for; the one
\* before is superseded.
Appears(s) ==
  /\ service[s].second # "none" /\ service[s].shown = "first"
  /\ service' = [service EXCEPT ![s].shown = "second", ![s].first = "none"]
  /\ UNCHANGED <<pc, linked, config, files, held, fixed>>

\* The operator sets the credentials by hand, redeploys with them, runs setup,
\* adds an origin, or resets the instance.
ByHand(one) == [one EXCEPT !.env.password = Manual, !.env.token = Manual]

Meddle(s) ==
  /\ meddling < MaxMeddling /\ meddling' = meddling + 1
  /\ service[s].at # None
  /\ \/ /\ \/ service' = [service EXCEPT ![s] = ByHand(@)]
           \/ service' = [service EXCEPT ![s] = Redeployed(ByHand(@))]
        /\ UNCHANGED config
     \/ /\ \/ config' = [config EXCEPT ![s].mode = "set"]
           \/ config' = [config EXCEPT ![s].origins = @ \cup {"other"}]
           \/ config' = [config EXCEPT ![s] = NoConfig]
        /\ UNCHANGED service
  /\ quiet' = [c \in Call |-> IF Active(c) THEN "overlapped" ELSE quiet[c]]
  /\ UNCHANGED <<pc, linked, files, held, path, job>>

Step(c) ==
  \/ Link(c) \/ List(c) \/ Create(c) \/ Diff(c) \/ LinkService(c) \/ AttachVolume(c)
  \/ WriteVariables(c) \/ Redeploy(c) \/ Poll(c) \/ ReadBack(c) \/ Route(c)
  \/ AwaitReady(c) \/ GetConfig(c) \/ PostConfig(c) \/ VerifyConfig(c) \/ Pair(c)
  \/ WriteEnvLocal(c) \/ WriteHandoff(c) \/ Apply(c) \/ Fail(c)

Next == \E c \in Call :
  \/ Provision(c) \/ Install(c) \/ Step(c)
  \/ FirstEnds(c) \/ SecondEnds(c) \/ Appears(c) \/ Meddle(c)

Spec == Init /\ [][Next]_vars

-----------------------------------------------------------------------------
\* A call that runs alone touches the variables, volume and deployments of no
\* service but the one it created, and otherwise only the domain of the service
\* it works on: a rerun never replaces credentials somebody already has.
AloneTouchesItsOwn ==
  [][\A c \in Call : pc[c] # pc'[c] /\ quiet[c] = "quiet" =>
       \A s \in Call \ {c} :
         service'[s] = IF s = target[c]
                       THEN [service[s] EXCEPT !.domain = service'[s].domain]
                       ELSE service[s]]_vars

\* A client's call that runs alone without --force-new never adds a service to a
\* project that has one, which would make every later call there refuse to choose.
AloneNeverDuplicates ==
  [][\A c \in Call :
       /\ pc[c] # pc'[c] /\ quiet[c] = "quiet" /\ path = "client"
       /\ job[c].force = "reuse" /\ service'[c].at # service[c].at
       => \A s \in Call : service[s].at # service'[c].at]_vars

\* Past its readiness check, a service that a lone call created is served by the
\* deployment made after its variables: the poll before may have accepted the
\* one that railway up made, which has none of them.
ReadyIsFullyProvisioned == \A c \in Call :
  pc[c] \in Tail \cup Retry /\ target[c] = c /\ quiet[c] = "quiet"
  => service[c].serving = FullEnv(c)

\* What a lone call leaves in both files is the service of the project it was
\* asked for, with the credentials that service's variables hold; if the call
\* created the service, the process that serves it was started with them too.
HandedOffIsStored ==
  [][\A c \in Call :
       /\ pc[c] = "handing" /\ pc'[c] \in {"applying", "done"} /\ quiet[c] = "quiet"
       => LET s == service[target[c]] IN
            /\ files'.envLocal = files'.handoff
            /\ path = "client" =>
                 /\ s.at = IF job[c].project = New THEN c ELSE job[c].project
                 /\ files'.handoff.token = s.env.token
            /\ files'.handoff.password = s.env.password
            /\ target[c] = c =>
                 /\ s.serving.password = files'.handoff.password
                 /\ path = "client" => s.serving.token = files'.handoff.token]_vars

\* Issue #77: a document with origins of ours but no gateway.mode keeps the
\* gateway from starting.
OriginNeedsBaseline == \A s \in Call :
  "own" \in config[s].origins => config[s].mode = "set"

\* A call that runs alone loses no origin somebody else added.
AlonePreservesOrigins ==
  [][\A c, s \in Call : pc[c] # pc'[c] /\ quiet[c] = "quiet" =>
       config[s].origins \subseteq config'[s].origins]_vars

\* A lone bootstrap leaves an instance with a baseline its own origin too.
BootstrapAllowsItsOrigin ==
  [][\A c \in Call :
       /\ pc[c] # pc'[c] /\ pc'[c] = "done" /\ quiet[c] = "quiet"
       /\ pc[c] \in Retry /\ config'[target[c]].mode = "set"
       => "own" \in config'[target[c]].origins]_vars
=============================================================================
