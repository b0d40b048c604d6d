-------------------------- MODULE ProvisioningProofs ---------------------------
(* What holds of Provisioning for any number of calls, projects and operator  *)
(* interventions.                                                             *)
EXTENDS Provisioning, FiniteSetTheorems, TLAPS

USE DEF Projects, Credentials

\* The services of a project can be counted, so the name a new one gets is one.
LEMMA NamesAreCounted ==
  ASSUME TypeOK PROVE Cardinality(Listed) \in 0..Cardinality(Call)
<1>1. Listed \subseteq Call /\ IsFiniteSet(Call)
  BY ProvisioningAssumption DEF Listed, ProvisioningAssumption
<1>2. /\ IsFiniteSet(Listed) /\ Cardinality(Listed) <= Cardinality(Call)
  BY <1>1, FS_Subset
<1>3. Cardinality(Listed) \in Nat /\ Cardinality(Call) \in Nat
  BY <1>1, <1>2, FS_CardinalityType
<1> QED BY <1>2, <1>3

\* A slot without a service has the shape of one.
LEMMA NoServiceType == NoService \in Service
<1>1. NoEnv \in Env
  BY DEF NoEnv, Env
<1>2. 0 \in 0..Cardinality(Call)
  BY ProvisioningAssumption, FS_CardinalityType DEF ProvisioningAssumption
<1> QED BY <1>1, <1>2 DEF NoService, Service, Statuses

\* A service stays one whatever the steps set of it.
LEMMA ServiceUpdates ==
  ASSUME NEW one \in Service
  PROVE  /\ Redeployed(one) \in Service
         /\ [one EXCEPT !.env.settings = "set"] \in Service
         /\ \A v \in Credentials : /\ [one EXCEPT !.env.password = v] \in Service
                                   /\ [one EXCEPT !.env.token = v] \in Service
         /\ ByHand(one) \in Service
         /\ [one EXCEPT !.volume = "attached"] \in Service
         /\ [one EXCEPT !.domain = "routed"] \in Service
<1> DEFINE Sub(e) == [one EXCEPT !.env = e]
<1>1. one.env \in Env
  BY DEF Service
<1>2. \A e \in Env : Sub(e) \in Service
  BY DEF Service
<1>3. [one EXCEPT !.env.settings = "set"] \in Service
  <2>1. [one.env EXCEPT !.settings = "set"] \in Env
    BY <1>1 DEF Env
  <2> QED BY <1>2, <2>1
<1>4. ASSUME NEW v \in Credentials
      PROVE  [one EXCEPT !.env.password = v] \in Service /\ [one EXCEPT !.env.token = v] \in Service
  <2>1. [one.env EXCEPT !.password = v] \in Env /\ [one.env EXCEPT !.token = v] \in Env
    BY <1>1, <1>4 DEF Env
  <2> QED BY <1>2, <2>1
<1>5. ByHand(one) \in Service
  <2>1. [one.env EXCEPT !.password = Manual, !.token = Manual] \in Env
    BY <1>1 DEF Env
  <2> QED BY <1>2, <2>1 DEF ByHand
<1>6. Redeployed(one) \in Service
  BY <1>1 DEF Service, Statuses, Redeployed
<1>7. /\ [one EXCEPT !.volume = "attached"] \in Service
      /\ [one EXCEPT !.domain = "routed"] \in Service
  BY DEF Service
<1> QED BY <1>3, <1>4, <1>5, <1>6, <1>7

\* End gives the call its initial memory back.
LEMMA EndType ==
  ASSUME TypeOK, NEW c \in Call, NEW outcome \in {"done", "failed"}, End(c, outcome),
         linked' = linked, service' = service, config' \in [Call -> Config],
         files' \in [envLocal : Handoff, handoff : Handoff]
  PROVE  TypeOK'
<1>1. /\ pc' \in [Call -> Steps \cup {"idle", "done", "failed"}]
      /\ target' \in [Call -> Call] /\ before' \in [Call -> SUBSET Call]
      /\ quiet' \in [Call -> {"quiet", "overlapped"}]
  BY DEF TypeOK, End, Go
<1>2. cred' \in [Call -> [password : Credentials \ {None}, token : Credentials \ {None}]]
  BY ProvisioningAssumption DEF TypeOK, End, ProvisioningAssumption
<1>3. draft' \in [Call -> Config] /\ job' \in [Call -> Jobs]
  BY DEF TypeOK, End, NoConfig, Config, NoJob, Jobs
<1> QED BY <1>1, <1>2, <1>3 DEF TypeOK, End

\* A change of one service that keeps it a service.
LEMMA ServiceChange ==
  ASSUME TypeOK, NEW s \in Call, NEW new \in Service,
         service' = [service EXCEPT ![s] = new]
  PROVE  service' \in [Call -> Service]
BY DEF TypeOK

\* Every reachable state has the declared shape; no call ever works with a
\* credential that is not there (provision-client.ts:219-235).
LEMMA TypeInductive == TypeOK /\ [Next]_vars => TypeOK'
<1> SUFFICES ASSUME TypeOK, [Next]_vars PROVE TypeOK'
  OBVIOUS
<1> USE DEF Go, world, held, fixed
<1>0. \A s \in Call : service[s] \in Service
  BY DEF TypeOK
<1>1. ASSUME NEW c \in Call, Provision(c) \/ Install(c) PROVE TypeOK'
  <2> PICK j \in Jobs, step \in {"linking", "listing"} : Begin(c, j, step)
    BY <1>1 DEF Provision, Install
  <2>1. /\ pc' \in [Call -> Steps \cup {"idle", "done", "failed"}]
        /\ job' \in [Call -> Jobs] /\ quiet' \in [Call -> {"quiet", "overlapped"}]
    BY DEF TypeOK, Begin, Steps, Before
  <2>2. meddling' \in 0..MaxMeddling
    BY ProvisioningAssumption DEF TypeOK, Begin, ProvisioningAssumption
  <2> QED BY <2>1, <2>2 DEF TypeOK, Begin
<1>2. ASSUME NEW c \in Call, Link(c) PROVE TypeOK'
  <2>1. linked' \in [project : Projects, service : Call \cup {None}]
    BY <1>2 DEF TypeOK, Link, Jobs
  <2>2. pc' \in [Call -> Steps \cup {"idle", "done", "failed"}]
    BY <1>2 DEF TypeOK, Link, Steps, Before
  <2> QED BY <1>2, <2>1, <2>2 DEF TypeOK, Link
<1>3. ASSUME NEW c \in Call, List(c) \/ Diff(c) \/ Poll(c) PROVE TypeOK'
  <2>1. PICK step \in Steps : pc' = [pc EXCEPT ![c] = step]
    BY <1>3 DEF List, Diff, Poll, Steps, Before
  <2>2. \E s \in Call : target' = [target EXCEPT ![c] = s] \/ target' = target
    <3>1. ToReuse(c) \subseteq Call /\ Polled(c) \subseteq Call
      BY DEF ToReuse, Existing, Polled, Addressed, Named, Listed
    <3>2. List(c) \/ Diff(c) \/ Poll(c)
          => \E s \in Call : target' = [target EXCEPT ![c] = s] \/ target' = target
      BY <3>1 DEF List, Diff, Poll
    <3> QED BY <1>3, <3>2
  <2>3. PICK S \in SUBSET Call : before' = [before EXCEPT ![c] = S] \/ before' = before
    <3>1. Listed \in SUBSET Call /\ {} \in SUBSET Call
      BY DEF Listed
    <3> QED BY <1>3, <3>1 DEF List, Diff, Poll
  <2>4. target' \in [Call -> Call]
    BY <2>2 DEF TypeOK
  <2>5. before' \in [Call -> SUBSET Call]
    BY <2>3 DEF TypeOK
  <2>6. pc' \in [Call -> Steps \cup {"idle", "done", "failed"}]
    BY <2>1 DEF TypeOK
  <2> QED BY <1>3, <2>4, <2>5, <2>6 DEF TypeOK, List, Diff, Poll
<1>4. ASSUME NEW c \in Call, Create(c) PROVE TypeOK'
  <2>1. Created(c) \in Service
    <3>1. FullEnv(c) \in Env /\ NoEnv \in Env
      BY DEF FullEnv, NoEnv, Env
    <3>2. linked.project \in Projects /\ Cardinality(Listed) \in 0..Cardinality(Call)
      BY NamesAreCounted DEF TypeOK
    <3>3. NoService \in Service
      BY <3>1, NoServiceType
    <3>4. \A e \in Env, v \in {"absent", "attached"}, d \in {"none", "misrouted"} :
            [NoService EXCEPT !.at = linked.project, !.name = Cardinality(Listed),
                              !.first = "BUILDING", !.volume = v, !.env = e, !.domain = d]
            \in Service
      BY <3>2, <3>3 DEF Service, Statuses
    <3> QED BY <3>1, <3>4 DEF Created
  <2>2. service' \in [Call -> Service]
    <3>1. CASE service' = [service EXCEPT ![c] = Created(c)]
      BY <2>1, <3>1, ServiceChange
    <3>2. CASE linked.service # None /\ service' = [service EXCEPT ![linked.service] = Redeployed(@)]
      <4>1. linked.service \in Call
        BY <3>2 DEF TypeOK
      <4>2. Redeployed(service[linked.service]) \in Service
        BY <1>0, <4>1, ServiceUpdates
      <4>3. service' = [service EXCEPT ![linked.service] = Redeployed(service[linked.service])]
        BY <3>2, <4>1 DEF TypeOK
      <4> QED BY <4>1, <4>2, <4>3, ServiceChange
    <3> QED BY <1>4, <3>1, <3>2 DEF Create
  <2>3. pc' \in [Call -> Steps \cup {"idle", "done", "failed"}]
    BY <1>4 DEF TypeOK, Create, Steps, Before
  <2> QED BY <1>4, <2>2, <2>3 DEF TypeOK, Create
<1>5. ASSUME NEW c \in Call, LinkService(c) PROVE TypeOK'
  <2>1. linked' \in [project : Projects, service : Call \cup {None}]
    BY <1>5 DEF TypeOK, LinkService, Addressed, Named, Listed
  <2>2. pc' \in [Call -> Steps \cup {"idle", "done", "failed"}]
    BY <1>5 DEF TypeOK, LinkService, Steps, Before
  <2> QED BY <1>5, <2>1, <2>2 DEF TypeOK, LinkService
<1>6. ASSUME NEW c \in Call, AttachVolume(c) \/ WriteVariables(c) \/ Redeploy(c) \/ Route(c)
      PROVE  TypeOK'
  <2>1. PICK s \in Call, new \in Service : service' = [service EXCEPT ![s] = new]
    <3>1. CASE AttachVolume(c)
      <4>1. linked.service \in Call
        BY <3>1 DEF TypeOK, AttachVolume
      <4>2. service' = [service EXCEPT ![linked.service] =
                          [service[linked.service] EXCEPT !.volume = "attached"]]
        BY <3>1 DEF AttachVolume
      <4> QED BY <1>0, <4>1, <4>2, ServiceUpdates
    <3>2. CASE WriteVariables(c)
      <4>1. cred[c].password \in Credentials /\ cred[c].token \in Credentials
        BY DEF TypeOK
      <4>2. PICK s \in Call :
              \/ service' = [service EXCEPT ![s] = [service[s] EXCEPT !.env.settings = "set"]]
              \/ service' = [service EXCEPT ![s] = [service[s] EXCEPT !.env.password = cred[c].password]]
              \/ service' = [service EXCEPT ![s] = [service[s] EXCEPT !.env.token = cred[c].token]]
        BY <3>2 DEF WriteVariables, Addressed, Named, Listed
      <4> QED BY <1>0, <4>1, <4>2, ServiceUpdates
    <3>3. CASE Redeploy(c)
      <4>1. PICK s \in Call : service' = [service EXCEPT ![s] = Redeployed(@)]
        BY <3>3 DEF Redeploy, Addressed, Named, Listed
      <4>2. service' = [service EXCEPT ![s] = Redeployed(service[s])]
        BY <4>1 DEF TypeOK
      <4> QED BY <1>0, <4>2, ServiceUpdates
    <3>4. CASE Route(c)
      <4>1. PICK s \in Call :
              service' = [service EXCEPT ![s] = [service[s] EXCEPT !.domain = "routed"]]
        BY <3>4 DEF Route, Addressed, Named, Listed
      <4> QED BY <1>0, <4>1, ServiceUpdates
    <3> QED BY <1>6, <3>1, <3>2, <3>3, <3>4
  <2>2. service' \in [Call -> Service]
    BY <2>1, ServiceChange
  <2>3. /\ \E step \in Steps : pc' = [pc EXCEPT ![c] = step]
        /\ \E t \in Call : target' = [target EXCEPT ![c] = t] \/ target' = target
    BY <1>6 DEF AttachVolume, WriteVariables, Redeploy, Route, Addressed, Named,
                Listed, Steps, Before
  <2>4. /\ pc' \in [Call -> Steps \cup {"idle", "done", "failed"}]
        /\ target' \in [Call -> Call]
    BY <2>3 DEF TypeOK
  <2> QED BY <1>6, <2>2, <2>4 DEF TypeOK, AttachVolume, WriteVariables, Redeploy, Route
<1>7. ASSUME NEW c \in Call, ReadBack(c) PROVE TypeOK'
  <2>1. PICK s \in Call :
          \/ /\ service[s].env.password # None
             /\ cred' = [cred EXCEPT ![c].password = service[s].env.password]
          \/ /\ service[s].env.token # None
             /\ cred' = [cred EXCEPT ![c].token = service[s].env.token]
    BY <1>7 DEF ReadBack, Addressed, Named, Listed, Present
  <2>2. service[s].env.password \in Credentials /\ service[s].env.token \in Credentials
    BY <1>0 DEF Service, Env
  <2>3. cred' \in [Call -> [password : Credentials \ {None}, token : Credentials \ {None}]]
    <3> DEFINE Cred == [password : Credentials \ {None}, token : Credentials \ {None}]
    <3>1. cred \in [Call -> Cred]
      BY DEF TypeOK
    <3>2. cred[c] = [password |-> cred[c].password, token |-> cred[c].token]
          /\ cred[c].password \in Credentials \ {None} /\ cred[c].token \in Credentials \ {None}
      BY <3>1
    <3>3. \A v \in Credentials \ {None} :
            [cred[c] EXCEPT !.password = v] \in Cred /\ [cred[c] EXCEPT !.token = v] \in Cred
      BY <3>2
    <3>4. PICK v \in Credentials \ {None} :
            \/ cred' = [cred EXCEPT ![c] = [cred[c] EXCEPT !.password = v]]
            \/ cred' = [cred EXCEPT ![c] = [cred[c] EXCEPT !.token = v]]
      BY <2>1, <2>2
    <3> HIDE DEF Cred
    <3>5. cred' \in [Call -> Cred]
      BY <3>1, <3>3, <3>4
    <3> QED BY <3>5 DEF Cred
  <2>4. pc' \in [Call -> Steps \cup {"idle", "done", "failed"}]
    BY <1>7 DEF TypeOK, ReadBack, Steps, Before
  <2> QED BY <1>7, <2>3, <2>4 DEF TypeOK, ReadBack
<1>8. ASSUME NEW c \in Call, AwaitReady(c) \/ GetConfig(c) \/ VerifyConfig(c) PROVE TypeOK'
  <2>1. pc' \in [Call -> Steps \cup {"idle", "done", "failed"}]
    BY <1>8 DEF TypeOK, AwaitReady, GetConfig, VerifyConfig, GoOn, Again, Steps, Tail, Retry
  <2>2. draft' \in [Call -> Config]
    BY <1>8 DEF TypeOK, AwaitReady, GetConfig, VerifyConfig
  <2> QED BY <1>8, <2>1, <2>2 DEF TypeOK, AwaitReady, GetConfig, VerifyConfig
<1>9. ASSUME NEW c \in Call, PostConfig(c) PROVE TypeOK'
  <2>1. pc' \in [Call -> Steps \cup {"idle", "done", "failed"}]
    BY <1>9 DEF TypeOK, PostConfig, GoOn, Again, Steps, Tail, Retry
  <2>2. config' \in [Call -> Config] /\ draft' \in [Call -> Config]
    <3>1. draft[c] \in Config /\ target[c] \in Call /\ NoConfig \in Config
      BY DEF TypeOK, NoConfig, Config
    <3>2. WithOwnOrigin(draft[c]) = [mode |-> draft[c].mode, origins |-> draft[c].origins \cup {"own"}]
      BY <3>1 DEF WithOwnOrigin, Config
    <3>3. WithOwnOrigin(draft[c]) \in Config
      BY <3>1, <3>2 DEF Config
    <3> QED BY <1>9, <3>1, <3>3 DEF TypeOK, PostConfig
  <2> QED BY <1>9, <2>1, <2>2 DEF TypeOK, PostConfig
<1>10. ASSUME NEW c \in Call, Pair(c) PROVE TypeOK'
  <2>1. CASE pc' = [pc EXCEPT ![c] = "filing"] /\ UNCHANGED <<held, fixed, world>>
    <3>1. pc' \in [Call -> Steps \cup {"idle", "done", "failed"}]
      BY <2>1 DEF TypeOK, Steps, Tail
    <3> QED BY <2>1, <3>1 DEF TypeOK
  <2>2. CASE End(c, "done") /\ UNCHANGED world
    BY <2>2, EndType DEF TypeOK
  <2> QED BY <1>10, <2>1, <2>2 DEF Pair
<1>11. ASSUME NEW c \in Call, WriteEnvLocal(c) \/ WriteHandoff(c) PROVE TypeOK'
  <2>1. Result(c) \in Handoff
    BY DEF TypeOK, Result, Handoff
  <2>2. files' \in [envLocal : Handoff, handoff : Handoff]
    BY <1>11, <2>1 DEF TypeOK, WriteEnvLocal, WriteHandoff
  <2>3. CASE /\ pc' = [pc EXCEPT ![c] = "handing"] \/ pc' = [pc EXCEPT ![c] = "applying"]
             /\ UNCHANGED <<linked, service, config, held, fixed>>
    <3>1. pc' \in [Call -> Steps \cup {"idle", "done", "failed"}]
      BY <2>3 DEF TypeOK, Steps, Tail, Retry
    <3> QED BY <2>2, <2>3, <3>1 DEF TypeOK
  <2>4. CASE End(c, "done") /\ UNCHANGED <<linked, service, config>>
    BY <2>2, <2>4, EndType DEF TypeOK
  <2> QED BY <1>11, <2>3, <2>4 DEF WriteEnvLocal, WriteHandoff
<1>12. ASSUME NEW c \in Call, Apply(c) PROVE TypeOK'
  <2>1. config' \in [Call -> Config]
    <3>1. [config[target[c]] EXCEPT !.mode = "set"] \in Config /\ target[c] \in Call
      BY DEF TypeOK, Config
    <3> QED BY <1>12, <3>1 DEF TypeOK, Apply
  <2>2. pc' \in [Call -> Steps \cup {"idle", "done", "failed"}]
    BY <1>12 DEF TypeOK, Apply, Steps, Retry
  <2> QED BY <1>12, <2>1, <2>2 DEF TypeOK, Apply
<1>13. ASSUME NEW c \in Call, Fail(c) PROVE TypeOK'
  BY <1>13, EndType DEF TypeOK, Fail
<1>14. ASSUME NEW s \in Call, FirstEnds(s) \/ SecondEnds(s) \/ Appears(s) PROVE TypeOK'
  <2>1. /\ FullEnv(s) \in Env /\ NoEnv \in Env
        /\ service[s].serving \in Env /\ service[s].image \in Env
    BY <1>0 DEF FullEnv, NoEnv, Env, Service
  <2>2. /\ \A e \in Env : [service[s] EXCEPT !.first = "SUCCESS", !.serving = e] \in Service
        /\ \A e \in Env : [service[s] EXCEPT !.second = "SUCCESS", !.serving = e] \in Service
        /\ [service[s] EXCEPT !.first = "FAILED"] \in Service
        /\ [service[s] EXCEPT !.second = "FAILED"] \in Service
        /\ [service[s] EXCEPT !.shown = "second", !.first = "none"] \in Service
    BY <1>0 DEF Service, Statuses
  <2>3. PICK new \in Service : service' = [service EXCEPT ![s] = new]
    <3>1. CASE FirstEnds(s)
      <4> DEFINE e == IF service[s].second = "SUCCESS" THEN service[s].serving
                      ELSE IF path = "client" THEN NoEnv ELSE FullEnv(s)
      <4>1. e \in Env
        BY <2>1
      <4>2. \/ service' = [service EXCEPT ![s] = [service[s] EXCEPT !.first = "FAILED"]]
            \/ service' = [service EXCEPT ![s] =
                 [service[s] EXCEPT !.first = "SUCCESS", !.serving = e]]
        BY <3>1 DEF FirstEnds, TypeOK
      <4> QED BY <2>2, <4>1, <4>2
    <3>2. CASE SecondEnds(s)
      <4>1. \/ service' = [service EXCEPT ![s] = [service[s] EXCEPT !.second = "FAILED"]]
            \/ service' = [service EXCEPT ![s] =
                 [service[s] EXCEPT !.second = "SUCCESS", !.serving = service[s].image]]
        BY <3>2 DEF SecondEnds, TypeOK
      <4> QED BY <2>1, <2>2, <4>1
    <3>3. CASE Appears(s)
      <4>1. service' = [service EXCEPT ![s] =
              [service[s] EXCEPT !.shown = "second", !.first = "none"]]
        BY <3>3 DEF Appears, TypeOK
      <4> QED BY <2>2, <4>1
    <3> QED BY <1>14, <3>1, <3>2, <3>3
  <2>4. service' \in [Call -> Service]
    BY <2>3, ServiceChange
  <2> QED BY <1>14, <2>4 DEF TypeOK, FirstEnds, SecondEnds, Appears
<1>15. ASSUME NEW s \in Call, Meddle(s) PROVE TypeOK'
  <2>1. /\ meddling' \in 0..MaxMeddling /\ quiet' \in [Call -> {"quiet", "overlapped"}]
    BY <1>15, ProvisioningAssumption DEF TypeOK, Meddle, ProvisioningAssumption
  <2>2. ByHand(service[s]) \in Service /\ Redeployed(ByHand(service[s])) \in Service
    BY <1>0, ServiceUpdates
  <2>3. service' \in [Call -> Service]
    <3>1. \/ UNCHANGED service
          \/ service' = [service EXCEPT ![s] = ByHand(service[s])]
          \/ service' = [service EXCEPT ![s] = Redeployed(ByHand(service[s]))]
      BY <1>15 DEF TypeOK, Meddle
    <3> QED BY <2>2, <3>1, ServiceChange DEF TypeOK
  <2>4. config' \in [Call -> Config]
    <3>1. /\ [config[s] EXCEPT !.mode = "set"] \in Config /\ NoConfig \in Config
          /\ [config[s] EXCEPT !.origins = config[s].origins \cup {"other"}] \in Config
      BY DEF TypeOK, Config, NoConfig
    <3>2. \/ UNCHANGED config
          \/ config' = [config EXCEPT ![s] = [config[s] EXCEPT !.mode = "set"]]
          \/ config' = [config EXCEPT ![s] =
               [config[s] EXCEPT !.origins = config[s].origins \cup {"other"}]]
          \/ config' = [config EXCEPT ![s] = NoConfig]
      BY <1>15 DEF TypeOK, Meddle
    <3> QED BY <3>1, <3>2 DEF TypeOK
  <2> QED BY <1>15, <2>1, <2>3, <2>4 DEF TypeOK, Meddle
<1>16. CASE UNCHANGED vars
  BY <1>16 DEF TypeOK, vars
<1> QED BY <1>1, <1>2, <1>3, <1>4, <1>5, <1>6, <1>7, <1>8, <1>9, <1>10, <1>11, <1>12,
           <1>13, <1>14, <1>15, <1>16 DEF Next, Step

\* Every reachable state has the declared shape; in particular no call works with
\* a credential that is not there.
THEOREM TypeCorrect == Spec => []TypeOK
<1>1. Init => TypeOK
  <2> SUFFICES ASSUME Init PROVE TypeOK
    OBVIOUS
  <2>1. NoService \in Service /\ NoConfig \in Config /\ NoFile \in Handoff /\ NoJob \in Jobs
    BY NoServiceType DEF NoConfig, Config, NoFile, Handoff, NoJob, Jobs
  <2>2. cred \in [Call -> [password : Credentials \ {None}, token : Credentials \ {None}]]
    BY ProvisioningAssumption DEF Init, ProvisioningAssumption
  <2>3. meddling \in 0..MaxMeddling
    BY ProvisioningAssumption DEF Init, ProvisioningAssumption
  <2> QED BY <2>1, <2>2, <2>3 DEF Init, TypeOK
<1>2. TypeOK /\ [Next]_vars => TypeOK'
  BY TypeInductive
<1> QED BY <1>1, <1>2, PTL DEF Spec

-----------------------------------------------------------------------------
\* A document about to be written has a baseline; of two calls that run at
\* once neither counts as alone; and what a lone call read is still there.
ConfigInv ==
  /\ OriginNeedsBaseline
  /\ \A c \in Call : At(c, "posting") => draft[c].mode = "set"
  /\ \A c, d \in Call : c # d /\ Active(c) /\ Active(d) => quiet[c] = "overlapped"
  /\ \A c \in Call : At(c, "posting") /\ quiet[c] = "quiet" => draft[c] = config[target[c]]

\* A step of a call that neither reads nor writes the configuration.
LEMMA OtherSteps ==
  ASSUME TypeOK, ConfigInv, NEW c \in Call, NEW step, pc' = [pc EXCEPT ![c] = step],
         step \notin {"posting", "postingAgain"},
         Active(c) \/ step \notin Steps,
         UNCHANGED config,
         \A d \in Call \ {c} : /\ draft'[d] = draft[d] /\ target'[d] = target[d]
                               /\ quiet'[d] = quiet[d],
         step \in Steps => quiet'[c] = quiet[c]
  PROVE  ConfigInv'
<1>1. \A d \in Call \ {c} : pc'[d] = pc[d]
  BY DEF TypeOK
<1>2. pc'[c] = step
  BY DEF TypeOK
<1>3. OriginNeedsBaseline'
  BY DEF ConfigInv, OriginNeedsBaseline
<1>4. (\A d \in Call : At(d, "posting") => draft[d].mode = "set")'
  BY <1>1, <1>2 DEF ConfigInv, At, Again
<1>5. (\A d, e \in Call : d # e /\ Active(d) /\ Active(e) => quiet[d] = "overlapped")'
  BY <1>1, <1>2 DEF ConfigInv, Active
<1>6. (\A d \in Call : At(d, "posting") /\ quiet[d] = "quiet" => draft[d] = config[target[d]])'
  BY <1>1, <1>2 DEF ConfigInv, At, Again
<1> QED BY <1>3, <1>4, <1>5, <1>6 DEF ConfigInv

\* Every step keeps the invariant; only the patch, the apply and the operator
\* touch a configuration.
LEMMA ConfigInductive == TypeOK /\ ConfigInv /\ [Next]_vars => ConfigInv'
<1> SUFFICES ASSUME TypeOK, ConfigInv, [Next]_vars PROVE ConfigInv'
  OBVIOUS
<1> USE DEF world, held, fixed
<1>1. ASSUME NEW c \in Call, Provision(c) \/ Install(c) PROVE ConfigInv'
  <2>1. PICK j \in Jobs, step \in {"linking", "listing"} : Begin(c, j, step)
    BY <1>1 DEF Provision, Install
  <2>2. /\ pc' = [pc EXCEPT ![c] = step] /\ UNCHANGED <<config, draft, target>>
    BY <2>1 DEF Begin, Go
  <2>3. /\ \A d \in Call \ {c} : pc'[d] = pc[d] /\ pc'[c] = step
        /\ ~At(c, "posting")'
    BY <2>2 DEF TypeOK, At, Again
  <2>4. \A d \in Call : quiet'[d] \in {quiet[d], "overlapped"}
    BY <2>1 DEF TypeOK, Begin
  <2>5. /\ OriginNeedsBaseline'
        /\ (\A d \in Call : At(d, "posting") => draft[d].mode = "set")'
    BY <2>2, <2>3 DEF ConfigInv, OriginNeedsBaseline, At
  <2>6. (\A d \in Call : At(d, "posting") /\ quiet[d] = "quiet" => draft[d] = config[target[d]])'
    BY <2>2, <2>3, <2>4 DEF ConfigInv, At
  <2>7. ASSUME NEW d \in Call, NEW e \in Call, d # e, Active(d)', Active(e)'
        PROVE  quiet'[d] = "overlapped"
    <3>1. CASE d # c /\ e # c
      BY <2>3, <2>4, <2>7, <3>1 DEF ConfigInv, Active
    <3>2. CASE d = c \/ e = c
      <4>1. PICK f \in Call \ {c} : Active(f) /\ d \in {c, f}
        BY <2>3, <2>7, <3>2 DEF Active
      <4>2. f \in Beside(c)
        BY <4>1 DEF Beside
      <4>3. quiet' = [x \in Call |-> IF x \in Beside(c) \cup {c} THEN "overlapped" ELSE quiet[x]]
        BY <2>1, <4>2 DEF Begin
      <4> QED BY <4>1, <4>2, <4>3
    <3> QED BY <3>1, <3>2
  <2> QED BY <2>5, <2>6, <2>7 DEF ConfigInv
<1>2. ASSUME NEW c \in Call,
             \/ Link(c) \/ List(c) \/ Create(c) \/ Diff(c) \/ LinkService(c) \/ AttachVolume(c)
             \/ WriteVariables(c) \/ Redeploy(c) \/ Poll(c) \/ ReadBack(c) \/ Route(c)
             \/ AwaitReady(c) \/ VerifyConfig(c) \/ WriteEnvLocal(c)
      PROVE  ConfigInv'
  <2>1. \E step \in Steps \ {"posting", "postingAgain"} : pc' = [pc EXCEPT ![c] = step]
    BY <1>2 DEF Link, List, Create, Diff, LinkService, AttachVolume, WriteVariables, Redeploy,
                Poll, ReadBack, Route, AwaitReady, VerifyConfig, WriteEnvLocal, Go, GoOn, Again,
                Steps, Before, Tail, Retry
  <2>2. Active(c)
    BY <1>2 DEF Link, List, Create, Diff, LinkService, AttachVolume, WriteVariables, Redeploy,
                Poll, ReadBack, Route, AwaitReady, VerifyConfig, WriteEnvLocal, At, Again,
                Active, Steps, Before, Tail, Retry
  <2>3. UNCHANGED <<config, draft, quiet>>
    BY <1>2 DEF Link, List, Create, Diff, LinkService, AttachVolume, WriteVariables, Redeploy,
                Poll, ReadBack, Route, AwaitReady, VerifyConfig, WriteEnvLocal
  <2>4. \A d \in Call \ {c} : target'[d] = target[d]
    BY <1>2 DEF TypeOK, Link, List, Create, Diff, LinkService, AttachVolume, WriteVariables,
                Redeploy, Poll, ReadBack, Route, AwaitReady, VerifyConfig, WriteEnvLocal
  <2> QED BY <2>1, <2>2, <2>3, <2>4, OtherSteps
<1>3. ASSUME NEW c \in Call, Pair(c) \/ WriteHandoff(c) \/ Fail(c) PROVE ConfigInv'
  <2>1. Active(c) /\ UNCHANGED config
    BY <1>3 DEF Pair, WriteHandoff, Fail, Active, Steps, Tail, Retry
  <2>2. CASE /\ pc' = [pc EXCEPT ![c] = "filing"] \/ pc' = [pc EXCEPT ![c] = "applying"]
             /\ UNCHANGED <<held, fixed>>
    BY <2>1, <2>2, OtherSteps
  <2>3. ASSUME NEW outcome \in {"done", "failed"}, End(c, outcome) PROVE ConfigInv'
    <3>1. outcome \notin Steps
      BY DEF Steps, Before, Tail, Retry
    <3>2. \A d \in Call \ {c} : /\ draft'[d] = draft[d] /\ target'[d] = target[d]
                                /\ quiet'[d] = quiet[d]
      BY <2>3 DEF TypeOK, End
    <3>3. pc' = [pc EXCEPT ![c] = outcome]
      BY <2>3 DEF End, Go
    <3> QED BY <2>1, <3>1, <3>2, <3>3, OtherSteps
  <2> QED BY <1>3, <2>2, <2>3 DEF Pair, WriteHandoff, Fail, Go
<1>4. ASSUME NEW c \in Call, GetConfig(c) PROVE ConfigInv'
  <2>1. Active(c) /\ UNCHANGED <<config, target, quiet>>
    BY <1>4 DEF GetConfig, At, Again, Active, Steps, Tail, Retry
  <2>2. CASE pc' = [pc EXCEPT ![c] = "pairing"] \/ pc' = [pc EXCEPT ![c] = "pairingAgain"]
    <3>1. UNCHANGED draft
      BY <1>4, <2>2 DEF TypeOK, GetConfig, GoOn, Go, Again
    <3> QED BY <2>1, <2>2, <3>1, OtherSteps
  <2>3. CASE \/ pc' = [pc EXCEPT ![c] = "posting"]
             \/ pc' = [pc EXCEPT ![c] = "postingAgain"]
    <3>1. /\ draft' = [draft EXCEPT ![c] = config[target[c]]]
          /\ ~LacksBaseline(config[target[c]])
      BY <1>4, <2>3 DEF TypeOK, GetConfig, GoOn, Go, Again
    <3>2. draft'[c] = config[target[c]] /\ draft'[c].mode = "set"
      BY <3>1 DEF TypeOK, Config, LacksBaseline
    <3>3. \A d \in Call \ {c} : draft'[d] = draft[d] /\ pc'[d] = pc[d]
      BY <2>3, <3>1 DEF TypeOK
    <3>4. \A d \in Call : Active(d)' => Active(d)
      BY <2>1, <3>3 DEF Active
    <3>5. /\ OriginNeedsBaseline'
          /\ (\A d \in Call : At(d, "posting") => draft[d].mode = "set")'
      <4>1. \A d \in Call : At(d, "posting")' => d = c \/ At(d, "posting")
        BY <3>3 DEF At
      <4> QED BY <2>1, <3>2, <3>3, <4>1 DEF ConfigInv, OriginNeedsBaseline
    <3>6. (\A d, e \in Call : d # e /\ Active(d) /\ Active(e) => quiet[d] = "overlapped")'
      BY <2>1, <3>4 DEF ConfigInv
    <3>7. (\A d \in Call : At(d, "posting") /\ quiet[d] = "quiet" => draft[d] = config[target[d]])'
      BY <2>1, <3>2, <3>3 DEF ConfigInv, At
    <3> QED BY <3>5, <3>6, <3>7 DEF ConfigInv
  <2> QED BY <1>4, <2>2, <2>3 DEF GetConfig, GoOn, Go, Again
<1>5. ASSUME NEW c \in Call, PostConfig(c) \/ Apply(c) PROVE ConfigInv'
  <2>1. /\ Active(c) /\ UNCHANGED <<target, quiet>>
        /\ \E step \in {"verifying", "verifyingAgain", "gettingAgain"} : pc' = [pc EXCEPT ![c] = step]
    BY <1>5 DEF PostConfig, Apply, At, Again, GoOn, Go, Active, Steps, Tail, Retry
  <2>2. /\ \A d \in Call \ {c} : pc'[d] = pc[d] /\ draft'[d] = draft[d]
        /\ ~At(c, "posting")'
    BY <1>5, <2>1 DEF TypeOK, PostConfig, Apply, At, Again
  <2>3. \A d \in Call : Active(d)' => Active(d)
    BY <2>1, <2>2 DEF Active
  <2>4. OriginNeedsBaseline'
    <3>1. CASE PostConfig(c)
      <4>1. draft[c].mode = "set"
        BY <3>1 DEF PostConfig, ConfigInv
      <4>2. WithOwnOrigin(draft[c]).mode = "set"
        BY <4>1 DEF TypeOK, Config, WithOwnOrigin
      <4>3. config' = [config EXCEPT ![target[c]] = WithOwnOrigin(draft[c])]
        BY <3>1 DEF PostConfig
      <4> QED BY <4>2, <4>3 DEF TypeOK, ConfigInv, OriginNeedsBaseline
    <3>2. CASE Apply(c)
      <4>1. CASE config' = [config EXCEPT ![target[c]] = [config[target[c]] EXCEPT !.mode = "set"]]
        <5>1. \A s \in Call : /\ config'[s].origins = config[s].origins
                              /\ config'[s].mode \in {config[s].mode, "set"}
          BY <4>1 DEF TypeOK, Config
        <5> QED BY <5>1 DEF ConfigInv, OriginNeedsBaseline
      <4>2. CASE UNCHANGED config
        BY <4>2 DEF ConfigInv, OriginNeedsBaseline
      <4> QED BY <3>2, <4>1, <4>2 DEF Apply
    <3> QED BY <1>5, <3>1, <3>2
  <2>5. ASSUME NEW d \in Call, At(d, "posting")', quiet'[d] = "quiet"
        PROVE  draft'[d] = config'[target'[d]]
    <3>1. d # c /\ Active(d)
      BY <2>2, <2>5 DEF At, Again, Active, Steps, Tail, Retry
    <3>2. quiet[d] = "overlapped"
      BY <2>1, <3>1 DEF ConfigInv
    <3> QED BY <2>1, <2>5, <3>2
  <2> QED BY <2>1, <2>2, <2>3, <2>4, <2>5 DEF ConfigInv, At
<1>6. ASSUME NEW s \in Call, FirstEnds(s) \/ SecondEnds(s) \/ Appears(s) PROVE ConfigInv'
  BY <1>6 DEF FirstEnds, SecondEnds, Appears, ConfigInv, OriginNeedsBaseline, At, Active
<1>7. ASSUME NEW s \in Call, Meddle(s) PROVE ConfigInv'
  <2>1. /\ UNCHANGED <<pc, draft, target>>
        /\ quiet' = [c \in Call |-> IF Active(c) THEN "overlapped" ELSE quiet[c]]
    BY <1>7 DEF Meddle
  <2>2. OriginNeedsBaseline'
    BY <1>7 DEF TypeOK, Config, NoConfig, Meddle, ConfigInv, OriginNeedsBaseline
  <2>3. \A c \in Call : At(c, "posting") => Active(c)
    BY DEF At, Again, Active, Steps, Tail, Retry
  <2> QED BY <2>1, <2>2, <2>3 DEF ConfigInv, At, Active
<1>8. CASE UNCHANGED vars
  BY <1>8 DEF vars, ConfigInv, OriginNeedsBaseline, At, Active
<1> QED BY <1>1, <1>2, <1>3, <1>4, <1>5, <1>6, <1>7, <1>8 DEF Next, Step

\* So it holds in every reachable state.
LEMMA ConfigHolds == Spec => [](TypeOK /\ ConfigInv)
<1>1. Init => ConfigInv
  BY DEF Init, NoConfig, ConfigInv, OriginNeedsBaseline, At, Again, Active, Steps, Before, Tail,
         Retry
<1>2. TypeOK /\ ConfigInv /\ [Next]_vars => ConfigInv'
  BY ConfigInductive
<1> QED BY <1>1, <1>2, TypeCorrect, PTL DEF Spec

\* Issue #77: no interleaving of patches, applies and resets leaves an instance
\* with our origin and no gateway.mode.
THEOREM OriginsHaveBaselines == Spec => []OriginNeedsBaseline
<1>1. ConfigInv => OriginNeedsBaseline
  BY DEF ConfigInv
<1> QED BY <1>1, ConfigHolds, PTL

\* The patch is a read and a write with nothing held between them; alone, it
\* still keeps every origin that is there when it writes.
THEOREM LonePatchesPreserve == Spec => AlonePreservesOrigins
<1> DEFINE Kept == \A c, s \in Call : pc[c] # pc'[c] /\ quiet[c] = "quiet" =>
                     config[s].origins \subseteq config'[s].origins
<1>1. TypeOK /\ ConfigInv /\ [Next]_vars => Kept
  <2> SUFFICES ASSUME TypeOK, ConfigInv, Next, NEW c \in Call, NEW s \in Call,
                      pc[c] # pc'[c], quiet[c] = "quiet"
               PROVE  config[s].origins \subseteq config'[s].origins
    BY DEF vars
  <2> USE DEF world, held, fixed
  <2>1. CASE UNCHANGED config
    BY <2>1
  <2>2. CASE PostConfig(c)
    <3>1. draft[c] = config[target[c]]
      BY <2>2 DEF PostConfig, ConfigInv
    <3>2. config' = [config EXCEPT ![target[c]] = WithOwnOrigin(config[target[c]])]
      BY <2>2, <3>1 DEF PostConfig
    <3>3. config[s].origins \subseteq WithOwnOrigin(config[s]).origins
      BY DEF TypeOK, Config, WithOwnOrigin
    <3> QED BY <3>2, <3>3 DEF TypeOK
  <2>3. CASE Apply(c)
    <3>1. \/ config' = [config EXCEPT ![target[c]] = [config[target[c]] EXCEPT !.mode = "set"]]
          \/ UNCHANGED config
      BY <2>3 DEF Apply
    <3>2. CASE config' = [config EXCEPT ![target[c]] = [config[target[c]] EXCEPT !.mode = "set"]]
      <4>1. \A r \in Call : config'[r].origins = config[r].origins
        BY <3>2 DEF TypeOK, Config
      <4> QED BY <4>1
    <3> QED BY <3>1, <3>2
  <2>4. ASSUME NEW d \in Call, PostConfig(d) \/ Apply(d) PROVE d = c
    BY <2>4 DEF TypeOK, PostConfig, Apply, GoOn, Go
  <2>5. ASSUME NEW r \in Call, Meddle(r) PROVE FALSE
    BY <2>5 DEF Meddle
  <2>6. \/ UNCHANGED config
        \/ \E d \in Call : PostConfig(d) \/ Apply(d) \/ Meddle(d)
    BY DEF Next, Step, Provision, Install, Begin, Link, List, Create, Diff, LinkService,
           AttachVolume, WriteVariables, Redeploy, Poll, ReadBack, Route, AwaitReady, GetConfig,
           VerifyConfig, Pair, WriteEnvLocal, WriteHandoff, Fail, FirstEnds, SecondEnds, Appears
  <2> QED BY <2>1, <2>2, <2>3, <2>4, <2>5, <2>6
<1>2. Spec => [][Kept]_vars
  BY <1>1, ConfigHolds, PTL DEF Spec
<1> QED BY <1>2 DEF AlonePreservesOrigins

-----------------------------------------------------------------------------
\* A call's own credentials, and the services of a project.
Own(c)        == [password |-> c, token |-> c]
ServicesAt(p) == {s \in Call : service[s].at = p}

\* The steps by what a call knows at them.
Fresh      == {"idle", "linking", "listing", "creating"}
Naming     == {"linkingService", "attaching", "settings", "password", "token",
               "redeploying", "polling"}
Setting    == {"diffing", "linkingService", "attaching", "settings", "password", "token",
               "redeploying"}
Reading    == {"readingPassword", "readingToken"}
ClientOnly == {"linking"} \cup Setting \cup Reading
Ready      == Tail \cup Retry
Past       == {"routing", "awaiting"} \cup Ready

\* Whatever overlaps: a slot is empty until its call creates a service, names
\* tell the services of a project apart, the link leads to a service, and the
\* template's services only ever have their own call's password.
FreshInv == \A c \in Call : pc[c] \in Fresh =>
  service[c] = NoService /\ cred[c] = Own(c) /\ target[c] = c

NamesInv ==
  /\ linked.service # None => service[linked.service].at # None
  /\ \A s \in Call : service[s].at # None =>
       service[s].name < Cardinality(ServicesAt(service[s].at))
  /\ \A s, t \in Call : /\ service[s].at # None /\ service[s].at = service[t].at
                        /\ service[s].name = service[t].name
                        => s = t

TemplateInv == path = "template" =>
  /\ \A c \in Call : pc[c] \notin ClientOnly /\ cred[c] = Own(c)
  /\ \A s \in Call : {service[s].env.password, service[s].image.password,
                      service[s].serving.password} \subseteq {s, Manual, None}

\* While a call is alone: where it works, ...
Placed(c) ==
  /\ path = "client" /\ pc[c] # "linking" =>
       linked.project = IF job[c].project = New THEN c ELSE job[c].project
  /\ path = "client" /\ pc[c] \in {"listing", "creating", "diffing", "linkingService"} =>
       linked.service = None
  /\ pc[c] = "attaching" => linked.service = c
  /\ pc[c] = "creating" =>
       /\ before[c] = Listed
       /\ path = "client" /\ job[c].force = "reuse" => Listed = {}
  /\ pc[c] = "diffing" => c \in Listed /\ NewlyListed(c) = {c}
  /\ pc[c] \in Naming => target[c] = c
  /\ pc[c] \in Naming \cup Reading \cup Past => target[c] \in Listed

\* ... what the service it creates has been given, ...
Unbuilt(s) == /\ service[s].second = "none"
              /\ service[s].image = NoEnv /\ service[s].serving = NoEnv

Provisioned(c) ==
  LET s == service[c] IN
  /\ s.env = FullEnv(c) /\ cred[c] = Own(c)
  /\ s.serving \in {NoEnv, FullEnv(c)}
  /\ path = "client" => s.image = FullEnv(c) /\ (s.serving = FullEnv(c) => s.second = "SUCCESS")
  /\ path = "template" => s.second = "none"

Supplied(c) ==
  /\ pc[c] \in Setting => Unbuilt(c) /\ cred[c] = Own(c)
  /\ pc[c] \in {"diffing", "linkingService", "attaching", "settings"} => service[c].env = NoEnv
  /\ pc[c] = "password" => service[c].env = [NoEnv EXCEPT !.settings = "set"]
  /\ pc[c] = "token" => service[c].env = [settings |-> "set", password |-> c, token |-> None]
  /\ pc[c] = "redeploying" => service[c].env = FullEnv(c)
  /\ pc[c] \in Reading => service[c].at = None
  /\ pc[c] \in {"polling"} \cup Past /\ service[c].at # None => Provisioned(c)

\* ... and what it has learnt.
Learnt(c) ==
  /\ pc[c] = "readingToken" => cred[c].password = service[target[c]].env.password
  /\ path = "client" /\ pc[c] \in Past =>
       cred[c] = [password |-> service[target[c]].env.password,
                  token    |-> service[target[c]].env.token]
  /\ path = "template" /\ pc[c] \in Ready => target[c] = c
  /\ pc[c] \in Ready /\ target[c] = c => service[c].serving = FullEnv(c)
  /\ pc[c] = "handing" => files.envLocal = Result(c)
  /\ pc[c] = "pairingAgain" =>
       "own" \in config[target[c]].origins \/ config[target[c]].mode = "absent"

Settled(c) == Placed(c) /\ Supplied(c) /\ Learnt(c)
AloneInv   == \A c \in Call : Active(c) /\ quiet[c] = "quiet" => Settled(c)

-----------------------------------------------------------------------------
\* A call's step is a step of an active call, and leaves the memory of the others.
LEMMA CallStep ==
  ASSUME TypeOK, NEW c \in Call, Step(c)
  PROVE  /\ Active(c) /\ path' = path
         /\ \A d \in Call \ {c} :
              /\ pc'[d] = pc[d] /\ target'[d] = target[d] /\ before'[d] = before[d]
              /\ cred'[d] = cred[d] /\ job'[d] = job[d] /\ quiet'[d] = quiet[d]
         /\ Active(c)' => quiet' = quiet /\ job' = job
<1> USE DEF Go, world, held, fixed
<1>1. CASE \/ Link(c) \/ List(c) \/ Create(c) \/ Diff(c) \/ LinkService(c) \/ AttachVolume(c)
           \/ WriteVariables(c) \/ Redeploy(c) \/ Poll(c) \/ ReadBack(c) \/ Route(c)
           \/ AwaitReady(c)
  <2>1. Active(c)
    BY <1>1 DEF Link, List, Create, Diff, LinkService, AttachVolume, WriteVariables, Redeploy,
                Poll, ReadBack, Route, AwaitReady, Active, Steps, Before
  <2>2. \A d \in Call \ {c} : pc'[d] = pc[d] /\ target'[d] = target[d] /\ before'[d] = before[d]
    BY <1>1 DEF TypeOK, Link, List, Create, Diff, LinkService, AttachVolume, WriteVariables,
                Redeploy, Poll, ReadBack, Route, AwaitReady
  <2>3. /\ \A d \in Call \ {c} : cred'[d] = cred[d]
        /\ UNCHANGED fixed
    BY <1>1 DEF TypeOK, Link, List, Create, Diff, LinkService, AttachVolume, WriteVariables,
                Redeploy, Poll, ReadBack, Route, AwaitReady
  <2> QED BY <2>1, <2>2, <2>3
<1>2. CASE \/ GetConfig(c) \/ PostConfig(c) \/ VerifyConfig(c) \/ WriteEnvLocal(c) \/ Apply(c)
  <2>1. Active(c)
    BY <1>2 DEF GetConfig, PostConfig, VerifyConfig, WriteEnvLocal, Apply, At, Again, Active,
                Steps, Tail, Retry
  <2>2. /\ \E step : pc' = [pc EXCEPT ![c] = step]
        /\ UNCHANGED <<target, before, cred, fixed>>
    BY <1>2 DEF GetConfig, PostConfig, VerifyConfig, WriteEnvLocal, Apply, GoOn
  <2> QED BY <2>1, <2>2 DEF TypeOK
<1>3. CASE Pair(c) \/ WriteHandoff(c) \/ Fail(c)
  <2>1. Active(c)
    BY <1>3 DEF Pair, WriteHandoff, Fail, Active, Steps, Tail, Retry
  <2>2. CASE \E step : pc' = [pc EXCEPT ![c] = step] /\ UNCHANGED <<held, fixed>>
    BY <2>1, <2>2 DEF TypeOK
  <2>3. CASE \E outcome \in {"done", "failed"} : End(c, outcome)
    <3>1. pc'[c] \notin Steps
      BY <2>3 DEF TypeOK, End, Steps, Before, Tail, Retry
    <3> QED BY <2>1, <2>3, <3>1 DEF TypeOK, End, Active
  <2> QED BY <1>3, <2>2, <2>3 DEF Pair, WriteHandoff, Fail
<1> QED BY <1>1, <1>2, <1>3 DEF Step

\* What may happen while a call is alone: its beginning, its own steps, and
\* Railway's.
LEMMA AloneStep ==
  ASSUME TypeOK, ConfigInv, [Next]_vars, NEW c \in Call, Active(c)', quiet'[c] = "quiet"
  PROVE  \/ Provision(c) \/ Install(c)
         \/ /\ Active(c) /\ quiet[c] = "quiet"
            /\ \/ Step(c)
               \/ \E s \in Call : FirstEnds(s) \/ SecondEnds(s) \/ Appears(s)
               \/ UNCHANGED vars
<1>1. ASSUME NEW d \in Call, Provision(d) \/ Install(d) PROVE d = c
  <2>1. PICK j \in Jobs, step \in {"linking", "listing"} : Begin(d, j, step)
    BY <1>1 DEF Provision, Install
  <2>2. ASSUME d # c PROVE FALSE
    <3>1. c \in Beside(d)
      BY <2>1, <2>2 DEF TypeOK, Begin, Go, Beside, Active
    <3> QED BY <2>1, <3>1 DEF Begin
  <2> QED BY <2>2
<1>2. ASSUME NEW d \in Call, Step(d) PROVE d = c /\ Active(c) /\ quiet[c] = "quiet"
  <2>1. d # c => Active(c) /\ Active(d) /\ quiet'[c] = quiet[c]
    BY <1>2, CallStep DEF Active
  <2>2. d = c => Active(c) /\ quiet'[c] = quiet[c]
    BY <1>2, CallStep
  <2> QED BY <2>1, <2>2 DEF ConfigInv
<1>3. ASSUME NEW s \in Call, Meddle(s) PROVE FALSE
  BY <1>3 DEF Meddle, Active
<1>4. ASSUME (\E s \in Call : FirstEnds(s) \/ SecondEnds(s) \/ Appears(s)) \/ UNCHANGED vars
      PROVE  Active(c) /\ quiet[c] = "quiet"
  BY <1>4 DEF FirstEnds, SecondEnds, Appears, vars, fixed, Active
<1> QED BY <1>1, <1>2, <1>3, <1>4 DEF Next

\* What a step sets of a service leaves where it is and its name.
LEMMA SameService ==
  ASSUME TypeOK, NEW s \in Call, service[s] # NoService,
         NEW new, new.at = service[s].at, new.name = service[s].name,
         service' = [service EXCEPT ![s] = new]
  PROVE  /\ \A t \in Call : service'[t].at = service[t].at /\ service'[t].name = service[t].name
         /\ \A t \in Call : service[t] = NoService => service'[t] = NoService
BY DEF TypeOK

\* No step but Create moves or renames a service, or brings one about.
LEMMA OneService ==
  ASSUME TypeOK, NamesInv, [Next]_vars
  PROVE  \/ \E c \in Call : Create(c) /\ service' = [service EXCEPT ![c] = Created(c)]
         \/ /\ \A s \in Call : /\ service'[s].at = service[s].at
                               /\ service'[s].name = service[s].name
            /\ \A s \in Call : service[s] = NoService => service'[s] = NoService
<1> DEFINE Same == /\ \A s \in Call : /\ service'[s].at = service[s].at
                                      /\ service'[s].name = service[s].name
                   /\ \A s \in Call : service[s] = NoService => service'[s] = NoService
<1> USE DEF world
<1>0. /\ \A s \in Call : service[s] \in Service
      /\ \A s \in Call : service[s].at = linked.project => service[s] # NoService
      /\ linked.service # None => linked.service \in Call /\ service[linked.service] # NoService
  <2>1. NoService.at = None
    BY DEF NoService
  <2>2. linked.project \in Projects /\ linked.service \in Call \cup {None}
    BY DEF TypeOK
  <2>3. linked.project # None
    BY <2>2, ProvisioningAssumption DEF ProvisioningAssumption
  <2>4. \A s \in Call : service[s] \in Service
    BY DEF TypeOK
  <2>5. linked.service # None => service[linked.service].at # None
    BY DEF NamesInv
  <2> QED BY <2>1, <2>2, <2>3, <2>4, <2>5
<1> DEFINE Changed(s, new) == /\ service[s] # NoService
                              /\ new.at = service[s].at /\ new.name = service[s].name
                              /\ service' = [service EXCEPT ![s] = new]
<1>1. (\E s \in Call : \E new \in Service : Changed(s, new)) => Same
  BY SameService
<1> HIDE DEF Same
<1>2. CASE UNCHANGED service
  BY <1>2 DEF Same
<1>3. ASSUME NEW c \in Call, Create(c)
      PROVE  Same \/ service' = [service EXCEPT ![c] = Created(c)]
  <2>1. CASE linked.service # None /\ service' = [service EXCEPT ![linked.service] = Redeployed(@)]
    <3>1. service' = [service EXCEPT ![linked.service] = Redeployed(service[linked.service])]
      BY <2>1, <1>0 DEF TypeOK
    <3>2. Redeployed(service[linked.service]) \in Service
      BY <1>0, <2>1, ServiceUpdates
    <3>3. Changed(linked.service, Redeployed(service[linked.service]))
      BY <1>0, <2>1, <3>1 DEF Redeployed, Service
    <3> QED BY <1>0, <1>1, <2>1, <3>2, <3>3
  <2> QED BY <1>3, <2>1 DEF Create
<1>4. ASSUME NEW c \in Call, AttachVolume(c) PROVE Same
  <2> DEFINE s == linked.service
             new == [service[s] EXCEPT !.volume = "attached"]
  <2>1. s \in Call /\ service' = [service EXCEPT ![s] = new] /\ service[s] # NoService
    BY <1>0, <1>4 DEF AttachVolume
  <2>2. new \in Service /\ new.at = service[s].at /\ new.name = service[s].name
    BY <1>0, <2>1 DEF Service
  <2> QED BY <1>1, <2>1, <2>2
<1>5. ASSUME NEW c \in Call, WriteVariables(c) \/ Redeploy(c) \/ Route(c) PROVE Same
  <2>1. PICK s \in Call :
          /\ service[s].at = linked.project
          /\ \/ service' = [service EXCEPT ![s] = [service[s] EXCEPT !.env.settings = "set"]]
             \/ service' = [service EXCEPT ![s] =
                              [service[s] EXCEPT !.env.password = cred[c].password]]
             \/ service' = [service EXCEPT ![s] = [service[s] EXCEPT !.env.token = cred[c].token]]
             \/ service' = [service EXCEPT ![s] = Redeployed(@)]
             \/ service' = [service EXCEPT ![s] = [service[s] EXCEPT !.domain = "routed"]]
    BY <1>5 DEF WriteVariables, Redeploy, Route, Addressed, Named, Listed
  <2>2. PICK new : /\ service' = [service EXCEPT ![s] = new]
                   /\ new \in {[service[s] EXCEPT !.env.settings = "set"],
                               [service[s] EXCEPT !.env.password = cred[c].password],
                               [service[s] EXCEPT !.env.token = cred[c].token],
                               Redeployed(service[s]), [service[s] EXCEPT !.domain = "routed"]}
    BY <2>1 DEF TypeOK
  <2>3. new \in Service
    <3>1. cred[c].password \in Credentials /\ cred[c].token \in Credentials
      BY DEF TypeOK
    <3>2. service[s] \in Service
      BY <1>0
    <3>3. /\ Redeployed(service[s]) \in Service
          /\ [service[s] EXCEPT !.env.settings = "set"] \in Service
          /\ [service[s] EXCEPT !.domain = "routed"] \in Service
      BY <3>2, ServiceUpdates
    <3>4. /\ [service[s] EXCEPT !.env.password = cred[c].password] \in Service
          /\ [service[s] EXCEPT !.env.token = cred[c].token] \in Service
      BY <3>1, <3>2, ServiceUpdates
    <3> QED BY <2>2, <3>3, <3>4
  <2>4. new.at = service[s].at /\ new.name = service[s].name
    BY <1>0, <2>2 DEF Service, Redeployed
  <2> QED BY <1>0, <1>1, <2>1, <2>2, <2>3, <2>4
<1>6. ASSUME NEW s \in Call, FirstEnds(s) \/ SecondEnds(s) \/ Appears(s) PROVE Same
  <2>1. service[s] # NoService
    BY <1>6 DEF FirstEnds, SecondEnds, Appears, NoService
  <2>2. PICK new : /\ service' = [service EXCEPT ![s] = new]
                   /\ new.at = service[s].at /\ new.name = service[s].name
    <3>1. CASE FirstEnds(s)
      <4> DEFINE e == IF service[s].second = "SUCCESS" THEN service[s].serving
                      ELSE IF path = "client" THEN NoEnv ELSE FullEnv(s)
      <4>1. \/ service' = [service EXCEPT ![s] = [service[s] EXCEPT !.first = "FAILED"]]
            \/ service' = [service EXCEPT ![s] =
                 [service[s] EXCEPT !.first = "SUCCESS", !.serving = e]]
        BY <3>1 DEF FirstEnds, TypeOK
      <4> HIDE DEF e
      <4>2. /\ [service[s] EXCEPT !.first = "FAILED"].at = service[s].at
            /\ [service[s] EXCEPT !.first = "FAILED"].name = service[s].name
            /\ [service[s] EXCEPT !.first = "SUCCESS", !.serving = e].at = service[s].at
            /\ [service[s] EXCEPT !.first = "SUCCESS", !.serving = e].name = service[s].name
        BY <1>0 DEF Service
      <4> QED BY <4>1, <4>2
    <3>2. CASE SecondEnds(s)
      <4> DEFINE bad  == [service[s] EXCEPT !.second = "FAILED"]
                 good == [service[s] EXCEPT !.second = "SUCCESS", !.serving = service[s].image]
      <4>1. service' = [service EXCEPT ![s] = bad] \/ service' = [service EXCEPT ![s] = good]
        BY <3>2 DEF SecondEnds, TypeOK
      <4>2. /\ bad.at = service[s].at /\ bad.name = service[s].name
            /\ good.at = service[s].at /\ good.name = service[s].name
        BY <1>0 DEF Service
      <4> HIDE DEF bad, good
      <4> QED BY <4>1, <4>2
    <3>3. CASE Appears(s)
      <4> DEFINE one == [service[s] EXCEPT !.shown = "second", !.first = "none"]
      <4>1. service' = [service EXCEPT ![s] = one]
        BY <3>3 DEF Appears, TypeOK
      <4>2. one.at = service[s].at /\ one.name = service[s].name
        BY <1>0 DEF Service
      <4> HIDE DEF one
      <4> QED BY <4>1, <4>2
    <3> QED BY <1>6, <3>1, <3>2, <3>3
  <2> QED BY <2>1, <2>2, SameService DEF Same
<1>7. ASSUME NEW s \in Call, Meddle(s) PROVE Same
  <2>1. CASE UNCHANGED service
    BY <2>1 DEF Same
  <2>2. CASE \/ service' = [service EXCEPT ![s] = ByHand(@)]
             \/ service' = [service EXCEPT ![s] = Redeployed(ByHand(@))]
    <3>1. service[s] # NoService
      BY <1>7 DEF Meddle, NoService
    <3>2. PICK new \in {ByHand(service[s]), Redeployed(ByHand(service[s]))} :
            service' = [service EXCEPT ![s] = new]
      BY <2>2 DEF TypeOK
    <3>3. new.at = service[s].at /\ new.name = service[s].name
      <4>1. ByHand(service[s]).at = service[s].at /\ ByHand(service[s]).name = service[s].name
        BY <1>0 DEF ByHand, Service
      <4>2. ByHand(service[s]) \in Service
        BY <1>0, ServiceUpdates
      <4>3. /\ Redeployed(ByHand(service[s])).at = ByHand(service[s]).at
            /\ Redeployed(ByHand(service[s])).name = ByHand(service[s]).name
        BY <4>2 DEF Redeployed, Service
      <4> QED BY <3>2, <4>1, <4>3
    <3> QED BY <3>1, <3>2, <3>3, SameService DEF Same
  <2> QED BY <1>7, <2>1, <2>2 DEF Meddle
<1>8. CASE \E c \in Call : Create(c) \/ AttachVolume(c) \/ WriteVariables(c) \/ Redeploy(c) \/ Route(c)
  BY <1>3, <1>4, <1>5, <1>8 DEF Same
<1>9. CASE \E s \in Call : FirstEnds(s) \/ SecondEnds(s) \/ Appears(s) \/ Meddle(s)
  BY <1>6, <1>7, <1>9 DEF Same
<1>10. ASSUME NEW c \in Call,
              \/ Provision(c) \/ Install(c) \/ Link(c) \/ List(c) \/ Diff(c) \/ LinkService(c)
              \/ Poll(c) \/ ReadBack(c) \/ AwaitReady(c) \/ GetConfig(c) \/ PostConfig(c)
              \/ VerifyConfig(c) \/ Pair(c) \/ WriteEnvLocal(c) \/ WriteHandoff(c) \/ Apply(c)
              \/ Fail(c)
       PROVE  UNCHANGED service
  BY <1>10 DEF Provision, Install, Begin, Link, List, Diff, LinkService, Poll, ReadBack, AwaitReady,
         GetConfig, PostConfig, VerifyConfig, Pair, WriteEnvLocal, WriteHandoff, Apply, Fail
<1> QED BY <1>2, <1>8, <1>9, <1>10 DEF Next, Step, vars, Same

\* Until its call creates it, nothing is known of a service or kept for it.
LEMMA FreshInductive ==
  ASSUME TypeOK, FreshInv, NamesInv, [Next]_vars PROVE FreshInv'
<1> SUFFICES ASSUME NEW c \in Call, pc'[c] \in Fresh
             PROVE  service'[c] = NoService /\ cred'[c] = Own(c) /\ target'[c] = c
  BY DEF FreshInv, Own
<1> USE DEF Go, world, held, fixed
<1>1. pc[c] \in Fresh /\ cred'[c] = cred[c] /\ target'[c] = target[c] /\ ~Create(c)
  <2>1. ASSUME NEW d \in Call, Provision(d) \/ Install(d)
        PROVE  pc[c] \in Fresh /\ cred'[c] = cred[c] /\ target'[c] = target[c]
    <3>1. PICK j \in Jobs, step \in {"linking", "listing"} : Begin(d, j, step)
      BY <2>1 DEF Provision, Install
    <3> QED BY <3>1 DEF TypeOK, Begin, Fresh
  <2>2. ASSUME Link(c) \/ List(c)
        PROVE  pc[c] \in Fresh /\ cred'[c] = cred[c] /\ target'[c] = target[c]
    <3>1. CASE Link(c)
      BY <3>1 DEF Link, Fresh
    <3>2. CASE List(c)
      <4>1. pc'[c] = "creating"
        BY <3>2 DEF List, TypeOK, Fresh
      <4> QED BY <3>2, <4>1 DEF List, TypeOK, Fresh
    <3> QED BY <2>2, <3>1, <3>2
  <2>3. ASSUME \/ Create(c) \/ Diff(c) \/ LinkService(c) \/ AttachVolume(c) \/ WriteVariables(c)
               \/ Redeploy(c) \/ Poll(c) \/ ReadBack(c) \/ Route(c) \/ AwaitReady(c)
        PROVE  FALSE
    BY <2>3 DEF TypeOK, Create, Diff, LinkService, AttachVolume, WriteVariables, Redeploy, Poll,
                ReadBack, Route, AwaitReady, Fresh
  <2>4. ASSUME \/ GetConfig(c) \/ PostConfig(c) \/ VerifyConfig(c) \/ Pair(c) \/ WriteEnvLocal(c)
               \/ WriteHandoff(c) \/ Apply(c) \/ Fail(c)
        PROVE  FALSE
    BY <2>4 DEF TypeOK, GetConfig, PostConfig, VerifyConfig, Pair, WriteEnvLocal, WriteHandoff,
                Apply, Fail, End, GoOn, Again, Fresh
  <2>5. ASSUME NEW d \in Call \ {c}, Step(d)
        PROVE  pc[c] \in Fresh /\ cred'[c] = cred[c] /\ target'[c] = target[c]
    BY <2>5, CallStep
  <2>6. ASSUME NEW s \in Call, FirstEnds(s) \/ SecondEnds(s) \/ Appears(s) \/ Meddle(s)
        PROVE  pc[c] \in Fresh /\ cred'[c] = cred[c] /\ target'[c] = target[c]
    BY <2>6 DEF FirstEnds, SecondEnds, Appears, Meddle
  <2>7. ~Create(c)
    BY <2>3
  <2>8. CASE UNCHANGED vars
    BY <2>7, <2>8 DEF vars
  <2>9. CASE Step(c)
    BY <2>2, <2>3, <2>4, <2>7, <2>9 DEF Step
  <2>10. CASE \E d \in Call : Provision(d) \/ Install(d)
    BY <2>1, <2>7, <2>10
  <2>11. CASE \E s \in Call : FirstEnds(s) \/ SecondEnds(s) \/ Appears(s) \/ Meddle(s)
    BY <2>6, <2>7, <2>11
  <2> QED BY <2>5, <2>7, <2>8, <2>9, <2>10, <2>11 DEF Next
<1>2. service'[c] = NoService
  <2>1. service[c] = NoService
    BY <1>1 DEF FreshInv
  <2>2. \A d \in Call : Create(d) /\ service' = [service EXCEPT ![d] = Created(d)]
                        => service'[c] = service[c]
    BY <1>1 DEF TypeOK
  <2> QED BY <2>1, <2>2, OneService
<1> QED BY <1>1, <1>2 DEF FreshInv

\* A project's services can be counted.
LEMMA ServicesCount ==
  ASSUME TypeOK, NEW p
  PROVE  IsFiniteSet(ServicesAt(p)) /\ Cardinality(ServicesAt(p)) \in Nat
<1>1. ServicesAt(p) \subseteq Call /\ IsFiniteSet(Call)
  BY ProvisioningAssumption DEF ServicesAt, ProvisioningAssumption
<1>2. IsFiniteSet(ServicesAt(p))
  BY <1>1, FS_Subset
<1> QED BY <1>2, FS_CardinalityType

\* A name is the number of services there were, so it tells them apart.
LEMMA NamesInductive ==
  ASSUME TypeOK, FreshInv, NamesInv, [Next]_vars PROVE NamesInv'
<1> DEFINE Bounded == \A s \in Call : service[s].at # None =>
                        service[s].name < Cardinality(ServicesAt(service[s].at))
           Apart   == \A s, t \in Call : /\ service[s].at # None /\ service[s].at = service[t].at
                                         /\ service[s].name = service[t].name
                                         => s = t
           Linked  == linked.service # None => service[linked.service].at # None
<1>1. Bounded /\ Apart /\ Linked
  BY DEF NamesInv
<1>2. linked' = linked \/ linked'.service = None
      \/ (\E s \in Call : linked'.service = s /\ service[s].at # None /\ service' = service)
  <2>1. ASSUME NEW c \in Call, Link(c) PROVE linked'.service = None
    BY <2>1 DEF Link
  <2>2. ASSUME NEW c \in Call, LinkService(c)
        PROVE  \E s \in Call : linked'.service = s /\ service[s].at # None /\ service' = service
    <3>1. linked.project # None /\ linked \in [project : Projects, service : Call \cup {None}]
      BY ProvisioningAssumption DEF TypeOK, ProvisioningAssumption
    <3> QED BY <2>2, <3>1 DEF LinkService, Addressed, Named, Listed
  <2> QED BY <2>1, <2>2 DEF Next, Step, Provision, Install, Begin, List, Create, Diff, AttachVolume,
           WriteVariables, Redeploy, Poll, ReadBack, Route, AwaitReady, GetConfig, PostConfig,
           VerifyConfig, Pair, WriteEnvLocal, WriteHandoff, Apply, Fail, FirstEnds, SecondEnds,
           Appears, Meddle, vars, world
<1> DEFINE After(q) == {s \in Call : service'[s].at = q}
           Bounded2 == \A s \in Call : service'[s].at # None =>
                         service'[s].name < Cardinality(After(service'[s].at))
<1>3. Bounded2 /\ Apart' /\ Linked' => NamesInv'
  BY DEF NamesInv, ServicesAt
<1>4. CASE \A s \in Call : service'[s].at = service[s].at /\ service'[s].name = service[s].name
  <2>1. \A q : After(q) = ServicesAt(q)
    BY <1>4 DEF ServicesAt
  <2> HIDE DEF After
  <2>2. Bounded2
    BY <1>1, <1>4, <2>1
  <2>3. Apart'
    BY <1>1, <1>4
  <2>4. Linked'
    BY <1>1, <1>2, <1>4 DEF TypeOK
  <2> QED BY <1>3, <2>2, <2>3, <2>4
<1>5. ASSUME NEW c \in Call, Create(c), service' = [service EXCEPT ![c] = Created(c)]
      PROVE  NamesInv'
  <2> DEFINE p == linked.project
             n == Cardinality(ServicesAt(p))
  <2>1. service[c].at = None /\ p \in Projects /\ p # None
    BY <1>5, ProvisioningAssumption
       DEF Create, FreshInv, Fresh, NoService, TypeOK, ProvisioningAssumption
  <2>2. /\ service'[c].at = p /\ service'[c].name = n
        /\ \A s \in Call \ {c} : service'[s] = service[s]
    <3>1. Created(c).at = p /\ Created(c).name = n
      BY DEF Created, NoService, Listed, ServicesAt
    <3> QED BY <1>5, <3>1 DEF TypeOK
  <2>3. After(p) = ServicesAt(p) \cup {c} /\ c \notin ServicesAt(p)
    BY <2>1, <2>2 DEF ServicesAt
  <2>4. \A q : q # None /\ q # p => After(q) = ServicesAt(q)
    BY <2>1, <2>2 DEF ServicesAt
  <2> HIDE DEF After
  <2>5. n \in Nat /\ Cardinality(After(p)) = n + 1
    <3>1. IsFiniteSet(ServicesAt(p)) /\ n \in Nat
      BY ServicesCount
    <3>2. Cardinality(ServicesAt(p) \cup {c}) = n + 1
      BY <2>3, <3>1, FS_AddElement
    <3> QED BY <2>3, <3>1, <3>2
  <2>6. \A s \in Call : service[s].name \in Nat
    <3>1. Cardinality(Call) \in Nat
      BY ProvisioningAssumption, FS_CardinalityType DEF ProvisioningAssumption
    <3> QED BY <3>1 DEF TypeOK, Service
  <2>7. \A s \in Call \ {c} : service[s].at = p => service[s].name < n
    BY <1>1, <2>1
  <2> HIDE DEF p, n
  <2>8. ASSUME NEW s \in Call, service'[s].at # None
        PROVE  service'[s].name < Cardinality(After(service'[s].at))
    <3>1. CASE service'[s].at = p
      <4>1. service'[s].name = n \/ (service'[s].name \in Nat /\ service'[s].name < n)
        BY <2>2, <2>6, <2>7, <3>1
      <4> QED BY <2>5, <3>1, <4>1
    <3>2. CASE service'[s].at # p
      <4>1. s # c /\ service'[s] = service[s]
        BY <2>2, <3>2
      <4>2. After(service[s].at) = ServicesAt(service[s].at)
        BY <2>4, <2>8, <3>2, <4>1
      <4> QED BY <1>1, <2>8, <4>1, <4>2
    <3> QED BY <3>1, <3>2
  <2>9. Apart'
    <3> SUFFICES ASSUME NEW s \in Call, NEW t \in Call, service'[s].at # None,
                        service'[s].at = service'[t].at, service'[s].name = service'[t].name,
                        s # t
                 PROVE  FALSE
      OBVIOUS
    <3>1. CASE s # c /\ t # c
      BY <1>1, <2>2, <3>1
    <3>2. CASE s = c
      BY <2>2, <2>5, <2>6, <2>7, <3>2
    <3>3. CASE t = c
      BY <2>2, <2>5, <2>6, <2>7, <3>3
    <3> QED BY <3>1, <3>2, <3>3
  <2>10. Linked'
    <3>1. linked' = linked
      BY <1>5 DEF Create
    <3> QED BY <1>1, <2>1, <2>2, <3>1 DEF TypeOK
  <2> QED BY <1>3, <2>8, <2>9, <2>10
<1> QED BY <1>4, <1>5, OneService

\* The template's services only ever hold the password of the call that made
\* them or the operator's.
LEMMA TemplateInductive ==
  ASSUME TypeOK, TemplateInv, [Next]_vars PROVE TemplateInv'
<1> DEFINE Safe(e, s) == e.password \in {s, Manual, None}
           Sealed(one, s) == Safe(one.env, s) /\ Safe(one.image, s) /\ Safe(one.serving, s)
<1> SUFFICES ASSUME path' = "template"
             PROVE  /\ \A c \in Call : pc'[c] \notin ClientOnly /\ cred'[c] = Own(c)
                    /\ \A s \in Call : Sealed(service'[s], s)
  BY DEF TemplateInv, Own
<1> USE DEF Go, world, held, fixed
<1>0. path = "template"
  <2>1. ASSUME NEW c \in Call, Step(c) PROVE path = "template"
    BY <2>1, CallStep
  <2> QED BY <2>1 DEF Next, Provision, Install, Begin, FirstEnds, SecondEnds, Appears, Meddle, vars
<1>1. /\ \A c \in Call : pc[c] \notin ClientOnly /\ cred[c] = Own(c)
      /\ \A s \in Call : Sealed(service[s], s)
      /\ \A s \in Call : service[s] \in Service
  BY <1>0 DEF TypeOK, TemplateInv
<1>2. ASSUME NEW s \in Call, NEW one, service' = [service EXCEPT ![s] = one], Sealed(one, s)
      PROVE  \A t \in Call : Sealed(service'[t], t)
  BY <1>1, <1>2 DEF TypeOK
<1> HIDE DEF Sealed
<1>3. ASSUME NEW c \in Call,
             \/ Provision(c) \/ Link(c) \/ Diff(c) \/ LinkService(c) \/ AttachVolume(c)
             \/ WriteVariables(c) \/ Redeploy(c) \/ ReadBack(c)
      PROVE  FALSE
  BY <1>0, <1>1, <1>3 DEF Provision, Link, Diff, LinkService, AttachVolume, WriteVariables,
         Redeploy, ReadBack, ClientOnly, Setting, Reading
<1>4. ASSUME NEW c \in Call PROVE pc'[c] \notin ClientOnly /\ cred'[c] = Own(c)
  <2>1. CASE pc'[c] = pc[c] /\ cred'[c] = cred[c]
    BY <1>1, <2>1
  <2>2. CASE Install(c)
    <3>1. PICK j \in Jobs : Begin(c, j, "listing")
      BY <2>2 DEF Install
    <3> QED BY <1>1, <3>1 DEF TypeOK, Begin, ClientOnly, Setting, Reading
  <2>3. CASE List(c) \/ Create(c) \/ Poll(c) \/ Route(c) \/ AwaitReady(c)
    BY <1>0, <1>1, <2>3 DEF TypeOK, List, Create, Poll, Route, AwaitReady, ClientOnly, Setting,
                            Reading
  <2>4. CASE GetConfig(c) \/ PostConfig(c) \/ VerifyConfig(c) \/ WriteEnvLocal(c) \/ Apply(c)
    <3>1. pc'[c] \in Ready /\ cred'[c] = cred[c]
      BY <2>4 DEF TypeOK, GetConfig, PostConfig, VerifyConfig, WriteEnvLocal, Apply, GoOn, Again,
                  Ready, Tail, Retry
    <3> QED BY <1>1, <3>1 DEF Ready, Tail, Retry, ClientOnly, Setting, Reading
  <2>5. CASE Pair(c) \/ WriteHandoff(c) \/ Fail(c)
    <3>1. CASE pc'[c] \in {"filing", "applying"} /\ cred'[c] = cred[c]
      BY <1>1, <3>1 DEF ClientOnly, Setting, Reading
    <3>2. CASE \E outcome \in {"done", "failed"} : End(c, outcome)
      BY <3>2 DEF TypeOK, End, Own, ClientOnly, Setting, Reading
    <3> QED BY <2>5, <3>1, <3>2 DEF TypeOK, Pair, WriteHandoff, Fail
  <2>6. ASSUME NEW d \in Call \ {c}, Install(d) \/ Step(d)
        PROVE  pc'[c] = pc[c] /\ cred'[c] = cred[c]
    <3>1. CASE Step(d)
      BY <2>6, <3>1, CallStep
    <3>2. CASE Install(d)
      BY <2>6, <3>2 DEF TypeOK, Install, Begin
    <3> QED BY <2>6, <3>1, <3>2
  <2>7. ASSUME \/ \E s \in Call : FirstEnds(s) \/ SecondEnds(s) \/ Appears(s) \/ Meddle(s)
               \/ UNCHANGED vars
        PROVE  pc'[c] = pc[c] /\ cred'[c] = cred[c]
    BY <2>7 DEF FirstEnds, SecondEnds, Appears, Meddle, vars
  <2>8. CASE Step(c)
    BY <1>3, <2>3, <2>4, <2>5, <2>8 DEF Step
  <2> QED BY <1>3, <2>1, <2>2, <2>6, <2>7, <2>8 DEF Next
<1>5. \A s \in Call : Sealed(service'[s], s)
  <2>0. \A s \in Call : /\ Safe(service[s].env, s) /\ Safe(service[s].image, s)
                        /\ Safe(service[s].serving, s)
                        /\ service[s].env \in Env
                        /\ Safe(FullEnv(s), s) /\ Safe(NoEnv, s)
    BY <1>1 DEF Sealed, FullEnv, NoEnv, Service
  <2> HIDE DEF Safe
  <2>1. ASSUME NEW c \in Call, Create(c) PROVE \A s \in Call : Sealed(service'[s], s)
    <3>1. service' = [service EXCEPT ![c] = Created(c)]
      BY <1>0, <2>1 DEF Create
    <3>2. Sealed(Created(c), c)
      BY <1>0, <2>0 DEF Created, NoService, Sealed
    <3> QED BY <1>2, <3>1, <3>2
  <2>2. ASSUME NEW c \in Call, Route(c) PROVE \A s \in Call : Sealed(service'[s], s)
    <3>1. PICK s \in Call : service' = [service EXCEPT ![s] = [service[s] EXCEPT !.domain = "routed"]]
      BY <2>2 DEF Route, Addressed, Named, Listed
    <3>2. Sealed([service[s] EXCEPT !.domain = "routed"], s)
      BY <1>1, <2>0 DEF Sealed, Service
    <3> QED BY <1>2, <3>1, <3>2
  <2>3. ASSUME NEW s \in Call, FirstEnds(s) PROVE \A t \in Call : Sealed(service'[t], t)
    <3> DEFINE e == IF service[s].second = "SUCCESS" THEN service[s].serving
                    ELSE IF path = "client" THEN NoEnv ELSE FullEnv(s)
               bad  == [service[s] EXCEPT !.first = "FAILED"]
               good == [service[s] EXCEPT !.first = "SUCCESS", !.serving = e]
    <3>1. service' = [service EXCEPT ![s] = bad] \/ service' = [service EXCEPT ![s] = good]
      BY <2>3 DEF FirstEnds, TypeOK
    <3>2. Safe(e, s)
      BY <2>0
    <3> HIDE DEF e
    <3>3. Sealed(bad, s) /\ Sealed(good, s)
      BY <1>1, <2>0, <3>2 DEF Sealed, Service
    <3> HIDE DEF bad, good
    <3> QED BY <1>2, <3>1, <3>3
  <2>4. ASSUME NEW s \in Call, SecondEnds(s) PROVE \A t \in Call : Sealed(service'[t], t)
    <3> DEFINE bad  == [service[s] EXCEPT !.second = "FAILED"]
               good == [service[s] EXCEPT !.second = "SUCCESS", !.serving = service[s].image]
    <3>1. service' = [service EXCEPT ![s] = bad] \/ service' = [service EXCEPT ![s] = good]
      BY <2>4 DEF SecondEnds, TypeOK
    <3>2. Sealed(bad, s) /\ Sealed(good, s)
      BY <1>1, <2>0 DEF Sealed, Service
    <3> HIDE DEF bad, good
    <3> QED BY <1>2, <3>1, <3>2
  <2>5. ASSUME NEW s \in Call, Appears(s) PROVE \A t \in Call : Sealed(service'[t], t)
    <3> DEFINE one == [service[s] EXCEPT !.shown = "second", !.first = "none"]
    <3>1. service' = [service EXCEPT ![s] = one]
      BY <2>5 DEF Appears, TypeOK
    <3>2. Sealed(one, s)
      BY <1>1, <2>0 DEF Sealed, Service
    <3> HIDE DEF one
    <3> QED BY <1>2, <3>1, <3>2
  <2>6. ASSUME NEW s \in Call, Meddle(s) PROVE \A t \in Call : Sealed(service'[t], t)
    <3>1. Safe(ByHand(service[s]).env, s) /\ ByHand(service[s]) \in Service
      <4> DEFINE e == [service[s].env EXCEPT !.password = Manual, !.token = Manual]
      <4>1. ByHand(service[s]).env = e
        BY <1>1 DEF ByHand, Service
      <4>2. e.password = Manual
        BY <2>0 DEF Env
      <4>3. ByHand(service[s]) \in Service
        BY <1>1, ServiceUpdates
      <4> QED BY <4>1, <4>2, <4>3 DEF Safe
    <3>2. Sealed(ByHand(service[s]), s)
      BY <1>1, <2>0, <3>1 DEF Sealed, ByHand, Service
    <3>3. Sealed(Redeployed(ByHand(service[s])), s)
      BY <3>1, <3>2 DEF Sealed, Redeployed, Service
    <3>4. \/ service' = service
          \/ service' = [service EXCEPT ![s] = ByHand(service[s])]
          \/ service' = [service EXCEPT ![s] = Redeployed(ByHand(service[s]))]
      BY <2>6 DEF Meddle, TypeOK
    <3> QED BY <1>1, <1>2, <3>2, <3>3, <3>4
  <2>7. ASSUME NEW c \in Call,
              \/ Install(c) \/ List(c) \/ Poll(c) \/ AwaitReady(c) \/ GetConfig(c) \/ PostConfig(c)
              \/ VerifyConfig(c) \/ Pair(c) \/ WriteEnvLocal(c) \/ WriteHandoff(c) \/ Apply(c)
              \/ Fail(c)
       PROVE  UNCHANGED service
    BY <2>7 DEF Install, Begin, List, Poll, AwaitReady, GetConfig, PostConfig, VerifyConfig, Pair,
           WriteEnvLocal, WriteHandoff, Apply, Fail
  <2>8. CASE UNCHANGED service
    BY <1>1, <2>8
  <2> QED BY <1>3, <2>1, <2>2, <2>3, <2>4, <2>5, <2>6, <2>7, <2>8 DEF Next, Step, vars
<1> QED BY <1>4, <1>5

\* A name in the linked project leads to the call's own service.
LEMMA AddressedIsTarget ==
  ASSUME TypeOK, NamesInv, NEW c \in Call, target[c] \in Listed
  PROVE  /\ Addressed(c) = {target[c]}
         /\ target[c] \in Call /\ service[target[c]].at = linked.project
         /\ linked.project # None
<1>1. linked.project \in Projects /\ linked.project # None
  BY ProvisioningAssumption DEF TypeOK, ProvisioningAssumption
<1>2. target[c] \in Call /\ service[target[c]].at = linked.project
  BY DEF TypeOK, Listed
<1>3. \A s \in Addressed(c) : s = target[c]
  BY <1>1, <1>2 DEF Addressed, Named, Listed, NamesInv
<1>4. target[c] \in Addressed(c)
  BY <1>2 DEF Addressed, Named, Listed
<1> QED BY <1>1, <1>2, <1>3, <1>4

\* Linking, and the choice between a service that is there and a new one.
LEMMA SettledByChoosing ==
  ASSUME TypeOK, FreshInv, NamesInv, TemplateInv, NEW c \in Call, Settled(c),
         Link(c) \/ List(c)
  PROVE  Settled(c)'
<1> USE DEF Go, world, held, fixed
<1>1. path \in {"client", "template"} /\ service[c] = NoService
  BY DEF TypeOK, FreshInv, Fresh, Link, List
<1>2. CASE Link(c)
  <2>1. /\ pc'[c] = "listing" /\ UNCHANGED <<path, job>>
        /\ linked' = [project |-> IF job[c].project = New THEN c ELSE job[c].project,
                      service |-> None]
    BY <1>2 DEF TypeOK, Link
  <2>2. Placed(c)'
    BY <2>1 DEF Placed, Naming, Reading, Past, Ready, Tail, Retry
  <2>3. Supplied(c)' /\ Learnt(c)'
    BY <2>1 DEF Supplied, Learnt, Setting, Reading, Past, Ready, Tail, Retry
  <2> QED BY <2>2, <2>3 DEF Settled
<1>3. CASE List(c) /\ ToReuse(c) = {} /\ pc' = [pc EXCEPT ![c] = "creating"]
  <2>1. /\ pc[c] = "listing" /\ pc'[c] = "creating" /\ before'[c] = Listed
        /\ UNCHANGED <<path, job, linked, service>>
    BY <1>3 DEF TypeOK, List
  <2>2. path = "client" /\ job[c].force = "reuse" => Listed = {}
    BY <1>3 DEF ToReuse, Existing
  <2>3. Placed(c)'
    BY <2>1, <2>2 DEF Settled, Placed, Listed, Naming, Reading, Past, Ready, Tail, Retry
  <2>4. Supplied(c)' /\ Learnt(c)'
    BY <2>1 DEF Supplied, Learnt, Setting, Reading, Past, Ready, Tail, Retry
  <2> QED BY <2>3, <2>4 DEF Settled
<1>4. ASSUME List(c), NEW s \in ToReuse(c), target' = [target EXCEPT ![c] = s],
             pc' = [pc EXCEPT ![c] = IF path = "client" THEN "readingPassword" ELSE "routing"]
      PROVE  Settled(c)'
  <2>1. /\ pc[c] = "listing" /\ UNCHANGED <<path, job, linked, service>>
        /\ pc'[c] = IF path = "client" THEN "readingPassword" ELSE "routing"
    BY <1>4 DEF TypeOK, List
  <2>2. s \in Listed /\ s \in Call
    BY DEF ToReuse, Existing, Named, Listed
  <2>3. target'[c] = s /\ Listed' = Listed
    BY <1>4, <2>1, <2>2 DEF TypeOK, Listed
  <2>4. Placed(c)'
    BY <1>1, <2>1, <2>2, <2>3 DEF Settled, Placed, Naming
  <2>5. service'[c].at = None
    BY <1>1, <2>1 DEF NoService
  <2>6. Supplied(c)' /\ Learnt(c)'
    BY <1>1, <2>1, <2>5 DEF Supplied, Learnt, Setting, Reading, Past, Ready, Tail, Retry
  <2> QED BY <2>4, <2>6 DEF Settled
<1> QED BY <1>2, <1>3, <1>4 DEF List

\* A lone client has linked no service, so what it uploads becomes its own.
LEMMA SettledByCreating ==
  ASSUME TypeOK, FreshInv, NamesInv, TemplateInv, NEW c \in Call, Settled(c), Create(c)
  PROVE  /\ service' = [service EXCEPT ![c] = Created(c)]
         /\ Settled(c)'
<1> USE DEF Go, world, held, fixed
<1>1. /\ pc[c] = "creating" /\ path \in {"client", "template"}
      /\ UNCHANGED <<linked, path, job, target, before, cred>>
      /\ pc'[c] = IF path = "client" THEN "diffing" ELSE "polling"
  BY DEF TypeOK, Create
<1>2. service' = [service EXCEPT ![c] = Created(c)]
  <2>1. path = "client" => linked.service = None
    BY <1>1 DEF Settled, Placed
  <2> QED BY <1>1, <2>1 DEF Create
<1>3. /\ service[c] = NoService /\ cred[c] = Own(c) /\ target[c] = c
      /\ linked.project # None /\ linked.project \in Projects
  <2>1. linked.project # None /\ linked.project \in Projects
    BY ProvisioningAssumption DEF TypeOK, ProvisioningAssumption
  <2> QED BY <1>1, <2>1 DEF FreshInv, Fresh
<1>4. /\ service'[c] = Created(c)
      /\ \A s \in Call \ {c} : service'[s] = service[s]
      /\ Created(c).at = linked.project /\ service[c].at = None
  BY <1>2, <1>3 DEF TypeOK, Created, NoService
<1>5. Listed' = Listed \cup {c} /\ c \notin Listed
  BY <1>1, <1>3, <1>4 DEF Listed
<1>6. Placed(c)'
  <2>1. before[c] = Listed
    BY <1>1 DEF Settled, Placed
  <2>2. NewlyListed(c)' = {c}
    BY <1>1, <1>5, <2>1 DEF NewlyListed
  <2>3. path = "client" =>
          /\ linked.project = IF job[c].project = New THEN c ELSE job[c].project
          /\ linked.service = None
    BY <1>1 DEF Settled, Placed
  <2> QED BY <1>1, <1>3, <1>5, <2>2, <2>3 DEF Placed, Naming, Reading, Past, Ready, Tail, Retry
<1>7. Supplied(c)'
  <2>1. /\ Created(c).second = "none" /\ Created(c).image = NoEnv /\ Created(c).serving = NoEnv
        /\ Created(c).env = IF path = "client" THEN NoEnv ELSE FullEnv(c)
    BY DEF Created, NoService
  <2>2. CASE path = "client"
    BY <1>1, <1>3, <1>4, <2>1, <2>2 DEF Supplied, Unbuilt, Own, Setting, Reading, Past, Ready, Tail, Retry
  <2>3. CASE path = "template"
    BY <1>1, <1>3, <1>4, <2>1, <2>3
       DEF Supplied, Provisioned, Own, FullEnv, Setting, Reading, Past, Ready, Tail, Retry
  <2> QED BY <1>1, <2>2, <2>3
<1>8. Learnt(c)'
  BY <1>1 DEF Learnt, Past, Ready, Tail, Retry
<1> QED BY <1>2, <1>6, <1>7, <1>8 DEF Settled

\* The one new service is its own, and the link and the commands lead there.
LEMMA SettledByNaming ==
  ASSUME TypeOK, NamesInv, TemplateInv, NEW c \in Call, Settled(c), Diff(c) \/ LinkService(c)
  PROVE  Settled(c)'
<1> USE DEF Go, world, held, fixed
<1>1. path = "client"
  BY DEF TypeOK, TemplateInv, ClientOnly, Setting, Diff, LinkService
<1>2. CASE Diff(c)
  <2>1. /\ pc[c] = "diffing" /\ pc'[c] = "linkingService"
        /\ UNCHANGED <<path, job, linked, service, cred>>
    BY <1>2 DEF TypeOK, Diff
  <2>2. target'[c] = c /\ c \in Listed
    <3>1. NewlyListed(c) = {c} /\ c \in Listed
      BY <2>1 DEF Settled, Placed
    <3> QED BY <1>2, <3>1 DEF TypeOK, Diff
  <2>3. Listed' = Listed
    BY <2>1 DEF Listed
  <2>4. Placed(c)'
    BY <2>1, <2>2, <2>3 DEF Settled, Placed
  <2>5. Supplied(c)'
    BY <2>1 DEF Settled, Supplied, Unbuilt, Setting, Reading, Past, Ready, Tail, Retry
  <2>6. Learnt(c)'
    BY <2>1 DEF Learnt, Past, Ready, Tail, Retry
  <2> QED BY <2>4, <2>5, <2>6 DEF Settled
<1>3. CASE LinkService(c)
  <2>1. /\ pc[c] = "linkingService" /\ pc'[c] = "attaching"
        /\ UNCHANGED <<path, job, service, cred, target>>
    BY <1>3 DEF TypeOK, LinkService
  <2>2. target[c] = c /\ c \in Listed
    BY <2>1 DEF Settled, Placed, Naming
  <2>3. Addressed(c) = {c}
    BY <2>2, AddressedIsTarget
  <2>4. linked' = [linked EXCEPT !.service = c]
    BY <1>3, <2>3 DEF LinkService
  <2>5. linked'.project = linked.project /\ linked'.service = c
    BY <2>4 DEF TypeOK
  <2>6. Listed' = Listed
    BY <2>1, <2>5 DEF Listed
  <2>7. Placed(c)'
    BY <2>1, <2>2, <2>5, <2>6 DEF Settled, Placed
  <2>8. Supplied(c)'
    BY <2>1 DEF Settled, Supplied, Unbuilt, Setting, Reading, Past, Ready, Tail, Retry
  <2>9. Learnt(c)'
    BY <2>1 DEF Learnt, Past, Ready, Tail, Retry
  <2> QED BY <2>7, <2>8, <2>9 DEF Settled
<1> QED BY <1>2, <1>3

\* The volume, the variables and the deployment go to its own service, in order.
LEMMA SettledBySetting ==
  ASSUME TypeOK, NamesInv, TemplateInv, NEW c \in Call, Settled(c),
         AttachVolume(c) \/ WriteVariables(c) \/ Redeploy(c)
  PROVE  /\ \E one : service' = [service EXCEPT ![c] = one]
         /\ Settled(c)'
<1> USE DEF Go, world, held, fixed
<1>1. /\ pc[c] \in {"attaching", "settings", "password", "token", "redeploying"}
      /\ UNCHANGED <<path, job, linked, cred, target>>
  BY DEF AttachVolume, WriteVariables, Redeploy
<1>2. path = "client" /\ service[c] \in Service
  BY <1>1 DEF TypeOK, TemplateInv, ClientOnly, Setting
<1>3. /\ target[c] = c /\ c \in Listed
      /\ pc[c] = "attaching" => linked.service = c
      /\ linked.project = IF job[c].project = New THEN c ELSE job[c].project
  BY <1>1, <1>2 DEF Settled, Placed, Naming
<1>4. Addressed(c) = {c}
  BY <1>3, AddressedIsTarget
<1>5. cred[c] = Own(c) /\ Unbuilt(c)
  BY <1>1 DEF Settled, Supplied, Setting
<1> DEFINE With(one, step) == /\ service' = [service EXCEPT ![c] = one]
                              /\ one.at = service[c].at
                              /\ pc' = [pc EXCEPT ![c] = step]
<1>6. ASSUME NEW one, NEW step \in {"settings", "password", "token", "redeploying", "polling"},
             With(one, step)
      PROVE  Placed(c)' /\ Learnt(c)' /\ service'[c] = one /\ pc'[c] = step
  <2>1. pc'[c] = step /\ service'[c] = one /\ \A s \in Call \ {c} : service'[s] = service[s]
    BY <1>6 DEF TypeOK
  <2>2. Listed' = Listed
    BY <1>1, <1>6, <2>1 DEF Listed
  <2>3. Placed(c)'
    BY <1>1, <1>3, <2>1, <2>2 DEF Placed
  <2>4. Learnt(c)'
    BY <2>1 DEF Learnt, Past, Ready, Tail, Retry
  <2> QED BY <2>1, <2>3, <2>4
<1>7. ASSUME NEW one, NEW e, NEW step \in {"settings", "password", "token", "redeploying"},
             With(one, step), one.env = e,
             one.second = service[c].second, one.image = service[c].image,
             one.serving = service[c].serving,
             step = "settings" => e = NoEnv,
             step = "password" => e = [NoEnv EXCEPT !.settings = "set"],
             step = "token" => e = [settings |-> "set", password |-> c, token |-> None],
             step = "redeploying" => e = FullEnv(c)
      PROVE  Settled(c)'
  <2>1. Placed(c)' /\ Learnt(c)' /\ service'[c] = one /\ pc'[c] = step
    BY <1>6, <1>7
  <2>2. Unbuilt(c)' /\ cred'[c] = Own(c)
    BY <1>1, <1>5, <1>7, <2>1 DEF Unbuilt
  <2>3. Supplied(c)'
    BY <1>7, <2>1, <2>2 DEF Supplied, Own, Reading, Past, Ready, Tail, Retry
  <2> QED BY <2>1, <2>3 DEF Settled
<1>8. CASE AttachVolume(c)
  <2> DEFINE one == [service[c] EXCEPT !.volume = "attached"]
  <2>1. With(one, "settings")
    BY <1>2, <1>3, <1>8 DEF AttachVolume, Service
  <2>2. /\ one.env = service[c].env /\ one.second = service[c].second
        /\ one.image = service[c].image /\ one.serving = service[c].serving
    BY <1>2 DEF Service
  <2>3. service[c].env = NoEnv
    BY <1>8 DEF AttachVolume, Settled, Supplied
  <2> HIDE DEF one
  <2> QED BY <1>7, <2>1, <2>2, <2>3
<1>9. ASSUME NEW e, NEW step \in {"password", "token", "redeploying"},
             service' = [service EXCEPT ![c].env = e], pc' = [pc EXCEPT ![c] = step],
             step = "password" => e = [NoEnv EXCEPT !.settings = "set"],
             step = "token" => e = [settings |-> "set", password |-> c, token |-> None],
             step = "redeploying" => e = FullEnv(c)
      PROVE  Settled(c)' /\ \E one : service' = [service EXCEPT ![c] = one]
  <2> DEFINE one == [service[c] EXCEPT !.env = e]
  <2>1. service' = [service EXCEPT ![c] = one]
    BY <1>9 DEF TypeOK
  <2>2. /\ one.env = e /\ one.second = service[c].second /\ one.at = service[c].at
        /\ one.image = service[c].image /\ one.serving = service[c].serving
    BY <1>2 DEF Service
  <2> HIDE DEF one
  <2>3. With(one, step)
    BY <1>9, <2>1, <2>2
  <2> QED BY <1>7, <1>9, <2>1, <2>2, <2>3
<1>10. CASE WriteVariables(c)
  <2>1. CASE pc[c] = "settings"
    <3>1. service[c].env = NoEnv
      BY <2>1 DEF Settled, Supplied
    <3>2. /\ service' = [service EXCEPT ![c].env.settings = "set"]
          /\ pc' = [pc EXCEPT ![c] = "password"]
      BY <1>4, <1>10, <2>1 DEF WriteVariables
    <3>3. service' = [service EXCEPT ![c].env = [NoEnv EXCEPT !.settings = "set"]]
      BY <3>1, <3>2
    <3> QED BY <1>9, <3>2, <3>3
  <2>2. CASE pc[c] = "password"
    <3>1. service[c].env = [NoEnv EXCEPT !.settings = "set"]
      BY <2>2 DEF Settled, Supplied
    <3>2. /\ service' = [service EXCEPT ![c].env.password = cred[c].password]
          /\ pc' = [pc EXCEPT ![c] = "token"]
      BY <1>4, <1>10, <2>2 DEF WriteVariables
    <3>3. service[c].env = [settings |-> "set", password |-> None, token |-> None]
      BY <3>1 DEF NoEnv
    <3>4. [service[c].env EXCEPT !.password = c] = [settings |-> "set", password |-> c, token |-> None]
      BY <3>3
    <3>5. cred[c].password = c
      BY <1>5 DEF Own
    <3>6. service' = [service EXCEPT ![c].env = [settings |-> "set", password |-> c, token |-> None]]
      BY <3>2, <3>4, <3>5
    <3> QED BY <1>9, <3>2, <3>6
  <2>3. CASE pc[c] = "token"
    <3>1. service[c].env = [settings |-> "set", password |-> c, token |-> None]
      BY <2>3 DEF Settled, Supplied
    <3>2. /\ service' = [service EXCEPT ![c].env.token = cred[c].token]
          /\ pc' = [pc EXCEPT ![c] = "redeploying"]
      BY <1>4, <1>10, <2>3 DEF WriteVariables
    <3>3. [service[c].env EXCEPT !.token = c] = FullEnv(c)
      BY <3>1 DEF FullEnv
    <3>4. cred[c].token = c
      BY <1>5 DEF Own
    <3>5. service' = [service EXCEPT ![c].env = FullEnv(c)]
      BY <3>2, <3>3, <3>4
    <3> QED BY <1>9, <3>2, <3>5
  <2> QED BY <1>10, <2>1, <2>2, <2>3 DEF WriteVariables
<1>11. CASE Redeploy(c)
  <2>1. /\ service' = [service EXCEPT ![c] = Redeployed(service[c])]
        /\ pc' = [pc EXCEPT ![c] = "polling"]
    BY <1>4, <1>11 DEF TypeOK, Redeploy
  <2>2. /\ Redeployed(service[c]).at = service[c].at
        /\ Redeployed(service[c]).env = service[c].env
        /\ Redeployed(service[c]).image = service[c].env
        /\ Redeployed(service[c]).serving = service[c].serving
    BY <1>2 DEF Redeployed, Service
  <2>3. service[c].env = FullEnv(c) /\ service[c].serving = NoEnv
    BY <1>5, <1>11 DEF Redeploy, Settled, Supplied, Unbuilt
  <2>4. Placed(c)' /\ Learnt(c)' /\ service'[c] = Redeployed(service[c]) /\ pc'[c] = "polling"
    BY <1>6, <2>1, <2>2
  <2>5. FullEnv(c) # NoEnv
    BY DEF FullEnv, NoEnv
  <2>6. Provisioned(c)'
    BY <1>1, <1>2, <1>5, <2>2, <2>3, <2>4, <2>5 DEF Provisioned, Own, FullEnv
  <2>7. Supplied(c)'
    BY <2>4, <2>6 DEF Supplied, Setting, Reading
  <2> QED BY <2>1, <2>4, <2>7 DEF Settled
<1>12. AttachVolume(c) => \E one : service' = [service EXCEPT ![c] = one]
  BY <1>3 DEF AttachVolume
<1> QED BY <1>7, <1>8, <1>10, <1>11, <1>12

\* What it polls, reads back and routes is a service of the linked project; what
\* answers its password there has all of the variables.
LEMMA SettledByFinding ==
  ASSUME TypeOK, NamesInv, TemplateInv, NEW c \in Call, Settled(c),
         Poll(c) \/ ReadBack(c) \/ Route(c) \/ AwaitReady(c)
  PROVE  Settled(c)'
<1> USE DEF Go, world, held, fixed
<1>1. /\ pc[c] \in {"polling", "readingPassword", "readingToken", "routing", "awaiting"}
      /\ UNCHANGED <<path, job, linked>>
      /\ path \in {"client", "template"}
  BY DEF TypeOK, Poll, ReadBack, Route, AwaitReady
<1>2. /\ target[c] \in Listed
      /\ path = "client" => linked.project = IF job[c].project = New THEN c ELSE job[c].project
  BY <1>1 DEF Settled, Placed, Naming, Reading, Past
<1>3. /\ Addressed(c) = {target[c]} /\ target[c] \in Call
      /\ service[target[c]].at = linked.project /\ linked.project # None
  BY <1>2, AddressedIsTarget
<1>4. CASE Poll(c)
  <2>1. pc[c] = "polling" /\ pc'[c] = "routing" /\ UNCHANGED <<service, cred>>
    BY <1>4 DEF TypeOK, Poll
  <2>2. target[c] = c
    BY <2>1 DEF Settled, Placed, Naming
  <2>3. /\ target'[c] \in Listed
        /\ path = "client" => target'[c] = c
    BY <1>3, <1>4, <2>2 DEF TypeOK, Poll, Polled, Named, Listed
  <2>4. Listed' = Listed
    BY <1>1, <2>1 DEF Listed
  <2>5. Placed(c)'
    BY <1>1, <1>2, <2>1, <2>3, <2>4 DEF Placed, Naming
  <2>6. service[c].at # None => Provisioned(c)
    BY <2>1 DEF Settled, Supplied
  <2>7. Provisioned(c) <=> Provisioned(c)'
    BY <1>1, <2>1 DEF Provisioned
  <2>8. Supplied(c)'
    BY <2>1, <2>6, <2>7 DEF Supplied, Setting, Reading
  <2>9. path = "client" => cred[c] = [password |-> service[c].env.password,
                                      token    |-> service[c].env.token]
    BY <1>3, <2>2, <2>6 DEF Provisioned, Own, FullEnv
  <2>10. Learnt(c)'
    BY <1>1, <2>1, <2>3, <2>9 DEF Learnt, Ready, Tail, Retry
  <2> QED BY <2>5, <2>8, <2>10 DEF Settled
<1>5. CASE ReadBack(c)
  <2>1. UNCHANGED <<service, target>> /\ Listed' = Listed
        /\ pc[c] \in Reading /\ pc'[c] \in {"readingToken", "routing"}
    BY <1>1, <1>5 DEF TypeOK, ReadBack, Listed, Reading
  <2>2. Placed(c)'
    BY <1>1, <1>2, <2>1 DEF Placed, Naming
  <2>3. service'[c].at = None
    BY <2>1 DEF Settled, Supplied
  <2>4. Supplied(c)'
    BY <2>1, <2>3 DEF Supplied, Setting
  <2>5. cred[c] \in [password : Credentials \ {None}, token : Credentials \ {None}]
    BY DEF TypeOK
  <2> DEFINE env == service[target[c]].env
  <2>6. CASE pc[c] = "readingPassword"
    <3>1. cred' = [cred EXCEPT ![c].password = env.password] /\ pc'[c] = "readingToken"
      BY <1>3, <1>5, <2>6 DEF TypeOK, ReadBack
    <3>2. cred'[c].password = env.password
      BY <2>5, <3>1 DEF TypeOK
    <3> QED BY <2>1, <2>2, <2>4, <3>1, <3>2 DEF Settled, Learnt, Past, Ready, Tail, Retry
  <2>7. CASE pc[c] = "readingToken"
    <3>1. cred' = [cred EXCEPT ![c].token = env.token] /\ pc'[c] = "routing"
      BY <1>3, <1>5, <2>7 DEF TypeOK, ReadBack
    <3>2. cred[c].password = env.password
      BY <2>7 DEF Settled, Learnt
    <3>3. cred'[c] = [password |-> env.password, token |-> env.token]
      BY <2>5, <3>1, <3>2 DEF TypeOK
    <3>4. Learnt(c)'
      BY <2>1, <3>1, <3>3 DEF Learnt, Ready, Tail, Retry
    <3> QED BY <2>2, <2>4, <3>4 DEF Settled
  <2> QED BY <2>1, <2>6, <2>7 DEF Reading
<1>6. CASE Route(c)
  <2>1. pc[c] = "routing" /\ pc'[c] = "awaiting" /\ UNCHANGED cred
    BY <1>6 DEF TypeOK, Route
  <2> DEFINE t == target[c]
             one == [service[t] EXCEPT !.domain = "routed"]
  <2>2. /\ service' = [service EXCEPT ![t] = one]
        /\ target' = [target EXCEPT ![c] = t]
    BY <1>3, <1>6 DEF TypeOK, Route
  <2>3. /\ one.at = service[t].at /\ one.env = service[t].env /\ one.image = service[t].image
        /\ one.serving = service[t].serving /\ one.second = service[t].second
    BY <1>3 DEF TypeOK, Service
  <2>4. /\ target'[c] = target[c]
        /\ \A s \in Call : /\ service'[s].at = service[s].at /\ service'[s].env = service[s].env
                           /\ service'[s].image = service[s].image
                           /\ service'[s].serving = service[s].serving
                           /\ service'[s].second = service[s].second
    <3> HIDE DEF one
    <3> QED BY <1>3, <2>2, <2>3 DEF TypeOK
  <2>5. Listed' = Listed
    BY <1>1, <2>4 DEF Listed
  <2>6. Placed(c)'
    BY <1>1, <1>2, <2>1, <2>4, <2>5 DEF Placed, Naming
  <2>7. Provisioned(c) => Provisioned(c)'
    BY <1>1, <2>1, <2>4 DEF Provisioned
  <2>8. Supplied(c)'
    <3>1. service[c].at # None => Provisioned(c)
      BY <2>1 DEF Settled, Supplied, Past
    <3> QED BY <2>1, <2>4, <2>7, <3>1 DEF Supplied, Setting, Reading
  <2>9. Learnt(c)'
    BY <1>1, <1>3, <2>1, <2>4 DEF Settled, Learnt, Past, Ready, Tail, Retry
  <2> QED BY <2>6, <2>8, <2>9 DEF Settled
<1>7. CASE AwaitReady(c)
  <2>1. /\ pc[c] = "awaiting" /\ pc'[c] = "getting" /\ UNCHANGED <<service, cred, target>>
        /\ service[target[c]].serving.password = cred[c].password
    BY <1>7 DEF TypeOK, AwaitReady, Accepts
  <2>2. Listed' = Listed
    BY <1>1, <2>1 DEF Listed
  <2>3. Placed(c)'
    BY <1>1, <1>2, <2>1, <2>2 DEF Placed, Naming
  <2>4. service[c].at # None => Provisioned(c)
    BY <2>1 DEF Settled, Supplied, Past
  <2>5. Supplied(c)'
    <3>1. Provisioned(c) => Provisioned(c)'
      BY <1>1, <2>1 DEF Provisioned
    <3> QED BY <2>1, <2>4, <3>1 DEF Supplied, Setting, Reading
  <2>6. target[c] = c => service[c].serving = FullEnv(c)
    <3>1. None # c
      BY ProvisioningAssumption DEF ProvisioningAssumption
    <3> QED BY <1>3, <2>1, <2>4, <3>1 DEF Provisioned, Own, NoEnv, FullEnv
  <2>7. path = "template" => target[c] = c
    <3>1. path = "template" => /\ cred[c] = Own(c)
                               /\ service[target[c]].serving.password \in {target[c], Manual, None}
      BY <1>3 DEF TemplateInv
    <3>2. c # Manual /\ c # None
      BY ProvisioningAssumption DEF ProvisioningAssumption
    <3> QED BY <2>1, <3>1, <3>2 DEF Own
  <2>8. path = "client" => cred[c] = [password |-> service[target[c]].env.password,
                                      token    |-> service[target[c]].env.token]
    BY <2>1 DEF Settled, Learnt, Past
  <2>9. Learnt(c)'
    BY <1>1, <2>1, <2>6, <2>7, <2>8 DEF Learnt
  <2> QED BY <2>3, <2>5, <2>9 DEF Settled
<1> QED BY <1>4, <1>5, <1>6, <1>7

\* From its readiness check on, a call changes no service.
LEMMA SettledByFinishing ==
  ASSUME TypeOK, NEW c \in Call, Settled(c), Active(c)',
         \/ GetConfig(c) \/ PostConfig(c) \/ VerifyConfig(c) \/ Pair(c) \/ WriteEnvLocal(c)
         \/ WriteHandoff(c) \/ Apply(c) \/ Fail(c)
  PROVE  Settled(c)'
<1> USE DEF Go, world, held, fixed
<1>1. \A outcome \in {"done", "failed"} : ~End(c, outcome)
  BY DEF TypeOK, End, Active, Steps, Before, Tail, Retry
<1>2. /\ pc[c] \in Ready /\ pc'[c] \in Ready
      /\ UNCHANGED <<path, job, linked, service, target, cred>>
  BY <1>1 DEF TypeOK, GetConfig, PostConfig, VerifyConfig, Pair, WriteEnvLocal, WriteHandoff,
              Apply, Fail, At, Again, GoOn, Ready, Tail, Retry
<1>3. Listed' = Listed
  BY <1>2 DEF Listed
<1>4. /\ target[c] \in Listed
      /\ path = "client" => linked.project = IF job[c].project = New THEN c ELSE job[c].project
  BY <1>2 DEF Settled, Placed, Past, Ready, Tail, Retry
<1>5. Placed(c)'
  BY <1>2, <1>3, <1>4 DEF Placed, Naming, Ready, Tail, Retry
<1>6. Supplied(c)'
  <2>1. service[c].at # None => Provisioned(c)
    BY <1>2 DEF Settled, Supplied, Past
  <2>2. Provisioned(c) => Provisioned(c)'
    BY <1>2 DEF Provisioned
  <2> QED BY <1>2, <2>1, <2>2 DEF Supplied, Setting, Reading, Ready, Tail, Retry
<1>7. pc'[c] = "handing" => files'.envLocal = Result(c) /\ Result(c)' = Result(c)
  <2>1. pc'[c] = "handing" => WriteEnvLocal(c)
    BY <1>1 DEF TypeOK, GetConfig, PostConfig, VerifyConfig, Pair, WriteHandoff, Apply, Fail, GoOn,
                Again, At
  <2>2. WriteEnvLocal(c) => files'.envLocal = Result(c)
    BY DEF TypeOK, WriteEnvLocal
  <2> QED BY <1>2, <2>1, <2>2 DEF Result
<1>8. pc'[c] = "pairingAgain" =>
        "own" \in config'[target[c]].origins \/ config'[target[c]].mode = "absent"
  <2>1. pc'[c] = "pairingAgain" => GetConfig(c) \/ VerifyConfig(c)
    BY <1>1 DEF TypeOK, PostConfig, Pair, WriteEnvLocal, WriteHandoff, Apply, Fail, GoOn, Again, At
  <2>2. VerifyConfig(c) => "own" \in config'[target[c]].origins
    BY DEF VerifyConfig
  <2>3. GetConfig(c) /\ pc'[c] = "pairingAgain" =>
          "own" \in config'[target[c]].origins \/ config'[target[c]].mode = "absent"
    BY DEF TypeOK, GetConfig, GoOn, Again, LacksBaseline
  <2> QED BY <2>1, <2>2, <2>3
<1>9. Learnt(c)'
  <2>1. /\ path = "client" => cred[c] = [password |-> service[target[c]].env.password,
                                         token    |-> service[target[c]].env.token]
        /\ path = "template" => target[c] = c
        /\ target[c] = c => service[c].serving = FullEnv(c)
    BY <1>2 DEF Settled, Learnt, Past
  <2>2. pc'[c] # "readingToken"
    BY <1>2 DEF Ready, Tail, Retry
  <2> QED BY <1>2, <1>7, <1>8, <2>1, <2>2 DEF Learnt
<1> QED BY <1>5, <1>6, <1>9 DEF Settled

\* What the end of a deployment changes: its status, and what is served if it
\* succeeded.
LEMMA PlatformEffect ==
  ASSUME TypeOK, NEW s \in Call, FirstEnds(s) \/ SecondEnds(s) \/ Appears(s)
  PROVE  /\ UNCHANGED <<pc, linked, config, files, held, fixed>>
         /\ \A t \in Call : /\ service'[t].at = service[t].at /\ service'[t].env = service[t].env
                            /\ service'[t].image = service[t].image
         /\ \A t \in Call \ {s} : service'[t] = service[t]
         /\ \/ /\ service'[s].second = service[s].second
               /\ \/ service'[s].serving = service[s].serving
                  \/ /\ service[s].second # "SUCCESS"
                     /\ service'[s].serving = IF path = "client" THEN NoEnv ELSE FullEnv(s)
            \/ /\ service[s].second = "BUILDING"
               /\ \/ service'[s].serving = service[s].serving
                  \/ /\ service'[s].second = "SUCCESS"
                     /\ service'[s].serving = service[s].image
<1>1. service[s] \in Service
  BY DEF TypeOK
<1> DEFINE Same(one) == /\ one.at = service[s].at /\ one.env = service[s].env
                        /\ one.image = service[s].image
<1>2. ASSUME NEW one, Same(one), service' = [service EXCEPT ![s] = one],
             UNCHANGED <<pc, linked, config, files, held, fixed>>
      PROVE  /\ UNCHANGED <<pc, linked, config, files, held, fixed>>
             /\ \A t \in Call : /\ service'[t].at = service[t].at /\ service'[t].env = service[t].env
                                /\ service'[t].image = service[t].image
             /\ \A t \in Call \ {s} : service'[t] = service[t]
             /\ service'[s] = one
  BY <1>2 DEF TypeOK
<1>3. CASE FirstEnds(s)
  <2> DEFINE e == IF service[s].second = "SUCCESS" THEN service[s].serving
                  ELSE IF path = "client" THEN NoEnv ELSE FullEnv(s)
             bad  == [service[s] EXCEPT !.first = "FAILED"]
             good == [service[s] EXCEPT !.first = "SUCCESS", !.serving = e]
  <2>1. service' = [service EXCEPT ![s] = bad] \/ service' = [service EXCEPT ![s] = good]
    BY <1>3 DEF FirstEnds, TypeOK
  <2>2. /\ Same(bad) /\ bad.second = service[s].second /\ bad.serving = service[s].serving
    BY <1>1 DEF Service
  <2>3. /\ Same(good) /\ good.second = service[s].second /\ good.serving = e
    <3> HIDE DEF e
    <3> QED BY <1>1 DEF Service
  <2> HIDE DEF bad, good
  <2>4. UNCHANGED <<pc, linked, config, files, held, fixed>>
    BY <1>3 DEF FirstEnds
  <2> QED BY <1>2, <2>1, <2>2, <2>3, <2>4
<1>4. CASE SecondEnds(s)
  <2> DEFINE bad  == [service[s] EXCEPT !.second = "FAILED"]
             good == [service[s] EXCEPT !.second = "SUCCESS", !.serving = service[s].image]
  <2>1. service' = [service EXCEPT ![s] = bad] \/ service' = [service EXCEPT ![s] = good]
    BY <1>4 DEF SecondEnds, TypeOK
  <2>2. Same(bad) /\ bad.serving = service[s].serving
    BY <1>1 DEF Service
  <2>3. Same(good) /\ good.second = "SUCCESS" /\ good.serving = service[s].image
    BY <1>1 DEF Service
  <2> HIDE DEF bad, good
  <2>4. UNCHANGED <<pc, linked, config, files, held, fixed>> /\ service[s].second = "BUILDING"
    BY <1>4 DEF SecondEnds
  <2> QED BY <1>2, <2>1, <2>2, <2>3, <2>4
<1>5. CASE Appears(s)
  <2> DEFINE one == [service[s] EXCEPT !.shown = "second", !.first = "none"]
  <2>1. service' = [service EXCEPT ![s] = one]
    BY <1>5 DEF Appears, TypeOK
  <2>2. Same(one) /\ one.second = service[s].second /\ one.serving = service[s].serving
    BY <1>1 DEF Service
  <2> HIDE DEF one
  <2>3. UNCHANGED <<pc, linked, config, files, held, fixed>>
    BY <1>5 DEF Appears
  <2> QED BY <1>2, <2>1, <2>2, <2>3
<1> QED BY <1>3, <1>4, <1>5

\* Railway replaces what a call's service serves only by what was meant to follow.
LEMMA SettledByPlatform ==
  ASSUME TypeOK, TemplateInv, NEW c \in Call, Settled(c), Active(c),
         NEW s \in Call, FirstEnds(s) \/ SecondEnds(s) \/ Appears(s)
  PROVE  Settled(c)'
<1>1. /\ UNCHANGED <<pc, linked, config, files, target, before, cred, path, job>>
      /\ \A t \in Call : /\ service'[t].at = service[t].at /\ service'[t].env = service[t].env
                         /\ service'[t].image = service[t].image
      /\ path \in {"client", "template"} /\ target[c] \in Call
  BY PlatformEffect DEF TypeOK, held, fixed
<1> DEFINE one == service[c]
           new == service'[c]
<1>2. \/ new.second = one.second /\ new.serving = one.serving
      \/ /\ new.second = one.second /\ one.second # "SUCCESS"
         /\ new.serving = IF path = "client" THEN NoEnv ELSE FullEnv(c)
      \/ one.second = "BUILDING" /\ new.serving = one.serving
      \/ one.second = "BUILDING" /\ new.second = "SUCCESS" /\ new.serving = one.image
  BY PlatformEffect
<1>3. Listed' = Listed
  BY <1>1 DEF Listed
<1>4. Placed(c)'
  BY <1>1, <1>3 DEF Settled, Placed, NewlyListed
<1>5. Unbuilt(c) /\ path = "client" => Unbuilt(c)'
  BY <1>1, <1>2 DEF Unbuilt
<1>6. Provisioned(c) => Provisioned(c)'
  <2>1. FullEnv(c) # NoEnv
    BY DEF FullEnv, NoEnv
  <2> QED BY <1>1, <1>2, <2>1 DEF Provisioned
<1>7. pc[c] \in Setting => path = "client"
  BY <1>1 DEF TemplateInv, ClientOnly
<1>8. Supplied(c)'
  BY <1>1, <1>5, <1>6, <1>7 DEF Settled, Supplied
<1>9. pc[c] \in Ready /\ target[c] = c => service'[c].serving = FullEnv(c)
  <2>1. ASSUME pc[c] \in Ready, target[c] = c PROVE service'[c].serving = FullEnv(c)
    <3>1. service[c].serving = FullEnv(c) /\ c \in Listed
      BY <2>1 DEF Settled, Learnt, Placed, Past
    <3>2. service[c].at # None
      BY <3>1, ProvisioningAssumption DEF Listed, TypeOK, ProvisioningAssumption
    <3>3. Provisioned(c)
      BY <2>1, <3>2 DEF Settled, Supplied, Past
    <3> QED BY <1>1, <1>2, <3>1, <3>3 DEF Provisioned
  <2> QED BY <2>1
<1>10. Learnt(c)'
  BY <1>1, <1>9 DEF Settled, Learnt, Result
<1> QED BY <1>4, <1>8, <1>10 DEF Settled

\* No step of a call that is alone, or of Railway meanwhile, breaks what is said of it.
LEMMA AloneInductive ==
  ASSUME TypeOK, ConfigInv, FreshInv, NamesInv, TemplateInv, AloneInv, [Next]_vars
  PROVE  AloneInv'
<1> SUFFICES ASSUME NEW c \in Call, Active(c)', quiet'[c] = "quiet"
             PROVE  Settled(c)'
  BY DEF AloneInv
<1>1. CASE Provision(c) \/ Install(c)
  <2>1. PICK j \in Jobs, step \in {"linking", "listing"} :
          Begin(c, j, step) /\ (path = "client" => step = "linking")
    BY <1>1 DEF Provision, Install
  <2>2. pc'[c] = step /\ path' = path
    BY <2>1 DEF TypeOK, Begin, Go
  <2>3. Placed(c)'
    BY <2>1, <2>2 DEF Placed, Naming, Reading, Past, Ready, Tail, Retry
  <2>4. Supplied(c)' /\ Learnt(c)'
    BY <2>2 DEF Supplied, Learnt, Setting, Reading, Past, Ready, Tail, Retry
  <2> QED BY <2>3, <2>4 DEF Settled
<1>2. CASE Active(c) /\ quiet[c] = "quiet" /\ Step(c)
  <2>1. Settled(c)
    BY <1>2 DEF AloneInv
  <2>2. CASE Link(c) \/ List(c)
    BY <2>1, <2>2, SettledByChoosing
  <2>3. CASE Create(c)
    BY <2>1, <2>3, SettledByCreating
  <2>4. CASE Diff(c) \/ LinkService(c)
    BY <2>1, <2>4, SettledByNaming
  <2>5. CASE AttachVolume(c) \/ WriteVariables(c) \/ Redeploy(c)
    BY <2>1, <2>5, SettledBySetting
  <2>6. CASE Poll(c) \/ ReadBack(c) \/ Route(c) \/ AwaitReady(c)
    BY <2>1, <2>6, SettledByFinding
  <2>7. CASE \/ GetConfig(c) \/ PostConfig(c) \/ VerifyConfig(c) \/ Pair(c) \/ WriteEnvLocal(c)
             \/ WriteHandoff(c) \/ Apply(c) \/ Fail(c)
    BY <2>1, <2>7, SettledByFinishing
  <2> QED BY <1>2, <2>2, <2>3, <2>4, <2>5, <2>6, <2>7 DEF Step
<1>3. CASE /\ Active(c) /\ quiet[c] = "quiet"
           /\ \E s \in Call : FirstEnds(s) \/ SecondEnds(s) \/ Appears(s)
  BY <1>3, SettledByPlatform DEF AloneInv
<1>4. CASE Active(c) /\ quiet[c] = "quiet" /\ UNCHANGED vars
  <2>1. Settled(c)
    BY <1>4 DEF AloneInv
  <2>2. UNCHANGED <<pc, linked, service, config, files, target, before, cred, path, job>>
    BY <1>4 DEF vars, world, held, fixed
  <2>3. Placed(c)'
    BY <2>1, <2>2 DEF Settled, Placed, Listed, NewlyListed
  <2>4. Supplied(c)'
    BY <2>1, <2>2 DEF Settled, Supplied, Unbuilt, Provisioned
  <2>5. Learnt(c)'
    BY <2>1, <2>2 DEF Settled, Learnt, Result
  <2> QED BY <2>3, <2>4, <2>5 DEF Settled
<1> QED BY <1>1, <1>2, <1>3, <1>4, AloneStep

\* Before the first call there is nothing to say.
LEMMA InitAlone == Init => FreshInv /\ NamesInv /\ TemplateInv /\ AloneInv
<1> SUFFICES ASSUME Init PROVE FreshInv /\ NamesInv /\ TemplateInv /\ AloneInv
  OBVIOUS
<1>1. FreshInv
  BY DEF Init, FreshInv, Own
<1>2. NamesInv
  BY DEF Init, NamesInv, NoService
<1>3. TemplateInv
  BY DEF Init, TemplateInv, NoService, NoEnv, Own, ClientOnly, Setting, Reading
<1>4. AloneInv
  BY DEF Init, AloneInv, Active, Steps, Before, Tail, Retry
<1> QED BY <1>1, <1>2, <1>3, <1>4

\* The invariant that the properties of a call alone rest on.
LEMMA AloneHolds ==
  Spec => [](TypeOK /\ ConfigInv /\ FreshInv /\ NamesInv /\ TemplateInv /\ AloneInv)
<1>1. ASSUME TypeOK, ConfigInv, FreshInv, NamesInv, TemplateInv, AloneInv, [Next]_vars
      PROVE  FreshInv' /\ NamesInv' /\ TemplateInv' /\ AloneInv'
  BY <1>1, FreshInductive, NamesInductive, TemplateInductive, AloneInductive
<1> QED BY <1>1, InitAlone, ConfigHolds, PTL DEF Spec

\* A call that nobody overlapped, past the readiness check of a service it created,
\* is served by a deployment that has every variable: the one railway up made first
\* cannot answer its password.
THEOREM ReadyMeansProvisioned == Spec => []ReadyIsFullyProvisioned
<1>1. TypeOK /\ AloneInv => ReadyIsFullyProvisioned
  <2> SUFFICES ASSUME TypeOK, AloneInv, NEW c \in Call, pc[c] \in Tail \cup Retry, target[c] = c,
                      quiet[c] = "quiet"
               PROVE  service[c].serving = FullEnv(c)
    BY DEF ReadyIsFullyProvisioned
  <2>1. Active(c)
    BY DEF Active, Steps
  <2> QED BY <2>1 DEF AloneInv, Settled, Learnt, Ready
<1> QED BY <1>1, AloneHolds, PTL

\* A call moves by its own steps only.
LEMMA MovesItself ==
  ASSUME TypeOK, [Next]_vars, NEW c \in Call, pc[c] # pc'[c]
  PROVE  Provision(c) \/ Install(c) \/ (Step(c) /\ Active(c))
<1>1. ASSUME NEW d \in Call, Provision(d) \/ Install(d) PROVE d = c
  BY <1>1 DEF TypeOK, Provision, Install, Begin, Go
<1>2. ASSUME NEW d \in Call, Step(d) PROVE d = c /\ Active(c)
  BY <1>2, CallStep
<1>3. ASSUME NEW s \in Call, FirstEnds(s) \/ SecondEnds(s) \/ Appears(s) \/ Meddle(s)
      PROVE  pc' = pc
  BY <1>3 DEF FirstEnds, SecondEnds, Appears, Meddle
<1>4. CASE UNCHANGED vars
  BY <1>4 DEF vars
<1> QED BY <1>1, <1>2, <1>3, <1>4 DEF Next

\* The steps of a call that change no service.
LEMMA LeavesServices ==
  ASSUME NEW c \in Call, Provision(c) \/ Install(c) \/ Step(c)
  PROVE  \/ UNCHANGED service
         \/ Create(c) \/ AttachVolume(c) \/ WriteVariables(c) \/ Redeploy(c) \/ Route(c)
BY DEF Step, Provision, Install, Begin, Link, List, Diff, LinkService, Poll, ReadBack, AwaitReady,
       GetConfig, PostConfig, VerifyConfig, Pair, WriteEnvLocal, WriteHandoff, Apply, Fail, world

\* A lone call touches the service it created and the domain of the one it works on,
\* and nothing else: a command that names its service reaches that one only.
THEOREM LoneCallsTouchTheirOwn == Spec => AloneTouchesItsOwn
<1> DEFINE Touched(c, s) == IF s = target[c]
                            THEN [service[s] EXCEPT !.domain = service'[s].domain]
                            ELSE service[s]
           Kept == \A c \in Call : pc[c] # pc'[c] /\ quiet[c] = "quiet" =>
                     \A s \in Call \ {c} : service'[s] = Touched(c, s)
<1>1. ASSUME TypeOK, FreshInv, NamesInv, TemplateInv, AloneInv, [Next]_vars PROVE Kept
  <2> SUFFICES ASSUME NEW c \in Call, pc[c] # pc'[c], quiet[c] = "quiet", NEW s \in Call \ {c}
               PROVE  service'[s] = Touched(c, s)
    OBVIOUS
  <2>1. service[s] \in Service
    BY <1>1 DEF TypeOK
  <2>2. ASSUME service'[s] = service[s] PROVE service'[s] = Touched(c, s)
    BY <2>1, <2>2 DEF Service
  <2>3. Provision(c) \/ Install(c) \/ (Step(c) /\ Active(c))
    BY <1>1, MovesItself
  <2>4. ASSUME Create(c) \/ AttachVolume(c) \/ WriteVariables(c) \/ Redeploy(c)
        PROVE  service'[s] = service[s]
    <3>1. Settled(c)
      BY <1>1, <2>4 DEF AloneInv, Create, AttachVolume, WriteVariables, Redeploy, Active, Steps, Before
    <3>2. \E one : service' = [service EXCEPT ![c] = one]
      BY <1>1, <2>4, <3>1, SettledByCreating, SettledBySetting
    <3> QED BY <1>1, <3>2 DEF TypeOK
  <2>5. ASSUME Route(c) PROVE service'[s] = Touched(c, s)
    <3>1. target[c] \in Listed
      BY <1>1, <2>5 DEF AloneInv, Settled, Placed, Past, Route, Active, Steps, Before
    <3>2. Addressed(c) = {target[c]} /\ target[c] \in Call
      BY <1>1, <3>1, AddressedIsTarget
    <3>3. service' = [service EXCEPT ![target[c]] = [service[target[c]] EXCEPT !.domain = "routed"]]
      BY <2>5, <3>2 DEF Route
    <3>4. CASE target[c] # s
      BY <1>1, <2>2, <3>2, <3>3, <3>4 DEF TypeOK
    <3>5. CASE target[c] = s
      <4>1. service'[s] = [service[s] EXCEPT !.domain = "routed"]
        BY <1>1, <3>3, <3>5 DEF TypeOK
      <4>2. service'[s].domain = "routed"
        BY <2>1, <4>1 DEF Service
      <4> QED BY <3>5, <4>1, <4>2
    <3> QED BY <3>4, <3>5
  <2> QED BY <2>2, <2>3, <2>4, <2>5, LeavesServices
<1>2. Spec => [][Kept]_vars
  BY <1>1, AloneHolds, PTL DEF Spec
<1> QED BY <1>2 DEF AloneTouchesItsOwn

\* Only Create adds a service, and a client's call that is alone and may reuse one
\* gets there only if its project is empty.
THEOREM LoneCallsNeverDuplicate == Spec => AloneNeverDuplicates
<1> DEFINE Kept == \A c \in Call :
                     /\ pc[c] # pc'[c] /\ quiet[c] = "quiet" /\ path = "client"
                     /\ job[c].force = "reuse" /\ service'[c].at # service[c].at
                     => \A s \in Call : service[s].at # service'[c].at
<1>1. ASSUME TypeOK, FreshInv, NamesInv, TemplateInv, AloneInv, [Next]_vars PROVE Kept
  <2> SUFFICES ASSUME NEW c \in Call, pc[c] # pc'[c], quiet[c] = "quiet", path = "client",
                      job[c].force = "reuse", service'[c].at # service[c].at
               PROVE  \A s \in Call : service[s].at # service'[c].at
    OBVIOUS
  <2>1. PICK d \in Call : Create(d) /\ service' = [service EXCEPT ![d] = Created(d)]
    BY <1>1, OneService
  <2>2. d = c
    BY <1>1, <2>1 DEF TypeOK
  <2>3. pc[c] = "creating" /\ Active(c)
    BY <2>1, <2>2 DEF Create, Active, Steps, Before
  <2>4. Listed = {}
    BY <1>1, <2>3 DEF AloneInv, Settled, Placed
  <2>5. service'[c].at = linked.project
    BY <1>1, <2>1, <2>2 DEF TypeOK, Created, NoService
  <2> QED BY <2>4, <2>5 DEF Listed
<1>2. Spec => [][Kept]_vars
  BY <1>1, AloneHolds, PTL DEF Spec
<1> QED BY <1>2 DEF AloneNeverDuplicates

\* What a lone call hands off is what the variables of the project's service hold,
\* and what the process of a service it created was started with.
THEOREM LoneHandoffsAreStored == Spec => HandedOffIsStored
<1> DEFINE Kept == \A c \in Call :
                     /\ pc[c] = "handing" /\ pc'[c] \in {"applying", "done"} /\ quiet[c] = "quiet"
                     => LET s == service[target[c]] IN
                          /\ files'.envLocal = files'.handoff
                          /\ path = "client" =>
                               /\ s.at = IF job[c].project = New THEN c ELSE job[c].project
                               /\ files'.handoff.token = s.env.token
                          /\ files'.handoff.password = s.env.password
                          /\ target[c] = c =>
                               /\ s.serving.password = files'.handoff.password
                               /\ path = "client" => s.serving.token = files'.handoff.token
<1>1. ASSUME TypeOK, AloneInv, [Next]_vars PROVE Kept
  <2> SUFFICES ASSUME NEW c \in Call, pc[c] = "handing", pc'[c] \in {"applying", "done"},
                      quiet[c] = "quiet"
               PROVE  /\ files'.envLocal = files'.handoff
                      /\ path = "client" =>
                           /\ service[target[c]].at =
                                IF job[c].project = New THEN c ELSE job[c].project
                           /\ files'.handoff.token = service[target[c]].env.token
                      /\ files'.handoff.password = service[target[c]].env.password
                      /\ target[c] = c =>
                           /\ service[c].serving.password = files'.handoff.password
                           /\ path = "client" => service[c].serving.token = files'.handoff.token
    OBVIOUS
  <2>1. Settled(c)
    BY <1>1 DEF AloneInv, Active, Steps, Tail
  <2>2. WriteHandoff(c)
    <3>1. Step(c)
      BY <1>1, MovesItself DEF Provision, Install, Begin
    <3> QED BY <1>1, <3>1 DEF Step, Link, List, Create, Diff, LinkService, AttachVolume,
               WriteVariables, Redeploy, Poll, ReadBack, Route, AwaitReady, GetConfig, PostConfig,
               VerifyConfig, Pair, WriteEnvLocal, Apply, Fail, At, Again, End, Go, TypeOK
  <2>3. files'.handoff = Result(c) /\ files'.envLocal = Result(c)
    BY <1>1, <2>1, <2>2 DEF WriteHandoff, Settled, Learnt, TypeOK
  <2>4. target[c] \in Listed
    BY <2>1 DEF Settled, Placed, Past, Ready, Tail
  <2>5. ASSUME path = "client"
        PROVE  /\ service[target[c]].at = IF job[c].project = New THEN c ELSE job[c].project
               /\ files'.handoff.token = service[target[c]].env.token
               /\ files'.handoff.password = service[target[c]].env.password
    <3>1. cred[c] = [password |-> service[target[c]].env.password,
                     token    |-> service[target[c]].env.token]
      BY <2>1, <2>5 DEF Settled, Learnt, Past, Ready, Tail
    <3>2. linked.project = IF job[c].project = New THEN c ELSE job[c].project
      BY <2>1, <2>5 DEF Settled, Placed
    <3> QED BY <2>3, <2>4, <2>5, <3>1, <3>2 DEF Result, Listed
  <2>6. ASSUME path = "template"
        PROVE  files'.handoff.password = service[target[c]].env.password
    <3>1. target[c] = c
      BY <2>1, <2>6 DEF Settled, Learnt, Ready, Tail
    <3>2. service[c].at # None
      BY <1>1, <2>4, <3>1, ProvisioningAssumption DEF Listed, TypeOK, ProvisioningAssumption
    <3>3. Provisioned(c)
      BY <2>1, <3>2 DEF Settled, Supplied, Past, Ready, Tail
    <3> QED BY <2>3, <2>6, <3>1, <3>3 DEF Result, Provisioned, Own, FullEnv
  <2>7. ASSUME target[c] = c
        PROVE  /\ service[c].serving.password = files'.handoff.password
               /\ path = "client" => service[c].serving.token = files'.handoff.token
    <3>1. service[c].serving = FullEnv(c)
      BY <2>1, <2>7 DEF Settled, Learnt, Ready, Tail
    <3>2. service[c].at # None
      BY <1>1, <2>4, <2>7, ProvisioningAssumption DEF Listed, TypeOK, ProvisioningAssumption
    <3>3. cred[c] = Own(c)
      BY <2>1, <3>2 DEF Settled, Supplied, Provisioned, Past, Ready, Tail
    <3> QED BY <2>3, <3>1, <3>3 DEF Result, Own, FullEnv
  <2>8. service' = service
    BY <2>2 DEF WriteHandoff
  <2>9. CASE path = "client"
    BY <1>1, <2>3, <2>5, <2>7, <2>9 DEF TypeOK
  <2>10. CASE path = "template"
    BY <1>1, <2>3, <2>6, <2>7, <2>10 DEF TypeOK
  <2> QED BY <1>1, <2>9, <2>10 DEF TypeOK
<1>2. Spec => [][Kept]_vars
  BY <1>1, AloneHolds, PTL DEF Spec
<1> QED BY <1>2 DEF HandedOffIsStored

\* A bootstrap ends with its origin allowed or no baseline to add it to.
THEOREM LoneBootstrapsAllowTheirOrigin == Spec => BootstrapAllowsItsOrigin
<1> DEFINE Kept == \A c \in Call :
                     /\ pc[c] # pc'[c] /\ pc'[c] = "done" /\ quiet[c] = "quiet"
                     /\ pc[c] \in Retry /\ config'[target[c]].mode = "set"
                     => "own" \in config'[target[c]].origins
<1>1. ASSUME TypeOK, AloneInv, [Next]_vars PROVE Kept
  <2> SUFFICES ASSUME NEW c \in Call, pc[c] # pc'[c], pc'[c] = "done", quiet[c] = "quiet",
                      pc[c] \in Retry, config'[target[c]].mode = "set"
               PROVE  "own" \in config'[target[c]].origins
    OBVIOUS
  <2>1. Settled(c)
    BY <1>1 DEF AloneInv, Active, Steps
  <2>2. Pair(c) /\ pc[c] = "pairingAgain"
    <3>1. Step(c)
      BY <1>1, MovesItself DEF Provision, Install, Begin, Retry
    <3> QED BY <1>1, <3>1 DEF Step, Link, List, Create, Diff, LinkService, AttachVolume,
               WriteVariables, Redeploy, Poll, ReadBack, Route, AwaitReady, GetConfig, PostConfig,
               VerifyConfig, Pair, WriteEnvLocal, WriteHandoff, Apply, Fail, At, Again, End, Go,
               GoOn, TypeOK, Retry
  <2>3. config' = config
    BY <2>2 DEF Pair, world
  <2> QED BY <2>1, <2>2, <2>3 DEF Settled, Learnt
<1>2. Spec => [][Kept]_vars
  BY <1>1, AloneHolds, PTL DEF Spec
<1> QED BY <1>2 DEF BootstrapAllowsItsOrigin
=============================================================================
