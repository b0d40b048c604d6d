------------------------- MODULE GatewayControlProofs -------------------------
(***************************************************************************)
(* Theorems about GatewayControl for any number of requests and processes. *)
(* All of them hold beside the unpatched stop sites, whose damage is       *)
(* confined to the processes those let go of.  The last part is about the *)
(* composition Wrapper, whose setupPc is the pc of this module.            *)
(***************************************************************************)
EXTENDS GatewayControl, TLAPS

USE NoneAssumption DEF Jobs, Named

\* The wrapper boots well-typed.
LEMMA InitTypeOK == Init => TypeOK
BY DEF Init, TypeOK, Waiting

\* Every step keeps the declared shape.
LEMMA NextTypeOK == ASSUME TypeOK, [Next]_vars PROVE TypeOK'
<1>1. ASSUME NEW t \in Task, NEW j \in Jobs, Begin(t, j) PROVE TypeOK'
  BY <1>1 DEF Begin, StopOrContinue, Continue, TypeOK, Waiting
<1>2. ASSUME NEW t \in Task, BeginFlatStop(t) PROVE TypeOK'
  BY <1>2 DEF BeginFlatStop, TypeOK, Waiting
<1>3. ASSUME NEW t \in Task, TermTimeout(t) PROVE TypeOK'
  BY <1>3 DEF TermTimeout, TypeOK, Waiting
<1>4. ASSUME NEW t \in Task, KillTimeout(t) \/ RestoreFails(t) PROVE TypeOK'
  BY <1>4 DEF KillTimeout, RestoreFails, End, TypeOK, Waiting
<1>5. ASSUME NEW t \in Task, RestoreDone(t) PROVE TypeOK'
  BY <1>5 DEF RestoreDone, StopOrContinue, Continue, TypeOK, Waiting
<1>6. ASSUME NEW t \in Task, Ensure(t) PROVE TypeOK'
  BY <1>6 DEF Ensure, Unused, End, TypeOK, Waiting
<1>7. ASSUME NEW t \in Task, FlatStopElapsed(t) PROVE TypeOK'
  BY <1>7 DEF FlatStopElapsed, End, TypeOK, Waiting
<1>8. ASSUME NEW p \in Proc, Exit(p) PROVE TypeOK'
  BY <1>8 DEF Exit, Continue, TypeOK, Waiting
<1>9. CASE UNCHANGED vars
  BY <1>9 DEF vars, TypeOK, Waiting
<1> QED
  BY <1>1, <1>2, <1>3, <1>4, <1>5, <1>6, <1>7, <1>8, <1>9 DEF Next, Step

\* Every reachable state has the declared shape, and a handler that waits for
\* an exit waits for a process it did capture.
THEOREM TypeCorrect == Spec => []TypeOK
<1> QED
  BY InitTypeOK, NextTypeOK, PTL DEF Spec

-----------------------------------------------------------------------------
\* No step lets a handler go on while the process it captured lives: only that
\* process's exit, or there being none, moves a stop on.
LEMMA NextConfirmed ==
  ASSUME TypeOK, StopIsConfirmed, [Next]_vars PROVE StopIsConfirmed'
<1>1. ASSUME NEW t \in Task, NEW j \in Jobs, Begin(t, j) PROVE StopIsConfirmed'
  BY <1>1 DEF Begin, StopOrContinue, Continue, TypeOK, StopIsConfirmed
<1>2. ASSUME NEW t \in Task, BeginFlatStop(t) PROVE StopIsConfirmed'
  BY <1>2 DEF BeginFlatStop, TypeOK, StopIsConfirmed
<1>3. ASSUME NEW t \in Task, TermTimeout(t) PROVE StopIsConfirmed'
  BY <1>3 DEF TermTimeout, TypeOK, StopIsConfirmed
<1>4. ASSUME NEW t \in Task, KillTimeout(t) \/ RestoreFails(t) \/ FlatStopElapsed(t)
      PROVE  StopIsConfirmed'
  BY <1>4 DEF KillTimeout, RestoreFails, FlatStopElapsed, End, TypeOK, StopIsConfirmed
<1>5. ASSUME NEW t \in Task, RestoreDone(t) PROVE StopIsConfirmed'
  BY <1>5 DEF RestoreDone, StopOrContinue, Continue, TypeOK, StopIsConfirmed
<1>6. ASSUME NEW t \in Task, Ensure(t) PROVE StopIsConfirmed'
  BY <1>6 DEF Ensure, Unused, End, TypeOK, StopIsConfirmed
<1>7. ASSUME NEW p \in Proc, Exit(p) PROVE StopIsConfirmed'
  BY <1>7 DEF Exit, Waiting, TypeOK, StopIsConfirmed
<1>8. CASE UNCHANGED vars
  BY <1>8 DEF vars, StopIsConfirmed
<1> QED
  BY <1>1, <1>2, <1>3, <1>4, <1>5, <1>6, <1>7, <1>8 DEF Next, Step

\* A restart or an import that goes on to start a gateway has seen the process
\* it signalled exit, whatever else stops gateways at the same time.
THEOREM StopsAreConfirmed == Spec => []StopIsConfirmed
<1>1. Init => StopIsConfirmed
  BY DEF Init, StopIsConfirmed
<1> QED
  BY <1>1, InitTypeOK, NextTypeOK, NextConfirmed, PTL DEF Spec

-----------------------------------------------------------------------------
\* No step makes the variable and the processes disagree, but for strays.
LEMMA NextTracked ==
  ASSUME TypeOK, TrackedGateway, [Next]_vars PROVE TrackedGateway'
<1> USE DEF TypeOK, TrackedGateway
<1>1. ASSUME NEW t \in Task, NEW j \in Jobs, Begin(t, j) PROVE TrackedGateway'
  BY <1>1 DEF Begin, StopOrContinue
<1>2. ASSUME NEW t \in Task, BeginFlatStop(t) \/ TermTimeout(t) PROVE TrackedGateway'
  BY <1>2 DEF BeginFlatStop, TermTimeout
<1>3. ASSUME NEW t \in Task, KillTimeout(t) \/ RestoreFails(t) \/ RestoreDone(t)
      PROVE  TrackedGateway'
  BY <1>3 DEF KillTimeout, RestoreFails, RestoreDone, StopOrContinue
<1>4. ASSUME NEW t \in Task, FlatStopElapsed(t) PROVE TrackedGateway'
  BY <1>4 DEF FlatStopElapsed
<1>5. ASSUME NEW t \in Task, Ensure(t) PROVE TrackedGateway'
  BY <1>5 DEF Ensure, Unused
<1>6. ASSUME NEW p \in Proc, Exit(p) PROVE TrackedGateway'
  <2>1. CASE p \in strayed
    BY <1>6, <2>1 DEF Exit
  <2>2. CASE p \notin strayed
    <3>1. Named = {p} /\ alive \ strayed = {p}
      BY <1>6, <2>2 DEF Exit
    <3> QED
      BY <1>6, <2>2, <3>1 DEF Exit
  <2> QED
    BY <2>1, <2>2
<1>7. CASE UNCHANGED vars
  BY <1>7 DEF vars
<1> QED
  BY <1>1, <1>2, <1>3, <1>4, <1>5, <1>6, <1>7 DEF Next, Step

\* At boot the one gateway is the one the variable names.
LEMMA InitTracked == Init => TrackedGateway
BY DEF Init, TrackedGateway

\* The wrapper never loses a gateway process but to an unpatched stop: its
\* variable names the one that runs, and restarts never start a second.
THEOREM GatewayIsTracked == Spec => []TrackedGateway
<1> QED
  BY InitTypeOK, NextTypeOK, InitTracked, NextTracked, PTL DEF Spec

\* The step into a restore leaves no process alive but strays.
LEMMA RestoreStep ==
  ASSUME TypeOK, TrackedGateway, [Next]_vars, NEW t \in Task,
         pc[t] # "restoring", pc'[t] = "restoring"
  PROVE  alive' \subseteq strayed'
<1>1. ASSUME NEW u \in Task, NEW j \in Jobs, Begin(u, j) PROVE alive' \subseteq strayed'
  BY <1>1 DEF Begin, StopOrContinue, Continue, TypeOK, TrackedGateway
<1>2. ASSUME NEW u \in Task, BeginFlatStop(u) PROVE FALSE
  BY <1>2 DEF BeginFlatStop, TypeOK
<1>3. ASSUME NEW u \in Task, Step(u) PROVE FALSE
  BY <1>3 DEF Step, TermTimeout, KillTimeout, RestoreDone, RestoreFails, Ensure,
              FlatStopElapsed, StopOrContinue, Continue, End, TypeOK
<1>4. ASSUME NEW p \in Proc, Exit(p) PROVE alive' \subseteq strayed'
  <2>1. TrackedGateway'
    BY NextTracked
  <2> QED
    BY <1>4, <2>1 DEF Exit, TrackedGateway
<1>5. ~UNCHANGED vars
  BY DEF vars
<1> QED
  BY <1>1, <1>2, <1>3, <1>4, <1>5 DEF Next

\* An import's restore begins with every gateway process dead, unless an
\* unpatched stop let one go before.
THEOREM RestoresBeginStopped == Spec => RestoreBeginsStopped
<1>1. ASSUME TypeOK, TrackedGateway, [Next]_vars
      PROVE  [\A t \in Task : pc[t] # "restoring" /\ pc'[t] = "restoring"
                                => alive' \subseteq strayed']_vars
  BY <1>1, RestoreStep
<1> QED
  BY <1>1, InitTypeOK, NextTypeOK, InitTracked, NextTracked, PTL
     DEF Spec, RestoreBeginsStopped
-----------------------------------------------------------------------------
(* The whole wrapper process: the webhook route beside the gateway above.  *)

CONSTANTS
  Missing, Malformed, NotAnArray, Unclean, BadPattern,
  Request, Delivery, Payload, Secret, Config, MaxBoots

VARIABLES
  env, boots, routePc, delivery, signedWith, dedupStore, wire, answer, replayed,
  turns, confirmed, excused, joined

W == INSTANCE Wrapper WITH pc <- routePc, setupPc <- pc

\* The gateway in the composition is the gateway alone.
LEMMA SameGateway ==
  /\ W!G!Init <=> Init
  /\ W!G!Next <=> Next
BY DEF W!G!Init, Init, W!G!Next, Next, W!G!Begin, Begin, W!G!StopOrContinue,
       StopOrContinue, W!G!Continue, Continue, W!G!BeginFlatStop, BeginFlatStop,
       W!G!Step, Step, W!G!TermTimeout, TermTimeout, W!G!KillTimeout, KillTimeout,
       W!G!RestoreDone, RestoreDone, W!G!RestoreFails, RestoreFails, W!G!End, End,
       W!G!Ensure, Ensure, W!G!Unused, Unused, W!G!FlatStopElapsed, FlatStopElapsed,
       W!G!Named, W!G!Exit, Exit, W!G!Waiting, Waiting, W!G!Jobs,
       W!G!Cardinality, Cardinality, W!G!IsFiniteSet, IsFiniteSet

\* What the route does leaves the gateway alone.
LEMMA RouteLeavesGateway ==
  ASSUME W!RouteStep \/ (\E m \in wire : W!Accept(m) \/ W!ComesToNothing(m))
                     \/ W!CacheExpires
  PROVE  UNCHANGED <<vars, joined>>
BY DEF W!RouteStep, W!Accept, W!ComesToNothing, W!CacheExpires, W!setup, vars

\* A reboot leaves a gateway that the variable names, and no request.
LEMMA RebootResets ==
  ASSUME W!Reboot
  PROVE  TypeOK' /\ TrackedGateway' /\ StopIsConfirmed' /\ W!Restoring' = {}
BY DEF W!Reboot, TypeOK, TrackedGateway, StopIsConfirmed, Waiting, W!Restoring

\* The gateway's invariants, and that a restore sees no process but those that
\* outlived an unpatched stop and those another request started meanwhile.
RestoreInv == W!Restoring # {} => alive \subseteq strayed \cup joined

WrapperInv == TypeOK /\ TrackedGateway /\ StopIsConfirmed /\ RestoreInv

LEMMA InitWrapperInv == W!Init => WrapperInv
<1> SUFFICES ASSUME W!Init PROVE WrapperInv
  OBVIOUS
<1>1. Init
  BY SameGateway DEF W!Init
<1>2. TypeOK /\ TrackedGateway
  BY <1>1, InitTypeOK, InitTracked
<1>3. StopIsConfirmed /\ RestoreInv
  BY <1>1 DEF Init, StopIsConfirmed, RestoreInv, W!Restoring
<1> QED
  BY <1>2, <1>3 DEF WrapperInv

\* A stray stays one while it lives.
LEMMA StraysStay ==
  ASSUME TypeOK, Next, NEW p \in strayed, p \in alive' PROVE p \in strayed'
<1>1. ASSUME NEW t \in Task, NEW j \in Jobs, Begin(t, j) PROVE p \in strayed'
  BY <1>1 DEF Begin, StopOrContinue
<1>2. ASSUME NEW t \in Task, BeginFlatStop(t) \/ Step(t) PROVE p \in strayed'
  BY <1>2 DEF BeginFlatStop, Step, TermTimeout, KillTimeout, RestoreDone, RestoreFails,
              Ensure, FlatStopElapsed, StopOrContinue
<1>3. ASSUME NEW q \in Proc, Exit(q) PROVE p \in strayed'
  BY <1>3 DEF Exit
<1> QED
  BY <1>1, <1>2, <1>3 DEF Next

\* A step of a setup request keeps the restore's invariant: the step into the
\* restore finds strays only, and what starts later has joined.
LEMMA SetupKeepsRestore ==
  ASSUME TypeOK, TrackedGateway, RestoreInv, W!SetupStep PROVE RestoreInv'
<1>1. Next
  BY SameGateway DEF W!SetupStep
<1> SUFFICES ASSUME W!Restoring' # {}, NEW p \in alive' PROVE p \in strayed' \cup joined'
  BY DEF RestoreInv
<1>2. CASE W!Restoring = {}
  <2>1. PICK t \in Task : pc'[t] = "restoring"
    BY DEF W!Restoring
  <2>2. pc[t] # "restoring"
    BY <1>2 DEF W!Restoring
  <2> QED
    BY <1>1, <2>1, <2>2, RestoreStep
<1>3. CASE W!Restoring # {}
  <2>1. joined' = (joined \cup (alive' \ alive)) \cap alive'
    BY <1>3 DEF W!SetupStep
  <2>2. CASE p \notin alive
    BY <2>1, <2>2
  <2>3. CASE p \in strayed
    BY <1>1, <2>3, StraysStay
  <2>4. CASE p \in joined
    BY <2>1, <2>4
  <2> QED
    BY <1>3, <2>2, <2>3, <2>4 DEF RestoreInv
<1> QED
  BY <1>2, <1>3

LEMMA NextWrapperInv == ASSUME WrapperInv, [W!Next]_(W!vars) PROVE WrapperInv'
<1> USE DEF WrapperInv
<1>1. CASE W!SetupStep
  <2>1. Next
    BY <1>1, SameGateway DEF W!SetupStep
  <2>2. TypeOK' /\ TrackedGateway' /\ StopIsConfirmed'
    BY <2>1, NextTypeOK, NextTracked, NextConfirmed
  <2> QED
    BY <1>1, <2>2, SetupKeepsRestore
<1>2. CASE W!Reboot
  BY <1>2, RebootResets DEF RestoreInv
<1>3. CASE UNCHANGED <<vars, joined>>
  <2>1. TypeOK' /\ TrackedGateway' /\ StopIsConfirmed'
    BY <1>3, NextTypeOK, NextTracked, NextConfirmed DEF vars
  <2> QED
    BY <1>3, <2>1 DEF vars, RestoreInv, W!Restoring
<1>4. CASE UNCHANGED W!vars
  BY <1>3, <1>4 DEF W!vars, W!setup, vars
<1> QED
  BY <1>1, <1>2, <1>3, <1>4, RouteLeavesGateway DEF W!Next

LEMMA WrapperInvHolds == W!Spec => []WrapperInv
BY InitWrapperInv, NextWrapperInv, PTL DEF W!Spec

\* A container that restarts at any moment, in the middle of a restore too,
\* keeps what the gateway promises: one process, known to the wrapper; no
\* request that goes on before the process it stopped is dead; and no restore
\* that begins beside a gateway, but for strays.
THEOREM RestartsKeepTheGateway ==
  W!Spec => [](TrackedGateway /\ StopIsConfirmed) /\ RestoreBeginsStopped
<1>1. WrapperInv => TrackedGateway /\ StopIsConfirmed
  BY DEF WrapperInv
<1>2. ASSUME WrapperInv, [W!Next]_(W!vars)
      PROVE  [\A t \in Task : pc[t] # "restoring" /\ pc'[t] = "restoring"
                                => alive' \subseteq strayed']_vars
  <2> SUFFICES ASSUME ~UNCHANGED vars, NEW t \in Task, pc[t] # "restoring",
                      pc'[t] = "restoring"
               PROVE  alive' \subseteq strayed'
    OBVIOUS
  <2>1. CASE W!SetupStep
    BY <1>2, <2>1, SameGateway, RestoreStep DEF WrapperInv, W!SetupStep
  <2>2. ~W!Reboot
    BY RebootResets DEF W!Restoring
  <2> QED
    BY <1>2, <2>1, <2>2, RouteLeavesGateway DEF W!Next, W!vars, W!setup, vars
<1> QED
  BY <1>1, <1>2, WrapperInvHolds, PTL DEF W!Spec, RestoreBeginsStopped

\* While a restore replaces the state, the agent hook starts a turn only if an
\* unpatched stop lost a gateway or another request started one meanwhile.
THEOREM RestoresStartNoTurn == W!Spec => W!RestoreStartsNoTurn
<1>1. ASSUME WrapperInv, [W!Next]_(W!vars)
      PROVE  [turns' # turns /\ W!Restoring # {}
                => (strayed \cup joined) \cap alive # {}]_(W!vars)
  <2> SUFFICES ASSUME turns' # turns, W!Restoring # {}
               PROVE  (strayed \cup joined) \cap alive # {}
    OBVIOUS
  <2>1. alive # {}
    BY <1>1 DEF W!Next, W!RouteStep, W!Accept, W!ComesToNothing, W!SetupStep, W!CacheExpires,
           W!Reboot, W!route, W!vars, W!D!Arrive, W!D!Handle, W!D!ReadFails,
           W!D!AnswerOnly, W!D!AnswerAndForward, W!D!ForwardOk, W!D!ForwardFails,
           W!D!HookRefuses, W!D!PostLost, W!D!ReplayForgets, W!D!Restart, W!D!gateway
  <2> QED
    BY <1>1, <2>1 DEF WrapperInv, RestoreInv
<1> QED
  BY <1>1, WrapperInvHolds, PTL DEF W!Spec, W!RestoreStartsNoTurn

\* What the gateway does to the route is what WebhookDispatch allows its
\* environment: to the dispatcher, a gateway that is stopped and started again
\* is a replay cache that empties and a hook that refuses for a while.
LEMMA WrapperStepIsDispatch == [W!Next]_(W!vars) => [W!D!Next]_(W!D!vars)
<1> SUFFICES ASSUME [W!Next]_(W!vars) PROVE W!D!Next \/ UNCHANGED W!D!vars
  OBVIOUS
<1>1. CASE W!RouteStep \/ W!CacheExpires \/ W!Reboot
  BY <1>1 DEF W!RouteStep, W!CacheExpires, W!Reboot, W!D!Next
<1>2. ASSUME NEW m \in wire, W!Accept(m) \/ W!ComesToNothing(m) PROVE W!D!Next
  BY <1>2 DEF W!Accept, W!ComesToNothing, W!D!Hook, W!D!Next
<1>3. CASE W!SetupStep
  <2>1. UNCHANGED W!route /\ (replayed' = {} \/ replayed' = replayed)
    BY <1>3 DEF W!SetupStep, W!CacheAfterStart
  <2> QED
    BY <2>1 DEF W!route, W!D!vars, W!D!handler, W!D!gateway, W!D!ReplayForgets, W!D!Next
<1>4. CASE UNCHANGED W!vars
  BY <1>4 DEF W!vars, W!route, W!D!vars, W!D!handler, W!D!gateway
<1> QED
  BY <1>1, <1>2, <1>3, <1>4 DEF W!Next

\* The route beside a gateway that setup requests stop and restart is still
\* the dispatcher, so what WebhookDispatchProofs proves from its assumptions on
\* the constants holds of the wrapper.
THEOREM WrapperImplementsDispatch == W!Spec => W!D!Spec
<1>1. W!Init => W!D!Init
  BY DEF W!Init
<1> QED
  BY <1>1, WrapperStepIsDispatch, PTL DEF W!Spec, W!D!Spec
=============================================================================
