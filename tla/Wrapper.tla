------------------------------- MODULE Wrapper ---------------------------------
(***************************************************************************)
(* One wrapper process and the gateway it keeps: the webhook route         *)
(* (WebhookDispatch) POSTs to the gateway that setup requests stop, restore *)
(* under and start again (GatewayControl).  A container restart takes both. *)
(***************************************************************************)
EXTENDS FiniteSets, Naturals

CONSTANTS
  Missing, Malformed, NotAnArray, Unclean, BadPattern,
  Request, Delivery, Payload, Secret, Config, MaxBoots,
  Task, Proc, None, MaxStrays

VARIABLES
  env, boots, pc, delivery, signedWith, dedupStore, wire, answer, replayed,
  turns, confirmed, excused,
  gatewayProc, alive, setupPc, job, proc, strayed,
  joined  \* history: gateways that were started during a restore

D == INSTANCE WebhookDispatch
G == INSTANCE GatewayControl WITH pc <- setupPc

route == <<env, boots, pc, delivery, signedWith, dedupStore, wire, answer,
           turns, confirmed, excused>>
setup == <<gatewayProc, alive, setupPc, job, proc, strayed, joined>>
vars  == <<route, replayed, setup>>

Init == D!Init /\ G!Init /\ joined = {}

Restoring == {t \in Task : setupPc[t] = "restoring"}

-----------------------------------------------------------------------------
\* The handler's own steps.
RouteStep ==
  /\ \/ \E r \in Request, d \in Delivery, s \in Secret \cup {Missing} : D!Arrive(r, d, s)
     \/ \E r \in Request : D!Handle(r)
  /\ UNCHANGED setup

\* A POST is accepted by a gateway that runs, or comes to nothing.
Accept(m) ==
  /\ alive # {}
  /\ D!HookAccepts(m)
  /\ UNCHANGED setup

ComesToNothing(m) ==
  /\ D!HookRefuses(m) \/ D!PostLost(m)
  /\ UNCHANGED setup

\* The replay cache is the gateway's own: one that starts alone has none.
CacheAfterStart ==
  replayed' = IF alive = {} /\ alive' # {} THEN {} ELSE replayed

SetupStep ==
  /\ G!Next
  /\ CacheAfterStart
  /\ joined' = (IF Restoring = {} THEN joined ELSE joined \cup (alive' \ alive)) \cap alive'
  /\ UNCHANGED route

CacheExpires == D!ReplayForgets /\ UNCHANGED setup

\* The container restarts; the wrapper may start a gateway as it boots.
Reboot ==
  /\ D!Restart
  /\ gatewayProc' \in Proc \cup {None}
  /\ alive' = {gatewayProc'} \ {None}
  /\ setupPc' = [t \in Task |-> "idle"]
  /\ job' = [t \in Task |-> "restart"]
  /\ proc' = [t \in Task |-> None]
  /\ strayed' = {} /\ joined' = {}

Next ==
  \/ RouteStep
  \/ \E m \in wire : Accept(m) \/ ComesToNothing(m)
  \/ SetupStep
  \/ CacheExpires
  \/ Reboot

\* What the route and its environment justify; no setup request has to end.  A POST is accepted now
\* and then, given a gateway to accept it.
Fairness ==
  /\ D!Fairness
  /\ \A d \in Delivery :
       /\ SF_vars(D!Redeliver(d) /\ UNCHANGED setup)
       /\ SF_vars(D!BodyArrives(d) /\ UNCHANGED setup)
       /\ SF_vars(\E m \in wire : m.delivery = d /\ Accept(m))

Spec == Init /\ [][Next]_vars /\ Fairness

-----------------------------------------------------------------------------
\* No agent turn starts on the state a restore is replacing, unless an unpatched
\* stop lost a gateway or another request started one in the middle of it.
RestoreStartsNoTurn ==
  [][turns' # turns /\ Restoring # {} => (strayed \cup joined) \cap alive # {}]_vars

\* Forwards that failed while the gateway was stopped do not silence their
\* event: once it stays up, an event that is permitted and redelivered gets its
\* turn.
RedeliverySurvivesRestarts ==
  \A d \in Delivery :
    (<>[](D!Permitted(d) /\ alive # {})) =>
      <>(D!KeyOf(d) # Missing /\ turns[D!KeyOf(d)] > 0)
=============================================================================
