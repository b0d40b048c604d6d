---------------------------- MODULE GatewayControl ----------------------------
(***************************************************************************)
(* stopGatewayAndWait(), restartGateway() and the /setup/import handler as *)
(* scripts/patch-wrapper-restart-gateway.mjs writes them into the wrapper: *)
(* concurrent setup requests over the one shared variable gatewayProc and  *)
(* the gateway processes behind it.  ensureGatewayRunning, the exit        *)
(* handler and the two stop sites the patch leaves alone are the wrapper's *)
(* own (external).                                                         *)
(***************************************************************************)
EXTENDS FiniteSets, Naturals

CONSTANTS
  Task,   \* setup requests
  Proc,   \* process slots; a dead one nobody waits for is used again
  None,   \* no process
  MaxStrays  \* bound on the flat stops under way and the processes they lost

\* No process is not a process.
ASSUME NoneAssumption == None \notin Proc

\* What a setup request may ask for.
Jobs == {"restart", "import", "stop"}

VARIABLES
  gatewayProc,  \* the wrapper's variable
  alive,        \* gateway processes the operating system still runs
  pc,           \* where each request's handler is suspended
  job,          \* what it is doing
  proc,         \* the process it captured before signalling
  strayed       \* history: processes that outlived an unpatched stop

vars == <<gatewayProc, alive, pc, job, proc, strayed>>

\* Handlers that wait for the process they signalled to exit.
Waiting(t) == pc[t] \in {"terminating", "killing"}

TypeOK ==
  /\ gatewayProc \in Proc \cup {None}
  /\ alive \subseteq Proc
  /\ pc \in [Task -> {"idle", "terminating", "killing", "restoring",
                      "starting", "sleeping"}]
  /\ job \in [Task -> Jobs]
  /\ proc \in [Task -> Proc \cup {None}]
  /\ \A t \in Task : Waiting(t) => proc[t] # None
  /\ strayed \subseteq Proc

Init ==
  /\ gatewayProc \in Proc \cup {None}
  /\ alive = {gatewayProc} \ {None}
  /\ pc = [t \in Task |-> "idle"]
  /\ job = [t \in Task |-> "restart"]
  /\ proc = [t \in Task |-> None]
  /\ strayed = {}

-----------------------------------------------------------------------------
\* What a handler does once the gateway is stopped.
Continue(j) == IF j = "import" THEN "restoring" ELSE "starting"

\* restartGateway() or the import handler reaches its stop: with a gateway it
\* captures the process, sends SIGTERM and suspends; without, it goes on.
StopOrContinue(t, j) ==
  /\ job' = [job EXCEPT ![t] = j]
  /\ proc' = [proc EXCEPT ![t] = gatewayProc]
  /\ pc' = [pc EXCEPT ![t] =
              IF gatewayProc = None THEN Continue(j) ELSE "terminating"]
  /\ UNCHANGED <<gatewayProc, alive, strayed>>

Begin(t, j) ==
  /\ pc[t] = "idle"
  /\ j # "stop"
  /\ StopOrContinue(t, j)

\* The process gatewayProc names, if any.
Named == {gatewayProc} \ {None}

\* p ends, of a signal or by itself.  The exit handler clears gatewayProc,
\* whichever process that names, and every handler that waits for p runs on in
\* the same turn of the event loop, through its own gatewayProc = null.
Exit(p) ==
  /\ p \in alive
  /\ alive' = alive \ {p}
  /\ gatewayProc' = None
  /\ strayed' = (strayed \ {p}) \cup (IF p \in strayed THEN Named ELSE {})
  /\ pc' = [t \in Task |-> IF Waiting(t) /\ proc[t] = p THEN Continue(job[t])
                           ELSE pc[t]]
  /\ UNCHANGED <<job, proc>>

\* Mutant: the wait for SIGTERM ends in going on (the wrapper before the patch).
TermTimeoutContinues(t) ==
  /\ pc[t] = "terminating"
  /\ pc' = [pc EXCEPT ![t] = Continue(job[t])]
  /\ UNCHANGED <<gatewayProc, alive, job, proc, strayed>>

\* Five seconds after SIGTERM: SIGKILL.
TermTimeout(t) ==
  /\ pc[t] = "terminating"
  /\ pc' = [pc EXCEPT ![t] = "killing"]
  /\ UNCHANGED <<gatewayProc, alive, job, proc, strayed>>

\* The request ends; its handler holds no process any more.
End(t) ==
  /\ pc' = [pc EXCEPT ![t] = "idle"]
  /\ job' = [job EXCEPT ![t] = "restart"]
  /\ proc' = [proc EXCEPT ![t] = None]

\* Mutants: the last timeout forgets the process, goes on, or does not exist.
KillTimeoutForgets(t) == pc[t] = "killing" /\ gatewayProc' = None /\ End(t)
                         /\ UNCHANGED <<alive, strayed>>

KillTimeoutContinues(t) ==
  /\ pc[t] = "killing"
  /\ pc' = [pc EXCEPT ![t] = Continue(job[t])]
  /\ UNCHANGED <<gatewayProc, alive, job, proc, strayed>>

WaitsForever(t) == FALSE

\* Five seconds after SIGKILL: throw, without clearing gatewayProc.
KillTimeout(t) ==
  /\ pc[t] = "killing"
  /\ End(t)
  /\ UNCHANGED <<gatewayProc, alive, strayed>>

\* The restore is done; the import goes on as a restartGateway() of its own.
RestoreDone(t) ==
  /\ pc[t] = "restoring"
  /\ StopOrContinue(t, "restart")

\* The restore throws: 500, and nothing starts a gateway again.
RestoreFails(t) ==
  /\ pc[t] = "restoring"
  /\ End(t)
  /\ UNCHANGED <<gatewayProc, alive, strayed>>

\* A slot for a new process.
Unused == Proc \ (alive \cup {proc[t] : t \in Task})

\* ensureGatewayRunning(): starts a gateway only when there is none.
Ensure(t) ==
  /\ pc[t] = "starting"
  /\ \/ /\ gatewayProc = None
        /\ \E p \in Unused : gatewayProc' = p /\ alive' = alive \cup {p}
     \/ /\ gatewayProc # None
        /\ UNCHANGED <<gatewayProc, alive>>
  /\ End(t)
  /\ UNCHANGED strayed

\* The "gateway.stop" command and the reset handler, which the patch leaves
\* alone: SIGTERM, a flat 750 ms, gatewayProc = null.
BeginFlatStop(t) ==
  /\ Cardinality(strayed) + Cardinality({u \in Task : pc[u] = "sleeping"}) < MaxStrays
  /\ pc[t] = "idle"
  /\ gatewayProc # None
  /\ pc' = [pc EXCEPT ![t] = "sleeping"]
  /\ job' = [job EXCEPT ![t] = "stop"]
  /\ UNCHANGED <<gatewayProc, alive, proc, strayed>>

FlatStopElapsed(t) ==
  /\ pc[t] = "sleeping"
  /\ gatewayProc' = None
  /\ strayed' = strayed \cup Named
  /\ End(t)
  /\ UNCHANGED alive

Step(t) ==
  \/ TermTimeout(t) \/ KillTimeout(t) \/ RestoreDone(t) \/ RestoreFails(t)
  \/ Ensure(t) \/ FlatStopElapsed(t)

Next ==
  \/ \E t \in Task : \/ \E j \in Jobs : Begin(t, j)
                     \/ BeginFlatStop(t)
                     \/ Step(t)
  \/ \E p \in Proc : Exit(p)

Spec == Init /\ [][Next]_vars

\* The event loop runs a handler that can run; no process has to exit.
FairSpec == Spec /\ \A t \in Task : WF_vars(Step(t))

-----------------------------------------------------------------------------
\* At most one gateway process runs, and it is the one the wrapper knows,
\* except for what an unpatched stop let go of: no restart starts a second one
\* beside a process that has not exited, and no handler forgets or overwrites
\* the process another one started.
TrackedGateway == strayed \subseteq alive /\ alive \ strayed = Named

\* When a handler goes on to start a gateway, the process it set out to stop
\* is dead: a restart that returns never left the old one running.
StopIsConfirmed ==
  \A t \in Task : pc[t] \in {"starting", "restoring"} => proc[t] \notin alive

\* The restore begins with no gateway process alive, again but for strays: the
\* intent of "Stop gateway before restore so we don't overwrite live files".
RestoreBeginsStopped ==
  [][\A t \in Task : pc[t] # "restoring" /\ pc'[t] = "restoring"
                     => alive' \subseteq strayed']_vars

\* Every setup request ends, even when the process can never be killed.
EveryRequestEnds == \A t \in Task : pc[t] # "idle" ~> pc[t] = "idle"
=============================================================================
