--------------------------- MODULE WebhookDispatch ----------------------------
(***************************************************************************)
(* handleGithubWebhookVerify and forwardToAgentHook of                     *)
(* scripts/wrapper-github-webhook-verify.mjs: requests of one wrapper      *)
(* process interleaved at their two awaits (the body read and the POST to  *)
(* the agent hook), the module-level dedup store, process restarts, and    *)
(* the gateway's hook endpoint as the wrapper sees it.                     *)
(***************************************************************************)
EXTENDS DispatchPolicy, FiniteSets

CONSTANTS
  Request,    \* request contexts; one is reused when its request is over
  Delivery,   \* GitHub's delivery ids
  Payload,    \* Payload[d]: what delivery d carries
  Secret,     \* what a sender may sign with
  Config,     \* the environments a boot of the wrapper may find
  MaxBoots    \* bound on the number of restarts

ASSUME BootsAssumption == MaxBoots \in Nat
ASSUME DeliveryAssumption == Missing \notin Delivery
\* The positions of a JSON array are numbers.
ASSUME ArraysAssumption ==
  \A raw \in {e.allowlist : e \in Config} \ {Missing, NotAnArray} :
    /\ DOMAIN raw \subseteq Nat
    /\ \A i \in DOMAIN raw : raw[i].events # Missing => DOMAIN raw[i].events \subseteq Nat

KeyOf(d) == ComputeDedupKey(Payload[d])
Key      == {KeyOf(d) : d \in Delivery} \ {Missing}

\* A POST on its way to the hook: the request that sent it, and what it says.
Post == [request : Request, delivery : Delivery]

VARIABLES
  env,         \* the process environment: fixed from boot to boot
  boots,       \* restarts so far
  pc,          \* where each request's handler is suspended
  delivery,    \* the delivery a request carries, Missing when it is over
  signedWith,  \* the secret it was signed with, Missing when it was not
  dedupStore,  \* defaultForwardedDeliveries
  wire,        \* the POSTs the gateway has not handled yet
  answer,      \* the hook's answer to a request's POST
  replayed,    \* the gateway's replay cache of idempotency keys
  turns,       \* agent turns started per key: 0, 1 or 2 (two or more)
  confirmed,   \* history: keys whose POST resolved ok since the boot
  excused      \* history: keys a second turn can be explained for

handler == <<pc, delivery, signedWith>>
gateway == <<replayed, turns>>
vars    == <<env, boots, handler, dedupStore, wire, answer, gateway,
             confirmed, excused>>

TypeOK ==
  /\ env \in Config
  /\ boots \in 0..MaxBoots
  /\ pc \in [Request -> {"idle", "reading", "forwarding"}]
  /\ delivery \in [Request -> Delivery \cup {Missing}]
  /\ \A r \in Request : delivery[r] = Missing <=> pc[r] = "idle"
  /\ signedWith \in [Request -> Secret \cup {Missing}]
  /\ dedupStore \subseteq Key
  /\ wire \subseteq Post
  /\ answer \in [Request -> {"none", "ok", "refused"}]
  /\ replayed \subseteq Delivery
  /\ turns \in [Key -> 0..2]
  /\ confirmed \subseteq Key
  /\ excused \subseteq Key

Init ==
  /\ env \in Config
  /\ boots = 0
  /\ pc = [r \in Request |-> "idle"]
  /\ delivery = [r \in Request |-> Missing]
  /\ signedWith = [r \in Request |-> Missing]
  /\ dedupStore = {}
  /\ wire = {}
  /\ answer = [r \in Request |-> "none"]
  /\ replayed = {}
  /\ turns = [k \in Key |-> 0]
  /\ confirmed = {}
  /\ excused = {}

-----------------------------------------------------------------------------
(* The handler.  A response is not part of the state: an action is named   *)
(* for the response it sends, and none is ever taken back.                 *)

\* No early return before the body is read: not 500 (unusable secrets or body
\* cap) and not 404 (not enrolled).  405 is out of reach behind app.post.
Enrolled ==
  /\ ResolveGithubWebhookSecrets(env) \notin {Malformed, {}}
  /\ env.maxBytes # Malformed

\* A request arrives and its handler runs to its first await, the body read.
Arrive(r, d, s) ==
  /\ Enrolled
  /\ pc[r] = "idle" /\ \A m \in wire : m.request # r
  /\ pc' = [pc EXCEPT ![r] = "reading"]
  /\ delivery' = [delivery EXCEPT ![r] = d]
  /\ signedWith' = [signedWith EXCEPT ![r] = s]
  /\ UNCHANGED <<env, boots, dedupStore, wire, answer, gateway, confirmed, excused>>

\* The handler returns; its request is over.
Return(r) ==
  /\ pc' = [pc EXCEPT ![r] = "idle"]
  /\ delivery' = [delivery EXCEPT ![r] = Missing]
  /\ signedWith' = [signedWith EXCEPT ![r] = Missing]

\* 400: readRawBody rejected (too large, too slow, a stream error).
ReadFails(r) ==
  /\ pc[r] = "reading"
  /\ Return(r)
  /\ UNCHANGED <<env, boots, dedupStore, wire, answer, gateway, confirmed, excused>>

Verifies(r) ==
  VerifyAnyGithubSignature(ResolveGithubWebhookSecrets(env), signedWith[r])

Decision(r) == PlanDispatch(env.allowlist, Payload[delivery[r]], dedupStore)

\* 401, or 200 with any decision but "forwarded".
AnswerOnly(r) ==
  /\ pc[r] = "reading"
  /\ ~(Verifies(r) /\ Decision(r) = "forwarded")
  /\ Return(r)
  /\ UNCHANGED <<env, boots, dedupStore, wire, answer, gateway, confirmed, excused>>

\* Mutant: nothing is marked before the POST.
StoreUnmarked(k) == dedupStore

Marked(k) == dedupStore \cup {k}

\* 200 and a forward: without an await in between the key is marked, the
\* response is sent and the POST to the hook is started.
AnswerAndForward(r) ==
  /\ pc[r] = "reading"
  /\ Verifies(r)
  /\ Decision(r) = "forwarded"
  /\ pc' = [pc EXCEPT ![r] = "forwarding"]
  /\ dedupStore' = Marked(KeyOf(delivery[r]))
  /\ wire' = wire \cup {[request |-> r, delivery |-> delivery[r]]}
  /\ UNCHANGED <<env, boots, delivery, signedWith, answer, gateway,
                 confirmed, excused>>

\* Mutants: a failed forward keeps its key, or releases every key.
KeyKept(k)      == dedupStore
StoreCleared(k) == {}

Released(k) == dedupStore \ {k}

\* Mutant: a successful forward releases its key as well.
ForwardOkReleases(r) ==
  /\ pc[r] = "forwarding"
  /\ answer[r] = "ok"
  /\ Return(r)
  /\ answer' = [answer EXCEPT ![r] = "none"]
  /\ dedupStore' = Released(KeyOf(delivery[r]))
  /\ UNCHANGED <<env, boots, wire, gateway, confirmed, excused>>

\* fetch resolved with a 2xx.
ForwardOk(r) ==
  /\ pc[r] = "forwarding"
  /\ answer[r] = "ok"
  /\ Return(r)
  /\ answer' = [answer EXCEPT ![r] = "none"]
  /\ confirmed' = confirmed \cup {KeyOf(delivery[r])}
  /\ UNCHANGED <<env, boots, dedupStore, wire, gateway, excused>>

\* The hook accepted r's POST, or may still do so.
MayHaveStarted(r) == answer[r] = "ok" \/ \E m \in wire : m.request = r

\* fetch resolved with another status, or rejected: the POST never arrived,
\* is still under way, or was accepted and its answer lost.  forwardToAgentHook
\* reports all of these as not forwarded and the key is released.
ForwardFails(r) ==
  /\ pc[r] = "forwarding"
  /\ Return(r)
  /\ answer' = [answer EXCEPT ![r] = "none"]
  /\ dedupStore' = Released(KeyOf(delivery[r]))
  /\ excused' = IF MayHaveStarted(r)
                THEN excused \cup {KeyOf(delivery[r])} ELSE excused
  /\ UNCHANGED <<env, boots, wire, gateway, confirmed>>

-----------------------------------------------------------------------------
(* The gateway's hook endpoint and the network to it (external).           *)

\* The gateway is done with m; nobody hears a when the sender gave up.
HookAnswers(m, a) ==
  /\ wire' = wire \ {m}
  /\ answer' = IF pc[m.request] = "forwarding"
               THEN [answer EXCEPT ![m.request] = a] ELSE answer

\* A new idempotency key starts a turn; one in the replay cache does not.
HookAccepts(m) ==
  LET d == m.delivery IN
  /\ HookAnswers(m, "ok")
  /\ replayed' = replayed \cup {d}
  /\ turns' = IF d \in replayed \/ turns[KeyOf(d)] = 2 THEN turns
              ELSE [turns EXCEPT ![KeyOf(d)] = @ + 1]
  /\ UNCHANGED <<env, boots, handler, dedupStore, confirmed, excused>>

HookRefuses(m) ==
  /\ HookAnswers(m, "refused")
  /\ UNCHANGED <<env, boots, handler, dedupStore, gateway, confirmed, excused>>

\* The connection breaks before the gateway handled the POST.
PostLost(m) ==
  /\ HookAnswers(m, "none")
  /\ UNCHANGED <<env, boots, handler, dedupStore, gateway, confirmed, excused>>

\* The replay cache is emptied: it expires, or the gateway restarts.
ReplayForgets ==
  /\ replayed # {}
  /\ replayed' = {}
  /\ UNCHANGED <<env, boots, handler, dedupStore, wire, answer, turns,
                 confirmed, excused>>

-----------------------------------------------------------------------------
\* The container restarts, possibly with changed variables: every suspended
\* handler, the dedup store and every open connection are gone.
Restart ==
  /\ boots < MaxBoots
  /\ boots' = boots + 1
  /\ env' \in Config
  /\ pc' = [r \in Request |-> "idle"]
  /\ delivery' = [r \in Request |-> Missing]
  /\ signedWith' = [r \in Request |-> Missing]
  /\ dedupStore' = {}
  /\ wire' = {}
  /\ answer' = [r \in Request |-> "none"]
  /\ confirmed' = {}
  /\ excused' = excused \cup dedupStore
  /\ UNCHANGED gateway

Handle(r) ==
  \/ ReadFails(r) \/ AnswerOnly(r) \/ AnswerAndForward(r)
  \/ ForwardOk(r) \/ ForwardFails(r)

Hook(m) == HookAccepts(m) \/ HookRefuses(m) \/ PostLost(m)

Next ==
  \/ \E r \in Request, d \in Delivery, s \in Secret \cup {Missing} : Arrive(r, d, s)
  \/ \E r \in Request : Handle(r)
  \/ \E m \in wire : Hook(m)
  \/ ReplayForgets
  \/ Restart

Spec == Init /\ [][Next]_vars

-----------------------------------------------------------------------------
(* Safety.                                                                 *)

Forwarding == {r \in Request : pc[r] = "forwarding"}
HeldKeys   == {KeyOf(delivery[r]) : r \in Forwarding}

\* The store is exact: it holds a key while its forward is under way and once
\* a forward of it succeeded, and for no other reason.  A key that is stuck in
\* the store would answer "duplicate" to every redelivery; a key that is
\* missing would be forwarded again.
StoreIsExact == dedupStore = HeldKeys \cup confirmed

\* Two handlers never forward one key at the same time, and none forwards a
\* key already forwarded since the boot: the window between the check and the
\* mark that the comment on planDispatch says is closed.
OneForwardPerKey ==
  /\ \A q, r \in Forwarding : KeyOf(delivery[q]) = KeyOf(delivery[r]) => q = r
  /\ HeldKeys \cap confirmed = {}

\* A key gets a second agent turn only after a restart forgot it or after a
\* forward of it was given up while the hook had accepted it or still could.
SecondTurnExplained == \A k \in Key : turns[k] = 2 => k \in excused

\* The inductive invariant behind the two properties above.  A POST belongs to
\* the handler that sent it or its key is excused; a key that is not excused
\* has had its one turn only if that turn's forward concluded.
Concluded(k) ==
  \/ k \in confirmed
  \/ \E r \in Forwarding : KeyOf(delivery[r]) = k /\ answer[r] = "ok"

HandlersInv == \A r \in Request :
  /\ pc[r] # "forwarding" => answer[r] = "none"
  /\ pc[r] = "forwarding" => KeyOf(delivery[r]) \in Key

WireInv ==
  /\ \A m, n \in wire : m.request = n.request => m = n
  /\ \A m \in wire :
       /\ KeyOf(m.delivery) \in Key
       /\ pc[m.request] # "reading"
       /\ pc[m.request] = "forwarding" =>
            delivery[m.request] = m.delivery /\ answer[m.request] = "none"
       /\ pc[m.request] = "idle" => KeyOf(m.delivery) \in excused

TurnsInv == \A k \in Key \ excused :
  turns[k] = 0 \/ (turns[k] = 1 /\ Concluded(k))

DispatchInv == /\ StoreIsExact /\ OneForwardPerKey
               /\ HandlersInv /\ WireInv /\ TurnsInv

\* The README's promise for one process: one turn per pull request head or
\* comment.
ForwardedOncePerHead == \A k \in Key : turns[k] <= 1

\* What the operator configured, read directly off the raw allowlist: SOME
\* entry for the repository has SOME item for this event and action, and a
\* comment's actor is one that item trusts.
PermittedTrigger(p, actor) ==
  /\ ResolveDispatchAllowlist(env.allowlist) # Malformed
  /\ env.allowlist # Missing
  /\ \E i \in DOMAIN env.allowlist : \E j \in DOMAIN env.allowlist[i].events :
       LET item == env.allowlist[i].events[j] IN
       /\ env.allowlist[i].repo = p.repo
       /\ item.event = p.event /\ p.action \in item.actions
       /\ p.event = "issue_comment" =>
            /\ actor \in item.trusted.actors
            /\ p.body # Missing /\ item.trusted.pattern \in p.body

\* Nothing is on its way to the agent hook that this boot's environment does
\* not permit, judged by the actor the forwarded trigger names, and nothing
\* that no configured secret signed.
OnlyPermittedForwards ==
  /\ \A r \in Forwarding : signedWith[r] \in ResolveGithubWebhookSecrets(env)
  /\ \A m \in wire : LET p == Payload[m.delivery]
                     IN  PermittedTrigger(p, ActorLoginFor(p))

\* An allowlist that resolves grants all that its text says: no entry and no
\* item is silently shadowed by an earlier one that find() meets first, the
\* hazard the comments on the two duplicate checks describe.
NoGrantIsShadowed ==
  \A d \in Delivery : LET p == Payload[d] IN
    p.event # Missing /\ KeyOf(d) # Missing /\ PermittedTrigger(p, ActorLoginFor(p)) =>
      PlanDispatch(env.allowlist, p, {}) = "forwarded"

-----------------------------------------------------------------------------
(* Refinement: the store and the handlers implement the key ledger.        *)

HoldersOf(k) == {r \in Forwarding : KeyOf(delivery[r]) = k}

Ledger == INSTANCE KeyLedger WITH
  Holder  <- Request,
  taken   <- dedupStore,
  holders <- [k \in Key |-> HoldersOf(k)],
  process <- boots

\* The dedup store and the forwarding handlers behave as the key ledger does: a
\* handler forwards only a key it has just put into the store, nobody else takes
\* that key out, and a key whose forward succeeded stays in it until a restart.
ImplementsLedger == Ledger!Spec

-----------------------------------------------------------------------------
(* Fairness, for the compositions.  A body need not ever arrive: the body  *)
(* timer alone ends a read, and the runtime's own fetch timeout ends a     *)
(* POST.                                                                   *)

Permitted(d) ==
  /\ Enrolled
  /\ PlanDispatch(env.allowlist, Payload[d], {}) = "forwarded"

\* GitHub delivers d once more, signed as it should be.
Redeliver(d) ==
  /\ Permitted(d)
  /\ \E r \in Request, s \in ResolveGithubWebhookSecrets(env) : Arrive(r, d, s)

\* The body of a delivery of d arrives before the timer.
BodyArrives(d) ==
  \E r \in Request : delivery[r] = d /\ Verifies(r)
                     /\ (AnswerOnly(r) \/ AnswerAndForward(r))

Fairness ==
  /\ \A r \in Request :
       WF_vars(ReadFails(r)) /\ WF_vars(ForwardOk(r) \/ ForwardFails(r))
  /\ WF_vars(\E m \in wire : Hook(m))
=============================================================================
