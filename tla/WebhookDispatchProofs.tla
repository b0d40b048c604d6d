------------------------ MODULE WebhookDispatchProofs -------------------------
(***************************************************************************)
(* Theorems about WebhookDispatch for every number of requests, deliveries,*)
(* environments and restarts.                                              *)
(***************************************************************************)
EXTENDS WebhookDispatch, TLAPS

\* planDispatch forwards only what has a key, and only a key not yet marked.
LEMMA ForwardedIsFresh ==
  ASSUME NEW a, NEW p, NEW store, PlanDispatch(a, p, store) = "forwarded"
  PROVE  ComputeDedupKey(p) # Missing /\ ComputeDedupKey(p) \notin store
BY DEF PlanDispatch

\* The initial state satisfies the type invariant.
LEMMA InitTypeOK == Init => TypeOK
BY BootsAssumption DEF Init, TypeOK

\* Every step preserves the type invariant, given that a forwarding handler
\* holds a key and a POST names one.
LEMMA NextTypeOK == TypeOK /\ HandlersInv /\ WireInv /\ [Next]_vars => TypeOK'
<1> SUFFICES ASSUME TypeOK, HandlersInv, WireInv, [Next]_vars PROVE TypeOK'
  OBVIOUS
<1> USE DEF TypeOK
<1>1. ASSUME NEW r \in Request, NEW d \in Delivery, NEW s \in Secret \cup {Missing},
             Arrive(r, d, s)
      PROVE  TypeOK'
  BY <1>1, DeliveryAssumption DEF Arrive, gateway
<1>2. ASSUME NEW r \in Request, ReadFails(r) PROVE TypeOK'
  BY <1>2 DEF ReadFails, Return, gateway
<1>3. ASSUME NEW r \in Request, AnswerOnly(r) PROVE TypeOK'
  BY <1>3 DEF AnswerOnly, Return, gateway
<1>4. ASSUME NEW r \in Request, AnswerAndForward(r) PROVE TypeOK'
  <2>1. delivery[r] \in Delivery
    BY <1>4 DEF AnswerAndForward
  <2>2. KeyOf(delivery[r]) \in Key
    BY <1>4, <2>1, ForwardedIsFresh DEF AnswerAndForward, Decision, KeyOf, Key
  <2>3. [request |-> r, delivery |-> delivery[r]] \in Post
    BY <2>1 DEF Post
  <2> QED
    BY <1>4, <2>1, <2>2, <2>3 DEF AnswerAndForward, Marked, gateway
<1>5. ASSUME NEW r \in Request, ForwardOk(r) PROVE TypeOK'
  BY <1>5 DEF ForwardOk, Return, HandlersInv, gateway
<1>6. ASSUME NEW r \in Request, ForwardFails(r) PROVE TypeOK'
  <2>1. excused' \subseteq Key
    BY <1>6 DEF ForwardFails, HandlersInv
  <2> QED
    BY <1>6, <2>1 DEF ForwardFails, Released, Return, gateway
<1>7. ASSUME NEW m \in wire, HookAccepts(m) PROVE TypeOK'
  <2>1. m.request \in Request /\ m.delivery \in Delivery
    BY DEF Post
  <2>2. turns' \in [Key -> 0..2]
    BY <1>7 DEF HookAccepts, WireInv
  <2> QED
    BY <1>7, <2>1, <2>2 DEF HookAccepts, HookAnswers, handler
<1>8. ASSUME NEW m \in wire, HookRefuses(m) PROVE TypeOK'
  BY <1>8 DEF HookRefuses, HookAnswers, handler, gateway, Post
<1>9. ASSUME NEW m \in wire, PostLost(m) PROVE TypeOK'
  BY <1>9 DEF PostLost, HookAnswers, handler, gateway, Post
<1>10. ASSUME ReplayForgets PROVE TypeOK'
  BY <1>10 DEF ReplayForgets, handler
<1>11. ASSUME Restart PROVE TypeOK'
  BY <1>11, BootsAssumption DEF Restart, gateway
<1>12. ASSUME UNCHANGED vars PROVE TypeOK'
  BY <1>12 DEF vars, handler, gateway
<1> QED
  BY <1>1, <1>2, <1>3, <1>4, <1>5, <1>6, <1>7, <1>8, <1>9, <1>10, <1>11, <1>12
     DEF Next, Handle, Hook

-----------------------------------------------------------------------------
Inv == TypeOK /\ DispatchInv

\* The initial state satisfies the inductive invariant.
LEMMA InitInv == Init => Inv
<1> SUFFICES ASSUME Init PROVE Inv
  OBVIOUS
<1>1. Forwarding = {} /\ HeldKeys = {}
  BY DEF Init, Forwarding, HeldKeys
<1> QED
  BY <1>1, InitTypeOK DEF Inv, DispatchInv, Init, StoreIsExact,
     OneForwardPerKey, HandlersInv, WireInv, TurnsInv

\* A forward starts with a key nobody holds and nobody confirmed.
LEMMA ForwardStartsFresh ==
  ASSUME TypeOK, StoreIsExact, NEW r \in Request, AnswerAndForward(r)
  PROVE  /\ delivery[r] \in Delivery
         /\ KeyOf(delivery[r]) \in Key
         /\ KeyOf(delivery[r]) \notin dedupStore
         /\ KeyOf(delivery[r]) \notin confirmed
         /\ \A q \in Forwarding : KeyOf(delivery[q]) # KeyOf(delivery[r])
<1>1. delivery[r] \in Delivery
  BY DEF TypeOK, AnswerAndForward, Marked
<1>2. /\ KeyOf(delivery[r]) \in Key
      /\ KeyOf(delivery[r]) \notin dedupStore
  BY <1>1, ForwardedIsFresh DEF AnswerAndForward, Marked, Decision, KeyOf, Key
<1> QED
  BY <1>1, <1>2 DEF StoreIsExact, HeldKeys

\* A handler that does not change what is held, marked or confirmed keeps the
\* store exact and the holders apart.
LEMMA QuietStepKeepsStore ==
  ASSUME StoreIsExact, OneForwardPerKey, Forwarding' = Forwarding,
         \A q \in Forwarding : delivery'[q] = delivery[q],
         dedupStore' = dedupStore, confirmed' = confirmed
  PROVE  StoreIsExact' /\ OneForwardPerKey'
<1>1. HeldKeys' = HeldKeys
  BY DEF HeldKeys
<1> QED
  BY <1>1 DEF StoreIsExact, OneForwardPerKey

\* Every step keeps the store exact and at most one forward per key.
LEMMA NextStore ==
  ASSUME TypeOK, StoreIsExact, OneForwardPerKey, [Next]_vars
  PROVE  StoreIsExact' /\ OneForwardPerKey'
<1> USE DEF TypeOK
<1>1. ASSUME NEW r \in Request, NEW d \in Delivery, NEW s \in Secret \cup {Missing},
             Arrive(r, d, s)
      PROVE  StoreIsExact' /\ OneForwardPerKey'
  BY <1>1, QuietStepKeepsStore DEF Arrive, Forwarding
<1>2. ASSUME NEW r \in Request, ReadFails(r) \/ AnswerOnly(r)
      PROVE  StoreIsExact' /\ OneForwardPerKey'
  BY <1>2, QuietStepKeepsStore DEF ReadFails, AnswerOnly, Return, Forwarding
<1>3. ASSUME NEW r \in Request, AnswerAndForward(r)
      PROVE  StoreIsExact' /\ OneForwardPerKey'
  <2>1. Forwarding' = Forwarding \cup {r}
    BY <1>3 DEF AnswerAndForward, Forwarding
  <2>2. HeldKeys' = HeldKeys \cup {KeyOf(delivery[r])}
    BY <1>3, <2>1 DEF AnswerAndForward, HeldKeys
  <2> QED
    BY <1>3, <2>1, <2>2, ForwardStartsFresh
       DEF AnswerAndForward, Marked, StoreIsExact, OneForwardPerKey
<1>4. ASSUME NEW r \in Request, ForwardOk(r) \/ ForwardFails(r)
      PROVE  StoreIsExact' /\ OneForwardPerKey'
  <2>1. Forwarding' = Forwarding \ {r} /\ r \in Forwarding
    BY <1>4 DEF ForwardOk, ForwardFails, Return, Forwarding
  <2>2. \A q \in Forwarding' : delivery'[q] = delivery[q]
    BY <1>4, <2>1 DEF ForwardOk, ForwardFails, Return, Forwarding
  <2>3. HeldKeys' = HeldKeys \ {KeyOf(delivery[r])}
    BY <2>1, <2>2 DEF HeldKeys, OneForwardPerKey
  <2>4. KeyOf(delivery[r]) \in HeldKeys
    BY <2>1 DEF HeldKeys
  <2>5. CASE ForwardOk(r)
    BY <2>1, <2>2, <2>3, <2>4, <2>5 DEF ForwardOk, StoreIsExact, OneForwardPerKey
  <2>6. CASE ForwardFails(r)
    BY <2>1, <2>2, <2>3, <2>4, <2>6
       DEF ForwardFails, Released, StoreIsExact, OneForwardPerKey
  <2> QED
    BY <1>4, <2>5, <2>6
<1>5. ASSUME NEW m \in wire, Hook(m)
      PROVE  StoreIsExact' /\ OneForwardPerKey'
  BY <1>5, QuietStepKeepsStore
     DEF Hook, HookAccepts, HookRefuses, PostLost, handler, Forwarding
<1>6. ASSUME ReplayForgets \/ UNCHANGED vars
      PROVE  StoreIsExact' /\ OneForwardPerKey'
  BY <1>6, QuietStepKeepsStore DEF ReplayForgets, vars, handler, Forwarding
<1>7. ASSUME Restart PROVE StoreIsExact' /\ OneForwardPerKey'
  <2>1. Forwarding' = {} /\ HeldKeys' = {}
    BY <1>7 DEF Restart, Forwarding, HeldKeys
  <2> QED
    BY <1>7, <2>1 DEF Restart, StoreIsExact, OneForwardPerKey
<1> QED
  BY <1>1, <1>2, <1>3, <1>4, <1>5, <1>6, <1>7 DEF Next, Handle

-----------------------------------------------------------------------------
\* Every step keeps handlers and the POSTs they sent in agreement.
LEMMA NextHandlersAndWire ==
  ASSUME TypeOK, StoreIsExact, HandlersInv, WireInv, [Next]_vars
  PROVE  HandlersInv' /\ WireInv'
<1> USE DEF TypeOK, HandlersInv, WireInv, Post
<1>1. ASSUME NEW r \in Request, NEW d \in Delivery, NEW s \in Secret \cup {Missing},
             Arrive(r, d, s)
      PROVE  HandlersInv' /\ WireInv'
  BY <1>1 DEF Arrive
<1>2. ASSUME NEW r \in Request, ReadFails(r) \/ AnswerOnly(r)
      PROVE  HandlersInv' /\ WireInv'
  BY <1>2 DEF ReadFails, AnswerOnly, Return
<1>3. ASSUME NEW r \in Request, AnswerAndForward(r)
      PROVE  HandlersInv' /\ WireInv'
  <2>1. KeyOf(delivery[r]) \in Key
    BY <1>3, ForwardStartsFresh
  <2>2. \A m \in wire : m.request # r
    BY <1>3 DEF AnswerAndForward
  <2> QED
    BY <1>3, <2>1, <2>2 DEF AnswerAndForward
<1>4. ASSUME NEW r \in Request, ForwardOk(r) PROVE HandlersInv' /\ WireInv'
  BY <1>4 DEF ForwardOk, Return
<1>5. ASSUME NEW r \in Request, ForwardFails(r) PROVE HandlersInv' /\ WireInv'
  <2>1. HandlersInv'
    BY <1>5 DEF ForwardFails, Return
  <2>2. \A m \in wire : m.request = r => KeyOf(m.delivery) \in excused'
    BY <1>5 DEF ForwardFails, MayHaveStarted
  <2>3. WireInv'
    BY <1>5, <2>2 DEF ForwardFails, Return
  <2> QED
    BY <2>1, <2>3
<1>6. ASSUME NEW m \in wire, Hook(m) PROVE HandlersInv' /\ WireInv'
  <2>1. /\ wire' = wire \ {m}
        /\ UNCHANGED <<pc, delivery, excused>>
        /\ \A q \in Request : q # m.request \/ pc[q] # "forwarding"
                              => answer'[q] = answer[q]
    BY <1>6 DEF Hook, HookAccepts, HookRefuses, PostLost, HookAnswers, handler
  <2> QED
    BY <2>1
<1>7. ASSUME ReplayForgets \/ UNCHANGED vars PROVE HandlersInv' /\ WireInv'
  BY <1>7 DEF ReplayForgets, vars, handler
<1>8. ASSUME Restart PROVE HandlersInv' /\ WireInv'
  BY <1>8 DEF Restart
<1> QED
  BY <1>1, <1>2, <1>3, <1>4, <1>5, <1>6, <1>7, <1>8 DEF Next, Handle

-----------------------------------------------------------------------------
\* What concludes a key survives a step that answers nobody and ends nothing.
LEMMA ConcludedSurvives ==
  ASSUME TurnsInv, turns' = turns, excused \subseteq excused',
         \A k \in Key \ excused' : Concluded(k) => Concluded(k)'
  PROVE  TurnsInv'
BY DEF TurnsInv

\* Every step leaves a key that is not excused with at most one turn, and that
\* one concluded.
LEMMA NextTurns == ASSUME Inv, [Next]_vars PROVE TurnsInv'
<1> USE DEF Inv, DispatchInv, TypeOK
<1>1. ASSUME NEW r \in Request, NEW d \in Delivery, NEW s \in Secret \cup {Missing},
             Arrive(r, d, s)
      PROVE  TurnsInv'
  BY <1>1, ConcludedSurvives DEF Arrive, gateway, Concluded, Forwarding
<1>2. ASSUME NEW r \in Request, ReadFails(r) \/ AnswerOnly(r) PROVE TurnsInv'
  BY <1>2, ConcludedSurvives
     DEF ReadFails, AnswerOnly, Return, gateway, Concluded, Forwarding
<1>3. ASSUME NEW r \in Request, AnswerAndForward(r) PROVE TurnsInv'
  BY <1>3, ConcludedSurvives DEF AnswerAndForward, gateway, Concluded, Forwarding
<1>4. ASSUME NEW r \in Request, ForwardOk(r) PROVE TurnsInv'
  BY <1>4, ConcludedSurvives
     DEF ForwardOk, Return, gateway, Concluded, Forwarding
<1>5. ASSUME NEW r \in Request, ForwardFails(r) PROVE TurnsInv'
  <2>1. \A k \in Key \ excused' : Concluded(k) => Concluded(k)'
    BY <1>5 DEF ForwardFails, MayHaveStarted, Return, Concluded, Forwarding
  <2> QED
    BY <1>5, <2>1, ConcludedSurvives DEF ForwardFails, gateway
<1>6. ASSUME NEW m \in wire, HookAccepts(m) PROVE TurnsInv'
  <2> DEFINE r == m.request
             h == KeyOf(m.delivery)
  <2>1. r \in Request /\ h \in Key
    BY DEF Post, WireInv
  <2>2. SUFFICES ASSUME NEW k \in Key \ excused
                 PROVE  turns'[k] = 0 \/ (turns'[k] = 1 /\ Concluded(k)')
    BY <1>6 DEF HookAccepts, TurnsInv
  <2>3. CASE k # h
    <3>1. turns'[k] = turns[k]
      BY <1>6, <2>1, <2>3 DEF HookAccepts
    <3>2. Concluded(k) => Concluded(k)'
      BY <1>6, <2>1, <2>3
         DEF HookAccepts, HookAnswers, handler, Concluded, Forwarding, WireInv
    <3> QED
      BY <3>1, <3>2 DEF TurnsInv
  <2>4. CASE k = h
    <3>1. pc[r] = "forwarding" /\ delivery[r] = m.delivery /\ answer[r] = "none"
      BY <2>1, <2>4 DEF WireInv
    <3>2. h \in HeldKeys
      BY <2>1, <3>1 DEF HeldKeys, Forwarding
    <3>3. ~Concluded(h)
      BY <2>1, <3>1, <3>2 DEF Concluded, OneForwardPerKey, Forwarding
    <3>4. turns[h] = 0
      BY <2>1, <2>4, <3>3 DEF TurnsInv
    <3>5. Concluded(h)'
      BY <1>6, <2>1, <3>1
         DEF HookAccepts, HookAnswers, handler, Concluded, Forwarding
    <3>6. turns'[h] \in {0, 1}
      BY <1>6, <2>1, <3>4 DEF HookAccepts
    <3> QED
      BY <2>4, <3>5, <3>6
  <2> QED
    BY <2>3, <2>4
<1>7. ASSUME NEW m \in wire, HookRefuses(m) \/ PostLost(m) PROVE TurnsInv'
  <2>1. \A k \in Key \ excused' : Concluded(k) => Concluded(k)'
    BY <1>7 DEF HookRefuses, PostLost, HookAnswers, handler, Concluded,
       Forwarding, WireInv, Post
  <2> QED
    BY <1>7, <2>1, ConcludedSurvives DEF HookRefuses, PostLost, gateway
<1>8. ASSUME ReplayForgets \/ UNCHANGED vars PROVE TurnsInv'
  BY <1>8, ConcludedSurvives
     DEF ReplayForgets, vars, handler, gateway, Concluded, Forwarding
<1>9. ASSUME Restart PROVE TurnsInv'
  <2>1. \A k \in Key \ excused' : ~Concluded(k)
    BY <1>9 DEF Restart, Concluded, StoreIsExact, HeldKeys
  <2> QED
    BY <1>9, <2>1 DEF Restart, gateway, TurnsInv
<1> QED
  BY <1>1, <1>2, <1>3, <1>4, <1>5, <1>6, <1>7, <1>8, <1>9 DEF Next, Handle, Hook

-----------------------------------------------------------------------------
\* The inductive invariant holds in every behaviour.
THEOREM InvHolds == Spec => []Inv
<1>1. Inv /\ [Next]_vars => Inv'
  BY NextTypeOK, NextStore, NextHandlersAndWire, NextTurns DEF Inv, DispatchInv
<1> QED
  BY InitInv, <1>1, PTL DEF Spec

\* The state stays within its types: every key in the store, confirmed or
\* excused is the key of some delivery.
THEOREM TypeCorrect == Spec => []TypeOK
<1>1. Inv => TypeOK
  BY DEF Inv
<1> QED
  BY <1>1, InvHolds, PTL

\* planDispatch's check-and-mark leaves no window: no two handlers forward one
\* key at a time, and none forwards a key this process already delivered.
THEOREM CheckAndMarkIsAtomic == Spec => []OneForwardPerKey
<1>1. Inv => OneForwardPerKey
  BY DEF Inv, DispatchInv
<1> QED
  BY <1>1, InvHolds, PTL

\* The dedup store never keeps a key whose forward failed and never loses one
\* whose forward is under way or succeeded.
THEOREM StoreExactness == Spec => []StoreIsExact
<1>1. Inv => StoreIsExact
  BY DEF Inv, DispatchInv
<1> QED
  BY <1>1, InvHolds, PTL

\* A second agent turn for a key is always explained by a restart or by a
\* forward given up while the hook had, or could still, accept it.
THEOREM SecondTurnsAreExplained == Spec => []SecondTurnExplained
<1>1. Inv => SecondTurnExplained
  BY DEF Inv, DispatchInv, TurnsInv, SecondTurnExplained
<1> QED
  BY <1>1, InvHolds, PTL

-----------------------------------------------------------------------------
\* find() returns the only position that passes, when there is just one.
LEMMA FindsTheOnlyHit ==
  ASSUME NEW s, NEW i \in Nat
  PROVE  Find(s, {i}) = {s[i]}
BY DEF Find

\* What find() returns stands at a position that passes.
LEMMA FindsAHit ==
  ASSUME NEW s, NEW hits, NEW x \in Find(s, hits)
  PROVE  \E i \in hits : x = s[i]
BY DEF Find

\* planDispatch forwards only what the raw allowlist permits the actor it names.
LEMMA ForwardedIsPermitted ==
  ASSUME NEW p, NEW store, PlanDispatch(env.allowlist, p, store) = "forwarded"
  PROVE  PermittedTrigger(p, ActorLoginFor(p))
<1> DEFINE raw == env.allowlist
           list == ResolveDispatchAllowlist(raw)
<1>1. list # Malformed /\ MatchesDispatchAllowlist(list, p)
  BY DEF PlanDispatch
<1>2. PICK entry \in EntryFor(list, p) : \E item \in ItemFor(entry, p) :
        p.event = "issue_comment" =>
          TrustedMentionMatches(item.trusted, ActorLoginFor(p), p.body)
  BY <1>1 DEF MatchesDispatchAllowlist
<1>3. PICK item \in ItemFor(entry, p) : p.event = "issue_comment" =>
        TrustedMentionMatches(item.trusted, ActorLoginFor(p), p.body)
  BY <1>2
<1>4. PICK i \in DOMAIN list : list[i].repo = p.repo /\ entry = list[i]
  <2> HIDE DEF list
  <2> QED
    BY <1>2, FindsAHit DEF EntryFor
<1>5. PICK j \in DOMAIN entry.events :
        /\ entry.events[j].event = p.event /\ p.action \in entry.events[j].actions
        /\ item = entry.events[j]
  BY <1>3, FindsAHit DEF ItemFor
<1>6. raw # Missing /\ list = raw
  <2>1. raw # Missing
    <3> SUFFICES ASSUME raw = Missing PROVE FALSE
      OBVIOUS
    <3>1. list = <<>>
      BY DEF ResolveDispatchAllowlist
    <3> QED
      BY <1>4, <3>1
  <2> QED
    BY <1>1, <2>1 DEF ResolveDispatchAllowlist
<1> QED
  BY <1>1, <1>3, <1>4, <1>5, <1>6 DEF PermittedTrigger, TrustedMentionMatches

\* What is under way stays permitted while the environment stays and nothing is
\* added.
LEMMA StaysPermitted ==
  ASSUME OnlyPermittedForwards, env' = env, wire' \subseteq wire,
         \A r \in Forwarding' : r \in Forwarding /\ signedWith'[r] = signedWith[r]
  PROVE  OnlyPermittedForwards'
BY DEF OnlyPermittedForwards, PermittedTrigger

\* Nothing is under way to the agent hook that the environment in force does
\* not permit, for any environments, allowlists and deliveries.
THEOREM ForwardsArePermitted == Spec => []OnlyPermittedForwards
<1>1. Init => OnlyPermittedForwards
  BY DEF Init, OnlyPermittedForwards, Forwarding
<1>2. ASSUME TypeOK, OnlyPermittedForwards, [Next]_vars PROVE OnlyPermittedForwards'
  <2>1. ASSUME NEW r \in Request, NEW d \in Delivery, NEW s \in Secret \cup {Missing},
               Arrive(r, d, s)
        PROVE  OnlyPermittedForwards'
    BY <1>2, <2>1, StaysPermitted DEF Arrive, Forwarding, TypeOK
  <2>2. ASSUME NEW r \in Request, ReadFails(r) \/ AnswerOnly(r)
        PROVE  OnlyPermittedForwards'
    BY <1>2, <2>2, StaysPermitted DEF ReadFails, AnswerOnly, Return, Forwarding, TypeOK
  <2>3. ASSUME NEW r \in Request, AnswerAndForward(r) PROVE OnlyPermittedForwards'
    <3>1. PermittedTrigger(Payload[delivery[r]], ActorLoginFor(Payload[delivery[r]]))
      BY <2>3, ForwardedIsPermitted DEF AnswerAndForward, Decision
    <3>2. signedWith[r] \in ResolveGithubWebhookSecrets(env)
      BY <2>3 DEF AnswerAndForward, Verifies, VerifyAnyGithubSignature
    <3>3. /\ env' = env /\ signedWith' = signedWith
          /\ Forwarding' = Forwarding \cup {r}
          /\ wire' = wire \cup {[request |-> r, delivery |-> delivery[r]]}
      BY <1>2, <2>3 DEF AnswerAndForward, Forwarding, TypeOK
    <3>4. \A q \in Forwarding' : signedWith'[q] \in ResolveGithubWebhookSecrets(env)
      BY <1>2, <3>2, <3>3 DEF OnlyPermittedForwards
    <3>5. \A m \in wire' : PermittedTrigger(Payload[m.delivery], ActorLoginFor(Payload[m.delivery]))
      BY <1>2, <3>1, <3>3 DEF OnlyPermittedForwards
    <3> QED
      BY <3>3, <3>4, <3>5 DEF OnlyPermittedForwards, PermittedTrigger
  <2>4. ASSUME NEW r \in Request, ForwardOk(r) \/ ForwardFails(r)
        PROVE  OnlyPermittedForwards'
    BY <1>2, <2>4, StaysPermitted DEF ForwardOk, ForwardFails, Return, Forwarding, TypeOK
  <2>5. ASSUME NEW m \in wire, Hook(m) PROVE OnlyPermittedForwards'
    BY <1>2, <2>5, StaysPermitted
       DEF Hook, HookAccepts, HookRefuses, PostLost, HookAnswers, handler, Forwarding
  <2>6. ASSUME ReplayForgets \/ UNCHANGED vars PROVE OnlyPermittedForwards'
    BY <1>2, <2>6, StaysPermitted DEF ReplayForgets, vars, handler, Forwarding
  <2>7. ASSUME Restart PROVE OnlyPermittedForwards'
    <3>1. wire' = {} /\ Forwarding' = {}
      BY <2>7 DEF Restart, Forwarding
    <3> QED
      BY <3>1 DEF OnlyPermittedForwards
  <2> QED
    BY <1>2, <2>1, <2>2, <2>3, <2>4, <2>5, <2>6, <2>7 DEF Next, Handle
<1> QED
  BY <1>1, <1>2, TypeCorrect, PTL DEF Spec

\* No entry and no item of an allowlist that resolves is shadowed by an earlier
\* one, whatever its length: the two duplicate checks leave find() one choice.
THEOREM GrantsAreNotShadowed == Spec => []NoGrantIsShadowed
<1>1. ASSUME TypeOK PROVE NoGrantIsShadowed
  <2> DEFINE raw == env.allowlist
  <2>1. SUFFICES ASSUME NEW d \in Delivery,
                        Payload[d].event # Missing, KeyOf(d) # Missing,
                        PermittedTrigger(Payload[d], ActorLoginFor(Payload[d]))
                 PROVE  PlanDispatch(raw, Payload[d], {}) = "forwarded"
    BY DEF NoGrantIsShadowed
  <2> DEFINE p == Payload[d]
             actor == ActorLoginFor(p)
  <2>2. PICK i \in DOMAIN raw : \E j \in DOMAIN raw[i].events :
          LET item == raw[i].events[j] IN
          /\ raw[i].repo = p.repo
          /\ item.event = p.event /\ p.action \in item.actions
          /\ p.event = "issue_comment" =>
               /\ actor \in item.trusted.actors
               /\ p.body # Missing /\ item.trusted.pattern \in p.body
    BY <2>1 DEF PermittedTrigger
  <2> DEFINE entry == raw[i]
  <2>3. PICK j \in DOMAIN entry.events :
          /\ entry.repo = p.repo
          /\ entry.events[j].event = p.event /\ p.action \in entry.events[j].actions
          /\ p.event = "issue_comment" =>
               /\ actor \in entry.events[j].trusted.actors
               /\ p.body # Missing /\ entry.events[j].trusted.pattern \in p.body
    BY <2>2
  <2>4. /\ raw # Missing /\ raw # NotAnArray
        /\ ResolveDispatchAllowlist(raw) = raw /\ raw # Malformed
        /\ \A n \in DOMAIN raw : ValidateDispatchAllowlistEntry(raw[n])
        /\ NoRepeats([n \in DOMAIN raw |-> raw[n].repo])
    BY <2>1 DEF PermittedTrigger, ResolveDispatchAllowlist
  <2>5. DOMAIN raw \subseteq Nat /\ DOMAIN entry.events \subseteq Nat
    <3>1. raw \in {e.allowlist : e \in Config} \ {Missing, NotAnArray}
      BY <1>1, <2>4 DEF TypeOK
    <3>2. raw[i].events # Missing
      BY <2>4 DEF ValidateDispatchAllowlistEntry
    <3> QED
      BY <3>1, <3>2, ArraysAssumption DEF ArraysAssumption
  <2>6. EntryFor(raw, p) = {entry}
    <3>1. \A n \in DOMAIN raw : raw[n].repo = p.repo => n = i
      <4> SUFFICES ASSUME NEW n \in DOMAIN raw, raw[n].repo = p.repo PROVE n = i
        OBVIOUS
      <4>1. raw[n].repo = raw[i].repo
        BY <2>3
      <4> QED
        BY <2>4, <4>1 DEF NoRepeats
    <3>2. {n \in DOMAIN raw : raw[n].repo = p.repo} = {i}
      BY <2>3, <3>1
    <3> QED
      BY <2>5, <3>2, FindsTheOnlyHit DEF EntryFor
  <2>7. ItemFor(entry, p) = {entry.events[j]}
    <3>1. NoRepeats([n \in DOMAIN entry.events |-> entry.events[n].event])
      BY <2>4 DEF ValidateDispatchAllowlistEntry
    <3>2. \A n \in DOMAIN entry.events : entry.events[n].event = p.event => n = j
      <4> SUFFICES ASSUME NEW n \in DOMAIN entry.events, entry.events[n].event = p.event
                   PROVE  n = j
        OBVIOUS
      <4>1. entry.events[n].event = entry.events[j].event
        BY <2>3
      <4> QED
        BY <3>1, <4>1 DEF NoRepeats
    <3>3. {n \in DOMAIN entry.events :
             entry.events[n].event = p.event /\ p.action \in entry.events[n].actions} = {j}
      BY <2>3, <3>2
    <3> QED
      BY <2>5, <3>3, FindsTheOnlyHit DEF ItemFor
  <2>8. p.event = "issue_comment" =>
          TrustedMentionMatches(entry.events[j].trusted, actor, p.body)
    <3> SUFFICES ASSUME p.event = "issue_comment"
                 PROVE  TrustedMentionMatches(entry.events[j].trusted, actor, p.body)
      OBVIOUS
    <3>1. ValidTrustedMention(entry.events[j].trusted)
      BY <2>3, <2>4 DEF ValidateDispatchAllowlistEntry, ValidEventItem
    <3> QED
      BY <2>3, <3>1 DEF ValidTrustedMention, TrustedMentionMatches
  <2>9. p.repo # Missing
    BY <2>1 DEF KeyOf, ComputeDedupKey
  <2>10. MatchesDispatchAllowlist(raw, p)
    BY <2>6, <2>7, <2>8, <2>9 DEF MatchesDispatchAllowlist
  <2> QED
    BY <2>1, <2>4, <2>10 DEF PlanDispatch, KeyOf
<1> QED
  BY <1>1, TypeCorrect, PTL

-----------------------------------------------------------------------------
\* Answering and forwarding makes r a holder of its key, and of that key only.
LEMMA HolderBegins ==
  ASSUME TypeOK, NEW r \in Request, AnswerAndForward(r), NEW k \in Key
  PROVE  HoldersOf(k)' = IF k = KeyOf(delivery[r]) THEN HoldersOf(k) \cup {r}
                         ELSE HoldersOf(k)
<1>1. Forwarding' = Forwarding \cup {r} /\ r \notin Forwarding /\ delivery' = delivery
  BY DEF TypeOK, AnswerAndForward, Forwarding
<1> QED
  BY <1>1 DEF HoldersOf, KeyOf, Forwarding

\* A handler that returns holds nothing; the other holders stay.
LEMMA HolderEnds ==
  ASSUME TypeOK, NEW r \in Request, Return(r), NEW k \in Key
  PROVE  HoldersOf(k)' = HoldersOf(k) \ {r}
<1>1. Forwarding' = Forwarding \ {r}
  BY DEF TypeOK, Return, Forwarding
<1>2. \A q \in Request \ {r} : delivery'[q] = delivery[q]
  BY DEF TypeOK, Return
<1> QED
  BY <1>1, <1>2 DEF HoldersOf, KeyOf, Forwarding

\* A forwarding handler is the one holder of its key, which the store has.
LEMMA OneHolder ==
  ASSUME Inv, NEW r \in Forwarding
  PROVE  /\ KeyOf(delivery[r]) \in Key \cap dedupStore
         /\ HoldersOf(KeyOf(delivery[r])) = {r}
         /\ \A k \in Key : k # KeyOf(delivery[r]) => r \notin HoldersOf(k)
BY DEF Inv, DispatchInv, HandlersInv, StoreIsExact, OneForwardPerKey, HeldKeys, HoldersOf,
       Forwarding

\* What only the store, the handlers and the boot show of a state.
Shown == <<dedupStore, [k \in Key |-> HoldersOf(k)], boots>>

\* A handler that returns from its forward is a holder that lets its key go, and
\* leaves it taken or gives it back.
LEMMA ReturnRefines ==
  ASSUME Inv, NEW r \in Forwarding, Return(r), UNCHANGED boots,
         NEW k \in Key, k = KeyOf(delivery[r]),
         dedupStore' = dedupStore \/ dedupStore' = dedupStore \ {k}
  PROVE  Ledger!Next
<1>1. r \in Request /\ TypeOK
  BY DEF Inv, DispatchInv, Forwarding
<1>2. \A q \in Key : HoldersOf(q)' = IF q = k THEN {} ELSE HoldersOf(q)
  BY <1>1, HolderEnds, OneHolder
<1>3. k \in dedupStore /\ HoldersOf(k) = {r}
  BY OneHolder
<1>4. [q \in Key |-> HoldersOf(q)]' = [[q \in Key |-> HoldersOf(q)] EXCEPT ![k] = {}]
  BY <1>2
<1>5. Ledger!Confirm(k, r) \/ Ledger!Release(k, r)
  BY <1>3, <1>4 DEF Ledger!Confirm, Ledger!Release
<1> QED
  BY <1>1, <1>5 DEF Ledger!Next

\* Every step of the dispatcher is a step of the ledger or leaves it alone.
LEMMA NextRefines ==
  ASSUME Inv, [Next]_vars PROVE [Ledger!Next]_Shown
<1> SUFFICES Ledger!Next \/ UNCHANGED Shown
  OBVIOUS
<1> TypeOK
  BY DEF Inv, DispatchInv
<1>1. ASSUME NEW r \in Request, AnswerAndForward(r) PROVE Ledger!Next
  <2>1. PICK k \in Key : k = KeyOf(delivery[r])
    BY <1>1, ForwardStartsFresh DEF Inv, DispatchInv
  <2>2. k \notin dedupStore
    BY <1>1, <2>1, ForwardStartsFresh DEF Inv, DispatchInv
  <2>3. HoldersOf(k) = {}
    BY <2>1, <2>2 DEF Inv, DispatchInv, StoreIsExact, HeldKeys, HoldersOf
  <2>4. [q \in Key |-> HoldersOf(q)]' = [[q \in Key |-> HoldersOf(q)] EXCEPT ![k] = {r}]
    BY <1>1, <2>1, <2>3, HolderBegins
  <2>5. dedupStore' = dedupStore \cup {k} /\ UNCHANGED boots
    BY <1>1, <2>1 DEF AnswerAndForward, Marked
  <2>6. Ledger!Claim(k, r)
    BY <2>2, <2>3, <2>4, <2>5 DEF Ledger!Claim
  <2> QED
    BY <2>6 DEF Ledger!Next
<1>2. ASSUME NEW r \in Request, ForwardOk(r) \/ ForwardFails(r) PROVE Ledger!Next
  <2>1. r \in Forwarding /\ Return(r) /\ UNCHANGED boots
    BY <1>2 DEF ForwardOk, ForwardFails, Forwarding
  <2>2. dedupStore' = dedupStore \/ dedupStore' = dedupStore \ {KeyOf(delivery[r])}
    BY <1>2 DEF ForwardOk, ForwardFails, Released
  <2> QED
    BY <2>1, <2>2, OneHolder, ReturnRefines
<1>3. ASSUME NEW r \in Request, ReadFails(r) \/ AnswerOnly(r) PROVE UNCHANGED Shown
  <2>1. r \notin Forwarding /\ Return(r) /\ UNCHANGED <<dedupStore, boots>>
    BY <1>3 DEF ReadFails, AnswerOnly, Forwarding
  <2>2. \A k \in Key : HoldersOf(k)' = HoldersOf(k)
    BY <2>1, HolderEnds DEF HoldersOf
  <2> QED
    BY <2>1, <2>2 DEF Shown
<1>4. ASSUME Restart PROVE Ledger!Next
  <2>1. \A k \in Key : HoldersOf(k)' = {}
    BY <1>4 DEF Restart, HoldersOf, Forwarding
  <2> QED
    BY <1>4, <2>1 DEF Restart, Ledger!NewProcess, Ledger!Next
<1>5. ASSUME NEW r \in Request, NEW d \in Delivery, NEW s \in Secret \cup {Missing},
             Arrive(r, d, s)
      PROVE  UNCHANGED Shown
  <2>1. /\ Forwarding' = Forwarding /\ r \notin Forwarding
        /\ \A q \in Request \ {r} : delivery'[q] = delivery[q]
        /\ UNCHANGED <<dedupStore, boots>>
    BY <1>5 DEF Arrive, Forwarding, TypeOK
  <2>2. \A k \in Key : HoldersOf(k)' = HoldersOf(k)
    BY <2>1 DEF HoldersOf, KeyOf, Forwarding
  <2> QED
    BY <2>1, <2>2 DEF Shown
<1>6. ASSUME (\E m \in wire : Hook(m)) \/ ReplayForgets \/ UNCHANGED vars
      PROVE  UNCHANGED Shown
  <2>1. UNCHANGED <<dedupStore, boots, pc, delivery>>
    BY <1>6 DEF Hook, HookAccepts, HookRefuses, PostLost, ReplayForgets, vars, handler
  <2> QED
    BY <2>1 DEF Shown, HoldersOf, Forwarding, KeyOf
<1> QED
  BY <1>1, <1>2, <1>3, <1>4, <1>5, <1>6 DEF Next, Handle

\* Seen through the dedup store and the handlers that forward, the dispatcher
\* implements the key ledger: only the handler that put a key into the store takes
\* it out, and one whose forward succeeded stays there until a restart.
THEOREM DispatcherImplementsLedger == Spec => ImplementsLedger
<1>1. Init => Ledger!Init
  BY DEF Init, Ledger!Init, HoldersOf, Forwarding
<1>2. Inv /\ [Next]_vars => [Ledger!Next]_(Ledger!state)
  BY NextRefines DEF Shown, Ledger!state
<1> QED
  BY <1>1, <1>2, InvHolds, PTL DEF Spec, Ledger!Spec, ImplementsLedger
=============================================================================
