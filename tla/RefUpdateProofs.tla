---------------------------- MODULE RefUpdateProofs ----------------------------
(***************************************************************************)
(* Theorems about RefUpdate for any number of calls, variables, refs and   *)
(* deployments.                                                            *)
(***************************************************************************)
EXTENDS RefUpdate, TLAPS

AllAssumptions == RequestsAssumption /\ DeploysAssumption /\ ValuesAssumption

Pure(c) == ReadCurrent(c) \/ ConfirmNoop(c) \/ Poll(c) \/ AssertReady(c) \/ Verify(c) \/ Crash(c)

\* Reads, polls and the end of a process change nothing but the step.
LEMMA PureStep ==
  ASSUME NEW c \in Call, Pure(c), TypeOK
  PROVE  /\ Active(c)
         /\ \E s \in Steps \cup Outcomes : Go(c, s)
         /\ UNCHANGED <<service, req, prior, touched, quiet>>
BY Zenon DEF Pure, ReadCurrent, ConfirmNoop, Poll, AssertReady, Verify, Crash,
       Active, Steps, Outcomes, Untouched, WasUpdated

\* A service before any call is well-typed.
LEMMA InitTypeOK == Init => TypeOK
BY RequestsAssumption, DeploysAssumption, ValuesAssumption
   DEF Init, TypeOK, Deploy, DeploysAssumption, Value

\* Every step keeps the declared shape.
LEMMA NextTypeOK == ASSUME TypeOK, [Next]_vars PROVE TypeOK'
<1> USE DEF TypeOK
<1>1. ASSUME NEW c \in Call, NEW q \in Requests, Start(c, q) PROVE TypeOK'
  BY <1>1 DEF Start, Go, Steps, service, Active
<1>2. ASSUME NEW c \in Call, Pure(c) PROVE TypeOK'
  BY <1>2, PureStep DEF Go, service, Active, Steps
<1>3. ASSUME NEW c \in Call, ListPrior(c) PROVE TypeOK'
  BY <1>3 DEF ListPrior, Go, service, Steps, Outcomes, Untouched
<1>4. ASSUME NEW c \in Call, Write(c) PROVE TypeOK'
  <2>1. NextOf(c) \in Value /\ req[c].variable \in Variable
    BY <1>4, RequestsAssumption DEF Write, NextOf, Value, RequestsAssumption
  <2>2. /\ pc' \in [Call -> {"idle"} \cup Steps \cup Outcomes]
        /\ \A e \in Call : pc'[e] # "idle" => req[e] \in Requests
    BY <1>4 DEF Write, Go, Steps, Outcomes
  <2>3. /\ variables' \in [Variable -> Value \cup {Unset}]
        /\ touched' \in [Call -> SUBSET {"variable", "dropped", "deployment"}]
    <3>1. CASE Apply(c)
      <4>1. variables' \in [Variable -> Value \cup {Unset}]
        BY <2>1, <3>1 DEF Apply
      <4>2. touched[c] \cup {"variable"} \in SUBSET {"variable", "dropped", "deployment"}
        OBVIOUS
      <4> QED BY <3>1, <4>1, <4>2 DEF Apply
    <3>2. CASE UNCHANGED <<variables, touched>>
      BY <3>2
    <3>3. CASE Drop(c)
      <4>1. touched[c] \cup {"dropped"} \in SUBSET {"variable", "dropped", "deployment"}
        OBVIOUS
      <4> QED BY <3>3, <4>1 DEF Drop
    <3> QED BY <1>4, <3>1, <3>2, <3>3 DEF Write
  <2> QED
    BY <1>4, <2>2, <2>3 DEF Write
<1>5. ASSUME NEW c \in Call, Redeploy(c) PROVE TypeOK'
  <2>1. /\ pc' \in [Call -> {"idle"} \cup Steps \cup Outcomes]
        /\ \A e \in Call : pc'[e] # "idle" => req[e] \in Requests
        /\ UNCHANGED <<variables, shown, req, prior, quiet>>
    BY <1>5 DEF Redeploy, Go, Steps, Outcomes, WasUpdated
  <2>2. CASE Deployed(c)
    <3>1. last + 1 \in Deploy /\ last' = last + 1 /\ 0..last \subseteq 0..last'
      BY <2>2, DeploysAssumption DEF Deployed, Deploy, DeploysAssumption
    <3>2. touched' \in [Call -> SUBSET {"variable", "dropped", "deployment"}]
      BY <2>2 DEF Deployed
    <3>3. /\ status' \in [Deploy -> {"none", "building", "SUCCESS", "FAILED"}]
          /\ built' \in [Deploy -> [Variable -> Value \cup {Unset}]]
      BY <2>2, <3>1 DEF Deployed
    <3>4. \A d \in Deploy : status'[d] = "none" <=> d > last'
      BY <2>2, <3>1 DEF Deployed, Deploy
    <3> QED
      BY <2>1, <3>1, <3>2, <3>3, <3>4
  <2>3. CASE UNCHANGED <<last, status, built, touched>>
    BY <2>1, <2>3
  <2> QED
    BY <1>5, <2>2, <2>3 DEF Redeploy
<1>6. ASSUME NEW d \in Deploy, Build(d) PROVE TypeOK'
  BY <1>6 DEF Build
<1>7. CASE RollOver
  <2>1. /\ shown' \in 0..last
        /\ UNCHANGED <<variables, last, status, built, pc, req, prior, touched, quiet>>
    BY <1>7, DeploysAssumption DEF RollOver, Deploy, DeploysAssumption
  <2> QED
    BY <2>1
<1>8. CASE UNCHANGED vars
  BY <1>8 DEF vars, service
<1> QED
  BY <1>1, <1>2, <1>3, <1>4, <1>5, <1>6, <1>7, <1>8 DEF Next, Step, Pure

\* Every reachable state has the declared shape; deployments are numbered
\* without gaps and the listing never runs ahead.
THEOREM TypeCorrect == Spec => []TypeOK
<1> QED
  BY InitTypeOK, NextTypeOK, PTL DEF Spec

-----------------------------------------------------------------------------
\* What a call has touched, and what it has seen, at each of its steps.
TouchedInv == \A c \in Call :
  /\ pc[c] \in {"idle", "reading", "confirming", "listing", "writing"} \cup Untouched
       => touched[c] = {}
  /\ pc[c] = "uncertain" => touched[c] \subseteq {"variable"}
  /\ pc[c] \in {"redeploying", "polling", "readying", "verifying"} \cup WasUpdated
       => {"variable", "dropped"} \cap touched[c] # {}

\* No call has touched anything.
LEMMA InitTouched == Init => TouchedInv
BY DEF Init, TouchedInv, Untouched, WasUpdated

\* A step records what it changes before a later step can report on it.
LEMMA NextTouched ==
  ASSUME TypeOK, TouchedInv, [Next]_vars PROVE TouchedInv'
<1> USE DEF TypeOK, TouchedInv, Go, Untouched, WasUpdated
<1>1. ASSUME NEW c \in Call, NEW q \in Requests, Start(c, q) PROVE TouchedInv'
  BY <1>1 DEF Start
<1>2. ASSUME NEW c \in Call, ReadCurrent(c) \/ ConfirmNoop(c) \/ ListPrior(c)
      PROVE  TouchedInv'
  BY <1>2 DEF ReadCurrent, ConfirmNoop, ListPrior
<1>3. ASSUME NEW c \in Call, Write(c) PROVE TouchedInv'
  <2>1. pc[c] = "writing" /\ touched[c] = {}
    BY <1>3 DEF Write
  <2>2. \A d \in Call \ {c} : pc'[d] = pc[d] /\ touched'[d] = touched[d]
    BY <1>3 DEF Write, Apply, Drop
  <2>3. \/ pc'[c] = "redeploying" /\ touched'[c] = {"variable"}
        \/ pc'[c] = "redeploying" /\ touched'[c] = {"dropped"}
        \/ pc'[c] = "uncertain" /\ touched'[c] \subseteq {"variable"}
    BY <1>3, <2>1 DEF Write, Apply, Drop
  <2> QED
    BY <2>2, <2>3
<1>4. ASSUME NEW c \in Call, Redeploy(c) PROVE TouchedInv'
  BY <1>4 DEF Redeploy, Deployed
<1>5. ASSUME NEW c \in Call, Poll(c) \/ AssertReady(c) \/ Verify(c) PROVE TouchedInv'
  BY <1>5 DEF Poll, AssertReady, Verify
<1>6. ASSUME NEW c \in Call, Crash(c) PROVE TouchedInv'
  BY <1>6 DEF Crash
<1>7. ASSUME (\E d \in Deploy : Build(d)) \/ RollOver \/ UNCHANGED vars PROVE TouchedInv'
  BY <1>7 DEF Build, RollOver, vars
<1> QED
  BY <1>1, <1>2, <1>3, <1>4, <1>5, <1>6, <1>7 DEF Next, Step

\* Every outcome says truly whether the live service was touched.
THEOREM OutcomesAreTruthful == Spec => []OutcomeSaysWhatChanged
<1>1. TypeOK /\ TouchedInv => OutcomeSaysWhatChanged
  BY DEF TypeOK, TouchedInv, OutcomeSaysWhatChanged
<1> QED
  BY <1>1, InitTypeOK, NextTypeOK, InitTouched, NextTouched, PTL DEF Spec

-----------------------------------------------------------------------------
\* Deployments newer than the one a call set out to replace.
Newer(c, s) == \E d \in Deploy : d > prior[c] /\ status[d] = s

SeenInv == \A c \in Call :
  /\ prior[c] <= shown
  /\ pc[c] \in {"readying", "verifying", "updated"} => Newer(c, "SUCCESS")
  /\ pc[c] = "terminal" => Newer(c, "FAILED")

\* No call has seen anything.
LEMMA InitSeen == Init => SeenInv
BY DEF Init, SeenInv

\* A listing that no longer shows the prior deployment shows a newer one.
LEMMA PollSees ==
  ASSUME TypeOK, SeenInv, NEW c \in Call, shown > 0, RolledOver(c)
  PROVE  shown \in Deploy /\ shown > prior[c]
BY DeploysAssumption DEF TypeOK, SeenInv, RolledOver, Deploy, DeploysAssumption

\* A deployment that has ended never changes again, and none is reused.
LEMMA EndedStays ==
  ASSUME TypeOK, [Next]_vars, NEW d \in Deploy, status[d] \in {"SUCCESS", "FAILED"}
  PROVE  status'[d] = status[d]
<1>1. ASSUME NEW c \in Call, Redeploy(c) PROVE status'[d] = status[d]
  BY <1>1, DeploysAssumption DEF Redeploy, Deployed, TypeOK, Deploy, DeploysAssumption
<1>2. ASSUME NEW e \in Deploy, Build(e) PROVE status'[d] = status[d]
  BY <1>2 DEF Build, TypeOK
<1> QED
  BY <1>1, <1>2 DEF Next, Start, Step, ReadCurrent, ConfirmNoop, ListPrior, Write, Poll,
     AssertReady, Verify, Crash, RollOver, service, vars

\* The listing never goes back.
LEMMA ShownGrows ==
  ASSUME TypeOK, [Next]_vars PROVE shown' \in Nat /\ shown <= shown'
<1>1. CASE RollOver
  BY <1>1, DeploysAssumption DEF RollOver, TypeOK, Deploy, DeploysAssumption
<1>2. CASE UNCHANGED shown
  BY <1>2 DEF TypeOK
<1> QED
  BY <1>1, <1>2 DEF Next, Start, Step, ReadCurrent, ConfirmNoop, ListPrior, Write, Poll,
     Redeploy, AssertReady, Verify, Crash, Build, service, vars

\* A call goes on from its poll only with a newer deployment seen.
LEMMA NextSeen == ASSUME TypeOK, SeenInv, [Next]_vars PROVE SeenInv'
<1> USE DEF SeenInv
<1>0. ASSUME NEW c \in Call, NEW s \in {"SUCCESS", "FAILED"}, Newer(c, s),
             prior'[c] = prior[c]
      PROVE  Newer(c, s)'
  BY <1>0, EndedStays DEF Newer
<1>1. ASSUME UNCHANGED <<prior, pc>> PROVE SeenInv'
  BY <1>0, <1>1, ShownGrows DEF TypeOK
<1>2. ASSUME NEW c \in Call, NEW q \in Requests, Start(c, q) PROVE SeenInv'
  BY <1>0, <1>2, ShownGrows DEF Start, Go, TypeOK, service
<1>3. ASSUME NEW c \in Call, ListPrior(c) PROVE SeenInv'
  <2>1. \A e \in Call : prior'[e] <= shown'
    BY <1>3 DEF ListPrior, TypeOK, service
  <2>2. pc'[c] \in {"writing", "refused", "failed"}
    BY <1>3 DEF ListPrior, Go, TypeOK
  <2>3. \A e \in Call \ {c} : pc'[e] = pc[e] /\ prior'[e] = prior[e]
    BY <1>3 DEF ListPrior, Go, TypeOK
  <2> QED
    BY <1>0, <2>1, <2>2, <2>3
<1>4. ASSUME NEW c \in Call, Poll(c) PROVE SeenInv'
  <2>1. pc'[c] = "readying" => Newer(c, "SUCCESS")
    BY <1>4, PollSees DEF Poll, Go, Newer, TypeOK
  <2>2. pc'[c] = "terminal" => Newer(c, "FAILED")
    BY <1>4, PollSees DEF Poll, Go, Newer, TypeOK
  <2>3. pc'[c] \in {"readying", "terminal", "unconfirmed"}
    BY <1>4 DEF Poll, Go, TypeOK
  <2>4. \A e \in Call \ {c} : pc'[e] = pc[e]
    BY <1>4 DEF Poll, Go, TypeOK
  <2>5. UNCHANGED <<prior, shown>>
    BY <1>4 DEF Poll, service
  <2> QED
    BY <1>0, <2>1, <2>2, <2>3, <2>4, <2>5
<1>5. ASSUME NEW c \in Call,
             ReadCurrent(c) \/ ConfirmNoop(c) \/ Write(c) \/ Redeploy(c) \/ Crash(c)
      PROVE  SeenInv'
  <2>1. /\ pc'[c] \in {"refused", "failed", "noop", "confirming", "listing", "redeploying",
                       "uncertain", "polling", "unconfirmed", "crashed"}
        /\ \A e \in Call \ {c} : pc'[e] = pc[e]
        /\ UNCHANGED prior
    BY <1>5 DEF ReadCurrent, ConfirmNoop, Write, Redeploy, Crash, Go, TypeOK
  <2> QED
    BY <1>0, <2>1, ShownGrows DEF TypeOK
<1>6. ASSUME NEW c \in Call, AssertReady(c) \/ Verify(c) PROVE SeenInv'
  BY <1>0, <1>6, ShownGrows DEF AssertReady, Verify, Go, TypeOK
<1>7. ASSUME (\E d \in Deploy : Build(d)) \/ RollOver \/ UNCHANGED vars
      PROVE  UNCHANGED <<prior, pc>>
  BY <1>7 DEF Build, RollOver, vars
<1> QED
  BY <1>1, <1>2, <1>3, <1>4, <1>5, <1>6, <1>7 DEF Next, Step

\* A call succeeds or fails on a deployment newer than the prior one, under any
\* interleaving of calls and any lag of the listing.
THEOREM NewDeploymentsAreJudged == Spec => []JudgesNewDeployments
<1>1. SeenInv => JudgesNewDeployments
  BY DEF SeenInv, Newer, JudgesNewDeployments
<1> QED
  BY <1>1, InitTypeOK, NextTypeOK, InitSeen, NextSeen, PTL DEF Spec

-----------------------------------------------------------------------------
\* While a call is alone nobody else moves the variable or deploys: what it read
\* is still there when it writes, the listing is up to date until it redeploys,
\* and the one deployment made since then is its own, built from what the variable
\* holds, which is what the call reads back before it reports success.
Unmoved(c) ==
  /\ \A d \in Call \ {c} : ~Active(d)
  /\ pc[c] \in {"reading", "confirming", "listing", "writing", "redeploying"} => shown = last
  /\ pc[c] \in {"listing", "writing"} /\ req[c].kind = "update"
       => Current(c) = req[c].expected
  /\ pc[c] \in {"writing", "redeploying"} => prior[c] = last
  /\ pc[c] \in {"polling", "readying", "verifying"} =>
       last = prior[c] + 1 /\ built[last][req[c].variable] = Current(c)
  /\ pc[c] \in {"readying", "verifying"} => status[last] = "SUCCESS"

QuietInv == \A c \in Call : Active(c) /\ quiet[c] = "quiet" => Unmoved(c)

\* No call has begun.
LEMMA InitQuiet == Init => QuietInv
BY DEF Init, QuietInv, Active, Steps

\* A step of a call is one of an active call, and changes no other call's.
LEMMA OwnStep ==
  ASSUME TypeOK, NEW c \in Call, Step(c) \/ Crash(c)
  PROVE  /\ Active(c)
         /\ \A d \in Call \ {c} : pc'[d] = pc[d]
         /\ UNCHANGED <<req, quiet>>
BY DEF TypeOK, Step, ReadCurrent, ConfirmNoop, ListPrior, Write, Redeploy, Poll, AssertReady,
       Verify, Crash, Active, Steps, Go, Apply, Drop, Deployed

\* What may happen while a call is alone: its own steps and the platform's.
LEMMA AloneStep ==
  ASSUME TypeOK, QuietInv, [Next]_vars, NEW c \in Call, Active(c)', quiet'[c] = "quiet"
  PROVE  \/ \E q \in Requests : /\ Start(c, q) /\ shown = last
                                /\ \A d \in Call : ~Active(d)
         \/ /\ Active(c) /\ quiet[c] = "quiet"
            /\ Step(c) \/ (\E d \in Deploy : Build(d)) \/ RollOver \/ UNCHANGED vars
<1>1. ASSUME NEW d \in Call, NEW q \in Requests, Start(d, q)
      PROVE  d = c /\ shown = last /\ \A e \in Call : ~Active(e)
  <2>1. quiet'[c] = IF c = d
                    THEN IF shown = last /\ \A e \in Call : ~Active(e)
                         THEN "quiet" ELSE "overlapped"
                    ELSE IF Active(c) THEN "overlapped" ELSE quiet[c]
    BY <1>1 DEF Start
  <2>2. d # c => Active(c)
    BY <1>1 DEF Start, Go, TypeOK, Active
  <2> QED
    BY <2>1, <2>2
<1>2. ASSUME NEW d \in Call, Step(d) \/ Crash(d)
      PROVE  Active(c) /\ quiet[c] = "quiet" /\ d = c
  <2>1. Active(d) /\ quiet' = quiet /\ (d # c => pc'[c] = pc[c])
    BY <1>2, OwnStep
  <2> QED
    BY <2>1 DEF QuietInv, Unmoved, Active
<1>3. ~Crash(c)
  BY DEF Crash, Go, TypeOK, Active, Steps
<1>4. ASSUME (\E d \in Deploy : Build(d)) \/ RollOver \/ UNCHANGED vars
      PROVE  Active(c) /\ quiet[c] = "quiet"
  BY <1>4 DEF Build, RollOver, vars, Active
<1> QED
  BY <1>1, <1>2, <1>3, <1>4 DEF Next

\* The call's own steps keep what is said of it.
LEMMA UnmovedByItself ==
  ASSUME TypeOK, SeenInv, NEW c \in Call, Unmoved(c), Step(c), Active(c)'
  PROVE  Unmoved(c)'
<1> USE DEF Unmoved, TypeOK, Go
<1>1. \A d \in Call \ {c} : ~Active(d)'
  BY OwnStep DEF Active
<1>2. CASE ReadCurrent(c)
  BY <1>1, <1>2 DEF ReadCurrent, Refuses, Stale, Current, service, Active, Steps
<1>3. CASE ConfirmNoop(c)
  BY <1>1, <1>3 DEF ConfirmNoop, Active, Steps
<1>4. CASE ListPrior(c)
  BY <1>1, <1>4 DEF ListPrior, Current, service, Active, Steps
<1>5. CASE Write(c)
  <2>1. /\ pc'[c] = "redeploying" /\ UNCHANGED <<last, status, built, shown, req, prior>>
    BY <1>5 DEF Write, Active, Steps
  <2> QED
    BY <1>1, <1>5, <2>1 DEF Write
<1>6. CASE Redeploy(c)
  <2>1. /\ Deployed(c) /\ pc'[c] = "polling" /\ UNCHANGED <<req, prior>>
    BY <1>6 DEF Redeploy, Active, Steps
  <2>2. last + 1 \in Deploy /\ last \in Nat
    BY <2>1, DeploysAssumption DEF Deployed, Deploy, DeploysAssumption
  <2>3. req[c].variable \in Variable
    BY <1>6, RequestsAssumption DEF Redeploy, RequestsAssumption
  <2>4. last' = prior'[c] + 1
    BY <1>6, <2>1 DEF Redeploy, Deployed
  <2>5. built'[last'][req'[c].variable] = Current(c)'
    BY <1>6, <2>1, <2>2, <2>3 DEF Redeploy, Deployed, Current
  <2> QED
    BY <1>1, <2>1, <2>4, <2>5
<1>7. CASE Poll(c)
  <2>1. /\ pc'[c] = "readying" /\ shown > 0 /\ RolledOver(c) /\ status[shown] = "SUCCESS"
        /\ UNCHANGED <<service, req, prior>>
    BY <1>7 DEF Poll, Active, Steps
  <2>2. last = prior[c] + 1 /\ built[last][req[c].variable] = Current(c)
    BY <1>7 DEF Poll
  <2>3. shown = last
    BY <2>1, <2>2, PollSees DEF Deploy
  <2> QED
    BY <1>1, <2>1, <2>2, <2>3 DEF service, Current
<1>8. CASE AssertReady(c)
  BY <1>1, <1>8 DEF AssertReady, service, Current, Active, Steps
<1>9. CASE Verify(c)
  BY <1>9 DEF Verify, Active, Steps
<1> QED
  BY <1>2, <1>3, <1>4, <1>5, <1>6, <1>7, <1>8, <1>9 DEF Step

\* So do the platform's.
LEMMA UnmovedByPlatform ==
  ASSUME TypeOK, NEW c \in Call, Unmoved(c),
         (\E d \in Deploy : Build(d)) \/ RollOver \/ UNCHANGED vars
  PROVE  Unmoved(c)'
<1> USE DEF Unmoved, TypeOK
<1>1. ASSUME NEW d \in Deploy, Build(d) PROVE Unmoved(c)'
  <2>1. status[last] = "SUCCESS" => status'[last] = "SUCCESS"
    BY <1>1 DEF Build
  <2> QED
    BY <1>1, <2>1 DEF Build, Current, Active
<1>2. CASE RollOver
  <2>1. shown # last
    BY <1>2, DeploysAssumption DEF RollOver, Deploy, DeploysAssumption
  <2> QED
    BY <1>2, <2>1 DEF RollOver, Current, Active
<1>3. CASE UNCHANGED vars
  BY <1>3 DEF vars, service, Current, Active
<1> QED
  BY <1>1, <1>2, <1>3

\* Nobody moves a call's variable while it is alone.
LEMMA NextQuiet ==
  ASSUME TypeOK, SeenInv, QuietInv, [Next]_vars PROVE QuietInv'
<1> SUFFICES ASSUME NEW c \in Call, Active(c)', quiet'[c] = "quiet"
             PROVE  Unmoved(c)'
  BY DEF QuietInv
<1>1. ASSUME NEW q \in Requests, Start(c, q), shown = last, \A d \in Call : ~Active(d)
      PROVE  Unmoved(c)'
  BY <1>1 DEF Start, Go, TypeOK, Unmoved, Active, service
<1>2. CASE Active(c) /\ quiet[c] = "quiet" /\ Step(c)
  BY <1>2, UnmovedByItself DEF QuietInv
<1>3. CASE /\ Active(c) /\ quiet[c] = "quiet"
           /\ (\E d \in Deploy : Build(d)) \/ RollOver \/ UNCHANGED vars
  BY <1>3, UnmovedByPlatform DEF QuietInv
<1> QED
  BY <1>1, <1>2, <1>3, AloneStep

\* The invariant the two properties of a call alone need.
LEMMA QuietHolds == Spec => [](TypeOK /\ SeenInv /\ QuietInv)
<1> QED
  BY InitTypeOK, NextTypeOK, InitSeen, NextSeen, InitQuiet, NextQuiet, PTL DEF Spec

\* A call alone reports success only when the deployment that runs was built
\* from the value it set out to write, however the listing lagged behind and
\* whether or not the write took effect.
THEOREM QuietUpdatesRunTheirValue == Spec => QuietUpdateRunsItsValue
<1>1. ASSUME TypeOK, QuietInv, [Next]_vars, NEW c \in Call,
             pc[c] # "updated", pc'[c] = "updated", quiet[c] = "quiet"
      PROVE  \E d \in Deploy : Runs(d) /\ built[d][req[c].variable] = NextOf(c)
  <2>1. pc[c] = "verifying" /\ Current(c) = NextOf(c)
    <3>1. ASSUME NEW d \in Call, Step(d) \/ Crash(d) PROVE d = c
      BY <1>1, <3>1, OwnStep
    <3>2. ASSUME NEW d \in Call, NEW q \in Requests, Start(d, q) PROVE FALSE
      BY <1>1, <3>2 DEF Start, Go, TypeOK
    <3>3. ASSUME (\E d \in Deploy : Build(d)) \/ RollOver \/ UNCHANGED vars PROVE FALSE
      BY <1>1, <3>3 DEF Build, RollOver, vars
    <3>4. Step(c) \/ Crash(c)
      BY <1>1, <3>1, <3>2, <3>3 DEF Next
    <3> QED
      BY <1>1, <3>4 DEF Step, ReadCurrent, ConfirmNoop, ListPrior, Write, Redeploy, Poll,
                        AssertReady, Verify, Crash, Go, TypeOK
  <2>2. Unmoved(c)
    BY <1>1, <2>1 DEF QuietInv, Active, Steps
  <2>3. Runs(last)
    BY <1>1, <2>1, <2>2, DeploysAssumption DEF Unmoved, Runs, TypeOK, Deploy, DeploysAssumption
  <2> QED
    BY <1>1, <2>1, <2>2, <2>3 DEF Unmoved, TypeOK
<1>2. ASSUME TypeOK, QuietInv, [Next]_vars
      PROVE  [\A c \in Call :
                /\ pc[c] # "updated" /\ pc'[c] = "updated"
                /\ quiet[c] = "quiet"
                => \E d \in Deploy : Runs(d) /\ built[d][req[c].variable] = NextOf(c)]_vars
  BY <1>1, <1>2
<1> QED
  BY <1>2, QuietHolds, PTL DEF Spec, QuietUpdateRunsItsValue

\* A call alone overwrites only the value its caller expected: the check and the
\* write are two commands, with nothing but its being alone to hold them together.
THEOREM QuietWritesAreExpected == Spec => QuietWriteIsExpected
<1>1. ASSUME TypeOK, QuietInv, [Next]_vars, NEW c \in Call,
             "variable" \notin touched[c], "variable" \in touched'[c],
             quiet[c] = "quiet", req[c].kind = "update"
      PROVE  Current(c) = req[c].expected
  <2>1. pc[c] = "writing"
    <3>1. ASSUME NEW d \in Call, Write(d) PROVE pc[c] = "writing"
      BY <1>1, <3>1 DEF Write, Apply, Drop, TypeOK
    <3>2. ASSUME NEW d \in Call, Redeploy(d) PROVE FALSE
      BY <1>1, <3>2 DEF Redeploy, Deployed, TypeOK
    <3>3. ASSUME UNCHANGED touched PROVE FALSE
      BY <1>1, <3>3
    <3> QED
      BY <1>1, <3>1, <3>2, <3>3 DEF Next, Step, Start, ReadCurrent, ConfirmNoop, ListPrior, Poll,
         AssertReady, Verify, Crash, Build, RollOver, vars
  <2> QED
    BY <1>1, <2>1 DEF QuietInv, Unmoved, Active, Steps
<1>2. ASSUME TypeOK, QuietInv, [Next]_vars
      PROVE  [\A c \in Call :
                /\ "variable" \notin touched[c] /\ "variable" \in touched'[c]
                /\ quiet[c] = "quiet" /\ req[c].kind = "update"
                => Current(c) = req[c].expected]_vars
  BY <1>1, <1>2
<1> QED
  BY <1>2, QuietHolds, PTL DEF Spec, QuietWriteIsExpected
=============================================================================
