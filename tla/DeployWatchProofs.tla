--------------------------- MODULE DeployWatchProofs ----------------------------
(***************************************************************************)
(* Theorems about DeployWatch for any number of commits and deployments,   *)
(* any set of sound commits and any way a deployment may stop.             *)
(***************************************************************************)
EXTENDS DeployWatch, SequenceTheorems, WellFoundedInduction, TLAPS

AllAssumptions == BoundsAssumption /\ StoppedAssumption /\ SoundAssumption

USE DEF AllAssumptions, BoundsAssumption, StoppedAssumption, SoundAssumption

\* A set of numbers that is not empty has a least one.
LEMMA Least ==
  ASSUME NEW T \in SUBSET Nat, T # {}
  PROVE  \E x \in T : \A y \in T : x <= y
<1>1. IsWellFoundedOn({p \in Nat \X Nat : p[1] < p[2]}, Nat)
  BY NatLessThanWellFounded DEF OpToRel
<1>2. PICK x \in T : \A y \in T : <<y, x>> \notin {p \in Nat \X Nat : p[1] < p[2]}
  BY <1>1, WFMin
<1>3. ASSUME NEW y \in T PROVE x <= y
  <2>1. ~(<<y, x>>[1] < <<y, x>>[2])
    BY <1>2, <1>3
  <2> QED BY <2>1, <1>3
<1> QED BY <1>3

-----------------------------------------------------------------------------
(* What the platform's steps keep.                                         *)

\* Deployments are records, numbered from one.
LEMMA Records ==
  ASSUME PlatformType
  PROVE  /\ Len(deployments) \in Nat \ {0}
         /\ DOMAIN deployments = 1..Len(deployments)
         /\ \A d \in DOMAIN deployments :
              /\ deployments[d] \in Deployment
              /\ deployments[d].commit \in Commit /\ deployments[d].status \in Status
              /\ deployments[d] = [commit |-> deployments[d].commit,
                                   status |-> deployments[d].status]
<1>1. /\ Len(deployments) \in Nat \ {0}
      /\ DOMAIN deployments = 1..Len(deployments)
  BY LenProperties, BoundsAssumption DEF PlatformType
<1>2. \A d \in DOMAIN deployments : deployments[d] \in Deployment
  BY <1>1, ElementOfSeq DEF PlatformType
<1> QED BY <1>1, <1>2 DEF Deployment

\* A deployment that changes its status changes nothing else.
LEMMA BecomesKeeps ==
  ASSUME PlatformType, NEW d \in DOMAIN deployments, NEW s \in Status, Becomes(d, s)
  PROVE  /\ deployments' \in Seq(Deployment)
         /\ Len(deployments') = Len(deployments)
         /\ \A e \in DOMAIN deployments :
              /\ CommitOf(e)' = CommitOf(e)
              /\ StatusOf(e)' = IF e = d THEN s ELSE StatusOf(e)
<1> DEFINE D == [deployments[d] EXCEPT !.status = s]
<1>1. D \in Deployment /\ D.commit = deployments[d].commit /\ D.status = s
  BY Records DEF Deployment
<1>2. deployments' = [deployments EXCEPT ![d] = D]
  BY DEF Becomes
<1> HIDE DEF D
<1>3. /\ deployments' \in Seq(Deployment)
      /\ Len(deployments') = Len(deployments)
      /\ \A e \in DOMAIN deployments : deployments'[e] = IF e = d THEN D ELSE deployments[e]
  BY <1>1, <1>2, ExceptSeq, Records DEF PlatformType
<1> QED
  BY <1>1, <1>3 DEF PlatformType, CommitOf, StatusOf

\* A new deployment comes last.
LEMMA NewKeeps ==
  ASSUME PlatformType, NEW c \in Commit, NEW s \in Status, NewDeployment(c, s)
  PROVE  /\ deployments' \in Seq(Deployment)
         /\ Len(deployments') = Len(deployments) + 1
         /\ Len(deployments') <= MaxDeployments
         /\ deployments'[Len(deployments) + 1].commit = c
         /\ deployments'[Len(deployments) + 1].status = s
         /\ \A e \in DOMAIN deployments :
              CommitOf(e)' = CommitOf(e) /\ StatusOf(e)' = StatusOf(e)
<1> DEFINE D == [commit |-> c, status |-> s]
<1>1. D \in Deployment /\ D.commit = c /\ D.status = s
  BY DEF Deployment
<1>2. deployments' = Append(deployments, D) /\ Len(deployments) < MaxDeployments
  BY DEF NewDeployment
<1> HIDE DEF D
<1>3. /\ deployments' \in Seq(Deployment)
      /\ Len(deployments') = Len(deployments) + 1
      /\ deployments'[Len(deployments) + 1] = D
      /\ \A e \in 1..Len(deployments) : deployments'[e] = deployments[e]
  BY <1>1, <1>2, AppendProperties DEF PlatformType
<1> QED
  BY <1>1, <1>2, <1>3, Records, BoundsAssumption DEF CommitOf, StatusOf

\* What every step of the platform keeps of the deployments.
Keeps ==
  /\ deployments' \in Seq(Deployment)
  /\ Len(deployments') \in Len(deployments)..MaxDeployments
  /\ route' \in 1..Len(deployments')
  /\ \A e \in DOMAIN deployments : CommitOf(e)' = CommitOf(e)

\* A new deployment leaves the others alone.
LEMMA NewOne ==
  ASSUME PlatformType, NEW c \in Commit, NEW s \in Status, NewDeployment(c, s),
         UNCHANGED route
  PROVE  Keeps
<1>1. /\ deployments' \in Seq(Deployment)
      /\ Len(deployments') = Len(deployments) + 1
      /\ Len(deployments') <= MaxDeployments
      /\ \A e \in DOMAIN deployments : CommitOf(e)' = CommitOf(e)
  BY NewKeeps
<1> QED
  BY <1>1, BoundsAssumption, Records DEF Keeps, PlatformType

\* So does one that changes its status.
LEMMA NewStatus ==
  ASSUME PlatformType, NEW d \in DOMAIN deployments, NEW s \in Status, Becomes(d, s)
  PROVE  Keeps
<1>1. /\ deployments' \in Seq(Deployment)
      /\ Len(deployments') = Len(deployments)
      /\ \A e \in DOMAIN deployments : CommitOf(e)' = CommitOf(e)
  BY BecomesKeeps
<1> QED
  BY <1>1, Records, BoundsAssumption DEF Keeps, PlatformType, Becomes

\* Every step of the platform.
LEMMA PlatformKeeps ==
  ASSUME PlatformType, PlatformStep PROVE PlatformType' /\ Keeps
<1>1. ASSUME Push PROVE Keeps /\ suites' \in [Commit -> [Workflow -> SuiteState]]
  <2>1. Keeps
    BY <1>1, NewOne DEF Push, Status
  <2>2. PICK c \in Commit : suites' = [suites EXCEPT ![c] =
          [w \in Workflow |-> IF w \in PushSuites THEN "running" ELSE "none"]]
    BY <1>1 DEF Push
  <2> QED
    BY <2>1, <2>2 DEF PlatformType, SuiteState
<1>2. ASSUME Redeploy PROVE Keeps /\ UNCHANGED suites
  BY <1>2, NewOne DEF Redeploy, Status
<1>3. ASSUME NEW c \in Commit, CiEnds(c)
      PROVE  Keeps /\ suites' \in [Commit -> [Workflow -> SuiteState]]
  <2>1. Keeps
    BY <1>3, Records, BoundsAssumption
       DEF CiEnds, Keeps, PlatformType, CommitOf
  <2>2. PICK s \in {"passed", "failed"} : suites' = [suites EXCEPT ![c]["ci"] = s]
    BY <1>3 DEF CiEnds
  <2> QED
    BY <2>1, <2>2 DEF PlatformType, SuiteState
<1>4. ASSUME NEW d \in DOMAIN deployments, Evolve(d) PROVE Keeps /\ UNCHANGED suites
  <2> USE StoppedAssumption DEF Status, TerminalFailureStatuses
  <2>1. CASE Release(d)
    BY <2>1, NewStatus DEF Release
  <2>2. CASE Skip(d)
    BY <2>2, NewStatus DEF Skip
  <2>3. CASE Approve(d)
    BY <2>3, NewStatus DEF Approve
  <2>4. CASE BuildFails(d)
    BY <2>4, NewStatus DEF BuildFails
  <2>5. CASE BuildSucceeds(d)
    BY <2>5, NewStatus DEF BuildSucceeds
  <2>6. CASE Supersede(d)
    BY <2>6, NewStatus DEF Supersede
  <2>7. CASE Stop(d)
    BY <2>7, NewStatus DEF Stop
  <2>8. CASE Resume(d)
    BY <2>8, NewStatus DEF Resume
  <2>9. CASE TakeOver(d)
    BY <2>9, Records, BoundsAssumption DEF TakeOver, Keeps, PlatformType, CommitOf
  <2>10. CASE Retire(d)
    BY <2>10, NewStatus DEF Retire
  <2> QED
    BY <1>4, <2>1, <2>2, <2>3, <2>4, <2>5, <2>6, <2>7, <2>8, <2>9, <2>10 DEF Evolve
<1>5. Keeps /\ suites' \in [Commit -> [Workflow -> SuiteState]]
  BY <1>1, <1>2, <1>3, <1>4 DEF PlatformStep, PlatformType
<1> QED
  BY <1>5, Records, LenProperties, BoundsAssumption DEF Keeps, PlatformType

-----------------------------------------------------------------------------
(* The declared shape.                                                     *)

\* The first state has it.
LEMMA InitTypeOK == Init => TypeOK
<1> SUFFICES ASSUME Init PROVE TypeOK
  OBVIOUS
<1>1. 1 \in Commit
  BY BoundsAssumption DEF Commit
<1>2. PlatformType
  <2> DEFINE D == [commit |-> 1, status |-> "SUCCESS"]
  <2>1. D \in Deployment
    BY <1>1 DEF Deployment, Status
  <2>2. deployments = <<D>>
    BY DEF Init, PlatformInit
  <2> HIDE DEF D
  <2>3. deployments \in Seq(Deployment) /\ Len(deployments) = 1
    BY <2>1, <2>2
  <2>4. suites \in [Commit -> [Workflow -> SuiteState]]
    BY DEF Init, PlatformInit, SuiteState
  <2>5. route = 1
    BY DEF Init, PlatformInit
  <2> QED
    BY <2>3, <2>4, <2>5, LenProperties, BoundsAssumption DEF PlatformType
<1>3. CheckType
  BY <1>2, Records DEF Init, CheckInit, CheckType, Verdict, Nothing
<1>4. ProofType
  BY <1>1, <1>2, Records DEF Init, ProofInit, ProofType
<1> QED
  BY <1>2, <1>3, <1>4 DEF TypeOK

\* What the check and the proof recorded of the deployments stays in range.
LEMMA WorldTypeOK ==
  ASSUME TypeOK, WorldStep, UNCHANGED check PROVE TypeOK'
<1>1. PlatformType' /\ Len(deployments) <= Len(deployments')
  BY PlatformKeeps, Records
     DEF WorldStep, Checkout, Edit, Drift, Keeps, platform, TypeOK, PlatformType
<1>2. /\ Len(deployments') \in Nat
      /\ DOMAIN deployments \subseteq DOMAIN deployments'
      /\ 0..Len(deployments) \subseteq 0..Len(deployments')
  <2>1. DOMAIN deployments' = 1..Len(deployments') /\ Len(deployments') \in Nat
    BY <1>1, LenProperties DEF PlatformType
  <2> QED
    BY <1>1, <2>1, Records DEF TypeOK
<1>3. CheckType'
  BY <1>2 DEF TypeOK, CheckType, check
<1>4. gitHead' \in Commit /\ tree' \in Commit /\ drifted' \subseteq Setting
  BY DEF TypeOK, ProofType, WorldStep, Checkout, Edit, Drift
<1>5. changes' \in Nat
  BY DEF TypeOK, ProofType, WorldStep, Noted
<1>6. ProofType'
  BY <1>2, <1>4, <1>5 DEF TypeOK, ProofType, WorldStep, Noted, proof, reading
<1> QED
  BY <1>1, <1>3, <1>6 DEF TypeOK

\* A selection is a deployment of the list.
LEMMA LatestType ==
  ASSUME PlatformType PROVE SelectLatestDeployment = Len(deployments)
BY Records DEF SelectLatestDeployment, Listing, Newest

\* The first match of the list is the newest deployment of the commit.
LEMMA FirstMatch ==
  ASSUME PlatformType, NEW c \in Commit
  PROVE  LET s == SelectDeploymentForCommit(c)
         IN  \/ s = Nothing
             \/ /\ s \in DOMAIN deployments
                /\ CommitOf(s) = c
                /\ \A d \in DOMAIN deployments : CommitOf(d) = c => d <= s
<1> DEFINE n       == Len(deployments)
           matches == {i \in DOMAIN Listing : CommitOf(Listing[i]) = c}
           first   == CHOOSE i \in matches : \A j \in matches : i <= j
<1>1. /\ n \in Nat \ {0}
      /\ DOMAIN deployments = 1..n
      /\ DOMAIN Listing = 1..n
      /\ \A i \in 1..n : Listing[i] = n + 1 - i
  BY Records DEF Listing, Newest
<1>2. CASE matches = {}
  BY <1>2 DEF SelectDeploymentForCommit
<1>3. CASE matches # {}
  <2>1. matches \in SUBSET Nat
    BY <1>1
  <2>2. \E i \in matches : \A j \in matches : i <= j
    <3> HIDE DEF matches
    <3> QED BY <1>3, <2>1, Least
  <2>3. first \in matches /\ \A j \in matches : first <= j
    <3> HIDE DEF matches
    <3> QED BY <2>2
  <2>4. SelectDeploymentForCommit(c) = Listing[first]
    BY <1>3 DEF SelectDeploymentForCommit
  <2> HIDE DEF first
  <2>5. first \in 1..n /\ CommitOf(Listing[first]) = c /\ Listing[first] = n + 1 - first
    BY <1>1, <2>3
  <2>6. ASSUME NEW d \in 1..n, CommitOf(d) = c PROVE d <= n + 1 - first
    <3>1. n + 1 - d \in 1..n /\ Listing[n + 1 - d] = d
      BY <1>1
    <3>2. n + 1 - d \in matches
      BY <1>1, <2>6, <3>1
    <3> QED
      BY <1>1, <2>3, <2>5, <3>2
  <2> QED
    BY <1>1, <2>4, <2>5, <2>6
<1> QED
  BY <1>2, <1>3

\* A run of the check keeps to its own variables and to its commit's suite.
LEMMA CheckTypeOK ==
  ASSUME TypeOK, CheckStep, Unwatched PROVE TypeOK'
<1> USE DEF Verdict, Nothing
<1>1. /\ Len(deployments) \in Nat \ {0}
      /\ \A d \in DOMAIN deployments : StatusOf(d) \in Status
  BY Records DEF TypeOK, StatusOf
<1>2. UNCHANGED <<deployments, route>> => ProofType' /\ (PlatformType' <=>
        suites' \in [Commit -> [Workflow -> SuiteState]])
  BY DEF TypeOK, ProofType, PlatformType, Unwatched, proof, reading
<1>3. ASSUME NEW trigger \in Triggers("verify"), StartCheck(trigger) PROVE TypeOK'
  BY <1>1, <1>2, <1>3 DEF StartCheck, TypeOK, CheckType, PlatformType, platform, Newest
<1>4. CASE List
  <2>1. /\ selected' \in 0..Len(deployments)
        /\ seen' \in Status \cup {"none"}
    <3>1. CASE target # Nothing
      <4>1. target \in Commit
        BY <3>1 DEF TypeOK, CheckType
      <4> QED
        BY <1>1, <1>4, <3>1, <4>1, FirstMatch, Records DEF List, TypeOK
    <3>2. CASE target = Nothing
      BY <1>1, <1>4, <3>2, LatestType, Records DEF List, TypeOK
    <3> QED BY <3>1, <3>2
  <2> QED
    BY <1>2, <1>4, <2>1 DEF List, TypeOK, CheckType, PlatformType, platform
<1>5. ASSUME NEW v \in Verdict, Concludes(v) PROVE TypeOK'
  <2>1. suites' \in [Commit -> [Workflow -> SuiteState]]
    BY <1>5 DEF Concludes, TypeOK, CheckType, PlatformType, SuiteState, Workflow
  <2> QED
    BY <1>2, <1>5, <2>1 DEF Concludes, TypeOK, CheckType
<1>6. CASE QueryFails
  BY <1>5, <1>6 DEF QueryFails
<1>7. CASE Judge
  BY <1>5, <1>7 DEF Judge, ClassifyDeploymentStatus
<1> QED
  BY <1>3, <1>4, <1>6, <1>7 DEF CheckStep

\* Nor does a proof touch anything but its own variables.
LEMMA ProofTypeOK ==
  ASSUME TypeOK, ProofStep, UNCHANGED check PROVE TypeOK'
<1>1. UNCHANGED <<deployments, route, suites, gitHead, tree, drifted>>
  BY DEF ProofStep, StartProof, ReadHead, ListNewest, ProofThrows, ReadSetting, Fetch,
         world, platform
<1>2. PlatformType' /\ CheckType'
  BY <1>1 DEF TypeOK, PlatformType, CheckType, check
<1>3. /\ Len(deployments) \in Nat \ {0}
      /\ \A d \in DOMAIN deployments : StatusOf(d) \in Status
  BY Records DEF TypeOK, StatusOf
<1> SUFFICES ProofType'
  BY <1>2 DEF TypeOK
<1> DEFINE Pc == {"idle", "head", "deployment", "endpoints", "done"} \cup Setting
<1>a. \A read \in {"head", "deployment", "endpoints"} \cup Setting : After(read) \in Pc
  BY DEF After, Setting
<1> HIDE DEF Pc
<1>b. "idle" \in Pc /\ "head" \in Pc /\ "endpoints" \in Pc /\ "done" \in Pc
  BY DEF Pc
<1>c. /\ gitHead' \in Commit /\ tree' \in Commit /\ drifted' \subseteq Setting
      /\ gitHead \in Commit /\ tree \in Commit /\ files \in Commit
      /\ live \in {"yes", "no"} /\ required \in {"yes", "no"}
      /\ aimed \in {"yes", "no"}
      /\ expected \in Commit \cup {0}
      /\ asExpected \subseteq Setting
      /\ listed \in 0..Len(deployments) /\ seenStatus \in Status \cup {"none"}
      /\ answers \in [Endpoint -> {"none", "expected", "other"}]
      /\ answeredBy \subseteq DOMAIN deployments
      /\ changes \in Nat
  BY <1>1 DEF TypeOK, ProofType
<1>d. ProofType' <=>
        /\ gitHead' \in Commit /\ tree' \in Commit /\ drifted' \subseteq Setting
        /\ proofPc' \in Pc
        /\ live' \in {"yes", "no"} /\ required' \in {"yes", "no"}
        /\ aimed' \in {"yes", "no"}
        /\ expected' \in Commit \cup {0} /\ files' \in Commit
        /\ asExpected' \subseteq Setting
        /\ listed' \in 0..Len(deployments) /\ seenStatus' \in Status \cup {"none"}
        /\ answers' \in [Endpoint -> {"none", "expected", "other"}]
        /\ answeredBy' \subseteq DOMAIN deployments
        /\ changes' \in Nat
  BY <1>1 DEF ProofType, Pc
<1> USE <1>b, <1>c, <1>d
<1>4. CASE StartProof
  BY <1>3, <1>4 DEF StartProof, Unread
<1>5. CASE ReadHead
  BY <1>a, <1>5 DEF ReadHead
<1>6. ASSUME NEW e \in Setting, ReadSetting(e) PROVE ProofType'
  BY <1>a, <1>6 DEF ReadSetting
<1>7. CASE ListNewest
  BY <1>a, <1>3, <1>7, Records DEF ListNewest, Newest, TypeOK
<1>8. ASSUME NEW e \in Endpoint, Fetch(e) PROVE ProofType'
  <2>1. proofPc' \in Pc
    BY <1>8 DEF Fetch, After
  <2>2. answeredBy' \subseteq DOMAIN deployments
    BY <1>8 DEF Fetch
  <2>3. answers' \in [Endpoint -> {"none", "expected", "other"}]
    BY <1>8 DEF Fetch
  <2> QED
    BY <1>8, <2>1, <2>2, <2>3 DEF Fetch
<1>9. CASE ProofThrows
  <2>1. 1 \in Commit
    BY BoundsAssumption DEF Commit
  <2> QED
    BY <1>3, <1>9, <2>1 DEF ProofThrows, Exits, Unread
<1> QED
  BY <1>4, <1>5, <1>6, <1>7, <1>8, <1>9 DEF ProofStep

\* Every step keeps it.
LEMMA NextTypeOK ==
  ASSUME TypeOK, [Next]_vars PROVE TypeOK'
<1>1. CASE UNCHANGED vars
  BY <1>1 DEF vars, world, platform, check, proof, reading, TypeOK, PlatformType,
              CheckType, ProofType
<1> QED
  BY <1>1, WorldTypeOK, CheckTypeOK, ProofTypeOK DEF Next

\* Every reachable state has the declared shape: what the check and the proof
\* recorded are deployments of the list, and so is what has the domain.
THEOREM TypeCorrect == Spec => []TypeOK
<1> QED
  BY InitTypeOK, NextTypeOK, PTL DEF Spec

-----------------------------------------------------------------------------
(* The deployment check judges the right deployment.                       *)

\* What was picked is the newest of its scope, or newer.
Chosen ==
  /\ target = Nothing => selected >= known
  /\ target # Nothing /\ selected # Nothing =>
       /\ CommitOf(selected) = target
       /\ \A d \in 1..known : CommitOf(d) = target => d <= selected

Judged == {"success", "failure", "pending"}

\* From the list to the verdict.
CheckInv ==
  /\ checkPc # "idle" => verdict = "none"
  /\ checkPc = "listed" => Chosen
  /\ verdict \in Judged => selected # Nothing /\ Chosen

\* Nothing is judged at the beginning.
LEMMA InitCheck == Init => CheckInv
BY DEF Init, CheckInit, CheckInv, Judged

\* A choice stays right while deployments come and go: none changes its commit.
LEMMA ChosenStays ==
  ASSUME TypeOK, UNCHANGED check,
         \A e \in DOMAIN deployments : CommitOf(e)' = CommitOf(e)
  PROVE  CheckInv => CheckInv'
<1>1. /\ 1..known \subseteq DOMAIN deployments
      /\ selected # Nothing => selected \in DOMAIN deployments
  BY Records DEF TypeOK, CheckType, Nothing
<1>2. Chosen => Chosen'
  BY <1>1 DEF Chosen, check
<1> QED
  BY <1>2 DEF CheckInv, check

\* The run's own steps.
LEMMA CheckKeepsInv ==
  ASSUME TypeOK, CheckInv, CheckStep, Unwatched PROVE CheckInv'
<1>1. \A d : UNCHANGED deployments => CommitOf(d)' = CommitOf(d)
  BY DEF CommitOf
<1>2. ASSUME NEW trigger \in Triggers("verify"), StartCheck(trigger) PROVE CheckInv'
  BY <1>2 DEF StartCheck, CheckInv, Judged
<1>3. CASE List
  <2>1. UNCHANGED <<deployments, target, known, verdict>> /\ checkPc' = "listed"
    BY <1>3 DEF List, platform
  <2>2. verdict = "none"
    BY <1>3 DEF List, CheckInv
  <2>3. known \in 0..Len(deployments)
    BY DEF TypeOK, CheckType
  <2>4. CASE target = Nothing
    BY <1>3, <2>1, <2>2, <2>3, <2>4, LatestType, Records
       DEF List, TypeOK, CheckInv, Chosen, Judged
  <2>5. CASE target # Nothing
    <3>1. target \in Commit
      BY <2>5 DEF TypeOK, CheckType
    <3>2. selected' = SelectDeploymentForCommit(target)
      BY <1>3, <2>5 DEF List
    <3>3. selected' # Nothing =>
            /\ CommitOf(selected') = target
            /\ \A d \in DOMAIN deployments : CommitOf(d) = target => d <= selected'
      BY <3>1, <3>2, FirstMatch DEF TypeOK
    <3>4. Chosen'
      BY <2>1, <2>3, <2>5, <3>3, Records DEF Chosen, CommitOf, TypeOK
    <3> QED
      BY <2>1, <2>2, <3>4 DEF CheckInv, Judged
  <2> QED
    BY <2>4, <2>5
<1>4. ASSUME NEW v, Concludes(v), v \in Judged => selected # Nothing /\ Chosen
      PROVE  CheckInv'
  <2>1. Chosen => Chosen'
    BY <1>1, <1>4 DEF Concludes, Chosen
  <2> QED
    BY <1>4, <2>1 DEF Concludes, CheckInv
<1>5. CASE QueryFails
  BY <1>4, <1>5 DEF QueryFails, Judged
<1>6. CASE Judge
  BY <1>4, <1>6 DEF Judge, Judged, CheckInv
<1> QED
  BY <1>2, <1>3, <1>5, <1>6 DEF CheckStep

\* Every step.
LEMMA NextCheck ==
  ASSUME TypeOK, CheckInv, [Next]_vars PROVE CheckInv'
<1>1. CASE WorldStep /\ UNCHANGED check
  <2>1. CASE PlatformStep
    BY <1>1, <2>1, PlatformKeeps, ChosenStays DEF TypeOK, Keeps
  <2>2. CASE UNCHANGED platform
    BY <1>1, <2>2, ChosenStays DEF CommitOf, platform
  <2> QED
    BY <1>1, <2>1, <2>2 DEF WorldStep, Checkout, Edit, Drift
<1>2. CASE CheckStep /\ Unwatched
  BY <1>2, CheckKeepsInv
<1>3. CASE ProofStep /\ UNCHANGED check
  <2>1. UNCHANGED deployments
    BY <1>3 DEF ProofStep, StartProof, ReadHead, ListNewest, ProofThrows, ReadSetting,
                Fetch, world, platform
  <2> QED
    BY <1>3, <2>1, ChosenStays DEF CommitOf
<1>4. CASE UNCHANGED vars
  BY <1>4, ChosenStays DEF vars, world, platform, CommitOf
<1> QED
  BY <1>1, <1>2, <1>3, <1>4 DEF Next

\* A verdict is about the newest deployment of its scope as of the beginning of
\* the run, or a newer one; a query that failed accuses no deployment.
THEOREM VerdictsAreAlwaysCurrent == Spec => []VerdictsAreCurrent
<1>1. CheckInv => VerdictsAreCurrent
  BY DEF CheckInv, Chosen, Judged, VerdictsAreCurrent
<1> QED
  BY InitTypeOK, InitCheck, NextTypeOK, NextCheck, <1>1, PTL DEF Spec

-----------------------------------------------------------------------------
(* The live proof.                                                         *)

\* While nothing changes, what was read is what is, and what answered is what
\* has the domain.
LiveInv ==
  /\ proofPc = "idle" => changes = 0
  /\ proofPc \in {"idle", "head", "source", "runtime", "deployment"} =>
       seenStatus = "none" /\ answeredBy = {}
  /\ aimed = "yes" /\ (\E e \in Endpoint : answers[e] = "expected") => answeredBy # {}
  /\ proofPc # "idle" /\ changes = 0 =>
       /\ files = tree
       /\ asExpected \cap drifted = {}
       /\ seenStatus # "none" => listed = Newest /\ seenStatus = StatusOf(Newest)
       /\ \A d \in answeredBy : Serving(d)

\* Nothing was read at the beginning.
LEMMA InitLive == Init => LiveInv
BY DEF Init, ProofInit, LiveInv

\* Changes under a running proof count.
LEMMA WorldKeepsLive ==
  ASSUME TypeOK, LiveInv, WorldStep PROVE LiveInv'
BY DEF WorldStep, Noted, proof, reading, TypeOK, ProofType, LiveInv

\* The run's own steps.
LEMMA ProofKeepsLive ==
  ASSUME TypeOK, LiveInv, ProofStep PROVE LiveInv'
<1>1. /\ UNCHANGED <<deployments, route, gitHead, tree, drifted>>
      /\ Newest' = Newest /\ StatusOf(Newest)' = StatusOf(Newest)
      /\ \A d : Serving(d)' <=> Serving(d)
  <2>1. UNCHANGED <<deployments, route, gitHead, tree, drifted>>
    BY DEF ProofStep, StartProof, ReadHead, ListNewest, ProofThrows, ReadSetting, Fetch,
           world, platform
  <2> QED
    BY <2>1 DEF Newest, StatusOf, Serving
<1>2. CASE StartProof
  BY <1>1, <1>2 DEF StartProof, Unread, LiveInv
<1>3. CASE ReadHead
  BY <1>1, <1>3 DEF ReadHead, After, LiveInv
<1>4. ASSUME NEW e \in Setting, ReadSetting(e) PROVE LiveInv'
  <2>1. \/ e \in {"source", "runtime"} /\ proofPc' \in {"runtime", "deployment"}
        \/ e = "domain" /\ proofPc' = "endpoints"
    BY <1>4 DEF ReadSetting, Setting, After
  <2>2. /\ proofPc = e
        /\ asExpected \cap drifted = {} => asExpected' \cap drifted = {}
        /\ UNCHANGED <<aimed, files, listed, seenStatus, answers, answeredBy, changes>>
    BY <1>4 DEF ReadSetting
  <2> QED
    BY <1>1, <2>1, <2>2 DEF LiveInv
<1>5. CASE ListNewest
  <2>1. /\ listed' = Newest /\ seenStatus' = StatusOf(Newest)
        /\ proofPc = "deployment" /\ proofPc' = "domain"
        /\ UNCHANGED <<aimed, files, asExpected, answers, answeredBy, changes>>
    BY <1>5 DEF ListNewest, After
  <2> QED
    BY <1>1, <2>1 DEF LiveInv
<1>6. ASSUME NEW e \in Endpoint, Fetch(e) PROVE LiveInv'
  <2>1. /\ proofPc = "endpoints" /\ proofPc' \in {"endpoints", "done"}
        /\ answeredBy' = answeredBy \cup {d \in DOMAIN deployments : aimed = "yes" /\ Serving(d)}
        /\ UNCHANGED <<aimed, files, asExpected, listed, seenStatus, changes>>
    BY <1>6 DEF Fetch, After
  <2>2. route \in DOMAIN deployments
    BY DEF TypeOK, PlatformType
  <2>3. aimed = "yes" /\ (\E f \in Endpoint : answers'[f] = "expected") => answeredBy' # {}
    <3>1. PICK a \in HttpStatus :
            /\ a = 503 \/ aimed = "no" \/ Serving(route)
            /\ answers' = [answers EXCEPT ![e] =
                             IF a \in Accepted(e) THEN "expected" ELSE "other"]
      BY <1>6 DEF Fetch
    <3>2. CASE a \in Accepted(e)
      BY <2>1, <2>2, <3>1, <3>2 DEF Accepted
    <3>3. CASE a \notin Accepted(e)
      BY <2>1, <3>1, <3>3 DEF TypeOK, ProofType, LiveInv
    <3> QED
      BY <3>2, <3>3
  <2> QED
    BY <1>1, <2>1, <2>3 DEF LiveInv
<1>7. CASE ProofThrows
  BY <1>7 DEF ProofThrows, Exits, Unread, LiveInv
<1> QED
  BY <1>2, <1>3, <1>4, <1>5, <1>6, <1>7 DEF ProofStep

\* Every step.
LEMMA NextLive ==
  ASSUME TypeOK, LiveInv, [Next]_vars PROVE LiveInv'
<1>1. ASSUME UNCHANGED <<deployments, route, gitHead, tree, drifted, proof, changes>>
      PROVE  LiveInv'
  BY <1>1 DEF LiveInv, proof, reading, StatusOf, Serving, Newest
<1>2. CASE CheckStep /\ Unwatched
  BY <1>1, <1>2 DEF CheckStep, StartCheck, List, QueryFails, Judge, Concludes, platform,
                    Unwatched
<1>3. CASE UNCHANGED vars
  BY <1>1, <1>3 DEF vars, world, platform
<1> QED
  BY <1>2, <1>3, WorldKeepsLive, ProofKeepsLive DEF Next

\* An undisturbed proof that passes is true: the newest deployment is up and of
\* the expected commit, every setting is as expected, and what has the domain
\* answers there.
THEOREM PassingProofAlwaysHolds == Spec => []PassingProofHolds
<1>1. ASSUME TypeOK, LiveInv PROVE PassingProofHolds
  <2> SUFFICES ASSUME Passed, live = "yes", changes = 0
      PROVE  /\ drifted = {}
             /\ StatusOf(Newest) = "SUCCESS" /\ CommitOf(Newest) = expected
             /\ aimed = "yes" => Serving(route) /\ answeredBy = {route}
             /\ expected = gitHead /\ tree = gitHead => CommitOf(Newest) \in Sound
    BY DEF PassingProofHolds
  <2>1. /\ proofPc = "done" /\ files \in Sound /\ asExpected = Setting
        /\ seenStatus = "SUCCESS" /\ CommitOf(listed) = expected
        /\ \A e \in Endpoint : answers[e] = "expected"
    BY DEF Passed, SettingChecks, DeploymentChecks, EndpointChecks
  <2>2. /\ files = tree /\ asExpected \cap drifted = {}
        /\ listed = Newest /\ StatusOf(Newest) = "SUCCESS"
        /\ \A d \in answeredBy : Serving(d)
        /\ aimed = "yes" => answeredBy # {}
    BY <2>1, <1>1 DEF LiveInv, Endpoint
  <2>3. drifted = {}
    BY <1>1, <2>1, <2>2 DEF TypeOK, ProofType
  <2>4. aimed = "yes" => Serving(route) /\ answeredBy = {route}
    BY <2>2 DEF Serving
  <2> QED
    BY <2>1, <2>2, <2>3, <2>4
<1> QED
  BY InitTypeOK, InitLive, NextTypeOK, NextLive, <1>1, PTL DEF Spec

=============================================================================
