-------------------------- MODULE ProfileApplyProofs ---------------------------
(***************************************************************************)
(* Theorems about ProfileApply for any number of calls: no minted key is   *)
(* lost without one of the known causes, a reported deletion is real, and  *)
(* what an apply that runs alone may rely on.                              *)
(***************************************************************************)
EXTENDS ProfileApply, TLAPS

USE SecretsAssumption DEF Secret, Profiles, ApplySteps, RegressionSteps, Failures,
    Deleted, Outcomes, instance, history, Go

\* A service before its first profile is well-typed.
LEMMA InitTypeOK == Init => TypeOK
BY DEF Init, TypeOK

\* Every step keeps the declared shape.
LEMMA NextTypeOK == ASSUME TypeOK, [Next]_vars PROVE TypeOK'
<1> USE DEF TypeOK
<1>1. ASSUME NEW c \in Call, StartApply(c) \/ StartRegression(c) PROVE TypeOK'
  <2>1. PICK step \in {"checking", "minting", "refused"}, j \in {"apply", "regression"} :
           Begins(c, j, step) /\ (step # "waiting" /\ step # "writing")
    BY <1>1 DEF StartApply, StartRegression
  <2>2. quiet' \in [Call -> {"quiet", "overlapped"}]
    BY <2>1 DEF Begins
  <2>3. /\ pc' \in [Call -> {"idle"} \cup ApplySteps \cup RegressionSteps \cup Outcomes]
        /\ job' \in [Call -> {"apply", "regression"}]
    BY <2>1 DEF Begins
  <2>4. \A d \in Call : pc'[d] \in {"waiting", "writing"} => secret'[d] = d
    BY <2>1 DEF Begins
  <2>5. UNCHANGED <<profile, variable, running, rollout, config, live, secret, verdict,
                    minted, excused>>
    BY <2>1 DEF Begins
  <2> QED
    BY <2>2, <2>3, <2>4, <2>5
<1>2. ASSUME NEW c \in Call, CheckStatus(c) \/ WaitForHealthy(c) \/ Confirm(c) PROVE TypeOK'
  BY <1>2 DEF CheckStatus, WaitForHealthy, Confirm
<1>3. ASSUME NEW c \in Call, ListVariables(c) PROVE TypeOK'
  <2>1. PICK step \in {"rejected", "posting", "minting", "refused"} : Go(c, step)
    BY <1>3 DEF ListVariables, AfterSecret
  <2>2. PICK v \in minted \cup {Given, Absent} : secret' = [secret EXCEPT ![c] = v]
    BY <1>3 DEF ListVariables
  <2> QED
    BY <1>3, <2>1, <2>2 DEF ListVariables
<1>4. ASSUME NEW c \in Call, Mint(c) PROVE TypeOK'
  BY <1>4 DEF Mint, Created
<1>5. ASSUME NEW c \in Call, Write(c) PROVE TypeOK'
  BY <1>5 DEF Write, Stored, WriteGoesOn, WriteFailed, AfterSecret, Redeploys
<1>6. ASSUME NEW c \in Call, Run(c) PROVE TypeOK'
  BY <1>6 DEF Run
<1>7. ASSUME NEW c \in Call, VerifyInstance(c) PROVE TypeOK'
  BY <1>7 DEF VerifyInstance
<1>8. ASSUME NEW c \in Call, DeleteMinted(c) PROVE TypeOK'
  BY <1>8 DEF DeleteMinted, Verdict
<1>9. ASSUME NEW c \in Call, Crash(c) \/ DeleteKey(c) PROVE TypeOK'
  BY <1>9 DEF Crash, DeleteKey
<1>10. CASE RollOver \/ UNCHANGED vars
  BY <1>10 DEF RollOver, vars
<1> QED
  BY <1>1, <1>2, <1>3, <1>4, <1>5, <1>6, <1>7, <1>8, <1>9, <1>10 DEF Next, Step

\* Every reachable state has the declared shape; the secret a call works with
\* is a key that was minted or one the variable held.
THEOREM TypeCorrect == Spec => []TypeOK
<1> QED
  BY InitTypeOK, NextTypeOK, PTL DEF Spec

-----------------------------------------------------------------------------
\* Where a call has no key yet, and where its key's write has been confirmed or
\* may have been.
Unminted   == {"idle", "checking", "listing", "minting", "alreadyConfigured", "refused"}
AfterWrite == {"waiting", "posting", "confirming", "writeFailed", "rejected",
               "unhealthy", "postFailed", "unconfirmed"}

\* The inductive invariant: a key its apply has tried to store is in the
\* variable or excused, and so is one whose mint threw or whose process died.
KeysInv == \A c \in Call :
  /\ pc[c] \in Unminted => c \notin minted
  /\ c \in minted /\ pc[c] \in AfterWrite => variable = c \/ c \in excused
  /\ c \in minted /\ pc[c] \in {"mintFailed", "crashed"} => c \in excused

\* What the invariant keeps is enough: an ended call whose key lives either was
\* told it, or stored it, or lost it for a named cause.
LEMMA KeysInvLoses == TypeOK /\ KeysInv => LostKeysAreExplained
BY DEF TypeOK, KeysInv, LostKeysAreExplained, Active, Told, Unminted, AfterWrite

\* Every step keeps track of the key it touches.
LEMMA NextKeysInv == ASSUME TypeOK, KeysInv, [Next]_vars PROVE KeysInv'
<1> USE DEF KeysInv, Unminted, AfterWrite
<1>1. ASSUME NEW c \in Call, StartApply(c) \/ StartRegression(c) PROVE KeysInv'
  <2>1. PICK step \in {"checking", "minting", "refused"} :
          pc[c] = "idle" /\ pc' = [pc EXCEPT ![c] = step]
    BY <1>1 DEF StartApply, StartRegression, Begins
  <2>2. UNCHANGED <<variable, minted, excused>>
    BY <1>1 DEF StartApply, StartRegression, Begins
  <2> QED
    BY <2>1, <2>2 DEF TypeOK
<1>2. ASSUME NEW c \in Call, CheckStatus(c) \/ WaitForHealthy(c) \/ Run(c) \/ Confirm(c)
      PROVE  KeysInv'
  BY <1>2 DEF CheckStatus, WaitForHealthy, Run, Confirm, TypeOK
<1>3. ASSUME NEW c \in Call, ListVariables(c) PROVE KeysInv'
  <2>1. PICK step \in {"rejected", "posting", "minting", "refused"} :
          pc[c] = "listing" /\ pc' = [pc EXCEPT ![c] = step]
    BY <1>3 DEF ListVariables, AfterSecret
  <2>2. UNCHANGED <<variable, minted, excused>>
    BY <1>3 DEF ListVariables
  <2> QED
    BY <2>1, <2>2 DEF TypeOK
<1>4. ASSUME NEW c \in Call, Mint(c) PROVE KeysInv'
  BY <1>4 DEF Mint, Created, TypeOK
<1>5. ASSUME NEW c \in Call, Write(c) PROVE KeysInv'
  <2>1. PICK step \in AfterWrite \cup {"verifying", "deleting"} :
          pc' = [pc EXCEPT ![c] = step]
    BY <1>5 DEF Write, WriteGoesOn, WriteFailed, AfterSecret
  <2>2. \/ variable' = c /\ excused' = excused \cup ({variable} \cap minted)
        \/ variable' = variable /\ excused' = excused \cup {c}
    BY <1>5 DEF Write, Stored
  <2>3. UNCHANGED minted
    BY <1>5 DEF Write
  <2> QED
    BY <2>1, <2>2, <2>3 DEF TypeOK
<1>6. ASSUME NEW c \in Call, VerifyInstance(c) PROVE KeysInv'
  BY <1>6 DEF VerifyInstance, TypeOK
<1>7. ASSUME NEW c \in Call, DeleteMinted(c) \/ DeleteKey(c) PROVE KeysInv'
  BY <1>7 DEF DeleteMinted, DeleteKey, Verdict, TypeOK
<1>8. ASSUME NEW c \in Call, Crash(c) PROVE KeysInv'
  BY <1>8 DEF Crash, TypeOK
<1>9. CASE RollOver \/ UNCHANGED vars
  BY <1>9 DEF RollOver, vars
<1> QED
  BY <1>1, <1>2, <1>3, <1>4, <1>5, <1>6, <1>7, <1>8, <1>9 DEF Next, Step

\* No minted key is ever lost but for a mint or a write whose answer failed, a
\* process that died, or a later call that overwrote the variable.
THEOREM KeysAreNotLost == Spec => []LostKeysAreExplained
<1>1. Init => KeysInv
  BY DEF Init, KeysInv
<1> QED
  BY <1>1, InitTypeOK, NextTypeOK, NextKeysInv, KeysInvLoses, PTL DEF Spec

-----------------------------------------------------------------------------
\* No step brings a deleted key back or reports one deleted that is not.
LEMMA NextDeletions ==
  ASSUME TypeOK, DeletionsAreReal, [Next]_vars PROVE DeletionsAreReal'
<1> USE DEF DeletionsAreReal, TypeOK
<1>1. ASSUME NEW c \in Call, Mint(c) PROVE DeletionsAreReal'
  BY <1>1 DEF Mint, Created
<1>2. ASSUME NEW c \in Call, DeleteMinted(c) PROVE DeletionsAreReal'
  BY <1>2 DEF DeleteMinted
<1>3. ASSUME NEW c \in Call, DeleteKey(c) PROVE DeletionsAreReal'
  BY <1>3 DEF DeleteKey
<1>4. ASSUME UNCHANGED live,
             \A c \in Call : pc'[c] \in Deleted => pc[c] \in Deleted
      PROVE  DeletionsAreReal'
  BY <1>4
<1>5. ASSUME NEW c \in Call,
             \/ StartApply(c) \/ StartRegression(c) \/ CheckStatus(c) \/ WaitForHealthy(c)
             \/ Run(c) \/ Confirm(c) \/ VerifyInstance(c) \/ Crash(c)
      PROVE  DeletionsAreReal'
  BY <1>4, <1>5 DEF StartApply, StartRegression, Begins, CheckStatus, WaitForHealthy,
                    Run, Confirm, VerifyInstance, Crash
<1>6. ASSUME NEW c \in Call, ListVariables(c) \/ Write(c) PROVE DeletionsAreReal'
  BY <1>4, <1>6 DEF ListVariables, Write, WriteGoesOn, WriteFailed, AfterSecret
<1>7. CASE RollOver \/ UNCHANGED vars
  BY <1>7 DEF RollOver, vars
<1> QED
  BY <1>1, <1>2, <1>3, <1>5, <1>6, <1>7 DEF Next, Step

\* A regression check that says its key is deleted is right.
THEOREM ReportedDeletionsAreReal == Spec => []DeletionsAreReal
<1>1. Init => DeletionsAreReal
  BY DEF Init, DeletionsAreReal
<1> QED
  BY <1>1, InitTypeOK, NextTypeOK, NextDeletions, PTL DEF Spec

-----------------------------------------------------------------------------
\* What an active call that has been alone since it began may rely on: the
\* variable is as it read or wrote it, and so is the configuration it posted.
Alone(c) == Active(c) /\ quiet[c] = "quiet"

QuietInv == \A c \in Call : Alone(c) =>
  /\ \A d \in Call \ {c} : ~Active(d)
  /\ pc[c] = "minting" /\ job[c] = "apply" => variable = Absent
  /\ profile.provider # "none" =>
       /\ pc[c] \in {"waiting", "posting", "confirming"} => secret[c] = variable
       /\ pc[c] = "confirming" => config = variable

\* A step of a call leaves the quiet calls alone: it is the only active one, or
\* none of them is.
LEMMA OthersNotAlone ==
  ASSUME TypeOK, QuietInv, NEW c \in Call, Active(c),
         NEW pcNew, pc' = [pc EXCEPT ![c] = pcNew], UNCHANGED quiet
  PROVE  /\ \A d \in Call \ {c} : Alone(d)' => FALSE
         /\ Alone(c)' => Alone(c)
         /\ \A d, e \in Call : Alone(d)' /\ e # d => ~Active(e)'
<1>1. \A d \in Call \ {c} : Active(d)' <=> Active(d)
  BY DEF Active, TypeOK
<1>2. Alone(c)' => Alone(c)
  BY DEF Alone
<1>3. \A d \in Call \ {c} : ~Alone(d)'
  BY <1>1 DEF Alone, QuietInv
<1>4. \A e \in Call \ {c} : Alone(c)' => ~Active(e)'
  BY <1>1, <1>2 DEF QuietInv
<1> QED
  BY <1>2, <1>3, <1>4

\* What a lone call relies on survives its own steps and ends with the others'.
LEMMA NextQuietInv == ASSUME TypeOK, QuietInv, [Next]_vars PROVE QuietInv'
<1>1. ASSUME NEW c \in Call, StartApply(c) \/ StartRegression(c) PROVE QuietInv'
  <2>1. PICK step \in {"checking", "minting", "refused"}, j \in {"apply", "regression"} :
          Begins(c, j, step) /\ (step = "minting" => j = "regression")
    BY <1>1 DEF StartApply, StartRegression
  <2>2. \A d \in Call \ {c} : pc'[d] = pc[d] /\ job'[d] = job[d]
    BY <2>1 DEF Begins, TypeOK
  <2>3. pc'[c] = step /\ job'[c] = j
    BY <2>1 DEF Begins, TypeOK
  <2>4. \A d \in Call \ {c} : ~Alone(d)'
    BY <2>1, <2>2 DEF Begins, TypeOK, Alone, Active
  <2>5. Alone(c)' => \A d \in Call \ {c} : ~Active(d)'
    BY <2>1, <2>2 DEF Begins, TypeOK, Alone, Active
  <2> QED
    BY <2>1, <2>3, <2>4, <2>5 DEF QuietInv
<1>2. ASSUME NEW c \in Call, Step(c) \/ Crash(c)
      PROVE  /\ Active(c) /\ UNCHANGED <<quiet, profile, job>>
             /\ \E step : pc' = [pc EXCEPT ![c] = step]
  BY <1>2 DEF Step, Crash, CheckStatus, ListVariables, Mint, Write, WriteGoesOn,
              WriteFailed, WaitForHealthy, Run, Confirm, VerifyInstance, DeleteMinted, Active
<1>3. ASSUME NEW c \in Call, Step(c) \/ Crash(c),
             Alone(c)' =>
               /\ pc'[c] = "minting" /\ job'[c] = "apply" => variable' = Absent
               /\ profile'.provider # "none" =>
                    /\ pc'[c] \in {"waiting", "posting", "confirming"} => secret'[c] = variable'
                    /\ pc'[c] = "confirming" => config' = variable'
      PROVE  QuietInv'
  <2>1. PICK step : pc' = [pc EXCEPT ![c] = step]
    BY <1>2, <1>3
  <2> HIDE <1>3
  <2>2. /\ \A d \in Call \ {c} : ~Alone(d)'
        /\ \A d, e \in Call : Alone(d)' /\ e # d => ~Active(e)'
    BY <1>2, <1>3, <2>1, OthersNotAlone
  <2> QED
    BY <1>3, <2>2 DEF QuietInv
<1>4. ASSUME NEW c \in Call, Crash(c) \/ DeleteMinted(c) \/ VerifyInstance(c) PROVE QuietInv'
  <2>1. ~Active(c)' \/ pc'[c] = "deleting"
    BY <1>4 DEF Crash, DeleteMinted, VerifyInstance, Verdict, Active, TypeOK
  <2> QED
    BY <1>3, <1>4, <2>1 DEF Step, Alone
<1>5. ASSUME NEW c \in Call, CheckStatus(c) PROVE QuietInv'
  <2>1. pc'[c] = "listing" \/ ~Active(c)'
    BY <1>5 DEF CheckStatus, Active, TypeOK
  <2> QED
    BY <1>3, <1>5, <2>1 DEF Step, Alone
<1>6. ASSUME NEW c \in Call, ListVariables(c) PROVE QuietInv'
  <2>1. /\ pc'[c] \in {"minting", "posting"} \/ ~Active(c)'
        /\ pc'[c] = "minting" => variable' = Absent
        /\ profile.provider # "none" => secret'[c] = variable'
        /\ UNCHANGED profile
    BY <1>6 DEF ListVariables, AfterSecret, Active, TypeOK
  <2> QED
    BY <1>3, <1>6, <2>1 DEF Step, Alone
<1>7. ASSUME NEW c \in Call, Mint(c) PROVE QuietInv'
  <2>1. pc'[c] = "writing" \/ ~Active(c)'
    BY <1>7 DEF Mint, Active, TypeOK
  <2> QED
    BY <1>3, <1>7, <2>1 DEF Step, Alone
<1>8. ASSUME NEW c \in Call, Write(c) PROVE QuietInv'
  <2>1. \/ pc'[c] \in {"waiting", "posting"} /\ variable' = c
        \/ pc'[c] \in {"verifying", "deleting"}
        \/ ~Active(c)'
    BY <1>8 DEF Write, WriteGoesOn, WriteFailed, AfterSecret, Stored, Active, TypeOK
  <2>2. secret'[c] = c
    BY <1>8 DEF Write, TypeOK
  <2> QED
    BY <1>3, <1>8, <2>1, <2>2 DEF Step, Alone
<1>9. ASSUME NEW c \in Call, WaitForHealthy(c) \/ Run(c) \/ Confirm(c) PROVE QuietInv'
  <2>1. /\ \/ pc[c] = "waiting" /\ pc'[c] = "posting"
           \/ pc[c] = "posting" /\ pc'[c] = "confirming" /\ config' = secret[c]
           \/ ~Active(c)'
        /\ UNCHANGED <<variable, secret, profile, quiet>>
    BY <1>9 DEF WaitForHealthy, Run, Confirm, Active, TypeOK
  <2>2. Active(c)
    BY <1>9 DEF WaitForHealthy, Run, Confirm, Active
  <2> QED
    BY <1>3, <1>9, <2>1, <2>2 DEF Step, Alone, QuietInv
<1>10. CASE (\E c \in Call : DeleteKey(c)) \/ RollOver \/ UNCHANGED vars
  <2>1. UNCHANGED <<pc, job, quiet, variable, secret, profile, config>>
    BY <1>10 DEF DeleteKey, RollOver, vars
  <2> QED
    BY <2>1 DEF QuietInv, Alone, Active
<1> QED
  BY <1>1, <1>4, <1>5, <1>6, <1>7, <1>8, <1>9, <1>10 DEF Next, Step

\* No call has begun, so none relies on anything.
LEMMA InitQuietInv == Init => QuietInv
BY DEF Init, QuietInv, Alone, Active

\* A key appears only in its own call's mint.
LEMMA OnlyMintCreates ==
  ASSUME [Next]_vars, NEW c \in Call, c \notin minted, c \in minted' PROVE Mint(c)
<1>1. ASSUME NEW d \in Call, Mint(d) PROVE d = c
  BY <1>1 DEF Mint, Created
<1>2. ASSUME NEW d \in Call, StartApply(d) \/ StartRegression(d) PROVE FALSE
  BY <1>2 DEF StartApply, StartRegression, Begins
<1>3. ASSUME NEW d \in Call, CheckStatus(d) \/ ListVariables(d) \/ Write(d)
                             \/ WaitForHealthy(d) \/ Run(d) PROVE FALSE
  BY <1>3 DEF CheckStatus, ListVariables, Write, WaitForHealthy, Run
<1>4. ASSUME NEW d \in Call, Confirm(d) \/ VerifyInstance(d) \/ DeleteMinted(d)
                             \/ Crash(d) \/ DeleteKey(d) PROVE FALSE
  BY <1>4 DEF Confirm, VerifyInstance, DeleteMinted, Crash, DeleteKey
<1>5. ~RollOver /\ ~UNCHANGED vars
  BY DEF RollOver, vars
<1> QED
  BY <1>1, <1>2, <1>3, <1>4, <1>5 DEF Next, Step

\* The step that creates a lone apply's key is its mint, taken while absent.
LEMMA MintStep ==
  ASSUME TypeOK, QuietInv, [Next]_vars, NEW c \in Call,
         c \notin minted, c \in minted', job[c] = "apply", quiet[c] = "quiet"
  PROVE  variable = Absent
<1>1. pc[c] = "minting"
  BY OnlyMintCreates DEF Mint
<1> QED
  BY <1>1 DEF QuietInv, Alone, Active

\* An apply that runs alone mints only while the secret is absent.
THEOREM QuietMintsNeedAbsence == Spec => QuietMintNeedsAbsence
<1>1. ASSUME TypeOK, QuietInv, [Next]_vars
      PROVE  [\A c \in Call :
                c \notin minted /\ c \in minted' /\ job[c] = "apply" /\ quiet[c] = "quiet"
                => variable = Absent]_vars
  BY <1>1, MintStep
<1> QED
  BY <1>1, InitTypeOK, NextTypeOK, InitQuietInv, NextQuietInv, PTL
     DEF Spec, QuietMintNeedsAbsence

\* A call comes to "applied" only by its own confirmation.
LEMMA AppliedStep ==
  ASSUME TypeOK, QuietInv, [Next]_vars, NEW c \in Call,
         pc[c] # "applied", pc'[c] = "applied",
         quiet[c] = "quiet", profile.provider # "none"
  PROVE  config = variable
<1>1. ASSUME NEW d \in Call, Confirm(d) PROVE pc[c] = "confirming"
  BY <1>1 DEF Confirm, TypeOK
<1>2. ASSUME NEW d \in Call, StartApply(d) \/ StartRegression(d) PROVE FALSE
  BY <1>2 DEF StartApply, StartRegression, Begins, TypeOK
<1>3. ASSUME NEW d \in Call, CheckStatus(d) \/ Mint(d) \/ WaitForHealthy(d) \/ Run(d)
      PROVE  FALSE
  BY <1>3 DEF CheckStatus, Mint, WaitForHealthy, Run, TypeOK
<1>4. ASSUME NEW d \in Call, ListVariables(d) \/ Write(d) PROVE FALSE
  BY <1>4 DEF ListVariables, Write, WriteGoesOn, WriteFailed, AfterSecret, TypeOK
<1>5. ASSUME NEW d \in Call, VerifyInstance(d) \/ DeleteMinted(d) \/ Crash(d) \/ DeleteKey(d)
      PROVE  FALSE
  BY <1>5 DEF VerifyInstance, DeleteMinted, Verdict, Crash, DeleteKey, TypeOK
<1>6. ~RollOver /\ ~UNCHANGED vars
  BY DEF RollOver, vars
<1>7. pc[c] = "confirming"
  BY <1>1, <1>2, <1>3, <1>4, <1>5, <1>6 DEF Next, Step
<1> QED
  BY <1>7 DEF QuietInv, Alone, Active

\* An apply that runs alone and reports success left the instance configured
\* with the secret the variable holds.
THEOREM QuietAppliesMatch == Spec => QuietApplyMatchesVariable
<1>1. ASSUME TypeOK, QuietInv, [Next]_vars
      PROVE  [\A c \in Call :
                /\ pc[c] # "applied" /\ pc'[c] = "applied"
                /\ quiet[c] = "quiet" /\ profile.provider # "none"
                => config = variable]_vars
  BY <1>1, AppliedStep
<1> QED
  BY <1>1, InitTypeOK, NextTypeOK, InitQuietInv, NextQuietInv, PTL
     DEF Spec, QuietApplyMatchesVariable
=============================================================================
