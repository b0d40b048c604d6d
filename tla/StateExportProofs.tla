--------------------------- MODULE StateExportProofs ---------------------------
(***************************************************************************)
(* Theorems about StateExport for every directory, cap and gateway.        *)
(***************************************************************************)
EXTENDS StateExport, FiniteSetTheorems, TLAPS

\* A finite set's enumeration lists its elements, each of them.
LEMMA SetToSeqLists ==
  ASSUME NEW S, IsFiniteSet(S)
  PROVE  /\ SetToSeq(S) \in Seq(S)
         /\ \A x \in S : \E i \in 1..Len(SetToSeq(S)) : SetToSeq(S)[i] = x
<1> DEFINE n == Cardinality(S)
           q == SetToSeq(S)
<1>1. n \in Nat /\ ExistsBijection(1..n, S)
  BY FS_CardinalityType
<1>2. PICK g : g \in Bijection(1..n, S)
  BY <1>1 DEF ExistsBijection
<1>3. g \in [1..n -> S] /\ IsInjective(g)
  BY <1>2 DEF Bijection, Injection
<1>4. q \in [1..n -> S] /\ IsInjective(q)
  BY <1>3 DEF SetToSeq
<1>5. q \in Injection(1..n, S)
  BY <1>4 DEF Injection
<1>6. Cardinality(1..n) = n
  BY <1>1, FS_Interval
<1>7. q \in Surjection(1..n, S)
  BY <1>1, <1>5, <1>6, FS_Injection
<1>8. \A x \in S : \E i \in 1..n : q[i] = x
  BY <1>7 DEF Surjection
<1> HIDE DEF n, q
<1>9. q \in Seq(S) /\ Len(q) = n
  BY <1>1, <1>4
<1> QED
  BY <1>8, <1>9 DEF q

-----------------------------------------------------------------------------
Path == Entry \cup {<<>>}

\* A listing holds the accepted entries of the directory that exist, all of
\* them and nothing else.
LEMMA DirentsList ==
  ASSUME NEW d
  PROVE  /\ Dirents(d) \in Seq(Entry)
         /\ \A i \in 1..Len(Dirents(d)) : FilterStateEntry(Dirents(d)[i], Kind[Dirents(d)[i]])
         /\ \A p \in Entry : Front(p) = d /\ Exists(p) /\ FilterStateEntry(p, Kind[p])
                => \E i \in 1..Len(Dirents(d)) : Dirents(d)[i] = p
<1> DEFINE S == {p \in Entry : Front(p) = d /\ Exists(p) /\ FilterStateEntry(p, Kind[p])}
           q == SetToSeq(S)
<1>1. IsFiniteSet(S)
  BY EntryAssumption, FS_Subset DEF EntryAssumption
<1>2. q \in Seq(S) /\ \A x \in S : \E i \in 1..Len(q) : q[i] = x
  BY <1>1, SetToSeqLists
<1>3. \A i \in 1..Len(q) : q[i] \in S
  BY <1>2
<1>4. q \in Seq(Entry)
  <2> HIDE DEF q
  <2>1. S \subseteq Entry
    OBVIOUS
  <2> QED
    BY <1>2, <2>1
<1>5. Dirents(d) = q
  BY DEF Dirents
<1> HIDE DEF q
<1> QED
  BY <1>2, <1>3, <1>4, <1>5
-----------------------------------------------------------------------------
\* The wrapper starts well-typed.
LEMMA InitTypeOK == Init => TypeOK
BY SizesAssumption DEF SizesAssumption, Init, TypeOK, Nothing

\* Sizes are sizes.
LEMMA ContentType ==
  ASSUME TypeOK, NEW f \in File, main[f] # Absent
  PROVE  main[f] \in Nat /\ log[f] \in Nat /\ Content(f) \in Nat
BY DEF TypeOK, Content

\* Whatever the gateway does, it leaves a size or nothing, and a log's length;
\* a plain file has no log.
LEMMA GatewayChanges ==
  ASSUME TypeOK, NEW f \in File, GatewayWrites(f) \/ GatewayCreates(f)
  PROVE  \E m \in Nat \cup {Absent}, l \in Nat :
           Becomes(f, m, l) /\ ((m = Absent \/ ~IsStore(f)) => l = 0)
<1>1. CASE GatewayCreates(f)
  <2>1. Becomes(f, 1, 0)
    BY <1>1 DEF GatewayCreates
  <2> QED
    BY <2>1
<1>2. CASE GatewayWrites(f)
  <2>1. main[f] \in Nat /\ log[f] \in Nat /\ Content(f) \in Nat /\ main[f] # Absent
    BY <1>2, ContentType DEF GatewayWrites, Existing
  <2>2. CASE \E n \in 0..MaxSize : Becomes(f, n, 0)
    BY <2>2, SizesAssumption DEF SizesAssumption
  <2>3. CASE IsStore(f) /\ Becomes(f, main[f], log[f] + 1)
    BY <2>1, <2>3
  <2>4. CASE Becomes(f, Content(f), 0)
    BY <2>1, <2>4
  <2>5. CASE Becomes(f, Absent, 0)
    BY <2>5
  <2> QED
    BY <1>2, <2>2, <2>3, <2>4, <2>5 DEF GatewayWrites
<1> QED
  BY <1>1, <1>2

\* Every step of the handler and of the gateway keeps the declared shape.
LEMMA NextTypeOK == ASSUME TypeOK, [Next]_vars PROVE TypeOK'
<1> USE SizesAssumption DEF SizesAssumption, files, handler, history
<1>1. CASE Start
  <2>1. seen' \in [File -> SUBSET Nat]
    BY <1>1, ContentType DEF Start, Existing
  <2> QED
    BY <1>1, <2>1 DEF Start, TypeOK, Existing
<1>2. CASE Refuse
  BY <1>2 DEF Refuse, TypeOK
<1>3. ASSUME NEW d \in Dir, Enter(d) PROVE TypeOK'
  <2>1. Tail(todo) \in Seq(Entry \cup {<<>>})
    BY <1>3 DEF Enter, TypeOK
  <2>2. Dirents(d) \in Seq(Entry \cup {<<>>})
    BY DirentsList
  <2>3. todo' \in Seq(Entry \cup {<<>>})
    BY <1>3, <2>1, <2>2 DEF Enter
  <2> QED
    BY <1>3, <2>3 DEF Enter, TypeOK
<1>4. ASSUME NEW f \in File, Stat(f) PROVE TypeOK'
  <2>1. main[f] \in Nat
    BY <1>4 DEF Stat, TypeOK
  <2> QED
    BY <1>4, <2>1 DEF Stat, TypeOK
<1>5. ASSUME NEW f \in File, Copy(f) PROVE TypeOK'
  <2>1. main[f] \in Nat /\ todo # <<>>
    BY <1>5 DEF Copy, TypeOK
  <2>2. Tail(todo) \in Seq(Entry \cup {<<>>})
    BY <2>1 DEF TypeOK
  <2>3. written' \in Nat /\ raced' \in Nat
    BY <1>5, <2>1 DEF Copy, TypeOK
  <2>4. tree' \in [File -> Nat \cup {Absent}]
    BY <1>5, <2>1 DEF Copy, TypeOK
  <2> QED
    BY <1>5, <2>2, <2>3, <2>4 DEF Copy, TypeOK
<1>6. ASSUME NEW f \in File, Snapshot(f) PROVE TypeOK'
  <2>1. main[f] # Absent /\ Content(f) \in Nat
    BY <1>6, ContentType DEF Snapshot
  <2>2. PICK bytes \in 0..Content(f) :
          SnapshotOf(f, Content(f), bytes, counted - size + bytes)
    BY <1>6 DEF Snapshot
  <2>3. Tail(todo) \in Seq(Entry \cup {<<>>})
    BY <2>2 DEF SnapshotOf, TypeOK
  <2>4. tree' \in [File -> Nat \cup {Absent}]
    BY <2>1, <2>2 DEF SnapshotOf, TypeOK
  <2>5. /\ written' \in Nat /\ counted' \in Int /\ sidecars' \subseteq File
        /\ pc' \in {"walking", "exceeded"}
    BY <2>1, <2>2 DEF SnapshotOf, TypeOK
  <2> QED
    BY <2>2, <2>3, <2>4, <2>5 DEF SnapshotOf, TypeOK
<1>7. CASE Pack \/ Stream \/ StatThrows
  BY <1>7 DEF Pack, Stream, StatThrows, TypeOK
<1>8. CASE Finish \/ StreamFails \/ Fail \/ Leave
  BY <1>8 DEF Finish, StreamFails, Fail, Leave, End, TypeOK
<1>9. CASE LeaveEarly
  BY <1>9 DEF LeaveEarly, TypeOK
<1>10. ASSUME NEW f \in File, GatewayWrites(f) \/ GatewayCreates(f) PROVE TypeOK'
  <2>1. PICK m \in Nat \cup {Absent}, l \in Nat : Becomes(f, m, l)
    BY <1>10, GatewayChanges
  <2>2. main' \in [File -> Nat \cup {Absent}] /\ log' \in [File -> Nat]
    BY <2>1 DEF Becomes, TypeOK
  <2>3. seen' \in [File -> SUBSET Nat]
    BY <2>1 DEF Becomes, TypeOK
  <2> QED
    BY <2>1, <2>2, <2>3 DEF Becomes, TypeOK
<1>11. CASE UNCHANGED vars
  BY <1>11 DEF vars, TypeOK
<1> QED
  BY <1>1, <1>2, <1>3, <1>4, <1>5, <1>6, <1>7, <1>8, <1>9, <1>10, <1>11 DEF Next

\* Every reachable state has the declared shape; a file that is being copied is
\* the next one the walk listed.
THEOREM TypeCorrect == Spec => []TypeOK
<1> QED
  BY InitTypeOK, NextTypeOK, PTL DEF Spec

-----------------------------------------------------------------------------
\* The count covers what is written and what is about to be copied, but for
\* what files grew by in between; it has passed the cap while the walk goes on,
\* and where anything is packed or sent.
CountInv ==
  /\ written + (IF pc = "copying" THEN size ELSE 0) <= counted + raced
  /\ pc \notin {"exceeded", "over"} => counted <= MaxBytes
  /\ Archived # {} \/ client = "whole" =>
       pc \in {"packed", "streaming", "over"} /\ counted <= MaxBytes

\* Every size counted is at least what is later written for it.
LEMMA NextCount ==
  ASSUME TypeOK, CountInv, [Next]_vars PROVE CountInv'
<1> USE SizesAssumption DEF SizesAssumption, files, handler, history, Archived
<1>1. ASSUME NEW f \in File, Stat(f) PROVE CountInv'
  BY <1>1 DEF Stat, CountInv, TypeOK
<1>2. ASSUME NEW f \in File, Copy(f) PROVE CountInv'
  <2>1. main[f] \in Nat
    BY <1>2 DEF Copy, TypeOK
  <2> QED
    BY <1>2, <2>1 DEF Copy, CountInv, TypeOK
<1>3. ASSUME NEW f \in File, Snapshot(f) PROVE CountInv'
  <2>1. Content(f) \in Nat
    BY <1>3, ContentType DEF Snapshot
  <2>2. PICK bytes \in 0..Content(f) :
          SnapshotOf(f, Content(f), bytes, counted - size + bytes)
    BY <1>3 DEF Snapshot
  <2> QED
    BY <2>1, <2>2 DEF SnapshotOf, CountInv, TypeOK
<1>4. CASE Finish \/ StreamFails \/ Fail \/ Leave
  BY <1>4 DEF Finish, StreamFails, Fail, Leave, End, Building, CountInv, TypeOK
<1>5. CASE Start \/ Refuse \/ LeaveEarly \/ UNCHANGED vars
  BY <1>5 DEF Start, Refuse, LeaveEarly, vars, CountInv, TypeOK
<1>8. CASE Pack \/ Stream \/ StatThrows
  BY <1>8 DEF Pack, Stream, StatThrows, CountInv, TypeOK
<1>6. ASSUME NEW d \in Dir, Enter(d) PROVE CountInv'
  BY <1>6 DEF Enter, CountInv
<1>7. ASSUME NEW f \in File, GatewayWrites(f) \/ GatewayCreates(f) PROVE CountInv'
  <2>1. PICK m \in Nat \cup {Absent}, l \in Nat : Becomes(f, m, l)
    BY <1>7, GatewayChanges
  <2> QED
    BY <2>1 DEF Becomes, CountInv
<1> QED
  BY <1>1, <1>2, <1>3, <1>4, <1>5, <1>6, <1>7, <1>8 DEF Next

\* What an export packs or sends is within the cap, whatever the gateway does,
\* except for what plain files grew by between their count and their copy.
THEOREM OversizeNeverGoesOut == Spec => []OversizeIsNeverSent
<1>1. Init => CountInv
  BY SizesAssumption DEF SizesAssumption, Init, CountInv, Archived, Nothing
<1>2. TypeOK /\ CountInv => OversizeIsNeverSent
  BY SizesAssumption DEF SizesAssumption, TypeOK, CountInv, OversizeIsNeverSent
<1> QED
  BY <1>1, <1>2, InitTypeOK, NextTypeOK, NextCount, PTL DEF Spec

-----------------------------------------------------------------------------
\* The directory is gone once a request is over, unless its end went unheard.
THEOREM TreesGo == Spec => []NoTreeLeftBehind
<1>1. Init => NoTreeLeftBehind
  BY DEF Init, NoTreeLeftBehind
<1>2. ASSUME NoTreeLeftBehind, [Next]_vars PROVE NoTreeLeftBehind'
  <2> USE <1>2 DEF NoTreeLeftBehind, files, handler, history
  <2>1. CASE Start
    BY <2>1 DEF Start
  <2>2. CASE Refuse
    BY <2>2 DEF Refuse
  <2>3. CASE Finish \/ StreamFails \/ Fail \/ Leave
    BY <2>3 DEF Finish, StreamFails, Fail, Leave, End
  <2>4. CASE LeaveEarly \/ StatThrows
    BY <2>4 DEF LeaveEarly, StatThrows
  <2>5. ASSUME NEW f \in File, Stat(f) \/ Copy(f) PROVE NoTreeLeftBehind'
    BY <2>5 DEF Stat, Copy
  <2>6. ASSUME NEW f \in File, Snapshot(f) PROVE NoTreeLeftBehind'
    BY <2>6 DEF Snapshot, SnapshotOf
  <2>7. ASSUME NEW f \in File, GatewayWrites(f) \/ GatewayCreates(f)
        PROVE  NoTreeLeftBehind'
    BY <2>7 DEF GatewayWrites, GatewayCreates, Becomes
  <2>8. CASE Pack \/ Stream \/ (\E d \in Dir : Enter(d)) \/ UNCHANGED vars
    BY <2>8 DEF Pack, Stream, Enter, vars
  <2> QED
    BY <1>2, <2>1, <2>2, <2>3, <2>4, <2>5, <2>6, <2>7, <2>8 DEF Next
<1> QED
  BY <1>1, <1>2, PTL DEF Spec

-----------------------------------------------------------------------------
\* What the tree and the archive hold was the file's content since the request
\* began, stores come with their empty logs, and nothing but a store has a log.
Current(amounts, logs) ==
  \A f \in File : amounts[f] # Absent =>
    amounts[f] \in seen[f] /\ (IsStore(f) => f \in logs)

CurrentInv ==
  /\ \A f \in File : ~IsStore(f) => log[f] = 0
  /\ pc = "idle" => tree = Nothing /\ archive.amounts = Nothing
  /\ pc # "idle" => \A f \in Existing : Content(f) \in seen[f]
  /\ pc \in {"walking", "copying"} => Current(tree, sidecars)
  /\ Current(archive.amounts, archive.logs)

\* Content is only ever added to what was seen, before it can be read.
LEMMA NextCurrent ==
  ASSUME TypeOK, CurrentInv, [Next]_vars PROVE CurrentInv'
<1> USE SizesAssumption DEF SizesAssumption, files, handler, history
<1>1. CASE Start
  BY <1>1 DEF Start, CurrentInv, Current, Nothing, Existing, Content, TypeOK
<1>2. CASE Refuse \/ LeaveEarly \/ UNCHANGED vars
  BY <1>2 DEF Refuse, LeaveEarly, vars, CurrentInv, Current, Existing, Content
<1>3. CASE Finish \/ StreamFails \/ Fail \/ Leave
  BY <1>3 DEF Finish, StreamFails, Fail, Leave, End, Building, CurrentInv, Current,
              Existing, Content
<1>4. CASE Pack \/ Stream \/ StatThrows
  BY <1>4 DEF Pack, Stream, StatThrows, CurrentInv, Current, Existing, Content
<1>5. ASSUME NEW f \in File, Stat(f) PROVE CurrentInv'
  BY <1>5 DEF Stat, CurrentInv, Current, Existing, Content
<1>6. ASSUME NEW d \in Dir, Enter(d) PROVE CurrentInv'
  BY <1>6 DEF Enter, CurrentInv, Current, Existing, Content
<1>7. ASSUME NEW f \in File, Copy(f) PROVE CurrentInv'
  <2>1. main[f] \in seen[f]
    BY <1>7 DEF Copy, CurrentInv, Existing, Content, TypeOK
  <2>2. Current(tree, sidecars)'
    BY <1>7, <2>1 DEF Copy, CurrentInv, Current, TypeOK
  <2> QED
    BY <1>7, <2>2 DEF Copy, CurrentInv, Current, Existing, Content
<1>8. ASSUME NEW f \in File, Snapshot(f) PROVE CurrentInv'
  <2>1. PICK bytes \in 0..Content(f) :
          SnapshotOf(f, Content(f), bytes, counted - size + bytes)
    BY <1>8 DEF Snapshot
  <2>2. Content(f) \in seen[f]
    BY <2>1 DEF SnapshotOf, CurrentInv, Existing
  <2>3. pc' = "walking" => Current(tree, sidecars)'
    BY <2>1, <2>2 DEF SnapshotOf, CurrentInv, Current, TypeOK
  <2> QED
    BY <2>1, <2>3 DEF SnapshotOf, CurrentInv, Current, Existing, Content
<1>9. ASSUME NEW f \in File, GatewayWrites(f) \/ GatewayCreates(f) PROVE CurrentInv'
  <2>1. PICK m \in Nat \cup {Absent}, l \in Nat :
          Becomes(f, m, l) /\ ((m = Absent \/ ~IsStore(f)) => l = 0)
    BY <1>9, GatewayChanges
  <2>2. \A g \in File : seen[g] \subseteq seen'[g]
    BY <2>1 DEF Becomes, TypeOK
  <2>3. \A g \in File : ~IsStore(g) => log'[g] = 0
    BY <2>1 DEF Becomes, CurrentInv, TypeOK
  <2>4. pc' # "idle" => \A g \in Existing' : Content(g)' \in seen'[g]
    <3> SUFFICES ASSUME pc # "idle", NEW g \in File, main'[g] # Absent
                 PROVE  main'[g] + log'[g] \in seen'[g]
      BY <2>1 DEF Becomes, Existing, Content
    <3>1. CASE g = f
      BY <2>1, <3>1 DEF Becomes, TypeOK
    <3>2. CASE g # f
      BY <2>1, <2>2, <3>2 DEF Becomes, TypeOK, CurrentInv, Existing, Content
    <3> QED
      BY <3>1, <3>2
  <2>5. (pc' \in {"walking", "copying"} => Current(tree, sidecars)') /\ Current(archive.amounts, archive.logs)'
    BY <2>1, <2>2 DEF Becomes, CurrentInv, Current
  <2> QED
    BY <2>1, <2>3, <2>4, <2>5 DEF Becomes, CurrentInv
<1> QED
  BY <1>1, <1>2, <1>3, <1>4, <1>5, <1>6, <1>7, <1>8, <1>9 DEF Next

\* Restored over any target, every archived file shows a content it really had
\* while the export ran.
THEOREM RestoresAreCurrent == Spec => []RestoredStateIsCurrent
<1>1. Init => CurrentInv
  BY DEF Init, CurrentInv, Current, Nothing
<1>2. TypeOK /\ CurrentInv => RestoredStateIsCurrent
  <2> SUFFICES ASSUME TypeOK, CurrentInv, NEW f \in Archived, NEW stale \in 0..1
               PROVE  Restored(f, stale) \in seen[f]
    BY DEF RestoredStateIsCurrent
  <2>1. f \in File /\ archive.amounts[f] \in Nat
    BY DEF Archived, TypeOK
  <2>2. archive.amounts[f] \in seen[f] /\ (IsStore(f) => f \in archive.logs)
    BY <2>1 DEF Archived, CurrentInv, Current
  <2> QED
    BY <2>1, <2>2 DEF Restored
<1> QED
  BY <1>1, <1>2, InitTypeOK, NextTypeOK, NextCurrent, PTL DEF Spec

-----------------------------------------------------------------------------
\* p is f or one of the directories f is in.
Above(p, f) == Len(p) <= Len(f) /\ \A i \in 1..Len(p) : p[i] = f[i]

\* Paths are sequences of names, never empty.
LEMMA PathType ==
  ASSUME NEW p \in Entry
  PROVE  p \in Seq(STRING) /\ Len(p) \in Nat \ {0}
BY EntryAssumption DEF EntryAssumption

\* A beginning of a path that is as long as the path is the path.
LEMMA AboveIsBeginning ==
  ASSUME NEW p \in Seq(STRING), NEW f \in Entry, Above(p, f)
  PROVE  Len(p) <= Len(f) /\ p = SubSeq(f, 1, Len(p))
BY PathType DEF Above

\* No file is in a file.
LEMMA FileIsAtTheEnd ==
  ASSUME NEW f \in File, NEW g \in File, Above(f, g) PROVE f = g
<1>1. f \in Entry /\ g \in Entry /\ Kind[f] = "file"
  BY DEF File
<1>2. Len(f) <= Len(g) /\ f = SubSeq(g, 1, Len(f)) /\ Len(f) \in Nat \ {0} /\ Len(g) \in Nat
  BY <1>1, PathType, AboveIsBeginning
<1>3. Len(f) \notin 1..(Len(g) - 1)
  BY <1>1, <1>2, TreeAssumption DEF TreeAssumption
<1>4. Len(f) = Len(g)
  BY <1>2, <1>3
<1> QED
  BY <1>1, <1>2, <1>4, PathType

\* A file the filter accepts is one the documentation lists.
LEMMA FilterIsDocumented ==
  ASSUME NEW f \in File, FilterStateEntry(f, Kind[f]) PROVE f \in Documented
BY PathType DEF File, Documented, FilterStateEntry, ExcludedPath, AgentEntry

\* The filter lets the walk reach every documented file: it accepts the file
\* and each directory above it.
LEMMA DocumentedIsReachable ==
  ASSUME NEW f \in Documented, NEW p \in Entry, Above(p, f),
         p = f \/ (Len(p) < Len(f) /\ Kind[p] = "dir")
  PROVE  FilterStateEntry(p, Kind[p])
<1>1. f \in Entry /\ Kind[f] = "file" /\ f \in Seq(STRING) /\ p \in Seq(STRING)
      /\ Len(p) \in Nat \ {0} /\ Len(f) \in Nat
  BY PathType DEF Documented, File
<1>2. \A i \in 1..Len(p) : i \in 1..Len(f) /\ p[i] = f[i]
  BY <1>1 DEF Above
<1>3. ~ExcludedPath(p)
  BY <1>1, <1>2 DEF ExcludedPath, Documented
<1>4. p[1] = f[1] /\ p[1] \in INCLUDE
  BY <1>1, <1>2 DEF Documented, INCLUDE
<1>5. ASSUME p[1] = "agents" PROVE AgentEntry(p, Kind[p])
  <2>1. Len(f) = 4 /\ f[3] = "agent" /\ f[4] \in AgentAllowed
    BY <1>4, <1>5 DEF Documented
  <2>2. Len(p) = 3 => p[3] = "agent"
    BY <1>1, <1>2, <2>1
  <2> QED
    BY <1>1, <2>1, <2>2 DEF AgentEntry
<1> QED
  BY <1>1, <1>3, <1>4, <1>5 DEF FilterStateEntry

\* Listing a directory above a documented file that exists lists what leads to
\* it.
LEMMA ListingLeadsOn ==
  ASSUME NEW f \in Documented, main[f] # Absent, NEW d \in Dir, Above(d, f)
  PROVE  \E i \in 1..Len(Dirents(d)) : Above(Dirents(d)[i], f)
<1> DEFINE n == Len(d) + 1
           p == SubSeq(f, 1, n)
<1>1. f \in File /\ f \in Entry /\ Kind[f] = "file" /\ f \in Seq(STRING) /\ Len(f) \in Nat
  BY PathType DEF Documented, File
<1>2. d \in Seq(STRING) /\ Len(d) \in Nat /\ (d = <<>> \/ (d \in Entry /\ Kind[d] = "dir"))
  <2>1. CASE d = <<>>
    BY <2>1
  <2>2. CASE d # <<>>
    BY <2>2, PathType DEF Dir
  <2> QED
    BY <2>1, <2>2
<1>3. Len(d) <= Len(f) /\ d = SubSeq(f, 1, Len(d))
  BY <1>1, <1>2, AboveIsBeginning
<1>4. Len(d) # Len(f)
  <2>1. SubSeq(f, 1, Len(f)) = f
    BY <1>1
  <2> QED
    BY <1>1, <1>2, <1>3, <2>1, PathType
<1>5. n \in 1..Len(f)
  BY <1>1, <1>2, <1>3, <1>4
<1>6. p \in Seq(STRING) /\ Len(p) = n /\ \A i \in 1..n : p[i] = f[i]
  BY <1>1, <1>5
<1>7. Above(p, f)
  BY <1>1, <1>5, <1>6 DEF Above
<1>8. p \in Entry /\ (p = f \/ (Len(p) < Len(f) /\ Kind[p] = "dir"))
  <2>1. CASE n = Len(f)
    <3>1. SubSeq(f, 1, Len(f)) = f
      BY <1>1
    <3> QED
      BY <1>1, <2>1, <3>1
  <2>2. CASE n # Len(f)
    <3>1. n \in 1..(Len(f) - 1)
      BY <1>1, <1>5, <2>2
    <3> QED
      BY <1>1, <1>6, <3>1, TreeAssumption DEF TreeAssumption
  <2> QED
    BY <2>1, <2>2
<1>9. FilterStateEntry(p, Kind[p])
  BY <1>7, <1>8, DocumentedIsReachable
<1>10. Exists(p)
  BY <1>8 DEF Exists, File
<1>11. Front(p) = d
  <2>1. Front(p) \in Seq(STRING) /\ Len(Front(p)) = Len(d)
        /\ \A i \in 1..Len(d) : Front(p)[i] = f[i]
    BY <1>2, <1>6 DEF Front
  <2>2. \A i \in 1..Len(d) : d[i] = f[i]
    BY DEF Above
  <2> QED
    BY <1>2, <2>1, <2>2
<1> HIDE DEF p
<1>12. PICK i \in 1..Len(Dirents(d)) : Dirents(d)[i] = p
  BY <1>8, <1>9, <1>10, <1>11, DirentsList
<1> QED
  BY <1>7, <1>12

-----------------------------------------------------------------------------
\* What the walk has listed or taken leads to every documented file that has
\* been there all the time, and to nothing else.
Led(amounts, list) == \A f \in steady \cap Documented :
  amounts[f] # Absent \/ \E i \in 1..Len(list) : Above(list[i], f)

CompleteInv ==
  /\ steady \subseteq Existing
  /\ \A i \in 1..Len(todo) : todo[i] = <<>> \/ FilterStateEntry(todo[i], Kind[todo[i]])
  /\ \A f \in File : tree[f] # Absent \/ archive.amounts[f] # Absent => f \in Documented
  /\ Building => Led(tree, todo)
  /\ pc \in {"packed", "streaming"} \/ client = "whole" => steady \cap Documented \subseteq Archived
  /\ client = "whole" => pc = "over"

\* A file leaves the list for the tree; a directory leaves it for its entries.
LEMMA NextTaken ==
  ASSUME TypeOK, CompleteInv, NEW f \in File,
         todo # <<>>, Head(todo) = f, todo' = Tail(todo), Building, pc' \in {"walking", "exceeded"},
         NEW amount \in Nat, tree' = [tree EXCEPT ![f] = amount],
         UNCHANGED <<main, steady, archive, client>>
  PROVE  CompleteInv'
<1>1. f = todo[1] /\ f \in Entry /\ f # <<>>
  BY PathType DEF TypeOK, File
<1>2. todo \in Seq(Path) /\ Len(todo) \in Nat \ {0}
  BY DEF TypeOK, Path
<1>3. Len(todo') = Len(todo) - 1 /\ \A i \in 1..Len(todo') : todo'[i] = todo[i + 1]
  BY <1>2
<1>4. \A i \in 1..Len(todo') : todo'[i] = <<>> \/ FilterStateEntry(todo'[i], Kind[todo'[i]])
  BY <1>2, <1>3 DEF CompleteInv
<1>5. f \in Documented
  BY <1>1, <1>2, FilterIsDocumented DEF CompleteInv
<1>6. tree'[f] # Absent /\ \A g \in File : g # f => tree'[g] = tree[g]
  BY SizesAssumption DEF SizesAssumption, TypeOK
<1>7. ASSUME NEW g \in steady \cap Documented
      PROVE  tree'[g] # Absent \/ \E i \in 1..Len(todo') : Above(todo'[i], g)
  <2>1. g \in File
    BY DEF Documented
  <2>2. CASE g = f
    BY <1>6, <2>2
  <2>3. CASE g # f /\ tree[g] # Absent
    BY <1>6, <2>1, <2>3
  <2>4. CASE g # f /\ tree[g] = Absent
    <3>1. PICK i \in 1..Len(todo) : Above(todo[i], g)
      BY <2>4 DEF CompleteInv, Led
    <3>2. i # 1
      BY <1>1, <2>1, <2>4, <3>1, FileIsAtTheEnd
    <3>3. i - 1 \in 1..Len(todo') /\ todo'[i - 1] = todo[i]
      BY <1>2, <1>3, <3>2
    <3> QED
      BY <3>1, <3>3
  <2> QED
    BY <2>2, <2>3, <2>4
<1>8. Led(tree, todo)'
  BY <1>7 DEF Led
<1>9. client # "whole"
  BY DEF CompleteInv, Building
<1>10. \A g \in File : tree'[g] # Absent => g \in Documented
  BY <1>5, <1>6 DEF CompleteInv
<1> QED
  BY <1>4, <1>8, <1>9, <1>10 DEF CompleteInv, Existing, Archived

\* Listing a directory keeps everything led to.
LEMMA NextListed ==
  ASSUME TypeOK, CompleteInv, NEW d \in Dir, Enter(d) PROVE CompleteInv'
<1> DEFINE D == Dirents(d)
           T == Tail(todo)
<1>1. todo \in Seq(Path) /\ Len(todo) \in Nat \ {0} /\ todo[1] = d /\ Building /\ Building'
  BY DEF Enter, TypeOK, Path, Building
<1>2. T \in Seq(Path) /\ Len(T) = Len(todo) - 1 /\ \A i \in 1..Len(T) : T[i] = todo[i + 1]
  BY <1>1
<1>3. D \in Seq(Path) /\ \A i \in 1..Len(D) : FilterStateEntry(D[i], Kind[D[i]])
  BY DirentsList DEF Path
<1> HIDE DEF D, T
<1>4. todo' = D \o T
  BY DEF Enter, D, T
<1>5. /\ Len(todo') = Len(D) + Len(T) /\ Len(D) \in Nat /\ Len(T) \in Nat
      /\ \A i \in 1..Len(D) : i \in 1..Len(todo') /\ todo'[i] = D[i]
      /\ \A i \in 1..Len(T) : Len(D) + i \in 1..Len(todo') /\ todo'[Len(D) + i] = T[i]
  <2>0. D \in Seq(Path) /\ T \in Seq(Path)
    BY <1>2, <1>3
  <2>1. Len(D \o T) = Len(D) + Len(T) /\ Len(D) \in Nat /\ Len(T) \in Nat
    BY <2>0
  <2>2. ASSUME NEW i \in 1..Len(D)
        PROVE  i \in 1..Len(D \o T) /\ (D \o T)[i] = D[i]
    BY <2>0, <2>1
  <2>3. ASSUME NEW i \in 1..Len(T)
        PROVE  Len(D) + i \in 1..Len(D \o T) /\ (D \o T)[Len(D) + i] = T[i]
    <3>1. Len(D) + i \in 1..Len(D \o T) /\ ~(Len(D) + i <= Len(D)) /\ Len(D) + i - Len(D) = i
      BY <2>1
    <3> QED
      BY <2>0, <2>1, <3>1
  <2> QED
    BY <1>4, <2>1, <2>2, <2>3, Zenon
<1>6. \A i \in 1..Len(todo') : todo'[i] = <<>> \/ FilterStateEntry(todo'[i], Kind[todo'[i]])
  <2> SUFFICES ASSUME NEW i \in 1..Len(todo')
               PROVE  todo'[i] = <<>> \/ FilterStateEntry(todo'[i], Kind[todo'[i]])
    OBVIOUS
  <2>1. CASE i \in 1..Len(D)
    BY <1>3, <1>5, <2>1
  <2>2. CASE i \notin 1..Len(D)
    <3>0. i - Len(D) \in 1..Len(T) /\ i = Len(D) + (i - Len(D))
      BY <1>5, <2>2
    <3>1. PICK j \in 1..Len(T) : i = Len(D) + j
      BY <3>0
    <3>2. todo'[i] = T[j]
      BY <1>5, <3>1
    <3>3. j + 1 \in 1..Len(todo) /\ T[j] = todo[j + 1]
      BY <1>1, <1>2, <3>1
    <3> QED
      BY <3>2, <3>3 DEF CompleteInv
  <2> QED
    BY <2>1, <2>2
<1>7. ASSUME NEW f \in steady \cap Documented, tree[f] = Absent
      PROVE  \E i \in 1..Len(todo') : Above(todo'[i], f)
  <2>1. PICK j \in 1..Len(todo) : Above(todo[j], f)
    BY <1>1, <1>7 DEF CompleteInv, Led
  <2>2. CASE j = 1
    <3>1. main[f] # Absent
      BY DEF CompleteInv, Existing
    <3>2. PICK i \in 1..Len(D) : Above(D[i], f)
      BY <1>1, <2>1, <2>2, <3>1, ListingLeadsOn DEF D
    <3> QED
      BY <1>5, <3>2
  <2>3. CASE j # 1
    <3>1. j - 1 \in 1..Len(T) /\ T[j - 1] = todo[j]
      BY <1>1, <1>2, <2>3
    <3> QED
      BY <1>5, <2>1, <3>1
  <2> QED
    BY <2>2, <2>3
<1>8. Led(tree, todo)'
  BY <1>7 DEF Led, Enter, files, history
<1>9. client # "whole"
  BY <1>1 DEF CompleteInv, Building
<1> QED
  BY <1>1, <1>6, <1>8, <1>9 DEF Enter, files, history, CompleteInv, Existing, Archived, Building

\* Every step keeps what the walk promises.
LEMMA NextComplete ==
  ASSUME TypeOK, CompleteInv, [Next]_vars PROVE CompleteInv'
<1> USE SizesAssumption DEF SizesAssumption, files, handler, history
<1>1. CASE Start
  <2>1. todo' = << <<>> >> /\ Len(todo') = 1 /\ todo'[1] = <<>>
    BY <1>1 DEF Start
  <2>2. \A f \in Documented : Above(<<>>, f)
    BY PathType DEF Above, Documented, File
  <2>3. Led(tree, todo)'
    BY <2>1, <2>2 DEF Led
  <2>4. \A i \in 1..Len(todo') : todo'[i] = <<>>
    BY <2>1
  <2> QED
    BY <1>1, <2>3, <2>4 DEF Start, CompleteInv, Existing, Archived
<1>2. CASE Refuse \/ LeaveEarly \/ UNCHANGED vars
  BY <1>2 DEF Refuse, LeaveEarly, vars, CompleteInv, Led, Building, Existing, Archived
<1>3. CASE Finish \/ StreamFails \/ Fail \/ Leave
  <2>1. pc' = "over" /\ UNCHANGED <<main, steady, todo, tree, archive>>
        /\ (client' = "whole" => pc = "streaming" \/ client = "whole")
    BY <1>3 DEF Finish, StreamFails, Fail, Leave, End
  <2> QED
    BY <2>1 DEF CompleteInv, Building, Existing, Archived
<1>10. CASE Stream \/ StatThrows
  BY <1>10 DEF Stream, StatThrows, CompleteInv, Led, Building, Existing, Archived
<1>4. CASE Pack
  <2>1. Building /\ Len(todo) = 0 /\ archive'.amounts = tree
    BY <1>4 DEF Pack, Building
  <2>2. \A f \in steady \cap Documented : tree[f] # Absent
    BY <2>1 DEF CompleteInv, Led
  <2>3. steady' \cap Documented \subseteq Archived'
    BY <1>4, <2>1, <2>2 DEF Pack, Archived, Documented
  <2> QED
    BY <1>4, <2>1, <2>3 DEF Pack, CompleteInv, Building, Existing
<1>5. ASSUME NEW f \in File, Stat(f) PROVE CompleteInv'
  BY <1>5 DEF Stat, CompleteInv, Led, Building, Existing, Archived
<1>6. ASSUME NEW d \in Dir, Enter(d) PROVE CompleteInv'
  BY <1>6, NextListed
<1>7. ASSUME NEW f \in File, Copy(f) PROVE CompleteInv'
  <2>1. main[f] \in Nat /\ todo # <<>>
    BY <1>7 DEF Copy, TypeOK
  <2> QED
    BY <1>7, <2>1, NextTaken DEF Copy, Building
<1>8. ASSUME NEW f \in File, Snapshot(f) PROVE CompleteInv'
  <2>1. PICK bytes \in 0..Content(f) :
          SnapshotOf(f, Content(f), bytes, counted - size + bytes)
    BY <1>8 DEF Snapshot
  <2>2. Content(f) \in Nat /\ todo # <<>>
    BY <2>1, ContentType DEF SnapshotOf, TypeOK
  <2> QED
    BY <2>1, <2>2, NextTaken DEF SnapshotOf, Building
<1>9. ASSUME NEW f \in File, GatewayWrites(f) \/ GatewayCreates(f) PROVE CompleteInv'
  <2>1. PICK m \in Nat \cup {Absent}, l \in Nat : Becomes(f, m, l)
    BY <1>9, GatewayChanges
  <2>2. steady' \subseteq steady /\ steady' \subseteq Existing'
    BY <2>1 DEF Becomes, CompleteInv, Existing, TypeOK
  <2>3. UNCHANGED <<pc, todo, tree, archive, client>>
    BY <2>1 DEF Becomes
  <2>4. Building => Led(tree, todo)'
    BY <2>2, <2>3 DEF CompleteInv, Led
  <2> QED
    BY <2>2, <2>3, <2>4 DEF CompleteInv, Building, Archived
<1> QED
  BY <1>1, <1>2, <1>3, <1>4, <1>5, <1>6, <1>7, <1>8, <1>9, <1>10 DEF Next

\* A backup is never silently partial and never holds what it must not: for
\* every directory, whatever the gateway does to it meanwhile.
THEOREM BackupsAreComplete == Spec => []BackupIsComplete
<1>1. Init => CompleteInv
  BY DEF Init, CompleteInv, Building, Nothing
<1>2. CompleteInv => BackupIsComplete
  BY DEF CompleteInv, BackupIsComplete, Archived
<1> QED
  BY <1>1, <1>2, InitTypeOK, NextTypeOK, NextComplete, PTL DEF Spec
=============================================================================
