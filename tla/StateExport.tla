------------------------------ MODULE StateExport ------------------------------
(***************************************************************************)
(* GET /setup/export?scope=state: scripts/wrapper-state-export.mjs and the *)
(* handler that scripts/patch-wrapper-scoped-export.mjs injects.  One      *)
(* request walks the state directory, builds a temporary tree, packs and   *)
(* streams it, while the gateway, another process, goes on writing the     *)
(* files the walk reads.  Requests share nothing but those files: each has *)
(* a temporary directory of its own.                                       *)
(***************************************************************************)
EXTENDS Integers, FiniteSets, Sequences, SequencesExt

CONSTANTS
  Entry,         \* paths below STATE_DIR, each a sequence of names
  Kind,          \* "file", "dir" or "other" (a link, a socket) for each of them
  Leftover,      \* names an excluded basename pattern matches
  AgentAllowed,  \* names STATE_EXPORT_AGENT_ALLOWED matches
  Sqlite,        \* names that end in .sqlite
  MaxBytes,      \* the byte cap
  MaxSize,       \* bound on a file's size
  MaxWrites,     \* bound on what the gateway changes
  Still,         \* bound: files the gateway never touches
  Absent         \* the size of a file that does not exist

ASSUME EntryAssumption == IsFiniteSet(Entry) /\ Entry \subseteq Seq(STRING) \ {<<>>}
\* What an entry is in are directories.
ASSUME TreeAssumption ==
  \A p \in Entry : \A n \in 1..(Len(p) - 1) :
    SubSeq(p, 1, n) \in Entry /\ Kind[SubSeq(p, 1, n)] = "dir"
ASSUME SizesAssumption == MaxBytes \in Nat /\ MaxSize \in Nat /\ Absent \notin Nat

INCLUDE == {"openclaw.json", "exec-approvals.json", "credentials", "devices",
            "cron", "identity", "memory", "state", "agents"}
EXCLUDE_SEGMENTS == {"bin", "lib", "media", "completions", "logs", "backups",
                     "sessions", "plugins", "codex-home", "workspace", "nodes", "canvas",
                     "skill-workshop", "plugin-skills", "workspace-attestations"}

VARIABLES
  main,     \* size of each file, or Absent
  log,      \* rows a store holds in its write-ahead log only
  pc,       \* where the handler is
  todo,     \* entries the walk has listed and not yet handled, in its order
  size,     \* sourceSize of the file being copied
  counted,  \* the byte count the cap is tested against
  tree,     \* what the temporary tree holds of each file, or Absent
  sidecars, \* stores with empty -wal and -shm files beside them in the tree
  temp,     \* the temporary directory
  archive,  \* what was packed
  client,   \* what became of the request
  \* history
  written,  \* bytes the tree holds
  raced,    \* bytes by which files grew between their count and their copy
  seen,     \* every content a file has had since the request began
  steady,   \* files that were there all that time
  unheard,  \* what the handler did not hear of: "no", "left" or "threw"
  writes    \* changes the gateway made

files == <<main, log>>
handler == <<pc, todo, size, counted, tree, sidecars, temp, archive, client>>
history == <<seen, steady, writes>>
vars == <<files, handler, written, raced, unheard, history>>

File == {p \in Entry : Kind[p] = "file"}
Dir == {p \in Entry : Kind[p] = "dir"} \cup {<<>>}
IsStore(f) == Last(f) \in Sqlite

\* What opening the file shows; a store's log is part of it.
Content(f) == main[f] + log[f]
Existing == {f \in File : main[f] # Absent}
Nothing == [f \in File |-> Absent]

Building == pc \in {"walking", "copying", "exceeded"}

TypeOK ==
  /\ main \in [File -> Nat \cup {Absent}]
  /\ log \in [File -> Nat]
  /\ pc \in {"idle", "walking", "copying", "exceeded", "packed", "streaming", "over"}
  /\ todo \in Seq(Entry \cup {<<>>})
  /\ pc = "copying" => todo # <<>> /\ Head(todo) \in File
  /\ size \in Nat /\ counted \in Int
  /\ tree \in [File -> Nat \cup {Absent}]
  /\ sidecars \subseteq File
  /\ temp \in {"none", "there", "removed"}
  /\ archive \in [amounts : [File -> Nat \cup {Absent}], logs : SUBSET File]
  /\ client \in {"none", "waiting", "whole", "failed", "refused", "aborted", "left"}
  /\ written \in Nat /\ raced \in Nat
  /\ seen \in [File -> SUBSET Nat]
  /\ steady \subseteq File
  /\ unheard \in {"no", "left", "threw"}
  /\ writes \in Nat

Init ==
  /\ main \in [File -> {1, Absent}]
  /\ log \in [File -> {0, 1}]
  /\ \A f \in File : main[f] = Absent \/ ~IsStore(f) => log[f] = 0
  /\ \A f \in Still : main[f] = 1 /\ log[f] = 0
  /\ pc = "idle" /\ todo = <<>> /\ size = 0 /\ counted = 0
  /\ tree = Nothing /\ sidecars = {} /\ temp = "none"
  /\ archive = [amounts |-> Nothing, logs |-> {}]
  /\ client = "none"
  /\ written = 0 /\ raced = 0 /\ unheard = "no"
  /\ seen = [f \in File |-> {}] /\ steady = {} /\ writes = 0

-----------------------------------------------------------------------------
\* filterStateEntry.
AgentEntry(p, kind) ==
  \/ kind = "dir" /\ Len(p) <= 3 /\ (Len(p) = 3 => p[3] = "agent")
  \/ kind = "file" /\ Len(p) = 4 /\ p[3] = "agent" /\ p[4] \in AgentAllowed

\* Mutant: patterns exclude files by their own name only.
ExcludedLeaf(p) ==
  \/ \E i \in DOMAIN p : p[i] \in EXCLUDE_SEGMENTS
  \/ Kind[p] = "file" /\ Last(p) \in Leftover

ExcludedPath(p) == \E i \in DOMAIN p : p[i] \in EXCLUDE_SEGMENTS \cup Leftover

FilterStateEntry(p, kind) ==
  /\ kind \in {"file", "dir"}
  /\ ~ExcludedPath(p)
  /\ p[1] \in INCLUDE
  /\ p[1] = "agents" => AgentEntry(p, kind)

Exists(p) == p \in File => main[p] # Absent

\* A directory's accepted entries, in the one order the walk takes.
Dirents(d) ==
  SetToSeq({p \in Entry : Front(p) = d /\ Exists(p) /\ FilterStateEntry(p, Kind[p])})

-----------------------------------------------------------------------------
\* The request begins: the directory is made and the walk set up.
Start ==
  /\ pc = "idle" /\ client = "none"
  /\ client' = "waiting" /\ temp' = "there"
  /\ pc' = "walking" /\ todo' = << <<>> >>
  /\ seen' = [f \in File |-> IF f \in Existing THEN {Content(f)} ELSE {}]
  /\ steady' = Existing
  /\ UNCHANGED <<files, size, counted, tree, sidecars, archive, written, raced, unheard, writes>>

\* A scope the handler does not know is answered at once.
Refuse ==
  /\ pc = "idle" /\ client = "none"
  /\ client' = "refused"
  /\ UNCHANGED <<files, pc, todo, size, counted, tree, sidecars, temp, archive,
                 written, raced, unheard, history>>

\* The walk lists a directory; its entries come before what was left.
Enter(d) ==
  /\ pc = "walking" /\ todo # <<>> /\ Head(todo) = d
  /\ todo' = Dirents(d) \o Tail(todo)
  /\ UNCHANGED <<files, pc, size, counted, tree, sidecars, temp, archive, client,
                 written, raced, unheard, history>>

\* A file's size is read and counted; a file that is gone fails the walk, as
\* does a count above the cap.
Stat(f) ==
  /\ pc = "walking" /\ todo # <<>> /\ Head(todo) = f
  /\ main[f] # Absent
  /\ size' = main[f]
  /\ counted' = counted + main[f]
  /\ counted' <= MaxBytes
  /\ pc' = "copying"
  /\ UNCHANGED <<files, todo, tree, sidecars, temp, archive, client, written, raced,
                 unheard, history>>

\* A plain file is copied as it is by now.
Copy(f) ==
  /\ pc = "copying" /\ Head(todo) = f
  /\ ~IsStore(f) /\ main[f] # Absent
  /\ tree' = [tree EXCEPT ![f] = main[f]]
  /\ written' = written + main[f]
  /\ raced' = raced + (IF main[f] > size THEN main[f] - size ELSE 0)
  /\ todo' = Tail(todo) /\ pc' = "walking"
  /\ UNCHANGED <<files, size, counted, sidecars, temp, archive, client, unheard, history>>

\* A store is snapshot with its log at one moment.  Only then is the count
\* corrected to the size of the snapshot, which vacuuming may have made smaller
\* and the log larger, and tested again: what puts it over the cap is written,
\* and nothing after it, not even the empty sidecars.
SnapshotOf(f, content, bytes, sizeCounted) ==
  /\ pc = "copying" /\ Head(todo) = f
  /\ IsStore(f) /\ main[f] # Absent
  /\ counted' = sizeCounted
  /\ tree' = [tree EXCEPT ![f] = content]
  /\ written' = written + bytes
  /\ todo' = Tail(todo)
  /\ \/ sizeCounted <= MaxBytes /\ pc' = "walking" /\ sidecars' = sidecars \cup {f}
     \/ sizeCounted > MaxBytes /\ pc' = "exceeded" /\ UNCHANGED sidecars
  /\ UNCHANGED <<files, size, temp, archive, client, raced, unheard, history>>

\* Mutant: the count keeps the size of the source.
SnapshotUncorrected(f) ==
  main[f] # Absent /\ \E bytes \in 0..Content(f) : SnapshotOf(f, Content(f), bytes, counted)

\* Mutant: the main file alone is copied.
SnapshotIsHotCopy(f) == SnapshotOf(f, main[f], main[f], counted)

Snapshot(f) ==
  /\ main[f] # Absent
  /\ \E bytes \in 0..Content(f) : SnapshotOf(f, Content(f), bytes, counted - size + bytes)

\* The tree is complete and packed.
Pack ==
  /\ pc = "walking" /\ todo = <<>>
  /\ archive' = [amounts |-> tree, logs |-> sidecars]
  /\ pc' = "packed"
  /\ UNCHANGED <<files, todo, size, counted, tree, sidecars, temp, client, written,
                 raced, unheard, history>>

\* Only now are there headers, and listeners for the end of the response.
Stream ==
  /\ pc = "packed"
  /\ pc' = "streaming"
  /\ UNCHANGED <<files, todo, size, counted, tree, sidecars, temp, archive, client,
                 written, raced, unheard, history>>

\* The size of the archive cannot be read.  That is after the catch block and
\* before the listeners: nobody removes the directory.  What the framework tells
\* the client of it is left out.
StatThrows ==
  /\ pc = "packed"
  /\ pc' = "over" /\ unheard' = "threw"
  /\ UNCHANGED <<files, todo, size, counted, tree, sidecars, temp, archive, client,
                 written, raced, history>>

\* What ends the response while somebody listens removes the directory.
End(how) ==
  /\ pc' = "over" /\ temp' = "removed" /\ client' = how
  /\ UNCHANGED <<files, todo, size, counted, tree, sidecars, archive, written, raced,
                 unheard, history>>

Finish == pc = "streaming" /\ client = "waiting" /\ End("whole")
StreamFails == pc = "streaming" /\ client = "waiting" /\ End("aborted")

\* Anything that throws before the headers: the cap, a file that went away, the
\* disk, node:sqlite, a packing error.
Fail == Building /\ End(IF client = "waiting" THEN "failed" ELSE client)

\* The client disconnects while something is awaited: a store's snapshot, or the
\* packing of the tree.  Nothing hears of it before the headers, and nothing
\* will: a response closes once, and one that has closed takes no more bytes, so
\* neither Finish nor StreamFails follows.
Awaiting ==
  \/ pc = "copying" /\ IsStore(Head(todo))
  \/ pc = "walking" /\ todo = <<>>

LeaveEarly ==
  /\ Awaiting /\ client = "waiting"
  /\ client' = "left" /\ unheard' = "left"
  /\ UNCHANGED <<files, pc, todo, size, counted, tree, sidecars, temp, archive,
                 written, raced, history>>

\* Mutant: only "finish" removes the directory.
LeaveUnheard ==
  /\ pc = "streaming" /\ client = "waiting"
  /\ client' = "left" /\ pc' = "over"
  /\ UNCHANGED <<files, todo, size, counted, tree, sidecars, temp, archive,
                 written, raced, unheard, history>>

Leave == pc = "streaming" /\ client = "waiting" /\ End("left")

-----------------------------------------------------------------------------
\* The gateway (external) changes a file.
Becomes(f, m, l) ==
  /\ writes < MaxWrites /\ writes' = writes + 1
  /\ main' = [main EXCEPT ![f] = m]
  /\ log' = [log EXCEPT ![f] = l]
  /\ seen' = [seen EXCEPT ![f] = IF m = Absent THEN @ ELSE @ \cup {m + l}]
  /\ steady' = IF m = Absent THEN steady \ {f} ELSE steady
  /\ UNCHANGED <<handler, written, raced, unheard>>

\* A plain file is rewritten; a store's rows go to its log until a checkpoint
\* moves them into the main file.
GatewayWrites(f) ==
  /\ f \in Existing
  /\ \/ ~IsStore(f) /\ \E n \in 0..MaxSize : Becomes(f, n, 0)
     \/ IsStore(f) /\ Content(f) < MaxSize /\ Becomes(f, main[f], log[f] + 1)
     \/ IsStore(f) /\ log[f] > 0 /\ Becomes(f, Content(f), 0)
     \/ Becomes(f, Absent, 0)

GatewayCreates(f) == f \notin Existing /\ Becomes(f, 1, 0)

Next ==
  \/ Start \/ Refuse
  \/ \E d \in Dir : Enter(d)
  \/ \E f \in File : Stat(f) \/ Copy(f) \/ Snapshot(f)
  \/ \E f \in File \ Still : GatewayWrites(f) \/ GatewayCreates(f)
  \/ Pack \/ Stream \/ StatThrows \/ Finish \/ StreamFails \/ Fail \/ LeaveEarly \/ Leave

Spec == Init /\ [][Next]_vars

-----------------------------------------------------------------------------
\* The files README.md says a state export contains.
Documented == {f \in File :
  /\ \A i \in DOMAIN f : f[i] \notin EXCLUDE_SEGMENTS \cup Leftover
  /\ \/ f[1] \in INCLUDE \ {"agents"}
     \/ Len(f) = 4 /\ f[1] = "agents" /\ f[3] = "agent" /\ f[4] \in AgentAllowed}

Archived == {f \in File : archive.amounts[f] # Absent}

\* A backup is never silently partial: a client that got a whole response has
\* every documented file that was there all the time and not one file besides.
BackupIsComplete == client = "whole" =>
  /\ steady \cap Documented \subseteq Archived
  /\ Archived \subseteq Documented

\* What the wrapper's import (external) makes of an archived file over a target
\* whose log still holds some stale rows: only an archived log replaces it.
Restored(f, stale) ==
  archive.amounts[f] + (IF IsStore(f) /\ f \notin archive.logs THEN stale ELSE 0)

\* Restored anywhere, each archived file shows a content it really had at some
\* moment since the request began: nothing committed before the request is
\* missing, however far a store's log was from its last checkpoint.
RestoredStateIsCurrent ==
  \A f \in Archived, stale \in 0..1 : Restored(f, stale) \in seen[f]

\* "An oversized state is rejected before any archive bytes are streamed": what
\* an export packs or sends is within the cap, except for what a plain file grew
\* by between the moment it was counted and its copy.  A store's snapshot may
\* put the tree over the cap, which only its size can tell; that ends the walk.
OversizeIsNeverSent ==
  written > MaxBytes + raced => pc \in {"exceeded", "over"} /\ Archived = {}
                                /\ client # "whole"

\* The temporary directory goes with the request, whatever failed and whoever
\* hung up; it stays only where the handler did not hear of the end: behind a
\* client that left before the headers, when nothing listened for it yet, or
\* when it threw just before it would have listened.
NoTreeLeftBehind ==
  temp = "there" => (pc # "over" /\ client = "waiting") \/ unheard # "no"

\* "Removed as soon as the response finishes ... and again on close for aborted
\* requests": no directory outlives a request that is answered or aborted.
TreeGoesWithRequest == temp = "there" => Building \/ client = "waiting"
=============================================================================
