----------------------------- MODULE MCStateExport -----------------------------
(* A small state directory for TLC: what an export takes, and beside it what *)
(* it must leave at each place the filter looks.                             *)
EXTENDS StateExport

MCFiles ==
  { <<"openclaw.json">>, <<"state", "a.sqlite">>, <<"agents", "m", "agent", "b.sqlite">>,
    <<"openclaw.json.bak">>, <<"state", "a.sqlite-wal">>, <<"state", "logs", "l">>,
    <<"credentials", "old.bak", "s">>, <<"agents", "m", "agent", "notes">>,
    <<"agents", "m", "sessions", "b.sqlite">>, <<"agents", "models.json">>,
    <<"bin", "x">> }
MCDirs ==
  { <<"state">>, <<"state", "logs">>, <<"credentials">>, <<"credentials", "old.bak">>,
    <<"agents">>, <<"agents", "m">>, <<"agents", "m", "agent">>,
    <<"agents", "m", "sessions">>, <<"bin">> }
MCLinks == { <<"memory">>, <<"state", "l.sqlite">> }

MCEntry == MCFiles \cup MCDirs \cup MCLinks
MCKind == [p \in MCEntry |->
  CASE p \in MCFiles -> "file" [] p \in MCDirs -> "dir" [] OTHER -> "other"]

\* What an export leaves out does not change: nothing reads it.
MCStill == MCFiles \ { <<"openclaw.json">>, <<"state", "a.sqlite">>, <<"agents", "m", "agent", "b.sqlite">> }
=============================================================================
