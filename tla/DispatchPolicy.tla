---------------------------- MODULE DispatchPolicy ----------------------------
(***************************************************************************)
(* The pure decisions of scripts/wrapper-github-webhook-verify.mjs: which  *)
(* secrets a delivery may be signed with, which key names the work it      *)
(* announces, and whether the deployment's allowlist permits forwarding    *)
(* it.  Strings are atoms; what the code distinguishes about a string that *)
(* is wrong (blank, padded, unparsable) is one of the atoms below.         *)
(***************************************************************************)
EXTENDS Naturals, Sequences

CONSTANTS
  Missing,      \* an absent, blank or wrong-typed value
  Malformed,    \* what a resolver that throws its config error yields
  NotAnArray,   \* a set environment variable that is no JSON array
  Unclean,      \* a blank or padded string (isCleanString is false)
  BadPattern    \* a pattern that is no regular expression

(***************************************************************************)
(* GITHUB_WEBHOOK_SECRETS, a set of strings, wins over the legacy variable *)
(* as soon as it is set, even to "[]".                                     *)
(***************************************************************************)
ResolveGithubWebhookSecrets(e) ==
  IF e.secrets = Missing THEN {e.legacySecret} \ {Missing, Unclean}
  ELSE IF e.secrets = NotAnArray \/ {Missing, Unclean} \cap e.secrets # {} THEN Malformed
  ELSE e.secrets

\* An HMAC verifies under exactly the secret that produced it.
VerifyAnyGithubSignature(secrets, signedWith) == signedWith \in secrets \ {Missing}

ActorLoginFor(p) == IF p.event = "issue_comment" THEN p.author ELSE p.sender

\* repo + number + head for a pull request, repo + number + comment id for a
\* comment; neither the action nor the delivery id is part of it.
ComputeDedupKey(p) ==
  IF Missing \in {p.repo, p.number} THEN Missing
  ELSE IF p.event = "pull_request" /\ p.head # Missing
    THEN <<p.repo, p.number, "@", p.head>>
  ELSE IF p.event = "issue_comment" /\ p.comment # Missing
    THEN <<p.repo, p.number, "/comment-", p.comment>>
  ELSE Missing

-----------------------------------------------------------------------------
\* Mutant: neither "seen" set.
RepeatsAllowed(f) == TRUE

\* No two positions carry the same name: the code's two "seen" sets.
NoRepeats(f) == \A i, j \in DOMAIN f : f[i] = f[j] => i = j

ValidTrustedMention(t) ==
  /\ t # Missing
  /\ t.actors \notin {Missing, {}} /\ {Unclean, Missing} \cap t.actors = {}
  /\ t.pattern \notin {Missing, BadPattern}

ValidEventItem(item) ==
  /\ item.event \notin {Missing, Unclean}
  /\ item.actions \notin {Missing, {}} /\ {Missing, Unclean} \cap item.actions = {}
  /\ item.event = "issue_comment" => ValidTrustedMention(item.trusted)

ValidateDispatchAllowlistEntry(entry) ==
  /\ entry.repo \notin {Missing, Unclean}
  /\ entry.events \notin {Missing, <<>>}
  /\ \A i \in DOMAIN entry.events : ValidEventItem(entry.events[i])
  /\ NoRepeats([i \in DOMAIN entry.events |-> entry.events[i].event])

\* GITHUB_DISPATCH_ALLOWLIST, a sequence of entries.
ResolveDispatchAllowlist(raw) ==
  IF raw = Missing THEN <<>>
  ELSE IF /\ raw # NotAnArray
          /\ \A i \in DOMAIN raw : ValidateDispatchAllowlistEntry(raw[i])
          /\ NoRepeats([i \in DOMAIN raw |-> raw[i].repo])
    THEN raw ELSE Malformed

\* Array.prototype.find: the first of the positions that pass, as a set of at
\* most one element.
Find(s, hits) == {s[i] : i \in {n \in hits : \A m \in hits : n <= m}}

EntryFor(entries, p) == Find(entries, {i \in DOMAIN entries : entries[i].repo = p.repo})

ItemFor(entry, p) ==
  Find(entry.events, {i \in DOMAIN entry.events :
    entry.events[i].event = p.event /\ p.action \in entry.events[i].actions})

\* A comment's body is the set of patterns it matches.
TrustedMentionMatches(t, actor, body) ==
  /\ t # Missing /\ actor # Missing /\ body # Missing
  /\ actor \in t.actors
  /\ t.pattern \in body

\* Mutant: the sender of the event stands in for the author of the comment.
MatchesBySender(entries, p) ==
  /\ p.repo # Missing
  /\ \E entry \in EntryFor(entries, p) :
     \E item \in ItemFor(entry, p) :
       p.event = "issue_comment" =>
         TrustedMentionMatches(item.trusted, p.sender, p.body)

MatchesDispatchAllowlist(entries, p) ==
  /\ p.repo # Missing
  /\ \E entry \in EntryFor(entries, p) :
     \E item \in ItemFor(entry, p) :
       p.event = "issue_comment" =>
         TrustedMentionMatches(item.trusted, ActorLoginFor(p), p.body)

(***************************************************************************)
(* The synchronous decision taken after the signature verified.  The key   *)
(* is marked by the caller in the same step when the answer is             *)
(* "forwarded".                                                            *)
(***************************************************************************)
PlanDispatch(allowlistVar, p, dedupStore) ==
  LET key       == ComputeDedupKey(p)
      allowlist == ResolveDispatchAllowlist(allowlistVar)
  IN  IF p.event = Missing \/ key = Missing THEN "not-enrolled"
      ELSE IF key \in dedupStore THEN "duplicate"
      ELSE IF allowlist = Malformed THEN "config-error"
      ELSE IF MatchesDispatchAllowlist(allowlist, p) THEN "forwarded"
      ELSE "no-match"
=============================================================================
