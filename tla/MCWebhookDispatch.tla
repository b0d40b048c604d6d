-------------------------- MODULE MCWebhookDispatch ---------------------------
(* Small instances of WebhookDispatch for TLC. *)
EXTENDS WebhookDispatch, TLC

CONSTANTS opened, ready, mention, edited, headless   \* delivery ids

PullRequest(action) ==
  [event |-> "pull_request", action |-> action, repo |-> "o/r", number |-> 7,
   head |-> "sha1", comment |-> Missing, author |-> Missing, sender |-> "dev",
   body |-> Missing]

Comment(id, action, author, sender) ==
  [event |-> "issue_comment", action |-> action, repo |-> "o/r", number |-> 7,
   head |-> Missing, comment |-> id, author |-> author, sender |-> sender,
   body |-> {"@bot"}]

\* Two deliveries of one head; a comment of the trusted owner's and one of
\* somebody else's that the owner edited; a pull request without a head.
MCPayload == [d \in Delivery |->
  CASE d = opened  -> PullRequest("opened")
    [] d = ready   -> PullRequest("ready_for_review")
    [] d = mention -> Comment(41, "created", "owner", "owner")
    [] d = edited  -> Comment(42, "edited", "dev", "owner")
    [] OTHER -> [PullRequest("opened") EXCEPT !.head = Missing]]

Item(event, actions, trusted) ==
  [event |-> event, actions |-> actions, trusted |-> trusted]

FullAllowlist ==
  << [repo |-> "o/r",
      events |-> << Item("pull_request", {"opened", "ready_for_review"}, Missing),
                    Item("issue_comment", {"created", "edited"},
                         [actors |-> {"owner"}, pattern |-> "@bot"]) >>] >>

PullRequestsOnly ==
  << [repo |-> "o/r", events |-> <<Item("pull_request", {"opened"}, Missing)>>] >>

\* The second entry, or the second item, would never be found.
RepositoryTwice == PullRequestsOnly \o FullAllowlist
\* An entry without the events it grants.
NoEvents == << [FullAllowlist[1] EXCEPT !.events = Missing] >>
EventTwice == << [FullAllowlist[1] EXCEPT !.events = PullRequestsOnly[1].events \o @] >>

Environment(secrets, legacy, allowlist) ==
  [secrets |-> secrets, legacySecret |-> legacy, maxBytes |-> "default",
   allowlist |-> allowlist]

Production == Environment({"s1"}, "s2", FullAllowlist)

\* Enrolled; pull requests only, under the legacy secret; an allowlist that
\* does not parse, repeats itself or lacks a field; not enrolled; a secrets variable or a
\* body cap nobody can use.
MCConfig == { Production,
              Environment(Missing, "s2", PullRequestsOnly),
              Environment({"s1"}, Missing, NotAnArray),
              Environment({"s1"}, Missing, RepositoryTwice),
              Environment({"s1"}, Missing, EventTwice),
              Environment({"s1"}, Missing, NoEvents),
              Environment({}, "s2", FullAllowlist),
              Environment(NotAnArray, "s2", FullAllowlist),
              [Production EXCEPT !.maxBytes = Malformed] }

ProductionConfig == {Production}

RequestSymmetry == Permutations(Request)
=============================================================================
