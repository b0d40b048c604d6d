------------------------------ MODULE MCWrapper --------------------------------
(* A small instance of Wrapper for TLC. *)
EXTENDS Wrapper

CONSTANT opened   \* a delivery id

MCPayload == [d \in Delivery |->
  [event |-> "pull_request", action |-> "opened", repo |-> "o/r", number |-> 7,
   head |-> "sha1", comment |-> Missing, author |-> Missing, sender |-> "dev",
   body |-> Missing]]

Allowlist ==
  << [repo |-> "o/r",
      events |-> << [event |-> "pull_request", actions |-> {"opened"},
                     trusted |-> Missing] >>] >>

ProductionConfig ==
  {[secrets |-> {"s1"}, legacySecret |-> Missing, maxBytes |-> "default",
    allowlist |-> Allowlist]}
=============================================================================
