-------------------------- MODULE MCOutboundQueue --------------------------
(* OutboundQueue with its constants chosen for TLC. *)
EXTENDS OutboundQueue, TLC

CONSTANTS r1, r2, w1, w2, d1, alice, LifeCap

\* Both rows are sent as one hosted domain to one recipient.
OneDomain == [r \in Rows |-> d1]
OneRecipient == [r \in Rows |-> alice]

\* One transient schedule in ticks, retried for the queue's whole lifetime.
SmallSchedules ==
  [c \in {"other_transient"} |-> [first |-> 1, max |-> 2, maxAge |-> LifeCap]]

Symmetry == Permutations(Workers) \union Permutations(Rows)
============================================================================
