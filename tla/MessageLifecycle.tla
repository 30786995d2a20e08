-------------------------- MODULE MessageLifecycle --------------------------
(***************************************************************************)
(* What the outbound queue promises of each message it is given, with no   *)
(* worker, claim, clock or retry in sight: the recipient's server takes it *)
(* and it is delivered, or it fails and the sender is told; never both,    *)
(* and one of the two in the end.                                          *)
(***************************************************************************)
CONSTANT Messages

VARIABLES
  phase,        \* "new", "queued", "delivered" or "failed"
  taken,        \* the recipient's server has the message
  notified      \* the sender has been told that it failed

lifecycle == <<phase, taken, notified>>

LifecycleInit ==
  /\ phase = [m \in Messages |-> "new"]
  /\ taken = [m \in Messages |-> FALSE]
  /\ notified = [m \in Messages |-> FALSE]

Queue(m) ==
  /\ phase[m] = "new"
  /\ phase' = [phase EXCEPT ![m] = "queued"]
  /\ UNCHANGED <<taken, notified>>

Take(m) ==
  /\ phase[m] = "queued" /\ ~taken[m]
  /\ taken' = [taken EXCEPT ![m] = TRUE]
  /\ UNCHANGED <<phase, notified>>

Deliver(m) ==
  /\ phase[m] = "queued" /\ taken[m]
  /\ phase' = [phase EXCEPT ![m] = "delivered"]
  /\ UNCHANGED <<taken, notified>>

Fail(m) ==
  /\ phase[m] = "queued" /\ ~taken[m]
  /\ phase' = [phase EXCEPT ![m] = "failed"]
  /\ UNCHANGED <<taken, notified>>

Notify(m) ==
  /\ phase[m] = "failed" /\ ~notified[m]
  /\ notified' = [notified EXCEPT ![m] = TRUE]
  /\ UNCHANGED <<phase, taken>>

Settle(m) == Take(m) \/ Deliver(m) \/ Fail(m) \/ Notify(m)

LifecycleNext == \E m \in Messages : Queue(m) \/ Settle(m)

\* What may happen to a message.
LifecycleSafety == LifecycleInit /\ [][LifecycleNext]_lifecycle

\* And a message that can be settled is.
LifecycleSpec == LifecycleSafety /\ \A m \in Messages : WF_lifecycle(Settle(m))
=============================================================================
