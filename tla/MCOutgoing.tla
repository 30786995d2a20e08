----------------------------- MODULE MCOutgoing -----------------------------
(* What clients send, the limits on it, and what becomes of mail that fails, *)
(* with their constants chosen for TLC.  The parts share no state, so a      *)
(* behaviour is of one of them: part says of which, and the others stand     *)
(* still in one initial state.                                               *)
EXTENDS Submission, SendLimits, BounceNotice, RetryLifetime, TLC

CONSTANTS boss, aide, alpha, beta, inbox, remote, REMOTE

VARIABLE part

MCLimits(perHour, perDay, rcptsPerHour, rcptsPerDay) ==
  [messages_per_hour |-> perHour, messages_per_day |-> perDay,
   recipients_per_hour |-> rcptsPerHour, recipients_per_day |-> rcptsPerDay]

\* One account owns the other, in two domains; limits at every level bind.
MCOwner == (boss :> NoAccount) @@ (aide :> boss)
MCDomainOf == (boss :> alpha) @@ (aide :> beta)
MCAccountDefault == MCLimits(2, 0, 0, 3)
MCCeilings ==
  (alpha :> MCLimits(1, 0, 0, 0)) @@ (beta :> MCLimits(0, 0, 2, 0))
    @@ (Server :> MCLimits(0, 2, 0, 3))
MCLimitValues == {MCLimits(1, 2, 0, 0), MCLimits(0, 2, 0, 1)}

\* Three failures reported to one remote address, a bounce relayed to it in
\* another spelling, and a failure whose local sender was forged.
MCJobs == 1 .. 5
MCKind == <<"remote", "remote", "remote", "relay", "local">>
MCBox  == <<remote, remote, remote, REMOTE, inbox>>
MCLinked == <<"none", "none", "none", "none", "other">>
MCSameBox ==
  [b \in Boxes |-> IF b = inbox THEN {inbox} ELSE {remote, REMOTE}]

outgoing == <<submission, limitVars, vars, retryVars, part>>

OutgoingInit ==
  /\ SubmissionInit /\ SendLimitsInit /\ Init /\ RetryInit
  /\ part \in {"submission", "limits", "notices", "retries"}
  /\ part # "submission" => \A m \in Mails : route[m] = "now"

OutgoingNext ==
  /\ UNCHANGED part
  /\ \/ part = "submission" /\ SubmissionNext /\ UNCHANGED <<limitVars, vars, retryVars>>
     \/ part = "limits" /\ SendLimitsNext /\ UNCHANGED <<submission, vars, retryVars>>
     \/ part = "notices" /\ Next /\ UNCHANGED <<submission, limitVars, retryVars>>
     \/ part = "retries" /\ RetryNext /\ UNCHANGED <<submission, limitVars, vars>>

OutgoingSpec == OutgoingInit /\ [][OutgoingNext]_outgoing /\ SubmissionFairness
=============================================================================
