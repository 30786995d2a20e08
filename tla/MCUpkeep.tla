------------------------------ MODULE MCUpkeep ------------------------------
(* The background jobs and what they keep in order, with their constants     *)
(* chosen for TLC: mailbox usage and its reconciler, attachment objects and  *)
(* their cleaner, DKIM keys and their rotation.  The parts share no state,   *)
(* so a behaviour is of one of them: part says of which, and the others      *)
(* stand still in one initial state.  The store is explored twice: every     *)
(* request for a short while ("store"), and the removals of two messages of  *)
(* one mailbox's folder for longer ("removal").                              *)
EXTENDS MailStore, AttachmentSweep, DkimRotation, TLC

CONSTANTS
  team, desk, small, large, firstKey,
  MaxMixed      \* bound: how often anything is asked of the store, where all may be

VARIABLE part

\* One mailbox owns the other; both have a quota, and neither holds everything.
MCBoxOwner == (team :> NoBox) @@ (desk :> team)
MCQuota == (team :> 3) @@ (desk :> 2)
MCBodySize == (small :> 1) @@ (large :> 2)
MCPartSize == (small :> 1) @@ (large :> 0)

upkeep == <<store, sweepVars, rotation, part>>

UpkeepInit ==
  /\ MailStoreInit /\ SweepInit /\ DkimInit
  /\ part \in {"store", "removal", "sweep", "rotation"}
  /\ part # "rotation" => ~rotating
  /\ current = firstKey

\* Two messages come into the desk's folder, and requests delete them and the
\* folder at once; the reconciler makes its rounds while no request is under way.
EndRemoval == \E q \in Removers : Purge(q) \/ DropFolder(q)
ReconcileAlone == (\A q \in Removers : removing[q] = Idle) /\ Reconcile

RemovalNext ==
  \/ /\ counting = Idle
     /\ \/ \E l \in Letters : KeepSentCopy(desk, l)
        \/ \E l \in Letters : row[l].folder = "kept" /\ UpdateMessage(l, "made", FALSE)
        \/ \E q \in Removers : ReadForDrop(q, desk)
        \/ \E q \in Removers, l \in Letters : ReadForDelete(q, l, TRUE)
  \/ EndRemoval \/ ReconcileAlone

UpkeepNext ==
  /\ UNCHANGED part
  /\ \/ /\ part = "store" /\ MailStoreNext /\ asked' <= MaxMixed
        /\ UNCHANGED <<sweepVars, rotation>>
     \/ part = "removal" /\ RemovalNext /\ UNCHANGED <<sweepVars, rotation>>
     \/ part = "sweep" /\ SweepNext /\ UNCHANGED <<store, rotation>>
     \/ part = "rotation" /\ DkimNext /\ UNCHANGED <<store, sweepVars>>

\* The fairness of the part that moves.
UpkeepFairness ==
  /\ \A d \in Deliveries : WF_store(part = "store" /\ StoreMessage(d))
  /\ WF_store(part = "store" /\ Reconcile)
  /\ WF_store(part = "removal" /\ EndRemoval)
  /\ WF_store(part = "removal" /\ ReconcileAlone)
  /\ \A u \in Uploads : WF_sweepVars(part = "sweep" /\ CreateRow(u))
  /\ \A o \in Objects : SF_sweepVars(part = "sweep" /\ GrowOld(o))
  /\ WF_sweepVars(part = "sweep" /\ CleanerStep)
  /\ \A p \in Tickers : WF_rotation(part = "rotation" /\ DkimStep(p))
  /\ \A k \in DkimKeys : WF_rotation(part = "rotation" /\ Publish(k))
  /\ WF_rotation(part = "rotation" /\ DkimTick)

UpkeepSpec == UpkeepInit /\ [][UpkeepNext]_upkeep /\ UpkeepFairness
=============================================================================
