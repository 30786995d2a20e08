--------------------------- MODULE AttachmentSweep ---------------------------
(***************************************************************************)
(* Stored attachment objects, which are named by their content and shared  *)
(* by the rows that refer to them, and the cleaner that removes those no   *)
(* row refers to.  A delivery writes its object and creates its row later; *)
(* the cleaner lists old objects, asks which of them rows hold, looks at   *)
(* the age of each of the others again, and removes it.                    *)
(*                                                                         *)
(* Time is what the cleaner tells apart: an object is "young" or "old" at  *)
(* the cutoff of its sweep.  A delivery takes less than the grace period   *)
(* of a week, so an object does not grow old while one is about to refer   *)
(* to it.                                                                  *)
(***************************************************************************)
EXTENDS Integers, FiniteSets

CONSTANTS
  Objects,      \* contents of attachments
  Uploads,      \* deliveries and imports that store an attachment
  NoObject,     \* no object
  MaxUploads,   \* bound: how often a delivery begins
  MaxStuck      \* bound: how often a lookup or a removal fails

ASSUME SweepAssumption ==
  /\ NoObject \notin Objects
  /\ MaxUploads \in Nat /\ MaxStuck \in Nat

VARIABLES
  age,          \* absent, young or old
  rowsOf,       \* how many attachment rows refer to an object
  upload,       \* the object a delivery has written and will refer to
  sweep,        \* the cleaner: what it does, and the objects it has before it
  batch,        \* the objects it listed or still will remove
  looked,       \* the object it has just found old
  rewritten,    \* history: that object, if a delivery wrote it after the look
  overtaken,    \* history: objects that were removed nevertheless
  uploads, stuck

window == <<rewritten, overtaken>>

sweepVars == <<age, rowsOf, upload, sweep, batch, looked, window, uploads, stuck>>

SweepTypeOK ==
  /\ age \in [Objects -> {"absent", "young", "old"}]
  /\ rowsOf \in [Objects -> Nat]
  /\ upload \in [Uploads -> Objects \union {NoObject}]
  /\ sweep \in {"waiting", "listed", "removing"}
  /\ batch \in SUBSET Objects /\ looked \in Objects \union {NoObject}
  /\ rewritten \in SUBSET Objects /\ overtaken \in SUBSET Objects
  /\ uploads \in Nat /\ stuck \in Nat

SweepInit ==
  /\ age = [o \in Objects |-> "absent"]
  /\ rowsOf = [o \in Objects |-> 0]
  /\ upload = [u \in Uploads |-> NoObject]
  /\ sweep = "waiting" /\ batch = {} /\ looked = NoObject
  /\ rewritten = {} /\ overtaken = {}
  /\ uploads = 0 /\ stuck = 0

\* PutReader, putFilesystemObject: the object is written, also when it is there,
\* and whatever the cleaner is about to do with it.
PutObject(u, o) ==
  /\ upload[u] = NoObject /\ uploads < MaxUploads
  /\ age' = [age EXCEPT ![o] = "young"]
  /\ upload' = [upload EXCEPT ![u] = o]
  /\ rewritten' = rewritten \union {x \in {o} : looked = x}
  /\ overtaken' = overtaken \ {o}
  /\ uploads' = uploads + 1
  /\ UNCHANGED <<rowsOf, sweep, batch, looked, stuck>>

\* The message's transaction creates the row, or fails.
CreateRow(u) ==
  /\ upload[u] # NoObject
  /\ upload' = [upload EXCEPT ![u] = NoObject]
  /\ \/ rowsOf' = [rowsOf EXCEPT ![upload[u]] = @ + 1]
     \/ UNCHANGED rowsOf
  /\ UNCHANGED <<age, sweep, batch, looked, window, uploads, stuck>>

\* A message is purged: its rows go, the object stays.
DeleteRow(o) ==
  /\ rowsOf[o] > 0
  /\ rowsOf' = [rowsOf EXCEPT ![o] = @ - 1]
  /\ UNCHANGED <<age, upload, sweep, batch, looked, window, uploads, stuck>>

\* The grace period passes.  The cutoff is taken when a sweep begins.
GrowOld(o) ==
  /\ sweep = "waiting" /\ age[o] = "young"
  /\ \A u \in Uploads : upload[u] # o
  /\ age' = [age EXCEPT ![o] = "old"]
  /\ UNCHANGED <<rowsOf, upload, sweep, batch, looked, window, uploads, stuck>>

\* Sweep begins: sweepS3 and sweepFilesystem list what is older than the cutoff.
List ==
  /\ sweep = "waiting"
  /\ batch' = {o \in Objects : age[o] = "old"}
  /\ sweep' = "listed"
  /\ UNCHANGED <<age, rowsOf, upload, looked, window, uploads, stuck>>

\* Mutation of Unheld: a batch with one object in use is left alone.
UnheldOrNone(B) == {o \in B : \A p \in B : rowsOf[p] = 0}

Unheld(B) == {o \in B : rowsOf[o] = 0}

\* removeUnreferenced asks for the batch; an error ends the sweep.
AskHeld ==
  /\ sweep = "listed"
  /\ \/ sweep' = "removing" /\ batch' = Unheld(batch) /\ UNCHANGED stuck
     \/ /\ stuck < MaxStuck /\ stuck' = stuck + 1
        /\ sweep' = "waiting" /\ batch' = {}
  /\ UNCHANGED <<age, rowsOf, upload, looked, window, uploads>>

\* Mutation of Look: the age it listed will do.
LookNot(o) ==
  /\ sweep = "removing" /\ o \in batch /\ looked = NoObject
  /\ looked' = o /\ rewritten' = {}
  /\ UNCHANGED <<age, rowsOf, upload, sweep, batch, overtaken, uploads, stuck>>

\* "Look again just before deleting": an object that is young again, or gone, is
\* not removed.
Look(o) ==
  /\ sweep = "removing" /\ o \in batch /\ looked = NoObject
  /\ IF age[o] = "old" THEN looked' = o /\ UNCHANGED batch
     ELSE batch' = batch \ {o} /\ UNCHANGED looked
  /\ rewritten' = {}
  /\ UNCHANGED <<age, rowsOf, upload, sweep, overtaken, uploads, stuck>>

\* An object that will not go is counted, and the sweep moves on.
Remove ==
  /\ looked # NoObject
  /\ \/ /\ age' = [age EXCEPT ![looked] = "absent"]
        /\ overtaken' = overtaken \union rewritten
        /\ UNCHANGED stuck
     \/ stuck < MaxStuck /\ stuck' = stuck + 1 /\ UNCHANGED <<age, overtaken>>
  /\ batch' = batch \ {looked} /\ looked' = NoObject /\ rewritten' = {}
  /\ UNCHANGED <<rowsOf, upload, sweep, uploads>>

SweepEnds ==
  /\ sweep = "removing" /\ batch = {}
  /\ sweep' = "waiting"
  /\ UNCHANGED <<age, rowsOf, upload, batch, looked, window, uploads, stuck>>

CleanerStep == List \/ AskHeld \/ (\E o \in Objects : Look(o)) \/ Remove \/ SweepEnds

SweepNext ==
  \/ \E u \in Uploads : (\E o \in Objects : PutObject(u, o)) \/ CreateRow(u)
  \/ \E o \in Objects : DeleteRow(o) \/ GrowOld(o)
  \/ CleanerStep

\* Deliveries end, time passes between two sweeps, the cleaner sweeps daily.
SweepFairness ==
  /\ \A u \in Uploads : WF_sweepVars(CreateRow(u))
  /\ \A o \in Objects : SF_sweepVars(GrowOld(o))
  /\ WF_sweepVars(CleanerStep)

SweepSpec == SweepInit /\ [][SweepNext]_sweepVars /\ SweepFairness

-----------------------------------------------------------------------------
(* Properties *)

\* An attachment row lacks its object in one case only: a delivery of the same
\* content wrote the object after the cleaner's last look at it and before its
\* removal, and none has written it since.  A delivery that falls anywhere else
\* into a sweep, also between the listing, the query and the look, keeps what it
\* refers to (removeUnreferenced, sweepS3, sweepFilesystem).
RowHasObject == \A o \in Objects : rowsOf[o] > 0 /\ age[o] = "absent" => o \in overtaken

\* An object that no row refers to any more, and no delivery is writing, is
\* removed in the end, over failed lookups and removals (Cleaner).
UnusedIsRemoved ==
  \A o \in Objects :
    <>[](rowsOf[o] = 0 /\ \A u \in Uploads : upload[u] # o) => <>[](age[o] = "absent")
=============================================================================
