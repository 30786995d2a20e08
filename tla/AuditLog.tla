------------------------------ MODULE AuditLog ------------------------------
(***************************************************************************)
(* The audit log, a chain of hashes that many transactions append to, and  *)
(* the anchors published of it: the replicas of the API look once a minute *)
(* whether one is due and tell another host the head of the chain, so that *)
(* nobody who owns the database can rewrite what came before.              *)
(*                                                                         *)
(* A hash is modelled by a number no other entry has.  What a transaction  *)
(* appends is in the log when it commits; it holds the append lock from    *)
(* the moment it reads the last entry.  The anchors here are those of a    *)
(* target that answers (HTTPS, object storage), whose answer may be lost;  *)
(* an email anchor is queued, which is the target that always accepts.     *)
(***************************************************************************)
EXTENDS Integers, Sequences, SequencesExt, FiniteSets, FiniteSetsExt

CONSTANTS
  Writers,      \* requests that write an audit entry
  Replicas,     \* the processes that publish anchors
  Nobody,
  Quiet, Hour, Day,     \* quietPeriod, minimumInterval and dailyInterval
  HttpsAttempts,        \* httpsAttempts: how often one anchor is tried
  MaxClock,     \* bound: the clock
  MaxEntries,   \* bound: entries that requests begin
  MaxLost       \* bound: failed attempts at a delivery, failed commits

ASSUME AuditAssumption ==
  /\ Nobody \notin Writers \union Replicas /\ Writers \intersect Replicas = {}
  /\ {Quiet, Hour, Day} \subseteq Nat \ {0} /\ Quiet < Hour /\ Hour < Day
  /\ HttpsAttempts \in Nat \ {0} /\ {MaxClock, MaxEntries, MaxLost} \subseteq Nat

VARIABLES
  log,          \* the committed entries
  holder,       \* who holds the append lock
  pending,      \* the entry a transaction has appended and not committed
  replica,      \* a replica's check: its time, and the anchor it delivers
  anchors,      \* history: the anchors a target has accepted
  unheard,      \* history: the heads it accepted of which the answer or the record was lost
  clock, checked, entries, lost, hashes

auditVars ==
  <<log, holder, pending, replica, anchors, unheard, clock, checked, entries, lost, hashes>>

Genesis == [seq |-> 0, hash |-> 0]
NoEntry == [seq |-> 0, hash |-> 0, prev |-> 0, kind |-> "none", at |-> 0, head |-> Genesis]
EntryKinds == {"none", "change", "other", "anchored", "failed"}
IdleReplica == [stage |-> "idle", at |-> 0, head |-> Genesis, last |-> Genesis, tries |-> 0]

AnchorSet == [seq : Nat, hash : Nat]
EntrySet == [seq : Nat, hash : Nat, prev : Nat, kind : EntryKinds, at : Nat, head : AnchorSet]

AuditTypeOK ==
  /\ log \in Seq(EntrySet)
  /\ holder \in Writers \union Replicas \union {Nobody}
  /\ pending \in [Writers \union Replicas -> EntrySet]
  /\ replica \in [Replicas -> [stage : {"idle", "due", "accepted", "refused"}, at : Nat,
                               head : AnchorSet, last : AnchorSet, tries : Nat]]
  /\ unheard \in SUBSET AnchorSet
  /\ clock \in Nat /\ checked \in BOOLEAN
  /\ {entries, lost, hashes} \subseteq Nat

AuditInit ==
  /\ log = <<>> /\ holder = Nobody
  /\ pending = [w \in Writers \union Replicas |-> NoEntry]
  /\ replica = [r \in Replicas |-> IdleReplica]
  /\ anchors = <<>> /\ unheard = {}
  /\ clock = 0 /\ checked = FALSE /\ entries = 0 /\ lost = 0 /\ hashes = 0

HeadOf(l) == IF l = <<>> THEN Genesis ELSE [seq |-> Last(l).seq, hash |-> Last(l).hash]

-----------------------------------------------------------------------------
(* Append *)

\* Mutation of AppendLockFree: the last entry is read without the append lock.
AppendUnlocked == TRUE

AppendLockFree == holder = Nobody

\* Append: the lock, the last entry, the new entry after it.
AppendEntry(w, kind, at, head) ==
  /\ AppendLockFree /\ holder' = w
  /\ hashes' = hashes + 1
  /\ pending' = [pending EXCEPT ![w] =
       [seq |-> HeadOf(log).seq + 1, hash |-> hashes + 1, prev |-> HeadOf(log).hash,
        kind |-> kind, at |-> at, head |-> head]]

Leave(w) == pending' = [pending EXCEPT ![w] = NoEntry] /\ holder' = Nobody

\* The transaction commits and lets the lock go, or is rolled back.
Commit(w) == log' = Append(log, pending[w]) /\ Leave(w) /\ UNCHANGED lost
Rollback(w) == lost < MaxLost /\ lost' = lost + 1 /\ Leave(w) /\ UNCHANGED log

\* A transaction that appends: that of the change it records, for changes of grants
\* and of outbound stops, or one of its own after the change, for what the auditor
\* writes at the edge.
Write(w, kind) ==
  /\ pending[w] = NoEntry /\ entries < MaxEntries
  /\ entries' = entries + 1
  /\ AppendEntry(w, kind, clock, Genesis)
  /\ UNCHANGED <<log, replica, anchors, unheard, clock, checked, lost>>

EndWrite(w) ==
  /\ pending[w] # NoEntry
  /\ Commit(w) \/ Rollback(w)
  /\ UNCHANGED <<replica, anchors, unheard, clock, checked, entries, hashes>>

-----------------------------------------------------------------------------
(* Anchors *)

LastOf(kinds) ==
  LET S == {i \in 1..Len(log) : log[i].kind \in kinds} IN
  IF S = {} THEN NoEntry ELSE log[Max(S)]

Attempt == LastOf({"anchored", "failed"})
Previous == LastOf({"anchored"})

\* Mutation of After: from the entry of the previous publication on.
AfterPublication == Previous.seq

\* previousHead: the changes after the entry that was anchored last count, those
\* committed while that anchor was on its way included.
After == Previous.head.seq

\* adminChanges.
ChangeTimes == {log[i].at : i \in {k \in 1..Len(log) : k > After /\ log[k].kind = "change"}}

Burst ==
  /\ ChangeTimes # {}
  /\ clock - Max(ChangeTimes) >= Quiet \/ clock - Min(ChangeTimes) >= Hour

Due ==
  \/ Previous = NoEntry
  \/ clock - Previous.at >= Hour /\ (clock - Previous.at >= Day \/ Burst)

TryLock(r) == \A q \in Replicas \ {r} : replica[q].stage = "idle"

\* Any attempt, failed or not, starts the hourly limit.
ToPublish ==
  /\ log # <<>>
  /\ Attempt # NoEntry => clock - Attempt.at >= Hour
  /\ Due

\* publishExtra (the email worker's Check): what is due, under the publication lock.
Check(r) ==
  /\ replica[r].stage = "idle" /\ TryLock(r)
  /\ IF ToPublish
     THEN /\ replica' = [replica EXCEPT ![r] =
                [stage |-> "due", at |-> clock, head |-> HeadOf(log), last |-> Previous.head,
                 tries |-> 0]]
          /\ UNCHANGED checked
     ELSE checked' = TRUE /\ UNCHANGED replica
  /\ UNCHANGED <<log, holder, pending, anchors, unheard, clock, entries, lost, hashes>>

\* The target keeps the anchor.
Accepted(r) == anchors' = Append(anchors, [head |-> replica[r].head, last |-> replica[r].last])

\* An attempt that failed; it was the last, or the anchor is tried again.
Again(r) == IF replica[r].tries + 1 < HttpsAttempts THEN "due" ELSE "refused"
Failed(r, stage) ==
  /\ lost < MaxLost /\ lost' = lost + 1
  /\ replica' = [replica EXCEPT ![r].stage = stage, ![r].tries = @ + 1]

\* post: the target accepts the anchor and says so; it accepts it and its answer is
\* lost; or it refuses it, for now or for good, or is not reached.
Deliver(r) ==
  /\ replica[r].stage = "due"
  /\ \/ /\ Accepted(r)
        /\ replica' = [replica EXCEPT ![r].stage = "accepted"]
        /\ UNCHANGED <<unheard, lost>>
     \/ /\ Accepted(r) /\ Failed(r, Again(r))
        /\ unheard' = unheard \union {replica[r].head}
     \/ /\ \E stage \in {Again(r), "refused"} : Failed(r, stage)
        /\ UNCHANGED <<anchors, unheard>>
  /\ UNCHANGED <<log, holder, pending, clock, checked, entries, hashes>>

\* The attempt is recorded.
Record(r) ==
  /\ replica[r].stage \in {"accepted", "refused"} /\ pending[r] = NoEntry
  /\ AppendEntry(r, IF replica[r].stage = "accepted" THEN "anchored" ELSE "failed",
                 replica[r].at, replica[r].head)
  /\ UNCHANGED <<log, replica, anchors, unheard, clock, checked, entries, lost>>

\* A record that does not commit leaves nothing; the next tick checks again.
EndCheck(r) ==
  /\ pending[r] # NoEntry
  /\ \/ Commit(r) /\ checked' = TRUE /\ UNCHANGED unheard
     \/ /\ Rollback(r) /\ UNCHANGED checked
        /\ unheard' = IF replica[r].stage = "accepted" THEN unheard \union {replica[r].head} ELSE unheard
  /\ replica' = [replica EXCEPT ![r] = IdleReplica]
  /\ UNCHANGED <<anchors, clock, entries, hashes>>

\* A unit of the clock is many minutes: transactions end in it, and some replica
\* checks in each.
TimePasses ==
  /\ clock < MaxClock /\ checked
  /\ holder = Nobody /\ \A r \in Replicas : replica[r].stage = "idle"
  /\ clock' = clock + 1 /\ checked' = FALSE
  /\ UNCHANGED <<log, holder, pending, replica, anchors, unheard, entries, lost, hashes>>

AuditNext ==
  \/ \E w \in Writers : (\E kind \in {"change", "other"} : Write(w, kind)) \/ EndWrite(w)
  \/ \E r \in Replicas : Check(r) \/ Deliver(r) \/ Record(r) \/ EndCheck(r)
  \/ TimePasses

AuditSpec == AuditInit /\ [][AuditNext]_auditVars

-----------------------------------------------------------------------------
(* Properties *)

\* audit.Verify holds of the log whatever transactions append at once and whichever
\* of them are rolled back: no number is used twice or left out, and each entry
\* continues the hash of the one before.
ChainHolds ==
  \A i \in 1..Len(log) :
    /\ log[i].seq = i
    /\ log[i].prev = IF i = 1 THEN Genesis.hash ELSE log[i - 1].hash

\* Who keeps the accepted anchors can follow them: each names an entry the log
\* still has, with its hash, and an accepted one before it; they follow the order of
\* the log, and an anchor comes twice only when the answer to it, or the record of
\* that answer, was lost ("API replicas never deliver the same anchor").
AnchorsChain ==
  /\ \A i \in 1..Len(anchors) :
       /\ log[anchors[i].head.seq].hash = anchors[i].head.hash
       /\ \/ anchors[i].last = Genesis
          \/ \E j \in 1..(i - 1) : anchors[j].head = anchors[i].last
  /\ \A i \in 2..Len(anchors) :
       \/ anchors[i - 1].head.seq < anchors[i].head.seq
       \/ anchors[i - 1].head = anchors[i].head /\ anchors[i].head \in unheard

\* The log and the anchors prove each other.
LogIsProvable == ChainHolds /\ AnchorsChain

\* An administrative change is anchored within an hour of it or of the last attempt,
\* also one committed while an anchor was on its way ("includes changes committed
\* between that snapshot and its publication").
AnchoredInTime ==
  \A i \in 1..Len(log) :
    log[i].kind = "change" /\ i > Previous.head.seq
      => clock <= Max({log[i].at, Attempt.at}) + Hour
=============================================================================
