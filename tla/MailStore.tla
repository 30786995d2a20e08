----------------------------- MODULE MailStore -----------------------------
(***************************************************************************)
(* The messages of the mailboxes and the storage they are charged with.    *)
(* A mailbox is charged by whoever stores a message in it and given back   *)
(* by whoever removes one, each in its own way; deliveries reserve under   *)
(* the quotas of the mailbox and of every mailbox that owns it; and the    *)
(* reconciler writes what it counted, without a lock, over what the others *)
(* recorded.                                                               *)
(***************************************************************************)
EXTENDS Integers, FiniteSets, FiniteSetsExt

CONSTANTS
  Boxes,        \* mailboxes
  NoBox,        \* not a mailbox
  BoxOwner,     \* BoxOwner[b]: the mailbox that owns b, NoBox at the top
  Quota,        \* quota_bytes, zero without one
  Letters,      \* messages
  BodySize,     \* size_bytes of a message
  PartSize,     \* and of its attachments
  Removers,     \* requests that remove a message or a folder
  Deliveries,   \* transactions that store a message
  MaxAsked,     \* bound: how often anything is asked of the store
  MaxMisread    \* bound: the reconciler's queries that fail

\* INBOX, Drafts and Sent; Trash; the folders of the user.  A user's folder is
\* made by a marker of no size, and renaming it moves all of it to another such.
Folders == {"kept", "Trash", "made"}

\* StorageQuotaChain: the mailbox and its owners, which are no circle.
Owners(b) ==
  {a \in Boxes : \A S \in SUBSET Boxes :
     b \in S /\ (\A c \in S : BoxOwner[c] # NoBox => BoxOwner[c] \in S) => a \in S}

ASSUME BoxAssumption ==
  /\ NoBox \notin Boxes /\ IsFiniteSet(Boxes) /\ IsFiniteSet(Letters)
  /\ BoxOwner \in [Boxes -> Boxes \union {NoBox}]
  /\ \A b \in Boxes : \E a \in Owners(b) : BoxOwner[a] = NoBox
  /\ Quota \in [Boxes -> Nat]
  /\ BodySize \in [Letters -> Nat] /\ PartSize \in [Letters -> Nat]
  /\ MaxAsked \in Nat /\ MaxMisread \in Nat

VARIABLES
  row,          \* the messages stored, unused or gone again
  charged,      \* mailboxes.quota_used_bytes
  active,       \* the mailboxes that are active
  heldIn,       \* mailboxes with a message in their quarantine
  uncounted,    \* the digest that is stored and not yet charged
  removing,     \* what a request has read of what it will remove
  storing,      \* what a transaction has reserved, its mailboxes locked
  counting,     \* the reconciler: where it is, what it read
  asked, misread,
  \* history
  givenBack,    \* how often a message's storage was given back
  overdrawn,    \* how often by a folder's deletion that did not remove the message
  unreserved    \* mailboxes that were charged without a reservation

ledger == <<givenBack, overdrawn, unreserved>>

store == <<row, charged, active, heldIn, uncounted, removing, storing,
           counting, asked, misread, ledger>>

Stored  == [box : Boxes, folder : Folders, draft : BOOLEAN]
Unused  == [box |-> NoBox, folder |-> "unused", draft |-> FALSE]
Removed == [box |-> NoBox, folder |-> "removed", draft |-> FALSE]
Idle    == [does |-> "nothing"]

MailStoreTypeOK ==
  /\ row \in [Letters -> Stored \union {Unused, Removed}]
  /\ charged \in [Boxes -> Nat] /\ active \in SUBSET Boxes
  /\ heldIn \in SUBSET Boxes
  /\ uncounted \in SUBSET (Letters \X Boxes)
  /\ removing \in [Removers ->
       {Idle} \union [does : {"purge", "trash"}, letter : Letters, box : Boxes]
              \union [does : {"drop"}, box : Boxes, letters : SUBSET Letters]]
  /\ storing \in [Deliveries ->
       {Idle} \union [does : {"store"}, box : Boxes, letter : Letters]]
  /\ counting \in {Idle} \union [does : {"bodies", "parts", "write"}, left : SUBSET Boxes,
                                 box : Boxes, recorded : [Boxes -> Nat], sum : Nat]
  /\ asked \in Nat /\ misread \in Nat
  /\ givenBack \in [Letters -> Nat] /\ overdrawn \in [Letters -> Nat]
  /\ unreserved \in SUBSET Boxes

MailStoreInit ==
  /\ row = [l \in Letters |-> Unused]
  /\ charged = [b \in Boxes |-> 0] /\ active = Boxes
  /\ heldIn = Boxes /\ uncounted = {}
  /\ removing = [q \in Removers |-> Idle]
  /\ storing = [d \in Deliveries |-> Idle]
  /\ counting = Idle
  /\ asked = 0 /\ misread = 0
  /\ givenBack = [l \in Letters |-> 0] /\ overdrawn = [l \in Letters |-> 0]
  /\ unreserved = {}

\* A request begins.
Ask == asked < MaxAsked /\ asked' = asked + 1

Exists(l)  == row[l] \in Stored
Size(l)    == BodySize[l] + PartSize[l]
InBox(b)  == {l \in Letters : row[l].box = b}
Bodies(b)  == SumFunctionOnSet(BodySize, InBox(b))
Parts(b)   == SumFunctionOnSet(PartSize, InBox(b))
Usage(b)   == Bodies(b) + Parts(b)
Less(n, m) == IF m > n THEN 0 ELSE n - m     \* GREATEST(n - m, 0)

\* An UPDATE of a mailbox waits for the transaction that has locked it.
Locked(b) == \E d \in Deliveries : storing[d] # Idle /\ b \in Owners(storing[d].box)

Put(l, b, f, dr) == row' = [row EXCEPT ![l] = [box |-> b, folder |-> f, draft |-> dr]]
TakeOut(S) == row' = [l \in Letters |-> IF l \in S THEN Removed ELSE row[l]]

-----------------------------------------------------------------------------
(* Deliveries and imports: ReserveStorage in the message's transaction *)

\* StorageRemaining of one mailbox in the chain: everything owned counts.
OwnedUsage(a) == SumFunctionOnSet(charged, {b \in Boxes : a \in Owners(b)})
Fits(b, n) == \A a \in Owners(b) : Quota[a] > 0 => OwnedUsage(a) + n <= Quota[a]

\* Mutation of ReserveStorage: only the mailbox itself is locked.
ReserveUnlocked(d, b, l) ==
  /\ Ask
  /\ storing[d] = Idle /\ row[l] = Unused
  /\ \A e \in Deliveries : storing[e] # Idle => storing[e].letter # l /\ storing[e].box # b
  /\ Fits(b, Size(l))
  /\ storing' = [storing EXCEPT ![d] = [does |-> "store", box |-> b, letter |-> l]]
  /\ UNCHANGED <<row, charged, active, heldIn, uncounted, removing, counting, misread, ledger>>

\* The chain is locked from its root, then what remains is read.
ReserveStorage(d, b, l) ==
  /\ Ask
  /\ storing[d] = Idle /\ row[l] = Unused
  /\ \A e \in Deliveries : storing[e] # Idle => storing[e].letter # l
  /\ \A a \in Owners(b) : ~Locked(a)
  /\ Fits(b, Size(l))
  /\ storing' = [storing EXCEPT ![d] = [does |-> "store", box |-> b, letter |-> l]]
  /\ UNCHANGED <<row, charged, active, heldIn, uncounted, removing, counting, misread, ledger>>

\* The message, its attachments and the charge are committed, or none is.
StoreMessage(d) ==
  /\ storing[d] # Idle
  /\ storing' = [storing EXCEPT ![d] = Idle]
  /\ LET s == storing[d] IN
     \/ /\ Put(s.letter, s.box, "kept", FALSE)
        /\ charged' = [charged EXCEPT ![s.box] = @ + Size(s.letter)]
     \/ UNCHANGED <<row, charged>>
  /\ UNCHANGED <<active, heldIn, uncounted, removing, counting, asked, misread, ledger>>

\* Is the message still to be stored, and by nobody else?
Fresh(l) == row[l] = Unused /\ \A d \in Deliveries : storing[d] # Idle => storing[d].letter # l

-----------------------------------------------------------------------------
(* Messages that are stored without a reservation *)

\* saveDraft, and the Sent copy of a submission: no charge at all.
SaveDraft(b, l) ==
  /\ Ask
  /\ Fresh(l) /\ Put(l, b, "kept", TRUE)
  /\ UNCHANGED <<charged, active, heldIn, uncounted, removing, storing, counting, misread, ledger>>

KeepSentCopy(b, l) ==
  /\ Ask
  /\ Fresh(l) /\ Put(l, b, "kept", FALSE)
  /\ UNCHANGED <<charged, active, heldIn, uncounted, removing, storing, counting, misread, ledger>>

\* releaseQuarantine: stored and charged together, whatever the quota.  The
\* held message stays, marked released.
ReleaseQuarantine(b, l) ==
  /\ Ask
  /\ b \in heldIn /\ Fresh(l) /\ ~Locked(b)
  /\ Put(l, b, "kept", FALSE)
  /\ charged' = [charged EXCEPT ![b] = @ + BodySize[l]]
  /\ unreserved' = unreserved \union {b}
  /\ PartSize[l] = 0
  /\ UNCHANGED <<active, heldIn, uncounted, removing, storing, counting, misread, givenBack, overdrawn>>

DeleteQuarantine(b) ==
  /\ Ask
  /\ b \in heldIn /\ heldIn' = heldIn \ {b}
  /\ UNCHANGED <<row, charged, active, uncounted, removing, storing, counting, misread, ledger>>

\* deliverDigest: the digest of the quarantine is stored, then charged.
StoreDigest(b, l) ==
  /\ Ask
  /\ b \in heldIn /\ Fresh(l) /\ PartSize[l] = 0 /\ uncounted = {}
  /\ Put(l, b, "kept", FALSE)
  /\ uncounted' = {<<l, b>>}
  /\ UNCHANGED <<charged, active, heldIn, removing, storing, counting, misread, ledger>>

ChargeDigest(l, b) ==
  /\ <<l, b>> \in uncounted /\ uncounted' = {}
  /\ \/ /\ ~Locked(b)
        /\ charged' = [charged EXCEPT ![b] = @ + BodySize[l]]
        /\ unreserved' = unreserved \union {b}
     \/ UNCHANGED <<charged, unreserved>>      \* the update failed
  /\ UNCHANGED <<row, active, heldIn, removing, storing, counting, asked, misread, givenBack, overdrawn>>

-----------------------------------------------------------------------------
(* Changes that store and remove nothing *)

\* updateMessage: the folder and the draft flag; other flags are left out.  A
\* message may be moved to a folder that is not there.
UpdateMessage(l, f, dr) ==
  /\ Ask
  /\ Exists(l) /\ Put(l, row[l].box, f, dr)
  /\ UNCHANGED <<charged, active, heldIn, uncounted, removing, storing, counting, misread, ledger>>

\* updateDraft: a draft is kept in the mailbox it is from, its charge is not
\* moved with it.
UpdateDraft(l, b) ==
  /\ Ask
  /\ Exists(l) /\ row[l].draft
  /\ row[l].box # b /\ Put(l, b, row[l].folder, TRUE)
  /\ UNCHANGED <<charged, active, heldIn, uncounted, removing, storing, counting, misread, ledger>>

-----------------------------------------------------------------------------
(* Removals *)

\* removeSentDraft: no charge is given back, as none was made.
RemoveSentDraft(l) ==
  /\ Ask
  /\ Exists(l) /\ row[l].draft /\ TakeOut({l})
  /\ UNCHANGED <<charged, active, heldIn, uncounted, removing, storing, counting, misread, ledger>>

\* deleteMessage reads the message: it will purge it if it is in Trash, or if it
\* was asked to.
ReadForDelete(q, l, permanent) ==
  /\ Ask
  /\ removing[q] = Idle /\ Exists(l)
  /\ removing' = [removing EXCEPT ![q] =
       [does |-> IF permanent \/ row[l].folder = "Trash" THEN "purge" ELSE "trash",
        letter |-> l, box |-> row[l].box]]
  /\ UNCHANGED <<row, charged, active, heldIn, uncounted, storing, counting, misread, ledger>>

\* Mutation of GiveBack: whether the row was still there is not asked.
GiveBackAnyway(l, b) ==
  /\ charged' = [charged EXCEPT ![b] = Less(@, Size(l))]
  /\ givenBack' = [givenBack EXCEPT ![l] = @ + 1]

\* What it gives back: only if it removed the row, to the mailbox it read.
GiveBack(l, b) ==
  IF Exists(l)
  THEN /\ charged' = [charged EXCEPT ![b] = Less(@, Size(l))]
       /\ givenBack' = [givenBack EXCEPT ![l] = @ + 1]
  ELSE UNCHANGED <<charged, givenBack>>

Purge(q) ==
  /\ removing[q].does = "purge"
  /\ LET r == removing[q] IN
     /\ Exists(r.letter) => ~Locked(r.box)
     /\ TakeOut({l \in {r.letter} : Exists(l)})
     /\ GiveBack(r.letter, r.box)
  /\ removing' = [removing EXCEPT ![q] = Idle]
  /\ UNCHANGED <<active, heldIn, uncounted, storing, counting, asked, misread, overdrawn,
                 unreserved>>

\* The message may be gone by now.
MoveToTrash(q) ==
  /\ removing[q].does = "trash"
  /\ row' = [row EXCEPT ![removing[q].letter] =
               IF @ \in Stored THEN [@ EXCEPT !.folder = "Trash"] ELSE @]
  /\ removing' = [removing EXCEPT ![q] = Idle]
  /\ UNCHANGED <<charged, active, heldIn, uncounted, storing, counting, asked, misread, ledger>>

\* deleteFolder adds up the folder's messages, without their attachments, ...
MadeIn(b) == {l \in InBox(b) : row[l].folder = "made"}

ReadForDrop(q, b) ==
  /\ Ask
  /\ removing[q] = Idle
  /\ removing' = [removing EXCEPT ![q] = [does |-> "drop", box |-> b, letters |-> MadeIn(b)]]
  /\ UNCHANGED <<row, charged, active, heldIn, uncounted, storing, counting, misread, ledger>>

\* ... and in the same transaction removes those that are there now, if any, and
\* gives back those it added up.
DropFolder(q) ==
  /\ removing[q].does = "drop"
  /\ LET r    == removing[q]
         gone == MadeIn(r.box)
         size == SumFunctionOnSet(BodySize, r.letters)
     IN \/ /\ gone # {} /\ (size > 0 => ~Locked(r.box))
           /\ TakeOut(gone)
           /\ charged' = [charged EXCEPT ![r.box] = Less(@, size)]
           /\ givenBack' = [l \in Letters |-> givenBack[l] + IF l \in r.letters THEN 1 ELSE 0]
           /\ overdrawn' = [l \in Letters |-> overdrawn[l] + IF l \in r.letters \ gone THEN 1 ELSE 0]
        \/ gone = {} /\ UNCHANGED <<row, charged, givenBack, overdrawn>>
  /\ removing' = [removing EXCEPT ![q] = Idle]
  /\ UNCHANGED <<active, heldIn, uncounted, storing, counting, asked, misread, unreserved>>

-----------------------------------------------------------------------------
(* QuotaReconciler *)

\* updateMailbox: an administrator deactivates a mailbox, or activates it again.
SetActive(b, on) ==
  /\ Ask
  /\ active' = IF on THEN active \union {b} ELSE active \ {b}
  /\ UNCHANGED <<row, charged, heldIn, uncounted, removing, storing, counting, misread, ledger>>

\* The reconciler turns to another of the mailboxes it listed, or is done.
Onward(S, recorded) ==
  IF S = {} THEN counting' = Idle
  ELSE \E b \in S : counting' = [does |-> "bodies", left |-> S \ {b}, box |-> b,
                                 recorded |-> recorded, sum |-> 0]

\* reconcile reads the active mailboxes with what is recorded, ...
ListBoxes ==
  /\ counting = Idle
  /\ Onward(active, charged)
  /\ UNCHANGED <<row, charged, active, heldIn, uncounted, removing, storing, asked, misread, ledger>>

\* A query of the reconciler fails.
Misread == misread < MaxMisread /\ misread' = misread + 1

\* ... and for one after the other adds up the messages, or skips it on an error, ...
SumBodies ==
  /\ counting.does = "bodies"
  /\ \/ /\ counting' = [counting EXCEPT !.does = "parts", !.sum = Bodies(counting.box)]
        /\ UNCHANGED misread
     \/ Misread /\ Onward(counting.left, counting.recorded)
  /\ UNCHANGED <<row, charged, active, heldIn, uncounted, removing, storing, asked, ledger>>

\* Mutation of SumParts: attachments are not counted.
SumNoParts ==
  /\ counting.does = "parts"
  /\ counting' = [counting EXCEPT !.does = "write"]
  /\ UNCHANGED <<row, charged, active, heldIn, uncounted, removing, storing, asked, misread, ledger>>

\* ... the attachments, whose lookup's error is ignored, ...
SumParts ==
  /\ counting.does = "parts"
  /\ \/ /\ counting' = [counting EXCEPT !.does = "write", !.sum = @ + Parts(counting.box)]
        /\ UNCHANGED misread
     \/ Misread /\ counting' = [counting EXCEPT !.does = "write"]
  /\ UNCHANGED <<row, charged, active, heldIn, uncounted, removing, storing, asked, ledger>>

\* ... and writes the sum if it is not what was recorded when it began; an error
\* of the update is ignored.
WriteUsage ==
  /\ counting.does = "write"
  /\ LET b == counting.box IN
     \/ /\ counting.sum # counting.recorded[b] /\ ~Locked(b)
        /\ charged' = [charged EXCEPT ![b] = counting.sum]
        /\ unreserved' = unreserved \union {c \in {b} : counting.sum > charged[b]}
        /\ UNCHANGED misread
     \/ /\ IF counting.sum = counting.recorded[b] THEN UNCHANGED misread ELSE Misread
        /\ UNCHANGED <<charged, unreserved>>
  /\ Onward(counting.left, counting.recorded)
  /\ UNCHANGED <<row, active, heldIn, uncounted, removing, storing, asked, givenBack, overdrawn>>

Reconcile == ListBoxes \/ SumBodies \/ SumParts \/ WriteUsage

-----------------------------------------------------------------------------
MailStoreNext ==
  \/ \E d \in Deliveries : StoreMessage(d)
  \/ \E l \in Letters, b \in Boxes :
       \/ \E d \in Deliveries : ReserveStorage(d, b, l)
       \/ SaveDraft(b, l) \/ KeepSentCopy(b, l)
       \/ ReleaseQuarantine(b, l) \/ StoreDigest(b, l) \/ ChargeDigest(l, b)
       \/ UpdateDraft(l, b)
  \/ \E b \in Boxes :
       \/ DeleteQuarantine(b)
       \/ \E on \in BOOLEAN : SetActive(b, on)
       \/ \E q \in Removers : ReadForDrop(q, b)
  \/ \E l \in Letters :
       \/ \E f \in Folders, dr \in BOOLEAN : UpdateMessage(l, f, dr)
       \/ RemoveSentDraft(l)
       \/ \E q \in Removers, permanent \in BOOLEAN : ReadForDelete(q, l, permanent)
  \/ \E q \in Removers : Purge(q) \/ MoveToTrash(q) \/ DropFolder(q)
  \/ Reconcile

\* A transaction ends, and the reconciler runs again and again.
MailStoreFairness ==
  /\ \A d \in Deliveries : WF_store(StoreMessage(d))
  /\ WF_store(Reconcile)

MailStoreSpec == MailStoreInit /\ [][MailStoreNext]_store /\ MailStoreFairness

-----------------------------------------------------------------------------
(* Properties *)

\* Whoever removes a message gives its storage back once, however many requests
\* to delete it, and deletions of its folder, run at once (deleteMessage: "Do not
\* charge that reclaim twice").  It is given back more often only by the deletion
\* of a folder that had added it up and by then did not find it.
GivenBackOnce ==
  \A l \in Letters : givenBack[l] <= overdrawn[l] + (IF row[l] = Removed THEN 1 ELSE 0)

\* Whatever deliveries to a mailbox, its siblings and its owner run at once,
\* a mailbox and all it owns are above its quota only if one of them was charged
\* without a reservation: by a release, a digest or the reconciler
\* (StorageQuotaChain: "root-first row locks serialize reservations by an owner
\* and all descendants").
QuotaHolds ==
  \A a \in Boxes : Quota[a] > 0 /\ OwnedUsage(a) > Quota[a] =>
    \E b \in unreserved : a \in Owners(b)

\* What is recorded of a mailbox is given back once for a message, but for the
\* folders' deletions GivenBackOnce counts, and not reserved twice.
StorageIsOrdered == GivenBackOnce /\ QuotaHolds

\* Once messages stop coming and going, what is recorded for a mailbox that stays
\* active becomes and stays what it stores: the reconciler's stale writes, its
\* failed queries and all the others' drift are corrected (reconcile).
DriftIsCorrected ==
  \A b \in Boxes : <>[](b \in active) => <>[](charged[b] = Usage(b))
=============================================================================
