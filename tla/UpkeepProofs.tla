---------------------------- MODULE UpkeepProofs ----------------------------
(***************************************************************************)
(* What the background jobs keep in order: for any number of objects and   *)
(* deliveries a sweep takes an object from under a row only when it was    *)
(* written between the cleaner's last look and its removal; mail           *)
(* verifies through every rotation of the DKIM keys; and the storage of    *)
(* mailboxes is not reserved twice, and given back twice only where a      *)
(* folder's deletion adds up what it does not remove.                      *)
(***************************************************************************)
EXTENDS MailStore, AttachmentSweep, DkimRotation, SumTheorems

-----------------------------------------------------------------------------
(* Attachment objects *)

\* What a delivery has written and will refer to does not grow old before it does;
\* it is gone only if the cleaner was already past its last look.
WrittenIsYoung ==
  \A u \in Uploads :
    upload[u] # NoObject =>
      \/ age[upload[u]] = "young"
      \/ age[upload[u]] = "absent" /\ upload[u] \in overtaken

\* The object the cleaner has just found old is in its batch, and still old unless
\* it was rewritten.
LookedIsOld ==
  looked # NoObject =>
    /\ sweep = "removing" /\ looked \in batch
    /\ looked \in rewritten \/ age[looked] = "old"

\* An object of the batch has no row, unless a delivery wrote it again.
OldIsUnheld == sweep = "removing" => \A o \in batch : age[o] = "old" => rowsOf[o] = 0

SweepInv == SweepTypeOK /\ WrittenIsYoung /\ LookedIsOld /\ OldIsUnheld /\ RowHasObject

\* The stores are empty at the start.
LEMMA SweepInitInv == SweepInit => SweepInv
  BY SweepAssumption DEF SweepInit, SweepInv, SweepTypeOK, WrittenIsYoung,
     LookedIsOld,
     OldIsUnheld, RowHasObject

\* Every step of a delivery, a purge, time and the cleaner keeps the invariant.
LEMMA SweepNextInv ==
  ASSUME SweepInv, [SweepNext]_sweepVars
  PROVE  SweepInv'
<1> USE SweepAssumption DEF SweepInv, SweepTypeOK, window
<1>1. CASE UNCHANGED sweepVars
  BY <1>1 DEF sweepVars, WrittenIsYoung, LookedIsOld, OldIsUnheld, RowHasObject
<1>2. ASSUME NEW u \in Uploads, NEW o \in Objects, PutObject(u, o) PROVE SweepInv'
  BY <1>2 DEF PutObject, WrittenIsYoung, LookedIsOld, OldIsUnheld, RowHasObject
<1>3. ASSUME NEW u \in Uploads, CreateRow(u) PROVE SweepInv'
  BY <1>3 DEF CreateRow, WrittenIsYoung, LookedIsOld, OldIsUnheld, RowHasObject
<1>4. ASSUME NEW o \in Objects, DeleteRow(o) PROVE SweepInv'
  BY <1>4 DEF DeleteRow, WrittenIsYoung, LookedIsOld, OldIsUnheld, RowHasObject
<1>5. ASSUME NEW o \in Objects, GrowOld(o) PROVE SweepInv'
  BY <1>5 DEF GrowOld, WrittenIsYoung, LookedIsOld, OldIsUnheld, RowHasObject
<1>6. CASE List
  BY <1>6 DEF List, WrittenIsYoung, LookedIsOld, OldIsUnheld, RowHasObject
<1>7. CASE AskHeld
  BY <1>7 DEF AskHeld, Unheld, WrittenIsYoung, LookedIsOld, OldIsUnheld, RowHasObject
<1>8. ASSUME NEW o \in Objects, Look(o) PROVE SweepInv'
  BY <1>8 DEF Look, WrittenIsYoung, LookedIsOld, OldIsUnheld, RowHasObject
<1>9. CASE Remove
  BY <1>9 DEF Remove, WrittenIsYoung, LookedIsOld, OldIsUnheld, RowHasObject
<1>10. CASE SweepEnds
  BY <1>10 DEF SweepEnds, WrittenIsYoung, LookedIsOld, OldIsUnheld, RowHasObject
<1> QED
  BY <1>1, <1>2, <1>3, <1>4, <1>5, <1>6, <1>7, <1>8, <1>9, <1>10 DEF SweepNext,
     CleanerStep

\* An attachment row lacks its object only if the object was written between the
\* cleaner's last look at it and its removal (Sweep, removeUnreferenced).
THEOREM RowsKeepTheirObject == SweepSpec => []RowHasObject
<1>1. SweepInv /\ [SweepNext]_sweepVars => SweepInv'
  BY SweepNextInv
<1>2. SweepInv => RowHasObject
  BY DEF SweepInv
<1> QED
  BY <1>1, <1>2, SweepInitInv, PTL DEF SweepSpec

-----------------------------------------------------------------------------
(* DKIM keys *)

\* The three slots hold different keys.
SlotsDiffer ==
  /\ staged # current /\ previous # current
  /\ staged # NoKey => staged # previous

\* Records have been as they are for some time, and a key whose publication was
\* noted has resolved at least since then.
NotedResolves ==
  /\ \A k \in DkimKeys : inDns[k] >= 0
  /\ staged # NoKey /\ published # Never => dns[staged] = "key" /\ inDns[staged] >= published

\* A previous key has the time of its switch, is revoked a TTL later, and resolves
\* until it is.
RevokedAfterTTL ==
  previous # NoKey =>
    /\ switched >= 0
    /\ revoked => switched >= TTL
    /\ ~revoked => dns[previous] = "key"

DkimInv == DkimTypeOK /\ SlotsDiffer /\ NotedResolves /\ RevokedAfterTTL /\ SigningKeyResolves

\* Times stay in their range and never run back.
LEMMA LaterGrows ==
  ASSUME NEW t \in Since
  PROVE  /\ Later(t) \in Since
         /\ t >= 0 => Later(t) >= t
         /\ t = Never <=> Later(t) = Never
         /\ Later(t) # 0
  BY DkimAssumption DEF Later, Since, Longest, Never

\* What is older stays older.
LEMMA LaterKeepsOrder ==
  ASSUME NEW s \in Since, NEW t \in Since, s >= 0, s >= t
  PROVE  Later(s) >= Later(t)
  BY DkimAssumption DEF Later, Since, Longest, Never

\* The signing key resolves at the start.
LEMMA DkimInitInv == DkimInit => DkimInv
<1> SUFFICES ASSUME DkimInit PROVE DkimInv
  OBVIOUS
<1>1. Longest \in Since /\ Longest >= TTL /\ Never \in Since /\ Longest >= 0 /\ Never = -1
  BY DkimAssumption DEF Since, Longest, Never
<1>2. DkimTypeOK
  BY <1>1, DkimAssumption DEF DkimInit, DkimTypeOK
<1>3. SlotsDiffer /\ NotedResolves /\ RevokedAfterTTL /\ SigningKeyResolves
  BY <1>1, <1>2, DkimAssumption DEF DkimInit, DkimTypeOK, SlotsDiffer, NotedResolves,
     RevokedAfterTTL, SigningKeyResolves
<1> QED
  BY <1>2, <1>3 DEF DkimInv

\* Every step of a process, of the operator and of time keeps the invariant.
LEMMA DkimNextInv ==
  ASSUME DkimInv, [DkimNext]_rotation
  PROVE  DkimInv'
<1> USE DkimAssumption DEF DkimInv, DkimTypeOK
<1> DEFINE T == 0 \in Since /\ Never \in Since /\ Never = -1 /\ Since \subseteq Int
<1>0. T
  BY DEF Since, Longest, Never
<1>1. CASE UNCHANGED rotation
  BY <1>1 DEF rotation, SlotsDiffer, NotedResolves, RevokedAfterTTL,
     SigningKeyResolves
<1>2. ASSUME NEW p \in Tickers, Retire(p) PROVE DkimInv'
  <2>1. DkimTypeOK'
    BY <1>0, <1>2 DEF Retire, Goes, PreviousIs
  <2>2. SlotsDiffer' /\ NotedResolves' /\ SigningKeyResolves'
    BY <1>0, <1>2 DEF Retire, PreviousIs, SlotsDiffer, NotedResolves,
       SigningKeyResolves
  <2>3. RevokedAfterTTL'
    BY <1>0, <1>2 DEF Retire, RetireDue, PreviousIs, RevokedAfterTTL
  <2> QED
    BY <2>1, <2>2, <2>3
<1>3. ASSUME NEW p \in Tickers, Stage(p) PROVE DkimInv'
  BY <1>0, <1>3 DEF Stage, Goes, SlotsDiffer, NotedResolves, RevokedAfterTTL,
     SigningKeyResolves
<1>4. ASSUME NEW p \in Tickers, NotePublication(p) PROVE DkimInv'
  BY <1>0, <1>4 DEF NotePublication, SeenPublished, Goes, SlotsDiffer, NotedResolves,
     RevokedAfterTTL, SigningKeyResolves
<1>5. ASSUME NEW p \in Tickers, Activate(p) PROVE DkimInv'
  <2>1. DkimTypeOK'
    BY <1>0, <1>5 DEF Activate, MayActivate, Goes, PreviousIs
  <2>2. CASE MayActivate
    <3>1. staged \in DkimKeys /\ published \in Int /\ inDns[staged] \in Int
      BY <1>0, <2>2 DEF MayActivate
    <3>2. published # Never /\ published >= TTL
      BY <1>0, <2>2, <3>1 DEF MayActivate
    <3>3. dns[staged] = "key" /\ inDns[staged] >= published
      BY <3>1, <3>2 DEF NotedResolves
    <3>4. dns[staged] = "key" /\ inDns[staged] >= TTL /\ staged \in DkimKeys
      BY <3>1, <3>2, <3>3
    <3>5. SlotsDiffer' /\ NotedResolves' /\ SigningKeyResolves'
      BY <1>0, <1>5, <2>2, <3>4 DEF Activate, SlotsDiffer, NotedResolves,
         SigningKeyResolves
    <3>6. RevokedAfterTTL'
      BY <1>0, <1>5, <2>2 DEF Activate, PreviousIs, RevokedAfterTTL,
         SigningKeyResolves
    <3> QED
      BY <2>1, <3>5, <3>6
  <2>3. CASE ~MayActivate
    BY <1>5, <2>1, <2>3 DEF Activate, SlotsDiffer, NotedResolves, RevokedAfterTTL,
       SigningKeyResolves
  <2> QED
    BY <2>2, <2>3
<1>6. ASSUME NEW k \in DkimKeys, Publish(k) PROVE DkimInv'
  BY <1>0, <1>6 DEF Publish, Listed, SlotsDiffer, NotedResolves, RevokedAfterTTL,
     SigningKeyResolves
<1>7. CASE SetRotation
  BY <1>7 DEF SetRotation, SlotsDiffer, NotedResolves, RevokedAfterTTL,
     SigningKeyResolves
<1>8. CASE DkimTick
  <2>1. /\ installed' = Later(installed) /\ published' = Later(published)
        /\ switched' = Later(switched) /\ revocationSeen' = Later(revocationSeen)
        /\ \A k \in DkimKeys : inDns'[k] = Later(inDns[k])
        /\ inDns' = [k \in DkimKeys |-> Later(inDns[k])]
        /\ UNCHANGED <<current, rotating, staged, previous, revoked, dns, ticker, mine>>
    BY <1>8 DEF DkimTick
  <2>2. DkimTypeOK'
    BY <1>0, <2>1, LaterGrows
  <2>3. SlotsDiffer' /\ RevokedAfterTTL'
    BY <1>0, <2>1, <2>2, LaterGrows DEF SlotsDiffer, RevokedAfterTTL
  <2>4. NotedResolves'
    <3>1. \A k \in DkimKeys : inDns'[k] >= 0
      <4> TAKE k \in DkimKeys
      <4>1. inDns[k] \in Since /\ inDns[k] >= 0
        BY DEF NotedResolves
      <4>2. Later(inDns[k]) \in Since /\ Later(inDns[k]) >= inDns[k]
        BY <4>1, LaterGrows
      <4>3. Later(inDns[k]) \in Int /\ inDns[k] \in Int
        BY <1>0, <4>1, <4>2
      <4>4. Later(inDns[k]) >= 0
        BY <4>1, <4>2, <4>3
      <4> QED
        BY <2>1, <4>4
    <3>2. ASSUME staged' # NoKey, published' # Never
          PROVE  dns'[staged'] = "key" /\ inDns'[staged'] >= published'
      <4>1. staged \in DkimKeys /\ published # Never
        BY <2>1, <3>2, LaterGrows
      <4>2. dns[staged] = "key" /\ inDns[staged] >= published /\ inDns[staged] >= 0
        BY <4>1 DEF NotedResolves
      <4> QED
        BY <2>1, <4>1, <4>2, LaterKeepsOrder
    <3> QED
      BY <3>1, <3>2 DEF NotedResolves
  <2>5. SigningKeyResolves'
    BY <1>0, <2>1, <2>2, LaterGrows DEF NotedResolves, SigningKeyResolves
  <2> QED
    BY <2>2, <2>3, <2>4, <2>5
<1> QED
  BY <1>1, <1>2, <1>3, <1>4, <1>5, <1>6, <1>7, <1>8 DEF DkimNext, DkimStep

\* The variables keep their types.
THEOREM DkimTypeCorrect == DkimSpec => []DkimTypeOK
<1>1. DkimInv /\ [DkimNext]_rotation => DkimInv'
  BY DkimNextInv
<1>2. DkimInv => DkimTypeOK
  BY DEF DkimInv
<1> QED
  BY <1>1, <1>2, DkimInitInv, PTL DEF DkimSpec

\* The key that signs resolves and has for a TTL when it begins to, and the key
\* before it resolves for a TTL after (Activate, Retire).
THEOREM MailAlwaysVerifies == DkimSpec => []MailVerifies
<1>1. DkimInv /\ [DkimNext]_rotation => DkimInv'
  BY DkimNextInv
<1>2. DkimInv => MailVerifies
  BY DkimAssumption DEF DkimInv, DkimTypeOK, Since, Longest, RevokedAfterTTL,
     MailVerifies,
     OldMailVerifies
<1> QED
  BY <1>1, <1>2, DkimInitInv, PTL DEF DkimSpec

-----------------------------------------------------------------------------
(* Storage of mailboxes *)

USE DEF ledger

\* The types of what requests, deliveries and the reconciler are doing.
RemovingSet ==
  {Idle} \union [does : {"purge", "trash"}, letter : Letters, box : Boxes]
         \union [does : {"drop"}, box : Boxes, letters : SUBSET Letters]
StoringSet == {Idle} \union [does : {"store"}, box : Boxes, letter : Letters]
CountingSet ==
  {Idle} \union [does : {"bodies", "parts", "write"}, left : SUBSET Boxes,
                 box : Boxes, recorded : [Boxes -> Nat], sum : Nat]

\* What a delivery reserved room for is not stored, and nobody else's.
LetterWaits ==
  /\ \A d \in Deliveries : storing[d] # Idle => row[storing[d].letter] = Unused
  /\ \A d, e \in Deliveries : d # e /\ storing[d] # Idle /\ storing[e] # Idle =>
       storing[d].letter # storing[e].letter

\* Deliveries that have reserved share no owner.
ChainsApart ==
  \A d, e \in Deliveries : d # e /\ storing[d] # Idle /\ storing[e] # Idle =>
    \A a \in Owners(storing[d].box) : a \notin Owners(storing[e].box)

\* A mailbox, or one it owns, was charged without a reservation.
Overrun(a) == \E b \in unreserved : a \in Owners(b)

\* The room that was reserved is there still.
RoomIsKept ==
  \A d \in Deliveries : storing[d] # Idle =>
    \A a \in Owners(storing[d].box) :
      Quota[a] > 0 => \/ OwnedUsage(a) + Size(storing[d].letter) <= Quota[a]
                      \/ Overrun(a)

BoxInv ==
  /\ MailStoreTypeOK /\ LetterWaits /\ ChainsApart /\ GivenBackOnce /\ RoomIsKept /\ QuotaHolds

\* The mailboxes whose usage counts for a.
OwnedBy(a) == {b \in Boxes : a \in Owners(b)}

\* The mailboxes under an owner can be summed over.
LEMMA OwnedFinite ==
  ASSUME NEW a
  PROVE  IsFiniteSet(OwnedBy(a)) /\ OwnedBy(a) \subseteq Boxes
  BY BoxAssumption, FS_Subset DEF OwnedBy

\* Usage is a number.
LEMMA UsageIsInt ==
  ASSUME NEW a, charged \in [Boxes -> Nat]
  PROVE  OwnedUsage(a) \in Int
<1>1. \A b \in OwnedBy(a) : charged[b] \in Int
  BY DEF OwnedBy
<1> QED
  BY <1>1, OwnedFinite, SumChoice DEF OwnedUsage, OwnedBy

\* What is charged falls, or the mailbox is marked.
FallsOrMarked ==
  /\ unreserved \subseteq unreserved' /\ charged' \in [Boxes -> Nat]
  /\ \A b \in Boxes : charged'[b] <= charged[b] \/ b \in unreserved'

\* Then no owner's use grows either, unless one of its mailboxes is marked.
LEMMA FallsOrOverrun ==
  ASSUME charged \in [Boxes -> Nat], FallsOrMarked, NEW a
  PROVE  /\ OwnedUsage(a)' <= OwnedUsage(a) \/ Overrun(a)'
         /\ OwnedUsage(a)' \in Int
<1>0. charged' \in [Boxes -> Nat]
  BY DEF FallsOrMarked
<1>1. IsFiniteSet(OwnedBy(a)) /\ OwnedBy(a) \subseteq Boxes
  BY OwnedFinite
<1>2. OwnedUsage(a)' = SumFunctionOnSet(charged', OwnedBy(a)) /\ OwnedUsage(a) = SumFunctionOnSet(charged, OwnedBy(a))
  BY DEF OwnedUsage, OwnedBy
<1>3. \A b \in OwnedBy(a) : charged'[b] \in Int /\ charged[b] \in Int
  BY <1>0, <1>1
<1>4. OwnedUsage(a)' \in Int
  BY <1>1, <1>2, <1>3, SumChoice
<1>5. CASE \A b \in OwnedBy(a) : charged'[b] <= charged[b]
  <2>1. SumFunctionOnSet(charged', OwnedBy(a)) <= SumFunctionOnSet(charged, OwnedBy(a))
    BY <1>1, <1>3, <1>5, SumLeq
  <2> QED
    BY <1>2, <1>4, <2>1
<1>6. CASE \E b \in OwnedBy(a) : ~(charged'[b] <= charged[b])
  BY <1>1, <1>4, <1>6 DEF FallsOrMarked, Overrun, OwnedBy
<1> QED
  BY <1>5, <1>6

\* Where deliveries stand still and nothing is charged unmarked, quotas and rooms stay.
LEMMA QuotaSteady ==
  ASSUME BoxInv, FallsOrMarked, storing' = storing
  PROVE  RoomIsKept' /\ QuotaHolds' /\ ChainsApart'
<1>0. charged \in [Boxes -> Nat] /\ storing \in [Deliveries -> StoringSet] /\ Quota \in [Boxes -> Nat]
  BY BoxAssumption DEF BoxInv, MailStoreTypeOK, StoringSet
<1>1. \A a \in Boxes : Overrun(a) => Overrun(a)'
  BY DEF FallsOrMarked, Overrun
<1>2. \A a \in Boxes : /\ OwnedUsage(a) \in Int /\ OwnedUsage(a)' \in Int
                       /\ OwnedUsage(a)' <= OwnedUsage(a) \/ Overrun(a)'
  BY <1>0, UsageIsInt, FallsOrOverrun
<1>3. QuotaHolds'
  <2> SUFFICES ASSUME NEW a \in Boxes, Quota[a] > 0, OwnedUsage(a)' > Quota[a] PROVE Overrun(a)'
    BY DEF QuotaHolds, Overrun
  <2>1. Quota[a] \in Nat
    BY <1>0
  <2>2. OwnedUsage(a) > Quota[a] => Overrun(a)
    BY DEF BoxInv, QuotaHolds, Overrun
  <2> QED
    BY <1>1, <1>2, <2>1, <2>2
<1>4. RoomIsKept'
  <2> SUFFICES ASSUME NEW d \in Deliveries, storing[d] # Idle, NEW a \in Owners(storing[d].box), Quota[a] > 0
               PROVE  OwnedUsage(a)' + Size(storing[d].letter) <= Quota[a] \/ Overrun(a)'
    BY DEF RoomIsKept, Size
  <2>1. storing[d].letter \in Letters /\ a \in Boxes /\ Quota[a] \in Nat
    BY <1>0 DEF StoringSet, Owners
  <2>2. OwnedUsage(a) + Size(storing[d].letter) <= Quota[a] \/ Overrun(a)
    BY DEF BoxInv, RoomIsKept
  <2>3. Size(storing[d].letter) \in Nat
    BY <2>1, BoxAssumption DEF Size
  <2> QED
    BY <1>1, <1>2, <2>1, <2>2, <2>3
<1>5. ChainsApart'
  BY DEF BoxInv, ChainsApart
<1> QED
  BY <1>3, <1>4, <1>5

\* What happens to messages: what is reserved for is not touched, what is gone stays gone.
RowsStep ==
  /\ \A d \in Deliveries : storing[d] # Idle => row'[storing[d].letter] = row[storing[d].letter]
  /\ \A l \in Letters : row[l] = Removed => row'[l] = Removed

\* A step of anybody but a delivery.
LEMMA QuietStep ==
  ASSUME BoxInv, MailStoreTypeOK', FallsOrMarked, storing' = storing, RowsStep,
         UNCHANGED <<givenBack, overdrawn>>
  PROVE  BoxInv'
<1>1. RoomIsKept' /\ QuotaHolds' /\ ChainsApart'
  BY QuotaSteady
<1>2. LetterWaits'
  BY DEF BoxInv, LetterWaits, RowsStep
<1>3. GivenBackOnce'
  <2>1. \A l \in Letters : givenBack[l] \in Nat /\ overdrawn[l] \in Nat
    BY DEF BoxInv, MailStoreTypeOK
  <2> QED
    BY <2>1 DEF BoxInv, GivenBackOnce, RowsStep
<1> QED
  BY <1>1, <1>2, <1>3 DEF BoxInv

\* What the models of the parts above add up.
LEMMA SizesAreNat ==
  ASSUME NEW S, S \subseteq Letters
  PROVE  /\ SumFunctionOnSet(BodySize, S) \in Nat /\ SumFunctionOnSet(PartSize, S) \in Nat
         /\ \A l \in Letters : Size(l) \in Nat /\ BodySize[l] \in Nat
<1>1. IsFiniteSet(S) /\ \A l \in S : BodySize[l] \in Nat /\ PartSize[l] \in Nat
  BY BoxAssumption, FS_Subset
<1>2. \A l \in Letters : Size(l) \in Nat /\ BodySize[l] \in Nat
  BY BoxAssumption DEF Size
<1> QED
  BY <1>1, <1>2, SumIsNat

\* A row that is there is neither unused nor removed.
LEMMA StoredIsOther ==
  /\ Unused \notin Stored /\ Removed \notin Stored /\ Unused # Removed
  /\ \A r \in Stored : r # Unused /\ r # Removed /\ r.box \in Boxes
  BY DEF Unused, Removed, Stored, Folders

\* One row changes, of a message that is there or that nobody has stored or reserved for.
LEMMA OneRowStep ==
  ASSUME BoxInv, NEW l \in Letters, Fresh(l) \/ Exists(l),
         \A k \in Letters \ {l} : row'[k] = row[k]
  PROVE  RowsStep
<1>1. row[l] # Removed
  BY StoredIsOther DEF Fresh, Exists
<1>2. \A d \in Deliveries : storing[d] # Idle => storing[d].letter # l /\ storing[d].letter \in Letters
  BY StoredIsOther DEF BoxInv, LetterWaits, Fresh, Exists, MailStoreTypeOK, StoringSet
<1> QED
  BY <1>1, <1>2 DEF RowsStep

\* A new message, or one that is moved, is not one reserved for.
LEMMA PutStep ==
  ASSUME BoxInv, NEW l \in Letters, Fresh(l) \/ Exists(l),
         NEW b \in Boxes, NEW f \in Folders, NEW dr \in BOOLEAN, Put(l, b, f, dr)
  PROVE  RowsStep /\ row' \in [Letters -> Stored \union {Unused, Removed}]
<1>1. row \in [Letters -> Stored \union {Unused, Removed}]
  BY DEF BoxInv, MailStoreTypeOK
<1>2. [box |-> b, folder |-> f, draft |-> dr] \in Stored
  BY DEF Stored
<1>3. row' \in [Letters -> Stored \union {Unused, Removed}] /\ \A k \in Letters \ {l} : row'[k] = row[k]
  BY <1>1, <1>2 DEF Put
<1> QED
  BY <1>3, OneRowStep

\* Nor are the messages taken out.
LEMMA TakeOutStep ==
  ASSUME BoxInv, NEW S, S \subseteq Letters, \A l \in S : Exists(l), TakeOut(S)
  PROVE  RowsStep /\ row' \in [Letters -> Stored \union {Unused, Removed}]
<1>1. row \in [Letters -> Stored \union {Unused, Removed}]
  BY DEF BoxInv, MailStoreTypeOK
<1>2. /\ row' \in [Letters -> Stored \union {Unused, Removed}]
      /\ \A k \in Letters \ S : row'[k] = row[k]
      /\ \A k \in S : row'[k] = Removed
  BY <1>1 DEF TakeOut
<1>3. \A d \in Deliveries : storing[d] # Idle => storing[d].letter \in Letters \ S
  BY StoredIsOther DEF BoxInv, LetterWaits, Exists, MailStoreTypeOK, StoringSet
<1> QED
  BY <1>2, <1>3 DEF RowsStep

\* Messages that are stored, moved or dropped without a charge.
LEMMA UnchargedSteps ==
  ASSUME BoxInv, NEW l \in Letters, NEW b \in Boxes, NEW f \in Folders, NEW dr \in BOOLEAN,
         \/ SaveDraft(b, l) \/ KeepSentCopy(b, l) \/ StoreDigest(b, l) \/ UpdateMessage(l, f, dr)
         \/ UpdateDraft(l, b) \/ RemoveSentDraft(l)
  PROVE  BoxInv'
<1>0. MailStoreTypeOK /\ asked \in Nat /\ uncounted \in SUBSET (Letters \X Boxes)
  BY DEF BoxInv, MailStoreTypeOK
<1>1. /\ UNCHANGED <<charged, active, unreserved, storing, givenBack, overdrawn, heldIn, removing, counting, misread>>
      /\ asked' = asked + 1
  BY DEF SaveDraft, KeepSentCopy, StoreDigest, UpdateMessage, UpdateDraft,
     RemoveSentDraft, Ask
<1>a. uncounted' = uncounted \/ uncounted' = {<<l, b>>}
  BY DEF SaveDraft, KeepSentCopy, StoreDigest, UpdateMessage, UpdateDraft,
     RemoveSentDraft
<1>2. uncounted' \in SUBSET (Letters \X Boxes) /\ asked' \in Nat
  BY <1>0, <1>1, <1>a
<1>3. RowsStep /\ row' \in [Letters -> Stored \union {Unused, Removed}]
  <2>0. "kept" \in Folders /\ TRUE \in BOOLEAN /\ FALSE \in BOOLEAN
    BY DEF Folders
  <2>1. CASE SaveDraft(b, l) \/ KeepSentCopy(b, l) \/ StoreDigest(b, l)
    BY <2>0, <2>1, PutStep DEF SaveDraft, KeepSentCopy, StoreDigest
  <2>2. CASE UpdateMessage(l, f, dr)
    <3>1. Exists(l) /\ Put(l, row[l].box, f, dr)
      BY <2>2 DEF UpdateMessage
    <3>2. row[l].box \in Boxes
      BY <3>1, StoredIsOther DEF Exists
    <3> QED
      BY <3>1, <3>2, PutStep
  <2>3. CASE UpdateDraft(l, b)
    <3>1. Exists(l) /\ Put(l, b, row[l].folder, TRUE)
      BY <2>3 DEF UpdateDraft
    <3>2. row[l].folder \in Folders
      BY <3>1 DEF Exists, Stored
    <3> QED
      BY <2>0, <3>1, <3>2, PutStep
  <2>4. CASE RemoveSentDraft(l)
    BY <2>4, TakeOutStep DEF RemoveSentDraft
  <2> QED
    BY <2>1, <2>2, <2>3, <2>4
<1>4. MailStoreTypeOK'
  BY <1>0, <1>1, <1>2, <1>3 DEF MailStoreTypeOK
<1>5. FallsOrMarked
  BY <1>0, <1>1 DEF FallsOrMarked, MailStoreTypeOK
<1> QED
  BY <1>1, <1>3, <1>4, <1>5, QuietStep

\* A mailbox is charged without a reservation, and marked.
LEMMA MarkedSteps ==
  ASSUME BoxInv, NEW l \in Letters, NEW b \in Boxes, ReleaseQuarantine(b, l) \/ ChargeDigest(l, b)
  PROVE  BoxInv'
<1>0. MailStoreTypeOK /\ charged \in [Boxes -> Nat] /\ BodySize[l] \in Nat
  BY SizesAreNat DEF BoxInv, MailStoreTypeOK
<1>1. UNCHANGED <<active, storing, givenBack, overdrawn, heldIn, removing, counting, misread>>
  BY DEF ReleaseQuarantine, ChargeDigest
<1>2. asked' \in Nat /\ uncounted' \in SUBSET (Letters \X Boxes)
  <2>1. asked \in Nat /\ uncounted \in SUBSET (Letters \X Boxes)
    BY <1>0 DEF MailStoreTypeOK
  <2>2. (asked' = asked + 1 \/ asked' = asked) /\ (uncounted' = uncounted \/ uncounted' = {})
    BY DEF ReleaseQuarantine, ChargeDigest, Ask
  <2> QED
    BY <2>1, <2>2
<1>3. RowsStep /\ row' \in [Letters -> Stored \union {Unused, Removed}]
  <2>0. "kept" \in Folders /\ FALSE \in BOOLEAN
    BY DEF Folders
  <2>1. CASE ReleaseQuarantine(b, l)
    BY <2>0, <2>1, PutStep DEF ReleaseQuarantine
  <2>2. CASE row' = row
    BY <1>0, <2>2 DEF RowsStep, MailStoreTypeOK
  <2> QED
    BY <2>1, <2>2 DEF ChargeDigest
<1>4. \/ charged' = [charged EXCEPT ![b] = charged[b] + BodySize[l]] /\ unreserved' = unreserved \union {b}
      \/ charged' = charged /\ unreserved' = unreserved
  BY DEF ReleaseQuarantine, ChargeDigest
<1>5. charged[b] + BodySize[l] \in Nat
  BY <1>0
<1>6. FallsOrMarked
  BY <1>0, <1>4, <1>5 DEF FallsOrMarked
<1>7. unreserved' \in SUBSET Boxes
  BY <1>0, <1>4 DEF MailStoreTypeOK
<1>8. MailStoreTypeOK'
  BY <1>0, <1>1, <1>2, <1>3, <1>6, <1>7 DEF MailStoreTypeOK, FallsOrMarked
<1> QED
  BY <1>1, <1>3, <1>6, <1>8, QuietStep

\* A reading, and a quarantine that is emptied, change no message and no charge.
LEMMA ReadingSteps ==
  ASSUME BoxInv, MailStoreTypeOK',
         UNCHANGED <<row, charged, storing, givenBack, overdrawn, unreserved>>
  PROVE  BoxInv'
<1>1. FallsOrMarked /\ RowsStep
  BY DEF BoxInv, FallsOrMarked, MailStoreTypeOK, RowsStep
<1> QED
  BY <1>1, QuietStep

\* A request has read what it will remove.
LEMMA RemovingRead ==
  ASSUME BoxInv, NEW q \in Removers, NEW r \in RemovingSet, removing' = [removing EXCEPT ![q] = r], Ask,
         UNCHANGED <<row, charged, active, heldIn, uncounted, storing, counting, misread, givenBack, overdrawn, unreserved>>
  PROVE  BoxInv'
<1>0. MailStoreTypeOK /\ asked \in Nat /\ removing \in [Removers -> RemovingSet]
  BY DEF BoxInv, MailStoreTypeOK, RemovingSet
<1>1. asked' \in Nat /\ removing' \in [Removers -> RemovingSet]
  BY <1>0 DEF Ask
<1>2. MailStoreTypeOK'
  BY <1>0, <1>1 DEF MailStoreTypeOK, RemovingSet
<1> QED
  BY <1>2, ReadingSteps

\* A request to delete a message has only read it.
LEMMA DeleteRequestStep ==
  ASSUME BoxInv, NEW q \in Removers, NEW l \in Letters, NEW permanent \in BOOLEAN,
         ReadForDelete(q, l, permanent)
  PROVE  BoxInv'
<1> DEFINE r == [does |-> IF permanent \/ row[l].folder = "Trash" THEN "purge" ELSE "trash",
                 letter |-> l, box |-> row[l].box]
<1>1. /\ removing' = [removing EXCEPT ![q] = r] /\ Exists(l) /\ Ask
      /\ UNCHANGED <<row, charged, active, heldIn, uncounted, storing, counting, misread, givenBack, overdrawn, unreserved>>
  BY DEF ReadForDelete
<1>2. row[l].box \in Boxes
  BY <1>1, StoredIsOther DEF Exists
<1>3. r \in RemovingSet
  BY <1>2 DEF RemovingSet
<1> HIDE DEF r
<1> QED
  BY <1>1, <1>3, RemovingRead

\* A request to delete a folder has only added up its messages.
LEMMA DropRequestStep ==
  ASSUME BoxInv, NEW q \in Removers, NEW b \in Boxes, ReadForDrop(q, b)
  PROVE  BoxInv'
<1> DEFINE r == [does |-> "drop", box |-> b, letters |-> MadeIn(b)]
<1>1. /\ removing' = [removing EXCEPT ![q] = r] /\ Ask
      /\ UNCHANGED <<row, charged, active, heldIn, uncounted, storing, counting, misread, givenBack, overdrawn, unreserved>>
  BY DEF ReadForDrop
<1>2. MadeIn(b) \in SUBSET Letters
  BY DEF MadeIn, InBox
<1>3. r \in RemovingSet
  BY <1>2 DEF RemovingSet
<1> HIDE DEF r
<1> QED
  BY <1>1, <1>3, RemovingRead

\* An administrator activates or deactivates a mailbox.
LEMMA ActiveStep ==
  ASSUME BoxInv, NEW b \in Boxes, NEW on \in BOOLEAN, SetActive(b, on)
  PROVE  BoxInv'
<1>0. MailStoreTypeOK /\ asked \in Nat /\ active \in SUBSET Boxes
  BY DEF BoxInv, MailStoreTypeOK
<1>1. /\ UNCHANGED <<row, charged, heldIn, uncounted, removing, storing, counting, misread, givenBack, overdrawn, unreserved>>
      /\ asked' = asked + 1 /\ active' \in SUBSET Boxes
  BY <1>0 DEF SetActive, Ask
<1>2. MailStoreTypeOK'
  BY <1>0, <1>1 DEF MailStoreTypeOK
<1> QED
  BY <1>1, <1>2, ReadingSteps

\* What is dropped from quarantine was never charged.
LEMMA QuarantineStep ==
  ASSUME BoxInv, NEW b \in Boxes, DeleteQuarantine(b)
  PROVE  BoxInv'
<1>0. MailStoreTypeOK /\ asked \in Nat /\ heldIn \in SUBSET Boxes
  BY DEF BoxInv, MailStoreTypeOK
<1>1. /\ UNCHANGED <<row, charged, active, uncounted, removing, storing, counting, misread, givenBack, overdrawn, unreserved>>
      /\ asked' = asked + 1 /\ heldIn' = heldIn \ {b}
  BY DEF DeleteQuarantine, Ask
<1>2. MailStoreTypeOK'
  BY <1>0, <1>1 DEF MailStoreTypeOK
<1> QED
  BY <1>1, <1>2, ReadingSteps

\* Where the reconciler turns next.
LEMMA OnwardTypes ==
  ASSUME NEW S, S \subseteq Boxes, NEW f \in [Boxes -> Nat], Onward(S, f)
  PROVE  counting' \in CountingSet
<1>1. CASE S = {}
  BY <1>1 DEF Onward, CountingSet
<1>2. CASE S # {}
  <2>1. PICK b \in S : counting' = [does |-> "bodies", left |-> S \ {b}, box |-> b,
                                   recorded |-> f, sum |-> 0]
    BY <1>2 DEF Onward
  <2> QED
    BY <2>1 DEF CountingSet
<1> QED
  BY <1>1, <1>2

\* The reconciler reads numbers, and what it writes marks the mailbox if it is more.
LEMMA ReconcileSteps ==
  ASSUME BoxInv, Reconcile
  PROVE  BoxInv'
<1>0. MailStoreTypeOK /\ counting \in CountingSet /\ misread \in Nat /\ charged \in [Boxes -> Nat]
      /\ unreserved \in SUBSET Boxes
  BY DEF BoxInv, MailStoreTypeOK, CountingSet
<1>1. UNCHANGED <<row, active, heldIn, uncounted, removing, storing, asked, givenBack, overdrawn>>
  BY DEF Reconcile, ListBoxes, SumBodies, SumParts, WriteUsage
<1>2. counting # Idle => /\ counting.does \in {"bodies", "parts", "write"} /\ counting.left \in SUBSET Boxes
                         /\ counting.box \in Boxes /\ counting.recorded \in [Boxes -> Nat]
                         /\ counting.sum \in Nat
                         /\ counting \in [does : {"bodies", "parts", "write"}, left : SUBSET Boxes,
                                          box : Boxes, recorded : [Boxes -> Nat], sum : Nat]
  BY <1>0 DEF CountingSet
<1>3. \A b \in Boxes : Bodies(b) \in Nat /\ Parts(b) \in Nat
  BY SizesAreNat DEF Bodies, Parts, InBox
<1>4. counting.does \in {"bodies", "parts", "write"} => counting # Idle
  BY DEF Idle
<1>5. CASE ListBoxes
  <2>1. active \subseteq Boxes
    BY <1>0 DEF MailStoreTypeOK
  <2>2. counting' \in CountingSet /\ UNCHANGED <<charged, misread, unreserved>>
    BY <1>0, <1>5, <2>1, OnwardTypes DEF ListBoxes
  <2>3. MailStoreTypeOK'
    BY <1>0, <1>1, <2>2 DEF MailStoreTypeOK, CountingSet
  <2> QED
    BY <1>1, <2>2, <2>3, ReadingSteps
<1>6. CASE SumBodies
  <2>1. UNCHANGED <<charged, unreserved>> /\ counting # Idle
    BY <1>4, <1>6 DEF SumBodies
  <2>2. Bodies(counting.box) \in Nat
    BY <1>2, <1>3, <2>1
  <2>3. counting' \in CountingSet /\ misread' \in Nat
    <3>1. CASE counting' = [counting EXCEPT !.does = "parts", !.sum = Bodies(counting.box)] /\ misread' = misread
      BY <1>0, <1>2, <2>1, <2>2, <3>1 DEF CountingSet
    <3>2. CASE Misread /\ Onward(counting.left, counting.recorded)
      BY <1>0, <1>2, <2>1, <3>2, OnwardTypes DEF Misread
    <3> QED
      BY <1>6, <3>1, <3>2 DEF SumBodies
  <2>4. MailStoreTypeOK'
    BY <1>0, <1>1, <2>1, <2>3 DEF MailStoreTypeOK, CountingSet
  <2> QED
    BY <1>1, <2>1, <2>4, ReadingSteps
<1>7. CASE SumParts
  <2>1. counting # Idle /\ UNCHANGED <<charged, unreserved>>
    BY <1>4, <1>7 DEF SumParts
  <2>2. Parts(counting.box) \in Nat /\ counting.sum \in Nat /\ counting.sum + Parts(counting.box) \in Nat
    BY <1>2, <1>3, <2>1
  <2>3. \E n \in Nat : counting' = [counting EXCEPT !.does = "write", !.sum = n]
    <3>1. CASE counting' = [counting EXCEPT !.does = "write", !.sum = counting.sum + Parts(counting.box)]
      BY <2>2, <3>1
    <3>2. CASE counting' = [counting EXCEPT !.does = "write"]
      <4>1. [counting EXCEPT !.does = "write"] = [counting EXCEPT !.does = "write", !.sum = counting.sum]
        BY <1>2, <2>1
      <4> QED
        BY <2>2, <3>2, <4>1
    <3> QED
      BY <1>2, <1>7, <2>1, <3>1, <3>2 DEF SumParts
  <2>4. counting' \in CountingSet
    BY <1>2, <2>1, <2>3 DEF CountingSet
  <2>5. misread' \in Nat
    BY <1>0, <1>7 DEF SumParts, Misread
  <2>6. MailStoreTypeOK'
    BY <1>0, <1>1, <2>1, <2>4, <2>5 DEF MailStoreTypeOK, CountingSet
  <2> QED
    BY <1>1, <2>1, <2>6, ReadingSteps
<1>8. CASE WriteUsage
  <2> DEFINE b == counting.box
  <2>0. counting # Idle /\ misread' \in Nat
    BY <1>0, <1>4, <1>8 DEF WriteUsage, Misread
  <2>1. b \in Boxes /\ counting.sum \in Nat
    BY <1>2, <2>0
  <2>2. \/ /\ charged' = [charged EXCEPT ![b] = counting.sum]
           /\ unreserved' = unreserved \union {c \in {b} : counting.sum > charged[b]}
        \/ charged' = charged /\ unreserved' = unreserved
    BY <1>8 DEF WriteUsage
  <2>3. unreserved' \in SUBSET Boxes /\ unreserved \subseteq unreserved' /\ charged' \in [Boxes -> Nat]
    BY <1>0, <2>1, <2>2
  <2>4. ASSUME NEW c \in Boxes PROVE charged'[c] <= charged[c] \/ c \in unreserved'
    <3>1. charged[c] \in Nat
      BY <1>0
    <3> QED
      BY <1>0, <2>1, <2>2, <3>1
  <2>5. FallsOrMarked
    BY <2>3, <2>4 DEF FallsOrMarked
  <2>6. counting' \in CountingSet
    BY <1>2, <1>8, <2>0, OnwardTypes DEF WriteUsage
  <2>7. MailStoreTypeOK'
    BY <1>0, <1>1, <2>0, <2>3, <2>6 DEF MailStoreTypeOK, CountingSet
  <2>8. RowsStep
    BY <1>1 DEF RowsStep
  <2> QED
    BY <1>1, <2>5, <2>7, <2>8, QuietStep
<1> QED
  BY <1>5, <1>6, <1>7, <1>8 DEF Reconcile

\* Removals: what is given back lowers the charge, once for a message.
LEMMA LessIsLess ==
  ASSUME NEW n \in Nat, NEW m \in Nat
  PROVE  Less(n, m) \in Nat /\ Less(n, m) <= n
  BY DEF Less

\* Moving to the trash charges nothing, and dropping gives back at most what was
\* there.
LEMMA RemovalSteps ==
  ASSUME BoxInv, NEW q \in Removers, MoveToTrash(q) \/ DropFolder(q)
  PROVE  BoxInv'
<1>0. /\ MailStoreTypeOK /\ removing \in [Removers -> RemovingSet] /\ charged \in [Boxes -> Nat]
      /\ row \in [Letters -> Stored \union {Unused, Removed}]
  BY DEF BoxInv, MailStoreTypeOK, RemovingSet
<1>1. /\ UNCHANGED <<active, heldIn, uncounted, storing, counting, asked, misread, unreserved>>
      /\ removing' = [removing EXCEPT ![q] = Idle]
  BY DEF MoveToTrash, DropFolder
<1>2. removing' \in [Removers -> RemovingSet]
  BY <1>0, <1>1 DEF RemovingSet
<1>3. /\ removing[q].does = "trash" => removing[q].letter \in Letters
      /\ removing[q].does = "drop" => removing[q].box \in Boxes /\ removing[q].letters \in SUBSET Letters
  BY <1>0 DEF RemovingSet, Idle
<1>4. CASE MoveToTrash(q)
  <2> DEFINE l == removing[q].letter
  <2>1. l \in Letters /\ UNCHANGED <<charged, givenBack, overdrawn>>
    BY <1>3, <1>4 DEF MoveToTrash
  <2>2. row' = [row EXCEPT ![l] = IF row[l] \in Stored THEN [row[l] EXCEPT !.folder = "Trash"] ELSE row[l]]
    BY <1>4 DEF MoveToTrash
  <2> HIDE DEF l
  <2>3. CASE Exists(l)
    <3>1. row' = [row EXCEPT ![l] = [row[l] EXCEPT !.folder = "Trash"]]
      BY <2>2, <2>3 DEF Exists
    <3>2. [row[l] EXCEPT !.folder = "Trash"] \in Stored
      BY <2>3 DEF Exists, Stored, Folders
    <3>3. row' \in [Letters -> Stored \union {Unused, Removed}] /\ \A k \in Letters \ {l} : row'[k] = row[k]
      BY <1>0, <2>1, <3>1, <3>2
    <3> QED
      BY <1>0, <1>1, <1>2, <2>1, <2>3, <3>3, OneRowStep, QuietStep
      DEF MailStoreTypeOK, RemovingSet, FallsOrMarked
  <2>4. CASE ~Exists(l)
    <3>1. row' = row
      BY <1>0, <2>1, <2>2, <2>4 DEF Exists
    <3>2. MailStoreTypeOK'
      BY <1>0, <1>1, <1>2, <2>1, <3>1 DEF MailStoreTypeOK, RemovingSet
    <3> QED
      BY <1>1, <2>1, <3>1, <3>2, ReadingSteps
  <2> QED
    BY <2>3, <2>4
<1>5. CASE DropFolder(q)
  <2> DEFINE b == removing[q].box
             L == removing[q].letters
             n == SumFunctionOnSet(BodySize, L)
             gone == MadeIn(b)
  <2>0. removing[q].does = "drop" /\ b \in Boxes /\ L \subseteq Letters
    BY <1>3, <1>5 DEF DropFolder
  <2>1. b \in Boxes /\ n \in Nat /\ charged[b] \in Nat
    BY <1>0, <2>0, SizesAreNat
  <2>a. \A l \in gone : Exists(l) /\ l \in Letters
    <3> SUFFICES ASSUME NEW l \in MadeIn(b) PROVE Exists(l) /\ l \in Letters
      OBVIOUS
    <3>1. l \in Letters /\ row[l].folder = "made"
      BY DEF MadeIn, InBox
    <3> QED
      BY <1>0, <3>1 DEF Exists, Unused, Removed
  <2>2. CASE /\ TakeOut(gone) /\ charged' = [charged EXCEPT ![b] = Less(charged[b], n)]
             /\ givenBack' = [l \in Letters |-> givenBack[l] + IF l \in L THEN 1 ELSE 0]
             /\ overdrawn' = [l \in Letters |-> overdrawn[l] + IF l \in L \ gone THEN 1 ELSE 0]
    <3> HIDE DEF n, gone, L, b
    <3>2. RowsStep /\ row' \in [Letters -> Stored \union {Unused, Removed}]
          /\ \A l \in gone : row'[l] = Removed
      <4>1. \A l \in gone : row'[l] = Removed
        BY <2>2, <2>a DEF TakeOut
      <4> QED
        BY <2>2, <2>a, <4>1, TakeOutStep
    <3>3. Less(charged[b], n) \in Nat /\ Less(charged[b], n) <= charged[b]
      BY <2>1, LessIsLess
    <3>4. charged' \in [Boxes -> Nat] /\ \A c \in Boxes : charged'[c] <= charged[c]
      BY <1>0, <2>1, <2>2, <3>3
    <3>5. FallsOrMarked
      BY <1>1, <3>4 DEF FallsOrMarked
    <3>a. \A l \in Letters : givenBack[l] \in Nat /\ overdrawn[l] \in Nat
      BY <1>0 DEF MailStoreTypeOK
    <3>b. givenBack' \in [Letters -> Nat] /\ overdrawn' \in [Letters -> Nat]
      BY <2>2, <3>a
    <3>6. MailStoreTypeOK'
      BY <1>0, <1>1, <1>2, <3>2, <3>4, <3>b DEF MailStoreTypeOK, RemovingSet
    <3>7. GivenBackOnce'
      <4> SUFFICES ASSUME NEW l \in Letters
                   PROVE  givenBack'[l] <= overdrawn'[l] + (IF row'[l] = Removed THEN 1 ELSE 0)
        BY DEF GivenBackOnce
      <4>1. givenBack[l] <= overdrawn[l] + (IF row[l] = Removed THEN 1 ELSE 0)
        BY DEF BoxInv, GivenBackOnce
      <4>2. /\ givenBack'[l] = givenBack[l] + IF l \in L THEN 1 ELSE 0
            /\ overdrawn'[l] = overdrawn[l] + IF l \in L \ gone THEN 1 ELSE 0
        BY <2>2
      <4>3. CASE l \in gone
        <5>1. row'[l] = Removed /\ row[l] # Removed
          BY <2>a, <3>2, <4>3, StoredIsOther DEF Exists
        <5> QED
          BY <3>a, <4>1, <4>2, <4>3, <5>1
      <4>4. CASE l \notin gone
        <5>1. row[l] = Removed => row'[l] = Removed
          BY <3>2 DEF RowsStep
        <5> QED
          BY <3>a, <4>1, <4>2, <4>4, <5>1
      <4> QED
        BY <4>3, <4>4
    <3>8. RoomIsKept' /\ QuotaHolds' /\ ChainsApart'
      BY <1>1, <3>5, QuotaSteady
    <3>9. LetterWaits'
      BY <1>1, <3>2 DEF BoxInv, LetterWaits, RowsStep
    <3> QED
      BY <3>6, <3>7, <3>8, <3>9 DEF BoxInv
  <2>3. CASE UNCHANGED <<row, charged, givenBack, overdrawn>>
    <3>1. MailStoreTypeOK'
      BY <1>0, <1>1, <1>2, <2>3 DEF MailStoreTypeOK, RemovingSet
    <3> QED
      BY <1>1, <2>3, <3>1, ReadingSteps
  <2> QED
    BY <1>5, <2>2, <2>3 DEF DropFolder
<1> QED
  BY <1>4, <1>5

\* A purge gives back what it removed, if it was there to remove.
LEMMA PurgeStep ==
  ASSUME BoxInv, NEW q \in Removers, Purge(q)
  PROVE  BoxInv'
<1>0. /\ MailStoreTypeOK /\ removing \in [Removers -> RemovingSet] /\ charged \in [Boxes -> Nat]
      /\ givenBack \in [Letters -> Nat]
  BY DEF BoxInv, MailStoreTypeOK, RemovingSet
<1> DEFINE l == removing[q].letter
           b == removing[q].box
<1>1. /\ UNCHANGED <<active, heldIn, uncounted, storing, counting, asked, misread, overdrawn, unreserved>>
      /\ removing' = [removing EXCEPT ![q] = Idle] /\ removing[q].does = "purge"
      /\ TakeOut({k \in {l} : Exists(k)}) /\ GiveBack(l, b)
  BY DEF Purge
<1>2. removing' \in [Removers -> RemovingSet]
  BY <1>0, <1>1 DEF RemovingSet
<1>3. l \in Letters /\ b \in Boxes
  BY <1>0, <1>1 DEF RemovingSet, Idle
<1> HIDE DEF l, b
<1>4. CASE Exists(l)
  <2>1. TakeOut({l})
    <3>1. {k \in {l} : Exists(k)} = {l}
      BY <1>4
    <3> QED
      BY <1>1, <3>1
  <2>2. RowsStep /\ row' \in [Letters -> Stored \union {Unused, Removed}] /\ row'[l] = Removed
    <3>1. row'[l] = Removed
      BY <1>3, <2>1 DEF TakeOut
    <3>2. {l} \subseteq Letters /\ \A k \in {l} : Exists(k)
      BY <1>3, <1>4
    <3> QED
      BY <2>1, <3>1, <3>2, TakeOutStep
  <2>3. /\ charged' = [charged EXCEPT ![b] = Less(charged[b], Size(l))]
        /\ givenBack' = [givenBack EXCEPT ![l] = givenBack[l] + 1]
    BY <1>1, <1>4 DEF GiveBack
  <2>4. charged[b] \in Nat /\ Size(l) \in Nat /\ givenBack[l] \in Nat
    BY <1>0, <1>3, SizesAreNat
  <2>5. Less(charged[b], Size(l)) \in Nat /\ Less(charged[b], Size(l)) <= charged[b]
    BY <2>4, LessIsLess
  <2>6. charged' \in [Boxes -> Nat] /\ \A c \in Boxes : charged'[c] <= charged[c]
    BY <1>0, <1>3, <2>3, <2>5
  <2>7. FallsOrMarked
    BY <1>1, <2>6 DEF FallsOrMarked
  <2>8. givenBack' \in [Letters -> Nat] /\ givenBack'[l] = givenBack[l] + 1
        /\ \A k \in Letters \ {l} : givenBack'[k] = givenBack[k]
    BY <1>0, <1>3, <2>3, <2>4
  <2>9. MailStoreTypeOK'
    BY <1>0, <1>1, <1>2, <2>2, <2>6, <2>8 DEF MailStoreTypeOK, RemovingSet
  <2>10. RoomIsKept' /\ QuotaHolds' /\ ChainsApart'
    BY <1>1, <2>7, QuotaSteady
  <2>11. LetterWaits'
    BY <1>1, <2>2 DEF BoxInv, LetterWaits, RowsStep
  <2>12. \A k \in Letters : givenBack[k] \in Nat /\ overdrawn[k] \in Nat
    BY <1>0 DEF MailStoreTypeOK
  <2>13. GivenBackOnce'
    <3> SUFFICES ASSUME NEW k \in Letters
                 PROVE  givenBack'[k] <= overdrawn[k] + (IF row'[k] = Removed THEN 1 ELSE 0)
      BY <1>1 DEF GivenBackOnce
    <3>1. givenBack[k] <= overdrawn[k] + (IF row[k] = Removed THEN 1 ELSE 0)
      BY DEF BoxInv, GivenBackOnce
    <3>2. CASE k = l
      <4>1. row'[k] = Removed /\ row[k] # Removed
        BY <1>4, <2>2, <3>2, StoredIsOther DEF Exists
      <4> QED
        BY <2>8, <2>12, <3>1, <3>2, <4>1
    <3>3. CASE k # l
      <4>1. row[k] = Removed => row'[k] = Removed
        BY <2>2 DEF RowsStep
      <4> QED
        BY <2>8, <2>12, <3>1, <3>3, <4>1
    <3> QED
      BY <3>2, <3>3
  <2> QED
    BY <2>9, <2>10, <2>11, <2>13 DEF BoxInv
<1>5. CASE ~Exists(l)
  <2>1. {k \in {l} : Exists(k)} = {}
    BY <1>5
  <2>2. TakeOut({}) /\ UNCHANGED <<charged, givenBack>>
    BY <1>1, <1>5, <2>1 DEF GiveBack
  <2>3. row' = row
    BY <1>0, <2>2 DEF TakeOut, MailStoreTypeOK
  <2>4. MailStoreTypeOK'
    BY <1>0, <1>1, <1>2, <2>2, <2>3 DEF MailStoreTypeOK, RemovingSet
  <2> QED
    BY <1>1, <2>2, <2>3, <2>4, ReadingSteps
<1> QED
  BY <1>4, <1>5

\* A delivery reserves: its chain is nobody else's and has the room.
LEMMA ReserveStep ==
  ASSUME BoxInv, NEW d \in Deliveries, NEW b \in Boxes, NEW l \in Letters, ReserveStorage(d, b, l)
  PROVE  BoxInv'
<1>0. MailStoreTypeOK /\ asked \in Nat /\ storing \in [Deliveries -> StoringSet]
  BY DEF BoxInv, MailStoreTypeOK, StoringSet
<1> DEFINE s == [does |-> "store", box |-> b, letter |-> l]
<1>1. /\ UNCHANGED <<row, charged, active, heldIn, uncounted, removing, counting, misread, givenBack, overdrawn, unreserved>>
      /\ asked' = asked + 1 /\ storing' = [storing EXCEPT ![d] = s] /\ row[l] = Unused
      /\ \A e \in Deliveries : storing[e] # Idle => storing[e].letter # l
      /\ \A a \in Owners(b) : ~Locked(a)
      /\ Fits(b, Size(l)) /\ storing[d] = Idle
  BY DEF ReserveStorage, Ask
<1>2. s \in StoringSet /\ s # Idle /\ s.box = b /\ s.letter = l
  BY DEF StoringSet, Idle
<1> HIDE DEF s
<1>3. storing' \in [Deliveries -> StoringSet] /\ storing'[d] = s /\ \A e \in Deliveries \ {d} : storing'[e] = storing[e]
  BY <1>0, <1>1, <1>2
<1>4. MailStoreTypeOK'
  BY <1>0, <1>1, <1>3 DEF MailStoreTypeOK, StoringSet
<1>5. \A a \in Boxes : OwnedUsage(a)' = OwnedUsage(a) /\ Overrun(a)' = Overrun(a)
  BY <1>1 DEF OwnedUsage, Overrun
<1>6. LetterWaits'
  BY <1>1, <1>2, <1>3 DEF BoxInv, LetterWaits
<1>7. ChainsApart'
  <2>1. \A e \in Deliveries \ {d}, a \in Owners(b) : storing[e] # Idle => a \notin Owners(storing[e].box)
    BY <1>1 DEF Locked
  <2> QED
    BY <1>2, <1>3, <2>1 DEF BoxInv, ChainsApart
<1>8. GivenBackOnce'
  BY <1>1 DEF BoxInv, GivenBackOnce
<1>9. QuotaHolds'
  BY <1>1, <1>5 DEF BoxInv, QuotaHolds
<1>10. RoomIsKept'
  <2>1. \A a \in Owners(b) : a \in Boxes
    BY DEF Owners
  <2>2. \A a \in Owners(b) : Quota[a] > 0 => OwnedUsage(a)' + Size(l) <= Quota[a]
    BY <1>1, <1>5, <2>1 DEF Fits
  <2> SUFFICES ASSUME NEW e \in Deliveries, storing'[e] # Idle, NEW a \in Owners(storing'[e].box), Quota[a] > 0
               PROVE  OwnedUsage(a)' + Size(storing'[e].letter) <= Quota[a] \/ Overrun(a)'
    BY DEF RoomIsKept, Size
  <2>3. CASE e = d
    BY <1>2, <1>3, <2>2, <2>3
  <2>4. CASE e # d
    <3>1. a \in Boxes
      BY DEF Owners
    <3> QED
      BY <1>3, <1>5, <2>4, <3>1 DEF BoxInv, RoomIsKept
  <2> QED
    BY <2>3, <2>4
<1> QED
  BY <1>4, <1>6, <1>7, <1>8, <1>9, <1>10 DEF BoxInv

\* A delivery commits what it reserved room for, or nothing.
LEMMA StoreStep ==
  ASSUME BoxInv, NEW d \in Deliveries, StoreMessage(d)
  PROVE  BoxInv'
<1>0. /\ MailStoreTypeOK /\ storing \in [Deliveries -> StoringSet] /\ charged \in [Boxes -> Nat]
      /\ row \in [Letters -> Stored \union {Unused, Removed}] /\ Quota \in [Boxes -> Nat]
  BY BoxAssumption DEF BoxInv, MailStoreTypeOK, StoringSet
<1> DEFINE b == storing[d].box
           l == storing[d].letter
<1>1. /\ UNCHANGED <<active, heldIn, uncounted, removing, counting, asked, misread, givenBack, overdrawn, unreserved>>
      /\ storing' = [storing EXCEPT ![d] = Idle] /\ storing[d] # Idle
      /\ \/ Put(l, b, "kept", FALSE) /\ charged' = [charged EXCEPT ![b] = charged[b] + Size(l)]
         \/ UNCHANGED <<row, charged>>
  BY DEF StoreMessage
<1>2. b \in Boxes /\ l \in Letters /\ row[l] = Unused
  BY <1>0, <1>1 DEF StoringSet, BoxInv, LetterWaits
<1>3. \A a \in Owners(b) : a \in Boxes /\ (Quota[a] > 0 => OwnedUsage(a) + Size(l) <= Quota[a] \/ Overrun(a))
  BY <1>1 DEF BoxInv, RoomIsKept, Owners
<1>4. \A e \in Deliveries \ {d} : storing[e] # Idle =>
        storing[e].letter # l /\ \A a \in Owners(storing[e].box) : a \notin Owners(b)
  BY <1>1 DEF BoxInv, LetterWaits, ChainsApart
<1> HIDE DEF b, l
<1>5. storing' \in [Deliveries -> StoringSet] /\ storing'[d] = Idle /\ \A e \in Deliveries \ {d} : storing'[e] = storing[e]
  BY <1>0, <1>1 DEF StoringSet
<1>6. /\ row' \in [Letters -> Stored \union {Unused, Removed}] /\ \A k \in Letters \ {l} : row'[k] = row[k]
  <2>1. [box |-> b, folder |-> "kept", draft |-> FALSE] \in Stored
    BY <1>2 DEF Stored, Folders
  <2> QED
    BY <1>0, <1>1, <1>2, <2>1 DEF Put
<1>7. charged[b] \in Nat /\ Size(l) \in Nat
  BY <1>0, <1>2, SizesAreNat
<1>8. PICK n \in {0, Size(l)} : charged' = [charged EXCEPT ![b] = charged[b] + n]
  <2>1. CASE charged' = [charged EXCEPT ![b] = charged[b] + Size(l)]
    BY <2>1
  <2>2. CASE charged' = charged
    <3>1. charged = [charged EXCEPT ![b] = charged[b] + 0]
      BY <1>0, <1>2, <1>7
    <3> QED
      BY <2>2, <3>1
  <2> QED
    BY <1>1, <2>1, <2>2
<1>9. charged' \in [Boxes -> Nat] /\ charged'[b] = charged[b] + n /\ \A c \in Boxes \ {b} : charged'[c] = charged[c]
  BY <1>0, <1>2, <1>7, <1>8
<1>10. MailStoreTypeOK'
  BY <1>0, <1>1, <1>5, <1>6, <1>9 DEF MailStoreTypeOK, StoringSet
<1>11. ASSUME NEW a \in Boxes
       PROVE  /\ OwnedUsage(a) \in Int
              /\ a \notin Owners(b) => OwnedUsage(a)' = OwnedUsage(a)
              /\ a \in Owners(b) => OwnedUsage(a)' = OwnedUsage(a) + n
  <2>1. OwnedUsage(a)' = SumFunctionOnSet(charged', OwnedBy(a)) /\ OwnedUsage(a) = SumFunctionOnSet(charged, OwnedBy(a))
    BY DEF OwnedUsage, OwnedBy
  <2>2. IsFiniteSet(OwnedBy(a)) /\ OwnedBy(a) \subseteq Boxes /\ (b \in OwnedBy(a) <=> a \in Owners(b))
    BY <1>2, OwnedFinite DEF OwnedBy
  <2>3. \A c \in OwnedBy(a) : charged[c] \in Int /\ charged'[c] \in Int
    BY <1>0, <1>9, <2>2
  <2>4. OwnedUsage(a) \in Int
    BY <1>0, UsageIsInt
  <2>5. CASE a \notin Owners(b)
    <3>1. \A c \in OwnedBy(a) : charged'[c] = charged[c]
      BY <1>9, <2>2, <2>5
    <3>2. SumFunctionOnSet(charged', OwnedBy(a)) = SumFunctionOnSet(charged, OwnedBy(a))
      BY <2>2, <2>3, <3>1, SumSame
    <3> QED
      BY <2>1, <2>4, <2>5, <3>2
  <2>6. CASE a \in Owners(b)
    <3>1. \A c \in OwnedBy(a) \ {b} : charged'[c] = charged[c]
      BY <1>9, <2>2
    <3>2. SumFunctionOnSet(charged', OwnedBy(a)) = SumFunctionOnSet(charged, OwnedBy(a)) + charged'[b] - charged[b]
      <4> DEFINE e == charged'
                 f == charged
                 S == OwnedBy(a)
      <4>1. IsFiniteSet(S) /\ b \in S /\ e[b] \in Int /\ (\A c \in S : f[c] \in Int)
        BY <2>2, <2>3, <2>6
      <4>2. \A c \in S \ {b} : e[c] = f[c]
        BY <3>1
      <4> HIDE DEF e, f, S
      <4>3. SumFunctionOnSet(e, S) = SumFunctionOnSet(f, S) + e[b] - f[b]
        BY <4>1, <4>2, SumChange
      <4> QED
        BY <4>3 DEF e, f, S
    <3> QED
      BY <1>7, <1>9, <2>1, <2>4, <2>6, <3>2
  <2> QED
    BY <2>4, <2>5, <2>6
<1>12. LetterWaits'
  <2>1. \A e \in Deliveries \ {d} : storing[e] # Idle => storing[e].letter \in Letters \ {l}
    BY <1>0, <1>4 DEF StoringSet
  <2> QED
    BY <1>5, <1>6, <2>1 DEF BoxInv, LetterWaits
<1>13. ChainsApart'
  BY <1>5 DEF BoxInv, ChainsApart
<1>14. GivenBackOnce'
  <2> SUFFICES ASSUME NEW k \in Letters
               PROVE  givenBack[k] <= overdrawn[k] + (IF row'[k] = Removed THEN 1 ELSE 0)
    BY <1>1 DEF GivenBackOnce
  <2>1. /\ givenBack[k] <= overdrawn[k] + (IF row[k] = Removed THEN 1 ELSE 0)
        /\ givenBack[k] \in Nat /\ overdrawn[k] \in Nat
    BY <1>0 DEF BoxInv, GivenBackOnce, MailStoreTypeOK
  <2>2. row[k] = Removed => row'[k] = Removed
    BY <1>2, <1>6, StoredIsOther
  <2> QED
    BY <2>1, <2>2
<1>15. \A a \in Boxes : Overrun(a)' = Overrun(a)
  BY <1>1 DEF Overrun
<1>16. QuotaHolds'
  <2> SUFFICES ASSUME NEW a \in Boxes, Quota[a] > 0, OwnedUsage(a)' > Quota[a] PROVE Overrun(a)
    BY <1>15 DEF QuotaHolds, Overrun
  <2>1. Quota[a] \in Nat /\ OwnedUsage(a) \in Int /\ (OwnedUsage(a) > Quota[a] => Overrun(a))
    BY <1>0, <1>11 DEF BoxInv, QuotaHolds, Overrun
  <2>2. CASE a \notin Owners(b)
    BY <1>11, <2>1, <2>2
  <2>3. CASE a \in Owners(b)
    <3>1. OwnedUsage(a)' = OwnedUsage(a) + n
      BY <1>11, <2>3
    <3>2. OwnedUsage(a) + Size(l) <= Quota[a] \/ Overrun(a)
      BY <1>3, <2>3
    <3> QED
      BY <1>7, <1>8, <2>1, <3>1, <3>2
  <2> QED
    BY <2>2, <2>3
<1>17. RoomIsKept'
  <2> SUFFICES ASSUME NEW e \in Deliveries, storing'[e] # Idle, NEW a \in Owners(storing'[e].box), Quota[a] > 0
               PROVE  OwnedUsage(a)' + Size(storing'[e].letter) <= Quota[a] \/ Overrun(a)
    BY <1>15 DEF RoomIsKept, Size, Owners
  <2>1. e # d /\ storing'[e] = storing[e] /\ a \in Boxes
    BY <1>5 DEF Owners
  <2>2. a \notin Owners(b)
    BY <1>4, <2>1
  <2>3. OwnedUsage(a)' = OwnedUsage(a)
    BY <1>11, <2>1, <2>2
  <2> QED
    BY <2>1, <2>3 DEF BoxInv, RoomIsKept
<1> QED
  BY <1>10, <1>12, <1>13, <1>14, <1>16, <1>17 DEF BoxInv

\* Whatever runs at once: whoever removes a message gives its storage back once, a
\* folder's deletion again only for a message it added up and did not find, and a
\* mailbox and all it owns stay within its quota but for what was charged without a reservation.
THEOREM StorageOrdered == MailStoreSpec => []StorageIsOrdered
<1>1. MailStoreInit => BoxInv
  <2> SUFFICES ASSUME MailStoreInit PROVE BoxInv
    OBVIOUS
  <2>1. MailStoreTypeOK
    BY DEF MailStoreInit, MailStoreTypeOK
  <2>2. LetterWaits /\ ChainsApart /\ RoomIsKept /\ GivenBackOnce
    BY DEF MailStoreInit, LetterWaits, ChainsApart, RoomIsKept, GivenBackOnce
  <2>3. QuotaHolds
    <3> SUFFICES ASSUME NEW a \in Boxes, Quota[a] > 0 PROVE ~(OwnedUsage(a) > Quota[a])
      BY DEF QuotaHolds
    <3> DEFINE zero == [b \in Boxes |-> 0]
    <3>1. charged = zero
      BY DEF MailStoreInit
    <3>2. IsFiniteSet(OwnedBy(a)) /\ OwnedBy(a) \subseteq Boxes
      BY OwnedFinite
    <3>3. OwnedUsage(a) = 0
      <4> DEFINE T == OwnedBy(a)
      <4>1. \A b \in T : charged[b] = 0
        BY <3>1, <3>2
      <4> QED
        BY <3>2, <4>1, SumOfZeros DEF OwnedUsage, OwnedBy
    <3>4. Quota[a] \in Nat
      BY BoxAssumption
    <3> QED
      BY <3>3, <3>4
  <2> QED
    BY <2>1, <2>2, <2>3 DEF BoxInv
<1>2. BoxInv /\ [MailStoreNext]_store => BoxInv'
  <2> SUFFICES ASSUME BoxInv, [MailStoreNext]_store PROVE BoxInv'
    OBVIOUS
  <2>1. ASSUME NEW d \in Deliveries, StoreMessage(d) PROVE BoxInv'
    BY <2>1, StoreStep
  <2>2. ASSUME NEW l \in Letters, NEW b \in Boxes, NEW d \in Deliveries, ReserveStorage(d, b, l) PROVE BoxInv'
    BY <2>2, ReserveStep
  <2>3. ASSUME NEW l \in Letters, NEW b \in Boxes,
               \/ SaveDraft(b, l) \/ KeepSentCopy(b, l) \/ StoreDigest(b, l) \/ UpdateDraft(l, b)
        PROVE  BoxInv'
    <3>1. "kept" \in Folders /\ TRUE \in BOOLEAN
      BY DEF Folders
    <3> QED
      BY <2>3, <3>1, UnchargedSteps
  <2>4. ASSUME NEW l \in Letters, NEW b \in Boxes, ReleaseQuarantine(b, l) \/ ChargeDigest(l, b) PROVE BoxInv'
    BY <2>4, MarkedSteps
  <2>5. ASSUME NEW b \in Boxes, DeleteQuarantine(b) PROVE BoxInv'
    BY <2>5, QuarantineStep
  <2>a. ASSUME NEW b \in Boxes, NEW on \in BOOLEAN, SetActive(b, on) PROVE BoxInv'
    BY <2>a, ActiveStep
  <2>6. ASSUME NEW b \in Boxes, NEW q \in Removers, ReadForDrop(q, b) PROVE BoxInv'
    BY <2>6, DropRequestStep
  <2>7. ASSUME NEW l \in Letters, NEW f \in Folders, NEW dr \in BOOLEAN, UpdateMessage(l, f, dr) PROVE BoxInv'
    <3>1. Boxes # {}
      BY <2>7, StoredIsOther DEF UpdateMessage, Exists
    <3> QED
      BY <2>7, <3>1, UnchargedSteps
  <2>8. ASSUME NEW l \in Letters, RemoveSentDraft(l) PROVE BoxInv'
    <3>1. Boxes # {} /\ "kept" \in Folders /\ TRUE \in BOOLEAN
      BY <2>8, StoredIsOther DEF RemoveSentDraft, Exists, Folders
    <3> QED
      BY <2>8, <3>1, UnchargedSteps
  <2>9. ASSUME NEW l \in Letters, NEW q \in Removers, NEW permanent \in BOOLEAN, ReadForDelete(q, l, permanent)
        PROVE  BoxInv'
    BY <2>9, DeleteRequestStep
  <2>10. ASSUME NEW q \in Removers, Purge(q) \/ MoveToTrash(q) \/ DropFolder(q) PROVE BoxInv'
    BY <2>10, PurgeStep, RemovalSteps
  <2>11. CASE Reconcile
    BY <2>11, ReconcileSteps
  <2>12. CASE UNCHANGED store
    <3>1. /\ UNCHANGED <<row, charged, active, heldIn, uncounted, removing, storing, counting, asked, misread>>
          /\ UNCHANGED <<givenBack, overdrawn, unreserved>>
      BY <2>12 DEF store
    <3>2. MailStoreTypeOK'
      BY <3>1 DEF BoxInv, MailStoreTypeOK
    <3> QED
      BY <3>1, <3>2, ReadingSteps
  <2> QED
    BY <2>1, <2>2, <2>3, <2>4, <2>5, <2>a, <2>6, <2>7, <2>8, <2>9, <2>10, <2>11, <2>12
       DEF MailStoreNext
<1>3. BoxInv => StorageIsOrdered
  BY DEF BoxInv, StorageIsOrdered
<1> QED
  BY <1>1, <1>2, <1>3, PTL DEF MailStoreSpec
=============================================================================
