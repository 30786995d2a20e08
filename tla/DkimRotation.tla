---------------------------- MODULE DkimRotation ----------------------------
(***************************************************************************)
(* The rotation of a domain's DKIM key, by the workers of several processes*)
(* that tick at once: a new key is staged, its record is seen in DNS, a TTL*)
(* later it signs and the old key becomes the previous one, which a TTL    *)
(* later is revoked and, a TTL after the revocation is seen, let go.       *)
(*                                                                         *)
(* The operator publishes the records the server lists, at any later time. *)
(* A key stands for its selector too.  Times are counted since the event   *)
(* they belong to, up to the longest the code asks for.                    *)
(***************************************************************************)
EXTENDS Integers, FiniteSets

CONSTANTS
  DkimKeys,     \* keys, each with its selector
  NoKey,        \* an empty slot
  Tickers,      \* processes that run the worker
  TTL,          \* RecordTTL
  Interval      \* dkim_rotation_interval_days

ASSUME DkimAssumption ==
  NoKey \notin DkimKeys /\ TTL \in Nat \ {0} /\ Interval \in Nat \ {0}

Never == -1     \* a time column that is NULL
Longest == IF Interval > TTL THEN Interval ELSE TTL
Since == -1 .. Longest

VARIABLES
  current, installed,      \* domains.dkim_selector, dkim_created_at
  rotating,                \* is the interval set?
  staged, published,       \* the staged slot and its published_at
  previous, switched,      \* the previous slot and the switch its deadline counts from
  revoked,                 \* revoked_at is set
  revocationSeen,          \* revocation_published_at
  dns,                     \* what resolves: "absent", "key" or "revoked"
  inDns,                   \* since when the record is as it is
  ticker,                  \* what a process does next
  mine                     \* the staged key its step has read

rotation == <<current, installed, rotating, staged, published, previous, switched,
              revoked, revocationSeen, dns, inDns, ticker, mine>>

DkimTypeOK ==
  /\ current \in DkimKeys /\ installed \in Since
  /\ rotating \in BOOLEAN
  /\ staged \in DkimKeys \union {NoKey} /\ published \in Since
  /\ previous \in DkimKeys \union {NoKey} /\ switched \in Since
  /\ revoked \in BOOLEAN /\ revocationSeen \in Since
  /\ dns \in [DkimKeys -> {"absent", "key", "revoked"}] /\ inDns \in [DkimKeys -> Since]
  /\ ticker \in [Tickers -> {"retire", "stage", "publish", "activate"}]
  /\ mine \in [Tickers -> DkimKeys \union {NoKey}]

DkimInit ==
  /\ current \in DkimKeys /\ installed = Never
  /\ rotating \in BOOLEAN
  /\ staged = NoKey /\ published = Never
  /\ previous = NoKey /\ switched = Never /\ revoked = FALSE /\ revocationSeen = Never
  /\ dns = [k \in DkimKeys |-> IF k = current THEN "key" ELSE "absent"]
  /\ inDns = [k \in DkimKeys |-> Longest]
  /\ ticker = [p \in Tickers |-> "retire"]
  /\ mine = [p \in Tickers |-> NoKey]

Goes(p, step) == ticker' = [ticker EXCEPT ![p] = step]

-----------------------------------------------------------------------------
(* Step: four transactions, one after the other *)

PreviousIs(sw, rev, seen) == switched' = sw /\ revoked' = rev /\ revocationSeen' = seen

\* Mutation of RetireDue: the key goes as soon as it no longer signs.
RetireDueAtOnce == previous # NoKey

\* retire waits for the deadline, the switch and a TTL.
RetireDue == previous # NoKey /\ switched >= TTL

\* Revoked, a lookup, decides when the revocation's own TTL starts.  The row is
\* locked, so each of its steps happens once.
Retire(p) ==
  /\ ticker[p] = "retire" /\ Goes(p, "stage")
  /\ \/ /\ ~RetireDue
        /\ UNCHANGED <<previous, switched, revoked, revocationSeen>>
     \/ /\ RetireDue /\ ~revoked
        /\ PreviousIs(switched, TRUE, Never) /\ UNCHANGED previous
     \/ /\ RetireDue /\ revoked /\ revocationSeen = Never
        /\ PreviousIs(switched, TRUE, IF dns[previous] = "revoked" THEN 0 ELSE Never)
        /\ UNCHANGED previous
     \/ /\ RetireDue /\ revoked /\ revocationSeen # Never
        /\ IF revocationSeen < TTL THEN UNCHANGED <<previous, switched, revoked, revocationSeen>>
           ELSE previous' = NoKey /\ PreviousIs(Never, FALSE, Never)
  /\ UNCHANGED <<current, installed, rotating, staged, published, dns, inDns, mine>>

\* Due: a key of unknown age is due.
DueForRotation == rotating /\ (installed = Never \/ installed >= Interval)

\* Stage: a key that is staged already is kept; a new one gets a selector that is
\* free.
Stage(p) ==
  /\ ticker[p] = "stage"
  /\ IF staged # NoKey
     THEN /\ mine' = [mine EXCEPT ![p] = staged]
          /\ Goes(p, IF published = Never THEN "publish" ELSE "activate")
          /\ UNCHANGED <<staged, published>>
     ELSE /\ Goes(p, "retire") /\ UNCHANGED mine
          /\ IF DueForRotation
             THEN /\ \E k \in DkimKeys \ {current, previous} : dns[k] = "absent" /\ staged' = k
                  /\ published' = Never
             ELSE UNCHANGED <<staged, published>>
  /\ UNCHANGED <<current, installed, rotating, previous, switched, revoked, revocationSeen,
                 dns, inDns>>

SeenPublished(k) == dns[k] = "key"

\* notePublication: written only while the key is staged and not yet noted.
NotePublication(p) ==
  /\ ticker[p] = "publish" /\ Goes(p, "retire")
  /\ published' = IF SeenPublished(mine[p]) /\ staged = mine[p] /\ published = Never
                  THEN 0 ELSE published
  /\ UNCHANGED <<current, installed, rotating, staged, previous, switched, revoked,
                 revocationSeen, dns, inDns, mine>>

\* Activate, on what it reads under the domain's lock.
MayActivate ==
  /\ DueForRotation
  /\ staged # NoKey /\ published >= TTL
  /\ previous = NoKey
  /\ dns[staged] = "key"

Activate(p) ==
  /\ ticker[p] = "activate" /\ Goes(p, "retire")
  /\ IF MayActivate
     THEN /\ previous' = current /\ PreviousIs(0, FALSE, Never)
          /\ current' = staged /\ installed' = 0
          /\ staged' = NoKey /\ published' = Never
     ELSE UNCHANGED <<previous, switched, revoked, revocationSeen, current, installed,
                      staged, published>>
  /\ UNCHANGED <<rotating, dns, inDns, mine>>

-----------------------------------------------------------------------------
(* The world around it *)

\* setRotation: the interval is set or cleared.
SetRotation ==
  /\ rotating' = ~rotating
  /\ UNCHANGED <<current, installed, staged, published, previous, switched, revoked,
                 revocationSeen, dns, inDns, ticker, mine>>

\* Mutation of Listed: a revoked key's record is listed as before.
ListedUnrevoked(k) == IF k \in {current, staged, previous} THEN "key" ELSE "absent"

\* The records the server lists: Rotation, and the signing key's own.
Listed(k) ==
  IF k \in {current, staged} THEN "key"
  ELSE IF k = previous THEN IF revoked THEN "revoked" ELSE "key"
  ELSE "absent"

\* External: the operator brings one record up to date.
Publish(k) ==
  /\ dns[k] # Listed(k)
  /\ dns' = [dns EXCEPT ![k] = Listed(k)] /\ inDns' = [inDns EXCEPT ![k] = 0]
  /\ UNCHANGED <<current, installed, rotating, staged, published, previous, switched,
                 revoked, revocationSeen, ticker, mine>>

Later(t) == IF t = Never \/ t = Longest THEN t ELSE t + 1
DkimTick ==
  /\ installed' = Later(installed) /\ published' = Later(published)
  /\ switched' = Later(switched) /\ revocationSeen' = Later(revocationSeen)
  /\ inDns' = [k \in DkimKeys |-> Later(inDns[k])]
  /\ UNCHANGED <<current, rotating, staged, previous, revoked, dns, ticker, mine>>

DkimStep(p) == Retire(p) \/ Stage(p) \/ NotePublication(p) \/ Activate(p)

DkimNext ==
  \/ \E p \in Tickers : DkimStep(p)
  \/ \E k \in DkimKeys : Publish(k)
  \/ SetRotation \/ DkimTick

\* Every process ticks on, time passes, the operator publishes what is listed.
DkimFairness ==
  /\ \A p \in Tickers : WF_rotation(DkimStep(p))
  /\ \A k \in DkimKeys : WF_rotation(Publish(k))
  /\ WF_rotation(DkimTick)

DkimSpec == DkimInit /\ [][DkimNext]_rotation /\ DkimFairness

-----------------------------------------------------------------------------
(* Properties *)

\* The key that signs always resolves, and when it begins to sign it has resolved
\* for a TTL, so no receiver remembers that it was missing (Activate: "one
\* staged TTL has elapsed").
SigningKeyResolves == dns[current] = "key" /\ (installed = 0 => inDns[current] >= TTL)

\* Mail the previous key signed still verifies for a TTL after the switch,
\* whatever process retires it (Activate: "so a slow lookup cannot consume the
\* retention overlap").
OldMailVerifies == previous # NoKey /\ switched < TTL => dns[previous] = "key"

\* Mail verifies, whichever key signed it and whenever it is looked up.
MailVerifies == SigningKeyResolves /\ OldMailVerifies

\* While the interval stays set, a key that is due is replaced, again and again.
KeepsRotating == (<>[]rotating) => []<>(installed = 0)
=============================================================================
