-------------------------------- MODULE Grants --------------------------------
(***************************************************************************)
(* Changes of grants.  A change asked for by an administrator or by the    *)
(* grant's holder runs in a transaction that takes one advisory lock       *)
(* before it reads what it depends on, and its reads see what is committed *)
(* at that moment: whether the granter holds what it grants, whether a     *)
(* superadmin remains, whether an eligible grant is switched on.           *)
(*                                                                         *)
(* Outside the lock an account that creates or links another is granted    *)
(* the owner role on it, accounts are disabled, authenticators removed,    *)
(* and the time of activations and of the grants themselves runs out.      *)
(*                                                                         *)
(* A grant is known by its holder, role and scope, which are unique.  An   *)
(* account that is created is one of Holders nobody has used yet.          *)
(***************************************************************************)
EXTENDS HeldGrants

CONSTANTS
  Holders,      \* accounts
  NoHolder,
  OwnerOf,      \* the account that owns one, if one does
  OwnBox,       \* an account's own mailbox
  OwnCaps,      \* what every active account holds on its own mailbox
  CapsOf,       \* the capabilities of each role
  OwnerRole,    \* the role of who creates or links an account
  GrantKeys,    \* the grants that may be made: holder, role, scope
  NoGrant,
  FirstGrants,  \* the grants there are at the start
  Changes,      \* transactions that change grants
  NoChange,
  ServerCaps,   \* the server's ceiling
  MaxOwnerDepth,
  MaxChanges, MaxUnlocked       \* bounds: changes, and events outside the lock

ASSUME GrantAssumption ==
  /\ NoHolder \notin Holders /\ OwnerOf \in [Holders -> Holders \union {NoHolder}]
  /\ OwnBox \in [Holders -> Boxes] /\ OwnCaps \subseteq Caps /\ ServerCaps \subseteq Caps
  /\ CapsOf \in [DOMAIN CapsOf -> SUBSET (Caps \union {Wildcard})]
  /\ OwnerRole \in DOMAIN CapsOf
  /\ GrantKeys \subseteq [holder : Holders, role : DOMAIN CapsOf, scope : Scopes]
  /\ FirstGrants \subseteq GrantKeys /\ NoGrant \notin GrantKeys /\ NoChange \notin Changes
  /\ \E k \in FirstGrants : k.scope = All /\ Wildcard \in CapsOf[k.role]  \* EnsureFirstAdmin's
  /\ MaxOwnerDepth \in Nat /\ MaxChanges \in Nat /\ MaxUnlocked \in Nat

VARIABLES
  mode,         \* of each grant: none, active or eligible
  switch,       \* of each grant: off, on, or ran out without anyone having noticed
  expiry,       \* of each grant: it never expires, it will, or it has
  begun, ended, \* how many activations of a grant the audit log says began and ended
  on2fa,        \* the accounts with an authenticator
  enabledOf,    \* the accounts that are active
  lock,         \* the change that holds the lock
  change,       \* what each transaction does
  changes, unlocked

grantVars ==
  <<mode, switch, expiry, begun, ended, on2fa, enabledOf, lock, change, changes, unlocked>>

rows == <<mode, switch, expiry, begun, ended>>
accounts == <<on2fa, enabledOf>>

IdleChange == [at |-> "idle", kind |-> "none", who |-> NoHolder, key |-> NoGrant, seen |-> {}]

ChangeKinds == {"none", "add", "addEligible", "remove", "activate", "deactivate", "makeEligible", "sweep"}

GrantTypeOK ==
  /\ mode \in [GrantKeys -> {"none", "active", "eligible"}]
  /\ switch \in [GrantKeys -> {"off", "on", "expired"}]
  /\ expiry \in [GrantKeys -> {"never", "later", "past"}]
  /\ begun \in [GrantKeys -> Nat] /\ ended \in [GrantKeys -> Nat]
  /\ on2fa \in SUBSET Holders /\ enabledOf \in SUBSET Holders
  /\ lock \in Changes \union {NoChange}
  /\ change \in [Changes -> [at : {"idle", "asked", "locked", "approved"}, kind : ChangeKinds,
                             who : Holders \union {NoHolder}, key : GrantKeys \union {NoGrant},
                             seen : SUBSET GrantKeys]]
  /\ changes \in Nat /\ unlocked \in Nat

GrantInit ==
  /\ mode \in [GrantKeys -> {"none", "active", "eligible"}]
  /\ \A k \in GrantKeys : mode[k] = "none" <=> k \notin FirstGrants
  /\ switch = [k \in GrantKeys |-> "off"]
  /\ expiry = [k \in GrantKeys |-> "never"]
  /\ begun = [k \in GrantKeys |-> 0] /\ ended = [k \in GrantKeys |-> 0]
  /\ on2fa = Holders /\ enabledOf = Holders
  /\ lock = NoChange
  /\ change = [x \in Changes |-> IdleChange]
  /\ changes = 0 /\ unlocked = 0

-----------------------------------------------------------------------------
InForce(k) ==
  /\ expiry[k] # "past"
  /\ mode[k] = "active" \/ (mode[k] = "eligible" /\ switch[k] = "on")

\* Among the grants G, account h has the owner role on account c.
Owns(G, h, c) == \E g \in G : g.holder = h /\ g.role = OwnerRole /\ g.scope = OwnBox[c]

\* ownedBelow, by the grants G and over the accounts A: the accounts that h owns
\* and has the owner role on, and those below them in turn, to a depth.  Each level
\* keeps the capabilities of the owner role, or none.
Below(G, A) ==
  LET below[n \in 0 .. MaxOwnerDepth] ==
        [h \in Holders |->
          IF n = 0 \/ h \notin A THEN {}
          ELSE LET kept == {c \in A : OwnerOf[c] = h /\ Owns(G, h, c)}
               IN  kept \union UNION {below[n - 1][c] : c \in kept}]
  IN  below[MaxOwnerDepth]

\* The accounts below those that a has the owner role on.
Reached(G, A, a) == UNION {Below(G, A)[h] : h \in {b \in A : Owns(G, a, b)}}

\* The entries an account has by its own grants, on its own mailbox, and on those
\* of accounts that an account it has the owner role on owns.
OwnEntries(a) ==
  LET G == {g \in GrantKeys : InForce(g)} IN
  (UNION {[scope : {k.scope}, cap : CapsOf[k.role]] : k \in {g \in G : g.holder = a}})
    \union (IF a \in enabledOf THEN [scope : {OwnBox[a]}, cap : OwnCaps] ELSE {})
    \union [scope : {OwnBox[c] : c \in Reached(G, enabledOf, a)}, cap : CapsOf[OwnerRole]]

\* OwnerCounts of an owner who is disabled.
OwnerCountsAlways(a) == TRUE

\* An inactive owner bounds nothing: its accounts hold nothing.
OwnerCounts(a) == OwnerOf[a] \in enabledOf

\* loadBounded: an owned account holds what its owner holds too, to a depth; a
\* loop of owners ends at the depth, and then holds nothing either.
LoadTo[n \in 0 .. MaxOwnerDepth] ==
  [a \in Holders |->
    IF n = 0 THEN {}
    ELSE IF a \notin enabledOf \/ OwnerOf[a] = NoHolder THEN OwnEntries(a)
    ELSE IF ~OwnerCounts(a) THEN {}
    ELSE Within(OwnEntries(a), LoadTo[n - 1][OwnerOf[a]])]

Load(a) == WithinServer(LoadTo[MaxOwnerDepth][a], ServerCaps)

IsSuper(k) == k.scope = All /\ Wildcard \in CapsOf[k.role]

\* What Remove counts, and wasSuperadmin asks: a superadmin's grant its holder can
\* use, now or after switching it on.
Usable(k) ==
  /\ IsSuper(k) /\ k.holder \in enabledOf /\ expiry[k] # "past"
  /\ mode[k] = "active" \/ (mode[k] = "eligible" /\ k.holder \in on2fa)

-----------------------------------------------------------------------------
\* A request asks for a change; for the ones that need it, freshSecondFactor
\* looks for the authenticator before the lock is taken.
Ask(x, kind, who, k) ==
  /\ change[x].at = "idle" /\ changes < MaxChanges
  /\ kind \in {"activate", "makeEligible"} => who \in on2fa
  /\ kind \in {"activate", "deactivate", "makeEligible"} => k.holder = who
  /\ change' = [change EXCEPT ![x] = [IdleChange EXCEPT !.at = "asked", !.kind = kind, !.who = who, !.key = k]]
  /\ changes' = changes + 1
  /\ UNCHANGED <<rows, accounts, lock, unlocked>>

\* EndExpired, of a replica's sweeper or of a list: it looks first whether anything ran out.
AskSweep(x) ==
  /\ change[x].at = "idle" /\ changes < MaxChanges
  /\ \E k \in GrantKeys : switch[k] = "expired"
  /\ change' = [change EXCEPT ![x] = [IdleChange EXCEPT !.at = "asked", !.kind = "sweep"]]
  /\ changes' = changes + 1
  /\ UNCHANGED <<rows, accounts, lock, unlocked>>

\* LockFree without the advisory lock.
LockFreeNever(x) == TRUE

\* The advisory lock is free, and the transaction holds it until it ends.
LockFree(x) == lock = NoChange

Lock(x) ==
  /\ change[x].at = "asked" /\ LockFree(x)
  /\ lock' = x
  /\ change' = [change EXCEPT ![x].at = "locked"]
  /\ UNCHANGED <<rows, accounts, changes, unlocked>>

\* The transaction ends, with or without its change.
End(x) ==
  /\ lock' = NoChange
  /\ change' = [change EXCEPT ![x] = IdleChange]

Refuse(x) == End(x) /\ UNCHANGED <<rows, accounts, changes, unlocked>>

\* What Authorize and Remove ask before the change is written.
Approves(x) ==
  LET k == change[x].key IN
  /\ CanGrant(Load(change[x].who), CapsOf[k.role], k.scope)
  /\ change[x].kind = "remove" =>
       mode[k] # "none" /\ (Usable(k) => \E o \in GrantKeys \ {k} : Usable(o))

Approve(x) ==
  /\ change[x].at = "locked" /\ change[x].kind \in {"add", "addEligible", "remove"}
  /\ \/ /\ Approves(x)
        /\ change' = [change EXCEPT ![x].at = "approved"]
        /\ UNCHANGED <<rows, accounts, lock, changes, unlocked>>
     \/ ~Approves(x) /\ Refuse(x)

\* Add: the insert itself finds out whether the grant is there already.
CommitAdd(x) ==
  LET k == change[x].key IN
  /\ change[x].at = "approved" /\ change[x].kind \in {"add", "addEligible"}
  /\ \/ /\ mode[k] = "none"
        /\ mode' = [mode EXCEPT ![k] = IF change[x].kind = "add" THEN "active" ELSE "eligible"]
        /\ \E e \in {"never", "later"} : expiry' = [expiry EXCEPT ![k] = e]
        /\ End(x)
        /\ UNCHANGED <<switch, begun, ended, accounts, changes, unlocked>>
     \/ mode[k] # "none" /\ Refuse(x)

\* grantOwner, of an account a that has created account b, or linked it by proving its
\* password: Add without Lock and without Authorize.  That b is active was read before
\* the transaction, so b may have been disabled since.
GrantOwner(a, b) ==
  LET k == [holder |-> a, role |-> OwnerRole, scope |-> OwnBox[b]] IN
  /\ a # b
  /\ k \in GrantKeys /\ mode[k] = "none" /\ changes < MaxChanges
  /\ mode' = [mode EXCEPT ![k] = "active"]
  /\ changes' = changes + 1
  /\ UNCHANGED <<switch, expiry, begun, ended, accounts, lock, change, unlocked>>

\* Remove: an activation that is still on ends with its grant; one that ran out
\* unnoticed goes without an entry.
CommitRemove(x) ==
  LET k == change[x].key IN
  /\ change[x].at = "approved" /\ change[x].kind = "remove"
  /\ mode' = [mode EXCEPT ![k] = "none"]
  /\ switch' = [switch EXCEPT ![k] = "off"]
  /\ expiry' = [expiry EXCEPT ![k] = "never"]
  /\ ended' = [ended EXCEPT ![k] = IF switch[k] = "on" THEN @ + 1 ELSE @]
  /\ End(x)
  /\ UNCHANGED <<begun, accounts, changes, unlocked>>

\* endExpired's entries.
Noticed(k) == IF switch[k] = "expired" THEN ended[k] + 1 ELSE ended[k]

Activate(x) ==
  LET k == change[x].key IN
  /\ change[x].at = "locked" /\ change[x].kind = "activate"
  /\ \/ /\ mode[k] = "eligible" /\ switch[k] # "on" /\ expiry[k] # "past"
        /\ switch' = [switch EXCEPT ![k] = "on"]
        /\ ended' = [ended EXCEPT ![k] = Noticed(k)]
        /\ begun' = [begun EXCEPT ![k] = @ + 1]
        /\ End(x)
        /\ UNCHANGED <<mode, expiry, accounts, changes, unlocked>>
     \/ ~(mode[k] = "eligible" /\ switch[k] # "on" /\ expiry[k] # "past") /\ Refuse(x)

\* Deactivate: of a grant that is not on it answers an error, and the entries of
\* one that ran out are undone with the transaction.
Deactivate(x) ==
  LET k == change[x].key IN
  /\ change[x].at = "locked" /\ change[x].kind = "deactivate"
  /\ \/ /\ mode[k] # "none" /\ switch[k] = "on"
        /\ switch' = [switch EXCEPT ![k] = "off"]
        /\ ended' = [ended EXCEPT ![k] = @ + 1]
        /\ End(x)
        /\ UNCHANGED <<mode, expiry, begun, accounts, changes, unlocked>>
     \/ ~(mode[k] # "none" /\ switch[k] = "on") /\ Refuse(x)

MakeEligible(x) ==
  LET k == change[x].key IN
  /\ change[x].at = "locked" /\ change[x].kind = "makeEligible"
  /\ \/ /\ mode[k] = "active"
        /\ mode' = [mode EXCEPT ![k] = "eligible"]
        /\ End(x)
        /\ UNCHANGED <<switch, expiry, begun, ended, accounts, changes, unlocked>>
     \/ mode[k] # "active" /\ Refuse(x)

\* endExpired, for every grant: those that have run out and have no end yet are
\* read, and each is given its end.
FindExpired(x) ==
  /\ change[x].at = "locked" /\ change[x].kind = "sweep"
  /\ change' = [change EXCEPT ![x].at = "approved", ![x].seen = {k \in GrantKeys : switch[k] = "expired"}]
  /\ UNCHANGED <<rows, accounts, lock, changes, unlocked>>

CommitSweep(x) ==
  LET seen == change[x].seen IN
  /\ change[x].at = "approved" /\ change[x].kind = "sweep"
  /\ ended' = [k \in GrantKeys |-> IF k \in seen THEN ended[k] + 1 ELSE ended[k]]
  /\ switch' = [k \in GrantKeys |-> IF k \in seen THEN "off" ELSE switch[k]]
  /\ End(x)
  /\ UNCHANGED <<mode, expiry, begun, accounts, changes, unlocked>>

-----------------------------------------------------------------------------
\* What else happens without the lock: an activation's time runs out, an account is
\* disabled or enabled, an authenticator is removed or enrolled.
RunsOut(k) ==
  /\ switch[k] = "on"
  /\ switch' = [switch EXCEPT ![k] = "expired"]
  /\ UNCHANGED <<mode, expiry, begun, ended, accounts, lock, change, changes, unlocked>>

\* A grant's own time runs out, and with it that of its activation.
Lapses(k) ==
  /\ expiry[k] = "later"
  /\ expiry' = [expiry EXCEPT ![k] = "past"]
  /\ switch' = [switch EXCEPT ![k] = IF @ = "on" THEN "expired" ELSE @]
  /\ UNCHANGED <<mode, begun, ended, accounts, lock, change, changes, unlocked>>

Unlocked ==
  /\ unlocked < MaxUnlocked /\ unlocked' = unlocked + 1
  /\ \/ \E a \in Holders : enabledOf' \in {enabledOf \ {a}, enabledOf \union {a}} /\ UNCHANGED on2fa
     \/ \E a \in Holders : on2fa' \in {on2fa \ {a}, on2fa \union {a}} /\ UNCHANGED enabledOf
  /\ UNCHANGED <<rows, lock, change, changes>>

GrantNext ==
  \/ \E x \in Changes :
       \/ \E k \in GrantKeys, who \in Holders, kind \in ChangeKinds \ {"none", "sweep"} : Ask(x, kind, who, k)
       \/ AskSweep(x) \/ Lock(x) \/ Approve(x) \/ CommitAdd(x) \/ CommitRemove(x)
       \/ Activate(x) \/ Deactivate(x) \/ MakeEligible(x)
       \/ FindExpired(x) \/ CommitSweep(x)
  \/ \E a, b \in Holders : GrantOwner(a, b)
  \/ \E k \in GrantKeys : RunsOut(k) \/ Lapses(k)
  \/ Unlocked

GrantSpec == GrantInit /\ [][GrantNext]_grantVars

-----------------------------------------------------------------------------
(* Removals leave somebody who can grant: as long as no account has been   *)
(* disabled, no authenticator removed and no superadmin's grant has run    *)
(* out, which the lock does not order, an active account has a grant of    *)
(* every capability everywhere, in force or to be switched on, however the *)
(* removals and escalations of several superadmins overlap (Remove,        *)
(* wasSuperadmin, MakeEligible, Lock).                                     *)
SuperadminRemains ==
  unlocked = 0 /\ (\A k \in GrantKeys : IsSuper(k) => expiry[k] # "past")
    => \E k \in GrantKeys : Usable(k)

\* An account has each capability of a grant at a scope that covers it: on its own
\* mailbox, by a grant of its own, or by the owner role it has on an account above.
HasToGive(who, k) ==
  LET G == {g \in GrantKeys : mode[g] # "none"} IN
  \A c \in CapsOf[k.role] :
    \/ c \in OwnCaps /\ k.scope = OwnBox[who]
    \/ \E g \in G : /\ g.holder = who /\ Covers(g.scope, k.scope)
                    /\ {c, Wildcard} \intersect CapsOf[g.role] # {}
    \/ /\ {c, Wildcard} \intersect CapsOf[OwnerRole] # {}
       /\ \E d \in Reached(G, Holders, who) : k.scope = OwnBox[d]

(* Nobody grants what was taken from them while they asked: when a grant   *)
(* that was asked for is written, its granter still has the grants that    *)
(* cover it (Authorize under Lock).  A grant that nobody asked for is the  *)
(* owner role on an account, to another one (grantOwner).                  *)
GrantedWithinHeld ==
  [][\A k \in GrantKeys : mode[k] = "none" /\ mode'[k] # "none" =>
       \/ \E x \in Changes : /\ change[x].at = "approved" /\ change[x].key = k
                             /\ change'[x] # change[x] /\ HasToGive(change[x].who, k)
       \/ /\ change' = change /\ k.role = OwnerRole
          /\ \E b \in Holders \ {k.holder} : k.scope = OwnBox[b]]_grantVars

(* The audit log says of no activation twice that it ended: not when the   *)
(* sweepers of two replicas, a new activation and a deactivation notice    *)
(* the same one (endExpired, Activate, Deactivate, Remove).                *)
EndRecordedOnce ==
  \A k \in GrantKeys : ended[k] + (IF switch[k] # "off" THEN 1 ELSE 0) <= begun[k]

(* An owned account never holds what its owner was not granted: not a      *)
(* wildcard, not a scope wider than its owner's, and nothing while its     *)
(* owner is disabled (loadBounded, Within).  The owner's grants count      *)
(* before withinSessions: with a session at a narrower scope only, the     *)
(* owner itself does not reach all of them.                                *)
OwnedIsBounded ==
  \A a \in enabledOf : OwnerOf[a] # NoHolder =>
    LET mine == Load(a)
        theirs == LoadTo[MaxOwnerDepth][OwnerOf[a]]
    IN  /\ OwnerOf[a] \notin enabledOf => mine = {}
        /\ \A e \in mine : \A s \in Scopes : Covers(e.scope, s) => Allows(theirs, e.cap, s)

(* What changes leave behind, however they overlap.                        *)
GrantsHold == SuperadminRemains /\ EndRecordedOnce /\ OwnedIsBounded
=============================================================================
