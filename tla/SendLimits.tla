----------------------------- MODULE SendLimits -----------------------------
(***************************************************************************)
(* The layered send limits: what a submission may still send by the limits *)
(* of the submitting account, of the accounts that own it, of the identity *)
(* it is sent as, of their domains and of the server, per hour and per day,*)
(* counted in messages and in recipients.  Zero is unlimited.              *)
(*                                                                         *)
(* Every operation is one transaction under one advisory lock, so it is    *)
(* one step, whatever process or protocol the submission came through.     *)
(***************************************************************************)
EXTENDS Integers, FiniteSets, FiniteSetsExt

CONSTANTS
  Accounts,       \* mailboxes
  NoAccount,      \* not an account
  OwnerAccount,          \* Owner[a]: the account that owns a, NoAccount at the top
  MailDomains,    \* hosted domains
  DomainOf,       \* DomainOf[a]: the domain of account a
  Server,         \* the scope of the whole server, "*" in the code
  AccountDefault, \* the limits of an account that nothing was set for
  Ceilings,       \* Ceilings[s]: the limits of a domain or of the server
  PerMinute,      \* messages per minute of an account, 0 without that limit
  LimitValues,    \* the limits a person sets
  Sizes           \* how many recipients a submission has

Dims == {"messages_per_hour", "messages_per_day", "recipients_per_hour", "recipients_per_day"}
Hourly == {"messages_per_hour", "recipients_per_hour"}
Limits == [Dims -> Nat]

ASSUME AccountAssumption ==
  /\ NoAccount \notin Accounts
  /\ OwnerAccount \in [Accounts -> Accounts \union {NoAccount}]
  /\ DomainOf \in [Accounts -> MailDomains]
  /\ (Accounts \union {NoAccount}) \intersect (MailDomains \union {Server}) = {}
  /\ Server \notin MailDomains
ASSUME SendLimitAssumption ==
  /\ AccountDefault \in Limits
  /\ Ceilings \in [MailDomains \union {Server} -> Limits]
  /\ PerMinute \in Nat
  /\ LimitValues \subseteq Limits
  /\ Sizes \subseteq Nat \ {0}

Scopes == Accounts \union MailDomains \union {Server}

\* accountLayers: the account and everything above it in its chain of owners.
Chain(a) ==
  {b \in Accounts : \A S \in SUBSET Accounts :
     a \in S /\ (\A c \in S : OwnerAccount[c] # NoAccount => OwnerAccount[c] \in S) => b \in S}

\* accountLayers refuses a chain that is a circle.
ASSUME ForestAssumption == \A a \in Accounts : \E b \in Chain(a) : OwnerAccount[b] = NoAccount

VARIABLES
  set,          \* the accounts that have a row in send_limit_policies
  policy,       \* and the limits in it
  active,       \* mailboxes.active
  used,         \* send_limit_counters of this hour and this day
  minute,       \* and of this minute
  noticed,      \* owners who got a notice this hour
  released      \* history: was the last submission a person's release?

limitVars == <<set, policy, active, used, minute, noticed, released>>

NothingUsed == [d \in Dims |-> 0]

SendLimitsTypeOK ==
  /\ set \in SUBSET Accounts
  /\ policy \in [Accounts -> Limits]
  /\ active \in [Accounts -> BOOLEAN]
  /\ used \in [Scopes -> Limits]
  /\ minute \in [Accounts -> Nat]
  /\ noticed \in SUBSET (Accounts \union {NoAccount})
  /\ released \in BOOLEAN

SendLimitsInit ==
  /\ set = {}
  /\ policy = [a \in Accounts |-> AccountDefault]
  /\ active = [a \in Accounts |-> TRUE]
  /\ used = [s \in Scopes |-> NothingUsed]
  /\ minute = [a \in Accounts |-> 0]
  /\ noticed = {}
  /\ released = FALSE

-----------------------------------------------------------------------------
(* limits.go *)

\* Mutation of Inherit: an unlimited override escapes the parent's ceiling.
InheritLoosely(parent, override) ==
  [d \in Dims |-> IF parent[d] > 0 /\ override[d] > parent[d] THEN parent[d] ELSE override[d]]

\* Inherit: the parent's live ceiling applies even to a higher override.
Inherit(parent, override) ==
  [d \in Dims |-> IF parent[d] > 0 /\ (override[d] = 0 \/ override[d] > parent[d])
                  THEN parent[d] ELSE override[d]]

Within(parent, child) ==
  \A d \in Dims : parent[d] > 0 => child[d] # 0 /\ child[d] <= parent[d]

Added(n) == [d \in Dims |-> IF d \in {"messages_per_hour", "messages_per_day"} THEN 1 ELSE n]

\* Exceeded, with the subtraction on the limit's side as in the code.
Exceeded(limits, s, n) ==
  \E d \in Dims : limits[d] > 0 /\ (Added(n)[d] > limits[d] \/ used[s][d] > limits[d] - Added(n)[d])

-----------------------------------------------------------------------------
(* service.go *)

\* EffectiveAccount: from the top of the chain down, each layer's own limits
\* under what it inherits.
Effective[a \in Accounts] ==
  IF OwnerAccount[a] = NoAccount
  THEN IF a \in set THEN policy[a] ELSE AccountDefault
  ELSE IF a \in set THEN Inherit(Effective[OwnerAccount[a]], policy[a]) ELSE Effective[OwnerAccount[a]]

Usable(a) == \A b \in Chain(a) : active[b]

\* SetAccount: an owned account's limits stay within its owner's.
SetAccount(a, v) ==
  /\ OwnerAccount[a] # NoAccount => Usable(OwnerAccount[a]) /\ Within(Effective[OwnerAccount[a]], v)
  /\ set' = set \union {a}
  /\ policy' = [policy EXCEPT ![a] = v]
  /\ UNCHANGED <<active, used, minute, noticed, released>>

\* The layers of a submission by account a in the name of sender s and header
\* sender h, each scope once however many chains it is on.
AccountLayers(a, s, h) == Chain(a) \union Chain(s) \union Chain(h)
CeilingLayers(a, s, h) == {DomainOf[a], DomainOf[s], DomainOf[h], Server}

\* Mutation of Full: a release passes every layer by.
FullUnlessReleased(a, s, h, n, bypass) ==
  {l \in AccountLayers(a, s, h) : ~bypass /\ Exceeded(Effective[l], l, n)}
    \union {l \in CeilingLayers(a, s, h) : ~bypass /\ Exceeded(Ceilings[l], l, n)}

\* Reserve, up to the decision: the layers without room.  A person's release
\* passes the account layers by.
Full(a, s, h, n, bypass) ==
  {l \in AccountLayers(a, s, h) : ~bypass /\ Exceeded(Effective[l], l, n)}
    \union {l \in CeilingLayers(a, s, h) : Exceeded(Ceilings[l], l, n)}

MinuteSpent(a, bypass) == PerMinute > 0 /\ ~bypass /\ minute[a] >= PerMinute

Accepted(a, s, h) == Usable(a) /\ Usable(s) /\ Usable(h)

Charged(a, s, h) == AccountLayers(a, s, h) \union CeilingLayers(a, s, h)

\* Reserve: every layer has room, and all of them are charged together.
Reserve(a, s, h, n, bypass) ==
  /\ Accepted(a, s, h)
  /\ Full(a, s, h, n, bypass) = {}
  /\ ~MinuteSpent(a, bypass)
  /\ used' = [l \in Scopes |-> IF l \in Charged(a, s, h)
                               THEN [d \in Dims |-> used[l][d] + Added(n)[d]]
                               ELSE used[l]]
  /\ minute' = [minute EXCEPT ![a] = IF PerMinute > 0 /\ ~bypass THEN @ + 1 ELSE @]
  /\ released' = bypass
  /\ UNCHANGED <<set, policy, active, noticed>>

\* The owner notified of a hit in layer l: of the account whose layer it is,
\* else of the submitting account.
OwnerOf(a) == IF OwnerAccount[a] = NoAccount THEN a ELSE OwnerAccount[a]
NotifiedOf(l, a) == IF l \in Accounts THEN OwnerOf(l) ELSE OwnerOf(a)

\* Reserve: a layer is full, the minute is spent or the pipeline defers.
\* Nothing is charged; the owner gets a notice, one an hour.
Hit(a, s, h, n, bypass, forced) ==
  /\ Accepted(a, s, h)
  /\ LET full == Full(a, s, h, n, bypass) IN
       \/ \E l \in full : noticed' = noticed \union {NotifiedOf(l, a)}
       \/ /\ full = {} /\ (forced \/ MinuteSpent(a, bypass))
          /\ noticed' = noticed \union {OwnerOf(a)}
  /\ UNCHANGED <<set, policy, active, used, minute, released>>

-----------------------------------------------------------------------------
(* Accounts are switched off and on, and the buckets of the clock turn *)

SetActive(a, on) ==
  /\ active[a] # on
  /\ active' = [active EXCEPT ![a] = on]
  /\ UNCHANGED <<set, policy, used, minute, noticed, released>>

NextMinute ==
  /\ minute' = [a \in Accounts |-> 0]
  /\ UNCHANGED <<set, policy, active, used, noticed, released>>

NextHour ==
  /\ used' = [s \in Scopes |-> [d \in Dims |-> IF d \in Hourly THEN 0 ELSE used[s][d]]]
  /\ minute' = [a \in Accounts |-> 0]
  /\ noticed' = {}
  /\ UNCHANGED <<set, policy, active, released>>

NextDay ==
  /\ used' = [s \in Scopes |-> NothingUsed]
  /\ minute' = [a \in Accounts |-> 0]
  /\ noticed' = {}
  /\ UNCHANGED <<set, policy, active, released>>

Submit(a, s, h) ==
  \E n \in Sizes, bypass \in BOOLEAN :
    \/ Reserve(a, s, h, n, bypass)
    \/ \E forced \in BOOLEAN : Hit(a, s, h, n, bypass, forced)

SendLimitsNext ==
  \/ \E a, s, h \in Accounts : Submit(a, s, h)
  \/ \E a \in Accounts : \/ \E v \in LimitValues : SetAccount(a, v)
                         \/ \E on \in BOOLEAN : SetActive(a, on)
  \/ NextMinute \/ NextHour \/ NextDay

SendLimitsSpec == SendLimitsInit /\ [][SendLimitsNext]_limitVars

-----------------------------------------------------------------------------
(* Properties *)

\* Reserve: no domain and not the server sends more than its ceiling in an
\* hour or a day, by whatever chains, senders and releases; and what an account
\* sends is charged to the account that owns it and to the server, so that owned
\* accounts cannot add to a budget.
CeilingsHold ==
  /\ \A s \in MailDomains \union {Server}, d \in Dims :
       Ceilings[s][d] > 0 => used[s][d] <= Ceilings[s][d]
  /\ \A a \in Accounts, d \in Dims :
       /\ OwnerAccount[a] # NoAccount => used[a][d] <= used[OwnerAccount[a]][d]
       /\ used[a][d] <= used[Server][d]

\* The tightest positive limit set on the way from the top down to a, the
\* default standing in for a top that has none; 0 when there is none.
Tightest(a, d) ==
  LET given == {policy[b][d] : b \in Chain(a) \intersect set}
                 \union {AccountDefault[d] : b \in {c \in Chain(a) \ set : OwnerAccount[c] = NoAccount}}
      capped == {v \in given : v > 0}
  IN  IF capped = {} THEN 0 ELSE Min(capped)

\* accountLayers, Inherit, Reserve: however limits were set, lowered and raised
\* along a chain, the limit in force is the tightest one on it, and unless a
\* person releases it no submission takes any account over it.
LimitsHold ==
  [][/\ \A a \in Accounts, d \in Dims : Effective[a][d] = Tightest(a, d)
     /\ \A a \in Accounts :
          used'[a] # used[a] /\ ~released' =>
            \A d \in Dims : \/ used'[a][d] <= used[a][d]
                            \/ Tightest(a, d) = 0
                            \/ used'[a][d] <= Tightest(a, d)]_limitVars
=============================================================================
