------------------------------ MODULE HeldGrants ------------------------------
(***************************************************************************)
(* What an account may do: a set of entries, each a capability at a scope. *)
(* Scopes nest along mail's hierarchy: the installation covers everything, *)
(* a domain covers itself and its mailboxes, a mailbox covers itself.      *)
(***************************************************************************)
EXTENDS FiniteSets, Integers

CONSTANTS
  Caps,         \* capabilities with a name
  Wildcard,     \* the capability that stands for every one
  Domains, Boxes, All,          \* the scopes
  DomainOf,     \* the domain of a mailbox
  SessionFree, BoxCaps, EitherCaps,     \* which session a capability is reached through
  MailboxSession, AdminSession          \* the capabilities that allow a session

Scopes == {All} \union Domains \union Boxes

ASSUME ScopeAssumption ==
  /\ All \notin Domains \union Boxes /\ Domains \intersect Boxes = {}
  /\ DomainOf \in [Boxes -> Domains]

ASSUME CapAssumption ==
  /\ Wildcard \notin Caps /\ {MailboxSession, AdminSession} \subseteq Caps
  /\ SessionFree \subseteq Caps /\ BoxCaps \subseteq Caps /\ EitherCaps \subseteq Caps

Entries == [scope : Scopes, cap : Caps \union {Wildcard}]

Covers(scope, target) ==
  \/ scope = All
  \/ scope = target
  \/ scope \in Domains /\ target \in Boxes /\ DomainOf[target] = scope

Gives(e, cap) == e.cap = Wildcard \/ e.cap = cap

Allows(held, cap, target) == \E e \in held : Gives(e, cap) /\ Covers(e.scope, target)

CanGrant(held, caps, scope) == \A c \in caps : Allows(held, c, scope)

\* The capability of both entries, if they have one in common.
CommonCap(e, c) ==
  IF e.cap = c.cap \/ c.cap = Wildcard THEN {e.cap}
  ELSE IF e.cap = Wildcard THEN {c.cap} ELSE {}

\* The narrower of two scopes, if one covers the other.
CommonScope(s, t) == IF Covers(t, s) THEN {s} ELSE IF Covers(s, t) THEN {t} ELSE {}

Common(e, c) == [scope : CommonScope(e.scope, c.scope), cap : CommonCap(e, c)]

\* held.Within(ceiling), in which a wildcard stands for the other side's capability.
Within(held, ceiling) == UNION {Common(p[1], p[2]) : p \in held \X ceiling}

\* The session capability an entry is reached through, none for the ones that need none.
SessionOf(held, e) ==
  IF e.cap \in SessionFree \union {MailboxSession, AdminSession} THEN {}
  ELSE IF e.cap \in EitherCaps
       THEN {IF Allows(held, AdminSession, e.scope) THEN AdminSession ELSE MailboxSession}
  ELSE IF e.cap \in BoxCaps THEN {MailboxSession} ELSE {AdminSession}

WithinSessions(held) ==
  {e \in held : \A s \in SessionOf(held, e) : Allows(held, s, e.scope)}

\* withinServer: everyone but a superadmin is bounded by the server's ceiling.
WithinServer(held, ceiling) ==
  IF Allows(held, Wildcard, All) THEN held
  ELSE WithinSessions(Within(held, [scope : {All}, cap : ceiling]))

\* IntersectScopes.
IntersectScopes(a, b) == UNION {CommonScope(p[1], p[2]) : p \in a \X b}
=============================================================================
