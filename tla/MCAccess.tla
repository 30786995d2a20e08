------------------------------ MODULE MCAccess ------------------------------
(* Who may do what, and the record of it, with their constants chosen for    *)
(* TLC: sessions, grants and the audit log.  The parts share no state, so a  *)
(* behaviour is of one of them: part says of which, and the others stand     *)
(* still in one initial state.                                               *)
EXTENDS AuthSessions, Grants, AuditLog, TLC

CONSTANTS ann, bob, bot, cat, annBox, bobBox, botBox, catBox, example, t1, t2, t3, c1, c2, x1, x2

VARIABLE part

\* Two superadmins, an account one of them owns and may be granted to, and a user who
\* may link that superadmin's account and then reaches what it owns.
MCOwnerOf == (ann :> NoHolder) @@ (bob :> NoHolder) @@ (bot :> bob) @@ (cat :> NoHolder)
MCOwnBox == (ann :> annBox) @@ (bob :> bobBox) @@ (bot :> botBox) @@ (cat :> catBox)
MCDomainOf == [b \in Boxes |-> example]
MCCaps == {"mailbox:session", "admin:session", "users:write", "mail:read"}
MCOwnCaps == {"mailbox:session", "mail:read"}
MCCapsOf == [super |-> {Wildcard}, admin |-> {"admin:session", "users:write"}, owner |-> MCOwnCaps]
MCGrant(who, role, scope) == [holder |-> who, role |-> role, scope |-> scope]
MCSupers == {MCGrant(ann, "super", All), MCGrant(bob, "super", All)}
MCOwners == {MCGrant(bob, "owner", botBox), MCGrant(cat, "owner", bobBox), MCGrant(ann, "owner", botBox)}
MCFirstGrants == MCSupers \union {MCGrant(bob, "owner", botBox)}
MCGrantKeys == MCSupers \union MCOwners \union {MCGrant(bot, "admin", example)}

access == <<sessionVars, grantVars, auditVars, part>>

AccessInit ==
  /\ SessionInit /\ GrantInit /\ AuditInit
  /\ part \in {"sessions", "grants", "owners", "audit"}
  /\ \A k \in MCFirstGrants \ {MCGrant(bob, "super", All)} : mode[k] = "active"
  /\ part # "grants" => \A k \in GrantKeys : mode[k] # "eligible"

\* A behaviour is about changes, of these kinds, to some of the grants, asked for by
\* some of the accounts.
About(keys, asking, kinds) ==
  /\ \A k \in GrantKeys \ keys : mode'[k] = mode[k]
  /\ \A x \in Changes : /\ change'[x].key \in keys \union {NoGrant}
                        /\ change'[x].who \in asking \union {NoHolder}
                        /\ change'[x].kind \in kinds \union {"none"}
  /\ \A a \in Holders \ asking : /\ a \in enabledOf' <=> a \in enabledOf
                                 /\ a \in on2fa' <=> a \in on2fa

AccessNext ==
  /\ UNCHANGED part
  /\ \/ part = "sessions" /\ SessionNext /\ UNCHANGED <<grantVars, auditVars>>
     \/ /\ part \in {"grants", "owners"} /\ GrantNext /\ UNCHANGED <<sessionVars, auditVars>>
        /\ \/ part = "grants" /\ About(GrantKeys \ MCOwners, {ann, bob}, ChangeKinds)
           \/ part = "owners" /\ About(MCOwners, {bob, cat}, {"add", "remove"})
     \/ part = "audit" /\ AuditNext /\ UNCHANGED <<sessionVars, grantVars>>

AccessSpec == AccessInit /\ [][AccessNext]_access

\* Tokens, requests and changes are interchangeable.
Symmetry == Permutations(Tokens) \union Permutations(Calls) \union Permutations(Changes)
=============================================================================
