----------------------------- MODULE AuthSessions -----------------------------
(***************************************************************************)
(* The sessions of one account.  A session is an access token, checked at  *)
(* every request against the account's credential epoch, and a refresh     *)
(* token, a row of the rotation ledger that is exchanged once for the next *)
(* pair.  Ending the sessions moves the epoch on and revokes the active    *)
(* rows in one transaction, and then makes this process's cache of the     *)
(* account forget what it read.  Logins, refreshes, checks and ends of     *)
(* concurrent requests interleave between their database steps.            *)
(*                                                                         *)
(* What a check reads of an account is its standing: the epoch while the   *)
(* account is active, Gone while it is disabled or deleted.  (The deadline *)
(* of a bootstrap account's password, which ends it likewise, is left out.) *)
(***************************************************************************)
EXTENDS Integers, FiniteSets

CONSTANTS
  Tokens,       \* refresh tokens, by jti
  NoToken,      \* no refresh token
  Calls,        \* requests running at once
  MaxEnds,      \* bound: how often the sessions are ended
  MaxFailed     \* bound: how often a statement fails

ASSUME SessionAssumption ==
  NoToken \notin Tokens /\ MaxEnds \in Nat /\ MaxFailed \in Nat

Gone == -1          \* the standing of an account no token is good for
NotCached == -2     \* the cache holds nothing for the account

VARIABLES
  epoch, enabled,   \* the account's row
  ledger,           \* the status of each refresh token's row
  born,             \* the epoch a token was issued at
  parent,           \* the token it was issued for
  cached, gen,      \* the session cache's entry and generation
  forgotten,        \* the lowest epoch a token of the account may still have, as
                    \* of the last time the cache was told to forget
  call,             \* what each request is doing
  ends, failed

sessionVars ==
  <<epoch, enabled, ledger, born, parent, cached, gen, forgotten, call, ends, failed>>

Standing == IF enabled THEN epoch ELSE Gone

IdleCall == [at |-> "idle", token |-> NoToken, epoch |-> 0, gen |-> 0, floor |-> 0, ok |-> FALSE]

CallStages == {"idle", "rotating", "minting", "forgetting", "reading", "keeping", "answered"}

SessionTypeOK ==
  /\ epoch \in Nat /\ enabled \in BOOLEAN
  /\ ledger \in [Tokens -> {"none", "active", "rotated", "revoked"}]
  /\ born \in [Tokens -> Nat]
  /\ parent \in [Tokens -> Tokens \union {NoToken}]
  /\ cached \in Nat \union {Gone, NotCached} /\ gen \in Nat /\ forgotten \in Nat
  /\ call \in [Calls -> [at : CallStages, token : Tokens \union {NoToken}, epoch : Int,
                         gen : Nat, floor : Nat, ok : BOOLEAN]]
  /\ ends \in Nat /\ failed \in Nat

SessionInit ==
  /\ epoch = 0 /\ enabled = TRUE
  /\ ledger = [t \in Tokens |-> "none"]
  /\ born = [t \in Tokens |-> 0]
  /\ parent = [t \in Tokens |-> NoToken]
  /\ cached = NotCached /\ gen = 0 /\ forgotten = 0
  /\ call = [c \in Calls |-> IdleCall]
  /\ ends = 0 /\ failed = 0

account == <<epoch, enabled>>
issued == <<born, parent>>
cache == <<cached, gen, forgotten>>

Finish(c) == call' = [call EXCEPT ![c] = IdleCall]

\* A statement of the request fails: it answers 500 or 503 and changes nothing more.
CallFails(c) ==
  /\ call[c].at \in {"rotating", "minting", "reading"} /\ failed < MaxFailed
  /\ Finish(c)
  /\ failed' = failed + 1
  /\ UNCHANGED <<account, ledger, issued, cache, ends>>

-----------------------------------------------------------------------------
\* login, and newSession of a reset, a recovery or an invitation: the account is
\* read once, and the tokens carry the epoch read.
Login(c) ==
  /\ call[c].at = "idle" /\ enabled
  /\ call' = [call EXCEPT ![c] = [IdleCall EXCEPT !.at = "minting", !.epoch = epoch]]
  /\ UNCHANGED <<account, ledger, issued, cache, ends, failed>>

\* refresh: the account is active, and the token carries its epoch.
MayRefresh(t) == Standing = born[t]

StartRefresh(c, t) ==
  /\ call[c].at = "idle" /\ ledger[t] # "none" /\ MayRefresh(t)
  /\ call' = [call EXCEPT ![c] =
                [IdleCall EXCEPT !.at = "rotating", !.token = t, !.epoch = epoch]]
  /\ UNCHANGED <<account, ledger, issued, cache, ends, failed>>

\* RevokeAllForAccount, on the ledger.
RevokedAll == [t \in Tokens |-> IF ledger[t] = "active" THEN "revoked" ELSE ledger[t]]

\* refresh, of an account that is disabled or gone: what is left of its sessions
\* is revoked, unless that fails.
RefuseRefresh(c, t) ==
  /\ call[c].at = "idle" /\ ledger[t] # "none" /\ Standing = Gone
  /\ \/ ledger' = RevokedAll /\ UNCHANGED failed
     \/ failed < MaxFailed /\ failed' = failed + 1 /\ UNCHANGED ledger
  /\ UNCHANGED <<account, issued, cache, call, ends>>

\* Spendable without the status in the update's condition.
SpendableAny(t) == ledger[t] # "none"

\* Rotate's update finds the row: it is active.
Spendable(t) == ledger[t] = "active"

Rotate(c) ==
  LET t == call[c].token IN
  /\ call[c].at = "rotating"
  /\ \/ /\ Spendable(t)
        /\ ledger' = [ledger EXCEPT ![t] = "rotated"]
        /\ call' = [call EXCEPT ![c].at = "minting"]
     \/ /\ ~Spendable(t)
        /\ Finish(c)
        /\ UNCHANGED ledger
  /\ UNCHANGED <<account, issued, cache, ends, failed>>

\* GenerateSession, persistRefreshToken: the new pair at the epoch read before.
SaveSession(c, t) ==
  /\ call[c].at = "minting" /\ ledger[t] = "none"
  /\ ledger' = [ledger EXCEPT ![t] = "active"]
  /\ born' = [born EXCEPT ![t] = call[c].epoch]
  /\ parent' = [parent EXCEPT ![t] = call[c].token]
  /\ Finish(c)
  /\ UNCHANGED <<account, cache, ends, failed>>

\* logout: the presented token's row is revoked, whatever its status.
Logout(t) ==
  /\ ledger[t] \notin {"none", "revoked"}
  /\ ledger' = [ledger EXCEPT ![t] = "revoked"]
  /\ UNCHANGED <<account, issued, cache, call, ends, failed>>

-----------------------------------------------------------------------------
\* endSessions in the transaction of a new password, of 2FA turned off, of an
\* admin's request, of a reset (which enables the account) or of a disable; and
\* the deletion, after which no token is good, whatever its epoch.
EndSessions(c) ==
  /\ call[c].at = "idle" /\ ends < MaxEnds
  /\ enabled' \in BOOLEAN
  /\ epoch' = epoch + 1
  /\ ledger' = RevokedAll
  /\ call' = [call EXCEPT ![c] = [IdleCall EXCEPT !.at = "forgetting", !.epoch = epoch + 1]]
  /\ ends' = ends + 1
  /\ UNCHANGED <<issued, cache, failed>>

\* update, with active true: the sessions that were ended stay ended.
Enable(c) ==
  /\ call[c].at = "idle" /\ ~enabled
  /\ enabled' = TRUE
  /\ call' = [call EXCEPT ![c] = [IdleCall EXCEPT !.at = "forgetting", !.epoch = epoch]]
  /\ UNCHANGED <<epoch, ledger, issued, cache, ends, failed>>

\* RevokeAllSessions and ResetPassword, by an operator's command: another process,
\* which cannot make this one's cache forget.
EndElsewhere ==
  /\ ends < MaxEnds
  /\ epoch' = epoch + 1
  /\ ledger' = RevokedAll
  /\ ends' = ends + 1
  /\ UNCHANGED <<enabled, issued, cache, call, failed>>

\* Forget, once the transaction has committed.
Forget(c) ==
  /\ call[c].at = "forgetting"
  /\ cached' = NotCached /\ gen' = gen + 1
  /\ forgotten' = IF call[c].epoch > forgotten THEN call[c].epoch ELSE forgotten
  /\ Finish(c)
  /\ UNCHANGED <<account, ledger, issued, ends, failed>>

\* The entry's time is over.
EntryExpires ==
  /\ cached # NotCached
  /\ cached' = NotCached
  /\ UNCHANGED <<account, ledger, issued, gen, forgotten, call, ends, failed>>

-----------------------------------------------------------------------------
\* SessionCache.Current for a token issued at e, when the cache holds the account.
CheckCached(c, e) ==
  /\ call[c].at = "idle" /\ cached # NotCached
  /\ call' = [call EXCEPT ![c] =
                [IdleCall EXCEPT !.at = "answered", !.epoch = e, !.floor = forgotten, !.ok = (cached = e)]]
  /\ UNCHANGED <<account, ledger, issued, cache, ends, failed>>

\* When it does not: the generation is noted, and the account is read.
CheckMiss(c) ==
  /\ call[c].at = "idle" /\ cached = NotCached
  /\ call' = [call EXCEPT ![c] =
                [IdleCall EXCEPT !.at = "reading", !.gen = gen, !.floor = forgotten]]
  /\ UNCHANGED <<account, ledger, issued, cache, ends, failed>>

ReadAccount(c) ==
  /\ call[c].at = "reading"
  /\ call' = [call EXCEPT ![c].at = "keeping", ![c].epoch = Standing]
  /\ UNCHANGED <<account, ledger, issued, cache, ends, failed>>

\* MayKeep of a cache without a generation.
MayKeepAlways(c) == TRUE

\* Nothing has been forgotten since the read began.
MayKeep(c) == call[c].gen = gen

Keep(c, e) ==
  /\ call[c].at = "keeping"
  /\ cached' = IF MayKeep(c) THEN call[c].epoch ELSE cached
  /\ call' = [call EXCEPT ![c] = [IdleCall EXCEPT !.at = "answered", !.epoch = e,
                                    !.floor = call[c].floor, !.ok = (call[c].epoch = e)]]
  /\ UNCHANGED <<account, ledger, issued, gen, forgotten, ends, failed>>

Answer(c) ==
  /\ call[c].at = "answered"
  /\ Finish(c)
  /\ UNCHANGED <<account, ledger, issued, cache, ends, failed>>

-----------------------------------------------------------------------------
CallStep(c) ==
  \/ Login(c) \/ Rotate(c) \/ EndSessions(c) \/ Enable(c) \/ Forget(c)
  \/ CheckMiss(c) \/ ReadAccount(c) \/ Answer(c) \/ CallFails(c)
  \/ \E t \in Tokens : StartRefresh(c, t) \/ RefuseRefresh(c, t) \/ SaveSession(c, t)
  \/ \E e \in 0 .. epoch : CheckCached(c, e) \/ Keep(c, e)

SessionNext ==
  \/ \E c \in Calls : CallStep(c)
  \/ \E t \in Tokens : Logout(t)
  \/ EndElsewhere
  \/ EntryExpires

SessionSpec == SessionInit /\ [][SessionNext]_sessionVars

-----------------------------------------------------------------------------
(* A refresh token buys one session: of two refreshes that present it at   *)
(* once, and of any that come later, at most one mints a pair (Rotate).    *)
ExchangedOnce ==
  \A s, t \in Tokens : parent[s] = parent[t] /\ parent[s] # NoToken => s = t

(* Ended sessions do not come back: whatever ran between the statements of *)
(* a refresh, what it mints is of the epoch of the token it was given, so  *)
(* a token from before the sessions ended never leads to one from after    *)
(* (refresh, endSessions).                                                 *)
EndedMintsNothing ==
  \A t \in Tokens : parent[t] # NoToken => born[t] = born[parent[t]]

(* A check that began after the sessions were ended through this process   *)
(* refuses every token from before, also when another check's read of the  *)
(* account was under way meanwhile (SessionCache.Current, Forget).         *)
EndedIsRefused ==
  \A c \in Calls : call[c].at = "answered" /\ call[c].ok => call[c].epoch >= call[c].floor

(* What was ended stays ended, for refreshes and for requests.             *)
EndedIsEnded == EndedMintsNothing /\ EndedIsRefused
=============================================================================
