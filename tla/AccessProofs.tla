---------------------------- MODULE AccessProofs ----------------------------
(***************************************************************************)
(* Who may do what, and the record of it, for any number of requests that run*)
(* at once: a refresh token buys one session and ended sessions stay ended;*)
(* a superadmin remains, nobody grants what they have lost, and an owned   *)
(* account is bounded by its owner; the audit log is one chain, the anchors*)
(* prove it, and no change waits for one longer than an hour.              *)
(***************************************************************************)
EXTENDS AuthSessions, Grants, AuditLog, SumTheorems

-----------------------------------------------------------------------------
(* Sessions *)

\* The records that say what a request is doing.
CallSet ==
  [at : CallStages, token : Tokens \union {NoToken}, epoch : Int, gen : Nat, floor : Nat,
   ok : BOOLEAN]

\* Doing(at, token, epoch, gen, floor, ok) is one of them.
Doing(at, token, ep, g, floor, ok) ==
  [at |-> at, token |-> token, epoch |-> ep, gen |-> g, floor |-> floor, ok |-> ok]

\* A token that was exchanged has been spent, and a row that is not there has
\* neither parent nor child.
SpentIsSpent ==
  \A t \in Tokens :
    /\ ledger[t] = "none" => parent[t] = NoToken
    /\ parent[t] # NoToken => ledger[parent[t]] \in {"rotated", "revoked"}

\* A refresh works for the epoch of the token it was given, which has a row.
RefreshOfEpoch ==
  \A c \in Calls :
    /\ call[c].at = "rotating" => call[c].token # NoToken
    /\ call[c].at \in {"rotating", "minting"} =>
         /\ call[c].epoch \in Nat
         /\ call[c].token # NoToken =>
              ledger[call[c].token] # "none" /\ born[call[c].token] = call[c].epoch

\* Whoever is minting has spent its token, alone, and nothing has come of it yet.
MintsAlone ==
  \A c \in Calls :
    call[c].at = "minting" /\ call[c].token # NoToken =>
      /\ ledger[call[c].token] \in {"rotated", "revoked"}
      /\ \A t \in Tokens : parent[t] # call[c].token
      /\ \A d \in Calls \ {c} : ~(call[d].at = "minting" /\ call[d].token = call[c].token)

LedgerInv ==
  SpentIsSpent /\ RefreshOfEpoch /\ MintsAlone /\ ExchangedOnce /\ EndedMintsNothing

\* What was forgotten was an epoch of the account, and a request that makes the
\* cache forget names one.
ForgottenIsPast ==
  /\ forgotten <= epoch
  /\ \A c \in Calls : call[c].at = "forgetting" => call[c].epoch <= epoch /\ call[c].epoch >= 0

\* The cache holds nothing older than what was forgotten.
CacheIsNew == cached >= 0 => cached >= forgotten

\* A check that reads the account began at its floor, and while the generation is
\* the one it noted nothing has been forgotten since.
ReadIsNew ==
  \A c \in Calls :
    call[c].at \in {"reading", "keeping"} =>
      /\ call[c].floor <= epoch /\ call[c].gen <= gen
      /\ call[c].gen = gen => call[c].floor = forgotten
      /\ call[c].at = "keeping" => call[c].epoch >= -1 /\ (call[c].epoch >= 0 => call[c].epoch >= call[c].floor)

CacheInv == ForgottenIsPast /\ CacheIsNew /\ ReadIsNew /\ EndedIsRefused

\* A request that compared two values is told whether they are equal.
LEMMA OkSays ==
  ASSUME NEW x, NEW at, NEW token, NEW ep, NEW g, NEW floor, NEW a, NEW b,
         x = Doing(at, token, ep, g, floor, a = b), x.ok
  PROVE  a = b
  BY DEF Doing

SessionInv == SessionTypeOK /\ LedgerInv /\ CacheInv

\* There is no session at the start.
LEMMA SessionInitInv == SessionInit => SessionInv
  BY SessionAssumption DEF SessionInit, SessionInv, SessionTypeOK, CallStages,
     IdleCall, Gone,
     NotCached,
     LedgerInv, SpentIsSpent, RefreshOfEpoch, MintsAlone, ExchangedOnce,
     EndedMintsNothing,
     CacheInv, ForgottenIsPast, CacheIsNew, ReadIsNew, EndedIsRefused

\* Every step of a request keeps the invariant.
LEMMA SessionNextInv ==
  ASSUME SessionInv, [SessionNext]_sessionVars
  PROVE  SessionInv'
<1> USE SessionAssumption DEF account, issued, cache
<1>a. SessionTypeOK /\ LedgerInv /\ CacheInv
  BY DEF SessionInv
<1>b. call \in [Calls -> CallSet]
  BY <1>a DEF SessionTypeOK, CallSet
<1>c. epoch \in Nat /\ gen \in Nat /\ forgotten \in Nat /\ Standing \in Int
  BY <1>a DEF SessionTypeOK, Standing, Gone
<1>d. \A c \in Calls : /\ call[c].token \in Tokens \union {NoToken} /\ call[c].epoch \in Int
                       /\ call[c].gen \in Nat /\ call[c].floor \in Nat /\ call[c].ok \in BOOLEAN
  BY <1>b DEF CallSet
<1>1. CASE UNCHANGED sessionVars
  BY <1>1, <1>a DEF sessionVars, SessionInv, SessionTypeOK,
     LedgerInv, SpentIsSpent, RefreshOfEpoch, MintsAlone, ExchangedOnce,
     EndedMintsNothing,
     CacheInv, ForgottenIsPast, CacheIsNew, ReadIsNew, EndedIsRefused
<1>2. ASSUME NEW c \in Calls, Login(c) PROVE SessionInv'
  <2>1. call' = [call EXCEPT ![c] = call'[c]] /\ call'[c] = Doing("minting", NoToken, epoch, 0,
  0, FALSE)
    BY <1>2, <1>b DEF Login, Finish, IdleCall, Doing
  <2>2. Doing("minting", NoToken, epoch, 0, 0, FALSE) \in CallSet
    BY <1>2, <1>c, <1>d DEF Doing, CallSet, CallStages
  <2>3. call' \in [Calls -> CallSet]
    BY <2>1, <2>2, <1>b
  <2>4.
    /\ call'[c].at = "minting" /\ call'[c].token = NoToken /\ call'[c].epoch = epoch
    /\ call'[c].gen = 0 /\ call'[c].floor = 0
    /\ \A d \in Calls \ {c} : call'[d] = call[d]
    BY <2>1, <1>b DEF Doing
  <2>5. SessionTypeOK'
    BY <1>2, <1>a, <1>c, <1>d, <2>4, <2>3 DEF Login, SessionTypeOK, CallSet, Gone,
       NotCached
  <2>6. LedgerInv'
    BY <1>2, <1>a, <1>c, <1>d, <2>4 DEF Login, SessionTypeOK, LedgerInv, SpentIsSpent,
       RefreshOfEpoch, MintsAlone, ExchangedOnce, EndedMintsNothing
  <2>7. CacheInv'
    BY <1>2, <1>a, <1>c, <1>d, <2>4 DEF Login, SessionTypeOK, Standing, Gone,
       NotCached,
       CacheInv, ForgottenIsPast, CacheIsNew, ReadIsNew, EndedIsRefused
  <2> QED
    BY <2>5, <2>6, <2>7 DEF SessionInv
<1>3. ASSUME NEW c \in Calls, EndSessions(c) PROVE SessionInv'
  <2>1. call' = [call EXCEPT ![c] = call'[c]] /\ call'[c] = Doing("forgetting", NoToken,
  epoch + 1, 0, 0, FALSE)
    BY <1>3, <1>b DEF EndSessions, Finish, IdleCall, Doing
  <2>2. Doing("forgetting", NoToken, epoch + 1, 0, 0, FALSE) \in CallSet
    BY <1>3, <1>c, <1>d DEF Doing, CallSet, CallStages
  <2>3. call' \in [Calls -> CallSet]
    BY <2>1, <2>2, <1>b
  <2>4.
    /\ call'[c].at = "forgetting" /\ call'[c].token = NoToken /\ call'[c].epoch = epoch + 1
    /\ call'[c].gen = 0 /\ call'[c].floor = 0
    /\ \A d \in Calls \ {c} : call'[d] = call[d]
    BY <2>1, <1>b DEF Doing
  <2>5. SessionTypeOK'
    BY <1>3, <1>a, <1>c, <1>d, <2>4, <2>3 DEF EndSessions, RevokedAll, SessionTypeOK,
       CallSet,
       Gone, NotCached
  <2>6. LedgerInv'
    BY <1>3, <1>a, <1>c, <1>d, <2>4 DEF EndSessions, RevokedAll, SessionTypeOK,
       LedgerInv,
       SpentIsSpent, RefreshOfEpoch, MintsAlone, ExchangedOnce, EndedMintsNothing
  <2>7. CacheInv'
    BY <1>3, <1>a, <1>c, <1>d, <2>4 DEF EndSessions, RevokedAll, SessionTypeOK,
       Standing, Gone,
       NotCached, CacheInv, ForgottenIsPast, CacheIsNew, ReadIsNew, EndedIsRefused
  <2> QED
    BY <2>5, <2>6, <2>7 DEF SessionInv
<1>4. ASSUME NEW c \in Calls, Enable(c) PROVE SessionInv'
  <2>1. call' = [call EXCEPT ![c] = call'[c]] /\ call'[c] = Doing("forgetting", NoToken, epoch,
  0, 0, FALSE)
    BY <1>4, <1>b DEF Enable, Finish, IdleCall, Doing
  <2>2. Doing("forgetting", NoToken, epoch, 0, 0, FALSE) \in CallSet
    BY <1>4, <1>c, <1>d DEF Doing, CallSet, CallStages
  <2>3. call' \in [Calls -> CallSet]
    BY <2>1, <2>2, <1>b
  <2>4.
    /\ call'[c].at = "forgetting" /\ call'[c].token = NoToken /\ call'[c].epoch = epoch
    /\ call'[c].gen = 0 /\ call'[c].floor = 0
    /\ \A d \in Calls \ {c} : call'[d] = call[d]
    BY <2>1, <1>b DEF Doing
  <2>5. SessionTypeOK'
    BY <1>4, <1>a, <1>c, <1>d, <2>4, <2>3 DEF Enable, SessionTypeOK, CallSet, Gone,
       NotCached
  <2>6. LedgerInv'
    BY <1>4, <1>a, <1>c, <1>d, <2>4 DEF Enable, SessionTypeOK, LedgerInv,
       SpentIsSpent,
       RefreshOfEpoch, MintsAlone, ExchangedOnce, EndedMintsNothing
  <2>7. CacheInv'
    BY <1>4, <1>a, <1>c, <1>d, <2>4 DEF Enable, SessionTypeOK, Standing, Gone,
       NotCached,
       CacheInv, ForgottenIsPast, CacheIsNew, ReadIsNew, EndedIsRefused
  <2> QED
    BY <2>5, <2>6, <2>7 DEF SessionInv
<1>5. ASSUME NEW c \in Calls, Forget(c) PROVE SessionInv'
  <2>1. call' = [call EXCEPT ![c] = call'[c]] /\ call'[c] = Doing("idle", NoToken, 0, 0, 0,
  FALSE)
    BY <1>5, <1>b DEF Forget, Finish, IdleCall, Doing
  <2>2. Doing("idle", NoToken, 0, 0, 0, FALSE) \in CallSet
    BY <1>5, <1>c, <1>d DEF Doing, CallSet, CallStages
  <2>3. call' \in [Calls -> CallSet]
    BY <2>1, <2>2, <1>b
  <2>4.
    /\ call'[c].at = "idle" /\ call'[c].token = NoToken /\ call'[c].epoch = 0
    /\ call'[c].gen = 0 /\ call'[c].floor = 0
    /\ \A d \in Calls \ {c} : call'[d] = call[d]
    BY <2>1, <1>b DEF Doing
  <2>5. SessionTypeOK'
    BY <1>5, <1>a, <1>c, <1>d, <2>4, <2>3 DEF Forget, SessionTypeOK, CallSet, Gone,
       NotCached
  <2>6. LedgerInv'
    BY <1>5, <1>a, <1>c, <1>d, <2>4 DEF Forget, SessionTypeOK, LedgerInv,
       SpentIsSpent,
       RefreshOfEpoch, MintsAlone, ExchangedOnce, EndedMintsNothing
  <2>7. CacheInv'
    BY <1>5, <1>a, <1>c, <1>d, <2>4 DEF Forget, SessionTypeOK, Standing, Gone,
       NotCached,
       CacheInv, ForgottenIsPast, CacheIsNew, ReadIsNew, EndedIsRefused
  <2> QED
    BY <2>5, <2>6, <2>7 DEF SessionInv
<1>6. ASSUME NEW c \in Calls, CheckMiss(c) PROVE SessionInv'
  <2>1. call' = [call EXCEPT ![c] = call'[c]] /\ call'[c] = Doing("reading", NoToken, 0, gen,
  forgotten, FALSE)
    BY <1>6, <1>b DEF CheckMiss, Finish, IdleCall, Doing
  <2>2. Doing("reading", NoToken, 0, gen, forgotten, FALSE) \in CallSet
    BY <1>6, <1>c, <1>d DEF Doing, CallSet, CallStages
  <2>3. call' \in [Calls -> CallSet]
    BY <2>1, <2>2, <1>b
  <2>4.
    /\ call'[c].at = "reading" /\ call'[c].token = NoToken /\ call'[c].epoch = 0
    /\ call'[c].gen = gen /\ call'[c].floor = forgotten
    /\ \A d \in Calls \ {c} : call'[d] = call[d]
    BY <2>1, <1>b DEF Doing
  <2>5. SessionTypeOK'
    BY <1>6, <1>a, <1>c, <1>d, <2>4, <2>3 DEF CheckMiss, SessionTypeOK, CallSet, Gone,
       NotCached
  <2>6. LedgerInv'
    BY <1>6, <1>a, <1>c, <1>d, <2>4 DEF CheckMiss, SessionTypeOK, LedgerInv,
       SpentIsSpent,
       RefreshOfEpoch, MintsAlone, ExchangedOnce, EndedMintsNothing
  <2>7. CacheInv'
    BY <1>6, <1>a, <1>c, <1>d, <2>4 DEF CheckMiss, SessionTypeOK, Standing, Gone,
       NotCached,
       CacheInv, ForgottenIsPast, CacheIsNew, ReadIsNew, EndedIsRefused
  <2> QED
    BY <2>5, <2>6, <2>7 DEF SessionInv
<1>7. ASSUME NEW c \in Calls, ReadAccount(c) PROVE SessionInv'
  <2>1. call' = [call EXCEPT ![c] = call'[c]] /\ call'[c] = Doing("keeping", call[c].token,
  Standing, call[c].gen, call[c].floor, call[c].ok)
    BY <1>7, <1>b DEF ReadAccount, Finish, IdleCall, Doing, CallSet
  <2>2. Doing("keeping", call[c].token, Standing, call[c].gen, call[c].floor,
  call[c].ok) \in CallSet
    BY <1>7, <1>c, <1>d DEF Doing, CallSet, CallStages
  <2>3. call' \in [Calls -> CallSet]
    BY <2>1, <2>2, <1>b
  <2>4.
    /\ call'[c].at = "keeping" /\ call'[c].token = call[c].token /\ call'[c].epoch = Standing
    /\ call'[c].gen = call[c].gen /\ call'[c].floor = call[c].floor
    /\ \A d \in Calls \ {c} : call'[d] = call[d]
    BY <2>1, <1>b DEF Doing
  <2>5. SessionTypeOK'
    BY <1>7, <1>a, <1>c, <1>d, <2>4, <2>3 DEF ReadAccount, SessionTypeOK, CallSet,
       Gone,
       NotCached
  <2>6. LedgerInv'
    BY <1>7, <1>a, <1>c, <1>d, <2>4 DEF ReadAccount, SessionTypeOK, LedgerInv,
       SpentIsSpent,
       RefreshOfEpoch, MintsAlone, ExchangedOnce, EndedMintsNothing
  <2>7. CacheInv'
    BY <1>7, <1>a, <1>c, <1>d, <2>4 DEF ReadAccount, SessionTypeOK, Standing, Gone,
       NotCached,
       CacheInv, ForgottenIsPast, CacheIsNew, ReadIsNew, EndedIsRefused
  <2> QED
    BY <2>5, <2>6, <2>7 DEF SessionInv
<1>8. ASSUME NEW c \in Calls, Answer(c) PROVE SessionInv'
  <2>1. call' = [call EXCEPT ![c] = call'[c]] /\ call'[c] = Doing("idle", NoToken, 0, 0, 0,
  FALSE)
    BY <1>8, <1>b DEF Answer, Finish, IdleCall, Doing
  <2>2. Doing("idle", NoToken, 0, 0, 0, FALSE) \in CallSet
    BY <1>8, <1>c, <1>d DEF Doing, CallSet, CallStages
  <2>3. call' \in [Calls -> CallSet]
    BY <2>1, <2>2, <1>b
  <2>4.
    /\ call'[c].at = "idle" /\ call'[c].token = NoToken /\ call'[c].epoch = 0
    /\ call'[c].gen = 0 /\ call'[c].floor = 0
    /\ \A d \in Calls \ {c} : call'[d] = call[d]
    BY <2>1, <1>b DEF Doing
  <2>5. SessionTypeOK'
    BY <1>8, <1>a, <1>c, <1>d, <2>4, <2>3 DEF Answer, SessionTypeOK, CallSet, Gone,
       NotCached
  <2>6. LedgerInv'
    BY <1>8, <1>a, <1>c, <1>d, <2>4 DEF Answer, SessionTypeOK, LedgerInv,
       SpentIsSpent,
       RefreshOfEpoch, MintsAlone, ExchangedOnce, EndedMintsNothing
  <2>7. CacheInv'
    BY <1>8, <1>a, <1>c, <1>d, <2>4 DEF Answer, SessionTypeOK, Standing, Gone,
       NotCached,
       CacheInv, ForgottenIsPast, CacheIsNew, ReadIsNew, EndedIsRefused
  <2> QED
    BY <2>5, <2>6, <2>7 DEF SessionInv
<1>9. ASSUME NEW c \in Calls, CallFails(c) PROVE SessionInv'
  <2>1. call' = [call EXCEPT ![c] = call'[c]] /\ call'[c] = Doing("idle", NoToken, 0, 0, 0,
  FALSE)
    BY <1>9, <1>b DEF CallFails, Finish, IdleCall, Doing
  <2>2. Doing("idle", NoToken, 0, 0, 0, FALSE) \in CallSet
    BY <1>9, <1>c, <1>d DEF Doing, CallSet, CallStages
  <2>3. call' \in [Calls -> CallSet]
    BY <2>1, <2>2, <1>b
  <2>4.
    /\ call'[c].at = "idle" /\ call'[c].token = NoToken /\ call'[c].epoch = 0
    /\ call'[c].gen = 0 /\ call'[c].floor = 0
    /\ \A d \in Calls \ {c} : call'[d] = call[d]
    BY <2>1, <1>b DEF Doing
  <2>5. SessionTypeOK'
    BY <1>9, <1>a, <1>c, <1>d, <2>4, <2>3 DEF CallFails, SessionTypeOK, CallSet, Gone,
       NotCached
  <2>6. LedgerInv'
    BY <1>9, <1>a, <1>c, <1>d, <2>4 DEF CallFails, SessionTypeOK, LedgerInv,
       SpentIsSpent,
       RefreshOfEpoch, MintsAlone, ExchangedOnce, EndedMintsNothing
  <2>7. CacheInv'
    BY <1>9, <1>a, <1>c, <1>d, <2>4 DEF CallFails, SessionTypeOK, Standing, Gone,
       NotCached,
       CacheInv, ForgottenIsPast, CacheIsNew, ReadIsNew, EndedIsRefused
  <2> QED
    BY <2>5, <2>6, <2>7 DEF SessionInv
<1>10. ASSUME NEW c \in Calls, NEW t \in Tokens, StartRefresh(c, t) PROVE SessionInv'
  <2>1. call' = [call EXCEPT ![c] = call'[c]] /\ call'[c] = Doing("rotating", t, epoch, 0, 0,
  FALSE)
    BY <1>10, <1>b DEF StartRefresh, Finish, IdleCall, Doing
  <2>2. Doing("rotating", t, epoch, 0, 0, FALSE) \in CallSet
    BY <1>10, <1>c, <1>d DEF Doing, CallSet, CallStages
  <2>3. call' \in [Calls -> CallSet]
    BY <2>1, <2>2, <1>b
  <2>4.
    /\ call'[c].at = "rotating" /\ call'[c].token = t /\ call'[c].epoch = epoch
    /\ call'[c].gen = 0 /\ call'[c].floor = 0
    /\ \A d \in Calls \ {c} : call'[d] = call[d]
    BY <2>1, <1>b DEF Doing
  <2>5. SessionTypeOK'
    BY <1>10, <1>a, <1>c, <1>d, <2>4, <2>3 DEF StartRefresh, MayRefresh, Standing,
       Gone,
       SessionTypeOK, CallSet, Gone, NotCached
  <2>6. LedgerInv'
    BY <1>10, <1>a, <1>c, <1>d, <2>4 DEF StartRefresh, MayRefresh, Standing, Gone,
       SessionTypeOK, LedgerInv, SpentIsSpent, RefreshOfEpoch, MintsAlone,
       ExchangedOnce,
       EndedMintsNothing
  <2>7. CacheInv'
    BY <1>10, <1>a, <1>c, <1>d, <2>4 DEF StartRefresh, MayRefresh, Standing, Gone,
       SessionTypeOK, Standing, Gone, NotCached, CacheInv, ForgottenIsPast,
       CacheIsNew,
       ReadIsNew, EndedIsRefused
  <2> QED
    BY <2>5, <2>6, <2>7 DEF SessionInv
<1>11. ASSUME NEW c \in Calls, NEW t \in Tokens, SaveSession(c, t) PROVE SessionInv'
  <2>1. call' = [call EXCEPT ![c] = call'[c]] /\ call'[c] = Doing("idle", NoToken, 0, 0, 0,
  FALSE)
    BY <1>11, <1>b DEF SaveSession, Finish, IdleCall, Doing
  <2>2. Doing("idle", NoToken, 0, 0, 0, FALSE) \in CallSet
    BY <1>11, <1>c, <1>d DEF Doing, CallSet, CallStages
  <2>3. call' \in [Calls -> CallSet]
    BY <2>1, <2>2, <1>b
  <2>4.
    /\ call'[c].at = "idle" /\ call'[c].token = NoToken /\ call'[c].epoch = 0
    /\ call'[c].gen = 0 /\ call'[c].floor = 0
    /\ \A d \in Calls \ {c} : call'[d] = call[d]
    BY <2>1, <1>b DEF Doing
  <2>5. SessionTypeOK'
    BY <1>11, <1>a, <1>c, <1>d, <2>4, <2>3 DEF SaveSession, SessionTypeOK, CallSet,
       Gone,
       NotCached, LedgerInv, RefreshOfEpoch
  <2>6. LedgerInv'
    BY <1>11, <1>a, <1>c, <1>d, <2>4 DEF SaveSession, SessionTypeOK, LedgerInv,
       SpentIsSpent,
       RefreshOfEpoch, MintsAlone, ExchangedOnce, EndedMintsNothing
  <2>7. CacheInv'
    BY <1>11, <1>a, <1>c, <1>d, <2>4 DEF SaveSession, SessionTypeOK, Standing, Gone,
       NotCached,
       CacheInv, ForgottenIsPast, CacheIsNew, ReadIsNew, EndedIsRefused
  <2> QED
    BY <2>5, <2>6, <2>7 DEF SessionInv
<1>12. ASSUME NEW c \in Calls, NEW e \in 0 .. epoch, CheckCached(c, e) PROVE SessionInv'
  <2>1. call' = [call EXCEPT ![c] = call'[c]] /\ call'[c] = Doing("answered", NoToken, e, 0,
  forgotten, (cached = e))
    BY <1>12, <1>b DEF CheckCached, Finish, IdleCall, Doing
  <2>2. Doing("answered", NoToken, e, 0, forgotten, (cached = e)) \in CallSet
    BY <1>12, <1>c, <1>d DEF Doing, CallSet, CallStages
  <2>3. call' \in [Calls -> CallSet]
    BY <2>1, <2>2, <1>b
  <2>4. call'[c].ok => cached = e
    BY <2>1, OkSays
  <2>5.
    /\ call'[c].at = "answered" /\ call'[c].token = NoToken /\ call'[c].epoch = e
    /\ call'[c].gen = 0 /\ call'[c].floor = forgotten
    /\ \A d \in Calls \ {c} : call'[d] = call[d]
    BY <2>1, <1>b DEF Doing
  <2>6. SessionTypeOK'
    BY <1>12, <1>a, <1>c, <1>d, <2>5, <2>3 DEF CheckCached, SessionTypeOK, CallSet,
       Gone,
       NotCached
  <2>7. LedgerInv'
    BY <1>12, <1>a, <1>c, <1>d, <2>5 DEF CheckCached, SessionTypeOK, LedgerInv,
       SpentIsSpent,
       RefreshOfEpoch, MintsAlone, ExchangedOnce, EndedMintsNothing
  <2>8. CacheInv'
    BY <1>12, <1>a, <1>c, <1>d, <2>5, <2>4 DEF CheckCached, SessionTypeOK, Standing,
       Gone,
       NotCached, CacheInv, ForgottenIsPast, CacheIsNew, ReadIsNew, EndedIsRefused
  <2> QED
    BY <2>6, <2>7, <2>8 DEF SessionInv
<1>13. ASSUME NEW c \in Calls, NEW e \in 0 .. epoch, Keep(c, e) PROVE SessionInv'
  <2>1. call' = [call EXCEPT ![c] = call'[c]] /\ call'[c] = Doing("answered", NoToken, e, 0,
  call[c].floor, (call[c].epoch = e))
    BY <1>13, <1>b DEF Keep, Finish, IdleCall, Doing
  <2>2. Doing("answered", NoToken, e, 0, call[c].floor, (call[c].epoch = e)) \in CallSet
    BY <1>13, <1>c, <1>d DEF Doing, CallSet, CallStages
  <2>3. call' \in [Calls -> CallSet]
    BY <2>1, <2>2, <1>b
  <2>4. call'[c].ok => call[c].epoch = e
    BY <2>1, OkSays
  <2>5.
    /\ call'[c].at = "answered" /\ call'[c].token = NoToken /\ call'[c].epoch = e
    /\ call'[c].gen = 0 /\ call'[c].floor = call[c].floor
    /\ \A d \in Calls \ {c} : call'[d] = call[d]
    BY <2>1, <1>b DEF Doing
  <2>6. SessionTypeOK'
    BY <1>13, <1>a, <1>c, <1>d, <2>5, <2>3 DEF Keep, MayKeep, SessionTypeOK, CallSet,
       Gone,
       NotCached, CacheInv, ReadIsNew
  <2>7. LedgerInv'
    BY <1>13, <1>a, <1>c, <1>d, <2>5 DEF Keep, MayKeep, SessionTypeOK, LedgerInv,
       SpentIsSpent,
       RefreshOfEpoch, MintsAlone, ExchangedOnce, EndedMintsNothing
  <2>8. CacheInv'
    BY <1>13, <1>a, <1>c, <1>d, <2>5, <2>4 DEF Keep, MayKeep, SessionTypeOK, Standing,
       Gone,
       NotCached, CacheInv, ForgottenIsPast, CacheIsNew, ReadIsNew, EndedIsRefused
  <2> QED
    BY <2>6, <2>7, <2>8 DEF SessionInv
<1>14. ASSUME NEW c \in Calls, NEW t \in Tokens, RefuseRefresh(c, t) PROVE SessionInv'
  <2>1. SessionTypeOK'
    BY <1>14, <1>a, <1>c, <1>d DEF RefuseRefresh, RevokedAll, SessionTypeOK, CallSet,
       Gone,
       NotCached
  <2>2. LedgerInv'
    BY <1>14, <1>a, <1>c, <1>d DEF RefuseRefresh, RevokedAll, SessionTypeOK,
       LedgerInv,
       SpentIsSpent, RefreshOfEpoch, MintsAlone, ExchangedOnce, EndedMintsNothing
  <2>3. CacheInv'
    BY <1>14, <1>a, <1>c, <1>d DEF RefuseRefresh, RevokedAll, SessionTypeOK, Standing,
       Gone,
       NotCached, CacheInv, ForgottenIsPast, CacheIsNew, ReadIsNew, EndedIsRefused
  <2> QED
    BY <2>1, <2>2, <2>3 DEF SessionInv
<1>15. ASSUME NEW t \in Tokens, Logout(t) PROVE SessionInv'
  <2>1. SessionTypeOK'
    BY <1>15, <1>a, <1>c, <1>d DEF Logout, SessionTypeOK, CallSet, Gone, NotCached
  <2>2. LedgerInv'
    BY <1>15, <1>a, <1>c, <1>d DEF Logout, SessionTypeOK, LedgerInv, SpentIsSpent,
       RefreshOfEpoch, MintsAlone, ExchangedOnce, EndedMintsNothing
  <2>3. CacheInv'
    BY <1>15, <1>a, <1>c, <1>d DEF Logout, SessionTypeOK, Standing, Gone, NotCached,
       CacheInv,
       ForgottenIsPast, CacheIsNew, ReadIsNew, EndedIsRefused
  <2> QED
    BY <2>1, <2>2, <2>3 DEF SessionInv
<1>16. CASE EndElsewhere
  <2>1. SessionTypeOK'
    BY <1>16, <1>a, <1>c, <1>d DEF EndElsewhere, RevokedAll, SessionTypeOK, CallSet,
       Gone,
       NotCached
  <2>2. LedgerInv'
    BY <1>16, <1>a, <1>c, <1>d DEF EndElsewhere, RevokedAll, SessionTypeOK, LedgerInv,
       SpentIsSpent, RefreshOfEpoch, MintsAlone, ExchangedOnce, EndedMintsNothing
  <2>3. CacheInv'
    BY <1>16, <1>a, <1>c, <1>d DEF EndElsewhere, RevokedAll, SessionTypeOK, Standing,
       Gone,
       NotCached, CacheInv, ForgottenIsPast, CacheIsNew, ReadIsNew, EndedIsRefused
  <2> QED
    BY <2>1, <2>2, <2>3 DEF SessionInv
<1>17. CASE EntryExpires
  <2>1. SessionTypeOK'
    BY <1>17, <1>a, <1>c, <1>d DEF EntryExpires, SessionTypeOK, CallSet, Gone,
       NotCached
  <2>2. LedgerInv'
    BY <1>17, <1>a, <1>c, <1>d DEF EntryExpires, SessionTypeOK, LedgerInv,
       SpentIsSpent,
       RefreshOfEpoch, MintsAlone, ExchangedOnce, EndedMintsNothing
  <2>3. CacheInv'
    BY <1>17, <1>a, <1>c, <1>d DEF EntryExpires, SessionTypeOK, Standing, Gone,
       NotCached,
       CacheInv, ForgottenIsPast, CacheIsNew, ReadIsNew, EndedIsRefused
  <2> QED
    BY <2>1, <2>2, <2>3 DEF SessionInv
<1>18. ASSUME NEW c \in Calls, Rotate(c), Spendable(call[c].token) PROVE SessionInv'
  <2>1. call' = [call EXCEPT ![c] = call'[c]] /\ call'[c] = Doing("minting", call[c].token,
  call[c].epoch, call[c].gen, call[c].floor, call[c].ok)
    BY <1>18, <1>b DEF Rotate, Finish, IdleCall, Doing, CallSet
  <2>2. Doing("minting", call[c].token, call[c].epoch, call[c].gen, call[c].floor,
  call[c].ok) \in CallSet
    BY <1>18, <1>c, <1>d DEF Doing, CallSet, CallStages
  <2>3. call' \in [Calls -> CallSet]
    BY <2>1, <2>2, <1>b
  <2>4.
    /\ call'[c].at = "minting" /\ call'[c].token = call[c].token /\ call'[c].epoch = call[c].epoch
    /\ call'[c].gen = call[c].gen /\ call'[c].floor = call[c].floor
    /\ \A d \in Calls \ {c} : call'[d] = call[d]
    BY <2>1, <1>b DEF Doing
  <2>5. SessionTypeOK'
    BY <1>18, <1>a, <1>c, <1>d, <2>4, <2>3 DEF Rotate, Spendable, SessionTypeOK,
       CallSet, Gone,
       NotCached
  <2>6. LedgerInv'
    BY <1>18, <1>a, <1>c, <1>d, <2>4 DEF Rotate, Spendable, SessionTypeOK, LedgerInv,
       SpentIsSpent, RefreshOfEpoch, MintsAlone, ExchangedOnce, EndedMintsNothing
  <2>7. CacheInv'
    BY <1>18, <1>a, <1>c, <1>d, <2>4 DEF Rotate, Spendable, SessionTypeOK, Standing,
       Gone,
       NotCached, CacheInv, ForgottenIsPast, CacheIsNew, ReadIsNew, EndedIsRefused
  <2> QED
    BY <2>5, <2>6, <2>7 DEF SessionInv
<1>19. ASSUME NEW c \in Calls, Rotate(c), ~Spendable(call[c].token) PROVE SessionInv'
  <2>1. call' = [call EXCEPT ![c] = call'[c]] /\ call'[c] = Doing("idle", NoToken, 0, 0, 0,
  FALSE)
    BY <1>19, <1>b DEF Rotate, Finish, IdleCall, Doing
  <2>2. Doing("idle", NoToken, 0, 0, 0, FALSE) \in CallSet
    BY <1>19, <1>c, <1>d DEF Doing, CallSet, CallStages
  <2>3. call' \in [Calls -> CallSet]
    BY <2>1, <2>2, <1>b
  <2>4.
    /\ call'[c].at = "idle" /\ call'[c].token = NoToken /\ call'[c].epoch = 0
    /\ call'[c].gen = 0 /\ call'[c].floor = 0
    /\ \A d \in Calls \ {c} : call'[d] = call[d]
    BY <2>1, <1>b DEF Doing
  <2>5. SessionTypeOK'
    BY <1>19, <1>a, <1>c, <1>d, <2>4, <2>3 DEF Rotate, Spendable, SessionTypeOK,
       CallSet, Gone,
       NotCached
  <2>6. LedgerInv'
    BY <1>19, <1>a, <1>c, <1>d, <2>4 DEF Rotate, Spendable, SessionTypeOK, LedgerInv,
       SpentIsSpent, RefreshOfEpoch, MintsAlone, ExchangedOnce, EndedMintsNothing
  <2>7. CacheInv'
    BY <1>19, <1>a, <1>c, <1>d, <2>4 DEF Rotate, Spendable, SessionTypeOK, Standing,
       Gone,
       NotCached, CacheInv, ForgottenIsPast, CacheIsNew, ReadIsNew, EndedIsRefused
  <2> QED
    BY <2>5, <2>6, <2>7 DEF SessionInv
<1> QED
  BY <1>1, <1>2, <1>3, <1>4, <1>5, <1>6, <1>7, <1>8, <1>9, <1>10, <1>11, <1>12, <1>13,
     <1>14,
     <1>15, <1>16, <1>17, <1>18, <1>19 DEF SessionNext, CallStep

\* The variables keep their types.
THEOREM SessionTypeCorrect == SessionSpec => []SessionTypeOK
<1>1. SessionInv /\ [SessionNext]_sessionVars => SessionInv'
  BY SessionNextInv
<1>2. SessionInv => SessionTypeOK
  BY DEF SessionInv
<1> QED
  BY <1>1, <1>2, SessionInitInv, PTL DEF SessionSpec

\* A refresh token buys one session, however its refreshes overlap (Rotate).
THEOREM RefreshBuysOne == SessionSpec => []ExchangedOnce
<1>1. SessionInv /\ [SessionNext]_sessionVars => SessionInv'
  BY SessionNextInv
<1>2. SessionInv => ExchangedOnce
  BY DEF SessionInv, LedgerInv
<1> QED
  BY <1>1, <1>2, SessionInitInv, PTL DEF SessionSpec

\* Ended sessions stay ended: a refresh mints nothing of a later epoch, and a check
\* that began after the end refuses what is from before (endSessions, SessionCache).
THEOREM EndedStaysEnded == SessionSpec => []EndedIsEnded
<1>1. SessionInv /\ [SessionNext]_sessionVars => SessionInv'
  BY SessionNextInv
<1>2. SessionInv => EndedIsEnded
  BY DEF SessionInv, LedgerInv, CacheInv, EndedIsEnded
<1> QED
  BY <1>1, <1>2, SessionInitInv, PTL DEF SessionSpec

-----------------------------------------------------------------------------
(* Grants *)

\* Every entry of held is given by one of other's.
Under(held, other) ==
  \A e \in held : \E t \in other : Gives(t, e.cap) /\ Covers(t.scope, e.scope)

\* Scopes nest: what covers a scope covers what that one covers.
LEMMA CoversNest ==
  ASSUME NEW s, NEW t, NEW u, Covers(s, t), Covers(t, u)
  PROVE  Covers(s, u)
BY ScopeAssumption DEF Covers

\* Entries given by others allow no more than those do.
LEMMA UnderAllows ==
  ASSUME NEW held, NEW other, Under(held, other), NEW c, NEW s, Allows(held, c, s)
  PROVE  Allows(other, c, s)
<1>1. PICK e \in held : Gives(e, c) /\ Covers(e.scope, s)
  BY DEF Allows
<1>2. PICK t \in other : Gives(t, e.cap) /\ Covers(t.scope, e.scope)
  BY <1>1 DEF Under
<1>3. Gives(t, c)
  BY <1>1, <1>2 DEF Gives
<1>4. Covers(t.scope, s)
  BY <1>1, <1>2, CoversNest
<1> QED
  BY <1>2, <1>3, <1>4 DEF Allows

\* And so do entries given by those.
LEMMA UnderNests ==
  ASSUME NEW held, NEW other, NEW third, Under(held, other), Under(other, third)
  PROVE  Under(held, third)
<1> SUFFICES ASSUME NEW e \in held
             PROVE  \E t \in third : Gives(t, e.cap) /\ Covers(t.scope, e.scope)
  BY DEF Under
<1>1. PICK m \in other : Gives(m, e.cap) /\ Covers(m.scope, e.scope)
  BY DEF Under
<1>2. Allows(other, e.cap, e.scope)
  BY <1>1 DEF Allows
<1>3. Allows(third, e.cap, e.scope)
  BY <1>2, UnderAllows
<1> QED
  BY <1>3 DEF Allows

\* What two sets have in common is given by each of them.
LEMMA WithinIsUnder ==
  ASSUME NEW held, NEW ceiling
  PROVE  Under(Within(held, ceiling), held) /\ Under(Within(held, ceiling), ceiling)
<1> SUFFICES ASSUME NEW e \in Within(held, ceiling)
             PROVE  /\ \E t \in held : Gives(t, e.cap) /\ Covers(t.scope, e.scope)
                    /\ \E t \in ceiling : Gives(t, e.cap) /\ Covers(t.scope, e.scope)
  BY DEF Under
<1>1. PICK p \in held \X ceiling : e \in Common(p[1], p[2])
  BY DEF Within
<1> DEFINE h == p[1]
           c == p[2]
<1>2. h \in held /\ c \in ceiling
  BY <1>1
<1>3. e.scope \in CommonScope(h.scope, c.scope) /\ e.cap \in CommonCap(h, c)
  BY <1>1 DEF Common
<1> HIDE DEF h, c
<1>4. Gives(h, e.cap) /\ Gives(c, e.cap)
  BY <1>3 DEF CommonCap, Gives
<1>5. Covers(h.scope, h.scope) /\ Covers(c.scope, c.scope)
  BY DEF Covers
<1>6. Covers(h.scope, e.scope) /\ Covers(c.scope, e.scope)
  BY <1>3, <1>5 DEF CommonScope
<1> QED
  BY <1>2, <1>4, <1>6

\* A larger ceiling leaves at least as much.
LEMMA WithinGrows ==
  ASSUME NEW held, NEW C, NEW D, C \subseteq D
  PROVE  Within(held, C) \subseteq Within(held, D)
BY DEF Within

\* The server's ceiling and the sessions add nothing.
LEMMA WithinServerIsUnder ==
  ASSUME NEW held, NEW ceiling
  PROVE  Under(WithinServer(held, ceiling), held)
<1> DEFINE C == [scope : {All}, cap : ceiling]
           W == Within(held, C)
<1>1. Under(W, held)
  BY WithinIsUnder
<1>2. Under(held, held)
  BY DEF Under, Gives, Covers
<1>3. WithinSessions(W) \subseteq W
  BY DEF WithinSessions
<1>4. WithinServer(held, ceiling) = held \/ WithinServer(held, ceiling) = WithinSessions(W)
  BY DEF WithinServer
<1> HIDE DEF C, W
<1> QED
  BY <1>1, <1>2, <1>3, <1>4 DEF Under

-----------------------------------------------------------------------------
(* What loadBounded computes *)

\* One owner further down a chain.
LoadStep(f, n) ==
  [a \in Holders |->
    IF n = 0 THEN {}
    ELSE IF a \notin enabledOf \/ OwnerOf[a] = NoHolder THEN OwnEntries(a)
    ELSE IF ~OwnerCounts(a) THEN {}
    ELSE Within(OwnEntries(a), f[n - 1][OwnerOf[a]])]

\* LoadTo is what its recursion says.
LEMMA LoadToIs ==
  \A n \in 0 .. MaxOwnerDepth : LoadTo[n] = LoadStep(LoadTo, n)
<1> DEFINE D == 0 .. MaxOwnerDepth
           LoadedTo(f, m) == f = [n \in D |-> f[n]] /\ \A n \in D : n <= m => f[n] = LoadStep(f, n)
           T == {m \in Nat : \E f : LoadedTo(f, m)}
<1>0. MaxOwnerDepth \in Nat
  BY GrantAssumption
<1>1. 0 \in T
  <2> DEFINE g == [n \in D |-> LoadStep(<<>>, 0)]
  <2>1. LoadStep(g, 0) = LoadStep(<<>>, 0)
    BY DEF LoadStep
  <2>2. g = [n \in D |-> g[n]] /\ \A n \in D : n <= 0 => g[n] = LoadStep(g, n)
    BY <1>0, <2>1
  <2> HIDE DEF g
  <2>3. LoadedTo(g, 0)
    BY <2>2
  <2> QED
    BY <2>3
<1>2. ASSUME NEW m \in Nat, m \in T PROVE m + 1 \in T
  <2>1. PICK f : LoadedTo(f, m)
    BY <1>2
  <2> DEFINE g == [n \in D |-> IF n = m + 1 THEN LoadStep(f, n) ELSE f[n]]
  <2>2. \A n \in D : n <= m => g[n] = f[n]
    BY <1>0
  <2>3. ASSUME NEW n \in D, n <= m + 1 PROVE LoadStep(g, n) = LoadStep(f, n)
    <3>1. CASE n = 0
      BY <3>1 DEF LoadStep
    <3>2. CASE n # 0
      <4>1. n - 1 \in D /\ n - 1 <= m
        BY <1>0, <2>3, <3>2
      <4>2. g[n - 1] = f[n - 1]
        BY <2>2, <4>1
      <4> HIDE DEF g
      <4> QED
        BY <4>2 DEF LoadStep
    <3> QED
      BY <3>1, <3>2
  <2>4. g = [n \in D |-> g[n]]
    OBVIOUS
  <2>5. ASSUME NEW n \in D, n <= m + 1 PROVE g[n] = LoadStep(g, n)
    <3>1. CASE n = m + 1
      BY <2>3, <2>5, <3>1
    <3>2. CASE n # m + 1
      <4>1. n <= m
        BY <1>0, <2>5, <3>2
      <4>2. g[n] = f[n] /\ f[n] = LoadStep(f, n)
        BY <2>1, <2>2, <4>1
      <4> HIDE DEF g
      <4> QED
        BY <2>3, <2>5, <4>2
    <3> QED
      BY <3>1, <3>2
  <2> HIDE DEF g
  <2>6. LoadedTo(g, m + 1)
    BY <2>4, <2>5
  <2> HIDE DEF LoadedTo
  <2> QED
    BY <2>6
<1>3. MaxOwnerDepth \in T
  <2> HIDE DEF T
  <2> QED
    BY <1>0, <1>1, <1>2, AllNaturals
<1>4. PICK f : LoadedTo(f, MaxOwnerDepth)
  BY <1>3
<1>5. \A n \in D : f[n] = LoadStep(f, n)
  BY <1>0, <1>4
<1>6. f = [n \in D |-> LoadStep(f, n)]
  BY <1>4, <1>5
<1>7. LoadTo = CHOOSE g : g = [n \in D |-> LoadStep(g, n)]
  BY DEF LoadTo, LoadStep
<1>8. LoadTo = [n \in D |-> LoadStep(LoadTo, n)]
  BY <1>6, <1>7
<1> QED
  BY <1>8

\* What loadBounded finds of an account by one step.
LEMMA LoadToStep ==
  ASSUME NEW n \in 0 .. MaxOwnerDepth, NEW a \in Holders
  PROVE  LoadTo[n][a] =
           IF n = 0 THEN {}
           ELSE IF a \notin enabledOf \/ OwnerOf[a] = NoHolder THEN OwnEntries(a)
           ELSE IF ~OwnerCounts(a) THEN {}
           ELSE Within(OwnEntries(a), LoadTo[n - 1][OwnerOf[a]])
BY LoadToIs DEF LoadStep

\* It finds no less the deeper it may look.
LEMMA LoadGrows ==
  \A n \in Nat : n + 1 <= MaxOwnerDepth => \A a \in Holders : LoadTo[n][a] \subseteq LoadTo[n + 1][a]
<1> DEFINE T == {n \in Nat : n + 1 <= MaxOwnerDepth =>
                   \A a \in Holders : LoadTo[n][a] \subseteq LoadTo[n + 1][a]}
<1>0. MaxOwnerDepth \in Nat /\ OwnerOf \in [Holders -> Holders \union {NoHolder}]
  BY GrantAssumption
<1>1. 0 \in T
  BY <1>0, LoadToStep
<1>2. ASSUME NEW n \in Nat, n \in T PROVE n + 1 \in T
  <2> SUFFICES ASSUME n + 2 <= MaxOwnerDepth, NEW a \in Holders
               PROVE  LoadTo[n + 1][a] \subseteq LoadTo[n + 2][a]
    BY <1>0
  <2>1. n + 1 \in 0 .. MaxOwnerDepth /\ n + 2 \in 0 .. MaxOwnerDepth /\ n + 1 # 0 /\ n + 2 # 0
        /\ (n + 1) - 1 = n /\ (n + 2) - 1 = n + 1
    BY <1>0
  <2>2. \A b \in Holders : LoadTo[n][b] \subseteq LoadTo[n + 1][b]
    BY <1>0, <1>2, <2>1
  <2>3. CASE a \notin enabledOf \/ OwnerOf[a] = NoHolder
    BY <2>1, <2>3, LoadToStep
  <2>4. CASE ~(a \notin enabledOf \/ OwnerOf[a] = NoHolder) /\ ~OwnerCounts(a)
    BY <2>1, <2>4, LoadToStep
  <2>5. CASE ~(a \notin enabledOf \/ OwnerOf[a] = NoHolder) /\ OwnerCounts(a)
    <3>1. LoadTo[n + 1][a] = Within(OwnEntries(a), LoadTo[n][OwnerOf[a]])
      BY <2>1, <2>5, LoadToStep
    <3>2. LoadTo[n + 2][a] = Within(OwnEntries(a), LoadTo[n + 1][OwnerOf[a]])
      BY <2>1, <2>5, LoadToStep
    <3>3. LoadTo[n][OwnerOf[a]] \subseteq LoadTo[n + 1][OwnerOf[a]]
      BY <1>0, <2>2, <2>5
    <3> QED
      BY <3>1, <3>2, <3>3, WithinGrows
  <2> QED
    BY <2>3, <2>4, <2>5
<1> HIDE DEF T
<1>3. \A n \in Nat : n \in T
  BY <1>1, <1>2, AllNaturals
<1> QED
  BY <1>3 DEF T

\* An account holds nothing but what its own grants and its own mailbox give.
LEMMA LoadIsOwn ==
  ASSUME NEW a \in Holders
  PROVE  Under(Load(a), OwnEntries(a))
<1> DEFINE L == LoadTo[MaxOwnerDepth][a]
<1>0. MaxOwnerDepth \in 0 .. MaxOwnerDepth
  BY GrantAssumption
<1>1. L = {} \/ L = OwnEntries(a) \/ L = Within(OwnEntries(a), LoadTo[MaxOwnerDepth - 1][OwnerOf[a]])
  BY <1>0, LoadToStep
<1>2. Under(L, OwnEntries(a))
  <2>1. Under({}, OwnEntries(a)) /\ Under(OwnEntries(a), OwnEntries(a))
    BY DEF Under, Gives, Covers
  <2> HIDE DEF L
  <2> QED
    BY <1>1, <2>1, WithinIsUnder
<1>3. Under(Load(a), L)
  BY WithinServerIsUnder DEF Load
<1> HIDE DEF L
<1> QED
  BY <1>2, <1>3, UnderNests

\* And nothing its owner was not granted.
LEMMA OwnedBounded ==
  ASSUME enabledOf \subseteq Holders
  PROVE  OwnedIsBounded
<1> SUFFICES ASSUME NEW a \in enabledOf, OwnerOf[a] # NoHolder
             PROVE  /\ OwnerOf[a] \notin enabledOf => Load(a) = {}
                    /\ \A e \in Load(a) : \A s \in Scopes :
                         Covers(e.scope, s) => Allows(LoadTo[MaxOwnerDepth][OwnerOf[a]], e.cap, s)
  BY DEF OwnedIsBounded
<1> DEFINE D == MaxOwnerDepth
           o == OwnerOf[a]
           L == LoadTo[D][a]
<1>0. D \in 0 .. D /\ D \in Nat /\ a \in Holders /\ o \in Holders
  BY GrantAssumption
<1>1. CASE D = 0 \/ ~OwnerCounts(a)
  <2>1. L = {}
    BY <1>0, <1>1, LoadToStep
  <2>2. Load(a) = {}
    BY <2>1, WithinServerIsUnder DEF Load, Under
  <2> QED
    BY <2>2
<1>2. CASE D # 0 /\ OwnerCounts(a)
  <2>1. L = Within(OwnEntries(a), LoadTo[D - 1][o])
    BY <1>0, <1>2, LoadToStep
  <2>2. D - 1 \in Nat /\ (D - 1) + 1 <= D /\ (D - 1) + 1 = D
    BY <1>0, <1>2
  <2>3. LoadTo[D - 1][o] \subseteq LoadTo[D][o]
    BY <1>0, <2>2, LoadGrows
  <2>4. Under(L, LoadTo[D - 1][o])
    BY <2>1, WithinIsUnder
  <2>5. Under(L, LoadTo[D][o])
    BY <2>3, <2>4 DEF Under
  <2>6. Under(Load(a), L)
    BY WithinServerIsUnder DEF Load
  <2>7. Under(Load(a), LoadTo[D][o])
    <3> HIDE DEF L
    <3> QED
      BY <2>5, <2>6, UnderNests
  <2>8. ASSUME NEW e \in Load(a), NEW s \in Scopes, Covers(e.scope, s)
        PROVE  Allows(LoadTo[D][o], e.cap, s)
    <3>1. Allows(Load(a), e.cap, s)
      BY <2>8 DEF Allows, Gives
    <3> QED
      BY <2>7, <3>1, UnderAllows
  <2>9. o \in enabledOf
    BY <1>2 DEF OwnerCounts
  <2> QED
    BY <2>8, <2>9
<1> QED
  BY <1>1, <1>2

-----------------------------------------------------------------------------
(* What ownedBelow finds *)

\* One account further down.
BelowStep(f, n, G, A) ==
  [h \in Holders |->
    IF n = 0 \/ h \notin A THEN {}
    ELSE LET kept == {c \in A : OwnerOf[c] = h /\ Owns(G, h, c)}
         IN  kept \union UNION {f[n - 1][c] : c \in kept}]

BelowTo(G, A) == CHOOSE f : f = [n \in 0 .. MaxOwnerDepth |-> BelowStep(f, n, G, A)]

\* Below is its recursion, at full depth.
LEMMA BelowIs ==
  ASSUME NEW G, NEW A
  PROVE  Below(G, A) = BelowTo(G, A)[MaxOwnerDepth]
BY DEF Below, BelowTo, BelowStep

\* And BelowTo is what its recursion says.
LEMMA BelowToIs ==
  ASSUME NEW G, NEW A
  PROVE  \A n \in 0 .. MaxOwnerDepth : BelowTo(G, A)[n] = BelowStep(BelowTo(G, A), n, G, A)
<1> DEFINE D == 0 .. MaxOwnerDepth
           Step(f, n) == BelowStep(f, n, G, A)
           FoundTo(f, m) == f = [n \in D |-> f[n]] /\ \A n \in D : n <= m => f[n] = Step(f, n)
           T == {m \in Nat : \E f : FoundTo(f, m)}
<1>0. MaxOwnerDepth \in Nat
  BY GrantAssumption
<1>01. \A f, g : Step(f, 0) = Step(g, 0)
  BY DEF BelowStep
<1>02. ASSUME NEW f, NEW g, NEW n, f[n - 1] = g[n - 1] PROVE Step(f, n) = Step(g, n)
  BY <1>02 DEF BelowStep
<1> HIDE DEF Step
<1>1. 0 \in T
  <2> DEFINE g == [n \in D |-> Step(<<>>, 0)]
  <2>1. Step(g, 0) = Step(<<>>, 0)
    BY <1>01
  <2>2. g = [n \in D |-> g[n]] /\ \A n \in D : n <= 0 => g[n] = Step(g, n)
    BY <1>0, <2>1
  <2> HIDE DEF g
  <2>3. FoundTo(g, 0)
    BY <2>2
  <2> QED
    BY <2>3
<1>2. ASSUME NEW m \in Nat, m \in T PROVE m + 1 \in T
  <2>1. PICK f : FoundTo(f, m)
    BY <1>2
  <2> DEFINE g == [n \in D |-> IF n = m + 1 THEN Step(f, n) ELSE f[n]]
  <2>2. \A n \in D : n <= m => g[n] = f[n]
    BY <1>0
  <2>3. ASSUME NEW n \in D, n <= m + 1 PROVE Step(g, n) = Step(f, n)
    <3>1. CASE n = 0
      BY <1>01, <3>1
    <3>2. CASE n # 0
      <4>1. n - 1 \in D /\ n - 1 <= m
        BY <1>0, <2>3, <3>2
      <4>2. g[n - 1] = f[n - 1]
        BY <2>2, <4>1
      <4> HIDE DEF g
      <4> QED
        BY <1>02, <4>2
    <3> QED
      BY <3>1, <3>2
  <2>4. g = [n \in D |-> g[n]]
    OBVIOUS
  <2>5. ASSUME NEW n \in D, n <= m + 1 PROVE g[n] = Step(g, n)
    <3>1. CASE n = m + 1
      BY <2>3, <2>5, <3>1
    <3>2. CASE n # m + 1
      <4>1. n <= m
        BY <1>0, <2>5, <3>2
      <4>2. g[n] = f[n] /\ f[n] = Step(f, n)
        BY <2>1, <2>2, <4>1
      <4> HIDE DEF g
      <4> QED
        BY <2>3, <2>5, <4>2
    <3> QED
      BY <3>1, <3>2
  <2> HIDE DEF g
  <2>6. FoundTo(g, m + 1)
    BY <2>4, <2>5
  <2> HIDE DEF FoundTo
  <2> QED
    BY <2>6
<1>3. MaxOwnerDepth \in T
  <2> HIDE DEF T
  <2> QED
    BY <1>0, <1>1, <1>2, AllNaturals
<1>4. PICK f : FoundTo(f, MaxOwnerDepth)
  BY <1>3
<1>5. \A n \in D : f[n] = Step(f, n)
  BY <1>0, <1>4
<1>6. f = [n \in D |-> Step(f, n)]
  BY <1>4, <1>5
<1>7. BelowTo(G, A) = CHOOSE g : g = [n \in D |-> Step(g, n)]
  BY DEF BelowTo, Step
<1>8. BelowTo(G, A) = [n \in D |-> Step(BelowTo(G, A), n)]
  BY <1>6, <1>7
<1>9. \A n \in D : BelowTo(G, A)[n] = Step(BelowTo(G, A), n)
  BY <1>8
<1> QED
  BY <1>9 DEF Step

\* Whom it finds below an account by one step.
LEMMA BelowToStep ==
  ASSUME NEW G, NEW A, NEW n \in 0 .. MaxOwnerDepth, NEW h \in Holders, NEW d
  PROVE  d \in BelowTo(G, A)[n][h] <=>
           /\ n # 0 /\ h \in A
           /\ \/ d \in A /\ OwnerOf[d] = h /\ Owns(G, h, d)
              \/ \E c \in A : OwnerOf[c] = h /\ Owns(G, h, c) /\ d \in BelowTo(G, A)[n - 1][c]
<1> DEFINE f == BelowTo(G, A)
           kept == {c \in A : OwnerOf[c] = h /\ Owns(G, h, c)}
<1>1. f[n] = BelowStep(f, n, G, A)
  BY BelowToIs
<1> HIDE DEF f
<1>2. f[n][h] = IF n = 0 \/ h \notin A THEN {} ELSE kept \union UNION {f[n - 1][c] : c \in kept}
  BY <1>1 DEF BelowStep
<1>3. d \in kept \union UNION {f[n - 1][c] : c \in kept} <=>
        d \in kept \/ \E c \in kept : d \in f[n - 1][c]
  OBVIOUS
<1>4. d \in f[n][h] <=> n # 0 /\ h \in A /\ (d \in kept \/ \E c \in kept : d \in f[n - 1][c])
  BY <1>2, <1>3
<1> QED
  BY <1>4 DEF f

\* It finds accounts of A, and no fewer with more grants and more accounts.
LEMMA BelowGrows ==
  ASSUME NEW G, NEW H, G \subseteq H, NEW A, NEW B, A \subseteq B,
         B \subseteq Holders
  PROVE  \A n \in Nat : n <= MaxOwnerDepth =>
           \A h \in Holders : /\ BelowTo(G, A)[n][h] \subseteq A
                              /\ BelowTo(G, A)[n][h] \subseteq BelowTo(H, B)[n][h]
<1> DEFINE f == BelowTo(G, A)
           g == BelowTo(H, B)
           T == {n \in Nat : n <= MaxOwnerDepth =>
                   \A h \in Holders : f[n][h] \subseteq A /\ f[n][h] \subseteq g[n][h]}
<1>0. MaxOwnerDepth \in Nat
  BY GrantAssumption
<1>1. \A h, c : Owns(G, h, c) => Owns(H, h, c)
  BY DEF Owns
<1>4. 0 \in T
  <2>1. \A h \in Holders : \A d : d \notin f[0][h]
    BY <1>0, BelowToStep
  <2> QED
    BY <2>1
<1>5. ASSUME NEW n \in Nat, n \in T PROVE n + 1 \in T
  <2> SUFFICES ASSUME n + 1 <= MaxOwnerDepth, NEW h \in Holders, NEW d \in f[n + 1][h]
               PROVE  d \in A /\ d \in g[n + 1][h]
    BY <1>0
  <2>1. n + 1 \in 0 .. MaxOwnerDepth /\ n <= MaxOwnerDepth /\ (n + 1) - 1 = n /\ n + 1 # 0
    BY <1>0
  <2>2. \A c \in Holders : f[n][c] \subseteq A /\ f[n][c] \subseteq g[n][c]
    BY <1>5, <2>1
  <2>3. /\ h \in A
        /\ \/ d \in A /\ OwnerOf[d] = h /\ Owns(G, h, d)
           \/ \E c \in A : OwnerOf[c] = h /\ Owns(G, h, c) /\ d \in f[n][c]
    <3> DEFINE m == n + 1
    <3>1. m \in 0 .. MaxOwnerDepth /\ m - 1 = n /\ d \in BelowTo(G, A)[m][h]
      BY <2>1
    <3> HIDE DEF m
    <3>2. d \in BelowTo(G, A)[m][h] <=>
            /\ m # 0 /\ h \in A
            /\ \/ d \in A /\ OwnerOf[d] = h /\ Owns(G, h, d)
               \/ \E c \in A : OwnerOf[c] = h /\ Owns(G, h, c) /\ d \in BelowTo(G, A)[m - 1][c]
      BY <3>1, BelowToStep
    <3> QED
      BY <3>1, <3>2
  <2>4. CASE d \in A /\ OwnerOf[d] = h /\ Owns(G, h, d)
    <3>1. d \in B /\ h \in B /\ Owns(H, h, d)
      BY <1>1, <2>3, <2>4
    <3>2. d \in g[n + 1][h]
      BY <2>1, <2>4, <3>1, BelowToStep
    <3> QED
      BY <2>4, <3>2
  <2>5. CASE \E c \in A : OwnerOf[c] = h /\ Owns(G, h, c) /\ d \in f[n][c]
    <3>1. PICK c \in A : OwnerOf[c] = h /\ Owns(G, h, c) /\ d \in f[n][c]
      BY <2>5
    <3>2. c \in B /\ h \in B /\ Owns(H, h, c) /\ d \in g[n][c] /\ d \in A
      BY <1>1, <2>2, <2>3, <3>1
    <3>3. d \in g[n + 1][h]
      BY <2>1, <3>1, <3>2, BelowToStep
    <3> QED
      BY <3>2, <3>3
  <2> QED
    BY <2>3, <2>4, <2>5
<1> HIDE DEF T
<1>6. \A n \in Nat : n \in T
  BY <1>4, <1>5, AllNaturals
<1> QED
  BY <1>6 DEF T, f, g

\* So with what an account reaches by the owner role.
LEMMA ReachedGrows ==
  ASSUME NEW G, NEW H, G \subseteq H, NEW A, NEW B, A \subseteq B, B \subseteq Holders, NEW a,
         NEW d \in Reached(G, A, a)
  PROVE  d \in A /\ d \in Reached(H, B, a)
<1>0. MaxOwnerDepth \in Nat /\ MaxOwnerDepth <= MaxOwnerDepth
  BY GrantAssumption
<1>1. PICK h \in A : Owns(G, a, h) /\ d \in Below(G, A)[h]
  BY DEF Reached
<1>2. h \in B /\ h \in Holders /\ Owns(H, a, h)
  BY <1>1 DEF Owns
<1>3. d \in A /\ d \in BelowTo(H, B)[MaxOwnerDepth][h]
  BY <1>0, <1>1, <1>2, BelowGrows, BelowIs
<1>4. d \in Below(H, B)[h]
  BY <1>3, BelowIs
<1> QED
  BY <1>2, <1>3, <1>4 DEF Reached

-----------------------------------------------------------------------------
(* Changes under the lock *)

\* Whoever is past the lock holds it.
LockHeld == \A x \in Changes : change[x].at \in {"locked", "approved"} => lock = x

\* A change that works on a grant names one, and a grant to be written has a granter.
ChangeNames ==
  \A x \in Changes :
    change[x].at # "idle" /\ change[x].kind # "sweep" =>
      change[x].key \in GrantKeys /\ change[x].who \in Holders

\* The granter of a grant that is about to be written has it to give.
ApprovedMayGive ==
  \A x \in Changes, w \in Holders, k \in GrantKeys :
    /\ change[x].at = "approved" /\ change[x].kind \in {"add", "addEligible"}
    /\ change[x].who = w /\ change[x].key = k
    => HasToGive(w, k)

\* A sweep that has read what ran out finds it as it was.
SeenRanOut ==
  \A x \in Changes :
    change[x].at = "approved" /\ change[x].kind = "sweep" =>
      \A k \in change[x].seen : switch[k] = "expired"

\* Until an account or an authenticator goes, a superadmin's grant is usable while it
\* is there; one is, and one other than the grant whose removal was approved.
SuperThere(K) == \E k \in K : IsSuper(k) /\ mode[k] # "none"
SuperStays ==
  unlocked = 0 =>
    /\ on2fa = Holders /\ enabledOf = Holders
    /\ SuperThere(GrantKeys)
    /\ \A x \in Changes :
         change[x].at = "approved" /\ change[x].kind = "remove" =>
           SuperThere(GrantKeys \ {change[x].key})

\* EndRecordedOnce, without its conditional.
EndsCount ==
  \A k \in GrantKeys :
    /\ switch[k] = "off" => ended[k] <= begun[k]
    /\ switch[k] # "off" => ended[k] + 1 <= begun[k]

GrantInv ==
  /\ GrantTypeOK /\ LockHeld /\ ChangeNames /\ ApprovedMayGive
  /\ SeenRanOut /\ SuperStays /\ EndsCount

\* It holds at the start.
LEMMA GrantInitInv == GrantInit => GrantInv
<1> SUFFICES ASSUME GrantInit PROVE GrantInv
  OBVIOUS
<1>1. \A x \in Changes : change[x] = IdleChange
  BY DEF GrantInit
<1>2. GrantTypeOK
  BY DEF GrantInit, GrantTypeOK, IdleChange, ChangeKinds
<1>3. LockHeld /\ ChangeNames /\ ApprovedMayGive /\ SeenRanOut
  <2>1. \A x \in Changes : change[x].at = "idle"
    BY <1>1 DEF IdleChange
  <2>2. LockHeld
    BY <2>1 DEF LockHeld
  <2>3. ChangeNames
    BY <2>1 DEF ChangeNames
  <2>4. ApprovedMayGive
    BY <2>1 DEF ApprovedMayGive
  <2>5. SeenRanOut
    BY <2>1 DEF SeenRanOut
  <2> QED
    BY <2>2, <2>3, <2>4, <2>5
<1>4. SuperStays
  <2>1. PICK k \in FirstGrants : k.scope = All /\ Wildcard \in CapsOf[k.role]
    BY GrantAssumption
  <2>2. k \in GrantKeys /\ IsSuper(k) /\ mode[k] # "none"
    BY <2>1, GrantAssumption DEF GrantInit, IsSuper
  <2> QED
    BY <1>1, <2>2 DEF SuperStays, SuperThere, IdleChange, GrantInit
<1>5. EndsCount
  BY DEF GrantInit, EndsCount
<1> QED
  BY <1>2, <1>3, <1>4, <1>5 DEF GrantInv

\* Whoever has it to give has it still when grants are added, or none changes.
LEMMA GiveGrows ==
  ASSUME \A g \in GrantKeys : mode[g] # "none" => mode'[g] # "none",
         NEW who, NEW k, HasToGive(who, k)
  PROVE  HasToGive(who, k)'
<1> DEFINE G == {g \in GrantKeys : mode[g] # "none"}
           H == {g \in GrantKeys : mode'[g] # "none"}
           far(d) == d \in Reached(G, Holders, who)
           near(d) == d \in Reached(H, Holders, who)
<1>1. G \subseteq H
  OBVIOUS
<1>2. \A c \in CapsOf[k.role] :
        \/ c \in OwnCaps /\ k.scope = OwnBox[who]
        \/ \E g \in G : /\ g.holder = who /\ Covers(g.scope, k.scope)
                        /\ {c, Wildcard} \intersect CapsOf[g.role] # {}
        \/ /\ {c, Wildcard} \intersect CapsOf[OwnerRole] # {}
           /\ \E d \in Reached(G, Holders, who) : k.scope = OwnBox[d]
  BY DEF HasToGive
<1>3. \A d \in Reached(G, Holders, who) : d \in Reached(H, Holders, who)
  <2> HIDE DEF G, H
  <2> QED
    BY <1>1, ReachedGrows
<1>4. \A c \in CapsOf[k.role] :
        \/ c \in OwnCaps /\ k.scope = OwnBox[who]
        \/ \E g \in H : /\ g.holder = who /\ Covers(g.scope, k.scope)
                        /\ {c, Wildcard} \intersect CapsOf[g.role] # {}
        \/ /\ {c, Wildcard} \intersect CapsOf[OwnerRole] # {}
           /\ \E d \in Reached(H, Holders, who) : k.scope = OwnBox[d]
  <2> HIDE DEF G, H
  <2> QED
    BY <1>1, <1>2, <1>3
<1> QED
  BY <1>4 DEF HasToGive, Reached, Below, Owns

\* What an approved granter gives it has.
LEMMA MayGive ==
  ASSUME NEW who \in Holders, enabledOf \subseteq Holders, NEW k \in GrantKeys,
         CanGrant(Load(who), CapsOf[k.role], k.scope)
  PROVE  HasToGive(who, k)
<1> DEFINE G == {g \in GrantKeys : mode[g] # "none"}
           F == {g \in GrantKeys : InForce(g)}
           Mine(c) == c \in OwnCaps /\ k.scope = OwnBox[who]
           Granted(c) == \E g \in G : /\ g.holder = who /\ Covers(g.scope, k.scope)
                                      /\ {c, Wildcard} \intersect CapsOf[g.role] # {}
           Under0(c) == /\ {c, Wildcard} \intersect CapsOf[OwnerRole] # {}
                        /\ \E d \in Reached(G, Holders, who) : k.scope = OwnBox[d]
<1> SUFFICES ASSUME NEW c \in CapsOf[k.role] PROVE Mine(c) \/ Granted(c) \/ Under0(c)
  BY DEF HasToGive
<1>0. F \subseteq G
  BY DEF InForce
<1>1. Allows(Load(who), c, k.scope)
  BY DEF CanGrant
<1>2. Allows(OwnEntries(who), c, k.scope)
  BY <1>1, LoadIsOwn, UnderAllows
<1>3. PICK e \in OwnEntries(who) : Gives(e, c) /\ Covers(e.scope, k.scope)
  BY <1>2 DEF Allows
<1>4. CASE e \in [scope : {OwnBox[who]}, cap : OwnCaps]
  <2>1. e.scope = OwnBox[who] /\ e.cap \in OwnCaps
    BY <1>4
  <2>2. OwnBox[who] \in Boxes /\ e.cap # Wildcard
    BY <2>1, GrantAssumption, CapAssumption
  <2>3. k.scope = OwnBox[who]
    BY <1>3, <2>1, <2>2, ScopeAssumption DEF Covers
  <2> QED
    BY <1>3, <2>1, <2>2, <2>3 DEF Gives
<1>5. CASE \E g \in F : g.holder = who /\ e \in [scope : {g.scope}, cap : CapsOf[g.role]]
  <2>1. PICK g \in F : g.holder = who /\ e \in [scope : {g.scope}, cap : CapsOf[g.role]]
    BY <1>5
  <2>2. e.scope = g.scope /\ e.cap \in CapsOf[g.role]
    BY <2>1
  <2>3. {c, Wildcard} \intersect CapsOf[g.role] # {} /\ Covers(g.scope, k.scope)
    BY <1>3, <2>2 DEF Gives
  <2>4. g \in G
    BY <1>0
  <2> HIDE DEF G, F
  <2> QED
    BY <2>1, <2>3, <2>4
<1>6. CASE e \in [scope : {OwnBox[d] : d \in Reached(F, enabledOf, who)}, cap : CapsOf[OwnerRole]]
  <2>1. PICK d \in Reached(F, enabledOf, who) : e.scope = OwnBox[d] /\ e.cap \in CapsOf[OwnerRole]
    BY <1>6
  <2> HIDE DEF G, F
  <2>2. d \in Reached(G, Holders, who) /\ d \in Holders
    BY <1>0, <2>1, ReachedGrows
  <2>3. OwnBox[d] \in Boxes
    BY <2>2, GrantAssumption
  <2>4. k.scope = OwnBox[d]
    BY <1>3, <2>1, <2>3, ScopeAssumption DEF Covers
  <2>5. {c, Wildcard} \intersect CapsOf[OwnerRole] # {}
    BY <1>3, <2>1 DEF Gives
  <2> QED
    BY <2>2, <2>4, <2>5
<1> DEFINE given == UNION {[scope : {g.scope}, cap : CapsOf[g.role]] : g \in {g \in F : g.holder = who}}
           reach == [scope : {OwnBox[d] : d \in Reached(F, enabledOf, who)}, cap : CapsOf[OwnerRole]]
<1>7. e \in given \/ e \in [scope : {OwnBox[who]}, cap : OwnCaps] \/ e \in reach
  <2>1. e \in given \union (IF who \in enabledOf THEN [scope : {OwnBox[who]}, cap : OwnCaps] ELSE {})
                    \union reach
    BY <1>3 DEF OwnEntries
  <2> HIDE DEF given, reach
  <2> QED
    BY <2>1
<1>8. CASE e \in given
  <2>1. PICK g \in {g \in F : g.holder = who} : e \in [scope : {g.scope}, cap : CapsOf[g.role]]
    BY <1>8
  <2> QED
    BY <1>5, <2>1
<1> HIDE DEF given, Mine, Granted, Under0, F
<1> QED
  BY <1>4, <1>6, <1>7, <1>8

\* Whoever may grant everything everywhere has a grant of it in force.
LEMMA SuperMayGive ==
  ASSUME NEW who \in Holders, enabledOf \subseteq Holders, NEW k, IsSuper(k),
         CanGrant(Load(who), CapsOf[k.role], k.scope)
  PROVE  \E g \in GrantKeys : InForce(g) /\ IsSuper(g)
<1> DEFINE F == {g \in GrantKeys : InForce(g)}
           given == UNION {[scope : {g.scope}, cap : CapsOf[g.role]] : g \in {g \in F : g.holder = who}}
           own == [scope : {OwnBox[who]}, cap : OwnCaps]
           reach == [scope : {OwnBox[d] : d \in Reached(F, enabledOf, who)}, cap : CapsOf[OwnerRole]]
<1>1. Allows(Load(who), Wildcard, All)
  BY DEF CanGrant, IsSuper
<1>11. Allows(OwnEntries(who), Wildcard, All)
  BY <1>1, LoadIsOwn, UnderAllows
<1>2. PICK e \in OwnEntries(who) : e.cap = Wildcard /\ Covers(e.scope, All)
  BY <1>11 DEF Allows, Gives
<1>3. e.scope = All
  BY <1>2, ScopeAssumption DEF Covers
<1>4. e \notin own
  BY <1>2, GrantAssumption, CapAssumption
<1>5. e \notin reach
  <2> SUFFICES ASSUME e \in reach PROVE FALSE
    OBVIOUS
  <2>1. PICK d \in Reached(F, enabledOf, who) : e.scope = OwnBox[d]
    OBVIOUS
  <2> HIDE DEF F, reach
  <2>2. d \in Holders
    BY <2>1, ReachedGrows
  <2> QED
    BY <1>3, <2>1, <2>2, GrantAssumption, ScopeAssumption
<1>6. e \in given
  <2>1. e \in given \union (IF who \in enabledOf THEN own ELSE {}) \union reach
    BY <1>2 DEF OwnEntries
  <2> HIDE DEF given, reach, own
  <2> QED
    BY <1>4, <1>5, <2>1
<1>7. PICK g \in {g \in F : g.holder = who} : e \in [scope : {g.scope}, cap : CapsOf[g.role]]
  BY <1>6
<1> QED
  BY <1>2, <1>3, <1>7 DEF IsSuper

\* So whoever was found to have it may give it after such a step too.
LEMMA ApprovedStays ==
  ASSUME \A g \in GrantKeys : mode[g] # "none" => mode'[g] # "none",
         \A y \in Changes : change'[y].at = "approved" /\ change'[y].kind \in {"add", "addEligible"} =>
           HasToGive(change'[y].who, change'[y].key)
  PROVE  ApprovedMayGive'
<1> SUFFICES ASSUME NEW y \in Changes, NEW w \in Holders, NEW k \in GrantKeys,
                    change'[y].at = "approved", change'[y].kind \in {"add", "addEligible"},
                    change'[y].who = w, change'[y].key = k
             PROVE  HasToGive(w, k)'
  BY DEF ApprovedMayGive
<1>1. HasToGive(w, k)
  OBVIOUS
<1> QED
  BY <1>1, GiveGrows

\* A change moves on and writes nothing yet.
LEMMA ChangeKeeps ==
  ASSUME GrantInv, NEW x \in Changes, NEW r,
         UNCHANGED <<rows, accounts, unlocked>>, changes' \in Nat,
         change' = [change EXCEPT ![x] = r],
         r.at \in {"idle", "asked", "locked", "approved"}, r.kind \in ChangeKinds,
         r \in [at : {"idle", "asked", "locked", "approved"}, kind : ChangeKinds,
                who : Holders \union {NoHolder}, key : GrantKeys \union {NoGrant},
                seen : SUBSET GrantKeys],
         \/ lock' = lock
         \/ lock = NoChange /\ lock' = x
         \/ lock = x /\ lock' = NoChange /\ r.at = "idle",
         r.at \in {"locked", "approved"} => lock' = x,
         r.at # "idle" /\ r.kind # "sweep" => r.key \in GrantKeys /\ r.who \in Holders,
         r.at = "approved" /\ r.kind \in {"add", "addEligible"} => HasToGive(r.who, r.key),
         r.at = "approved" /\ r.kind = "sweep" => \A k \in r.seen : switch[k] = "expired",
         r.at = "approved" /\ r.kind = "remove" /\ unlocked = 0 => SuperThere(GrantKeys \ {r.key})
  PROVE  GrantInv'
<1>0. /\ mode' = mode /\ switch' = switch /\ expiry' = expiry /\ begun' = begun /\ ended' = ended
      /\ on2fa' = on2fa /\ enabledOf' = enabledOf /\ unlocked' = unlocked
  BY DEF rows, accounts
<1>1. GrantTypeOK /\ LockHeld /\ ChangeNames /\ ApprovedMayGive /\ SeenRanOut /\ SuperStays /\ EndsCount
  BY DEF GrantInv
<1>2. DOMAIN change = Changes /\ NoChange \notin Changes
  BY <1>1, GrantAssumption DEF GrantTypeOK
<1>3. change'[x] = r /\ \A y \in Changes \ {x} : change'[y] = change[y]
  BY <1>2
<1>4. GrantTypeOK'
  <2>1. lock' \in Changes \union {NoChange}
    BY <1>1 DEF GrantTypeOK
  <2> QED
    BY <1>0, <1>1, <2>1 DEF GrantTypeOK
<1>5. LockHeld'
  <2> SUFFICES ASSUME NEW y \in Changes, change'[y].at \in {"locked", "approved"} PROVE lock' = y
    BY DEF LockHeld
  <2>1. CASE y = x
    BY <1>3, <2>1
  <2>2. CASE y # x
    BY <1>1, <1>2, <1>3, <2>2 DEF LockHeld
  <2> QED
    BY <2>1, <2>2
<1>6. ChangeNames'
  BY <1>1, <1>3 DEF ChangeNames
<1>7. ApprovedMayGive'
  <2>1. ASSUME NEW y \in Changes, change'[y].at = "approved", change'[y].kind \in {"add", "addEligible"}
        PROVE  HasToGive(change'[y].who, change'[y].key)
    <3>1. CASE y = x
      BY <1>3, <2>1, <3>1
    <3>2. CASE y # x
      BY <1>1, <1>3, <2>1, <3>2 DEF ApprovedMayGive, ChangeNames
    <3> QED
      BY <3>1, <3>2
  <2> QED
    BY <1>0, <2>1, ApprovedStays
<1>8. SeenRanOut'
  BY <1>0, <1>1, <1>3 DEF SeenRanOut
<1>9. SuperStays'
  BY <1>0, <1>1, <1>3 DEF SuperStays, SuperThere, IsSuper
<1>10. EndsCount'
  BY <1>0, <1>1 DEF EndsCount
<1> QED
  BY <1>4, <1>5, <1>6, <1>7, <1>8, <1>9, <1>10 DEF GrantInv

\* A transaction ends: nobody is past the lock any more.
LEMMA CommitKeeps ==
  ASSUME GrantInv, NEW x \in Changes, change[x].at \in {"locked", "approved"}, End(x),
         UNCHANGED <<accounts, changes, unlocked>>,
         mode' \in [GrantKeys -> {"none", "active", "eligible"}],
         switch' \in [GrantKeys -> {"off", "on", "expired"}],
         expiry' \in [GrantKeys -> {"never", "later", "past"}],
         begun' \in [GrantKeys -> Nat], ended' \in [GrantKeys -> Nat],
         EndsCount',
         unlocked = 0 => \E k \in GrantKeys : IsSuper(k) /\ mode'[k] # "none"
  PROVE  GrantInv'
<1>1. GrantTypeOK /\ LockHeld /\ ChangeNames /\ SuperStays
  BY DEF GrantInv
<1>2. DOMAIN change = Changes /\ NoChange \notin Changes
  BY <1>1, GrantAssumption DEF GrantTypeOK
<1>3. /\ change'[x].at = "idle"
      /\ \A y \in Changes \ {x} : change'[y] = change[y]
  BY <1>2 DEF End, IdleChange
<1>4. \A y \in Changes : change'[y].at \notin {"locked", "approved"}
  BY <1>1, <1>3 DEF LockHeld
<1>5. GrantTypeOK'
  BY <1>1 DEF GrantTypeOK, End, IdleChange, ChangeKinds, accounts
<1>6. LockHeld' /\ ChangeNames'
  BY <1>1, <1>3, <1>4 DEF LockHeld, ChangeNames
<1>7. ApprovedMayGive'
  BY <1>4 DEF ApprovedMayGive
<1>8. SeenRanOut'
  BY <1>4 DEF SeenRanOut
<1>9. SuperStays'
  BY <1>1, <1>4 DEF SuperStays, SuperThere, IsSuper, accounts
<1> QED
  BY <1>5, <1>6, <1>7, <1>8, <1>9 DEF GrantInv


\* Every step keeps the invariant.
LEMMA GrantNextInv ==
  ASSUME GrantInv, [GrantNext]_grantVars
  PROVE  GrantInv'
<1>1. /\ GrantTypeOK /\ LockHeld /\ ChangeNames /\ ApprovedMayGive /\ SeenRanOut /\ SuperStays
      /\ EndsCount
  BY DEF GrantInv
<1> DEFINE ChangeSet == [at : {"idle", "asked", "locked", "approved"}, kind : ChangeKinds,
                         who : Holders \union {NoHolder}, key : GrantKeys \union {NoGrant},
                         seen : SUBSET GrantKeys]
<1>2. /\ mode \in [GrantKeys -> {"none", "active", "eligible"}]
      /\ switch \in [GrantKeys -> {"off", "on", "expired"}]
  BY <1>1 DEF GrantTypeOK
<1>25. expiry \in [GrantKeys -> {"never", "later", "past"}] /\ enabledOf \subseteq Holders
  BY <1>1 DEF GrantTypeOK
<1>26. \A y \in Changes : change[y].at = "approved" /\ change[y].kind \in {"add", "addEligible"} =>
         HasToGive(change[y].who, change[y].key)
  BY <1>1 DEF ApprovedMayGive, ChangeNames
<1>23. begun \in [GrantKeys -> Nat] /\ ended \in [GrantKeys -> Nat]
  BY <1>1 DEF GrantTypeOK
<1>24. changes \in Nat /\ unlocked \in Nat
  BY <1>1 DEF GrantTypeOK
<1>22. /\ change \in [Changes -> ChangeSet] /\ changes \in Nat
       /\ lock \in Changes \union {NoChange} /\ NoChange \notin Changes
  BY <1>1, GrantAssumption DEF GrantTypeOK
<1>3. IdleChange \in ChangeSet /\ IdleChange.at = "idle"
  BY DEF IdleChange, ChangeKinds
<1>4. \A k \in GrantKeys :
        /\ ended[k] \in Nat /\ begun[k] \in Nat
        /\ switch[k] = "off" => ended[k] <= begun[k]
        /\ switch[k] # "off" => ended[k] + 1 <= begun[k]
  BY <1>1, <1>23 DEF EndsCount
<1>5. unlocked = 0 => \E k \in GrantKeys : IsSuper(k) /\ mode[k] # "none"
  BY <1>1 DEF SuperStays, SuperThere
<1>6. ASSUME NEW x \in Changes, change[x].at \in {"locked", "approved"}, Refuse(x) PROVE GrantInv'
  <2>1. mode' = mode /\ switch' = switch /\ expiry' = expiry /\ begun' = begun /\ ended' = ended
    BY <1>6 DEF Refuse, rows
  <2>2. EndsCount'
    BY <1>1, <2>1 DEF EndsCount
  <2> QED
    BY <1>2, <1>5, <1>6, <1>23, <1>25, <2>1, <2>2, CommitKeeps DEF Refuse
<1>7. CASE UNCHANGED grantVars
  <2>1. ApprovedMayGive'
    BY <1>7, <1>26, ApprovedStays DEF grantVars
  <2> QED
    BY <1>1, <1>7, <2>1 DEF grantVars, GrantInv, GrantTypeOK, LockHeld, ChangeNames,
       SeenRanOut, SuperStays, EndsCount, SuperThere, IsSuper
<1>8. CASE \E k \in GrantKeys : RunsOut(k) \/ Lapses(k)
  <2>1. PICK k \in GrantKeys : RunsOut(k) \/ Lapses(k)
    BY <1>8
  <2>2. /\ mode' = mode /\ begun' = begun /\ ended' = ended /\ on2fa' = on2fa
        /\ enabledOf' = enabledOf /\ lock' = lock /\ change' = change /\ changes' = changes
        /\ unlocked' = unlocked
    BY <2>1 DEF RunsOut, Lapses, accounts
  <2>9. expiry' \in [GrantKeys -> {"never", "later", "past"}]
    BY <1>25, <2>1 DEF RunsOut, Lapses
  <2>10. switch' = [switch EXCEPT ![k] = IF switch[k] = "on" THEN "expired" ELSE switch[k]]
    BY <1>2, <2>1 DEF RunsOut, Lapses
  <2>3. GrantTypeOK'
    BY <1>1, <2>2, <2>9, <2>10 DEF GrantTypeOK
  <2>4. LockHeld' /\ ChangeNames'
    BY <1>1, <2>2 DEF LockHeld, ChangeNames
  <2>5. ApprovedMayGive'
    BY <1>26, <2>2, ApprovedStays
  <2>11. SuperStays'
    BY <1>1, <2>2 DEF SuperStays, SuperThere, IsSuper
  <2>6. \A g \in GrantKeys :
          switch'[g] = switch[g] \/ (switch[g] = "on" /\ switch'[g] = "expired")
    <3>1. switch'[k] = IF switch[k] = "on" THEN "expired" ELSE switch[k]
      BY <1>2, <2>10
    <3>2. \A g \in GrantKeys : g # k => switch'[g] = switch[g]
      BY <1>2, <2>10
    <3> QED
      BY <3>1, <3>2
  <2>7. SeenRanOut'
    BY <1>1, <1>2, <1>22, <2>2, <2>6 DEF SeenRanOut
  <2>8. EndsCount'
    BY <1>4, <2>2, <2>6 DEF EndsCount
  <2> QED
    BY <2>3, <2>4, <2>5, <2>7, <2>8, <2>11 DEF GrantInv
<1>27. ASSUME NEW a \in Holders, NEW b \in Holders, GrantOwner(a, b) PROVE GrantInv'
  <2> DEFINE k == [holder |-> a, role |-> OwnerRole, scope |-> OwnBox[b]]
  <2>2. /\ begun' = begun /\ ended' = ended /\ on2fa' = on2fa /\ switch' = switch
        /\ expiry' = expiry /\ enabledOf' = enabledOf /\ lock' = lock /\ change' = change
        /\ changes' = changes + 1 /\ unlocked' = unlocked
        /\ k \in GrantKeys /\ mode' = [mode EXCEPT ![k] = "active"]
    BY <1>27 DEF GrantOwner, accounts
  <2> HIDE DEF k
  <2>3. GrantTypeOK'
    BY <1>1, <2>2 DEF GrantTypeOK
  <2>4. LockHeld' /\ ChangeNames' /\ SeenRanOut' /\ EndsCount'
    BY <1>1, <2>2 DEF LockHeld, ChangeNames, SeenRanOut, EndsCount
  <2>5. \A g \in GrantKeys : mode[g] # "none" => mode'[g] # "none"
    BY <1>2, <2>2
  <2>6. ApprovedMayGive'
    BY <1>26, <2>2, <2>5, ApprovedStays
  <2>7. SuperStays'
    BY <1>1, <2>2, <2>5 DEF SuperStays, SuperThere, IsSuper
  <2> QED
    BY <2>3, <2>4, <2>6, <2>7 DEF GrantInv
<1>9. CASE Unlocked
  <2>1. /\ mode' = mode /\ switch' = switch /\ expiry' = expiry /\ begun' = begun /\ ended' = ended
        /\ lock' = lock /\ change' = change /\ changes' = changes /\ unlocked' = unlocked + 1
    BY <1>9 DEF Unlocked, rows
  <2>0. unlocked' \in Nat /\ unlocked' # 0
    BY <1>24, <2>1
  <2>2. on2fa' \in SUBSET Holders /\ enabledOf' \in SUBSET Holders
    BY <1>1, <1>9 DEF Unlocked, GrantTypeOK
  <2>3. GrantTypeOK'
    BY <1>1, <2>0, <2>1, <2>2 DEF GrantTypeOK
  <2>4. LockHeld' /\ ChangeNames' /\ SeenRanOut' /\ EndsCount'
    BY <1>1, <2>1 DEF LockHeld, ChangeNames, SeenRanOut, EndsCount
  <2>5. ApprovedMayGive'
    BY <1>26, <2>1, ApprovedStays
  <2>6. SuperStays'
    BY <2>0 DEF SuperStays
  <2> QED
    BY <2>3, <2>4, <2>5, <2>6 DEF GrantInv
<1>10. ASSUME NEW x \in Changes, NEW k \in GrantKeys, NEW who \in Holders,
              NEW kind \in ChangeKinds \ {"none", "sweep"}, Ask(x, kind, who, k)
       PROVE  GrantInv'
  <2> DEFINE r == [IdleChange EXCEPT !.at = "asked", !.kind = kind, !.who = who, !.key = k]
  <2>1. r \in ChangeSet /\ r.at = "asked" /\ r.key = k /\ r.who = who /\ r.kind = kind
    BY <1>3 DEF IdleChange
  <2>2. change' = [change EXCEPT ![x] = r] /\ lock' = lock /\ changes' = changes + 1
        /\ UNCHANGED <<rows, accounts, unlocked>>
    BY <1>10 DEF Ask
  <2> HIDE DEF r
  <2>3. changes' \in Nat
    BY <1>24, <2>2
  <2> QED
    BY <1>22, <2>1, <2>2, <2>3, ChangeKeeps
<1>11. ASSUME NEW x \in Changes, AskSweep(x) PROVE GrantInv'
  <2> DEFINE r == [IdleChange EXCEPT !.at = "asked", !.kind = "sweep"]
  <2>1. r \in ChangeSet /\ r.at = "asked" /\ r.kind = "sweep"
    BY <1>3 DEF IdleChange, ChangeKinds
  <2>2. change' = [change EXCEPT ![x] = r] /\ lock' = lock /\ changes' = changes + 1
        /\ UNCHANGED <<rows, accounts, unlocked>>
    BY <1>11 DEF AskSweep
  <2> HIDE DEF r
  <2>3. changes' \in Nat
    BY <1>24, <2>2
  <2> QED
    BY <1>22, <2>1, <2>2, <2>3, ChangeKeeps
<1>12. ASSUME NEW x \in Changes, Lock(x) PROVE GrantInv'
  <2> DEFINE r == [change[x] EXCEPT !.at = "locked"]
  <2>1. change[x] \in ChangeSet /\ change[x].at = "asked"
    BY <1>22, <1>12 DEF Lock
  <2>2. r \in ChangeSet /\ r.at = "locked" /\ r.kind = change[x].kind /\ r.key = change[x].key
        /\ r.who = change[x].who
    BY <2>1
  <2>3. change' = [change EXCEPT ![x] = r] /\ lock = NoChange /\ lock' = x /\ changes' = changes
        /\ UNCHANGED <<rows, accounts, unlocked>>
    BY <1>12 DEF Lock, LockFree
  <2> HIDE DEF r
  <2>4. r.kind # "sweep" => r.key \in GrantKeys /\ r.who \in Holders
    BY <1>1, <2>1, <2>2 DEF ChangeNames
  <2> QED
    BY <1>22, <2>1, <2>2, <2>3, <2>4, ChangeKeeps
<1>13. ASSUME NEW x \in Changes, FindExpired(x) PROVE GrantInv'
  <2> DEFINE out == {k \in GrantKeys : switch[k] = "expired"}
             r == [change[x] EXCEPT !.at = "approved", !.seen = out]
  <2>1. change[x] \in ChangeSet /\ change[x].at = "locked" /\ change[x].kind = "sweep"
    BY <1>22, <1>13 DEF FindExpired
  <2>2. r \in ChangeSet /\ r.at = "approved" /\ r.kind = "sweep" /\ r.seen = out
    BY <2>1
  <2>3. change' = [change EXCEPT ![x] = r] /\ lock' = lock /\ changes' = changes
        /\ UNCHANGED <<rows, accounts, unlocked>>
    BY <1>22, <1>13 DEF FindExpired
  <2>4. lock = x
    BY <1>1, <2>1 DEF LockHeld
  <2>5. \A k \in out : switch[k] = "expired"
    OBVIOUS
  <2> HIDE DEF r, out
  <2> QED
    BY <1>22, <2>1, <2>2, <2>3, <2>4, <2>5, ChangeKeeps
<1>14. ASSUME NEW x \in Changes, Approve(x) PROVE GrantInv'
  <2> DEFINE r == [change[x] EXCEPT !.at = "approved"]
             k == change[x].key
  <2>1. change[x] \in ChangeSet /\ change[x].at = "locked"
        /\ change[x].kind \in {"add", "addEligible", "remove"}
    BY <1>22, <1>14 DEF Approve
  <2>2. CASE Approves(x) /\ change' = [change EXCEPT ![x].at = "approved"]
             /\ UNCHANGED <<rows, accounts, lock, changes, unlocked>>
    <3>1. r \in ChangeSet /\ r.at = "approved" /\ r.kind = change[x].kind /\ r.key = k
          /\ r.who = change[x].who
      BY <2>1
    <3>2. change' = [change EXCEPT ![x] = r] /\ lock' = lock /\ changes' = changes
          /\ UNCHANGED <<rows, accounts, unlocked>>
      BY <2>2
    <3>3. lock = x
      BY <1>1, <2>1 DEF LockHeld
    <3>4. k \in GrantKeys /\ change[x].who \in Holders
      BY <1>1, <2>1 DEF ChangeNames
    <3>5. CanGrant(Load(change[x].who), CapsOf[k.role], k.scope)
      BY <2>2 DEF Approves
    <3>6. HasToGive(change[x].who, k)
      BY <1>25, <3>4, <3>5, MayGive
    <3>7. ASSUME change[x].kind = "remove", unlocked = 0 PROVE SuperThere(GrantKeys \ {k})
      <4>1. Usable(k) => \E o \in GrantKeys \ {k} : Usable(o)
        BY <2>2, <3>7 DEF Approves
      <4>2. on2fa = Holders /\ enabledOf = Holders /\ SuperThere(GrantKeys)
        BY <1>1, <3>7 DEF SuperStays
      <4>3. \A g \in GrantKeys : g.holder \in Holders
        BY GrantAssumption
      <4>4. \A g \in GrantKeys : Usable(g) <=> IsSuper(g) /\ mode[g] # "none" /\ expiry[g] # "past"
        BY <1>2, <4>2, <4>3 DEF Usable
      <4>5. CASE ~IsSuper(k) \/ Usable(k)
        BY <3>4, <4>1, <4>2, <4>4, <4>5 DEF SuperThere
      <4>6. CASE IsSuper(k) /\ ~Usable(k)
        <5>1. mode[k] # "none"
          BY <2>2, <3>7 DEF Approves
        <5>2. expiry[k] = "past"
          BY <3>4, <4>4, <4>6, <5>1
        <5>3. PICK g \in GrantKeys : InForce(g) /\ IsSuper(g)
          BY <1>25, <3>4, <3>5, <4>6, SuperMayGive
        <5>4. g # k /\ mode[g] # "none"
          BY <5>2, <5>3 DEF InForce
        <5> QED
          BY <5>3, <5>4 DEF SuperThere
      <4> QED
        BY <4>5, <4>6
    <3> HIDE DEF r, k
    <3> QED
      BY <1>22, <2>1, <3>1, <3>2, <3>3, <3>4, <3>6, <3>7, ChangeKeeps
  <2>3. CASE Refuse(x)
    BY <1>6, <2>1, <2>3
  <2> QED
    BY <1>14, <2>2, <2>3 DEF Approve
<1>15. ASSUME NEW x \in Changes, change[x].at = "approved" \/ change[x].at = "locked",
              change[x].kind # "sweep"
       PROVE  change[x].key \in GrantKeys
  BY <1>1, <1>15 DEF ChangeNames
<1>16. ASSUME NEW x \in Changes, CommitAdd(x) PROVE GrantInv'
  <2> DEFINE k == change[x].key
             m == IF change[x].kind = "add" THEN "active" ELSE "eligible"
  <2>1. change[x].at = "approved" /\ change[x].kind \in {"add", "addEligible"}
    BY <1>16 DEF CommitAdd
  <2>2. k \in GrantKeys
    BY <1>15, <2>1
  <2>3. CASE Refuse(x)
    BY <1>6, <2>1, <2>3
  <2>4. CASE ~Refuse(x)
    <3>1. /\ mode' = [mode EXCEPT ![k] = m] /\ switch' = switch /\ begun' = begun /\ ended' = ended
          /\ End(x) /\ UNCHANGED <<accounts, changes, unlocked>>
      BY <1>16, <2>4 DEF CommitAdd
    <3>2. \E e \in {"never", "later"} : expiry' = [expiry EXCEPT ![k] = e]
      BY <1>16, <2>4 DEF CommitAdd
    <3>3. m \in {"active", "eligible"}
      OBVIOUS
    <3> HIDE DEF k, m
    <3>4. \A g \in GrantKeys : mode'[g] = IF g = k THEN m ELSE mode[g]
      BY <1>2, <2>2, <3>1
    <3>5. EndsCount'
      BY <1>1, <3>1 DEF EndsCount
    <3>6. mode' \in [GrantKeys -> {"none", "active", "eligible"}]
      BY <1>2, <2>2, <3>1, <3>3
    <3>7. expiry' \in [GrantKeys -> {"never", "later", "past"}]
      BY <1>25, <2>2, <3>2
    <3>8. unlocked = 0 => \E g \in GrantKeys : IsSuper(g) /\ mode'[g] # "none"
      BY <1>5, <3>3, <3>4
    <3> QED
      BY <1>2, <2>1, <3>1, <3>5, <3>6, <3>7, <3>8, <1>23, CommitKeeps
  <2> QED
    BY <2>3, <2>4
<1>17. ASSUME NEW x \in Changes, CommitRemove(x) PROVE GrantInv'
  <2> DEFINE k == change[x].key
             n == IF switch[k] = "on" THEN ended[k] + 1 ELSE ended[k]
  <2>1. change[x].at = "approved" /\ change[x].kind = "remove"
    BY <1>17 DEF CommitRemove
  <2>2. k \in GrantKeys
    BY <1>15, <2>1
  <2>3. /\ mode' = [mode EXCEPT ![k] = "none"] /\ switch' = [switch EXCEPT ![k] = "off"]
        /\ begun' = begun /\ ended' = [ended EXCEPT ![k] = n]
        /\ End(x) /\ UNCHANGED <<accounts, changes, unlocked>>
    BY <1>17 DEF CommitRemove
  <2>4. n \in Nat /\ n <= begun[k]
    BY <1>4, <2>2
  <2>5. unlocked = 0 => SuperThere(GrantKeys \ {k})
    BY <1>1, <2>1 DEF SuperStays
  <2> HIDE DEF k, n
  <2>10. \A g \in GrantKeys : /\ mode'[g] = (IF g = k THEN "none" ELSE mode[g])
                              /\ switch'[g] = IF g = k THEN "off" ELSE switch[g]
    BY <1>2, <2>2, <2>3
  <2>6. \A g \in GrantKeys : ended'[g] = IF g = k THEN n ELSE ended[g]
    BY <1>23, <2>2, <2>3
  <2>7. EndsCount'
    BY <1>4, <2>3, <2>4, <2>6, <2>10 DEF EndsCount
  <2>8. /\ mode' \in [GrantKeys -> {"none", "active", "eligible"}]
        /\ switch' \in [GrantKeys -> {"off", "on", "expired"}]
    BY <1>2, <2>2, <2>3
  <2>11. ended' \in [GrantKeys -> Nat]
    BY <1>23, <2>2, <2>3, <2>4
  <2>12. expiry' \in [GrantKeys -> {"never", "later", "past"}]
    BY <1>17, <1>25 DEF CommitRemove
  <2>9. unlocked = 0 => \E g \in GrantKeys : IsSuper(g) /\ mode'[g] # "none"
    BY <2>5, <2>10 DEF SuperThere
  <2> QED
    BY <1>2, <2>1, <2>3, <2>7, <2>8, <2>9, <2>11, <2>12, <1>23, CommitKeeps
<1>18. ASSUME NEW x \in Changes, Activate(x) PROVE GrantInv'
  <2> DEFINE k == change[x].key
             n == Noticed(k)
  <2>1. change[x].at = "locked" /\ change[x].kind = "activate"
    BY <1>18 DEF Activate
  <2>2. k \in GrantKeys
    BY <1>15, <2>1
  <2>3. CASE Refuse(x)
    BY <1>6, <2>1, <2>3
  <2>4. CASE ~Refuse(x)
    <3>1. /\ switch[k] # "on" /\ switch' = [switch EXCEPT ![k] = "on"]
          /\ ended' = [ended EXCEPT ![k] = n] /\ begun' = [begun EXCEPT ![k] = begun[k] + 1]
          /\ mode' = mode /\ expiry' = expiry /\ End(x) /\ UNCHANGED <<accounts, changes, unlocked>>
      BY <1>18, <2>4 DEF Activate
    <3>2. n \in Nat /\ n + 1 <= begun[k] + 1
      BY <1>4, <2>2, <3>1 DEF Noticed
    <3> HIDE DEF k, n
    <3>6. \A g \in GrantKeys : switch'[g] = IF g = k THEN "on" ELSE switch[g]
      BY <1>2, <2>2, <3>1
    <3>3. \A g \in GrantKeys : /\ ended'[g] = (IF g = k THEN n ELSE ended[g])
                               /\ begun'[g] = IF g = k THEN begun[k] + 1 ELSE begun[g]
      BY <1>23, <2>2, <3>1
    <3>4. EndsCount'
      BY <1>4, <2>2, <3>2, <3>3, <3>6 DEF EndsCount
    <3>5. switch' \in [GrantKeys -> {"off", "on", "expired"}]
      BY <1>2, <2>2, <3>1
    <3>7. ended' \in [GrantKeys -> Nat] /\ begun' \in [GrantKeys -> Nat]
      BY <1>23, <2>2, <3>1, <3>2
    <3> QED
      BY <1>2, <1>5, <2>1, <3>1, <3>4, <3>5, <3>7, <1>23, <1>25, CommitKeeps
  <2> QED
    BY <2>3, <2>4
<1>19. ASSUME NEW x \in Changes, Deactivate(x) PROVE GrantInv'
  <2> DEFINE k == change[x].key
  <2>1. change[x].at = "locked" /\ change[x].kind = "deactivate"
    BY <1>19 DEF Deactivate
  <2>2. k \in GrantKeys
    BY <1>15, <2>1
  <2>3. CASE Refuse(x)
    BY <1>6, <2>1, <2>3
  <2>4. CASE ~Refuse(x)
    <3>1. /\ switch[k] = "on" /\ switch' = [switch EXCEPT ![k] = "off"]
          /\ ended' = [ended EXCEPT ![k] = ended[k] + 1] /\ begun' = begun
          /\ mode' = mode /\ expiry' = expiry /\ End(x) /\ UNCHANGED <<accounts, changes, unlocked>>
      BY <1>19, <2>4 DEF Deactivate
    <3> HIDE DEF k
    <3>6. \A g \in GrantKeys : switch'[g] = IF g = k THEN "off" ELSE switch[g]
      BY <1>2, <2>2, <3>1
    <3>3. \A g \in GrantKeys : ended'[g] = IF g = k THEN ended[k] + 1 ELSE ended[g]
      BY <1>23, <2>2, <3>1
    <3>4. EndsCount'
      BY <1>4, <2>2, <3>1, <3>3, <3>6 DEF EndsCount
    <3>5. switch' \in [GrantKeys -> {"off", "on", "expired"}]
      BY <1>2, <2>2, <3>1
    <3>7. ended' \in [GrantKeys -> Nat]
      BY <1>23, <2>2, <3>1
    <3> QED
      BY <1>2, <1>5, <2>1, <3>1, <3>4, <3>5, <3>7, <1>23, <1>25, CommitKeeps
  <2> QED
    BY <2>3, <2>4
<1>20. ASSUME NEW x \in Changes, MakeEligible(x) PROVE GrantInv'
  <2> DEFINE k == change[x].key
  <2>1. change[x].at = "locked" /\ change[x].kind = "makeEligible"
    BY <1>20 DEF MakeEligible
  <2>2. k \in GrantKeys
    BY <1>15, <2>1
  <2>3. CASE Refuse(x)
    BY <1>6, <2>1, <2>3
  <2>4. CASE ~Refuse(x)
    <3>1. /\ mode' = [mode EXCEPT ![k] = "eligible"] /\ switch' = switch /\ begun' = begun
          /\ ended' = ended /\ expiry' = expiry /\ End(x)
          /\ UNCHANGED <<accounts, changes, unlocked>>
      BY <1>20, <2>4 DEF MakeEligible
    <3> HIDE DEF k
    <3>2. \A g \in GrantKeys : mode'[g] = IF g = k THEN "eligible" ELSE mode[g]
      BY <1>2, <2>2, <3>1
    <3>3. EndsCount'
      BY <1>1, <3>1 DEF EndsCount
    <3>4. mode' \in [GrantKeys -> {"none", "active", "eligible"}]
      BY <1>2, <2>2, <3>1
    <3>5. unlocked = 0 => \E g \in GrantKeys : IsSuper(g) /\ mode'[g] # "none"
      BY <1>5, <3>2
    <3> QED
      BY <1>2, <2>1, <3>1, <3>3, <3>4, <3>5, <1>23, <1>25, CommitKeeps
  <2> QED
    BY <2>3, <2>4
<1>21. ASSUME NEW x \in Changes, CommitSweep(x) PROVE GrantInv'
  <2> DEFINE seen == change[x].seen
  <2>1. change[x].at = "approved" /\ change[x].kind = "sweep"
    BY <1>21 DEF CommitSweep
  <2>2. /\ ended' = [k \in GrantKeys |-> IF k \in seen THEN ended[k] + 1 ELSE ended[k]]
        /\ switch' = [k \in GrantKeys |-> IF k \in seen THEN "off" ELSE switch[k]]
        /\ mode' = mode /\ expiry' = expiry /\ begun' = begun /\ End(x)
        /\ UNCHANGED <<accounts, changes, unlocked>>
    BY <1>21 DEF CommitSweep
  <2>3. \A k \in seen : switch[k] = "expired"
    BY <1>1, <2>1 DEF SeenRanOut
  <2> HIDE DEF seen
  <2>4. EndsCount'
    BY <1>4, <2>2, <2>3 DEF EndsCount
  <2>5. switch' \in [GrantKeys -> {"off", "on", "expired"}]
    BY <1>2, <2>2
  <2>6. ended' \in [GrantKeys -> Nat]
    BY <1>23, <2>2
  <2> QED
    BY <1>2, <1>5, <2>1, <2>2, <2>4, <2>5, <2>6, <1>23, <1>25, CommitKeeps
<1> QED
  BY <1>7, <1>8, <1>9, <1>10, <1>11, <1>12, <1>13, <1>14, <1>16, <1>17, <1>18, <1>19,
     <1>20, <1>21, <1>27
     DEF GrantNext

\* Whatever changes overlap: until an account or an authenticator goes, or a
\* superadmin's grant lapses, somebody can grant; no end of an activation is recorded
\* twice; and an owned account holds nothing that its owner was not granted (Remove,
\* Authorize, endExpired, loadBounded).
THEOREM GrantsAlwaysHold == GrantSpec => []GrantsHold
<1>1. GrantInv => GrantsHold
  <2> SUFFICES ASSUME GrantInv PROVE GrantsHold
    OBVIOUS
  <2>1. GrantTypeOK /\ SuperStays /\ EndsCount
    BY DEF GrantInv
  <2>4. EndRecordedOnce
    <3> SUFFICES ASSUME NEW k \in GrantKeys
                 PROVE  ended[k] + (IF switch[k] # "off" THEN 1 ELSE 0) <= begun[k]
      BY DEF EndRecordedOnce
    <3>1. ended[k] \in Nat /\ begun[k] \in Nat
      BY <2>1 DEF GrantTypeOK
    <3>2. CASE switch[k] = "off"
      BY <2>1, <3>1, <3>2 DEF EndsCount
    <3>3. CASE switch[k] # "off"
      BY <2>1, <3>1, <3>3 DEF EndsCount
    <3> QED
      BY <3>2, <3>3
  <2>2. SuperadminRemains
    <3> SUFFICES ASSUME unlocked = 0, \A k \in GrantKeys : IsSuper(k) => expiry[k] # "past"
                 PROVE  \E k \in GrantKeys : Usable(k)
      BY DEF SuperadminRemains
    <3>1. on2fa = Holders /\ enabledOf = Holders
      BY <2>1 DEF SuperStays
    <3>2. PICK k \in GrantKeys : IsSuper(k) /\ mode[k] # "none"
      BY <2>1 DEF SuperStays, SuperThere
    <3>3. k.holder \in Holders
      BY <3>2, GrantAssumption
    <3> QED
      BY <2>1, <3>1, <3>2, <3>3 DEF Usable, GrantTypeOK
  <2>3. OwnedIsBounded
    BY <2>1, OwnedBounded DEF GrantTypeOK
  <2> QED
    BY <2>2, <2>3, <2>4 DEF GrantsHold
<1>2. GrantInv /\ [GrantNext]_grantVars => GrantInv'
  BY GrantNextInv
<1> QED
  BY <1>1, <1>2, GrantInitInv, PTL DEF GrantSpec

\* Nobody grants what was taken from them while they asked: the granter of every
\* grant that was asked for has its capabilities when it is written (Authorize under
\* Lock), and a grant nobody asked for is the owner role on an account, which another
\* one has created or linked (grantOwner).
THEOREM GrantersHaveIt == GrantSpec => GrantedWithinHeld
<1> DEFINE Given(k) ==
      \E x \in Changes : /\ change[x].at = "approved" /\ change[x].key = k
                         /\ change'[x] # change[x] /\ HasToGive(change[x].who, k)
           Owned(k) ==
             /\ change' = change /\ k.role = OwnerRole
             /\ \E b \in Holders \ {k.holder} : k.scope = OwnBox[b]
           A == \A k \in GrantKeys : mode[k] = "none" /\ mode'[k] # "none" =>
                  \/ Given(k)
                  \/ Owned(k)
<1>1. GrantInv /\ [GrantNext]_grantVars => [A]_grantVars
  <2> SUFFICES ASSUME GrantInv, GrantNext PROVE A
    OBVIOUS
  <2>0. /\ mode \in [GrantKeys -> {"none", "active", "eligible"}] /\ DOMAIN change = Changes
        /\ ChangeNames /\ ApprovedMayGive
    BY DEF GrantInv, GrantTypeOK
  <2>1. ASSUME NEW x \in Changes, CommitAdd(x), NEW k \in GrantKeys, mode[k] = "none", mode'[k] # "none"
        PROVE  Given(k)
    <3>1. change[x].at = "approved" /\ change[x].kind \in {"add", "addEligible"}
      BY <2>1 DEF CommitAdd
    <3>2. change[x].key = k /\ End(x)
      BY <2>0, <2>1 DEF CommitAdd, Refuse, rows
    <3>3. HasToGive(change[x].who, k)
      BY <2>0, <3>1, <3>2 DEF ApprovedMayGive, ChangeNames
    <3>4. change'[x].at = "idle"
      BY <2>0, <3>2 DEF End, IdleChange
    <3>5. change'[x] # change[x]
      BY <3>1, <3>4
    <3> QED
      BY <3>1, <3>2, <3>3, <3>5
  <2>6. ASSUME NEW a \in Holders, NEW b \in Holders, GrantOwner(a, b),
               NEW k \in GrantKeys, mode[k] = "none", mode'[k] # "none"
        PROVE  Owned(k)
    <3>1. k = [holder |-> a, role |-> OwnerRole, scope |-> OwnBox[b]]
      BY <2>0, <2>6 DEF GrantOwner
    <3> QED
      BY <2>6, <3>1 DEF GrantOwner
  <2> DEFINE NoneWritten == \A k \in GrantKeys : mode[k] = "none" => mode'[k] = "none"
  <2>2. ASSUME NEW x \in Changes, CommitRemove(x) \/ MakeEligible(x) \/ Activate(x) \/ Deactivate(x)
        PROVE  NoneWritten
    BY <2>0, <2>2 DEF CommitRemove, MakeEligible, Activate, Deactivate, Refuse, rows
  <2>3. ASSUME NEW x \in Changes, AskSweep(x) \/ Lock(x) \/ Approve(x) \/ FindExpired(x) \/ CommitSweep(x)
        PROVE  NoneWritten
    BY <2>3 DEF AskSweep, Lock, Approve, FindExpired, CommitSweep, Refuse, rows
  <2>4. ASSUME NEW x \in Changes, NEW k \in GrantKeys, NEW who, NEW kind, Ask(x, kind, who, k) PROVE NoneWritten
    BY <2>4 DEF Ask, rows
  <2>5. ASSUME (\E k \in GrantKeys : RunsOut(k) \/ Lapses(k)) \/ Unlocked PROVE NoneWritten
    BY <2>5 DEF RunsOut, Lapses, Unlocked, rows
  <2> HIDE DEF Given, Owned
  <2> QED
    BY <2>1, <2>2, <2>3, <2>4, <2>5, <2>6 DEF GrantNext
<1>2. GrantInv /\ [GrantNext]_grantVars => GrantInv'
  BY GrantNextInv
<1>3. GrantSpec => [][A]_grantVars
  <2> HIDE DEF A
  <2> QED
    BY <1>1, <1>2, GrantInitInv, PTL DEF GrantSpec
<1> QED
  BY <1>3 DEF GrantedWithinHeld

-----------------------------------------------------------------------------
(* The audit log *)

Appenders == Writers \union Replicas
Active(r) == replica[r].stage # "idle"

\* Some accepted anchor has this head.
IsAnchored(head) == \E j \in 1 .. Len(anchors) : anchors[j].head = head

\* The log has the entry this head names.
IsLogged(head) == head.seq \in 1 .. Len(log) /\ log[head.seq].hash = head.hash

Stages == {"idle", "due", "accepted", "refused"}
ReplicaSet == [stage : Stages, at : Nat, head : AnchorSet, last : AnchorSet, tries : Nat]

\* The types the argument needs.
ShapeOK ==
  /\ log \in Seq(EntrySet) /\ anchors \in Seq([head : AnchorSet, last : AnchorSet])
  /\ pending \in [Appenders -> EntrySet]
  /\ replica \in [Replicas -> ReplicaSet]
  /\ clock \in Nat /\ lost \in Nat /\ hashes \in Nat

\* An entry that is not committed is its appender's, who has the lock, and
\* continues the log.
PendingIsNext ==
  \A w \in Appenders : pending[w] # NoEntry =>
    /\ holder = w
    /\ pending[w].seq = Len(log) + 1
    /\ pending[w].prev = HeadOf(log).hash

\* One replica publishes at a time, what it publishes is logged, it names an
\* anchor from before, and only one that has an answer records it.
ReplicaInv ==
  /\ \A r, q \in Replicas : Active(r) /\ Active(q) => r = q
  /\ \A r \in Replicas :
       /\ Active(r) => IsLogged(replica[r].head)
       /\ Active(r) => replica[r].last = Genesis \/ IsAnchored(replica[r].last)
       /\ replica[r].stage = "accepted" => IsAnchored(replica[r].head)
       /\ pending[r] # NoEntry => replica[r].stage \in {"accepted", "refused"}

\* What is recorded as an anchor was accepted.
RecordedIsAnchored ==
  /\ \A i \in 1 .. Len(log) : log[i].kind = "anchored" => IsAnchored(log[i].head)
  /\ \A w \in Appenders : pending[w].kind = "anchored" => IsAnchored(pending[w].head)

\* The log has grown since the last anchor when the next one is due, unless nobody
\* heard of it; and the last anchor is the one whose acceptance is to be recorded.
Since(last, head) == last.seq < head.seq \/ (last = head /\ last \in unheard)
GrownSince ==
  anchors # <<>> =>
    LET last == anchors[Len(anchors)].head IN
    /\ (\A r \in Replicas : ~Active(r)) => last.seq < Len(log) \/ last \in unheard
    /\ \A r \in Replicas : replica[r].stage \in {"due", "refused"} => Since(last, replica[r].head)
    /\ \A r \in Replicas : replica[r].stage = "accepted" => last = replica[r].head

AnchorsLogged == \A i \in 1 .. Len(anchors) : IsLogged(anchors[i].head)

AuditInv ==
  /\ ShapeOK /\ PendingIsNext /\ ReplicaInv /\ RecordedIsAnchored /\ GrownSince
  /\ AnchorsLogged /\ LogIsProvable

-----------------------------------------------------------------------------
\* A set of positions has a last one.
LEMMA MaxOfPositions ==
  ASSUME NEW n \in Nat, NEW S \in SUBSET (1 .. n), S # {}
  PROVE  Max(S) \in S /\ \A j \in S : Max(S) >= j
<1> DEFINE T == {n - i : i \in S}
           R == OpToRel(<, Nat)
<1>1. \A i \in S : i \in Nat /\ n - i \in Nat
  OBVIOUS
<1>2. T \subseteq Nat /\ T # {}
  <2>1. T \subseteq Nat BY <1>1
  <2>2. T # {} OBVIOUS
  <2> QED BY <2>1, <2>2
<1>3. \A x, y \in Nat : x < y => <<x, y>> \in R
  BY DEF OpToRel
<1>4. IsWellFoundedOn(R, Nat)
  BY NatLessThanWellFounded
<1>5. \E m \in T : \A k \in T : m <= k
  <2> HIDE DEF T, R
  <2>1. PICK m \in T : \A k \in T : ~(<<k, m>> \in R)
    BY <1>2, <1>4, WFMin
  <2>2. ASSUME NEW k \in T PROVE m <= k
    <3>1. k \in Nat /\ m \in Nat
      BY <1>2
    <3>2. ~(<<k, m>> \in R)
      BY <2>1
    <3>3. ~(k < m)
      BY <1>3, <3>1, <3>2
    <3> QED
      BY <3>1, <3>3
  <2> QED
    BY <2>2
<1>6. PICK m \in T : \A k \in T : m <= k
  BY <1>5
<1>7. PICK i \in S : m = n - i
  OBVIOUS
<1>8. \A j \in S : i >= j
  BY <1>1, <1>6, <1>7
<1> QED
  BY <1>8 DEF Max

\* The anchor before, if there is one, was accepted.
LEMMA PreviousIsAnchored ==
  ASSUME ShapeOK, RecordedIsAnchored
  PROVE  /\ Previous.head \in AnchorSet
         /\ Previous.head = Genesis \/ IsAnchored(Previous.head)
<1> DEFINE S == {i \in 1 .. Len(log) : log[i].kind \in {"anchored"}}
<1>1. Len(log) \in Nat
  BY DEF ShapeOK
<1>2. CASE S = {}
  BY <1>2 DEF Previous, LastOf, NoEntry, Genesis, AnchorSet
<1>3. CASE S # {}
  <2>1. Max(S) \in S
    BY <1>1, <1>3, MaxOfPositions
  <2>2. Previous = log[Max(S)]
    BY <1>3 DEF Previous, LastOf
  <2>3. log[Max(S)] \in EntrySet
    BY <2>1 DEF ShapeOK
  <2> QED
    BY <2>1, <2>2, <2>3 DEF RecordedIsAnchored, EntrySet
<1> QED
  BY <1>2, <1>3

\* The head of the log.
LEMMA HeadIsLogged ==
  ASSUME ShapeOK, ChainHolds
  PROVE  /\ HeadOf(log) \in AnchorSet /\ HeadOf(log).seq = Len(log)
         /\ log # <<>> => IsLogged(HeadOf(log)) /\ HeadOf(log).hash = log[Len(log)].hash
         /\ log = <<>> => HeadOf(log) = Genesis
<1>1. CASE log = <<>>
  BY <1>1 DEF HeadOf, Genesis, AnchorSet
<1>2. CASE log # <<>>
  <2>1. Len(log) \in 1 .. Len(log) /\ log[Len(log)] \in EntrySet
    BY <1>2 DEF ShapeOK
  <2>2. HeadOf(log) = [seq |-> log[Len(log)].seq, hash |-> log[Len(log)].hash]
    BY <1>2 DEF HeadOf, Last
  <2>3. log[Len(log)].seq = Len(log)
    BY <2>1 DEF ChainHolds
  <2> QED
    BY <1>2, <2>1, <2>2, <2>3 DEF EntrySet, AnchorSet, IsLogged
<1> QED
  BY <1>1, <1>2

\* What Append does to a sequence.
LEMMA AppendFacts ==
  ASSUME NEW E, NEW s \in Seq(E), NEW e \in E
  PROVE  /\ Append(s, e) \in Seq(E)
         /\ Len(Append(s, e)) = Len(s) + 1
         /\ \A i \in 1 .. Len(s) : Append(s, e)[i] = s[i]
         /\ Append(s, e)[Len(s) + 1] = e
  OBVIOUS

\* The log has the entry of the last anchor.
LEMMA LastAnchorLogged ==
  ASSUME ShapeOK, AnchorsLogged, anchors # <<>>
  PROVE  /\ anchors[Len(anchors)].head \in AnchorSet
         /\ IsLogged(anchors[Len(anchors)].head)
<1> DEFINE n == Len(anchors)
           S == [head : AnchorSet, last : AnchorSet]
<1>1. anchors \in Seq(S)
  BY DEF ShapeOK
<1> HIDE DEF S
<1>2. n \in 1 .. n
  BY <1>1
<1>3. anchors[n] \in S
  BY <1>1, <1>2
<1> QED
  BY <1>2, <1>3 DEF AnchorsLogged, S

\* At the start log and anchors are empty.
LEMMA AuditInitInv == AuditInit => AuditInv
<1> SUFFICES ASSUME AuditInit PROVE AuditInv
  OBVIOUS
<1>1. NoEntry \in EntrySet /\ Genesis \in AnchorSet
  BY DEF NoEntry, EntrySet, EntryKinds, Genesis, AnchorSet
<1>2. IdleReplica \in ReplicaSet
  BY <1>1 DEF IdleReplica, Stages, ReplicaSet
<1>3. ShapeOK
  BY <1>1, <1>2 DEF AuditInit, ShapeOK, Appenders
<1>4. \A r \in Replicas : ~Active(r)
  BY DEF AuditInit, Active, IdleReplica
<1>5. PendingIsNext
  BY DEF AuditInit, PendingIsNext, Appenders
<1>6. ReplicaInv
  BY <1>4 DEF AuditInit, ReplicaInv, Active, Appenders, IdleReplica
<1>7. RecordedIsAnchored
  BY DEF AuditInit, RecordedIsAnchored, Appenders, NoEntry
<1>8. GrownSince /\ AnchorsLogged /\ LogIsProvable
  BY DEF AuditInit, GrownSince, AnchorsLogged, LogIsProvable, ChainHolds, AnchorsChain
<1> QED
  BY <1>3, <1>5, <1>6, <1>7, <1>8 DEF AuditInv

\* A transaction that appends: its entry continues the log, and nobody else has one.
LEMMA AppendKeeps ==
  ASSUME AuditInv, NEW w \in Appenders, NEW kind \in EntryKinds, NEW at \in Nat,
         NEW head \in AnchorSet, AppendEntry(w, kind, at, head),
         kind = "anchored" => IsAnchored(head),
         w \in Replicas => replica[w].stage \in {"accepted", "refused"},
         UNCHANGED <<log, replica, anchors, unheard, clock, lost>>
  PROVE  AuditInv'
<1> DEFINE e == [seq |-> HeadOf(log).seq + 1, hash |-> hashes + 1, prev |-> HeadOf(log).hash,
                 kind |-> kind, at |-> at, head |-> head]
<1>1. ShapeOK /\ ChainHolds
  BY DEF AuditInv, LogIsProvable
<1>2. HeadOf(log) \in AnchorSet /\ HeadOf(log).seq = Len(log)
  BY <1>1, HeadIsLogged
<1>3. e \in EntrySet
  BY <1>1, <1>2 DEF EntrySet, AnchorSet, ShapeOK
<1>4. pending' = [pending EXCEPT ![w] = e] /\ holder' = w /\ hashes' = hashes + 1
  BY DEF AppendEntry
<1>5. \A v \in Appenders : pending[v] = NoEntry
  BY AuditAssumption DEF AuditInv, PendingIsNext, AppendEntry, AppendLockFree,
     Appenders
<1>6. /\ e.seq = Len(log) + 1 /\ e.prev = HeadOf(log).hash /\ e.kind = kind /\ e.head = head
  BY <1>2
<1> HIDE DEF e
<1>7. pending'[w] = e /\ \A v \in Appenders \ {w} : pending'[v] = pending[v]
  BY <1>1, <1>4 DEF ShapeOK
<1>8. ShapeOK'
  BY <1>1, <1>3, <1>4 DEF ShapeOK
<1>9. PendingIsNext'
  BY <1>4, <1>5, <1>6, <1>7 DEF PendingIsNext, HeadOf
<1>10. ReplicaInv'
  BY <1>5, <1>7 DEF AuditInv, ReplicaInv, Active, IsLogged, IsAnchored, Appenders
<1>11. RecordedIsAnchored'
  BY <1>6, <1>7 DEF AuditInv, RecordedIsAnchored, IsAnchored
<1>12. GrownSince' /\ AnchorsLogged' /\ LogIsProvable'
  BY DEF AuditInv, GrownSince, Since, Active, AnchorsLogged, IsLogged, LogIsProvable,
     ChainHolds, AnchorsChain
<1> QED
  BY <1>8, <1>9, <1>10, <1>11, <1>12 DEF AuditInv

\* A transaction that ends: the log has its entry at its end, or nothing but a loss
\* remains of it.
LEMMA EndKeeps ==
  ASSUME AuditInv, NEW w \in Appenders, pending[w] # NoEntry, Commit(w) \/ Rollback(w),
         \/ w \in Writers /\ UNCHANGED <<replica, unheard>>
         \/ /\ w \in Replicas /\ replica' = [replica EXCEPT ![w] = IdleReplica]
            /\ unheard' = IF Rollback(w) /\ replica[w].stage = "accepted"
                          THEN unheard \union {replica[w].head} ELSE unheard,
         UNCHANGED <<anchors, clock, hashes>>
  PROVE  AuditInv'
<1>1. ShapeOK /\ ChainHolds /\ AnchorsChain /\ AnchorsLogged
  BY DEF AuditInv, LogIsProvable
<1>2. holder = w /\ pending[w].seq = Len(log) + 1 /\ pending[w].prev = HeadOf(log).hash
  BY DEF AuditInv, PendingIsNext
<1>3. \A v \in Appenders : pending'[v] = NoEntry
  BY <1>1, <1>2 DEF AuditInv, PendingIsNext, Commit, Rollback, Leave, ShapeOK
<1>4. IdleReplica.stage = "idle"
      /\ IdleReplica \in ReplicaSet
  BY DEF IdleReplica, Stages, Genesis, AnchorSet, ReplicaSet
<1>5. /\ replica' \in [Replicas -> ReplicaSet]
      /\ \A r \in Replicas : replica'[r] = replica[r] \/ replica'[r].stage = "idle"
  BY <1>1, <1>4 DEF ShapeOK
<1>6. /\ Len(log) <= Len(log') /\ log' \in Seq(EntrySet)
      /\ \A i \in 1 .. Len(log) : log'[i] = log[i]
  <2>1. CASE Commit(w)
    BY <1>1, <2>1, AppendFacts DEF ShapeOK, Commit
  <2>2. CASE Rollback(w)
    BY <1>1, <2>2 DEF ShapeOK, Rollback
  <2> QED
    BY <2>1, <2>2
<1>7. ShapeOK'
  <2>1. pending' \in [Appenders -> EntrySet]
    <3>1. NoEntry \in EntrySet
      BY DEF NoEntry, EntrySet, EntryKinds, AnchorSet, Genesis
    <3> QED
      BY <1>1, <3>1 DEF ShapeOK, Commit, Rollback, Leave
  <2>2. lost' \in Nat
    BY <1>1 DEF ShapeOK, Commit, Rollback
  <2> QED
    BY <1>1, <1>5, <1>6, <2>1, <2>2 DEF ShapeOK
<1>8. PendingIsNext'
  BY <1>3 DEF PendingIsNext
<1>9. ReplicaInv'
  <2>1. \A r, q \in Replicas : Active(r)' /\ Active(q)' => r = q
    BY <1>5 DEF AuditInv, ReplicaInv, Active
  <2>2. ASSUME NEW r \in Replicas, Active(r)'
        PROVE  /\ IsLogged(replica[r].head)'
               /\ replica'[r].last = Genesis \/ IsAnchored(replica[r].last)'
               /\ replica'[r].stage = "accepted" => IsAnchored(replica[r].head)'
    <3>1. replica'[r] = replica[r] /\ Active(r)
      BY <1>5, <2>2 DEF Active
    <3>2. replica[r].head \in AnchorSet /\ replica[r].last \in AnchorSet
      BY <1>1 DEF ShapeOK, ReplicaSet
    <3>3. /\ IsLogged(replica[r].head)
          /\ replica[r].last = Genesis \/ IsAnchored(replica[r].last)
          /\ replica[r].stage = "accepted" => IsAnchored(replica[r].head)
      BY <3>1 DEF AuditInv, ReplicaInv
    <3>4. IsLogged(replica[r].head)'
      <4>1. Len(log) \in Nat /\ Len(log') \in Nat /\ replica[r].head.seq \in Nat
        BY <1>1, <1>6, <3>2 DEF ShapeOK, AnchorSet
      <4> QED
        BY <1>6, <3>1, <3>3, <4>1 DEF IsLogged
    <3> QED
      BY <3>1, <3>3, <3>4 DEF IsAnchored
  <2>3. \A r \in Replicas : pending'[r] = NoEntry
    BY <1>3 DEF Appenders
  <2> QED
    BY <2>1, <2>2, <2>3 DEF ReplicaInv, Active
<1>10. RecordedIsAnchored'
  <2>1. \A v \in Appenders : pending'[v].kind # "anchored"
    BY <1>3 DEF NoEntry
  <2>2. ASSUME NEW i \in 1 .. Len(log'), log'[i].kind = "anchored"
        PROVE  IsAnchored(log[i].head)'
    <3>1. CASE i \in 1 .. Len(log)
      BY <1>6, <2>2, <3>1 DEF AuditInv, RecordedIsAnchored, IsAnchored
    <3>2. CASE i \notin 1 .. Len(log)
      <4>1. Commit(w)
        BY <1>1, <3>2 DEF Rollback
      <4>2. i = Len(log) + 1 /\ log'[i] = pending[w]
        BY <1>1, <3>2, <4>1, AppendFacts DEF Commit, ShapeOK
      <4> QED
        BY <2>2, <4>2 DEF AuditInv, RecordedIsAnchored, IsAnchored
    <3> QED
      BY <3>1, <3>2
  <2> QED
    BY <2>1, <2>2 DEF RecordedIsAnchored
<1>11. AnchorsLogged'
  BY <1>1, <1>6, <1>7 DEF AnchorsLogged, IsLogged, ShapeOK
<1>12. GrownSince'
  <2> SUFFICES ASSUME anchors # <<>> PROVE GrownSince'
    BY DEF GrownSince
  <2> DEFINE last == anchors[Len(anchors)].head
  <2>1. last \in AnchorSet /\ last.seq <= Len(log) /\ last.seq \in Nat /\ Len(log) \in Nat
    BY <1>1, LastAnchorLogged DEF IsLogged, ShapeOK
  <2>2. /\ (\A r \in Replicas : ~Active(r)) => last.seq < Len(log) \/ last \in unheard
        /\ \A r \in Replicas : replica[r].stage \in {"due", "refused"} => Since(last, replica[r].head)
        /\ \A r \in Replicas : replica[r].stage = "accepted" => last = replica[r].head
    BY DEF AuditInv, GrownSince
  <2>3. unheard \subseteq unheard'
    OBVIOUS
  <2>4. anchors' = anchors
    OBVIOUS
  <2> HIDE DEF last
  <2>5. \A r \in Replicas : replica'[r].stage \in {"due", "refused"} =>
          Since(last, replica[r].head)'
    <3> SUFFICES ASSUME NEW r \in Replicas, replica'[r].stage \in {"due", "refused"}
                 PROVE  last.seq < replica'[r].head.seq \/ (last = replica'[r].head /\ last \in unheard')
      BY <2>4 DEF Since, last
    <3>1. replica'[r] = replica[r]
      BY <1>5
    <3> QED
      BY <2>2, <2>3, <3>1 DEF Since
  <2>6. \A r \in Replicas : replica'[r].stage = "accepted" => last = replica'[r].head
    BY <1>5, <2>2
  <2>7. (\A r \in Replicas : ~Active(r)') => last.seq < Len(log') \/ last \in unheard'
    <3>1. CASE Commit(w)
      <4>1. Len(log') = Len(log) + 1
        BY <1>1, <3>1, AppendFacts DEF Commit, ShapeOK
      <4> QED
        BY <2>1, <4>1
    <3>2. CASE Rollback(w) /\ w \in Writers /\ UNCHANGED <<replica, unheard>>
      <4>1. log' = log
        BY <3>2 DEF Rollback
      <4> QED
        BY <2>2, <3>2, <4>1 DEF Active
    <3>3. CASE Rollback(w) /\ w \in Replicas
               /\ unheard' = IF Rollback(w) /\ replica[w].stage = "accepted"
                             THEN unheard \union {replica[w].head} ELSE unheard
      <4>1. log' = log
        BY <3>3 DEF Rollback
      <4>2. replica[w].stage \in {"accepted", "refused"} /\ IsLogged(replica[w].head)
        BY <3>3 DEF AuditInv, ReplicaInv, Active
      <4>3. replica[w].head.seq \in Nat /\ replica[w].head.seq <= Len(log)
        BY <1>1, <3>3, <4>2 DEF ShapeOK, ReplicaSet, AnchorSet, IsLogged
      <4>4. CASE replica[w].stage = "accepted"
        BY <2>2, <3>3, <4>4
      <4>5. CASE replica[w].stage = "refused"
        <5>1. last.seq < replica[w].head.seq \/ last \in unheard
          BY <2>2, <3>3, <4>5 DEF Since
        <5> QED
          BY <2>1, <2>3, <4>1, <4>3, <5>1
      <4> QED
        BY <4>2, <4>4, <4>5
    <3> QED
      BY <3>1, <3>2, <3>3
  <2> QED
    BY <2>4, <2>5, <2>6, <2>7 DEF GrownSince, last
<1>13. ChainHolds'
  <2>1. CASE Commit(w)
    <3>1. Len(log') = Len(log) + 1 /\ log'[Len(log) + 1] = pending[w]
      BY <1>1, <2>1, AppendFacts DEF Commit, ShapeOK
    <3>2. HeadOf(log).hash = IF Len(log) + 1 = 1 THEN Genesis.hash ELSE log[Len(log)].hash
      BY <1>1, HeadIsLogged DEF ShapeOK
    <3>3. ChainHolds'
      <4>1. ASSUME NEW i \in 1 .. Len(log')
            PROVE  /\ log'[i].seq = i
                   /\ log'[i].prev = IF i = 1 THEN Genesis.hash ELSE log'[i - 1].hash
        <5>1. CASE i \in 1 .. Len(log)
          <6>1. i - 1 \in 1 .. Len(log) \/ i = 1
            BY <5>1
          <6> QED
            BY <1>1, <1>6, <5>1, <6>1 DEF ChainHolds
        <5>2. CASE i \notin 1 .. Len(log)
          <6>1. i = Len(log) + 1 /\ (i # 1 => i - 1 \in 1 .. Len(log) /\ i - 1 = Len(log))
            BY <1>1, <3>1, <5>2 DEF ShapeOK
          <6> QED
            BY <1>2, <1>6, <3>1, <3>2, <6>1
        <5> QED
          BY <5>1, <5>2
      <4> QED
        BY <4>1 DEF ChainHolds
    <3> QED
      BY <3>3
  <2>2. CASE Rollback(w)
    BY <1>1, <2>2 DEF Rollback, ChainHolds
  <2> QED
    BY <2>1, <2>2
<1>14. AnchorsChain'
  <2>1. unheard \subseteq unheard'
    OBVIOUS
  <2> QED
    BY <1>1, <1>11, <2>1 DEF AnchorsChain, AnchorsLogged, IsLogged
<1> QED
  BY <1>7, <1>8, <1>9, <1>10, <1>11, <1>12, <1>13, <1>14 DEF AuditInv, LogIsProvable

\* A replica's check finds the head of the log, and the anchor before it.
LEMMA CheckKeeps ==
  ASSUME AuditInv, NEW r \in Replicas, Check(r)
  PROVE  AuditInv'
<1> DEFINE new == [stage |-> "due", at |-> clock, head |-> HeadOf(log), last |-> Previous.head,
                  tries |-> 0]
<1>1. /\ ShapeOK /\ ChainHolds /\ RecordedIsAnchored /\ PendingIsNext /\ GrownSince
      /\ ReplicaInv /\ AnchorsLogged /\ AnchorsChain
  BY DEF AuditInv, LogIsProvable
<1>2. UNCHANGED <<log, holder, pending, anchors, unheard, clock, lost, hashes>>
  BY DEF Check
<1>3. PendingIsNext' /\ RecordedIsAnchored' /\ AnchorsLogged' /\ ChainHolds' /\ AnchorsChain'
  BY <1>1, <1>2 DEF PendingIsNext, RecordedIsAnchored, IsAnchored, AnchorsLogged,
     IsLogged,
     ChainHolds, AnchorsChain, HeadOf
<1>4. CASE UNCHANGED replica
  BY <1>1, <1>2, <1>3, <1>4 DEF AuditInv, LogIsProvable, ShapeOK, ReplicaInv, Active,
     IsLogged,
     IsAnchored, GrownSince, Since
<1>5. CASE log # <<>> /\ replica' = [replica EXCEPT ![r] = new]
  <2>1. HeadOf(log) \in AnchorSet /\ IsLogged(HeadOf(log)) /\ HeadOf(log).seq = Len(log)
    BY <1>1, <1>5, HeadIsLogged
  <2>2. /\ Previous.head \in AnchorSet
        /\ Previous.head = Genesis \/ IsAnchored(Previous.head)
    BY <1>1, PreviousIsAnchored
  <2>3. new \in ReplicaSet
    BY <1>1, <2>1, <2>2 DEF ShapeOK, Stages, ReplicaSet
  <2>4. new.stage = "due" /\ new.head = HeadOf(log) /\ new.last = Previous.head
    OBVIOUS
  <2> HIDE DEF new
  <2>5. replica'[r] = new /\ \A q \in Replicas \ {r} : replica'[q] = replica[q]
    BY <1>1, <1>5 DEF ShapeOK
  <2>6. \A q \in Replicas : ~Active(q)
    BY DEF Check, TryLock, Active
  <2>7. ShapeOK'
    BY <1>1, <1>2, <1>5, <2>3 DEF ShapeOK
  <2>8. ReplicaInv'
    <3>1. \A q \in Replicas : pending[q] = NoEntry
      BY <1>1, <2>6 DEF ReplicaInv, Active
    <3>2. \A q \in Replicas \ {r} : ~Active(q)'
      BY <2>5, <2>6 DEF Active
    <3>3. /\ IsLogged(replica[r].head)'
          /\ replica'[r].last = Genesis \/ IsAnchored(replica[r].last)'
          /\ replica'[r].stage # "accepted"
      BY <1>2, <2>1, <2>2, <2>4, <2>5 DEF IsLogged, IsAnchored
    <3> QED
      BY <1>2, <3>1, <3>2, <3>3 DEF ReplicaInv, Active
  <2>9. GrownSince'
    <3> SUFFICES ASSUME anchors # <<>> PROVE GrownSince'
      BY <1>2 DEF GrownSince
    <3> DEFINE last == anchors[Len(anchors)].head
    <3>1. Active(r)'
      BY <2>4, <2>5 DEF Active
    <3>2. last.seq < Len(log) \/ last \in unheard
      BY <1>1, <2>6 DEF GrownSince
    <3>3. last \in AnchorSet /\ IsLogged(last)
      BY <1>1, LastAnchorLogged
    <3>4. last.seq < HeadOf(log).seq \/ (last = HeadOf(log) /\ last \in unheard)
      <4>1. CASE last.seq < Len(log)
        BY <2>1, <4>1
      <4>2. CASE ~(last.seq < Len(log))
        <5>1. last.seq = Len(log) /\ last.hash = HeadOf(log).hash
          <6>1. Len(log) \in Nat /\ last.seq \in 1 .. Len(log)
            BY <1>1, <3>3 DEF ShapeOK, IsLogged
          <6>2. last.seq = Len(log)
            BY <4>2, <6>1
          <6> QED
            BY <2>1, <3>3, <6>2 DEF IsLogged
        <5>2. last = HeadOf(log)
          BY <2>1, <3>3, <5>1 DEF AnchorSet
        <5> QED
          BY <3>2, <4>2, <5>2
      <4> QED
        BY <4>1, <4>2
    <3>5. \A q \in Replicas : replica'[q].stage # "idle" => q = r
      BY <2>5, <2>6 DEF Active
    <3>6. replica'[r].head = HeadOf(log) /\ replica'[r].stage = "due"
      BY <2>4, <2>5
    <3> HIDE DEF last
    <3>7. \A q \in Replicas : replica'[q].stage \in {"due", "refused"} => Since(last, replica[q].head)'
      BY <1>2, <3>4, <3>5, <3>6 DEF Since, last
    <3>8. \A q \in Replicas : replica'[q].stage # "accepted"
      BY <3>5, <3>6
    <3> QED
      BY <1>2, <3>1, <3>7, <3>8 DEF GrownSince, last
  <2> QED
    BY <1>3, <2>7, <2>8, <2>9 DEF AuditInv, LogIsProvable
<1> QED
  BY <1>4, <1>5 DEF Check, ToPublish

\* A target accepts or refuses what a replica brings, and its answer may be lost.
LEMMA DeliverKeeps ==
  ASSUME AuditInv, NEW r \in Replicas, Deliver(r)
  PROVE  AuditInv'
<1> DEFINE a == [head |-> replica[r].head, last |-> replica[r].last]
           s == replica'[r].stage
           Taken == /\ anchors' = Append(anchors, a)
                    /\ \/ s = "accepted" /\ unheard' = unheard
                       \/ s \in {"due", "refused"} /\ unheard' = unheard \union {replica[r].head}
           Left == /\ anchors' = anchors /\ unheard' = unheard /\ s \in {"due", "refused"}
<1>1. /\ ShapeOK /\ ChainHolds /\ RecordedIsAnchored /\ PendingIsNext /\ GrownSince
      /\ ReplicaInv /\ AnchorsLogged /\ AnchorsChain
  BY DEF AuditInv, LogIsProvable
<1>2. UNCHANGED <<log, holder, pending, clock, hashes>> /\ replica[r].stage = "due"
  BY DEF Deliver
<1>21. Again(r) \in {"due", "refused"}
  BY DEF Again
<1>22. replica \in [Replicas -> ReplicaSet] /\ replica[r].tries \in Nat /\ lost \in Nat
  BY <1>1 DEF ShapeOK, ReplicaSet
<1>3. \/ replica' = [replica EXCEPT ![r].stage = "accepted"] /\ lost' = lost
      \/ \E g \in {"due", "refused"} :
           replica' = [replica EXCEPT ![r].stage = g, ![r].tries = replica[r].tries + 1] /\ lost' = lost + 1
  BY <1>21 DEF Deliver, Failed
<1>4. /\ replica' \in [Replicas -> ReplicaSet] /\ lost' \in Nat
      /\ \A q \in Replicas \ {r} : replica'[q] = replica[q]
      /\ replica'[r].stage \in {"due", "accepted", "refused"}
      /\ \A q \in Replicas : replica'[q].head = replica[q].head /\ replica'[q].last = replica[q].last
  <2>1. CASE replica' = [replica EXCEPT ![r].stage = "accepted"] /\ lost' = lost
    BY <1>22, <2>1 DEF Stages, ReplicaSet
  <2>2. ASSUME NEW g \in {"due", "refused"},
               replica' = [replica EXCEPT ![r].stage = g, ![r].tries = replica[r].tries + 1],
               lost' = lost + 1
        PROVE  /\ replica' \in [Replicas -> ReplicaSet] /\ lost' \in Nat
               /\ \A q \in Replicas \ {r} : replica'[q] = replica[q]
               /\ replica'[r].stage \in {"due", "accepted", "refused"}
               /\ \A q \in Replicas : replica'[q].head = replica[q].head /\ replica'[q].last = replica[q].last
    BY <1>22, <2>2 DEF Stages, ReplicaSet
  <2> QED
    BY <1>3, <2>1, <2>2
<1>41. Taken \/ Left
  <2>1. CASE Accepted(r) /\ replica' = [replica EXCEPT ![r].stage = "accepted"] /\ UNCHANGED unheard
    BY <1>22, <2>1 DEF Accepted, ReplicaSet
  <2>2. ASSUME NEW g \in {"due", "refused"}, Failed(r, g) PROVE s = g
    BY <1>22, <2>2 DEF Failed, ReplicaSet
  <2>3. CASE Accepted(r) /\ Failed(r, Again(r)) /\ unheard' = unheard \union {replica[r].head}
    BY <1>21, <2>2, <2>3 DEF Accepted
  <2>4. CASE (\E g \in {Again(r), "refused"} : Failed(r, g)) /\ UNCHANGED <<anchors, unheard>>
    BY <1>21, <2>2, <2>4
  <2> QED
    BY <2>1, <2>3, <2>4 DEF Deliver
<1>5. \A q \in Replicas : Active(q)' <=> Active(q)
  BY <1>2, <1>4 DEF Active
<1>6. CASE Taken
  <2>1. a \in [head : AnchorSet, last : AnchorSet] /\ a.head = replica[r].head /\ a.last = replica[r].last
    BY <1>1 DEF ShapeOK, ReplicaSet
  <2> HIDE DEF a
  <2>2. /\ anchors' \in Seq([head : AnchorSet, last : AnchorSet])
        /\ Len(anchors') = Len(anchors) + 1 /\ anchors'[Len(anchors) + 1] = a
        /\ \A i \in 1 .. Len(anchors) : anchors'[i] = anchors[i]
    BY <1>1, <1>6, <2>1, AppendFacts DEF ShapeOK
  <2>3. Len(anchors) \in Nat /\ Active(r) /\ IsLogged(a.head)
    BY <1>1, <1>2, <2>1 DEF ShapeOK, ReplicaInv, Active
  <2>4. ShapeOK'
    BY <1>1, <1>2, <1>4, <2>2 DEF ShapeOK
  <2>5. \A h : (\E j \in 1 .. Len(anchors) : anchors[j].head = h)
                 => \E j \in 1 .. Len(anchors') : anchors'[j].head = h
    BY <2>2, <2>3
  <2>6. ReplicaInv'
    <3>1. IsAnchored(replica[r].head)'
      BY <1>4, <2>1, <2>2, <2>3 DEF IsAnchored
    <3>2. ASSUME NEW q \in Replicas, Active(q)'
          PROVE  /\ IsLogged(replica[q].head)'
                 /\ replica'[q].last = Genesis \/ IsAnchored(replica[q].last)'
      <4>1. /\ IsLogged(replica[q].head)
            /\ replica[q].last = Genesis \/ IsAnchored(replica[q].last)
        BY <1>1, <1>5, <3>2 DEF ReplicaInv
      <4>2. IsLogged(replica[q].head)'
        BY <1>2, <1>4, <4>1 DEF IsLogged
      <4> QED
        BY ZenonT(60), <1>4, <2>5, <4>1, <4>2 DEF IsAnchored
    <3>3. ASSUME NEW q \in Replicas, replica'[q].stage = "accepted"
          PROVE  IsAnchored(replica[q].head)'
      <4>1. CASE q = r
        BY <3>1, <4>1
      <4>2. CASE q # r
        BY ZenonT(60), <1>1, <1>4, <2>5, <3>3, <4>2 DEF ReplicaInv, IsAnchored
      <4> QED
        BY <4>1, <4>2
    <3>4. \A q \in Replicas : pending'[q] # NoEntry => replica'[q].stage \in {"accepted",
    "refused"}
      BY <1>1, <1>2, <1>4 DEF ReplicaInv
    <3>5. \A p, q \in Replicas : Active(p)' /\ Active(q)' => p = q
      BY <1>1, <1>5 DEF ReplicaInv
    <3> QED
      BY <3>2, <3>3, <3>4, <3>5 DEF ReplicaInv
  <2>7. RecordedIsAnchored'
    BY <1>1, <1>2, <2>5 DEF RecordedIsAnchored, IsAnchored
  <2>8. GrownSince'
    <3>1. \A q \in Replicas : replica'[q].stage # "idle" => q = r
      BY <1>1, <1>2, <1>4 DEF ReplicaInv, Active
    <3>2. anchors'[Len(anchors')].head = replica'[r].head /\ replica'[r].head = replica[r].head
      BY <1>4, <2>1, <2>2
    <3>3. s \in {"due", "refused"} => replica'[r].head \in unheard'
      BY <1>6, <3>2
    <3>4. Active(r)'
      BY <1>5, <2>3
    <3> QED
      BY <3>1, <3>2, <3>3, <3>4 DEF GrownSince, Since
  <2>9. AnchorsLogged'
    BY <1>1, <1>2, <2>2, <2>3 DEF AnchorsLogged, IsLogged
  <2>10. AnchorsChain'
    <3>1. ASSUME NEW i \in 1 .. Len(anchors')
          PROVE  /\ log'[anchors'[i].head.seq].hash = anchors'[i].head.hash
                 /\ \/ anchors'[i].last = Genesis
                    \/ \E j \in 1 .. (i - 1) : anchors'[j].head = anchors'[i].last
      <4>1. CASE i \in 1 .. Len(anchors)
        <5>1. \A j \in 1 .. (i - 1) : j \in 1 .. Len(anchors)
          BY <2>3, <4>1
        <5> QED
          BY <1>1, <1>2, <2>2, <4>1, <5>1 DEF AnchorsChain
      <4>2. CASE i \notin 1 .. Len(anchors)
        <5>1. i = Len(anchors) + 1
          BY <2>2, <2>3, <4>2
        <5>2. a.last = Genesis \/ \E j \in 1 .. Len(anchors) : anchors[j].head = a.last
          BY <1>1, <2>1, <2>3 DEF ReplicaInv, IsAnchored
        <5>3. i - 1 = Len(anchors) /\ anchors'[i] = a
          BY <2>2, <2>3, <5>1
        <5> QED
          BY <1>2, <2>2, <2>3, <5>2, <5>3 DEF IsLogged
      <4> QED
        BY <4>1, <4>2
    <3>2. ASSUME NEW i \in 2 .. Len(anchors')
          PROVE  \/ anchors'[i - 1].head.seq < anchors'[i].head.seq
                 \/ anchors'[i - 1].head = anchors'[i].head /\ anchors'[i].head \in unheard'
      <4>1. CASE i \in 1 .. Len(anchors)
        <5>1. i \in 2 .. Len(anchors) /\ i - 1 \in 1 .. Len(anchors)
          BY <2>3, <4>1
        <5>2. unheard \subseteq unheard'
          BY <1>6
        <5> QED
          BY <1>1, <2>2, <4>1, <5>1, <5>2 DEF AnchorsChain
      <4>2. CASE i \notin 1 .. Len(anchors)
        <5>1. i - 1 = Len(anchors) /\ Len(anchors) \in 1 .. Len(anchors) /\ anchors'[i] = a
          BY <2>2, <2>3, <4>2
        <5>2. unheard \subseteq unheard'
          BY <1>6
        <5>3. Since(anchors[Len(anchors)].head, replica[r].head)
          BY <1>1, <1>2, <5>1 DEF GrownSince, ShapeOK
        <5> QED
          BY <2>1, <2>2, <5>1, <5>2, <5>3 DEF Since
      <4> QED
        BY <4>1, <4>2
    <3> QED
      BY <3>1, <3>2 DEF AnchorsChain
  <2> QED
    BY <1>1, <1>2, <2>4, <2>6, <2>7, <2>8, <2>9, <2>10
    DEF AuditInv, LogIsProvable, ChainHolds, PendingIsNext, HeadOf
<1>7. CASE Left
  <2>1. ShapeOK'
    BY <1>1, <1>2, <1>4, <1>7 DEF ShapeOK
  <2>2. ReplicaInv'
    <3>1. \A q \in Replicas : replica'[q].stage = "accepted" => replica[q].stage = "accepted"
      BY <1>4, <1>7
    <3>2. \A q \in Replicas : pending'[q] # NoEntry => replica'[q].stage \in {"accepted", "refused"}
      BY <1>1, <1>2, <1>4 DEF ReplicaInv
    <3> QED
      BY <1>1, <1>2, <1>4, <1>5, <1>7, <3>1, <3>2 DEF ReplicaInv, IsLogged, IsAnchored
  <2>3. GrownSince'
    <3>1. \A q \in Replicas : replica'[q].stage \in {"due", "refused"} =>
            replica[q].stage \in {"due", "refused"}
      BY <1>2, <1>4
    <3>2. \A q \in Replicas : replica'[q].stage = "accepted" => replica[q].stage = "accepted"
      BY <1>4, <1>7
    <3> QED
      BY <1>1, <1>2, <1>4, <1>5, <1>7, <3>1, <3>2 DEF GrownSince, Since
  <2>4. ChainHolds' /\ PendingIsNext'
    BY <1>1, <1>2 DEF ChainHolds, PendingIsNext, HeadOf
  <2>5. RecordedIsAnchored' /\ AnchorsLogged' /\ AnchorsChain'
    BY <1>1, <1>2, <1>7 DEF RecordedIsAnchored, IsAnchored, IsLogged, AnchorsLogged, AnchorsChain
  <2> QED
    BY <2>1, <2>2, <2>3, <2>4, <2>5 DEF AuditInv, LogIsProvable
<1> QED
  BY <1>6, <1>7, <1>41

\* Every step keeps the invariant.
LEMMA AuditNextInv ==
  ASSUME AuditInv, [AuditNext]_auditVars
  PROVE  AuditInv'
<1>1. ASSUME NEW w \in Writers, NEW kind \in {"change", "other"}, Write(w, kind)
      PROVE  AuditInv'
  <2>1. /\ w \in Appenders /\ w \notin Replicas /\ kind \in EntryKinds /\ kind # "anchored"
        /\ clock \in Nat /\ Genesis \in AnchorSet
    BY AuditAssumption DEF Appenders, EntryKinds, AuditInv, ShapeOK, Genesis,
       AnchorSet
  <2> QED
    BY <1>1, <2>1, AppendKeeps DEF Write
<1>2. ASSUME NEW w \in Writers, EndWrite(w) PROVE AuditInv'
  BY <1>2, EndKeeps DEF EndWrite, Appenders
<1>3. ASSUME NEW r \in Replicas, Record(r) PROVE AuditInv'
  <2> DEFINE kind == IF replica[r].stage = "accepted" THEN "anchored" ELSE "failed"
  <2>1. /\ r \in Appenders /\ kind \in EntryKinds
        /\ replica[r].at \in Nat /\ replica[r].head \in AnchorSet
    BY DEF Appenders, EntryKinds, AuditInv, ShapeOK, ReplicaSet
  <2>2. kind = "anchored" => IsAnchored(replica[r].head)
    BY DEF AuditInv, ReplicaInv
  <2>3. AppendEntry(r, kind, replica[r].at, replica[r].head)
    BY <1>3 DEF Record
  <2> QED
    BY <1>3, <2>1, <2>2, <2>3, AppendKeeps DEF Record
<1>4. ASSUME NEW r \in Replicas, EndCheck(r) PROVE AuditInv'
  <2>1. unheard' = IF Rollback(r) /\ replica[r].stage = "accepted"
                   THEN unheard \union {replica[r].head} ELSE unheard
    <3>1. CASE Commit(r) /\ UNCHANGED unheard
      <4>1. Rollback(r) => lost' # lost
        BY DEF Rollback, AuditInv, ShapeOK
      <4>2. ~Rollback(r)
        BY <3>1, <4>1 DEF Commit
      <4> QED
        BY <3>1, <4>2
    <3>2. CASE Rollback(r) /\ unheard' = IF replica[r].stage = "accepted"
                                         THEN unheard \union {replica[r].head} ELSE unheard
      BY <3>2
    <3> QED
      BY <1>4, <3>1, <3>2 DEF EndCheck
  <2> QED
    BY <1>4, <2>1, EndKeeps DEF EndCheck, Appenders
<1>5. CASE TimePasses \/ UNCHANGED auditVars
  <2>1. UNCHANGED <<log, holder, pending, replica, anchors, unheard, lost, hashes>>
    BY <1>5 DEF TimePasses, auditVars
  <2>2. ShapeOK'
    BY <1>5, <2>1 DEF TimePasses, auditVars, AuditInv, ShapeOK
  <2>3. PendingIsNext' /\ RecordedIsAnchored'
    BY <2>1 DEF AuditInv, PendingIsNext, HeadOf, RecordedIsAnchored, IsAnchored
  <2>4. ReplicaInv'
    BY <2>1 DEF AuditInv, ReplicaInv, Active, IsLogged, IsAnchored
  <2>5. GrownSince' /\ AnchorsLogged'
    BY <2>1 DEF AuditInv, GrownSince, Since, Active, AnchorsLogged, IsLogged
  <2>6. LogIsProvable'
    BY <2>1 DEF AuditInv, LogIsProvable, ChainHolds, AnchorsChain
  <2> QED
    BY <2>2, <2>3, <2>4, <2>5, <2>6 DEF AuditInv
<1> QED
  BY <1>1, <1>2, <1>3, <1>4, <1>5, CheckKeeps, DeliverKeeps DEF AuditNext

\* The log is one chain without a gap, whatever transactions overlap or are rolled
\* back, and every accepted anchor names an entry of it and the anchor before
\* (Append, publishExtra).
THEOREM LogAndAnchorsProve == AuditSpec => []LogIsProvable
<1>1. AuditInv /\ [AuditNext]_auditVars => AuditInv'
  BY AuditNextInv
<1>2. AuditInv => LogIsProvable
  BY DEF AuditInv
<1> QED
  BY <1>1, <1>2, AuditInitInv, PTL DEF AuditSpec

-----------------------------------------------------------------------------
(* The time of the anchors *)

\* Entries are in the order of their times, none is of the future, and what is not
\* committed or recorded yet is of this moment.
TimesInOrder ==
  /\ \A i \in 1 .. Len(log) : log[i].at <= clock
  /\ \A i, j \in 1 .. Len(log) : i <= j => log[i].at <= log[j].at
OfThisMoment ==
  /\ \A w \in Appenders : pending[w] # NoEntry => pending[w].at = clock
  /\ \A r \in Replicas : Active(r) => replica[r].at = clock
  /\ \A r \in Replicas : pending[r] # NoEntry => pending[r].kind \in {"anchored", "failed"}
  /\ \A w \in Writers : pending[w] # NoEntry => pending[w].kind \in {"change", "other"}

\* A change that no anchor covers.
Uncovered == {i \in 1 .. Len(log) : log[i].kind = "change" /\ i > Previous.head.seq}

\* It has waited for an hour at the most, and for less once a replica has checked.
WaitedAnHour ==
  \A i \in Uncovered : clock <= log[i].at + Hour \/ clock <= Attempt.at + Hour
WaitsOn ==
  checked => \A i \in Uncovered : clock < log[i].at + Hour \/ clock < Attempt.at + Hour

TimeInv == checked \in BOOLEAN /\ TimesInOrder /\ OfThisMoment /\ WaitedAnHour /\ WaitsOn

\* The last entry of some kinds.
LEMMA LastOfIs ==
  ASSUME ShapeOK, NEW kinds
  PROVE  \/ LastOf(kinds) = NoEntry /\ \A i \in 1 .. Len(log) : log[i].kind \notin kinds
         \/ \E m \in 1 .. Len(log) :
              /\ LastOf(kinds) = log[m] /\ log[m].kind \in kinds
              /\ \A i \in 1 .. Len(log) : log[i].kind \in kinds => i <= m
<1> DEFINE S == {i \in 1 .. Len(log) : log[i].kind \in kinds}
<1>1. Len(log) \in Nat
  BY DEF ShapeOK
<1>2. CASE S = {}
  BY <1>2 DEF LastOf
<1>3. CASE S # {}
  <2>1. Max(S) \in S /\ \A j \in S : Max(S) >= j
    BY <1>1, <1>3, MaxOfPositions
  <2>2. LastOf(kinds) = log[Max(S)]
    BY <1>3 DEF LastOf
  <2> DEFINE m == Max(S)
  <2>3. m \in 1 .. Len(log) /\ log[m].kind \in kinds
    BY <2>1
  <2>4. \A i \in 1 .. Len(log) : log[i].kind \in kinds => i <= m
    BY <1>1, <2>1
  <2> HIDE DEF m
  <2> QED
    BY <2>2, <2>3, <2>4 DEF m
<1> QED
  BY <1>2, <1>3

\* The last one after an entry is appended.
LEMMA LastOfAppended ==
  ASSUME ShapeOK, NEW e \in EntrySet, log' = Append(log, e), NEW kinds
  PROVE  LastOf(kinds)' = IF e.kind \in kinds THEN e ELSE LastOf(kinds)
<1> DEFINE n == Len(log)
           S == {i \in 1 .. Len(log) : log[i].kind \in kinds}
           T == {i \in 1 .. Len(log') : log'[i].kind \in kinds}
<1>0. log \in Seq(EntrySet) /\ n \in Nat
  BY DEF ShapeOK
<1>1. Len(log') = n + 1 /\ (\A i \in 1 .. n : log'[i] = log[i]) /\ log'[n + 1] = e
  BY <1>0, AppendFacts
<1>2. LastOf(kinds)' = IF T = {} THEN NoEntry ELSE log'[Max(T)]
  BY DEF LastOf
<1>3. LastOf(kinds) = IF S = {} THEN NoEntry ELSE log[Max(S)]
  BY DEF LastOf
<1>4. CASE e.kind \in kinds
  <2>1. n + 1 \in T /\ T \subseteq 1 .. (n + 1)
    BY <1>0, <1>1, <1>4
  <2>2. Max(T) \in T /\ \A j \in T : Max(T) >= j
    <3> DEFINE N == n + 1
    <3>1. N \in Nat /\ T \in SUBSET (1 .. N) /\ T # {}
      BY <1>0, <2>1
    <3> HIDE DEF T, N
    <3> QED
      BY <3>1, MaxOfPositions
  <2>3. Max(T) = n + 1
    <3> DEFINE m == Max(T)
    <3>1. m >= n + 1 /\ m \in 1 .. (n + 1)
      BY <2>1, <2>2
    <3> HIDE DEF m, n
    <3>2. m = n + 1
      BY <1>0, <3>1
    <3> QED
      BY <3>2 DEF m
  <2> QED
    BY <1>1, <1>2, <1>4, <2>1, <2>3
<1>5. CASE e.kind \notin kinds
  <2>1. T = S
    BY <1>0, <1>1, <1>5
  <2>2. CASE S = {}
    BY <1>2, <1>3, <1>5, <2>1, <2>2
  <2>3. CASE S # {}
    <3>1. Max(S) \in S
      BY <1>0, <2>3, MaxOfPositions
    <3>2. log'[Max(S)] = log[Max(S)]
      BY <1>1, <3>1
    <3> QED
      BY <1>2, <1>3, <1>5, <2>1, <2>3, <3>2
  <2> QED
    BY <2>2, <2>3
<1> QED
  BY <1>4, <1>5

\* At the start nothing waits.
LEMMA TimeInitInv == AuditInit => TimeInv
<1> SUFFICES ASSUME AuditInit PROVE TimeInv
  OBVIOUS
<1>1. OfThisMoment
  BY DEF AuditInit, OfThisMoment, Appenders, Active, IdleReplica
<1>2. TimesInOrder
  BY DEF AuditInit, TimesInOrder
<1>3. Uncovered = {}
  BY DEF AuditInit, Uncovered
<1> QED
  BY <1>1, <1>2, <1>3 DEF TimeInv, WaitedAnHour, WaitsOn, AuditInit

\* An entry of this moment is committed.
LEMMA CommitInTime ==
  ASSUME AuditInv, TimeInv, NEW w \in Appenders, pending[w] # NoEntry, Commit(w), clock' = clock,
         checked' \in BOOLEAN, checked' # checked => w \in Replicas
  PROVE  TimesInOrder' /\ WaitedAnHour' /\ WaitsOn'
<1> DEFINE e == pending[w]
           n == Len(log)
<1>0. ShapeOK
  BY DEF AuditInv
<1>1. /\ log \in Seq(EntrySet) /\ n \in Nat /\ e \in EntrySet /\ clock \in Nat
      /\ log' = Append(log, e)
  BY <1>0 DEF ShapeOK, Commit
<1>2. Len(log') = n + 1 /\ (\A i \in 1 .. n : log'[i] = log[i]) /\ log'[n + 1] = e
  BY <1>1, AppendFacts
<1>3. e.at = clock /\ (w \in Replicas => e.kind \in {"anchored", "failed"})
      /\ (w \notin Replicas => e.kind \in {"change", "other"})
  BY DEF TimeInv, OfThisMoment, Appenders
<1>4. Previous' = (IF e.kind \in {"anchored"} THEN e ELSE Previous)
      /\ Attempt' = IF e.kind \in {"anchored", "failed"} THEN e ELSE Attempt
  BY <1>0, <1>1, LastOfAppended DEF Previous, Attempt
<1>5. Hour \in Nat \ {0}
  BY AuditAssumption
<1>6. \A i \in 1 .. n : log[i].at \in Nat
  <2>1. \A i \in 1 .. n : log[i] \in EntrySet
    BY <1>1
  <2> QED
    BY <2>1 DEF EntrySet
<1>7. \A i \in 1 .. Len(log') : i \in 1 .. n \/ i = n + 1
  BY <1>1, <1>2
<1> HIDE DEF e, n
<1>8. TimesInOrder'
  <2>1. \A i \in 1 .. n : log[i].at <= clock
    BY DEF TimeInv, TimesInOrder, n
  <2>2. \A i, j \in 1 .. n : i <= j => log[i].at <= log[j].at
    BY DEF TimeInv, TimesInOrder, n
  <2>3. \A i \in 1 .. Len(log') : log'[i].at <= clock
    BY <1>1, <1>2, <1>3, <1>7, <2>1
  <2>4. ASSUME NEW i \in 1 .. Len(log'), NEW j \in 1 .. Len(log'), i <= j PROVE log'[i].at <= log'[j].at
    <3>1. CASE j = n + 1
      BY <1>2, <1>3, <2>3, <3>1
    <3>2. CASE j \in 1 .. n
      <4>1. i \in 1 .. n
        BY <1>1, <2>4, <3>2
      <4> QED
        BY <1>2, <2>2, <2>4, <3>2, <4>1
    <3> QED
      BY <1>7, <3>1, <3>2
  <2> QED
    BY <2>3, <2>4 DEF TimesInOrder
<1>9. CASE e.kind \in {"anchored", "failed"}
  <2>1. Attempt'.at = clock
    BY <1>3, <1>4, <1>9
  <2>2. clock <= Attempt'.at + Hour /\ clock < Attempt'.at + Hour
    BY <1>1, <1>5, <2>1
  <2> QED
    BY <1>8, <2>2 DEF WaitedAnHour, WaitsOn
<1>10. CASE e.kind \in {"change", "other"}
  <2>1. Previous' = Previous /\ Attempt' = Attempt /\ checked' = checked
    BY <1>3, <1>4, <1>10
  <2>2. \A i \in Uncovered' : i \in Uncovered \/ i = n + 1
    BY <1>2, <1>7, <2>1 DEF Uncovered, n
  <2>3. \A i \in Uncovered : log'[i] = log[i]
    BY <1>2 DEF Uncovered, n
  <2>4. clock <= log'[n + 1].at + Hour /\ clock < log'[n + 1].at + Hour
    BY <1>1, <1>2, <1>3, <1>5
  <2>5. WaitedAnHour'
    BY <2>1, <2>2, <2>3, <2>4 DEF WaitedAnHour, TimeInv
  <2>6. WaitsOn'
    BY <2>1, <2>2, <2>3, <2>4 DEF WaitsOn, TimeInv
  <2> QED
    BY <1>8, <2>5, <2>6
<1> QED
  BY <1>3, <1>9, <1>10

\* A check that finds nothing to publish leaves nothing that has waited an hour.
LEMMA CheckInTime ==
  ASSUME ShapeOK, TimesInOrder, ~ToPublish
  PROVE  \A i \in Uncovered : clock < log[i].at + Hour \/ clock < Attempt.at + Hour
<1> SUFFICES ASSUME NEW i \in Uncovered, ~(clock < log[i].at + Hour), ~(clock < Attempt.at + Hour)
             PROVE  FALSE
  OBVIOUS
<1>0. /\ i \in 1 .. Len(log) /\ log[i].kind = "change" /\ i > Previous.head.seq
  BY DEF Uncovered
<1>1. log \in Seq(EntrySet) /\ clock \in Nat /\ Len(log) \in Nat
  BY DEF ShapeOK
<1>2. \A j \in 1 .. Len(log) : log[j] \in EntrySet
  BY <1>1
<1>3. \A j \in 1 .. Len(log) : log[j].at \in Nat
  BY <1>2 DEF EntrySet
<1>4. {Quiet, Hour, Day} \subseteq Nat
  BY AuditAssumption
<1>5. NoEntry.at \in Nat
  BY DEF NoEntry
<1>6. Attempt.at \in Nat /\ Previous.at \in Nat
  BY <1>3, <1>5, LastOfIs DEF Attempt, Previous
<1>7. clock - Attempt.at >= Hour /\ clock - log[i].at >= Hour
  BY SMTT(30), <1>0, <1>1, <1>3, <1>4, <1>6
<1>8. log # <<>>
  BY <1>0
<1>9. ~Due
  BY <1>7, <1>8 DEF ToPublish
<1>10. Previous # NoEntry
  BY <1>9 DEF Due
<1>11. Previous.at <= Attempt.at
  <2>1. PICK p \in 1 .. Len(log) : Previous = log[p] /\ log[p].kind \in {"anchored"}
    BY <1>10, LastOfIs DEF Previous
  <2>2. PICK a \in 1 .. Len(log) :
          /\ Attempt = log[a]
          /\ \A j \in 1 .. Len(log) : log[j].kind \in {"anchored", "failed"} => j <= a
    <3>1. log[p].kind \in {"anchored", "failed"}
      BY <2>1
    <3> QED
      BY <2>1, <3>1, LastOfIs DEF Attempt
  <2>3. p <= a
    BY <2>1, <2>2
  <2> QED
    BY <2>1, <2>2, <2>3 DEF TimesInOrder
<1>12. clock - Previous.at >= Hour
  BY <1>1, <1>4, <1>6, <1>7, <1>11
<1>13. ~Burst
  BY <1>9, <1>12 DEF Due
<1>14. log[i].at \in ChangeTimes
  BY <1>0 DEF ChangeTimes, After
<1>15. ChangeTimes \subseteq Nat
  BY <1>3 DEF ChangeTimes
<1>16. Min(ChangeTimes) \in ChangeTimes /\ \A t \in ChangeTimes : Min(ChangeTimes) <= t
  <2> DEFINE C == ChangeTimes
  <2>1. \E m \in C : \A t \in C : m <= t
    <3> HIDE DEF C
    <3>1. C \subseteq Nat /\ C # {}
      BY <1>14, <1>15 DEF C
    <3> QED
      BY <3>1, LeastNat
  <2> QED
    BY <2>1 DEF Min
<1>17. ~(clock - Min(ChangeTimes) >= Hour)
  BY <1>13, <1>14 DEF Burst
<1> DEFINE m == Min(ChangeTimes)
<1>18. m \in Nat /\ m <= log[i].at /\ ~(clock - m >= Hour)
  BY <1>14, <1>15, <1>16, <1>17
<1> HIDE DEF m
<1> QED
  BY <1>0, <1>1, <1>3, <1>4, <1>7, <1>18

\* The times stay in order, whatever the step.
LEMMA TimeNextInv ==
  ASSUME AuditInv, TimeInv, [AuditNext]_auditVars
  PROVE  TimeInv'
<1>0. ShapeOK /\ PendingIsNext /\ ReplicaInv /\ checked \in BOOLEAN /\ TimesInOrder /\ OfThisMoment
      /\ WaitedAnHour /\ WaitsOn
  BY DEF AuditInv, TimeInv
<1>1. /\ pending \in [Appenders -> EntrySet] /\ replica \in [Replicas -> ReplicaSet] /\ clock \in Nat
      /\ Writers \intersect Replicas = {} /\ Nobody \notin Appenders
  BY <1>0, AuditAssumption DEF ShapeOK, Appenders
<1>2. ASSUME log' = log, clock' = clock, checked' = checked
      PROVE  TimesInOrder' /\ WaitedAnHour' /\ WaitsOn'
  BY <1>0, <1>2 DEF TimesInOrder, WaitedAnHour, WaitsOn, Uncovered, Previous, Attempt,
     LastOf
<1>3. ASSUME NEW w \in Appenders, Leave(w), replica' = replica \/ (w \in Replicas /\ replica' = [replica EXCEPT ![w] = IdleReplica]),
             clock' = clock
      PROVE  OfThisMoment'
  <2>1. pending'[w] = NoEntry /\ \A v \in Appenders \ {w} : pending'[v] = pending[v]
    BY <1>1, <1>3 DEF Leave
  <2>2. \A r \in Replicas : replica'[r] = replica[r] \/ replica'[r] = IdleReplica
    BY <1>1, <1>3
  <2>3. IdleReplica.stage = "idle"
    BY DEF IdleReplica
  <2>4. \A v \in Appenders : pending'[v] # NoEntry => pending'[v] = pending[v]
    BY <2>1
  <2>5. \A r \in Replicas : replica'[r].stage # "idle" => replica'[r] = replica[r]
    BY <2>2, <2>3
  <2> QED
    BY <1>0, <1>3, <2>4, <2>5 DEF OfThisMoment, Active, Appenders
<1>4. ASSUME NEW w \in Appenders, NEW kind, NEW at, NEW head, AppendEntry(w, kind, at, head),
             at = clock, replica' = replica, clock' = clock,
             w \in Replicas => kind \in {"anchored", "failed"},
             w \in Writers => kind \in {"change", "other"}
      PROVE  OfThisMoment'
  <2> DEFINE e == [seq |-> HeadOf(log).seq + 1, hash |-> hashes + 1, prev |-> HeadOf(log).hash,
                   kind |-> kind, at |-> at, head |-> head]
  <2>1. pending' = [pending EXCEPT ![w] = e]
    BY <1>4 DEF AppendEntry
  <2>2. e.at = at /\ e.kind = kind
    OBVIOUS
  <2> HIDE DEF e
  <2>3. pending'[w] = e /\ \A v \in Appenders \ {w} : pending'[v] = pending[v]
    BY <1>1, <2>1
  <2>4. \A v \in Appenders : pending'[v] # NoEntry => pending'[v].at = clock
    BY <1>0, <1>4, <2>2, <2>3 DEF OfThisMoment
  <2>5. \A r \in Replicas : pending'[r] # NoEntry => pending'[r].kind \in {"anchored", "failed"}
    BY <1>0, <1>4, <2>2, <2>3 DEF OfThisMoment, Appenders
  <2>6. \A v \in Writers : pending'[v] # NoEntry => pending'[v].kind \in {"change", "other"}
    BY <1>0, <1>4, <2>2, <2>3 DEF OfThisMoment, Appenders
  <2> QED
    BY <1>0, <1>4, <2>4, <2>5, <2>6 DEF OfThisMoment, Active
<1>5. CASE UNCHANGED auditVars
  BY <1>0, <1>2, <1>5 DEF auditVars, TimeInv, OfThisMoment, Active
<1>6. ASSUME NEW w \in Writers, NEW kind \in {"change", "other"}, Write(w, kind) PROVE TimeInv'
  <2>1. AppendEntry(w, kind, clock, Genesis) /\ log' = log /\ replica' = replica /\ clock' = clock
        /\ checked' = checked
    BY <1>6 DEF Write
  <2>2. w \in Appenders /\ w \notin Replicas
    BY <1>1 DEF Appenders
  <2>3. OfThisMoment'
    BY <1>4, <2>1, <2>2
  <2> QED
    BY <1>0, <1>2, <2>1, <2>3 DEF TimeInv
<1>7. ASSUME NEW w \in Writers, EndWrite(w) PROVE TimeInv'
  <2>1. w \in Appenders /\ pending[w] # NoEntry /\ replica' = replica /\ clock' = clock /\ checked' = checked
    BY <1>7 DEF EndWrite, Appenders
  <2>2. CASE Commit(w)
    <3>1. OfThisMoment'
      BY <1>3, <2>1, <2>2 DEF Commit
    <3> QED
      BY <1>0, <2>1, <2>2, <3>1, CommitInTime DEF TimeInv
  <2>3. CASE Rollback(w)
    <3>1. OfThisMoment'
      BY <1>3, <2>1, <2>3 DEF Rollback
    <3> QED
      BY <1>0, <1>2, <2>1, <2>3, <3>1 DEF TimeInv, Rollback
  <2> QED
    BY <1>7, <2>2, <2>3 DEF EndWrite
<1>8. ASSUME NEW r \in Replicas, Check(r) PROVE TimeInv'
  <2>1. log' = log /\ pending' = pending /\ clock' = clock
    BY <1>8 DEF Check
  <2>2. CASE ToPublish
    <3> DEFINE q == [stage |-> "due", at |-> clock, head |-> HeadOf(log), last |-> Previous.head,
                     tries |-> 0]
    <3>1. replica' = [replica EXCEPT ![r] = q] /\ checked' = checked
      BY <1>8, <2>2 DEF Check
    <3>2. q.at = clock
      OBVIOUS
    <3> HIDE DEF q
    <3>3. \A p \in Replicas : replica'[p] = IF p = r THEN q ELSE replica[p]
      BY <1>1, <3>1
    <3>4. OfThisMoment'
      BY <1>0, <2>1, <3>2, <3>3 DEF OfThisMoment, Active
    <3> QED
      BY <1>0, <1>2, <2>1, <3>1, <3>4 DEF TimeInv
  <2>3. CASE ~ToPublish
    <3>1. checked' = TRUE /\ replica' = replica
      BY <1>8, <2>3 DEF Check
    <3>2. OfThisMoment'
      BY <1>0, <2>1, <3>1 DEF OfThisMoment, Active
    <3>3. \A i \in Uncovered : clock < log[i].at + Hour \/ clock < Attempt.at + Hour
      BY <1>0, <2>3, CheckInTime
    <3>4. Uncovered' = Uncovered /\ Attempt' = Attempt
      BY <2>1 DEF Uncovered, Previous, Attempt, LastOf
    <3>5. WaitsOn'
      BY <2>1, <3>3, <3>4 DEF WaitsOn
    <3>6. WaitedAnHour' /\ TimesInOrder'
      BY <1>0, <2>1, <3>4 DEF WaitedAnHour, TimesInOrder
    <3> QED
      BY <3>1, <3>2, <3>5, <3>6 DEF TimeInv
  <2> QED
    BY <2>2, <2>3
<1>9. ASSUME NEW r \in Replicas, Deliver(r) PROVE TimeInv'
  <2>1. log' = log /\ pending' = pending /\ clock' = clock /\ checked' = checked /\ replica[r].stage = "due"
    BY <1>9 DEF Deliver
  <2>2. \/ replica' = [replica EXCEPT ![r].stage = "accepted"]
        \/ \E g : replica' = [replica EXCEPT ![r].stage = g, ![r].tries = replica[r].tries + 1]
    BY <1>9 DEF Deliver, Failed
  <2>3. \A p \in Replicas : replica'[p].at = replica[p].at
    <3>1. CASE replica' = [replica EXCEPT ![r].stage = "accepted"]
      BY <1>1, <3>1 DEF ReplicaSet
    <3>2. ASSUME NEW g, replica' = [replica EXCEPT ![r].stage = g, ![r].tries = replica[r].tries + 1]
          PROVE  \A p \in Replicas : replica'[p].at = replica[p].at
      BY <1>1, <3>2 DEF ReplicaSet
    <3> QED
      BY <2>2, <3>1, <3>2
  <2>4. \A p \in Replicas \ {r} : replica'[p] = replica[p]
    BY <1>1, <2>2
  <2>5. OfThisMoment'
    BY <1>0, <2>1, <2>3, <2>4 DEF OfThisMoment, Active
  <2> QED
    BY <1>0, <1>2, <2>1, <2>5 DEF TimeInv
<1>10. ASSUME NEW r \in Replicas, Record(r) PROVE TimeInv'
  <2> DEFINE kind == IF replica[r].stage = "accepted" THEN "anchored" ELSE "failed"
             at == replica[r].at
             head == replica[r].head
  <2>1. AppendEntry(r, kind, at, head) /\ log' = log /\ replica' = replica /\ clock' = clock
        /\ checked' = checked /\ replica[r].stage \in {"accepted", "refused"}
    BY <1>10 DEF Record
  <2>2. r \in Appenders /\ r \notin Writers /\ kind \in {"anchored", "failed"}
    BY <1>1 DEF Appenders
  <2>3. at = clock
    BY <1>0, <2>1 DEF OfThisMoment, Active
  <2> HIDE DEF kind, at, head
  <2>4. OfThisMoment'
    BY <1>4, <2>1, <2>2, <2>3
  <2> QED
    BY <1>0, <1>2, <2>1, <2>4 DEF TimeInv
<1>11. ASSUME NEW r \in Replicas, EndCheck(r) PROVE TimeInv'
  <2>1. r \in Appenders /\ pending[r] # NoEntry /\ replica' = [replica EXCEPT ![r] = IdleReplica] /\ clock' = clock
    BY <1>11 DEF EndCheck, Appenders
  <2>2. CASE Commit(r) /\ checked' = TRUE
    <3>1. OfThisMoment'
      BY <1>3, <2>1, <2>2 DEF Commit
    <3>2. checked' \in BOOLEAN
      BY <2>2
    <3> QED
      BY <1>0, <2>1, <2>2, <3>1, <3>2, CommitInTime DEF TimeInv
  <2>3. CASE Rollback(r) /\ checked' = checked
    <3>1. OfThisMoment'
      BY <1>3, <2>1, <2>3 DEF Rollback
    <3> QED
      BY <1>0, <1>2, <2>1, <2>3, <3>1 DEF TimeInv, Rollback
  <2> QED
    BY <1>11, <2>2, <2>3 DEF EndCheck
<1>12. CASE TimePasses
  <2>1. /\ log' = log /\ pending' = pending /\ replica' = replica /\ clock' = clock + 1 /\ checked
        /\ checked' = FALSE /\ holder = Nobody /\ \A r \in Replicas : replica[r].stage = "idle"
    BY <1>12 DEF TimePasses
  <2>2. \A w \in Appenders : pending[w] = NoEntry
    BY <1>0, <1>1, <2>1 DEF PendingIsNext
  <2>3. OfThisMoment'
    BY <2>1, <2>2 DEF OfThisMoment, Active, Appenders
  <2>4. Uncovered' = Uncovered /\ Attempt' = Attempt
    BY <2>1 DEF Uncovered, Previous, Attempt, LastOf
  <2>5. \A i \in Uncovered : clock < log[i].at + Hour \/ clock < Attempt.at + Hour
    BY <1>0, <2>1 DEF WaitsOn
  <2>6. Hour \in Nat /\ \A i \in 1 .. Len(log) : log[i].at \in Nat
    <3>1. \A i \in 1 .. Len(log) : log[i] \in EntrySet
      BY <1>0 DEF ShapeOK
    <3> QED
      BY <3>1, AuditAssumption DEF EntrySet
  <2>7. Attempt.at \in Nat
    <3>1. NoEntry.at \in Nat
      BY DEF NoEntry
    <3> QED
      BY <1>0, <2>6, <3>1, LastOfIs DEF Attempt
  <2>8. WaitedAnHour'
    <3> SUFFICES ASSUME NEW i \in Uncovered
                 PROVE  clock + 1 <= log[i].at + Hour \/ clock + 1 <= Attempt.at + Hour
      BY <2>1, <2>4 DEF WaitedAnHour
    <3>1. log[i].at \in Nat
      BY <2>6 DEF Uncovered
    <3> QED
      BY <1>1, <2>5, <2>6, <2>7, <3>1
  <2>9. TimesInOrder'
    BY <1>0, <1>1, <2>1, <2>6 DEF TimesInOrder
  <2>10. WaitsOn'
    BY <2>1 DEF WaitsOn
  <2> QED
    BY <2>1, <2>3, <2>8, <2>9, <2>10 DEF TimeInv
<1> QED
  BY <1>5, <1>6, <1>7, <1>8, <1>9, <1>10, <1>11, <1>12 DEF AuditNext

\* The later of two times is not before either.
LEMMA LaterOfTwo ==
  ASSUME NEW a \in Nat, NEW b \in Nat
  PROVE  Max({a, b}) \in Nat /\ Max({a, b}) >= a /\ Max({a, b}) >= b
<1>1. \E x \in {a, b} : \A y \in {a, b} : x >= y
  <2>1. CASE a >= b
    BY <2>1
  <2>2. CASE ~(a >= b)
    BY <2>2
  <2> QED
    BY <2>1, <2>2
<1>2. Max({a, b}) \in {a, b} /\ \A y \in {a, b} : Max({a, b}) >= y
  BY <1>1 DEF Max
<1> QED
  BY <1>2

\* A change is anchored within an hour of it or of the last attempt, also one that was
\* committed while an anchor was on its way (adminChanges, previousHead, publishExtra).
THEOREM ChangesAnchoredInTime == AuditSpec => []AnchoredInTime
<1>1. AuditInv /\ TimeInv => AnchoredInTime
  <2> SUFFICES ASSUME AuditInv, TimeInv, NEW i \in 1 .. Len(log), log[i].kind = "change",
                      i > Previous.head.seq
               PROVE  clock <= Max({log[i].at, Attempt.at}) + Hour
    BY DEF AnchoredInTime
  <2>1. i \in Uncovered
    BY DEF Uncovered
  <2>2. clock <= log[i].at + Hour \/ clock <= Attempt.at + Hour
    BY <2>1 DEF TimeInv, WaitedAnHour
  <2>3. ShapeOK
    BY DEF AuditInv
  <2>4. Hour \in Nat /\ clock \in Nat /\ \A j \in 1 .. Len(log) : log[j].at \in Nat
    <3>1. \A j \in 1 .. Len(log) : log[j] \in EntrySet
      BY <2>3 DEF ShapeOK
    <3> QED
      BY <2>3, <3>1, AuditAssumption DEF EntrySet, ShapeOK
  <2>5. Attempt.at \in Nat
    <3>1. NoEntry.at \in Nat
      BY DEF NoEntry
    <3> QED
      BY <2>3, <2>4, <3>1, LastOfIs DEF Attempt
  <2> DEFINE a == log[i].at
             b == Attempt.at
             m == Max({a, b})
  <2>6. a \in Nat /\ b \in Nat /\ (clock <= a + Hour \/ clock <= b + Hour)
    BY <2>2, <2>4, <2>5
  <2> HIDE DEF a, b
  <2>7. m \in Nat /\ m >= a /\ m >= b
    BY <2>6, LaterOfTwo
  <2> HIDE DEF m
  <2>8. clock <= m + Hour
    BY <2>4, <2>6, <2>7
  <2> QED
    BY <2>8 DEF m, a, b
<1>2. AuditInv /\ TimeInv /\ [AuditNext]_auditVars => AuditInv' /\ TimeInv'
  BY AuditNextInv, TimeNextInv
<1> QED
  BY <1>1, <1>2, AuditInitInv, TimeInitInv, PTL DEF AuditSpec
=============================================================================
