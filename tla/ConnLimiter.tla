----------------------------- MODULE ConnLimiter -----------------------------
(***************************************************************************)
(* The connection limiter of a gateway: slots that connections take when   *)
(* they are first read or written and give back once when they are closed, *)
(* whichever comes first, and the failures of logins that ban a source or  *)
(* an account for a time.                                                  *)
(*                                                                         *)
(* A connection is admitted in its own goroutine and closed by that one, by*)
(* the server's shutdown or by the transfer policy; logins run at once and *)
(* each waits for the API, up to a timeout, between the check of the bans  *)
(* and its result.                                                         *)
(***************************************************************************)
EXTENDS Integers, FiniteSets

CONSTANTS
  Conns, Ips, IpOf,   \* connections and where they come from
  MaxPerIP, MaxGlobal,
  Logins,             \* sessions that sign in
  Users,              \* accounts
  AuthMaxFails, AuthBanWindow, AuthBanDuration,
  LoginTimeout,       \* the API client's timeout: the longest a login takes
  MaxClock,           \* bound: how far time goes
  MaxGuesses          \* bound: how many logins are tried

\* withDefaults: every limit is positive.  A ban (30 minutes) outlasts the window
\* (10) by more than the API client waits for an answer: 30 seconds, and the time
\* the largest message takes at the internal floor rate (128 MiB at 1 MiB/s).
ASSUME LimiterAssumption ==
  /\ IpOf \in [Conns -> Ips] /\ IsFiniteSet(Conns)
  /\ {MaxPerIP, MaxGlobal, AuthMaxFails} \subseteq Nat \ {0}
  /\ {AuthBanWindow, AuthBanDuration, LoginTimeout} \subseteq Nat
  /\ AuthBanDuration >= AuthBanWindow + LoginTimeout
  /\ IsFiniteSet(Logins)
  /\ MaxClock \in Nat /\ MaxGuesses \in Nat

Keys == Ips \union Users

VARIABLES
  global, perIP,  \* the counters
  admission,      \* of a connection: "new", "granted", "refused", "settled"
  slotHeld, slotReleased, connClosed,
  releasing,      \* the counter a release takes next: "no", "global", "ip"
  failures,       \* failRecord of a source or an account: times, numbered
  bannedAt,       \* and when it was banned, 0 if it is not
  trying, since,  \* the login a session waits for, and since when
  clock, guesses,
  tried           \* history: every failure since the last success

slotVars  == <<global, perIP, admission, slotHeld, slotReleased, connClosed, releasing>>
banVars   == <<failures, bannedAt, trying, since, clock, guesses, tried>>
limiter   == <<slotVars, banVars>>

LimiterTypeOK ==
  /\ global \in Nat /\ perIP \in [Ips -> Nat]
  /\ admission \in [Conns -> {"new", "granted", "refused", "settled"}]
  /\ slotHeld \in [Conns -> BOOLEAN] /\ slotReleased \in [Conns -> BOOLEAN]
  /\ connClosed \in [Conns -> BOOLEAN]
  /\ releasing \in [Conns -> {"no", "global", "ip"}]
  /\ failures \in [Keys -> SUBSET (Nat \X Nat)] /\ bannedAt \in [Keys -> Nat]
  /\ trying \in [Logins -> SUBSET Keys] /\ since \in [Logins -> Nat]
  /\ clock \in Nat /\ guesses \in Nat
  /\ tried \in [Keys -> SUBSET (Nat \X Nat)]

LimiterInit ==
  /\ global = 0 /\ perIP = [i \in Ips |-> 0]
  /\ admission = [c \in Conns |-> "new"]
  /\ slotHeld = [c \in Conns |-> FALSE] /\ slotReleased = [c \in Conns |-> FALSE]
  /\ connClosed = [c \in Conns |-> FALSE]
  /\ releasing = [c \in Conns |-> "no"]
  /\ failures = [k \in Keys |-> {}] /\ bannedAt = [k \in Keys |-> 0]
  /\ trying = [s \in Logins |-> {}] /\ since = [s \in Logins |-> 0]
  /\ clock = 1 /\ guesses = 0
  /\ tried = [k \in Keys |-> {}]

-----------------------------------------------------------------------------
(* Slots *)

MayAccept(i) == global < MaxGlobal /\ perIP[i] < MaxPerIP

\* Accept, called by admit on the first read or write, also of a connection
\* that was closed already.  A persistent ban refuses at any time.
AcceptConn(c) ==
  /\ admission[c] = "new"
  /\ \/ /\ MayAccept(IpOf[c])
        /\ global' = global + 1 /\ perIP' = [perIP EXCEPT ![IpOf[c]] = @ + 1]
        /\ admission' = [admission EXCEPT ![c] = "granted"]
     \/ /\ admission' = [admission EXCEPT ![c] = "refused"]
        /\ UNCHANGED <<global, perIP>>
  /\ UNCHANGED <<slotHeld, slotReleased, connClosed, releasing, banVars>>

\* Mutation of Settle: a close that came first is not looked at.
SettleAnyway(c) ==
  /\ admission[c] = "granted"
  /\ admission' = [admission EXCEPT ![c] = "settled"]
  /\ slotHeld' = [slotHeld EXCEPT ![c] = TRUE]
  /\ UNCHANGED <<global, perIP, slotReleased, connClosed, releasing, banVars>>

\* The rest of admit: the slot is the connection's, or is released at once.
Settle(c) ==
  /\ admission[c] = "granted"
  /\ admission' = [admission EXCEPT ![c] = "settled"]
  /\ IF connClosed[c]
     THEN /\ slotReleased' = [slotReleased EXCEPT ![c] = TRUE]
          /\ releasing' = [releasing EXCEPT ![c] = "global"]
          /\ UNCHANGED slotHeld
     ELSE /\ slotHeld' = [slotHeld EXCEPT ![c] = TRUE]
          /\ UNCHANGED <<slotReleased, releasing>>
  /\ UNCHANGED <<global, perIP, connClosed, banVars>>

CloseReleases(c) == slotHeld[c] /\ ~slotReleased[c]

\* Close, which several goroutines call.
CloseConn(c) ==
  /\ releasing[c] = "no"
  /\ connClosed' = [connClosed EXCEPT ![c] = TRUE]
  /\ IF CloseReleases(c)
     THEN /\ slotReleased' = [slotReleased EXCEPT ![c] = TRUE]
          /\ releasing' = [releasing EXCEPT ![c] = "global"]
     ELSE UNCHANGED <<slotReleased, releasing>>
  /\ UNCHANGED <<global, perIP, admission, slotHeld, banVars>>

\* Release: two atomic decrements without the lock.
ReleaseGlobal(c) ==
  /\ releasing[c] = "global"
  /\ global' = global - 1
  /\ releasing' = [releasing EXCEPT ![c] = "ip"]
  /\ UNCHANGED <<perIP, admission, slotHeld, slotReleased, connClosed, banVars>>

ReleaseIP(c) ==
  /\ releasing[c] = "ip"
  /\ perIP' = [perIP EXCEPT ![IpOf[c]] = @ - 1]
  /\ releasing' = [releasing EXCEPT ![c] = "no"]
  /\ UNCHANGED <<global, admission, slotHeld, slotReleased, connClosed, banVars>>

-----------------------------------------------------------------------------
(* Bans *)

Expired(k) == bannedAt[k] > 0 /\ clock - bannedAt[k] > AuthBanDuration
Banned(k)  == bannedAt[k] > 0 /\ ~Expired(k)

\* banned drops the record of a ban that has run out.
Lapse(S) ==
  /\ failures' = [k \in Keys |-> IF k \in S /\ Expired(k) THEN {} ELSE failures[k]]
  /\ bannedAt' = [k \in Keys |-> IF k \in S /\ Expired(k) THEN 0 ELSE bannedAt[k]]

\* Mutation of MayTry: only the source's ban is looked at.
MayTryAnyUser(S) == \A k \in S \intersect Ips : ~Banned(k)

\* login, up to its call of the API, which a ban keeps it from.  IMAP and POP3
\* count the account here and leave the source to their servers.
MayTry(S) == \A k \in S : ~Banned(k)

LoginStarts(s, S) ==
  /\ trying[s] = {} /\ guesses < MaxGuesses
  /\ Lapse(S)
  /\ MayTry(S)
  /\ trying' = [trying EXCEPT ![s] = S] /\ since' = [since EXCEPT ![s] = clock]
  /\ guesses' = guesses + 1
  /\ UNCHANGED <<clock, tried, slotVars>>

\* login stopped by the account's ban, once the source's has been looked at.
LoginBarred(s, i, u) ==
  /\ trying[s] = {}
  /\ ~Banned(i) /\ Banned(u)
  /\ Lapse({i})
  /\ UNCHANGED <<trying, since, clock, guesses, tried, slotVars>>

\* recordFail: failures outside the window are forgotten, and the ban is set again
\* with every failure at the limit.
Recent(q) == {f \in q : f[1] > clock - AuthBanWindow}
Failure(k) == <<clock, Cardinality(tried[k]) + 1>>
Recorded(k) == Recent(failures[k] \union {Failure(k)})

LoginFails(s) ==
  /\ trying[s] # {}
  /\ LET S == trying[s] IN
     /\ failures' = [k \in Keys |-> IF k \in S THEN Recorded(k) ELSE failures[k]]
     /\ bannedAt' = [k \in Keys |-> IF k \in S /\ Cardinality(Recorded(k)) >= AuthMaxFails
                                    THEN clock ELSE bannedAt[k]]
     /\ tried' = [k \in Keys |-> IF k \in S THEN tried[k] \union {Failure(k)} ELSE tried[k]]
  /\ trying' = [trying EXCEPT ![s] = {}]
  /\ UNCHANGED <<since, clock, guesses, slotVars>>

\* ResetAuth and ResetAuthUser.
LoginSucceeds(s) ==
  /\ trying[s] # {}
  /\ failures' = [k \in Keys |-> IF k \in trying[s] THEN {} ELSE failures[k]]
  /\ bannedAt' = [k \in Keys |-> IF k \in trying[s] THEN 0 ELSE bannedAt[k]]
  /\ tried' = [k \in Keys |-> IF k \in trying[s] THEN {} ELSE tried[k]]
  /\ trying' = [trying EXCEPT ![s] = {}]
  /\ UNCHANGED <<since, clock, guesses, slotVars>>

\* The API could not be asked: nothing is counted.
LoginErrs(s) ==
  /\ trying[s] # {}
  /\ trying' = [trying EXCEPT ![s] = {}]
  /\ UNCHANGED <<failures, bannedAt, since, clock, guesses, tried, slotVars>>

\* A login that has had its time is answered, or given up, before more passes.
TimePasses ==
  /\ clock < MaxClock /\ clock' = clock + 1
  /\ \A s \in Logins : trying[s] # {} => clock < since[s] + LoginTimeout
  /\ UNCHANGED <<failures, bannedAt, trying, since, guesses, tried, slotVars>>

-----------------------------------------------------------------------------
SlotStep(c) == AcceptConn(c) \/ Settle(c) \/ CloseConn(c) \/ ReleaseGlobal(c) \/ ReleaseIP(c)
LoginStep(s) ==
  \/ \E i \in Ips, u \in Users : LoginStarts(s, {i, u}) \/ LoginBarred(s, i, u)
  \/ \E u \in Users : LoginStarts(s, {u})
  \/ LoginFails(s) \/ LoginSucceeds(s) \/ LoginErrs(s)

LimiterNext ==
  \/ \E c \in Conns : SlotStep(c)
  \/ \E s \in Logins : LoginStep(s)
  \/ TimePasses

LimiterSpec == LimiterInit /\ [][LimiterNext]_limiter

-----------------------------------------------------------------------------
(* Properties *)

\* No more connections are open than the limits allow, in all and from one
\* source, however admissions, closes and lock-free releases overlap (Accept:
\* "all increment past the cap").
OpenConns == {c \in Conns : slotHeld[c] /\ ~connClosed[c]}
CapsHold ==
  /\ Cardinality(OpenConns) <= MaxGlobal
  /\ \A i \in Ips : Cardinality({c \in OpenConns : IpOf[c] = i}) <= MaxPerIP

\* Once every connection is closed and done, no slot is taken: none was leaked by
\* a close that overtook its admission, and none was given back twice
\* (limitedConn: "releases its slot exactly once").
NoSlotLeaks ==
  (\A c \in Conns : connClosed[c] /\ admission[c] \in {"refused", "settled"} /\ releasing[c] = "no")
    => global = 0 /\ \A i \in Ips : perIP[i] = 0

\* Every admission is counted while it lasts, and only then.
SlotsHold == CapsHold /\ NoSlotLeaks

\* Within any window, without a success, a source or an account sees no more
\* wrong passwords than the limit, but for those that were on their way when
\* the ban fell (login: "no guess is verified while banned").
GuessesBounded ==
  \A k \in Keys :
    Cardinality(Recent(tried[k])) <= AuthMaxFails + Cardinality(Logins) - 1
=============================================================================
