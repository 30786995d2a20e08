--------------------------- MODULE RetrySchedule ---------------------------
(***************************************************************************)
(* What kind of failure an attempt was, and when a transient one is tried  *)
(* again.  The schedules are in minutes.                                   *)
(***************************************************************************)
EXTENDS Integers

PermanentCategories == {"bad_mailbox", "bad_domain", "policy", "other_permanent"}
TransientCategories ==
  {"mailbox_full", "greylisted", "rate_limited", "connection", "tls", "dns",
   "other_transient"}
FailureCategories == PermanentCategories \union TransientCategories

\* A permanent failure bounces the message, any other is retried.
Permanent(c) == c \in PermanentCategories

\* The recipient does not exist, so nothing more is sent to it for a while.
Suppresses(c) == c \in {"bad_mailbox", "bad_domain"}

QueueLifetime == 5 * 24 * 60

\* Mutation of DefaultMaxRetries: a budget the schedules use up.
DefaultMaxRetriesFewer == 30

DefaultMaxRetries == 60

retrySchedules ==
  LET every(first, max) == [first |-> first, max |-> max, maxAge |-> QueueLifetime] IN
  [c \in TransientCategories |->
     CASE c = "greylisted"   -> every(7, 4 * 60)
       [] c = "rate_limited" -> every(15, 4 * 60)
       [] c = "mailbox_full" -> every(60, 8 * 60)
       [] c = "tls"          -> every(15, 4 * 60)
       [] OTHER              -> every(5, 4 * 60)]

\* The schedule of a category, or the catch-all for one without its own.
scheduleFor(schedules, c) ==
  IF c \in DOMAIN schedules THEN schedules[c] ELSE schedules["other_transient"]

\* The wait once n attempts have failed: doubling, and no longer than s.max.
\* The loop stops doubling at the cap, so the value never exceeds twice s.max.
delay(s, n) ==
  LET d[i \in Nat] == IF i <= 1 THEN s.first
                      ELSE LET before == d[i - 1]
                           IN  IF before < s.max THEN 2 * before ELSE before
      last == d[n]
  IN  IF last < s.max THEN last ELSE s.max

\* Every value delay(s, n) may take once moved by up to a fifth either way:
\* a factor in [0.8, 1.2), never past the cap and never to nothing.
jitteredDelays(s, n) ==
  LET d == delay(s, n) IN {j \in 1 .. s.max : 8 * d <= 10 * j /\ 10 * j < 12 * d}

\* The latest a message may still be retried: its category's maximum age or
\* its own expiry, whichever comes first.
deadline(s, created, expires) ==
  IF expires < created + s.maxAge THEN expires ELSE created + s.maxAge

\* Mutations of mayRetryAt: the deadline forgotten; one attempt too many.
mayRetryAtAnyTime(s, n, budget, next, created, expires) == n < budget
mayRetryAtOnceMore(s, n, budget, next, created, expires) ==
  n <= budget /\ next < deadline(s, created, expires)

\* May a message that has used n of budget attempts be tried again at next?
mayRetryAt(s, n, budget, next, created, expires) ==
  n < budget /\ next < deadline(s, created, expires)
============================================================================
