---------------------------- MODULE RetryLifetime ----------------------------
(***************************************************************************)
(* One message that keeps failing for transient reasons, with the queue's   *)
(* own schedules, lifetime and budget, in minutes.  Every attempt may fail  *)
(* for another reason, and every wait is jittered to its shortest or its    *)
(* longest.  An attempt takes no time and starts the moment it is due, which *)
(* makes the most attempts.                                                 *)
(***************************************************************************)
EXTENDS RetrySchedule, FiniteSetsExt

VARIABLES
  age,       \* minutes since the message was queued
  attempts,  \* outbound_queue.attempts
  status     \* "deferred" or "bounced"

retryVars == <<age, attempts, status>>

RetryInit ==
  /\ age = 0
  /\ attempts = 0
  /\ status = "deferred"

\* The next attempt fails for reason c: recordFailure asks retryAt, and bounces
\* the message when there is to be no retry.
FailAgain(c, wait) ==
  /\ status = "deferred"
  /\ attempts' = attempts + 1
  /\ IF mayRetryAt(scheduleFor(retrySchedules, c), attempts', DefaultMaxRetries,
                   age + wait, 0, QueueLifetime)
     THEN age' = age + wait /\ UNCHANGED status
     ELSE status' = "bounced" /\ UNCHANGED age

\* The shortest and the longest wait of category c after its n-th attempt.
Waits ==
  [c \in TransientCategories |->
     [n \in 1 .. DefaultMaxRetries |->
        LET waits == jitteredDelays(scheduleFor(retrySchedules, c), n)
        IN  {Min(waits), Max(waits)}]]

RetryNext ==
  \E c \in TransientCategories :
    \E wait \in Waits[c][attempts + 1] : FailAgain(c, wait)

RetrySpec == RetryInit /\ [][RetryNext]_retryVars

-----------------------------------------------------------------------------
\* DefaultMaxRetries: the budget is more attempts than any mix of schedules makes
\* in the queue's lifetime, even with every delay jittered short, so that the
\* deadline and not the budget ends retrying.
DeadlineEndsRetrying == status = "bounced" => attempts < DefaultMaxRetries

\* retrySchedules: whatever the failures were, a message is retried for the
\* queue's whole lifetime, up to the longest wait between two attempts.
RetriedForFiveDays ==
  status = "bounced" =>
    age >= QueueLifetime - Max({retrySchedules[c].max : c \in TransientCategories})

\* A message is retried until its deadline, and no longer.
RetriedToTheEnd == DeadlineEndsRetrying /\ RetriedForFiveDays
=============================================================================
