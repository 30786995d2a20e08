--------------------------- MODULE OutboundQueue ---------------------------
(***************************************************************************)
(* The outbound mail queue: the rows of outbound_queue in the database,    *)
(* the delivery workers that claim, send and record them, the heartbeat    *)
(* that keeps a claim alive, the suppression list, the administrator's     *)
(* queue actions and the operator's outbound stop.                         *)
(*                                                                         *)
(* A database statement or transaction is one step.  A worker takes one    *)
(* step between two of them, so whatever other workers, administrators,    *)
(* the operator, the clock or a crash do in between is explored.  A row is *)
(* enqueued once and its id is never reused.                               *)
(***************************************************************************)
EXTENDS RetrySchedule

CONSTANTS
  Rows,            \* ids of outbound_queue rows
  NoRow,           \* not a row: what an idle worker works on
  Workers,         \* delivery workers, of one or of several gateway processes
  Domains,         \* domains mail is sent as
  Hosted,          \* the ones hosted here (rows of the domains table)
  Recipients,      \* recipient addresses
  SendsAs,         \* SendsAs[r]: the domain row r is sent as
  Recipient,       \* Recipient[r]: its recipient
  Categories,      \* the failures a delivery may end in
  Lifetimes,       \* the lifetimes enqueuers give their rows
  Schedules,       \* retrySchedules, in the model's unit of time
  MaxRetries,      \* a row's retry budget
  Reclaim,         \* time without a heartbeat after which a row is orphaned
  BeatGap,         \* longest time between two heartbeats of a live worker
  SuppressionTTL,  \* how long a hard-bounced recipient stays suppressed
  MaxTime,         \* bound: the clock stops here
  LastEnqueue,     \* bound: no mail is enqueued after this time
  Stalls,          \* may a worker, its heartbeat too, pause for any time?
  Crashes,         \* may a worker crash?
  DbErrors,        \* may a worker's database statement fail?
  Stoppable,       \* the hosted domains whose outbound mail gets stopped
  Backlog,         \* may time pass with a row due and a worker idle?
  Admins           \* do administrators change rows and suppressions?

ASSUME RowAssumption ==
  /\ NoRow \notin Rows
  /\ SendsAs \in [Rows -> Domains]
  /\ Recipient \in [Rows -> Recipients]
  /\ Hosted \subseteq Domains
  /\ Stoppable \subseteq Hosted
  /\ Categories \subseteq FailureCategories
ASSUME TimeAssumption ==
  /\ Lifetimes \subseteq Nat \ {0}
  /\ MaxRetries \in Nat \ {0}
  /\ SuppressionTTL \in Nat \ {0}
  /\ MaxTime \in Nat
  /\ LastEnqueue \in Nat
  /\ "other_transient" \in DOMAIN Schedules
  /\ \A c \in DOMAIN Schedules :
        Schedules[c] \in [first : Nat \ {0}, max : Nat \ {0}, maxAge : Nat \ {0}]
\* SetDeliveryDeadline: the reclaim interval must outlast the heartbeat's.
ASSUME ReclaimAssumption ==
  /\ Reclaim \in Nat
  /\ BeatGap \in Nat \ {0}
  /\ BeatGap <= Reclaim
ASSUME FaultAssumption ==
  {Stalls, Crashes, DbErrors, Backlog, Admins} \subseteq BOOLEAN

VARIABLES
  now,             \* the clock
  \* outbound_queue, by column
  status, attempts, lastAttempt, nextAttempt, createdAt, expiresAt,
  stoppedAt,       \* domains.outbound_stopped_at, NoTime when mail flows
  suppressedUntil, \* suppressions.expires_at by sending domain and recipient
  \* each worker: where it is in process(), and its copy of the claimed row
  pc, item, itemAttempts, itemExpires, claimedAt,
  beat,            \* its last heartbeat, NoTime when it keeps none
  failure,         \* the category of its failed delivery, or NoFailure
  failedAt,        \* and when that failed
  \* history: what the outside world has seen of a row
  accepted,        \* the recipient's server took the message
  told,            \* the sender was sent notice of its failure
  repeats,         \* how often the recipient's server took it again
  lostEnds,        \* attempts that ended in a delivery nobody wrote down
  leftAtHold       \* the lifetime it had left when its hold began

rowVars    == <<status, attempts, lastAttempt, nextAttempt, createdAt, expiresAt>>
itemVars   == <<item, itemAttempts, itemExpires, claimedAt>>
workerVars == <<pc, itemVars, beat, failure, failedAt>>
history    == <<accepted, told>>
ledger     == <<repeats, lostEnds, leftAtHold>>
vars == <<now, rowVars, stoppedAt, suppressedUntil, workerVars, history, ledger>>

NoTime    == -1
NoFailure == ""

InFlight == {"pending", "deferred", "delivering"}
Final    == {"delivered", "bounced"}
Statuses == InFlight \union Final \union {"absent", "deleted"}
Stored(r) == status[r] \in InFlight \union Final

\* A worker holds its row from the claim until it writes how the attempt went.
Holding == {"claimed", "barred", "sending", "sent", "failed"}
Steps   == Holding \union {"idle", "suppressing", "notifying"}

TypeOK ==
  /\ now \in Nat
  /\ status \in [Rows -> Statuses]
  /\ attempts \in [Rows -> Nat]
  /\ lastAttempt \in [Rows -> Nat]
  /\ nextAttempt \in [Rows -> Nat]
  /\ createdAt \in [Rows -> Nat]
  /\ expiresAt \in [Rows -> Nat]
  /\ stoppedAt \in [Domains -> Int]
  /\ suppressedUntil \in [Domains \X Recipients -> Nat]
  /\ pc \in [Workers -> Steps]
  /\ item \in [Workers -> Rows \union {NoRow}]
  /\ itemAttempts \in [Workers -> Nat]
  /\ itemExpires \in [Workers -> Nat]
  /\ claimedAt \in [Workers -> Nat]
  /\ beat \in [Workers -> Int]
  /\ failure \in [Workers -> FailureCategories \union {NoFailure}]
  /\ failedAt \in [Workers -> Nat]
  /\ accepted \in [Rows -> BOOLEAN]
  /\ told \in [Rows -> BOOLEAN]
  /\ repeats \in [Rows -> Nat]
  /\ lostEnds \in [Rows -> Nat]
  /\ leftAtHold \in [Rows -> Int]

Init ==
  /\ now = 0
  /\ status = [r \in Rows |-> "absent"]
  /\ attempts = [r \in Rows |-> 0]
  /\ lastAttempt = [r \in Rows |-> 0]
  /\ nextAttempt = [r \in Rows |-> 0]
  /\ createdAt = [r \in Rows |-> 0]
  /\ expiresAt = [r \in Rows |-> 0]
  /\ stoppedAt = [d \in Domains |-> NoTime]
  /\ suppressedUntil = [k \in Domains \X Recipients |-> 0]
  /\ pc = [w \in Workers |-> "idle"]
  /\ item = [w \in Workers |-> NoRow]
  /\ itemAttempts = [w \in Workers |-> 0]
  /\ itemExpires = [w \in Workers |-> 0]
  /\ claimedAt = [w \in Workers |-> 0]
  /\ beat = [w \in Workers |-> NoTime]
  /\ failure = [w \in Workers |-> NoFailure]
  /\ failedAt = [w \in Workers |-> 0]
  /\ accepted = [r \in Rows |-> FALSE]
  /\ told = [r \in Rows |-> FALSE]
  /\ repeats = [r \in Rows |-> 0]
  /\ lostEnds = [r \in Rows |-> 0]
  /\ leftAtHold = [r \in Rows |-> 0]

-----------------------------------------------------------------------------
(* Enqueueing and claiming *)

\* OutboundQueueHeldSQL: the sending domain's outbound mail is stopped.
Held(r) == stoppedAt[SendsAs[r]] # NoTime

\* Any sender of mail creates a row, due at once.  BeforeCreate gives it the
\* queue's lifetime unless the caller chose a shorter one.
Enqueue(r) ==
  /\ status[r] = "absent"
  /\ now <= LastEnqueue
  /\ \E life \in Lifetimes :
       /\ expiresAt' = [expiresAt EXCEPT ![r] = now + life]
       /\ leftAtHold' = [leftAtHold EXCEPT ![r] = IF Held(r) THEN life ELSE 0]
  /\ status' = [status EXCEPT ![r] = "pending"]
  /\ nextAttempt' = [nextAttempt EXCEPT ![r] = now]
  /\ createdAt' = [createdAt EXCEPT ![r] = now]
  /\ UNCHANGED <<now, attempts, lastAttempt, stoppedAt, suppressedUntil,
                 workerVars, history, repeats, lostEnds>>

\* Mutations of Claimable: the reclaim interval off by one; forgotten.
ClaimableEarly(r) ==
  /\ \/ status[r] \in {"pending", "deferred"} /\ nextAttempt[r] <= now
     \/ status[r] = "delivering" /\ lastAttempt[r] <= now - Reclaim
  /\ expiresAt[r] > now
  /\ ~Held(r)
ClaimableAtOnce(r) ==
  /\ status[r] \in InFlight /\ nextAttempt[r] <= now
  /\ expiresAt[r] > now
  /\ ~Held(r)

\* What claim's query selects: a row that is due, or one orphaned by a worker
\* whose heartbeat stopped; not expired and not held.
Claimable(r) ==
  /\ \/ status[r] \in {"pending", "deferred"} /\ nextAttempt[r] <= now
     \/ status[r] = "delivering" /\ lastAttempt[r] < now - Reclaim
  /\ expiresAt[r] > now
  /\ ~Held(r)

\* claim: the row that has been due longest, marked and counted in the
\* transaction that selects it.  The worker keeps a copy of the row.
Claim(w, r) ==
  /\ pc[w] = "idle"
  /\ Claimable(r)
  /\ \A q \in Rows : Claimable(q) => nextAttempt[r] <= nextAttempt[q]
  /\ status' = [status EXCEPT ![r] = "delivering"]
  /\ lastAttempt' = [lastAttempt EXCEPT ![r] = now]
  /\ attempts' = [attempts EXCEPT ![r] = attempts[r] + 1]
  /\ pc' = [pc EXCEPT ![w] = "claimed"]
  /\ item' = [item EXCEPT ![w] = r]
  /\ itemAttempts' = [itemAttempts EXCEPT ![w] = attempts[r] + 1]
  /\ itemExpires' = [itemExpires EXCEPT ![w] = expiresAt[r]]
  /\ claimedAt' = [claimedAt EXCEPT ![w] = now]
  /\ UNCHANGED <<now, nextAttempt, createdAt, expiresAt, stoppedAt,
                 suppressedUntil, beat, failure, failedAt, history, ledger>>

\* processNext finds nothing to claim and waits for the next poll.
PollEmpty(w) ==
  /\ pc[w] = "idle"
  /\ \A r \in Rows : ~Claimable(r)
  /\ UNCHANGED vars

-----------------------------------------------------------------------------
(* Sending *)

\* The worker's attempt is over: its locals go out of scope.
GoIdle(w) ==
  /\ pc' = [pc EXCEPT ![w] = "idle"]
  /\ item' = [item EXCEPT ![w] = NoRow]
  /\ itemAttempts' = [itemAttempts EXCEPT ![w] = 0]
  /\ itemExpires' = [itemExpires EXCEPT ![w] = 0]
  /\ claimedAt' = [claimedAt EXCEPT ![w] = 0]
  /\ beat' = [beat EXCEPT ![w] = NoTime]
  /\ failure' = [failure EXCEPT ![w] = NoFailure]
  /\ failedAt' = [failedAt EXCEPT ![w] = 0]

\* Updates by primary key: no condition on the row's state, and nothing to do
\* when it has been deleted.
SetStatus(r, s) ==
  status' = [status EXCEPT ![r] = IF Stored(r) THEN s ELSE @]

\* The recipient's suppression by the sending domain, as of the claim.
SuppressionKey(r) == <<SendsAs[r], Recipient[r]>>
Suppressed(w) ==
  /\ SendsAs[item[w]] \in Hosted
  /\ suppressedUntil[SuppressionKey(item[w])] > claimedAt[w]

\* process: the recipient is found suppressed.
FindSuppressed(w) ==
  /\ pc[w] = "claimed"
  /\ Suppressed(w)
  /\ pc' = [pc EXCEPT ![w] = "barred"]
  /\ UNCHANGED <<now, rowVars, stoppedAt, suppressedUntil, itemVars, beat,
                 failure, failedAt, history, ledger>>

\* bounceSuppressed takes back the attempt the claim counted and bounces the
\* row untried.
BounceSuppressed(w) ==
  /\ pc[w] = "barred"
  /\ LET r == item[w] IN
       /\ SetStatus(r, "bounced")
       /\ attempts' = [attempts EXCEPT ![r] = IF Stored(r) THEN itemAttempts[w] - 1 ELSE @]
  /\ pc' = [pc EXCEPT ![w] = "notifying"]
  /\ UNCHANGED <<now, lastAttempt, nextAttempt, createdAt, expiresAt, stoppedAt,
                 suppressedUntil, itemVars, beat, failure, failedAt, history,
                 ledger>>

\* process: not suppressed, or the lookup failed and fails open.  The delivery
\* starts and its heartbeat with it.
StartDelivery(w) ==
  /\ pc[w] = "claimed"
  /\ ~Suppressed(w) \/ DbErrors
  /\ pc' = [pc EXCEPT ![w] = "sending"]
  /\ beat' = [beat EXCEPT ![w] = claimedAt[w]]
  /\ UNCHANGED <<now, rowVars, stoppedAt, suppressedUntil, itemVars, failure,
                 failedAt, history, ledger>>

\* Mutation of Heartbeat: last_attempt is not moved on, so the claim lapses
\* while the delivery goes on.
HeartbeatUnstamped(w) ==
  /\ pc[w] = "sending"
  /\ beat[w] # NoTime
  /\ beat[w] < now
  /\ beat' = [beat EXCEPT ![w] = now]
  /\ UNCHANGED <<now, rowVars, stoppedAt, suppressedUntil, pc, itemVars, failure,
                 failedAt, history, ledger>>

\* refreshClaim: fenced by the claim's status and attempt number.  The
\* heartbeat gives up once they no longer match.  A beat whose statement
\* fails changes nothing and is simply one that did not happen.
Heartbeat(w) ==
  /\ pc[w] = "sending"
  /\ beat[w] # NoTime
  /\ beat[w] < now
  /\ LET r == item[w] IN
       IF status[r] = "delivering" /\ attempts[r] = itemAttempts[w]
       THEN /\ lastAttempt' = [lastAttempt EXCEPT ![r] = now]
            /\ beat' = [beat EXCEPT ![w] = now]
       ELSE /\ beat' = [beat EXCEPT ![w] = NoTime]
            /\ UNCHANGED lastAttempt
  /\ UNCHANGED <<now, status, attempts, nextAttempt, createdAt, expiresAt,
                 stoppedAt, suppressedUntil, pc, itemVars, failure, failedAt,
                 history, ledger>>

\* deliver returns nil: the recipient's server has accepted the message.
DeliverSucceeds(w) ==
  /\ pc[w] = "sending"
  /\ accepted' = [accepted EXCEPT ![item[w]] = TRUE]
  /\ repeats' = [repeats EXCEPT ![item[w]] = IF accepted[item[w]] THEN @ + 1 ELSE @]
  /\ pc' = [pc EXCEPT ![w] = "sent"]
  /\ beat' = [beat EXCEPT ![w] = NoTime]
  /\ UNCHANGED <<now, rowVars, stoppedAt, suppressedUntil, itemVars, failure,
                 failedAt, told, lostEnds, leftAtHold>>

\* deliver returns an error, classified for recordFailure.
DeliverFails(w, c) ==
  /\ pc[w] = "sending"
  /\ failure' = [failure EXCEPT ![w] = c]
  /\ failedAt' = [failedAt EXCEPT ![w] = now]
  /\ pc' = [pc EXCEPT ![w] = "failed"]
  /\ beat' = [beat EXCEPT ![w] = NoTime]
  /\ UNCHANGED <<now, rowVars, stoppedAt, suppressedUntil, itemVars, history,
                 ledger>>

-----------------------------------------------------------------------------
(* Recording how the attempt went *)

RecordDelivered(w) ==
  /\ pc[w] = "sent"
  /\ SetStatus(item[w], "delivered")
  /\ GoIdle(w)
  /\ UNCHANGED <<now, attempts, lastAttempt, nextAttempt, createdAt, expiresAt,
                 stoppedAt, suppressedUntil, history, ledger>>

\* retryAt, on the worker's copy of the row: may it be tried again d later?
RetryAfter(w, d) ==
  mayRetryAt(scheduleFor(Schedules, failure[w]), itemAttempts[w], MaxRetries,
             failedAt[w] + d, createdAt[item[w]], itemExpires[w])

RetryDelays(w) ==
  jitteredDelays(scheduleFor(Schedules, failure[w]), itemAttempts[w])

\* recordFailure: a transient failure with time and budget left.
RecordDeferred(w) ==
  /\ pc[w] = "failed"
  /\ ~Permanent(failure[w])
  /\ \E d \in RetryDelays(w) :
       /\ RetryAfter(w, d)
       /\ LET r == item[w] IN
            nextAttempt' = [nextAttempt EXCEPT ![r] = IF Stored(r) THEN failedAt[w] + d ELSE @]
  /\ SetStatus(item[w], "deferred")
  /\ GoIdle(w)
  /\ UNCHANGED <<now, attempts, lastAttempt, createdAt, expiresAt, stoppedAt,
                 suppressedUntil, history, ledger>>

MayDefer(w) ==
  ~Permanent(failure[w]) /\ \E d \in RetryDelays(w) : RetryAfter(w, d)

\* The two ways recordFailure gives up on a message.
GivesUp(w) ==
  Permanent(failure[w]) \/ \E d \in RetryDelays(w) : ~RetryAfter(w, d)

AfterBounce(w) == IF Suppresses(failure[w]) THEN "suppressing" ELSE "notifying"

RecordBounced(w) ==
  /\ pc[w] = "failed"
  /\ GivesUp(w)
  /\ SetStatus(item[w], "bounced")
  /\ pc' = [pc EXCEPT ![w] = AfterBounce(w)]
  /\ UNCHANGED <<now, attempts, lastAttempt, nextAttempt, createdAt, expiresAt,
                 stoppedAt, suppressedUntil, itemVars, beat, failure, failedAt,
                 history, ledger>>

\* The worker's attempt ends with nothing written: if the message had been
\* accepted, nobody knows.
EndUnrecorded(w) ==
  lostEnds' = [r \in Rows |-> IF pc[w] = "sent" /\ r = item[w]
                              THEN lostEnds[r] + 1 ELSE lostEnds[r]]

\* The error of a status write is ignored: the worker carries on as if the
\* row had been written.
LoseWrite(w) ==
  /\ DbErrors
  /\ \/ pc[w] = "sent" /\ GoIdle(w)
     \/ pc[w] = "failed" /\ MayDefer(w) /\ GoIdle(w)
     \/ /\ pc[w] = "barred"
        /\ pc' = [pc EXCEPT ![w] = "notifying"]
        /\ UNCHANGED <<itemVars, beat, failure, failedAt>>
     \/ /\ pc[w] = "failed" /\ GivesUp(w)
        /\ pc' = [pc EXCEPT ![w] = AfterBounce(w)]
        /\ UNCHANGED <<itemVars, beat, failure, failedAt>>
  /\ EndUnrecorded(w)
  /\ UNCHANGED <<now, rowVars, stoppedAt, suppressedUntil, history, repeats,
                 leftAtHold>>

\* suppress: the window starts, or starts again, at the failure.  A domain not
\* hosted here has nothing to record against.
Suppress(w) ==
  /\ pc[w] = "suppressing"
  /\ LET r == item[w] IN
       \/ /\ SendsAs[r] \in Hosted
          /\ suppressedUntil' =
               [suppressedUntil EXCEPT ![SuppressionKey(r)] = failedAt[w] + SuppressionTTL]
       \/ /\ SendsAs[r] \notin Hosted \/ DbErrors
          /\ UNCHANGED suppressedUntil
  /\ pc' = [pc EXCEPT ![w] = "notifying"]
  /\ UNCHANGED <<now, rowVars, stoppedAt, itemVars, beat, failure, failedAt,
                 history, ledger>>

\* generateBounce: module BounceNotice says who is told and how often.
GenerateBounce(w) ==
  /\ pc[w] = "notifying"
  /\ told' = [told EXCEPT ![item[w]] = TRUE]
  /\ GoIdle(w)
  /\ UNCHANGED <<now, rowVars, stoppedAt, suppressedUntil, accepted, ledger>>

\* The worker's process dies; a new worker takes its place.
Crash(w) ==
  /\ Crashes
  /\ pc[w] # "idle"
  /\ GoIdle(w)
  /\ EndUnrecorded(w)
  /\ UNCHANGED <<now, rowVars, stoppedAt, suppressedUntil, history, repeats,
                 leftAtHold>>

-----------------------------------------------------------------------------
(* Administrators: the bulk routes on a set of rows pass over those in other *)
(* states; a single entry's route is the bulk route on that row alone.       *)

BulkRetry(S) ==
  LET T == {r \in S : status[r] \in {"pending", "deferred"}} IN
  /\ T # {}
  /\ status' = [r \in Rows |-> IF r \in T THEN "pending" ELSE status[r]]
  /\ nextAttempt' = [r \in Rows |-> IF r \in T THEN now ELSE nextAttempt[r]]
  /\ UNCHANGED <<now, attempts, lastAttempt, createdAt, expiresAt, stoppedAt,
                 suppressedUntil, workerVars, history, ledger>>

BulkBounce(S) ==
  LET T == {r \in S : status[r] \in InFlight} IN
  /\ T # {}
  /\ status' = [r \in Rows |-> IF r \in T THEN "bounced" ELSE status[r]]
  /\ UNCHANGED <<now, attempts, lastAttempt, nextAttempt, createdAt, expiresAt,
                 stoppedAt, suppressedUntil, workerVars, history, ledger>>

BulkDelete(S) ==
  LET T == {r \in S : Stored(r)} IN
  /\ T # {}
  /\ status' = [r \in Rows |-> IF r \in T THEN "deleted" ELSE status[r]]
  /\ UNCHANGED <<now, attempts, lastAttempt, nextAttempt, createdAt, expiresAt,
                 stoppedAt, suppressedUntil, workerVars, history, ledger>>

\* SuppressionHandler.delete: mail from the domain to the address is tried again.
ClearSuppression(k) ==
  /\ suppressedUntil[k] # 0
  /\ suppressedUntil' = [suppressedUntil EXCEPT ![k] = 0]
  /\ UNCHANGED <<now, rowVars, stoppedAt, workerVars, history, ledger>>

-----------------------------------------------------------------------------
(* The operator stops and restarts a hosted domain's outbound mail *)

\* Stopping a stopped domain changes only the reason, which is not modelled.
StopOutbound(d) ==
  /\ stoppedAt[d] = NoTime
  /\ stoppedAt' = [stoppedAt EXCEPT ![d] = now]
  /\ leftAtHold' = [r \in Rows |-> IF SendsAs[r] = d THEN expiresAt[r] - now
                                    ELSE leftAtHold[r]]
  /\ UNCHANGED <<now, rowVars, suppressedUntil, workerVars, history, repeats,
                 lostEnds>>

\* How long row r of the stopped domain d has been held: the age of the stop,
\* or the row's own if it was queued since.
HeldFor(d, r) ==
  LET stop == now - stoppedAt[d]
      age  == now - createdAt[r]
  IN  IF stop < age THEN stop ELSE age

\* Mutation of Restarted: rows a worker has claimed are forgotten.
RestartedWaiting(d) ==
  {r \in Rows : status[r] \in {"pending", "deferred"} /\ SendsAs[r] = d}

Restarted(d) == {r \in Rows : status[r] \in InFlight /\ SendsAs[r] = d}

RestartOutbound(d) ==
  /\ stoppedAt[d] # NoTime
  /\ expiresAt' = [r \in Rows |-> IF r \in Restarted(d)
                                  THEN expiresAt[r] + HeldFor(d, r)
                                  ELSE expiresAt[r]]
  /\ stoppedAt' = [stoppedAt EXCEPT ![d] = NoTime]
  /\ leftAtHold' = [r \in Rows |-> IF SendsAs[r] = d THEN 0 ELSE leftAtHold[r]]
  /\ UNCHANGED <<now, status, attempts, lastAttempt, nextAttempt, createdAt,
                 suppressedUntil, workerVars, history, repeats, lostEnds>>

-----------------------------------------------------------------------------
(* Time: a tick is much longer than a database statement or a poll, so unless *)
(* workers stall it passes only while they idle or send, and a sending worker *)
(* beats at least every BeatGap.                                              *)

Timely ==
  \A w \in Workers :
    \/ pc[w] = "idle"
    \/ pc[w] = "sending" /\ (beat[w] = NoTime \/ now < beat[w] + BeatGap)

Prompt == (\E w \in Workers : pc[w] = "idle") => \A r \in Rows : ~Claimable(r)

Tick ==
  /\ now < MaxTime
  /\ Stalls \/ Timely
  /\ Backlog \/ Prompt
  /\ now' = now + 1
  /\ UNCHANGED <<rowVars, stoppedAt, suppressedUntil, workerVars, history, ledger>>

Attempt(w) ==
  \/ FindSuppressed(w)
  \/ BounceSuppressed(w)
  \/ StartDelivery(w)
  \/ DeliverSucceeds(w)
  \/ \E c \in Categories : DeliverFails(w, c)
  \/ RecordDelivered(w)
  \/ RecordDeferred(w)
  \/ RecordBounced(w)
  \/ LoseWrite(w)
  \/ Suppress(w)
  \/ GenerateBounce(w)

Admin ==
  /\ Admins
  /\ \/ \E S \in SUBSET Rows : BulkRetry(S) \/ BulkBounce(S) \/ BulkDelete(S)
     \/ \E k \in Domains \X Recipients : ClearSuppression(k)

Operator == \E d \in Stoppable : StopOutbound(d) \/ RestartOutbound(d)

Next ==
  \/ \E r \in Rows : Enqueue(r)
  \/ \E w \in Workers : \/ \E r \in Rows : Claim(w, r)
                        \/ PollEmpty(w)
                        \/ Heartbeat(w)
                        \/ Attempt(w)
                        \/ Crash(w)
  \/ Admin
  \/ Operator
  \/ Tick

Spec == Init /\ [][Next]_vars

\* Every worker polls and every step of an attempt has its own timeout, so a
\* worker that is not crashed keeps moving; time passes.  Nothing makes mail
\* be enqueued, an administrator act or a worker crash.
Fairness ==
  /\ WF_vars(Tick)
  /\ \A w \in Workers :
       /\ WF_vars(\E r \in Rows : Claim(w, r))
       /\ WF_vars(Heartbeat(w))
       /\ WF_vars(Attempt(w))

FairSpec == Spec /\ Fairness

-----------------------------------------------------------------------------
(* Safety *)

\* No two workers work on one row at the same time: a claim is exclusive until
\* its attempt's outcome is written, as long as the heartbeat keeps its pace.
\* claim's reclaim interval, the heartbeat and its fence together promise it.
ExclusiveDelivery ==
  \A v, w \in Workers :
    v # w /\ pc[v] \in Holding /\ pc[w] \in Holding => item[v] # item[w]

\* retryAt: no row is scheduled past its expiry, where no claim would select it
\* again.  The worker decides on a copy of the row that a restart of the
\* domain, an administrator or another worker may have outdated.
DeferredBeforeExpiry ==
  \A r \in Rows : status[r] = "deferred" => nextAttempt[r] < expiresAt[r]

\* process, claim, the heartbeat: a message is taken by the recipient's server
\* once, and once more at most for each delivery whose end a crash or a lost
\* write kept from being recorded, over reclaims, retries and administrators.
TakenAgainOnlyIfLost == \A r \in Rows : repeats[r] <= lostEnds[r]

\* retryAt: a deferred row has budget left, counted over every claim of it.
DeferredWithinBudget ==
  \A r \in Rows : status[r] = "deferred" => attempts[r] < MaxRetries

\* recordFailure: with no crash and no lost write, a sender told that the
\* message failed is told the truth: the recipient's server never took it.
NoticeIsTrue == \A r \in Rows : told[r] => ~accepted[r]

\* restartOutbound: a row has exactly the lifetime left when mail flows again
\* that it had when the stop began, or when it was queued during the stop, rows
\* a worker held on to all the while included.
HoldKeepsLifetime ==
  [][\A d \in Domains :
       stoppedAt[d] # NoTime /\ stoppedAt'[d] = NoTime =>
         \A r \in Rows :
           SendsAs[r] = d /\ status[r] \in InFlight
             => expiresAt'[r] - now' = leftAtHold[r]]_vars

\* restartOutbound: held mail is retried for as long as if it had never been
\* stopped, so a transient failure is given up on only when the budget or the
\* lifetime the worker read with the row runs out.
HeldMailIsRetried ==
  [][\A w \in Workers :
       pc[w] = "failed" /\ pc'[w] = "notifying" /\ ~Permanent(failure[w]) =>
         \/ itemAttempts[w] >= MaxRetries
         \/ \E d \in RetryDelays(w) : failedAt[w] + d >= itemExpires[w]]_vars

-----------------------------------------------------------------------------
(* Liveness *)

\* claim: mail is not stranded; every queued row reaches a final state.
NotStranded == \A r \in Rows : Stored(r) ~> status[r] \in Final \union {"deleted"}

-----------------------------------------------------------------------------
(* Refinement *)

Phase(s) ==
  CASE s = "absent" -> "new"
    [] s \in InFlight -> "queued"
    [] s = "bounced" -> "failed"
    [] OTHER -> s

Lifecycle == INSTANCE MessageLifecycle
  WITH Messages <- Rows, phase <- [r \in Rows |-> Phase(status[r])],
       taken <- accepted, notified <- told

\* Worker: with no crash, no failed statement and nobody administering the queue,
\* its claims, retries, heartbeats, reclaims and deadlines keep what
\* MessageLifecycle promises of every message, and settle it.
KeepsPromise == Lifecycle!LifecycleSpec
=============================================================================
