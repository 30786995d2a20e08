------------------------ MODULE OutboundQueueProofs ------------------------
(***************************************************************************)
(* Proofs about OutboundQueue, for every set of rows, workers and domains, *)
(* every schedule and every reclaim interval the code allows.              *)
(***************************************************************************)
EXTENDS OutboundQueue, TLAPS

\* No row was created, and no stop began, in the future.
Clocked ==
  /\ \A r \in Rows : createdAt[r] <= now
  /\ \A d \in Domains : stoppedAt[d] <= now

\* A worker that is not idle works on a row that was enqueued, and counted
\* its claim.
Working ==
  \A w \in Workers :
    pc[w] # "idle" => /\ item[w] \in Rows
                      /\ itemAttempts[w] >= 1
                      /\ status[item[w]] # "absent"

TInv == TypeOK /\ Clocked /\ Working

\* The names a step gives a row's state or a worker's place are in their sets.
LEMMA Names ==
  /\ {"absent", "pending", "delivering", "deferred", "delivered", "bounced",
      "deleted"} \subseteq Statuses
  /\ {"idle", "claimed", "barred", "sending", "sent", "failed", "suppressing",
      "notifying"} \subseteq Steps
BY DEF Statuses, InFlight, Final, Steps, Holding

\* A retry is always some time away (jitteredDelay never returns nothing).
LEMMA DelaysPositive ==
  ASSUME NEW w \in Workers, NEW d \in RetryDelays(w)
  PROVE  d \in Nat /\ d >= 1
BY DEF RetryDelays, jitteredDelays

\* Counting a delivery that was not recorded keeps the count's type.
LEMMA EndTyped ==
  ASSUME TypeOK, NEW w \in Workers, EndUnrecorded(w)
  PROVE  lostEnds' \in [Rows -> Nat]
BY DEF TypeOK, EndUnrecorded

\* The empty queue has its types.
LEMMA InitTyped == Init => TInv
<1> SUFFICES ASSUME Init PROVE TInv
  OBVIOUS
<1>1. TypeOK
  BY Names DEF Init, TypeOK, NoTime
<1>2. Clocked
  BY DEF Init, Clocked, NoTime
<1>3. Working
  BY DEF Init, Working
<1>4. QED
  BY <1>1, <1>2, <1>3 DEF TInv

\* Every step keeps the types, the clock ahead of its stamps and the workers'
\* copies of their rows well formed.
LEMMA StepTyped == TInv /\ [Next]_vars => TInv'
<1> SUFFICES ASSUME TInv, [Next]_vars PROVE TInv'
  OBVIOUS
<1> USE DEF TInv, rowVars, itemVars, workerVars, history, ledger
<1>1. ASSUME NEW r \in Rows, Enqueue(r) PROVE TInv'
  <2>1. PICK life \in Lifetimes :
          /\ expiresAt' = [expiresAt EXCEPT ![r] = now + life]
          /\ leftAtHold' = [leftAtHold EXCEPT ![r] = IF Held(r) THEN life ELSE 0]
    BY <1>1 DEF Enqueue
  <2>2. life \in Nat
    BY TimeAssumption
  <2>3. expiresAt' \in [Rows -> Nat] /\ leftAtHold' \in [Rows -> Int]
    BY <2>1, <2>2 DEF TypeOK
  <2>4. TypeOK'
    BY Names, <1>1, <2>3 DEF TypeOK, Enqueue
  <2>5. Clocked' /\ Working'
    BY <1>1 DEF TypeOK, Enqueue, Clocked, Working
  <2>6. QED
    BY <2>4, <2>5
<1>2. ASSUME NEW w \in Workers, NEW r \in Rows, Claim(w, r) PROVE TInv'
  BY Names, <1>2 DEF TypeOK, Claim, Clocked, Working
<1>3. ASSUME NEW w \in Workers, PollEmpty(w) PROVE TInv'
  BY Names, <1>3 DEF TypeOK, PollEmpty, vars, Clocked, Working
<1>4. ASSUME NEW w \in Workers, Heartbeat(w) PROVE TInv'
  BY Names, <1>4 DEF TypeOK, Heartbeat, NoTime, Clocked, Working
<1>5. ASSUME NEW w \in Workers, Attempt(w) PROVE TInv'
  <2>0. CASE FindSuppressed(w)
    BY Names, <2>0 DEF TypeOK, FindSuppressed, Clocked, Working
  <2>1. CASE BounceSuppressed(w)
    BY Names, <2>1 DEF TypeOK, BounceSuppressed, SetStatus, Working, Clocked
  <2>2. CASE StartDelivery(w)
    BY Names, <2>2 DEF TypeOK, StartDelivery, Clocked, Working
  <2>3. CASE DeliverSucceeds(w)
    <3>1. TypeOK'
      <4>1. accepted' \in [Rows -> BOOLEAN]
        BY <2>3 DEF TypeOK, DeliverSucceeds
      <4>2. QED
        BY Names, <2>3, <4>1 DEF TypeOK, DeliverSucceeds, NoTime
    <3>2. Clocked'
      BY <2>3 DEF TypeOK, Clocked, DeliverSucceeds, NoTime
    <3>3. Working'
      BY <2>3 DEF TypeOK, Working, DeliverSucceeds, NoTime
    <3>4. QED
      BY <3>1, <3>2, <3>3
  <2>4. ASSUME NEW c \in Categories, DeliverFails(w, c) PROVE TInv'
    BY RowAssumption, Names, <2>4 DEF TypeOK, DeliverFails, NoTime, Clocked, Working
  <2>5. CASE RecordDelivered(w)
    <3>1. TypeOK'
      <4>1. status' \in [Rows -> Statuses]
        BY Names, <2>5 DEF TypeOK, RecordDelivered, SetStatus
      <4>2. QED
        BY Names, <2>5, <4>1 DEF TypeOK, RecordDelivered, GoIdle, NoTime
    <3>2. Clocked'
      BY <2>5 DEF TypeOK, Clocked, RecordDelivered, SetStatus, GoIdle, NoTime
    <3>3. Working'
      BY <2>5 DEF TypeOK, Working, RecordDelivered, SetStatus, GoIdle, NoTime
    <3>4. QED
      BY <3>1, <3>2, <3>3
  <2>6. CASE RecordDeferred(w)
    <3>1. TypeOK'
      <4>1. nextAttempt' \in [Rows -> Nat]
        <5>1. PICK d \in RetryDelays(w) :
                nextAttempt' = [nextAttempt EXCEPT ![item[w]] =
                                  IF Stored(item[w]) THEN failedAt[w] + d ELSE @]
          BY <2>6 DEF RecordDeferred
        <5>2. failedAt[w] + d \in Nat
          BY DelaysPositive DEF TypeOK
        <5>3. QED
          BY <5>1, <5>2 DEF TypeOK
      <4>2. status' \in [Rows -> Statuses]
        BY Names, <2>6 DEF TypeOK, RecordDeferred, SetStatus
      <4>3. QED
        BY Names, <2>6, <4>1, <4>2 DEF TypeOK, RecordDeferred, GoIdle, NoTime
    <3>2. Clocked'
      BY <2>6 DEF TypeOK, Clocked, RecordDeferred, SetStatus, Stored, InFlight,
           Final, GoIdle, NoTime
    <3>3. Working'
      BY <2>6 DEF TypeOK, Working, RecordDeferred, SetStatus, Stored, InFlight,
           Final, GoIdle, NoTime
    <3>4. QED
      BY <3>1, <3>2, <3>3
  <2>7. CASE RecordBounced(w)
    BY Names, <2>7
       DEF TypeOK, RecordBounced, SetStatus, AfterBounce, Clocked, Working
  <2>8. CASE LoseWrite(w)
    <3>1. TypeOK'
      <4>1. CASE GoIdle(w)
        BY Names, <2>8, <4>1, EndTyped DEF TypeOK, LoseWrite, GoIdle, NoTime
      <4>2. CASE ~GoIdle(w)
        BY Names, <2>8, <4>2, EndTyped DEF TypeOK, LoseWrite, AfterBounce
      <4>3. QED
        BY <4>1, <4>2
    <3>2. Clocked'
      BY <2>8 DEF TypeOK, Clocked, LoseWrite, GoIdle, AfterBounce, NoTime
    <3>3. Working'
      BY <2>8 DEF TypeOK, Working, LoseWrite, GoIdle, AfterBounce, NoTime
    <3>4. QED
      BY <3>1, <3>2, <3>3
  <2>9. CASE Suppress(w)
    BY TimeAssumption, Names, <2>9 DEF TypeOK, Suppress, Clocked, Working
  <2>10. CASE GenerateBounce(w)
    <3>1. TypeOK'
      <4>1. told' \in [Rows -> BOOLEAN]
        BY <2>10 DEF TypeOK, GenerateBounce
      <4>2. QED
        BY Names, <2>10, <4>1 DEF TypeOK, GenerateBounce, GoIdle, NoTime
    <3>2. Clocked'
      BY <2>10 DEF TypeOK, Clocked, GenerateBounce, GoIdle, NoTime
    <3>3. Working'
      BY <2>10 DEF TypeOK, Working, GenerateBounce, GoIdle, NoTime
    <3>4. QED
      BY <3>1, <3>2, <3>3
  <2>11. QED
    BY <1>5, <2>0, <2>1, <2>2, <2>3, <2>4, <2>5, <2>6, <2>7, <2>8, <2>9, <2>10
       DEF Attempt
<1>6. ASSUME NEW w \in Workers, Crash(w) PROVE TInv'
  <2>1. TypeOK'
    BY Names, <1>6, EndTyped DEF TypeOK, Crash, GoIdle, NoTime
  <2>2. Clocked' /\ Working'
    BY <1>6 DEF TypeOK, Crash, GoIdle, Clocked, Working
  <2>3. QED
    BY <2>1, <2>2
<1>7. ASSUME Admin PROVE TInv'
  <2>1. ASSUME NEW S \in SUBSET Rows, BulkRetry(S) \/ BulkBounce(S) \/ BulkDelete(S)
        PROVE  TInv'
    <3>1. CASE BulkRetry(S)
      BY Names, <3>1 DEF TypeOK, BulkRetry, Clocked, Working
    <3>2. CASE BulkBounce(S)
      BY Names, <3>2 DEF TypeOK, BulkBounce, Clocked, Working
    <3>3. CASE BulkDelete(S)
      BY Names, <3>3 DEF TypeOK, BulkDelete, Clocked, Working
    <3>4. QED
      BY <2>1, <3>1, <3>2, <3>3
  <2>2. ASSUME NEW k \in Domains \X Recipients, ClearSuppression(k) PROVE TInv'
    BY Names, <2>2 DEF TypeOK, ClearSuppression, Clocked, Working
  <2>3. QED
    BY <1>7, <2>1, <2>2 DEF Admin
<1>8. ASSUME NEW d \in Domains, StopOutbound(d) PROVE TInv'
  BY Names, <1>8 DEF TypeOK, StopOutbound, Clocked, Working
<1>9. ASSUME NEW d \in Domains, RestartOutbound(d) PROVE TInv'
  BY Names, <1>9 DEF TypeOK, RestartOutbound, HeldFor, Clocked, NoTime, Working
<1>10. ASSUME Tick PROVE TInv'
  BY Names, <1>10 DEF TypeOK, Tick, Clocked, Working
<1>11. ASSUME UNCHANGED vars PROVE TInv'
  BY Names, <1>11 DEF TypeOK, vars, Clocked, Working
<1>12. QED
  BY RowAssumption, <1>1, <1>2, <1>3, <1>4, <1>5, <1>6, <1>7, <1>8, <1>9, <1>10,
       <1>11
     DEF Next, Operator

\* Every reachable state has the types the columns and the workers' variables
\* are declared with.
THEOREM TypeCorrect == Spec => []TypeOK
<1>1. Spec => []TInv
  BY InitTyped, StepTyped, PTL DEF Spec
<1>2. TInv => TypeOK
  BY DEF TInv
<1>3. QED
  BY <1>1, <1>2, PTL

-----------------------------------------------------------------------------
(* What holds of the rows whatever the workers do: the copies they decide on *)
(* are never newer than the row, and expiries only ever move later.          *)

\* The expiry a worker read with its row is no later than the row's.
SnapshotsOld ==
  \A w \in Workers : pc[w] # "idle" => itemExpires[w] <= expiresAt[item[w]]

\* A worker about to record a delivery has had the message accepted.
SentAccepted == \A w \in Workers : pc[w] = "sent" => accepted[item[w]]

\* A row is given some lifetime when it is enqueued.
BornAlive == \A r \in Rows : status[r] # "absent" => createdAt[r] < expiresAt[r]

RowInv ==
  /\ TInv
  /\ SnapshotsOld
  /\ DeferredBeforeExpiry
  /\ SentAccepted
  /\ BornAlive

\* No row has been touched yet.
LEMMA InitRowInv == Init => RowInv
BY InitTyped DEF Init, RowInv, SnapshotsOld, DeferredBeforeExpiry, SentAccepted, BornAlive

\* A retry the worker schedules comes before the expiry in its copy.
LEMMA RetryInTime ==
  ASSUME TypeOK, NEW w \in Workers, item[w] \in Rows, NEW d \in RetryDelays(w),
         RetryAfter(w, d)
  PROVE  failedAt[w] + d < itemExpires[w]
<1> DEFINE s == scheduleFor(Schedules, failure[w])
<1>1. s.maxAge \in Nat
  BY TimeAssumption DEF scheduleFor
<1>2. failedAt[w] + d \in Nat
  BY DelaysPositive DEF TypeOK
<1>3. failedAt[w] + d < deadline(s, createdAt[item[w]], itemExpires[w])
  BY DEF RetryAfter, mayRetryAt
<1>4. createdAt[item[w]] \in Nat /\ itemExpires[w] \in Nat
  BY DEF TypeOK
<1>5. QED
  BY <1>1, <1>2, <1>3, <1>4 DEF deadline

\* No step of a worker, an operator or the clock breaks the facts about rows.
LEMMA StepRowInv == RowInv /\ [Next]_vars => RowInv'
<1> SUFFICES ASSUME RowInv, [Next]_vars PROVE RowInv'
  OBVIOUS
<1> USE DEF RowInv, TInv, rowVars, itemVars, workerVars, history, ledger
<1>0. TInv'
  BY StepTyped
<1> DEFINE Goal == SnapshotsOld /\ DeferredBeforeExpiry /\ SentAccepted
                     /\ BornAlive
<1>1. ASSUME NEW r \in Rows, Enqueue(r) PROVE Goal'
  BY TimeAssumption, <1>1 DEF SnapshotsOld, TypeOK, Working, Enqueue,
       DeferredBeforeExpiry, SentAccepted, BornAlive, Clocked
<1>2. ASSUME NEW w \in Workers, NEW r \in Rows, Claim(w, r) PROVE Goal'
  BY <1>2 DEF SnapshotsOld, TypeOK, Working, Claim, DeferredBeforeExpiry,
       SentAccepted, BornAlive, Clocked, Claimable
<1>3. ASSUME NEW w \in Workers, PollEmpty(w) PROVE Goal'
  BY <1>3 DEF SnapshotsOld, TypeOK, Working, PollEmpty, vars, DeferredBeforeExpiry,
       SentAccepted, BornAlive, Clocked
<1>4. ASSUME NEW w \in Workers, Heartbeat(w) PROVE Goal'
  BY <1>4 DEF SnapshotsOld, TypeOK, Working, Heartbeat, DeferredBeforeExpiry,
       SentAccepted, BornAlive, Clocked
<1>5. ASSUME NEW w \in Workers, Attempt(w) PROVE Goal'
  <2>0. CASE FindSuppressed(w)
    BY <2>0 DEF SnapshotsOld, TypeOK, Working, FindSuppressed, DeferredBeforeExpiry,
         SentAccepted, BornAlive, Clocked
  <2>1. CASE BounceSuppressed(w)
    BY <2>1 DEF SnapshotsOld, TypeOK, Working, SetStatus, Stored, InFlight, Final,
         BounceSuppressed, DeferredBeforeExpiry, SentAccepted, BornAlive, Clocked
  <2>2. CASE StartDelivery(w)
    BY <2>2 DEF SnapshotsOld, TypeOK, Working, StartDelivery, DeferredBeforeExpiry,
         SentAccepted, BornAlive, Clocked
  <2>3. CASE DeliverSucceeds(w)
    BY <2>3 DEF SnapshotsOld, TypeOK, Working, DeliverSucceeds,
         DeferredBeforeExpiry, SentAccepted, BornAlive,
         Clocked
  <2>4. ASSUME NEW c \in Categories, DeliverFails(w, c) PROVE Goal'
    BY <2>4 DEF SnapshotsOld, TypeOK, Working, DeliverFails, DeferredBeforeExpiry,
         SentAccepted, BornAlive, Clocked
  <2>5. CASE RecordDelivered(w)
    BY <2>5 DEF SnapshotsOld, TypeOK, Working, SetStatus, Stored, InFlight, Final,
         RecordDelivered, GoIdle, DeferredBeforeExpiry, SentAccepted, BornAlive, Clocked
  <2>6. CASE RecordDeferred(w)
    <3>1. SnapshotsOld'
      BY <2>6 DEF SnapshotsOld, TypeOK, Working, SetStatus, Stored, InFlight,
           Final, RecordDeferred, GoIdle
    <3>2. DeferredBeforeExpiry'
      <4>1. item[w] \in Rows /\ expiresAt' = expiresAt
        BY <2>6 DEF RecordDeferred, Working
      <4>2. PICK d \in RetryDelays(w) :
              /\ RetryAfter(w, d)
              /\ nextAttempt' = [nextAttempt EXCEPT ![item[w]] =
                                   IF Stored(item[w]) THEN failedAt[w] + d ELSE @]
        BY <2>6 DEF RecordDeferred
      <4>3. failedAt[w] + d < expiresAt[item[w]]
        <5>1. failedAt[w] + d < itemExpires[w]
          BY <4>1, <4>2, RetryInTime
        <5>2. itemExpires[w] <= expiresAt[item[w]]
          BY <2>6 DEF RecordDeferred, SnapshotsOld
        <5>3. failedAt[w] + d \in Nat
          BY DelaysPositive DEF TypeOK
        <5>4. QED
          BY <4>1, <5>1, <5>2, <5>3 DEF TypeOK
      <4>4. status' = [status EXCEPT ![item[w]] = IF Stored(item[w]) THEN "deferred" ELSE @]
        BY <2>6 DEF RecordDeferred, SetStatus
      <4>5. Stored(item[w]) \/ status[item[w]] # "deferred"
        BY DEF Stored, InFlight
      <4>6. QED
        BY <4>1, <4>2, <4>3, <4>4, <4>5 DEF DeferredBeforeExpiry, TypeOK
    <3>3. SentAccepted'
      BY <2>6 DEF SentAccepted, TypeOK, Working, SetStatus, Stored, InFlight,
           Final, RecordDeferred, GoIdle
    <3>4. BornAlive'
      BY <2>6 DEF BornAlive, TypeOK, Clocked, SetStatus, Stored, InFlight, Final,
           RecordDeferred, GoIdle
    <3>5. QED
      BY <3>1, <3>2, <3>3, <3>4
  <2>7. CASE RecordBounced(w)
    BY <2>7 DEF SnapshotsOld, TypeOK, Working, SetStatus, Stored, InFlight, Final,
         RecordBounced, AfterBounce, DeferredBeforeExpiry, SentAccepted, BornAlive, Clocked
  <2>8. CASE LoseWrite(w)
    BY <2>8 DEF SnapshotsOld, TypeOK, Working, LoseWrite, GoIdle, AfterBounce,
         DeferredBeforeExpiry, SentAccepted, BornAlive,
         Clocked
  <2>9. CASE Suppress(w)
    BY <2>9 DEF SnapshotsOld, TypeOK, Working, Suppress, DeferredBeforeExpiry,
         SentAccepted, BornAlive, Clocked
  <2>10. CASE GenerateBounce(w)
    BY <2>10 DEF SnapshotsOld, TypeOK, Working, GenerateBounce, GoIdle,
         DeferredBeforeExpiry, SentAccepted, BornAlive,
         Clocked
  <2>11. QED
    BY <1>5, <2>0, <2>1, <2>2, <2>3, <2>4, <2>5, <2>6, <2>7, <2>8, <2>9, <2>10
       DEF Attempt
<1>6. ASSUME NEW w \in Workers, Crash(w) PROVE Goal'
  BY <1>6 DEF SnapshotsOld, TypeOK, Working, Crash, GoIdle, DeferredBeforeExpiry,
       SentAccepted, BornAlive, Clocked
<1>7. ASSUME Admin PROVE Goal'
  BY <1>7 DEF SnapshotsOld, TypeOK, Working, Stored, InFlight, Final, Admin,
       BulkRetry, BulkBounce, BulkDelete, ClearSuppression, DeferredBeforeExpiry,
       SentAccepted, BornAlive, Clocked
<1>8. ASSUME NEW d \in Domains, StopOutbound(d) PROVE Goal'
  BY <1>8 DEF SnapshotsOld, TypeOK, Working, StopOutbound, DeferredBeforeExpiry,
       SentAccepted, BornAlive, Clocked
<1>9. ASSUME NEW d \in Domains, RestartOutbound(d) PROVE Goal'
  BY <1>9 DEF SnapshotsOld, TypeOK, Working, Clocked, RestartOutbound, HeldFor,
       NoTime, DeferredBeforeExpiry, SentAccepted, BornAlive
<1>10. ASSUME Tick PROVE Goal'
  BY <1>10 DEF SnapshotsOld, TypeOK, Working, Tick, DeferredBeforeExpiry,
       SentAccepted, BornAlive, Clocked
<1>11. ASSUME UNCHANGED vars PROVE Goal'
  BY <1>11 DEF SnapshotsOld, TypeOK, Working, vars, DeferredBeforeExpiry,
       SentAccepted, BornAlive, Clocked
<1>12. Goal'
  BY RowAssumption, <1>1, <1>2, <1>3, <1>4, <1>5, <1>6, <1>7, <1>8, <1>9, <1>10,
       <1>11
     DEF Next, Operator
<1>13. QED
  BY <1>0, <1>12

\* They hold in every state.
LEMMA AlwaysRowInv == Spec => []RowInv
BY InitRowInv, StepRowInv, PTL DEF Spec

\* No row is ever scheduled past its expiry, even when the worker that decides
\* has lost its claim or an operator restarts the domain meanwhile.
THEOREM NeverDeferredPastExpiry == Spec => []DeferredBeforeExpiry
<1>1. RowInv => DeferredBeforeExpiry
  BY DEF RowInv
<1>2. QED
  BY <1>1, AlwaysRowInv, PTL

\* The lifetime put aside for a held row is what it had left when its hold
\* began: at the stop, or when it was enqueued if that came later.
HeldSince ==
  \A r \in Rows :
    Held(r) /\ status[r] # "absent" =>
      leftAtHold[r] = expiresAt[r] - (IF stoppedAt[SendsAs[r]] < createdAt[r]
                                      THEN createdAt[r] ELSE stoppedAt[SendsAs[r]])

\* No worker, administrator or tick of the clock touches a stop, a row's expiry
\* or what was put aside for it, or brings a row into being.
LEMMA OnlyOperatorsHold ==
  ASSUME RowInv, Next, ~Operator, \A r \in Rows : ~Enqueue(r)
  PROVE  /\ UNCHANGED <<stoppedAt, expiresAt, createdAt, leftAtHold>>
         /\ \A r \in Rows : status'[r] # "absent" => status[r] # "absent"
<1> USE DEF rowVars, itemVars, workerVars, history, ledger
<1>a. TypeOK /\ Working
  BY DEF RowInv, TInv
<1> DEFINE Goal == /\ UNCHANGED <<stoppedAt, expiresAt, createdAt, leftAtHold>>
                   /\ \A r \in Rows : status'[r] # "absent" => status[r] # "absent"
<1>1. ASSUME NEW w \in Workers, Attempt(w) PROVE Goal
  BY <1>a, <1>1 DEF Attempt, FindSuppressed, BounceSuppressed, StartDelivery,
       DeliverSucceeds, DeliverFails, RecordDelivered, RecordDeferred,
       RecordBounced, LoseWrite, Suppress, GenerateBounce, SetStatus, Stored,
       InFlight, Final, TypeOK, Working
<1>2. ASSUME Admin PROVE Goal
  BY <1>a, <1>2 DEF Admin, BulkRetry, BulkBounce, BulkDelete, ClearSuppression,
       Stored, InFlight, Final, TypeOK
<1>3. ASSUME NEW w \in Workers, NEW r \in Rows, Claim(w, r) PROVE Goal
  BY <1>a, <1>3 DEF Claim, Claimable, TypeOK
<1>4. ASSUME NEW w \in Workers, PollEmpty(w) \/ Heartbeat(w) \/ Crash(w) PROVE Goal
  BY <1>4 DEF PollEmpty, Heartbeat, Crash, vars
<1>5. ASSUME Tick PROVE Goal
  BY <1>5 DEF Tick
<1>6. QED
  BY <1>1, <1>2, <1>3, <1>4, <1>5 DEF Next

\* Enqueueing into a stopped domain, stopping and restarting keep it so.
LEMMA StepHeldSince == RowInv /\ HeldSince /\ [Next]_vars => HeldSince'
<1> SUFFICES ASSUME RowInv, HeldSince, [Next]_vars PROVE HeldSince'
  OBVIOUS
<1> USE DEF rowVars, itemVars, workerVars, history, ledger
<1>a. TypeOK /\ Clocked
  BY DEF RowInv, TInv
<1>1. ASSUME NEW r \in Rows, Enqueue(r) PROVE HeldSince'
  <2>1. PICK life \in Lifetimes :
          /\ expiresAt' = [expiresAt EXCEPT ![r] = now + life]
          /\ leftAtHold' = [leftAtHold EXCEPT ![r] = IF Held(r) THEN life ELSE 0]
    BY <1>1 DEF Enqueue
  <2>2. /\ createdAt' = [createdAt EXCEPT ![r] = now]
        /\ status' = [status EXCEPT ![r] = "pending"]
        /\ stoppedAt' = stoppedAt
    BY <1>1 DEF Enqueue
  <2>3. life \in Nat /\ now \in Nat /\ SendsAs[r] \in Domains
    BY <1>a, TimeAssumption, RowAssumption DEF TypeOK
  <2>4. stoppedAt[SendsAs[r]] \in Int /\ stoppedAt[SendsAs[r]] <= now
    BY <1>a, <2>3 DEF TypeOK, Clocked
  <2>5. leftAtHold'[r] = IF Held(r) THEN life ELSE 0
    BY <1>a, <2>1 DEF TypeOK
  <2>6. expiresAt'[r] = now + life /\ createdAt'[r] = now
    BY <1>a, <2>1, <2>2 DEF TypeOK
  <2>7. \A q \in Rows \ {r} : /\ leftAtHold'[q] = leftAtHold[q]
                              /\ expiresAt'[q] = expiresAt[q]
                              /\ createdAt'[q] = createdAt[q]
                              /\ status'[q] = status[q]
    BY <1>a, <2>1, <2>2 DEF TypeOK
  <2>8. QED
    BY <2>2, <2>3, <2>4, <2>5, <2>6, <2>7 DEF HeldSince, Held
<1>2. ASSUME NEW d \in Domains, StopOutbound(d) PROVE HeldSince'
  BY <1>a, <1>2, RowAssumption DEF StopOutbound, HeldSince, Held, TypeOK, Clocked, NoTime
<1>3. ASSUME NEW d \in Domains, RestartOutbound(d) PROVE HeldSince'
  BY <1>a, <1>3, RowAssumption DEF RestartOutbound, Restarted, HeldSince, Held, TypeOK
<1>4. ASSUME Next, ~Operator, \A r \in Rows : ~Enqueue(r) PROVE HeldSince'
  BY <1>4, OnlyOperatorsHold DEF HeldSince, Held
<1>5. ASSUME UNCHANGED vars PROVE HeldSince'
  BY <1>5 DEF vars, HeldSince, Held
<1>6. QED
  BY RowAssumption, <1>1, <1>2, <1>3, <1>4, <1>5 DEF Operator

\* A stop gives back exactly the lifetime it took: what a row in flight had left
\* when its hold began it has left when its domain's mail flows again, however
\* long the stop lasted and whatever was done with the row meanwhile.
THEOREM StopKeepsLifetime == Spec => HoldKeepsLifetime
<1> DEFINE Kept ==
      \A d \in Domains :
        stoppedAt[d] # NoTime /\ stoppedAt'[d] = NoTime =>
          \A r \in Rows :
            SendsAs[r] = d /\ status[r] \in InFlight
              => expiresAt'[r] - now' = leftAtHold[r]
<1>1. RowInv /\ HeldSince /\ [Next]_vars => [Kept]_vars
  <2> SUFFICES ASSUME RowInv, HeldSince, Next PROVE Kept
    OBVIOUS
  <2>1. ASSUME NEW d \in Domains, RestartOutbound(d) PROVE Kept
    <3> SUFFICES ASSUME NEW r \in Rows, SendsAs[r] = d, status[r] \in InFlight
                 PROVE  expiresAt'[r] - now' = leftAtHold[r]
      BY <2>1 DEF RestartOutbound, RowInv, TInv, TypeOK
    <3>1. now' = now /\ expiresAt'[r] = expiresAt[r] + HeldFor(d, r)
      BY <2>1 DEF RestartOutbound, Restarted
    <3>2. Held(r) /\ status[r] # "absent"
      BY <2>1 DEF RestartOutbound, Held, InFlight
    <3>3. leftAtHold[r] = expiresAt[r] - (IF stoppedAt[d] < createdAt[r]
                                          THEN createdAt[r] ELSE stoppedAt[d])
      BY <3>2 DEF HeldSince
    <3>4. QED
      BY <3>1, <3>3 DEF HeldFor, RowInv, TInv, TypeOK
  <2>2. ASSUME NEW d \in Domains, StopOutbound(d) PROVE Kept
    BY <2>2 DEF StopOutbound, RowInv, TInv, TypeOK, Clocked, NoTime
  <2>3. ASSUME ~Operator PROVE stoppedAt' = stoppedAt
    <3>1. ASSUME NEW r \in Rows, Enqueue(r) PROVE stoppedAt' = stoppedAt
      BY <3>1 DEF Enqueue
    <3>2. QED
      BY <2>3, <3>1, OnlyOperatorsHold
  <2>4. QED
    BY RowAssumption, <2>1, <2>2, <2>3 DEF Operator
<1>2. Init => HeldSince
  BY DEF Init, HeldSince, Held
<1>3. QED
  BY <1>1, <1>2, InitRowInv, StepRowInv, StepHeldSince, PTL DEF Spec, HoldKeepsLifetime

-----------------------------------------------------------------------------
(* The claim is exclusive while workers keep their heartbeats.              *)

\* While a worker holds its row, nobody else has counted an attempt of it, and
\* only an administrator can have moved it on.
HeldByClaim ==
  \A w \in Workers :
    pc[w] \in Holding =>
      /\ attempts[item[w]] = itemAttempts[w]
      /\ status[item[w]] \in {"delivering", "bounced", "deleted"}

\* And a row still being delivered is not old enough to be reclaimed: its
\* last_attempt is the worker's last beat, at most BeatGap ago.
Fresh ==
  \A w \in Workers :
    pc[w] \in Holding /\ status[item[w]] = "delivering" =>
      /\ now <= lastAttempt[item[w]] + BeatGap
      /\ pc[w] = "claimed" => claimedAt[w] = lastAttempt[item[w]]
      /\ pc[w] = "sending" => beat[w] = lastAttempt[item[w]]

ClaimInv ==
  /\ TInv
  /\ ExclusiveDelivery
  /\ HeldByClaim
  /\ Fresh
  /\ DeferredWithinBudget

\* No row has been claimed yet.
LEMMA InitClaimInv == Init => ClaimInv
BY InitTyped DEF Init, ClaimInv, ExclusiveDelivery, HeldByClaim, Fresh,
                 DeferredWithinBudget, Holding

\* A row another worker holds cannot be claimed.
LEMMA HeldNotClaimable ==
  ASSUME ClaimInv, NEW w \in Workers, pc[w] \in Holding
  PROVE  ~Claimable(item[w])
<1>1. item[w] \in Rows /\ status[item[w]] \in {"delivering", "bounced", "deleted"}
  BY DEF ClaimInv, TInv, Working, HeldByClaim, Holding
<1>2. status[item[w]] = "delivering" => now <= lastAttempt[item[w]] + BeatGap
  BY DEF ClaimInv, Fresh
<1>3. now \in Nat /\ lastAttempt[item[w]] \in Nat
  BY <1>1 DEF ClaimInv, TInv, TypeOK
<1>4. QED
  BY <1>1, <1>2, <1>3, ReclaimAssumption DEF Claimable

\* As long as no worker stalls past the reclaim interval, every step keeps the
\* claims apart.
LEMMA StepClaimInv == ~Stalls /\ ClaimInv /\ [Next]_vars => ClaimInv'
<1> SUFFICES ASSUME ~Stalls, ClaimInv, [Next]_vars PROVE ClaimInv'
  OBVIOUS
<1> USE DEF ClaimInv, TInv, rowVars, itemVars, workerVars, history, ledger
<1>0. TInv'
  BY StepTyped
<1> DEFINE Goal == ExclusiveDelivery /\ HeldByClaim /\ Fresh /\ DeferredWithinBudget
<1>1. ASSUME NEW r \in Rows, Enqueue(r) PROVE Goal'
  BY <1>1 DEF ExclusiveDelivery, HeldByClaim, Fresh, TypeOK, Working, Holding,
       Enqueue, DeferredWithinBudget
<1>2. ASSUME NEW w \in Workers, NEW r \in Rows, Claim(w, r) PROVE Goal'
  BY HeldNotClaimable, ReclaimAssumption, <1>2 DEF ExclusiveDelivery, HeldByClaim,
       Fresh, TypeOK, Working, Holding, Claim, DeferredWithinBudget
<1>3. ASSUME NEW w \in Workers, PollEmpty(w) PROVE Goal'
  BY <1>3 DEF ExclusiveDelivery, HeldByClaim, Fresh, TypeOK, Working, Holding,
       PollEmpty, vars, DeferredWithinBudget
<1>4. ASSUME NEW w \in Workers, Heartbeat(w) PROVE Goal'
  BY ReclaimAssumption, <1>4 DEF ExclusiveDelivery, HeldByClaim, Fresh, TypeOK,
       Working, Holding, Heartbeat, NoTime, DeferredWithinBudget
<1>5. ASSUME NEW w \in Workers, Attempt(w) PROVE Goal'
  <2>0. CASE FindSuppressed(w)
    BY <2>0 DEF ExclusiveDelivery, HeldByClaim, Fresh, TypeOK, Working, Holding,
         FindSuppressed, DeferredWithinBudget
  <2>1. CASE BounceSuppressed(w)
    BY <2>1 DEF ExclusiveDelivery, HeldByClaim, Fresh, TypeOK, Working, Holding,
         SetStatus, Stored, InFlight, Final, BounceSuppressed, DeferredWithinBudget
  <2>2. CASE StartDelivery(w)
    BY <2>2 DEF ExclusiveDelivery, HeldByClaim, Fresh, TypeOK, Working, Holding,
         StartDelivery, DeferredWithinBudget
  <2>3. CASE DeliverSucceeds(w)
    BY <2>3 DEF ExclusiveDelivery, HeldByClaim, Fresh, TypeOK, Working, Holding,
         DeliverSucceeds, DeferredWithinBudget
  <2>4. ASSUME NEW c \in Categories, DeliverFails(w, c) PROVE Goal'
    BY <2>4 DEF ExclusiveDelivery, HeldByClaim, Fresh, TypeOK, Working, Holding,
         DeliverFails, DeferredWithinBudget
  <2>5. CASE RecordDelivered(w)
    BY <2>5 DEF ExclusiveDelivery, HeldByClaim, Fresh, TypeOK, Working, Holding,
         SetStatus, Stored, InFlight, Final, RecordDelivered, GoIdle,
         DeferredWithinBudget
  <2>6. CASE RecordDeferred(w)
    BY <2>6 DEF ExclusiveDelivery, HeldByClaim, Fresh, TypeOK, Working, Holding,
         SetStatus, Stored, InFlight, Final, RecordDeferred, GoIdle, RetryAfter,
         mayRetryAt, DeferredWithinBudget
  <2>7. CASE RecordBounced(w)
    BY <2>7 DEF ExclusiveDelivery, HeldByClaim, Fresh, TypeOK, Working, Holding,
         SetStatus, Stored, InFlight, Final, RecordBounced, AfterBounce,
         DeferredWithinBudget
  <2>8. CASE LoseWrite(w)
    <3>1. ExclusiveDelivery'
      BY <2>8 DEF ExclusiveDelivery, HeldByClaim, Fresh, TypeOK, Working, Holding,
           LoseWrite, GoIdle, AfterBounce
    <3>2. HeldByClaim'
      BY <2>8 DEF HeldByClaim, ExclusiveDelivery, TypeOK, Working, Holding,
           LoseWrite, GoIdle, AfterBounce
    <3>3. Fresh'
      BY <2>8 DEF Fresh, HeldByClaim, ExclusiveDelivery, TypeOK, Working, Holding,
           LoseWrite, GoIdle, AfterBounce
    <3>4. DeferredWithinBudget'
      BY <2>8 DEF DeferredWithinBudget, HeldByClaim, TypeOK, Working, Holding,
           LoseWrite, GoIdle, AfterBounce
    <3>5. QED
      BY <3>1, <3>2, <3>3, <3>4
  <2>9. CASE Suppress(w)
    BY <2>9 DEF ExclusiveDelivery, HeldByClaim, Fresh, TypeOK, Working, Holding,
         Suppress, DeferredWithinBudget
  <2>10. CASE GenerateBounce(w)
    BY <2>10 DEF ExclusiveDelivery, HeldByClaim, Fresh, TypeOK, Working, Holding,
         GenerateBounce, GoIdle, DeferredWithinBudget
  <2>11. QED
    BY <1>5, <2>0, <2>1, <2>2, <2>3, <2>4, <2>5, <2>6, <2>7, <2>8, <2>9, <2>10
       DEF Attempt
<1>6. ASSUME NEW w \in Workers, Crash(w) PROVE Goal'
  BY <1>6 DEF ExclusiveDelivery, HeldByClaim, Fresh, TypeOK, Working, Holding,
       Crash, GoIdle, DeferredWithinBudget
<1>7. ASSUME Admin PROVE Goal'
  <2>1. ASSUME NEW S \in SUBSET Rows, BulkRetry(S) \/ BulkBounce(S) \/ BulkDelete(S)
        PROVE  Goal'
    <3>1. CASE BulkRetry(S)
      BY <3>1 DEF ExclusiveDelivery, HeldByClaim, Fresh, TypeOK, Working, Holding,
           BulkRetry, DeferredWithinBudget
    <3>2. CASE BulkBounce(S)
      BY <3>2 DEF ExclusiveDelivery, HeldByClaim, Fresh, TypeOK, Working, Holding,
           BulkBounce, DeferredWithinBudget
    <3>3. CASE BulkDelete(S)
      BY <3>3 DEF ExclusiveDelivery, HeldByClaim, Fresh, TypeOK, Working, Holding,
           BulkDelete, DeferredWithinBudget
    <3>4. QED
      BY <2>1, <3>1, <3>2, <3>3
  <2>2. ASSUME NEW k \in Domains \X Recipients, ClearSuppression(k) PROVE Goal'
    BY <2>2 DEF ExclusiveDelivery, HeldByClaim, Fresh, ClearSuppression,
         DeferredWithinBudget
  <2>3. QED
    BY <1>7, <2>1, <2>2 DEF Admin
<1>8. ASSUME NEW d \in Domains, StopOutbound(d) PROVE Goal'
  BY <1>8 DEF ExclusiveDelivery, HeldByClaim, Fresh, TypeOK, Working, Holding,
       StopOutbound, DeferredWithinBudget
<1>9. ASSUME NEW d \in Domains, RestartOutbound(d) PROVE Goal'
  BY <1>9 DEF ExclusiveDelivery, HeldByClaim, Fresh, TypeOK, Working, Holding,
       RestartOutbound, DeferredWithinBudget
<1>10. ASSUME Tick PROVE Goal'
  BY SMTT(30), ReclaimAssumption, <1>10 DEF ExclusiveDelivery, HeldByClaim, Fresh, TypeOK,
       Working, Holding, Tick, Timely, NoTime, DeferredWithinBudget
<1>11. ASSUME UNCHANGED vars PROVE Goal'
  BY <1>11 DEF ExclusiveDelivery, HeldByClaim, Fresh, TypeOK, Working, Holding,
       vars, DeferredWithinBudget
<1>12. Goal'
  BY RowAssumption, <1>1, <1>2, <1>3, <1>4, <1>5, <1>6, <1>7, <1>8, <1>9, <1>10,
       <1>11
     DEF Next, Operator
<1>13. QED
  BY <1>0, <1>12

\* So they are in every state.
LEMMA AlwaysClaimInv == ~Stalls => (Spec => []ClaimInv)
<1> SUFFICES ASSUME ~Stalls PROVE Spec => []ClaimInv
  OBVIOUS
<1>1. ClaimInv /\ [Next]_vars => ClaimInv'
  BY StepClaimInv
<1>2. QED
  BY InitClaimInv, <1>1, PTL DEF Spec

\* While no worker stalls past its heartbeat, no two workers ever work on one
\* row: crashes, administrators, stops and failed statements included.
THEOREM ClaimIsExclusive == ~Stalls => (Spec => []ExclusiveDelivery)
<1>1. ClaimInv => ExclusiveDelivery
  BY DEF ClaimInv
<1>2. QED
  BY <1>1, AlwaysClaimInv, PTL

\* Nor is a row ever deferred once its claims have used up its retry budget.
THEOREM BudgetIsKept == ~Stalls => (Spec => []DeferredWithinBudget)
<1>1. ClaimInv => DeferredWithinBudget
  BY DEF ClaimInv
<1>2. QED
  BY <1>1, AlwaysClaimInv, PTL

-----------------------------------------------------------------------------
(* A message is taken again only after a delivery nobody could record.       *)

\* As many deliveries of the row were lost as the recipient's server made:
\* another one repeats nothing that is not accounted for.
Spare(r) == accepted[r] => repeats[r] < lostEnds[r]

\* A row that may still be claimed or sent can bear another delivery, unless the
\* worker that has just made one is about to record it.
EndInv ==
  /\ ClaimInv
  /\ TakenAgainOnlyIfLost
  /\ \A w \in Workers : pc[w] \in Holding /\ pc[w] # "sent" => Spare(item[w])
  /\ \A r \in Rows :
       status[r] \in InFlight \union {"absent"} =>
         Spare(r) \/ \E w \in Workers : pc[w] = "sent" /\ item[w] = r

\* Nothing has been sent yet.
LEMMA InitEndInv == Init => EndInv
BY InitClaimInv DEF Init, EndInv, TakenAgainOnlyIfLost, Spare, Holding, InFlight

\* As long as no worker stalls past the reclaim interval, every step keeps the
\* account of deliveries.
LEMMA StepEndInv == ~Stalls /\ EndInv /\ [Next]_vars => EndInv'
<1> SUFFICES ASSUME ~Stalls, EndInv, [Next]_vars PROVE EndInv'
  OBVIOUS
<1> DEFINE Goal ==
      /\ TakenAgainOnlyIfLost
      /\ \A w \in Workers : pc[w] \in Holding /\ pc[w] # "sent" => Spare(item[w])
      /\ \A r \in Rows :
           status[r] \in InFlight \union {"absent"} =>
             Spare(r) \/ \E w \in Workers : pc[w] = "sent" /\ item[w] = r
<1>0. ClaimInv /\ ClaimInv'
  BY StepClaimInv DEF EndInv
<1>a. Goal
  BY DEF EndInv
<1>b. TypeOK /\ Working /\ ExclusiveDelivery /\ HeldByClaim
  BY <1>0 DEF ClaimInv, TInv
<1>c. ASSUME UNCHANGED <<accepted, repeats, lostEnds, pc, item>>,
             \A r \in Rows : status'[r] \in InFlight \union {"absent"}
                                => status[r] \in InFlight \union {"absent"}
      PROVE  Goal'
  BY <1>a, <1>c DEF TakenAgainOnlyIfLost, Spare
<1> USE DEF rowVars, itemVars, workerVars, history, ledger
<1>1. ASSUME NEW r \in Rows, Enqueue(r) PROVE Goal'
  BY <1>b, <1>1, <1>c DEF Enqueue, TypeOK, InFlight
<1>2. ASSUME NEW w \in Workers, NEW r \in Rows, Claim(w, r) PROVE Goal'
  <2>1. \A v \in Workers : pc[v] \in Holding => item[v] # r
    BY <1>0, <1>2, HeldNotClaimable DEF Claim
  <2>2. Spare(r)
    BY <1>a, <1>2, <2>1 DEF Claim, Claimable, InFlight, Holding
  <2>3. QED
    BY <1>a, <1>b, <1>2, <2>1, <2>2 DEF Claim, TypeOK, TakenAgainOnlyIfLost, Spare,
         Working, InFlight, Holding
<1>3. ASSUME NEW w \in Workers, Heartbeat(w) PROVE Goal'
  BY <1>3, <1>c DEF Heartbeat
<1>4. ASSUME NEW w \in Workers, Attempt(w) PROVE Goal'
  <2>1. CASE \/ FindSuppressed(w) \/ StartDelivery(w)
             \/ \E c \in Categories : DeliverFails(w, c)
    BY <1>a, <1>b, <2>1 DEF FindSuppressed, StartDelivery, DeliverFails, TypeOK,
         TakenAgainOnlyIfLost, Spare, Holding
  <2>2. CASE BounceSuppressed(w) \/ RecordBounced(w)
    <3>1. /\ status' = [status EXCEPT ![item[w]] = IF Stored(item[w]) THEN "bounced" ELSE @]
          /\ pc[w] \in {"barred", "failed"}
          /\ pc' = [pc EXCEPT ![w] = pc'[w]]
          /\ pc'[w] \in {"suppressing", "notifying"}
          /\ UNCHANGED <<accepted, repeats, lostEnds, item>>
      BY <1>b, <2>2 DEF BounceSuppressed, RecordBounced, AfterBounce, SetStatus, TypeOK
    <3>2. QED
      BY <1>a, <1>b, <3>1 DEF TypeOK, TakenAgainOnlyIfLost, Spare, Holding, InFlight,
           Final, Stored, Working
  <2>3. CASE DeliverSucceeds(w)
    BY <1>a, <1>b, <2>3 DEF DeliverSucceeds, TypeOK, TakenAgainOnlyIfLost, Spare,
         Holding, Working, ExclusiveDelivery
  <2>4. CASE RecordDelivered(w)
    BY <1>a, <1>b, <2>4 DEF RecordDelivered, GoIdle, SetStatus, Stored, TypeOK,
         TakenAgainOnlyIfLost, Spare, Holding, InFlight, Final, Working,
         ExclusiveDelivery, HeldByClaim
  <2>5. CASE RecordDeferred(w)
    BY <1>a, <1>b, <2>5 DEF RecordDeferred, GoIdle, SetStatus, Stored, TypeOK,
         TakenAgainOnlyIfLost, Spare, Holding, InFlight, Final, Working
  <2>6. CASE LoseWrite(w)
    <3>1. CASE pc[w] = "sent"
      <4>1. /\ lostEnds' = [r \in Rows |-> IF r = item[w] THEN lostEnds[r] + 1
                                           ELSE lostEnds[r]]
            /\ pc' = [pc EXCEPT ![w] = "idle"]
            /\ item' = [item EXCEPT ![w] = NoRow]
            /\ UNCHANGED <<status, accepted, repeats>>
        BY <2>6, <3>1 DEF LoseWrite, EndUnrecorded, GoIdle
      <4>2. QED
        BY <1>a, <1>b, <3>1, <4>1 DEF TypeOK, TakenAgainOnlyIfLost, Spare, Holding,
             Working, ExclusiveDelivery
    <3>2. CASE pc[w] # "sent"
      <4>1. lostEnds' = lostEnds
        BY <1>b, <2>6, <3>2 DEF LoseWrite, EndUnrecorded, TypeOK
      <4>2. QED
        BY <1>a, <1>b, <2>6, <3>2, <4>1 DEF LoseWrite, GoIdle, AfterBounce, TypeOK,
             TakenAgainOnlyIfLost, Spare, Holding, Working
    <3>3. QED
      BY <3>1, <3>2
  <2>7. CASE Suppress(w) \/ GenerateBounce(w)
    <3>1. /\ pc[w] \in {"suppressing", "notifying"}
          /\ \A v \in Workers \ {w} : pc'[v] = pc[v] /\ item'[v] = item[v]
          /\ pc'[w] \in {"notifying", "idle"}
          /\ UNCHANGED <<status, accepted, repeats, lostEnds>>
      BY <1>b, <2>7 DEF Suppress, GenerateBounce, GoIdle, TypeOK
    <3>2. QED
      BY <1>a, <3>1 DEF TakenAgainOnlyIfLost, Spare, Holding
  <2>8. QED
    BY <1>4, <2>1, <2>2, <2>3, <2>4, <2>5, <2>6, <2>7 DEF Attempt
<1>5. ASSUME NEW w \in Workers, Crash(w) PROVE Goal'
  <2>1. CASE pc[w] = "sent"
    BY <1>a, <1>b, <1>5, <2>1 DEF Crash, EndUnrecorded, GoIdle, TypeOK,
         TakenAgainOnlyIfLost, Spare, Holding, Working, ExclusiveDelivery
  <2>2. CASE pc[w] # "sent"
    <3>1. lostEnds' = lostEnds
      BY <1>b, <1>5, <2>2 DEF Crash, EndUnrecorded, TypeOK
    <3>2. QED
      BY <1>a, <1>b, <1>5, <2>2, <3>1 DEF Crash, GoIdle, TypeOK,
           TakenAgainOnlyIfLost, Spare, Holding, Working
  <2>3. QED
    BY <2>1, <2>2
<1>6. ASSUME Admin PROVE Goal'
  BY <1>b, <1>6, <1>c DEF Admin, BulkRetry, BulkBounce, BulkDelete, ClearSuppression,
       Stored, InFlight, Final, TypeOK
<1>7. ASSUME Operator \/ Tick \/ UNCHANGED vars PROVE Goal'
  BY <1>7, <1>c DEF Operator, StopOutbound, RestartOutbound, Tick, vars
<1>8. \A w \in Workers : PollEmpty(w) => UNCHANGED vars
  BY DEF PollEmpty
<1>9. Goal'
  <2> HIDE DEF Goal
  <2> QED
    BY <1>1, <1>2, <1>3, <1>4, <1>5, <1>6, <1>7, <1>8 DEF Next
<1>10. QED
  BY <1>0, <1>9 DEF EndInv

\* While no worker stalls past the reclaim interval, a message is taken by the
\* recipient's server once, and once more at most for each delivery whose end a
\* crash or a failed write kept from being recorded.
THEOREM RepeatsWereLost == ~Stalls => (Spec => []TakenAgainOnlyIfLost)
<1> SUFFICES ASSUME ~Stalls PROVE Spec => []TakenAgainOnlyIfLost
  OBVIOUS
<1>1. EndInv /\ [Next]_vars => EndInv'
  BY StepEndInv
<1>2. EndInv => TakenAgainOnlyIfLost
  BY DEF EndInv
<1>3. QED
  BY InitEndInv, <1>1, <1>2, PTL DEF Spec

-----------------------------------------------------------------------------
(* A notice of failure is true: no message is both taken and given up on.    *)

\* The bounce is written and its notice is still to come.
Noticing == {"suppressing", "notifying"}

\* A message the recipient's server took is neither yet to be enqueued nor
\* waiting to be sent again: if it is in flight, the worker that sent it is
\* about to record that.
TakenIsHeld ==
  \A r \in Rows :
    accepted[r] =>
      /\ status[r] \notin {"absent", "pending", "deferred"}
      /\ status[r] = "delivering" => \E w \in Workers : pc[w] = "sent" /\ item[w] = r

\* A worker that has yet to send, or failed to, works on a message nobody took.
TryingIsUntaken ==
  \A w \in Workers : pc[w] \in Holding /\ pc[w] # "sent" => ~accepted[item[w]]

\* A message given up on was never taken, and no worker is trying it.
GivenUp(r) ==
  /\ ~accepted[r]
  /\ status[r] \in {"bounced", "deleted"}
  /\ \A w \in Workers : pc[w] \in Holding => item[w] # r

NoticeInv ==
  /\ ClaimInv
  /\ TakenIsHeld
  /\ TryingIsUntaken
  /\ \A w \in Workers : pc[w] \in Noticing => GivenUp(item[w])
  /\ \A r \in Rows : told[r] => GivenUp(r)

\* Nobody has been told anything yet.
LEMMA InitNoticeInv == Init => NoticeInv
BY InitClaimInv DEF Init, NoticeInv, TakenIsHeld, TryingIsUntaken, GivenUp,
                    Noticing, Holding

\* A row that can be claimed was not taken and not given up on.
LEMMA ClaimableIsOpen ==
  ASSUME NoticeInv, NEW r \in Rows, Claimable(r)
  PROVE  /\ ~accepted[r]
         /\ status[r] \in InFlight
         /\ \A w \in Workers : pc[w] \in Holding => item[w] # r
<1>1. status[r] \in InFlight
  BY DEF Claimable, InFlight
<1>2. \A w \in Workers : pc[w] \in Holding => item[w] # r
  BY HeldNotClaimable DEF NoticeInv
<1>3. ~accepted[r]
  BY <1>1, <1>2 DEF NoticeInv, TakenIsHeld, Holding, InFlight
<1>4. QED
  BY <1>1, <1>2, <1>3

\* With no stall, no crash and no lost write, every step keeps notices true.
LEMMA StepNoticeInv ==
  ~Stalls /\ ~Crashes /\ ~DbErrors /\ NoticeInv /\ [Next]_vars => NoticeInv'
<1> SUFFICES ASSUME ~Stalls, ~Crashes, ~DbErrors, NoticeInv, [Next]_vars
             PROVE  NoticeInv'
  OBVIOUS
<1>0. ClaimInv /\ ClaimInv'
  BY StepClaimInv DEF NoticeInv
<1> DEFINE Goal == /\ TakenIsHeld
                   /\ TryingIsUntaken
                   /\ \A w \in Workers : pc[w] \in Noticing => GivenUp(item[w])
                   /\ \A r \in Rows : told[r] => GivenUp(r)
<1>a. Goal
  BY DEF NoticeInv
<1>b. TypeOK /\ Working /\ ExclusiveDelivery /\ HeldByClaim
  BY <1>0 DEF ClaimInv, TInv
<1> USE DEF rowVars, itemVars, workerVars, history, ledger, Noticing
<1>1. ASSUME NEW r \in Rows, Enqueue(r) PROVE Goal'
  BY <1>a, <1>b, <1>1 DEF Enqueue, TypeOK, TakenIsHeld, TryingIsUntaken, GivenUp,
       Working, InFlight
<1>2. ASSUME NEW w \in Workers, NEW r \in Rows, Claim(w, r) PROVE Goal'
  BY SMTT(30), <1>a, <1>b, ClaimableIsOpen, <1>2 DEF Claim, TypeOK, TakenIsHeld,
       TryingIsUntaken, GivenUp, Working, InFlight, Holding
<1>3. ASSUME NEW w \in Workers, Heartbeat(w) PROVE Goal'
  BY <1>a, <1>3 DEF Heartbeat, TakenIsHeld, TryingIsUntaken, GivenUp
<1>4. ASSUME NEW w \in Workers, Attempt(w) PROVE Goal'
  <2>1. CASE FindSuppressed(w)
    BY <1>a, <1>b, <2>1 DEF FindSuppressed, TypeOK, TakenIsHeld, TryingIsUntaken,
         GivenUp, Holding
  <2>2. CASE BounceSuppressed(w)
    BY <1>a, <1>b, <2>2 DEF BounceSuppressed, SetStatus, Stored, TypeOK,
         TakenIsHeld, TryingIsUntaken, GivenUp, Holding, InFlight, Final,
         Working, ExclusiveDelivery, HeldByClaim
  <2>3. CASE StartDelivery(w)
    BY <1>a, <1>b, <2>3 DEF StartDelivery, TypeOK, TakenIsHeld, TryingIsUntaken,
         GivenUp, Holding
  <2>4. CASE DeliverSucceeds(w)
    BY <1>a, <1>b, <2>4 DEF DeliverSucceeds, TypeOK, TakenIsHeld, TryingIsUntaken,
         GivenUp, Holding, InFlight, Working, ExclusiveDelivery, HeldByClaim
  <2>5. ASSUME NEW c \in Categories, DeliverFails(w, c) PROVE Goal'
    BY <1>a, <1>b, <2>5 DEF DeliverFails, TypeOK, TakenIsHeld, TryingIsUntaken,
         GivenUp, Holding
  <2>6. CASE RecordDelivered(w)
    BY <1>a, <1>b, <2>6 DEF RecordDelivered, GoIdle, SetStatus, Stored, TypeOK,
         TakenIsHeld, TryingIsUntaken, GivenUp, Holding, InFlight, Final,
         Working, ExclusiveDelivery, HeldByClaim
  <2>7. CASE RecordDeferred(w)
    BY <1>a, <1>b, <2>7 DEF RecordDeferred, GoIdle, SetStatus, Stored, TypeOK,
         TakenIsHeld, TryingIsUntaken, GivenUp, Holding, InFlight, Final,
         Working, ExclusiveDelivery, HeldByClaim
  <2>8. CASE RecordBounced(w)
    BY <1>a, <1>b, <2>8 DEF RecordBounced, AfterBounce, SetStatus, Stored, TypeOK,
         TakenIsHeld, TryingIsUntaken, GivenUp, Holding, InFlight, Final,
         Working, ExclusiveDelivery, HeldByClaim
  <2>9. CASE Suppress(w)
    BY <1>a, <1>b, <2>9 DEF Suppress, TypeOK, TakenIsHeld, TryingIsUntaken, GivenUp,
         Holding
  <2>10. CASE GenerateBounce(w)
    BY <1>a, <1>b, <2>10 DEF GenerateBounce, GoIdle, TypeOK, TakenIsHeld,
         TryingIsUntaken, GivenUp, Holding, Working
  <2>11. ~LoseWrite(w)
    BY DEF LoseWrite
  <2>12. QED
    BY <1>4, <2>1, <2>2, <2>3, <2>4, <2>5, <2>6, <2>7, <2>8, <2>9, <2>10, <2>11
       DEF Attempt
<1>5. ASSUME Admin PROVE Goal'
  <2>1. ASSUME NEW S \in SUBSET Rows, BulkRetry(S) PROVE Goal'
    <3>1. \A r \in Rows : status'[r] = status[r] \/ (status[r] = "deferred" /\ status'[r] = "pending")
      BY <1>b, <2>1 DEF BulkRetry, TypeOK
    <3>2. UNCHANGED <<pc, item, accepted, told>>
      BY <2>1 DEF BulkRetry
    <3>3. QED
      BY <1>a, <1>b, <3>1, <3>2 DEF TakenIsHeld, TryingIsUntaken, GivenUp, Working
  <2>2. ASSUME NEW S \in SUBSET Rows, BulkBounce(S) PROVE Goal'
    BY <1>a, <1>b, <2>2 DEF BulkBounce, TypeOK, TakenIsHeld, TryingIsUntaken,
         GivenUp, InFlight, Working
  <2>3. ASSUME NEW S \in SUBSET Rows, BulkDelete(S) PROVE Goal'
    BY <1>a, <1>b, <2>3 DEF BulkDelete, Stored, TypeOK, TakenIsHeld,
         TryingIsUntaken, GivenUp, InFlight, Working
  <2>4. ASSUME NEW k \in Domains \X Recipients, ClearSuppression(k) PROVE Goal'
    BY <1>a, <2>4 DEF ClearSuppression, TakenIsHeld, TryingIsUntaken, GivenUp
  <2>5. QED
    BY <1>5, <2>1, <2>2, <2>3, <2>4 DEF Admin
<1>6. ASSUME Operator \/ Tick PROVE Goal'
  BY <1>a, <1>6 DEF Operator, StopOutbound, RestartOutbound, Tick, TakenIsHeld,
       TryingIsUntaken, GivenUp
<1>7. ASSUME UNCHANGED vars PROVE Goal'
  BY <1>a, <1>7 DEF vars, TakenIsHeld, TryingIsUntaken, GivenUp
<1>8. \A w \in Workers : ~Crash(w)
  BY DEF Crash
<1>9. \A w \in Workers : PollEmpty(w) => UNCHANGED vars
  BY DEF PollEmpty
<1>10. Goal'
  <2> HIDE DEF Goal
  <2> QED
    BY <1>1, <1>2, <1>3, <1>4, <1>5, <1>6, <1>7, <1>8, <1>9 DEF Next
<1>11. QED
  BY <1>0, <1>10 DEF NoticeInv

\* While no worker stalls or crashes and no write is lost, a sender told that
\* the message failed is told the truth, whatever administrators do with the
\* row and however often its domain is stopped.
THEOREM NoticesAreTrue ==
  ~Stalls /\ ~Crashes /\ ~DbErrors => (Spec => []NoticeIsTrue)
<1> SUFFICES ASSUME ~Stalls, ~Crashes, ~DbErrors PROVE Spec => []NoticeIsTrue
  OBVIOUS
<1>1. NoticeInv /\ [Next]_vars => NoticeInv'
  BY StepNoticeInv
<1>2. NoticeInv => NoticeIsTrue
  BY DEF NoticeInv, NoticeIsTrue, GivenUp
<1>3. QED
  BY InitNoticeInv, <1>1, <1>2, PTL DEF Spec

-----------------------------------------------------------------------------
(* The queue implements MessageLifecycle, step by step.                      *)

\* With nobody administering it, no row is deleted and a held row is being
\* delivered.
Undisturbed ==
  /\ \A r \in Rows : status[r] # "deleted"
  /\ \A w \in Workers : pc[w] \in Holding => status[item[w]] = "delivering"

PromiseInv == RowInv /\ NoticeInv /\ Undisturbed

\* Nothing has disturbed the queue yet.
LEMMA InitPromiseInv == Init => PromiseInv
BY InitRowInv, InitNoticeInv DEF Init, PromiseInv, Undisturbed, Holding

\* Without stalls, crashes, database errors and operators, nothing does.
LEMMA StepPromiseInv ==
  ASSUME ~Stalls, ~Crashes, ~DbErrors, ~Admins, PromiseInv, [Next]_vars
  PROVE  PromiseInv'
<1>0. RowInv' /\ NoticeInv'
  BY StepRowInv, StepNoticeInv DEF PromiseInv
<1>a. /\ Undisturbed /\ TypeOK /\ Working /\ ExclusiveDelivery
      /\ \A r \in Rows : Claimable(r) =>
           \A w \in Workers : pc[w] \in Holding => item[w] # r
  BY ClaimableIsOpen DEF PromiseInv, NoticeInv, ClaimInv, TInv
<1> USE DEF rowVars, itemVars, workerVars, history, ledger
<1>1. ASSUME NEW r \in Rows, Enqueue(r) PROVE Undisturbed'
  BY <1>a, <1>1 DEF Enqueue, TypeOK, Undisturbed, Working, Holding
<1>2. ASSUME NEW w \in Workers, NEW r \in Rows, Claim(w, r) PROVE Undisturbed'
  BY <1>a, <1>2 DEF Claim, TypeOK, Undisturbed, Working, Holding
<1>3. ASSUME NEW w \in Workers, Heartbeat(w) PROVE Undisturbed'
  BY <1>a, <1>3 DEF Heartbeat, Undisturbed
<1>4. ASSUME NEW w \in Workers, Attempt(w) PROVE Undisturbed'
  <2>1. CASE BounceSuppressed(w) \/ RecordBounced(w)
    BY SMTT(30), <1>a, <2>1 DEF BounceSuppressed, RecordBounced, AfterBounce, SetStatus,
         TypeOK, Undisturbed, Holding, ExclusiveDelivery, Working
  <2>2. CASE RecordDelivered(w) \/ RecordDeferred(w)
    <3>1. PICK s \in {"delivered", "deferred"} :
            status' = [status EXCEPT ![item[w]] = IF Stored(item[w]) THEN s ELSE @]
      BY <2>2 DEF RecordDelivered, RecordDeferred, SetStatus
    <3>2. /\ pc[w] \in Holding
          /\ pc' = [pc EXCEPT ![w] = "idle"]
          /\ item' = [item EXCEPT ![w] = NoRow]
      BY <2>2 DEF RecordDelivered, RecordDeferred, GoIdle, Holding
    <3>3. QED
      BY <1>a, <3>1, <3>2 DEF TypeOK, Undisturbed, Holding, ExclusiveDelivery, Working
  <2>3. CASE Suppress(w) \/ GenerateBounce(w)
    BY <1>a, <2>3 DEF Suppress, GenerateBounce, GoIdle, TypeOK, Undisturbed,
         Holding
  <2>4. CASE \/ FindSuppressed(w) \/ StartDelivery(w) \/ DeliverSucceeds(w)
             \/ \E c \in Categories : DeliverFails(w, c)
    BY <1>a, <2>4 DEF FindSuppressed, StartDelivery, DeliverSucceeds, DeliverFails,
         TypeOK, Undisturbed, Holding
  <2>5. ~LoseWrite(w)
    BY DEF LoseWrite
  <2>6. QED
    BY <1>4, <2>1, <2>2, <2>3, <2>4, <2>5 DEF Attempt
<1>5. ASSUME Operator \/ Tick PROVE Undisturbed'
  BY <1>a, <1>5 DEF Operator, StopOutbound, RestartOutbound, Tick, Undisturbed
<1>6. ASSUME UNCHANGED vars PROVE Undisturbed'
  BY <1>a, <1>6 DEF vars, Undisturbed
<1>7. ~Admin /\ \A w \in Workers : ~Crash(w) /\ (PollEmpty(w) => UNCHANGED vars)
  BY DEF Admin, Crash, PollEmpty
<1>8. Undisturbed'
  BY <1>1, <1>2, <1>3, <1>4, <1>5, <1>6, <1>7 DEF Next
<1>9. QED
  BY <1>0, <1>8 DEF PromiseInv

\* The phase each state of a row stands for.
LEMMA Phases ==
  /\ Phase("absent") = "new"
  /\ Phase("pending") = "queued"
  /\ Phase("deferred") = "queued"
  /\ Phase("delivering") = "queued"
  /\ Phase("delivered") = "delivered"
  /\ Phase("bounced") = "failed"
BY DEF Phase, InFlight

\* A step that leaves every row's phase, and what the world has seen, alone is
\* a stutter of the lifecycle.
LEMMA Stutters ==
  ASSUME \A r \in Rows : Phase(status[r])' = Phase(status[r]), UNCHANGED history
  PROVE  UNCHANGED Lifecycle!lifecycle
BY DEF Lifecycle!lifecycle, history

\* Every step of the queue is a step of the lifecycle or a stutter.
LEMMA StepKeepsPromise ==
  ASSUME ~Stalls, ~Crashes, ~DbErrors, ~Admins, PromiseInv, [Next]_vars
  PROVE  [Lifecycle!LifecycleNext]_(Lifecycle!lifecycle)
<1> DEFINE phase == [r \in Rows |-> Phase(status[r])]
           Goal == [Lifecycle!LifecycleNext]_(Lifecycle!lifecycle)
<1>a. /\ TypeOK /\ Working /\ TryingIsUntaken /\ SentAccepted
      /\ \A w \in Workers : pc[w] \in Holding => status[item[w]] = "delivering"
      /\ \A w \in Workers : pc[w] \in Noticing => status[item[w]] = "bounced"
  BY DEF PromiseInv, Undisturbed, NoticeInv, ClaimInv, TInv, RowInv, GivenUp,
         Working, Noticing
<1>s. ASSUME UNCHANGED <<status, accepted, told>> PROVE Goal
  BY <1>s, Stutters DEF history
<1> USE DEF rowVars, itemVars, workerVars, history, ledger
<1>1. ASSUME NEW r \in Rows, Enqueue(r) PROVE Goal
  <2>1. /\ phase[r] = "new"
        /\ phase' = [phase EXCEPT ![r] = "queued"]
        /\ UNCHANGED <<accepted, told>>
    BY <1>a, <1>1, Phases DEF Enqueue, TypeOK
  <2>2. Lifecycle!Queue(r)
    BY <2>1 DEF Lifecycle!Queue
  <2>3. QED
    BY <2>2 DEF Lifecycle!LifecycleNext
<1>2. ASSUME NEW w \in Workers, NEW r \in Rows, Claim(w, r) PROVE Goal
  BY <1>a, <1>2, Phases, Stutters DEF Claim, Claimable, TypeOK
<1>3. ASSUME NEW w \in Workers, Attempt(w) PROVE Goal
  <2>1. CASE BounceSuppressed(w) \/ RecordBounced(w)
    <3>1. /\ item[w] \in Rows
          /\ phase[item[w]] = "queued" /\ ~accepted[item[w]]
          /\ phase' = [phase EXCEPT ![item[w]] = "failed"]
          /\ UNCHANGED <<accepted, told>>
      BY <1>a, <2>1, Phases DEF BounceSuppressed, RecordBounced, SetStatus, Stored,
           InFlight, TypeOK, Working, Holding, TryingIsUntaken
    <3>2. Lifecycle!Fail(item[w])
      BY <3>1 DEF Lifecycle!Fail
    <3>3. QED
      BY <3>1, <3>2 DEF Lifecycle!LifecycleNext, Lifecycle!Settle
  <2>2. CASE DeliverSucceeds(w)
    <3>1. /\ item[w] \in Rows
          /\ phase[item[w]] = "queued" /\ ~accepted[item[w]]
          /\ accepted' = [accepted EXCEPT ![item[w]] = TRUE]
          /\ phase' = phase /\ told' = told
      BY <1>a, <2>2, Phases DEF DeliverSucceeds, Working, Holding, TryingIsUntaken
    <3>2. Lifecycle!Take(item[w])
      BY <3>1 DEF Lifecycle!Take
    <3>3. QED
      BY <3>1, <3>2 DEF Lifecycle!LifecycleNext, Lifecycle!Settle
  <2>3. CASE RecordDelivered(w)
    <3>1. /\ item[w] \in Rows
          /\ phase[item[w]] = "queued" /\ accepted[item[w]]
          /\ phase' = [phase EXCEPT ![item[w]] = "delivered"]
          /\ UNCHANGED <<accepted, told>>
      BY <1>a, <2>3, Phases DEF RecordDelivered, SetStatus, Stored, InFlight,
           TypeOK, Working, Holding, SentAccepted
    <3>2. Lifecycle!Deliver(item[w])
      BY <3>1 DEF Lifecycle!Deliver
    <3>3. QED
      BY <3>1, <3>2 DEF Lifecycle!LifecycleNext, Lifecycle!Settle
  <2>4. CASE RecordDeferred(w)
    BY <1>a, <2>4, Phases, Stutters DEF RecordDeferred, SetStatus, Stored, InFlight,
         TypeOK, Working, Holding
  <2>5. CASE GenerateBounce(w)
    <3>1. /\ item[w] \in Rows
          /\ phase[item[w]] = "failed"
          /\ told' = [told EXCEPT ![item[w]] = TRUE]
          /\ status' = status /\ phase' = phase /\ accepted' = accepted
      BY <1>a, <2>5, Phases DEF GenerateBounce, Working, Noticing
    <3>2. CASE told[item[w]]
      <4>1. told' = told
        BY <1>a, <3>1, <3>2 DEF TypeOK
      <4>2. QED
        BY <1>s, <3>1, <4>1
    <3>3. CASE ~told[item[w]]
      <4>1. Lifecycle!Notify(item[w])
        BY <3>1, <3>3 DEF Lifecycle!Notify
      <4>2. QED
        BY <3>1, <4>1 DEF Lifecycle!LifecycleNext, Lifecycle!Settle
    <3>4. QED
      BY <3>2, <3>3
  <2>6. CASE \/ FindSuppressed(w) \/ StartDelivery(w) \/ Suppress(w)
             \/ \E c \in Categories : DeliverFails(w, c)
    BY <1>s, <2>6 DEF FindSuppressed, StartDelivery, Suppress, DeliverFails
  <2>7. ~LoseWrite(w)
    BY DEF LoseWrite
  <2>8. QED
    BY <1>3, <2>1, <2>2, <2>3, <2>4, <2>5, <2>6, <2>7 DEF Attempt
<1>4. ASSUME \/ \E w \in Workers : PollEmpty(w) \/ Heartbeat(w)
             \/ Operator \/ Tick \/ UNCHANGED vars
      PROVE  Goal
  BY <1>s, <1>4 DEF PollEmpty, Heartbeat, Operator, StopOutbound, RestartOutbound,
       Tick, vars
<1>5. ~Admin /\ \A w \in Workers : ~Crash(w)
  BY DEF Admin, Crash
<1>6. QED
  BY <1>1, <1>2, <1>3, <1>4, <1>5 DEF Next

\* With no stall, no crash, no failed statement and nobody administering the
\* queue, whatever the queue does to a message MessageLifecycle allows: it is
\* taken at most once and then delivered, or fails untaken and only then is
\* its sender told.
THEOREM QueueKeepsLifecycle ==
  ~Stalls /\ ~Crashes /\ ~DbErrors /\ ~Admins => (Spec => Lifecycle!LifecycleSafety)
<1> SUFFICES ASSUME ~Stalls, ~Crashes, ~DbErrors, ~Admins
             PROVE  Spec => Lifecycle!LifecycleSafety
  OBVIOUS
<1>1. Init => Lifecycle!LifecycleInit
  BY Phases DEF Init, Lifecycle!LifecycleInit
<1>2. PromiseInv /\ [Next]_vars => PromiseInv'
  BY StepPromiseInv
<1>3. PromiseInv /\ [Next]_vars => [Lifecycle!LifecycleNext]_(Lifecycle!lifecycle)
  BY StepKeepsPromise
<1>4. QED
  BY InitPromiseInv, <1>1, <1>2, <1>3, PTL DEF Spec, Lifecycle!LifecycleSafety
============================================================================
