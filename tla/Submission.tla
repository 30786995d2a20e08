----------------------------- MODULE Submission -----------------------------
(***************************************************************************)
(* How mail submitted through the API is sent: at once, from a draft, as a *)
(* forward, at a scheduled time by the sender loop of an API process, or   *)
(* when a person releases it from a hold.                                  *)
(*                                                                         *)
(* Every way runs sendComposedMessage, whose database steps are the steps  *)
(* of an actor here: the checks and the reservation against the send       *)
(* limits, the copy in the Sent folder, the queue entries of the remote    *)
(* recipients, the deliveries to local ones.  A draft, a forward's commit  *)
(* and a release are one transaction and one step.  The clock is not       *)
(* modelled: a pending row becomes due, and a claim stale, at some time.   *)
(***************************************************************************)
EXTENDS Integers, FiniteSets

CONSTANTS
  Mails,        \* messages; the id of a message is that of its row, if any
  Routes,       \* the ways they are submitted
  Loops,        \* sender loops, one of each API process
  Requests,     \* requests of clients that send a message now
  NoMail,       \* not a message: what an idle actor works on
  MaxTries,     \* scheduledSendMaxAttempts
  Faults,       \* the faults of SendFaults that may happen
  MaxStops,     \* bound: how often sender loops go down
  MaxSends      \* bound: how often a client tries to send a message

SendFaults == {"crash", "panic", "stall", "lost result"}

\* POST /messages/send, also with scheduled_at, also as a forward with another
\* message's parts; POST /drafts/{id}/send.
SendRoutes == {"now", "scheduled", "forward", "draft"}

ASSUME SubmissionAssumption ==
  /\ NoMail \notin Mails
  /\ Routes \subseteq SendRoutes
  /\ Loops \intersect Requests = {} /\ IsFiniteSet(Loops) /\ IsFiniteSet(Requests)
  /\ MaxTries \in Nat \ {0} /\ MaxStops \in Nat /\ MaxSends \in Nat
  /\ Faults \subseteq SendFaults

Actors == Loops \union Requests

VARIABLES
  route,        \* how a message is submitted: it stays as it is
  row,          \* scheduled_sends.status of a message, "none" without a row
  due,          \* its send_at has passed
  stale,        \* it has been "sending" for scheduledSendStaleAfter
  tries,        \* scheduled_sends.attempts
  draft,        \* is the message in the drafts folder?
  spc,          \* each actor: its step
  sendJob,      \* the message it sends
  due_batch,    \* each loop: the rows of its batch still to be claimed
  seenTries,    \* and their attempts when it read them
  stops,        \* how often a loop went down
  \* history
  charged,      \* how often a message was counted against the send limits
  inSent,       \* is it in the Sent folder?
  queued,       \* how often its remote recipients' entries were queued
  delivered,    \* how often it was delivered to its local recipients
  discarded,    \* the outbound policy discarded it
  lost,         \* attempts whose end was lost: to a crash, a panic, ...
  reply         \* the answer to the client, "none" while there is none

rowTable    == <<row, due, stale, tries>>
sentVars    == <<charged, inSent, queued, delivered, discarded>>
moving      == <<rowTable, draft, spc, sendJob, due_batch, seenTries, stops, sentVars,
                 lost, reply>>
submission  == <<route, moving>>

Unsettled == {"pending", "sending"}
RowStates == Unsettled \union {"none", "held", "sent", "failed", "cancelled"}
InSend    == {"checking", "storing", "queueing", "delivering"}
Outcomes  == {"sent", "held", "refused", "unavailable"}
ActorSteps == {"idle", "down"} \union InSend \union Outcomes

SubmissionTypeOK ==
  /\ route \in [Mails -> Routes]
  /\ row \in [Mails -> RowStates]
  /\ due \in [Mails -> BOOLEAN] /\ stale \in [Mails -> BOOLEAN]
  /\ tries \in [Mails -> Nat]
  /\ draft \in [Mails -> BOOLEAN]
  /\ spc \in [Actors -> ActorSteps]
  /\ sendJob \in [Actors -> Mails \union {NoMail}]
  /\ due_batch \in [Loops -> SUBSET Mails]
  /\ seenTries \in [Loops -> [Mails -> Nat]]
  /\ stops \in Nat
  /\ \A h \in {charged, queued, delivered, lost} : h \in [Mails -> Nat]
  /\ discarded \in [Mails -> BOOLEAN] /\ inSent \in [Mails -> BOOLEAN]
  /\ reply \in [Mails -> Outcomes \union {"none"}]

SubmissionInit ==
  /\ route \in [Mails -> Routes]
  /\ row = [m \in Mails |-> "none"]
  /\ due = [m \in Mails |-> FALSE] /\ stale = [m \in Mails |-> FALSE]
  /\ tries = [m \in Mails |-> 0]
  /\ draft = [m \in Mails |-> route[m] = "draft"]
  /\ spc = [a \in Actors |-> "idle"]
  /\ sendJob = [a \in Actors |-> NoMail]
  /\ due_batch = [l \in Loops |-> {}]
  /\ seenTries = [l \in Loops |-> [m \in Mails |-> 0]]
  /\ stops = 0
  /\ charged = [m \in Mails |-> 0] /\ inSent = [m \in Mails |-> FALSE]
  /\ queued = [m \in Mails |-> 0] /\ delivered = [m \in Mails |-> 0]
  /\ lost = [m \in Mails |-> 0]
  /\ discarded = [m \in Mails |-> FALSE]
  /\ reply = [m \in Mails |-> "none"]

Count(f, m) == [f EXCEPT ![m] = @ + 1]

\* The row of m becomes s.  Any write renews updated_at.
SetRow(m, s) == row' = [row EXCEPT ![m] = s] /\ stale' = [stale EXCEPT ![m] = FALSE]

-----------------------------------------------------------------------------
(* The sender loop *)

\* runScheduledSends reads the rows that are due.  The batch is larger than
\* the model's number of rows; its order does not matter to what is checked.
ReadDue(l) ==
  /\ spc[l] = "idle" /\ due_batch[l] = {}
  /\ LET found == {m \in Mails : row[m] = "pending" /\ due[m]} IN
       /\ found # {}
       /\ due_batch' = [due_batch EXCEPT ![l] = found]
       /\ seenTries' = [seenTries EXCEPT ![l] = [m \in Mails |-> IF m \in found THEN tries[m] ELSE 0]]
  /\ UNCHANGED <<rowTable, draft, spc, sendJob, stops, sentVars, lost, reply>>

\* Mutation of ClaimDue: the row is claimed by id alone.
ClaimDueUnchecked(l, m) ==
  /\ spc[l] = "idle" /\ m \in due_batch[l]
  /\ due_batch' = [due_batch EXCEPT ![l] = @ \ {m}]
  /\ SetRow(m, "sending")
  /\ spc' = [spc EXCEPT ![l] = "checking"]
  /\ sendJob' = [sendJob EXCEPT ![l] = m]
  /\ UNCHANGED <<due, tries, draft, seenTries, stops, sentVars, lost, reply>>

\* Each row of the batch is claimed if it is still pending, else passed over.
ClaimDue(l, m) ==
  /\ spc[l] = "idle" /\ m \in due_batch[l]
  /\ due_batch' = [due_batch EXCEPT ![l] = @ \ {m}]
  /\ IF row[m] = "pending"
     THEN /\ SetRow(m, "sending")
          /\ spc' = [spc EXCEPT ![l] = "checking"]
          /\ sendJob' = [sendJob EXCEPT ![l] = m]
     ELSE UNCHANGED <<row, stale, spc, sendJob>>
  /\ UNCHANGED <<due, tries, draft, seenTries, stops, sentVars, lost, reply>>

-----------------------------------------------------------------------------
(* A client's requests *)

\* sendComposedMessage with scheduled_at: the checked message is stored.
Schedule(m) ==
  /\ route[m] = "scheduled" /\ row[m] = "none"
  /\ SetRow(m, "pending")
  /\ UNCHANGED <<due, tries, draft, spc, sendJob, due_batch, seenTries, stops,
                 sentVars, lost, reply>>

\* A request to send now.  A client tries again when the server could not.
SendNow(q, m) ==
  /\ spc[q] = "idle"
  /\ route[m] \in {"now", "forward"}
  /\ reply[m] \in {"none", "unavailable"} /\ charged[m] < MaxSends
  /\ \A p \in Requests : sendJob[p] # m
  /\ spc' = [spc EXCEPT ![q] = "checking"]
  /\ sendJob' = [sendJob EXCEPT ![q] = m]
  /\ UNCHANGED <<rowTable, draft, due_batch, seenTries, stops, sentVars, lost, reply>>

\* cancelScheduledSend: only a row that still waits.
CancelScheduled(m) ==
  /\ row[m] \in {"pending", "held"}
  /\ SetRow(m, "cancelled")
  /\ UNCHANGED <<due, tries, draft, spc, sendJob, due_batch, seenTries, stops,
                 sentVars, lost, reply>>

-----------------------------------------------------------------------------
(* sendComposedMessage *)

Go(a, step) == spc' = [spc EXCEPT ![a] = step]
Untouched == UNCHANGED <<draft, sendJob, due_batch, seenTries, stops, lost, reply>>

\* A check refuses the message for good, or the policy rejects it; past the
\* reservation, the calendar event of the request is unusable.
RefuseSend(a) ==
  /\ spc[a] \in {"checking", "storing"}
  /\ Go(a, "refused")
  /\ UNCHANGED <<rowTable, sentVars>> /\ Untouched

\* A dependency fails, or the rate limit is spent: "try again later".  Once
\* the remote recipients are queued, no failure is answered any more.
BecomeUnavailable(a) ==
  /\ spc[a] \in {"checking", "storing", "queueing"}
  /\ Go(a, "unavailable")
  /\ UNCHANGED <<rowTable, sentVars>> /\ Untouched

\* The outbound policy discards the message, which is answered as sent.
Discard(a) ==
  /\ spc[a] = "checking"
  /\ discarded' = [discarded EXCEPT ![sendJob[a]] = TRUE]
  /\ Go(a, "sent")
  /\ UNCHANGED <<rowTable, charged, inSent, queued, delivered>> /\ Untouched

\* reserveLayeredSend: a limit is hit or the policy defers.  The message is
\* kept, in its own row when it has one, in the transaction that found out.
Hold(a) ==
  /\ spc[a] = "checking"
  /\ SetRow(sendJob[a], "held")
  /\ Go(a, "held")
  /\ UNCHANGED <<due, tries, sentVars>> /\ Untouched

\* reserveLayeredSend: every limit has room and is charged.
ReserveSend(a) ==
  /\ spc[a] = "checking"
  /\ charged' = Count(charged, sendJob[a])
  /\ Go(a, "storing")
  /\ UNCHANGED <<rowTable, inSent, queued, delivered, discarded>> /\ Untouched

\* The built and signed message is stored in the Sent folder.
StoreSentCopy(a) ==
  /\ spc[a] = "storing" /\ route[sendJob[a]] # "forward"
  /\ inSent' = [inSent EXCEPT ![sendJob[a]] = TRUE]
  /\ Go(a, "queueing")
  /\ UNCHANGED <<rowTable, charged, queued, delivered, discarded>> /\ Untouched

\* The recipients are looked up and the remote ones queued in a transaction.
QueueRemote(a) ==
  /\ spc[a] = "queueing"
  /\ queued' = Count(queued, sendJob[a])
  /\ Go(a, "delivering")
  /\ UNCHANGED <<rowTable, charged, inSent, delivered, discarded>> /\ Untouched

\* Mutation of DeliverLocal: a failed delivery is answered as unavailable.
DeliverLocalOrFail(a) ==
  /\ spc[a] = "delivering"
  /\ \/ delivered' = Count(delivered, sendJob[a]) /\ Go(a, "sent")
     \/ UNCHANGED delivered /\ Go(a, "unavailable")
  /\ UNCHANGED <<rowTable, charged, inSent, queued, discarded>> /\ Untouched

\* The local recipients: a delivery that fails is logged and no more.
DeliverLocal(a) ==
  /\ spc[a] = "delivering"
  /\ \/ delivered' = Count(delivered, sendJob[a])
     \/ UNCHANGED delivered
  /\ Go(a, "sent")
  /\ UNCHANGED <<rowTable, charged, inSent, queued, discarded>> /\ Untouched

\* commitForward: the Sent copy, the queue entries and the local deliveries
\* are one transaction; its failure is BecomeUnavailable.
CommitForward(a) ==
  /\ spc[a] = "storing" /\ route[sendJob[a]] = "forward"
  /\ inSent' = [inSent EXCEPT ![sendJob[a]] = TRUE]
  /\ queued' = Count(queued, sendJob[a])
  /\ delivered' = Count(delivered, sendJob[a])
  /\ Go(a, "sent")
  /\ UNCHANGED <<rowTable, charged, discarded>> /\ Untouched

SendStep(a) ==
  \/ RefuseSend(a) \/ BecomeUnavailable(a) \/ Discard(a) \/ Hold(a)
  \/ ReserveSend(a) \/ StoreSentCopy(a) \/ QueueRemote(a) \/ DeliverLocal(a)
  \/ CommitForward(a)

-----------------------------------------------------------------------------
(* The whole send in one transaction: all of it or nothing *)

\* Mutation of SendWhole: what a person sends or releases is not charged.
SendWholeUncharged(m) ==
  /\ inSent' = [inSent EXCEPT ![m] = TRUE]
  /\ queued' = Count(queued, m)
  /\ delivered' = Count(delivered, m)
  /\ UNCHANGED <<charged, discarded>>

SendWhole(m) ==
  /\ charged' = Count(charged, m)
  /\ inSent' = [inSent EXCEPT ![m] = TRUE]
  /\ queued' = Count(queued, m)
  /\ delivered' = Count(delivered, m)
  /\ UNCHANGED discarded

DiscardWhole(m) ==
  /\ discarded' = [discarded EXCEPT ![m] = TRUE]
  /\ UNCHANGED <<charged, inSent, queued, delivered>>

\* sendDraft locks the draft, sends or holds it and removes it.
SendDraft(m) ==
  /\ draft[m]
  /\ \/ SendWhole(m) /\ UNCHANGED <<row, stale>>
     \/ DiscardWhole(m) /\ UNCHANGED <<row, stale>>
     \/ SetRow(m, "held") /\ UNCHANGED sentVars
  /\ draft' = [draft EXCEPT ![m] = FALSE]
  /\ UNCHANGED <<due, tries, spc, sendJob, due_batch, seenTries, stops, lost, reply>>

\* releaseHeldSend locks the row, sends it past the account's limits and
\* settles it.  A release held again, or refused, leaves the row as it was.
ReleaseHeld(m) ==
  /\ row[m] = "held"
  /\ \/ SendWhole(m) /\ SetRow(m, "sent")
     \/ DiscardWhole(m) /\ SetRow(m, "cancelled")
  /\ UNCHANGED <<due, tries, draft, spc, sendJob, due_batch, seenTries, stops, lost, reply>>

-----------------------------------------------------------------------------
(* How a send ends *)

Done(a) ==
  /\ spc' = [spc EXCEPT ![a] = "idle"]
  /\ sendJob' = [sendJob EXCEPT ![a] = NoMail]

\* The client is answered.
Answer(q) ==
  /\ spc[q] \in Outcomes
  /\ reply' = [reply EXCEPT ![sendJob[q]] = spc[q]]
  /\ Done(q)
  /\ UNCHANGED <<rowTable, draft, due_batch, seenTries, stops, sentVars, lost>>

\* Mutation of AttemptsOf: the attempt that just failed is not counted.
AttemptsUncounted(l) == seenTries[l][sendJob[l]]

\* The attempts at the row, with the one that ends now.
AttemptsOf(l) == seenTries[l][sendJob[l]] + 1

MayRetrySend(l) == AttemptsOf(l) < MaxTries

\* deliverScheduled records the outcome, by the row's id alone.  A held row
\* has been written already.
RecordOutcome(l) ==
  /\ spc[l] \in Outcomes
  /\ LET m == sendJob[l] IN
       \/ /\ spc[l] = "held"
          /\ UNCHANGED rowTable
       \/ /\ spc[l] = "sent"
          /\ SetRow(m, "sent") /\ UNCHANGED <<due, tries>>
       \/ /\ spc[l] \in {"refused", "unavailable"}
          /\ spc[l] = "unavailable" => ~MayRetrySend(l)
          /\ SetRow(m, "failed") /\ UNCHANGED <<due, tries>>
       \/ /\ spc[l] = "unavailable" /\ MayRetrySend(l)
          /\ SetRow(m, "pending")
          /\ due' = [due EXCEPT ![m] = FALSE]
          /\ tries' = [tries EXCEPT ![m] = AttemptsOf(l)]
  /\ Done(l)
  /\ UNCHANGED <<draft, due_batch, seenTries, stops, sentVars, lost, reply>>

\* The write of the outcome fails.  A retry that cannot be written is failed
\* instead; finishScheduled only logs its own failure.
LoseOutcome(l) ==
  /\ "lost result" \in Faults
  /\ spc[l] \in {"sent", "refused", "unavailable"}
  /\ \/ /\ spc[l] = "unavailable" /\ MayRetrySend(l)
        /\ SetRow(sendJob[l], "failed")
     \/ UNCHANGED <<row, stale>>
  /\ lost' = Count(lost, sendJob[l])
  /\ Done(l)
  /\ UNCHANGED <<due, tries, draft, due_batch, seenTries, stops, sentVars, reply>>

\* A panic while sending is recovered, and the row failed.
Panic(l) ==
  /\ "panic" \in Faults
  /\ spc[l] \in InSend
  /\ SetRow(sendJob[l], "failed")
  /\ lost' = Count(lost, sendJob[l])
  /\ Done(l)
  /\ UNCHANGED <<due, tries, draft, due_batch, seenTries, stops, sentVars, reply>>

-----------------------------------------------------------------------------
(* Processes and time *)

\* Shutdown waits for the pass in flight; a crash does not.
StopLoop(l) ==
  /\ spc[l] # "down"
  /\ "crash" \in Faults \/ (spc[l] = "idle" /\ due_batch[l] = {})
  /\ lost' = IF sendJob[l] = NoMail THEN lost ELSE Count(lost, sendJob[l])
  /\ stops < MaxStops /\ stops' = stops + 1
  /\ spc' = [spc EXCEPT ![l] = "down"]
  /\ sendJob' = [sendJob EXCEPT ![l] = NoMail]
  /\ due_batch' = [due_batch EXCEPT ![l] = {}]
  /\ UNCHANGED <<rowTable, draft, seenTries, sentVars, reply>>

\* StartScheduledSender puts back the rows claimed long ago.  One taken from
\* a loop that is still at work counts as an interrupted attempt.
StartLoop(l) ==
  /\ spc[l] = "down"
  /\ spc' = [spc EXCEPT ![l] = "idle"]
  /\ LET back == {m \in Mails : row[m] = "sending" /\ stale[m]}
         taken == {m \in back : \E k \in Loops : sendJob[k] = m}
     IN  /\ row' = [m \in Mails |-> IF m \in back THEN "pending" ELSE row[m]]
         /\ stale' = [m \in Mails |-> IF m \in back THEN FALSE ELSE stale[m]]
         /\ lost' = [m \in Mails |-> IF m \in taken THEN lost[m] + 1 ELSE lost[m]]
  /\ UNCHANGED <<due, tries, draft, sendJob, due_batch, seenTries, stops, sentVars, reply>>

ComeDue(m) ==
  /\ row[m] = "pending" /\ ~due[m]
  /\ due' = [due EXCEPT ![m] = TRUE]
  /\ UNCHANGED <<row, stale, tries, draft, spc, sendJob, due_batch, seenTries,
                 stops, sentVars, lost, reply>>

\* A send has a budget of five minutes, so a claim gets old only when nobody
\* works on it any more, unless a loop stalls.
GrowStale(m) ==
  /\ row[m] = "sending" /\ ~stale[m]
  /\ "stall" \in Faults \/ \A l \in Loops : sendJob[l] # m
  /\ stale' = [stale EXCEPT ![m] = TRUE]
  /\ UNCHANGED <<row, due, tries, draft, spc, sendJob, due_batch, seenTries,
                 stops, sentVars, lost, reply>>

LoopWork(l) ==
  \/ ReadDue(l)
  \/ \E m \in Mails : ClaimDue(l, m)
  \/ SendStep(l)
  \/ RecordOutcome(l)

SubmissionNext == UNCHANGED route /\ (
  \/ \E l \in Loops : \/ LoopWork(l) \/ LoseOutcome(l) \/ Panic(l)
                      \/ StopLoop(l) \/ StartLoop(l)
  \/ \E q \in Requests : SendStep(q) \/ Answer(q) \/ \E m \in Mails : SendNow(q, m)
  \/ \E m \in Mails : \/ Schedule(m) \/ CancelScheduled(m) \/ SendDraft(m)
                      \/ ReleaseHeld(m) \/ ComeDue(m) \/ GrowStale(m))

SubmissionSpec == SubmissionInit /\ [][SubmissionNext]_submission

\* A loop's ticker and the budget of a send keep it moving, a process that
\* went down is started again, and time passes.
SubmissionFairness ==
  /\ \A l \in Loops : WF_moving(LoopWork(l)) /\ WF_moving(StartLoop(l))
  /\ \A m \in Mails : WF_moving(ComeDue(m)) /\ WF_moving(GrowStale(m))

-----------------------------------------------------------------------------
(* Properties *)

\* sendComposedMessage, deliverScheduled: a message is queued for its remote
\* recipients and stored for its local ones once, through all retries ("the
\* client's retry then delivers nothing locally twice"), and once more at most
\* for each attempt whose end was lost.
SentOnce ==
  \A m \in Mails : queued[m] <= 1 + lost[m] /\ delivered[m] <= 1 + lost[m]

\* cancelScheduledSend, deliverScheduled: a message called back or reported
\* as failed has not been sent, whatever a sender loop was doing.
UnsentIsUnsent ==
  \A m \in Mails :
    row[m] \in {"cancelled", "failed"} => queued[m] <= lost[m] /\ delivered[m] <= lost[m]

\* finishScheduled, releaseHeldSend, sendDraft: what is reported as sent has
\* been sent or was discarded by policy, and a draft is removed only when its
\* message is sent, discarded or held.
SentIsSent ==
  \A m \in Mails :
    (\/ row[m] = "sent" \/ reply[m] = "sent"
     \/ route[m] = "draft" /\ ~draft[m] /\ row[m] \notin {"held", "cancelled"})
    => (queued[m] > 0 /\ inSent[m]) \/ discarded[m]

\* sendComposedMessage: a client told that its message was refused, or could
\* not be sent, may send it again: no recipient has it.
RefusedIsUnsent ==
  \A m \in Mails :
    reply[m] \in {"refused", "unavailable"} /\ (\A q \in Requests : sendJob[q] # m)
      => queued[m] = 0 /\ delivered[m] = 0

\* What a person is told of a message is what happened to it.
ToldTruly == UnsentIsUnsent /\ SentIsSent /\ RefusedIsUnsent

\* reserveLayeredSend: nothing leaves without having been charged to the send
\* limits, a release included.
SentIsCharged == \A m \in Mails : queued[m] <= charged[m]

\* runScheduledSends: a message that is due is sent, held, failed or
\* cancelled, unless the end of an attempt at it was lost.
DueIsSettled ==
  \A m \in Mails : row[m] = "pending" ~> row[m] \notin Unsettled \/ lost[m] > 0
=============================================================================
