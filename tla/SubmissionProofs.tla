-------------------------- MODULE SubmissionProofs --------------------------
(***************************************************************************)
(* Why mail is sent once, charged for and answered truly, for any number of *)
(* messages, sender loops and requests.                                    *)
(***************************************************************************)
EXTENDS Submission, TLAPS, FiniteSetTheorems

\* The actors at work on m in one of the steps S.
Busy(m, S) == {a \in Actors : sendJob[a] = m /\ spc[a] \in S}

\* The steps in which an attempt may still queue the message or has failed to.
Unqueued == {"checking", "storing", "queueing", "unavailable", "refused"}

\* An actor works on a message unless it is idle or down.
WorkHasMail ==
  \A a \in Actors : sendJob[a] = NoMail <=> spc[a] \in {"idle", "down"}

\* Sender loops take scheduled mail only, requests only what is sent now: what has
\* no sender loop cannot lose an attempt.
RoutesApart ==
  /\ \A l \in Loops :
       /\ sendJob[l] # NoMail => route[sendJob[l]] = "scheduled"
       /\ \A m \in due_batch[l] : route[m] = "scheduled"
  /\ \A q \in Requests : /\ sendJob[q] # NoMail => route[sendJob[q]] \in {"now", "forward"}
                         /\ spc[q] # "down"
  /\ \A m \in Mails :
       /\ route[m] # "scheduled" => lost[m] = 0 /\ row[m] \notin {"pending", "sending", "failed"}
       /\ route[m] \notin {"now", "forward"} => reply[m] = "none"
       /\ draft[m] => route[m] = "draft" /\ row[m] = "none"

\* The row still stands for a send that did not happen: one to come, or one given up.
RowOpen(m) ==
  \/ row[m] \in {"pending", "held", "cancelled", "failed"}
  \/ row[m] = "none" /\ route[m] = "scheduled"
  \/ row[m] = "sending" /\ \A a \in Actors : sendJob[a] = m => spc[a] = "held"

\* So does a client that has no answer or a negative one, and a draft.
ClientOpen(m) ==
  /\ route[m] \in {"now", "forward"} /\ reply[m] \in {"none", "unavailable", "refused"}
  /\ \A q \in Requests : sendJob[q] # m

One(P) == IF P THEN 1 ELSE 0

\* How many attempts at m may still queue it or failed to, are charged and have not
\* queued it, have queued it and not delivered it.
InHand(m)  == Cardinality(Busy(m, Unqueued))
Charged(m) == Cardinality(Busy(m, {"storing", "queueing"}))
Leaving(m) == Cardinality(Busy(m, {"delivering"}))

\* Every send there was, may be or was given up draws on one for the message and one
\* for each attempt whose end was lost.
SendBound(m) ==
  queued[m] + InHand(m) + One(RowOpen(m)) + One(ClientOpen(m))
    + One(draft[m]) <= 1 + lost[m]
SendsBounded == \A m \in Mails : SendBound(m)

\* A message is charged before it is queued, and queued before it is delivered.
OrderOf(m) ==
  /\ queued[m] + Charged(m) <= charged[m]
  /\ delivered[m] + Leaving(m) <= queued[m]
InOrder == \A m \in Mails : OrderOf(m)

Sent(m) == (queued[m] > 0 /\ inSent[m]) \/ discarded[m]

\* An attempt that is past a step has done what the step does.
StepsDone ==
  \A a \in Actors :
    /\ spc[a] \in {"queueing", "delivering"} => inSent[sendJob[a]]
    /\ spc[a] = "delivering" => queued[sendJob[a]] > 0
    /\ spc[a] = "sent" => Sent(sendJob[a])

SubmissionInv ==
  /\ SubmissionTypeOK /\ WorkHasMail /\ RoutesApart /\ SendsBounded /\ InOrder
  /\ StepsDone /\ SentIsSent

-----------------------------------------------------------------------------
\* Actor a goes to step s, with message k in hand.
Moves(a, s, k) == spc' = [spc EXCEPT ![a] = s] /\ sendJob' = [sendJob EXCEPT ![a] = k]

\* An actor that takes up, goes on with or lets go of a message is counted for it or
\* no more.
LEMMA BusyCounts ==
  ASSUME NEW a \in Actors, NEW s, NEW k, NEW m, NEW S,
         SubmissionTypeOK, Moves(a, s, k)
  PROVE  /\ Cardinality(Busy(m, S)) \in Nat /\ Cardinality(Busy(m, S)') \in Nat
         /\ Cardinality(Busy(m, S)') =
              Cardinality(Busy(m, S)) - One(sendJob[a] = m /\ spc[a] \in S) + One(k = m /\ s \in S)
<1> DEFINE B == Busy(m, S)
           C == Busy(m, S)'
<1>1. IsFiniteSet(Actors)
  BY SubmissionAssumption, FS_Union DEF Actors
<1>2. B \subseteq Actors /\ C \subseteq Actors
  BY DEF Busy
<1>3. IsFiniteSet(B) /\ IsFiniteSet(C)
  BY <1>1, <1>2, FS_Subset
<1>4. IsFiniteSet(B \ {a}) /\ IsFiniteSet(C \ {a})
  BY <1>3, FS_Subset
<1>5. B \ {a} = C \ {a}
  BY DEF Busy, SubmissionTypeOK, Moves
<1>6. /\ Cardinality(B) \in Nat /\ Cardinality(C) \in Nat /\ Cardinality(B \ {a}) \in Nat
  BY <1>3, <1>4, FS_CardinalityType
<1>7. Cardinality(B \ {a}) = IF a \in B THEN Cardinality(B) - 1 ELSE Cardinality(B)
  BY <1>3, FS_RemoveElement
<1>8. Cardinality(C \ {a}) = IF a \in C THEN Cardinality(C) - 1 ELSE Cardinality(C)
  BY <1>3, FS_RemoveElement
<1>9. a \in B <=> sendJob[a] = m /\ spc[a] \in S
  BY DEF Busy
<1>10. a \in C <=> k = m /\ s \in S
  BY DEF Busy, SubmissionTypeOK, Moves
<1> HIDE DEF B, C
<1>11. Cardinality(C) = Cardinality(B) - One(a \in B) + One(a \in C)
  <2>1. Cardinality(B \ {a}) = Cardinality(C \ {a})
    BY <1>5
  <2>2. Cardinality(C) = Cardinality(B \ {a}) + One(a \in C)
    BY <2>1, <1>6, <1>8 DEF One
  <2>3. Cardinality(B \ {a}) = Cardinality(B) - One(a \in B)
    BY <1>6, <1>7 DEF One
  <2> QED
    BY <2>2, <2>3
<1>12. One(a \in B) = One(sendJob[a] = m /\ spc[a] \in S)
  BY <1>9 DEF One
<1>13. One(a \in C) = One(k = m /\ s \in S)
  BY <1>10 DEF One
<1> QED
  BY <1>6, <1>11, <1>12, <1>13 DEF B, C

\* What no actor does leaves the counts alone.
LEMMA BusyStays ==
  ASSUME NEW m, NEW S, UNCHANGED <<spc, sendJob>>
  PROVE  Busy(m, S)' = Busy(m, S)
  BY DEF Busy

\* Those counts are numbers.
LEMMA BusyNat ==
  ASSUME NEW m, NEW S
  PROVE  Cardinality(Busy(m, S)) \in Nat
<1>1. IsFiniteSet(Actors)
  BY SubmissionAssumption, FS_Union DEF Actors
<1>2. IsFiniteSet(Busy(m, S))
  BY <1>1, FS_Subset DEF Busy
<1> QED
  BY <1>2, FS_CardinalityType

\* The three counts are numbers.
LEMMA CountsAreNat ==
  ASSUME NEW m
  PROVE  InHand(m) \in Nat /\ Charged(m) \in Nat /\ Leaving(m) \in Nat
  BY BusyNat DEF InHand, Charged, Leaving

\* How a step of one actor changes the three counts.
LEMMA CountsMove ==
  ASSUME NEW a \in Actors, NEW s, NEW k, NEW m, SubmissionTypeOK, Moves(a, s, k)
  PROVE  /\ InHand(m)' = InHand(m) - One(sendJob[a] = m /\ spc[a] \in Unqueued)
                                   + One(k = m /\ s \in Unqueued)
         /\ Charged(m)' = Charged(m) - One(sendJob[a] = m /\ spc[a] \in {"storing", "queueing"})
                                     + One(k = m /\ s \in {"storing", "queueing"})
         /\ Leaving(m)' = Leaving(m) - One(sendJob[a] = m /\ spc[a] \in {"delivering"})
                                     + One(k = m /\ s \in {"delivering"})
<1>1. \A S : Cardinality(Busy(m, S)') =
               Cardinality(Busy(m, S)) - One(sendJob[a] = m /\ spc[a] \in S) + One(k = m /\ s \in S)
  <2> TAKE S
  <2> QED BY BusyCounts
<1> QED
  BY <1>1 DEF One, InHand, Charged, Leaving

\* The same for an actor that was not at work on the message.
LEMMA CountsTake ==
  ASSUME NEW a \in Actors, NEW s, NEW k, NEW m, SubmissionTypeOK, Moves(a, s, k), sendJob[a] # m
  PROVE  /\ InHand(m)' = InHand(m) + One(k = m /\ s \in Unqueued)
         /\ Charged(m)' = Charged(m) + One(k = m /\ s \in {"storing", "queueing"})
         /\ Leaving(m)' = Leaving(m) + One(k = m /\ s \in {"delivering"})
<1>1. /\ InHand(m)' = InHand(m) - One(FALSE) + One(k = m /\ s \in Unqueued)
      /\ Charged(m)' = Charged(m) - One(FALSE) + One(k = m /\ s \in {"storing", "queueing"})
      /\ Leaving(m)' = Leaving(m) - One(FALSE) + One(k = m /\ s \in {"delivering"})
  BY CountsMove DEF One
<1>2. InHand(m) \in Nat /\ Charged(m) \in Nat /\ Leaving(m) \in Nat
  BY CountsAreNat
<1> QED
  BY <1>1, <1>2 DEF One

\* Who neither was nor is at work on a message is not counted.
LEMMA OthersCounts ==
  ASSUME NEW a \in Actors, NEW s, NEW k, NEW m, SubmissionTypeOK, Moves(a, s, k),
         sendJob[a] # m, k # m
  PROVE  InHand(m)' = InHand(m) /\ Charged(m)' = Charged(m) /\ Leaving(m)' = Leaving(m)
<1>1. \A S : Busy(m, S)' = Busy(m, S)
  BY DEF Busy, Moves, SubmissionTypeOK
<1> QED
  BY <1>1 DEF InHand, Charged, Leaving

\* What leaves a message and those at work on it alone keeps its bounds.
LEMMA Frame ==
  ASSUME NEW m \in Mails,
         UNCHANGED <<route, row[m], draft[m], charged[m], queued[m], delivered[m], lost[m], reply[m]>>,
         \A a \in Actors : /\ sendJob[a] = m <=> sendJob'[a] = m
                           /\ sendJob[a] = m => spc'[a] = spc[a],
         SendBound(m), OrderOf(m)
  PROVE  SendBound(m)' /\ OrderOf(m)'
<1>1. \A S : Busy(m, S)' = Busy(m, S)
  BY DEF Busy
<1>2. InHand(m)' = InHand(m) /\ Charged(m)' = Charged(m) /\ Leaving(m)' = Leaving(m)
  BY <1>1 DEF InHand, Charged, Leaving
<1>3. RowOpen(m)' = RowOpen(m)
  BY DEF RowOpen
<1>4. ClientOpen(m)' = ClientOpen(m)
  BY DEF ClientOpen, Actors
<1> QED
  BY <1>2, <1>3, <1>4 DEF SendBound, OrderOf

\* An actor at work that goes on with its message, and neither comes from nor goes to
\* a hold, leaves it as open as it was.
LEMMA OpenStays ==
  ASSUME NEW a \in Actors, NEW s, NEW m \in Mails, SubmissionTypeOK,
         sendJob[a] = m, spc[a] # "held", s # "held", Moves(a, s, m),
         UNCHANGED <<route, row, reply>>
  PROVE  RowOpen(m)' = RowOpen(m) /\ ClientOpen(m)' = ClientOpen(m)
<1>1. sendJob' = sendJob /\ spc'[a] # "held"
  BY DEF Moves, SubmissionTypeOK
<1>2. RowOpen(m)' = RowOpen(m)
  BY <1>1 DEF RowOpen
<1>3. ClientOpen(m)' = ClientOpen(m)
  BY <1>1 DEF ClientOpen
<1> QED
  BY <1>2, <1>3

\* A step of one actor with its own message is no business of any other message.
LEMMA OthersFrame ==
  ASSUME NEW a \in Actors, NEW s, NEW k, NEW m \in Mails, SubmissionTypeOK,
         Moves(a, s, k), sendJob[a] # m, k # m,
         UNCHANGED <<route, row[m], draft[m], charged[m], queued[m], delivered[m], lost[m], reply[m]>>,
         SendBound(m), OrderOf(m)
  PROVE  SendBound(m)' /\ OrderOf(m)'
<1>1. \A b \in Actors : /\ sendJob[b] = m <=> sendJob'[b] = m
                        /\ sendJob[b] = m => spc'[b] = spc[b]
  BY DEF Moves, SubmissionTypeOK
<1> QED
  BY <1>1, Frame

\* The steps of sendComposedMessage keep the bounds of every message.
LEMMA SendKeepsBounds ==
  ASSUME SubmissionInv, NEW a \in Actors, SendStep(a), UNCHANGED route, NEW m \in Mails
  PROVE  SendBound(m)' /\ OrderOf(m)'
<1> DEFINE k == sendJob[a]
<1>1. SubmissionTypeOK /\ SendBound(m) /\ OrderOf(m)
  BY DEF SubmissionInv, SendsBounded, InOrder
<1>2. k \in Mails /\ spc[a] # "held"
  BY <1>1 DEF SubmissionInv, WorkHasMail, SubmissionTypeOK, SendStep, RefuseSend,
     BecomeUnavailable,
     Discard, Hold, ReserveSend, StoreSentCopy, QueueRemote, DeliverLocal,
     CommitForward, InSend
<1>3. PICK s : Moves(a, s, k)
  <2>1. sendJob' = sendJob /\ \E t \in ActorSteps : spc' = [spc EXCEPT ![a] = t]
    BY DEF SendStep, RefuseSend, BecomeUnavailable, Discard, Hold, ReserveSend,
       StoreSentCopy,
       QueueRemote, DeliverLocal, CommitForward, Untouched, Go, ActorSteps, InSend,
       Outcomes
  <2> QED
    BY <2>1, <1>1 DEF Moves, SubmissionTypeOK
<1>4. CASE m # k
  <2>1. UNCHANGED <<row[m], draft[m], charged[m], queued[m], delivered[m], lost[m], reply[m]>>
    BY <1>1, <1>2, <1>4 DEF SubmissionTypeOK, SendStep, RefuseSend, BecomeUnavailable,
       Discard, Hold,
       ReserveSend, StoreSentCopy, QueueRemote, DeliverLocal, CommitForward,
       Untouched, Count,
       SetRow, rowTable, sentVars
  <2> QED
    BY <2>1, <1>1, <1>3, <1>4, OthersFrame
<1>5. CASE m = k
  <2>1. /\ InHand(m) \in Nat /\ Charged(m) \in Nat /\ Leaving(m) \in Nat
        /\ queued[m] \in Nat /\ charged[m] \in Nat /\ delivered[m] \in Nat /\ lost[m] \in Nat
    BY <1>1, CountsAreNat DEF SubmissionTypeOK
  <2>2. /\ InHand(m)' = InHand(m) - One(spc[a] \in Unqueued) + One(s \in Unqueued)
        /\ Charged(m)' = Charged(m) - One(spc[a] \in {"storing", "queueing"})
                                    + One(s \in {"storing", "queueing"})
        /\ Leaving(m)' = Leaving(m) - One(spc[a] \in {"delivering"}) + One(s \in {"delivering"})
    BY <1>1, <1>3, <1>5, CountsMove DEF One
  <2>3. spc'[a] = s /\ draft' = draft /\ lost' = lost /\ reply' = reply
    BY <1>1, <1>3 DEF Moves, SubmissionTypeOK, SendStep, RefuseSend,
       BecomeUnavailable, Discard, Hold,
       ReserveSend, StoreSentCopy, QueueRemote, DeliverLocal, CommitForward, Untouched
  <2>4. CASE Hold(a)
    <3>1. spc[a] = "checking" /\ s = "held"
      BY <2>3, <2>4, <1>1 DEF Hold, Go, SubmissionTypeOK
    <3>2. ClientOpen(m)' = ClientOpen(m)
      BY <2>4 DEF ClientOpen, Hold, Untouched
    <3>3. UNCHANGED <<queued, charged, delivered>>
      BY <2>4 DEF Hold, sentVars
    <3> QED
      BY <3>1, <3>2, <3>3, <2>1, <2>2, <2>3, <1>1 DEF SendBound, OrderOf, One,
         Unqueued
  <2>5. CASE ~Hold(a)
    <3>1. row' = row /\ s # "held"
      BY <2>3, <2>5, <1>1 DEF Go, SubmissionTypeOK, SendStep, RefuseSend,
         BecomeUnavailable, Discard,
         ReserveSend, StoreSentCopy, QueueRemote, DeliverLocal, CommitForward,
         rowTable
    <3>2. RowOpen(m)' = RowOpen(m) /\ ClientOpen(m)' = ClientOpen(m)
      BY <3>1, <2>3, <1>1, <1>2, <1>3, <1>5, OpenStays
    <3>3. \/ /\ UNCHANGED <<queued, charged, delivered>>
             /\ spc[a] \in {"checking", "storing", "queueing"} /\ s \in {"refused", "unavailable", "sent"}
          \/ /\ charged'[m] = charged[m] + 1 /\ UNCHANGED <<queued, delivered>>
             /\ spc[a] = "checking" /\ s = "storing"
          \/ UNCHANGED <<queued, charged, delivered>> /\ spc[a] = "storing" /\ s = "queueing"
          \/ /\ queued'[m] = queued[m] + 1 /\ UNCHANGED <<charged, delivered>>
             /\ spc[a] = "queueing" /\ s = "delivering"
          \/ /\ delivered'[m] \in {delivered[m], delivered[m] + 1} /\ UNCHANGED <<charged, queued>>
             /\ spc[a] = "delivering" /\ s = "sent"
          \/ /\ queued'[m] = queued[m] + 1 /\ delivered'[m] = delivered[m] + 1 /\ UNCHANGED charged
             /\ spc[a] = "storing" /\ s = "sent"
      BY <2>3, <2>5, <1>1, <1>2, <1>5 DEF Go, SubmissionTypeOK, SendStep, RefuseSend,
         BecomeUnavailable,
         Discard, ReserveSend, StoreSentCopy, QueueRemote, DeliverLocal,
         CommitForward, sentVars, Count
    <3> QED
      BY <3>2, <3>3, <2>1, <2>2, <2>3, <1>1 DEF SendBound, OrderOf, One, Unqueued
  <2> QED
    BY <2>4, <2>5
<1> QED
  BY <1>4, <1>5

\* What a sender loop works on is scheduled mail: no draft, and no client waits for it.
LEMMA LoopHasScheduled ==
  ASSUME SubmissionInv, NEW m \in Mails, NEW l \in Loops, sendJob[l] = m
  PROVE  route[m] = "scheduled" /\ ~draft[m] /\ ~ClientOpen(m)
  BY SubmissionAssumption DEF SubmissionInv, RoutesApart, ClientOpen

\* The end of a sender loop's attempt, recorded or lost, keeps the bounds.
LEMMA EndKeepsBounds ==
  ASSUME SubmissionInv, NEW l \in Loops, UNCHANGED route, NEW m \in Mails,
         \/ RecordOutcome(l) \/ LoseOutcome(l) \/ Panic(l) \/ (StopLoop(l) /\ sendJob[l] # NoMail)
  PROVE  SendBound(m)' /\ OrderOf(m)'
<1> DEFINE k == sendJob[l]
<1>1. SubmissionTypeOK /\ SendBound(m) /\ OrderOf(m) /\ l \in Actors
  BY DEF SubmissionInv, SendsBounded, InOrder, Actors
<1>2. k \in Mails
  BY <1>1 DEF SubmissionInv, WorkHasMail, SubmissionTypeOK, RecordOutcome,
     LoseOutcome, Panic, Outcomes,
     InSend
<1>3. \E t \in {"idle", "down"} : Moves(l, t, NoMail)
  BY DEF Moves, RecordOutcome, LoseOutcome, Panic, StopLoop, Done
<1>4. PICK t \in {"idle", "down"} : Moves(l, t, NoMail)
  BY <1>3
<1>5. NoMail # m
  BY SubmissionAssumption
<1>6. UNCHANGED <<draft, charged, queued, delivered, reply>>
  BY DEF RecordOutcome, LoseOutcome, Panic, StopLoop, sentVars
<1>7. CASE m # k
  <2>1. UNCHANGED <<row[m], lost[m]>>
    BY <1>1, <1>2, <1>7 DEF SubmissionTypeOK, RecordOutcome, LoseOutcome, Panic,
       StopLoop, SetRow, Count,
       rowTable
  <2> QED
    BY <2>1, <1>1, <1>4, <1>5, <1>6, <1>7, OthersFrame
<1>8. CASE m = k
  <2>1. /\ InHand(m) \in Nat /\ Charged(m) \in Nat /\ Leaving(m) \in Nat
        /\ queued[m] \in Nat /\ charged[m] \in Nat /\ delivered[m] \in Nat /\ lost[m] \in Nat
    BY <1>1, CountsAreNat DEF SubmissionTypeOK
  <2>2. /\ InHand(m)' = InHand(m) - One(spc[l] \in Unqueued)
        /\ Charged(m)' = Charged(m) - One(spc[l] \in {"storing", "queueing"})
        /\ Leaving(m)' = Leaving(m) - One(spc[l] \in {"delivering"})
    BY <1>1, <1>4, <1>5, <1>8, CountsMove, CountsAreNat DEF One
  <2>3. route[m] = "scheduled" /\ ~draft[m] /\ ~ClientOpen(m) /\ ~ClientOpen(m)'
    BY <1>8, LoopHasScheduled DEF ClientOpen
  <2>4. \/ lost'[m] = lost[m] + 1
        \/ lost'[m] = lost[m] /\ spc[l] = "held" /\ row' = row
        \/ lost'[m] = lost[m] /\ spc[l] \in {"refused", "unavailable"}
        \/ lost'[m] = lost[m] /\ row'[m] = "sent"
    BY <1>1, <1>2, <1>8 DEF SubmissionTypeOK, RecordOutcome, LoseOutcome, Panic,
       StopLoop, SetRow, Count,
       rowTable
  <2>5. spc[l] = "held" /\ row' = row => RowOpen(m)' = RowOpen(m)
    <3> SUFFICES ASSUME spc[l] = "held", row' = row PROVE RowOpen(m)' = RowOpen(m)
      OBVIOUS
    <3>1. (\A a \in Actors : sendJob'[a] = m => spc'[a] = "held") <=>
          (\A a \in Actors : sendJob[a] = m => spc[a] = "held")
      BY <1>1, <1>4, <1>5 DEF Moves, SubmissionTypeOK
    <3> QED
      BY <3>1 DEF RowOpen
  <2>6. row'[m] = "sent" => ~RowOpen(m)'
    BY DEF RowOpen
  <2> QED
    BY <2>1, <2>2, <2>3, <2>4, <2>5, <2>6, <1>1, <1>6 DEF SendBound, OrderOf, One,
       Unqueued
<1> QED
  BY <1>7, <1>8

\* A claim of the sender loop, and what loops do with no message, keep the bounds.
LEMMA LoopKeepsBounds ==
  ASSUME SubmissionInv, NEW l \in Loops, UNCHANGED route, NEW m \in Mails,
         \/ ReadDue(l) \/ \E k \in Mails : ClaimDue(l, k)
         \/ (StopLoop(l) /\ sendJob[l] = NoMail) \/ StartLoop(l)
  PROVE  SendBound(m)' /\ OrderOf(m)'
<1>1. SubmissionTypeOK /\ SendBound(m) /\ OrderOf(m) /\ l \in Actors /\ NoMail # m
  BY SubmissionAssumption DEF SubmissionInv, SendsBounded, InOrder, Actors
<1>2. CASE ReadDue(l)
  BY <1>1, <1>2, Frame DEF ReadDue, rowTable, sentVars
<1>3. ASSUME NEW k \in Mails, ClaimDue(l, k) PROVE SendBound(m)' /\ OrderOf(m)'
  <2>1. UNCHANGED <<draft, charged, queued, delivered, reply, lost>> /\ sendJob[l] = NoMail
    BY <1>3, <1>1 DEF ClaimDue, sentVars, SubmissionInv, WorkHasMail
  <2>2. CASE row[k] # "pending"
    BY <1>1, <1>3, <2>1, <2>2, Frame DEF ClaimDue
  <2>3. CASE row[k] = "pending"
    <3>1. Moves(l, "checking", k) /\ row' = [row EXCEPT ![k] = "sending"]
      BY <1>3, <2>3 DEF ClaimDue, Moves, SetRow
    <3>2. CASE m # k
      BY <1>1, <2>1, <3>1, <3>2, OthersFrame DEF SubmissionTypeOK
    <3>3. CASE m = k
      <4>1. /\ InHand(m) \in Nat /\ Charged(m) \in Nat /\ Leaving(m) \in Nat
            /\ queued[m] \in Nat /\ charged[m] \in Nat /\ delivered[m] \in Nat /\ lost[m] \in Nat
        BY <1>1, CountsAreNat DEF SubmissionTypeOK
      <4>2. InHand(m)' = InHand(m) + 1 /\ Charged(m)' = Charged(m) /\ Leaving(m)' = Leaving(m)
        <5>1. Moves(l, "checking", m) /\ sendJob[l] # m
          BY <1>1, <2>1, <3>1, <3>3
        <5>2. /\ InHand(m)' = InHand(m) + One(m = m /\ "checking" \in Unqueued)
              /\ Charged(m)' = Charged(m) + One(m = m /\ "checking" \in {"storing", "queueing"})
              /\ Leaving(m)' = Leaving(m) + One(m = m /\ "checking" \in {"delivering"})
          BY <5>1, <1>1, CountsTake
        <5> QED
          BY <5>2, <4>1 DEF One, Unqueued
      <4>3. RowOpen(m) /\ ~RowOpen(m)'
        BY <1>1, <2>3, <3>1, <3>3 DEF RowOpen, SubmissionTypeOK, Moves
      <4>4. route[m] = "scheduled"
        BY <2>3, <3>3 DEF SubmissionInv, RoutesApart
      <4> QED
        BY <1>1, <2>1, <4>1, <4>2, <4>3, <4>4 DEF SendBound, OrderOf, One, ClientOpen
    <3> QED
      BY <3>2, <3>3
  <2> QED
    BY <2>2, <2>3
<1>4. CASE StopLoop(l) /\ sendJob[l] = NoMail
  <2>1. Moves(l, "down", NoMail) /\ UNCHANGED <<row, draft, charged, queued, delivered, reply, lost>>
    BY <1>4 DEF StopLoop, Moves, rowTable, sentVars
  <2> QED
    BY <2>1, <1>1, <1>4, OthersFrame
<1>5. CASE StartLoop(l)
  <2>1. Moves(l, "idle", NoMail) /\ sendJob[l] = NoMail /\ sendJob' = sendJob
        /\ UNCHANGED <<draft, charged, queued, delivered, reply>>
    BY <1>1, <1>5 DEF StartLoop, Moves, sentVars, SubmissionInv, WorkHasMail,
       SubmissionTypeOK
  <2>2. CASE row'[m] = row[m]
    <3>1. CASE lost'[m] = lost[m]
      BY <1>1, <2>1, <2>2, <3>1, OthersFrame
    <3>2. CASE lost'[m] # lost[m]
      BY <1>5, <2>2, <3>2 DEF StartLoop
    <3> QED
      BY <3>1, <3>2
  <2>3. CASE row'[m] # row[m]
    <3>1. row[m] = "sending" /\ row'[m] = "pending" /\ lost'[m] \in {lost[m], lost[m] + 1}
          /\ (lost'[m] = lost[m] => \A j \in Loops : sendJob[j] # m)
      BY <1>1, <1>5, <2>3 DEF StartLoop, SubmissionTypeOK
    <3>2. /\ InHand(m) \in Nat /\ Charged(m) \in Nat /\ Leaving(m) \in Nat
          /\ queued[m] \in Nat /\ charged[m] \in Nat /\ delivered[m] \in Nat /\ lost[m] \in Nat
      BY <1>1, CountsAreNat DEF SubmissionTypeOK
    <3>3. InHand(m)' = InHand(m) /\ Charged(m)' = Charged(m) /\ Leaving(m)' = Leaving(m)
      BY <1>1, <2>1, OthersCounts
    <3>4. ClientOpen(m)' = ClientOpen(m)
      BY <2>1 DEF ClientOpen
    <3>5. route[m] = "scheduled" /\ \A q \in Requests : sendJob[q] # m
      BY <1>1, <3>1 DEF SubmissionInv, RoutesApart
    <3>6. lost'[m] = lost[m] => RowOpen(m)
      BY <3>1, <3>5 DEF RowOpen, Actors
    <3> QED
      BY <1>1, <2>1, <3>1, <3>2, <3>3, <3>4, <3>6 DEF SendBound, OrderOf, One
  <2> QED
    BY <2>2, <2>3
<1> QED
  BY <1>2, <1>3, <1>4, <1>5

\* A client's request keeps the bounds when it begins and when it is answered.
LEMMA RequestKeepsBounds ==
  ASSUME SubmissionInv, NEW q \in Requests, UNCHANGED route, NEW m \in Mails,
         Answer(q) \/ \E k \in Mails : SendNow(q, k)
  PROVE  SendBound(m)' /\ OrderOf(m)'
<1>1. SubmissionTypeOK /\ SendBound(m) /\ OrderOf(m) /\ q \in Actors /\ NoMail # m
  BY SubmissionAssumption DEF SubmissionInv, SendsBounded, InOrder, Actors
<1>2. /\ InHand(m) \in Nat /\ Charged(m) \in Nat /\ Leaving(m) \in Nat
      /\ queued[m] \in Nat /\ charged[m] \in Nat /\ delivered[m] \in Nat /\ lost[m] \in Nat
  BY <1>1, CountsAreNat DEF SubmissionTypeOK
<1>3. CASE Answer(q)
  <2> DEFINE k == sendJob[q]
  <2>1. /\ Moves(q, "idle", NoMail) /\ UNCHANGED <<row, draft, charged, queued, delivered, lost>>
        /\ k \in Mails /\ reply' = [reply EXCEPT ![k] = spc[q]]
    BY <1>1, <1>3 DEF Answer, Done, Moves, rowTable, sentVars, SubmissionInv,
       WorkHasMail,
       SubmissionTypeOK, Outcomes
  <2>2. CASE m # k
    BY <1>1, <2>1, <2>2, OthersFrame DEF SubmissionTypeOK
  <2>3. CASE m = k
    <3>1. /\ InHand(m)' = InHand(m) - One(spc[q] \in Unqueued)
          /\ Charged(m)' = Charged(m) - One(spc[q] \in {"storing", "queueing"})
          /\ Leaving(m)' = Leaving(m) - One(spc[q] \in {"delivering"})
      BY <1>1, <2>1, <2>3, CountsMove, CountsAreNat DEF One
    <3>2. row[m] # "sending" /\ ~ClientOpen(m)
      BY <1>1, <2>1, <2>3 DEF SubmissionInv, RoutesApart, ClientOpen
    <3>3. RowOpen(m)' = RowOpen(m)
      BY <2>1, <3>2 DEF RowOpen
    <3>4. \/ spc[q] \in {"unavailable", "refused"}
          \/ spc[q] \in {"sent", "held"} /\ ~ClientOpen(m)'
      BY <1>1, <1>3, <2>1, <2>3 DEF Answer, Outcomes, ClientOpen, SubmissionTypeOK
    <3> QED
      BY <1>1, <1>2, <2>1, <3>1, <3>2, <3>3, <3>4 DEF SendBound, OrderOf, One,
         Unqueued
  <2> QED
    BY <2>2, <2>3
<1>4. ASSUME NEW k \in Mails, SendNow(q, k) PROVE SendBound(m)' /\ OrderOf(m)'
  <2>1. /\ Moves(q, "checking", k) /\ UNCHANGED <<row, draft, charged, queued, delivered, lost, reply>>
        /\ sendJob[q] = NoMail
    BY <1>1, <1>4 DEF SendNow, Moves, rowTable, sentVars, SubmissionInv, WorkHasMail
  <2>2. CASE m # k
    BY <1>1, <2>1, <2>2, OthersFrame
  <2>3. CASE m = k
    <3>1. Moves(q, "checking", m) /\ sendJob[q] # m
      BY <1>1, <2>1, <2>3
    <3>2. /\ InHand(m)' = InHand(m) + One(m = m /\ "checking" \in Unqueued)
          /\ Charged(m)' = Charged(m) + One(m = m /\ "checking" \in {"storing", "queueing"})
          /\ Leaving(m)' = Leaving(m) + One(m = m /\ "checking" \in {"delivering"})
      BY <3>1, <1>1, CountsTake
    <3>3. InHand(m)' = InHand(m) + 1 /\ Charged(m)' = Charged(m) /\ Leaving(m)' = Leaving(m)
      BY <3>2, <1>2 DEF One, Unqueued
    <3>4. row[m] # "sending"
      BY <1>4, <2>3 DEF SendNow, SubmissionInv, RoutesApart
    <3>5. RowOpen(m)' = RowOpen(m)
      BY <2>1, <3>4 DEF RowOpen
    <3>6. ClientOpen(m) /\ ~ClientOpen(m)'
      BY <1>1, <1>4, <2>1, <2>3 DEF SendNow, ClientOpen, Moves, SubmissionTypeOK
    <3> QED
      BY <1>1, <1>2, <2>1, <3>3, <3>5, <3>6 DEF SendBound, OrderOf, One
  <2> QED
    BY <2>2, <2>3
<1> QED
  BY <1>3, <1>4

\* So does what happens to a message outside of an attempt at it.
LEMMA MailKeepsBounds ==
  ASSUME SubmissionInv, NEW k \in Mails, UNCHANGED route, NEW m \in Mails,
         \/ Schedule(k) \/ CancelScheduled(k) \/ SendDraft(k)
         \/ ReleaseHeld(k) \/ ComeDue(k) \/ GrowStale(k)
  PROVE  SendBound(m)' /\ OrderOf(m)'
<1>1. SubmissionTypeOK /\ SendBound(m) /\ OrderOf(m)
  BY DEF SubmissionInv, SendsBounded, InOrder
<1>2. /\ InHand(m) \in Nat /\ Charged(m) \in Nat /\ Leaving(m) \in Nat
      /\ queued[m] \in Nat /\ charged[m] \in Nat /\ delivered[m] \in Nat /\ lost[m] \in Nat
      /\ draft[m] \in BOOLEAN
  BY <1>1, CountsAreNat DEF SubmissionTypeOK
<1>3. UNCHANGED <<spc, sendJob, lost, reply>>
  BY DEF Schedule, CancelScheduled, SendDraft, ReleaseHeld, ComeDue, GrowStale
<1>4. CASE m # k \/ ComeDue(k) \/ GrowStale(k)
  <2>1. UNCHANGED <<row[m], draft[m], charged[m], queued[m], delivered[m]>>
    BY <1>1, <1>4 DEF Schedule, CancelScheduled, SendDraft, ReleaseHeld, ComeDue,
       GrowStale, SetRow,
       SendWhole, DiscardWhole, Count, sentVars, SubmissionTypeOK
  <2> QED
    BY <2>1, <1>1, <1>3, Frame
<1>5. CASE m = k /\ ~ComeDue(k) /\ ~GrowStale(k)
  <2>1. InHand(m)' = InHand(m) /\ Charged(m)' = Charged(m) /\ Leaving(m)' = Leaving(m)
    BY <1>3, BusyStays DEF InHand, Charged, Leaving
  <2>2. ClientOpen(m)' = ClientOpen(m)
    BY <1>3 DEF ClientOpen
  <2>3. CASE Schedule(k)
    <3>1. RowOpen(m) /\ UNCHANGED <<queued, charged, delivered, draft>>
      BY <1>5, <2>3 DEF Schedule, RowOpen, sentVars
    <3> QED
      BY <1>1, <1>2, <1>3, <2>1, <2>2, <3>1 DEF SendBound, OrderOf, One
  <2>4. CASE CancelScheduled(k)
    <3>1. RowOpen(m) /\ UNCHANGED <<queued, charged, delivered, draft>>
      BY <1>5, <2>4 DEF CancelScheduled, RowOpen, sentVars
    <3> QED
      BY <1>1, <1>2, <1>3, <2>1, <2>2, <3>1 DEF SendBound, OrderOf, One
  <2>5. CASE SendDraft(k)
    <3>1. draft[m] /\ ~draft'[m] /\ row[m] = "none" /\ route[m] = "draft"
      BY <1>1, <1>5, <2>5 DEF SendDraft, SubmissionTypeOK, SubmissionInv, RoutesApart
    <3>2. \/ /\ queued'[m] = queued[m] + 1 /\ charged'[m] = charged[m] + 1
             /\ delivered'[m] = delivered[m] + 1 /\ row' = row
          \/ UNCHANGED <<queued, charged, delivered>>
      BY <1>1, <1>5, <2>5 DEF SendDraft, SendWhole, DiscardWhole, Count, sentVars,
         SubmissionTypeOK
    <3>3. row' = row => ~RowOpen(m)'
      BY <3>1 DEF RowOpen
    <3> QED
      BY <1>1, <1>2, <1>3, <2>1, <2>2, <3>1, <3>2, <3>3 DEF SendBound, OrderOf, One
  <2>6. CASE ReleaseHeld(k)
    <3>1. RowOpen(m) /\ draft' = draft
      BY <1>5, <2>6 DEF ReleaseHeld, RowOpen
    <3>2. \/ /\ queued'[m] = queued[m] + 1 /\ charged'[m] = charged[m] + 1
             /\ delivered'[m] = delivered[m] + 1 /\ row'[m] = "sent"
          \/ UNCHANGED <<queued, charged, delivered>>
      BY <1>1, <1>5, <2>6 DEF ReleaseHeld, SendWhole, DiscardWhole, Count,
         SubmissionTypeOK, SetRow
    <3>3. row'[m] = "sent" => ~RowOpen(m)'
      BY DEF RowOpen
    <3> QED
      BY <1>1, <1>2, <1>3, <2>1, <2>2, <3>1, <3>2, <3>3 DEF SendBound, OrderOf, One
  <2> QED
    BY <1>5, <2>3, <2>4, <2>5, <2>6
<1> QED
  BY <1>4, <1>5

-----------------------------------------------------------------------------
\* The part of the invariant that counts nothing.
Plain == SubmissionTypeOK /\ WorkHasMail /\ RoutesApart /\ StepsDone /\ SentIsSent

\* The steps of sendComposedMessage keep the types and what a step has done.
LEMMA SendKeepsPlain ==
  ASSUME Plain, NEW a \in Actors, SendStep(a), UNCHANGED route
  PROVE  Plain'
<1>1. sendJob[a] \in Mails /\ sendJob' = sendJob
  BY DEF Plain, WorkHasMail, SubmissionTypeOK, SendStep, RefuseSend,
     BecomeUnavailable, Discard, Hold,
     ReserveSend, StoreSentCopy, QueueRemote, DeliverLocal, CommitForward, Untouched
<1>2. CASE RefuseSend(a)
  <2>1. SubmissionTypeOK'
    BY <1>1, <1>2 DEF Plain, SubmissionTypeOK, RefuseSend, Untouched, Go, Count,
       SetRow, rowTable, sentVars,
       ActorSteps, InSend, Outcomes, RowStates, Unsettled
  <2>2. WorkHasMail' /\ RoutesApart'
    BY <1>1, <1>2 DEF Plain, SubmissionTypeOK, RefuseSend, Untouched, Go, Count,
       SetRow, rowTable, sentVars,
       WorkHasMail, RoutesApart, Actors
  <2>3. StepsDone'
    BY <1>1, <1>2 DEF Plain, SubmissionTypeOK, RefuseSend, Untouched, Go, Count,
       SetRow, rowTable, sentVars,
       WorkHasMail, StepsDone, Sent
  <2>4. SentIsSent'
    BY <1>1, <1>2 DEF Plain, SubmissionTypeOK, RefuseSend, Untouched, Go, Count,
       SetRow, rowTable, sentVars,
       SentIsSent
  <2> QED
    BY <2>1, <2>2, <2>3, <2>4 DEF Plain
<1>3. CASE BecomeUnavailable(a)
  <2>1. SubmissionTypeOK'
    BY <1>1, <1>3 DEF Plain, SubmissionTypeOK, BecomeUnavailable, Untouched, Go,
       Count, SetRow, rowTable, sentVars,
       ActorSteps, InSend, Outcomes, RowStates, Unsettled
  <2>2. WorkHasMail' /\ RoutesApart'
    BY <1>1, <1>3 DEF Plain, SubmissionTypeOK, BecomeUnavailable, Untouched, Go,
       Count, SetRow, rowTable, sentVars,
       WorkHasMail, RoutesApart, Actors
  <2>3. StepsDone'
    BY <1>1, <1>3 DEF Plain, SubmissionTypeOK, BecomeUnavailable, Untouched, Go,
       Count, SetRow, rowTable, sentVars,
       WorkHasMail, StepsDone, Sent
  <2>4. SentIsSent'
    BY <1>1, <1>3 DEF Plain, SubmissionTypeOK, BecomeUnavailable, Untouched, Go,
       Count, SetRow, rowTable, sentVars,
       SentIsSent
  <2> QED
    BY <2>1, <2>2, <2>3, <2>4 DEF Plain
<1>4. CASE Discard(a)
  <2>1. SubmissionTypeOK'
    BY <1>1, <1>4 DEF Plain, SubmissionTypeOK, Discard, Untouched, Go, Count, SetRow,
       rowTable, sentVars,
       ActorSteps, InSend, Outcomes, RowStates, Unsettled
  <2>2. WorkHasMail' /\ RoutesApart'
    BY <1>1, <1>4 DEF Plain, SubmissionTypeOK, Discard, Untouched, Go, Count, SetRow,
       rowTable, sentVars,
       WorkHasMail, RoutesApart, Actors
  <2>3. StepsDone'
    BY <1>1, <1>4 DEF Plain, SubmissionTypeOK, Discard, Untouched, Go, Count, SetRow,
       rowTable, sentVars,
       WorkHasMail, StepsDone, Sent
  <2>4. SentIsSent'
    BY <1>1, <1>4 DEF Plain, SubmissionTypeOK, Discard, Untouched, Go, Count, SetRow,
       rowTable, sentVars,
       SentIsSent
  <2> QED
    BY <2>1, <2>2, <2>3, <2>4 DEF Plain
<1>5. CASE Hold(a)
  <2>1. SubmissionTypeOK'
    BY <1>1, <1>5 DEF Plain, SubmissionTypeOK, Hold, Untouched, Go, Count, SetRow,
       rowTable, sentVars,
       ActorSteps, InSend, Outcomes, RowStates, Unsettled
  <2>2. WorkHasMail' /\ RoutesApart'
    BY <1>1, <1>5 DEF Plain, SubmissionTypeOK, Hold, Untouched, Go, Count, SetRow,
       rowTable, sentVars,
       WorkHasMail, RoutesApart, Actors
  <2>3. StepsDone'
    BY <1>1, <1>5 DEF Plain, SubmissionTypeOK, Hold, Untouched, Go, Count, SetRow,
       rowTable, sentVars,
       WorkHasMail, StepsDone, Sent
  <2>4. SentIsSent'
    BY <1>1, <1>5 DEF Plain, SubmissionTypeOK, Hold, Untouched, Go, Count, SetRow,
       rowTable, sentVars,
       SentIsSent
  <2> QED
    BY <2>1, <2>2, <2>3, <2>4 DEF Plain
<1>6. CASE ReserveSend(a)
  <2>1. SubmissionTypeOK'
    BY <1>1, <1>6 DEF Plain, SubmissionTypeOK, ReserveSend, Untouched, Go, Count,
       SetRow, rowTable, sentVars,
       ActorSteps, InSend, Outcomes, RowStates, Unsettled
  <2>2. WorkHasMail' /\ RoutesApart'
    BY <1>1, <1>6 DEF Plain, SubmissionTypeOK, ReserveSend, Untouched, Go, Count,
       SetRow, rowTable, sentVars,
       WorkHasMail, RoutesApart, Actors
  <2>3. StepsDone'
    BY <1>1, <1>6 DEF Plain, SubmissionTypeOK, ReserveSend, Untouched, Go, Count,
       SetRow, rowTable, sentVars,
       WorkHasMail, StepsDone, Sent
  <2>4. SentIsSent'
    BY <1>1, <1>6 DEF Plain, SubmissionTypeOK, ReserveSend, Untouched, Go, Count,
       SetRow, rowTable, sentVars,
       SentIsSent
  <2> QED
    BY <2>1, <2>2, <2>3, <2>4 DEF Plain
<1>7. CASE StoreSentCopy(a)
  <2>1. SubmissionTypeOK'
    BY <1>1, <1>7 DEF Plain, SubmissionTypeOK, StoreSentCopy, Untouched, Go, Count,
       SetRow, rowTable, sentVars,
       ActorSteps, InSend, Outcomes, RowStates, Unsettled
  <2>2. WorkHasMail' /\ RoutesApart'
    BY <1>1, <1>7 DEF Plain, SubmissionTypeOK, StoreSentCopy, Untouched, Go, Count,
       SetRow, rowTable, sentVars,
       WorkHasMail, RoutesApart, Actors
  <2>3. StepsDone'
    BY <1>1, <1>7 DEF Plain, SubmissionTypeOK, StoreSentCopy, Untouched, Go, Count,
       SetRow, rowTable, sentVars,
       WorkHasMail, StepsDone, Sent
  <2>4. SentIsSent'
    BY <1>1, <1>7 DEF Plain, SubmissionTypeOK, StoreSentCopy, Untouched, Go, Count,
       SetRow, rowTable, sentVars,
       SentIsSent
  <2> QED
    BY <2>1, <2>2, <2>3, <2>4 DEF Plain
<1>8. CASE QueueRemote(a)
  <2>1. SubmissionTypeOK'
    BY <1>1, <1>8 DEF Plain, SubmissionTypeOK, QueueRemote, Untouched, Go, Count,
       SetRow, rowTable, sentVars,
       ActorSteps, InSend, Outcomes, RowStates, Unsettled
  <2>2. WorkHasMail' /\ RoutesApart'
    BY <1>1, <1>8 DEF Plain, SubmissionTypeOK, QueueRemote, Untouched, Go, Count,
       SetRow, rowTable, sentVars,
       WorkHasMail, RoutesApart, Actors
  <2>3. StepsDone'
    BY <1>1, <1>8 DEF Plain, SubmissionTypeOK, QueueRemote, Untouched, Go, Count,
       SetRow, rowTable, sentVars,
       WorkHasMail, StepsDone, Sent
  <2>4. SentIsSent'
    BY <1>1, <1>8 DEF Plain, SubmissionTypeOK, QueueRemote, Untouched, Go, Count,
       SetRow, rowTable, sentVars,
       SentIsSent
  <2> QED
    BY <2>1, <2>2, <2>3, <2>4 DEF Plain
<1>9. CASE DeliverLocal(a)
  <2>1. SubmissionTypeOK'
    BY <1>1, <1>9 DEF Plain, SubmissionTypeOK, DeliverLocal, Untouched, Go, Count,
       SetRow, rowTable, sentVars,
       ActorSteps, InSend, Outcomes, RowStates, Unsettled
  <2>2. WorkHasMail' /\ RoutesApart'
    BY <1>1, <1>9 DEF Plain, SubmissionTypeOK, DeliverLocal, Untouched, Go, Count,
       SetRow, rowTable, sentVars,
       WorkHasMail, RoutesApart, Actors
  <2>3. StepsDone'
    BY <1>1, <1>9 DEF Plain, SubmissionTypeOK, DeliverLocal, Untouched, Go, Count,
       SetRow, rowTable, sentVars,
       WorkHasMail, StepsDone, Sent
  <2>4. SentIsSent'
    BY <1>1, <1>9 DEF Plain, SubmissionTypeOK, DeliverLocal, Untouched, Go, Count,
       SetRow, rowTable, sentVars,
       SentIsSent
  <2> QED
    BY <2>1, <2>2, <2>3, <2>4 DEF Plain
<1>10. CASE CommitForward(a)
  <2>1. SubmissionTypeOK'
    BY <1>1, <1>10 DEF Plain, SubmissionTypeOK, CommitForward, Untouched, Go, Count,
       SetRow, rowTable, sentVars,
       ActorSteps, InSend, Outcomes, RowStates, Unsettled
  <2>2. WorkHasMail' /\ RoutesApart'
    BY <1>1, <1>10 DEF Plain, SubmissionTypeOK, CommitForward, Untouched, Go, Count,
       SetRow, rowTable, sentVars,
       WorkHasMail, RoutesApart, Actors
  <2>3. StepsDone'
    BY <1>1, <1>10 DEF Plain, SubmissionTypeOK, CommitForward, Untouched, Go, Count,
       SetRow, rowTable, sentVars,
       WorkHasMail, StepsDone, Sent
  <2>4. SentIsSent'
    BY <1>1, <1>10 DEF Plain, SubmissionTypeOK, CommitForward, Untouched, Go, Count,
       SetRow, rowTable, sentVars,
       SentIsSent
  <2> QED
    BY <2>1, <2>2, <2>3, <2>4 DEF Plain
<1> QED
  BY <1>2, <1>3, <1>4, <1>5, <1>6, <1>7, <1>8, <1>9, <1>10 DEF SendStep

\* What a sender loop does beside the send keeps them too.
LEMMA LoopKeepsPlain ==
  ASSUME Plain, NEW l \in Loops, UNCHANGED route,
         \/ ReadDue(l) \/ (\E m \in Mails : ClaimDue(l, m)) \/ RecordOutcome(l) \/ LoseOutcome(l)
         \/ Panic(l) \/ StopLoop(l) \/ StartLoop(l)
  PROVE  Plain'
<1>1. spc[l] \notin {"idle", "down"} => sendJob[l] \in Mails /\ route[sendJob[l]] = "scheduled"
  BY DEF Plain, WorkHasMail, SubmissionTypeOK, RoutesApart, Actors
<1>2. CASE ReadDue(l)
  <2>1. SubmissionTypeOK'
    BY <1>1, <1>2 DEF Plain, SubmissionTypeOK, ReadDue, Count, SetRow, Done, rowTable,
       sentVars,
       ActorSteps, InSend, Outcomes, RowStates, Unsettled, Actors
  <2>2. WorkHasMail' /\ RoutesApart'
    BY <1>1, <1>2, SubmissionAssumption DEF Plain, SubmissionTypeOK, ReadDue, Count,
       SetRow, Done, rowTable,
       sentVars, WorkHasMail, RoutesApart, Actors, InSend, Outcomes
  <2>3. StepsDone'
    BY <1>1, <1>2 DEF Plain, SubmissionTypeOK, ReadDue, Count, SetRow, Done, rowTable,
       sentVars,
       WorkHasMail, StepsDone, Sent, Actors
  <2>4. SentIsSent'
    BY <1>1, <1>2 DEF Plain, SubmissionTypeOK, ReadDue, Count, SetRow, Done, rowTable,
       sentVars,
       SentIsSent, StepsDone, Sent, Actors, Outcomes
  <2> QED
    BY <2>1, <2>2, <2>3, <2>4 DEF Plain
<1>3. ASSUME NEW m \in Mails, ClaimDue(l, m) PROVE Plain'
  <2>1. CASE row[m] # "pending"
    <3>0. /\ due_batch' = [due_batch EXCEPT ![l] = @ \ {m}]
          /\ UNCHANGED <<row, stale, spc, sendJob, due, tries, draft, seenTries, stops, charged, inSent, queued, delivered, discarded, lost, reply>>
      BY <1>1, <1>3, <2>1 DEF ClaimDue, SetRow, sentVars
    <3>1. SubmissionTypeOK'
      BY <1>1, <3>0 DEF Plain, SubmissionTypeOK, ActorSteps, InSend, Outcomes,
         RowStates, Unsettled, Actors
    <3>2. WorkHasMail'
      BY <1>1, <3>0, SubmissionAssumption DEF Plain, SubmissionTypeOK, WorkHasMail,
         Actors
    <3>3. RoutesApart'
      BY <1>1, <3>0, SubmissionAssumption DEF Plain, SubmissionTypeOK, RoutesApart,
         Actors
    <3>4. StepsDone'
      BY <1>1, <3>0 DEF Plain, SubmissionTypeOK, WorkHasMail, StepsDone, Sent, Actors
    <3>5. SentIsSent'
      BY <1>1, <3>0 DEF Plain, SubmissionTypeOK, SentIsSent, StepsDone, Sent, Actors,
         RoutesApart
    <3> QED
      BY <3>1, <3>2, <3>3, <3>4, <3>5 DEF Plain
  <2>2. CASE row[m] = "pending"
    <3>0. /\ due_batch' = [due_batch EXCEPT ![l] = @ \ {m}] /\ row[m] = "pending"
          /\ row' = [row EXCEPT ![m] = "sending"] /\ stale' = [stale EXCEPT ![m] = FALSE]
          /\ spc' = [spc EXCEPT ![l] = "checking"] /\ sendJob' = [sendJob EXCEPT ![l] = m]
          /\ UNCHANGED <<due, tries, draft, seenTries, stops, charged, inSent, queued, delivered, discarded, lost, reply>>
      BY <1>1, <1>3, <2>2 DEF ClaimDue, SetRow, sentVars
    <3>1. SubmissionTypeOK'
      BY <1>1, <3>0 DEF Plain, SubmissionTypeOK, ActorSteps, InSend, Outcomes,
         RowStates, Unsettled, Actors
    <3>2. WorkHasMail'
      BY <1>1, <3>0, SubmissionAssumption DEF Plain, SubmissionTypeOK, WorkHasMail,
         Actors
    <3>3. RoutesApart'
      BY <1>1, <3>0, SubmissionAssumption DEF Plain, SubmissionTypeOK, RoutesApart,
         Actors
    <3>4. StepsDone'
      BY <1>1, <3>0 DEF Plain, SubmissionTypeOK, WorkHasMail, StepsDone, Sent, Actors
    <3>5. SentIsSent'
      BY <1>1, <3>0 DEF Plain, SubmissionTypeOK, SentIsSent, StepsDone, Sent, Actors,
         RoutesApart
    <3> QED
      BY <3>1, <3>2, <3>3, <3>4, <3>5 DEF Plain
  <2> QED
    BY <1>3, <2>1, <2>2 DEF ClaimDue, SetRow, sentVars
<1>4. CASE RecordOutcome(l)
  <2>0. AttemptsOf(l) \in Nat /\ spc[l] \in Outcomes
    <3>1. spc[l] \notin {"idle", "down"} /\ spc[l] \in Outcomes
      BY <1>4 DEF RecordOutcome, Outcomes
    <3> QED
      BY <3>1, <1>1 DEF Plain, SubmissionTypeOK, AttemptsOf
  <2>1. CASE spc[l] = "held"
    <3>0. /\ spc' = [spc EXCEPT ![l] = "idle"] /\ sendJob' = [sendJob EXCEPT ![l] = NoMail]
          /\ UNCHANGED <<row, due, stale, tries>>
          /\ UNCHANGED <<draft, due_batch, seenTries, stops, charged, inSent, queued, delivered, discarded, lost, reply>>
      BY <1>1, <2>0, <1>4, <2>1 DEF RecordOutcome, SetRow, Done, rowTable, sentVars
    <3>1. SubmissionTypeOK'
      BY <1>1, <2>0, <3>0 DEF Plain, SubmissionTypeOK, ActorSteps, InSend, Outcomes,
         RowStates, Unsettled, Actors
    <3>2. WorkHasMail'
      BY <1>1, <2>0, <3>0, SubmissionAssumption DEF Plain, SubmissionTypeOK,
         WorkHasMail, Actors
    <3>3. RoutesApart'
      BY <1>1, <2>0, <3>0, SubmissionAssumption DEF Plain, SubmissionTypeOK,
         RoutesApart, Actors
    <3>4. StepsDone'
      BY <1>1, <2>0, <3>0 DEF Plain, SubmissionTypeOK, WorkHasMail, StepsDone, Sent,
         Actors
    <3>5. SentIsSent'
      BY <1>1, <2>0, <3>0 DEF Plain, SubmissionTypeOK, SentIsSent, StepsDone, Sent,
         Actors, RoutesApart
    <3> QED
      BY <3>1, <3>2, <3>3, <3>4, <3>5 DEF Plain
  <2>2. CASE spc[l] = "sent"
    <3>0. /\ spc' = [spc EXCEPT ![l] = "idle"] /\ sendJob' = [sendJob EXCEPT ![l] = NoMail] /\ spc[l] = "sent"
          /\ row' = [row EXCEPT ![sendJob[l]] = "sent"] /\ stale' = [stale EXCEPT ![sendJob[l]] = FALSE]
          /\ UNCHANGED <<due, tries>>
          /\ UNCHANGED <<draft, due_batch, seenTries, stops, charged, inSent, queued, delivered, discarded, lost, reply>>
      BY <1>1, <2>0, <1>4, <2>2 DEF RecordOutcome, SetRow, Done, rowTable, sentVars
    <3>1. SubmissionTypeOK'
      BY <1>1, <2>0, <3>0 DEF Plain, SubmissionTypeOK, ActorSteps, InSend, Outcomes,
         RowStates, Unsettled, Actors
    <3>2. WorkHasMail'
      BY <1>1, <2>0, <3>0, SubmissionAssumption DEF Plain, SubmissionTypeOK,
         WorkHasMail, Actors
    <3>3. RoutesApart'
      BY <1>1, <2>0, <3>0, SubmissionAssumption DEF Plain, SubmissionTypeOK,
         RoutesApart, Actors
    <3>4. StepsDone'
      BY <1>1, <2>0, <3>0 DEF Plain, SubmissionTypeOK, WorkHasMail, StepsDone, Sent,
         Actors
    <3>5. SentIsSent'
      BY <1>1, <2>0, <3>0 DEF Plain, SubmissionTypeOK, SentIsSent, StepsDone, Sent,
         Actors, RoutesApart
    <3> QED
      BY <3>1, <3>2, <3>3, <3>4, <3>5 DEF Plain
  <2>3. CASE spc[l] = "refused" \/ (spc[l] = "unavailable" /\ ~MayRetrySend(l))
    <3>0. /\ spc' = [spc EXCEPT ![l] = "idle"] /\ sendJob' = [sendJob EXCEPT ![l] = NoMail] /\ spc[l] \notin {"idle", "down"}
          /\ row' = [row EXCEPT ![sendJob[l]] = "failed"] /\ stale' = [stale EXCEPT ![sendJob[l]] = FALSE]
          /\ UNCHANGED <<due, tries>>
          /\ UNCHANGED <<draft, due_batch, seenTries, stops, charged, inSent, queued, delivered, discarded, lost, reply>>
      BY <1>1, <2>0, <1>4, <2>3 DEF RecordOutcome, SetRow, Done, rowTable, sentVars
    <3>1. SubmissionTypeOK'
      BY <1>1, <2>0, <3>0 DEF Plain, SubmissionTypeOK, ActorSteps, InSend, Outcomes,
         RowStates, Unsettled, Actors
    <3>2. WorkHasMail'
      BY <1>1, <2>0, <3>0, SubmissionAssumption DEF Plain, SubmissionTypeOK,
         WorkHasMail, Actors
    <3>3. RoutesApart'
      BY <1>1, <2>0, <3>0, SubmissionAssumption DEF Plain, SubmissionTypeOK,
         RoutesApart, Actors
    <3>4. StepsDone'
      BY <1>1, <2>0, <3>0 DEF Plain, SubmissionTypeOK, WorkHasMail, StepsDone, Sent,
         Actors
    <3>5. SentIsSent'
      BY <1>1, <2>0, <3>0 DEF Plain, SubmissionTypeOK, SentIsSent, StepsDone, Sent,
         Actors, RoutesApart
    <3> QED
      BY <3>1, <3>2, <3>3, <3>4, <3>5 DEF Plain
  <2>4. CASE spc[l] = "unavailable" /\ MayRetrySend(l)
    <3>0. /\ spc' = [spc EXCEPT ![l] = "idle"] /\ sendJob' = [sendJob EXCEPT ![l] = NoMail] /\ spc[l] = "unavailable"
          /\ row' = [row EXCEPT ![sendJob[l]] = "pending"] /\ stale' = [stale EXCEPT ![sendJob[l]] = FALSE]
          /\ due' = [due EXCEPT ![sendJob[l]] = FALSE] /\ tries' = [tries EXCEPT ![sendJob[l]] = AttemptsOf(l)]
          /\ UNCHANGED <<draft, due_batch, seenTries, stops, charged, inSent, queued, delivered, discarded, lost, reply>>
      BY <1>1, <2>0, <1>4, <2>4 DEF RecordOutcome, SetRow, Done, rowTable, sentVars
    <3>1. SubmissionTypeOK'
      BY <1>1, <2>0, <3>0 DEF Plain, SubmissionTypeOK, ActorSteps, InSend, Outcomes,
         RowStates, Unsettled, Actors
    <3>2. WorkHasMail'
      BY <1>1, <2>0, <3>0, SubmissionAssumption DEF Plain, SubmissionTypeOK,
         WorkHasMail, Actors
    <3>3. RoutesApart'
      BY <1>1, <2>0, <3>0, SubmissionAssumption DEF Plain, SubmissionTypeOK,
         RoutesApart, Actors
    <3>4. StepsDone'
      BY <1>1, <2>0, <3>0 DEF Plain, SubmissionTypeOK, WorkHasMail, StepsDone, Sent,
         Actors
    <3>5. SentIsSent'
      BY <1>1, <2>0, <3>0 DEF Plain, SubmissionTypeOK, SentIsSent, StepsDone, Sent,
         Actors, RoutesApart
    <3> QED
      BY <3>1, <3>2, <3>3, <3>4, <3>5 DEF Plain
  <2> QED
    <3>1. spc[l] \in {"held", "sent", "refused", "unavailable"}
      BY <2>0 DEF Outcomes
    <3> QED
      BY <3>1, <2>1, <2>2, <2>3, <2>4
<1>5. CASE LoseOutcome(l)
  <2>1. CASE UNCHANGED <<row, stale>>
    <3>0. /\ spc' = [spc EXCEPT ![l] = "idle"] /\ sendJob' = [sendJob EXCEPT ![l] = NoMail]
          /\ spc[l] \notin {"idle", "down"} /\ lost' = [lost EXCEPT ![sendJob[l]] = lost[sendJob[l]] + 1]
          /\ UNCHANGED <<row, stale>> /\ UNCHANGED <<due, tries, draft, due_batch, seenTries, stops, charged, inSent, queued, delivered, discarded, reply>>
      BY <1>1, <1>5, <2>1 DEF LoseOutcome, SetRow, Done, Count, sentVars
    <3>1. SubmissionTypeOK'
      BY <1>1, <3>0 DEF Plain, SubmissionTypeOK, ActorSteps, InSend, Outcomes,
         RowStates, Unsettled, Actors
    <3>2. WorkHasMail'
      BY <1>1, <3>0, SubmissionAssumption DEF Plain, SubmissionTypeOK, WorkHasMail,
         Actors
    <3>3. RoutesApart'
      BY <1>1, <3>0, SubmissionAssumption DEF Plain, SubmissionTypeOK, RoutesApart,
         Actors
    <3>4. StepsDone'
      BY <1>1, <3>0 DEF Plain, SubmissionTypeOK, WorkHasMail, StepsDone, Sent, Actors
    <3>5. SentIsSent'
      BY <1>1, <3>0 DEF Plain, SubmissionTypeOK, SentIsSent, StepsDone, Sent, Actors,
         RoutesApart
    <3> QED
      BY <3>1, <3>2, <3>3, <3>4, <3>5 DEF Plain
  <2>2. CASE SetRow(sendJob[l], "failed")
    <3>0. /\ spc' = [spc EXCEPT ![l] = "idle"] /\ sendJob' = [sendJob EXCEPT ![l] = NoMail]
          /\ spc[l] \notin {"idle", "down"} /\ lost' = [lost EXCEPT ![sendJob[l]] = lost[sendJob[l]] + 1]
          /\ row' = [row EXCEPT ![sendJob[l]] = "failed"] /\ stale' = [stale EXCEPT ![sendJob[l]] = FALSE]
          /\ UNCHANGED <<due, tries, draft, due_batch, seenTries, stops, charged, inSent, queued, delivered, discarded, reply>>
      BY <1>1, <1>5, <2>2 DEF LoseOutcome, SetRow, Done, Count, sentVars
    <3>1. SubmissionTypeOK'
      BY <1>1, <3>0 DEF Plain, SubmissionTypeOK, ActorSteps, InSend, Outcomes,
         RowStates, Unsettled, Actors
    <3>2. WorkHasMail'
      BY <1>1, <3>0, SubmissionAssumption DEF Plain, SubmissionTypeOK, WorkHasMail,
         Actors
    <3>3. RoutesApart'
      BY <1>1, <3>0, SubmissionAssumption DEF Plain, SubmissionTypeOK, RoutesApart,
         Actors
    <3>4. StepsDone'
      BY <1>1, <3>0 DEF Plain, SubmissionTypeOK, WorkHasMail, StepsDone, Sent, Actors
    <3>5. SentIsSent'
      BY <1>1, <3>0 DEF Plain, SubmissionTypeOK, SentIsSent, StepsDone, Sent, Actors,
         RoutesApart
    <3> QED
      BY <3>1, <3>2, <3>3, <3>4, <3>5 DEF Plain
  <2> QED
    BY <1>5, <2>1, <2>2 DEF LoseOutcome, SetRow, Done, Count, sentVars
<1>6. CASE Panic(l)
  <2>1. SubmissionTypeOK'
    BY <1>1, <1>6 DEF Plain, SubmissionTypeOK, Panic, Count, SetRow, Done, rowTable,
       sentVars,
       ActorSteps, InSend, Outcomes, RowStates, Unsettled, Actors
  <2>2. WorkHasMail' /\ RoutesApart'
    BY <1>1, <1>6, SubmissionAssumption DEF Plain, SubmissionTypeOK, Panic, Count,
       SetRow, Done, rowTable,
       sentVars, WorkHasMail, RoutesApart, Actors, InSend, Outcomes
  <2>3. StepsDone'
    BY <1>1, <1>6 DEF Plain, SubmissionTypeOK, Panic, Count, SetRow, Done, rowTable,
       sentVars,
       WorkHasMail, StepsDone, Sent, Actors
  <2>4. SentIsSent'
    BY <1>1, <1>6 DEF Plain, SubmissionTypeOK, Panic, Count, SetRow, Done, rowTable,
       sentVars,
       SentIsSent, StepsDone, Sent, Actors, Outcomes, InSend, RoutesApart
  <2> QED
    BY <2>1, <2>2, <2>3, <2>4 DEF Plain
<1>7. CASE StopLoop(l)
  <2>1. SubmissionTypeOK'
    BY <1>1, <1>7 DEF Plain, SubmissionTypeOK, StopLoop, Count, SetRow, Done,
       rowTable, sentVars,
       ActorSteps, InSend, Outcomes, RowStates, Unsettled, Actors
  <2>2. WorkHasMail' /\ RoutesApart'
    BY <1>1, <1>7, SubmissionAssumption DEF Plain, SubmissionTypeOK, StopLoop, Count,
       SetRow, Done, rowTable,
       sentVars, WorkHasMail, RoutesApart, Actors, InSend, Outcomes
  <2>3. StepsDone'
    BY <1>1, <1>7 DEF Plain, SubmissionTypeOK, StopLoop, Count, SetRow, Done,
       rowTable, sentVars,
       WorkHasMail, StepsDone, Sent, Actors
  <2>4. SentIsSent'
    BY <1>1, <1>7 DEF Plain, SubmissionTypeOK, StopLoop, Count, SetRow, Done,
       rowTable, sentVars,
       SentIsSent, StepsDone, Sent, Actors, Outcomes
  <2> QED
    BY <2>1, <2>2, <2>3, <2>4 DEF Plain
<1>8. CASE StartLoop(l)
  <2>1. SubmissionTypeOK'
    <3>1. row' \in [Mails -> RowStates] /\ stale' \in [Mails -> BOOLEAN]
      BY <1>8 DEF Plain, SubmissionTypeOK, StartLoop, RowStates, Unsettled
    <3>2. lost' \in [Mails -> Nat]
      BY <1>8 DEF Plain, SubmissionTypeOK, StartLoop
    <3>3. spc' \in [Actors -> ActorSteps]
      BY <1>8 DEF Plain, SubmissionTypeOK, StartLoop, ActorSteps, Actors
    <3> QED
      BY ZenonT(60), <1>8, <3>1, <3>2, <3>3 DEF Plain, SubmissionTypeOK, StartLoop, sentVars
  <2>2. WorkHasMail' /\ RoutesApart'
    BY <1>1, <1>8, SubmissionAssumption DEF Plain, SubmissionTypeOK, StartLoop, Count,
       SetRow, Done, rowTable,
       sentVars, WorkHasMail, RoutesApart, Actors, InSend, Outcomes
  <2>3. StepsDone'
    BY <1>1, <1>8 DEF Plain, SubmissionTypeOK, StartLoop, Count, SetRow, Done,
       rowTable, sentVars,
       WorkHasMail, StepsDone, Sent, Actors
  <2>4. SentIsSent'
    BY <1>1, <1>8 DEF Plain, SubmissionTypeOK, StartLoop, Count, SetRow, Done,
       rowTable, sentVars,
       SentIsSent, StepsDone, Sent, Actors, Outcomes, InSend, RoutesApart
  <2> QED
    BY <2>1, <2>2, <2>3, <2>4 DEF Plain
<1> QED
  BY <1>2, <1>3, <1>4, <1>5, <1>6, <1>7, <1>8

\* So do the clients, the people who cancel, release and send drafts, and time.
LEMMA ClientKeepsPlain ==
  ASSUME Plain, UNCHANGED route,
         \/ \E q \in Requests : Answer(q) \/ \E m \in Mails : SendNow(q, m)
         \/ \E m \in Mails : \/ Schedule(m) \/ CancelScheduled(m) \/ SendDraft(m)
                             \/ ReleaseHeld(m) \/ ComeDue(m) \/ GrowStale(m)
  PROVE  Plain'
<1>1. ASSUME NEW q \in Requests, Answer(q) PROVE Plain'
  <2>0. sendJob[q] \in Mails
    BY <1>1 DEF Plain, WorkHasMail, SubmissionTypeOK, Answer, Outcomes, Actors
  <2>1. SubmissionTypeOK'
    BY <2>0, <1>1 DEF Plain, SubmissionTypeOK, Answer, Count, SetRow, Done, rowTable,
       sentVars,
       ActorSteps, InSend, Outcomes, RowStates, Unsettled, Actors
  <2>2. WorkHasMail' /\ RoutesApart'
    BY <2>0, <1>1, SubmissionAssumption DEF Plain, SubmissionTypeOK, Answer, Count,
       SetRow, Done, rowTable,
       sentVars, WorkHasMail, RoutesApart, Actors, InSend, Outcomes
  <2>3. StepsDone'
    BY <2>0, <1>1 DEF Plain, SubmissionTypeOK, Answer, Count, SetRow, Done, rowTable,
       sentVars,
       WorkHasMail, StepsDone, Sent, Actors
  <2>4. SentIsSent'
    BY <2>0, <1>1 DEF Plain, SubmissionTypeOK, Answer, Count, SetRow, Done, rowTable,
       sentVars,
       SentIsSent, StepsDone, Sent, Actors, Outcomes
  <2> QED
    BY <2>1, <2>2, <2>3, <2>4 DEF Plain
<1>2. ASSUME NEW q \in Requests, NEW m \in Mails, SendNow(q, m) PROVE Plain'
  <2>1. SubmissionTypeOK'
    BY <1>2 DEF Plain, SubmissionTypeOK, SendNow, Count, SetRow, Done, rowTable,
       sentVars,
       ActorSteps, InSend, Outcomes, RowStates, Unsettled, Actors
  <2>2. WorkHasMail' /\ RoutesApart'
    BY <1>2, SubmissionAssumption DEF Plain, SubmissionTypeOK, SendNow, Count, SetRow,
       Done, rowTable,
       sentVars, WorkHasMail, RoutesApart, Actors, InSend, Outcomes
  <2>3. StepsDone'
    BY <1>2 DEF Plain, SubmissionTypeOK, SendNow, Count, SetRow, Done, rowTable,
       sentVars,
       WorkHasMail, StepsDone, Sent, Actors
  <2>4. SentIsSent'
    BY <1>2 DEF Plain, SubmissionTypeOK, SendNow, Count, SetRow, Done, rowTable,
       sentVars,
       SentIsSent, StepsDone, Sent, Actors, Outcomes
  <2> QED
    BY <2>1, <2>2, <2>3, <2>4 DEF Plain
<1>3. ASSUME NEW m \in Mails, Schedule(m) PROVE Plain'
  <2>1. SubmissionTypeOK'
    BY <1>3 DEF Plain, SubmissionTypeOK, Schedule, Count, SetRow, Done, rowTable,
       sentVars,
       ActorSteps, InSend, Outcomes, RowStates, Unsettled, Actors
  <2>2. WorkHasMail' /\ RoutesApart'
    BY <1>3, SubmissionAssumption DEF Plain, SubmissionTypeOK, Schedule, Count,
       SetRow, Done, rowTable,
       sentVars, WorkHasMail, RoutesApart, Actors, InSend, Outcomes
  <2>3. StepsDone'
    BY <1>3 DEF Plain, SubmissionTypeOK, Schedule, Count, SetRow, Done, rowTable,
       sentVars,
       WorkHasMail, StepsDone, Sent, Actors
  <2>4. SentIsSent'
    BY <1>3 DEF Plain, SubmissionTypeOK, Schedule, Count, SetRow, Done, rowTable,
       sentVars,
       SentIsSent, StepsDone, Sent, Actors, Outcomes
  <2> QED
    BY <2>1, <2>2, <2>3, <2>4 DEF Plain
<1>4. ASSUME NEW m \in Mails, CancelScheduled(m) PROVE Plain'
  <2>1. SubmissionTypeOK'
    BY <1>4 DEF Plain, SubmissionTypeOK, CancelScheduled, Count, SetRow, Done,
       rowTable, sentVars,
       ActorSteps, InSend, Outcomes, RowStates, Unsettled, Actors
  <2>2. WorkHasMail' /\ RoutesApart'
    BY <1>4, SubmissionAssumption DEF Plain, SubmissionTypeOK, CancelScheduled, Count,
       SetRow, Done, rowTable,
       sentVars, WorkHasMail, RoutesApart, Actors, InSend, Outcomes
  <2>3. StepsDone'
    BY <1>4 DEF Plain, SubmissionTypeOK, CancelScheduled, Count, SetRow, Done,
       rowTable, sentVars,
       WorkHasMail, StepsDone, Sent, Actors
  <2>4. SentIsSent'
    BY <1>4 DEF Plain, SubmissionTypeOK, CancelScheduled, Count, SetRow, Done,
       rowTable, sentVars,
       SentIsSent, StepsDone, Sent, Actors, Outcomes
  <2> QED
    BY <2>1, <2>2, <2>3, <2>4 DEF Plain
<1>5. ASSUME NEW m \in Mails, SendDraft(m) PROVE Plain'
  <2>1. CASE SendWhole(m) /\ UNCHANGED <<row, stale>>
    <3>0. /\ charged' = [charged EXCEPT ![m] = charged[m] + 1] /\ inSent' = [inSent EXCEPT ![m] = TRUE]
          /\ queued' = [queued EXCEPT ![m] = queued[m] + 1] /\ delivered' = [delivered EXCEPT ![m] = delivered[m] + 1]
          /\ UNCHANGED discarded
          /\ draft[m] /\ draft' = [draft EXCEPT ![m] = FALSE] /\ UNCHANGED <<row, stale>>
          /\ UNCHANGED <<due, tries, spc, sendJob, due_batch, seenTries, stops, lost, reply>>
      BY <1>5, <2>1 DEF SendDraft, SendWhole, DiscardWhole, SetRow, Count, sentVars
    <3>1. SubmissionTypeOK'
      BY <3>0 DEF Plain, SubmissionTypeOK, ActorSteps, InSend, Outcomes, RowStates,
         Unsettled, Actors
    <3>2. WorkHasMail'
      BY <3>0, SubmissionAssumption DEF Plain, SubmissionTypeOK, WorkHasMail, Actors
    <3>3. RoutesApart'
      BY <3>0, SubmissionAssumption DEF Plain, SubmissionTypeOK, RoutesApart, Actors
    <3>4. StepsDone'
      BY <3>0 DEF Plain, SubmissionTypeOK, WorkHasMail, StepsDone, Sent, Actors
    <3>5. SentIsSent'
      BY <3>0 DEF Plain, SubmissionTypeOK, SentIsSent, StepsDone, Sent, Actors,
         RoutesApart
    <3> QED
      BY <3>1, <3>2, <3>3, <3>4, <3>5 DEF Plain
  <2>2. CASE DiscardWhole(m) /\ UNCHANGED <<row, stale>>
    <3>0. /\ discarded' = [discarded EXCEPT ![m] = TRUE] /\ UNCHANGED <<charged, inSent, queued, delivered>>
          /\ draft[m] /\ draft' = [draft EXCEPT ![m] = FALSE] /\ UNCHANGED <<row, stale>>
          /\ UNCHANGED <<due, tries, spc, sendJob, due_batch, seenTries, stops, lost, reply>>
      BY <1>5, <2>2 DEF SendDraft, SendWhole, DiscardWhole, SetRow, Count, sentVars
    <3>1. SubmissionTypeOK'
      BY <3>0 DEF Plain, SubmissionTypeOK, ActorSteps, InSend, Outcomes, RowStates,
         Unsettled, Actors
    <3>2. WorkHasMail'
      BY <3>0, SubmissionAssumption DEF Plain, SubmissionTypeOK, WorkHasMail, Actors
    <3>3. RoutesApart'
      BY <3>0, SubmissionAssumption DEF Plain, SubmissionTypeOK, RoutesApart, Actors
    <3>4. StepsDone'
      BY <3>0 DEF Plain, SubmissionTypeOK, WorkHasMail, StepsDone, Sent, Actors
    <3>5. SentIsSent'
      BY <3>0 DEF Plain, SubmissionTypeOK, SentIsSent, StepsDone, Sent, Actors,
         RoutesApart
    <3> QED
      BY <3>1, <3>2, <3>3, <3>4, <3>5 DEF Plain
  <2>3. CASE SetRow(m, "held") /\ UNCHANGED sentVars
    <3>0. /\ row' = [row EXCEPT ![m] = "held"] /\ stale' = [stale EXCEPT ![m] = FALSE]
          /\ draft[m] /\ draft' = [draft EXCEPT ![m] = FALSE] /\ UNCHANGED <<charged, inSent, queued, delivered, discarded>>
          /\ UNCHANGED <<due, tries, spc, sendJob, due_batch, seenTries, stops, lost, reply>>
      BY <1>5, <2>3 DEF SendDraft, SendWhole, DiscardWhole, SetRow, Count, sentVars
    <3>1. SubmissionTypeOK'
      BY <3>0 DEF Plain, SubmissionTypeOK, ActorSteps, InSend, Outcomes, RowStates,
         Unsettled, Actors
    <3>2. WorkHasMail'
      BY <3>0, SubmissionAssumption DEF Plain, SubmissionTypeOK, WorkHasMail, Actors
    <3>3. RoutesApart'
      BY <3>0, SubmissionAssumption DEF Plain, SubmissionTypeOK, RoutesApart, Actors
    <3>4. StepsDone'
      BY <3>0 DEF Plain, SubmissionTypeOK, WorkHasMail, StepsDone, Sent, Actors
    <3>5. SentIsSent'
      BY <3>0 DEF Plain, SubmissionTypeOK, SentIsSent, StepsDone, Sent, Actors,
         RoutesApart
    <3> QED
      BY <3>1, <3>2, <3>3, <3>4, <3>5 DEF Plain
  <2> QED
    BY <1>5, <2>1, <2>2, <2>3 DEF SendDraft, SendWhole, DiscardWhole, SetRow, Count,
       sentVars
<1>6. ASSUME NEW m \in Mails, ReleaseHeld(m) PROVE Plain'
  <2>1. CASE SendWhole(m) /\ SetRow(m, "sent")
    <3>0. /\ charged' = [charged EXCEPT ![m] = charged[m] + 1] /\ inSent' = [inSent EXCEPT ![m] = TRUE]
          /\ queued' = [queued EXCEPT ![m] = queued[m] + 1] /\ delivered' = [delivered EXCEPT ![m] = delivered[m] + 1]
          /\ UNCHANGED discarded
          /\ row[m] = "held" /\ draft' = draft /\ row' = [row EXCEPT ![m] = "sent"] /\ stale' = [stale EXCEPT ![m] = FALSE]
          /\ UNCHANGED <<due, tries, spc, sendJob, due_batch, seenTries, stops, lost, reply>>
      BY <1>6, <2>1 DEF ReleaseHeld, SendWhole, DiscardWhole, SetRow, Count
    <3>1. SubmissionTypeOK'
      BY <3>0 DEF Plain, SubmissionTypeOK, ActorSteps, InSend, Outcomes, RowStates,
         Unsettled, Actors
    <3>2. WorkHasMail'
      BY <3>0, SubmissionAssumption DEF Plain, SubmissionTypeOK, WorkHasMail, Actors
    <3>3. RoutesApart'
      BY <3>0, SubmissionAssumption DEF Plain, SubmissionTypeOK, RoutesApart, Actors
    <3>4. StepsDone'
      BY <3>0 DEF Plain, SubmissionTypeOK, WorkHasMail, StepsDone, Sent, Actors
    <3>5. SentIsSent'
      BY <3>0 DEF Plain, SubmissionTypeOK, SentIsSent, StepsDone, Sent, Actors,
         RoutesApart
    <3> QED
      BY <3>1, <3>2, <3>3, <3>4, <3>5 DEF Plain
  <2>2. CASE DiscardWhole(m) /\ SetRow(m, "cancelled")
    <3>0. /\ discarded' = [discarded EXCEPT ![m] = TRUE] /\ UNCHANGED <<charged, inSent, queued, delivered>>
          /\ row[m] = "held" /\ draft' = draft /\ row' = [row EXCEPT ![m] = "cancelled"] /\ stale' = [stale EXCEPT ![m] = FALSE]
          /\ UNCHANGED <<due, tries, spc, sendJob, due_batch, seenTries, stops, lost, reply>>
      BY <1>6, <2>2 DEF ReleaseHeld, SendWhole, DiscardWhole, SetRow, Count
    <3>1. SubmissionTypeOK'
      BY <3>0 DEF Plain, SubmissionTypeOK, ActorSteps, InSend, Outcomes, RowStates,
         Unsettled, Actors
    <3>2. WorkHasMail'
      BY <3>0, SubmissionAssumption DEF Plain, SubmissionTypeOK, WorkHasMail, Actors
    <3>3. RoutesApart'
      BY <3>0, SubmissionAssumption DEF Plain, SubmissionTypeOK, RoutesApart, Actors
    <3>4. StepsDone'
      BY <3>0 DEF Plain, SubmissionTypeOK, WorkHasMail, StepsDone, Sent, Actors
    <3>5. SentIsSent'
      BY <3>0 DEF Plain, SubmissionTypeOK, SentIsSent, StepsDone, Sent, Actors,
         RoutesApart
    <3> QED
      BY <3>1, <3>2, <3>3, <3>4, <3>5 DEF Plain
  <2> QED
    BY <1>6, <2>1, <2>2 DEF ReleaseHeld, SendWhole, DiscardWhole, SetRow, Count
<1>7. ASSUME NEW m \in Mails, ComeDue(m) PROVE Plain'
  <2>1. SubmissionTypeOK'
    BY <1>7 DEF Plain, SubmissionTypeOK, ComeDue, Count, SetRow, Done, rowTable,
       sentVars,
       ActorSteps, InSend, Outcomes, RowStates, Unsettled, Actors
  <2>2. WorkHasMail' /\ RoutesApart'
    BY <1>7, SubmissionAssumption DEF Plain, SubmissionTypeOK, ComeDue, Count, SetRow,
       Done, rowTable,
       sentVars, WorkHasMail, RoutesApart, Actors, InSend, Outcomes
  <2>3. StepsDone'
    BY <1>7 DEF Plain, SubmissionTypeOK, ComeDue, Count, SetRow, Done, rowTable,
       sentVars,
       WorkHasMail, StepsDone, Sent, Actors
  <2>4. SentIsSent'
    BY <1>7 DEF Plain, SubmissionTypeOK, ComeDue, Count, SetRow, Done, rowTable,
       sentVars,
       SentIsSent, StepsDone, Sent, Actors, Outcomes
  <2> QED
    BY <2>1, <2>2, <2>3, <2>4 DEF Plain
<1>8. ASSUME NEW m \in Mails, GrowStale(m) PROVE Plain'
  <2>1. SubmissionTypeOK'
    BY <1>8 DEF Plain, SubmissionTypeOK, GrowStale, Count, SetRow, Done, rowTable,
       sentVars,
       ActorSteps, InSend, Outcomes, RowStates, Unsettled, Actors
  <2>2. WorkHasMail' /\ RoutesApart'
    BY <1>8, SubmissionAssumption DEF Plain, SubmissionTypeOK, GrowStale, Count,
       SetRow, Done, rowTable,
       sentVars, WorkHasMail, RoutesApart, Actors, InSend, Outcomes
  <2>3. StepsDone'
    BY <1>8 DEF Plain, SubmissionTypeOK, GrowStale, Count, SetRow, Done, rowTable,
       sentVars,
       WorkHasMail, StepsDone, Sent, Actors
  <2>4. SentIsSent'
    BY <1>8 DEF Plain, SubmissionTypeOK, GrowStale, Count, SetRow, Done, rowTable,
       sentVars,
       SentIsSent, StepsDone, Sent, Actors, Outcomes
  <2> QED
    BY <2>1, <2>2, <2>3, <2>4 DEF Plain
<1> QED
  BY <1>1, <1>2, <1>3, <1>4, <1>5, <1>6, <1>7, <1>8

-----------------------------------------------------------------------------
\* Before the first request every message may be sent once, by its own route.
LEMMA SubmissionBegins == SubmissionInit => SubmissionInv
<1> SUFFICES ASSUME SubmissionInit PROVE SubmissionInv
  OBVIOUS
<1>1. SubmissionTypeOK
  BY DEF SubmissionInit, SubmissionTypeOK, RowStates, ActorSteps, Actors
<1>2. WorkHasMail /\ RoutesApart /\ StepsDone /\ SentIsSent
  BY SubmissionAssumption DEF SubmissionInit, WorkHasMail, RoutesApart, StepsDone,
     SentIsSent, Actors
<1>3. ASSUME NEW m \in Mails PROVE SendBound(m) /\ OrderOf(m)
  <2>1. \A S : Busy(m, S) = {}
    BY SubmissionAssumption DEF SubmissionInit, Busy
  <2>2. InHand(m) = 0 /\ Charged(m) = 0 /\ Leaving(m) = 0
    BY <2>1, FS_EmptySet DEF InHand, Charged, Leaving
  <2>3. RowOpen(m) <=> route[m] = "scheduled"
    BY DEF SubmissionInit, RowOpen
  <2>4. ClientOpen(m) => route[m] \in {"now", "forward"}
    BY DEF ClientOpen
  <2>5. draft[m] <=> route[m] = "draft"
    BY DEF SubmissionInit
  <2> QED
    BY <2>2, <2>3, <2>4, <2>5 DEF SubmissionInit, SendBound, OrderOf, One
<1> QED
  BY <1>1, <1>2, <1>3 DEF SubmissionInv, SendsBounded, InOrder

\* Every step of a loop, a request, a client or the clock keeps the invariant.
LEMMA SubmissionSteps == SubmissionInv /\ [SubmissionNext]_submission => SubmissionInv'
<1>1. CASE UNCHANGED submission
  <2> SUFFICES ASSUME SubmissionInv PROVE SubmissionInv'
    OBVIOUS
  <2>1. UNCHANGED <<route, row, due, stale, tries, draft, spc, sendJob, due_batch, seenTries, stops,
                    charged, inSent, queued, delivered, discarded, lost, reply>>
    BY <1>1 DEF submission, moving, rowTable, sentVars
  <2>2. \A m \in Mails : SendBound(m)' /\ OrderOf(m)'
    BY <2>1, Frame DEF SubmissionInv, SendsBounded, InOrder
  <2>3. SubmissionTypeOK' /\ WorkHasMail' /\ RoutesApart' /\ StepsDone' /\ SentIsSent'
    BY <2>1 DEF SubmissionInv, SubmissionTypeOK, WorkHasMail, RoutesApart, StepsDone,
       SentIsSent, Sent
  <2> QED
    BY <2>2, <2>3 DEF SubmissionInv, SendsBounded, InOrder
<1>2. ASSUME SubmissionInv, SubmissionNext PROVE SubmissionInv'
  <2>1. Plain
    BY <1>2 DEF SubmissionInv, Plain
  <2>2. UNCHANGED route
    BY <1>2 DEF SubmissionNext
  <2>3. ASSUME NEW l \in Loops, \/ LoopWork(l) \/ LoseOutcome(l) \/ Panic(l) \/ StopLoop(l) \/ StartLoop(l)
        PROVE  Plain' /\ \A m \in Mails : SendBound(m)' /\ OrderOf(m)'
    <3>1. CASE SendStep(l)
      BY <1>2, <2>1, <2>2, <3>1, SendKeepsPlain, SendKeepsBounds DEF Actors
    <3>2. CASE RecordOutcome(l) \/ LoseOutcome(l) \/ Panic(l) \/ (StopLoop(l) /\ sendJob[l] # NoMail)
      BY <1>2, <2>1, <2>2, <3>2, LoopKeepsPlain, EndKeepsBounds
    <3>3. CASE \/ ReadDue(l) \/ (\E m \in Mails : ClaimDue(l, m))
               \/ (StopLoop(l) /\ sendJob[l] = NoMail) \/ StartLoop(l)
      BY <1>2, <2>1, <2>2, <3>3, LoopKeepsPlain, LoopKeepsBounds
    <3> QED
      BY <2>3, <3>1, <3>2, <3>3 DEF LoopWork
  <2>4. ASSUME NEW q \in Requests, SendStep(q) \/ Answer(q) \/ \E m \in Mails : SendNow(q, m)
        PROVE  Plain' /\ \A m \in Mails : SendBound(m)' /\ OrderOf(m)'
    <3>1. CASE SendStep(q)
      BY <1>2, <2>1, <2>2, <3>1, SendKeepsPlain, SendKeepsBounds DEF Actors
    <3>2. CASE Answer(q) \/ \E m \in Mails : SendNow(q, m)
      BY <1>2, <2>1, <2>2, <3>2, ClientKeepsPlain, RequestKeepsBounds
    <3> QED
      BY <2>4, <3>1, <3>2
  <2>5. ASSUME NEW k \in Mails, \/ Schedule(k) \/ CancelScheduled(k) \/ SendDraft(k)
                                \/ ReleaseHeld(k) \/ ComeDue(k) \/ GrowStale(k)
        PROVE  Plain' /\ \A m \in Mails : SendBound(m)' /\ OrderOf(m)'
    BY <1>2, <2>1, <2>2, <2>5, ClientKeepsPlain, MailKeepsBounds
  <2>6. Plain' /\ \A m \in Mails : SendBound(m)' /\ OrderOf(m)'
    BY <1>2, <2>3, <2>4, <2>5 DEF SubmissionNext
  <2> QED
    BY <2>6 DEF Plain, SubmissionInv, SendsBounded, InOrder
<1> QED
  BY <1>1, <1>2

\* SubmissionInv holds in every reachable state.
THEOREM SubmissionSafe == SubmissionSpec => []SubmissionInv
<1>1. SubmissionInit => SubmissionInv
  BY SubmissionBegins
<1>2. SubmissionInv /\ [SubmissionNext]_submission => SubmissionInv'
  BY SubmissionSteps
<1> QED
  BY <1>1, <1>2, PTL DEF SubmissionSpec

\* Every submitted message, its row, its actors and its history stay within their types.
THEOREM SubmissionTypeCorrect == SubmissionSpec => []SubmissionTypeOK
<1>1. SubmissionInv => SubmissionTypeOK
  BY DEF SubmissionInv
<1> QED
  BY <1>1, SubmissionSafe, PTL

\* What a bound on a message means for how often it was queued and delivered.
LEMMA BoundsMean ==
  ASSUME SubmissionInv, NEW m \in Mails
  PROVE  /\ queued[m] \in Nat /\ delivered[m] \in Nat /\ charged[m] \in Nat /\ lost[m] \in Nat
         /\ delivered[m] <= queued[m] /\ queued[m] <= charged[m]
         /\ queued[m] + One(RowOpen(m)) + One(ClientOpen(m)) <= 1 + lost[m]
<1>1. /\ InHand(m) \in Nat /\ Charged(m) \in Nat /\ Leaving(m) \in Nat
      /\ queued[m] \in Nat /\ charged[m] \in Nat /\ delivered[m] \in Nat /\ lost[m] \in Nat
  BY CountsAreNat DEF SubmissionInv, SubmissionTypeOK
<1>2. SendBound(m) /\ OrderOf(m)
  BY DEF SubmissionInv, SendsBounded, InOrder
<1> QED
  BY <1>1, <1>2 DEF SendBound, OrderOf, One

\* A message is queued and delivered once, and once more at most for every attempt whose
\* end a crash, a panic, a stall or a failed write lost, whatever the sender loops,
\* the clients' retries, releases and cancellations do at the same time.
THEOREM MailSentOnce == SubmissionSpec => []SentOnce
<1>1. SubmissionInv => SentOnce
  BY BoundsMean DEF SentOnce, One
<1> QED
  BY <1>1, SubmissionSafe, PTL

\* Nothing is queued that was not charged against the send limits first.
THEOREM SentWasCharged == SubmissionSpec => []SentIsCharged
<1>1. SubmissionInv => SentIsCharged
  BY BoundsMean DEF SentIsCharged
<1> QED
  BY <1>1, SubmissionSafe, PTL

\* A row shown as cancelled, failed or sent and an answer to a client say what became
\* of the message.
THEOREM PeopleToldTruly == SubmissionSpec => []ToldTruly
<1>1. ASSUME SubmissionInv PROVE ToldTruly
  <2>1. UnsentIsUnsent
    <3> SUFFICES ASSUME NEW m \in Mails, row[m] \in {"cancelled", "failed"}
                 PROVE  queued[m] <= lost[m] /\ delivered[m] <= lost[m]
      BY DEF UnsentIsUnsent
    <3>1. RowOpen(m)
      BY DEF RowOpen
    <3> QED
      BY <1>1, <3>1, BoundsMean DEF One
  <2>2. RefusedIsUnsent
    <3> SUFFICES ASSUME NEW m \in Mails, reply[m] \in {"refused", "unavailable"},
                        \A q \in Requests : sendJob[q] # m
                 PROVE  queued[m] = 0 /\ delivered[m] = 0
      BY DEF RefusedIsUnsent
    <3>1. route[m] \in {"now", "forward"} /\ lost[m] = 0
      BY <1>1 DEF SubmissionInv, RoutesApart
    <3>2. ClientOpen(m)
      BY <3>1 DEF ClientOpen
    <3> QED
      BY <1>1, <3>1, <3>2, BoundsMean DEF One
  <2> QED
    BY <1>1, <2>1, <2>2 DEF ToldTruly, SubmissionInv
<1> QED
  BY <1>1, SubmissionSafe, PTL
=============================================================================
