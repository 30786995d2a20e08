---------------------------- MODULE BounceNotice ----------------------------
(***************************************************************************)
(* Telling senders that their mail failed.  A queue worker that bounced a  *)
(* message, or an SMTP session relaying a bounce to an SRS address, puts   *)
(* one notice (DSN) into the sender's mailbox or the outbound queue, unless *)
(* the sender was sent too many within the window.  The count and the      *)
(* insert are two statements with nothing held between them.               *)
(***************************************************************************)
EXTENDS Integers, FiniteSets

CONSTANTS
  Workers,   \* queue workers and SMTP sessions
  Jobs,      \* failures to report and bounces to relay
  Boxes,     \* where notices go: a local mailbox, or a remote address as spelled
  Kind,      \* Kind[j]: what the job's sender turns out to be
  Box,       \* Box[j]: where its notice would go
  Owner,     \* Owner[j]: whose the linked sent message is, if any
  SameBox,   \* SameBox[b]: the boxes whose address is b in any case
  BounceMax, \* most notices per box and window; none when it is not positive
  BounceWindow,
  CountErrors, \* may the count fail?
  MaxTime,   \* bound: the clock stops here
  NoJob

Kinds  == {"null", "local", "remote", "invalid", "relay"}
Owners == {"none", "sender", "other"}

ASSUME JobAssumption ==
  /\ NoJob \notin Jobs
  /\ Kind \in [Jobs -> Kinds]
  /\ Box \in [Jobs -> Boxes]
  /\ Owner \in [Jobs -> Owners]
  /\ SameBox \in [Boxes -> SUBSET Boxes]
  /\ \A b \in Boxes : b \in SameBox[b]
ASSUME FiniteAssumption == IsFiniteSet(Workers) /\ IsFiniteSet(Jobs)
ASSUME LimitAssumption ==
  /\ BounceMax \in Int
  /\ BounceWindow \in Nat \ {0}
  /\ MaxTime \in Nat
  /\ CountErrors \in BOOLEAN

VARIABLES
  now,
  todo,      \* jobs nobody has taken up yet
  pc, job,   \* each worker's step and job
  sentAt,    \* created_at of a job's notice, NoTime while there is none
  blind      \* history: jobs let through because their count failed

vars == <<now, todo, pc, job, sentAt, blind>>

NoTime == -1

TypeOK ==
  /\ now \in Nat
  /\ todo \subseteq Jobs
  /\ pc \in [Workers -> {"idle", "resolve", "insert"}]
  /\ job \in [Workers -> Jobs \union {NoJob}]
  /\ sentAt \in [Jobs -> Int]
  /\ blind \subseteq Jobs

Init ==
  /\ now = 0
  /\ todo = Jobs
  /\ pc = [w \in Workers |-> "idle"]
  /\ job = [w \in Workers |-> NoJob]
  /\ sentAt = [j \in Jobs |-> NoTime]
  /\ blind = {}

Begin(w, j) ==
  /\ pc[w] = "idle"
  /\ j \in todo
  /\ todo' = todo \ {j}
  /\ pc' = [pc EXCEPT ![w] = "resolve"]
  /\ job' = [job EXCEPT ![w] = j]
  /\ UNCHANGED <<now, sentAt, blind>>

GoIdle(w) ==
  /\ pc' = [pc EXCEPT ![w] = "idle"]
  /\ job' = [job EXCEPT ![w] = NoJob]

\* bounceSenderAuthorized: a message linked to the row must belong to the
\* mailbox the notice would land in; with none there is nothing to contradict.
bounceSenderAuthorized(j) == Owner[j] \in {"none", "sender"}

\* Nobody to tell: a null reverse path, an address that is none, or a sender
\* the linked message shows to be forged.
Undeliverable(j) ==
  \/ Kind[j] \in {"null", "invalid"}
  \/ Kind[j] = "local" /\ ~bounceSenderAuthorized(j)

Refuse(w) ==
  /\ pc[w] = "resolve"
  /\ Undeliverable(job[w])
  /\ GoIdle(w)
  /\ UNCHANGED <<now, todo, sentAt, blind>>

\* The notices created within the window for one of a set of boxes.
Recent(boxes) ==
  {j \in Jobs : Box[j] \in boxes /\ sentAt[j] # NoTime /\ sentAt[j] > now - BounceWindow}

\* What the limit of a job counts: the relay ignores the address's case.
Counted(j) == Recent(IF Kind[j] = "relay" THEN SameBox[Box[j]] ELSE {Box[j]})

\* Mutation of withinDSNRateLimit: one notice too many.
withinDSNRateLimitPlusOne(n) == BounceMax <= 0 \/ n <= BounceMax

withinDSNRateLimit(n) == BounceMax <= 0 \/ n < BounceMax

\* The count is read and compared; the notice is built from here on.
CheckLimit(w) ==
  /\ pc[w] = "resolve"
  /\ ~Undeliverable(job[w])
  /\ IF withinDSNRateLimit(Cardinality(Counted(job[w])))
     THEN pc' = [pc EXCEPT ![w] = "insert"] /\ UNCHANGED job
     ELSE GoIdle(w)
  /\ UNCHANGED <<now, todo, sentAt, blind>>

\* recentDSNCount, queueRemoteDSN: a count that failed is left at zero, and the
\* notice goes.  The relay returns the error instead (Lose).
CountFails(w) ==
  /\ CountErrors /\ BounceMax > 0
  /\ pc[w] = "resolve"
  /\ ~Undeliverable(job[w]) /\ Kind[job[w]] # "relay"
  /\ pc' = [pc EXCEPT ![w] = "insert"]
  /\ blind' = blind \union {job[w]}
  /\ UNCHANGED <<now, todo, job, sentAt>>

\* The insert; its error is logged and the notice dropped.
Insert(w) ==
  /\ pc[w] = "insert"
  /\ sentAt' = [sentAt EXCEPT ![job[w]] = now]
  /\ GoIdle(w)
  /\ UNCHANGED <<now, todo, blind>>

\* The insert fails, or the process dies at any point: the notice is lost.
Lose(w) ==
  /\ pc[w] # "idle"
  /\ GoIdle(w)
  /\ UNCHANGED <<now, todo, sentAt, blind>>

Tick ==
  /\ now < MaxTime
  /\ now' = now + 1
  /\ UNCHANGED <<todo, pc, job, sentAt, blind>>

Next ==
  \/ \E w \in Workers : \/ \E j \in Jobs : Begin(w, j)
                        \/ Refuse(w)
                        \/ CheckLimit(w)
                        \/ CountFails(w)
                        \/ Insert(w)
                        \/ Lose(w)
  \/ Tick

Spec == Init /\ [][Next]_vars

-----------------------------------------------------------------------------
\* The notices of box b that were held to the limit, and the workers past its
\* check whose notice is not in yet.
Limited(b) == Recent({b}) \ blind
Passed(b)  == {w \in Workers : pc[w] = "insert" /\ Box[job[w]] = b /\ job[w] \notin blind}

\* The limit and the racing workers together bound the notices of a box: each
\* worker that counted before another's insert adds at most one to the cap, and
\* notices whose count failed do not make room for more.
CapPlusRacers ==
  BounceMax > 0 =>
    \A b \in Boxes :
      Cardinality(Limited(b)) <= BounceMax + Cardinality(Workers) - 1
=============================================================================
