----------------------------- MODULE MailImport -----------------------------
(***************************************************************************)
(* The import of mail an account already has: one call for each message,   *)
(* repeated freely by an importer that is run again, alone or counted into *)
(* an import session, whose summary is one entry of the audit log.         *)
(*                                                                         *)
(* A call is one transaction.  What it stores and what it counts become    *)
(* visible when it commits; the advisory lock of its Message-ID and the    *)
(* row lock of its session are held until then.  The audit entry is the    *)
(* last thing a transaction writes, and is part of its commit.             *)
(***************************************************************************)
EXTENDS Integers, FiniteSets, FiniteSetsExt

CONSTANTS
  Mails,        \* messages, by their octets
  Ids, IdOf,    \* Message-IDs, and the one of a message
  Imports,      \* calls of the import route
  Sessions,     \* import sessions
  NoSession, NoMail,
  MaxImports,   \* bound: how many calls begin
  MaxRefusals   \* bound: how many calls fail before they commit

ASSUME ImportAssumption ==
  /\ IdOf \in [Mails -> Ids] /\ IsFiniteSet(Sessions)
  /\ NoSession \notin Sessions /\ NoMail \notin Mails
  /\ MaxImports \in Nat /\ MaxRefusals \in Nat

VARIABLES
  kept,         \* how many rows of the folder hold a message
  submitted,    \* Message-IDs whose copy a submission saved in Sent, in the window
  import,       \* the calls
  importSession,\* an import session: its state and what it has counted
  listed,       \* the sessions the sweeper found idle and will close
  audited,      \* what the summaries of the audit log add up to
  imports, refusals,
  done          \* history: what committed calls did

importVars ==
  <<kept, submitted, import, importSession, listed, audited, imports, refusals, done>>

Outcomes == {"imported", "deduplicated", "refused"}
Nothing == [o \in Outcomes |-> 0]
IdleImport == [stage |-> "idle", mail |-> NoMail, in |-> NoSession,
               always |-> FALSE, match |-> FALSE, outcome |-> "refused", counts |-> Nothing]
ImportStages == {"idle", "begun", "locked", "stored", "counting", "refused", "counting refusal"}

ImportTypeOK ==
  /\ kept \in [Mails -> Nat] /\ submitted \in SUBSET Ids
  /\ import \in [Imports ->
       [stage : ImportStages, mail : Mails \union {NoMail}, in : Sessions \union {NoSession},
        always : BOOLEAN, match : BOOLEAN, outcome : Outcomes, counts : [Outcomes -> Nat]]]
  /\ importSession \in [Sessions ->
       [state : {"new", "open", "idle", "closed"}, counts : [Outcomes -> Nat]]]
  /\ listed \in SUBSET Sessions /\ audited \in [Outcomes -> Nat]
  /\ imports \in Nat /\ refusals \in Nat

ImportInit ==
  /\ kept = [m \in Mails |-> 0] /\ submitted = {}
  /\ import = [i \in Imports |-> IdleImport]
  /\ importSession = [s \in Sessions |-> [state |-> "new", counts |-> Nothing]]
  /\ listed = {} /\ audited = Nothing
  /\ imports = 0 /\ refusals = 0
  /\ done = [plain |-> [m \in Mails |-> 0], all |-> Nothing]

Live(s) == importSession[s].state \in {"open", "idle"}
Holding(i) == import[i].stage \in {"locked", "stored", "counting"}
CountsInto(s) == {i \in Imports : import[i].in = s
                      /\ import[i].stage \in {"counting", "counting refusal"}}
Tally(counts, o) == [counts EXCEPT ![o] = @ + 1]

-----------------------------------------------------------------------------
(* Sessions *)

OpenSession(s) ==
  /\ importSession[s].state = "new"
  /\ importSession' = [importSession EXCEPT ![s].state = "open"]
  /\ UNCHANGED <<kept, submitted, import, listed, audited, imports, refusals, done>>

\* finish: the row is deleted and its summary appended, in one transaction.
FinishSession(s) ==
  /\ importSession' = [importSession EXCEPT ![s].state = "closed"]
  /\ audited' = [o \in Outcomes |-> audited[o] + importSession[s].counts[o]]

\* Close waits for the session's row lock.
CloseSession(s) ==
  /\ Live(s) /\ CountsInto(s) = {}
  /\ FinishSession(s)
  /\ UNCHANGED <<kept, submitted, import, listed, imports, refusals, done>>

\* An hour passes without an import.
GoesIdle(s) ==
  /\ importSession[s].state = "open"
  /\ importSession' = [importSession EXCEPT ![s].state = "idle"]
  /\ UNCHANGED <<kept, submitted, import, listed, audited, imports, refusals, done>>

\* CloseIdle lists the idle sessions ...
ListIdle ==
  /\ listed = {}
  /\ listed' = {s \in Sessions : importSession[s].state = "idle"}
  /\ UNCHANGED <<kept, submitted, import, importSession, audited, imports, refusals, done>>

\* Mutation of MayCloseIdle: the list will do, and no lock is asked for.
MayCloseListed(s) == importSession[s].state # "closed"

\* ... and closes each that is idle still, and that no import counts into (SKIP LOCKED).
MayCloseIdle(s) == importSession[s].state = "idle" /\ CountsInto(s) = {}

CloseIdle(s) ==
  /\ s \in listed /\ listed' = listed \ {s}
  /\ IF MayCloseIdle(s) THEN FinishSession(s) ELSE UNCHANGED <<importSession, audited>>
  /\ UNCHANGED <<kept, submitted, import, imports, refusals, done>>

-----------------------------------------------------------------------------
(* One import *)

\* A submission saves the copy of what it sent; a copy counts for five minutes.
Submit(id) ==
  /\ id \notin submitted
  /\ submitted' = submitted \union {id}
  /\ UNCHANGED <<kept, import, importSession, listed, audited, imports, refusals, done>>

WindowPasses(id) ==
  /\ id \in submitted
  /\ submitted' = submitted \ {id}
  /\ UNCHANGED <<kept, import, importSession, listed, audited, imports, refusals, done>>

Begin(i, m, s, always, match) ==
  /\ import[i].stage = "idle" /\ imports < MaxImports
  /\ s \in Sessions => importSession[s].state # "new"
  /\ imports' = imports + 1
  /\ import' = [import EXCEPT ![i] = [IdleImport EXCEPT !.stage = "begun", !.mail = m,
                                        !.in = s, !.always = always, !.match = match]]
  /\ UNCHANGED <<kept, submitted, importSession, listed, audited, refusals, done>>

\* A problem with the message, a full account, a failed write: the transaction is
\* rolled back, and the refusal is counted in one of its own.
Refuse(i) ==
  /\ import[i].stage \in {"begun", "locked", "stored"} /\ refusals < MaxRefusals
  /\ refusals' = refusals + 1
  /\ import' = [import EXCEPT ![i].stage = "refused", ![i].outcome = "refused"]
  /\ UNCHANGED <<kept, submitted, importSession, listed, audited, imports, done>>

\* Mutation of MayLock: imports of one message do not wait for each other.
MayLockAny(i) == TRUE

MayLock(i) ==
  \A j \in Imports \ {i} : Holding(j) => IdOf[import[j].mail] # IdOf[import[i].mail]

\* pg_advisory_xact_lock on the account, the folder and the Message-ID.
LockMessage(i) ==
  /\ import[i].stage = "begun" /\ MayLock(i)
  /\ import' = [import EXCEPT ![i].stage = "locked"]
  /\ UNCHANGED <<kept, submitted, importSession, listed, audited, imports, refusals, done>>

\* submittedCopy by Message-ID, sameContent by octets.
Existing(i) ==
  LET c == import[i] IN
  \/ c.match /\ IdOf[c.mail] \in submitted
  \/ ~c.always /\ kept[c.mail] > 0

StoreImport(i) ==
  /\ import[i].stage = "locked"
  /\ import' = [import EXCEPT ![i].stage = "stored",
                  ![i].outcome = IF Existing(i) THEN "deduplicated" ELSE "imported"]
  /\ UNCHANGED <<kept, submitted, importSession, listed, audited, imports, refusals, done>>

MayCount(s) == CountsInto(s) = {}

\* Count locks and reads the session's row; one that is gone rolls the import back,
\* and is told of in an entry of its own.
ReadCounts(i) ==
  LET s == import[i].in
      next == IF import[i].stage = "stored" THEN "counting" ELSE "counting refusal" IN
  /\ import[i].stage \in {"stored", "refused"} /\ s # NoSession /\ MayCount(s)
  /\ import' = [import EXCEPT ![i] =
       IF Live(s) THEN [@ EXCEPT !.stage = next, !.counts = importSession[s].counts]
       ELSE [@ EXCEPT !.stage = "refused", !.in = NoSession, !.outcome = "refused"]]
  /\ UNCHANGED <<kept, submitted, importSession, listed, audited, imports, refusals, done>>

\* The transaction commits: what it counted, in its session or in an entry of its
\* own (Single), and what it stored.
Commit(i) ==
  LET c == import[i] IN
  /\ \/ /\ c.stage \in {"counting", "counting refusal"}
        /\ importSession' = [importSession EXCEPT ![c.in].counts = Tally(c.counts, c.outcome),
                         ![c.in].state = IF @ = "closed" THEN @ ELSE "open"]
        /\ UNCHANGED audited
     \/ /\ c.stage \in {"stored", "refused"} /\ c.in = NoSession
        /\ audited' = Tally(audited, c.outcome)
        /\ UNCHANGED importSession
  /\ kept' = [kept EXCEPT ![c.mail] = IF c.outcome = "imported" THEN @ + 1 ELSE @]
  /\ done' = [plain |-> [done.plain EXCEPT ![c.mail] =
                IF c.outcome = "imported" /\ ~c.always THEN @ + 1 ELSE @],
              all |-> Tally(done.all, c.outcome)]
  /\ import' = [import EXCEPT ![i] = IdleImport]
  /\ UNCHANGED <<submitted, listed, imports, refusals>>

\* A refusal whose own transaction fails is only logged.
LoseRefusal(i) ==
  /\ import[i].stage \in {"refused", "counting refusal"} /\ refusals < MaxRefusals
  /\ refusals' = refusals + 1
  /\ import' = [import EXCEPT ![i] = IdleImport]
  /\ UNCHANGED <<kept, submitted, importSession, listed, audited, imports, done>>

ImportStep(i) ==
  \/ \E m \in Mails, s \in Sessions \union {NoSession}, always, match \in BOOLEAN :
       Begin(i, m, s, always, match)
  \/ Refuse(i) \/ LockMessage(i) \/ StoreImport(i) \/ ReadCounts(i) \/ Commit(i) \/ LoseRefusal(i)

ImportNext ==
  \/ \E i \in Imports : ImportStep(i)
  \/ \E s \in Sessions : OpenSession(s) \/ CloseSession(s) \/ GoesIdle(s) \/ CloseIdle(s)
  \/ ListIdle
  \/ \E id \in Ids : Submit(id) \/ WindowPasses(id)

ImportSpec == ImportInit /\ [][ImportNext]_importVars

-----------------------------------------------------------------------------
(* Properties *)

\* However often and however concurrently an importer sends a message, one copy
\* is stored for all the calls that did not ask to store it always.
ImportedOnce == \A m \in Mails : done.plain[m] <= 1

Counted(o) ==
  audited[o] + SumFunctionOnSet([s \in Sessions |-> importSession[s].counts[o]],
                               {s \in Sessions : Live(s)})

\* The audit log tells of every import exactly once: what is counted in open
\* sessions and written in summaries is what committed calls did ("every attempt
\* the route reads is in an audit summary"), while imports race a close, the
\* sweeper and each other for the session's row.
EveryImportCounted == \A o \in Outcomes : Counted(o) = done.all[o]
=============================================================================
