---------------------------- MODULE InboundMail ----------------------------
(***************************************************************************)
(* One message arriving over SMTP, from another server (port 25) or from a *)
(* signed-in client (submission): the session of the gateway, the delivery *)
(* requests it makes to the API, one for each local recipient, and the     *)
(* sending server, which sends the message again while it is not answered  *)
(* or put off.                                                             *)
(*                                                                         *)
(* A delivery request is a process of its own: the gateway waits for it    *)
(* with a deadline, and a request it gave up on may still go on.           *)
(* Meanwhile addresses change what they stand for.                         *)
(***************************************************************************)
EXTENDS Integers, Sequences, FiniteSets

CONSTANTS
  Rcpts,        \* addresses of recipients
  Bounces,      \* those of them that are valid SRS addresses
  MaxRecipients, \* the server's limit of recipients in an envelope
  MaxArrivals,  \* bound: how often the message is sent
  MaxMoves,     \* bound: how often an address changes what it stands for
  MaxLost       \* bound: requests and connections given up on

ASSUME InboundAssumption ==
  /\ Bounces \subseteq Rcpts
  /\ MaxRecipients \in Nat /\ MaxArrivals \in Nat /\ MaxMoves \in Nat /\ MaxLost \in Nat

\* ResolveRecipient: a mailbox that receives, or an alias to one; an alias to
\* an address elsewhere; an alias that cannot route; neither of them.
Kinds == {"mailbox", "forward", "refusing", "none"}

VARIABLES
  submits,      \* the session is on a submission port
  signedIn,     \* and authenticated
  kind,         \* what each address stands for now
  moves,        \* how often that changed
  stage,        \* the session's stage
  rcptTo,       \* the recipients it accepted, in their order
  seenKind,     \* the lookups of DATA: what they found
  at,           \* the recipient that is looked up or handled
  prepared,     \* the submission's signed copy: "no", "yes", "failed"
  accepted,     \* the recipients it delivered or queued to so far
  failCode,     \* the answer if there are none
  aliasFailure, \* an alias refused
  call,         \* the delivery request the session waits for
  late,         \* the requests it gave up on
  arrivals,     \* how often the message was sent
  answer,       \* the answer to DATA
  \* history
  copies,       \* how often the message was stored in a mailbox or the quarantine
  relayed,      \* how often it was queued as mail of a client
  gone,         \* it went where an alias or a script sends it, or a filter took it
  repeated,     \* how often it was accepted for a recipient its envelope had named before
  lostFor       \* attempts whose end the sender or the session did not learn

session  == <<submits, signedIn, stage, rcptTo, seenKind, at, prepared,
              accepted, failCode, aliasFailure, answer>>
placed   == <<copies, relayed, gone>>
inbound  == <<session, kind, moves, call, late, arrivals, placed, repeated, lostFor>>

CallSteps == {"resolve", "alias", "pipeline", "store"}
NoCall    == [to |-> "nobody", step |-> "none"]
Codes     == {250, 451, 452, 550, 554}
Stages    == {"closed", "open", "mail", "lookup", "handle", "answered"}

InboundTypeOK ==
  /\ submits \in BOOLEAN /\ signedIn \in BOOLEAN
  /\ kind \in [Rcpts -> Kinds] /\ moves \in Nat
  /\ stage \in Stages
  /\ rcptTo \in Seq(Rcpts) /\ at \in Nat
  /\ seenKind \in [Rcpts -> {"local", "absent", "error"}]
  /\ prepared \in {"no", "yes", "failed"}
  /\ accepted \in SUBSET Rcpts
  /\ failCode \in Codes /\ aliasFailure \in BOOLEAN
  /\ call \in [to : Rcpts, step : CallSteps] \union {NoCall}
  /\ late \in SUBSET [to : Rcpts, step : CallSteps, arrival : Nat, place : Nat]
  /\ arrivals \in Nat
  /\ answer \in Codes \union {0}
  /\ \A h \in {copies, relayed, repeated, lostFor} : h \in [Rcpts -> Nat]
  /\ gone \in SUBSET Rcpts

None == [r \in Rcpts |-> 0]
AllAbsent == [r \in Rcpts |-> "absent"]

InboundInit ==
  /\ submits \in BOOLEAN /\ signedIn = FALSE
  /\ kind \in [Rcpts -> Kinds] /\ moves = 0
  /\ stage = "closed" /\ rcptTo = <<>> /\ at = 0
  /\ seenKind = AllAbsent
  /\ prepared = "no"
  /\ accepted = {} /\ failCode = 451 /\ aliasFailure = FALSE
  /\ call = NoCall /\ late = {} /\ arrivals = 0 /\ answer = 0
  /\ copies = None /\ relayed = None /\ gone = {} /\ repeated = None /\ lostFor = None

Add(h, r) == [h EXCEPT ![r] = @ + 1]
MaySubmit == submits /\ signedIn
InDoubt == answer \in {0, 451, 452}

-----------------------------------------------------------------------------
(* The session up to DATA *)

\* The sending server connects, as long as it has no final answer.
Connect ==
  /\ stage = "closed" /\ InDoubt /\ arrivals < MaxArrivals
  /\ arrivals' = arrivals + 1
  /\ stage' = "open" /\ signedIn' = FALSE
  /\ UNCHANGED <<submits, rcptTo, seenKind, at, prepared, accepted,
                 failCode, aliasFailure, answer, kind, moves, call, late,
                 placed, repeated, lostFor>>

\* login succeeds.  A refused one changes only the counters of its bans.
Login ==
  /\ stage = "open" /\ submits /\ ~signedIn
  /\ signedIn' = TRUE
  /\ UNCHANGED <<submits, stage, rcptTo, seenKind, at, prepared,
                 accepted, failCode, aliasFailure, answer, kind, moves,
                 call, late, arrivals, placed, repeated, lostFor>>

\* Mail: a submission must be signed in.  If its credential is no longer good,
\* the session is signed out.
Mail ==
  /\ stage = "open"
  /\ submits => signedIn
  /\ \/ stage' = "mail" /\ rcptTo' = <<>> /\ UNCHANGED signedIn
     \/ submits /\ signedIn' = FALSE /\ UNCHANGED <<stage, rcptTo>>
  /\ UNCHANGED <<submits, seenKind, at, prepared, accepted,
                 failCode, aliasFailure, answer, kind, moves, call, late,
                 arrivals, placed, repeated, lostFor>>

\* rcptSRS: a bounce to an address that this server made comes back.
IsBounce(r) == r \in Bounces /\ ~MaySubmit

\* Rcpt: a recipient that is local, or that a signed-in client may send to.  It is
\* appended also if it was named before.
Rcpt(r) ==
  /\ stage = "mail" /\ Len(rcptTo) < MaxRecipients
  /\ \/ IsBounce(r)
     \/ kind[r] \in {"mailbox", "forward"}
     \/ kind[r] = "none" /\ MaySubmit
  /\ rcptTo' = Append(rcptTo, r)
  /\ UNCHANGED <<submits, signedIn, stage, seenKind, at, prepared,
                 accepted, failCode, aliasFailure, answer, kind, moves,
                 call, late, arrivals, placed, repeated, lostFor>>

\* Reset: the transaction is given up.
Reset ==
  /\ stage = "mail"
  /\ stage' = "open" /\ rcptTo' = <<>>
  /\ UNCHANGED <<submits, signedIn, seenKind, at, prepared, accepted,
                 failCode, aliasFailure, answer, kind, moves, call, late,
                 arrivals, placed, repeated, lostFor>>

-----------------------------------------------------------------------------
(* Data *)

\* The message is refused as it is: its size or structure, a loop, the From
\* header, the sending policy, a limit, an inactive account, a full disk.
RefuseData(code) ==
  /\ stage = "mail" /\ rcptTo # <<>>
  /\ stage' = "answered" /\ answer' = code
  /\ accepted' = {} /\ aliasFailure' = FALSE
  /\ UNCHANGED <<submits, signedIn, rcptTo, seenKind, at, prepared,
                 failCode, kind, moves, call, late, arrivals, placed, repeated, lostFor>>

\* The variables of Data go out of scope.
EndData ==
  /\ seenKind' = AllAbsent /\ at' = 0 /\ prepared' = "no" /\ failCode' = 451

Data ==
  /\ stage = "mail" /\ rcptTo # <<>>
  /\ stage' = "lookup" /\ at' = 1 /\ seenKind' = AllAbsent
  /\ prepared' = IF MaySubmit THEN "no" ELSE "yes"
  /\ accepted' = {} /\ failCode' = 451 /\ aliasFailure' = FALSE
  /\ UNCHANGED <<submits, signedIn, rcptTo, answer, kind, moves, call,
                 late, arrivals, placed, repeated, lostFor>>

\* Every recipient is looked up again before any is handled.  An alias that
\* cannot route refuses the message.
LookUp ==
  /\ stage = "lookup"
  /\ LET r == rcptTo[at] IN
       \/ /\ ~IsBounce(r) /\ kind[r] = "refusing"
          /\ stage' = "answered" /\ answer' = 550
          /\ EndData
       \/ /\ IF at = Len(rcptTo) THEN stage' = "handle" /\ at' = 1
                                 ELSE at' = at + 1 /\ UNCHANGED stage
          /\ \/ IsBounce(r) /\ UNCHANGED seenKind
             \/ ~IsBounce(r) /\ kind[r] # "refusing"
                /\ seenKind' = [seenKind EXCEPT ![r] = IF kind[r] = "none" THEN "absent" ELSE "local"]
             \/ ~IsBounce(r) /\ seenKind' = [seenKind EXCEPT ![r] = "error"]
          /\ UNCHANGED <<answer, prepared, failCode>>
  /\ UNCHANGED <<submits, signedIn, rcptTo, accepted, aliasFailure, kind, moves,
                 call, late, arrivals, placed, repeated, lostFor>>

Handling(r) == stage = "handle" /\ call = NoCall /\ at <= Len(rcptTo) /\ r = rcptTo[at]
NamedBefore(r) == \E i \in 1 .. (at - 1) : rcptTo[i] = r
Accept(r) ==
  /\ accepted' = accepted \union {r} /\ at' = at + 1
  /\ repeated' = IF NamedBefore(r) THEN Add(repeated, r) ELSE repeated
  /\ UNCHANGED <<failCode, aliasFailure>>
FailWith(code) == at' = at + 1 /\ failCode' = code /\ UNCHANGED <<accepted, repeated>>
FailOne == FailWith(failCode) /\ UNCHANGED aliasFailure

\* The message goes on to another address, or is dropped as it should be.
SendOn(r) == gone' = gone \union {r} /\ UNCHANGED <<copies, relayed>>
KeepCopy(r) == copies' = Add(copies, r) /\ UNCHANGED <<relayed, gone>>

\* RelayBounce: queued, or dropped at the limit of bounces.
HandleBounce(r) ==
  /\ Handling(r) /\ IsBounce(r)
  /\ \/ Accept(r) /\ SendOn(r)
     \/ FailOne /\ UNCHANGED placed
  /\ UNCHANGED <<submits, signedIn, stage, rcptTo, seenKind, prepared,
                 answer, kind, moves, call, late, arrivals, lostFor>>

\* The lookup failed: neither delivered nor queued.
HandleUnknown(r) ==
  /\ Handling(r) /\ ~IsBounce(r) /\ seenKind[r] = "error"
  /\ FailOne
  /\ UNCHANGED <<submits, signedIn, stage, rcptTo, seenKind, prepared,
                 answer, kind, moves, call, late, arrivals, placed, lostFor>>

\* Mutation of HandleRemote: a recipient that is gone is queued.
HandleRemoteAny(r) ==
  /\ Handling(r) /\ ~IsBounce(r) /\ seenKind[r] = "absent"
  /\ Accept(r) /\ relayed' = Add(relayed, r)
  /\ UNCHANGED <<submits, signedIn, stage, rcptTo, seenKind, prepared,
                 answer, kind, moves, call, late, arrivals, copies, gone, lostFor>>

\* Not local: refused, or queued for a signed-in client.  Its reference in the
\* Sent folder is stored at the first such recipient, if it can be.
HandleRemote(r) ==
  /\ Handling(r) /\ ~IsBounce(r) /\ seenKind[r] = "absent"
  /\ \/ ~MaySubmit /\ FailWith(550) /\ UNCHANGED <<relayed, aliasFailure>>
     \/ MaySubmit /\ Accept(r) /\ relayed' = Add(relayed, r)
     \/ MaySubmit /\ FailOne /\ UNCHANGED relayed
  /\ UNCHANGED <<submits, signedIn, stage, rcptTo, seenKind, prepared,
                 answer, kind, moves, call, late, arrivals, copies, gone, lostFor>>

\* Local: the first one has a submission signed; then the API is asked.
HandleLocal(r) ==
  /\ Handling(r) /\ ~IsBounce(r) /\ seenKind[r] = "local"
  /\ \/ /\ prepared # "failed"
        /\ prepared' = "yes"
        /\ call' = [to |-> r, step |-> "resolve"]
        /\ UNCHANGED <<accepted, repeated, failCode, aliasFailure, at>>
     \/ /\ prepared \in {"no", "failed"}
        /\ prepared' = "failed"
        /\ FailWith(451) /\ UNCHANGED <<call, aliasFailure>>
  /\ UNCHANGED <<submits, signedIn, stage, rcptTo, seenKind, answer,
                 kind, moves, late, arrivals, placed, lostFor>>

\* Mutation of Reply: one recipient that failed fails the message.
ReplyIfAll ==
  /\ stage = "handle" /\ call = NoCall /\ at > Len(rcptTo)
  /\ stage' = "answered"
  /\ answer' = IF aliasFailure THEN 550 ELSE IF Cardinality(accepted) < Len(rcptTo) THEN failCode ELSE 250
  /\ EndData
  /\ UNCHANGED <<submits, signedIn, rcptTo, accepted, aliasFailure, kind, moves,
                 call, late, arrivals, placed, repeated, lostFor>>

\* One answer for all recipients: a failure only if none was accepted, or an
\* alias refused.
Reply ==
  /\ stage = "handle" /\ call = NoCall /\ at > Len(rcptTo)
  /\ stage' = "answered"
  /\ answer' = IF aliasFailure THEN 550 ELSE IF accepted = {} THEN failCode ELSE 250
  /\ EndData
  /\ UNCHANGED <<submits, signedIn, rcptTo, accepted, aliasFailure, kind, moves,
                 call, late, arrivals, placed, repeated, lostFor>>

\* Logout.
Quit ==
  /\ stage \in {"open", "mail", "answered"}
  /\ stage' = "closed" /\ signedIn' = FALSE /\ rcptTo' = <<>>
  /\ accepted' = {} /\ aliasFailure' = FALSE
  /\ UNCHANGED <<submits, seenKind, at, prepared, failCode, answer, kind, moves,
                 call, late, arrivals, placed, repeated, lostFor>>

-----------------------------------------------------------------------------
(* The API: deliverMessage, for one recipient.  Each step says what becomes  *)
(* of the request: a next step, or an answer.                                *)

Ok        == [code |-> 200, alias |-> FALSE]
Refusal(c) == [code |-> c, alias |-> FALSE]
AliasRefusal == [code |-> 550, alias |-> TRUE]
Steps(step) == [code |-> 0, next |-> step]

\* The address is resolved, and its mailbox must receive.
Resolve(r, out) ==
  /\ \/ kind[r] = "mailbox" /\ out \in {Steps("pipeline"), Refusal(500), Refusal(550)}
     \/ kind[r] = "forward" /\ out \in {Steps("alias"), Refusal(500), Refusal(550)}
     \/ kind[r] = "refusing" /\ out = AliasRefusal
     \/ kind[r] = "none" /\ out = Refusal(404)
  /\ UNCHANGED placed

\* deliverToRecipient for an alias to an address elsewhere: a loop or its
\* policy refuses it, the policy defers it, or a row is queued.
ForwardAlias(r, out) ==
  \/ out = Ok /\ SendOn(r)
  \/ out \in {Refusal(451), Refusal(550)} /\ UNCHANGED placed

\* Mutation of Redirect: a redirect alone cancels the copy in the mailbox.
RedirectBlindly(r, only, out) ==
  /\ SendOn(r) \/ UNCHANGED placed
  /\ out = IF only THEN Ok ELSE Steps("store")

\* A script's redirects are queued, each for itself.  Only one that is queued
\* may stand for the copy in the mailbox.
Redirect(r, only, out) ==
  \/ SendOn(r) /\ out = IF only THEN Ok ELSE Steps("store")
  \/ UNCHANGED placed /\ out = Steps("store")

\* deliverToLocal up to the pipeline's decision: held in the quarantine,
\* discarded or taken as a TLS report, refused, deferred, redirected by a
\* script, or to be stored.
RunPipeline(r, out) ==
  \/ out = Ok /\ (KeepCopy(r) \/ SendOn(r))
  \/ out \in {Refusal(550), Refusal(451), Refusal(500), Steps("store")} /\ UNCHANGED placed
  \/ \E only \in BOOLEAN : Redirect(r, only, out)

\* The message, its attachments and the quota are stored in a transaction.
Store(r, out) ==
  \/ out = Ok /\ KeepCopy(r)
  \/ out \in {Refusal(422), Refusal(500)} /\ UNCHANGED placed

DeliverStep(c, out) ==
  \/ c.step = "resolve" /\ Resolve(c.to, out)
  \/ c.step = "alias" /\ ForwardAlias(c.to, out)
  \/ c.step = "pipeline" /\ RunPipeline(c.to, out)
  \/ c.step = "store" /\ Store(c.to, out)

Results == {Ok, AliasRefusal} \union {Refusal(c) : c \in {404, 422, 451, 500, 550}}
             \union {Steps(s) : s \in CallSteps}

\* The reply code that the session remembers for an answer of the API.
FailCodeOf(out) ==
  IF out.code \in {404, 550} THEN 550 ELSE IF out.code = 422 THEN 452 ELSE 451

\* The request that the session waits for.
Deliver ==
  /\ call # NoCall
  /\ \E out \in Results :
       /\ DeliverStep(call, out)
       /\ \/ /\ out.code = 0
             /\ call' = [call EXCEPT !.step = out.next]
             /\ UNCHANGED <<accepted, repeated, failCode, aliasFailure, at>>
          \/ out.code = 200 /\ call' = NoCall /\ Accept(call.to)
          \/ /\ out.code \notin {0, 200}
             /\ call' = NoCall
             /\ FailWith(FailCodeOf(out))
             /\ aliasFailure' = (aliasFailure \/ out.alias)
  /\ UNCHANGED <<submits, signedIn, stage, rcptTo, seenKind, prepared,
                 answer, kind, moves, late, arrivals, lostFor>>

TotalLost == Cardinality(late) + Cardinality({r \in Rcpts : lostFor[r] > 0})
Late(c) == [to |-> c.to, step |-> c.step, arrival |-> arrivals, place |-> at]

\* The deadline of the request passes.
GiveUpCall ==
  /\ call # NoCall /\ TotalLost < MaxLost
  /\ late' = late \union {Late(call)}
  /\ lostFor' = Add(lostFor, call.to)
  /\ call' = NoCall
  /\ FailWith(451) /\ UNCHANGED aliasFailure
  /\ UNCHANGED <<submits, signedIn, stage, rcptTo, seenKind, prepared,
                 answer, kind, moves, arrivals, placed>>

\* A request nobody waits for may go on.
DeliverLate(c) ==
  /\ c \in late
  /\ \E out \in Results :
       /\ DeliverStep(c, out)
       /\ late' = (late \ {c}) \union (IF out.code = 0 THEN {[c EXCEPT !.step = out.next]} ELSE {})
  /\ UNCHANGED <<session, kind, moves, call, arrivals, repeated, lostFor>>

\* The connection breaks, or the gateway goes down, while the message is
\* handled or before its answer has reached the sender.
LoseConnection ==
  /\ stage \in {"lookup", "handle", "answered"} /\ TotalLost < MaxLost
  /\ late' = IF call = NoCall THEN late ELSE late \union {Late(call)}
  /\ lostFor' = [r \in Rcpts |-> lostFor[r] + (IF r \in accepted THEN 1 ELSE 0)
                                            + (IF call # NoCall /\ r = call.to THEN 1 ELSE 0)]
  /\ call' = NoCall
  /\ stage' = "closed" /\ signedIn' = FALSE /\ rcptTo' = <<>> /\ answer' = 0
  /\ accepted' = {} /\ aliasFailure' = FALSE /\ EndData
  /\ UNCHANGED <<submits, kind, moves, arrivals, placed, repeated>>

\* An address is added, removed, or given to an alias.
Move(r, k) ==
  /\ moves < MaxMoves /\ kind[r] # k
  /\ kind' = [kind EXCEPT ![r] = k] /\ moves' = moves + 1
  /\ UNCHANGED <<session, call, late, arrivals, placed, repeated, lostFor>>

DataStep ==
  \/ LookUp \/ Reply \/ Deliver
  \/ \E r \in Rcpts : HandleBounce(r) \/ HandleUnknown(r) \/ HandleRemote(r) \/ HandleLocal(r)

InboundNext ==
  \/ Connect \/ Login \/ Mail \/ Reset \/ Data \/ Quit
  \/ \E r \in Rcpts : Rcpt(r) \/ \E k \in Kinds : Move(r, k)
  \/ \E code \in {451, 550, 554} : RefuseData(code)
  \/ DataStep
  \/ GiveUpCall \/ LoseConnection
  \/ \E c \in late : DeliverLate(c)

InboundSpec == InboundInit /\ [][InboundNext]_inbound

-----------------------------------------------------------------------------
(* Properties *)

\* Data: "Inbound mail must never become an outbound relay": whatever the
\* addresses turn into between RCPT, the lookups and the delivery.
NeverRelays == ~submits => \A r \in Rcpts : relayed[r] = 0

\* Data: "only fail the transaction if nothing was committed": through all the
\* times it is sent, the message is stored, held or queued for a recipient
\* once, once more at most for each time that one envelope names it again, and
\* once more for each attempt whose end was lost.
CommittedOnce ==
  \A r \in Rcpts : copies[r] + relayed[r] <= 1 + repeated[r] + lostFor[r]

\* deliverToLocal, Data: a recipient that counts as accepted has the message in
\* its mailbox or the quarantine, or it went where its owner sends it, or a
\* filter took it: "a redirect that cannot be honoured never loses the message".
AcceptedIsKept ==
  \A r \in accepted :
    copies[r] + relayed[r] > 0 \/ r \in gone
=============================================================================
