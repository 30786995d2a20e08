---------------------------- MODULE PeerDelivery ----------------------------
(***************************************************************************)
(* One message that another RESTMAIL server delivers to this one in a      *)
(* request for all its recipients here, and sends again while it is not    *)
(* answered or put off (503).                                              *)
(*                                                                         *)
(* deliver runs the domain's filters once for all recipients, then each    *)
(* recipient's own script, and only then stores: the holds together, then  *)
(* each recipient's copy in a transaction of its own.                      *)
(***************************************************************************)
EXTENDS Integers, FiniteSets

CONSTANTS
  Peers,          \* recipients of the message
  MaxRequests,    \* bound: how often the peer sends it
  MaxBroken       \* bound: how often the connection breaks

ASSUME PeerAssumption == MaxRequests \in Nat /\ MaxBroken \in Nat

PeerKinds == {"mailbox", "alias", "refusing", "none"}
Verdicts  == {"keep", "reject", "discard", "hold", "redirect", "redirect only"}

VARIABLES
  pkind,        \* what each address stands for now
  pstage,       \* where the request is
  todo,         \* recipients still to be handled
  verdict,      \* the recipients' own scripts' decisions
  taken,        \* delivered: the recipients of the answer that took it
  putOff,       \* of a message with an alias: a recipient may take it later
  requests, broken,
  status,       \* the answer
  \* history
  stored,       \* how often the message was stored or held for a recipient
  wentOn,       \* it was redirected or forwarded, or a filter took it
  unsure        \* how often the peer did not learn the end

peerVars == <<pkind, pstage, todo, verdict, taken, putOff, requests, broken,
              status, stored, wentOn, unsure>>

PeerStages == {"idle", "resolve", "each", "reports", "filter", "scripts", "holds", "store"}
Statuses   == {0, 200, 403, 422, 503}
NoVerdict  == [r \in Peers |-> "keep"]

PeerTypeOK ==
  /\ pkind \in [Peers -> PeerKinds]
  /\ pstage \in PeerStages
  /\ todo \in SUBSET Peers /\ taken \in SUBSET Peers /\ wentOn \in SUBSET Peers
  /\ verdict \in [Peers -> Verdicts]
  /\ putOff \in BOOLEAN
  /\ requests \in Nat /\ broken \in Nat
  /\ status \in Statuses
  /\ stored \in [Peers -> Nat] /\ unsure \in [Peers -> Nat]

PeerInit ==
  /\ pkind \in [Peers -> PeerKinds]
  /\ pstage = "idle" /\ todo = {} /\ verdict = NoVerdict /\ taken = {}
  /\ putOff = FALSE /\ requests = 0 /\ broken = 0 /\ status = 0
  /\ stored = [r \in Peers |-> 0] /\ wentOn = {} /\ unsure = [r \in Peers |-> 0]

\* The request ends with an answer.
Finish(code) ==
  /\ pstage' = "idle" /\ status' = code
  /\ todo' = {} /\ verdict' = NoVerdict /\ putOff' = FALSE
  /\ UNCHANGED <<pkind, requests, broken, unsure>>

Proceed(step) ==
  /\ pstage' = step
  /\ UNCHANGED <<pkind, requests, broken, status, unsure, putOff>>

Keeps(S) == stored' = [r \in Peers |-> IF r \in S THEN stored[r] + 1 ELSE stored[r]]
GoesOn(S) == wentOn' = wentOn \union S

-----------------------------------------------------------------------------

\* The peer sends the message while it has no final answer.
SendToPeer ==
  /\ pstage = "idle" /\ status \in {0, 503} /\ requests < MaxRequests
  /\ requests' = requests + 1
  /\ pstage' = "resolve" /\ status' = 0 /\ taken' = {}
  /\ UNCHANGED <<pkind, todo, verdict, putOff, broken, stored, wentOn, unsure>>

\* The request itself is refused: its fields, a loop, its structure, its
\* sender is not authenticated; or something could not be read.
RefuseRequest(code) ==
  /\ pstage = "resolve"
  /\ Finish(code) /\ UNCHANGED <<taken, stored, wentOn>>

\* All recipients are resolved before anything has an effect.  One alias that
\* cannot route refuses the message; one alias that can has every recipient
\* handled for itself.
ResolveAll ==
  /\ pstage = "resolve"
  /\ LET found == {r \in Peers : pkind[r] \in {"mailbox", "alias"}} IN
       \/ /\ found = {} \/ \E r \in Peers : pkind[r] = "refusing"
          /\ Finish(422)
       \/ /\ found # {} /\ \A r \in Peers : pkind[r] # "refusing"
          /\ todo' = found /\ UNCHANGED verdict
          /\ Proceed(IF \E r \in found : pkind[r] = "alias" THEN "each" ELSE "reports")
  /\ UNCHANGED <<taken, stored, wentOn>>

\* deliverResolvedRecipients: deliverToRecipient for one recipient.
DeliverEach(r) ==
  /\ pstage = "each" /\ r \in todo
  /\ todo' = todo \ {r}
  /\ \/ /\ taken' = taken \union {r} /\ UNCHANGED putOff
        /\ \/ Keeps({r}) /\ UNCHANGED wentOn
           \/ GoesOn({r}) /\ UNCHANGED stored
     \/ putOff' \in {putOff, TRUE} /\ UNCHANGED <<taken, stored, wentOn>>
  /\ UNCHANGED <<pkind, pstage, verdict, requests, broken, status, unsure>>

AnswerEach ==
  /\ pstage = "each" /\ todo = {}
  /\ Finish(IF taken # {} THEN 200 ELSE IF putOff THEN 503 ELSE 422)
  /\ UNCHANGED <<taken, stored, wentOn>>

\* A TLS report is taken out of the mail; a failure puts the message off.
TakeReports ==
  /\ pstage = "reports"
  /\ \E S \in SUBSET todo :
       /\ GoesOn(S)
       /\ \/ taken' = taken \union S /\ S = todo /\ Finish(200)
          \/ /\ taken' = taken \union S /\ S # todo
             /\ todo' = todo \ S /\ UNCHANGED verdict
             /\ Proceed("filter")
          \/ UNCHANGED taken /\ Finish(503)
  /\ UNCHANGED stored

\* The domain's filters: they refuse or put off the message, discard it, hold
\* it for all, or redirect it, and a redirect that was queued may cancel the
\* copies.  The holds are one transaction.
FilterAll ==
  /\ pstage = "filter"
  /\ \/ Finish(403) /\ UNCHANGED <<taken, stored, wentOn>>
     \/ Finish(503) /\ UNCHANGED <<taken, stored, wentOn>>
     \/ Finish(200) /\ taken' = taken \union todo /\ GoesOn(todo) /\ UNCHANGED stored
     \/ Finish(200) /\ Keeps(todo) /\ UNCHANGED <<taken, wentOn>>
     \/ /\ Proceed("scripts")
        /\ GoesOn(todo) \/ UNCHANGED wentOn
        /\ UNCHANGED <<todo, verdict, taken, stored>>

\* runRecipientScripts: all of them before anything is stored.
RunScripts ==
  /\ pstage = "scripts"
  /\ \/ Finish(503)
     \/ /\ Proceed("holds") /\ UNCHANGED todo
        /\ \E v \in [todo -> Verdicts] :
             verdict' = [r \in Peers |-> IF r \in todo THEN v[r] ELSE "keep"]
  /\ UNCHANGED <<taken, stored, wentOn>>

ToHold == {r \in todo : verdict[r] = "hold"}

\* Mutation of StoreHolds: the holds are stored one by one.
StoreSomeHolds ==
  /\ pstage = "holds"
  /\ \E S \in SUBSET ToHold :
       /\ Keeps(S)
       /\ \/ S = ToHold /\ Proceed("store") /\ UNCHANGED <<todo, verdict>>
          \/ S # ToHold /\ Finish(503)
  /\ UNCHANGED <<taken, wentOn>>

\* storeHolds: in one transaction, before anything is delivered.
StoreHolds ==
  /\ pstage = "holds"
  /\ \/ Proceed("store") /\ Keeps(ToHold) /\ UNCHANGED <<todo, verdict>>
     \/ Finish(503) /\ UNCHANGED stored
  /\ UNCHANGED <<taken, wentOn>>

\* One recipient's decision is carried out.  A hold is done already; a copy is
\* stored with its charges in a transaction, or the recipient failed.
StoreFor(r) ==
  /\ pstage = "store" /\ r \in todo
  /\ todo' = todo \ {r}
  /\ \/ /\ verdict[r] \in {"reject", "hold"}
        /\ UNCHANGED <<taken, stored, wentOn>>
     \/ /\ verdict[r] \in {"discard", "redirect only"}
        /\ taken' = taken \union {r} /\ GoesOn({r}) /\ UNCHANGED stored
     \/ /\ verdict[r] \in {"keep", "redirect", "redirect only"}
        /\ \/ verdict[r] = "redirect" /\ GoesOn({r})
           \/ UNCHANGED wentOn
        /\ \/ taken' = taken \union {r} /\ Keeps({r})
           \/ UNCHANGED <<taken, stored>>
  /\ UNCHANGED <<pkind, pstage, verdict, putOff, requests, broken, status, unsure>>

AnswerStored ==
  /\ pstage = "store" /\ todo = {}
  /\ Finish(IF taken = {} THEN 422 ELSE 200)
  /\ UNCHANGED <<taken, stored, wentOn>>

\* The connection breaks: the handler's context ends, and the peer has no
\* answer.
Break ==
  /\ pstage # "idle" /\ broken < MaxBroken
  /\ broken' = broken + 1
  /\ pstage' = "idle" /\ todo' = {} /\ verdict' = NoVerdict /\ putOff' = FALSE
  /\ taken' = {} /\ status' = 0
  /\ unsure' = [r \in Peers |-> unsure[r] + 1]
  /\ UNCHANGED <<pkind, requests, stored, wentOn>>

ChangeKind(r, k) ==
  /\ requests < MaxRequests /\ pstage = "idle" /\ pkind[r] # k
  /\ pkind' = [pkind EXCEPT ![r] = k]
  /\ UNCHANGED <<pstage, todo, verdict, taken, putOff, requests, broken, status,
                 stored, wentOn, unsure>>

PeerNext ==
  \/ SendToPeer \/ ResolveAll \/ AnswerEach \/ TakeReports \/ FilterAll
  \/ RunScripts \/ StoreHolds \/ AnswerStored \/ Break
  \/ \E code \in {403, 422, 503} : RefuseRequest(code)
  \/ \E r \in Peers : \/ DeliverEach(r) \/ StoreFor(r)
                      \/ \E k \in PeerKinds : ChangeKind(r, k)

PeerSpec == PeerInit /\ [][PeerNext]_peerVars

-----------------------------------------------------------------------------
(* Properties *)

\* deliver, storeHolds: "the peer's retry gives no recipient a second copy":
\* only a request that broke off may have left one.
PeerStoredOnce == \A r \in Peers : stored[r] <= 1 + unsure[r]

\* deliver: a recipient that the answer lists as delivered has the message, or
\* it was sent on or taken by a filter.
PeerTakenIsKept == \A r \in taken : stored[r] > 0 \/ r \in wentOn

\* A peer that retries until it is told of every recipient gives each one copy.
PeerKeptOnce == PeerStoredOnce /\ PeerTakenIsKept
=============================================================================
