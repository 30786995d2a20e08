--------------------------- MODULE IncomingProofs ---------------------------
(***************************************************************************)
(* Why mail that comes in is kept once: what peers deliver, what the       *)
(* gateway takes over SMTP and what an importer brings; and why the        *)
(* limiter's slots and bans hold for the connections it comes over.        *)
(***************************************************************************)
EXTENDS InboundMail, PeerDelivery, MailImport, ConnLimiter, SumTheorems

-----------------------------------------------------------------------------
(* Delivery from peers *)

\* The request, or the peer's next one, may still store the message for r.
MayStoreFor(r) ==
  \/ pstage \in {"resolve", "reports", "filter", "scripts", "holds"}
  \/ pstage = "idle" /\ status \in {0, 503}
  \/ pstage = "each" /\ r \notin taken
  \/ pstage = "store" /\ r \in todo /\ verdict[r] # "hold"

\* Then every copy there is was left by a request that broke off.
PeerStoreBound == \A r \in Peers : MayStoreFor(r) => stored[r] <= unsure[r]

\* A recipient handled for itself is not handled twice.
TodoApart ==
  /\ pstage = "each" => todo \intersect taken = {}
  /\ pstage = "resolve" => taken = {}

PeerInv ==
  PeerTypeOK /\ PeerStoredOnce /\ PeerTakenIsKept /\ PeerStoreBound /\ TodoApart

\* What storing for some recipients does.
LEMMA KeepsStores ==
  ASSUME PeerTypeOK, NEW S, Keeps(S)
  PROVE  /\ stored' \in [Peers -> Nat]
         /\ \A r \in Peers : stored'[r] = IF r \in S THEN stored[r] + 1 ELSE stored[r]
  BY DEF Keeps, PeerTypeOK

\* What handling one recipient for itself does, the reason for a failure apart.
EachDone(r) ==
  /\ pstage = "each" /\ r \in todo /\ todo' = todo \ {r}
  /\ \/ taken' = taken \union {r} /\ Keeps({r}) /\ wentOn' = wentOn
     \/ taken' = taken \union {r} /\ wentOn' = wentOn \union {r} /\ stored' = stored
     \/ UNCHANGED <<taken, stored, wentOn>>
  /\ UNCHANGED <<pkind, pstage, verdict, requests, broken, status, unsure>>

\* What handling one recipient does.
LEMMA EachDoes == ASSUME NEW r, DeliverEach(r) PROVE EachDone(r)
  BY Zenon DEF DeliverEach, EachDone, GoesOn

\* The types of a request's state.
LEMMA PeerTypes == PeerTypeOK /\ [PeerNext]_peerVars => PeerTypeOK'
<1> SUFFICES ASSUME PeerTypeOK, [PeerNext]_peerVars PROVE PeerTypeOK'
  OBVIOUS
<1>0. NoVerdict \in [Peers -> Verdicts]
  BY DEF NoVerdict, Verdicts
<1>1. CASE SendToPeer
  <2>1. pkind' \in [Peers -> PeerKinds] /\ pstage' \in PeerStages
    BY <1>1 DEF SendToPeer, PeerTypeOK, PeerStages
  <2>5. verdict' \in [Peers -> Verdicts]
    BY <1>0, <1>1 DEF SendToPeer, PeerTypeOK
  <2>2. todo' \in SUBSET Peers /\ taken' \in SUBSET Peers /\ wentOn' \in SUBSET Peers
    BY <1>1 DEF SendToPeer, PeerTypeOK
  <2>3. /\ requests' \in Nat /\ broken' \in Nat /\ status' \in Statuses
        /\ stored' \in [Peers -> Nat] /\ unsure' \in [Peers -> Nat]
    BY <1>1 DEF SendToPeer, PeerTypeOK, Statuses
  <2>4. putOff' \in BOOLEAN
    BY <1>1, Zenon DEF SendToPeer, PeerTypeOK
  <2> QED
    BY <2>1, <2>2, <2>3, <2>4, <2>5 DEF PeerTypeOK
<1>2. CASE ResolveAll
  <2>1. pkind' \in [Peers -> PeerKinds] /\ pstage' \in PeerStages
    BY <1>2 DEF ResolveAll, Finish, Proceed, PeerTypeOK, PeerStages
  <2>5. verdict' \in [Peers -> Verdicts]
    BY <1>0, <1>2 DEF ResolveAll, Finish, Proceed, PeerTypeOK
  <2>2. todo' \in SUBSET Peers /\ taken' \in SUBSET Peers /\ wentOn' \in SUBSET Peers
    BY <1>2 DEF ResolveAll, Finish, Proceed, PeerTypeOK
  <2>3. /\ requests' \in Nat /\ broken' \in Nat /\ status' \in Statuses
        /\ stored' \in [Peers -> Nat] /\ unsure' \in [Peers -> Nat]
    BY <1>2 DEF ResolveAll, Finish, Proceed, PeerTypeOK, Statuses
  <2>4. putOff' \in BOOLEAN
    BY <1>2, Zenon DEF ResolveAll, Finish, Proceed, PeerTypeOK
  <2> QED
    BY <2>1, <2>2, <2>3, <2>4, <2>5 DEF PeerTypeOK
<1>3. CASE AnswerEach
  <2>1. pkind' \in [Peers -> PeerKinds] /\ pstage' \in PeerStages
    BY <1>3 DEF AnswerEach, Finish, PeerTypeOK, PeerStages
  <2>5. verdict' \in [Peers -> Verdicts]
    BY <1>0, <1>3 DEF AnswerEach, Finish, PeerTypeOK
  <2>2. todo' \in SUBSET Peers /\ taken' \in SUBSET Peers /\ wentOn' \in SUBSET Peers
    BY <1>3 DEF AnswerEach, Finish, PeerTypeOK
  <2>3. /\ requests' \in Nat /\ broken' \in Nat /\ status' \in Statuses
        /\ stored' \in [Peers -> Nat] /\ unsure' \in [Peers -> Nat]
    BY <1>3 DEF AnswerEach, Finish, PeerTypeOK, Statuses
  <2>4. putOff' \in BOOLEAN
    BY <1>3, Zenon DEF AnswerEach, Finish, PeerTypeOK
  <2> QED
    BY <2>1, <2>2, <2>3, <2>4, <2>5 DEF PeerTypeOK
<1>4. CASE TakeReports
  <2>1. pkind' \in [Peers -> PeerKinds] /\ pstage' \in PeerStages
    BY <1>4 DEF TakeReports, Finish, Proceed, GoesOn, PeerTypeOK, PeerStages
  <2>5. verdict' \in [Peers -> Verdicts]
    BY <1>0, <1>4 DEF TakeReports, Finish, Proceed, GoesOn, PeerTypeOK
  <2>2. todo' \in SUBSET Peers /\ taken' \in SUBSET Peers /\ wentOn' \in SUBSET Peers
    BY <1>4 DEF TakeReports, Finish, Proceed, GoesOn, PeerTypeOK
  <2>3. /\ requests' \in Nat /\ broken' \in Nat /\ status' \in Statuses
        /\ stored' \in [Peers -> Nat] /\ unsure' \in [Peers -> Nat]
    BY <1>4 DEF TakeReports, Finish, Proceed, GoesOn, PeerTypeOK, Statuses
  <2>4. putOff' \in BOOLEAN
    BY <1>4, Zenon DEF TakeReports, Finish, Proceed, GoesOn, PeerTypeOK
  <2> QED
    BY <2>1, <2>2, <2>3, <2>4, <2>5 DEF PeerTypeOK
<1>5. CASE FilterAll
  <2>1. pkind' \in [Peers -> PeerKinds] /\ pstage' \in PeerStages
    BY <1>5 DEF FilterAll, Finish, Proceed, GoesOn, Keeps, PeerTypeOK, PeerStages
  <2>5. verdict' \in [Peers -> Verdicts]
    BY <1>0, <1>5 DEF FilterAll, Finish, Proceed, GoesOn, Keeps, PeerTypeOK
  <2>2. todo' \in SUBSET Peers /\ taken' \in SUBSET Peers /\ wentOn' \in SUBSET Peers
    BY <1>5 DEF FilterAll, Finish, Proceed, GoesOn, Keeps, PeerTypeOK
  <2>3. /\ requests' \in Nat /\ broken' \in Nat /\ status' \in Statuses
        /\ stored' \in [Peers -> Nat] /\ unsure' \in [Peers -> Nat]
    BY <1>5 DEF FilterAll, Finish, Proceed, GoesOn, Keeps, PeerTypeOK, Statuses
  <2>4. putOff' \in BOOLEAN
    BY <1>5, Zenon DEF FilterAll, Finish, Proceed, GoesOn, Keeps, PeerTypeOK
  <2> QED
    BY <2>1, <2>2, <2>3, <2>4, <2>5 DEF PeerTypeOK
<1>6. CASE RunScripts
  <2>1. pkind' \in [Peers -> PeerKinds] /\ pstage' \in PeerStages
    BY <1>6 DEF RunScripts, Finish, Proceed, PeerTypeOK, PeerStages
  <2>5. verdict' \in [Peers -> Verdicts]
    <3>1. "keep" \in Verdicts
      BY DEF Verdicts
    <3>2. CASE Finish(503)
      BY <1>0, <3>2 DEF Finish
    <3>3. ASSUME NEW v \in [todo -> Verdicts],
                 verdict' = [r \in Peers |-> IF r \in todo THEN v[r] ELSE "keep"]
          PROVE  verdict' \in [Peers -> Verdicts]
      BY <3>1, <3>3
    <3> QED
      BY <1>6, <3>2, <3>3 DEF RunScripts
  <2>2. todo' \in SUBSET Peers /\ taken' \in SUBSET Peers /\ wentOn' \in SUBSET Peers
    BY <1>6 DEF RunScripts, Finish, Proceed, PeerTypeOK
  <2>3. /\ requests' \in Nat /\ broken' \in Nat /\ status' \in Statuses
        /\ stored' \in [Peers -> Nat] /\ unsure' \in [Peers -> Nat]
    BY <1>6 DEF RunScripts, Finish, Proceed, PeerTypeOK, Statuses
  <2>4. putOff' \in BOOLEAN
    BY <1>6, Zenon DEF RunScripts, Finish, Proceed, PeerTypeOK
  <2> QED
    BY <2>1, <2>2, <2>3, <2>4, <2>5 DEF PeerTypeOK
<1>7. CASE StoreHolds
  <2>1. pkind' \in [Peers -> PeerKinds] /\ pstage' \in PeerStages
    BY <1>7 DEF StoreHolds, Finish, Proceed, Keeps, ToHold, PeerTypeOK, PeerStages
  <2>5. verdict' \in [Peers -> Verdicts]
    BY <1>0, <1>7 DEF StoreHolds, Finish, Proceed, Keeps, ToHold, PeerTypeOK
  <2>2. todo' \in SUBSET Peers /\ taken' \in SUBSET Peers /\ wentOn' \in SUBSET Peers
    BY <1>7 DEF StoreHolds, Finish, Proceed, Keeps, ToHold, PeerTypeOK
  <2>3. /\ requests' \in Nat /\ broken' \in Nat /\ status' \in Statuses
        /\ stored' \in [Peers -> Nat] /\ unsure' \in [Peers -> Nat]
    BY <1>7 DEF StoreHolds, Finish, Proceed, Keeps, ToHold, PeerTypeOK, Statuses
  <2>4. putOff' \in BOOLEAN
    BY <1>7, Zenon DEF StoreHolds, Finish, Proceed, Keeps, ToHold, PeerTypeOK
  <2> QED
    BY <2>1, <2>2, <2>3, <2>4, <2>5 DEF PeerTypeOK
<1>8. CASE AnswerStored
  <2>1. pkind' \in [Peers -> PeerKinds] /\ pstage' \in PeerStages
    BY <1>8 DEF AnswerStored, Finish, PeerTypeOK, PeerStages
  <2>5. verdict' \in [Peers -> Verdicts]
    BY <1>0, <1>8 DEF AnswerStored, Finish, PeerTypeOK
  <2>2. todo' \in SUBSET Peers /\ taken' \in SUBSET Peers /\ wentOn' \in SUBSET Peers
    BY <1>8 DEF AnswerStored, Finish, PeerTypeOK
  <2>3. /\ requests' \in Nat /\ broken' \in Nat /\ status' \in Statuses
        /\ stored' \in [Peers -> Nat] /\ unsure' \in [Peers -> Nat]
    BY <1>8 DEF AnswerStored, Finish, PeerTypeOK, Statuses
  <2>4. putOff' \in BOOLEAN
    BY <1>8, Zenon DEF AnswerStored, Finish, PeerTypeOK
  <2> QED
    BY <2>1, <2>2, <2>3, <2>4, <2>5 DEF PeerTypeOK
<1>9. CASE Break
  <2>1. pkind' \in [Peers -> PeerKinds] /\ pstage' \in PeerStages
    BY <1>9 DEF Break, PeerTypeOK, PeerStages
  <2>5. verdict' \in [Peers -> Verdicts]
    BY <1>0, <1>9 DEF Break, PeerTypeOK
  <2>2. todo' \in SUBSET Peers /\ taken' \in SUBSET Peers /\ wentOn' \in SUBSET Peers
    BY <1>9 DEF Break, PeerTypeOK
  <2>3. /\ requests' \in Nat /\ broken' \in Nat /\ status' \in Statuses
        /\ stored' \in [Peers -> Nat] /\ unsure' \in [Peers -> Nat]
    BY <1>9 DEF Break, PeerTypeOK, Statuses
  <2>4. putOff' \in BOOLEAN
    BY <1>9, Zenon DEF Break, PeerTypeOK
  <2> QED
    BY <2>1, <2>2, <2>3, <2>4, <2>5 DEF PeerTypeOK
<1>10. ASSUME NEW code \in {403, 422, 503}, RefuseRequest(code) PROVE PeerTypeOK'
  <2>1. pkind' \in [Peers -> PeerKinds] /\ pstage' \in PeerStages
    BY <1>10 DEF RefuseRequest, Finish, PeerTypeOK, PeerStages
  <2>5. verdict' \in [Peers -> Verdicts]
    BY <1>0, <1>10 DEF RefuseRequest, Finish, PeerTypeOK
  <2>2. todo' \in SUBSET Peers /\ taken' \in SUBSET Peers /\ wentOn' \in SUBSET Peers
    BY <1>10 DEF RefuseRequest, Finish, PeerTypeOK
  <2>3. /\ requests' \in Nat /\ broken' \in Nat /\ status' \in Statuses
        /\ stored' \in [Peers -> Nat] /\ unsure' \in [Peers -> Nat]
    BY <1>10 DEF RefuseRequest, Finish, PeerTypeOK, Statuses
  <2>4. putOff' \in BOOLEAN
    BY <1>10, Zenon DEF RefuseRequest, Finish, PeerTypeOK
  <2> QED
    BY <2>1, <2>2, <2>3, <2>4, <2>5 DEF PeerTypeOK
<1>11. ASSUME NEW r \in Peers, DeliverEach(r) PROVE PeerTypeOK'
  <2>1. pkind' \in [Peers -> PeerKinds] /\ pstage' \in PeerStages
    BY <1>11 DEF DeliverEach, Keeps, GoesOn, PeerTypeOK, PeerStages
  <2>5. verdict' \in [Peers -> Verdicts]
    BY <1>0, <1>11 DEF DeliverEach, Keeps, GoesOn, PeerTypeOK
  <2>2. todo' \in SUBSET Peers /\ taken' \in SUBSET Peers /\ wentOn' \in SUBSET Peers
    BY <1>11 DEF DeliverEach, Keeps, GoesOn, PeerTypeOK
  <2>3. /\ requests' \in Nat /\ broken' \in Nat /\ status' \in Statuses
        /\ stored' \in [Peers -> Nat] /\ unsure' \in [Peers -> Nat]
    <3>1. EachDone(r)
      BY <1>11, EachDoes
    <3>2. stored' \in [Peers -> Nat]
      BY <3>1, KeepsStores DEF EachDone, PeerTypeOK
    <3> QED
      BY <3>1, <3>2 DEF EachDone, PeerTypeOK
  <2>4. putOff' \in BOOLEAN
    BY <1>11, Zenon DEF DeliverEach, Keeps, GoesOn, PeerTypeOK
  <2> QED
    BY <2>1, <2>2, <2>3, <2>4, <2>5 DEF PeerTypeOK
<1>12. ASSUME NEW r \in Peers, StoreFor(r) PROVE PeerTypeOK'
  <2>1. pkind' \in [Peers -> PeerKinds] /\ pstage' \in PeerStages
    BY <1>12 DEF StoreFor, Keeps, GoesOn, PeerTypeOK, PeerStages
  <2>5. verdict' \in [Peers -> Verdicts]
    BY <1>0, <1>12 DEF StoreFor, Keeps, GoesOn, PeerTypeOK
  <2>2. todo' \in SUBSET Peers /\ taken' \in SUBSET Peers /\ wentOn' \in SUBSET Peers
    BY <1>12 DEF StoreFor, Keeps, GoesOn, PeerTypeOK
  <2>3. /\ requests' \in Nat /\ broken' \in Nat /\ status' \in Statuses
        /\ stored' \in [Peers -> Nat] /\ unsure' \in [Peers -> Nat]
    BY ZenonT(60), <1>12, KeepsStores DEF StoreFor, PeerTypeOK, Statuses
  <2>4. putOff' \in BOOLEAN
    BY <1>12, Zenon DEF StoreFor, Keeps, GoesOn, PeerTypeOK
  <2> QED
    BY <2>1, <2>2, <2>3, <2>4, <2>5 DEF PeerTypeOK
<1>13. ASSUME NEW r \in Peers, NEW k \in PeerKinds, ChangeKind(r, k) PROVE PeerTypeOK'
  <2>1. pkind' \in [Peers -> PeerKinds] /\ pstage' \in PeerStages
    BY <1>13 DEF ChangeKind, PeerTypeOK, PeerStages
  <2>5. verdict' \in [Peers -> Verdicts]
    BY <1>0, <1>13 DEF ChangeKind, PeerTypeOK
  <2>2. todo' \in SUBSET Peers /\ taken' \in SUBSET Peers /\ wentOn' \in SUBSET Peers
    BY <1>13 DEF ChangeKind, PeerTypeOK
  <2>3. /\ requests' \in Nat /\ broken' \in Nat /\ status' \in Statuses
        /\ stored' \in [Peers -> Nat] /\ unsure' \in [Peers -> Nat]
    BY <1>13 DEF ChangeKind, PeerTypeOK, Statuses
  <2>4. putOff' \in BOOLEAN
    BY <1>13, Zenon DEF ChangeKind, PeerTypeOK
  <2> QED
    BY <2>1, <2>2, <2>3, <2>4, <2>5 DEF PeerTypeOK
<1>14. CASE UNCHANGED peerVars
  <2>1. pkind' \in [Peers -> PeerKinds] /\ pstage' \in PeerStages
    BY <1>14 DEF peerVars, PeerTypeOK, PeerStages
  <2>5. verdict' \in [Peers -> Verdicts]
    BY <1>0, <1>14 DEF peerVars, PeerTypeOK
  <2>2. todo' \in SUBSET Peers /\ taken' \in SUBSET Peers /\ wentOn' \in SUBSET Peers
    BY <1>14 DEF peerVars, PeerTypeOK
  <2>3. /\ requests' \in Nat /\ broken' \in Nat /\ status' \in Statuses
        /\ stored' \in [Peers -> Nat] /\ unsure' \in [Peers -> Nat]
    BY <1>14 DEF peerVars, PeerTypeOK, Statuses
  <2>4. putOff' \in BOOLEAN
    BY <1>14, Zenon DEF peerVars, PeerTypeOK
  <2> QED
    BY <2>1, <2>2, <2>3, <2>4, <2>5 DEF PeerTypeOK
<1> QED
  BY <1>1, <1>2, <1>3, <1>4, <1>5, <1>6, <1>7, <1>8, <1>9, <1>10, <1>11, <1>12, <1>13,
     <1>14 DEF PeerNext

\* Every step of a request, and every retry of the peer, keeps the bound.
LEMMA PeerSteps == PeerInv /\ [PeerNext]_peerVars => PeerInv'
<1> SUFFICES ASSUME PeerInv, [PeerNext]_peerVars PROVE PeerInv'
  OBVIOUS
<1>0. PeerTypeOK /\ PeerStoredOnce /\ PeerTakenIsKept /\ PeerStoreBound /\ TodoApart /\ PeerTypeOK'
  BY PeerTypes DEF PeerInv
<1>1. CASE SendToPeer
  <2>1. PeerStoredOnce' /\ PeerStoreBound'
    BY <1>0, <1>1 DEF SendToPeer, PeerTypeOK, PeerStoredOnce, PeerStoreBound,
       MayStoreFor, TodoApart
  <2>2. PeerTakenIsKept' /\ TodoApart'
    BY <1>0, <1>1 DEF SendToPeer, PeerTypeOK, PeerTakenIsKept, TodoApart
  <2> QED
    BY <1>0, <2>1, <2>2 DEF PeerInv
<1>2. CASE ResolveAll
  <2>1. PeerStoredOnce' /\ PeerStoreBound'
    BY <1>0, <1>2 DEF ResolveAll, Finish, Proceed, PeerTypeOK, PeerStoredOnce,
       PeerStoreBound, MayStoreFor, TodoApart
  <2>2. PeerTakenIsKept' /\ TodoApart'
    BY <1>0, <1>2 DEF ResolveAll, Finish, Proceed, PeerTypeOK, PeerTakenIsKept,
       TodoApart
  <2> QED
    BY <1>0, <2>1, <2>2 DEF PeerInv
<1>3. CASE AnswerEach
  <2>1. PeerStoredOnce' /\ PeerStoreBound'
    BY <1>0, <1>3 DEF AnswerEach, Finish, PeerTypeOK, PeerStoredOnce, PeerStoreBound,
       MayStoreFor, TodoApart
  <2>2. PeerTakenIsKept' /\ TodoApart'
    BY <1>0, <1>3 DEF AnswerEach, Finish, PeerTypeOK, PeerTakenIsKept, TodoApart
  <2> QED
    BY <1>0, <2>1, <2>2 DEF PeerInv
<1>4. CASE TakeReports
  <2>1. PeerStoredOnce' /\ PeerStoreBound'
    BY <1>0, <1>4 DEF TakeReports, Finish, Proceed, GoesOn, PeerTypeOK,
       PeerStoredOnce, PeerStoreBound, MayStoreFor, TodoApart
  <2>2. PeerTakenIsKept' /\ TodoApart'
    BY <1>0, <1>4 DEF TakeReports, Finish, Proceed, GoesOn, PeerTypeOK,
       PeerTakenIsKept, TodoApart
  <2> QED
    BY <1>0, <2>1, <2>2 DEF PeerInv
<1>5. CASE FilterAll
  <2>1. PeerStoredOnce' /\ PeerStoreBound'
    BY <1>0, <1>5 DEF FilterAll, Finish, Proceed, GoesOn, Keeps, PeerTypeOK,
       PeerStoredOnce, PeerStoreBound, MayStoreFor, TodoApart
  <2>2. PeerTakenIsKept' /\ TodoApart'
    BY <1>0, <1>5 DEF FilterAll, Finish, Proceed, GoesOn, Keeps, PeerTypeOK,
       PeerTakenIsKept, TodoApart
  <2> QED
    BY <1>0, <2>1, <2>2 DEF PeerInv
<1>6. CASE RunScripts
  <2>1. PeerStoredOnce' /\ PeerStoreBound'
    BY <1>0, <1>6 DEF RunScripts, Finish, Proceed, PeerTypeOK, PeerStoredOnce,
       PeerStoreBound, MayStoreFor, TodoApart
  <2>2. PeerTakenIsKept' /\ TodoApart'
    BY <1>0, <1>6 DEF RunScripts, Finish, Proceed, PeerTypeOK, PeerTakenIsKept,
       TodoApart
  <2> QED
    BY <1>0, <2>1, <2>2 DEF PeerInv
<1>7. CASE StoreHolds
  <2>1. PeerStoredOnce' /\ PeerStoreBound'
    BY <1>0, <1>7 DEF StoreHolds, Finish, Proceed, Keeps, ToHold, PeerTypeOK,
       PeerStoredOnce, PeerStoreBound, MayStoreFor, TodoApart
  <2>2. PeerTakenIsKept' /\ TodoApart'
    BY <1>0, <1>7 DEF StoreHolds, Finish, Proceed, Keeps, ToHold, PeerTypeOK,
       PeerTakenIsKept, TodoApart
  <2> QED
    BY <1>0, <2>1, <2>2 DEF PeerInv
<1>8. CASE AnswerStored
  <2>1. PeerStoredOnce' /\ PeerStoreBound'
    BY <1>0, <1>8 DEF AnswerStored, Finish, PeerTypeOK, PeerStoredOnce,
       PeerStoreBound, MayStoreFor, TodoApart
  <2>2. PeerTakenIsKept' /\ TodoApart'
    BY <1>0, <1>8 DEF AnswerStored, Finish, PeerTypeOK, PeerTakenIsKept, TodoApart
  <2> QED
    BY <1>0, <2>1, <2>2 DEF PeerInv
<1>9. CASE Break
  <2>1. PeerStoredOnce' /\ PeerStoreBound'
    BY <1>0, <1>9 DEF Break, PeerTypeOK, PeerStoredOnce, PeerStoreBound, MayStoreFor,
       TodoApart
  <2>2. PeerTakenIsKept' /\ TodoApart'
    BY <1>0, <1>9 DEF Break, PeerTypeOK, PeerTakenIsKept, TodoApart
  <2> QED
    BY <1>0, <2>1, <2>2 DEF PeerInv
<1>10. ASSUME NEW code \in {403, 422, 503}, RefuseRequest(code) PROVE PeerInv'
  <2>1. PeerStoredOnce' /\ PeerStoreBound'
    BY <1>0, <1>10 DEF RefuseRequest, Finish, PeerTypeOK, PeerStoredOnce,
       PeerStoreBound, MayStoreFor, TodoApart
  <2>2. PeerTakenIsKept' /\ TodoApart'
    BY <1>0, <1>10 DEF RefuseRequest, Finish, PeerTypeOK, PeerTakenIsKept, TodoApart
  <2> QED
    BY <1>0, <2>1, <2>2 DEF PeerInv
<1>11. ASSUME NEW r \in Peers, DeliverEach(r) PROVE PeerInv'
  <2>1. EachDone(r)
    BY <1>11, EachDoes
  <2>2. CASE stored' = stored
    <3>1. PeerStoredOnce' /\ PeerStoreBound'
      BY <1>0, <2>1, <2>2 DEF EachDone, PeerTypeOK, PeerStoredOnce, PeerStoreBound,
         MayStoreFor, TodoApart
    <3>3. ~Keeps({r})
      BY <1>0, <2>2, KeepsStores DEF PeerTypeOK
    <3>2. PeerTakenIsKept' /\ TodoApart'
      BY <1>0, <2>1, <2>2, <3>3 DEF EachDone, PeerTypeOK, PeerTakenIsKept, TodoApart
    <3> QED
      BY <1>0, <3>1, <3>2 DEF PeerInv
  <2>3. CASE Keeps({r}) /\ taken' = taken \union {r} /\ wentOn' = wentOn
    <3>0. stored'[r] = stored[r] + 1 /\ \A x \in Peers \ {r} : stored'[x] = stored[x]
      BY <1>0, <2>3, KeepsStores
    <3>1. PeerStoredOnce' /\ PeerStoreBound'
      BY <1>0, <2>1, <2>3, <3>0 DEF EachDone, PeerTypeOK, PeerStoredOnce,
         PeerStoreBound, MayStoreFor, TodoApart
    <3>2. PeerTakenIsKept' /\ TodoApart'
      BY <1>0, <2>1, <2>3, <3>0 DEF EachDone, PeerTypeOK, PeerTakenIsKept, TodoApart
    <3> QED
      BY <1>0, <3>1, <3>2 DEF PeerInv
  <2> QED
    BY <2>1, <2>2, <2>3 DEF EachDone
<1>12. ASSUME NEW r \in Peers, StoreFor(r) PROVE PeerInv'
  <2>1. CASE stored' = stored
    <3>1. PeerStoredOnce' /\ PeerStoreBound'
      BY <1>0, <1>12, <2>1 DEF StoreFor, GoesOn, PeerTypeOK, PeerStoredOnce,
         PeerStoreBound, MayStoreFor, TodoApart
    <3>3. ~Keeps({r})
      BY <1>0, <2>1, KeepsStores DEF PeerTypeOK
    <3>2. PeerTakenIsKept' /\ TodoApart'
      BY <1>0, <1>12, <2>1, <3>3 DEF StoreFor, GoesOn, PeerTypeOK, PeerTakenIsKept,
         TodoApart
    <3> QED
      BY <1>0, <3>1, <3>2 DEF PeerInv
  <2>2. CASE Keeps({r}) /\ taken' = taken \union {r} /\ wentOn \subseteq wentOn'
    <3>0. stored'[r] = stored[r] + 1 /\ \A x \in Peers \ {r} : stored'[x] = stored[x]
      BY <1>0, <2>2, KeepsStores
    <3>3. verdict[r] # "hold" \/ stored' = stored
      BY <1>12 DEF StoreFor
    <3>4. /\ pstage = "store" /\ r \in todo /\ todo' = todo \ {r}
          /\ UNCHANGED <<pstage, verdict, status, unsure>>
      BY <1>12 DEF StoreFor
    <3>1. PeerStoredOnce' /\ PeerStoreBound'
      BY <1>0, <3>0, <3>3, <3>4 DEF PeerTypeOK, PeerStoredOnce, PeerStoreBound,
         MayStoreFor
    <3>2. PeerTakenIsKept' /\ TodoApart'
      BY <1>0, <2>2, <3>0, <3>4 DEF PeerTypeOK, PeerTakenIsKept, TodoApart
    <3> QED
      BY <1>0, <3>1, <3>2 DEF PeerInv
  <2> QED
    BY <1>12, <2>1, <2>2 DEF StoreFor, GoesOn
<1>13. ASSUME NEW r \in Peers, NEW k \in PeerKinds, ChangeKind(r, k) PROVE PeerInv'
  <2>1. PeerStoredOnce' /\ PeerStoreBound'
    BY <1>0, <1>13 DEF ChangeKind, PeerTypeOK, PeerStoredOnce, PeerStoreBound,
       MayStoreFor, TodoApart
  <2>2. PeerTakenIsKept' /\ TodoApart'
    BY <1>0, <1>13 DEF ChangeKind, PeerTypeOK, PeerTakenIsKept, TodoApart
  <2> QED
    BY <1>0, <2>1, <2>2 DEF PeerInv
<1>14. CASE UNCHANGED peerVars
  <2>1. PeerStoredOnce' /\ PeerStoreBound'
    BY <1>0, <1>14 DEF peerVars, PeerTypeOK, PeerStoredOnce, PeerStoreBound,
       MayStoreFor, TodoApart
  <2>2. PeerTakenIsKept' /\ TodoApart'
    BY <1>0, <1>14 DEF peerVars, PeerTypeOK, PeerTakenIsKept, TodoApart
  <2> QED
    BY <1>0, <2>1, <2>2 DEF PeerInv
<1> QED
  BY <1>1, <1>2, <1>3, <1>4, <1>5, <1>6, <1>7, <1>8, <1>9, <1>10, <1>11, <1>12, <1>13,
     <1>14 DEF PeerNext

\* PeerInv holds in every reachable state.
THEOREM PeerSafe == PeerSpec => []PeerInv
<1>1. PeerInit => PeerInv
  <2> SUFFICES ASSUME PeerInit PROVE PeerInv
    OBVIOUS
  <2>1. putOff \in BOOLEAN
    BY Zenon DEF PeerInit
  <2>2. PeerTypeOK
    BY <2>1 DEF PeerInit, PeerTypeOK, PeerStages, Statuses, Verdicts, NoVerdict
  <2> QED
    BY <2>2 DEF PeerInit, PeerInv, PeerStoredOnce, PeerTakenIsKept, PeerStoreBound,
       MayStoreFor, TodoApart
<1>2. PeerInv /\ [PeerNext]_peerVars => PeerInv'
  BY PeerSteps
<1> QED
  BY <1>1, <1>2, PTL DEF PeerSpec

\* For any set of recipients and any number of retries, a recipient gets a second copy
\* only from a request that broke off, and one the answer names has the message.
THEOREM PeersKeptOnce == PeerSpec => []PeerKeptOnce
<1>1. PeerInv => PeerKeptOnce
  BY DEF PeerInv, PeerKeptOnce
<1> QED
  BY <1>1, PeerSafe, PTL
-----------------------------------------------------------------------------
(* Mail over SMTP *)

\* Requests for r that nobody waits for.
LateFor(r) == {c \in late : c.to = r}

\* What was stored or queued for r, or may be by a request nobody waits for.
Spent(r) == copies[r] + relayed[r] + Cardinality(LateFor(r))

\* The session, or one the sender opens again, may still deliver to r.
MayCommit(r) == IF stage = "closed" THEN InDoubt ELSE r \notin accepted

SpendBound ==
  \A r \in Rcpts : /\ Spent(r) <= 1 + repeated[r] + lostFor[r]
                   /\ MayCommit(r) => Spent(r) <= repeated[r] + lostFor[r]

\* A session handles the recipients of its envelope in their order, and an answer that
\* has the message sent again was given for nobody.
HandledOnce ==
  /\ accepted # {} => stage \in {"handle", "answered"}
  /\ stage = "lookup" => at \in DOMAIN rcptTo
  /\ stage = "handle" => /\ at >= 1
                         /\ \A r \in accepted : \E i \in DOMAIN rcptTo : i < at /\ rcptTo[i] = r
  /\ call # NoCall => stage = "handle" /\ at \in DOMAIN rcptTo /\ call.to = rcptTo[at]
  /\ stage \in {"open", "mail", "lookup", "handle"} => InDoubt
  /\ stage = "answered" /\ InDoubt => accepted = {}
  /\ failCode \in {451, 452, 550}

InboundInv ==
  /\ InboundTypeOK /\ IsFiniteSet(late)
  /\ HandledOnce /\ SpendBound /\ NeverRelays /\ AcceptedIsKept

\* What a step of a delivery request does: a copy is kept with its last step only.
LEMMA DeliverStepDoes ==
  ASSUME InboundTypeOK, NEW c, c.to \in Rcpts, NEW out \in Results, DeliverStep(c, out)
  PROVE  /\ relayed' = relayed
         /\ \/ copies' = copies
            \/ out.code = 200 /\ copies' = [copies EXCEPT ![c.to] = copies[c.to] + 1]
         /\ gone' = gone \/ gone' = gone \union {c.to}
         /\ out.code = 200 => copies'[c.to] > 0 \/ c.to \in gone'
<1>1. \A d : Steps(d).code = 0 /\ Ok.code = 200 /\ Refusal(d).code = d /\ AliasRefusal.code = 550
  BY DEF Steps, Ok, Refusal, AliasRefusal
<1>2. CASE Resolve(c.to, out)
  BY <1>1, <1>2 DEF Resolve, placed
<1>3. CASE ForwardAlias(c.to, out)
  BY <1>1, <1>3 DEF ForwardAlias, SendOn, placed
<1>4. CASE RunPipeline(c.to, out)
  BY SMTT(30), <1>1, <1>4 DEF RunPipeline, Redirect, SendOn, KeepCopy, Add, placed,
     InboundTypeOK
<1>5. CASE Store(c.to, out)
  BY <1>1, <1>5 DEF Store, KeepCopy, Add, placed, InboundTypeOK
<1> QED
  BY <1>2, <1>3, <1>4, <1>5 DEF DeliverStep

\* The answers of the API and what the session makes of them.
LEMMA ResultsMean ==
  ASSUME NEW out \in Results
  PROVE  /\ out.code = 0 => out.next \in CallSteps
         /\ FailCodeOf(out) \in {451, 452, 550}
         /\ out.code = 200 => out = Ok
<1>1. CASE out = Ok
  BY <1>1 DEF Ok, FailCodeOf
<1>2. CASE out = AliasRefusal
  BY <1>2 DEF AliasRefusal, FailCodeOf
<1>3. CASE \E c \in {404, 422, 451, 500, 550} : out = Refusal(c)
  BY <1>3 DEF Refusal, FailCodeOf
<1>4. CASE \E d \in CallSteps : out = Steps(d)
  BY <1>4 DEF Steps, FailCodeOf
<1> QED
  BY <1>1, <1>2, <1>3, <1>4 DEF Results

\* One more element makes a set larger by one at most.
LEMMA AtMostOneMore ==
  ASSUME NEW S, IsFiniteSet(S), NEW x
  PROVE  Cardinality(S \union {x}) <= Cardinality(S) + 1
<1>1. Cardinality(S) \in Nat
  BY FS_CardinalityType
<1>2. CASE x \in S
  <2>1. S \union {x} = S
    BY <1>2
  <2> QED
    BY <1>1, <2>1
<1>3. CASE x \notin S
  <2>1. Cardinality(S \union {x}) = Cardinality(S) + 1
    BY <1>3, FS_AddElement
  <2> QED
    BY <1>1, <2>1
<1> QED
  BY <1>2, <1>3

\* Giving up on one request adds at most one to those for its recipient.
LEMMA LateGrows ==
  ASSUME IsFiniteSet(late), NEW x, late' = late \union {x}, NEW r
  PROVE  /\ IsFiniteSet(late') /\ Cardinality(LateFor(r)) \in Nat /\ Cardinality(LateFor(r)') \in Nat
         /\ Cardinality(LateFor(r)') <= Cardinality(LateFor(r)) + (IF x.to = r THEN 1 ELSE 0)
<1>1. IsFiniteSet(late')
  BY FS_AddElement
<1>2. IsFiniteSet(LateFor(r)) /\ IsFiniteSet(LateFor(r)')
  BY <1>1, FS_Subset DEF LateFor
<1>3. Cardinality(LateFor(r)) \in Nat /\ Cardinality(LateFor(r)') \in Nat
  BY <1>2, FS_CardinalityType
<1>4. CASE x.to = r
  <2>1. LateFor(r)' = LateFor(r) \union {x}
    BY <1>4 DEF LateFor
  <2>2. Cardinality(LateFor(r) \union {x}) <= Cardinality(LateFor(r)) + 1
    BY <1>2, <1>3, AtMostOneMore
  <2> QED
    BY <1>1, <1>3, <1>4, <2>1, <2>2
<1>5. CASE x.to # r
  <2>1. LateFor(r)' = LateFor(r)
    BY <1>5 DEF LateFor
  <2> QED
    BY <1>1, <1>3, <1>5, <2>1
<1> QED
  BY <1>4, <1>5

\* A request nobody waits for goes on, or ends and is no longer counted.
LEMMA LateMoves ==
  ASSUME IsFiniteSet(late), NEW c \in late, NEW X, X = {} \/ \E d : X = {d} /\ d.to = c.to,
         late' = (late \ {c}) \union X, NEW r
  PROVE  /\ IsFiniteSet(late') /\ Cardinality(LateFor(r)) \in Nat /\ Cardinality(LateFor(r)') \in Nat
         /\ Cardinality(LateFor(r)') <= Cardinality(LateFor(r))
         /\ c.to = r /\ X = {} => Cardinality(LateFor(r)') <= Cardinality(LateFor(r)) - 1
<1>1. IsFiniteSet(late') /\ IsFiniteSet(late \ {c})
  BY FS_AddElement, FS_RemoveElement
<1>2. IsFiniteSet(LateFor(r)) /\ IsFiniteSet(LateFor(r)') /\ IsFiniteSet(LateFor(r) \ {c})
  BY <1>1, FS_Subset DEF LateFor
<1>3. /\ Cardinality(LateFor(r)) \in Nat /\ Cardinality(LateFor(r)') \in Nat
      /\ Cardinality(LateFor(r) \ {c}) \in Nat
  BY <1>2, FS_CardinalityType
<1>4. CASE c.to # r
  <2>1. LateFor(r)' = LateFor(r)
    BY <1>4 DEF LateFor
  <2> QED
    BY <1>1, <1>3, <1>4, <2>1
<1>5. CASE c.to = r
  <2>1. Cardinality(LateFor(r) \ {c}) = Cardinality(LateFor(r)) - 1
    BY <1>2, <1>5, FS_RemoveElement DEF LateFor
  <2>2. CASE X = {}
    <3>1. LateFor(r)' = LateFor(r) \ {c}
      BY <2>2 DEF LateFor
    <3> QED
      BY <1>1, <1>3, <2>1, <3>1
  <2>3. ASSUME NEW d, X = {d}, d.to = c.to
        PROVE  Cardinality(LateFor(r)') <= Cardinality(LateFor(r)) /\ X # {}
    <3>1. LateFor(r)' = (LateFor(r) \ {c}) \union {d}
      BY <1>5, <2>3 DEF LateFor
    <3>2. Cardinality((LateFor(r) \ {c}) \union {d}) <= Cardinality(LateFor(r) \ {c}) + 1
      BY <1>2, <1>3, AtMostOneMore
    <3> QED
      BY <1>3, <2>1, <2>3, <3>1, <3>2
  <2> QED
    BY <1>1, <1>3, <2>2, <2>3
<1> QED
  BY <1>4, <1>5

\* The count of repetitions stays a count when a recipient is accepted or not.
LEMMA RepeatType ==
  ASSUME InboundTypeOK, NEW r \in Rcpts,
         \/ repeated' = IF NamedBefore(r) THEN Add(repeated, r) ELSE repeated
         \/ repeated' = repeated
  PROVE  repeated' \in [Rcpts -> Nat]
<1>1. repeated \in [Rcpts -> Nat]
  BY DEF InboundTypeOK
<1>2. repeated' = repeated \/ repeated' = [repeated EXCEPT ![r] = repeated[r] + 1]
  BY <1>1 DEF Add
<1> QED
  BY <1>1, <1>2

\* The types of a session's state.
LEMMA InboundTypes ==
  ASSUME InboundTypeOK, HandledOnce, [InboundNext]_inbound
  PROVE  InboundTypeOK'
<1>0. AllAbsent \in [Rcpts -> {"local", "absent", "error"}]
  BY DEF AllAbsent
<1>1. CASE Connect
  <2>1. submits' \in BOOLEAN /\ signedIn' \in BOOLEAN /\ aliasFailure' \in BOOLEAN
    BY <1>1, Zenon DEF Connect, InboundTypeOK
  <2>2. /\ kind' \in [Rcpts -> Kinds] /\ moves' \in Nat /\ arrivals' \in Nat
        /\ stage' \in Stages /\ prepared' \in {"no", "yes", "failed"}
    BY <1>1 DEF Connect, InboundTypeOK, Stages, Kinds
  <2>3. answer' \in Codes \union {0} /\ failCode' \in Codes
    BY <1>1 DEF Connect, InboundTypeOK, Codes
  <2>4. seenKind' \in [Rcpts -> {"local", "absent", "error"}]
    BY <1>1, <1>0 DEF Connect, InboundTypeOK
  <2>5. rcptTo' \in Seq(Rcpts) /\ at' \in Nat /\ accepted' \in SUBSET Rcpts
    BY <1>1 DEF Connect, InboundTypeOK
  <2>6. /\ call' \in [to : Rcpts, step : CallSteps] \union {NoCall}
        /\ late' \in SUBSET [to : Rcpts, step : CallSteps, arrival : Nat, place : Nat]
    BY <1>1 DEF Connect, InboundTypeOK, CallSteps
  <2>7. /\ copies' \in [Rcpts -> Nat] /\ relayed' \in [Rcpts -> Nat] /\ lostFor' \in [Rcpts -> Nat]
        /\ gone' \in SUBSET Rcpts /\ repeated' \in [Rcpts -> Nat]
    BY <1>1 DEF Connect, InboundTypeOK, placed
  <2> QED
    BY <2>1, <2>2, <2>3, <2>4, <2>5, <2>6, <2>7 DEF InboundTypeOK
<1>2. CASE Login
  <2>1. submits' \in BOOLEAN /\ signedIn' \in BOOLEAN /\ aliasFailure' \in BOOLEAN
    BY <1>2, Zenon DEF Login, InboundTypeOK
  <2>2. /\ kind' \in [Rcpts -> Kinds] /\ moves' \in Nat /\ arrivals' \in Nat
        /\ stage' \in Stages /\ prepared' \in {"no", "yes", "failed"}
    BY <1>2 DEF Login, InboundTypeOK, Stages, Kinds
  <2>3. answer' \in Codes \union {0} /\ failCode' \in Codes
    BY <1>2 DEF Login, InboundTypeOK, Codes
  <2>4. seenKind' \in [Rcpts -> {"local", "absent", "error"}]
    BY <1>2, <1>0 DEF Login, InboundTypeOK
  <2>5. rcptTo' \in Seq(Rcpts) /\ at' \in Nat /\ accepted' \in SUBSET Rcpts
    BY <1>2 DEF Login, InboundTypeOK
  <2>6. /\ call' \in [to : Rcpts, step : CallSteps] \union {NoCall}
        /\ late' \in SUBSET [to : Rcpts, step : CallSteps, arrival : Nat, place : Nat]
    BY <1>2 DEF Login, InboundTypeOK, CallSteps
  <2>7. /\ copies' \in [Rcpts -> Nat] /\ relayed' \in [Rcpts -> Nat] /\ lostFor' \in [Rcpts -> Nat]
        /\ gone' \in SUBSET Rcpts /\ repeated' \in [Rcpts -> Nat]
    BY <1>2 DEF Login, InboundTypeOK, placed
  <2> QED
    BY <2>1, <2>2, <2>3, <2>4, <2>5, <2>6, <2>7 DEF InboundTypeOK
<1>3. CASE Mail
  <2>1. submits' \in BOOLEAN /\ signedIn' \in BOOLEAN /\ aliasFailure' \in BOOLEAN
    BY <1>3, Zenon DEF Mail, InboundTypeOK
  <2>2. /\ kind' \in [Rcpts -> Kinds] /\ moves' \in Nat /\ arrivals' \in Nat
        /\ stage' \in Stages /\ prepared' \in {"no", "yes", "failed"}
    BY <1>3 DEF Mail, InboundTypeOK, Stages, Kinds
  <2>3. answer' \in Codes \union {0} /\ failCode' \in Codes
    BY <1>3 DEF Mail, InboundTypeOK, Codes
  <2>4. seenKind' \in [Rcpts -> {"local", "absent", "error"}]
    BY <1>3, <1>0 DEF Mail, InboundTypeOK
  <2>5. rcptTo' \in Seq(Rcpts) /\ at' \in Nat /\ accepted' \in SUBSET Rcpts
    <3>1. (rcptTo' = <<>> \/ rcptTo' = rcptTo) /\ at' = at /\ accepted' = accepted
      BY <1>3, Zenon DEF Mail
    <3>2. <<>> \in Seq(Rcpts)
      OBVIOUS
    <3>3. rcptTo \in Seq(Rcpts) /\ at \in Nat /\ accepted \in SUBSET Rcpts
      BY DEF InboundTypeOK
    <3> QED
      BY <3>1, <3>2, <3>3
  <2>6. /\ call' \in [to : Rcpts, step : CallSteps] \union {NoCall}
        /\ late' \in SUBSET [to : Rcpts, step : CallSteps, arrival : Nat, place : Nat]
    BY <1>3 DEF Mail, InboundTypeOK, CallSteps
  <2>7. /\ copies' \in [Rcpts -> Nat] /\ relayed' \in [Rcpts -> Nat] /\ lostFor' \in [Rcpts -> Nat]
        /\ gone' \in SUBSET Rcpts /\ repeated' \in [Rcpts -> Nat]
    BY <1>3 DEF Mail, InboundTypeOK, placed
  <2> QED
    BY <2>1, <2>2, <2>3, <2>4, <2>5, <2>6, <2>7 DEF InboundTypeOK
<1>4. CASE Reset
  <2>1. submits' \in BOOLEAN /\ signedIn' \in BOOLEAN /\ aliasFailure' \in BOOLEAN
    BY <1>4, Zenon DEF Reset, InboundTypeOK
  <2>2. /\ kind' \in [Rcpts -> Kinds] /\ moves' \in Nat /\ arrivals' \in Nat
        /\ stage' \in Stages /\ prepared' \in {"no", "yes", "failed"}
    BY <1>4 DEF Reset, InboundTypeOK, Stages, Kinds
  <2>3. answer' \in Codes \union {0} /\ failCode' \in Codes
    BY <1>4 DEF Reset, InboundTypeOK, Codes
  <2>4. seenKind' \in [Rcpts -> {"local", "absent", "error"}]
    BY <1>4, <1>0 DEF Reset, InboundTypeOK
  <2>5. rcptTo' \in Seq(Rcpts) /\ at' \in Nat /\ accepted' \in SUBSET Rcpts
    BY <1>4 DEF Reset, InboundTypeOK
  <2>6. /\ call' \in [to : Rcpts, step : CallSteps] \union {NoCall}
        /\ late' \in SUBSET [to : Rcpts, step : CallSteps, arrival : Nat, place : Nat]
    BY <1>4 DEF Reset, InboundTypeOK, CallSteps
  <2>7. /\ copies' \in [Rcpts -> Nat] /\ relayed' \in [Rcpts -> Nat] /\ lostFor' \in [Rcpts -> Nat]
        /\ gone' \in SUBSET Rcpts /\ repeated' \in [Rcpts -> Nat]
    BY <1>4 DEF Reset, InboundTypeOK, placed
  <2> QED
    BY <2>1, <2>2, <2>3, <2>4, <2>5, <2>6, <2>7 DEF InboundTypeOK
<1>5. CASE Data
  <2>1. submits' \in BOOLEAN /\ signedIn' \in BOOLEAN /\ aliasFailure' \in BOOLEAN
    BY <1>5, Zenon DEF Data, InboundTypeOK
  <2>2. /\ kind' \in [Rcpts -> Kinds] /\ moves' \in Nat /\ arrivals' \in Nat
        /\ stage' \in Stages /\ prepared' \in {"no", "yes", "failed"}
    BY <1>5 DEF Data, InboundTypeOK, Stages, Kinds
  <2>3. answer' \in Codes \union {0} /\ failCode' \in Codes
    BY <1>5 DEF Data, InboundTypeOK, Codes
  <2>4. seenKind' \in [Rcpts -> {"local", "absent", "error"}]
    BY <1>5, <1>0 DEF Data, InboundTypeOK
  <2>5. rcptTo' \in Seq(Rcpts) /\ at' \in Nat /\ accepted' \in SUBSET Rcpts
    BY <1>5 DEF Data, InboundTypeOK
  <2>6. /\ call' \in [to : Rcpts, step : CallSteps] \union {NoCall}
        /\ late' \in SUBSET [to : Rcpts, step : CallSteps, arrival : Nat, place : Nat]
    BY <1>5 DEF Data, InboundTypeOK, CallSteps
  <2>7. /\ copies' \in [Rcpts -> Nat] /\ relayed' \in [Rcpts -> Nat] /\ lostFor' \in [Rcpts -> Nat]
        /\ gone' \in SUBSET Rcpts /\ repeated' \in [Rcpts -> Nat]
    BY <1>5 DEF Data, InboundTypeOK, placed
  <2> QED
    BY <2>1, <2>2, <2>3, <2>4, <2>5, <2>6, <2>7 DEF InboundTypeOK
<1>6. CASE Quit
  <2>1. submits' \in BOOLEAN /\ signedIn' \in BOOLEAN /\ aliasFailure' \in BOOLEAN
    BY <1>6, Zenon DEF Quit, InboundTypeOK
  <2>2. /\ kind' \in [Rcpts -> Kinds] /\ moves' \in Nat /\ arrivals' \in Nat
        /\ stage' \in Stages /\ prepared' \in {"no", "yes", "failed"}
    BY <1>6 DEF Quit, InboundTypeOK, Stages, Kinds
  <2>3. answer' \in Codes \union {0} /\ failCode' \in Codes
    BY <1>6 DEF Quit, InboundTypeOK, Codes
  <2>4. seenKind' \in [Rcpts -> {"local", "absent", "error"}]
    BY <1>6, <1>0 DEF Quit, InboundTypeOK
  <2>5. rcptTo' \in Seq(Rcpts) /\ at' \in Nat /\ accepted' \in SUBSET Rcpts
    BY <1>6 DEF Quit, InboundTypeOK
  <2>6. /\ call' \in [to : Rcpts, step : CallSteps] \union {NoCall}
        /\ late' \in SUBSET [to : Rcpts, step : CallSteps, arrival : Nat, place : Nat]
    BY <1>6 DEF Quit, InboundTypeOK, CallSteps
  <2>7. /\ copies' \in [Rcpts -> Nat] /\ relayed' \in [Rcpts -> Nat] /\ lostFor' \in [Rcpts -> Nat]
        /\ gone' \in SUBSET Rcpts /\ repeated' \in [Rcpts -> Nat]
    BY <1>6 DEF Quit, InboundTypeOK, placed
  <2> QED
    BY <2>1, <2>2, <2>3, <2>4, <2>5, <2>6, <2>7 DEF InboundTypeOK
<1>7. ASSUME NEW r \in Rcpts, Rcpt(r) PROVE InboundTypeOK'
  <2>1. submits' \in BOOLEAN /\ signedIn' \in BOOLEAN /\ aliasFailure' \in BOOLEAN
    BY <1>7, Zenon DEF Rcpt, InboundTypeOK
  <2>2. /\ kind' \in [Rcpts -> Kinds] /\ moves' \in Nat /\ arrivals' \in Nat
        /\ stage' \in Stages /\ prepared' \in {"no", "yes", "failed"}
    BY <1>7 DEF Rcpt, InboundTypeOK, Stages, Kinds
  <2>3. answer' \in Codes \union {0} /\ failCode' \in Codes
    BY <1>7 DEF Rcpt, InboundTypeOK, Codes
  <2>4. seenKind' \in [Rcpts -> {"local", "absent", "error"}]
    BY <1>7, <1>0 DEF Rcpt, InboundTypeOK
  <2>5. rcptTo' \in Seq(Rcpts) /\ at' \in Nat /\ accepted' \in SUBSET Rcpts
    BY <1>7 DEF Rcpt, InboundTypeOK
  <2>6. /\ call' \in [to : Rcpts, step : CallSteps] \union {NoCall}
        /\ late' \in SUBSET [to : Rcpts, step : CallSteps, arrival : Nat, place : Nat]
    BY <1>7 DEF Rcpt, InboundTypeOK, CallSteps
  <2>7. /\ copies' \in [Rcpts -> Nat] /\ relayed' \in [Rcpts -> Nat] /\ lostFor' \in [Rcpts -> Nat]
        /\ gone' \in SUBSET Rcpts /\ repeated' \in [Rcpts -> Nat]
    BY <1>7 DEF Rcpt, InboundTypeOK, placed
  <2> QED
    BY <2>1, <2>2, <2>3, <2>4, <2>5, <2>6, <2>7 DEF InboundTypeOK
<1>8. ASSUME NEW r \in Rcpts, NEW k \in Kinds, Move(r, k) PROVE InboundTypeOK'
  <2>1. submits' \in BOOLEAN /\ signedIn' \in BOOLEAN /\ aliasFailure' \in BOOLEAN
    BY <1>8, Zenon DEF Move, session, InboundTypeOK
  <2>2. /\ kind' \in [Rcpts -> Kinds] /\ moves' \in Nat /\ arrivals' \in Nat
        /\ stage' \in Stages /\ prepared' \in {"no", "yes", "failed"}
    BY <1>8 DEF Move, session, InboundTypeOK, Stages, Kinds
  <2>3. answer' \in Codes \union {0} /\ failCode' \in Codes
    BY <1>8 DEF Move, session, InboundTypeOK, Codes
  <2>4. seenKind' \in [Rcpts -> {"local", "absent", "error"}]
    BY <1>8, <1>0 DEF Move, session, InboundTypeOK
  <2>5. rcptTo' \in Seq(Rcpts) /\ at' \in Nat /\ accepted' \in SUBSET Rcpts
    BY <1>8 DEF Move, session, InboundTypeOK
  <2>6. /\ call' \in [to : Rcpts, step : CallSteps] \union {NoCall}
        /\ late' \in SUBSET [to : Rcpts, step : CallSteps, arrival : Nat, place : Nat]
    BY <1>8 DEF Move, session, InboundTypeOK, CallSteps
  <2>7. /\ copies' \in [Rcpts -> Nat] /\ relayed' \in [Rcpts -> Nat] /\ lostFor' \in [Rcpts -> Nat]
        /\ gone' \in SUBSET Rcpts /\ repeated' \in [Rcpts -> Nat]
    BY <1>8 DEF Move, session, InboundTypeOK, placed
  <2> QED
    BY <2>1, <2>2, <2>3, <2>4, <2>5, <2>6, <2>7 DEF InboundTypeOK
<1>9. ASSUME NEW code \in {451, 550, 554}, RefuseData(code) PROVE InboundTypeOK'
  <2>1. submits' \in BOOLEAN /\ signedIn' \in BOOLEAN /\ aliasFailure' \in BOOLEAN
    BY <1>9, Zenon DEF RefuseData, InboundTypeOK
  <2>2. /\ kind' \in [Rcpts -> Kinds] /\ moves' \in Nat /\ arrivals' \in Nat
        /\ stage' \in Stages /\ prepared' \in {"no", "yes", "failed"}
    BY <1>9 DEF RefuseData, InboundTypeOK, Stages, Kinds
  <2>3. answer' \in Codes \union {0} /\ failCode' \in Codes
    BY <1>9 DEF RefuseData, InboundTypeOK, Codes
  <2>4. seenKind' \in [Rcpts -> {"local", "absent", "error"}]
    BY <1>9, <1>0 DEF RefuseData, InboundTypeOK
  <2>5. rcptTo' \in Seq(Rcpts) /\ at' \in Nat /\ accepted' \in SUBSET Rcpts
    BY <1>9 DEF RefuseData, InboundTypeOK
  <2>6. /\ call' \in [to : Rcpts, step : CallSteps] \union {NoCall}
        /\ late' \in SUBSET [to : Rcpts, step : CallSteps, arrival : Nat, place : Nat]
    BY <1>9 DEF RefuseData, InboundTypeOK, CallSteps
  <2>7. /\ copies' \in [Rcpts -> Nat] /\ relayed' \in [Rcpts -> Nat] /\ lostFor' \in [Rcpts -> Nat]
        /\ gone' \in SUBSET Rcpts /\ repeated' \in [Rcpts -> Nat]
    BY <1>9 DEF RefuseData, InboundTypeOK, placed
  <2> QED
    BY <2>1, <2>2, <2>3, <2>4, <2>5, <2>6, <2>7 DEF InboundTypeOK
<1>10. CASE LookUp
  <2>1. submits' \in BOOLEAN /\ signedIn' \in BOOLEAN /\ aliasFailure' \in BOOLEAN
    BY <1>10, Zenon DEF LookUp, EndData, InboundTypeOK
  <2>2. /\ kind' \in [Rcpts -> Kinds] /\ moves' \in Nat /\ arrivals' \in Nat
        /\ stage' \in Stages /\ prepared' \in {"no", "yes", "failed"}
    BY <1>10 DEF LookUp, EndData, InboundTypeOK, Stages, Kinds
  <2>3. answer' \in Codes \union {0} /\ failCode' \in Codes
    <3>1. (answer' = 550 \/ answer' = answer) /\ (failCode' = 451 \/ failCode' = failCode)
      BY <1>10, Zenon DEF LookUp, EndData
    <3> QED
      BY <3>1 DEF InboundTypeOK, Codes
  <2>4. seenKind' \in [Rcpts -> {"local", "absent", "error"}]
    <3>1. rcptTo[at] \in Rcpts
      BY <1>10 DEF LookUp, InboundTypeOK, HandledOnce
    <3>2. \/ seenKind' = AllAbsent \/ seenKind' = seenKind
          \/ \E v \in {"local", "absent", "error"} : seenKind' = [seenKind EXCEPT ![rcptTo[at]] = v]
      BY <1>10, Zenon DEF LookUp, EndData
    <3> QED
      BY <1>0, <3>1, <3>2 DEF InboundTypeOK
  <2>5. rcptTo' \in Seq(Rcpts) /\ at' \in Nat /\ accepted' \in SUBSET Rcpts
    BY SMTT(30), <1>10 DEF LookUp, EndData, InboundTypeOK
  <2>6. /\ call' \in [to : Rcpts, step : CallSteps] \union {NoCall}
        /\ late' \in SUBSET [to : Rcpts, step : CallSteps, arrival : Nat, place : Nat]
    BY <1>10 DEF LookUp, EndData, InboundTypeOK, CallSteps
  <2>7. /\ copies' \in [Rcpts -> Nat] /\ relayed' \in [Rcpts -> Nat] /\ lostFor' \in [Rcpts -> Nat]
        /\ gone' \in SUBSET Rcpts /\ repeated' \in [Rcpts -> Nat]
    BY <1>10 DEF LookUp, EndData, InboundTypeOK, placed
  <2> QED
    BY <2>1, <2>2, <2>3, <2>4, <2>5, <2>6, <2>7 DEF InboundTypeOK
<1>11. CASE Reply
  <2>1. submits' \in BOOLEAN /\ signedIn' \in BOOLEAN /\ aliasFailure' \in BOOLEAN
    BY <1>11, Zenon DEF Reply, EndData, InboundTypeOK
  <2>2. /\ kind' \in [Rcpts -> Kinds] /\ moves' \in Nat /\ arrivals' \in Nat
        /\ stage' \in Stages /\ prepared' \in {"no", "yes", "failed"}
    BY <1>11 DEF Reply, EndData, InboundTypeOK, Stages, Kinds
  <2>3. answer' \in Codes \union {0} /\ failCode' \in Codes
    BY <1>11 DEF Reply, EndData, InboundTypeOK, Codes
  <2>4. seenKind' \in [Rcpts -> {"local", "absent", "error"}]
    BY <1>11, <1>0 DEF Reply, EndData, InboundTypeOK
  <2>5. rcptTo' \in Seq(Rcpts) /\ at' \in Nat /\ accepted' \in SUBSET Rcpts
    BY <1>11 DEF Reply, EndData, InboundTypeOK
  <2>6. /\ call' \in [to : Rcpts, step : CallSteps] \union {NoCall}
        /\ late' \in SUBSET [to : Rcpts, step : CallSteps, arrival : Nat, place : Nat]
    BY <1>11 DEF Reply, EndData, InboundTypeOK, CallSteps
  <2>7. /\ copies' \in [Rcpts -> Nat] /\ relayed' \in [Rcpts -> Nat] /\ lostFor' \in [Rcpts -> Nat]
        /\ gone' \in SUBSET Rcpts /\ repeated' \in [Rcpts -> Nat]
    BY <1>11 DEF Reply, EndData, InboundTypeOK, placed
  <2> QED
    BY <2>1, <2>2, <2>3, <2>4, <2>5, <2>6, <2>7 DEF InboundTypeOK
<1>12. CASE Deliver
  <2>1. submits' \in BOOLEAN /\ signedIn' \in BOOLEAN /\ aliasFailure' \in BOOLEAN
    BY <1>12, Zenon DEF Deliver, Accept, FailWith, InboundTypeOK
  <2>2. /\ kind' \in [Rcpts -> Kinds] /\ moves' \in Nat /\ arrivals' \in Nat
        /\ stage' \in Stages /\ prepared' \in {"no", "yes", "failed"}
    BY <1>12 DEF Deliver, Accept, FailWith, InboundTypeOK, Stages, Kinds
  <2>3. answer' \in Codes \union {0} /\ failCode' \in Codes
    BY <1>12, ResultsMean DEF Deliver, Accept, FailWith, InboundTypeOK, Codes
  <2>4. seenKind' \in [Rcpts -> {"local", "absent", "error"}]
    BY <1>12, <1>0 DEF Deliver, Accept, FailWith, InboundTypeOK
  <2>5. rcptTo' \in Seq(Rcpts) /\ at' \in Nat /\ accepted' \in SUBSET Rcpts
    BY <1>12 DEF Deliver, Accept, FailWith, InboundTypeOK
  <2>6. /\ call' \in [to : Rcpts, step : CallSteps] \union {NoCall}
        /\ late' \in SUBSET [to : Rcpts, step : CallSteps, arrival : Nat, place : Nat]
    <3>1. call \in [to : Rcpts, step : CallSteps] /\ late' = late
      BY <1>12 DEF Deliver, InboundTypeOK
    <3>2. \/ call' = NoCall
          \/ \E out \in Results : out.code = 0 /\ call' = [call EXCEPT !.step = out.next]
      BY <1>12 DEF Deliver
    <3> QED
      <4>1. ASSUME NEW out \in Results, out.code = 0
            PROVE  [call EXCEPT !.step = out.next] \in [to : Rcpts, step : CallSteps]
        BY <3>1, <4>1, ResultsMean
      <4>2. late \in SUBSET [to : Rcpts, step : CallSteps, arrival : Nat, place : Nat]
        BY DEF InboundTypeOK
      <4> QED
        BY <3>1, <3>2, <4>1, <4>2
  <2>7. /\ copies' \in [Rcpts -> Nat] /\ relayed' \in [Rcpts -> Nat] /\ lostFor' \in [Rcpts -> Nat]
        /\ gone' \in SUBSET Rcpts /\ repeated' \in [Rcpts -> Nat]
    <3>1. call.to \in Rcpts /\ lostFor' = lostFor
      BY <1>12 DEF Deliver, InboundTypeOK
    <3>5. \/ repeated' = IF NamedBefore(call.to) THEN Add(repeated, call.to) ELSE repeated
          \/ repeated' = repeated
      BY <1>12, Zenon DEF Deliver, Accept, FailWith
    <3>6. repeated' \in [Rcpts -> Nat]
      BY <3>1, <3>5, RepeatType
    <3>2. PICK out \in Results : DeliverStep(call, out)
      BY <1>12 DEF Deliver
    <3>3. /\ relayed' = relayed /\ (gone' = gone \/ gone' = gone \union {call.to})
          /\ copies' = copies \/ copies' = [copies EXCEPT ![call.to] = copies[call.to] + 1]
      BY <3>1, <3>2, DeliverStepDoes
    <3>4. /\ copies \in [Rcpts -> Nat] /\ relayed \in [Rcpts -> Nat] /\ lostFor \in [Rcpts -> Nat]
          /\ gone \in SUBSET Rcpts
      BY DEF InboundTypeOK
    <3> QED
      BY <3>1, <3>3, <3>4, <3>6
  <2> QED
    BY <2>1, <2>2, <2>3, <2>4, <2>5, <2>6, <2>7 DEF InboundTypeOK
<1>13. ASSUME NEW r \in Rcpts, HandleBounce(r) PROVE InboundTypeOK'
  <2>1. submits' \in BOOLEAN /\ signedIn' \in BOOLEAN /\ aliasFailure' \in BOOLEAN
    BY <1>13, Zenon DEF HandleBounce, Accept, FailOne, FailWith, SendOn, InboundTypeOK
  <2>2. /\ kind' \in [Rcpts -> Kinds] /\ moves' \in Nat /\ arrivals' \in Nat
        /\ stage' \in Stages /\ prepared' \in {"no", "yes", "failed"}
    BY <1>13 DEF HandleBounce, Accept, FailOne, FailWith, SendOn, InboundTypeOK,
       Stages, Kinds
  <2>3. answer' \in Codes \union {0} /\ failCode' \in Codes
    BY <1>13 DEF HandleBounce, Accept, FailOne, FailWith, SendOn, InboundTypeOK, Codes
  <2>4. seenKind' \in [Rcpts -> {"local", "absent", "error"}]
    BY <1>13, <1>0 DEF HandleBounce, Accept, FailOne, FailWith, SendOn, InboundTypeOK
  <2>5. rcptTo' \in Seq(Rcpts) /\ at' \in Nat /\ accepted' \in SUBSET Rcpts
    BY <1>13 DEF HandleBounce, Accept, FailOne, FailWith, SendOn, InboundTypeOK
  <2>6. /\ call' \in [to : Rcpts, step : CallSteps] \union {NoCall}
        /\ late' \in SUBSET [to : Rcpts, step : CallSteps, arrival : Nat, place : Nat]
    BY <1>13 DEF HandleBounce, Accept, FailOne, FailWith, SendOn, InboundTypeOK,
       CallSteps
  <2>7. /\ copies' \in [Rcpts -> Nat] /\ relayed' \in [Rcpts -> Nat] /\ lostFor' \in [Rcpts -> Nat]
        /\ gone' \in SUBSET Rcpts /\ repeated' \in [Rcpts -> Nat]
    <3>1. \/ repeated' = IF NamedBefore(r) THEN Add(repeated, r) ELSE repeated
          \/ repeated' = repeated
      BY <1>13, Zenon DEF HandleBounce, Accept, FailOne, FailWith
    <3>2. repeated' \in [Rcpts -> Nat]
      BY <1>13, <3>1, RepeatType
    <3>3. /\ copies' \in [Rcpts -> Nat] /\ relayed' \in [Rcpts -> Nat] /\ lostFor' \in [Rcpts -> Nat]
          /\ gone' \in SUBSET Rcpts
      BY <1>13 DEF HandleBounce, Accept, FailOne, FailWith, SendOn, InboundTypeOK, placed, Add
    <3> QED
      BY <3>2, <3>3
  <2> QED
    BY <2>1, <2>2, <2>3, <2>4, <2>5, <2>6, <2>7 DEF InboundTypeOK
<1>14. ASSUME NEW r \in Rcpts, HandleUnknown(r) PROVE InboundTypeOK'
  <2>1. submits' \in BOOLEAN /\ signedIn' \in BOOLEAN /\ aliasFailure' \in BOOLEAN
    BY <1>14, Zenon DEF HandleUnknown, FailOne, FailWith, InboundTypeOK
  <2>2. /\ kind' \in [Rcpts -> Kinds] /\ moves' \in Nat /\ arrivals' \in Nat
        /\ stage' \in Stages /\ prepared' \in {"no", "yes", "failed"}
    BY <1>14 DEF HandleUnknown, FailOne, FailWith, InboundTypeOK, Stages, Kinds
  <2>3. answer' \in Codes \union {0} /\ failCode' \in Codes
    BY <1>14 DEF HandleUnknown, FailOne, FailWith, InboundTypeOK, Codes
  <2>4. seenKind' \in [Rcpts -> {"local", "absent", "error"}]
    BY <1>14, <1>0 DEF HandleUnknown, FailOne, FailWith, InboundTypeOK
  <2>5. rcptTo' \in Seq(Rcpts) /\ at' \in Nat /\ accepted' \in SUBSET Rcpts
    BY <1>14 DEF HandleUnknown, FailOne, FailWith, InboundTypeOK
  <2>6. /\ call' \in [to : Rcpts, step : CallSteps] \union {NoCall}
        /\ late' \in SUBSET [to : Rcpts, step : CallSteps, arrival : Nat, place : Nat]
    BY <1>14 DEF HandleUnknown, FailOne, FailWith, InboundTypeOK, CallSteps
  <2>7. /\ copies' \in [Rcpts -> Nat] /\ relayed' \in [Rcpts -> Nat] /\ lostFor' \in [Rcpts -> Nat]
        /\ gone' \in SUBSET Rcpts /\ repeated' \in [Rcpts -> Nat]
    BY <1>14 DEF HandleUnknown, FailOne, FailWith, InboundTypeOK, placed
  <2> QED
    BY <2>1, <2>2, <2>3, <2>4, <2>5, <2>6, <2>7 DEF InboundTypeOK
<1>15. ASSUME NEW r \in Rcpts, HandleRemote(r) PROVE InboundTypeOK'
  <2>1. submits' \in BOOLEAN /\ signedIn' \in BOOLEAN /\ aliasFailure' \in BOOLEAN
    BY <1>15, Zenon DEF HandleRemote, Accept, FailOne, FailWith, Add, InboundTypeOK
  <2>2. /\ kind' \in [Rcpts -> Kinds] /\ moves' \in Nat /\ arrivals' \in Nat
        /\ stage' \in Stages /\ prepared' \in {"no", "yes", "failed"}
    BY <1>15 DEF HandleRemote, Accept, FailOne, FailWith, Add, InboundTypeOK, Stages,
       Kinds
  <2>3. answer' \in Codes \union {0} /\ failCode' \in Codes
    BY <1>15 DEF HandleRemote, Accept, FailOne, FailWith, Add, InboundTypeOK, Codes
  <2>4. seenKind' \in [Rcpts -> {"local", "absent", "error"}]
    BY <1>15, <1>0 DEF HandleRemote, Accept, FailOne, FailWith, Add, InboundTypeOK
  <2>5. rcptTo' \in Seq(Rcpts) /\ at' \in Nat /\ accepted' \in SUBSET Rcpts
    BY <1>15 DEF HandleRemote, Accept, FailOne, FailWith, Add, InboundTypeOK
  <2>6. /\ call' \in [to : Rcpts, step : CallSteps] \union {NoCall}
        /\ late' \in SUBSET [to : Rcpts, step : CallSteps, arrival : Nat, place : Nat]
    BY <1>15 DEF HandleRemote, Accept, FailOne, FailWith, Add, InboundTypeOK,
       CallSteps
  <2>7. /\ copies' \in [Rcpts -> Nat] /\ relayed' \in [Rcpts -> Nat] /\ lostFor' \in [Rcpts -> Nat]
        /\ gone' \in SUBSET Rcpts /\ repeated' \in [Rcpts -> Nat]
    <3>1. \/ repeated' = IF NamedBefore(r) THEN Add(repeated, r) ELSE repeated
          \/ repeated' = repeated
      BY <1>15, Zenon DEF HandleRemote, Accept, FailOne, FailWith
    <3>2. repeated' \in [Rcpts -> Nat]
      BY <1>15, <3>1, RepeatType
    <3>3. /\ copies' \in [Rcpts -> Nat] /\ relayed' \in [Rcpts -> Nat] /\ lostFor' \in [Rcpts -> Nat]
          /\ gone' \in SUBSET Rcpts
      <4>1. /\ relayed' = [relayed EXCEPT ![r] = relayed[r] + 1] \/ relayed' = relayed
            /\ copies' = copies /\ gone' = gone /\ lostFor' = lostFor
        BY <1>15, Zenon DEF HandleRemote, Add
      <4>2. /\ copies \in [Rcpts -> Nat] /\ relayed \in [Rcpts -> Nat] /\ lostFor \in [Rcpts -> Nat]
            /\ gone \in SUBSET Rcpts
        BY DEF InboundTypeOK
      <4> QED
        BY <4>1, <4>2, <1>15
    <3> QED
      BY <3>2, <3>3
  <2> QED
    BY <2>1, <2>2, <2>3, <2>4, <2>5, <2>6, <2>7 DEF InboundTypeOK
<1>16. ASSUME NEW r \in Rcpts, HandleLocal(r) PROVE InboundTypeOK'
  <2>1. submits' \in BOOLEAN /\ signedIn' \in BOOLEAN /\ aliasFailure' \in BOOLEAN
    BY <1>16, Zenon DEF HandleLocal, FailWith, InboundTypeOK
  <2>2. /\ kind' \in [Rcpts -> Kinds] /\ moves' \in Nat /\ arrivals' \in Nat
        /\ stage' \in Stages /\ prepared' \in {"no", "yes", "failed"}
    BY <1>16 DEF HandleLocal, FailWith, InboundTypeOK, Stages, Kinds
  <2>3. answer' \in Codes \union {0} /\ failCode' \in Codes
    BY <1>16 DEF HandleLocal, FailWith, InboundTypeOK, Codes
  <2>4. seenKind' \in [Rcpts -> {"local", "absent", "error"}]
    BY <1>16, <1>0 DEF HandleLocal, FailWith, InboundTypeOK
  <2>5. rcptTo' \in Seq(Rcpts) /\ at' \in Nat /\ accepted' \in SUBSET Rcpts
    BY <1>16 DEF HandleLocal, FailWith, InboundTypeOK
  <2>6. /\ call' \in [to : Rcpts, step : CallSteps] \union {NoCall}
        /\ late' \in SUBSET [to : Rcpts, step : CallSteps, arrival : Nat, place : Nat]
    BY <1>16 DEF HandleLocal, FailWith, InboundTypeOK, CallSteps
  <2>7. /\ copies' \in [Rcpts -> Nat] /\ relayed' \in [Rcpts -> Nat] /\ lostFor' \in [Rcpts -> Nat]
        /\ gone' \in SUBSET Rcpts /\ repeated' \in [Rcpts -> Nat]
    BY <1>16 DEF HandleLocal, FailWith, InboundTypeOK, placed
  <2> QED
    BY <2>1, <2>2, <2>3, <2>4, <2>5, <2>6, <2>7 DEF InboundTypeOK
<1>17. CASE GiveUpCall
  <2>1. submits' \in BOOLEAN /\ signedIn' \in BOOLEAN /\ aliasFailure' \in BOOLEAN
    BY <1>17, Zenon DEF GiveUpCall, FailWith, Late, Add, InboundTypeOK
  <2>2. /\ kind' \in [Rcpts -> Kinds] /\ moves' \in Nat /\ arrivals' \in Nat
        /\ stage' \in Stages /\ prepared' \in {"no", "yes", "failed"}
    BY <1>17 DEF GiveUpCall, FailWith, Late, Add, InboundTypeOK, Stages, Kinds
  <2>3. answer' \in Codes \union {0} /\ failCode' \in Codes
    BY <1>17 DEF GiveUpCall, FailWith, Late, Add, InboundTypeOK, Codes
  <2>4. seenKind' \in [Rcpts -> {"local", "absent", "error"}]
    BY <1>17, <1>0 DEF GiveUpCall, FailWith, Late, Add, InboundTypeOK
  <2>5. rcptTo' \in Seq(Rcpts) /\ at' \in Nat /\ accepted' \in SUBSET Rcpts
    BY <1>17 DEF GiveUpCall, FailWith, Late, Add, InboundTypeOK
  <2>6. /\ call' \in [to : Rcpts, step : CallSteps] \union {NoCall}
        /\ late' \in SUBSET [to : Rcpts, step : CallSteps, arrival : Nat, place : Nat]
    BY <1>17 DEF GiveUpCall, FailWith, Late, Add, InboundTypeOK, CallSteps
  <2>7. /\ copies' \in [Rcpts -> Nat] /\ relayed' \in [Rcpts -> Nat] /\ lostFor' \in [Rcpts -> Nat]
        /\ gone' \in SUBSET Rcpts /\ repeated' \in [Rcpts -> Nat]
    BY <1>17 DEF GiveUpCall, FailWith, Late, Add, InboundTypeOK, placed
  <2> QED
    BY <2>1, <2>2, <2>3, <2>4, <2>5, <2>6, <2>7 DEF InboundTypeOK
<1>18. CASE LoseConnection
  <2>1. submits' \in BOOLEAN /\ signedIn' \in BOOLEAN /\ aliasFailure' \in BOOLEAN
    BY <1>18, Zenon DEF LoseConnection, EndData, Late, InboundTypeOK
  <2>2. /\ kind' \in [Rcpts -> Kinds] /\ moves' \in Nat /\ arrivals' \in Nat
        /\ stage' \in Stages /\ prepared' \in {"no", "yes", "failed"}
    BY <1>18 DEF LoseConnection, EndData, Late, InboundTypeOK, Stages, Kinds
  <2>3. answer' \in Codes \union {0} /\ failCode' \in Codes
    BY <1>18 DEF LoseConnection, EndData, Late, InboundTypeOK, Codes
  <2>4. seenKind' \in [Rcpts -> {"local", "absent", "error"}]
    BY <1>18, <1>0 DEF LoseConnection, EndData, Late, InboundTypeOK
  <2>5. rcptTo' \in Seq(Rcpts) /\ at' \in Nat /\ accepted' \in SUBSET Rcpts
    BY <1>18 DEF LoseConnection, EndData, Late, InboundTypeOK
  <2>6. /\ call' \in [to : Rcpts, step : CallSteps] \union {NoCall}
        /\ late' \in SUBSET [to : Rcpts, step : CallSteps, arrival : Nat, place : Nat]
    BY <1>18 DEF LoseConnection, EndData, Late, InboundTypeOK, CallSteps
  <2>7. /\ copies' \in [Rcpts -> Nat] /\ relayed' \in [Rcpts -> Nat] /\ lostFor' \in [Rcpts -> Nat]
        /\ gone' \in SUBSET Rcpts /\ repeated' \in [Rcpts -> Nat]
    BY <1>18 DEF LoseConnection, EndData, Late, InboundTypeOK, placed
  <2> QED
    BY <2>1, <2>2, <2>3, <2>4, <2>5, <2>6, <2>7 DEF InboundTypeOK
<1>19. ASSUME NEW c \in late, DeliverLate(c) PROVE InboundTypeOK'
  <2>1. submits' \in BOOLEAN /\ signedIn' \in BOOLEAN /\ aliasFailure' \in BOOLEAN
    BY <1>19, Zenon DEF DeliverLate, session, InboundTypeOK
  <2>2. /\ kind' \in [Rcpts -> Kinds] /\ moves' \in Nat /\ arrivals' \in Nat
        /\ stage' \in Stages /\ prepared' \in {"no", "yes", "failed"}
    BY <1>19 DEF DeliverLate, session, InboundTypeOK, Stages, Kinds
  <2>3. answer' \in Codes \union {0} /\ failCode' \in Codes
    BY <1>19 DEF DeliverLate, session, InboundTypeOK, Codes
  <2>4. seenKind' \in [Rcpts -> {"local", "absent", "error"}]
    BY <1>19, <1>0 DEF DeliverLate, session, InboundTypeOK
  <2>5. rcptTo' \in Seq(Rcpts) /\ at' \in Nat /\ accepted' \in SUBSET Rcpts
    BY <1>19 DEF DeliverLate, session, InboundTypeOK
  <2>6. /\ call' \in [to : Rcpts, step : CallSteps] \union {NoCall}
        /\ late' \in SUBSET [to : Rcpts, step : CallSteps, arrival : Nat, place : Nat]
    <3>1. c \in [to : Rcpts, step : CallSteps, arrival : Nat, place : Nat] /\ call' = call
      BY <1>19 DEF DeliverLate, InboundTypeOK
    <3>2. \E out \in Results : late' = (late \ {c}) \union
            (IF out.code = 0 THEN {[c EXCEPT !.step = out.next]} ELSE {})
      BY <1>19 DEF DeliverLate
    <3>3. ASSUME NEW out \in Results, out.code = 0
          PROVE  [c EXCEPT !.step = out.next] \in [to : Rcpts, step : CallSteps, arrival : Nat, place : Nat]
      BY <3>1, <3>3, ResultsMean
    <3> QED
      BY <3>1, <3>2, <3>3 DEF InboundTypeOK
  <2>7. /\ copies' \in [Rcpts -> Nat] /\ relayed' \in [Rcpts -> Nat] /\ lostFor' \in [Rcpts -> Nat]
        /\ gone' \in SUBSET Rcpts /\ repeated' \in [Rcpts -> Nat]
    <3>1. c.to \in Rcpts /\ lostFor' = lostFor /\ repeated' \in [Rcpts -> Nat]
      BY <1>19 DEF DeliverLate, InboundTypeOK
    <3>2. PICK out \in Results : DeliverStep(c, out)
      BY <1>19 DEF DeliverLate
    <3>3. /\ relayed' = relayed /\ (gone' = gone \/ gone' = gone \union {c.to})
          /\ copies' = copies \/ copies' = [copies EXCEPT ![c.to] = copies[c.to] + 1]
      BY <3>1, <3>2, DeliverStepDoes
    <3>4. /\ copies \in [Rcpts -> Nat] /\ relayed \in [Rcpts -> Nat] /\ lostFor \in [Rcpts -> Nat]
          /\ gone \in SUBSET Rcpts
      BY DEF InboundTypeOK
    <3> QED
      BY <3>1, <3>3, <3>4
  <2> QED
    BY <2>1, <2>2, <2>3, <2>4, <2>5, <2>6, <2>7 DEF InboundTypeOK
<1>20. CASE UNCHANGED inbound
  <2>1. submits' \in BOOLEAN /\ signedIn' \in BOOLEAN /\ aliasFailure' \in BOOLEAN
    BY <1>20, Zenon DEF inbound, session, InboundTypeOK
  <2>2. /\ kind' \in [Rcpts -> Kinds] /\ moves' \in Nat /\ arrivals' \in Nat
        /\ stage' \in Stages /\ prepared' \in {"no", "yes", "failed"}
    BY <1>20 DEF inbound, session, InboundTypeOK, Stages, Kinds
  <2>3. answer' \in Codes \union {0} /\ failCode' \in Codes
    BY <1>20 DEF inbound, session, InboundTypeOK, Codes
  <2>4. seenKind' \in [Rcpts -> {"local", "absent", "error"}]
    BY <1>20, <1>0 DEF inbound, session, InboundTypeOK
  <2>5. rcptTo' \in Seq(Rcpts) /\ at' \in Nat /\ accepted' \in SUBSET Rcpts
    BY <1>20 DEF inbound, session, InboundTypeOK
  <2>6. /\ call' \in [to : Rcpts, step : CallSteps] \union {NoCall}
        /\ late' \in SUBSET [to : Rcpts, step : CallSteps, arrival : Nat, place : Nat]
    BY <1>20 DEF inbound, session, InboundTypeOK, CallSteps
  <2>7. /\ copies' \in [Rcpts -> Nat] /\ relayed' \in [Rcpts -> Nat] /\ lostFor' \in [Rcpts -> Nat]
        /\ gone' \in SUBSET Rcpts /\ repeated' \in [Rcpts -> Nat]
    BY <1>20 DEF inbound, session, InboundTypeOK, placed
  <2> QED
    BY <2>1, <2>2, <2>3, <2>4, <2>5, <2>6, <2>7 DEF InboundTypeOK
<1> QED
  BY <1>1, <1>2, <1>3, <1>4, <1>5, <1>6, <1>7, <1>8, <1>9, <1>10, <1>11, <1>12, <1>13,
     <1>14, <1>15, <1>16, <1>17, <1>18, <1>19, <1>20 DEF InboundNext, DataStep

\* What changes no count leaves what is spent as it was.
LEMMA SpentStays ==
  ASSUME NEW r, UNCHANGED <<copies, relayed, late>>
  PROVE  Spent(r)' = Spent(r)
  BY DEF Spent, LateFor

\* The counts of a recipient are numbers.
LEMMA SpentIsNat ==
  ASSUME InboundTypeOK, IsFiniteSet(late), NEW r \in Rcpts
  PROVE  /\ Spent(r) \in Nat /\ lostFor[r] \in Nat /\ copies[r] \in Nat /\ relayed[r] \in Nat
         /\ Cardinality(LateFor(r)) \in Nat /\ repeated[r] \in Nat
<1>1. IsFiniteSet(LateFor(r))
  BY FS_Subset DEF LateFor
<1>2. Cardinality(LateFor(r)) \in Nat
  BY <1>1, FS_CardinalityType
<1>3. lostFor[r] \in Nat /\ copies[r] \in Nat /\ relayed[r] \in Nat /\ repeated[r] \in Nat
  BY DEF InboundTypeOK
<1> QED
  BY <1>2, <1>3 DEF Spent

\* The steps of a session that store and queue nothing.
LEMMA QuietSteps ==
  ASSUME InboundInv,
         \/ Connect \/ Login \/ Mail \/ Reset \/ Data \/ Quit \/ LookUp \/ Reply \/ UNCHANGED inbound
         \/ \E r \in Rcpts : Rcpt(r) \/ HandleUnknown(r) \/ HandleLocal(r) \/ \E k \in Kinds : Move(r, k)
         \/ \E code \in {451, 550, 554} : RefuseData(code)
  PROVE  HandledOnce' /\ SpendBound' /\ NeverRelays' /\ AcceptedIsKept' /\ IsFiniteSet(late')
<1>0. /\ InboundTypeOK /\ HandledOnce /\ SpendBound /\ NeverRelays /\ AcceptedIsKept
      /\ IsFiniteSet(late) /\ \A r : UNCHANGED <<copies, relayed, late>> => Spent(r)' = Spent(r)
  BY SpentStays DEF InboundInv
<1> DEFINE G == HandledOnce /\ SpendBound
<1>21. UNCHANGED <<copies, relayed, gone, late, repeated, lostFor, submits>>
  BY Zenon DEF Connect, Login, Mail, Reset, Data, Quit, LookUp, Reply, inbound,
     session, Rcpt,
     HandleUnknown, HandleLocal, Move, RefuseData, FailOne, FailWith, placed
<1>22. accepted' \subseteq accepted
  BY DEF Connect, Login, Mail, Reset, Data, Quit, LookUp, Reply, inbound, session,
     Rcpt,
     HandleUnknown, HandleLocal, Move, RefuseData, FailOne, FailWith
<1>23. NeverRelays' /\ AcceptedIsKept' /\ IsFiniteSet(late')
  <2>1. NeverRelays'
    BY <1>0, <1>21, Zenon DEF NeverRelays
  <2>2. AcceptedIsKept'
    BY <1>0, <1>21, <1>22 DEF AcceptedIsKept
  <2> QED
    BY <1>0, <1>21, <2>1, <2>2
<1>1. CASE Connect
  <2>1. HandledOnce'
    BY <1>1, <1>0 DEF Connect, HandledOnce, InDoubt, InboundTypeOK, Handling
  <2>2. SpendBound'
    BY <1>1, <1>0, <1>21 DEF Connect, SpendBound, MayCommit, InDoubt, HandledOnce
  <2> QED
    BY <1>23, <2>1, <2>2
<1>2. CASE Login
  <2>1. HandledOnce'
    BY <1>2, <1>0 DEF Login, HandledOnce, InDoubt, InboundTypeOK, Handling
  <2>2. SpendBound'
    BY <1>2, <1>0, <1>21 DEF Login, SpendBound, MayCommit, InDoubt, HandledOnce
  <2> QED
    BY <1>23, <2>1, <2>2
<1>3. CASE Mail
  <2>1. HandledOnce'
    BY <1>3, <1>0 DEF Mail, HandledOnce, InDoubt, InboundTypeOK, Handling
  <2>2. SpendBound'
    BY <1>3, <1>0, <1>21 DEF Mail, SpendBound, MayCommit, InDoubt, HandledOnce
  <2> QED
    BY <1>23, <2>1, <2>2
<1>4. CASE Reset
  <2>1. HandledOnce'
    BY <1>4, <1>0 DEF Reset, HandledOnce, InDoubt, InboundTypeOK, Handling
  <2>2. SpendBound'
    BY <1>4, <1>0, <1>21 DEF Reset, SpendBound, MayCommit, InDoubt, HandledOnce
  <2> QED
    BY <1>23, <2>1, <2>2
<1>5. CASE Data
  <2>1. HandledOnce'
    BY <1>5, <1>0 DEF Data, HandledOnce, InDoubt, InboundTypeOK, Handling
  <2>2. SpendBound'
    BY <1>5, <1>0, <1>21 DEF Data, SpendBound, MayCommit, InDoubt, HandledOnce
  <2> QED
    BY <1>23, <2>1, <2>2
<1>6. CASE Quit
  <2>1. HandledOnce'
    BY <1>6, <1>0 DEF Quit, HandledOnce, InDoubt, InboundTypeOK, Handling
  <2>2. SpendBound'
    BY <1>6, <1>0, <1>21 DEF Quit, SpendBound, MayCommit, InDoubt, HandledOnce
  <2> QED
    BY <1>23, <2>1, <2>2
<1>7. ASSUME NEW r \in Rcpts, Rcpt(r) PROVE G'
  <2>1. HandledOnce'
    <3>1. /\ stage = "mail" /\ UNCHANGED <<stage, at, accepted, call, answer, failCode>>
      BY <1>7 DEF Rcpt
    <3> QED
      BY <1>0, <3>1 DEF HandledOnce, InDoubt
  <2>2. SpendBound'
    BY <1>7, <1>0, <1>21 DEF Rcpt, SpendBound, MayCommit, InDoubt, HandledOnce
  <2> QED
    BY <1>23, <2>1, <2>2
<1>8. ASSUME NEW r \in Rcpts, NEW k \in Kinds, Move(r, k) PROVE G'
  <2>1. HandledOnce'
    BY <1>8, <1>0 DEF Move, session, HandledOnce, InDoubt, InboundTypeOK, Handling
  <2>2. SpendBound'
    BY <1>8, <1>0, <1>21 DEF Move, session, SpendBound, MayCommit, InDoubt,
       HandledOnce
  <2> QED
    BY <1>23, <2>1, <2>2
<1>9. ASSUME NEW code \in {451, 550, 554}, RefuseData(code) PROVE G'
  <2>1. HandledOnce'
    BY <1>9, <1>0 DEF RefuseData, HandledOnce, InDoubt, InboundTypeOK, Handling
  <2>2. SpendBound'
    BY <1>9, <1>0, <1>21 DEF RefuseData, SpendBound, MayCommit, InDoubt, HandledOnce
  <2> QED
    BY <1>23, <2>1, <2>2
<1>10. CASE LookUp
  <2>1. HandledOnce'
    <3>1. /\ UNCHANGED <<rcptTo, accepted, call>> /\ stage = "lookup"
          /\ \/ stage' = "answered" /\ answer' = 550 /\ failCode' = 451
             \/ at = Len(rcptTo) /\ stage' = "handle" /\ at' = 1 /\ UNCHANGED <<answer, failCode>>
             \/ at # Len(rcptTo) /\ at' = at + 1 /\ UNCHANGED <<stage, answer, failCode>>
      BY <1>10, Zenon DEF LookUp, EndData
    <3>2. rcptTo \in Seq(Rcpts) /\ at \in Nat
      BY <1>0 DEF InboundTypeOK
    <3> QED
      BY <1>0, <3>1, <3>2 DEF HandledOnce, InDoubt
  <2>2. SpendBound'
    BY <1>10, <1>0, <1>21 DEF LookUp, EndData, SpendBound, MayCommit, InDoubt,
       HandledOnce
  <2> QED
    BY <1>23, <2>1, <2>2
<1>11. CASE Reply
  <2>1. HandledOnce'
    BY <1>11, <1>0 DEF Reply, EndData, HandledOnce, InDoubt, InboundTypeOK, Handling
  <2>2. SpendBound'
    BY <1>11, <1>0, <1>21 DEF Reply, EndData, SpendBound, MayCommit, InDoubt,
       HandledOnce
  <2> QED
    BY <1>23, <2>1, <2>2
<1>12. ASSUME NEW r \in Rcpts, HandleUnknown(r) PROVE G'
  <2>1. HandledOnce'
    BY <1>12, <1>0 DEF HandleUnknown, FailOne, FailWith, HandledOnce, InDoubt,
       InboundTypeOK, Handling
  <2>2. SpendBound'
    BY <1>12, <1>0, <1>21 DEF HandleUnknown, FailOne, FailWith, SpendBound, MayCommit,
       InDoubt, HandledOnce
  <2> QED
    BY <1>23, <2>1, <2>2
<1>13. ASSUME NEW r \in Rcpts, HandleLocal(r) PROVE G'
  <2>1. HandledOnce'
    <3>1. /\ stage = "handle" /\ call = NoCall /\ at <= Len(rcptTo) /\ r = rcptTo[at]
          /\ UNCHANGED <<rcptTo, stage, answer, accepted>>
          /\ \/ call' = [to |-> r, step |-> "resolve"] /\ UNCHANGED <<failCode, at>>
             \/ at' = at + 1 /\ failCode' = 451 /\ UNCHANGED call
      BY <1>13 DEF HandleLocal, FailWith, Handling
    <3>2. rcptTo \in Seq(Rcpts) /\ at \in Nat /\ at >= 1
      BY <1>0, <3>1 DEF InboundTypeOK, HandledOnce
    <3>3. at \in DOMAIN rcptTo
      BY <3>1, <3>2
    <3>4. call' # NoCall => call'.to = r /\ at' = at
      BY <3>1
    <3> QED
      BY <1>0, <3>1, <3>2, <3>3, <3>4 DEF HandledOnce, InDoubt
  <2>2. SpendBound'
    BY <1>13, <1>0, <1>21 DEF HandleLocal, FailWith, SpendBound, MayCommit, InDoubt,
       HandledOnce
  <2> QED
    BY <1>23, <2>1, <2>2
<1>14. CASE UNCHANGED inbound
  <2>1. HandledOnce'
    BY <1>14, <1>0 DEF inbound, session, HandledOnce, InDoubt, InboundTypeOK,
       Handling
  <2>2. SpendBound'
    BY <1>14, <1>0, <1>21 DEF inbound, session, SpendBound, MayCommit, InDoubt,
       HandledOnce
  <2> QED
    BY <1>23, <2>1, <2>2
<1> QED
  BY <1>23, <1>1, <1>2, <1>3, <1>4, <1>5, <1>6, <1>7, <1>8, <1>9, <1>10, <1>11, <1>12,
     <1>13, <1>14

\* A session that is done with a recipient, accepted or not, goes on with the next.
LEMMA GoesToNext ==
  ASSUME InboundTypeOK, HandledOnce, stage = "handle", at \in DOMAIN rcptTo,
         UNCHANGED <<stage, rcptTo, answer>>, call' = NoCall, at' = at + 1,
         accepted' \subseteq accepted \union {rcptTo[at]}, failCode' \in {451, 452, 550}
  PROVE  HandledOnce'
<1>1. rcptTo \in Seq(Rcpts) /\ at \in Nat
  BY DEF InboundTypeOK
<1>2. \A r \in accepted' : \E i \in DOMAIN rcptTo : i < at' /\ rcptTo[i] = r
  BY <1>1 DEF HandledOnce
<1> QED
  BY <1>1, <1>2 DEF HandledOnce, InDoubt

\* The recipient in hand was accepted before only if the envelope names it again, and
\* accepting it then is counted as a repetition.
LEMMA InHand ==
  ASSUME InboundTypeOK, HandledOnce, stage = "handle", at \in DOMAIN rcptTo
  PROVE  /\ rcptTo[at] \in Rcpts
         /\ rcptTo[at] \in accepted => NamedBefore(rcptTo[at])
<1>1. rcptTo \in Seq(Rcpts) /\ at \in Nat
  BY DEF InboundTypeOK
<1> QED
  BY <1>1 DEF HandledOnce, NamedBefore

\* What accepting a recipient does to the count of repetitions.
LEMMA RepeatCounts ==
  ASSUME InboundTypeOK, NEW r \in Rcpts, NEW x \in Rcpts,
         repeated' = IF NamedBefore(r) THEN Add(repeated, r) ELSE repeated
  PROVE  /\ repeated[x] \in Nat /\ repeated'[x] \in Nat /\ repeated'[x] >= repeated[x]
         /\ x = r /\ NamedBefore(r) => repeated'[x] = repeated[x] + 1
  BY DEF InboundTypeOK, Add

\* Bounces are sent on, and mail of a signed-in client is queued, for the recipient in hand.
LEMMA HandlingKeeps ==
  ASSUME InboundInv, NEW r \in Rcpts, HandleBounce(r) \/ HandleRemote(r)
  PROVE  HandledOnce' /\ SpendBound' /\ NeverRelays' /\ AcceptedIsKept' /\ IsFiniteSet(late')
<1>0. /\ InboundTypeOK /\ HandledOnce /\ SpendBound /\ NeverRelays /\ AcceptedIsKept /\ IsFiniteSet(late)
  BY DEF InboundInv
<1>1. /\ stage = "handle" /\ at <= Len(rcptTo) /\ r = rcptTo[at] /\ call = NoCall
      /\ UNCHANGED <<stage, rcptTo, answer, call, late, lostFor, copies>> /\ at' = at + 1
      /\ UNCHANGED submits
  BY DEF HandleBounce, HandleRemote, Handling, Accept, FailOne, FailWith, SendOn,
     placed
<1>2. at \in DOMAIN rcptTo
  <2>1. rcptTo \in Seq(Rcpts) /\ at \in Nat /\ at >= 1
    BY <1>0, <1>1 DEF InboundTypeOK, HandledOnce
  <2> QED
    BY <1>1, <2>1
<1>3. r \in accepted => NamedBefore(r)
  BY <1>0, <1>1, <1>2, InHand
<1>4. \/ /\ accepted' = accepted \union {r} /\ failCode' = failCode
         /\ repeated' = IF NamedBefore(r) THEN Add(repeated, r) ELSE repeated
         /\ \/ relayed' = relayed /\ gone' = gone \union {r}
            \/ MaySubmit /\ relayed' = [relayed EXCEPT ![r] = relayed[r] + 1] /\ gone' = gone
      \/ /\ accepted' = accepted /\ failCode' \in {failCode, 550}
         /\ UNCHANGED <<relayed, gone, repeated>>
  BY <1>0 DEF HandleBounce, HandleRemote, Accept, FailOne, FailWith, SendOn, placed,
     Add, InboundTypeOK
<1>5. HandledOnce'
  <2>1. failCode' \in {451, 452, 550}
    BY <1>0, <1>4 DEF HandledOnce
  <2> QED
    BY <1>0, <1>1, <1>2, <1>4, <2>1, GoesToNext
<1>6. NeverRelays'
  <2>1. CASE relayed' = relayed
    BY <1>0, <1>1, <2>1, Zenon DEF NeverRelays
  <2>2. CASE MaySubmit
    BY <1>1, <2>2, Zenon DEF NeverRelays, MaySubmit
  <2> QED
    BY <1>4, <2>1, <2>2
<1>7. AcceptedIsKept'
  <2>1. relayed \in [Rcpts -> Nat] /\ copies \in [Rcpts -> Nat] /\ accepted \subseteq Rcpts
    BY <1>0 DEF InboundTypeOK
  <2> QED
    BY <1>0, <1>1, <1>4, <2>1 DEF AcceptedIsKept
<1>8. SpendBound'
  <2> SUFFICES ASSUME NEW x \in Rcpts
               PROVE  /\ Spent(x)' <= 1 + repeated'[x] + lostFor[x]
                      /\ x \notin accepted' => Spent(x)' <= repeated'[x] + lostFor[x]
    BY <1>1 DEF SpendBound, MayCommit
  <2>1. /\ Spent(x) <= 1 + repeated[x] + lostFor[x]
        /\ x \notin accepted => Spent(x) <= repeated[x] + lostFor[x]
        /\ Spent(x) \in Nat /\ lostFor[x] \in Nat /\ repeated[x] \in Nat
    BY <1>0, <1>1, SpentIsNat DEF SpendBound, MayCommit
  <2>4. /\ repeated'[x] \in Nat /\ repeated'[x] >= repeated[x]
        /\ \/ UNCHANGED <<accepted, relayed>>
           \/ accepted' = accepted \union {r} /\ (x = r /\ r \in accepted => repeated'[x] = repeated[x] + 1)
    <3>1. CASE UNCHANGED <<accepted, relayed, repeated>>
      BY <2>1, <3>1
    <3>2. CASE /\ accepted' = accepted \union {r}
               /\ repeated' = IF NamedBefore(r) THEN Add(repeated, r) ELSE repeated
      BY <1>0, <1>3, <3>2, RepeatCounts
    <3> QED
      BY <1>4, <3>1, <3>2
  <2>2. CASE relayed' = relayed
    <3>1. Spent(x)' = Spent(x)
      BY <1>1, <2>2, SpentStays
    <3> QED
      BY <1>4, <2>1, <2>4, <3>1
  <2>3. CASE /\ accepted' = accepted \union {r}
             /\ relayed' = [relayed EXCEPT ![r] = relayed[r] + 1]
    <3>1. LateFor(x)' = LateFor(x)
      BY <1>1 DEF LateFor
    <3>2. copies[x] \in Nat /\ relayed[x] \in Nat /\ Cardinality(LateFor(x)) \in Nat
      BY <1>0, SpentIsNat
    <3>3. relayed'[x] = IF x = r THEN relayed[x] + 1 ELSE relayed[x]
      BY <1>0, <2>3 DEF InboundTypeOK
    <3>4. Spent(x)' = IF x = r THEN Spent(x) + 1 ELSE Spent(x)
      BY <1>1, <3>1, <3>2, <3>3 DEF Spent
    <3> QED
      BY <2>1, <2>3, <2>4, <3>2, <3>3, <3>4
  <2> QED
    BY <1>4, <2>2, <2>3
<1> QED
  BY <1>0, <1>1, <1>5, <1>6, <1>7, <1>8

\* A step of the request that the session waits for.
LEMMA DeliverKeeps ==
  ASSUME InboundInv, Deliver
  PROVE  HandledOnce' /\ SpendBound' /\ NeverRelays' /\ AcceptedIsKept' /\ IsFiniteSet(late')
<1>0. /\ InboundTypeOK /\ HandledOnce /\ SpendBound /\ NeverRelays /\ AcceptedIsKept /\ IsFiniteSet(late)
  BY DEF InboundInv
<1> DEFINE r == call.to
<1>1. /\ stage = "handle" /\ at \in DOMAIN rcptTo /\ r = rcptTo[at] /\ r \in Rcpts
      /\ UNCHANGED <<stage, rcptTo, answer, late, lostFor, submits>>
  BY <1>0, InHand DEF Deliver, HandledOnce
<1>2. r \in accepted => NamedBefore(r)
  BY <1>0, <1>1, InHand
<1>3. PICK out \in Results :
        /\ DeliverStep(call, out)
        /\ \/ /\ out.code = 0
              /\ call' = [call EXCEPT !.step = out.next]
              /\ UNCHANGED <<accepted, repeated, failCode, at>>
           \/ out.code = 200 /\ call' = NoCall /\ accepted' = accepted \union {r} /\ at' = at + 1
              /\ failCode' = failCode /\ repeated' = IF NamedBefore(r) THEN Add(repeated, r) ELSE repeated
           \/ /\ out.code \notin {0, 200} /\ call' = NoCall /\ at' = at + 1
              /\ failCode' = FailCodeOf(out) /\ UNCHANGED <<accepted, repeated>>
  BY DEF Deliver, Accept, FailWith
<1>4. /\ relayed' = relayed
      /\ \/ copies' = copies
         \/ out.code = 200 /\ copies' = [copies EXCEPT ![r] = copies[r] + 1]
      /\ gone \subseteq gone'
      /\ out.code = 200 => copies'[r] > 0 \/ r \in gone'
  BY <1>0, <1>1, <1>3, DeliverStepDoes
<1>5. HandledOnce'
  <2>1. CASE out.code = 0
    <3>1. call \in [to : Rcpts, step : CallSteps]
      BY <1>0 DEF Deliver, InboundTypeOK
    <3>2. call'.to = call.to
      BY <1>3, <2>1, <3>1
    <3> QED
      BY <1>0, <1>1, <1>3, <2>1, <3>2 DEF HandledOnce, InDoubt
  <2>2. CASE out.code # 0
    <3>1. failCode' \in {451, 452, 550} /\ accepted' \subseteq accepted \union {r}
      BY <1>0, <1>3, <2>2, ResultsMean DEF HandledOnce
    <3> QED
      BY <1>0, <1>1, <1>3, <2>2, <3>1, GoesToNext
  <2> QED
    BY <2>1, <2>2
<1>6. NeverRelays'
  BY <1>0, <1>1, <1>4, Zenon DEF NeverRelays
<1>7. copies \in [Rcpts -> Nat] /\ relayed \in [Rcpts -> Nat] /\ accepted \subseteq Rcpts
  BY <1>0 DEF InboundTypeOK
<1>8. AcceptedIsKept'
  BY <1>0, <1>1, <1>3, <1>4, <1>7 DEF AcceptedIsKept
<1>9. SpendBound'
  <2> SUFFICES ASSUME NEW x \in Rcpts
               PROVE  /\ Spent(x)' <= 1 + repeated'[x] + lostFor[x]
                      /\ x \notin accepted' => Spent(x)' <= repeated'[x] + lostFor[x]
    BY <1>1 DEF SpendBound, MayCommit
  <2>1. /\ Spent(x) <= 1 + repeated[x] + lostFor[x]
        /\ x \notin accepted => Spent(x) <= repeated[x] + lostFor[x]
        /\ Spent(x) \in Nat /\ lostFor[x] \in Nat /\ repeated[x] \in Nat
    BY <1>0, <1>1, SpentIsNat DEF SpendBound, MayCommit
  <2>4. /\ repeated'[x] \in Nat /\ repeated'[x] >= repeated[x]
        /\ out.code = 200 /\ x = r /\ r \in accepted => repeated'[x] = repeated[x] + 1
    <3>1. CASE out.code = 200
      BY <1>0, <1>1, <1>2, <1>3, <3>1, RepeatCounts
    <3>2. CASE out.code # 200
      BY <1>3, <2>1, <3>2
    <3> QED
      BY <3>1, <3>2
  <2>2. CASE copies' = copies
    <3>1. Spent(x)' = Spent(x)
      BY <1>1, <1>4, <2>2, SpentStays
    <3> QED
      BY <1>3, <2>1, <2>4, <3>1
  <2>3. CASE out.code = 200 /\ copies' = [copies EXCEPT ![r] = copies[r] + 1]
    <3>1. LateFor(x)' = LateFor(x)
      BY <1>1 DEF LateFor
    <3>2. copies[x] \in Nat /\ relayed[x] \in Nat /\ Cardinality(LateFor(x)) \in Nat
      BY <1>0, SpentIsNat
    <3>3. copies'[x] = IF x = r THEN copies[x] + 1 ELSE copies[x]
      BY <1>7, <2>3
    <3>4. Spent(x)' = IF x = r THEN Spent(x) + 1 ELSE Spent(x)
      BY <1>4, <3>1, <3>2, <3>3 DEF Spent
    <3> QED
      BY <1>3, <2>1, <2>3, <2>4, <3>4
  <2> QED
    BY <1>4, <2>2, <2>3
<1> QED
  BY <1>0, <1>1, <1>5, <1>6, <1>8, <1>9

\* The session gives up on the request it waits for: its recipient is in doubt.
LEMMA GiveUpKeeps ==
  ASSUME InboundInv, GiveUpCall
  PROVE  HandledOnce' /\ SpendBound' /\ NeverRelays' /\ AcceptedIsKept' /\ IsFiniteSet(late')
<1>0. /\ InboundTypeOK /\ HandledOnce /\ SpendBound /\ NeverRelays /\ AcceptedIsKept /\ IsFiniteSet(late)
  BY DEF InboundInv
<1> DEFINE r == call.to
<1>1. /\ stage = "handle" /\ at \in DOMAIN rcptTo /\ r = rcptTo[at] /\ r \in Rcpts
      /\ UNCHANGED <<stage, rcptTo, answer, submits, copies, relayed, gone, accepted, repeated>>
      /\ late' = late \union {Late(call)} /\ lostFor' = [lostFor EXCEPT ![r] = lostFor[r] + 1]
      /\ call' = NoCall /\ at' = at + 1 /\ failCode' = 451
  BY <1>0, InHand DEF GiveUpCall, HandledOnce, FailWith, placed, Add,
     InboundTypeOK
<1>2. HandledOnce'
  BY <1>0, <1>1, GoesToNext
<1>3. NeverRelays'
  BY <1>0, <1>1, Zenon DEF NeverRelays
<1>4. AcceptedIsKept'
  BY <1>0, <1>1 DEF AcceptedIsKept
<1>5. Late(call).to = r
  BY DEF Late
<1>6. IsFiniteSet(late')
  BY <1>0, <1>1, LateGrows
<1>7. SpendBound'
  <2> SUFFICES ASSUME NEW x \in Rcpts
               PROVE  /\ Spent(x)' <= 1 + repeated[x] + lostFor'[x]
                      /\ x \notin accepted => Spent(x)' <= repeated[x] + lostFor'[x]
    BY <1>1 DEF SpendBound, MayCommit
  <2>1. /\ Spent(x) <= 1 + repeated[x] + lostFor[x] /\ repeated[x] \in Nat
        /\ x \notin accepted => Spent(x) <= repeated[x] + lostFor[x]
        /\ Spent(x) \in Nat /\ lostFor[x] \in Nat /\ copies[x] \in Nat /\ relayed[x] \in Nat
    BY <1>0, <1>1, SpentIsNat DEF SpendBound, MayCommit
  <2>2. /\ Cardinality(LateFor(x)) \in Nat /\ Cardinality(LateFor(x)') \in Nat
        /\ Cardinality(LateFor(x)') <= Cardinality(LateFor(x)) + (IF r = x THEN 1 ELSE 0)
    BY <1>0, <1>1, <1>5, LateGrows
  <2>3. lostFor'[x] = lostFor[x] + (IF r = x THEN 1 ELSE 0)
    <3>1. lostFor \in [Rcpts -> Nat] /\ lostFor' = [lostFor EXCEPT ![r] = lostFor[r] + 1]
      BY <1>0, <1>1 DEF InboundTypeOK
    <3> QED
      BY <1>1, <3>1
  <2>4. Spent(x)' <= Spent(x) + (IF r = x THEN 1 ELSE 0) /\ Spent(x)' \in Nat
    BY <1>1, <2>1, <2>2 DEF Spent
  <2> QED
    BY <2>1, <2>3, <2>4
<1> QED
  BY <1>2, <1>3, <1>4, <1>6, <1>7

\* A request nobody waits for goes on: it was counted as spent when it was given up.
LEMMA LateKeeps ==
  ASSUME InboundInv, NEW c \in late, DeliverLate(c)
  PROVE  HandledOnce' /\ SpendBound' /\ NeverRelays' /\ AcceptedIsKept' /\ IsFiniteSet(late')
<1>0. /\ InboundTypeOK /\ HandledOnce /\ SpendBound /\ NeverRelays /\ AcceptedIsKept /\ IsFiniteSet(late)
  BY DEF InboundInv
<1> DEFINE r == c.to
<1>1. /\ c \in [to : Rcpts, step : CallSteps, arrival : Nat, place : Nat]
      /\ UNCHANGED <<stage, rcptTo, at, answer, submits, accepted, failCode, call, repeated, lostFor>>
  BY <1>0 DEF DeliverLate, InboundTypeOK, session
<1>2. PICK out \in Results :
        /\ DeliverStep(c, out)
        /\ late' = (late \ {c}) \union (IF out.code = 0 THEN {[c EXCEPT !.step = out.next]} ELSE {})
  BY DEF DeliverLate
<1> DEFINE X == IF out.code = 0 THEN {[c EXCEPT !.step = out.next]} ELSE {}
<1>3. /\ relayed' = relayed
      /\ \/ copies' = copies
         \/ out.code = 200 /\ copies' = [copies EXCEPT ![r] = copies[r] + 1]
      /\ gone \subseteq gone'
  BY <1>0, <1>1, <1>2, DeliverStepDoes
<1>4. (X = {} \/ \E d : X = {d} /\ d.to = c.to) /\ (out.code = 200 => X = {}) /\ late' = (late \ {c}) \union X
  <2>1. [c EXCEPT !.step = out.next].to = c.to
    BY <1>1
  <2>2. CASE out.code = 0
    <3>1. X = {[c EXCEPT !.step = out.next]}
      BY <2>2
    <3>2. late' = (late \ {c}) \union X
      BY <1>2
    <3>3. \E d : X = {d} /\ d.to = c.to
      BY <2>1, <3>1
    <3> QED
      BY <2>2, <3>2, <3>3
  <2>3. CASE out.code # 0
    BY <1>2, <2>3
  <2> QED
    BY <2>2, <2>3
<1>5. HandledOnce'
  BY <1>0, <1>1 DEF HandledOnce, InDoubt
<1>6. NeverRelays'
  BY <1>0, <1>1, <1>3, Zenon DEF NeverRelays
<1>7. copies \in [Rcpts -> Nat] /\ relayed \in [Rcpts -> Nat] /\ accepted \subseteq Rcpts
  BY <1>0 DEF InboundTypeOK
<1>8. AcceptedIsKept'
  BY <1>0, <1>1, <1>3, <1>7 DEF AcceptedIsKept
<1> HIDE DEF X
<1>9. IsFiniteSet(late')
  BY <1>0, <1>4, LateMoves
<1>10. SpendBound'
  <2>1. ASSUME NEW x \in Rcpts PROVE Spent(x)' <= Spent(x)
    <3>1. Spent(x) \in Nat /\ copies[x] \in Nat /\ relayed[x] \in Nat
      BY <1>0, SpentIsNat
    <3>2. /\ Cardinality(LateFor(x)) \in Nat /\ Cardinality(LateFor(x)') \in Nat
          /\ Cardinality(LateFor(x)') <= Cardinality(LateFor(x))
          /\ r = x /\ X = {} => Cardinality(LateFor(x)') <= Cardinality(LateFor(x)) - 1
      BY <1>0, <1>4, LateMoves
    <3>3. copies'[x] = copies[x] \/ (out.code = 200 /\ x = r /\ copies'[x] = copies[x] + 1)
      BY <1>3, <1>7
    <3> QED
      BY <1>3, <1>4, <3>1, <3>2, <3>3 DEF Spent
  <2>2. ASSUME NEW x \in Rcpts
        PROVE  Spent(x)' \in Nat /\ Spent(x) \in Nat /\ lostFor[x] \in Nat /\ repeated[x] \in Nat
    <3>1. InboundTypeOK'
      BY <1>0, InboundTypes DEF InboundNext
    <3>2. Spent(x)' \in Nat
      <4>1. copies'[x] \in Nat /\ relayed'[x] \in Nat
        BY <3>1 DEF InboundTypeOK
      <4>2. Cardinality(LateFor(x)') \in Nat
        BY <1>0, <1>4, LateMoves
      <4> QED
        BY <4>1, <4>2 DEF Spent
    <3> QED
      BY <1>0, <3>2, SpentIsNat
  <2> QED
    BY <1>0, <1>1, <2>1, <2>2 DEF SpendBound, MayCommit, InDoubt
<1> QED
  BY <1>5, <1>6, <1>8, <1>9, <1>10

\* A connection that breaks leaves those in doubt that were accepted or in hand.
LEMMA LoseKeeps ==
  ASSUME InboundInv, LoseConnection
  PROVE  HandledOnce' /\ SpendBound' /\ NeverRelays' /\ AcceptedIsKept' /\ IsFiniteSet(late')
<1>0. /\ InboundTypeOK /\ HandledOnce /\ SpendBound /\ NeverRelays /\ AcceptedIsKept /\ IsFiniteSet(late)
  BY DEF InboundInv
<1>1. /\ stage # "closed" /\ stage' = "closed" /\ rcptTo' = <<>> /\ answer' = 0 /\ accepted' = {}
      /\ call' = NoCall /\ failCode' = 451
      /\ UNCHANGED <<submits, copies, relayed, gone, repeated>>
  BY DEF LoseConnection, EndData, placed
<1>2. HandledOnce'
  BY <1>1 DEF HandledOnce, InDoubt
<1>3. NeverRelays'
  BY <1>0, <1>1, Zenon DEF NeverRelays
<1>4. AcceptedIsKept'
  BY <1>1 DEF AcceptedIsKept
<1>5. Late(call).to = call.to
  BY DEF Late
<1>6. IsFiniteSet(late')
  BY <1>0, LateGrows DEF LoseConnection
<1>7. SpendBound'
  <2> SUFFICES ASSUME NEW x \in Rcpts
               PROVE  /\ Spent(x)' <= repeated[x] + lostFor'[x]
                      /\ Spent(x)' <= 1 + repeated[x] + lostFor'[x]
    BY <1>1 DEF SpendBound
  <2>1. /\ Spent(x) <= 1 + repeated[x] + lostFor[x] /\ repeated[x] \in Nat
        /\ x \notin accepted => Spent(x) <= repeated[x] + lostFor[x]
        /\ Spent(x) \in Nat /\ lostFor[x] \in Nat /\ copies[x] \in Nat /\ relayed[x] \in Nat
        /\ Cardinality(LateFor(x)) \in Nat
    BY <1>0, <1>1, SpentIsNat DEF SpendBound, MayCommit
  <2>2. CASE call = NoCall
    <3>1. late' = late /\ lostFor'[x] = IF x \in accepted THEN lostFor[x] + 1 ELSE lostFor[x]
      BY <2>1, <2>2 DEF LoseConnection
    <3>2. Spent(x)' = Spent(x)
      BY <1>1, <3>1, SpentStays
    <3> QED
      BY <2>1, <3>1, <3>2
  <2>3. CASE call # NoCall
    <3>1. /\ late' = late \union {Late(call)}
          /\ lostFor'[x] = lostFor[x] + (IF x \in accepted THEN 1 ELSE 0)
                                      + (IF call.to = x THEN 1 ELSE 0)
      BY <2>3 DEF LoseConnection
    <3>3. /\ Cardinality(LateFor(x)') \in Nat
          /\ Cardinality(LateFor(x)') <= Cardinality(LateFor(x)) + (IF call.to = x THEN 1 ELSE 0)
      BY <1>0, <1>5, <3>1, LateGrows
    <3>4. Spent(x)' <= Spent(x) + (IF call.to = x THEN 1 ELSE 0) /\ Spent(x)' \in Nat
      BY <1>1, <2>1, <3>3 DEF Spent
    <3> QED
      BY <2>1, <3>1, <3>4
  <2> QED
    BY <2>2, <2>3
<1> QED
  BY <1>2, <1>3, <1>4, <1>6, <1>7

\* InboundInv holds in every reachable state.
THEOREM InboundSafe == InboundSpec => []InboundInv
<1>1. InboundInit => InboundInv
  <2> SUFFICES ASSUME InboundInit PROVE InboundInv
    OBVIOUS
  <2>1. submits \in BOOLEAN /\ signedIn \in BOOLEAN /\ aliasFailure \in BOOLEAN
    BY Zenon DEF InboundInit
  <2>2. InboundTypeOK
    BY <2>1 DEF InboundInit, InboundTypeOK, Stages, Codes, None, AllAbsent, CallSteps
  <2>3. IsFiniteSet(late) /\ \A r \in Rcpts : Cardinality(LateFor(r)) = 0
    BY FS_EmptySet DEF InboundInit, LateFor
  <2>4. SpendBound
    BY <2>3 DEF InboundInit, SpendBound, Spent, None
  <2>5. HandledOnce /\ NeverRelays /\ AcceptedIsKept
    BY DEF InboundInit, HandledOnce, NeverRelays, AcceptedIsKept, InDoubt, None
  <2> QED
    BY <2>2, <2>3, <2>4, <2>5 DEF InboundInv
<1>2. InboundInv /\ [InboundNext]_inbound => InboundInv'
  <2> SUFFICES ASSUME InboundInv, [InboundNext]_inbound PROVE InboundInv'
    OBVIOUS
  <2>1. InboundTypeOK'
    BY InboundTypes DEF InboundInv
  <2>2. HandledOnce' /\ SpendBound' /\ NeverRelays' /\ AcceptedIsKept' /\ IsFiniteSet(late')
    BY QuietSteps, HandlingKeeps, DeliverKeeps, GiveUpKeeps, LateKeeps, LoseKeeps
    DEF InboundNext, DataStep
  <2> QED
    BY <2>1, <2>2 DEF InboundInv
<1> QED
  BY <1>1, <1>2, PTL DEF InboundSpec

\* A message from another server is never queued to go elsewhere as a client's mail,
\* whatever its recipients' addresses turn into while it is handled.
THEOREM InboundNeverRelays == InboundSpec => []NeverRelays
<1>1. InboundInv => NeverRelays
  BY DEF InboundInv
<1> QED
  BY <1>1, InboundSafe, PTL

\* A recipient gets the message once through all the times it is sent, once more at
\* most for each time that an envelope names it again (RCPT appends what it is given, and
\* DATA handles every entry), and once more for each attempt whose end the session or
\* the sender did not learn.
THEOREM InboundCommittedOnce == InboundSpec => []CommittedOnce
<1>1. ASSUME InboundInv PROVE CommittedOnce
  <2> SUFFICES ASSUME NEW r \in Rcpts PROVE copies[r] + relayed[r] <= 1 + repeated[r] + lostFor[r]
    BY DEF CommittedOnce
  <2>1. Spent(r) <= 1 + repeated[r] + lostFor[r]
    BY <1>1 DEF InboundInv, SpendBound
  <2>2. /\ repeated[r] \in Nat /\ lostFor[r] \in Nat /\ copies[r] \in Nat /\ relayed[r] \in Nat
        /\ Cardinality(LateFor(r)) \in Nat
    BY <1>1, SpentIsNat DEF InboundInv
  <2> QED
    BY <2>1, <2>2 DEF Spent
<1> QED
  BY <1>1, InboundSafe, PTL

\* No recipient counts as accepted whose message is neither kept nor sent on.
THEOREM InboundAcceptedIsKept == InboundSpec => []AcceptedIsKept
<1>1. InboundInv => AcceptedIsKept
  BY DEF InboundInv
<1> QED
  BY <1>1, InboundSafe, PTL

-----------------------------------------------------------------------------
(* Slots of connections *)

\* Connections that count in global, and those of source i that count in perIP.
InGlobal(c) ==
  \/ admission[c] = "granted"
  \/ admission[c] = "settled" /\ (~slotReleased[c] \/ releasing[c] = "global")
InPerIP(c) ==
  \/ admission[c] = "granted"
  \/ admission[c] = "settled" /\ (~slotReleased[c] \/ releasing[c] \in {"global", "ip"})
Holders      == {c \in Conns : InGlobal(c)}
HoldersAt(i) == {c \in Conns : InPerIP(c) /\ IpOf[c] = i}

SlotTypeOK ==
  /\ global \in Nat /\ perIP \in [Ips -> Nat]
  /\ admission \in [Conns -> {"new", "granted", "refused", "settled"}]
  /\ slotHeld \in [Conns -> BOOLEAN] /\ slotReleased \in [Conns -> BOOLEAN]
  /\ connClosed \in [Conns -> BOOLEAN]
  /\ releasing \in [Conns -> {"no", "global", "ip"}]

\* The counters count, and stay within the limits.
CountersAgree ==
  /\ global = Cardinality(Holders) /\ global <= MaxGlobal
  /\ \A i \in Ips : perIP[i] = Cardinality(HoldersAt(i)) /\ perIP[i] <= MaxPerIP

\* A slot is held by whom it was granted to, and given back by a close or for one that
\* came first.
SlotOrder ==
  \A c \in Conns :
    /\ slotHeld[c] => admission[c] = "settled"
    /\ slotReleased[c] => admission[c] = "settled" /\ connClosed[c]
    /\ releasing[c] # "no" => slotReleased[c]
    /\ admission[c] = "settled" => slotHeld[c] \/ slotReleased[c]
    /\ admission[c] = "settled" /\ connClosed[c] => slotReleased[c]

SlotInv == SlotTypeOK /\ CountersAgree /\ SlotOrder

\* One element more, one less.
LEMMA OneMore ==
  ASSUME NEW S, IsFiniteSet(S), NEW x, x \notin S
  PROVE  Cardinality(S \union {x}) = Cardinality(S) + 1
  BY FS_AddElement

\* A finite set with a member taken out.
LEMMA OneLess ==
  ASSUME NEW S, IsFiniteSet(S), NEW x \in S
  PROVE  Cardinality(S \ {x}) = Cardinality(S) - 1
  BY FS_RemoveElement

\* The connections that hold a slot can be counted.
LEMMA HoldersFinite ==
  ASSUME NEW i
  PROVE  /\ IsFiniteSet(Holders) /\ IsFiniteSet(HoldersAt(i))
         /\ Cardinality(Holders) \in Nat /\ Cardinality(HoldersAt(i)) \in Nat
<1>1. IsFiniteSet(Holders) /\ IsFiniteSet(HoldersAt(i))
  BY LimiterAssumption, FS_Subset DEF Holders, HoldersAt
<1> QED
  BY <1>1, FS_CardinalityType

\* What changes for one connection changes the sets of holders by it alone.
LEMMA HoldersMove ==
  ASSUME NEW c \in Conns, SlotTypeOK,
         \A d \in Conns \ {c} : UNCHANGED <<admission[d], slotReleased[d], releasing[d]>>
  PROVE  /\ Holders' \ {c} = Holders \ {c} /\ (c \in Holders <=> InGlobal(c)) /\ (c \in Holders' <=> InGlobal(c)')
         /\ \A i \in Ips : /\ HoldersAt(i)' \ {c} = HoldersAt(i) \ {c}
                           /\ c \in HoldersAt(i) <=> InPerIP(c) /\ IpOf[c] = i
                           /\ c \in HoldersAt(i)' <=> InPerIP(c)' /\ IpOf[c] = i
  BY DEF Holders, HoldersAt, InGlobal, InPerIP

\* A connection is admitted: the limits were looked at under the lock.
LEMMA AcceptKeepsSlots ==
  ASSUME SlotInv, NEW c \in Conns, AcceptConn(c)
  PROVE  SlotInv'
<1>0. SlotTypeOK /\ CountersAgree /\ SlotOrder /\ IpOf[c] \in Ips
  BY LimiterAssumption DEF SlotInv
<1>1. admission[c] = "new" /\ UNCHANGED <<slotHeld, slotReleased, connClosed, releasing>>
  BY DEF AcceptConn
<1>2. SlotOrder'
  BY <1>0, <1>1 DEF AcceptConn, SlotOrder, SlotTypeOK
<1>3. \A d \in Conns \ {c} : UNCHANGED <<admission[d], slotReleased[d], releasing[d]>>
  BY <1>0 DEF AcceptConn, SlotTypeOK
<1>9. /\ Holders' \ {c} = Holders \ {c} /\ (c \in Holders <=> InGlobal(c)) /\ (c \in Holders' <=> InGlobal(c)')
      /\ \A i \in Ips : /\ HoldersAt(i)' \ {c} = HoldersAt(i) \ {c}
                        /\ c \in HoldersAt(i) <=> InPerIP(c) /\ IpOf[c] = i
                        /\ c \in HoldersAt(i)' <=> InPerIP(c)' /\ IpOf[c] = i
  BY <1>0, <1>3, HoldersMove
<1>4. CASE admission' = [admission EXCEPT ![c] = "refused"] /\ UNCHANGED <<global, perIP>>
  <2>1. ~InGlobal(c) /\ ~InPerIP(c) /\ ~InGlobal(c)' /\ ~InPerIP(c)'
    BY <1>0, <1>1, <1>4 DEF InGlobal, InPerIP, SlotTypeOK
  <2>2. Holders' = Holders /\ \A i \in Ips : HoldersAt(i)' = HoldersAt(i)
    BY <1>0, <1>9, <2>1
  <2>3. SlotTypeOK'
    BY <1>0, <1>1, <1>4 DEF SlotTypeOK
  <2> QED
    BY <1>0, <1>2, <1>4, <2>2, <2>3 DEF SlotInv, CountersAgree
<1>5. CASE /\ MayAccept(IpOf[c]) /\ admission' = [admission EXCEPT ![c] = "granted"]
           /\ global' = global + 1 /\ perIP' = [perIP EXCEPT ![IpOf[c]] = perIP[IpOf[c]] + 1]
  <2>1. ~InGlobal(c) /\ ~InPerIP(c) /\ InGlobal(c)' /\ InPerIP(c)'
    BY <1>0, <1>1, <1>5 DEF InGlobal, InPerIP, SlotTypeOK
  <2>2. Holders' = Holders \union {c} /\ c \notin Holders
    BY <1>0, <1>9, <2>1
  <2>3. \A i \in Ips \ {IpOf[c]} : HoldersAt(i)' = HoldersAt(i)
    BY <1>0, <1>9, <2>1
  <2>4. HoldersAt(IpOf[c])' = HoldersAt(IpOf[c]) \union {c} /\ c \notin HoldersAt(IpOf[c])
    BY <1>0, <1>9, <2>1
  <2>5. Cardinality(Holders') = Cardinality(Holders) + 1
    BY <2>2, HoldersFinite, OneMore
  <2>6. Cardinality(HoldersAt(IpOf[c])') = Cardinality(HoldersAt(IpOf[c])) + 1
    BY <2>4, HoldersFinite, OneMore
  <2>7. SlotTypeOK'
    BY <1>0, <1>1, <1>5 DEF SlotTypeOK
  <2>8. global' = Cardinality(Holders') /\ global' <= MaxGlobal
    BY <1>0, <1>5, <2>5, LimiterAssumption DEF CountersAgree, MayAccept, SlotTypeOK
  <2>9. ASSUME NEW i \in Ips PROVE perIP'[i] = Cardinality(HoldersAt(i)') /\ perIP'[i] <= MaxPerIP
    BY <1>0, <1>5, <2>3, <2>6, LimiterAssumption DEF CountersAgree, MayAccept,
       SlotTypeOK
  <2> QED
    BY <1>2, <2>7, <2>8, <2>9 DEF SlotInv, CountersAgree
<1> QED
  BY <1>4, <1>5 DEF AcceptConn

\* Settling and closing take and give back no slot: they say who will.
LEMMA CloseKeepsSlots ==
  ASSUME SlotInv, NEW c \in Conns, Settle(c) \/ CloseConn(c)
  PROVE  SlotInv'
<1>0. SlotTypeOK /\ CountersAgree /\ SlotOrder
  BY DEF SlotInv
<1>1. SlotTypeOK' /\ UNCHANGED <<global, perIP>>
  BY <1>0 DEF Settle, CloseConn, SlotTypeOK
<1>2. SlotOrder'
  BY <1>0 DEF Settle, CloseConn, CloseReleases, SlotOrder, SlotTypeOK
<1>3. \A d \in Conns \ {c} : UNCHANGED <<admission[d], slotReleased[d], releasing[d]>>
  BY <1>0 DEF Settle, CloseConn, SlotTypeOK
<1>9. /\ Holders' \ {c} = Holders \ {c} /\ (c \in Holders <=> InGlobal(c)) /\ (c \in Holders' <=> InGlobal(c)')
      /\ \A i \in Ips : /\ HoldersAt(i)' \ {c} = HoldersAt(i) \ {c}
                        /\ c \in HoldersAt(i) <=> InPerIP(c) /\ IpOf[c] = i
                        /\ c \in HoldersAt(i)' <=> InPerIP(c)' /\ IpOf[c] = i
  BY <1>0, <1>3, HoldersMove
<1>4. InGlobal(c)' = InGlobal(c) /\ InPerIP(c)' = InPerIP(c)
  BY <1>0 DEF Settle, CloseConn, CloseReleases, InGlobal, InPerIP, SlotTypeOK,
     SlotOrder
<1>5. Holders' = Holders /\ \A i \in Ips : HoldersAt(i)' = HoldersAt(i)
  BY <1>0, <1>9, <1>4
<1> QED
  BY <1>0, <1>1, <1>2, <1>5 DEF SlotInv, CountersAgree

\* A release takes the connection out of one count and then of the other.
LEMMA ReleaseKeepsSlots ==
  ASSUME SlotInv, NEW c \in Conns, ReleaseGlobal(c) \/ ReleaseIP(c)
  PROVE  SlotInv'
<1>0. SlotTypeOK /\ CountersAgree /\ SlotOrder /\ IpOf[c] \in Ips
  BY LimiterAssumption DEF SlotInv
<1>1. slotReleased[c] /\ admission[c] = "settled"
  BY <1>0 DEF SlotOrder, ReleaseGlobal, ReleaseIP
<1>2. SlotOrder'
  BY <1>0, <1>1 DEF ReleaseGlobal, ReleaseIP, SlotOrder, SlotTypeOK
<1>3. \A d \in Conns \ {c} : UNCHANGED <<admission[d], slotReleased[d], releasing[d]>>
  BY <1>0 DEF ReleaseGlobal, ReleaseIP, SlotTypeOK
<1>9. /\ Holders' \ {c} = Holders \ {c} /\ (c \in Holders <=> InGlobal(c)) /\ (c \in Holders' <=> InGlobal(c)')
      /\ \A i \in Ips : /\ HoldersAt(i)' \ {c} = HoldersAt(i) \ {c}
                        /\ c \in HoldersAt(i) <=> InPerIP(c) /\ IpOf[c] = i
                        /\ c \in HoldersAt(i)' <=> InPerIP(c)' /\ IpOf[c] = i
  BY <1>0, <1>3, HoldersMove
<1>4. /\ Cardinality(Holders) \in Nat
      /\ \A i \in Ips : Cardinality(HoldersAt(i)) \in Nat
  BY HoldersFinite
<1>5. CASE ReleaseGlobal(c)
  <2>1. InGlobal(c) /\ ~InGlobal(c)' /\ InPerIP(c) /\ InPerIP(c)'
    BY <1>0, <1>1, <1>5 DEF ReleaseGlobal, InGlobal, InPerIP, SlotTypeOK
  <2>2. Holders' = Holders \ {c} /\ c \in Holders /\ \A i \in Ips : HoldersAt(i)' = HoldersAt(i)
    BY <1>0, <1>9, <2>1
  <2>3. Cardinality(Holders') = Cardinality(Holders) - 1 /\ Cardinality(Holders') \in Nat
    BY <2>2, HoldersFinite, OneLess, FS_RemoveElement, FS_CardinalityType
  <2>4. SlotTypeOK'
    BY <1>0, <1>4, <1>5, <2>3 DEF SlotTypeOK, ReleaseGlobal, CountersAgree
  <2> QED
    BY <1>0, <1>2, <1>4, <1>5, <2>2, <2>3, <2>4, LimiterAssumption
    DEF SlotInv, CountersAgree, ReleaseGlobal, SlotTypeOK
<1>6. CASE ReleaseIP(c)
  <2>1. ~InGlobal(c) /\ ~InGlobal(c)' /\ InPerIP(c) /\ ~InPerIP(c)'
    BY <1>0, <1>1, <1>6 DEF ReleaseIP, InGlobal, InPerIP, SlotTypeOK
  <2> DEFINE j == IpOf[c]
  <2>2. Holders' = Holders /\ \A i \in Ips \ {j} : HoldersAt(i)' = HoldersAt(i)
    BY <1>0, <1>9, <2>1
  <2>3. HoldersAt(j)' = HoldersAt(j) \ {c} /\ c \in HoldersAt(j)
    BY <1>0, <1>9, <2>1
  <2>4. Cardinality(HoldersAt(j)') = Cardinality(HoldersAt(j)) - 1 /\ Cardinality(HoldersAt(j)') \in Nat
    BY <2>3, HoldersFinite, OneLess, FS_RemoveElement, FS_CardinalityType
  <2>5. perIP' = [perIP EXCEPT ![j] = perIP[j] - 1] /\ global' = global
    BY <1>6 DEF ReleaseIP
  <2>6. SlotTypeOK'
    BY <1>0, <1>4, <1>6, <2>4, <2>5 DEF SlotTypeOK, ReleaseIP, CountersAgree
  <2>7. ASSUME NEW i \in Ips PROVE perIP'[i] = Cardinality(HoldersAt(i)') /\ perIP'[i] <= MaxPerIP
    BY <1>0, <1>4, <2>2, <2>4, <2>5, LimiterAssumption DEF CountersAgree, SlotTypeOK
  <2> QED
    BY <1>0, <1>2, <2>2, <2>5, <2>6, <2>7 DEF SlotInv, CountersAgree
<1> QED
  BY <1>5, <1>6

\* Admissions, closes and lock-free releases, in any order, for any number of
\* connections: the limits hold, and no slot is lost or given back twice.
THEOREM LimiterSlotsHold == LimiterSpec => []SlotsHold
<1>1. LimiterInit => SlotInv
  <2> SUFFICES ASSUME LimiterInit PROVE SlotInv
    OBVIOUS
  <2>1. Holders = {} /\ \A i \in Ips : HoldersAt(i) = {}
    BY DEF LimiterInit, Holders, HoldersAt, InGlobal, InPerIP
  <2>2. CountersAgree
    <3>1. Cardinality(Holders) = 0 /\ \A i \in Ips : Cardinality(HoldersAt(i)) = 0
      BY <2>1, FS_EmptySet
    <3>2. MaxGlobal \in Nat /\ MaxPerIP \in Nat
      BY LimiterAssumption
    <3> QED
      BY <3>1, <3>2 DEF LimiterInit, CountersAgree
  <2> QED
    BY <2>2 DEF LimiterInit, SlotInv, SlotTypeOK, SlotOrder
<1>2. SlotInv /\ [LimiterNext]_limiter => SlotInv'
  <2> SUFFICES ASSUME SlotInv, [LimiterNext]_limiter PROVE SlotInv'
    OBVIOUS
  <2>1. ASSUME NEW c \in Conns, SlotStep(c) PROVE SlotInv'
    BY <2>1, AcceptKeepsSlots, CloseKeepsSlots, ReleaseKeepsSlots DEF SlotStep
  <2>2. ASSUME UNCHANGED slotVars PROVE SlotInv'
    <3>1. UNCHANGED <<global, perIP, admission, slotHeld, slotReleased, connClosed, releasing>>
      BY <2>2 DEF slotVars
    <3>2. Holders' = Holders /\ \A i \in Ips : HoldersAt(i)' = HoldersAt(i)
      BY <3>1 DEF Holders, HoldersAt, InGlobal, InPerIP
    <3>3. SlotTypeOK' /\ SlotOrder'
      BY <3>1 DEF SlotInv, SlotTypeOK, SlotOrder
    <3> QED
      BY <3>1, <3>2, <3>3 DEF SlotInv, CountersAgree
  <2>3. ASSUME NEW s \in Logins, LoginStep(s) PROVE UNCHANGED slotVars
    BY <2>3 DEF LoginStep, LoginStarts, LoginBarred, LoginFails, LoginSucceeds,
       LoginErrs
  <2> QED
    BY <2>1, <2>2, <2>3 DEF LimiterNext, TimePasses, limiter
<1>3. ASSUME SlotInv PROVE SlotsHold
  <2>0. SlotTypeOK /\ CountersAgree /\ SlotOrder
    BY <1>3 DEF SlotInv
  <2>1. OpenConns \subseteq Holders /\ \A i \in Ips : {c \in OpenConns : IpOf[c] = i} \subseteq HoldersAt(i)
    BY <2>0 DEF OpenConns, Holders, HoldersAt, InGlobal, InPerIP, SlotOrder,
       SlotTypeOK
  <2>2. Cardinality(OpenConns) <= Cardinality(Holders) /\ Cardinality(OpenConns) \in Nat
    BY <2>1, HoldersFinite, FS_Subset, FS_CardinalityType
  <2>3. ASSUME NEW i \in Ips
        PROVE  Cardinality({c \in OpenConns : IpOf[c] = i}) <= MaxPerIP
    <3> DEFINE O == {c \in OpenConns : IpOf[c] = i}
    <3>1. O \subseteq HoldersAt(i)
      BY <2>1
    <3>2. IsFiniteSet(HoldersAt(i)) /\ Cardinality(HoldersAt(i)) <= MaxPerIP /\ Cardinality(HoldersAt(i)) \in Nat
      BY <2>0, HoldersFinite DEF CountersAgree
    <3> HIDE DEF O
    <3>3. Cardinality(O) <= Cardinality(HoldersAt(i)) /\ Cardinality(O) \in Nat
      BY <3>1, <3>2, FS_Subset, FS_CardinalityType
    <3> QED
      BY <3>2, <3>3, LimiterAssumption DEF O
  <2>4. CapsHold
    BY <2>0, <2>2, <2>3, HoldersFinite, LimiterAssumption DEF CapsHold, CountersAgree
  <2>5. NoSlotLeaks
    <3> SUFFICES ASSUME \A c \in Conns : /\ connClosed[c] /\ admission[c] \in {"refused", "settled"}
                                         /\ releasing[c] = "no"
                 PROVE  global = 0 /\ \A i \in Ips : perIP[i] = 0
      BY DEF NoSlotLeaks
    <3>1. Holders = {} /\ \A i \in Ips : HoldersAt(i) = {}
      BY <2>0 DEF Holders, HoldersAt, InGlobal, InPerIP, SlotOrder, SlotTypeOK
    <3> QED
      BY <2>0, <3>1, FS_EmptySet DEF CountersAgree
  <2> QED
    BY <2>4, <2>5 DEF SlotsHold
<1> QED
  BY <1>1, <1>2, <1>3, PTL DEF LimiterSpec

-----------------------------------------------------------------------------
(* Bans *)

BanTypeOK ==
  /\ clock \in Nat \ {0}
  /\ bannedAt \in [Keys -> Nat]
  /\ trying \in [Logins -> SUBSET Keys]
  /\ since \in [Logins -> Nat]
  /\ failures \in [Keys -> SUBSET (Nat \X Nat)]
  /\ tried \in [Keys -> SUBSET (Nat \X Nat)]
  /\ \A k \in Keys : IsFiniteSet(failures[k]) /\ IsFiniteSet(tried[k])

\* The logins whose result counts for k.
Waiting(k) == {s \in Logins : k \in trying[s]}

\* No login has waited longer than the timeout.
InTime ==
  \A s \in Logins :
    trying[s] # {} => since[s] <= clock /\ clock <= since[s] + LoginTimeout

\* Under a ban only logins that began before it are under way, so whatever is
\* counted for k is counted within a timeout of the ban.
BanTimes(k) ==
  /\ \A f \in tried[k] : f[1] <= clock
  /\ bannedAt[k] > 0 =>
       /\ \A s \in Waiting(k) : since[s] <= bannedAt[k]
       /\ \A f \in tried[k] : f[1] <= bannedAt[k] + LoginTimeout

\* No recent failure is forgotten; with no ban there are fewer of them than the
\* limit, and with one, each login still under way may add one more.
BanCounts(k) ==
  /\ Recent(tried[k]) \subseteq failures[k]
  /\ bannedAt[k] = 0 => Cardinality(failures[k]) < AuthMaxFails
  /\ bannedAt[k] > 0 =>
       Cardinality(Recent(tried[k])) + Cardinality(Waiting(k))
         <= AuthMaxFails + Cardinality(Logins) - 1

BanInv ==
  /\ BanTypeOK
  /\ InTime
  /\ \A k \in Keys : BanTimes(k) /\ BanCounts(k)

\* One more element makes a set at most one larger.
LEMMA GrowsByOne ==
  ASSUME NEW Q, IsFiniteSet(Q), NEW x
  PROVE  /\ IsFiniteSet(Q \union {x})
         /\ Cardinality(Q) \in Nat /\ Cardinality(Q \union {x}) \in Nat
         /\ Cardinality(Q \union {x}) <= Cardinality(Q) + 1
BY AtMostOneMore, FS_AddElement, FS_CardinalityType

\* The sets that are counted are finite.
LEMMA BansFinite ==
  ASSUME BanTypeOK, NEW k \in Keys
  PROVE  /\ IsFiniteSet(Waiting(k)) /\ Cardinality(Waiting(k)) \in Nat
         /\ IsFiniteSet(Recent(tried[k])) /\ Cardinality(Recent(tried[k])) \in Nat
         /\ Cardinality(failures[k]) \in Nat
         /\ Cardinality(Logins) \in Nat
         /\ Cardinality(Waiting(k)) <= Cardinality(Logins)
         /\ Recent(tried[k]) \subseteq failures[k] =>
              Cardinality(Recent(tried[k])) <= Cardinality(failures[k])
<1>1. IsFiniteSet(Logins) /\ Cardinality(Logins) \in Nat
  BY LimiterAssumption, FS_CardinalityType
<1>2. IsFiniteSet(failures[k]) /\ IsFiniteSet(tried[k])
  BY DEF BanTypeOK
<1>3. Waiting(k) \subseteq Logins /\ Recent(tried[k]) \subseteq tried[k]
  BY DEF Waiting, Recent
<1>4. QED
  BY <1>1, <1>2, <1>3, FS_Subset, FS_CardinalityType

\* When a ban has run out, no login that began before it is under way any more
\* and every failure is outside the window.
LEMMA ExpiredIsOver ==
  ASSUME BanInv, NEW k \in Keys, Expired(k)
  PROVE  Waiting(k) = {} /\ Recent(tried[k]) = {}
<1>1. /\ bannedAt[k] \in Nat /\ clock \in Nat
      /\ bannedAt[k] > 0 /\ clock - bannedAt[k] > AuthBanDuration
      /\ {AuthBanWindow, AuthBanDuration, LoginTimeout} \subseteq Nat
      /\ AuthBanDuration >= AuthBanWindow + LoginTimeout
  BY LimiterAssumption DEF BanInv, BanTypeOK, Expired
<1>2. ASSUME NEW s \in Waiting(k) PROVE FALSE
  <2>1. s \in Logins /\ trying[s] # {} /\ since[s] \in Nat
    BY <1>2 DEF Waiting, BanInv, BanTypeOK
  <2>2. since[s] <= bannedAt[k] /\ clock <= since[s] + LoginTimeout
    BY <1>1, <1>2, <2>1 DEF BanInv, BanTimes, InTime
  <2>3. QED
    BY <1>1, <2>1, <2>2
<1>3. ASSUME NEW f \in Recent(tried[k]) PROVE FALSE
  <2>1. f \in tried[k] /\ f \in Nat \X Nat /\ f[1] > clock - AuthBanWindow
    BY <1>3 DEF Recent, BanInv, BanTypeOK
  <2>2. f[1] <= bannedAt[k] + LoginTimeout
    BY <1>1, <2>1 DEF BanInv, BanTimes
  <2>3. f[1] \in Nat
    BY <2>1
  <2>4. QED
    BY <1>1, <2>1, <2>2, <2>3
<1>4. QED
  BY <1>2, <1>3

\* Looking at a ban that has run out forgets nothing recent; no ban is set.
LEMMA LapseKeepsCounts ==
  ASSUME BanInv, NEW S, Lapse(S), UNCHANGED <<clock, tried>>,
         NEW k \in Keys, Waiting(k)' = Waiting(k) \/ bannedAt'[k] = 0,
         \A s \in Waiting(k) : since'[s] = since[s]
  PROVE  BanTimes(k)' /\ BanCounts(k)'
<1>0. BanTypeOK /\ BanTimes(k) /\ BanCounts(k)
  BY DEF BanInv
<1>1. Recent(tried[k])' = Recent(tried[k])
  BY DEF Recent
<1>2. CASE Expired(k) /\ k \in S
  <2>1. failures'[k] = {} /\ bannedAt'[k] = 0
    BY <1>2 DEF Lapse
  <2>2. Recent(tried[k]) = {}
    BY <1>2, ExpiredIsOver
  <2>3. Cardinality(failures'[k]) = 0 /\ AuthMaxFails \in Nat \ {0}
    BY <2>1, FS_EmptySet, LimiterAssumption
  <2>4. QED
    BY <1>0, <1>1, <2>1, <2>2, <2>3 DEF BanTimes, BanCounts
<1>3. CASE ~(Expired(k) /\ k \in S)
  <2>1. failures'[k] = failures[k] /\ bannedAt'[k] = bannedAt[k]
    BY <1>3 DEF Lapse
  <2>2. BanTimes(k)'
    BY <1>0, <2>1 DEF BanTimes
  <2>3. BanCounts(k)'
    BY <1>0, <1>1, <2>1 DEF BanCounts
  <2>4. QED
    BY <2>2, <2>3
<1>4. QED
  BY <1>2, <1>3

\* Bans that run out leave the types as they are.
LEMMA LapseTyped ==
  ASSUME BanTypeOK, NEW S, Lapse(S)
  PROVE  /\ failures' \in [Keys -> SUBSET (Nat \X Nat)] /\ bannedAt' \in [Keys -> Nat]
         /\ \A k \in Keys : IsFiniteSet(failures'[k])
<1>1. /\ failures' = [k \in Keys |-> IF k \in S /\ Expired(k) THEN {} ELSE failures[k]]
      /\ bannedAt' = [k \in Keys |-> IF k \in S /\ Expired(k) THEN 0 ELSE bannedAt[k]]
  BY DEF Lapse
<1>2. \A k \in Keys : failures'[k] = {} \/ failures'[k] = failures[k]
  BY <1>1
<1>3. \A k \in Keys : IsFiniteSet(failures'[k])
  BY <1>2, FS_EmptySet DEF BanTypeOK
<1>4. QED
  BY <1>1, <1>3 DEF BanTypeOK

\* A login that starts: what is banned is not tried.
LEMMA StartKeepsBans ==
  ASSUME BanInv, NEW s \in Logins, NEW S \in SUBSET Keys, LoginStarts(s, S)
  PROVE  BanInv'
<1>1. /\ trying' = [trying EXCEPT ![s] = S] /\ since' = [since EXCEPT ![s] = clock]
      /\ Lapse(S) /\ MayTry(S) /\ trying[s] = {} /\ clock' = clock /\ tried' = tried
  BY DEF LoginStarts
<1>2. BanTypeOK'
  BY <1>1, LapseTyped DEF BanInv, BanTypeOK
<1>3. InTime'
  BY <1>1, LimiterAssumption DEF BanInv, BanTypeOK, InTime
<1>4. ASSUME NEW k \in Keys PROVE BanTimes(k)' /\ BanCounts(k)'
  <2>1. s \notin Waiting(k)
    BY <1>1 DEF Waiting
  <2>2. CASE k \in S
    <3>1. bannedAt'[k] = 0
      BY <1>1, <2>2 DEF Lapse, MayTry, Banned, BanInv, BanTypeOK
    <3>2. \A q \in Waiting(k) : since'[q] = since[q]
      BY <1>1, <2>1 DEF Waiting, BanInv, BanTypeOK
    <3>3. QED
      BY <1>1, <3>1, <3>2, LapseKeepsCounts
  <2>3. CASE k \notin S
    <3>1. Waiting(k)' = Waiting(k)
      BY <1>1, <2>1, <2>3 DEF Waiting, BanInv, BanTypeOK
    <3>2. \A q \in Waiting(k) : since'[q] = since[q]
      BY <1>1, <2>1 DEF Waiting, BanInv, BanTypeOK
    <3>3. QED
      BY <1>1, <3>1, <3>2, LapseKeepsCounts
  <2>4. QED
    BY <2>2, <2>3
<1>5. QED
  BY <1>2, <1>3, <1>4 DEF BanInv

\* A login that is barred for its account only looks at its source.
LEMMA BarredKeepsBans ==
  ASSUME BanInv, NEW s \in Logins, NEW i \in Ips, NEW u \in Users, LoginBarred(s, i, u)
  PROVE  BanInv'
<1>1. Lapse({i}) /\ UNCHANGED <<trying, since, clock, tried>>
  BY DEF LoginBarred
<1>2. BanTypeOK'
  BY <1>1, LapseTyped DEF BanInv, BanTypeOK
<1>3. InTime'
  BY <1>1 DEF BanInv, InTime
<1>4. ASSUME NEW k \in Keys PROVE BanTimes(k)' /\ BanCounts(k)'
  BY <1>1, LapseKeepsCounts DEF Waiting
<1>5. QED
  BY <1>2, <1>3, <1>4 DEF BanInv

\* A session that is answered waits no more.
LEMMA AnsweredWaitsNoMore ==
  ASSUME BanTypeOK, NEW s \in Logins, trying' = [trying EXCEPT ![s] = {}], NEW k \in Keys
  PROVE  /\ Waiting(k)' = Waiting(k) \ {s}
         /\ Cardinality(Waiting(k)') \in Nat
         /\ Cardinality(Waiting(k)') <= Cardinality(Waiting(k))
         /\ Cardinality(Waiting(k)') <= Cardinality(Logins) - 1
         /\ s \in Waiting(k) => Cardinality(Waiting(k)') = Cardinality(Waiting(k)) - 1
<1>1. Waiting(k)' = Waiting(k) \ {s}
  BY DEF Waiting, BanTypeOK
<1>2. IsFiniteSet(Waiting(k)) /\ Waiting(k) \subseteq Logins /\ IsFiniteSet(Logins)
  BY BansFinite, LimiterAssumption DEF Waiting
<1>3. /\ IsFiniteSet(Logins \ {s}) /\ Cardinality(Logins \ {s}) = Cardinality(Logins) - 1
  BY <1>2, FS_RemoveElement
<1>4. Waiting(k) \ {s} \subseteq Logins \ {s}
  BY <1>2
<1>5. Cardinality(Waiting(k) \ {s}) <= Cardinality(Logins) - 1
  BY <1>3, <1>4, FS_Subset
<1>6. /\ Cardinality(Waiting(k) \ {s}) \in Nat
      /\ Cardinality(Waiting(k) \ {s}) <= Cardinality(Waiting(k))
      /\ s \in Waiting(k) => Cardinality(Waiting(k) \ {s}) = Cardinality(Waiting(k)) - 1
  BY <1>2, FS_RemoveElement, FS_Subset, FS_CardinalityType
<1>7. QED
  BY <1>1, <1>5, <1>6

\* A wrong password: the failure is counted, and the ban begins with the last one
\* allowed.
LEMMA FailKeepsBans ==
  ASSUME BanInv, NEW s \in Logins, LoginFails(s)
  PROVE  BanInv'
<1>0. BanTypeOK /\ clock \in Nat /\ AuthMaxFails \in Nat /\ AuthBanWindow \in Nat
        /\ LoginTimeout \in Nat
  BY LimiterAssumption DEF BanInv, BanTypeOK
<1>1. /\ trying' = [trying EXCEPT ![s] = {}] /\ trying[s] # {} /\ trying[s] \subseteq Keys
      /\ clock' = clock /\ since' = since
  BY <1>0 DEF LoginFails, BanTypeOK
<1>2. ASSUME NEW k \in Keys
      PROVE  /\ Failure(k) \in Nat \X Nat /\ Failure(k)[1] = clock
             /\ Recorded(k) \subseteq failures[k] \union {Failure(k)}
             /\ Recorded(k) \subseteq Nat \X Nat
             /\ IsFiniteSet(Recorded(k)) /\ Cardinality(Recorded(k)) \in Nat
             /\ Cardinality(Recorded(k)) <= Cardinality(failures[k]) + 1
  <2>1. IsFiniteSet(failures[k]) /\ IsFiniteSet(tried[k]) /\ Cardinality(tried[k]) \in Nat
    BY <1>0, FS_CardinalityType DEF BanTypeOK
  <2>2. Failure(k) \in Nat \X Nat /\ Failure(k)[1] = clock
    BY <1>0, <2>1 DEF Failure
  <2>3. Recorded(k) \subseteq failures[k] \union {Failure(k)}
    BY DEF Recorded, Recent
  <2>4. /\ IsFiniteSet(failures[k] \union {Failure(k)})
        /\ Cardinality(failures[k] \union {Failure(k)}) <= Cardinality(failures[k]) + 1
        /\ Cardinality(failures[k] \union {Failure(k)}) \in Nat
        /\ Cardinality(failures[k]) \in Nat
    BY <2>1, GrowsByOne
  <2>5. IsFiniteSet(Recorded(k)) /\ Cardinality(Recorded(k)) \in Nat
          /\ Cardinality(Recorded(k)) <= Cardinality(failures[k] \union {Failure(k)})
    BY <2>3, <2>4, FS_Subset, FS_CardinalityType
  <2>6. Recorded(k) \subseteq Nat \X Nat
    BY <1>0, <2>2, <2>3 DEF BanTypeOK
  <2>7. QED
    BY <2>2, <2>3, <2>4, <2>5, <2>6
<1>3. /\ failures' = [k \in Keys |-> IF k \in trying[s] THEN Recorded(k) ELSE failures[k]]
      /\ bannedAt' = [k \in Keys |-> IF k \in trying[s] /\ Cardinality(Recorded(k)) >= AuthMaxFails
                                     THEN clock ELSE bannedAt[k]]
      /\ tried' = [k \in Keys |-> IF k \in trying[s] THEN tried[k] \union {Failure(k)}
                                                     ELSE tried[k]]
  BY DEF LoginFails
<1>4. BanTypeOK'
  <2>1. bannedAt' \in [Keys -> Nat]
    BY <1>0, <1>3 DEF BanTypeOK
  <2>2. failures' \in [Keys -> SUBSET (Nat \X Nat)]
    BY <1>0, <1>2, <1>3 DEF BanTypeOK
  <2>3. tried' \in [Keys -> SUBSET (Nat \X Nat)]
    BY <1>0, <1>2, <1>3 DEF BanTypeOK
  <2>4. \A k \in Keys : IsFiniteSet(failures'[k]) /\ IsFiniteSet(tried'[k])
    BY <1>0, <1>2, <1>3, FS_AddElement DEF BanTypeOK
  <2>5. QED
    BY <1>0, <1>1, <2>1, <2>2, <2>3, <2>4 DEF BanTypeOK
<1>5. InTime'
  BY <1>0, <1>1 DEF BanInv, BanTypeOK, InTime
<1>6. ASSUME NEW k \in Keys PROVE BanTimes(k)' /\ BanCounts(k)'
  <2>a. BanTimes(k) /\ BanCounts(k)
    BY DEF BanInv
  <2>b. /\ Waiting(k)' = Waiting(k) \ {s}
        /\ Cardinality(Waiting(k)') \in Nat
        /\ Cardinality(Waiting(k)') <= Cardinality(Waiting(k))
        /\ Cardinality(Waiting(k)') <= Cardinality(Logins) - 1
        /\ s \in Waiting(k) => Cardinality(Waiting(k)') = Cardinality(Waiting(k)) - 1
    BY <1>0, <1>1, AnsweredWaitsNoMore
  <2>c. /\ Cardinality(Waiting(k)) \in Nat /\ Cardinality(Logins) \in Nat
        /\ Cardinality(Recent(tried[k])) \in Nat /\ IsFiniteSet(Recent(tried[k]))
        /\ Cardinality(failures[k]) \in Nat
        /\ Cardinality(Recent(tried[k])') \in Nat
    <3>1. IsFiniteSet(tried'[k]) /\ Recent(tried[k])' \subseteq tried'[k]
      BY <1>4 DEF BanTypeOK, Recent
    <3>2. QED
      BY <1>0, <3>1, BansFinite, FS_Subset, FS_CardinalityType
  <2>1. CASE k \notin trying[s]
    <3>1. failures'[k] = failures[k] /\ bannedAt'[k] = bannedAt[k] /\ tried'[k] = tried[k]
      BY <1>3, <2>1
    <3>2. Recent(tried[k])' = Recent(tried[k])
      BY <1>1, <3>1 DEF Recent
    <3>3. BanTimes(k)'
      BY <1>1, <2>a, <2>b, <3>1 DEF BanTimes
    <3>4. BanCounts(k)'
      BY <1>0, <2>a, <2>b, <2>c, <3>1, <3>2 DEF BanCounts
    <3>5. QED
      BY <3>3, <3>4
  <2>2. CASE k \in trying[s]
    <3>1. /\ failures'[k] = Recorded(k)
          /\ tried'[k] = tried[k] \union {Failure(k)}
          /\ bannedAt'[k] = IF Cardinality(Recorded(k)) >= AuthMaxFails THEN clock ELSE bannedAt[k]
          /\ s \in Waiting(k)
      BY <1>3, <2>2 DEF Waiting
    <3>2. /\ Recent(tried[k])' \subseteq Recorded(k)
          /\ Recent(tried[k])' \subseteq Recent(tried[k]) \union {Failure(k)}
      BY <1>1, <2>a, <3>1 DEF Recent, Recorded, BanCounts
    <3>3. /\ Cardinality(Recent(tried[k])') <= Cardinality(Recorded(k))
          /\ Cardinality(Recent(tried[k])') <= Cardinality(Recent(tried[k])) + 1
      <4>1. /\ IsFiniteSet(Recent(tried[k]) \union {Failure(k)})
            /\ Cardinality(Recent(tried[k]) \union {Failure(k)}) \in Nat
            /\ Cardinality(Recent(tried[k]) \union {Failure(k)}) <= Cardinality(Recent(tried[k])) + 1
        BY <2>c, GrowsByOne
      <4>2. QED
        BY <1>2, <2>c, <3>2, <4>1, FS_Subset
    <3>4. bannedAt[k] \in Nat /\ bannedAt[k] > 0 => clock <= bannedAt[k] + LoginTimeout
      <4>1. since[s] \in Nat /\ clock <= since[s] + LoginTimeout
        BY <1>0, <1>1 DEF BanInv, InTime, BanTypeOK
      <4>2. bannedAt[k] > 0 => since[s] <= bannedAt[k]
        BY <2>a, <3>1 DEF BanTimes
      <4>3. bannedAt[k] \in Nat
        BY <1>0 DEF BanTypeOK
      <4>4. QED
        BY <1>0, <4>1, <4>2, <4>3
    <3>5. /\ \A q \in Waiting(k)' : q \in Logins /\ since'[q] <= clock /\ since[q] \in Nat
          /\ \A f \in tried[k] : f[1] \in Nat
      BY <1>0, <1>1, <2>b DEF Waiting, BanInv, InTime, BanTypeOK
    <3>6. bannedAt[k] \in Nat
      BY <1>0 DEF BanTypeOK
    <3>7. CASE Cardinality(Recorded(k)) >= AuthMaxFails
      <4>1. bannedAt'[k] = clock /\ clock > 0
        BY <1>0, <3>1, <3>7 DEF BanTypeOK
      <4>2. \A f \in tried'[k] : f[1] <= clock + LoginTimeout
        BY <1>0, <1>2, <2>a, <3>1, <3>5 DEF BanTimes
      <4>3. BanTimes(k)'
        <5>1. \A f \in tried'[k] : f[1] <= clock
          BY <1>0, <1>2, <2>a, <3>1 DEF BanTimes
        <5>2. QED
          BY <1>1, <3>5, <4>1, <4>2, <5>1 DEF BanTimes
      <4>4. Cardinality(Recent(tried[k])') + Cardinality(Waiting(k)')
              <= AuthMaxFails + Cardinality(Logins) - 1
        <5>1. CASE bannedAt[k] = 0
          <6>1. Cardinality(Recorded(k)) <= AuthMaxFails
            BY <1>0, <1>2, <2>a, <2>c, <5>1 DEF BanCounts
          <6>2. QED
            BY <1>0, <1>2, <2>b, <2>c, <3>3, <6>1
        <5>2. CASE bannedAt[k] > 0
          BY <1>0, <2>a, <2>b, <2>c, <3>1, <3>3, <5>2 DEF BanCounts
        <5>3. QED
          BY <3>6, <5>1, <5>2
      <4>5. BanCounts(k)'
        BY <3>1, <3>2, <4>1, <4>4 DEF BanCounts
      <4>6. QED
        BY <4>3, <4>5
    <3>8. CASE ~(Cardinality(Recorded(k)) >= AuthMaxFails)
      <4>1. bannedAt'[k] = bannedAt[k]
        BY <3>1, <3>8
      <4>2. BanTimes(k)'
        BY <1>0, <1>1, <1>2, <2>a, <2>b, <3>1, <3>4, <3>6, <4>1 DEF BanTimes
      <4>3. Cardinality(failures'[k]) < AuthMaxFails
        BY <1>0, <1>2, <3>1, <3>8
      <4>4. bannedAt[k] > 0 => Cardinality(Recent(tried[k])') + Cardinality(Waiting(k)')
              <= AuthMaxFails + Cardinality(Logins) - 1
        BY <1>0, <2>a, <2>b, <2>c, <3>1, <3>3 DEF BanCounts
      <4>5. BanCounts(k)'
        BY <3>1, <3>2, <4>1, <4>3, <4>4 DEF BanCounts
      <4>6. QED
        BY <4>2, <4>5
    <3>9. QED
      BY <3>7, <3>8
  <2>3. QED
    BY <2>1, <2>2
<1>7. QED
  BY <1>4, <1>5, <1>6 DEF BanInv

\* A right password, or no answer, takes the login out of those under way.
LEMMA AnswerKeepsBans ==
  ASSUME BanInv, NEW s \in Logins, LoginSucceeds(s) \/ LoginErrs(s)
  PROVE  BanInv'
<1>0. BanTypeOK /\ AuthMaxFails \in Nat \ {0}
  BY LimiterAssumption DEF BanInv
<1>1. trying' = [trying EXCEPT ![s] = {}] /\ clock' = clock /\ since' = since
  BY DEF LoginSucceeds, LoginErrs
<1>2. ASSUME NEW k \in Keys
      PROVE  \/ failures'[k] = {} /\ bannedAt'[k] = 0 /\ tried'[k] = {}
             \/ failures'[k] = failures[k] /\ bannedAt'[k] = bannedAt[k] /\ tried'[k] = tried[k]
  BY DEF LoginSucceeds, LoginErrs
<1>3. BanTypeOK'
  <2>1. /\ bannedAt' \in [Keys -> Nat]
        /\ failures' \in [Keys -> SUBSET (Nat \X Nat)]
        /\ tried' \in [Keys -> SUBSET (Nat \X Nat)]
    BY <1>0 DEF LoginSucceeds, LoginErrs, BanTypeOK
  <2>2. \A k \in Keys : IsFiniteSet(failures'[k]) /\ IsFiniteSet(tried'[k])
    BY <1>0, <1>2, FS_EmptySet DEF BanTypeOK
  <2>3. QED
    BY <1>0, <1>1, <2>1, <2>2 DEF BanTypeOK
<1>4. InTime'
  BY <1>0, <1>1 DEF BanInv, BanTypeOK, InTime
<1>5. ASSUME NEW k \in Keys PROVE BanTimes(k)' /\ BanCounts(k)'
  <2>1. CASE failures'[k] = {} /\ bannedAt'[k] = 0 /\ tried'[k] = {}
    <3>1. Recent(tried[k])' = {} /\ Cardinality(failures'[k]) = 0
      BY <2>1, FS_EmptySet DEF Recent
    <3>2. QED
      BY <1>0, <2>1, <3>1 DEF BanTimes, BanCounts
  <2>2. CASE failures'[k] = failures[k] /\ bannedAt'[k] = bannedAt[k] /\ tried'[k] = tried[k]
    <3>1. BanTimes(k) /\ BanCounts(k)
      BY DEF BanInv
    <3>2. /\ Waiting(k)' = Waiting(k) \ {s} /\ Cardinality(Waiting(k)') \in Nat
          /\ Cardinality(Waiting(k)') <= Cardinality(Waiting(k))
      BY <1>0, <1>1, AnsweredWaitsNoMore
    <3>3. Recent(tried[k])' = Recent(tried[k])
      BY <1>1, <2>2 DEF Recent
    <3>4. /\ Cardinality(Waiting(k)) \in Nat /\ Cardinality(Logins) \in Nat
          /\ Cardinality(Recent(tried[k])) \in Nat
      BY <1>0, BansFinite
    <3>5. BanTimes(k)'
      BY <1>1, <2>2, <3>1, <3>2 DEF BanTimes
    <3>6. BanCounts(k)'
      BY <1>0, <2>2, <3>1, <3>2, <3>3, <3>4 DEF BanCounts
    <3>7. QED
      BY <3>5, <3>6
  <2>3. QED
    BY <1>2, <2>1, <2>2
<1>6. QED
  BY <1>3, <1>4, <1>5 DEF BanInv

\* Time passes, and no login outlasts its timeout.
LEMMA TimeKeepsBans ==
  ASSUME BanInv, TimePasses
  PROVE  BanInv'
<1>0. BanTypeOK /\ clock \in Nat /\ AuthMaxFails \in Nat /\ AuthBanWindow \in Nat
        /\ LoginTimeout \in Nat
  BY LimiterAssumption DEF BanInv, BanTypeOK
<1>1. /\ clock' = clock + 1
      /\ \A s \in Logins : trying[s] # {} => clock < since[s] + LoginTimeout
      /\ UNCHANGED <<failures, bannedAt, trying, since, tried>>
  BY DEF TimePasses
<1>2. BanTypeOK'
  BY <1>0, <1>1 DEF BanTypeOK
<1>3. InTime'
  BY <1>0, <1>1 DEF BanInv, BanTypeOK, InTime
<1>4. ASSUME NEW k \in Keys PROVE BanTimes(k)' /\ BanCounts(k)'
  <2>1. BanTimes(k) /\ BanCounts(k)
    BY DEF BanInv
  <2>2. Waiting(k)' = Waiting(k)
    BY <1>1 DEF Waiting
  <2>3. Recent(tried[k])' \subseteq Recent(tried[k])
    <3>1. \A f \in tried[k] : f[1] \in Nat
      BY <1>0 DEF BanTypeOK
    <3>2. \A f \in tried[k] : f[1] > clock' - AuthBanWindow => f[1] > clock - AuthBanWindow
      BY <1>0, <1>1, <3>1
    <3>3. Recent(tried[k])' = {f \in tried[k] : f[1] > clock' - AuthBanWindow}
      BY <1>1 DEF Recent
    <3>4. QED
      BY <3>2, <3>3 DEF Recent
  <2>4. /\ Cardinality(Waiting(k)) \in Nat /\ Cardinality(Logins) \in Nat
        /\ Cardinality(Recent(tried[k])) \in Nat /\ IsFiniteSet(Recent(tried[k]))
    BY <1>0, BansFinite
  <2>5. /\ Cardinality(Recent(tried[k])') <= Cardinality(Recent(tried[k]))
        /\ Cardinality(Recent(tried[k])') \in Nat
    BY <2>3, <2>4, FS_Subset, FS_CardinalityType
  <2>6. BanTimes(k)'
    <3>1. \A f \in tried[k] : f[1] \in Nat
      BY <1>0 DEF BanTypeOK
    <3>2. QED
      BY <1>0, <1>1, <2>1, <2>2, <3>1 DEF BanTimes
  <2>7. BanCounts(k)'
    BY <1>0, <1>1, <2>1, <2>2, <2>3, <2>4, <2>5 DEF BanCounts
  <2>8. QED
    BY <2>6, <2>7
<1>5. QED
  BY <1>2, <1>3, <1>4 DEF BanInv

\* However many logins run at once and however bans run out in between, within
\* any window and without a success a source or an account sees at most the
\* limit of wrong passwords, and one more of each other session: those were on
\* their way when the ban fell.
THEOREM WrongGuessesBounded == LimiterSpec => []GuessesBounded
<1>1. LimiterInit => BanInv
  <2> SUFFICES ASSUME LimiterInit PROVE BanInv
    OBVIOUS
  <2>1. BanTypeOK
    BY FS_EmptySet DEF LimiterInit, BanTypeOK
  <2>2. InTime
    BY DEF LimiterInit, InTime
  <2>3. ASSUME NEW k \in Keys PROVE BanTimes(k) /\ BanCounts(k)
    <3>1. failures[k] = {} /\ tried[k] = {} /\ bannedAt[k] = 0
      BY DEF LimiterInit
    <3>2. Recent(tried[k]) = {} /\ Cardinality(failures[k]) = 0
      BY <3>1, FS_EmptySet DEF Recent
    <3>3. QED
      BY <3>1, <3>2, LimiterAssumption DEF BanTimes, BanCounts
  <2>4. QED
    BY <2>1, <2>2, <2>3 DEF BanInv
<1>2. BanInv /\ [LimiterNext]_limiter => BanInv'
  <2> SUFFICES ASSUME BanInv, [LimiterNext]_limiter PROVE BanInv'
    OBVIOUS
  <2>1. ASSUME UNCHANGED banVars PROVE BanInv'
    <3>1. UNCHANGED <<failures, bannedAt, trying, since, clock, guesses, tried>>
      BY <2>1 DEF banVars
    <3>2. \A k \in Keys : Waiting(k)' = Waiting(k) /\ Recent(tried[k])' = Recent(tried[k])
      BY <3>1 DEF Waiting, Recent
    <3>3. BanTypeOK' /\ InTime'
      BY <3>1 DEF BanInv, BanTypeOK, InTime
    <3>4. ASSUME NEW k \in Keys PROVE BanTimes(k)' /\ BanCounts(k)'
      BY <3>1, <3>2 DEF BanInv, BanTimes, BanCounts
    <3>5. QED
      BY <3>3, <3>4 DEF BanInv
  <2>2. ASSUME NEW c \in Conns, SlotStep(c) PROVE UNCHANGED banVars
    BY <2>2 DEF SlotStep, AcceptConn, Settle, CloseConn, ReleaseGlobal, ReleaseIP
  <2>3. ASSUME NEW s \in Logins, LoginStep(s) PROVE BanInv'
    <3>1. \A i \in Ips, u \in Users : {i, u} \subseteq Keys /\ {u} \subseteq Keys
      BY DEF Keys
    <3>2. QED
      BY <2>3, <3>1, StartKeepsBans, BarredKeepsBans, FailKeepsBans, AnswerKeepsBans
         DEF LoginStep, Keys
  <2>4. QED
    BY <2>1, <2>2, <2>3, TimeKeepsBans DEF LimiterNext, limiter
<1>3. ASSUME BanInv PROVE GuessesBounded
  <2> SUFFICES ASSUME NEW k \in Keys
               PROVE  Cardinality(Recent(tried[k])) <= AuthMaxFails + Cardinality(Logins) - 1
    BY DEF GuessesBounded
  <2>1. BanTypeOK /\ BanCounts(k) /\ bannedAt[k] \in Nat /\ AuthMaxFails \in Nat
    BY <1>3, LimiterAssumption DEF BanInv, BanTypeOK
  <2>2. /\ Cardinality(Waiting(k)) \in Nat /\ Cardinality(Logins) \in Nat
        /\ Cardinality(Recent(tried[k])) \in Nat /\ Cardinality(failures[k]) \in Nat
        /\ Cardinality(Recent(tried[k])) <= Cardinality(failures[k])
    BY <2>1, BansFinite DEF BanCounts
  <2>3. QED
    BY <2>1, <2>2 DEF BanCounts
<1>4. QED
  BY <1>1, <1>2, <1>3, PTL DEF LimiterSpec

-----------------------------------------------------------------------------
(* Imports *)

\* The types the argument needs.
ImportShapeOK ==
  /\ ImportTypeOK
  /\ done \in [plain : [Mails -> Nat], all : [Outcomes -> Nat]]

\* What a call has got to, and what it will do with it.
CallOrder ==
  \A i \in Imports :
    /\ import[i].stage # "idle" => import[i].mail \in Mails
    /\ import[i].stage \in {"refused", "counting refusal"} => import[i].outcome = "refused"
    /\ import[i].stage \in {"counting", "counting refusal"} =>
         import[i].in \in Sessions /\ Live(import[i].in)
    /\ import[i].stage \in {"stored", "counting"} /\ import[i].outcome = "imported"
         /\ ~import[i].always => kept[import[i].mail] = 0

\* The lock of a Message-ID has one holder.
LockHasOne ==
  \A i, j \in Imports : Holding(i) /\ Holding(j) /\ i # j =>
    IdOf[import[i].mail] # IdOf[import[j].mail]

\* So has the row of a session, who knows what it counts.
RowHasOne ==
  \A i, j \in Imports : i # j /\ import[i].stage \in {"counting", "counting refusal"}
      /\ import[j].stage \in {"counting", "counting refusal"} => import[i].in # import[j].in
CountsAreRead ==
  \A i \in Imports : import[i].stage \in {"counting", "counting refusal"} =>
    import[i].counts = importSession[import[i].in].counts

\* A session that is not open yet has counted nothing.
NewIsEmpty ==
  \A s \in Sessions : importSession[s].state = "new" => importSession[s].counts = Nothing

\* What was stored once is there.
StoredIsThere == \A m \in Mails : done.plain[m] <= 1 /\ (done.plain[m] > 0 => kept[m] > 0)

ImportInv ==
  /\ ImportShapeOK /\ CallOrder /\ LockHasOne /\ RowHasOne /\ CountsAreRead /\ NewIsEmpty
  /\ StoredIsThere

\* The calls that count into a session.
LEMMA CountsIntoIs ==
  ASSUME NEW s
  PROVE  CountsInto(s) = {} <=>
           \A i \in Imports : import[i].stage \in {"counting", "counting refusal"} => import[i].in # s
  BY DEF CountsInto

\* A call, and what may be said of the next record of call i.
Calling ==
  [stage : ImportStages, mail : Mails \union {NoMail}, in : Sessions \union {NoSession},
   always : BOOLEAN, match : BOOLEAN, outcome : Outcomes, counts : [Outcomes -> Nat]]

NextCall(i, c) ==
  /\ c.stage # "idle" => c.mail \in Mails
  /\ c.stage \in {"refused", "counting refusal"} => c.outcome = "refused"
  /\ c.stage \in {"counting", "counting refusal"} =>
       /\ c.in \in Sessions /\ Live(c.in) /\ CountsInto(c.in) = {}
       /\ c.counts = importSession[c.in].counts
  /\ c.stage \in {"stored", "counting"} /\ c.outcome = "imported" /\ ~c.always => kept[c.mail] = 0
  /\ c.stage \in {"locked", "stored", "counting"} =>
       c.mail = import[i].mail /\ (Holding(i) \/ MayLock(i))

\* A call is replaced, and nothing else changes but what is not looked at.
LEMMA CallMoves ==
  ASSUME ImportInv, NEW i \in Imports,
         NEW m \in Mails, NEW s \in Sessions \union {NoSession}, NEW always \in BOOLEAN,
         NEW match \in BOOLEAN,
         \/ Begin(i, m, s, always, match) \/ Refuse(i) \/ LockMessage(i) \/ StoreImport(i)
         \/ ReadCounts(i) \/ LoseRefusal(i)
  PROVE  ImportInv'
<1>0. ImportShapeOK /\ CallOrder /\ LockHasOne /\ RowHasOne /\ CountsAreRead /\ NewIsEmpty
      /\ StoredIsThere
  BY DEF ImportInv
<1>1. /\ UNCHANGED <<kept, importSession, audited, done, listed, submitted>>
      /\ imports' \in Nat /\ refusals' \in Nat
  <2>1. imports \in Nat /\ refusals \in Nat
    BY <1>0 DEF ImportShapeOK, ImportTypeOK
  <2>2. CASE Begin(i, m, s, always, match)
    BY <2>1, <2>2 DEF Begin
  <2>3. CASE Refuse(i)
    BY <2>1, <2>3 DEF Refuse
  <2>6. CASE LoseRefusal(i)
    <3>1. UNCHANGED <<kept, submitted, importSession, listed, audited, imports, done>>
          /\ refusals' = refusals + 1
      BY <2>6 DEF LoseRefusal
    <3> QED
      BY <2>1, <3>1
  <2>4. CASE LockMessage(i) \/ StoreImport(i)
    BY <2>1, <2>4 DEF LockMessage, StoreImport
  <2>5. CASE ReadCounts(i)
    BY <2>1, <2>5 DEF ReadCounts
  <2> QED
    BY <2>2, <2>3, <2>4, <2>5, <2>6
<1>2. PICK c \in Calling : import' = [import EXCEPT ![i] = c] /\ NextCall(i, c)
  <2>0. /\ import \in [Imports -> Calling] /\ import[i] \in Calling /\ IdleImport \in Calling
        /\ importSession \in [Sessions -> [state : {"new", "open", "idle", "closed"}, counts : [Outcomes -> Nat]]]
        /\ kept \in [Mails -> Nat]
    BY <1>0 DEF ImportShapeOK, ImportTypeOK, Calling, IdleImport, ImportStages,
       Outcomes, Nothing
  <2> SUFFICES \E c \in Calling : import' = [import EXCEPT ![i] = c] /\ NextCall(i, c)
    OBVIOUS
  <2>1. CASE Begin(i, m, s, always, match)
    <3> DEFINE c == [IdleImport EXCEPT !.stage = "begun", !.mail = m,
                       !.in = s, !.always = always, !.match = match]
    <3>1. import' = [import EXCEPT ![i] = c]
      BY <2>1 DEF Begin
    <3>2. c \in Calling /\ c.stage = "begun" /\ c.mail = m
      BY <2>0 DEF IdleImport, ImportStages, Calling
    <3> HIDE DEF c
    <3>3. NextCall(i, c)
      BY <3>2 DEF NextCall
    <3> QED
      BY <3>1, <3>2, <3>3
  <2>2. CASE Refuse(i)
    <3> DEFINE c == [import[i] EXCEPT !.stage = "refused", !.outcome = "refused"]
    <3>1. import' = [import EXCEPT ![i] = c] /\ import[i].stage # "idle"
      BY <2>0, <2>2 DEF Refuse
    <3>2. c \in Calling /\ c.stage = "refused" /\ c.outcome = "refused" /\ c.mail = import[i].mail
      BY <2>0 DEF ImportStages, Calling, Outcomes
    <3> HIDE DEF c
    <3>3. NextCall(i, c)
      BY <1>0, <3>1, <3>2 DEF NextCall, CallOrder
    <3> QED
      BY <3>1, <3>2, <3>3
  <2>3. CASE LockMessage(i)
    <3> DEFINE c == [import[i] EXCEPT !.stage = "locked"]
    <3>1. import' = [import EXCEPT ![i] = c] /\ import[i].stage = "begun" /\ MayLock(i)
      BY <2>0, <2>3 DEF LockMessage
    <3>2. c \in Calling /\ c.stage = "locked" /\ c.mail = import[i].mail
      BY <2>0 DEF ImportStages, Calling
    <3> HIDE DEF c
    <3>3. NextCall(i, c)
      BY <1>0, <3>1, <3>2 DEF NextCall, CallOrder
    <3> QED
      BY <3>1, <3>2, <3>3
  <2>4. CASE StoreImport(i)
    <3> DEFINE o == IF Existing(i) THEN "deduplicated" ELSE "imported"
               c == [import[i] EXCEPT !.stage = "stored", !.outcome = o]
    <3>1. import' = [import EXCEPT ![i] = c]
          /\ import[i].stage = "locked" /\ Holding(i) /\ import[i].mail \in Mails
      BY <1>0, <2>0, <2>4 DEF StoreImport, Holding, CallOrder
    <3>2. o \in Outcomes /\ (o = "imported" /\ ~import[i].always => kept[import[i].mail] = 0)
      BY <2>0, <3>1 DEF Existing, Outcomes
    <3> HIDE DEF o
    <3>3. /\ c \in Calling /\ c.stage = "stored" /\ c.mail = import[i].mail
          /\ c.outcome = o /\ c.always = import[i].always
      BY <2>0, <3>2 DEF ImportStages, Calling
    <3> HIDE DEF c
    <3>4. NextCall(i, c)
      BY <3>1, <3>2, <3>3 DEF NextCall
    <3> QED
      BY <3>1, <3>3, <3>4
  <2>5. CASE ReadCounts(i)
    <3> DEFINE u == import[i].in
               next == IF import[i].stage = "stored" THEN "counting" ELSE "counting refusal"
    <3>1. import[i].stage \in {"stored", "refused"} /\ u \in Sessions /\ CountsInto(u) = {}
      BY <2>0, <2>5 DEF ReadCounts, MayCount, Calling
    <3>2. CASE Live(u)
      <4> DEFINE c == [import[i] EXCEPT !.stage = next, !.counts = importSession[u].counts]
      <4>1. import' = [import EXCEPT ![i] = c]
        BY <2>0, <2>5, <3>2 DEF ReadCounts
      <4>2. /\ c \in Calling /\ c.stage = next /\ c.mail = import[i].mail /\ c.in = u
            /\ c.outcome = import[i].outcome /\ c.always = import[i].always
            /\ c.counts = importSession[u].counts
        BY <2>0, <3>1 DEF ImportStages, Calling
      <4> HIDE DEF c
      <4>3. NextCall(i, c)
        BY <1>0, <3>1, <3>2, <4>2 DEF NextCall, CallOrder, Holding
      <4> QED
        BY <4>1, <4>2, <4>3
    <3>3. CASE ~Live(u)
      <4> DEFINE c == [import[i] EXCEPT !.stage = "refused", !.in = NoSession, !.outcome = "refused"]
      <4>1. import' = [import EXCEPT ![i] = c]
        BY <2>0, <2>5, <3>3 DEF ReadCounts
      <4>2. c \in Calling /\ c.stage = "refused" /\ c.outcome = "refused" /\ c.mail = import[i].mail
        BY <2>0 DEF ImportStages, Calling, Outcomes
      <4> HIDE DEF c
      <4>3. NextCall(i, c)
        BY <1>0, <3>1, <4>2 DEF NextCall, CallOrder
      <4> QED
        BY <4>1, <4>2, <4>3
    <3> QED
      BY <3>2, <3>3
  <2>6. CASE LoseRefusal(i)
    <3>1. import' = [import EXCEPT ![i] = IdleImport]
      BY <2>6 DEF LoseRefusal
    <3>2. NextCall(i, IdleImport)
      BY DEF IdleImport, NextCall
    <3> QED
      BY <2>0, <3>1, <3>2
  <2> QED
    BY <2>1, <2>2, <2>3, <2>4, <2>5, <2>6
<1>3. import'[i] = c /\ \A j \in Imports \ {i} : import'[j] = import[j]
  BY <1>0, <1>2 DEF ImportShapeOK, ImportTypeOK
<1>4. ImportShapeOK'
  BY <1>0, <1>1, <1>2 DEF ImportShapeOK, ImportTypeOK, Calling
<1>5. CallOrder'
  <2>1. \A s1 \in Sessions : Live(s1)' = Live(s1)
    BY <1>1 DEF Live
  <2> QED
    BY ZenonT(60), <1>0, <1>1, <1>2, <1>3, <2>1 DEF CallOrder, NextCall
<1>6. LockHasOne'
  <2>1. \A j \in Imports \ {i} : Holding(j)' = Holding(j)
    BY <1>3 DEF Holding
  <2>2. Holding(i)' => import'[i].mail = import[i].mail /\ (Holding(i) \/ MayLock(i))
    BY <1>2, <1>3 DEF Holding, NextCall
  <2>3. ASSUME NEW j \in Imports \ {i}, Holding(i)', Holding(j)
        PROVE  IdOf[import[i].mail] # IdOf[import[j].mail]
    BY <1>0, <2>2, <2>3 DEF LockHasOne, MayLock
  <2> QED
    BY <1>0, <1>3, <2>1, <2>2, <2>3 DEF LockHasOne
<1>7. RowHasOne'
  <2>1. c.stage \in {"counting", "counting refusal"} =>
          \A j \in Imports : import[j].stage \in {"counting", "counting refusal"} => import[j].in # c.in
    BY <1>2, CountsIntoIs DEF NextCall
  <2> QED
    BY <1>0, <1>3, <2>1 DEF RowHasOne
<1>8. CountsAreRead' /\ NewIsEmpty' /\ StoredIsThere'
  BY <1>0, <1>1, <1>2, <1>3 DEF CountsAreRead, NewIsEmpty, StoredIsThere, NextCall
<1> QED
  BY <1>4, <1>5, <1>6, <1>7, <1>8 DEF ImportInv


\* One more of an outcome.
LEMMA TallyIs ==
  ASSUME NEW counts \in [Outcomes -> Nat], NEW o \in Outcomes
  PROVE  /\ Tally(counts, o) \in [Outcomes -> Nat] /\ Tally(counts, o)[o] = counts[o] + 1
         /\ \A p \in Outcomes \ {o} : Tally(counts, o)[p] = counts[p]
<1>1. counts[o] \in Nat
  OBVIOUS
<1> QED
  BY <1>1 DEF Tally

\* One value of a function changes.
LEMMA ChangedAt ==
  ASSUME NEW S, NEW T, NEW f \in [S -> T], NEW x \in S, NEW v \in T, NEW g,
         g = [f EXCEPT ![x] = v]
  PROVE  g \in [S -> T] /\ g[x] = v /\ \A y \in S \ {x} : g[y] = f[y]
  OBVIOUS

\* What is written when a call commits: a call that holds its Message-ID has seen that
\* no copy was there, and no other call that is in its way holds it.
LEMMA CommitKeeps ==
  ASSUME ImportInv, NEW i \in Imports, Commit(i)
  PROVE  ImportInv'
<1>0. ImportShapeOK /\ CallOrder /\ LockHasOne /\ RowHasOne /\ CountsAreRead /\ NewIsEmpty
      /\ StoredIsThere
  BY DEF ImportInv
<1> DEFINE c == import[i]
           o == c.outcome
           plain == o = "imported" /\ ~c.always
<1>1. /\ c \in Calling /\ o \in Outcomes /\ c.mail \in Mails /\ c.in \in Sessions \union {NoSession}
      /\ c.stage \in {"counting", "counting refusal", "stored", "refused"}
      /\ IdleImport \in Calling /\ import \in [Imports -> Calling]
      /\ kept \in [Mails -> Nat] /\ done.plain \in [Mails -> Nat] /\ done.all \in [Outcomes -> Nat]
      /\ audited \in [Outcomes -> Nat] /\ c.counts \in [Outcomes -> Nat]
      /\ importSession \in [Sessions -> [state : {"new", "open", "idle", "closed"}, counts : [Outcomes -> Nat]]]
  BY <1>0 DEF Commit, ImportShapeOK, ImportTypeOK, Calling, IdleImport, ImportStages,
     Outcomes, Nothing, CallOrder
<1>2. import'[i] = IdleImport /\ import'[i].stage = "idle" /\ (\A j \in Imports \ {i} : import'[j] = import[j])
      /\ import' = [import EXCEPT ![i] = IdleImport]
  BY <1>1 DEF Commit, IdleImport
<1>3. /\ (o = "imported" => kept'[c.mail] = kept[c.mail] + 1)
      /\ (o # "imported" => kept'[c.mail] = kept[c.mail])
      /\ \A m \in Mails \ {c.mail} : kept'[m] = kept[m]
      /\ kept' \in [Mails -> Nat]
  <2> DEFINE v == IF o = "imported" THEN kept[c.mail] + 1 ELSE kept[c.mail]
  <2>1. kept' = [kept EXCEPT ![c.mail] = v]
    BY DEF Commit
  <2>2. kept[c.mail] \in Nat
    BY <1>1
  <2>3. v \in Nat /\ (o = "imported" => v = kept[c.mail] + 1) /\ (o # "imported" => v = kept[c.mail])
    BY <2>2
  <2> HIDE DEF v
  <2>4. kept' \in [Mails -> Nat] /\ kept'[c.mail] = v /\ \A m \in Mails \ {c.mail} : kept'[m] = kept[m]
    BY <1>1, <2>1, <2>3, ChangedAt
  <2> QED
    BY <2>3, <2>4
<1>4. /\ (plain => done'.plain[c.mail] = done.plain[c.mail] + 1)
      /\ (~plain => done'.plain[c.mail] = done.plain[c.mail])
      /\ \A m \in Mails \ {c.mail} : done'.plain[m] = done.plain[m]
      /\ done'.all = Tally(done.all, o)
      /\ done' \in [plain : [Mails -> Nat], all : [Outcomes -> Nat]]
  <2> DEFINE v == IF plain THEN done.plain[c.mail] + 1 ELSE done.plain[c.mail]
  <2>1. done' = [plain |-> [done.plain EXCEPT ![c.mail] = v], all |-> Tally(done.all, o)]
    BY DEF Commit
  <2>2. Tally(done.all, o) \in [Outcomes -> Nat]
    BY <1>1, TallyIs
  <2>3. done.plain[c.mail] \in Nat
    BY <1>1
  <2>4. v \in Nat /\ (plain => v = done.plain[c.mail] + 1) /\ (~plain => v = done.plain[c.mail])
    BY <2>3
  <2> HIDE DEF v
  <2> DEFINE g == [done.plain EXCEPT ![c.mail] = v]
  <2>5. g \in [Mails -> Nat] /\ g[c.mail] = v /\ \A m \in Mails \ {c.mail} : g[m] = done.plain[m]
    BY <1>1, <2>4
  <2> HIDE DEF g
  <2>6. done'.plain = g /\ done'.all = Tally(done.all, o)
        /\ done' \in [plain : [Mails -> Nat], all : [Outcomes -> Nat]]
    BY <2>1, <2>2, <2>5 DEF g
  <2> QED
    BY <2>4, <2>5, <2>6
<1>5. /\ \A s \in Sessions : s # c.in => importSession'[s] = importSession[s]
      /\ \A s \in Sessions : /\ importSession'[s].state = "new" => importSession[s].state = "new" /\ s # c.in
                             /\ Live(s) => Live(s)'
      /\ importSession' \in [Sessions -> [state : {"new", "open", "idle", "closed"}, counts : [Outcomes -> Nat]]]
      /\ audited' \in [Outcomes -> Nat]
      /\ UNCHANGED <<submitted, listed, imports, refusals>>
  <2>0. UNCHANGED <<submitted, listed, imports, refusals>>
    BY DEF Commit
  <2>1. CASE c.stage \in {"counting", "counting refusal"}
    <3>1. c.in \in Sessions /\ Live(c.in)
      BY <1>0, <2>1 DEF CallOrder
    <3>2. importSession' = [importSession EXCEPT ![c.in].counts = Tally(c.counts, o),
                         ![c.in].state = IF @ = "closed" THEN @ ELSE "open"] /\ audited' = audited
      BY <2>1 DEF Commit
    <3>3. Tally(c.counts, o) \in [Outcomes -> Nat]
      BY <1>1, TallyIs
    <3> QED
      BY <1>1, <2>0, <3>1, <3>2, <3>3 DEF Live
  <2>2. CASE c.stage \in {"stored", "refused"} /\ c.in = NoSession
    <3>1. audited' = Tally(audited, o) /\ importSession' = importSession
      BY <2>2 DEF Commit
    <3>2. audited' \in [Outcomes -> Nat]
      BY <1>1, <3>1, TallyIs
    <3> QED
      BY <1>1, <2>0, <2>2, <3>1, <3>2, ImportAssumption DEF Live
  <2> QED
    BY <1>1, <2>1, <2>2 DEF Commit
<1>6. ImportShapeOK'
  <2>1. import' \in [Imports -> Calling]
    BY <1>1, <1>2
  <2>2. submitted' \in SUBSET Ids /\ listed' \in SUBSET Sessions /\ imports' \in Nat /\ refusals' \in Nat
    BY <1>0, <1>5 DEF ImportShapeOK, ImportTypeOK
  <2> QED
    BY <1>3, <1>4, <1>5, <2>1, <2>2 DEF ImportShapeOK, ImportTypeOK, Calling
<1>7. ASSUME NEW j \in Imports \ {i},
             import[j].stage \in {"stored", "counting"}, import[j].outcome = "imported", ~import[j].always
      PROVE  kept'[import[j].mail] = 0
  <2>1. import[j].mail \in Mails /\ kept[import[j].mail] = 0 /\ Holding(j)
    BY <1>0, <1>7 DEF CallOrder, Holding
  <2>2. CASE import[j].mail # c.mail
    BY <1>3, <2>1, <2>2
  <2>3. CASE import[j].mail = c.mail
    <3>1. ~Holding(i)
      BY <1>0, <2>1, <2>3 DEF LockHasOne
    <3>2. o = "refused"
      BY <1>0, <1>1, <3>1 DEF Holding, CallOrder
    <3> QED
      BY <1>3, <2>1, <2>3, <3>2
  <2> QED
    BY <2>2, <2>3
<1>8. CallOrder'
  BY <1>0, <1>1, <1>2, <1>5, <1>7 DEF CallOrder, IdleImport
<1>9. LockHasOne' /\ RowHasOne'
  <2>1. ~Holding(i)' /\ \A j \in Imports \ {i} : Holding(j)' = Holding(j)
    BY <1>2 DEF Holding
  <2>2. LockHasOne'
    BY <1>0, <1>2, <2>1 DEF LockHasOne
  <2> QED
    BY <1>0, <1>2, <2>2 DEF RowHasOne
<1>10. CountsAreRead'
  <2> SUFFICES ASSUME NEW j \in Imports, import'[j].stage \in {"counting", "counting refusal"}
               PROVE  import'[j].counts = importSession'[import'[j].in].counts
    BY DEF CountsAreRead
  <2>1. j # i /\ import'[j] = import[j] /\ import[j].in \in Sessions
    BY <1>0, <1>2 DEF CallOrder
  <2>2. import[j].counts = importSession[import[j].in].counts
    BY <1>0, <2>1 DEF CountsAreRead
  <2>3. CASE import[j].in # c.in
    BY <1>5, <2>1, <2>2, <2>3
  <2>4. CASE import[j].in = c.in
    <3>1. c.stage \notin {"counting", "counting refusal"}
      BY <1>0, <2>1, <2>4 DEF RowHasOne
    <3>2. c.in = NoSession
      BY <3>1 DEF Commit
    <3> QED
      BY <2>1, <2>4, <3>2, ImportAssumption
  <2> QED
    BY <2>3, <2>4
<1>11. NewIsEmpty'
  BY <1>0, <1>5 DEF NewIsEmpty
<1>12. StoredIsThere'
  <2>1. plain => kept[c.mail] = 0 /\ done.plain[c.mail] = 0
    <3> SUFFICES ASSUME plain PROVE kept[c.mail] = 0 /\ done.plain[c.mail] = 0
      OBVIOUS
    <3>1. c.stage \in {"stored", "counting"}
      BY <1>0, <1>1 DEF CallOrder
    <3>2. kept[c.mail] = 0
      BY <1>0, <3>1 DEF CallOrder
    <3>3. done.plain[c.mail] \in Nat /\ (done.plain[c.mail] > 0 => kept[c.mail] > 0)
      BY <1>0, <1>1 DEF StoredIsThere
    <3> QED
      BY <3>2, <3>3
  <2> SUFFICES ASSUME NEW m \in Mails
               PROVE  done'.plain[m] <= 1 /\ (done'.plain[m] > 0 => kept'[m] > 0)
    BY DEF StoredIsThere
  <2>2. CASE m # c.mail
    BY <1>0, <1>3, <1>4, <2>2 DEF StoredIsThere
  <2>3. CASE m = c.mail
    <3>1. kept[m] \in Nat /\ done.plain[m] \in Nat
      BY <1>1
    <3> HIDE DEF c, o
    <3> QED
      BY <1>0, <1>3, <1>4, <2>1, <2>3, <3>1 DEF StoredIsThere
  <2> QED
    BY <2>2, <2>3
<1> QED
  BY <1>6, <1>8, <1>9, <1>10, <1>11, <1>12 DEF ImportInv

\* Sessions are opened and closed while no call counts into them.
LEMMA SessionMoves ==
  ASSUME ImportInv, NEW s \in Sessions,
         OpenSession(s) \/ CloseSession(s) \/ GoesIdle(s) \/ CloseIdle(s)
  PROVE  ImportInv'
<1>0. ImportShapeOK /\ CallOrder /\ LockHasOne /\ RowHasOne /\ CountsAreRead /\ NewIsEmpty
      /\ StoredIsThere
  BY DEF ImportInv
<1>1. /\ UNCHANGED <<kept, submitted, import, imports, refusals, done>>
      /\ listed' \in SUBSET Sessions
  BY <1>0 DEF OpenSession, CloseSession, GoesIdle, CloseIdle, ImportShapeOK,
     ImportTypeOK
<1>2. /\ importSession \in [Sessions -> [state : {"new", "open", "idle", "closed"}, counts : [Outcomes -> Nat]]]
      /\ audited \in [Outcomes -> Nat]
  BY <1>0 DEF ImportShapeOK, ImportTypeOK
<1>3. /\ importSession' \in [Sessions -> [state : {"new", "open", "idle", "closed"}, counts : [Outcomes -> Nat]]]
      /\ \A t \in Sessions : importSession'[t].counts = importSession[t].counts
      /\ \A t \in Sessions : Live(t) /\ ~Live(t)' => CountsInto(t) = {}
      /\ \A t \in Sessions : importSession'[t].state = "new" => importSession[t].state = "new"
  <2> DEFINE Moved(st) == importSession' = [importSession EXCEPT ![s].state = st]
  <2>1. CASE OpenSession(s) \/ GoesIdle(s)
    <3>1. \E st \in {"open", "idle"} : Moved(st)
      BY <2>1 DEF OpenSession, GoesIdle
    <3> QED
      BY <1>2, <3>1 DEF Live
  <2>2. CASE CountsInto(s) = {} /\ FinishSession(s)
    <3>1. Moved("closed")
      BY <2>2 DEF FinishSession
    <3> QED
      BY <1>2, <2>2, <3>1 DEF Live
  <2>3. CASE importSession' = importSession
    BY <1>2, <2>3 DEF Live
  <2> QED
    BY <2>1, <2>2, <2>3 DEF CloseSession, CloseIdle, MayCloseIdle
<1>4. audited' \in [Outcomes -> Nat]
  BY <1>2 DEF OpenSession, CloseSession, GoesIdle, CloseIdle, FinishSession
<1>5. ImportShapeOK'
  BY <1>0, <1>1, <1>3, <1>4 DEF ImportShapeOK, ImportTypeOK
<1>6. CallOrder'
  <2>1. \A i \in Imports : import[i].stage \in {"counting", "counting refusal"} => CountsInto(import[i].in) # {}
    BY CountsIntoIs
  <2> QED
    BY <1>0, <1>1, <1>3, <2>1 DEF CallOrder
<1>7. LockHasOne' /\ RowHasOne' /\ StoredIsThere'
  BY <1>0, <1>1 DEF LockHasOne, RowHasOne, StoredIsThere, Holding
<1>8. CountsAreRead' /\ NewIsEmpty'
  BY <1>0, <1>1, <1>3 DEF CountsAreRead, NewIsEmpty, CallOrder
<1> QED
  BY <1>5, <1>6, <1>7, <1>8 DEF ImportInv

\* The calls and the sessions, whatever they do at once.
LEMMA ImportSafe == ImportSpec => []ImportInv
<1>1. ImportInit => ImportInv
  <2> SUFFICES ASSUME ImportInit PROVE ImportInv
    OBVIOUS
  <2>1. ImportShapeOK
    BY DEF ImportInit, ImportShapeOK, ImportTypeOK, IdleImport, ImportStages,
       Outcomes, Nothing
  <2>2. CallOrder /\ LockHasOne /\ RowHasOne /\ CountsAreRead
    BY DEF ImportInit, CallOrder, LockHasOne, RowHasOne, CountsAreRead, IdleImport,
       Holding
  <2>3. NewIsEmpty /\ StoredIsThere
    BY DEF ImportInit, NewIsEmpty, StoredIsThere
  <2> QED
    BY <2>1, <2>2, <2>3 DEF ImportInv
<1>2. ImportInv /\ [ImportNext]_importVars => ImportInv'
  <2> SUFFICES ASSUME ImportInv, [ImportNext]_importVars PROVE ImportInv'
    OBVIOUS
  <2>1. ASSUME NEW i \in Imports, ImportStep(i) PROVE ImportInv'
    <3>1. CASE Commit(i)
      BY <3>1, CommitKeeps
    <3>2. ASSUME NEW m \in Mails, NEW s \in Sessions \union {NoSession}, NEW always \in BOOLEAN,
                 NEW match \in BOOLEAN, Begin(i, m, s, always, match)
          PROVE  ImportInv'
      BY <3>2, CallMoves
    <3>3. CASE Refuse(i) \/ LockMessage(i) \/ StoreImport(i) \/ ReadCounts(i) \/ LoseRefusal(i)
      <4>1. PICK m \in Mails : TRUE
        BY <3>3 DEF Refuse, LockMessage, StoreImport, ReadCounts, LoseRefusal,
           ImportInv, CallOrder
      <4> QED
        BY <3>3, <4>1, CallMoves
    <3> QED
      BY <2>1, <3>1, <3>2, <3>3 DEF ImportStep
  <2>2. ASSUME NEW s \in Sessions, OpenSession(s) \/ CloseSession(s) \/ GoesIdle(s) \/ CloseIdle(s)
        PROVE  ImportInv'
    BY <2>2, SessionMoves
  <2>3. ASSUME UNCHANGED <<kept, import, importSession, audited, imports, refusals, done>>,
               listed' \in SUBSET Sessions, submitted' \in SUBSET Ids
        PROVE  ImportInv'
    <3>1. ImportShapeOK'
      BY <2>3 DEF ImportInv, ImportShapeOK, ImportTypeOK
    <3>2. CallOrder' /\ LockHasOne' /\ RowHasOne' /\ CountsAreRead' /\ NewIsEmpty' /\ StoredIsThere'
      BY <2>3 DEF ImportInv, CallOrder, LockHasOne, RowHasOne, CountsAreRead,
         NewIsEmpty, StoredIsThere,
         Holding, Live
    <3> QED
      BY <3>1, <3>2 DEF ImportInv
  <2>4. CASE ListIdle
    <3>1. submitted \in SUBSET Ids
      BY DEF ImportInv, ImportShapeOK, ImportTypeOK
    <3> QED
      BY <2>3, <2>4, <3>1 DEF ListIdle
  <2>5. ASSUME NEW id \in Ids, Submit(id) \/ WindowPasses(id) PROVE ImportInv'
    <3>1. submitted \in SUBSET Ids /\ listed \in SUBSET Sessions
      BY DEF ImportInv, ImportShapeOK, ImportTypeOK
    <3> QED
      BY <2>3, <2>5, <3>1 DEF Submit, WindowPasses
  <2>6. CASE UNCHANGED importVars
    <3>1. submitted \in SUBSET Ids /\ listed \in SUBSET Sessions
      BY DEF ImportInv, ImportShapeOK, ImportTypeOK
    <3> QED
      BY <2>3, <2>6, <3>1 DEF importVars
  <2> QED
    BY <2>1, <2>2, <2>4, <2>5, <2>6 DEF ImportNext
<1> QED
  BY <1>1, <1>2, PTL DEF ImportSpec

\* However often and however concurrently a message is sent, the calls that did not ask
\* to store it always store one copy.
THEOREM MailImportedOnce == ImportSpec => []ImportedOnce
<1>1. ImportInv => ImportedOnce
  BY DEF ImportInv, StoredIsThere, ImportedOnce
<1> QED
  BY <1>1, ImportSafe, PTL


\* What the open sessions have counted of an outcome.
LiveSessions == {s \in Sessions : Live(s)}
Tallies(o)   == [s \in Sessions |-> importSession[s].counts[o]]
InSessions(o) == SumFunctionOnSet(Tallies(o), LiveSessions)

\* Sums of sessions are sums of finitely many numbers.
LEMMA TalliesAreNat ==
  ASSUME ImportInv, NEW o \in Outcomes
  PROVE  /\ IsFiniteSet(LiveSessions) /\ LiveSessions \subseteq Sessions
         /\ \A s \in Sessions : Tallies(o)[s] \in Nat /\ Tallies(o)[s] = importSession[s].counts[o]
         /\ \A s \in LiveSessions : Tallies(o)[s] \in Int
         /\ InSessions(o) \in Int /\ audited[o] \in Nat /\ done.all[o] \in Nat
         /\ Counted(o) = audited[o] + InSessions(o)
<1>1. IsFiniteSet(LiveSessions) /\ LiveSessions \subseteq Sessions
  BY ImportAssumption, FS_Subset DEF LiveSessions
<1>2. \A s \in Sessions : Tallies(o)[s] \in Nat /\ Tallies(o)[s] = importSession[s].counts[o]
  BY DEF ImportInv, ImportShapeOK, ImportTypeOK, Tallies
<1>3. \A s \in LiveSessions : Tallies(o)[s] \in Int
  BY <1>1, <1>2
<1>4. InSessions(o) \in Int
  BY <1>1, <1>3, SumChoice DEF InSessions
<1>5. audited[o] \in Nat /\ done.all[o] \in Nat
  BY DEF ImportInv, ImportShapeOK, ImportTypeOK
<1>6. Counted(o) = audited[o] + InSessions(o)
  BY DEF Counted, InSessions, Tallies, LiveSessions
<1> QED
  BY <1>1, <1>2, <1>3, <1>4, <1>5, <1>6

\* The same after a step.
SumsAreNumbers ==
  \A o \in Outcomes :
    /\ IsFiniteSet(LiveSessions)
    /\ InSessions(o) \in Int /\ audited[o] \in Nat /\ done.all[o] \in Nat
    /\ Counted(o) = audited[o] + InSessions(o)

\* The tallies are numbers.
LEMMA SumsAreTyped == ImportInv => SumsAreNumbers
  BY TalliesAreNat DEF SumsAreNumbers

\* So they are after a step.
LEMMA SumsAreTypedAfter == ImportInv' => SumsAreNumbers'
  BY SumsAreTyped, PTL

\* An empty session joins those that are open; one that leaves them is written in the log.
LEMMA OpenAndCloseCount ==
  ASSUME ImportInv, ImportInv', NEW s \in Sessions, NEW o \in Outcomes,
         OpenSession(s) \/ CloseSession(s) \/ GoesIdle(s) \/ CloseIdle(s)
  PROVE  audited'[o] + InSessions(o)' = audited[o] + InSessions(o) /\ done' = done
<1>0. /\ importSession \in [Sessions -> [state : {"new", "open", "idle", "closed"}, counts : [Outcomes -> Nat]]]
      /\ audited[o] \in Nat /\ InSessions(o) \in Int /\ InSessions(o)' \in Int
      /\ IsFiniteSet(LiveSessions) /\ IsFiniteSet(LiveSessions')
      /\ \A t \in Sessions : Tallies(o)[t] \in Int /\ Tallies(o)[t] = importSession[t].counts[o]
  <2>1. SumsAreNumbers'
    BY SumsAreTypedAfter
  <2>2. /\ importSession \in [Sessions -> [state : {"new", "open", "idle", "closed"}, counts : [Outcomes -> Nat]]]
    BY DEF ImportInv, ImportShapeOK, ImportTypeOK
  <2>3. InSessions(o)' \in Int /\ IsFiniteSet(LiveSessions')
    BY <2>1 DEF SumsAreNumbers
  <2> QED
    BY <2>2, <2>3, TalliesAreNat
<1>1. CASE OpenSession(s)
  <2>1. /\ importSession' = [importSession EXCEPT ![s].state = "open"] /\ importSession[s].state = "new"
        /\ UNCHANGED <<audited, done>>
    BY <1>1 DEF OpenSession
  <2>2. LiveSessions' \ {s} = LiveSessions /\ s \in LiveSessions'
    BY <1>0, <2>1 DEF LiveSessions, Live
  <2>3. Tallies(o)' = Tallies(o)
    BY <1>0, <2>1 DEF Tallies
  <2>4. Tallies(o)[s] = 0
    BY <1>0, <2>1 DEF ImportInv, NewIsEmpty, Nothing
  <2>5. \A t \in LiveSessions' : Tallies(o)[t] \in Int
    BY <1>0 DEF LiveSessions
  <2>6. SumFunctionOnSet(Tallies(o), LiveSessions') = Tallies(o)[s] + SumFunctionOnSet(Tallies(o), LiveSessions' \ {s})
    BY <1>0, <2>2, <2>5, SumTakes
  <2>7. InSessions(o)' = 0 + InSessions(o)
    BY <2>2, <2>3, <2>4, <2>6 DEF InSessions
  <2> QED
    BY <1>0, <2>1, <2>7
<1>2. CASE FinishSession(s) /\ Live(s) /\ done' = done
  <2>1. /\ importSession' = [importSession EXCEPT ![s].state = "closed"]
        /\ audited'[o] = audited[o] + importSession[s].counts[o]
    BY <1>2 DEF FinishSession
  <2>2. LiveSessions' = LiveSessions \ {s} /\ s \in LiveSessions
    BY <1>0, <1>2, <2>1 DEF LiveSessions, Live
  <2>3. Tallies(o)' = Tallies(o)
    BY <1>0, <2>1 DEF Tallies
  <2>4. \A t \in LiveSessions : Tallies(o)[t] \in Int
    BY <1>0 DEF LiveSessions
  <2>5. SumFunctionOnSet(Tallies(o), LiveSessions) = Tallies(o)[s] + SumFunctionOnSet(Tallies(o), LiveSessions \ {s})
    BY <1>0, <2>2, <2>4, SumTakes
  <2>6. InSessions(o) = Tallies(o)[s] + InSessions(o)'
    BY <2>2, <2>3, <2>5 DEF InSessions
  <2>7. Tallies(o)[s] = importSession[s].counts[o] /\ Tallies(o)[s] \in Int
    BY <1>0
  <2> HIDE DEF InSessions
  <2> QED
    BY <1>0, <1>2, <2>1, <2>6, <2>7
<1>3. CASE GoesIdle(s)
  <2>1. /\ importSession' = [importSession EXCEPT ![s].state = "idle"] /\ Live(s)
        /\ UNCHANGED <<audited, done>>
    BY <1>3 DEF GoesIdle, Live
  <2>2. LiveSessions' = LiveSessions /\ Tallies(o)' = Tallies(o)
    BY <1>0, <2>1 DEF LiveSessions, Live, Tallies
  <2> QED
    BY <2>1, <2>2 DEF InSessions
<1>4. CASE UNCHANGED <<importSession, audited, done>>
  BY <1>4 DEF InSessions, Tallies, LiveSessions, Live
<1> QED
  BY <1>1, <1>2, <1>3, <1>4 DEF CloseSession, CloseIdle, MayCloseIdle, Live

\* A call that commits is counted once: in its session, whose row it has, or in the log.
LEMMA CommitCounts ==
  ASSUME ImportInv, ImportInv', NEW i \in Imports, Commit(i), NEW o \in Outcomes
  PROVE  audited'[o] + InSessions(o)' - done'.all[o] = audited[o] + InSessions(o) - done.all[o]
<1> DEFINE c == import[i]
           s == c.in
           n == IF c.outcome = o THEN 1 ELSE 0
<1>0. /\ importSession \in [Sessions -> [state : {"new", "open", "idle", "closed"}, counts : [Outcomes -> Nat]]]
      /\ audited \in [Outcomes -> Nat] /\ done.all \in [Outcomes -> Nat] /\ c.outcome \in Outcomes
      /\ c.counts \in [Outcomes -> Nat]
      /\ InSessions(o) \in Int /\ InSessions(o)' \in Int
      /\ IsFiniteSet(LiveSessions)
      /\ \A t \in Sessions : Tallies(o)[t] \in Int /\ Tallies(o)[t] = importSession[t].counts[o]
  <2>1. InSessions(o)' \in Int
    BY SumsAreTypedAfter DEF SumsAreNumbers
  <2>2. import \in [Imports -> Calling]
    BY DEF ImportInv, ImportShapeOK, ImportTypeOK, Calling
  <2>3. c \in Calling
    BY <2>2
  <2>4. /\ importSession \in [Sessions -> [state : {"new", "open", "idle", "closed"}, counts : [Outcomes -> Nat]]]
        /\ audited \in [Outcomes -> Nat] /\ done.all \in [Outcomes -> Nat]
    BY DEF ImportInv, ImportShapeOK, ImportTypeOK
  <2> QED
    BY <2>1, <2>3, <2>4, TalliesAreNat DEF Calling
<1>1. \A f \in [Outcomes -> Nat] : Tally(f, c.outcome)[o] = f[o] + n
  <2> TAKE f \in [Outcomes -> Nat]
  <2>1. f[o] \in Nat
    OBVIOUS
  <2>2. CASE c.outcome = o
    BY <1>0, <2>2, TallyIs
  <2>3. CASE c.outcome # o
    BY <1>0, <2>1, <2>3, TallyIs
  <2> QED
    BY <2>2, <2>3
<1>2. done'.all[o] = done.all[o] + n
  <2>1. done'.all = Tally(done.all, c.outcome)
    BY DEF Commit
  <2> QED
    BY <1>0, <1>1, <2>1
<1>3. CASE c.stage \in {"counting", "counting refusal"}
  <2>1. s \in Sessions /\ Live(s) /\ c.counts = importSession[s].counts
    BY <1>3 DEF ImportInv, CallOrder, CountsAreRead
  <2>2. importSession' = [importSession EXCEPT ![s].counts = Tally(c.counts, c.outcome),
                            ![s].state = IF @ = "closed" THEN @ ELSE "open"] /\ audited' = audited
    BY <1>3 DEF Commit
  <2>3. /\ LiveSessions' = LiveSessions /\ s \in LiveSessions
    BY <1>0, <2>1, <2>2 DEF LiveSessions, Live
  <2>4. \A t \in LiveSessions \ {s} : Tallies(o)'[t] = Tallies(o)[t]
    BY SMTT(30), <1>0, <2>1, <2>2 DEF Tallies, LiveSessions
  <2>5. Tallies(o)'[s] = importSession'[s].counts[o] /\ importSession'[s].counts = Tally(c.counts, c.outcome)
    BY <1>0, <2>1, <2>2 DEF Tallies
  <2>6. Tallies(o)'[s] = Tallies(o)[s] + n /\ Tallies(o)[s] \in Int /\ Tallies(o)'[s] \in Int
    BY <1>0, <1>1, <2>1, <2>5
  <2>7. \A t \in LiveSessions : Tallies(o)[t] \in Int
    BY <1>0 DEF LiveSessions
  <2>8. SumFunctionOnSet(Tallies(o)', LiveSessions)
          = SumFunctionOnSet(Tallies(o), LiveSessions) + Tallies(o)'[s] - Tallies(o)[s]
    <3> DEFINE e == Tallies(o)'
               f == Tallies(o)
               S == LiveSessions
    <3>1. IsFiniteSet(S) /\ s \in S /\ e[s] \in Int /\ \A t \in S : f[t] \in Int
      BY <1>0, <2>3, <2>6, <2>7
    <3>2. \A t \in S \ {s} : e[t] = f[t]
      BY <2>4
    <3> HIDE DEF e, f, S, s
    <3>3. SumFunctionOnSet(e, S) = SumFunctionOnSet(f, S) + e[s] - f[s]
      BY <3>1, <3>2, SumChange
    <3> QED
      BY <3>3 DEF e, f, S
  <2>9. InSessions(o)' = InSessions(o) + Tallies(o)'[s] - Tallies(o)[s]
    BY <2>3, <2>8 DEF InSessions
  <2>10. audited[o] \in Int /\ done.all[o] \in Int /\ n \in Int /\ audited'[o] = audited[o]
    BY <1>0, <2>2
  <2> HIDE DEF n
  <2> QED
    BY <1>0, <1>2, <2>6, <2>9, <2>10
<1>4. CASE c.stage \in {"stored", "refused"} /\ c.in = NoSession
  <2>1. audited' = Tally(audited, c.outcome) /\ importSession' = importSession
    BY <1>4 DEF Commit
  <2>2. audited'[o] = audited[o] + n
    BY <1>0, <1>1, <2>1
  <2>3. InSessions(o)' = InSessions(o)
    BY <2>1 DEF InSessions, Tallies, LiveSessions, Live
  <2>4. audited[o] \in Int /\ done.all[o] \in Int /\ n \in Int
    BY <1>0
  <2> HIDE DEF n
  <2> QED
    BY <1>0, <1>2, <2>2, <2>3, <2>4
<1> QED
  BY <1>3, <1>4 DEF Commit

\* The audit log tells of every import exactly once, while imports race a close, the
\* sweeper and each other for the session's row: for any number of calls and sessions.
THEOREM ImportsAreCounted == ImportSpec => []EveryImportCounted
<1>1. ImportInit => EveryImportCounted
  <2> SUFFICES ASSUME ImportInit, NEW o \in Outcomes PROVE Counted(o) = done.all[o]
    BY DEF EveryImportCounted
  <2>1. LiveSessions = {}
    BY DEF ImportInit, LiveSessions, Live
  <2>2. SumFunctionOnSet(Tallies(o), {}) = 0
    BY FS_EmptySet, SumChoice
  <2>3. Counted(o) = audited[o] + SumFunctionOnSet(Tallies(o), LiveSessions)
    BY DEF Counted, Tallies, LiveSessions
  <2>4. audited[o] = 0 /\ done.all[o] = 0
    BY DEF ImportInit, Nothing
  <2> QED
    BY <2>1, <2>2, <2>3, <2>4
<1>2. ImportInv /\ ImportInv' /\ EveryImportCounted /\ [ImportNext]_importVars => EveryImportCounted'
  <2> SUFFICES ASSUME ImportInv, ImportInv', EveryImportCounted, [ImportNext]_importVars, NEW o \in Outcomes
               PROVE  Counted(o)' = done'.all[o]
    BY DEF EveryImportCounted
  <2>1. /\ Counted(o) = audited[o] + InSessions(o) /\ Counted(o)' = audited'[o] + InSessions(o)'
        /\ Counted(o) = done.all[o] /\ done.all[o] \in Nat /\ done'.all[o] \in Nat
        /\ audited[o] \in Nat /\ audited'[o] \in Nat /\ InSessions(o) \in Int /\ InSessions(o)' \in Int
    <3>1. SumsAreNumbers /\ SumsAreNumbers'
      BY SumsAreTyped, SumsAreTypedAfter
    <3> QED
      BY <3>1 DEF EveryImportCounted, SumsAreNumbers
  <2>2. ASSUME UNCHANGED <<importSession, audited, done>> PROVE Counted(o)' = done'.all[o]
    BY <2>1, <2>2 DEF InSessions, Tallies, LiveSessions, Live
  <2>3. ASSUME NEW i \in Imports, ImportStep(i) PROVE Counted(o)' = done'.all[o]
    <3>1. CASE Commit(i)
      <4>1. audited'[o] + InSessions(o)' - done'.all[o] = audited[o] + InSessions(o) - done.all[o]
        BY <3>1, CommitCounts
      <4> QED
        BY <2>1, <4>1
    <3>2. CASE ~Commit(i)
      <4>1. UNCHANGED <<importSession, audited, done>>
        BY <2>3, <3>2 DEF ImportStep, Begin, Refuse, LockMessage, StoreImport,
           ReadCounts, LoseRefusal
      <4> QED
        BY <2>2, <4>1
    <3> QED
      BY <3>1, <3>2
  <2>4. ASSUME NEW s \in Sessions, OpenSession(s) \/ CloseSession(s) \/ GoesIdle(s) \/ CloseIdle(s)
        PROVE  Counted(o)' = done'.all[o]
    BY <2>1, <2>4, OpenAndCloseCount
  <2>5. ASSUME \/ ListIdle \/ UNCHANGED importVars
               \/ \E id \in Ids : Submit(id) \/ WindowPasses(id)
        PROVE  Counted(o)' = done'.all[o]
    BY <2>2, <2>5 DEF ListIdle, Submit, WindowPasses, importVars
  <2> QED
    BY <2>3, <2>4, <2>5 DEF ImportNext
<1> QED
  BY <1>1, <1>2, ImportSafe, PTL DEF ImportSpec
=============================================================================
