---------------------- MODULE DeliveryTransportProofs ----------------------
(***************************************************************************)
(* Proofs about DeliveryTransport, for every set of rows, workers, hosts,  *)
(* MX lists and policies.                                                  *)
(***************************************************************************)
EXTENDS DeliveryTransport, SequenceTheorems, TLAPS

-----------------------------------------------------------------------------
(* Types *)

\* A worker has a row exactly while an attempt is under way.
Busy == \A w \in Workers : pc[w] # "idle" <=> row[w] \in Rows

\* From its lookup until the SMTP loop a worker knows a primary MX host.
Looked == {"choose", "probe", "probed", "pin", "restmail", "note"}
Routed == \A w \in Workers : pc[w] \in Looked => mx[w] # <<>>

\* The SMTP loop does not end without an error to report.
Faulted ==
  \A w \in Workers : pc[w] = "smtp" /\ mx[w] = <<>> => lastErr[w] # NoFailure

TInv == TypeOK /\ Busy /\ Routed /\ Faulted

\* The names steps and failures are given are in their sets.
LEMMA NamesTyped ==
  /\ Steps = {"idle", "route", "relay", "resolve", "choose", "probe", "probed",
              "pin", "restmail", "note", "smtp"}
  /\ Transports = {"", "smtp", "restmail"}
  /\ {"bad_mailbox", "bad_domain", "policy", "other_permanent", "connection", "tls",
      "dns", "other_transient"} \subseteq FailureCategories
  /\ FailureCategories \ TransientCategories \subseteq PermanentCategories
  /\ NoFailure \notin FailureCategories
  /\ Deferrals \union Refusals \subseteq FailureCategories
BY ReplyAssumption DEF Steps, Transports, FailureCategories, PermanentCategories,
     TransientCategories, NoFailure

\* What the workers start with has its types.
LEMMA InitTyped == Init => TInv
<1> SUFFICES ASSUME Init PROVE TInv
  OBVIOUS
<1>1. TypeOK
  <2>1. /\ relaying \in BOOLEAN
        /\ capSupported \in BOOLEAN
        /\ dane \in [Workers -> BOOLEAN]
        /\ answer \in [Workers -> BOOLEAN]
    BY Zenon DEF Init
  <2>2. mx \in [Workers -> Seq(Hosts)]
    BY EmptySeq DEF Init
  <2>3. policy \in [Workers -> Policies]
    BY DEF Init, Policies
  <2>4. /\ pc \in [Workers -> Steps]
        /\ item \in [Workers -> Transports]
        /\ transport \in [Rows -> Transports]
    BY NamesTyped DEF Init
  <2>5. /\ lastErr \in [Workers -> Failures]
        /\ transientErr \in [Workers -> Failures]
    BY DEF Init, Failures
  <2>7. learnt \in [Hosts -> Int]
    <3>1. NoTime \in Int
      BY DEF NoTime
    <3>2. QED
      BY <3>1 DEF Init
  <2>6. QED
    BY <2>1, <2>2, <2>3, <2>4, <2>5, <2>7 DEF Init, TypeOK
<1>2. Busy /\ Routed /\ Faulted
  BY RowAssumption DEF Init, Busy, Routed, Faulted, Looked
<1>3. QED
  BY <1>1, <1>2 DEF TInv

\* Putting a message on the wire adds one well formed entry to its row.
LEMMA TransmitTyped ==
  ASSUME TInv, NEW w \in Workers, pc[w] # "idle",
         NEW path \in {"smtp", "restmail", "relay"}, NEW security \in Securities,
         NEW promises \in SUBSET Promises, NEW named \in BOOLEAN,
         Transmit(w, path, security, promises, named)
  PROVE  sent' \in [Rows -> SUBSET Wires]
<1> DEFINE s == [path |-> path, security |-> security, promises |-> promises,
                 named |-> named, pinned |-> transport[row[w]] = "restmail"]
<1>1. s \in Wires
  BY DEF Wires
<1>2. sent' = [sent EXCEPT ![row[w]] = @ \union {s}]
  BY DEF Transmit
<1>3. QED
  BY <1>1, <1>2 DEF TInv, TypeOK

\* Promises are sets of the three kinds, and a name matches or does not.
LEMMA PromisedTyped ==
  ASSUME NEW w, NEW covered \in BOOLEAN, NEW h
  PROVE  Promised(w, covered) \in SUBSET Promises /\ Names(w, h) \in BOOLEAN
BY DEF Promises, Required, Promised, Names

\* A worker that is done has the types of an idle one.
LEMMA IdleTyped ==
  ASSUME TInv, NEW w \in Workers, GoIdle(w)
  PROVE  /\ pc' \in [Workers -> Steps]
         /\ row' \in [Workers -> Rows \union {NoRow}]
         /\ item' \in [Workers -> Transports]
         /\ mx' \in [Workers -> Seq(Hosts)]
         /\ dane' \in [Workers -> BOOLEAN]
         /\ policy' \in [Workers -> Policies]
         /\ answer' \in [Workers -> BOOLEAN]
         /\ lastErr' \in [Workers -> Failures]
         /\ transientErr' \in [Workers -> Failures]
         /\ seen' \in [Workers -> SUBSET FailureCategories]
         /\ Busy' /\ Routed' /\ Faulted'
<1> USE DEF TInv, TypeOK, GoIdle
<1>1. pc' \in [Workers -> Steps] /\ item' \in [Workers -> Transports]
  BY NamesTyped
<1>2. dane' \in [Workers -> BOOLEAN] /\ answer' \in [Workers -> BOOLEAN]
  BY Zenon
<1>3. policy' \in [Workers -> Policies]
  BY DEF Policies
<1>4. lastErr' \in [Workers -> Failures] /\ transientErr' \in [Workers -> Failures]
  BY DEF Failures
<1>5. /\ row' \in [Workers -> Rows \union {NoRow}]
      /\ seen' \in [Workers -> SUBSET FailureCategories]
  OBVIOUS
<1>8. mx' \in [Workers -> Seq(Hosts)]
  BY EmptySeq
<1>6. Busy' /\ Routed' /\ Faulted'
  BY RowAssumption DEF Busy, Routed, Faulted, Looked
<1>7. QED
  BY <1>1, <1>2, <1>3, <1>4, <1>5, <1>6, <1>8

\* Whatever deliver returns, process records it in the row's types.
LEMMA ReturnTyped ==
  ASSUME TInv, NEW w \in Workers, pc[w] # "idle",
         NEW o \in FailureCategories \union {"delivered"}, Return(w, o),
         sent' \in [Rows -> SUBSET Wires]
  PROVE  TInv'
<1>1. outcome' \in [Rows -> PermanentCategories \union {"queued", "delivered"}]
  BY NamesTyped DEF TInv, TypeOK, Return
<1>2. QED
  BY <1>1, IdleTyped DEF TInv, TypeOK, Return, cap

\* The move to the next host, or the end of an attempt, keeps the types.
LEMMA FailHostTyped ==
  ASSUME TInv, NEW w \in Workers, pc[w] = "smtp", mx[w] # <<>>,
         NEW c \in FailureCategories, NEW keep \in BOOLEAN, FailHost(w, c, keep),
         sent' \in [Rows -> SUBSET Wires]
  PROVE  TInv'
<1> USE DEF TInv, FailHost
<1>1. mx' \in [Workers -> Seq(Hosts)]
  BY DEF TypeOK
<1>2. /\ lastErr' \in [Workers -> Failures]
      /\ transientErr' \in [Workers -> Failures]
      /\ seen' \in [Workers -> SUBSET FailureCategories]
  BY DEF TypeOK, Failures
<1>3. TypeOK'
  BY <1>1, <1>2 DEF TypeOK, rowVars, cap
<1>4. Busy' /\ Routed' /\ Faulted'
  BY NamesTyped DEF TypeOK, Busy, Routed, Faulted, Looked
<1>5. QED
  BY <1>3, <1>4

\* A step that only moves a worker on keeps the types.
LEMMA GotoTyped ==
  ASSUME TInv, NEW w \in Workers, pc[w] # "idle", NEW step \in Steps \ {"idle"},
         Goto(w, step), step \in Looked => mx[w] # <<>>,
         step = "smtp" => mx[w] # <<>>,
         UNCHANGED <<row, mx, lastErr>>
  PROVE  pc' \in [Workers -> Steps] /\ Busy' /\ Routed' /\ Faulted'
BY DEF TInv, TypeOK, Goto, Busy, Routed, Faulted

\* Every step keeps the types, and the workers' locals well formed.
LEMMA StepTyped == TInv /\ [Next]_vars => TInv'
<1> SUFFICES ASSUME TInv, [Next]_vars PROVE TInv'
  OBVIOUS
<1> USE DEF rowVars, cap, found, errors, workerVars
<1>0. sent \in [Rows -> SUBSET Wires]
  BY DEF TInv, TypeOK
<1>1. ASSUME NEW w \in Workers, NEW r \in Rows, Claim(w, r) PROVE TInv'
  <2>1. TypeOK'
    <3>1. item' \in [Workers -> Transports] /\ attempts' \in [Rows -> Nat]
      BY <1>1 DEF TInv, TypeOK, Claim
    <3>2. pc' \in [Workers -> Steps] /\ row' \in [Workers -> Rows \union {NoRow}]
      BY <1>1, NamesTyped DEF TInv, TypeOK, Claim
    <3>3. QED
      BY <1>1, <3>1, <3>2 DEF TInv, TypeOK, Claim
  <2>2. Busy' /\ Routed' /\ Faulted'
    BY <1>1, NamesTyped DEF TInv, TypeOK, Claim, Busy, Routed, Faulted, Looked
  <2>3. QED
    BY <2>1, <2>2 DEF TInv
<1>2. ASSUME NEW w \in Workers, Route(w) PROVE TInv'
  <2>1. ASSUME NEW o \in FailureCategories, Return(w, o), UNCHANGED sent PROVE TInv'
    BY <1>0, <1>2, <2>1, ReturnTyped DEF Route
  <2>2. CASE Goto(w, IF relaying THEN "relay" ELSE "resolve") /\ UNCHANGED <<now,
               relaying, rowVars, cap, row, item, found, answer, errors, learnt, sent>>
    <3>1. pc' \in [Workers -> Steps] /\ Busy' /\ Routed' /\ Faulted'
      BY <1>2, <2>2, NamesTyped, GotoTyped DEF Route, Looked
    <3>2. QED
      BY <2>2, <3>1 DEF TInv, TypeOK
  <2>3. QED
    BY <1>2, <2>1, <2>2, NamesTyped DEF Route
<1>3. ASSUME NEW w \in Workers, deliverViaRelay(w) PROVE TInv'
  <2>1. ASSUME NEW o \in FailureCategories, Return(w, o), UNCHANGED sent PROVE TInv'
    BY <1>0, <1>3, <2>1, ReturnTyped DEF deliverViaRelay
  <2>2. ASSUME NEW o \in Results, Return(w, o),
               Transmit(w, "relay", "authenticated", Required(w), FALSE)
        PROVE  TInv'
    <3>1. sent' \in [Rows -> SUBSET Wires]
      BY <1>3, <2>2, TransmitTyped
         DEF deliverViaRelay, Securities, Promises, Required
    <3>2. QED
      BY <1>3, <2>2, <3>1, NamesTyped, ReturnTyped DEF deliverViaRelay, Results
  <2>3. QED
    BY <1>3, <2>1, <2>2, NamesTyped DEF deliverViaRelay
<1>4. ASSUME NEW w \in Workers, Resolve(w) PROVE TInv'
  <2>1. ASSUME NEW o \in FailureCategories, Return(w, o), UNCHANGED sent PROVE TInv'
    BY <1>0, <1>4, <2>1, ReturnTyped DEF Resolve
  <2>2. ASSUME NEW hosts \in MXLists, NEW secure \in BOOLEAN, NEW p \in PolicyAnswers,
               mx' = [mx EXCEPT ![w] = hosts], dane' = [dane EXCEPT ![w] = secure],
               policy' = [policy EXCEPT ![w] = recipientPolicy(row[w], p)],
               Goto(w, "choose"), UNCHANGED <<now, relaying, rowVars, cap, row, item,
                 answer, errors, learnt, sent>>
        PROVE  TInv'
    <3>1. mx' \in [Workers -> Seq(Hosts)]
      BY <2>2, RowAssumption DEF TInv, TypeOK
    <3>2. dane' \in [Workers -> BOOLEAN]
      BY <2>2 DEF TInv, TypeOK
    <3>3. policy' \in [Workers -> Policies]
      BY <2>2, RowAssumption DEF TInv, TypeOK, recipientPolicy, Policies
    <3>4. pc' \in [Workers -> Steps]
      BY <2>2, NamesTyped DEF TInv, TypeOK, Goto
    <3>5. Busy' /\ Routed' /\ Faulted'
      BY <1>4, <2>2, RowAssumption
         DEF TInv, TypeOK, Goto, Resolve, Busy, Routed, Faulted, Looked
    <3>6. QED
      BY <2>2, <3>1, <3>2, <3>3, <3>4, <3>5 DEF TInv, TypeOK
  <2>3. QED
    BY <1>4, <2>1, <2>2, NamesTyped DEF Resolve
<1>5. ASSUME NEW w \in Workers, ChoosePinned(w) PROVE TInv'
  <2>1. ASSUME NEW o \in FailureCategories, Return(w, o), UNCHANGED sent PROVE TInv'
    BY <1>0, <1>5, <2>1, ReturnTyped DEF ChoosePinned
  <2>2. CASE Goto(w, "restmail") /\ UNCHANGED <<now, relaying, rowVars, cap, row, item,
               found, answer, errors, learnt, sent>>
    <3>1. pc' \in [Workers -> Steps] /\ Busy' /\ Routed' /\ Faulted'
      BY <1>5, <2>2, NamesTyped, GotoTyped DEF ChoosePinned, TInv, Routed, Looked
    <3>2. QED
      BY <2>2, <3>1 DEF TInv, TypeOK
  <2>3. QED
    BY <1>5, <2>1, <2>2, NamesTyped DEF ChoosePinned
<1>6. ASSUME NEW w \in Workers, Choose(w) PROVE TInv'
  <2>1. pc' \in [Workers -> Steps] /\ Busy' /\ Routed' /\ Faulted'
    BY <1>6, NamesTyped, GotoTyped DEF Choose, TInv, Routed, Looked
  <2>2. QED
    BY <1>6, <2>1 DEF TInv, TypeOK, Choose
<1>7. ASSUME NEW w \in Workers, probeRESTMAIL(w) PROVE TInv'
  <2>1. pc' \in [Workers -> Steps] /\ Busy' /\ Routed' /\ Faulted'
    BY <1>7, NamesTyped, GotoTyped DEF probeRESTMAIL, TInv, Routed, Looked
  <2>2. answer' \in [Workers -> BOOLEAN]
    BY <1>7 DEF probeRESTMAIL, TInv, TypeOK
  <2>3. QED
    BY <1>7, <2>1, <2>2 DEF TInv, TypeOK, probeRESTMAIL
<1>8. ASSUME NEW w \in Workers, cacheCapability(w) PROVE TInv'
  <2>1. pc' \in [Workers -> Steps] /\ Busy' /\ Routed' /\ Faulted'
    BY <1>8, NamesTyped, GotoTyped DEF cacheCapability, TInv, Routed, Looked
  <2>2. firstHost(w) \in Hosts
    BY <1>8, HeadTailProperties DEF cacheCapability, TInv, TypeOK, Routed, Looked,
       firstHost
  <2>3. capSupported' \in BOOLEAN
    BY <1>8 DEF cacheCapability, TInv, TypeOK
  <2>4. capHost' \in Hosts \union {NoHost} /\ capExpires' \in Nat
    BY <1>8, <2>2, LimitAssumption DEF cacheCapability, TInv, TypeOK
  <2>5. learnt' \in [Hosts -> Int]
    BY <1>8, <2>2 DEF cacheCapability, TInv, TypeOK
  <2>6. QED
    BY <1>8, <2>1, <2>3, <2>4, <2>5 DEF TInv, TypeOK, cacheCapability
<1>9. ASSUME NEW w \in Workers, pinRESTMAIL(w) PROVE TInv'
  <2>1. ASSUME NEW o \in FailureCategories, Return(w, o), UNCHANGED sent PROVE TInv'
    BY <1>0, <1>9, <2>1, ReturnTyped DEF pinRESTMAIL
  <2>2. CASE transport' = [transport EXCEPT ![row[w]] = "restmail"] /\ Goto(w, "restmail")
              /\ UNCHANGED <<now, relaying, attempts, outcome, cap, row, item, found,
                              answer, errors, learnt, sent>>
    <3>1. pc' \in [Workers -> Steps] /\ Busy' /\ Routed' /\ Faulted'
      BY <1>9, <2>2, NamesTyped, GotoTyped DEF pinRESTMAIL, TInv, Routed, Looked
    <3>2. transport' \in [Rows -> Transports]
      BY <2>2, NamesTyped DEF TInv, TypeOK
    <3>3. QED
      BY <2>2, <3>1, <3>2 DEF TInv, TypeOK
  <2>3. QED
    BY <1>9, <2>1, <2>2, NamesTyped DEF pinRESTMAIL
<1>10. ASSUME NEW w \in Workers, deliverRESTMAILDiscovered(w) PROVE TInv'
  <2>1. ASSUME NEW o \in FailureCategories, Return(w, o), UNCHANGED sent PROVE TInv'
    BY <1>0, <1>10, <2>1, ReturnTyped DEF deliverRESTMAILDiscovered
  <2>2. ASSUME NEW o \in Results, Return(w, o),
               Transmit(w, "restmail", "authenticated", Promised(w, dane[w]),
                        Names(w, firstHost(w)))
        PROVE  TInv'
    <3>1. sent' \in [Rows -> SUBSET Wires]
      <4>1. dane[w] \in BOOLEAN
        BY DEF TInv, TypeOK
      <4>2. /\ Promised(w, dane[w]) \in SUBSET Promises
            /\ Names(w, firstHost(w)) \in BOOLEAN
        BY <4>1, PromisedTyped
      <4>3. "authenticated" \in Securities /\ pc[w] # "idle"
        BY <1>10 DEF Securities, deliverRESTMAILDiscovered
      <4>4. QED
        BY <2>2, <4>2, <4>3, TransmitTyped
    <3>2. QED
      BY <1>10, <2>2, <3>1, NamesTyped, ReturnTyped DEF deliverRESTMAILDiscovered,
         Results
  <2>3. QED
    BY <1>10, <2>1, <2>2, NamesTyped DEF deliverRESTMAILDiscovered
<1>11. ASSUME NEW w \in Workers, noteSMTP(w) PROVE TInv'
  <2>1. pc' \in [Workers -> Steps] /\ Busy' /\ Routed' /\ Faulted'
    BY <1>11, NamesTyped, GotoTyped DEF noteSMTP, TInv, Routed, Looked
  <2>2. transport' \in [Rows -> Transports]
    <3>1. \/ transport' = transport
          \/ transport' = [transport EXCEPT ![row[w]] = "smtp"]
          \/ transport' = [transport EXCEPT ![row[w]] = transport[row[w]]]
      BY <1>11 DEF noteSMTP
    <3>2. transport \in [Rows -> Transports] /\ "smtp" \in Transports
      BY NamesTyped DEF TInv, TypeOK
    <3>3. QED
      BY <3>1, <3>2
  <2>3. QED
    BY <1>11, <2>1, <2>2 DEF TInv, TypeOK, noteSMTP
<1>12. ASSUME NEW w \in Workers, deliverToHost(w) PROVE TInv'
  <2> PICK covered \in BOOLEAN :
        \/ SkipHost(w, covered)
        \/ NoSession(w) \/ RefuseSession(w, covered) \/ SendOver(w, covered)
    BY <1>12 DEF deliverToHost
  <2>1. pc[w] = "smtp" /\ mx[w] # <<>>
    BY <1>12 DEF deliverToHost
  <2>2. ASSUME NEW c \in FailureCategories, NEW keep \in BOOLEAN, FailHost(w, c, keep),
               sent' \in [Rows -> SUBSET Wires]
        PROVE  TInv'
    BY <2>1, <2>2, FailHostTyped
  <2>3. CASE SkipHost(w, covered)
    BY <1>0, <2>2, <2>3, NamesTyped DEF SkipHost
  <2>4. CASE NoSession(w)
    BY <1>0, <2>2, <2>4, NamesTyped DEF NoSession
  <2>5. CASE RefuseSession(w, covered)
    BY <1>0, <2>2, <2>5, NamesTyped DEF RefuseSession
  <2>6. CASE SendOver(w, covered)
    <3>1. PICK security \in Securities :
            Transmit(w, "smtp", security, Promised(w, covered), Names(w, Head(mx[w])))
      BY <2>6 DEF SendOver
    <3>2. sent' \in [Rows -> SUBSET Wires]
      BY <2>1, <3>1, PromisedTyped, TransmitTyped
    <3>3. CASE Return(w, "delivered")
      BY <2>1, <3>2, <3>3, ReturnTyped
    <3>4. QED
      BY <2>2, <2>6, <3>2, <3>3, NamesTyped DEF SendOver
  <2>7. QED
    BY <2>3, <2>4, <2>5, <2>6
<1>13. ASSUME NEW w \in Workers, AllHostsFailed(w) PROVE TInv'
  <2> DEFINE o == IF row[w] \in RequireTLS /\ transientErr[w] # NoFailure
                  THEN transientErr[w] ELSE lastErr[w]
  <2>1. o \in FailureCategories
    BY <1>13 DEF AllHostsFailed, TInv, TypeOK, Failures, Faulted
  <2>2. QED
    BY <1>0, <1>13, <2>1, ReturnTyped DEF AllHostsFailed
<1>14. ASSUME NEW w \in Workers, Crash(w) PROVE TInv'
  BY <1>14, IdleTyped DEF TInv, TypeOK, Crash
<1>15. CASE SetRelay
  <2>1. relaying' \in BOOLEAN
    BY <1>15 DEF SetRelay
  <2>2. QED
    BY <1>15, <2>1 DEF SetRelay, TInv, TypeOK, Busy, Routed, Faulted
<1>16. CASE Tick
  BY <1>16 DEF Tick, TInv, TypeOK, Busy, Routed, Faulted
<1>17. CASE UNCHANGED vars
  BY <1>17 DEF vars, TInv, TypeOK, Busy, Routed, Faulted
<1>18. QED
  BY <1>1, <1>2, <1>3, <1>4, <1>5, <1>6, <1>7, <1>8, <1>9, <1>10, <1>11, <1>12,
     <1>13, <1>14, <1>15, <1>16, <1>17 DEF Next

\* Every reachable state has its types; in particular the SMTP loop always ends
\* with an outcome that is a failure's category.
THEOREM TypeCorrect == Spec => []TypeOK
<1>1. Spec => []TInv
  BY InitTyped, StepTyped, PTL DEF Spec
<1>2. TInv => TypeOK
  BY DEF TInv
<1>3. QED
  BY <1>1, <1>2, PTL

-----------------------------------------------------------------------------
(* REQUIRETLS, MTA-STS and DANE *)

\* A row that requires TLS is never pinned to RESTMAIL, nor is a worker that
\* sends one on its way there.
KeptOff ==
  /\ \A r \in RequireTLS : transport[r] # "restmail"
  /\ \A w \in Workers :
       row[w] \in RequireTLS =>
         item[w] # "restmail" /\ pc[w] \notin {"probe", "probed", "pin", "restmail"}

\* On the way to RESTMAIL the domain is not DANE's, and once the upgrade is
\* taken the policy permits it.
Gated ==
  \A w \in Workers :
    /\ pc[w] \in {"probe", "probed", "pin", "restmail"} => ~dane[w]
    /\ pc[w] \in {"pin", "restmail"} => restmailUpgradePermitted(w)

PromiseInv == TInv /\ KeptOff /\ Gated /\ RequireTLSKept /\ PolicyKept

\* What both properties ask of one entry on the wire.
Honest(s) ==
  /\ "requiretls" \in s.promises =>
       /\ s.security = "authenticated"
       /\ s.path # "restmail"
       /\ s.path = "smtp" => s.named \/ "dane" \in s.promises
  /\ "mta-sts" \in s.promises => s.security = "authenticated" /\ s.named
  /\ "dane" \in s.promises => s.security = "authenticated" /\ s.path = "smtp"

\* The two properties ask that of every entry.
LEMMA AllHonest ==
  RequireTLSKept /\ PolicyKept <=> \A r \in Rows : \A s \in sent[r] : Honest(s)
BY DEF RequireTLSKept, PolicyKept, Honest

\* One more honest entry leaves all entries honest.
LEMMA TransmitHonest ==
  ASSUME TInv, RequireTLSKept, PolicyKept, NEW w \in Workers, pc[w] # "idle",
         NEW path, NEW security, NEW promises, NEW named,
         Transmit(w, path, security, promises, named),
         Honest([path |-> path, security |-> security, promises |-> promises,
                 named |-> named, pinned |-> transport[row[w]] = "restmail"])
  PROVE  RequireTLSKept' /\ PolicyKept'
<1>1. \A r \in Rows : \A s \in sent'[r] : Honest(s)
  BY AllHonest DEF TInv, TypeOK, Transmit
<1>2. QED
  BY <1>1 DEF RequireTLSKept, PolicyKept, Honest

\* Nothing was sent yet.
LEMMA InitPromise == Init => PromiseInv
BY InitTyped, RowAssumption
   DEF Init, PromiseInv, KeptOff, Gated, RequireTLSKept, PolicyKept

\* A worker that is done is bound by nothing.
LEMMA IdlePromise ==
  ASSUME TInv, KeptOff, Gated, NEW w \in Workers, GoIdle(w), UNCHANGED transport
  PROVE  KeptOff' /\ Gated'
BY RowAssumption DEF TInv, TypeOK, KeptOff, Gated, GoIdle, restmailUpgradePermitted,
     enforcing, Names, firstHost

\* No step of a worker, of DNS or of an operator breaks a promise on the way.
LEMMA StepPromise == PromiseInv /\ [Next]_vars => PromiseInv'
<1> SUFFICES ASSUME PromiseInv, [Next]_vars PROVE PromiseInv'
  OBVIOUS
<1> USE DEF PromiseInv, rowVars, cap, found, errors, workerVars
<1>0. TInv'
  BY StepTyped
<1>a. ASSUME UNCHANGED sent PROVE RequireTLSKept' /\ PolicyKept'
  BY <1>a DEF RequireTLSKept, PolicyKept
<1>b. ASSUME NEW w \in Workers, NEW o, Return(w, o) PROVE KeptOff' /\ Gated'
  BY <1>b, IdlePromise DEF Return
<1> DEFINE Way == KeptOff /\ Gated
           Wire == RequireTLSKept /\ PolicyKept
<1>1. ASSUME NEW w \in Workers, NEW r \in Rows, Claim(w, r) PROVE Way' /\ Wire'
  BY <1>1, <1>a DEF Claim, TInv, TypeOK, KeptOff, Gated, restmailUpgradePermitted,
       enforcing, Names, firstHost
<1>2. ASSUME NEW w \in Workers, Route(w) PROVE Way' /\ Wire'
  <2>1. Way'
    BY <1>2, <1>b DEF Route, Goto, TInv, TypeOK, KeptOff, Gated,
         restmailUpgradePermitted, enforcing, Names, firstHost
  <2>2. QED
    BY <1>2, <1>a, <2>1 DEF Route
<1>3. ASSUME NEW w \in Workers, deliverViaRelay(w) PROVE Way' /\ Wire'
  <2>1. Way'
    BY <1>3, <1>b DEF deliverViaRelay
  <2>2. ASSUME Transmit(w, "relay", "authenticated", Required(w), FALSE) PROVE Wire'
    <3>1. Honest([path |-> "relay", security |-> "authenticated",
                  promises |-> Required(w), named |-> FALSE,
                  pinned |-> transport[row[w]] = "restmail"])
      BY DEF Honest, Required
    <3>2. QED
      BY <1>3, <2>2, <3>1, TransmitHonest DEF deliverViaRelay
  <2>3. QED
    BY <1>3, <1>a, <2>1, <2>2 DEF deliverViaRelay
<1>4. ASSUME NEW w \in Workers, Resolve(w) PROVE Way' /\ Wire'
  <2>1. Way'
    <3>1. CASE \E o \in {"dns", "bad_domain"} : Return(w, o)
      BY <1>b, <3>1
    <3>2. CASE ~\E o \in {"dns", "bad_domain"} : Return(w, o)
      BY ZenonT(60), <1>4, <3>2 DEF Resolve, Goto, TInv, TypeOK, KeptOff, Gated,
           restmailUpgradePermitted, enforcing, Names, firstHost
    <3>3. QED
      BY <3>1, <3>2
  <2>2. QED
    BY <1>4, <1>a, <2>1 DEF Resolve
<1>5. ASSUME NEW w \in Workers, ChoosePinned(w) PROVE Way' /\ Wire'
  <2>1. Way'
    BY <1>5, <1>b DEF ChoosePinned, Goto, TInv, TypeOK, KeptOff, Gated,
         restmailUpgradePermitted, enforcing, Names, firstHost
  <2>2. QED
    BY <1>5, <1>a, <2>1 DEF ChoosePinned
<1>6. ASSUME NEW w \in Workers, Choose(w) PROVE Way' /\ Wire'
  BY <1>6, <1>a DEF Choose, MayUpgrade, Goto, TInv, TypeOK, KeptOff, Gated,
       restmailUpgradePermitted, enforcing, Names, firstHost
<1>7. ASSUME NEW w \in Workers, probeRESTMAIL(w) PROVE Way' /\ Wire'
  BY <1>7, <1>a DEF probeRESTMAIL, Goto, TInv, TypeOK, KeptOff, Gated,
       restmailUpgradePermitted, enforcing, Names, firstHost
<1>8. ASSUME NEW w \in Workers, cacheCapability(w) PROVE Way' /\ Wire'
  BY <1>8, <1>a DEF cacheCapability, Goto, TInv, TypeOK, KeptOff, Gated,
       restmailUpgradePermitted, enforcing, Names, firstHost
<1>9. ASSUME NEW w \in Workers, pinRESTMAIL(w) PROVE Way' /\ Wire'
  <2>1. CASE Return(w, "other_transient")
    BY <1>9, <1>a, <1>b, <2>1 DEF pinRESTMAIL
  <2>2. CASE /\ transport' = [transport EXCEPT ![row[w]] = "restmail"]
             /\ Goto(w, "restmail")
             /\ UNCHANGED <<row, item, found>>
    <3>1. row[w] \notin RequireTLS
      BY <1>9 DEF pinRESTMAIL, KeptOff
    <3>2. KeptOff'
      BY <2>2, <3>1, RowAssumption DEF TInv, TypeOK, KeptOff, Goto
    <3>3. Gated'
      BY <1>9, <2>2 DEF pinRESTMAIL, Goto, TInv, TypeOK, Gated,
           restmailUpgradePermitted, enforcing, Names, firstHost
    <3>4. QED
      BY <1>9, <1>a, <3>2, <3>3 DEF pinRESTMAIL
  <2>3. QED
    BY <1>9, <2>1, <2>2 DEF pinRESTMAIL
<1>10. ASSUME NEW w \in Workers, deliverRESTMAILDiscovered(w) PROVE Way' /\ Wire'
  <2>1. Way'
    BY <1>10, <1>b DEF deliverRESTMAILDiscovered
  <2>2. ASSUME Transmit(w, "restmail", "authenticated", Promised(w, dane[w]),
                        Names(w, firstHost(w)))
        PROVE  Wire'
    <3>1. ~dane[w] /\ restmailUpgradePermitted(w) /\ ~requireTLS(w)
      BY <1>10 DEF deliverRESTMAILDiscovered, Gated, KeptOff, requireTLS
    <3>2. Honest([path |-> "restmail", security |-> "authenticated",
                  promises |-> Promised(w, dane[w]),
                  named |-> Names(w, firstHost(w)),
                  pinned |-> transport[row[w]] = "restmail"])
      BY <3>1 DEF Honest, Promised, Required, restmailUpgradePermitted
    <3>3. QED
      BY <1>10, <2>2, <3>2, TransmitHonest DEF deliverRESTMAILDiscovered
  <2>3. QED
    BY <1>10, <1>a, <2>1, <2>2 DEF deliverRESTMAILDiscovered
<1>11. ASSUME NEW w \in Workers, noteSMTP(w) PROVE Way' /\ Wire'
  <2>1. \A r \in Rows : transport'[r] = "restmail" => transport[r] = "restmail"
    BY <1>11 DEF noteSMTP, TInv, TypeOK
  <2>2. KeptOff'
    BY <1>11, <2>1, RowAssumption DEF noteSMTP, Goto, TInv, TypeOK, KeptOff
  <2>3. Gated'
    BY <1>11 DEF noteSMTP, Goto, TInv, TypeOK, Gated, restmailUpgradePermitted,
         enforcing, Names, firstHost
  <2>4. QED
    BY <1>11, <1>a, <2>2, <2>3 DEF noteSMTP
<1>12. ASSUME NEW w \in Workers, deliverToHost(w) PROVE Way' /\ Wire'
  <2> PICK covered \in BOOLEAN :
        \/ SkipHost(w, covered)
        \/ /\ MayConnect(w, covered)
           /\ NoSession(w) \/ RefuseSession(w, covered) \/ SendOver(w, covered)
    BY <1>12 DEF deliverToHost
  <2>1. ASSUME NEW c, NEW keep, FailHost(w, c, keep) PROVE Way'
    BY <1>12, <2>1 DEF deliverToHost, FailHost, TInv, TypeOK, KeptOff, Gated,
         restmailUpgradePermitted, enforcing, Names, firstHost
  <2>2. CASE SkipHost(w, covered)
    BY <1>a, <2>1, <2>2 DEF SkipHost
  <2>3. CASE NoSession(w)
    BY <1>a, <2>1, <2>3 DEF NoSession
  <2>4. CASE RefuseSession(w, covered)
    BY <1>a, <2>1, <2>4 DEF RefuseSession
  <2>5. CASE MayConnect(w, covered) /\ SendOver(w, covered)
    <3>1. Way'
      BY <1>b, <2>1, <2>5 DEF SendOver
    <3>2. PICK security \in Securities :
            /\ MustAuthenticate(w, covered) => security = "authenticated"
            /\ Transmit(w, "smtp", security, Promised(w, covered), Names(w, Head(mx[w])))
      BY <2>5 DEF SendOver
    <3>3. Honest([path |-> "smtp", security |-> security,
                  promises |-> Promised(w, covered), named |-> Names(w, Head(mx[w])),
                  pinned |-> transport[row[w]] = "restmail"])
      BY <2>5, <3>2 DEF MayConnect, MustAuthenticate, Honest, Promised, Required
    <3>4. QED
      BY <1>12, <3>1, <3>2, <3>3, TransmitHonest DEF deliverToHost
  <2>6. QED
    BY <2>2, <2>3, <2>4, <2>5
<1>13. ASSUME NEW w \in Workers, AllHostsFailed(w) PROVE Way' /\ Wire'
  BY <1>13, <1>a, <1>b DEF AllHostsFailed
<1>14. ASSUME NEW w \in Workers, Crash(w) PROVE Way' /\ Wire'
  BY <1>14, <1>a, IdlePromise DEF Crash
<1>15. CASE SetRelay \/ Tick \/ UNCHANGED vars
  <2>1. UNCHANGED <<transport, row, item, pc, dane, policy, mx, sent>>
    BY <1>15 DEF SetRelay, Tick, vars
  <2>2. KeptOff'
    BY <2>1 DEF KeptOff
  <2>3. Gated'
    BY <2>1 DEF Gated, restmailUpgradePermitted, enforcing, Names, firstHost
  <2>4. RequireTLSKept' /\ PolicyKept'
    BY <1>a, <2>1
  <2>5. QED
    BY <1>0, <2>2, <2>3, <2>4
<1>16. QED
  BY <1>0, <1>1, <1>2, <1>3, <1>4, <1>5, <1>6, <1>7, <1>8, <1>9, <1>10, <1>11,
     <1>12, <1>13, <1>14, <1>15 DEF Next

\* Whatever earlier attempts and other workers cached or recorded, a message
\* that requires TLS goes over authenticated TLS and never by RESTMAIL.
THEOREM RequiredTLSIsKept == Spec => []RequireTLSKept
<1>1. Spec => []PromiseInv
  BY InitPromise, StepPromise, PTL DEF Spec
<1>2. PromiseInv => RequireTLSKept
  BY DEF PromiseInv
<1>3. QED
  BY <1>1, <1>2, PTL

\* An enforced MTA-STS policy and DANE hold on every direct path, the RESTMAIL
\* upgrade's and the pinned row's included.
THEOREM PoliciesAreKept == Spec => []PolicyKept
<1>1. Spec => []PromiseInv
  BY InitPromise, StepPromise, PTL DEF Spec
<1>2. PromiseInv => PolicyKept
  BY DEF PromiseInv
<1>3. QED
  BY <1>1, <1>2, PTL

-----------------------------------------------------------------------------
(* The pin, where a claim is exclusive *)

Exclusive ==
  \A v, w \in Workers : v # w /\ row[v] = row[w] => row[w] = NoRow

\* A worker's copy of the row says whether the row is pinned, until it pins it
\* itself; and one that read a pin is on no way to SMTP.
PinSeen ==
  \A w \in Workers :
    /\ pc[w] \notin {"idle", "restmail"} =>
         (item[w] = "restmail" <=> transport[row[w]] = "restmail")
    /\ pc[w] \in {"probe", "probed", "pin", "note", "smtp"} => item[w] # "restmail"

PinInv == TInv /\ Exclusive /\ PinSeen /\ PinOutlastsAnswers

\* Nothing is pinned yet.
LEMMA InitPin == Init => PinInv
<1> SUFFICES ASSUME Init PROVE PinInv
  OBVIOUS
<1>1. Exclusive /\ PinSeen /\ PinOutlastsAnswers
  BY DEF Init, Exclusive, PinSeen, PinOutlastsAnswers
<1>2. QED
  BY <1>1, InitTyped DEF PinInv

\* A worker that gives up its row disturbs no other.
LEMMA IdlePin ==
  ASSUME PinInv, NEW w \in Workers, GoIdle(w), UNCHANGED transport
  PROVE  Exclusive' /\ PinSeen'
<1> USE DEF PinInv, TInv, TypeOK, GoIdle
<1>1. Exclusive'
  BY DEF Exclusive
<1>2. PinSeen'
  BY DEF PinSeen
<1>3. QED
  BY <1>1, <1>2

\* What is not put on the wire by SMTP, or for a row that is not pinned, is no
\* downgrade.
LEMMA TransmitPin ==
  ASSUME PinInv, NEW w \in Workers, pc[w] # "idle",
         NEW path, NEW security, NEW promises, NEW named,
         Transmit(w, path, security, promises, named),
         path # "smtp" \/ transport[row[w]] # "restmail"
  PROVE  PinOutlastsAnswers'
<1> DEFINE s == [path |-> path, security |-> security, promises |-> promises,
                 named |-> named, pinned |-> transport[row[w]] = "restmail"]
<1>1. sent' = [sent EXCEPT ![row[w]] = @ \union {s}]
  BY DEF Transmit
<1>2. s.path = path /\ s.pinned = (transport[row[w]] = "restmail")
  OBVIOUS
<1>3. s.pinned => s.path # "smtp"
  BY <1>2
<1> HIDE DEF s
<1>4. QED
  BY <1>1, <1>3 DEF PinInv, TInv, TypeOK, PinOutlastsAnswers

\* With an exclusive claim, a step neither pins a row behind the back
\* of the worker sending it nor sends a pinned one to an MX host by SMTP.
LEMMA StepPin == ~Overlap /\ PinInv /\ [Next]_vars => PinInv'
<1> SUFFICES ASSUME ~Overlap, PinInv, [Next]_vars PROVE PinInv'
  OBVIOUS
<1> USE DEF rowVars, cap, found, errors, workerVars
<1> DEFINE Rest == Exclusive /\ PinSeen
<1>0. TInv /\ TInv'
  BY StepTyped DEF PinInv
<1>a. ASSUME UNCHANGED sent PROVE PinOutlastsAnswers'
  BY <1>a DEF PinInv, PinOutlastsAnswers
<1>b. ASSUME NEW w \in Workers, NEW o, Return(w, o) PROVE Rest'
  BY <1>b, IdlePin DEF Return
<1>c. ASSUME NEW w \in Workers, NEW step \in Steps \ {"idle"}, Goto(w, step),
             pc[w] \notin {"idle", "restmail"},
             step \in {"probe", "probed", "pin", "note", "smtp"} => item[w] # "restmail",
             UNCHANGED <<transport, row, item>>
      PROVE  Rest'
  <2>1. Exclusive'
    BY <1>c DEF PinInv, Exclusive
  <2>2. PinSeen'
    BY <1>0, <1>c DEF PinInv, TInv, TypeOK, Goto, PinSeen
  <2>3. QED
    BY <2>1, <2>2
<1>1. ASSUME NEW w \in Workers, NEW r \in Rows, Claim(w, r)
      PROVE  Rest' /\ PinOutlastsAnswers'
  <2>1. \A v \in Workers : row[v] # r
    BY <1>1 DEF Claim
  <2>2. Exclusive'
    BY <1>0, <1>1, <2>1 DEF Claim, PinInv, TInv, TypeOK, Exclusive
  <2>3. PinSeen'
    BY <1>0, <1>1 DEF Claim, PinInv, TInv, TypeOK, PinSeen
  <2>4. QED
    BY <1>1, <1>a, <2>2, <2>3 DEF Claim
<1>2. ASSUME NEW w \in Workers, Route(w) PROVE Rest' /\ PinOutlastsAnswers'
  <2>1. Rest'
    BY <1>2, <1>b, <1>c, NamesTyped DEF Route, PinInv
  <2>2. QED
    BY <1>2, <1>a, <2>1 DEF Route
<1>3. ASSUME NEW w \in Workers, deliverViaRelay(w)
      PROVE  Rest' /\ PinOutlastsAnswers'
  <2>1. Rest'
    BY <1>3, <1>b DEF deliverViaRelay
  <2>2. PinOutlastsAnswers'
    BY <1>3, <1>a, TransmitPin DEF deliverViaRelay
  <2>3. QED
    BY <2>1, <2>2
<1>4. ASSUME NEW w \in Workers, Resolve(w) PROVE Rest' /\ PinOutlastsAnswers'
  <2>1. Rest'
    BY <1>4, <1>b, <1>c, NamesTyped DEF Resolve
  <2>2. QED
    BY <1>4, <1>a, <2>1 DEF Resolve
<1>5. ASSUME NEW w \in Workers, ChoosePinned(w) PROVE Rest' /\ PinOutlastsAnswers'
  <2>1. Rest'
    BY <1>5, <1>b, <1>c, NamesTyped DEF ChoosePinned
  <2>2. QED
    BY <1>5, <1>a, <2>1 DEF ChoosePinned
<1>6. ASSUME NEW w \in Workers, Choose(w) PROVE Rest' /\ PinOutlastsAnswers'
  BY <1>6, <1>a, <1>c, NamesTyped DEF Choose
<1>7. ASSUME NEW w \in Workers, probeRESTMAIL(w) PROVE Rest' /\ PinOutlastsAnswers'
  BY <1>7, <1>a, <1>c, NamesTyped DEF probeRESTMAIL, PinInv, PinSeen
<1>8. ASSUME NEW w \in Workers, cacheCapability(w) PROVE Rest' /\ PinOutlastsAnswers'
  BY <1>8, <1>a, <1>c, NamesTyped DEF cacheCapability, PinInv, PinSeen
<1>9. ASSUME NEW w \in Workers, pinRESTMAIL(w) PROVE Rest' /\ PinOutlastsAnswers'
  <2>1. CASE Return(w, "other_transient")
    BY <1>9, <1>a, <1>b, <2>1 DEF pinRESTMAIL
  <2>2. CASE /\ transport' = [transport EXCEPT ![row[w]] = "restmail"]
             /\ Goto(w, "restmail")
             /\ UNCHANGED <<row, item>>
    <3>1. Exclusive'
      BY <2>2 DEF PinInv, Exclusive
    <3>2. \A v \in Workers \ {w} :
            pc[v] # "idle" => row[v] \in Rows /\ row[v] # row[w]
      BY <1>0, RowAssumption DEF PinInv, TInv, Busy, Exclusive
    <3>3. PinSeen'
      BY <1>0, <2>2, <3>2 DEF PinInv, TInv, TypeOK, Goto, PinSeen
    <3>4. QED
      BY <1>9, <1>a, <3>1, <3>3 DEF pinRESTMAIL
  <2>3. QED
    BY <1>9, <2>1, <2>2 DEF pinRESTMAIL
<1>10. ASSUME NEW w \in Workers, deliverRESTMAILDiscovered(w)
       PROVE  Rest' /\ PinOutlastsAnswers'
  <2>1. Rest'
    BY <1>10, <1>b DEF deliverRESTMAILDiscovered
  <2>2. PinOutlastsAnswers'
    BY <1>10, <1>a, TransmitPin DEF deliverRESTMAILDiscovered
  <2>3. QED
    BY <2>1, <2>2
<1>11. ASSUME NEW w \in Workers, noteSMTP(w) PROVE Rest' /\ PinOutlastsAnswers'
  <2>1. \A r \in Rows : transport'[r] = "restmail" <=> transport[r] = "restmail"
    BY <1>0, <1>11 DEF noteSMTP, TInv, TypeOK
  <2>2. Exclusive'
    BY <1>11 DEF noteSMTP, PinInv, Exclusive
  <2>3. PinSeen'
    BY <1>0, <1>11, <2>1 DEF noteSMTP, PinInv, TInv, TypeOK, Busy, Goto, PinSeen
  <2>4. QED
    BY <1>11, <1>a, <2>2, <2>3 DEF noteSMTP
<1>12. ASSUME NEW w \in Workers, deliverToHost(w) PROVE Rest' /\ PinOutlastsAnswers'
  <2> PICK covered \in BOOLEAN :
        \/ SkipHost(w, covered)
        \/ NoSession(w) \/ RefuseSession(w, covered) \/ SendOver(w, covered)
    BY <1>12 DEF deliverToHost
  <2>1. ASSUME NEW c, NEW keep, FailHost(w, c, keep) PROVE Rest'
    BY <2>1 DEF FailHost, PinInv, Exclusive, PinSeen
  <2>2. transport[row[w]] # "restmail"
    BY <1>12 DEF deliverToHost, PinInv, PinSeen
  <2>3. Rest'
    BY <1>b, <2>1 DEF SkipHost, NoSession, RefuseSession, SendOver
  <2>4. PinOutlastsAnswers'
    BY <1>12, <1>a, <2>2, TransmitPin
       DEF deliverToHost, SkipHost, NoSession, RefuseSession, SendOver
  <2>5. QED
    BY <2>3, <2>4
<1>13. ASSUME NEW w \in Workers, AllHostsFailed(w) PROVE Rest' /\ PinOutlastsAnswers'
  BY <1>13, <1>a, <1>b DEF AllHostsFailed
<1>14. ASSUME NEW w \in Workers, Crash(w) PROVE Rest' /\ PinOutlastsAnswers'
  BY <1>14, <1>a, IdlePin DEF Crash
<1>15. CASE SetRelay \/ Tick \/ UNCHANGED vars
  <2>1. UNCHANGED <<transport, row, item, pc, sent>>
    BY <1>15 DEF SetRelay, Tick, vars
  <2>2. Exclusive' /\ PinSeen' /\ PinOutlastsAnswers'
    BY <2>1 DEF PinInv, Exclusive, PinSeen, PinOutlastsAnswers
  <2>3. QED
    BY <1>0, <2>2 DEF PinInv
<1>16. QED
  BY <1>0, <1>1, <1>2, <1>3, <1>4, <1>5, <1>6, <1>7, <1>8, <1>9, <1>10, <1>11,
     <1>12, <1>13, <1>14, <1>15 DEF Next, PinInv

\* Where no claim overlaps another, a message pinned to RESTMAIL goes to no MX
\* host by SMTP: not after a crash, a cache entry or a probe that says otherwise,
\* a policy or DANE that changed, or a relay that came and went.
THEOREM PinOutlasts == ~Overlap => (Spec => []PinOutlastsAnswers)
<1> SUFFICES ASSUME ~Overlap PROVE Spec => []PinOutlastsAnswers
  OBVIOUS
<1>1. PinInv /\ [Next]_vars => PinInv'
  BY StepPin
<1>2. PinInv => PinOutlastsAnswers
  BY DEF PinInv
<1>3. QED
  BY InitPin, <1>1, <1>2, PTL DEF Spec

\* No step of any worker, overlapping or not, takes the pin off a row.
LEMMA StepKeepsPin ==
  TInv /\ [Next]_vars =>
    \A r \in Rows : transport[r] = "restmail" => transport'[r] = "restmail"
<1> SUFFICES ASSUME TInv, [Next]_vars, NEW r \in Rows, transport[r] = "restmail"
             PROVE  transport'[r] = "restmail"
  OBVIOUS
<1> USE DEF rowVars
<1>1. ASSUME NEW w \in Workers, pinRESTMAIL(w) PROVE transport'[r] = "restmail"
  BY <1>1 DEF pinRESTMAIL, Return, TInv, TypeOK
<1>2. ASSUME NEW w \in Workers, noteSMTP(w) PROVE transport'[r] = "restmail"
  BY <1>2 DEF noteSMTP, TInv, TypeOK
<1>3. ASSUME NEW w \in Workers, deliverToHost(w) PROVE UNCHANGED transport
  BY <1>3 DEF deliverToHost, SkipHost, NoSession, RefuseSession, SendOver, FailHost,
       Return
<1>4. ASSUME NEW w \in Workers,
             \/ \E q \in Rows : Claim(w, q)
             \/ Route(w) \/ deliverViaRelay(w) \/ Resolve(w) \/ ChoosePinned(w)
             \/ Choose(w) \/ probeRESTMAIL(w) \/ cacheCapability(w)
             \/ deliverRESTMAILDiscovered(w) \/ AllHostsFailed(w) \/ Crash(w)
      PROVE  UNCHANGED transport
  BY <1>4 DEF Claim, Route, deliverViaRelay, Resolve, ChoosePinned, Choose,
       probeRESTMAIL, cacheCapability, deliverRESTMAILDiscovered, AllHostsFailed,
       Crash, Return
<1>5. CASE SetRelay \/ Tick \/ UNCHANGED vars
  BY <1>5 DEF SetRelay, Tick, vars
<1>6. QED
  BY <1>1, <1>2, <1>3, <1>4, <1>5 DEF Next

\* Every step, of whichever worker, leaves a pinned row pinned.
THEOREM PinStays == Spec => PinIsFinal
<1>1. Spec => []TInv
  BY InitTyped, StepTyped, PTL DEF Spec
<1>2. TInv /\ [Next]_vars =>
        [\A r \in Rows : transport[r] = "restmail" => transport'[r] = "restmail"]_vars
  BY StepKeepsPin
<1>3. QED
  BY <1>1, <1>2, PTL DEF Spec, PinIsFinal

-----------------------------------------------------------------------------
(* The upgrade is taken from the cache only while the offer still stands.    *)

\* What the cache says a host supports, that host advertised: the entry expires
\* no later than HitTTL after the host's last advertisement.
CacheIsOffered ==
  /\ \A h \in Hosts : learnt[h] <= now
  /\ capSupported => /\ capHost \in Hosts
                     /\ learnt[capHost] >= 0
                     /\ capExpires <= learnt[capHost] + HitTTL

CacheInv == TInv /\ CacheIsOffered

\* Nothing is cached yet.
LEMMA InitCache == Init => CacheInv
<1> SUFFICES ASSUME Init PROVE CacheInv
  OBVIOUS
<1>1. ~capSupported
  BY DEF Init
<1>2. \A h \in Hosts : learnt[h] <= now
  <2>1. now = 0 /\ learnt = [h \in Hosts |-> -1]
    BY DEF Init, NoTime
  <2>2. QED
    BY <2>1
<1>3. QED
  BY <1>1, <1>2, InitTyped DEF CacheInv, CacheIsOffered

\* Only cacheCapability changes the cache, or what hosts have advertised.
LEMMA CacheWriters ==
  ASSUME [Next]_vars, \A w \in Workers : ~cacheCapability(w), ~Tick
  PROVE  UNCHANGED <<now, cap, learnt>>
<1>1. ASSUME NEW w \in Workers, deliverToHost(w) PROVE UNCHANGED <<now, cap, learnt>>
  BY <1>1 DEF deliverToHost, SkipHost, NoSession, RefuseSession, SendOver, FailHost,
       Return
<1>2. ASSUME NEW w \in Workers,
             \/ \E q \in Rows : Claim(w, q)
             \/ Route(w) \/ deliverViaRelay(w) \/ Resolve(w) \/ ChoosePinned(w)
             \/ Choose(w) \/ probeRESTMAIL(w) \/ pinRESTMAIL(w) \/ noteSMTP(w)
             \/ deliverRESTMAILDiscovered(w) \/ AllHostsFailed(w) \/ Crash(w)
      PROVE  UNCHANGED <<now, cap, learnt>>
  BY <1>2 DEF Claim, Route, deliverViaRelay, Resolve, ChoosePinned, Choose,
       probeRESTMAIL, pinRESTMAIL, noteSMTP, deliverRESTMAILDiscovered,
       AllHostsFailed, Crash, Return
<1>3. CASE SetRelay \/ UNCHANGED vars
  BY <1>3 DEF SetRelay, vars
<1>4. QED
  BY <1>1, <1>2, <1>3 DEF Next

\* What is in the cache was offered when it was learnt, after any step.
LEMMA StepCache == CacheInv /\ [Next]_vars => CacheInv'
<1> SUFFICES ASSUME CacheInv, [Next]_vars PROVE CacheInv'
  OBVIOUS
<1>0. TInv' /\ TypeOK
  BY StepTyped DEF CacheInv, TInv
<1>1. ASSUME NEW w \in Workers, cacheCapability(w) PROVE CacheIsOffered'
  <2> DEFINE h == firstHost(w)
  <2>1. h \in Hosts
    BY <1>1, HeadTailProperties
       DEF cacheCapability, CacheInv, TInv, TypeOK, Routed, Looked, firstHost
  <2>2. /\ now' = now
        /\ answer[w] \in BOOLEAN
        /\ learnt' = [learnt EXCEPT ![h] = IF answer[w] THEN now ELSE @]
        /\ \/ /\ capHost' = h
              /\ capSupported' = answer[w]
              /\ capExpires' = now + (IF answer[w] THEN HitTTL ELSE MissTTL)
           \/ UNCHANGED <<capHost, capSupported, capExpires>>
    BY <1>0, <1>1 DEF cacheCapability, cap, TypeOK
  <2> HIDE DEF h
  <2>3. HitTTL \in Nat /\ now \in Nat /\ learnt \in [Hosts -> Int]
    BY <1>0, LimitAssumption DEF TypeOK
  <2>4. CASE answer[w]
    <3>1. learnt'[h] = now /\ \A g \in Hosts : g # h => learnt'[g] = learnt[g]
      BY <2>1, <2>2, <2>3, <2>4
    <3>2. \A g \in Hosts : learnt'[g] >= learnt[g] /\ learnt'[g] <= now'
      BY <2>1, <2>2, <2>3, <3>1 DEF CacheInv, CacheIsOffered
    <3>3. CASE /\ capHost' = h
               /\ capExpires' = now + (IF answer[w] THEN HitTTL ELSE MissTTL)
      BY <2>1, <2>3, <2>4, <3>1, <3>2, <3>3 DEF CacheIsOffered
    <3>4. CASE UNCHANGED <<capHost, capSupported, capExpires>>
      BY <1>0, <2>2, <2>3, <3>1, <3>2, <3>4 DEF CacheInv, CacheIsOffered, TypeOK
    <3>5. QED
      BY <2>2, <3>3, <3>4
  <2>5. CASE ~answer[w]
    <3>1. learnt' = learnt
      BY <2>1, <2>2, <2>3, <2>5
    <3>2. QED
      BY <2>2, <2>5, <3>1 DEF CacheInv, CacheIsOffered
  <2>6. QED
    BY <2>4, <2>5
<1>2. ASSUME Tick PROVE CacheIsOffered'
  BY <1>0, <1>2 DEF Tick, cap, CacheInv, CacheIsOffered, TypeOK
<1>3. ASSUME UNCHANGED <<now, cap, learnt>> PROVE CacheIsOffered'
  BY <1>3 DEF cap, CacheInv, CacheIsOffered
<1>4. CacheIsOffered'
  BY <1>1, <1>2, <1>3, CacheWriters
<1>5. QED
  BY <1>0, <1>4 DEF CacheInv

\* A worker leaves its choice for the upgrade only by Choose, on a cache hit.
LEMMA UpgradeByCache ==
  ASSUME TInv, [Next]_vars, NEW w \in Workers, pc[w] = "choose", pc'[w] = "pin"
  PROVE  capabilityApplies(firstHost(w)) /\ capSupported
<1>0. pc \in [Workers -> Steps]
  BY DEF TInv, TypeOK
<1>1. ASSUME NEW v \in Workers, Choose(v)
      PROVE  capabilityApplies(firstHost(w)) /\ capSupported
  <2>1. pc' = [pc EXCEPT ![v] = "note"] \/ pc' = [pc EXCEPT ![v] = "probe"]
          \/ (pc' = [pc EXCEPT ![v] = "pin"] /\ capabilityApplies(firstHost(v)) /\ capSupported)
    BY <1>1 DEF Choose, Goto
  <2>2. QED
    BY <1>0, <2>1
<1>2. ASSUME NEW v \in Workers, NEW step, pc' = [pc EXCEPT ![v] = step],
             step # "pin" \/ pc[v] # "choose"
      PROVE  FALSE
  BY <1>0, <1>2
<1>3. ASSUME NEW v \in Workers, NEW r \in Rows, Claim(v, r) PROVE FALSE
  BY <1>2, <1>3 DEF Claim
<1>4. ASSUME NEW v \in Workers, Route(v) \/ Resolve(v) PROVE FALSE
  BY <1>2, <1>4 DEF Route, Resolve, Return, GoIdle, Goto
<1>5. ASSUME NEW v \in Workers, deliverViaRelay(v) PROVE FALSE
  BY <1>2, <1>5 DEF deliverViaRelay, Return, GoIdle
<1>6. ASSUME NEW v \in Workers, ChoosePinned(v) PROVE FALSE
  BY <1>2, <1>6 DEF ChoosePinned, Return, GoIdle, Goto
<1>7. ASSUME NEW v \in Workers, probeRESTMAIL(v) \/ cacheCapability(v) PROVE FALSE
  BY <1>2, <1>7 DEF probeRESTMAIL, cacheCapability, Goto
<1>8. ASSUME NEW v \in Workers, pinRESTMAIL(v) \/ deliverRESTMAILDiscovered(v)
      PROVE  FALSE
  BY <1>2, <1>8 DEF pinRESTMAIL, deliverRESTMAILDiscovered, Return, GoIdle, Goto
<1>9. ASSUME NEW v \in Workers, noteSMTP(v) \/ AllHostsFailed(v) \/ Crash(v)
      PROVE  FALSE
  BY <1>2, <1>9 DEF noteSMTP, AllHostsFailed, Crash, Return, GoIdle, Goto
<1>10. ASSUME NEW v \in Workers, deliverToHost(v) PROVE FALSE
  <2>1. pc' = pc \/ pc' = [pc EXCEPT ![v] = "idle"]
    BY <1>10 DEF deliverToHost, SkipHost, NoSession, RefuseSession, SendOver,
         FailHost, Return, GoIdle
  <2>2. QED
    BY <1>2, <2>1
<1>11. ASSUME SetRelay \/ Tick \/ UNCHANGED vars PROVE FALSE
  BY <1>11 DEF SetRelay, Tick, vars, workerVars
<1>12. QED
  BY <1>1, <1>3, <1>4, <1>5, <1>6, <1>7, <1>8, <1>9, <1>10, <1>11 DEF Next

\* However the MX records change and other workers' probes rewrite the cache,
\* a message is upgraded without asking only to a primary MX host that itself
\* advertised RESTMAIL within the cache's lifetime.
THEOREM UpgradesWereOffered == Spec => UpgradeWasOffered
<1> DEFINE Offered ==
      \A w \in Workers :
        pc[w] = "choose" /\ pc'[w] = "pin" =>
          learnt[firstHost(w)] # NoTime /\ now < learnt[firstHost(w)] + HitTTL
<1>1. Spec => []CacheInv
  BY InitCache, StepCache, PTL DEF Spec
<1>2. CacheInv /\ [Next]_vars => [Offered]_vars
  <2> SUFFICES ASSUME CacheInv, [Next]_vars, NEW w \in Workers,
                      pc[w] = "choose", pc'[w] = "pin"
               PROVE  learnt[firstHost(w)] # NoTime
                        /\ now < learnt[firstHost(w)] + HitTTL
    OBVIOUS
  <2>1. capHost = firstHost(w) /\ capExpires > now /\ capSupported
    BY UpgradeByCache DEF CacheInv, capabilityApplies
  <2>2. /\ now \in Nat /\ capExpires \in Nat /\ HitTTL \in Nat
        /\ learnt \in [Hosts -> Int]
    BY LimitAssumption DEF CacheInv, TInv, TypeOK
  <2>3. QED
    BY <2>1, <2>2 DEF CacheInv, CacheIsOffered, NoTime
<1>3. QED
  BY <1>1, <1>2, PTL DEF Spec, UpgradeWasOffered
============================================================================
