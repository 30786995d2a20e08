------------------------- MODULE DeliveryTransport -------------------------
(***************************************************************************)
(* How a claimed message leaves: Worker.deliver and what it calls.  Each    *)
(* attempt looks up where the recipient's domain takes mail and under what  *)
(* TLS promises, then goes through the sending domain's relay, by RESTMAIL  *)
(* (HTTPS to a server that speaks it) or by SMTP to the MX hosts in turn.   *)
(* Two things outlive an attempt: the transport recorded on the queue row,  *)
(* and the cache of which MX host advertised RESTMAIL.                      *)
(*                                                                          *)
(* All rows go to one recipient domain and are sent as one domain.  What    *)
(* DNS, policies and peers answer is chosen anew at every question.         *)
(***************************************************************************)
EXTENDS RetrySchedule, Sequences

CONSTANTS
  Rows, NoRow,
  Workers,
  Hosts,        \* MX hosts the recipient domain has had
  MXLists,      \* the MX records DNS may answer with, in order of preference
  PolicyAnswers,\* the MTA-STS policies discovery may find, NoPolicy among them
  RequireTLS,   \* rows whose sender required TLS (REQUIRETLS)
  TLSReports,   \* rows that carry a TLS-RPT report
  TLSOptional,  \* rows with a TLS-Required: No header
  NullSender,   \* rows with an empty reverse path
  stsEnforce,   \* does the worker enforce MTA-STS?
  UseDANE,      \* does it have a DANE resolver?
  CanRelay,     \* may the sending domain be configured to use a relay?
  Deferrals,    \* the categories of peers' 4xx replies
  Refusals,     \* the categories of their 5xx replies
  HitTTL,       \* how long RESTMAIL support is remembered
  MissTTL,      \* and how long its absence
  Overlap,      \* may a row be reclaimed from a worker that is still sending it?
  DbErrors,     \* may a database statement fail?
  MaxAttempts,  \* bound: attempts per row
  MaxTime       \* bound: the clock stops here

\* A policy names some MX hosts, perhaps none of this domain's; "none" stands
\* for no policy at all.
NoPolicy == [mode |-> "none", names |-> {}]
Policies == {NoPolicy} \union [mode : {"testing", "enforce"}, names : SUBSET Hosts]

ASSUME RowAssumption ==
  /\ NoRow \notin Rows
  /\ MXLists \subseteq Seq(Hosts) \ {<<>>}
  /\ PolicyAnswers \subseteq Policies
  /\ UNION {RequireTLS, TLSReports, TLSOptional, NullSender} \subseteq Rows
ASSUME ReplyAssumption ==
  /\ Deferrals \subseteq TransientCategories
  /\ Refusals \subseteq PermanentCategories \union {"mailbox_full"}
ASSUME LimitAssumption ==
  /\ {HitTTL, MissTTL} \subseteq Nat \ {0}
  /\ {MaxAttempts, MaxTime} \subseteq Nat
  /\ {stsEnforce, UseDANE, CanRelay, Overlap, DbErrors} \subseteq BOOLEAN

VARIABLES
  now,
  relaying,     \* the sending domain's setting: everything through its relay
  transport,    \* outbound_queue.transport
  attempts,     \* attempts made of a row
  outcome,      \* "queued", "delivered" or the category it bounced for
  \* the domain's row of restmail_capabilities
  capHost, capSupported, capExpires,
  \* each worker: its step in deliver(), its copy of the row, what it looked up
  pc, row, item,
  mx,           \* MX hosts not tried yet
  dane,         \* the MX records are DNSSEC-secure
  policy,       \* the recipient domain's MTA-STS policy
  answer,       \* what the EHLO probe found
  lastErr, transientErr,
  \* history
  seen,         \* how each MX host tried in this attempt failed
  learnt,       \* when a host's advertisement was last recorded
  sent          \* per row, every way it was put on the wire

rowVars == <<transport, attempts, outcome>>
cap     == <<capHost, capSupported, capExpires>>
found   == <<mx, dane, policy>>
errors  == <<lastErr, transientErr, seen>>
workerVars == <<pc, row, item, found, answer, errors>>
vars == <<now, relaying, rowVars, cap, workerVars, learnt, sent>>

NoTime    == -1
NoFailure == ""
NoHost    == ""

Transports == {"", "smtp", "restmail"}
Securities == {"cleartext", "encrypted", "authenticated"}
Promises   == {"requiretls", "mta-sts", "dane"}
Steps == {"idle", "route", "relay", "resolve", "choose", "probe", "probed",
          "pin", "restmail", "note", "smtp"}

\* A message put on the wire: how, how well protected, what had been promised
\* for it, whether the policy names the host, and whether its row was pinned
\* to RESTMAIL at that moment.
Wires == [path : {"smtp", "restmail", "relay"}, security : Securities,
          promises : SUBSET Promises, named : BOOLEAN, pinned : BOOLEAN]

Failures == FailureCategories \union {NoFailure}

TypeOK ==
  /\ now \in Nat
  /\ relaying \in BOOLEAN
  /\ transport \in [Rows -> Transports]
  /\ attempts \in [Rows -> Nat]
  /\ outcome \in [Rows -> PermanentCategories \union {"queued", "delivered"}]
  /\ capHost \in Hosts \union {NoHost}
  /\ capSupported \in BOOLEAN
  /\ capExpires \in Nat
  /\ pc \in [Workers -> Steps]
  /\ row \in [Workers -> Rows \union {NoRow}]
  /\ item \in [Workers -> Transports]
  /\ mx \in [Workers -> Seq(Hosts)]
  /\ dane \in [Workers -> BOOLEAN]
  /\ policy \in [Workers -> Policies]
  /\ answer \in [Workers -> BOOLEAN]
  /\ lastErr \in [Workers -> Failures]
  /\ transientErr \in [Workers -> Failures]
  /\ seen \in [Workers -> SUBSET FailureCategories]
  /\ learnt \in [Hosts -> Int]
  /\ sent \in [Rows -> SUBSET Wires]

Init ==
  /\ now = 0
  /\ relaying = FALSE
  /\ transport = [r \in Rows |-> ""]
  /\ attempts = [r \in Rows |-> 0]
  /\ outcome = [r \in Rows |-> "queued"]
  /\ capHost = NoHost
  /\ capSupported = FALSE
  /\ capExpires = 0
  /\ pc = [w \in Workers |-> "idle"]
  /\ row = [w \in Workers |-> NoRow]
  /\ item = [w \in Workers |-> ""]
  /\ mx = [w \in Workers |-> <<>>]
  /\ dane = [w \in Workers |-> FALSE]
  /\ policy = [w \in Workers |-> NoPolicy]
  /\ answer = [w \in Workers |-> FALSE]
  /\ lastErr = [w \in Workers |-> NoFailure]
  /\ transientErr = [w \in Workers |-> NoFailure]
  /\ seen = [w \in Workers |-> {}]
  /\ learnt = [h \in Hosts |-> NoTime]
  /\ sent = [r \in Rows |-> {}]

-----------------------------------------------------------------------------
(* An attempt begins and ends *)

\* The claim of OutboundQueue: a row still queued, not held by another worker
\* unless that one stalled past the reclaim interval.
Claim(w, r) ==
  /\ pc[w] = "idle"
  /\ outcome[r] = "queued"
  /\ attempts[r] < MaxAttempts
  /\ Overlap \/ \A v \in Workers : row[v] # r
  /\ attempts' = [attempts EXCEPT ![r] = @ + 1]
  /\ pc' = [pc EXCEPT ![w] = "route"]
  /\ row' = [row EXCEPT ![w] = r]
  /\ item' = [item EXCEPT ![w] = transport[r]]
  /\ UNCHANGED <<now, relaying, transport, outcome, cap, found, answer, errors,
                 learnt, sent>>

\* The worker's locals go out of scope.
GoIdle(w) ==
  /\ pc' = [pc EXCEPT ![w] = "idle"]
  /\ row' = [row EXCEPT ![w] = NoRow]
  /\ item' = [item EXCEPT ![w] = ""]
  /\ mx' = [mx EXCEPT ![w] = <<>>]
  /\ dane' = [dane EXCEPT ![w] = FALSE]
  /\ policy' = [policy EXCEPT ![w] = NoPolicy]
  /\ answer' = [answer EXCEPT ![w] = FALSE]
  /\ lastErr' = [lastErr EXCEPT ![w] = NoFailure]
  /\ transientErr' = [transientErr EXCEPT ![w] = NoFailure]
  /\ seen' = [seen EXCEPT ![w] = {}]

\* deliver returns nil or an error, classified; process records it, and a
\* transient one leaves the message queued.
Return(w, o) ==
  /\ outcome' = [outcome EXCEPT ![row[w]] =
                    IF o \in TransientCategories THEN "queued" ELSE o]
  /\ GoIdle(w)
  /\ UNCHANGED <<now, relaying, transport, attempts, cap, learnt>>

\* The worker's process dies.
Crash(w) ==
  /\ pc[w] # "idle"
  /\ GoIdle(w)
  /\ UNCHANGED <<now, relaying, rowVars, cap, learnt, sent>>

\* The worker goes on to another step of deliver.
Goto(w, step) == pc' = [pc EXCEPT ![w] = step]

\* The message is put on the wire.
Transmit(w, path, security, promises, named) ==
  sent' = [sent EXCEPT ![row[w]] = @ \union
    {[path |-> path, security |-> security, promises |-> promises,
      named |-> named, pinned |-> transport[row[w]] = "restmail"]}]

\* What becomes of a message put on the wire: accepted, refused or deferred by
\* the peer, or the connection breaks off.
Results == {"delivered", "connection"} \union Deferrals \union Refusals

\* deliverSMTPWith, deliverToRelay: a bounce is not held to REQUIRETLS.
requireTLS(w) == row[w] \in RequireTLS \ NullSender
Required(w) == IF requireTLS(w) THEN {"requiretls"} ELSE {}

-----------------------------------------------------------------------------
(* Where to: the relay, or the recipient domain's mail hosts *)

\* deliver's first steps: a malformed envelope is refused; the relay settings
\* are read, and not knowing them retries the message.
Route(w) ==
  /\ pc[w] = "route"
  /\ \/ Return(w, "bad_mailbox")
     \/ DbErrors /\ Return(w, "other_transient")
     \/ /\ Goto(w, IF relaying THEN "relay" ELSE "resolve")
        /\ UNCHANGED <<now, relaying, rowVars, cap, row, item, found, answer,
                       errors, learnt>>
  /\ UNCHANGED sent

\* deliverToRelay: verified TLS, REQUIRETLS when required, or nothing is sent.
\* The relay may refuse before it takes the message, at AUTH for one.
deliverViaRelay(w) ==
  /\ pc[w] = "relay"
  /\ \/ /\ \E c \in {"connection", "other_transient", "other_permanent"}
               \union Deferrals \union Refusals : Return(w, c)
        /\ UNCHANGED sent
     \/ requireTLS(w) /\ Return(w, "policy") /\ UNCHANGED sent
     \/ /\ Transmit(w, "relay", "authenticated", Required(w), FALSE)
        /\ \E o \in Results : Return(w, o)

\* recipientPolicy: a TLS report, and a message whose sender made TLS optional
\* without requiring it, apply none.
recipientPolicy(r, p) ==
  IF r \in TLSReports \/ r \in TLSOptional \ RequireTLS THEN NoPolicy ELSE p

\* mxHosts, daneMXSecure and recipientPolicy.  A lookup that fails for now, or
\* fails validation, is retried; a domain without a mail host is refused.
Resolve(w) ==
  /\ pc[w] = "resolve"
  /\ \/ \E c \in {"dns", "bad_domain"} : Return(w, c)
     \/ \E hosts \in MXLists, secure \in BOOLEAN, p \in PolicyAnswers :
          /\ secure => UseDANE
          /\ mx' = [mx EXCEPT ![w] = hosts]
          /\ dane' = [dane EXCEPT ![w] = secure]
          /\ policy' = [policy EXCEPT ![w] = recipientPolicy(row[w], p)]
          /\ Goto(w, "choose")
          /\ UNCHANGED <<now, relaying, rowVars, cap, row, item, answer, errors,
                         learnt>>
  /\ UNCHANGED sent

enforcing(w) == policy[w].mode = "enforce" /\ stsEnforce
Names(w, h)  == h \in policy[w].names
firstHost(w) == Head(mx[w])

-----------------------------------------------------------------------------
(* RESTMAIL *)

\* Mutation of restmailUpgradePermitted: the policy is not looked at.
restmailUpgradeAlways(w) == TRUE

\* The endpoint is discovered over HTTPS from the primary MX host, which an
\* enforced policy must name.
restmailUpgradePermitted(w) == enforcing(w) => Names(w, firstHost(w))

\* Mutation of capabilityApplies: any host's entry will do.
capabilityAppliesToAny(h) == capHost # NoHost /\ capExpires > now

\* The cache's row is for this primary MX host and has not expired.
capabilityApplies(h) == capHost = h /\ capExpires > now

\* Mutation of ChoosePinned: a gate that closed since falls back to SMTP.
ChoosePinnedOrSMTP(w) ==
  /\ pc[w] = "choose"
  /\ item[w] = "restmail"
  /\ Goto(w, IF dane[w] \/ ~restmailUpgradePermitted(w) THEN "note" ELSE "restmail")
  /\ UNCHANGED <<now, relaying, rowVars, cap, row, item, found, answer, errors,
                 learnt, sent>>

\* deliverPinnedRESTMAIL: RESTMAIL or nothing.
ChoosePinned(w) ==
  /\ pc[w] = "choose"
  /\ item[w] = "restmail"
  /\ \/ dane[w] /\ Return(w, "other_transient")
     \/ ~dane[w] /\ ~restmailUpgradePermitted(w) /\ Return(w, "tls")
     \/ /\ ~dane[w] /\ restmailUpgradePermitted(w)
        /\ Goto(w, "restmail")
        /\ UNCHANGED <<now, relaying, rowVars, cap, row, item, found, answer,
                       errors, learnt>>
  /\ UNCHANGED sent

\* Mutation of MayUpgrade: REQUIRETLS forgotten.
MayUpgradeAnyway(w) == item[w] # "restmail" /\ ~dane[w]

\* REQUIRETLS and DANE keep a message on SMTP.
MayUpgrade(w) == item[w] # "restmail" /\ row[w] \notin RequireTLS /\ ~dane[w]

\* A cache hit decides; a miss, or a cache that cannot be read, asks the host.
Choose(w) ==
  /\ pc[w] = "choose"
  /\ item[w] # "restmail"
  /\ \/ /\ ~MayUpgrade(w)
        /\ Goto(w, "note")
     \/ /\ MayUpgrade(w) /\ capabilityApplies(firstHost(w))
        /\ Goto(w, IF capSupported /\ restmailUpgradePermitted(w) THEN "pin" ELSE "note")
     \/ /\ MayUpgrade(w) /\ (DbErrors \/ ~capabilityApplies(firstHost(w)))
        /\ Goto(w, "probe")
  /\ UNCHANGED <<now, relaying, rowVars, cap, row, item, found, answer, errors,
                 learnt, sent>>

\* probeRESTMAIL: the host cannot be reached, or its EHLO answers.
probeRESTMAIL(w) ==
  /\ pc[w] = "probe"
  /\ \/ Goto(w, "note") /\ UNCHANGED answer
     \/ /\ \E a \in BOOLEAN : answer' = [answer EXCEPT ![w] = a]
        /\ Goto(w, "probed")
  /\ UNCHANGED <<now, relaying, rowVars, cap, row, item, found, errors, learnt, sent>>

\* tryRESTMAILAt: the answer is cached for the host that gave it, and acted on.
cacheCapability(w) ==
  /\ pc[w] = "probed"
  /\ \/ /\ capHost' = firstHost(w)
        /\ capSupported' = answer[w]
        /\ capExpires' = now + (IF answer[w] THEN HitTTL ELSE MissTTL)
     \/ DbErrors /\ UNCHANGED cap
  /\ learnt' = [learnt EXCEPT ![firstHost(w)] = IF answer[w] THEN now ELSE @]
  /\ Goto(w, IF answer[w] /\ restmailUpgradePermitted(w) THEN "pin" ELSE "note")
  /\ UNCHANGED <<now, relaying, rowVars, row, item, found, answer, errors, sent>>

\* A row that cannot be pinned is not attempted.
pinRESTMAIL(w) ==
  /\ pc[w] = "pin"
  /\ \/ DbErrors /\ Return(w, "other_transient")
     \/ /\ transport' = [transport EXCEPT ![row[w]] = "restmail"]
        /\ Goto(w, "restmail")
        /\ UNCHANGED <<now, relaying, attempts, outcome, cap, row, item, found,
                       answer, errors, learnt>>
  /\ UNCHANGED sent

\* What an attempt promises its recipient's domain besides REQUIRETLS.
Promised(w, covered) ==
  Required(w) \union (IF enforcing(w) /\ ~covered THEN {"mta-sts"} ELSE {})
              \union (IF covered THEN {"dane"} ELSE {})

\* deliverRESTMAILDiscovered: the server does not host the domain (a policy
\* refusal), discovery or the POST gets no answer, or the message is posted
\* over verified HTTPS.  A host name without an address is classified as any
\* DNS answer is.
deliverRESTMAILDiscovered(w) ==
  /\ pc[w] = "restmail"
  /\ \/ /\ \E c \in {"policy", "connection", "dns", "bad_domain", "other_transient"} :
             Return(w, c)
        /\ UNCHANGED sent
     \/ /\ Transmit(w, "restmail", "authenticated", Promised(w, dane[w]),
                    Names(w, firstHost(w)))
        /\ \E o \in Results : Return(w, o)

-----------------------------------------------------------------------------
(* SMTP, one MX host after another *)

\* Mutation of noteSMTP: the update's condition on the row is dropped.
noteSMTPAnyway(w) ==
  /\ pc[w] = "note"
  /\ transport' = [transport EXCEPT ![row[w]] = IF item[w] = "" THEN "smtp" ELSE @]
  /\ Goto(w, "smtp")
  /\ UNCHANGED <<now, relaying, attempts, outcome, cap, row, item, found, answer,
                 errors, learnt, sent>>

\* Only a row that has no transport yet is marked; a failure is only logged.
noteSMTP(w) ==
  /\ pc[w] = "note"
  /\ \/ transport' = [transport EXCEPT ![row[w]] =
                         IF item[w] = "" /\ @ = "" THEN "smtp" ELSE @]
     \/ DbErrors /\ UNCHANGED transport
  /\ Goto(w, "smtp")
  /\ UNCHANGED <<now, relaying, attempts, outcome, cap, row, item, found, answer,
                 errors, learnt, sent>>

\* The host at hand failed and the loop goes on.  An SMTPError with a 5xx code is
\* not kept for a message that requires TLS; every other error is.
FailHost(w, c, keep) ==
  /\ lastErr' = [lastErr EXCEPT ![w] = c]
  /\ transientErr' = [transientErr EXCEPT ![w] = IF keep THEN c ELSE @]
  /\ seen' = [seen EXCEPT ![w] = @ \union {c}]
  /\ mx' = [mx EXCEPT ![w] = Tail(@)]
  /\ UNCHANGED <<now, relaying, rowVars, cap, pc, row, item, dane, policy, answer,
                 learnt>>

\* Before connecting: the host's TLSA lookup fails; an enforced policy does not
\* name it; or REQUIRETLS finds neither a policy naming it nor DANE.
SkipHost(w, covered) ==
  /\ \/ dane[w] /\ FailHost(w, "dns", TRUE)
     \/ /\ ~covered /\ enforcing(w) /\ ~Names(w, Head(mx[w]))
        /\ FailHost(w, "tls", FALSE)
     \/ /\ ~covered /\ ~enforcing(w) /\ requireTLS(w) /\ ~Names(w, Head(mx[w]))
        /\ FailHost(w, "policy", FALSE)
  /\ UNCHANGED sent

MayConnect(w, covered) ==
  covered \/ (enforcing(w) \/ requireTLS(w) => Names(w, Head(mx[w])))

\* openSMTP: the host has no address, cannot be looked up or reached, or refuses
\* at its greeting, a reply that is no SMTPError yet; or the message cannot be
\* signed, or needs an extension the host lacks.
NoSession(w) ==
  /\ \/ \E c \in {"connection", "dns", "bad_domain", "other_transient"}
               \union Deferrals \union Refusals : FailHost(w, c, TRUE)
     \/ FailHost(w, "other_permanent", FALSE)
  /\ UNCHANGED sent

\* Where openSMTP accepts no certificate it cannot verify.
MustAuthenticate(w, covered) == covered \/ requireTLS(w) \/ enforcing(w)

\* A session that is not authenticated where it must be: DANE and MTA-STS defer,
\* REQUIRETLS refuses, also when the host does not offer REQUIRETLS.
RefuseSession(w, covered) ==
  /\ \/ /\ covered
        /\ \E c \in {"tls", "other_transient"} : FailHost(w, c, TRUE)
     \/ requireTLS(w) /\ FailHost(w, "policy", FALSE)
     \/ enforcing(w) /\ ~covered /\ ~requireTLS(w) /\ FailHost(w, "tls", TRUE)
  /\ UNCHANGED sent

\* The message is sent over the session: TLS with a certificate that verified,
\* or whatever opportunistic TLS came to where nothing was promised.  A refusal
\* of DATA is no SMTPError either; one of MAIL, RCPT or the message is.
SendOver(w, covered) ==
  /\ \E security \in Securities :
       /\ MustAuthenticate(w, covered) => security = "authenticated"
       /\ Transmit(w, "smtp", security, Promised(w, covered), Names(w, Head(mx[w])))
  /\ \/ Return(w, "delivered")
     \/ \E c \in Deferrals \union {"connection"} : FailHost(w, c, TRUE)
     \/ \E c \in Refusals, keep \in BOOLEAN : FailHost(w, c, keep)

\* deliver's loop over the MX hosts; covered: the host has usable TLSA records.
deliverToHost(w) ==
  /\ pc[w] = "smtp"
  /\ mx[w] # <<>>
  /\ \E covered \in BOOLEAN :
       /\ covered => dane[w]
       /\ \/ SkipHost(w, covered)
          \/ /\ MayConnect(w, covered)
             /\ NoSession(w) \/ RefuseSession(w, covered) \/ SendOver(w, covered)

\* All hosts failed: the last error counts, but a message that requires TLS is
\* judged by the last that was no refusal.
AllHostsFailed(w) ==
  /\ pc[w] = "smtp"
  /\ mx[w] = <<>>
  /\ Return(w, IF row[w] \in RequireTLS /\ transientErr[w] # NoFailure
               THEN transientErr[w] ELSE lastErr[w])
  /\ UNCHANGED sent

-----------------------------------------------------------------------------
\* An administrator sets the sending domain to relay or to send direct.
SetRelay ==
  /\ CanRelay
  /\ relaying' = ~relaying
  /\ UNCHANGED <<now, rowVars, cap, workerVars, learnt, sent>>

Tick ==
  /\ now < MaxTime
  /\ now' = now + 1
  /\ UNCHANGED <<relaying, rowVars, cap, workerVars, learnt, sent>>

Next ==
  \/ \E w \in Workers : \/ \E r \in Rows : Claim(w, r)
                        \/ Route(w)
                        \/ deliverViaRelay(w)
                        \/ Resolve(w)
                        \/ ChoosePinned(w)
                        \/ Choose(w)
                        \/ probeRESTMAIL(w)
                        \/ cacheCapability(w)
                        \/ pinRESTMAIL(w)
                        \/ deliverRESTMAILDiscovered(w)
                        \/ noteSMTP(w)
                        \/ deliverToHost(w)
                        \/ AllHostsFailed(w)
                        \/ Crash(w)
  \/ SetRelay
  \/ Tick

Spec == Init /\ [][Next]_vars

-----------------------------------------------------------------------------
\* deliver, deliverToRelay: whichever way a message that requires TLS goes, and
\* whatever earlier attempts cached or recorded, it goes over authenticated TLS,
\* direct only to a host a policy names or DANE covers, and never by RESTMAIL.
RequireTLSKept ==
  \A r \in Rows : \A s \in sent[r] :
    "requiretls" \in s.promises =>
      /\ s.security = "authenticated"
      /\ s.path # "restmail"
      /\ s.path = "smtp" => s.named \/ "dane" \in s.promises

\* deliver: an enforced MTA-STS policy gates every direct path, RESTMAIL's too:
\* authenticated TLS with a host the policy names.  What DANE covers goes by
\* SMTP over a session its records authenticate.
PolicyKept ==
  \A r \in Rows : \A s \in sent[r] :
    /\ "mta-sts" \in s.promises => s.security = "authenticated" /\ s.named
    /\ "dane" \in s.promises => s.security = "authenticated" /\ s.path = "smtp"

\* capabilityApplies: the upgrade is taken without asking only from a primary MX
\* host that itself advertised RESTMAIL within the cache's lifetime, however the
\* domain's MX records and other workers' probes changed the cache since.
UpgradeWasOffered ==
  [][\A w \in Workers :
       pc[w] = "choose" /\ pc'[w] = "pin" =>
         learnt[firstHost(w)] # NoTime /\ now < learnt[firstHost(w)] + HitTTL]_vars

\* pinRESTMAIL, noteSMTP: no worker takes the pin off a row, not even one that
\* chose SMTP before another pinned it.
PinIsFinal ==
  [][\A r \in Rows : transport[r] = "restmail" => transport'[r] = "restmail"]_vars

\* deliverPinnedRESTMAIL: while no two workers attempt a row at once, a message
\* pinned in one attempt goes to no MX host by SMTP in a later one, whatever DNS,
\* DANE, the policy, the cache or a probe answer by then.  Only a relay its
\* sending domain was given since takes it another way.
PinOutlastsAnswers ==
  \A r \in Rows : \A s \in sent[r] : s.pinned => s.path # "smtp"

\* OutboundQueue.Transport: "TransportRESTMAIL is final: every later attempt goes
\* by RESTMAIL", so a pinned message is never put on the wire by SMTP, to an MX
\* host or to a relay.
NeverDowngraded ==
  \A r \in Rows : \A s \in sent[r] : s.pinned => s.path = "restmail"
=============================================================================
