----------------------------- MODULE MCIncoming -----------------------------
(* The ways mail comes in, with their constants chosen for TLC: connections  *)
(* and logins, what the gateway takes over SMTP, what peers bring and what   *)
(* an importer brings.  The parts share no state, so a behaviour is of one   *)
(* of them: part says of which, and the others stand still in one initial    *)
(* state.                                                                    *)
EXTENDS InboundMail, PeerDelivery, MailImport, ConnLimiter, TLC

CONSTANTS near1, near2, far, lan, wan, id

VARIABLE part

\* Two connections share a source.  Slots and bans have no state in common.
MCIpOf == (near1 :> lan) @@ (near2 :> lan) @@ (far :> wan)

\* Two messages share a Message-ID.
MCIdOf == [m \in Mails |-> id]

incoming == <<inbound, peerVars, importVars, limiter, part>>

IncomingInit ==
  /\ InboundInit /\ PeerInit /\ ImportInit /\ LimiterInit
  /\ part \in {"smtp", "peer", "import", "slots", "bans"}
  /\ part # "smtp" => ~submits /\ \A r \in Rcpts : kind[r] = "mailbox"
  /\ part # "peer" => \A r \in Peers : pkind[r] = "mailbox"

IncomingNext ==
  /\ UNCHANGED part
  /\ \/ part = "smtp" /\ InboundNext /\ UNCHANGED <<peerVars, importVars, limiter>>
     \/ part = "peer" /\ PeerNext /\ UNCHANGED <<inbound, importVars, limiter>>
     \/ part = "import" /\ ImportNext /\ UNCHANGED <<inbound, peerVars, limiter>>
     \/ /\ part = "slots" /\ \E c \in Conns : SlotStep(c)
        /\ UNCHANGED <<inbound, peerVars, importVars>>
     \/ /\ part = "bans" /\ (TimePasses \/ \E s \in Logins : LoginStep(s))
        /\ UNCHANGED <<inbound, peerVars, importVars>>

IncomingSpec == IncomingInit /\ [][IncomingNext]_incoming
=============================================================================
