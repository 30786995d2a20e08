------------------------ MODULE MCDeliveryTransport ------------------------
(* DeliveryTransport with its constants chosen for TLC. *)
EXTENDS DeliveryTransport, TLC

CONSTANTS r1, r2, w1, w2, h1, h2

\* The primary MX is either host, alone or with the other as its backup.
OneHost  == {<<h1>>}
Rotating == {<<h1>>, <<h2>>}
Mixed    == {<<h1, h2>>, <<h2>>}

NoPolicies == {NoPolicy}
SomePolicies ==
  {NoPolicy} \union [mode : {"enforce"}, names : {{h1}, {h2}}]
             \union [mode : {"testing"}, names : {{h1}}]

Symmetry == Permutations(Workers)
============================================================================
