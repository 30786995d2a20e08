--------------------------- MODULE OutgoingProofs ---------------------------
(***************************************************************************)
(* Limits on what is sent and on what is told of it: the bound on notices, *)
(* for any number of workers, jobs and boxes; the layered send limits, for *)
(* any forest of accounts and any number of domains; and the end of        *)
(* retrying, for any failures and any jitter.                              *)
(***************************************************************************)
EXTENDS RetryLifetime, SendLimits, BounceNotice, SumTheorems

-----------------------------------------------------------------------------
(* Notices *)

\* A worker that is not idle has a job.
Working == \A w \in Workers : pc[w] # "idle" => job[w] \in Jobs

TInv == TypeOK /\ Working

\* The notices of a box, counting those about to be inserted.
Pending ==
  BounceMax > 0 =>
    \A b \in Boxes :
      Cardinality(Limited(b)) + Cardinality(Passed(b))
        <= BounceMax + Cardinality(Workers) - 1

CapInv == TInv /\ Pending

\* No worker is at work yet.
LEMMA InitTyped == Init => TInv
BY DEF Init, TInv, TypeOK, Working, NoTime

\* Every step keeps the types, and a job with each worker at work.
LEMMA StepTyped == TInv /\ [Next]_vars => TInv'
BY DEF TInv, TypeOK, Working, Next, Begin, Refuse, CheckLimit, CountFails, Insert,
       Lose, Tick, GoIdle, vars

\* The notices of a box, and the workers about to add one, can be counted.
LEMMA Finite ==
  ASSUME NEW boxes, NEW b
  PROVE  /\ IsFiniteSet(Recent(boxes)) /\ Cardinality(Recent(boxes)) \in Nat
         /\ IsFiniteSet(Limited(b)) /\ Cardinality(Limited(b)) \in Nat
         /\ IsFiniteSet(Passed(b)) /\ Cardinality(Passed(b)) \in Nat
         /\ Cardinality(Passed(b)) <= Cardinality(Workers)
         /\ Cardinality(Workers) \in Nat
<1>1. Recent(boxes) \subseteq Jobs /\ Limited(b) \subseteq Jobs /\ Passed(b) \subseteq Workers
  BY DEF Recent, Limited, Passed
<1>2. QED
  BY <1>1, FiniteAssumption, FS_Subset, FS_CardinalityType

\* There is no notice yet.
LEMMA InitPending == Init => Pending
<1> SUFFICES ASSUME Init, BounceMax > 0, NEW b \in Boxes
             PROVE  Cardinality(Limited(b)) + Cardinality(Passed(b))
                      <= BounceMax + Cardinality(Workers) - 1
  BY DEF Pending
<1>1. Limited(b) = {} /\ Passed(b) = {}
  BY DEF Init, Limited, Recent, Passed
<1>2. QED
  BY <1>1, FS_EmptySet, Finite, LimitAssumption

\* A step that only removes recent notices and workers past the check.
LEMMA ShrinkPending ==
  ASSUME Pending, \A b \in Boxes : Limited(b)' \subseteq Limited(b) /\ Passed(b)' \subseteq Passed(b)
  PROVE  Pending'
<1> SUFFICES ASSUME BounceMax > 0, NEW b \in Boxes
             PROVE  Cardinality(Limited(b)') + Cardinality(Passed(b)')
                      <= BounceMax + Cardinality(Workers) - 1
  BY DEF Pending
<1>1. /\ Cardinality(Limited(b)') <= Cardinality(Limited(b))
      /\ Cardinality(Passed(b)') <= Cardinality(Passed(b))
      /\ Cardinality(Limited(b)') \in Nat
      /\ Cardinality(Passed(b)') \in Nat
  BY Finite, FS_Subset, FS_CardinalityType
<1>2. QED
  BY <1>1, Finite, LimitAssumption DEF Pending

\* A worker counts the notices before it adds one, so at most the others are ahead
\* of it.
LEMMA StepPending == CapInv /\ [Next]_vars => Pending'
<1> SUFFICES ASSUME CapInv, [Next]_vars PROVE Pending'
  OBVIOUS
<1> USE DEF CapInv, TInv
<1>1. ASSUME NEW w \in Workers, NEW j \in Jobs, Begin(w, j) PROVE Pending'
  <2>1. \A b \in Boxes : Limited(b)' \subseteq Limited(b) /\ Passed(b)' \subseteq Passed(b)
    BY <1>1 DEF Begin, Limited, Recent, Passed, TypeOK
  <2>2. QED
    BY <2>1, ShrinkPending
<1>2. ASSUME NEW w \in Workers, Refuse(w) \/ Lose(w) PROVE Pending'
  <2>1. \A b \in Boxes : Limited(b)' \subseteq Limited(b) /\ Passed(b)' \subseteq Passed(b)
    BY <1>2 DEF Refuse, Lose, GoIdle, Limited, Recent, Passed, TypeOK
  <2>2. QED
    BY <2>1, ShrinkPending
<1>3. ASSUME NEW w \in Workers, CheckLimit(w) PROVE Pending'
  <2>1. CASE pc'[w] = "insert"
    <3> SUFFICES ASSUME BounceMax > 0, NEW b \in Boxes
                 PROVE  Cardinality(Limited(b)') + Cardinality(Passed(b)')
                          <= BounceMax + Cardinality(Workers) - 1
      BY DEF Pending
    <3>1. Limited(b)' = Limited(b)
      BY <1>3 DEF CheckLimit, Limited, Recent
    <3>2. CASE Box[job[w]] = b
      <4>1. Cardinality(Counted(job[w])) < BounceMax
        BY <1>3, <2>1, LimitAssumption DEF CheckLimit, GoIdle, withinDSNRateLimit,
           TypeOK
      <4>2. Limited(b) \subseteq Counted(job[w])
        BY <3>2, JobAssumption DEF Counted, Limited, Recent
      <4>3. IsFiniteSet(Counted(job[w])) /\ Cardinality(Counted(job[w])) \in Nat
        BY Finite DEF Counted
      <4>4. Cardinality(Limited(b)) <= Cardinality(Counted(job[w]))
        BY <4>2, <4>3, FS_Subset
      <4>5. Cardinality(Passed(b)') <= Cardinality(Workers) /\ Cardinality(Passed(b)') \in Nat
        <5>1. Passed(b)' \subseteq Workers
          BY DEF Passed
        <5>2. QED
          BY <5>1, FiniteAssumption, FS_Subset, FS_CardinalityType
      <4>6. QED
        BY <3>1, <4>1, <4>3, <4>4, <4>5, Finite, LimitAssumption
    <3>3. CASE Box[job[w]] # b
      <4>1. Passed(b)' = Passed(b)
        BY <1>3, <2>1, <3>3 DEF CheckLimit, GoIdle, Passed, TypeOK
      <4>2. QED
        BY <3>1, <4>1 DEF Pending
    <3>4. QED
      BY <3>2, <3>3
  <2>2. CASE pc'[w] # "insert"
    <3>1. \A b \in Boxes : Limited(b)' \subseteq Limited(b) /\ Passed(b)' \subseteq Passed(b)
      BY <1>3, <2>2 DEF CheckLimit, GoIdle, Limited, Recent, Passed, TypeOK
    <3>2. QED
      BY <3>1, ShrinkPending
  <2>3. QED
    BY <2>1, <2>2
<1>a. ASSUME NEW w \in Workers, CountFails(w) PROVE Pending'
  <2>1. \A b \in Boxes : Limited(b)' \subseteq Limited(b) /\ Passed(b)' \subseteq Passed(b)
    BY <1>a DEF CountFails, Limited, Recent, Passed, TypeOK
  <2>2. QED
    BY <2>1, ShrinkPending
<1>4. ASSUME NEW w \in Workers, Insert(w) PROVE Pending'
  <2> SUFFICES ASSUME BounceMax > 0, NEW b \in Boxes
               PROVE  Cardinality(Limited(b)') + Cardinality(Passed(b)')
                        <= BounceMax + Cardinality(Workers) - 1
    BY DEF Pending
  <2>1. CASE Box[job[w]] = b /\ job[w] \notin blind
    <3>1. Limited(b)' \subseteq Limited(b) \union {job[w]}
      BY <1>4 DEF Insert, Limited, Recent, TypeOK
    <3>2. Passed(b)' = Passed(b) \ {w} /\ w \in Passed(b)
      BY <1>4, <2>1 DEF Insert, GoIdle, Passed, TypeOK
    <3>3. /\ IsFiniteSet(Limited(b) \union {job[w]})
          /\ Cardinality(Limited(b) \union {job[w]}) <= Cardinality(Limited(b)) + 1
      <4>1. IsFiniteSet(Limited(b)) /\ Cardinality(Limited(b)) \in Nat
        BY Finite
      <4>2. /\ IsFiniteSet(Limited(b) \union {job[w]})
            /\ Cardinality(Limited(b) \union {job[w]}) =
                 IF job[w] \in Limited(b) THEN Cardinality(Limited(b))
                                          ELSE Cardinality(Limited(b)) + 1
        BY <4>1, FS_AddElement, Zenon
      <4>3. QED
        BY <4>1, <4>2
    <3>4. Cardinality(Limited(b)') <= Cardinality(Limited(b)) + 1 /\ Cardinality(Limited(b)') \in Nat
      <4>1. /\ IsFiniteSet(Limited(b)')
            /\ Cardinality(Limited(b)') <= Cardinality(Limited(b) \union {job[w]})
        BY <3>1, <3>3, FS_Subset
      <4>2. QED
        BY <3>3, <4>1, Finite, FS_CardinalityType
    <3>5. Cardinality(Passed(b)') = Cardinality(Passed(b)) - 1
      BY <3>2, Finite, FS_RemoveElement
    <3>6. QED
      BY <3>4, <3>5, Finite, LimitAssumption DEF Pending
  <2>2. CASE ~(Box[job[w]] = b /\ job[w] \notin blind)
    <3>1. Limited(b)' = Limited(b) /\ Passed(b)' = Passed(b)
      BY <1>4, <2>2 DEF Insert, GoIdle, Limited, Recent, Passed, TypeOK
    <3>2. QED
      BY <3>1 DEF Pending
  <2>3. QED
    BY <2>1, <2>2
<1>5. ASSUME Tick PROVE Pending'
  <2>1. \A b \in Boxes : Limited(b)' \subseteq Limited(b) /\ Passed(b)' \subseteq Passed(b)
    BY <1>5, LimitAssumption DEF Tick, Limited, Recent, Passed, TypeOK
  <2>2. QED
    BY <2>1, ShrinkPending
<1>6. ASSUME UNCHANGED vars PROVE Pending'
  <2>1. \A b \in Boxes : Limited(b)' \subseteq Limited(b) /\ Passed(b)' \subseteq Passed(b)
    BY <1>6 DEF vars, Limited, Recent, Passed
  <2>2. QED
    BY <2>1, ShrinkPending
<1>7. QED
  BY <1>1, <1>2, <1>3, <1>4, <1>5, <1>6, <1>a DEF Next

\* However many workers bounce mail of one sender at once, the notices in the
\* sender's mailbox exceed the limit by less than the number of workers.
THEOREM NoticesBounded == Spec => []CapPlusRacers
<1>1. Init => CapInv
  BY InitTyped, InitPending DEF CapInv
<1>2. CapInv /\ [Next]_vars => CapInv'
  BY StepTyped, StepPending DEF CapInv
<1>3. CapInv => CapPlusRacers
  <2> SUFFICES ASSUME CapInv, BounceMax > 0, NEW b \in Boxes
               PROVE  Cardinality(Limited(b)) <= BounceMax + Cardinality(Workers) - 1
    BY DEF CapPlusRacers
  <2>1. Cardinality(Limited(b)) + Cardinality(Passed(b))
          <= BounceMax + Cardinality(Workers) - 1
    BY DEF CapInv, Pending
  <2>2. /\ Cardinality(Limited(b)) \in Nat
        /\ Cardinality(Passed(b)) \in Nat
        /\ Cardinality(Workers) \in Nat
    BY Finite
  <2>3. QED
    BY <2>1, <2>2, LimitAssumption
<1>4. QED
  BY <1>1, <1>2, <1>3, PTL DEF Spec

-----------------------------------------------------------------------------
(* Send limits *)

\* A set of accounts that no owner leads out of.
OwnerClosed(S) == \A c \in S : OwnerAccount[c] # NoAccount => OwnerAccount[c] \in S

\* An account's chain is the account and its owner's chain.
LEMMA ChainIs ==
  ASSUME NEW a \in Accounts
  PROVE  /\ a \in Chain(a) /\ Chain(a) \subseteq Accounts /\ OwnerClosed(Chain(a))
         /\ \A S \in SUBSET Accounts : a \in S /\ OwnerClosed(S) => Chain(a) \subseteq S
  BY AccountAssumption DEF Chain, OwnerClosed

\* The chain of an account nobody owns.
LEMMA ChainOfTop ==
  ASSUME NEW a \in Accounts, OwnerAccount[a] = NoAccount
  PROVE  Chain(a) = {a}
<1>1. OwnerClosed({a}) /\ {a} \in SUBSET Accounts
  BY DEF OwnerClosed
<1> QED
  BY <1>1, ChainIs

\* The chain of any other goes on with its owner's.
LEMMA ChainOfOwned ==
  ASSUME NEW a \in Accounts, OwnerAccount[a] # NoAccount
  PROVE  OwnerAccount[a] \in Accounts /\ Chain(a) = {a} \union Chain(OwnerAccount[a])
<1> DEFINE o == OwnerAccount[a]
<1>1. o \in Accounts
  BY AccountAssumption
<1>2. Chain(a) \subseteq {a} \union Chain(o)
  <2>1. OwnerClosed({a} \union Chain(o)) /\ {a} \union Chain(o) \in SUBSET Accounts
    BY <1>1, ChainIs DEF OwnerClosed
  <2> QED
    BY <2>1, ChainIs
<1>3. Chain(o) \subseteq Chain(a)
  <2>1. o \in Chain(a) /\ OwnerClosed(Chain(a)) /\ Chain(a) \in SUBSET Accounts
    BY ChainIs DEF OwnerClosed
  <2> QED
    BY <1>1, <2>1, ChainIs
<1> QED
  BY <1>1, <1>2, <1>3, ChainIs

\* What holds at the top of every chain, and of an account with its owner, holds of all.
LEMMA DownTheChains ==
  ASSUME NEW P,
         \A a \in Accounts : OwnerAccount[a] = NoAccount => a \in P,
         \A a \in Accounts : OwnerAccount[a] # NoAccount /\ OwnerAccount[a] \in P => a \in P
  PROVE  Accounts \subseteq P
<1> SUFFICES ASSUME NEW a \in Accounts, a \notin P PROVE FALSE
  OBVIOUS
<1> DEFINE S == Accounts \ P
<1>1. OwnerClosed(S) /\ a \in S /\ S \in SUBSET Accounts
  BY AccountAssumption DEF OwnerClosed
<1>2. Chain(a) \subseteq S
  BY <1>1, ChainIs
<1>3. PICK b \in Chain(a) : OwnerAccount[b] = NoAccount
  BY ForestAssumption
<1> QED
  BY <1>2, <1>3

\* No account is its own owner, nearly or far.
LEMMA NoCircle ==
  ASSUME NEW a \in Accounts, OwnerAccount[a] # NoAccount
  PROVE  a \notin Chain(OwnerAccount[a])
<1> DEFINE P == {b \in Accounts : OwnerAccount[b] # NoAccount => b \notin Chain(OwnerAccount[b])}
<1>1. \A b \in Accounts : OwnerAccount[b] = NoAccount => b \in P
  OBVIOUS
<1>2. ASSUME NEW b \in Accounts, OwnerAccount[b] # NoAccount, OwnerAccount[b] \in P
      PROVE  b \in P
  <2> DEFINE o == OwnerAccount[b]
  <2> SUFFICES ASSUME b \in Chain(o) PROVE FALSE
    OBVIOUS
  <2>1. o \in Accounts
    BY <1>2
  <2>2. CASE OwnerAccount[o] = NoAccount
    <3>1. b = o
      BY <2>1, <2>2, ChainOfTop
    <3> QED
      BY <1>2, <2>2, <3>1
  <2>3. CASE OwnerAccount[o] # NoAccount
    <3>1. o \notin Chain(OwnerAccount[o])
      BY <1>2, <2>3
    <3>2. OwnerAccount[o] \in Accounts /\ Chain(o) = {o} \union Chain(OwnerAccount[o])
      BY <2>1, <2>3, ChainOfOwned
    <3>3. CASE b = o
      <4>1. OwnerAccount[o] = o
        BY <3>3
      <4> QED
        BY <2>1, <3>1, <4>1, ChainIs
    <3>4. CASE b \in Chain(OwnerAccount[o])
      <4>1. OwnerAccount[b] \in Chain(OwnerAccount[o])
        BY <1>2, <3>2, <3>4, ChainIs DEF OwnerClosed
      <4> QED
        BY <3>1, <4>1
    <3> QED
      BY <3>2, <3>3, <3>4
  <2> QED
    BY <2>2, <2>3
<1> HIDE DEF P
<1>3. Accounts \subseteq P
  BY <1>1, <1>2, DownTheChains
<1> QED
  BY <1>3 DEF P

-----------------------------------------------------------------------------
(* What EffectiveAccount computes *)

\* One step down a chain, and a function that takes it for every account of a set.
EffectiveStep(f, a) ==
  IF OwnerAccount[a] = NoAccount
  THEN IF a \in set THEN policy[a] ELSE AccountDefault
  ELSE IF a \in set THEN Inherit(f[OwnerAccount[a]], policy[a]) ELSE f[OwnerAccount[a]]
StepsDown(f, C) == \A a \in C : f[a] = EffectiveStep(f, a)

\* Any chain has such a function, and its account has one value by it.
LEMMA StepsDownExists ==
  ASSUME NEW a \in Accounts
  PROVE  \E f : StepsDown(f, Chain(a))
<1> DEFINE P == {b \in Accounts : \E f : DOMAIN f = Accounts /\ f = [x \in Accounts |-> f[x]] /\ StepsDown(f, Chain(b))}
<1>1. ASSUME NEW b \in Accounts, OwnerAccount[b] = NoAccount PROVE b \in P
  <2> DEFINE f == [x \in Accounts |-> IF x \in set THEN policy[x] ELSE AccountDefault]
  <2>1. StepsDown(f, Chain(b))
    BY <1>1, ChainOfTop DEF StepsDown, EffectiveStep
  <2>2. DOMAIN f = Accounts /\ f = [x \in Accounts |-> f[x]]
    OBVIOUS
  <2> HIDE DEF f
  <2> QED
    BY <2>1, <2>2
<1>2. ASSUME NEW b \in Accounts, OwnerAccount[b] # NoAccount, OwnerAccount[b] \in P
      PROVE  b \in P
  <2> DEFINE o == OwnerAccount[b]
  <2>1. PICK f : DOMAIN f = Accounts /\ f = [x \in Accounts |-> f[x]] /\ StepsDown(f, Chain(o))
    BY <1>2
  <2>2. o \in Accounts /\ Chain(b) = {b} \union Chain(o) /\ b \notin Chain(o) /\ Chain(o) \subseteq Accounts
        /\ OwnerClosed(Chain(o)) /\ o \in Chain(o)
    BY <1>2, ChainOfOwned, NoCircle, ChainIs
  <2> DEFINE g == [x \in Accounts |-> IF x = b THEN EffectiveStep(f, b) ELSE f[x]]
  <2>3. \A x \in Chain(o) : g[x] = f[x]
    BY <2>2
  <2>4. \A x \in Chain(b) : EffectiveStep(g, x) = EffectiveStep(f, x)
    BY <2>2, <2>3 DEF EffectiveStep, OwnerClosed
  <2>5. StepsDown(g, Chain(b))
    BY <2>1, <2>2, <2>3, <2>4 DEF StepsDown
  <2>6. DOMAIN g = Accounts /\ g = [x \in Accounts |-> g[x]]
    OBVIOUS
  <2> HIDE DEF g
  <2> QED
    BY <2>5, <2>6
<1> HIDE DEF P
<1>3. Accounts \subseteq P
  BY <1>1, <1>2, DownTheChains
<1> QED
  BY <1>3 DEF P

\* There is one such function on a chain.
LEMMA StepsDownUnique ==
  ASSUME NEW a \in Accounts, NEW f, NEW g, StepsDown(f, Chain(a)), StepsDown(g, Chain(a))
  PROVE  f[a] = g[a]
<1> DEFINE P == {b \in Accounts : StepsDown(f, Chain(b)) /\ StepsDown(g, Chain(b)) => f[b] = g[b]}
<1>1. ASSUME NEW b \in Accounts, OwnerAccount[b] = NoAccount PROVE b \in P
  <2>1. b \in Chain(b)
    BY ChainIs
  <2> QED
    BY <1>1, <2>1 DEF StepsDown, EffectiveStep
<1>2. ASSUME NEW b \in Accounts, OwnerAccount[b] # NoAccount, OwnerAccount[b] \in P
      PROVE  b \in P
  <2>1. Chain(b) = {b} \union Chain(OwnerAccount[b])
    BY <1>2, ChainOfOwned
  <2>2. b \in Chain(b) /\ Chain(OwnerAccount[b]) \subseteq Chain(b)
    BY <2>1
  <2> SUFFICES ASSUME StepsDown(f, Chain(b)), StepsDown(g, Chain(b)) PROVE f[b] = g[b]
    OBVIOUS
  <2>3. f[OwnerAccount[b]] = g[OwnerAccount[b]]
    BY <1>2, <2>2 DEF StepsDown
  <2> QED
    BY <1>2, <2>2, <2>3 DEF StepsDown, EffectiveStep
<1> HIDE DEF P
<1>3. Accounts \subseteq P
  BY <1>1, <1>2, DownTheChains
<1> QED
  BY <1>3 DEF P

\* So Effective is what its recursion says.
LEMMA EffectiveIs ==
  ASSUME NEW a \in Accounts
  PROVE  Effective[a] = EffectiveStep(Effective, a)
<1> DEFINE Fun(b) == CHOOSE f : StepsDown(f, Chain(b))
           E == [b \in Accounts |-> Fun(b)[b]]
<1>1. \A b \in Accounts : StepsDown(Fun(b), Chain(b))
  BY StepsDownExists
<1> HIDE DEF Fun
<1>2. ASSUME NEW b \in Accounts PROVE E[b] = EffectiveStep(E, b)
  <2>1. E[b] = EffectiveStep(Fun(b), b)
    BY <1>1, ChainIs DEF StepsDown
  <2>2. CASE OwnerAccount[b] = NoAccount
    BY <2>1, <2>2 DEF EffectiveStep
  <2>3. CASE OwnerAccount[b] # NoAccount
    <3> DEFINE o == OwnerAccount[b]
    <3>1. o \in Accounts /\ Chain(o) \subseteq Chain(b)
      BY <2>3, ChainOfOwned
    <3>2. StepsDown(Fun(b), Chain(o)) /\ StepsDown(Fun(o), Chain(o))
      BY <1>1, <3>1 DEF StepsDown
    <3>3. Fun(b)[o] = Fun(o)[o]
      BY <3>1, <3>2, StepsDownUnique
    <3>4. Fun(b)[o] = E[o]
      BY <3>1, <3>3
    <3> QED
      BY <2>1, <2>3, <3>4 DEF EffectiveStep
  <2> QED
    BY <2>2, <2>3
<1>3. E = [b \in Accounts |-> EffectiveStep(E, b)]
  BY <1>2
<1> HIDE DEF E
<1>4. Effective = CHOOSE f : f = [b \in Accounts |-> EffectiveStep(f, b)]
  BY DEF Effective, EffectiveStep
<1>5. Effective = [b \in Accounts |-> EffectiveStep(Effective, b)]
  BY <1>3, <1>4
<1> QED
  BY <1>5

-----------------------------------------------------------------------------
(* The limit in force, and what is charged under it *)

\* The limits in force are limits.
LEMMA EffectiveIsLimit ==
  ASSUME SendLimitsTypeOK
  PROVE  \A a \in Accounts : Effective[a] \in Limits
<1> DEFINE P == {a \in Accounts : Effective[a] \in Limits}
<1>0. policy \in [Accounts -> Limits] /\ AccountDefault \in Limits
  BY SendLimitAssumption DEF SendLimitsTypeOK
<1>1. ASSUME NEW a \in Accounts, OwnerAccount[a] = NoAccount PROVE a \in P
  BY <1>0, <1>1, EffectiveIs DEF EffectiveStep
<1>2. ASSUME NEW a \in Accounts, OwnerAccount[a] # NoAccount, OwnerAccount[a] \in P PROVE a \in P
  <2>1. \A v, w \in Limits : Inherit(v, w) \in Limits
    BY DEF Inherit, Limits
  <2> QED
    BY <1>0, <1>2, <2>1, EffectiveIs DEF EffectiveStep
<1> HIDE DEF P
<1>3. Accounts \subseteq P
  BY <1>1, <1>2, DownTheChains
<1> QED
  BY <1>3 DEF P

\* The positive limits set for a dimension on an account's chain.
Capped(a, d) ==
  {v \in {policy[b][d] : b \in Chain(a) \intersect set}
           \union {AccountDefault[d] : b \in {c \in Chain(a) \ set : OwnerAccount[c] = NoAccount}} : v > 0}

\* The tightest limit of a dimension is the least there is, or none.
LEMMA TightestIs ==
  ASSUME SendLimitsTypeOK, NEW a \in Accounts, NEW d \in Dims
  PROVE  /\ Capped(a, d) \subseteq Nat
         /\ Capped(a, d) = {} => Tightest(a, d) = 0
         /\ Capped(a, d) # {} => Tightest(a, d) \in Capped(a, d) /\ \A v \in Capped(a, d) : Tightest(a, d) <= v
<1>1. Capped(a, d) \subseteq Nat
  <2>1. \A b \in Chain(a) : policy[b][d] \in Nat
    BY ChainIs DEF SendLimitsTypeOK, Limits
  <2>2. AccountDefault[d] \in Nat
    BY SendLimitAssumption DEF Limits
  <2> QED
    BY <2>1, <2>2 DEF Capped
<1>2. Tightest(a, d) = IF Capped(a, d) = {} THEN 0 ELSE Min(Capped(a, d))
  BY DEF Tightest, Capped
<1>3. CASE Capped(a, d) # {}
  <2>1. \E x \in Capped(a, d) : \A y \in Capped(a, d) : x <= y
    BY <1>1, <1>3, LeastNat
  <2>2. Min(Capped(a, d)) \in Capped(a, d) /\ \A y \in Capped(a, d) : Min(Capped(a, d)) <= y
    BY <2>1 DEF Min
  <2> QED
    BY <1>1, <1>2, <1>3, <2>2
<1> QED
  BY <1>1, <1>2, <1>3

\* The limits of a chain are those of the owner's chain and the account's own.
LEMMA CappedDown ==
  ASSUME NEW a \in Accounts, NEW d \in Dims
  PROVE  /\ OwnerAccount[a] = NoAccount =>
              Capped(a, d) = {v \in {IF a \in set THEN policy[a][d] ELSE AccountDefault[d]} : v > 0}
         /\ OwnerAccount[a] # NoAccount =>
              Capped(a, d) = Capped(OwnerAccount[a], d)
                               \union {v \in {policy[b][d] : b \in {a} \intersect set} : v > 0}
<1>1. CASE OwnerAccount[a] = NoAccount
  <2>1. Chain(a) = {a}
    BY <1>1, ChainOfTop
  <2> QED
    BY <1>1, <2>1 DEF Capped
<1>2. CASE OwnerAccount[a] # NoAccount
  <2>1. Chain(a) = {a} \union Chain(OwnerAccount[a])
    BY <1>2, ChainOfOwned
  <2> QED
    BY <1>2, <2>1 DEF Capped
<1> QED
  BY <1>1, <1>2

\* However limits were set along a chain, the one in force is the tightest.
LEMMA EffectiveIsTightest ==
  ASSUME SendLimitsTypeOK, NEW d \in Dims
  PROVE  \A a \in Accounts : Effective[a][d] = Tightest(a, d)
<1> DEFINE P == {a \in Accounts : Effective[a][d] = Tightest(a, d)}
<1>0. /\ \A a \in Accounts : policy[a][d] \in Nat /\ Effective[a][d] \in Nat
      /\ AccountDefault[d] \in Nat
  BY EffectiveIsLimit, SendLimitAssumption DEF SendLimitsTypeOK, Limits
<1>1. ASSUME NEW a \in Accounts, OwnerAccount[a] = NoAccount PROVE a \in P
  <2> DEFINE own == IF a \in set THEN policy[a][d] ELSE AccountDefault[d]
  <2>1. Effective[a][d] = own
    BY <1>1, EffectiveIs DEF EffectiveStep
  <2>2. Capped(a, d) = {v \in {own} : v > 0} /\ own \in Nat
    BY <1>0, <1>1, CappedDown
  <2> HIDE DEF own
  <2>3. Tightest(a, d) = own
    <3>1. CASE own > 0
      BY <2>2, <3>1, TightestIs
    <3>2. CASE own = 0
      BY <2>2, <3>2, TightestIs
    <3> QED
      BY <2>2, <3>1, <3>2
  <2> QED
    BY <2>1, <2>3
<1>2. ASSUME NEW a \in Accounts, OwnerAccount[a] # NoAccount, OwnerAccount[a] \in P PROVE a \in P
  <2> DEFINE o == OwnerAccount[a]
             t == Tightest(o, d)
             p == policy[a][d]
  <2>1. o \in Accounts /\ Effective[o][d] = t /\ t \in Nat /\ p \in Nat
    BY <1>0, <1>2
  <2>2. Capped(a, d) = Capped(o, d) \union {v \in {policy[b][d] : b \in {a} \intersect set} : v > 0}
    BY <1>2, CappedDown
  <2>3. /\ Capped(o, d) \subseteq Nat
        /\ Capped(o, d) = {} => t = 0
        /\ Capped(o, d) # {} => t \in Capped(o, d) /\ \A v \in Capped(o, d) : t <= v
    BY <2>1, TightestIs
  <2>4. \A v \in Capped(o, d) : v > 0
    BY DEF Capped
  <2>5. /\ Capped(a, d) \subseteq Nat
        /\ Capped(a, d) = {} => Tightest(a, d) = 0
        /\ Capped(a, d) # {} => Tightest(a, d) \in Capped(a, d) /\ \A v \in Capped(a, d) : Tightest(a, d) <= v
    BY TightestIs
  <2>6. CASE a \notin set
    <3>1. Effective[a] = Effective[o]
      BY <1>2, <2>6, EffectiveIs DEF EffectiveStep
    <3>2. Capped(a, d) = Capped(o, d)
      BY <2>2, <2>6
    <3> HIDE DEF t
    <3>3. Tightest(a, d) = t
      <4>1. CASE Capped(o, d) = {}
        BY <2>3, <2>5, <3>2, <4>1
      <4>2. CASE Capped(o, d) # {}
        <5>1. Tightest(a, d) <= t /\ t <= Tightest(a, d) /\ Tightest(a, d) \in Nat
          BY <2>3, <2>5, <3>2, <4>2
        <5> QED
          BY <2>1, <5>1
      <4> QED
        BY <4>1, <4>2
    <3> QED
      BY <2>1, <3>1, <3>3
  <2>7. CASE a \in set
    <3>1. Effective[a][d] = IF t > 0 /\ (p = 0 \/ p > t) THEN t ELSE p
      BY ZenonT(60), <1>2, <2>1, <2>7, EffectiveIs DEF EffectiveStep, Inherit
    <3>2. Capped(a, d) = Capped(o, d) \union {v \in {p} : v > 0}
      BY <2>2, <2>7
    <3> HIDE DEF t, p
    <3>3. CASE p = 0
      <4>1. Capped(a, d) = Capped(o, d)
        BY <2>1, <3>2, <3>3
      <4>2. Effective[a][d] = t
        BY <2>1, <3>1, <3>3
      <4>3. CASE Capped(o, d) = {}
        BY <2>3, <2>5, <4>1, <4>2, <4>3
      <4>4. CASE Capped(o, d) # {}
        <5>1. Tightest(a, d) <= t /\ t <= Tightest(a, d) /\ Tightest(a, d) \in Nat
          BY <2>3, <2>5, <4>1, <4>4
        <5> QED
          BY <2>1, <4>2, <5>1
      <4> QED
        BY <4>3, <4>4
    <3>4. CASE p > 0
      <4>1. Capped(a, d) = Capped(o, d) \union {p}
        BY <3>2, <3>4
      <4>2. /\ Tightest(a, d) \in Capped(o, d) \union {p} /\ Tightest(a, d) <= p
            /\ (\A v \in Capped(o, d) : Tightest(a, d) <= v) /\ Tightest(a, d) \in Nat
        BY <2>5, <4>1
      <4>3. CASE Capped(o, d) = {}
        BY <2>1, <2>3, <3>1, <3>4, <4>2, <4>3
      <4>4. CASE Capped(o, d) # {}
        <5>1. t \in Capped(o, d) /\ t > 0 /\ Tightest(a, d) <= t
          BY <2>3, <2>4, <4>2, <4>4
        <5>2. Tightest(a, d) = p \/ t <= Tightest(a, d)
          BY <2>3, <4>2, <4>4
        <5> QED
          BY <2>1, <3>1, <3>4, <4>2, <5>1, <5>2
      <4> QED
        BY <4>3, <4>4
    <3> QED
      BY <2>1, <3>3, <3>4
  <2> QED
    BY <2>6, <2>7
<1> HIDE DEF P
<1>3. Accounts \subseteq P
  BY <1>1, <1>2, DownTheChains
<1> QED
  BY <1>3 DEF P

\* The types and the ceilings.
LimitInv == SendLimitsTypeOK /\ CeilingsHold

\* What a submission charges, and to whom.
LEMMA ReserveCharges ==
  ASSUME SendLimitsTypeOK, NEW a \in Accounts, NEW s \in Accounts, NEW h \in Accounts,
         NEW n \in Sizes, NEW bypass \in BOOLEAN, Reserve(a, s, h, n, bypass)
  PROVE  /\ Added(n) \in [Dims -> Nat]
         /\ \A l \in Scopes, d \in Dims :
              used'[l][d] = IF l \in Charged(a, s, h) THEN used[l][d] + Added(n)[d] ELSE used[l][d]
         /\ used' \in [Scopes -> Limits]
         /\ \A l \in (Charged(a, s, h) \ Accounts), d \in Dims :
              Ceilings[l][d] > 0 => used[l][d] + Added(n)[d] <= Ceilings[l][d]
         /\ \A l \in (Charged(a, s, h) \intersect Accounts), d \in Dims :
              ~bypass /\ Effective[l][d] > 0 => used[l][d] + Added(n)[d] <= Effective[l][d]
<1>1. Added(n) \in [Dims -> Nat]
  BY SendLimitAssumption DEF Added
<1>2. \A l \in Scopes, d \in Dims : used[l][d] \in Nat
  BY DEF SendLimitsTypeOK, Limits
<1>3. used' = [l \in Scopes |-> IF l \in Charged(a, s, h)
                               THEN [d \in Dims |-> used[l][d] + Added(n)[d]]
                               ELSE used[l]]
  BY DEF Reserve
<1>4. \A l \in Scopes, d \in Dims :
        used'[l][d] = IF l \in Charged(a, s, h) THEN used[l][d] + Added(n)[d] ELSE used[l][d]
  BY <1>3
<1>5. used' \in [Scopes -> Limits]
  <2>1. \A l \in Scopes : [d \in Dims |-> used[l][d] + Added(n)[d]] \in Limits /\ used[l] \in Limits
    BY <1>1, <1>2 DEF Limits, SendLimitsTypeOK
  <2> QED
    BY <1>3, <2>1
<1>6. Full(a, s, h, n, bypass) = {}
  BY DEF Reserve
<1>7. \A l \in Charged(a, s, h) : l \in Scopes
  BY AccountAssumption, ChainIs DEF Charged, AccountLayers, CeilingLayers, Scopes
<1>8. ASSUME NEW l \in Charged(a, s, h) \ Accounts, NEW d \in Dims, Ceilings[l][d] > 0
      PROVE  used[l][d] + Added(n)[d] <= Ceilings[l][d]
  <2>1. l \in CeilingLayers(a, s, h) /\ l \in MailDomains \union {Server}
    BY ChainIs, AccountAssumption DEF Charged, AccountLayers, CeilingLayers
  <2>2. ~Exceeded(Ceilings[l], l, n)
    BY <1>6, <2>1 DEF Full
  <2>3. Ceilings[l][d] \in Nat /\ used[l][d] \in Nat /\ Added(n)[d] \in Nat
    BY <1>1, <1>2, <1>7, <2>1, SendLimitAssumption DEF Limits
  <2>4. ~(Added(n)[d] > Ceilings[l][d] \/ used[l][d] > Ceilings[l][d] - Added(n)[d])
    BY <1>8, <2>2 DEF Exceeded
  <2> QED
    BY <2>3, <2>4
<1>9. ASSUME NEW l \in Charged(a, s, h) \intersect Accounts, NEW d \in Dims, ~bypass, Effective[l][d] > 0
      PROVE  used[l][d] + Added(n)[d] <= Effective[l][d]
  <2>1. l \in AccountLayers(a, s, h)
    BY AccountAssumption DEF Charged, CeilingLayers
  <2>2. ~Exceeded(Effective[l], l, n)
    BY <1>6, <1>9, <2>1 DEF Full
  <2>3. Effective[l][d] \in Nat /\ used[l][d] \in Nat /\ Added(n)[d] \in Nat
    BY <1>1, <1>2, <1>7, EffectiveIsLimit DEF Limits
  <2>4. ~(Added(n)[d] > Effective[l][d] \/ used[l][d] > Effective[l][d] - Added(n)[d])
    BY <1>9, <2>2 DEF Exceeded
  <2> QED
    BY <2>3, <2>4
<1> QED
  BY <1>1, <1>4, <1>5, <1>8, <1>9

\* The owner of who is charged is charged, and so is the server.
LEMMA OwnersAreCharged ==
  ASSUME NEW a \in Accounts, NEW s \in Accounts, NEW h \in Accounts
  PROVE  /\ \A l \in Charged(a, s, h) \intersect Accounts :
              OwnerAccount[l] # NoAccount => OwnerAccount[l] \in Charged(a, s, h)
         /\ Server \in Charged(a, s, h)
<1>1. \A l \in Charged(a, s, h) \intersect Accounts : l \in AccountLayers(a, s, h)
  BY AccountAssumption DEF Charged, CeilingLayers
<1>2. \A l \in AccountLayers(a, s, h) : OwnerAccount[l] # NoAccount => OwnerAccount[l] \in AccountLayers(a, s, h)
  BY ChainIs DEF AccountLayers, OwnerClosed
<1> QED
  BY <1>1, <1>2 DEF Charged, CeilingLayers

\* The counters after a step: more for those a submission charges, none more otherwise.
LEMMA LimitStep ==
  ASSUME LimitInv, [SendLimitsNext]_limitVars
  PROVE  LimitInv'
<1>0. /\ SendLimitsTypeOK /\ CeilingsHold
      /\ \A l \in Scopes, d \in Dims : used[l][d] \in Nat
      /\ \A l \in MailDomains \union {Server}, d \in Dims : Ceilings[l][d] \in Nat
  BY SendLimitAssumption DEF LimitInv, SendLimitsTypeOK, Limits
<1>a. /\ \A l \in MailDomains \union {Server} : l \in Scopes /\ l \notin Accounts
      /\ Server \in Scopes
      /\ \A a \in Accounts : a \in Scopes /\ (OwnerAccount[a] # NoAccount => OwnerAccount[a] \in Accounts)
  BY AccountAssumption DEF Scopes
<1>1. ASSUME NEW a \in Accounts, NEW s \in Accounts, NEW h \in Accounts, NEW n \in Sizes,
             NEW bypass \in BOOLEAN, Reserve(a, s, h, n, bypass)
      PROVE  LimitInv'
  <2>1. UNCHANGED <<set, policy, active, noticed>> /\ released' = bypass
        /\ minute' = [minute EXCEPT ![a] = IF PerMinute > 0 /\ ~bypass THEN minute[a] + 1 ELSE minute[a]]
    BY <1>1 DEF Reserve
  <2>2. minute' \in [Accounts -> Nat]
    <3>1. minute \in [Accounts -> Nat] /\ minute[a] \in Nat
      BY <1>0 DEF SendLimitsTypeOK
    <3> QED
      BY <2>1, <3>1
  <2>3. /\ Added(n) \in [Dims -> Nat]
        /\ \A l \in Scopes, d \in Dims :
             used'[l][d] = IF l \in Charged(a, s, h) THEN used[l][d] + Added(n)[d] ELSE used[l][d]
        /\ used' \in [Scopes -> Limits]
        /\ \A l \in (Charged(a, s, h) \ Accounts), d \in Dims :
             Ceilings[l][d] > 0 => used[l][d] + Added(n)[d] <= Ceilings[l][d]
    BY <1>0, <1>1, ReserveCharges
  <2>4. released' \in BOOLEAN
    BY <2>1
  <2>5. SendLimitsTypeOK'
    BY <1>0, <2>1, <2>2, <2>3, <2>4 DEF SendLimitsTypeOK
  <2>6. ASSUME NEW l \in MailDomains \union {Server}, NEW d \in Dims, Ceilings[l][d] > 0
        PROVE  used'[l][d] <= Ceilings[l][d]
    BY <1>0, <1>a, <2>3, <2>6 DEF CeilingsHold
  <2>7. ASSUME NEW c \in Accounts, NEW d \in Dims
        PROVE  /\ OwnerAccount[c] # NoAccount => used'[c][d] <= used'[OwnerAccount[c]][d]
               /\ used'[c][d] <= used'[Server][d]
    <3>1. /\ OwnerAccount[c] # NoAccount => used[c][d] <= used[OwnerAccount[c]][d]
          /\ used[c][d] <= used[Server][d]
      BY <1>0 DEF CeilingsHold
    <3>2. /\ c \in Charged(a, s, h) /\ OwnerAccount[c] # NoAccount => OwnerAccount[c] \in Charged(a, s, h)
          /\ Server \in Charged(a, s, h)
      BY OwnersAreCharged
    <3>3. used[c][d] \in Nat /\ used[Server][d] \in Nat /\ Added(n)[d] \in Nat
          /\ (OwnerAccount[c] # NoAccount => used[OwnerAccount[c]][d] \in Nat /\ OwnerAccount[c] \in Scopes)
          /\ c \in Scopes /\ Server \in Scopes
      BY <1>0, <1>a, <2>3
    <3>4. used'[c][d] <= used'[Server][d]
      BY <2>3, <3>1, <3>2, <3>3
    <3>5. ASSUME OwnerAccount[c] # NoAccount PROVE used'[c][d] <= used'[OwnerAccount[c]][d]
      BY <2>3, <3>1, <3>2, <3>3, <3>5
    <3> QED
      BY <3>4, <3>5
  <2> QED
    BY <2>5, <2>6, <2>7 DEF LimitInv, CeilingsHold
<1>2. ASSUME used' = used, SendLimitsTypeOK' PROVE LimitInv'
  BY <1>0, <1>2 DEF LimitInv, CeilingsHold
<1>3. ASSUME NEW a \in Accounts, NEW s \in Accounts, NEW h \in Accounts, NEW n \in Sizes,
             NEW bypass \in BOOLEAN, NEW forced \in BOOLEAN, Hit(a, s, h, n, bypass, forced)
      PROVE  LimitInv'
  <2>1. \A l \in Scopes : NotifiedOf(l, a) \in Accounts
    BY AccountAssumption DEF NotifiedOf, OwnerOf
  <2>2. OwnerOf(a) \in Accounts
    BY AccountAssumption DEF OwnerOf
  <2>3. \A l \in Full(a, s, h, n, bypass) : l \in Scopes
    BY ChainIs, AccountAssumption DEF Full, AccountLayers, CeilingLayers, Scopes
  <2>4. /\ \/ \E l \in Full(a, s, h, n, bypass) : noticed' = noticed \union {NotifiedOf(l, a)}
           \/ noticed' = noticed \union {OwnerOf(a)}
        /\ UNCHANGED <<set, policy, active, used, minute, released>>
    BY <1>3 DEF Hit
  <2>5. noticed \in SUBSET (Accounts \union {NoAccount})
    BY <1>0 DEF SendLimitsTypeOK
  <2>6. noticed' \in SUBSET (Accounts \union {NoAccount})
    BY <2>1, <2>2, <2>3, <2>4, <2>5
  <2>7. SendLimitsTypeOK'
    BY <1>0, <2>4, <2>6 DEF SendLimitsTypeOK
  <2> QED
    BY <1>2, <2>4, <2>7
<1>4. ASSUME NEW a \in Accounts, NEW v \in LimitValues, SetAccount(a, v) PROVE LimitInv'
  <2>1. set' = set \union {a} /\ policy' = [policy EXCEPT ![a] = v]
        /\ UNCHANGED <<active, used, minute, noticed, released>> /\ v \in Limits
    BY <1>4, SendLimitAssumption DEF SetAccount
  <2>2. SendLimitsTypeOK'
    BY <1>0, <2>1 DEF SendLimitsTypeOK
  <2> QED
    BY <1>2, <2>1, <2>2
<1>5. ASSUME NEW a \in Accounts, NEW on \in BOOLEAN, SetActive(a, on) PROVE LimitInv'
  <2>1. active' = [active EXCEPT ![a] = on] /\ UNCHANGED <<set, policy, used, minute, noticed, released>>
    BY <1>5 DEF SetActive
  <2>2. active' \in [Accounts -> BOOLEAN]
    BY <1>0, <2>1 DEF SendLimitsTypeOK
  <2>3. SendLimitsTypeOK'
    BY <1>0, <2>1, <2>2 DEF SendLimitsTypeOK
  <2> QED
    BY <1>2, <2>1, <2>3
<1>6. CASE NextMinute
  <2>1. minute' \in [Accounts -> Nat] /\ UNCHANGED <<set, policy, active, used, noticed, released>>
    BY <1>6 DEF NextMinute
  <2>2. SendLimitsTypeOK'
    BY <1>0, <2>1 DEF SendLimitsTypeOK
  <2> QED
    BY <1>2, <2>1, <2>2
<1>7. ASSUME NEW D, D \subseteq Dims, used' = [l \in Scopes |-> [d \in Dims |-> IF d \in D THEN 0 ELSE used[l][d]]],
             minute' = [a \in Accounts |-> 0], noticed' = {}, UNCHANGED <<set, policy, active, released>>
      PROVE  LimitInv'
  <2>1. \A l \in Scopes, d \in Dims : used'[l][d] = IF d \in D THEN 0 ELSE used[l][d]
    BY <1>7
  <2>2. used' \in [Scopes -> Limits]
    BY <1>0, <1>7 DEF Limits
  <2>3. SendLimitsTypeOK'
    BY <1>0, <1>7, <2>2 DEF SendLimitsTypeOK
  <2>4. ASSUME NEW l \in MailDomains \union {Server}, NEW d \in Dims, Ceilings[l][d] > 0
        PROVE  used'[l][d] <= Ceilings[l][d]
    BY <1>0, <1>a, <2>1, <2>4 DEF CeilingsHold
  <2>5. ASSUME NEW c \in Accounts, NEW d \in Dims
        PROVE  /\ OwnerAccount[c] # NoAccount => used'[c][d] <= used'[OwnerAccount[c]][d]
               /\ used'[c][d] <= used'[Server][d]
    BY <1>0, <1>a, <2>1 DEF CeilingsHold
  <2> QED
    BY <2>3, <2>4, <2>5 DEF LimitInv, CeilingsHold
<1>8. CASE NextHour
  <2>1. Hourly \subseteq Dims
    BY DEF Hourly, Dims
  <2> QED
    BY <1>7, <1>8, <2>1 DEF NextHour
<1>9. CASE NextDay
  <2>1. used' = [l \in Scopes |-> [d \in Dims |-> IF d \in Dims THEN 0 ELSE used[l][d]]]
    BY <1>9 DEF NextDay, NothingUsed
  <2> QED
    BY <1>7, <1>9, <2>1 DEF NextDay
<1>10. CASE UNCHANGED limitVars
  <2>1. UNCHANGED <<set, policy, active, used, minute, noticed, released>>
    BY <1>10 DEF limitVars
  <2>2. SendLimitsTypeOK'
    BY <1>0, <2>1 DEF SendLimitsTypeOK
  <2> QED
    BY <1>2, <2>1, <2>2
<1> QED
  BY <1>1, <1>3, <1>4, <1>5, <1>6, <1>8, <1>9, <1>10 DEF SendLimitsNext, Submit

\* No policy change and no message breaks the facts about limits and use.
LEMMA LimitsSafe == SendLimitsSpec => []LimitInv
<1>1. SendLimitsInit => LimitInv
  <2> SUFFICES ASSUME SendLimitsInit PROVE LimitInv
    OBVIOUS
  <2>1. SendLimitsTypeOK
    BY SendLimitAssumption DEF SendLimitsInit, SendLimitsTypeOK, Limits, NothingUsed
  <2>2. /\ \A l \in Scopes, d \in Dims : used[l][d] = 0
        /\ \A a \in Accounts : a \in Scopes /\ (OwnerAccount[a] # NoAccount => OwnerAccount[a] \in Scopes)
        /\ \A l \in MailDomains \union {Server} : l \in Scopes
    BY AccountAssumption DEF SendLimitsInit, NothingUsed, Scopes
  <2>3. \A l \in MailDomains \union {Server}, d \in Dims : Ceilings[l][d] \in Nat
    BY SendLimitAssumption DEF Limits
  <2>4. CeilingsHold
    BY <2>2, <2>3 DEF CeilingsHold
  <2> QED
    BY <2>1, <2>4 DEF LimitInv
<1>2. LimitInv /\ [SendLimitsNext]_limitVars => LimitInv'
  BY LimitStep
<1> QED
  BY <1>1, <1>2, PTL DEF SendLimitsSpec

\* No domain and not the server sends more than its ceiling, and owned accounts cannot
\* add to a budget, for any forest of accounts and any number of domains.
THEOREM CeilingsAlwaysHold == SendLimitsSpec => []CeilingsHold
<1>1. LimitInv => CeilingsHold
  BY DEF LimitInv
<1> QED
  BY <1>1, LimitsSafe, PTL

\* The limit in force is the tightest on the chain, and unless a person releases it no
\* submission takes an account over it.
THEOREM LimitsAlwaysHold == SendLimitsSpec => LimitsHold
<1> DEFINE Kept == /\ \A a \in Accounts, d \in Dims : Effective[a][d] = Tightest(a, d)
                   /\ \A a \in Accounts :
                        used'[a] # used[a] /\ ~released' =>
                          \A d \in Dims : \/ used'[a][d] <= used[a][d]
                                          \/ Tightest(a, d) = 0
                                          \/ used'[a][d] <= Tightest(a, d)
<1>1. LimitInv /\ [SendLimitsNext]_limitVars => [Kept]_limitVars
  <2> SUFFICES ASSUME LimitInv, SendLimitsNext PROVE Kept
    BY DEF limitVars
  <2>0. /\ SendLimitsTypeOK /\ \A a \in Accounts, d \in Dims : Effective[a][d] = Tightest(a, d)
        /\ \A a \in Accounts, d \in Dims : used[a][d] \in Nat /\ Effective[a][d] \in Nat
        /\ used \in [Scopes -> Limits] /\ \A a \in Accounts : a \in Scopes
    BY EffectiveIsTightest, EffectiveIsLimit DEF LimitInv, SendLimitsTypeOK, Limits,
       Scopes
  <2>1. ASSUME NEW c \in Accounts, used'[c] # used[c], ~released', NEW d \in Dims
        PROVE  used'[c][d] <= used[c][d] \/ Tightest(c, d) = 0 \/ used'[c][d] <= Tightest(c, d)
    <3>1. ASSUME NEW a \in Accounts, NEW s \in Accounts, NEW h \in Accounts, NEW n \in Sizes,
                 NEW bypass \in BOOLEAN, Reserve(a, s, h, n, bypass)
          PROVE  used'[c][d] <= used[c][d] \/ Tightest(c, d) = 0 \/ used'[c][d] <= Tightest(c, d)
      <4>1. /\ used'[c][d] = IF c \in Charged(a, s, h) THEN used[c][d] + Added(n)[d] ELSE used[c][d]
            /\ c \in Charged(a, s, h) /\ ~bypass /\ Effective[c][d] > 0 =>
                 used[c][d] + Added(n)[d] <= Effective[c][d]
        BY <2>0, <3>1, ReserveCharges
      <4>2. ~bypass
        BY <2>1, <3>1 DEF Reserve
      <4>3. Effective[c][d] = Tightest(c, d) /\ Effective[c][d] \in Nat /\ used[c][d] \in Nat
        BY <2>0
      <4> QED
        BY <4>1, <4>2, <4>3
    <3>2. CASE NextHour \/ NextDay
      <4>1. used'[c][d] = 0 \/ used'[c][d] = used[c][d]
        BY <2>0, <3>2 DEF NextHour, NextDay, NothingUsed
      <4>2. used[c][d] \in Nat
        BY <2>0
      <4> QED
        BY <4>1, <4>2
    <3>3. CASE used' = used
      BY <2>1, <3>3
    <3>4. CASE NextMinute
      BY <3>3, <3>4 DEF NextMinute
    <3>5. ASSUME NEW a \in Accounts, \/ \E v \in LimitValues : SetAccount(a, v)
                                     \/ \E on \in BOOLEAN : SetActive(a, on)
          PROVE  used' = used
      BY <3>5 DEF SetAccount, SetActive
    <3>6. ASSUME NEW a \in Accounts, NEW s \in Accounts, NEW h \in Accounts, NEW n \in Sizes,
                 NEW bypass \in BOOLEAN, NEW forced \in BOOLEAN, Hit(a, s, h, n, bypass, forced)
          PROVE  used' = used
      BY <3>6 DEF Hit
    <3> QED
      BY <3>1, <3>2, <3>3, <3>4, <3>5, <3>6 DEF SendLimitsNext, Submit
  <2> QED
    BY <2>0, <2>1
<1> QED
  BY <1>1, LimitsSafe, PTL DEF SendLimitsSpec, LimitsHold

-----------------------------------------------------------------------------
(* Retries *)

\* delay's loop, with the values it doubles.
DelayLoop(s, d) ==
  d = [i \in Nat |-> IF i <= 1 THEN s.first
                     ELSE IF d[i - 1] < s.max THEN 2 * d[i - 1] ELSE d[i - 1]]
LoopOf(s) == CHOOSE d : DelayLoop(s, d)

\* delay is the value of that loop, cut at the cap.
LEMMA DelayIs ==
  ASSUME NEW s, NEW n
  PROVE  delay(s, n) = IF LoopOf(s)[n] < s.max THEN LoopOf(s)[n] ELSE s.max
  BY DEF delay, LoopOf, DelayLoop

\* The loop has a value for every n, a natural number, that starts with the
\* first wait and doubles below the cap.
LEMMA DelayLoops ==
  ASSUME NEW s, s.first \in Nat, s.max \in Nat
  PROVE  \A i \in Nat :
            /\ LoopOf(s)[i] \in Nat
            /\ LoopOf(s)[i] = IF i <= 1 THEN s.first
                              ELSE IF LoopOf(s)[i - 1] < s.max
                                   THEN 2 * LoopOf(s)[i - 1] ELSE LoopOf(s)[i - 1]
<1> DEFINE max == s.max
           first == s.first
           t == [x \in Nat |-> IF x < max THEN 2 * x ELSE x]
<1>0. max \in Nat
  OBVIOUS
<1>1. t \in [Nat -> Nat] /\ first \in Nat
  OBVIOUS
<1>2. \A x \in Nat : t[x] = IF x < max THEN 2 * x ELSE x
  OBVIOUS
<1> HIDE DEF t, first, max
<1>3. PICK d \in [Nat -> Nat] : \A i \in Nat : d[i] = IF i <= 1 THEN first ELSE t[d[i - 1]]
  <2>1. PICK d : Iteration(d, Nat, first, t)
    BY <1>1, IterationExists
  <2>2. \A m \in Nat : Iterates(d, Nat, first, t, m)
    BY <2>1 DEF Iteration
  <2>3. \A i \in Nat : i <= i
    OBVIOUS
  <2> QED
    BY <2>2, <2>3 DEF Iterates
<1>6. ASSUME NEW i \in Nat
      PROVE  d[i] = IF i <= 1 THEN first ELSE IF d[i - 1] < max THEN 2 * d[i - 1] ELSE d[i - 1]
  <2>1. CASE i <= 1
    BY <1>3, <2>1
  <2>2. CASE i > 1
    <3>1. i - 1 \in Nat /\ d[i - 1] \in Nat
      BY <1>3, <2>2
    <3> QED
      BY <1>2, <1>3, <2>2, <3>1
  <2> QED
    BY <2>1, <2>2
<1>7. DelayLoop(s, d)
  <2>1. d = [i \in Nat |-> d[i]]
    BY <1>3
  <2> QED
    BY <1>6, <2>1 DEF DelayLoop, first, max
<1>8. DelayLoop(s, LoopOf(s))
  BY <1>7 DEF LoopOf
<1> DEFINE e == LoopOf(s)
<1>9. \A i \in Nat : e[i] = IF i <= 1 THEN first ELSE IF e[i - 1] < max THEN 2 * e[i - 1] ELSE e[i - 1]
  BY <1>8 DEF DelayLoop, first, max
<1> HIDE DEF e
<1>10. \A i \in Nat : e[i] \in Nat
  <2> DEFINE T == {i \in Nat : e[i] \in Nat}
  <2>1. 0 \in T
    BY <1>1, <1>9
  <2>2. ASSUME NEW i \in Nat, i \in T PROVE i + 1 \in T
    <3>1. e[i] \in Nat /\ i + 1 \in Nat /\ (i + 1) - 1 = i
      BY <2>2
    <3>2. e[i + 1] = IF i + 1 <= 1 THEN first ELSE IF e[i] < max THEN 2 * e[i] ELSE e[i]
      BY <1>9, <3>1
    <3> QED
      BY <1>0, <1>1, <3>1, <3>2
  <2>3. \A i \in Nat : i \in T
    <3> HIDE DEF T
    <3> QED
      BY <2>1, <2>2, AllNaturals
  <2> QED
    BY <2>3
<1> QED
  BY <1>9, <1>10 DEF e, first, max

\* A schedule of the queue: the first wait is five minutes or more, and the waits
\* are capped at four hours or at eight.
Scheduled(s) ==
  /\ s.first \in Nat /\ s.first >= 5
  /\ s.max \in {240, 480}
  /\ s.first <= s.max
  /\ s.maxAge = 7200

\* The schedules of the queue are such, whatever the failure.
LEMMA SchedulesAre ==
  ASSUME NEW c \in TransientCategories
  PROVE  Scheduled(scheduleFor(retrySchedules, c))
  BY DEF scheduleFor, retrySchedules, Scheduled, TransientCategories, QueueLifetime

\* The wait is between a minute and the cap, and from the seventh on it is four
\* hours or more.
LEMMA DelayBounds ==
  ASSUME NEW s, Scheduled(s), NEW n \in Nat \ {0}
  PROVE  /\ delay(s, n) \in 1 .. s.max
         /\ n >= 7 => delay(s, n) >= 240
<1> DEFINE d == LoopOf(s)
           max == s.max
           first == s.first
<1>1. first \in Nat /\ first >= 5 /\ first <= max /\ max \in Nat /\ max >= 240
  BY DEF Scheduled
<1>2. \A i \in Nat :
        /\ d[i] \in Nat
        /\ d[i] = IF i <= 1 THEN first ELSE IF d[i - 1] < max THEN 2 * d[i - 1] ELSE d[i - 1]
  BY <1>1, DelayLoops
<1>3. delay(s, n) = IF d[n] < max THEN d[n] ELSE max
  BY DelayIs
<1> HIDE DEF d, max, first
<1>4. ASSUME NEW i \in Nat \ {0}
      PROVE  d[i + 1] >= d[i] /\ (d[i] < 240 => d[i + 1] = 2 * d[i])
  <2>1. i + 1 \in Nat /\ ~(i + 1 <= 1) /\ (i + 1) - 1 = i /\ i \in Nat
    OBVIOUS
  <2>2. d[i] \in Nat /\ d[i + 1] = IF d[i] < max THEN 2 * d[i] ELSE d[i]
    BY <1>2, <2>1
  <2> QED
    BY <1>1, <2>2
<1>5. d[1] = first /\ (\A i \in Nat : d[i] \in Nat)
  BY <1>2
<1>6. /\ d[2] >= 10 /\ d[3] >= 20 /\ d[4] >= 40
      /\ d[5] >= 80 /\ d[6] >= 160 /\ d[7] >= 240
  <2>1. d[1] >= 5 /\ d[1] \in Nat /\ d[2] \in Nat /\ d[3] \in Nat /\ d[4] \in Nat
        /\ d[5] \in Nat /\ d[6] \in Nat /\ d[7] \in Nat
    BY <1>1, <1>5
  <2>2. d[2] >= d[1] /\ (d[1] < 240 => d[2] = 2 * d[1])
    BY <1>4, 1 + 1 = 2
  <2>3. d[3] >= d[2] /\ (d[2] < 240 => d[3] = 2 * d[2])
    BY <1>4, 2 + 1 = 3
  <2>4. d[4] >= d[3] /\ (d[3] < 240 => d[4] = 2 * d[3])
    BY <1>4, 3 + 1 = 4
  <2>5. d[5] >= d[4] /\ (d[4] < 240 => d[5] = 2 * d[4])
    BY <1>4, 4 + 1 = 5
  <2>6. d[6] >= d[5] /\ (d[5] < 240 => d[6] = 2 * d[5])
    BY <1>4, 5 + 1 = 6
  <2>7. d[7] >= d[6] /\ (d[6] < 240 => d[7] = 2 * d[6])
    BY <1>4, 6 + 1 = 7
  <2> QED
    BY <2>1, <2>2, <2>3, <2>4, <2>5, <2>6, <2>7
<1>7. \A i \in Nat : i >= 1 => d[i] >= 5 /\ (i >= 7 => d[i] >= 240)
  <2> DEFINE T == {i \in Nat : i >= 1 => d[i] >= 5 /\ (i >= 7 => d[i] >= 240)}
  <2>1. 0 \in T
    OBVIOUS
  <2>2. ASSUME NEW i \in Nat, i \in T PROVE i + 1 \in T
    <3>1. CASE i = 0
      BY <1>1, <1>5, <3>1
    <3>2. CASE i # 0
      <4>1. d[i] \in Nat /\ d[i + 1] \in Nat /\ d[i + 1] >= d[i] /\ d[i] >= 5
        BY <1>4, <1>5, <2>2, <3>2
      <4>2. CASE i + 1 = 7
        BY <1>6, <4>1, <4>2
      <4>3. CASE i + 1 # 7
        BY <2>2, <4>1, <4>3
      <4> QED
        BY <4>2, <4>3
    <3> QED
      BY <3>1, <3>2
  <2>3. \A i \in Nat : i \in T
    <3> HIDE DEF T
    <3> QED
      BY <2>1, <2>2, AllNaturals
  <2> QED
    BY <2>3
<1>8. d[n] \in Nat /\ d[n] >= 5 /\ (n >= 7 => d[n] >= 240)
  BY <1>5, <1>7
<1> QED
  BY <1>1, <1>3, <1>8 DEF max

\* Every jittered wait is between a minute and the cap, and 192 minutes or more
\* from the seventh on.  The shortest and the longest are among them.
LEMMA WaitBounds ==
  ASSUME NEW s, Scheduled(s), NEW n \in Nat \ {0}
  PROVE  /\ \A w \in jitteredDelays(s, n) :
              w \in Nat /\ 1 <= w /\ w <= s.max /\ (n >= 7 => w >= 192)
         /\ Min(jitteredDelays(s, n)) \in jitteredDelays(s, n)
         /\ Max(jitteredDelays(s, n)) \in jitteredDelays(s, n)
<1> DEFINE J == jitteredDelays(s, n)
           d == delay(s, n)
           max == s.max
<1>1. d \in 1 .. max /\ (n >= 7 => d >= 240)
  BY DelayBounds
<1>2. J = {j \in 1 .. max : 8 * d <= 10 * j /\ 10 * j < 12 * d}
  BY DEF jitteredDelays
<1>3. max \in Nat
  BY DEF Scheduled
<1> HIDE DEF J, d, max
<1>4. d \in J
  BY <1>1, <1>2, <1>3
<1>5. J \subseteq 1 .. max
  BY <1>2
<1>6. \A w \in J : w \in Nat /\ 1 <= w /\ w <= max /\ (n >= 7 => w >= 192)
  BY <1>1, <1>2, <1>3
<1>7. \E x \in J : \A y \in J : x <= y
  <2>1. J \subseteq Nat /\ J # {}
    BY <1>4, <1>6
  <2> QED
    BY <2>1, LeastNat
<1>8. \E x \in J : \A y \in J : x >= y
  <2>1. J # {}
    BY <1>4
  <2> QED
    BY <1>3, <1>5, <2>1, GreatestNat
<1>9. Min(J) \in J
  BY <1>7 DEF Min
<1>10. Max(J) \in J
  BY <1>8 DEF Max
<1> QED
  BY <1>6, <1>9, <1>10 DEF J, max

\* The longest wait any category allows.
LEMMA LongestWait ==
  Max({retrySchedules[c].max : c \in TransientCategories}) = 480
<1> DEFINE M == {retrySchedules[c].max : c \in TransientCategories}
<1>1. \A c \in TransientCategories : retrySchedules[c].max \in {240, 480}
  BY DEF retrySchedules, TransientCategories
<1>2. "mailbox_full" \in TransientCategories /\ retrySchedules["mailbox_full"].max = 480
  BY DEF retrySchedules, TransientCategories
<1>3. M \subseteq {240, 480} /\ 480 \in M
  BY <1>1, <1>2
<1> HIDE DEF M
<1>4. \A x \in M : (\A y \in M : x >= y) <=> x = 480
  BY <1>3
<1>5. Max(M) = 480
  <2>1. Max(M) = CHOOSE x \in M : \A y \in M : x >= y
    BY DEF Max
  <2>2. \E x \in M : \A y \in M : x >= y
    BY <1>3, <1>4
  <2>3. Max(M) \in M /\ \A y \in M : Max(M) >= y
    BY <2>1, <2>2
  <2> QED
    BY <1>4, <2>3
<1> QED
  BY <1>5 DEF M

\* A message waits 192 minutes or more from its seventh attempt on, so that its
\* age tells how often it can have been tried.
RetryInv ==
  /\ age \in Nat
  /\ attempts \in Nat
  /\ status \in {"deferred", "bounced"}
  /\ age < 7200
  /\ attempts >= 6 /\ status = "deferred" => age >= 192 * (attempts - 6)
  /\ status = "bounced" => attempts < 60 /\ age >= 6720

\* Each failed attempt keeps it, however the wait was jittered.
LEMMA StepRetryInv ==
  ASSUME RetryInv, NEW c \in TransientCategories, NEW wait,
         wait \in jitteredDelays(scheduleFor(retrySchedules, c), attempts + 1),
         FailAgain(c, wait)
  PROVE  RetryInv'
<1> DEFINE s == scheduleFor(retrySchedules, c)
           n == attempts + 1
<1>1. Scheduled(s)
  BY SchedulesAre
<1>2. age \in Nat /\ attempts \in Nat /\ status = "deferred" /\ n \in Nat \ {0}
  BY DEF RetryInv, FailAgain
<1>3. wait \in Nat /\ 1 <= wait /\ wait <= s.max /\ (n >= 7 => wait >= 192)
  BY <1>1, <1>2, WaitBounds
<1>4. s.max \in {240, 480} /\ s.maxAge = 7200
  BY <1>1 DEF Scheduled
<1>5. attempts' = n
  BY DEF FailAgain
<1> DEFINE may == mayRetryAt(s, n, 60, age + wait, 0, 7200)
<1>6. /\ may => age' = age + wait /\ status' = status
      /\ ~may => status' = "bounced" /\ age' = age
  BY <1>5 DEF FailAgain, DefaultMaxRetries, QueueLifetime
<1>7. may <=> n < 60 /\ age + wait < 7200
  BY <1>4 DEF mayRetryAt, deadline
<1> HIDE DEF may, s
<1>8. age < 7200 /\ (attempts >= 6 => age >= 192 * (attempts - 6))
  BY <1>2 DEF RetryInv
<1>9. n < 60
  BY <1>2, <1>8
<1>10. CASE may
  BY <1>2, <1>3, <1>5, <1>6, <1>7, <1>8, <1>10 DEF RetryInv
<1>11. CASE ~may
  BY <1>2, <1>3, <1>4, <1>5, <1>6, <1>7, <1>8, <1>9, <1>11 DEF RetryInv
<1> QED
  BY <1>10, <1>11

\* A message that was given up was retried to its deadline.
LEMMA RetryInvSuffices == RetryInv => RetriedToTheEnd
  BY LongestWait DEF RetryInv, RetriedToTheEnd, DeadlineEndsRetrying,
     RetriedForFiveDays,
     DefaultMaxRetries, QueueLifetime

\* The next attempt fails, after any wait its jitter allows and not only after
\* the shortest or the longest.
RetryAnyNext ==
  \E c \in TransientCategories :
    \E wait \in jitteredDelays(scheduleFor(retrySchedules, c), attempts + 1) :
      FailAgain(c, wait)

RetryAnySpec == RetryInit /\ [][RetryAnyNext]_retryVars

\* A message that keeps failing, for any reasons and with any jitter, is retried
\* until its five days are over and is never given up for its number of attempts
\* (retrySchedules, DefaultMaxRetries).
THEOREM RetriedWhateverTheJitter == RetryAnySpec => []RetriedToTheEnd
<1>1. RetryInit => RetryInv
  BY DEF RetryInit, RetryInv
<1>2. RetryInv /\ [RetryAnyNext]_retryVars => RetryInv'
  <2> SUFFICES ASSUME RetryInv, [RetryAnyNext]_retryVars PROVE RetryInv'
    OBVIOUS
  <2>1. CASE RetryAnyNext
    BY <2>1, StepRetryInv DEF RetryAnyNext
  <2>2. CASE UNCHANGED retryVars
    BY <2>2 DEF RetryInv, retryVars
  <2> QED
    BY <2>1, <2>2
<1> QED
  BY <1>1, <1>2, RetryInvSuffices, PTL DEF RetryAnySpec

\* The shortest and the longest wait are such waits, so what the model checks of
\* those two follows.
THEOREM RetriedToTheDeadline == RetrySpec => []RetriedToTheEnd
<1>1. RetryInit => RetryInv
  BY DEF RetryInit, RetryInv
<1>2. RetryInv /\ [RetryNext]_retryVars => RetryInv'
  <2> SUFFICES ASSUME RetryInv, [RetryNext]_retryVars PROVE RetryInv'
    OBVIOUS
  <2>1. ASSUME NEW c \in TransientCategories, NEW wait \in Waits[c][attempts + 1],
               FailAgain(c, wait)
        PROVE  RetryInv'
    <3> DEFINE s == scheduleFor(retrySchedules, c)
               J == jitteredDelays(s, attempts + 1)
    <3>1. attempts + 1 \in 1 .. 60 /\ attempts + 1 \in Nat \ {0}
      BY <2>1 DEF RetryInv, FailAgain
    <3>2. Waits[c][attempts + 1] = {Min(J), Max(J)}
      BY <3>1 DEF Waits, DefaultMaxRetries
    <3>3. Scheduled(s)
      BY SchedulesAre
    <3>4. Min(J) \in J /\ Max(J) \in J
      BY <3>1, <3>3, WaitBounds
    <3>5. wait \in J
      BY <2>1, <3>2, <3>4
    <3> QED
      BY <2>1, <3>5, StepRetryInv
  <2>2. CASE UNCHANGED retryVars
    BY <2>2 DEF RetryInv, retryVars
  <2> QED
    BY <2>1, <2>2 DEF RetryNext
<1> QED
  BY <1>1, <1>2, RetryInvSuffices, PTL DEF RetrySpec
=============================================================================
