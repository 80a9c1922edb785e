------------------------------ MODULE SharedProofs ------------------------------
(***************************************************************************)
(* Theorems about what the requests to the server share, which MCShared    *)
(* puts side by side: the rate limiter of a domain, the HTTP rate limiter, *)
(* the response cache and the DNS cache, for any number of callers,        *)
(* addresses, URLs and hosts, and, through the theorems of                 *)
(* ParserSlotsProofs, EgressProxyProofs and RedditQueueProofs, of the      *)
(* parser slots, the browser's proxy and the Reddit queue.                 *)
(***************************************************************************)
EXTENDS MCShared, Dictionaries, FiniteSetTheorems, WellFoundedInduction,
        NaturalsInduction, TLAPS


---------------------------------------------------------------------------
(* The rate limiter of a domain implements the gate it promises *)

\* While a caller sleeps nobody else passes, so the spacing target it drew
\* stays far enough from the last pass.
SpacingStays ==
    sleeper # NoCaller /\ lastTime > 0 => spacing >= lastTime + MinInterval + Extra[sleeper]

Inv == TypeOK /\ SpacingStays /\ now > 0

LEMMA InitOK == Init => Inv
BY LimiterAssumption DEF Init, Inv, TypeOK, SpacingStays

\* A drawn target is a time, and far enough from the last pass.
LEMMA SpacingFar ==
    ASSUME TypeOK, NEW r \in Callers, NEW j \in Jitter
    PROVE  /\ Spacing(Extra[r], j) \in Nat
           /\ lastTime > 0 => Spacing(Extra[r], j) >= lastTime + MinInterval + Extra[r]
BY LimiterAssumption DEF TypeOK, Spacing

\* A turn of a caller that nobody overtakes keeps the invariant.
LEMMA TurnOK ==
    ASSUME Inv, NEW r \in Callers, NEW s \in Nat, sleeper \in {r, NoCaller}, Turn(r, s),
           lastTime > 0 => s >= lastTime + MinInterval + Extra[r],
           UNCHANGED <<now, backoffUntil, ticket, issued>>
    PROVE  Inv'
<1>. DEFINE target == Later(s, backoffUntil)
<1>1. target \in Nat /\ now \in Nat
    BY DEF Inv, TypeOK, Later
<1>2. CASE target <= now
    <2>1. /\ pc' = [pc EXCEPT ![r] = "passed"] /\ lastTime' = now /\ sleeper' = NoCaller
          /\ UNCHANGED <<spacing, wakeAt>>
        BY <1>2 DEF Turn
    <2>. HIDE DEF target
    <2>. QED  BY <2>1, LimiterAssumption DEF Inv, TypeOK, SpacingStays
<1>3. CASE ~(target <= now)
    <2>1. /\ pc' = [pc EXCEPT ![r] = "sleeping"] /\ sleeper' = r
          /\ spacing' = s /\ wakeAt' = target /\ UNCHANGED lastTime
        BY <1>3 DEF Turn
    <2>. HIDE DEF target
    <2>. QED  BY <1>1, <2>1, LimiterAssumption DEF Inv, TypeOK, SpacingStays
<1>. QED  BY <1>2, <1>3

\* A turn passes the gate or leaves it alone.
LEMMA TurnSimulates ==
    ASSUME Inv, NEW r \in Callers, NEW s \in Nat, pc[r] # "passed", Turn(r, s),
           lastTime > 0 => s >= lastTime + MinInterval + Extra[r],
           UNCHANGED <<now, backoffUntil, ticket, issued>>
    PROVE  [Gate!Next]_(Gate!vars)
<1>1. CASE Later(s, backoffUntil) <= now
    <2>1. lastTime' = now /\ pc' = [pc EXCEPT ![r] = "passed"]
        BY <1>1 DEF Turn
    <2>2. Passed' = Passed \cup {r} /\ r \notin Passed
        BY <2>1 DEF Passed, Inv, TypeOK
    <2>3. now >= backoffUntil /\ now >= s
        BY <1>1 DEF Later, Inv, TypeOK
    <2>4. lastTime > 0 => now >= lastTime + MinInterval + Extra[r]
        BY <2>3, LimiterAssumption DEF Inv, TypeOK
    <2>5. Gate!Pass(r)
        BY <2>1, <2>2, <2>3, <2>4 DEF Gate!Pass
    <2>. QED  BY <2>5 DEF Gate!Next
<1>2. CASE ~(Later(s, backoffUntil) <= now)
    <2>1. lastTime' = lastTime /\ pc' = [pc EXCEPT ![r] = "sleeping"]
        BY <1>2 DEF Turn
    <2>2. Passed' = Passed
        BY <2>1 DEF Passed, Inv, TypeOK
    <2>. QED  BY <2>1, <2>2 DEF Gate!vars
<1>. QED  BY <1>1, <1>2

\* Each step keeps the invariant and is a step of the gate, or none.
LEMMA StepOK ==
    ASSUME Inv, [Next]_vars
    PROVE  Inv' /\ [Gate!Next]_(Gate!vars)
<1>1. CASE UNCHANGED vars
    BY <1>1 DEF vars, Inv, TypeOK, SpacingStays, Gate!vars, Passed
<1>2. ASSUME NEW r \in Callers, Arrive(r)
      PROVE  Inv' /\ [Gate!Next]_(Gate!vars)
    <2>1. Inv'
        BY <1>2, LimiterAssumption DEF Arrive, Inv, TypeOK, SpacingStays
    <2>2. Passed' = Passed
        BY <1>2 DEF Arrive, Passed, Inv, TypeOK
    <2>. QED  BY <1>2, <2>1, <2>2 DEF Arrive, Gate!vars
<1>3. ASSUME NEW r \in Callers, Enter(r)
      PROVE  Inv' /\ [Gate!Next]_(Gate!vars)
    <2>1. PICK j \in Jitter : Turn(r, Spacing(Extra[r], j))
        BY <1>3 DEF Enter
    <2>2. /\ Spacing(Extra[r], j) \in Nat
          /\ lastTime > 0 => Spacing(Extra[r], j) >= lastTime + MinInterval + Extra[r]
        BY SpacingFar DEF Inv
    <2>3. /\ sleeper \in {r, NoCaller} /\ pc[r] # "passed"
          /\ UNCHANGED <<now, backoffUntil, ticket, issued>>
        BY <1>3 DEF Enter, Waiting
    <2>. QED  BY <2>1, <2>2, <2>3, TurnOK, TurnSimulates
<1>4. ASSUME NEW r \in Callers, Wake(r)
      PROVE  Inv' /\ [Gate!Next]_(Gate!vars)
    <2>1. /\ spacing \in Nat /\ sleeper = r
          /\ lastTime > 0 => spacing >= lastTime + MinInterval + Extra[r]
        BY <1>4, LimiterAssumption DEF Wake, Inv, TypeOK, SpacingStays
    <2>2. pc[r] # "passed" /\ Turn(r, spacing) /\ UNCHANGED <<now, backoffUntil, ticket, issued>>
        BY <1>4 DEF Wake
    <2>. QED  BY <2>1, <2>2, TurnOK, TurnSimulates
<1>5. ASSUME NEW r \in Callers, Cancel(r)
      PROVE  Inv' /\ [Gate!Next]_(Gate!vars)
    <2>1. Inv'
        BY <1>5, LimiterAssumption DEF Cancel, Inv, TypeOK, SpacingStays
    <2>2. Passed' = Passed
        BY <1>5 DEF Cancel, Passed, Inv, TypeOK
    <2>. QED  BY <1>5, <2>1, <2>2 DEF Cancel, Gate!vars
<1>6. ASSUME NEW s \in Delays, Defer(s)
      PROVE  Inv' /\ [Gate!Next]_(Gate!vars)
    <2>1. Later(backoffUntil, now + s) \in Nat
        BY LimiterAssumption DEF Later, Inv, TypeOK
    <2>2. Inv'
        BY <1>6, <2>1 DEF Defer, Inv, TypeOK, SpacingStays
    <2>3. Gate!Defer(s)
        BY <1>6 DEF Defer, Gate!Defer, Gate!Later, Later, Passed
    <2>. QED  BY <2>2, <2>3 DEF Gate!Next
<1>7. CASE Tick
    <2>1. Inv'
        BY <1>7 DEF Tick, Inv, TypeOK, SpacingStays
    <2>2. Gate!Tick
        BY <1>7 DEF Tick, Gate!Tick, Passed
    <2>. QED  BY <2>1, <2>2 DEF Gate!Next
<1>. QED  BY <1>1, <1>2, <1>3, <1>4, <1>5, <1>6, <1>7 DEF Next

\* The state is well typed and the lock is held exactly by a sleeping caller.
THEOREM TypeCorrect == Spec => []TypeOK
<1>1. Inv => TypeOK
    BY DEF Inv
<1>2. Inv /\ [Next]_vars => Inv'
    BY StepOK
<1>. QED  BY <1>1, <1>2, InitOK, PTL DEF Spec

\* The limiter implements the gate: every pass is spaced from the one before
\* and after the end of every delay asked for so far, also one that was asked
\* for while the caller slept (the recheck in wait()).
THEOREM Implements == Spec => ImplementsGate
<1>1. Init => Gate!Init
    BY DEF Init, Gate!Init, Passed
<1>2. Inv /\ [Next]_vars => Inv'
    BY StepOK
<1>3. Inv /\ [Next]_vars => [Gate!Next]_(Gate!vars)
    BY StepOK
<1>. QED  BY <1>1, <1>2, <1>3, InitOK, PTL DEF Spec, ImplementsGate, Gate!Spec

---------------------------------------------------------------------------
\* A sleeper's target is within the spacing it may draw, and its sleep ends
\* at the later of that target and the delay asked for.
SleepBounded ==
    sleeper # NoCaller =>
        /\ \E j \in Jitter : spacing <= lastTime + MinInterval + Extra[sleeper] + j
        /\ wakeAt <= Later(spacing, backoffUntil)

\* A turn with a target that was drawn from the last pass sleeps no longer
\* than that target or the delay.
LEMMA TurnBounded ==
    ASSUME Inv, NEW r \in Callers, NEW s \in Nat, NEW j \in Jitter, Turn(r, s),
           s <= lastTime + MinInterval + Extra[r] + j,
           UNCHANGED backoffUntil
    PROVE  SleepBounded'
<1>1. CASE Later(s, backoffUntil) <= now
    <2>1. sleeper' = NoCaller
        BY <1>1 DEF Turn
    <2>. QED  BY <2>1 DEF SleepBounded
<1>2. CASE ~(Later(s, backoffUntil) <= now)
    <2>1. sleeper' = r /\ spacing' = s /\ lastTime' = lastTime
          /\ wakeAt' = Later(s, backoffUntil)
        BY <1>2 DEF Turn
    <2>2. Later(s, backoffUntil) \in Nat
        BY DEF Later, Inv, TypeOK
    <2>3. wakeAt' <= Later(spacing', backoffUntil')
        BY <2>1, <2>2 DEF Later
    <2>. QED  BY <2>1, <2>3 DEF SleepBounded
<1>. QED  BY <1>1, <1>2

\* Nothing else lengthens a sleep: delays only grow, and nobody passes.
LEMMA BoundKept ==
    ASSUME Inv, SleepBounded, [Next]_vars
    PROVE  SleepBounded'
<1>1. CASE UNCHANGED vars
    BY <1>1 DEF vars, SleepBounded, Later
<1>2. ASSUME NEW r \in Callers, Arrive(r)  PROVE SleepBounded'
    BY <1>2 DEF Arrive, SleepBounded, Later
<1>3. ASSUME NEW r \in Callers, Enter(r)  PROVE SleepBounded'
    <2>1. PICK j \in Jitter : Turn(r, Spacing(Extra[r], j))
        BY <1>3 DEF Enter
    <2>2. /\ Spacing(Extra[r], j) \in Nat
          /\ Spacing(Extra[r], j) <= lastTime + MinInterval + Extra[r] + j
        BY LimiterAssumption DEF Spacing, Inv, TypeOK
    <2>. QED  BY <1>3, <2>1, <2>2, TurnBounded DEF Enter
<1>4. ASSUME NEW r \in Callers, Wake(r)  PROVE SleepBounded'
    <2>1. sleeper = r /\ Turn(r, spacing) /\ UNCHANGED backoffUntil
        BY <1>4 DEF Wake
    <2>2. PICK j \in Jitter : spacing <= lastTime + MinInterval + Extra[r] + j
        BY <2>1, LimiterAssumption DEF SleepBounded
    <2>. QED  BY <2>1, <2>2, TurnBounded DEF Inv, TypeOK
<1>5. ASSUME NEW r \in Callers, Cancel(r)  PROVE SleepBounded'
    BY <1>5 DEF Cancel, SleepBounded, Later
<1>6. ASSUME NEW s \in Delays, Defer(s)  PROVE SleepBounded'
    <2>1. backoffUntil' \in Nat /\ backoffUntil <= backoffUntil'
        BY <1>6, LimiterAssumption DEF Defer, Later, Inv, TypeOK
    <2>2. Later(spacing, backoffUntil) <= Later(spacing, backoffUntil')
        BY <2>1 DEF Later, Inv, TypeOK
    <2>3. /\ wakeAt \in Nat /\ Later(spacing, backoffUntil) \in Nat
          /\ Later(spacing, backoffUntil') \in Nat
        BY <2>1 DEF Later, Inv, TypeOK
    <2>4. UNCHANGED <<sleeper, spacing, lastTime, wakeAt>>
        BY <1>6 DEF Defer
    <2>5. Later(spacing, backoffUntil)' = Later(spacing, backoffUntil')
        BY <2>4 DEF Later
    <2>. QED  BY <2>2, <2>3, <2>4, <2>5 DEF SleepBounded
<1>7. CASE Tick
    BY <1>7 DEF Tick, SleepBounded, Later
<1>. QED  BY <1>1, <1>2, <1>3, <1>4, <1>5, <1>6, <1>7 DEF Next

\* Nobody sleeps past the spacing it drew from the last pass and the delay
\* asked for, whoever passed, gave up or was cancelled while it waited.
THEOREM SleepIsBounded == Spec => []NeverOversleeps
<1>1. Init => SleepBounded
    BY DEF Init, SleepBounded
<1>2. Inv /\ [Next]_vars => Inv'
    BY StepOK
<1>3. Inv /\ SleepBounded => NeverOversleeps
    <2>. SUFFICES ASSUME Inv, SleepBounded, sleeper # NoCaller
                  PROVE  \E j \in Jitter :
                             wakeAt <= Later(backoffUntil, lastTime + MinInterval + Extra[sleeper] + j)
        BY DEF NeverOversleeps
    <2>1. PICK j \in Jitter : spacing <= lastTime + MinInterval + Extra[sleeper] + j
        BY DEF SleepBounded
    <2>2. sleeper \in Callers
        BY DEF Inv, TypeOK
    <2>3. lastTime + MinInterval + Extra[sleeper] + j \in Nat
        BY <2>2, LimiterAssumption DEF Inv, TypeOK
    <2>4. wakeAt <= Later(spacing, backoffUntil)
        BY DEF SleepBounded
    <2>5. wakeAt <= Later(backoffUntil, lastTime + MinInterval + Extra[sleeper] + j)
        BY <2>1, <2>3, <2>4 DEF Later, Inv, TypeOK
    <2>. QED  BY <2>5
<1>. QED  BY <1>1, <1>2, <1>3, InitOK, BoundKept, PTL DEF Spec

---------------------------------------------------------------------------
(* Ordered dictionaries *)

\* A set of numbers that is not empty has a least one.
LEMMA LeastOf ==
    ASSUME NEW S \in SUBSET Nat, S # {}
    PROVE  \E k \in S : \A m \in S : k <= m
<1>. DEFINE R == OpToRel(<, Nat)
<1>1. IsWellFoundedOn(R, Nat)
    BY NatLessThanWellFounded
<1>2. \A x, y \in Nat : <<y, x>> \in R <=> y < x
    BY DEF OpToRel
<1>. HIDE DEF R
<1>3. PICK k \in S : \A m \in S : ~(<<m, k>> \in R)
    BY <1>1, WFMin
<1>4. ASSUME NEW m \in S PROVE k <= m
    <2>1. ~(m < k)
        BY <1>2, <1>3
    <2>. QED  BY <2>1
<1>. QED  BY <1>3, <1>4

\* The positions of a finite set can be put in ascending order.
Ascends(f) == \A i, j \in DOMAIN f : i < j => f[i] < f[j]

LEMMA AscendingExists ==
    ASSUME NEW K \in SUBSET Nat, IsFiniteSet(K)
    PROVE  \E f \in [1 .. Cardinality(K) -> K] : Ascends(f)
<1>. DEFINE Bad == {n \in Nat : \E T \in SUBSET K :
                        /\ IsFiniteSet(T) /\ Cardinality(T) = n
                        /\ ~ \E f \in [1 .. n -> T] : Ascends(f)}
<1>1. SUFFICES Bad = {}
    <2>1. Cardinality(K) \in Nat
        BY FS_CardinalityType
    <2>. QED
        BY <1>1, <2>1
<1>2. SUFFICES ASSUME Bad # {} PROVE FALSE
    OBVIOUS
<1>3. Bad \in SUBSET Nat
    OBVIOUS
<1>4. PICK n \in Bad : \A m \in Bad : n <= m
    <2>. HIDE DEF Bad
    <2>. QED  BY <1>2, <1>3, LeastOf
<1>5. PICK T \in SUBSET K :
          IsFiniteSet(T) /\ Cardinality(T) = n /\ ~ \E f \in [1 .. n -> T] : Ascends(f)
    BY <1>4
<1>6. n \in Nat
    BY <1>4
<1>7. CASE T = {}
    <2>1. n = 0
        BY <1>5, <1>7, FS_EmptySet
    <2>2. <<>> \in [1 .. 0 -> T] /\ Ascends(<<>>)
        BY DEF Ascends
    <2>. QED  BY <1>5, <2>1, <2>2
<1>8. CASE T # {}
    <2>1. PICK k \in T : \A m \in T : k <= m
        BY <1>8, LeastOf
    <2>2. IsFiniteSet(T \ {k}) /\ Cardinality(T \ {k}) = n - 1
        BY <1>5, <2>1, FS_RemoveElement
    <2>3. n - 1 \in Nat
        BY <2>2, FS_CardinalityType
    <2>4. n - 1 \notin Bad
        <3>1. n - 1 \in Bad => n <= n - 1
            BY <1>4
        <3>. QED
            BY <1>6, <3>1
    <2>5. PICK f \in [1 .. n - 1 -> T \ {k}] : Ascends(f)
        BY <2>2, <2>3, <2>4
    <2>. DEFINE g == [i \in 1 .. n |-> IF i = 1 THEN k ELSE f[i - 1]]
    <2>6. g \in [1 .. n -> T]
        BY <1>6, <2>1, <2>3
    <2>7. ASSUME NEW i \in 1 .. n, NEW j \in 1 .. n, i < j PROVE g[i] < g[j]
        <3>1. g[j] = f[j - 1] /\ j - 1 \in 1 .. n - 1
            BY <1>6, <2>7
        <3>2. g[j] \in T \ {k}
            BY <3>1
        <3>3. CASE i = 1
            <4>1. g[i] = k
                BY <3>3
            <4>2. k <= g[j] /\ k # g[j] /\ k \in Nat /\ g[j] \in Nat
                BY <2>1, <3>2
            <4>. HIDE DEF g
            <4>. QED  BY <4>1, <4>2
        <3>4. CASE i # 1
            <4>1. g[i] = f[i - 1] /\ i - 1 \in 1 .. n - 1 /\ i - 1 < j - 1
                BY <1>6, <2>7, <3>4
            <4>2. f[i - 1] < f[j - 1]
                BY <2>5, <3>1, <4>1 DEF Ascends
            <4>. QED  BY <3>1, <4>1, <4>2
        <3>. QED  BY <3>3, <3>4
    <2>8. Ascends(g)
        BY <2>7 DEF Ascends
    <2>. QED  BY <1>5, <2>6, <2>8
<1>. QED  BY <1>7, <1>8

\* Deletions keep the order: what is kept of s is s at ascending positions.
LEMMA KeptInOrder ==
    ASSUME NEW s, NEW K \in SUBSET Nat, IsFiniteSet(K)
    PROVE  \E f \in [1 .. Cardinality(K) -> K] :
               /\ Ascends(f)
               /\ \A x \in K : \E i \in DOMAIN f : f[i] = x
               /\ Kept(s, K) = [i \in 1 .. Cardinality(K) |-> s[f[i]]]
<1>. DEFINE f == Ascending(K)
<1>1. f \in [1 .. Cardinality(K) -> K] /\ Ascends(f)
    <2>1. \E g \in [1 .. Cardinality(K) -> K] : \A i, j \in DOMAIN g : i < j => g[i] < g[j]
        BY AscendingExists DEF Ascends
    <2>. QED
        BY <2>1 DEF Ascending, Ascends
<1>2. Kept(s, K) = [i \in 1 .. Cardinality(K) |-> s[f[i]]]
    BY <1>1 DEF Kept
<1>. HIDE DEF f
<1>3. Cardinality(K) \in Nat
    BY FS_CardinalityType
<1>4. ASSUME NEW x \in K PROVE \E i \in DOMAIN f : f[i] = x
    <2>1. SUFFICES ASSUME \A i \in DOMAIN f : f[i] # x PROVE FALSE
        OBVIOUS
    <2>2. f \in [1 .. Cardinality(K) -> K \ {x}]
        BY <1>1, <2>1
    <2>3. f \in Injection(1 .. Cardinality(K), K \ {x})
        <3>1. ASSUME NEW i \in 1 .. Cardinality(K), NEW j \in 1 .. Cardinality(K), f[i] = f[j]
              PROVE  i = j
            <4>1. f[i] \in K
                BY <1>1, <3>1
            <4>3. i \in Int /\ j \in Int
                BY <3>1
            <4>4. f[i] \in Nat
                BY <4>1
            <4>2. (i < j => f[i] < f[j]) /\ (j < i => f[j] < f[i])
                BY <1>1, <3>1 DEF Ascends
            <4>. QED  BY <3>1, <4>2, <4>3, <4>4
        <3>. QED  BY <2>2, <3>1 DEF Injection, IsInjective
    <2>4. IsFiniteSet(K \ {x}) /\ Cardinality(K \ {x}) = Cardinality(K) - 1
        BY <1>4, FS_RemoveElement
    <2>5. IsFiniteSet(1 .. Cardinality(K)) /\ Cardinality(1 .. Cardinality(K)) = Cardinality(K)
        BY <1>3, FS_Interval
    <2>6. Cardinality(1 .. Cardinality(K)) <= Cardinality(K \ {x})
        BY <2>3, <2>4, FS_Injection DEF ExistsInjection
    <2>. QED  BY <1>3, <2>4, <2>5, <2>6
<1>. QED  BY <1>1, <1>2, <1>4

\* Membership and order in a sequence without repetition.
In(s, u) == \E i \in 1 .. Len(s) : s[i] = u
Before(s, u, v) == \E i, j \in 1 .. Len(s) : i < j /\ s[i] = u /\ s[j] = v
Once(s) == \A i, j \in 1 .. Len(s) : s[i] = s[j] => i = j

\* What is kept of a sequence is part of it, in the same order.
LEMMA KeptOf ==
    ASSUME NEW S, NEW s \in Seq(S), NEW K \in SUBSET (1 .. Len(s)), NEW t, t = Kept(s, K)
    PROVE  /\ t \in Seq(S) /\ Len(t) <= Len(s)
           /\ Len(t) = Len(s) => K = 1 .. Len(s)
           /\ \E f \in [1 .. Len(t) -> K] :
                  /\ Ascends(f)
                  /\ \A x \in K : \E i \in 1 .. Len(t) : f[i] = x
                  /\ \A i \in 1 .. Len(t) : t[i] = s[f[i]]
<1>1. IsFiniteSet(1 .. Len(s)) /\ Cardinality(1 .. Len(s)) = Len(s)
    <2>1. Len(s) \in Nat /\ 1 \in Int /\ Len(s) \in Int
        OBVIOUS
    <2>2. IsFiniteSet(1 .. Len(s)) /\
          Cardinality(1 .. Len(s)) = IF 1 > Len(s) THEN 0 ELSE Len(s) - 1 + 1
        BY <2>1, FS_Interval
    <2>. QED  BY <2>1, <2>2
<1>2. /\ IsFiniteSet(K) /\ Cardinality(K) <= Len(s)
      /\ Cardinality(K) = Len(s) => K = 1 .. Len(s)
    BY <1>1, FS_Subset
<1>3. Cardinality(K) \in Nat
    BY <1>2, FS_CardinalityType
<1>4. PICK f \in [1 .. Cardinality(K) -> K] :
          /\ Ascends(f)
          /\ \A x \in K : \E i \in DOMAIN f : f[i] = x
          /\ Kept(s, K) = [i \in 1 .. Cardinality(K) |-> s[f[i]]]
    <2>1. K \in SUBSET Nat
        OBVIOUS
    <2>. QED  BY <1>2, <2>1, KeptInOrder
<1>5. t = [i \in 1 .. Cardinality(K) |-> s[f[i]]]
    BY <1>4
<1>6. ASSUME NEW i \in 1 .. Cardinality(K) PROVE s[f[i]] \in S
    <2>1. f[i] \in K
        BY <1>4
    <2>2. f[i] \in 1 .. Len(s)
        BY <2>1
    <2>. QED  BY <2>2
<1>7. t \in Seq(S) /\ Len(t) = Cardinality(K)
    BY <1>3, <1>5, <1>6
<1>8. \A i \in 1 .. Len(t) : t[i] = s[f[i]]
    BY <1>5, <1>7
<1>9. f \in [1 .. Len(t) -> K] /\ \A x \in K : \E i \in 1 .. Len(t) : f[i] = x
    BY <1>3, <1>4, <1>7
<1>10. \E g \in [1 .. Len(t) -> K] :
          /\ Ascends(g)
          /\ \A x \in K : \E i \in 1 .. Len(t) : g[i] = x
          /\ \A i \in 1 .. Len(t) : t[i] = s[g[i]]
    BY <1>4, <1>8, <1>9
<1>. QED  BY <1>2, <1>7, <1>10

\* The elements of s that are in X.
Those(s, X) == {i \in 1 .. Len(s) : s[i] \in X}

LEMMA KeptThose ==
    ASSUME NEW S, NEW s \in Seq(S), Once(s), NEW X, NEW t, t = Kept(s, Those(s, X))
    PROVE  /\ t \in Seq(S) /\ Once(t) /\ Len(t) <= Len(s)
           /\ Len(t) = Len(s) => \A u : In(s, u) => u \in X
           /\ \A u : In(t, u) <=> In(s, u) /\ u \in X
           /\ \A u, v : Before(t, u, v) <=> Before(s, u, v) /\ u \in X /\ v \in X
<1>. DEFINE K == Those(s, X)
<1>1. K \in SUBSET (1 .. Len(s))
    BY DEF Those
<1>2. t = Kept(s, K)
    OBVIOUS
<1>3. \A i \in 1 .. Len(s) : i \in K <=> s[i] \in X
    BY DEF Those
<1>. HIDE DEF K
<1>4. t \in Seq(S) /\ Len(t) <= Len(s)
    BY <1>1, <1>2, KeptOf
<1>5. Len(t) = Len(s) => K = 1 .. Len(s)
    BY <1>1, <1>2, KeptOf
<1>6. PICK f \in [1 .. Len(t) -> K] :
                  /\ Ascends(f)
                  /\ \A x \in K : \E i \in 1 .. Len(t) : f[i] = x
                  /\ \A i \in 1 .. Len(t) : t[i] = s[f[i]]
    BY <1>1, <1>2, KeptOf
<1>7. ASSUME NEW i \in 1 .. Len(t) PROVE f[i] \in 1 .. Len(s) /\ f[i] \in K
    BY <1>1, <1>6
<1>8. ASSUME NEW i \in 1 .. Len(t), NEW j \in 1 .. Len(t), i < j PROVE f[i] < f[j]
    BY <1>6, <1>8 DEF Ascends
<1>9. Once(t)
    <2>. SUFFICES ASSUME NEW i \in 1 .. Len(t), NEW j \in 1 .. Len(t), t[i] = t[j] PROVE i = j
        BY DEF Once
    <2>1. s[f[i]] = s[f[j]]
        BY <1>6
    <2>2. f[i] \in 1 .. Len(s) /\ f[j] \in 1 .. Len(s)
        BY <1>7
    <2>3. f[i] = f[j] /\ f[i] \in Int
        BY <2>1, <2>2 DEF Once
    <2>4. (i < j => f[i] < f[j]) /\ (j < i => f[j] < f[i])
        BY <1>8
    <2>. QED  BY <2>3, <2>4
<1>10. Len(t) = Len(s) => \A u : In(s, u) => u \in X
    BY <1>3, <1>5 DEF In
<1>11. ASSUME NEW u PROVE In(t, u) <=> In(s, u) /\ u \in X
    <2>1. ASSUME NEW i \in 1 .. Len(t), t[i] = u PROVE In(s, u) /\ u \in X
        <3>1. s[f[i]] = u
            BY <1>6, <2>1
        <3>. QED  BY <1>3, <1>7, <3>1 DEF In
    <2>2. ASSUME NEW i \in 1 .. Len(s), s[i] = u, u \in X PROVE In(t, u)
        <3>1. i \in K
            BY <1>3, <2>2
        <3>2. PICK j \in 1 .. Len(t) : f[j] = i
            BY <1>6, <3>1
        <3>3. t[j] = u
            BY <1>6, <2>2, <3>2
        <3>. QED  BY <3>3 DEF In
    <2>. QED  BY <2>1, <2>2 DEF In
<1>12. ASSUME NEW u, NEW v, Before(t, u, v) PROVE Before(s, u, v) /\ u \in X /\ v \in X
    <2>1. PICK i \in 1 .. Len(t), j \in 1 .. Len(t) : i < j /\ t[i] = u /\ t[j] = v
        BY <1>12 DEF Before
    <2>2. f[i] < f[j]
        BY <1>8, <2>1
    <2>3. s[f[i]] = u /\ s[f[j]] = v
        BY <1>6, <2>1
    <2>. QED  BY <1>3, <1>7, <2>2, <2>3 DEF Before
<1>13. ASSUME NEW u \in X, NEW v \in X, Before(s, u, v) PROVE Before(t, u, v)
    <2>1. PICK i \in 1 .. Len(s), j \in 1 .. Len(s) : i < j /\ s[i] = u /\ s[j] = v
        BY <1>13 DEF Before
    <2>2. i \in K /\ j \in K
        BY <1>3, <2>1
    <2>3. PICK a \in 1 .. Len(t) : f[a] = i
        BY <1>6, <2>2
    <2>4. PICK b \in 1 .. Len(t) : f[b] = j
        BY <1>6, <2>2
    <2>5. t[a] = u /\ t[b] = v
        BY <1>6, <2>1, <2>3, <2>4
    <2>6. b < a => f[b] < f[a]
        BY <1>8
    <2>7. a < b
        BY <2>1, <2>3, <2>4, <2>6
    <2>. QED  BY <2>5, <2>7 DEF Before
<1>. QED  BY <1>4, <1>9, <1>10, <1>11, <1>12, <1>13

---------------------------------------------------------------------------
(* The HTTP rate limiter: src/src/fetchaller/http/middleware.py *)


\* What popleft() takes from the left of a deque of times.
LEMMA OlderOnes ==
    ASSUME NEW s \in Seq(Nat), NEW cutoff \in Int
    PROVE  LET k == Address!Older(s, cutoff)
           IN  /\ k \in 0 .. Len(s)
               /\ \A i \in 1 .. k : s[i] < cutoff
               /\ k < Len(s) => s[k + 1] >= cutoff
<1>1. \E k \in 0 .. Len(s) : (\A i \in 1 .. k : s[i] < cutoff) /\ (k < Len(s) => s[k + 1] >= cutoff)
    <2>. DEFINE young == {i \in 1 .. Len(s) : s[i] >= cutoff}
    <2>1. CASE young = {}
        <3>1. \A i \in 1 .. Len(s) : s[i] < cutoff
            BY <2>1
        <3>. QED  BY <3>1
    <2>2. CASE young # {}
        <3>4. young \in SUBSET Nat
            OBVIOUS
        <3>1. PICK m \in young : \A i \in young : m <= i
            <4>. HIDE DEF young
            <4>. QED  BY <2>2, <3>4, LeastOf
        <3>2. m \in 1 .. Len(s) /\ m - 1 \in 0 .. Len(s) /\ s[m] >= cutoff
            BY <3>1
        <3>3. ASSUME NEW i \in 1 .. m - 1 PROVE s[i] < cutoff
            <4>1. i \in 1 .. Len(s) /\ ~(m <= i)
                BY <3>2, <3>3
            <4>2. i \notin young
                BY <3>1, <4>1
            <4>. QED  BY <4>1, <4>2
        <3>5. (m - 1) + 1 = m
            BY <3>2
        <3>. QED  BY <3>2, <3>3, <3>5
    <2>. QED  BY <2>1, <2>2
<1>. QED  BY <1>1 DEF Address!Older

LEMMA OlderUnique ==
    ASSUME NEW s \in Seq(Nat), NEW cutoff \in Int, NEW k \in 0 .. Len(s),
           \A i \in 1 .. k : s[i] < cutoff, k < Len(s) => s[k + 1] >= cutoff
    PROVE  Address!Since(s, cutoff) = SubSeq(s, k + 1, Len(s))
<1>. DEFINE m == Address!Older(s, cutoff)
<1>1. m \in 0 .. Len(s) /\ (\A i \in 1 .. m : s[i] < cutoff) /\ (m < Len(s) => s[m + 1] >= cutoff)
    BY OlderOnes
<1>. HIDE DEF m
<1>2. ~(m < k)
    BY <1>1
<1>3. ~(k < m)
    BY <1>1
<1>4. m = k
    BY <1>1, <1>2, <1>3
<1>. QED  BY <1>4 DEF m, Address!Since

\* Nothing older is left; what is not older stays.
LEMMA SinceYoung ==
    ASSUME NEW s \in Seq(Nat), NEW cutoff \in Int, Len(s) > 0 => s[1] >= cutoff
    PROVE  Address!Since(s, cutoff) = s
<1>1. Address!Since(s, cutoff) = SubSeq(s, 1, Len(s))
    BY OlderUnique, 0 + 1 = 1
<1>. QED  BY <1>1

LEMMA SinceFacts ==
    ASSUME NEW s \in Seq(Nat), NEW cutoff \in Int, NEW t, t = Address!Since(s, cutoff)
    PROVE  /\ t \in Seq(Nat) /\ Len(t) <= Len(s)
           /\ Len(t) > 0 => t[1] >= cutoff /\ t[Len(t)] = s[Len(s)]
           /\ \A i \in 1 .. Len(t) : t[i] = s[Len(s) - Len(t) + i]
           /\ Len(s) > 0 /\ s[Len(s)] >= cutoff => Len(t) > 0
<1>. DEFINE k == Address!Older(s, cutoff)
<1>1. k \in 0 .. Len(s) /\ (\A i \in 1 .. k : s[i] < cutoff) /\ (k < Len(s) => s[k + 1] >= cutoff)
    BY OlderOnes
<1>2. t = SubSeq(s, k + 1, Len(s))
    BY DEF Address!Since
<1>. HIDE DEF k
<1>3. /\ t \in Seq(Nat) /\ Len(t) = Len(s) - k
      /\ \A i \in 1 .. Len(t) : t[i] = s[k + i]
    BY <1>1, <1>2
<1>4. Len(t) > 0 => t[1] >= cutoff /\ t[Len(t)] = s[Len(s)]
    <2>. SUFFICES ASSUME Len(t) > 0 PROVE t[1] >= cutoff /\ t[Len(t)] = s[Len(s)]
        OBVIOUS
    <2>1. 1 \in 1 .. Len(t) /\ Len(t) \in 1 .. Len(t) /\ k < Len(s) /\ k + Len(t) = Len(s)
        BY <1>1, <1>3
    <2>2. t[1] = s[k + 1] /\ t[Len(t)] = s[k + Len(t)]
        BY <1>3, <2>1
    <2>. QED  BY <1>1, <2>1, <2>2
<1>5. ASSUME NEW i \in 1 .. Len(t) PROVE t[i] = s[Len(s) - Len(t) + i]
    <2>1. Len(s) - Len(t) = k
        BY <1>1, <1>3
    <2>. QED  BY <1>3, <1>5, <2>1
<1>6. Len(s) > 0 /\ s[Len(s)] >= cutoff => Len(t) > 0
    <2>1. SUFFICES ASSUME Len(s) > 0, s[Len(s)] >= cutoff, k = Len(s) PROVE FALSE
        BY <1>1, <1>3
    <2>2. s[Len(s)] < cutoff
        BY <1>1, <2>1
    <2>3. s[Len(s)] \in Nat
        BY <2>1
    <2>. QED  BY <2>1, <2>2, <2>3
<1>. QED  BY <1>1, <1>3, <1>4, <1>5, <1>6

\* What is left of a sequence without its first n entries.
LEMMA RestOf ==
    ASSUME NEW s \in Seq(Nat), NEW n \in 0 .. Len(s)
    PROVE  SubSeq(s, n + 1, Len(s)) = [i \in 1 .. Len(s) - n |-> s[n + i]]
<1>1. n \in Nat /\ Len(s) \in Nat /\ n <= Len(s) /\ Len(s) - (n + 1) + 1 = Len(s) - n
    OBVIOUS
<1>2. ASSUME NEW i \in 1 .. Len(s) - n PROVE (n + 1) + i - 1 = n + i
    BY <1>1
<1>. QED  BY <1>1, <1>2

\* Popping twice is popping what is older than the later cutoff.
LEMMA SinceAgain ==
    ASSUME NEW s \in Seq(Nat), NEW cutoff \in Int, NEW later \in Int, cutoff <= later
    PROVE  Address!Since(Address!Since(s, cutoff), later) = Address!Since(s, later)
<1>. DEFINE k == Address!Older(s, cutoff)
            t == Address!Since(s, cutoff)
            m == Address!Older(t, later)
<1>1. k \in 0 .. Len(s) /\ (\A i \in 1 .. k : s[i] < cutoff) /\ (k < Len(s) => s[k + 1] >= cutoff)
    BY OlderOnes
<1>2. t = SubSeq(s, k + 1, Len(s))
    BY DEF Address!Since
<1>3. t \in Seq(Nat)
    BY SinceFacts
<1>4. m \in 0 .. Len(t) /\ (\A i \in 1 .. m : t[i] < later) /\ (m < Len(t) => t[m + 1] >= later)
    BY <1>3, OlderOnes
<1>5. Address!Since(t, later) = SubSeq(t, m + 1, Len(t))
    BY DEF Address!Since
<1>. HIDE DEF k, t, m
<1>6. Len(t) = Len(s) - k /\ \A i \in 1 .. Len(t) : t[i] = s[k + i]
    BY <1>1, <1>2
<1>7. k + m \in 0 .. Len(s)
    BY <1>1, <1>4, <1>6
<1>8. ASSUME NEW i \in 1 .. k + m PROVE s[i] < later
    <2>1. CASE i <= k
        <3>1. i \in 1 .. k /\ i \in 1 .. Len(s)
            BY <1>1, <1>8, <2>1
        <3>2. s[i] < cutoff /\ s[i] \in Nat
            BY <1>1, <3>1
        <3>. QED  BY <3>2
    <2>2. CASE i > k
        <3>1. i - k \in 1 .. m /\ i - k \in 1 .. Len(t) /\ k + (i - k) = i
            BY <1>1, <1>4, <1>8, <2>2
        <3>2. t[i - k] < later /\ t[i - k] = s[k + (i - k)]
            BY <1>4, <1>6, <3>1
        <3>. QED  BY <3>1, <3>2
    <2>. QED  BY <1>1, <2>1, <2>2
<1>9. k + m < Len(s) => s[k + m + 1] >= later
    <2>1. SUFFICES ASSUME k + m < Len(s) PROVE s[k + m + 1] >= later
        OBVIOUS
    <2>2. m < Len(t) /\ m + 1 \in 1 .. Len(t) /\ k + (m + 1) = k + m + 1
        BY <1>1, <1>4, <1>6, <2>1
    <2>3. t[m + 1] >= later /\ t[m + 1] = s[k + (m + 1)]
        BY <1>4, <1>6, <2>2
    <2>. QED  BY <2>2, <2>3
<1>10. Address!Since(s, later) = SubSeq(s, (k + m) + 1, Len(s))
    BY <1>7, <1>8, <1>9, OlderUnique
<1>11. SubSeq(t, m + 1, Len(t)) = SubSeq(s, (k + m) + 1, Len(s))
    <2>1. SubSeq(t, m + 1, Len(t)) = [i \in 1 .. Len(t) - m |-> t[m + i]]
        BY <1>3, <1>4, RestOf
    <2>2. SubSeq(s, (k + m) + 1, Len(s)) = [i \in 1 .. Len(s) - (k + m) |-> s[(k + m) + i]]
        BY <1>7, RestOf
    <2>3. Len(t) - m = Len(s) - (k + m)
        BY <1>1, <1>4, <1>6
    <2>4. ASSUME NEW i \in 1 .. Len(t) - m PROVE t[m + i] = s[(k + m) + i]
        <3>1. m + i \in 1 .. Len(t) /\ k + (m + i) = (k + m) + i
            BY <1>1, <1>4, <1>6, <2>4
        <3>. QED  BY <1>6, <3>1
    <2>. QED  BY <2>1, <2>2, <2>3, <2>4
<1>. QED  BY <1>5, <1>10, <1>11 DEF t

\* The times of an address are in order.
InOrder(s) ==
    /\ s \in Seq(Nat) /\ Len(s) \in 1 .. Limit
    /\ \A i \in 1 .. Len(s) : s[i] <= minute /\ s[i] <= Address!Last(s)

TableTypes ==
    /\ minute \in Nat
    /\ lastCleanup \in 0 .. minute
    /\ verdict \in [at : 0 .. minute, is : {"none", "allowed", "quota", "table"}]
    /\ entries \in [Address!Known -> Seq(Nat)]
    /\ allowed \in [Addresses -> Seq(Nat)]
    /\ Address!Known \subseteq Addresses

\* What the table remembers of an address is what counts; of the others there
\* is nothing to remember.
Remembers(a) ==
    IF a \in Address!Known
    THEN /\ InOrder(entries[a])
         /\ allowed[a] = Address!Since(entries[a], minute - Quota)
         /\ Address!Last(entries[a]) >= lastCleanup - Quota
    ELSE allowed[a] = <<>>

TableFits == IsFiniteSet(Address!Known) /\ Cardinality(Address!Known) <= TableEntries

AddressInv ==
    /\ TableTypes /\ TableFits
    /\ \A a \in Addresses : Remembers(a)
    /\ Address!TurnedAwayByActive

LEMMA AddressCardinality == \A S : Address!Cardinality(S) = Cardinality(S)
BY Zenon DEF Address!Cardinality, Cardinality

LEMMA AddressInvInit == ASSUME Address!LimitsAssumption, Address!Init PROVE AddressInv
<1>1. Address!Known = {}
    BY DEF Address!Init, Address!Known
<1>2. TableTypes
    BY <1>1 DEF Address!Init, TableTypes
<1>3. TableFits
    BY <1>1, FS_EmptySet DEF Address!LimitsAssumption, TableFits
<1>4. \A a \in Addresses : Remembers(a)
    BY <1>1 DEF Address!Init, Remembers
<1>5. Address!TurnedAwayByActive
    BY DEF Address!Init, Address!TurnedAwayByActive
<1>. QED  BY <1>2, <1>3, <1>4, <1>5 DEF AddressInv

\* Nothing that counts is older than the window, so what _cleanup forgets
\* counts no more.
LEMMA StaleIsNothing ==
    ASSUME AddressInv, Address!LimitsAssumption, NEW a \in Address!Known,
           Address!Stale(entries[a])
    PROVE  allowed[a] = <<>>
<1>. DEFINE s == entries[a]
<1>1. s \in Seq(Nat) /\ Len(s) \in Nat /\ (\A i \in 1 .. Len(s) : s[i] <= Address!Last(s))
      /\ allowed[a] = Address!Since(s, minute - Quota)
    BY DEF AddressInv, TableTypes, Remembers, InOrder
<1>2. Address!Last(s) < minute - Quota /\ Len(s) \in 1 .. Limit /\ Address!Last(s) \in Nat
    BY DEF AddressInv, TableTypes, Remembers, InOrder, Address!Stale, Address!Last
<1>3. minute - Quota \in Int
    BY DEF AddressInv, TableTypes, Address!LimitsAssumption
<1>. HIDE DEF s
<1>4. \A i \in 1 .. Len(s) : s[i] < minute - Quota
    BY <1>1, <1>2, <1>3
<1>5. Address!Since(s, minute - Quota) = SubSeq(s, Len(s) + 1, Len(s))
    <2>1. Len(s) \in 0 .. Len(s) /\ ~(Len(s) < Len(s))
        BY <1>1
    <2>. QED  BY <1>1, <1>3, <1>4, <2>1, OlderUnique
<1>. QED  BY <1>1, <1>5

\* A cleanup forgets who is stale, if it may run, and nobody else.
LEMMA CleanupForgets ==
    ASSUME NEW es, es = [a \in DOMAIN es |-> es[a]], NEW left, left = Address!Cleaned(es)
    PROVE  /\ DOMAIN left \subseteq DOMAIN es
           /\ \A a \in DOMAIN left : left[a] = es[a]
           /\ \A a \in DOMAIN es \ DOMAIN left : Address!Due /\ Address!Stale(es[a])
           /\ Address!Due => \A a \in DOMAIN left : ~Address!Stale(es[a])
           /\ left = [a \in DOMAIN left |-> left[a]]
<1>1. CASE Address!Due
    BY <1>1 DEF Address!Cleaned
<1>2. CASE ~Address!Due
    BY <1>2 DEF Address!Cleaned
<1>. QED  BY <1>1, <1>2

\* What a check may have forgotten by the time it counts address a.
LEMMA RoomForgets ==
    ASSUME AddressInv, NEW a \in Addresses, NEW es, es = Address!Room(a)
    PROVE  /\ DOMAIN es \subseteq Address!Known
           /\ es \in [DOMAIN es -> Seq(Nat)]
           /\ \A b \in DOMAIN es : es[b] = entries[b]
           /\ \A b \in Address!Known \ DOMAIN es : Address!Due /\ Address!Stale(entries[b])
           /\ a \in Address!Known => es = entries
<1>1. CASE es = entries
    BY <1>1 DEF AddressInv, TableTypes, Address!Known
<1>2. CASE es # entries
    <2>1. es = Address!Cleaned(entries) /\ a \notin Address!Known
        BY <1>2 DEF Address!Room
    <2>3. entries = [b \in DOMAIN entries |-> entries[b]]
        BY DEF AddressInv, TableTypes
    <2>2. /\ DOMAIN es \subseteq Address!Known
          /\ \A b \in DOMAIN es : es[b] = entries[b]
          /\ \A b \in Address!Known \ DOMAIN es : Address!Due /\ Address!Stale(entries[b])
          /\ es = [b \in DOMAIN es |-> es[b]]
        BY <1>2, <2>1, <2>3, CleanupForgets DEF Address!Known
    <2>4. es \in [DOMAIN es -> Seq(Nat)]
        BY <2>2 DEF AddressInv, TableTypes
    <2>. QED  BY <2>1, <2>2, <2>4
<1>. QED  BY <1>1, <1>2

\* Whoever is remembered is still as it was; what is forgotten is stale.
LEMMA OthersRemembered ==
    ASSUME AddressInv, Address!LimitsAssumption, NEW b \in Addresses,
           b \in Address!Known' => b \in Address!Known /\ entries'[b] = entries[b],
           b \in Address!Known \ Address!Known' => Address!Stale(entries[b]),
           allowed'[b] = allowed[b], UNCHANGED minute,
           \/ UNCHANGED lastCleanup
           \/ lastCleanup' = minute /\ (b \in Address!Known' => ~Address!Stale(entries[b]))
    PROVE  Remembers(b)'
<1>1. CASE b \in Address!Known'
    <2>1. /\ b \in Address!Known /\ entries'[b] = entries[b] /\ InOrder(entries[b])
          /\ allowed[b] = Address!Since(entries[b], minute - Quota)
          /\ Address!Last(entries[b]) >= lastCleanup - Quota
        BY <1>1 DEF AddressInv, Remembers
    <2>2. InOrder(entries[b])'
        BY <2>1 DEF InOrder, Address!Last
    <2>3. allowed'[b] = Address!Since(entries'[b], minute' - Quota)
        BY <2>1
    <2>4. Address!Last(entries[b]) \in Nat /\ minute \in Nat /\ Quota \in Nat
        BY <2>1 DEF AddressInv, TableTypes, InOrder, Address!Last, Address!LimitsAssumption
    <2>5. Address!Last(entries[b]) >= lastCleanup' - Quota
        BY <1>1, <2>1, <2>4 DEF Address!Stale
    <2>. QED  BY <1>1, <2>1, <2>2, <2>3, <2>5 DEF Remembers, Address!Last
<1>2. CASE b \notin Address!Known'
    <2>1. allowed[b] = <<>>
        BY <1>2, StaleIsNothing DEF AddressInv, Remembers
    <2>. QED  BY <1>2, <2>1 DEF Remembers
<1>. QED  BY <1>1, <1>2

\* A new address that finds no room.
LEMMA NoRoomKeeps ==
    ASSUME AddressInv, Address!LimitsAssumption, NEW a \in Addresses, a \notin Address!Known,
           Cardinality(DOMAIN Address!Room(a)) >= TableEntries,
           entries' = Address!Room(a), Address!CleanedUp, Address!Answer("table"),
           UNCHANGED <<allowed, minute>>
    PROVE  AddressInv'
<1>1. entries' = Address!Cleaned(entries)
    BY AddressCardinality DEF Address!Room, Address!Known
<1>2. /\ Address!Known' \subseteq Address!Known
      /\ \A b \in Address!Known' : entries'[b] = entries[b]
      /\ \A b \in Address!Known \ Address!Known' : Address!Due /\ Address!Stale(entries[b])
      /\ entries' \in [Address!Known' -> Seq(Nat)]
    BY RoomForgets DEF Address!Known
<1>3. Address!Due => \A b \in Address!Known' : ~Address!Stale(entries[b])
    <2>1. entries = [b \in DOMAIN entries |-> entries[b]]
        BY DEF AddressInv, TableTypes
    <2>. QED  BY <1>1, <2>1, CleanupForgets DEF Address!Known
<1>4. lastCleanup' = IF Address!Due THEN minute ELSE lastCleanup
    BY DEF Address!CleanedUp
<1>5. TableTypes'
    <2>1. lastCleanup' \in 0 .. minute
        BY <1>4 DEF AddressInv, TableTypes
    <2>2. verdict' \in [at : 0 .. minute, is : {"none", "allowed", "quota", "table"}]
        BY DEF AddressInv, TableTypes, Address!Answer
    <2>. QED  BY <1>2, <2>1, <2>2 DEF AddressInv, TableTypes
<1>6. TableFits'
    <2>1. IsFiniteSet(Address!Known') /\ Cardinality(Address!Known') <= Cardinality(Address!Known)
        BY <1>2, FS_Subset DEF AddressInv, TableFits
    <2>2. Cardinality(Address!Known') \in Nat /\ Cardinality(Address!Known) \in Nat
        BY <2>1, FS_CardinalityType DEF AddressInv, TableFits
    <2>. QED  BY <2>1, <2>2 DEF AddressInv, TableFits, Address!LimitsAssumption
<1>7. ASSUME NEW b \in Addresses PROVE Remembers(b)'
    <2>1. \/ UNCHANGED lastCleanup
          \/ lastCleanup' = minute /\ (b \in Address!Known' => ~Address!Stale(entries[b]))
        BY <1>3, <1>4
    <2>. QED  BY <1>2, <2>1, OthersRemembered
<1>8. ASSUME NEW b \in Address!Known' PROVE Address!Last(entries'[b]) >= minute - Quota - Throttle
    <2>1. /\ b \in Address!Known /\ b \in Addresses /\ entries'[b] = entries[b]
          /\ Address!Last(entries[b]) >= lastCleanup - Quota /\ InOrder(entries[b])
        BY <1>2, <1>8 DEF AddressInv, TableTypes, Remembers
    <2>2. /\ Address!Last(entries[b]) \in Nat /\ minute \in Nat /\ lastCleanup \in Nat
          /\ Quota \in Nat /\ Throttle \in Nat
        BY <2>1 DEF AddressInv, TableTypes, InOrder, Address!Last, Address!LimitsAssumption
    <2>3. CASE Address!Due
        BY <1>3, <1>8, <2>1, <2>2, <2>3 DEF Address!Stale
    <2>4. CASE ~Address!Due
        BY <2>1, <2>2, <2>4 DEF Address!Due
    <2>. QED  BY <2>3, <2>4
<1>9. Address!TurnedAwayByActive'
    BY <1>8 DEF Address!TurnedAwayByActive, Address!Last
<1>. QED  BY <1>5, <1>6, <1>7, <1>9 DEF AddressInv

\* What counts of a, in whichever table.
LEMMA CountedIsAllowed ==
    ASSUME AddressInv, NEW a \in Addresses, NEW es, es = Address!Room(a), NEW s,
           s = IF a \in DOMAIN es THEN Address!Since(es[a], minute - Quota) ELSE <<>>
    PROVE  s = allowed[a]
<1>1. CASE a \in Address!Known
    <2>1. es = entries /\ a \in DOMAIN entries
        BY <1>1, RoomForgets DEF Address!Known
    <2>2. allowed[a] = Address!Since(entries[a], minute - Quota)
        BY <1>1 DEF AddressInv, Remembers
    <2>. QED  BY <2>1, <2>2
<1>2. CASE a \notin Address!Known
    <2>1. a \notin DOMAIN es
        BY <1>2, RoomForgets
    <2>. QED  BY <1>2, <2>1 DEF AddressInv, Remembers
<1>. QED  BY <1>1, <1>2

\* No more than Limit requests count, none of them older than the window.
LEMMA AllowedInWindow ==
    ASSUME AddressInv, Address!LimitsAssumption, NEW a \in Addresses
    PROVE  /\ allowed[a] \in Seq(Nat) /\ Len(allowed[a]) <= Limit
           /\ Len(allowed[a]) > 0 => /\ a \in Address!Known
                                     /\ allowed[a][1] >= minute - Quota
                                     /\ InOrder(allowed[a])
                                     /\ Address!Last(allowed[a]) = Address!Last(entries[a])
<1>1. CASE a \notin Address!Known
    <2>1. allowed[a] = <<>>
        BY <1>1 DEF AddressInv, Remembers
    <2>. QED  BY <2>1 DEF Address!LimitsAssumption
<1>2. CASE a \in Address!Known
    <2>. DEFINE s == entries[a]
                t == allowed[a]
                cutoff == minute - Quota
    <2>1. InOrder(s) /\ t = Address!Since(s, cutoff) /\ s \in Seq(Nat)
        BY <1>2 DEF AddressInv, Remembers, InOrder
    <2>2. cutoff \in Int
        BY DEF AddressInv, TableTypes, Address!LimitsAssumption
    <2>. HIDE DEF s, t, cutoff
    <2>8. t \in Seq(Nat) /\ Len(t) <= Len(s)
        BY <2>1, <2>2, SinceFacts
    <2>9. Len(t) > 0 => t[1] >= cutoff /\ t[Len(t)] = s[Len(s)]
        BY <2>1, <2>2, SinceFacts
    <2>10. \A i \in 1 .. Len(t) : t[i] = s[Len(s) - Len(t) + i]
        BY <2>1, <2>2, SinceFacts
    <2>3. /\ t \in Seq(Nat) /\ Len(t) <= Len(s)
          /\ Len(t) > 0 => t[1] >= cutoff /\ t[Len(t)] = s[Len(s)]
          /\ \A i \in 1 .. Len(t) : t[i] = s[Len(s) - Len(t) + i]
        BY <2>8, <2>9, <2>10
    <2>4. Len(t) <= Limit
        BY <2>1, <2>3 DEF InOrder, Address!LimitsAssumption
    <2>5. Len(t) > 0 => Address!Last(t) = Address!Last(s)
        BY <2>3 DEF Address!Last
    <2>6. ASSUME Len(t) > 0 PROVE InOrder(t)
        <3>1. ASSUME NEW i \in 1 .. Len(t) PROVE t[i] <= minute /\ t[i] <= Address!Last(t)
            <4>1. Len(s) - Len(t) + i \in 1 .. Len(s)
                BY <2>1, <2>3, <3>1
            <4>. QED  BY <2>1, <2>3, <2>5, <2>6, <3>1, <4>1 DEF InOrder
        <3>2. Len(t) \in 1 .. Limit
            BY <2>3, <2>4, <2>6 DEF Address!LimitsAssumption
        <3>. QED  BY <2>3, <3>1, <3>2 DEF InOrder
    <2>7. Len(t) > 0 => t[1] >= cutoff
        BY <2>3
    <2>. QED  BY <1>2, <2>3, <2>4, <2>5, <2>6, <2>7 DEF s, t, cutoff
<1>. QED  BY <1>1, <1>2

\* An address that has used its quota.
LEMMA QuotaKeeps ==
    ASSUME AddressInv, Address!LimitsAssumption, NEW a \in Addresses,
           Len(allowed[a]) >= Limit,
           entries' = [b \in DOMAIN entries \cup {a} |-> IF b = a THEN allowed[a] ELSE entries[b]],
           Address!Answer("quota"),
           UNCHANGED <<lastCleanup, allowed, minute>>
    PROVE  AddressInv'
<1>1. /\ a \in Address!Known /\ InOrder(allowed[a]) /\ allowed[a] \in Seq(Nat)
      /\ allowed[a][1] >= minute - Quota /\ Address!Last(allowed[a]) = Address!Last(entries[a])
    BY AllowedInWindow DEF Address!LimitsAssumption
<1>2. Address!Known' = Address!Known
    BY <1>1 DEF Address!Known
<1>3. TableTypes'
    <2>1. entries' \in [Address!Known' -> Seq(Nat)]
        BY <1>1, <1>2 DEF Address!Known, AddressInv, TableTypes
    <2>2. verdict' \in [at : 0 .. minute, is : {"none", "allowed", "quota", "table"}]
        BY DEF AddressInv, TableTypes, Address!Answer
    <2>. QED  BY <1>2, <2>1, <2>2 DEF AddressInv, TableTypes
<1>4. TableFits'
    BY <1>2 DEF AddressInv, TableFits
<1>5. ASSUME NEW b \in Addresses PROVE Remembers(b)'
    <2>1. CASE b = a
        <3>1. entries'[b] = allowed[a]
            BY <1>1, <2>1 DEF Address!Known
        <3>2. minute - Quota \in Int
            BY DEF AddressInv, TableTypes, Address!LimitsAssumption
        <3>3. Address!Since(allowed[a], minute - Quota) = allowed[a]
            BY <1>1, <3>2, SinceYoung
        <3>4. Address!Last(entries[a]) >= lastCleanup - Quota
            BY <1>1 DEF AddressInv, Remembers
        <3>5. InOrder(allowed[a])'
            BY <1>1 DEF InOrder, Address!Last
        <3>. QED  BY <1>1, <1>2, <2>1, <3>1, <3>3, <3>4, <3>5 DEF Remembers, Address!Last
    <2>2. CASE b # a
        <3>1. b \in Address!Known' => b \in Address!Known /\ entries'[b] = entries[b]
            BY <1>2, <2>2 DEF Address!Known
        <3>. QED  BY <1>2, <3>1, OthersRemembered
    <2>. QED  BY <2>1, <2>2
<1>6. Address!TurnedAwayByActive'
    BY DEF Address!TurnedAwayByActive, Address!Answer
<1>. QED  BY <1>3, <1>4, <1>5, <1>6 DEF AddressInv

\* The table es with the request that a makes now.
Counts(a, es, put) ==
    /\ put = [b \in DOMAIN put |-> put[b]]
    /\ DOMAIN put = DOMAIN es \cup {a}
    /\ put[a] = Append(allowed[a], minute)
    /\ \A b \in DOMAIN es \ {a} : put[b] = es[b]

\* A request that is allowed.
LEMMA AllowedKeeps ==
    ASSUME AddressInv, Address!LimitsAssumption, NEW a \in Addresses,
           a \in Address!Known \/ Cardinality(DOMAIN Address!Room(a)) < TableEntries,
           Len(allowed[a]) < Limit, NEW put, Counts(a, Address!Room(a), put),
           entries' = Address!Cleaned(put), Address!CleanedUp, Address!Answer("allowed"),
           allowed' = [allowed EXCEPT ![a] = Append(@, minute)], UNCHANGED minute
    PROVE  AddressInv'
<1>. DEFINE new == Append(allowed[a], minute)
            es == Address!Room(a)
<1>14. /\ put = [b \in DOMAIN put |-> put[b]] /\ DOMAIN put = DOMAIN es \cup {a}
       /\ put[a] = Append(allowed[a], minute) /\ \A b \in DOMAIN es \ {a} : put[b] = es[b]
    BY DEF Counts
<1>1. /\ DOMAIN es \subseteq Address!Known
      /\ es \in [DOMAIN es -> Seq(Nat)]
      /\ \A b \in DOMAIN es : es[b] = entries[b]
      /\ \A b \in Address!Known \ DOMAIN es : Address!Due /\ Address!Stale(entries[b])
      /\ a \in Address!Known => es = entries
    BY RoomForgets
<1>2. /\ minute \in Nat /\ Quota \in Nat /\ Limit \in Nat
      /\ allowed[a] \in Seq(Nat) /\ Len(allowed[a]) \in Nat
    BY DEF AddressInv, TableTypes, Address!LimitsAssumption
<1>3. new \in Seq(Nat) /\ Len(new) = Len(allowed[a]) + 1 /\ Address!Last(new) = minute
    BY <1>2 DEF Address!Last
<1>4. new[1] >= minute - Quota
    <2>1. CASE Len(allowed[a]) = 0
        BY <1>2, <2>1
    <2>2. CASE Len(allowed[a]) > 0
        <3>1. new[1] = allowed[a][1] /\ allowed[a][1] >= minute - Quota
            BY <1>2, <2>2, AllowedInWindow
        <3>. QED  BY <3>1
    <2>. QED  BY <1>2, <2>1, <2>2
<1>5. InOrder(new)
    <2>1. ASSUME NEW i \in 1 .. Len(new) PROVE new[i] <= minute
        <3>1. CASE i = Len(new)
            BY <1>2, <1>3, <3>1
        <3>2. CASE i # Len(new)
            <4>1. i \in 1 .. Len(allowed[a]) /\ new[i] = allowed[a][i] /\ Len(allowed[a]) > 0
                BY <1>2, <1>3, <2>1, <3>2
            <4>. QED  BY <4>1, AllowedInWindow DEF InOrder
        <3>. QED  BY <3>1, <3>2
    <2>2. Len(new) \in 1 .. Limit
        BY <1>2, <1>3
    <2>. QED  BY <1>3, <2>1, <2>2 DEF InOrder
<1>16. a \in Address!Known \/ Cardinality(DOMAIN es) < TableEntries
    OBVIOUS
<1>. HIDE DEF new, es
<1>6. put[a] = new /\ a \in DOMAIN put /\ DOMAIN put = DOMAIN es \cup {a}
      /\ (\A b \in DOMAIN es \ {a} : put[b] = entries[b])
    BY <1>1, <1>14 DEF new
<1>7. ~Address!Stale(new)
    BY <1>2, <1>3 DEF Address!Stale
<1>8. /\ Address!Known' \subseteq DOMAIN put
      /\ \A b \in Address!Known' : entries'[b] = put[b]
      /\ \A b \in DOMAIN put \ Address!Known' : Address!Due /\ Address!Stale(put[b])
      /\ Address!Due => \A b \in Address!Known' : ~Address!Stale(put[b])
      /\ entries' = [b \in Address!Known' |-> entries'[b]]
    <2>1. PICK left : left = entries' /\ left = Address!Cleaned(put)
        OBVIOUS
    <2>2. DOMAIN left \subseteq DOMAIN put
        BY <1>14, <2>1, CleanupForgets
    <2>3. \A b \in DOMAIN left : left[b] = put[b]
        BY <1>14, <2>1, CleanupForgets
    <2>4. \A b \in DOMAIN put \ DOMAIN left : Address!Due /\ Address!Stale(put[b])
        BY <1>14, <2>1, CleanupForgets
    <2>5. Address!Due => \A b \in DOMAIN left : ~Address!Stale(put[b])
        BY <1>14, <2>1, CleanupForgets
    <2>6. left = [b \in DOMAIN left |-> left[b]]
        BY <1>14, <2>1, CleanupForgets
    <2>. QED  BY <2>1, <2>2, <2>3, <2>4, <2>5, <2>6 DEF Address!Known
<1>9. a \in Address!Known' /\ entries'[a] = new
    BY <1>6, <1>7, <1>8
<1>10. lastCleanup' = IF Address!Due THEN minute ELSE lastCleanup
    BY DEF Address!CleanedUp
<1>11. TableTypes'
    <2>1. \A b \in DOMAIN put : put[b] \in Seq(Nat)
        BY <1>1, <1>3, <1>6
    <2>2. entries' \in [Address!Known' -> Seq(Nat)]
        BY <1>8, <2>1 DEF Address!Known
    <2>3. Address!Known' \subseteq Addresses
        BY <1>1, <1>6, <1>8 DEF AddressInv, TableTypes
    <2>4. lastCleanup' \in 0 .. minute
        BY <1>10 DEF AddressInv, TableTypes
    <2>5. verdict' \in [at : 0 .. minute, is : {"none", "allowed", "quota", "table"}]
        BY DEF AddressInv, TableTypes, Address!Answer
    <2>6. allowed' \in [Addresses -> Seq(Nat)]
        BY <1>3 DEF new, AddressInv, TableTypes
    <2>. QED  BY <2>2, <2>3, <2>4, <2>5, <2>6 DEF AddressInv, TableTypes
<1>12. TableFits'
    <2>1. IsFiniteSet(Address!Known) /\ Cardinality(Address!Known) <= TableEntries
          /\ Cardinality(Address!Known) \in Nat /\ TableEntries \in Nat
        BY FS_CardinalityType DEF AddressInv, TableFits, Address!LimitsAssumption
    <2>2. IsFiniteSet(DOMAIN put) /\ Cardinality(DOMAIN put) <= TableEntries
        <3>1. CASE a \in Address!Known
            <4>1. DOMAIN put = Address!Known
                BY <1>1, <1>6, <3>1 DEF Address!Known
            <4>. QED  BY <2>1, <4>1
        <3>2. CASE a \notin Address!Known
            <4>1. IsFiniteSet(DOMAIN es)
                BY <1>1, <2>1, FS_Subset
            <4>2. Cardinality(DOMAIN es) \in Nat
                BY <4>1, FS_CardinalityType
            <4>3. /\ IsFiniteSet(DOMAIN es \cup {a})
                  /\ Cardinality(DOMAIN es \cup {a}) = Cardinality(DOMAIN es) + 1
                BY <1>1, <3>2, <4>1, FS_AddElement
            <4>. QED  BY <1>6, <1>16, <2>1, <3>2, <4>2, <4>3
        <3>. QED  BY <3>1, <3>2
    <2>3. /\ IsFiniteSet(Address!Known') /\ Cardinality(Address!Known') <= Cardinality(DOMAIN put)
        BY <1>8, <2>2, FS_Subset
    <2>4. Cardinality(Address!Known') \in Nat /\ Cardinality(DOMAIN put) \in Nat
        BY <2>2, <2>3, FS_CardinalityType
    <2>. QED  BY <2>1, <2>2, <2>3, <2>4 DEF TableFits
<1>13. ASSUME NEW b \in Addresses PROVE Remembers(b)'
    <2>1. CASE b = a
        <3>1. minute - Quota \in Int
            BY <1>2
        <3>2. Address!Since(new, minute - Quota) = new
            BY <1>3, <1>4, <3>1, SinceYoung
        <3>3. allowed'[a] = new
            BY DEF new, AddressInv, TableTypes
        <3>4. Address!Last(new) >= lastCleanup' - Quota
            BY <1>2, <1>3, <1>10 DEF AddressInv, TableTypes
        <3>6. InOrder(entries[a])'
            BY <1>5, <1>9 DEF InOrder, Address!Last
        <3>. QED  BY <1>9, <2>1, <3>2, <3>3, <3>4, <3>6 DEF Remembers, Address!Last
    <2>2. CASE b # a
        <3>1. b \in Address!Known' => b \in Address!Known /\ entries'[b] = entries[b] /\ put[b] = entries[b]
            BY <1>1, <1>6, <1>8, <2>2
        <3>2. b \in Address!Known \ Address!Known' => Address!Stale(entries[b])
            BY <1>1, <1>6, <1>8, <2>2
        <3>3. allowed'[b] = allowed[b]
            BY <2>2 DEF AddressInv, TableTypes
        <3>4. \/ UNCHANGED lastCleanup
              \/ lastCleanup' = minute /\ (b \in Address!Known' => ~Address!Stale(entries[b]))
            BY <1>8, <1>10, <3>1
        <3>. QED  BY <3>1, <3>2, <3>3, <3>4, OthersRemembered
    <2>. QED  BY <2>1, <2>2
<1>15. Address!TurnedAwayByActive'
    BY DEF Address!TurnedAwayByActive, Address!Answer
<1>. QED  BY <1>11, <1>12, <1>13, <1>15 DEF AddressInv

LEMMA CheckKeeps ==
    ASSUME AddressInv, Address!LimitsAssumption, NEW a \in Addresses, Address!Check(a)
    PROVE  AddressInv'
<1>. DEFINE es == Address!Room(a)
            full == a \notin Address!Known /\ Cardinality(DOMAIN es) >= TableEntries
<1>1. CASE full
    <2>1. /\ entries' = Address!Room(a) /\ Address!CleanedUp /\ Address!Answer("table")
          /\ UNCHANGED <<allowed, minute>>
        BY <1>1, AddressCardinality DEF Address!Check
    <2>. QED  BY <1>1, <2>1, NoRoomKeeps
<1>2. CASE ~full
    <2>1. Address!Counted(a, es) /\ UNCHANGED minute
        BY <1>2, AddressCardinality DEF Address!Check
    <2>2. PICK s : s = IF a \in DOMAIN es THEN Address!Since(es[a], minute - Quota) ELSE <<>>
        OBVIOUS
    <2>3. s = allowed[a]
        BY <2>2, CountedIsAllowed
    <2>4. CASE Len(s) >= Limit
        <3>1. /\ entries' = [b \in DOMAIN es \cup {a} |-> IF b = a THEN s ELSE es[b]]
              /\ Address!Answer("quota") /\ UNCHANGED <<lastCleanup, allowed>>
            BY <2>1, <2>2, <2>4 DEF Address!Counted
        <3>2. a \in Address!Known
            BY <2>3, <2>4, AllowedInWindow DEF Address!LimitsAssumption
        <3>3. es = entries
            BY <3>2, RoomForgets
        <3>. HIDE DEF es
        <3>. QED  BY <2>1, <2>3, <2>4, <3>1, <3>3, QuotaKeeps
    <2>5. CASE ~(Len(s) >= Limit)
        <3>. DEFINE new == [b \in DOMAIN es \cup {a} |-> IF b = a THEN Append(s, minute) ELSE es[b]]
        <3>1. /\ entries' = Address!Cleaned(new) /\ Address!CleanedUp /\ Address!Answer("allowed")
              /\ allowed' = [allowed EXCEPT ![a] = Append(@, minute)]
            BY <2>1, <2>2, <2>5 DEF Address!Counted
        <3>2. Counts(a, Address!Room(a), new)
            BY <2>3 DEF Counts
        <3>3. DOMAIN es \subseteq Address!Known /\ IsFiniteSet(DOMAIN es)
            BY RoomForgets, FS_Subset DEF AddressInv, TableFits
        <3>4. a \in Address!Known \/ Cardinality(DOMAIN Address!Room(a)) < TableEntries
            BY <1>2, <3>3, FS_CardinalityType DEF Address!LimitsAssumption
        <3>5. Len(allowed[a]) < Limit
            <4>1. Len(allowed[a]) \in Nat /\ Limit \in Nat
                BY DEF AddressInv, TableTypes, Address!LimitsAssumption
            <4>. QED  BY <2>3, <2>5, <4>1
        <3>6. UNCHANGED minute
            BY <2>1
        <3>. HIDE DEF es, new
        <3>. QED  BY <3>1, <3>2, <3>4, <3>5, <3>6, AllowedKeeps
    <2>. QED  BY <2>4, <2>5
<1>. QED  BY <1>1, <1>2

\* Time passes: what is older than the window counts no more.
LEMMA MinuteKeeps ==
    ASSUME AddressInv, Address!LimitsAssumption, Address!Tick
    PROVE  AddressInv'
<1>1. /\ minute' = minute + 1 /\ UNCHANGED <<entries, lastCleanup, verdict>>
      /\ allowed' = [a \in Addresses |-> Address!Since(allowed[a], minute' - Quota)]
    BY DEF Address!Tick
<1>2. /\ minute \in Nat /\ minute' - Quota \in Int /\ minute - Quota \in Int
      /\ minute - Quota <= minute' - Quota
    BY <1>1 DEF AddressInv, TableTypes, Address!LimitsAssumption
<1>3. ASSUME NEW a \in Addresses
      PROVE  allowed[a] \in Seq(Nat) /\ Address!Since(allowed[a], minute' - Quota) \in Seq(Nat)
    <2>1. allowed[a] \in Seq(Nat)
        BY DEF AddressInv, TableTypes
    <2>. QED  BY <1>2, <2>1, SinceFacts
<1>4. TableTypes'
    <2>1. allowed' \in [Addresses -> Seq(Nat)]
        BY <1>1, <1>3
    <2>2. lastCleanup \in 0 .. minute + 1 /\ minute + 1 \in Nat
        BY <1>2 DEF AddressInv, TableTypes
    <2>3. verdict \in [at : 0 .. minute + 1, is : {"none", "allowed", "quota", "table"}]
        <3>1. 0 .. minute \subseteq 0 .. minute + 1
            BY <1>2
        <3>. QED  BY <3>1 DEF AddressInv, TableTypes
    <2>. QED  BY <1>1, <2>1, <2>2, <2>3 DEF AddressInv, TableTypes, Address!Known
<1>5. TableFits'
    BY <1>1 DEF AddressInv, TableFits, Address!Known
<1>6. ASSUME NEW a \in Addresses PROVE Remembers(a)'
    <2>1. allowed'[a] = Address!Since(allowed[a], minute' - Quota)
        BY <1>1
    <2>2. CASE a \in Address!Known
        <3>1. /\ InOrder(entries[a]) /\ allowed[a] = Address!Since(entries[a], minute - Quota)
              /\ Address!Last(entries[a]) >= lastCleanup - Quota /\ entries[a] \in Seq(Nat)
            BY <2>2 DEF AddressInv, Remembers, InOrder
        <3>2. allowed'[a] = Address!Since(entries[a], minute' - Quota)
            <4>1. Address!Since(Address!Since(entries[a], minute - Quota), minute' - Quota)
                      = Address!Since(entries[a], minute' - Quota)
                BY <1>2, <3>1, SinceAgain
            <4>. QED  BY <2>1, <3>1, <4>1
        <3>3. InOrder(entries[a])'
            BY <1>1, <1>2, <3>1 DEF InOrder, Address!Last
        <3>. QED  BY <1>1, <2>2, <3>1, <3>2, <3>3 DEF Remembers, Address!Known, Address!Last
    <2>3. CASE a \notin Address!Known
        <3>1. allowed[a] = <<>>
            BY <2>3 DEF AddressInv, Remembers
        <3>2. Address!Since(allowed[a], minute' - Quota) = <<>>
            BY <1>2, <1>3, <3>1, SinceYoung
        <3>. QED  BY <1>1, <2>1, <2>3, <3>2 DEF Remembers, Address!Known
    <2>. QED  BY <2>2, <2>3
<1>7. Address!TurnedAwayByActive'
    <2>1. verdict.at <= minute /\ verdict.at \in Nat
        BY DEF AddressInv, TableTypes
    <2>2. verdict'.at # minute'
        BY <1>1, <1>2, <2>1
    <2>. QED  BY <2>2 DEF Address!TurnedAwayByActive
<1>. QED  BY <1>4, <1>5, <1>6, <1>7 DEF AddressInv

LEMMA AddressInvStep ==
    ASSUME AddressInv, Address!LimitsAssumption, [Address!Next]_addressVars
    PROVE  AddressInv'
<1>1. CASE Address!Tick
    BY <1>1, MinuteKeeps
<1>2. ASSUME NEW a \in Addresses, Address!Check(a) PROVE AddressInv'
    BY <1>2, CheckKeeps
<1>3. CASE UNCHANGED addressVars
    BY <1>3 DEF addressVars, AddressInv, TableTypes, TableFits, Remembers, InOrder, Address!Known,
                Address!Last, Address!TurnedAwayByActive
<1>. QED  BY <1>1, <1>2, <1>3 DEF Address!Next

LEMMA AddressInvMeans ==
    ASSUME AddressInv, Address!LimitsAssumption
    PROVE  Address!TypeOK /\ Address!WithinQuota /\ Address!TurnedAwayByActive
<1>1. Address!TypeOK
    BY AddressCardinality
       DEF Address!TypeOK, AddressInv, TableTypes, TableFits, Remembers, InOrder
<1>2. Address!WithinQuota
    BY AllowedInWindow DEF Address!WithinQuota
<1>. QED  BY <1>1, <1>2 DEF AddressInv

---------------------------------------------------------------------------
(* The response cache: src/src/fetchaller/cache/response_cache.py *)

LEMMA CacheKept == \A s, K : Cache!Kept(s, K) = Kept(s, K)
<1>1. \A S : Cache!Cardinality(S) = Cardinality(S)
    BY Zenon DEF Cache!Cardinality, Cardinality
<1>2. \A K : Cache!Ascending(K) = Ascending(K)
    BY <1>1, Zenon DEF Cache!Ascending, Ascending
<1>. QED  BY <1>2, Zenon DEF Cache!Kept, Kept

\* The key x comes after those of s; it is moved there from its place in s.
AtEnd(t, s, x) ==
    /\ \A u : In(t, u) <=> In(s, u) \/ u = x
    /\ \A u, v : Before(t, u, v) <=> Before(s, u, v) \/ (In(s, u) /\ v = x)
MovedToEnd(t, s, x) ==
    /\ \A u : In(t, u) <=> In(s, u) \/ u = x
    /\ \A u, v : Before(t, u, v) <=> \/ Before(s, u, v) /\ u # x /\ v # x
                                     \/ In(s, u) /\ u # x /\ v = x

LEMMA AppendOne ==
    ASSUME NEW S, NEW s \in Seq(S), Once(s), NEW x \in S, ~In(s, x), NEW t, t = Append(s, x)
    PROVE  /\ t \in Seq(S) /\ Once(t) /\ Len(t) = Len(s) + 1 /\ AtEnd(t, s, x)
<1>1. /\ t \in Seq(S) /\ Len(t) = Len(s) + 1 /\ t[Len(t)] = x
      /\ \A i \in 1 .. Len(s) : t[i] = s[i] /\ s[i] # x
    BY DEF In
<1>2. Len(s) \in Nat /\ \A i : i \in 1 .. Len(t) <=> i \in 1 .. Len(s) \/ i = Len(t)
    BY <1>1
<1>3. Once(t)
    BY <1>1, <1>2 DEF Once
<1>4. \A u : In(t, u) <=> In(s, u) \/ u = x
    BY <1>1, <1>2 DEF In
<1>5. ASSUME NEW u, NEW v PROVE Before(t, u, v) <=> Before(s, u, v) \/ (In(s, u) /\ v = x)
    <2>1. ASSUME Before(t, u, v) PROVE Before(s, u, v) \/ (In(s, u) /\ v = x)
        <3>1. PICK i \in 1 .. Len(t), j \in 1 .. Len(t) : i < j /\ t[i] = u /\ t[j] = v
            BY <2>1 DEF Before
        <3>2. i \in 1 .. Len(s)
            BY <1>1, <1>2, <3>1
        <3>. QED  BY <1>1, <1>2, <3>1, <3>2 DEF Before, In
    <2>2. ASSUME Before(s, u, v) PROVE Before(t, u, v)
        BY <1>1, <1>2, <2>2 DEF Before
    <2>3. ASSUME In(s, u), v = x PROVE Before(t, u, v)
        <3>1. PICK i \in 1 .. Len(s) : s[i] = u
            BY <2>3 DEF In
        <3>2. i \in 1 .. Len(t) /\ Len(t) \in 1 .. Len(t) /\ i < Len(t) /\ t[i] = u /\ t[Len(t)] = v
            BY <1>1, <1>2, <2>3, <3>1
        <3>. QED  BY <3>2 DEF Before
    <2>. QED  BY <2>1, <2>2, <2>3
<1>. QED  BY <1>1, <1>3, <1>4, <1>5 DEF AtEnd

\* The dictionary without its first key.
LEMMA TailOf ==
    ASSUME NEW S, NEW s \in Seq(S), Once(s), Len(s) > 0, NEW t, t = Tail(s)
    PROVE  /\ t \in Seq(S) /\ Once(t) /\ Len(t) = Len(s) - 1
           /\ \A u : In(t, u) <=> In(s, u) /\ u # s[1]
           /\ \A u, v : Before(t, u, v) => Before(s, u, v)
           /\ \A u : In(t, u) => Before(s, s[1], u)
<1>1. t \in Seq(S) /\ Len(t) = Len(s) - 1 /\ \A i \in 1 .. Len(t) : t[i] = s[i + 1]
    BY DEF In
<1>2. Len(s) \in Nat /\ 1 \in 1 .. Len(s) /\ \A i \in 1 .. Len(t) : i + 1 \in 1 .. Len(s)
    BY <1>1
<1>3. Once(t)
    BY <1>1, <1>2 DEF Once
<1>4. ASSUME NEW u PROVE In(t, u) <=> In(s, u) /\ u # s[1]
    <2>1. ASSUME NEW i \in 1 .. Len(t), t[i] = u PROVE In(s, u) /\ u # s[1]
        <3>1. s[i + 1] = u /\ i + 1 \in 1 .. Len(s) /\ i + 1 # 1
            BY <1>1, <1>2, <2>1
        <3>. QED  BY <1>2, <3>1 DEF In, Once
    <2>2. ASSUME NEW i \in 1 .. Len(s), s[i] = u, u # s[1] PROVE In(t, u)
        <3>1. i - 1 \in 1 .. Len(t) /\ (i - 1) + 1 = i
            BY <1>1, <2>2
        <3>2. t[i - 1] = u
            BY <1>1, <2>2, <3>1
        <3>. QED  BY <3>1, <3>2 DEF In
    <2>. QED  BY <2>1, <2>2 DEF In
<1>5. ASSUME NEW u, NEW v, Before(t, u, v) PROVE Before(s, u, v)
    <2>1. PICK i \in 1 .. Len(t), j \in 1 .. Len(t) : i < j /\ t[i] = u /\ t[j] = v
        BY <1>5 DEF Before
    <2>2. i + 1 \in 1 .. Len(s) /\ j + 1 \in 1 .. Len(s) /\ i + 1 < j + 1
          /\ s[i + 1] = u /\ s[j + 1] = v
        BY <1>1, <1>2, <2>1
    <2>. QED  BY <2>2 DEF Before
<1>6. ASSUME NEW u, In(t, u) PROVE Before(s, s[1], u)
    <2>1. PICK i \in 1 .. Len(t) : t[i] = u
        BY <1>6 DEF In
    <2>2. i + 1 \in 1 .. Len(s) /\ 1 < i + 1 /\ s[i + 1] = u
        BY <1>1, <1>2, <2>1
    <2>. QED  BY <1>2, <2>2 DEF Before
<1>. QED  BY <1>1, <1>3, <1>4, <1>5, <1>6

LEMMA WithoutOne ==
    ASSUME NEW s \in Seq(Urls), Once(s), NEW x, NEW t, t = Cache!Without(s, x)
    PROVE  /\ t \in Seq(Urls) /\ Once(t) /\ Len(t) <= Len(s)
           /\ Len(t) = Len(s) => ~In(s, x)
           /\ \A u : In(t, u) <=> In(s, u) /\ u # x
           /\ \A u, v : Before(t, u, v) <=> Before(s, u, v) /\ u # x /\ v # x
<1>. DEFINE X == Urls \ {x}
<1>1. {i \in 1 .. Len(s) : s[i] # x} = Those(s, X)
    BY DEF Those
<1>2. t = Kept(s, Those(s, X))
    BY <1>1, CacheKept DEF Cache!Without
<1>3. \A u : In(s, u) => u \in Urls
    BY DEF In
<1>4. \A u, v : Before(s, u, v) => u \in Urls /\ v \in Urls
    BY DEF Before
<1>5. \A u : u \in X <=> u \in Urls /\ u # x
    OBVIOUS
<1>. HIDE DEF X
<1>6. /\ t \in Seq(Urls) /\ Once(t) /\ Len(t) <= Len(s)
    BY <1>2, KeptThose
<1>7. Len(t) = Len(s) => \A u : In(s, u) => u \in X
    BY <1>2, KeptThose
<1>8. \A u : In(t, u) <=> In(s, u) /\ u \in X
    BY <1>2, KeptThose
<1>9. \A u, v : Before(t, u, v) <=> Before(s, u, v) /\ u \in X /\ v \in X
    BY <1>2, KeptThose
<1>. QED  BY <1>3, <1>4, <1>5, <1>6, <1>7, <1>8, <1>9

\* The key u at the end of s, where it may have been before.
LEMMA EndsWith ==
    ASSUME NEW s \in Seq(Urls), Once(s), NEW x \in Urls, NEW t, t = Cache!ToEnd(s, x)
    PROVE  /\ t \in Seq(Urls) /\ Once(t)
           /\ In(s, x) => Len(t) <= Len(s)
           /\ MovedToEnd(t, s, x)
<1>1. PICK w : w = Cache!Without(s, x)
    OBVIOUS
<1>2. w \in Seq(Urls) /\ Once(w) /\ Len(w) <= Len(s) /\ (Len(w) = Len(s) => ~In(s, x))
    BY <1>1, WithoutOne
<1>3. \A u : In(w, u) <=> In(s, u) /\ u # x
    BY <1>1, WithoutOne
<1>4. \A u, v : Before(w, u, v) <=> Before(s, u, v) /\ u # x /\ v # x
    BY <1>1, WithoutOne
<1>5. t = Append(w, x) /\ ~In(w, x)
    BY <1>1, <1>3 DEF Cache!ToEnd
<1>6. t \in Seq(Urls) /\ Once(t) /\ Len(t) = Len(w) + 1
    BY <1>2, <1>5, AppendOne
<1>7. AtEnd(t, w, x)
    BY <1>2, <1>5, AppendOne
<1>8. In(s, x) => Len(t) <= Len(s)
    BY <1>2, <1>6
<1>9. MovedToEnd(t, s, x)
    BY <1>3, <1>4, <1>7 DEF AtEnd, MovedToEnd
<1>. QED  BY <1>6, <1>8, <1>9

LEMMA RoomLeft ==
    ASSUME Cache!CacheAssumption, clock \in Nat, expires \in [Urls -> Nat],
           NEW s \in Seq(Urls), Once(s), Len(s) <= CacheEntries, NEW t, t = Cache!RoomIn(s)
    PROVE  /\ t \in Seq(Urls) /\ Once(t) /\ Len(t) < CacheEntries
           /\ \A u : In(t, u) => In(s, u)
           /\ \A u, v : Before(t, u, v) => Before(s, u, v)
           /\ \A u : In(s, u) /\ ~In(t, u) /\ expires[u] > clock =>
                  /\ Len(s) = CacheEntries
                  /\ \A v : In(s, v) /\ v # u => expires[v] > clock /\ Before(s, u, v)
<1>. DEFINE X == {v \in Urls : expires[v] > clock}
            live == Kept(s, Those(s, X))
<1>1. {i \in 1 .. Len(s) : expires[s[i]] > clock} = Those(s, X)
    BY DEF Those
<1>2. t = IF Len(s) < CacheEntries THEN s
          ELSE IF Len(live) < CacheEntries THEN live ELSE Tail(live)
    BY <1>1, CacheKept DEF Cache!RoomIn
<1>3. \A u : In(s, u) => u \in Urls
    BY DEF In
<1>4. \A u \in Urls : u \in X <=> expires[u] > clock
    OBVIOUS
<1>5. CacheEntries \in Nat \ {0}
    BY DEF Cache!CacheAssumption
<1>. HIDE DEF X
<1>6. live \in Seq(Urls) /\ Once(live) /\ Len(live) <= Len(s)
    BY KeptThose
<1>7. Len(live) = Len(s) => \A u : In(s, u) => u \in X
    BY KeptThose
<1>8. \A u : In(live, u) <=> In(s, u) /\ u \in X
    BY KeptThose
<1>9. \A u, v : Before(live, u, v) => Before(s, u, v)
    BY KeptThose
<1>. HIDE DEF live
<1>10. CASE Len(s) < CacheEntries
    <2>1. t = s
        BY <1>2, <1>10
    <2>. QED  BY <1>10, <2>1
<1>11. CASE ~(Len(s) < CacheEntries) /\ Len(live) < CacheEntries
    <2>1. t = live
        BY <1>2, <1>11
    <2>. QED  BY <1>3, <1>4, <1>6, <1>8, <1>9, <1>11, <2>1
<1>12. CASE ~(Len(s) < CacheEntries) /\ ~(Len(live) < CacheEntries)
    <2>1. t = Tail(live)
        BY <1>2, <1>12
    <2>2. Len(live) = Len(s) /\ Len(s) = CacheEntries /\ Len(live) > 0
        BY <1>5, <1>6, <1>12
    <2>3. t \in Seq(Urls) /\ Once(t) /\ Len(t) = Len(live) - 1
        BY <1>6, <2>1, <2>2, TailOf
    <2>4. \A u : In(t, u) <=> In(live, u) /\ u # live[1]
        BY <1>6, <2>1, <2>2, TailOf
    <2>5. \A u, v : Before(t, u, v) => Before(live, u, v)
        BY <1>6, <2>1, <2>2, TailOf
    <2>6. \A u : In(t, u) => Before(live, live[1], u)
        BY <1>6, <2>1, <2>2, TailOf
    <2>7. \A u : In(s, u) => In(live, u)
        BY <1>7, <1>8, <2>2
    <2>8. ASSUME NEW u, In(s, u), ~In(t, u), NEW v, In(s, v), v # u
          PROVE  expires[v] > clock /\ Before(s, u, v)
        <3>1. u = live[1] /\ In(t, v)
            BY <2>4, <2>7, <2>8
        <3>2. Before(live, u, v)
            BY <2>6, <3>1
        <3>3. v \in X
            BY <1>7, <2>2, <2>8
        <3>. QED  BY <1>3, <1>4, <1>9, <2>8, <3>2, <3>3
    <2>9. Len(t) < CacheEntries
        BY <1>5, <1>6, <2>2, <2>3
    <2>10. \A u : In(t, u) => In(s, u)
        BY <1>8, <2>4
    <2>. QED  BY <1>9, <2>2, <2>3, <2>5, <2>8, <2>9, <2>10
<1>. QED  BY <1>10, <1>11, <1>12

\* The dictionary is in the order of use.
CacheInv ==
    /\ clock \in Nat /\ expires \in [Urls -> Nat] /\ called \in Urls
    /\ cache \in Seq(Urls) /\ Once(cache) /\ Len(cache) <= CacheEntries
    /\ used \in Seq(Urls) /\ Once(used)
    /\ \A u : In(cache, u) => In(used, u)
    /\ \A u, v : Before(cache, u, v) => Before(used, u, v)

LEMMA CacheInvInit == ASSUME Cache!CacheAssumption, Cache!Init PROVE CacheInv
<1>1. called \in Urls
    BY DEF Cache!Init, Cache!CacheAssumption
<1>2. cache = <<>> /\ used = <<>> /\ clock = 1 /\ expires = [u \in Urls |-> 0]
    BY DEF Cache!Init
<1>3. cache \in Seq(Urls) /\ Once(cache) /\ used \in Seq(Urls) /\ Once(used) /\ Len(cache) = 0
    BY <1>2 DEF Once
<1>4. (\A u : ~In(cache, u)) /\ (\A u, v : ~Before(cache, u, v))
    BY <1>3 DEF In, Before
<1>. QED  BY <1>1, <1>2, <1>3, <1>4 DEF CacheInv, Cache!CacheAssumption

\* What a step does to the cache, as far as evictions are concerned.
Gives(x) ==
    \A u : In(cache, u) /\ ~In(cache', u) /\ u # x /\ expires[u] > clock =>
        /\ ~In(cache, x)
        /\ Len(cache) = CacheEntries
        /\ \A v : In(cache, v) /\ v # u => expires[v] > clock /\ Before(used, u, v)

LEMMA DroppedKeeps ==
    ASSUME CacheInv, Cache!CacheAssumption, NEW x \in Urls, cache' = Cache!Without(cache, x),
           called' = x, UNCHANGED <<clock, expires, used>>
    PROVE  CacheInv' /\ Gives(x)
<1>1. cache' \in Seq(Urls) /\ Once(cache') /\ Len(cache') <= Len(cache)
    BY WithoutOne DEF CacheInv
<1>2. \A u : In(cache', u) <=> In(cache, u) /\ u # x
    BY WithoutOne DEF CacheInv
<1>3. \A u, v : Before(cache', u, v) => Before(cache, u, v)
    BY WithoutOne DEF CacheInv
<1>4. Len(cache') <= CacheEntries
    BY <1>1 DEF CacheInv, Cache!CacheAssumption
<1>5. CacheInv'
    BY <1>1, <1>2, <1>3, <1>4 DEF CacheInv
<1>. QED  BY <1>2, <1>5 DEF Gives

LEMMA HitKeeps ==
    ASSUME CacheInv, Cache!CacheAssumption, NEW x \in Urls, In(cache, x),
           cache' = Cache!ToEnd(cache, x), used' = Cache!ToEnd(used, x),
           called' = x, UNCHANGED <<clock, expires>>
    PROVE  CacheInv' /\ Gives(x)
<1>1. cache' \in Seq(Urls) /\ Once(cache') /\ Len(cache') <= Len(cache)
    BY EndsWith DEF CacheInv
<1>2. MovedToEnd(cache', cache, x)
    BY EndsWith DEF CacheInv
<1>3. used' \in Seq(Urls) /\ Once(used')
    BY EndsWith DEF CacheInv
<1>4. MovedToEnd(used', used, x)
    BY EndsWith DEF CacheInv
<1>5. Len(cache') <= CacheEntries
    BY <1>1 DEF CacheInv, Cache!CacheAssumption
<1>6. (\A u : In(cache', u) => In(used', u)) /\ \A u, v : Before(cache', u, v) => Before(used', u, v)
    BY <1>2, <1>4 DEF MovedToEnd, CacheInv
<1>7. CacheInv'
    BY <1>1, <1>3, <1>5, <1>6 DEF CacheInv
<1>. QED  BY <1>2, <1>7 DEF Gives, MovedToEnd

LEMMA SetKeeps ==
    ASSUME CacheInv, Cache!CacheAssumption, NEW x \in Urls, NEW ttl \in Ttls, Cache!Set(x, ttl)
    PROVE  CacheInv' /\ Gives(x)
<1>1. PICK w : w = Cache!Without(cache, x)
    OBVIOUS
<1>2. PICK r : r = Cache!RoomIn(w)
    OBVIOUS
<1>3. /\ cache' = Append(r, x) /\ used' = Cache!ToEnd(used, x) /\ called' = x
      /\ expires' = [expires EXCEPT ![x] = clock + ttl] /\ UNCHANGED clock
    BY <1>1, <1>2 DEF Cache!Set
<1>4. w \in Seq(Urls) /\ Once(w) /\ Len(w) <= Len(cache) /\ (Len(w) = Len(cache) => ~In(cache, x))
    BY <1>1, WithoutOne DEF CacheInv
<1>5. \A u : In(w, u) <=> In(cache, u) /\ u # x
    BY <1>1, WithoutOne DEF CacheInv
<1>6. \A u, v : Before(w, u, v) => Before(cache, u, v) /\ u # x /\ v # x
    BY <1>1, WithoutOne DEF CacheInv
<1>7. Len(w) <= CacheEntries /\ clock \in Nat /\ expires \in [Urls -> Nat] /\ CacheEntries \in Nat
    BY <1>4 DEF CacheInv, Cache!CacheAssumption
<1>8. r \in Seq(Urls) /\ Once(r) /\ Len(r) < CacheEntries
    BY <1>2, <1>4, <1>7, RoomLeft
<1>9. \A u : In(r, u) => In(w, u)
    BY <1>2, <1>4, <1>7, RoomLeft
<1>10. \A u, v : Before(r, u, v) => Before(w, u, v)
    BY <1>2, <1>4, <1>7, RoomLeft
<1>11. \A u : In(w, u) /\ ~In(r, u) /\ expires[u] > clock =>
                  /\ Len(w) = CacheEntries
                  /\ \A v : In(w, v) /\ v # u => expires[v] > clock /\ Before(w, u, v)
    BY <1>2, <1>4, <1>7, RoomLeft
<1>12. ~In(r, x)
    BY <1>5, <1>9
<1>13. cache' \in Seq(Urls) /\ Once(cache') /\ Len(cache') = Len(r) + 1
    BY <1>3, <1>8, <1>12, AppendOne
<1>14. AtEnd(cache', r, x)
    BY <1>3, <1>8, <1>12, AppendOne
<1>15. (\A u : In(cache', u) <=> In(r, u) \/ u = x)
       /\ \A u, v : Before(cache', u, v) <=> Before(r, u, v) \/ (In(r, u) /\ v = x)
    BY <1>14 DEF AtEnd
<1>16. used' \in Seq(Urls) /\ Once(used')
    BY <1>3, EndsWith DEF CacheInv
<1>17. MovedToEnd(used', used, x)
    BY <1>3, EndsWith DEF CacheInv
<1>18. (\A u : In(used', u) <=> In(used, u) \/ u = x)
       /\ \A u, v : Before(used', u, v) <=>
                     (Before(used, u, v) /\ u # x /\ v # x) \/ (In(used, u) /\ u # x /\ v = x)
    BY <1>17 DEF MovedToEnd
<1>19. Len(cache') <= CacheEntries
    BY <1>7, <1>8, <1>13
<1>20. expires' \in [Urls -> Nat]
    BY <1>3, <1>7 DEF Cache!CacheAssumption
<1>21. \A u : In(cache', u) => In(used', u)
    BY <1>5, <1>9, <1>15, <1>18 DEF CacheInv
<1>22. \A u, v : Before(cache', u, v) => Before(used', u, v)
    BY <1>5, <1>6, <1>9, <1>10, <1>15, <1>18 DEF CacheInv
<1>23. CacheInv'
    BY <1>3, <1>7, <1>13, <1>16, <1>19, <1>20, <1>21, <1>22 DEF CacheInv
<1>24. Gives(x)
    <2>. SUFFICES ASSUME NEW u, In(cache, u), ~In(cache', u), u # x, expires[u] > clock
                  PROVE  /\ ~In(cache, x)
                         /\ Len(cache) = CacheEntries
                         /\ \A v : In(cache, v) /\ v # u => expires[v] > clock /\ Before(used, u, v)
        BY DEF Gives
    <2>1. In(w, u) /\ ~In(r, u)
        BY <1>5, <1>15
    <2>2. Len(w) = CacheEntries
        BY <1>11, <2>1
    <2>3. Len(w) = Len(cache) /\ Len(cache) = CacheEntries
        BY <1>4, <1>7, <2>2 DEF CacheInv
    <2>4. ~In(cache, x)
        BY <1>4, <2>3
    <2>5. ASSUME NEW v, In(cache, v), v # u PROVE expires[v] > clock /\ Before(used, u, v)
        <3>1. In(w, v)
            BY <1>5, <2>4, <2>5
        <3>2. expires[v] > clock /\ Before(w, u, v)
            BY <1>11, <2>1, <2>5, <3>1
        <3>. QED  BY <1>6, <3>2 DEF CacheInv
    <2>. QED  BY <2>3, <2>4, <2>5
<1>. QED  BY <1>23, <1>24

LEMMA CacheInvStep ==
    ASSUME CacheInv, Cache!CacheAssumption, [Cache!Next]_cacheVars
    PROVE  CacheInv' /\ (UNCHANGED cache \/ Gives(called'))
<1>1. CASE Cache!Tick
    BY <1>1 DEF Cache!Tick, CacheInv
<1>2. ASSUME NEW x \in Urls, Cache!Get(x) PROVE CacheInv' /\ Gives(called')
    <2>1. called' = x /\ UNCHANGED <<clock, expires>>
        BY <1>2 DEF Cache!Get
    <2>2. CASE Cache!Contains(cache, x) /\ expires[x] > clock
        <3>1. In(cache, x)
            BY <2>2 DEF Cache!Contains, In
        <3>2. cache' = Cache!ToEnd(cache, x) /\ used' = Cache!ToEnd(used, x)
            BY <1>2, <2>2 DEF Cache!Get
        <3>. QED  BY <2>1, <3>1, <3>2, HitKeeps
    <2>3. CASE ~(Cache!Contains(cache, x) /\ expires[x] > clock)
        <3>1. cache' = Cache!Without(cache, x) /\ UNCHANGED used
            BY <1>2, <2>3 DEF Cache!Get
        <3>. QED  BY <2>1, <3>1, DroppedKeeps
    <2>. QED  BY <2>2, <2>3
<1>3. ASSUME NEW x \in Urls, Cache!Drop(x) PROVE CacheInv' /\ Gives(called')
    <2>1. cache' = Cache!Without(cache, x) /\ called' = x /\ UNCHANGED <<clock, expires, used>>
        BY <1>3 DEF Cache!Drop
    <2>. QED  BY <2>1, DroppedKeeps
<1>4. ASSUME NEW x \in Urls, NEW ttl \in Ttls, Cache!Set(x, ttl) PROVE CacheInv' /\ Gives(called')
    <2>1. called' = x
        BY <1>4 DEF Cache!Set
    <2>. QED  BY <1>4, <2>1, SetKeeps
<1>5. CASE UNCHANGED cacheVars
    BY <1>5 DEF cacheVars, CacheInv
<1>. QED  BY <1>1, <1>2, <1>3, <1>4, <1>5 DEF Cache!Next

\* Of two URLs in an order, the first has the smaller position.
LEMMA PositionsInOrder ==
    ASSUME NEW s \in Seq(Urls), Once(s), NEW u, NEW v, Before(s, u, v)
    PROVE  Cache!Position(s, u) < Cache!Position(s, v)
<1>1. PICK i \in 1 .. Len(s), j \in 1 .. Len(s) : i < j /\ s[i] = u /\ s[j] = v
    BY DEF Before
<1>2. \A k \in 1 .. Len(s) : (s[k] = u => k = i) /\ (s[k] = v => k = j)
    BY <1>1 DEF Once
<1>3. Cache!Position(s, u) = i /\ Cache!Position(s, v) = j
    BY <1>1, <1>2 DEF Cache!Position
<1>. QED  BY <1>1, <1>3

LEMMA CacheInvMeans ==
    ASSUME CacheInv
    PROVE  Cache!TypeOK
<1>1. Cache!IsInjective(cache) /\ Cache!IsInjective(used)
    <2>1. DOMAIN cache = 1 .. Len(cache) /\ DOMAIN used = 1 .. Len(used)
        BY DEF CacheInv
    <2>. QED  BY <2>1 DEF CacheInv, Once, Cache!IsInjective
<1>. QED  BY <1>1 DEF CacheInv, Cache!TypeOK

\* The action property, step by step.
EvictsOk ==
    \A u \in Urls :
        Cache!Contains(cache, u) /\ ~Cache!Contains(cache', u) /\ u # called' /\ expires[u] > clock =>
            /\ ~Cache!Contains(cache, called')
            /\ Len(cache) = CacheEntries
            /\ \A v \in Cache!ToSet(cache) \ {u} :
                   expires[v] > clock /\ Cache!Position(used, u) < Cache!Position(used, v)

LEMMA EvictionsOk ==
    ASSUME CacheInv, Cache!CacheAssumption, [Cache!Next]_cacheVars
    PROVE  EvictsOk
<1>. SUFFICES ASSUME NEW u \in Urls, Cache!Contains(cache, u), ~Cache!Contains(cache', u),
                     u # called', expires[u] > clock
              PROVE  /\ ~Cache!Contains(cache, called')
                     /\ Len(cache) = CacheEntries
                     /\ \A v \in Cache!ToSet(cache) \ {u} :
                            expires[v] > clock /\ Cache!Position(used, u) < Cache!Position(used, v)
    BY DEF EvictsOk
<1>1. \A s, x : Cache!Contains(s, x) <=> In(s, x)
    BY DEF Cache!Contains, In
<1>2. cache' # cache
    OBVIOUS
<1>3. Gives(called')
    BY <1>2, CacheInvStep
<1>4. /\ ~In(cache, called') /\ Len(cache) = CacheEntries
      /\ \A v : In(cache, v) /\ v # u => expires[v] > clock /\ Before(used, u, v)
    BY <1>1, <1>3 DEF Gives
<1>5. ASSUME NEW v \in Cache!ToSet(cache) \ {u}
      PROVE  expires[v] > clock /\ Cache!Position(used, u) < Cache!Position(used, v)
    <2>1. In(cache, v) /\ v # u
        BY <1>5 DEF Cache!ToSet, In, CacheInv
    <2>. QED  BY <1>4, <2>1, PositionsInOrder DEF CacheInv
<1>. QED  BY <1>1, <1>4, <1>5

---------------------------------------------------------------------------
(* The DNS cache: src/src/fetchaller/security/ssrf.py *)

DnsKinds == {"ips", "fail", "sinkhole"}
TtlOf(why) == IF why = "ips" THEN Ttl ELSE IF why = "fail" THEN NegativeTtl ELSE SinkholeTtl

\* An answer is kept for the time to live of its kind, from when it was asked for.
Kinds == [host : Hosts, why : DnsKinds, asked : Nat, until : Nat]
Answers == {e \in Kinds : e.until = e.asked + TtlOf(e.why)}
Marks == [host : Hosts, until : Nat]
Asked == [pc : {"queued", "running", "doh", "marked"}, host : Hosts, asked : Nat]
Asks == {Dns!Idle} \cup Asked

\* A bounded dictionary of records, with one for each host.
TableOf(s, S) ==
    /\ s \in Seq(S) /\ Len(s) <= DnsEntries
    /\ \A i, j \in 1 .. Len(s) : s[i].host = s[j].host => i = j

LEMMA DnsKept == \A s, K : Dns!Kept(s, K) = Kept(s, K)
<1>1. \A S : Dns!Cardinality(S) = Cardinality(S)
    BY Zenon DEF Dns!Cardinality, Cardinality
<1>2. \A K : Dns!Ascending(K) = Ascending(K)
    BY <1>1, Zenon DEF Dns!Ascending, Ascending
<1>. QED  BY <1>2, Zenon DEF Dns!Kept, Kept

LEMMA RoomForOne ==
    ASSUME Dns!DnsAssumption, NEW S, NEW s, TableOf(s, S), NEW asked, NEW t, t = Dns!Room(s, asked)
    PROVE  TableOf(t, S) /\ Len(t) < DnsEntries
<1>. DEFINE K == {i \in 1 .. Len(s) : asked < s[i].until}
            live == Kept(s, K)
            half == DnsEntries \div 2
<1>1. t = IF Len(s) < DnsEntries THEN s
          ELSE IF Len(live) < DnsEntries THEN live
          ELSE SubSeq(live, half + 1, Len(live))
    BY DnsKept DEF Dns!Room
<1>2. s \in Seq(S) /\ K \in SUBSET (1 .. Len(s))
    BY DEF TableOf
<1>3. DnsEntries \in Nat \ {0, 1}
    BY DEF Dns!DnsAssumption
<1>4. half \in Nat \ {0} /\ half < DnsEntries
    BY <1>3
<1>. HIDE DEF K, half
<1>5. live \in Seq(S) /\ Len(live) <= Len(s)
    BY <1>2, KeptOf
<1>6. PICK f \in [1 .. Len(live) -> K] :
          /\ Ascends(f)
          /\ \A x \in K : \E i \in 1 .. Len(live) : f[i] = x
          /\ \A i \in 1 .. Len(live) : live[i] = s[f[i]]
    BY <1>2, KeptOf
<1>. HIDE DEF live
<1>7. ASSUME NEW i \in 1 .. Len(live), NEW j \in 1 .. Len(live), live[i].host = live[j].host
      PROVE  i = j
    <2>1. f[i] \in 1 .. Len(s) /\ f[j] \in 1 .. Len(s)
        BY <1>2, <1>6
    <2>2. s[f[i]].host = s[f[j]].host
        BY <1>6, <1>7
    <2>3. f[i] = f[j] /\ f[i] \in Int
        BY <2>1, <2>2 DEF TableOf
    <2>4. (i < j => f[i] < f[j]) /\ (j < i => f[j] < f[i])
        BY <1>6 DEF Ascends
    <2>. QED  BY <2>3, <2>4
<1>8. TableOf(live, S)
    BY <1>3, <1>5, <1>7 DEF TableOf
<1>9. CASE Len(s) < DnsEntries
    BY <1>1, <1>9
<1>10. CASE ~(Len(s) < DnsEntries) /\ Len(live) < DnsEntries
    BY <1>1, <1>8, <1>10
<1>11. CASE ~(Len(s) < DnsEntries) /\ ~(Len(live) < DnsEntries)
    <2>1. t = SubSeq(live, half + 1, Len(live))
        BY <1>1, <1>11
    <2>6. Len(live) = DnsEntries
        <3>1. Len(live) \in Nat /\ Len(live) <= DnsEntries
            BY <1>5, <1>8 DEF TableOf
        <3>. QED  BY <1>3, <1>11, <3>1
    <2>2. t \in Seq(S) /\ Len(t) = Len(live) - half
        BY <1>3, <1>4, <1>5, <2>1, <2>6
    <2>3. \A i \in 1 .. Len(t) : i + half \in 1 .. Len(live) /\ t[i] = live[i + half]
        BY <1>3, <1>4, <1>5, <2>1, <2>2, <2>6
    <2>4. ASSUME NEW i \in 1 .. Len(t), NEW j \in 1 .. Len(t), t[i].host = t[j].host PROVE i = j
        <3>1. i + half = j + half
            BY <1>7, <2>3, <2>4
        <3>. QED  BY <1>4, <3>1
    <2>5. Len(t) < DnsEntries /\ Len(t) \in Nat
        BY <1>3, <1>4, <2>6, <2>2
    <2>7. Len(t) <= DnsEntries
        BY <1>3, <2>5
    <2>. QED  BY <2>2, <2>4, <2>5, <2>7 DEF TableOf
<1>. QED  BY <1>9, <1>10, <1>11

LEMMA PutOne ==
    ASSUME Dns!DnsAssumption, NEW S, NEW s, TableOf(s, S), Len(s) < DnsEntries, NEW e \in S,
           NEW t, t = Dns!Put(s, e)
    PROVE  TableOf(t, S)
<1>1. s \in Seq(S) /\ DnsEntries \in Nat /\ Len(s) \in Nat
    BY DEF TableOf, Dns!DnsAssumption
<1>2. CASE Dns!Has(s, e.host)
    <2>1. t = [i \in 1 .. Len(s) |-> IF s[i].host = e.host THEN e ELSE s[i]]
        BY <1>2 DEF Dns!Put
    <2>2. t \in Seq(S) /\ Len(t) = Len(s)
        BY <1>1, <2>1
    <2>3. \A i \in 1 .. Len(t) : t[i].host = s[i].host
        BY <1>1, <2>1, <2>2
    <2>. QED  BY <2>2, <2>3 DEF TableOf
<1>3. CASE ~Dns!Has(s, e.host)
    <2>1. t = Append(s, e)
        BY <1>3 DEF Dns!Put
    <2>2. t \in Seq(S) /\ Len(t) = Len(s) + 1 /\ t[Len(t)] = e /\ \A i \in 1 .. Len(s) : t[i] = s[i]
        BY <1>1, <2>1
    <2>3. \A i \in 1 .. Len(s) : s[i].host # e.host
        BY <1>3 DEF Dns!Has
    <2>4. \A i : i \in 1 .. Len(t) <=> i \in 1 .. Len(s) \/ i = Len(t)
        BY <1>1, <2>2
    <2>5. Len(t) <= DnsEntries
        BY <1>1, <2>2
    <2>. QED  BY <2>2, <2>3, <2>4, <2>5 DEF TableOf
<1>. QED  BY <1>2, <1>3

\* The lookups that a resolver thread is at work on.
Running == {d \in Checkers : ask[d].pc = "running"}

LEMMA RunningAfter ==
    ASSUME Dns!DnsAssumption, ask \in [Checkers -> Asks], NEW c \in Checkers, NEW a \in Asks,
           ask' = [ask EXCEPT ![c] = a]
    PROVE  /\ ask' \in [Checkers -> Asks]
           /\ Cardinality(Running) \in Nat /\ Cardinality(Running') \in Nat
           /\ a.pc # "running" => Cardinality(Running') <= Cardinality(Running)
           /\ a.pc # "running" /\ ask[c].pc = "running" =>
                  Cardinality(Running') = Cardinality(Running) - 1
           /\ Cardinality(Running') <= Cardinality(Running) + 1
<1>1. IsFiniteSet(Checkers)
    BY DEF Dns!DnsAssumption, Dns!IsFiniteSet, IsFiniteSet
<1>2. IsFiniteSet(Running) /\ IsFiniteSet(Running')
    BY <1>1, FS_Subset DEF Running
<1>3. Cardinality(Running) \in Nat /\ Cardinality(Running') \in Nat
    BY <1>2, FS_CardinalityType
<1>4. ask'[c] = a /\ \A d \in Checkers \ {c} : ask'[d] = ask[d]
    OBVIOUS
<1>5. Running' \ {c} = Running \ {c}
    BY <1>4 DEF Running
<1>6. /\ Cardinality(Running \ {c}) = IF c \in Running THEN Cardinality(Running) - 1 ELSE Cardinality(Running)
      /\ Cardinality(Running' \ {c}) = IF c \in Running' THEN Cardinality(Running') - 1 ELSE Cardinality(Running')
    BY <1>2, FS_RemoveElement
<1>7. (c \in Running <=> ask[c].pc = "running") /\ (c \in Running' <=> a.pc = "running")
    BY <1>4 DEF Running
<1>8. ask' \in [Checkers -> Asks]
    OBVIOUS
<1>. DEFINE before == Cardinality(Running)
            after == Cardinality(Running')
<1>9. (IF c \in Running THEN before - 1 ELSE before) = (IF c \in Running' THEN after - 1 ELSE after)
    BY <1>5, <1>6
<1>10. before \in Nat /\ after \in Nat
    BY <1>3
<1>. HIDE DEF before, after
<1>11. /\ a.pc # "running" => after <= before
       /\ a.pc # "running" /\ ask[c].pc = "running" => after = before - 1
       /\ after <= before + 1
    BY <1>7, <1>9, <1>10
<1>. QED  BY <1>3, <1>8, <1>11 DEF before, after

DnsInv ==
    /\ dnsTime \in Nat
    /\ TableOf(answers, Answers)
    /\ TableOf(sinkholed, Marks)
    /\ ask \in [Checkers -> Asks]
    /\ stuck \in Nat /\ stuck + Cardinality(Running) <= Workers
    /\ served \subseteq Answers /\ Cardinality(served) <= 1
    /\ \A e \in served : dnsTime < e.until

LEMMA NothingServed == Cardinality({}) = 0
    BY FS_EmptySet

LEMMA DnsInvInit == ASSUME Dns!DnsAssumption, Dns!Init PROVE DnsInv
<1>1. answers = <<>> /\ sinkholed = <<>> /\ dnsTime = 0 /\ stuck = 0 /\ served = {}
      /\ ask = [c \in Checkers |-> Dns!Idle]
    BY DEF Dns!Init
<1>2. DnsEntries \in Nat /\ Workers \in Nat
    BY DEF Dns!DnsAssumption
<1>3. TableOf(answers, Answers) /\ TableOf(sinkholed, Marks)
    BY <1>1, <1>2 DEF TableOf
<1>4. Running = {}
    BY <1>1 DEF Running, Dns!Idle
<1>. QED  BY <1>1, <1>2, <1>3, <1>4, NothingServed DEF DnsInv, Asks

LEMMA StoreKeeps ==
    ASSUME DnsInv, Dns!DnsAssumption, NEW c \in Checkers, ask[c] # Dns!Idle,
           NEW why \in DnsKinds, NEW ttl, ttl = TtlOf(why), Dns!Store(c, why, ttl)
    PROVE  /\ TableOf(answers', Answers)
           /\ ask' = [ask EXCEPT ![c] = Dns!Idle]
           /\ served' = {}
<1>. DEFINE e == [host |-> ask[c].host, why |-> why, asked |-> ask[c].asked,
                  until |-> ask[c].asked + ttl]
            room == Dns!Room(answers, ask[c].asked)
<1>1. answers' = Dns!Put(room, e) /\ ask' = [ask EXCEPT ![c] = Dns!Idle] /\ served' = {}
    BY DEF Dns!Store, Dns!KeptUntil
<1>2. ask[c] \in Asked
    BY DEF DnsInv, Asks
<1>3. ttl \in Nat
    BY DEF TtlOf, Dns!DnsAssumption
<1>4. e \in Answers
    BY <1>2, <1>3 DEF Asked, Answers, Kinds
<1>5. TableOf(room, Answers) /\ Len(room) < DnsEntries
    BY RoomForOne DEF DnsInv
<1>. HIDE DEF room, e
<1>6. TableOf(answers', Answers)
    BY <1>1, <1>4, <1>5, PutOne
<1>. QED  BY <1>1, <1>6

LEMMA MarkKeeps ==
    ASSUME DnsInv, Dns!DnsAssumption, NEW c \in Checkers, ask[c] # Dns!Idle, Dns!Mark(c)
    PROVE  /\ TableOf(sinkholed', Marks)
           /\ ask' = [ask EXCEPT ![c] = [ask[c] EXCEPT !.pc = "marked"]]
           /\ served' = {}
<1>. DEFINE e == [host |-> ask[c].host, until |-> ask[c].asked + SinkholeTtl]
            room == Dns!Room(sinkholed, ask[c].asked)
<1>1. sinkholed' = Dns!Put(room, e) /\ served' = {}
      /\ ask' = [ask EXCEPT ![c] = [ask[c] EXCEPT !.pc = "marked"]]
    BY DEF Dns!Mark, Dns!MarkUntil
<1>2. ask[c] \in Asked
    BY DEF DnsInv, Asks
<1>3. SinkholeTtl \in Nat
    BY DEF Dns!DnsAssumption
<1>4. e \in Marks
    BY <1>2, <1>3 DEF Asked, Marks
<1>5. TableOf(room, Marks) /\ Len(room) < DnsEntries
    BY RoomForOne DEF DnsInv
<1>. HIDE DEF room, e
<1>6. TableOf(sinkholed', Marks)
    BY <1>1, <1>4, <1>5, PutOne
<1>. QED  BY <1>1, <1>6

\* A lookup goes on, and nobody is served.
LEMMA AskKeeps ==
    ASSUME DnsInv, Dns!DnsAssumption, NEW c \in Checkers, NEW a \in Asks,
           ask' = [ask EXCEPT ![c] = a], served' = {},
           TableOf(answers', Answers), TableOf(sinkholed', Marks), UNCHANGED dnsTime,
           \/ UNCHANGED stuck /\ a.pc # "running"
           \/ stuck' = stuck + 1 /\ a.pc # "running" /\ ask[c].pc = "running"
           \/ UNCHANGED stuck /\ stuck + Cardinality(Running) < Workers
    PROVE  DnsInv'
<1>1. ask' \in [Checkers -> Asks]
    BY RunningAfter DEF DnsInv
<1>2. Cardinality(Running) \in Nat /\ Cardinality(Running') \in Nat
    BY RunningAfter DEF DnsInv
<1>3. /\ a.pc # "running" => Cardinality(Running') <= Cardinality(Running)
      /\ a.pc # "running" /\ ask[c].pc = "running" =>
             Cardinality(Running') = Cardinality(Running) - 1
      /\ Cardinality(Running') <= Cardinality(Running) + 1
    BY RunningAfter DEF DnsInv
<1>4. Workers \in Nat /\ stuck \in Nat /\ stuck + Cardinality(Running) <= Workers
    BY DEF DnsInv, Dns!DnsAssumption
<1>5. stuck' \in Nat /\ stuck' + Cardinality(Running') <= Workers
    BY <1>2, <1>3, <1>4
<1>. QED  BY <1>1, <1>5, NothingServed DEF DnsInv

LEMMA IdleAsk == Dns!Idle \in Asks /\ Dns!Idle.pc # "running" /\ Dns!Idle.pc = "idle"
    BY DEF Asks, Dns!Idle

LEMMA AskedIn == ASSUME DnsInv, NEW c \in Checkers, ask[c].pc # "idle"
                 PROVE  ask[c] \in Asked /\ ask[c] # Dns!Idle
    BY DEF DnsInv, Asks, Dns!Idle

LEMMA LookupKeeps ==
    ASSUME DnsInv, Dns!DnsAssumption, NEW c \in Checkers, NEW h \in Hosts, Dns!Check(c, h)
    PROVE  DnsInv'
<1>1. UNCHANGED <<dnsTime, answers, sinkholed, stuck>>
    BY DEF Dns!Check
<1>2. CASE Dns!Hit(h) /\ served' = {Dns!Get(answers, h)} /\ UNCHANGED ask
    <2>1. PICK i \in 1 .. Len(answers) : answers[i].host = h
        BY <1>2 DEF Dns!Hit, Dns!Has
    <2>2. Dns!Get(answers, h) = answers[CHOOSE k \in 1 .. Len(answers) : answers[k].host = h]
        BY DEF Dns!Get
    <2>3. PICK k \in 1 .. Len(answers) : Dns!Get(answers, h) = answers[k]
        BY <2>1, <2>2
    <2>4. Dns!Get(answers, h) \in Answers
        BY <2>3 DEF DnsInv, TableOf
    <2>5. dnsTime < Dns!Get(answers, h).until
        BY <1>2 DEF Dns!Hit
    <2>6. Cardinality(served') = 1
        BY <1>2, FS_Singleton
    <2>7. Running' = Running
        BY <1>2 DEF Running
    <2>. QED  BY <1>1, <1>2, <2>4, <2>5, <2>6, <2>7 DEF DnsInv
<1>3. CASE /\ served' = {}
           /\ ask' = [ask EXCEPT ![c] = [pc |-> "queued", host |-> h, asked |-> dnsTime]]
    <2>1. [pc |-> "queued", host |-> h, asked |-> dnsTime] \in Asks
        BY DEF DnsInv, Asks, Asked
    <2>2. TableOf(answers', Answers) /\ TableOf(sinkholed', Marks)
        BY <1>1 DEF DnsInv
    <2>. QED  BY <1>1, <1>3, <2>1, <2>2, AskKeeps
<1>. QED  BY <1>2, <1>3 DEF Dns!Check

LEMMA BeginKeeps ==
    ASSUME DnsInv, Dns!DnsAssumption, NEW c \in Checkers, Dns!Begin(c)
    PROVE  DnsInv'
<1>1. ask[c] \in Asked
    BY AskedIn DEF Dns!Begin
<1>2. [ask[c] EXCEPT !.pc = "running"] \in Asks
    BY <1>1 DEF Asked, Asks
<1>3. ask' = [ask EXCEPT ![c] = [ask[c] EXCEPT !.pc = "running"]] /\ served' = {}
      /\ UNCHANGED <<dnsTime, answers, sinkholed, stuck>>
    BY DEF Dns!Begin
<1>4. \A S : Dns!Cardinality(S) = Cardinality(S)
    BY Zenon DEF Dns!Cardinality, Cardinality
<1>5. stuck + Cardinality(Running) < Workers
    BY <1>4 DEF Dns!Begin, Running
<1>6. TableOf(answers', Answers) /\ TableOf(sinkholed', Marks)
    BY <1>3 DEF DnsInv
<1>. QED  BY <1>2, <1>3, <1>5, <1>6, AskKeeps

LEMMA StoreStepKeeps ==
    ASSUME DnsInv, Dns!DnsAssumption, NEW c \in Checkers, ask[c].pc # "idle",
           NEW why \in DnsKinds, NEW ttl, ttl = TtlOf(why), Dns!Store(c, why, ttl),
           UNCHANGED <<dnsTime, sinkholed>>,
           \/ UNCHANGED stuck
           \/ stuck' = stuck + 1 /\ ask[c].pc = "running"
    PROVE  DnsInv'
<1>1. ask[c] # Dns!Idle
    BY AskedIn
<1>2. TableOf(answers', Answers) /\ ask' = [ask EXCEPT ![c] = Dns!Idle] /\ served' = {}
    BY <1>1, StoreKeeps
<1>3. TableOf(sinkholed', Marks)
    BY DEF DnsInv
<1>. QED  BY <1>2, <1>3, IdleAsk, AskKeeps

LEMMA MarkStepKeeps ==
    ASSUME DnsInv, Dns!DnsAssumption, NEW c \in Checkers, ask[c].pc # "idle", Dns!Mark(c),
           UNCHANGED <<dnsTime, answers, stuck>>
    PROVE  DnsInv'
<1>1. ask[c] # Dns!Idle /\ ask[c] \in Asked
    BY AskedIn
<1>2. /\ TableOf(sinkholed', Marks) /\ served' = {}
      /\ ask' = [ask EXCEPT ![c] = [ask[c] EXCEPT !.pc = "marked"]]
    BY <1>1, MarkKeeps
<1>3. TableOf(answers', Answers)
    BY DEF DnsInv
<1>4. [ask[c] EXCEPT !.pc = "marked"] \in Asks /\ [ask[c] EXCEPT !.pc = "marked"].pc = "marked"
    BY <1>1 DEF Asked, Asks
<1>. QED  BY <1>2, <1>3, <1>4, AskKeeps

LEMMA LeaveKeeps ==
    ASSUME DnsInv, Dns!DnsAssumption, NEW c \in Checkers, served' = {},
           ask' = [ask EXCEPT ![c] = Dns!Idle], UNCHANGED <<dnsTime, answers, sinkholed>>,
           \/ UNCHANGED stuck
           \/ stuck' = stuck + 1 /\ ask[c].pc = "running"
    PROVE  DnsInv'
<1>1. TableOf(answers', Answers) /\ TableOf(sinkholed', Marks)
    BY DEF DnsInv
<1>. QED  BY <1>1, IdleAsk, AskKeeps

LEMMA SinkholesKeeps ==
    ASSUME DnsInv, Dns!DnsAssumption, NEW c \in Checkers, Dns!Sinkholes(c)
    PROVE  DnsInv'
<1>1. ask[c].pc = "running" /\ UNCHANGED <<dnsTime, answers, stuck>>
    BY DEF Dns!Sinkholes
<1>2. CASE Dns!Mark(c)
    BY <1>1, <1>2, MarkStepKeeps
<1>3. CASE ask' = [ask EXCEPT ![c].pc = "doh"] /\ served' = {} /\ UNCHANGED sinkholed
    <2>1. ask[c] \in Asked
        BY <1>1, AskedIn
    <2>2. [ask[c] EXCEPT !.pc = "doh"] \in Asks /\ [ask[c] EXCEPT !.pc = "doh"].pc = "doh"
        BY <2>1 DEF Asked, Asks
    <2>3. TableOf(answers', Answers) /\ TableOf(sinkholed', Marks)
        BY <1>1, <1>3 DEF DnsInv
    <2>. QED  BY <1>1, <1>3, <2>2, <2>3, AskKeeps
<1>. QED  BY <1>2, <1>3 DEF Dns!Sinkholes

LEMMA DnsInvStep ==
    ASSUME DnsInv, Dns!DnsAssumption, [Dns!Next]_dnsVars
    PROVE  DnsInv'
<1>1. CASE Dns!Tick
    BY <1>1, NothingServed DEF Dns!Tick, DnsInv, Running
<1>2. CASE Dns!ThreadEnds
    <2>1. stuck > 0 /\ stuck' = stuck - 1 /\ served' = {}
          /\ UNCHANGED <<dnsTime, answers, sinkholed, ask>>
        BY <1>2 DEF Dns!ThreadEnds
    <2>2. Running' = Running
        BY <2>1 DEF Running
    <2>3. Cardinality(Running) \in Nat
        <3>1. IsFiniteSet(Checkers)
            BY DEF Dns!DnsAssumption, Dns!IsFiniteSet, IsFiniteSet
        <3>. QED  BY <3>1, FS_Subset, FS_CardinalityType DEF Running
    <2>4. stuck' \in Nat /\ stuck' + Cardinality(Running) <= Workers
        BY <2>1, <2>3 DEF DnsInv, Dns!DnsAssumption
    <2>. QED  BY <2>1, <2>2, <2>4, NothingServed DEF DnsInv
<1>3. ASSUME NEW c \in Checkers, NEW h \in Hosts, Dns!Check(c, h) PROVE DnsInv'
    BY <1>3, LookupKeeps
<1>4. ASSUME NEW c \in Checkers, Dns!Begin(c) PROVE DnsInv'
    BY <1>4, BeginKeeps
<1>5. ASSUME NEW c \in Checkers, Dns!Fails(c) PROVE DnsInv'
    <2>1. NegativeTtl = TtlOf("fail") /\ "fail" \in DnsKinds
        BY DEF TtlOf, DnsKinds
    <2>2. Dns!Store(c, "fail", NegativeTtl) /\ ask[c].pc = "running"
          /\ UNCHANGED <<dnsTime, sinkholed, stuck>>
        BY <1>5 DEF Dns!Fails, Dns!StoreFailure
    <2>. QED  BY <2>1, <2>2, StoreStepKeeps
<1>6. ASSUME NEW c \in Checkers, Dns!Resolves(c) PROVE DnsInv'
    <2>1. Ttl = TtlOf("ips") /\ "ips" \in DnsKinds
        BY DEF TtlOf, DnsKinds
    <2>2. Dns!Store(c, "ips", Ttl) /\ ask[c].pc # "idle" /\ UNCHANGED <<dnsTime, sinkholed, stuck>>
        BY <1>6 DEF Dns!Resolves
    <2>. QED  BY <2>1, <2>2, StoreStepKeeps
<1>7. ASSUME NEW c \in Checkers, Dns!NoAddress(c) PROVE DnsInv'
    BY <1>7, LeaveKeeps DEF Dns!NoAddress
<1>8. ASSUME NEW c \in Checkers, Dns!Sinkholes(c) PROVE DnsInv'
    BY <1>8, SinkholesKeeps
<1>9. ASSUME NEW c \in Checkers, Dns!Leaves(c) PROVE DnsInv'
    <2>1. UNCHANGED stuck \/ (stuck' = stuck + 1 /\ ask[c].pc = "running")
        BY <1>9 DEF Dns!Leaves
    <2>. QED  BY <1>9, <2>1, LeaveKeeps DEF Dns!Leaves
<1>10. ASSUME NEW c \in Checkers, Dns!TimesOut(c) PROVE DnsInv'
    <2>1. NegativeTtl = TtlOf("fail") /\ "fail" \in DnsKinds
        BY DEF TtlOf, DnsKinds
    <2>2. Dns!Store(c, "fail", NegativeTtl) /\ ask[c].pc # "idle"
          /\ UNCHANGED <<dnsTime, sinkholed>>
        BY <1>10 DEF Dns!TimesOut, Dns!StoreFailure
    <2>3. UNCHANGED stuck \/ (stuck' = stuck + 1 /\ ask[c].pc = "running")
        BY <1>10 DEF Dns!TimesOut
    <2>. QED  BY <2>1, <2>2, <2>3, StoreStepKeeps
<1>11. ASSUME NEW c \in Checkers, Dns!StoreSinkhole(c) PROVE DnsInv'
    <2>1. SinkholeTtl = TtlOf("sinkhole") /\ "sinkhole" \in DnsKinds
        BY DEF TtlOf, DnsKinds
    <2>2. Dns!Store(c, "sinkhole", SinkholeTtl) /\ ask[c].pc # "idle"
          /\ UNCHANGED <<dnsTime, sinkholed, stuck>>
        BY <1>11 DEF Dns!StoreSinkhole
    <2>. QED  BY <2>1, <2>2, StoreStepKeeps
<1>12. ASSUME NEW c \in Checkers, Dns!DohFails(c) PROVE DnsInv'
    <2>1. Dns!Mark(c) /\ ask[c].pc # "idle" /\ UNCHANGED <<dnsTime, answers, stuck>>
        BY <1>12 DEF Dns!DohFails
    <2>. QED  BY <2>1, MarkStepKeeps
<1>13. CASE UNCHANGED dnsVars
    BY <1>13 DEF dnsVars, DnsInv, Running
<1>. QED  BY <1>1, <1>2, <1>3, <1>4, <1>5, <1>6, <1>7, <1>8, <1>9, <1>10, <1>11, <1>12, <1>13
          DEF Dns!Next, Dns!Ends

LEMMA DnsInvMeans ==
    ASSUME DnsInv, Dns!DnsAssumption
    PROVE  Dns!TypeOK /\ Dns!ServedInTime
<1>1. \A S : Dns!Cardinality(S) = Cardinality(S)
    BY Zenon DEF Dns!Cardinality, Cardinality
<1>2. Answers \subseteq Dns!Entry
    BY DEF Answers, Kinds, DnsKinds, Dns!Entry
<1>3. \A i \in 1 .. Len(answers) : answers[i] \in Dns!Entry
    BY <1>2 DEF DnsInv, TableOf
<1>4. \A i \in 1 .. Len(sinkholed) : sinkholed[i] \in [host : Hosts, until : Nat]
    <2>1. sinkholed \in Seq(Marks)
        BY DEF DnsInv, TableOf
    <2>2. \A i \in 1 .. Len(sinkholed) : sinkholed[i] \in Marks
        BY <2>1
    <2>. QED  BY <2>2 DEF Marks
<1>5. \A s \in {answers, sinkholed} :
           /\ Len(s) <= DnsEntries
           /\ \A i, j \in 1 .. Len(s) : s[i].host = s[j].host => i = j
    BY DEF DnsInv, TableOf
<1>6. \A c \in Checkers :
          ask[c] \in {Dns!Idle} \cup [pc : {"queued", "running", "doh", "marked"},
                                      host : Hosts, asked : Nat]
    BY DEF DnsInv, Asks, Asked
<1>7. stuck + Dns!Cardinality({c \in Checkers : ask[c].pc = "running"}) <= Workers
    BY <1>1 DEF DnsInv, Running
<1>8. served \subseteq Dns!Entry /\ Dns!Cardinality(served) <= 1 /\ stuck \in Nat /\ dnsTime \in Nat
    BY <1>1, <1>2 DEF DnsInv
<1>9. Dns!TypeOK
    BY <1>3, <1>4, <1>5, <1>6, <1>7, <1>8 DEF Dns!TypeOK
<1>10. Dns!ServedInTime
    <2>. SUFFICES ASSUME NEW e \in served
                  PROVE  dnsTime < e.asked + (CASE e.why = "ips" -> Ttl
                                                [] e.why = "fail" -> NegativeTtl
                                                [] e.why = "sinkhole" -> SinkholeTtl)
        BY DEF Dns!ServedInTime
    <2>1. e.until = e.asked + TtlOf(e.why) /\ dnsTime < e.until /\ e.why \in DnsKinds
        BY DEF DnsInv, Answers, Kinds
    <2>2. TtlOf(e.why) = CASE e.why = "ips" -> Ttl
                           [] e.why = "fail" -> NegativeTtl
                           [] e.why = "sinkhole" -> SinkholeTtl
        BY <2>1 DEF TtlOf, DnsKinds
    <2>. QED  BY <2>1, <2>2
<1>. QED  BY <1>9, <1>10

---------------------------------------------------------------------------
(* The parser slots, the proxy and the Reddit queue have theorems of their own *)

SlotsP == INSTANCE ParserSlotsProofs WITH StartHoldsSlot <- FALSE
ProxyP == INSTANCE EgressProxyProofs WITH free <- slots
RedditP == INSTANCE RedditQueueProofs WITH
               Horizon <- QueueHorizon,
               now <- time, backoffUntil <- heldUntil, call <- callback, pc <- place, wake <- wakes

LEMMA RedditAssumed == RedditP!ConfigAssumption
BY InstancesAssumption DEF InstancesAssumption, RedditP!ConfigAssumption, Reddit!ConfigAssumption,
   RedditP!IsFiniteSet, Reddit!IsFiniteSet

LEMMA SameSlots ==
    /\ Slots!SlotsAssumption => SlotsP!SlotsAssumption
    /\ Slots!Init => SlotsP!Init
    /\ SlotsP!TypeOK => Slots!TypeOK
<1>1. Slots!SlotsAssumption => SlotsP!SlotsAssumption
    BY DEF SlotsP!SlotsAssumption, Slots!SlotsAssumption, SlotsP!IsFiniteSet, Slots!IsFiniteSet
<1>2. Slots!Init => SlotsP!Init
    BY DEF SlotsP!Init, Slots!Init
<1>3. SlotsP!TypeOK => Slots!TypeOK
    BY Zenon DEF SlotsP!TypeOK, Slots!TypeOK, SlotsP!Call, Slots!Call, SlotsP!TaskStates,
       Slots!TaskStates, SlotsP!StartStates, Slots!StartStates, SlotsP!StopStates,
       Slots!StopStates, SlotsP!SlotStates, Slots!SlotStates
<1>. QED  BY <1>1, <1>2, <1>3

LEMMA SameSlotsSteps == Slots!Next => SlotsP!Next
BY DEF SlotsP!Begin, Slots!Begin, SlotsP!Fork, Slots!Fork, SlotsP!StartFails, Slots!StartFails,
       SlotsP!Publish, Slots!Publish, SlotsP!Reap, Slots!Reap, SlotsP!BeginStop, Slots!BeginStop,
       SlotsP!EndStop, Slots!EndStop, SlotsP!CleanUp, Slots!CleanUp, SlotsP!Exit, Slots!Exit,
       SlotsP!Acquire, Slots!Acquire, SlotsP!Started, Slots!Started,
       SlotsP!NotStarted, Slots!NotStarted, SlotsP!Collect, Slots!Collect,
       SlotsP!Stopped, Slots!Stopped, SlotsP!Return, Slots!Return,
       SlotsP!CancelAcquire, Slots!CancelAcquire, SlotsP!CancelStart, Slots!CancelStart,
       SlotsP!CancelPoll, Slots!CancelPoll, SlotsP!CancelStop, Slots!CancelStop,
       SlotsP!Cancel, Slots!Cancel, SlotsP!Thread, Slots!Thread, SlotsP!Task, Slots!Task,
       SlotsP!Leave, Slots!Leave, SlotsP!ReleaseFromThread, Slots!ReleaseFromThread,
       SlotsP!Transferred, Slots!Transferred, SlotsP!Untransferred, Slots!Untransferred,
       SlotsP!Published, Slots!Published, SlotsP!Dropped, Slots!Dropped,
       SlotsP!DeferCleanup, Slots!DeferCleanup, SlotsP!Held, Slots!Held, SlotsP!Next, Slots!Next

LEMMA SameProxy ==
    /\ Proxy!ProxyAssumption => ProxyP!ProxyAssumption
    /\ Proxy!Init => ProxyP!Init
    /\ ProxyP!TypeOK => Proxy!TypeOK
    /\ ProxyP!CapacityConserved => Proxy!CapacityConserved
    /\ ProxyP!NoTunnelEscapes => Proxy!NoTunnelEscapes
<1>1. ASSUME NEW S PROVE ProxyP!Cardinality(S) = Proxy!Cardinality(S)
    BY Zenon DEF ProxyP!Cardinality, Proxy!Cardinality
<1>2. Proxy!ProxyAssumption => ProxyP!ProxyAssumption
    BY DEF ProxyP!ProxyAssumption, Proxy!ProxyAssumption, ProxyP!IsFiniteSet, Proxy!IsFiniteSet
<1>3. Proxy!Init => ProxyP!Init
    BY DEF ProxyP!Init, Proxy!Init
<1>4. ProxyP!TypeOK => Proxy!TypeOK
    BY Zenon DEF ProxyP!TypeOK, Proxy!TypeOK, ProxyP!ConnStates, Proxy!ConnStates,
       ProxyP!Handling, Proxy!Handling
<1>5. ProxyP!CapacityConserved => Proxy!CapacityConserved
    BY <1>1 DEF ProxyP!CapacityConserved, Proxy!CapacityConserved, ProxyP!Handling, Proxy!Handling
<1>6. ProxyP!NoTunnelEscapes => Proxy!NoTunnelEscapes
    BY DEF ProxyP!NoTunnelEscapes, Proxy!NoTunnelEscapes, ProxyP!Handling, Proxy!Handling
<1>. QED  BY <1>2, <1>3, <1>4, <1>5, <1>6

LEMMA SameProxySteps == Proxy!Next => ProxyP!Next
BY DEF ProxyP!Start, Proxy!Start, ProxyP!Negotiated, Proxy!Negotiated, ProxyP!Ready, Proxy!Ready,
       ProxyP!PreflightFails, Proxy!PreflightFails, ProxyP!Connect, Proxy!Connect,
       ProxyP!Refuse, Proxy!Refuse, ProxyP!Accept, Proxy!Accept,
       ProxyP!AcceptFails, Proxy!AcceptFails, ProxyP!Track, Proxy!Track,
       ProxyP!Check, Proxy!Check, ProxyP!Request, Proxy!Request,
       ProxyP!Resolved, Proxy!Resolved, ProxyP!Approved, Proxy!Approved,
       ProxyP!Denied, Proxy!Denied, ProxyP!NoRequest, Proxy!NoRequest, ProxyP!NextAddress, Proxy!NextAddress,
       ProxyP!TrackUpstream, Proxy!TrackUpstream, ProxyP!CheckUpstream, Proxy!CheckUpstream,
       ProxyP!Connected, Proxy!Connected, ProxyP!NotConnected, Proxy!NotConnected,
       ProxyP!RelayEnds, Proxy!RelayEnds, ProxyP!Finish, Proxy!Finish, ProxyP!Leave, Proxy!Leave,
       ProxyP!Solve, Proxy!Solve, ProxyP!SolveEnds, Proxy!SolveEnds,
       ProxyP!Shutdown, Proxy!Shutdown, ProxyP!HelperCloses, Proxy!HelperCloses,
       ProxyP!WaitOver, Proxy!WaitOver, ProxyP!CloseEvent, Proxy!CloseEvent,
       ProxyP!Tracked, Proxy!Tracked, ProxyP!FindSockets, Proxy!FindSockets,
       ProxyP!Closed, Proxy!Closed, ProxyP!CloseSocket, Proxy!CloseSocket,
       ProxyP!StopServing, Proxy!StopServing, ProxyP!Close, Proxy!Close,
       ProxyP!Handler, Proxy!Handler, ProxyP!Peer, Proxy!Peer, ProxyP!Next, Proxy!Next,
       ProxyP!Owner, Proxy!Owner, ProxyP!Browser, Proxy!Browser, ProxyP!Sockets, Proxy!Sockets,
       ProxyP!Go, Proxy!Go, ProxyP!Handling, Proxy!Handling

LEMMA SameReddit ==
    /\ Reddit!Init => RedditP!Init
    /\ RedditP!TypeOK => Reddit!TypeOK
    /\ RedditP!NoLostCaller => Reddit!NoLostCaller
<1>1. Reddit!Init => RedditP!Init
    BY DEF RedditP!Init, Reddit!Init
<1>2. RedditP!TypeOK => Reddit!TypeOK
    BY Zenon DEF RedditP!TypeOK, Reddit!TypeOK, RedditP!Resolved, Reddit!Resolved,
       RedditP!Outcome, Reddit!Outcome
<1>3. RedditP!NoLostCaller => Reddit!NoLostCaller
    BY Zenon DEF RedditP!NoLostCaller, Reddit!NoLostCaller, RedditP!Queued, Reddit!Queued,
       RedditP!Serving, Reddit!Serving, RedditP!Live, Reddit!Live
<1>. QED  BY <1>1, <1>2, <1>3

LEMMA SameRedditSteps == Reddit!Next => RedditP!Next
<1>1. ASSUME NEW S PROVE RedditP!Cardinality(S) = Reddit!Cardinality(S)
    BY Zenon DEF RedditP!Cardinality, Reddit!Cardinality
<1>2. RedditP!Recent = Reddit!Recent /\ RedditP!Queued = Reddit!Queued
    BY Zenon DEF RedditP!Recent, Reddit!Recent, RedditP!Queued, Reddit!Queued
<1>3. RedditP!UntilReset = Reddit!UntilReset
    BY <1>2, Zenon DEF RedditP!UntilReset, Reddit!UntilReset
<1>4. RedditP!CalculateDelay = Reddit!CalculateDelay
    BY <1>1, <1>2, <1>3, Zenon DEF RedditP!CalculateDelay, Reddit!CalculateDelay,
       RedditP!LimitReached, Reddit!LimitReached
<1>5. \A o : RedditP!Answer(o) = Reddit!Answer(o)
    BY Zenon DEF RedditP!Answer, Reddit!Answer
<1>6. \A a, b : RedditP!Later(a, b) = Reddit!Later(a, b) /\ RedditP!Sooner(a, b) = Reddit!Sooner(a, b)
    BY Zenon DEF RedditP!Later, Reddit!Later, RedditP!Sooner, Reddit!Sooner
<1>7. \A i, v : RedditP!Settled(i, v) = Reddit!Settled(i, v)
    BY Zenon DEF RedditP!Settled, Reddit!Settled
<1>8. \A i : RedditP!Wanted(i) = Reddit!Wanted(i)
    BY Zenon DEF RedditP!Wanted, Reddit!Wanted
<1>9. RedditP!Resolved = Reddit!Resolved /\ RedditP!Outcome = Reddit!Outcome
    BY DEF RedditP!Resolved, Reddit!Resolved, RedditP!Outcome, Reddit!Outcome
<1>10. \A S : RedditP!CancelPending(S) = Reddit!CancelPending(S)
    BY <1>7, <1>8, Zenon DEF RedditP!CancelPending, Reddit!CancelPending
<1>11. \A a, b, c : RedditP!BackoffDelay(a, b, c) = Reddit!BackoffDelay(a, b, c)
    BY <1>6, Zenon DEF RedditP!BackoffDelay, Reddit!BackoffDelay
<1>12. \A i : Reddit!CallerStep(i) => RedditP!CallerStep(i)
    <2>1. \A i : RedditP!Enqueue(i) <=> Reddit!Enqueue(i)
        BY Zenon DEF RedditP!Enqueue, Reddit!Enqueue, RedditP!Yielded, Reddit!Yielded,
           RedditP!Appended, Reddit!Appended
    <2>2. \A i : Reddit!SetBackoff(i) => RedditP!SetBackoff(i)
        BY <1>6, <1>11, SMT DEF RedditP!SetBackoff, Reddit!SetBackoff,
           RedditP!Yielded, Reddit!Yielded, RedditP!procVars, Reddit!procVars
    <2>3. \A i : (RedditP!Abandon(i) <=> Reddit!Abandon(i)) /\ (RedditP!Forget(i) <=> Reddit!Forget(i))
        BY Zenon DEF RedditP!Abandon, Reddit!Abandon, RedditP!Forget, Reddit!Forget,
           RedditP!Yielded, Reddit!Yielded, RedditP!procVars, Reddit!procVars
    <2>. QED
        BY <2>1, <2>2, <2>3, Zenon DEF RedditP!CallerStep, Reddit!CallerStep
<1>13. \A i : RedditP!Return(i) <=> Reddit!Return(i)
    BY <1>9, Zenon
       DEF RedditP!Return, Reddit!Return, RedditP!Yielded, Reddit!Yielded,
       RedditP!InFlight, Reddit!InFlight,
       RedditP!procVars, Reddit!procVars, RedditP!itemVars, Reddit!itemVars
<1>14. \A p : RedditP!Works(p) <=> Reddit!Works(p)
    <2>1. \A p, i : RedditP!Scheduled(p) <=> Reddit!Scheduled(p)
        BY Zenon DEF RedditP!Scheduled, Reddit!Scheduled
    <2>2. \A i : (RedditP!InFlight(i) <=> Reddit!InFlight(i)) /\ RedditP!Waited(i) = Reddit!Waited(i)
                 /\ RedditP!CancelledCall(i) = Reddit!CancelledCall(i)
        BY Zenon DEF RedditP!InFlight, Reddit!InFlight, RedditP!Waited, Reddit!Waited,
           RedditP!CancelledCall, Reddit!CancelledCall
    <2>3. \A p : (RedditP!Begin(p) <=> Reddit!Begin(p)) /\ (RedditP!Park(p) <=> Reddit!Park(p))
        BY <2>1, Zenon DEF RedditP!Begin, Reddit!Begin, RedditP!Park, Reddit!Park,
           RedditP!procVars, Reddit!procVars, RedditP!itemVars, Reddit!itemVars
    <2>4. \A p, i : RedditP!Dequeue(p, i) <=> Reddit!Dequeue(p, i)
        BY <2>1, Zenon DEF RedditP!Dequeue, Reddit!Dequeue
    <2>5. \A p, i : (RedditP!SkipAbandoned(p, i) <=> Reddit!SkipAbandoned(p, i))
                    /\ (RedditP!Expire(p, i) <=> Reddit!Expire(p, i))
        BY <1>4, <1>7, <1>8, <2>1, <2>2, <2>4, Zenon DEF RedditP!SkipAbandoned, Reddit!SkipAbandoned,
           RedditP!Expire, Reddit!Expire, RedditP!itemVars, Reddit!itemVars
    <2>6. \A p, i : RedditP!Sleep(p, i) <=> Reddit!Sleep(p, i)
        BY <1>4, <1>6, <1>8, <2>1, <2>2, <2>4, Zenon DEF RedditP!Sleep, Reddit!Sleep,
           RedditP!itemVars, Reddit!itemVars
    <2>7. \A p, i : RedditP!StartCall(p, i) <=> Reddit!StartCall(p, i)
        BY <1>8, <2>1, Zenon DEF RedditP!StartCall, Reddit!StartCall
    <2>8. \A p, i : (RedditP!StartNow(p, i) <=> Reddit!StartNow(p, i))
                    /\ (RedditP!StartAfterSleep(p, i) <=> Reddit!StartAfterSleep(p, i))
        BY <1>4, <1>8, <2>1, <2>2, <2>4, <2>7, Zenon DEF RedditP!StartNow, Reddit!StartNow,
           RedditP!StartAfterSleep, Reddit!StartAfterSleep, RedditP!Awake, Reddit!Awake
    <2>9. \A p, i : RedditP!DropAfterSleep(p, i) <=> Reddit!DropAfterSleep(p, i)
        BY <1>7, <1>8, <2>1, <2>2, Zenon DEF RedditP!DropAfterSleep, Reddit!DropAfterSleep,
           RedditP!Awake, Reddit!Awake, RedditP!itemVars, Reddit!itemVars
    <2>10. \A p, i : (RedditP!Complete(p, i) <=> Reddit!Complete(p, i))
                     /\ (RedditP!Detach(p, i) <=> Reddit!Detach(p, i))
        BY <1>5, <1>7, <1>8, <2>1, <2>2, Zenon DEF RedditP!Complete, Reddit!Complete,
           RedditP!Detach, Reddit!Detach
    <2>. QED
        BY <2>3, <2>5, <2>6, <2>8, <2>9, <2>10, Zenon
           DEF RedditP!Works, Reddit!Works, RedditP!ItemStep, Reddit!ItemStep
<1>15. \A p : RedditP!Ends(p) <=> Reddit!Ends(p)
    BY <1>10, Zenon
       DEF RedditP!Ends, Reddit!Ends, RedditP!Retire, Reddit!Retire, RedditP!Interrupt,
       Reddit!Interrupt, RedditP!Scheduled, Reddit!Scheduled, RedditP!Yielded, Reddit!Yielded,
       RedditP!CancelledCall, Reddit!CancelledCall,
       RedditP!procVars, Reddit!procVars, RedditP!itemVars, Reddit!itemVars
<1>16. (RedditP!Stop <=> Reddit!Stop) /\ (RedditP!Tick <=> Reddit!Tick)
    BY <1>2, <1>10, Zenon
       DEF RedditP!Stop, Reddit!Stop, RedditP!StopBegin, Reddit!StopBegin, RedditP!StopIdle,
       Reddit!StopIdle, RedditP!StopFinish, Reddit!StopFinish, RedditP!Drain, Reddit!Drain,
       RedditP!Yielded, Reddit!Yielded, RedditP!Tick, Reddit!Tick,
       RedditP!procVars, Reddit!procVars, RedditP!itemVars, Reddit!itemVars
<1>. QED
    BY <1>12, <1>13, <1>14, <1>15, <1>16, Zenon
       DEF RedditP!Next, Reddit!Next, RedditP!Serve, Reddit!Serve

---------------------------------------------------------------------------
(* The parts together *)

\* A behaviour of the parts is one of each part, which stutters while another
\* part, or none, takes a step.
LEMMA StepsOfParts ==
    ASSUME [PartsNext]_allVars
    PROVE  /\ [Next]_limiterVars /\ [Slots!Next]_slotsVars /\ [Proxy!Next]_proxyVars
           /\ [Cache!Next]_cacheVars /\ [Address!Next]_addressVars
           /\ [Reddit!Next]_redditVars /\ [Dns!Next]_dnsVars
<1>1. CASE PartsNext
    BY <1>1 DEF PartsNext, LimiterStep, SlotsStep, ProxyStep, CacheStep, AddressStep,
                RedditStep, DnsStep
<1>2. CASE UNCHANGED allVars
    BY <1>2 DEF allVars
<1>. QED  BY <1>1, <1>2

LEMMA LimiterBehaves == PartsSpec => Spec
<1>1. PartsInit => Init
    BY DEF PartsInit
<1>2. [PartsNext]_allVars => [Next]_vars
    BY StepsOfParts DEF limiterVars
<1>. QED  BY <1>1, <1>2, PTL DEF PartsSpec, Spec

LEMMA SlotsBehave == PartsSpec => SlotsP!Spec
<1>1. PartsInit => SlotsP!Init
    BY SameSlots DEF PartsInit
<1>2. [PartsNext]_allVars => [SlotsP!Next]_(SlotsP!vars)
    BY StepsOfParts, SameSlotsSteps DEF slotsVars, SlotsP!vars
<1>. QED  BY <1>1, <1>2, PTL DEF PartsSpec, SlotsP!Spec

LEMMA ProxyBehaves == PartsSpec => ProxyP!Spec
<1>1. PartsInit => ProxyP!Init
    BY SameProxy DEF PartsInit
<1>2. [PartsNext]_allVars => [ProxyP!Next]_(ProxyP!vars)
    BY StepsOfParts, SameProxySteps DEF proxyVars, ProxyP!vars
<1>. QED  BY <1>1, <1>2, PTL DEF PartsSpec, ProxyP!Spec

LEMMA RedditBehaves == PartsSpec => RedditP!Spec
<1>1. PartsInit => RedditP!Init
    BY SameReddit DEF PartsInit
<1>2. [PartsNext]_allVars => [RedditP!Next]_(RedditP!vars)
    BY StepsOfParts, SameRedditSteps
       DEF redditVars, RedditP!vars, RedditP!procVars, RedditP!itemVars
<1>. QED  BY <1>1, <1>2, PTL DEF PartsSpec, RedditP!Spec

LEMMA AddressInvAlways == PartsSpec => []AddressInv
<1>. USE InstancesAssumption DEF InstancesAssumption
<1>1. PartsInit => AddressInv
    BY AddressInvInit DEF PartsInit
<1>2. AddressInv /\ [PartsNext]_allVars => AddressInv'
    BY StepsOfParts, AddressInvStep
<1>. QED  BY <1>1, <1>2, PTL DEF PartsSpec

LEMMA CacheInvAlways == PartsSpec => []CacheInv
<1>. USE InstancesAssumption DEF InstancesAssumption
<1>1. PartsInit => CacheInv
    BY CacheInvInit DEF PartsInit
<1>2. CacheInv /\ [PartsNext]_allVars => CacheInv'
    BY StepsOfParts, CacheInvStep
<1>. QED  BY <1>1, <1>2, PTL DEF PartsSpec

LEMMA DnsInvAlways == PartsSpec => []DnsInv
<1>. USE InstancesAssumption DEF InstancesAssumption
<1>1. PartsInit => DnsInv
    BY DnsInvInit DEF PartsInit
<1>2. DnsInv /\ [PartsNext]_allVars => DnsInv'
    BY StepsOfParts, DnsInvStep
<1>. QED  BY <1>1, <1>2, PTL DEF PartsSpec

\* No address gets more answers per window than its limit (middleware.py:
\* RateLimitMiddleware), also when its entry was removed from the table and
\* made anew in between: an entry is only removed when none of its times
\* counts any more.
THEOREM QuotaIsKept == PartsSpec => []WithinQuota
<1>. USE InstancesAssumption DEF InstancesAssumption
<1>1. AddressInv => WithinQuota
    BY AddressInvMeans DEF WithinQuota
<1>. QED  BY <1>1, AddressInvAlways, PTL

\* The response cache (response_cache.py: get, set, invalidate) gives up a
\* response that it could still serve only when it is full of such responses,
\* and then the one that was stored or served longest ago: the dictionary is
\* in the order of use.
THEOREM OldestIsEvicted == PartsSpec => EvictsLeastUsed
<1>. USE InstancesAssumption DEF InstancesAssumption
<1>1. CacheInv /\ [PartsNext]_allVars => EvictsOk
    BY StepsOfParts, EvictionsOk
<1>2. EvictsOk => [EvictsOk]_(Cache!vars)
    OBVIOUS
<1>3. PartsSpec => [][EvictsOk]_(Cache!vars)
    BY <1>1, <1>2, CacheInvAlways, PTL DEF PartsSpec
<1>. QED  BY <1>3 DEF EvictsLeastUsed, Cache!EvictsLeastUsed, EvictsOk

\* Each part's variables keep their types, and what the parts promise holds:
\* the limiter of a domain delays nobody twice (rate_limiter.py), the Reddit
\* queue forgets no caller (reddit_queue.py: stop, enqueue), no capacity of
\* the proxy is lost and close() misses no tunnel (browser_proxy.py), the
\* table of addresses turns newcomers away only while it is full of active ones
\* (middleware.py) and nothing is served from the DNS cache past its time
\* (ssrf.py).
THEOREM PartsInOrder == PartsSpec => []PartsInvariants
<1>. USE InstancesAssumption DEF InstancesAssumption
<1>1. PartsSpec => [](TypeOK /\ NeverOversleeps)
    BY TypeCorrect, SleepIsBounded, LimiterBehaves, PTL
<1>2. PartsSpec => []Slots!TypeOK
    <2>1. SlotsP!Spec => []SlotsP!TypeOK
        BY SlotsP!TypeCorrect, SameSlots
    <2>2. SlotsP!TypeOK => Slots!TypeOK
        BY SameSlots
    <2>. QED  BY <2>1, <2>2, SlotsBehave, PTL
<1>3. PartsSpec => [](Proxy!TypeOK /\ Proxy!CapacityConserved /\ Proxy!NoTunnelEscapes)
    <2>1. ProxyP!Spec => []ProxyP!TypeOK
        BY ProxyP!TypeCorrect, SameProxy
    <2>2. ProxyP!Spec => []ProxyP!CapacityConserved
        BY ProxyP!CapacityIsConserved, SameProxy
    <2>3. ProxyP!Spec => []ProxyP!NoTunnelEscapes
        BY ProxyP!CloseMissesNoTunnel, SameProxy
    <2>4. ProxyP!TypeOK /\ ProxyP!CapacityConserved /\ ProxyP!NoTunnelEscapes
              => Proxy!TypeOK /\ Proxy!CapacityConserved /\ Proxy!NoTunnelEscapes
        BY SameProxy
    <2>. QED  BY <2>1, <2>2, <2>3, <2>4, ProxyBehaves, PTL
<1>4. PartsSpec => [](Reddit!TypeOK /\ Reddit!NoLostCaller)
    <2>1. RedditP!Spec => []RedditP!TypeOK
        BY RedditP!TypeCorrect, RedditAssumed
    <2>2. RedditP!Spec => []RedditP!NoLostCaller
        BY RedditP!NoCallerLost, RedditAssumed
    <2>3. RedditP!TypeOK /\ RedditP!NoLostCaller => Reddit!TypeOK /\ Reddit!NoLostCaller
        BY SameReddit
    <2>. QED  BY <2>1, <2>2, <2>3, RedditBehaves, PTL
<1>5. CacheInv => Cache!TypeOK
    BY CacheInvMeans
<1>6. AddressInv => Address!TypeOK /\ Address!TurnedAwayByActive
    BY AddressInvMeans
<1>7. DnsInv => Dns!TypeOK /\ Dns!ServedInTime
    BY DnsInvMeans
<1>8. /\ TypeOK /\ NeverOversleeps /\ Slots!TypeOK
      /\ Proxy!TypeOK /\ Proxy!CapacityConserved /\ Proxy!NoTunnelEscapes
      /\ Reddit!TypeOK /\ Reddit!NoLostCaller
      /\ CacheInv /\ AddressInv /\ DnsInv
      => PartsInvariants
    BY <1>5, <1>6, <1>7 DEF PartsInvariants
<1>. QED
    BY <1>1, <1>2, <1>3, <1>4, <1>8, CacheInvAlways, AddressInvAlways, DnsInvAlways, PTL

=============================================================================
