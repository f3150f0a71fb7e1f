-------------------------- MODULE TokenPool_proofs --------------------------
(***************************************************************************)
(* Proofs about TokenPool, for every set of sessions, every rotation of     *)
(* keys, every cooldown and every reported reset time.                     *)
(*                                                                         *)
(* TypeOK alone is not inductive: that _cool_until has exactly the live     *)
(* keys after one is removed needs a pool without duplicates.              *)
(***************************************************************************)
EXTENDS TokenPool, WellFoundedInduction, TLAPS

Live == Injective(tokens)

IInv == TypeOK /\ Live

-----------------------------------------------------------------------------
(***************************************************************************)
(* Operators.                                                              *)
(***************************************************************************)
\* min() of a non-empty set of times exists.
LEMMA MinExists ==
  ASSUME NEW T \in SUBSET Nat, T # {}
  PROVE  \E x \in T : \A y \in T : x <= y
<1>1. PICK x \in T : \A y \in T : ~ (<<y, x>> \in OpToRel(<, Nat))
  BY NatLessThanWellFounded, WFMin
<1>2. \A y \in T : ~ (y < x)
  BY <1>1 DEF OpToRel
<1> QED
  BY <1>2

\* The rotation index stays inside the list.
LEMMA IndexInRange ==
  ASSUME NEW a \in Nat, NEW n \in Nat, n > 0
  PROVE  a % n \in 0..n-1
  OBVIOUS

\* Removing one entry of a list without duplicates removes exactly its key.
LEMMA WithoutIs ==
  ASSUME NEW S, NEW s \in Seq(S), Injective(s), NEW i \in 1..Len(s)
  PROVE  /\ Without(s, i) \in Seq(S)
         /\ Len(Without(s, i)) = Len(s) - 1
         /\ Injective(Without(s, i))
         /\ Elements(Without(s, i)) = Elements(s) \ {s[i]}
<1> DEFINE n == Len(s)
           r == Without(s, i)
<1>1. n \in Nat /\ DOMAIN s = 1..n /\ n > 0
  OBVIOUS
<1>2. DOMAIN r = 1..n-1
  BY <1>1 DEF Without
<1>3. \A j \in 1..n-1 : r[j] = IF j < i THEN s[j] ELSE s[j+1]
  BY <1>1 DEF Without
<1>4. \A j \in 1..n-1 : r[j] \in S
  BY <1>1, <1>3
<1>5. r \in Seq(S) /\ Len(r) = n - 1
  <2>1. n-1 \in Nat
    BY <1>1
  <2>2. r \in [1..n-1 -> S]
    BY <1>2, <1>4 DEF Without
  <2> HIDE DEF r, n
  <2> QED
    BY <2>1, <2>2
<1> HIDE DEF r
<1>6. Injective(r)
  <2>1. SUFFICES ASSUME NEW j \in 1..n-1, NEW k \in 1..n-1, r[j] = r[k]
                 PROVE  j = k
    BY <1>2 DEF Injective
  <2> DEFINE J == IF j < i THEN j ELSE j + 1
             K == IF k < i THEN k ELSE k + 1
  <2>2. J \in 1..n /\ K \in 1..n /\ s[J] = r[j] /\ s[K] = r[k]
    BY <1>1, <1>3
  <2>3. J = K
    BY <1>1, <2>1, <2>2 DEF Injective
  <2> QED
    BY <1>1, <2>3
<1>7. Elements(r) \subseteq Elements(s) \ {s[i]}
  <2>1. SUFFICES ASSUME NEW j \in 1..n-1
                 PROVE  r[j] \in Elements(s) \ {s[i]}
    BY <1>2 DEF Elements
  <2> DEFINE J == IF j < i THEN j ELSE j + 1
  <2>2. J \in 1..n /\ s[J] = r[j] /\ J # i
    BY <1>1, <1>3
  <2>3. s[J] # s[i]
    BY <1>1, <2>2 DEF Injective
  <2> QED
    BY <1>1, <2>2, <2>3 DEF Elements
<1>8. Elements(s) \ {s[i]} \subseteq Elements(r)
  <2>1. SUFFICES ASSUME NEW j \in 1..n, s[j] # s[i]
                 PROVE  s[j] \in Elements(r)
    BY <1>1 DEF Elements
  <2> DEFINE J == IF j < i THEN j ELSE j - 1
  <2>2. J \in 1..n-1 /\ r[J] = s[j]
    BY <1>1, <1>3, <2>1
  <2> QED
    BY <1>2, <2>2 DEF Elements
<1> QED
  BY <1>5, <1>6, <1>7, <1>8 DEF r

\* A sleeper's deadline is a time, and no live key cools for less.
LEMMA EarliestIs ==
  ASSUME IInv, Count > 0
  PROVE  /\ EarliestReset \in Nat
         /\ \A k \in DOMAIN coolUntil : EarliestReset <= coolUntil[k]
<1> DEFINE T == {coolUntil[k] : k \in DOMAIN coolUntil}
<1>1. tokens \in Seq(Keys) /\ coolUntil \in [Elements(tokens) -> Nat]
  BY DEF IInv, TypeOK
<1>2. tokens[1] \in Elements(tokens)
  BY <1>1 DEF Count, Elements
<1>3. T \subseteq Nat /\ T # {}
  BY <1>1, <1>2
<1>4. \E t \in T : \A u \in T : t <= u
  BY <1>3, MinExists
<1>5. \E t \in T : \A k \in DOMAIN coolUntil : t <= coolUntil[k]
  BY <1>4
<1>6. EarliestReset \in T /\ \A k \in DOMAIN coolUntil : EarliestReset <= coolUntil[k]
  BY <1>5 DEF EarliestReset
<1> QED
  BY <1>3, <1>6

\* A cooldown ends at a time.
LEMMA CoolDownIs ==
  ASSUME NEW reset \in ResetTimes, now \in Nat, NEW old \in Nat
  PROVE  Later(old, CoolDown(reset)) \in Nat /\ Later(old, CoolDown(reset)) >= old
<1>1. reset \in Nat /\ Buffer \in Nat /\ Fallback \in Nat
  BY PoolAssumption
<1> QED
  BY <1>1 DEF Later, CoolDown

-----------------------------------------------------------------------------
(***************************************************************************)
(* The pool's types.                                                       *)
(***************************************************************************)
LEMMA InitIInv == Init => IInv
<1> SUFFICES ASSUME Init PROVE IInv
  OBVIOUS
<1>1. Rotation \in Seq(Keys) /\ Rotation # <<>> /\ Injective(Rotation)
  BY PoolAssumption
<1>2. Rotation[1] \in Keys
  BY <1>1
<1>3. coolUntil \in [Elements(tokens) -> Nat]
  BY DEF Init
<1> QED
  BY <1>1, <1>2, <1>3 DEF Init, IInv, Live, TypeOK, PCs

\* What each of the two reports does to the pool.
LEMMA MarkRateLimitedPool ==
  ASSUME IInv, NEW s \in Sessions, MarkRateLimited(s)
  PROVE  /\ coolUntil' \in [Elements(tokens) -> Nat]
         /\ \A k \in Elements(tokens) : coolUntil'[k] >= coolUntil[k]
         /\ SignalChanged \/ (coolUntil' = coolUntil /\ woken' = woken)
<1>1. coolUntil \in [Elements(tokens) -> Nat] /\ now \in Nat
  BY DEF IInv, TypeOK
<1>2. CASE held[s] \in DOMAIN coolUntil
  <2>1. PICK reset \in ResetTimes :
          coolUntil' = [coolUntil EXCEPT ![held[s]] = Later(@, CoolDown(reset))]
    BY <1>2 DEF MarkRateLimited
  <2>2. /\ Later(coolUntil[held[s]], CoolDown(reset)) \in Nat
        /\ Later(coolUntil[held[s]], CoolDown(reset)) >= coolUntil[held[s]]
    BY <1>1, <1>2, CoolDownIs
  <2>3. SignalChanged
    BY <1>2 DEF MarkRateLimited
  <2> QED
    BY <1>1, <1>2, <2>1, <2>2, <2>3
<1>3. CASE held[s] \notin DOMAIN coolUntil
  BY <1>1, <1>3 DEF MarkRateLimited
<1> QED
  BY <1>2, <1>3

LEMMA MarkDeadPool ==
  ASSUME IInv, NEW s \in Sessions, MarkDead(s)
  PROVE  \/ UNCHANGED <<pool, woken>>
         \/ /\ tokens' \in Seq(Keys) /\ Injective(tokens')
            /\ coolUntil' \in [Elements(tokens') -> Nat]
            /\ Elements(tokens') \subseteq Elements(tokens)
            /\ \A k \in Elements(tokens') : coolUntil'[k] = coolUntil[k]
            /\ nextIndex' = 0 \/ nextIndex' \in 1..Len(tokens')-1
            /\ SignalChanged
<1>1. /\ tokens \in Seq(Keys) /\ Injective(tokens) /\ coolUntil \in [Elements(tokens) -> Nat]
      /\ nextIndex \in Nat
  BY DEF IInv, TypeOK, Live
<1>2. SUFFICES ASSUME NEW i \in 1..Count, tokens[i] = held[s], tokens' = Without(tokens, i),
                      coolUntil' = [k \in DOMAIN coolUntil \ {held[s]} |-> coolUntil[k]],
                      nextIndex' = IF Count = 1 THEN 0 ELSE nextIndex % (Count - 1),
                      SignalChanged
               PROVE  /\ tokens' \in Seq(Keys) /\ Injective(tokens')
                      /\ coolUntil' \in [Elements(tokens') -> Nat]
                      /\ Elements(tokens') \subseteq Elements(tokens)
                      /\ \A k \in Elements(tokens') : coolUntil'[k] = coolUntil[k]
                      /\ nextIndex' = 0 \/ nextIndex' \in 1..Len(tokens')-1
  BY DEF MarkDead
<1>3. /\ tokens' \in Seq(Keys) /\ Len(tokens') = Count - 1 /\ Injective(tokens')
      /\ Elements(tokens') = Elements(tokens) \ {held[s]}
  BY <1>1, <1>2, WithoutIs DEF Count
<1>4. /\ coolUntil' \in [Elements(tokens') -> Nat]
      /\ \A k \in Elements(tokens') : coolUntil'[k] = coolUntil[k]
  BY <1>1, <1>2, <1>3
<1>5. nextIndex' = 0 \/ nextIndex' \in 1..Len(tokens')-1
  <2>1. Count \in Nat /\ Count > 0
    BY <1>1 DEF Count
  <2>2. CASE Count = 1
    BY <1>2, <2>2
  <2>3. CASE Count > 1
    <3>1. nextIndex % (Count-1) \in 0..Count-2
      BY <1>1, <2>1, <2>3, IndexInRange
    <3> QED
      BY <1>2, <1>3, <2>1, <2>3, <3>1
  <2> QED
    BY <2>1, <2>2, <2>3
<1> QED
  BY <1>3, <1>4, <1>5

\* acquire() hands out a live key and moves the index inside the list.
LEMMA GrantIs ==
  ASSUME IInv, NEW s \in Sessions, AcquireGrants(s)
  PROVE  \E k \in Keys, i \in 0..Count-1 :
           held' = [held EXCEPT ![s] = k] /\ granted' = <<k>> /\ nextIndex' = i
<1>1. tokens \in Seq(Keys) /\ nextIndex \in Nat /\ Count \in Nat
  BY DEF IInv, TypeOK, Count
<1>2. PICK offset \in 0..Count-1 :
        LET index == (nextIndex + offset) % Count IN
          /\ nextIndex' = (index + 1) % Count
          /\ held' = [held EXCEPT ![s] = KeyAt(index)]
          /\ granted' = <<KeyAt(index)>>
  BY DEF AcquireGrants
<1> DEFINE index == (nextIndex + offset) % Count
<1>3. Count > 0 /\ nextIndex + offset \in Nat
  BY <1>1
<1>4. index \in 0..Count-1
  BY <1>1, <1>3, IndexInRange
<1>5. /\ nextIndex' = (index + 1) % Count
      /\ held' = [held EXCEPT ![s] = KeyAt(index)] /\ granted' = <<KeyAt(index)>>
  BY <1>2
<1> HIDE DEF index
<1>6. (index + 1) % Count \in 0..Count-1
  BY <1>1, <1>3, <1>4, IndexInRange
<1>7. KeyAt(index) \in Keys
  BY <1>1, <1>4 DEF KeyAt, Count
<1> QED
  BY <1>5, <1>6, <1>7

LEMMA StepIInv == IInv /\ [Next]_vars => IInv'
<1> SUFFICES ASSUME IInv, [Next]_vars PROVE IInv'
  OBVIOUS
<1>1. TypeOK /\ Live
  BY DEF IInv
<1>2. CASE \E s \in Sessions : \/ Request(s) \/ AcquireFails(s) \/ Wake(s) \/ HitRateLimit(s)
                               \/ HitSpendLimit(s) \/ StopUsing(s)
  BY <1>1, <1>2 DEF Request, AcquireFails, Wake, HitRateLimit, HitSpendLimit, StopUsing, pool,
                    IInv, Live, TypeOK, PCs, Count
<1>3. ASSUME NEW s \in Sessions, AcquireGrants(s) PROVE IInv'
  <2>1. PICK k \in Keys, i \in 0..Count-1 :
          held' = [held EXCEPT ![s] = k] /\ granted' = <<k>> /\ nextIndex' = i
    BY <1>3, GrantIs
  <2>2. nextIndex' = 0 \/ nextIndex' \in 1..Count-1
    BY <1>1, <2>1 DEF TypeOK, Count
  <2>3. granted' \in Seq(Keys) /\ held' \in [Sessions -> Keys]
    BY <1>1, <2>1 DEF TypeOK
  <2> QED
    BY <1>1, <1>3, <2>2, <2>3 DEF AcquireGrants, IInv, Live, TypeOK, PCs, Count
<1>4. ASSUME NEW s \in Sessions, AcquireSleeps(s) PROVE IInv'
  <2>1. EarliestReset \in Nat
    BY <1>4, EarliestIs DEF AcquireSleeps
  <2> QED
    BY <1>1, <1>4, <2>1 DEF AcquireSleeps, pool, IInv, Live, TypeOK, PCs, Count
<1>5. ASSUME NEW s \in Sessions, MarkRateLimited(s) PROVE IInv'
  <2>1. woken' \in [Sessions -> BOOLEAN]
    BY <1>1, <1>5, MarkRateLimitedPool DEF SignalChanged, TypeOK
  <2> QED
    BY <1>1, <1>5, <2>1, MarkRateLimitedPool
       DEF MarkRateLimited, IInv, Live, TypeOK, PCs, Count
<1>6. ASSUME NEW s \in Sessions, MarkDead(s) PROVE IInv'
  <2>1. woken' \in [Sessions -> BOOLEAN]
    BY <1>1, <1>6, MarkDeadPool DEF SignalChanged, TypeOK, pool
  <2>2. pc' \in [Sessions -> PCs] /\ UNCHANGED <<now, held, wakeAt, granted>>
    BY <1>1, <1>6 DEF MarkDead, TypeOK, PCs
  <2> QED
    BY <1>1, <1>6, <2>1, <2>2, MarkDeadPool DEF IInv, Live, TypeOK, Count, pool
<1>7. CASE Tick
  BY <1>1, <1>7 DEF Tick, pool, IInv, Live, TypeOK, Count
<1>8. CASE UNCHANGED vars
  BY <1>1, <1>8 DEF vars, IInv, Live, TypeOK, Count
<1> QED
  BY <1>2, <1>3, <1>4, <1>5, <1>6, <1>7, <1>8 DEF Next, PoolCall

LEMMA Inductive == Spec => []IInv
  BY InitIInv, StepIInv, PTL DEF Spec

\* _cool_until has exactly the live keys and _next_index points at one of them,
\* whoever disables which key when.
THEOREM PoolConsistent == Spec => []TypeOK
<1>1. IInv => TypeOK
  BY DEF IInv
<1> QED
  BY <1>1, Inductive, PTL

-----------------------------------------------------------------------------
(***************************************************************************)
(* Sleepers and cooldowns.                                                 *)
(***************************************************************************)
\* Nobody sleeps through a change of the pool.
LEMMA StepNoStaleWait == IInv /\ NoStaleWait /\ [Next]_vars => NoStaleWait'
<1> SUFFICES ASSUME IInv, NoStaleWait, [Next]_vars,
                    NEW s \in Sessions, pc'[s] = "waiting", ~woken'[s]
             PROVE  (Count > 0 /\ wakeAt[s] = EarliestReset)'
  BY DEF NoStaleWait
<1>1. pc \in [Sessions -> PCs] /\ woken \in [Sessions -> BOOLEAN] /\ wakeAt \in [Sessions -> Nat]
  BY DEF IInv, TypeOK
<1>2. ASSUME UNCHANGED <<tokens, coolUntil>>
      PROVE  Count' = Count /\ EarliestReset' = EarliestReset
  BY <1>2 DEF Count, EarliestReset
<1>3. ASSUME UNCHANGED <<tokens, coolUntil>>, wakeAt'[s] = wakeAt[s],
             pc[s] = "waiting", ~woken[s]
      PROVE  (Count > 0 /\ wakeAt[s] = EarliestReset)'
  BY <1>2, <1>3 DEF NoStaleWait
<1>4. CASE \E q \in Sessions : \/ Request(q) \/ AcquireFails(q) \/ Wake(q) \/ HitRateLimit(q)
                               \/ HitSpendLimit(q) \/ StopUsing(q) \/ AcquireGrants(q)
  BY <1>1, <1>3, <1>4 DEF Request, AcquireFails, Wake, HitRateLimit, HitSpendLimit,
                          StopUsing, AcquireGrants, pool
<1>5. ASSUME NEW q \in Sessions, AcquireSleeps(q) PROVE (Count > 0 /\ wakeAt[s] = EarliestReset)'
  <2>1. CASE q = s
    BY <1>1, <1>2, <1>5, <2>1 DEF AcquireSleeps, pool
  <2>2. CASE q # s
    BY <1>1, <1>3, <1>5, <2>2 DEF AcquireSleeps, pool
  <2> QED
    BY <2>1, <2>2
<1>6. ASSUME NEW q \in Sessions, MarkRateLimited(q) \/ MarkDead(q), pc[s] = "waiting"
      PROVE  UNCHANGED <<tokens, coolUntil, wakeAt>> /\ ~woken[s]
  <2>1. ~SignalChanged
    BY <1>1, <1>6 DEF SignalChanged
  <2>2. UNCHANGED <<tokens, coolUntil, wakeAt, woken>>
    BY <1>6, <2>1, MarkRateLimitedPool, MarkDeadPool DEF MarkRateLimited, MarkDead, pool
  <2> QED
    BY <2>2
<1>7. ASSUME NEW q \in Sessions, MarkRateLimited(q) \/ MarkDead(q) PROVE pc[s] = "waiting"
  BY <1>1, <1>7 DEF MarkRateLimited, MarkDead
<1>8. CASE Tick \/ UNCHANGED vars
  BY <1>3, <1>8 DEF Tick, pool, vars
<1> QED
  BY <1>3, <1>4, <1>5, <1>6, <1>7, <1>8 DEF Next, PoolCall

\* No wake-up is lost: an undisturbed sleeper waits exactly for the earliest
\* reset of the keys that are live now, and never on an empty pool.
THEOREM NoWakeUpLost == Spec => []NoStaleWait
<1>1. Init => NoStaleWait
  BY DEF Init, NoStaleWait
<1> QED
  BY <1>1, StepNoStaleWait, Inductive, PTL DEF Spec

LEMMA StepCooldowns ==
  ASSUME IInv, [Next]_vars
  PROVE  /\ DOMAIN coolUntil' \subseteq DOMAIN coolUntil
         /\ \A k \in DOMAIN coolUntil' : coolUntil'[k] >= coolUntil[k]
<1>1. coolUntil \in [Elements(tokens) -> Nat]
  BY DEF IInv, TypeOK
<1>2. CASE UNCHANGED coolUntil
  BY <1>1, <1>2
<1>3. CASE \E s \in Sessions : MarkRateLimited(s)
  BY <1>1, <1>3, MarkRateLimitedPool
<1>4. ASSUME NEW s \in Sessions, MarkDead(s)
      PROVE  /\ DOMAIN coolUntil' \subseteq DOMAIN coolUntil
             /\ \A k \in DOMAIN coolUntil' : coolUntil'[k] >= coolUntil[k]
  <2>1. CASE UNCHANGED coolUntil
    BY <1>2, <2>1
  <2>2. CASE /\ coolUntil' \in [Elements(tokens') -> Nat]
             /\ Elements(tokens') \subseteq Elements(tokens)
             /\ \A k \in Elements(tokens') : coolUntil'[k] = coolUntil[k]
    BY <1>1, <2>2
  <2> QED
    BY <1>4, <2>1, <2>2, MarkDeadPool DEF pool
<1>5. CASE \/ Tick \/ UNCHANGED vars
           \/ \E s \in Sessions :
                \/ Request(s) \/ AcquireFails(s) \/ AcquireGrants(s) \/ AcquireSleeps(s)
                \/ Wake(s) \/ HitRateLimit(s) \/ HitSpendLimit(s) \/ StopUsing(s)
  BY <1>2, <1>5 DEF Tick, vars, pool, Request, AcquireFails, AcquireGrants, AcquireSleeps,
                    Wake, HitRateLimit, HitSpendLimit, StopUsing
<1> QED
  BY <1>3, <1>4, <1>5 DEF Next, PoolCall

\* A late report never shortens a cooldown and never revives a disabled key.
THEOREM CooldownsNeverShrink == Spec => CooldownsOnlyGrow
<1>1. IInv /\ [Next]_vars =>
        [/\ DOMAIN coolUntil' \subseteq DOMAIN coolUntil
         /\ \A k \in DOMAIN coolUntil' : coolUntil'[k] >= coolUntil[k]]_vars
  BY StepCooldowns
<1> QED
  BY <1>1, Inductive, PTL DEF Spec, CooldownsOnlyGrow
=============================================================================
