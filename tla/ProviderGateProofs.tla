------------------------- MODULE ProviderGateProofs -------------------------
(***************************************************************************)
(* Theorems about ProviderGate, for any number of requests, any limit,     *)
(* leases and cooldowns, and any number of hangs and deaths.               *)
(*                                                                         *)
(* Of the queue only its type is needed: that no more than Limit requests  *)
(* are in flight follows from who is active and how long, not from the     *)
(* order of `waiting'.                                                     *)
(***************************************************************************)
EXTENDS ProviderGate, FiniteSetTheorems, SequenceTheorems, WellFoundedInduction, TLAPS

LEMMA Arithmetic ==
    /\ \A n \in Nat : Dec(n) \in Nat /\ Dec(n) <= n /\ (n > 0 => Dec(n) = n - 1)
    /\ \A a, b \in Nat : LeastOf(a, b) \in Nat /\ LeastOf(a, b) <= a /\ LeastOf(a, b) <= b
    /\ \A a, b \in Nat : LeastOf(a, b) \in {a, b}
    /\ \A a, b \in Nat : MostOf(a, b) \in Nat /\ MostOf(a, b) >= a /\ MostOf(a, b) >= b
BY DEF Dec, LeastOf, MostOf

LEMMA AgeBound == MaxAge \in Nat /\ MaxAge >= ProbeLease /\ MaxAge >= MaxRequest
BY GateAssumption DEF MaxAge

LEMMA CooldownType ==
    ASSUME NEW n \in Nat
    PROVE  Cooldown(n) \in Nat
BY GateAssumption DEF Cooldown

(***************************************************************************)
(* Type correctness.  That tries stays within MaxAttempts needs to know    *)
(* who will make another attempt.                                          *)
(***************************************************************************)
WillTry(r) == pc[r] \in {"idle", "backoff"} \/ (pc[r] = "leaving" /\ next[r] = "retry")
TypeInv == FieldTypes /\ \A r \in Requests : WillTry(r) => tries[r] < MaxAttempts

LEMMA CountType ==
    ASSUME NEW hint \in Nat, FieldTypes, Count(hint)
    PROVE  /\ fails' \in 0 .. MaxFails /\ openLeft' \in Nat
           /\ probe' = None /\ probeLeft' = 0
<1> DEFINE n == LeastOf(MaxFails, IF hint > 0 THEN MostOf(Threshold, fails + 1) ELSE fails + 1)
<1>1. n \in 0 .. MaxFails
  BY GateAssumption DEF LeastOf, MostOf, MaxFails, FieldTypes
<1>2. Cooldown(n) \in Nat
  BY <1>1, CooldownType, GateAssumption DEF MaxFails
<1>3. MostOf(Cooldown(n), hint) \in Nat
  BY <1>2 DEF MostOf
<1>4. QED
  BY <1>1, <1>3 DEF Count

LEMMA ResultTypes ==
    ASSUME FieldTypes, NEW r \in Requests,
           Settle(r, Clear) \/ Settle(r, GiveBack(r)) \/ (\E h \in Hints : Settle(r, Count(h)))
    PROVE  /\ fails' \in 0 .. MaxFails /\ openLeft' \in Nat
           /\ probe' \in Requests \cup {None} /\ probeLeft' \in 0 .. ProbeLease
<1>1. CASE UNCHANGED circuit
  BY <1>1 DEF FieldTypes, circuit
<1>2. CASE Clear
  BY <1>2, GateAssumption DEF Clear, MaxFails
<1>3. CASE GiveBack(r)
  BY <1>3, GateAssumption DEF GiveBack, FieldTypes
<1>4. ASSUME NEW h \in Hints, Count(h)
      PROVE  /\ fails' \in 0 .. MaxFails /\ openLeft' \in Nat
             /\ probe' = None /\ probeLeft' = 0
  BY <1>4, CountType, GateAssumption
<1>5. QED
  BY <1>1, <1>2, <1>3, <1>4, GateAssumption DEF Settle

LEMMA EndTypes ==
    ASSUME FieldTypes, NEW r \in Requests, NEW then \in {"stop", "retry"}, NEW delay \in Nat,
           Ends(r, then, delay)
    PROVE  /\ pc' \in [Requests -> Steps] /\ tries' = tries
           /\ next' \in [Requests -> {"stop", "retry"}]
           /\ due' \in [Requests -> Nat] /\ held' \in [Requests -> BOOLEAN]
           /\ age' \in [Requests -> 0 .. MaxAge] /\ UNCHANGED <<slots, bounds>>
BY AgeBound DEF Ends, FieldTypes, Steps

\* Each way an attempt ends settles the circuit and schedules what follows.
LEMMA Finishing ==
    ASSUME NEW r \in Requests, Finish(r)
    PROVE  /\ Sends(r)
           /\ Settle(r, Clear) \/ Settle(r, GiveBack(r)) \/ (\E h \in Hints : Settle(r, Count(h)))
           /\ \E then \in {"stop", "retry"}, delay \in Nat :
                 Ends(r, then, delay) /\ (then = "retry" => AttemptsLeft(r))
<1>1. ASSUME NEW h \in Hints, Fail(r, h)
      PROVE  /\ Sends(r) /\ Settle(r, Count(h))
             /\ \E then \in {"stop", "retry"}, delay \in Nat :
                 Ends(r, then, delay) /\ (then = "retry" => AttemptsLeft(r))
  <2> DEFINE delay == IF h > 0 THEN h ELSE 1
             again == ~Cooling' /\ AttemptsLeft(r) /\ delay <= RetryCap
  <2>1. Ends(r, IF again THEN "retry" ELSE "stop", IF again THEN delay ELSE h)
    BY <1>1 DEF Fail
  <2>2. /\ (IF again THEN "retry" ELSE "stop") \in {"stop", "retry"}
        /\ (IF again THEN delay ELSE h) \in Nat
    BY GateAssumption
  <2>3. QED
    BY <1>1, <2>1, <2>2 DEF Fail
<1>2. ASSUME Succeed(r) \/ Reject(r) \/ Cancel(r)
      PROVE  /\ Sends(r) /\ (Settle(r, Clear) \/ Settle(r, GiveBack(r)))
             /\ \E then \in {"stop", "retry"}, delay \in Nat :
                 Ends(r, then, delay) /\ (then = "retry" => AttemptsLeft(r))
  BY <1>2 DEF Succeed, Reject, Cancel
<1>3. QED
  BY <1>1, <1>2 DEF Finish

\* A heartbeat renews the lease, or ends the attempt like a cancellation.
LEMMA Renewing ==
    ASSUME NEW r \in Requests, Renew(r)
    PROVE  \/ /\ Sends(r) /\ left[r] > 0
              /\ left' = [left EXCEPT ![r] = SlotLease]
              /\ UNCHANGED <<request, waiting, active, circuit, bounds>>
           \/ /\ Sends(r) /\ ~(left[r] > 0)
              /\ Settle(r, GiveBack(r)) /\ Ends(r, "stop", 0)
BY DEF Renew

LEMMA TypeInit == Init => TypeInv
BY GateAssumption, AgeBound DEF Init, TypeInv, FieldTypes, Steps, MaxFails

LEMMA TypeStep == TypeInv /\ [Next]_vars => TypeInv'
<1> SUFFICES ASSUME TypeInv, [Next]_vars PROVE TypeInv'
  OBVIOUS
<1> USE GateAssumption, AgeBound DEF TypeInv, WillTry
<1>1. CASE UNCHANGED vars
  BY <1>1 DEF FieldTypes, vars, request, slots, circuit, bounds
<1>2. ASSUME NEW r \in Requests, Attempt(r) PROVE TypeInv'
  <2>1. tries[r] < MaxAttempts
    BY <1>2 DEF Attempt
  <2>2. tries' \in [Requests -> 0 .. MaxAttempts]
    BY <1>2, <2>1 DEF Attempt, FieldTypes
  <2>3. FieldTypes'
    BY <1>2, <2>2 DEF Attempt, FieldTypes, Steps, slots, circuit
  <2>4. \A q \in Requests : WillTry(q)' => tries'[q] < MaxAttempts
    BY <1>2 DEF Attempt, FieldTypes
  <2>5. QED
    BY <2>3, <2>4
<1>3. ASSUME NEW r \in Requests, Poll(r) PROVE TypeInv'
  <2>1. /\ pc' \in [Requests -> Steps]
        /\ \A q \in Requests : pc'[q] = pc[q] \/ pc'[q] = "admitted"
    BY <1>3 DEF Poll, FieldTypes, Steps
  <2>2. active' \subseteq Requests /\ left' \in [Requests -> 0 .. SlotLease]
    BY <1>3 DEF Poll, LiveActive, FieldTypes
  <2>3. QED
    BY <1>3, <2>1, <2>2 DEF Poll, FieldTypes, circuit, bounds
<1>4. ASSUME NEW r \in Requests, Leave(r) PROVE TypeInv'
  BY <1>4 DEF Leave, Without, FieldTypes, Steps, circuit, bounds
<1>5. ASSUME NEW r \in Requests, Admit(r) PROVE TypeInv'
  <2>1. CASE Cooling
    BY <1>5, <2>1 DEF Admit, FieldTypes, Steps, slots, circuit, bounds
  <2>2. CASE ~Cooling
    <3>1. held' \in [Requests -> BOOLEAN]
      BY <1>5, <2>2 DEF Admit, FieldTypes
    <3>2. /\ pc' \in [Requests -> Steps]
          /\ \A q \in Requests : pc'[q] = pc[q] \/ pc'[q] = "sending"
      BY <1>5, <2>2 DEF Admit, FieldTypes, Steps
    <3>3. probe' \in Requests \cup {None} /\ probeLeft' \in 0 .. ProbeLease
      BY <1>5, <2>2 DEF Admit, FieldTypes
    <3>4. QED
      BY <1>5, <2>2, <3>1, <3>2, <3>3 DEF Admit, FieldTypes, slots, bounds
  <2>3. QED
    BY <2>1, <2>2
<1>6. ASSUME NEW r \in Requests, Finish(r) PROVE TypeInv'
  <2>1. PICK then \in {"stop", "retry"}, delay \in Nat :
             Ends(r, then, delay) /\ (then = "retry" => AttemptsLeft(r))
    BY <1>6, Finishing
  <2>2. FieldTypes'
    BY <1>6, <2>1, Finishing, ResultTypes, EndTypes DEF FieldTypes, slots, bounds
  <2>3. \A q \in Requests : WillTry(q)' => tries'[q] < MaxAttempts
    BY <2>1 DEF Ends, AttemptsLeft, FieldTypes
  <2>4. QED
    BY <2>2, <2>3
<1>7. ASSUME NEW r \in Requests, Renew(r) PROVE TypeInv'
  <2>1. CASE left' = [left EXCEPT ![r] = SlotLease]
             /\ UNCHANGED <<request, waiting, active, circuit, bounds>>
    BY <2>1 DEF FieldTypes, request, circuit, bounds
  <2>2. CASE Settle(r, GiveBack(r)) /\ Ends(r, "stop", 0)
    <3>1. FieldTypes'
      BY <2>2, ResultTypes, EndTypes DEF FieldTypes, slots, bounds
    <3>2. \A q \in Requests : WillTry(q)' => tries'[q] < MaxAttempts
      BY <2>2 DEF Ends, FieldTypes
    <3>3. QED
      BY <3>1, <3>2
  <2>3. QED
    BY <1>7, <2>1, <2>2, Renewing
<1>8. ASSUME NEW r \in Requests, Release(r) PROVE TypeInv'
  BY <1>8 DEF Release, Without, FieldTypes, Steps, circuit, bounds
<1>9. ASSUME NEW r \in Requests, Stall(r) \/ Resume(r) PROVE TypeInv'
  BY <1>9 DEF Stall, Resume, FieldTypes, request, slots, circuit
<1>10. ASSUME NEW r \in Requests, Die(r) PROVE TypeInv'
  BY <1>10 DEF Die, FieldTypes, Steps, slots, circuit
<1>11. CASE Tick
  <2>1. /\ left' \in [Requests -> 0 .. SlotLease]
        /\ age' \in [Requests -> 0 .. MaxAge]
        /\ due' \in [Requests -> Nat]
        /\ openLeft' \in Nat /\ probeLeft' \in 0 .. ProbeLease
    BY <1>11 DEF Tick, FieldTypes, Dec, LeastOf
  <2>2. QED
    BY <1>11, <2>1 DEF Tick, FieldTypes, bounds
<1>12. QED
  BY <1>1, <1>2, <1>3, <1>4, <1>5, <1>6, <1>7, <1>8, <1>9, <1>10, <1>11 DEF Next

(***************************************************************************)
(* The queue that a DELETE leaves.  Keeping is a recursive function: that  *)
(* the recursion has a solution, and that it only keeps tickets, are shown *)
(* by the least number for which they fail.                                *)
(***************************************************************************)
Grown(queue, kept, f, i) ==
    IF i = 0 THEN <<>>
    ELSE IF queue[i] \in kept THEN Append(f[i - 1], queue[i]) ELSE f[i - 1]
IsKeeping(queue, kept, n, f) == f = [i \in 0 .. n |-> Grown(queue, kept, f, i)]

\* A set of numbers that is not empty has a least one.
LEMMA LeastNumber ==
    ASSUME NEW T, T \subseteq Nat, T # {}
    PROVE  \E n \in T : \A m \in T : n <= m
<1> DEFINE Less == OpToRel(<, Nat)
<1>1. IsWellFoundedOn(Less, Nat)
  BY NatLessThanWellFounded
<1>2. Less = {p \in Nat \X Nat : p[1] < p[2]}
  BY Zenon DEF OpToRel
<1> HIDE DEF Less
<1>3. PICK n \in T : \A m \in T : ~(<<m, n>> \in Less)
  BY <1>1, WFMin
<1>4. \A m \in T : ~(m < n)
  BY <1>2, <1>3
<1>5. QED
  BY <1>4

\* The definition of Keeping means what it says: such a function exists.
LEMMA KeepingExists ==
    ASSUME NEW queue, NEW kept, NEW n \in Nat
    PROVE  \E f : IsKeeping(queue, kept, n, f)
<1> DEFINE Missing == {m \in Nat : ~ \E f : IsKeeping(queue, kept, m, f)}
<1>1. SUFFICES ASSUME Missing # {} PROVE FALSE
  OBVIOUS
<1>2. PICK m \in Missing : \A k \in Missing : m <= k
  <2>1. Missing \subseteq Nat
    OBVIOUS
  <2>2. QED
    BY <1>1, <2>1, LeastNumber
<1>3. m # 0
  <2>1. IsKeeping(queue, kept, 0, [i \in 0 .. 0 |-> <<>>])
    BY DEF IsKeeping, Grown
  <2>2. QED
    BY <2>1
<1>4. m - 1 \in Nat /\ m - 1 \notin Missing
  BY <1>2, <1>3
<1>5. PICK f : IsKeeping(queue, kept, m - 1, f)
  BY <1>4
<1> DEFINE g == [i \in 0 .. m |-> IF i = m THEN Grown(queue, kept, f, m) ELSE f[i]]
<1>6. \A i \in 0 .. m : g[i] = Grown(queue, kept, g, i)
  <2>1. \A i \in 0 .. m - 1 : g[i] = f[i] /\ f[i] = Grown(queue, kept, f, i)
    <3>1. \A i \in 0 .. m - 1 : f[i] = Grown(queue, kept, f, i)
      BY <1>5 DEF IsKeeping
    <3>2. \A i \in 0 .. m - 1 : i \in 0 .. m /\ i # m
      BY <1>4
    <3>3. QED
      BY <3>1, <3>2
  <2>2. \A i \in 0 .. m : i > 0 => i - 1 \in 0 .. m - 1
    BY <1>4
  <2>3. g[m] = Grown(queue, kept, f, m)
    BY <1>4
  <2> HIDE DEF g
  <2>4. ASSUME NEW i \in 0 .. m PROVE g[i] = Grown(queue, kept, g, i)
    <3>1. Grown(queue, kept, g, i) = Grown(queue, kept, f, i)
      BY <1>4, <2>1, <2>2 DEF Grown
    <3>2. QED
      BY <2>1, <2>3, <3>1
  <2>5. QED
    BY <2>4
<1>7. IsKeeping(queue, kept, m, g)
  BY <1>6 DEF IsKeeping
<1>8. QED
  BY <1>2, <1>7

\* What is left of a queue of tickets is a queue of tickets.
LEMMA KeepingType ==
    ASSUME NEW R, NEW kept, NEW queue \in Seq(R)
    PROVE  Keeping(queue, kept) \in Seq(R)
<1> DEFINE n == Len(queue)
           f == CHOOSE g : IsKeeping(queue, kept, n, g)
<1>1. n \in Nat
  OBVIOUS
<1>2. IsKeeping(queue, kept, n, f)
  BY <1>1, KeepingExists
<1>3. Keeping(queue, kept) = f[n]
  BY DEF Keeping, IsKeeping, Grown
<1> DEFINE Bad == {m \in 0 .. n : f[m] \notin Seq(R)}
<1> HIDE DEF f, n
<1>4. f[0] = <<>> /\ \A i \in 1 .. n : f[i] = Grown(queue, kept, f, i)
  <2>1. \A i \in 0 .. n : f[i] = Grown(queue, kept, f, i)
    BY <1>2 DEF IsKeeping
  <2>2. QED
    BY <1>1, <2>1 DEF Grown
<1>5. SUFFICES ASSUME Bad # {} PROVE FALSE
  BY <1>1, <1>3
<1>6. PICK m \in Bad : \A k \in Bad : m <= k
  <2>1. Bad \subseteq Nat
    BY <1>1
  <2>2. QED
    BY <1>5, <2>1, LeastNumber
<1>7. m \in 0 .. n /\ f[m] \notin Seq(R) /\ m \in Nat
  BY <1>1
<1>8. m # 0
  BY <1>4, <1>7, EmptySeq
<1>9. m \in 1 .. n /\ m - 1 \in 0 .. n /\ ~(m <= m - 1)
  BY <1>1, <1>7, <1>8
<1>10. f[m - 1] \in Seq(R)
  BY <1>6, <1>9
<1>11. queue[m] \in R
  BY <1>9, <1>1 DEF n
<1>12. f[m] = f[m - 1] \/ f[m] = Append(f[m - 1], queue[m])
  BY <1>4, <1>8, <1>9 DEF Grown
<1>13. Append(f[m - 1], queue[m]) \in Seq(R)
  BY <1>10, <1>11, AppendProperties
<1>14. QED
  BY <1>7, <1>10, <1>12, <1>13
LEMMA QueueType ==
    ASSUME waiting \in Seq(Requests), NEW r \in Requests
    PROVE  /\ Queue(r) \in Seq(Requests) /\ Queue(r) # <<>>
           /\ Tail(Queue(r)) \in Seq(Requests)
<1>1. LiveWaiting \in Seq(Requests)
  BY KeepingType DEF LiveWaiting
<1>2. CASE \E i \in 1 .. Len(LiveWaiting) : LiveWaiting[i] = r
  <2>1. LiveWaiting # <<>>
    BY <1>2, EmptySeq
  <2>2. QED
    BY <1>1, <1>2, <2>1, HeadTailProperties DEF Queue
<1>3. CASE ~\E i \in 1 .. Len(LiveWaiting) : LiveWaiting[i] = r
  <2>1. Queue(r) = Append(LiveWaiting, r)
    BY <1>3 DEF Queue
  <2>2. QED
    BY <1>1, <2>1, AppendProperties, HeadTailProperties
<1>4. QED
  BY <1>2, <1>3

Queued == waiting \in Seq(Requests)

LEMMA QueueStep == Queued /\ [Next]_vars => Queued'
<1> SUFFICES ASSUME waiting \in Seq(Requests), [Next]_vars PROVE waiting' \in Seq(Requests)
  BY DEF Queued
<1>1. ASSUME NEW r \in Requests, Without(r) PROVE waiting' \in Seq(Requests)
  BY <1>1, KeepingType DEF Without
<1>2. ASSUME NEW r \in Requests, Poll(r) PROVE waiting' \in Seq(Requests)
  BY <1>2, QueueType DEF Poll
<1>3. ASSUME NEW r \in Requests, Leave(r) \/ Release(r) PROVE waiting' \in Seq(Requests)
  BY <1>1, <1>3 DEF Leave, Release
<1>4. ASSUME NEW r \in Requests, NEW then \in {"stop", "retry"}, NEW delay \in Nat,
             Ends(r, then, delay)
      PROVE  waiting' \in Seq(Requests)
  BY <1>4 DEF Ends, slots
<1>5. ASSUME NEW r \in Requests, Finish(r) PROVE waiting' \in Seq(Requests)
  <2>1. PICK then \in {"stop", "retry"}, delay \in Nat : Ends(r, then, delay)
    BY <1>5, Finishing
  <2>2. QED
    BY <1>4, <2>1
<1>6. ASSUME NEW r \in Requests, Renew(r) PROVE waiting' \in Seq(Requests)
  BY <1>4, <1>6, Renewing
<1>7. ASSUME NEW r \in Requests,
             Attempt(r) \/ Admit(r) \/ Stall(r) \/ Resume(r) \/ Die(r)
      PROVE  waiting' \in Seq(Requests)
  BY <1>7 DEF Attempt, Admit, Stall, Resume, Die, slots
<1>8. CASE Tick \/ UNCHANGED vars
  BY <1>8 DEF Tick, vars, slots
<1>9. QED
  BY <1>2, <1>3, <1>5, <1>6, <1>7, <1>8 DEF Next

LEMMA FieldsTyped == Spec => []FieldTypes
<1>1. TypeInv => FieldTypes
  BY DEF TypeInv
<1>2. QED
  BY <1>1, TypeInit, TypeStep, PTL DEF Spec

\* Every variable has its type, the queue holds tickets only, and no logical
\* request makes more than MaxAttempts physical ones.
THEOREM TypeCorrect == Spec => []TypeOK
<1>1. FieldTypes /\ Queued => TypeOK
  BY DEF Queued, TypeOK
<1>2. Init => Queued
  BY EmptySeq DEF Init, Queued
<1>3. QED
  BY <1>1, <1>2, FieldsTyped, QueueStep, PTL DEF Spec

(***************************************************************************)
(* No more requests in flight than the limit.  A running process renews    *)
(* its ticket before it can expire, so a request that never hung is still  *)
(* among the active tickets, and those are counted when one is added.      *)
(***************************************************************************)
Keeps(r) == pc[r] \in {"admitted", "sending"} /\ stall[r] = "no"
SlotInv ==
    /\ IsFiniteSet(active) /\ Cardinality(active) <= Limit
    /\ \A r \in Requests : Keeps(r) => r \in active /\ left[r] > 0

LEMMA LiveActiveCount ==
    ASSUME SlotInv
    PROVE  /\ LiveActive \subseteq active /\ IsFiniteSet(LiveActive)
           /\ Cardinality(LiveActive) \in Nat /\ Cardinality(LiveActive) <= Limit
<1>1. LiveActive \subseteq active
  BY DEF LiveActive
<1>2. Cardinality(active) \in Nat
  BY FS_CardinalityType DEF SlotInv
<1>3. IsFiniteSet(LiveActive) /\ Cardinality(LiveActive) <= Cardinality(active)
  BY <1>1, FS_Subset DEF SlotInv
<1>4. Cardinality(LiveActive) \in Nat
  BY <1>3, FS_CardinalityType
<1>5. QED
  BY <1>1, <1>2, <1>3, <1>4, GateAssumption DEF SlotInv

\* A step that touches only r's ticket and lets r go keeps the invariant.
LEMMA LetGo ==
    ASSUME FieldTypes, SlotInv, NEW r \in Requests, Without(r),
           \A q \in Requests \ {r} : Keeps(q)' => Keeps(q),
           ~Keeps(r)'
    PROVE  SlotInv'
<1>1. IsFiniteSet(active') /\ Cardinality(active') <= Cardinality(active)
  BY FS_Subset DEF Without, SlotInv
<1>2. Cardinality(active) \in Nat /\ Cardinality(active') \in Nat
  BY <1>1, FS_CardinalityType DEF SlotInv
<1>3. \A q \in Requests : Keeps(q)' => q \in active' /\ left'[q] > 0
  BY DEF Without, SlotInv, FieldTypes
<1>4. QED
  BY <1>1, <1>2, <1>3, GateAssumption DEF SlotInv

LEMMA SlotStep == FieldTypes /\ SlotInv /\ [Next]_vars => SlotInv'
<1> SUFFICES ASSUME FieldTypes, SlotInv, [Next]_vars PROVE SlotInv'
  OBVIOUS
<1> USE GateAssumption
<1>1. CASE UNCHANGED vars
  BY <1>1 DEF SlotInv, Keeps, vars, request, slots, bounds
<1>2. ASSUME NEW r \in Requests, Attempt(r) PROVE SlotInv'
  BY <1>2 DEF Attempt, SlotInv, Keeps, FieldTypes, slots
<1>3. ASSUME NEW r \in Requests, Poll(r) PROVE SlotInv'
  <2>1. \A q \in Requests : q # r /\ Keeps(q)' => q \in LiveActive /\ left'[q] > 0
    BY <1>3 DEF Poll, SlotInv, Keeps, LiveActive, FieldTypes, bounds
  <2>2. left'[r] > 0
    BY <1>3 DEF Poll, FieldTypes
  <2>3. CASE Acquires(r)
    <3>1. active' = LiveActive \cup {r}
      BY <1>3, <2>3 DEF Poll
    <3>2. IsFiniteSet(active') /\ Cardinality(active') <= Limit
      <4>1. IsFiniteSet(LiveActive) /\ Cardinality(LiveActive) \in Nat
        BY LiveActiveCount
      <4>2. Cardinality(LiveActive) < Limit
        BY <2>3 DEF Acquires
      <4>3. /\ IsFiniteSet(LiveActive \cup {r})
            /\ \/ Cardinality(LiveActive \cup {r}) = Cardinality(LiveActive)
               \/ Cardinality(LiveActive \cup {r}) = Cardinality(LiveActive) + 1
        BY <4>1, FS_AddElement
      <4>4. QED
        BY <3>1, <4>1, <4>2, <4>3
    <3>3. QED
      BY <2>1, <2>2, <3>1, <3>2 DEF SlotInv
  <2>4. CASE ~Acquires(r)
    <3>1. active' = LiveActive /\ pc' = pc /\ ~Keeps(r)'
      BY <1>3, <2>4 DEF Poll, Keeps
    <3>2. QED
      BY <2>1, <3>1, LiveActiveCount DEF SlotInv
  <2>5. QED
    BY <2>3, <2>4
<1>4. ASSUME NEW r \in Requests, Leave(r) PROVE SlotInv'
  <2>1. Without(r) /\ ~Keeps(r)' /\ \A q \in Requests \ {r} : Keeps(q)' => Keeps(q)
    BY <1>4 DEF Leave, Keeps, FieldTypes, bounds
  <2>2. QED
    BY <2>1, LetGo
<1>5. ASSUME NEW r \in Requests, Admit(r) PROVE SlotInv'
  <2>1. \A q \in Requests : Keeps(q)' => Keeps(q)
    BY <1>5 DEF Admit, Keeps, FieldTypes, bounds
  <2>2. QED
    BY <1>5, <2>1 DEF Admit, SlotInv, slots
<1>6. ASSUME NEW r \in Requests, NEW then \in {"stop", "retry"}, NEW delay \in Nat,
             Ends(r, then, delay)
      PROVE  SlotInv'
  BY <1>6 DEF Ends, SlotInv, Keeps, FieldTypes, slots, bounds
<1>7. ASSUME NEW r \in Requests, Finish(r) PROVE SlotInv'
  BY <1>6, <1>7, Finishing
<1>8. ASSUME NEW r \in Requests, Renew(r) PROVE SlotInv'
  <2>1. CASE left' = [left EXCEPT ![r] = SlotLease]
             /\ UNCHANGED <<request, waiting, active, circuit, bounds>>
    BY <2>1 DEF SlotInv, Keeps, FieldTypes, request, bounds
  <2>2. QED
    BY <1>6, <1>8, <2>1, Renewing
<1>9. ASSUME NEW r \in Requests, Release(r) PROVE SlotInv'
  <2>1. Without(r) /\ ~Keeps(r)' /\ \A q \in Requests \ {r} : Keeps(q)' => Keeps(q)
    BY <1>9 DEF Release, Keeps, FieldTypes, bounds
  <2>2. QED
    BY <2>1, LetGo
<1>10. ASSUME NEW r \in Requests, Stall(r) \/ Resume(r) \/ Die(r) PROVE SlotInv'
  <2>1. \A q \in Requests : Keeps(q)' => Keeps(q)
    BY <1>10 DEF Stall, Resume, Die, Keeps, FieldTypes, request
  <2>2. QED
    BY <1>10, <2>1 DEF Stall, Resume, Die, SlotInv, slots
<1>11. CASE Tick
  <2>1. \A q \in Requests : Keeps(q) => pc[q] = "sending" /\ left[q] = SlotLease
    BY <1>11 DEF Tick, Keeps, Runs, Punctual
  <2>2. \A q \in Requests : Keeps(q) => left'[q] > 0
    BY <1>11, <2>1 DEF Tick, Dec, FieldTypes
  <2>3. QED
    BY <1>11, <2>2 DEF Tick, SlotInv, Keeps, bounds
<1>12. QED
  BY <1>1, <1>2, <1>3, <1>4, <1>5, <1>7, <1>8, <1>9, <1>10, <1>11 DEF Next

\* ProviderAdmissionController's bound, across any number of processes.
THEOREM InFlightBounded == Spec => []InFlight
<1>1. Init => SlotInv
  BY FS_EmptySet, GateAssumption DEF Init, SlotInv, Keeps
<1>2. SlotInv => InFlight
  <2> SUFFICES ASSUME SlotInv PROVE InFlight
    OBVIOUS
  <2> DEFINE S == {r \in Requests : pc[r] = "sending" /\ stall[r] = "no"}
  <2>1. S \subseteq active
    BY DEF SlotInv, Keeps
  <2>2. IsFiniteSet(S) /\ Cardinality(S) <= Cardinality(active)
    BY <2>1, FS_Subset DEF SlotInv
  <2>3. Cardinality(S) \in Nat /\ Cardinality(active) \in Nat
    BY <2>2, FS_CardinalityType DEF SlotInv
  <2>4. QED
    BY <2>2, <2>3, GateAssumption DEF SlotInv, InFlight
<1>3. QED
  BY <1>1, <1>2, SlotStep, FieldsTyped, PTL DEF Spec

(***************************************************************************)
(* Probes and cooldowns.  A probe in flight either still owns the record,  *)
(* and its lease and its age add up, or it lost it after a whole lease.    *)
(***************************************************************************)
Probing(r) == pc[r] = "sending" /\ held[r]
ProbeInv ==
    /\ probe # None => openLeft = 0
    /\ \A r \in Requests : held[r] => pc[r] = "sending"
    /\ \A r \in Requests : Probing(r) =>
          IF probe = r THEN probeLeft + age[r] >= ProbeLease ELSE age[r] >= ProbeLease

\* Settling concerns only the probe that settles, and never an open circuit.
LEMMA Settling ==
    ASSUME FieldTypes, ProbeInv, NEW r \in Requests, Sends(r),
           Settle(r, Clear) \/ Settle(r, GiveBack(r)) \/ (\E h \in Hints : Settle(r, Count(h)))
    PROVE  \/ UNCHANGED circuit
           \/ /\ held[r] => probe = r
              /\ ~held[r] => probe = None
              /\ openLeft = 0
              /\ probe' = None
           \/ /\ ~held[r] /\ probe = None /\ openLeft = 0
              /\ UNCHANGED <<probe, openLeft>>
<1>1. CASE Stale(r)
  BY <1>1 DEF Settle
<1>2. CASE ~Stale(r)
  <2>1. (held[r] => probe = r) /\ (~held[r] => probe = None /\ openLeft = 0)
    BY <1>2 DEF Stale, FieldTypes
  <2>2. openLeft = 0
    BY <2>1, GateAssumption DEF ProbeInv
  <2>3. CASE Clear \/ (\E h \in Hints : Count(h))
    BY <2>1, <2>2, <2>3 DEF Clear, Count
  <2>4. CASE GiveBack(r)
    BY <2>1, <2>2, <2>4 DEF GiveBack
  <2>5. QED
    BY <1>2, <2>3, <2>4 DEF Settle
<1>3. QED
  BY <1>1, <1>2

\* An attempt that ends, and what is left of the record, keep the invariant.
LEMMA ProbeEnds ==
    ASSUME FieldTypes, ProbeInv, NEW r \in Requests, Sends(r),
           Settle(r, Clear) \/ Settle(r, GiveBack(r)) \/ (\E h \in Hints : Settle(r, Count(h))),
           NEW then, NEW delay, Ends(r, then, delay)
    PROVE  ProbeInv'
<1>1. \A q \in Requests : /\ Probing(q)' => q # r /\ Probing(q) /\ age'[q] = age[q]
                          /\ held'[q] => pc'[q] = "sending"
  BY DEF Ends, Probing, ProbeInv, FieldTypes
<1>2. CASE UNCHANGED circuit
  BY <1>1, <1>2 DEF ProbeInv, circuit
<1>3. CASE (held[r] => probe = r) /\ (~held[r] => probe = None) /\ openLeft = 0 /\ probe' = None
  BY <1>1, <1>3, GateAssumption DEF ProbeInv
<1>4. CASE probe = None /\ openLeft = 0 /\ UNCHANGED <<probe, openLeft>>
  BY <1>1, <1>4, GateAssumption DEF ProbeInv
<1>5. QED
  BY <1>2, <1>3, <1>4, Settling

LEMMA ProbeStep == FieldTypes /\ ProbeInv /\ [Next]_vars => ProbeInv'
<1> SUFFICES ASSUME FieldTypes, ProbeInv, [Next]_vars PROVE ProbeInv'
  OBVIOUS
<1>1. CASE UNCHANGED vars
  BY <1>1 DEF ProbeInv, Probing, vars, request, circuit
<1>2. ASSUME NEW r \in Requests, Attempt(r) \/ Poll(r) \/ Leave(r) \/ Release(r) \/ Die(r)
      PROVE  ProbeInv'
  <2>1. UNCHANGED circuit
    BY <1>2 DEF Attempt, Poll, Leave, Release, Die
  <2>2. \A q \in Requests : /\ Probing(q)' => Probing(q) /\ age'[q] = age[q]
                            /\ held'[q] => pc'[q] = "sending"
    <3>1. CASE Attempt(r) \/ Poll(r)
      BY <3>1 DEF Attempt, Poll, Probing, ProbeInv, FieldTypes
    <3>2. CASE Leave(r) \/ Release(r)
      BY <3>2 DEF Leave, Release, Probing, ProbeInv, FieldTypes
    <3>3. CASE Die(r)
      BY <3>3 DEF Die, Probing, ProbeInv, FieldTypes
    <3>4. QED
      BY <1>2, <3>1, <3>2, <3>3
  <2>3. QED
    BY <2>1, <2>2 DEF ProbeInv, circuit
<1>3. ASSUME NEW r \in Requests, Stall(r) \/ Resume(r) PROVE ProbeInv'
  BY <1>3 DEF Stall, Resume, ProbeInv, Probing, request, circuit
<1>4. ASSUME NEW r \in Requests, Admit(r) PROVE ProbeInv'
  <2>1. CASE Cooling
    <3>1. \A q \in Requests : /\ Probing(q)' => Probing(q) /\ age'[q] = age[q]
                              /\ held'[q] => pc'[q] = "sending"
      BY <1>4, <2>1 DEF Admit, Probing, ProbeInv, FieldTypes
    <3>2. UNCHANGED circuit
      BY <1>4, <2>1 DEF Admit
    <3>3. QED
      BY <3>1, <3>2 DEF ProbeInv, circuit
  <2>2. CASE ~Cooling /\ fails >= Threshold
    <3>1. probeLeft = 0 /\ openLeft = 0 /\ openLeft' = 0 /\ probe' = r /\ probeLeft' = ProbeLease
      BY <1>4, <2>2, GateAssumption DEF Admit, Cooling, FieldTypes
    <3>2. \A q \in Requests \ {r} : Probing(q)' => Probing(q) /\ age[q] >= ProbeLease
      BY <1>4, <2>2, <3>1 DEF Admit, Probing, ProbeInv, FieldTypes
    <3>3. age' = age /\ age[r] \in Nat /\ \A q \in Requests : held'[q] => pc'[q] = "sending"
      BY <1>4, <2>2, AgeBound DEF Admit, ProbeInv, FieldTypes
    <3>4. QED
      BY <3>1, <3>2, <3>3, GateAssumption DEF ProbeInv
  <2>3. CASE ~Cooling /\ ~(fails >= Threshold)
    <3>1. UNCHANGED <<probe, probeLeft, openLeft, held, age>>
      BY <1>4, <2>3 DEF Admit
    <3>2. probeLeft = 0
      BY <2>3, GateAssumption DEF Cooling, FieldTypes
    <3>3. \A q \in Requests \ {r} : Probing(q)' => Probing(q)
      BY <1>4, <2>3 DEF Admit, Probing, FieldTypes
    <3>4. ~held[r] /\ \A q \in Requests : held'[q] => pc'[q] = "sending"
      BY <1>4, <3>1 DEF Admit, ProbeInv, FieldTypes
    <3>5. QED
      BY <3>1, <3>2, <3>3, <3>4 DEF ProbeInv, Probing
  <2>4. QED
    BY <2>1, <2>2, <2>3
<1>5. ASSUME NEW r \in Requests, Finish(r) PROVE ProbeInv'
  BY <1>5, Finishing, ProbeEnds
<1>6. ASSUME NEW r \in Requests, Renew(r) PROVE ProbeInv'
  <2>1. CASE UNCHANGED <<request, waiting, active, circuit, bounds>>
    BY <2>1 DEF ProbeInv, Probing, request, circuit
  <2>2. QED
    BY <1>6, <2>1, Renewing, ProbeEnds
<1>7. CASE Tick
  <2>1. /\ openLeft = 0 => openLeft' = 0
        /\ probeLeft' >= probeLeft - 1
        /\ UNCHANGED <<pc, held, probe>>
    BY <1>7, GateAssumption DEF Tick, Dec, FieldTypes
  <2>2. \A q \in Requests : Probing(q) => age'[q] >= ProbeLease \/ age'[q] = age[q] + 1
    BY <1>7, AgeBound, GateAssumption DEF Tick, Probing, LeastOf, FieldTypes
  <2>3. \A q \in Requests : Probing(q) => age'[q] >= age[q]
    BY <1>7, AgeBound, GateAssumption DEF Tick, Probing, LeastOf, FieldTypes
  <2>4. /\ probeLeft \in Nat /\ probeLeft' \in Nat /\ ProbeLease \in Nat
        /\ \A q \in Requests : age[q] \in Nat /\ (Probing(q) => age'[q] \in Nat)
    BY <1>7, AgeBound, GateAssumption DEF Tick, Dec, LeastOf, Probing, FieldTypes
  <2>5. QED
    BY <2>1, <2>2, <2>3, <2>4 DEF ProbeInv, Probing
<1>8. QED
  BY <1>1, <1>2, <1>3, <1>4, <1>5, <1>6, <1>7 DEF Next

\* "One probe across desktop processes", for as long as its lease.
THEOREM ProbesAreAlone == Spec => []OneProbe
<1>1. Init => ProbeInv
  BY GateAssumption DEF Init, ProbeInv, Probing
<1>2. ProbeInv => OneProbe
  BY DEF ProbeInv, Probing, OneProbe
<1>3. QED
  BY <1>1, <1>2, ProbeStep, FieldsTyped, PTL DEF Spec

\* A late result neither ends nor shortens a cooldown.
THEOREM CooldownsAreKept == Spec => CooldownKept
<1>1. FieldTypes /\ ProbeInv /\ [Next]_vars
        => [openLeft > 0 => openLeft' >= openLeft - 1]_vars
  <2> SUFFICES ASSUME FieldTypes, ProbeInv, [Next]_vars, openLeft > 0
               PROVE  openLeft' >= openLeft - 1
    OBVIOUS
  <2> openLeft \in Nat
    BY DEF FieldTypes
  <2>1. CASE UNCHANGED circuit
    BY <2>1 DEF circuit
  <2>2. ASSUME NEW r \in Requests, Finish(r) PROVE UNCHANGED circuit
    BY <2>2, Finishing, Settling DEF FieldTypes
  <2>3. ASSUME NEW r \in Requests, Renew(r) PROVE UNCHANGED circuit
    BY <2>3, Renewing, Settling DEF FieldTypes
  <2>4. ASSUME NEW r \in Requests, Admit(r) PROVE UNCHANGED circuit
    BY <2>4 DEF Admit, Cooling
  <2>5. CASE Tick
    BY <2>5 DEF Tick, Dec
  <2>6. ASSUME NEW r \in Requests,
               Attempt(r) \/ Poll(r) \/ Leave(r) \/ Release(r) \/ Stall(r) \/ Resume(r) \/ Die(r)
        PROVE  UNCHANGED circuit
    BY <2>6 DEF Attempt, Poll, Leave, Release, Stall, Resume, Die
  <2>7. CASE UNCHANGED vars
    BY <2>7 DEF vars, circuit
  <2>8. QED
    BY <2>1, <2>2, <2>3, <2>4, <2>5, <2>6, <2>7 DEF Next
<1>2. Init => ProbeInv
  BY GateAssumption DEF Init, ProbeInv, Probing
<1>3. QED
  BY <1>1, <1>2, ProbeStep, FieldsTyped, PTL DEF Spec, CooldownKept

\* While a probe's lease runs, only the prober's own end changes who probes.
THEOREM ProbersDecide == Spec => ProbeDecides
<1> DEFINE Own == probeLeft > 0 /\ probe' # probe
                    => pc[probe] = "sending" /\ pc'[probe] = "leaving"
<1>1. FieldTypes /\ ProbeInv /\ [Next]_vars => [Own]_vars
  <2> SUFFICES ASSUME FieldTypes, ProbeInv, [Next]_vars, probeLeft > 0, probe' # probe
               PROVE  pc[probe] = "sending" /\ pc'[probe] = "leaving"
    BY DEF Own
  <2>1. ASSUME NEW r \in Requests, Sends(r),
               Settle(r, Clear) \/ Settle(r, GiveBack(r)) \/ (\E h \in Hints : Settle(r, Count(h))),
               NEW then, NEW delay, Ends(r, then, delay)
        PROVE  pc[probe] = "sending" /\ pc'[probe] = "leaving"
    <3>1. held[r] /\ probe = r
      BY <2>1, Settling DEF circuit, FieldTypes
    <3>2. pc[r] = "sending" /\ pc'[r] = "leaving"
      BY <2>1 DEF Sends, Ends, FieldTypes
    <3>3. QED
      BY <3>1, <3>2
  <2>2. ASSUME NEW r \in Requests, Finish(r)
        PROVE  pc[probe] = "sending" /\ pc'[probe] = "leaving"
    BY <2>1, <2>2, Finishing
  <2>3. ASSUME NEW r \in Requests, Renew(r)
        PROVE  pc[probe] = "sending" /\ pc'[probe] = "leaving"
    BY <2>1, <2>3, Renewing DEF circuit
  <2>4. ASSUME NEW r \in Requests,
               \/ Attempt(r) \/ Poll(r) \/ Leave(r) \/ Admit(r) \/ Release(r)
               \/ Stall(r) \/ Resume(r) \/ Die(r)
        PROVE  FALSE
    BY <2>4 DEF Attempt, Poll, Leave, Admit, Cooling, Release, Stall, Resume, Die, circuit
  <2>5. UNCHANGED vars \/ Tick => FALSE
    BY DEF vars, circuit, Tick
  <2>6. QED
    BY <2>2, <2>3, <2>4, <2>5 DEF Next
<1>2. Init => ProbeInv
  BY GateAssumption DEF Init, ProbeInv, Probing
<1>3. QED
  BY <1>1, <1>2, ProbeStep, FieldsTyped, PTL DEF Spec, ProbeDecides, Own
=============================================================================
