--------------------------- MODULE LockoutProofs ----------------------------
(***************************************************************************)
(* The lockout, for any number of connections, any window and any limit,   *)
(* and the SOCKS5 proxy as one of its users.  The argument is about the    *)
(* newest failure on record: no other is younger, and once there are       *)
(* enough, the lockout ends one window after it.  While the lockout lasts  *)
(* nobody passes the check, so the failures still to come are those of     *)
(* connections that passed before.                                         *)
(***************************************************************************)
EXTENDS Socks5, FiniteSetTheorems, SequenceTheorems,
        WellFoundedInduction, TLAPS

\* The failures are on record in the order in which they happened.
OldestFirst ==
    /\ \A i, j \in 1..Len(failures) : i <= j => failures[i] <= failures[j]
    /\ \A i \in 1..Len(failures) : failures[i] <= now

\* A lockout ends one window after the newest of the failures that cause it.
NewestDecides ==
    Len(failures) >= MaxFailures => blockedUntil = failures[Len(failures)] + Window

\* Until a failure is recorded after the lockout, the one that began it stays
\* on record, before those of the connections that were in flight.
BeginningKept ==
    blockedUntil # 0 /\ (\A i \in 1..Len(failures) : failures[i] < blockedUntil)
        => \E p \in 1..Len(failures) : failures[p] = blockedUntil - Window

IndInv ==
    /\ TypeOK
    /\ OldestFirst
    /\ NewestDecides
    /\ BeginningKept
    /\ OvershootBounded

-----------------------------------------------------------------------------
(* What retain keeps.                                                      *)

\* The size of an interval.
LEMMA CountInterval ==
  ASSUME NEW k \in Nat, NEW n \in Nat, k <= n + 1
  PROVE  IsFiniteSet(k..n) /\ Cardinality(k..n) = n - k + 1
  <1>1. k \in Int /\ n \in Int  OBVIOUS
  <1>2. /\ IsFiniteSet(k..n)
        /\ Cardinality(k..n) = IF k > n THEN 0 ELSE n - k + 1
    BY <1>1, FS_Interval, Zenon
  <1> QED  BY <1>2

LEMMA CountUpTo ==
  ASSUME NEW n \in Nat
  PROVE  IsFiniteSet(1..n) /\ Cardinality(1..n) = n
  BY CountInterval

\* The failures are a function on 1..Len, the recent ones finitely many.
LEMMA FailuresFinite ==
  ASSUME TypeOK
  PROVE  /\ Len(failures) \in Nat /\ DOMAIN failures = 1..Len(failures)
         /\ \A i \in 1..Len(failures) : failures[i] \in 0..MaxTime
         /\ RecentFailures \subseteq 1..Len(failures)
         /\ IsFiniteSet(RecentFailures) /\ Cardinality(RecentFailures) \in Nat
         /\ Cardinality(RecentFailures) <= Len(failures)
  <1>1. /\ Len(failures) \in Nat /\ DOMAIN failures = 1..Len(failures)
        /\ \A i \in 1..Len(failures) : failures[i] \in 0..MaxTime
    BY LenProperties, ElementOfSeq DEF TypeOK
  <1>2. RecentFailures \in SUBSET (1..Len(failures))  BY <1>1 DEF RecentFailures
  <1>3. /\ IsFiniteSet(1..Len(failures))
        /\ Cardinality(1..Len(failures)) = Len(failures)
    BY <1>1, CountInterval
  <1>4. /\ IsFiniteSet(RecentFailures)
        /\ Cardinality(RecentFailures) <= Len(failures)
    BY <1>2, <1>3, FS_Subset
  <1> QED  BY <1>1, <1>2, <1>4, FS_CardinalityType

\* retain keeps as many failures as are recent, and they are the last ones.
LEMMA RetainedIs ==
  ASSUME TypeOK
  PROVE  /\ Retained \in Seq(0..MaxTime)
         /\ Len(Retained) = Cardinality(RecentFailures)
         /\ \A i \in 1..Len(Retained) :
              Retained[i] = failures[i + Len(failures) - Len(Retained)]
  <1> DEFINE n == Len(failures)
             Old == {i \in DOMAIN failures : ~Recent(failures[i])}
             m == Cardinality(Old) + 1
  <1>1. /\ n \in Nat /\ Cardinality(RecentFailures) \in 0..n
        /\ \A i \in 1..n : failures[i] \in 0..MaxTime
    BY FailuresFinite
  <1>2. Cardinality(Old) = n - Cardinality(RecentFailures)
    <2>1. Old = (1..n) \ RecentFailures  BY FailuresFinite DEF RecentFailures
    <2>2. (1..n) \cap RecentFailures = RecentFailures  BY FailuresFinite
    <2>3. IsFiniteSet(1..n) /\ Cardinality(1..n) = n
      BY <1>1, CountUpTo, Zenon
    <2>4. Cardinality((1..n) \ RecentFailures)
            = Cardinality(1..n) - Cardinality((1..n) \cap RecentFailures)
      BY <2>3, FS_Difference, Zenon
    <2> QED  BY <2>1, <2>2, <2>3, <2>4
  <1>3. Retained = SubSeq(failures, m, n)  BY DEF Retained
  <1>4. m \in Int /\ m >= 1 /\ m <= n + 1 /\ n - m + 1 = Cardinality(RecentFailures)
    BY <1>1, <1>2
  <1> HIDE DEF m, Old
  <1>5. \A i \in m..n : failures[i] \in 0..MaxTime  BY <1>1, <1>4
  <1>6. /\ SubSeq(failures, m, n) \in Seq(0..MaxTime)
        /\ Len(SubSeq(failures, m, n)) = IF m <= n THEN n - m + 1 ELSE 0
        /\ \A i \in 1..(n - m + 1) : SubSeq(failures, m, n)[i] = failures[m + i - 1]
    BY <1>1, <1>4, <1>5, SubSeqProperties
  <1>7. Len(Retained) = n - m + 1  BY <1>1, <1>3, <1>4, <1>6
  <1>8. ASSUME NEW i \in 1..Len(Retained)
        PROVE  Retained[i] = failures[i + n - Len(Retained)]
    <2>1. i \in 1..(n - m + 1)  BY <1>7, <1>8
    <2>2. m + i - 1 = i + n - Len(Retained)  BY <1>1, <1>4, <1>7, <2>1
    <2> QED  BY <1>3, <1>6, <2>1, <2>2
  <1> QED  BY <1>3, <1>4, <1>6, <1>7, <1>8

\* A set of numbers that is not empty has a least one.
LEMMA LeastNumber ==
  ASSUME NEW T \in SUBSET Nat, T # {}
  PROVE  \E x \in T : \A y \in T : x <= y
  <1> DEFINE R == OpToRel(<, Nat)
  <1>1. IsWellFoundedOn(R, Nat)  BY NatLessThanWellFounded
  <1>2. PICK x \in T : \A y \in T : ~ (<<y, x>> \in R)
    <2> HIDE DEF R
    <2> QED  BY <1>1, WFMin
  <1>3. \A y \in T : y < x => <<y, x>> \in R  BY DEF OpToRel
  <1> HIDE DEF R
  <1>4. \A y \in T : ~(y < x)  BY <1>2, <1>3
  <1> QED  BY <1>4

\* Every failure that is kept is recent, and every recent one is kept: the
\* last ones are what the closure passed to retain selects.
LEMMA RetainedIsRecent ==
  ASSUME TypeOK, OldestFirst
  PROVE  RecentFailures = (Len(failures) - Len(Retained) + 1)..Len(failures)
  <1> DEFINE n == Len(failures)
  <1> USE FailuresFinite, RetainedIs
  <1>1. CASE RecentFailures = {}
    <2>1. Len(Retained) = 0  BY <1>1, FS_EmptySet
    <2> QED  BY <1>1, <2>1
  <1>2. CASE RecentFailures # {}
    <2>1. PICK k \in RecentFailures : \A j \in RecentFailures : k <= j
      <3>1. RecentFailures \in SUBSET Nat  OBVIOUS
      <3> QED  BY <1>2, <3>1, LeastNumber
    <2>2. \A j \in k..n : j \in RecentFailures
      <3> TAKE j \in k..n
      <3>1. failures[k] <= failures[j] /\ Recent(failures[k]) /\ j \in 1..n
        BY <2>1 DEF OldestFirst, RecentFailures
      <3>2. /\ now \in Int /\ Window \in Int
            /\ failures[j] \in Int /\ failures[k] \in Int
        BY <2>1, <3>1, LimitAssumption DEF TypeOK
      <3> QED  BY <3>1, <3>2 DEF Recent, RecentFailures
    <2>3. k \in 1..n /\ n \in Nat  OBVIOUS
    <2>4. RecentFailures = k..n
      <3>1. \A j \in RecentFailures : j \in 1..n  OBVIOUS
      <3>2. \A j \in RecentFailures : j \in k..n  BY <2>1, <2>3, <3>1
      <3> QED  BY <2>2, <3>2
    <2>5. Cardinality(k..n) = n - k + 1  BY <2>3, CountInterval
    <2>6. Len(Retained) = n - k + 1  BY <2>4, <2>5
    <2> QED  BY <2>3, <2>4, <2>6
  <1> QED  BY <1>1, <1>2

-----------------------------------------------------------------------------
(* The lockout.                                                            *)

\* Enough recent failures: the newest is recent, so the lockout is not over.
LEMMA NewestBlocks ==
  ASSUME TypeOK, OldestFirst, NewestDecides
  PROVE  EnoughFailuresBlock
  <1> SUFFICES ASSUME Cardinality(RecentFailures) >= MaxFailures PROVE Limited
    BY DEF EnoughFailuresBlock
  <1> USE FailuresFinite, LimitAssumption
  <1>1. RecentFailures # {}  BY FS_EmptySet
  <1>2. PICK i \in 1..Len(failures) : Recent(failures[i])
    BY <1>1 DEF RecentFailures
  <1>3. failures[i] <= failures[Len(failures)]  BY DEF OldestFirst
  <1>4. blockedUntil = failures[Len(failures)] + Window  BY DEF NewestDecides
  <1>5. /\ now \in Nat /\ Window \in Nat \ {0} /\ failures[i] \in Nat
        /\ failures[Len(failures)] \in Nat
    BY <1>2 DEF TypeOK
  <1> QED  BY <1>2, <1>3, <1>4, <1>5 DEF Recent, Limited

\* The connections in flight are finitely many.
LEMMA ProvingFinite ==
  /\ IsFiniteSet(Proving) /\ Cardinality(Proving) \in Nat
  /\ Cardinality(Task) \in Nat /\ Cardinality(Proving) <= Cardinality(Task)
  <1>1. Proving \in SUBSET Task  BY DEF Proving
  <1> QED  BY <1>1, TaskAssumption, FS_Subset, FS_CardinalityType

LEMMA InitInv == Init => IndInv
  <1> SUFFICES ASSUME Init PROVE IndInv  OBVIOUS
  <1> USE LimitAssumption DEF Init
  <1>1. TypeOK  BY DEF TypeOK
  <1>2. Len(failures) = 0  OBVIOUS
  <1>3. OldestFirst /\ NewestDecides /\ BeginningKept
    BY <1>2 DEF OldestFirst, NewestDecides, BeginningKept
  <1>4. OvershootBounded
    <2>1. Cardinality(RecentFailures) <= 0  BY <1>1, <1>2, FailuresFinite
    <2>2. Cardinality(RecentFailures) = 0  BY <1>1, <2>1, FailuresFinite
    <2> QED  BY <2>2, ProvingFinite DEF OvershootBounded
  <1> QED  BY <1>1, <1>3, <1>4 DEF IndInv

\* Time passes: failures grow old, none becomes recent.
LEMMA TickInv == IndInv /\ Tick => IndInv'
  <1> SUFFICES ASSUME IndInv, Tick PROVE IndInv'  OBVIOUS
  <1> USE LimitAssumption, FailuresFinite DEF IndInv, Tick
  <1>1. TypeOK' /\ OldestFirst' /\ NewestDecides' /\ BeginningKept'
    BY DEF TypeOK, OldestFirst, NewestDecides, BeginningKept
  <1>2. RecentFailures' \subseteq RecentFailures
    BY DEF RecentFailures, Recent, TypeOK
  <1>3. /\ Cardinality(RecentFailures') <= Cardinality(RecentFailures)
        /\ Cardinality(RecentFailures') \in Nat
    BY <1>2, FS_Subset, FS_CardinalityType
  <1>4. Proving' = Proving  BY DEF Proving
  <1>5. OvershootBounded'
    BY <1>3, <1>4, ProvingFinite DEF OvershootBounded
  <1> QED  BY <1>1, <1>5

\* Passing the check: the address is not locked out, so it has failures left.
LEMMA CheckInv == ASSUME IndInv, NEW t \in Task, CheckPasses(t) PROVE IndInv'
  <1> USE LimitAssumption, FailuresFinite DEF IndInv, CheckPasses
  <1>1. TypeOK' /\ OldestFirst' /\ NewestDecides' /\ BeginningKept'
    BY DEF TypeOK, OldestFirst, NewestDecides, BeginningKept
  <1>2. Cardinality(RecentFailures) <= MaxFailures - 1
    BY NewestBlocks DEF EnoughFailuresBlock
  <1>3. RecentFailures' = RecentFailures  BY DEF RecentFailures, Recent
  <1>4. Cardinality(Proving') <= Cardinality(Task) /\ Cardinality(Proving') \in Nat
    <2>1. Proving' \in SUBSET Task  BY DEF Proving
    <2> QED  BY <2>1, TaskAssumption, FS_Subset, FS_CardinalityType
  <1>5. OvershootBounded'
    BY <1>2, <1>3, <1>4, ProvingFinite DEF OvershootBounded
  <1> QED  BY <1>1, <1>5

\* A verdict takes one connection out of flight.
LEMMA VerdictShrinks ==
  ASSUME TypeOK, NEW t \in Task, task[t] = "proving",
         task' = [task EXCEPT ![t] = "idle"]
  PROVE  Cardinality(Proving') = Cardinality(Proving) - 1
  <1>1. Proving' = Proving \ {t} /\ t \in Proving  BY DEF Proving, TypeOK
  <1> QED  BY <1>1, ProvingFinite, FS_RemoveElement

LEMMA MatchInv == ASSUME IndInv, NEW t \in Task, ProofMatches(t) PROVE IndInv'
  <1> USE LimitAssumption DEF IndInv, ProofMatches
  <1>1. TypeOK' /\ OldestFirst' /\ NewestDecides' /\ BeginningKept'
    BY DEF TypeOK, OldestFirst, NewestDecides, BeginningKept
  <1>2. RecentFailures' = RecentFailures  BY DEF RecentFailures, Recent
  <1>3. Cardinality(Proving') = Cardinality(Proving) - 1  BY VerdictShrinks
  <1>4. Cardinality(RecentFailures) \in Nat  BY FailuresFinite
  <1>5. OvershootBounded'
    BY <1>2, <1>3, <1>4, ProvingFinite DEF OvershootBounded
  <1> QED  BY <1>1, <1>5

\* A failure is recorded: one more on record, one connection less in flight.
LEMMA FailureInv == ASSUME IndInv, NEW t \in Task, RecordFailure(t) PROVE IndInv'
  <1> DEFINE m == Len(Retained)  n == Len(failures)
  <1>0. TypeOK /\ OldestFirst /\ NewestDecides /\ BeginningKept /\ OvershootBounded
    BY DEF IndInv
  <1>1. /\ Retained \in Seq(0..MaxTime) /\ now \in 0..MaxTime
        /\ m \in Nat /\ m = Cardinality(RecentFailures) /\ n \in Nat /\ m <= n
    BY <1>0, RetainedIs, FailuresFinite DEF TypeOK
  <1>2. /\ failures' \in Seq(0..MaxTime) /\ Len(failures') = m + 1
        /\ failures'[m + 1] = now
        /\ \A i \in 1..m : failures'[i] = Retained[i]
    BY <1>1 DEF RecordFailure
  <1>3. \A i \in 1..m : failures'[i] = failures[i + n - m]
    BY <1>0, <1>2, RetainedIs
  <1>4. \A i \in 1..n : failures[i] \in Nat /\ failures[i] <= now
    BY <1>0, FailuresFinite DEF OldestFirst
  <1>5. \A i, j \in 1..n : i <= j => failures[i] <= failures[j]
    BY <1>0 DEF OldestFirst
  <1> HIDE DEF m, n
  <1>6. TypeOK'
    BY <1>0, <1>1, <1>2, LimitAssumption DEF TypeOK, RecordFailure
  <1>7. OldestFirst'
    <2>1. \A i \in 1..m : i + n - m \in 1..n  BY <1>1
    <2>2. \A i \in 1..m : failures'[i] \in Nat /\ failures'[i] <= now
      BY <1>3, <1>4, <2>1
    <2>3. ASSUME NEW i \in 1..m, NEW j \in 1..m, i <= j
          PROVE  failures'[i] <= failures'[j]
      <3>1. i + n - m <= j + n - m  BY <1>1, <2>3
      <3> QED  BY <1>3, <1>5, <2>1, <3>1
    <2>4. now' = now /\ now \in Nat  BY <1>1 DEF RecordFailure
    <2>5. \A i \in 1..(m + 1) : i \in 1..m \/ i = m + 1  BY <1>1
    <2> QED  BY <1>1, <1>2, <2>2, <2>3, <2>4, <2>5 DEF OldestFirst
  <1>8. NewestDecides'  BY <1>1, <1>2 DEF NewestDecides, RecordFailure
  <1>b. BeginningKept'
    <2>1. CASE blockedUntil' = now + Window
      <3>1. m + 1 \in 1..(m + 1) /\ now = (now + Window) - Window
        BY <1>1, LimitAssumption
      <3> QED  BY <1>2, <2>1, <3>1 DEF BeginningKept
    <2>2. CASE blockedUntil' = blockedUntil
      <3> SUFFICES ASSUME blockedUntil # 0,
                          \A i \in 1..(m + 1) : failures'[i] < blockedUntil
                   PROVE  \E p \in 1..(m + 1) : failures'[p] = blockedUntil - Window
        BY <1>2, <2>2 DEF BeginningKept
      <3>1. /\ now \in Nat /\ Window \in Nat \ {0} /\ blockedUntil \in Nat
            /\ now < blockedUntil
        BY <1>0, <1>1, <1>2, LimitAssumption DEF TypeOK
      <3>2. \A i \in 1..n : failures[i] < blockedUntil  BY <1>4, <3>1
      <3>3. PICK p \in 1..n : failures[p] = blockedUntil - Window
        BY <1>0, <3>2 DEF BeginningKept, n
      <3>4. p \in RecentFailures
        <4>1. Recent(failures[p])  BY <3>1, <3>3 DEF Recent
        <4> QED  BY <1>0, <4>1, FailuresFinite DEF RecentFailures, n
      <3>5. p \in (n - m + 1)..n  BY <1>0, <3>4, RetainedIsRecent DEF n, m
      <3>6. p + m - n \in 1..m /\ (p + m - n) + n - m = p  BY <1>1, <3>5
      <3>7. failures'[p + m - n] = failures[p]  BY <1>3, <3>6
      <3>8. p + m - n \in 1..(m + 1)  BY <1>1, <3>6
      <3> QED  BY <3>3, <3>7, <3>8
    <2> QED  BY <2>1, <2>2 DEF RecordFailure
  <1>9. OvershootBounded'
    <2>1. RecentFailures' \in SUBSET (1..(m + 1))
      <3>1. DOMAIN failures' = 1..(m + 1)  BY <1>2, LenProperties
      <3> QED  BY <3>1 DEF RecentFailures
    <2>2. IsFiniteSet(1..(m + 1)) /\ Cardinality(1..(m + 1)) = m + 1
      <3>1. m + 1 \in Nat  BY <1>1
      <3> QED  BY <3>1, CountUpTo, Zenon
    <2>3. /\ Cardinality(RecentFailures') <= m + 1
          /\ Cardinality(RecentFailures') \in Nat
      BY <2>1, <2>2, FS_Subset, FS_CardinalityType
    <2>4. Cardinality(Proving') = Cardinality(Proving) - 1
      BY <1>0, VerdictShrinks DEF RecordFailure
    <2> QED
      BY <1>0, <1>1, <2>3, <2>4, ProvingFinite, LimitAssumption DEF OvershootBounded
  <1> QED  BY <1>6, <1>7, <1>8, <1>b, <1>9 DEF IndInv

LEMMA NextInv == IndInv /\ [Next]_vars => IndInv'
  <1> SUFFICES ASSUME IndInv, [Next]_vars PROVE IndInv'  OBVIOUS
  <1>1. CASE UNCHANGED vars
    BY <1>1 DEF vars, IndInv, TypeOK, OldestFirst, NewestDecides, BeginningKept,
       OvershootBounded, RecentFailures, Recent, Proving
  <1> QED
    BY <1>1, TickInv, CheckInv, MatchInv, FailureInv DEF Next

LEMMA Safety == Spec => []IndInv
  BY InitInv, NextInv, PTL DEF Spec

-----------------------------------------------------------------------------
(* The theorems, of the lockout and of the proxy that shares it.           *)

\* Every variable keeps its type.
THEOREM TypeCorrect == Spec => []TypeOK
  <1>1. IndInv => TypeOK  BY DEF IndInv
  <1> QED  BY <1>1, Safety, PTL

\* Keeping the last failures keeps exactly those that retain's closure
\* selects.
THEOREM RetainSelects ==
  Spec => [](RecentFailures = (Len(failures) - Len(Retained) + 1)..Len(failures))
  <1>1. IndInv => RecentFailures = (Len(failures) - Len(Retained) + 1)..Len(failures)
    BY RetainedIsRecent DEF IndInv
  <1> QED  BY <1>1, Safety, PTL

\* Whenever the failures within the window reach the limit, the next check
\* refuses the address.
THEOREM LockoutHolds == Spec => []EnoughFailuresBlock
  <1>1. IndInv => EnoughFailuresBlock  BY NewestBlocks DEF IndInv
  <1> QED  BY <1>1, Safety, PTL

\* Connections that race the lockout exceed the limit by at most one failure
\* each.
THEOREM OvershootHolds == Spec => []OvershootBounded
  <1>1. IndInv => OvershootBounded  BY DEF IndInv
  <1> QED  BY <1>1, Safety, PTL

\* After a lockout has run its course, a failure finds on record only what was
\* recorded after the failure that began it, and the first one never begins
\* another lockout, if more than one is allowed: of what the connections in
\* flight left, the record held at most the limit less one together with the
\* beginning of the lockout, which is gone.
THEOREM SlateIsClean == Spec => CleanSlate
  <1> DEFINE Clean ==
        (blockedUntil # 0 /\ ~Limited /\ failures' # failures) =>
          /\ \A i \in DOMAIN failures' : failures'[i] > blockedUntil - Window
          /\ MaxFailures > 1 /\ (\A i \in DOMAIN failures : failures[i] < blockedUntil)
                => blockedUntil' = blockedUntil
  <1>1. IndInv /\ [Next]_vars => [Clean]_vars
    <2> SUFFICES ASSUME IndInv, Next, blockedUntil # 0, ~Limited, failures' # failures
                 PROVE  Clean
      OBVIOUS
    <2> DEFINE n == Len(failures)  m == Len(Retained)
    <2>0. TypeOK /\ OldestFirst /\ NewestDecides /\ BeginningKept  BY DEF IndInv
    <2>1. PICK t \in Task : RecordFailure(t)
      BY DEF Next, Tick, CheckPasses, ProofMatches
    <2>2. /\ now \in Nat /\ Window \in Nat \ {0} /\ blockedUntil \in Nat
          /\ blockedUntil <= now /\ MaxFailures \in Nat
      BY <2>0, LimitAssumption DEF TypeOK, Limited
    <2>3. /\ Retained \in Seq(0..MaxTime) /\ n \in Nat /\ m \in Nat /\ m <= n
          /\ \A i \in 1..m : Retained[i] = failures[i + n - m]
          /\ \A i \in 1..n : failures[i] \in Nat
      BY <2>0, RetainedIs, FailuresFinite
    <2>4. /\ DOMAIN failures = 1..n /\ RecentFailures = (n - m + 1)..n
      BY <2>0, FailuresFinite, RetainedIsRecent
    <2>5. /\ Len(failures') = m + 1 /\ DOMAIN failures' = 1..(m + 1)
          /\ failures'[m + 1] = now
          /\ \A i \in 1..m : failures'[i] = failures[i + n - m]
      <3>1. now \in 0..MaxTime  BY <2>0 DEF TypeOK
      <3> QED  BY <2>1, <2>3, <3>1 DEF RecordFailure
    <2> HIDE DEF n, m
    <2>6. \A j \in (n - m + 1)..n : failures[j] > blockedUntil - Window
      <3> TAKE j \in (n - m + 1)..n
      <3>1. Recent(failures[j]) /\ failures[j] \in Nat
        BY <2>3, <2>4 DEF RecentFailures
      <3> QED  BY <2>2, <3>1 DEF Recent
    <2>7. \A i \in 1..(m + 1) : failures'[i] > blockedUntil - Window
      <3> TAKE i \in 1..(m + 1)
      <3>1. CASE i = m + 1  BY <2>2, <2>5, <3>1
      <3>2. CASE i \in 1..m
        <4>1. i + n - m \in (n - m + 1)..n  BY <2>3, <3>2
        <4> QED  BY <2>5, <2>6, <3>2, <4>1
      <3> QED  BY <2>3, <3>1, <3>2
    <2>8. ASSUME MaxFailures > 1, \A i \in 1..n : failures[i] < blockedUntil
          PROVE  blockedUntil' = blockedUntil
      <3>1. PICK p \in 1..n : failures[p] = blockedUntil - Window
        BY <2>0, <2>8 DEF BeginningKept, n
      <3>2. p \notin (n - m + 1)..n
        <4>1. failures[p] \in Nat /\ ~(failures[p] > blockedUntil - Window)
          BY <2>2, <2>3, <3>1
        <4> QED  BY <2>6, <4>1
      <3>3. p <= n - m /\ m < n  BY <2>3, <3>2
      <3>4. m + 1 < MaxFailures
        <4>1. CASE n < MaxFailures  BY <2>2, <2>3, <3>3, <4>1
        <4>2. CASE n >= MaxFailures
          <5>1. blockedUntil = failures[n] + Window /\ n \in 1..n
            BY <2>0, <2>2, <2>3, <3>1, <4>2 DEF NewestDecides, n
          <5>2. failures[n] \in Nat /\ ~(failures[n] > blockedUntil - Window)
            BY <2>2, <2>3, <5>1
          <5>3. n \notin (n - m + 1)..n  BY <2>6, <5>2
          <5>4. m = 0  BY <2>3, <5>3
          <5> QED  BY <2>2, <2>8, <5>4
        <4> QED  BY <2>2, <2>3, <4>1, <4>2
      <3> QED  BY <2>1, <2>2, <2>3, <2>5, <3>4 DEF RecordFailure
    <2> QED  BY <2>4, <2>5, <2>7, <2>8
  <1> QED  BY <1>1, Safety, PTL DEF Spec, CleanSlate

\* Every behaviour of the proxy is one of the lockout: negotiate looks the
\* entry up before it reads credentials, and gives one verdict on them.
THEOREM ProxyKeepsProtocol == SocksSpec => KeepsLockoutProtocol
  <1>1. SocksInit => Init  BY DEF SocksInit
  <1>2. [SocksNext]_socksVars => [Next]_vars
    BY DEF SocksNext, socksVars, vars, limiter, Next, SocksTick, Connect,
       OfferPassword, OfferNoAuth, CredentialsRight, CredentialsWrong,
       CredentialsMissing, Request, Relay, Refused
  <1> QED  BY <1>1, <1>2, PTL DEF SocksSpec, Spec, KeepsLockoutProtocol

\* Hence the lockout holds of the proxy, and so does its bound.
THEOREM ProxyLocksOut == SocksSpec => [](EnoughFailuresBlock /\ OvershootBounded)
  BY ProxyKeepsProtocol, LockoutHolds, OvershootHolds, PTL DEF KeepsLockoutProtocol

\* The proxy waits for a credential exactly between the lookup of the lockout
\* and the verdict, and no lockout reaches past one window from now.
THEOREM ProxyTypeCorrect == SocksSpec => []SocksTypeOK
  <1>1. SocksInit => SocksTypeOK
    BY InitInv, LimitAssumption DEF SocksInit, Init, SocksTypeOK, IndInv, Waiting
  <1>2. ASSUME SocksTypeOK, IndInv', [SocksNext]_socksVars PROVE SocksTypeOK'
    <2> USE <1>2 DEF SocksTypeOK, IndInv, TypeOK, limiter, Goto, Waiting
    <2>1. CASE SocksTick \/ UNCHANGED socksVars
      <3>1. anonymous' = anonymous /\ place' = place /\ task' = task
        BY <2>1 DEF SocksTick, Tick, socksVars
      <3>2. /\ now \in Nat /\ blockedUntil \in Nat /\ Window \in Nat
            /\ blockedUntil <= now + Window
        BY LimitAssumption
      <3>3. blockedUntil' = blockedUntil /\ (now' = now \/ now' = now + 1)
        BY <2>1 DEF SocksTick, Tick, socksVars
      <3>4. ASSUME NEW n \in Nat, NEW b \in Nat, NEW w \in Nat, b <= n + w
            PROVE  b <= (n + 1) + w
        BY <3>4
      <3>5. blockedUntil' <= now' + Window  BY <3>2, <3>3, <3>4, Zenon
      <3> QED  BY <3>1, <3>5
    <2>2. ASSUME NEW c \in Task, Connect(c) \/ OfferNoAuth(c) PROVE SocksTypeOK'
      BY <2>2 DEF Connect, OfferNoAuth
    <2>3. ASSUME NEW c \in Task, Request(c) \/ Relay(c) \/ Refused(c)
          PROVE SocksTypeOK'
      BY <2>3 DEF Request, Relay, Refused
    <2>4. ASSUME NEW c \in Task, OfferPassword(c) PROVE SocksTypeOK'
      BY <2>4 DEF OfferPassword, CheckPasses
    <2>5. ASSUME NEW c \in Task, CredentialsRight(c) \/ CredentialsMissing(c)
          PROVE SocksTypeOK'
      BY <2>5 DEF CredentialsRight, CredentialsMissing, ProofMatches
    <2>6. ASSUME NEW c \in Task, CredentialsWrong(c) PROVE SocksTypeOK'
      BY <2>6, LimitAssumption DEF CredentialsWrong, RecordFailure
    <2> QED  BY <2>1, <2>2, <2>3, <2>4, <2>5, <2>6 DEF SocksNext
  <1>3. SocksSpec => []IndInv
    BY ProxyKeepsProtocol, Safety, PTL DEF KeepsLockoutProtocol
  <1> QED  BY <1>1, <1>2, <1>3, PTL DEF SocksSpec
=============================================================================
