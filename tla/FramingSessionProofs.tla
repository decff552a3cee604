------------------------ MODULE FramingSessionProofs ------------------------
(***************************************************************************)
(* The framing implements a channel of whole messages, for any envelopes,  *)
(* cut into records in any way, however often the client's select! drops   *)
(* what it has read of a frame.                                            *)
(*                                                                         *)
(* A message is pending until its last record is read.  The lemmas say     *)
(* what writing and reading one record does to the sequence of messages    *)
(* that are complete on the wire; it is defined by counting last records,  *)
(* so they are about sets of numbers first.                                *)
(*                                                                         *)
(* Then the client's session, for any number of connectors, secrets and    *)
(* certificates: what client.toml holds is what the server was paired with,*)
(* as long as the connectors take turns.                                   *)
(*                                                                         *)
(* The two components share this module and nothing else.                  *)
(***************************************************************************)
EXTENDS Framing, ClientSession, FiniteSetTheorems, SequenceTheorems, TLAPS

-----------------------------------------------------------------------------
(* The n-th of a finite set of numbers.                                    *)

\* Ranks are between one and the size of the set, and grow.
LEMMA RankFacts ==
  ASSUME NEW S \in SUBSET Nat, IsFiniteSet(S)
  PROVE  /\ Cardinality(S) \in Nat
         /\ \A k \in S : Rank(S, k) \in 1..Cardinality(S)
         /\ \A k \in S, l \in S : k < l => Rank(S, k) < Rank(S, l)
  <1>1. Cardinality(S) \in Nat  BY FS_CardinalityType
  <1>2. ASSUME NEW k \in S PROVE Rank(S, k) \in 1..Cardinality(S)
    <2> DEFINE B == {j \in S : j <= k}
    <2>1. IsFiniteSet(B) /\ Cardinality(B) <= Cardinality(S) /\ Cardinality(B) \in Nat
      BY FS_Subset, FS_CardinalityType
    <2>2. k \in B  OBVIOUS
    <2>3. Cardinality(B) # 0  BY <2>1, <2>2, FS_EmptySet
    <2> QED  BY <1>1, <2>1, <2>3 DEF Rank
  <1>3. ASSUME NEW k \in S, NEW l \in S, k < l PROVE Rank(S, k) < Rank(S, l)
    <2> DEFINE B == {j \in S : j <= k}
               C == {j \in S : j <= l}
    <2>1. IsFiniteSet(C) /\ Cardinality(C) \in Nat  BY FS_Subset, FS_CardinalityType
    <2>2. B \in SUBSET C /\ l \in C /\ l \notin B
      <3>1. k \in Nat /\ l \in Nat /\ \A j \in S : j \in Nat  OBVIOUS
      <3>2. l <= l /\ ~(l <= k) /\ \A j \in S : j <= k => j <= l  BY <1>3, <3>1
      <3> QED  BY <3>2, Zenon
    <2>3. Cardinality(B) <= Cardinality(C) /\ Cardinality(B) \in Nat
      BY <2>1, <2>2, FS_Subset, FS_CardinalityType
    <2>4. Cardinality(B) # Cardinality(C)  BY <2>1, <2>2, FS_Subset
    <2> QED  BY <2>1, <2>3, <2>4 DEF Rank
  <1> QED  BY <1>1, <1>2, <1>3

\* Every place is taken, by one number.
LEMMA NthFacts ==
  ASSUME NEW S \in SUBSET Nat, IsFiniteSet(S)
  PROVE  /\ \A k \in S : Nth(S, Rank(S, k)) = k
         /\ \A n \in 1..Cardinality(S) : Nth(S, n) \in S /\ Rank(S, Nth(S, n)) = n
  <1> DEFINE N == Cardinality(S)
             f == [k \in S |-> Rank(S, k)]
  <1>1. /\ N \in Nat /\ \A k \in S : Rank(S, k) \in 1..N
        /\ \A k \in S, l \in S : k < l => Rank(S, k) < Rank(S, l)
    BY RankFacts
  <1>2. \A k \in S, l \in S : Rank(S, k) = Rank(S, l) => k = l
    <2> SUFFICES ASSUME NEW k \in S, NEW l \in S, Rank(S, k) = Rank(S, l) PROVE k = l
      OBVIOUS
    <2>1. ~(k < l) /\ ~(l < k)  BY <1>1
    <2> QED  BY <2>1
  <1>3. IsFiniteSet(1..N) /\ Cardinality(1..N) = N
    <2>1. 1 \in Int /\ N \in Int  BY <1>1
    <2>2. IsFiniteSet(1..N) /\ Cardinality(1..N) = IF 1 > N THEN 0 ELSE N - 1 + 1
      BY <2>1, FS_Interval
    <2> QED  BY <1>1, <2>2
  <1>4. f \in Injection(S, 1..N)
    BY <1>1, <1>2 DEF Injection, IsInjective
  <1>5. f \in Surjection(S, 1..N)  BY <1>3, <1>4, FS_Injection
  <1>6. \A n \in 1..N : \E k \in S : Rank(S, k) = n  BY <1>5 DEF Surjection
  <1>7. \A n \in 1..N : Nth(S, n) \in S /\ Rank(S, Nth(S, n)) = n
    BY <1>6 DEF Nth
  <1> QED  BY <1>1, <1>2, <1>7

\* A number beyond all others comes last.
LEMMA NthOfMore ==
  ASSUME NEW S \in SUBSET Nat, IsFiniteSet(S), NEW m \in Nat, \A k \in S : k < m
  PROVE  /\ IsFiniteSet(S \cup {m})
         /\ Cardinality(S \cup {m}) = Cardinality(S) + 1
         /\ \A n \in 1..Cardinality(S) : Nth(S \cup {m}, n) = Nth(S, n)
         /\ Nth(S \cup {m}, Cardinality(S) + 1) = m
  <1> DEFINE T == S \cup {m}
  <1>1. m \notin S  OBVIOUS
  <1>2. IsFiniteSet(T) /\ Cardinality(T) = Cardinality(S) + 1 /\ T \in SUBSET Nat
    BY <1>1, FS_AddElement
  <1>3. \A k \in S : Rank(T, k) = Rank(S, k)
    <2> SUFFICES ASSUME NEW k \in S PROVE {j \in T : j <= k} = {j \in S : j <= k}
      BY DEF Rank
    <2>1. ~(m <= k)  OBVIOUS
    <2> QED  BY <2>1
  <1>4. Rank(T, m) = Cardinality(S) + 1
    <2>1. {j \in T : j <= m} = T
      <3>1. \A j \in T : j <= m  OBVIOUS
      <3> QED  BY <3>1
    <2> QED  BY <1>2, <2>1 DEF Rank
  <1>5. \A k \in T : Nth(T, Rank(T, k)) = k  BY <1>2, NthFacts
  <1>6. \A n \in 1..Cardinality(S) : Nth(S, n) \in S /\ Rank(S, Nth(S, n)) = n
    BY NthFacts
  <1>7. \A n \in 1..Cardinality(S) : Nth(T, n) = Nth(S, n)
    <2> SUFFICES ASSUME NEW n \in 1..Cardinality(S) PROVE Nth(T, n) = Nth(S, n)
      OBVIOUS
    <2>1. Nth(S, n) \in S /\ Rank(T, Nth(S, n)) = n  BY <1>3, <1>6
    <2> QED  BY <1>5, <2>1
  <1> QED  BY <1>2, <1>4, <1>5, <1>7

\* S without 1, each number one less.
Shifted(S) == {k \in Nat : k > 0 /\ k + 1 \in S}

\* ... and how many that loses.
Lost(S) == IF 1 \in S THEN 1 ELSE 0

\* As many of the shifted numbers are up to k as of the others up to k + 1.
LEMMA CountShifted ==
  ASSUME NEW S \in SUBSET (Nat \ {0}), IsFiniteSet(S), NEW k \in Nat
  PROVE  /\ IsFiniteSet({j \in Shifted(S) : j <= k})
         /\ Cardinality({j \in Shifted(S) : j <= k})
              = Cardinality({j \in S : j <= k + 1}) - Lost(S)
  <1> DEFINE A == {j \in S : j <= k + 1}
             B == A \ {1}
             C == {j \in Shifted(S) : j <= k}
             f == [j \in B |-> j - 1]
  <1>1. IsFiniteSet(A)  BY FS_Subset
  <1>2. IsFiniteSet(B) /\ Cardinality(B) = Cardinality(A) - Lost(S)
    <2>1. /\ IsFiniteSet(B)
          /\ Cardinality(B) = IF 1 \in A THEN Cardinality(A) - 1 ELSE Cardinality(A)
      BY <1>1, FS_RemoveElement
    <2>2. 1 \in A <=> 1 \in S  OBVIOUS
    <2>3. Cardinality(A) \in Nat  BY <1>1, FS_CardinalityType
    <2> QED  BY <2>1, <2>2, <2>3 DEF Lost
  <1>3. f \in [B -> C]
    <2> SUFFICES ASSUME NEW j \in B PROVE j - 1 \in C  OBVIOUS
    <2>1. j \in Nat /\ j # 0 /\ j # 1 /\ j \in S /\ j <= k + 1  OBVIOUS
    <2>2. j - 1 \in Nat /\ j - 1 > 0 /\ (j - 1) + 1 = j /\ j - 1 <= k  BY <2>1
    <2> QED  BY <2>1, <2>2 DEF Shifted
  <1>4. IsInjective(f)  BY DEF IsInjective
  <1>5. \A c \in C : \E b \in B : f[b] = c
    <2> SUFFICES ASSUME NEW c \in C PROVE c + 1 \in B /\ f[c + 1] = c  OBVIOUS
    <2> QED  BY DEF Shifted
  <1>6. ExistsBijection(B, C)
    BY <1>3, <1>4, <1>5 DEF ExistsBijection, Bijection, Injection, Surjection
  <1>7. IsFiniteSet(C) /\ Cardinality(C) = Cardinality(B)
    BY <1>2, <1>6, FS_Bijection
  <1> QED  BY <1>2, <1>7

\* Leaving out the first place moves every other place down by one.
LEMMA NthOfShifted ==
  ASSUME NEW b \in Nat, NEW S \in SUBSET (1..b), IsFiniteSet(S)
  PROVE  /\ Cardinality(Shifted(S)) = Cardinality(S) - Lost(S)
         /\ \A n \in 1..Cardinality(Shifted(S)) :
              /\ Nth(Shifted(S), n) \in Shifted(S)
              /\ Nth(S, n + Lost(S)) = Nth(Shifted(S), n) + 1
  <1> DEFINE T == Shifted(S)
  <1>1. S \in SUBSET Nat /\ T \in SUBSET Nat /\ \A k \in T : k \in Nat /\ k + 1 \in S
    BY DEF Shifted
  <1>2. IsFiniteSet(T) /\ Cardinality(T) = Cardinality(S) - Lost(S)
    <2>1. \A k \in S : k <= b  OBVIOUS
    <2>2. {j \in T : j <= b} = T
      <3> SUFFICES ASSUME NEW j \in T PROVE j <= b  OBVIOUS
      <3>1. j \in Nat /\ j + 1 <= b  BY <1>1, <2>1
      <3> QED  BY <3>1
    <2>3. {j \in S : j <= b + 1} = S
      <3> SUFFICES ASSUME NEW j \in S PROVE j <= b + 1  OBVIOUS
      <3>1. j \in Nat /\ j <= b  BY <1>1, <2>1
      <3> QED  BY <3>1
    <2>4. S \in SUBSET (Nat \ {0})  OBVIOUS
    <2> QED  BY <2>2, <2>3, <2>4, CountShifted
  <1>3. Cardinality(S) \in Nat /\ Cardinality(T) \in Nat /\ Lost(S) \in {0, 1}
    BY <1>2, FS_CardinalityType DEF Lost
  <1>4. ASSUME NEW n \in 1..Cardinality(T)
        PROVE  Nth(T, n) \in T /\ Nth(S, n + Lost(S)) = Nth(T, n) + 1
    <2> DEFINE k == Nth(T, n)
    <2>1. k \in T /\ Rank(T, k) = n  BY <1>1, <1>2, NthFacts
    <2>2. k \in Nat /\ k + 1 \in S  BY <1>1, <2>1
    <2>3. Rank(T, k) = Rank(S, k + 1) - Lost(S)
      <3>1. S \in SUBSET (Nat \ {0})  OBVIOUS
      <3> QED  BY <2>2, <3>1, CountShifted DEF Rank
    <2>4. Rank(S, k + 1) \in 1..Cardinality(S)  BY <1>1, <2>2, RankFacts
    <2>5. Rank(S, k + 1) = n + Lost(S)
      <3> HIDE DEF k
      <3> QED  BY <1>3, <2>1, <2>3, <2>4
    <2>6. Nth(S, Rank(S, k + 1)) = k + 1  BY <1>1, <2>2, NthFacts
    <2> QED  BY <2>1, <2>5, <2>6
  <1> QED  BY <1>2, <1>4

-----------------------------------------------------------------------------
(* The messages that are complete on the wire.                             *)

Record == Envelope \X Nat

\* The last record of its frame.
IsLast(r) == r[2] = Parts[r[1]]

\* Where the last records are.
LEMMA LastFacts ==
  ASSUME NEW w \in Seq(Record)
  PROVE  /\ Len(w) \in Nat /\ \A k \in 1..Len(w) : w[k] \in Record
         /\ LastRecords(w) = {k \in 1..Len(w) : IsLast(w[k])}
         /\ IsFiniteSet(LastRecords(w)) /\ Cardinality(LastRecords(w)) \in Nat
         /\ LastRecords(w) \in SUBSET (1..Len(w)) /\ LastRecords(w) \in SUBSET Nat
  <1>1. Len(w) \in Nat /\ DOMAIN w = 1..Len(w) /\ \A k \in 1..Len(w) : w[k] \in Record
    BY LenProperties, ElementOfSeq
  <1>2. LastRecords(w) = {k \in 1..Len(w) : IsLast(w[k])}
    BY <1>1 DEF LastRecords, IsLast
  <1>3. IsFiniteSet(1..Len(w))  BY <1>1, FS_Interval
  <1>4. LastRecords(w) \in SUBSET (1..Len(w))  BY <1>2
  <1>5. IsFiniteSet(LastRecords(w))  BY <1>3, <1>4, FS_Subset
  <1> QED  BY <1>1, <1>2, <1>4, <1>5, FS_CardinalityType

\* They name a sequence of messages.
LEMMA CompleteFacts ==
  ASSUME NEW w \in Seq(Record)
  PROVE  /\ Complete(w) \in Seq(Envelope)
         /\ Len(Complete(w)) = Cardinality(LastRecords(w))
         /\ \A n \in 1..Len(Complete(w)) :
              Complete(w)[n] = w[Nth(LastRecords(w), n)][1]
  <1> DEFINE N == Cardinality(LastRecords(w))
  <1>1. N \in Nat  BY LastFacts
  <1>2. \A n \in 1..N : Nth(LastRecords(w), n) \in 1..Len(w)
    BY LastFacts, NthFacts
  <1>3. \A n \in 1..N : w[Nth(LastRecords(w), n)][1] \in Envelope
    BY <1>2, LastFacts DEF Record
  <1>4. Complete(w) \in [1..N -> Envelope]  BY <1>3 DEF Complete
  <1>5. Complete(w) \in Seq(Envelope) /\ Len(Complete(w)) = N
    BY <1>1, <1>4
  <1> QED  BY <1>5 DEF Complete

\* Writing a record adds its message if it is the last.
LEMMA CompleteAppend ==
  ASSUME NEW w \in Seq(Record), NEW r \in Record
  PROVE  Complete(Append(w, r)) =
           IF IsLast(r) THEN Append(Complete(w), r[1]) ELSE Complete(w)
  <1> DEFINE v == Append(w, r)
             L == LastRecords(w)
             M == LastRecords(v)
             m == Len(w) + 1
  <1>1. /\ v \in Seq(Record) /\ Len(v) = m /\ v[m] = r
        /\ \A k \in 1..Len(w) : v[k] = w[k]
    BY AppendProperties
  <1>2. Len(w) \in Nat /\ m \in Nat  BY LastFacts
  <1>3. L \in SUBSET Nat /\ IsFiniteSet(L) /\ \A k \in L : k < m /\ k \in 1..Len(w)
    BY <1>2, LastFacts
  <1>4. M = IF IsLast(r) THEN L \cup {m} ELSE L
    <2>1. M = {k \in 1..m : IsLast(v[k])} /\ L = {k \in 1..Len(w) : IsLast(w[k])}
      BY <1>1, LastFacts
    <2>2. 1..m = 1..Len(w) \cup {m} /\ m \notin 1..Len(w)  BY <1>2
    <2> HIDE DEF M, L, m, v
    <2> QED  BY <1>1, <2>1, <2>2
  <1>5. \A n \in 1..Cardinality(L) : Nth(L, n) \in 1..Len(w)
    BY <1>3, NthFacts
  <1>6. /\ Complete(w) \in Seq(Envelope) /\ Complete(v) \in Seq(Envelope)
        /\ Len(Complete(w)) = Cardinality(L) /\ Len(Complete(v)) = Cardinality(M)
        /\ \A n \in 1..Cardinality(L) : Complete(w)[n] = w[Nth(L, n)][1]
        /\ \A n \in 1..Cardinality(M) : Complete(v)[n] = v[Nth(M, n)][1]
    BY <1>1, CompleteFacts
  <1>7. Cardinality(L) \in Nat /\ r[1] \in Envelope  BY LastFacts DEF Record
  <1>8. CASE ~IsLast(r)
    <2>1. M = L  BY <1>4, <1>8
    <2>2. \A n \in 1..Len(Complete(v)) : Complete(v)[n] = Complete(w)[n]
      <3> TAKE n \in 1..Len(Complete(v))
      <3>1. n \in 1..Cardinality(L)  BY <1>6, <2>1
      <3>2. v[Nth(L, n)] = w[Nth(L, n)]  BY <1>1, <1>5, <3>1
      <3> HIDE DEF M, L, m, v
      <3> QED  BY <1>6, <2>1, <3>1, <3>2
    <2>3. Complete(v) = Complete(w)
      <3>1. Len(Complete(v)) = Len(Complete(w))  BY <1>6, <2>1
      <3> QED  BY <1>6, <2>2, <3>1, SeqEqual
    <2> QED  BY <1>8, <2>3
  <1>9. CASE IsLast(r)
    <2>1. M = L \cup {m}  BY <1>4, <1>9
    <2>2. /\ Cardinality(M) = Cardinality(L) + 1
          /\ \A n \in 1..Cardinality(L) : Nth(M, n) = Nth(L, n)
          /\ Nth(M, Cardinality(L) + 1) = m
      <3>1. L \in SUBSET Nat /\ IsFiniteSet(L) /\ m \in Nat  BY <1>2, <1>3
      <3>2. \A k \in L : k < m  BY <1>3
      <3> HIDE DEF L, m, M
      <3>3. /\ Cardinality(L \cup {m}) = Cardinality(L) + 1
            /\ \A n \in 1..Cardinality(L) : Nth(L \cup {m}, n) = Nth(L, n)
            /\ Nth(L \cup {m}, Cardinality(L) + 1) = m
        BY <3>1, <3>2, NthOfMore
      <3> QED  BY <2>1, <3>3
    <2> DEFINE a == Append(Complete(w), r[1])
    <2>3. /\ a \in Seq(Envelope) /\ Len(a) = Cardinality(L) + 1
          /\ \A n \in 1..Cardinality(L) : a[n] = Complete(w)[n]
          /\ a[Cardinality(L) + 1] = r[1]
      BY <1>6, <1>7, AppendProperties
    <2>4. ASSUME NEW n \in 1..(Cardinality(L) + 1) PROVE Complete(v)[n] = a[n]
      <3> HIDE DEF M, L, m, v, a
      <3>1. CASE n = Cardinality(L) + 1
        BY <1>1, <1>6, <2>2, <2>3, <2>4, <3>1
      <3>2. CASE n \in 1..Cardinality(L)
        <4>1. v[Nth(L, n)] = w[Nth(L, n)]  BY <1>1, <1>5, <3>2
        <4>2. n \in 1..Cardinality(M) /\ Nth(M, n) = Nth(L, n)
          BY <1>7, <2>2, <3>2
        <4> QED  BY <1>6, <2>3, <3>2, <4>1, <4>2
      <3> QED  BY <1>7, <2>4, <3>1, <3>2
    <2>5. Complete(v) = a
      <3>1. Len(Complete(v)) = Len(a)  BY <1>6, <2>2, <2>3
      <3>2. \A n \in 1..Len(Complete(v)) : Complete(v)[n] = a[n]
        BY <1>6, <2>2, <2>4
      <3> HIDE DEF v, a
      <3> QED  BY <1>6, <2>3, <3>1, <3>2, SeqEqual
    <2> QED  BY <1>9, <2>5
  <1> QED  BY <1>8, <1>9

\* Reading a record takes its message away if it is the last, and it is the
\* first of them then.
LEMMA CompleteTail ==
  ASSUME NEW w \in Seq(Record), w # <<>>
  PROVE  /\ IsLast(w[1]) => /\ Complete(w) # <<>>
                            /\ Head(Complete(w)) = w[1][1]
                            /\ Complete(Tail(w)) = Tail(Complete(w))
         /\ ~IsLast(w[1]) => Complete(Tail(w)) = Complete(w)
  <1> DEFINE v == Tail(w)
             L == LastRecords(w)
             M == LastRecords(v)
             b == Len(w)
  <1>1. /\ v \in Seq(Record) /\ Len(v) = b - 1 /\ b \in Nat \ {0}
        /\ \A k \in 1..(b - 1) : v[k] = w[k + 1]
    BY HeadTailProperties, EmptySeq
  <1>2. L \in SUBSET (1..b) /\ L \in SUBSET Nat /\ IsFiniteSet(L) /\ Cardinality(L) \in Nat
    BY LastFacts
  <1>3. M = Shifted(L)
    <2>1. M = {k \in 1..(b - 1) : IsLast(v[k])} /\ L = {k \in 1..b : IsLast(w[k])}
      BY <1>1, LastFacts
    <2>2. \A k \in 1..(b - 1) : k \in Nat /\ k > 0 /\ k + 1 \in 1..b  BY <1>1
    <2>3. \A k \in Nat : k > 0 /\ k + 1 \in 1..b => k \in 1..(b - 1)  BY <1>1
    <2> HIDE DEF M, L, v, b
    <2> QED  BY <1>1, <2>1, <2>2, <2>3 DEF Shifted
  <1>4. 1 \in L <=> IsLast(w[1])  BY <1>1, LastFacts
  <1>5. /\ Cardinality(M) = Cardinality(L) - Lost(L)
        /\ \A n \in 1..Cardinality(M) :
             Nth(M, n) \in M /\ Nth(L, n + Lost(L)) = Nth(M, n) + 1
    <2> HIDE DEF M, L, v, b
    <2>1. /\ Cardinality(Shifted(L)) = Cardinality(L) - Lost(L)
          /\ \A n \in 1..Cardinality(Shifted(L)) :
               /\ Nth(Shifted(L), n) \in Shifted(L)
               /\ Nth(L, n + Lost(L)) = Nth(Shifted(L), n) + 1
      BY <1>1, <1>2, NthOfShifted
    <2> QED  BY <1>3, <2>1
  <1>6. /\ Complete(w) \in Seq(Envelope) /\ Complete(v) \in Seq(Envelope)
        /\ Len(Complete(w)) = Cardinality(L) /\ Len(Complete(v)) = Cardinality(M)
        /\ \A n \in 1..Cardinality(L) : Complete(w)[n] = w[Nth(L, n)][1]
        /\ \A n \in 1..Cardinality(M) : Complete(v)[n] = v[Nth(M, n)][1]
    BY <1>1, CompleteFacts
  <1>7. Cardinality(M) \in Nat /\ M \in SUBSET (1..(b - 1))  BY <1>1, LastFacts
  <1>8. ASSUME NEW n \in 1..Cardinality(M)
        PROVE  /\ n + Lost(L) \in 1..Cardinality(L)
               /\ Complete(v)[n] = Complete(w)[n + Lost(L)]
    <2> HIDE DEF M, L, v, b
    <2>1. n + Lost(L) \in 1..Cardinality(L)  BY <1>2, <1>5, <1>7 DEF Lost
    <2>2. Nth(M, n) \in 1..(b - 1) /\ Nth(L, n + Lost(L)) = Nth(M, n) + 1
      BY <1>5, <1>7
    <2>3. v[Nth(M, n)] = w[Nth(L, n + Lost(L))]  BY <1>1, <2>2
    <2> QED  BY <1>6, <2>1, <2>3
  <1>9. CASE ~IsLast(w[1])
    <2>1. Lost(L) = 0  BY <1>4, <1>9 DEF Lost
    <2>2. Len(Complete(v)) = Len(Complete(w))  BY <1>2, <1>5, <1>6, <2>1
    <2>3. \A n \in 1..Len(Complete(v)) : Complete(v)[n] = Complete(w)[n]
      <3> HIDE DEF M, L, v, b
      <3> TAKE n \in 1..Len(Complete(v))
      <3>1. n + 0 = n /\ n \in 1..Cardinality(M)  BY <1>6, <1>7
      <3> QED  BY <1>8, <2>1, <3>1
    <2> QED  BY <1>6, <1>9, <2>2, <2>3, SeqEqual
  <1>10. CASE IsLast(w[1])
    <2>1. Lost(L) = 1 /\ 1 \in L  BY <1>4, <1>10 DEF Lost
    <2>2. Rank(L, 1) = 1
      <3>1. {j \in L : j <= 1} = {1}
        <4>1. \A j \in L : j <= 1 <=> j = 1  BY <1>1, <1>2
        <4> QED  BY <2>1, <4>1
      <3> QED  BY <3>1, FS_Singleton DEF Rank
    <2>3. Nth(L, 1) = 1
      <3> HIDE DEF L
      <3> QED  BY <1>2, <2>1, <2>2, NthFacts
    <2>4. Cardinality(L) \in Nat \ {0} /\ 1 \in 1..Cardinality(L)
      <3> HIDE DEF L
      <3>1. 1 \in 1..Cardinality(L)  BY <1>2, <2>1, <2>2, RankFacts
      <3> QED  BY <1>2, <3>1
    <2>5. Complete(w) # <<>> /\ Head(Complete(w)) = w[1][1]
      <3> HIDE DEF L
      <3>1. Complete(w)[1] = w[1][1] /\ Len(Complete(w)) # 0  BY <1>6, <2>3, <2>4
      <3> QED  BY <1>6, <3>1
    <2> DEFINE t == Tail(Complete(w))
    <2>6. /\ t \in Seq(Envelope) /\ Len(t) = Cardinality(L) - 1
          /\ \A n \in 1..(Cardinality(L) - 1) : t[n] = Complete(w)[n + 1]
      BY <1>6, <2>5, HeadTailProperties
    <2>7. Len(Complete(v)) = Len(t)  BY <1>5, <1>6, <2>1, <2>6
    <2>8. \A n \in 1..Len(Complete(v)) : Complete(v)[n] = t[n]
      <3> HIDE DEF M, L, v, b, t
      <3> TAKE n \in 1..Len(Complete(v))
      <3>1. n \in 1..Cardinality(M) /\ n \in 1..(Cardinality(L) - 1)
        BY <1>6, <2>6, <2>7
      <3> QED  BY <1>8, <2>1, <2>6, <3>1
    <2>9. Complete(v) = t
      <3> HIDE DEF v, t
      <3> QED  BY <1>6, <2>6, <2>7, <2>8, SeqEqual
    <2> QED  BY <1>10, <2>5, <2>9
  <1> QED  BY <1>9, <1>10

-----------------------------------------------------------------------------
(* The queue of messages: on the wire, in the writer, in the channel.      *)

\* A message is put at the end.
LEMMA QueueAppend ==
  ASSUME NEW E, NEW a \in Seq(E), NEW b \in Seq(E), NEW c \in Seq(E), NEW m \in E
  PROVE  (a \o b) \o Append(c, m) = Append((a \o b) \o c, m)
  <1>1. a \o b \in Seq(E) /\ (a \o b) \o c \in Seq(E) /\ <<m>> \in Seq(E)
    BY ConcatProperties
  <1>2. Append(c, m) = c \o <<m>> /\ Append((a \o b) \o c, m) = ((a \o b) \o c) \o <<m>>
    BY <1>1, AppendIsConcat
  <1> QED  BY <1>1, <1>2, ConcatAssociative

\* The writer takes the next message.
LEMMA QueueTake ==
  ASSUME NEW E, NEW a \in Seq(E), NEW c \in Seq(E), c # <<>>
  PROVE  (a \o <<>>) \o c = (a \o <<Head(c)>>) \o Tail(c)
  <1>1. Head(c) \in E /\ Tail(c) \in Seq(E) /\ <<Head(c)>> \in Seq(E)
    BY HeadTailProperties
  <1>2. c = <<Head(c)>> \o Tail(c)
    <2> DEFINE d == <<Head(c)>> \o Tail(c)
    <2>1. /\ d \in Seq(E) /\ Len(d) = 1 + Len(Tail(c))
          /\ \A i \in 1..Len(d) :
               d[i] = IF i <= 1 THEN Head(c) ELSE Tail(c)[i - 1]
      BY <1>1, ConcatProperties
    <2>2. /\ Len(Tail(c)) = Len(c) - 1 /\ Len(c) \in Nat \ {0} /\ Head(c) = c[1]
          /\ \A i \in 1..(Len(c) - 1) : Tail(c)[i] = c[i + 1]
      BY HeadTailProperties, EmptySeq
    <2> HIDE DEF d
    <2>3. Len(d) = Len(c) /\ \A i \in 1..Len(d) : d[i] = c[i]
      <3>1. Len(d) = Len(c)  BY <2>1, <2>2
      <3>2. ASSUME NEW i \in 1..Len(c) PROVE d[i] = c[i]
        <4>1. CASE i = 1  BY <2>1, <2>2, <3>1, <4>1
        <4>2. CASE i # 1
          <5>1. i - 1 \in 1..(Len(c) - 1) /\ (i - 1) + 1 = i /\ ~(i <= 1)
            BY <2>2, <4>2
          <5> QED  BY <2>1, <2>2, <3>1, <5>1
        <4> QED  BY <4>1, <4>2
      <3> QED  BY <3>1, <3>2
    <2>4. c = d  BY <2>1, <2>3, SeqEqual
    <2> QED  BY <2>4 DEF d
  <1>3. a \o <<>> = a  BY ConcatEmptySeq
  <1>4. (a \o <<Head(c)>>) \o Tail(c) = a \o (<<Head(c)>> \o Tail(c))
    BY <1>1, ConcatAssociative
  <1> QED  BY <1>2, <1>3, <1>4

\* The writer is done with a message, which is now on the wire.
LEMMA QueueWritten ==
  ASSUME NEW E, NEW a \in Seq(E), NEW c \in Seq(E), NEW m \in E
  PROVE  (Append(a, m) \o <<>>) \o c = (a \o <<m>>) \o c
  <1>1. Append(a, m) \in Seq(E) /\ Append(a, m) = a \o <<m>>
    BY AppendProperties, AppendIsConcat
  <1>2. Append(a, m) \o <<>> = Append(a, m)  BY <1>1, ConcatEmptySeq
  <1> QED  BY <1>1, <1>2

\* The first message on the wire is the first of the queue.
LEMMA QueueHead ==
  ASSUME NEW E, NEW a \in Seq(E), NEW b \in Seq(E), NEW c \in Seq(E), a # <<>>
  PROVE  /\ (a \o b) \o c # <<>>
         /\ Head((a \o b) \o c) = Head(a)
         /\ Tail((a \o b) \o c) = (Tail(a) \o b) \o c
  <1>1. ASSUME NEW d \in Seq(E)
        PROVE  /\ a \o d # <<>> /\ Head(a \o d) = Head(a)
               /\ Tail(a \o d) = Tail(a) \o d
    <2> DEFINE q == a \o d
    <2>1. /\ q \in Seq(E) /\ Len(q) = Len(a) + Len(d)
          /\ \A i \in 1..(Len(a) + Len(d)) :
               q[i] = IF i <= Len(a) THEN a[i] ELSE d[i - Len(a)]
      BY <1>1, ConcatProperties
    <2>2. Len(a) \in Nat \ {0} /\ Len(d) \in Nat  BY <1>1, EmptySeq, LenProperties
    <2>3. q # <<>> /\ q[1] = a[1]
      <3> HIDE DEF q
      <3> QED  BY <2>1, <2>2
    <2>4. /\ Tail(q) \in Seq(E) /\ Len(Tail(q)) = Len(q) - 1
          /\ \A i \in 1..(Len(q) - 1) : Tail(q)[i] = q[i + 1]
      <3> HIDE DEF q
      <3> QED  BY <2>1, <2>3, HeadTailProperties
    <2>5. /\ Tail(a) \in Seq(E) /\ Len(Tail(a)) = Len(a) - 1
          /\ \A i \in 1..(Len(a) - 1) : Tail(a)[i] = a[i + 1]
      BY HeadTailProperties
    <2> DEFINE r == Tail(a) \o d
    <2>6. /\ r \in Seq(E) /\ Len(r) = (Len(a) - 1) + Len(d)
          /\ \A i \in 1..((Len(a) - 1) + Len(d)) :
               r[i] = IF i <= Len(a) - 1 THEN Tail(a)[i] ELSE d[i - (Len(a) - 1)]
      BY <1>1, <2>5, ConcatProperties
    <2> HIDE DEF q, r
    <2>7. Len(Tail(q)) = Len(r)  BY <2>1, <2>2, <2>4, <2>6
    <2>8. ASSUME NEW i \in 1..Len(r) PROVE Tail(q)[i] = r[i]
      <3>1. /\ i \in 1..(Len(q) - 1) /\ i \in 1..((Len(a) - 1) + Len(d))
            /\ i + 1 \in 1..(Len(a) + Len(d))
        BY <2>1, <2>2, <2>6
      <3>2. Tail(q)[i] = q[i + 1]  BY <2>4, <3>1
      <3>3. CASE i <= Len(a) - 1
        <4>1. i + 1 <= Len(a) /\ i \in 1..(Len(a) - 1)  BY <2>2, <3>3
        <4> QED  BY <2>1, <2>5, <2>6, <3>1, <3>2, <3>3, <4>1
      <3>4. CASE ~(i <= Len(a) - 1)
        <4>1. ~(i + 1 <= Len(a)) /\ (i + 1) - Len(a) = i - (Len(a) - 1)
          BY <2>2, <3>4
        <4> QED  BY <2>1, <2>6, <3>1, <3>2, <3>4, <4>1
      <3> QED  BY <3>3, <3>4
    <2>9. Tail(q) = r  BY <2>4, <2>6, <2>7, <2>8, SeqEqual
    <2>10. Head(q) = q[1] /\ Head(a) = a[1]  BY <2>1, <2>3
    <2> QED  BY <2>3, <2>9, <2>10 DEF q, r
  <1>2. b \o c \in Seq(E) /\ (a \o b) \o c = a \o (b \o c)
    BY ConcatProperties, ConcatAssociative
  <1>3. Tail(a) \in Seq(E) /\ (Tail(a) \o b) \o c = Tail(a) \o (b \o c)
    BY HeadTailProperties, ConcatAssociative
  <1> QED  BY <1>1, <1>2, <1>3

-----------------------------------------------------------------------------
(* Types.                                                                  *)

\* The unanswered pings are among those on their way.
LEMMA OnTheWayFacts ==
  ASSUME TypeOK
  PROVE  OnTheWay \in Nat /\ pings <= OnTheWay
  <1> DEFINE Q == {i \in DOMAIN outQ : outQ[i] = Pong}
             W == {i \in DOMAIN wire : wire[i][1] = Pong}
  <1>1. IsFiniteSet(DOMAIN outQ) /\ IsFiniteSet(DOMAIN wire)
    <2>1. /\ DOMAIN outQ = 1..Len(outQ) /\ Len(outQ) \in Nat
          /\ DOMAIN wire = 1..Len(wire) /\ Len(wire) \in Nat
      BY LenProperties DEF TypeOK
    <2> QED  BY <2>1, FS_Interval
  <1>2. IsFiniteSet(Q) /\ IsFiniteSet(W)  BY <1>1, FS_Subset
  <1>3. Cardinality(Q) \in Nat /\ Cardinality(W) \in Nat  BY <1>2, FS_CardinalityType
  <1>4. pings \in Nat  BY TickAssumption DEF TypeOK
  <1> HIDE DEF Q, W
  <1>5. OnTheWay = pings + Cardinality(Q) + Cardinality(W)
                     + (IF writing.m = Pong THEN 1 ELSE 0)
    BY DEF OnTheWay, Q, W
  <1> QED  BY <1>3, <1>4, <1>5

\* A connection starts with empty queues.
LEMMA TypeInit == Init => TypeOK
  <1> SUFFICES ASSUME Init PROVE TypeOK  OBVIOUS
  <1>1. 0 \in 0..DeadTicks /\ 0 \in 0..MaxPings /\ 0 \in 0..SendRoom
    BY TickAssumption, RoomAssumption
  <1>2. outQ \in Seq(Envelope) /\ wire \in Seq(Envelope \X Nat)  BY DEF Init
  <1> QED  BY <1>1, <1>2 DEF Init, TypeOK

\* What a write of the client, done or to be waited for, leaves in the socket.
LEMMA WriteFacts ==
  ASSUME TypeOK, NEW kind \in {"ping", "frame"}
  PROVE  /\ ~Full /\ Put(kind) => pings' \in 0..MaxPings /\ unread' \in 0..SendRoom
         /\ SendEnvelope(kind) => /\ pings' \in 0..MaxPings /\ unread' \in 0..SendRoom
                                  /\ write' \in {"none", "ping", "frame", "goodbye"}
  <1>1. ASSUME ~Full, Put(kind)
        PROVE  pings' \in 0..MaxPings /\ unread' \in 0..SendRoom
    <2>1. pings' \in 0..MaxPings
      BY <1>1, OnTheWayFacts, TickAssumption DEF Put, TypeOK
    <2>2. unread' \in 0..SendRoom  BY <1>1, RoomAssumption DEF Put, Full, TypeOK
    <2> QED  BY <2>1, <2>2
  <1> QED  BY <1>1 DEF SendEnvelope, TypeOK

\* A frame being written is that of a message.
LEMMA WriterFacts ==
  ASSUME TypeOK, writing # Idle
  PROVE  /\ writing.m \in Envelope /\ writing.done \in Nat
         /\ writing = [m |-> writing.m, done |-> writing.done]
  BY DEF TypeOK

\* Every step keeps the types: what is on the wire is a record of an envelope.
LEMMA TypeStep == TypeOK /\ [Next]_vars => TypeOK'
  <1> SUFFICES ASSUME TypeOK, [Next]_vars PROVE TypeOK'  OBVIOUS
  <1> USE DEF TypeOK
  <1>1. CASE UNCHANGED vars  BY <1>1 DEF vars, toClient
  <1>2. ASSUME NEW m \in Msg, Send(m) PROVE TypeOK'
    <2>1. Append(outQ, m) \in Seq(Envelope)  BY DEF Envelope
    <2> QED  BY <1>2, <2>1 DEF Send
  <1>3. CASE SendPong
    <2>1. Append(outQ, Pong) \in Seq(Envelope)  BY DEF Envelope
    <2>2. pings - 1 \in 0..MaxPings  BY <1>3, TickAssumption DEF SendPong
    <2> QED  BY <1>3, <2>1, <2>2 DEF SendPong
  <1>4. CASE WriterTakes
    <2>1. Head(outQ) \in Envelope /\ Tail(outQ) \in Seq(Envelope)
      BY <1>4, HeadTailProperties DEF WriterTakes
    <2> QED  BY <1>4, <2>1 DEF WriterTakes
  <1>5. CASE WriterWrites
    <2>1. writing.m \in Envelope /\ writing.done \in Nat
      BY <1>5, WriterFacts DEF WriterWrites
    <2>2. wire' \in Seq(Envelope \X Nat)
      <3>1. <<writing.m, writing.done + 1>> \in Envelope \X Nat  BY <2>1
      <3> QED  BY <1>5, <3>1, AppendProperties DEF WriterWrites
    <2>3. writing' \in {Idle} \cup [m : Envelope, done : Nat]
      BY <1>5, <2>1 DEF WriterWrites
    <2> QED  BY <1>5, <2>2, <2>3 DEF WriterWrites
  <1>6. CASE FallSilent  BY <1>6 DEF FallSilent, toClient
  <1>7. CASE Read
    <2>1. Head(wire) \in Envelope \X Nat /\ Tail(wire) \in Seq(Envelope \X Nat)
      BY <1>7, HeadTailProperties DEF Read
    <2>2. Head(wire)[1] \in Envelope /\ Head(wire)[2] \in Nat  BY <2>1
    <2>3. 0 \in 0..DeadTicks  BY TickAssumption
    <2>4. part' \in Nat /\ got' \in Envelope \cup {None} /\ quiet' \in 0..DeadTicks
      BY <1>7, <2>2, <2>3 DEF Read
    <2>5. /\ pings' \in 0..MaxPings /\ unread' \in 0..SendRoom
          /\ write' \in {"none", "ping", "frame", "goodbye"}
      BY <1>7, WriteFacts DEF Read
    <2> QED  BY <1>7, <2>1, <2>4, <2>5 DEF Read
  <1>8. CASE Close
    <2>1. 0 \in 0..MaxPings /\ 0 \in 0..SendRoom  BY TickAssumption, RoomAssumption
    <2>2. /\ outQ' = <<>> /\ wire' = <<>> /\ writing' = Idle /\ part' = 0 /\ pings' = 0
          /\ unread' = 0 /\ write' = "none"
          /\ ended' = TRUE /\ UNCHANGED <<sent, got, quiet, silent>>
      BY <1>8 DEF Close
    <2>3. outQ' \in Seq(Envelope) /\ wire' \in Seq(Envelope \X Nat)  BY <2>2
    <2> QED  BY <2>1, <2>2, <2>3
  <1>9. CASE Tick
    <2>1. quiet + 1 \in 0..DeadTicks  BY <1>9, TickAssumption DEF Tick
    <2> QED  BY <1>9, <2>1, WriteFacts DEF Tick, toClient
  <1>10. CASE OtherArm  BY <1>10, WriteFacts DEF OtherArm, toClient
  <1>11. CASE ServerReads
    <2>1. unread - 1 \in 0..SendRoom  BY <1>11, RoomAssumption DEF ServerReads
    <2> QED  BY <1>11, <2>1 DEF ServerReads, toClient
  <1>12. CASE CancelRun  BY <1>8, <1>12 DEF CancelRun, toClient
  <1>13. CASE WriteGoesOn
    <2>1. CASE write = "goodbye"  BY <1>8, <1>13, <2>1 DEF WriteGoesOn
    <2>2. CASE write # "goodbye"
      <3>1. write \in {"ping", "frame"}  BY <1>13, <2>2 DEF WriteGoesOn
      <3>2. pings' \in 0..MaxPings /\ unread' \in 0..SendRoom
        BY <1>13, <2>2, <3>1, WriteFacts DEF WriteGoesOn
      <3> QED  BY <1>13, <2>2, <3>2 DEF WriteGoesOn, toClient
    <2> QED  BY <2>1, <2>2
  <1>14. CASE TimeWhileWriting
    <2>1. quiet + 1 \in 0..DeadTicks  BY <1>14, TickAssumption DEF TimeWhileWriting
    <2> QED  BY <1>14, <2>1 DEF TimeWhileWriting, toClient
  <1>15. CASE ReadOutOfStep \/ TickDead \/ Leave
    BY <1>8, <1>15 DEF ReadOutOfStep, TickDead, Leave
  <1> QED
    BY <1>1, <1>2, <1>3, <1>4, <1>5, <1>6, <1>7, <1>9, <1>10, <1>11, <1>12, <1>13,
       <1>14, <1>15 DEF Next, ServerStep, ClientStep

-----------------------------------------------------------------------------
(* The refinement.                                                         *)

\* The three parts of the queue.
LEMMA PendingParts ==
  ASSUME TypeOK
  PROVE  /\ wire \in Seq(Record) /\ Complete(wire) \in Seq(Envelope)
         /\ InWriter \in Seq(Envelope) /\ outQ \in Seq(Envelope)
  <1>1. wire \in Seq(Record) /\ outQ \in Seq(Envelope)  BY DEF TypeOK, Record
  <1>2. InWriter \in Seq(Envelope)
    <2>1. CASE writing = Idle  BY <2>1 DEF InWriter
    <2>2. CASE writing # Idle
      <3>1. writing.m \in Envelope  BY <2>2, WriterFacts
      <3> QED  BY <2>2, <3>1 DEF InWriter
    <2> QED  BY <2>1, <2>2
  <1> QED  BY <1>1, <1>2, CompleteFacts

\* Nothing is pending on an empty connection.
LEMMA PendingEmpty ==
  ASSUME wire = <<>>, writing = Idle, outQ = <<>>
  PROVE  Pending = <<>>
  <1>1. <<>> \in Seq(Record)  OBVIOUS
  <1>2. Complete(<<>>) \in Seq(Envelope)
        /\ Len(Complete(<<>>)) = Cardinality(LastRecords(<<>>))
    BY <1>1, CompleteFacts
  <1>3. LastRecords(<<>>) = {}
    <2>1. LastRecords(<<>>) \in SUBSET (1..Len(<<>>))  BY <1>1, LastFacts
    <2> QED  BY <2>1
  <1>4. Len(Complete(<<>>)) = 0  BY <1>2, <1>3, FS_EmptySet
  <1>5. Complete(<<>>) = <<>>  BY <1>2, <1>4, EmptySeq
  <1>6. <<>> \in Seq(Envelope) /\ <<>> \o <<>> = <<>>  BY ConcatEmptySeq
  <1> QED  BY <1>5, <1>6 DEF Pending, InWriter

\* A new connection is an open channel with nothing in it.
LEMMA RefineInit == Init => Abstract!Init
  BY PendingEmpty DEF Init, Abstract!Init

\* Every step of the connection sends, delivers, breaks or changes nothing of
\* the channel.
LEMMA RefineStep == TypeOK /\ [Next]_vars => [Abstract!Next]_<<Pending, got, ~ended>>
  <1> SUFFICES ASSUME TypeOK, [Next]_vars
               PROVE  Abstract!Next \/ UNCHANGED <<Pending, got, ended>>
    OBVIOUS
  <1> DEFINE A == Complete(wire)
  <1>1. /\ wire \in Seq(Record) /\ A \in Seq(Envelope)
        /\ InWriter \in Seq(Envelope) /\ outQ \in Seq(Envelope)
    BY PendingParts
  <1>2. CASE UNCHANGED vars
    BY <1>2 DEF vars, toClient, Pending, InWriter, Complete, LastRecords
  <1>3. ASSUME NEW m \in Envelope, ~ended, outQ' = Append(outQ, m),
               UNCHANGED <<wire, writing, got, ended>>
        PROVE  Abstract!Next
    <2>1. Pending' = Append(Pending, m)
      <3>1. Pending' = (A \o InWriter) \o Append(outQ, m)
        BY <1>3 DEF Pending, InWriter, Complete, LastRecords
      <3> HIDE DEF A
      <3>2. (A \o InWriter) \o Append(outQ, m) = Append((A \o InWriter) \o outQ, m)
        BY <1>1, QueueAppend
      <3> QED  BY <3>1, <3>2 DEF Pending, A
    <2>2. Abstract!Send(m)  BY <1>3, <2>1 DEF Abstract!Send
    <2> QED  BY <2>2 DEF Abstract!Next
  <1>4. CASE SendPong \/ \E m \in Msg : Send(m)
    BY <1>3, <1>4 DEF SendPong, Send, Envelope
  <1>5. CASE WriterTakes
    <2>1. /\ outQ # <<>> /\ InWriter = <<>> /\ A' = A
          /\ outQ' = Tail(outQ) /\ writing' = [m |-> Head(outQ), done |-> 0]
          /\ UNCHANGED <<got, ended>>
      BY <1>5 DEF WriterTakes, InWriter, Complete, LastRecords
    <2>2. Head(outQ) \in Envelope  BY <1>1, <2>1, HeadTailProperties
    <2>3. InWriter' = <<Head(outQ)>>
      <3>1. Head(outQ) # None  BY <2>2, PartsAssumption DEF Envelope
      <3>2. writing' # Idle /\ writing'.m = Head(outQ)  BY <2>1, <3>1 DEF Idle
      <3> QED  BY <3>2 DEF InWriter
    <2>4. Pending' = Pending
      <3> HIDE DEF A
      <3>1. (A \o <<>>) \o outQ = (A \o <<Head(outQ)>>) \o Tail(outQ)
        BY <1>1, <2>1, QueueTake
      <3> QED  BY <2>1, <2>3, <3>1 DEF Pending, A
    <2> QED  BY <2>1, <2>4
  <1>6. CASE WriterWrites
    <2> DEFINE r == <<writing.m, writing.done + 1>>
    <2>1. /\ writing # Idle /\ wire' = Append(wire, r) /\ outQ' = outQ
          /\ writing' = IF writing.done + 1 = Parts[writing.m] THEN Idle
                        ELSE [writing EXCEPT !.done = @ + 1]
          /\ UNCHANGED <<got, ended>>
      BY <1>6 DEF WriterWrites
    <2>2. writing.m \in Envelope /\ writing.done \in Nat
      BY <2>1, WriterFacts
    <2>3. r \in Record /\ r[1] = writing.m /\ r[2] = writing.done + 1
      BY <2>2 DEF Record
    <2>4. A' = IF IsLast(r) THEN Append(A, writing.m) ELSE A
      <3> HIDE DEF r
      <3>1. Complete(Append(wire, r)) = IF IsLast(r) THEN Append(A, r[1]) ELSE A
        BY <1>1, <2>3, CompleteAppend
      <3>2. A' = Complete(wire')  BY DEF Complete, LastRecords
      <3> QED  BY <2>1, <2>3, <3>1, <3>2
    <2>5. InWriter = <<writing.m>>  BY <2>1 DEF InWriter
    <2>6. CASE IsLast(r)
      <3>1. InWriter' = <<>>  BY <2>1, <2>3, <2>6 DEF InWriter, IsLast
      <3>2. A' = Append(A, writing.m)  BY <2>4, <2>6
      <3> HIDE DEF A
      <3>3. (Append(A, writing.m) \o <<>>) \o outQ = (A \o <<writing.m>>) \o outQ
        BY <1>1, <2>2, QueueWritten
      <3>4. Pending' = Pending  BY <2>1, <2>5, <3>1, <3>2, <3>3 DEF Pending, A
      <3> QED  BY <2>1, <3>4
    <2>7. CASE ~IsLast(r)
      <3>1. writing' = [writing EXCEPT !.done = @ + 1]
        BY <2>1, <2>3, <2>7 DEF IsLast
      <3>2. writing'.m = writing.m
        BY <2>1, <3>1, WriterFacts
      <3>3. writing' # Idle
        BY <2>2, <3>2, PartsAssumption DEF Idle, Envelope
      <3>4. InWriter' = InWriter  BY <2>5, <3>2, <3>3 DEF InWriter
      <3>5. Pending' = Pending  BY <2>1, <2>4, <2>7, <3>4 DEF Pending
      <3> QED  BY <2>1, <3>5
    <2> QED  BY <2>6, <2>7
  <1>7. CASE Read
    <2>1. /\ ~ended /\ wire # <<>> /\ wire' = Tail(wire)
          /\ UNCHANGED <<writing, outQ, ended>>
          /\ \/ ~IsLast(wire[1]) /\ got' = got
             \/ IsLast(wire[1]) /\ got' = wire[1][1]
      <3>1. Head(wire) = wire[1]  BY <1>1, <1>7 DEF Read
      <3>2. wire[1] \in Record  BY <1>1, <1>7, <3>1, HeadTailProperties DEF Read
      <3>3. Parts[wire[1][1]] \in Nat /\ wire[1][2] \in Nat
        BY <3>2, PartsAssumption DEF Record, Envelope
      <3> QED  BY <1>7, <3>1, <3>3 DEF Read, IsLast, Polled
    <2>2. InWriter' = InWriter /\ A' = Complete(Tail(wire))
      BY <2>1 DEF InWriter, Complete, LastRecords
    <2>3. CASE ~IsLast(wire[1])
      <3>1. A' = A  BY <1>1, <2>1, <2>2, <2>3, CompleteTail
      <3> QED  BY <2>1, <2>2, <2>3, <3>1 DEF Pending
    <2>4. CASE IsLast(wire[1])
      <3>1. A # <<>> /\ Head(A) = wire[1][1] /\ A' = Tail(A)
        BY <1>1, <2>1, <2>2, <2>4, CompleteTail
      <3>2. /\ Pending # <<>> /\ Head(Pending) = Head(A)
            /\ Tail(Pending) = (Tail(A) \o InWriter) \o outQ
        <4>1. ASSUME NEW a \in Seq(Envelope), NEW b \in Seq(Envelope),
                     NEW c \in Seq(Envelope), a # <<>>
              PROVE  /\ (a \o b) \o c # <<>>
                     /\ Head((a \o b) \o c) = Head(a)
                     /\ Tail((a \o b) \o c) = (Tail(a) \o b) \o c
          BY <4>1, QueueHead
        <4>2. A # <<>>  BY <3>1
        <4> HIDE DEF A
        <4>3. /\ (A \o InWriter) \o outQ # <<>>
              /\ Head((A \o InWriter) \o outQ) = Head(A)
              /\ Tail((A \o InWriter) \o outQ) = (Tail(A) \o InWriter) \o outQ
          BY <1>1, <4>1, <4>2, Zenon
        <4> QED  BY <4>3 DEF Pending, A
      <3>3. Pending' = Tail(Pending)  BY <2>1, <2>2, <3>1, <3>2 DEF Pending
      <3>4. Abstract!Deliver
        BY <2>1, <2>4, <3>1, <3>2, <3>3 DEF Abstract!Deliver
      <3> QED  BY <3>4 DEF Abstract!Next
    <2> QED  BY <2>3, <2>4
  <1>8. CASE ~ended /\ Close
    <2>1. /\ ~ended /\ ended' = TRUE /\ got' = got
          /\ wire' = <<>> /\ writing' = Idle /\ outQ' = <<>>
      BY <1>8 DEF Close
    <2>2. Pending' = <<>>
      <3>1. (wire = <<>> /\ writing = Idle /\ outQ = <<>> => Pending = <<>>)'
        BY PendingEmpty, PTL
      <3> QED  BY <2>1, <3>1
    <2>3. Abstract!Break  BY <2>1, <2>2 DEF Abstract!Break
    <2> QED  BY <2>3 DEF Abstract!Next
  <1>9. CASE UNCHANGED <<wire, writing, outQ, got, ended>>
    BY <1>9 DEF Pending, InWriter, Complete, LastRecords
  <1>10. CASE \/ ServerReads \/ FallSilent \/ Tick \/ TickDead \/ OtherArm \/ CancelRun
              \/ TimeWhileWriting \/ Leave \/ ReadOutOfStep \/ WriteGoesOn
    <2>1. (~ended /\ Close) \/ UNCHANGED <<wire, writing, outQ, got, ended>>
      BY <1>10 DEF ServerReads, FallSilent, Tick, TickDead, OtherArm, CancelRun,
         TimeWhileWriting, Leave, ReadOutOfStep, WriteGoesOn, Polled, toClient
    <2> QED  BY <1>8, <1>9, <2>1
  <1> QED
    BY <1>2, <1>4, <1>5, <1>6, <1>7, <1>10 DEF Next, ServerStep, ClientStep

-----------------------------------------------------------------------------
\* Type correctness of the connection, the bound on pings included.
THEOREM TypeCorrect == Spec => []TypeOK
  BY TypeInit, TypeStep, PTL DEF Spec

\* What Forwarding and Clipboard take for granted of a connection: however
\* envelopes are cut into records, and whatever the client's select! drops,
\* the session acts on what was sent, in order and without a gap, until the
\* connection breaks.
THEOREM FramingIsAChannel == Spec => ImplementsChannel
  <1>1. Spec => [][Abstract!Next]_<<Pending, got, ~ended>>
    BY TypeCorrect, RefineStep, PTL DEF Spec
  <1>2. Spec => Abstract!Init  BY RefineInit DEF Spec
  <1> QED  BY <1>1, <1>2, PTL DEF ImplementsChannel, Abstract!Spec

-----------------------------------------------------------------------------
(* The client's session.                                                   *)

\* The places between a connector's load and its save.
Asking  == {"moving", "dial", "hello", "request", "accepted"}
Holding == Asking \cup {"save", "write"}

\* The connectors of one user take turns: one at a time works on a copy.
TakeTurns ==
    \A p \in Connector, q \in Connector : pc[p] \in Holding /\ pc[q] \in Holding => p = q

\* Every secret in use was generated.
SecretsAreIssued ==
    /\ known.secret \in issued \cup {Unset}
    /\ uiMem.secret \in issued \cup {Unset}
    /\ \A p \in Connector : mem[p].secret \in issued \cup {Unset}

\* client.toml is the config saved last, unless it is being written or broken.
FileIsKnown ==
    /\ file \in {known, Default, Broken}
    /\ file = Broken => known = Default
    /\ ui # "write" /\ (\A p \in Connector : pc[p] # "write") => file \in {known, Broken}

\* The secrets of the devices that the server has or had on record.
Accepted == paired \cup dropped

\* What is saved was accepted by the server.
SavedIsPaired ==
    /\ known.secret \in Accepted \cup {Unset}
    /\ known.pin # Unset => known.secret # Unset
    /\ uiMem.secret \in Accepted \cup {Unset}
    /\ uiMem.pin = Unset
    /\ \A p \in Connector :
         /\ pc[p] = "request" => mem[p].secret # Unset
         /\ pc[p] \in {"accepted", "save", "write"} => mem[p].secret \in Accepted

\* A copy that is not stale has the identity saved last ...
CopiesHaveSecret ==
    /\ ui \in {"save", "write"} /\ Ui \notin stale
         => uiMem.secret = known.secret /\ known.secret # Unset
    /\ \A p \in Connector \ stale :
         pc[p] \in Holding /\ known.secret # Unset => mem[p].secret = known.secret

\* ... and its pin, or that of the connection, which was compared with it.
CopiesHavePin ==
    \A p \in Connector \ stale : known.pin # Unset =>
        /\ pc[p] \in Asking => mem[p].pin = known.pin
        /\ pc[p] \in {"hello", "request", "accepted"} /\ demand[p] = Stored
             => seen[p] = known.pin
        /\ pc[p] \in {"save", "write"} /\ demand[p] = Stored => mem[p].pin = known.pin

\* What holds however many connectors are at work at once ...
StoreInv == ClientTypeOK /\ SecretsAreIssued /\ FileIsKnown /\ SavedIsPaired

\* ... and what only holds if they take turns.
Copies == CopiesHaveSecret /\ CopiesHavePin

IdInv == StoreInv /\ Copies

-----------------------------------------------------------------------------
\* The marks of an unset field and of a file that does not parse are no values.
LEMMA ConfigFacts ==
  /\ Default \in Config /\ Broken \notin Config /\ Broken # Default
  /\ Default.secret = Unset /\ Default.pin = Unset
  BY SetAssumption DEF Default, Broken, Config

\* Before the first start there is no file and no copy.
LEMMA IdInit == ClientInit => IdInv
  <1> SUFFICES ASSUME ClientInit PROVE IdInv  OBVIOUS
  <1> USE ConfigFacts DEF ClientInit
  <1>0. lockedOut \in BOOLEAN /\ serverUp \in BOOLEAN  BY Zenon
  <1>1. ClientTypeOK  BY <1>0, SetAssumption, BackoffAssumption DEF ClientTypeOK, Places
  <1>2. SecretsAreIssued /\ FileIsKnown  BY DEF SecretsAreIssued, FileIsKnown
  <1>3. SavedIsPaired  BY DEF SavedIsPaired, Accepted
  <1>4. Copies  BY DEF Copies, CopiesHaveSecret, CopiesHavePin, Holding, Asking
  <1> QED  BY <1>1, <1>2, <1>3, <1>4 DEF IdInv, StoreInv

-----------------------------------------------------------------------------
\* What every step does.
Keeps == StoreInv' /\ (TakeTurns /\ Copies => Copies')

\* A connector starts, is refused, gives up, waits, runs or stops: its copy, if
\* it had one, is not used any more.  Or it could not move a broken file away.
LEMMA QuietStep ==
  ASSUME StoreInv, UNCHANGED <<mem, forget, stale, file, known, Accepted, issued, seen>>,
         \A q \in Connector :
           /\ \/ pc'[q] = pc[q] \/ pc'[q] \notin Holding
              \/ pc[q] = "moving" /\ pc'[q] = "dial"
           /\ pc[q] = "write" => pc'[q] = "write"
           /\ pc[q] \in Holding => demand'[q] = demand[q]
  PROVE  ClientTypeOK' => Keeps
  <1> USE DEF StoreInv, forget, Holding, Asking
  <1>1. SecretsAreIssued' /\ FileIsKnown'  BY DEF SecretsAreIssued, FileIsKnown
  <1>2. SavedIsPaired'  BY DEF SavedIsPaired
  <1>3. Copies => Copies'  BY DEF Copies, CopiesHaveSecret, CopiesHavePin
  <1> QED  BY <1>1, <1>2, <1>3 DEF Keeps, StoreInv, Copies

\* A connector loads the file: the config saved last, if nobody is writing.
LEMMA LoadStep ==
  ASSUME StoreInv, NEW p \in Connector, Load(p) PROVE Keeps
  <1> USE ConfigFacts DEF StoreInv, ClientTypeOK
  <1>1. /\ mem' = [mem EXCEPT ![p] = Parsed] /\ pc[p] = "load"
        /\ pc' = [pc EXCEPT ![p] = IF file = Broken THEN "moving" ELSE "dial"]
        /\ stale' = IF BeingWritten(p) THEN stale \cup {p} ELSE stale \ {p}
        /\ UNCHANGED <<demand, seen, backoff, once, ui, uiMem, file, known, issued, cert,
                       paired, dropped, lockedOut, serverUp>>
    BY DEF Load, Goto, forget, server
  <1>2. Parsed \in {known, Default} /\ Parsed \in Config
    BY DEF Parsed, FileIsKnown
  <1>3. ~BeingWritten(p) => Parsed = known
    BY <1>1 DEF BeingWritten, Parsed, FileIsKnown
  <1>4. ClientTypeOK'  BY <1>1, <1>2 DEF Places
  <1>5. SecretsAreIssued'  BY <1>1, <1>2 DEF SecretsAreIssued
  <1>6. FileIsKnown'  BY <1>1 DEF FileIsKnown
  <1>7. SavedIsPaired'  BY <1>1 DEF SavedIsPaired, Accepted
  <1>8. Copies => Copies'
    BY <1>1, <1>3, SetAssumption DEF Copies, CopiesHaveSecret, CopiesHavePin, Holding, Asking
  <1> QED  BY <1>4, <1>5, <1>6, <1>7, <1>8 DEF Keeps, StoreInv, Copies

\* The certificate is compared with what is required of it.
LEMMA DialStep ==
  ASSUME StoreInv, NEW p \in Connector, Dial(p) PROVE Keeps
  <1> USE DEF StoreInv, ClientTypeOK
  <1>1. /\ seen' = [seen EXCEPT ![p] = cert] /\ pc' = [pc EXCEPT ![p] = "hello"]
        /\ Required(p) \in {Unset, cert} /\ pc[p] = "dial"
        /\ UNCHANGED <<mem, demand, backoff, once, ui, uiMem, stale, file, known, issued,
                       cert, paired, dropped, lockedOut, serverUp>>
    BY DEF Dial, Goto, rest, forget, server
  <1>2. ClientTypeOK'  BY <1>1 DEF Places
  <1>3. SecretsAreIssued' /\ FileIsKnown'  BY <1>1 DEF SecretsAreIssued, FileIsKnown
  <1>4. SavedIsPaired'  BY <1>1 DEF SavedIsPaired, Accepted
  <1>5. CopiesHaveSecret => CopiesHaveSecret'  BY <1>1 DEF CopiesHaveSecret, Holding, Asking
  <1>6. CopiesHavePin => CopiesHavePin'  BY <1>1 DEF CopiesHavePin, Required, Asking
  <1> QED  BY <1>2, <1>3, <1>4, <1>5, <1>6 DEF Keeps, StoreInv, Copies

\* A secret is generated only where there is none.
LEMMA HelloStep ==
  ASSUME StoreInv, NEW p \in Connector, HelloAcked(p) PROVE Keeps
  <1> USE DEF StoreInv, ClientTypeOK
  <1>1. /\ pc' = [pc EXCEPT ![p] = "request"] /\ pc[p] = "hello"
        /\ UNCHANGED <<demand, seen, backoff, once, ui, uiMem, stale, file, known, cert,
                       paired, dropped, lockedOut, serverUp>>
    BY DEF HelloAcked, Goto, rest, forget, server
  <1>2. \E s \in Secret :
           /\ mem' = [mem EXCEPT ![p].secret = s]
           /\ issued' = issued \cup {s}
           /\ mem[p].secret \in {Unset, s}
    <2>1. CASE mem[p].secret # Unset
      <3>1. mem[p].secret \in issued /\ issued \subseteq Secret
        BY <2>1 DEF SecretsAreIssued
      <3>2. mem = [mem EXCEPT ![p].secret = mem[p].secret]  BY DEF Config
      <3> QED  BY <2>1, <3>1, <3>2 DEF HelloAcked
    <2>2. CASE mem[p].secret = Unset  BY <2>2 DEF HelloAcked
    <2> QED  BY <2>1, <2>2
  <1>3. PICK s \in Secret : /\ mem' = [mem EXCEPT ![p].secret = s]
                            /\ issued' = issued \cup {s}
                            /\ mem[p].secret \in {Unset, s}
    BY <1>2
  <1>4. /\ mem'[p].secret = s /\ mem'[p].pin = mem[p].pin /\ mem'[p] \in Config
        /\ \A q \in Connector \ {p} : mem'[q] = mem[q]
    BY <1>3 DEF Config
  <1>5. ClientTypeOK'  BY <1>1, <1>3, <1>4 DEF Places
  <1>6. SecretsAreIssued' /\ FileIsKnown'
    BY <1>1, <1>3, <1>4 DEF SecretsAreIssued, FileIsKnown
  <1>7. SavedIsPaired'  BY <1>1, <1>4, SetAssumption DEF SavedIsPaired, Accepted
  <1>8. CopiesHaveSecret => CopiesHaveSecret'
    BY <1>1, <1>3, <1>4 DEF CopiesHaveSecret, Holding, Asking
  <1>9. CopiesHavePin => CopiesHavePin'  BY <1>1, <1>4 DEF CopiesHavePin, Asking
  <1> QED  BY <1>5, <1>6, <1>7, <1>8, <1>9 DEF Keeps, StoreInv, Copies

\* The server accepts a secret that was generated.
LEMMA AcceptStep ==
  ASSUME StoreInv, NEW p \in Connector, ServerAccepts(p) PROVE Keeps
  <1> USE DEF StoreInv, ClientTypeOK
  <1>1. /\ pc' = [pc EXCEPT ![p] = "accepted"] /\ pc[p] = "request"
        /\ paired' = paired \cup {mem[p].secret} /\ dropped' = dropped \ {mem[p].secret}
        /\ UNCHANGED <<mem, demand, seen, backoff, once, ui, uiMem, stale, file, known, cert,
                       lockedOut, issued, serverUp>>
    BY DEF ServerAccepts, Goto, rest, forget
  <1>2. mem[p].secret \in issued  BY <1>1 DEF SavedIsPaired, SecretsAreIssued
  <1>3. ClientTypeOK'  BY <1>1, <1>2 DEF Places
  <1>4. SecretsAreIssued' /\ FileIsKnown'  BY <1>1 DEF SecretsAreIssued, FileIsKnown
  <1>5. SavedIsPaired'
    <2>1. Accepted' = Accepted \cup {mem[p].secret}  BY <1>1 DEF Accepted
    <2> QED  BY <1>1, <2>1 DEF SavedIsPaired
  <1>6. Copies => Copies'
    BY <1>1 DEF Copies, CopiesHaveSecret, CopiesHavePin, Holding, Asking
  <1> QED  BY <1>3, <1>4, <1>5, <1>6 DEF Keeps, StoreInv, Copies

\* PairAccept: the connection's certificate becomes the copy's pin.
LEMMA RecvStep ==
  ASSUME StoreInv, NEW p \in Connector, RecvPairAccept(p) PROVE Keeps
  <1> USE DEF StoreInv, ClientTypeOK
  <1>1. /\ pc' = [pc EXCEPT ![p] = "save"] /\ pc[p] = "accepted"
        /\ mem' = [mem EXCEPT ![p].pin = seen[p]]
        /\ backoff' = [backoff EXCEPT ![p] = 1]
        /\ UNCHANGED <<demand, seen, once, ui, uiMem, stale, file, known, cert,
                       paired, dropped, lockedOut, issued, serverUp>>
    BY DEF RecvPairAccept, Goto, rest, forget, server
  <1>2. /\ mem'[p].secret = mem[p].secret /\ mem'[p].pin = seen[p] /\ mem'[p] \in Config
        /\ \A q \in Connector \ {p} : mem'[q] = mem[q]
    BY <1>1 DEF Config
  <1>3. ClientTypeOK'  BY <1>1, <1>2, BackoffAssumption DEF Places
  <1>4. SecretsAreIssued' /\ FileIsKnown'  BY <1>1, <1>2 DEF SecretsAreIssued, FileIsKnown
  <1>5. SavedIsPaired'  BY <1>1, <1>2 DEF SavedIsPaired, Accepted
  <1>6. CopiesHaveSecret => CopiesHaveSecret'
    BY <1>1, <1>2 DEF CopiesHaveSecret, Holding, Asking
  <1>7. CopiesHavePin => CopiesHavePin'  BY <1>1, <1>2 DEF CopiesHavePin, Asking
  <1> QED  BY <1>3, <1>4, <1>5, <1>6, <1>7 DEF Keeps, StoreInv, Copies

-----------------------------------------------------------------------------
(* Writing the file.                                                       *)

\* The file is empty from here on, and somebody is writing it.
LEMMA TruncateStep ==
  ASSUME StoreInv, (\E p \in Connector : SaveTruncate(p)) \/ ForgetTruncate
  PROVE  Keeps
  <1> USE ConfigFacts DEF StoreInv, ClientTypeOK
  <1>1. /\ UNCHANGED <<mem, demand, seen, backoff, once, uiMem, stale, known, cert, paired,
                       dropped, lockedOut, issued, serverUp>>
        /\ file' = Default
        /\ \/ /\ \E p \in Connector : pc[p] = "save" /\ pc' = [pc EXCEPT ![p] = "write"]
              /\ ui' = ui
           \/ ui = "save" /\ ui' = "write" /\ pc' = pc
    BY DEF SaveTruncate, ForgetTruncate, Goto, rest, forget, server
  <1>2. \A q \in Connector : pc'[q] = pc[q] \/ (pc[q] = "save" /\ pc'[q] = "write")
    BY <1>1
  <1>3. pc' \in [Connector -> Places] /\ ui' \in {ui, "write"}  BY <1>1 DEF Places
  <1>4. ui' = ui \/ (ui = "save" /\ ui' = "write")  BY <1>1
  <1>5. ui' = "write" \/ \E p \in Connector : pc'[p] = "write"  BY <1>1
  <1>6. ClientTypeOK'  BY <1>1, <1>3
  <1>7. SecretsAreIssued' /\ FileIsKnown'  BY <1>1, <1>5 DEF SecretsAreIssued, FileIsKnown
  <1>8. SavedIsPaired'  BY <1>1, <1>2 DEF SavedIsPaired, Accepted
  <1>9. Copies => Copies'
    BY <1>1, <1>2, <1>4 DEF Copies, CopiesHaveSecret, CopiesHavePin, Holding, Asking
  <1> QED  BY <1>6, <1>7, <1>8, <1>9 DEF Keeps, StoreInv, Copies

\* The copies that are not stale after a write: all of them were stale or the
\* writer was not, and wrote what it had.
LEMMA WriteOverFacts ==
  ASSUME StoreInv, NEW who, NEW conf \in Config, WriteOver(who, conf)
  PROVE  /\ file' \in {known', Broken} /\ (file' = Broken => known' = Default)
         /\ known' \in {conf, Default} /\ known' \in Config /\ file' \in Config \cup {Broken}
         /\ stale \subseteq stale' /\ stale' \subseteq stale \cup Holders
         /\ Holders \subseteq stale' \/ (who \notin stale /\ known' = conf /\ stale' = stale)
  BY ConfigFacts DEF WriteOver

\* A connector that is not stale writes: it is the only one with a copy, and
\* the UI's copy has the secret that it writes.
LEMMA SaveWriteStep ==
  ASSUME StoreInv, NEW p \in Connector, SaveWrite(p)
  PROVE  Keeps
  <1> USE ConfigFacts DEF StoreInv, ClientTypeOK
  <1>1. /\ pc[p] = "write" /\ pc' = [pc EXCEPT ![p] = "run"] /\ WriteOver(p, mem[p])
        /\ UNCHANGED <<mem, demand, seen, backoff, once, ui, uiMem, issued, cert, paired,
                       dropped, lockedOut, serverUp>>
    BY DEF SaveWrite, Goto, forget, server
  <1>2. mem[p] \in Config  OBVIOUS
  <1>3. /\ file' \in {known', Broken} /\ (file' = Broken => known' = Default)
        /\ known' \in {mem[p], Default} /\ known' \in Config /\ file' \in Config \cup {Broken}
        /\ stale \subseteq stale' /\ stale' \subseteq stale \cup Holders
        /\ Holders \subseteq stale' \/ (p \notin stale /\ known' = mem[p] /\ stale' = stale)
    BY <1>1, <1>2, WriteOverFacts
  <1>4. /\ \A q \in Connector : pc'[q] \in Holding => q \in Holders /\ pc[q] = pc'[q]
        /\ ui # "idle" => Ui \in Holders
        /\ Holders \subseteq Connector \cup {Ui}
    BY <1>1 DEF Holders, Holding, Asking
  <1>5. TakeTurns => \A q \in Connector : pc'[q] \notin Holding
    BY <1>1 DEF TakeTurns, Holding, Asking
  <1>6. mem[p].secret \in Accepted  BY <1>1 DEF SavedIsPaired
  <1>7. mem[p].secret # Unset  BY <1>6, SetAssumption DEF Accepted
  <1>8. ClientTypeOK'  BY <1>1, <1>3, <1>4 DEF Places
  <1>9. SecretsAreIssued' /\ FileIsKnown'  BY <1>1, <1>3 DEF SecretsAreIssued, FileIsKnown
  <1>10. SavedIsPaired'  BY <1>1, <1>3, <1>6, <1>7 DEF SavedIsPaired, Accepted
  <1>11. TakeTurns /\ CopiesHaveSecret => CopiesHaveSecret'
    BY <1>1, <1>3, <1>4, <1>5, <1>7 DEF CopiesHaveSecret, Holding, Asking
  <1>12. TakeTurns /\ CopiesHavePin => CopiesHavePin'
    BY <1>5 DEF CopiesHavePin, Holding, Asking
  <1> QED  BY <1>8, <1>9, <1>10, <1>11, <1>12 DEF Keeps, StoreInv, Copies

\* The UI writes the secret saved last, without its pin.
LEMMA ForgetWriteStep ==
  ASSUME StoreInv, ForgetWrite PROVE Keeps
  <1> USE ConfigFacts DEF StoreInv, ClientTypeOK
  <1>1. /\ ui = "write" /\ ui' = "idle" /\ uiMem' = Default /\ WriteOver(Ui, uiMem)
        /\ UNCHANGED <<pc, mem, demand, seen, backoff, once, issued, cert, paired,
                       dropped, lockedOut, serverUp>>
    BY DEF ForgetWrite, server
  <1>2. /\ file' \in {known', Broken} /\ (file' = Broken => known' = Default)
        /\ known' \in {uiMem, Default} /\ known' \in Config /\ file' \in Config \cup {Broken}
        /\ stale \subseteq stale' /\ stale' \subseteq stale \cup Holders
        /\ Holders \subseteq stale' \/ (Ui \notin stale /\ known' = uiMem /\ stale' = stale)
    BY <1>1, WriteOverFacts
  <1>3. /\ \A q \in Connector : pc[q] \in Holding => q \in Holders
        /\ Holders \subseteq Connector \cup {Ui}
    BY DEF Holders, Holding, Asking
  <1>4. known'.pin = Unset  BY <1>2 DEF SavedIsPaired
  <1>5. ClientTypeOK'  BY <1>1, <1>2, <1>3
  <1>6. SecretsAreIssued' /\ FileIsKnown'  BY <1>1, <1>2 DEF SecretsAreIssued, FileIsKnown
  <1>7. SavedIsPaired'  BY <1>1, <1>2, <1>4 DEF SavedIsPaired, Accepted
  <1>8. CopiesHaveSecret => CopiesHaveSecret'  BY <1>1, <1>2, <1>3 DEF CopiesHaveSecret
  <1>9. CopiesHavePin => CopiesHavePin'  BY <1>4 DEF CopiesHavePin
  <1> QED  BY <1>5, <1>6, <1>7, <1>8, <1>9 DEF Keeps, StoreInv, Copies

\* A torn write leaves nothing saved, and every copy stale.
LEMMA TornStep ==
  ASSUME StoreInv, TornWrite, UNCHANGED <<mem, demand, seen, backoff, once, issued, server>>,
         \/ /\ \E p \in Connector : 
               pc[p] = "write" /\ \E end \in {"off", "run"} : pc' = [pc EXCEPT ![p] = end]
            /\ UNCHANGED <<ui, uiMem>>
         \/ ui' = "idle" /\ uiMem' = Default /\ pc' = pc
  PROVE  Keeps
  <1> USE ConfigFacts DEF StoreInv, ClientTypeOK, server
  <1>1. /\ \A q \in Connector : pc'[q] = pc[q] \/ pc'[q] \in {"off", "run"}
        /\ pc' \in [Connector -> Places]
    BY DEF Places
  <1>2. ui' \in {ui, "idle"} /\ uiMem' \in {uiMem, Default} /\ uiMem' \in Config  OBVIOUS
  <1>3. file' \in {Default, Broken} /\ known' = Default /\ stale' = stale \cup Holders
    BY DEF TornWrite
  <1>4. /\ \A q \in Connector : pc[q] \in Holding => q \in Holders
        /\ ui # "idle" => Ui \in Holders
        /\ Holders \subseteq Connector \cup {Ui}
    BY DEF Holders, Holding, Asking
  <1>5. ClientTypeOK'  BY <1>1, <1>2, <1>3, <1>4
  <1>6. SecretsAreIssued' /\ FileIsKnown'  BY <1>2, <1>3 DEF SecretsAreIssued, FileIsKnown
  <1>7. SavedIsPaired'
    BY <1>1, <1>2, <1>3 DEF SavedIsPaired, Accepted
  <1>8. CopiesHaveSecret => CopiesHaveSecret'
    BY <1>1, <1>2, <1>3, <1>4 DEF CopiesHaveSecret, Holding, Asking
  <1>9. CopiesHavePin => CopiesHavePin'  BY <1>3 DEF CopiesHavePin
  <1> QED  BY <1>5, <1>6, <1>7, <1>8, <1>9 DEF Keeps, StoreInv, Copies

\* A rename leaves nothing saved, and every copy stale if there was something;
\* nobody writes the file any more.
LEMMA MoveStep ==
  ASSUME StoreInv, (\E p \in Connector : MoveAway(p)) \/ ForgetMoves
  PROVE  Keeps
  <1> USE ConfigFacts DEF StoreInv, ClientTypeOK
  <1>1. /\ UNCHANGED <<mem, demand, seen, backoff, once, uiMem, issued, cert, paired, dropped,
                       lockedOut, serverUp>>
        /\ file' = Default /\ known' = Default
        /\ stale' = IF known = Default THEN stale ELSE stale \cup Holders
    BY DEF MoveAway, ForgetMoves, FileMoved, server
  <1>2. /\ pc' \in [Connector -> Places]
        /\ \A q \in Connector : \/ pc'[q] = pc[q]
                                \/ pc'[q] = "astray"
                                \/ pc[q] = "moving" /\ pc'[q] = "dial"
    BY DEF MoveAway, ForgetMoves, Places
  <1>3. ui' \in {ui, "astray", "idle"}  BY DEF MoveAway, ForgetMoves
  <1>4. Holders \subseteq Connector \cup {Ui} /\ (ui # "idle" => Ui \in Holders)
    BY DEF Holders
  <1>5. ClientTypeOK'  BY <1>1, <1>2, <1>3, <1>4
  <1>6. SecretsAreIssued' /\ FileIsKnown'  BY <1>1 DEF SecretsAreIssued, FileIsKnown
  <1>7. SavedIsPaired'  BY <1>1, <1>2 DEF SavedIsPaired, Accepted
  <1>8. CopiesHaveSecret => CopiesHaveSecret'
    BY <1>1, <1>3, <1>4 DEF CopiesHaveSecret
  <1>9. CopiesHavePin => CopiesHavePin'  BY <1>1 DEF CopiesHavePin
  <1> QED  BY <1>5, <1>6, <1>7, <1>8, <1>9 DEF Keeps, StoreInv, Copies

\* forget_server finds a pin only in the config saved last.
LEMMA ForgetStep ==
  ASSUME StoreInv, ForgetServer PROVE Keeps
  <1> USE ConfigFacts DEF StoreInv, ClientTypeOK
  <1>1. /\ ui = "idle" /\ ui' \in {"moving", "save"}
        /\ UNCHANGED <<pc, mem, demand, seen, backoff, once, file, known, issued, cert,
                       paired, dropped, lockedOut, serverUp>>
    BY DEF ForgetServer, server
  <1>2. Parsed.pin # Unset => Parsed = known
    BY DEF Parsed, FileIsKnown
  <1>3. FileIsKnown'  BY <1>1 DEF FileIsKnown
  <1>4. CASE ui' = "moving"
    <2>1. UNCHANGED <<uiMem, stale>>  BY <1>4 DEF ForgetServer
    <2>2. ClientTypeOK'  BY <1>1, <2>1
    <2>3. SecretsAreIssued' /\ SavedIsPaired'
      BY <1>1, <2>1 DEF SecretsAreIssued, SavedIsPaired, Accepted
    <2>4. Copies => Copies'
      BY <1>1, <1>4, <2>1 DEF Copies, CopiesHaveSecret, CopiesHavePin
    <2> QED  BY <1>3, <2>2, <2>3, <2>4 DEF Keeps, StoreInv, Copies
  <1>5. CASE ui' = "save"
    <2>0. Parsed.pin # Unset  BY <1>5 DEF ForgetServer
    <2>1. /\ ui' = "save" /\ uiMem' = [known EXCEPT !.pin = Unset] /\ stale' = stale \ {Ui}
      BY <1>2, <1>5, <2>0 DEF ForgetServer
    <2>2. uiMem' \in Config /\ uiMem'.secret = known.secret /\ uiMem'.pin = Unset
      BY <2>1 DEF Config
    <2>3. known.secret # Unset  BY <1>2, <2>0 DEF SavedIsPaired
    <2>4. ClientTypeOK'  BY <1>1, <2>1, <2>2
    <2>5. SecretsAreIssued' /\ SavedIsPaired'
      BY <1>1, <2>1, <2>2 DEF SecretsAreIssued, SavedIsPaired, Accepted
    <2>6. Connector \ stale' = Connector \ stale  BY <2>1, SetAssumption
    <2>7. Copies => Copies'
      BY <1>1, <2>1, <2>2, <2>3, <2>6 DEF Copies, CopiesHaveSecret, CopiesHavePin
    <2> QED  BY <1>3, <2>4, <2>5, <2>7 DEF Keeps, StoreInv, Copies
  <1> QED  BY <1>1, <1>4, <1>5

-----------------------------------------------------------------------------
(* All steps.                                                              *)

\* Every step keeps the store, and the copies if connectors take turns.
LEMMA StoreStep == StoreInv /\ [ClientNext]_clientVars => Keeps
  <1> SUFFICES ASSUME StoreInv, [ClientNext]_clientVars PROVE Keeps  OBVIOUS
  <1> USE DEF rest, forget, server
  <1>1. ASSUME NEW p \in Connector, Start(p) PROVE Keeps
    <2>1. ClientTypeOK'
      BY <1>1, BackoffAssumption DEF Start, Goto, StoreInv, ClientTypeOK, Places
    <2>2. ClientTypeOK' => Keeps
      BY <1>1, QuietStep DEF Accepted, Start, Goto, Holding, Asking, StoreInv, ClientTypeOK
    <2> QED  BY <2>1, <2>2
  <1>2. ASSUME NEW p \in Connector, NEW place \in Places \ (Holding \cup {"load"}),
               pc[p] # "write", Goto(p, place),
               UNCHANGED <<mem, demand, seen, backoff, file, known, issued, server, rest>>
        PROVE  Keeps
    <2>1. ClientTypeOK'  BY <1>2 DEF Goto, StoreInv, ClientTypeOK
    <2>2. ClientTypeOK' => Keeps  BY <1>2, QuietStep DEF Accepted, Goto, StoreInv, ClientTypeOK
    <2> QED  BY <2>1, <2>2
  <1>3. ASSUME NEW p \in Connector,
               \/ DialMismatch(p) \/ HelloRefused(p) \/ ServerRejects(p) \/ ConnectFails(p)
               \/ HandshakeStalls(p) \/ StallEnds(p) \/ SaveFails(p) \/ SaveAstray(p) \/ RunEnds(p)
               \/ Cancel(p) \/ Crash(p)
        PROVE  Keeps
    <2>1. /\ \E place \in Places \ (Holding \cup {"load"}) : Goto(p, place)
          /\ pc[p] # "write"
          /\ UNCHANGED <<mem, demand, seen, backoff, file, known, issued, server, rest>>
      BY <1>3
      DEF DialMismatch, HelloRefused, ServerRejects, ConnectFails, HandshakeStalls,
          StallEnds, SaveFails, SaveAstray, RunEnds, Cancel, Crash, Again, Places, Holding, Asking
    <2> QED  BY <1>2, <2>1
  <1>4. ASSUME NEW p \in Connector, WaitOver(p) PROVE Keeps
    <2>1. ClientTypeOK'
      BY <1>4, BackoffAssumption DEF WaitOver, Goto, StoreInv, ClientTypeOK, Places
    <2>2. ClientTypeOK' => Keeps
      BY <1>4, QuietStep DEF Accepted, WaitOver, Goto, Holding, Asking, StoreInv, ClientTypeOK
    <2> QED  BY <2>1, <2>2
  <1>5. ASSUME NEW p \in Connector, CrashWriting(p) \/ WriteFails(p) PROVE Keeps
    BY <1>5, TornStep DEF CrashWriting, WriteFails, Goto
  <1>6. CASE ForgetFails
    <2>1. CASE ui = "write"  BY <1>6, <2>1, TornStep DEF ForgetFails
    <2>2. CASE ui # "write"
      <3>1. /\ ui' = "idle" /\ uiMem' = Default
            /\ UNCHANGED <<pc, mem, demand, seen, backoff, once, file, known, stale, issued,
                           cert, paired, dropped, lockedOut, serverUp>>
        BY <1>6, <2>2 DEF ForgetFails
      <3> QED
        BY <3>1, <2>2, ConfigFacts
        DEF Keeps, StoreInv, Copies, ClientTypeOK, SecretsAreIssued, FileIsKnown,
            SavedIsPaired, Accepted, CopiesHaveSecret, CopiesHavePin
    <2> QED  BY <2>1, <2>2
  <1>7. CASE ServerDown
    <2>1. ClientTypeOK'  BY <1>7 DEF ServerDown, StoreInv, ClientTypeOK, Places
    <2>2. ClientTypeOK' => Keeps
      BY <1>7, QuietStep DEF Accepted, ServerDown, Holding, Asking, StoreInv, ClientTypeOK
    <2> QED  BY <2>1, <2>2
  <1>8. CASE ServerReturns
    <2>1. ClientTypeOK'  BY <1>8 DEF ServerReturns, StoreInv, ClientTypeOK
    <2>2. Accepted' = Accepted  BY <1>8 DEF ServerReturns, Accepted
    <2>3. ClientTypeOK' => Keeps  BY <1>8, <2>2, QuietStep DEF ServerReturns
    <2> QED  BY <2>1, <2>3
  <1>9. CASE AddressLocked \/ LockoutEnds
    <2>1. ClientTypeOK'  BY <1>9 DEF AddressLocked, LockoutEnds, StoreInv, ClientTypeOK
    <2>2. ClientTypeOK' => Keeps  BY <1>9, QuietStep DEF Accepted, AddressLocked, LockoutEnds
    <2> QED  BY <2>1, <2>2
  <1>10. ASSUME NEW p \in Connector, MoveFails(p) PROVE Keeps
    <2>1. ClientTypeOK'  BY <1>10 DEF MoveFails, Goto, StoreInv, ClientTypeOK, Places
    <2>2. ClientTypeOK' => Keeps
      BY <1>10, QuietStep DEF Accepted, MoveFails, Goto, StoreInv, ClientTypeOK
    <2> QED  BY <2>1, <2>2
  <1>11. CASE UNCHANGED clientVars
    <2>1. ClientTypeOK'  BY <1>11 DEF clientVars, StoreInv, ClientTypeOK
    <2>2. ClientTypeOK' => Keeps  BY <1>11, QuietStep DEF Accepted, clientVars
    <2> QED  BY <2>1, <2>2
  <1> QED
    BY <1>1, <1>3, <1>4, <1>5, <1>6, <1>7, <1>8, <1>9, <1>10, <1>11, LoadStep, MoveStep,
       DialStep, HelloStep, AcceptStep, RecvStep, TruncateStep, SaveWriteStep,
       ForgetWriteStep, ForgetStep
    DEF ClientNext, Steps

-----------------------------------------------------------------------------
\* What holds of the store however many connectors there are.
LEMMA StoreInvariance == ClientSpec => []StoreInv
  <1>1. ClientInit => StoreInv  BY IdInit DEF IdInv
  <1>2. StoreInv /\ [ClientNext]_clientVars => StoreInv'  BY StoreStep DEF Keeps
  <1> QED  BY <1>1, <1>2, PTL DEF ClientSpec

\* What holds of the copies as long as connectors take turns.
LEMMA IdInvariance == ClientSpec /\ []TakeTurns => []IdInv
  <1>1. IdInv /\ TakeTurns /\ [ClientNext]_clientVars => IdInv'
    BY StoreStep DEF Keeps, IdInv
  <1> QED  BY <1>1, IdInit, PTL DEF ClientSpec

\* The session's state keeps its types, and the server is paired only with
\* secrets that were generated, however many connectors run at once.
THEOREM ClientTypeCorrect == ClientSpec => []ClientTypeOK
  <1>1. StoreInv => ClientTypeOK  BY DEF StoreInv
  <1> QED  BY <1>1, StoreInvariance, PTL

\* The secret in the config saved last is one the server has accepted, though
\* it may have lost the device since, through failed saves, torn writes,
\* crashes and restarts of any number of connectors at once.
THEOREM SavedSecretIsPaired ==
  ClientSpec => [](known.secret \in paired \cup dropped \cup {Unset})
  <1>1. StoreInv => known.secret \in paired \cup dropped \cup {Unset}
    BY DEF StoreInv, SavedIsPaired, Accepted
  <1> QED  BY <1>1, StoreInvariance, PTL

\* Connectors that take turns never replace a saved secret, however often they
\* fail, crash and start again, and whatever forget_server does beside them,
\* unless a write was cut short, a copy was written that had been read in the
\* middle of one, or a broken file was moved away too late.
THEOREM IdentityHolds == ClientSpec /\ []TakeTurns => IdentityKept
  <1> DEFINE Kept == known.secret # Unset /\ known'.secret # known.secret
                       => \/ ui \in {"write", "moving"} /\ Ui \in stale'
                          \/ \E p \in Connector \cap stale' : pc[p] \in {"write", "moving"}
  <1>1. ASSUME IdInv, [ClientNext]_clientVars, known.secret # Unset,
               known'.secret # known.secret
        PROVE  \/ ui \in {"write", "moving"} /\ Ui \in stale'
               \/ \E p \in Connector \cap stale' : pc[p] \in {"write", "moving"}
    <2> USE ConfigFacts DEF IdInv, StoreInv, Copies, ClientTypeOK
    <2>1. ASSUME NEW p \in Connector, SaveWrite(p) \/ CrashWriting(p) \/ WriteFails(p)
          PROVE  p \in stale' /\ pc[p] = "write"
      <3>1. pc[p] = "write" /\ p \in Holders
        BY <2>1 DEF SaveWrite, CrashWriting, WriteFails, Holders
      <3>2. CASE CrashWriting(p) \/ WriteFails(p)
        BY <3>1, <3>2 DEF CrashWriting, WriteFails, TornWrite
      <3>3. CASE SaveWrite(p)
        <4>1. p \notin stale => mem[p].secret = known.secret
          BY <1>1, <3>1 DEF CopiesHaveSecret, Holding
        <4>2. \/ Holders \subseteq stale'
              \/ p \notin stale /\ known' = mem[p] /\ stale' = stale
          BY <1>1, <3>3, WriteOverFacts DEF SaveWrite
        <4> QED  BY <1>1, <3>1, <4>1, <4>2
      <3> QED  BY <2>1, <3>1, <3>2, <3>3
    <2>2. ASSUME ForgetWrite \/ ForgetFails PROVE ui = "write" /\ Ui \in stale'
      <3>1. ui = "write"  BY <1>1, <2>2 DEF ForgetWrite, ForgetFails
      <3>2. Ui \in Holders  BY <3>1 DEF Holders
      <3>3. CASE ForgetFails  BY <3>1, <3>2, <3>3 DEF ForgetFails, TornWrite
      <3>4. CASE ForgetWrite
        <4>1. Ui \notin stale => uiMem.secret = known.secret
          BY <1>1, <3>1 DEF CopiesHaveSecret
        <4>2. \/ Holders \subseteq stale'
              \/ Ui \notin stale /\ known' = uiMem /\ stale' = stale
          BY <1>1, <3>4, WriteOverFacts DEF ForgetWrite
        <4> QED  BY <1>1, <3>1, <3>2, <4>1, <4>2
      <3> QED  BY <2>2, <3>3, <3>4
    <2>3. ASSUME NEW p \in Connector, MoveAway(p) PROVE p \in stale' /\ pc[p] = "moving"
      BY <1>1, <2>3 DEF MoveAway, FileMoved, Holders
    <2>4. ASSUME ForgetMoves PROVE Ui \in stale' /\ ui = "moving"
      BY <1>1, <2>4 DEF ForgetMoves, FileMoved, Holders
    <2>5. \/ \E p \in Connector : \/ SaveWrite(p) \/ CrashWriting(p) \/ WriteFails(p)
                                  \/ MoveAway(p)
          \/ ForgetWrite \/ ForgetFails \/ ForgetMoves
      BY <1>1
      DEF ClientNext, Steps, clientVars, Start, Load, Dial, DialMismatch, HelloRefused,
          HelloAcked, ServerAccepts, ServerRejects, RecvPairAccept, ConnectFails,
          SaveTruncate, SaveFails, WaitOver, RunEnds, Cancel, Crash, HandshakeStalls,
          StallEnds, ForgetServer, ForgetTruncate, ServerDown, ServerReturns, MoveFails,
          SaveAstray, AddressLocked, LockoutEnds
    <2> QED  BY <2>1, <2>2, <2>3, <2>4, <2>5
  <1>2. IdInv /\ [ClientNext]_clientVars => [Kept]_clientVars  BY <1>1
  <1>3. ClientSpec /\ []TakeTurns => [][Kept]_clientVars
    BY <1>2, IdInvariance, PTL DEF ClientSpec
  <1> QED  BY <1>3 DEF IdentityKept

\* Nor do they replace a pin by another one, unless their users asked for it.
THEOREM PinHolds == ClientSpec /\ []TakeTurns => PinKept
  <1> DEFINE Kept == known.pin # Unset /\ known'.pin \notin {Unset, known.pin}
                       => \E p \in Connector :
                             pc[p] = "write" /\ (demand[p] # Stored \/ p \in stale)
  <1>1. ASSUME IdInv, [ClientNext]_clientVars, known.pin # Unset,
               known'.pin \notin {Unset, known.pin}
        PROVE  \E p \in Connector : pc[p] = "write" /\ (demand[p] # Stored \/ p \in stale)
    <2> USE ConfigFacts DEF IdInv, StoreInv, Copies, ClientTypeOK
    <2>1. ~ForgetWrite
      BY <1>1, WriteOverFacts DEF ForgetWrite, SavedIsPaired
    <2>2. PICK p \in Connector : SaveWrite(p)
      BY <1>1, <2>1
      DEF ClientNext, Steps, clientVars, Start, Load, Dial, DialMismatch, HelloRefused,
          HelloAcked, ServerAccepts, ServerRejects, RecvPairAccept, ConnectFails,
          SaveTruncate, SaveFails, WaitOver, RunEnds, Cancel, Crash, CrashWriting,
          HandshakeStalls, StallEnds, ForgetServer, ForgetTruncate, ForgetFails, TornWrite,
          ServerDown, ServerReturns, MoveAway, ForgetMoves, FileMoved, MoveFails,
          WriteFails, SaveAstray, AddressLocked, LockoutEnds
    <2>3. pc[p] = "write" /\ known'.pin = mem[p].pin
      BY <1>1, <2>2, WriteOverFacts DEF SaveWrite
    <2> QED  BY <1>1, <2>3 DEF CopiesHavePin
  <1>2. IdInv /\ [ClientNext]_clientVars => [Kept]_clientVars  BY <1>1
  <1>3. ClientSpec /\ []TakeTurns => [][Kept]_clientVars
    BY <1>2, IdInvariance, PTL DEF ClientSpec
  <1> QED  BY <1>3 DEF PinKept

\* And the server rejects one that read the file while it was whole and had a
\* secret only if it has lost the device since, or locked the address out.
THEOREM PinIsAskedOnce == ClientSpec /\ []TakeTurns => NeverAskedAgain
  <1> DEFINE Kept == \A p \in Connector \ stale :
                       pc[p] = "request" /\ pc'[p] = "rejected"
                         => lockedOut \/ known.secret \in dropped \cup {Unset}
  <1>1. ASSUME IdInv, [ClientNext]_clientVars, NEW p \in Connector \ stale,
               pc[p] = "request", pc'[p] = "rejected"
        PROVE  lockedOut \/ known.secret \in dropped \cup {Unset}
    <2> USE DEF IdInv, StoreInv, Copies, ClientTypeOK
    <2>1. ServerRejects(p)
      BY <1>1
      DEF ClientNext, Steps, clientVars, Goto, Again, Start, Load, Dial, DialMismatch,
          HelloRefused, HelloAcked, ServerAccepts, ServerRejects, RecvPairAccept,
          ConnectFails, SaveTruncate, SaveWrite, SaveFails, WaitOver, RunEnds, Cancel,
          Crash, CrashWriting, HandshakeStalls, StallEnds, ForgetServer, ForgetTruncate,
          ForgetWrite, ForgetFails, ServerDown, ServerReturns, MoveAway, ForgetMoves,
          MoveFails, WriteFails, SaveAstray, AddressLocked, LockoutEnds
    <2>2. lockedOut \/ mem[p].secret \notin paired  BY <2>1 DEF ServerRejects
    <2> QED  BY <1>1, <2>2 DEF CopiesHaveSecret, SavedIsPaired, Accepted, Holding, Asking
  <1>2. IdInv /\ [ClientNext]_clientVars => [Kept]_clientVars  BY <1>1
  <1>3. ClientSpec /\ []TakeTurns => [][Kept]_clientVars
    BY <1>2, IdInvariance, PTL DEF ClientSpec
  <1> QED  BY <1>3 DEF NeverAskedAgain

\* One connector takes turns with itself: these hold of a machine with one
\* client program and the UI, for any secrets, certificates and demands.
THEOREM LoneConnectorIsSafe ==
  ASSUME \A p \in Connector, q \in Connector : p = q
  PROVE  ClientSpec => IdentityKept /\ PinKept /\ NeverAskedAgain
  <1>1. TakeTurns  BY DEF TakeTurns
  <1>2. ClientSpec => []TakeTurns  BY <1>1, PTL
  <1> QED  BY <1>2, IdentityHolds, PinHolds, PinIsAskedOnce, PTL
=============================================================================
