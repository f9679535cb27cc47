--------------------------- MODULE RunBufferProofs ---------------------------
(***************************************************************************)
(* What holds of a run's buffer for every number of callers, every size of *)
(* its lists and pages, any mishaps and any number of calls: the proofs of *)
(* the properties of RunBuffer.                                            *)
(***************************************************************************)
EXTENDS RunBuffer, FiniteSetTheorems, SequenceTheorems, TLAPS

(* What the lists are made of, and what a read makes of them.              *)
Records == [id : Nat, n : Nat, of : Nat]
Starts(s, t) == Len(s) <= Len(t) /\ \A i \in 1 .. Len(s) : s[i] = t[i]
Numbers(records, id) == {records[j].n : j \in {k \in DOMAIN records : records[k].id = id}}
Done(records) == {records[i].id : i \in Ends(records)}
Agree(records) ==
  \A i, j \in DOMAIN records : records[i].id = records[j].id => records[i].of = records[j].of
Repeats(s, t, h) == Starts(s, t) /\ \A i \in Len(s) + 1 .. Len(t) : t[i] = h

(* A prefix, record by record.                                             *)
LEMMA PrefixIs ==
  ASSUME NEW S, NEW s \in Seq(S), NEW t \in Seq(S)
  PROVE  IsPrefix(s, t) <=> Starts(s, t)
<1>1. Len(s) \in Nat /\ Len(t) \in Nat
  OBVIOUS
<1>2. ASSUME Len(s) <= Len(t), SubSeq(s, 1, Len(s)) = SubSeq(t, 1, Len(s)), NEW i \in 1 .. Len(s)
      PROVE  s[i] = t[i]
  <2>1. SubSeq(s, 1, Len(s))[i] = s[i]
    BY <1>1
  <2>2. SubSeq(t, 1, Len(s))[i] = t[i]
    BY <1>1, <1>2
  <2> QED BY <1>2, <2>1, <2>2
<1>3. ASSUME Len(s) <= Len(t), \A i \in 1 .. Len(s) : s[i] = t[i]
      PROVE  SubSeq(s, 1, Len(s)) = SubSeq(t, 1, Len(s))
  <2>1. SubSeq(s, 1, Len(s)) = [i \in 1 .. Len(s) |-> s[i]]
    BY <1>1
  <2>2. SubSeq(t, 1, Len(s)) = [i \in 1 .. Len(s) |-> t[i]]
    BY <1>1, <1>3
  <2> QED BY <1>3, <2>1, <2>2
<1> QED BY <1>2, <1>3 DEF IsPrefix, Starts

(* The beginning of a beginning is one.                                    *)
LEMMA StartsTransitive ==
  ASSUME NEW S, NEW s \in Seq(S), NEW t \in Seq(S), NEW u \in Seq(S), Starts(s, t), Starts(t, u)
  PROVE  Starts(s, u)
  BY DEF Starts

(* A list begins with itself, and with nothing.                            *)
LEMMA StartsSelf == ASSUME NEW S, NEW s \in Seq(S) PROVE Starts(s, s) /\ Starts(<<>>, s)
  BY DEF Starts

(* A beginning as long as the list is the list.                            *)
LEMMA StartsSame ==
  ASSUME NEW S, NEW s \in Seq(S), NEW t \in Seq(S), Starts(s, t), Len(t) <= Len(s)
  PROVE  s = t
<1>1. Len(s) = Len(t) /\ \A i \in 1 .. Len(s) : s[i] = t[i]
  BY DEF Starts
<1> QED BY <1>1, SeqEqual

\* The places of a finite set are ranked from one up, with no rank left out.
LEMMA Enumeration ==
  ASSUME NEW S, S \subseteq Nat, IsFiniteSet(S), NEW i \in 1 .. Cardinality(S)
  PROVE  \E k \in S : Cardinality({j \in S : j <= k}) = i
<1> DEFINE upTo(k) == {j \in S : j <= k}
           T == 1 .. Cardinality(S)
           f == [k \in S |-> Cardinality(upTo(k))]
<1>1. Cardinality(S) \in Nat
  BY FS_CardinalityType
<1>2. ASSUME NEW k \in S
      PROVE  upTo(k) \in SUBSET S /\ IsFiniteSet(upTo(k)) /\ Cardinality(upTo(k)) \in T
  <2>0. k \in Nat
    OBVIOUS
  <2>1. upTo(k) \in SUBSET S /\ k \in upTo(k)
    BY <2>0
  <2>2. IsFiniteSet(upTo(k)) /\ Cardinality(upTo(k)) <= Cardinality(S)
    BY <2>1, FS_Subset
  <2>3. Cardinality(upTo(k)) \in Nat /\ Cardinality(upTo(k)) # 0
    BY <2>2, FS_CardinalityType, FS_EmptySet
  <2> HIDE DEF upTo
  <2> QED BY <1>1, <2>1, <2>2, <2>3
<1>3. ASSUME NEW a \in S, NEW b \in S, a < b PROVE Cardinality(upTo(a)) # Cardinality(upTo(b))
  <2>1. a \in Nat /\ b \in Nat /\ \A j \in S : j \in Nat
    OBVIOUS
  <2>2. upTo(a) \in SUBSET upTo(b) /\ b \in upTo(b) /\ b \notin upTo(a)
    <3>1. ASSUME NEW j \in upTo(a) PROVE j \in upTo(b)
      <4>1. j \in S /\ j <= a /\ j \in Nat
        BY <2>1
      <4>2. j <= b
        BY <1>3
      <4> QED BY <4>1, <4>2
    <3>2. b <= b /\ ~(b <= a)
      BY <1>3, <2>1
    <3> QED BY <3>1, <3>2
  <2>3. upTo(a) # upTo(b)
    BY <2>2
  <2> HIDE DEF upTo
  <2> QED BY <1>2, <2>2, <2>3, FS_Subset
<1> HIDE DEF upTo, T
<1>4. f \in [S -> T]
  BY <1>2
<1>5. \A a, b \in S : f[a] = f[b] => a = b
  <2> SUFFICES ASSUME NEW a \in S, NEW b \in S, a # b PROVE f[a] # f[b]
    OBVIOUS
  <2>1. a \in Nat /\ b \in Nat
    OBVIOUS
  <2>2. a < b \/ b < a
    BY <2>1
  <2> QED BY <1>3, <2>2
<1>6. IsFiniteSet(T) /\ Cardinality(T) = Cardinality(S)
  BY <1>1, FS_Interval DEF T
<1>7. f \in Injection(S, T)
  BY <1>4, <1>5 DEF Injection, IsInjective
<1> HIDE DEF f
<1>8. f \in Surjection(S, T)
  BY <1>6, <1>7, FS_Injection
<1>9. i \in T
  BY DEF T
<1>10. PICK k \in S : f[k] = i
  BY <1>8, <1>9 DEF Surjection
<1>11. f[k] = Cardinality({j \in S : j <= k})
  BY DEF f, upTo
<1> QED BY <1>10, <1>11

(* A later place has a higher rank.                                        *)
LEMMA RankDiffers ==
  ASSUME NEW S, S \subseteq Nat, IsFiniteSet(S), NEW a \in S, NEW b \in S, a < b
  PROVE  Cardinality({j \in S : j <= a}) < Cardinality({j \in S : j <= b})
<1> DEFINE A == {j \in S : j <= a}
           B == {j \in S : j <= b}
<1>1. a \in Nat /\ b \in Nat /\ \A j \in S : j \in Nat
  OBVIOUS
<1>2. IsFiniteSet(B)
  <2>1. B \in SUBSET S
    OBVIOUS
  <2> QED BY <2>1, FS_Subset
<1>3. A \in SUBSET B /\ b \in B /\ b \notin A
  <2>1. ASSUME NEW j \in A PROVE j \in B
    <3>1. j \in S /\ j <= a /\ j \in Nat
      BY <1>1
    <3>2. j <= b
      BY <1>1, <3>1
    <3> QED BY <3>1, <3>2
  <2>2. b <= b /\ ~(b <= a)
    BY <1>1
  <2> QED BY <2>1, <2>2
<1>4. IsFiniteSet(A) /\ Cardinality(A) <= Cardinality(B)
        /\ (Cardinality(B) = Cardinality(A) => B = A)
  BY <1>2, <1>3, FS_Subset
<1>5. Cardinality(A) \in Nat /\ Cardinality(B) \in Nat
  BY <1>2, <1>4, FS_CardinalityType
<1>6. Cardinality(A) # Cardinality(B)
  BY <1>3, <1>4
<1> QED BY <1>4, <1>5, <1>6

\* The place of a list that k places of a set reach up to.
Nth(S, k) == CHOOSE i \in S : Cardinality({j \in S : j <= i}) = k

(* The place of a rank has that rank.                                      *)
LEMMA NthIs ==
  ASSUME NEW S, S \subseteq Nat, IsFiniteSet(S), NEW k \in 1 .. Cardinality(S)
  PROVE  Nth(S, k) \in S /\ Cardinality({j \in S : j <= Nth(S, k)}) = k
<1> DEFINE rank(i) == Cardinality({j \in S : j <= i})
<1>1. \E i \in S : rank(i) = k
  BY Enumeration
<1>2. Nth(S, k) = CHOOSE i \in S : rank(i) = k
  BY DEF Nth
<1> HIDE DEF rank
<1>3. Nth(S, k) \in S /\ rank(Nth(S, k)) = k
  BY <1>1, <1>2
<1> QED BY <1>3 DEF rank

(* A place is the one of its own rank.                                     *)
LEMMA RankIs ==
  ASSUME NEW S, S \subseteq Nat, IsFiniteSet(S), NEW i \in S
  PROVE  /\ Cardinality({j \in S : j <= i}) \in 1 .. Cardinality(S)
         /\ Nth(S, Cardinality({j \in S : j <= i})) = i
<1> DEFINE U(a) == {j \in S : j <= a}
<1>1. U(i) \in SUBSET S /\ i \in U(i) /\ \A j \in S : j \in Nat
  OBVIOUS
<1> HIDE DEF U
<1>2. IsFiniteSet(U(i)) /\ Cardinality(U(i)) <= Cardinality(S)
  BY <1>1, FS_Subset
<1>3. Cardinality(U(i)) \in Nat /\ Cardinality(S) \in Nat /\ Cardinality(U(i)) # 0
  BY <1>1, <1>2, FS_CardinalityType, FS_EmptySet
<1>4. Cardinality(U(i)) \in 1 .. Cardinality(S)
  BY <1>2, <1>3
<1>5. PICK x : x = Nth(S, Cardinality(U(i)))
  OBVIOUS
<1>6. x \in S /\ Cardinality(U(x)) = Cardinality(U(i))
  BY <1>4, <1>5, NthIs DEF U
<1>7. x \in Nat /\ i \in Nat
  BY <1>1, <1>6
<1>8. ~(x < i)
  <2> SUFFICES ASSUME x < i PROVE FALSE
    OBVIOUS
  <2>1. Cardinality(U(x)) < Cardinality(U(i))
    BY <1>6, RankDiffers DEF U
  <2> QED BY <1>3, <1>6, <2>1
<1>9. ~(i < x)
  <2> SUFFICES ASSUME i < x PROVE FALSE
    OBVIOUS
  <2>1. Cardinality(U(i)) < Cardinality(U(x))
    BY <1>6, RankDiffers DEF U
  <2> QED BY <1>3, <1>6, <2>1
<1>10. x = i
  BY <1>7, <1>8, <1>9
<1> QED BY <1>4, <1>5, <1>10 DEF U

(* The places at which an item becomes complete are places of the list.    *)
LEMMA EndsAre ==
  ASSUME NEW s \in Seq(Records)
  PROVE  Ends(s) \subseteq 1 .. Len(s) /\ Ends(s) \subseteq Nat /\ IsFiniteSet(Ends(s))
<1>1. Ends(s) \in SUBSET (1 .. Len(s)) /\ Len(s) \in Nat
  BY DEF Ends
<1>2. IsFiniteSet(1 .. Len(s))
  BY <1>1, FS_Interval
<1> QED BY <1>1, <1>2, FS_Subset

(* An answer has an item for each such place.                              *)
LEMMA CompleteIs ==
  ASSUME NEW s \in Seq(Records)
  PROVE  /\ Complete(s) \in Seq(Nat) /\ Len(Complete(s)) = Cardinality(Ends(s))
         /\ DOMAIN Complete(s) = 1 .. Cardinality(Ends(s))
         /\ \A k \in 1 .. Cardinality(Ends(s)) :
              Nth(Ends(s), k) \in Ends(s) /\ Complete(s)[k] = s[Nth(Ends(s), k)].id
<1> DEFINE c == [k \in 1 .. Cardinality(Ends(s)) |-> s[Nth(Ends(s), k)].id]
<1>1. Complete(s) = c
  BY DEF Complete, Nth
<1>2. Cardinality(Ends(s)) \in Nat
  BY EndsAre, FS_CardinalityType
<1>3. ASSUME NEW k \in 1 .. Cardinality(Ends(s)) PROVE Nth(Ends(s), k) \in Ends(s)
  BY EndsAre, NthIs
<1>4. ASSUME NEW i \in Ends(s) PROVE s[i].id \in Nat
  <2>1. i \in 1 .. Len(s)
    BY EndsAre
  <2>2. s[i] \in Records
    BY <2>1
  <2> QED BY <2>2 DEF Records
<1>5. c \in [1 .. Cardinality(Ends(s)) -> Nat]
  BY <1>3, <1>4
<1>6. c \in Seq(Nat) /\ Len(c) = Cardinality(Ends(s))
  BY <1>2, <1>5
<1> QED BY <1>1, <1>3, <1>6

(* What is pushed behind a record does not change what it completes.       *)
LEMMA CompletesStays ==
  ASSUME NEW s \in Seq(Records), NEW t \in Seq(Records), Starts(s, t), NEW i \in 1 .. Len(s)
  PROVE  Completes(s, i) <=> Completes(t, i)
<1>1. \A j \in 1 .. i : s[j] = t[j]
  BY DEF Starts
<1>2. s[i] = t[i] /\ \A j \in 1 .. i - 1 : s[j] = t[j]
  BY <1>1
<1>3. {k \in 1 .. i - 1 : s[k].id = s[i].id} = {k \in 1 .. i - 1 : t[k].id = t[i].id}
  BY <1>2
<1>4. {s[j].n : j \in {k \in 1 .. i - 1 : s[k].id = s[i].id}}
        = {t[j].n : j \in {k \in 1 .. i - 1 : t[k].id = t[i].id}}
  BY <1>2, <1>3
<1> QED BY <1>2, <1>4 DEF Completes

\* So the places of a list's beginning are those of the list that lie in it.
LEMMA EndsStay ==
  ASSUME NEW s \in Seq(Records), NEW t \in Seq(Records), Starts(s, t)
  PROVE  Ends(s) = {i \in Ends(t) : i <= Len(s)}
<1>1. Len(s) \in Nat /\ Len(t) \in Nat /\ Len(s) <= Len(t) /\ DOMAIN s = 1 .. Len(s)
        /\ DOMAIN t = 1 .. Len(t)
  BY DEF Starts
<1>2. ASSUME NEW i \in Ends(s) PROVE i \in Ends(t) /\ i <= Len(s)
  <2>1. i \in 1 .. Len(s) /\ Completes(s, i)
    BY <1>1 DEF Ends
  <2>2. Completes(t, i)
    BY <2>1, CompletesStays
  <2> QED BY <1>1, <2>1, <2>2 DEF Ends
<1>3. ASSUME NEW i \in Ends(t), i <= Len(s) PROVE i \in Ends(s)
  <2>1. i \in 1 .. Len(t) /\ Completes(t, i)
    BY <1>1 DEF Ends
  <2>2. i \in 1 .. Len(s)
    BY <1>1, <1>3, <2>1
  <2>3. Completes(s, i)
    BY <2>1, <2>2, CompletesStays
  <2> QED BY <1>1, <2>2, <2>3 DEF Ends
<1> QED BY <1>2, <1>3

(* An item that is complete stays so.                                      *)
LEMMA DoneGrows ==
  ASSUME NEW s \in Seq(Records), NEW t \in Seq(Records), Starts(s, t)
  PROVE  Done(s) \subseteq Done(t)
<1>1. ASSUME NEW i \in Ends(s) PROVE i \in Ends(t) /\ s[i] = t[i]
  <2>1. i \in Ends(t) /\ i \in 1 .. Len(s)
    BY EndsStay, EndsAre
  <2> QED BY <2>1 DEF Starts
<1> QED BY <1>1 DEF Done

(* A record of a list that only repeated one is that one or was there.     *)
LEMMA RepeatsAt ==
  ASSUME NEW s \in Seq(Records), NEW t \in Seq(Records), NEW h, Repeats(s, t, h), NEW i \in DOMAIN t
  PROVE  t[i] = h \/ (i \in DOMAIN s /\ t[i] = s[i])
<1>1. Len(s) \in Nat /\ Len(t) \in Nat /\ i \in 1 .. Len(t) /\ DOMAIN s = 1 .. Len(s)
  OBVIOUS
<1>2. CASE i <= Len(s)
  BY <1>1, <1>2 DEF Repeats, Starts
<1>3. CASE ~(i <= Len(s))
  BY <1>1, <1>3 DEF Repeats
<1> QED BY <1>2, <1>3

(* The answer of a list's beginning is the beginning of the list's answer. *)
LEMMA CompleteGrows ==
  ASSUME NEW s \in Seq(Records), NEW t \in Seq(Records), Starts(s, t)
  PROVE  Starts(Complete(s), Complete(t))
<1> DEFINE S == Ends(s)
           T == Ends(t)
<1>1. S \subseteq Nat /\ IsFiniteSet(S) /\ T \subseteq Nat /\ IsFiniteSet(T)
        /\ S \subseteq 1 .. Len(s)
  BY EndsAre
<1>2. S = {i \in T : i <= Len(s)} /\ Len(s) \in Nat
  BY EndsStay
<1>3. Cardinality(S) <= Cardinality(T) /\ Cardinality(S) \in Nat /\ Cardinality(T) \in Nat
  <2>1. S \in SUBSET T
    BY <1>2
  <2> QED BY <1>1, <2>1, FS_Subset, FS_CardinalityType
<1> HIDE DEF S, T
<1>4. ASSUME NEW k \in 1 .. Cardinality(S) PROVE Nth(S, k) = Nth(T, k)
  <2>1. PICK i : i = Nth(S, k)
    OBVIOUS
  <2>2. i \in S /\ Cardinality({j \in S : j <= i}) = k
    BY <1>1, <2>1, NthIs
  <2>3. i \in T /\ i \in Nat /\ i <= Len(s)
    BY <1>1, <1>2, <2>2
  <2>4. {j \in S : j <= i} = {j \in T : j <= i}
    <3>1. ASSUME NEW j \in T, j <= i PROVE j \in S
      <4>1. j \in Nat
        BY <1>1
      <4>2. j <= Len(s)
        BY <1>2, <2>3, <3>1, <4>1
      <4> QED BY <1>2, <4>2
    <3>2. \A j \in S : j \in T
      BY <1>2
    <3> QED BY <3>1, <3>2
  <2>5. Nth(T, Cardinality({j \in T : j <= i})) = i
    BY <1>1, <2>3, RankIs
  <2> QED BY <2>1, <2>2, <2>4, <2>5
<1>5. Len(Complete(s)) = Cardinality(S) /\ Len(Complete(t)) = Cardinality(T)
  BY CompleteIs DEF S, T
<1>6. ASSUME NEW k \in 1 .. Cardinality(S) PROVE Complete(s)[k] = Complete(t)[k]
  <2>1. k \in 1 .. Cardinality(T)
    BY <1>3
  <2>2. Nth(S, k) \in S /\ Complete(s)[k] = s[Nth(S, k)].id /\ Complete(t)[k] = t[Nth(T, k)].id
    BY <2>1, CompleteIs DEF S, T
  <2>3. s[Nth(S, k)] = t[Nth(S, k)]
    BY <1>1, <2>2 DEF Starts
  <2> QED BY <1>4, <2>2, <2>3
<1> QED BY <1>3, <1>5, <1>6 DEF Starts

(* An answer has exactly the items that are complete.                      *)
LEMMA CompleteHasDone ==
  ASSUME NEW s \in Seq(Records)
  PROVE  ToSet(Complete(s)) = Done(s)
<1>1. Ends(s) \subseteq Nat /\ IsFiniteSet(Ends(s))
  BY EndsAre
<1>2. ASSUME NEW i \in Ends(s) PROVE \E k \in DOMAIN Complete(s) : Complete(s)[k] = s[i].id
  <2>1. PICK k : k = Cardinality({j \in Ends(s) : j <= i})
    OBVIOUS
  <2>2. k \in 1 .. Cardinality(Ends(s)) /\ Nth(Ends(s), k) = i
    BY <1>1, <2>1, RankIs
  <2> QED BY <2>2, CompleteIs
<1>3. ASSUME NEW k \in DOMAIN Complete(s) PROVE \E i \in Ends(s) : Complete(s)[k] = s[i].id
  BY CompleteIs
<1> QED BY <1>2, <1>3 DEF ToSet, Done

(* No item becomes complete twice.                                         *)
LEMMA CompletesOnce ==
  ASSUME NEW s \in Seq(Records), Agree(s), NEW i \in Ends(s), NEW j \in Ends(s), i < j
  PROVE  s[i].id # s[j].id
<1> SUFFICES ASSUME s[i].id = s[j].id PROVE FALSE
  OBVIOUS
<1> DEFINE before(m) == {s[x].n : x \in {k \in 1 .. m - 1 : s[k].id = s[m].id}}
<1>1. i \in 1 .. Len(s) /\ j \in 1 .. Len(s) /\ i \in Nat /\ j \in Nat /\ DOMAIN s = 1 .. Len(s)
  BY EndsAre
<1>2. s[i].of = s[j].of
  BY <1>1 DEF Agree
<1>3. Completes(s, i) /\ Completes(s, j)
  BY DEF Ends
<1>4. s[i].n \notin before(i) /\ before(i) \union {s[i].n} = 1 .. s[i].of
  BY <1>3 DEF Completes
<1>5. s[j].n \notin before(j) /\ before(j) \union {s[j].n} = 1 .. s[j].of
  BY <1>3 DEF Completes
<1>6. s[j].n \in before(i) \union {s[i].n}
  BY <1>2, <1>4, <1>5
<1>7. before(i) \union {s[i].n} \subseteq before(j)
  <2>1. i \in {k \in 1 .. j - 1 : s[k].id = s[j].id}
    BY <1>1
  <2>2. ASSUME NEW k \in 1 .. i - 1,
               s[k].id = s[i].id PROVE k \in {m \in 1 .. j - 1 : s[m].id = s[j].id}
    <3>1. k \in 1 .. j - 1
      BY <1>1
    <3> QED BY <2>2, <3>1
  <2> QED BY <2>1, <2>2
<1> QED BY <1>5, <1>6, <1>7

(* No answer has an item twice.                                            *)
LEMMA CompleteIsInjective ==
  ASSUME NEW s \in Seq(Records), Agree(s)
  PROVE  IsInjective(Complete(s))
<1>1. Ends(s) \subseteq Nat /\ IsFiniteSet(Ends(s))
  BY EndsAre
<1>2. ASSUME NEW a \in DOMAIN Complete(s), NEW b \in DOMAIN Complete(s),
             Complete(s)[a] = Complete(s)[b]
      PROVE  a = b
  <2>1. PICK i, j : i = Nth(Ends(s), a) /\ j = Nth(Ends(s), b)
    OBVIOUS
  <2>2. a \in 1 .. Cardinality(Ends(s)) /\ b \in 1 .. Cardinality(Ends(s))
    BY CompleteIs
  <2>3. i \in Ends(s) /\ j \in Ends(s) /\ s[i].id = s[j].id
    BY <1>2, <2>1, <2>2, CompleteIs
  <2>4. i \in Nat /\ j \in Nat /\ ~(i < j) /\ ~(j < i)
    BY <1>1, <2>3, CompletesOnce
  <2>5. i = j
    BY <2>4
  <2>6. Cardinality({x \in Ends(s) : x <= i}) = a /\ Cardinality({x \in Ends(s) : x <= j}) = b
    BY <1>1, <2>1, <2>2, NthIs
  <2> QED BY <2>5, <2>6
<1> QED BY <1>2 DEF IsInjective

(* The list grows by records of one item. *)
LEMMA NumbersGrow ==
  ASSUME NEW s \in Seq(Records), NEW t \in Seq(Records), NEW h \in Records, Repeats(s, t, h),
         NEW id \in Nat
  PROVE  Numbers(t, id) = IF id = h.id /\ Len(t) > Len(s)
                          THEN Numbers(s, id) \union {h.n} ELSE Numbers(s, id)
<1>1. /\ Len(s) \in Nat /\ Len(t) \in Nat /\ Len(s) <= Len(t) /\ DOMAIN s = 1 .. Len(s)
           /\ DOMAIN t = 1 .. Len(t)
      /\ \A i \in 1 .. Len(s) : s[i] = t[i]
      /\ \A i \in 1 .. Len(t) : i \notin 1 .. Len(s) => t[i] = h
  BY DEF Repeats, Starts
<1>2. ASSUME NEW i \in DOMAIN t, t[i].id = id
      PROVE  t[i].n \in Numbers(s, id) \/ (id = h.id /\ Len(t) > Len(s) /\ t[i].n = h.n)
  <2>1. CASE i \in 1 .. Len(s)
    <3>1. s[i] = t[i] /\ i \in DOMAIN s
      BY <1>1, <2>1
    <3> QED BY <1>2, <3>1 DEF Numbers
  <2>2. CASE i \notin 1 .. Len(s)
    <3>1. t[i] = h /\ Len(t) > Len(s)
      BY <1>1, <2>2
    <3> QED BY <1>2, <3>1
  <2> QED BY <2>1, <2>2
<1>3. ASSUME NEW i \in DOMAIN s, s[i].id = id PROVE s[i].n \in Numbers(t, id)
  <2>1. i \in DOMAIN t /\ s[i] = t[i]
    BY <1>1
  <2> QED BY <1>3, <2>1 DEF Numbers
<1>4. ASSUME id = h.id, Len(t) > Len(s) PROVE h.n \in Numbers(t, id)
  <2>1. Len(t) \in DOMAIN t /\ t[Len(t)] = h
    BY <1>1, <1>4
  <2> QED BY <1>4, <2>1 DEF Numbers
<1>5. Numbers(s, id) \subseteq Numbers(t, id)
  BY <1>3 DEF Numbers
<1>6. \A x \in Numbers(t, id) : x \in Numbers(s, id) \/ (id = h.id /\ Len(t) > Len(s) /\ x = h.n)
  BY <1>2 DEF Numbers
<1> QED BY <1>4, <1>5, <1>6

(* The last record of an item completes it, also when it lands twice.      *)
LEMMA LastCompletes ==
  ASSUME NEW s \in Seq(Records), NEW t \in Seq(Records), NEW h \in Records, Repeats(s, t, h),
         Len(t) > Len(s),
         h.n = h.of, 0 < h.of, Numbers(s, h.id) = 1 .. h.of - 1
  PROVE  h.id \in Done(t)
<1> DEFINE i == Len(s) + 1
<1>0. /\ Len(s) \in Nat /\ Len(t) \in Nat /\ Len(t) > Len(s) /\ h.of \in Nat
      /\ DOMAIN s = 1 .. Len(s) /\ DOMAIN t = 1 .. Len(t)
      /\ \A k \in 1 .. Len(s) : s[k] = t[k]
      /\ \A k \in Len(s) + 1 .. Len(t) : t[k] = h
  BY SMTT(20) DEF Repeats, Starts, Records
<1>1. /\ i \in DOMAIN t /\ i \in 1 .. Len(t) /\ i - 1 = Len(s)
      /\ DOMAIN s = 1 .. Len(s) /\ \A k \in 1 .. Len(s) : s[k] = t[k]
      /\ t[i] = h /\ h.of \in Nat
  BY <1>0
<1> HIDE DEF i
<1>2. {k \in 1 .. i - 1 : t[k].id = t[i].id} = {k \in DOMAIN s : s[k].id = h.id}
  BY <1>1
<1>3. {t[j].n : j \in {k \in 1 .. i - 1 : t[k].id = t[i].id}}
        = {s[j].n : j \in {k \in DOMAIN s : s[k].id = h.id}}
  BY <1>1, <1>2
<1>4. {t[j].n : j \in {k \in 1 .. i - 1 : t[k].id = t[i].id}} = 1 .. h.of - 1
  BY <1>3 DEF Numbers
<1>5. h.n \notin 1 .. h.of - 1 /\ (1 .. h.of - 1) \union {h.n} = 1 .. h.of
  BY <1>1
<1>6. Completes(t, i)
  BY <1>1, <1>4, <1>5 DEF Completes
<1> QED BY <1>1, <1>6 DEF Ends, Done

\* A record that agrees with its item's others leaves the list in agreement.
LEMMA AgreeGrows ==
  ASSUME NEW s \in Seq(Records), NEW t \in Seq(Records), NEW h \in Records, Repeats(s, t, h),
         Agree(s),
         \A i \in DOMAIN s : s[i].id = h.id => s[i].of = h.of
  PROVE  Agree(t)
<1>1. /\ Len(s) \in Nat /\ Len(t) \in Nat /\ DOMAIN s = 1 .. Len(s) /\ DOMAIN t = 1 .. Len(t)
      /\ \A i \in 1 .. Len(t) : IF i \in DOMAIN s THEN t[i] = s[i] ELSE t[i] = h
  BY DEF Repeats, Starts
<1> QED BY <1>1 DEF Agree

------------------------------------------------------------------------------
(* The types of the keys, the calls and the histories.                     *)
Redis == [list : [Streams -> Seq(Records)], hash : BOOLEAN, stamp : Nat, seq : Nat,
          size : [Streams -> Nat], ttl : SUBSET Keys]
Calls == [op : Ops \union {"idle"}, at : Places \union {"idle"}, stream : Streams, saw : Nat,
          todo : Seq(Records), got : Seq(Records), of : Nat, owes : SUBSET Nat]

Types ==
  /\ redis \in Redis /\ gens \in Nat /\ items \in Nat
  /\ call \in [Caller -> Calls] /\ content \in Nat /\ given \in Nat
  /\ acked \in [Streams -> SUBSET Nat] /\ longest \in [Streams -> Seq(Nat)]

(* There is a content when both lists are there, and the numbers handed    *)
(* out from it are behind its counter.                                     *)
ContentFits == /\ content # 0 <=> Content(redis)
               /\ Content(redis) => given <= redis.seq
               /\ content <= gens

\* A creation that fills in has a stamp of its own, which no content has had yet.
Filling(k) == k.at = "fill"
StampFits(k) == /\ k.of <= gens
                /\ Filling(k) => 0 < k.saw /\ k.saw <= gens /\ k.saw # content
StampsApart(k, l) == Filling(k) => k.saw # l.of /\ (Filling(l) => k.saw # l.saw)
StampsFit == /\ \A c \in Caller : StampFits(call[c])
             /\ \A c, d \in Caller : c # d => StampsApart(call[c], call[d])

(* A push's records are what is left of an item of its own, and what is    *)
(* not left of it is in the list.                                          *)
Pushing(k) == k.at = "push"
Has(k) == k.of = content /\ content # 0
Item(k) == k.todo[1]
PushFits(k) ==
  Pushing(k) =>
    /\ k.todo # <<>> /\ Len(k.todo) <= Item(k).of /\ 0 < Item(k).id /\ Item(k).id <= items
    /\ \A i \in DOMAIN k.todo :
         k.todo[i] = Record(Item(k).id, Item(k).of - Len(k.todo) + i, Item(k).of)
    /\ \A i \in DOMAIN redis.list[k.stream] :
         redis.list[k.stream][i].id = Item(k).id => redis.list[k.stream][i].of = Item(k).of
    /\ Has(k) => Numbers(redis.list[k.stream], Item(k).id) = 1 .. Item(k).of - Len(k.todo)
PushesApart(k, l) == Pushing(k) /\ Pushing(l) => Item(k).id # Item(l).id
PushesFit == /\ \A c \in Caller : PushFits(call[c])
             /\ \A c, d \in Caller : c # d => PushesApart(call[c], call[d])

\* The records of an item agree on their count, and its id has been given.
RecordsFit == \A s \in Streams :
  /\ \A i \in DOMAIN redis.list[s] : redis.list[s][i].id <= items
  /\ Agree(redis.list[s])

(* What a read is owed is complete in the list, what it has read is the    *)
(* list's beginning, and its answer the beginning of the longest one.      *)
ReadFits(k) ==
  Has(k) =>
    /\ k.at \in {"check", "refresh", "page"} => k.owes \subseteq Done(redis.list[k.stream])
    /\ k.at \in {"check", "refresh", "page", "answered"} => Starts(k.got, redis.list[k.stream])
    /\ k.at = "answered" =>
         k.owes \subseteq Done(k.got) /\ Starts(Complete(k.got), longest[k.stream])
ReadsFit == \A c \in Caller : ReadFits(call[c])

(* Every item that was acknowledged is complete, and every answer that was *)
(* given is the beginning of what a reader would be given now.             *)
PromisesFit ==
  content # 0 => \A s \in Streams : /\ acked[s] \subseteq Done(redis.list[s])
                                    /\ Starts(longest[s], Complete(redis.list[s]))

IInv == /\ Types /\ ListsLiveTogether /\ SizesAreExact /\ ContentFits /\ StampsFit /\ PushesFit
        /\ RecordsFit /\ ReadsFit /\ PromisesFit

------------------------------------------------------------------------------
(* The first record of a list is a record.                                 *)
LEMMA RecordIs ==
  /\ First \in Records /\ <<First>> \in Seq(Records) /\ Len(<<First>>) = 1 /\ <<First>>[1] = First
  /\ First.id = 0 /\ <<First>> # <<>>
  BY DEF First, Record, Records

(* The records of an item are counted through.                             *)
LEMMA ItemRecordsAre ==
  ASSUME NEW id \in Nat, NEW count \in Nat
  PROVE  /\ ItemRecords(id, count) \in Seq(Records) /\ Len(ItemRecords(id, count)) = count
         /\ DOMAIN ItemRecords(id, count) = 1 .. count
         /\ \A i \in 1 .. count : ItemRecords(id, count)[i] = Record(id, i, count)
<1>1. \A i \in 1 .. count : Record(id, i, count) \in Records
  BY DEF Record, Records
<1>2. ItemRecords(id, count) \in [1 .. count -> Records]
  BY <1>1 DEF ItemRecords
<1>3. ItemRecords(id, count) \in Seq(Records)
  BY <1>2
<1> QED BY <1>2, <1>3 DEF ItemRecords

(* What the requests make of the lists, the sizes and the counter. *)
LEMMA GoneIs == Gone \in Redis /\ Gone.list = [s \in Streams |-> <<>>]
<1>1. [s \in Streams |-> <<>>] \in [Streams -> Seq(Records)]
  OBVIOUS
<1> QED BY <1>1 DEF Gone, Redis

(* A TTL touches neither list nor counter.                                 *)
LEMMA ExpireIs ==
  ASSUME NEW r \in Redis
  PROVE  /\ Expire(r) \in Redis /\ Expire(r).list = r.list /\ Expire(r).size = r.size
         /\ Expire(r).seq = r.seq /\ Expire(r).stamp = r.stamp
  BY DEF Expire, Redis

(* A claim touches neither list nor counter.                               *)
LEMMA ClaimInIs ==
  ASSUME NEW r \in Redis, NEW stamp \in Nat
  PROVE  /\ ClaimIn(r, stamp) \in Redis /\ ClaimIn(r, stamp).list = r.list
         /\ ClaimIn(r, stamp).size = r.size /\ ClaimIn(r, stamp).seq = r.seq
         /\ ClaimIn(r, stamp).stamp = IF r.stamp = 0 THEN stamp ELSE r.stamp
  BY DEF ClaimIn, Redis, Keys

(* A creation leaves the first records and fresh counters.                 *)
LEMMA FillInIs ==
  ASSUME NEW r \in Redis, NEW n \in Nat
  PROVE  /\ FillIn(r, n) \in Redis /\ FillIn(r, n).list = [s \in Streams |-> <<First>>]
         /\ FillIn(r, n).size = [conv |-> 1, replay |-> 0] /\ FillIn(r, n).seq = n
<1>1. [s \in Streams |-> <<First>>] \in [Streams -> Seq(Records)]
  BY RecordIs
<1>2. [conv |-> 1, replay |-> 0] \in [Streams -> Nat]
  BY DEF Streams
<1> QED BY <1>1, <1>2 DEF FillIn, Redis, Keys

(* A number that is handed out leaves the lists as they are.               *)
LEMMA BumpInIs ==
  ASSUME NEW r \in Redis
  PROVE  /\ BumpIn(r) \in Redis /\ BumpIn(r).list = r.list /\ BumpIn(r).size = r.size
         /\ BumpIn(r).seq = r.seq + 1
<1> DEFINE b == [r EXCEPT !.hash = TRUE, !.seq = @ + 1]
<1>0. r.seq + 1 \in Nat
  BY DEF Redis
<1>1. b \in Redis /\ b.list = r.list /\ b.size = r.size /\ b.seq = r.seq + 1
  BY <1>0 DEF Redis
<1>2. BumpIn(r) = Expire(b)
  BY DEF BumpIn
<1> HIDE DEF b
<1> QED BY <1>1, <1>2, ExpireIs

\* A push lengthens a list that is there, and its size with it, and makes none.
LEMMA PushInIs ==
  ASSUME NEW r \in Redis, NEW s \in Streams, NEW h \in Records
  PROVE  /\ PushIn(r, s, <<h>>) \in Redis /\ PushIn(r, s, <<h>>).seq = r.seq
         /\ PushIn(r, s, <<h>>).list =
               IF r.list[s] # <<>> THEN [r.list EXCEPT ![s] = @ \o <<h>>] ELSE r.list
         /\ PushIn(r, s, <<h>>).size = [r.size EXCEPT ![s] = @ + 1]
<1> DEFINE p == IF Exists(r, s) THEN [r EXCEPT !.list[s] = @ \o <<h>>] ELSE r
<1>0. s # "meta" /\ r.list \in [Streams -> Seq(Records)] /\ r.size \in [Streams -> Nat]
      /\ r.list[s] \in Seq(Records) /\ <<h>> \in Seq(Records) /\ Len(<<h>>) = 1
  BY DEF Streams, Redis
<1>1. Exists(r, s) <=> r.list[s] # <<>>
  BY <1>0 DEF Exists
<1>2. r.list[s] \o <<h>> \in Seq(Records)
  BY <1>0, ConcatProperties
<1>3. /\ p \in Redis /\ p.seq = r.seq /\ p.size = r.size
      /\ p.list = IF r.list[s] # <<>> THEN [r.list EXCEPT ![s] = @ \o <<h>>] ELSE r.list
  BY <1>0, <1>1, <1>2 DEF Redis
<1>4. PushIn(r, s, <<h>>) = [Expire(p) EXCEPT !.hash = TRUE, !.size[s] = @ + Len(<<h>>)]
  BY DEF PushIn
<1> HIDE DEF p
<1>5. /\ Expire(p) \in Redis /\ Expire(p).list = p.list /\ Expire(p).size = p.size
      /\ Expire(p).seq = p.seq
  BY <1>3, ExpireIs
<1>6. p.size[s] + 1 \in Nat
  BY <1>0, <1>3
<1>7. PushIn(r, s, <<h>>) = [Expire(p) EXCEPT !.hash = TRUE, !.size = [p.size EXCEPT ![s] = @ + 1]]
  BY <1>0, <1>4, <1>5 DEF Redis
<1>8. [p.size EXCEPT ![s] = @ + 1] \in [Streams -> Nat]
  BY <1>0, <1>3, <1>6
<1>9. /\ PushIn(r, s, <<h>>) \in Redis /\ PushIn(r, s, <<h>>).list = Expire(p).list
      /\ PushIn(r, s, <<h>>).seq = Expire(p).seq
      /\ PushIn(r, s, <<h>>).size = [p.size EXCEPT ![s] = @ + 1]
  BY <1>5, <1>7, <1>8 DEF Redis
<1> QED BY <1>3, <1>5, <1>9

(* Each record of a list is one.                                           *)
LEMMA RecordAt ==
  ASSUME NEW s \in Seq(Records), NEW i \in DOMAIN s
  PROVE  s[i] \in Records /\ s[i].id \in Nat /\ s[i].n \in Nat /\ s[i].of \in Nat
<1>1. s[i] \in Records
  OBVIOUS
<1> QED BY <1>1 DEF Records

(* The types, spelled out.                                                 *)
LEMMA TypeFacts ==
  ASSUME Types
  PROVE  /\ redis \in Redis /\ redis.list \in [Streams -> Seq(Records)] /\ redis.seq \in Nat
         /\ redis.stamp \in Nat /\ redis.size \in [Streams -> Nat]
         /\ gens \in Nat /\ items \in Nat /\ content \in Nat /\ given \in Nat
         /\ acked \in [Streams -> SUBSET Nat] /\ longest \in [Streams -> Seq(Nat)]
         /\ call \in [Caller -> Calls]
         /\ \A s \in Streams : redis.list[s] \in Seq(Records) /\ longest[s] \in Seq(Nat)
         /\ \A c \in Caller : call[c] \in Calls
  BY DEF Types, Redis

(* The same of a call.                                                     *)
LEMMA CallFacts ==
  ASSUME NEW k \in Calls
  PROVE  /\ k.stream \in Streams /\ k.todo \in Seq(Records) /\ k.got \in Seq(Records)
         /\ k.of \in Nat /\ k.saw \in Nat /\ k.owes \in SUBSET Nat
         /\ k.at \in Places \union {"idle"} /\ k.op \in Ops \union {"idle"}
  BY DEF Calls

(* The item that a push has records of.                                    *)
LEMMA ItemIs ==
  ASSUME NEW k \in Calls, k.todo # <<>>
  PROVE  /\ Item(k) \in Records /\ Item(k).id \in Nat /\ Item(k).n \in Nat /\ Item(k).of \in Nat
         /\ Item(k) = Head(k.todo) /\ Len(k.todo) \in Nat /\ 1 \in DOMAIN k.todo
<1>1. k.todo \in Seq(Records)
  BY CallFacts
<1>2. 1 \in DOMAIN k.todo /\ Len(k.todo) \in Nat /\ Head(k.todo) = k.todo[1]
  BY <1>1
<1> QED BY <1>1, <1>2, RecordAt DEF Item

(* A call that is over reads, owes and pushes nothing.                     *)
LEMMA IdleIs == Idle \in Calls /\ Idle.at = "idle" /\ Idle.of = 0 /\ Idle.stream = "conv"
                  /\ Idle.got = <<>> /\ Idle.owes = {} /\ Idle.todo = <<>>
  BY DEF Idle, Calls, Streams

(* The content is there when both lists are, now and after a step.         *)
LEMMA ContentIs ==
  /\ Content(redis) <=> \A s \in Streams : redis.list[s] # <<>>
  /\ Content(redis)' <=> \A s \in Streams : redis'.list[s] # <<>>
  BY DEF Content, Exists, Streams

(* ListsLiveTogether, list by list.                                        *)
LEMMA ListsAre ==
  ListsLiveTogether <=>
    \A s \in Streams : redis.list[s] # <<>> =>
      Head(redis.list[s]) = First /\ \A t \in Streams : redis.list[t] # <<>>
  BY DEF ListsLiveTogether, Exists, Content, Streams

(* Steps that leave the lists, the promises and the content alone: one     *)
(* call goes on to where it is entitled to.                                *)
Entitled(c, k) ==
  /\ k \in Calls /\ k.of \in {0, content, call[c].of}
  /\ Pushing(k) =>
       /\ k.todo # <<>> /\ Len(k.todo) = Item(k).of /\ items < Item(k).id /\ Item(k).id <= items'
       /\ \A i \in DOMAIN k.todo : k.todo[i] = Record(Item(k).id, i, Item(k).of)
  /\ Filling(k) => gens < k.saw /\ k.saw <= gens'
  /\ ReadFits(k)
Goes(c) == \E k : Entitled(c, k) /\ call' = [call EXCEPT ![c] = k]

\* A step that leaves the lists alone and takes its call where it may go keeps all.
LEMMA CallKeep ==
  ASSUME IInv, NEW c \in Caller, Goes(c),
         redis' \in Redis, redis'.list = redis.list, redis'.size = redis.size,
         gens' \in Nat, gens <= gens', items' \in Nat, items <= items',
         given' \in Nat, redis'.seq >= given' \/ (redis'.seq >= redis.seq /\ given' = given),
         UNCHANGED <<content, acked, longest>>
  PROVE  IInv'
<1>1. PICK k : Entitled(c, k) /\ call' = [call EXCEPT ![c] = k]
  BY DEF Goes
<1>2. Types
  BY DEF IInv
<1>3. k \in Calls /\ call'[c] = k /\ \A d \in Caller : d # c => call'[d] = call[d]
  BY <1>1, <1>2, TypeFacts DEF Entitled
<1>4. Types'
  BY <1>1, <1>2, <1>3 DEF Types
<1>5. ListsLiveTogether'
  BY ContentIs DEF IInv, ListsLiveTogether, Exists, Streams
<1>6. Content(redis)' <=> Content(redis)
  BY ContentIs
<1>7. SizesAreExact'
  BY <1>6 DEF IInv, SizesAreExact
<1>8. ContentFits'
  <2>1. content \in Nat /\ gens \in Nat /\ given \in Nat /\ redis.seq \in Nat /\ redis'.seq \in Nat
    BY <1>2, TypeFacts DEF Redis
  <2> QED BY <1>6, <2>1 DEF IInv, ContentFits
<1>9. StampsFit'
  <2>0. content \in Nat /\ gens \in Nat /\ \A d \in Caller : call[d] \in Calls
    BY <1>2, TypeFacts
  <2>1. ASSUME NEW d \in Caller PROVE StampFits(call[d])'
    <3>1. StampFits(call[d]) /\ StampFits(call[c]) /\ content <= gens
      BY DEF IInv, StampsFit, ContentFits
    <3>2. call[d].of \in Nat /\ call[c].of \in Nat /\ k.of \in Nat /\ k.saw \in Nat
            /\ call[d].saw \in Nat
      BY <1>3, <2>0, CallFacts
    <3>3. CASE d = c
      BY <1>1, <1>3, <2>0, <3>1, <3>2, <3>3 DEF StampFits, Entitled, Filling
    <3>4. CASE d # c
      BY <1>3, <2>0, <3>1, <3>2, <3>4 DEF StampFits, Filling
    <3> QED BY <3>3, <3>4
  <2>2. ASSUME NEW d \in Caller, NEW e \in Caller, d # e PROVE StampsApart(call[d], call[e])'
    <3>1. /\ StampFits(call[d]) /\ StampFits(call[e]) /\ StampFits(call[c]) /\ content <= gens
          /\ StampsApart(call[d], call[e]) /\ (StampsApart(call[d], call[c]) \/ d = c)
          /\ StampsApart(call[e], call[d])
      BY <2>2 DEF IInv, StampsFit, ContentFits
    <3>2. /\ call[d].of \in Nat /\ call[e].of \in Nat /\ call[c].of \in Nat /\ k.of \in Nat
          /\ k.saw \in Nat /\ call[d].saw \in Nat /\ call[e].saw \in Nat
      BY <1>3, <2>0, CallFacts
    <3>3. CASE d = c
      BY <1>1, <1>3, <2>0, <2>2, <3>1, <3>2, <3>3 DEF StampFits, StampsApart, Entitled, Filling
    <3>4. CASE e = c
      <4>1. call'[d] = call[d] /\ call'[e] = k /\ call[e] = call[c]
        BY <1>3, <2>2, <3>4
      <4>2. Filling(call[d]) => /\ 0 < call[d].saw /\ call[d].saw <= gens /\ call[d].saw # content
                                /\ call[d].saw # call[c].of
        BY <2>2, <3>1, <3>4 DEF StampFits, StampsApart
      <4>3. k.of \in {0, content, call[c].of} /\ (Filling(k) => gens < k.saw)
        BY <1>1 DEF Entitled
      <4>4. Filling(call[d]) => call[d].saw # k.of /\ (Filling(k) => call[d].saw # k.saw)
        BY <2>0, <3>2, <4>2, <4>3
      <4> QED BY <4>1, <4>4 DEF StampsApart, Filling
    <3>5. CASE d # c /\ e # c
      <4>1. call'[d] = call[d] /\ call'[e] = call[e] /\ StampsApart(call[d], call[e])
        BY <1>3, <3>1, <3>5
      <4> QED BY <4>1 DEF StampsApart, Filling
    <3> QED BY <3>3, <3>4, <3>5
  <2> QED BY <2>1, <2>2 DEF StampsFit
<1>10. PushesFit'
  <2>0. items \in Nat /\ \A d \in Caller : call[d] \in Calls
    BY <1>2, TypeFacts
  <2>1. ASSUME NEW d \in Caller PROVE PushFits(call[d])'
    <3>1. CASE d # c
      <4>1. PushFits(call[d]) /\ call'[d] = call[d]
        BY <1>3, <3>1 DEF IInv, PushesFit
      <4>2. Pushing(call[d]) => Item(call[d]).id \in Nat
        BY <2>0, <4>1, ItemIs DEF PushFits
      <4> QED BY <2>0, <4>1, <4>2 DEF PushFits, Pushing, Has, Item
    <3>2. CASE d = c
      <4> SUFFICES ASSUME Pushing(k) PROVE PushFits(call[c])'
        BY <1>3, <3>2 DEF PushFits, Pushing
      <4>1. /\ k.todo # <<>> /\ Len(k.todo) = Item(k).of /\ items < Item(k).id
                 /\ Item(k).id <= items'
            /\ \A i \in DOMAIN k.todo : k.todo[i] = Record(Item(k).id, i, Item(k).of)
        BY <1>1 DEF Entitled
      <4>2. k.todo \in Seq(Records) /\ k.stream \in Streams
        BY <1>3, CallFacts
      <4>3. Item(k) \in Records /\ Len(k.todo) \in Nat
        BY <4>1, <4>2 DEF Item
      <4>4. Item(k).id \in Nat /\ Item(k).of \in Nat
        BY <4>3 DEF Records
      <4>5. \A i \in DOMAIN redis.list[k.stream] : redis.list[k.stream][i].id # Item(k).id
        <5>1. \A i \in DOMAIN redis.list[k.stream] : redis.list[k.stream][i].id <= items
          BY <4>2 DEF IInv, RecordsFit
        <5>2. \A i \in DOMAIN redis.list[k.stream] : redis.list[k.stream][i].id \in Nat
          <6>1. redis.list[k.stream] \in Seq(Records)
            BY <1>2, <4>2, TypeFacts
          <6> QED BY <6>1, RecordAt
        <5> QED BY <2>0, <4>1, <4>4, <5>1, <5>2
      <4>6. Numbers(redis.list[k.stream], Item(k).id) = {}
        BY <4>5 DEF Numbers
      <4>7. Item(k).of - Len(k.todo) = 0 /\ 1 .. 0 = {}
        BY <4>1, <4>4
      <4>8. \A i \in DOMAIN k.todo : i \in Nat /\ Item(k).of - Len(k.todo) + i = i
        BY <4>2, <4>7
      <4>9. Item(k)' = Item(k) /\ call'[c] = k
        BY <1>3 DEF Item
      <4>10. 0 < Item(k).id /\ Len(k.todo) <= Item(k).of
        BY <2>0, <4>1, <4>3, <4>4
      <4> QED BY <4>1, <4>5, <4>6, <4>7, <4>8, <4>9, <4>10 DEF PushFits, Item
    <3> QED BY <3>1, <3>2
  <2>2. ASSUME NEW d \in Caller, NEW e \in Caller, d # e PROVE PushesApart(call[d], call[e])'
    <3>1. PushesApart(call[d], call[e]) /\ PushFits(call[d]) /\ PushFits(call[e])
      BY <2>2 DEF IInv, PushesFit
    <3>2. /\ Pushing(call[d]) => Item(call[d]).id \in Nat /\ Item(call[d]).id <= items
          /\ Pushing(call[e]) => Item(call[e]).id \in Nat /\ Item(call[e]).id <= items
      BY <2>0, <3>1, ItemIs DEF PushFits
    <3>3. Pushing(k) => Item(k).id \in Nat /\ items < Item(k).id
      BY <1>1, <1>3, ItemIs DEF Entitled
    <3>4. /\ call'[d] = IF d = c THEN k ELSE call[d]
          /\ call'[e] = IF e = c THEN k ELSE call[e]
      BY <1>3
    <3> QED BY <2>0, <2>2, <3>1, <3>2, <3>3, <3>4 DEF PushesApart, Pushing, Item
  <2> QED BY <2>1, <2>2 DEF PushesFit
<1>11. RecordsFit'
  <2> SUFFICES ASSUME NEW s \in Streams, NEW i \in DOMAIN redis.list[s]
               PROVE  redis.list[s][i].id <= items'
    BY DEF IInv, RecordsFit
  <2>1. redis.list[s] \in Seq(Records) /\ items \in Nat
    BY <1>2, TypeFacts
  <2>2. redis.list[s][i].id \in Nat
    BY <2>1, RecordAt
  <2>3. redis.list[s][i].id <= items
    BY DEF IInv, RecordsFit
  <2> QED BY <2>1, <2>2, <2>3
<1>12. ReadsFit'
  BY <1>1, <1>3 DEF IInv, ReadsFit, ReadFits, Has, Entitled
<1>13. PromisesFit'
  BY DEF IInv, PromisesFit
<1> QED BY <1>4, <1>5, <1>7, <1>8, <1>9, <1>10, <1>11, <1>12, <1>13 DEF IInv

(* Steps behind which there is no content. *)
Rests(c, k) == k \in Calls /\ ~Pushing(k) /\ ~Filling(k) /\ k.of \in {0, call[c].of}

(* So does one that leaves no list at all.                                 *)
LEMMA EmptyKeep ==
  ASSUME IInv,
         call' = call \/ \E c \in Caller : \E k : Rests(c, k) /\ call' = [call EXCEPT ![c] = k],
         redis' \in Redis, \A s \in Streams : redis'.list[s] = <<>>, content' = 0,
         acked' \in [Streams -> SUBSET Nat], longest' \in [Streams -> Seq(Nat)],
         UNCHANGED <<gens, items, given>>
  PROVE  IInv'
<1>1. Types /\ StampsFit /\ PushesFit
  BY DEF IInv
<1>2. /\ call' \in [Caller -> Calls]
      /\ \A d \in Caller : /\ Pushing(call'[d]) \/ Filling(call'[d]) => call'[d] = call[d]
                           /\ call'[d].of \in {0, call[d].of}
  <2>1. CASE call' = call
    BY <1>1, <2>1, TypeFacts
  <2>2. CASE \E c \in Caller : \E k : Rests(c, k) /\ call' = [call EXCEPT ![c] = k]
    BY <1>1, <2>2, TypeFacts DEF Rests
  <2> QED BY <2>1, <2>2
<1>3. Types'
  BY <1>1, <1>2 DEF Types
<1>4. ~Content(redis)'
  BY ContentIs DEF Streams
<1>5. ListsLiveTogether'
  BY DEF ListsLiveTogether, Exists, Streams
<1>6. SizesAreExact'
  BY <1>4 DEF SizesAreExact
<1>7. ContentFits'
  BY <1>1, <1>4, TypeFacts DEF ContentFits
<1>8. StampsFit'
  <2>1. ASSUME NEW d \in Caller PROVE StampFits(call[d])'
    <3>1. StampFits(call[d]) /\ gens \in Nat /\ call[d].of \in Nat /\ call[d].saw \in Nat
      BY <1>1, TypeFacts, CallFacts DEF StampsFit
    <3>2. call'[d].of \in {0, call[d].of} /\ (Filling(call'[d]) => call'[d] = call[d])
      BY <1>2
    <3>3. Filling(call'[d]) => 0 < call'[d].saw /\ call'[d].saw <= gens
      BY <3>1, <3>2 DEF StampFits
    <3>4. call'[d].of <= gens
      BY <3>1, <3>2 DEF StampFits
    <3>5. Filling(call'[d]) => call'[d].saw # content'
      BY <3>1, <3>2, <3>3
    <3> QED BY <3>3, <3>4, <3>5 DEF StampFits, Filling
  <2>2. ASSUME NEW d \in Caller, NEW e \in Caller, d # e PROVE StampsApart(call[d], call[e])'
    <3>1. StampsApart(call[d], call[e]) /\ StampFits(call[d])
      BY <1>1, <2>2 DEF StampsFit
    <3> QED BY <1>1, <1>2, <3>1, TypeFacts, CallFacts DEF StampFits, StampsApart, Filling
  <2> QED BY <2>1, <2>2 DEF StampsFit
<1>9. PushesFit'
  <2>1. ASSUME NEW d \in Caller PROVE PushFits(call[d])'
    <3> SUFFICES ASSUME Pushing(call'[d]) PROVE PushFits(call[d])'
      BY DEF PushFits, Pushing
    <3>1. call'[d] = call[d] /\ PushFits(call[d]) /\ call[d].stream \in Streams
      BY <1>1, <1>2, TypeFacts, CallFacts DEF PushesFit
    <3>2. DOMAIN redis'.list[call[d].stream] = {}
      BY <3>1
    <3> QED BY <3>1, <3>2 DEF PushFits, Pushing, Has, Item
  <2>2. ASSUME NEW d \in Caller, NEW e \in Caller, d # e PROVE PushesApart(call[d], call[e])'
    <3>1. PushesApart(call[d], call[e])
      BY <1>1, <2>2 DEF PushesFit
    <3> QED BY <1>2, <3>1 DEF PushesApart, Pushing, Item
  <2> QED BY <2>1, <2>2 DEF PushesFit
<1>10. RecordsFit'
  <2>1. \A s \in Streams : DOMAIN redis'.list[s] = {}
    OBVIOUS
  <2> QED BY <2>1 DEF RecordsFit, Agree
<1>11. ReadsFit'
  BY DEF ReadsFit, ReadFits, Has
<1>12. PromisesFit'
  BY DEF PromisesFit
<1> QED BY <1>3, <1>5, <1>6, <1>7, <1>8, <1>9, <1>10, <1>11, <1>12 DEF IInv

(* A creation fills in. *)
LEMMA FillKeep ==
  ASSUME IInv, NEW c \in Caller, Filling(call[c]), NEW k \in Calls, call' = [call EXCEPT ![c] = k],
         ~Filling(k), k.at \in {"idle", "undo", "push"}, k.of \in {0, call[c].of, call[c].saw},
         items' \in {items, items + 1},
         Pushing(k) => k.todo = ItemRecords(items', 1) /\ items' = items + 1,
         redis' \in Redis, \A s \in Streams : redis'.list[s] = <<First>>,
         redis'.size = [conv |-> 1, replay |-> 0], redis'.seq = given', given' \in Nat,
         content' = call[c].saw, Forget, UNCHANGED gens
  PROVE  IInv'
<1>1. Types /\ StampsFit /\ PushesFit
  BY DEF IInv
<1>2. call'[c] = k /\ call' \in [Caller -> Calls] /\ \A d \in Caller : d # c => call'[d] = call[d]
  BY <1>1, TypeFacts
<1>3. Types'
  <2>1. acked' \in [Streams -> SUBSET Nat] /\ longest' \in [Streams -> Seq(Nat)] /\ items' \in Nat
          /\ content' \in Nat
    BY <1>1, TypeFacts, CallFacts DEF Forget
  <2> QED BY <1>1, <1>2, <2>1 DEF Types
<1>4. Content(redis)'
  BY ContentIs, RecordIs
<1>5. ListsLiveTogether'
  <2>1. Head(<<First>>) = First
    OBVIOUS
  <2> QED BY <1>4, <2>1 DEF ListsLiveTogether, Exists, Streams
<1>6. SizesAreExact'
  <2>1. redis'.size["conv"] = 1 /\ redis'.size["replay"] = 0
    OBVIOUS
  <2>2. redis'.list["conv"] = <<First>> /\ redis'.list["replay"] = <<First>>
    BY DEF Streams
  <2>3. Len(<<First>>) = 1
    OBVIOUS
  <2>4. redis'.size["replay"] + 1 = 1
    BY <2>1
  <2> QED BY <2>1, <2>2, <2>3, <2>4 DEF SizesAreExact
<1>7. /\ content' > 0 /\ content' <= gens /\ content' # content /\ content' \in Nat
           /\ content \in Nat /\ gens \in Nat
      /\ \A d \in Caller : d # c => call[d].of # content'
      /\ \A d \in Caller : d # c /\ Filling(call[d]) => call[d].saw # content'
  BY <1>1, TypeFacts, CallFacts DEF StampsFit, StampFits, StampsApart
<1>8. ContentFits'
  <2>1. redis'.seq >= given'
    BY DEF Redis
  <2> QED BY <1>4, <1>7, <2>1 DEF ContentFits
<1>9. StampsFit'
  <2>0. \A d \in Caller : call[d].of \in Nat /\ call[d].saw \in Nat
    BY <1>1, TypeFacts, CallFacts
  <2>1. ASSUME NEW d \in Caller PROVE StampFits(call[d])'
    <3>1. StampFits(call[d]) /\ StampFits(call[c])
      BY <1>1 DEF StampsFit
    <3>2. CASE d = c
      BY <1>2, <1>7, <2>0, <3>1, <3>2 DEF StampFits, Filling
    <3>3. CASE d # c
      BY <1>2, <1>7, <2>0, <3>1, <3>3 DEF StampFits, Filling
    <3> QED BY <3>2, <3>3
  <2>2. ASSUME NEW d \in Caller, NEW e \in Caller, d # e PROVE StampsApart(call[d], call[e])'
    <3>1. StampsApart(call[d], call[e]) /\ StampFits(call[d])
      BY <1>1, <2>2 DEF StampsFit
    <3>2. CASE d = c
      BY <1>2, <3>2 DEF StampsApart, Filling
    <3>3. CASE d # c /\ e = c
      <4>1. call'[d] = call[d] /\ call'[e] = k
        BY <1>2, <3>3
      <4>2. Filling(call[d]) => call[d].saw # content' /\ call[d].saw # call[c].of
              /\ 0 < call[d].saw
        BY <1>7, <3>1, <3>3 DEF StampsApart, StampFits
      <4>3. Filling(call[d]) => call[d].saw # k.of
        BY <2>0, <4>2
      <4> QED BY <4>1, <4>3 DEF StampsApart, Filling
    <3>4. CASE d # c /\ e # c
      <4>1. call'[d] = call[d] /\ call'[e] = call[e]
        BY <1>2, <3>4
      <4> QED BY <3>1, <4>1 DEF StampsApart, Filling
    <3> QED BY <3>2, <3>3, <3>4
  <2> QED BY <2>1, <2>2 DEF StampsFit
<1>10. ASSUME Pushing(k)
       PROVE  /\ k.todo # <<>> /\ Len(k.todo) = 1 /\ DOMAIN k.todo = {1}
              /\ k.todo[1] = Record(items + 1, 1, 1)
              /\ Item(k) = Record(items + 1, 1, 1)
  <2>1. items + 1 \in Nat
    BY <1>1, TypeFacts
  <2>2. k.todo = ItemRecords(items + 1, 1)
    BY <1>10
  <2>3. Len(k.todo) = 1 /\ DOMAIN k.todo = 1 .. 1 /\ k.todo[1] = Record(items + 1, 1, 1)
    <3>1. \A id, count \in Nat :
            /\ Len(ItemRecords(id, count)) = count /\ DOMAIN ItemRecords(id, count) = 1 .. count
            /\ \A i \in 1 .. count : ItemRecords(id, count)[i] = Record(id, i, count)
      BY ItemRecordsAre
    <3>2. /\ Len(ItemRecords(items + 1, 1)) = 1 /\ DOMAIN ItemRecords(items + 1, 1) = 1 .. 1
          /\ \A i \in 1 .. 1 : ItemRecords(items + 1, 1)[i] = Record(items + 1, i, 1)
      BY <2>1, <3>1
    <3>3. 1 \in 1 .. 1
      OBVIOUS
    <3> QED BY <2>2, <3>2, <3>3
  <2>4. DOMAIN k.todo = {1} /\ k.todo # <<>>
    BY <2>3
  <2> QED BY <2>3, <2>4 DEF Item
<1>11. PushesFit'
  <2>0. items \in Nat /\ items' \in Nat /\ items <= items'
    BY <1>1, TypeFacts
  <2>1. ASSUME NEW d \in Caller PROVE PushFits(call[d])'
    <3>1. CASE d # c
      <4> SUFFICES ASSUME Pushing(call[d]) PROVE PushFits(call[d])'
        BY <1>2, <3>1 DEF PushFits, Pushing
      <4>1. PushFits(call[d]) /\ call'[d] = call[d] /\ call[d] \in Calls
              /\ call[d].stream \in Streams
        BY <1>1, <1>2, <3>1, TypeFacts, CallFacts DEF PushesFit
      <4>2. Item(call[d]).id \in Nat /\ 0 < Item(call[d]).id /\ Item(call[d]).id <= items
        BY <4>1, ItemIs DEF PushFits
      <4>3. Item(call[d]).id <= items'
        BY <2>0, <4>2
      <4>4. \A i \in DOMAIN redis'.list[call[d].stream] :
              redis'.list[call[d].stream][i].id # Item(call[d]).id
        <5>1. redis'.list[call[d].stream] = <<First>>
          BY <4>1
        <5>2. \A i \in DOMAIN <<First>> : <<First>>[i].id = 0
          BY RecordIs
        <5> QED BY <4>2, <5>1, <5>2
      <4>5. ~Has(call[d])'
        BY <1>7, <3>1, <4>1 DEF Has
      <4>6. Item(call[d])' = Item(call[d])
        BY <4>1 DEF Item
      <4> QED BY <4>1, <4>3, <4>4, <4>5, <4>6 DEF PushFits
    <3>2. CASE d = c
      <4> SUFFICES ASSUME Pushing(k) PROVE PushFits(call[c])'
        BY <1>2, <3>2 DEF PushFits, Pushing
      <4>1. k.stream \in Streams /\ redis'.list[k.stream] = <<First>>
        BY CallFacts
      <4>2. \A i \in DOMAIN <<First>> : <<First>>[i].id = 0
        BY RecordIs
      <4>3. Item(k).id = items + 1 /\ Item(k).of = 1 /\ items' = items + 1
        BY <1>10 DEF Record
      <4>4. \A i \in DOMAIN redis'.list[k.stream] : redis'.list[k.stream][i].id # Item(k).id
        BY <2>0, <4>1, <4>2, <4>3
      <4>5. Numbers(redis'.list[k.stream], Item(k).id) = {}
        BY <4>4 DEF Numbers
      <4>6. 1 .. Item(k).of - Len(k.todo) = {}
        BY <1>10, <4>3
      <4>7. \A i \in DOMAIN k.todo : k.todo[i] = Record(Item(k).id, Item(k).of - Len(k.todo) + i,
                                                        Item(k).of)
        <5>0. Len(k.todo) = 1
          BY <1>10
        <5>1. Item(k).of - Len(k.todo) + 1 = 1
          BY <4>3, <5>0
        <5>2. k.todo[1] = Record(Item(k).id, Item(k).of - Len(k.todo) + 1, Item(k).of)
          BY <1>10, <4>3, <5>1
        <5> QED BY <1>10, <5>2
      <4>8. Item(k)' = Item(k) /\ call'[c] = k
        BY <1>2 DEF Item
      <4>9. 0 < Item(k).id /\ Item(k).id <= items' /\ Len(k.todo) <= Item(k).of /\ k.todo # <<>>
        <5>1. Len(k.todo) = 1 /\ k.todo # <<>>
          BY <1>10
        <5>2. 0 < items + 1 /\ items + 1 <= items + 1
          BY <2>0
        <5> QED BY <4>3, <5>1, <5>2
      <4> QED BY <4>4, <4>5, <4>6, <4>7, <4>8, <4>9 DEF PushFits
    <3> QED BY <3>1, <3>2
  <2>2. ASSUME NEW d \in Caller, NEW e \in Caller, d # e PROVE PushesApart(call[d], call[e])'
    <3>1. PushesApart(call[d], call[e]) /\ PushFits(call[d]) /\ PushFits(call[e])
      BY <1>1, <2>2 DEF PushesFit
    <3>2. /\ Pushing(call[d]) => Item(call[d]).id \in Nat /\ Item(call[d]).id <= items
          /\ Pushing(call[e]) => Item(call[e]).id \in Nat /\ Item(call[e]).id <= items
      BY <1>1, <3>1, TypeFacts, ItemIs DEF PushFits
    <3>3. Pushing(k) => Item(k).id = items + 1
      BY <1>10 DEF Record
    <3>4. /\ call'[d] = IF d = c THEN k ELSE call[d]
          /\ call'[e] = IF e = c THEN k ELSE call[e]
      BY <1>2
    <3> QED BY <2>0, <2>2, <3>1, <3>2, <3>3, <3>4 DEF PushesApart, Pushing, Item
  <2> QED BY <2>1, <2>2 DEF PushesFit
<1>12. RecordsFit'
  <2>1. \A i \in DOMAIN <<First>> : <<First>>[i].id = 0 /\ <<First>>[i] = First
    BY RecordIs
  <2>2. items' \in Nat
    BY <1>1, TypeFacts
  <2> QED BY <2>1, <2>2 DEF RecordsFit, Agree
<1>13. ReadsFit'
  <2> SUFFICES ASSUME NEW d \in Caller PROVE ReadFits(call[d])'
    BY DEF ReadsFit
  <2>1. CASE d = c
    BY <1>2, <2>1 DEF ReadFits
  <2>2. CASE d # c
    BY <1>2, <1>7, <2>2 DEF ReadFits, Has
  <2> QED BY <2>1, <2>2
<1>14. PromisesFit'
  <2> SUFFICES ASSUME NEW s \in Streams
               PROVE  acked'[s] \subseteq Done(redis'.list[s])
                        /\ Starts(longest'[s], Complete(redis'.list[s]))
    BY DEF PromisesFit
  <2>1. acked'[s] = {} /\ longest'[s] = <<>>
    BY DEF Forget
  <2>2. Complete(redis'.list[s]) \in Seq(Nat)
    BY RecordIs, CompleteIs
  <2> QED BY <2>1, <2>2, StartsSelf
<1> QED BY <1>3, <1>5, <1>6, <1>8, <1>9, <1>11, <1>12, <1>13, <1>14 DEF IInv

(* What is left of an item behind the push of its first record.            *)
LEMMA TodoIs ==
  ASSUME NEW k \in Calls, PushFits(k), Pushing(k), Types
  PROVE  /\ k.todo # <<>> /\ Item(k) \in Records /\ Len(k.todo) \in Nat /\ Len(k.todo) >= 1
         /\ Item(k).n = Item(k).of - Len(k.todo) + 1 /\ Item(k).of \in Nat /\ Item(k).id \in Nat
         /\ Len(k.todo) <= Item(k).of
         /\ Len(k.todo) # 1 =>
              /\ Tail(k.todo) \in Seq(Records) /\ Tail(k.todo) # <<>>
              /\ Len(Tail(k.todo)) = Len(k.todo) - 1
              /\ Tail(k.todo)[1].id = Item(k).id /\ Tail(k.todo)[1].of = Item(k).of
              /\ \A i \in DOMAIN Tail(k.todo) :
                   Tail(k.todo)[i] = Record(Item(k).id, Item(k).of - (Len(k.todo) - 1) + i,
                                            Item(k).of)
<1>1. /\ k.todo # <<>> /\ Len(k.todo) <= Item(k).of /\ k.todo \in Seq(Records)
      /\ \A i \in DOMAIN k.todo :
           k.todo[i] = Record(Item(k).id, Item(k).of - Len(k.todo) + i, Item(k).of)
  BY CallFacts DEF PushFits
<1>2. /\ Item(k) \in Records /\ Len(k.todo) \in Nat /\ Item(k).of \in Nat /\ Item(k).id \in Nat
      /\ 1 \in DOMAIN k.todo /\ DOMAIN k.todo = 1 .. Len(k.todo)
  BY <1>1, ItemIs
<1>3. Len(k.todo) >= 1
  BY <1>2
<1>4. Item(k).n = Item(k).of - Len(k.todo) + 1
  <2>1. Item(k) = Record(Item(k).id, Item(k).of - Len(k.todo) + 1, Item(k).of)
    BY <1>1, <1>2 DEF Item
  <2>2. Record(Item(k).id, Item(k).of - Len(k.todo) + 1,
               Item(k).of).n = Item(k).of - Len(k.todo) + 1
    BY DEF Record
  <2> QED BY <2>1, <2>2
<1>5. ASSUME Len(k.todo) # 1
      PROVE  /\ Tail(k.todo) \in Seq(Records) /\ Tail(k.todo) # <<>>
                  /\ Len(Tail(k.todo)) = Len(k.todo) - 1
             /\ Tail(k.todo)[1].id = Item(k).id /\ Tail(k.todo)[1].of = Item(k).of
             /\ \A i \in DOMAIN Tail(k.todo) :
                  Tail(k.todo)[i] = Record(Item(k).id, Item(k).of - (Len(k.todo) - 1) + i,
                                           Item(k).of)
  <2>1. /\ Tail(k.todo) \in Seq(Records) /\ Len(Tail(k.todo)) = Len(k.todo) - 1
        /\ \A i \in 1 .. Len(k.todo) - 1 : Tail(k.todo)[i] = k.todo[i + 1]
    BY <1>1, HeadTailProperties
  <2>2. DOMAIN Tail(k.todo) = 1 .. Len(k.todo) - 1
    BY <2>1
  <2>3. ASSUME NEW i \in 1 .. Len(k.todo) - 1
        PROVE  Tail(k.todo)[i] = Record(Item(k).id, Item(k).of - (Len(k.todo) - 1) + i, Item(k).of)
    <3>1. i + 1 \in DOMAIN k.todo /\ Tail(k.todo)[i] = k.todo[i + 1]
      BY <1>2, <2>1
    <3>2. Item(k).of - Len(k.todo) + (i + 1) = Item(k).of - (Len(k.todo) - 1) + i
      BY <1>2
    <3> QED BY <1>1, <3>1, <3>2
  <2>4. 1 \in 1 .. Len(k.todo) - 1
    <3>1. \A n \in Nat : n >= 1 /\ n # 1 => 1 \in 1 .. n - 1
      OBVIOUS
    <3> QED BY <1>2, <1>3, <1>5, <3>1
  <2>5. Tail(k.todo)[1].id = Item(k).id /\ Tail(k.todo)[1].of = Item(k).of
    <3>1. Tail(k.todo)[1] = Record(Item(k).id, Item(k).of - (Len(k.todo) - 1) + 1, Item(k).of)
      BY <2>3, <2>4
    <3>2. /\ Record(Item(k).id, Item(k).of - (Len(k.todo) - 1) + 1, Item(k).of).id = Item(k).id
          /\ Record(Item(k).id, Item(k).of - (Len(k.todo) - 1) + 1, Item(k).of).of = Item(k).of
      BY DEF Record
    <3> QED BY <3>1, <3>2
  <2>6. Tail(k.todo) # <<>>
    <3>1. DOMAIN Tail(k.todo) # {}
      BY <2>2, <2>4
    <3> QED BY <3>1
  <2> QED BY <2>1, <2>2, <2>3, <2>5, <2>6
<1> QED BY <1>1, <1>2, <1>3, <1>4, <1>5

(* A push: the list of the call's stream grows by its record, if there is  *)
(* one.                                                                    *)
Landed(c) == Len(redis'.list[call[c].stream]) > Len(redis.list[call[c].stream])

(* So does one that pushes a record of its call's own item, once or twice. *)
LEMMA PushKeep ==
  ASSUME IInv, NEW c \in Caller, Pushing(call[c]), NEW k \in Calls, call' = [call EXCEPT ![c] = k],
         k.of \in {0, call[c].of}, k.at \in {"idle", "undo", "delete", "push"},
         Pushing(k) =>
           Landed(c) /\ Len(call[c].todo) # 1 /\ k = [call[c] EXCEPT !.todo = Tail(call[c].todo)],
         redis' \in Redis, redis'.seq = redis.seq,
         Repeats(redis.list[call[c].stream], redis'.list[call[c].stream], Head(call[c].todo)),
         \A s \in Streams : s # call[c].stream => redis'.list[s] = redis.list[s]
           /\ redis'.size[s] = redis.size[s],
         redis.list[call[c].stream] = <<>> => redis'.list[call[c].stream] = <<>>,
         redis.list[call[c].stream] # <<>> =>
           redis'.size[call[c].stream] - redis.size[call[c].stream]
             = Len(redis'.list[call[c].stream]) - Len(redis.list[call[c].stream]),
         acked' = acked \/ (/\ Landed(c) /\ Len(call[c].todo) = 1 /\ call[c].of = content
                            /\ acked' = [acked EXCEPT ![call[c].stream] =
                                           @ \union {Head(call[c].todo).id}]),
         UNCHANGED <<gens, items, content, given, longest>>
  PROVE  IInv'
<1> DEFINE st == call[c].stream
           h == Item(call[c])
           old == redis.list[st]
           new == redis'.list[st]
<1>1. Types /\ StampsFit /\ PushesFit /\ RecordsFit /\ ListsLiveTogether /\ SizesAreExact
        /\ ReadsFit /\ PromisesFit
  BY DEF IInv
<1>2. /\ call[c] \in Calls /\ st \in Streams /\ old \in Seq(Records) /\ new \in Seq(Records)
      /\ PushFits(call[c])
      /\ \A s \in Streams : redis.list[s] \in Seq(Records) /\ redis'.list[s] \in Seq(Records)
  BY <1>1, TypeFacts, CallFacts DEF PushesFit, Redis
<1>3. /\ call[c].todo # <<>> /\ h \in Records /\ h = Head(call[c].todo)
      /\ h.id \in Nat /\ h.of \in Nat
      /\ Len(call[c].todo) \in Nat /\ Len(call[c].todo) >= 1 /\ h.n = h.of - Len(call[c].todo) + 1
      /\ Len(call[c].todo) <= h.of
  BY <1>1, <1>2, TodoIs, ItemIs
<1>4. call'[c] = k /\ call' \in [Caller -> Calls] /\ \A d \in Caller : d # c => call'[d] = call[d]
  BY <1>1, TypeFacts
<1>5. Repeats(old, new, h) /\ Starts(old, new)
  BY <1>3 DEF Repeats
<1>6. \A s \in Streams : Starts(redis.list[s], redis'.list[s])
  BY <1>2, <1>5, StartsSelf
<1>7. \A s \in Streams : redis.list[s] = <<>> <=> redis'.list[s] = <<>>
  <2> SUFFICES ASSUME NEW s \in Streams, redis.list[s] # <<>>, redis'.list[s] = <<>> PROVE FALSE
    OBVIOUS
  <2>1. Len(redis.list[s]) <= Len(redis'.list[s])
    BY <1>6 DEF Starts
  <2> QED BY <1>2, <2>1
<1>8. Types'
  <2>1. acked' \in [Streams -> SUBSET Nat]
    <3>1. acked \in [Streams -> SUBSET Nat]
      BY <1>1, TypeFacts
    <3>2. acked[st] \union {h.id} \in SUBSET Nat
      BY <1>2, <1>3, <3>1
    <3>3. acked' = acked \/ acked' = [acked EXCEPT ![st] = acked[st] \union {h.id}]
      BY <1>3
    <3> HIDE DEF st, h
    <3> QED BY <1>2, <3>1, <3>2, <3>3
  <2> QED BY <1>1, <1>4, <2>1 DEF Types
<1>9. Content(redis)' <=> Content(redis)
  BY <1>7, ContentIs
<1>10. ListsLiveTogether'
  <2> SUFFICES ASSUME NEW s \in Streams, redis'.list[s] # <<>>
               PROVE  Head(redis'.list[s]) = First /\ Content(redis)'
    BY DEF ListsLiveTogether, Exists, Streams
  <2>1. redis.list[s] # <<>> /\ Head(redis.list[s]) = First /\ Content(redis)
    BY <1>1, <1>7 DEF ListsLiveTogether, Exists, Streams
  <2>2. 1 \in 1 .. Len(redis.list[s])
    BY <1>2, <2>1
  <2>3. redis'.list[s][1] = redis.list[s][1]
    BY <1>6, <2>2 DEF Starts
  <2>4. Head(redis'.list[s]) = redis'.list[s][1] /\ Head(redis.list[s]) = redis.list[s][1]
    BY <1>2, <2>1
  <2> QED BY <1>9, <2>1, <2>3, <2>4
<1>11. SizesAreExact'
  <2> SUFFICES ASSUME Content(redis)
               PROVE  /\ redis'.size["conv"] = Len(redis'.list["conv"])
                      /\ redis'.size["replay"] + 1 = Len(redis'.list["replay"])
    BY <1>9 DEF SizesAreExact
  <2>1. redis.size["conv"] = Len(redis.list["conv"])
          /\ redis.size["replay"] + 1 = Len(redis.list["replay"])
    BY <1>1 DEF SizesAreExact
  <2>2. redis.size \in [Streams -> Nat] /\ redis'.size \in [Streams -> Nat]
    BY <1>1, TypeFacts DEF Redis
  <2>3. \A s \in Streams : /\ redis.size[s] \in Nat /\ redis'.size[s] \in Nat
                           /\ Len(redis.list[s]) \in Nat /\ Len(redis'.list[s]) \in Nat
    BY <1>2, <2>2, SMTT(20)
  <2>4. \A s \in Streams :
          redis'.size[s] - redis.size[s] = Len(redis'.list[s]) - Len(redis.list[s])
    <3> SUFFICES ASSUME NEW s \in Streams
                 PROVE  redis'.size[s] - redis.size[s] = Len(redis'.list[s]) - Len(redis.list[s])
      OBVIOUS
    <3>1. CASE s = st
      <4>1. redis.list[call[c].stream] # <<>>
        BY <1>2, ContentIs
      <4> QED BY <3>1, <4>1
    <3>2. CASE s # st
      <4>1. redis'.size[s] = redis.size[s] /\ redis'.list[s] = redis.list[s]
        BY <3>2
      <4> QED BY <2>3, <4>1
    <3> QED BY <3>1, <3>2
  <2>5. "conv" \in Streams /\ "replay" \in Streams
    BY DEF Streams
  <2>6. redis'.size["conv"] = Len(redis'.list["conv"])
    <3>1. PICK a \in Nat, b \in Nat, m \in Nat, n \in Nat :
            /\ a = redis'.size["conv"] /\ b = redis.size["conv"]
            /\ m = Len(redis'.list["conv"]) /\ n = Len(redis.list["conv"])
      BY <2>3, <2>5
    <3>2. a - b = m - n /\ b = n
      BY <2>1, <2>4, <2>5, <3>1
    <3>3. a = m
      BY <3>2
    <3> QED BY <3>1, <3>3
  <2>7. redis'.size["replay"] + 1 = Len(redis'.list["replay"])
    <3>1. PICK a \in Nat, b \in Nat, m \in Nat, n \in Nat :
            /\ a = redis'.size["replay"] /\ b = redis.size["replay"]
            /\ m = Len(redis'.list["replay"]) /\ n = Len(redis.list["replay"])
      BY <2>3, <2>5
    <3>2. a - b = m - n /\ b + 1 = n
      BY <2>1, <2>4, <2>5, <3>1
    <3>3. a + 1 = m
      BY <3>2
    <3> QED BY <3>1, <3>3
  <2> QED BY <2>6, <2>7
<1>12. ContentFits'
  BY <1>9 DEF IInv, ContentFits
<1> HIDE DEF st, old, new, h
<1>13. StampsFit'
  <2>0. \A d \in Caller : call[d].of \in Nat /\ call[d].saw \in Nat /\ ~Filling(k)
    BY <1>1, TypeFacts, CallFacts DEF Filling
  <2>1. ASSUME NEW d \in Caller PROVE StampFits(call[d])'
    <3>1. StampFits(call[d]) /\ StampFits(call[c])
      BY <1>1 DEF StampsFit
    <3>2. CASE d = c
      <4>1. k.of <= gens /\ gens' = gens
        <5>1. gens \in Nat
          BY <1>1, TypeFacts
        <5> QED BY <2>0, <3>1, <5>1 DEF StampFits
      <4> QED BY <1>4, <2>0, <3>2, <4>1 DEF StampFits, Filling
    <3>3. CASE d # c
      BY <1>4, <3>1, <3>3 DEF StampFits, Filling
    <3> QED BY <3>2, <3>3
  <2>2. ASSUME NEW d \in Caller, NEW e \in Caller, d # e PROVE StampsApart(call[d], call[e])'
    <3>1. StampsApart(call[d], call[e]) /\ StampFits(call[d])
      BY <1>1, <2>2 DEF StampsFit
    <3>2. CASE d = c
      BY <1>4, <2>0, <3>2 DEF StampsApart, Filling
    <3>3. CASE d # c /\ e = c
      <4>1. call'[d] = call[d] /\ call'[e] = k
        BY <1>4, <3>3
      <4>2. Filling(call[d]) => call[d].saw # call[c].of /\ 0 < call[d].saw
        BY <3>1, <3>3 DEF StampsApart, StampFits
      <4>3. Filling(call[d]) => call[d].saw # k.of
        BY <2>0, <4>2
      <4> QED BY <2>0, <4>1, <4>3 DEF StampsApart, Filling
    <3>4. CASE d # c /\ e # c
      <4>1. call'[d] = call[d] /\ call'[e] = call[e]
        BY <1>4, <3>4
      <4> QED BY <3>1, <4>1 DEF StampsApart, Filling
    <3> QED BY <3>2, <3>3, <3>4
  <2> QED BY <2>1, <2>2 DEF StampsFit
<1>14. ASSUME Pushing(k)
       PROVE  /\ k.todo = Tail(call[c].todo) /\ k.stream = st /\ k.of = call[c].of /\ Landed(c)
              /\ Len(call[c].todo) # 1 /\ k.todo # <<>> /\ Len(k.todo) = Len(call[c].todo) - 1
              /\ Item(k).id = h.id /\ Item(k).of = h.of /\ Item(k) = k.todo[1]
              /\ \A i \in DOMAIN k.todo : k.todo[i] = Record(h.id, h.of - Len(k.todo) + i, h.of)
  <2>1. k = [call[c] EXCEPT !.todo = Tail(call[c].todo)] /\ Len(call[c].todo) # 1 /\ Landed(c)
    BY <1>14
  <2>2. k.todo = Tail(call[c].todo) /\ k.stream = call[c].stream /\ k.of = call[c].of
    BY <1>2, <2>1 DEF Calls
  <2>3. /\ Tail(call[c].todo) # <<>> /\ Len(Tail(call[c].todo)) = Len(call[c].todo) - 1
        /\ Tail(call[c].todo)[1].id = h.id /\ Tail(call[c].todo)[1].of = h.of
        /\ \A i \in DOMAIN Tail(call[c].todo) :
             Tail(call[c].todo)[i] = Record(h.id, h.of - (Len(call[c].todo) - 1) + i, h.of)
    BY <1>1, <1>2, <2>1, TodoIs DEF h
  <2> QED BY <2>1, <2>2, <2>3 DEF Item, st
<1>15. PushesFit'
  <2>1. ASSUME NEW d \in Caller PROVE PushFits(call[d])'
    <3>1. CASE d # c
      <4> SUFFICES ASSUME Pushing(call[d]) PROVE PushFits(call[d])'
        BY <1>4, <3>1 DEF PushFits, Pushing
      <4>1. PushFits(call[d]) /\ call'[d] = call[d] /\ call[d] \in Calls
              /\ call[d].stream \in Streams
        BY <1>1, <1>4, <3>1, TypeFacts, CallFacts DEF PushesFit
      <4>2. Item(call[d]).id # h.id /\ Item(call[d]).id \in Nat /\ Item(call[d])' = Item(call[d])
        BY <1>1, <3>1, <4>1, ItemIs DEF PushesFit, PushesApart, h, PushFits, Item
      <4>3. CASE call[d].stream # st
        <5>1. redis'.list[call[d].stream] = redis.list[call[d].stream]
          BY <4>1, <4>3 DEF st
        <5>2. redis'.list[call'[d].stream] = redis.list[call[d].stream]
          BY <4>1, <5>1
        <5>3. Has(call[d])' = Has(call[d]) /\ Pushing(call[d])' = Pushing(call[d])
          BY <4>1 DEF Has, Pushing
        <5> QED BY <4>1, <4>2, <5>2, <5>3, ZenonT(60) DEF PushFits
      <4>4. CASE call[d].stream = st
        <5>1. Numbers(new, Item(call[d]).id) = Numbers(old, Item(call[d]).id)
          BY <1>2, <1>3, <1>5, <4>2, NumbersGrow
        <5>2. ASSUME NEW i \in DOMAIN new,
                     new[i].id = Item(call[d]).id PROVE new[i].of = Item(call[d]).of
          <6>0. new[i] = h \/ (i \in DOMAIN old /\ new[i] = old[i])
            BY <1>2, <1>5, RepeatsAt
          <6>1. i \in DOMAIN old /\ new[i] = old[i]
            BY <4>2, <5>2, <6>0
          <6> QED BY <4>1, <4>4, <5>2, <6>1, SMTT(20) DEF PushFits, old
        <5>3. PICK l : l = call[d] /\ call'[d] = l
          BY <4>1
        <5>4. Item(l)' = Item(l) /\ Has(l)' = Has(l)
          BY DEF Item, Has
        <5>5. redis'.list[l.stream] = new /\ redis.list[l.stream] = old /\ items' = items
          BY <4>4, <5>3 DEF new, old
        <5>6. \A i \in DOMAIN redis'.list[l.stream] :
                redis'.list[l.stream][i].id = Item(l).id => redis'.list[l.stream][i].of = Item(l).of
          BY <5>2, <5>3, <5>5
        <5>7. Has(l) => Numbers(redis'.list[l.stream], Item(l).id) = 1 .. Item(l).of - Len(l.todo)
          BY <4>1, <5>1, <5>3, <5>5 DEF PushFits
        <5>8. /\ l.todo # <<>> /\ Len(l.todo) <= Item(l).of /\ 0 < Item(l).id /\ Item(l).id <= items'
              /\ \A i \in DOMAIN l.todo :
                   l.todo[i] = Record(Item(l).id, Item(l).of - Len(l.todo) + i, Item(l).of)
          BY <4>1, <5>3 DEF PushFits
        <5> QED BY <5>3, <5>4, <5>6, <5>7, <5>8, Zenon DEF PushFits
      <4> QED BY <4>3, <4>4
    <3>2. CASE d = c
      <4> SUFFICES ASSUME Pushing(k) PROVE PushFits(call[c])'
        BY <1>4, <3>2 DEF PushFits, Pushing
      <4>1. /\ k.stream = st /\ k.of = call[c].of
            /\ k.todo # <<>> /\ Len(k.todo) = Len(call[c].todo) - 1
            /\ Item(k).id = h.id /\ Item(k).of = h.of /\ Len(new) > Len(old)
            /\ \A i \in DOMAIN k.todo : k.todo[i] = Record(h.id, h.of - Len(k.todo) + i, h.of)
        BY <1>14 DEF Landed, new, old, st
      <4>2. /\ 0 < h.id /\ h.id <= items
            /\ \A i \in DOMAIN old : old[i].id = h.id => old[i].of = h.of
            /\ Has(call[c]) => Numbers(old, h.id) = 1 .. h.of - Len(call[c].todo)
        BY <1>2 DEF PushFits, old, st, h
      <4>3. ASSUME NEW i \in DOMAIN new, new[i].id = h.id PROVE new[i].of = h.of
        <5>1. new[i] = h \/ (i \in DOMAIN old /\ new[i] = old[i])
          BY <1>2, <1>5, RepeatsAt
        <5> QED BY <4>2, <4>3, <5>1
      <4>4. ASSUME Has(k) PROVE Numbers(new, h.id) = 1 .. h.of - Len(k.todo)
        <5>1. Numbers(old, h.id) = 1 .. h.of - Len(call[c].todo)
          BY <4>1, <4>2, <4>4 DEF Has
        <5>2. Numbers(new, h.id) = Numbers(old, h.id) \union {h.n}
          BY <1>2, <1>3, <1>5, <4>1, NumbersGrow
        <5>3. /\ h.n = h.of - Len(call[c].todo) + 1
              /\ h.of - Len(k.todo) = h.of - Len(call[c].todo) + 1
              /\ h.of - Len(call[c].todo) \in Nat
          <6>1. PICK a \in Nat, b \in Nat : a = h.of /\ b = Len(call[c].todo) /\ b <= a
            BY <1>3
          <6>2. Len(k.todo) = b - 1 /\ h.n = a - b + 1
            BY <1>3, <4>1, <6>1
          <6> QED BY <6>1, <6>2
        <5> QED BY <5>1, <5>2, <5>3
      <4>5. Len(k.todo) <= h.of
        BY <1>3, <4>1
      <4>6. call'[c] = k /\ Item(k)' = Item(k) /\ Has(k)' = Has(k)
        BY <1>4 DEF Item, Has
      <4>7. redis'.list[k.stream] = new /\ items' = items
        BY <4>1 DEF new
      <4>8. \A i \in DOMAIN redis'.list[k.stream] :
              redis'.list[k.stream][i].id = Item(k).id => redis'.list[k.stream][i].of = Item(k).of
        BY <4>1, <4>3, <4>7
      <4>9. Has(k) => Numbers(redis'.list[k.stream], Item(k).id) = 1 .. Item(k).of - Len(k.todo)
        BY <4>1, <4>4, <4>7
      <4>10. /\ k.todo # <<>> /\ Len(k.todo) <= Item(k).of /\ 0 < Item(k).id /\ Item(k).id <= items'
             /\ \A i \in DOMAIN k.todo :
                  k.todo[i] = Record(Item(k).id, Item(k).of - Len(k.todo) + i, Item(k).of)
        BY <4>1, <4>2, <4>5, <4>7
      <4> QED BY <4>6, <4>8, <4>9, <4>10, Zenon DEF PushFits
    <3> QED BY <3>1, <3>2
  <2>2. ASSUME NEW d \in Caller, NEW e \in Caller, d # e PROVE PushesApart(call[d], call[e])'
    <3>1. PushesApart(call[d], call[e])
      BY <1>1, <2>2 DEF PushesFit
    <3>2. Pushing(k) => Item(k).id = Item(call[c]).id
      BY <1>14 DEF h
    <3>3. /\ call'[d] = IF d = c THEN k ELSE call[d]
          /\ call'[e] = IF e = c THEN k ELSE call[e]
      BY <1>4
    <3> QED BY <2>2, <3>1, <3>2, <3>3 DEF PushesApart, Pushing, Item
  <2> QED BY <2>1, <2>2 DEF PushesFit
<1>16. RecordsFit'
  <2> SUFFICES ASSUME NEW s \in Streams
               PROVE  /\ \A i \in DOMAIN redis'.list[s] : redis'.list[s][i].id <= items
                      /\ Agree(redis'.list[s])
    BY DEF RecordsFit
  <2>1. CASE s # st
    BY <1>1, <2>1 DEF RecordsFit, st
  <2>2. CASE s = st
    <3>1. /\ h.id <= items /\ \A i \in DOMAIN old : old[i].id = h.id => old[i].of = h.of
      BY <1>2 DEF PushFits, old, st, h
    <3>2. Agree(old) /\ \A i \in DOMAIN old : old[i].id <= items
      BY <1>1, <1>2 DEF RecordsFit, old
    <3>3. Agree(new)
      BY <1>2, <1>3, <1>5, <3>1, <3>2, AgreeGrows
    <3>4. ASSUME NEW i \in DOMAIN new PROVE new[i].id <= items
      <4>1. new[i] = h \/ (i \in DOMAIN old /\ new[i] = old[i])
        BY <1>2, <1>5, RepeatsAt
      <4> QED BY <3>1, <3>2, <4>1
    <3> QED BY <2>2, <3>3, <3>4 DEF new
  <2> QED BY <2>1, <2>2
<1>17. ReadsFit'
  <2> SUFFICES ASSUME NEW d \in Caller, Has(call'[d]), d # c PROVE ReadFits(call[d])'
    BY <1>4 DEF ReadsFit, ReadFits, Has
  <2>1. call'[d] = call[d] /\ ReadFits(call[d]) /\ Has(call[d])
    BY <1>1, <1>4 DEF ReadsFit, Has
  <2>2. call[d] \in Calls /\ call[d].stream \in Streams /\ call[d].got \in Seq(Records)
    BY <1>1, TypeFacts, CallFacts
  <2>3. Done(redis.list[call[d].stream]) \subseteq Done(redis'.list[call[d].stream])
    BY <1>2, <1>6, <2>2, DoneGrows
  <2>4. Starts(call[d].got, redis.list[call[d].stream])
          => Starts(call[d].got, redis'.list[call[d].stream])
    BY <1>2, <1>6, <2>2, StartsTransitive
  <2> QED BY <2>1, <2>3, <2>4 DEF ReadFits
<1>18. PromisesFit'
  <2> SUFFICES ASSUME content # 0, NEW s \in Streams
               PROVE  acked'[s] \subseteq Done(redis'.list[s])
                        /\ Starts(longest[s], Complete(redis'.list[s]))
    BY DEF PromisesFit
  <2>1. acked[s] \subseteq Done(redis.list[s]) /\ Starts(longest[s], Complete(redis.list[s]))
    BY <1>1 DEF PromisesFit
  <2>2. Done(redis.list[s]) \subseteq Done(redis'.list[s])
    BY <1>2, <1>6, DoneGrows
  <2>3. Starts(longest[s], Complete(redis'.list[s]))
    <3>1. Starts(Complete(redis.list[s]), Complete(redis'.list[s]))
      BY <1>2, <1>6, CompleteGrows
    <3>2. longest[s] \in Seq(Nat) /\ Complete(redis.list[s]) \in Seq(Nat)
            /\ Complete(redis'.list[s]) \in Seq(Nat)
      BY <1>1, <1>2, TypeFacts, CompleteIs
    <3> QED BY <2>1, <3>1, <3>2, StartsTransitive
  <2>4. acked'[s] = acked[s] \/ (s = st /\ acked'[s] = acked[s] \union {h.id} /\ Len(new) > Len(old)
                                  /\ Len(call[c].todo) = 1 /\ call[c].of = content)
    BY <1>1, <1>3, TypeFacts DEF Landed, st, new, old
  <2>5. ASSUME s = st, Len(new) > Len(old), Len(call[c].todo) = 1, call[c].of = content
        PROVE  h.id \in Done(new)
    <3>1. Numbers(old, h.id) = 1 .. h.of - 1
      BY <1>2, <2>5 DEF PushFits, Has, old, h, st
    <3>2. h.n = h.of /\ 0 < h.of
      BY <1>3, <2>5
    <3> QED BY <1>2, <1>3, <1>5, <2>5, <3>1, <3>2, LastCompletes
  <2> QED BY <2>1, <2>2, <2>3, <2>4, <2>5 DEF new
<1> QED BY <1>8, <1>10, <1>11, <1>12, <1>13, <1>15, <1>16, <1>17, <1>18 DEF IInv

(* A page is read.                                                         *)
LEMMA PageIs ==
  ASSUME NEW s \in Seq(Records), NEW t \in Seq(Records), NEW g,
         g = s \o SubSeq(t, Len(s) + 1,
                         IF Len(t) < Len(s) + PageSize THEN Len(t) ELSE Len(s) + PageSize)
  PROVE  /\ g \in Seq(Records)
         /\ Starts(s, t) => Starts(g, t) /\ (Len(t) < Len(s) + PageSize => g = t)
<1> DEFINE last == Len(t) < Len(s) + PageSize
<1>0. PageSize \in Nat /\ PageSize > 0
  BY BufferAssumption
<1>1. Len(s) \in Nat /\ Len(t) \in Nat
  OBVIOUS
<1> DEFINE m == IF last THEN Len(t) ELSE Len(s) + PageSize
           p == SubSeq(t, Len(s) + 1, m)
<1>2. m \in Nat /\ m <= Len(t)
  BY <1>0, <1>1
<1>3. g = s \o p
  OBVIOUS
<1> HIDE DEF m
<1>4. \A i \in Len(s) + 1 .. m : i \in 1 .. Len(t)
  BY <1>1, <1>2
<1>5. /\ p \in Seq(Records)
      /\ Len(p) = IF Len(s) + 1 <= m THEN m - (Len(s) + 1) + 1 ELSE 0
      /\ \A i \in 1 .. m - (Len(s) + 1) + 1 : p[i] = t[Len(s) + 1 + i - 1]
  <2>1. \A i \in Len(s) + 1 .. m : t[i] \in Records
    BY <1>4
  <2> QED BY <1>1, <1>2, <2>1, SubSeqProperties
<1> HIDE DEF p
<1>6. /\ g \in Seq(Records) /\ Len(g) = Len(s) + Len(p)
      /\ \A i \in 1 .. Len(g) : g[i] = IF i <= Len(s) THEN s[i] ELSE p[i - Len(s)]
  <2>1. /\ s \o p \in Seq(Records) /\ Len(s \o p) = Len(s) + Len(p)
        /\ \A i \in 1 .. Len(s) + Len(p) : (s \o p)[i] = IF i <= Len(s) THEN s[i] ELSE p[i - Len(s)]
    BY <1>5, ConcatProperties
  <2> QED BY <1>3, <2>1
<1>7. ASSUME Starts(s, t) PROVE Starts(g, t) /\ (last => g = t)
  <2>1. Len(s) <= Len(t) /\ \A i \in 1 .. Len(s) : s[i] = t[i]
    BY <1>7 DEF Starts
  <2>2. Len(s) <= m
    BY <1>0, <1>1, <2>1 DEF m
  <2>3. Len(p) = m - Len(s) /\ Len(g) = m
    BY <1>1, <1>2, <1>5, <1>6, <2>2
  <2>4. ASSUME NEW i \in 1 .. m PROVE g[i] = t[i]
    <3>1. CASE i <= Len(s)
      BY <1>6, <2>1, <2>3, <2>4, <3>1
    <3>2. CASE i > Len(s)
      <4>1. i - Len(s) \in 1 .. m - (Len(s) + 1) + 1
        BY <1>1, <1>2, <2>4, <3>2
      <4>2. p[i - Len(s)] = t[Len(s) + 1 + (i - Len(s)) - 1]
        BY <1>5, <4>1
      <4>3. Len(s) + 1 + (i - Len(s)) - 1 = i /\ ~(i <= Len(s))
        BY <1>1, <3>2
      <4>4. g[i] = p[i - Len(s)]
        BY <1>6, <2>3, <4>3
      <4> QED BY <4>2, <4>3, <4>4
    <3>3. i <= Len(s) \/ i > Len(s)
      BY <1>1, <1>2
    <3> QED BY <3>1, <3>2, <3>3
  <2>5. Starts(g, t)
    BY <1>2, <2>3, <2>4 DEF Starts
  <2>6. ASSUME last PROVE g = t
    <3>1. m = Len(t)
      BY <2>6 DEF m
    <3>2. Len(t) <= Len(g)
      <4>1. Len(g) = Len(t)
        BY <2>3, <3>1
      <4>2. \A n \in Nat : n <= n
        OBVIOUS
      <4>3. Len(t) <= Len(t)
        BY <1>1, <4>2
      <4> QED BY <4>1, <4>3
    <3> QED BY <1>6, <2>5, <3>2, StartsSame
  <2> QED BY <2>5, <2>6
<1> QED BY <1>6, <1>7

\* A page that is read is the list's, and the last of them makes an answer.
LEMMA ReadPageKeep == ASSUME IInv, NEW c \in Caller, ReadPage(c) PROVE IInv'
<1> DEFINE st == call[c].stream
           list == redis.list[st]
           last == Len(list) < Len(call[c].got) + PageSize
           got == call[c].got \o SubSeq(list, Len(call[c].got) + 1,
                                        IF last THEN Len(list) ELSE Len(call[c].got) + PageSize)
           k == [call[c] EXCEPT !.got = got, !.at = IF last THEN "answered" ELSE "page"]
<1>1. Types /\ PushesFit /\ StampsFit /\ ReadsFit /\ PromisesFit
  BY DEF IInv
<1>2. /\ call[c] \in Calls /\ st \in Streams /\ list \in Seq(Records)
           /\ call[c].got \in Seq(Records)
      /\ At(c, "page") /\ longest \in [Streams -> Seq(Nat)]
  BY <1>1, TypeFacts, CallFacts DEF ReadPage
<1>3. /\ call' = [call EXCEPT ![c] = k]
      /\ longest' = IF last /\ call[c].of = content /\ Len(Complete(got)) > Len(longest[st])
                    THEN [longest EXCEPT ![st] = Complete(got)] ELSE longest
      /\ UNCHANGED <<redis, gens, items, content, given, acked>>
  BY <1>1, TypeFacts DEF ReadPage
<1>4. got \in Seq(Records)
        /\ (Starts(call[c].got, list) => Starts(got, list) /\ (last => got = list))
  <2> HIDE DEF list
  <2> QED BY <1>2, PageIs
<1>5. last \in BOOLEAN
  OBVIOUS
<1> HIDE DEF got, last
<1>6. /\ k \in Calls /\ k.at = (IF last THEN "answered" ELSE "page") /\ k.got = got
      /\ k.of = call[c].of /\ k.owes = call[c].owes /\ k.stream = st
  BY <1>2, <1>4, <1>5 DEF Calls, Places
<1>7. ~Pushing(k) /\ ~Filling(k)
  BY <1>6 DEF Pushing, Filling
<1> HIDE DEF k
<1>8. call'[c] = k /\ call' \in [Caller -> Calls] /\ \A d \in Caller : d # c => call'[d] = call[d]
  BY <1>1, <1>3, <1>6, TypeFacts
<1>9. Complete(got) \in Seq(Nat) /\ Complete(list) \in Seq(Nat)
  BY <1>2, <1>4, CompleteIs
<1>10. Types'
  <2>1. longest' \in [Streams -> Seq(Nat)]
    BY <1>2, <1>3, <1>9
  <2> QED BY <1>1, <1>3, <1>8, <2>1 DEF Types
<1>11. ListsLiveTogether' /\ SizesAreExact' /\ ContentFits' /\ RecordsFit'
  <2>1. redis' = redis /\ content' = content /\ given' = given /\ gens' = gens /\ items' = items
    BY <1>3
  <2>2. ListsLiveTogether /\ SizesAreExact /\ ContentFits /\ RecordsFit
    BY DEF IInv
  <2> QED BY <2>1, <2>2 DEF ListsLiveTogether, SizesAreExact, ContentFits, RecordsFit
<1>12. StampsFit'
  <2>1. ASSUME NEW d \in Caller PROVE StampFits(call[d])'
    <3>1. StampFits(call[d])
      BY <1>1 DEF StampsFit
    <3>2. CASE d = c
      BY <1>3, <1>6, <1>7, <1>8, <3>1, <3>2 DEF StampFits
    <3>3. CASE d # c
      BY <1>3, <1>8, <3>1, <3>3 DEF StampFits, Filling
    <3> QED BY <3>2, <3>3
  <2>2. ASSUME NEW d \in Caller, NEW e \in Caller, d # e PROVE StampsApart(call[d], call[e])'
    <3>1. StampsApart(call[d], call[e])
      BY <1>1, <2>2 DEF StampsFit
    <3>2. CASE d = c
      BY <1>7, <1>8, <3>2 DEF StampsApart, Filling
    <3>3. CASE d # c /\ e = c
      BY <1>6, <1>7, <1>8, <3>1, <3>3 DEF StampsApart, Filling
    <3>4. CASE d # c /\ e # c
      <4>1. call'[d] = call[d] /\ call'[e] = call[e]
        BY <1>8, <3>4
      <4> QED BY <3>1, <4>1 DEF StampsApart, Filling
    <3> QED BY <3>2, <3>3, <3>4
  <2> QED BY <2>1, <2>2 DEF StampsFit
<1>13. PushesFit'
  <2>1. ASSUME NEW d \in Caller PROVE PushFits(call[d])'
    <3>1. PushFits(call[d])
      BY <1>1 DEF PushesFit
    <3>2. CASE d = c
      BY <1>7, <1>8, <3>2 DEF PushFits, Pushing
    <3>3. CASE d # c
      BY <1>3, <1>8, <3>1, <3>3 DEF PushFits, Pushing, Has, Item
    <3> QED BY <3>2, <3>3
  <2>2. ASSUME NEW d \in Caller, NEW e \in Caller, d # e PROVE PushesApart(call[d], call[e])'
    <3>1. PushesApart(call[d], call[e])
      BY <1>1, <2>2 DEF PushesFit
    <3> QED BY <1>7, <1>8, <3>1 DEF PushesApart, Pushing, Item
  <2> QED BY <2>1, <2>2 DEF PushesFit
<1>14. ASSUME content # 0
       PROVE  /\ Starts(longest'[st], Complete(list)) /\ Starts(longest[st], longest'[st])
              /\ call[c].of = content /\ last => got = list /\ longest'[st] = Complete(list)
              /\ \A s \in Streams : s # st => longest'[s] = longest[s]
              /\ longest[st] \in Seq(Nat) /\ longest'[st] \in Seq(Nat)
  <2>1. Starts(longest[st], Complete(list)) /\ longest[st] \in Seq(Nat)
    BY <1>1, <1>2, <1>14 DEF PromisesFit
  <2>2. ASSUME call[c].of = content PROVE Starts(call[c].got, list)
    BY <1>1, <1>2, <1>14, <2>2 DEF ReadsFit, ReadFits, Has, At
  <2>3. CASE last /\ call[c].of = content /\ Len(Complete(got)) > Len(longest[st])
    <3>1. got = list /\ longest' = [longest EXCEPT ![st] = Complete(list)]
      BY <1>3, <1>4, <2>2, <2>3
    <3>2. longest'[st] = Complete(list) /\ \A s \in Streams : s # st => longest'[s] = longest[s]
      BY <1>2, <3>1
    <3>3. Starts(Complete(list), Complete(list))
      BY <1>9, StartsSelf
    <3> QED BY <1>9, <2>1, <3>1, <3>2, <3>3
  <2>4. CASE ~(last /\ call[c].of = content /\ Len(Complete(got)) > Len(longest[st]))
    <3>1. longest' = longest
      BY <1>3, <2>4
    <3>2. Starts(longest[st], longest[st])
      BY <2>1, StartsSelf
    <3>3. ASSUME call[c].of = content, last PROVE got = list /\ longest[st] = Complete(list)
      <4>1. got = list
        BY <1>4, <2>2, <3>3
      <4>2. Len(Complete(list)) <= Len(longest[st])
        BY <1>9, <2>1, <2>4, <3>3, <4>1
      <4> QED BY <1>9, <2>1, <4>1, <4>2, StartsSame
    <3> QED BY <2>1, <3>1, <3>2, <3>3
  <2> QED BY <2>3, <2>4
<1>15. ReadsFit'
  <2> SUFFICES ASSUME NEW d \in Caller, Has(call'[d]) PROVE ReadFits(call[d])'
    BY <1>3 DEF ReadsFit, ReadFits, Has
  <2>0. content # 0 /\ content' = content /\ call'[d].of = content /\ redis' = redis
    BY <1>3 DEF Has
  <2>1. CASE d = c
    <3>1. Has(call[c]) /\ ReadFits(call[c])
      BY <1>1, <1>6, <1>8, <2>0, <2>1 DEF Has, ReadsFit
    <3>2. call[c].owes \subseteq Done(list) /\ Starts(call[c].got, list)
      BY <1>2, <3>1 DEF ReadFits, At
    <3>3. Starts(got, list)
      BY <1>4, <3>2
    <3>4. ASSUME last PROVE call[c].owes \subseteq Done(got) /\ Starts(Complete(got), longest'[st])
      <4>1. got = list /\ longest'[st] = Complete(list)
        BY <1>14, <2>0, <3>1, <3>4 DEF Has
      <4> QED BY <1>9, <3>2, <4>1, StartsSelf
    <3> QED BY <1>6, <1>8, <2>0, <2>1, <3>2, <3>3, <3>4 DEF ReadFits
  <2>2. CASE d # c
    <3>1. call'[d] = call[d] /\ Has(call[d]) /\ ReadFits(call[d]) /\ call[d] \in Calls
      BY <1>1, <1>8, <2>0, <2>2, TypeFacts DEF Has, ReadsFit
    <3>2. call[d].stream \in Streams /\ Complete(call[d].got) \in Seq(Nat)
      BY <3>1, CallFacts, CompleteIs
    <3>3. Starts(Complete(call[d].got), longest[call[d].stream])
            => Starts(Complete(call[d].got), longest'[call[d].stream])
      <4>1. CASE call[d].stream = st
        BY <1>14, <2>0, <3>2, <4>1, StartsTransitive
      <4>2. CASE call[d].stream # st
        BY <1>14, <2>0, <3>2, <4>2
      <4> QED BY <4>1, <4>2
    <3> QED BY <2>0, <3>1, <3>3 DEF ReadFits
  <2> QED BY <2>1, <2>2
<1>16. PromisesFit'
  <2> SUFFICES ASSUME content # 0, NEW s \in Streams
               PROVE  acked[s] \subseteq Done(redis.list[s])
                        /\ Starts(longest'[s], Complete(redis.list[s]))
    BY <1>3 DEF PromisesFit
  <2>1. acked[s] \subseteq Done(redis.list[s]) /\ Starts(longest[s], Complete(redis.list[s]))
    BY <1>1 DEF PromisesFit
  <2> QED BY <1>14, <2>1
<1> QED BY <1>10, <1>11, <1>12, <1>13, <1>15, <1>16 DEF IInv

(* With no key and no call there is nothing to break.                      *)
LEMMA InitIInv == Init => IInv
<1> SUFFICES ASSUME Init PROVE IInv
  OBVIOUS
<1>1. /\ redis = Gone /\ gens = 0 /\ items = 0 /\ call = [c \in Caller |-> Idle] /\ content = 0
           /\ given = 0
      /\ acked = [s \in Streams |-> {}] /\ longest = [s \in Streams |-> <<>>]
  BY DEF Init
<1>2. /\ redis \in Redis /\ \A s \in Streams : redis.list[s] = <<>>
      /\ \A c \in Caller : call[c] = Idle
  BY <1>1, GoneIs
<1>3. Types
  <2>1. call \in [Caller -> Calls]
    BY <1>1, IdleIs
  <2>2. acked \in [Streams -> SUBSET Nat] /\ longest \in [Streams -> Seq(Nat)]
    BY <1>1
  <2> QED BY <1>1, <1>2, <2>1, <2>2 DEF Types
<1>4. ~Content(redis)
  BY <1>2, ContentIs DEF Streams
<1>5. ListsLiveTogether /\ SizesAreExact /\ ContentFits
  BY <1>1, <1>2, <1>4 DEF ListsLiveTogether, SizesAreExact, ContentFits, Exists, Streams
<1>6. StampsFit /\ PushesFit
  BY <1>1, <1>2, IdleIs DEF StampsFit, StampFits, StampsApart, PushesFit, PushFits, PushesApart,
     Filling, Pushing
<1>7. RecordsFit
  <2>1. \A s \in Streams : DOMAIN redis.list[s] = {}
    BY <1>2
  <2> QED BY <2>1 DEF RecordsFit, Agree
<1>8. ReadsFit /\ PromisesFit
  BY <1>1 DEF ReadsFit, ReadFits, Has, PromisesFit
<1> QED BY <1>3, <1>5, <1>6, <1>7, <1>8 DEF IInv

\* What an answer is owed, repeats and begins with is all in the invariant.
LEMMA FaithfulFollows == IInv => ReadsAreFaithful
<1> SUFFICES ASSUME IInv, NEW c \in Caller, At(c, "answered"), call[c].of = content, content # 0
             PROVE  /\ IsInjective(Complete(call[c].got))
                         /\ call[c].owes \subseteq ToSet(Complete(call[c].got))
                    /\ IsPrefix(Complete(call[c].got), longest[call[c].stream])
  BY DEF ReadsAreFaithful
<1>1. Types /\ ReadFits(call[c]) /\ RecordsFit
  BY DEF IInv, ReadsFit
<1>2. /\ call[c].stream \in Streams /\ call[c].got \in Seq(Records)
      /\ redis.list[call[c].stream] \in Seq(Records) /\ longest[call[c].stream] \in Seq(Nat)
  BY <1>1, TypeFacts, CallFacts
<1>3. /\ Starts(call[c].got, redis.list[call[c].stream]) /\ call[c].owes \subseteq Done(call[c].got)
      /\ Starts(Complete(call[c].got), longest[call[c].stream])
  BY <1>1 DEF ReadFits, Has, At
<1>4. Agree(call[c].got)
  <2>1. Agree(redis.list[call[c].stream])
    BY <1>1, <1>2 DEF RecordsFit
  <2>2. \A i \in DOMAIN call[c].got : /\ i \in DOMAIN redis.list[call[c].stream]
                                      /\ call[c].got[i] = redis.list[call[c].stream][i]
    <3>1. PICK s, t : s = call[c].got /\ t = redis.list[call[c].stream]
      OBVIOUS
    <3>2. s \in Seq(Records) /\ t \in Seq(Records) /\ Len(s) <= Len(t)
            /\ \A i \in 1 .. Len(s) : s[i] = t[i]
      BY <1>2, <1>3, <3>1 DEF Starts
    <3>3. \A i \in DOMAIN s : i \in DOMAIN t /\ s[i] = t[i]
      BY <3>2
    <3> QED BY <3>1, <3>3
  <2> QED BY <2>1, <2>2 DEF Agree
<1>5. Complete(call[c].got) \in Seq(Nat)
  BY <1>2, CompleteIs
<1> QED BY <1>2, <1>3, <1>4, <1>5, CompleteIsInjective, CompleteHasDone, PrefixIs

------------------------------------------------------------------------------
(* Where a call goes to when it is over, or has nothing left but to delete. *)
Settles(c) == \E k : /\ Rests(c, k) /\ k.at \in {"idle", "undo", "delete", "claim", "bump"}
                     /\ call' = [call EXCEPT ![c] = k]

(* A call that settles goes where it may.                                  *)
LEMMA SettlesGoes ==
  ASSUME NEW c \in Caller, Settles(c)
  PROVE  Goes(c) /\ \E k : Rests(c, k) /\ call' = [call EXCEPT ![c] = k]
  BY DEF Settles, Goes, Rests, Entitled, ReadFits

(* A call that moves on stays a call.                                      *)
LEMMA SetIs ==
  ASSUME Types, NEW c \in Caller, NEW place \in Places
  PROVE  [call[c] EXCEPT !.at = place] \in Calls
           /\ [call EXCEPT ![c].at = place] = [call EXCEPT ![c] = [call[c] EXCEPT !.at = place]]
  BY TypeFacts DEF Calls

(* A call that returns has settled.                                        *)
LEMMA ReturnIs == ASSUME NEW c \in Caller, Return(c) PROVE Settles(c)
<1>1. Rests(c, Idle) /\ Idle.at = "idle"
  BY IdleIs DEF Rests, Pushing, Filling
<1> QED BY <1>1 DEF Settles, Return

(* So has one that goes on to delete what is left.                         *)
LEMMA DiscardIs == ASSUME Types, NEW c \in Caller, Discard(c) PROVE Settles(c)
<1> DEFINE k == [Idle EXCEPT !.op = call[c].op, !.at = "delete"]
<1>1. k \in Calls /\ k.at = "delete" /\ k.of = 0
  BY TypeFacts, CallFacts, IdleIs DEF Calls, Places, Idle
<1>2. call' = [call EXCEPT ![c] = k]
  BY DEF Discard
<1> HIDE DEF k
<1>3. Rests(c, k)
  BY <1>1 DEF Rests, Pushing, Filling
<1> QED BY <1>1, <1>2, <1>3 DEF Settles

(* So has one that fails, which may undo a creation.                       *)
LEMMA RaiseIs ==
  ASSUME Types, NEW c \in Caller, Raise(c)
  PROVE  /\ Settles(c)
         /\ \E k \in Calls : /\ call' = [call EXCEPT ![c] = k] /\ ~Filling(k)
                                  /\ k.at \in {"idle", "undo"}
                             /\ k.of \in {0, call[c].of}
<1>1. CASE Return(c)
  <2>1. Idle \in Calls /\ call' = [call EXCEPT ![c] = Idle] /\ ~Filling(Idle) /\ Idle.at = "idle"
          /\ Idle.of = 0
    BY <1>1, IdleIs DEF Return, Filling
  <2> QED BY <1>1, <2>1, ReturnIs
<1>2. CASE Goto(c, "undo")
  <2> DEFINE k == [call[c] EXCEPT !.at = "undo"]
  <2>1. k \in Calls /\ call' = [call EXCEPT ![c] = k]
    BY <1>2, SetIs DEF Goto, Places
  <2>2. k.at = "undo" /\ k.of = call[c].of
    BY TypeFacts DEF Calls
  <2> HIDE DEF k
  <2>3. Rests(c, k) /\ ~Filling(k)
    BY <2>1, <2>2 DEF Rests, Pushing, Filling
  <2> QED BY <2>1, <2>2, <2>3 DEF Settles
<1> QED BY <1>1, <1>2 DEF Raise

(* What a request leaves behind, for each of its outcomes.                 *)
LEMMA BehindIs ==
  ASSUME NEW how \in Outcomes, NEW once, NEW again
  PROVE  /\ how = "lost" => Behind(how, once, again) = redis
         /\ how = "twice" => Behind(how, once, again) = again
         /\ how \in {"heard", "unheard"} => Behind(how, once, again) = once
         /\ how \in {"heard", "lost", "unheard", "twice"}
  BY BufferAssumption DEF Behind, Outcomes

\* A call may go on wherever it is entitled to while the lists are left alone.
LEMMA GoesKeep ==
  ASSUME IInv, NEW c \in Caller, Goes(c), redis' \in Redis, redis'.list = redis.list,
         redis'.size = redis.size, redis'.seq = redis.seq, gens' \in Nat, gens <= gens',
         items' \in Nat, items <= items', UNCHANGED promises
  PROVE  IInv'
<1>1. Types
  BY DEF IInv
<1>2. redis.seq \in Nat /\ given \in Nat
  BY <1>1, TypeFacts
<1>3. given' = given /\ content' = content /\ acked' = acked /\ longest' = longest
  BY DEF promises
<1>4. redis'.seq >= redis.seq /\ given' \in Nat
  BY <1>2, <1>3
<1> QED BY <1>3, <1>4, CallKeep

(* Promises that are forgotten are none.                                   *)
LEMMA ForgetIs ==
  ASSUME Forget PROVE acked' \in [Streams -> SUBSET Nat] /\ longest' \in [Streams -> Seq(Nat)]
  BY DEF Forget

(* A call that goes on without a request keeps all.                        *)
LEMMA StayStep ==
  ASSUME IInv, NEW c \in Caller, Goes(c) \/ Settles(c), UNCHANGED <<redis, gens, items, promises>>
  PROVE  IInv'
<1>1. Goes(c) /\ Types
  BY SettlesGoes DEF IInv
<1> QED BY <1>1, CallKeep, TypeFacts DEF promises

(* One lemma for each operation.                                           *)
LEMMA BeginStep ==
  ASSUME IInv, NEW c \in Caller, NEW k \in Calls, Begin(c, k), k.at \in {"claim", "delete"},
         k.of = 0,
         UNCHANGED items
  PROVE  IInv'
<1>1. Rests(c, k)
  BY DEF Rests, Pushing, Filling
<1>2. Settles(c)
  BY <1>1 DEF Settles, Begin
<1> QED BY <1>2, SettlesGoes, CallKeep, TypeFacts DEF Begin, promises, IInv

(* A creation or a deletion begins.                                        *)
LEMMA BeginCreateStep == ASSUME IInv, NEW c \in Caller, BeginCreate(c) \/ BeginDelete(c) PROVE IInv'
<1>1. /\ [Idle EXCEPT !.op = "create", !.at = "claim"] \in Calls
      /\ [Idle EXCEPT !.op = "create", !.at = "claim"].at = "claim"
      /\ [Idle EXCEPT !.op = "create", !.at = "claim"].of = 0
      /\ [Idle EXCEPT !.op = "delete", !.at = "delete"] \in Calls
      /\ [Idle EXCEPT !.op = "delete", !.at = "delete"].at = "delete"
      /\ [Idle EXCEPT !.op = "delete", !.at = "delete"].of = 0
  BY IdleIs DEF Idle, Calls, Places, Ops
<1> QED BY <1>1, BeginStep DEF BeginCreate, BeginDelete

(* A use of the content begins, and is owed what was acknowledged.         *)
LEMMA BeginUseStep ==
  ASSUME IInv, NEW c \in Caller, NEW op \in Ops, NEW s \in Streams, BeginUse(c, op, s)
  PROVE  IInv'
<1> DEFINE k == [Idle EXCEPT !.op = op, !.at = "check", !.stream = s, !.of = content,
                   !.owes = IF op = "read" THEN acked[s] ELSE {}]
<1>1. Types
  BY DEF IInv
<1>2. acked[s] \in SUBSET Nat /\ content \in Nat
  BY <1>1, TypeFacts
<1>3. /\ k \in Calls /\ k.at = "check" /\ k.stream = s /\ k.of = content /\ k.got = <<>>
      /\ k.owes \subseteq acked[s]
  BY <1>2, IdleIs DEF Idle, Calls, Places
<1>4. call' = [call EXCEPT ![c] = k] /\ UNCHANGED <<redis, promises, gens, items>>
  BY DEF BeginUse, Begin
<1> HIDE DEF k
<1>5. ReadFits(k)
  <2> SUFFICES ASSUME content # 0 PROVE k.owes \subseteq Done(redis.list[s])
                      /\ Starts(<<>>, redis.list[s])
    BY <1>3 DEF ReadFits, Has
  <2>1. acked[s] \subseteq Done(redis.list[s]) /\ redis.list[s] \in Seq(Records)
    BY <1>1, TypeFacts DEF IInv, PromisesFit
  <2> QED BY <1>3, <2>1, StartsSelf
<1>6. Entitled(c, k)
  BY <1>3, <1>5 DEF Entitled, Pushing, Filling
<1>7. Goes(c)
  BY <1>4, <1>6 DEF Goes
<1> QED BY <1>4, <1>7, StayStep

(* A check that finds no buffer, finds its cap passed or is not heard.     *)
LEMMA CheckFailsStep == ASSUME IInv, NEW c \in Caller, CheckFails(c) PROVE IInv'
<1>1. Types
  BY DEF IInv
<1>2. Settles(c) /\ UNCHANGED <<redis, gens, items, promises>>
  BY <1>1, ReturnIs, DiscardIs DEF CheckFails
<1> QED BY <1>2, StayStep

(* A check that a call may go on from.                                     *)
LEMMA CheckUseStep == ASSUME IInv, NEW c \in Caller, CheckUse(c) PROVE IInv'
<1>1. Types /\ At(c, "check") /\ UNCHANGED <<redis, gens, items, promises>>
  BY DEF IInv, CheckUse
<1>2. CASE Return(c)
  BY <1>1, <1>2, ReturnIs, StayStep
<1>3. CASE call' = [call EXCEPT ![c].saw = redis.stamp,
                    ![c].at = IF call[c].op = "next" THEN "bump" ELSE "refresh"]
  <2> DEFINE place == IF call[c].op = "next" THEN "bump" ELSE "refresh"
             k == [call[c] EXCEPT !.saw = redis.stamp, !.at = place]
  <2>1. call[c] \in Calls /\ redis.stamp \in Nat /\ ReadFits(call[c]) /\ place \in Places
    BY <1>1, TypeFacts DEF IInv, ReadsFit, Places
  <2>2. call' = [call EXCEPT ![c] = k]
    BY <1>1, <1>3, TypeFacts
  <2>3. place \in {"bump", "refresh"}
    OBVIOUS
  <2> HIDE DEF place
  <2>4. /\ k \in Calls /\ k.at = place /\ k.of = call[c].of /\ k.got = call[c].got
        /\ k.owes = call[c].owes /\ k.stream = call[c].stream
    BY <2>1 DEF Calls
  <2> HIDE DEF k
  <2>5. ReadFits(k)
    BY <1>1, <2>1, <2>3, <2>4 DEF ReadFits, Has, At
  <2>6. Entitled(c, k)
    BY <2>3, <2>4, <2>5 DEF Entitled, Pushing, Filling
  <2> QED BY <1>1, <2>2, <2>6, StayStep DEF Goes
<1> QED BY <1>2, <1>3 DEF CheckUse

(* An append that has room makes the records of an item of its own.        *)
LEMMA CheckAppendStep ==
  ASSUME IInv, NEW c \in Caller, NEW count \in 1 .. 2, CheckAppend(c, count)
  PROVE  IInv'
<1>1. Types /\ At(c, "check") /\ UNCHANGED <<redis, gens, promises>>
  BY DEF IInv, CheckAppend
<1>2. CASE Return(c) /\ UNCHANGED items
  BY <1>1, <1>2, ReturnIs, StayStep
<1>3. CASE /\ items' = items + 1
           /\ call' = [call EXCEPT ![c].saw = redis.stamp, ![c].at = "push",
                       ![c].todo = ItemRecords(items', count)]
  <2> DEFINE k == [call[c] EXCEPT !.saw = redis.stamp, !.at = "push",
                   !.todo = ItemRecords(items', count)]
  <2>1. call[c] \in Calls /\ redis.stamp \in Nat /\ items \in Nat /\ items' \in Nat /\ count \in Nat
    BY <1>1, <1>3, TypeFacts
  <2>2. /\ ItemRecords(items', count) \in Seq(Records) /\ Len(ItemRecords(items', count)) = count
        /\ DOMAIN ItemRecords(items', count) = 1 .. count
        /\ \A i \in 1 .. count : ItemRecords(items', count)[i] = Record(items', i, count)
    BY <2>1, ItemRecordsAre
  <2>3. call' = [call EXCEPT ![c] = k]
    BY <1>1, <1>3, TypeFacts
  <2>4. k \in Calls /\ k.at = "push" /\ k.of = call[c].of /\ k.todo = ItemRecords(items', count)
    BY <2>1, <2>2 DEF Calls, Places
  <2> HIDE DEF k
  <2>5. Item(k).id = items' /\ Item(k).of = count
    <3>1. 1 \in 1 .. count
      OBVIOUS
    <3>2. Item(k) = Record(items', 1, count)
      BY <2>2, <2>4, <3>1 DEF Item
    <3> QED BY <3>2 DEF Record
  <2>6. k.todo # <<>>
    <3>1. 1 \in DOMAIN k.todo
      BY <2>2, <2>4
    <3> QED BY <3>1
  <2>7. items < items' /\ items' <= items' /\ items <= items'
    BY <1>3, <2>1
  <2>8. Entitled(c, k)
    BY <2>2, <2>4, <2>5, <2>6, <2>7 DEF Entitled, Pushing, Filling, ReadFits
  <2>9. Goes(c)
    BY <2>3, <2>8 DEF Goes
  <2>10. gens \in Nat /\ redis \in Redis /\ redis' = redis /\ gens' = gens /\ gens <= gens
    BY <1>1, TypeFacts
  <2> QED BY <1>1, <2>1, <2>7, <2>9, <2>10, GoesKeep
<1> QED BY <1>2, <1>3 DEF CheckAppend

(* A call whose cap passed since its check.                                *)
LEMMA CapSeenStep == ASSUME IInv, NEW c \in Caller, CapSeen(c) PROVE IInv'
  BY DiscardIs, StayStep DEF IInv, CapSeen

(* A read that is answered, or fails.                                      *)
LEMMA AnsweredStep == ASSUME IInv, NEW c \in Caller, Answered(c) \/ ReadFails(c) PROVE IInv'
<1>1. Types
  BY DEF IInv
<1>2. Settles(c) /\ UNCHANGED <<redis, gens, items, promises>>
  BY <1>1, ReturnIs, DiscardIs DEF Answered, ReadFails
<1> QED BY <1>2, StayStep

(* The TTLs are refreshed.                                                 *)
LEMMA RefreshStep == ASSUME IInv, NEW c \in Caller, Refresh(c) PROVE IInv'
<1>1. Types /\ At(c, "refresh")
  BY DEF IInv, Refresh
<1>2. PICK how \in Outcomes :
        /\ redis' = Behind(how, Expire(redis), Expire(redis))
        /\ IF ~Heard(how) THEN Return(c)
           ELSE IF ~Content(redis) THEN Discard(c)
           ELSE IF call[c].op = "touch" THEN Return(c) ELSE Goto(c, "page")
        /\ UNCHANGED <<gens, items, promises>>
  BY DEF Refresh
<1>3. redis' \in Redis /\ redis'.list = redis.list /\ redis'.size = redis.size
        /\ redis'.seq = redis.seq
  <2>1. redis' = redis \/ redis' = Expire(redis)
    BY <1>2, BehindIs
  <2> QED BY <1>1, <2>1, TypeFacts, ExpireIs
<1>4. Goes(c)
  <2>1. CASE Goto(c, "page")
    <3> DEFINE k == [call[c] EXCEPT !.at = "page"]
    <3>1. k \in Calls /\ call' = [call EXCEPT ![c] = k]
      BY <1>1, <2>1, SetIs DEF Goto, Places
    <3>2. call[c] \in Calls /\ ReadFits(call[c])
      BY <1>1, TypeFacts DEF IInv, ReadsFit
    <3>3. /\ k.at = "page" /\ k.of = call[c].of /\ k.got = call[c].got
          /\ k.owes = call[c].owes /\ k.stream = call[c].stream
      BY <3>2 DEF Calls
    <3> HIDE DEF k
    <3>4. ReadFits(k)
      BY <1>1, <3>2, <3>3 DEF ReadFits, Has, At
    <3>5. Entitled(c, k)
      BY <3>1, <3>3, <3>4 DEF Entitled, Pushing, Filling
    <3> QED BY <3>1, <3>5 DEF Goes
  <2>2. CASE Return(c) \/ Discard(c)
    BY <1>1, <2>2, ReturnIs, DiscardIs, SettlesGoes
  <2> QED BY <1>2, <2>1, <2>2
<1>5. /\ gens \in Nat /\ items \in Nat /\ gens' = gens /\ items' = items
      /\ gens <= gens /\ items <= items
  BY <1>1, <1>2, TypeFacts
<1> QED BY <1>2, <1>3, <1>4, <1>5, GoesKeep

(* A claim takes a stamp that no other call has.                           *)
LEMMA ClaimStep == ASSUME IInv, NEW c \in Caller, Claim(c) PROVE IInv'
<1>1. Types /\ At(c, "claim")
  BY DEF IInv, Claim
<1>2. PICK how \in Outcomes :
        /\ redis' = Behind(how, ClaimIn(redis, gens + 1), ClaimIn(redis, gens + 1))
        /\ gens' = IF redis'.stamp = redis.stamp THEN gens ELSE gens + 1
        /\ IF how = "heard" /\ redis.stamp = 0
           THEN call' = [call EXCEPT ![c].at = "fill", ![c].saw = gens']
           ELSE Return(c)
        /\ UNCHANGED <<items, promises>>
  BY DEF Claim
<1>3. gens \in Nat /\ gens + 1 \in Nat /\ redis \in Redis /\ redis.seq \in Nat
        /\ redis.stamp \in Nat
  BY <1>1, TypeFacts
<1>4. redis' \in Redis /\ redis'.list = redis.list /\ redis'.size = redis.size
        /\ redis'.seq = redis.seq
  <2>1. redis' = redis \/ redis' = ClaimIn(redis, gens + 1)
    BY <1>2, BehindIs, SMTT(20)
  <2> QED BY <1>3, <2>1, ClaimInIs
<1>5. gens' \in Nat /\ gens <= gens'
  BY <1>2, <1>3
<1>6. Goes(c)
  <2>1. CASE how = "heard" /\ redis.stamp = 0
    <3> DEFINE k == [call[c] EXCEPT !.at = "fill", !.saw = gens']
    <3>1. redis'.stamp = gens + 1
      BY <1>2, <1>3, <2>1, BehindIs, ClaimInIs
    <3>2. gens' = gens + 1 /\ gens < gens' /\ gens' <= gens'
      BY <1>2, <1>3, <2>1, <3>1
    <3>3. call' = [call EXCEPT ![c] = k] /\ call[c] \in Calls
      BY <1>1, <1>2, <2>1, TypeFacts
    <3>4. k \in Calls /\ k.at = "fill" /\ k.saw = gens' /\ k.of = call[c].of
      BY <1>5, <3>3 DEF Calls, Places
    <3> HIDE DEF k
    <3>5. Entitled(c, k)
      BY <3>2, <3>4 DEF Entitled, Pushing, Filling, ReadFits
    <3> QED BY <3>3, <3>5 DEF Goes
  <2>2. CASE Return(c)
    BY <2>2, ReturnIs, SettlesGoes
  <2> QED BY <1>2, <2>1, <2>2
<1>7. items \in Nat /\ items' = items /\ items <= items
  BY <1>1, <1>2, TypeFacts
<1> QED BY <1>2, <1>4, <1>5, <1>6, <1>7, GoesKeep

(* A creation makes a content with nothing promised of it.                 *)
LEMMA FillStep ==
  ASSUME IInv, NEW c \in Caller, NEW lastSeq \in 0 .. given, NEW withHistory \in BOOLEAN,
         Fill(c, lastSeq, withHistory)
  PROVE  IInv'
<1>1. Types /\ At(c, "fill")
  BY DEF IInv, Fill
<1>2. PICK how \in Outcomes :
        /\ redis' = Behind(how, FillIn(redis, lastSeq), FillIn(redis, lastSeq))
        /\ IF how = "lost" THEN UNCHANGED promises
           ELSE content' = call[c].saw /\ given' = lastSeq /\ Forget
        /\ \/ ~Heard(how) /\ Raise(c) /\ UNCHANGED items
           \/ Heard(how) /\ ~withHistory /\ Return(c) /\ UNCHANGED items
           \/ /\ Heard(how) /\ withHistory
              /\ items' = items + 1
              /\ call' = [call EXCEPT ![c].at = "push", ![c].of = content',
                          ![c].todo = ItemRecords(items', 1)]
        /\ UNCHANGED <<capped, gens>>
  BY DEF Fill
<1>3. redis \in Redis /\ items \in Nat /\ given \in Nat /\ call[c] \in Calls /\ lastSeq \in Nat
  BY <1>1, TypeFacts
<1>4. CASE how = "lost"
  <2>1. redis' = redis /\ Raise(c) /\ UNCHANGED <<promises, gens, items>>
    BY <1>2, <1>4, BehindIs DEF Heard
  <2> QED BY <1>1, <2>1, RaiseIs, StayStep
<1>5. CASE how # "lost"
  <2>1. redis' = FillIn(redis, lastSeq) /\ content' = call[c].saw /\ given' = lastSeq /\ Forget
          /\ gens' = gens
    BY <1>2, <1>5, BehindIs
  <2>2. /\ redis' \in Redis /\ redis'.list = [s \in Streams |-> <<First>>]
        /\ redis'.size = [conv |-> 1, replay |-> 0] /\ redis'.seq = given'
    BY <1>3, <2>1, FillInIs
  <2>3. \E k \in Calls :
          /\ call' = [call EXCEPT ![c] = k] /\ ~Filling(k) /\ k.at \in {"idle", "undo", "push"}
          /\ k.of \in {0, call[c].of, call[c].saw} /\ items' \in {items, items + 1}
          /\ Pushing(k) => k.todo = ItemRecords(items', 1) /\ items' = items + 1
    <3>1. CASE Raise(c) /\ UNCHANGED items
      BY <1>1, <3>1, RaiseIs DEF Pushing
    <3>2. CASE Return(c) /\ UNCHANGED items
      BY <3>2, IdleIs DEF Return, Pushing, Filling
    <3>3. CASE /\ items' = items + 1
               /\ call' = [call EXCEPT ![c].at = "push", ![c].of = content',
                           ![c].todo = ItemRecords(items', 1)]
      <4> DEFINE k == [call[c] EXCEPT !.at = "push", !.of = content',
                       !.todo = ItemRecords(items', 1)]
      <4>1. call' = [call EXCEPT ![c] = k]
        BY <1>1, <3>3, TypeFacts
      <4>2. content' \in Nat /\ content' = call[c].saw
        BY <1>3, <2>1, CallFacts
      <4>3. items' \in Nat /\ 1 \in Nat
        BY <1>3, <3>3
      <4>4. ItemRecords(items', 1) \in Seq(Records)
        BY <4>3, ItemRecordsAre
      <4>5. k \in Calls /\ k.at = "push" /\ k.of = call[c].saw /\ k.todo = ItemRecords(items', 1)
        BY <1>3, <4>2, <4>4 DEF Calls, Places
      <4> HIDE DEF k
      <4>6. ~Filling(k)
        BY <4>5 DEF Filling
      <4> QED BY <3>3, <4>1, <4>5, <4>6
    <3> QED BY <1>2, <3>1, <3>2, <3>3
  <2>4. PICK k \in Calls :
          /\ call' = [call EXCEPT ![c] = k] /\ ~Filling(k) /\ k.at \in {"idle", "undo", "push"}
          /\ k.of \in {0, call[c].of, call[c].saw} /\ items' \in {items, items + 1}
          /\ Pushing(k) => k.todo = ItemRecords(items', 1) /\ items' = items + 1
    BY <2>3
  <2>5. Filling(call[c]) /\ given' \in Nat
    BY <1>1, <1>3, <2>1 DEF At, Filling
  <2> QED BY <2>1, <2>2, <2>4, <2>5, FillKeep
<1> QED BY <1>4, <1>5

(* The lists are there both, or neither.                                   *)
LEMMA EmptyIs ==
  ASSUME IInv, ~Content(redis)
  PROVE  \A s \in Streams : redis.list[s] = <<>>
  BY DEF IInv, ListsLiveTogether, Exists, Streams

(* A deletion ends the content, and its promises with it.                  *)
LEMMA DeleteStep == ASSUME IInv, NEW c \in Caller, Delete(c) PROVE IInv'
<1>1. Types
  BY DEF IInv
<1>2. PICK how \in Outcomes :
        /\ redis' = Behind(how, Gone, Gone)
        /\ IF call[c].op = "create" /\ At(c, "delete") THEN Raise(c) ELSE Return(c)
        /\ KeepPromises
        /\ UNCHANGED <<capped, gens, items, given>>
  BY DEF Delete
<1>3. Settles(c)
  BY <1>1, <1>2, RaiseIs, ReturnIs
<1>4. redis' = redis \/ redis' = Gone
  BY <1>2, BehindIs
<1>5. CASE Content(redis')
  <2>1. redis' = redis
    <3>1. \A s \in Streams : Gone.list[s] = <<>>
      BY GoneIs
    <3>2. "conv" \in Streams /\ "conv" # "meta"
      BY DEF Streams
    <3> QED BY <1>4, <1>5, <3>1, <3>2 DEF Content, Exists
  <2>2. UNCHANGED <<redis, gens, items, promises>>
    BY <1>2, <1>5, <2>1 DEF KeepPromises, promises
  <2> QED BY <1>3, <2>2, StayStep
<1>6. CASE ~Content(redis')
  <2>1. redis' \in Redis /\ \A s \in Streams : redis'.list[s] = <<>>
    <3>1. CASE redis' = Gone
      BY <3>1, GoneIs
    <3>2. CASE redis' = redis
      BY <1>1, <1>6, <3>2, EmptyIs, TypeFacts
    <3> QED BY <1>4, <3>1, <3>2
  <2>2. /\ content' = 0 /\ acked' \in [Streams -> SUBSET Nat] /\ longest' \in [Streams -> Seq(Nat)]
        /\ UNCHANGED <<gens, items, given>>
    BY <1>2, <1>6, ForgetIs DEF KeepPromises
  <2>3. \E d \in Caller : \E k : Rests(d, k) /\ call' = [call EXCEPT ![d] = k]
    BY <1>3, SettlesGoes
  <2> QED BY <2>1, <2>2, <2>3, EmptyKeep
<1> QED BY <1>5, <1>6

(* So does the end of a TTL.                                               *)
LEMMA LapseStep == ASSUME IInv, Lapse PROVE IInv'
<1>1. Types
  BY DEF IInv
<1>2. redis' \in Redis /\ redis'.list = [s \in Streams |-> <<>>]
  <2>1. \/ redis' = Gone
        \/ redis' = [redis EXCEPT !.list = Gone.list, !.ttl = {}]
        \/ redis' = [redis EXCEPT !.list = Gone.list, !.ttl = @ \ Streams]
    BY DEF Lapse
  <2>2. redis \in Redis /\ Gone \in Redis /\ Gone.list = [s \in Streams |-> <<>>]
    BY <1>1, TypeFacts, GoneIs
  <2>3. Gone.list \in [Streams -> Seq(Records)]
    BY <2>2 DEF Redis
  <2> QED BY <2>1, <2>2, <2>3 DEF Redis
<1>3. \A s \in Streams : redis'.list[s] = <<>>
  BY <1>2
<1>4. ~Content(redis')
  <2>1. "conv" \in Streams /\ "conv" # "meta"
    BY DEF Streams
  <2> QED BY <1>3, <2>1 DEF Content, Exists
<1>5. /\ content' = 0 /\ acked' \in [Streams -> SUBSET Nat] /\ longest' \in [Streams -> Seq(Nat)]
      /\ UNCHANGED <<gens, items, given, call>>
  BY <1>4, ForgetIs DEF Lapse, KeepPromises
<1> QED BY <1>2, <1>3, <1>5, EmptyKeep

(* A number is handed out behind the counter.                              *)
LEMMA BumpStep == ASSUME IInv, NEW c \in Caller, Bump(c) PROVE IInv'
<1>1. Types
  BY DEF IInv
<1>2. PICK how \in Outcomes :
        /\ redis' = Behind(how, BumpIn(redis), BumpIn(BumpIn(redis)))
        /\ IF Heard(how) /\ ~Content(redis') THEN Discard(c) /\ UNCHANGED given
           ELSE Return(c) /\ given' = IF Heard(how) THEN redis'.seq ELSE given
        /\ UNCHANGED <<capped, gens, items, content, acked, longest>>
  BY DEF Bump
<1>3. redis \in Redis /\ redis.seq \in Nat /\ given \in Nat
  BY <1>1, TypeFacts
<1>4. /\ redis' \in Redis /\ redis'.list = redis.list /\ redis'.size = redis.size
      /\ redis'.seq \in Nat /\ redis'.seq >= redis.seq
  <2>1. redis' = redis \/ redis' = BumpIn(redis) \/ redis' = BumpIn(BumpIn(redis))
    BY <1>2, BehindIs
  <2> QED BY <1>3, <2>1, BumpInIs
<1>5. Goes(c)
  BY <1>1, <1>2, ReturnIs, DiscardIs, SettlesGoes
<1>6. given' = redis'.seq \/ given' = given
  BY <1>2
<1>7. given' \in Nat /\ (redis'.seq >= given' \/ (redis'.seq >= redis.seq /\ given' = given))
  BY <1>3, <1>4, <1>6
<1> QED BY <1>1, <1>2, <1>4, <1>5, <1>7, CallKeep, TypeFacts

(* A record pushed behind itself is still only repeated.                   *)
LEMMA RepeatsTwice ==
  ASSUME NEW s \in Seq(Records), NEW t \in Seq(Records), NEW u \in Seq(Records), NEW h,
         Repeats(s, t, h), Repeats(t, u, h)
  PROVE  Repeats(s, u, h)
<1>1. Len(s) \in Nat /\ Len(t) \in Nat /\ Len(u) \in Nat
  OBVIOUS
<1>2. /\ Len(s) <= Len(t) /\ \A i \in 1 .. Len(s) : s[i] = t[i]
      /\ \A i \in Len(s) + 1 .. Len(t) : t[i] = h
  BY DEF Repeats, Starts
<1>3. /\ Len(t) <= Len(u) /\ \A i \in 1 .. Len(t) : t[i] = u[i]
      /\ \A i \in Len(t) + 1 .. Len(u) : u[i] = h
  BY DEF Repeats, Starts
<1>4. Len(s) <= Len(u)
  BY <1>1, <1>2, <1>3
<1>5. ASSUME NEW i \in 1 .. Len(s) PROVE s[i] = u[i]
  <2>1. i \in 1 .. Len(t)
    BY <1>1, <1>2
  <2> QED BY <1>2, <1>3, <2>1
<1>6. ASSUME NEW i \in Len(s) + 1 .. Len(u) PROVE u[i] = h
  <2>1. CASE i <= Len(t)
    <3>1. i \in Len(s) + 1 .. Len(t) /\ i \in 1 .. Len(t)
      BY <1>1, <2>1
    <3> QED BY <1>2, <1>3, <3>1
  <2>2. CASE i > Len(t)
    <3>1. i \in Len(t) + 1 .. Len(u)
      BY <1>1, <2>2
    <3> QED BY <1>3, <3>1
  <2> QED BY <1>1, <2>1, <2>2
<1> QED BY <1>4, <1>5, <1>6 DEF Repeats, Starts

(* A push, spelled out.                                                    *)
LEMMA PushedIs ==
  ASSUME NEW r \in Redis, NEW s \in Streams, NEW h \in Records, NEW q, q = PushIn(r, s, <<h>>)
  PROVE  /\ q \in Redis /\ q.seq = r.seq
         /\ \A t \in Streams : t # s => q.list[t] = r.list[t] /\ q.size[t] = r.size[t]
         /\ Repeats(r.list[s], q.list[s], h)
         /\ r.list[s] = <<>> => q.list[s] = <<>>
         /\ r.list[s] # <<>> => Len(q.list[s]) = Len(r.list[s]) + 1 /\ q.size[s] = r.size[s] + 1
<1>1. /\ q \in Redis /\ q.seq = r.seq
      /\ q.list = IF r.list[s] # <<>> THEN [r.list EXCEPT ![s] = @ \o <<h>>] ELSE r.list
      /\ q.size = [r.size EXCEPT ![s] = @ + 1]
  BY PushInIs, ZenonT(40)
<1>2. /\ r.list \in [Streams -> Seq(Records)] /\ r.size \in [Streams -> Nat]
      /\ r.list[s] \in Seq(Records) /\ <<h>> \in Seq(Records) /\ Len(<<h>>) = 1 /\ <<h>>[1] = h
  BY DEF Redis
<1>3. \A t \in Streams : t # s => q.list[t] = r.list[t] /\ q.size[t] = r.size[t]
  BY <1>1, <1>2
<1>4. CASE r.list[s] = <<>>
  <2>1. q.list[s] = r.list[s]
    BY <1>1, <1>4
  <2>2. Repeats(r.list[s], q.list[s], h)
    BY <1>4, <2>1 DEF Repeats, Starts
  <2> QED BY <1>1, <1>3, <1>4, <2>1, <2>2
<1>5. CASE r.list[s] # <<>>
  <2>1. q.list[s] = r.list[s] \o <<h>> /\ q.size[s] = r.size[s] + 1
    BY <1>1, <1>2, <1>5
  <2>2. /\ Len(r.list[s] \o <<h>>) = Len(r.list[s]) + 1
        /\ \A i \in 1 .. Len(r.list[s]) + 1 :
             (r.list[s] \o <<h>>)[i] =
               IF i <= Len(r.list[s]) THEN r.list[s][i] ELSE <<h>>[i - Len(r.list[s])]
    BY <1>2, ConcatProperties
  <2>3. Len(r.list[s]) \in Nat
    BY <1>2
  <2>4. Repeats(r.list[s], q.list[s], h)
    BY <1>2, <2>1, <2>2, <2>3, SMTT(20) DEF Repeats, Starts
  <2> QED BY <1>1, <1>3, <1>5, <2>1, <2>2, <2>4
<1> QED BY <1>4, <1>5

(* A push, in each of its outcomes.                                        *)
LEMMA PushStep == ASSUME IInv, NEW c \in Caller, Push(c) PROVE IInv'
<1> DEFINE s == call[c].stream
           h == Head(call[c].todo)
<1>1. Types /\ At(c, "push") /\ PushFits(call[c])
  BY DEF IInv, PushesFit, Push
<1>2. PICK how \in Outcomes :
        /\ redis' = Behind(how, PushIn(redis, s, <<h>>), PushIn(PushIn(redis, s, <<h>>), s, <<h>>))
        /\ IF ~Heard(how) THEN Raise(c)
           ELSE IF ~Content(redis') THEN Discard(c)
           ELSE IF Len(call[c].todo) = 1 THEN Return(c)
           ELSE call' = [call EXCEPT ![c].todo = Tail(@)]
        /\ acked' = IF Heard(how) /\ Content(redis') /\ Len(call[c].todo) = 1
             /\ call[c].of = content
                    THEN [acked EXCEPT ![s] = @ \union {Head(<<h>>).id}] ELSE acked
        /\ UNCHANGED <<capped, gens, items, content, given, longest>>
  BY DEF Push
<1>3. /\ call[c] \in Calls /\ s \in Streams /\ redis \in Redis /\ Pushing(call[c])
      /\ redis.list[s] \in Seq(Records)
  BY <1>1, TypeFacts, CallFacts DEF At, Pushing
<1>4. /\ call[c].todo # <<>> /\ h \in Records /\ Len(call[c].todo) \in Nat
      /\ Len(call[c].todo) # 1 => Tail(call[c].todo) \in Seq(Records)
  BY <1>1, <1>3, TodoIs, ItemIs
<1>5. Head(<<h>>) = h
  OBVIOUS
<1> HIDE DEF h, s
<1>6. /\ redis' \in Redis /\ redis'.seq = redis.seq
      /\ \A t \in Streams : t # s => redis'.list[t] = redis.list[t]
           /\ redis'.size[t] = redis.size[t]
      /\ Repeats(redis.list[s], redis'.list[s], h)
      /\ redis.list[s] = <<>> => redis'.list[s] = <<>>
      /\ redis.list[s] # <<>>
           => redis'.size[s] - redis.size[s] = Len(redis'.list[s]) - Len(redis.list[s])
      /\ redis.list[s] # <<>> /\ Heard(how) => Len(redis'.list[s]) > Len(redis.list[s])
  <2>0. PICK q : q = PushIn(redis, s, <<h>>)
    OBVIOUS
  <2>1. /\ q \in Redis /\ q.seq = redis.seq
        /\ \A t \in Streams : t # s => q.list[t] = redis.list[t] /\ q.size[t] = redis.size[t]
        /\ Repeats(redis.list[s], q.list[s], h)
        /\ redis.list[s] = <<>> => q.list[s] = <<>>
        /\ redis.list[s] # <<>> => Len(q.list[s]) = Len(redis.list[s]) + 1
             /\ q.size[s] = redis.size[s] + 1
    BY <1>3, <1>4, <2>0, PushedIs
  <2>2. /\ Len(redis.list[s]) \in Nat /\ redis.size[s] \in Nat /\ q.list[s] \in Seq(Records)
        /\ Len(q.list[s]) \in Nat /\ q.size[s] \in Nat
    BY <1>3, <2>1 DEF Redis
  <2>3. CASE how = "lost"
    <3>1. redis' = redis /\ ~Heard(how)
      BY <1>2, <2>3, BehindIs DEF Heard
    <3>2. Repeats(redis.list[s], redis.list[s], h)
      BY <2>2 DEF Repeats, Starts
    <3> QED BY <1>3, <2>2, <3>1, <3>2
  <2>4. CASE how \in {"heard", "unheard"}
    <3>1. redis' = q
      BY <1>2, <2>0, <2>4, BehindIs
    <3>2. ASSUME q.list[s] # <<>>, redis.list[s] # <<>>
          PROVE  q.size[s] - redis.size[s] = Len(q.list[s]) - Len(redis.list[s])
                   /\ Len(q.list[s]) > Len(redis.list[s])
      <4>1. PICK a \in Nat, b \in Nat : a = Len(redis.list[s]) /\ b = redis.size[s]
        BY <2>2
      <4>2. Len(q.list[s]) = a + 1 /\ q.size[s] = b + 1
        BY <2>1, <3>2, <4>1
      <4>3. (b + 1) - b = (a + 1) - a /\ a + 1 > a
        OBVIOUS
      <4> QED BY <4>1, <4>2, <4>3
    <3>3. redis.list[s] # <<>> => q.list[s] # <<>>
      <4>1. ASSUME redis.list[s] # <<>> PROVE Len(q.list[s]) # 0
        BY <2>1, <2>2, <4>1
      <4>2. Len(q.list[s]) # 0 => q.list[s] # <<>>
        BY <2>2
      <4> QED BY <4>1, <4>2
    <3> QED BY <2>1, <3>1, <3>2, <3>3
  <2>5. CASE how = "twice"
    <3>1. redis' = PushIn(q, s, <<h>>)
      BY <1>2, <2>0, <2>5, BehindIs
    <3>2. /\ redis' \in Redis /\ redis'.seq = q.seq
          /\ \A t \in Streams : t # s => redis'.list[t] = q.list[t] /\ redis'.size[t] = q.size[t]
          /\ Repeats(q.list[s], redis'.list[s], h)
          /\ q.list[s] = <<>> => redis'.list[s] = <<>>
          /\ q.list[s] # <<>> => Len(redis'.list[s]) = Len(q.list[s]) + 1
               /\ redis'.size[s] = q.size[s] + 1
      BY <1>3, <1>4, <2>1, <3>1, PushedIs
    <3>3. Repeats(redis.list[s], redis'.list[s], h)
      <4>1. redis'.list[s] \in Seq(Records)
        BY <1>3, <3>2 DEF Redis
      <4> QED BY <1>3, <2>1, <2>2, <3>2, <4>1, RepeatsTwice
    <3>4. ASSUME redis.list[s] # <<>>
          PROVE  /\ redis'.size[s] - redis.size[s] = Len(redis'.list[s]) - Len(redis.list[s])
                 /\ Len(redis'.list[s]) > Len(redis.list[s])
      <4>1. q.list[s] # <<>>
        <5>1. Len(q.list[s]) # 0
          BY <2>1, <2>2, <3>4
        <5> QED BY <5>1
      <4>2. PICK a \in Nat, b \in Nat : a = Len(redis.list[s]) /\ b = redis.size[s]
        BY <2>2
      <4>3. Len(q.list[s]) = a + 1 /\ q.size[s] = b + 1
        BY <2>1, <3>4, <4>2
      <4>4. Len(redis'.list[s]) = a + 1 + 1 /\ redis'.size[s] = b + 1 + 1
        BY <3>2, <4>1, <4>3
      <4>5. (b + 1 + 1) - b = (a + 1 + 1) - a /\ a + 1 + 1 > a
        OBVIOUS
      <4> QED BY <4>2, <4>4, <4>5
    <3> QED BY <2>1, <3>2, <3>3, <3>4
  <2> QED BY <2>3, <2>4, <2>5, BehindIs
<1>7. Content(redis') => redis.list[s] # <<>>
  <2>1. s # "meta"
    BY <1>3 DEF Streams
  <2> QED BY <1>3, <1>6, <2>1 DEF Content, Exists
<1>8. \E k \in Calls :
        /\ call' = [call EXCEPT ![c] = k] /\ k.of \in {0, call[c].of}
        /\ k.at \in {"idle", "undo", "delete", "push"}
        /\ Pushing(k) => /\ Landed(c) /\ Len(call[c].todo) # 1
                         /\ k = [call[c] EXCEPT !.todo = Tail(call[c].todo)]
  <2>1. CASE Raise(c)
    BY <1>1, <2>1, RaiseIs DEF Pushing
  <2>2. CASE Return(c)
    BY <2>2, IdleIs DEF Return, Pushing
  <2>3. CASE Discard(c)
    <3> DEFINE k == [Idle EXCEPT !.op = call[c].op, !.at = "delete"]
    <3>1. k \in Calls /\ k.at = "delete" /\ k.of = 0
      BY <1>3, CallFacts, IdleIs DEF Calls, Places, Idle
    <3>2. call' = [call EXCEPT ![c] = k]
      BY <2>3 DEF Discard
    <3> HIDE DEF k
    <3> QED BY <3>1, <3>2 DEF Pushing
  <2>4. CASE Heard(how) /\ Content(redis') /\ Len(call[c].todo) # 1
               /\ call' = [call EXCEPT ![c].todo = Tail(@)]
    <3> DEFINE k == [call[c] EXCEPT !.todo = Tail(call[c].todo)]
    <3>1. call' = [call EXCEPT ![c] = k]
      BY <1>1, <2>4, TypeFacts
    <3>2. k \in Calls /\ k.of = call[c].of /\ k.at = call[c].at
      BY <1>3, <1>4, <2>4 DEF Calls
    <3>3. Landed(c)
      BY <1>6, <1>7, <2>4 DEF Landed, s
    <3>4. k.at = "push"
      BY <1>1, <3>2 DEF At
    <3> QED BY <2>4, <3>1, <3>2, <3>3, <3>4
  <2> QED BY <1>2, <2>1, <2>2, <2>3, <2>4
<1>9. PICK k \in Calls :
        /\ call' = [call EXCEPT ![c] = k] /\ k.of \in {0, call[c].of}
        /\ k.at \in {"idle", "undo", "delete", "push"}
        /\ Pushing(k) => /\ Landed(c) /\ Len(call[c].todo) # 1
                         /\ k = [call[c] EXCEPT !.todo = Tail(call[c].todo)]
  BY <1>8
<1>10. acked' = acked \/ (/\ Landed(c) /\ Len(call[c].todo) = 1 /\ call[c].of = content
                          /\ acked' = [acked EXCEPT ![s] = @ \union {h.id}])
  BY <1>2, <1>5, <1>6, <1>7 DEF Landed, s
<1> QED BY <1>2, <1>3, <1>6, <1>9, <1>10, PushKeep DEF h, s

(* A step of nothing but time.                                             *)
LEMMA QuietStep == ASSUME IInv, UNCHANGED <<redis, gens, items, call, promises>> PROVE IInv'
<1>1. /\ redis' = redis /\ gens' = gens /\ items' = items /\ call' = call /\ content' = content
      /\ given' = given /\ acked' = acked /\ longest' = longest
  BY DEF promises
<1>2. Types' /\ ListsLiveTogether' /\ SizesAreExact' /\ ContentFits'
  BY <1>1 DEF IInv, Types, ListsLiveTogether, SizesAreExact, ContentFits
<1>3. StampsFit' /\ PushesFit'
  BY <1>1 DEF IInv, StampsFit, StampFits, StampsApart, PushesFit, PushFits, PushesApart, Pushing,
     Filling, Has, Item
<1>4. RecordsFit' /\ ReadsFit' /\ PromisesFit'
  BY <1>1 DEF IInv, RecordsFit, ReadsFit, ReadFits, Has, PromisesFit
<1> QED BY <1>2, <1>3, <1>4 DEF IInv

(* The invariant is inductive.                                             *)
LEMMA StepIInv == IInv /\ [Next]_vars => IInv'
<1> SUFFICES ASSUME IInv, [Next]_vars PROVE IInv'
  OBVIOUS
<1>1. CASE UNCHANGED vars
  BY <1>1, QuietStep DEF vars
<1>2. CASE PassCap
  BY <1>2, QuietStep DEF PassCap
<1>3. CASE Lapse
  BY <1>3, LapseStep
<1>4. ASSUME NEW c \in Caller, BeginCreate(c) \/ BeginDelete(c) PROVE IInv'
  BY <1>4, BeginCreateStep
<1>5. ASSUME NEW c \in Caller, Claim(c) \/ Delete(c) PROVE IInv'
  BY <1>5, ClaimStep, DeleteStep
<1>6. ASSUME NEW c \in Caller, NEW lastSeq \in 0 .. given, NEW withHistory \in BOOLEAN,
             Fill(c, lastSeq, withHistory)
      PROVE  IInv'
  BY <1>6, FillStep
<1>7. ASSUME NEW c \in Caller, NEW op \in {"exists", "touch", "next"},
             BeginUse(c, op, "conv") PROVE IInv'
  BY <1>7, BeginUseStep DEF Ops, Streams
<1>8. ASSUME NEW c \in Caller, NEW op \in {"read", "append"}, NEW s \in Used,
             BeginUse(c, op, s) PROVE IInv'
  BY <1>8, BeginUseStep, BufferAssumption DEF Ops, Streams
<1>9. ASSUME NEW c \in Caller, CheckFails(c) \/ CheckUse(c) \/ CapSeen(c) \/ Refresh(c) PROVE IInv'
  BY <1>9, CheckFailsStep, CheckUseStep, CapSeenStep, RefreshStep
<1>10. ASSUME NEW c \in Caller, NEW count \in 1 .. 2, CheckAppend(c, count) PROVE IInv'
  BY <1>10, CheckAppendStep
<1>11. ASSUME NEW c \in Caller, Push(c) \/ Bump(c) PROVE IInv'
  BY <1>11, PushStep, BumpStep
<1>12. ASSUME NEW c \in Caller, ReadFails(c) \/ ReadPage(c) \/ Answered(c) PROVE IInv'
  BY <1>12, ReadPageKeep, AnsweredStep
<1> QED BY <1>1, <1>2, <1>3, <1>4, <1>5, <1>6, <1>7, <1>8, <1>9, <1>10, <1>11, <1>12 DEF Next

(* At every moment of buffer.py's calls the keys, the calls and what was   *)
(* promised to callers and readers fit together.                           *)
THEOREM Safety == Spec => []IInv
  BY InitIInv, StepIInv, PTL DEF Spec

(* ListsLiveTogether: "a write to an expired buffer can never bring a      *)
(* half-buffer back", whichever of _push, create_buffer, delete_buffer and *)
(* the TTLs comes late, is lost or is carried out twice.                   *)
THEOREM BothOrNeither == Spec => []ListsLiveTogether
<1>1. IInv => ListsLiveTogether
  BY DEF IInv
<1> QED BY <1>1, Safety, PTL

(* SizesAreExact: the counters by which _append raises BufferFull are the  *)
(* lengths of the lists, over creations on remains, writes that landed     *)
(* twice and calls that raced a deletion.                                  *)
THEOREM CountersAreExact == Spec => []SizesAreExact
<1>1. IInv => SizesAreExact
  BY DEF IInv
<1> QED BY <1>1, Safety, PTL

(* ReadsAreFaithful: _read_stream gives every item that was acknowledged   *)
(* before it began, none twice, and in an order on which all readers of a  *)
(* content agree, for every page size and number of threads.               *)
THEOREM ReadersAgree == Spec => []ReadsAreFaithful
  BY FaithfulFollows, Safety, PTL

(* A number handed out from the same content is above the last.            *)
LEMMA RisingStep ==
  IInv /\ [Next]_vars => (content' = content /\ given' # given => given' > given)
<1> SUFFICES ASSUME IInv, [Next]_vars, content' = content, given' # given PROVE given' > given
  OBVIOUS
<1>0. Types
  BY DEF IInv
<1>1. \E c \in Caller :
        \/ Bump(c)
        \/ \E lastSeq \in 0 .. given, withHistory \in BOOLEAN : Fill(c, lastSeq, withHistory)
  BY ZenonT(40) DEF Next, vars, promises, PassCap, Lapse, BeginCreate, BeginDelete, BeginUse, Begin,
     Claim, Delete, CheckFails, CheckUse, CheckAppend, CapSeen, Refresh, Push, ReadFails, ReadPage,
     Answered
<1>2. ASSUME NEW c \in Caller, NEW lastSeq \in 0 .. given, NEW withHistory \in BOOLEAN,
             Fill(c, lastSeq, withHistory)
      PROVE  FALSE
  <2>1. content' = call[c].saw /\ Filling(call[c])
    BY <1>2 DEF Fill, promises, At, Filling
  <2>2. call[c].saw # content
    BY <2>1 DEF IInv, StampsFit, StampFits
  <2> QED BY <2>1, <2>2
<1>3. ASSUME NEW c \in Caller, Bump(c) PROVE given' > given
  <2>1. PICK how \in Outcomes :
          /\ redis' = Behind(how, BumpIn(redis), BumpIn(BumpIn(redis)))
          /\ Heard(how) /\ Content(redis') /\ given' = redis'.seq
    BY <1>3 DEF Bump
  <2>2. redis \in Redis /\ redis.seq \in Nat /\ given \in Nat
    BY <1>0, TypeFacts
  <2>3. redis' = BumpIn(redis) \/ redis' = BumpIn(BumpIn(redis))
    BY <2>1, BehindIs DEF Heard
  <2>4. redis'.list = redis.list /\ redis'.seq > redis.seq /\ redis'.seq \in Nat
    BY <2>2, <2>3, BumpInIs
  <2>5. Content(redis)
    BY <2>1, <2>4 DEF Content, Exists, Streams
  <2>6. given <= redis.seq
    BY <2>5 DEF IInv, ContentFits
  <2> QED BY <2>1, <2>2, <2>4, <2>6
<1> QED BY <1>1, <1>2, <1>3

(* NumbersRise: next_seq's numbers rise for as long as a content lives,    *)
(* also where a late call brought the hash back.                           *)
THEOREM NumbersOnlyRise == Spec => NumbersRise
<1>1. IInv /\ [Next]_vars => [content' = content /\ given' # given => given' > given]_vars
  BY RisingStep
<1> QED BY <1>1, Safety, PTL DEF Spec, NumbersRise
==============================================================================
