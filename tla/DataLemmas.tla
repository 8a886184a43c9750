---------------------------- MODULE DataLemmas -----------------------------
(***************************************************************************)
(* Lemmas about the data of the modules: the sequences they use as queues  *)
(* and batches; the order of the naturals; and induction over finite sets, *)
(* with what it gives about choices made in an order.                      *)
(*                                                                         *)
(* The induction principles are stated for a set of the instances that     *)
(* hold, where one would expect a predicate.                               *)
(***************************************************************************)
EXTENDS Integers, Sequences, FiniteSets, Functions,
        FiniteSetTheorems, SequenceTheorems, TLAPS

\* Moving the head of a queue to the end of a batch keeps batch \o queue.
LEMMA TakeKeepsConcat ==
    ASSUME NEW S, NEW b \in Seq(S), NEW q \in Seq(S), q # <<>>
    PROVE  Append(b, Head(q)) \o Tail(q) = b \o q
  <1> DEFINE l == Append(b, Head(q)) \o Tail(q)
             r == b \o q
  <1>1. Head(q) \in S /\ Tail(q) \in Seq(S) /\ Len(Tail(q)) = Len(q) - 1 /\ Len(q) > 0
    OBVIOUS
  <1>2. l \in Seq(S) /\ r \in Seq(S) /\ Len(l) = Len(r)
    BY <1>1
  <1>3. ASSUME NEW i \in 1 .. Len(r) PROVE l[i] = r[i]
    <2>1. CASE i <= Len(b)
      BY <1>1, <2>1
    <2>2. CASE i = Len(b) + 1
      BY <1>1, <2>2
    <2>3. CASE i > Len(b) + 1
      <3>1. l[i] = Tail(q)[i - (Len(b) + 1)]
        BY <1>1, <2>3
      <3>2. Tail(q)[i - (Len(b) + 1)] = q[i - Len(b)]
        BY <1>1, <2>3
      <3> QED BY <3>1, <3>2, <2>3
    <2> QED BY <2>1, <2>2, <2>3
  <1> HIDE DEF l, r
  <1>4. l = r
    BY <1>2, <1>3
  <1> QED BY <1>4 DEF l, r

\* A new element at the end of a sequence without repetitions.
LEMMA AppendFresh ==
    ASSUME NEW S, NEW s \in Seq(S), NEW x \in S, IsInjective(s), x \notin Range(s)
    PROVE  /\ IsInjective(Append(s, x))
           /\ Range(Append(s, x)) = Range(s) \cup {x}
  <1>1. /\ Append(s, x) \in Seq(S)
        /\ DOMAIN Append(s, x) = 1 .. Len(s) + 1
        /\ DOMAIN s = 1 .. Len(s)
        /\ \A i \in 1 .. Len(s) : Append(s, x)[i] = s[i]
        /\ Append(s, x)[Len(s) + 1] = x
        /\ Len(s) \in Nat
    OBVIOUS
  <1>2. IsInjective(Append(s, x))
    BY <1>1 DEF IsInjective, Range
  <1>3. Range(Append(s, x)) = Range(s) \cup {x}
    BY <1>1 DEF Range
  <1> QED BY <1>2, <1>3

\* Removing the head of a sequence without repetitions.
LEMMA TailOfInjective ==
    ASSUME NEW S, NEW s \in Seq(S), s # <<>>, IsInjective(s)
    PROVE  /\ IsInjective(Tail(s))
           /\ Range(Tail(s)) = Range(s) \ {Head(s)}
           /\ Head(s) \in Range(s)
  <1>1. /\ Tail(s) \in Seq(S)
        /\ DOMAIN Tail(s) = 1 .. Len(s) - 1
        /\ DOMAIN s = 1 .. Len(s)
        /\ \A i \in 1 .. Len(s) - 1 : Tail(s)[i] = s[i + 1]
        /\ Head(s) = s[1]
        /\ Len(s) \in Nat /\ Len(s) > 0
    OBVIOUS
  <1>2. IsInjective(Tail(s))
    BY <1>1 DEF IsInjective
  <1>3. Head(s) \in Range(s)
    BY <1>1 DEF Range
  <1>4. Range(Tail(s)) \subseteq Range(s) \ {Head(s)}
    BY <1>1 DEF Range, IsInjective
  <1>5. ASSUME NEW y \in Range(s) \ {Head(s)} PROVE y \in Range(Tail(s))
    <2>1. PICK i \in 1 .. Len(s) : s[i] = y
      BY <1>1 DEF Range
    <2>2. i - 1 \in 1 .. Len(s) - 1 /\ Tail(s)[i - 1] = y
      BY <1>1, <2>1
    <2> QED BY <1>1, <2>2 DEF Range
  <1> QED BY <1>2, <1>3, <1>4, <1>5

\* Only the last element has nothing behind it.
LEMMA TailEmpty ==
    ASSUME NEW S, NEW s \in Seq(S), s # <<>>
    PROVE  /\ Head(s) \in S
           /\ Tail(s) \in Seq(S)
           /\ Len(s) = 1 <=> Tail(s) = <<>>
  <1>1. Head(s) \in S /\ Tail(s) \in Seq(S) /\ Len(Tail(s)) = Len(s) - 1
    OBVIOUS
  <1>2. Len(s) \in Nat /\ (Len(s) = 1 <=> Len(Tail(s)) = 0)
    BY <1>1
  <1> QED BY <1>1, <1>2, EmptySeq

\* The elements of a concatenation.
LEMMA RangeOfConcat ==
    ASSUME NEW S, NEW s \in Seq(S), NEW t \in Seq(S)
    PROVE  Range(s \o t) = Range(s) \cup Range(t)
  <1>1. /\ DOMAIN (s \o t) = 1 .. Len(s) + Len(t)
        /\ DOMAIN s = 1 .. Len(s) /\ DOMAIN t = 1 .. Len(t)
        /\ \A i \in 1 .. Len(s) : (s \o t)[i] = s[i]
        /\ \A i \in 1 .. Len(t) : (s \o t)[Len(s) + i] = t[i]
        /\ Len(s) \in Nat /\ Len(t) \in Nat
    OBVIOUS
  <1>2. ASSUME NEW y \in Range(s \o t) PROVE y \in Range(s) \cup Range(t)
    <2>1. PICK i \in 1 .. Len(s) + Len(t) : (s \o t)[i] = y
      BY <1>1 DEF Range
    <2>2. CASE i <= Len(s)
      BY <1>1, <2>1, <2>2 DEF Range
    <2>3. CASE i > Len(s)
      <3>1. i - Len(s) \in 1 .. Len(t) /\ i = Len(s) + (i - Len(s))
        BY <1>1, <2>3
      <3> QED BY <1>1, <2>1, <3>1 DEF Range
    <2> QED BY <1>1, <2>2, <2>3
  <1>3. ASSUME NEW y \in Range(s) \cup Range(t) PROVE y \in Range(s \o t)
    <2>1. CASE y \in Range(s)
      BY <1>1, <2>1 DEF Range
    <2>2. CASE y \in Range(t)
      <3>1. PICK i \in 1 .. Len(t) : t[i] = y
        BY <1>1, <2>2 DEF Range
      <3>2. Len(s) + i \in 1 .. Len(s) + Len(t)
        BY <1>1
      <3> QED BY <1>1, <3>1, <3>2 DEF Range
    <2> QED BY <1>3, <2>1, <2>2
  <1> QED BY <1>2, <1>3

\* The head and the tail of a concatenation come from its first part.
LEMMA HeadOfConcat ==
    ASSUME NEW S, NEW s \in Seq(S), s # <<>>, NEW t \in Seq(S)
    PROVE  /\ s \o t # <<>>
           /\ Head(s \o t) = Head(s)
           /\ Tail(s \o t) = Tail(s) \o t
  <1> DEFINE l == Tail(s \o t)
             r == Tail(s) \o t
  <1>1. /\ Len(s) \in Nat /\ Len(s) > 0 /\ Len(t) \in Nat
        /\ s \o t \in Seq(S) /\ Len(s \o t) = Len(s) + Len(t)
        /\ Tail(s) \in Seq(S) /\ Len(Tail(s)) = Len(s) - 1
    OBVIOUS
  <1>2. s \o t # <<>> /\ Head(s \o t) = Head(s)
    BY <1>1
  <1>3. l \in Seq(S) /\ r \in Seq(S) /\ Len(l) = Len(s) + Len(t) - 1 /\ Len(r) = Len(l)
    BY <1>1, <1>2
  <1>4. ASSUME NEW i \in 1 .. Len(r) PROVE l[i] = r[i]
    <2>1. l[i] = (s \o t)[i + 1]
      BY <1>1, <1>2, <1>3
    <2>2. CASE i <= Len(s) - 1
      BY <1>1, <1>3, <2>1, <2>2
    <2>3. CASE i > Len(s) - 1
      BY <1>1, <1>3, <2>1, <2>3
    <2> QED BY <1>1, <1>3, <2>2, <2>3
  <1> HIDE DEF l, r
  <1>5. l = r
    BY <1>3, <1>4
  <1> QED BY <1>2, <1>5 DEF l, r

\* The parts of a concatenation without repetitions have none and are disjoint.
LEMMA InjectiveConcat ==
    ASSUME NEW S, NEW s \in Seq(S), NEW t \in Seq(S), IsInjective(s \o t)
    PROVE  /\ IsInjective(s)
           /\ IsInjective(t)
           /\ Range(s) \cap Range(t) = {}
  <1>1. /\ DOMAIN (s \o t) = 1 .. Len(s) + Len(t)
        /\ DOMAIN s = 1 .. Len(s) /\ DOMAIN t = 1 .. Len(t)
        /\ \A i \in 1 .. Len(s) : (s \o t)[i] = s[i]
        /\ \A i \in 1 .. Len(t) : (s \o t)[Len(s) + i] = t[i]
        /\ Len(s) \in Nat /\ Len(t) \in Nat
    OBVIOUS
  <1>2. IsInjective(s)
    BY <1>1 DEF IsInjective
  <1>3. IsInjective(t)
    <2> SUFFICES ASSUME NEW i \in 1 .. Len(t), NEW j \in 1 .. Len(t), t[i] = t[j]
                 PROVE  i = j
      BY <1>1 DEF IsInjective
    <2>1. (s \o t)[Len(s) + i] = (s \o t)[Len(s) + j]
      BY <1>1
    <2>2. Len(s) + i \in 1 .. Len(s) + Len(t) /\ Len(s) + j \in 1 .. Len(s) + Len(t)
      BY <1>1
    <2>3. Len(s) + i = Len(s) + j
      BY <1>1, <2>1, <2>2 DEF IsInjective
    <2> QED BY <1>1, <2>3
  <1>4. ASSUME NEW y \in Range(s), y \in Range(t) PROVE FALSE
    <2>1. PICK i \in 1 .. Len(s) : s[i] = y
      BY <1>1 DEF Range
    <2>2. PICK j \in 1 .. Len(t) : t[j] = y
      BY <1>1, <1>4 DEF Range
    <2>3. (s \o t)[i] = (s \o t)[Len(s) + j]
      BY <1>1, <2>1, <2>2
    <2>4. i \in 1 .. Len(s) + Len(t) /\ Len(s) + j \in 1 .. Len(s) + Len(t)
      BY <1>1
    <2>5. i = Len(s) + j
      BY <1>1, <2>3, <2>4 DEF IsInjective
    <2> QED BY <1>1, <2>5
  <1> QED BY <1>2, <1>3, <1>4

\* The elements after appending one.
LEMMA RangeAppend ==
    ASSUME NEW S, NEW s \in Seq(S), NEW x \in S
    PROVE  Range(Append(s, x)) = Range(s) \cup {x}
  <1>1. /\ DOMAIN Append(s, x) = 1 .. Len(s) + 1
        /\ DOMAIN s = 1 .. Len(s)
        /\ \A i \in 1 .. Len(s) : Append(s, x)[i] = s[i]
        /\ Append(s, x)[Len(s) + 1] = x
        /\ Len(s) \in Nat
    OBVIOUS
  <1> QED BY <1>1 DEF Range

\* The elements after removing the head; the rest keeps its places.
LEMMA RangeTail ==
    ASSUME NEW S, NEW s \in Seq(S), s # <<>>
    PROVE  /\ Range(Tail(s)) \subseteq Range(s)
           /\ Head(s) \in Range(s)
  <1>1. /\ DOMAIN Tail(s) = 1 .. Len(s) - 1
        /\ DOMAIN s = 1 .. Len(s)
        /\ \A i \in 1 .. Len(s) - 1 : Tail(s)[i] = s[i + 1]
        /\ Head(s) = s[1]
        /\ Len(s) \in Nat /\ Len(s) > 0
    OBVIOUS
  <1> QED BY <1>1 DEF Range

\* Sequences of pairs in which no first component occurs twice.
DistinctFirsts(s) == \A i, j \in DOMAIN s : s[i][1] = s[j][1] => i = j

\* A pair with a new first component keeps the first components distinct.
LEMMA DistinctAppend ==
    ASSUME NEW S, NEW s \in Seq(S), NEW x \in S, DistinctFirsts(s),
           \A f \in Range(s) : f[1] # x[1]
    PROVE  DistinctFirsts(Append(s, x))
  <1>1. /\ DOMAIN Append(s, x) = 1 .. Len(s) + 1
        /\ DOMAIN s = 1 .. Len(s)
        /\ \A i \in 1 .. Len(s) : Append(s, x)[i] = s[i]
        /\ Append(s, x)[Len(s) + 1] = x
        /\ Len(s) \in Nat
    OBVIOUS
  <1> QED BY <1>1 DEF Range, DistinctFirsts

\* Removing the head keeps the first components distinct and removes its own.
LEMMA DistinctTail ==
    ASSUME NEW S, NEW s \in Seq(S), s # <<>>, DistinctFirsts(s)
    PROVE  /\ DistinctFirsts(Tail(s))
           /\ \A f \in Range(Tail(s)) : f[1] # Head(s)[1]
  <1>1. /\ DOMAIN Tail(s) = 1 .. Len(s) - 1
        /\ DOMAIN s = 1 .. Len(s)
        /\ \A i \in 1 .. Len(s) - 1 : Tail(s)[i] = s[i + 1]
        /\ Head(s) = s[1]
        /\ Len(s) \in Nat /\ Len(s) > 0
    OBVIOUS
  <1> QED BY <1>1 DEF Range, DistinctFirsts

\* A sequence without repetitions that misses an element of a finite set is
\* shorter than the set is large.
LEMMA ShorterThanSet ==
    ASSUME NEW T, IsFiniteSet(T), NEW s \in Seq(T), IsInjective(s),
           NEW x \in T, x \notin Range(s)
    PROVE  Len(s) < Cardinality(T)
  <1>1. /\ Append(s, x) \in Seq(T) /\ IsInjective(Append(s, x))
        /\ Len(Append(s, x)) = Len(s) + 1 /\ Len(s) \in Nat
    BY AppendFresh
  <1>2. Append(s, x) \in Injection(1 .. Len(s) + 1, T)
    <2>1. Append(s, x) \in [1 .. Len(s) + 1 -> T]
      BY <1>1, LenProperties
    <2> QED BY <1>1, <2>1 DEF Injection
  <1>3. Cardinality(1 .. Len(s) + 1) <= Cardinality(T)
    BY <1>2, FS_Injection
  <1>4. Cardinality(1 .. Len(s) + 1) = Len(s) + 1
    BY <1>1, FS_Interval
  <1>5. Cardinality(T) \in Nat
    BY FS_CardinalityType
  <1> QED BY <1>1, <1>3, <1>4, <1>5
-----------------------------------------------------------------------------
(* The order of the naturals, from the well-founded order of finite sets.  *)

\* A set of naturals that is not empty has a least element.
LEMMA Least ==
    ASSUME NEW T, T \subseteq Nat, T # {}
    PROVE  \E n \in T : \A m \in T : n <= m
  <1>1. PICK b \in T : TRUE
    OBVIOUS
  <1> DEFINE F == {0 .. m : m \in {x \in T : x <= b}}
  <1>2. b \in Nat /\ F \subseteq SUBSET (0 .. b)
    BY <1>1
  <1>3. F \subseteq FiniteSubsetsOf(0 .. b) /\ F # {}
    <2>1. \A A \in SUBSET (0 .. b) : IsFiniteSet(A)
      <3>1. IsFiniteSet(0 .. b)
        BY <1>2, FS_Interval
      <3> QED BY <3>1, FS_Subset
    <2> QED BY <1>1, <1>2, <2>1 DEF FiniteSubsetsOf
  <1>4. PICK x \in F : \A y \in F : <<y, x>> \notin StrictSubsetOrdering(0 .. b)
    <2>1. IsWellFoundedOn(StrictSubsetOrdering(0 .. b), FiniteSubsetsOf(0 .. b))
      BY FS_StrictSubsetOrderingWellFounded
    <2> HIDE DEF F
    <2> QED BY <1>3, <2>1, WFMin
  <1>5. PICK n \in T : n <= b /\ x = 0 .. n
    BY <1>4
  <1>6. ASSUME NEW m \in T, ~(n <= m) PROVE FALSE
    <2>1. m \in Nat /\ n \in Nat /\ m < n /\ m <= b
      BY <1>2, <1>5, <1>6
    <2>2. 0 .. m \subseteq 0 .. n /\ n \notin 0 .. m /\ n \in 0 .. n
      BY <2>1
    <2>3. 0 .. m \in F /\ x \in SUBSET (0 .. b) /\ 0 .. m \in SUBSET (0 .. b)
      BY <1>2, <1>4, <1>6, <2>1
    <2>4. <<0 .. m, x>> \in StrictSubsetOrdering(0 .. b)
      BY <1>5, <2>2, <2>3, SMT DEF StrictSubsetOrdering
    <2> QED BY <1>4, <2>3, <2>4
  <1> QED BY <1>6

\* One that is bounded has a greatest: the least of its bounds.
LEMMA Greatest ==
    ASSUME NEW b \in Nat, NEW T, T \subseteq 0 .. b, T # {}
    PROVE  \E n \in T : \A m \in T : m <= n
  <1> DEFINE U == {n \in Nat : \A m \in T : m <= n}
  <1>1. b \in U
    OBVIOUS
  <1>2. PICK n \in U : \A m \in U : n <= m
    <2> HIDE DEF U
    <2>1. U \subseteq Nat
      BY DEF U
    <2> QED BY <1>1, <2>1, Least
  <1>3. ASSUME n \notin T PROVE FALSE
    <2>1. \A m \in T : m \in Nat /\ m < n
      BY <1>2, <1>3
    <2>2. PICK m \in T : m \in Nat /\ m < n
      BY <2>1
    <2>3. n \in Nat
      BY <1>2
    <2>4. n - 1 \in Nat /\ \A x \in T : x <= n - 1
      BY <2>1, <2>2, <2>3
    <2> QED BY <1>2, <2>3, <2>4
  <1> QED BY <1>2, <1>3
-----------------------------------------------------------------------------
(* Finite sets, from the same order.                                       *)

\* Induction over the subsets of a finite set: a collection that has a set as soon as
\* it has all smaller ones has the whole set.
LEMMA FiniteInduction ==
    ASSUME NEW S, IsFiniteSet(S), NEW G,
           \A C \in SUBSET S : (\A D \in SUBSET C : D # C => D \in G) => C \in G
    PROVE  S \in G
  <1> DEFINE Bad == {C \in SUBSET S : C \notin G}
  <1>1. SUFFICES ASSUME S \notin G PROVE FALSE
    OBVIOUS
  <1>2. Bad \subseteq FiniteSubsetsOf(S) /\ Bad # {}
    <2>1. FiniteSubsetsOf(S) = SUBSET S
      BY FS_FiniteSubsetsOfFinite
    <2> QED BY <1>1, <2>1
  <1>3. PICK x \in Bad : \A y \in Bad : <<y, x>> \notin StrictSubsetOrdering(S)
    <2>1. IsWellFoundedOn(StrictSubsetOrdering(S), FiniteSubsetsOf(S))
      BY FS_StrictSubsetOrderingWellFounded
    <2> HIDE DEF Bad
    <2> QED BY <1>2, <2>1, WFMin
  <1>4. ASSUME NEW D \in SUBSET x, D # x PROVE D \in G
    <2>1. x \in SUBSET S /\ D \in SUBSET S
      BY <1>3
    <2>2. <<D, x>> \in StrictSubsetOrdering(S)
      BY <1>4, <2>1 DEF StrictSubsetOrdering
    <2> QED BY <1>3, <2>1, <2>2
  <1> QED BY <1>3, <1>4

\* A choice made in an order, where R holds the pairs of which the first rules out the
\* second.  What is ruled out comes later: in any part some element rules out nobody.
LastOne(S, R) ==
    \A T \in SUBSET S : T # {} => \E l \in T : \A q \in T : <<l, q>> \notin R

\* Those are chosen that none of the chosen rules out.
Chosen(K, S, R) == \A p \in S : p \in K <=> \A q \in K : <<q, p>> \notin R

\* There is such a choice.
LEMMA GreedyChoice ==
    ASSUME NEW S, IsFiniteSet(S), NEW R, LastOne(S, R)
    PROVE  \E K \in SUBSET S : Chosen(K, S, R)
  <1> DEFINE G == {C \in SUBSET S : \E K \in SUBSET C : Chosen(K, C, R)}
  <1>1. ASSUME NEW C \in SUBSET S, \A D \in SUBSET C : D # C => D \in G
        PROVE  C \in G
    <2>1. CASE C = {}
      BY <2>1 DEF Chosen
    <2>2. CASE C # {}
      <3>1. PICK l \in C : \A q \in C : <<l, q>> \notin R
        BY <2>2 DEF LastOne
      <3>2. PICK K \in SUBSET (C \ {l}) : Chosen(K, C \ {l}, R)
        <4>1. C \ {l} \in SUBSET C /\ C \ {l} # C
          BY <3>1
        <4> QED BY <1>1, <4>1
      <3>3. CASE \A q \in K : <<q, l>> \notin R
        <4>1. Chosen(K \cup {l}, C, R)
          BY <3>1, <3>2, <3>3 DEF Chosen
        <4>2. K \cup {l} \in SUBSET C
          BY <3>1, <3>2
        <4> QED BY <4>1, <4>2
      <3>4. CASE ~ \A q \in K : <<q, l>> \notin R
        <4>1. Chosen(K, C, R)
          BY <3>1, <3>2, <3>4 DEF Chosen
        <4>2. K \in SUBSET C
          BY <3>2
        <4> QED BY <4>1, <4>2
      <3> QED BY <3>3, <3>4
    <2> QED BY <2>1, <2>2
  <1>2. S \in G
    <2> HIDE DEF G
    <2> QED BY <1>1, FiniteInduction
  <1> QED BY <1>2

\* A finite set of numbers is bounded.
LEMMA FiniteIsBounded ==
    ASSUME NEW I, I \subseteq Nat, IsFiniteSet(I)
    PROVE  \E b \in Nat : \A m \in I : m <= b
  <1> DEFINE G == {C \in SUBSET I : \E b \in Nat : \A m \in C : m <= b}
  <1>1. ASSUME NEW C \in SUBSET I, \A D \in SUBSET C : D # C => D \in G
        PROVE  C \in G
    <2>1. CASE C = {}
      BY <2>1
    <2>2. CASE C # {}
      <3>1. PICK x \in C : TRUE
        BY <2>2
      <3>2. PICK b \in Nat : \A m \in C \ {x} : m <= b
        <4>1. C \ {x} \in SUBSET C /\ C \ {x} # C
          BY <3>1
        <4> QED BY <1>1, <4>1
      <3>3. b + x \in Nat /\ \A m \in C : m <= b + x
        <4>1. x \in Nat /\ \A m \in C : m \in Nat
          BY <3>1
        <4> QED BY <3>2, <4>1
      <3> QED BY <3>3
    <2> QED BY <2>1, <2>2
  <1>2. I \in G
    <2> HIDE DEF G
    <2> QED BY <1>1, FiniteInduction
  <1> QED BY <1>2

\* The elements of a finite set of numbers, in order.
Increasing(q, n) == \A i, j \in 1 .. n : i < j => q[i] < q[j]

LEMMA Enumeration ==
    ASSUME NEW I, I \subseteq Nat, IsFiniteSet(I)
    PROVE  \E q \in [1 .. Cardinality(I) -> I] : Increasing(q, Cardinality(I))
  <1> DEFINE G == {C \in SUBSET I :
                      \E q \in [1 .. Cardinality(C) -> C] : Increasing(q, Cardinality(C))}
  <1>1. ASSUME NEW C \in SUBSET I, \A D \in SUBSET C : D # C => D \in G
        PROVE  C \in G
    <2>0. IsFiniteSet(C) /\ Cardinality(C) \in Nat
      BY FS_Subset, FS_CardinalityType
    <2>1. CASE C = {}
      <3>1. Cardinality(C) = 0 /\ 1 .. 0 = {}
        BY <2>1, FS_EmptySet
      <3>2. <<>> \in [1 .. Cardinality(C) -> C] /\ Increasing(<<>>, Cardinality(C))
        BY <3>1 DEF Increasing
      <3> QED BY <3>2
    <2>2. CASE C # {}
      <3>1. PICK g \in C : \A m \in C : m <= g
        <4>1. PICK b \in Nat : \A m \in C : m <= b
          BY <2>0, FiniteIsBounded
        <4>2. C \subseteq 0 .. b
          BY <4>1
        <4> QED BY <2>2, <4>1, <4>2, Greatest
      <3> DEFINE D == C \ {g}
                 n == Cardinality(D)
      <3>2. IsFiniteSet(D) /\ n \in Nat /\ Cardinality(C) = n + 1
        <4>1. IsFiniteSet(D) /\ n = Cardinality(C) - 1
          BY <2>0, <3>1, FS_RemoveElement
        <4>2. n \in Nat
          BY <4>1, FS_CardinalityType
        <4> HIDE DEF n
        <4> QED BY <2>0, <4>1, <4>2
      <3>3. PICK q \in [1 .. n -> D] : Increasing(q, n)
        <4>1. D \in SUBSET C /\ D # C
          BY <3>1
        <4> QED BY <1>1, <4>1
      <3> DEFINE r == [i \in 1 .. n + 1 |-> IF i = n + 1 THEN g ELSE q[i]]
      <3> HIDE DEF n
      <3>4. r \in [1 .. n + 1 -> C]
        <4> SUFFICES ASSUME NEW i \in 1 .. n + 1 PROVE r[i] \in C
          OBVIOUS
        <4>1. i = n + 1 \/ i \in 1 .. n
          BY <3>2
        <4> QED BY <3>1, <3>3, <4>1
      <3>5. Increasing(r, n + 1)
        <4> SUFFICES ASSUME NEW i \in 1 .. n + 1, NEW j \in 1 .. n + 1, i < j
                     PROVE  r[i] < r[j]
          BY DEF Increasing
        <4>1. i \in 1 .. n /\ r[i] = q[i] /\ q[i] \in D
          BY <3>2, <3>3
        <4>2. CASE j = n + 1
          <5>1. q[i] \in Nat /\ g \in Nat /\ q[i] # g /\ q[i] <= g
            BY <3>1, <4>1
          <5> QED BY <4>1, <4>2, <5>1
        <4>3. CASE j # n + 1
          <5>1. j \in 1 .. n /\ r[j] = q[j]
            BY <3>2, <4>3
          <5> QED BY <3>3, <4>1, <5>1 DEF Increasing
        <4> QED BY <4>2, <4>3
      <3> HIDE DEF r
      <3> QED BY <3>2, <3>4, <3>5
    <2> QED BY <2>1, <2>2
  <1>2. I \in G
    <2> HIDE DEF G
    <2> QED BY <1>1, FiniteInduction
  <1> QED BY <1>2

\* Such an enumeration leaves nobody out.
LEMMA EnumerationIsFull ==
    ASSUME NEW I, I \subseteq Nat, IsFiniteSet(I),
           NEW q \in [1 .. Cardinality(I) -> I], Increasing(q, Cardinality(I))
    PROVE  /\ \A x \in I : \E i \in 1 .. Cardinality(I) : q[i] = x
           /\ \A i, j \in 1 .. Cardinality(I) : q[i] = q[j] => i = j
  <1>1. PICK n \in Nat : n = Cardinality(I)
    BY FS_CardinalityType
  <1>2. \A i, j \in 1 .. n : q[i] = q[j] => i = j
    <2> SUFFICES ASSUME NEW i \in 1 .. n, NEW j \in 1 .. n, q[i] = q[j] PROVE i = j
      OBVIOUS
    <2>1. q[i] \in Nat /\ q[j] \in Nat
      BY <1>1
    <2>2. ~(i < j) /\ ~(j < i)
      BY <1>1, <2>1 DEF Increasing
    <2> QED BY <2>2
  <1>3. q \in Injection(1 .. n, I)
    BY <1>1, <1>2 DEF Injection, IsInjective
  <1>4. Cardinality(1 .. n) = n
    BY FS_Interval
  <1>5. q \in Surjection(1 .. n, I)
    BY <1>1, <1>3, <1>4, FS_Injection
  <1> QED BY <1>1, <1>2, <1>5 DEF Surjection
=============================================================================
