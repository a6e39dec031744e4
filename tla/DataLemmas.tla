----------------------------- MODULE DataLemmas -----------------------------
(***************************************************************************)
(* Facts about numbers, finite sets, sums and sequences that the proofs of *)
(* several modules rest on.  What would be an induction is an argument by  *)
(* the least number: of the numbers for which a statement fails, take the  *)
(* least; below it the statement holds, and then it holds there too.       *)
(***************************************************************************)
EXTENDS Integers, SequencesExt, SequenceTheorems, FiniteSetTheorems, WellFoundedInduction, TLAPS

(* Every non-empty set of numbers has a least one.                         *)
LEMMA LeastNumber ==
    ASSUME NEW T \in SUBSET Nat, T # {}
    PROVE  \E n \in T : \A m \in T : n <= m
<1> DEFINE R == {ss \in Nat \X Nat : ss[1] < ss[2]}
<1>1. IsWellFoundedOn(R, Nat)
  BY NatLessThanWellFounded DEF OpToRel
<1>2. \E n \in T : \A m \in T : <<m, n>> \notin R
  <2> HIDE DEF R
  <2> QED
  BY <1>1, WFMin
<1>3. PICK n \in T : \A m \in T : <<m, n>> \notin R
  BY <1>2
<1>4. ASSUME NEW m \in T PROVE n <= m
  <2>1. <<m, n>> \in Nat \X Nat /\ <<m, n>>[1] = m /\ <<m, n>>[2] = n
    OBVIOUS
  <2>2. ~(m < n)
    BY <1>3, <2>1
  <2> QED
    BY <2>2
<1> QED
  BY <1>4

(* The least number form of induction: what fails at no number but the     *)
(* successors of failures holds everywhere.                                *)
LEMMA NoLeastFailure ==
    ASSUME NEW T \in SUBSET Nat, 0 \notin T, \A n \in Nat : n + 1 \in T => n \in T
    PROVE  T = {}
<1> SUFFICES ASSUME T # {} PROVE FALSE
  OBVIOUS
<1>1. PICK n \in T : \A m \in T : n <= m
  BY LeastNumber
<1>2. n \in Nat /\ n # 0
  BY <1>1
<1>3. PICK m \in Nat : n = m + 1
  BY <1>2
<1> QED
  BY <1>1, <1>3

-----------------------------------------------------------------------------
(* Division with a remainder.                                              *)
LEMMA Division ==
    ASSUME NEW x \in Nat, NEW m \in Nat \ {0}
    PROVE  \E q \in Nat, r \in 0 .. m - 1 : x = m * q + r
<1> DEFINE T == {k \in Nat : ~ \E q \in Nat, r \in 0 .. m - 1 : k = m * q + r}
<1>1. 0 \notin T
  <2>1. 0 \in 0 .. m - 1 /\ 0 = m * 0 + 0
    OBVIOUS
  <2> QED
    BY <2>1
<1>2. ASSUME NEW k \in Nat, k + 1 \in T PROVE k \in T
  <2> SUFFICES ASSUME NEW q \in Nat, NEW r \in 0 .. m - 1, k = m * q + r
               PROVE  k + 1 \notin T
    BY <1>2
  <2>1. CASE r + 1 \in 0 .. m - 1
    BY <2>1
  <2>2. CASE r = m - 1
    <3>1. k + 1 = m * (q + 1) + 0 /\ q + 1 \in Nat /\ 0 \in 0 .. m - 1
      BY <2>2
    <3> QED
      BY <3>1
  <2> QED
    BY <2>1, <2>2
<1>3. T = {}
  <2> HIDE DEF T
  <2> QED
    BY <1>1, <1>2, NoLeastFailure DEF T
<1> QED
  BY <1>3

(* What is left by a division.                                             *)
LEMMA Remainder ==
    ASSUME NEW m \in Nat \ {0}, NEW q \in Nat, NEW r \in 0 .. m - 1
    PROVE  (m * q + r) % m = r
OBVIOUS

(* Taking remainders along the way changes nothing.                        *)
LEMMA ModuloStep ==
    ASSUME NEW x \in Nat, NEW y \in Nat, NEW m \in Nat \ {0}
    PROVE  ((x % m) + y) % m = (x + y) % m
<1>1. PICK q \in Nat, r \in 0 .. m - 1 : x = m * q + r
  BY Division
<1>2. x % m = r
  BY <1>1, Remainder
<1>3. PICK k \in Nat, t \in 0 .. m - 1 : r + y = m * k + t
  <2>1. r + y \in Nat
    OBVIOUS
  <2> QED
    BY <2>1, Division
<1>4. (r + y) % m = t
  BY <1>3, Remainder
<1>5. x + y = m * (q + k) + t
  BY <1>1, <1>3
<1>6. (m * (q + k) + t) % m = t
  BY Remainder
<1> QED
  BY <1>2, <1>4, <1>5, <1>6

(* What division gives back.                                               *)
LEMMA Quotient ==
    ASSUME NEW m \in Nat \ {0}, NEW q \in Nat, NEW r \in 0 .. m - 1
    PROVE  (m * q + r) \div m = q
OBVIOUS

(* Halving once more.                                                      *)
LEMMA HalfOfQuotient ==
    ASSUME NEW i \in Nat, NEW m \in Nat \ {0}
    PROVE  (i \div m) \div 2 = i \div (2 * m) /\ i \div m \in Nat
<1>1. PICK q \in Nat, r \in 0 .. m - 1 : i = m * q + r
  BY Division
<1>2. PICK p \in Nat, s \in 0 .. 1 : q = 2 * p + s
  <2>1. 2 \in Nat \ {0}
    OBVIOUS
  <2>2. \E p \in Nat, s \in 0 .. 2 - 1 : q = 2 * p + s
    BY <2>1, Division, Zenon
  <2> QED
    BY <2>2
<1>3. i \div m = q /\ q \div 2 = p
  BY <1>1, <1>2, Quotient
<1>4. i = (2 * m) * p + (m * s + r) /\ m * s + r \in 0 .. 2 * m - 1
  <2>1. m * q = m * (2 * p) + m * s
    BY <1>2
  <2>2. m * (2 * p) = (2 * m) * p
    OBVIOUS
  <2>3. m * s \in {0, m}
    BY <1>2
  <2> QED
    BY <1>1, <2>1, <2>2, <2>3
<1>5. 2 * m \in Nat \ {0}
  OBVIOUS
<1>6. i \div (2 * m) = p
  BY <1>4, <1>5, Quotient
<1> QED
  BY <1>3, <1>6

-----------------------------------------------------------------------------
(* The powers of two, as the numbers of subsets.                           *)
LEMMA PowerIsNumber ==
    ASSUME NEW n \in Nat
    PROVE  2^n = Cardinality(SUBSET (1 .. n)) /\ 2^n \in Nat \ {0}
<1>1. IsFiniteSet(1 .. n) /\ Cardinality(1 .. n) = n
  BY FS_Interval
<1>2. IsFiniteSet(SUBSET (1 .. n)) /\ Cardinality(SUBSET (1 .. n)) = 2^n
  BY <1>1, FS_SUBSET
<1>3. Cardinality(SUBSET (1 .. n)) # 0 /\ Cardinality(SUBSET (1 .. n)) \in Nat
  BY <1>2, FS_EmptySet, FS_CardinalityType
<1> QED
  BY <1>2, <1>3

(* One element more, twice as many subsets.                                *)
LEMMA PowerDoubles ==
    ASSUME NEW n \in Nat
    PROVE  2^(n + 1) = 2 * 2^n
<1> DEFINE A == SUBSET (1 .. n)
           B == {s \cup {n + 1} : s \in A}
           f == [s \in A |-> s \cup {n + 1}]
<1>1. IsFiniteSet(A)
  <2>1. IsFiniteSet(1 .. n)
    BY FS_Interval
  <2> QED
    BY <2>1, FS_SUBSET
<1>2. f \in Bijection(A, B)
  <2>1. \A s, t \in A : f[s] = f[t] => s = t
    OBVIOUS
  <2>2. f \in [A -> B] /\ DOMAIN f = A
    OBVIOUS
  <2>3. \A t \in B : \E s \in A : f[s] = t
    OBVIOUS
  <2> HIDE DEF A, B, f
  <2> QED
    BY <2>1, <2>2, <2>3 DEF Bijection, Injection, Surjection, IsInjective
<1>3. IsFiniteSet(B) /\ Cardinality(B) = Cardinality(A)
  <2> HIDE DEF A, B, f
  <2> QED
    BY <1>1, <1>2, FS_Bijection DEF ExistsBijection
<1>4. A \cap B = {}
  OBVIOUS
<1>5. A \cup B = SUBSET (1 .. n + 1)
  <2>1. ASSUME NEW s \in SUBSET (1 .. n + 1) PROVE s \in A \cup B
    <3>1. CASE n + 1 \in s
      <4>1. s = (s \ {n + 1}) \cup {n + 1} /\ s \ {n + 1} \in A
        BY <3>1
      <4> QED
        BY <4>1
    <3>2. CASE n + 1 \notin s
      <4>1. s \in A
        BY <3>2
      <4> QED
        BY <4>1
    <3> QED
      BY <3>1, <3>2
  <2>2. ASSUME NEW s \in A \cup B PROVE s \in SUBSET (1 .. n + 1)
    OBVIOUS
  <2> QED
    BY <2>1, <2>2
<1>6. Cardinality(A \cup B) = Cardinality(A) + Cardinality(B)
  <2>1. Cardinality(A) \in Nat
    BY <1>1, FS_CardinalityType
  <2> HIDE DEF A, B
  <2>2. Cardinality(A \cup B) = Cardinality(A) + Cardinality(B) - Cardinality(A \cap B)
    BY <1>1, <1>3, FS_Union
  <2>3. Cardinality(A \cap B) = 0
    BY <1>4, FS_EmptySet, Zenon
  <2> QED
    BY <1>3, <2>1, <2>2, <2>3
<1>7. 2^n = Cardinality(A) /\ 2^(n + 1) = Cardinality(SUBSET (1 .. n + 1)) /\ 2^n \in Nat
  BY PowerIsNumber
<1>8. Cardinality(A \cup B) = Cardinality(SUBSET (1 .. n + 1))
  BY <1>5, Zenon
<1> HIDE DEF A, B
<1>9. 2^(n + 1) = Cardinality(A) + Cardinality(A)
  BY <1>3, <1>6, <1>7, <1>8, Zenon
<1> QED
  BY <1>7, <1>9
-----------------------------------------------------------------------------
(* A sequence, of whatever.                                                *)
IsSequence(s) == s \in Seq(Range(s))

(* A sequence is a function on the numbers up to its length.               *)
LEMMA SequenceShape ==
    ASSUME NEW s, IsSequence(s)
    PROVE  Len(s) \in Nat /\ DOMAIN s = 1 .. Len(s)
BY DEF IsSequence

(* And the other way round.                                                *)
LEMMA SequenceFromFunction ==
    ASSUME NEW s, NEW n \in Nat, DOMAIN s = 1 .. n, s = [i \in 1 .. n |-> s[i]]
    PROVE  IsSequence(s) /\ Len(s) = n
<1>1. s \in [1 .. n -> Range(s)]
  BY DEF Range
<1>2. s \in Seq(Range(s))
  BY <1>1, IsASeq
<1> QED
  BY <1>2 DEF IsSequence

(* A sequence with one element appended.                                   *)
LEMMA SequenceLonger ==
    ASSUME NEW s, IsSequence(s), NEW x
    PROVE  /\ IsSequence(Append(s, x)) /\ Len(Append(s, x)) = Len(s) + 1
           /\ \A i \in 1 .. Len(s) : Append(s, x)[i] = s[i]
           /\ Append(s, x)[Len(s) + 1] = x
<1> DEFINE R == Range(s) \cup {x}
<1>1. s \in Seq(R) /\ x \in R
  BY SeqMonotonic DEF IsSequence
<1>2. /\ Append(s, x) \in Seq(R) /\ Len(Append(s, x)) = Len(s) + 1
      /\ \A i \in 1 .. Len(s) : Append(s, x)[i] = s[i]
      /\ Append(s, x)[Len(s) + 1] = x
  BY <1>1, AppendProperties
<1>3. IsSequence(Append(s, x))
  <2>1. Append(s, x) \in Seq(Range(Append(s, x)))
    BY <1>2, SeqOfRange
  <2> QED
    BY <2>1 DEF IsSequence
<1> QED
  BY <1>2, <1>3

(* Sequences with the same elements are equal.                             *)
LEMMA SequencesEqual ==
    ASSUME NEW s, NEW t, IsSequence(s), IsSequence(t), Len(s) = Len(t),
           \A i \in 1 .. Len(s) : s[i] = t[i]
    PROVE  s = t
<1> DEFINE R == Range(s) \cup Range(t)
<1>1. s \in Seq(R) /\ t \in Seq(R)
  BY SeqMonotonic DEF IsSequence
<1> QED
  BY <1>1, SeqEqual

-----------------------------------------------------------------------------
(* The sum of the second components of a set of pairs.                     *)
SumOfSeconds(S) == MapThenSumSet(LAMBDA p : p[2], S)

(* The recursive function by which the library computes it.                *)
Sums(S) == CHOOSE sums : sums = [s \in SUBSET S |->
               IF s = {} THEN 0
               ELSE LET x == CHOOSE x \in s : TRUE IN x[2] + sums[s \ {x}]]

Amounting(S) == IsFiniteSet(S) /\ \A p \in S : p[2] \in Nat

SubsetsUpTo(S, n) == {s \in SUBSET S : Cardinality(s) <= n}

Chosen(s) == CHOOSE x \in s : TRUE

(* g sums up the subsets of S of at most n elements.                       *)
SumsUpTo(S, n, g) ==
    /\ g \in [SubsetsUpTo(S, n) -> Nat]
    /\ \A s \in SubsetsUpTo(S, n) : g[s] = IF s = {} THEN 0 ELSE Chosen(s)[2] + g[s \ {Chosen(s)}]

LEMMA SmallerByOne ==
    ASSUME NEW s, IsFiniteSet(s), NEW x \in s
    PROVE  /\ IsFiniteSet(s \ {x})
           /\ Cardinality(s) \in Nat /\ Cardinality(s \ {x}) \in Nat
           /\ Cardinality(s) = Cardinality(s \ {x}) + 1
<1>1. IsFiniteSet(s \ {x}) /\ Cardinality(s \ {x}) = Cardinality(s) - 1
  BY FS_RemoveElement
<1>2. Cardinality(s) \in Nat /\ Cardinality(s \ {x}) \in Nat
  BY <1>1, FS_CardinalityType
<1> QED
  BY <1>1, <1>2

(* There is a function of the kind that the library defines a sum by.      *)
LEMMA SumsExist ==
    ASSUME NEW S, Amounting(S), NEW n \in Nat
    PROVE  \E g : SumsUpTo(S, n, g)
<1> DEFINE T == {k \in Nat : ~ \E g : SumsUpTo(S, k, g)}
<1>1. 0 \notin T
  <2> DEFINE g == [s \in SubsetsUpTo(S, 0) |-> 0]
  <2>1. \A s \in SubsetsUpTo(S, 0) : s = {}
    BY FS_Subset, FS_EmptySet, FS_CardinalityType DEF SubsetsUpTo, Amounting
  <2>2. SumsUpTo(S, 0, g)
    BY <2>1 DEF SumsUpTo
  <2> QED
    BY <2>2
<1>2. ASSUME NEW k \in Nat, k + 1 \in T PROVE k \in T
  <2> SUFFICES ASSUME NEW g, SumsUpTo(S, k, g) PROVE FALSE
    OBVIOUS
  <2> DEFINE h == [s \in SubsetsUpTo(S, k + 1) |->
                     IF s = {} THEN 0 ELSE Chosen(s)[2] + g[s \ {Chosen(s)}]]
  <2>1. ASSUME NEW s \in SubsetsUpTo(S, k + 1), s # {}
        PROVE  /\ s \ {Chosen(s)} \in SubsetsUpTo(S, k) /\ s \ {Chosen(s)} \in SubsetsUpTo(S, k + 1)
               /\ Chosen(s) \in S
    <3>1. Chosen(s) \in s
      BY <2>1 DEF Chosen
    <3>2. s \in SUBSET S /\ Cardinality(s) <= k + 1
      BY DEF SubsetsUpTo
    <3>3. IsFiniteSet(s)
      BY <3>2, FS_Subset DEF Amounting
    <3>4. /\ Cardinality(s) \in Nat /\ Cardinality(s \ {Chosen(s)}) \in Nat
          /\ Cardinality(s) = Cardinality(s \ {Chosen(s)}) + 1
      BY <3>1, <3>2, <3>3, SmallerByOne, Zenon
    <3> HIDE DEF T, h
    <3>5. Cardinality(s \ {Chosen(s)}) <= k /\ Cardinality(s \ {Chosen(s)}) <= k + 1
      BY <3>2, <3>4
    <3> QED
      BY <3>1, <3>2, <3>4, <3>5 DEF SubsetsUpTo
  <2>2. h \in [SubsetsUpTo(S, k + 1) -> Nat]
    BY <2>1 DEF SumsUpTo, Amounting
  <2>3. \A s \in SubsetsUpTo(S, k) : h[s] = g[s]
    <3>1. SubsetsUpTo(S, k) \subseteq SubsetsUpTo(S, k + 1)
      BY FS_Subset, FS_CardinalityType DEF SubsetsUpTo, Amounting
    <3> QED
      BY <3>1 DEF SumsUpTo
  <2>4. SumsUpTo(S, k + 1, h)
    BY <2>1, <2>2, <2>3 DEF SumsUpTo
  <2> QED
    BY <2>4, <1>2
<1>3. T = {}
  <2> HIDE DEF T
  <2> QED
    BY <1>1, <1>2, NoLeastFailure DEF T
<1> QED
  BY <1>3


(* Sums(S) is such a function on all subsets of S.                         *)
LEMMA SumsEquation ==
    ASSUME NEW S, Amounting(S)
    PROVE  Sums(S) = [s \in SUBSET S |->
               IF s = {} THEN 0
               ELSE LET x == CHOOSE x \in s : TRUE IN x[2] + Sums(S)[s \ {x}]]
<1>1. Cardinality(S) \in Nat
  BY FS_CardinalityType DEF Amounting
<1>2. PICK g : SumsUpTo(S, Cardinality(S), g)
  BY <1>1, SumsExist
<1>3. SubsetsUpTo(S, Cardinality(S)) = SUBSET S
  BY FS_Subset DEF SubsetsUpTo, Amounting
<1>4. g = [s \in SUBSET S |->
             IF s = {} THEN 0
             ELSE LET x == CHOOSE x \in s : TRUE IN x[2] + g[s \ {x}]]
  BY <1>2, <1>3 DEF SumsUpTo, Chosen
<1> QED
  BY <1>4 DEF Sums

(* A sum is an element and the sum of the others.                          *)
LEMMA SumsValue ==
    ASSUME NEW S, Amounting(S), NEW s \in SUBSET S
    PROVE  Sums(S)[s] = IF s = {} THEN 0 ELSE Chosen(s)[2] + Sums(S)[s \ {Chosen(s)}]
BY SumsEquation, Zenon DEF Chosen

(* Of the subsets of a finite set that have a property, a smallest one.    *)
LEMMA SmallestSet ==
    ASSUME NEW S, IsFiniteSet(S), NEW F \in SUBSET SUBSET S, F # {}
    PROVE  \E s \in F : \A x \in s : s \ {x} \notin F
<1> DEFINE T == {Cardinality(s) : s \in F}
<1>1. \A s \in F : IsFiniteSet(s) /\ Cardinality(s) \in Nat
  BY FS_Subset, FS_CardinalityType
<1>2. T \in SUBSET Nat /\ T # {}
  BY <1>1
<1>3. PICK n \in T : \A m \in T : n <= m
  <2> HIDE DEF T
  <2> QED
    BY <1>2, LeastNumber
<1>4. PICK s \in F : Cardinality(s) = n
  BY <1>3
<1>5. ASSUME NEW x \in s, s \ {x} \in F PROVE FALSE
  <2>1. Cardinality(s) <= Cardinality(s \ {x})
    BY <1>3, <1>4, <1>5
  <2>2. Cardinality(s) = Cardinality(s \ {x}) + 1 /\ Cardinality(s \ {x}) \in Nat
    BY <1>1, SmallerByOne
  <2> QED
    BY <2>1, <2>2
<1> QED
  BY <1>5

(* Sums of numbers are numbers.                                            *)
LEMMA SumsAreNumbers ==
    ASSUME NEW S, Amounting(S), NEW s \in SUBSET S
    PROVE  Sums(S)[s] \in Nat
<1> DEFINE F == {t \in SUBSET S : Sums(S)[t] \notin Nat}
<1> SUFFICES ASSUME F # {} PROVE FALSE
  OBVIOUS
<1>1. PICK t \in F : \A x \in t : t \ {x} \notin F
  <2>1. F \in SUBSET SUBSET S
    OBVIOUS
  <2> HIDE DEF F
  <2> QED
    BY <2>1, SmallestSet DEF Amounting
<1>2. Sums(S)[t] = IF t = {} THEN 0 ELSE Chosen(t)[2] + Sums(S)[t \ {Chosen(t)}]
  BY SumsValue
<1>3. t # {} /\ Chosen(t) \in t
  BY <1>2 DEF Chosen
<1>4. Sums(S)[t \ {Chosen(t)}] \in Nat
  BY <1>1, <1>3
<1> QED
  BY <1>2, <1>3, <1>4 DEF Amounting

(* It does not matter of which set a set is seen as a subset.              *)
LEMMA SumsAgree ==
    ASSUME NEW S, Amounting(S), NEW U \in SUBSET S, NEW s \in SUBSET U
    PROVE  Sums(U)[s] = Sums(S)[s]
<1> DEFINE F == {t \in SUBSET U : Sums(U)[t] # Sums(S)[t]}
<1>0. Amounting(U)
  BY FS_Subset DEF Amounting
<1> SUFFICES ASSUME F # {} PROVE FALSE
  OBVIOUS
<1>1. PICK t \in F : \A x \in t : t \ {x} \notin F
  <2>1. F \in SUBSET SUBSET U
    OBVIOUS
  <2> HIDE DEF F
  <2> QED
    BY <1>0, <2>1, SmallestSet DEF Amounting
<1>2. /\ Sums(U)[t] = IF t = {} THEN 0 ELSE Chosen(t)[2] + Sums(U)[t \ {Chosen(t)}]
      /\ Sums(S)[t] = IF t = {} THEN 0 ELSE Chosen(t)[2] + Sums(S)[t \ {Chosen(t)}]
  BY <1>0, SumsValue
<1>3. t # {} /\ Chosen(t) \in t
  BY <1>2 DEF Chosen
<1>4. Sums(U)[t \ {Chosen(t)}] = Sums(S)[t \ {Chosen(t)}]
  BY <1>1, <1>3
<1> QED
  BY <1>2, <1>3, <1>4

LEMMA SumIsSums ==
    ASSUME NEW S
    PROVE  SumOfSeconds(S) = Sums(S)[S]
BY DEF SumOfSeconds, MapThenSumSet, MapThenFoldSet, Sums

(* A sum is a number, and nothing sums up to nothing.                      *)
LEMMA SumIsNumber ==
    ASSUME NEW S, Amounting(S)
    PROVE  SumOfSeconds(S) \in Nat
BY SumIsSums, SumsAreNumbers

(* The sum of nothing.                                                     *)
LEMMA SumOfNone == SumOfSeconds({}) = 0
BY DEF SumOfSeconds, MapThenSumSet, MapThenFoldSet

(* The summand the library happens to choose...                            *)
LEMMA SumByChoice ==
    ASSUME NEW S, Amounting(S), S # {}
    PROVE  SumOfSeconds(S) = Chosen(S)[2] + SumOfSeconds(S \ {Chosen(S)})
<1>1. SumOfSeconds(S) = Chosen(S)[2] + Sums(S)[S \ {Chosen(S)}]
  BY SumIsSums, SumsValue
<1>2. Sums(S)[S \ {Chosen(S)}] = Sums(S \ {Chosen(S)})[S \ {Chosen(S)}]
  BY SumsAgree
<1> QED
  BY <1>1, <1>2, SumIsSums

(* ... does not matter.                                                    *)
LEMMA SumWithout ==
    ASSUME NEW S, Amounting(S), NEW x \in S
    PROVE  SumOfSeconds(S) = x[2] + SumOfSeconds(S \ {x})
<1> DEFINE F == {t \in SUBSET S : \E y \in t : SumOfSeconds(t) # y[2] + SumOfSeconds(t \ {y})}
<1> SUFFICES ASSUME F # {} PROVE FALSE
  OBVIOUS
<1>1. PICK t \in F : \A y \in t : t \ {y} \notin F
  <2>1. F \in SUBSET SUBSET S
    OBVIOUS
  <2> HIDE DEF F
  <2> QED
    BY <2>1, SmallestSet DEF Amounting
<1>2. PICK y \in t : SumOfSeconds(t) # y[2] + SumOfSeconds(t \ {y})
  OBVIOUS
<1> DEFINE z == Chosen(t)
<1>3. z \in t
  BY DEF Chosen
<1>4. Amounting(t) /\ \A u \in SUBSET t : Amounting(u)
  BY FS_Subset DEF Amounting
<1>5. SumOfSeconds(t) = z[2] + SumOfSeconds(t \ {z})
  BY <1>3, <1>4, SumByChoice
<1>6. z # y
  BY <1>2, <1>5
<1>7. SumOfSeconds(t \ {z}) = y[2] + SumOfSeconds((t \ {z}) \ {y})
  BY <1>1, <1>3, <1>6
<1>8. SumOfSeconds(t \ {y}) = z[2] + SumOfSeconds((t \ {y}) \ {z})
  BY <1>1, <1>3, <1>6
<1>9. (t \ {z}) \ {y} = (t \ {y}) \ {z}
  OBVIOUS
<1>10. y[2] \in Nat /\ z[2] \in Nat /\ SumOfSeconds((t \ {y}) \ {z}) \in Nat
  BY <1>3, <1>4, SumIsNumber DEF Amounting
<1>11. SumOfSeconds((t \ {z}) \ {y}) = SumOfSeconds((t \ {y}) \ {z})
  BY <1>9, Zenon
<1> DEFINE rest == SumOfSeconds((t \ {y}) \ {z})
<1>12. SumOfSeconds(t) = z[2] + (y[2] + rest)
  BY <1>5, <1>7, <1>11, Zenon
<1>13. y[2] + SumOfSeconds(t \ {y}) = y[2] + (z[2] + rest)
  BY <1>8, Zenon
<1>14. z[2] + (y[2] + rest) = y[2] + (z[2] + rest)
  <2> HIDE DEF z, rest
  <2> QED
    BY <1>10 DEF rest
<1> QED
  BY <1>2, <1>12, <1>13, <1>14, Zenon

(* One summand more.                                                       *)
LEMMA SumWith ==
    ASSUME NEW S, Amounting(S), NEW x, x[2] \in Nat, x \notin S
    PROVE  SumOfSeconds(S \cup {x}) = SumOfSeconds(S) + x[2]
<1>1. Amounting(S \cup {x})
  BY FS_AddElement DEF Amounting
<1>2. (S \cup {x}) \ {x} = S
  OBVIOUS
<1>3. SumOfSeconds(S \cup {x}) = x[2] + SumOfSeconds(S)
  BY <1>1, <1>2, SumWithout
<1>4. SumOfSeconds(S) \in Nat
  BY SumIsNumber
<1> QED
  BY <1>3, <1>4

(* A part sums up to no more than the whole.                               *)
LEMMA SumOfPart ==
    ASSUME NEW S, Amounting(S), NEW P \in SUBSET S
    PROVE  SumOfSeconds(P) <= SumOfSeconds(S)
<1> DEFINE F == {t \in SUBSET S : P \subseteq t /\ ~(SumOfSeconds(P) <= SumOfSeconds(t))}
<1> SUFFICES ASSUME F # {} PROVE FALSE
  OBVIOUS
<1>1. PICK t \in F : \A y \in t : t \ {y} \notin F
  <2>1. F \in SUBSET SUBSET S
    OBVIOUS
  <2> HIDE DEF F
  <2> QED
    BY <2>1, SmallestSet DEF Amounting
<1>2. \A u \in SUBSET S : Amounting(u)
  BY FS_Subset DEF Amounting
<1>3. \A u \in SUBSET S : SumOfSeconds(u) \in Nat
  BY <1>2, SumIsNumber
<1>4. PICK y \in t : y \notin P
  <2>1. t # P
    BY <1>3
  <2> QED
    BY <2>1
<1>5. SumOfSeconds(t) = y[2] + SumOfSeconds(t \ {y})
  BY <1>2, SumWithout
<1>6. SumOfSeconds(P) <= SumOfSeconds(t \ {y})
  BY <1>1, <1>4
<1>7. y[2] \in Nat /\ SumOfSeconds(t \ {y}) \in Nat /\ SumOfSeconds(P) \in Nat
  BY <1>3 DEF Amounting
<1>8. SumOfSeconds(P) <= SumOfSeconds(t)
  <2> HIDE DEF F
  <2> QED
  BY <1>5, <1>6, <1>7
<1> QED
  BY <1>8

-----------------------------------------------------------------------------
(* Sequences of sequences, joined.                                         *)
(* The recursive function by which the library joins sequences.            *)
Flattened(s) == CHOOSE flatten : flatten = [i \in 1 .. Len(s) |->
                    IF i = 1 THEN s[i] ELSE flatten[i - 1] \o s[i]]

FlattensUpTo(s, n, f) ==
    f = [i \in 1 .. n |-> IF i = 1 THEN s[i] ELSE f[i - 1] \o s[i]]

(* A function on the first n numbers is a sequence.                        *)
LEMMA FunctionIsSeq ==
    ASSUME NEW S, NEW n \in Nat, NEW f \in [1 .. n -> S]
    PROVE  f \in Seq(S) /\ Len(f) = n /\ IsSequence(f)
<1>1. f \in Seq(S) /\ Len(f) = n
  OBVIOUS
<1> QED
  BY <1>1, SeqOfRange DEF IsSequence

(* There is a function of the kind that FlattenSeq is defined by.          *)
LEMMA FlattensExist ==
    ASSUME NEW s, NEW n \in Nat
    PROVE  \E f : FlattensUpTo(s, n, f)
<1> DEFINE T == {k \in Nat : ~ \E f : FlattensUpTo(s, k, f)}
<1>1. 0 \notin T
  <2>1. FlattensUpTo(s, 0, [i \in 1 .. 0 |-> s])
    BY DEF FlattensUpTo
  <2> QED
    BY <2>1
<1>2. ASSUME NEW k \in Nat, k + 1 \in T PROVE k \in T
  <2> SUFFICES ASSUME NEW f, FlattensUpTo(s, k, f) PROVE FALSE
    OBVIOUS
  <2> DEFINE g == [i \in 1 .. k + 1 |-> IF i = 1 THEN s[i] ELSE f[i - 1] \o s[i]]
  <2>1. \A i \in 1 .. k : g[i] = f[i]
    <3>1. \A i \in 1 .. k : f[i] = IF i = 1 THEN s[i] ELSE f[i - 1] \o s[i]
      <4> DEFINE h == [i \in 1 .. k |-> IF i = 1 THEN s[i] ELSE f[i - 1] \o s[i]]
      <4>1. \A i \in 1 .. k : h[i] = IF i = 1 THEN s[i] ELSE f[i - 1] \o s[i]
        OBVIOUS
      <4>2. f = h
        BY DEF FlattensUpTo
      <4> HIDE DEF h
      <4> QED
        BY <4>1, <4>2, Zenon
    <3>2. \A i \in 1 .. k : g[i] = IF i = 1 THEN s[i] ELSE f[i - 1] \o s[i]
      OBVIOUS
    <3> HIDE DEF g
    <3> QED
      BY <3>1, <3>2, Zenon
  <2>2. \A i \in 1 .. k + 1 : i = 1 \/ i - 1 \in 1 .. k
    OBVIOUS
  <2>3. g = [i \in 1 .. k + 1 |-> IF i = 1 THEN s[i] ELSE g[i - 1] \o s[i]]
    <3>1. \A i \in 1 .. k + 1 : i = 1 \/ g[i - 1] = f[i - 1]
      BY <2>1, <2>2
    <3>2. \A i \in 1 .. k + 1 : g[i] = IF i = 1 THEN s[i] ELSE f[i - 1] \o s[i]
      OBVIOUS
    <3>3. DOMAIN g = 1 .. k + 1 /\ g = [i \in DOMAIN g |-> g[i]]
      OBVIOUS
    <3> HIDE DEF g, T
    <3>4. \A i \in 1 .. k + 1 : g[i] = IF i = 1 THEN s[i] ELSE g[i - 1] \o s[i]
      BY <3>1, <3>2, Zenon
    <3> QED
      BY <3>3, <3>4
  <2>4. FlattensUpTo(s, k + 1, g)
    BY <2>3 DEF FlattensUpTo
  <2> QED
    BY <1>2, <2>4
<1>3. T = {}
  <2>1. T \in SUBSET Nat
    OBVIOUS
  <2> HIDE DEF T
  <2> QED
    BY <1>1, <1>2, <2>1, NoLeastFailure
<1> QED
  BY <1>3

(* So the one it chooses obeys its defining equation.                      *)
LEMMA FlattenEquation ==
    ASSUME NEW s, Len(s) \in Nat \ {0}
    PROVE  /\ FlattenSeq(s) = Flattened(s)[Len(s)]
           /\ Flattened(s)[1] = s[1]
           /\ \A i \in 1 .. Len(s) - 1 : Flattened(s)[i + 1] = Flattened(s)[i] \o s[i + 1]
<1>1. FlattenSeq(s) = Flattened(s)[Len(s)]
  BY DEF FlattenSeq, Flattened
<1>2. Flattened(s) = [i \in 1 .. Len(s) |->
          IF i = 1 THEN s[i] ELSE Flattened(s)[i - 1] \o s[i]]
  <2>1. \E f : FlattensUpTo(s, Len(s), f)
    BY FlattensExist
  <2> QED
    BY <2>1, Zenon DEF FlattensUpTo, Flattened
<1> HIDE DEF Flattened
<1>3. Flattened(s)[1] = s[1]
  BY <1>2
<1>4. ASSUME NEW i \in 1 .. Len(s) - 1
      PROVE  Flattened(s)[i + 1] = Flattened(s)[i] \o s[i + 1]
  <2>1. i + 1 \in 1 .. Len(s) /\ i + 1 # 1 /\ (i + 1) - 1 = i
    OBVIOUS
  <2> QED
    BY <1>2, <2>1
<1> QED
  BY <1>1, <1>3, <1>4

(* Blocks of one length, joined: where each of them is then.               *)
Blocks(s, n, k, f, S) ==
    /\ f \in Seq(S)
    /\ Len(f) = n * k
    /\ \A i \in 1 .. k, j \in 1 .. n : f[n * (i - 1) + j] = s[i][j]

(* A flattened sequence of blocks has each block in its place.             *)
LEMMA FlattenBlocks ==
    ASSUME NEW S, NEW n \in Nat \ {0}, NEW s, Len(s) \in Nat \ {0},
           \A i \in 1 .. Len(s) : s[i] \in [1 .. n -> S]
    PROVE  Blocks(s, n, Len(s), FlattenSeq(s), S)
<1> DEFINE T == {k \in Nat : k < Len(s) /\ ~Blocks(s, n, k + 1, Flattened(s)[k + 1], S)}
<1>0. ASSUME NEW i \in 1 .. Len(s)
      PROVE  s[i] \in Seq(S) /\ Len(s[i]) = n /\ \A j \in 1 .. n : s[i][j] \in S
  OBVIOUS
<1>1. 0 \notin T
  <2>1. Flattened(s)[1] = s[1]
    BY FlattenEquation
  <2>2. s[1] \in Seq(S) /\ Len(s[1]) = n
    BY <1>0
  <2>3. \A i \in 1 .. 1, j \in 1 .. n : n * (i - 1) + j = j /\ i = 1
    OBVIOUS
  <2>4. n * 1 = n
    OBVIOUS
  <2>5. Blocks(s, n, 0 + 1, Flattened(s)[0 + 1], S)
    BY <2>1, <2>2, <2>3, <2>4 DEF Blocks
  <2> QED
    BY <2>5
<1>2. ASSUME NEW k \in Nat, k + 1 \in T PROVE k \in T
  <2> DEFINE f == Flattened(s)[k + 1]
             g == Flattened(s)[(k + 1) + 1]
             b == s[(k + 1) + 1]
  <2> SUFFICES ASSUME Blocks(s, n, k + 1, f, S) PROVE Blocks(s, n, (k + 1) + 1, g, S)
    BY <1>2
  <2>1. k + 1 \in 1 .. Len(s) - 1 /\ (k + 1) + 1 \in 1 .. Len(s)
    BY <1>2
  <2>2. g = f \o b
    BY <2>1, FlattenEquation
  <2>3. b \in Seq(S) /\ Len(b) = n
    BY <1>0, <2>1
  <2>4. f \in Seq(S) /\ Len(f) = n * (k + 1)
        /\ \A i \in 1 .. k + 1, j \in 1 .. n : f[n * (i - 1) + j] = s[i][j]
    BY DEF Blocks
  <2> HIDE DEF f, g, b, T
  <2>5. /\ g \in Seq(S) /\ Len(g) = Len(f) + Len(b)
        /\ \A i \in 1 .. Len(f) + Len(b) : g[i] = IF i <= Len(f) THEN f[i] ELSE b[i - Len(f)]
    BY <2>2, <2>3, <2>4, ConcatProperties
  <2>6. n * ((k + 1) + 1) = n * (k + 1) + n /\ n * (k + 1) \in Nat
    OBVIOUS
  <2>7. ASSUME NEW i \in 1 .. (k + 1) + 1, NEW j \in 1 .. n
        PROVE  g[n * (i - 1) + j] = s[i][j]
    <3>1. CASE i = (k + 1) + 1
      <4>1. n * (i - 1) + j = Len(f) + j
        BY <2>4, <3>1
      <4>2. Len(f) + j \in 1 .. Len(f) + Len(b) /\ ~(Len(f) + j <= Len(f)) /\ (Len(f) + j) - Len(f) = j
        BY <2>3, <2>4, <2>6
      <4>3. g[Len(f) + j] = b[j]
        BY <2>5, <4>2
      <4> QED
        BY <3>1, <4>1, <4>3 DEF b
    <3>2. CASE i \in 1 .. k + 1
      <4>1. n * (i - 1) + j \in 1 .. n * (k + 1)
        <5>1. PICK p \in Nat, q \in Nat : p = i - 1 /\ k + 1 = i + q
          BY <3>2
        <5>2. n * (i - 1) \in Nat /\ n * q \in Nat
          BY <5>1
        <5>3. n * (k + 1) = n * (i - 1) + n + n * q
          BY <5>1
        <5> QED
          BY <5>2, <5>3
      <4>2. g[n * (i - 1) + j] = f[n * (i - 1) + j]
        BY <2>3, <2>4, <2>5, <2>6, <4>1
      <4> QED
        BY <2>4, <3>2, <4>2
    <3> QED
      BY <3>1, <3>2
  <2> QED
    BY <2>3, <2>4, <2>5, <2>6, <2>7 DEF Blocks
<1>3. T = {}
  <2>1. T \in SUBSET Nat
    OBVIOUS
  <2> HIDE DEF T
  <2> QED
    BY <1>1, <1>2, <2>1, NoLeastFailure
<1>4. Len(s) - 1 \in Nat /\ Len(s) - 1 < Len(s) /\ (Len(s) - 1) + 1 = Len(s)
  OBVIOUS
<1>5. Blocks(s, n, Len(s), Flattened(s)[Len(s)], S)
  BY <1>3, <1>4
<1> QED
  BY <1>5, FlattenEquation

(* A place among k blocks of n.                                            *)
LEMMA PlaceInBlock ==
    ASSUME NEW n \in Nat \ {0}, NEW k \in Nat, NEW i \in 1 .. k, NEW j \in 1 .. n
    PROVE  n * (i - 1) + j \in 1 .. n * k /\ n * (i - 1) \in Nat /\ n * i = n * (i - 1) + n
<1>1. PICK p \in Nat, q \in Nat : p = i - 1 /\ k = i + q
  OBVIOUS
<1>2. n * (i - 1) \in Nat /\ n * q \in Nat
  BY <1>1
<1>3. n * i = n * (i - 1) + n
  OBVIOUS
<1>4. n * k = n * i + n * q
  BY <1>1
<1> QED
  BY <1>2, <1>3, <1>4

-----------------------------------------------------------------------------
(* Sequences given by their elements; the rest of a sequence.              *)
LEMMA TupleOf2 ==
    ASSUME NEW a, NEW b
    PROVE  LET s == <<a, b>> IN Len(s) = 2 /\ IsSequence(s)
<1> DEFINE S == {a, b}
           s == <<a, b>>
<1>1. a \in S /\ b \in S
  OBVIOUS
<1> HIDE DEF S
<1>2. s \in Seq(S) /\ Len(s) = 2
  BY <1>1
<1> QED
  BY <1>2, SeqOfRange DEF IsSequence

LEMMA TupleOf3 ==
    ASSUME NEW a, NEW b, NEW c
    PROVE  LET s == <<a, b, c>> IN Len(s) = 3 /\ IsSequence(s)
<1> DEFINE S == {a, b, c}
           s == <<a, b, c>>
<1>1. a \in S /\ b \in S /\ c \in S
  OBVIOUS
<1> HIDE DEF S
<1>2. s \in Seq(S) /\ Len(s) = 3
  BY <1>1
<1> QED
  BY <1>2, SeqOfRange DEF IsSequence

LEMMA TupleOf5 ==
    ASSUME NEW a, NEW b, NEW c, NEW d, NEW e
    PROVE  LET s == <<a, b, c, d, e>> IN Len(s) = 5 /\ IsSequence(s)
<1> DEFINE S == {a, b, c, d, e}
           s == <<a, b, c, d, e>>
<1>1. a \in S /\ b \in S /\ c \in S /\ d \in S /\ e \in S
  OBVIOUS
<1> HIDE DEF S
<1>2. s \in Seq(S) /\ Len(s) = 5
  BY <1>1
<1> QED
  BY <1>2, SeqOfRange DEF IsSequence

LEMMA TupleOf6 ==
    ASSUME NEW a, NEW b, NEW c, NEW d, NEW e, NEW f
    PROVE  LET s == <<a, b, c, d, e, f>> IN Len(s) = 6 /\ IsSequence(s)
<1> DEFINE S == {a, b, c, d, e, f}
           s == <<a, b, c, d, e, f>>
<1>1. a \in S /\ b \in S /\ c \in S /\ d \in S /\ e \in S /\ f \in S
  OBVIOUS
<1> HIDE DEF S
<1>2. s \in Seq(S) /\ Len(s) = 6
  BY <1>1
<1> QED
  BY <1>2, SeqOfRange DEF IsSequence

LEMMA TupleOf7 ==
    ASSUME NEW a, NEW b, NEW c, NEW d, NEW e, NEW f, NEW g
    PROVE  LET s == <<a, b, c, d, e, f, g>> IN Len(s) = 7 /\ IsSequence(s)
<1> DEFINE S == {a, b, c, d, e, f, g}
           s == <<a, b, c, d, e, f, g>>
<1>1. a \in S /\ b \in S /\ c \in S /\ d \in S /\ e \in S /\ f \in S /\ g \in S
  OBVIOUS
<1> HIDE DEF S
<1>2. s \in Seq(S) /\ Len(s) = 7
  BY <1>1
<1> QED
  BY <1>2, SeqOfRange DEF IsSequence

LEMMA PairJoined ==
    ASSUME NEW x, NEW y
    PROVE  <<x>> \o <<y>> = <<x, y>>
<1> DEFINE S == {x, y}
           a == <<x>>
           b == <<y>>
<1>1. x \in S /\ y \in S
  OBVIOUS
<1> HIDE DEF S
<1>2. a \in Seq(S) /\ b \in Seq(S) /\ Len(a) = 1 /\ Len(b) = 1 /\ a[1] = x /\ b[1] = y
  BY <1>1
<1>3. <<x, y>> \in Seq(S) /\ Len(<<x, y>>) = 2 /\ <<x, y>>[1] = x /\ <<x, y>>[2] = y
  BY <1>1
<1> HIDE DEF a, b
<1>4. a \o b \in Seq(S) /\ Len(a \o b) = 2 /\ (a \o b)[1] = x /\ (a \o b)[2] = y
  BY <1>2, ConcatProperties
<1>5. a \o b = <<x, y>>
  <2> DEFINE c == a \o b
             d == <<x, y>>
  <2>1. c \in Seq(S) /\ d \in Seq(S) /\ Len(c) = Len(d) /\ Len(c) = 2
    BY <1>3, <1>4
  <2>2. c[1] = d[1] /\ c[2] = d[2]
    BY <1>3, <1>4
  <2> HIDE DEF c, d
  <2>3. \A i \in 1 .. Len(c) : c[i] = d[i]
    BY <2>1, <2>2
  <2>4. c = d
    BY <2>1, <2>3, SeqEqual
  <2> QED
    BY <2>4 DEF c, d
<1> QED
  BY <1>5 DEF a, b

(* What Head takes off a sequence, and what Tail leaves.                   *)
LEMMA SequenceRest ==
    ASSUME NEW s, IsSequence(s), s # <<>>
    PROVE  /\ IsSequence(Tail(s)) /\ Len(s) \in Nat \ {0} /\ Len(Tail(s)) = Len(s) - 1
           /\ Head(s) = s[1] /\ \A i \in 1 .. Len(Tail(s)) : Tail(s)[i] = s[i + 1]
<1>1. s \in Seq(Range(s))
  BY DEF IsSequence
<1>2. /\ Tail(s) \in Seq(Range(s)) /\ Len(s) \in Nat \ {0} /\ Len(Tail(s)) = Len(s) - 1
      /\ Head(s) = s[1] /\ \A i \in 1 .. Len(Tail(s)) : Tail(s)[i] = s[i + 1]
  BY <1>1, HeadTailProperties, EmptySeq
<1>3. IsSequence(Tail(s))
  BY <1>2, SeqOfRange DEF IsSequence
<1> QED
  BY <1>2, <1>3
=============================================================================
