------------------------------ MODULE ListLemmas ------------------------------
(***************************************************************************)
(* Facts about finite sets and sequences that the proofs about the         *)
(* findings and the parser keep needing: counting, the place of an element *)
(* in an order, and what FlattenSeq of the community modules computes.     *)
(***************************************************************************)
EXTENDS Integers, SequencesExt, FiniteSetTheorems, SequenceTheorems, WellFoundedInduction, TLAPS

-----------------------------------------------------------------------------
(* Induction, in a form that has a set for the property.                   *)

Smaller == {pair \in Nat \X Nat : pair[1] < pair[2]}

(* A set of numbers has a smallest one.                                    *)
LEMMA SmallestNumber ==
  ASSUME NEW T \in SUBSET Nat, T # {}
  PROVE  \E x \in T : \A y \in T : x <= y
<1>1. IsWellFoundedOn(Smaller, Nat)
  BY NatLessThanWellFounded, Zenon DEF OpToRel, Smaller
<1>2. PICK x \in T : \A y \in T : ~(<<y, x>> \in Smaller)
  BY <1>1, WFMin, Zenon
<1>3. \A y \in T : ~(y < x)
  BY <1>2 DEF Smaller
<1> QED
  BY <1>3

(* Induction, where the property is membership of a set.                   *)
LEMMA InductionOnNumbers ==
  ASSUME NEW T, 0 \in T, \A n \in Nat : n \in T => n + 1 \in T
  PROVE  Nat \subseteq T
<1> SUFFICES ASSUME Nat \ T # {} PROVE FALSE
  OBVIOUS
<1>1. PICK x \in Nat \ T : \A y \in Nat \ T : x <= y
  BY SmallestNumber
<1>2. x # 0 /\ x - 1 \in Nat /\ x - 1 \in T
  BY <1>1
<1> QED
  BY <1>1, <1>2

-----------------------------------------------------------------------------
(* Counting.                                                               *)

(* Sets with a one-to-one map between them have as many members.           *)
LEMMA CountBijection ==
  ASSUME NEW S, NEW T, IsFiniteSet(S), NEW f \in [S -> T],
         \A x, y \in S : f[x] = f[y] => x = y,
         \A t \in T : \E x \in S : f[x] = t
  PROVE  IsFiniteSet(T) /\ Cardinality(T) = Cardinality(S)
<1>1. f \in Surjection(S, T) /\ f \in Injection(S, T)
  BY DEF Surjection, Injection, IsInjective
<1> QED
  BY <1>1, FS_Surjection

(* A function of a finite set into itself that takes no value twice takes  *)
(* every value.                                                            *)
LEMMA InjectionIsOnto ==
  ASSUME NEW S, IsFiniteSet(S), NEW f \in [S -> S],
         \A x, y \in S : f[x] = f[y] => x = y
  PROVE  \A t \in S : \E x \in S : f[x] = t
<1>1. f \in Injection(S, S)
  BY DEF Injection, IsInjective
<1>2. f \in Surjection(S, S)
  BY <1>1, FS_Injection
<1> QED
  BY <1>2 DEF Surjection

(* Two members are needed, and enough, for a count of two or more.         *)
LEMMA TwoMembers ==
  ASSUME NEW S, IsFiniteSet(S)
  PROVE  Cardinality(S) \in Nat /\ (Cardinality(S) >= 2 <=> \E x, y \in S : x # y)
<1>1. Cardinality(S) \in Nat
  BY FS_CardinalityType
<1>2. Cardinality(S) = 0 <=> S = {}
  BY FS_EmptySet
<1>3. Cardinality(S) = 1 <=> \E x : S = {x}
  BY FS_Singleton
<1> QED
  BY <1>1, <1>2, <1>3

(* The positions up to k + 1 are those up to k, and k + 1.                 *)
LEMMA CountNext ==
  ASSUME NEW T, NEW k \in Nat
  PROVE  /\ IsFiniteSet({n \in 1..k : n \in T})
         /\ Cardinality({n \in 1..k : n \in T}) \in Nat
         /\ Cardinality({n \in 1..(k + 1) : n \in T}) =
              Cardinality({n \in 1..k : n \in T}) + (IF k + 1 \in T THEN 1 ELSE 0)
<1> DEFINE A == {n \in 1..k : n \in T}
<1>1. IsFiniteSet(1..k)
  BY FS_Interval
<1>2. IsFiniteSet(A) /\ Cardinality(A) \in Nat
  BY <1>1, FS_Subset, FS_CardinalityType
<1>3. CASE k + 1 \in T
  <2>1. {n \in 1..(k + 1) : n \in T} = A \union {k + 1} /\ k + 1 \notin A
    BY <1>3
  <2> QED
    BY <1>2, <1>3, <2>1, FS_AddElement
<1>4. CASE k + 1 \notin T
  <2>1. {n \in 1..(k + 1) : n \in T} = A
    BY <1>4
  <2> QED
    BY <1>2, <1>4, <2>1
<1> QED
  BY <1>2, <1>3, <1>4

(* The places of a sequence that hold an element of T.                     *)
Where(seq, T) == {n \in DOMAIN seq : seq[n] \in T}

(* A sequence has finitely many places.                                    *)
LEMMA WhereIsFinite ==
  ASSUME NEW S, NEW seq \in Seq(S), NEW T
  PROVE  IsFiniteSet(Where(seq, T)) /\ Cardinality(Where(seq, T)) \in Nat
<1>1. IsFiniteSet(1..Len(seq)) /\ DOMAIN seq = 1..Len(seq)
  BY FS_Interval
<1> QED
  BY <1>1, FS_Subset, FS_CardinalityType DEF Where

(* Append adds one place, and that holds the new element.                  *)
LEMMA WhereOfAppend ==
  ASSUME NEW S, NEW seq \in Seq(S), NEW x \in S, NEW T
  PROVE  Cardinality(Where(Append(seq, x), T)) =
           Cardinality(Where(seq, T)) + (IF x \in T THEN 1 ELSE 0)
<1> DEFINE longer == Append(seq, x)
<1>1. /\ Len(seq) \in Nat /\ DOMAIN seq = 1..Len(seq)
      /\ DOMAIN longer = 1..(Len(seq) + 1)
      /\ longer[Len(seq) + 1] = x
      /\ \A i \in 1..Len(seq) : longer[i] = seq[i]
  BY AppendProperties, LenProperties
<1>2. IsFiniteSet(Where(seq, T)) /\ Cardinality(Where(seq, T)) \in Nat
  BY WhereIsFinite
<1> HIDE DEF longer
<1>3. CASE x \in T
  <2>1. Where(longer, T) = Where(seq, T) \union {Len(seq) + 1} /\ Len(seq) + 1 \notin Where(seq, T)
    BY <1>1, <1>3 DEF Where
  <2> QED
    BY <1>2, <1>3, <2>1, FS_AddElement DEF longer
<1>4. CASE x \notin T
  <2>1. Where(longer, T) = Where(seq, T)
    BY <1>1, <1>4 DEF Where
  <2> QED
    BY <1>2, <1>4, <2>1 DEF longer
<1> QED
  BY <1>3, <1>4

(* The places of a concatenation are those of its parts.                   *)
LEMMA WhereOfConcat ==
  ASSUME NEW S, NEW s \in Seq(S), NEW t \in Seq(S), NEW T
  PROVE  Cardinality(Where(s \o t, T)) = Cardinality(Where(s, T)) + Cardinality(Where(t, T))
<1> DEFINE st    == s \o t
           moved == {Len(s) + n : n \in Where(t, T)}
           move  == [n \in Where(t, T) |-> Len(s) + n]
<1>1. /\ DOMAIN s = 1..Len(s) /\ DOMAIN t = 1..Len(t) /\ DOMAIN st = 1..(Len(s) + Len(t))
      /\ Len(s) \in Nat /\ Len(t) \in Nat
      /\ \A i \in 1..Len(s) : st[i] = s[i]
      /\ \A i \in 1..Len(t) : st[Len(s) + i] = t[i]
  BY ConcatProperties
<1>2. /\ IsFiniteSet(Where(s, T)) /\ Cardinality(Where(s, T)) \in Nat
      /\ IsFiniteSet(Where(t, T)) /\ Cardinality(Where(t, T)) \in Nat
  BY WhereIsFinite
<1>3. Where(t, T) \subseteq Nat
  BY <1>1 DEF Where
<1> HIDE DEF st
<1>4. IsFiniteSet(moved) /\ Cardinality(moved) = Cardinality(Where(t, T))
  <2>1. move \in [Where(t, T) -> moved]
    OBVIOUS
  <2>2. \A m, n \in Where(t, T) : move[m] = move[n] => m = n
    BY <1>1, <1>3
  <2>3. \A p \in moved : \E n \in Where(t, T) : move[n] = p
    OBVIOUS
  <2> HIDE DEF moved, move
  <2> QED
    BY <1>2, <2>1, <2>2, <2>3, CountBijection
<1>5. Where(st, T) = Where(s, T) \union moved
  <2>1. ASSUME NEW n \in Where(st, T) PROVE n \in Where(s, T) \union moved
    <3>1. n \in 1..(Len(s) + Len(t)) /\ st[n] \in T
      BY <1>1, <2>1 DEF Where
    <3>2. CASE n <= Len(s)
      BY <1>1, <3>1, <3>2 DEF Where
    <3>3. CASE n > Len(s)
      <4>1. n - Len(s) \in 1..Len(t) /\ n = Len(s) + (n - Len(s))
        BY <1>1, <3>1, <3>3
      <4>2. n - Len(s) \in Where(t, T)
        BY <1>1, <3>1, <4>1 DEF Where
      <4> QED
        BY <4>1, <4>2
    <3> QED
      BY <1>1, <3>1, <3>2, <3>3
  <2>2. ASSUME NEW n \in Where(s, T) PROVE n \in Where(st, T)
    BY <1>1 DEF Where
  <2>3. ASSUME NEW n \in moved PROVE n \in Where(st, T)
    <3>1. PICK m \in Where(t, T) : n = Len(s) + m
      OBVIOUS
    <3>2. m \in 1..Len(t) /\ t[m] \in T
      BY <1>1 DEF Where
    <3>3. n \in 1..(Len(s) + Len(t)) /\ st[n] = t[m]
      BY <1>1, <3>1, <3>2
    <3> QED
      BY <1>1, <3>2, <3>3 DEF Where
  <2> QED
    BY <2>1, <2>2, <2>3
<1>6. Where(s, T) \intersect moved = {}
  <2> SUFFICES ASSUME NEW n \in Where(s, T), n \in moved PROVE FALSE
    OBVIOUS
  <2>1. n \in 1..Len(s)
    BY <1>1 DEF Where
  <2>2. PICK m \in Where(t, T) : n = Len(s) + m
    OBVIOUS
  <2>3. m \in 1..Len(t)
    BY <1>1 DEF Where
  <2> QED
    BY <1>1, <2>1, <2>2, <2>3
<1>7. Cardinality(Where(s, T) \intersect moved) = 0
  BY <1>6, FS_EmptySet
<1> HIDE DEF moved
<1>8. Cardinality(Where(st, T)) = Cardinality(Where(s, T)) + Cardinality(moved) - 0
  BY <1>2, <1>4, <1>5, <1>7, FS_Union
<1> QED
  BY <1>2, <1>4, <1>8 DEF st

(* And so are its elements.                                                *)
LEMMA RangeOfConcat ==
  ASSUME NEW S, NEW s \in Seq(S), NEW t \in Seq(S)
  PROVE  Range(s \o t) = Range(s) \union Range(t)
<1>1. PICK m, n, st : m = Len(s) /\ n = Len(t) /\ st = s \o t
  OBVIOUS
<1>0. m \in Nat /\ n \in Nat
  BY <1>1
<1>2. /\ DOMAIN s = 1..m /\ DOMAIN t = 1..n /\ DOMAIN st = 1..(m + n)
      /\ \A i \in 1..m : st[i] = s[i]
      /\ \A i \in 1..n : st[m + i] = t[i]
  BY <1>0, <1>1, ConcatProperties
<1>3. Range(s) \union Range(t) \subseteq Range(st)
  <2>1. \A i \in 1..m : i \in 1..(m + n)
    BY <1>0
  <2>2. \A i \in 1..n : m + i \in 1..(m + n)
    BY <1>0
  <2> QED
    BY <1>2, <2>1, <2>2 DEF Range
<1>4. Range(st) \subseteq Range(s) \union Range(t)
  <2> SUFFICES ASSUME NEW i \in 1..(m + n) PROVE st[i] \in Range(s) \union Range(t)
    BY <1>2 DEF Range
  <2>1. CASE i \in 1..m
    BY <1>2, <2>1 DEF Range
  <2>2. CASE i \notin 1..m
    <3>1. PICK j \in 1..n : i = m + j
      <4>1. i - m \in 1..n /\ i = m + (i - m)
        BY <1>0, <2>2
      <4> QED
        BY <4>1
    <3> QED
      BY <1>2, <3>1 DEF Range
  <2> QED
    BY <2>1, <2>2
<1> QED
  BY <1>1, <1>3, <1>4

(* Putting a sequence in another order.                                    *)
Permutes(q, D) ==
  /\ q \in [D -> D]
  /\ \A m, n \in D : q[m] = q[n] => m = n
  /\ \A k \in D : \E n \in D : q[n] = k

(* A permutation of a sequence keeps its elements, and how often each      *)
(* occurs.                                                                 *)
LEMMA WhereOfPermuted ==
  ASSUME NEW S, NEW seq \in Seq(S), NEW q, Permutes(q, DOMAIN seq),
         NEW other, other = [n \in DOMAIN seq |-> seq[q[n]]]
  PROVE  /\ other \in Seq(S)
         /\ DOMAIN other = DOMAIN seq
         /\ Range(other) = Range(seq)
         /\ \A T : Cardinality(Where(other, T)) = Cardinality(Where(seq, T))
<1>1. DOMAIN seq = 1..Len(seq) /\ Len(seq) \in Nat
  OBVIOUS
<1>2. /\ \A n \in 1..Len(seq) : q[n] \in 1..Len(seq)
      /\ \A m, n \in 1..Len(seq) : q[m] = q[n] => m = n
      /\ \A k \in 1..Len(seq) : \E n \in 1..Len(seq) : q[n] = k
  BY <1>1 DEF Permutes
<1>3. \A n \in 1..Len(seq) : other[n] = seq[q[n]] /\ other[n] \in S
  BY <1>1, <1>2
<1>4. other \in Seq(S) /\ DOMAIN other = 1..Len(seq)
  <2>1. other = [n \in 1..Len(seq) |-> other[n]]
    BY <1>1
  <2> QED
    BY <1>1, <1>3, <2>1
<1>5. Range(other) = Range(seq)
  <2>1. \A x : x \in Range(other) <=> \E n \in 1..Len(seq) : x = seq[q[n]]
    BY <1>3, <1>4 DEF Range
  <2>2. \A x : x \in Range(seq) <=> \E k \in 1..Len(seq) : x = seq[k]
    BY <1>1 DEF Range
  <2>3. \A x : (\E n \in 1..Len(seq) : x = seq[q[n]]) <=> \E k \in 1..Len(seq) : x = seq[k]
    BY <1>2, Zenon
  <2> QED
    BY <2>1, <2>2, <2>3, Zenon
<1>6. ASSUME NEW T PROVE Cardinality(Where(other, T)) = Cardinality(Where(seq, T))
  <2> DEFINE move == [n \in Where(other, T) |-> q[n]]
  <2>1. \A n : n \in Where(other, T) <=> n \in 1..Len(seq) /\ seq[q[n]] \in T
    BY <1>3, <1>4 DEF Where
  <2>2. \A n : n \in Where(seq, T) <=> n \in 1..Len(seq) /\ seq[n] \in T
    BY <1>1 DEF Where
  <2>3. move \in [Where(other, T) -> Where(seq, T)]
    BY <1>2, <2>1, <2>2
  <2>4. \A m, n \in Where(other, T) : move[m] = move[n] => m = n
    BY <1>2, <2>1
  <2>5. \A k \in Where(seq, T) : \E n \in Where(other, T) : move[n] = k
    BY <1>2, <2>1, <2>2
  <2>6. IsFiniteSet(Where(other, T))
    BY <1>4, WhereIsFinite
  <2> HIDE DEF move
  <2> QED
    BY <2>3, <2>4, <2>5, <2>6, CountBijection
<1> QED
  BY <1>1, <1>4, <1>5, <1>6

-----------------------------------------------------------------------------
(* Places in a strict total order of 1..n: the first place, the second,    *)
(* and so on, each is taken by exactly one element.                        *)

Orders(R, n) ==
  \A i, j, k \in 1..n :
    /\ <<i, i>> \notin R
    /\ <<i, j>> \in R /\ <<j, k>> \in R => <<i, k>> \in R
    /\ i # j => <<i, j>> \in R \/ <<j, i>> \in R

Places(R, n) == [i \in 1..n |-> 1 + Cardinality({j \in 1..n : <<j, i>> \in R})]

EachPlaceIsTaken(R, n) ==
  LET place == Places(R, n)
  IN /\ place \in [1..n -> 1..n]
     /\ \A i, j \in 1..n : <<i, j>> \in R <=> place[i] < place[j]
     /\ \A i, j \in 1..n : place[i] = place[j] => i = j
     /\ \A k \in 1..n : \E i \in 1..n : place[i] = k

(* In a total order on 1..n, counting what comes before an element gives   *)
(* each of 1..n to one element.                                            *)
LEMMA PlacesInOrder ==
  ASSUME NEW n \in Nat, NEW R, Orders(R, n)
  PROVE  EachPlaceIsTaken(R, n)
<1> PICK place : place = Places(R, n)
  OBVIOUS
<1> USE DEF Places
<1> DEFINE Before(i) == {j \in 1..n : <<j, i>> \in R}
<1>r. /\ \A i \in 1..n : <<i, i>> \notin R
      /\ \A i, j, k \in 1..n : <<i, j>> \in R /\ <<j, k>> \in R => <<i, k>> \in R
      /\ \A i, j \in 1..n : i # j => <<i, j>> \in R \/ <<j, i>> \in R
  BY DEF Orders
<1>0. IsFiniteSet(1..n) /\ Cardinality(1..n) = n
  BY FS_Interval
<1>1. ASSUME NEW i \in 1..n
      PROVE  /\ IsFiniteSet(Before(i)) /\ Cardinality(Before(i)) \in Nat
             /\ Cardinality(Before(i)) < n
             /\ place[i] = 1 + Cardinality(Before(i)) /\ place[i] \in 1..n
  <2>1. i \notin Before(i) /\ Before(i) \in SUBSET (1..n)
    BY <1>r
  <2>2. place[i] = 1 + Cardinality(Before(i))
    OBVIOUS
  <2> HIDE DEF Before
  <2>3. IsFiniteSet(Before(i)) /\ Cardinality(Before(i)) <= n
    BY <1>0, <2>1, FS_Subset
  <2>4. Cardinality(Before(i)) \in Nat
    BY <2>3, FS_CardinalityType
  <2>5. Cardinality(Before(i)) # n
    BY <1>0, <2>1, FS_Subset
  <2> QED
    BY <2>2, <2>3, <2>4, <2>5
<1>2. place \in [1..n -> 1..n]
  <2>1. \A i \in 1..n : place[i] \in 1..n
    BY <1>1
  <2>2. place = [i \in 1..n |-> place[i]]
    OBVIOUS
  <2> QED
    BY <2>1, <2>2, Zenon
<1>3. ASSUME NEW i \in 1..n, NEW j \in 1..n, <<i, j>> \in R
      PROVE  place[i] < place[j]
  <2>1. Before(i) \union {i} \in SUBSET Before(j)
    BY <1>r, <1>3
  <2>2. i \notin Before(i)
    BY <1>r
  <2>3. Cardinality(Before(i) \union {i}) = Cardinality(Before(i)) + 1
    BY <1>1, <2>2, FS_AddElement
  <2>4. Cardinality(Before(i) \union {i}) <= Cardinality(Before(j))
    BY <1>1, <2>1, FS_Subset
  <2> HIDE DEF Before
  <2> QED
    BY <1>1, <2>3, <2>4
<1>4. \A i, j \in 1..n : <<i, j>> \in R <=> place[i] < place[j]
  <2> SUFFICES ASSUME NEW i \in 1..n, NEW j \in 1..n, place[i] < place[j], <<i, j>> \notin R
               PROVE  FALSE
    BY <1>3
  <2>1. i # j
    BY <1>2
  <2>2. <<j, i>> \in R
    BY <1>r, <2>1
  <2>3. place[j] < place[i] /\ place[i] \in Nat /\ place[j] \in Nat
    BY <1>2, <1>3, <2>2
  <2> QED
    BY <2>3
<1>5. \A i, j \in 1..n : place[i] = place[j] => i = j
  BY <1>r, <1>2, <1>4
<1>6. \A k \in 1..n : \E i \in 1..n : place[i] = k
  BY <1>0, <1>2, <1>5, InjectionIsOnto
<1> QED
  BY <1>2, <1>4, <1>5, <1>6 DEF EachPlaceIsTaken

-----------------------------------------------------------------------------
(* FlattenSeq.                                                             *)

(* The function that FlattenSeq computes, up to the k-th sequence.         *)
Flattens(f, ss, k) == f = [i \in 1..k |-> IF i = 1 THEN ss[i] ELSE f[i - 1] \o ss[i]]

(* One step of the recursive function inside FlattenSeq.                   *)
LEMMA FlatteningStep ==
  ASSUME NEW ss, NEW k, NEW f, Flattens(f, ss, k), NEW i \in 1..k
  PROVE  f[i] = IF i = 1 THEN ss[i] ELSE f[i - 1] \o ss[i]
BY Zenon DEF Flattens

(* That function exists, for any sequences.                                *)
LEMMA FlatteningExists ==
  ASSUME NEW ss, NEW k \in Nat
  PROVE  \E f : Flattens(f, ss, k)
<1> DEFINE T == {m \in Nat : \E f : Flattens(f, ss, m)}
<1>1. 0 \in T
  <2>1. Flattens(<<>>, ss, 0)
    BY DEF Flattens
  <2> QED
    BY <2>1
<1>2. ASSUME NEW m \in Nat, m \in T PROVE m + 1 \in T
  <2>1. PICK f : Flattens(f, ss, m)
    BY <1>2
  <2> DEFINE g == [i \in 1..(m + 1) |-> IF i = 1 THEN ss[i] ELSE f[i - 1] \o ss[i]]
  <2>2. \A i \in 1..m : g[i] = f[i]
    <3>1. \A i \in 1..m : f[i] = IF i = 1 THEN ss[i] ELSE f[i - 1] \o ss[i]
      BY <2>1, Zenon DEF Flattens
    <3>2. \A i \in 1..m : i \in 1..(m + 1)
      OBVIOUS
    <3> QED
      BY <3>1, <3>2, Zenon
  <2>3. \A i \in 1..(m + 1) : i # 1 => i - 1 \in 1..m
    OBVIOUS
  <2>4. Flattens(g, ss, m + 1)
    BY <2>2, <2>3 DEF Flattens
  <2> QED
    BY <2>4
<1>3. Nat \subseteq T
  <2> HIDE DEF T
  <2> QED
    BY <1>1, <1>2, InductionOnNumbers
<1> QED
  BY <1>3

(* FlattenSeq is the value of that function at the last sequence.          *)
LEMMA FlattenIsFlattening ==
  ASSUME NEW S, NEW ss \in Seq(Seq(S)), ss # <<>>
  PROVE  \E f : Flattens(f, ss, Len(ss)) /\ FlattenSeq(ss) = f[Len(ss)]
<1>1. Len(ss) \in Nat /\ Len(ss) # 0
  OBVIOUS
<1>2. \E f : Flattens(f, ss, Len(ss))
  BY <1>1, FlatteningExists
<1> DEFINE flat == CHOOSE f : f = [i \in 1..Len(ss) |-> IF i = 1 THEN ss[i] ELSE f[i - 1] \o ss[i]]
<1>3. Flattens(flat, ss, Len(ss))
  BY <1>2 DEF Flattens
<1>4. FlattenSeq(ss) = flat[Len(ss)]
  BY <1>1 DEF FlattenSeq
<1> QED
  BY <1>3, <1>4

(* No sequences: the empty one.                                            *)
LEMMA FlattenEmpty == FlattenSeq(<<>>) = <<>>
BY DEF FlattenSeq

Agree(ss, tt, n) == \A i \in 1..n : ss[i] = tt[i]

(* One sequence more changes nothing of what came before.                  *)
LEMMA FlatteningsAgree ==
  ASSUME NEW ss, NEW tt, NEW m \in Nat, NEW f, NEW g,
         Flattens(f, ss, m), Flattens(g, tt, m + 1),
         Agree(ss, tt, m)
  PROVE  Agree(f, g, m)
<1> USE DEF Agree
<1> DEFINE T == {n \in Nat : n \in 1..m => f[n] = g[n]}
<1>1. 0 \in T
  OBVIOUS
<1>2. ASSUME NEW n \in Nat, n \in T PROVE n + 1 \in T
  <2> SUFFICES ASSUME n + 1 \in 1..m PROVE f[n + 1] = g[n + 1]
    OBVIOUS
  <2>1. n + 1 \in 1..m /\ n + 1 \in 1..(m + 1) /\ (n + 1) - 1 = n
    OBVIOUS
  <2>2. f[n + 1] = IF n + 1 = 1 THEN ss[n + 1] ELSE f[n] \o ss[n + 1]
    BY <2>1, FlatteningStep
  <2>3. g[n + 1] = IF n + 1 = 1 THEN tt[n + 1] ELSE g[n] \o tt[n + 1]
    BY <2>1, FlatteningStep
  <2> QED
    BY <1>2, <2>2, <2>3
<1>3. Nat \subseteq T
  <2> HIDE DEF T
  <2> QED
    BY <1>1, <1>2, InductionOnNumbers
<1> QED
  BY <1>3

(* The last step of that function.                                         *)
LEMMA FlatteningEnd ==
  ASSUME NEW ss, NEW n \in Nat, NEW f, Flattens(f, ss, n + 1)
  PROVE  f[n + 1] = IF n = 0 THEN ss[n + 1] ELSE f[n] \o ss[n + 1]
<1>1. n + 1 \in 1..(n + 1) /\ (n + 1) - 1 = n /\ (n + 1 = 1 <=> n = 0)
  OBVIOUS
<1>2. f[n + 1] = IF n + 1 = 1 THEN ss[n + 1] ELSE f[(n + 1) - 1] \o ss[n + 1]
  BY <1>1, FlatteningStep
<1> QED
  BY <1>1, <1>2

(* What is flattened has the elements of its parts.                        *)
LEMMA FlattenType ==
  ASSUME NEW S, NEW ss \in Seq(Seq(S))
  PROVE  FlattenSeq(ss) \in Seq(S)
<1>1. CASE ss = <<>>
  <2>1. FlattenSeq(ss) = <<>>
    BY <1>1, FlattenEmpty
  <2> QED
    BY <2>1
<1>2. CASE ss # <<>>
  <2>1. PICK f : Flattens(f, ss, Len(ss)) /\ FlattenSeq(ss) = f[Len(ss)]
    BY <1>2, FlattenIsFlattening
  <2>2. Len(ss) \in Nat /\ Len(ss) # 0 /\ \A i \in 1..Len(ss) : ss[i] \in Seq(S)
    BY <1>2
  <2> DEFINE T == {n \in Nat : n \in 1..Len(ss) => f[n] \in Seq(S)}
  <2>3. 0 \in T
    OBVIOUS
  <2>4. ASSUME NEW n \in Nat, n \in T PROVE n + 1 \in T
    <3> SUFFICES ASSUME n + 1 \in 1..Len(ss) PROVE f[n + 1] \in Seq(S)
      OBVIOUS
    <3>1. (n + 1) - 1 = n /\ (n = 0 \/ n \in 1..Len(ss))
      BY <2>2
    <3>2. f[n + 1] = IF n + 1 = 1 THEN ss[n + 1] ELSE f[n] \o ss[n + 1]
      BY <2>1, <3>1, FlatteningStep
    <3>3. CASE n = 0
      BY <2>2, <3>2, <3>3
    <3>4. CASE n \in 1..Len(ss)
      <4>1. f[n] \in Seq(S) /\ ss[n + 1] \in Seq(S) /\ n + 1 # 1
        BY <2>2, <2>4, <3>4
      <4> QED
        BY <3>2, <4>1, ConcatProperties
    <3> QED
      BY <3>1, <3>3, <3>4
  <2>5. Nat \subseteq T
    <3> HIDE DEF T
    <3> QED
      BY <2>3, <2>4, InductionOnNumbers
  <2> QED
    BY <2>1, <2>2, <2>5
<1> QED
  BY <1>1, <1>2

(* One more sequence comes after all that were there.                      *)
LEMMA FlattenAppend ==
  ASSUME NEW S, NEW ss \in Seq(Seq(S)), NEW x \in Seq(S)
  PROVE  FlattenSeq(Append(ss, x)) = FlattenSeq(ss) \o x
<1>0. PICK tt, n : tt = Append(ss, x) /\ n = Len(ss)
  OBVIOUS
<1>1. /\ tt \in Seq(Seq(S)) /\ tt # <<>> /\ Len(tt) = n + 1 /\ n \in Nat /\ (n = 0 <=> ss = <<>>)
      /\ tt[n + 1] = x
      /\ \A i \in 1..n : ss[i] = tt[i]
  BY <1>0, AppendProperties, LenProperties
<1>2. PICK g : Flattens(g, tt, n + 1) /\ FlattenSeq(tt) = g[n + 1]
  <2>1. \E g : Flattens(g, tt, Len(tt)) /\ FlattenSeq(tt) = g[Len(tt)]
    BY <1>1, FlattenIsFlattening
  <2> QED
    BY <1>1, <2>1
<1>3. CASE n = 0
  <2>1. FlattenSeq(ss) = <<>> /\ <<>> \o x = x
    BY <1>1, <1>3, FlattenEmpty
  <2>2. g[n + 1] = tt[n + 1]
    BY <1>1, <1>2, <1>3, FlatteningEnd, Zenon
  <2> QED
    BY <1>0, <1>1, <1>2, <2>1, <2>2
<1>4. CASE n # 0
  <2>1. PICK f : Flattens(f, ss, n) /\ FlattenSeq(ss) = f[n]
    BY <1>0, <1>1, <1>4, FlattenIsFlattening
  <2>2. n \in Nat /\ Flattens(f, ss, n) /\ Flattens(g, tt, n + 1) /\ Agree(ss, tt, n)
    BY <1>1, <1>2, <2>1 DEF Agree
  <2>3. Agree(f, g, n) /\ n \in 1..n
    BY <1>4, <2>2, FlatteningsAgree
  <2>4. g[n + 1] = g[n] \o tt[n + 1]
    BY <1>1, <1>2, <1>4, FlatteningEnd, Zenon
  <2> QED
    BY <1>0, <1>1, <1>2, <2>1, <2>3, <2>4 DEF Agree
<1> QED
  BY <1>3, <1>4

(* The first k sequences.                                                  *)
Prefix(ss, k) == [i \in 1..k |-> ss[i]]

(* The first k + 1 elements are the first k, and the next one.             *)
LEMMA PrefixNext ==
  ASSUME NEW S, NEW ss \in Seq(S), NEW k \in Nat, k < Len(ss)
  PROVE  /\ Prefix(ss, k) \in Seq(S) /\ Len(Prefix(ss, k)) = k
         /\ ss[k + 1] \in S
         /\ Prefix(ss, k + 1) = Append(Prefix(ss, k), ss[k + 1])
<1>1. \A i \in 1..(k + 1) : ss[i] \in S
  OBVIOUS
<1>2. k + 1 \in 1..(k + 1) /\ \A i \in 1..k : i \in 1..(k + 1)
  OBVIOUS
<1>3. Prefix(ss, k) \in Seq(S) /\ Len(Prefix(ss, k)) = k
  BY <1>1, <1>2 DEF Prefix
<1>4. Prefix(ss, k + 1) \in Seq(S) /\ Len(Prefix(ss, k + 1)) = k + 1
  BY <1>1 DEF Prefix
<1>5. PICK longer : longer = Append(Prefix(ss, k), ss[k + 1])
  OBVIOUS
<1>6. /\ longer \in Seq(S) /\ Len(longer) = k + 1 /\ longer[k + 1] = ss[k + 1]
      /\ \A i \in 1..k : longer[i] = ss[i]
  <2>1. \A i \in 1..k : Prefix(ss, k)[i] = ss[i]
    BY DEF Prefix
  <2> QED
    BY <1>1, <1>2, <1>3, <1>5, <2>1, AppendProperties
<1>7. \A i \in 1..(k + 1) : Prefix(ss, k + 1)[i] = longer[i]
  BY <1>6 DEF Prefix
<1>8. Prefix(ss, k + 1) = longer
  BY <1>4, <1>6, <1>7, SeqEqual
<1> QED
  BY <1>1, <1>2, <1>3, <1>5, <1>8

(* The shortest prefix and the longest one.                                *)
LEMMA PrefixEnds ==
  ASSUME NEW S, NEW ss \in Seq(S)
  PROVE  Prefix(ss, 0) = <<>> /\ Prefix(ss, Len(ss)) = ss
<1>1. Prefix(ss, 0) = <<>>
  BY DEF Prefix
<1>2. ss = [i \in 1..Len(ss) |-> ss[i]]
  OBVIOUS
<1> QED
  BY <1>1, <1>2 DEF Prefix

(* A loop that appends one sequence after the other flattens them.         *)
LEMMA FlattenPrefix ==
  ASSUME NEW S, NEW ss \in Seq(Seq(S)), NEW k \in Nat, k < Len(ss)
  PROVE  /\ FlattenSeq(Prefix(ss, k)) \in Seq(S)
         /\ FlattenSeq(Prefix(ss, k + 1)) = FlattenSeq(Prefix(ss, k)) \o ss[k + 1]
<1>1. PICK p, q, x : p = Prefix(ss, k) /\ q = Prefix(ss, k + 1) /\ x = ss[k + 1]
  OBVIOUS
<1>2. p \in Seq(Seq(S)) /\ x \in Seq(S) /\ q = Append(p, x)
  BY <1>1, PrefixNext
<1>3. FlattenSeq(p) \in Seq(S) /\ FlattenSeq(q) = FlattenSeq(p) \o x
  BY <1>2, FlattenType, FlattenAppend
<1> QED
  BY <1>1, <1>3

(* The elements of the first k sequences that are in T, with their places. *)
Pairs(ss, k, T) == UNION {{<<e, n>> : n \in Where(ss[e], T)} : e \in 1..k}

(* One sequence more adds its own places to the pairs.                     *)
LEMMA PairsNext ==
  ASSUME NEW S, NEW ss \in Seq(Seq(S)), NEW k \in Nat, k < Len(ss), NEW T, IsFiniteSet(Pairs(ss, k, T))
  PROVE  /\ IsFiniteSet(Pairs(ss, k + 1, T))
         /\ Cardinality(Pairs(ss, k + 1, T)) = Cardinality(Pairs(ss, k, T)) + Cardinality(Where(ss[k + 1], T))
<1> DEFINE new  == {<<k + 1, n>> : n \in Where(ss[k + 1], T)}
           pair == [n \in Where(ss[k + 1], T) |-> <<k + 1, n>>]
<1>1. ss[k + 1] \in Seq(S)
  OBVIOUS
<1>2. IsFiniteSet(Where(ss[k + 1], T)) /\ Cardinality(Where(ss[k + 1], T)) \in Nat
  BY <1>1, WhereIsFinite
<1>3. IsFiniteSet(new) /\ Cardinality(new) = Cardinality(Where(ss[k + 1], T))
  <2>1. pair \in [Where(ss[k + 1], T) -> new]
    OBVIOUS
  <2>2. \A m, n \in Where(ss[k + 1], T) : pair[m] = pair[n] => m = n
    OBVIOUS
  <2>3. \A p \in new : \E n \in Where(ss[k + 1], T) : pair[n] = p
    OBVIOUS
  <2> HIDE DEF new, pair
  <2> QED
    BY <1>2, <2>1, <2>2, <2>3, CountBijection
<1>4. Pairs(ss, k + 1, T) = Pairs(ss, k, T) \union new
  <2>1. \A e : e \in 1..(k + 1) <=> e \in 1..k \/ e = k + 1
    OBVIOUS
  <2>2. ASSUME NEW p
        PROVE  p \in Pairs(ss, k + 1, T) <=> p \in Pairs(ss, k, T) \/ p \in new
    <3>1. \A l : p \in Pairs(ss, l, T) <=> \E e \in 1..l : p \in {<<e, n>> : n \in Where(ss[e], T)}
      BY Zenon DEF Pairs
    <3> QED
      BY <2>1, <3>1, Zenon
  <2> QED
    BY <2>2, Zenon
<1>5. Pairs(ss, k, T) \intersect new = {}
  <2> SUFFICES ASSUME NEW p \in Pairs(ss, k, T), p \in new PROVE FALSE
    OBVIOUS
  <2>1. PICK e \in 1..k : \E n \in Where(ss[e], T) : p = <<e, n>>
    BY DEF Pairs
  <2>2. PICK m \in Where(ss[k + 1], T) : p = <<k + 1, m>>
    OBVIOUS
  <2>3. e = k + 1
    BY <2>1, <2>2
  <2> QED
    BY <2>1, <2>3
<1>6. Cardinality(Pairs(ss, k, T) \intersect new) = 0
  BY <1>5, FS_EmptySet
<1> HIDE DEF new
<1>7. PICK A, B : A = Pairs(ss, k, T) /\ B = new
  OBVIOUS
<1>8. IsFiniteSet(A) /\ IsFiniteSet(B) /\ Cardinality(A) \in Nat /\ Cardinality(B) \in Nat
  BY <1>2, <1>3, <1>7, FS_CardinalityType
<1>9. IsFiniteSet(A \union B) /\ Cardinality(A \union B) = Cardinality(A) + Cardinality(B)
  <2>1. Cardinality(A \union B) = Cardinality(A) + Cardinality(B) - Cardinality(A \intersect B)
    BY <1>8, FS_Union
  <2>2. Cardinality(A \intersect B) = 0
    BY <1>6, <1>7
  <2> QED
    BY <1>8, <2>1, <2>2, FS_Union
<1> QED
  BY <1>3, <1>4, <1>7, <1>9

(* FlattenSeq neither drops nor repeats an element.                        *)
LEMMA FlattenCounts ==
  ASSUME NEW S, NEW ss \in Seq(Seq(S)), NEW T
  PROVE  /\ IsFiniteSet(Pairs(ss, Len(ss), T))
         /\ Cardinality(Where(FlattenSeq(ss), T)) = Cardinality(Pairs(ss, Len(ss), T))
<1> DEFINE Holds(k) == /\ IsFiniteSet(Pairs(ss, k, T))
                       /\ Cardinality(Where(FlattenSeq(Prefix(ss, k)), T)) = Cardinality(Pairs(ss, k, T))
           N == {k \in Nat : k <= Len(ss) => Holds(k)}
<1>0. Len(ss) \in Nat
  OBVIOUS
<1>1. 0 \in N
  <2>1. Prefix(ss, 0) = <<>> /\ Pairs(ss, 0, T) = {}
    BY PrefixEnds DEF Pairs
  <2>2. Where(FlattenSeq(Prefix(ss, 0)), T) = {}
    BY <2>1, FlattenEmpty DEF Where
  <2> QED
    BY <2>1, <2>2, FS_EmptySet
<1>2. ASSUME NEW k \in Nat, k \in N PROVE k + 1 \in N
  <2> SUFFICES ASSUME k + 1 <= Len(ss) PROVE Holds(k + 1)
    OBVIOUS
  <2>1. Holds(k) /\ k < Len(ss)
    BY <1>0, <1>2
  <2>2. /\ FlattenSeq(Prefix(ss, k)) \in Seq(S) /\ ss[k + 1] \in Seq(S)
        /\ FlattenSeq(Prefix(ss, k + 1)) = FlattenSeq(Prefix(ss, k)) \o ss[k + 1]
    BY <2>1, FlattenPrefix
  <2>3. Cardinality(Where(FlattenSeq(Prefix(ss, k + 1)), T)) =
          Cardinality(Where(FlattenSeq(Prefix(ss, k)), T)) + Cardinality(Where(ss[k + 1], T))
    <3>1. PICK p, x : p = FlattenSeq(Prefix(ss, k)) /\ x = ss[k + 1]
      OBVIOUS
    <3>2. Cardinality(Where(p \o x, T)) = Cardinality(Where(p, T)) + Cardinality(Where(x, T))
      BY <2>2, <3>1, WhereOfConcat
    <3> QED
      BY <2>2, <3>1, <3>2
  <2> QED
    BY <2>1, <2>3, PairsNext
<1>3. Nat \subseteq N
  <2> HIDE DEF N
  <2> QED
    BY <1>1, <1>2, InductionOnNumbers
<1>4. Holds(Len(ss))
  BY <1>0, <1>3
<1> QED
  BY <1>4, PrefixEnds

=============================================================================
