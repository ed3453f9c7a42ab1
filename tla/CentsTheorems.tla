--------------------------- MODULE CentsTheorems ---------------------------
(***************************************************************************)
(* How a sum of money changes with the set it is taken over.               *)
(***************************************************************************)
EXTENDS Cents, FiniteSetTheorems, TLAPS

\* What is needed of a set to be summed: finitely many cents, whatever the
\* number of items that come without any.
Summable(S, amount) ==
  /\ \A x \in S : amount[x] \in Nat
  /\ IsFiniteSet(CentsOf(S, amount))

\* The cents of one item.
LEMMA CentsOfOne ==
  ASSUME NEW x, NEW n \in Nat
  PROVE  IsFiniteSet({x} \X (1..n)) /\ Cardinality({x} \X (1..n)) = n
<1>1. IsFiniteSet(1..n) /\ Cardinality(1..n) = n
  BY FS_Interval
<1>2. IsFiniteSet({x}) /\ Cardinality({x}) = 1
  BY FS_Singleton
<1> QED
  BY <1>1, <1>2, FS_Product

\* Nothing adds up to nothing.
LEMMA TotalOfNone ==
  ASSUME NEW amount
  PROVE  Summable({}, amount) /\ Total({}, amount) = 0
<1>1. CentsOf({}, amount) = {}
  BY DEF CentsOf
<1> QED
  BY <1>1, FS_EmptySet DEF Summable, Total

\* A sum is a number of cents.
LEMMA TotalIsNat ==
  ASSUME NEW S, NEW amount, Summable(S, amount)
  PROVE  Total(S, amount) \in Nat
BY FS_CardinalityType DEF Summable, Total

\* One more item adds its amount.
LEMMA TotalGrows ==
  ASSUME NEW S, NEW amount, Summable(S, amount), NEW x, x \notin S, amount[x] \in Nat
  PROVE  /\ Summable(S \union {x}, amount)
         /\ Total(S \union {x}, amount) = Total(S, amount) + amount[x]
<1> DEFINE new == {x} \X (1..amount[x])
<1>1. IsFiniteSet(new) /\ Cardinality(new) = amount[x]
  BY CentsOfOne
<1>2. CentsOf(S \union {x}, amount) = CentsOf(S, amount) \union new
  BY DEF CentsOf
<1>3. CentsOf(S, amount) \intersect new = {}
  BY DEF CentsOf
<1> HIDE DEF new
<1>4. IsFiniteSet(CentsOf(S, amount))
  BY DEF Summable
<1>5. Cardinality(CentsOf(S, amount)) \in Nat
  BY <1>4, FS_CardinalityType
<1>6. /\ IsFiniteSet(CentsOf(S, amount) \union new)
      /\ Cardinality(CentsOf(S, amount) \union new) =
           Cardinality(CentsOf(S, amount)) + Cardinality(new)
  BY <1>1, <1>3, <1>4, <1>5, FS_Union, FS_EmptySet
<1> QED
  BY <1>1, <1>2, <1>6 DEF Summable, Total

\* One item less takes its amount away; so a sum is no less than its items.
LEMMA TotalShrinks ==
  ASSUME NEW S, NEW amount, Summable(S, amount), NEW x \in S
  PROVE  /\ Summable(S \ {x}, amount)
         /\ Total(S \ {x}, amount) = Total(S, amount) - amount[x]
         /\ Total(S, amount) >= amount[x]
<1>1. CentsOf(S \ {x}, amount) \subseteq CentsOf(S, amount)
  BY DEF CentsOf
<1>2. Summable(S \ {x}, amount)
  BY <1>1, FS_Subset DEF Summable
<1>3. (S \ {x}) \union {x} = S /\ x \notin S \ {x} /\ amount[x] \in Nat
  BY DEF Summable
<1>4. Total(S, amount) = Total(S \ {x}, amount) + amount[x]
  <2> DEFINE rest == S \ {x}
  <2>1. Summable(rest, amount) /\ x \notin rest /\ rest \union {x} = S
    BY <1>2, <1>3
  <2> HIDE DEF rest
  <2>2. Total(rest \union {x}, amount) = Total(rest, amount) + amount[x]
    BY <1>3, <2>1, TotalGrows
  <2> QED
    BY <2>1, <2>2 DEF rest
<1>5. Total(S \ {x}, amount) \in Nat
  BY <1>2, TotalIsNat
<1> QED
  BY <1>2, <1>3, <1>4, <1>5

\* A sum depends on the amounts of its items alone.
LEMMA TotalOfEqual ==
  ASSUME NEW S, NEW a, NEW b, \A x \in S : a[x] = b[x]
  PROVE  (Summable(S, a) <=> Summable(S, b)) /\ Total(S, a) = Total(S, b)
<1>1. CentsOf(S, a) = CentsOf(S, b)
  BY DEF CentsOf
<1> QED
  BY <1>1 DEF Summable, Total

\* Fewer items add up to no more.
LEMMA TotalOfSubset ==
  ASSUME NEW S, NEW T, NEW amount, Summable(T, amount), S \subseteq T
  PROVE  Summable(S, amount) /\ Total(S, amount) <= Total(T, amount)
<1>1. CentsOf(S, amount) \subseteq CentsOf(T, amount)
  BY DEF CentsOf
<1> QED
  BY <1>1, FS_Subset DEF Summable, Total
=============================================================================
