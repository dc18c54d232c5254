------------------------------ MODULE SumLemmas ------------------------------
(***************************************************************************)
(* Facts about SumFunctionOnSet and SumFunction of the module Functions,   *)
(* by which the specifications add up shares, payouts and amounts.  They   *)
(* are folds, and the sum over a set is unfolded along an arbitrary choice *)
(* of elements; the lemmas show that the choice does not matter.           *)
(* Further lemmas are about least and greatest elements, sorting and       *)
(* remainders.                                                             *)
(*                                                                         *)
(* Induction is stated for a set of naturals (SetInduction), which follows *)
(* from the least element of the set's complement.                         *)
(***************************************************************************)
EXTENDS Integers, FiniteSets, FiniteSetsExt, Functions, FiniteSetTheorems, WellFoundedInduction, TLAPS

(* A set with 0 that is closed under successor holds every natural.        *)
LEMMA SetInduction ==
  ASSUME NEW G, 0 \in G, \A n \in Nat : n \in G => n + 1 \in G
  PROVE  Nat \subseteq G
<1> DEFINE B == Nat \ G
           R == OpToRel(<, Nat)
<1>1. IsWellFoundedOn(R, Nat)
  BY NatLessThanWellFounded
<1>2. \A x, y \in Nat : <<y, x>> \in R <=> y < x
  BY DEF OpToRel
<1>3. SUFFICES ASSUME B # {} PROVE FALSE
  OBVIOUS
<1> HIDE DEF R
<1>4. PICK x \in B : \A y \in B : ~ (<<y, x>> \in R)
  BY <1>1, <1>3, WFMin
<1>5. x \in Nat /\ x # 0 /\ x - 1 \in Nat /\ x - 1 < x /\ (x - 1) + 1 = x
  BY <1>4
<1>6. x - 1 \notin B
  BY <1>2, <1>4, <1>5
<1> QED BY <1>4, <1>5, <1>6

-------------------------------------------------------------------------------
(* The fold that defines a sum.                                            *)

\* The element a fold takes first.
FirstOf(s) == CHOOSE x \in s : TRUE
RestOf(s) == s \ {FirstOf(s)}

\* g tabulates the sums of fun over the sets in D.
IsSums(fun, D, g) ==
  g = [s \in D |-> IF s = {} THEN 0 ELSE fun[FirstOf(s)] + g[RestOf(s)]]

(* A set that is not empty is its first element and a smaller rest.        *)
LEMMA FirstAndRest ==
  ASSUME NEW s, IsFiniteSet(s), s # {}
  PROVE  /\ FirstOf(s) \in s /\ RestOf(s) \subseteq s /\ IsFiniteSet(RestOf(s))
         /\ Cardinality(s) \in Nat \ {0} /\ Cardinality(RestOf(s)) = Cardinality(s) - 1
<1>1. FirstOf(s) \in s
  BY DEF FirstOf
<1>2. Cardinality(s) \in Nat \ {0}
  BY FS_CardinalityType, FS_EmptySet
<1> QED BY <1>1, <1>2, FS_RemoveElement DEF RestOf

(* The sums of all subsets of a finite set can be tabulated.               *)
LEMMA SumsExist ==
  ASSUME NEW fun, NEW S, IsFiniteSet(S)
  PROVE  \E g : IsSums(fun, SUBSET S, g)
<1> DEFINE Upto(n) == {s \in SUBSET S : Cardinality(s) <= n}
           G == {n \in Nat : \E g : IsSums(fun, Upto(n), g)}
<1>0. \A s \in SUBSET S : IsFiniteSet(s) /\ Cardinality(s) \in Nat /\ Cardinality(s) <= Cardinality(S)
  BY FS_Subset, FS_CardinalityType
<1>1. 0 \in G
  <2>1. Upto(0) = {{}}
    BY <1>0, FS_EmptySet
  <2>2. IsSums(fun, Upto(0), [s \in Upto(0) |-> 0])
    BY <2>1 DEF IsSums
  <2> QED BY <2>2
<1>2. ASSUME NEW n \in Nat, n \in G
      PROVE  n + 1 \in G
  <2>1. PICK g : IsSums(fun, Upto(n), g)
    BY <1>2
  <2> DEFINE h == [s \in Upto(n + 1) |-> IF s = {} THEN 0 ELSE fun[FirstOf(s)] + g[RestOf(s)]]
  <2>2. \A s \in Upto(n) : s \in Upto(n + 1) /\ h[s] = g[s]
    BY <1>0, <2>1 DEF IsSums
  <2>3. ASSUME NEW s \in Upto(n + 1), s # {}
        PROVE  RestOf(s) \in Upto(n)
    BY <1>0, <2>3, FirstAndRest
  <2>4. IsSums(fun, Upto(n + 1), h)
    <3>1. ASSUME NEW s \in Upto(n + 1)
          PROVE  h[s] = IF s = {} THEN 0 ELSE fun[FirstOf(s)] + h[RestOf(s)]
      BY <2>2, <2>3
    <3> HIDE DEF Upto
    <3>2. h = [s \in Upto(n + 1) |-> h[s]]
      OBVIOUS
    <3> QED BY <3>1, <3>2 DEF IsSums
  <2> HIDE DEF h, Upto
  <2>5. \E f : IsSums(fun, Upto(n + 1), f)
    BY <2>4
  <2> QED BY <2>5
<1>3. Cardinality(S) \in G
  <2> HIDE DEF G
  <2>1. Nat \subseteq G
    BY <1>1, <1>2, SetInduction
  <2> QED BY <2>1, FS_CardinalityType
<1>4. Upto(Cardinality(S)) = SUBSET S
  BY <1>0
<1> QED BY <1>3, <1>4

(* Two tables agree where both are defined.                                *)
LEMMA SumsAgree ==
  ASSUME NEW fun, NEW S, IsFiniteSet(S), NEW T \in SUBSET S, NEW g, NEW h,
         IsSums(fun, SUBSET S, g), IsSums(fun, SUBSET T, h)
  PROVE  \A s \in SUBSET T : g[s] = h[s]
<1> DEFINE G == {n \in Nat : \A s \in SUBSET T : Cardinality(s) = n => g[s] = h[s]}
<1>0. \A s \in SUBSET S : IsFiniteSet(s) /\ Cardinality(s) \in Nat
  BY FS_Subset, FS_CardinalityType
<1>1. 0 \in G
  <2>1. \A s \in SUBSET T : Cardinality(s) = 0 => s = {}
    BY <1>0, FS_EmptySet
  <2> QED BY <2>1 DEF IsSums
<1>2. ASSUME NEW n \in Nat, n \in G
      PROVE  n + 1 \in G
  <2>1. ASSUME NEW s \in SUBSET T, Cardinality(s) = n + 1
        PROVE  g[s] = h[s]
    <3>1. s # {} /\ IsFiniteSet(s)
      BY <1>0, <2>1, FS_EmptySet
    <3>2. RestOf(s) \in SUBSET T /\ Cardinality(RestOf(s)) = n
      BY <2>1, <3>1, FirstAndRest
    <3>3. g[RestOf(s)] = h[RestOf(s)]
      BY <1>2, <3>2
    <3> QED BY <3>1, <3>3 DEF IsSums
  <2> QED BY <2>1
<1> HIDE DEF G
<1>3. Nat \subseteq G
  BY <1>1, <1>2, SetInduction
<1> QED BY <1>0, <1>3 DEF G

(* A sum is the table's entry.                                             *)
LEMMA SumIsEntry ==
  ASSUME NEW fun, NEW S, IsFiniteSet(S)
  PROVE  \E g : IsSums(fun, SUBSET S, g) /\ \A T \in SUBSET S : SumFunctionOnSet(fun, T) = g[T]
<1>1. ASSUME NEW T, IsFiniteSet(T)
      PROVE  \E g : IsSums(fun, SUBSET T, g) /\ SumFunctionOnSet(fun, T) = g[T]
  <2> DEFINE t == CHOOSE g : IsSums(fun, SUBSET T, g)
  <2>1. IsSums(fun, SUBSET T, t)
    BY <1>1, SumsExist
  <2>2. SumFunctionOnSet(fun, T) = t[T]
    BY DEF SumFunctionOnSet, FoldFunctionOnSet, MapThenFoldSet, IsSums, FirstOf, RestOf
  <2> QED BY <2>1, <2>2
<1>2. PICK g : IsSums(fun, SUBSET S, g)
  BY SumsExist
<1>3. ASSUME NEW T \in SUBSET S
      PROVE  SumFunctionOnSet(fun, T) = g[T]
  <2>1. PICK h : IsSums(fun, SUBSET T, h) /\ SumFunctionOnSet(fun, T) = h[T]
    BY <1>1, FS_Subset
  <2> QED BY <1>2, <2>1, SumsAgree
<1> QED BY <1>2, <1>3

-------------------------------------------------------------------------------
(* The laws of sums.                                                       *)

(* The sum over no elements.                                               *)
LEMMA SumOfEmpty ==
  ASSUME NEW fun
  PROVE  SumFunctionOnSet(fun, {}) = 0
<1>1. IsFiniteSet({})
  BY FS_EmptySet
<1> QED BY <1>1, SumIsEntry DEF IsSums

(* A sum starts with the first element.                                    *)
LEMMA SumUnfold ==
  ASSUME NEW fun, NEW S, IsFiniteSet(S), S # {}
  PROVE  SumFunctionOnSet(fun, S) = fun[FirstOf(S)] + SumFunctionOnSet(fun, RestOf(S))
<1>1. PICK g : IsSums(fun, SUBSET S, g) /\ \A T \in SUBSET S : SumFunctionOnSet(fun, T) = g[T]
  BY SumIsEntry
<1>2. RestOf(S) \in SUBSET S
  BY FirstAndRest
<1>3. g[S] = fun[FirstOf(S)] + g[RestOf(S)]
  BY <1>1 DEF IsSums
<1> QED BY <1>1, <1>2, <1>3

(* Sums of integers are integers.                                          *)
LEMMA SumIsInt ==
  ASSUME NEW fun, NEW S, IsFiniteSet(S), \A x \in S : fun[x] \in Int
  PROVE  SumFunctionOnSet(fun, S) \in Int
<1> DEFINE G == {n \in Nat : \A s \in SUBSET S : Cardinality(s) = n => SumFunctionOnSet(fun, s) \in Int}
<1>0. \A s \in SUBSET S : IsFiniteSet(s) /\ Cardinality(s) \in Nat
  BY FS_Subset, FS_CardinalityType
<1>1. 0 \in G
  <2>1. \A s \in SUBSET S : Cardinality(s) = 0 => s = {}
    BY <1>0, FS_EmptySet
  <2> QED BY <2>1, SumOfEmpty
<1>2. ASSUME NEW n \in Nat, n \in G
      PROVE  n + 1 \in G
  <2>1. ASSUME NEW s \in SUBSET S, Cardinality(s) = n + 1
        PROVE  SumFunctionOnSet(fun, s) \in Int
    <3>1. s # {} /\ IsFiniteSet(s)
      BY <1>0, <2>1, FS_EmptySet
    <3>2. FirstOf(s) \in s /\ RestOf(s) \in SUBSET S /\ Cardinality(RestOf(s)) = n
      BY <2>1, <3>1, FirstAndRest
    <3>3. SumFunctionOnSet(fun, s) = fun[FirstOf(s)] + SumFunctionOnSet(fun, RestOf(s))
      BY <3>1, SumUnfold DEF RestOf
    <3> QED BY <1>2, <3>2, <3>3
  <2> QED BY <2>1
<1> HIDE DEF G
<1>3. Nat \subseteq G
  BY <1>1, <1>2, SetInduction
<1> QED BY <1>0, <1>3 DEF G

(* Any element can be taken out of a sum.                                  *)
LEMMA SumTakeOut ==
  ASSUME NEW fun, NEW S, IsFiniteSet(S), \A x \in S : fun[x] \in Int, NEW a \in S
  PROVE  SumFunctionOnSet(fun, S) = fun[a] + SumFunctionOnSet(fun, S \ {a})
<1> DEFINE G == {n \in Nat : \A s \in SUBSET S : Cardinality(s) = n =>
                   \A x \in s : SumFunctionOnSet(fun, s) = fun[x] + SumFunctionOnSet(fun, s \ {x})}
<1>0. \A s \in SUBSET S : IsFiniteSet(s) /\ Cardinality(s) \in Nat /\ SumFunctionOnSet(fun, s) \in Int
  BY FS_Subset, FS_CardinalityType, SumIsInt
<1>1. 0 \in G
  <2>1. \A s \in SUBSET S : Cardinality(s) = 0 => s = {}
    BY <1>0, FS_EmptySet
  <2> QED BY <2>1
<1>2. ASSUME NEW n \in Nat, n \in G
      PROVE  n + 1 \in G
  <2>1. ASSUME NEW s \in SUBSET S, Cardinality(s) = n + 1, NEW x \in s
        PROVE  SumFunctionOnSet(fun, s) = fun[x] + SumFunctionOnSet(fun, s \ {x})
    <3> DEFINE y == FirstOf(s)
    <3>1. s # {} /\ IsFiniteSet(s)
      BY <1>0
    <3>2. /\ y \in s /\ s \ {y} \in SUBSET S /\ Cardinality(s \ {y}) = n
          /\ s \ {x} \in SUBSET S /\ Cardinality(s \ {x}) = n
      <4>1. y \in s
        BY <3>1, FirstAndRest
      <4> HIDE DEF y
      <4>2. \A z \in s : s \ {z} \in SUBSET S
        OBVIOUS
      <4>3. \A z \in s : Cardinality(s \ {z}) = Cardinality(s) - 1
        BY <3>1, FS_RemoveElement
      <4>4. Cardinality(s) - 1 = n
        BY <2>1
      <4> QED BY <4>1, <4>2, <4>3, <4>4
    <3>3. SumFunctionOnSet(fun, s) = fun[y] + SumFunctionOnSet(fun, s \ {y})
      BY <3>1, SumUnfold DEF RestOf
    <3> HIDE DEF y
    <3>4. CASE x = y
      BY <3>3, <3>4
    <3>5. CASE x # y
      <4>1. SumFunctionOnSet(fun, s \ {y}) = fun[x] + SumFunctionOnSet(fun, (s \ {y}) \ {x})
        BY <1>2, <3>2, <3>5
      <4>2. SumFunctionOnSet(fun, s \ {x}) = fun[y] + SumFunctionOnSet(fun, (s \ {x}) \ {y})
        BY <1>2, <3>2, <3>5
      <4>3. (s \ {y}) \ {x} = (s \ {x}) \ {y} /\ (s \ {x}) \ {y} \in SUBSET S
        OBVIOUS
      <4> DEFINE rest == SumFunctionOnSet(fun, (s \ {x}) \ {y})
      <4>4. fun[x] \in Int /\ fun[y] \in Int /\ rest \in Int
        BY <1>0, <3>2, <4>3
      <4>5. /\ SumFunctionOnSet(fun, s) = fun[y] + (fun[x] + rest)
            /\ SumFunctionOnSet(fun, s \ {x}) = fun[y] + rest
        BY <3>3, <4>1, <4>2, <4>3
      <4> HIDE DEF rest
      <4> QED BY <4>4, <4>5
    <3> QED BY <3>4, <3>5
  <2> QED BY <2>1
<1> HIDE DEF G
<1>3. Nat \subseteq G
  BY <1>1, <1>2, SetInduction
<1>4. Cardinality(S) \in G
  BY <1>0, <1>3
<1> QED BY <1>4 DEF G

(* An element can be added to a sum.                                       *)
LEMMA SumAddElement ==
  ASSUME NEW fun, NEW S, IsFiniteSet(S), NEW a, a \notin S, \A x \in S \cup {a} : fun[x] \in Int
  PROVE  SumFunctionOnSet(fun, S \cup {a}) = fun[a] + SumFunctionOnSet(fun, S)
<1>1. IsFiniteSet(S \cup {a}) /\ (S \cup {a}) \ {a} = S /\ a \in S \cup {a}
  BY FS_AddElement
<1> QED BY <1>1, SumTakeOut

(* When every entry of g, scaled by p, is at most that of f, scaled by q,  *)
(* the same holds of the sums.                                             *)
LEMMA SumScaled ==
  ASSUME NEW S, IsFiniteSet(S), NEW f, NEW g, NEW p \in Nat, NEW q \in Nat,
         \A x \in S : f[x] \in Int /\ g[x] \in Int /\ p * g[x] <= q * f[x]
  PROVE  p * SumFunctionOnSet(g, S) <= q * SumFunctionOnSet(f, S)
<1> DEFINE G == {n \in Nat : \A s \in SUBSET S : Cardinality(s) = n => p * SumFunctionOnSet(g, s) <= q * SumFunctionOnSet(f, s)}
<1>0. \A s \in SUBSET S : IsFiniteSet(s) /\ Cardinality(s) \in Nat /\ SumFunctionOnSet(f, s) \in Int /\ SumFunctionOnSet(g, s) \in Int
  BY FS_Subset, FS_CardinalityType, SumIsInt
<1>1. 0 \in G
  <2>1. \A s \in SUBSET S : Cardinality(s) = 0 => s = {}
    BY <1>0, FS_EmptySet
  <2>2. p * 0 <= q * 0
    OBVIOUS
  <2> QED BY <2>1, <2>2, SumOfEmpty
<1>2. ASSUME NEW n \in Nat, n \in G
      PROVE  n + 1 \in G
  <2>1. ASSUME NEW s \in SUBSET S, Cardinality(s) = n + 1
        PROVE  p * SumFunctionOnSet(g, s) <= q * SumFunctionOnSet(f, s)
    <3>1. s # {} /\ IsFiniteSet(s)
      BY <1>0, <2>1, FS_EmptySet
    <3>2. PICK x \in s : TRUE
      BY <3>1
    <3> DEFINE t == s \ {x}
    <3>3. t \in SUBSET S /\ Cardinality(t) = n
      <4>1. Cardinality(s \ {x}) = Cardinality(s) - 1
        BY <3>1, FS_RemoveElement
      <4> QED BY <2>1, <4>1
    <3>4. SumFunctionOnSet(f, s) = f[x] + SumFunctionOnSet(f, t) /\ SumFunctionOnSet(g, s) = g[x] + SumFunctionOnSet(g, t)
      BY <3>1, SumTakeOut
    <3>5. p * SumFunctionOnSet(g, t) <= q * SumFunctionOnSet(f, t) /\ SumFunctionOnSet(f, t) \in Int /\ SumFunctionOnSet(g, t) \in Int
      BY <1>0, <1>2, <3>3
    <3>6. p * g[x] <= q * f[x] /\ f[x] \in Int /\ g[x] \in Int
      OBVIOUS
    <3> HIDE DEF t
    <3>7. p * (g[x] + SumFunctionOnSet(g, t)) = p * g[x] + p * SumFunctionOnSet(g, t) /\ q * (f[x] + SumFunctionOnSet(f, t)) = q * f[x] + q * SumFunctionOnSet(f, t)
      BY <3>5, <3>6
    <3>8. p * g[x] \in Int /\ p * SumFunctionOnSet(g, t) \in Int /\ q * f[x] \in Int /\ q * SumFunctionOnSet(f, t) \in Int
      BY <3>5, <3>6
    <3> QED BY <3>4, <3>5, <3>6, <3>7, <3>8
  <2> QED BY <2>1
<1> HIDE DEF G
<1>3. Nat \subseteq G
  BY <1>1, <1>2, SetInduction
<1>4. Cardinality(S) \in G
  BY <1>0, <1>3
<1> QED BY <1>4 DEF G

(* Sums of entries that do not differ are the same.                        *)
LEMMA SumSame ==
  ASSUME NEW S, IsFiniteSet(S), NEW f, NEW g, \A x \in S : f[x] \in Int /\ g[x] = f[x]
  PROVE  SumFunctionOnSet(g, S) = SumFunctionOnSet(f, S)
<1>1. \A x \in S : 1 * g[x] <= 1 * f[x] /\ 1 * f[x] <= 1 * g[x] /\ g[x] \in Int
  OBVIOUS
<1>2. /\ 1 * SumFunctionOnSet(g, S) <= 1 * SumFunctionOnSet(f, S)
      /\ 1 * SumFunctionOnSet(f, S) <= 1 * SumFunctionOnSet(g, S)
  BY <1>1, SumScaled
<1>3. SumFunctionOnSet(g, S) \in Int /\ SumFunctionOnSet(f, S) \in Int
  BY <1>1, SumIsInt
<1> QED BY <1>2, <1>3

(* A sum is that of a part and that of the rest.                            *)
LEMMA SumParts ==
  ASSUME NEW fun, NEW S, IsFiniteSet(S), \A x \in S : fun[x] \in Int, NEW T \in SUBSET S
  PROVE  SumFunctionOnSet(fun, S) = SumFunctionOnSet(fun, T) + SumFunctionOnSet(fun, S \ T)
<1> DEFINE G == {n \in Nat : \A s \in SUBSET S : Cardinality(s) = n =>
                   SumFunctionOnSet(fun, S) = SumFunctionOnSet(fun, s) + SumFunctionOnSet(fun, S \ s)}
<1>0. \A s \in SUBSET S : IsFiniteSet(s) /\ Cardinality(s) \in Nat /\ SumFunctionOnSet(fun, s) \in Int
  BY FS_Subset, FS_CardinalityType, SumIsInt
<1>1. 0 \in G
  <2>1. \A s \in SUBSET S : Cardinality(s) = 0 => s = {}
    BY <1>0, FS_EmptySet
  <2>2. S \ {} = S /\ SumFunctionOnSet(fun, S) \in Int
    BY <1>0
  <2> QED BY <2>1, <2>2, SumOfEmpty
<1>2. ASSUME NEW n \in Nat, n \in G
      PROVE  n + 1 \in G
  <2>1. ASSUME NEW s \in SUBSET S, Cardinality(s) = n + 1
        PROVE  SumFunctionOnSet(fun, S) = SumFunctionOnSet(fun, s) + SumFunctionOnSet(fun, S \ s)
    <3>1. s # {} /\ IsFiniteSet(s)
      BY <1>0, <2>1, FS_EmptySet
    <3>2. PICK x : x \in s
      BY <3>1
    <3> DEFINE r == s \ {x}
    <3>3. r \in SUBSET S /\ Cardinality(r) = n /\ S \ r \in SUBSET S /\ S \ s \in SUBSET S
      <4>1. Cardinality(r) = Cardinality(s) - 1
        BY <3>1, <3>2, FS_RemoveElement
      <4> QED BY <2>1, <4>1
    <3>4. SumFunctionOnSet(fun, S) = SumFunctionOnSet(fun, r) + SumFunctionOnSet(fun, S \ r)
      BY <1>2, <3>3
    <3>5. SumFunctionOnSet(fun, s) = fun[x] + SumFunctionOnSet(fun, r)
      BY <3>1, <3>2, SumTakeOut
    <3>6. x \in S \ r /\ (S \ r) \ {x} = S \ s /\ fun[x] \in Int
      BY <3>2
    <3>7. SumFunctionOnSet(fun, S \ r) = fun[x] + SumFunctionOnSet(fun, S \ s)
      BY <1>0, <3>3, <3>6, SumTakeOut
    <3> HIDE DEF r
    <3> QED BY <1>0, <3>3, <3>4, <3>5, <3>6, <3>7
  <2> QED BY <2>1
<1> HIDE DEF G
<1>3. Nat \subseteq G
  BY <1>1, <1>2, SetInduction
<1> QED BY <1>0, <1>3 DEF G

(* A sum of naturals is a natural.                                         *)
LEMMA SumIsNat ==
  ASSUME NEW f, NEW S, IsFiniteSet(S), \A x \in S : f[x] \in Nat
  PROVE  SumFunctionOnSet(f, S) \in Nat
<1>1. 0 * SumFunctionOnSet(f, S) <= 1 * SumFunctionOnSet(f, S)
  BY SumScaled
<1>2. SumFunctionOnSet(f, S) \in Int
  BY SumIsInt
<1> QED BY <1>1, <1>2

(* Changing one entry changes the sum by the difference.                   *)
LEMMA SumUpdate ==
  ASSUME NEW S, IsFiniteSet(S), NEW f \in [S -> Int], NEW a \in S, NEW v \in Int
  PROVE  SumFunction([f EXCEPT ![a] = v]) = SumFunction(f) - f[a] + v
<1> DEFINE g == [f EXCEPT ![a] = v]
<1>1. /\ DOMAIN f = S /\ DOMAIN g = S /\ IsFiniteSet(S \ {a}) /\ g[a] = v
      /\ \A x \in S : f[x] \in Int /\ g[x] \in Int /\ (x # a => g[x] = f[x])
  BY FS_RemoveElement
<1> HIDE DEF g
<1>2. SumFunctionOnSet(f, S) = f[a] + SumFunctionOnSet(f, S \ {a})
  BY SumTakeOut
<1>3. SumFunctionOnSet(g, S) = g[a] + SumFunctionOnSet(g, S \ {a})
  BY <1>1, SumTakeOut
<1>4. SumFunctionOnSet(g, S \ {a}) = SumFunctionOnSet(f, S \ {a})
  BY <1>1, SumSame
<1>5. SumFunctionOnSet(f, S \ {a}) \in Int /\ f[a] \in Int
  BY <1>1, SumIsInt
<1>6. SumFunction(g) = SumFunctionOnSet(g, S) /\ SumFunction(f) = SumFunctionOnSet(f, S)
  BY <1>1 DEF SumFunction
<1>7. SumFunction(g) = SumFunction(f) - f[a] + v
  BY <1>1, <1>2, <1>3, <1>4, <1>5, <1>6
<1> QED BY <1>7 DEF g

(* A sum of sums, entry by entry.                                           *)
LEMMA SumPlus ==
  ASSUME NEW S, IsFiniteSet(S), NEW f, NEW g, NEW h,
         \A x \in S : f[x] \in Int /\ g[x] \in Int /\ h[x] = f[x] + g[x]
  PROVE  SumFunctionOnSet(h, S) = SumFunctionOnSet(f, S) + SumFunctionOnSet(g, S)
<1> DEFINE G == {n \in Nat : \A s \in SUBSET S : Cardinality(s) = n =>
                   SumFunctionOnSet(h, s) = SumFunctionOnSet(f, s) + SumFunctionOnSet(g, s)}
<1>0. \A s \in SUBSET S : IsFiniteSet(s) /\ Cardinality(s) \in Nat
  BY FS_Subset, FS_CardinalityType
<1>1. 0 \in G
  <2>1. \A s \in SUBSET S : Cardinality(s) = 0 => s = {}
    BY <1>0, FS_EmptySet
  <2>2. /\ SumFunctionOnSet(h, {}) = 0 /\ SumFunctionOnSet(f, {}) = 0
        /\ SumFunctionOnSet(g, {}) = 0
    BY SumOfEmpty
  <2>3. 0 = 0 + 0
    OBVIOUS
  <2> QED BY <2>1, <2>2, <2>3
<1>2. ASSUME NEW n \in Nat, n \in G
      PROVE  n + 1 \in G
  <2>1. ASSUME NEW s \in SUBSET S, Cardinality(s) = n + 1
        PROVE  SumFunctionOnSet(h, s) = SumFunctionOnSet(f, s) + SumFunctionOnSet(g, s)
    <3> DEFINE a == FirstOf(s)
               r == RestOf(s)
    <3>1. s # {} /\ IsFiniteSet(s)
      BY <1>0, <2>1, FS_EmptySet
    <3>2. a \in s /\ r \in SUBSET S /\ Cardinality(r) = n
      BY <2>1, <3>1, FirstAndRest
    <3>3. /\ SumFunctionOnSet(h, s) = h[a] + SumFunctionOnSet(h, r)
          /\ SumFunctionOnSet(f, s) = f[a] + SumFunctionOnSet(f, r)
          /\ SumFunctionOnSet(g, s) = g[a] + SumFunctionOnSet(g, r)
      BY <3>1, SumUnfold
    <3> HIDE DEF a, r
    <3>4. SumFunctionOnSet(h, r) = SumFunctionOnSet(f, r) + SumFunctionOnSet(g, r)
      BY <1>2, <3>2
    <3>5. SumFunctionOnSet(f, r) \in Int /\ SumFunctionOnSet(g, r) \in Int
      BY <1>0, <3>2, SumIsInt
    <3> QED BY <3>2, <3>3, <3>4, <3>5
  <2> QED BY <2>1
<1> HIDE DEF G
<1>3. Nat \subseteq G
  BY <1>1, <1>2, SetInduction
<1> QED BY <1>0, <1>3 DEF G

(* When all entries but one are zero, the sum is that one.                 *)
LEMMA SumOfOne ==
  ASSUME NEW S, IsFiniteSet(S), NEW f, NEW a \in S, f[a] \in Int, \A x \in S \ {a} : f[x] = 0
  PROVE  SumFunctionOnSet(f, S) = f[a]
<1> DEFINE T == S \ {a}
<1>1. IsFiniteSet(T) /\ \A x \in S : f[x] \in Int
  BY FS_Subset
<1>2. SumFunctionOnSet(f, S) = f[a] + SumFunctionOnSet(f, T)
  BY <1>1, SumTakeOut
<1>3. \A x \in T : f[x] \in Int /\ f[x] = 0 /\ f[x] = f[x] + f[x]
  BY <1>1
<1> HIDE DEF T
<1>4. SumFunctionOnSet(f, T) = SumFunctionOnSet(f, T) + SumFunctionOnSet(f, T)
  BY <1>1, <1>3, SumPlus
<1>5. SumFunctionOnSet(f, T) \in Int
  BY <1>1, <1>3, SumIsInt
<1> QED BY <1>2, <1>4, <1>5

(* No entry of a sum of naturals is more than the sum.                     *)
LEMMA SumBounds ==
  ASSUME NEW S, IsFiniteSet(S), NEW f, \A x \in S : f[x] \in Nat, NEW a \in S
  PROVE  f[a] <= SumFunctionOnSet(f, S)
<1>1. SumFunctionOnSet(f, S) = f[a] + SumFunctionOnSet(f, S \ {a})
  BY SumTakeOut
<1>2. SumFunctionOnSet(f, S \ {a}) \in Nat
  BY FS_Subset, SumIsNat
<1> QED BY <1>1, <1>2

(* The sum of the first entries of a list, one entry after the other.      *)
LEMMA SumUpTo ==
  ASSUME NEW f, NEW n \in Nat, \A i \in 1 .. n + 1 : f[i] \in Int
  PROVE  /\ SumFunctionOnSet(f, 1 .. 0) = 0 /\ SumFunctionOnSet(f, 1 .. n) \in Int
         /\ SumFunctionOnSet(f, 1 .. n + 1) = SumFunctionOnSet(f, 1 .. n) + f[n + 1]
<1>1. /\ IsFiniteSet(1 .. n) /\ n + 1 \notin 1 .. n /\ 1 .. n + 1 = (1 .. n) \cup {n + 1}
      /\ 1 .. 0 = {} /\ f[n + 1] \in Int
  BY FS_Interval
<1>2. SumFunctionOnSet(f, 1 .. n) \in Int
  BY <1>1, SumIsInt
<1>3. SumFunctionOnSet(f, (1 .. n) \cup {n + 1}) = f[n + 1] + SumFunctionOnSet(f, 1 .. n)
  BY <1>1, SumAddElement
<1>4. SumFunctionOnSet(f, 1 .. 0) = 0
  BY <1>1, SumOfEmpty
<1>5. SumFunctionOnSet(f, 1 .. n + 1) = f[n + 1] + SumFunctionOnSet(f, 1 .. n)
  BY <1>1, <1>3
<1> QED BY <1>1, <1>2, <1>4, <1>5

-------------------------------------------------------------------------------
(* A finite set of numbers has a greatest.                                 *)
LEMMA FiniteHasMax ==
  ASSUME NEW S, IsFiniteSet(S), S \subseteq Int, S # {}
  PROVE  Max(S) \in S /\ \A x \in S : Max(S) >= x
<1> DEFINE HasMax(s) == \E m \in s : \A x \in s : m >= x
           G == {n \in Nat : \A s \in SUBSET S : Cardinality(s) = n + 1 => HasMax(s)}
<1>0. \A s \in SUBSET S : IsFiniteSet(s) /\ Cardinality(s) \in Nat
  BY FS_Subset, FS_CardinalityType
<1>1. 0 \in G
  <2>1. ASSUME NEW s \in SUBSET S, Cardinality(s) = 0 + 1
        PROVE  HasMax(s)
    <3>1. IsFiniteSet(s) /\ Cardinality(s) = 1
      BY <1>0, <2>1
    <3>2. \E a : s = {a}
      BY <3>1, FS_Singleton
    <3> QED BY <3>2
  <2> QED BY <2>1
<1>2. ASSUME NEW n \in Nat, n \in G
      PROVE  n + 1 \in G
  <2>1. ASSUME NEW s \in SUBSET S, Cardinality(s) = (n + 1) + 1
        PROVE  HasMax(s)
    <3>1. IsFiniteSet(s) /\ s # {}
      BY <1>0, <2>1, FS_EmptySet
    <3>2. /\ FirstOf(s) \in s /\ RestOf(s) \in SUBSET S /\ Cardinality(RestOf(s)) = n + 1
      <4>1. FirstOf(s) \in s /\ RestOf(s) \subseteq s /\ Cardinality(RestOf(s)) = Cardinality(s) - 1
        BY <3>1, FirstAndRest
      <4>2. ((n + 1) + 1) - 1 = n + 1
        OBVIOUS
      <4> QED BY <2>1, <4>1, <4>2
    <3>3. PICK m \in RestOf(s) : \A x \in RestOf(s) : m >= x
      BY <1>2, <3>2
    <3>4. m \in Int /\ m \in s /\ FirstOf(s) \in Int /\ s = RestOf(s) \cup {FirstOf(s)}
      BY <3>2, <3>3 DEF RestOf
    <3>5. s \subseteq Int
      OBVIOUS
    <3>6. CASE m >= FirstOf(s)
      BY <3>3, <3>4, <3>6
    <3>7. CASE FirstOf(s) > m
      <4>1. \A x \in RestOf(s) : FirstOf(s) >= x
        BY <3>3, <3>4, <3>5, <3>7
      <4> QED BY <3>2, <3>4, <4>1
    <3> QED BY <3>4, <3>6, <3>7
  <2> QED BY <2>1
<1>3. Cardinality(S) \in Nat \ {0}
  BY FS_CardinalityType, FS_EmptySet
<1>4. Cardinality(S) - 1 \in G
  <2> HIDE DEF G
  <2>1. Nat \subseteq G
    BY <1>1, <1>2, SetInduction
  <2> QED BY <1>3, <2>1
<1>5. HasMax(S)
  BY <1>3, <1>4
<1> QED BY <1>5 DEF Max

(* The values of a function on a finite set are finitely many.             *)
LEMMA ImageIsFinite ==
  ASSUME NEW f, NEW S, IsFiniteSet(S)
  PROVE  IsFiniteSet({f[x] : x \in S})
<1> DEFINE g == [x \in S |-> f[x]]
           T == {f[x] : x \in S}
<1>1. g \in [S -> T] /\ \A t \in T : \E x \in S : g[x] = t
  OBVIOUS
<1>2. g \in Surjection(S, T)
  BY <1>1 DEF Surjection
<1> HIDE DEF g, T
<1> QED BY <1>2, FS_Surjection DEF T

(* A set of naturals has a least one.                                      *)
LEMMA LeastNat ==
  ASSUME NEW S, S \subseteq Nat, S # {}
  PROVE  Min(S) \in S /\ \A x \in S : Min(S) <= x
<1> DEFINE R == OpToRel(<, Nat)
<1>1. IsWellFoundedOn(R, Nat)
  BY NatLessThanWellFounded
<1>2. \A x, y \in Nat : <<y, x>> \in R <=> y < x
  BY DEF OpToRel
<1> HIDE DEF R
<1>3. PICK x \in S : \A y \in S : ~(<<y, x>> \in R)
  BY <1>1, WFMin
<1>4. \A y \in S : ~(y < x) /\ y \in Nat /\ x \in Nat
  BY <1>2, <1>3
<1>5. \A y \in S : x <= y
  BY <1>4
<1> QED BY <1>5 DEF Min

-------------------------------------------------------------------------------
(* Sorting.                                                                *)

(* The elements of a finite set can be listed in the order of their values.*)
LEMMA SetIsSorted ==
  ASSUME NEW S, IsFiniteSet(S), NEW f, \A x \in S : f[x] \in Int
  PROVE  \E s \in [1 .. Cardinality(S) -> S] :
           /\ \A i, j \in 1 .. Cardinality(S) : i # j => s[i] # s[j]
           /\ \A i, j \in 1 .. Cardinality(S) : i <= j => f[s[i]] <= f[s[j]]
<1> DEFINE Sorts(s, n) == /\ \A i, j \in 1 .. n : i # j => s[i] # s[j]
                          /\ \A i, j \in 1 .. n : i <= j => f[s[i]] <= f[s[j]]
           G == {n \in Nat : \A T \in SUBSET S :
                   Cardinality(T) = n => \E s \in [1 .. n -> T] : Sorts(s, n)}
<1>0. \A T \in SUBSET S : IsFiniteSet(T) /\ Cardinality(T) \in Nat
  BY FS_Subset, FS_CardinalityType
<1>1. 0 \in G
  <2> SUFFICES ASSUME NEW T \in SUBSET S PROVE \E s \in [1 .. 0 -> T] : Sorts(s, 0)
    OBVIOUS
  <2>1. <<>> \in [1 .. 0 -> T] /\ Sorts(<<>>, 0)
    OBVIOUS
  <2> QED BY <2>1
<1>2. ASSUME NEW n \in Nat, n \in G PROVE n + 1 \in G
  <2> SUFFICES ASSUME NEW T \in SUBSET S, Cardinality(T) = n + 1
               PROVE  \E s \in [1 .. n + 1 -> T] : Sorts(s, n + 1)
    OBVIOUS
  <2> DEFINE V == {f[x] : x \in T}
  <2>1. T # {} /\ IsFiniteSet(T)
    BY <1>0, FS_EmptySet
  <2>2. IsFiniteSet(V) /\ V \subseteq Int /\ V # {}
    BY <2>1, ImageIsFinite
  <2>3. Max(V) \in V /\ \A v \in V : Max(V) >= v
    <3> HIDE DEF V
    <3> QED BY <2>2, FiniteHasMax
  <2>4. PICK x \in T : f[x] = Max(V)
    BY <2>3
  <2>5. \A y \in T : f[y] \in Int /\ f[y] <= f[x]
    BY <2>3, <2>4
  <2> DEFINE R == T \ {x}
  <2>6. R \in SUBSET S /\ Cardinality(R) = n
    <3>1. Cardinality(R) = Cardinality(T) - 1
      BY <2>1, FS_RemoveElement
    <3> QED BY <3>1
  <2>7. PICK s \in [1 .. n -> R] : Sorts(s, n)
    BY <1>2, <2>6
  <2> DEFINE r == [i \in 1 .. n + 1 |-> IF i = n + 1 THEN x ELSE s[i]]
  <2>8. /\ \A i \in 1 .. n : r[i] = s[i] /\ r[i] \in T /\ r[i] # x
        /\ r[n + 1] = x /\ r \in [1 .. n + 1 -> T]
    BY <2>7
  <2> HIDE DEF r, V, R
  <2>9. ASSUME NEW i \in 1 .. n + 1, NEW j \in 1 .. n + 1
        PROVE  (i # j => r[i] # r[j]) /\ (i <= j => f[r[i]] <= f[r[j]])
    <3>1. CASE i \in 1 .. n /\ j \in 1 .. n
      BY <2>7, <2>8, <3>1
    <3>2. CASE i \in 1 .. n /\ j = n + 1
      BY <2>5, <2>8, <3>2
    <3>3. CASE i = n + 1
      <4>1. i <= j => j = n + 1
        BY <3>3
      <4>2. j # n + 1 => j \in 1 .. n
        OBVIOUS
      <4> QED BY <2>5, <2>8, <3>3, <4>1, <4>2
    <3> QED BY <3>1, <3>2, <3>3
  <2>10. Sorts(r, n + 1)
    BY <2>9
  <2> HIDE DEF Sorts
  <2> QED BY <2>8, <2>10
<1>3. Nat \subseteq G
  <2> HIDE DEF G
  <2> QED BY <1>1, <1>2, SetInduction
<1>4. Cardinality(S) \in G /\ S \in SUBSET S
  BY <1>0, <1>3
<1> QED BY <1>4

-------------------------------------------------------------------------------
(* Remainders.                                                             *)

(* The remainder is the only one.                                          *)
LEMMA ModUnique ==
  ASSUME NEW L \in Nat \ {0}, NEW q \in Int, NEW r \in 0 .. L - 1
  PROVE  (q * L + r) % L = r
OBVIOUS

(* A number is a multiple and the remainder.                               *)
LEMMA ModForm ==
  ASSUME NEW L \in Nat \ {0}, NEW S \in Int
  PROVE  S % L \in 0 .. L - 1 /\ S = (S \div L) * L + (S % L) /\ S \div L \in Int
OBVIOUS

(* The remainder of a sum wraps once.                                      *)
LEMMA PlusMod ==
  ASSUME NEW L \in Nat \ {0}, NEW S \in Int, NEW a \in 0 .. L - 1
  PROVE  (S + a) % L = IF (S % L) + a < L THEN (S % L) + a ELSE (S % L) + a - L
<1>1. PICK q \in Int : S = q * L + (S % L)
  BY ModForm
<1>2. S % L \in 0 .. L - 1
  BY ModForm
<1>3. CASE (S % L) + a < L
  <2>1. S + a = q * L + ((S % L) + a)
    BY <1>1, <1>2
  <2> QED BY <2>1, <1>2, <1>3, ModUnique
<1>4. CASE ~((S % L) + a < L)
  <2>1. S + a = (q + 1) * L + ((S % L) + a - L)
    BY <1>1, <1>2
  <2>2. (S % L) + a - L \in 0 .. L - 1 /\ q + 1 \in Int
    BY <1>2, <1>4
  <2> QED BY <2>1, <2>2, <1>2, <1>4, ModUnique
<1> QED BY <1>3, <1>4

(* A difference times a number.                                            *)
LEMMA Distributes ==
  ASSUME NEW L \in Int, NEW q \in Int, NEW p \in Int
  PROVE  (q - p) * L = q * L - p * L /\ (q - p - 1) * L = q * L - p * L - L
OBVIOUS

(* The remainder of a difference wraps once.                               *)
LEMMA MinusMod ==
  ASSUME NEW L \in Nat \ {0}, NEW S \in Int, NEW G \in Int
  PROVE  (S - G) % L = IF (G % L) <= (S % L) THEN (S % L) - (G % L) ELSE (S % L) - (G % L) + L
<1>1. PICK q \in Int, p \in Int : S = q * L + (S % L) /\ G = p * L + (G % L)
  BY ModForm
<1>2. S % L \in 0 .. L - 1 /\ G % L \in 0 .. L - 1
  BY ModForm
<1>3. CASE (G % L) <= (S % L)
  <2>1. S - G = (q - p) * L + ((S % L) - (G % L))
    <3> DEFINE s == S % L
               g == G % L
               qL == q * L
               pL == p * L
    <3>1. s \in Int /\ g \in Int /\ S = qL + s /\ G = pL + g /\ (q - p) * L = qL - pL /\ qL \in Int /\ pL \in Int
      BY <1>1, <1>2, Distributes
    <3> HIDE DEF s, g, qL, pL
    <3>2. S - G = (qL - pL) + (s - g)
      BY <3>1
    <3>3. S - G = (q - p) * L + (s - g)
      BY <3>1, <3>2
    <3> QED BY <3>3 DEF s, g
  <2>2. (S % L) - (G % L) \in 0 .. L - 1 /\ q - p \in Int
    BY <1>2, <1>3
  <2> QED BY <2>1, <2>2, <1>3, ModUnique
<1>4. CASE ~((G % L) <= (S % L))
  <2>1. S - G = (q - p - 1) * L + ((S % L) - (G % L) + L)
    <3> DEFINE s == S % L
               g == G % L
               qL == q * L
               pL == p * L
    <3>1. s \in Int /\ g \in Int /\ S = qL + s /\ G = pL + g /\ (q - p - 1) * L = qL - pL - L /\ qL \in Int /\ pL \in Int
      BY <1>1, <1>2, Distributes
    <3> HIDE DEF s, g, qL, pL
    <3>2. S - G = (qL - pL - L) + (s - g + L)
      BY <3>1
    <3>3. S - G = (q - p - 1) * L + (s - g + L)
      BY <3>1, <3>2
    <3> QED BY <3>3 DEF s, g
  <2>2. (S % L) - (G % L) + L \in 0 .. L - 1 /\ q - p - 1 \in Int
    BY <1>2, <1>4
  <2> QED BY <2>1, <2>2, <1>4, ModUnique
<1> QED BY <1>3, <1>4

===============================================================================
