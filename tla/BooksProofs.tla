------------------------------ MODULE BooksProofs ------------------------------
(***************************************************************************)
(* Theorems about Books and Reconcile for any sleeves, symbols, quantities *)
(* and faults.  In order:                                                  *)
(*   sums of trades, which Quantity is defined with;                       *)
(*   the decision of a reconcile (DecisionSound);                          *)
(*   the types, and the positions with their rows: TypeOK /\ BackedInv     *)
(*     (SplitNeverFlips, TypeCorrect, BooksBacked, FlattenSpares);         *)
(*   the shares: SharesInv                                                 *)
(*     (BooksConserved, NoOrderEverFlips, ReconcileAddsUp);                *)
(*   one open trade of each sleeve and symbol: HeldInv                     *)
(*     (OneTradeEach, NothingIsForgotten).                                 *)
(***************************************************************************)
EXTENDS Books, SequenceTheorems, FiniteSetTheorems, WellFoundedInduction, TLAPS

-----------------------------------------------------------------------------
(* Sums over finite sets.                                                  *)

Pick(s) == CHOOSE x \in s : TRUE

(* What the fold behind SumFunctionOnSet says of itself.                   *)
Adds(g, f, S) == g = [s \in SUBSET S |-> IF s = {} THEN 0 ELSE f[Pick(s)] + g[s \ {Pick(s)}]]

LEMMA SumUnfolds ==
  ASSUME NEW f, NEW S
  PROVE  SumFunctionOnSet(f, S) = (CHOOSE g : Adds(g, f, S))[S]
  BY DEF SumFunctionOnSet, FoldFunctionOnSet, MapThenFoldSet, Adds, Pick

(* Induction over the subsets of a finite set, with a set for the          *)
(* predicate.                                                              *)
LEMMA SubsetInduction ==
  ASSUME NEW S, IsFiniteSet(S), NEW Q,
         \A s \in SUBSET S : (\A t \in SUBSET s : t # s => t \in Q) => s \in Q
  PROVE  \A s \in SUBSET S : s \in Q
<1> DEFINE Bad == {s \in SUBSET S : s \notin Q}
<1> SUFFICES ASSUME Bad # {} PROVE FALSE
  OBVIOUS
<1>1. Bad \subseteq FiniteSubsetsOf(S)
  BY FS_Subset DEF FiniteSubsetsOf
<1>2. PICK x \in Bad : \A y \in Bad : ~ (<<y, x>> \in StrictSubsetOrdering(S))
  <2> HIDE DEF Bad
  <2> QED BY <1>1, FS_StrictSubsetOrderingWellFounded, WFMin
<1>3. \A t \in SUBSET x : t # x => t \in Q
  BY <1>2 DEF StrictSubsetOrdering
<1> QED BY <1>2, <1>3

LEMMA PickIn == ASSUME NEW S, S # {} PROVE Pick(S) \in S
  BY DEF Pick

LEMMA AddsAt ==
  ASSUME NEW S, NEW f, NEW g, Adds(g, f, S), NEW s \in SUBSET S
  PROVE  g[s] = IF s = {} THEN 0 ELSE f[Pick(s)] + g[s \ {Pick(s)}]
  BY DEF Adds

(* Two such functions agree where their terms do.                          *)
LEMMA AddsOnce ==
  ASSUME NEW S, IsFiniteSet(S), NEW f, NEW g, Adds(g, f, S),
         NEW T, NEW k, NEW h, Adds(h, k, T), S \subseteq T, \A x \in S : f[x] = k[x]
  PROVE  \A s \in SUBSET S : g[s] = h[s]
<1> DEFINE Q == {s \in SUBSET S : g[s] = h[s]}
<1>1. ASSUME NEW s \in SUBSET S, \A t \in SUBSET s : t # s => t \in Q
      PROVE  g[s] = h[s]
  <2>1. g[s] = IF s = {} THEN 0 ELSE f[Pick(s)] + g[s \ {Pick(s)}]
    BY AddsAt
  <2>2. h[s] = IF s = {} THEN 0 ELSE k[Pick(s)] + h[s \ {Pick(s)}]
    BY AddsAt
  <2>3. s # {} => Pick(s) \in s
    BY PickIn
  <2>4. s # {} => g[s \ {Pick(s)}] = h[s \ {Pick(s)}]
    BY <1>1, <2>3
  <2> QED BY <2>1, <2>2, <2>3, <2>4
<1>2. \A s \in SUBSET S : s \in Q
  <2>1. \A s \in SUBSET S : (\A t \in SUBSET s : t # s => t \in Q) => s \in Q
    BY <1>1
  <2> HIDE DEF Q
  <2> QED BY <2>1, SubsetInduction
<1> QED BY <1>2

LEMMA AddsSubset ==
  ASSUME NEW S, IsFiniteSet(S), NEW f,
         \A t \in SUBSET S : t # S => \E g : Adds(g, f, t)
  PROVE  \E g : Adds(g, f, S)
<1> DEFINE sum(t) == (CHOOSE g : Adds(g, f, t))[t]
           val(t) == IF t = {} THEN 0 ELSE f[Pick(t)] + sum(t \ {Pick(t)})
           h == [t \in SUBSET S |-> val(t)]
<1>1. ASSUME NEW t \in SUBSET S, t # S PROVE sum(t) = val(t)
  <2> DEFINE g == CHOOSE g : Adds(g, f, t)
  <2>1. Adds(g, f, t)
    BY <1>1
  <2>2. CASE t = {}
    BY <2>1, <2>2, AddsAt
  <2>3. CASE t # {}
    <3> DEFINE r == t \ {Pick(t)}
               k == CHOOSE k : Adds(k, f, r)
    <3>1. Pick(t) \in t /\ r \in SUBSET S /\ r # S /\ r \subseteq t
      BY <2>3, PickIn
    <3>2. Adds(k, f, r)
      BY <3>1
    <3>3. IsFiniteSet(r)
      BY <3>1, FS_Subset
    <3>4. k[r] = g[r]
      <4> HIDE DEF g, k, r
      <4> QED BY <2>1, <3>1, <3>2, <3>3, AddsOnce
    <3>5. g[t] = f[Pick(t)] + g[r]
      <4> HIDE DEF g
      <4> QED BY <2>1, <2>3, AddsAt
    <3> QED BY <2>3, <3>4, <3>5
  <2> QED BY <2>2, <2>3
<1>2. Adds(h, f, S)
  <2>1. ASSUME NEW t \in SUBSET S, t # {} PROVE h[t \ {Pick(t)}] = sum(t \ {Pick(t)})
    <3>1. Pick(t) \in t
      BY <2>1, PickIn
    <3>2. t \ {Pick(t)} \in SUBSET S /\ t \ {Pick(t)} # S
      BY <3>1
    <3> HIDE DEF sum, val
    <3> QED BY <1>1, <3>2
  <2>2. \A t \in SUBSET S : val(t) = IF t = {} THEN 0 ELSE f[Pick(t)] + h[t \ {Pick(t)}]
    <3> HIDE DEF sum, h
    <3> QED BY <2>1
  <2> HIDE DEF sum, val
  <2> QED BY <2>2 DEF Adds
<1> QED BY <1>2

LEMMA AddsExists ==
  ASSUME NEW S, IsFiniteSet(S), NEW f
  PROVE  \E g : Adds(g, f, S)
<1> DEFINE Q == {s \in SUBSET S : \E g : Adds(g, f, s)}
<1>1. ASSUME NEW s \in SUBSET S, \A t \in SUBSET s : t # s => t \in Q
      PROVE  \E g : Adds(g, f, s)
  <2>1. IsFiniteSet(s)
    BY FS_Subset
  <2>2. \A t \in SUBSET s : t # s => \E g : Adds(g, f, t)
    BY <1>1
  <2> QED BY <2>1, <2>2, AddsSubset
<1>2. \A s \in SUBSET S : s \in Q
  <2>1. \A s \in SUBSET S : (\A t \in SUBSET s : t # s => t \in Q) => s \in Q
    BY <1>1
  <2> HIDE DEF Q
  <2> QED BY <2>1, SubsetInduction
<1> QED BY <1>2

(* The sum of nothing, and of a set of which one element is taken.         *)
LEMMA SumOfNone == ASSUME NEW f PROVE SumFunctionOnSet(f, {}) = 0
<1> DEFINE g == CHOOSE g : Adds(g, f, {})
<1>1. Adds(g, f, {})
  BY AddsExists, FS_EmptySet
<1>2. g[{}] = 0
  <2> HIDE DEF g
  <2> QED BY <1>1, AddsAt
<1> QED BY <1>2, SumUnfolds

(* A sum as the values of one function on all the subsets of a set.        *)
LEMMA SumsOf ==
  ASSUME NEW S, IsFiniteSet(S), NEW f
  PROVE  \A s \in SUBSET S : 
           SumFunctionOnSet(f, s) = IF s = {} THEN 0 ELSE f[Pick(s)] + SumFunctionOnSet(f, s \ {Pick(s)})
<1> DEFINE g == CHOOSE g : Adds(g, f, S)
<1>1. Adds(g, f, S)
  BY AddsExists
<1>2. \A s \in SUBSET S : SumFunctionOnSet(f, s) = g[s]
  <2> SUFFICES ASSUME NEW s \in SUBSET S PROVE SumFunctionOnSet(f, s) = g[s]
    OBVIOUS
  <2> DEFINE h == CHOOSE h : Adds(h, f, s)
  <2>1. Adds(h, f, s) /\ IsFiniteSet(s)
    BY AddsExists, FS_Subset
  <2>2. h[s] = g[s]
    <3> HIDE DEF g, h
    <3> QED BY <1>1, <2>1, AddsOnce
  <2> QED BY <2>2, SumUnfolds
<1> QED
  <2> HIDE DEF g
  <2>1. \A s \in SUBSET S : g[s] = IF s = {} THEN 0 ELSE f[Pick(s)] + g[s \ {Pick(s)}]
    BY <1>1, AddsAt
  <2> QED BY <1>2, <2>1

LEMMA SumInt ==
  ASSUME NEW S, IsFiniteSet(S), NEW f, \A x \in S : f[x] \in Int
  PROVE  SumFunctionOnSet(f, S) \in Int
<1> DEFINE Q == {s \in SUBSET S : SumFunctionOnSet(f, s) \in Int}
<1>0. \A s \in SUBSET S :
        SumFunctionOnSet(f, s) = IF s = {} THEN 0 ELSE f[Pick(s)] + SumFunctionOnSet(f, s \ {Pick(s)})
  BY SumsOf
<1>1. ASSUME NEW s \in SUBSET S, \A t \in SUBSET s : t # s => t \in Q
      PROVE  SumFunctionOnSet(f, s) \in Int
  <2>1. SumFunctionOnSet(f, s) = IF s = {} THEN 0 ELSE f[Pick(s)] + SumFunctionOnSet(f, s \ {Pick(s)})
    BY <1>0
  <2>2. s # {} => Pick(s) \in s
    BY PickIn
  <2>3. s # {} => SumFunctionOnSet(f, s \ {Pick(s)}) \in Int
    BY <1>1, <2>2
  <2> QED BY <2>1, <2>2, <2>3
<1>2. \A s \in SUBSET S : s \in Q
  <2>1. \A s \in SUBSET S : (\A t \in SUBSET s : t # s => t \in Q) => s \in Q
    BY <1>1
  <2> HIDE DEF Q
  <2> QED BY <2>1, SubsetInduction
<1> QED BY <1>2

(* A sum is one of its terms and the sum of the others, whichever is taken.*)
LEMMA SumTakes ==
  ASSUME NEW S, IsFiniteSet(S), NEW f, \A x \in S : f[x] \in Int, NEW x \in S
  PROVE  SumFunctionOnSet(f, S) = f[x] + SumFunctionOnSet(f, S \ {x})
<1> DEFINE sum(s) == SumFunctionOnSet(f, s)
           Q == {s \in SUBSET S : \A y \in s : sum(s) = f[y] + sum(s \ {y})}
<1>00. \A s \in SUBSET S : sum(s) = IF s = {} THEN 0 ELSE f[Pick(s)] + sum(s \ {Pick(s)})
  BY SumsOf
<1>0. \A s \in SUBSET S : sum(s) \in Int
  BY SumInt, FS_Subset
<1>1. ASSUME NEW s \in SUBSET S, \A t \in SUBSET s : t # s => t \in Q, NEW y \in s
      PROVE  sum(s) = f[y] + sum(s \ {y})
  <2> DEFINE p == Pick(s)
  <2>1. p \in s
    BY PickIn
  <2>2. sum(s) = f[p] + sum(s \ {p})
    BY <1>00
  <2>3. CASE y = p
    BY <2>2, <2>3
  <2>4. CASE y # p
    <3>1. sum(s \ {p}) = f[y] + sum((s \ {p}) \ {y})
      <4>1. s \ {p} \in Q /\ y \in s \ {p}
        BY <1>1, <2>1, <2>4
      <4> QED BY <4>1
    <3>2. sum(s \ {y}) = f[p] + sum((s \ {y}) \ {p})
      <4>1. s \ {y} \in Q /\ p \in s \ {y}
        BY <1>1, <2>1, <2>4
      <4> QED BY <4>1
    <3>3. (s \ {p}) \ {y} = (s \ {y}) \ {p}
      OBVIOUS
    <3>4. f[p] \in Int /\ f[y] \in Int /\ sum((s \ {y}) \ {p}) \in Int
      BY <1>0, <2>1
    <3>5. sum(s) = f[p] + (f[y] + sum((s \ {y}) \ {p})) /\ f[y] + sum(s \ {y}) = f[y] + (f[p] + sum((s \ {y}) \ {p}))
      BY <2>2, <3>1, <3>2, <3>3
    <3> QED BY <3>4, <3>5
  <2> QED BY <2>3, <2>4
<1>2. \A s \in SUBSET S : s \in Q
  <2>1. \A s \in SUBSET S : (\A t \in SUBSET s : t # s => t \in Q) => s \in Q
    BY <1>1
  <2> HIDE DEF Q
  <2> QED BY <2>1, SubsetInduction
<1> QED BY <1>2

(* Sums of the same terms are the same.                                    *)
LEMMA SumAgrees ==
  ASSUME NEW S, IsFiniteSet(S), NEW f, NEW k, \A x \in S : f[x] = k[x]
  PROVE  SumFunctionOnSet(f, S) = SumFunctionOnSet(k, S)
<1> DEFINE g == CHOOSE g : Adds(g, f, S)
           h == CHOOSE h : Adds(h, k, S)
<1>1. Adds(g, f, S) /\ Adds(h, k, S)
  BY AddsExists
<1>2. g[S] = h[S]
  <2> HIDE DEF g, h
  <2> QED BY <1>1, AddsOnce
<1> QED BY <1>2, SumUnfolds

-----------------------------------------------------------------------------
(* The decision of a reconcile.                                            *)

(* A non-empty set of naturals has a least element.                        *)
LEMMA HasLeast ==
  ASSUME NEW S \in SUBSET Nat, S # {}
  PROVE  \E m \in S : \A k \in S : m <= k
<1> DEFINE Upto(m) == {k \in S : k <= m}
           T == {Upto(m) : m \in S}
<1>1. T \in SUBSET FiniteSubsetsOf(Nat)
  <2> SUFFICES ASSUME NEW m \in S PROVE Upto(m) \in FiniteSubsetsOf(Nat)
    OBVIOUS
  <2>1. Upto(m) \in SUBSET Nat /\ m \in Nat /\ \A k \in Upto(m) : k <= m
    OBVIOUS
  <2>2. IsFiniteSet(Upto(m))
    BY <2>1, FS_BoundedSetOfNaturals
  <2> QED BY <2>1, <2>2 DEF FiniteSubsetsOf
<1>2. T # {}
  OBVIOUS
<1>3. PICK x \in T : \A y \in T : ~ (<<y, x>> \in StrictSubsetOrdering(Nat))
  BY <1>1, <1>2, FS_StrictSubsetOrderingWellFounded, WFMin
<1>4. PICK m \in S : x = Upto(m)
  OBVIOUS
<1>5. ASSUME NEW k \in S, ~(m <= k) PROVE FALSE
  <2>1. k \in Nat /\ m \in Nat /\ k < m /\ m \in Upto(m)
    BY <1>5
  <2>2. ASSUME NEW j \in Upto(k) PROVE j \in Upto(m)
    <3>1. j \in S /\ j \in Nat /\ j <= k
      BY <2>2
    <3> QED BY <3>1, <2>1
  <2>3. m \notin Upto(k)
    BY <2>1
  <2>4. Upto(k) \subseteq x /\ Upto(k) # x
    BY <1>4, <2>1, <2>2, <2>3
  <2>5. Upto(k) \in T /\ Upto(k) \in SUBSET Nat /\ x \in SUBSET Nat
    BY <1>4
  <2> QED
    BY <2>4, <2>5, <1>3 DEF StrictSubsetOrdering
<1> QED
  BY <1>5

(* The oldest trade of a non-empty set is one of the set.                  *)
LEMMA FirstIn ==
  ASSUME NEW T, T # {}, \A t \in T : t.id \in Nat
  PROVE  First(T) \in T
<1> DEFINE ids == {t.id : t \in T}
<1>1. PICK m \in ids : \A k \in ids : m <= k
  <2>1. ids \in SUBSET Nat /\ ids # {}
    OBVIOUS
  <2> HIDE DEF ids
  <2> QED BY <2>1, HasLeast
<1>2. \E t \in T : \A u \in T : t.id <= u.id
  BY <1>1
<1> QED
  BY <1>2 DEF First

(* The newest trade of a non-empty set with bounded ids is one of the set. *)
LEMMA LastIn ==
  ASSUME NEW T, T # {}, NEW n \in Nat, \A t \in T : t.id \in Nat /\ t.id <= n
  PROVE  Last(T) \in T
<1> DEFINE gaps == {n - t.id : t \in T}
<1>1. PICK m \in gaps : \A k \in gaps : m <= k
  <2>1. gaps \in SUBSET Nat /\ gaps # {}
    OBVIOUS
  <2> HIDE DEF gaps
  <2> QED BY <2>1, HasLeast
<1>2. PICK t \in T : m = n - t.id
  BY <1>1
<1>3. \A u \in T : t.id >= u.id
  <2> SUFFICES ASSUME NEW u \in T PROVE t.id >= u.id
    OBVIOUS
  <2>1. n - t.id <= n - u.id
    BY <1>1, <1>2
  <2> QED BY <2>1
<1> QED
  BY <1>3 DEF Last

LEMMA QuantityInt == \A T : Quantity(T) \in Int
  BY DEF Quantity

(* The quantity of no trades, and of a set of which one is taken.          *)
LEMMA QuantityNone == Quantity({}) = 0
<1> DEFINE f == [t \in {} |-> t.q]
<1>1. SumFunctionOnSet(f, {}) = 0
  BY SumOfNone
<1> QED BY <1>1 DEF Quantity, SumFunction

LEMMA QuantityTakes ==
  ASSUME NEW T, IsFiniteSet(T), \A t \in T : t.q \in Int, NEW t \in T
  PROVE  Quantity(T) = t.q + Quantity(T \ {t})
<1> DEFINE f == [u \in T |-> u.q]
           R == T \ {t}
           g == [u \in R |-> u.q]
<1>1. (\A u \in T : f[u] \in Int) /\ (\A u \in R : g[u] \in Int /\ f[u] = g[u]) /\ f[t] = t.q
  OBVIOUS
<1>2. IsFiniteSet(R) /\ DOMAIN f = T /\ DOMAIN g = R
  BY FS_Subset
<1> HIDE DEF f, g
<1>3. SumFunctionOnSet(f, T) = f[t] + SumFunctionOnSet(f, R)
  BY <1>1, SumTakes
<1> HIDE DEF R
<1>4. SumFunctionOnSet(f, R) = SumFunctionOnSet(g, R)
  BY <1>1, <1>2, SumAgrees
<1>5. SumFunctionOnSet(f, T) \in Int /\ SumFunctionOnSet(g, R) \in Int
  BY <1>1, <1>2, SumInt
<1>6. Quantity(T) = SumFunctionOnSet(f, T)
  BY <1>2, <1>5 DEF Quantity, SumFunction, f
<1>7. Quantity(R) = SumFunctionOnSet(g, R)
  BY <1>2, <1>5 DEF Quantity, SumFunction, g
<1> QED BY <1>1, <1>3, <1>4, <1>6, <1>7 DEF R

LEMMA QuantityAdds ==
  ASSUME NEW T, IsFiniteSet(T), \A u \in T : u.q \in Int, NEW t, t \notin T, t.q \in Int
  PROVE  Quantity(T \cup {t}) = Quantity(T) + t.q
<1> DEFINE U == T \cup {t}
<1>1. IsFiniteSet(U)
  BY FS_AddElement
<1>2. (\A u \in U : u.q \in Int) /\ t \in U /\ U \ {t} = T
  OBVIOUS
<1> HIDE DEF U
<1>3. Quantity(U) = t.q + Quantity(T)
  BY <1>1, <1>2, QuantityTakes
<1> QED BY <1>3, QuantityInt DEF U

LEMMA QuantityOne == ASSUME NEW t, t.q \in Int PROVE Quantity({t}) = t.q
<1>1. Quantity({} \cup {t}) = Quantity({}) + t.q
  BY QuantityAdds, FS_EmptySet
<1>2. {} \cup {t} = {t}
  OBVIOUS
<1>3. Quantity({t}) = 0 + t.q
  BY <1>1, <1>2, QuantityNone
<1> QED BY <1>3

(* Reconcile invents no trade: what it adopts is open in the store.        *)
LEMMA AdoptedSubset ==
  ASSUME NEW T, NEW b, \A t \in T : t.id \in Nat
  PROVE  Adopted(T, b) \subseteq T
<1> DEFINE exact == {t \in T : t.q = b}
<1>1. exact # {} => First(exact) \in T
  <2>1. exact # {} => First(exact) \in exact
    BY FirstIn
  <2> QED BY <2>1
<1> QED
  BY <1>1 DEF Adopted

(* What is adopted and what is flattened as an orphan add up to what the   *)
(* broker holds, but for a single trade.                                   *)
LEMMA AdoptedAddsUp ==
  ASSUME NEW T, IsFiniteSet(T), \A t \in T : t.id \in Nat /\ t.q \in Int, NEW b \in Int,
         Cardinality(T) # 1
  PROVE  Quantity(Adopted(T, b)) + Decide(T, b).orphan = b
<1> DEFINE exact == {t \in T : t.q = b}
<1>1. Decide(T, b).orphan = IF Adopted(T, b) = {} THEN b ELSE 0
  BY DEF Decide
<1>2. CASE b = Quantity(T)
  <2>1. Adopted(T, b) = T
    BY <1>2 DEF Adopted
  <2> QED BY <1>1, <1>2, <2>1, QuantityNone
<1>3. CASE b # Quantity(T) /\ b # 0 /\ exact # {}
  <2>1. Adopted(T, b) = {First(exact)}
    BY <1>3 DEF Adopted
  <2>2. First(exact) \in exact
    BY <1>3, FirstIn
  <2>3. Quantity({First(exact)}) = b
    BY <2>2, QuantityOne
  <2>4. Adopted(T, b) # {}
    BY <2>1
  <2> HIDE DEF exact
  <2>5. Quantity(Adopted(T, b)) = b /\ Decide(T, b).orphan = 0
    BY <1>1, <2>1, <2>3, <2>4
  <2> QED BY <2>5
<1>4. CASE b # Quantity(T) /\ ~(b # 0 /\ exact # {})
  <2>1. Adopted(T, b) = {}
    BY <1>4 DEF Adopted
  <2> QED BY <1>1, <2>1, QuantityNone
<1> QED BY <1>2, <1>3, <1>4

(* The one trade of a symbol is adopted or not by its sign.                *)
LEMMA AdoptedAlone ==
  ASSUME NEW t, t.q \in Int, NEW b \in Int
  PROVE  /\ SameSign(t.q, b) => Adopted({t}, b) = {t}
         /\ ~SameSign(t.q, b) => Adopted({t}, b) = {}
<1>1. Cardinality({t}) = 1
  BY FS_Singleton
<1>2. Adopted({t}, b) = {u \in {t} : SameSign(u.q, b)}
  BY <1>1 DEF Adopted
<1> QED BY <1>2

(* Rows that agree with the broker are all adopted.                        *)
LEMMA AgreedAdopted ==
  ASSUME NEW T, IsFiniteSet(T), \A t \in T : t.q \in Int \ {0}
  PROVE  Adopted(T, Quantity(T)) = T
<1>1. CASE Cardinality(T) = 1
  <2>1. PICK t : T = {t}
    BY <1>1, FS_Singleton
  <2>2. t.q \in Int \ {0} /\ Quantity(T) = t.q
    BY <2>1, QuantityOne
  <2>3. SameSign(t.q, Quantity(T))
    BY <2>2 DEF SameSign
  <2> QED BY <2>1, <2>2, <2>3, AdoptedAlone
<1>2. CASE Cardinality(T) # 1
  BY <1>2 DEF Adopted
<1> QED BY <1>1, <1>2

(* DecisionSound: whatever rows and quantity it is given, a reconcile      *)
(* adopts or closes every row and never both; of a symbol with no row or   *)
(* several, what it adopts and what it flattens add up to what the broker  *)
(* holds, and the only row of a symbol is adopted with its sign alone, or  *)
(* else all of it is flattened; rows that agree with the broker are left.  *)
THEOREM DecisionSound ==
  ASSUME NEW T, IsFiniteSet(T), \A t \in T : t.id \in Nat /\ t.q \in Int, NEW b \in Int
  PROVE  LET d == Decide(T, b)
         IN  /\ d.adopt \cup d.missing = T /\ d.adopt \cap d.missing = {}
             /\ Cardinality(T) # 1 => Quantity(d.adopt) + d.orphan = b
             /\ \A t : T = {t} => IF SameSign(t.q, b) THEN d.adopt = T /\ d.orphan = 0
                                                      ELSE d.adopt = {} /\ d.orphan = b
             /\ (\A t \in T : t.q # 0) /\ b = Quantity(T) => d.missing = {} /\ d.orphan = 0
<1> DEFINE d == Decide(T, b)
<1>0. /\ d.adopt = Adopted(T, b) /\ d.missing = T \ Adopted(T, b)
      /\ d.orphan = IF Adopted(T, b) = {} THEN b ELSE 0
  BY DEF Decide
<1>1. Adopted(T, b) \subseteq T
  BY AdoptedSubset
<1>2. Cardinality(T) # 1 => Quantity(d.adopt) + d.orphan = b
  BY <1>0, AdoptedAddsUp
<1> HIDE DEF d
<1>3. ASSUME NEW t, T = {t}
      PROVE  IF SameSign(t.q, b) THEN d.adopt = T /\ d.orphan = 0 ELSE d.adopt = {} /\ d.orphan = b
  <2>1. t.q \in Int
    BY <1>3
  <2>2. /\ SameSign(t.q, b) => Adopted(T, b) = {t}
        /\ ~SameSign(t.q, b) => Adopted(T, b) = {}
    BY <1>3, <2>1, AdoptedAlone
  <2> QED BY <1>0, <1>3, <2>2
<1>4. ASSUME \A t \in T : t.q # 0, b = Quantity(T) PROVE d.missing = {} /\ d.orphan = 0
  <2>1. Adopted(T, b) = T
    BY <1>4, AgreedAdopted
  <2>2. T = {} => b = 0
    BY <1>4, QuantityNone
  <2> QED BY <1>0, <2>1, <2>2
<1> QED
  BY <1>0, <1>1, <1>2, <1>3, <1>4 DEF d

-----------------------------------------------------------------------------
(* Types.                                                                  *)

LEMMA ExecutorSleeve == Executor \in Sleeves
  BY RunnersAssumption DEF Executor, Sleeves, Range

LEMMA NoJobType ==
  /\ NoJob.sl \in Sleeves /\ NoJob.sym \in Symbols
  /\ NoJob \in Jobs
<1>1. (CHOOSE s \in Symbols : TRUE) \in Symbols
  BY SymbolsAssumption
<1> QED
  BY <1>1, ExecutorSleeve DEF NoJob, Jobs

LEMMA PlaceType ==
  ASSUME NEW o \in Orders, NEW q \in Int
  PROVE  Place(o, q) \in Orders
BY DEF Place, Orders

LEMMA ExcessInt ==
  ASSUME TypeOK, NEW sl, NEW sym \in Symbols
  PROVE  Excess(sl, sym) \in Int
BY QuantityInt DEF Excess, TypeOK

LEMMA FirstLegInt ==
  ASSUME NEW held \in Int, NEW signed \in Int
  PROVE  FirstLeg(held, signed) \in Int
BY DEF FirstLeg

(* A market order that would cross zero is sent as two: neither the first  *)
(* leg, nor the rest from where the first leg leaves the position, crosses *)
(* zero, both go the way of the order, and together they are the order.    *)
(* This is execute()'s split, for every held and ordered quantity.         *)
THEOREM SplitNeverFlips ==
  ASSUME NEW held \in Int, NEW signed \in Int
  PROVE  LET first == FirstLeg(held, signed)
             rest  == signed - first
         IN  /\ ~Crosses(held, first)
             /\ ~Crosses(held + first, rest)
             /\ first * signed >= 0 /\ rest * signed >= 0
             /\ first + rest = signed
<1>1. CASE Crosses(held, signed)
  <2>1. \/ held > 0 /\ signed < 0 /\ -held > signed
        \/ held < 0 /\ signed > 0 /\ -held < signed
    BY <1>1 DEF Crosses
  <2>2. FirstLeg(held, signed) = -held
    BY <1>1 DEF FirstLeg
  <2> QED
    BY <2>1, <2>2 DEF Crosses
<1>2. CASE ~Crosses(held, signed)
  <2>1. FirstLeg(held, signed) = signed
    BY <1>2 DEF FirstLeg
  <2>2. signed * signed >= 0 /\ (signed - signed) * signed = 0
    OBVIOUS
  <2> QED
    BY <1>2, <2>1, <2>2 DEF Crosses
<1> QED
  BY <1>1, <1>2
-----------------------------------------------------------------------------
(* Type correctness, one lemma per group of actions.                       *)

LEMMA SendType ==
  ASSUME NEW op \in {"enter", "exit"}, NEW sl \in Sleeves, NEW sym \in Symbols, NEW signed \in Int,
         Send(op, sl, sym, signed)
  PROVE  job' \in Jobs
<1>1. HeldNet(sym) \in Int
  BY QuantityInt DEF HeldNet
<1>2. FirstLeg(HeldNet(sym), signed) \in Int
  BY <1>1, FirstLegInt
<1> QED
  BY <1>2 DEF Send, Jobs

LEMMA FaultType ==
  ASSUME TypeOK, NEW kind, Fault(kind)
  PROVE  faults' \subseteq FaultKinds
BY DEF TypeOK, Fault

LEMMA AskType ==
  ASSUME TypeOK, AskPositions
  PROVE  faults' \subseteq FaultKinds
BY FaultType DEF TypeOK, AskPositions

LEMMA TypeInit == Init => TypeOK
<1> SUFFICES ASSUME Init PROVE TypeOK
  OBVIOUS
<1>1. positions \in [Sleeves -> [Symbols -> Positions]]
  BY DEF Init, NoPos, Positions
<1>2. stray \in [Symbols -> Orders]
  BY DEF Init, NoOrders, Orders
<1>3. job \in Jobs
  BY NoJobType DEF Init, Jobs
<1>4. queue \in Seq(Turns)
  BY DEF Init
<1>5. net \in [Symbols -> Int] /\ trades \subseteq Trades /\ nextId \in Nat \ {0}
  BY DEF Init
<1>6. todo \subseteq Symbols /\ stage \in {"exits", "cancel"} /\ flattened \subseteq Sleeves
      /\ ready \subseteq Sleeves /\ late \in BOOLEAN /\ cache \in {"none", "ok", "failed"}
      /\ up \in BOOLEAN /\ faults \subseteq FaultKinds
  BY DEF Init
<1> QED
  BY <1>1, <1>2, <1>3, <1>4, <1>5, <1>6 DEF TypeOK

LEMMA TypeOrder ==
  ASSUME TypeOK, BrokerFills \/ BrokerEnds \/ NextLeg \/ NextLegRejected \/ PollRaises
  PROVE  TypeOK'
<1> USE DEF brokerVars, storeVars, flatVars, dayVars
<1>1. CASE BrokerFills
  <2>1. PICK k \in 1..Abs(job.sent - job.got) :
          LET got == job.got + k * Unit(job.sent)
          IN  /\ net' = [net EXCEPT ![job.sym] = @ + k * Unit(job.sent)]
              /\ job' = [job EXCEPT !.got = got, !.live = got # job.sent]
    BY <1>1 DEF BrokerFills
  <2>2. Unit(job.sent) \in {-1, 1} /\ k \in Int /\ job \in Jobs
    BY DEF Unit, TypeOK, Jobs, Abs
  <2>3. k * Unit(job.sent) \in Int
    BY <2>2
  <2>4. job' \in Jobs
    <3> DEFINE got == job.got + k * Unit(job.sent)
               more == got # job.sent
    <3>1. got \in Int /\ more \in BOOLEAN
      BY <2>2, <2>3 DEF Jobs
    <3>2. job' = [job EXCEPT !.got = got, !.live = more]
      BY <2>1
    <3> HIDE DEF got, more
    <3> QED
      BY <2>2, <3>1, <3>2 DEF Jobs
  <2>5. net' \in [Symbols -> Int]
    BY <2>1, <2>2, <2>3 DEF TypeOK, Jobs
  <2>6. UNCHANGED <<stray, storeVars, positions, flatVars, dayVars, faults>>
    BY <1>1 DEF BrokerFills
  <2> QED
    BY <2>4, <2>5, <2>6 DEF TypeOK
<1>2. CASE BrokerEnds
  <2>1. job' \in Jobs
    BY <1>2 DEF BrokerEnds, TypeOK, Jobs
  <2> QED
    BY <1>2, <2>1 DEF BrokerEnds, TypeOK
<1>3. CASE NextLeg
  <2>0. job \in Jobs /\ job.rest \in Int /\ job.got \in Int
    BY DEF TypeOK, Jobs
  <2>1. job' \in Jobs
    BY <1>3, <2>0 DEF NextLeg, Jobs
  <2> QED
    BY <1>3, <2>1 DEF NextLeg, TypeOK
<1>4. CASE NextLegRejected
  <2>1. faults' \subseteq FaultKinds
    BY <1>4, FaultType DEF NextLegRejected
  <2> QED
    BY <1>4, <2>1, NoJobType DEF NextLegRejected, TypeOK
<1>5. CASE PollRaises
  <2>1. faults' \subseteq FaultKinds
    BY <1>5, FaultType DEF PollRaises
  <2>2. stray[job.sym] \in Orders /\ job.sent - job.got \in Int /\ job.sym \in Symbols
    BY DEF TypeOK, Jobs
  <2>3. Place(stray[job.sym], job.sent - job.got) \in Orders
    BY <2>2, PlaceType
  <2>4. stray' \in [Symbols -> Orders]
    BY <1>5, <2>2, <2>3 DEF PollRaises, TypeOK
  <2> QED
    BY <1>5, <2>1, <2>4, NoJobType DEF PollRaises, TypeOK
<1> QED
  BY <1>1, <1>2, <1>3, <1>4, <1>5
LEMMA TypeEntry ==
  ASSUME TypeOK,
         (\E sl \in Sleeves, sym \in Symbols : \E q \in Sizes : Enter(sl, sym, q))
         \/ EntrySettled \/ EntryUnsettled
  PROVE  TypeOK'
<1> USE DEF brokerVars, storeVars, flatVars, dayVars
<1>1. ASSUME NEW sl \in Sleeves, NEW sym \in Symbols, NEW q \in Sizes, Enter(sl, sym, q)
      PROVE  TypeOK'
  <2>1. q \in Int
    BY BoundsAssumption DEF Sizes
  <2>2. job' \in Jobs
    BY <1>1, <2>1, SendType DEF Enter
  <2> QED
    BY <1>1, <2>2 DEF Enter, TypeOK
<1>2. ASSUME NEW q \in Int, RecordEntry(q)
      PROVE  /\ trades' \subseteq Trades /\ nextId' \in Nat \ {0}
             /\ positions' \in [Sleeves -> [Symbols -> Positions]]
  <2>0. job.sl \in Sleeves /\ job.sym \in Symbols /\ nextId \in Nat \ {0}
    BY DEF TypeOK, Jobs
  <2>1. CASE q = 0
    BY <1>2, <2>1 DEF RecordEntry, TypeOK
  <2>2. CASE q # 0
    <3>1. OpenTrade(q)
      BY <1>2, <2>2 DEF RecordEntry
    <3>2. [id |-> nextId, sl |-> job.sl, sym |-> job.sym, q |-> q] \in Trades
      BY <2>0, <2>2 DEF Trades
    <3>3. [id |-> nextId, q |-> q] \in Positions
      BY <2>0 DEF Positions
    <3> QED
      BY <2>0, <3>1, <3>2, <3>3 DEF OpenTrade, TypeOK
  <2> QED
    BY <2>1, <2>2
<1>3. CASE EntrySettled
  <2>1. Fill \in Int
    BY DEF Fill, TypeOK, Jobs
  <2>2. RecordEntry(Fill)
    BY <1>3 DEF EntrySettled
  <2> QED
    BY <1>2, <1>3, <2>1, <2>2, NoJobType DEF EntrySettled, TypeOK
<1>4. CASE EntryUnsettled
  <2>1. job.want \in Int /\ job.sym \in Symbols /\ stray[job.sym] \in Orders /\ job.sent - job.got \in Int
    BY DEF TypeOK, Jobs
  <2>2. RecordEntry(job.want)
    BY <1>4 DEF EntryUnsettled
  <2>3. Place(stray[job.sym], job.sent - job.got) \in Orders
    BY <2>1, PlaceType
  <2>4. stray' \in [Symbols -> Orders]
    BY <1>4, <2>1, <2>3 DEF EntryUnsettled, TypeOK
  <2>5. faults' \subseteq FaultKinds
    BY <1>4, FaultType DEF EntryUnsettled
  <2> QED
    BY <1>2, <1>4, <2>1, <2>2, <2>4, <2>5, NoJobType DEF EntryUnsettled, TypeOK
<1> QED
  BY <1>1, <1>3, <1>4

LEMMA CloseWholeType ==
  ASSUME TypeOK, CloseWhole
  PROVE  /\ trades' \subseteq Trades
         /\ positions' \in [Sleeves -> [Symbols -> Positions]]
<1>1. NoPos \in Positions
  BY DEF NoPos, Positions
<1> QED
  BY <1>1 DEF CloseWhole, TypeOK, Jobs
(* A position in memory names a row of the store.                          *)
LEMMA HeldRow ==
  ASSUME TypeOK, PositionsBacked, NEW sl \in Sleeves, NEW sym \in Symbols,
         positions[sl][sym] # NoPos
  PROVE  /\ positions[sl][sym].id \in Nat \ {0}
         /\ \E t \in trades : Backs(t, sl, sym)
<1>1. PICK t \in trades : Backs(t, sl, sym)
  BY DEF PositionsBacked
<1>2. t.id \in Nat \ {0} /\ t.id = positions[sl][sym].id
  BY <1>1 DEF Backs, TypeOK, Trades
<1> QED
  BY <1>1, <1>2

LEMMA TypeExit ==
  ASSUME TypeOK, BackedInv,
         (\E sl \in Sleeves, sym \in Symbols : Exit(sl, sym))
         \/ ExitSettled \/ ExitSplits \/ SplitRecorded \/ ExitUnsettled
  PROVE  TypeOK'
<1> USE DEF brokerVars, storeVars, flatVars, dayVars
<1>0. job \in Jobs /\ job.sl \in Sleeves /\ job.sym \in Symbols /\ Position \in Positions
      /\ Fill \in Int /\ nextId \in Nat \ {0} /\ Position.id \in Nat /\ Position.q \in Int
  <2>1. job \in Jobs /\ nextId \in Nat \ {0} /\ positions \in [Sleeves -> [Symbols -> Positions]]
    BY DEF TypeOK
  <2>2. job.sl \in Sleeves /\ job.sym \in Symbols /\ Fill \in Int
    BY <2>1 DEF Jobs, Fill
  <2>3. Position \in Positions
    BY <2>1, <2>2 DEF Position
  <2> QED
    BY <2>1, <2>2, <2>3 DEF Positions
<1>1. ASSUME NEW sl \in Sleeves, NEW sym \in Symbols, Exit(sl, sym)
      PROVE  TypeOK'
  <2>1. -positions[sl][sym].q \in Int
    BY DEF TypeOK, Positions
  <2>2. job' \in Jobs
    BY <1>1, <2>1, SendType DEF Exit
  <2> QED
    BY <1>1, <2>2 DEF Exit, TypeOK
<1>2. CASE ExitSettled
  <2>1. trades' \subseteq Trades /\ positions' \in [Sleeves -> [Symbols -> Positions]]
    BY <1>2, CloseWholeType DEF ExitSettled, TypeOK
  <2> QED
    BY <1>2, <2>1, NoJobType DEF ExitSettled, TypeOK
<1>3. CASE ExitSplits
  <2>1. job' \in Jobs
    BY <1>3, <1>0 DEF ExitSplits, Jobs
  <2>2. Position # NoPos /\ job.want = -Position.q
    BY <1>3 DEF ExitSplits, ExitHeld, BackedInv
  <2>3. Position.id \in Nat \ {0} /\ Fill # 0 /\ Position.q + Fill # 0
    BY <1>3, <1>0, <2>2, HeldRow DEF ExitSplits, Position, BackedInv
  <2>4. trades' \subseteq Trades /\ nextId' \in Nat \ {0}
    BY <1>3, <1>0, <2>3 DEF ExitSplits, TypeOK, Trades
  <2> QED
    BY <1>3, <2>1, <2>4 DEF ExitSplits, TypeOK
<1>4. CASE SplitRecorded
  <2>1. [id |-> RestRow, q |-> Position.q + Fill] \in Positions
    BY <1>0 DEF RestRow, Positions
  <2>2. positions' \in [Sleeves -> [Symbols -> Positions]]
    BY <1>4, <1>0, <2>1 DEF SplitRecorded, Position, TypeOK
  <2> QED
    BY <1>4, <2>2, NoJobType DEF SplitRecorded, TypeOK
<1>5. CASE ExitUnsettled
  <2>1. trades' \subseteq Trades /\ positions' \in [Sleeves -> [Symbols -> Positions]]
    BY <1>5, CloseWholeType DEF ExitUnsettled
  <2>2. stray[job.sym] \in Orders /\ job.sent - job.got \in Int
    BY <1>0 DEF TypeOK, Jobs
  <2>3. stray' \in [Symbols -> Orders]
    BY <1>5, <1>0, <2>2, PlaceType DEF ExitUnsettled, TypeOK
  <2>4. faults' \subseteq FaultKinds
    BY <1>5, FaultType DEF ExitUnsettled
  <2> QED
    BY <1>5, <2>1, <2>3, <2>4, NoJobType DEF ExitUnsettled, TypeOK
<1> QED
  BY <1>1, <1>2, <1>3, <1>4, <1>5
LEMMA TypeStray ==
  ASSUME TypeOK, NEW sym \in Symbols, StrayFills(sym) \/ StrayDies(sym)
  PROVE  TypeOK'
<1> USE DEF brokerVars, storeVars, flatVars, dayVars
<1>1. CASE StrayFills(sym)
  <2>1. stray[sym] \in Orders /\ net[sym] \in Int
    BY DEF TypeOK
  <2>2. CASE stray[sym].buy > 0 /\ net' = [net EXCEPT ![sym] = @ + 1]
             /\ stray' = [stray EXCEPT ![sym].buy = @ - 1]
    <3>1. [stray[sym] EXCEPT !.buy = @ - 1] \in Orders
      BY <2>1, <2>2 DEF Orders
    <3>2. stray' = [stray EXCEPT ![sym] = [stray[sym] EXCEPT !.buy = @ - 1]]
      BY <2>2
    <3>3. stray' \in [Symbols -> Orders] /\ net' \in [Symbols -> Int]
      BY <2>1, <2>2, <3>1, <3>2 DEF TypeOK
    <3> QED
      BY <1>1, <3>3 DEF StrayFills, TypeOK
  <2>3. CASE stray[sym].sell > 0 /\ net' = [net EXCEPT ![sym] = @ - 1]
             /\ stray' = [stray EXCEPT ![sym].sell = @ - 1]
    <3>1. [stray[sym] EXCEPT !.sell = @ - 1] \in Orders
      BY <2>1, <2>3 DEF Orders
    <3>2. stray' = [stray EXCEPT ![sym] = [stray[sym] EXCEPT !.sell = @ - 1]]
      BY <2>3
    <3>3. stray' \in [Symbols -> Orders] /\ net' \in [Symbols -> Int]
      BY <2>1, <2>3, <3>1, <3>2 DEF TypeOK
    <3> QED
      BY <1>1, <3>3 DEF StrayFills, TypeOK
  <2> QED
    BY <1>1, <2>2, <2>3 DEF StrayFills
<1>2. CASE StrayDies(sym)
  <2>1. NoOrders \in Orders
    BY DEF NoOrders, Orders
  <2>2. faults' \subseteq FaultKinds
    BY <1>2, FaultType DEF StrayDies
  <2> QED
    BY <1>2, <2>1, <2>2 DEF StrayDies, TypeOK
<1> QED
  BY <1>1, <1>2

LEMMA EveryoneType == Everyone \in Seq(Turns) /\ Everyone # <<>>
<1>1. Runners \in Seq(Sleeves) /\ Len(Runners) \in Nat \ {0}
  BY RunnersAssumption, EmptySeq
<1>2. \A i \in 1..Len(Runners) : Runners[i] \in Sleeves
  BY <1>1
<1> DEFINE n == Len(Runners)
           turn(i) == IF i < n THEN [sl |-> Runners[i + 1], safety |-> FALSE, eod |-> FALSE]
                               ELSE [sl |-> Executor, safety |-> TRUE, eod |-> FALSE]
<1>3. ASSUME NEW i \in 1..n PROVE turn(i) \in Turns
  <2>1. i < n => Runners[i + 1] \in Sleeves
    BY <1>1, <1>2
  <2> QED
    BY <2>1, ExecutorSleeve DEF Turns
<1>4. Everyone = [i \in 1..n |-> turn(i)]
  BY DEF Everyone
<1> HIDE DEF turn
<1>5. Everyone \in [1..n -> Turns]
  BY <1>3, <1>4
<1>6. Everyone \in Seq(Turns) /\ Len(Everyone) = n
  BY <1>1, <1>5
<1> QED
  BY <1>1, <1>6

LEMMA BeginType ==
  ASSUME TypeOK, NEW q \in Seq(Turns), Begin(q)
  PROVE  queue' \in Seq(Turns) /\ todo' \subseteq Symbols /\ stage' \in {"exits", "cancel"}
BY DEF Begin, Holding

LEMMA TypeFlattenBegins ==
  ASSUME TypeOK, (\E sl \in Sleeves : EodFlatten(sl)) \/ FlattenAll
  PROVE  TypeOK'
<1> USE DEF brokerVars, storeVars, flatVars, dayVars
<1>1. ASSUME NEW sl \in Sleeves, EodFlatten(sl)
      PROVE  TypeOK'
  <2>1. <<[sl |-> sl, safety |-> TRUE, eod |-> TRUE]>> \in Seq(Turns)
    BY DEF Turns
  <2> QED
    BY <1>1, <2>1, BeginType DEF EodFlatten, TypeOK
<1>2. CASE FlattenAll
  BY <1>2, EveryoneType, BeginType DEF FlattenAll, TypeOK
<1> QED
  BY <1>1, <1>2

LEMMA HeadType ==
  ASSUME TypeOK, Flattening
  PROVE  /\ Head(queue) \in Turns /\ Head(queue).sl \in Sleeves
         /\ Tail(queue) \in Seq(Turns)
<1>1. Head(queue) \in Turns /\ Tail(queue) \in Seq(Turns)
  BY HeadTailProperties DEF TypeOK, Flattening
<1> QED
  BY <1>1 DEF Turns

LEMMA TypeFlattenExit ==
  ASSUME TypeOK, NEW sym \in Symbols, FlattenExit(sym) \/ FlattenExitRejected(sym)
  PROVE  TypeOK'
<1> USE DEF brokerVars, storeVars, flatVars, dayVars
<1>1. Attempted(sym) => todo' \subseteq Symbols
  BY DEF Attempted, TypeOK
<1>2. CASE FlattenExit(sym)
  <2>1. Head(queue).sl \in Sleeves /\ -positions[Head(queue).sl][sym].q \in Int
    BY <1>2, HeadType DEF FlattenExit, TypeOK, Positions
  <2>2. job' \in Jobs
    BY <1>2, <2>1, SendType DEF FlattenExit
  <2> QED
    BY <1>1, <1>2, <2>2 DEF FlattenExit, TypeOK
<1>3. CASE FlattenExitRejected(sym)
  <2>1. faults' \subseteq FaultKinds
    BY <1>3, FaultType DEF FlattenExitRejected
  <2> QED
    BY <1>1, <1>3, <2>1 DEF FlattenExitRejected, TypeOK
<1> QED
  BY <1>2, <1>3

LEMMA TypeSafetyNet ==
  ASSUME TypeOK, SafetyNet \/ SafetyNetRaises
  PROVE  TypeOK'
<1> USE DEF brokerVars, storeVars, flatVars, dayVars
<1>1. CASE SafetyNet
  <2> DEFINE sl     == Head(queue).sl
             alone  == Others(sl) = {}
             excess == {sym \in Symbols : Excess(sl, sym) # 0}
             before == [sym \in Symbols |-> IF alone THEN NoOrders ELSE stray[sym]]
  <2>1. PICK refused \in IF alone THEN {{}} ELSE SUBSET excess :
           /\ IF refused = {} THEN AskPositions ELSE Quiet /\ Fault("submit")
           /\ stray' = [sym \in Symbols |-> IF sym \in refused THEN before[sym]
                                            ELSE Place(before[sym], -Excess(sl, sym))]
           /\ trades' = {t \in trades : t.id \notin {Covered(sl, sym) : sym \in excess \ refused}}
           /\ positions' = [positions EXCEPT ![sl] =
                              [sym \in Symbols |-> IF sym \in excess \ refused THEN NoPos ELSE @[sym]]]
    BY <1>1 DEF SafetyNet
  <2>2. sl \in Sleeves
    BY <1>1, HeadType DEF SafetyNet
  <2>3. ASSUME NEW sym \in Symbols PROVE stray'[sym] \in Orders
    <3>1. before[sym] \in Orders
      BY DEF NoOrders, Orders, TypeOK
    <3>2. -Excess(sl, sym) \in Int
      BY ExcessInt
    <3> HIDE DEF before, sl, excess
    <3>3. Place(before[sym], -Excess(sl, sym)) \in Orders
      BY <3>1, <3>2, PlaceType
    <3> QED
      BY <2>1, <3>1, <3>3
  <2>4. stray' \in [Symbols -> Orders]
    <3> HIDE DEF before, sl, excess
    <3> QED BY <2>1, <2>3
  <2>5. trades' \subseteq Trades
    BY <2>1 DEF TypeOK
  <2>6. positions' \in [Sleeves -> [Symbols -> Positions]]
    <3>1. NoPos \in Positions
      BY DEF NoPos, Positions
    <3> HIDE DEF before, sl, excess
    <3> QED BY <2>1, <2>2, <3>1 DEF TypeOK
  <2>7. faults' \subseteq FaultKinds
    BY <2>1, AskType, FaultType
  <2> HIDE DEF before, sl, excess
  <2> QED
    BY <1>1, <2>4, <2>5, <2>6, <2>7 DEF SafetyNet, TypeOK
<1>2. CASE SafetyNetRaises
  <2>1. faults' \subseteq FaultKinds
    BY <1>2, FaultType DEF SafetyNetRaises
  <2> QED
    BY <1>2, <2>1 DEF SafetyNetRaises, TypeOK
<1> QED
  BY <1>1, <1>2

LEMMA TurnEndsType ==
  ASSUME TypeOK, Flattening, TurnEnds
  PROVE  /\ positions' \in [Sleeves -> [Symbols -> Positions]]
         /\ queue' \in Seq(Turns) /\ todo' \subseteq Symbols
         /\ stage' \in {"exits", "cancel"} /\ flattened' \subseteq Sleeves
<1>1. Head(queue).sl \in Sleeves /\ Tail(queue) \in Seq(Turns)
  BY HeadType
<1>2. NoPos \in Positions
  BY DEF NoPos, Positions
<1>3. positions' \in [Sleeves -> [Symbols -> Positions]]
  BY <1>1, <1>2 DEF TurnEnds, TypeOK
<1>4. todo' \subseteq Symbols
  BY DEF TurnEnds, Holding
<1> QED
  BY <1>1, <1>3, <1>4 DEF TurnEnds, TypeOK

LEMMA TypeTurn ==
  ASSUME TypeOK, CancelAll \/ CancelAllRaises \/ TurnPasses
  PROVE  TypeOK'
<1> USE DEF brokerVars, storeVars, flatVars, dayVars
<1>1. CASE CancelAll
  <2>1. faults' \subseteq FaultKinds
    BY <1>1, FaultType DEF CancelAll, TypeOK
  <2>2. stray' \in [Symbols -> Orders]
    BY <1>1 DEF CancelAll, NoOrders, Orders
  <2> QED
    BY <1>1, <2>1, <2>2, TurnEndsType DEF CancelAll, TypeOK
<1>2. CASE CancelAllRaises
  <2>1. faults' \subseteq FaultKinds
    BY <1>2, FaultType DEF CancelAllRaises
  <2> QED
    BY <1>2, <2>1, TurnEndsType DEF CancelAllRaises, TypeOK
<1>3. CASE TurnPasses
  BY <1>3, TurnEndsType DEF TurnPasses, TypeOK
<1> QED
  BY <1>1, <1>2, <1>3

(* A reconcile adopts open trades only, each for its own sleeve.           *)
LEMMA OutcomeOpen ==
  ASSUME TypeOK, NEW sym
  PROVE  /\ Outcome(sym).adopt \subseteq TradesOf(sym)
         /\ TradesOf(sym) \subseteq trades
         /\ \A t \in TradesOf(sym) : t.id \in Nat
<1>1. \A t \in TradesOf(sym) : t.id \in Nat
  BY DEF TradesOf, TypeOK, Trades
<1>2. Adopted(TradesOf(sym), net[sym]) \subseteq TradesOf(sym)
  BY <1>1, AdoptedSubset
<1> QED
  BY <1>1, <1>2 DEF Outcome, Decide, TradesOf

\* The adopted trades of a sleeve.
Mine(sl, sym) == {t \in Outcome(sym).adopt : t.sl = sl}

LEMMA LastMine ==
  ASSUME TypeOK, RowsUnique, NEW sl, NEW sym, Mine(sl, sym) # {}
  PROVE  LET last == Last(Mine(sl, sym))
         IN  last \in Mine(sl, sym) /\ last \in TradesOf(sym) /\ last.sl = sl /\ last.sym = sym
<1>1. Mine(sl, sym) \subseteq TradesOf(sym) /\ TradesOf(sym) \subseteq trades
  BY OutcomeOpen DEF Mine
<1>2. \A t \in Mine(sl, sym) : t.id \in Nat /\ t.id <= nextId /\ nextId \in Nat
  BY <1>1 DEF RowsUnique, TypeOK, Trades
<1>3. Last(Mine(sl, sym)) \in Mine(sl, sym)
  <2>1. nextId \in Nat
    BY DEF TypeOK
  <2> QED BY <1>2, <2>1, LastIn
<1> QED
  BY <1>1, <1>3 DEF TradesOf, Mine

LEMMA ReconcileType ==
  ASSUME TypeOK, RowsUnique, ReconcilePass
  PROVE  /\ trades' \subseteq Trades /\ stray' \in [Symbols -> Orders]
         /\ positions' \in [Sleeves -> [Symbols -> Positions]]
         /\ cache' \in {"none", "ok", "failed"} /\ faults' \subseteq FaultKinds
<1>1. ASSUME NEW sl \in Sleeves, NEW sym \in Symbols
      PROVE  positions'[sl][sym] \in Positions
  <2> DEFINE mine == Mine(sl, sym)
  <2>1. positions'[sl][sym] = IF mine = {} THEN NoPos ELSE AsPosition(Last(mine))
    BY DEF ReconcilePass, Mine
  <2>2. ASSUME mine # {} PROVE Last(mine) \in Trades
    <3>1. Last(mine) \in TradesOf(sym)
      BY <2>2, LastMine
    <3> QED
      BY <3>1 DEF TradesOf, TypeOK
  <2> HIDE DEF mine
  <2> QED
    BY <2>1, <2>2 DEF NoPos, AsPosition, Positions, Trades
<1>2. positions' \in [Sleeves -> [Symbols -> Positions]]
  <2> DEFINE held(sl, sym) == LET mine == {t \in Outcome(sym).adopt : t.sl = sl}
                              IN  IF mine = {} THEN NoPos ELSE AsPosition(Last(mine))
  <2>1. positions' = [sl \in Sleeves |-> [sym \in Symbols |-> held(sl, sym)]]
    BY DEF ReconcilePass
  <2>2. \A sl \in Sleeves, sym \in Symbols : held(sl, sym) \in Positions
    <3> HIDE DEF held
    <3> QED BY <1>1, <2>1
  <2> HIDE DEF held
  <2> QED
    BY <2>1, <2>2
<1>3. ASSUME NEW sym \in Symbols PROVE Place(stray[sym], -Outcome(sym).orphan) \in Orders
  <2>1. Outcome(sym).orphan \in Int
    BY DEF Outcome, Decide, TypeOK
  <2>2. stray[sym] \in Orders /\ -Outcome(sym).orphan \in Int
    BY <2>1 DEF TypeOK
  <2> QED
    BY <2>2, PlaceType
<1>4. stray' \in [Symbols -> Orders]
  BY <1>3 DEF ReconcilePass
<1>5. trades' \subseteq Trades
  BY DEF ReconcilePass, TypeOK
<1>6. cache' \in {"none", "ok", "failed"} /\ faults' \subseteq FaultKinds
  BY AskType DEF ReconcilePass
<1> QED
  BY <1>2, <1>4, <1>5, <1>6

LEMMA TypeDay ==
  ASSUME TypeOK, RowsUnique,
         Startup \/ (\E sl \in Sleeves : Preopen(sl)) \/ CacheExpires \/ NewDay \/ Crash
  PROVE  TypeOK'
<1> USE DEF brokerVars, storeVars, flatVars, dayVars
<1>1. ReconcileRaises => cache' \in {"none", "ok", "failed"} /\ faults' \subseteq FaultKinds
  BY FaultType DEF ReconcileRaises
<1>2. CASE Startup
  <2>1. CASE ReconcilePass
    BY <1>2, <2>1, ReconcileType DEF Startup, TypeOK
  <2>2. CASE ReconcileRaises
    BY <1>2, <2>2, <1>1 DEF Startup, ReconcileRaises, TypeOK
  <2> QED
    BY <1>2, <2>1, <2>2 DEF Startup
<1>3. ASSUME NEW sl \in Sleeves, Preopen(sl)
      PROVE  TypeOK'
  <2>1. CASE ReconcilePass
    BY <1>3, <2>1, ReconcileType DEF Preopen, TypeOK
  <2>2. CASE ReconcileRaises
    BY <1>3, <2>2, <1>1 DEF Preopen, ReconcileRaises, TypeOK
  <2>3. CASE UNCHANGED <<trades, positions, stray, cache, faults>>
    BY <1>3, <2>3 DEF Preopen, TypeOK
  <2> QED
    BY <1>3, <2>1, <2>2, <2>3 DEF Preopen
<1>4. CASE CacheExpires
  BY <1>4 DEF CacheExpires, TypeOK
<1>5. CASE NewDay
  BY <1>5 DEF NewDay, TypeOK
<1>6. CASE Crash
  <2>1. faults' \subseteq FaultKinds
    BY <1>6, FaultType DEF Crash
  <2>2. stray[job.sym] \in Orders /\ job.sent - job.got \in Int /\ job.sym \in Symbols
    BY DEF TypeOK, Jobs
  <2>3. Place(stray[job.sym], job.sent - job.got) \in Orders
    BY <2>2, PlaceType
  <2>4. stray' \in [Symbols -> Orders]
    BY <1>6, <2>2, <2>3 DEF Crash, TypeOK
  <2>5. positions' \in [Sleeves -> [Symbols -> Positions]]
    BY <1>6 DEF Crash, NoPos, Positions
  <2>6. queue' \in Seq(Turns)
    BY <1>6 DEF Crash
  <2>7. job' \in Jobs
    BY <1>6, NoJobType DEF Crash
  <2> QED
    BY <1>6, <2>1, <2>4, <2>5, <2>6, <2>7 DEF Crash, TypeOK
<1> QED
  BY <1>2, <1>3, <1>4, <1>5, <1>6

-----------------------------------------------------------------------------
(* The invariant TypeOK /\ BackedInv: the type of a split trade needs the  *)
(* position it splits, and a backed position needs unique row ids.         *)

LEMMA TypeStep ==
  ASSUME TypeOK, BackedInv, Next
  PROVE  TypeOK'
<1>0. RowsUnique
  BY DEF BackedInv
<1>1. CASE \E sl \in Sleeves, sym \in Symbols : \E q \in Sizes : Enter(sl, sym, q)
  BY <1>1, TypeEntry
<1>2. CASE \E sl \in Sleeves, sym \in Symbols : Exit(sl, sym)
  BY <1>2, TypeExit
<1>3. CASE BrokerFills \/ BrokerEnds
  BY <1>3, TypeOrder
<1>4. CASE Settle
  <2>1. CASE EntrySettled
    BY <2>1, TypeEntry
  <2>2. CASE ExitSettled \/ ExitSplits \/ SplitRecorded
    BY <2>2, TypeExit
  <2>3. CASE NextLeg
    BY <2>3, TypeOrder
  <2> QED
    BY <1>4, <2>1, <2>2, <2>3 DEF Settle
<1>5. CASE Unsettle
  <2>1. CASE NextLegRejected \/ PollRaises
    BY <2>1, TypeOrder
  <2>2. CASE EntryUnsettled
    BY <2>2, TypeEntry
  <2>3. CASE ExitUnsettled
    BY <2>3, TypeExit
  <2> QED
    BY <1>5, <2>1, <2>2, <2>3 DEF Unsettle
<1>6. CASE \E sym \in Symbols : StrayFills(sym) \/ StrayDies(sym)
  BY <1>6, TypeStray
<1>7. CASE (\E sl \in Sleeves : EodFlatten(sl) \/ Preopen(sl)) \/ FlattenAll
  BY <1>0, <1>7, TypeFlattenBegins, TypeDay
<1>8. CASE Flatten \/ FlattenFails
  BY <1>8, TypeFlattenExit, TypeSafetyNet, TypeTurn DEF Flatten, FlattenFails
<1>9. CASE Startup \/ CacheExpires \/ NewDay \/ Crash
  BY <1>0, <1>9, TypeDay
<1> QED
  BY <1>1, <1>2, <1>3, <1>4, <1>5, <1>6, <1>7, <1>8, <1>9 DEF Next
-----------------------------------------------------------------------------
(* The books: every step keeps BackedInv.                                  *)

(* Steps that leave the rows, the positions and the flatten alone and at   *)
(* most fill, end or give up the order being executed.                     *)
LEMMA BackedQuiet ==
  ASSUME TypeOK, BackedInv,
         UNCHANGED <<trades, nextId, positions, queue, todo>>,
         \/ UNCHANGED job
         \/ job.op # "split" /\ job' = NoJob
         \/ /\ job.op # "split" /\ job'.op = job.op
            /\ job'.sl = job.sl /\ job'.sym = job.sym /\ job'.want = job.want,
         up' = up
  PROVE  BackedInv'
<1>1. RowsUnique' /\ TodoHeld'
  BY DEF BackedInv, RowsUnique, TodoHeld, Flattening
<1>2. CASE UNCHANGED job
  BY <1>1, <1>2 DEF BackedInv, DownIdle, RowsUnique, TodoHeld, ExitHeld, SplitHeld, PositionsBacked,
                    Backs, Position, Fill, Flattening, Idle
<1>3. CASE job.op # "split" /\ job' = NoJob
  <2>1. job'.op = "idle"
    BY <1>3 DEF NoJob
  <2>2. PositionsBacked'
    BY <1>3, <2>1 DEF BackedInv, PositionsBacked, Backs
  <2> QED
    BY <1>1, <2>1, <2>2 DEF BackedInv, DownIdle, ExitHeld, SplitHeld, Flattening, Idle
<1>4. CASE /\ job.op # "split" /\ job'.op = job.op
           /\ job'.sl = job.sl /\ job'.sym = job.sym /\ job'.want = job.want
  <2>1. PositionsBacked'
    BY <1>4 DEF BackedInv, PositionsBacked, Backs
  <2>2. ExitHeld' /\ SplitHeld'
    BY <1>4 DEF BackedInv, ExitHeld, SplitHeld, Position, Flattening
  <2> QED
    BY <1>1, <1>4, <2>1, <2>2 DEF BackedInv, DownIdle, Flattening, Idle
<1> QED
  BY <1>2, <1>3, <1>4

LEMMA BackedOrder ==
  ASSUME TypeOK, BackedInv,
         \/ BrokerFills \/ BrokerEnds \/ NextLeg \/ NextLegRejected \/ PollRaises
         \/ \E sym \in Symbols : StrayFills(sym) \/ StrayDies(sym)
         \/ SafetyNetRaises \/ CacheExpires \/ NewDay
  PROVE  BackedInv'
<1> USE DEF brokerVars, storeVars, flatVars, dayVars
<1>1. CASE BrokerFills \/ BrokerEnds \/ NextLeg
  <2>1. /\ job.op # "split" /\ job'.op = job.op /\ job'.sl = job.sl
        /\ job'.sym = job.sym /\ job'.want = job.want
    <3>0. job.op # "split" /\ job \in Jobs
      BY <1>1 DEF BrokerFills, BrokerEnds, NextLeg, Watching, TypeOK
    <3>1. CASE BrokerFills
      <4>1. PICK got, more : job' = [job EXCEPT !.got = got, !.live = more]
        BY <3>1 DEF BrokerFills
      <4> QED
        BY <3>0, <4>1 DEF Jobs
    <3>2. CASE BrokerEnds
      BY <3>0, <3>2 DEF BrokerEnds, Jobs
    <3>3. CASE NextLeg
      BY <3>0, <3>3 DEF NextLeg
    <3> QED
      BY <1>1, <3>0, <3>1, <3>2, <3>3
  <2> QED
    BY <1>1, <2>1, BackedQuiet DEF BrokerFills, BrokerEnds, NextLeg
<1>2. CASE NextLegRejected \/ PollRaises
  BY <1>2, BackedQuiet DEF NextLegRejected, PollRaises, Watching
<1>3. CASE \E sym \in Symbols : StrayFills(sym) \/ StrayDies(sym)
  BY <1>3, BackedQuiet DEF StrayFills, StrayDies
<1>4. CASE SafetyNetRaises
  BY <1>4, BackedQuiet DEF SafetyNetRaises
<1>5. CASE CacheExpires
  BY <1>5, BackedQuiet DEF CacheExpires
<1>6. CASE NewDay
  BY <1>6, BackedQuiet DEF NewDay
<1> QED
  BY <1>1, <1>2, <1>3, <1>4, <1>5, <1>6
(* An order begins: an entry, or the exit of a whole position.             *)
LEMMA BackedBegins ==
  ASSUME TypeOK, BackedInv,
         (\E sl \in Sleeves, sym \in Symbols : \E q \in Sizes : Enter(sl, sym, q))
         \/ (\E sl \in Sleeves, sym \in Symbols : Exit(sl, sym))
  PROVE  BackedInv'
<1> USE DEF brokerVars, storeVars, flatVars, dayVars
<1>0. ASSUME ~Flattening PROVE todo = {}
  BY <1>0 DEF BackedInv, TodoHeld
<1>1. ASSUME Free, UNCHANGED <<trades, nextId, positions, queue, todo>>, up' = up,
             job'.op \in {"enter", "exit"}
      PROVE  DownIdle' /\ RowsUnique' /\ TodoHeld' /\ SplitHeld' /\ PositionsBacked'
  <2>1. RowsUnique' /\ TodoHeld' /\ DownIdle' /\ SplitHeld'
    BY <1>1 DEF BackedInv, RowsUnique, TodoHeld, Flattening, DownIdle, SplitHeld, Free
  <2>2. PositionsBacked'
    BY <1>1 DEF BackedInv, PositionsBacked, Backs, Free, Idle
  <2> QED
    BY <2>1, <2>2
<1>2. ASSUME NEW sl \in Sleeves, NEW sym \in Symbols, NEW q \in Sizes, Enter(sl, sym, q)
      PROVE  BackedInv'
  <2>1. job'.op = "enter"
    BY <1>2 DEF Enter, Send
  <2>2. ExitHeld'
    BY <2>1 DEF ExitHeld
  <2> QED
    BY <1>1, <1>2, <2>1, <2>2 DEF Enter, BackedInv
<1>3. ASSUME NEW sl \in Sleeves, NEW sym \in Symbols, Exit(sl, sym)
      PROVE  BackedInv'
  <2>1. job'.op = "exit" /\ job'.sl = sl /\ job'.sym = sym /\ job'.want = -positions[sl][sym].q
    BY <1>3 DEF Exit, Send
  <2>2. ExitHeld'
    BY <1>3, <2>1 DEF ExitHeld, Exit, Position, Free, Flattening
  <2> QED
    BY <1>1, <1>3, <2>1, <2>2 DEF Exit, BackedInv
<1> QED
  BY <1>2, <1>3

(* An entry settles: the new row has an id of its own.                     *)
LEMMA BackedEntry ==
  ASSUME TypeOK, BackedInv, EntrySettled \/ EntryUnsettled
  PROVE  BackedInv'
<1> USE DEF brokerVars, storeVars, flatVars, dayVars
<1>0. /\ job.op = "enter" /\ job' = NoJob /\ job'.op = "idle" /\ UNCHANGED <<queue, todo, up>>
      /\ job.sl \in Sleeves /\ job.sym \in Symbols /\ nextId \in Nat \ {0}
  BY DEF EntrySettled, EntryUnsettled, NoJob, TypeOK, Jobs
<1>1. PICK q \in Int : RecordEntry(q)
  BY DEF EntrySettled, EntryUnsettled, Fill, TypeOK, Jobs
<1>2. CASE q = 0
  <2>1. UNCHANGED <<trades, nextId, positions>>
    BY <1>1, <1>2 DEF RecordEntry
  <2> QED
    BY <1>0, <2>1, BackedQuiet
<1>3. CASE q # 0
  <2> DEFINE pos == [id |-> nextId, q |-> q]
  <2>0. PICK row : row = [id |-> nextId, sl |-> job.sl, sym |-> job.sym, q |-> q]
    OBVIOUS
  <2>1. /\ trades' = trades \cup {row} /\ nextId' = nextId + 1
        /\ positions' = [positions EXCEPT ![job.sl][job.sym] = pos]
    BY <1>1, <1>3, <2>0 DEF RecordEntry, OpenTrade
  <2>2. RowsUnique'
    <3>1. \A t \in trades : t.id \in Nat /\ t.id < nextId
      BY DEF BackedInv, RowsUnique, TypeOK, Trades
    <3>2. \A t, u \in trades : t.id = u.id => t = u
      BY DEF BackedInv, RowsUnique
    <3>3. row.id = nextId
      BY <2>0
    <3>4. \A t \in trades' : t.id < nextId'
      BY <1>0, <2>1, <3>1, <3>3
    <3>5. \A t, u \in trades' : t.id = u.id => t = u
      BY <1>0, <2>1, <3>1, <3>2, <3>3
    <3> QED
      BY <3>4, <3>5 DEF RowsUnique
  <2>3. pos # NoPos
    BY <1>0 DEF NoPos
  <2>4. \A sl \in Sleeves, sym \in Symbols :
          positions'[sl][sym] = IF sl = job.sl /\ sym = job.sym THEN pos ELSE positions[sl][sym]
    BY <1>0, <2>1 DEF TypeOK
  <2>5. TodoHeld'
    <3>1. \A sym \in todo : sym \in Symbols /\ Head(queue).sl \in Sleeves
      BY HeadType DEF TypeOK, BackedInv, TodoHeld
    <3> HIDE DEF pos
    <3> QED
      BY <1>0, <2>3, <2>4, <3>1 DEF BackedInv, TodoHeld, Flattening
  <2>6. PositionsBacked'
    <3> SUFFICES ASSUME NEW sl \in Sleeves, NEW sym \in Symbols, positions'[sl][sym] # NoPos
                 PROVE  \E t \in trades' : Backs(t, sl, sym)'
      BY DEF PositionsBacked
    <3>1. CASE sl = job.sl /\ sym = job.sym
      <4>1. positions'[sl][sym] = pos
        BY <2>4, <3>1
      <4>2. Backs(row, sl, sym)'
        BY <2>0, <3>1, <4>1 DEF Backs
      <4> QED
        BY <2>1, <4>2
    <3>2. CASE ~(sl = job.sl /\ sym = job.sym)
      <4>1. positions'[sl][sym] = positions[sl][sym]
        BY <2>4, <3>2
      <4>2. PICK t \in trades : Backs(t, sl, sym)
        BY <4>1 DEF BackedInv, PositionsBacked
      <4>3. Backs(t, sl, sym)'
        BY <1>0, <4>1, <4>2 DEF Backs
      <4> QED
        BY <2>1, <4>2, <4>3
    <3> QED
      BY <3>1, <3>2
  <2>7. ExitHeld' /\ SplitHeld' /\ DownIdle'
    BY <1>0 DEF ExitHeld, SplitHeld, DownIdle, BackedInv, Flattening, Idle
  <2> QED
    BY <2>2, <2>5, <2>6, <2>7 DEF BackedInv
<1> QED
  BY <1>2, <1>3
(* The row of the position being closed backs no other position.           *)
LEMMA OtherRow ==
  ASSUME TypeOK, BackedInv, job.op \in {"exit", "split"},
         NEW sl \in Sleeves, NEW sym \in Symbols, ~(sl = job.sl /\ sym = job.sym),
         positions[sl][sym] # NoPos
  PROVE  \E t \in trades : /\ t.id # Position.id
                           /\ t.id = positions[sl][sym].id /\ t.sl = sl /\ t.sym = sym
                           /\ t.q = positions[sl][sym].q
<1>1. PICK t \in trades : Backs(t, sl, sym)
  BY DEF BackedInv, PositionsBacked
<1>2. job.sl \in Sleeves /\ job.sym \in Symbols /\ Position # NoPos
  BY DEF TypeOK, Jobs, BackedInv, ExitHeld
<1>3. PICK u \in trades : Backs(u, job.sl, job.sym)
  BY <1>2 DEF BackedInv, PositionsBacked, Position
<1>4. t.id # Position.id
  BY <1>1, <1>3 DEF Backs, Position, BackedInv, RowsUnique
<1> QED
  BY <1>1, <1>4 DEF Backs

(* The whole position is closed.                                           *)
LEMMA BackedClose ==
  ASSUME TypeOK, BackedInv, job.op = "exit", CloseWhole, job' = NoJob,
         UNCHANGED <<nextId, queue, todo, up>>
  PROVE  BackedInv'
<1>0. job'.op = "idle" /\ job.sl \in Sleeves /\ job.sym \in Symbols
  BY DEF NoJob, TypeOK, Jobs
<1>1. \A sl \in Sleeves, sym \in Symbols :
        positions'[sl][sym] = IF sl = job.sl /\ sym = job.sym THEN NoPos ELSE positions[sl][sym]
  BY <1>0 DEF CloseWhole, TypeOK
<1>2. RowsUnique'
  BY DEF CloseWhole, BackedInv, RowsUnique
<1>3. TodoHeld'
  <2>1. \A sym \in todo : sym \in Symbols /\ Head(queue).sl \in Sleeves /\ sym # job.sym
    BY HeadType DEF TypeOK, BackedInv, TodoHeld, ExitHeld
  <2> QED
    BY <1>1, <2>1 DEF BackedInv, TodoHeld, Flattening
<1>4. PositionsBacked'
  <2> SUFFICES ASSUME NEW sl \in Sleeves, NEW sym \in Symbols, positions'[sl][sym] # NoPos
               PROVE  \E t \in trades' : Backs(t, sl, sym)'
    BY DEF PositionsBacked
  <2>1. ~(sl = job.sl /\ sym = job.sym) /\ positions'[sl][sym] = positions[sl][sym]
    BY <1>1
  <2>2. PICK t \in trades : /\ t.id # Position.id
                            /\ t.id = positions[sl][sym].id /\ t.sl = sl /\ t.sym = sym
                            /\ t.q = positions[sl][sym].q
    BY <2>1, OtherRow
  <2> QED
    BY <2>1, <2>2 DEF CloseWhole, Backs
<1> QED
  BY <1>0, <1>2, <1>3, <1>4
     DEF BackedInv, ExitHeld, SplitHeld, DownIdle, Flattening, Idle

(* Part of a position is sold: the row is split.                           *)
LEMMA BackedSplits ==
  ASSUME TypeOK, BackedInv, ExitSplits
  PROVE  BackedInv'
<1> USE DEF brokerVars, storeVars, flatVars, dayVars
<1>0. /\ job.op = "exit" /\ job \in Jobs /\ job.sl \in Sleeves /\ job.sym \in Symbols
      /\ Position # NoPos /\ nextId \in Nat \ {0}
  BY DEF ExitSplits, TypeOK, Jobs, BackedInv, ExitHeld
<1>1. job' = [job EXCEPT !.op = "split"] /\ UNCHANGED <<positions, queue, todo, up>>
  BY DEF ExitSplits
<1>2. /\ job'.op = "split" /\ job'.sl = job.sl /\ job'.sym = job.sym /\ job'.want = job.want
      /\ job'.done = job.done /\ job'.got = job.got
  BY <1>0, <1>1 DEF Jobs
<1>3. Position' = Position /\ Fill' = Fill
  BY <1>1, <1>2 DEF Position, Fill
<1>4. PICK sold, rest :
        /\ sold = [id |-> Position.id, sl |-> job.sl, sym |-> job.sym, q |-> -Fill]
        /\ rest = [id |-> nextId, sl |-> job.sl, sym |-> job.sym, q |-> Position.q + Fill]
  OBVIOUS
<1>5. /\ trades' = {t \in trades : t.id # Position.id} \cup {sold, rest}
      /\ nextId' = nextId + 1
  BY <1>4 DEF ExitSplits
<1>6. Position.id \in Nat \ {0} /\ Position.id < nextId
  <2>1. PICK t \in trades : Backs(t, job.sl, job.sym)
    BY <1>0 DEF BackedInv, PositionsBacked, Position
  <2> QED
    BY <1>0, <2>1, HeldRow DEF Backs, Position, BackedInv, RowsUnique
<1>7. RowsUnique'
  <2>1. \A t \in trades : t.id \in Nat /\ t.id < nextId
    BY DEF BackedInv, RowsUnique, TypeOK, Trades
  <2>2. \A t, u \in trades : t.id = u.id => t = u
    BY DEF BackedInv, RowsUnique
  <2>3. sold.id = Position.id /\ rest.id = nextId
    BY <1>4
  <2>4. \A t \in trades' : t.id < nextId'
    BY <1>0, <1>5, <1>6, <2>1, <2>3
  <2>5. \A t, u \in trades' : t.id = u.id => t = u
    BY <1>0, <1>5, <1>6, <2>1, <2>2, <2>3
  <2> QED
    BY <2>4, <2>5 DEF RowsUnique
<1>8. TodoHeld' /\ ExitHeld'
  BY <1>0, <1>1, <1>2, <1>3 DEF BackedInv, TodoHeld, ExitHeld, Flattening
<1>9. SplitHeld'
  BY <1>0, <1>1, <1>2, <1>3, <1>4, <1>5, <1>6 DEF SplitHeld
<1>10. PositionsBacked'
  <2> SUFFICES ASSUME NEW sl \in Sleeves, NEW sym \in Symbols, positions'[sl][sym] # NoPos
               PROVE  \E t \in trades' : Backs(t, sl, sym)'
    BY DEF PositionsBacked
  <2>1. CASE sl = job.sl /\ sym = job.sym
    BY <1>1, <1>2, <1>4, <1>5, <2>1 DEF Backs, Position
  <2>2. CASE ~(sl = job.sl /\ sym = job.sym)
    <3>1. PICK t \in trades : /\ t.id # Position.id
                              /\ t.id = positions[sl][sym].id /\ t.sl = sl /\ t.sym = sym
                              /\ t.q = positions[sl][sym].q
      BY <1>0, <1>1, <2>2, OtherRow
    <3> QED
      BY <1>1, <1>5, <3>1 DEF Backs
  <2> QED
    BY <2>1, <2>2
<1>11. DownIdle'
  BY <1>0, <1>1 DEF ExitSplits, DownIdle
<1> QED
  BY <1>7, <1>8, <1>9, <1>10, <1>11 DEF BackedInv
(* The sold part's row is closed; the remainder's row backs the position.  *)
LEMMA BackedSplitRecorded ==
  ASSUME TypeOK, BackedInv, SplitRecorded
  PROVE  BackedInv'
<1> USE DEF brokerVars, storeVars, flatVars, dayVars
<1>0. /\ job.op = "split" /\ job' = NoJob /\ job'.op = "idle" /\ UNCHANGED <<nextId, queue, todo, up>>
      /\ job.sl \in Sleeves /\ job.sym \in Symbols /\ Position # NoPos /\ nextId \in Nat \ {0}
  BY DEF SplitRecorded, NoJob, TypeOK, Jobs, BackedInv, ExitHeld
<1>1. PICK pos : pos = [id |-> nextId - 1, q |-> Position.q + Fill]
  OBVIOUS
<1>2. /\ trades' = {t \in trades : t.id # Position.id}
      /\ positions' = [positions EXCEPT ![job.sl][job.sym] = pos]
  BY <1>0, <1>1 DEF SplitRecorded, RestRow, Position, TypeOK
<1>3. \A sl \in Sleeves, sym \in Symbols :
        positions'[sl][sym] = IF sl = job.sl /\ sym = job.sym THEN pos ELSE positions[sl][sym]
  BY <1>0, <1>2 DEF TypeOK
<1>4. PICK rest \in trades :
        rest = [id |-> nextId - 1, sl |-> job.sl, sym |-> job.sym, q |-> Position.q + Fill]
  BY <1>0 DEF BackedInv, SplitHeld
<1>5. nextId - 1 > Position.id /\ Position.id \in Nat \ {0}
  BY <1>0, HeldRow DEF BackedInv, SplitHeld, Position
<1>6. rest \in trades' /\ pos # NoPos
  BY <1>0, <1>1, <1>2, <1>4, <1>5 DEF NoPos
<1>7. RowsUnique'
  BY <1>0, <1>2 DEF BackedInv, RowsUnique
<1>8. TodoHeld'
  <2>1. \A sym \in todo : sym \in Symbols /\ Head(queue).sl \in Sleeves
    BY HeadType DEF TypeOK, BackedInv, TodoHeld
  <2> QED
    BY <1>0, <1>3, <1>6, <2>1 DEF BackedInv, TodoHeld, Flattening
<1>9. PositionsBacked'
  <2> SUFFICES ASSUME NEW sl \in Sleeves, NEW sym \in Symbols, positions'[sl][sym] # NoPos
               PROVE  \E t \in trades' : Backs(t, sl, sym)'
    BY DEF PositionsBacked
  <2>1. CASE sl = job.sl /\ sym = job.sym
    BY <1>1, <1>3, <1>4, <1>6, <2>1 DEF Backs
  <2>2. CASE ~(sl = job.sl /\ sym = job.sym)
    <3>1. positions'[sl][sym] = positions[sl][sym]
      BY <1>3, <2>2
    <3>2. PICK t \in trades : /\ t.id # Position.id
                              /\ t.id = positions[sl][sym].id /\ t.sl = sl /\ t.sym = sym
                              /\ t.q = positions[sl][sym].q
      BY <1>0, <2>2, <3>1, OtherRow
    <3> QED
      BY <1>2, <3>1, <3>2 DEF Backs
  <2> QED
    BY <2>1, <2>2
<1> QED
  BY <1>0, <1>7, <1>8, <1>9
     DEF BackedInv, ExitHeld, SplitHeld, DownIdle, Flattening, Idle

LEMMA BackedExit ==
  ASSUME TypeOK, BackedInv, ExitSettled \/ ExitSplits \/ SplitRecorded \/ ExitUnsettled
  PROVE  BackedInv'
<1> USE DEF brokerVars, storeVars, flatVars, dayVars
<1>1. CASE ExitSettled
  <2>1. job.op = "exit" /\ job' = NoJob /\ UNCHANGED <<nextId, queue, todo, up>>
    BY <1>1 DEF ExitSettled
  <2>2. CASE CloseWhole
    BY <2>1, <2>2, BackedClose
  <2>3. CASE UNCHANGED <<trades, positions>>
    BY <2>1, <2>3, BackedQuiet
  <2> QED
    BY <1>1, <2>2, <2>3 DEF ExitSettled
<1>2. CASE ExitUnsettled
  BY <1>2, BackedClose DEF ExitUnsettled
<1> QED
  BY <1>1, <1>2, BackedSplits, BackedSplitRecorded

(* The flatten: what is left to close is held, and what the safety net     *)
(* closes leaves memory together with its row.                             *)
LEMMA BackedFlattenBegins ==
  ASSUME TypeOK, BackedInv, (\E sl \in Sleeves : EodFlatten(sl)) \/ FlattenAll
  PROVE  BackedInv'
<1> USE DEF brokerVars, storeVars, flatVars, dayVars
<1>1. PICK q : Begin(q) /\ q # <<>>
  <2>1. ASSUME NEW sl \in Sleeves, EodFlatten(sl)
        PROVE  \E q : Begin(q) /\ q # <<>>
    <3>1. <<[sl |-> sl, safety |-> TRUE, eod |-> TRUE]>> # <<>>
      OBVIOUS
    <3> QED BY <2>1, <3>1 DEF EodFlatten
  <2>2. CASE FlattenAll
    BY <2>2, EveryoneType DEF FlattenAll
  <2> QED BY <2>1, <2>2
<1>2. Free /\ UNCHANGED <<trades, nextId, positions, job, up>>
  BY DEF EodFlatten, FlattenAll
<1>3. TodoHeld'
  BY <1>1, <1>2 DEF TodoHeld, Begin, Holding, Flattening
<1>4. RowsUnique' /\ DownIdle' /\ ExitHeld' /\ SplitHeld'
  BY <1>2 DEF BackedInv, RowsUnique, DownIdle, ExitHeld, SplitHeld, Free, Idle
<1>5. PositionsBacked'
  BY <1>2 DEF BackedInv, PositionsBacked, Backs
<1> QED
  BY <1>3, <1>4, <1>5 DEF BackedInv

LEMMA BackedFlattenExit ==
  ASSUME TypeOK, BackedInv, NEW sym \in Symbols, FlattenExit(sym) \/ FlattenExitRejected(sym)
  PROVE  BackedInv'
<1> USE DEF brokerVars, storeVars, flatVars, dayVars
<1>0. /\ Idle /\ Flattening /\ sym \in todo /\ todo' = todo \ {sym}
      /\ UNCHANGED <<trades, nextId, positions, queue, up>> /\ up
  BY DEF FlattenExit, FlattenExitRejected, Attempted
<1>1. RowsUnique' /\ TodoHeld' /\ DownIdle'
  BY <1>0 DEF BackedInv, RowsUnique, TodoHeld, DownIdle, Flattening
<1>2. CASE FlattenExit(sym)
  <2>1. /\ job'.op = "exit" /\ job'.sl = Head(queue).sl /\ job'.sym = sym
        /\ job'.want = -positions[Head(queue).sl][sym].q
    BY <1>2 DEF FlattenExit, Send
  <2>2. ExitHeld' /\ SplitHeld'
    BY <1>0, <2>1 DEF BackedInv, TodoHeld, ExitHeld, SplitHeld, Position, Flattening
  <2>3. PositionsBacked'
    BY <1>0 DEF BackedInv, PositionsBacked, Backs, Idle
  <2> QED
    BY <1>1, <2>2, <2>3 DEF BackedInv
<1>3. CASE FlattenExitRejected(sym)
  <2>1. UNCHANGED job
    BY <1>3 DEF FlattenExitRejected
  <2>2. ExitHeld' /\ SplitHeld' /\ PositionsBacked'
    BY <1>0, <2>1 DEF BackedInv, ExitHeld, SplitHeld, PositionsBacked, Backs, Idle
  <2> QED
    BY <1>1, <2>2 DEF BackedInv
<1> QED
  BY <1>2, <1>3

(* The row the safety net closes belongs to the sleeve that flattens, in   *)
(* the symbol whose excess it closes.                                      *)
LEMMA CoveredRow ==
  ASSUME TypeOK, BackedInv, Idle, NEW sl \in Sleeves, NEW sym \in Symbols,
         NEW u \in trades, u.id = Covered(sl, sym)
  PROVE  u.sl = sl /\ u.sym = sym
<1> DEFINE own == {t \in trades : t.sl = sl /\ t.sym = sym}
<1>0. u.id # 0
  BY DEF TypeOK, Trades
<1>1. CASE positions[sl][sym] # NoPos
  <2>1. PICK t \in trades : Backs(t, sl, sym)
    BY <1>1 DEF BackedInv, PositionsBacked
  <2>2. u = t
    BY <1>1, <2>1 DEF Covered, Backs, BackedInv, RowsUnique
  <2> QED
    BY <2>1, <2>2 DEF Backs
<1>2. CASE positions[sl][sym] = NoPos /\ own # {}
  <2>1. \A t \in own : t.id \in Nat
    BY DEF TypeOK, Trades
  <2>2. First(own) \in own
    <3> HIDE DEF own
    <3> QED BY <1>2, <2>1, FirstIn
  <2>3. u.id = First(own).id
    BY <1>2 DEF Covered
  <2>4. u = First(own)
    BY <2>2, <2>3 DEF BackedInv, RowsUnique
  <2> QED
    BY <2>2, <2>4
<1>3. CASE positions[sl][sym] = NoPos /\ own = {}
  BY <1>0, <1>3 DEF Covered
<1> QED
  BY <1>1, <1>2, <1>3

(* What the safety net does to a sleeve's books: the records covering the  *)
(* symbols in gone are closed, and their positions dropped.                *)
Closes(sl, gone) ==
  /\ trades' = {t \in trades : t.id \notin {Covered(sl, sym) : sym \in gone}}
  /\ positions' = [positions EXCEPT ![sl] =
                     [sym \in Symbols |-> IF sym \in gone THEN NoPos ELSE @[sym]]]

(* The safety net: a position that stays keeps its row.                    *)
LEMMA BackedSafetyNet ==
  ASSUME TypeOK, BackedInv, SafetyNet \/ SafetyNetRaises
  PROVE  BackedInv'
<1> USE DEF brokerVars, storeVars, flatVars, dayVars
<1>1. /\ Idle /\ Flattening /\ todo = {} /\ up
      /\ UNCHANGED <<nextId, job, queue, todo, up>>
  BY DEF SafetyNet, SafetyNetRaises
<1>2. PICK sl \in Sleeves : sl = Head(queue).sl
  BY <1>1, HeadType
<1>3. \E gone \in SUBSET Symbols : Closes(sl, gone)
  <2>1. CASE SafetyNet
    <3> DEFINE S == Head(queue).sl
               excess == {sym \in Symbols : Excess(S, sym) # 0}
    <3>1. \E refused : Closes(S, excess \ refused)
      BY <2>1, Zenon DEF SafetyNet, Closes
    <3>2. \A refused : excess \ refused \in SUBSET Symbols
      OBVIOUS
    <3> HIDE DEF excess
    <3>3. \E gone \in SUBSET Symbols : Closes(S, gone)
      BY <3>1, <3>2, Zenon
    <3> QED BY <1>2, <3>3, Zenon
  <2>2. CASE SafetyNetRaises
    <3>1. trades' = {t \in trades : t.id \notin {Covered(sl, sym) : sym \in {}}}
      BY <2>2 DEF SafetyNetRaises
    <3>2. positions' = [positions EXCEPT ![sl] =
                          [sym \in Symbols |-> IF sym \in {} THEN NoPos ELSE @[sym]]]
      BY <1>2, <2>2 DEF SafetyNetRaises, TypeOK
    <3>3. Closes(sl, {})
      BY <3>1, <3>2, Zenon DEF Closes
    <3> QED BY <3>3
  <2> QED BY <2>1, <2>2
<1>4. PICK gone \in SUBSET Symbols :
         /\ trades' = {t \in trades : t.id \notin {Covered(sl, sym) : sym \in gone}}
         /\ positions' = [positions EXCEPT ![sl] =
                            [sym \in Symbols |-> IF sym \in gone THEN NoPos ELSE @[sym]]]
  BY <1>3, Zenon DEF Closes
<1>5. RowsUnique'
  BY <1>1, <1>4 DEF BackedInv, RowsUnique
<1>6. TodoHeld' /\ ExitHeld' /\ SplitHeld' /\ DownIdle'
  BY <1>1 DEF BackedInv, TodoHeld, ExitHeld, SplitHeld, DownIdle, Idle
<1>7. ASSUME NEW s \in Sleeves, NEW sym \in Symbols, positions'[s][sym] # NoPos
      PROVE  \E t \in trades' : Backs(t, s, sym)'
  <2>1. positions'[s][sym] = positions[s][sym] /\ (s = sl => sym \notin gone)
    BY <1>4, <1>7 DEF TypeOK
  <2>2. PICK t \in trades : Backs(t, s, sym)
    BY <1>7, <2>1 DEF BackedInv, PositionsBacked
  <2>3. ASSUME NEW g \in gone PROVE t.id # Covered(sl, g)
    BY <1>1, <2>1, <2>2, CoveredRow DEF Backs
  <2>4. t \in trades'
    BY <1>4, <2>2, <2>3
  <2> QED
    BY <1>1, <2>1, <2>2, <2>4 DEF Backs
<1>8. PositionsBacked'
  BY <1>7 DEF PositionsBacked
<1> QED
  BY <1>5, <1>6, <1>8 DEF BackedInv

(* The end of a turn drops no position: each of them has its row.          *)
LEMMA BackedTurn ==
  ASSUME TypeOK, BackedInv, CancelAll \/ CancelAllRaises \/ TurnPasses
  PROVE  BackedInv'
<1> USE DEF brokerVars, storeVars, flatVars, dayVars
<1>1. Idle /\ Flattening /\ TurnEnds /\ up /\ UNCHANGED <<trades, nextId, job, up>>
  BY DEF CancelAll, CancelAllRaises, TurnPasses
<1>2. PICK sl \in Sleeves : sl = Head(queue).sl
  BY <1>1, HeadType
<1>3. ASSUME NEW s \in Sleeves, NEW sym \in Symbols
      PROVE  positions'[s][sym] = positions[s][sym]
  <2>1. CASE s # sl
    BY <1>1, <1>2, <2>1 DEF TurnEnds, TypeOK
  <2>2. CASE s = sl /\ positions[sl][sym] # NoPos
    <3>1. positions[sl][sym].id \in {t.id : t \in trades}
      BY <2>2 DEF BackedInv, PositionsBacked, Backs
    <3> QED
      BY <1>1, <1>2, <2>2, <3>1 DEF TurnEnds, TypeOK
  <2>3. CASE s = sl /\ positions[sl][sym] = NoPos
    BY <1>1, <1>2, <2>3 DEF TurnEnds, TypeOK
  <2> QED BY <2>1, <2>2, <2>3
<1>4. positions' = positions
  <2>1. positions' \in [Sleeves -> [Symbols -> Positions]]
    BY <1>1, TurnEndsType
  <2>2. ASSUME NEW s \in Sleeves PROVE positions'[s] = positions[s]
    BY <1>3, <2>1 DEF TypeOK
  <2> QED
    BY <2>1, <2>2 DEF TypeOK
<1>5. RowsUnique' /\ ExitHeld' /\ SplitHeld' /\ DownIdle'
  BY <1>1 DEF BackedInv, RowsUnique, ExitHeld, SplitHeld, DownIdle, Idle
<1>6. TodoHeld'
  BY <1>1, <1>4 DEF TurnEnds, TodoHeld, Holding, Flattening
<1>7. PositionsBacked'
  BY <1>1, <1>4 DEF BackedInv, PositionsBacked, Backs
<1> QED
  BY <1>5, <1>6, <1>7 DEF BackedInv

(* A reconcile's positions are rows it adopts, so they stay open.          *)
LEMMA BackedReconcile ==
  ASSUME TypeOK, BackedInv, Idle, ~Flattening, ReconcilePass,
         UNCHANGED <<nextId, job, queue, todo>>
  PROVE  BackedInv'
<1>1. trades' \subseteq trades
  BY DEF ReconcilePass
<1>2. RowsUnique'
  BY <1>1 DEF BackedInv, RowsUnique
<1>3. todo = {} /\ todo' = {} /\ DownIdle' /\ TodoHeld' /\ ExitHeld' /\ SplitHeld'
  BY DEF BackedInv, TodoHeld, ExitHeld, SplitHeld, DownIdle, Idle, Flattening
<1>4. ASSUME NEW sl \in Sleeves, NEW sym \in Symbols, positions'[sl][sym] # NoPos
      PROVE  \E t \in trades' : Backs(t, sl, sym)'
  <2> DEFINE mine == Mine(sl, sym)
  <2>1. positions'[sl][sym] = IF mine = {} THEN NoPos ELSE AsPosition(Last(mine))
    BY DEF ReconcilePass, Mine
  <2>2. mine # {} /\ positions'[sl][sym] = AsPosition(Last(mine))
    BY <1>4, <2>1
  <2>0. PICK t : t = Last(mine)
    OBVIOUS
  <2>3. /\ t \in mine /\ t \in TradesOf(sym)
        /\ t.sl = sl /\ t.sym = sym
    <3>1. RowsUnique
      BY DEF BackedInv
    <3>2. /\ Last(mine) \in mine /\ Last(mine) \in TradesOf(sym)
          /\ Last(mine).sl = sl /\ Last(mine).sym = sym
      BY <2>2, <3>1, LastMine
    <3> QED BY <2>0, <3>2, Zenon
  <2>4. t \in trades'
    <3>1. t \in Outcome(t.sym).adopt /\ t \in trades
      BY <2>3, OutcomeOpen DEF Mine
    <3> QED BY <3>1 DEF ReconcilePass
  <2>5. positions'[sl][sym] = [id |-> t.id, q |-> t.q]
    BY <2>0, <2>2, Zenon DEF AsPosition
  <2>6. Backs(t, sl, sym)'
    BY <2>3, <2>5 DEF Backs
  <2> QED
    BY <2>4, <2>6
<1>5. PositionsBacked'
  BY <1>4 DEF PositionsBacked
<1> QED
  BY <1>2, <1>3, <1>5 DEF BackedInv

LEMMA BackedDay ==
  ASSUME TypeOK, BackedInv,
         Startup \/ (\E sl \in Sleeves : Preopen(sl)) \/ CacheExpires \/ NewDay \/ Crash
  PROVE  BackedInv'
<1> USE DEF brokerVars, storeVars, flatVars, dayVars
<1>1. ASSUME Idle, ~Flattening, UNCHANGED <<trades, positions, nextId, job, queue, todo>>
      PROVE  BackedInv'
  <2>1. RowsUnique' /\ TodoHeld' /\ ExitHeld' /\ SplitHeld' /\ DownIdle'
    BY <1>1 DEF BackedInv, RowsUnique, TodoHeld, ExitHeld, SplitHeld, DownIdle, Idle, Flattening
  <2>2. PositionsBacked'
    BY <1>1 DEF BackedInv, PositionsBacked, Backs
  <2> QED BY <2>1, <2>2 DEF BackedInv
<1>2. CASE Startup
  <2>1. Idle /\ ~Flattening /\ UNCHANGED <<nextId, job, queue, todo>>
    BY <1>2 DEF Startup, BackedInv, DownIdle
  <2> QED
    BY <1>1, <1>2, <2>1, BackedReconcile DEF Startup, ReconcileRaises
<1>3. ASSUME NEW sl \in Sleeves, Preopen(sl)
      PROVE  BackedInv'
  <2>1. Idle /\ ~Flattening /\ UNCHANGED <<nextId, job, queue, todo>>
    BY <1>3 DEF Preopen, Free
  <2> QED
    BY <1>1, <1>3, <2>1, BackedReconcile DEF Preopen, ReconcileRaises
<1>4. CASE NewDay
  BY <1>1, <1>4 DEF NewDay, Free
<1>5. CASE CacheExpires
  <2>1. UNCHANGED <<trades, positions, nextId, job, queue, todo, up>>
    BY <1>5 DEF CacheExpires
  <2>2. RowsUnique' /\ TodoHeld' /\ ExitHeld' /\ SplitHeld' /\ DownIdle'
    BY <2>1 DEF BackedInv, RowsUnique, TodoHeld, ExitHeld, SplitHeld, DownIdle, Idle,
                Flattening, Position, Fill
  <2>3. PositionsBacked'
    BY <2>1 DEF BackedInv, PositionsBacked, Backs
  <2> QED BY <2>2, <2>3 DEF BackedInv
<1>6. CASE Crash
  <2>1. /\ job' = NoJob /\ queue' = <<>> /\ todo' = {}
        /\ positions' = [sl \in Sleeves |-> [sym \in Symbols |-> NoPos]]
        /\ UNCHANGED <<trades, nextId>>
    BY <1>6 DEF Crash
  <2>2. job'.op = "idle"
    BY <2>1 DEF NoJob
  <2>3. RowsUnique' /\ TodoHeld' /\ ExitHeld' /\ SplitHeld' /\ DownIdle'
    BY <2>1, <2>2 DEF BackedInv, RowsUnique, TodoHeld, ExitHeld, SplitHeld, DownIdle, Idle,
                      Flattening
  <2>4. PositionsBacked'
    BY <2>1 DEF PositionsBacked
  <2> QED BY <2>3, <2>4 DEF BackedInv
<1> QED
  BY <1>2, <1>3, <1>4, <1>5, <1>6

LEMMA BackedStep ==
  ASSUME TypeOK, BackedInv, Next
  PROVE  BackedInv'
<1>1. CASE \E sl \in Sleeves, sym \in Symbols : \E q \in Sizes : Enter(sl, sym, q)
  BY <1>1, BackedBegins
<1>2. CASE \E sl \in Sleeves, sym \in Symbols : Exit(sl, sym)
  BY <1>2, BackedBegins
<1>3. CASE BrokerFills \/ BrokerEnds
  BY <1>3, BackedOrder
<1>4. CASE Settle
  <2>1. CASE EntrySettled
    BY <2>1, BackedEntry
  <2>2. CASE ExitSettled \/ ExitSplits \/ SplitRecorded
    BY <2>2, BackedExit
  <2>3. CASE NextLeg
    BY <2>3, BackedOrder
  <2> QED
    BY <1>4, <2>1, <2>2, <2>3 DEF Settle
<1>5. CASE Unsettle
  <2>1. CASE NextLegRejected \/ PollRaises
    BY <2>1, BackedOrder
  <2>2. CASE EntryUnsettled
    BY <2>2, BackedEntry
  <2>3. CASE ExitUnsettled
    BY <2>3, BackedExit
  <2> QED
    BY <1>5, <2>1, <2>2, <2>3 DEF Unsettle
<1>6. CASE \E sym \in Symbols : StrayFills(sym) \/ StrayDies(sym)
  BY <1>6, BackedOrder
<1>7. CASE (\E sl \in Sleeves : EodFlatten(sl) \/ Preopen(sl)) \/ FlattenAll
  BY <1>7, BackedFlattenBegins, BackedDay
<1>8. CASE Flatten \/ FlattenFails
  BY <1>8, BackedFlattenExit, BackedSafetyNet, BackedTurn DEF Flatten, FlattenFails
<1>9. CASE Startup \/ CacheExpires \/ NewDay \/ Crash
  BY <1>9, BackedDay
<1> QED
  BY <1>1, <1>2, <1>3, <1>4, <1>5, <1>6, <1>7, <1>8, <1>9 DEF Next

LEMMA BackedInit == Init => BackedInv
BY DEF Init, BackedInv, RowsUnique, TodoHeld, ExitHeld, SplitHeld, DownIdle, PositionsBacked,
       Idle, Flattening, NoJob

(* A stutter changes nothing the invariant speaks of.                      *)
LEMMA Stutter ==
  ASSUME TypeOK, BackedInv, UNCHANGED vars
  PROVE  TypeOK' /\ BackedInv'
<1>1. UNCHANGED <<net, stray, trades, nextId, positions, job, queue, todo, stage, flattened,
                  ready, late, cache, up, faults>>
  BY DEF vars, brokerVars, storeVars, flatVars, dayVars
<1>2. TypeOK'
  BY <1>1 DEF TypeOK
<1>3. RowsUnique' /\ TodoHeld' /\ ExitHeld' /\ SplitHeld' /\ DownIdle'
  BY <1>1 DEF BackedInv, RowsUnique, TodoHeld, ExitHeld, SplitHeld, DownIdle, Idle,
              Flattening, Position, Fill
<1>4. PositionsBacked'
  BY <1>1 DEF BackedInv, PositionsBacked, Backs
<1> QED
  BY <1>2, <1>3, <1>4 DEF BackedInv

-----------------------------------------------------------------------------
(* TypeCorrect: every variable keeps its type, for any number of sleeves,  *)
(* symbols, trades and faults.  The proof needs BackedInv: a part-filled   *)
(* exit leaves a remainder row with a quantity only because the exit was   *)
(* for the whole of a position.                                            *)
THEOREM TypeCorrect == Spec => []TypeOK
<1>1. Init => TypeOK /\ BackedInv
  BY TypeInit, BackedInit
<1>2. TypeOK /\ BackedInv /\ [Next]_vars => TypeOK' /\ BackedInv'
  BY TypeStep, BackedStep, Stutter
<1> QED
  BY <1>1, <1>2, PTL DEF Spec

(* BooksBacked: in every behaviour, faults and restarts included, every    *)
(* position a sleeve has in memory stands for an open trade row of that    *)
(* sleeve, symbol and quantity.                                            *)
THEOREM BooksBacked == Spec => []PositionsBacked
<1>1. Init => TypeOK /\ BackedInv
  BY TypeInit, BackedInit
<1>2. TypeOK /\ BackedInv /\ [Next]_vars => TypeOK' /\ BackedInv'
  BY TypeStep, BackedStep, Stutter
<1>3. BackedInv => PositionsBacked
  BY DEF BackedInv
<1> QED
  BY <1>1, <1>2, <1>3, PTL DEF Spec

-----------------------------------------------------------------------------
(* A flatten spares the other sleeves.                                     *)

LEMMA PlaceAdds ==
  ASSUME NEW q \in Int
  PROVE  Unfilled(Place(NoOrders, q)) = q
<1>1. CASE q >= 0
  BY <1>1 DEF Place, NoOrders, Unfilled
<1>2. CASE q < 0
  BY <1>2 DEF Place, NoOrders, Unfilled
<1> QED
  BY <1>1, <1>2

(* What an exit closes is a row of the sleeve that flattens.               *)
LEMMA ExitSpares ==
  ASSUME TypeOK, BackedInv, Flattening, job.op \in {"exit", "split"},
         {t \in trades : t.id # Position.id} \subseteq trades'
  PROVE  SparesRows
<1>1. job.sl = Head(queue).sl /\ job.sl \in Sleeves /\ job.sym \in Symbols /\ Position # NoPos
  BY DEF BackedInv, ExitHeld, TypeOK, Jobs
<1>2. PICK u \in trades : Backs(u, job.sl, job.sym)
  BY <1>1 DEF BackedInv, PositionsBacked, Position
<1>3. ASSUME NEW t \in trades, t.sl # job.sl PROVE t.id # Position.id
  BY <1>2, <1>3 DEF Backs, Position, BackedInv, RowsUnique
<1> QED
  BY <1>1, <1>3 DEF SparesRows, Others

LEMMA NetSpares ==
  ASSUME TypeOK, BackedInv, SafetyNet
  PROVE  SparesRows /\ SparesShares
<1>1. PICK sl \in Sleeves : sl = Head(queue).sl
  BY HeadType DEF SafetyNet
<1> DEFINE excess == {sym \in Symbols : Excess(sl, sym) # 0}
           before == [sym \in Symbols |-> IF Others(sl) = {} THEN NoOrders ELSE stray[sym]]
<1>2. PICK refused :
         /\ stray' = [sym \in Symbols |-> IF sym \in refused THEN before[sym]
                                          ELSE Place(before[sym], -Excess(sl, sym))]
         /\ trades' = {t \in trades : t.id \notin {Covered(sl, sym) : sym \in excess \ refused}}
  BY <1>1 DEF SafetyNet
<1>3. SparesRows
  <2>1. Idle
    BY DEF SafetyNet
  <2>2. ASSUME NEW t \in trades, t.sl # sl, NEW sym \in Symbols PROVE t.id # Covered(sl, sym)
    BY <2>1, <2>2, CoveredRow
  <2> QED
    BY <1>1, <1>2, <2>2 DEF SparesRows, Others
<1>4. ASSUME NEW sym \in Symbols, net[sym] # 0, stray[sym] = NoOrders, stray'[sym] # NoOrders
      PROVE  net[sym] + Unfilled(stray'[sym]) = Quantity({t \in Others(sl) : t.sym = sym})
  <2>1. before[sym] = NoOrders
    BY <1>4
  <2>2. stray'[sym] = Place(NoOrders, -Excess(sl, sym))
    <3> HIDE DEF before, excess
    <3> QED BY <1>2, <1>4, <2>1
  <2>3. Excess(sl, sym) \in Int /\ net[sym] \in Int
    BY ExcessInt DEF TypeOK
  <2>4. Unfilled(stray'[sym]) = -Excess(sl, sym)
    BY <2>2, <2>3, PlaceAdds
  <2>5. Excess(sl, sym) = net[sym] - Quantity({t \in Others(sl) : t.sym = sym})
    BY <1>4 DEF Excess
  <2>6. Quantity({t \in Others(sl) : t.sym = sym}) \in Int
    BY QuantityInt
  <2> QED
    BY <2>3, <2>4, <2>5, <2>6
<1>5. SparesShares
  BY <1>1, <1>4 DEF SparesShares
<1> QED
  BY <1>3, <1>5

LEMMA SparesStep ==
  ASSUME TypeOK, BackedInv, Next, Flattening, Flattening'
  PROVE  SparesRows /\ (stage = "exits" /\ stage' = "cancel" => SparesShares)
<1> USE DEF brokerVars, storeVars, flatVars, dayVars
<1>1. ASSUME trades \subseteq trades', stage' \in {stage, "exits"} \/ UNCHANGED stray
      PROVE  SparesRows /\ (stage = "exits" /\ stage' = "cancel" => SparesShares)
  BY <1>1 DEF SparesRows, SparesShares, Others
<1>2. CASE \/ \E sl \in Sleeves, sym \in Symbols : \E q \in Sizes : Enter(sl, sym, q)
           \/ \E sl \in Sleeves, sym \in Symbols : Exit(sl, sym)
           \/ \E sl \in Sleeves : EodFlatten(sl) \/ Preopen(sl)
           \/ FlattenAll \/ NewDay
  BY <1>2 DEF Enter, Exit, EodFlatten, Preopen, FlattenAll, NewDay, Free
<1>3. CASE Startup \/ CacheExpires \/ Crash
  BY <1>1, <1>3 DEF Startup, CacheExpires, Crash, BackedInv, DownIdle, Flattening
<1>4. CASE BrokerFills \/ BrokerEnds \/ NextLeg \/ NextLegRejected \/ PollRaises
  BY <1>1, <1>4 DEF BrokerFills, BrokerEnds, NextLeg, NextLegRejected, PollRaises
<1>5. CASE EntrySettled \/ EntryUnsettled
  <2>1. trades \subseteq trades' /\ UNCHANGED stage
    BY <1>5 DEF EntrySettled, EntryUnsettled, RecordEntry, OpenTrade
  <2> QED BY <1>1, <2>1
<1>6. CASE ExitSettled \/ ExitSplits \/ SplitRecorded \/ ExitUnsettled
  <2>1. /\ job.op \in {"exit", "split"} /\ UNCHANGED stage
        /\ {t \in trades : t.id # Position.id} \subseteq trades'
    BY <1>6 DEF ExitSettled, ExitSplits, SplitRecorded, ExitUnsettled, CloseWhole
  <2>2. SparesRows
    BY <2>1, ExitSpares
  <2> QED BY <2>1, <2>2
<1>7. CASE \E sym \in Symbols : StrayFills(sym) \/ StrayDies(sym)
  BY <1>1, <1>7 DEF StrayFills, StrayDies
<1>8. CASE \/ \E sym \in Symbols : FlattenExit(sym) \/ FlattenExitRejected(sym)
           \/ SafetyNetRaises \/ CancelAll \/ CancelAllRaises \/ TurnPasses
  BY <1>1, <1>8 DEF FlattenExit, FlattenExitRejected, SafetyNetRaises, CancelAll,
                    CancelAllRaises, TurnPasses, TurnEnds
<1>9. CASE SafetyNet
  BY <1>9, NetSpares
<1> QED
  BY <1>2, <1>3, <1>4, <1>5, <1>6, <1>7, <1>8, <1>9
     DEF Next, Settle, Unsettle, Flatten, FlattenFails

(* FlattenSpares: whatever the sleeves hold in the same symbols, the       *)
(* flatten of one of them closes no other sleeve's trade, and every order  *)
(* of its safety net leaves the broker with exactly the others' quantity.  *)
THEOREM FlattenSpares == Spec => OthersSpared
<1>1. Init => TypeOK /\ BackedInv
  BY TypeInit, BackedInit
<1>2. TypeOK /\ BackedInv /\ [Next]_vars => TypeOK' /\ BackedInv'
  BY TypeStep, BackedStep, Stutter
<1>3. TypeOK /\ BackedInv /\ [Next]_vars =>
        [Flattening /\ Flattening' =>
           SparesRows /\ (stage = "exits" /\ stage' = "cancel" => SparesShares)]_vars
  BY SparesStep
<1> QED
  BY <1>1, <1>2, <1>3, PTL DEF Spec, OthersSpared

-----------------------------------------------------------------------------
(* Reconcile explains what the broker holds.                               *)

LEMMA TradesOfType ==
  ASSUME TypeOK, IsFiniteSet(trades), NEW sym
  PROVE  /\ IsFiniteSet(TradesOf(sym)) /\ TradesOf(sym) \subseteq trades
         /\ \A t \in TradesOf(sym) : t.id \in Nat \ {0} /\ t.q \in Int /\ t.sl \in Sleeves
                                     /\ t.sym = sym
<1>1. TradesOf(sym) \subseteq trades /\ trades \subseteq Trades
  BY DEF TradesOf, TypeOK
<1>2. \A t \in TradesOf(sym) : t.sym = sym
  BY DEF TradesOf
<1>3. IsFiniteSet(TradesOf(sym))
  BY <1>1, FS_Subset
<1> QED BY <1>1, <1>2, <1>3 DEF Trades

(* The rows a reconcile leaves of a symbol are those it adopts.            *)
LEMMA PassLeaves ==
  ASSUME TypeOK, IsFiniteSet(trades), ReconcilePass, NEW sym \in Symbols
  PROVE  {t \in trades' : t.sym = sym} = Adopted(TradesOf(sym), net[sym])
<1>1. Adopted(TradesOf(sym), net[sym]) \subseteq TradesOf(sym)
  BY AdoptedSubset, TradesOfType
<1>2. trades' = {t \in trades : t \in Outcome(t.sym).adopt}
  BY DEF ReconcilePass
<1>3. Outcome(sym).adopt = Adopted(TradesOf(sym), net[sym])
  BY DEF Outcome, Decide
<1> QED BY <1>1, <1>2, <1>3, TradesOfType

LEMMA ExplainsStep ==
  ASSUME TypeOK, IsFiniteSet(trades), Next, cache # "ok", cache' = "ok",
         NEW sym \in Symbols, stray[sym] = NoOrders, Cardinality(TradesOf(sym)) # 1
  PROVE  net[sym] + Unfilled(stray'[sym]) = Quantity({t \in trades' : t.sym = sym})
<1> USE DEF brokerVars, storeVars, flatVars, dayVars
<1>1. ReconcilePass
  <2>1. ~UNCHANGED cache
    OBVIOUS
  <2>2. CASE Startup
    BY <2>2 DEF Startup, ReconcileRaises
  <2>3. CASE \E sl \in Sleeves : EodFlatten(sl) \/ Preopen(sl)
    BY <2>1, <2>3 DEF EodFlatten, Preopen, ReconcileRaises
  <2>4. CASE CacheExpires \/ NewDay \/ Crash
    BY <2>4 DEF CacheExpires, NewDay, Crash
  <2>5. CASE \/ \E sl \in Sleeves, s \in Symbols : \E q \in Sizes : Enter(sl, s, q)
             \/ \E sl \in Sleeves, s \in Symbols : Exit(sl, s)
             \/ BrokerFills \/ BrokerEnds \/ Settle \/ Unsettle
    BY <2>1, <2>5 DEF Enter, Exit, BrokerFills, BrokerEnds, Settle, Unsettle, EntrySettled,
       ExitSettled, ExitSplits, SplitRecorded, NextLeg, NextLegRejected, PollRaises,
       EntryUnsettled, ExitUnsettled
  <2>6. CASE (\E s \in Symbols : StrayFills(s) \/ StrayDies(s)) \/ FlattenAll \/ Flatten \/ FlattenFails
    BY <2>1, <2>6 DEF StrayFills, StrayDies, FlattenAll, Flatten, FlattenFails, FlattenExit,
       SafetyNet, CancelAll, TurnPasses, FlattenExitRejected, SafetyNetRaises, CancelAllRaises
  <2> QED BY <2>2, <2>3, <2>4, <2>5, <2>6 DEF Next
<1>2. {t \in trades' : t.sym = sym} = Adopted(TradesOf(sym), net[sym])
  BY <1>1, PassLeaves
<1>3. stray'[sym] = Place(NoOrders, -Outcome(sym).orphan)
  BY <1>1 DEF ReconcilePass
<1>4. Outcome(sym).orphan = Decide(TradesOf(sym), net[sym]).orphan /\ net[sym] \in Int
  BY DEF Outcome, TypeOK
<1>5. Decide(TradesOf(sym), net[sym]).orphan \in Int
  BY <1>4 DEF Decide
<1>6. Unfilled(stray'[sym]) = -Decide(TradesOf(sym), net[sym]).orphan
  BY <1>3, <1>4, <1>5, PlaceAdds
<1>7. Quantity(Adopted(TradesOf(sym), net[sym])) + Decide(TradesOf(sym), net[sym]).orphan = net[sym]
  <2>1. IsFiniteSet(TradesOf(sym)) /\ \A t \in TradesOf(sym) : t.id \in Nat /\ t.q \in Int
    BY TradesOfType
  <2> QED BY <1>4, <2>1, AdoptedAddsUp
<1> DEFINE left == Quantity(Adopted(TradesOf(sym), net[sym]))
           orphan == Decide(TradesOf(sym), net[sym]).orphan
<1>8. left \in Int /\ left + orphan = net[sym] /\ Unfilled(stray'[sym]) = -orphan
  BY <1>6, <1>7, QuantityInt
<1>9. Quantity({t \in trades' : t.sym = sym}) = left
  BY <1>2
<1> HIDE DEF left, orphan
<1>10. orphan \in Int
  BY <1>5 DEF orphan
<1> QED BY <1>4, <1>8, <1>9, <1>10

-----------------------------------------------------------------------------
(* The store's rows stay finitely many.                                    *)
LEMMA FiniteStep ==
  ASSUME IsFiniteSet(trades), Next
  PROVE  IsFiniteSet(trades')
<1> USE DEF brokerVars, storeVars, flatVars, dayVars
<1>1. ASSUME NEW T, IsFiniteSet(T), trades' \subseteq trades \cup T PROVE IsFiniteSet(trades')
  <2>1. IsFiniteSet(trades \cup T)
    BY <1>1, FS_Union
  <2> QED BY <1>1, <2>1, FS_Subset
<1>2. ASSUME trades' \subseteq trades PROVE IsFiniteSet(trades')
  BY <1>2, FS_Subset
<1>3. CASE EntrySettled \/ EntryUnsettled
  <2>1. PICK t : trades' \subseteq trades \cup {t}
    BY <1>3 DEF EntrySettled, EntryUnsettled, RecordEntry, OpenTrade
  <2> QED BY <1>1, <2>1, FS_Singleton
<1>4. CASE ExitSplits
  <2>1. PICK t, u : trades' \subseteq trades \cup {t, u}
    BY <1>4 DEF ExitSplits
  <2>2. IsFiniteSet({t} \cup {u}) /\ {t} \cup {u} = {t, u}
    BY FS_Singleton, FS_Union
  <2> QED BY <1>1, <2>1, <2>2
<1>5. CASE ExitSettled \/ SplitRecorded \/ ExitUnsettled
  BY <1>2, <1>5 DEF ExitSettled, SplitRecorded, ExitUnsettled, CloseWhole
<1>6. CASE \/ \E sl \in Sleeves, s \in Symbols : \E q \in Sizes : Enter(sl, s, q)
           \/ \E sl \in Sleeves, s \in Symbols : Exit(sl, s)
           \/ BrokerFills \/ BrokerEnds \/ NextLeg \/ NextLegRejected \/ PollRaises
           \/ \E s \in Symbols : StrayFills(s) \/ StrayDies(s)
  BY <1>6 DEF Enter, Exit, BrokerFills, BrokerEnds, NextLeg, NextLegRejected, PollRaises,
     StrayFills, StrayDies
<1>7. CASE \/ \E s \in Symbols : FlattenExit(s) \/ FlattenExitRejected(s)
           \/ SafetyNetRaises \/ CancelAll \/ CancelAllRaises \/ TurnPasses
           \/ FlattenAll \/ CacheExpires \/ NewDay \/ Crash
  BY <1>7 DEF FlattenExit, FlattenExitRejected, SafetyNetRaises, CancelAll, CancelAllRaises,
     TurnPasses, FlattenAll, CacheExpires, NewDay, Crash
<1>8. CASE SafetyNet
  BY <1>2, <1>8 DEF SafetyNet
<1>9. CASE (\E sl \in Sleeves : EodFlatten(sl) \/ Preopen(sl)) \/ Startup
  BY <1>2, <1>9 DEF EodFlatten, Preopen, Startup, ReconcilePass, ReconcileRaises
<1> QED
  BY <1>3, <1>4, <1>5, <1>6, <1>7, <1>8, <1>9 DEF Next, Settle, Unsettle, Flatten, FlattenFails

-----------------------------------------------------------------------------
(* Quantities of a symbol when a row comes or goes.                        *)

Of(T, sym) == {u \in T : u.sym = sym}

LEMMA RowComes ==
  ASSUME NEW T, IsFiniteSet(T), \A u \in T : u.q \in Int, NEW t, t \notin T, t.q \in Int, NEW sym
  PROVE  Quantity(Of(T \cup {t}, sym)) = Quantity(Of(T, sym)) + (IF t.sym = sym THEN t.q ELSE 0)
<1> DEFINE S == Of(T, sym)
<1>1. IsFiniteSet(S) /\ (\A u \in S : u.q \in Int) /\ t \notin S
  BY FS_Subset DEF Of
<1>2. Of(T \cup {t}, sym) = IF t.sym = sym THEN S \cup {t} ELSE S
  BY DEF Of
<1> HIDE DEF S
<1>3. Quantity(S \cup {t}) = Quantity(S) + t.q
  BY <1>1, QuantityAdds
<1>4. Quantity(S) \in Int
  BY QuantityInt
<1>5. CASE t.sym = sym
  BY <1>2, <1>3, <1>5 DEF S
<1>6. CASE t.sym # sym
  BY <1>2, <1>4, <1>6 DEF S
<1> QED BY <1>5, <1>6

LEMMA RowGoes ==
  ASSUME NEW T, IsFiniteSet(T), \A u \in T : u.q \in Int, NEW t \in T, NEW sym
  PROVE  Quantity(Of(T \ {t}, sym)) = Quantity(Of(T, sym)) - (IF t.sym = sym THEN t.q ELSE 0)
<1> DEFINE W == T \ {t}
           d == IF t.sym = sym THEN t.q ELSE 0
<1>1. IsFiniteSet(W) /\ (\A u \in W : u.q \in Int) /\ t \notin W /\ t.q \in Int
  BY FS_Subset
<1>2. W \cup {t} = T
  OBVIOUS
<1>3. Quantity(Of(W \cup {t}, sym)) = Quantity(Of(W, sym)) + d
  <2> HIDE DEF W
  <2> QED BY <1>1, RowComes
<1>4. Quantity(Of(T, sym)) = Quantity(Of(W, sym)) + d
  <2> HIDE DEF W, d
  <2> QED BY <1>2, <1>3
<1>5. Quantity(Of(W, sym)) \in Int /\ Quantity(Of(T, sym)) \in Int /\ d \in Int
  BY <1>1, QuantityInt
<1> HIDE DEF d
<1> QED BY <1>4, <1>5 DEF d

LEMMA HeldOf == \A sym : HeldNet(sym) = Quantity(Of(trades, sym))
BY DEF HeldNet, TradesOf, Of

LEMMA HeldComes ==
  ASSUME TypeOK, IsFiniteSet(trades), NEW t, t \notin trades, t.q \in Int,
         trades' = trades \cup {t}, NEW sym
  PROVE  HeldNet(sym)' = HeldNet(sym) + (IF t.sym = sym THEN t.q ELSE 0)
<1>1. \A u \in trades : u.q \in Int
  BY DEF TypeOK, Trades
<1>2. Quantity(Of(trades \cup {t}, sym)) = Quantity(Of(trades, sym)) + (IF t.sym = sym THEN t.q ELSE 0)
  BY <1>1, RowComes
<1>3. HeldNet(sym)' = Quantity(Of(trades', sym))
  BY DEF HeldNet, TradesOf, Of
<1> QED BY <1>2, <1>3, HeldOf

LEMMA HeldGoes ==
  ASSUME TypeOK, IsFiniteSet(trades), NEW t \in trades, trades' = trades \ {t}, NEW sym
  PROVE  HeldNet(sym)' = HeldNet(sym) - (IF t.sym = sym THEN t.q ELSE 0)
<1>1. \A u \in trades : u.q \in Int
  BY DEF TypeOK, Trades
<1>2. Quantity(Of(trades \ {t}, sym)) = Quantity(Of(trades, sym)) - (IF t.sym = sym THEN t.q ELSE 0)
  BY <1>1, RowGoes
<1>3. HeldNet(sym)' = Quantity(Of(trades', sym))
  BY DEF HeldNet, TradesOf, Of
<1> QED BY <1>2, <1>3, HeldOf

LEMMA HeldSame ==
  ASSUME UNCHANGED trades, NEW sym
  PROVE  HeldNet(sym)' = HeldNet(sym)
BY DEF HeldNet, TradesOf

LEMMA HeldInt == ASSUME NEW sym PROVE HeldNet(sym) \in Int
BY QuantityInt DEF HeldNet

-----------------------------------------------------------------------------
(* Orders: what is sent, filled and ended.                                 *)

LEMMA NoJobIdle ==
  ASSUME job' = NoJob
  PROVE  OrderInv' /\ SplitRows' /\ (\A sym : InFlight(sym)' = 0)
<1>1. job'.op = "idle" /\ ~job'.live
  BY DEF NoJob
<1> QED
  BY <1>1 DEF OrderInv, EnterEmpty, LegsCut, LiveWatched, Watching, SplitRows, InFlight, Idle

LEMMA FillsWithin ==
  ASSUME NEW sent \in Int, NEW got \in 0..sent \cup sent..0, NEW k \in 1..Abs(sent - got)
  PROVE  got + k * Unit(sent) \in 0..sent \cup sent..0
<1>1. CASE sent < 0
  <2>1. Unit(sent) = -1 /\ got \in sent..0 /\ k \in 1..(got - sent)
    BY <1>1 DEF Unit, Abs
  <2>2. k * Unit(sent) = -k
    BY <2>1
  <2> QED BY <2>1, <2>2
<1>2. CASE sent >= 0
  <2>1. Unit(sent) = 1 /\ got \in 0..sent /\ k \in 1..(sent - got)
    BY <1>2 DEF Unit, Abs
  <2>2. k * Unit(sent) = k
    BY <2>1
  <2> QED BY <2>1, <2>2
<1> QED BY <1>1, <1>2

LEMMA SharesFills ==
  ASSUME TypeOK, SharesInv, BrokerFills
  PROVE  OrderInv' /\ (Known' => Balanced' /\ SplitRows')
<1> USE DEF storeVars, flatVars, dayVars
<1>1. PICK k \in 1..Abs(job.sent - job.got) :
        LET got == job.got + k * Unit(job.sent)
        IN  /\ net' = [net EXCEPT ![job.sym] = @ + k * Unit(job.sent)]
            /\ job' = [job EXCEPT !.got = got, !.live = got # job.sent]
  BY DEF BrokerFills
<1> DEFINE d == k * Unit(job.sent)
           more == job.got + d # job.sent
<1>2. Watching /\ UNCHANGED <<stray, trades, nextId, positions, faults>>
  BY DEF BrokerFills
<1>3. job \in Jobs /\ job.sent \in Int /\ job.got \in Int /\ job.done \in Int /\ job.sym \in Symbols
      /\ net \in [Symbols -> Int] /\ stray \in [Symbols -> Orders]
  BY DEF TypeOK, Jobs
<1>4. d \in Int
  <2>1. k \in Int /\ Unit(job.sent) \in {-1, 1}
    BY <1>3 DEF Unit, Abs
  <2> QED BY <2>1
<1>5. job.got \in 0..job.sent \cup job.sent..0 /\ (FirstSent \/ RestSent)
  BY <1>2 DEF SharesInv, OrderInv, LegsCut, WithinLeg
<1>6. job.got + d \in 0..job.sent \cup job.sent..0
  BY <1>3, <1>5, FillsWithin
<1>7. job' = [job EXCEPT !.got = job.got + d, !.live = more] /\ net' = [net EXCEPT ![job.sym] = @ + d]
  BY <1>1
<1> HIDE DEF d, more
<1>8. /\ job'.got = job.got + d /\ job'.sent = job.sent /\ job'.op = job.op /\ job'.sl = job.sl
      /\ job'.sym = job.sym /\ job'.want = job.want /\ job'.rest = job.rest /\ job'.done = job.done
  BY <1>3, <1>7 DEF Jobs
<1>9. OrderInv'
  <2>1. EnterEmpty'
    BY <1>2, <1>8 DEF SharesInv, OrderInv, EnterEmpty, Position
  <2>2. HeldNet(job.sym)' = HeldNet(job.sym)
    BY <1>2, <1>8 DEF HeldNet, TradesOf
  <2>3. Watching' /\ WithinLeg'
    BY <1>2, <1>6, <1>8 DEF Watching, WithinLeg
  <2>4. FirstSent' \/ RestSent'
    BY <1>5, <1>8, <2>2 DEF FirstSent, RestSent
  <2> QED BY <2>1, <2>3, <2>4 DEF OrderInv, LegsCut, LiveWatched
<1>10. ASSUME Known' PROVE Balanced' /\ SplitRows'
  <2>1. Known
    BY <1>2, <1>10 DEF Known
  <2>2. SplitRows'
    BY <1>2, <1>8, <2>1 DEF SharesInv, SplitRows, Watching
  <2>3. ASSUME NEW sym \in Symbols
        PROVE  net'[sym] + Unfilled(stray'[sym]) = HeldNet(sym)' + InFlight(sym)'
    <3>1. net[sym] + Unfilled(stray[sym]) = HeldNet(sym) + InFlight(sym)
      BY <2>1 DEF SharesInv, Balanced
    <3>2. HeldNet(sym)' = HeldNet(sym) /\ HeldNet(sym) \in Int
      BY <1>2, HeldSame, HeldInt
    <3>3. Unfilled(stray'[sym]) = Unfilled(stray[sym]) /\ Unfilled(stray[sym]) \in Int
      BY <1>2, <1>3 DEF Unfilled, Orders
    <3>4. InFlight(sym) = (IF job.sym = sym THEN job.done + job.got ELSE 0)
          /\ InFlight(sym)' = (IF job.sym = sym THEN job.done + job.got + d ELSE 0)
      BY <1>2, <1>3, <1>4, <1>8 DEF InFlight, Idle, Watching
    <3>5. net'[sym] = net[sym] + (IF job.sym = sym THEN d ELSE 0) /\ net[sym] \in Int
      BY <1>3, <1>4, <1>7
    <3> QED BY <1>3, <1>4, <3>1, <3>2, <3>3, <3>4, <3>5
  <2> QED BY <2>2, <2>3 DEF Balanced
<1> QED BY <1>9, <1>10

LEMMA SharesLegs ==
  ASSUME TypeOK, SharesInv,
         BrokerEnds \/ NextLeg \/ NextLegRejected \/ PollRaises
  PROVE  OrderInv' /\ (Known' => Balanced' /\ SplitRows')
<1> USE DEF storeVars, flatVars, dayVars, brokerVars
<1>0. job \in Jobs /\ job.sent \in Int /\ job.got \in Int /\ job.done \in Int /\ job.rest \in Int
      /\ job.want \in Int /\ job.sym \in Symbols
  BY DEF TypeOK, Jobs
<1>1. CASE BrokerEnds \/ NextLeg
  <2>1. Watching /\ UNCHANGED <<net, stray, trades, nextId, positions, faults>>
    BY <1>1 DEF BrokerEnds, NextLeg
  <2>3. job.got \in 0..job.sent \cup job.sent..0 /\ (FirstSent \/ RestSent)
    BY <2>1 DEF SharesInv, OrderInv, LegsCut, WithinLeg
  <2>2. /\ job'.op = job.op /\ job'.sl = job.sl /\ job'.sym = job.sym
        /\ job'.done + job'.got = job.done + job.got
    <3>1. CASE BrokerEnds
      BY <1>0, <3>1 DEF BrokerEnds, Jobs
    <3>2. CASE NextLeg
      <4>1. job.done = 0
        BY <2>3, <3>2 DEF NextLeg, FirstSent, RestSent
      <4> QED BY <1>0, <3>2, <4>1 DEF NextLeg
    <3> QED BY <1>1, <3>1, <3>2
  <2>4. HeldNet(job.sym)' = HeldNet(job.sym) /\ HeldNet(job.sym) \in Int
    BY <2>1, <2>2, HeldSame, HeldInt DEF HeldNet, TradesOf
  <2>5. WithinLeg' /\ (FirstSent' \/ RestSent')
    <3>1. CASE BrokerEnds
      <4>1. job'.got = job.got /\ job'.sent = job.sent /\ job'.done = job.done
            /\ job'.rest = job.rest /\ job'.want = job.want
        BY <1>0, <3>1 DEF BrokerEnds, Jobs
      <4> QED BY <2>2, <2>3, <2>4, <4>1 DEF WithinLeg, FirstSent, RestSent
    <3>2. CASE NextLeg
      <4>1. /\ job'.got = 0 /\ job'.sent = job.rest /\ job'.done = job.got /\ job'.rest = 0
            /\ job.got = job.sent /\ job.rest # 0
        BY <3>2 DEF NextLeg, LegFilled
      <4>2. FirstSent
        BY <2>3, <4>1 DEF RestSent
      <4>3. job.sent = -HeldNet(job.sym)
        BY <1>0, <4>1, <4>2 DEF FirstSent, FirstLeg
      <4>4. WithinLeg'
        BY <1>0, <4>1 DEF WithinLeg
      <4>5. RestSent'
        BY <1>0, <2>4, <4>1, <4>3 DEF RestSent
      <4> QED BY <4>4, <4>5
    <3> QED BY <1>1, <3>1, <3>2
  <2>6. OrderInv'
    BY <2>1, <2>2, <2>5 DEF SharesInv, OrderInv, EnterEmpty, Position, LegsCut, LiveWatched, Watching
  <2>7. ASSUME Known' PROVE Balanced' /\ SplitRows'
    <3>1. Known
      BY <2>1, <2>7 DEF Known
    <3>2. SplitRows'
      BY <2>1, <2>2, <3>1 DEF SharesInv, SplitRows, Watching
    <3>3. \A sym \in Symbols : InFlight(sym)' = InFlight(sym) /\ HeldNet(sym)' = HeldNet(sym)
      BY <2>1, <2>2, HeldSame DEF InFlight, Idle
    <3> QED BY <2>1, <3>1, <3>2, <3>3 DEF SharesInv, Balanced
  <2> QED BY <2>6, <2>7
<1>2. CASE NextLegRejected \/ PollRaises
  <2>1. ~Known'
    BY <1>2 DEF NextLegRejected, PollRaises, Fault, Known
  <2> QED BY <1>2, <2>1, NoJobIdle DEF NextLegRejected, PollRaises
<1> QED BY <1>1, <1>2

(* A new order.                                                            *)
LEMMA SharesSend ==
  ASSUME TypeOK, SharesInv, Idle,
         NEW op \in {"enter", "exit"}, NEW sl \in Sleeves, NEW sym \in Symbols, NEW signed \in Int,
         op = "enter" => positions[sl][sym] = NoPos,
         Send(op, sl, sym, signed), UNCHANGED <<net, stray, trades, nextId, positions, faults>>
  PROVE  OrderInv' /\ (Known' => Balanced' /\ SplitRows')
<1> DEFINE first == FirstLeg(HeldNet(sym), signed)
<1>1. first \in Int
  BY HeldInt, FirstLegInt
<1>2. HeldNet(sym)' = HeldNet(sym)
  BY HeldSame
<1>3. job' = [op |-> op, sl |-> sl, sym |-> sym, want |-> signed, rest |-> signed - first,
              done |-> 0, sent |-> first, got |-> 0, live |-> TRUE]
  BY DEF Send
<1> HIDE DEF first
<1>4. job'.op = op /\ job'.sl = sl /\ job'.sym = sym /\ job'.got = 0 /\ job'.sent = first
      /\ job'.done = 0 /\ job'.want = signed /\ job'.rest = signed - first
  BY <1>3
<1>5. EnterEmpty'
  BY <1>4 DEF EnterEmpty, Position
<1>6. WithinLeg'
  BY <1>1, <1>4 DEF WithinLeg
<1>7. FirstSent'
  BY <1>2, <1>4 DEF FirstSent, first, HeldNet, TradesOf
<1>8. OrderInv'
  BY <1>4, <1>5, <1>6, <1>7 DEF OrderInv, LegsCut, LiveWatched, Watching
<1>9. ASSUME Known' PROVE Balanced' /\ SplitRows'
  <2>1. Known
    BY <1>9 DEF Known
  <2>2. SplitRows'
    BY <1>4, <2>1 DEF SplitRows
  <2>3. \A s \in Symbols : InFlight(s)' = InFlight(s) /\ HeldNet(s)' = HeldNet(s)
    BY <1>4, HeldSame DEF InFlight, Idle
  <2> QED BY <2>1, <2>2, <2>3 DEF SharesInv, Balanced
<1> QED BY <1>8, <1>9

-----------------------------------------------------------------------------
(* Orders are booked.                                                      *)

LEMMA JobFacts ==
  ASSUME TypeOK
  PROVE  /\ job \in Jobs /\ job.sl \in Sleeves /\ job.sym \in Symbols /\ Fill \in Int /\ job.want \in Int
         /\ Position \in Positions /\ Position.id \in Nat /\ Position.q \in Int
         /\ nextId \in Nat \ {0} /\ net \in [Symbols -> Int]
         /\ positions \in [Sleeves -> [Symbols -> Positions]]
<1>1. job \in Jobs /\ nextId \in Nat \ {0} /\ positions \in [Sleeves -> [Symbols -> Positions]]
      /\ net \in [Symbols -> Int]
  BY DEF TypeOK
<1>2. job.sl \in Sleeves /\ job.sym \in Symbols /\ Fill \in Int /\ job.want \in Int
  BY <1>1 DEF Jobs, Fill
<1>3. Position \in Positions
  BY <1>1, <1>2 DEF Position
<1> QED BY <1>1, <1>2, <1>3 DEF Positions

LEMMA UnfilledInt ==
  ASSUME TypeOK
  PROVE  \A sym \in Symbols : Unfilled(stray[sym]) \in Int /\ net[sym] \in Int
<1>1. \A sym \in Symbols : stray[sym] \in Orders /\ net[sym] \in Int
  BY DEF TypeOK
<1> QED BY <1>1 DEF Unfilled, Orders

LEMMA AsPositionIs == \A t : AsPosition(t).id = t.id /\ AsPosition(t).q = t.q
BY DEF AsPosition

(* The row of the position an exit is for, and what is left without it.    *)
LEMMA ExitRow ==
  ASSUME TypeOK, BackedInv, job.op \in {"exit", "split"}
  PROVE  \E u \in trades :
           /\ u.id = Position.id /\ u.sl = job.sl /\ u.sym = job.sym
           /\ job.op = "exit" => u.q = Position.q
           /\ {t \in trades : t.id # Position.id} = trades \ {u}
<1>1. Position # NoPos
  BY DEF BackedInv, ExitHeld
<1>2. PICK u \in trades : Backs(u, job.sl, job.sym)
  BY <1>1, JobFacts DEF BackedInv, PositionsBacked, Position
<1>3. u.id = Position.id /\ u.sl = job.sl /\ u.sym = job.sym /\ (job.op = "exit" => u.q = Position.q)
  BY <1>2 DEF Backs, Position
<1>4. \A t \in trades : t.id = Position.id => t = u
  BY <1>3 DEF BackedInv, RowsUnique
<1> QED BY <1>3, <1>4

-----------------------------------------------------------------------------
(* Each open trade stays the position of its sleeve.                       *)

LEMMA EachFrame ==
  ASSUME EachHeld, UNCHANGED <<trades, positions, nextId>>, job.op # "split" \/ UNCHANGED job
  PROVE  EachHeld'
BY DEF EachHeld, Splitting, ClosedPart, RestPart, AsPosition, Position, Fill

(* Outside of a split.                                                     *)
LEMMA EachIs ==
  ASSUME EachHeld, job.op # "split"
  PROVE  \A t \in trades : positions[t.sl][t.sym] = AsPosition(t)
BY DEF EachHeld, Splitting

LEMMA EachEntry ==
  ASSUME TypeOK, BackedInv, OrderInv, EachHeld, EntrySettled \/ EntryUnsettled
  PROVE  EachHeld'
<1>1. PICK q \in Int : RecordEntry(q) /\ job.op = "enter"
  BY JobFacts DEF EntrySettled, EntryUnsettled
<1>2. Position = NoPos /\ \A t \in trades : positions[t.sl][t.sym] = AsPosition(t)
  BY <1>1, EachIs DEF OrderInv, EnterEmpty
<1>3. CASE q = 0
  BY <1>1, <1>3, EachFrame DEF RecordEntry
<1>4. CASE q # 0
  <2> DEFINE t == [id |-> nextId, sl |-> job.sl, sym |-> job.sym, q |-> q]
  <2>1. trades' = trades \cup {t} /\ t.id = nextId /\ t.sl = job.sl /\ t.sym = job.sym /\ t.q = q
        /\ positions' = [positions EXCEPT ![job.sl][job.sym] = [id |-> nextId, q |-> q]]
    BY <1>1, <1>4 DEF RecordEntry, OpenTrade
  <2> HIDE DEF t
  <2>2. ASSUME NEW u \in trades PROVE positions'[u.sl][u.sym] = AsPosition(u)
    <3>1. u.sl \in Sleeves /\ u.sym \in Symbols /\ u.id # 0
      BY DEF TypeOK, Trades
    <3>2. positions[u.sl][u.sym] # NoPos
      BY <1>2, <3>1, AsPositionIs DEF NoPos
    <3>3. ~(u.sl = job.sl /\ u.sym = job.sym)
      BY <1>2, <3>2 DEF Position
    <3> QED BY <1>2, <2>1, <3>1, <3>3, JobFacts
  <2>3. positions'[t.sl][t.sym] = AsPosition(t)
    BY <2>1, JobFacts DEF AsPosition
  <2> QED BY <2>1, <2>2, <2>3 DEF EachHeld, AsPosition
<1> QED BY <1>3, <1>4

LEMMA EachExit ==
  ASSUME TypeOK, BackedInv, EachHeld, ExitSettled \/ ExitUnsettled
  PROVE  EachHeld'
<1> USE DEF storeVars, flatVars, dayVars, brokerVars
<1>1. job.op = "exit"
  BY DEF ExitSettled, ExitUnsettled
<1>2. \A t \in trades : positions[t.sl][t.sym] = AsPosition(t)
  BY <1>1, EachIs
<1>3. CASE UNCHANGED <<trades, positions>>
  BY <1>2, <1>3 DEF EachHeld, AsPosition
<1>4. CASE CloseWhole
  <2>1. ASSUME NEW t \in trades' PROVE positions'[t.sl][t.sym] = AsPosition(t)
    <3>1. t \in trades /\ t.sl \in Sleeves /\ t.sym \in Symbols /\ t.id # Position.id
      BY <1>4 DEF CloseWhole, TypeOK, Trades
    <3>2. ~(t.sl = job.sl /\ t.sym = job.sym)
      BY <1>2, <3>1, AsPositionIs DEF Position
    <3> QED BY <1>2, <1>4, <3>1, <3>2, JobFacts DEF CloseWhole
  <2> QED BY <2>1 DEF EachHeld, AsPosition
<1> QED BY <1>3, <1>4 DEF ExitSettled, ExitUnsettled

(* The two rows a part-filled exit leaves, in its own state and the next.  *)
LEMMA PartsBecome ==
  ASSUME TypeOK, ExitSplits
  PROVE  /\ ClosedPart' = [id |-> Position.id, sl |-> job.sl, sym |-> job.sym, q |-> -Fill]
         /\ RestPart' = [id |-> nextId, sl |-> job.sl, sym |-> job.sym, q |-> Position.q + Fill]
         /\ trades' = {t \in trades : t.id # Position.id} \cup {ClosedPart', RestPart'}
         /\ job'.op = "split" /\ job'.live = job.live /\ job'.sl = job.sl /\ job'.sym = job.sym
         /\ job'.done = job.done /\ job'.got = job.got
<1> USE DEF storeVars, flatVars, dayVars, brokerVars
<1>1. /\ job'.op = "split" /\ job'.live = job.live /\ job'.sl = job.sl /\ job'.sym = job.sym
      /\ job'.done = job.done /\ job'.got = job.got
  BY JobFacts DEF ExitSplits, Jobs
<1>2. Fill' = Fill /\ Position' = Position /\ nextId' - 1 = nextId
  BY <1>1, JobFacts DEF ExitSplits, Fill, Position
<1>3. /\ ClosedPart' = [id |-> Position.id, sl |-> job.sl, sym |-> job.sym, q |-> -Fill]
      /\ RestPart' = [id |-> nextId, sl |-> job.sl, sym |-> job.sym, q |-> Position.q + Fill]
  BY <1>1, <1>2 DEF ClosedPart, RestPart
<1>4. trades' = {t \in trades : t.id # Position.id} \cup {ClosedPart', RestPart'}
  BY <1>3 DEF ExitSplits
<1> QED BY <1>1, <1>3, <1>4

LEMMA EachSplit ==
  ASSUME TypeOK, EachHeld, ExitSplits
  PROVE  EachHeld'
<1>1. \A t \in trades : positions[t.sl][t.sym] = AsPosition(t)
  BY EachIs DEF ExitSplits
<1>2. ASSUME NEW t \in trades' PROVE positions[t.sl][t.sym] = AsPosition(t) \/ t \in {ClosedPart', RestPart'}
  BY <1>1, PartsBecome
<1> QED BY <1>2, PartsBecome DEF ExitSplits, EachHeld, Splitting, AsPosition

LEMMA EachRecorded ==
  ASSUME TypeOK, EachHeld, SplitRecorded
  PROVE  EachHeld'
<1>1. /\ job.op = "split"
      /\ trades' = {t \in trades : t.id # Position.id}
      /\ positions' = [positions EXCEPT ![job.sl][job.sym] = [id |-> RestRow, q |-> Position.q + Fill]]
  BY DEF SplitRecorded, Position
<1>2. ClosedPart.id = Position.id /\ RestPart.id = nextId - 1 /\ RestPart.q = Position.q + Fill
      /\ RestPart.sl = job.sl /\ RestPart.sym = job.sym
  BY DEF ClosedPart, RestPart
<1>3. ASSUME NEW t \in trades' PROVE positions'[t.sl][t.sym] = AsPosition(t)
  <2>1. t \in trades /\ t.id # Position.id /\ t.sl \in Sleeves /\ t.sym \in Symbols
    BY <1>1 DEF TypeOK, Trades
  <2>2. CASE t = RestPart
    BY <1>1, <1>2, <2>2, JobFacts DEF AsPosition, RestRow
  <2>3. CASE t # RestPart
    <3>1. positions[t.sl][t.sym] = AsPosition(t)
      BY <1>2, <2>1, <2>3 DEF EachHeld, Splitting
    <3>2. ~(t.sl = job.sl /\ t.sym = job.sym)
      BY <2>1, <3>1, AsPositionIs DEF Position
    <3> QED BY <1>1, <2>1, <3>1, <3>2, JobFacts
  <2> QED BY <2>2, <2>3
<1> QED BY <1>3 DEF EachHeld, AsPosition

(* What the safety net drops from memory it closes in the store.           *)
LEMMA EachNet ==
  ASSUME TypeOK, EachHeld, SafetyNet
  PROVE  EachHeld'
<1> DEFINE sl == Head(queue).sl
           excess == {sym \in Symbols : Excess(sl, sym) # 0}
<1>1. sl \in Sleeves /\ job.op # "split"
  BY HeadType DEF SafetyNet, Idle
<1>2. PICK refused :
         /\ trades' = {t \in trades : t.id \notin {Covered(sl, sym) : sym \in excess \ refused}}
         /\ positions' = [positions EXCEPT ![sl] =
                            [sym \in Symbols |-> IF sym \in excess \ refused THEN NoPos ELSE @[sym]]]
  BY DEF SafetyNet
<1> HIDE DEF sl
<1> DEFINE S == excess \ refused
<1>3. trades' = {t \in trades : t.id \notin {Covered(sl, sym) : sym \in S}}
      /\ positions' = [positions EXCEPT ![sl] = [sym \in Symbols |-> IF sym \in S THEN NoPos ELSE @[sym]]]
  BY <1>2
<1> HIDE DEF S
<1>4. ASSUME NEW t \in trades' PROVE positions'[t.sl][t.sym] = AsPosition(t)
  <2>1. t \in trades /\ t.sl \in Sleeves /\ t.sym \in Symbols /\ t.id # 0
    BY <1>3 DEF TypeOK, Trades
  <2>2. positions[t.sl][t.sym] = AsPosition(t)
    BY <1>1, <2>1, EachIs
  <2>3. ~(t.sl = sl /\ t.sym \in S)
    <3>1. t.sl = sl => Covered(sl, t.sym) = t.id
      BY <2>1, <2>2, AsPositionIs DEF Covered, NoPos
    <3> QED BY <1>3, <3>1
  <2>4. CASE t.sl # sl
    BY <1>1, <1>3, <2>1, <2>2, <2>4 DEF TypeOK
  <2>5. CASE t.sl = sl
    BY <1>1, <1>3, <2>1, <2>2, <2>3, <2>5 DEF TypeOK
  <2> QED BY <2>4, <2>5
<1> QED BY <1>4 DEF EachHeld, AsPosition

LEMMA EachTurn ==
  ASSUME TypeOK, EachHeld, CancelAll \/ CancelAllRaises \/ TurnPasses
  PROVE  EachHeld'
<1> DEFINE sl == Head(queue).sl
           open == {u.id : u \in trades}
           kept == [sym \in Symbols |-> IF positions[sl][sym].id \in open THEN positions[sl][sym] ELSE NoPos]
<1>1. UNCHANGED trades /\ positions' = [positions EXCEPT ![sl] = kept] /\ job.op # "split" /\ sl \in Sleeves
  BY HeadType DEF CancelAll, CancelAllRaises, TurnPasses, TurnEnds, Idle, storeVars
<1>2. ASSUME NEW t \in trades PROVE positions'[t.sl][t.sym] = AsPosition(t)
  <2>1. t.sl \in Sleeves /\ t.sym \in Symbols /\ t.id \in open /\ positions[t.sl][t.sym] = AsPosition(t)
    BY <1>1, EachIs DEF TypeOK, Trades
  <2>2. positions[t.sl][t.sym].id \in open
    BY <2>1, AsPositionIs
  <2>3. kept[t.sym] = IF positions[sl][t.sym].id \in open THEN positions[sl][t.sym] ELSE NoPos
    BY <2>1
  <2> HIDE DEF open, kept
  <2> QED BY <1>1, <2>1, <2>2, <2>3 DEF TypeOK
<1> QED BY <1>1, <1>2 DEF EachHeld, AsPosition

(* A reconcile that adopts at most one trade of each sleeve and symbol.    *)
LEMMA EachPass ==
  ASSUME TypeOK, ReconcilePass,
         \A t, u \in trades : t \in Outcome(t.sym).adopt /\ u \in Outcome(u.sym).adopt
                              /\ t.sl = u.sl /\ t.sym = u.sym => t = u
  PROVE  EachHeld'
<1>1. ASSUME NEW t \in trades' PROVE positions'[t.sl][t.sym] = AsPosition(t)
  <2> DEFINE mine == {u \in Outcome(t.sym).adopt : u.sl = t.sl}
  <2>1. t \in trades /\ t \in Outcome(t.sym).adopt /\ t.sl \in Sleeves /\ t.sym \in Symbols /\ t.id \in Nat
    BY DEF ReconcilePass, TypeOK, Trades
  <2>2. \A u \in Outcome(t.sym).adopt : u \in trades /\ u.sym = t.sym
    <3>1. \A u \in TradesOf(t.sym) : u \in trades /\ u.id \in Nat /\ u.sym = t.sym
      BY DEF TradesOf, TypeOK, Trades
    <3>2. Adopted(TradesOf(t.sym), net[t.sym]) \subseteq TradesOf(t.sym)
      BY <3>1, AdoptedSubset
    <3> QED BY <3>1, <3>2 DEF Outcome, Decide
  <2>3. mine = {t}
    BY <2>1, <2>2
  <2>4. positions'[t.sl][t.sym] = AsPosition(Last(mine))
    BY <2>1, <2>3 DEF ReconcilePass
  <2> HIDE DEF mine
  <2>5. Last(mine) \in mine
    BY <2>1, <2>3, LastIn
  <2> QED BY <2>3, <2>4, <2>5
<1> QED BY <1>1 DEF EachHeld, AsPosition

(* Two open trades are never of one sleeve and symbol.                     *)
LEMMA EachAlone ==
  ASSUME BackedInv, EachHeld, job.op # "split", NEW t \in trades, NEW u \in trades,
         t.sl = u.sl, t.sym = u.sym
  PROVE  t = u
BY EachIs, AsPositionIs DEF BackedInv, RowsUnique

(* No step of a running process leaves an open trade without its position. *)
LEMMA EachStep ==
  ASSUME TypeOK, BackedInv, OrderInv, EachHeld, Next, ~Crash, ~Startup
  PROVE  EachHeld'
<1> USE DEF storeVars, flatVars, dayVars, brokerVars
<1>1. CASE Settle \/ Unsettle
  <2>1. CASE NextLeg \/ NextLegRejected \/ PollRaises
    BY <2>1, EachFrame DEF NextLeg, NextLegRejected, PollRaises, Watching
  <2> QED BY <1>1, <2>1, EachEntry, EachExit, EachSplit, EachRecorded DEF Settle, Unsettle
<1>2. CASE Flatten \/ FlattenFails
  <2>1. CASE \E s \in Symbols : FlattenExit(s) \/ FlattenExitRejected(s)
    BY <2>1, EachFrame DEF FlattenExit, FlattenExitRejected, Idle
  <2>2. CASE SafetyNetRaises
    BY <2>2, EachFrame DEF SafetyNetRaises
  <2> QED BY <1>2, <2>1, <2>2, EachNet, EachTurn DEF Flatten, FlattenFails
<1>3. CASE (\E sl \in Sleeves : EodFlatten(sl)) \/ FlattenAll \/ CacheExpires \/ NewDay
  BY <1>3, EachFrame DEF EodFlatten, FlattenAll, CacheExpires, NewDay
<1>4. CASE \E sl \in Sleeves : Preopen(sl)
  <2>1. job.op # "split" /\ UNCHANGED <<nextId, job>>
        /\ (ReconcilePass \/ UNCHANGED <<trades, positions>>)
    BY <1>4 DEF Preopen, Free, Idle, ReconcileRaises
  <2>2. CASE ReconcilePass
    BY <2>1, <2>2, EachAlone, EachPass
  <2> QED BY <2>1, <2>2, EachFrame
<1>5. CASE BrokerFills \/ BrokerEnds
  BY <1>5, EachFrame DEF BrokerFills, BrokerEnds, Watching
<1>6. CASE \E s \in Symbols : StrayFills(s) \/ StrayDies(s)
  BY <1>6, EachFrame DEF StrayFills, StrayDies
<1>7. CASE \/ \E sl \in Sleeves, sym \in Symbols : \E q \in Sizes : Enter(sl, sym, q)
           \/ \E sl \in Sleeves, sym \in Symbols : Exit(sl, sym)
  BY <1>7, EachFrame DEF Enter, Exit, Free, Idle
<1> QED BY <1>1, <1>2, <1>3, <1>4, <1>5, <1>6, <1>7 DEF Next

LEMMA SharesEntry ==
  ASSUME TypeOK, BackedInv, SharesInv, EntrySettled \/ EntryUnsettled
  PROVE  OrderInv' /\ (Known' => Balanced' /\ SplitRows')
<1> USE DEF storeVars, flatVars, dayVars, brokerVars
<1>1. job' = NoJob /\ job.op = "enter"
  BY DEF EntrySettled, EntryUnsettled
<1>2. OrderInv' /\ SplitRows' /\ (\A sym : InFlight(sym)' = 0)
  BY <1>1, NoJobIdle
<1>3. CASE EntryUnsettled
  <2>1. ~Known'
    BY <1>3 DEF EntryUnsettled, Fault, Known
  <2> QED BY <1>2, <2>1
<1>4. CASE EntrySettled
  <2> SUFFICES ASSUME Known' PROVE Balanced'
    BY <1>2
  <2>1. Known /\ UNCHANGED <<net, stray>> /\ RecordEntry(Fill)
    BY <1>4 DEF EntrySettled, Known
  <2>2. Balanced
    BY <2>1 DEF SharesInv
  <2>4. \A sym \in Symbols : net[sym] + Unfilled(stray[sym])
                               = HeldNet(sym) + (IF job.sym = sym THEN Fill ELSE 0)
    BY <1>1, <2>2 DEF Balanced, InFlight, Idle, Fill
  <2>5. CASE Fill = 0
    <3>1. UNCHANGED <<trades, nextId, positions>>
      BY <2>1, <2>5 DEF RecordEntry
    <3>2. \A sym \in Symbols : HeldNet(sym)' = HeldNet(sym) /\ HeldNet(sym) \in Int
      BY <3>1, HeldSame, HeldInt
    <3> QED
      BY <1>2, <2>1, <2>4, <2>5, <3>2, UnfilledInt DEF Balanced
  <2>6. CASE Fill # 0
    <3> DEFINE t == [id |-> nextId, sl |-> job.sl, sym |-> job.sym, q |-> Fill]
    <3>1. trades' = trades \cup {t} /\ t.id = nextId /\ t.sl = job.sl /\ t.sym = job.sym /\ t.q = Fill
      BY <2>1, <2>6 DEF RecordEntry, OpenTrade
    <3>2. t \notin trades
      BY <3>1, JobFacts DEF BackedInv, RowsUnique
    <3> HIDE DEF t
    <3>3. ASSUME NEW sym \in Symbols
          PROVE  HeldNet(sym)' = HeldNet(sym) + (IF job.sym = sym THEN Fill ELSE 0)
      BY <3>1, <3>2, HeldComes, JobFacts DEF SharesInv
    <3>4. \A sym \in Symbols : net'[sym] + Unfilled(stray'[sym]) = HeldNet(sym)' + 0
      BY <2>1, <2>4, <3>3, UnfilledInt, HeldInt, JobFacts
    <3> QED BY <1>2, <3>4 DEF Balanced
  <2> QED BY <2>5, <2>6
<1> QED BY <1>3, <1>4

LEMMA SharesExitSettled ==
  ASSUME TypeOK, BackedInv, SharesInv, ExitSettled \/ ExitUnsettled
  PROVE  OrderInv' /\ (Known' => Balanced' /\ SplitRows')
<1> USE DEF storeVars, flatVars, dayVars, brokerVars
<1>1. job' = NoJob /\ job.op = "exit"
  BY DEF ExitSettled, ExitUnsettled
<1>2. OrderInv' /\ SplitRows' /\ (\A sym : InFlight(sym)' = 0)
  BY <1>1, NoJobIdle
<1>3. CASE ExitUnsettled
  <2>1. ~Known'
    BY <1>3 DEF ExitUnsettled, Fault, Known
  <2> QED BY <1>2, <2>1
<1>4. CASE ExitSettled
  <2> SUFFICES ASSUME Known' PROVE Balanced'
    BY <1>2
  <2>1. Known /\ UNCHANGED <<net, stray>>
    BY <1>4 DEF ExitSettled, Known
  <2>2. Balanced /\ IsFiniteSet(trades)
    BY <2>1 DEF SharesInv
  <2>4. \A sym \in Symbols : net[sym] + Unfilled(stray[sym])
                               = HeldNet(sym) + (IF job.sym = sym THEN Fill ELSE 0)
    BY <1>1, <2>2 DEF Balanced, InFlight, Idle, Fill
  <2>5. CASE Fill = 0 /\ UNCHANGED <<trades, positions>>
    <3>1. \A sym \in Symbols : HeldNet(sym)' = HeldNet(sym) /\ HeldNet(sym) \in Int
      BY <2>5, HeldSame, HeldInt
    <3> QED
      BY <1>2, <2>1, <2>4, <2>5, <3>1, UnfilledInt DEF Balanced
  <2>6. CASE Fill = job.want /\ CloseWhole
    <3>1. PICK u \in trades :
            /\ u.id = Position.id /\ u.sl = job.sl /\ u.sym = job.sym /\ u.q = Position.q
            /\ {t \in trades : t.id # Position.id} = trades \ {u}
      BY <1>1, ExitRow
    <3>2. trades' = trades \ {u}
      BY <2>6, <3>1 DEF CloseWhole
    <3>3. Fill = -Position.q
      BY <1>1, <2>6 DEF BackedInv, ExitHeld
    <3>4. ASSUME NEW sym \in Symbols
          PROVE  HeldNet(sym)' = HeldNet(sym) - (IF job.sym = sym THEN Position.q ELSE 0)
      BY <2>2, <3>1, <3>2, HeldGoes
    <3>5. \A sym \in Symbols : net'[sym] + Unfilled(stray'[sym]) = HeldNet(sym)' + 0
      BY <2>1, <2>4, <3>3, <3>4, UnfilledInt, HeldInt, JobFacts
    <3> QED BY <1>2, <3>5 DEF Balanced
  <2> QED BY <1>4, <2>5, <2>6 DEF ExitSettled
<1> QED BY <1>3, <1>4

LEMMA SharesSplit ==
  ASSUME TypeOK, BackedInv, SharesInv, ExitSplits
  PROVE  OrderInv' /\ (Known' => Balanced' /\ SplitRows')
<1> USE DEF storeVars, flatVars, dayVars, brokerVars
<1> DEFINE c == ClosedPart'
           r == RestPart'
<1>1. /\ job.op = "exit" /\ ~job.live /\ UNCHANGED <<net, stray, positions, faults>>
      /\ c = [id |-> Position.id, sl |-> job.sl, sym |-> job.sym, q |-> -Fill]
      /\ r = [id |-> nextId, sl |-> job.sl, sym |-> job.sym, q |-> Position.q + Fill]
      /\ trades' = {t \in trades : t.id # Position.id} \cup {c, r}
  BY PartsBecome DEF ExitSplits
<1>2. OrderInv'
  BY <1>1, PartsBecome DEF OrderInv, EnterEmpty, LegsCut, LiveWatched, Watching
<1>3. SplitRows'
  BY <1>1 DEF SplitRows
<1>4. ASSUME Known' PROVE Balanced'
  <2>1. Known
    BY <1>1, <1>4 DEF Known
  <2>2. Balanced /\ IsFiniteSet(trades)
    BY <2>1 DEF SharesInv
  <2>5. PICK u \in trades :
          /\ u.id = Position.id /\ u.sl = job.sl /\ u.sym = job.sym /\ u.q = Position.q
          /\ {t \in trades : t.id # Position.id} = trades \ {u}
    BY <1>1, ExitRow
  <2> DEFINE W == trades \ {u}
  <2>6. c.id = u.id /\ c.sym = job.sym /\ c.q = -Fill /\ r.id = nextId /\ r.sym = job.sym
        /\ r.q = Position.q + Fill
    BY <1>1, <2>5
  <2>7. c \notin W /\ r \notin W \cup {c}
    BY <2>5, <2>6, JobFacts DEF BackedInv, RowsUnique
  <2>8. trades' = (W \cup {c}) \cup {r}
    BY <1>1, <2>5
  <2>9. IsFiniteSet(W) /\ IsFiniteSet(W \cup {c}) /\ (\A t \in trades : t.q \in Int)
        /\ (\A t \in W : t.q \in Int) /\ c.q \in Int /\ r.q \in Int
    <3>1. IsFiniteSet(W)
      BY <2>2, FS_Subset
    <3>2. IsFiniteSet(W \cup {c})
      <4> HIDE DEF W, c
      <4> QED BY <3>1, FS_AddElement
    <3>3. \A t \in trades : t.q \in Int
      BY DEF TypeOK, Trades
    <3>4. c.q \in Int /\ r.q \in Int
      BY <2>6, JobFacts
    <3> QED BY <3>1, <3>2, <3>3, <3>4
  <2> HIDE DEF c, r, W
  <2>10. ASSUME NEW sym \in Symbols PROVE HeldNet(sym)' = HeldNet(sym)
    <3> DEFINE a == Quantity(Of(W, sym))
    <3>1. Quantity(Of(trades, sym)) - (IF job.sym = sym THEN Position.q ELSE 0) = a
      BY <2>2, <2>5, <2>9, RowGoes DEF W
    <3>2. Quantity(Of(W \cup {c}, sym)) = a + (IF job.sym = sym THEN -Fill ELSE 0)
      BY <2>6, <2>7, <2>9, RowComes
    <3>3. Quantity(Of((W \cup {c}) \cup {r}, sym))
            = Quantity(Of(W \cup {c}, sym)) + (IF job.sym = sym THEN Position.q + Fill ELSE 0)
      <4> DEFINE V == W \cup {c}
      <4>1. IsFiniteSet(V) /\ (\A t \in V : t.q \in Int) /\ r \notin V /\ r.q \in Int
        BY <2>7, <2>9
      <4> HIDE DEF V
      <4>2. Quantity(Of(V \cup {r}, sym)) = Quantity(Of(V, sym)) + (IF r.sym = sym THEN r.q ELSE 0)
        BY <4>1, RowComes
      <4> QED BY <2>6, <4>2 DEF V
    <3>4. HeldNet(sym)' = Quantity(Of(trades', sym))
      BY DEF HeldNet, TradesOf, Of
    <3>5. a \in Int /\ Quantity(Of(trades, sym)) \in Int
      BY QuantityInt
    <3> HIDE DEF a
    <3>6. HeldNet(sym)' = Quantity(Of(trades, sym))
      BY <2>8, <3>1, <3>2, <3>3, <3>4, <3>5, JobFacts
    <3> QED BY <3>6, HeldOf
  <2>11. \A sym \in Symbols : InFlight(sym)' = InFlight(sym)
    BY <1>1, PartsBecome DEF InFlight, Idle
  <2> QED BY <1>1, <2>2, <2>10, <2>11 DEF Balanced
<1> QED BY <1>2, <1>3, <1>4

LEMMA SharesSplitRecorded ==
  ASSUME TypeOK, BackedInv, SharesInv, SplitRecorded
  PROVE  OrderInv' /\ (Known' => Balanced' /\ SplitRows')
<1> USE DEF storeVars, flatVars, dayVars, brokerVars
<1>1. /\ job' = NoJob /\ job.op = "split" /\ UNCHANGED <<net, stray, faults>>
      /\ trades' = {t \in trades : t.id # Position.id}
      /\ positions' = [positions EXCEPT ![job.sl][job.sym] = [id |-> RestRow, q |-> Position.q + Fill]]
  BY DEF SplitRecorded, Position
<1>2. OrderInv' /\ SplitRows' /\ (\A sym : InFlight(sym)' = 0)
  BY <1>1, NoJobIdle
<1> SUFFICES ASSUME Known' PROVE Balanced'
  BY <1>2
<1>3. Balanced /\ ClosedPart \in trades /\ IsFiniteSet(trades)
  BY <1>1 DEF SharesInv, Known, SplitRows
<1>4. ClosedPart.id = Position.id /\ ClosedPart.sym = job.sym /\ ClosedPart.q = -Fill
  BY DEF ClosedPart
<1>5. \A t \in trades : t.id = Position.id => t = ClosedPart
  BY <1>3, <1>4 DEF BackedInv, RowsUnique
<1>6. trades' = trades \ {ClosedPart}
  BY <1>1, <1>4, <1>5
<1>7. ASSUME NEW sym \in Symbols
      PROVE  HeldNet(sym)' = HeldNet(sym) - (IF job.sym = sym THEN -Fill ELSE 0)
  BY <1>3, <1>4, <1>6, HeldGoes
<1>8. \A sym \in Symbols : net[sym] + Unfilled(stray[sym])
                             = HeldNet(sym) + (IF job.sym = sym THEN Fill ELSE 0)
  BY <1>1, <1>3 DEF Balanced, InFlight, Idle, Fill
<1>9. \A sym \in Symbols : net'[sym] + Unfilled(stray'[sym]) = HeldNet(sym)' + 0
  BY <1>1, <1>7, <1>8, UnfilledInt, HeldInt, JobFacts
<1> QED BY <1>2, <1>9 DEF Balanced

-----------------------------------------------------------------------------
(* The safety net, the reconcile and the rest.                             *)

LEMMA IdleStays ==
  ASSUME OrderInv, Idle, UNCHANGED job
  PROVE  OrderInv' /\ SplitRows' /\ \A sym : InFlight(sym) = 0 /\ InFlight(sym)' = 0
<1>1. job.op = "idle" /\ job'.op = "idle" /\ ~job'.live
  BY DEF Idle, OrderInv, LiveWatched, Watching
<1> QED
  BY <1>1 DEF OrderInv, EnterEmpty, LegsCut, LiveWatched, Watching, SplitRows, InFlight, Idle

(* Books nothing is known to be wrong with: no order works, no split is    *)
(* being recorded.                                                         *)
LEMMA QuietBooks ==
  ASSUME TypeOK, BackedInv, SharesInv, Known, Idle
  PROVE  /\ \A t \in trades : positions[t.sl][t.sym] = AsPosition(t)
         /\ \A t, u \in trades : t.sl = u.sl /\ t.sym = u.sym => t = u
         /\ \A sym \in Symbols : stray[sym] = NoOrders => net[sym] = HeldNet(sym)
<1>1. \A t \in trades : positions[t.sl][t.sym] = AsPosition(t)
  BY DEF SharesInv, EachHeld, Splitting, Idle
<1>2. ASSUME NEW t \in trades, NEW u \in trades, t.sl = u.sl, t.sym = u.sym PROVE t = u
  BY <1>1, <1>2, AsPositionIs DEF BackedInv, RowsUnique
<1>3. ASSUME NEW sym \in Symbols, stray[sym] = NoOrders PROVE net[sym] = HeldNet(sym)
  <2>1. net[sym] + Unfilled(stray[sym]) = HeldNet(sym) + InFlight(sym)
    BY DEF SharesInv, Balanced
  <2>2. Unfilled(stray[sym]) = 0 /\ InFlight(sym) = 0
    BY <1>3 DEF Unfilled, NoOrders, InFlight
  <2> QED BY <2>1, <2>2, UnfilledInt, HeldInt
<1> QED BY <1>1, <1>2, <1>3

(* An excess of the sleeve that flattens is its one trade in the symbol.   *)
LEMMA ExcessRow ==
  ASSUME TypeOK, BackedInv, SharesInv, Known, Idle, NEW sl \in Sleeves, NEW sym \in Symbols,
         stray[sym] = NoOrders, Excess(sl, sym) # 0
  PROVE  \E u \in trades : /\ u.sl = sl /\ u.sym = sym /\ u.q = Excess(sl, sym)
                           /\ Covered(sl, sym) = u.id
<1> DEFINE rest == {t \in Others(sl) : t.sym = sym}
<1>1. net[sym] = HeldNet(sym) /\ Excess(sl, sym) = net[sym] - Quantity(rest)
  BY QuietBooks DEF Excess
<1>2. IsFiniteSet(TradesOf(sym)) /\ \A t \in TradesOf(sym) : t \in trades /\ t.q \in Int /\ t.sym = sym
  BY TradesOfType DEF SharesInv
<1>3. \E u \in trades : u.sl = sl /\ u.sym = sym
  <2> SUFFICES ASSUME ~ \E u \in trades : u.sl = sl /\ u.sym = sym PROVE FALSE
    OBVIOUS
  <2>1. rest = TradesOf(sym)
    BY DEF Others, TradesOf
  <2>2. Excess(sl, sym) = HeldNet(sym) - HeldNet(sym)
    BY <1>1, <2>1 DEF HeldNet
  <2> QED BY <2>2, HeldInt
<1>4. PICK u \in trades : u.sl = sl /\ u.sym = sym
  BY <1>3
<1>5. rest = TradesOf(sym) \ {u} /\ u \in TradesOf(sym)
  BY <1>4, QuietBooks DEF Others, TradesOf
<1>6. HeldNet(sym) = u.q + Quantity(rest)
  <2> HIDE DEF rest
  <2> QED BY <1>2, <1>5, QuantityTakes DEF HeldNet
<1>7. u.q = Excess(sl, sym)
  <2>1. u.q \in Int /\ Quantity(rest) \in Int
    BY <1>2, <1>5, QuantityInt
  <2> HIDE DEF rest
  <2> QED BY <1>1, <1>6, <2>1
<1>8. Covered(sl, sym) = u.id
  <2>1. positions[sl][sym] = AsPosition(u) /\ u.id # 0
    BY <1>4, QuietBooks DEF TypeOK, Trades
  <2>2. positions[sl][sym] # NoPos /\ positions[sl][sym].id = u.id
    BY <2>1, AsPositionIs DEF NoPos
  <2> QED BY <2>2 DEF Covered
<1> QED BY <1>4, <1>7, <1>8

LEMMA PlaceNothing == Place(NoOrders, 0) = NoOrders /\ Unfilled(NoOrders) = 0
BY DEF Unfilled, Place, NoOrders

LEMMA MinusNothing == \A x \in Int : x <= 0 /\ x >= 0 => -x = 0
OBVIOUS

LEMMA SharesNet ==
  ASSUME TypeOK, BackedInv, SharesInv, SafetyNet
  PROVE  OrderInv' /\ (Known' => Balanced' /\ SplitRows')
<1> USE DEF storeVars, flatVars, dayVars, brokerVars
<1>1. Idle /\ UNCHANGED job /\ UNCHANGED net
  BY DEF SafetyNet
<1>2. OrderInv' /\ SplitRows' /\ \A sym : InFlight(sym) = 0 /\ InFlight(sym)' = 0
  BY <1>1, IdleStays DEF SharesInv
<1> SUFFICES ASSUME Known' PROVE Balanced'
  BY <1>2
<1> DEFINE sl == Head(queue).sl
<1>3. sl \in Sleeves
  BY HeadType DEF SafetyNet
<1> DEFINE excess == {sym \in Symbols : Excess(sl, sym) # 0}
           before == [sym \in Symbols |-> IF Others(sl) = {} THEN NoOrders ELSE stray[sym]]
<1>4. PICK refused \in IF Others(sl) = {} THEN {{}} ELSE SUBSET excess :
         /\ IF refused = {} THEN AskPositions ELSE Quiet /\ Fault("submit")
         /\ stray' = [sym \in Symbols |-> IF sym \in refused THEN before[sym]
                                          ELSE Place(before[sym], -Excess(sl, sym))]
         /\ trades' = {t \in trades : t.id \notin {Covered(sl, sym) : sym \in excess \ refused}}
         /\ positions' = [positions EXCEPT ![sl] =
                            [sym \in Symbols |-> IF sym \in excess \ refused THEN NoPos ELSE @[sym]]]
  BY DEF SafetyNet
<1> HIDE DEF sl
<1>5. Known /\ Quiet
  BY <1>4 DEF AskPositions, Fault, Known
<1> DEFINE S == excess \ refused
<1>6. \A sym \in Symbols : before[sym] = NoOrders /\ stray[sym] = NoOrders
  BY <1>5 DEF Quiet
<1>7. \A sym \in S : \E u \in trades : /\ u.sl = sl /\ u.sym = sym /\ u.q = Excess(sl, sym)
                                       /\ Covered(sl, sym) = u.id
  <2>1. \A sym \in S : sym \in Symbols /\ Excess(sl, sym) # 0
    OBVIOUS
  <2> HIDE DEF S
  <2> QED BY <1>1, <1>3, <1>5, <1>6, <2>1, ExcessRow
<1>8. ASSUME NEW t \in trades
      PROVE  t \in trades' <=> ~(t.sl = sl /\ t.sym \in S)
  <2>1. CASE t.sl = sl /\ t.sym \in S
    <3>1. PICK u \in trades : u.sl = sl /\ u.sym = t.sym /\ Covered(sl, t.sym) = u.id
      BY <1>7, <2>1
    <3>2. u = t
      BY <1>1, <1>5, <2>1, <3>1, QuietBooks
    <3> QED BY <1>4, <2>1, <3>1, <3>2
  <2>2. CASE ~(t.sl = sl /\ t.sym \in S)
    <3>1. ASSUME NEW sym \in S PROVE t.id # Covered(sl, sym)
      <4>1. PICK u \in trades : u.sl = sl /\ u.sym = sym /\ Covered(sl, sym) = u.id
        BY <1>7
      <4> QED BY <2>2, <4>1 DEF BackedInv, RowsUnique
    <3> QED BY <1>4, <2>2, <3>1
  <2> QED BY <2>1, <2>2
<1>9. trades' \subseteq trades
  BY <1>4
<1>10. \A sym \in Symbols : stray'[sym] = IF sym \in refused THEN NoOrders
                                          ELSE Place(NoOrders, -Excess(sl, sym))
  <2> HIDE DEF before, excess
  <2> QED BY <1>4, <1>6
<1>11. positions' = [positions EXCEPT ![sl] = [sym \in Symbols |-> IF sym \in S THEN NoPos ELSE @[sym]]]
  BY <1>4
<1>12. S \subseteq Symbols /\ \A sym \in Symbols \ S : sym \in refused \/ Excess(sl, sym) = 0
  BY <1>4
<1>13. \A sym \in refused : sym \notin S
  OBVIOUS
<1> HIDE DEF S, before, excess
<1>14. ASSUME NEW sym \in Symbols
       PROVE  net[sym] + Unfilled(stray'[sym]) = HeldNet(sym)'
  <2>1. net[sym] = HeldNet(sym) /\ HeldNet(sym) \in Int
    BY <1>1, <1>5, <1>6, QuietBooks, HeldInt
  <2>2. CASE sym \in S
    <3>1. PICK u \in trades : u.sl = sl /\ u.sym = sym /\ u.q = Excess(sl, sym)
      BY <1>7, <2>2
    <3>2. TradesOf(sym)' = TradesOf(sym) \ {u} /\ u \in TradesOf(sym)
      <4>1. ASSUME NEW t \in trades, t.sym = sym PROVE t \in trades' <=> t # u
        BY <1>1, <1>5, <1>8, <2>2, <3>1, <4>1, QuietBooks
      <4> QED BY <1>9, <3>1, <4>1 DEF TradesOf
    <3>3. HeldNet(sym) = u.q + HeldNet(sym)'
      <4>1. IsFiniteSet(TradesOf(sym)) /\ \A t \in TradesOf(sym) : t.q \in Int
        BY TradesOfType DEF SharesInv
      <4>2. Quantity(TradesOf(sym)) = u.q + Quantity(TradesOf(sym) \ {u})
        BY <3>2, <4>1, QuantityTakes
      <4> QED BY <3>2, <4>2 DEF HeldNet
    <3>4. HeldNet(sym)' \in Int /\ u.q \in Int
      BY QuantityInt DEF HeldNet, TypeOK, Trades
    <3>5. Unfilled(stray'[sym]) = -u.q
      <4>1. sym \notin refused
        BY <1>13, <2>2
      <4> QED BY <1>10, <3>1, <3>4, <4>1, PlaceAdds
    <3> QED BY <2>1, <3>3, <3>4, <3>5
  <2>3. CASE sym \notin S
    <3>1. TradesOf(sym)' = TradesOf(sym)
      BY <1>8, <1>9, <2>3 DEF TradesOf
    <3>2. Unfilled(stray'[sym]) = 0
      <4>1. CASE sym \in refused
        BY <1>10, <4>1, PlaceNothing
      <4>2. CASE sym \notin refused
        <5>1. -Excess(sl, sym) = 0
          BY <1>12, <2>3, <4>2, MinusNothing, ExcessInt
        <5>2. stray'[sym] = Place(NoOrders, 0)
          BY <1>10, <4>2, <5>1
        <5> QED BY <5>2, PlaceNothing
      <4> QED BY <4>1, <4>2
    <3> QED BY <2>1, <3>1, <3>2 DEF HeldNet
  <2> QED BY <2>2, <2>3
<1>15. Balanced'
  <2>1. ASSUME NEW sym \in Symbols PROVE net'[sym] + Unfilled(stray'[sym]) = HeldNet(sym)' + InFlight(sym)'
    BY <1>1, <1>2, <1>14, QuantityInt DEF HeldNet
  <2> QED BY <2>1 DEF Balanced
<1> QED BY <1>15

(* A reconcile of books that add up keeps them all.                        *)
LEMMA KeepsAll ==
  ASSUME NEW T, IsFiniteSet(T), \A t \in T : t.q \in Int \ {0}
  PROVE  Adopted(T, Quantity(T)) = T /\ Decide(T, Quantity(T)).orphan = 0
<1>1. Adopted(T, Quantity(T)) = T
  <2>1. CASE Cardinality(T) = 1
    <3>1. PICK t : T = {t}
      BY <2>1, FS_Singleton
    <3>2. Quantity(T) = t.q /\ t.q \in Int \ {0}
      BY <3>1, QuantityOne
    <3>3. SameSign(t.q, t.q)
      BY <3>2 DEF SameSign
    <3>4. Adopted(T, Quantity(T)) = {u \in T : SameSign(u.q, Quantity(T))}
      BY <2>1 DEF Adopted
    <3> QED BY <3>1, <3>2, <3>3, <3>4
  <2>2. CASE Cardinality(T) # 1
    BY <2>2 DEF Adopted
  <2> QED BY <2>1, <2>2
<1>2. Decide(T, Quantity(T)).orphan = IF T = {} THEN Quantity(T) ELSE 0
  BY <1>1 DEF Decide
<1> QED BY <1>1, <1>2, QuantityNone

(* A reconcile of quiet books changes nothing but memory.                  *)
LEMMA PassKeeps ==
  ASSUME TypeOK, BackedInv, SharesInv, Known, Idle, Quiet, ReconcilePass
  PROVE  trades' = trades /\ \A sym \in Symbols : net[sym] = HeldNet(sym) /\ stray'[sym] = NoOrders
<1>1. ASSUME NEW sym \in Symbols
      PROVE  /\ Outcome(sym).adopt = TradesOf(sym) /\ Outcome(sym).orphan = 0
             /\ net[sym] = HeldNet(sym)
  <2>1. net[sym] = Quantity(TradesOf(sym))
    BY QuietBooks DEF Quiet, HeldNet
  <2>2. IsFiniteSet(TradesOf(sym)) /\ \A t \in TradesOf(sym) : t.q \in Int \ {0}
    BY TradesOfType DEF SharesInv, TradesOf, TypeOK, Trades
  <2>3. Adopted(TradesOf(sym), Quantity(TradesOf(sym))) = TradesOf(sym)
        /\ Decide(TradesOf(sym), Quantity(TradesOf(sym))).orphan = 0
    BY <2>2, KeepsAll
  <2> QED BY <2>1, <2>3 DEF Outcome, Decide, HeldNet
<1>2. trades' = trades
  <2>1. \A t \in trades : t.sym \in Symbols /\ t \in TradesOf(t.sym)
    BY DEF TradesOf, TypeOK, Trades
  <2> QED BY <1>1, <2>1 DEF ReconcilePass
<1>3. \A sym \in Symbols : stray'[sym] = NoOrders
  <2>1. \A sym \in Symbols : -Outcome(sym).orphan = 0
    BY <1>1, MinusNothing
  <2>2. \A sym \in Symbols : stray'[sym] = Place(NoOrders, 0)
    BY <2>1 DEF ReconcilePass, Quiet
  <2> QED BY <2>2, PlaceNothing
<1> QED BY <1>1, <1>2, <1>3

LEMMA SharesPass ==
  ASSUME TypeOK, BackedInv, SharesInv, ReconcilePass \/ ReconcileRaises, Idle, UNCHANGED <<net, job, nextId>>
  PROVE  OrderInv' /\ (Known' => Balanced' /\ SplitRows' /\ EachHeld')
<1>1. OrderInv' /\ SplitRows' /\ \A sym : InFlight(sym) = 0 /\ InFlight(sym)' = 0
  BY IdleStays DEF SharesInv
<1> SUFFICES ASSUME Known' PROVE Balanced' /\ EachHeld'
  BY <1>1
<1>2. Known
  BY DEF ReconcilePass, ReconcileRaises, AskPositions, Fault, Known
<1>3. CASE ReconcileRaises
  <2>1. UNCHANGED <<trades, positions, stray>>
    BY <1>3 DEF ReconcileRaises
  <2>2. \A sym : HeldNet(sym)' = HeldNet(sym)
    BY <2>1 DEF HeldNet, TradesOf
  <2>3. Balanced'
    BY <1>1, <1>2, <2>1, <2>2 DEF SharesInv, Balanced
  <2>4. EachHeld'
    BY <1>2, <2>1, EachFrame DEF SharesInv
  <2> QED BY <2>3, <2>4
<1>4. CASE ReconcilePass
  <2>1. Quiet
    BY <1>4 DEF ReconcilePass, AskPositions, Fault, Known
  <2>2. trades' = trades /\ \A sym \in Symbols : net[sym] = HeldNet(sym) /\ stray'[sym] = NoOrders
    BY <1>2, <1>4, <2>1, PassKeeps
  <2>3. ASSUME NEW sym \in Symbols PROVE net'[sym] + Unfilled(stray'[sym]) = HeldNet(sym)' + InFlight(sym)'
    BY <1>1, <2>2, PlaceNothing, UnfilledInt, HeldSame
  <2>4. EachHeld'
    BY <1>2, <1>4, EachAlone, EachPass DEF SharesInv, Idle
  <2> QED BY <2>3, <2>4 DEF Balanced
<1> QED BY <1>3, <1>4

(* The next sleeve's turn of a flatten begins.                             *)
LEMMA SharesTurn ==
  ASSUME TypeOK, BackedInv, SharesInv, CancelAll \/ CancelAllRaises \/ TurnPasses
  PROVE  OrderInv' /\ (Known' => Balanced' /\ SplitRows')
<1> USE DEF storeVars, flatVars, dayVars, brokerVars
<1>1. Idle /\ UNCHANGED <<job, trades, nextId, net>> /\ TurnEnds /\ Head(queue).sl \in Sleeves
  BY HeadType DEF CancelAll, CancelAllRaises, TurnPasses
<1>2. OrderInv' /\ SplitRows' /\ \A sym : InFlight(sym) = 0 /\ InFlight(sym)' = 0
  BY <1>1, IdleStays DEF SharesInv
<1> SUFFICES ASSUME Known' PROVE Balanced'
  BY <1>2
<1>3. Known
  BY DEF CancelAll, CancelAllRaises, TurnPasses, Fault, Known
<1>4. \A sym \in Symbols : stray'[sym] = stray[sym]
  BY DEF CancelAll, CancelAllRaises, TurnPasses, Fault, Known, Quiet
<1>5. Balanced'
  <2>1. \A sym \in Symbols : HeldNet(sym)' = HeldNet(sym)
    BY <1>1, HeldSame
  <2> QED BY <1>1, <1>2, <1>3, <1>4, <2>1 DEF SharesInv, Balanced
<1> QED BY <1>5

LEMMA SharesStray ==
  ASSUME TypeOK, SharesInv, NEW s \in Symbols, StrayFills(s) \/ StrayDies(s)
  PROVE  OrderInv' /\ (Known' => Balanced' /\ SplitRows')
<1> USE DEF storeVars, flatVars, dayVars, brokerVars
<1>1. UNCHANGED <<trades, nextId, positions, job>>
  BY DEF StrayFills, StrayDies
<1>2. OrderInv' /\ SplitRows' = SplitRows
      /\ \A sym : HeldNet(sym)' = HeldNet(sym) /\ InFlight(sym)' = InFlight(sym)
  BY <1>1 DEF SharesInv, OrderInv, EnterEmpty, LegsCut, LiveWatched, Watching, Position, WithinLeg,
              FirstSent, RestSent, HeldNet, TradesOf, SplitRows, ClosedPart, RestPart, Fill,
              InFlight, Idle
<1>3. CASE StrayFills(s)
  <2>1. stray[s] \in Orders /\ net[s] \in Int /\ stray \in [Symbols -> Orders] /\ net \in [Symbols -> Int]
    BY DEF TypeOK
  <2>2. net'[s] + Unfilled(stray'[s]) = net[s] + Unfilled(stray[s])
    BY <1>3, <2>1 DEF StrayFills, Unfilled, Orders
  <2>3. \A sym \in Symbols : sym # s => net'[sym] = net[sym] /\ stray'[sym] = stray[sym]
    BY <1>3, <2>1 DEF StrayFills
  <2>4. \A sym \in Symbols : net'[sym] + Unfilled(stray'[sym]) = net[sym] + Unfilled(stray[sym])
    BY <2>2, <2>3
  <2>5. Known' = Known
    BY <1>3 DEF StrayFills, Known
  <2>6. Balanced => Balanced'
    BY <1>2, <2>4 DEF Balanced
  <2> QED BY <1>2, <2>5, <2>6 DEF SharesInv
<1>4. CASE StrayDies(s)
  <2>1. ~Known'
    BY <1>4 DEF StrayDies, Fault, Known
  <2> QED BY <1>2, <2>1
<1> QED BY <1>3, <1>4

(* Nothing the invariant speaks of changes.                                *)
LEMMA SharesFrame ==
  ASSUME SharesInv, UNCHANGED <<net, stray, trades, nextId, positions, job>>, Known' => Known
  PROVE  SharesInv'
<1>1. OrderInv'
  BY DEF SharesInv, OrderInv, EnterEmpty, LegsCut, LiveWatched, Watching, Position, WithinLeg,
         FirstSent, RestSent, HeldNet, TradesOf
<1>2. \A sym : HeldNet(sym)' = HeldNet(sym) /\ InFlight(sym)' = InFlight(sym)
  BY DEF HeldNet, TradesOf, InFlight, Idle
<1>3. Balanced => Balanced'
  BY <1>2 DEF Balanced
<1>4. EachHeld' = EachHeld /\ SplitRows' = SplitRows
  BY DEF EachHeld, SplitRows, Splitting, ClosedPart, RestPart, Fill, AsPosition, Position
<1> QED BY <1>1, <1>3, <1>4 DEF SharesInv

LEMMA SharesRest ==
  ASSUME TypeOK, BackedInv, SharesInv,
         \/ \E sl \in Sleeves : EodFlatten(sl)
         \/ FlattenAll \/ (\E s \in Symbols : FlattenExitRejected(s))
         \/ SafetyNetRaises \/ CacheExpires \/ NewDay \/ Crash
  PROVE  OrderInv' /\ (Known' => Balanced' /\ SplitRows')
<1> USE DEF storeVars, flatVars, dayVars, brokerVars
<1>1. CASE Crash
  <2>1. ~Known' /\ job' = NoJob
    BY <1>1 DEF Crash, Fault, Known
  <2> QED BY <2>1, NoJobIdle
<1>2. CASE ~Crash
  <2>1. UNCHANGED <<net, stray, trades, nextId, positions, job>> /\ (Known' => Known)
    BY <1>2 DEF EodFlatten, FlattenAll, FlattenExitRejected, SafetyNetRaises, CacheExpires, NewDay,
                Fault, Known
  <2> QED BY <2>1, SharesFrame DEF SharesInv
<1> QED BY <1>1, <1>2

LEMMA SharesBegins ==
  ASSUME TypeOK, BackedInv, SharesInv,
         \/ \E sl \in Sleeves, sym \in Symbols : \E q \in Sizes : Enter(sl, sym, q)
         \/ \E sl \in Sleeves, sym \in Symbols : Exit(sl, sym)
         \/ \E sym \in Symbols : FlattenExit(sym)
  PROVE  OrderInv' /\ (Known' => Balanced' /\ SplitRows')
<1> USE DEF storeVars, flatVars, dayVars, brokerVars
<1>1. ASSUME NEW sl \in Sleeves, NEW sym \in Symbols, NEW q \in Sizes, Enter(sl, sym, q)
      PROVE  OrderInv' /\ (Known' => Balanced' /\ SplitRows')
  <2>1. q \in Int /\ Idle /\ positions[sl][sym] = NoPos /\ Send("enter", sl, sym, q)
        /\ UNCHANGED <<net, stray, trades, nextId, positions, faults>>
    BY <1>1, BoundsAssumption DEF Enter, Free, MayEnter, Sizes
  <2> QED BY <2>1, SharesSend
<1>2. ASSUME NEW sl \in Sleeves, NEW sym \in Symbols, Idle, Send("exit", sl, sym, -positions[sl][sym].q),
             UNCHANGED <<net, stray, trades, nextId, positions, faults>>
      PROVE  OrderInv' /\ (Known' => Balanced' /\ SplitRows')
  <2>1. -positions[sl][sym].q \in Int
    BY DEF TypeOK, Positions
  <2>2. "exit" \in {"enter", "exit"} /\ "exit" # "enter"
    OBVIOUS
  <2> QED BY <1>2, <2>1, <2>2, SharesSend
<1>3. ASSUME NEW sl \in Sleeves, NEW sym \in Symbols, Exit(sl, sym)
      PROVE  OrderInv' /\ (Known' => Balanced' /\ SplitRows')
  BY <1>2, <1>3 DEF Exit, Free
<1>4. ASSUME NEW sym \in Symbols, FlattenExit(sym)
      PROVE  OrderInv' /\ (Known' => Balanced' /\ SplitRows')
  BY <1>2, <1>4, HeadType DEF FlattenExit
<1> QED BY <1>1, <1>3, <1>4

LEMMA SharesDay ==
  ASSUME TypeOK, BackedInv, SharesInv, Startup \/ \E sl \in Sleeves : Preopen(sl)
  PROVE  OrderInv' /\ (Known' => Balanced' /\ SplitRows')
<1> USE DEF storeVars, flatVars, dayVars, brokerVars
<1>1. CASE Startup
  BY <1>1, SharesPass DEF Startup, BackedInv, DownIdle
<1>2. ASSUME NEW sl \in Sleeves, Preopen(sl)
      PROVE  OrderInv' /\ (Known' => Balanced' /\ SplitRows')
  <2>1. CASE UNCHANGED <<trades, positions, stray, cache, faults>>
    BY <1>2, <2>1, SharesFrame DEF Preopen, SharesInv, Known
  <2>2. CASE ReconcilePass \/ ReconcileRaises
    BY <1>2, <2>2, SharesPass DEF Preopen, Free
  <2> QED BY <1>2, <2>1, <2>2 DEF Preopen
<1> QED BY <1>1, <1>2

(* Faults are never undone.                                                *)
LEMMA FaultsGrow == Next => faults \subseteq faults'
<1> USE DEF Fault, AskPositions
<1>1. Settle \/ Unsettle => faults \subseteq faults'
  BY DEF Settle, Unsettle, EntrySettled, ExitSettled, ExitSplits, SplitRecorded, NextLeg,
         NextLegRejected, PollRaises, EntryUnsettled, ExitUnsettled
<1>2. Flatten \/ FlattenFails => faults \subseteq faults'
  <2>1. SafetyNet => faults \subseteq faults'
    BY DEF SafetyNet
  <2> QED BY <2>1 DEF Flatten, FlattenFails, FlattenExit, CancelAll, TurnPasses,
                      FlattenExitRejected, SafetyNetRaises, CancelAllRaises
<1>3. Startup \/ CacheExpires \/ NewDay \/ Crash => faults \subseteq faults'
  BY DEF Startup, CacheExpires, NewDay, Crash, ReconcilePass, ReconcileRaises
<1>4. \A sl \in Sleeves : EodFlatten(sl) \/ Preopen(sl) => faults \subseteq faults'
  BY DEF EodFlatten, Preopen, ReconcilePass, ReconcileRaises
<1>5. \A sym \in Symbols : StrayFills(sym) \/ StrayDies(sym) => faults \subseteq faults'
  BY DEF StrayFills, StrayDies
<1>6. FlattenAll \/ BrokerFills \/ BrokerEnds => faults \subseteq faults'
  BY DEF FlattenAll, BrokerFills, BrokerEnds
<1>7. \A sl \in Sleeves, sym \in Symbols : Exit(sl, sym) => faults \subseteq faults'
  BY DEF Exit
<1>8. \A sl \in Sleeves, sym \in Symbols : \A q \in Sizes : Enter(sl, sym, q) => faults \subseteq faults'
  BY DEF Enter
<1> QED BY <1>1, <1>2, <1>3, <1>4, <1>5, <1>6, <1>7, <1>8 DEF Next

LEMMA KnownBefore == Next /\ Known' => Known
BY FaultsGrow DEF Known

LEMMA SharesStep ==
  ASSUME TypeOK, BackedInv, SharesInv, [Next]_vars
  PROVE  SharesInv'
<1>1. CASE UNCHANGED vars
  BY <1>1, SharesFrame DEF vars, brokerVars, storeVars, Known
<1>2. CASE Next
  <2>1. IsFiniteSet(trades')
    BY <1>2, FiniteStep DEF SharesInv
  <2>2. OrderInv' /\ (Known' => Balanced' /\ SplitRows')
    <3>1. CASE Settle \/ Unsettle
      BY <3>1, SharesEntry, SharesExitSettled, SharesSplit, SharesSplitRecorded, SharesLegs
         DEF Settle, Unsettle
    <3>2. CASE Flatten \/ FlattenFails
      BY <3>2, SharesBegins, SharesNet, SharesTurn, SharesRest DEF Flatten, FlattenFails
    <3>3. CASE (\E sl \in Sleeves : EodFlatten(sl) \/ Preopen(sl)) \/ FlattenAll
      BY <3>3, SharesRest, SharesDay
    <3>4. CASE Startup \/ CacheExpires \/ NewDay \/ Crash
      BY <3>4, SharesRest, SharesDay
    <3>5. CASE BrokerFills \/ BrokerEnds \/ \E s \in Symbols : StrayFills(s) \/ StrayDies(s)
      BY <3>5, SharesFills, SharesLegs, SharesStray
    <3>6. CASE \/ \E sl \in Sleeves, sym \in Symbols : \E q \in Sizes : Enter(sl, sym, q)
               \/ \E sl \in Sleeves, sym \in Symbols : Exit(sl, sym)
      BY <3>6, SharesBegins
    <3> QED BY <1>2, <3>1, <3>2, <3>3, <3>4, <3>5, <3>6 DEF Next
  <2>3. ASSUME Known' PROVE EachHeld'
    <3>1. ~Crash /\ Known
      BY <1>2, <2>3, KnownBefore DEF Crash, Fault, Known
    <3>2. CASE Startup
      BY <2>3, <3>2, SharesPass DEF Startup, BackedInv, DownIdle
    <3>3. CASE ~Startup
      BY <1>2, <3>1, <3>3, EachStep DEF SharesInv
    <3> QED BY <3>2, <3>3
  <2> QED BY <2>1, <2>2, <2>3 DEF SharesInv
<1> QED BY <1>1, <1>2

LEMMA SharesInit == Init => SharesInv
<1> SUFFICES ASSUME Init PROVE SharesInv
  OBVIOUS
<1>1. IsFiniteSet(trades)
  BY FS_EmptySet DEF Init
<1>2. job = NoJob /\ NoJob.op = "idle" /\ ~NoJob.live
  BY DEF Init, NoJob
<1>3. OrderInv
  BY <1>2 DEF OrderInv, EnterEmpty, LegsCut, LiveWatched, Watching
<1>4. ASSUME NEW sym \in Symbols
      PROVE  net[sym] + Unfilled(stray[sym]) = HeldNet(sym) + InFlight(sym)
  <2>1. TradesOf(sym) = {} /\ InFlight(sym) = 0 /\ net[sym] = 0 /\ stray[sym] = NoOrders
    BY <1>2 DEF Init, TradesOf, InFlight, Idle
  <2>2. HeldNet(sym) = 0
    BY <2>1, QuantityNone DEF HeldNet
  <2> QED BY <2>1, <2>2, PlaceNothing
<1> QED BY <1>1, <1>2, <1>3, <1>4 DEF Init, SharesInv, Balanced, EachHeld, SplitRows

LEMMA SharesAlways == Spec => [](TypeOK /\ BackedInv /\ SharesInv)
<1>1. Init => TypeOK /\ BackedInv /\ SharesInv
  BY TypeInit, BackedInit, SharesInit
<1>2. TypeOK /\ BackedInv /\ SharesInv /\ [Next]_vars => TypeOK' /\ BackedInv' /\ SharesInv'
  BY TypeStep, BackedStep, Stutter, SharesStep
<1> QED
  BY <1>1, <1>2, PTL DEF Spec

(* BooksConserved: whatever the sleeves trade, and through partial fills,  *)
(* orders in two legs, split trades, flattens, reconciles, refused orders  *)
(* and failed position queries, the broker's net quantity and the orders   *)
(* still working are the open trades and what is filled but not booked.    *)
THEOREM BooksConserved == Spec => []Conserved
<1>1. SharesInv => Conserved
  BY DEF SharesInv, Conserved
<1> QED
  BY <1>1, SharesAlways, PTL

(* What is left of an order that crosses nothing crosses nothing.          *)
LEMMA LegCutNeverFlips ==
  ASSUME NEW held \in Int, NEW sent \in Int, NEW got \in 0..sent \cup sent..0,
         ~Crosses(held, sent)
  PROVE  ~Crosses(held + got, sent - got)
BY DEF Crosses

(* NoOrderEverFlips: no order flips the broker's position, whichever leg   *)
(* works, however much of it is filled and whatever other sleeves hold     *)
(* (engine.py execute: Alpaca refuses a flip in one order).                *)
THEOREM NoOrderEverFlips == Spec => []NoOrderFlips
<1>1. TypeOK /\ BackedInv /\ SharesInv => NoOrderFlips
  <2> SUFFICES ASSUME TypeOK, BackedInv, SharesInv, Known, job.live, stray[job.sym] = NoOrders
               PROVE  ~Crosses(net[job.sym], job.sent - job.got)
    BY DEF NoOrderFlips
  <2> DEFINE held == HeldNet(job.sym)
  <2>1. job.sym \in Symbols /\ job.sent \in Int /\ job.got \in Int /\ job.done \in Int /\ job.want \in Int
    BY DEF TypeOK, Jobs
  <2>2. Watching /\ job.got \in 0..job.sent \cup job.sent..0 /\ (FirstSent \/ RestSent)
    BY DEF SharesInv, OrderInv, LiveWatched, LegsCut, WithinLeg
  <2>3. net[job.sym] + Unfilled(stray[job.sym]) = held + job.done + job.got
    BY <2>1, <2>2, HeldInt DEF SharesInv, Balanced, InFlight, Idle, Watching
  <2>4. held \in Int /\ net[job.sym] \in Int /\ Unfilled(stray[job.sym]) = 0
    BY <2>1, HeldInt, UnfilledInt, PlaceNothing
  <2>5. net[job.sym] = held + job.done + job.got
    BY <2>1, <2>3, <2>4
  <2>6. CASE FirstSent
    <3>1. ~Crosses(held, job.sent) /\ job.done = 0
      BY <2>1, <2>4, <2>6, SplitNeverFlips DEF FirstSent
    <3> HIDE DEF held
    <3>2. ~Crosses(held + job.got, job.sent - job.got)
      BY <2>1, <2>2, <2>4, <3>1, LegCutNeverFlips
    <3> QED BY <2>1, <2>4, <2>5, <3>1, <3>2
  <2>7. CASE RestSent
    <3>1. net[job.sym] = job.got
      BY <2>1, <2>4, <2>5, <2>7 DEF RestSent
    <3>2. ~Crosses(job.got, job.sent - job.got)
      BY <2>1, <2>2 DEF Crosses
    <3> QED BY <3>1, <3>2
  <2> QED BY <2>2, <2>6, <2>7
<1> QED
  BY <1>1, SharesAlways, PTL

(* ReconcileAddsUp: a reconcile that hears from the broker leaves books    *)
(* that, with the orphan orders it sends, are what the broker holds, in    *)
(* every symbol with no trade or several.                                  *)
THEOREM ReconcileAddsUp == Spec => ReconcileExplains
<1>1. TypeOK /\ BackedInv /\ SharesInv /\ [Next]_vars =>
        [cache # "ok" /\ cache' = "ok" =>
           \A sym \in Symbols :
             stray[sym] = NoOrders /\ Cardinality(TradesOf(sym)) # 1 =>
               net[sym] + Unfilled(stray'[sym]) = Quantity({t \in trades' : t.sym = sym})]_vars
  BY ExplainsStep DEF SharesInv
<1> QED
  BY <1>1, SharesAlways, PTL DEF Spec, ReconcileExplains

-----------------------------------------------------------------------------
(* A sleeve has one open trade per symbol, and none is forgotten.          *)

(* Books that do not add up are never adopted two trades at a time.        *)
LEMMA AdoptsOne ==
  ASSUME NEW T, IsFiniteSet(T), NEW b, \A t \in T : t.id \in Nat, b # Quantity(T),
         NEW t \in Adopted(T, b), NEW u \in Adopted(T, b)
  PROVE  t = u
<1>1. CASE Cardinality(T) = 1
  <2>1. PICK x : T = {x}
    BY <1>1, FS_Singleton
  <2> QED BY <2>1, AdoptedSubset
<1>2. CASE Cardinality(T) # 1
  BY <1>2 DEF Adopted
<1> QED BY <1>1, <1>2

(* What can happen to a process that is down, and what starts or stops it. *)
LEMMA DownSteps ==
  ASSUME BackedInv, ~up, Next
  PROVE  Startup \/ CacheExpires \/ \E s \in Symbols : StrayFills(s) \/ StrayDies(s)
<1>1. ~Free /\ ~Watching
  BY DEF BackedInv, DownIdle, Idle, Free, Watching
<1> QED
  BY <1>1 DEF Next, Enter, Exit, BrokerFills, BrokerEnds, Settle, Unsettle, EntrySettled, ExitSettled,
     ExitSplits, SplitRecorded, NextLeg, NextLegRejected, PollRaises, EntryUnsettled, ExitUnsettled,
     EodFlatten, Preopen, FlattenAll, Flatten, FlattenFails, FlattenExit, SafetyNet, CancelAll,
     TurnPasses, FlattenExitRejected, SafetyNetRaises, CancelAllRaises, NewDay, Crash

LEMMA UpSteps ==
  ASSUME BackedInv, Next, ~Startup, ~Crash
  PROVE  up' = up
<1>1. CASE ~up
  BY <1>1, DownSteps DEF CacheExpires, StrayFills, StrayDies, dayVars
<1> USE DEF dayVars
<1>2. Settle \/ Unsettle => up' = up
  BY DEF Settle, Unsettle, EntrySettled, ExitSettled, ExitSplits, SplitRecorded, NextLeg,
         NextLegRejected, PollRaises, EntryUnsettled, ExitUnsettled
<1>3. Flatten \/ FlattenFails => up' = up
  BY DEF Flatten, FlattenFails, FlattenExit, SafetyNet, CancelAll, TurnPasses,
         FlattenExitRejected, SafetyNetRaises, CancelAllRaises
<1>4. \A sl \in Sleeves : EodFlatten(sl) \/ Preopen(sl) => up' = up
  BY DEF EodFlatten, Preopen
<1>5. \A sym \in Symbols : StrayFills(sym) \/ StrayDies(sym) => up' = up
  BY DEF StrayFills, StrayDies
<1>6. FlattenAll \/ BrokerFills \/ BrokerEnds \/ CacheExpires \/ NewDay => up' = up
  BY DEF FlattenAll, BrokerFills, BrokerEnds, CacheExpires, NewDay
<1>7. \A sl \in Sleeves, sym \in Symbols : Exit(sl, sym) => up' = up
  BY DEF Exit
<1>8. \A sl \in Sleeves, sym \in Symbols : \A q \in Sizes : Enter(sl, sym, q) => up' = up
  BY DEF Enter
<1> QED BY <1>2, <1>3, <1>4, <1>5, <1>6, <1>7, <1>8 DEF Next

(* The flatten waits for no order while it cancels the broker's.           *)
LEMMA CancelStep ==
  ASSUME TypeOK, BackedInv, CancelIdle, Next
  PROVE  CancelIdle'
<1> USE DEF CancelIdle, storeVars, flatVars, dayVars, brokerVars
<1>1. CASE Settle \/ Unsettle
  <2>1. ~Idle /\ UNCHANGED <<queue, stage>>
    BY <1>1 DEF Settle, Unsettle, EntrySettled, ExitSettled, ExitSplits, SplitRecorded, NextLeg,
                NextLegRejected, PollRaises, EntryUnsettled, ExitUnsettled, Watching, Idle
  <2> QED BY <2>1
<1>2. CASE BrokerFills \/ BrokerEnds
  <2>1. ~Idle /\ UNCHANGED stage
    BY <1>2 DEF BrokerFills, BrokerEnds, Watching, Idle
  <2> QED BY <2>1
<1>3. CASE Flatten \/ FlattenFails
  <2>1. CASE \E s \in Symbols : FlattenExit(s) \/ FlattenExitRejected(s)
    BY <2>1 DEF FlattenExit, FlattenExitRejected
  <2>2. CASE SafetyNet \/ SafetyNetRaises
    BY <2>2 DEF SafetyNet, SafetyNetRaises, Flattening, Idle
  <2>3. CASE CancelAll \/ CancelAllRaises \/ TurnPasses
    BY <2>3 DEF CancelAll, CancelAllRaises, TurnPasses, TurnEnds
  <2> QED BY <1>3, <2>1, <2>2, <2>3 DEF Flatten, FlattenFails
<1>4. CASE (\E sl \in Sleeves : EodFlatten(sl)) \/ FlattenAll \/ Crash
  BY <1>4 DEF EodFlatten, FlattenAll, Begin, Crash
<1>5. CASE \/ (\E sl \in Sleeves : Preopen(sl)) \/ NewDay \/ Startup \/ CacheExpires
           \/ \E s \in Symbols : StrayFills(s) \/ StrayDies(s)
  BY <1>5 DEF Preopen, NewDay, Startup, CacheExpires, StrayFills, StrayDies, Flattening, Idle
<1>6. CASE \/ \E sl \in Sleeves, sym \in Symbols : \E q \in Sizes : Enter(sl, sym, q)
           \/ \E sl \in Sleeves, sym \in Symbols : Exit(sl, sym)
  BY <1>6 DEF Enter, Exit, Free
<1> QED BY <1>1, <1>2, <1>3, <1>4, <1>5, <1>6 DEF Next

LEMMA HeldInit == Init => HeldInv
BY DEF Init, HeldInv, CancelIdle, UpHeld, DownFresh, TwinsDiffer, StrayOnlyNet, Quiet

(* Every open trade of a running process is a position: a restart adopts   *)
(* at most one trade of each sleeve and symbol.                            *)
LEMMA UpHeldStep ==
  ASSUME RestartAlone, TypeOK, BackedInv, SharesInv, HeldInv, Next
  PROVE  UpHeld'
<1>1. CASE Crash
  BY <1>1 DEF Crash, UpHeld
<1>2. CASE Startup
  <2>1. CASE trades = {}
    <3>1. trades' = {}
      BY <1>2, <2>1 DEF Startup, ReconcilePass, ReconcileRaises
    <3> QED BY <3>1 DEF UpHeld, EachHeld
  <2>2. CASE trades # {}
    <3>1. "restart" \in faults /\ ~up
      BY <1>2, <2>2 DEF HeldInv, DownFresh, Startup
    <3>2. "positions" \notin FaultKinds
      BY <3>1 DEF RestartAlone, TypeOK
    <3>3. ReconcilePass
      BY <1>2, <3>2 DEF Startup, ReconcileRaises, Fault
    <3>4. ASSUME NEW t \in trades, NEW u \in trades, t \in Outcome(t.sym).adopt,
                 u \in Outcome(u.sym).adopt, t.sl = u.sl, t.sym = u.sym, t # u
          PROVE  FALSE
      <4>1. net[t.sym] # Quantity(TradesOf(t.sym))
        BY <3>1, <3>4 DEF HeldInv, TwinsDiffer, HeldNet
      <4>2. IsFiniteSet(TradesOf(t.sym)) /\ \A x \in TradesOf(t.sym) : x.id \in Nat
        BY TradesOfType, OutcomeOpen DEF SharesInv
      <4>3. t \in Adopted(TradesOf(t.sym), net[t.sym]) /\ u \in Adopted(TradesOf(t.sym), net[t.sym])
        BY <3>4 DEF Outcome, Decide
      <4> QED BY <3>4, <4>1, <4>2, <4>3, AdoptsOne
    <3> QED BY <3>3, <3>4, EachPass DEF UpHeld
  <2> QED BY <2>1, <2>2
<1>3. CASE ~Crash /\ ~Startup
  <2>1. up' = up
    BY <1>3, UpSteps
  <2> QED BY <1>3, <2>1, EachStep DEF UpHeld, HeldInv, SharesInv
<1> QED BY <1>1, <1>2, <1>3

(* Until the restart every order's outcome is known, and orders are left   *)
(* at the broker only by a safety net that then cancels them.              *)
LEMMA StrayStep ==
  ASSUME RestartAlone, TypeOK, BackedInv, SharesInv, HeldInv, Next
  PROVE  StrayOnlyNet'
<1> USE DEF storeVars, flatVars, dayVars, brokerVars
<1> SUFFICES ASSUME "restart" \in FaultKinds, "restart" \notin faults'
             PROVE  "slow" \notin faults' /\ (stage' = "exits" => Quiet')
  BY DEF StrayOnlyNet
<1>1. FaultKinds \subseteq {"restart", "slow", "submit"} /\ "restart" \notin faults
  BY FaultsGrow DEF RestartAlone
<1>2. "slow" \notin faults /\ (stage = "exits" => Quiet)
  BY <1>1 DEF HeldInv, StrayOnlyNet
<1>3. Known
  BY <1>1, <1>2 DEF Known, TypeOK
<1>4. ASSUME UNCHANGED <<stray, faults>>, stage = "exits" \/ stage' = stage
      PROVE  "slow" \notin faults' /\ (stage' = "exits" => Quiet')
  BY <1>2, <1>4 DEF Quiet
<1>5. ~Flattening => stage = "exits"
  BY DEF HeldInv, CancelIdle, TypeOK
<1>6. CASE Settle \/ Unsettle
  <2>1. UNCHANGED <<stray, faults, stage>>
    BY <1>1, <1>6 DEF Settle, Unsettle, EntrySettled, ExitSettled, ExitSplits, SplitRecorded, NextLeg,
                      NextLegRejected, PollRaises, EntryUnsettled, ExitUnsettled, Fault
  <2> QED BY <1>4, <2>1
<1>7. CASE Flatten \/ FlattenFails
  <2>1. CASE \E s \in Symbols : FlattenExit(s) \/ FlattenExitRejected(s)
    BY <1>2, <2>1 DEF FlattenExit, FlattenExitRejected, Fault, Quiet
  <2>2. CASE SafetyNet
    BY <1>2, <2>2 DEF SafetyNet, AskPositions, Fault
  <2>3. CASE SafetyNetRaises \/ CancelAllRaises
    BY <1>1, <2>3 DEF SafetyNetRaises, CancelAllRaises, Fault
  <2>4. CASE CancelAll
    BY <1>2, <2>4 DEF CancelAll, Fault, Quiet
  <2>5. CASE TurnPasses
    BY <1>4, <2>5 DEF TurnPasses
  <2> QED BY <1>7, <2>1, <2>2, <2>3, <2>4, <2>5 DEF Flatten, FlattenFails
<1>8. ASSUME ReconcilePass \/ ReconcileRaises, Idle, stage = "exits"
      PROVE  "slow" \notin faults' /\ (stage' = "exits" => Quiet')
  <2>1. ReconcilePass /\ Quiet
    BY <1>1, <1>2, <1>8 DEF ReconcileRaises, Fault
  <2>2. \A sym \in Symbols : stray'[sym] = NoOrders
    BY <1>3, <1>8, <2>1, PassKeeps
  <2> QED BY <1>2, <2>1, <2>2 DEF ReconcilePass, AskPositions, Quiet
<1>9. CASE Startup
  <2>1. Idle /\ ~Flattening
    BY <1>9 DEF BackedInv, DownIdle, Startup
  <2> QED BY <1>5, <1>8, <1>9, <2>1 DEF Startup
<1>10. ASSUME NEW sl \in Sleeves, Preopen(sl)
       PROVE  "slow" \notin faults' /\ (stage' = "exits" => Quiet')
  BY <1>4, <1>5, <1>8, <1>10 DEF Preopen, Free
<1>11. CASE (\E sl \in Sleeves : EodFlatten(sl)) \/ FlattenAll
  BY <1>4, <1>5, <1>11 DEF EodFlatten, FlattenAll, Free
<1>12. CASE BrokerFills \/ BrokerEnds \/ CacheExpires \/ NewDay
  BY <1>4, <1>12 DEF BrokerFills, BrokerEnds, CacheExpires, NewDay
<1>13. CASE \E s \in Symbols : StrayFills(s) \/ StrayDies(s)
  <2>1. PICK s \in Symbols : StrayFills(s)
    BY <1>1, <1>13 DEF StrayDies, Fault
  <2>2. stray[s] # NoOrders
    BY <2>1 DEF StrayFills, NoOrders
  <2> QED BY <1>2, <2>1, <2>2 DEF StrayFills, Quiet
<1>14. CASE Crash
  BY <1>14 DEF Crash, Fault
<1>15. CASE \/ \E sl \in Sleeves, sym \in Symbols : \E q \in Sizes : Enter(sl, sym, q)
            \/ \E sl \in Sleeves, sym \in Symbols : Exit(sl, sym)
  BY <1>4, <1>15 DEF Enter, Exit
<1> QED BY <1>6, <1>7, <1>9, <1>10, <1>11, <1>12, <1>13, <1>14, <1>15 DEF Next

(* A process that stops in the middle of recording a split leaves two open *)
(* trades and a broker that holds the filled part less.                    *)
LEMMA TwinsAtCrash ==
  ASSUME RestartAlone, TypeOK, BackedInv, SharesInv, HeldInv, Crash
  PROVE  TwinsDiffer'
<1> USE DEF storeVars, flatVars, dayVars, brokerVars
<1>1. "restart" \in FaultKinds /\ "restart" \notin faults /\ up
  BY DEF Crash, Fault
<1>2. Known /\ (stage = "exits" => Quiet)
  BY <1>1 DEF HeldInv, StrayOnlyNet, RestartAlone, TypeOK, Known
<1>3. EachHeld /\ Balanced /\ SplitRows
  BY <1>1, <1>2 DEF HeldInv, UpHeld, SharesInv
<1> SUFFICES ASSUME NEW t \in trades, NEW u \in trades, t.sl = u.sl, t.sym = u.sym, t # u
             PROVE  stray'[t.sym] = NoOrders /\ net[t.sym] # HeldNet(t.sym)
  BY DEF Crash, TwinsDiffer, HeldNet, TradesOf
<1>4. job.op = "split"
  BY <1>3, EachAlone
<1>5. Quiet
  BY <1>2, <1>4 DEF HeldInv, CancelIdle, Idle, TypeOK
<1>6. t.sym = job.sym /\ t.sym \in Symbols
  <2>1. Splitting(t) \/ Splitting(u)
    BY <1>3, AsPositionIs DEF EachHeld, BackedInv, RowsUnique
  <2> QED BY <2>1 DEF Splitting, ClosedPart, RestPart, TypeOK, Trades
<1>7. stray'[t.sym] = NoOrders
  BY <1>4, <1>5, <1>6 DEF Crash, Watching, Quiet, TypeOK
<1>8. Fill # 0
  <2>1. ClosedPart \in Trades /\ ClosedPart.q = -Fill
    BY <1>3, <1>4 DEF SplitRows, TypeOK, ClosedPart
  <2> QED BY <2>1 DEF Trades
<1>9. net[t.sym] + Unfilled(stray[t.sym]) = HeldNet(t.sym) + Fill
  BY <1>3, <1>4, <1>6 DEF Balanced, InFlight, Idle, Fill
<1>10. Unfilled(stray[t.sym]) = 0
  BY <1>5, <1>6, PlaceNothing DEF Quiet
<1>11. net[t.sym] # HeldNet(t.sym)
  BY <1>6, <1>8, <1>9, <1>10, HeldInt, JobFacts
<1> QED BY <1>7, <1>11

LEMMA DownStep ==
  ASSUME RestartAlone, TypeOK, BackedInv, SharesInv, HeldInv, Next
  PROVE  DownFresh' /\ TwinsDiffer'
<1> USE DEF storeVars, flatVars, dayVars, brokerVars
<1>1. CASE Crash
  BY <1>1, TwinsAtCrash DEF Crash, Fault, DownFresh
<1>2. CASE Startup
  BY <1>2 DEF Startup, DownFresh, TwinsDiffer
<1>3. CASE up /\ ~Crash /\ ~Startup
  BY <1>3, UpSteps DEF DownFresh, TwinsDiffer
<1>4. CASE ~up /\ ~Startup
  <2>1. CacheExpires \/ \E s \in Symbols : StrayFills(s) \/ StrayDies(s)
    BY <1>4, DownSteps
  <2>2. UNCHANGED <<ready, trades, up>> /\ faults \subseteq faults'
    BY <2>1, FaultsGrow DEF CacheExpires, StrayFills, StrayDies
  <2>3. \A sym \in Symbols : stray[sym] = NoOrders => stray'[sym] = NoOrders /\ net'[sym] = net[sym]
    BY <2>1 DEF CacheExpires, StrayFills, StrayDies, NoOrders, TypeOK
  <2>4. \A t \in trades : t.sym \in Symbols
    BY DEF TypeOK, Trades
  <2> QED BY <1>4, <2>2, <2>3, <2>4, HeldSame DEF HeldInv, DownFresh, TwinsDiffer
<1> QED BY <1>1, <1>2, <1>3, <1>4

LEMMA HeldStutter ==
  ASSUME HeldInv, UNCHANGED vars
  PROVE  HeldInv'
<1>1. UNCHANGED <<net, stray, trades, nextId, positions, job, queue, todo, stage, flattened,
                  ready, late, cache, up, faults>>
  BY DEF vars, brokerVars, storeVars, flatVars, dayVars
<1>2. EachHeld' = EachHeld /\ (\A sym : HeldNet(sym)' = HeldNet(sym)) /\ Quiet' = Quiet
  BY <1>1 DEF EachHeld, Splitting, ClosedPart, RestPart, AsPosition, Position, Fill, HeldNet,
              TradesOf, Quiet
<1> QED BY <1>1, <1>2 DEF HeldInv, CancelIdle, UpHeld, DownFresh, TwinsDiffer, StrayOnlyNet,
                          Flattening, Idle

LEMMA HeldAlways ==
  ASSUME RestartAlone
  PROVE  Spec => [](TypeOK /\ BackedInv /\ SharesInv /\ HeldInv)
<1>1. Init => TypeOK /\ BackedInv /\ SharesInv /\ HeldInv
  BY TypeInit, BackedInit, SharesInit, HeldInit
<1>2. TypeOK /\ BackedInv /\ SharesInv /\ [Next]_vars => TypeOK' /\ BackedInv' /\ SharesInv'
  BY TypeStep, BackedStep, Stutter, SharesStep
<1>3. TypeOK /\ BackedInv /\ SharesInv /\ HeldInv /\ [Next]_vars => HeldInv'
  BY HeldStutter, CancelStep, UpHeldStep, DownStep, StrayStep DEF HeldInv
<1> QED
  BY <1>1, <1>2, <1>3, PTL DEF Spec

(* OneTradeEach: a process that is never restarted, whatever else fails,   *)
(* or one restarted with nothing else going wrong but refused and slow     *)
(* orders, never runs with two open trades of one sleeve and symbol.       *)
THEOREM OneTradeEach ==
  ASSUME RestartAlone
  PROVE  Spec => []OneOpenTrade
<1>1. TypeOK /\ BackedInv /\ SharesInv /\ HeldInv => OneOpenTrade
  BY EachAlone DEF HeldInv, UpHeld, OneOpenTrade
<1> QED
  BY <1>1, HeldAlways, PTL

(* NothingIsForgotten: in the same circumstances, once a sleeve has opened *)
(* its day, each of its open trades is the position its exit rules look at. *)
THEOREM NothingIsForgotten ==
  ASSUME RestartAlone
  PROVE  Spec => []NothingForgotten
<1>1. TypeOK /\ BackedInv /\ SharesInv /\ HeldInv => NothingForgotten
  BY EachIs DEF HeldInv, UpHeld, DownFresh, NothingForgotten
<1> QED
  BY <1>1, HeldAlways, PTL
==============================================================================
