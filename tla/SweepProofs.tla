---------------------------- MODULE SweepProofs ----------------------------
(* What holds of the sweep for every grid, form and verdict.               *)
EXTENDS Sweep, SequenceTheorems, FiniteSetTheorems, NaturalsInduction, WellFoundedInduction, TLAPS

(* Every non-empty set of naturals has a least member.                     *)
LEMMA Least ==
  ASSUME NEW T \in SUBSET Nat, T # {}
  PROVE  \E x \in T : \A y \in T : x <= y
<1>1. PICK x \in T : \A y \in T : ~ (<<y, x>> \in OpToRel(<, Nat))
  BY NatLessThanWellFounded, WFMin
<1>2. \A y \in T : ~(y < x)
  BY <1>1 DEF OpToRel
<1> QED BY <1>2

(* nearest_index() returns an index of the grid, for every value.          *)
LEMMA NearestIsIndex ==
  ASSUME NEW k \in Keys, NEW x \in Int
  PROVE  /\ NearestIndex(k, x) \in DOMAIN Grid[k]
         /\ \A j \in DOMAIN Grid[k] : Distance(k, NearestIndex(k, x), x) <= Distance(k, j, x)
<1> DEFINE D == DOMAIN Grid[k]
           ds == {Distance(k, i, x) : i \in D}
<1>1. Grid[k] \in Seq(Int) /\ Grid[k] # <<>>
  BY GridAssumption
<1>2. D \in SUBSET Nat /\ D # {} /\ \A i \in D : Grid[k][i] \in Int
  <2>1. D = 1..Len(Grid[k]) /\ Len(Grid[k]) \in Nat /\ Len(Grid[k]) # 0
    BY <1>1
  <2>2. 1 \in D
    BY <2>1
  <2> QED BY <1>1, <2>1, <2>2
<1>3. \A i \in D : Distance(k, i, x) \in Nat
  BY <1>2 DEF Distance
<1>4. ds \in SUBSET Nat /\ ds # {}
  BY <1>2, <1>3
<1>5. PICK d \in ds : \A e \in ds : d <= e
  BY <1>4, Least
<1> DEFINE is == {i \in D : Distance(k, i, x) = d}
<1>6. is \in SUBSET Nat /\ is # {}
  BY <1>2, <1>5
<1>7. PICK i \in is : \A j \in is : i <= j
  <2> HIDE DEF is
  <2> QED BY <1>6, Least
<1>8. \A j \in D : Distance(k, i, x) <= Distance(k, j, x)
  BY <1>5, <1>7
<1>9. \A j \in D : Distance(k, j, x) = Distance(k, i, x) => i <= j
  BY <1>7
<1>10. \E n \in D : \A j \in D : /\ Distance(k, n, x) <= Distance(k, j, x)
                                 /\ Distance(k, j, x) = Distance(k, n, x) => n <= j
  BY <1>7, <1>8, <1>9
<1> HIDE DEF D
<1>11. NearestIndex(k, x) \in D /\ \A j \in D : Distance(k, NearestIndex(k, x), x) <= Distance(k, j, x)
  BY <1>10 DEF NearestIndex, D
<1> QED BY <1>11 DEF D

(* The index nearest to a value of the grid is that value's own.           *)
LEMMA NearestOfGrid ==
  ASSUME NEW k \in Keys, NEW i \in DOMAIN Grid[k]
  PROVE  NearestIndex(k, Grid[k][i]) = i
<1> DEFINE x == Grid[k][i]
           n == NearestIndex(k, x)
<1>1. /\ Grid[k] \in Seq(Int)
      /\ \A a, b \in DOMAIN Grid[k] : a < b => Grid[k][a] < Grid[k][b]
  BY GridAssumption
<1>2. x \in Int
  BY <1>1
<1>3. n \in DOMAIN Grid[k] /\ Distance(k, n, x) <= Distance(k, i, x)
  BY <1>2, NearestIsIndex
<1>4. Distance(k, i, x) = 0
  BY <1>2 DEF Distance
<1>5. Grid[k][n] = x
  BY <1>1, <1>2, <1>3, <1>4 DEF Distance
<1>6. n \in Nat /\ i \in Nat
  BY <1>1, <1>3
<1> HIDE DEF n
<1>7. ~(n < i) /\ ~(i < n)
  BY <1>1, <1>2, <1>3, <1>5
<1>8. n = i
  BY <1>6, <1>7
<1> QED BY <1>8 DEF n

(* The step of one parameter: by one index at most, toward the best value. *)
LEMMA StepOfNear ==
  ASSUME NEW current \in [Keys -> Int], NEW best \in [Keys -> Int], NEW k \in Keys
  PROVE  LET c == NearestIndex(k, current[k])
             b == NearestIndex(k, best[k])
             s == NearestIndex(k, StepOf(k, current, best))
         IN  /\ StepOf(k, current, best) \in Int
             /\ s - c \in {-1, 0, 1}
             /\ c <= b => c <= s /\ s <= b
             /\ b <= c => b <= s /\ s <= c
             /\ b # c  => s # c
<1> DEFINE c == NearestIndex(k, current[k])
           b == NearestIndex(k, best[k])
           t == Toward(c, b)
<1>1. current[k] \in Int /\ best[k] \in Int
  OBVIOUS
<1>2. c \in DOMAIN Grid[k] /\ b \in DOMAIN Grid[k]
  BY <1>1, NearestIsIndex
<1>3. /\ DOMAIN Grid[k] = 1..Len(Grid[k]) /\ Len(Grid[k]) \in Nat
      /\ \A i \in DOMAIN Grid[k] : Grid[k][i] \in Int
  BY GridAssumption
<1> HIDE DEF c, b
<1>4. t \in DOMAIN Grid[k]
  BY <1>2, <1>3 DEF Toward
<1>5. StepOf(k, current, best) = Grid[k][t]
  BY DEF StepOf, c, b
<1>6. NearestIndex(k, StepOf(k, current, best)) = t
  BY <1>4, <1>5, NearestOfGrid
<1>7. /\ t - c \in {-1, 0, 1}
      /\ c <= b => c <= t /\ t <= b
      /\ b <= c => b <= t /\ t <= c
      /\ b # c  => t # c
  BY <1>2, <1>3 DEF Toward
<1>8. StepOf(k, current, best) \in Int
  BY <1>3, <1>4, <1>5
<1> HIDE DEF t
<1> QED BY <1>6, <1>7, <1>8 DEF c, b

(* StepNear (PHASE0_SPEC section 10.4): from any values, on the grid or    *)
(* off it, the step toward any combination moves each parameter by at most *)
(* one grid index, and never away from the combination or past it.         *)
THEOREM StepNear ==
  ASSUME NEW current \in [Keys -> Int], NEW best \in [Keys -> Int]
  PROVE  /\ Near(Stepped(current, best), current)
         /\ \A k \in Keys :
              LET c == NearestIndex(k, current[k])
                  b == NearestIndex(k, best[k])
                  s == NearestIndex(k, Stepped(current, best)[k])
              IN  /\ c <= b => c <= s /\ s <= b
                  /\ b <= c => b <= s /\ s <= c
                  /\ b # c  => s # c
<1>1. \A k \in Keys : Stepped(current, best)[k] = StepOf(k, current, best)
  BY DEF Stepped
<1> QED BY <1>1, StepOfNear DEF Near

-----------------------------------------------------------------------------
(* one_step() when the whole step does not fit: one parameter at a time.   *)
(* The fold over the parameters is a function on the sets of their places, *)
(* each set walked from its last place.                                    *)
Walks(g, current, best, S) ==
  g = [s \in SUBSET S |->
         IF s = {} THEN current
         ELSE Tried(g[s \ {Max(s)}], Order[Max(s)], StepOf(Order[Max(s)], current, best))]

LEMMA KeyByKeyWalks ==
  ASSUME NEW current, NEW best
  PROVE  KeyByKey(current, best) =
           (CHOOSE g : Walks(g, current, best, DOMAIN Order))[DOMAIN Order]
  BY DEF KeyByKey, FoldLeft, MapThenFoldSet, Walks

LEMMA WalksAt ==
  ASSUME NEW S, NEW current, NEW best, NEW g, Walks(g, current, best, S), NEW s \in SUBSET S
  PROVE  g[s] = IF s = {} THEN current
                ELSE Tried(g[s \ {Max(s)}], Order[Max(s)], StepOf(Order[Max(s)], current, best))
  BY DEF Walks

LEMMA Places == DOMAIN Order = 1..Len(Order) /\ Len(Order) \in Nat /\ \A i \in DOMAIN Order : Order[i] \in Keys
  BY GridAssumption

LEMMA PlacesFinite == ASSUME NEW s \in SUBSET DOMAIN Order PROVE IsFiniteSet(s)
<1>1. IsFiniteSet(DOMAIN Order)
  BY Places, FS_Interval
<1> QED BY <1>1, FS_Subset

(* The last of some places is one of them.                                 *)
LEMMA MaxIn ==
  ASSUME NEW s \in SUBSET DOMAIN Order, s # {}
  PROVE  Max(s) \in s
<1> DEFINE n == Len(Order)
           T == {n - x : x \in s}
<1>0. n \in Nat /\ \A x \in s : x \in 1..n
  BY Places
<1> HIDE DEF n
<1>1. T \in SUBSET Nat /\ T # {}
  <2>2. \A x \in s : n - x \in Nat
    BY <1>0
  <2> QED BY <2>2
<1>2. PICK d \in T : \A e \in T : d <= e
  <2> HIDE DEF T
  <2> QED BY <1>1, Least
<1>3. PICK x \in s : d = n - x
  BY <1>2
<1>4. \A y \in s : n - x <= n - y
  BY <1>2, <1>3
<1>5. \A y \in s : x >= y
  BY <1>0, <1>4
<1> QED BY <1>5 DEF Max

(* Induction over the subsets of a finite set, with a set for the          *)
(* predicate.                                                              *)
LEMMA SubsetInduction ==
  ASSUME NEW S, IsFiniteSet(S), NEW Q,
         \A s \in SUBSET S : (\A t \in SUBSET s : t # s => t \in Q) => s \in Q
  PROVE  \A s \in SUBSET S : s \in Q
<1> DEFINE Bad == {s \in SUBSET S : s \notin Q}
<1> SUFFICES ASSUME Bad # {} PROVE FALSE
  OBVIOUS
<1>1. Bad \subseteq FiniteSubsetsOf(S)
  BY FS_Subset DEF FiniteSubsetsOf
<1>2. PICK x \in Bad : \A y \in Bad : ~ (<<y, x>> \in StrictSubsetOrdering(S))
  <2> HIDE DEF Bad
  <2> QED BY <1>1, FS_StrictSubsetOrderingWellFounded, WFMin
<1>3. \A t \in SUBSET x : t # x => t \in Q
  BY <1>2 DEF StrictSubsetOrdering
<1> QED BY <1>2, <1>3

(* Two such functions agree on what both are defined on.                   *)
LEMMA WalksOnce ==
  ASSUME NEW S \in SUBSET DOMAIN Order, NEW T, S \subseteq T,
         NEW current, NEW best,
         NEW g, Walks(g, current, best, S), NEW h, Walks(h, current, best, T)
  PROVE  \A s \in SUBSET S : g[s] = h[s]
<1> DEFINE Q == {s \in SUBSET S : g[s] = h[s]}
<1>1. ASSUME NEW s \in SUBSET S, \A t \in SUBSET s : t # s => t \in Q
      PROVE  g[s] = h[s]
  <2>0. s \in SUBSET S /\ s \in SUBSET T /\ s \in SUBSET DOMAIN Order
    OBVIOUS
  <2>1. g[s] = IF s = {} THEN current ELSE Tried(g[s \ {Max(s)}], Order[Max(s)], StepOf(Order[Max(s)], current, best))
    <3> HIDE DEF Q
    <3> QED BY <2>0 DEF Walks
  <2>2. h[s] = IF s = {} THEN current ELSE Tried(h[s \ {Max(s)}], Order[Max(s)], StepOf(Order[Max(s)], current, best))
    <3> HIDE DEF Q
    <3> QED BY <2>0 DEF Walks
  <2>3. s # {} => Max(s) \in s
    BY MaxIn
  <2>4. s # {} => g[s \ {Max(s)}] = h[s \ {Max(s)}]
    BY <1>1, <2>3
  <2> QED BY <2>1, <2>2, <2>4
<1>2. \A s \in SUBSET S : s \in Q
  <2>1. \A s \in SUBSET S : (\A t \in SUBSET s : t # s => t \in Q) => s \in Q
    BY <1>1
  <2>2. IsFiniteSet(S)
    BY PlacesFinite
  <2> HIDE DEF Q
  <2> QED BY <2>1, <2>2, SubsetInduction
<1> QED BY <1>2

LEMMA WalksSubset ==
  ASSUME NEW S \in SUBSET DOMAIN Order, NEW current, NEW best,
         \A t \in SUBSET S : t # S => \E g : Walks(g, current, best, t)
  PROVE  \E g : Walks(g, current, best, S)
<1> DEFINE end(t) == (CHOOSE g : Walks(g, current, best, t))[t]
           val(t) == IF t = {} THEN current
                     ELSE Tried(end(t \ {Max(t)}), Order[Max(t)], StepOf(Order[Max(t)], current, best))
           h == [t \in SUBSET S |-> val(t)]
<1>1. ASSUME NEW t \in SUBSET S, t # S PROVE end(t) = val(t)
  <2> DEFINE g == CHOOSE g : Walks(g, current, best, t)
  <2>1. Walks(g, current, best, t)
    BY <1>1
  <2>2. CASE t = {}
    BY <2>1, <2>2, WalksAt
  <2>3. CASE t # {}
    <3> DEFINE r == t \ {Max(t)}
               k == CHOOSE k : Walks(k, current, best, r)
    <3>1. Max(t) \in t /\ r \in SUBSET S /\ r # S /\ r \subseteq t
      BY <2>3, MaxIn
    <3>2. Walks(k, current, best, r)
      BY <3>1
    <3>3. r \in SUBSET DOMAIN Order
      BY <3>1
    <3>4. k[r] = g[r]
      <4> HIDE DEF g, k, r
      <4>1. \A s \in SUBSET r : k[s] = g[s]
        BY <2>1, <3>1, <3>2, <3>3, WalksOnce
      <4> QED BY <4>1
    <3>5. g[t] = Tried(g[r], Order[Max(t)], StepOf(Order[Max(t)], current, best))
      <4> HIDE DEF g
      <4> QED BY <2>1, <2>3, WalksAt
    <3> QED BY <2>3, <3>4, <3>5
  <2> QED BY <2>2, <2>3
<1>2. Walks(h, current, best, S)
  <2>1. ASSUME NEW t \in SUBSET S, t # {} PROVE h[t \ {Max(t)}] = end(t \ {Max(t)})
    <3>1. Max(t) \in t
      BY <2>1, MaxIn
    <3>2. t \ {Max(t)} \in SUBSET S /\ t \ {Max(t)} # S
      BY <3>1
    <3> HIDE DEF end, val
    <3> QED BY <1>1, <3>2
  <2>2. \A t \in SUBSET S :
          val(t) = IF t = {} THEN current
                   ELSE Tried(h[t \ {Max(t)}], Order[Max(t)], StepOf(Order[Max(t)], current, best))
    <3> HIDE DEF end, h
    <3> QED BY <2>1
  <2> HIDE DEF end, val
  <2> QED BY <2>2 DEF Walks
<1> QED BY <1>2

LEMMA WalksExists ==
  ASSUME NEW current, NEW best
  PROVE  \E g : Walks(g, current, best, DOMAIN Order)
<1> DEFINE S == DOMAIN Order
           Q == {s \in SUBSET S : \E g : Walks(g, current, best, s)}
<1>1. ASSUME NEW s \in SUBSET S, \A t \in SUBSET s : t # s => t \in Q
      PROVE  \E g : Walks(g, current, best, s)
  <2>1. \A t \in SUBSET s : t # s => \E g : Walks(g, current, best, t)
    BY <1>1
  <2> QED BY <2>1, WalksSubset
<1>2. \A s \in SUBSET S : s \in Q
  <2>1. \A s \in SUBSET S : (\A t \in SUBSET s : t # s => t \in Q) => s \in Q
    BY <1>1
  <2>2. IsFiniteSet(S)
    BY PlacesFinite
  <2> HIDE DEF Q, S
  <2> QED BY <2>1, <2>2, SubsetInduction
<1> QED BY <1>2

(* What comes of it fits, and each parameter stays or takes its step.      *)
LEMMA KeyByKeyFits ==
  ASSUME NEW current \in Fitting, NEW best
  PROVE  /\ KeyByKey(current, best) \in Fitting
         /\ \A k \in Keys : KeyByKey(current, best)[k] \in {current[k], StepOf(k, current, best)}
<1> DEFINE S == DOMAIN Order
           g == CHOOSE g : Walks(g, current, best, S)
           Fits(p) == /\ p \in Fitting
                      /\ \A k \in Keys : p[k] \in {current[k], StepOf(k, current, best)}
           Q == {s \in SUBSET S : Fits(g[s])}
<1>1. S = 1..Len(Order) /\ Len(Order) \in Nat /\ \A i \in S : Order[i] \in Keys
  BY Places
<1>2. Walks(g, current, best, S)
  BY WalksExists
<1>3. ASSUME NEW s \in SUBSET S, \A t \in SUBSET s : t # s => t \in Q
      PROVE  Fits(g[s])
  <2> DEFINE m == Max(s)
             q == g[s \ {m}]
             x == StepOf(Order[m], current, best)
  <2>1. g[s] = IF s = {} THEN current ELSE Tried(q, Order[m], x)
    <3> HIDE DEF g
    <3> QED BY <1>2, WalksAt
  <2>2. CASE s = {}
    BY <2>1, <2>2
  <2>3. CASE s # {}
    <3>1. m \in s
      BY <2>3, MaxIn
    <3>2. Fits(q)
      BY <1>3, <3>1
    <3>3. q \in [Keys -> Int] /\ Order[m] \in Keys
      BY <1>1, <3>1, <3>2, GridAssumption
    <3>4. g[s] = IF [q EXCEPT ![Order[m]] = x] \in Fitting THEN [q EXCEPT ![Order[m]] = x] ELSE q
      BY <2>1, <2>3 DEF Tried
    <3> HIDE DEF g, q, m
    <3> QED BY <3>2, <3>3, <3>4
  <2> QED BY <2>2, <2>3
<1>4. \A s \in SUBSET S : s \in Q
  <2>1. \A s \in SUBSET S : (\A t \in SUBSET s : t # s => t \in Q) => s \in Q
    BY <1>3
  <2>2. IsFiniteSet(S)
    BY PlacesFinite
  <2> HIDE DEF Q, S
  <2> QED BY <2>1, <2>2, SubsetInduction
<1>5. Fits(g[S])
  BY <1>4
<1> QED BY <1>5, KeyByKeyWalks

(* OneStepFits (sweep.py one_step): from values that keep the strategy's   *)
(* constraint one step leads to values that keep it, each parameter at     *)
(* most one grid index away.                                               *)
THEOREM OneStepFits ==
  ASSUME NEW current \in Fitting, NEW best \in [Keys -> Int]
  PROVE  OneStep(current, best) \in Fitting /\ Near(OneStep(current, best), current)
<1> DEFINE p == OneStep(current, best)
<1>1. current \in [Keys -> Int]
  BY GridAssumption
<1>2. p \in Fitting /\ \A k \in Keys : p[k] \in {current[k], StepOf(k, current, best)}
  BY KeyByKeyFits DEF OneStep, Stepped
<1> HIDE DEF p
<1>3. ASSUME NEW k \in Keys
      PROVE  NearestIndex(k, p[k]) - NearestIndex(k, current[k]) \in {-1, 0, 1}
  <2>1. CASE p[k] = current[k]
    <3>1. NearestIndex(k, current[k]) \in DOMAIN Grid[k] /\ DOMAIN Grid[k] \subseteq Int
      BY <1>1, NearestIsIndex, GridAssumption
    <3> QED BY <2>1, <3>1
  <2>2. CASE p[k] = StepOf(k, current, best)
    BY <1>1, <2>2, StepOfNear
  <2> QED BY <1>2, <2>1, <2>2
<1>4. Near(p, current)
  BY <1>3 DEF Near
<1> QED BY <1>2, <1>4 DEF p

-----------------------------------------------------------------------------
(* While no sweep by hand is past its check, a sweep of the engine is      *)
(* under way only if today has no sweep row yet.                           *)
SweptInv ==
  hand \in {"none", "check"} =>
    /\ swept \in {0, 1}
    /\ engine \in {"eval", "write", "row"} => swept = 0

(* SweptOnce, for every grid and any number of crashes, failures and       *)
(* edits: as long as no sweep by hand is past its check, no date has two   *)
(* sweep rows.                                                             *)
THEOREM SweptOnceAlone == Spec => []SweptOnce
<1>1. Init => SweptInv
  BY DEF Init, SweptInv
<1>2. SweptInv /\ [Next]_vars => SweptInv'
  <2> SUFFICES ASSUME SweptInv, [Next]_vars PROVE SweptInv'
    OBVIOUS
  <2> USE DEF SweptInv
  <2>1. CASE Startup
    BY <2>1 DEF Startup, handVars
  <2>2. CASE RunCycle
    BY <2>2 DEF RunCycle, handVars
  <2>3. CASE SweepDue
    BY <2>3 DEF SweepDue, handVars, storeVars, NotSwept
  <2>4. CASE Evaluate
    BY <2>4 DEF Evaluate, handVars, storeVars
  <2>5. CASE WriteParams
    BY <2>5 DEF WriteParams, handVars
  <2>6. CASE WriteHistory
    BY <2>6 DEF WriteHistory, handVars
  <2>7. CASE SweepFails
    BY <2>7 DEF SweepFails, handVars, storeVars
  <2>8. CASE Crash
    BY <2>8 DEF Crash, handVars, storeVars
  <2>9. CASE Evening
    BY <2>9 DEF Evening, handVars, engineVars
  <2>10. CASE NewDay
    BY <2>10 DEF NewDay
  <2>11. CASE Hand
    BY <2>11 DEF Hand, HandStarts, HandEvaluates, HandWritesParams, HandWritesHistory,
      storeVars, engineVars
  <2>12. CASE ReadForm
    BY <2>12 DEF ReadForm, handVars, storeVars, engineVars
  <2>13. CASE SaveForm
    BY <2>13 DEF SaveForm, handVars, engineVars
  <2>14. CASE UNCHANGED vars
    BY <2>14 DEF vars, storeVars, engineVars, handVars
  <2> QED
    BY <2>1, <2>2, <2>3, <2>4, <2>5, <2>6, <2>7, <2>8, <2>9, <2>10, <2>11, <2>12, <2>13, <2>14
    DEF Next, Engine
<1>3. SweptInv => SweptOnce
  BY DEF SweptInv, SweptOnce
<1> QED BY <1>1, <1>2, <1>3, PTL DEF Spec
-----------------------------------------------------------------------------
LEMMA NearItself == ASSUME NEW p \in Fitting PROVE Near(p, p)
<1>1. ASSUME NEW k \in Keys PROVE NearestIndex(k, p[k]) - NearestIndex(k, p[k]) \in {-1, 0, 1}
  <2>1. p[k] \in Int
    BY GridAssumption
  <2>2. NearestIndex(k, p[k]) \in DOMAIN Grid[k]
    BY <2>1, NearestIsIndex
  <2>3. DOMAIN Grid[k] = 1..Len(Grid[k]) /\ Len(Grid[k]) \in Nat
    BY GridAssumption
  <2>4. NearestIndex(k, p[k]) \in Int
    BY <2>2, <2>3
  <2> QED BY <2>4
<1> QED BY <1>1 DEF Near

(* What a replay chooses, from parameters that fit, fits.                  *)
LEMMA ChosenFits ==
  ASSUME NEW current \in Fitting, NEW v \in Verdicts
  PROVE  Chosen(current, v) \in Fitting /\ Near(Chosen(current, v), current)
<1>1. CASE v = NoRow
  BY <1>1, NearItself DEF Chosen
<1>2. CASE v # NoRow
  <2>1. v \in [Keys -> Int]
    BY <1>2, VerdictAssumption, GridAssumption DEF Combos
  <2> QED BY <1>2, <2>1, OneStepFits DEF Chosen
<1> QED BY <1>1, <1>2

SweepInv == TypeOK /\ Bounded /\ InMemory /\ AsLoaded

LEMMA SweepInvInit == Init => SweepInv
<1>1. 0 \in 0..MaxEdits /\ 0 \in 0..MaxCrashes /\ 0 \in 0..MaxFailures
  BY BoundsAssumption
<1>2. NoRow \in Rows
  BY DEF Rows
<1>3. ASSUME Init PROVE TypeOK
  BY <1>1, <1>2, <1>3 DEF Init, TypeOK
<1>4. ASSUME Init PROVE Bounded /\ InMemory /\ AsLoaded
  BY <1>4 DEF Init, Bounded, InMemory, AsLoaded
<1> QED BY <1>3, <1>4 DEF SweepInv

LEMMA LoadFits ==
  ASSUME TypeOK, Load
  PROVE  params' \in Fitting /\ loaded' = params' /\ unseen' = FALSE
  BY GridAssumption DEF TypeOK, Load, Rows

(* A form saved fits, whatever row it was filled in from.                  *)
LEMMA SweepInvStep ==
  ASSUME SweepInv, [Next]_vars
  PROVE  SweepInv'
<1> USE DEF SweepInv, Bounded, InMemory, AsLoaded
<1>0. TypeOK
  OBVIOUS
<1>1. CASE Startup
  BY <1>0, <1>1, LoadFits, BoundsAssumption DEF Startup, TypeOK, Rows, engineVars, handVars, countVars
<1>2. CASE RunCycle
  BY <1>0, <1>2, LoadFits, BoundsAssumption DEF RunCycle, TypeOK, Rows, handVars, countVars
<1>3. CASE SweepDue
  BY <1>0, <1>3, BoundsAssumption DEF SweepDue, TypeOK, Rows, storeVars, handVars, countVars
<1>4. CASE Evaluate
  BY <1>0, <1>4, ChosenFits, BoundsAssumption DEF Evaluate, TypeOK, Rows, storeVars, handVars, countVars
<1>5. CASE WriteParams
  BY <1>0, <1>5, BoundsAssumption DEF WriteParams, TypeOK, Rows, handVars, countVars
<1>6. CASE WriteHistory
  BY <1>0, <1>6, BoundsAssumption DEF WriteHistory, TypeOK, Rows, handVars, countVars
<1>7. CASE SweepFails
  BY <1>0, <1>7, BoundsAssumption DEF SweepFails, TypeOK, Rows, storeVars, handVars
<1>8. CASE Crash
  BY <1>0, <1>8, BoundsAssumption DEF Crash, TypeOK, Rows, storeVars, handVars
<1>9. CASE Evening
  BY <1>0, <1>9, BoundsAssumption DEF Evening, TypeOK, Rows, engineVars, handVars, countVars
<1>10. CASE NewDay
  BY <1>0, <1>10, LoadFits, BoundsAssumption DEF NewDay, TypeOK, Rows, countVars
<1>11. CASE HandStarts
  BY <1>0, <1>11, GridAssumption, BoundsAssumption DEF HandStarts, TypeOK, Rows, storeVars, engineVars, countVars
<1>12. CASE HandEvaluates
  BY <1>0, <1>12, ChosenFits, BoundsAssumption DEF HandEvaluates, TypeOK, Rows, storeVars, engineVars, countVars
<1>13. CASE HandWritesParams
  BY <1>0, <1>13, BoundsAssumption DEF HandWritesParams, TypeOK, Rows, engineVars, countVars
<1>14. CASE HandWritesHistory
  BY <1>0, <1>14, BoundsAssumption DEF HandWritesHistory, TypeOK, Rows, engineVars, countVars
<1>15. CASE ReadForm
  BY <1>0, <1>15, BoundsAssumption DEF ReadForm, TypeOK, Rows, storeVars, engineVars, handVars, countVars
<1>16. CASE SaveForm
  <2>1. params' \in Fitting /\ form' = NoRow /\ unseen' = TRUE /\ edits' = edits + 1
    BY <1>16 DEF SaveForm, Acceptable
  <2>2. UNCHANGED <<swept, evening, engineVars, handVars, crashes, failures>>
    BY <1>16 DEF SaveForm
  <2>3. edits' \in 0..MaxEdits
    BY <1>0, <1>16, <2>1, BoundsAssumption DEF TypeOK, SaveForm
  <2>4. TypeOK'
    BY <1>0, <2>1, <2>2, <2>3 DEF TypeOK, Rows, engineVars, handVars
  <2> QED BY <2>1, <2>2, <2>4 DEF engineVars, handVars
<1>17. CASE UNCHANGED vars
  BY <1>0, <1>17 DEF TypeOK, vars, storeVars, engineVars, handVars, countVars
<1> QED
  BY <1>1, <1>2, <1>3, <1>4, <1>5, <1>6, <1>7, <1>8, <1>9, <1>10, <1>11, <1>12, <1>13, <1>14, <1>15, <1>16, <1>17
  DEF Next, Engine, Hand

(* SweepTypeCorrect: every parameter row there is, or that is under way in *)
(* the engine's memory, a sweep by hand or a form, keeps the strategy's    *)
(* constraint or is not there yet.                                         *)
THEOREM SweepTypeCorrect == Spec => []TypeOK
<1>1. SweepInv /\ [Next]_vars => SweepInv'
  BY SweepInvStep
<1>2. SweepInv => TypeOK
  BY DEF SweepInv
<1> QED BY SweepInvInit, <1>1, <1>2, PTL DEF Spec

(* EngineStepsFromLatest (SweepsFromLatest): whatever is killed, saved or  *)
(* swept by hand, a sweep of the engine writes parameters at most one grid *)
(* index from the row it replaces, unless someone else wrote that row      *)
(* after the engine's last load.                                           *)
THEOREM EngineStepsFromLatest == Spec => SweepsFromLatest
<1>1. SweepInv /\ [Next]_vars => SweepInv'
  BY SweepInvStep
<1>2. SweepInv /\ SweepInv' /\ [Next]_vars =>
        [engine = "write" /\ engine' = "row" /\ ~unseen => Near(params', params)]_vars
  <2> SUFFICES ASSUME SweepInv, Next, engine = "write", engine' = "row", ~unseen
               PROVE  Near(params', params)
    BY DEF vars
  <2>1. WriteParams
    BY DEF Next, Engine, Hand, Startup, RunCycle, SweepDue, Evaluate, WriteHistory, SweepFails,
      Crash, Evening, NewDay, HandStarts, HandEvaluates, HandWritesParams, HandWritesHistory,
      ReadForm, SaveForm, engineVars, handVars, storeVars
  <2>2. params = loaded /\ loaded \in Fitting /\ Near(chosen, loaded)
    BY DEF SweepInv, InMemory, AsLoaded
  <2>3. params' = chosen \/ params' = params
    BY <2>1 DEF WriteParams
  <2> QED BY <2>2, <2>3, NearItself
<1> QED BY SweepInvInit, <1>1, <1>2, PTL DEF Spec, SweepsFromLatest
=============================================================================
