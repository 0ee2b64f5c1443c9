----------------------------- MODULE P100Proofs -----------------------------
(***************************************************************************)
(* What holds of the shadow account for every calendar, every day's        *)
(* signals and every number of runs, wherever the process is killed; the   *)
(* parameters' steps but for a kill between them and their history row.    *)
(* In order: sums over finite sets; TuningInv (TunedOnceADate); LedgerInv  *)
(* (RowsAlwaysChain); TypeInv (P100TypeCorrect); CashInv (CashConserved,   *)
(* LedgerAlwaysChains).                                                    *)
(***************************************************************************)
EXTENDS P100, SequenceTheorems, FiniteSetTheorems, WellFoundedInduction, TLAPS

-----------------------------------------------------------------------------
(* Sums over finite sets.                                                  *)

Pick(s) == CHOOSE x \in s : TRUE

(* What the fold behind SumFunctionOnSet says of itself.                   *)
Adds(g, f, S) == g = [s \in SUBSET S |-> IF s = {} THEN 0 ELSE f[Pick(s)] + g[s \ {Pick(s)}]]

LEMMA SumUnfolds ==
  ASSUME NEW f, NEW S
  PROVE  SumFunctionOnSet(f, S) = (CHOOSE g : Adds(g, f, S))[S]
  BY DEF SumFunctionOnSet, FoldFunctionOnSet, MapThenFoldSet, Adds, Pick

(* Induction over the subsets of a finite set, with a set for the          *)
(* predicate.                                                              *)
LEMMA SubsetInduction ==
  ASSUME NEW S, IsFiniteSet(S), NEW Q,
         \A s \in SUBSET S : (\A t \in SUBSET s : t # s => t \in Q) => s \in Q
  PROVE  \A s \in SUBSET S : s \in Q
<1> DEFINE Bad == {s \in SUBSET S : s \notin Q}
<1> SUFFICES ASSUME Bad # {} PROVE FALSE
  OBVIOUS
<1>1. Bad \subseteq FiniteSubsetsOf(S)
  BY FS_Subset DEF FiniteSubsetsOf
<1>2. PICK x \in Bad : \A y \in Bad : ~ (<<y, x>> \in StrictSubsetOrdering(S))
  <2> HIDE DEF Bad
  <2> QED BY <1>1, FS_StrictSubsetOrderingWellFounded, WFMin
<1>3. \A t \in SUBSET x : t # x => t \in Q
  BY <1>2 DEF StrictSubsetOrdering
<1> QED BY <1>2, <1>3

LEMMA PickIn == ASSUME NEW S, S # {} PROVE Pick(S) \in S
  BY DEF Pick

LEMMA AddsAt ==
  ASSUME NEW S, NEW f, NEW g, Adds(g, f, S), NEW s \in SUBSET S
  PROVE  g[s] = IF s = {} THEN 0 ELSE f[Pick(s)] + g[s \ {Pick(s)}]
  BY DEF Adds

(* Two such functions agree where their terms do.                          *)
LEMMA AddsOnce ==
  ASSUME NEW S, IsFiniteSet(S), NEW f, NEW g, Adds(g, f, S),
         NEW T, NEW k, NEW h, Adds(h, k, T), S \subseteq T, \A x \in S : f[x] = k[x]
  PROVE  \A s \in SUBSET S : g[s] = h[s]
<1> DEFINE Q == {s \in SUBSET S : g[s] = h[s]}
<1>1. ASSUME NEW s \in SUBSET S, \A t \in SUBSET s : t # s => t \in Q
      PROVE  g[s] = h[s]
  <2>1. g[s] = IF s = {} THEN 0 ELSE f[Pick(s)] + g[s \ {Pick(s)}]
    BY AddsAt
  <2>2. h[s] = IF s = {} THEN 0 ELSE k[Pick(s)] + h[s \ {Pick(s)}]
    BY AddsAt
  <2>3. s # {} => Pick(s) \in s
    BY PickIn
  <2>4. s # {} => g[s \ {Pick(s)}] = h[s \ {Pick(s)}]
    BY <1>1, <2>3
  <2> QED BY <2>1, <2>2, <2>3, <2>4
<1>2. \A s \in SUBSET S : s \in Q
  <2>1. \A s \in SUBSET S : (\A t \in SUBSET s : t # s => t \in Q) => s \in Q
    BY <1>1
  <2> HIDE DEF Q
  <2> QED BY <2>1, SubsetInduction
<1> QED BY <1>2

LEMMA AddsSubset ==
  ASSUME NEW S, IsFiniteSet(S), NEW f,
         \A t \in SUBSET S : t # S => \E g : Adds(g, f, t)
  PROVE  \E g : Adds(g, f, S)
<1> DEFINE sum(t) == (CHOOSE g : Adds(g, f, t))[t]
           val(t) == IF t = {} THEN 0 ELSE f[Pick(t)] + sum(t \ {Pick(t)})
           h == [t \in SUBSET S |-> val(t)]
<1>1. ASSUME NEW t \in SUBSET S, t # S PROVE sum(t) = val(t)
  <2> DEFINE g == CHOOSE g : Adds(g, f, t)
  <2>1. Adds(g, f, t)
    BY <1>1
  <2>2. CASE t = {}
    BY <2>1, <2>2, AddsAt
  <2>3. CASE t # {}
    <3> DEFINE r == t \ {Pick(t)}
               k == CHOOSE k : Adds(k, f, r)
    <3>1. Pick(t) \in t /\ r \in SUBSET S /\ r # S /\ r \subseteq t
      BY <2>3, PickIn
    <3>2. Adds(k, f, r)
      BY <3>1
    <3>3. IsFiniteSet(r)
      BY <3>1, FS_Subset
    <3>4. k[r] = g[r]
      <4> HIDE DEF g, k, r
      <4> QED BY <2>1, <3>1, <3>2, <3>3, AddsOnce
    <3>5. g[t] = f[Pick(t)] + g[r]
      <4> HIDE DEF g
      <4> QED BY <2>1, <2>3, AddsAt
    <3> QED BY <2>3, <3>4, <3>5
  <2> QED BY <2>2, <2>3
<1>2. Adds(h, f, S)
  <2>1. ASSUME NEW t \in SUBSET S, t # {} PROVE h[t \ {Pick(t)}] = sum(t \ {Pick(t)})
    <3>1. Pick(t) \in t
      BY <2>1, PickIn
    <3>2. t \ {Pick(t)} \in SUBSET S /\ t \ {Pick(t)} # S
      BY <3>1
    <3> HIDE DEF sum, val
    <3> QED BY <1>1, <3>2
  <2>2. \A t \in SUBSET S : val(t) = IF t = {} THEN 0 ELSE f[Pick(t)] + h[t \ {Pick(t)}]
    <3> HIDE DEF sum, h
    <3> QED BY <2>1
  <2> HIDE DEF sum, val
  <2> QED BY <2>2 DEF Adds
<1> QED BY <1>2

LEMMA AddsExists ==
  ASSUME NEW S, IsFiniteSet(S), NEW f
  PROVE  \E g : Adds(g, f, S)
<1> DEFINE Q == {s \in SUBSET S : \E g : Adds(g, f, s)}
<1>1. ASSUME NEW s \in SUBSET S, \A t \in SUBSET s : t # s => t \in Q
      PROVE  \E g : Adds(g, f, s)
  <2>1. IsFiniteSet(s)
    BY FS_Subset
  <2>2. \A t \in SUBSET s : t # s => \E g : Adds(g, f, t)
    BY <1>1
  <2> QED BY <2>1, <2>2, AddsSubset
<1>2. \A s \in SUBSET S : s \in Q
  <2>1. \A s \in SUBSET S : (\A t \in SUBSET s : t # s => t \in Q) => s \in Q
    BY <1>1
  <2> HIDE DEF Q
  <2> QED BY <2>1, SubsetInduction
<1> QED BY <1>2

(* The sum of nothing, and of a set of which one element is taken.         *)
LEMMA SumOfNone == ASSUME NEW f PROVE SumFunctionOnSet(f, {}) = 0
<1> DEFINE g == CHOOSE g : Adds(g, f, {})
<1>1. Adds(g, f, {})
  BY AddsExists, FS_EmptySet
<1>2. g[{}] = 0
  <2> HIDE DEF g
  <2> QED BY <1>1, AddsAt
<1> QED BY <1>2, SumUnfolds

(* A sum as the values of one function on all the subsets of a set.        *)
LEMMA SumsOf ==
  ASSUME NEW S, IsFiniteSet(S), NEW f
  PROVE  \A s \in SUBSET S : 
           SumFunctionOnSet(f, s) = IF s = {} THEN 0 ELSE f[Pick(s)] + SumFunctionOnSet(f, s \ {Pick(s)})
<1> DEFINE g == CHOOSE g : Adds(g, f, S)
<1>1. Adds(g, f, S)
  BY AddsExists
<1>2. \A s \in SUBSET S : SumFunctionOnSet(f, s) = g[s]
  <2> SUFFICES ASSUME NEW s \in SUBSET S PROVE SumFunctionOnSet(f, s) = g[s]
    OBVIOUS
  <2> DEFINE h == CHOOSE h : Adds(h, f, s)
  <2>1. Adds(h, f, s) /\ IsFiniteSet(s)
    BY AddsExists, FS_Subset
  <2>2. h[s] = g[s]
    <3> HIDE DEF g, h
    <3> QED BY <1>1, <2>1, AddsOnce
  <2> QED BY <2>2, SumUnfolds
<1> QED
  <2> HIDE DEF g
  <2>1. \A s \in SUBSET S : g[s] = IF s = {} THEN 0 ELSE f[Pick(s)] + g[s \ {Pick(s)}]
    BY <1>1, AddsAt
  <2> QED BY <1>2, <2>1

LEMMA SumInt ==
  ASSUME NEW S, IsFiniteSet(S), NEW f, \A x \in S : f[x] \in Int
  PROVE  SumFunctionOnSet(f, S) \in Int
<1> DEFINE Q == {s \in SUBSET S : SumFunctionOnSet(f, s) \in Int}
<1>0. \A s \in SUBSET S :
        SumFunctionOnSet(f, s) = IF s = {} THEN 0 ELSE f[Pick(s)] + SumFunctionOnSet(f, s \ {Pick(s)})
  BY SumsOf
<1>1. ASSUME NEW s \in SUBSET S, \A t \in SUBSET s : t # s => t \in Q
      PROVE  SumFunctionOnSet(f, s) \in Int
  <2>1. SumFunctionOnSet(f, s) = IF s = {} THEN 0 ELSE f[Pick(s)] + SumFunctionOnSet(f, s \ {Pick(s)})
    BY <1>0
  <2>2. s # {} => Pick(s) \in s
    BY PickIn
  <2>3. s # {} => SumFunctionOnSet(f, s \ {Pick(s)}) \in Int
    BY <1>1, <2>2
  <2> QED BY <2>1, <2>2, <2>3
<1>2. \A s \in SUBSET S : s \in Q
  <2>1. \A s \in SUBSET S : (\A t \in SUBSET s : t # s => t \in Q) => s \in Q
    BY <1>1
  <2> HIDE DEF Q
  <2> QED BY <2>1, SubsetInduction
<1> QED BY <1>2

(* A sum is one of its terms and the sum of the others, whichever is taken.*)
LEMMA SumTakes ==
  ASSUME NEW S, IsFiniteSet(S), NEW f, \A x \in S : f[x] \in Int, NEW x \in S
  PROVE  SumFunctionOnSet(f, S) = f[x] + SumFunctionOnSet(f, S \ {x})
<1> DEFINE sum(s) == SumFunctionOnSet(f, s)
           Q == {s \in SUBSET S : \A y \in s : sum(s) = f[y] + sum(s \ {y})}
<1>00. \A s \in SUBSET S : sum(s) = IF s = {} THEN 0 ELSE f[Pick(s)] + sum(s \ {Pick(s)})
  BY SumsOf
<1>0. \A s \in SUBSET S : sum(s) \in Int
  BY SumInt, FS_Subset
<1>1. ASSUME NEW s \in SUBSET S, \A t \in SUBSET s : t # s => t \in Q, NEW y \in s
      PROVE  sum(s) = f[y] + sum(s \ {y})
  <2> DEFINE p == Pick(s)
  <2>1. p \in s
    BY PickIn
  <2>2. sum(s) = f[p] + sum(s \ {p})
    BY <1>00
  <2>3. CASE y = p
    BY <2>2, <2>3
  <2>4. CASE y # p
    <3>1. sum(s \ {p}) = f[y] + sum((s \ {p}) \ {y})
      <4>1. s \ {p} \in Q /\ y \in s \ {p}
        BY <1>1, <2>1, <2>4
      <4> QED BY <4>1
    <3>2. sum(s \ {y}) = f[p] + sum((s \ {y}) \ {p})
      <4>1. s \ {y} \in Q /\ p \in s \ {y}
        BY <1>1, <2>1, <2>4
      <4> QED BY <4>1
    <3>3. (s \ {p}) \ {y} = (s \ {y}) \ {p}
      OBVIOUS
    <3>4. f[p] \in Int /\ f[y] \in Int /\ sum((s \ {y}) \ {p}) \in Int
      BY <1>0, <2>1
    <3>5. sum(s) = f[p] + (f[y] + sum((s \ {y}) \ {p})) /\ f[y] + sum(s \ {y}) = f[y] + (f[p] + sum((s \ {y}) \ {p}))
      BY <2>2, <3>1, <3>2, <3>3
    <3> QED BY <3>4, <3>5
  <2> QED BY <2>3, <2>4
<1>2. \A s \in SUBSET S : s \in Q
  <2>1. \A s \in SUBSET S : (\A t \in SUBSET s : t # s => t \in Q) => s \in Q
    BY <1>1
  <2> HIDE DEF Q
  <2> QED BY <2>1, SubsetInduction
<1> QED BY <1>2

(* Sums of the same terms are the same.                                    *)
LEMMA SumAgrees ==
  ASSUME NEW S, IsFiniteSet(S), NEW f, NEW k, \A x \in S : f[x] = k[x]
  PROVE  SumFunctionOnSet(f, S) = SumFunctionOnSet(k, S)
<1> DEFINE g == CHOOSE g : Adds(g, f, S)
           h == CHOOSE h : Adds(h, k, S)
<1>1. Adds(g, f, S) /\ Adds(h, k, S)
  BY AddsExists
<1>2. g[S] = h[S]
  <2> HIDE DEF g, h
  <2> QED BY <1>1, AddsOnce
<1> QED BY <1>2, SumUnfolds

(* A sum of naturals is one, a sum of nothing but zeros is zero.           *)
LEMMA SumNat ==
  ASSUME NEW S, IsFiniteSet(S), NEW f, \A x \in S : f[x] \in Nat
  PROVE  SumFunctionOnSet(f, S) \in Nat
<1> DEFINE sum(s) == SumFunctionOnSet(f, s)
           Q == {s \in SUBSET S : sum(s) \in Nat}
<1>0. \A s \in SUBSET S : sum(s) = IF s = {} THEN 0 ELSE f[Pick(s)] + sum(s \ {Pick(s)})
  BY SumsOf
<1>1. ASSUME NEW s \in SUBSET S, \A t \in SUBSET s : t # s => t \in Q
      PROVE  sum(s) \in Nat
  <2>1. sum(s) = IF s = {} THEN 0 ELSE f[Pick(s)] + sum(s \ {Pick(s)})
    BY <1>0
  <2>2. s # {} => Pick(s) \in s
    BY PickIn
  <2>3. s # {} => sum(s \ {Pick(s)}) \in Nat
    BY <1>1, <2>2
  <2> QED BY <2>1, <2>2, <2>3
<1>2. \A s \in SUBSET S : s \in Q
  <2>1. \A s \in SUBSET S : (\A t \in SUBSET s : t # s => t \in Q) => s \in Q
    BY <1>1
  <2> HIDE DEF Q
  <2> QED BY <2>1, SubsetInduction
<1> QED BY <1>2

LEMMA SumOfZeros ==
  ASSUME NEW S, IsFiniteSet(S), NEW f, \A x \in S : f[x] = 0
  PROVE  SumFunctionOnSet(f, S) = 0
<1> DEFINE sum(s) == SumFunctionOnSet(f, s)
           Q == {s \in SUBSET S : sum(s) = 0}
<1>0. \A s \in SUBSET S : sum(s) = IF s = {} THEN 0 ELSE f[Pick(s)] + sum(s \ {Pick(s)})
  BY SumsOf
<1>1. ASSUME NEW s \in SUBSET S, \A t \in SUBSET s : t # s => t \in Q
      PROVE  sum(s) = 0
  <2>1. sum(s) = IF s = {} THEN 0 ELSE f[Pick(s)] + sum(s \ {Pick(s)})
    BY <1>0
  <2>2. s # {} => Pick(s) \in s
    BY PickIn
  <2>3. s # {} => sum(s \ {Pick(s)}) = 0
    BY <1>1, <2>2
  <2> QED BY <2>1, <2>2, <2>3
<1>2. \A s \in SUBSET S : s \in Q
  <2>1. \A s \in SUBSET S : (\A t \in SUBSET s : t # s => t \in Q) => s \in Q
    BY <1>1
  <2> HIDE DEF Q
  <2> QED BY <2>1, SubsetInduction
<1> QED BY <1>2

(* A sum is the sum of a part and the sum of the rest.                     *)
LEMMA SumSplits ==
  ASSUME NEW S, IsFiniteSet(S), NEW f, \A x \in S : f[x] \in Int, NEW A \in SUBSET S
  PROVE  SumFunctionOnSet(f, S) = SumFunctionOnSet(f, A) + SumFunctionOnSet(f, S \ A)
<1> DEFINE sum(s) == SumFunctionOnSet(f, s)
           Q == {s \in SUBSET A : sum(S) = sum(s) + sum(S \ s)}
<1>0. IsFiniteSet(A) /\ \A s \in SUBSET S : IsFiniteSet(s) /\ sum(s) \in Int
  BY FS_Subset, SumInt
<1>1. ASSUME NEW s \in SUBSET A, \A t \in SUBSET s : t # s => t \in Q
      PROVE  sum(S) = sum(s) + sum(S \ s)
  <2>1. CASE s = {}
    <3>1. S \ s = S
      BY <2>1
    <3>2. sum(s) = 0 /\ sum(S) \in Int
      BY <1>0, <2>1, SumOfNone
    <3>3. sum(S \ s) = sum(S)
      BY <3>1
    <3> HIDE DEF sum
    <3> QED BY <3>2, <3>3
  <2>2. CASE s # {}
    <3>1. PICK x \in s : TRUE
      BY <2>2
    <3> DEFINE r == s \ {x}
               rest == S \ s
    <3>2. sum(S) = sum(r) + sum(S \ r)
      BY <1>1
    <3>3. x \in S \ r /\ (S \ r) \ {x} = rest /\ \A y \in S \ r : f[y] \in Int
      BY <3>1
    <3>4. sum(S \ r) = f[x] + sum(rest)
      <4>1. IsFiniteSet(S \ r)
        BY <1>0
      <4> DEFINE big == S \ r
      <4>2. IsFiniteSet(big) /\ x \in big /\ \A y \in big : f[y] \in Int
        BY <3>3, <4>1
      <4> HIDE DEF big
      <4>3. SumFunctionOnSet(f, big) = f[x] + SumFunctionOnSet(f, big \ {x})
        BY <4>2, SumTakes
      <4> QED BY <3>3, <4>3 DEF big
    <3>5. sum(s) = f[x] + sum(r)
      <4>1. IsFiniteSet(s) /\ \A y \in s : f[y] \in Int
        BY <1>0
      <4> QED BY <3>1, <4>1, SumTakes
    <3>6. sum(r) \in Int /\ sum(rest) \in Int /\ f[x] \in Int
      BY <1>0, <3>1
    <3> HIDE DEF sum, r, rest
    <3> QED BY <3>2, <3>4, <3>5, <3>6 DEF rest
  <2> QED BY <2>1, <2>2
<1>2. \A s \in SUBSET A : s \in Q
  <2>1. \A s \in SUBSET A : (\A t \in SUBSET s : t # s => t \in Q) => s \in Q
    BY <1>1
  <2> HIDE DEF Q
  <2> QED BY <1>0, <2>1, SubsetInduction
<1> QED BY <1>2

-----------------------------------------------------------------------------
(* The invariants.                                                         *)

Tuning == {"check", "write", "history"}

\* The process is at a sleeve when it tunes.
Placed ==
  /\ today \in 1..Dates /\ pc \in {"idle", "trade"} \cup Tuning
  /\ tuning \in [at : 1..Len(Sleeves), index : Int]
  /\ param \in [Tuned -> Int] /\ hist \in [Tuned -> SUBSET Nat] /\ moved \in [Tuned -> -1..1]

\* A parameter that has moved today has its history row, or is about to get it;
\* one that is about to move has neither moved nor a row.
MovesNoted ==
  /\ \A s \in Tuned : moved[s] # 0 => today \in hist[s] \/ (pc = "history" /\ Sleeve = s)
  /\ pc = "write" => today \notin hist[Sleeve] /\ tuning.index - param[Sleeve] \in -1..1

TuningInv == Placed /\ MovesNoted

\* The run in progress still has the account it began with, and pays nothing
\* that settles today or earlier.
Fields == {"equity", "opened", "settled", "due", "net", "settle"}
RunBegan ==
  pc = "trade" =>
    LET from == LeftBefore(today)
    IN  /\ DOMAIN acct = Fields /\ acct.settle \in Settling /\ acct.settle > today
        /\ acct.equity = from.equity
        /\ acct.opened = from.settled + Total([x \in 1..today |-> from.due[x]])
        /\ DOMAIN acct.due = Settling /\ \A x \in 1..today : acct.due[x] = 0

NothingAhead == \A d \in 1..Dates : d > today => rows[d] = NoRow

LedgerInv == today \in 1..Dates /\ DOMAIN rows = 1..Dates /\ NothingAhead /\ RunBegan /\ RowsChain

-----------------------------------------------------------------------------
(* Tuning                                                                  *)

LEMMA SleeveIsTuned == ASSUME Placed PROVE Sleeve \in Tuned /\ Len(Sleeves) \in Nat /\ 1 \in 1..Len(Sleeves)
<1>1. Sleeves \in Seq(STRING) /\ tuning.at \in 1..Len(Sleeves)
  BY SleevesAssumption DEF Placed
<1>2. Len(Sleeves) \in Nat /\ DOMAIN Sleeves = 1..Len(Sleeves)
  BY <1>1, LenProperties
<1> QED BY <1>1, <1>2 DEF Sleeve, Tuned, Range

LEMMA NextIsPlaced ==
  ASSUME Placed, NextSleeve
  PROVE  pc' \in {"idle", "check"} /\ tuning' \in [at : 1..Len(Sleeves), index : Int]
<1>1. tuning.at \in 1..Len(Sleeves) /\ Len(Sleeves) \in Nat /\ 1 \in 1..Len(Sleeves)
  BY SleeveIsTuned DEF Placed
<1>2. CASE tuning.at = Len(Sleeves)
  BY <1>1, <1>2 DEF NextSleeve, NoTuning
<1>3. CASE tuning.at # Len(Sleeves)
  <2>1. pc' = "check" /\ tuning' = [at |-> tuning.at + 1, index |-> 0] /\ tuning.at + 1 \in 1..Len(Sleeves)
    BY <1>1, <1>3 DEF NextSleeve
  <2> QED BY <2>1
<1> QED BY <1>2, <1>3

LEMMA TuningInit == Init => TuningInv
<1> SUFFICES ASSUME Init PROVE TuningInv
  OBVIOUS
<1>1. Len(Sleeves) \in Nat /\ 1 \in 1..Len(Sleeves)
  <2>1. Sleeves \in Seq(STRING) /\ Sleeves # <<>>
    BY SleevesAssumption
  <2> QED BY <2>1, LenProperties
<1>2. Placed
  BY <1>1, DatesAssumption, AmountsAssumption DEF Init, Placed, NoTuning
<1>3. MovesNoted
  BY DEF Init, MovesNoted
<1> QED BY <1>2, <1>3 DEF TuningInv

(* A step that leaves parameters and history alone and begins no tuning of *)
(* its own keeps what is noted.                                            *)
LEMMA TuningStands ==
  ASSUME TuningInv, UNCHANGED <<today, param, hist, moved>>, pc # "history",
         pc' \in {"idle", "trade", "check"}, tuning' \in [at : 1..Len(Sleeves), index : Int]
  PROVE  TuningInv'
<1>1. Placed'
  BY DEF TuningInv, Placed, Tuning
<1>2. MovesNoted'
  BY DEF TuningInv, MovesNoted, Sleeve
<1> QED BY <1>1, <1>2 DEF TuningInv

LEMMA TuningStep ==
  ASSUME "history" \notin KillAt
  PROVE  TuningInv /\ [Next]_vars => TuningInv'
<1> SUFFICES ASSUME TuningInv, [Next]_vars PROVE TuningInv'
  OBVIOUS
<1>0. /\ Placed /\ tuning \in [at : 1..Len(Sleeves), index : Int] /\ Sleeve \in Tuned
      /\ NoTuning \in [at : 1..Len(Sleeves), index : Int]
  BY SleeveIsTuned DEF TuningInv, Placed, NoTuning
<1>1. CASE NightlyStarts \/ HandStarts
  <2>1. PICK seq, calendar : Begin(seq, calendar)
    BY <1>1 DEF NightlyStarts, HandStarts
  <2> QED BY <1>0, <2>1, TuningStands DEF Begin
<1>2. CASE EntryBuys \/ EntrySkipped \/ ExitSells \/ ExitOfNothing
  BY <1>0, <1>2, TuningStands DEF EntryBuys, EntrySkipped, ExitSells, ExitOfNothing, Durable
<1>3. CASE WriteDay \/ AlreadyTuned \/ TuneFails \/ Kill
  <2>1. UNCHANGED <<today, param, hist, moved>> /\ pc # "history"
    BY <1>3 DEF WriteDay, AlreadyTuned, TuneFails, Kill, Durable
  <2>2. pc' \in {"idle", "check"} /\ tuning' \in [at : 1..Len(Sleeves), index : Int]
    <3>1. CASE WriteDay
      BY <1>0, <3>1 DEF WriteDay
    <3>2. CASE AlreadyTuned
      BY <1>0, <3>2, NextIsPlaced DEF AlreadyTuned
    <3>3. CASE TuneFails \/ Kill
      BY <1>0, <3>3 DEF TuneFails, Kill
    <3> QED BY <1>3, <3>1, <3>2, <3>3
  <2>3. pc' \in {"idle", "trade", "check"}
    BY <2>2
  <2> QED BY <2>1, <2>2, <2>3, TuningStands
<1>4. CASE Scores
  <2>1. PICK best \in 0..Grid :
          tuning' = [tuning EXCEPT !.index =
            IF best > param[Sleeve] THEN param[Sleeve] + 1 ELSE IF best < param[Sleeve] THEN param[Sleeve] - 1 ELSE param[Sleeve]]
    BY <1>4 DEF Scores
  <2>2. param[Sleeve] \in Int
    BY <1>0 DEF Placed
  <2> DEFINE step == IF best > param[Sleeve] THEN param[Sleeve] + 1
                     ELSE IF best < param[Sleeve] THEN param[Sleeve] - 1 ELSE param[Sleeve]
  <2>a. step \in Int /\ step - param[Sleeve] \in -1..1
    BY <2>2
  <2>b. tuning' = [tuning EXCEPT !.index = step]
    BY <2>1
  <2> HIDE DEF step
  <2>3. PICK i \in Int : tuning' = [tuning EXCEPT !.index = i] /\ i - param[Sleeve] \in -1..1
    BY <2>a, <2>b
  <2>4. tuning' \in [at : 1..Len(Sleeves), index : Int] /\ tuning'.index = i /\ tuning'.at = tuning.at
    BY <1>0, <2>3
  <2>5. pc = "check" /\ today \notin hist[Sleeve] /\ pc' = "write" /\ UNCHANGED <<today, param, hist, moved>>
    BY <1>4 DEF Scores, Durable
  <2>6. Sleeve' = Sleeve
    BY <2>4 DEF Sleeve
  <2> QED BY <2>3, <2>4, <2>5, <2>6 DEF TuningInv, Placed, MovesNoted, Tuning
<1>5. CASE WriteParams
  <2>1. /\ pc = "write" /\ pc' = "history" /\ UNCHANGED <<today, hist, tuning>>
        /\ moved' = [moved EXCEPT ![Sleeve] = @ + tuning.index - param[Sleeve]]
        /\ param' = [param EXCEPT ![Sleeve] = tuning.index]
    BY <1>5 DEF WriteParams
  <2>2. moved[Sleeve] = 0 /\ tuning.index - param[Sleeve] \in -1..1 /\ tuning.index \in Int /\ param[Sleeve] \in Int
    BY <1>0, <2>1 DEF TuningInv, MovesNoted, Placed
  <2>3. moved' \in [Tuned -> -1..1] /\ param' \in [Tuned -> Int]
        /\ \A s \in Tuned \ {Sleeve} : moved'[s] = moved[s]
    BY <1>0, <2>1, <2>2 DEF Placed
  <2>4. Sleeve' = Sleeve
    BY <2>1 DEF Sleeve
  <2> QED BY <2>1, <2>3, <2>4 DEF TuningInv, Placed, MovesNoted, Tuning
<1>6. CASE WriteHistory
  <2>1. /\ pc = "history" /\ NextSleeve /\ UNCHANGED <<today, param, moved>>
        /\ hist' = [hist EXCEPT ![Sleeve] = @ \cup {today}]
    BY <1>6 DEF WriteHistory, Noted
  <2>2. today \in Nat
    BY <1>0, DatesAssumption DEF Placed
  <2>3. hist' \in [Tuned -> SUBSET Nat] /\ today \in hist'[Sleeve] /\ \A s \in Tuned : hist[s] \subseteq hist'[s]
    BY <1>0, <2>1, <2>2 DEF Placed
  <2>4. pc' \in {"idle", "check"} /\ tuning' \in [at : 1..Len(Sleeves), index : Int]
    BY <1>0, <2>1, NextIsPlaced
  <2> QED BY <2>1, <2>3, <2>4 DEF TuningInv, Placed, MovesNoted, Tuning
<1>7. CASE NewDay
  <2>1. pc = "idle" /\ pc' = pc /\ today' = today + 1 /\ today < Dates /\ moved' = [s \in Tuned |-> 0]
        /\ UNCHANGED <<param, hist, tuning>>
    BY <1>7 DEF NewDay
  <2>2. today' \in 1..Dates
    BY <1>0, <2>1, DatesAssumption DEF Placed
  <2> QED BY <2>1, <2>2 DEF TuningInv, Placed, MovesNoted
<1>8. CASE UNCHANGED vars
  BY <1>8 DEF vars, TuningInv, Placed, MovesNoted, Sleeve
<1> QED BY <1>1, <1>2, <1>3, <1>4, <1>5, <1>6, <1>7, <1>8 DEF Next

(* However often a date is run, by night and by hand, and wherever but     *)
(* between the parameters and their history row it breaks off, no          *)
(* parameter moves by more than a step on it (p100.py tune_p100).          *)
THEOREM TunedOnceADate ==
  ASSUME "history" \notin KillAt
  PROVE  Spec => []OneStepADate
<1>1. TuningInv => OneStepADate
  BY DEF TuningInv, Placed, OneStepADate
<1> QED BY <1>1, TuningInit, TuningStep, PTL DEF Spec

-----------------------------------------------------------------------------
(* The ledger                                                              *)

(* Sets of numbers have a least element.                                   *)
LEMMA LeastOne ==
  ASSUME NEW S \in SUBSET Nat, S # {}
  PROVE  Least(S) \in S
<1> DEFINE Below == {p \in Nat \X Nat : p[1] < p[2]}
<1>1. IsWellFoundedOn(Below, Nat)
  BY NatLessThanWellFounded DEF OpToRel
<1>2. \E x \in S : \A y \in S : <<y, x>> \notin Below
  <2> HIDE DEF Below
  <2> QED BY <1>1, WFMin
<1>3. PICK m \in S : \A y \in S : <<y, m>> \notin Below
  BY <1>2
<1>4. ASSUME NEW y \in S PROVE m <= y
  <2>1. y \in Nat /\ m \in Nat /\ <<y, m>> \notin Below
    BY <1>3
  <2>2. ~(y < m)
    BY <2>1
  <2> QED BY <2>1, <2>2
<1> QED BY <1>4 DEF Least

(* Bounded sets of numbers have a greatest element.                        *)
LEMMA GreatestOne ==
  ASSUME NEW n \in Nat, NEW S \in SUBSET (0..n), S # {}
  PROVE  Max(S) \in S /\ \A x \in S : x <= Max(S)
<1> DEFINE Below == {p \in Nat \X Nat : p[1] < p[2]}
           T == {n - x : x \in S}
<1>1. IsWellFoundedOn(Below, Nat)
  BY NatLessThanWellFounded DEF OpToRel
<1>2. T \subseteq Nat /\ T # {}
  <2>1. \A x \in S : n - x \in Nat
    OBVIOUS
  <2>2. PICK x \in S : TRUE
    OBVIOUS
  <2>3. n - x \in T
    BY <2>2
  <2> QED BY <2>1, <2>3
<1>3. \E x \in T : \A y \in T : <<y, x>> \notin Below
  <2> HIDE DEF Below, T
  <2> QED BY <1>1, <1>2, WFMin
<1>4. PICK x \in T : \A y \in T : <<y, x>> \notin Below
  BY <1>3
<1>5. \A y \in T : ~(y < x)
  BY <1>2, <1>4
<1>6. PICK m \in S : x = n - m
  BY <1>4
<1>7. ASSUME NEW z \in S PROVE z <= m
  <2>1. n - z \in T
    OBVIOUS
  <2>2. ~(n - z < n - m)
    BY <1>5, <1>6, <2>1
  <2> QED BY <2>2
<1> QED BY <1>7 DEF Max

(* Whatever the calendar says, proceeds settle on a later date.            *)
LEMMA SettlesLater ==
  ASSUME NEW d \in 1..Dates, NEW calendar
  PROVE  NextBusinessDay(d, calendar) \in Settling /\ NextBusinessDay(d, calendar) > d
<1> DEFINE later == {x \in Sessions : x > d /\ x \in Settling}
           weekdays == {x \in (d + 1)..(d + 3) : x \notin Weekend}
<1>1. Dates \in Nat
  BY DatesAssumption
<1>2. later \in SUBSET Nat /\ weekdays \in SUBSET Nat /\ weekdays # {}
  <2>1. later \in SUBSET Nat
    BY <1>1 DEF Settling
  <2>2. \E x \in (d + 1)..(d + 3) : x \notin Weekend
    BY WeekendAssumption
  <2>3. (d + 1)..(d + 3) \subseteq Nat
    BY <1>1
  <2> QED BY <2>1, <2>2, <2>3
<1>3. weekdays \subseteq Settling /\ \A x \in weekdays : x > d
  BY <1>1 DEF Settling
<1>4. Least(weekdays) \in weekdays
  BY <1>2, LeastOne
<1>5. later # {} => Least(later) \in later
  BY <1>2, LeastOne
<1>6. NextBusinessDay(d, calendar) = IF calendar /\ later # {} THEN Least(later) ELSE Least(weekdays)
  BY DEF NextBusinessDay
<1> QED BY <1>3, <1>4, <1>5, <1>6

(* What a run reads is the account that the row before the date left.      *)
LEMMA StartsFromLeft ==
  ASSUME NEW d \in 1..Dates
  PROVE  /\ StartState(d) = LeftBefore(d)
         /\ \A f : Matured(f, d) = Total([x \in 1..d |-> f[x]])
<1>1. Dates \in Nat
  BY DatesAssumption
<1>2. {x \in 1..(d - 1) : rows[x] # NoRow} = RowsBefore(d)
  BY <1>1 DEF RowsBefore
<1> QED BY <1>2 DEF StartState, LeftBefore, Matured

(* What the rows before a date leave does not depend on later rows.        *)
LEMMA LeftStands ==
  ASSUME NEW d \in 1..Dates, \A x \in 1..(d - 1) : rows'[x] = rows[x]
  PROVE  LeftBefore(d)' = LeftBefore(d)
<1> DEFINE earlier == {x \in 1..(d - 1) : rows[x] # NoRow}
<1>1. {x \in 1..(d - 1) : rows'[x] # NoRow} = earlier
  OBVIOUS
<1>2. CASE earlier = {}
  BY <1>1, <1>2 DEF LeftBefore
<1>3. CASE earlier # {}
  <2>1. Max(earlier) \in earlier
    <3>1. d \in Nat /\ earlier \in SUBSET (0..d)
      BY DatesAssumption
    <3> HIDE DEF earlier
    <3> QED BY <1>3, <3>1, GreatestOne
  <2>2. rows'[Max(earlier)] = rows[Max(earlier)]
    BY <2>1
  <2> QED BY <1>1, <2>2 DEF LeftBefore
<1> QED BY <1>2, <1>3

LEMMA ChainStands ==
  ASSUME RowsChain, UNCHANGED rows
  PROVE  RowsChain'
<1>1. \A d \in 1..Dates : LeftBefore(d)' = LeftBefore(d)
  BY DEF LeftBefore
<1> QED BY <1>1 DEF RowsChain

LEMMA LedgerInit == Init => LedgerInv
BY DatesAssumption DEF Init, LedgerInv, NothingAhead, RunBegan, RowsChain

(* A step that writes no row, and no run that was not begun before.        *)
LEMMA LedgerStands ==
  ASSUME LedgerInv, UNCHANGED <<today, rows>>,
         pc' = "trade" =>
           /\ pc = "trade" /\ DOMAIN acct' = Fields
           /\ acct'.equity = acct.equity /\ acct'.opened = acct.opened /\ acct'.settle = acct.settle
           /\ DOMAIN acct'.due = Settling /\ \A x \in 1..today : acct'.due[x] = acct.due[x]
  PROVE  LedgerInv'
<1>1. LeftBefore(today)' = LeftBefore(today)
  BY DEF LeftBefore
<1>2. RowsChain'
  BY ChainStands DEF LedgerInv
<1>3. NothingAhead' /\ DOMAIN rows' = 1..Dates /\ today' \in 1..Dates
  BY DEF LedgerInv, NothingAhead
<1>4. RunBegan'
  BY <1>1 DEF LedgerInv, RunBegan
<1> QED BY <1>2, <1>3, <1>4 DEF LedgerInv

LEMMA LedgerBegin ==
  ASSUME LedgerInv, NEW seq, NEW calendar, Begin(seq, calendar)
  PROVE  LedgerInv'
<1> USE DEF LedgerInv
<1> DEFINE from == StartState(today)
           cash == from.settled + Matured(from.due, today)
<1>1. /\ UNCHANGED <<today, rows>>
      /\ acct' = [equity |-> from.equity, opened |-> cash, settled |-> cash,
                  due |-> NotMatured(from.due, today), net |-> 0, settle |-> NextBusinessDay(today, calendar)]
  BY DEF Begin
<1>2. from = LeftBefore(today) /\ cash = from.settled + Total([x \in 1..today |-> from.due[x]])
  BY StartsFromLeft
<1> HIDE DEF from, cash
<1>3. NextBusinessDay(today, calendar) \in Settling /\ NextBusinessDay(today, calendar) > today
  BY SettlesLater
<1>4. DOMAIN NotMatured(from.due, today) = Settling /\ \A x \in 1..today : NotMatured(from.due, today)[x] = 0
  <2>1. 1..today \subseteq Settling /\ today \in Nat
    BY DatesAssumption DEF Settling
  <2> QED BY <2>1 DEF NotMatured
<1>5. /\ DOMAIN acct' = Fields /\ acct'.equity = from.equity /\ acct'.opened = cash
      /\ acct'.due = NotMatured(from.due, today) /\ acct'.settle = NextBusinessDay(today, calendar)
  BY <1>1 DEF Fields
<1>6. LeftBefore(today)' = LeftBefore(today)
  BY <1>1 DEF LeftBefore
<1>7. RunBegan'
  BY <1>1, <1>2, <1>3, <1>4, <1>5, <1>6 DEF RunBegan
<1>8. RowsChain' /\ NothingAhead'
  BY <1>1, ChainStands DEF NothingAhead
<1> QED BY <1>1, <1>7, <1>8

LEMMA LedgerWrites == LedgerInv /\ WriteDay => LedgerInv'
<1> SUFFICES ASSUME LedgerInv, WriteDay PROVE LedgerInv'
  OBVIOUS
<1> USE DEF LedgerInv
<1> DEFINE row == [start |-> acct.equity, opened |-> acct.opened, settled |-> acct.settled, due |-> acct.due,
                   end |-> acct.settled + Total(acct.due)]
<1>1. pc = "trade" /\ today' = today /\ pc' = "check" /\ rows' = [rows EXCEPT ![today] = row]
  BY DEF WriteDay
<1>2. row.start = acct.equity /\ row.opened = acct.opened /\ row.due = acct.due
  OBVIOUS
<1> HIDE DEF row
<1>3. DOMAIN rows' = 1..Dates /\ rows'[today] = row /\ \A d \in 1..Dates : d # today => rows'[d] = rows[d]
  BY <1>1
<1>4. \A d \in 1..Dates : d <= today => LeftBefore(d)' = LeftBefore(d)
  <2> SUFFICES ASSUME NEW d \in 1..Dates, d <= today PROVE LeftBefore(d)' = LeftBefore(d)
    OBVIOUS
  <2>1. \A x \in 1..(d - 1) : rows'[x] = rows[x]
    BY <1>3, DatesAssumption
  <2> QED BY <2>1, LeftStands
<1>5. NothingAhead'
  BY <1>1, <1>3 DEF NothingAhead
<1>6. RowsChain'
  <2> SUFFICES ASSUME NEW d \in 1..Dates, rows'[d] # NoRow
               PROVE  LET from == LeftBefore(d)'
                      IN  /\ rows'[d].start = from.equity
                          /\ rows'[d].opened = from.settled + Total([x \in 1..d |-> from.due[x]])
                          /\ \A x \in 1..d : rows'[d].due[x] = 0
    BY DEF RowsChain
  <2>1. d <= today
    BY <1>1, <1>5, DatesAssumption DEF NothingAhead
  <2>2. LeftBefore(d)' = LeftBefore(d)
    BY <1>4, <2>1
  <2>3. CASE d = today
    BY <1>1, <1>2, <1>3, <2>2, <2>3 DEF RunBegan
  <2>4. CASE d # today
    BY <1>3, <2>2, <2>4 DEF RowsChain
  <2> QED BY <2>3, <2>4
<1> QED BY <1>1, <1>3, <1>5, <1>6 DEF RunBegan

(* Buying and selling move settled cash and what is due later.             *)
LEMMA LedgerTrades ==
  ASSUME LedgerInv, EntryBuys \/ EntrySkipped \/ ExitSells \/ ExitOfNothing
  PROVE  LedgerInv'
<1>1. pc = "trade" /\ pc' = pc /\ UNCHANGED <<today, rows>>
  BY DEF EntryBuys, EntrySkipped, ExitSells, ExitOfNothing, Durable
<1>2. /\ DOMAIN acct = Fields /\ acct.settle \in Settling /\ acct.settle > today
      /\ DOMAIN acct.due = Settling /\ 1..today \subseteq Settling /\ today \in Nat
  BY <1>1, DatesAssumption DEF LedgerInv, RunBegan, Settling
<1>3. CASE EntrySkipped \/ ExitOfNothing
  BY <1>1, <1>2, <1>3, LedgerStands DEF EntrySkipped, ExitOfNothing
<1>4. CASE EntryBuys
  <2>1. PICK c : acct' = [acct EXCEPT !.settled = c]
    BY <1>4 DEF EntryBuys
  <2> QED BY <1>1, <1>2, <2>1, LedgerStands DEF Fields
<1>5. CASE ExitSells
  <2>1. PICK proceeds, e : acct' = [Paid(acct, proceeds) EXCEPT !.net = e]
    BY <1>5 DEF ExitSells
  <2> DEFINE due == [acct.due EXCEPT ![acct.settle] = acct.due[acct.settle] + proceeds]
  <2>2. Paid(acct, proceeds) = [acct EXCEPT !.due = due]
    BY DEF Paid
  <2>3. DOMAIN due = Settling /\ \A x \in 1..today : due[x] = acct.due[x]
    BY <1>2
  <2> HIDE DEF due
  <2>4. /\ DOMAIN acct' = Fields /\ acct'.due = due
        /\ acct'.equity = acct.equity /\ acct'.opened = acct.opened /\ acct'.settle = acct.settle
    BY <1>2, <2>1, <2>2 DEF Fields
  <2> QED BY <1>1, <2>3, <2>4, LedgerStands
<1> QED BY <1>3, <1>4, <1>5

LEMMA LedgerStep == LedgerInv /\ [Next]_vars => LedgerInv'
<1> SUFFICES ASSUME LedgerInv, [Next]_vars PROVE LedgerInv'
  OBVIOUS
<1>1. CASE NightlyStarts \/ HandStarts
  <2>1. PICK seq, calendar : Begin(seq, calendar)
    BY <1>1 DEF NightlyStarts, HandStarts
  <2> QED BY <2>1, LedgerBegin
<1>2. CASE EntryBuys \/ EntrySkipped \/ ExitSells \/ ExitOfNothing
  BY <1>2, LedgerTrades
<1>3. CASE WriteDay
  BY <1>3, LedgerWrites
<1>4. CASE AlreadyTuned \/ Scores \/ WriteParams \/ WriteHistory \/ TuneFails \/ Kill
  <2>1. pc' # "trade" /\ UNCHANGED <<today, rows>>
    BY <1>4 DEF AlreadyTuned, Scores, WriteParams, WriteHistory, TuneFails, Kill, NextSleeve, Durable
  <2> QED BY <2>1, LedgerStands
<1>5. CASE NewDay
  <2>1. pc' = "idle" /\ today' = today + 1 /\ today < Dates /\ rows' = rows
    BY <1>5 DEF NewDay
  <2>2. today' \in 1..Dates /\ NothingAhead'
    BY <2>1, DatesAssumption DEF LedgerInv, NothingAhead
  <2> QED BY <2>1, <2>2, ChainStands DEF LedgerInv, RunBegan
<1>6. CASE UNCHANGED vars
  <2>1. UNCHANGED <<today, rows, pc, acct>>
    BY <1>6 DEF vars
  <2>2. pc' = "trade" => DOMAIN acct = Fields /\ DOMAIN acct.due = Settling
    BY <2>1 DEF LedgerInv, RunBegan
  <2> QED BY <2>1, <2>2, LedgerStands
<1> QED BY <1>1, <1>2, <1>3, <1>4, <1>5, <1>6 DEF Next

(* Every row begins with the equity and the settled cash that the row      *)
(* before it left, with what had matured by then counted once, and leaves  *)
(* nothing due that has matured, however often its date is run and         *)
(* wherever a run is killed (p100.py start_state, simulate).               *)
THEOREM RowsAlwaysChain == Spec => []RowsChain
<1>1. LedgerInv => RowsChain
  BY DEF LedgerInv
<1> QED BY <1>1, LedgerInit, LedgerStep, PTL DEF Spec
-----------------------------------------------------------------------------
(* Types: what a run holds, and the exits still to come.                   *)

EntryOf(i) == [at |-> sigs[i].in, kind |-> 1, i |-> i]
ExitOf(i)  == [at |-> sigs[i].out, kind |-> 0, i |-> i]

\* A position that is open, or may still be opened, has its exit ahead: when no
\* event is left nothing is open.
ExitsAhead ==
  /\ pc # "trade" => DOMAIN open = {}
  /\ \A i \in DOMAIN open : ExitOf(i) \in todo
  /\ \A i \in DOMAIN sigs : EntryOf(i) \in todo => ExitOf(i) \in todo
  /\ \A i \in DOMAIN sigs : sigs[i].in < sigs[i].out

TypeInv == TypeOK /\ ExitsAhead

LEMMA Calendar ==
  /\ Dates \in Nat \ {0} /\ Settling \subseteq Nat /\ IsFiniteSet(Settling)
  /\ \A d \in 1..Dates : d \in Nat /\ 1..d \subseteq Settling
<1>1. Dates \in Nat \ {0}
  BY DatesAssumption
<1>2. IsFiniteSet(1..(Dates + 3))
  BY <1>1, FS_Interval
<1> QED BY <1>1, <1>2 DEF Settling

LEMMA EventIs ==
  ASSUME NEW e \in Events(sigs)
  PROVE  /\ e.i \in DOMAIN sigs /\ e.kind \in {0, 1}
         /\ e.kind = 1 => e = EntryOf(e.i)
         /\ e.kind = 0 => e = ExitOf(e.i)
BY DEF Events, EntryOf, ExitOf

LEMMA SignalIs ==
  ASSUME TypeOK, NEW i \in DOMAIN sigs
  PROVE  /\ sigs[i] \in Signal /\ sigs[i].in \in Nat /\ sigs[i].out \in Nat
         /\ sigs[i].stop \in Nat \ {0} /\ sigs[i].worth \in Nat
<1>1. sigs \in Seq(Signal)
  BY DEF TypeOK
<1>2. sigs[i] \in Signal
  BY <1>1, ElementOfSeq, LenProperties
<1> QED BY <1>2 DEF Signal

LEMMA AccountIs ==
  ASSUME TypeOK
  PROVE  /\ DOMAIN acct = Fields /\ acct.equity \in Nat /\ acct.opened \in Nat /\ acct.settled \in Nat
         /\ acct.due \in [Settling -> Nat] /\ acct.net \in Int /\ acct.settle \in Nat
BY DEF TypeOK, AccountType, Fields

(* An entry comes before its exit.                                         *)
LEMMA EntryFirst ==
  ASSUME TypeInv, NEW e \in todo, IsNext(e), e.kind = 0
  PROVE  e.i \in DOMAIN sigs /\ e = ExitOf(e.i) /\ EntryOf(e.i) \notin todo
<1>1. e.i \in DOMAIN sigs /\ e = ExitOf(e.i)
  BY EventIs DEF TypeInv, TypeOK
<1>2. sigs[e.i].in < sigs[e.i].out /\ sigs[e.i].in \in Nat /\ sigs[e.i].out \in Nat
  BY <1>1, SignalIs DEF TypeInv, ExitsAhead
<1>3. ASSUME EntryOf(e.i) \in todo PROVE FALSE
  <2>1. EntryOf(e.i) # e /\ EntryOf(e.i).at = sigs[e.i].in /\ e.at = sigs[e.i].out
    BY <1>1 DEF EntryOf, ExitOf
  <2>2. Before(e, EntryOf(e.i))
    BY <1>3, <2>1 DEF IsNext
  <2> QED BY <1>2, <2>1, <2>2 DEF Before
<1> QED BY <1>1, <1>3

LEMMA NotionalIs ==
  ASSUME TypeOK, NEW i \in DOMAIN sigs
  PROVE  Notional(sigs[i]) \in Nat /\ Notional(sigs[i]) <= acct.settled
<1>1. acct.equity \in Nat /\ acct.settled \in Nat /\ sigs[i].stop \in Nat \ {0}
  BY AccountIs, SignalIs
<1>2. Wanted(sigs[i]) \in Nat
  BY <1>1 DEF Wanted
<1> QED BY <1>1, <1>2 DEF Notional, Smaller

LEMMA ProceedsNat ==
  ASSUME NEW a \in Nat, NEW w \in Nat
  PROVE  (a * w) \div 100 \in Nat
<1>1. a * w \in Nat
  OBVIOUS
<1> DEFINE p == a * w
<1>2. p \in Nat
  BY <1>1
<1> HIDE DEF p
<1>3. p \div 100 \in Nat
  BY <1>2
<1> QED BY <1>3 DEF p

(* What the row before a date, or the first day, leaves.                   *)
LEMMA LeftIs ==
  ASSUME TypeOK, NEW d \in 1..Dates
  PROVE  /\ LeftBefore(d).equity \in Nat /\ LeftBefore(d).settled \in Nat /\ LeftBefore(d).due \in [Settling -> Nat]
         /\ \/ LeftBefore(d) = Fresh
            \/ \E x \in 1..Dates : /\ x < d /\ rows[x] # NoRow
                                   /\ LeftBefore(d) = [equity |-> rows[x].end, settled |-> rows[x].settled,
                                                       due |-> rows[x].due]
<1> DEFINE earlier == {x \in 1..(d - 1) : rows[x] # NoRow}
<1>1. CASE earlier = {}
  <2>1. LeftBefore(d) = Fresh
    BY <1>1 DEF LeftBefore
  <2>2. Fresh.equity \in Nat /\ Fresh.settled \in Nat /\ Fresh.due \in [Settling -> Nat]
    BY AmountsAssumption DEF Fresh, NoDue
  <2> QED BY <2>1, <2>2
<1>2. CASE earlier # {}
  <2>1. earlier \in SUBSET (0..Dates)
    BY Calendar
  <2>2. Max(earlier) \in earlier
    <3> HIDE DEF earlier
    <3> QED BY <1>2, <2>1, Calendar, GreatestOne
  <2>3. PICK x \in earlier : LeftBefore(d) = [equity |-> rows[x].end, settled |-> rows[x].settled, due |-> rows[x].due]
    BY <1>2, <2>2 DEF LeftBefore
  <2>4. x \in 1..Dates /\ x < d /\ rows[x] # NoRow
    BY Calendar
  <2>5. rows[x].end \in Nat /\ rows[x].settled \in Nat /\ rows[x].due \in [Settling -> Nat]
    BY <2>4 DEF TypeOK, RowType
  <2> QED BY <2>3, <2>4, <2>5
<1> QED BY <1>1, <1>2

(* The sum of what is due.                                                 *)
LEMMA TotalNat ==
  ASSUME NEW f, IsFiniteSet(DOMAIN f), \A x \in DOMAIN f : f[x] \in Nat
  PROVE  Total(f) \in Nat
BY SumNat DEF Total, SumFunction

LEMMA DueNat ==
  ASSUME NEW due \in [Settling -> Nat]
  PROVE  Total(due) \in Nat /\ \A d \in 1..Dates : Matured(due, d) \in Nat
<1>1. Total(due) \in Nat
  BY Calendar, TotalNat
<1>2. ASSUME NEW d \in 1..Dates PROVE Matured(due, d) \in Nat
  <2> DEFINE f == [x \in 1..d |-> due[x]]
  <2>1. DOMAIN f = 1..d /\ \A x \in 1..d : f[x] \in Nat
    BY Calendar
  <2>2. IsFiniteSet(1..d)
    BY Calendar, FS_Interval
  <2> HIDE DEF f
  <2>3. Total(f) \in Nat
    BY <2>1, <2>2, TotalNat
  <2> QED BY <2>3 DEF Matured, f
<1> QED BY <1>1, <1>2

LEMMA TypeStart == Init => TypeInv
<1> SUFFICES ASSUME Init PROVE TypeInv
  OBVIOUS
<1>1. 1 \in 1..Len(Sleeves) /\ Grid \in Nat /\ MaxRuns \in Nat
  <2>1. Sleeves \in Seq(STRING) /\ Sleeves # <<>>
    BY SleevesAssumption
  <2> QED BY <2>1, LenProperties, AmountsAssumption
<1>2. NoAccount \in AccountType
  BY DEF NoAccount, AccountType, NoDue
<1>3. TypeOK
  BY <1>1, <1>2, Calendar DEF Init, TypeOK, NoTuning, Events
<1>4. ExitsAhead
  BY DEF Init, ExitsAhead
<1> QED BY <1>3, <1>4 DEF TypeInv

LEMMA TypeBegin ==
  ASSUME TypeInv, NEW seq, seq = <<>> \/ seq \in DaySignals, NEW calendar, Begin(seq, calendar)
  PROVE  TypeInv'
<1>1. TypeOK /\ today \in 1..Dates
  BY DEF TypeInv, TypeOK
<1> DEFINE from == StartState(today)
           cash == from.settled + Matured(from.due, today)
           due  == NotMatured(from.due, today)
           day  == NextBusinessDay(today, calendar)
<1>2. /\ UNCHANGED <<today, rows, param, hist, moved, tuning>> /\ runs < MaxRuns /\ runs' = runs + 1
      /\ pc' = "trade" /\ sigs' = seq /\ todo' = Events(seq) /\ open' = <<>>
      /\ acct' = [equity |-> from.equity, opened |-> cash, settled |-> cash, due |-> due, net |-> 0, settle |-> day]
  BY DEF Begin
<1>3. from.equity \in Nat /\ from.settled \in Nat /\ from.due \in [Settling -> Nat]
  BY <1>1, LeftIs, StartsFromLeft
<1> HIDE DEF from
<1>4. cash \in Nat
  BY <1>1, <1>3, DueNat
<1>5. due \in [Settling -> Nat]
  BY <1>3 DEF NotMatured
<1>6. day \in Nat
  BY <1>1, SettlesLater, Calendar
<1> HIDE DEF cash, due, day
<1>7. acct' \in AccountType
  BY <1>2, <1>3, <1>4, <1>5, <1>6 DEF AccountType
<1>8. runs' \in 0..MaxRuns
  BY <1>1, <1>2, AmountsAssumption DEF TypeOK
<1>9. seq \in Seq(Signal) /\ \A i \in DOMAIN seq : seq[i].in < seq[i].out
  <2>1. CASE seq = <<>>
    <3>1. seq \in Seq(Signal) /\ DOMAIN seq = {}
      BY <2>1, LenProperties
    <3> QED BY <3>1
  <2>2. CASE seq \in DaySignals
    BY <2>2, SignalsAssumption
  <2> QED BY <2>1, <2>2
<1>10. TypeOK'
  BY <1>1, <1>2, <1>7, <1>8, <1>9 DEF TypeOK
<1>11. ExitsAhead'
  <2>1. \A i \in DOMAIN seq : [at |-> seq[i].out, kind |-> 0, i |-> i] \in Events(seq)
    BY DEF Events
  <2> QED BY <1>2, <1>9, <2>1 DEF ExitsAhead, ExitOf, EntryOf
<1> QED BY <1>10, <1>11 DEF TypeInv

LEMMA TypeBuys ==
  ASSUME TypeInv, EntryBuys
  PROVE  TypeInv'
<1>1. PICK e \in todo : /\ IsNext(e) /\ e.kind = 1 /\ todo' = todo \ {e}
                        /\ acct' = [acct EXCEPT !.settled = @ - Notional(sigs[e.i])]
                        /\ open' = [i \in DOMAIN open \cup {e.i} |-> IF i = e.i THEN Notional(sigs[i]) ELSE open[i]]
  BY DEF EntryBuys
<1>2. pc = "trade" /\ UNCHANGED <<today, rows, param, hist, runs, moved, pc, sigs, tuning>>
  BY DEF EntryBuys, Durable
<1>3. e.i \in DOMAIN sigs /\ e = EntryOf(e.i)
  BY <1>1, EventIs DEF TypeInv, TypeOK
<1>4. Notional(sigs[e.i]) \in Nat /\ Notional(sigs[e.i]) <= acct.settled
  BY <1>3, NotionalIs DEF TypeInv
<1>5. acct' \in AccountType
  <2>1. acct.settled - Notional(sigs[e.i]) \in Nat
    BY <1>4, AccountIs DEF TypeInv
  <2>2. acct \in AccountType
    BY DEF TypeInv, TypeOK
  <2> QED BY <1>1, <2>1, <2>2 DEF AccountType
<1>6. DOMAIN open' \subseteq DOMAIN sigs /\ \A i \in DOMAIN open' : open'[i] \in Nat
  BY <1>1, <1>3, <1>4 DEF TypeInv, TypeOK
<1>7. TypeOK'
  BY <1>1, <1>2, <1>5, <1>6 DEF TypeInv, TypeOK
<1>8. ASSUME NEW i \in DOMAIN sigs, ExitOf(i) \in todo PROVE ExitOf(i) \in todo'
  <2>1. ExitOf(i) # e
    BY <1>1, <1>3 DEF ExitOf, EntryOf
  <2> QED BY <1>1, <1>8, <2>1
<1>9. ExitsAhead'
  <2>1. ExitOf(e.i) \in todo'
    BY <1>1, <1>3, <1>8 DEF TypeInv, ExitsAhead
  <2>2. \A i \in DOMAIN open' : i = e.i \/ i \in DOMAIN open
    BY <1>1
  <2>3. DOMAIN open \subseteq DOMAIN sigs
    BY DEF TypeInv, TypeOK
  <2>4. \A i \in DOMAIN sigs : ExitOf(i)' = ExitOf(i) /\ EntryOf(i)' = EntryOf(i)
    BY <1>2 DEF ExitOf, EntryOf
  <2>5. \A i \in DOMAIN open' : ExitOf(i) \in todo'
    BY <1>8, <2>1, <2>2, <2>3 DEF TypeInv, ExitsAhead
  <2>6. \A i \in DOMAIN sigs : EntryOf(i) \in todo' => ExitOf(i) \in todo'
    BY <1>1, <1>8 DEF TypeInv, ExitsAhead
  <2> QED BY <1>2, <1>6, <2>4, <2>5, <2>6 DEF TypeInv, ExitsAhead
<1> QED BY <1>7, <1>9 DEF TypeInv

LEMMA TypeSells ==
  ASSUME TypeInv, ExitSells
  PROVE  TypeInv'
<1> DEFINE proceeds(e) == (open[e.i] * sigs[e.i].worth) \div 100
<1>1. PICK e \in todo : /\ IsNext(e) /\ e.kind = 0 /\ e.i \in DOMAIN open /\ todo' = todo \ {e}
                        /\ acct' = [Paid(acct, proceeds(e)) EXCEPT !.net = @ + proceeds(e) - open[e.i]]
                        /\ open' = [i \in DOMAIN open \ {e.i} |-> open[i]]
  BY DEF ExitSells
<1>2. pc = "trade" /\ UNCHANGED <<today, rows, param, hist, runs, moved, pc, sigs, tuning>>
  BY DEF ExitSells, Durable
<1>3. e.i \in DOMAIN sigs /\ e = ExitOf(e.i) /\ EntryOf(e.i) \notin todo
  BY <1>1, EntryFirst
<1>4. open[e.i] \in Nat /\ sigs[e.i].worth \in Nat
  BY <1>1, <1>3, SignalIs DEF TypeInv, TypeOK
<1>5. proceeds(e) \in Nat
  BY <1>4, ProceedsNat
<1>6. PICK p \in Nat, n \in Int : acct' = [Paid(acct, p) EXCEPT !.net = n]
  <2>1. acct.net + proceeds(e) - open[e.i] \in Int /\ Paid(acct, proceeds(e)).net = acct.net
    BY <1>4, <1>5, AccountIs DEF TypeInv, Paid, Fields
  <2> HIDE DEF proceeds
  <2> QED BY <1>1, <1>5, <2>1
<1>7. acct' \in AccountType
  <2> DEFINE due == [acct.due EXCEPT ![acct.settle] = acct.due[acct.settle] + p]
  <2>1. acct.due \in [Settling -> Nat] /\ acct \in AccountType
    BY AccountIs DEF TypeInv, TypeOK
  <2>2. due \in [Settling -> Nat]
    <3>1. acct.settle \in Settling => acct.due[acct.settle] + p \in Nat
      BY <2>1
    <3> QED BY <2>1, <3>1
  <2>3. Paid(acct, p) = [acct EXCEPT !.due = due]
    BY DEF Paid
  <2> HIDE DEF due
  <2> QED BY <1>6, <2>1, <2>2, <2>3 DEF AccountType
<1>8. TypeOK'
  BY <1>1, <1>2, <1>7 DEF TypeInv, TypeOK
<1>9. ExitsAhead'
  <2>1. \A i \in DOMAIN open' : i \in DOMAIN open /\ i # e.i
    BY <1>1
  <2>2. DOMAIN open \subseteq DOMAIN sigs
    BY DEF TypeInv, TypeOK
  <2>3. \A i \in DOMAIN sigs : ExitOf(i)' = ExitOf(i) /\ EntryOf(i)' = EntryOf(i) /\ ExitOf(i).i = i
    BY <1>2 DEF ExitOf, EntryOf
  <2>4. \A i \in DOMAIN open' : ExitOf(i) \in todo'
    BY <1>1, <2>1, <2>2, <2>3 DEF TypeInv, ExitsAhead
  <2>5. \A i \in DOMAIN sigs : EntryOf(i) \in todo' => ExitOf(i) \in todo'
    BY <1>1, <1>3, <2>3 DEF TypeInv, ExitsAhead
  <2> QED BY <1>2, <2>1, <2>2, <2>3, <2>4, <2>5 DEF TypeInv, ExitsAhead
<1> QED BY <1>8, <1>9 DEF TypeInv

LEMMA TypeSkips ==
  ASSUME TypeInv, EntrySkipped \/ ExitOfNothing
  PROVE  TypeInv'
<1>1. PICK e \in todo : IsNext(e) /\ todo' = todo \ {e}
                        /\ (e.kind = 1 \/ (e.kind = 0 /\ e.i \notin DOMAIN open))
  BY DEF EntrySkipped, ExitOfNothing
<1>2. pc = "trade" /\ UNCHANGED <<today, rows, param, hist, runs, moved, pc, acct, sigs, open, tuning>>
  BY DEF EntrySkipped, ExitOfNothing, Durable
<1>3. TypeOK'
  BY <1>1, <1>2 DEF TypeInv, TypeOK
<1>4. \A i \in DOMAIN sigs : ExitOf(i)' = ExitOf(i) /\ EntryOf(i)' = EntryOf(i) /\ ExitOf(i).i = i /\ ExitOf(i).kind = 0
  BY <1>2 DEF ExitOf, EntryOf
<1>5. e.kind = 0 => EntryOf(e.i) \notin todo
  BY <1>1, EntryFirst
<1>6. DOMAIN open \subseteq DOMAIN sigs
  BY DEF TypeInv, TypeOK
<1>7. \A i \in DOMAIN open : ExitOf(i) \in todo'
  BY <1>1, <1>4, <1>6 DEF TypeInv, ExitsAhead
<1>8. \A i \in DOMAIN sigs : EntryOf(i) \in todo' => ExitOf(i) \in todo'
  BY <1>1, <1>4, <1>5 DEF TypeInv, ExitsAhead
<1>9. ExitsAhead'
  BY <1>2, <1>4, <1>6, <1>7, <1>8 DEF TypeInv, ExitsAhead
<1> QED BY <1>3, <1>9 DEF TypeInv

LEMMA TypeWrites ==
  ASSUME TypeInv, WriteDay
  PROVE  TypeInv'
<1> DEFINE row == [start |-> acct.equity, opened |-> acct.opened, settled |-> acct.settled, due |-> acct.due,
                   end |-> acct.settled + Total(acct.due)]
<1>1. /\ pc = "trade" /\ todo = {} /\ rows' = [rows EXCEPT ![today] = row]
      /\ pc' = "check" /\ tuning' = NoTuning /\ acct' = NoAccount /\ sigs' = <<>>
      /\ UNCHANGED <<today, param, hist, runs, moved, todo, open>>
  BY DEF WriteDay
<1>2. row \in RowType
  BY AccountIs, DueNat DEF TypeInv, RowType
<1> HIDE DEF row
<1>3. DOMAIN open = {}
  BY <1>1 DEF TypeInv, ExitsAhead
<1>4. NoAccount \in AccountType /\ NoTuning \in [at : 1..Len(Sleeves), index : 0..Grid]
  <2>1. Sleeves \in Seq(STRING) /\ Sleeves # <<>> /\ Grid \in Nat
    BY SleevesAssumption, AmountsAssumption
  <2>2. 1 \in 1..Len(Sleeves)
    BY <2>1, LenProperties
  <2> QED BY <2>1, <2>2 DEF NoAccount, AccountType, NoDue, NoTuning
<1>5. rows' \in [1..Dates -> RowType \cup {NoRow}]
  BY <1>1, <1>2 DEF TypeInv, TypeOK
<1>6. TypeOK'
  BY <1>1, <1>3, <1>4, <1>5 DEF TypeInv, TypeOK
<1>7. ExitsAhead'
  BY <1>1, <1>3 DEF ExitsAhead
<1> QED BY <1>6, <1>7 DEF TypeInv

LEMMA TypeTunes ==
  ASSUME TypeInv, AlreadyTuned \/ Scores \/ WriteParams \/ WriteHistory \/ TuneFails
  PROVE  TypeInv'
<1>1. /\ pc # "trade" /\ pc' # "trade" /\ UNCHANGED <<today, rows, runs, acct, sigs, todo, open>>
  BY DEF AlreadyTuned, Scores, WriteParams, WriteHistory, TuneFails, NextSleeve, Durable
<1>2. Len(Sleeves) \in Nat /\ 1 \in 1..Len(Sleeves) /\ tuning.at \in 1..Len(Sleeves) /\ tuning.index \in 0..Grid
      /\ Grid \in Nat /\ Sleeve \in Tuned /\ param[Sleeve] \in 0..Grid
  <2>1. Sleeves \in Seq(STRING) /\ Sleeves # <<>> /\ Grid \in Nat
    BY SleevesAssumption, AmountsAssumption
  <2>2. Len(Sleeves) \in Nat /\ 1 \in 1..Len(Sleeves) /\ DOMAIN Sleeves = 1..Len(Sleeves)
    BY <2>1, LenProperties
  <2>3. tuning.at \in 1..Len(Sleeves) /\ tuning.index \in 0..Grid
    BY DEF TypeInv, TypeOK
  <2>4. Sleeve \in Tuned
    BY <2>2, <2>3 DEF Sleeve, Tuned, Range
  <2> QED BY <2>1, <2>2, <2>3, <2>4 DEF TypeInv, TypeOK
<1> DEFINE Place == [at : 1..Len(Sleeves), index : 0..Grid]
<1>3. NoTuning \in Place
  BY <1>2 DEF NoTuning
<1>4. NextSleeve => pc' \in {"idle", "check"} /\ tuning' \in Place
  <2>1. CASE tuning.at = Len(Sleeves)
    BY <1>3, <2>1 DEF NextSleeve
  <2>2. CASE tuning.at # Len(Sleeves)
    <3>1. tuning.at + 1 \in 1..Len(Sleeves) /\ 0 \in 0..Grid
      BY <1>2, <2>2
    <3> QED BY <2>2, <3>1 DEF NextSleeve
  <2> QED BY <2>1, <2>2
<1>5. /\ pc' \in {"idle", "check", "write", "history"} /\ tuning' \in Place
      /\ param' \in [Tuned -> 0..Grid] /\ hist' \in [Tuned -> SUBSET (1..Dates)] /\ moved' \in [Tuned -> Int]
  <2>0. /\ param \in [Tuned -> 0..Grid] /\ hist \in [Tuned -> SUBSET (1..Dates)] /\ moved \in [Tuned -> Int]
        /\ tuning \in Place /\ today \in 1..Dates
    BY DEF TypeInv, TypeOK
  <2>1. CASE AlreadyTuned \/ TuneFails
    BY <1>3, <1>4, <2>0, <2>1 DEF AlreadyTuned, TuneFails, Durable
  <2>2. CASE Scores
    <3>1. PICK best \in 0..Grid :
            tuning' = [tuning EXCEPT !.index =
              IF best > param[Sleeve] THEN param[Sleeve] + 1 ELSE IF best < param[Sleeve] THEN param[Sleeve] - 1 ELSE param[Sleeve]]
      BY <2>2 DEF Scores
    <3> DEFINE step == IF best > param[Sleeve] THEN param[Sleeve] + 1
                       ELSE IF best < param[Sleeve] THEN param[Sleeve] - 1 ELSE param[Sleeve]
    <3>2. step \in 0..Grid /\ tuning' = [tuning EXCEPT !.index = step]
      BY <1>2, <3>1
    <3> HIDE DEF step
    <3>3. tuning' \in Place
      BY <2>0, <3>2
    <3> QED BY <2>0, <2>2, <3>3 DEF Scores, Durable
  <2>3. CASE WriteParams
    BY <1>2, <2>0, <2>3 DEF WriteParams
  <2>4. CASE WriteHistory
    BY <1>2, <1>4, <2>0, <2>4 DEF WriteHistory, Noted
  <2> QED BY <2>1, <2>2, <2>3, <2>4
<1>6. TypeOK'
  BY <1>1, <1>5 DEF TypeInv, TypeOK
<1>7. ExitsAhead'
  BY <1>1 DEF TypeInv, ExitsAhead, ExitOf, EntryOf
<1> QED BY <1>6, <1>7 DEF TypeInv

LEMMA TypeStep == TypeInv /\ [Next]_vars => TypeInv'
<1> SUFFICES ASSUME TypeInv, [Next]_vars PROVE TypeInv'
  OBVIOUS
<1>1. CASE NightlyStarts \/ HandStarts
  <2>1. PICK seq, calendar : (seq = <<>> \/ seq \in DaySignals) /\ Begin(seq, calendar)
    BY <1>1 DEF NightlyStarts, HandStarts
  <2> QED BY <2>1, TypeBegin
<1>2. CASE EntryBuys
  BY <1>2, TypeBuys
<1>3. CASE ExitSells
  BY <1>3, TypeSells
<1>4. CASE EntrySkipped \/ ExitOfNothing
  BY <1>4, TypeSkips
<1>5. CASE WriteDay
  BY <1>5, TypeWrites
<1>6. CASE AlreadyTuned \/ Scores \/ WriteParams \/ WriteHistory \/ TuneFails
  BY <1>6, TypeTunes
<1>7. CASE Kill
  <2>1. /\ pc' = "idle" /\ acct' = NoAccount /\ sigs' = <<>> /\ todo' = {} /\ open' = <<>> /\ tuning' = NoTuning
        /\ UNCHANGED <<today, rows, param, hist, runs, moved>>
    BY <1>7 DEF Kill, Durable
  <2>2. NoAccount \in AccountType /\ NoTuning \in [at : 1..Len(Sleeves), index : 0..Grid]
    <3>1. Sleeves \in Seq(STRING) /\ Sleeves # <<>> /\ Grid \in Nat
      BY SleevesAssumption, AmountsAssumption
    <3>2. 1 \in 1..Len(Sleeves)
      BY <3>1, LenProperties
    <3> QED BY <3>1, <3>2 DEF NoAccount, AccountType, NoDue, NoTuning
  <2>3. TypeOK'
    BY <2>1, <2>2 DEF TypeInv, TypeOK
  <2> QED BY <2>1, <2>3 DEF TypeInv, ExitsAhead
<1>8. CASE NewDay
  <2>1. /\ pc = "idle" /\ today < Dates /\ today' = today + 1 /\ moved' = [s \in Tuned |-> 0]
        /\ UNCHANGED <<rows, param, hist, runs, pc, acct, sigs, todo, open, tuning>>
    BY <1>8 DEF NewDay
  <2>2. today' \in 1..Dates
    BY <2>1, Calendar DEF TypeInv, TypeOK
  <2>3. TypeOK'
    BY <2>1, <2>2 DEF TypeInv, TypeOK
  <2> QED BY <2>1, <2>3 DEF TypeInv, ExitsAhead, ExitOf, EntryOf
<1>9. CASE UNCHANGED vars
  BY <1>9 DEF vars, TypeInv, TypeOK, ExitsAhead, ExitOf, EntryOf
<1> QED BY <1>1, <1>2, <1>3, <1>4, <1>5, <1>6, <1>7, <1>8, <1>9 DEF Next

(* P100TypeCorrect: the type invariant, for any signals and calendar: no   *)
(* purchase takes more than the settled cash, so that cash never goes      *)
(* below zero (p100.py simulate).                                          *)
THEOREM P100TypeCorrect == Spec => []TypeOK
<1>1. TypeInv => TypeOK
  BY DEF TypeInv
<1> QED BY <1>1, TypeStart, TypeStep, PTL DEF Spec
-----------------------------------------------------------------------------
(* The cash.                                                               *)

\* What a row says the account is worth is what it holds and is owed.
RowsAddUp == \A d \in 1..Dates : rows[d] # NoRow => rows[d].end = rows[d].settled + Total(rows[d].due)

\* No proceeds that were to come are forgotten, in a run or in a row.
DueKept == pc = "trade" => \A x \in (today + 1)..(Dates + 3) : acct.due[x] >= LeftBefore(today).due[x]
DueChains ==
  \A d \in 1..Dates : rows[d] # NoRow =>
    \A x \in (d + 1)..(Dates + 3) : rows[d].due[x] >= LeftBefore(d).due[x]

CashInv == TypeInv /\ LedgerInv /\ RowsAddUp /\ CashKept /\ DueKept /\ DueChains

LEMMA TotalOfZeros ==
  ASSUME NEW f, IsFiniteSet(DOMAIN f), \A x \in DOMAIN f : f[x] = 0
  PROVE  Total(f) = 0
BY SumOfZeros DEF Total, SumFunction

LEMMA OpenIs ==
  ASSUME TypeOK
  PROVE  IsFiniteSet(DOMAIN open) /\ \A i \in DOMAIN open : open[i] \in Int
<1>1. sigs \in Seq(Signal) /\ DOMAIN open \subseteq DOMAIN sigs /\ \A i \in DOMAIN open : open[i] \in Nat
  BY DEF TypeOK
<1>2. DOMAIN sigs = 1..Len(sigs) /\ Len(sigs) \in Nat
  BY <1>1, LenProperties
<1>3. IsFiniteSet(1..Len(sigs))
  BY <1>2, FS_Interval
<1>4. IsFiniteSet(DOMAIN open)
  BY <1>1, <1>2, <1>3, FS_Subset
<1> QED BY <1>1, <1>4

(* One more term.                                                          *)
LEMMA TotalAdds ==
  ASSUME NEW f, NEW g, NEW i, IsFiniteSet(DOMAIN f), i \notin DOMAIN f, DOMAIN g = DOMAIN f \cup {i},
         \A x \in DOMAIN f : g[x] = f[x] /\ f[x] \in Int, g[i] \in Int
  PROVE  Total(f) \in Int /\ Total(g) = Total(f) + g[i]
<1>1. IsFiniteSet(DOMAIN g) /\ \A x \in DOMAIN g : g[x] \in Int
  BY FS_AddElement
<1>2. SumFunctionOnSet(g, DOMAIN g) = g[i] + SumFunctionOnSet(g, DOMAIN g \ {i})
  BY <1>1, SumTakes
<1>3. DOMAIN g \ {i} = DOMAIN f
  OBVIOUS
<1>4. SumFunctionOnSet(g, DOMAIN f) = SumFunctionOnSet(f, DOMAIN f)
  BY SumAgrees
<1>5. SumFunctionOnSet(f, DOMAIN f) \in Int
  BY SumInt
<1> QED BY <1>2, <1>3, <1>4, <1>5 DEF Total, SumFunction

(* A term that grows.                                                      *)
LEMMA TotalGrows ==
  ASSUME NEW f, NEW g, NEW i, IsFiniteSet(DOMAIN f), i \in DOMAIN f, DOMAIN g = DOMAIN f, NEW p \in Int,
         \A x \in DOMAIN f : f[x] \in Int /\ g[x] = IF x = i THEN f[x] + p ELSE f[x]
  PROVE  Total(g) = Total(f) + p
<1> DEFINE rest == DOMAIN f \ {i}
<1>1. IsFiniteSet(rest) /\ \A x \in rest : g[x] = f[x] /\ f[x] \in Int
  BY FS_Subset
<1>2. f[i] \in Int /\ g[i] = f[i] + p /\ \A x \in DOMAIN f : g[x] \in Int
  OBVIOUS
<1>3. SumFunctionOnSet(f, DOMAIN f) = f[i] + SumFunctionOnSet(f, rest)
  BY SumTakes
<1>4. SumFunctionOnSet(g, DOMAIN f) = g[i] + SumFunctionOnSet(g, rest)
  BY <1>2, SumTakes
<1> HIDE DEF rest
<1>5. SumFunctionOnSet(g, rest) = SumFunctionOnSet(f, rest) /\ SumFunctionOnSet(f, rest) \in Int
  BY <1>1, SumAgrees, SumInt
<1> QED BY <1>2, <1>3, <1>4, <1>5 DEF Total, SumFunction

(* Money that was due has matured or is still due.                         *)
LEMMA MaturedSplits ==
  ASSUME NEW due \in [Settling -> Nat], NEW d \in 1..Dates
  PROVE  Total(due) = Matured(due, d) + Total(NotMatured(due, d))
<1> DEFINE past == 1..d
           rest == Settling \ past
           f == [x \in past |-> due[x]]
           g == NotMatured(due, d)
<1>1. /\ past \in SUBSET Settling /\ IsFiniteSet(past) /\ IsFiniteSet(rest) /\ IsFiniteSet(Settling)
      /\ \A x \in Settling : due[x] \in Nat
  <2>1. past \in SUBSET Settling /\ rest \in SUBSET Settling /\ IsFiniteSet(Settling)
    BY Calendar
  <2> HIDE DEF past, rest
  <2>2. IsFiniteSet(past) /\ IsFiniteSet(rest)
    BY <2>1, FS_Subset
  <2> QED BY <2>1, <2>2
<1>2. DOMAIN f = past /\ (\A x \in past : f[x] = due[x]) /\ DOMAIN due = Settling /\ DOMAIN g = Settling
  BY DEF NotMatured
<1>3. (\A x \in past : g[x] = 0) /\ (\A x \in rest : g[x] = due[x])
  <2>1. \A x \in Settling : x \in Nat /\ (x <= d <=> x \in past)
    BY Calendar DEF Settling
  <2> QED BY <1>1, <2>1 DEF NotMatured
<1>a. \A x \in Settling : g[x] \in Int /\ due[x] \in Int
  BY <1>1 DEF NotMatured
<1> HIDE DEF past, f, g
<1>4. SumFunctionOnSet(due, Settling) = SumFunctionOnSet(due, past) + SumFunctionOnSet(due, rest)
  BY <1>1, <1>a, SumSplits
<1>5. SumFunctionOnSet(g, Settling) = SumFunctionOnSet(g, past) + SumFunctionOnSet(g, rest)
  BY <1>1, <1>a, SumSplits
<1>6. SumFunctionOnSet(g, past) = 0
  BY <1>1, <1>3, SumOfZeros
<1>7. SumFunctionOnSet(f, past) = SumFunctionOnSet(due, past)
  BY <1>1, <1>2, SumAgrees
<1>8. SumFunctionOnSet(g, rest) = SumFunctionOnSet(due, rest)
  <2> HIDE DEF rest
  <2> QED BY <1>1, <1>3, SumAgrees
<1>9. SumFunctionOnSet(due, rest) \in Int
  <2>1. \A x \in rest : due[x] \in Int
    BY <1>a
  <2> HIDE DEF rest
  <2> QED BY <1>1, <2>1, SumInt
<1>10. Matured(due, d) = Total(f)
  BY DEF Matured, f, past
<1> HIDE DEF rest
<1>11. Total(due) = SumFunctionOnSet(due, Settling) /\ Total(g) = SumFunctionOnSet(g, Settling)
       /\ Total(f) = SumFunctionOnSet(f, past)
  BY <1>2 DEF Total, SumFunction
<1> QED BY <1>4, <1>5, <1>6, <1>7, <1>8, <1>9, <1>10, <1>11 DEF g

LEMMA LeftAddsUp ==
  ASSUME TypeOK, RowsAddUp, NEW d \in 1..Dates
  PROVE  LeftBefore(d).equity = LeftBefore(d).settled + Total(LeftBefore(d).due)
<1>1. CASE LeftBefore(d) = Fresh
  <2>1. IsFiniteSet(DOMAIN NoDue) /\ \A x \in DOMAIN NoDue : NoDue[x] = 0
    BY Calendar DEF NoDue
  <2>2. Total(NoDue) = 0
    BY <2>1, TotalOfZeros
  <2> QED BY <1>1, <2>2, AmountsAssumption DEF Fresh
<1>2. CASE LeftBefore(d) # Fresh
  <2>1. PICK x \in 1..Dates : /\ rows[x] # NoRow
                              /\ LeftBefore(d) = [equity |-> rows[x].end, settled |-> rows[x].settled,
                                                  due |-> rows[x].due]
    BY <1>2, LeftIs
  <2> QED BY <2>1 DEF RowsAddUp
<1> QED BY <1>1, <1>2

LEMMA RowsStand ==
  ASSUME CashInv, UNCHANGED rows
  PROVE  RowsAddUp' /\ DueChains'
<1>1. \A d \in 1..Dates : LeftBefore(d)' = LeftBefore(d)
  BY DEF LeftBefore
<1> QED BY <1>1 DEF CashInv, RowsAddUp, DueChains

LEMMA CashStart == Init => CashInv
<1> SUFFICES ASSUME Init PROVE CashInv
  OBVIOUS
<1>1. TypeInv /\ LedgerInv
  BY TypeStart, LedgerInit
<1>2. RowsAddUp /\ CashKept /\ DueKept /\ DueChains
  BY DEF Init, RowsAddUp, CashKept, DueKept, DueChains
<1> QED BY <1>1, <1>2 DEF CashInv

LEMMA CashBegin ==
  ASSUME CashInv, NEW seq, NEW calendar, Begin(seq, calendar)
  PROVE  CashKept' /\ DueKept' /\ RowsAddUp' /\ DueChains'
<1>0. TypeOK /\ today \in 1..Dates /\ RowsAddUp
  BY DEF CashInv, TypeInv, TypeOK
<1> DEFINE from == LeftBefore(today)
           cash == from.settled + Matured(from.due, today)
           due  == NotMatured(from.due, today)
<1>1. /\ UNCHANGED <<today, rows>> /\ pc' = "trade" /\ open' = <<>> /\ sigs' = seq
      /\ acct' = [equity |-> from.equity, opened |-> cash, settled |-> cash, due |-> due,
                  net |-> 0, settle |-> NextBusinessDay(today, calendar)]
  BY <1>0, StartsFromLeft DEF Begin
<1>2. from.equity \in Nat /\ from.settled \in Nat /\ from.due \in [Settling -> Nat]
  BY <1>0, LeftIs
<1>3. from.equity = from.settled + Total(from.due)
  BY <1>0, LeftAddsUp
<1>4. Total(from.due) = Matured(from.due, today) + Total(due)
  BY <1>0, <1>2, MaturedSplits
<1>5. due \in [Settling -> Nat] /\ (\A x \in 1..today : due[x] = 0)
      /\ (\A x \in (today + 1)..(Dates + 3) : due[x] = from.due[x])
  <2>1. today \in Nat /\ 1..today \subseteq Settling /\ Dates \in Nat
    BY <1>0, Calendar
  <2> HIDE DEF from
  <2> QED BY <1>2, <2>1 DEF NotMatured, Settling
<1>6. Matured(from.due, today) \in Nat /\ Total(due) \in Nat
  BY <1>0, <1>2, <1>5, DueNat
<1>7. Total(open') = 0 /\ DOMAIN open' = {}
  <2>1. DOMAIN open' = {}
    BY <1>1
  <2> QED BY <2>1, FS_EmptySet, TotalOfZeros
<1>8. LeftBefore(today)' = from
  BY <1>1 DEF LeftBefore
<1> HIDE DEF from, due
<1>9. /\ acct'.equity = from.equity /\ acct'.opened = cash /\ acct'.settled = cash /\ acct'.due = due
      /\ acct'.net = 0
  BY <1>1
<1>10. CashKept'
  BY <1>1, <1>2, <1>3, <1>4, <1>5, <1>6, <1>7, <1>9 DEF CashKept
<1>11. DueKept'
  <2> SUFFICES ASSUME NEW x \in (today + 1)..(Dates + 3) PROVE due[x] >= from.due[x]
    BY <1>1, <1>8, <1>9 DEF DueKept
  <2>1. x \in Settling
    BY <1>0, Calendar DEF Settling
  <2> QED BY <1>2, <1>5, <2>1
<1> QED BY <1>1, <1>10, <1>11, RowsStand

LEMMA CashBuys ==
  ASSUME CashInv, EntryBuys
  PROVE  CashKept' /\ DueKept'
<1>0. TypeInv /\ TypeOK /\ CashKept /\ DueKept
  BY DEF CashInv, TypeInv
<1>1. PICK e \in todo : /\ e.kind = 1 /\ Taken(sigs[e.i])
                        /\ acct' = [acct EXCEPT !.settled = @ - Notional(sigs[e.i])]
                        /\ open' = [i \in DOMAIN open \cup {e.i} |-> IF i = e.i THEN Notional(sigs[i]) ELSE open[i]]
  BY DEF EntryBuys
<1>2. pc = "trade" /\ UNCHANGED <<today, rows, pc, sigs>>
  BY DEF EntryBuys, Durable
<1>3. e.i \in DOMAIN sigs
  BY <1>0, EventIs DEF TypeOK
<1> DEFINE n == Notional(sigs[e.i])
<1>4. n \in Nat
  BY <1>0, <1>3, NotionalIs
<1>5. e.i \notin DOMAIN open /\ \A i \in DOMAIN open : Held(sigs[i]) # Held(sigs[e.i])
  BY <1>1 DEF Taken
<1>6. DOMAIN open' = DOMAIN open \cup {e.i} /\ open'[e.i] = n /\ \A i \in DOMAIN open : open'[i] = open[i]
  BY <1>1, <1>5
<1> HIDE DEF n
<1>7. IsFiniteSet(DOMAIN open) /\ \A i \in DOMAIN open : open[i] \in Int
  BY <1>0, OpenIs
<1>8. Total(open) \in Int /\ Total(open') = Total(open) + n
  BY <1>4, <1>5, <1>6, <1>7, TotalAdds
<1>9. /\ acct'.equity = acct.equity /\ acct'.opened = acct.opened /\ acct'.settled = acct.settled - n
      /\ acct'.due = acct.due /\ acct'.net = acct.net
  BY <1>0, <1>1, AccountIs DEF n, Fields
<1>10. acct.settled \in Nat /\ acct.opened \in Nat /\ Total(acct.due) \in Nat /\ acct.equity \in Nat /\ acct.net \in Int
  BY <1>0, AccountIs, DueNat
<1>11. \A i, j \in DOMAIN open' : Held(sigs[i]) = Held(sigs[j]) => i = j
  BY <1>0, <1>2, <1>5, <1>6 DEF CashKept
<1>12. \A i : Held(sigs[i])' = Held(sigs[i])
  BY <1>2 DEF Held
<1>13. CashKept'
  BY <1>0, <1>2, <1>4, <1>8, <1>9, <1>10, <1>11, <1>12 DEF CashKept
<1>14. LeftBefore(today)' = LeftBefore(today)
  BY <1>2 DEF LeftBefore
<1> QED BY <1>0, <1>2, <1>9, <1>13, <1>14 DEF DueKept

LEMMA CashSells ==
  ASSUME CashInv, ExitSells
  PROVE  CashKept' /\ DueKept'
<1>0. TypeInv /\ TypeOK /\ CashKept /\ DueKept /\ LedgerInv
  BY DEF CashInv, TypeInv
<1> DEFINE proceeds(e) == (open[e.i] * sigs[e.i].worth) \div 100
<1>1. PICK e \in todo : /\ e.kind = 0 /\ e.i \in DOMAIN open
                        /\ acct' = [Paid(acct, proceeds(e)) EXCEPT !.net = @ + proceeds(e) - open[e.i]]
                        /\ open' = [i \in DOMAIN open \ {e.i} |-> open[i]]
  BY DEF ExitSells
<1>2. pc = "trade" /\ UNCHANGED <<today, rows, pc, sigs>>
  BY DEF ExitSells, Durable
<1>3. open[e.i] \in Nat /\ sigs[e.i].worth \in Nat
  BY <1>0, <1>1, SignalIs DEF TypeOK
<1> DEFINE p == proceeds(e)
<1>4. p \in Nat
  BY <1>3, ProceedsNat
<1>5. acct' = [Paid(acct, p) EXCEPT !.net = @ + p - open[e.i]]
  BY <1>1
<1> HIDE DEF p, proceeds
<1>6. /\ acct.settle \in Settling /\ acct.settle > today /\ acct.due \in [Settling -> Nat] /\ DOMAIN acct = Fields
      /\ today \in Nat /\ Dates \in Nat /\ 1..today \subseteq Settling /\ (today + 1)..(Dates + 3) \subseteq Settling
  <2>1. /\ acct.settle \in Settling /\ acct.settle > today
    BY <1>0, <1>2 DEF LedgerInv, RunBegan
  <2>2. acct.due \in [Settling -> Nat] /\ DOMAIN acct = Fields
    BY <1>0, AccountIs
  <2>3. today \in 1..Dates /\ Dates \in Nat
    BY <1>0, Calendar DEF LedgerInv
  <2>4. today \in Nat /\ 1..today \subseteq Settling /\ (today + 1)..(Dates + 3) \subseteq Settling
    BY <2>3 DEF Settling
  <2> QED BY <2>1, <2>2, <2>3, <2>4
<1> DEFINE due == [acct.due EXCEPT ![acct.settle] = acct.due[acct.settle] + p]
<1>7. Paid(acct, p) = [acct EXCEPT !.due = due]
  BY DEF Paid
<1>8. /\ DOMAIN due = Settling
      /\ \A x \in Settling : acct.due[x] \in Nat /\ due[x] = IF x = acct.settle THEN acct.due[x] + p ELSE acct.due[x]
  BY <1>6
<1> HIDE DEF due
<1>9. /\ acct'.equity = acct.equity /\ acct'.opened = acct.opened /\ acct'.settled = acct.settled
      /\ acct'.due = due /\ acct'.net = acct.net + p - open[e.i]
  BY <1>5, <1>6, <1>7 DEF Fields
<1>10. Total(due) = Total(acct.due) + p
  <2> DEFINE old == acct.due
             day == acct.settle
  <2>1. DOMAIN old = Settling /\ IsFiniteSet(DOMAIN old) /\ p \in Int /\ day \in DOMAIN old
    BY <1>4, <1>6, Calendar
  <2>2. DOMAIN due = DOMAIN old
        /\ \A x \in DOMAIN old : old[x] \in Int /\ due[x] = IF x = day THEN old[x] + p ELSE old[x]
    BY <1>8, <2>1
  <2> HIDE DEF old, day
  <2>3. Total(due) = Total(old) + p
    BY <2>1, <2>2, TotalGrows
  <2> QED BY <2>3 DEF old
<1>11. IsFiniteSet(DOMAIN open) /\ \A i \in DOMAIN open : open[i] \in Int
  BY <1>0, OpenIs
<1>12. Total(open') \in Int /\ Total(open) = Total(open') + open[e.i]
  <2>1. DOMAIN open' = DOMAIN open \ {e.i} /\ \A i \in DOMAIN open' : open[i] = open'[i] /\ open'[i] \in Int
    BY <1>1, <1>11
  <2>2. IsFiniteSet(DOMAIN open') /\ e.i \notin DOMAIN open' /\ DOMAIN open = DOMAIN open' \cup {e.i}
    BY <1>1, <1>11, <2>1, FS_Subset
  <2>3. open[e.i] \in Int
    BY <1>3
  <2> DEFINE new == open'
             i == e.i
  <2>4. /\ IsFiniteSet(DOMAIN new) /\ i \notin DOMAIN new /\ DOMAIN open = DOMAIN new \cup {i}
        /\ (\A x \in DOMAIN new : open[x] = new[x] /\ new[x] \in Int) /\ open[i] \in Int
    BY <2>1, <2>2, <2>3
  <2> HIDE DEF new, i
  <2>5. Total(new) \in Int /\ Total(open) = Total(new) + open[i]
    BY <2>4, TotalAdds
  <2> QED BY <2>5 DEF new, i
<1>13. acct.settled \in Nat /\ acct.opened \in Nat /\ Total(acct.due) \in Nat /\ acct.equity \in Nat /\ acct.net \in Int
  BY <1>0, AccountIs, DueNat
<1>14. \A i, j \in DOMAIN open' : Held(sigs[i]) = Held(sigs[j]) => i = j
  BY <1>0, <1>1, <1>2 DEF CashKept
<1>15. \A i : Held(sigs[i])' = Held(sigs[i])
  BY <1>2 DEF Held
<1>16. \A x \in 1..today : due[x] = 0
  BY <1>0, <1>2, <1>6, <1>8 DEF CashKept
<1>17. CashKept'
  <2>1. /\ acct.settled + Total(acct.due) + Total(open) = acct.equity + acct.net
        /\ acct.settled + Total(open) <= acct.opened
    BY <1>0, <1>2 DEF CashKept
  <2>2. acct'.settled + Total(acct'.due) + Total(open') = acct'.equity + acct'.net
    BY <1>3, <1>4, <1>9, <1>10, <1>12, <1>13, <2>1
  <2>3. acct'.settled + Total(open') <= acct'.opened
    BY <1>3, <1>9, <1>12, <1>13, <2>1
  <2>4. Total(acct.due)' = Total(acct'.due) /\ Total(open)' = Total(open')
    BY DEF Total
  <2> QED BY <1>2, <1>9, <1>14, <1>15, <1>16, <2>2, <2>3, <2>4 DEF CashKept
<1>18. LeftBefore(today)' = LeftBefore(today)
  BY <1>2 DEF LeftBefore
<1>19. DueKept'
  <2> SUFFICES ASSUME NEW x \in (today + 1)..(Dates + 3) PROVE due[x] >= LeftBefore(today).due[x]
    BY <1>2, <1>9, <1>18 DEF DueKept
  <2>1. acct.due[x] >= LeftBefore(today).due[x] /\ x \in Settling
    BY <1>0, <1>2, <1>6 DEF DueKept
  <2>2. LeftBefore(today).due[x] \in Nat
    BY <1>0, <2>1, LeftIs DEF TypeOK
  <2> QED BY <1>4, <1>8, <2>1, <2>2
<1> QED BY <1>17, <1>19

LEMMA CashWrites ==
  ASSUME CashInv, WriteDay
  PROVE  RowsAddUp' /\ DueChains'
<1>0. TypeInv /\ TypeOK /\ RowsAddUp /\ DueKept /\ DueChains /\ LedgerInv
  BY DEF CashInv, TypeInv
<1> DEFINE row == [start |-> acct.equity, opened |-> acct.opened, settled |-> acct.settled, due |-> acct.due,
                   end |-> acct.settled + Total(acct.due)]
<1>1. pc = "trade" /\ today' = today /\ rows' = [rows EXCEPT ![today] = row]
  BY DEF WriteDay
<1>2. row.settled = acct.settled /\ row.due = acct.due /\ row.end = acct.settled + Total(acct.due)
  OBVIOUS
<1> HIDE DEF row
<1>3. rows'[today] = row /\ (\A d \in 1..Dates : d # today => rows'[d] = rows[d]) /\ today \in 1..Dates
  BY <1>0, <1>1 DEF LedgerInv
<1>4. RowsAddUp'
  <2> SUFFICES ASSUME NEW d \in 1..Dates, rows'[d] # NoRow
               PROVE  rows'[d].end = rows'[d].settled + Total(rows'[d].due)
    BY DEF RowsAddUp, Total
  <2> QED BY <1>0, <1>2, <1>3 DEF RowsAddUp
<1>5. DueChains'
  <2> SUFFICES ASSUME NEW d \in 1..Dates, rows'[d] # NoRow, NEW x \in (d + 1)..(Dates + 3)
               PROVE  rows'[d].due[x] >= LeftBefore(d)'.due[x]
    BY DEF DueChains
  <2>1. d <= today
    BY <1>0, <1>3, Calendar DEF LedgerInv, NothingAhead
  <2>2. LeftBefore(d)' = LeftBefore(d)
    <3>1. \A y \in 1..(d - 1) : rows'[y] = rows[y]
      BY <1>3, <2>1, Calendar
    <3> QED BY <3>1, LeftStands
  <2>3. CASE d = today
    BY <1>0, <1>1, <1>2, <1>3, <2>2, <2>3 DEF DueKept
  <2>4. CASE d # today
    BY <1>0, <1>3, <2>2, <2>4 DEF DueChains
  <2> QED BY <2>3, <2>4
<1> QED BY <1>4, <1>5

LEMMA CashStep == CashInv /\ [Next]_vars => CashInv'
<1> SUFFICES ASSUME CashInv, [Next]_vars PROVE CashInv'
  OBVIOUS
<1>0. TypeInv' /\ LedgerInv'
  BY TypeStep, LedgerStep DEF CashInv
<1>1. ASSUME pc' # "trade" PROVE CashKept' /\ DueKept'
  BY <1>1 DEF CashKept, DueKept
<1>2. CASE NightlyStarts \/ HandStarts
  <2>1. PICK seq, calendar : Begin(seq, calendar)
    BY <1>2 DEF NightlyStarts, HandStarts
  <2> QED BY <1>0, <2>1, CashBegin DEF CashInv
<1>3. CASE EntryBuys \/ ExitSells
  <2>1. UNCHANGED rows
    BY <1>3 DEF EntryBuys, ExitSells, Durable
  <2> QED BY <1>0, <1>3, <2>1, CashBuys, CashSells, RowsStand DEF CashInv
<1>4. CASE EntrySkipped \/ ExitOfNothing \/ UNCHANGED vars
  <2>1. UNCHANGED <<today, rows, pc, acct, sigs, open>>
    BY <1>4 DEF EntrySkipped, ExitOfNothing, Durable, vars
  <2>2. CashKept'
    BY <2>1 DEF CashInv, CashKept, Held
  <2>3. DueKept'
    <3>1. LeftBefore(today)' = LeftBefore(today)
      BY <2>1 DEF LeftBefore
    <3> QED BY <2>1, <3>1 DEF CashInv, DueKept
  <2> QED BY <1>0, <2>1, <2>2, <2>3, RowsStand DEF CashInv
<1>5. CASE WriteDay
  <2>1. pc' # "trade"
    BY <1>5 DEF WriteDay
  <2> QED BY <1>0, <1>1, <1>5, <2>1, CashWrites DEF CashInv
<1>6. CASE AlreadyTuned \/ Scores \/ WriteParams \/ WriteHistory \/ TuneFails \/ Kill \/ NewDay
  <2>1. pc' # "trade" /\ UNCHANGED rows
    BY <1>6 DEF AlreadyTuned, Scores, WriteParams, WriteHistory, TuneFails, Kill, NewDay, NextSleeve, Durable
  <2> QED BY <1>0, <1>1, <2>1, RowsStand DEF CashInv
<1> QED BY <1>2, <1>3, <1>4, <1>5, <1>6 DEF Next

(* CashConserved: whatever is traded, settled cash, what is due and what   *)
(* is open add up to the equity of the morning and the profit since, and   *)
(* no more is bought than had settled (p100.py simulate).                  *)
THEOREM CashConserved == Spec => []CashKept
<1>1. CashInv => CashKept
  BY DEF CashInv
<1> QED BY <1>1, CashStart, CashStep, PTL DEF Spec

(* LedgerAlwaysChains: every row goes on from the row before it, down to   *)
(* the proceeds still to settle, however often its date is run and         *)
(* wherever a run is killed (p100.py start_state, settled_cash).           *)
THEOREM LedgerAlwaysChains == Spec => []LedgerChains
<1>1. CashInv => LedgerChains
  BY DEF CashInv, LedgerInv, DueChains, LedgerChains
<1> QED BY <1>1, CashStart, CashStep, PTL DEF Spec
=============================================================================
