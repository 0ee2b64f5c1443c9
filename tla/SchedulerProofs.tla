--------------------------- MODULE SchedulerProofs ---------------------------
(***************************************************************************)
(* Theorems about Scheduler for any runners, marks, session times, work    *)
(* times and numbers of crashes and raises.                                *)
(***************************************************************************)
EXTENDS Scheduler, SequenceTheorems, FiniteSetTheorems, WellFoundedInduction, TLAPS

-----------------------------------------------------------------------------
(* The clock: minutes and marks.                                           *)

LEMMA Constants ==
  /\ Minute \in Nat /\ Minute > 0 /\ Offset \in Nat /\ Offset < Minute
  /\ PreopenAt \in Nat /\ OpenAt \in Nat /\ FlattenAt \in Nat /\ CloseAt \in Nat /\ SweepAt \in Nat
  /\ BriefAt \in Nat /\ LateBrief \in Nat /\ Horizon \in Nat /\ Recheck \in Nat /\ Retry \in Nat
  /\ Retry > 0 /\ Recheck > 0
  /\ PreopenAt < OpenAt /\ OpenAt < FlattenAt /\ FlattenAt < CloseAt /\ CloseAt < SweepAt
  /\ SweepAt < Horizon
BY SessionAssumption, BoundsAssumption

LEMMA Remainder ==
  ASSUME NEW t \in Nat
  PROVE  t % Minute \in 0..(Minute - 1) /\ t - (t % Minute) \in Nat
         /\ \E q \in Nat : t = q * Minute + (t % Minute)
BY Constants

LEMMA MarkType ==
  ASSUME NEW t \in Nat
  PROVE  MarkOf(t) \in Nat /\ NextMark(t) \in Nat /\ NextMark(t) > t
<1>1. t % Minute \in 0..(Minute - 1)
  BY Remainder
<1> QED BY <1>1, Constants DEF MarkOf, NextMark

(* Minutes do not overlap.                                                 *)
LEMMA Multiples ==
  ASSUME NEW p \in Nat, NEW q \in Nat
  PROVE  /\ p * Minute \in Nat /\ (p + 1) * Minute = p * Minute + Minute
         /\ p < q => p * Minute + Minute <= q * Minute
<1>1. p * Minute \in Nat /\ (p + 1) * Minute = p * Minute + Minute
  BY Constants
<1>2. ASSUME p < q PROVE p * Minute + Minute <= q * Minute
  <2>1. PICK k \in Nat : q = p + 1 + k
    <3>1. q - p - 1 \in Nat /\ q = p + 1 + (q - p - 1)
      BY <1>2
    <3> QED BY <3>1
  <2>2. q * Minute = p * Minute + Minute + k * Minute
    BY <2>1, Constants
  <2>3. k * Minute \in Nat
    BY Constants
  <2> QED BY <1>1, <2>2, <2>3, Constants
<1> QED BY <1>1, <1>2

LEMMA MinuteOf ==
  ASSUME NEW t \in Nat
  PROVE  \E q \in Nat : t = q * Minute + (t % Minute) /\ MarkOf(t) = q * Minute + Offset
                        /\ t % Minute \in 0..(Minute - 1)
<1>1. PICK q \in Nat : t = q * Minute + (t % Minute)
  BY Remainder
<1> DEFINE qm == q * Minute
<1>2. qm \in Nat /\ t % Minute \in 0..(Minute - 1) /\ t = qm + (t % Minute)
  BY <1>1, Multiples, Remainder
<1>3. MarkOf(t) = t - (t % Minute) + Offset
  BY DEF MarkOf
<1> HIDE DEF qm
<1>4. MarkOf(t) = qm + Offset
  BY <1>2, <1>3, Constants
<1> QED BY <1>1, <1>2, <1>4 DEF qm

LEMMA MarkWithin ==
  ASSUME NEW t \in Nat
  PROVE  MarkOf(t) \in Nat /\ MarkOf(t) - Offset \in Nat /\ MarkOf(t) - Offset <= t /\ t < MarkOf(t) - Offset + Minute
<1>1. PICK q \in Nat : t = q * Minute + (t % Minute) /\ MarkOf(t) = q * Minute + Offset
                       /\ t % Minute \in 0..(Minute - 1)
  BY MinuteOf
<1> DEFINE qm == q * Minute
<1>2. qm \in Nat
  BY Multiples
<1> HIDE DEF qm
<1> QED BY <1>1, <1>2, Constants DEF qm

(* The mark of a time is that of its minute.                               *)
LEMMA SameMinute ==
  ASSUME NEW m \in Nat, m = MarkOf(m), NEW t \in Nat, m - Offset <= t, t < m - Offset + Minute
  PROVE  MarkOf(t) = m
<1>1. PICK p \in Nat : m = p * Minute + (m % Minute) /\ MarkOf(m) = p * Minute + Offset
  BY MinuteOf
<1>2. PICK q \in Nat : t = q * Minute + (t % Minute) /\ MarkOf(t) = q * Minute + Offset
                       /\ t % Minute \in 0..(Minute - 1)
  BY MinuteOf
<1> DEFINE pm == p * Minute
           qm == q * Minute
<1>3. pm \in Nat /\ qm \in Nat /\ (p < q => pm + Minute <= qm) /\ (q < p => qm + Minute <= pm)
      /\ (p = q => pm = qm)
  BY Multiples
<1>4. m = pm + Offset /\ t = qm + (t % Minute) /\ MarkOf(t) = qm + Offset
  BY <1>1, <1>2
<1> HIDE DEF pm, qm
<1>5. ~(p < q) /\ ~(q < p)
  BY <1>2, <1>3, <1>4, Constants
<1>6. p = q
  BY <1>5
<1> QED BY <1>3, <1>4, <1>6

LEMMA MarkOfMultiple ==
  ASSUME NEW q \in Nat
  PROVE  MarkOf(q * Minute + Offset) = q * Minute + Offset
<1> DEFINE x == q * Minute + Offset
           qm == q * Minute
<1>1. qm \in Nat /\ x = qm + Offset
  BY Multiples
<1>2. x \in Nat
  <2> HIDE DEF x, qm
  <2> QED BY <1>1, Constants
<1>3. PICK p \in Nat : x = p * Minute + (x % Minute) /\ MarkOf(x) = p * Minute + Offset
                       /\ x % Minute \in 0..(Minute - 1)
  <2> HIDE DEF x
  <2> QED BY <1>2, MinuteOf
<1> DEFINE pm == p * Minute
<1>4. pm \in Nat /\ (p < q => pm + Minute <= qm) /\ (q < p => qm + Minute <= pm) /\ (p = q => pm = qm)
  BY Multiples
<1>5. x = pm + (x % Minute) /\ MarkOf(x) = pm + Offset
  BY <1>3
<1> HIDE DEF x, pm, qm
<1>6. ~(p < q) /\ ~(q < p)
  BY <1>1, <1>3, <1>4, <1>5, Constants
<1>7. p = q
  BY <1>6
<1>8. MarkOf(x) = x
  BY <1>1, <1>4, <1>5, <1>7
<1> QED BY <1>8 DEF x

(* No minute's mark lies between a time and the next mark.                 *)
LEMMA NextIsNext ==
  ASSUME NEW t \in Nat, NEW d \in Nat, d = MarkOf(d), d > t
  PROVE  NextMark(t) <= d
<1>1. PICK q \in Nat : t = q * Minute + (t % Minute) /\ MarkOf(t) = q * Minute + Offset
                       /\ t % Minute \in 0..(Minute - 1)
  BY MinuteOf
<1>2. PICK p \in Nat : d = p * Minute + Offset
  BY MinuteOf
<1> DEFINE pm == p * Minute
           qm == q * Minute
<1>3. pm \in Nat /\ qm \in Nat /\ (p < q => pm + Minute <= qm) /\ (q < p => qm + Minute <= pm)
      /\ (p = q => pm = qm)
  BY Multiples
<1>4. NextMark(t) = IF MarkOf(t) > t THEN MarkOf(t) ELSE MarkOf(t) + Minute
  BY DEF NextMark
<1> HIDE DEF pm, qm
<1>5. t = qm + (t % Minute) /\ MarkOf(t) = qm + Offset /\ d = pm + Offset
  BY <1>1, <1>2 DEF pm, qm
<1>6. ~(p < q)
  BY <1>1, <1>3, <1>5, Constants
<1>7. CASE p = q
  BY <1>3, <1>4, <1>5, <1>7, Constants
<1>8. CASE q < p
  BY <1>3, <1>4, <1>5, <1>8, Constants
<1> QED BY <1>6, <1>7, <1>8

-----------------------------------------------------------------------------
(* Runners and marks.                                                      *)

LEMMA RunnerFacts ==
  /\ Len(Runners) \in Nat \ {0} /\ \A i \in 1..Len(Runners) : Runners[i] \in All
  /\ \A r \in All : \E i \in 1..Len(Runners) : r = Runners[i]
  /\ \A i, j \in 1..Len(Runners) : Runners[i] = Runners[j] => i = j
  /\ S0 \in All /\ S0 \in Sleeves /\ Brief \in All /\ Brief # S0
  /\ Sleeves \subseteq All /\ Bars \subseteq Sleeves /\ S0 \notin Bars /\ Brief \notin Sleeves
  /\ \A r \in All : r = S0 \/ r = Brief \/ r \in Bars
  /\ S0 \in Intraday /\ Intraday \subseteq Sleeves
<1>1. Runners \in Seq(All) /\ Runners # <<>> /\ IsInjective(Runners)
      /\ Brief = Runners[Len(Runners)] /\ Brief # S0 /\ S0 \in Intraday /\ Intraday \subseteq Sleeves
  BY RunnersAssumption
<1>2. Len(Runners) \in Nat \ {0} /\ DOMAIN Runners = 1..Len(Runners)
  BY <1>1, EmptySeq
<1>3. All = {Runners[i] : i \in 1..Len(Runners)}
  BY <1>2 DEF All, Range
<1>4. \A i, j \in 1..Len(Runners) : Runners[i] = Runners[j] => i = j
  BY <1>1, <1>2 DEF IsInjective
<1> QED
  BY <1>1, <1>2, <1>3, <1>4 DEF Sleeves, Bars, S0

LEMMA MarksFacts ==
  ASSUME NEW sl \in Bars
  PROVE  Marks[sl] \subseteq OpenAt..FlattenAt
BY RunnersAssumption

(* A non-empty set of numbers below a bound has a least and a greatest     *)
(* element.                                                                *)
LEMMA HasLeast ==
  ASSUME NEW S \in SUBSET Nat, S # {}
  PROVE  \E m \in S : \A k \in S : m <= k
<1> DEFINE Upto(m) == {k \in S : k <= m}
           T == {Upto(m) : m \in S}
<1>1. T \in SUBSET FiniteSubsetsOf(Nat)
  <2> SUFFICES ASSUME NEW m \in S PROVE Upto(m) \in FiniteSubsetsOf(Nat)
    OBVIOUS
  <2>1. Upto(m) \in SUBSET Nat /\ m \in Nat /\ \A k \in Upto(m) : k <= m
    OBVIOUS
  <2>2. IsFiniteSet(Upto(m))
    BY <2>1, FS_BoundedSetOfNaturals
  <2> QED BY <2>1, <2>2 DEF FiniteSubsetsOf
<1>2. T # {}
  OBVIOUS
<1>3. PICK x \in T : \A y \in T : ~ (<<y, x>> \in StrictSubsetOrdering(Nat))
  BY <1>1, <1>2, FS_StrictSubsetOrderingWellFounded, WFMin
<1>4. PICK m \in S : x = Upto(m)
  OBVIOUS
<1>5. ASSUME NEW k \in S, ~(m <= k) PROVE FALSE
  <2>1. k \in Nat /\ m \in Nat /\ k < m /\ m \in Upto(m)
    BY <1>5
  <2>2. ASSUME NEW j \in Upto(k) PROVE j \in Upto(m)
    <3>1. j \in S /\ j \in Nat /\ j <= k
      BY <2>2
    <3> QED BY <3>1, <2>1
  <2>3. m \notin Upto(k)
    BY <2>1
  <2>4. Upto(k) \subseteq x /\ Upto(k) # x
    BY <1>4, <2>1, <2>2, <2>3
  <2>5. Upto(k) \in T /\ Upto(k) \in SUBSET Nat /\ x \in SUBSET Nat
    BY <1>4
  <2> QED
    BY <2>4, <2>5, <1>3 DEF StrictSubsetOrdering
<1> QED
  BY <1>5

LEMMA LeastOf ==
  ASSUME NEW S \in SUBSET Nat, S # {}
  PROVE  Min(S) \in S /\ \A x \in S : Min(S) <= x
BY HasLeast DEF Min

LEMMA GreatestOf ==
  ASSUME NEW n \in Nat, NEW S \in SUBSET (0..n), S # {}
  PROVE  Max(S) \in S /\ \A x \in S : x <= Max(S)
<1> DEFINE gaps == {n - x : x \in S}
<1>1. PICK m \in gaps : \A k \in gaps : m <= k
  <2>0. \A x \in S : x \in 0..n /\ n - x \in Nat
    OBVIOUS
  <2>1. gaps \in SUBSET Nat /\ gaps # {}
    BY <2>0
  <2> HIDE DEF gaps
  <2> QED BY <2>1, HasLeast
<1>2. PICK y \in S : m = n - y
  BY <1>1
<1>3. \A x \in S : y >= x
  <2> SUFFICES ASSUME NEW x \in S PROVE y >= x
    OBVIOUS
  <2>1. n - y <= n - x
    BY <1>1, <1>2
  <2> QED BY <2>1
<1>4. Max(S) \in S /\ \A x \in S : Max(S) >= x
  BY <1>3 DEF Max
<1> QED BY <1>4

-----------------------------------------------------------------------------
(* What the runners answer.                                                *)

Answers == [when : Nat, act : {"none", "cycle", "brief"}, mark : Nat \cup {None},
            does : {"nothing", "flatten", "sweep"}, missed : Nat \cup {None}]

LEMMA AnswerIs ==
  ASSUME NEW w \in Nat
  PROVE  /\ Answer(w) \in Answers /\ Answer(w).when = w /\ Answer(w).act = "none"
         /\ Answer(w).does = "nothing" /\ Answer(w).missed = None
BY DEF Answer, Answers

LEMMA CycleIs ==
  ASSUME NEW w \in Nat, NEW m \in Nat
  PROVE  /\ Cycle(w, m) \in Answers /\ Cycle(w, m).when = w /\ Cycle(w, m).act = "cycle"
         /\ Cycle(w, m).mark = m /\ Cycle(w, m).does = "nothing" /\ Cycle(w, m).missed = None
BY DEF Cycle, Answers

LEMMA DoesIs ==
  ASSUME NEW w \in Nat, NEW d \in {"flatten", "sweep"}
  PROVE  /\ Does(w, d) \in Answers /\ Does(w, d).when = w /\ Does(w, d).act = "none"
         /\ Does(w, d).does = d /\ Does(w, d).missed = None
BY DEF Does, Answers

LEMMA MinutesAre ==
  \A d \in Minutes : /\ d \in Nat /\ OpenAt <= d /\ d < FlattenAt
                     /\ \A t \in Nat : d > t => NextMark(t) <= d
BY NextIsNext, Constants DEF Minutes

(* S0: an answer is a cycle of a minute, or has no mark.                   *)
LEMMA S0Answers ==
  ASSUME NEW t \in Nat
  PROVE  \/ t >= SweepAt /\ S0 \in swept /\ S0Plan(t) = Answer(t + Recheck)
         \/ t < PreopenAt /\ S0Plan(t) = Answer(PreopenAt)
         \/ PreopenAt <= t /\ t < OpenAt /\ S0Plan(t) = Answer(OpenAt)
         \/ OpenAt <= t /\ t < FlattenAt /\ S0Plan(t) = Cycle(t, MarkOf(t))
         \/ OpenAt <= t /\ t < FlattenAt /\ NextMark(t) >= FlattenAt /\ S0Plan(t) = Answer(FlattenAt)
         \/ OpenAt <= t /\ NextMark(t) < FlattenAt /\ S0Plan(t) = Cycle(NextMark(t), NextMark(t))
         \/ FlattenAt <= t /\ S0Plan(t) = Does(t, "flatten")
         \/ FlattenAt <= t /\ t < SweepAt /\ S0Plan(t) = Answer(SweepAt)
         \/ SweepAt <= t /\ S0 \in flattened /\ S0Plan(t) = Does(t, "sweep")
<1>1. MarkOf(t) \in Nat /\ NextMark(t) \in Nat
  BY MarkType
<1>2. CASE t >= SweepAt /\ S0 \in swept
  BY <1>2, Constants DEF S0Plan, FlattenDue
<1>3. CASE t < PreopenAt
  BY <1>3, Constants DEF S0Plan, FlattenDue
<1>4. CASE PreopenAt <= t /\ t < OpenAt
  BY <1>4, Constants DEF S0Plan, FlattenDue
<1>5. CASE OpenAt <= t /\ t < FlattenAt
  <2>1. S0Plan(t) = MinutePlan(t)
    BY <1>5, Constants DEF S0Plan, FlattenDue
  <2> QED BY <1>1, <1>5, <2>1, Constants DEF MinutePlan
<1>6. CASE FlattenAt <= t /\ ~(t >= SweepAt /\ S0 \in swept)
  <2>1. ~(t < PreopenAt) /\ t \notin PreopenAt..(OpenAt - 1) /\ t \notin OpenAt..(FlattenAt - 1)
    BY <1>6, Constants
  <2>2. CASE FlattenDue(S0, t)
    BY <1>6, <2>1, <2>2, Constants DEF S0Plan, FlattenDue
  <2>3. CASE ~FlattenDue(S0, t)
    BY <1>6, <2>1, <2>3, Constants DEF S0Plan, FlattenDue
  <2> QED BY <2>2, <2>3
<1> QED BY <1>2, <1>3, <1>4, <1>5, <1>6, Constants

LEMMA S0PlanIs ==
  ASSUME NEW t \in Nat
  PROVE  /\ S0Plan(t) \in Answers
         /\ S0Plan(t).act \in {"none", "cycle"} /\ S0Plan(t).missed = None
         /\ S0Plan(t).act = "cycle" => S0Plan(t).mark \in Nat
         /\ S0Plan(t).does = "sweep" => S0 \in flattened
         /\ \A d \in Minutes : d > t => S0Plan(t).when <= d
         /\ t < PreopenAt => S0Plan(t).when <= PreopenAt
         /\ t < FlattenAt => S0Plan(t).when <= FlattenAt
         /\ t < SweepAt => S0Plan(t).when <= SweepAt
<1> DEFINE a == S0Plan(t)
<1>1. MarkOf(t) \in Nat /\ NextMark(t) \in Nat
  BY MarkType
<1>2. a \in Answers /\ a.act \in {"none", "cycle"} /\ a.missed = None
      /\ (a.act = "cycle" => a.mark \in Nat) /\ (a.does = "sweep" => S0 \in flattened)
  BY <1>1, S0Answers, AnswerIs, CycleIs, DoesIs, Constants
<1>3. \/ a.when = t
      \/ t >= SweepAt
      \/ t < PreopenAt /\ a.when = PreopenAt
      \/ PreopenAt <= t /\ t < OpenAt /\ a.when = OpenAt
      \/ OpenAt <= t /\ t < FlattenAt /\ NextMark(t) >= FlattenAt /\ a.when = FlattenAt
      \/ OpenAt <= t /\ NextMark(t) < FlattenAt /\ a.when = NextMark(t)
      \/ FlattenAt <= t /\ t < SweepAt /\ a.when = SweepAt
  BY <1>1, S0Answers, AnswerIs, CycleIs, DoesIs, Constants
<1> HIDE DEF a
<1>4. \A d \in Minutes : d > t => a.when <= d
  BY <1>1, <1>3, MinutesAre, Constants
<1>5. /\ t < PreopenAt => a.when <= PreopenAt
      /\ t < FlattenAt => a.when <= FlattenAt
      /\ t < SweepAt => a.when <= SweepAt
  BY <1>1, <1>3, Constants
<1> QED BY <1>2, <1>4, <1>5 DEF a

(* A session sleeve that has nothing due: never past its next mark, the    *)
(* flatten or the sweep.                                                   *)
LEMMA NextWorkIs ==
  ASSUME NEW sl \in Bars, NEW t \in Nat
  PROVE  /\ NextWork(sl, t) \in Answers
         /\ NextWork(sl, t).act \in {"none", "cycle"} /\ NextWork(sl, t).missed = None
         /\ NextWork(sl, t).does # "flatten"
         /\ NextWork(sl, t).does = "sweep" => t >= SweepAt
         /\ NextWork(sl, t).act = "cycle" =>
              NextWork(sl, t).mark \in Nat /\ NextWork(sl, t).mark > t
              /\ NextWork(sl, t).mark = NextWork(sl, t).when
         /\ \A d \in Marks[sl] : d > t => NextWork(sl, t).when <= d
         /\ t < FlattenAt /\ sl \in Intraday => NextWork(sl, t).when <= FlattenAt
         /\ t < SweepAt => NextWork(sl, t).when <= SweepAt
<1> DEFINE nxt == {m \in Marks[sl] : m > t}
           a == NextWork(sl, t)
<1>1. Marks[sl] \subseteq OpenAt..FlattenAt /\ nxt \in SUBSET Nat
  BY MarksFacts, Constants
<1>2. nxt # {} => Min(nxt) \in nxt /\ \A x \in nxt : Min(nxt) <= x
  <2> HIDE DEF nxt
  <2> QED BY <1>1, LeastOf
<1>3. CASE nxt # {}
  <2>1. a = Cycle(Min(nxt), Min(nxt))
    BY <1>3 DEF NextWork
  <2>2. Min(nxt) \in Nat /\ Min(nxt) > t /\ Min(nxt) <= FlattenAt
    BY <1>1, <1>2, <1>3, Constants
  <2> HIDE DEF a
  <2>3. a \in Answers /\ a.act = "cycle" /\ a.mark = Min(nxt) /\ a.when = Min(nxt) /\ a.does = "nothing"
        /\ a.missed = None
    <3> DEFINE m == Min(nxt)
    <3> HIDE DEF m
    <3> QED BY <2>1, <2>2, AnswerIs, CycleIs, DoesIs DEF m
  <2>4. \A d \in Marks[sl] : d > t => Min(nxt) <= d
    BY <1>2, <1>3
  <2> QED BY <2>2, <2>3, <2>4, Constants DEF a
<1>4. CASE nxt = {} /\ sl \in Intraday /\ t < FlattenAt
  <2>1. a = Answer(FlattenAt)
    BY <1>4 DEF NextWork
  <2>2. \A d \in Marks[sl] : ~(d > t)
    BY <1>4
  <2> HIDE DEF a
  <2>3. a \in Answers /\ a.act = "none" /\ a.missed = None /\ a.does = "nothing" /\ a.when = FlattenAt
    BY <2>1, AnswerIs, CycleIs, DoesIs, Constants
  <2> QED BY <1>4, <2>2, <2>3, Constants DEF a
<1>5. CASE nxt = {} /\ ~(sl \in Intraday /\ t < FlattenAt)
  <2>1. a = AtLeisure(sl, t)
    BY <1>5 DEF NextWork
  <2>2. a = IF t < SweepAt THEN Answer(SweepAt)
            ELSE IF sl \in swept THEN Answer(t + Recheck) ELSE Does(t, "sweep")
    BY <2>1 DEF AtLeisure
  <2>3. \A d \in Marks[sl] : ~(d > t)
    BY <1>5
  <2> HIDE DEF a
  <2>4. a \in Answers /\ a.act = "none" /\ a.missed = None /\ a.does # "flatten"
        /\ (a.does = "sweep" => t >= SweepAt) /\ (t < SweepAt => a.when <= SweepAt)
    <3>1. t + Recheck \in Nat /\ SweepAt \in Nat
      BY Constants
    <3>2. CASE t < SweepAt
      BY <2>2, <3>1, <3>2, AnswerIs, CycleIs, DoesIs
    <3>3. CASE ~(t < SweepAt) /\ sl \in swept
      BY <2>2, <3>1, <3>3, AnswerIs, CycleIs, DoesIs, Constants
    <3>4. CASE ~(t < SweepAt) /\ sl \notin swept
      BY <2>2, <3>4, AnswerIs, CycleIs, DoesIs, Constants
    <3> QED BY <3>2, <3>3, <3>4
  <2> QED BY <1>5, <2>3, <2>4 DEF a
<1> QED BY <1>3, <1>4, <1>5

(* The mark that is due, or the newest that came too late.                 *)
LEMMA DueIs ==
  ASSUME NEW sl \in Bars, NEW t \in Nat, DueMarks(sl, t) # {}
  PROVE  /\ Max(DueMarks(sl, t)) \in Nat /\ Max(DueMarks(sl, t)) <= t
         /\ Max(DueMarks(sl, t)) > lastMark[sl]
<1> DEFINE due == DueMarks(sl, t)
<1>1. due \in SUBSET (0..FlattenAt) /\ \A m \in due : m <= t /\ m > lastMark[sl]
  BY MarksFacts, Constants DEF DueMarks
<1> HIDE DEF due
<1>2. Max(due) \in due
  BY <1>1, GreatestOf, Constants DEF due
<1> QED BY <1>1, <1>2 DEF due

LEMMA BarPlanIs ==
  ASSUME NEW sl \in Bars, NEW t \in Nat
  PROVE  /\ BarPlan(sl, t) \in Answers
         /\ BarPlan(sl, t).act \in {"none", "cycle"}
         /\ BarPlan(sl, t).does = "sweep" /\ sl \in Intraday => sl \in flattened
         /\ BarPlan(sl, t).act = "cycle" =>
              /\ BarPlan(sl, t).mark \in Nat /\ BarPlan(sl, t).mark <= BarPlan(sl, t).when
              /\ \/ BarPlan(sl, t).mark > t
                 \/ BarPlan(sl, t).missed = None /\ BarPlan(sl, t).mark > lastMark[sl]
         /\ BarPlan(sl, t).missed # None =>
              /\ BarPlan(sl, t).missed \in Nat /\ BarPlan(sl, t).missed <= t
              /\ BarPlan(sl, t).missed > lastMark[sl]
         /\ \A d \in Marks[sl] : d > t => BarPlan(sl, t).when <= d
         /\ t < PreopenAt => BarPlan(sl, t).when <= PreopenAt
         /\ t < FlattenAt /\ sl \in Intraday => BarPlan(sl, t).when <= FlattenAt
         /\ t < SweepAt => BarPlan(sl, t).when <= SweepAt
<1> DEFINE a    == BarPlan(sl, t)
           due  == DueMarks(sl, t)
           m    == Max(due)
           rest == IF sl \in Intraday /\ FlattenDue(sl, t) THEN Does(t, "flatten") ELSE NextWork(sl, t)
<1>1. Marks[sl] \subseteq OpenAt..FlattenAt
  BY MarksFacts
<1>2. due # {} => m \in Nat /\ m <= t /\ m > lastMark[sl]
  BY DueIs
<1>3. /\ rest \in Answers /\ rest.act \in {"none", "cycle"} /\ rest.missed = None
      /\ rest.does = "sweep" /\ sl \in Intraday => sl \in flattened
      /\ rest.act = "cycle" => rest.mark \in Nat /\ rest.mark > t /\ rest.mark = rest.when
      /\ \A d \in Marks[sl] : d > t => rest.when <= d
      /\ t < FlattenAt /\ sl \in Intraday => rest.when <= FlattenAt
      /\ t < SweepAt => rest.when <= SweepAt
  <2>1. CASE sl \in Intraday /\ FlattenDue(sl, t)
    <3>1. rest = Does(t, "flatten")
      BY <2>1
    <3>2. \A d \in Marks[sl] : d \in Nat
      BY <1>1, Constants
    <3> HIDE DEF rest
    <3>3. rest \in Answers /\ rest.act = "none" /\ rest.missed = None /\ rest.does = "flatten" /\ rest.when = t
      BY <3>1, DoesIs
    <3> QED BY <3>2, <3>3, Constants
  <2>2. CASE ~(sl \in Intraday /\ FlattenDue(sl, t))
    <3>1. rest = NextWork(sl, t)
      BY <2>2
    <3>2. sl \in Intraday /\ t >= SweepAt => sl \in flattened
      BY <2>2, Constants DEF FlattenDue
    <3> HIDE DEF rest
    <3> QED BY <3>1, <3>2, NextWorkIs
  <2> QED BY <2>1, <2>2
<1>4. a = CASE t < PreopenAt -> Answer(PreopenAt)
            [] t >= PreopenAt /\ due # {} /\ t < Limit(sl, m) -> Cycle(t, m)
            [] OTHER -> IF due # {} THEN [rest EXCEPT !.missed = m] ELSE rest
  BY DEF BarPlan
<1> HIDE DEF a, due, m, rest
<1>5. CASE t < PreopenAt
  <2>1. a = Answer(PreopenAt)
    BY <1>4, <1>5, Constants
  <2>2. \A d \in Marks[sl] : PreopenAt <= d
    BY <1>1, Constants
  <2> QED BY <1>5, <2>1, <2>2, AnswerIs, Constants DEF a
<1>6. CASE t >= PreopenAt /\ due # {} /\ t < Limit(sl, m)
  <2>1. a = Cycle(t, m)
    BY <1>4, <1>6, Constants
  <2>2. \A d \in Marks[sl] : d > t => t <= d
    BY <1>1, Constants
  <2> QED BY <1>2, <1>6, <2>1, <2>2, CycleIs, Constants DEF a
<1>7. CASE ~(t < PreopenAt) /\ ~(t >= PreopenAt /\ due # {} /\ t < Limit(sl, m)) /\ due # {}
  <2>1. a = [rest EXCEPT !.missed = m]
    BY <1>4, <1>7
  <2>2. a \in Answers /\ a.when = rest.when /\ a.act = rest.act /\ a.mark = rest.mark
        /\ a.does = rest.does /\ a.missed = m
    BY <1>2, <1>3, <1>7, <2>1 DEF Answers
  <2>3. rest.when \in Nat
    BY <1>3 DEF Answers
  <2> QED BY <1>2, <1>3, <1>7, <2>2, <2>3 DEF a
<1>8. CASE ~(t < PreopenAt) /\ due = {}
  <2>1. a = rest
    BY <1>4, <1>8
  <2>2. rest.when \in Nat
    BY <1>3 DEF Answers
  <2> QED BY <1>3, <1>8, <2>1, <2>2 DEF a
<1> QED BY <1>5, <1>6, <1>7, <1>8

LEMMA BriefPlanIs ==
  ASSUME NEW t \in Nat
  PROVE  /\ BriefPlan(t) \in Answers /\ BriefPlan(t).act \in {"none", "brief"}
         /\ BriefPlan(t).does = "nothing" /\ BriefPlan(t).missed = None
         /\ ~sent /\ t < BriefAt => BriefPlan(t).when <= BriefAt
<1>1. CASE ~sent /\ t < BriefAt
  <2>1. BriefPlan(t) = Answer(BriefAt)
    BY <1>1, Constants DEF BriefPlan
  <2> QED BY <2>1, AnswerIs, Constants
<1>2. CASE ~(~sent /\ t < BriefAt) /\ ~sent /\ t \in BriefAt..(LateBrief - 1)
  <2>1. BriefPlan(t) = [when |-> t, act |-> "brief", mark |-> None, does |-> "nothing", missed |-> None]
    BY <1>2 DEF BriefPlan
  <2> QED BY <1>2, <2>1 DEF Answers
<1>3. CASE ~(~sent /\ t < BriefAt) /\ ~(~sent /\ t \in BriefAt..(LateBrief - 1))
  <2>1. BriefPlan(t) = Answer(t + Recheck)
    BY <1>3 DEF BriefPlan
  <2> QED BY <1>3, <2>1, AnswerIs, Constants
<1> QED BY <1>1, <1>2, <1>3

(* What any runner answers.                                                *)
LEMMA PlanIs ==
  ASSUME NEW r \in All, NEW t \in Nat
  PROVE  /\ Plan(r, t) \in Answers
         /\ Plan(r, t).act = "brief" => r = Brief
         /\ Plan(r, t).act = "cycle" =>
              /\ r \in Sleeves /\ Plan(r, t).mark \in Nat
              /\ r \in Bars => /\ Plan(r, t).mark <= Plan(r, t).when
                               /\ \/ Plan(r, t).mark > t
                                  \/ Plan(r, t).missed = None /\ Plan(r, t).mark > lastMark[r]
         /\ Plan(r, t).missed # None =>
              /\ r \in Bars /\ Plan(r, t).missed \in Nat
              /\ Plan(r, t).missed <= t /\ Plan(r, t).missed > lastMark[r]
         /\ Plan(r, t).does # "nothing" => r \in Sleeves
         /\ Plan(r, t).does = "sweep" /\ r \in Intraday => r \in flattened
<1>1. CASE r = S0
  <2>1. Plan(r, t) = S0Plan(t)
    BY <1>1, RunnerFacts DEF Plan
  <2> QED BY <1>1, <2>1, S0PlanIs, RunnerFacts
<1>2. CASE r = Brief
  <2>1. Plan(r, t) = BriefPlan(t)
    BY <1>2, RunnerFacts DEF Plan
  <2> QED BY <1>2, <2>1, BriefPlanIs, RunnerFacts
<1>3. CASE r \in Bars
  <2>1. Plan(r, t) = BarPlan(r, t) /\ r \in Sleeves
    BY <1>3, RunnerFacts DEF Plan
  <2> QED BY <1>3, <2>1, BarPlanIs
<1> QED BY <1>1, <1>2, <1>3, RunnerFacts

-----------------------------------------------------------------------------
(* One runner is asked.                                                    *)

Bests == [when : Nat, who : All, act : {"none", "cycle", "brief"}, mark : Nat \cup {None}]

LEMMA NoAnswerType == NoAnswer \in Bests /\ NoAnswer.act = "none" /\ Horizon \in Times
BY RunnerFacts, Constants DEF NoAnswer, Bests, Times

LEMMA TakesType ==
  ASSUME TypeOK, Takes
  PROVE  now' \in Times /\ now' \in Nat /\ now' >= now
BY Constants, BoundsAssumption DEF Takes, TypeOK, Times

(* The runner whose turn it is.                                            *)
LEMMA Asks ==
  ASSUME TypeOK, AskedSome, pc = "plan"
  PROVE  /\ asked \in Nat /\ asked + 1 \in 1..Len(Runners) /\ Runners[asked + 1] \in All
         /\ \A i \in 1..asked : i \in 1..Len(Runners) /\ Runners[i] # Runners[asked + 1]
         /\ at \in Nat /\ at \in Times /\ now \in Nat /\ at <= now
<1>1. asked \in 0..Len(Runners) /\ asked < Len(Runners) /\ Len(Runners) \in Nat
  BY RunnerFacts DEF TypeOK, AskedSome
<1>2. asked \in Nat /\ asked + 1 \in 1..Len(Runners) /\ \A i \in 1..asked : i \in 1..Len(Runners) /\ i # asked + 1
  BY <1>1
<1>3. at \in Nat /\ at \in Times /\ now \in Nat /\ at <= now
  BY Constants DEF TypeOK, Times, AskedSome
<1> QED BY <1>2, <1>3, RunnerFacts

LEMMA AskedStep ==
  ASSUME TypeOK, AskedSome, ChosenSound, pc = "plan", NEW r, r = Runners[asked + 1], NEW a,
         a.when \in Nat, a.act \in {"none", "cycle", "brief"}, a.mark \in Nat \cup {None},
         a.act = "cycle" => r \in Sleeves /\ a.mark \in Nat /\ (r \in Bars => a.mark <= a.when),
         a.act = "brief" => r = Brief,
         Asked(r, a), at' = at, now' \in Nat, now' >= now
  PROVE  /\ best' \in Bests /\ asked' \in 0..Len(Runners) /\ asked' = asked + 1 /\ pc' \in {"plan", "wait"}
         /\ ChosenSound' /\ AskedSome'
         /\ \/ best' = best /\ asked # 0
            \/ best'.who = r /\ best'.act = a.act /\ best'.mark = a.mark
         /\ best'.when <= a.when /\ (asked # 0 => best'.when <= best.when)
         /\ best'.act = "cycle" => best'.who = r \/ \E i \in 1..asked : best'.who = Runners[i]
<1> DEFINE b == [when |-> a.when, who |-> r, act |-> a.act, mark |-> a.mark]
<1>1. b \in Bests /\ b.when = a.when /\ b.who = r /\ b.act = a.act /\ b.mark = a.mark
  BY Asks DEF Bests
<1>2. best \in Bests /\ best.when \in Nat
  BY DEF TypeOK, Bests
<1>3. IF asked = 0 \/ a.when < best.when THEN best' = b ELSE best' = best
  BY DEF Asked, Better
<1>4. asked' = asked + 1 /\ pc' = (IF asked' = Len(Runners) THEN "wait" ELSE "plan")
  BY DEF Asked
<1> HIDE DEF b
<1>5. best' \in Bests /\ best'.when <= a.when /\ (asked # 0 => best'.when <= best.when)
      /\ \/ best' = best /\ asked # 0
         \/ best'.who = r /\ best'.act = a.act /\ best'.mark = a.mark /\ best'.when = a.when
  BY <1>1, <1>2, <1>3
<1>6. ChosenSound'
  <2>1. CASE best' = best
    BY <2>1 DEF ChosenSound
  <2>2. CASE best' # best
    BY <1>5, <2>2 DEF ChosenSound
  <2> QED BY <2>1, <2>2
<1>7. best'.act = "cycle" => best'.who = r \/ \E i \in 1..asked : best'.who = Runners[i]
  BY <1>5 DEF AskedSome
<1>8. asked' \in 0..Len(Runners) /\ asked + 1 \in 1..asked' /\ \A i \in 1..asked : i \in 1..asked'
  BY <1>4, Asks, RunnerFacts
<1>9. AskedSome'
  <2>1. best'.act = "cycle" => \E i \in 1..asked' : best'.who = Runners[i]
    BY <1>7, <1>8
  <2> QED BY <1>4, <1>8, <2>1, Asks, RunnerFacts DEF AskedSome
<1> QED BY <1>4, <1>5, <1>6, <1>7, <1>8, <1>9

-----------------------------------------------------------------------------
(* TypeOK and MarksInv: steps that leave the marks alone.                  *)

LEMMA MarksLight ==
  ASSUME TypeOK, MarksInv, UNCHANGED <<at, asked, best, lastMark, cycleAt, rows, recorded>>,
         now' \in Nat, now' >= now,
         \/ pc' = pc
         \/ pc # "down" /\ pc' \in {"tick", "serve"}
         \/ pc = "wait" /\ pc' = "act" /\ best.act # "none" /\ best.when <= now
  PROVE  MarksInv'
<1>1. now \in Nat /\ best \in Bests /\ at \in Nat
      /\ \A sl \in Bars : rows[sl] \in Nat \cup {None} /\ lastMark[sl] \in Nat \cup {None}
  BY Constants, RunnerFacts DEF TypeOK, Times, Bests
<1>2. ChosenSound' /\ AskedSome' /\ ActDue'
  <2>1. best.when \in Nat /\ (cycleAt \in 0..now => cycleAt \in 0..now')
    BY <1>1 DEF Bests
  <2> QED BY <1>1, <2>1 DEF MarksInv, ChosenSound, AskedSome, ActDue
<1>3. MarkUnrun' /\ MarkRunning' /\ MarksKept'
  BY DEF MarksInv, MarkUnrun, MarkRunning, MarksKept
<1>4. MarksPast'
  <2> SUFFICES ASSUME NEW sl \in Bars
               PROVE  rows[sl] <= now' /\ (pc' # "down" => lastMark[sl] <= IF pc' = "plan" THEN at ELSE now')
    BY DEF MarksPast
  <2>1. rows[sl] <= now /\ (pc # "down" => lastMark[sl] <= IF pc = "plan" THEN at ELSE now)
    BY DEF MarksInv, MarksPast
  <2>2. pc = "plan" => at <= now
    BY DEF MarksInv, AskedSome
  <2>3. rows[sl] \in Int /\ lastMark[sl] \in Int
    BY <1>1 DEF None
  <2> QED BY <1>1, <2>1, <2>2, <2>3
<1> QED BY <1>2, <1>3, <1>4 DEF MarksInv

LEMMA LightStep ==
  ASSUME TypeOK, MarksInv,
         FindRequest \/ ServeRequest \/ Wait \/ WaitOver \/ SendBrief \/ RequestFlatten \/ Down
  PROVE  TypeOK' /\ MarksInv'
<1> USE DEF clockVars, tickVars, memoryVars, storeVars, countVars
<1>0. now \in Nat /\ now <= Horizon /\ Horizon \in Nat
  BY Constants DEF TypeOK, Times
<1>1. CASE FindRequest
  <2>1. MarksInv'
    BY <1>0, <1>1, MarksLight DEF FindRequest
  <2>2. TypeOK'
    BY <1>1 DEF FindRequest, ClearRequest, TypeOK
  <2> QED BY <2>1, <2>2
<1>2. CASE ServeRequest
  BY <1>2, TakesType, MarksLight DEF ServeRequest, TypeOK
<1>3. CASE Wait \/ Down
  <2>1. now' \in Times /\ now' \in Nat /\ now' >= now
    BY <1>0, <1>3 DEF Wait, Down, Times
  <2> QED BY <1>3, <2>1, MarksLight DEF Wait, Down, TypeOK
<1>4. CASE WaitOver
  <2>1. best.when \in Nat
    BY DEF TypeOK
  <2>2. MarksInv'
    BY <1>0, <1>4, <2>1, MarksLight DEF WaitOver
  <2> QED BY <1>4, <2>2 DEF WaitOver, TypeOK
<1>5. CASE SendBrief
  BY <1>5, TakesType, MarksLight DEF SendBrief, TypeOK
<1>6. CASE RequestFlatten
  <2>1. requests' \in 0..MaxRequests
    BY <1>6, BoundsAssumption DEF RequestFlatten, TypeOK
  <2> QED BY <1>0, <1>6, <2>1, MarksLight DEF RequestFlatten, TypeOK
<1> QED BY <1>1, <1>2, <1>3, <1>4, <1>5, <1>6

LEMMA TickStep ==
  ASSUME TypeOK, MarksInv, Tick
  PROVE  TypeOK' /\ MarksInv'
<1> USE DEF clockVars, tickVars, memoryVars, storeVars, countVars
<1>1. now \in Nat /\ pc = "tick" /\ pc' = "plan" /\ at' = now /\ asked' = 0 /\ best' = NoAnswer
  BY Constants DEF Tick, TypeOK, Times
<1>2. TypeOK'
  BY <1>1, NoAnswerType, RunnerFacts DEF Tick, TypeOK, Bests
<1>3. ChosenSound' /\ AskedSome' /\ ActDue' /\ MarkUnrun' /\ MarkRunning'
  BY <1>1, NoAnswerType, RunnerFacts DEF Tick, ChosenSound, AskedSome, ActDue, MarkUnrun, MarkRunning
<1>4. MarksPast' /\ MarksKept'
  BY <1>1 DEF Tick, MarksInv, MarksPast, MarksKept
<1> QED BY <1>2, <1>3, <1>4 DEF MarksInv

-----------------------------------------------------------------------------
(* TypeOK and MarksInv: the plans.                                         *)

(* A runner that is left alone, or whose plan raises.                      *)
LEMMA AloneStep ==
  ASSUME TypeOK, MarksInv, BackedOff \/ PlanRaises
  PROVE  TypeOK' /\ MarksInv'
<1> USE DEF clockVars, storeVars
<1> DEFINE r == Runners[asked + 1]
<1>1. pc = "plan" /\ UNCHANGED <<now, reachable, at, preopened, flattened, swept, lastMark, cycleAt,
                                 startedAt, rows, sweepRows, sent, request, begun, recorded, crashes, requests>>
  BY DEF BackedOff, PlanRaises, memoryVars, countVars
<1>2. PICK w \in Nat : Asked(r, Answer(w))
  <2>1. CASE BackedOff
    <3>1. at < backoff[r] /\ backoff[r] \in Nat \cup {None} /\ at \in Nat
      BY <1>1, <2>1, Asks DEF BackedOff, InBackoff, TypeOK, MarksInv
    <3>2. backoff[r] \in Nat
      BY <3>1 DEF None
    <3> QED BY <2>1, <3>2 DEF BackedOff
  <2>2. CASE PlanRaises
    <3>1. at + Retry \in Nat
      BY <1>1, Asks, Constants DEF MarksInv
    <3> QED BY <2>2, <3>1 DEF PlanRaises
  <2> QED BY <2>1, <2>2
<1>3. r \in All /\ at \in Nat /\ at <= now /\ now \in Nat
  BY <1>1, Asks DEF MarksInv
<1> DEFINE a == Answer(w)
<1>4. a.when \in Nat /\ a.act = "none" /\ a.mark \in Nat \cup {None}
  BY AnswerIs DEF Answers
<1> HIDE DEF a
<1>5. /\ best' \in Bests /\ asked' \in 0..Len(Runners) /\ pc' \in {"plan", "wait"}
      /\ ChosenSound' /\ AskedSome'
      /\ best' = best \/ best'.act = "none"
  BY <1>1, <1>2, <1>3, <1>4, AskedStep DEF a, MarksInv
<1>6. backoff' \in [All -> Nat \cup {None}] /\ raises' \in 0..MaxRaises
  <2>1. CASE BackedOff
    BY <2>1 DEF BackedOff, memoryVars, countVars, TypeOK
  <2>2. CASE PlanRaises
    <3>1. at + Retry \in Nat
      BY <1>3, Constants
    <3>2. raises' \in 0..MaxRaises
      BY <2>2, BoundsAssumption DEF PlanRaises, Raises, TypeOK
    <3> QED BY <2>2, <3>1, <3>2 DEF PlanRaises, TypeOK
  <2> QED BY <2>1, <2>2
<1>7. TypeOK'
  BY <1>1, <1>5, <1>6 DEF TypeOK, Bests
<1>8. ActDue' /\ MarkRunning' /\ MarkUnrun'
  BY <1>1, <1>5 DEF MarksInv, ActDue, MarkRunning, MarkUnrun
<1>9. MarksPast' /\ MarksKept'
  <2>1. \A sl \in Bars : rows[sl] <= now /\ lastMark[sl] <= at /\ lastMark[sl] \in Int
    BY <1>1, RunnerFacts DEF MarksInv, MarksPast, TypeOK, None
  <2> QED BY <1>1, <1>3, <1>5, <2>1 DEF MarksInv, MarksPast, MarksKept
<1> QED BY <1>5, <1>7, <1>8, <1>9 DEF MarksInv

LEMMA AskType ==
  ASSUME TypeOK, AskedSome, Ask
  PROVE  /\ preopened' \subseteq Sleeves /\ flattened' \subseteq Sleeves /\ swept' \subseteq Sleeves
         /\ sweepRows' \subseteq Sleeves /\ raises' \in 0..MaxRaises
         /\ lastMark' \in [Sleeves -> Nat \cup {None}] /\ now' \in Times /\ now' \in Nat /\ now' >= now
<1> DEFINE r == Runners[asked + 1]
           a == Plan(r, at)
<1>1. pc = "plan"
  BY DEF Ask
<1>2. r \in All /\ at \in Nat /\ now \in Nat /\ Bars \subseteq Sleeves
  BY <1>1, Asks, RunnerFacts
<1>3. /\ a.does # "nothing" => r \in Sleeves
      /\ a.missed # None => r \in Bars /\ a.missed \in Nat
  BY <1>2, PlanIs
<1> HIDE DEF a
<1>4. /\ preopened' = IF PreopenDue(r, at) THEN preopened \cup {r} ELSE preopened
      /\ flattened' = IF a.does = "flatten" THEN flattened \cup {r} ELSE flattened
      /\ swept'     = IF a.does = "sweep" THEN swept \cup {r} ELSE swept
      /\ \/ /\ UNCHANGED raises
            /\ sweepRows' = IF a.does = "sweep" THEN sweepRows \cup {r} ELSE sweepRows
         \/ Raises /\ a.does = "sweep" /\ r \notin sweepRows /\ UNCHANGED sweepRows
      /\ lastMark'  = IF a.missed # None THEN [lastMark EXCEPT ![r] = a.missed] ELSE lastMark
      /\ IF PreopenDue(r, at) \/ a.does # "nothing" THEN Takes ELSE UNCHANGED now
  BY DEF Ask, a
<1>5. preopened' \subseteq Sleeves /\ flattened' \subseteq Sleeves /\ swept' \subseteq Sleeves
      /\ sweepRows' \subseteq Sleeves
  BY <1>3, <1>4 DEF PreopenDue, TypeOK
<1>6. raises' \in 0..MaxRaises
  BY <1>4, BoundsAssumption DEF Raises, TypeOK
<1>7. lastMark' \in [Sleeves -> Nat \cup {None}]
  BY <1>2, <1>3, <1>4 DEF TypeOK
<1>8. now' \in Times /\ now' \in Nat /\ now' >= now
  BY <1>2, <1>4, TakesType DEF TypeOK
<1> QED BY <1>5, <1>6, <1>7, <1>8

LEMMA ChosenType ==
  ASSUME TypeOK
  PROVE  /\ best \in Bests /\ best.who \in All /\ best.when \in Nat /\ best.mark \in Nat \cup {None}
         /\ best.act \in {"none", "cycle", "brief"}
         /\ now \in Nat /\ now \in Times /\ Times \subseteq Nat
         /\ \A sl \in Bars : rows[sl] \in Int /\ lastMark[sl] \in Int /\ sl \in Sleeves
         /\ \A sl \in Bars : \A m \in recorded[sl] : m \in Nat
<1>1. best \in Bests /\ now \in Times /\ Times \subseteq Nat
  BY Constants DEF TypeOK, Bests, Times
<1>2. \A sl \in Bars : rows[sl] \in Int /\ lastMark[sl] \in Int /\ sl \in Sleeves
  <2> SUFFICES ASSUME NEW sl \in Bars PROVE rows[sl] \in Int /\ lastMark[sl] \in Int /\ sl \in Sleeves
    OBVIOUS
  <2>1. sl \in Sleeves
    BY RunnerFacts
  <2>2. lastMark[sl] \in Nat \cup {None} /\ rows[sl] \in Times \cup {None}
    BY <2>1 DEF TypeOK
  <2>3. lastMark[sl] \in Nat \cup {None} /\ rows[sl] \in Nat \cup {None}
    BY <1>1, <2>2
  <2>4. None \in Int
    BY DEF None
  <2> QED BY <2>1, <2>3, <2>4
<1>3. \A sl \in Bars : \A m \in recorded[sl] : m \in Nat
  BY DEF TypeOK
<1> QED BY <1>1, <1>2, <1>3 DEF Bests

LEMMA AskStep ==
  ASSUME TypeOK, MarksInv, Ask
  PROVE  TypeOK' /\ MarksInv'
<1> DEFINE r == Runners[asked + 1]
           a == Plan(r, at)
<1>1. pc = "plan" /\ Asked(r, a)
      /\ UNCHANGED <<reachable, at, backoff, cycleAt, startedAt, rows, sent, request,
                     begun, recorded, crashes, requests>>
      /\ lastMark' = IF a.missed # None THEN [lastMark EXCEPT ![r] = a.missed] ELSE lastMark
  BY DEF Ask
<1>2. /\ r \in All /\ at \in Nat /\ now \in Nat /\ at <= now /\ Bars \subseteq Sleeves
      /\ \A i \in 1..asked : Runners[i] # r
      /\ now' \in Nat /\ now' >= now
  BY <1>1, Asks, AskType, RunnerFacts DEF MarksInv
<1>3. /\ a \in Answers
      /\ a.act = "brief" => r = Brief
      /\ a.act = "cycle" =>
           /\ r \in Sleeves /\ a.mark \in Nat
           /\ r \in Bars => /\ a.mark <= a.when
                            /\ a.mark > at \/ (a.missed = None /\ a.mark > lastMark[r])
      /\ a.missed # None => r \in Bars /\ a.missed \in Nat /\ a.missed <= at /\ a.missed > lastMark[r]
  BY <1>2, PlanIs
<1> HIDE DEF a
<1>4. a.when \in Nat /\ a.act \in {"none", "cycle", "brief"} /\ a.mark \in Nat \cup {None}
  BY <1>3 DEF Answers
<1>5. /\ best' \in Bests /\ asked' \in 0..Len(Runners) /\ pc' \in {"plan", "wait"}
      /\ ChosenSound' /\ AskedSome'
      /\ best' = best \/ (best'.who = r /\ best'.act = a.act /\ best'.mark = a.mark)
      /\ best'.act = "cycle" => best'.who = r \/ \E i \in 1..asked : best'.who = Runners[i]
  BY <1>1, <1>2, <1>3, <1>4, AskedStep DEF MarksInv
<1>6. TypeOK'
  BY <1>1, <1>5, AskType DEF TypeOK, Bests, MarksInv
<1>7. \A sl \in Bars : /\ lastMark[sl] \in Int /\ lastMark'[sl] \in Int /\ rows[sl] \in Int /\ rows[sl] <= now
                       /\ lastMark[sl] <= at /\ lastMark'[sl] <= at /\ lastMark[sl] <= lastMark'[sl]
  <2> SUFFICES ASSUME NEW sl \in Bars
               PROVE  /\ lastMark[sl] \in Int /\ lastMark'[sl] \in Int /\ rows[sl] \in Int /\ rows[sl] <= now
                      /\ lastMark[sl] <= at /\ lastMark'[sl] <= at /\ lastMark[sl] <= lastMark'[sl]
    OBVIOUS
  <2>1. lastMark[sl] \in Int /\ rows[sl] \in Int
    BY ChosenType
  <2>a. lastMark'[sl] \in Nat \cup {None}
    BY <1>6, ChosenType DEF TypeOK
  <2>b. lastMark'[sl] \in Int
    BY <2>a DEF None
  <2>2. rows[sl] <= now /\ lastMark[sl] <= at
    BY <1>1 DEF MarksInv, MarksPast
  <2>3. lastMark'[sl] = lastMark[sl] \/ (sl = r /\ lastMark'[sl] = a.missed /\ a.missed # None)
    BY <1>1, <1>2 DEF TypeOK
  <2> QED BY <1>3, <2>1, <2>b, <2>2, <2>3
<1>8. ASSUME pc' \in {"plan", "wait", "act"}, best'.act = "cycle", best'.who \in Bars
      PROVE  lastMark'[best'.who] < best'.mark
  <2>1. CASE best'.who = r
    <3>1. CASE best' = best
      BY <1>1, <1>2, <1>8, <2>1, <3>1 DEF MarksInv, AskedSome
    <3>2. CASE best' # best
      <4>1. a.act = "cycle" /\ r \in Bars /\ best'.mark = a.mark
        BY <1>5, <1>8, <2>1, <3>2
      <4>2. a.mark \in Nat /\ (a.mark > at \/ (a.missed = None /\ a.mark > lastMark[r]))
        BY <1>3, <4>1
      <4>3. a.missed = None => lastMark' = lastMark
        BY <1>1
      <4> QED BY <1>2, <1>7, <2>1, <4>1, <4>2, <4>3
    <3> QED BY <3>1, <3>2
  <2>2. CASE best'.who # r
    <3>1. best' = best
      BY <1>5, <2>2
    <3>2. lastMark[best.who] < best.mark
      BY <1>1, <1>8, <3>1 DEF MarksInv, MarkUnrun
    <3>3. lastMark'[best.who] = lastMark[best.who]
      BY <1>1, <1>2, <1>8, <2>2, <3>1 DEF TypeOK
    <3> QED BY <3>1, <3>2, <3>3
  <2> QED BY <2>1, <2>2
<1>9. MarkUnrun' /\ ActDue' /\ MarkRunning'
  BY <1>5, <1>8 DEF MarkUnrun, ActDue, MarkRunning
<1>10. MarksPast'
  BY <1>1, <1>2, <1>5, <1>7 DEF MarksPast
<1>11. MarksKept'
  <2> SUFFICES ASSUME NEW sl \in Bars, NEW m \in recorded[sl] PROVE m <= rows[sl] /\ m <= lastMark'[sl]
    BY <1>1 DEF MarksKept
  <2>1. m <= rows[sl] /\ m <= lastMark[sl]
    BY <1>1 DEF MarksInv, MarksKept
  <2>2. m \in Nat
    BY DEF TypeOK
  <2> QED BY <1>7, <2>1, <2>2
<1> QED BY <1>5, <1>6, <1>9, <1>10, <1>11 DEF MarksInv

-----------------------------------------------------------------------------
(* TypeOK and MarksInv: the actions, stops and starts.                     *)

LEMMA BeginStep ==
  ASSUME TypeOK, MarksInv, BeginCycle
  PROVE  TypeOK' /\ MarksInv'
<1> USE DEF clockVars, storeVars
<1>1. /\ pc = "act" /\ best.act = "cycle" /\ pc' = "cycle" /\ cycleAt' = now
      /\ lastMark' = [lastMark EXCEPT ![best.who] = MarkRun]
      /\ UNCHANGED <<now, reachable, at, asked, best, backoff, preopened, flattened, swept, startedAt,
                     rows, sweepRows, sent, request, recorded, crashes, raises, requests>>
      /\ begun' = [begun EXCEPT ![best.who] = @ \cup {MarkRun}]
  BY DEF BeginCycle, Remembers
<1>2. best.who \in Sleeves /\ best.mark \in Nat /\ best.when <= now
      /\ (best.who \in Bars => best.mark <= best.when)
  BY <1>1 DEF MarksInv, ChosenSound, ActDue
<1>3. MarkRun \in Nat /\ (best.who \in Bars => MarkRun = best.mark)
  BY <1>2, MarkType, ChosenType, RunnerFacts DEF MarkRun
<1>4. TypeOK'
  BY <1>1, <1>2, <1>3 DEF TypeOK
<1>5. \A sl \in Bars : /\ lastMark'[sl] = IF sl = best.who THEN best.mark ELSE lastMark[sl]
                       /\ rows[sl] <= now /\ lastMark[sl] <= now
                       /\ sl = best.who => lastMark[sl] < best.mark
  BY <1>1, <1>2, <1>3, ChosenType DEF MarksInv, MarksPast, MarkUnrun, TypeOK
<1>6. \A sl \in Bars : lastMark'[sl] <= now /\ lastMark[sl] <= lastMark'[sl]
  BY <1>2, <1>5, ChosenType
<1>7. ChosenSound' /\ AskedSome' /\ ActDue' /\ MarkUnrun'
  BY <1>1, ChosenType DEF MarksInv, ChosenSound, AskedSome, ActDue, MarkUnrun
<1>8. MarkRunning'
  BY <1>1, <1>2, <1>5, ChosenType DEF MarkRunning
<1>9. MarksPast'
  BY <1>1, <1>5, <1>6 DEF MarksPast
<1>10. MarksKept'
  <2> SUFFICES ASSUME NEW sl \in Bars, NEW m \in recorded[sl] PROVE m <= rows[sl] /\ m <= lastMark'[sl]
    BY <1>1 DEF MarksKept
  <2>1. m <= rows[sl] /\ m <= lastMark[sl]
    BY <1>1 DEF MarksInv, MarksKept
  <2>2. lastMark'[sl] \in Nat \cup {None}
    BY <1>4, ChosenType DEF TypeOK
  <2>3. lastMark'[sl] \in Int
    BY <2>2 DEF None
  <2> QED BY <1>6, <2>1, <2>3, ChosenType
<1> QED BY <1>4, <1>7, <1>8, <1>9, <1>10 DEF MarksInv

LEMMA EndStep ==
  ASSUME TypeOK, MarksInv, EndCycle
  PROVE  TypeOK' /\ MarksInv'
<1>1. /\ pc = "cycle" /\ pc' = "tick" /\ cycleAt' = None
      /\ UNCHANGED <<reachable, at, asked, best, backoff, preopened, flattened, swept, lastMark,
                     startedAt, sweepRows, sent, request, begun, crashes, requests>>
      /\ now' \in Times /\ now' \in Nat /\ now' >= now
  BY TakesType DEF EndCycle
<1>2. best.who \in Sleeves /\ best.mark \in Nat /\ cycleAt \in 0..now
  BY <1>1 DEF MarksInv, ChosenSound, ActDue
<1>3. best.who \in Bars => lastMark[best.who] = best.mark /\ best.mark <= cycleAt /\ rows[best.who] <= cycleAt
  BY <1>1 DEF MarksInv, MarkRunning
<1>4. cycleAt \in Times /\ cycleAt \in Nat /\ cycleAt <= now
  BY <1>2, ChosenType DEF TypeOK, None
<1>5. raises' \in 0..MaxRaises
  BY BoundsAssumption DEF EndCycle, Raises, TypeOK
<1>6. \/ UNCHANGED <<rows, recorded>>
      \/ /\ best.who \in Bars /\ rows' = [rows EXCEPT ![best.who] = cycleAt]
         /\ recorded' = [recorded EXCEPT ![best.who] = @ \cup {best.mark}]
  BY DEF EndCycle
<1>7. TypeOK'
  <2>1. rows' \in [Bars -> Times \cup {None}] /\ recorded' \in [Bars -> SUBSET Nat]
    BY <1>2, <1>4, <1>6 DEF TypeOK
  <2> QED BY <1>1, <1>5, <2>1 DEF TypeOK
<1>8. \A sl \in Bars : /\ rows[sl] <= rows'[sl] /\ rows'[sl] <= now' /\ rows'[sl] \in Int
                       /\ lastMark[sl] <= now' /\ lastMark[sl] \in Int
  <2> SUFFICES ASSUME NEW sl \in Bars
               PROVE  /\ rows[sl] <= rows'[sl] /\ rows'[sl] <= now' /\ rows'[sl] \in Int
                      /\ lastMark[sl] <= now' /\ lastMark[sl] \in Int
    OBVIOUS
  <2>1. rows'[sl] = rows[sl] \/ (sl = best.who /\ rows'[sl] = cycleAt)
    BY <1>6 DEF TypeOK
  <2>2. rows[sl] <= now /\ lastMark[sl] <= now /\ rows[sl] \in Int /\ lastMark[sl] \in Int /\ now \in Nat
    BY <1>1, ChosenType DEF MarksInv, MarksPast
  <2> QED BY <1>1, <1>3, <1>4, <2>1, <2>2
<1>9. MarksKept'
  <2> SUFFICES ASSUME NEW sl \in Bars, NEW m \in recorded'[sl] PROVE m <= rows'[sl] /\ m <= lastMark[sl]
    BY <1>1 DEF MarksKept
  <2>1. CASE m \in recorded[sl]
    <3>1. m <= rows[sl] /\ m <= lastMark[sl] /\ m \in Nat /\ rows[sl] \in Int
      BY <1>1, <2>1, ChosenType DEF MarksInv, MarksKept
    <3> QED BY <1>8, <3>1
  <2>2. CASE m \notin recorded[sl]
    <3>1. sl = best.who /\ m = best.mark /\ rows'[sl] = cycleAt
      BY <1>6, <2>2 DEF TypeOK
    <3> QED BY <1>2, <1>3, <3>1
  <2> QED BY <2>1, <2>2
<1>10. ChosenSound' /\ AskedSome' /\ ActDue' /\ MarkUnrun' /\ MarkRunning'
  BY <1>1 DEF MarksInv, ChosenSound, AskedSome, ActDue, MarkUnrun, MarkRunning
<1>11. MarksPast'
  BY <1>1, <1>8 DEF MarksPast
<1> QED BY <1>7, <1>9, <1>10, <1>11 DEF MarksInv

LEMMA RaisesStep ==
  ASSUME TypeOK, MarksInv, ActionRaises
  PROVE  TypeOK' /\ MarksInv'
<1> USE DEF clockVars, storeVars
<1>1. /\ pc = "act" /\ pc' = "tick" /\ UNCHANGED <<now, reachable, at, asked, best, preopened, flattened,
           swept, cycleAt, startedAt, rows, sweepRows, sent, request, begun, recorded, crashes, requests>>
      /\ backoff' = [backoff EXCEPT ![best.who] = now + Retry]
      /\ lastMark' = IF best.who \in Bars THEN [lastMark EXCEPT ![best.who] = MarkRun] ELSE lastMark
  BY DEF ActionRaises, Remembers
<1>2. best.who \in Bars => /\ best.act = "cycle" /\ best.mark \in Nat /\ MarkRun = best.mark
                           /\ lastMark[best.who] < best.mark /\ best.mark <= now
  <2> SUFFICES ASSUME best.who \in Bars
               PROVE  /\ best.act = "cycle" /\ best.mark \in Nat /\ MarkRun = best.mark
                      /\ lastMark[best.who] < best.mark /\ best.mark <= now
    OBVIOUS
  <2>1. best.act # "none" /\ best.when <= now /\ best.act # "brief"
    BY <1>1, RunnerFacts DEF MarksInv, ActDue, ChosenSound
  <2>2. best.act = "cycle"
    BY <2>1, ChosenType
  <2> QED BY <1>1, <2>1, <2>2, ChosenType, RunnerFacts DEF MarksInv, ChosenSound, MarkUnrun, MarkRun
<1>3. raises' \in 0..MaxRaises /\ now + Retry \in Nat
  <2>1. MaxRaises \in Nat /\ Retry \in Nat
    BY BoundsAssumption
  <2>2. raises' \in 0..MaxRaises
    BY <2>1 DEF ActionRaises, Raises, TypeOK
  <2> QED BY <2>1, <2>2, ChosenType
<1>4. TypeOK'
  <2>1. lastMark' \in [Sleeves -> Nat \cup {None}]
    BY <1>1, <1>2, RunnerFacts DEF TypeOK
  <2>2. backoff' \in [All -> Nat \cup {None}]
    BY <1>1, <1>3 DEF TypeOK
  <2> QED BY <1>1, <1>3, <2>1, <2>2 DEF TypeOK
<1>5. \A sl \in Bars : lastMark[sl] <= lastMark'[sl] /\ lastMark'[sl] <= now /\ lastMark'[sl] \in Int
  <2> SUFFICES ASSUME NEW sl \in Bars
               PROVE  lastMark[sl] <= lastMark'[sl] /\ lastMark'[sl] <= now /\ lastMark'[sl] \in Int
    OBVIOUS
  <2>1. lastMark'[sl] = lastMark[sl] \/ (sl = best.who /\ lastMark'[sl] = best.mark)
    BY <1>1, <1>2, ChosenType DEF TypeOK
  <2>2. lastMark[sl] <= now /\ lastMark[sl] \in Int
    BY <1>1, ChosenType DEF MarksInv, MarksPast
  <2> QED BY <1>2, <2>1, <2>2
<1>6. ChosenSound' /\ AskedSome' /\ ActDue' /\ MarkUnrun' /\ MarkRunning'
  BY <1>1 DEF MarksInv, ChosenSound, AskedSome, ActDue, MarkUnrun, MarkRunning
<1>7. MarksPast'
  BY <1>1, <1>5 DEF MarksInv, MarksPast
<1>8. MarksKept'
  <2> SUFFICES ASSUME NEW sl \in Bars, NEW m \in recorded[sl] PROVE m <= rows[sl] /\ m <= lastMark'[sl]
    BY <1>1 DEF MarksKept
  <2>1. m <= rows[sl] /\ m <= lastMark[sl] /\ m \in Nat /\ lastMark[sl] \in Int
    BY <1>1, ChosenType DEF MarksInv, MarksKept
  <2> QED BY <1>5, <2>1
<1> QED BY <1>4, <1>6, <1>7, <1>8 DEF MarksInv

(* What an empty memory, an empty store and a first state hold.            *)
LEMMA EmptyTyped ==
  /\ [r \in All |-> None] \in [All -> Nat \cup {None}]
  /\ [sl \in Sleeves |-> None] \in [Sleeves -> Nat \cup {None}]
  /\ [sl \in Bars |-> None] \in [Bars -> Times \cup {None}]
  /\ [sl \in Sleeves |-> {}] \in [Sleeves -> SUBSET Nat]
  /\ [sl \in Bars |-> {}] \in [Bars -> SUBSET Nat]
  /\ 0 \in Times /\ 0 \in 0..Len(Runners) /\ NoAnswer \in Bests
  /\ 0 \in 0..MaxCrashes /\ 0 \in 0..MaxRaises /\ 0 \in 0..MaxRequests
  /\ Reachable \subseteq BOOLEAN
<1>1. MaxCrashes \in Nat /\ MaxRaises \in Nat /\ MaxRequests \in Nat /\ Reachable \subseteq BOOLEAN
  BY BoundsAssumption
<1>2. 0 \in Times /\ NoAnswer \in Bests
  BY Constants, NoAnswerType DEF Times
<1>3. Len(Runners) \in Nat
  BY RunnerFacts
<1> QED BY <1>1, <1>2, <1>3

(* The process stops, starts, and the next day begins.                     *)
LEMMA DayStep ==
  ASSUME TypeOK, MarksInv, Crash \/ Startup \/ NewDay
  PROVE  TypeOK' /\ MarksInv'
<1> USE DEF clockVars, storeVars
<1>1. CASE Crash
  <2>1. pc' = "down" /\ at' = 0 /\ asked' = 0 /\ best' = NoAnswer /\ UNCHANGED <<now, rows, recorded>>
    BY <1>1 DEF Crash
  <2>2. crashes' \in 0..MaxCrashes
    BY <1>1, BoundsAssumption DEF Crash, TypeOK
  <2>3. TypeOK'
    <3>1. /\ backoff' = [r \in All |-> None] /\ preopened' = {} /\ flattened' = {} /\ swept' = {}
          /\ cycleAt' = None /\ startedAt' = None /\ lastMark' = [sl \in Sleeves |-> None]
          /\ UNCHANGED <<now, reachable, rows, sweepRows, sent, request, begun, recorded, raises, requests>>
      BY <1>1 DEF Crash, NoMemory
    <3>2. {cycleAt', startedAt'} \subseteq Times \cup {None}
      BY <3>1
    <3> QED BY <2>1, <2>2, <3>1, <3>2, EmptyTyped DEF TypeOK, Bests
  <2>4. MarksInv'
    BY <2>1, NoAnswerType DEF MarksInv, ChosenSound, AskedSome, ActDue, MarkUnrun, MarkRunning,
                              MarksPast, MarksKept
  <2> QED BY <2>3, <2>4
<1>2. CASE Startup
  <2>1. /\ pc = "down" /\ pc' = "tick" /\ startedAt' = now /\ now' \in Times /\ now' \in Nat /\ now' >= now
        /\ lastMark' = [sl \in Sleeves |-> IF sl = S0 THEN None ELSE rows[sl]]
        /\ UNCHANGED <<reachable, at, asked, best, backoff, preopened, flattened, swept, cycleAt, rows,
                       sweepRows, sent, request, begun, recorded, crashes, raises, requests>>
    BY <1>2, TakesType DEF Startup, Restored, countVars
  <2>2. lastMark' \in [Sleeves -> Nat \cup {None}]
    BY <2>1, ChosenType DEF TypeOK, Bars
  <2>3. TypeOK'
    BY <2>1, <2>2 DEF TypeOK
  <2>4. \A sl \in Bars : lastMark'[sl] = rows[sl] /\ rows[sl] <= now'
    BY <2>1, ChosenType, RunnerFacts DEF MarksInv, MarksPast
  <2>5. MarksInv'
    BY <2>1, <2>4 DEF MarksInv, ChosenSound, AskedSome, ActDue, MarkUnrun, MarkRunning,
                      MarksPast, MarksKept
  <2> QED BY <2>3, <2>5
<1>3. CASE NewDay
  <2>1. /\ pc' \in {"down", "tick"} /\ now' = 0 /\ best' = NoAnswer /\ asked' = 0 /\ at' = 0
        /\ lastMark' = [sl \in Sleeves |-> None] /\ rows' = [sl \in Bars |-> None]
        /\ recorded' = [sl \in Bars |-> {}]
    BY <1>3 DEF NewDay
  <2>2. 0 \in Times
    BY Constants DEF Times
  <2>3. TypeOK'
    <3>1. /\ backoff' = [r \in All |-> None] /\ preopened' = {} /\ flattened' = {} /\ swept' = {}
          /\ cycleAt' = None /\ startedAt' \in {None, 0} /\ sweepRows' = {} /\ sent' = FALSE
          /\ begun' = [sl \in Sleeves |-> {}] /\ reachable' \in Reachable
          /\ UNCHANGED <<request, crashes, raises, requests>>
      BY <1>3 DEF NewDay, NoMemory
    <3>2. {cycleAt', startedAt'} \subseteq Times \cup {None}
      BY <2>2, <3>1
    <3> QED BY <2>1, <2>2, <3>1, <3>2, EmptyTyped DEF TypeOK, Bests
  <2>4. MarksInv'
    BY <2>1, NoAnswerType, RunnerFacts DEF MarksInv, ChosenSound, AskedSome, ActDue, MarkUnrun,
                              MarkRunning, MarksPast, MarksKept, None
  <2> QED BY <2>3, <2>4
<1> QED BY <1>1, <1>2, <1>3

LEMMA MarksStep ==
  ASSUME TypeOK, MarksInv, [Next]_vars
  PROVE  TypeOK' /\ MarksInv'
<1>1. CASE UNCHANGED vars
  <2>1. UNCHANGED <<now, reachable, pc, at, asked, best, backoff, preopened, flattened, swept, lastMark,
                    cycleAt, startedAt, rows, sweepRows, sent, request, begun, recorded, crashes, raises,
                    requests>>
    BY <1>1 DEF vars, clockVars, tickVars, memoryVars, storeVars, countVars
  <2>2. TypeOK'
    BY <2>1 DEF TypeOK
  <2> QED BY <2>1, <2>2, MarksLight, ChosenType
<1>2. CASE Next
  BY <1>2, LightStep, TickStep, AloneStep, AskStep, BeginStep, EndStep, RaisesStep, DayStep
     DEF Next, Thread
<1> QED BY <1>1, <1>2

LEMMA MarksInit == Init => TypeOK /\ MarksInv
<1> SUFFICES ASSUME Init PROVE TypeOK /\ MarksInv
  OBVIOUS
<1>1. 0 \in Times
  BY Constants DEF Times
<1>2. TypeOK
  <2>1. {cycleAt, startedAt} \subseteq Times \cup {None}
    BY DEF Init
  <2> QED BY <2>1, EmptyTyped DEF Init, TypeOK, Bests
<1>3. MarksInv
  BY NoAnswerType, RunnerFacts DEF Init, MarksInv, ChosenSound, AskedSome, ActDue, MarkUnrun,
                              MarkRunning, MarksPast, MarksKept, None
<1> QED BY <1>2, <1>3

(* TypeCorrect: every variable keeps its type, for any runners, marks and  *)
(* session; a cycle's mark is a time because only sleeves answer cycles.   *)
THEOREM TypeCorrect == Spec => []TypeOK
<1> QED BY MarksInit, MarksStep, PTL DEF Spec

(* NeverRunTwice: a decision mark whose cycle was recorded never begins    *)
(* again, across any number of restarts, failed plans and failed actions,  *)
(* and however long the runners keep each other waiting.                   *)
THEOREM NeverRunTwice == Spec => RecordedOnce
<1>1. TypeOK /\ MarksInv /\ [Next]_vars =>
        [\A sl \in Bars : Begins(sl) => best.mark \notin recorded[sl]]_vars
  <2> SUFFICES ASSUME TypeOK, MarksInv, Next, NEW sl \in Bars, Begins(sl), best.mark \in recorded[sl]
               PROVE  FALSE
    OBVIOUS
  <2>1. BeginCycle
    BY DEF Begins, Next, Thread, FindRequest, ServeRequest, Tick, BackedOff, Ask, Asked, Wait, WaitOver,
           EndCycle, SendBrief, PlanRaises, ActionRaises, RequestFlatten, tickVars, Crash, Down, Startup, NewDay
  <2>2. best.act = "cycle" /\ pc = "act" /\ best.who = sl
    BY <2>1 DEF BeginCycle, Begins
  <2>3. lastMark[sl] < best.mark
    BY <2>2 DEF MarksInv, MarkUnrun
  <2>4. best.mark <= lastMark[sl]
    BY <2>2 DEF MarksInv, MarksKept
  <2> QED BY <2>3, <2>4, ChosenType
<1> QED BY <1>1, MarksInit, MarksStep, PTL DEF Spec, RecordedOnce

(* SweptFlat: no intraday sleeve's sweep is recorded before the process    *)
(* that runs it has flattened the sleeve, whatever it finds on startup.    *)
THEOREM SweptFlat == Spec => SweepAfterFlatten
<1>1. TypeOK /\ MarksInv /\ [Next]_vars =>
        [\A sl \in Intraday : sl \in sweepRows' \ sweepRows => sl \in flattened]_vars
  <2> SUFFICES ASSUME TypeOK, MarksInv, Next, NEW sl \in Intraday, sl \in sweepRows', sl \notin sweepRows
               PROVE  sl \in flattened
    OBVIOUS
  <2>1. Ask
    BY DEF Next, Thread, FindRequest, ServeRequest, Tick, BackedOff, Wait, WaitOver, BeginCycle,
           EndCycle, SendBrief, PlanRaises, ActionRaises, RequestFlatten, storeVars, Crash, Down, Startup, NewDay
  <2> DEFINE r == Runners[asked + 1]
  <2>2. r = sl /\ Plan(r, at).does = "sweep"
    BY <2>1 DEF Ask
  <2>3. r \in All /\ at \in Nat
    BY <2>1, Asks DEF Ask, MarksInv
  <2> QED BY <2>2, <2>3, PlanIs
<1> QED BY <1>1, MarksInit, MarksStep, PTL DEF Spec, SweepAfterFlatten
-----------------------------------------------------------------------------
(* AskedHeeded: no answer is later than work a runner asked so far will    *)
(* have to do.                                                             *)

LEMMA UndoneIs ==
  ASSUME NEW sl \in Sleeves
  PROVE  /\ Undone(sl) \subseteq Nat
         /\ \A d \in Undone(sl) : \/ sl = S0 /\ d \in Minutes
                                  \/ sl \in Bars /\ d \in Marks[sl]
                                  \/ d = PreopenAt /\ sl \notin preopened
                                  \/ d = FlattenAt /\ sl \in Intraday /\ sl \notin flattened
                                  \/ d = SweepAt /\ sl \notin swept
<1>1. sl = S0 \/ sl \in Bars
  BY RunnerFacts
<1>2. sl = S0 => Minutes \subseteq Nat
  BY MinutesAre
<1>3. sl \in Bars => Marks[sl] \subseteq Nat
  BY MarksFacts, Constants
<1>4. S0 \notin Bars /\ PreopenAt \in Nat /\ FlattenAt \in Nat /\ SweepAt \in Nat
  BY RunnerFacts, Constants
<1> QED BY <1>1, <1>2, <1>3, <1>4 DEF Undone

LEMMA UndoneShrinks ==
  ASSUME NEW sl \in Sleeves, preopened \subseteq preopened', flattened \subseteq flattened', swept \subseteq swept'
  PROVE  Undone(sl)' \subseteq Undone(sl)
BY DEF Undone

LEMMA HeededStays ==
  ASSUME NEW r \in All, Heeded(r), at' = at, sent' = sent, best.when \in Nat, best'.when \in Nat,
         best'.when <= best.when, InBackoff(r) => InBackoff(r)',
         preopened \subseteq preopened', flattened \subseteq flattened', swept \subseteq swept'
  PROVE  Heeded(r)'
<1> SUFFICES ASSUME ~InBackoff(r)'
             PROVE  IF r = Brief THEN ~sent /\ BriefAt > at => best'.when <= BriefAt
                    ELSE \A d \in Undone(r)' : d > at => best'.when <= d
  BY DEF Heeded
<1>1. ~InBackoff(r)
  OBVIOUS
<1>2. CASE r = Brief
  BY <1>1, <1>2, Constants DEF Heeded
<1>3. CASE r # Brief
  <2>1. r \in Sleeves
    BY <1>3, RunnerFacts
  <2>2. Undone(r)' \subseteq Undone(r) /\ Undone(r) \subseteq Nat
    BY <2>1, UndoneIs, UndoneShrinks
  <2>3. \A d \in Undone(r) : d > at => best.when <= d
    BY <1>1, <1>3 DEF Heeded
  <2> QED BY <1>3, <2>2, <2>3
<1> QED BY <1>2, <1>3

LEMMA PlanHeeds ==
  ASSUME NEW r \in All, at \in Nat
  PROVE  IF r = Brief THEN ~sent /\ BriefAt > at => Plan(r, at).when <= BriefAt
         ELSE \A d \in Undone(r) : d > at => Plan(r, at).when <= d
<1>1. CASE r = Brief
  <2>1. Plan(r, at) = BriefPlan(at)
    BY <1>1, RunnerFacts DEF Plan
  <2> QED BY <1>1, <2>1, BriefPlanIs, Constants
<1>2. CASE r # Brief
  <2> SUFFICES ASSUME NEW d \in Undone(r), d > at PROVE Plan(r, at).when <= d
    BY <1>2
  <2>1. r \in Sleeves /\ (r = S0 \/ r \in Bars)
    BY <1>2, RunnerFacts
  <2>2. \/ r = S0 /\ d \in Minutes
        \/ r \in Bars /\ d \in Marks[r]
        \/ d = PreopenAt
        \/ d = FlattenAt /\ r \in Intraday
        \/ d = SweepAt
    BY <2>1, UndoneIs
  <2>3. CASE r = S0
    <3>1. Plan(r, at) = S0Plan(at) /\ S0 \notin Bars
      BY <2>3, RunnerFacts DEF Plan
    <3> QED BY <2>2, <2>3, <3>1, S0PlanIs, Constants
  <2>4. CASE r \in Bars
    <3>1. Plan(r, at) = BarPlan(r, at) /\ r # S0
      BY <2>4, RunnerFacts DEF Plan
    <3> QED BY <2>2, <2>4, <3>1, BarPlanIs, Constants
  <2> QED BY <2>1, <2>3, <2>4
<1> QED BY <1>1, <1>2

(* The earliest answer so far, after one more.                             *)
LEMMA Earlier ==
  ASSUME TypeOK, NEW r, NEW a, a.when \in Nat, Asked(r, a)
  PROVE  /\ best'.when \in Nat /\ best'.when <= a.when /\ (asked # 0 => best'.when <= best.when)
         /\ best.when \in Nat /\ asked' = asked + 1
<1> DEFINE b == [when |-> a.when, who |-> r, act |-> a.act, mark |-> a.mark]
<1>1. b.when = a.when
  OBVIOUS
<1>2. best.when \in Nat
  BY ChosenType
<1>3. IF asked = 0 \/ a.when < best.when THEN best' = b ELSE best' = best
  BY DEF Asked, Better
<1>4. asked' = asked + 1
  BY DEF Asked
<1> HIDE DEF b
<1> QED BY <1>1, <1>2, <1>3, <1>4

(* One more runner has been asked, and its own work is heeded.             *)
LEMMA OneMore ==
  ASSUME TypeOK, MarksInv, AskedHeeded, pc = "plan", NEW r, r = Runners[asked + 1], NEW a, a.when \in Nat,
         Asked(r, a), at' = at, sent' = sent,
         preopened \subseteq preopened', flattened \subseteq flattened', swept \subseteq swept',
         \A x \in All : x # r => backoff'[x] = backoff[x], Heeded(r)'
  PROVE  AskedHeeded'
<1> SUFFICES ASSUME NEW i \in 1..asked' PROVE Heeded(Runners[i])'
  BY DEF AskedHeeded
<1>1. /\ best'.when \in Nat /\ (asked # 0 => best'.when <= best.when)
      /\ best.when \in Nat /\ asked' = asked + 1
  BY Earlier
<1>2. asked \in Nat /\ asked + 1 \in 1..Len(Runners)
      /\ \A j \in 1..asked : j \in 1..Len(Runners) /\ Runners[j] # Runners[asked + 1]
  BY Asks DEF MarksInv
<1>3. CASE i = asked + 1
  BY <1>3
<1>4. CASE i \in 1..asked
  <2>1. Runners[i] \in All /\ Runners[i] # r /\ Heeded(Runners[i]) /\ asked # 0
    BY <1>2, <1>4, RunnerFacts DEF AskedHeeded
  <2>2. InBackoff(Runners[i]) => InBackoff(Runners[i])'
    BY <2>1 DEF InBackoff
  <2> QED BY <1>1, <2>1, <2>2, HeededStays
<1> QED BY <1>1, <1>2, <1>3, <1>4

LEMMA HeedAsk ==
  ASSUME TypeOK, MarksInv, AskedHeeded, Ask
  PROVE  AskedHeeded'
<1>0. pc = "plan"
  BY DEF Ask
<1>2. PICK r \in All : r = Runners[asked + 1] /\ at \in Nat
  BY <1>0, Asks DEF MarksInv
<1> DEFINE a == Plan(r, at)
<1>1. /\ pc = "plan" /\ Asked(r, a) /\ at' = at /\ sent' = sent /\ backoff' = backoff
      /\ preopened \subseteq preopened' /\ flattened \subseteq flattened' /\ swept \subseteq swept'
  BY <1>2 DEF Ask
<1>3. a.when \in Nat
  BY <1>2, PlanIs DEF Answers
<1>4. IF r = Brief THEN ~sent /\ BriefAt > at => a.when <= BriefAt
      ELSE \A d \in Undone(r) : d > at => a.when <= d
  BY <1>2, PlanHeeds
<1> HIDE DEF a
<1>5. best'.when \in Nat /\ best'.when <= a.when
  BY <1>1, <1>3, Earlier
<1>6. Heeded(r)'
  <2>1. CASE r = Brief
    BY <1>1, <1>3, <1>4, <1>5, <2>1, Constants DEF Heeded
  <2>2. CASE r # Brief
    <3>1. r \in Sleeves
      BY <1>2, <2>2, RunnerFacts
    <3>2. Undone(r)' \subseteq Undone(r) /\ Undone(r) \subseteq Nat
      BY <1>1, <3>1, UndoneIs, UndoneShrinks
    <3>3. \A d \in Undone(r)' : d > at' => best'.when <= d
      BY <1>1, <1>3, <1>4, <1>5, <2>2, <3>2
    <3> QED BY <2>2, <3>3 DEF Heeded
  <2> QED BY <2>1, <2>2
<1> QED BY <1>1, <1>2, <1>3, <1>6, OneMore

(* A runner left alone is exempt until its time comes.                     *)
LEMMA HeedAlone ==
  ASSUME TypeOK, MarksInv, AskedHeeded, BackedOff \/ PlanRaises
  PROVE  AskedHeeded'
<1>1. /\ pc = "plan" /\ at' = at /\ sent' = sent
      /\ preopened' = preopened /\ flattened' = flattened /\ swept' = swept
  BY DEF BackedOff, PlanRaises, memoryVars, storeVars
<1>2. PICK r \in All : r = Runners[asked + 1] /\ at \in Nat
  BY <1>1, Asks DEF MarksInv
<1>3. CASE BackedOff
  <2>1. Asked(r, Answer(backoff[r])) /\ backoff' = backoff /\ at < backoff[r]
    BY <1>2, <1>3 DEF BackedOff, InBackoff, memoryVars
  <2>2. backoff[r] \in Nat \cup {None}
    BY <1>2 DEF TypeOK
  <2>3. backoff[r] \in Nat
    BY <1>2, <2>1, <2>2 DEF None
  <2>4. Answer(backoff[r]).when \in Nat
    BY <2>3, AnswerIs
  <2>5. Heeded(r)'
    BY <1>1, <2>1 DEF Heeded, InBackoff
  <2> QED BY <1>1, <1>2, <2>1, <2>4, <2>5, OneMore
<1>4. CASE PlanRaises
  <2>1. Asked(r, Answer(at + Retry)) /\ backoff' = [backoff EXCEPT ![r] = at + Retry]
    BY <1>2, <1>4 DEF PlanRaises
  <2>2. Retry \in Nat \ {0}
    BY BoundsAssumption
  <2>3. Answer(at + Retry).when \in Nat
    BY <1>2, <2>2, AnswerIs
  <2>4. backoff'[r] = at + Retry /\ \A x \in All : x # r => backoff'[x] = backoff[x]
    BY <1>2, <2>1 DEF TypeOK
  <2>5. Heeded(r)'
    BY <1>1, <1>2, <2>2, <2>4 DEF Heeded, InBackoff
  <2> QED BY <1>1, <1>2, <2>1, <2>3, <2>4, <2>5, OneMore
<1> QED BY <1>3, <1>4

LEMMA HeedStep ==
  ASSUME TypeOK, MarksInv, AskedHeeded, [Next]_vars
  PROVE  AskedHeeded'
<1> USE DEF clockVars, tickVars, memoryVars, storeVars, countVars
<1>1. ASSUME UNCHANGED <<pc, at, asked, best, backoff, preopened, flattened, swept, sent>>
      PROVE  AskedHeeded'
  BY <1>1 DEF AskedHeeded, Heeded, InBackoff, Undone
<1>2. ASSUME pc' \notin {"plan", "wait"} PROVE AskedHeeded'
  BY <1>2 DEF AskedHeeded
<1>3. CASE UNCHANGED vars
  BY <1>1, <1>3 DEF vars
<1>4. CASE Wait \/ RequestFlatten \/ Down
  BY <1>1, <1>4 DEF Wait, RequestFlatten, Down
<1>5. CASE FindRequest \/ ServeRequest \/ WaitOver \/ BeginCycle \/ EndCycle \/ SendBrief \/ ActionRaises
           \/ Crash \/ Startup \/ NewDay
  BY <1>2, <1>5 DEF FindRequest, ServeRequest, WaitOver, BeginCycle, EndCycle, SendBrief, ActionRaises,
                    Crash, Startup, NewDay
<1>6. CASE Tick
  BY <1>6 DEF Tick, AskedHeeded
<1> QED BY <1>3, <1>4, <1>5, <1>6, HeedAsk, HeedAlone DEF Next, Thread

(* WakesInTime: at any time, with any runners and marks, the loop never    *)
(* waits past work a runner that is not left alone will have to do.        *)
THEOREM WakesInTime == Spec => []NeverOversleeps
<1>1. Init => AskedHeeded
  BY DEF Init, AskedHeeded
<1>2. TypeOK /\ MarksInv /\ AskedHeeded => NeverOversleeps
  <2> SUFFICES ASSUME TypeOK, MarksInv, AskedHeeded, pc = "wait"
               PROVE  /\ \A sl \in Sleeves : ~InBackoff(sl) =>
                           \A d \in Undone(sl) : d > at => best.when <= d
                      /\ ~InBackoff(Brief) /\ ~sent /\ BriefAt > at => best.when <= BriefAt
    BY DEF NeverOversleeps
  <2>1. \A r \in All : Heeded(r)
    BY RunnerFacts DEF MarksInv, AskedSome, AskedHeeded
  <2>2. Brief \in All /\ \A sl \in Sleeves : sl \in All /\ sl # Brief
    BY RunnerFacts
  <2>3. ASSUME NEW sl \in Sleeves, ~InBackoff(sl) PROVE \A d \in Undone(sl) : d > at => best.when <= d
    BY <2>1, <2>2, <2>3 DEF Heeded
  <2>4. ~InBackoff(Brief) /\ ~sent /\ BriefAt > at => best.when <= BriefAt
    BY <2>1, <2>2 DEF Heeded
  <2> QED BY <2>3, <2>4
<1>3. TypeOK /\ MarksInv /\ AskedHeeded /\ [Next]_vars => AskedHeeded'
  BY HeedStep
<1> QED BY <1>1, <1>2, <1>3, MarksInit, MarksStep, PTL DEF Spec
-----------------------------------------------------------------------------
(* TimelyInv: where S0 keeps up.                                           *)

(* The next mark is one too, and its minute is over before the flatten.    *)
LEMMA NextMinuteIs ==
  ASSUME NEW m \in Nat, m = MarkOf(m)
  PROVE  /\ m + Minute = MarkOf(m + Minute)
         /\ m < FlattenAt => m - Offset + Minute <= FlattenAt
<1>1. PICK p \in Nat : m = p * Minute + Offset
  BY MinuteOf
<1> DEFINE pm == p * Minute
<1>2. pm \in Nat /\ (p + 1) * Minute = pm + Minute /\ m = pm + Offset
  BY <1>1, Multiples
<1>3. m + Minute = MarkOf(m + Minute)
  <2>1. m + Minute = (p + 1) * Minute + Offset
    <3> HIDE DEF pm
    <3> QED BY <1>2, Constants
  <2>2. p + 1 \in Nat
    OBVIOUS
  <2> QED BY <2>1, <2>2, MarkOfMultiple
<1>4. PICK f \in Nat : FlattenAt = f * Minute
  <2>1. PICK f \in Nat : FlattenAt = f * Minute + (FlattenAt % Minute)
    BY Remainder, Constants
  <2>2. FlattenAt % Minute = 0
    BY SessionAssumption
  <2>3. f * Minute \in Nat
    BY Multiples
  <2> QED BY <2>1, <2>2, <2>3
<1> DEFINE fm == f * Minute
<1>5. fm \in Nat /\ (p < f => pm + Minute <= fm) /\ (f < p => fm + Minute <= pm) /\ (p = f => pm = fm)
  BY Multiples
<1>6. FlattenAt = fm
  BY <1>4
<1> HIDE DEF fm, pm
<1>7. ASSUME m < FlattenAt PROVE m - Offset + Minute <= FlattenAt
  <2>1. ~(f < p) /\ ~(p = f)
    BY <1>2, <1>5, <1>6, <1>7, Constants
  <2>2. p < f
    BY <2>1
  <2> QED BY <1>2, <1>5, <1>6, <2>2, Constants
<1> QED BY <1>3, <1>7
(* No runner answers a time that is past, and before the flatten none has  *)
(* anything to do in its plan.                                             *)
Later(a, t) == a.when >= t /\ (t < FlattenAt => a.does = "nothing")

LEMMA S0PlansAhead ==
  ASSUME NEW t \in Nat
  PROVE  Later(S0Plan(t), t) /\ (S0Plan(t).act = "cycle" => t \in OpenAt..(FlattenAt - 1))
<1>1. MarkOf(t) \in Nat /\ NextMark(t) \in Nat /\ NextMark(t) > t
  BY MarkType
<1> DEFINE a == S0Plan(t)
<1>2. \/ t >= SweepAt /\ a.when = t + Recheck /\ a.act = "none"
      \/ t < PreopenAt /\ a.when = PreopenAt /\ a.does = "nothing" /\ a.act = "none"
      \/ t < OpenAt /\ a.when = OpenAt /\ a.does = "nothing" /\ a.act = "none"
      \/ OpenAt <= t /\ t < FlattenAt /\ a.when = t /\ a.does = "nothing"
      \/ t < FlattenAt /\ a.when = FlattenAt /\ a.does = "nothing" /\ a.act = "none"
      \/ OpenAt <= t /\ t < FlattenAt /\ a.when = NextMark(t) /\ a.does = "nothing"
      \/ FlattenAt <= t /\ a.when = t /\ a.act = "none"
      \/ FlattenAt <= t /\ t < SweepAt /\ a.when = SweepAt /\ a.act = "none"
  BY <1>1, S0Answers, AnswerIs, CycleIs, DoesIs, Constants
<1> HIDE DEF a
<1> QED BY <1>1, <1>2, Constants DEF a, Later

LEMMA NextWorkAhead ==
  ASSUME NEW sl \in Bars, NEW t \in Nat
  PROVE  Later(NextWork(sl, t), t)
<1> DEFINE nxt == {m \in Marks[sl] : m > t}
           a == NextWork(sl, t)
<1>1. CASE nxt # {}
  <2>1. a = Cycle(Min(nxt), Min(nxt))
    BY <1>1 DEF NextWork
  <2>2. nxt \in SUBSET Nat /\ \A x \in nxt : x > t
    BY MarksFacts, Constants
  <2>3. Min(nxt) \in nxt
    <3> HIDE DEF nxt, a
    <3> QED BY <1>1, <2>2, LeastOf
  <2>4. PICK m \in Nat : m = Min(nxt) /\ m > t
    <3> HIDE DEF nxt, a
    <3> QED BY <2>2, <2>3
  <2>5. a = Cycle(m, m)
    BY <2>1, <2>4
  <2> QED BY <2>4, <2>5, CycleIs DEF Later
<1>2. CASE nxt = {} /\ sl \in Intraday /\ t < FlattenAt
  <2>1. a = Answer(FlattenAt)
    BY <1>2 DEF NextWork
  <2> QED BY <1>2, <2>1, AnswerIs, Constants DEF Later
<1>3. CASE nxt = {} /\ ~(sl \in Intraday /\ t < FlattenAt)
  <2>1. a = IF t < SweepAt THEN Answer(SweepAt)
            ELSE IF sl \in swept THEN Answer(t + Recheck) ELSE Does(t, "sweep")
    BY <1>3 DEF NextWork, AtLeisure
  <2>2. t + Recheck \in Nat /\ SweepAt \in Nat
    BY Constants
  <2>3. \/ t < SweepAt /\ a.when = SweepAt /\ a.does = "nothing"
        \/ t >= SweepAt /\ a.when = t + Recheck
        \/ t >= SweepAt /\ a.when = t
    BY <2>1, <2>2, AnswerIs, DoesIs, Constants
  <2> HIDE DEF a
  <2> QED BY <2>3, Constants DEF Later, a
<1> QED BY <1>1, <1>2, <1>3

LEMMA BarPlansAhead ==
  ASSUME NEW sl \in Bars, NEW t \in Nat
  PROVE  Later(BarPlan(sl, t), t)
<1> DEFINE a    == BarPlan(sl, t)
           due  == DueMarks(sl, t)
           m    == Max(due)
           rest == IF sl \in Intraday /\ FlattenDue(sl, t) THEN Does(t, "flatten") ELSE NextWork(sl, t)
<1>1. due # {} => m \in Nat
  BY DueIs
<1>2. Later(rest, t) /\ rest \in Answers
  <2>1. CASE sl \in Intraday /\ FlattenDue(sl, t)
    <3>1. rest = Does(t, "flatten") /\ t >= FlattenAt
      BY <2>1 DEF FlattenDue
    <3> HIDE DEF rest
    <3> QED BY <3>1, DoesIs, Constants DEF Later
  <2>2. CASE ~(sl \in Intraday /\ FlattenDue(sl, t))
    <3>1. rest = NextWork(sl, t)
      BY <2>2
    <3> HIDE DEF rest
    <3> QED BY <3>1, NextWorkAhead, NextWorkIs
  <2> QED BY <2>1, <2>2
<1>3. a = CASE t < PreopenAt -> Answer(PreopenAt)
            [] t >= PreopenAt /\ due # {} /\ t < Limit(sl, m) -> Cycle(t, m)
            [] OTHER -> IF due # {} THEN [rest EXCEPT !.missed = m] ELSE rest
  BY DEF BarPlan
<1> HIDE DEF a, due, m, rest
<1>4. CASE t < PreopenAt
  <2>1. a = Answer(PreopenAt)
    BY <1>3, <1>4, Constants
  <2> QED BY <1>4, <2>1, AnswerIs, Constants DEF Later, a
<1>5. CASE t >= PreopenAt /\ due # {} /\ t < Limit(sl, m)
  <2>1. a = Cycle(t, m)
    BY <1>3, <1>5, Constants
  <2> QED BY <1>1, <1>5, <2>1, CycleIs DEF Later, a
<1>6. CASE ~(t < PreopenAt) /\ ~(t >= PreopenAt /\ due # {} /\ t < Limit(sl, m))
  <2>1. a = IF due # {} THEN [rest EXCEPT !.missed = m] ELSE rest
    BY <1>3, <1>6
  <2>2. a.when = rest.when /\ a.does = rest.does
    BY <1>2, <2>1 DEF Answers
  <2> QED BY <1>2, <2>2 DEF Later, a
<1> QED BY <1>4, <1>5, <1>6

LEMMA BriefPlansAhead ==
  ASSUME NEW t \in Nat
  PROVE  Later(BriefPlan(t), t)
<1>1. CASE ~sent /\ t < BriefAt
  <2>1. BriefPlan(t) = Answer(BriefAt)
    BY <1>1, Constants DEF BriefPlan
  <2> QED BY <1>1, <2>1, AnswerIs, Constants DEF Later
<1>2. CASE ~(~sent /\ t < BriefAt) /\ ~sent /\ t \in BriefAt..(LateBrief - 1)
  <2>1. BriefPlan(t) = [when |-> t, act |-> "brief", mark |-> None, does |-> "nothing", missed |-> None]
    BY <1>2 DEF BriefPlan
  <2> QED BY <2>1 DEF Later
<1>3. CASE ~(~sent /\ t < BriefAt) /\ ~(~sent /\ t \in BriefAt..(LateBrief - 1))
  <2>1. BriefPlan(t) = Answer(t + Recheck)
    BY <1>3 DEF BriefPlan
  <2> QED BY <2>1, AnswerIs, Constants DEF Later
<1> QED BY <1>1, <1>2, <1>3

LEMMA PlansAhead ==
  ASSUME NEW r \in All, NEW t \in Nat
  PROVE  Later(Plan(r, t), t)
<1>1. CASE r = S0
  <2>1. Plan(r, t) = S0Plan(t)
    BY <1>1, RunnerFacts DEF Plan
  <2> QED BY <2>1, S0PlansAhead
<1>2. CASE r = Brief
  <2>1. Plan(r, t) = BriefPlan(t)
    BY <1>2, RunnerFacts DEF Plan
  <2> QED BY <2>1, BriefPlansAhead
<1>3. CASE r \in Bars
  <2>1. Plan(r, t) = BarPlan(r, t)
    BY <1>3, RunnerFacts DEF Plan
  <2> QED BY <1>3, <2>1, BarPlansAhead
<1> QED BY <1>1, <1>2, <1>3, RunnerFacts
(* Lengths of work.                                                        *)
LEMMA Work ==
  ASSUME NEW k \in Nat
  PROVE  k * Busy \in Nat /\ (k + 1) * Busy = k * Busy + Busy /\ Busy \in Nat /\ Busy >= 1
         /\ \A j \in Nat : j <= k => j * Busy <= k * Busy
<1>1. Busy \in Nat \ {0}
  BY BoundsAssumption
<1>2. k * Busy \in Nat /\ (k + 1) * Busy = k * Busy + Busy
  BY <1>1
<1>3. ASSUME NEW j \in Nat, j <= k PROVE j * Busy <= k * Busy
  <2>1. PICK d \in Nat : k = j + d
    <3>1. k - j \in Nat /\ k = j + (k - j)
      BY <1>3
    <3> QED BY <3>1
  <2>2. k * Busy = j * Busy + d * Busy
    BY <1>1, <2>1
  <2>3. d * Busy \in Nat /\ j * Busy \in Nat
    BY <1>1
  <2> QED BY <2>2, <2>3
<1> QED BY <1>1, <1>2, <1>3

(* While requests are served, there is room for one more piece of work.    *)
LEMMA Rooms ==
  ASSUME KeepsUp, TypeOK, Served >= 0
  PROVE  /\ Served \in Nat /\ Served * Busy \in Nat /\ (Served + 1) * Busy = Served * Busy + Busy
         /\ Served * Busy + Busy <= Late /\ Late <= Minute - Offset /\ Busy \in Nat /\ Busy >= 1
<1>1. requests \in 0..MaxRequests /\ MaxRequests \in Nat
  BY BoundsAssumption DEF TypeOK
<1>2. Served \in Nat /\ Served <= MaxRequests
  BY <1>1 DEF Served
<1> DEFINE k == Served + 1
           n == MaxRequests + 1
<1>3. k \in Nat /\ n \in Nat /\ k <= n
  BY <1>1, <1>2
<1>4. k * Busy <= n * Busy
  <2> HIDE DEF k, n
  <2> QED BY <1>3, Work
<1>5. n = 1 + MaxRequests
  BY <1>1
<1>6. n * Busy <= Late /\ Late <= Minute - Offset
  BY <1>5 DEF KeepsUp
<1>7. Served * Busy \in Nat /\ k * Busy = Served * Busy + Busy /\ Busy \in Nat /\ Busy >= 1
  BY <1>2, Work
<1>8. n * Busy \in Nat /\ Late \in Nat
  <2>1. n * Busy \in Nat
    <3> HIDE DEF n
    <3> QED BY <1>3, Work
  <2> QED BY <2>1, SessionAssumption
<1>9. k * Busy <= Late
  <2>1. k * Busy \in Nat
    <3> HIDE DEF k
    <3> QED BY <1>3, Work
  <2> HIDE DEF k, n
  <2> QED BY <1>4, <1>6, <1>8, <2>1
<1> QED BY <1>2, <1>6, <1>7, <1>9

(* Nothing raises, so no runner is ever left alone.                        *)
LEMMA NothingRaises ==
  ASSUME MaxRaises = 0, TypeOK, MarksInv, NoneBacksOff, Served >= 0, [Next]_vars
  PROVE  /\ NoneBacksOff' /\ Served' \in Nat
         /\ Served' >= Served
         /\ Served' # Served => FindRequest \/ RequestFlatten
         /\ FindRequest => Served' = Served + 1
         /\ \/ UNCHANGED vars
            \/ FindRequest \/ ServeRequest \/ Tick \/ Ask \/ Wait \/ WaitOver \/ BeginCycle \/ EndCycle
            \/ SendBrief \/ RequestFlatten \/ Crash \/ Down \/ Startup \/ NewDay
<1> USE DEF clockVars, tickVars, memoryVars, storeVars, countVars
<1>1. ~Raises
  BY DEF TypeOK, Raises
<1>2. ~PlanRaises /\ ~ActionRaises
  BY <1>1 DEF PlanRaises, ActionRaises
<1>3. ~BackedOff
  <2> SUFFICES ASSUME BackedOff PROVE FALSE
    OBVIOUS
  <2>1. PICK r \in All : r = Runners[asked + 1] /\ at \in Nat
    BY Asks DEF BackedOff, MarksInv
  <2>2. at < backoff[r]
    BY <2>1 DEF BackedOff, InBackoff
  <2> QED BY <2>1, <2>2 DEF NoneBacksOff, None
<1>4. \/ UNCHANGED vars
      \/ FindRequest \/ ServeRequest \/ Tick \/ Ask \/ Wait \/ WaitOver \/ BeginCycle \/ EndCycle
      \/ SendBrief \/ RequestFlatten \/ Crash \/ Down \/ Startup \/ NewDay
  BY <1>2, <1>3 DEF Next, Thread
<1>5. NoneBacksOff'
  <2>1. backoff' = backoff \/ backoff' = [r \in All |-> None]
    BY <1>4 DEF vars, FindRequest, ServeRequest, Tick, Ask, Wait, WaitOver, BeginCycle, EndCycle,
                SendBrief, RequestFlatten, Crash, Down, Startup, NewDay, NoMemory
  <2> QED BY <2>1 DEF NoneBacksOff
<1>6. requests \in Nat /\ request \in BOOLEAN
  BY BoundsAssumption DEF TypeOK
<1>7. \/ UNCHANGED <<request, requests>>
      \/ FindRequest /\ request /\ ~request' /\ requests' = requests
      \/ RequestFlatten /\ request' /\ requests' = requests + 1
  BY <1>4 DEF vars, FindRequest, ClearRequest, ServeRequest, Tick, Ask, Wait, WaitOver, BeginCycle, EndCycle,
              SendBrief, RequestFlatten, Crash, Down, Startup, NewDay
<1>8. FindRequest => request /\ ~request' /\ requests' = requests
  BY DEF FindRequest, ClearRequest
<1>9. Served' \in Nat /\ Served' >= Served /\ (Served' # Served => FindRequest \/ RequestFlatten)
      /\ (FindRequest => Served' = Served + 1)
  BY <1>6, <1>7, <1>8 DEF Served
<1> QED BY <1>4, <1>5, <1>9

(* Opened                                                                  *)

LEMMA OpenedAsk ==
  ASSUME TypeOK, MarksInv, Opened, Ask
  PROVE  Opened' /\ lastMark'[S0] = lastMark[S0] /\ preopened \subseteq preopened'
<1>0. pc = "plan"
  BY DEF Ask
<1>1. PICK n \in Nat : n = asked + 1
  BY <1>0, Asks DEF MarksInv
<1>2. PICK r \in All : r = Runners[n] /\ at \in Nat /\ n \in 1..Len(Runners) /\ asked \in Nat
  BY <1>0, <1>1, Asks DEF MarksInv
<1> DEFINE a == Plan(r, at)
<1>3. /\ Asked(r, a) /\ at' = at
      /\ preopened' = IF PreopenDue(r, at) THEN preopened \cup {r} ELSE preopened
      /\ lastMark' = IF a.missed # None THEN [lastMark EXCEPT ![r] = a.missed] ELSE lastMark
  BY <1>1, <1>2 DEF Ask
<1>4. a.missed # None => r \in Bars
  BY <1>2, PlanIs
<1>5. r = S0 => (a.act = "cycle" => at \in OpenAt..(FlattenAt - 1))
  <2>1. r = S0 => a = S0Plan(at)
    BY RunnerFacts DEF Plan
  <2> QED BY <1>2, <2>1, S0PlansAhead
<1> HIDE DEF a
<1>6. lastMark'[S0] = lastMark[S0] /\ preopened \subseteq preopened'
  BY <1>3, <1>4, RunnerFacts DEF TypeOK
<1>7. pc' \in {"plan", "wait"} /\ asked' = n /\ (pc' = "wait" => n = Len(Runners))
      /\ (best' = best \/ (best'.who = r /\ best'.act = a.act))
  BY <1>1, <1>3 DEF Asked, Better
<1>8. best'.who = S0 /\ best'.act = "cycle" => at \in OpenAt..(FlattenAt - 1)
  BY <1>0, <1>5, <1>7 DEF Opened
<1>9. ASSUME at \in PreopenAt..(FlattenAt - 1), NEW i \in 1..n PROVE Runners[i] \in preopened' \cup {Brief}
  <2>1. CASE i = n
    <3>1. r \in Sleeves \ preopened => PreopenDue(r, at)
      BY <1>2, <1>9, Constants DEF PreopenDue
    <3> QED BY <1>2, <1>3, <2>1, <3>1, RunnerFacts DEF Sleeves
  <2>2. CASE i # n
    <3>1. i \in 1..asked
      BY <1>1, <1>2, <2>2
    <3> QED BY <1>0, <1>6, <1>9, <3>1 DEF Opened
  <2> QED BY <2>1, <2>2
<1>10. at \in PreopenAt..(FlattenAt - 1) /\ pc' = "wait" => Sleeves \subseteq preopened'
  <2> SUFFICES ASSUME at \in PreopenAt..(FlattenAt - 1), pc' = "wait", NEW sl \in Sleeves PROVE sl \in preopened'
    OBVIOUS
  <2>1. PICK i \in 1..Len(Runners) : sl = Runners[i]
    BY RunnerFacts
  <2>2. sl # Brief
    BY RunnerFacts
  <2> QED BY <1>7, <1>9, <2>1, <2>2
<1>11. lastMark'[S0] # None => Sleeves \subseteq preopened'
  BY <1>6 DEF Opened
<1> QED BY <1>3, <1>6, <1>7, <1>8, <1>9, <1>10, <1>11 DEF Opened

LEMMA OpenedStep ==
  ASSUME MaxRaises = 0, TypeOK, MarksInv, NoneBacksOff, Served >= 0, Opened, [Next]_vars
  PROVE  Opened'
<1> USE DEF clockVars, tickVars, memoryVars, storeVars, countVars
<1>1. ASSUME UNCHANGED <<best, at, asked, preopened, lastMark>>,
             pc' = pc \/ pc' \notin {"plan", "wait", "act"} \/ (pc = "wait" /\ pc' = "act")
      PROVE  Opened'
  BY <1>1 DEF Opened
<1>2. ASSUME pc' \notin {"plan", "wait", "act"}, lastMark'[S0] = None PROVE Opened'
  BY <1>2 DEF Opened
<1>3. CASE UNCHANGED vars \/ FindRequest \/ ServeRequest \/ Wait \/ WaitOver \/ EndCycle \/ SendBrief \/ RequestFlatten \/ Down
  <2>1. UNCHANGED <<best, at, asked, preopened, lastMark>>
    BY <1>3 DEF vars, FindRequest, ServeRequest, Wait, WaitOver, EndCycle, SendBrief, RequestFlatten, Down
  <2>2. pc' = pc \/ pc' \notin {"plan", "wait", "act"} \/ (pc = "wait" /\ pc' = "act")
    BY <1>3 DEF vars, FindRequest, ServeRequest, Wait, WaitOver, EndCycle, SendBrief, RequestFlatten, Down
  <2> QED BY <1>1, <2>1, <2>2
<1>4. CASE Tick
  <2>1. pc' = "plan" /\ best' = NoAnswer /\ asked' = 0 /\ UNCHANGED <<preopened, lastMark>>
    BY <1>4 DEF Tick
  <2>2. best'.act # "cycle"
    BY <2>1, NoAnswerType
  <2> QED BY <2>1, <2>2 DEF Opened
<1>5. CASE BeginCycle
  <2>1. pc = "act" /\ pc' = "cycle" /\ best.act = "cycle" /\ UNCHANGED <<preopened, at, best>>
        /\ lastMark' = [lastMark EXCEPT ![best.who] = MarkRun]
    BY <1>5 DEF BeginCycle, Remembers
  <2>2. lastMark'[S0] # None => Sleeves \subseteq preopened
    <3>1. CASE best.who = S0
      <4>1. at \in OpenAt..(FlattenAt - 1)
        BY <2>1, <3>1 DEF Opened
      <4>2. at \in PreopenAt..(FlattenAt - 1)
        BY <4>1, Constants
      <4> QED BY <2>1, <4>2 DEF Opened
    <3>2. CASE best.who # S0
      BY <2>1, <3>2, RunnerFacts DEF Opened, TypeOK
    <3> QED BY <3>1, <3>2
  <2> QED BY <2>1, <2>2 DEF Opened
<1>6. CASE Crash \/ Startup \/ NewDay
  <2>1. pc' \notin {"plan", "wait", "act"} /\ lastMark'[S0] = None
    BY <1>6, RunnerFacts DEF Crash, Startup, NewDay
  <2> QED BY <1>2, <2>1
<1> QED BY <1>3, <1>4, <1>5, <1>6, OpenedAsk, NothingRaises
(* OnTime and MinutesRun                                                   *)

LEMMA S0Facts ==
  ASSUME TypeOK, MinutesRun, lastMark[S0] # None
  PROVE  /\ lastMark[S0] \in Nat /\ NextMinute \in Nat /\ NextMinute = lastMark[S0] + Minute
         /\ lastMark[S0] = MarkOf(lastMark[S0]) /\ NextMinute = MarkOf(NextMinute)
         /\ lastMark[S0] - Offset <= now /\ now \in Nat
         /\ InSession(NextMinute) => NextMinute \in Minutes /\ NextMinute - Offset + Minute <= FlattenAt
<1>1. lastMark[S0] \in Nat
  BY RunnerFacts DEF TypeOK
<1>2. lastMark[S0] = MarkOf(lastMark[S0]) /\ lastMark[S0] - Offset <= now
  BY DEF MinutesRun
<1>3. NextMinute \in Nat /\ NextMinute = lastMark[S0] + Minute
  BY <1>1, Constants DEF NextMinute
<1>4. NextMinute = MarkOf(NextMinute)
  BY <1>1, <1>2, <1>3, NextMinuteIs
<1>5. InSession(NextMinute) => NextMinute \in OpenAt..(FlattenAt - 1) /\ NextMinute - Offset + Minute <= FlattenAt
  BY <1>3, <1>4, NextMinuteIs, Constants DEF InSession
<1> QED BY <1>1, <1>2, <1>3, <1>4, <1>5, ChosenType DEF Minutes

(* Where the mark S0 waits for is not past its time, it still can be run,  *)
(* and the clock is in its minute or in the one before.                    *)
LEMMA OnTimeIs ==
  ASSUME KeepsUp, TypeOK, Served >= 0, MinutesRun, OnTime, Awaited
  PROVE  /\ now < NextMinute + Late /\ now < NextMinute - Offset + Minute /\ now < FlattenAt
         /\ MarkOf(now) \in {lastMark[S0], NextMinute}
         /\ now >= NextMinute => MarkOf(now) = NextMinute
<1>1. lastMark[S0] # None /\ InSession(NextMinute) /\ pc # "down"
  BY DEF Awaited
<1>2. LateBy(Served) \/ LateBy(Served + 1)
  BY DEF OnTime
<1>3. now < NextMinute + (Served * Busy + Busy)
  BY <1>1, <1>2, S0Facts, Rooms DEF LateBy
<1>4. now < NextMinute + Late /\ now < NextMinute - Offset + Minute /\ now < FlattenAt
  BY <1>1, <1>3, S0Facts, Rooms, Constants, SessionAssumption
<1>5. CASE now < NextMinute - Offset
  <2>1. MarkOf(now) = lastMark[S0]
    BY <1>1, <1>5, S0Facts, SameMinute, Constants
  <2> QED BY <1>1, <1>4, <1>5, <2>1, S0Facts, Constants
<1>6. CASE now >= NextMinute - Offset
  <2>1. MarkOf(now) = NextMinute
    BY <1>1, <1>4, <1>6, S0Facts, SameMinute, Constants
  <2> QED BY <1>4, <2>1
<1> QED BY <1>1, <1>4, <1>5, <1>6, S0Facts, Constants

(* S0 answers no later than its next mark, and at once when that is due.   *)
LEMMA S0AnswersInTime ==
  ASSUME KeepsUp, TypeOK, Served >= 0, MinutesRun, OnTime, Awaited, pc = "plan"
  PROVE  S0Plan(at).when \in Nat
         /\ IF at >= NextMinute THEN S0Plan(at).when = at ELSE S0Plan(at).when <= NextMinute
<1>1. lastMark[S0] # None /\ InSession(NextMinute) /\ at = now /\ at \in Nat
  BY ChosenType DEF Awaited, OnTime
<1>2. S0Plan(at).when \in Nat
  BY <1>1, S0PlanIs DEF Answers
<1>3. CASE at < NextMinute
  BY <1>1, <1>2, <1>3, S0Facts, S0PlanIs
<1>4. CASE at >= NextMinute
  <2>1. MarkOf(at) = NextMinute /\ at < NextMinute + Late /\ at < FlattenAt
    BY <1>1, <1>4, OnTimeIs
  <2>2. NextMinute \in Nat /\ NextMinute - lastMark[S0] = Minute /\ OpenAt <= NextMinute /\ NextMinute < FlattenAt
        /\ Late \in Nat
    BY <1>1, S0Facts, Constants, SessionAssumption DEF InSession
  <2>3. CatchUp(at)
    BY <1>1, <1>4, <2>1, <2>2 DEF CatchUp
  <2>4. S0Plan(at) = MinutePlan(at)
    <3>1. OpenAt <= at
      BY <1>1, <1>4, <2>2, Constants
    <3> QED BY <1>1, <2>1, <3>1, Constants DEF S0Plan, FlattenDue
  <2>5. MinutePlan(at) = Cycle(at, MarkOf(at))
    BY <2>3 DEF MinutePlan
  <2> QED BY <1>1, <1>4, <2>1, <2>2, <2>4, <2>5, CycleIs
<1> QED BY <1>1, <1>2, <1>3, <1>4, S0Facts

(* A step that leaves S0's marks and the process alone.                    *)
LEMMA MinutesSame ==
  ASSUME MinutesRun, lastMark'[S0] = lastMark[S0], begun'[S0] = begun[S0], startedAt' = startedAt,
         now \in Nat, now' \in Nat, now' >= now, pc = "down" => pc' = "down", TypeOK
  PROVE  MinutesRun'
<1>1. lastMark[S0] # None => lastMark[S0] \in Nat
  BY RunnerFacts DEF TypeOK
<1>2. \A m \in begun[S0] : m \in Nat
  BY RunnerFacts DEF TypeOK
<1> QED BY <1>1, <1>2, Constants DEF MinutesRun

LEMMA MinutesStep ==
  ASSUME KeepsUp, TypeOK, MarksInv, NoneBacksOff, Served >= 0, Opened, OnTime, MinutesRun, [Next]_vars
  PROVE  MinutesRun'
<1> USE DEF clockVars, tickVars, memoryVars, storeVars, countVars
<1>0. now \in Nat
  BY ChosenType
<1>1. CASE UNCHANGED vars \/ FindRequest \/ Tick \/ WaitOver \/ RequestFlatten
  BY <1>0, <1>1, MinutesSame DEF vars, FindRequest, Tick, WaitOver, RequestFlatten
<1>2. CASE ServeRequest \/ SendBrief \/ EndCycle
  BY <1>0, <1>2, MinutesSame, TakesType DEF ServeRequest, SendBrief, EndCycle
<1>3. CASE Wait \/ Down
  BY <1>0, <1>3, MinutesSame DEF Wait, Down
<1>4. CASE Ask
  <2>1. lastMark'[S0] = lastMark[S0]
    BY <1>4, OpenedAsk
  <2>2. begun' = begun /\ startedAt' = startedAt /\ pc # "down"
    BY <1>4 DEF Ask
  <2>3. now' \in Nat /\ now' >= now
    BY <1>4, AskType DEF MarksInv
  <2> QED BY <1>0, <2>1, <2>2, <2>3, MinutesSame
<1>5. CASE BeginCycle /\ best.who # S0
  <2>1. lastMark'[S0] = lastMark[S0] /\ begun'[S0] = begun[S0] /\ startedAt' = startedAt /\ now' = now /\ pc # "down"
    BY <1>5, RunnerFacts DEF BeginCycle, Remembers, TypeOK
  <2> QED BY <1>0, <2>1, MinutesSame
<1>6. CASE BeginCycle /\ best.who = S0
  <2>1. /\ pc = "act" /\ pc' = "cycle" /\ now' = now /\ startedAt' = startedAt
        /\ lastMark'[S0] = MarkOf(now) /\ begun'[S0] = begun[S0] \cup {MarkOf(now)}
    BY <1>6, RunnerFacts DEF BeginCycle, Remembers, MarkRun, TypeOK
  <2>2. MarkOf(now) \in Nat /\ MarkOf(now) - Offset <= now /\ MarkOf(MarkOf(now)) = MarkOf(now)
    <3>1. PICK q \in Nat : MarkOf(now) = q * Minute + Offset
      BY <1>0, MinuteOf
    <3> QED BY <1>0, <3>1, MarkWithin, MarkOfMultiple
  <2>3. ASSUME NEW m \in begun[S0], m - Offset > startedAt, InSession(m + Minute)
        PROVE  m = MarkOf(now) \/ m + Minute \in begun'[S0]
    <3>1. lastMark[S0] # None /\ (m = lastMark[S0] \/ m + Minute \in begun[S0])
      BY <2>1, <2>3 DEF MinutesRun
    <3>2. CASE m = lastMark[S0]
      <4>1. NextMinute = m + Minute
        BY <3>2 DEF NextMinute
      <4>2. Awaited
        BY <2>1, <2>3, <3>1, <4>1 DEF Awaited
      <4>3. MarkOf(now) \in {m, m + Minute}
        BY <3>2, <4>1, <4>2, OnTimeIs
      <4> QED BY <2>1, <4>3
    <3>3. CASE m + Minute \in begun[S0]
      BY <2>1, <3>3
    <3> QED BY <3>1, <3>2, <3>3
  <2>4. \A m \in begun'[S0] :
          /\ m - Offset <= now
          /\ m - Offset > startedAt /\ InSession(m + Minute) => m = MarkOf(now) \/ m + Minute \in begun'[S0]
    BY <2>1, <2>2, <2>3 DEF MinutesRun
  <2>5. MarkOf(now) # None
    BY <2>2 DEF None
  <2> QED BY <2>1, <2>2, <2>4, <2>5 DEF MinutesRun
<1>7. CASE Crash
  <2>1. pc' = "down" /\ lastMark'[S0] = None /\ begun' = begun /\ now' = now
    BY <1>7, RunnerFacts DEF Crash
  <2> QED BY <2>1 DEF MinutesRun
<1>8. CASE Startup
  <2>1. lastMark'[S0] = None /\ begun' = begun /\ startedAt' = now /\ now' \in Nat /\ now' >= now
    BY <1>8, RunnerFacts, TakesType DEF Startup
  <2>2. \A m \in begun[S0] : m \in Nat /\ m - Offset <= now
    BY RunnerFacts DEF TypeOK, MinutesRun
  <2>3. \A m \in begun[S0] : m - Offset <= now' /\ ~(m - Offset > now)
    BY <1>0, <2>1, <2>2, Constants
  <2> QED BY <2>1, <2>3 DEF MinutesRun
<1>9. CASE NewDay
  <2>1. lastMark'[S0] = None /\ begun'[S0] = {}
    BY <1>9, RunnerFacts DEF NewDay
  <2> QED BY <2>1 DEF MinutesRun
<1> QED BY <1>1, <1>2, <1>3, <1>4, <1>5, <1>6, <1>7, <1>8, <1>9, NothingRaises DEF KeepsUp
(* How late the loop may be, before and after a step.                      *)
LEMMA Lateness ==
  ASSUME KeepsUp, TypeOK, MarksInv, NoneBacksOff, Served >= 0, [Next]_vars
  PROVE  /\ Served * Busy \in Nat /\ (Served + 1) * Busy = Served * Busy + Busy
         /\ (Served * Busy)' \in Nat /\ ((Served + 1) * Busy)' = (Served * Busy)' + Busy
         /\ Served * Busy <= (Served * Busy)'
         /\ FindRequest => (Served * Busy)' = Served * Busy + Busy
         /\ Busy \in Nat /\ Busy >= 1
<1>1. Served \in Nat /\ Served * Busy \in Nat /\ (Served + 1) * Busy = Served * Busy + Busy /\ Busy \in Nat /\ Busy >= 1
  BY Rooms
<1>2. Served' \in Nat /\ Served' >= Served /\ (FindRequest => Served' = Served + 1)
  BY NothingRaises DEF KeepsUp
<1>3. PICK k \in Nat : k = Served'
  BY <1>2
<1>4. k * Busy \in Nat /\ (k + 1) * Busy = k * Busy + Busy /\ Served * Busy <= k * Busy
  BY <1>1, <1>2, <1>3, Work
<1>5. (Served * Busy)' = k * Busy /\ ((Served + 1) * Busy)' = (k + 1) * Busy
  BY <1>3
<1>6. FindRequest => k * Busy = Served * Busy + Busy
  BY <1>1, <1>2, <1>3
<1> QED BY <1>1, <1>4, <1>5, <1>6

(* Once S0's next mark is due it is S0 that is waited for; so what another *)
(* runner begins is begun before that mark.                                *)
LEMMA OthersBefore ==
  ASSUME TypeOK, MinutesRun, OnTime, Awaited, pc \in {"wait", "act"}
  PROVE  /\ now < best.when => at < NextMinute /\ now + 1 <= NextMinute
         /\ best.who # S0 => now < NextMinute
<1>1. /\ at <= now /\ (now = at \/ now <= best.when)
      /\ IF at >= NextMinute THEN best.who = S0 /\ best.when = at
         ELSE best.when <= NextMinute /\ (best.who = S0 \/ best.when < NextMinute)
  BY DEF OnTime, S0Leads
<1>2. NextMinute \in Nat /\ now \in Nat /\ at \in Nat /\ best.when \in Nat
  BY S0Facts, ChosenType DEF Awaited, TypeOK
<1> QED BY <1>1, <1>2

(* The answers of a tick in which S0 has a next mark: none takes any time, *)
(* and S0's, the first, is not outdone.                                    *)
LEMMA OnTimeAsk ==
  ASSUME KeepsUp, TypeOK, MarksInv, Served >= 0, Opened, OnTime, MinutesRun, Awaited, Ask
  PROVE  now' = now /\ at' = at /\ asked' > 0 /\ lastMark'[S0] = lastMark[S0] /\ S0Leads'
<1>0. pc = "plan"
  BY DEF Ask
<1>1. PICK n \in Nat : n = asked + 1
  BY <1>0, Asks DEF MarksInv
<1>2. PICK r \in All : r = Runners[n] /\ at \in Nat /\ n \in 1..Len(Runners) /\ asked \in Nat
  BY <1>0, <1>1, Asks DEF MarksInv
<1>3. now = at /\ (asked > 0 => S0Leads) /\ lastMark[S0] # None
  BY <1>0 DEF OnTime, Awaited
<1>4. at < FlattenAt
  BY <1>3, OnTimeIs
<1> DEFINE a == Plan(r, at)
<1>5. a.when \in Nat /\ a.when >= at /\ a.does = "nothing"
  BY <1>2, <1>4, PlansAhead, PlanIs DEF Later, Answers
<1>6. /\ Asked(r, a) /\ at' = at
      /\ IF PreopenDue(r, at) \/ a.does # "nothing" THEN Takes ELSE UNCHANGED now
  BY <1>1, <1>2 DEF Ask
<1>7. ~PreopenDue(r, at)
  BY <1>3 DEF Opened, PreopenDue
<1>8. asked = 0 => r = S0
  BY <1>1, <1>2 DEF S0
<1>9. r = S0 => IF at >= NextMinute THEN a.when = at ELSE a.when <= NextMinute
  <2>1. r = S0 => a = S0Plan(at)
    BY RunnerFacts DEF Plan
  <2> QED BY <1>0, <2>1, S0AnswersInTime
<1> HIDE DEF a
<1>10. now' = now /\ asked' = asked + 1 /\ best' = Better(r, a)
  BY <1>5, <1>6, <1>7 DEF Asked
<1>11. lastMark'[S0] = lastMark[S0] /\ NextMinute' = NextMinute
  BY OpenedAsk DEF NextMinute
<1>12. NextMinute \in Nat /\ best.when \in Nat
  BY <1>3, S0Facts DEF TypeOK
<1>13. CASE asked = 0
  <2>1. best'.when = a.when /\ best'.who = S0
    BY <1>8, <1>10, <1>13 DEF Better
  <2> QED BY <1>2, <1>6, <1>8, <1>9, <1>10, <1>11, <1>13, <2>1 DEF S0Leads
<1>14. CASE asked > 0 /\ ~(a.when < best.when)
  <2>1. best' = best
    BY <1>10, <1>14 DEF Better
  <2> QED BY <1>2, <1>3, <1>6, <1>10, <1>11, <1>14, <2>1 DEF S0Leads
<1>15. CASE asked > 0 /\ a.when < best.when
  <2>1. best'.when = a.when
    BY <1>10, <1>15 DEF Better
  <2>2. at < NextMinute /\ best.when <= NextMinute
    BY <1>2, <1>3, <1>5, <1>12, <1>15 DEF S0Leads
  <2>3. a.when < NextMinute
    BY <1>5, <1>12, <1>15, <2>2
  <2> QED BY <1>2, <1>5, <1>6, <1>10, <1>11, <1>12, <1>15, <2>1, <2>2, <2>3 DEF S0Leads
<1> QED BY <1>2, <1>13, <1>14, <1>15

LEMMA OnTimeStep ==
  ASSUME KeepsUp, TypeOK, MarksInv, NoneBacksOff, Served >= 0, Opened, OnTime, MinutesRun, [Next]_vars
  PROVE  OnTime'
<1> USE DEF clockVars, tickVars, memoryVars, storeVars, countVars
<1> SUFFICES ASSUME Awaited'
             PROVE  /\ pc' \in {"serve", "cycle"} => LateBy(Served)'
                    /\ pc' \notin {"serve", "cycle"} => LateBy(Served + 1)'
                    /\ pc' = "plan" => now' = at' /\ (asked' > 0 => S0Leads')
                    /\ pc' \in {"wait", "act"} => at' <= now' /\ (now' = at' \/ now' <= best'.when) /\ S0Leads'
  BY DEF OnTime
<1> DEFINE work  == Served * Busy
           after == (Served * Busy)'
<1>1. /\ work \in Nat /\ after \in Nat /\ work <= after /\ (FindRequest => after = work + Busy)
      /\ Busy \in Nat /\ Busy >= 1
  BY Lateness
<1>2. LateBy(Served)' <=> now' < NextMinute' + after
  BY DEF LateBy
<1>3. LateBy(Served + 1)' <=> now' < NextMinute' + (after + Busy)
  BY Lateness DEF LateBy
<1>4. LateBy(Served) <=> now < NextMinute + work
  BY DEF LateBy
<1>5. LateBy(Served + 1) <=> now < NextMinute + (work + Busy)
  BY Lateness DEF LateBy
<1> HIDE DEF work, after
<1>6. ASSUME lastMark' = lastMark, pc # "down"
      PROVE  Awaited /\ NextMinute' = NextMinute /\ NextMinute \in Nat
  <2>1. Awaited /\ NextMinute' = NextMinute
    BY <1>6 DEF Awaited, NextMinute, InSession
  <2> QED BY <2>1, S0Facts DEF Awaited
<1>7. now \in Nat /\ at \in Nat /\ best.when \in Nat
  BY ChosenType DEF TypeOK
<1>8. /\ Awaited /\ pc \in {"serve", "cycle"} => LateBy(Served)
      /\ Awaited /\ pc \notin {"serve", "cycle"} => LateBy(Served + 1)
      /\ Awaited /\ pc = "plan" => now = at /\ (asked > 0 => S0Leads)
      /\ Awaited /\ pc \in {"wait", "act"} => at <= now /\ (now = at \/ now <= best.when) /\ S0Leads
  BY DEF OnTime
<1>9. ASSUME UNCHANGED <<now, at, asked, best, pc, lastMark>>, pc # "down"
      PROVE  /\ pc' \in {"serve", "cycle"} => LateBy(Served)'
             /\ pc' \notin {"serve", "cycle"} => LateBy(Served + 1)'
             /\ pc' = "plan" => now' = at' /\ (asked' > 0 => S0Leads')
             /\ pc' \in {"wait", "act"} => at' <= now' /\ (now' = at' \/ now' <= best'.when) /\ S0Leads'
  <2>1. Awaited /\ NextMinute' = NextMinute /\ NextMinute \in Nat
    BY <1>6, <1>9
  <2>2. S0Leads' <=> S0Leads
    BY <1>9, <2>1 DEF S0Leads
  <2>3. (LateBy(Served) => LateBy(Served)') /\ (LateBy(Served + 1) => LateBy(Served + 1)')
    BY <1>1, <1>2, <1>3, <1>4, <1>5, <1>7, <1>9, <2>1
  <2> QED BY <1>8, <1>9, <2>1, <2>2, <2>3
<1>10. CASE UNCHANGED vars \/ RequestFlatten
  <2>1. UNCHANGED <<now, at, asked, best, pc, lastMark>>
    BY <1>10 DEF vars, RequestFlatten
  <2>2. pc # "down"
    BY <2>1 DEF Awaited
  <2> QED BY <1>9, <2>1, <2>2
<1>11. CASE FindRequest
  <2>1. pc \in {"tick", "wait"} /\ pc' = "serve" /\ now' = now /\ lastMark' = lastMark
    BY <1>11 DEF FindRequest
  <2>2. Awaited /\ NextMinute' = NextMinute /\ NextMinute \in Nat
    BY <1>6, <2>1
  <2>3. LateBy(Served + 1)
    BY <1>8, <2>1, <2>2
  <2>4. LateBy(Served)'
    BY <1>1, <1>2, <1>5, <1>7, <1>11, <2>1, <2>2, <2>3
  <2> QED BY <2>1, <2>4
<1>12. CASE ServeRequest \/ EndCycle
  <2>1. pc \in {"serve", "cycle"} /\ pc' = "tick" /\ now' \in Nat /\ now' <= now + Busy /\ lastMark' = lastMark
    BY <1>12, TakesType DEF ServeRequest, EndCycle, Takes
  <2>2. Awaited /\ NextMinute' = NextMinute /\ NextMinute \in Nat
    BY <1>6, <2>1
  <2>3. LateBy(Served)
    BY <1>8, <2>1, <2>2
  <2>4. LateBy(Served + 1)'
    BY <1>1, <1>3, <1>4, <1>7, <2>1, <2>2, <2>3
  <2> QED BY <2>1, <2>4
<1>13. CASE Tick
  <2>1. pc = "tick" /\ pc' = "plan" /\ now' = now /\ at' = now /\ asked' = 0 /\ lastMark' = lastMark
    BY <1>13 DEF Tick
  <2>2. Awaited /\ NextMinute' = NextMinute /\ NextMinute \in Nat
    BY <1>6, <2>1
  <2>3. LateBy(Served + 1)
    BY <1>8, <2>1, <2>2
  <2>4. LateBy(Served + 1)'
    BY <1>1, <1>3, <1>5, <1>7, <2>1, <2>2, <2>3
  <2> QED BY <2>1, <2>4
<1>14. CASE Ask
  <2>1. pc = "plan" /\ pc' \in {"plan", "wait"}
    BY <1>14 DEF Ask, Asked
  <2>2. lastMark'[S0] = lastMark[S0]
    BY <1>14, OpenedAsk
  <2>3. Awaited /\ NextMinute' = NextMinute /\ NextMinute \in Nat
    <3>1. Awaited /\ NextMinute' = NextMinute
      BY <2>1, <2>2 DEF Awaited, NextMinute, InSession
    <3> QED BY <3>1, S0Facts DEF Awaited
  <2>4. now' = now /\ at' = at /\ asked' > 0 /\ S0Leads'
    BY <1>14, <2>3, OnTimeAsk
  <2>5. LateBy(Served + 1) /\ now = at
    BY <1>8, <2>1, <2>3
  <2>6. LateBy(Served + 1)'
    BY <1>1, <1>3, <1>5, <1>7, <2>3, <2>4, <2>5
  <2> QED BY <1>7, <2>1, <2>4, <2>5, <2>6
<1>15. CASE Wait
  <2>1. pc = "wait" /\ pc' = "wait" /\ now < best.when /\ now' = now + 1 /\ UNCHANGED <<at, best, lastMark>>
    BY <1>15 DEF Wait
  <2>2. Awaited /\ NextMinute' = NextMinute /\ NextMinute \in Nat
    BY <1>6, <2>1
  <2>3. at <= now /\ S0Leads
    BY <1>8, <2>1, <2>2
  <2>4. now' <= NextMinute
    BY <2>1, <2>2, OthersBefore
  <2>5. S0Leads'
    BY <2>1, <2>2, <2>3 DEF S0Leads
  <2>6. LateBy(Served + 1)'
    BY <1>1, <1>3, <1>7, <2>1, <2>2, <2>4
  <2>7. at' <= now' /\ now' <= best'.when
    BY <1>7, <2>1, <2>3
  <2> QED BY <2>1, <2>5, <2>6, <2>7
<1>16. CASE WaitOver
  <2>1. pc = "wait" /\ pc' \in {"tick", "act"} /\ UNCHANGED <<now, at, best, lastMark>>
    BY <1>16 DEF WaitOver
  <2>2. Awaited /\ NextMinute' = NextMinute /\ NextMinute \in Nat
    BY <1>6, <2>1
  <2>3. at <= now /\ (now = at \/ now <= best.when) /\ S0Leads /\ LateBy(Served + 1)
    BY <1>8, <2>1, <2>2
  <2>4. S0Leads'
    BY <2>1, <2>2, <2>3 DEF S0Leads
  <2>5. LateBy(Served + 1)'
    BY <1>1, <1>3, <1>5, <1>7, <2>1, <2>2, <2>3
  <2> QED BY <2>1, <2>3, <2>4, <2>5
<1>17. CASE BeginCycle /\ best.who # S0
  <2>1. pc = "act" /\ pc' = "cycle" /\ now' = now /\ lastMark'[S0] = lastMark[S0]
    BY <1>17, RunnerFacts DEF BeginCycle, Remembers, TypeOK
  <2>2. Awaited /\ NextMinute' = NextMinute
    BY <2>1 DEF Awaited, NextMinute, InSession
  <2>3. now < NextMinute /\ NextMinute \in Nat
    BY <1>17, <2>1, <2>2, OthersBefore, S0Facts DEF Awaited
  <2>4. LateBy(Served)'
    BY <1>1, <1>2, <1>7, <2>1, <2>2, <2>3
  <2> QED BY <2>1, <2>4
<1>18. CASE BeginCycle /\ best.who = S0
  <2>1. pc' = "cycle" /\ now' = now /\ lastMark'[S0] = MarkOf(now)
    BY <1>18, RunnerFacts DEF BeginCycle, Remembers, MarkRun, TypeOK
  <2>2. MarkOf(now) \in Nat /\ now < MarkOf(now) - Offset + Minute
    BY <1>7, MarkWithin
  <2>3. NextMinute' = MarkOf(now) + Minute
    BY <2>1 DEF NextMinute
  <2>4. LateBy(Served)'
    BY <1>1, <1>2, <1>7, <2>1, <2>2, <2>3, Constants
  <2> QED BY <2>1, <2>4
<1>19. CASE SendBrief
  <2>1. pc = "act" /\ best.act = "brief" /\ pc' = "tick" /\ now' \in Nat /\ now' <= now + Busy /\ lastMark' = lastMark
    BY <1>19, TakesType DEF SendBrief, Takes
  <2>2. Awaited /\ NextMinute' = NextMinute /\ NextMinute \in Nat
    BY <1>6, <2>1
  <2>3. best.who # S0
    BY <2>1, RunnerFacts DEF MarksInv, ChosenSound
  <2>4. now < NextMinute
    BY <2>1, <2>2, <2>3, OthersBefore
  <2>5. LateBy(Served + 1)'
    BY <1>1, <1>3, <1>7, <2>1, <2>2, <2>4
  <2> QED BY <2>1, <2>5
<1>20. CASE Crash \/ Down \/ Startup \/ NewDay
  BY <1>20, RunnerFacts DEF Crash, Down, Startup, NewDay, Awaited
<1> QED BY <1>10, <1>11, <1>12, <1>13, <1>14, <1>15, <1>16, <1>17, <1>18, <1>19, <1>20, NothingRaises DEF KeepsUp
LEMMA TimelyInit ==
  ASSUME Init
  PROVE  TimelyInv
<1>1. Served = 0 /\ NoneBacksOff /\ pc = "down" /\ lastMark[S0] = None /\ begun[S0] = {}
  <2>1. Served = 0
    <3>1. requests = 0 /\ ~request
      BY DEF Init
    <3>2. Served = 0 - 0
      BY <3>1, Zenon DEF Served
    <3> QED BY <3>2
  <2>2. NoneBacksOff /\ pc = "down" /\ lastMark[S0] = None /\ begun[S0] = {}
    BY RunnerFacts DEF Init, NoneBacksOff
  <2> QED BY <2>1, <2>2
<1> QED BY <1>1 DEF TimelyInv, Opened, OnTime, Awaited, MinutesRun

LEMMA TimelyStep ==
  ASSUME KeepsUp, TypeOK, MarksInv, TimelyInv, [Next]_vars
  PROVE  TimelyInv'
<1>1. Served >= 0 /\ NoneBacksOff /\ Opened /\ OnTime /\ MinutesRun
  BY DEF TimelyInv
<1>2. Served' \in Nat /\ NoneBacksOff'
  BY <1>1, NothingRaises DEF KeepsUp
<1>3. Opened' /\ OnTime' /\ MinutesRun'
  BY <1>1, OpenedStep, OnTimeStep, MinutesStep DEF KeepsUp
<1> QED BY <1>2, <1>3 DEF TimelyInv

LEMMA TimelyRuns ==
  ASSUME KeepsUp, TypeOK, TimelyInv
  PROVE  NoMinuteLost
<1>1. Served >= 0 /\ OnTime /\ MinutesRun
  BY DEF TimelyInv
<1> SUFFICES ASSUME pc # "down", NEW m \in begun[S0], m - Offset > startedAt, InSession(m + Minute),
                    now >= m - Offset + 2 * Minute
             PROVE  m + Minute \in begun[S0]
  BY DEF NoMinuteLost
<1>2. lastMark[S0] # None /\ (m = lastMark[S0] \/ m + Minute \in begun[S0])
  BY <1>1 DEF MinutesRun
<1>3. ~(m = lastMark[S0])
  <2> SUFFICES ASSUME m = lastMark[S0] PROVE FALSE
    OBVIOUS
  <2>1. NextMinute = m + Minute
    BY DEF NextMinute
  <2>2. Awaited
    BY <1>2, <2>1 DEF Awaited
  <2>3. now < NextMinute - Offset + Minute
    BY <1>1, <2>2, OnTimeIs
  <2>4. m \in Nat /\ now \in Nat
    BY <1>1, <1>2, S0Facts
  <2> QED BY <2>1, <2>3, <2>4, Constants
<1> QED BY <1>2, <1>3

(* Where one piece of work and every flatten request served one after the  *)
(* other fit into LATE_CYCLE_S, S0 loses no minute, whatever the marks,    *)
(* plans and actions of the other runners and however often the process    *)
(* is killed and started again.                                            *)
THEOREM LosesNoMinute ==
  ASSUME KeepsUp
  PROVE  Spec => []NoMinuteLost
<1>1. Init => TypeOK /\ MarksInv /\ TimelyInv
  BY MarksInit, TimelyInit
<1>2. TypeOK /\ MarksInv /\ TimelyInv /\ [Next]_vars => TimelyInv'
  BY TimelyStep
<1>3. TypeOK /\ TimelyInv => NoMinuteLost
  BY TimelyRuns
<1> QED BY <1>1, <1>2, <1>3, MarksStep, PTL DEF Spec

-----------------------------------------------------------------------------
(* MorningInv: S0's first cycle.                                           *)

LEMMA MorningFacts ==
  ASSUME MorningFits
  PROVE  /\ FirstMark \in Nat /\ SecondMark \in Nat /\ SecondMark = FirstMark + Minute
         /\ FirstMark \in Minutes /\ SecondMark \in Minutes
         /\ OpenAt < FirstMark /\ FirstMark + Busy < SecondMark /\ SecondMark < OpenAt + 2 * Minute
         /\ OpenAt + 2 * Minute <= FlattenAt /\ 2 * Minute \in Nat
         /\ Morning \in Nat /\ PreopenAt <= Morning /\ BriefAt <= Morning
         /\ Busy \in Nat /\ Busy >= 1
<1>1. Offset > 0 /\ Busy < Minute /\ OpenAt + 2 * Minute <= FlattenAt /\ Busy \in Nat /\ Busy >= 1
  BY BoundsAssumption DEF MorningFits
<1>2. FirstMark = OpenAt + Offset /\ SecondMark = FirstMark + Minute
  BY DEF FirstMark, SecondMark
<1>3. FirstMark \in Nat /\ SecondMark \in Nat
  BY <1>2, Constants
<1>4. MarkOf(FirstMark) = FirstMark
  <2>1. PICK q \in Nat : OpenAt = q * Minute + (OpenAt % Minute)
    BY Remainder, Constants
  <2>2. OpenAt % Minute = 0 /\ q * Minute \in Nat
    BY SessionAssumption, Multiples
  <2>3. FirstMark = q * Minute + Offset
    BY <1>2, <2>1, <2>2
  <2> QED BY <2>3, MarkOfMultiple
<1>5. MarkOf(SecondMark) = SecondMark
  BY <1>2, <1>3, <1>4, NextMinuteIs
<1>6. /\ OpenAt < FirstMark /\ FirstMark + Busy < SecondMark /\ SecondMark < OpenAt + 2 * Minute
      /\ 2 * Minute \in Nat
  BY <1>1, <1>2, <1>3, Constants
<1>7. FirstMark \in Minutes /\ SecondMark \in Minutes
  <2>1. FirstMark \in OpenAt..(FlattenAt - 1) /\ SecondMark \in OpenAt..(FlattenAt - 1)
    BY <1>1, <1>2, <1>3, <1>6, Constants
  <2> QED BY <1>4, <1>5, <2>1 DEF Minutes
<1>8. Morning \in Nat /\ PreopenAt <= Morning /\ BriefAt <= Morning
  BY Constants DEF Morning
<1> QED BY <1>1, <1>2, <1>3, <1>6, <1>7, <1>8

(* The morning's pieces of work are finitely many, and fit before the open. *)
LEMMA SleevesFinite == IsFiniteSet(Sleeves) /\ Cardinality(Sleeves) \in Nat
<1>1. ExistsSurjection(1..Len(Runners), All)
  <2>1. Runners \in [1..Len(Runners) -> All] /\ \A r \in All : \E i \in 1..Len(Runners) : Runners[i] = r
    BY RunnerFacts, RunnersAssumption
  <2> QED BY <2>1 DEF ExistsSurjection, Surjection
<1>2. IsFiniteSet(All)
  BY <1>1, RunnerFacts, FS_NatSurjection
<1> QED BY <1>2, RunnerFacts, FS_Subset, FS_CardinalityType

LEMMA JobCount ==
  ASSUME MorningFits, NEW P \in SUBSET Sleeves, NEW b \in {0, 1}, NEW k \in 0..MaxRequests
  PROVE  LET j == 1 + Cardinality(P) + b + k
         IN  /\ Cardinality(P) \in Nat /\ j \in Nat /\ j >= 1 /\ j * Busy \in Nat
             /\ (j - 1) * Busy = j * Busy - Busy
             /\ Morning + j * Busy <= OpenAt
<1> DEFINE c == Cardinality(P)
           j == 1 + c + b + k
           n == Cardinality(Sleeves) + 2 + MaxRequests
<1>1. c \in Nat /\ c <= Cardinality(Sleeves) /\ Cardinality(Sleeves) \in Nat
  BY SleevesFinite, FS_Subset, FS_CardinalityType
<1>2. MaxRequests \in Nat /\ Busy \in Nat
  BY BoundsAssumption
<1>3. j \in Nat /\ j >= 1 /\ n \in Nat /\ j <= n
  BY <1>1, <1>2
<1>4. PICK i \in Nat : j = i + 1
  BY <1>3
<1>5. Morning + n * Busy <= OpenAt /\ Morning \in Nat /\ OpenAt \in Nat
  BY MorningFacts, Constants DEF MorningFits
<1> HIDE DEF n, j
<1>6. n * Busy \in Nat /\ j * Busy \in Nat /\ j * Busy <= n * Busy
  BY <1>3, Work
<1>7. Morning + j * Busy <= OpenAt
  BY <1>5, <1>6
<1>8. (j - 1) * Busy = j * Busy - Busy
  <2>1. i * Busy \in Nat /\ (i + 1) * Busy = i * Busy + Busy
    BY Work
  <2>2. j - 1 = i
    BY <1>4
  <2> QED BY <1>2, <1>4, <2>1, <2>2
<1> QED BY <1>1, <1>3, <1>6, <1>7, <1>8 DEF j

(* What a step does to the work that is done.                              *)
LEMMA JobsStep ==
  ASSUME MorningFits, TypeOK, TypeOK', Served \in Nat, Served' \in Nat, Served' >= Served
  PROVE  /\ Jobs * Busy \in Nat /\ (Jobs * Busy)' \in Nat
         /\ (Jobs - 1) * Busy = Jobs * Busy - Busy /\ ((Jobs - 1) * Busy)' = (Jobs * Busy)' - Busy
         /\ Morning + Jobs * Busy <= OpenAt /\ Morning + (Jobs * Busy)' <= OpenAt
         /\ Busy <= Jobs * Busy /\ Busy <= (Jobs * Busy)'
         /\ preopened \subseteq preopened' /\ (sent => sent') =>
              /\ Jobs * Busy <= (Jobs * Busy)'
              /\ preopened # preopened' \/ sent # sent' \/ Served # Served' =>
                   Jobs * Busy + Busy <= (Jobs * Busy)'
<1> DEFINE c == Cardinality(preopened)
           b == IF sent THEN 1 ELSE 0
           k == Served
           j == 1 + c + b + k
<1>1. /\ preopened \in SUBSET Sleeves /\ preopened' \in SUBSET Sleeves /\ b \in {0, 1} /\ b' \in {0, 1}
      /\ sent \in BOOLEAN /\ sent' \in BOOLEAN
  BY DEF TypeOK
<1>2. k \in 0..MaxRequests /\ k' \in 0..MaxRequests
  <2>1. /\ requests \in 0..MaxRequests /\ requests' \in 0..MaxRequests /\ MaxRequests \in Nat
        /\ Served = requests - (IF request THEN 1 ELSE 0)
        /\ Served' = requests' - (IF request' THEN 1 ELSE 0)
    BY BoundsAssumption DEF TypeOK, Served
  <2>2. Served <= MaxRequests
    BY <2>1
  <2>3. PICK q \in 0..MaxRequests, x \in Nat :
          x = Served' /\ x = q - (IF request' THEN 1 ELSE 0)
    BY <2>1
  <2>4. x <= q
    BY <2>3
  <2>5. MaxRequests \in Nat /\ x <= MaxRequests
    <3>1. MaxRequests \in Nat
      BY <2>1
    <3>2. q \in Nat /\ q <= MaxRequests
      BY <3>1
    <3> QED BY <2>4, <3>1, <3>2
  <2>6. Served \in 0..MaxRequests
    BY <2>2, <2>5
  <2>7. Served' \in 0..MaxRequests
    BY <2>3, <2>5
  <2> QED BY <2>6, <2>7
<1>3. Jobs = j /\ Jobs' = j'
  BY DEF Jobs
<1>4. /\ c \in Nat /\ j \in Nat /\ j >= 1 /\ j * Busy \in Nat /\ (j - 1) * Busy = j * Busy - Busy
      /\ Morning + j * Busy <= OpenAt
  BY <1>1, <1>2, JobCount
<1>5. PICK P \in SUBSET Sleeves, e \in {0, 1}, i \in 0..MaxRequests :
        P = preopened' /\ e = b' /\ i = k'
  BY <1>1, <1>2
<1> DEFINE d == Cardinality(P)
           l == 1 + d + e + i
<1>6. /\ d \in Nat /\ l \in Nat /\ l >= 1 /\ l * Busy \in Nat /\ (l - 1) * Busy = l * Busy - Busy
      /\ Morning + l * Busy <= OpenAt
  BY <1>5, JobCount
<1>7. d = c' /\ l = j'
  BY <1>5
<1>8. ASSUME preopened \subseteq preopened'
      PROVE  c <= d /\ (preopened # preopened' => c + 1 <= d)
  <2>1. IsFiniteSet(P) /\ preopened \subseteq P
    BY <1>5, <1>8, SleevesFinite, FS_Subset
  <2>2. c <= d /\ (c = d => preopened = P)
    BY <2>1, FS_Subset
  <2> QED BY <1>4, <1>5, <1>6, <2>2
<1>9. ASSUME preopened \subseteq preopened', sent => sent'
      PROVE  j <= l /\ (preopened # preopened' \/ sent # sent' \/ Served # Served' => j + 1 <= l)
  <2>1. b <= e /\ (sent # sent' => b + 1 <= e)
    BY <1>1, <1>5, <1>9
  <2>2. k <= i /\ (Served # Served' => k + 1 <= i)
    BY <1>2, <1>5
  <2> HIDE DEF b, c, d, k
  <2>3. c \in Nat /\ d \in Nat /\ b \in {0, 1} /\ e \in {0, 1} /\ k \in Nat /\ i \in Nat
    BY <1>1, <1>2, <1>4, <1>6
  <2> QED BY <1>8, <1>9, <2>1, <2>2, <2>3
<1> HIDE DEF j, l
<1>10. Busy \in Nat /\ Busy <= j * Busy /\ Busy <= l * Busy
  <2>1. 1 * Busy = Busy /\ Busy \in Nat
    BY BoundsAssumption
  <2> QED BY <1>4, <1>6, <2>1, Work
<1>11. ASSUME preopened \subseteq preopened', sent => sent'
       PROVE  /\ j * Busy <= l * Busy
              /\ preopened # preopened' \/ sent # sent' \/ Served # Served' => j * Busy + Busy <= l * Busy
  <2>1. (j + 1) * Busy = j * Busy + Busy
    BY <1>4, Work
  <2>2. j * Busy <= l * Busy
    BY <1>4, <1>6, <1>9, <1>11, Work
  <2>3. ASSUME preopened # preopened' \/ sent # sent' \/ Served # Served' PROVE j * Busy + Busy <= l * Busy
    <3>1. j + 1 <= l /\ j + 1 \in Nat
      BY <1>4, <1>9, <1>11, <2>3
    <3>2. (j + 1) * Busy <= l * Busy
      BY <1>6, <3>1, Work
    <3> QED BY <2>1, <3>2
  <2> QED BY <2>2, <2>3
<1>12. Jobs = j /\ Jobs' = l
  BY <1>3, <1>7
<1> QED BY <1>4, <1>6, <1>10, <1>11, <1>12
(* Until its second mark S0 answers the preopen, the open or its next mark; *)
(* from the open on it answers a cycle.                                    *)
LEMMA S0First ==
  ASSUME MorningFits, NEW t \in Nat, t < SecondMark
  PROVE  /\ S0Plan(t).when \in Nat /\ Aim(t) \in Nat /\ S0Plan(t).when <= Aim(t)
         /\ t >= OpenAt => S0Plan(t).act = "cycle"
<1> DEFINE a == S0Plan(t)
<1>1. /\ a.when \in Nat /\ (t < PreopenAt => a.when <= PreopenAt)
      /\ \A d \in Minutes : d > t => a.when <= d
  BY S0PlanIs DEF Answers
<1>2. t < FirstMark => a.when <= FirstMark
  BY <1>1, MorningFacts
<1>3. a.when <= SecondMark
  BY <1>1, MorningFacts
<1>4. t < FlattenAt /\ SecondMark < FlattenAt
  BY MorningFacts, Constants
<1>5. \/ t < PreopenAt
      \/ PreopenAt <= t /\ t < OpenAt /\ a.when = OpenAt
      \/ OpenAt <= t /\ a.act = "cycle"
      \/ a.when = FlattenAt
  <2>1. MarkOf(t) \in Nat /\ NextMark(t) \in Nat
    BY MarkType
  <2>2. ~(t >= SweepAt) /\ ~(FlattenAt <= t)
    BY <1>4, MorningFacts, Constants
  <2>3. \/ t < PreopenAt
        \/ PreopenAt <= t /\ t < OpenAt /\ a = Answer(OpenAt)
        \/ OpenAt <= t /\ a = Cycle(t, MarkOf(t))
        \/ a = Answer(FlattenAt)
        \/ OpenAt <= t /\ a = Cycle(NextMark(t), NextMark(t))
    BY <2>2, S0Answers
  <2> HIDE DEF a
  <2> QED BY <2>1, <2>3, AnswerIs, CycleIs, Constants
<1> HIDE DEF a
<1>6. a.when # FlattenAt
  BY <1>1, <1>3, <1>4, MorningFacts, Constants
<1>7. a.when <= Aim(t) /\ Aim(t) \in Nat
  BY <1>1, <1>2, <1>3, <1>5, <1>6, MorningFacts, Constants DEF Aim
<1>8. t >= OpenAt => a.act = "cycle"
  BY <1>5, <1>6, Constants
<1> QED BY <1>1, <1>7, <1>8 DEF a

(* A session sleeve answers no cycle before S0's second mark.              *)
LEMMA BarsLater ==
  ASSUME MorningFits, NEW sl \in Bars, NEW t \in Nat, t < SecondMark, BarPlan(sl, t).act = "cycle"
  PROVE  BarPlan(sl, t).when >= SecondMark
<1> DEFINE nxt == {m \in Marks[sl] : m > t}
<1>1. Marks[sl] \in SUBSET Nat /\ \A m \in Marks[sl] : m >= SecondMark
  BY MarksFacts, Constants DEF MorningFits
<1>2. DueMarks(sl, t) = {}
  <2> SUFFICES ASSUME NEW m \in DueMarks(sl, t) PROVE FALSE
    OBVIOUS
  <2>1. m \in Nat /\ m >= SecondMark /\ m <= t
    BY <1>1 DEF DueMarks
  <2> QED BY <2>1, MorningFacts
<1>3. t < FlattenAt
  BY MorningFacts, Constants
<1>4. BarPlan(sl, t) = IF t < PreopenAt THEN Answer(PreopenAt) ELSE NextWork(sl, t)
  <2>1. ~(sl \in Intraday /\ FlattenDue(sl, t))
    BY <1>3, Constants DEF FlattenDue
  <2> QED BY <1>2, <2>1, Constants DEF BarPlan
<1>5. BarPlan(sl, t) = NextWork(sl, t)
  BY <1>4, AnswerIs, Constants
<1>6. nxt # {}
  <2> SUFFICES ASSUME nxt = {} PROVE FALSE
    OBVIOUS
  <2>1. \/ NextWork(sl, t) = Answer(FlattenAt)
        \/ NextWork(sl, t) = Answer(SweepAt)
    BY <1>3, Constants DEF NextWork, AtLeisure
  <2> QED BY <1>5, <2>1, AnswerIs, Constants
<1>7. NextWork(sl, t) = Cycle(Min(nxt), Min(nxt))
  BY <1>6 DEF NextWork
<1>8. Min(nxt) \in nxt
  <2>1. nxt \in SUBSET Nat
    BY <1>1
  <2> HIDE DEF nxt
  <2> QED BY <1>6, <2>1, LeastOf
<1>9. PICK m \in Nat : m = Min(nxt) /\ m >= SecondMark
  <2>1. nxt \in SUBSET Nat /\ \A x \in nxt : x >= SecondMark
    BY <1>1
  <2> HIDE DEF nxt
  <2> QED BY <1>8, <2>1
<1> HIDE DEF nxt
<1> QED BY <1>5, <1>7, <1>9, CycleIs

(* The brief: until it is sent, no later than it is due.                   *)
LEMMA BriefLater ==
  ASSUME NEW t \in Nat
  PROVE  /\ BriefPlan(t).act # "cycle" /\ (BriefPlan(t).act = "brief" => ~sent)
         /\ ~sent /\ t < LateBrief => BriefPlan(t).when <= BriefAt \/ BriefPlan(t).when <= t
<1>1. CASE ~sent /\ t < BriefAt
  <2>1. BriefPlan(t) = Answer(BriefAt)
    BY <1>1, Constants DEF BriefPlan
  <2> QED BY <1>1, <2>1, AnswerIs, Constants
<1>2. CASE ~(~sent /\ t < BriefAt) /\ ~sent /\ t \in BriefAt..(LateBrief - 1)
  <2>1. BriefPlan(t) = [when |-> t, act |-> "brief", mark |-> None, does |-> "nothing", missed |-> None]
    BY <1>2 DEF BriefPlan
  <2> QED BY <1>2, <2>1
<1>3. CASE ~(~sent /\ t < BriefAt) /\ ~(~sent /\ t \in BriefAt..(LateBrief - 1))
  <2>1. BriefPlan(t) = Answer(t + Recheck)
    BY <1>3 DEF BriefPlan
  <2> QED BY <1>3, <2>1, AnswerIs, Constants
<1> QED BY <1>1, <1>2, <1>3

(* The answers of a tick in the morning: S0's, the first, is outdone only  *)
(* by one that comes before it and is no cycle.                            *)
LEMMA LedAsk ==
  ASSUME MorningFits, TypeOK, MarksInv, Led, Ask, at < SecondMark, ~sent => at < LateBrief
  PROVE  Led'
<1>0. pc = "plan"
  BY DEF Ask
<1>1. PICK n \in Nat : n = asked + 1
  BY <1>0, Asks DEF MarksInv
<1>2. PICK r \in All : r = Runners[n] /\ at \in Nat /\ n \in 1..Len(Runners) /\ asked \in Nat
  BY <1>0, <1>1, Asks DEF MarksInv
<1> DEFINE a == Plan(r, at)
           aim == Aim(at)
<1>3. Asked(r, a) /\ at' = at /\ sent' = sent
  BY <1>1, <1>2 DEF Ask
<1>4. asked = 0 => r = S0
  BY <1>1, <1>2 DEF S0
<1>5. n = Len(Runners) => r = Brief
  BY <1>2, RunnersAssumption
<1>6. r = S0 => a = S0Plan(at)
  BY RunnerFacts DEF Plan
<1>7. r = Brief => a = BriefPlan(at)
  BY RunnerFacts DEF Plan
<1>8. r \in Bars => a = BarPlan(r, at)
  BY RunnerFacts DEF Plan
<1>9. a.when \in Nat /\ aim \in Nat /\ aim <= SecondMark /\ best.when \in Nat /\ SecondMark \in Nat
  <2>1. aim \in Nat
    BY <1>2, S0First
  <2>2. aim <= SecondMark
    BY <2>1, MorningFacts, Constants DEF Aim
  <2> QED BY <1>2, <2>1, <2>2, PlanIs, MorningFacts, ChosenType DEF Answers
<1>10. r = S0 => a.when <= aim /\ (at >= OpenAt => a.act = "cycle")
  BY <1>2, <1>6, S0First
<1>11. a.act = "cycle" => r = S0 \/ a.when >= SecondMark
  BY <1>2, <1>7, <1>8, BarsLater, BriefLater, RunnerFacts
<1>12. a.act = "brief" => ~sent
  <2>1. a.act = "brief" => r = Brief
    BY <1>2, PlanIs
  <2> QED BY <1>2, <1>7, <2>1, BriefLater
<1>13. n = Len(Runners) /\ ~sent => a.when <= BriefAt \/ a.when <= at
  BY <1>2, <1>5, <1>7, BriefLater
<1> HIDE DEF a, aim
<1>14. Aim(at)' = aim
  BY <1>3 DEF aim, Aim
<1>15. asked' = n /\ best' = Better(r, a)
  BY <1>1, <1>3 DEF Asked
<1>16. /\ best.act = "brief" => ~sent
       /\ best.act = "cycle" => best.who = S0
       /\ asked > 0 => best.when <= aim /\ (best.when < aim \/ (at >= OpenAt => best.act = "cycle"))
  BY DEF Led, aim
<1>17. CASE asked = 0 \/ a.when < best.when
  <2>1. best'.when = a.when /\ best'.who = r /\ best'.act = a.act
    BY <1>15, <1>17 DEF Better
  <2>2. a.act = "cycle" => r = S0
    BY <1>2, <1>4, <1>9, <1>11, <1>16, <1>17
  <2>3. a.when <= aim /\ (a.when < aim \/ (at >= OpenAt => a.act = "cycle"))
    BY <1>2, <1>4, <1>9, <1>10, <1>16, <1>17
  <2> QED BY <1>3, <1>12, <1>13, <1>14, <1>15, <2>1, <2>2, <2>3 DEF Led
<1>18. CASE asked > 0 /\ ~(a.when < best.when)
  <2>1. best' = best
    BY <1>15, <1>18 DEF Better
  <2>2. n = Len(Runners) /\ ~sent => best.when <= BriefAt \/ best.when <= at
    BY <1>2, <1>9, <1>13, <1>18, Constants
  <2> QED BY <1>3, <1>14, <1>15, <1>16, <1>18, <2>1, <2>2 DEF Led
<1> QED BY <1>2, <1>17, <1>18
(* Every step of the morning.                                              *)
LEMMA ServedInMorning ==
  ASSUME MorningFits, TypeOK, MarksInv, MorningInv, [Next]_vars
  PROVE  /\ Served \in Nat /\ Served' \in Nat /\ Served' >= Served
         /\ Served' # Served => FindRequest \/ RequestFlatten
         /\ FindRequest => Served' = Served + 1
         /\ \/ UNCHANGED vars
            \/ FindRequest \/ ServeRequest \/ Tick \/ Ask \/ Wait \/ WaitOver \/ BeginCycle \/ EndCycle
            \/ SendBrief \/ RequestFlatten \/ Crash \/ Down \/ Startup \/ NewDay
<1>1. MaxRaises = 0 /\ NoneBacksOff /\ Served >= 0
  BY DEF MorningFits, MorningInv
<1>2. Served \in Nat
  <2>1. requests \in Nat
    BY BoundsAssumption DEF TypeOK
  <2>2. Served \in Int
    BY <2>1 DEF Served
  <2> QED BY <1>1, <2>2
<1> QED BY <1>1, <1>2, NothingRaises

LEMMA FirstCycleStep ==
  ASSUME MorningFits, TypeOK, TypeOK', MarksInv, MorningInv, [Next]_vars
  PROVE  FirstCycleAhead'
<1> USE DEF clockVars, tickVars, memoryVars, storeVars, countVars
<1> DEFINE work  == Jobs * Busy
           after == (Jobs * Busy)'
<1> SUFFICES ASSUME Starting'
             PROVE  /\ pc' # "cycle"
                    /\ ~Settled' => now' <= Morning + (IF pc' = "serve" THEN after - Busy ELSE after)
                    /\ pc' = "tick"  => InTime(now)'
                    /\ pc' = "serve" => Served' >= 1 /\ now' <= FirstMark
                    /\ pc' \in {"plan", "wait", "act"} =>
                         /\ InTime(at)' /\ Led' /\ (pc' # "plan" => asked' = Len(Runners))
                         /\ at' <= now'
                         /\ now' = at' \/ now' <= OpenAt \/ (pc' # "plan" /\ now' <= best'.when)
  <2>1. Served \in Nat /\ Served' \in Nat /\ Served' >= Served
    BY ServedInMorning
  <2>2. ((Jobs - 1) * Busy)' = after - Busy
    BY <2>1, JobsStep
  <2>3. ((IF pc = "serve" THEN Jobs - 1 ELSE Jobs) * Busy)' = IF pc' = "serve" THEN after - Busy ELSE after
    <3>1. CASE pc' = "serve"
      BY <2>2, <3>1
    <3>2. CASE pc' # "serve"
      BY <3>2
    <3> QED BY <3>1, <3>2
  <2> DEFINE hand == (IF pc = "serve" THEN Jobs - 1 ELSE Jobs) * Busy
  <2>4. hand' = IF pc' = "serve" THEN after - Busy ELSE after
    BY <2>3
  <2> HIDE DEF after, hand
  <2>5. FirstCycleAhead' <=>
          (Starting' =>
             /\ pc' # "cycle"
             /\ ~Settled' => now' <= Morning + hand'
             /\ pc' = "tick"  => InTime(now)'
             /\ pc' = "serve" => Served' >= 1 /\ now' <= FirstMark
             /\ pc' \in {"plan", "wait", "act"} =>
                  /\ InTime(at)' /\ Led' /\ (pc' # "plan" => asked' = Len(Runners))
                  /\ at' <= now' /\ (now' = at' \/ now' <= OpenAt \/ (pc' # "plan" /\ now' <= best'.when)))
    BY DEF FirstCycleAhead, hand
  <2> QED BY <2>4, <2>5
<1>1. /\ Served \in Nat /\ Served' \in Nat /\ Served' >= Served
      /\ Served' # Served => FindRequest \/ RequestFlatten
      /\ FindRequest => Served' = Served + 1
      /\ \/ UNCHANGED vars
         \/ FindRequest \/ ServeRequest \/ Tick \/ Ask \/ Wait \/ WaitOver \/ BeginCycle \/ EndCycle
         \/ SendBrief \/ RequestFlatten \/ Crash \/ Down \/ Startup \/ NewDay
  BY ServedInMorning
<1>2. /\ work \in Nat /\ after \in Nat /\ Morning + work <= OpenAt /\ Morning + after <= OpenAt
      /\ Busy <= work /\ Busy <= after
      /\ preopened \subseteq preopened' /\ (sent => sent') =>
           /\ work <= after
           /\ preopened # preopened' \/ sent # sent' \/ Served # Served' => work + Busy <= after
  BY <1>1, JobsStep
<1>3. /\ FirstMark \in Nat /\ SecondMark \in Nat /\ SecondMark = FirstMark + Minute /\ OpenAt < FirstMark
      /\ FirstMark + Busy < SecondMark /\ SecondMark < FlattenAt /\ Morning \in Nat
      /\ PreopenAt <= Morning /\ BriefAt <= Morning /\ Busy \in Nat /\ Busy >= 1
  BY MorningFacts, Constants
<1>4. now \in Nat /\ now' \in Nat /\ at \in Nat /\ best.when \in Nat
  <2>1. now' \in Times /\ at \in Times /\ Times \subseteq Nat
    BY Constants DEF TypeOK, Times
  <2> QED BY <2>1, ChosenType
<1>5. ASSUME Starting
      PROVE  /\ pc # "cycle"
             /\ ~Settled => now <= Morning + (IF pc = "serve" THEN work - Busy ELSE work)
             /\ pc = "tick"  => InTime(now)
             /\ pc = "serve" => Served >= 1 /\ now <= FirstMark
             /\ pc \in {"plan", "wait", "act"} =>
                  /\ InTime(at) /\ Led /\ (pc # "plan" => asked = Len(Runners))
                  /\ at <= now
                  /\ now = at \/ now <= OpenAt \/ (pc # "plan" /\ now <= best.when)
  <2>1. (Jobs - 1) * Busy = work - Busy
    BY <1>1, JobsStep
  <2>2. FirstCycleAhead
    BY DEF MorningInv
  <2> HIDE DEF work
  <2> QED BY <1>5, <2>1, <2>2 DEF FirstCycleAhead, work
<1> HIDE DEF work, after
<1>6. ASSUME begun' = begun, startedAt' = startedAt, pc # "down" PROVE Starting
  BY <1>6 DEF Starting
<1>7. \A t \in Nat : InTime(t) => t < SecondMark
  BY <1>3 DEF InTime
<1>8. \A t \in Nat : InTime(t) => t < FirstMark \/ (Served' >= 1 /\ t < SecondMark)
  BY <1>1 DEF InTime
<1>9. \A t \in Nat : Aim(t) \in Nat /\ Aim(t) <= SecondMark /\ (t < FirstMark => Aim(t) <= FirstMark)
                     /\ (t < OpenAt => Aim(t) <= OpenAt) /\ (t < PreopenAt => Aim(t) = PreopenAt)
  BY <1>3, Constants DEF Aim
(* A step of the loop that only moves on.                                  *)
<1>10. CASE UNCHANGED vars \/ RequestFlatten
  <2>1. UNCHANGED <<now, at, asked, best, pc, begun, startedAt, preopened, sent>>
    BY <1>10 DEF vars, RequestFlatten
  <2>2. Starting /\ (Settled' <=> Settled) /\ work <= after
    BY <1>2, <1>6, <2>1 DEF Starting, Settled
  <2>3. Led => Led'
    BY <2>1 DEF Led, Aim
  <2>4. (InTime(now) => InTime(now)') /\ (InTime(at) => InTime(at)')
    BY <1>1, <2>1 DEF InTime
  <2>5. pc = "serve" /\ Served >= 1 => Served' >= 1
    BY <1>1
  <2> QED BY <1>2, <1>3, <1>4, <1>5, <2>1, <2>2, <2>3, <2>4, <2>5
<1>11. CASE FindRequest
  <2>1. pc \in {"tick", "wait"} /\ pc' = "serve" /\ request /\ UNCHANGED <<now, begun, startedAt, preopened, sent>>
    BY <1>11 DEF FindRequest
  <2>2. Starting /\ (Settled' <=> Settled)
    BY <1>6, <2>1 DEF Settled
  <2>3. Served' = Served + 1 /\ work + Busy <= after
    BY <1>1, <1>2, <1>11, <2>1
  <2>4. Served < 1
    <3>1. requests <= 1 /\ requests \in Nat
      BY BoundsAssumption DEF TypeOK, MorningFits
    <3> QED BY <2>1, <3>1 DEF Served
  <2>5. now <= FirstMark
    <3>1. CASE pc = "tick"
      BY <1>1, <1>3, <1>4, <1>5, <2>2, <2>4, <3>1 DEF InTime
    <3>2. CASE pc = "wait"
      <4>1. at < FirstMark /\ Led /\ asked = Len(Runners) /\ (now = at \/ now <= OpenAt \/ now <= best.when)
        BY <1>1, <1>5, <2>2, <2>4, <3>2 DEF InTime
      <4>2. best.when <= Aim(at)
        BY <4>1, RunnerFacts DEF Led
      <4>3. Aim(at) \in Nat /\ Aim(at) <= FirstMark
        BY <1>4, <1>9, <4>1
      <4> QED BY <1>3, <1>4, <4>1, <4>2, <4>3, Constants
    <3> QED BY <2>1, <3>1, <3>2
  <2> QED BY <1>1, <1>2, <1>3, <1>4, <1>5, <2>1, <2>2, <2>3, <2>5
<1>12. CASE ServeRequest
  <2>1. pc = "serve" /\ pc' = "tick" /\ now' <= now + Busy /\ UNCHANGED <<begun, startedAt, preopened, sent>>
    BY <1>12 DEF ServeRequest, Takes
  <2>2. Starting /\ (Settled' <=> Settled)
    BY <1>6, <2>1 DEF Settled
  <2>3. work <= after /\ Served >= 1 /\ now <= FirstMark
    BY <1>2, <1>5, <2>1, <2>2
  <2>4. InTime(now)'
    BY <1>1, <1>3, <1>4, <2>1, <2>3 DEF InTime
  <2> QED BY <1>2, <1>3, <1>4, <1>5, <2>1, <2>2, <2>3, <2>4
<1>13. CASE Tick
  <2>1. pc = "tick" /\ pc' = "plan" /\ now' = now /\ at' = now /\ asked' = 0 /\ best' = NoAnswer
        /\ UNCHANGED <<begun, startedAt, preopened, sent>>
    BY <1>13 DEF Tick
  <2>2. Starting /\ (Settled' <=> Settled) /\ work <= after
    BY <1>2, <1>6, <2>1 DEF Settled
  <2>3. InTime(at)'
    BY <1>4, <1>5, <1>8, <2>1, <2>2 DEF InTime
  <2>4. Led'
    BY <2>1, NoAnswerType, RunnerFacts DEF Led
  <2> QED BY <1>2, <1>3, <1>4, <1>5, <2>1, <2>2, <2>3, <2>4
<1>14. CASE Ask
  <2>1. pc = "plan" /\ pc' \in {"plan", "wait"} /\ UNCHANGED <<at, begun, startedAt, sent>>
        /\ (pc' = "wait" => asked' = Len(Runners))
    BY <1>14 DEF Ask, Asked
  <2>2. Starting
    BY <1>6, <2>1
  <2>3. InTime(at) /\ Led /\ at <= now /\ (now = at \/ now <= OpenAt) /\ (~Settled => now <= Morning + work)
    BY <1>5, <2>1, <2>2
  <2>4. at < SecondMark /\ at < FlattenAt /\ (~sent => at < LateBrief)
    <3>1. ~sent => now <= OpenAt
      BY <1>2, <1>3, <1>4, <2>3, Constants DEF Settled
    <3>2. OpenAt < LateBrief
      BY SessionAssumption
    <3> QED BY <1>3, <1>4, <1>7, <2>3, <3>1, <3>2, Constants
  <2>5. Led'
    BY <1>14, <2>3, <2>4, LedAsk
  <2>6. PICK n \in Nat : n = asked + 1
    BY <2>1, Asks DEF MarksInv
  <2>7. PICK r \in All : r = Runners[n]
    BY <2>1, <2>6, Asks DEF MarksInv
  <2> DEFINE a == Plan(r, at)
  <2>8. a.does = "nothing"
    BY <1>4, <2>4, PlansAhead DEF Later
  <2>9. /\ preopened' = IF PreopenDue(r, at) THEN preopened \cup {r} ELSE preopened
        /\ IF PreopenDue(r, at) \/ a.does # "nothing" THEN Takes ELSE UNCHANGED now
    BY <1>14, <2>6, <2>7 DEF Ask
  <2> HIDE DEF a
  <2>10. InTime(at)'
    BY <1>1, <1>4, <2>1, <2>3 DEF InTime
  <2>11. CASE PreopenDue(r, at)
    <3>1. r \in Sleeves \ preopened /\ preopened' = preopened \cup {r} /\ now' <= now + Busy /\ now' >= now
      BY <2>9, <2>11, TakesType DEF PreopenDue, Takes
    <3>2. work + Busy <= after /\ now <= Morning + work
      BY <1>2, <2>1, <2>3, <3>1 DEF Settled
    <3>3. now' <= Morning + after
      BY <1>2, <1>3, <1>4, <3>1, <3>2
    <3>4. now' <= OpenAt /\ at' <= now'
      BY <1>2, <1>3, <1>4, <2>1, <2>3, <3>1, <3>3, Constants
    <3> QED BY <2>1, <2>5, <2>10, <3>3, <3>4
  <2>12. CASE ~PreopenDue(r, at)
    <3>1. preopened' = preopened /\ now' = now
      BY <2>8, <2>9, <2>12
    <3>2. (Settled' <=> Settled) /\ work <= after
      BY <1>2, <2>1, <3>1 DEF Settled
    <3>3. ~Settled' => now' <= Morning + after
      BY <1>2, <1>3, <1>4, <2>3, <3>1, <3>2
    <3> QED BY <2>1, <2>3, <2>5, <2>10, <3>1, <3>3
  <2> QED BY <2>11, <2>12
<1>15. CASE Wait
  <2>1. pc = "wait" /\ pc' = "wait" /\ now < best.when /\ now' = now + 1
        /\ UNCHANGED <<at, asked, best, begun, startedAt, preopened, sent>>
    BY <1>15 DEF Wait
  <2>2. Starting /\ (Settled' <=> Settled) /\ work <= after
    BY <1>2, <1>6, <2>1 DEF Settled
  <2>3. InTime(at) /\ Led /\ asked = Len(Runners) /\ at <= now
    BY <1>5, <2>1, <2>2
  <2>4. InTime(at)' /\ Led'
    BY <1>1, <1>4, <2>1, <2>3 DEF InTime, Led, Aim
  <2>5. ~Settled => best.when <= Morning
    <3>1. CASE ~sent
      BY <1>3, <1>4, <2>1, <2>3, <3>1, Constants DEF Led
    <3>2. CASE sent /\ ~(Sleeves \subseteq preopened)
      <4>1. at \notin PreopenAt..(FlattenAt - 1)
        BY <2>1, <3>2 DEF MorningInv, Opened
      <4>2. at < PreopenAt
        BY <1>3, <1>4, <1>7, <2>3, <4>1, Constants
      <4>3. best.when <= Aim(at)
        BY <2>3, RunnerFacts DEF Led
      <4> QED BY <1>3, <1>4, <1>9, <4>2, <4>3, Constants
    <3> QED BY <3>1, <3>2 DEF Settled
  <2>6. ~Settled' => now' <= Morning + after
    BY <1>2, <1>3, <1>4, <2>1, <2>2, <2>5
  <2>7. now' <= best'.when /\ at' <= now'
    BY <1>4, <2>1, <2>3
  <2> QED BY <2>1, <2>3, <2>4, <2>6, <2>7
<1>16. CASE WaitOver
  <2>1. pc = "wait" /\ pc' = (IF best.act = "none" THEN "tick" ELSE "act") /\ now >= best.when
        /\ UNCHANGED <<now, at, asked, best, begun, startedAt, preopened, sent>>
    BY <1>16 DEF WaitOver
  <2>2. Starting /\ (Settled' <=> Settled) /\ work <= after
    BY <1>2, <1>6, <2>1 DEF Settled
  <2>3. /\ InTime(at) /\ Led /\ asked = Len(Runners) /\ at <= now
        /\ now = at \/ now <= OpenAt \/ now <= best.when
        /\ ~Settled => now <= Morning + work
    BY <1>5, <2>1, <2>2
  <2>4. InTime(at)' /\ Led'
    BY <1>1, <1>4, <2>1, <2>3 DEF InTime, Led, Aim
  <2>5. ~Settled' => now' <= Morning + after
    BY <1>2, <1>3, <1>4, <2>1, <2>2, <2>3
  <2>6. ASSUME best.act = "none" PROVE InTime(now)'
    <3>1. best.when <= Aim(at) /\ (best.when < Aim(at) \/ at < OpenAt)
      <4>1. asked > 0
        BY <2>3, RunnerFacts
      <4> QED BY <1>4, <2>3, <2>6, <4>1, Constants DEF Led
    <3>2. CASE now = at
      BY <1>4, <1>8, <2>1, <2>3, <3>2 DEF InTime
    <3>3. CASE now <= OpenAt
      BY <1>3, <1>4, <2>1, <3>3, Constants DEF InTime
    <3>4. CASE now <= best.when
      <4>1. CASE at < OpenAt
        BY <1>3, <1>4, <1>9, <2>1, <3>1, <3>4, <4>1, Constants DEF InTime
      <4>2. CASE best.when < Aim(at)
        <5>1. Aim(at) \in Nat /\ Aim(at) <= SecondMark /\ (at < FirstMark => Aim(at) <= FirstMark)
          BY <1>4, <1>9
        <5>2. at < FirstMark \/ Served' >= 1
          BY <1>4, <1>8, <2>3
        <5>3. now < FirstMark \/ (Served' >= 1 /\ now < SecondMark)
          BY <1>3, <1>4, <3>4, <4>2, <5>1, <5>2
        <5> QED BY <2>1, <5>3 DEF InTime
      <4> QED BY <3>1, <4>1, <4>2
    <3> QED BY <2>3, <3>2, <3>3, <3>4
  <2> QED BY <2>1, <2>3, <2>4, <2>5, <2>6
<1>17. CASE BeginCycle
  <2>1. /\ pc = "act" /\ best.act = "cycle" /\ startedAt' = startedAt
        /\ begun' = [begun EXCEPT ![best.who] = @ \cup {MarkRun}]
    BY <1>17 DEF BeginCycle
  <2>2. begun[S0] = {}
    <3>1. begun'[S0] = {} /\ begun \in [Sleeves -> SUBSET Nat]
      BY DEF Starting, TypeOK
    <3> QED BY <2>1, <3>1, RunnerFacts
  <2>3. Starting
    BY <2>1, <2>2 DEF Starting
  <2>4. best.who = S0
    BY <1>5, <2>1, <2>3 DEF Led
  <2>5. begun'[S0] # {}
    BY <2>1, <2>4, RunnerFacts DEF TypeOK
  <2> QED BY <2>5 DEF Starting
<1>18. CASE EndCycle
  <2>1. pc = "cycle" /\ begun' = begun /\ startedAt' = startedAt
    BY <1>18 DEF EndCycle
  <2> QED BY <1>5, <1>6, <2>1
<1>19. CASE SendBrief
  <2>1. /\ pc = "act" /\ best.act = "brief" /\ pc' = "tick" /\ now' <= now + Busy /\ sent' = reachable
        /\ UNCHANGED <<begun, startedAt, preopened>>
    BY <1>19 DEF SendBrief, Takes
  <2>2. Starting
    BY <1>6, <2>1
  <2>3. ~sent /\ sent'
    BY <1>5, <2>1, <2>2 DEF Led, MorningInv
  <2>4. now <= Morning + work
    BY <1>5, <2>1, <2>2, <2>3 DEF Settled
  <2>5. work + Busy <= after
    BY <1>2, <2>1, <2>3
  <2>6. now' <= Morning + after
    BY <1>2, <1>3, <1>4, <2>1, <2>4, <2>5
  <2>7. now' < FirstMark
    BY <1>2, <1>3, <1>4, <2>6, Constants
  <2>8. InTime(now)'
    BY <2>7 DEF InTime
  <2> QED BY <2>1, <2>6, <2>8
<1>20. CASE Crash \/ Down
  BY <1>20 DEF Crash, Down, Starting
<1>21. CASE Startup
  <2>1. pc' = "tick" /\ startedAt' = now /\ now' <= now + Busy
    BY <1>21 DEF Startup, Takes
  <2>2. now <= PreopenAt
    BY <1>4, <2>1, Constants DEF Starting
  <2>3. now' <= Morning + after
    BY <1>2, <1>3, <1>4, <2>1, <2>2, Constants
  <2>4. now' < FirstMark
    BY <1>2, <1>3, <1>4, <2>3, Constants
  <2>5. InTime(now)'
    BY <2>4 DEF InTime
  <2> QED BY <2>1, <2>3, <2>5
<1>22. CASE NewDay
  <2>1. now' = 0 /\ pc' \in {"tick", "down"}
    BY <1>22 DEF NewDay
  <2>2. InTime(now)'
    BY <1>3, <2>1, Constants DEF InTime
  <2>3. now' <= Morning + after
    BY <1>2, <1>3, <2>1
  <2> QED BY <2>1, <2>2, <2>3 DEF Starting
<1> QED BY <1>1, <1>10, <1>11, <1>12, <1>13, <1>14, <1>15, <1>16, <1>17, <1>18, <1>19, <1>20, <1>21, <1>22

LEMMA MorningInit ==
  ASSUME MorningFits, Init
  PROVE  MorningInv
<1>1. Served >= 0 /\ NoneBacksOff /\ Opened
  BY TimelyInit DEF TimelyInv
<1>2. reachable /\ pc = "down" /\ startedAt = None /\ preopened = {}
  BY DEF Init, MorningFits
<1> QED BY <1>1, <1>2 DEF MorningInv, FirstCycleAhead, Starting

LEMMA MorningStep ==
  ASSUME MorningFits, TypeOK, TypeOK', MarksInv, MorningInv, [Next]_vars
  PROVE  MorningInv'
<1> USE DEF clockVars, tickVars, memoryVars, storeVars, countVars
<1>1. Served >= 0 /\ NoneBacksOff /\ Opened /\ reachable
  BY DEF MorningInv
<1>2. /\ NoneBacksOff' /\ Served' \in Nat /\ Opened'
      /\ \/ UNCHANGED vars
         \/ FindRequest \/ ServeRequest \/ Tick \/ Ask \/ Wait \/ WaitOver \/ BeginCycle \/ EndCycle
         \/ SendBrief \/ RequestFlatten \/ Crash \/ Down \/ Startup \/ NewDay
  BY <1>1, NothingRaises, OpenedStep DEF MorningFits
<1>3. reachable'
  <2>1. reachable' = reachable \/ reachable' \in Reachable
    BY <1>2 DEF vars, FindRequest, ServeRequest, Tick, Ask, Wait, WaitOver, BeginCycle, EndCycle,
                SendBrief, RequestFlatten, Crash, Down, Startup, NewDay
  <2> QED BY <1>1, <2>1 DEF MorningFits
<1>4. pc' = "down" => startedAt' = None /\ preopened' = {}
  <2>1. CASE UNCHANGED vars \/ RequestFlatten \/ Down
    BY <2>1 DEF vars, RequestFlatten, Down, MorningInv
  <2>2. CASE Crash \/ NewDay
    BY <2>2 DEF Crash, NewDay, NoMemory
  <2>3. CASE FindRequest \/ ServeRequest \/ Tick \/ Ask \/ Wait \/ WaitOver \/ BeginCycle \/ EndCycle
             \/ SendBrief \/ Startup
    BY <2>3 DEF FindRequest, ServeRequest, Tick, Ask, Asked, Wait, WaitOver, BeginCycle, EndCycle,
                SendBrief, Startup
  <2> QED BY <1>2, <2>1, <2>2, <2>3
<1>5. FirstCycleAhead'
  BY FirstCycleStep
<1> QED BY <1>2, <1>3, <1>4, <1>5 DEF MorningInv

LEMMA MorningStarts ==
  ASSUME MorningFits, TypeOK, MarksInv, MorningInv
  PROVE  CyclesStart
<1> SUFFICES ASSUME startedAt \in 0..PreopenAt, now >= OpenAt + 2 * Minute, begun[S0] = {}
             PROVE  FALSE
  BY DEF CyclesStart
<1>1. Starting
  <2>1. startedAt # None
    BY Constants DEF None
  <2> QED BY <2>1 DEF MorningInv, Starting
<1>2. now \in Nat /\ at \in Nat /\ best.when \in Nat /\ Times \subseteq Nat
  BY ChosenType DEF TypeOK
<1>3. now > SecondMark /\ SecondMark > FirstMark /\ FirstMark > OpenAt /\ SecondMark \in Nat /\ FirstMark \in Nat
  BY <1>2, MorningFacts, Constants
<1>4. /\ pc # "cycle"
      /\ pc = "tick"  => InTime(now)
      /\ pc = "serve" => now <= FirstMark
      /\ pc \in {"plan", "wait", "act"} =>
           /\ InTime(at) /\ Led /\ (pc # "plan" => asked = Len(Runners))
           /\ now = at \/ now <= OpenAt \/ (pc # "plan" /\ now <= best.when)
  BY <1>1 DEF MorningInv, FirstCycleAhead
<1>5. pc \in {"plan", "wait", "act"}
  BY <1>1, <1>2, <1>3, <1>4 DEF TypeOK, Starting, InTime
<1>6. now = at \/ now <= OpenAt \/ (now <= best.when /\ asked = Len(Runners))
  BY <1>4, <1>5
<1>7. at < SecondMark
  BY <1>2, <1>3, <1>4, <1>5 DEF InTime
<1>8. asked = Len(Runners) => best.when <= Aim(at)
  BY <1>4, <1>5, RunnerFacts DEF Led
<1>9. Aim(at) \in Nat /\ Aim(at) <= SecondMark
  BY <1>2, <1>3, Constants DEF Aim
<1>10. OpenAt \in Nat
  BY Constants
<1>11. ~(now = at) /\ ~(now <= OpenAt)
  BY <1>2, <1>3, <1>7, <1>10
<1>12. ~(now <= best.when /\ asked = Len(Runners))
  <2> SUFFICES ASSUME now <= best.when, best.when <= Aim(at) PROVE FALSE
    BY <1>8
  <2> QED BY <1>2, <1>3, <1>9
<1> QED BY <1>6, <1>11, <1>12

(* Where the morning's work fits before the open, S0 has begun a cycle by  *)
(* the end of the session's second minute, for any runners, marks and      *)
(* times of the day, and though a flatten request be served meanwhile.     *)
THEOREM StartsCycles ==
  ASSUME MorningFits
  PROVE  Spec => []CyclesStart
<1>1. Init => TypeOK /\ MarksInv /\ MorningInv
  BY MarksInit, MorningInit
<1>2. TypeOK /\ TypeOK' /\ MarksInv /\ MorningInv /\ [Next]_vars => MorningInv'
  BY MorningStep
<1>3. TypeOK /\ MarksInv /\ MorningInv => CyclesStart
  BY MorningStarts
<1> QED BY <1>1, <1>2, <1>3, MarksStep, PTL DEF Spec
==============================================================================
