------------------------------ MODULE Nightly ------------------------------
(***************************************************************************)
(* The evening: NightlyJobs runs its chain of steps once the equity        *)
(* sleeves have swept, each step at most once a night and in spite of      *)
(* failing ones; two kinds of reconciliation chain their windows over the  *)
(* trades closed; the last step launches the night lab (module Lab).       *)
(*                                                                         *)
(* A day has three instants: the session, sweep_at, and the evening, in    *)
(* which SWEEP_WAIT is over and S2's day rolls.  The sleeves, the chain    *)
(* and the rollover share the process's one thread, so each is one step.   *)
(***************************************************************************)
EXTENDS Lab, FiniteSets

CONSTANTS
  Steps,     \* the steps of the chain, in order (main and build_jobs give all six)
  Days,      \* bound: the days
  Waits,     \* the sleeves whose sweep the chain waits for
  MaxTrades, \* bound: trades closed in all
  MaxKills   \* bound: kills of the engine's process

AllSteps == {"history", "p100", "recon", "backup", "evening", "lab"}

ASSUME NightlyAssumption == Steps \in Seq(AllSteps) /\ \A i, j \in DOMAIN Steps : Steps[i] = Steps[j] => i = j
ASSUME NightlyBounds == Days \in Nat \ {0} /\ MaxTrades \in Nat /\ MaxKills \in Nat

VARIABLES
  now,      \* the instant, three a day from 0
  up,       \* the engine's process runs
  done,     \* memory: _done, the steps of each date
  swept,    \* store: the sleeves that have swept today
  kept,     \* store and disk: the P100 rows, backups and evening reports there are
  rolled,   \* store: the dates S2 has swept for; memory: _swept
  recons,   \* store: the recon rows
  closed,   \* store: the instant each trade was closed
  kills     \* bound: kills so far

nightVars == <<now, up, done, swept, kept, rolled, recons, closed, kills>>
vars == <<labVars, nightVars>>

Date == now \div 3
Phase == now % 3

\* The dates S2's sweep is on record for, or in memory though it failed.
Row(d) == [date |-> d, in |-> "store"]
Memo(d) == [date |-> d, in |-> "memory"]
Rows == {r \in rolled : r.in = "store"}

Init ==
  /\ LabInit
  /\ now = 0 /\ up = TRUE /\ done = {} /\ swept = {} /\ kept = {} /\ rolled = {Row(0)}
  /\ recons = <<>> /\ closed = <<>> /\ kills = 0

-----------------------------------------------------------------------------
(* Reconciliation                                                          *)

Good == {i \in DOMAIN recons : recons[i].status # "error"}
Newest(S) == CHOOSE i \in S : \A j \in S : j <= i

\* Mutant: each kind measures from the last of its own.
PrevOfKind(kind) == {i \in Good : recons[i].kind = kind}

\* last_recon(with_equity=True): of either kind.
PrevOf(kind) == Good

\* run_recon: from the previous one that saw an equity up to now; the first
\* only records the baseline.
Passed(kind) ==
  LET prevs == PrevOf(kind)
      from == recons[Newest(prevs)].ts
  IN  IF prevs = {} THEN [kind |-> kind, status |-> "baseline", ts |-> now, counted |-> {}]
      ELSE [kind |-> kind, status |-> "measured", ts |-> now,
            counted |-> {t \in DOMAIN closed : from <= closed[t] /\ closed[t] < now}]

Failed(kind) == [kind |-> kind, status |-> "error", ts |-> now, counted |-> {}]

Recon(kind) == \E row \in {Passed(kind), Failed(kind)} : recons' = Append(recons, row)

\* It may also raise once the broker has answered, and leave no row.
Reconciles(kind) == Recon(kind) \/ UNCHANGED recons

-----------------------------------------------------------------------------
(* The chain                                                               *)

\* The durable check of each step; the history has none.
Durable(step) ==
  CASE step = "recon" -> \E i \in Good : recons[i].kind = "equity_session" /\ recons[i].ts \div 3 = Date
    [] step = "lab" -> \E i \in DOMAIN labRuns : labRuns[i].date = Date
    [] OTHER -> <<Date, step>> \in kept

Pending(i) == <<Date, Steps[i]>> \notin done /\ ~Durable(Steps[i])

\* plan: the first pending step, once the sweeps are there or waited for.  A
\* durable check that raises leaves its step pending, though it was done.
Due(i) ==
  /\ up /\ Phase >= 1
  /\ <<Date, Steps[i]>> \notin done /\ \A j \in 1..(i - 1) : ~Pending(j)
  /\ swept = Waits \/ Phase >= 2

\* Mutant: a step that failed is tried again at the next turn.
MarkedIfKept(step) == IF Durable(step)' THEN done \cup {<<Date, step>>} ELSE done

\* _run: done for the night, whatever came of it.
Marked(step) == done \cup {<<Date, step>>}

\* What a step leaves when it succeeds, and nothing when it fails; a
\* reconciliation the broker refuses leaves an error row, a failing report an
\* alert not sent.
Effect(step) ==
  CASE step = "recon" -> Reconciles("equity_session") /\ UNCHANGED <<kept, labVars>>
    [] step = "lab" -> /\ \/ \E p \in Labs : Launched(p)
                          \/ UNCHANGED <<lab, launches>>
                       /\ UNCHANGED <<kept, recons, labRuns, labResults, suggestions, form, forms>>
    [] step \in {"p100", "backup", "evening"} ->
         kept' \in {kept, kept \cup {<<Date, step>>}} /\ UNCHANGED <<recons, labVars>>
    [] OTHER -> UNCHANGED <<kept, recons, labVars>>

RunStep ==
  \E i \in DOMAIN Steps :
    /\ Due(i)
    /\ Effect(Steps[i])
    /\ UNCHANGED <<now, up, swept, rolled, closed, kills>>
    /\ done' = Marked(Steps[i])

-----------------------------------------------------------------------------
(* What happens around it                                                  *)

\* A sleeve sweeps in its own turn, or never does.
SleeveSweeps ==
  /\ up /\ Phase >= 1
  /\ \E s \in Waits \ swept : swept' = swept \cup {s}
  /\ UNCHANGED <<labVars, now, up, done, kept, rolled, recons, closed, kills>>

\* The date of S2's newest rollover; before the first, that of the day before.
RollDate == IF Phase = 2 THEN Date + 1 ELSE Date

\* S2's rollover: its sweep, which may fail and is then done only in memory,
\* and the reconciliation that follows it.
Rollover ==
  /\ up /\ Row(RollDate) \notin rolled /\ Memo(RollDate) \notin rolled
  /\ rolled' \in {rolled \cup {Row(RollDate)}, rolled \cup {Memo(RollDate)}}
  /\ Reconciles("crypto_rollover")
  /\ UNCHANGED <<labVars, now, up, done, swept, kept, closed, kills>>

\* The process dies: in the middle of anything, between S2's sweep and the
\* reconciliation that follows it too.
Dies == up /\ kills < MaxKills /\ up' = FALSE /\ done' = {} /\ kills' = kills + 1

RolloverCut ==
  /\ Dies /\ Row(RollDate) \notin rolled /\ Memo(RollDate) \notin rolled
  /\ rolled' = Rows \cup {Row(RollDate)}
  /\ UNCHANGED <<labVars, now, swept, kept, recons, closed>>

\* A sleeve closes a trade.
CloseTrade ==
  /\ up /\ Len(closed) < MaxTrades
  /\ closed' = Append(closed, now)
  /\ UNCHANGED <<labVars, now, up, done, swept, kept, rolled, recons, kills>>

Kill ==
  /\ Dies /\ rolled' = Rows
  /\ UNCHANGED <<labVars, now, swept, kept, recons, closed>>

Restart ==
  /\ ~up /\ up' = TRUE
  /\ UNCHANGED <<labVars, now, done, swept, kept, rolled, recons, closed, kills>>

Tick ==
  /\ now + 1 < 3 * Days
  /\ now' = now + 1
  /\ swept' = IF Phase = 2 THEN {} ELSE swept
  /\ UNCHANGED <<labVars, up, done, kept, rolled, recons, closed, kills>>

LabRuns ==
  /\ \/ LabStep
     \/ \E p \in Labs : StartRun(p, Date)
  /\ UNCHANGED nightVars

Next ==
  \/ RunStep \/ SleeveSweeps \/ Rollover \/ RolloverCut \/ CloseTrade
  \/ Kill \/ Restart \/ Tick \/ LabRuns

\* The scheduler goes on asking the chain, and the service is started again.
Fairness == WF_vars(RunStep) /\ WF_vars(Restart)

Spec == Init /\ [][Next]_vars /\ Fairness

-----------------------------------------------------------------------------
(* Properties                                                              *)

TypeOK ==
  /\ LabTypeOK
  /\ now \in 0..(3 * Days - 1) /\ up \in BOOLEAN /\ swept \subseteq Waits /\ kills \in 0..MaxKills
  /\ done \subseteq (0..Date) \X ToSet(Steps) /\ kept \subseteq (0..Date) \X {"p100", "backup", "evening"}
  /\ \A r \in rolled : r.date \in 0..(Date + 1) /\ r.in \in {"store", "memory"}
  /\ \A i \in DOMAIN recons : recons[i].counted \subseteq DOMAIN closed /\ recons[i].ts <= now
  /\ \A t \in DOMAIN closed : closed[t] \in 0..now

\* Recons chain (recon.py 11-14): whatever failed, was skipped or was run again
\* after a restart, and whichever kind came between, every trade closed since
\* the baseline and before the newest good reconciliation is counted in exactly
\* one of them, and no other trade in any.
WindowsExact ==
  \A t \in DOMAIN closed :
    LET in == {i \in Good : t \in recons[i].counted}
        first == CHOOSE i \in Good : \A j \in Good : i <= j
    IN  IF Good # {} /\ recons[first].ts <= closed[t] /\ closed[t] < recons[Newest(Good)].ts
        THEN Cardinality(in) = 1 ELSE in = {}

Finished == \A i \in DOMAIN Steps : ~Pending(i)

\* The chain always comes to its end (jobs.py _run: a failing step cannot block
\* the steps after it): once the sweeps have been waited for, nothing of the
\* night stays pending, though any step fails and the process is killed, unless
\* the day itself ends first.
ChainEnds == \A d \in 0..(Days - 1) : (Date = d /\ Phase = 2) ~> (Finished \/ Date # d)
=============================================================================
