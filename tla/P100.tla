-------------------------------- MODULE P100 --------------------------------
(***************************************************************************)
(* The shadow cash account: each night the day's signals are traded long   *)
(* only from the cash that has settled, the proceeds settle on the next    *)
(* business day, one ledger row a date carries the account on, and then    *)
(* P100's own parameters move by one step.  The nightly job and a run by   *)
(* hand do the same work; the process may be killed at any write.          *)
(*                                                                         *)
(* Money is in whole units.  A signal says how far its stop is (percent)   *)
(* and what a hundred units put into it come back as.  Prices, fees and    *)
(* the shadow shorts, which touch no cash, are in those two numbers; the   *)
(* scores of the parameter grid are the choice of the best index.          *)
(***************************************************************************)
EXTENDS Integers, Sequences, FiniteSets, FiniteSetsExt, Functions

CONSTANTS
  Symbols,      \* what can be held
  INVERSE,      \* the fund to buy for a short signal
  DaySignals,   \* what the replays of a day's bars may yield: sequences of signals
  Dates,        \* bound: the dates 1 .. Dates
  Sessions,     \* the dates with a session
  Weekend,      \* the dates that are no weekdays
  StartEquity,  \* START_EQUITY
  MinOrder,     \* MIN_ORDER
  Sleeves,      \* the sleeves whose parameters are tuned, in order
  Grid,         \* the indices 0 .. Grid of a parameter
  KillAt,       \* the places where the process may be killed, or the tuning raise
  MaxRuns       \* bound: runs of the account in all

Signal == [symbol : Symbols, side : {"long", "short"}, in : Nat, out : Nat, stop : Nat \ {0}, worth : Nat]
Settling == 1..(Dates + 3)
Tuned == Range(Sleeves)

ASSUME INVERSEAssumption == DOMAIN INVERSE \subseteq Symbols /\ Range(INVERSE) \subseteq Symbols
ASSUME SignalsAssumption == \A sigs \in DaySignals : sigs \in Seq(Signal) /\ \A i \in DOMAIN sigs : sigs[i].in < sigs[i].out
ASSUME DatesAssumption == Dates \in Nat \ {0} /\ Sessions \subseteq Nat /\ Weekend \subseteq Nat
ASSUME WeekendAssumption == \A d \in 1..Dates : \E x \in (d + 1)..(d + 3) : x \notin Weekend
ASSUME SleevesAssumption == Sleeves \in Seq(STRING) /\ Sleeves # <<>>
ASSUME AmountsAssumption == StartEquity \in Nat /\ MinOrder \in Nat \ {0} /\ Grid \in Nat /\ MaxRuns \in Nat

VARIABLES
  today, \* the date
  rows,  \* p100_ledger: the row of each date
  param, \* the index of the parameter of each sleeve, profile P100
  hist,  \* params_history: the dates on which each sleeve was tuned
  runs,  \* bound: runs begun
  moved, \* history: how far each parameter has moved today
  pc,    \* "idle", "trade", or "check", "write", "history" while tuning
  acct,  \* the run in progress: the account at its start and now
  sigs,  \* its signals
  todo,  \* its events not yet taken
  open,  \* the cost of each position that is open
  tuning \* the sleeve being tuned and the index chosen

Durable == <<today, rows, param, hist>>
vars == <<today, rows, param, hist, runs, moved, pc, acct, sigs, todo, open, tuning>>

-----------------------------------------------------------------------------
NoRow == [start |-> -1]
NoDue == [d \in Settling |-> 0]
Fresh == [equity |-> StartEquity, settled |-> StartEquity, due |-> NoDue]
NoAccount == [equity |-> 0, opened |-> 0, settled |-> 0, due |-> NoDue, net |-> 0, settle |-> 0]
NoTuning == [at |-> 1, index |-> 0]

Total(f) == SumFunction(f)

Least(S) == CHOOSE x \in S : \A y \in S : x <= y

\* The next session, or the next weekday when the calendar cannot say.
NextBusinessDay(d, calendar) ==
  LET later == {x \in Sessions : x > d /\ x \in Settling}
  IN  IF calendar /\ later # {} THEN Least(later)
      ELSE Least({x \in (d + 1)..(d + 3) : x \notin Weekend})

\* Mutant: the account starts from the newest row, the date's own included.
NewestRow(d) == {x \in 1..Dates : rows[x] # NoRow}

\* The rows the account of a date may start from.
RowsBefore(d) == {x \in 1..Dates : x < d /\ rows[x] # NoRow}

StartState(d) ==
  IF RowsBefore(d) = {} THEN Fresh
  ELSE LET prev == rows[Max(RowsBefore(d))]
       IN  [equity |-> prev.end, settled |-> prev.settled, due |-> prev.due]

\* What was due by the date is cash when the day begins.
Matured(due, d) == Total([x \in 1..d |-> due[x]])
NotMatured(due, d) == [x \in Settling |-> IF x <= d THEN 0 ELSE due[x]]

\* A short signal is bought as its inverse fund, if it has one.
Translatable(s) == s.side = "long" \/ s.symbol \in DOMAIN INVERSE
Held(s) == IF s.side = "long" THEN s.symbol ELSE INVERSE[s.symbol]

Events(seq) == {[at |-> seq[i].in, kind |-> 1, i |-> i] : i \in DOMAIN seq}
               \cup {[at |-> seq[i].out, kind |-> 0, i |-> i] : i \in DOMAIN seq}

\* In the order of time; an exit before an entry of the same moment.
Before(e, f) ==
  \/ e.at < f.at
  \/ e.at = f.at /\ e.kind < f.kind
  \/ e.at = f.at /\ e.kind = f.kind /\ e.i < f.i

IsNext(e) == e \in todo /\ \A f \in todo \ {e} : Before(e, f)

\* One percent of the equity over the stop, at most the equity itself.
Wanted(s) == acct.equity \div s.stop
Smaller(a, b) == IF a <= b THEN a ELSE b

\* Mutant: sized by the equity alone, as if everything had settled.
NotionalOfEquity(s) == Wanted(s)
Notional(s) == Smaller(Wanted(s), acct.settled)

Taken(s) ==
  /\ Translatable(s)
  /\ \A i \in DOMAIN open : Held(sigs[i]) # Held(s)
  /\ Notional(s) >= MinOrder

-----------------------------------------------------------------------------
Init ==
  /\ today = 1 /\ rows = [d \in 1..Dates |-> NoRow]
  /\ param \in [Tuned -> 0..Grid] /\ hist = [s \in Tuned |-> {}]
  /\ runs = 0 /\ moved = [s \in Tuned |-> 0]
  /\ pc = "idle" /\ acct = NoAccount /\ sigs = <<>> /\ todo = {} /\ open = <<>> /\ tuning = NoTuning

\* A run replays the day, reads the last row before it and lets mature what is due.
Begin(seq, calendar) ==
  LET from == StartState(today)
      cash == from.settled + Matured(from.due, today)
  IN  /\ pc = "idle" /\ runs < MaxRuns
      /\ runs' = runs + 1 /\ pc' = "trade"
      /\ acct' = [equity |-> from.equity, opened |-> cash, settled |-> cash,
                  due |-> NotMatured(from.due, today), net |-> 0, settle |-> NextBusinessDay(today, calendar)]
      /\ sigs' = seq /\ todo' = Events(seq) /\ open' = <<>>
      /\ UNCHANGED <<today, rows, param, hist, moved, tuning>>

\* The nightly job, on a session day without a row.
NightlyStarts ==
  /\ today \in Sessions /\ rows[today] = NoRow
  /\ \E seq \in DaySignals, calendar \in BOOLEAN : Begin(seq, calendar)

\* --p100: the date may be run by hand, and again; without bars it has no
\* signals.  (A run for an older date rewrites a row that later ones started
\* from; it is left out, and LedgerChains says what holds without it.)
HandStarts ==
  \E seq \in (IF today \in Sessions THEN DaySignals ELSE {<<>>}), calendar \in BOOLEAN : Begin(seq, calendar)

EntryBuys ==
  /\ pc = "trade"
  /\ \E e \in todo :
       /\ IsNext(e) /\ e.kind = 1 /\ Taken(sigs[e.i])
       /\ todo' = todo \ {e}
       /\ acct' = [acct EXCEPT !.settled = @ - Notional(sigs[e.i])]
       /\ open' = [i \in DOMAIN open \cup {e.i} |-> IF i = e.i THEN Notional(sigs[i]) ELSE open[i]]
  /\ UNCHANGED <<Durable, runs, moved, pc, sigs, tuning>>

\* Not translatable, held already, or no settled cash worth an order.
EntrySkipped ==
  /\ pc = "trade"
  /\ \E e \in todo : IsNext(e) /\ e.kind = 1 /\ ~Taken(sigs[e.i]) /\ todo' = todo \ {e}
  /\ UNCHANGED <<Durable, runs, moved, pc, acct, sigs, open, tuning>>

\* Mutant: the proceeds of a sale are cash at once.
PaidAtOnce(a, proceeds) == [a EXCEPT !.settled = @ + proceeds]

\* The proceeds of a sale settle on the next business day.
Paid(a, proceeds) == [a EXCEPT !.due[a.settle] = @ + proceeds]

ExitSells ==
  /\ pc = "trade"
  /\ \E e \in todo :
       /\ IsNext(e) /\ e.kind = 0 /\ e.i \in DOMAIN open
       /\ LET proceeds == (open[e.i] * sigs[e.i].worth) \div 100
          IN  acct' = [Paid(acct, proceeds) EXCEPT !.net = @ + proceeds - open[e.i]]
       /\ todo' = todo \ {e}
       /\ open' = [i \in DOMAIN open \ {e.i} |-> open[i]]
  /\ UNCHANGED <<Durable, runs, moved, pc, sigs, tuning>>

ExitOfNothing ==
  /\ pc = "trade"
  /\ \E e \in todo : IsNext(e) /\ e.kind = 0 /\ e.i \notin DOMAIN open /\ todo' = todo \ {e}
  /\ UNCHANGED <<Durable, runs, moved, pc, acct, sigs, open, tuning>>

\* The date's row and trades are replaced in one commit; tuning begins.
WriteDay ==
  /\ pc = "trade" /\ todo = {}
  /\ rows' = [rows EXCEPT ![today] =
       [start |-> acct.equity, opened |-> acct.opened, settled |-> acct.settled, due |-> acct.due,
        end |-> acct.settled + Total(acct.due)]]
  /\ pc' = "check" /\ tuning' = NoTuning
  /\ acct' = NoAccount /\ sigs' = <<>>
  /\ UNCHANGED <<today, param, hist, runs, moved, todo, open>>

Sleeve == Sleeves[tuning.at]
NextSleeve ==
  IF tuning.at = Len(Sleeves) THEN pc' = "idle" /\ tuning' = NoTuning
  ELSE pc' = "check" /\ tuning' = [at |-> tuning.at + 1, index |-> 0]

AlreadyTuned ==
  /\ pc = "check" /\ today \in hist[Sleeve]
  /\ NextSleeve
  /\ UNCHANGED <<Durable, runs, moved, acct, sigs, todo, open>>

\* The grid is scored; with enough evidence the index moves a step to the best.
Scores ==
  /\ pc = "check" /\ today \notin hist[Sleeve]
  /\ \E best \in 0..Grid :
       LET cur == param[Sleeve]
       IN  tuning' = [tuning EXCEPT !.index = IF best > cur THEN cur + 1 ELSE IF best < cur THEN cur - 1 ELSE cur]
  /\ pc' = "write"
  /\ UNCHANGED <<Durable, runs, moved, acct, sigs, todo, open>>

WriteParams ==
  /\ pc = "write"
  /\ moved' = [moved EXCEPT ![Sleeve] = @ + tuning.index - param[Sleeve]]
  /\ param' = [param EXCEPT ![Sleeve] = tuning.index]
  /\ pc' = "history"
  /\ UNCHANGED <<today, rows, hist, runs, acct, sigs, todo, open, tuning>>

\* Mutant: the tuning leaves no row in the history.
NotNoted == hist
Noted == [hist EXCEPT ![Sleeve] = @ \cup {today}]

WriteHistory ==
  /\ pc = "history"
  /\ hist' = Noted
  /\ NextSleeve
  /\ UNCHANGED <<today, rows, param, runs, moved, acct, sigs, todo, open>>

\* An exception while tuning is logged: the day's row stands, and so do the
\* parameters when their history row is what could not be written.
TuneFails ==
  /\ pc \in {"check", "write"} \cup (KillAt \cap {"history"})
  /\ pc' = "idle" /\ tuning' = NoTuning
  /\ UNCHANGED <<Durable, runs, moved, acct, sigs, todo, open>>

Kill ==
  /\ pc \in KillAt
  /\ pc' = "idle" /\ acct' = NoAccount /\ sigs' = <<>> /\ todo' = {} /\ open' = <<>> /\ tuning' = NoTuning
  /\ UNCHANGED <<Durable, runs, moved>>

NewDay ==
  /\ pc = "idle" /\ today < Dates
  /\ today' = today + 1 /\ moved' = [s \in Tuned |-> 0]
  /\ UNCHANGED <<rows, param, hist, runs, pc, acct, sigs, todo, open, tuning>>

Next ==
  \/ NightlyStarts \/ HandStarts
  \/ EntryBuys \/ EntrySkipped \/ ExitSells \/ ExitOfNothing \/ WriteDay
  \/ AlreadyTuned \/ Scores \/ WriteParams \/ WriteHistory \/ TuneFails
  \/ Kill \/ NewDay

Spec == Init /\ [][Next]_vars

-----------------------------------------------------------------------------
(* Properties                                                              *)

RowType == [start : Nat, opened : Nat, settled : Nat, due : [Settling -> Nat], end : Nat]
AccountType == [equity : Nat, opened : Nat, settled : Nat, due : [Settling -> Nat], net : Int, settle : Nat]

\* The type invariant; settled cash, what is due and every position are never
\* negative, and the account never buys with more than settled by the morning.
TypeOK ==
  /\ today \in 1..Dates /\ runs \in 0..MaxRuns
  /\ rows \in [1..Dates -> RowType \cup {NoRow}]
  /\ param \in [Tuned -> 0..Grid] /\ hist \in [Tuned -> SUBSET (1..Dates)] /\ moved \in [Tuned -> Int]
  /\ pc \in {"idle", "trade", "check", "write", "history"}
  /\ acct \in AccountType
  /\ sigs \in Seq(Signal) /\ todo \subseteq Events(sigs)
  /\ DOMAIN open \subseteq DOMAIN sigs /\ \A i \in DOMAIN open : open[i] \in Nat
  /\ tuning \in [at : 1..Len(Sleeves), index : 0..Grid]

\* Cash is neither made nor lost (simulate): settled cash, proceeds not yet
\* settled and the cost of what is open always add up to the equity the day
\* began with and the profit taken since; what is bought is paid from the cash
\* of the morning, and proceeds settle on a later date.
CashKept ==
  pc = "trade" =>
    /\ acct.settled + Total(acct.due) + Total(open) = acct.equity + acct.net
    /\ acct.settled + Total(open) <= acct.opened
    /\ \A d \in 1..today : acct.due[d] = 0
    /\ \A i, j \in DOMAIN open : Held(sigs[i]) = Held(sigs[j]) => i = j

\* The account of a date is the one that the row before it left.
LeftBefore(d) ==
  LET earlier == {x \in 1..(d - 1) : rows[x] # NoRow}
      prev == rows[Max(earlier)]
  IN  IF earlier = {} THEN Fresh ELSE [equity |-> prev.end, settled |-> prev.settled, due |-> prev.due]

\* Every row starts with the equity the row before it ended with, and has opened with all the
\* money that had settled by its date, once (start_state, settled_cash).
RowsChain ==
  \A d \in 1..Dates : rows[d] # NoRow =>
    LET from == LeftBefore(d)
    IN  /\ rows[d].start = from.equity
        /\ rows[d].opened = from.settled + Total([x \in 1..d |-> from.due[x]])
        /\ \A x \in 1..d : rows[d].due[x] = 0

\* Each row begins where the row before it ended (p100.py start_state), however often a date is
\* run again: its equity, and all the money that had settled by then, once;
\* what settles later is still to come.
LedgerChains ==
  /\ RowsChain
  /\ \A d \in 1..Dates : rows[d] # NoRow =>
       \A x \in (d + 1)..(Dates + 3) : rows[d].due[x] >= LeftBefore(d).due[x]

\* P100's parameters move at most one step a date, however often the date is
\* run again or the tuning breaks off (tune_p100: has_sweep_for) -- but for a
\* kill or an exception between the parameters and their history row, which
\* KillAt leaves out.
OneStepADate == \A s \in Tuned : moved[s] \in -1..1
=============================================================================
