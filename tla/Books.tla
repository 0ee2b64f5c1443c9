-------------------------------- MODULE Books --------------------------------
(***************************************************************************)
(* Order execution and book keeping of the sleeves (chambers/engine.py     *)
(* SleeveBase, chambers/reconcile.py, the trade rows of chambers/store.py, *)
(* the scheduler's reconcile cache and flatten).                           *)
(*                                                                         *)
(* Several sleeves trade the same symbols.  The broker knows one net       *)
(* quantity per symbol; the store knows the open trade rows of every       *)
(* sleeve; each sleeve's process memory knows its positions.  One thread   *)
(* runs everything, so at most one order is being waited for (`job'), but  *)
(* the broker fills, cancels and fails on its own, and the process may     *)
(* stop anywhere.                                                          *)
(*                                                                         *)
(* Quantities are signed whole shares (long > 0).  Prices, fees, reasons   *)
(* and timestamps are left out.  Everything the broker or the operating    *)
(* system may do that the code treats as exceptional is a kind of fault;   *)
(* `faults' holds the kinds that happened: at most MaxFaults of them, each *)
(* once.                                                                   *)
(***************************************************************************)
EXTENDS Sequences, Reconcile

CONSTANTS
  Runners,     (* the sleeves in the scheduler's list order; the first is S0 *)
  Intraday,    (* those with eod_flatten; the others carry overnight         *)
  Symbols,
  Universe,    (* the symbols each sleeve trades                             *)
  MaxQty,      (* largest entry                                              *)
  MaxTrades,   (* bound: trade rows ever opened                              *)
  MaxFaults,   (* bound: faults in one behaviour, each of its own kind       *)
  FaultKinds   (* the faults that may happen, of AllFaults                   *)

Sleeves  == Range(Runners)
Executor == Runners[1]          (* adds the broker safety net, runs last     *)

ASSUME RunnersAssumption ==
  Runners \in Seq(Sleeves) /\ Runners # <<>> /\ Executor \in Intraday /\ Intraday \subseteq Sleeves
ASSUME SymbolsAssumption == Symbols # {} /\ Universe \in [Sleeves -> SUBSET Symbols]
AllFaults == {"submit", "leg", "poll", "unsettled", "lost", "killed", "positions",
              "cancel_all", "slow", "restart"}
ASSUME FaultsAssumption  == FaultKinds \subseteq AllFaults
ASSUME BoundsAssumption  == MaxQty \in Nat \ {0} /\ MaxTrades \in Nat /\ MaxFaults \in Nat

VARIABLES
  net,         (* broker: net quantity per symbol                            *)
  stray,       (* broker: unfilled shares of orders nobody waits for         *)
  trades,      (* store: open trade rows                                     *)
  nextId,      (* store: next trade id                                       *)
  positions,   (* memory: each sleeve's position per symbol                  *)
  job,         (* memory: the order being executed                           *)
  queue,       (* memory: sleeves still to flatten in the current flatten    *)
  todo,        (* memory: symbols the head of the queue still has to close   *)
  stage,       (* memory: "exits" or "cancel", the flatten's progress        *)
  flattened,   (* memory: sleeves whose end-of-day flatten is done           *)
  ready,       (* memory: sleeves whose preopen is done today                *)
  late,        (* memory: the process started after flatten_at               *)
  cache,       (* memory: the coordinator's last reconcile, reused for 60 s  *)
  up,          (* the process runs                                           *)
  faults

brokerVars == <<net, stray>>
storeVars  == <<trades, nextId>>
flatVars   == <<queue, todo, stage, flattened>>
dayVars    == <<ready, late, cache, up>>
vars == <<brokerVars, storeVars, positions, job, flatVars, dayVars, faults>>

NoPos == [id |-> 0, q |-> 0]
NoJob == [op |-> "idle", sl |-> Executor, sym |-> CHOOSE s \in Symbols : TRUE,
          want |-> 0, rest |-> 0, done |-> 0, sent |-> 0, got |-> 0, live |-> FALSE]
NoOrders == [buy |-> 0, sell |-> 0]

Abs(x)  == IF x < 0 THEN -x ELSE x
Unit(x) == IF x < 0 THEN -1 ELSE 1

(* An order of signed size q that is left at the broker.                   *)
Place(o, q) == IF q >= 0 THEN [o EXCEPT !.buy = @ + q] ELSE [o EXCEPT !.sell = @ - q]
Unfilled(o) == o.buy - o.sell

TradesOf(sym)  == {t \in trades : t.sym = sym}
HeldNet(sym)   == Quantity(TradesOf(sym))
Holding(sl)    == {sym \in Symbols : positions[sl][sym] # NoPos}
AsPosition(t)  == [id |-> t.id, q |-> t.q]

Idle       == job.op = "idle"
Flattening == queue # <<>>
Free       == up /\ Idle /\ ~Flattening

(* Every tick asks each sleeve for its plan, which opens the sleeve's day, *)
(* before any sleeve acts; S0 does not open a day past flatten_at.         *)
Opened == ready = IF late THEN Sleeves \ {Executor} ELSE Sleeves

Fault(kind) ==
  /\ kind \in FaultKinds \ faults /\ Cardinality(faults) < MaxFaults
  /\ faults' = faults \cup {kind}

(* "slow": the broker is asked for its positions while an order works.     *)
Quiet == \A sym \in Symbols : stray[sym] = NoOrders
AskPositions == IF Quiet THEN UNCHANGED faults ELSE Fault("slow")

Init ==
  /\ net = [sym \in Symbols |-> 0]
  /\ stray = [sym \in Symbols |-> NoOrders]
  /\ trades = {} /\ nextId = 1
  /\ positions = [sl \in Sleeves |-> [sym \in Symbols |-> NoPos]]
  /\ job = NoJob
  /\ queue = <<>> /\ todo = {} /\ stage = "exits" /\ flattened = {}
  /\ ready = {} /\ late = FALSE /\ cache = "none" /\ up = FALSE
  /\ faults = {}

-----------------------------------------------------------------------------
(* Executing an order: execute(), settle_order(), wait_fill().             *)

(* A single order may not flip the broker's net position: an order that    *)
(* would cross zero closes the held side first.                            *)
Crosses(held, signed) == held # 0 /\ held + signed # 0 /\ (held > 0) # (held + signed > 0)
Unsplit(held, signed)  == signed        (* mutant: one order for it all *)
FirstLeg(held, signed) == IF Crosses(held, signed) THEN -held ELSE signed

Send(op, sl, sym, signed) ==
  LET first == FirstLeg(HeldNet(sym), signed)
  IN  job' = [op |-> op, sl |-> sl, sym |-> sym, want |-> signed, rest |-> signed - first,
              done |-> 0, sent |-> first, got |-> 0, live |-> TRUE]

(* The fills of both legs together.                                        *)
LastLegFill == job.got                  (* mutant: the first leg forgotten  *)
Fill        == job.done + job.got

Watching  == job.op \in {"enter", "exit"}
LegFilled == job.got = job.sent

(* The broker fills some of the order being waited for.                    *)
BrokerFills ==
  /\ Watching /\ job.live
  /\ \E k \in 1..Abs(job.sent - job.got) :
       LET got == job.got + k * Unit(job.sent)
       IN  /\ net' = [net EXCEPT ![job.sym] = @ + k * Unit(job.sent)]
           /\ job' = [job EXCEPT !.got = got, !.live = got # job.sent]
  /\ UNCHANGED <<stray, storeVars, positions, flatVars, dayVars, faults>>

(* The order ends short of its size: rejected, expired, or cancelled by    *)
(* settle_order() after FILL_TIMEOUT_S + FILL_SETTLE_S.                    *)
BrokerEnds ==
  /\ Watching /\ job.live
  /\ job' = [job EXCEPT !.live = FALSE]
  /\ UNCHANGED <<brokerVars, storeVars, positions, flatVars, dayVars, faults>>

(* The first leg of a split order filled; the rest is submitted.           *)
NextLeg ==
  /\ up /\ Watching /\ ~job.live /\ LegFilled /\ job.rest # 0
  /\ job' = [op |-> job.op, sl |-> job.sl, sym |-> job.sym, want |-> job.want, rest |-> 0,
             done |-> job.got, sent |-> job.rest, got |-> 0, live |-> TRUE]
  /\ UNCHANGED <<brokerVars, storeVars, positions, flatVars, dayVars, faults>>

(* ... or its submission raises: the exception leaves execute(), and the   *)
(* caller records nothing of the leg that filled.                          *)
NextLegRejected ==
  /\ up /\ Watching /\ ~job.live /\ LegFilled /\ job.rest # 0
  /\ Fault("leg")
  /\ job' = NoJob
  /\ UNCHANGED <<brokerVars, storeVars, positions, flatVars, dayVars>>

(* order_status() raises (or the submission's reply is lost): the          *)
(* exception ends the entry or exit, the order stays with the broker.      *)
PollRaises ==
  /\ up /\ Watching
  /\ Fault("poll")
  /\ job' = NoJob
  /\ stray' = [stray EXCEPT ![job.sym] = IF job.live THEN Place(@, job.sent - job.got) ELSE @]
  /\ UNCHANGED <<net, storeVars, positions, flatVars, dayVars>>

-----------------------------------------------------------------------------
(* Entries: enter(), open_position().                                      *)

MayEnter(sl, sym)      == positions[sl][sym] = NoPos

Enter(sl, sym, signed) ==
  /\ Free /\ Opened /\ sl \in ready \ flattened /\ sym \in Universe[sl]
  /\ MayEnter(sl, sym)
  /\ nextId <= MaxTrades
  /\ Send("enter", sl, sym, signed)
  /\ UNCHANGED <<brokerVars, storeVars, positions, flatVars, dayVars, faults>>

(* The settled entry becomes a trade of the given size, if it has one.     *)
OpenTrade(q) ==
  /\ trades' = trades \cup {[id |-> nextId, sl |-> job.sl, sym |-> job.sym, q |-> q]}
  /\ positions' = [positions EXCEPT ![job.sl][job.sym] = [id |-> nextId, q |-> q]]
  /\ nextId' = nextId + 1
RecordAny(q)   == OpenTrade(q)          (* mutant: an empty fill recorded   *)
RecordEntry(q) == IF q = 0 THEN UNCHANGED <<trades, nextId, positions>> ELSE OpenTrade(q)

EntrySettled ==
  /\ up /\ job.op = "enter" /\ ~job.live /\ ~(LegFilled /\ job.rest # 0)
  /\ RecordEntry(Fill)
  /\ job' = NoJob
  /\ UNCHANGED <<brokerVars, flatVars, dayVars, faults>>

(* The order is still working after the cancel attempt: the full size is   *)
(* tracked, although the order may never fill.                             *)
EntryUnsettled ==
  /\ up /\ job.op = "enter" /\ job.live
  /\ Fault("unsettled")
  /\ RecordEntry(job.want)
  /\ stray' = [stray EXCEPT ![job.sym] = Place(@, job.sent - job.got)]
  /\ job' = NoJob
  /\ UNCHANGED <<net, flatVars, dayVars>>

-----------------------------------------------------------------------------
(* Exits: close_position(), _record_close(), split_trade(), close_trade(). *)

Exit(sl, sym) ==
  /\ Free /\ Opened /\ sl \in ready \ flattened
  /\ positions[sl][sym] # NoPos
  /\ Send("exit", sl, sym, -positions[sl][sym].q)
  /\ UNCHANGED <<brokerVars, storeVars, positions, flatVars, dayVars, faults>>

Position == positions[job.sl][job.sym]

DropPosition ==                         (* mutant: the row is not closed    *)
  /\ UNCHANGED trades
  /\ positions' = [positions EXCEPT ![job.sl][job.sym] = NoPos]
CloseWhole ==
  /\ trades' = {t \in trades : t.id # Position.id}
  /\ positions' = [positions EXCEPT ![job.sl][job.sym] = NoPos]

(* Nothing filled: the position stays open.  All filled: it is closed.     *)
ExitSettled ==
  /\ up /\ job.op = "exit" /\ ~job.live /\ ~(LegFilled /\ job.rest # 0)
  /\ \/ Fill = 0 /\ UNCHANGED <<trades, positions>>
     \/ Fill = job.want /\ CloseWhole
  /\ job' = NoJob
  /\ UNCHANGED <<brokerVars, nextId, flatVars, dayVars, faults>>

(* Part filled: split_trade() commits the row split ...                    *)
ExitSplits ==
  /\ up /\ job.op = "exit" /\ ~job.live /\ ~(LegFilled /\ job.rest # 0)
  /\ Fill \notin {0, job.want}
  /\ trades' = {t \in trades : t.id # Position.id}
       \cup {[id |-> Position.id, sl |-> job.sl, sym |-> job.sym, q |-> -Fill],
             [id |-> nextId, sl |-> job.sl, sym |-> job.sym, q |-> Position.q + Fill]}
  /\ nextId' = nextId + 1
  /\ job' = [job EXCEPT !.op = "split"]
  /\ UNCHANGED <<brokerVars, positions, flatVars, dayVars, faults>>

(* ... and _record_close() closes the filled part in a second commit; the  *)
(* remainder becomes the position.                                         *)
RestInClosedRow == Position.id          (* mutant: the remainder's old row  *)
RestRow         == nextId - 1

SplitRecorded ==
  /\ up /\ job.op = "split"
  /\ trades' = {t \in trades : t.id # Position.id}
  /\ positions' = [positions EXCEPT ![job.sl][job.sym] =
                     [id |-> RestRow, q |-> @.q + Fill]]
  /\ job' = NoJob
  /\ UNCHANGED <<brokerVars, nextId, flatVars, dayVars, faults>>

(* Still working after the cancel attempt: the whole record is closed.     *)
ExitUnsettled ==
  /\ up /\ job.op = "exit" /\ job.live
  /\ Fault("unsettled")
  /\ CloseWhole
  /\ stray' = [stray EXCEPT ![job.sym] = Place(@, job.sent - job.got)]
  /\ job' = NoJob
  /\ UNCHANGED <<net, nextId, flatVars, dayVars>>

-----------------------------------------------------------------------------
(* Orders nobody waits for: given up, left behind by a restart, orphan     *)
(* and safety-net orders.                                                  *)

StrayFills(sym) ==
  /\ \/ /\ stray[sym].buy > 0
        /\ net' = [net EXCEPT ![sym] = @ + 1]
        /\ stray' = [stray EXCEPT ![sym].buy = @ - 1]
     \/ /\ stray[sym].sell > 0
        /\ net' = [net EXCEPT ![sym] = @ - 1]
        /\ stray' = [stray EXCEPT ![sym].sell = @ - 1]
  /\ UNCHANGED <<storeVars, positions, job, flatVars, dayVars, faults>>

StrayDies(sym) ==
  /\ stray[sym] # NoOrders
  /\ Fault("lost")
  /\ stray' = [stray EXCEPT ![sym] = NoOrders]
  /\ UNCHANGED <<net, storeVars, positions, job, flatVars, dayVars>>

-----------------------------------------------------------------------------
(* Flatten: SleeveBase.flatten(), _safety_net(), Scheduler.flatten_all().  *)

Begin(q) == queue' = q /\ todo' = Holding(Head(q).sl) /\ stage' = "exits"

(* Close minus 5 minutes: the sleeve flattens itself, with the safety net. *)
EodFlatten(sl) ==
  /\ Free /\ sl \in Intraday \ flattened
  /\ Opened \/ (late /\ sl \in ready \cup {Executor})
  /\ Begin(<<[sl |-> sl, safety |-> TRUE, eod |-> TRUE]>>)
  /\ UNCHANGED <<brokerVars, storeVars, positions, job, flattened, dayVars, faults>>

(* The dashboard's "Flatten now": every sleeve, S0 last and only S0 with   *)
(* the safety net.  How the request is stored and read is in Scheduler.    *)
Everyone ==
  LET n == Len(Runners)
  IN  [i \in 1..n |-> IF i < n THEN [sl |-> Runners[i + 1], safety |-> FALSE, eod |-> FALSE]
                               ELSE [sl |-> Executor, safety |-> TRUE, eod |-> FALSE]]

FlattenAll ==
  /\ Free
  /\ Begin(Everyone)
  /\ UNCHANGED <<brokerVars, storeVars, positions, job, flattened, dayVars, faults>>

Insisted(sym)  == UNCHANGED todo        (* mutant: exits tried until filled *)
Attempted(sym) == todo' = todo \ {sym}

FlattenExit(sym) ==
  /\ up /\ Idle /\ Flattening /\ stage = "exits" /\ sym \in todo
  /\ Send("exit", Head(queue).sl, sym, -positions[Head(queue).sl][sym].q)
  /\ Attempted(sym)
  /\ UNCHANGED <<brokerVars, storeVars, positions, queue, stage, flattened, dayVars, faults>>

FlattenExitRejected(sym) ==
  /\ up /\ Idle /\ Flattening /\ stage = "exits" /\ sym \in todo
  /\ Fault("submit")
  /\ Attempted(sym)
  /\ UNCHANGED <<brokerVars, storeVars, positions, job, queue, stage, flattened, dayVars>>

(* What the broker holds beyond the other sleeves' open trades.  A symbol  *)
(* the broker reports no position in is not looked at.                     *)
Others(sl)      == {t \in trades : t.sl # sl}
WholeNet(sl, sym) == net[sym]           (* mutant: all the broker holds     *)
Excess(sl, sym) ==
  IF net[sym] = 0 THEN 0 ELSE net[sym] - Quantity({t \in Others(sl) : t.sym = sym})

(* The sleeve's record that an excess in sym closes.                       *)
Covered(sl, sym) ==
  LET own == {t \in trades : t.sl = sl /\ t.sym = sym}
  IN  IF positions[sl][sym] # NoPos THEN positions[sl][sym].id
      ELSE IF own # {} THEN First(own).id ELSE 0

(* With nobody else holding anything, close_all_positions() cancels every  *)
(* working order first; otherwise one order per excess, which the broker   *)
(* may refuse, and which nobody waits for.  The code sends and closes them *)
(* one by one: here they are one step, with no kill and no fill between.   *)
SafetyNet ==
  LET sl     == Head(queue).sl
      alone  == Others(sl) = {}
      excess == {sym \in Symbols : Excess(sl, sym) # 0}
      before == [sym \in Symbols |-> IF alone THEN NoOrders ELSE stray[sym]]
  IN  /\ up /\ Idle /\ Flattening /\ Head(queue).safety /\ todo = {} /\ stage = "exits"
      /\ \E refused \in IF alone THEN {{}} ELSE SUBSET excess :
           /\ IF refused = {} THEN AskPositions ELSE Quiet /\ Fault("submit")
           /\ stray' = [sym \in Symbols |-> IF sym \in refused THEN before[sym]
                                            ELSE Place(before[sym], -Excess(sl, sym))]
           /\ trades' = {t \in trades : t.id \notin {Covered(sl, sym) : sym \in excess \ refused}}
           /\ positions' = [positions EXCEPT ![sl] =
                              [sym \in Symbols |-> IF sym \in excess \ refused THEN NoPos ELSE @[sym]]]
      /\ stage' = "cancel"
      /\ UNCHANGED <<net, nextId, job, queue, todo, flattened, dayVars>>

(* positions() or close_all_positions() raises: the net does nothing.      *)
SafetyNetRaises ==
  /\ up /\ Idle /\ Flattening /\ Head(queue).safety /\ todo = {} /\ stage = "exits"
  /\ Fault("positions")
  /\ stage' = "cancel"
  /\ UNCHANGED <<brokerVars, storeVars, positions, job, queue, todo, flattened, dayVars>>

(* The flatten of one sleeve ends: positions whose row is closed are       *)
(* dropped, and the next sleeve's turn begins.                             *)
TurnEnds ==
  LET sl   == Head(queue).sl
      open == {t.id : t \in trades}
      kept == [sym \in Symbols |-> IF positions[sl][sym].id \in open THEN positions[sl][sym] ELSE NoPos]
  IN  /\ positions' = [positions EXCEPT ![sl] = kept]
      /\ queue' = Tail(queue)
      /\ todo' = IF Tail(queue) = <<>> THEN {} ELSE Holding(Head(Tail(queue)).sl)
      /\ stage' = "exits"
      /\ flattened' = IF Head(queue).eod THEN flattened \cup {sl} ELSE flattened

(* cancel_all() kills whatever still works at the broker, the safety net's *)
(* own orders included.                                                    *)
CancelAll ==
  /\ up /\ Idle /\ Flattening /\ stage = "cancel"
  /\ IF Quiet THEN UNCHANGED faults ELSE Fault("killed")
  /\ stray' = [sym \in Symbols |-> NoOrders]
  /\ TurnEnds
  /\ UNCHANGED <<net, storeVars, job, dayVars>>

CancelAllRaises ==
  /\ up /\ Idle /\ Flattening /\ stage = "cancel"
  /\ Fault("cancel_all")
  /\ TurnEnds
  /\ UNCHANGED <<brokerVars, storeVars, job, dayVars>>

(* A sleeve that flattens without the safety net.                          *)
TurnPasses ==
  /\ up /\ Idle /\ Flattening /\ ~Head(queue).safety /\ todo = {} /\ stage = "exits"
  /\ TurnEnds
  /\ UNCHANGED <<brokerVars, storeVars, job, dayVars, faults>>

-----------------------------------------------------------------------------
(* Reconcile, restart, the day.                                            *)

Outcome(sym) == Decide(TradesOf(sym), net[sym])

(* One pass over every sleeve: adopt, close the missing, flatten orphans.  *)
(* An orphan order the broker refuses is one that dies unfilled.  The code *)
(* commits each missing trade and sends each orphan order by itself: here  *)
(* they are one step, with no kill and no fill between them.               *)
ReconcilePass ==
  /\ trades' = {t \in trades : t \in Outcome(t.sym).adopt}
  /\ positions' = [sl \in Sleeves |-> [sym \in Symbols |->
       LET mine == {t \in Outcome(sym).adopt : t.sl = sl}
       IN  IF mine = {} THEN NoPos ELSE AsPosition(Last(mine))]]
  /\ stray' = [sym \in Symbols |-> Place(stray[sym], -Outcome(sym).orphan)]
  /\ cache' = "ok"
  /\ AskPositions

(* broker.positions() raises: an empty result, cached like any other.      *)
ReconcileRaises ==
  /\ Fault("positions")
  /\ cache' = "failed"
  /\ UNCHANGED <<trades, positions, stray>>

CacheExpires ==
  /\ cache # "none" /\ cache' = "none"
  /\ UNCHANGED <<brokerVars, storeVars, positions, job, flatVars, ready, late, up, faults>>

Startup ==
  /\ ~up /\ up' = TRUE
  /\ late' \in BOOLEAN
  /\ ReconcilePass \/ ReconcileRaises
  /\ UNCHANGED <<net, nextId, job, flatVars, ready>>

Preopen(sl) ==
  /\ Free /\ sl \notin ready \cup flattened /\ (late => sl # Executor)
  /\ ready' = ready \cup {sl}
  /\ \/ cache = "none" /\ (ReconcilePass \/ ReconcileRaises)
     \/ cache # "none" /\ UNCHANGED <<trades, positions, stray, cache, faults>>
  /\ UNCHANGED <<net, nextId, job, flatVars, late, up>>

(* The next session; day orders are gone by then, filled or expired.       *)
NewDay ==
  /\ Free /\ flattened = Intraday
  /\ Quiet
  /\ ready' = {} /\ flattened' = {} /\ late' = FALSE /\ cache' = "none"
  /\ UNCHANGED <<brokerVars, storeVars, positions, job, queue, todo, stage, up, faults>>

(* The process stops: memory is lost, a working order stays at the broker. *)
Crash ==
  /\ up /\ up' = FALSE
  /\ Fault("restart")
  /\ stray' = [stray EXCEPT ![job.sym] = IF Watching /\ job.live THEN Place(@, job.sent - job.got) ELSE @]
  /\ positions' = [sl \in Sleeves |-> [sym \in Symbols |-> NoPos]]
  /\ job' = NoJob
  /\ queue' = <<>> /\ todo' = {} /\ stage' = "exits" /\ flattened' = {}
  /\ ready' = {} /\ late' = FALSE /\ cache' = "none"
  /\ UNCHANGED <<net, storeVars>>

-----------------------------------------------------------------------------
Sizes == {q \in -MaxQty..MaxQty : q # 0}

Settle  == EntrySettled \/ ExitSettled \/ ExitSplits \/ SplitRecorded \/ NextLeg
Unsettle == NextLegRejected \/ PollRaises \/ EntryUnsettled \/ ExitUnsettled
Flatten ==
  \/ \E sym \in Symbols : FlattenExit(sym)
  \/ SafetyNet \/ CancelAll \/ TurnPasses
FlattenFails ==
  \/ \E sym \in Symbols : FlattenExitRejected(sym)
  \/ SafetyNetRaises \/ CancelAllRaises

Next ==
  \/ \E sl \in Sleeves, sym \in Symbols : \E q \in Sizes : Enter(sl, sym, q)
  \/ \E sl \in Sleeves, sym \in Symbols : Exit(sl, sym)
  \/ BrokerFills \/ BrokerEnds
  \/ Settle \/ Unsettle
  \/ \E sym \in Symbols : StrayFills(sym) \/ StrayDies(sym)
  \/ \E sl \in Sleeves : EodFlatten(sl) \/ Preopen(sl)
  \/ FlattenAll \/ Flatten \/ FlattenFails
  \/ Startup \/ CacheExpires \/ NewDay \/ Crash

Spec == Init /\ [][Next]_vars

(* The thread keeps running: it polls the order it waits for until the     *)
(* order is terminal or its waiting time is over, then books the outcome   *)
(* and goes on with the flatten; launchd restarts a process that stopped.  *)
Thread  == BrokerFills \/ BrokerEnds \/ Settle \/ Unsettle \/ Flatten \/ FlattenFails
FairSpec == Spec /\ WF_vars(Thread) /\ WF_vars(Startup)
            /\ \A sym \in Symbols : WF_vars(StrayFills(sym))

-----------------------------------------------------------------------------
Trades    == [id : Nat \ {0}, sl : Sleeves, sym : Symbols, q : Int \ {0}]
Positions == [id : Nat, q : Int]
Orders    == [buy : Nat, sell : Nat]
Jobs      == [op : {"idle", "enter", "exit", "split"}, sl : Sleeves, sym : Symbols, want : Int,
              rest : Int, done : Int, sent : Int, got : Int, live : BOOLEAN]
Turns     == [sl : Sleeves, safety : BOOLEAN, eod : BOOLEAN]

TypeOK ==
  /\ net \in [Symbols -> Int] /\ stray \in [Symbols -> Orders]
  /\ trades \subseteq Trades /\ nextId \in Nat \ {0}
  /\ positions \in [Sleeves -> [Symbols -> Positions]]
  /\ job \in Jobs
  /\ queue \in Seq(Turns) /\ todo \subseteq Symbols
  /\ stage \in {"exits", "cancel"} /\ flattened \subseteq Sleeves
  /\ ready \subseteq Sleeves /\ late \in BOOLEAN /\ cache \in {"none", "ok", "failed"}
  /\ up \in BOOLEAN /\ faults \subseteq FaultKinds

(* Conserved: the net quantity at the broker and the orders still working  *)
(* add up, symbol by symbol, to the open trades of all sleeves and the     *)
(* part of the current order not booked yet, through partial fills, split  *)
(* orders, split trades, flattens, reconciles, refused orders and failed   *)
(* position queries: so long as no order's outcome became unknown.         *)
Known == faults \subseteq {"submit", "positions", "cancel_all"}
InFlight(sym) == IF ~Idle /\ job.sym = sym THEN job.done + job.got ELSE 0
Balanced == \A sym \in Symbols : net[sym] + Unfilled(stray[sym]) = HeldNet(sym) + InFlight(sym)
Conserved == Known => Balanced

(* NoOrderFlips (execute()'s docstring "a single order may not flip a      *)
(* position"): with no other order working on the symbol, the order being  *)
(* executed can never carry the broker's net position from long to short   *)
(* or back, whichever sleeves hold the symbol.                             *)
NoOrderFlips ==
  Known /\ job.live /\ stray[job.sym] = NoOrders => ~Crosses(net[job.sym], job.sent - job.got)

(* PositionsBacked: every position in memory stands for an open trade row  *)
(* of the same sleeve, symbol and quantity, after any partial exit,        *)
(* adoption, flatten or fault, so no exit is ever sent for shares the      *)
(* books do not hold.                                                      *)
Backs(t, sl, sym) ==
  /\ t.id = positions[sl][sym].id /\ t.sl = sl /\ t.sym = sym
  /\ t.q = positions[sl][sym].q \/ (job.op = "split" /\ job.sl = sl /\ job.sym = sym)
PositionsBacked ==
  \A sl \in Sleeves, sym \in Symbols :
    positions[sl][sym] # NoPos => \E t \in trades : Backs(t, sl, sym)

(* BackedInv: what makes PositionsBacked inductive.  Row ids are unique;   *)
(* a flatten only has positions of its sleeve left to close; the exit      *)
(* being executed is for the whole of a position, and in the window of a   *)
(* split the remainder's row is the newest.                                *)
RowsUnique ==
  /\ \A t \in trades : t.id < nextId
  /\ \A t, u \in trades : t.id = u.id => t = u
TodoHeld ==
  /\ todo # {} => Flattening
  /\ \A sym \in todo : positions[Head(queue).sl][sym] # NoPos
ExitHeld ==
  job.op \in {"exit", "split"} =>
    /\ Position # NoPos
    /\ job.want = -Position.q
    /\ Flattening => job.sl = Head(queue).sl /\ job.sym \notin todo
SplitHeld ==
  job.op = "split" =>
    /\ nextId - 1 > Position.id
    /\ [id |-> nextId - 1, sl |-> job.sl, sym |-> job.sym, q |-> Position.q + Fill] \in trades
DownIdle == ~up => Idle /\ ~Flattening
BackedInv == DownIdle /\ RowsUnique /\ TodoHeld /\ ExitHeld /\ SplitHeld /\ PositionsBacked

(* SharesInv: what makes Conserved and NoOrderFlips inductive.  An entry   *)
(* is for a sleeve without a position; the order being executed is a first *)
(* leg cut at zero, or the rest from zero on, and its fills never exceed   *)
(* it; and while every outcome is known, each open trade is the position   *)
(* of its sleeve, or one of the two rows of a split being recorded.        *)
ClosedPart == [id |-> Position.id, sl |-> job.sl, sym |-> job.sym, q |-> -Fill]
RestPart   == [id |-> nextId - 1, sl |-> job.sl, sym |-> job.sym, q |-> Position.q + Fill]
Splitting(t) == job.op = "split" /\ t \in {ClosedPart, RestPart}
EachHeld   == \A t \in trades : positions[t.sl][t.sym] = AsPosition(t) \/ Splitting(t)
SplitRows  == job.op = "split" => {ClosedPart, RestPart} \subseteq trades
EnterEmpty == job.op = "enter" => Position = NoPos
WithinLeg  == job.got \in 0..job.sent \cup job.sent..0
FirstSent  == /\ job.done = 0 /\ job.sent = FirstLeg(HeldNet(job.sym), job.want)
              /\ job.rest = job.want - job.sent
RestSent   == job.rest = 0 /\ HeldNet(job.sym) + job.done = 0
LegsCut    == Watching => WithinLeg /\ (FirstSent \/ RestSent)
LiveWatched == job.live => Watching
OrderInv   == EnterEmpty /\ LegsCut /\ LiveWatched
SharesInv  == IsFiniteSet(trades) /\ OrderInv /\ (Known => Balanced /\ EachHeld /\ SplitRows)

(* OneOpenTrade (PHASE1A_SPEC.md 2.4): a running sleeve has at most one    *)
(* open trade per symbol, also after a restart that finds a trade split    *)
(* but not closed, or an order still working at the broker.                *)
OneOpenTrade ==
  up /\ job.op # "split" =>
    \A t, u \in trades : t.sl = u.sl /\ t.sym = u.sym => t = u

(* NothingForgotten: once a sleeve has opened its day, each of its open    *)
(* trades is one of its positions, so its exit rules are applied to it.    *)
NothingForgotten ==
  job.op # "split" =>
    \A t \in trades : t.sl \in ready => positions[t.sl][t.sym] = AsPosition(t)

(* HeldInv: what makes OneOpenTrade and NothingForgotten inductive, for a  *)
(* process that is never restarted, or restarted with nothing else going   *)
(* wrong but refused and slow orders.  In a running process every open     *)
(* trade is the position of its sleeve; one that stopped leaves two rows   *)
(* of a sleeve and symbol only if the broker holds something else, so that *)
(* they are not adopted together.                                          *)
RestartAlone == "restart" \in FaultKinds => FaultKinds \subseteq {"restart", "slow", "submit"}
CancelIdle   == stage = "cancel" => Flattening /\ Idle
UpHeld       == up => EachHeld
DownFresh    == ~up => ready = {} /\ ("restart" \in faults \/ trades = {})
TwinsDiffer  ==
  ~up => \A t, u \in trades : t.sl = u.sl /\ t.sym = u.sym /\ t # u =>
           stray[t.sym] = NoOrders /\ net[t.sym] # HeldNet(t.sym)
StrayOnlyNet ==
  "restart" \in FaultKinds \ faults => "slow" \notin faults /\ (stage = "exits" => Quiet)
HeldInv == CancelIdle /\ UpHeld /\ DownFresh /\ TwinsDiffer /\ StrayOnlyNet

(* OthersSpared: a flatten closes no trade of another sleeve, and each     *)
(* order its safety net sends leaves the broker, where it held something,  *)
(* with exactly the other sleeves' quantity.                               *)
SparesRows == Others(Head(queue).sl) \subseteq trades'
SparesShares ==
  \A sym \in Symbols : net[sym] # 0 /\ stray[sym] = NoOrders /\ stray'[sym] # NoOrders =>
    net[sym] + Unfilled(stray'[sym]) = Quantity({t \in Others(Head(queue).sl) : t.sym = sym})
OthersSpared ==
  [][Flattening /\ Flattening' =>
       SparesRows /\ (stage = "exits" /\ stage' = "cancel" => SparesShares)]_vars

(* ReconcileExplains: a reconcile that hears from the broker leaves books  *)
(* the broker agrees with once the orphan orders fill, in every symbol     *)
(* with no order left working before, and with no open trade or several: a *)
(* single trade is adopted on its sign alone (DECISIONS.md:175).           *)
ReconcileExplains ==
  [][cache # "ok" /\ cache' = "ok" =>
       \A sym \in Symbols :
         stray[sym] = NoOrders /\ Cardinality(TradesOf(sym)) # 1 =>
           net[sym] + Unfilled(stray'[sym]) = Quantity({t \in trades' : t.sym = sym})]_vars

(* FlattenedClean (README "Market-out every open trade"; flatten()'s       *)
(* docstring): once the end-of-day flatten of a sleeve is over, none of    *)
(* its trades is open.                                                     *)
FlattenedClean == \A t \in trades : t.sl \notin flattened

(* FlattenEnds: a flatten that began comes to its end, whatever the broker *)
(* answers: no exit is waited for or retried forever.                      *)
FlattenEnds == Flattening ~> ~Flattening
==============================================================================
