-------------------------------- MODULE Risk --------------------------------
(***************************************************************************)
(* The portfolio's circuit breakers, shared by every sleeve                *)
(* (chambers/risk.py Portfolio, entry_gate() and risk_tick() of engine.py, *)
(* the risk_days rows of store.py), and the size of an entry.              *)
(*                                                                         *)
(* The account's equity moves as the market likes.  The portfolio asks for *)
(* it at most once per cache time, and not every time with success; what   *)
(* it saw last stays in memory.  The equity at the open and the halt are   *)
(* kept in the store by date.  An entry is gated first and recorded as a   *)
(* trade only when its order has settled, at another price and perhaps for *)
(* fewer shares.                                                           *)
(*                                                                         *)
(* Money is in whole units and percentages are integers.  An entry of S2   *)
(* is fractional: its notional is any of CryptoNotionals.                  *)
(***************************************************************************)
EXTENDS Integers, FiniteSets, FiniteSetsExt, Functions

CONSTANTS
  EquitySleeves, CryptoSleeves, S0,
  Equities,                    (* the equity the account may have            *)
  LossPct, MaxSameSide,        (* daily_loss_pct in percent, max_same_side   *)
  Offers,                      (* [price, stop] of a signal; 0 for no stop   *)
  Capitals,                    (* what a sleeve may have                     *)
  RiskPct, MaxNotionalPct,     (* of its capital, in percent                 *)
  FixedNotional,               (* S0's notional_per_trade                    *)
  CryptoNotionals,
  Slip,                        (* how far a fill's price may be from the signal's *)
  MaxTrades                    (* bound: open trades                         *)

Sleeves == EquitySleeves \cup CryptoSleeves
Sides   == {"long", "short"}
None    == -1                  (* no equity seen yet, or none recorded       *)

ASSUME SleevesAssumption == S0 \in EquitySleeves /\ EquitySleeves \cap CryptoSleeves = {}
ASSUME MoneyAssumption ==
  /\ Equities \subseteq Nat \ {0} /\ Capitals \subseteq Nat \ {0}
  /\ Offers \subseteq [price : Nat \ {0}, stop : Nat]
  /\ CryptoNotionals \subseteq Nat \ {0}
  /\ {LossPct, RiskPct, MaxNotionalPct, FixedNotional, Slip} \subseteq Nat
ASSUME BoundsAssumption == MaxSameSide \in Nat /\ MaxTrades \in Nat

VARIABLES
  equity,      (* the account's equity at the broker                         *)
  session,     (* before, open or over, of today                             *)
  memory,      (* the portfolio's cache: [eq, fresh]                         *)
  row,         (* store: today's risk_days row, [open, halted]               *)
  telling,     (* the halt is recorded and its alert not sent yet            *)
  told,        (* history: daily_loss alerts today                           *)
  order,       (* the entry being executed                                   *)
  trades,      (* store: open trades of all sleeves                          *)
  last         (* history: the equity seen and the quantity of the last entry sent *)

account == <<equity, session>>
vars == <<account, memory, row, telling, told, order, trades, last>>

NoMemory == [eq |-> None, fresh |-> FALSE]
NoRow    == [open |-> None, halted |-> FALSE]
NoOrder  == [sl |-> S0, side |-> "long", qty |-> 0, price |-> 0, notional |-> 0, stop |-> 0,
             capital |-> 0, seen |-> None]
Idle     == order = NoOrder /\ ~telling

Init ==
  /\ equity \in Equities /\ session = "before"
  /\ memory = NoMemory /\ row = NoRow /\ telling = FALSE /\ told = 0
  /\ order = NoOrder /\ trades = {} /\ last = [seen |-> None, qty |-> 0]

-----------------------------------------------------------------------------
(* equity(): the cached value while it is young; else account() answers,   *)
(* or fails, and the last value seen is returned.                          *)
Lookup(m) ==
  IF m.eq # None /\ m.fresh THEN {m}
  ELSE {[eq |-> equity, fresh |-> TRUE], m}

(* open_equity(): recorded the first time a value is there.                *)
RecordOpen(r, m) ==
  IF r.open # None \/ m.eq = None THEN r ELSE [r EXCEPT !.open = m.eq]

Loses(eq, open) == (eq - open) * 100 < -(LossPct * open)
Tripped(r, m)   == r.open # None /\ m.eq # None /\ Loses(m.eq, r.open)

(* check_daily_loss(): what it may leave in memory and in the row, and     *)
(* whether entries are halted.  The equity is asked for twice, once for    *)
(* the open and once for now.                                              *)
NeverHalted(r) == FALSE                 (* mutant *)
Halted(r)      == r.halted

Unchecked(halt) == [memory |-> memory, row |-> row, halt |-> halt, trips |-> FALSE]
Checked(r, m) ==
  [memory |-> m, row |-> [r EXCEPT !.halted = @ \/ Tripped(r, m)],
   halt |-> Tripped(r, m), trips |-> Tripped(r, m)]
FirstLookup == IF row.open = None THEN Lookup(memory) ELSE {memory}
Check ==
  CASE session # "open"                  -> {Unchecked(FALSE)}
    [] session = "open" /\ Halted(row)   -> {Unchecked(TRUE)}
    [] session = "open" /\ ~Halted(row)  ->
         UNION {{Checked(RecordOpen(row, m), n) : n \in Lookup(m)} : m \in FirstLookup}

(* What a check leaves behind.  The halt is committed before its alert.    *)
After(c) == row' = c.row /\ telling' = c.trips

(* Every cycle of every sleeve looks at the daily loss.                    *)
RiskTick ==
  /\ Idle
  /\ \E c \in Check : After(c) /\ memory' = c.memory
  /\ UNCHANGED <<account, told, order, trades, last>>

Tell ==
  /\ telling /\ telling' = FALSE /\ told' = told + 1
  /\ UNCHANGED <<account, memory, row, order, trades, last>>

-----------------------------------------------------------------------------
(* The size of an entry.                                                   *)

PositionQty(price) == IF FixedNotional \div price > 1 THEN FixedNotional \div price ELSE 1

Raw(capital, stop)       == (capital * RiskPct) \div (100 * stop)
CapShares(capital, price) == (capital * MaxNotionalPct) \div (100 * price)
AtLeastOne(n)            == IF n > 1 THEN n ELSE 1
Uncapped(capital, stop, price) == IF stop = 0 THEN 0 ELSE AtLeastOne(Raw(capital, stop))   (* mutant *)
RiskQty(capital, stop, price) ==
  IF stop = 0 \/ CapShares(capital, price) < 1 THEN 0
  ELSE IF AtLeastOne(Raw(capital, stop)) < CapShares(capital, price)
       THEN AtLeastOne(Raw(capital, stop)) ELSE CapShares(capital, price)

(* What a sleeve may bring to the gate: S0 a fixed notional, S2 a fraction *)
(* of a coin, the others a size by the stop and their capital.             *)
Entry(sl, s, q, o, c) == [sl |-> sl, side |-> s, qty |-> q, price |-> o.price, notional |-> q * o.price,
                          stop |-> o.stop, capital |-> c, seen |-> None]
Entries(sl) ==
  CASE sl \in CryptoSleeves -> {Entry(sl, "long", 1, [price |-> n, stop |-> 0], 0) : n \in CryptoNotionals}
    [] sl = S0 -> {Entry(sl, s, PositionQty(o.price), [o EXCEPT !.stop = 0], 0) : s \in Sides, o \in Offers}
    [] OTHER -> {Entry(sl, s, RiskQty(c, o.stop, o.price), o, c) : s \in Sides, o \in Offers, c \in Capitals}

-----------------------------------------------------------------------------
(* allow_entry(): the daily loss, the side, the exposure.                  *)

Exposure(S)  == SumFunctionOnSet([t \in S |-> t.qty * t.price], S)
Gross        == Exposure(trades)
OnSide(side) == {t \in trades : t.side = side}

NotFull(side)    == Cardinality(OnSide(side)) <= MaxSameSide         (* mutant *)
SideFree(side)   == Cardinality(OnSide(side)) < MaxSameSide
NetFits(n, m)    ==                                                  (* mutant *)
  m.eq # None => Exposure(OnSide("long")) - Exposure(OnSide("short")) + n <= m.eq
Fits(n, m)       == m.eq # None => Gross + n <= m.eq

MayTrade(sl) == sl \in EquitySleeves => session = "open"

Gate(sl, e) ==
  /\ Idle /\ MayTrade(sl) /\ e.qty > 0 /\ Cardinality(trades) < MaxTrades
  /\ \E c \in IF sl \in EquitySleeves THEN Check ELSE {Unchecked(FALSE)} :
       /\ After(c)
       /\ IF c.halt \/ ~SideFree(e.side) THEN memory' = c.memory /\ UNCHANGED <<order, last>>
          ELSE \E m \in Lookup(c.memory) :
                 /\ memory' = m
                 /\ IF Fits(e.notional, m)
                    THEN order' = [e EXCEPT !.seen = m.eq] /\ last' = [seen |-> m.eq, qty |-> e.qty]
                    ELSE UNCHANGED <<order, last>>
  /\ UNCHANGED <<account, told, trades>>

(* The order settles: nothing, some or all of it filled.                   *)
NewTrade(q, p)    == [id |-> CHOOSE i \in 1..MaxTrades : \A t \in trades : t.id # i,
                      side |-> order.side, qty |-> q, price |-> p]
RecordAny(q, p)   == trades \cup {NewTrade(q, p)}         (* mutant: an empty fill recorded *)
RecordEntry(q, p) == IF q = 0 THEN trades ELSE trades \cup {NewTrade(q, p)}

Settles ==
  /\ order # NoOrder /\ ~telling
  /\ \E q \in 0..order.qty, p \in order.price..(order.price + Slip) : trades' = RecordEntry(q, p)
  /\ order' = NoOrder
  /\ UNCHANGED <<account, memory, row, telling, told, last>>

(* An exit is never gated.  It closes a trade, or the part that filled:    *)
(* the rest stays open as a trade (Books has the commits in between).      *)
Rest(t, q) == IF q = 0 THEN {} ELSE {[t EXCEPT !.qty = q]}
Exit ==
  /\ Idle
  /\ \E t \in trades : \E q \in 0..(t.qty - 1) : trades' = (trades \ {t}) \cup Rest(t, q)
  /\ UNCHANGED <<account, memory, row, telling, told, order, last>>

-----------------------------------------------------------------------------
Market ==
  /\ equity' \in Equities \ {equity}
  /\ UNCHANGED <<session, memory, row, telling, told, order, trades, last>>

(* cache_s passes.                                                         *)
Ages ==
  /\ memory.fresh /\ memory' = [memory EXCEPT !.fresh = FALSE]
  /\ UNCHANGED <<account, row, telling, told, order, trades, last>>

(* No sleeve's cycle asks for the equity in the seconds before the open.   *)
Opens ==
  /\ session = "before" /\ session' = "open"
  /\ memory' = [memory EXCEPT !.fresh = FALSE]
  /\ UNCHANGED <<equity, row, telling, told, order, trades, last>>

Closes ==
  /\ session = "open" /\ session' = "over"
  /\ UNCHANGED <<equity, memory, row, telling, told, order, trades, last>>

(* Another date, another row; the memory stays.                            *)
NewDay ==
  /\ session = "over" /\ Idle /\ session' = "before"
  /\ memory' = [memory EXCEPT !.fresh = FALSE]
  /\ row' = NoRow /\ told' = 0
  /\ UNCHANGED <<equity, telling, order, trades, last>>

Crash ==
  /\ memory' = NoMemory /\ telling' = FALSE /\ order' = NoOrder
  /\ UNCHANGED <<account, row, told, trades, last>>

Next ==
  \/ RiskTick \/ Tell \/ Settles \/ Exit
  \/ \E sl \in Sleeves : \E e \in Entries(sl) : Gate(sl, e)
  \/ Market \/ Ages \/ Opens \/ Closes \/ NewDay \/ Crash

Spec == Init /\ [][Next]_vars

-----------------------------------------------------------------------------
Seen     == Equities \cup {None}
Memories == [eq : Seen, fresh : BOOLEAN]
Rows     == [open : Seen, halted : BOOLEAN]
Orders   == [sl : Sleeves, side : Sides, qty : Nat, price : Nat, notional : Nat, stop : Nat,
             capital : Nat, seen : Seen]
Trades   == [id : 1..MaxTrades, side : Sides, qty : Nat \ {0}, price : Nat \ {0}]

TypeOK ==
  /\ equity \in Equities /\ session \in {"before", "open", "over"}
  /\ memory \in Memories /\ row \in Rows /\ telling \in BOOLEAN /\ told \in Nat
  /\ order \in Orders /\ trades \subseteq Trades /\ last \in [seen : Seen, qty : Nat]

(* SideCapped (PHASE1A_SPEC.md 3.2, "at most max_same_side open positions  *)
(* in the same direction across all sleeves"): counting the entry being    *)
(* executed, whoever sent it and however orders settle and restarts fall.  *)
Pending(side) == IF order # NoOrder /\ order.side = side THEN 1 ELSE 0
SideCapped == \A side \in Sides : Cardinality(OnSide(side)) + Pending(side) <= MaxSameSide

(* FillsWithinEquity (PHASE1A_SPEC.md 3.2, "No leverage: total gross       *)
(* exposure"): what the sleeves' entries were in fact filled for, less what *)
(* exits closed, and the entry in flight stay within the equity the last   *)
(* entry saw plus the slippage of that one entry: earlier fills count at   *)
(* their own prices and parts closed are given back, so slippage never     *)
(* adds up.  The equity seen may be old: while account() fails nothing in  *)
(* the code bounds its age.                                                *)
FillsWithinEquity == last.seen # None => Gross + order.notional <= last.seen + Slip * last.qty

(* SizedToRisk (PHASE1A_SPEC.md 3.1): an entry sized by its stop is within *)
(* its share of the sleeve's capital, and at its stop it loses at most     *)
(* risk_pct of the capital, unless it is a single share.                   *)
SizedToRisk ==
  order.capital > 0 =>
    /\ 100 * order.notional <= MaxNotionalPct * order.capital
    /\ 100 * order.qty * order.stop <= RiskPct * order.capital \/ order.qty = 1

(* HaltHolds ("halt new entries in all equity sleeves for the rest of the  *)
(* session"): once the loss limit has tripped, no equity sleeve sends an   *)
(* entry that day, also if the equity recovers or the process restarts.    *)
HaltHolds ==
  [][order = NoOrder /\ order' # NoOrder /\ order'.sl \in EquitySleeves => ~row.halted /\ ~row'.halted]_vars

(* OneAlert (risk.py, "One alert"): a day's halt is alerted once, whichever *)
(* sleeves' cycles see the loss and however often the process restarts.    *)
OneAlert == told <= 1

=============================================================================
