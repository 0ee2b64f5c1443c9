----------------------------- MODULE RiskProofs -----------------------------
(* What holds of the portfolio's gates and breakers for every set of       *)
(* sleeves, prices, capitals, percentages and limits.                      *)
EXTENDS Risk, FiniteSetTheorems, WellFoundedInduction, TLAPS

(* Nat is closed under what the sizes are made of.                         *)
LEMMA ProductNat == ASSUME NEW a \in Nat, NEW b \in Nat PROVE a * b \in Nat
BY SMT

LEMMA QuotientNat ==
  ASSUME NEW a \in Nat, NEW b \in Nat \ {0}
  PROVE  a \div b \in Nat /\ b * (a \div b) <= a
BY SMT

LEMMA ProductPositive ==
  ASSUME NEW a \in Nat \ {0}, NEW b \in Nat \ {0} PROVE a * b \in Nat \ {0}
BY SMT

LEMMA ProductMonotone ==
  ASSUME NEW a \in Nat, NEW b \in Nat, NEW c \in Nat, a <= b PROVE c * a <= c * b
BY SMT

-----------------------------------------------------------------------------
(* The size of an entry.                                                   *)

(* With a stop.                                                            *)
LEMMA SizedByStop ==
  ASSUME NEW capital \in Nat, NEW stop \in Nat \ {0}, NEW price \in Nat \ {0}
  PROVE  LET q == RiskQty(capital, stop, price)
         IN  /\ q \in Nat
             /\ 100 * (q * price) <= MaxNotionalPct * capital
             /\ 100 * q * stop <= RiskPct * capital \/ q <= 1
<1> DEFINE q  == RiskQty(capital, stop, price)
           b  == capital * RiskPct
           n  == capital * MaxNotionalPct
           dr == 100 * stop
           dn == 100 * price
           r  == b \div dr
           k  == n \div dn
<1>1. b \in Nat /\ n \in Nat /\ dr \in Nat \ {0} /\ dn \in Nat \ {0}
  BY ProductNat, ProductPositive, MoneyAssumption
<1>2. r \in Nat /\ dr * r <= b /\ k \in Nat /\ dn * k <= n
  <2> HIDE DEF b, n, dr, dn
  <2> QED BY <1>1, QuotientNat
<1>3. q \in Nat /\ q <= k /\ (q <= r \/ q <= 1)
  <2> HIDE DEF b, n, dr, dn
  <2>1. q = IF k < 1 THEN 0 ELSE IF AtLeastOne(r) < k THEN AtLeastOne(r) ELSE k
    BY DEF RiskQty, Raw, CapShares, b, n, dr, dn, r, k
  <2> HIDE DEF q, r, k
  <2> QED BY <1>2, <2>1 DEF AtLeastOne
<1> HIDE DEF q, r, k
<1>4. dn * q <= n
  <2>1. dn * q <= dn * k
    BY <1>1, <1>2, <1>3, ProductMonotone
  <2>2. dn * q \in Nat /\ dn * k \in Nat
    BY <1>1, <1>2, <1>3, ProductNat
  <2> QED BY <1>1, <1>2, <2>1, <2>2
<1>5. q <= r => dr * q <= b
  <2>1. q <= r => dr * q <= dr * r
    BY <1>1, <1>2, <1>3, ProductMonotone
  <2>2. dr * q \in Nat /\ dr * r \in Nat
    BY <1>1, <1>2, <1>3, ProductNat
  <2> QED BY <1>1, <1>2, <2>1, <2>2
<1>6. dn * q = 100 * (q * price) /\ dr * q = 100 * q * stop
  BY <1>3
<1>7. n = MaxNotionalPct * capital /\ b = RiskPct * capital
  BY MoneyAssumption
<1>8. 100 * (q * price) <= MaxNotionalPct * capital
  BY <1>4, <1>6, <1>7
<1>9. 100 * q * stop <= RiskPct * capital \/ q <= 1
  BY <1>3, <1>5, <1>6, <1>7
<1> QED BY <1>3, <1>8, <1>9 DEF q

(* RiskSized: risk_qty() never exceeds the notional cap, and exceeds the   *)
(* risk budget only as the single share its max(1, ...) grants.            *)
THEOREM RiskSized ==
  ASSUME NEW capital \in Nat, NEW stop \in Nat, NEW price \in Nat \ {0}
  PROVE  LET q == RiskQty(capital, stop, price)
         IN  /\ q \in Nat
             /\ 100 * (q * price) <= MaxNotionalPct * capital
             /\ 100 * q * stop <= RiskPct * capital \/ q <= 1
<1>1. CASE stop = 0
  <2>1. RiskQty(capital, stop, price) = 0
    BY <1>1 DEF RiskQty
  <2>2. MaxNotionalPct * capital \in Nat
    BY ProductNat, MoneyAssumption
  <2> QED BY <2>1, <2>2
<1>2. CASE stop # 0
  BY <1>2, SizedByStop
<1> QED BY <1>1, <1>2

LEMMA PositionQtyNat == ASSUME NEW price \in Nat \ {0} PROVE PositionQty(price) \in Nat
BY QuotientNat, MoneyAssumption DEF PositionQty

(* What every sleeve brings to the gate is a well-formed entry of its own. *)
LEMMA EntryFormed ==
  ASSUME NEW sl \in Sleeves, NEW e \in Entries(sl)
  PROVE  /\ e \in Orders /\ e.sl = sl /\ e.price > 0
         /\ e.notional = e.qty * e.price
         /\ e.capital > 0 => /\ 100 * e.notional <= MaxNotionalPct * e.capital
                             /\ 100 * e.qty * e.stop <= RiskPct * e.capital \/ e.qty <= 1
<1>0. None \in Seen /\ "long" \in Sides
  BY DEF Seen, Sides
<1>1. CASE sl \in CryptoSleeves
  <2>1. PICK n \in CryptoNotionals : e = Entry(sl, "long", 1, [price |-> n, stop |-> 0], 0)
    BY <1>1, SleevesAssumption DEF Entries
  <2>2. n \in Nat \ {0} /\ 1 * n = n
    BY MoneyAssumption
  <2> QED BY <1>0, <2>1, <2>2 DEF Entry, Orders
<1>2. CASE sl \notin CryptoSleeves /\ sl = S0
  <2>1. PICK s \in Sides, o \in Offers : e = Entry(sl, s, PositionQty(o.price), [o EXCEPT !.stop = 0], 0)
    BY <1>2, SleevesAssumption DEF Entries
  <2>2. o \in [price : Nat \ {0}, stop : Nat]
    BY MoneyAssumption
  <2>3. PositionQty(o.price) \in Nat /\ PositionQty(o.price) * o.price \in Nat
    BY <2>2, PositionQtyNat, ProductNat
  <2> QED BY <1>0, <2>1, <2>2, <2>3 DEF Entry, Orders
<1>3. CASE sl \notin CryptoSleeves /\ sl # S0
  <2>1. PICK s \in Sides, o \in Offers, c \in Capitals : e = Entry(sl, s, RiskQty(c, o.stop, o.price), o, c)
    BY <1>3, SleevesAssumption DEF Entries
  <2>2. o \in [price : Nat \ {0}, stop : Nat] /\ c \in Nat \ {0}
    BY MoneyAssumption
  <2> DEFINE q == RiskQty(c, o.stop, o.price)
  <2>3. /\ q \in Nat
        /\ 100 * (q * o.price) <= MaxNotionalPct * c
        /\ 100 * q * o.stop <= RiskPct * c \/ q <= 1
    BY <2>2, RiskSized
  <2>4. q * o.price \in Nat
    BY <2>2, <2>3, ProductNat
  <2> HIDE DEF q
  <2>5. e = Entry(sl, s, q, o, c)
    BY <2>1 DEF q
  <2>6. e \in Orders
    BY <1>0, <2>2, <2>3, <2>4, <2>5 DEF Entry, Orders
  <2> QED BY <2>2, <2>3, <2>5, <2>6 DEF Entry
<1> QED BY <1>1, <1>2, <1>3

-----------------------------------------------------------------------------
(* What the daily-loss check may leave behind.                             *)

LEMMA LookupType ==
  ASSUME equity \in Equities, NEW m \in Memories, NEW n \in Lookup(m)
  PROVE  n \in Memories
<1>1. n = m \/ n = [eq |-> equity, fresh |-> TRUE]
  BY DEF Lookup
<1>2. [eq |-> equity, fresh |-> TRUE] \in Memories
  BY DEF Memories, Seen
<1> QED BY <1>1, <1>2

LEMMA RecordOpenType ==
  ASSUME NEW r \in Rows, NEW m \in Memories
  PROVE  RecordOpen(r, m) \in Rows /\ RecordOpen(r, m).halted = r.halted
BY DEF RecordOpen, Rows, Memories

(* The check changes the row's halt only by tripping, which it does once   *)
(* and only in an open session; what it lets through is not halted.        *)
LEMMA CheckEffect ==
  ASSUME equity \in Equities, memory \in Memories, row \in Rows, NEW c \in Check
  PROVE  /\ c.memory \in Memories /\ c.row \in Rows /\ c.trips \in BOOLEAN
         /\ c.trips => ~row.halted /\ c.row.halted
         /\ row.halted => c.row.halted
         /\ session = "open" /\ ~c.halt => ~row.halted /\ ~c.row.halted
<1>1. CASE c \in {Unchecked(FALSE)} /\ session # "open"
  <2>1. c = [memory |-> memory, row |-> row, halt |-> FALSE, trips |-> FALSE]
    BY <1>1 DEF Unchecked
  <2> QED BY <1>1, <2>1
<1>2. CASE c \in {Unchecked(TRUE)} /\ session = "open" /\ row.halted
  <2>1. c = [memory |-> memory, row |-> row, halt |-> TRUE, trips |-> FALSE]
    BY <1>2 DEF Unchecked
  <2> QED BY <1>2, <2>1
<1>3. CASE session = "open" /\ ~row.halted
           /\ c \in UNION {{Checked(RecordOpen(row, m), n) : n \in Lookup(m)} : m \in FirstLookup}
  <2>1. PICK m \in FirstLookup : \E n \in Lookup(m) : c = Checked(RecordOpen(row, m), n)
    BY <1>3
  <2>2. m \in Memories
    BY LookupType DEF FirstLookup
  <2>3. PICK n \in Lookup(m) : c = Checked(RecordOpen(row, m), n)
    BY <2>1
  <2>4. n \in Memories
    BY <2>2, LookupType
  <2> DEFINE r == RecordOpen(row, m)
  <2>5. r \in Rows /\ r.halted = row.halted
    BY <2>2, RecordOpenType
  <2> HIDE DEF r
  <2>6. Tripped(r, n) \in BOOLEAN
    BY DEF Tripped
  <2>7. c = [memory |-> n, row |-> [r EXCEPT !.halted = @ \/ Tripped(r, n)],
             halt |-> Tripped(r, n), trips |-> Tripped(r, n)]
    BY <2>3 DEF Checked, r
  <2> DEFINE t == Tripped(r, n)
  <2> HIDE DEF t
  <2>8. c = [memory |-> n, row |-> [r EXCEPT !.halted = @ \/ t], halt |-> t, trips |-> t] /\ t \in BOOLEAN
    BY <2>6, <2>7 DEF t
  <2>9. c.row \in Rows /\ (c.row.halted <=> (r.halted \/ t))
    BY <2>5, <2>8 DEF Rows
  <2> QED BY <1>3, <2>4, <2>5, <2>8, <2>9
<1> QED BY <1>1, <1>2, <1>3 DEF Check, Halted

-----------------------------------------------------------------------------
(* Type correctness.  An order holds a free identifier for its trade and a *)
(* positive price, which its recording relies on.                          *)

TypeInv ==
  /\ TypeOK
  /\ IsFiniteSet(trades)
  /\ order # NoOrder => order.price > 0 /\ Cardinality(trades) < MaxTrades

LEMMA FreeId ==
  ASSUME trades \subseteq Trades, IsFiniteSet(trades), Cardinality(trades) < MaxTrades
  PROVE  \E i \in 1..MaxTrades : \A t \in trades : t.id # i
<1>1. SUFFICES ASSUME \A i \in 1..MaxTrades : \E t \in trades : t.id = i
               PROVE  FALSE
  OBVIOUS
<1> DEFINE f == [t \in trades |-> t.id]
<1>2. f \in Surjection(trades, 1..MaxTrades)
  BY <1>1 DEF Surjection, Trades
<1>3. Cardinality(1..MaxTrades) <= Cardinality(trades)
  BY <1>2, FS_Surjection
<1>4. Cardinality(1..MaxTrades) = MaxTrades
  BY FS_Interval, BoundsAssumption
<1>5. Cardinality(trades) \in Nat
  BY FS_CardinalityType
<1> QED BY <1>3, <1>4, <1>5, BoundsAssumption

LEMMA NoOrderType == NoOrder \in Orders
BY SleevesAssumption DEF NoOrder, Orders, Sleeves, Sides, Seen

(* A gate leaves no order or the entry it was asked about, with the equity *)
(* it saw.                                                                 *)
LEMMA GateEffect ==
  ASSUME TypeOK, NEW sl \in Sleeves, NEW e \in Entries(sl), Gate(sl, e)
  PROVE  /\ memory' \in Memories /\ row' \in Rows /\ telling' \in BOOLEAN
         /\ telling' => ~row.halted /\ row'.halted
         /\ row.halted => row'.halted
         /\ order' \in Orders
         /\ \/ order' = NoOrder /\ last' = last
            \/ /\ \E x \in Seen : /\ order' = [e EXCEPT !.seen = x] /\ last' = [seen |-> x, qty |-> e.qty]
                                  /\ Fits(e.notional, [memory' EXCEPT !.eq = x])
               /\ SideFree(e.side) /\ Cardinality(trades) < MaxTrades
               /\ sl \in EquitySleeves => ~row.halted /\ ~row'.halted
<1>0. order = NoOrder /\ memory \in Memories /\ row \in Rows /\ equity \in Equities
  BY DEF Gate, Idle, TypeOK
<1>1. PICK c \in IF sl \in EquitySleeves THEN Check ELSE {Unchecked(FALSE)} :
        /\ After(c)
        /\ IF c.halt \/ ~SideFree(e.side) THEN memory' = c.memory /\ UNCHANGED <<order, last>>
           ELSE \E m \in Lookup(c.memory) :
                  /\ memory' = m
                  /\ IF Fits(e.notional, m)
                     THEN order' = [e EXCEPT !.seen = m.eq] /\ last' = [seen |-> m.eq, qty |-> e.qty]
                     ELSE UNCHANGED <<order, last>>
  BY DEF Gate
<1>2. /\ c.memory \in Memories /\ c.row \in Rows /\ c.trips \in BOOLEAN
      /\ c.trips => ~row.halted /\ c.row.halted
      /\ row.halted => c.row.halted
      /\ sl \in EquitySleeves /\ ~c.halt => ~row.halted /\ ~c.row.halted
  <2>1. CASE sl \in EquitySleeves
    <3>1. c \in Check /\ session = "open"
      BY <1>1, <2>1 DEF Gate, MayTrade
    <3> QED BY <1>0, <3>1, CheckEffect
  <2>2. CASE sl \notin EquitySleeves
    <3>1. c = [memory |-> memory, row |-> row, halt |-> FALSE, trips |-> FALSE]
      BY <1>1, <2>2 DEF Unchecked
    <3> QED BY <1>0, <2>2, <3>1
  <2> QED BY <2>1, <2>2
<1>3. row' = c.row /\ telling' = c.trips
  BY <1>1 DEF After
<1>4. CASE c.halt \/ ~SideFree(e.side)
  <2>1. memory' = c.memory /\ order' = NoOrder /\ last' = last
    BY <1>0, <1>1, <1>4
  <2> QED BY <1>2, <1>3, <2>1, NoOrderType
<1>5. CASE ~c.halt /\ SideFree(e.side)
  <2>1. PICK m \in Lookup(c.memory) :
          /\ memory' = m
          /\ IF Fits(e.notional, m)
             THEN order' = [e EXCEPT !.seen = m.eq] /\ last' = [seen |-> m.eq, qty |-> e.qty]
             ELSE UNCHANGED <<order, last>>
    BY <1>1, <1>5
  <2>2. m \in Memories
    BY <1>0, <1>2, LookupType
  <2>3. m.eq \in Seen /\ [m EXCEPT !.eq = m.eq] = m
    BY <2>2 DEF Memories
  <2>4. e \in Orders
    BY EntryFormed
  <2>5. CASE Fits(e.notional, m)
    <3>1. order' = [e EXCEPT !.seen = m.eq] /\ last' = [seen |-> m.eq, qty |-> e.qty]
      BY <2>1, <2>5
    <3>2. order' \in Orders
      BY <2>3, <2>4, <3>1 DEF Orders
    <3>3. Cardinality(trades) < MaxTrades
      BY DEF Gate
    <3> QED BY <1>2, <1>3, <1>5, <2>1, <2>2, <2>3, <2>5, <3>1, <3>2, <3>3
  <2>6. CASE ~Fits(e.notional, m)
    <3>1. order' = NoOrder /\ last' = last
      BY <1>0, <2>1, <2>6
    <3> QED BY <1>2, <1>3, <2>1, <2>2, <3>1, NoOrderType
  <2> QED BY <2>5, <2>6
<1> QED BY <1>4, <1>5

LEMMA TypeInit == Init => TypeInv
<1> SUFFICES ASSUME Init PROVE TypeInv
  OBVIOUS
<1>1. memory \in Memories /\ row \in Rows
  BY DEF Init, NoMemory, NoRow, Memories, Rows, Seen
<1>2. trades \subseteq Trades /\ IsFiniteSet(trades) /\ order \in Orders
  BY FS_EmptySet, NoOrderType DEF Init
<1>3. last \in [seen : Seen, qty : Nat]
  BY DEF Init, Seen
<1> QED BY <1>1, <1>2, <1>3 DEF Init, TypeInv, TypeOK

LEMMA TypeStep == TypeInv /\ [Next]_vars => TypeInv'
<1> SUFFICES ASSUME TypeInv, [Next]_vars PROVE TypeInv'
  OBVIOUS
<1> USE DEF TypeInv, TypeOK
<1>1. CASE RiskTick
  <2>1. PICK c \in Check : row' = c.row /\ telling' = c.trips /\ memory' = c.memory
    BY <1>1 DEF RiskTick, After
  <2>2. c.memory \in Memories /\ c.row \in Rows /\ c.trips \in BOOLEAN
    BY CheckEffect
  <2> QED BY <1>1, <2>1, <2>2 DEF RiskTick, account
<1>2. CASE Tell
  <2>1. told' \in Nat
    <3>1. told' = told + 1 /\ told \in Nat
      BY <1>2 DEF Tell
    <3> QED BY <3>1
  <2>2. telling' \in BOOLEAN
    BY <1>2 DEF Tell
  <2> QED BY <1>2, <2>1, <2>2 DEF Tell, account
<1>3. CASE Settles
  <2>1. PICK q \in 0..order.qty, p \in order.price..(order.price + Slip) : trades' = RecordEntry(q, p)
    BY <1>3 DEF Settles
  <2>2. order \in Orders /\ order.price > 0
    BY <1>3 DEF Settles
  <2>3. q \in Nat /\ p \in Nat \ {0}
    BY <2>1, <2>2, MoneyAssumption DEF Orders
  <2>4. CASE q = 0
    <3>1. trades' = trades
      BY <2>1, <2>4 DEF RecordEntry
    <3> QED BY <1>3, <3>1, NoOrderType DEF Settles, account
  <2>5. CASE q # 0
    <3>1. \E i \in 1..MaxTrades : \A t \in trades : t.id # i
      BY <1>3, FreeId DEF Settles
    <3>2. q \in Nat \ {0} /\ p \in Nat \ {0}
      BY <2>3, <2>5
    <3>3. NewTrade(q, p) \in Trades
      BY <2>2, <3>1, <3>2 DEF NewTrade, Trades, Orders
    <3>4. trades' = trades \cup {NewTrade(q, p)}
      BY <2>1, <2>5 DEF RecordEntry
    <3>5. IsFiniteSet(trades')
      BY <3>4, FS_AddElement
    <3> QED BY <1>3, <3>3, <3>4, <3>5, NoOrderType DEF Settles, account
  <2> QED BY <2>4, <2>5
<1>4. CASE Exit
  <2>0. PICK t \in trades : \E q \in 0..(t.qty - 1) : trades' = (trades \ {t}) \cup Rest(t, q)
    BY <1>4 DEF Exit
  <2>1. PICK q \in 0..(t.qty - 1) : trades' = (trades \ {t}) \cup Rest(t, q)
    BY <2>0
  <2>2. trades' \subseteq Trades /\ IsFiniteSet(trades')
    <3>1. IsFiniteSet(trades \ {t}) /\ t \in Trades
      BY FS_RemoveElement
    <3>2. CASE q = 0
      BY <2>1, <3>1, <3>2 DEF Rest
    <3>3. CASE q # 0
      <4>1. trades' = (trades \ {t}) \cup {[t EXCEPT !.qty = q]}
        BY <2>1, <3>3 DEF Rest
      <4>2. [t EXCEPT !.qty = q] \in Trades
        BY <3>1, <3>3 DEF Trades
      <4> QED BY <3>1, <4>1, <4>2, FS_AddElement
    <3> QED BY <3>2, <3>3
  <2> QED BY <1>4, <2>2 DEF Exit, Idle, account
<1>5. ASSUME NEW sl \in Sleeves, NEW e \in Entries(sl), Gate(sl, e)
      PROVE  TypeInv'
  <2>1. memory' \in Memories /\ row' \in Rows /\ telling' \in BOOLEAN /\ order' \in Orders
    BY <1>5, GateEffect
  <2>2. order' # NoOrder => order'.price > 0 /\ Cardinality(trades) < MaxTrades
    <3>1. SUFFICES ASSUME order' # NoOrder PROVE order'.price > 0 /\ Cardinality(trades) < MaxTrades
      OBVIOUS
    <3>2. PICK x \in Seen : order' = [e EXCEPT !.seen = x]
      BY <1>5, <3>1, GateEffect
    <3>3. Cardinality(trades) < MaxTrades
      BY <1>5 DEF Gate
    <3>4. e \in Orders /\ e.price > 0
      BY <1>5, EntryFormed
    <3> QED BY <3>2, <3>3, <3>4 DEF Orders
  <2>3. last' \in [seen : Seen, qty : Nat]
    <3>1. last' = last \/ \E x \in Seen : last' = [seen |-> x, qty |-> e.qty]
      BY <1>5, GateEffect
    <3>2. e.qty \in Nat
      BY <1>5, EntryFormed DEF Orders
    <3> QED BY <3>1, <3>2
  <2> QED BY <1>5, <2>1, <2>2, <2>3 DEF Gate, account
<1>6. CASE Market
  BY <1>6 DEF Market
<1>7. CASE Ages
  BY <1>7 DEF Ages, account, Memories
<1>8. CASE Opens
  BY <1>8 DEF Opens, Memories
<1>9. CASE Closes
  BY <1>9 DEF Closes
<1>10. CASE NewDay
  <2>1. NoRow \in Rows
    BY DEF NoRow, Rows, Seen
  <2> QED BY <1>10, <2>1 DEF NewDay, Memories
<1>11. CASE Crash
  <2>1. NoMemory \in Memories
    BY DEF NoMemory, Memories, Seen
  <2> QED BY <1>11, <2>1, NoOrderType DEF Crash, account
<1>12. CASE UNCHANGED vars
  BY <1>12 DEF vars, account
<1> QED BY <1>1, <1>2, <1>3, <1>4, <1>5, <1>6, <1>7, <1>8, <1>9, <1>10, <1>11, <1>12 DEF Next

LEMMA TypeAlways == Spec => []TypeInv
BY TypeInit, TypeStep, PTL DEF Spec

(* TypeCorrect: Portfolio's memory, the risk_days row, the order and the   *)
(* trades have their types, whatever settles, fails or restarts.           *)
THEOREM TypeCorrect == Spec => []TypeOK
<1>1. TypeInv => TypeOK
  BY DEF TypeInv
<1> QED BY <1>1, TypeAlways, PTL

-----------------------------------------------------------------------------
(* The side cap.                                                           *)

LEMMA OnSideFinite ==
  ASSUME IsFiniteSet(trades), NEW side
  PROVE  IsFiniteSet(OnSide(side)) /\ Cardinality(OnSide(side)) \in Nat
BY FS_Subset, FS_CardinalityType DEF OnSide

LEMMA SideInit == Init => SideCapped
<1> SUFFICES ASSUME Init, NEW side \in Sides
             PROVE  Cardinality(OnSide(side)) + Pending(side) <= MaxSameSide
  BY DEF SideCapped
<1>1. OnSide(side) = {} /\ Pending(side) = 0
  BY DEF Init, OnSide, Pending
<1> QED BY <1>1, FS_EmptySet, BoundsAssumption

LEMMA SideStep == TypeInv /\ SideCapped /\ [Next]_vars => SideCapped'
<1> SUFFICES ASSUME TypeInv, SideCapped, [Next]_vars, NEW side \in Sides
             PROVE  (Cardinality(OnSide(side)) + Pending(side) <= MaxSameSide)'
  BY DEF SideCapped
<1>0. /\ Cardinality(OnSide(side)) + Pending(side) <= MaxSameSide
      /\ IsFiniteSet(OnSide(side)) /\ Cardinality(OnSide(side)) \in Nat
      /\ Pending(side) \in {0, 1} /\ MaxSameSide \in Nat
  BY OnSideFinite, BoundsAssumption DEF SideCapped, TypeInv, Pending
<1>1. CASE Settles
  <2>1. PICK q \in 0..order.qty, p \in order.price..(order.price + Slip) : trades' = RecordEntry(q, p)
    BY <1>1 DEF Settles
  <2>2. Pending(side)' = 0
    BY <1>1 DEF Settles, Pending
  <2>3. CASE q = 0
    <3>1. OnSide(side)' = OnSide(side)
      BY <2>1, <2>3 DEF RecordEntry, OnSide
    <3> QED BY <1>0, <2>2, <3>1
  <2>4. CASE q # 0 /\ order.side = side
    <3>1. OnSide(side)' = OnSide(side) \cup {NewTrade(q, p)}
      BY <2>1, <2>4 DEF RecordEntry, OnSide, NewTrade
    <3>2. Cardinality(OnSide(side)') <= Cardinality(OnSide(side)) + 1
      BY <1>0, <3>1, FS_AddElement
    <3>3. Pending(side) = 1
      BY <1>1, <2>4 DEF Settles, Pending
    <3>4. Cardinality(OnSide(side)') \in Nat
      BY <1>0, <3>1, FS_AddElement, FS_CardinalityType
    <3> QED BY <1>0, <2>2, <3>2, <3>3, <3>4
  <2>5. CASE q # 0 /\ order.side # side
    <3>1. OnSide(side)' = OnSide(side)
      BY <2>1, <2>5 DEF RecordEntry, OnSide, NewTrade
    <3> QED BY <1>0, <2>2, <3>1
  <2> QED BY <2>3, <2>4, <2>5
<1>2. CASE Exit
  <2>0. PICK t \in trades : \E q \in 0..(t.qty - 1) : trades' = (trades \ {t}) \cup Rest(t, q)
    BY <1>2 DEF Exit
  <2>1. PICK q \in 0..(t.qty - 1) : trades' = (trades \ {t}) \cup Rest(t, q)
    BY <2>0
  <2>2. Pending(side)' = Pending(side)
    BY <1>2 DEF Exit, Pending
  <2>3. Cardinality(OnSide(side)') <= Cardinality(OnSide(side)) /\ Cardinality(OnSide(side)') \in Nat
    <3>1. CASE q = 0 \/ t.side # side
      <4>1. OnSide(side)' \in SUBSET OnSide(side)
        BY <2>1, <3>1 DEF OnSide, Rest, TypeInv, TypeOK, Trades
      <4> QED BY <1>0, <4>1, FS_Subset, FS_CardinalityType
    <3>2. CASE q # 0 /\ t.side = side
      <4> DEFINE S == OnSide(side) \ {t}
                 u == [t EXCEPT !.qty = q]
      <4>1. t \in Trades /\ u.side = side
        BY <3>2 DEF TypeInv, TypeOK, Trades
      <4>2. OnSide(side)' = S \cup {u} /\ t \in OnSide(side)
        BY <2>1, <3>2, <4>1 DEF OnSide, Rest
      <4>3. IsFiniteSet(S) /\ Cardinality(S) = Cardinality(OnSide(side)) - 1
        BY <1>0, <4>2, FS_RemoveElement
      <4> HIDE DEF S, u
      <4>4. /\ IsFiniteSet(S \cup {u})
            /\ Cardinality(S \cup {u}) = Cardinality(S) \/ Cardinality(S \cup {u}) = Cardinality(S) + 1
        BY <4>3, FS_AddElement
      <4>5. Cardinality(S) \in Nat /\ Cardinality(S \cup {u}) \in Nat
        BY <4>3, <4>4, FS_CardinalityType
      <4> QED BY <1>0, <4>2, <4>3, <4>4, <4>5
    <3> QED BY <3>1, <3>2
  <2> QED BY <1>0, <2>2, <2>3
<1>3. ASSUME NEW sl \in Sleeves, NEW e \in Entries(sl), Gate(sl, e)
      PROVE  (Cardinality(OnSide(side)) + Pending(side) <= MaxSameSide)'
  <2>1. OnSide(side)' = OnSide(side)
    BY <1>3 DEF Gate, OnSide
  <2>2. CASE order' = NoOrder
    <3>1. Pending(side)' = 0
      BY <2>2 DEF Pending
    <3> QED BY <1>0, <2>1, <3>1
  <2>3. CASE order' # NoOrder
    <3>0. PICK x \in Seen : order' = [e EXCEPT !.seen = x] /\ SideFree(e.side)
      BY <1>3, <2>3, GateEffect DEF TypeInv
    <3>1. order'.side = e.side /\ SideFree(e.side)
      BY <1>3, <3>0, EntryFormed DEF Orders
    <3>2. Pending(side)' = 0 \/ (Pending(side)' = 1 /\ SideFree(side))
      BY <3>1 DEF Pending
    <3> QED BY <1>0, <2>1, <3>2 DEF SideFree
  <2> QED BY <2>2, <2>3
<1>4. CASE Crash
  <2>1. OnSide(side)' = OnSide(side) /\ Pending(side)' = 0
    BY <1>4 DEF Crash, OnSide, Pending
  <2> QED BY <1>0, <2>1
<1>5. CASE RiskTick \/ Tell \/ Market \/ Ages \/ Opens \/ Closes \/ NewDay \/ UNCHANGED vars
  <2>1. trades' = trades /\ order' = order
    BY <1>5 DEF RiskTick, Tell, Market, Ages, Opens, Closes, NewDay, vars
  <2>2. OnSide(side)' = OnSide(side) /\ Pending(side)' = Pending(side)
    BY <2>1 DEF OnSide, Pending
  <2> QED BY <1>0, <2>2
<1> QED BY <1>1, <1>2, <1>3, <1>4, <1>5 DEF Next

(* SideAlwaysCapped: never more positions on a side than max_same_side,    *)
(* over all sleeves and counting the order in flight.                      *)
THEOREM SideAlwaysCapped == Spec => []SideCapped
BY TypeAlways, SideInit, SideStep, PTL DEF Spec

-----------------------------------------------------------------------------
(* The halt.                                                               *)

(* HaltKept: no equity sleeve's entry passes the gate on a day whose halt  *)
(* is recorded, nor in the check that trips it.                            *)
THEOREM HaltKept == Spec => HaltHolds
<1> DEFINE Kept == order = NoOrder /\ order' # NoOrder /\ order'.sl \in EquitySleeves
                     => ~row.halted /\ ~row'.halted
<1>1. TypeInv /\ [Next]_vars => [Kept]_vars
  <2> SUFFICES ASSUME TypeInv, Next, order = NoOrder, order' # NoOrder, order'.sl \in EquitySleeves
               PROVE  ~row.halted /\ ~row'.halted
    OBVIOUS
  <2>1. PICK sl \in Sleeves : \E e \in Entries(sl) : Gate(sl, e)
    BY DEF Next, RiskTick, Tell, Settles, Exit, Market, Ages, Opens, Closes, NewDay, Crash
  <2>2. PICK e \in Entries(sl) : Gate(sl, e)
    BY <2>1
  <2>3. e \in Orders /\ e.sl = sl
    BY EntryFormed
  <2>4. order'.sl = sl
    BY <2>2, <2>3, GateEffect DEF TypeInv, Orders
  <2> QED BY <2>2, <2>4, GateEffect DEF TypeInv
<1> QED BY <1>1, TypeAlways, PTL DEF Spec, HaltHolds

(* What makes the alert single: an alert, sent or about to be, belongs to  *)
(* a recorded halt, and a check that finds the halt recorded sends none.   *)
AlertInv == told + (IF telling THEN 1 ELSE 0) <= (IF row.halted THEN 1 ELSE 0)

LEMMA AlertInit == Init => AlertInv
BY DEF Init, AlertInv, NoRow

LEMMA AlertStep == TypeInv /\ AlertInv /\ [Next]_vars => AlertInv'
<1> SUFFICES ASSUME TypeInv, AlertInv, [Next]_vars PROVE AlertInv'
  OBVIOUS
<1>0. told \in Nat /\ telling \in BOOLEAN /\ row \in Rows
  BY DEF TypeInv, TypeOK
<1>1. CASE RiskTick
  <2>1. PICK c \in Check : row' = c.row /\ telling' = c.trips
    BY <1>1 DEF RiskTick, After
  <2>2. (c.trips => ~row.halted /\ c.row.halted) /\ (row.halted => c.row.halted)
    BY CheckEffect DEF TypeInv, TypeOK
  <2>3. told' = told /\ ~telling
    BY <1>1 DEF RiskTick, Idle
  <2> QED BY <1>0, <2>1, <2>2, <2>3 DEF AlertInv
<1>2. CASE Tell
  <2>1. telling /\ ~telling' /\ told' = told + 1 /\ row' = row
    BY <1>2 DEF Tell
  <2> QED BY <1>0, <2>1 DEF AlertInv
<1>3. ASSUME NEW sl \in Sleeves, NEW e \in Entries(sl), Gate(sl, e)
      PROVE  AlertInv'
  <2>1. (telling' => ~row.halted /\ row'.halted) /\ (row.halted => row'.halted)
    BY <1>3, GateEffect DEF TypeInv
  <2>2. told' = told /\ ~telling
    BY <1>3 DEF Gate, Idle
  <2> QED BY <1>0, <2>1, <2>2 DEF AlertInv
<1>4. CASE NewDay
  <2>1. told' = 0 /\ ~telling' /\ ~row'.halted
    BY <1>4 DEF NewDay, Idle, NoRow
  <2> QED BY <2>1 DEF AlertInv
<1>5. CASE Crash
  <2>1. told' = told /\ row' = row /\ ~telling'
    BY <1>5 DEF Crash
  <2> QED BY <1>0, <2>1 DEF AlertInv
<1>6. CASE Settles \/ Exit \/ Market \/ Ages \/ Opens \/ Closes \/ UNCHANGED vars
  <2>1. told' = told /\ row' = row /\ telling' = telling
    BY <1>6 DEF Settles, Exit, Market, Ages, Opens, Closes, vars
  <2> QED BY <2>1 DEF AlertInv
<1> QED BY <1>1, <1>2, <1>3, <1>4, <1>5, <1>6 DEF Next

(* AlertedOnce: a session's halt is alerted at most once.                  *)
THEOREM AlertedOnce == Spec => []OneAlert
<1>1. TypeInv /\ AlertInv => OneAlert
  BY DEF TypeInv, TypeOK, AlertInv, OneAlert
<1> QED BY <1>1, TypeAlways, AlertInit, AlertStep, PTL DEF Spec

-----------------------------------------------------------------------------
(* What is sent is sized to the risk.                                      *)

LEMMA SizedStep == TypeInv /\ SizedToRisk /\ [Next]_vars => SizedToRisk'
<1> SUFFICES ASSUME TypeInv, SizedToRisk, [Next]_vars PROVE SizedToRisk'
  OBVIOUS
<1>1. ASSUME NEW sl \in Sleeves, NEW e \in Entries(sl), Gate(sl, e), order' # NoOrder
      PROVE  SizedToRisk'
  <2>1. PICK x \in Seen : order' = [e EXCEPT !.seen = x]
    BY <1>1, GateEffect DEF TypeInv
  <2>2. /\ e \in Orders /\ e.qty > 0
        /\ e.capital > 0 => /\ 100 * e.notional <= MaxNotionalPct * e.capital
                            /\ 100 * e.qty * e.stop <= RiskPct * e.capital \/ e.qty <= 1
    BY <1>1, EntryFormed DEF Gate
  <2>3. /\ order'.notional = e.notional /\ order'.capital = e.capital /\ order'.qty = e.qty
        /\ order'.stop = e.stop
    BY <2>1, <2>2 DEF Orders
  <2>4. e.qty \in Nat
    BY <2>2 DEF Orders
  <2> QED BY <2>2, <2>3, <2>4 DEF SizedToRisk
<1>2. CASE order' = NoOrder
  BY <1>2 DEF SizedToRisk, NoOrder
<1>3. CASE order' = order
  BY <1>3 DEF SizedToRisk
<1>4. CASE RiskTick \/ Tell \/ Market \/ Ages \/ Opens \/ Closes \/ NewDay \/ UNCHANGED vars
  BY <1>3, <1>4 DEF RiskTick, Tell, Market, Ages, Opens, Closes, NewDay, vars
<1>5. CASE Settles \/ Exit \/ Crash
  <2>1. order' = NoOrder
    BY <1>5 DEF Settles, Exit, Crash, Idle
  <2> QED BY <1>2, <2>1
<1> QED BY <1>1, <1>2, <1>4, <1>5 DEF Next

LEMMA SizedInit == Init => SizedToRisk
BY DEF Init, SizedToRisk, NoOrder

(* SentWithinRisk: no sleeve sends an order above its notional cap or, but *)
(* for a single share, above its risk budget.                              *)
THEOREM SentWithinRisk == Spec => []SizedToRisk
BY TypeAlways, SizedInit, SizedStep, PTL DEF Spec

-----------------------------------------------------------------------------
(* Sums over finite sets, as in BooksProofs.                               *)

Pick(s) == CHOOSE x \in s : TRUE

(* What the fold behind SumFunctionOnSet says of itself.                   *)
Adds(g, f, S) == g = [s \in SUBSET S |-> IF s = {} THEN 0 ELSE f[Pick(s)] + g[s \ {Pick(s)}]]

LEMMA SumUnfolds ==
  ASSUME NEW f, NEW S
  PROVE  SumFunctionOnSet(f, S) = (CHOOSE g : Adds(g, f, S))[S]
  BY DEF SumFunctionOnSet, FoldFunctionOnSet, MapThenFoldSet, Adds, Pick

(* Induction over the subsets of a finite set, with a set for the          *)
(* predicate.                                                              *)
LEMMA SubsetInduction ==
  ASSUME NEW S, IsFiniteSet(S), NEW Q,
         \A s \in SUBSET S : (\A t \in SUBSET s : t # s => t \in Q) => s \in Q
  PROVE  \A s \in SUBSET S : s \in Q
<1> DEFINE Bad == {s \in SUBSET S : s \notin Q}
<1> SUFFICES ASSUME Bad # {} PROVE FALSE
  OBVIOUS
<1>1. Bad \subseteq FiniteSubsetsOf(S)
  BY FS_Subset DEF FiniteSubsetsOf
<1>2. PICK x \in Bad : \A y \in Bad : ~ (<<y, x>> \in StrictSubsetOrdering(S))
  <2> HIDE DEF Bad
  <2> QED BY <1>1, FS_StrictSubsetOrderingWellFounded, WFMin
<1>3. \A t \in SUBSET x : t # x => t \in Q
  BY <1>2 DEF StrictSubsetOrdering
<1> QED BY <1>2, <1>3

LEMMA PickIn == ASSUME NEW S, S # {} PROVE Pick(S) \in S
  BY DEF Pick

LEMMA AddsAt ==
  ASSUME NEW S, NEW f, NEW g, Adds(g, f, S), NEW s \in SUBSET S
  PROVE  g[s] = IF s = {} THEN 0 ELSE f[Pick(s)] + g[s \ {Pick(s)}]
  BY DEF Adds

(* Two such functions agree where their terms do.                          *)
LEMMA AddsOnce ==
  ASSUME NEW S, IsFiniteSet(S), NEW f, NEW g, Adds(g, f, S),
         NEW T, NEW k, NEW h, Adds(h, k, T), S \subseteq T, \A x \in S : f[x] = k[x]
  PROVE  \A s \in SUBSET S : g[s] = h[s]
<1> DEFINE Q == {s \in SUBSET S : g[s] = h[s]}
<1>1. ASSUME NEW s \in SUBSET S, \A t \in SUBSET s : t # s => t \in Q
      PROVE  g[s] = h[s]
  <2>1. g[s] = IF s = {} THEN 0 ELSE f[Pick(s)] + g[s \ {Pick(s)}]
    BY AddsAt
  <2>2. h[s] = IF s = {} THEN 0 ELSE k[Pick(s)] + h[s \ {Pick(s)}]
    BY AddsAt
  <2>3. s # {} => Pick(s) \in s
    BY PickIn
  <2>4. s # {} => g[s \ {Pick(s)}] = h[s \ {Pick(s)}]
    BY <1>1, <2>3
  <2> QED BY <2>1, <2>2, <2>3, <2>4
<1>2. \A s \in SUBSET S : s \in Q
  <2>1. \A s \in SUBSET S : (\A t \in SUBSET s : t # s => t \in Q) => s \in Q
    BY <1>1
  <2> HIDE DEF Q
  <2> QED BY <2>1, SubsetInduction
<1> QED BY <1>2

LEMMA AddsSubset ==
  ASSUME NEW S, IsFiniteSet(S), NEW f,
         \A t \in SUBSET S : t # S => \E g : Adds(g, f, t)
  PROVE  \E g : Adds(g, f, S)
<1> DEFINE sum(t) == (CHOOSE g : Adds(g, f, t))[t]
           val(t) == IF t = {} THEN 0 ELSE f[Pick(t)] + sum(t \ {Pick(t)})
           h == [t \in SUBSET S |-> val(t)]
<1>1. ASSUME NEW t \in SUBSET S, t # S PROVE sum(t) = val(t)
  <2> DEFINE g == CHOOSE g : Adds(g, f, t)
  <2>1. Adds(g, f, t)
    BY <1>1
  <2>2. CASE t = {}
    BY <2>1, <2>2, AddsAt
  <2>3. CASE t # {}
    <3> DEFINE r == t \ {Pick(t)}
               k == CHOOSE k : Adds(k, f, r)
    <3>1. Pick(t) \in t /\ r \in SUBSET S /\ r # S /\ r \subseteq t
      BY <2>3, PickIn
    <3>2. Adds(k, f, r)
      BY <3>1
    <3>3. IsFiniteSet(r)
      BY <3>1, FS_Subset
    <3>4. k[r] = g[r]
      <4> HIDE DEF g, k, r
      <4> QED BY <2>1, <3>1, <3>2, <3>3, AddsOnce
    <3>5. g[t] = f[Pick(t)] + g[r]
      <4> HIDE DEF g
      <4> QED BY <2>1, <2>3, AddsAt
    <3> QED BY <2>3, <3>4, <3>5
  <2> QED BY <2>2, <2>3
<1>2. Adds(h, f, S)
  <2>1. ASSUME NEW t \in SUBSET S, t # {} PROVE h[t \ {Pick(t)}] = sum(t \ {Pick(t)})
    <3>1. Pick(t) \in t
      BY <2>1, PickIn
    <3>2. t \ {Pick(t)} \in SUBSET S /\ t \ {Pick(t)} # S
      BY <3>1
    <3> HIDE DEF sum, val
    <3> QED BY <1>1, <3>2
  <2>2. \A t \in SUBSET S : val(t) = IF t = {} THEN 0 ELSE f[Pick(t)] + h[t \ {Pick(t)}]
    <3> HIDE DEF sum, h
    <3> QED BY <2>1
  <2> HIDE DEF sum, val
  <2> QED BY <2>2 DEF Adds
<1> QED BY <1>2

LEMMA AddsExists ==
  ASSUME NEW S, IsFiniteSet(S), NEW f
  PROVE  \E g : Adds(g, f, S)
<1> DEFINE Q == {s \in SUBSET S : \E g : Adds(g, f, s)}
<1>1. ASSUME NEW s \in SUBSET S, \A t \in SUBSET s : t # s => t \in Q
      PROVE  \E g : Adds(g, f, s)
  <2>1. IsFiniteSet(s)
    BY FS_Subset
  <2>2. \A t \in SUBSET s : t # s => \E g : Adds(g, f, t)
    BY <1>1
  <2> QED BY <2>1, <2>2, AddsSubset
<1>2. \A s \in SUBSET S : s \in Q
  <2>1. \A s \in SUBSET S : (\A t \in SUBSET s : t # s => t \in Q) => s \in Q
    BY <1>1
  <2> HIDE DEF Q
  <2> QED BY <2>1, SubsetInduction
<1> QED BY <1>2

(* The sum of nothing, and of a set of which one element is taken.         *)
LEMMA SumOfNone == ASSUME NEW f PROVE SumFunctionOnSet(f, {}) = 0
<1> DEFINE g == CHOOSE g : Adds(g, f, {})
<1>1. Adds(g, f, {})
  BY AddsExists, FS_EmptySet
<1>2. g[{}] = 0
  <2> HIDE DEF g
  <2> QED BY <1>1, AddsAt
<1> QED BY <1>2, SumUnfolds

(* A sum as the values of one function on all the subsets of a set.        *)
LEMMA SumsOf ==
  ASSUME NEW S, IsFiniteSet(S), NEW f
  PROVE  \A s \in SUBSET S : 
           SumFunctionOnSet(f, s) = IF s = {} THEN 0 ELSE f[Pick(s)] + SumFunctionOnSet(f, s \ {Pick(s)})
<1> DEFINE g == CHOOSE g : Adds(g, f, S)
<1>1. Adds(g, f, S)
  BY AddsExists
<1>2. \A s \in SUBSET S : SumFunctionOnSet(f, s) = g[s]
  <2> SUFFICES ASSUME NEW s \in SUBSET S PROVE SumFunctionOnSet(f, s) = g[s]
    OBVIOUS
  <2> DEFINE h == CHOOSE h : Adds(h, f, s)
  <2>1. Adds(h, f, s) /\ IsFiniteSet(s)
    BY AddsExists, FS_Subset
  <2>2. h[s] = g[s]
    <3> HIDE DEF g, h
    <3> QED BY <1>1, <2>1, AddsOnce
  <2> QED BY <2>2, SumUnfolds
<1> QED
  <2> HIDE DEF g
  <2>1. \A s \in SUBSET S : g[s] = IF s = {} THEN 0 ELSE f[Pick(s)] + g[s \ {Pick(s)}]
    BY <1>1, AddsAt
  <2> QED BY <1>2, <2>1

LEMMA SumInt ==
  ASSUME NEW S, IsFiniteSet(S), NEW f, \A x \in S : f[x] \in Int
  PROVE  SumFunctionOnSet(f, S) \in Int
<1> DEFINE Q == {s \in SUBSET S : SumFunctionOnSet(f, s) \in Int}
<1>0. \A s \in SUBSET S :
        SumFunctionOnSet(f, s) = IF s = {} THEN 0 ELSE f[Pick(s)] + SumFunctionOnSet(f, s \ {Pick(s)})
  BY SumsOf
<1>1. ASSUME NEW s \in SUBSET S, \A t \in SUBSET s : t # s => t \in Q
      PROVE  SumFunctionOnSet(f, s) \in Int
  <2>1. SumFunctionOnSet(f, s) = IF s = {} THEN 0 ELSE f[Pick(s)] + SumFunctionOnSet(f, s \ {Pick(s)})
    BY <1>0
  <2>2. s # {} => Pick(s) \in s
    BY PickIn
  <2>3. s # {} => SumFunctionOnSet(f, s \ {Pick(s)}) \in Int
    BY <1>1, <2>2
  <2> QED BY <2>1, <2>2, <2>3
<1>2. \A s \in SUBSET S : s \in Q
  <2>1. \A s \in SUBSET S : (\A t \in SUBSET s : t # s => t \in Q) => s \in Q
    BY <1>1
  <2> HIDE DEF Q
  <2> QED BY <2>1, SubsetInduction
<1> QED BY <1>2

(* A sum is one of its terms and the sum of the others, whichever is taken.*)
LEMMA SumTakes ==
  ASSUME NEW S, IsFiniteSet(S), NEW f, \A x \in S : f[x] \in Int, NEW x \in S
  PROVE  SumFunctionOnSet(f, S) = f[x] + SumFunctionOnSet(f, S \ {x})
<1> DEFINE sum(s) == SumFunctionOnSet(f, s)
           Q == {s \in SUBSET S : \A y \in s : sum(s) = f[y] + sum(s \ {y})}
<1>00. \A s \in SUBSET S : sum(s) = IF s = {} THEN 0 ELSE f[Pick(s)] + sum(s \ {Pick(s)})
  BY SumsOf
<1>0. \A s \in SUBSET S : sum(s) \in Int
  BY SumInt, FS_Subset
<1>1. ASSUME NEW s \in SUBSET S, \A t \in SUBSET s : t # s => t \in Q, NEW y \in s
      PROVE  sum(s) = f[y] + sum(s \ {y})
  <2> DEFINE p == Pick(s)
  <2>1. p \in s
    BY PickIn
  <2>2. sum(s) = f[p] + sum(s \ {p})
    BY <1>00
  <2>3. CASE y = p
    BY <2>2, <2>3
  <2>4. CASE y # p
    <3>1. sum(s \ {p}) = f[y] + sum((s \ {p}) \ {y})
      <4>1. s \ {p} \in Q /\ y \in s \ {p}
        BY <1>1, <2>1, <2>4
      <4> QED BY <4>1
    <3>2. sum(s \ {y}) = f[p] + sum((s \ {y}) \ {p})
      <4>1. s \ {y} \in Q /\ p \in s \ {y}
        BY <1>1, <2>1, <2>4
      <4> QED BY <4>1
    <3>3. (s \ {p}) \ {y} = (s \ {y}) \ {p}
      OBVIOUS
    <3>4. f[p] \in Int /\ f[y] \in Int /\ sum((s \ {y}) \ {p}) \in Int
      BY <1>0, <2>1
    <3>5. sum(s) = f[p] + (f[y] + sum((s \ {y}) \ {p})) /\ f[y] + sum(s \ {y}) = f[y] + (f[p] + sum((s \ {y}) \ {p}))
      BY <2>2, <3>1, <3>2, <3>3
    <3> QED BY <3>4, <3>5
  <2> QED BY <2>3, <2>4
<1>2. \A s \in SUBSET S : s \in Q
  <2>1. \A s \in SUBSET S : (\A t \in SUBSET s : t # s => t \in Q) => s \in Q
    BY <1>1
  <2> HIDE DEF Q
  <2> QED BY <2>1, SubsetInduction
<1> QED BY <1>2

(* Sums of the same terms are the same.                                    *)
LEMMA SumAgrees ==
  ASSUME NEW S, IsFiniteSet(S), NEW f, NEW k, \A x \in S : f[x] = k[x]
  PROVE  SumFunctionOnSet(f, S) = SumFunctionOnSet(k, S)
<1> DEFINE g == CHOOSE g : Adds(g, f, S)
           h == CHOOSE h : Adds(h, k, S)
<1>1. Adds(g, f, S) /\ Adds(h, k, S)
  BY AddsExists
<1>2. g[S] = h[S]
  <2> HIDE DEF g, h
  <2> QED BY <1>1, AddsOnce
<1> QED BY <1>2, SumUnfolds

-----------------------------------------------------------------------------
(* What is filled stays within the equity seen.                            *)

Worth(t) == t.qty * t.price

LEMMA WorthNat == ASSUME NEW t \in Trades PROVE Worth(t) \in Nat
BY ProductNat DEF Worth, Trades

(* One trade's part of the exposure.                                       *)
LEMMA ExposureTakes ==
  ASSUME NEW S, S \subseteq Trades, IsFiniteSet(S), NEW t \in S
  PROVE  /\ Exposure(S) = Worth(t) + Exposure(S \ {t})
         /\ Exposure(S) \in Int /\ Exposure(S \ {t}) \in Int
<1> DEFINE f == [x \in S |-> x.qty * x.price]
           k == [x \in S \ {t} |-> x.qty * x.price]
<1>1. \A x \in S : f[x] \in Int
  BY WorthNat DEF Worth
<1>2. IsFiniteSet(S \ {t})
  BY FS_Subset
<1>3. f[t] = Worth(t)
  BY DEF Worth
<1>4. \A x \in S \ {t} : f[x] = k[x]
  OBVIOUS
<1>5. Exposure(S) = SumFunctionOnSet(f, S) /\ Exposure(S \ {t}) = SumFunctionOnSet(k, S \ {t})
  BY DEF Exposure
<1> HIDE DEF f, k
<1>6. SumFunctionOnSet(f, S) = f[t] + SumFunctionOnSet(f, S \ {t})
  BY <1>1, SumTakes
<1>7. SumFunctionOnSet(f, S \ {t}) = SumFunctionOnSet(k, S \ {t})
  BY <1>2, <1>4, SumAgrees
<1>8. SumFunctionOnSet(f, S) \in Int /\ SumFunctionOnSet(f, S \ {t}) \in Int
  BY <1>1, <1>2, SumInt
<1> QED BY <1>3, <1>5, <1>6, <1>7, <1>8

LEMMA ExposureInt ==
  ASSUME NEW S, S \subseteq Trades, IsFiniteSet(S) PROVE Exposure(S) \in Int
<1>1. CASE S = {}
  BY <1>1, SumOfNone DEF Exposure
<1>2. CASE S # {}
  BY <1>2, ExposureTakes
<1> QED BY <1>1, <1>2

(* A trade more adds at most its worth: nothing if it was there.           *)
LEMMA ExposureAdds ==
  ASSUME NEW S, S \subseteq Trades, IsFiniteSet(S), NEW t \in Trades
  PROVE  Exposure(S \cup {t}) <= Exposure(S) + Worth(t) /\ Exposure(S \cup {t}) \in Int
<1>0. Worth(t) \in Nat /\ Exposure(S) \in Int
  BY WorthNat, ExposureInt
<1>1. CASE t \in S
  <2>1. S \cup {t} = S
    BY <1>1
  <2>2. Exposure(S \cup {t}) = Exposure(S)
    BY <2>1, Zenon
  <2> QED BY <1>0, <2>2
<1>2. CASE t \notin S
  <2>1. (S \cup {t}) \ {t} = S /\ S \cup {t} \subseteq Trades /\ IsFiniteSet(S \cup {t})
    BY <1>2, FS_AddElement
  <2>2. Exposure(S \cup {t}) = Worth(t) + Exposure((S \cup {t}) \ {t}) /\ Exposure(S \cup {t}) \in Int
    BY <2>1, ExposureTakes
  <2>3. Exposure((S \cup {t}) \ {t}) = Exposure(S)
    BY <2>1, Zenon
  <2> QED BY <1>0, <2>2, <2>3
<1> QED BY <1>1, <1>2

(* What makes the fills keep within: the order in flight is the last sent, *)
(* and fits at its signal's price; once settled, its own slippage is all   *)
(* that may be above.                                                      *)
FillInv ==
  /\ order # NoOrder => /\ last = [seen |-> order.seen, qty |-> order.qty]
                        /\ order.notional = order.qty * order.price
                        /\ order.seen # None => Gross + order.notional <= order.seen
  /\ order = NoOrder /\ last.seen # None => Gross <= last.seen + Slip * last.qty

LEMMA FillInit == Init => FillInv
BY DEF Init, FillInv

(* A fill is worth at most the order's notional and its slippage.          *)
LEMMA FillWorth ==
  ASSUME NEW q \in Nat, NEW n \in Nat, q <= n, NEW p \in Nat, NEW a \in Nat, NEW d \in Nat, p <= a + d
  PROVE  q * p <= n * a + d * n
<1>1. q * p <= q * (a + d)
  BY ProductMonotone
<1>2. (a + d) * q <= (a + d) * n
  BY ProductMonotone
<1>3. q * (a + d) = (a + d) * q /\ (a + d) * n = n * a + d * n
  OBVIOUS
<1>4. q * p \in Nat /\ (a + d) * q \in Nat /\ (a + d) * n \in Nat
  BY ProductNat
<1> QED BY <1>1, <1>2, <1>3, <1>4

LEMMA FillStep == TypeInv /\ FillInv /\ [Next]_vars => FillInv'
<1> SUFFICES ASSUME TypeInv, FillInv, [Next]_vars PROVE FillInv'
  OBVIOUS
<1>0. /\ trades \subseteq Trades /\ IsFiniteSet(trades) /\ Gross \in Int
      /\ order \in Orders /\ last \in [seen : Seen, qty : Nat] /\ Slip \in Nat
      /\ \A x \in Seen : x \in Int
  <2>1. trades \subseteq Trades /\ IsFiniteSet(trades) /\ order \in Orders
    BY DEF TypeInv, TypeOK
  <2> QED BY <2>1, ExposureInt, MoneyAssumption DEF TypeInv, TypeOK, Gross, Seen, None
<1>1. CASE Settles
  <2>1. PICK q \in 0..order.qty, p \in order.price..(order.price + Slip) : trades' = RecordEntry(q, p)
    BY <1>1 DEF Settles
  <2>2. /\ order # NoOrder /\ order' = NoOrder /\ last' = last
        /\ order.price \in Nat \ {0} /\ order.qty \in Nat /\ order.notional \in Nat
    BY <1>0, <1>1 DEF Settles, TypeInv, Orders
  <2>3. q \in Nat /\ q <= order.qty /\ p \in Nat \ {0} /\ p <= order.price + Slip
    BY <1>0, <2>1, <2>2
  <2>4. last.qty = order.qty /\ last.seen = order.seen /\ order.notional = order.qty * order.price
    BY <2>2 DEF FillInv
  <2>5. Slip * order.qty \in Nat
    BY <1>0, <2>2, ProductNat
  <2>6. Gross' <= Gross + order.notional + Slip * order.qty
    <3>1. CASE q = 0
      <4>1. Gross' = Gross
        BY <2>1, <3>1 DEF RecordEntry, Gross
      <4> QED BY <1>0, <2>2, <2>5, <4>1
    <3>2. CASE q # 0
      <4> DEFINE t == NewTrade(q, p)
      <4>1. \E i \in 1..MaxTrades : \A u \in trades : u.id # i
        BY <1>0, <2>2, FreeId DEF TypeInv
      <4>2. t \in Trades /\ t.qty = q /\ t.price = p
        <5>1. q \in Nat \ {0}
          BY <2>3, <3>2
        <5> QED BY <1>0, <2>3, <4>1, <5>1 DEF NewTrade, Trades, Orders
      <4>3. trades' = trades \cup {t}
        BY <2>1, <3>2 DEF RecordEntry
      <4> HIDE DEF t
      <4>4. Gross' <= Gross + Worth(t) /\ Gross' \in Int
        BY <1>0, <4>2, <4>3, ExposureAdds DEF Gross
      <4>5. Worth(t) <= order.qty * order.price + Slip * order.qty
        <5>1. q * p <= order.qty * order.price + Slip * order.qty
          BY <1>0, <2>2, <2>3, FillWorth
        <5> QED BY <4>2, <5>1 DEF Worth
      <4>6. Worth(t) \in Nat
        BY <4>2, WorthNat
      <4> QED BY <1>0, <2>2, <2>4, <2>5, <4>4, <4>5, <4>6
    <3> QED BY <3>1, <3>2
  <2>7. order.seen # None => Gross + order.notional <= order.seen
    BY <2>2 DEF FillInv
  <2>8. Gross' \in Int
    <3>1. trades' \subseteq Trades /\ IsFiniteSet(trades')
      BY TypeStep DEF TypeInv, TypeOK
    <3> QED BY <3>1, ExposureInt DEF Gross
  <2>9. last.seen # None => Gross' <= last.seen + Slip * last.qty
    <3>1. order.seen \in Int
      BY <1>0 DEF Orders
    <3> QED BY <1>0, <2>2, <2>4, <2>5, <2>6, <2>7, <2>8, <3>1
  <2> QED BY <2>2, <2>9 DEF FillInv
<1>2. CASE Exit
  <2>0. PICK t \in trades : \E q \in 0..(t.qty - 1) : trades' = (trades \ {t}) \cup Rest(t, q)
    BY <1>2 DEF Exit
  <2>1. PICK q \in 0..(t.qty - 1) : trades' = (trades \ {t}) \cup Rest(t, q)
    BY <2>0
  <2>2. order = NoOrder /\ order' = NoOrder /\ last' = last
    BY <1>2 DEF Exit, Idle
  <2>3. t \in Trades /\ Worth(t) \in Nat /\ q \in Nat /\ q <= t.qty
    BY <1>0, <2>1, WorthNat DEF Trades
  <2> DEFINE S == trades \ {t}
  <2>4. /\ Exposure(trades) = Worth(t) + Exposure(S) /\ Exposure(S) \in Int
        /\ S \subseteq Trades /\ IsFiniteSet(S)
    BY <1>0, <2>0, ExposureTakes, FS_Subset
  <2>5. Gross' <= Gross /\ Gross' \in Int
    <3>1. CASE q = 0
      <4>1. trades' = S
        BY <2>1, <3>1 DEF Rest
      <4> HIDE DEF S
      <4> QED BY <2>3, <2>4, <4>1 DEF Gross
    <3>2. CASE q # 0
      <4> DEFINE u == [t EXCEPT !.qty = q]
      <4>1. trades' = S \cup {u}
        BY <2>1, <3>2 DEF Rest
      <4>2. u \in Trades /\ u.qty = q /\ u.price = t.price
        BY <2>3, <3>2 DEF Trades
      <4> HIDE DEF S, u
      <4>3. Exposure(S \cup {u}) <= Exposure(S) + Worth(u) /\ Exposure(S \cup {u}) \in Int
        BY <2>4, <4>2, ExposureAdds
      <4>4. Worth(u) <= Worth(t)
        <5>1. t.price * q <= t.price * t.qty
          BY <2>3, ProductMonotone DEF Trades
        <5>2. t.price * q = q * t.price /\ t.price * t.qty = t.qty * t.price
          BY <2>3 DEF Trades
        <5> QED BY <4>2, <5>1, <5>2 DEF Worth
      <4>5. Worth(u) \in Nat
        BY <4>2, WorthNat
      <4> QED BY <2>3, <2>4, <4>1, <4>3, <4>4, <4>5 DEF Gross
    <3> QED BY <3>1, <3>2
  <2>6. last.seen # None => Gross' <= last.seen + Slip * last.qty
    <3>1. last.seen # None => Gross <= last.seen + Slip * last.qty
      BY <2>2 DEF FillInv
    <3>2. last.seen + Slip * last.qty \in Int
      <4>1. Slip * last.qty \in Nat
        BY <1>0, ProductNat
      <4> QED BY <1>0, <4>1
    <3> QED BY <1>0, <2>5, <3>1, <3>2
  <2> QED BY <2>2, <2>6 DEF FillInv
<1>3. ASSUME NEW sl \in Sleeves, NEW e \in Entries(sl), Gate(sl, e)
      PROVE  FillInv'
  <2>1. trades' = trades /\ order = NoOrder
    BY <1>3 DEF Gate, Idle
  <2>2. Gross' = Gross
    BY <2>1 DEF Gross
  <2>3. CASE order' = NoOrder /\ last' = last
    BY <2>1, <2>2, <2>3 DEF FillInv
  <2>4. CASE ~(order' = NoOrder /\ last' = last)
    <3>1. PICK x \in Seen : /\ order' = [e EXCEPT !.seen = x] /\ last' = [seen |-> x, qty |-> e.qty]
                            /\ Fits(e.notional, [memory' EXCEPT !.eq = x])
      BY <1>3, <2>4, GateEffect DEF TypeInv
    <3>2. e \in Orders /\ memory' \in Memories /\ e.qty > 0 /\ e.notional = e.qty * e.price
      BY <1>3, EntryFormed, GateEffect DEF TypeInv, Gate
    <3>3. /\ order'.notional = e.notional /\ order'.qty = e.qty /\ order'.price = e.price
          /\ order'.seen = x
      BY <3>1, <3>2 DEF Orders
    <3>4. order' # NoOrder
      BY <3>2, <3>3 DEF NoOrder, Orders
    <3>5. x # None => Gross + e.notional <= x
      BY <3>1, <3>2 DEF Fits, Memories
    <3> QED BY <2>2, <3>1, <3>2, <3>3, <3>4, <3>5 DEF FillInv
  <2> QED BY <2>3, <2>4
<1>4. CASE Crash
  <2>1. order' = NoOrder /\ last' = last /\ Gross' = Gross
    BY <1>4 DEF Crash, Gross
  <2>2. last.seen # None => Gross <= last.seen + Slip * last.qty
    <3>1. order.notional \in Nat /\ order.seen \in Int /\ Slip * last.qty \in Nat
      BY <1>0, ProductNat DEF Orders
    <3>2. CASE order # NoOrder
      <4>1. last.seen = order.seen /\ (order.seen # None => Gross + order.notional <= order.seen)
        BY <3>2 DEF FillInv
      <4> QED BY <1>0, <3>1, <4>1
    <3>3. CASE order = NoOrder
      BY <3>3 DEF FillInv
    <3> QED BY <3>2, <3>3
  <2> QED BY <2>1, <2>2 DEF FillInv
<1>5. CASE RiskTick \/ Tell \/ Market \/ Ages \/ Opens \/ Closes \/ NewDay \/ UNCHANGED vars
  <2>1. trades' = trades /\ order' = order /\ last' = last
    BY <1>5 DEF RiskTick, Tell, Market, Ages, Opens, Closes, NewDay, vars
  <2> QED BY <2>1 DEF FillInv, Gross
<1> QED BY <1>1, <1>2, <1>3, <1>4, <1>5 DEF Next

(* FilledWithinEquity: the exposure the sleeves' orders were filled for,   *)
(* whatever they slipped, exited or lost in a restart, is above the equity *)
(* the last entry was gated on by that entry's slippage at most.           *)
THEOREM FilledWithinEquity == Spec => []FillsWithinEquity
<1>1. TypeInv /\ FillInv => FillsWithinEquity
  <2> SUFFICES ASSUME TypeInv, FillInv, last.seen # None
               PROVE  Gross + order.notional <= last.seen + Slip * last.qty
    BY DEF FillsWithinEquity
  <2>1. /\ Gross \in Int /\ last.seen \in Int /\ Slip * last.qty \in Nat /\ order \in Orders
    <3>1. last \in [seen : Seen, qty : Nat] /\ trades \subseteq Trades /\ IsFiniteSet(trades) /\ order \in Orders
      BY DEF TypeInv, TypeOK
    <3>2. Slip * last.qty \in Nat
      BY <3>1, ProductNat, MoneyAssumption
    <3>3. Gross \in Int
      BY <3>1, ExposureInt DEF Gross
    <3>4. last.seen \in Int
      <4>1. last.seen \in Seen
        BY <3>1
      <4>2. \A x \in Seen : x \in Int
        BY MoneyAssumption DEF Seen, None
      <4> QED BY <4>1, <4>2
    <3> QED BY <3>1, <3>2, <3>3, <3>4
  <2>2. CASE order = NoOrder
    <3>1. order.notional = 0 /\ Gross <= last.seen + Slip * last.qty
      BY <2>2 DEF FillInv, NoOrder
    <3> QED BY <2>1, <3>1
  <2>3. CASE order # NoOrder
    <3>1. last.seen = order.seen /\ Gross + order.notional <= order.seen
      BY <2>3 DEF FillInv
    <3>2. order.notional \in Nat
      BY <2>1 DEF Orders
    <3> QED BY <2>1, <3>1, <3>2
  <2> QED BY <2>2, <2>3
<1> QED BY <1>1, TypeAlways, FillInit, FillStep, PTL DEF Spec
=============================================================================
