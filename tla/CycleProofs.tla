---------------------------- MODULE CycleProofs ----------------------------
(***************************************************************************)
(* The live cycle implements the sleeve's rules and makes the trades of    *)
(* the replay, for every list of symbols, every bound and every reading of *)
(* every bar, wherever the process is killed but at the places named.      *)
(***************************************************************************)
EXTENDS Cycle, FiniteSetTheorems, NaturalsInduction, SequenceTheorems, WellFoundedInduction, TLAPS

Side == Sides \cup {"none"}
Place == [side : Side, entry : Nat, last : Nat, age : Nat]
Row == [side : Side, entry : Nat]
Parts == {"exits", "exitbar", "entries", "twin", "write"}

Types ==
  /\ kind \in Kinds /\ up \in BOOLEAN /\ pc \in Parts \cup {"idle", "over"}
  /\ tape \in Seq(Readings) /\ at \in 1..Len(Order)
  /\ pos \in [Symbols -> Place] /\ rows \in [Symbols -> Row]
  /\ exitBar \in [Symbols -> Nat] /\ left \in [Symbols -> Nat] /\ exitRow \in [Symbols -> Nat]
  /\ lastMark \in Nat /\ cycled \in Nat

\* A position has counted no more bars than there were since its entry.
Aged(p) == p.entry + p.age <= p.last /\ p.last <= Now
PositionsAged == \A s \in Symbols : Aged(pos[s])

\* A running process holds in memory what is open in the store.
Remembered == up => \A s \in Symbols : pos[s].side = rows[s].side /\ pos[s].entry = rows[s].entry

\* A trade opened on the newest bar is on the side the bar asked to enter,
\* whose exit rule therefore does not hold on it.
RowsYoung ==
  \A s \in Symbols :
    /\ rows[s].side = "none" => rows[s] = NoRow
    /\ rows[s].side # "none" => rows[s].entry <= Now /\ (rows[s].entry = Now => rows[s].side \notin Said(s).out)

\* Unless the process may be killed between the two writes of an exit, the
\* cooldowns in memory, and those a bar sleeve will read, are those of the
\* last exits, but for the exit whose second write is still to come.
LateExit(s) == pc = "exitbar" /\ s = Here
ExitsKnown ==
  "exitbar" \notin KillAt =>
  /\ \A s \in Symbols : ~LateExit(s) => (up => exitBar[s] = left[s]) /\ (kind = "bar" => exitRow[s] = left[s])
  /\ pc = "exitbar" => left[Here] = Now /\ kind = "bar"

Running == pc \in Parts => up /\ Now >= 1

CycleInv == Types /\ PositionsAged /\ Remembered /\ RowsYoung /\ ExitsKnown /\ Running

-----------------------------------------------------------------------------
(* Lemmas                                                                  *)

LEMMA HereIsSymbol == ASSUME CycleInv PROVE Here \in Symbols /\ Now \in Nat /\ Len(Order) \in Nat
<1>1. Order \in Seq(Symbols) /\ at \in 1..Len(Order) /\ tape \in Seq(Readings)
  BY OrderAssumption DEF CycleInv, Types
<1> QED BY <1>1, ElementOfSeq, LenProperties DEF Here, Now

(* The readings of a bar that completed.                                   *)
LEMMA SaidOfBar ==
  ASSUME CycleInv, Now >= 1, NEW s \in Symbols
  PROVE  Said(s).entry \in Side /\ Said(s).entry \notin Said(s).out
<1>1. tape \in Seq(Readings) /\ Now \in Nat
  BY HereIsSymbol DEF CycleInv, Types
<1>2. tape[Now] \in Readings
  BY <1>1, ElementOfSeq DEF Now
<1> QED BY <1>2, ExitAssumption, ReadingsAssumption DEF Said, Reading, Side

LEMMA Advanced ==
  ASSUME CycleInv, NEW next, Advance(next)
  PROVE  at' \in 1..Len(Order) /\ pc' \in {pc, next}
<1>1. at \in 1..Len(Order) /\ Len(Order) \in Nat
  BY HereIsSymbol DEF CycleInv, Types
<1>2. CASE at = Len(Order)
  BY <1>1, <1>2 DEF Advance
<1>3. CASE at # Len(Order)
  BY <1>1, <1>3 DEF Advance
<1> QED BY <1>2, <1>3

(* One more bar, seen by a position of the sleeve or of its twin.          *)
LEMMA OnBarAges ==
  ASSUME NEW p \in Place, Aged(p), Now \in Nat
  PROVE  /\ OnBar(p, Now) \in Place /\ Aged(OnBar(p, Now))
         /\ OnBar(p, Now).side = p.side /\ OnBar(p, Now).entry = p.entry
<1>1. p.entry \in Nat /\ p.last \in Nat /\ p.age \in Nat /\ p.entry + p.age <= p.last /\ p.last <= Now
  BY DEF Aged, Place
<1>2. CASE Now > p.last
  <2> DEFINE k == [p EXCEPT !.last = Now]
             m == [k EXCEPT !.age = p.age + 1]
  <2>1. k \in Place /\ k.last = Now /\ k.side = p.side /\ k.entry = p.entry
    BY DEF Place
  <2>2. OnBar(p, Now) = m
    BY <1>2 DEF OnBar, Place
  <2> HIDE DEF k
  <2>3. m \in Place /\ m.last = k.last /\ m.age = p.age + 1 /\ m.side = k.side /\ m.entry = k.entry
    BY <1>1, <2>1 DEF Place
  <2> HIDE DEF m
  <2>4. Aged(m)
    BY <1>1, <1>2, <2>1, <2>3 DEF Aged
  <2> QED BY <2>1, <2>2, <2>3, <2>4
<1>3. CASE ~(Now > p.last)
  <2>1. OnBar(p, Now) = p
    BY <1>3 DEF OnBar
  <2> QED BY <2>1
<1> QED BY <1>2, <1>3

(* Counting bars keeps what a position is and ages it by no more than      *)
(* there were.                                                             *)
LEMMA CountedAges ==
  ASSUME CycleInv, NEW s \in Symbols
  PROVE  /\ Counted(pos[s]) \in Place /\ Aged(Counted(pos[s]))
         /\ Counted(pos[s]).side = pos[s].side /\ Counted(pos[s]).entry = pos[s].entry
<1> DEFINE p == pos[s]
<1>1. p \in Place /\ Now \in Nat /\ Aged(p) /\ kind \in Kinds
  BY HereIsSymbol DEF CycleInv, Types, PositionsAged
<1>2. p.entry \in Nat /\ p.last \in Nat /\ p.age \in Nat /\ p.entry + p.age <= p.last /\ p.last <= Now
  BY <1>1 DEF Aged, Place
<1> HIDE DEF p
<1>3. CASE kind = "bar"
  <2> DEFINE k == [p EXCEPT !.age = p.age + (Now - p.last)]
             m == [k EXCEPT !.last = Now]
  <2>1. k \in Place /\ k.age = p.age + (Now - p.last) /\ k.side = p.side /\ k.entry = p.entry
    <3>1. p.age + (Now - p.last) \in Nat
      BY <1>1, <1>2
    <3> QED BY <1>1, <3>1 DEF Place
  <2>2. Counted(p) = m
    BY <1>1, <1>3 DEF Counted, Place
  <2> HIDE DEF k
  <2>3. m \in Place /\ m.last = Now /\ m.age = k.age /\ m.side = k.side /\ m.entry = k.entry
    BY <1>1, <2>1 DEF Place
  <2> HIDE DEF m
  <2>4. Aged(m)
    BY <1>1, <1>2, <2>1, <2>3 DEF Aged
  <2> QED BY <2>1, <2>2, <2>3, <2>4 DEF p
<1>4. CASE kind # "bar"
  BY <1>1, <1>4, OnBarAges DEF Counted, p
<1> QED BY <1>3, <1>4

(* Whatever makes a position leave, it was entered on an earlier bar.      *)
LEMMA LeavesLater ==
  ASSUME CycleInv, pc = "exits", Due
  PROVE  rows[Here].side # "none" /\ rows[Here].entry < Now
<1> DEFINE p == Counted(pos[Here])
           r == Said(Here)
<1>1. /\ Here \in Symbols /\ Now \in Nat /\ Now >= 1 /\ up
      /\ pos[Here].side = rows[Here].side /\ pos[Here].entry = rows[Here].entry
      /\ rows[Here].side # "none" /\ rows[Here].entry \in Nat
  BY HereIsSymbol DEF CycleInv, Types, Running, Parts, Remembered, Due, Row
<1>2. p \in Place /\ Aged(p) /\ p.side = rows[Here].side /\ p.entry = rows[Here].entry
  BY <1>1, CountedAges
<1>3. rows[Here].entry <= Now /\ (rows[Here].entry = Now => p.side \notin r.out)
  BY <1>1, <1>2 DEF CycleInv, RowsYoung
<1>4. ExitReason(p, r) # "none"
  BY DEF Due
<1> HIDE DEF p, r
<1>5. SUFFICES ASSUME rows[Here].entry = Now PROVE FALSE
  BY <1>1, <1>3
<1>6. p.side \notin r.out /\ p.entry = Now /\ p.last = Now /\ p.age = 0
  BY <1>1, <1>2, <1>3, <1>5 DEF Aged, Place
<1>7. ~StopHit(p, r)
  BY <1>1, <1>6 DEF StopHit
<1>8. ~(p.age >= MaxHold)
  BY <1>6, BoundsAssumption
<1>9. ExitReason(p, r) = "none"
  BY <1>6, <1>7, <1>8 DEF ExitReason
<1> QED BY <1>4, <1>9

-----------------------------------------------------------------------------
(* The invariant                                                           *)

LEMMA InvInit == Init => CycleInv
<1> SUFFICES ASSUME Init PROVE CycleInv
  OBVIOUS
<1> USE DEF Init
<1>1. Len(Order) \in Nat /\ Len(Order) > 0
  BY OrderAssumption, LenProperties
<1>2. NoPos \in Place /\ NoRow \in Row /\ NoPos.side = NoRow.side /\ NoPos.entry = NoRow.entry
  BY DEF NoPos, NoRow, Place, Row, Side
<1>3. Now = 0
  BY DEF Now
<1>4. Types
  BY <1>1, <1>2 DEF Types
<1>5. PositionsAged
  BY <1>3 DEF PositionsAged, Aged, NoPos
<1>6. Remembered /\ RowsYoung
  BY <1>2 DEF Remembered, RowsYoung, NoRow
<1>7. ExitsKnown /\ Running
  BY DEF ExitsKnown, Running, Parts
<1> QED BY <1>4, <1>5, <1>6, <1>7 DEF CycleInv

LEMMA InvNewBar == CycleInv /\ NewBar => CycleInv'
<1> SUFFICES ASSUME CycleInv, NewBar PROVE CycleInv'
  OBVIOUS
<1> USE DEF CycleInv
<1>1. PICK r \in Readings : tape' = Append(tape, r)
  BY DEF NewBar
<1>2. tape' \in Seq(Readings) /\ Now' = Now + 1 /\ Now \in Nat
  BY <1>1, HereIsSymbol, AppendProperties DEF Types, Now
<1>3. pc = "idle" /\ pc' = pc /\ UNCHANGED <<kind, up, at, pos, exitBar, lastMark, rows, left, exitRow, cycled>>
  BY DEF NewBar, Memory, Store
<1>4. Types'
  BY <1>2, <1>3 DEF Types
<1>5. PositionsAged' /\ Remembered'
  BY <1>2, <1>3 DEF PositionsAged, Aged, Remembered, Types, Place
<1>6. RowsYoung'
  BY <1>2, <1>3 DEF RowsYoung, Types, Row
<1>7. ExitsKnown' /\ Running'
  BY <1>2, <1>3 DEF ExitsKnown, LateExit, Running, Parts
<1> QED BY <1>4, <1>5, <1>6, <1>7

(* A step that leaves the positions, the trades and the exits alone.       *)
LEMMA InvStands ==
  ASSUME CycleInv, UNCHANGED <<kind, tape, up, pos, exitBar, rows, left, exitRow>>,
         at' \in 1..Len(Order), pc # "exitbar", pc' # "exitbar", pc' \in Parts \cup {"idle", "over"},
         lastMark' \in Nat, cycled' \in Nat, pc' \in Parts => up /\ Now >= 1
  PROVE  CycleInv'
<1> USE DEF CycleInv
<1>1. Types' /\ PositionsAged' /\ Remembered'
  BY DEF Types, PositionsAged, Aged, Now, Remembered
<1>2. RowsYoung'
  BY DEF RowsYoung, Now, Said
<1>3. ExitsKnown' /\ Running'
  BY DEF ExitsKnown, LateExit, Running, Now
<1> QED BY <1>1, <1>2, <1>3

LEMMA InvBegins == CycleInv /\ (StartCycle \/ FetchFails) => CycleInv'
<1> SUFFICES ASSUME CycleInv, StartCycle \/ FetchFails PROVE CycleInv'
  OBVIOUS
<1>1. Now \in Nat /\ at \in 1..Len(Order) /\ 1 \in 1..Len(Order) /\ lastMark \in Nat /\ cycled \in Nat
  BY HereIsSymbol DEF CycleInv, Types
<1>2. /\ UNCHANGED <<kind, tape, up, pos, exitBar, rows, left, exitRow, cycled>>
      /\ up /\ pc = "idle" /\ lastMark < Now /\ lastMark' = Now
      /\ pc' \in {"exits", "write"} /\ at' \in {1, at}
  BY DEF StartCycle, FetchFails, Store
<1> QED BY <1>1, <1>2, InvStands DEF Parts

LEMMA InvNoEntry == CycleInv /\ (NoEntry \/ EntryUnfilled \/ TwinCycle \/ WriteCycle) => CycleInv'
<1> SUFFICES ASSUME CycleInv, NoEntry \/ EntryUnfilled \/ TwinCycle \/ WriteCycle PROVE CycleInv'
  OBVIOUS
<1>1. /\ at \in 1..Len(Order) /\ lastMark \in Nat /\ cycled \in Nat
      /\ pc \in Parts => up /\ Now >= 1
  BY DEF CycleInv, Types, Running
<1>2. UNCHANGED <<kind, tape, up, pos, exitBar, rows, left, exitRow, lastMark>>
  BY DEF NoEntry, EntryUnfilled, TwinCycle, WriteCycle, Memory, Store
<1>3. /\ pc \in {"entries", "twin", "write"} /\ pc' \in {"entries", "twin", "write", "idle"}
      /\ at' \in 1..Len(Order) /\ cycled' \in Nat
  <2>1. CASE NoEntry \/ EntryUnfilled
    <3>1. Advance("twin") /\ cycled' = cycled /\ pc = "entries"
      BY <2>1 DEF NoEntry, EntryUnfilled, Store
    <3> QED BY <1>1, <3>1, Advanced
  <2>2. CASE TwinCycle \/ WriteCycle
    BY <1>1, <2>2 DEF TwinCycle, WriteCycle
  <2> QED BY <2>1, <2>2
<1> QED BY <1>1, <1>2, <1>3, InvStands DEF Parts

(* A symbol looked at for an exit that keeps its position.                 *)
LEMMA InvStays == CycleInv /\ (ExitStays \/ ExitUnfilled) => CycleInv'
<1> SUFFICES ASSUME CycleInv, ExitStays \/ ExitUnfilled PROVE CycleInv'
  OBVIOUS
<1> USE DEF CycleInv
<1>1. /\ UNCHANGED <<kind, tape, up, exitBar, lastMark, rows, left, exitRow, cycled>>
      /\ pc = "exits" /\ Advance("entries")
      /\ pos' \in {pos, [pos EXCEPT ![Here] = Counted(pos[Here])]}
  BY DEF ExitStays, ExitUnfilled, Store
<1>2. at' \in 1..Len(Order) /\ pc' \in {"exits", "entries"}
  BY <1>1, Advanced
<1>3. /\ pos' \in [Symbols -> Place]
      /\ \A s \in Symbols : Aged(pos'[s]) /\ pos'[s].side = pos[s].side /\ pos'[s].entry = pos[s].entry
  <2>1. CASE pos' = pos
    BY <2>1 DEF Types, PositionsAged
  <2>2. CASE pos' = [pos EXCEPT ![Here] = Counted(pos[Here])]
    <3>1. Here \in Symbols
      BY HereIsSymbol
    <3>2. /\ Counted(pos[Here]) \in Place /\ Aged(Counted(pos[Here]))
          /\ Counted(pos[Here]).side = pos[Here].side /\ Counted(pos[Here]).entry = pos[Here].entry
      BY <3>1, CountedAges
    <3>3. pos' \in [Symbols -> Place] /\ \A s \in Symbols : pos'[s] = IF s = Here THEN Counted(pos[Here]) ELSE pos[s]
      BY <2>2, <3>1, <3>2 DEF Types
    <3> QED BY <3>2, <3>3 DEF PositionsAged
  <2> QED BY <1>1, <2>1, <2>2
<1>4. Types'
  BY <1>1, <1>2, <1>3 DEF Types, Parts
<1>5. PositionsAged' /\ Remembered'
  BY <1>1, <1>3 DEF PositionsAged, Aged, Remembered, Now
<1>6. RowsYoung'
  BY <1>1 DEF RowsYoung, Now, Said
<1>7. ExitsKnown' /\ Running'
  BY <1>1, <1>2 DEF ExitsKnown, LateExit, Running, Now, Parts
<1> QED BY <1>4, <1>5, <1>6, <1>7

LEMMA InvCloses == CycleInv /\ ExitCloses => CycleInv'
<1> SUFFICES ASSUME CycleInv, ExitCloses PROVE CycleInv'
  OBVIOUS
<1> USE DEF CycleInv
<1>1. /\ UNCHANGED <<kind, tape, up, lastMark, exitRow, cycled>> /\ pc = "exits"
      /\ pos' = [pos EXCEPT ![Here] = NoPos] /\ rows' = [rows EXCEPT ![Here] = NoRow]
      /\ left' = [left EXCEPT ![Here] = Now]
  BY DEF ExitCloses
<1>2. Here \in Symbols /\ Now \in Nat /\ up /\ Now >= 1
  BY <1>1, HereIsSymbol DEF Running, Parts
<1>3. NoPos \in Place /\ NoRow \in Row /\ NoPos.side = NoRow.side /\ NoPos.entry = NoRow.entry /\ Aged(NoPos)
  BY <1>2 DEF NoPos, NoRow, Place, Row, Side, Aged
<1>4. /\ pos' \in [Symbols -> Place] /\ \A s \in Symbols : pos'[s] = IF s = Here THEN NoPos ELSE pos[s]
      /\ rows' \in [Symbols -> Row] /\ \A s \in Symbols : rows'[s] = IF s = Here THEN NoRow ELSE rows[s]
      /\ left' \in [Symbols -> Nat] /\ \A s \in Symbols : left'[s] = IF s = Here THEN Now ELSE left[s]
  BY <1>1, <1>2, <1>3 DEF Types
<1>5. PositionsAged'
  BY <1>1, <1>3, <1>4 DEF PositionsAged, Aged, Now
<1>6. Remembered'
  BY <1>1, <1>2, <1>3, <1>4 DEF Remembered
<1>7. RowsYoung'
  <2>1. NoRow.side = "none"
    BY DEF NoRow
  <2>2. Now' = Now /\ \A s \in Symbols : Said(s)' = Said(s)
    BY <1>1 DEF Now, Said
  <2> QED BY <1>4, <2>1, <2>2 DEF RowsYoung
<1>8. CASE kind = "minute"
  <2>1. exitBar' = [exitBar EXCEPT ![Here] = Now] /\ Advance("entries")
    BY <1>8 DEF ExitCloses
  <2>2. at' \in 1..Len(Order) /\ pc' \in {"exits", "entries"}
    BY <1>1, <2>1, Advanced
  <2>3. exitBar' \in [Symbols -> Nat] /\ \A s \in Symbols : exitBar'[s] = IF s = Here THEN Now ELSE exitBar[s]
    BY <1>2, <2>1 DEF Types
  <2>4. Types' /\ Running'
    BY <1>1, <1>2, <1>4, <2>2, <2>3 DEF Types, Running, Parts, Now
  <2>5. ExitsKnown'
    BY <1>1, <1>2, <1>4, <1>8, <2>2, <2>3 DEF ExitsKnown, LateExit
  <2> QED BY <1>5, <1>6, <1>7, <2>4, <2>5
<1>9. CASE kind # "minute"
  <2>1. pc' = "exitbar" /\ UNCHANGED <<at, exitBar>> /\ kind = "bar"
    BY <1>9 DEF ExitCloses, Types, Kinds
  <2>2. Types' /\ Running'
    BY <1>1, <1>2, <1>4, <2>1 DEF Types, Running, Parts, Now
  <2>3. Here' = Here /\ Now' = Now
    BY <1>1, <2>1 DEF Here, Now
  <2>4. ExitsKnown'
    BY <1>1, <1>2, <1>4, <2>1, <2>3 DEF ExitsKnown, LateExit
  <2> QED BY <1>5, <1>6, <1>7, <2>2, <2>4
<1> QED BY <1>8, <1>9

LEMMA InvSetExitBar == CycleInv /\ SetExitBar => CycleInv'
<1> SUFFICES ASSUME CycleInv, SetExitBar PROVE CycleInv'
  OBVIOUS
<1> USE DEF CycleInv
<1>1. /\ UNCHANGED <<kind, tape, up, pos, lastMark, rows, left, cycled>> /\ pc = "exitbar"
      /\ exitBar' = [exitBar EXCEPT ![Here] = Now] /\ exitRow' = [exitRow EXCEPT ![Here] = Now]
  BY DEF SetExitBar
<1>2. Here \in Symbols /\ Now \in Nat /\ up /\ Now >= 1 /\ Len(Order) \in Nat
      /\ ("exitbar" \notin KillAt => left[Here] = Now)
  BY <1>1, HereIsSymbol DEF Running, Parts, ExitsKnown
<1>3. at' \in 1..Len(Order) /\ pc' \in {"exits", "entries"}
  <2>1. CASE at = Len(Order)
    BY <1>2, <2>1 DEF SetExitBar, Types
  <2>2. CASE at # Len(Order)
    BY <1>2, <2>2 DEF SetExitBar, Types
  <2> QED BY <2>1, <2>2
<1>4. /\ exitBar' \in [Symbols -> Nat] /\ \A s \in Symbols : exitBar'[s] = IF s = Here THEN Now ELSE exitBar[s]
      /\ exitRow' \in [Symbols -> Nat] /\ \A s \in Symbols : exitRow'[s] = IF s = Here THEN Now ELSE exitRow[s]
  BY <1>1, <1>2 DEF Types
<1>5. Types' /\ Running'
  BY <1>1, <1>2, <1>3, <1>4 DEF Types, Running, Parts, Now
<1>6. PositionsAged' /\ Remembered'
  BY <1>1 DEF PositionsAged, Aged, Remembered, Now
<1>7. RowsYoung'
  BY <1>1 DEF RowsYoung, Now, Said
<1>8. ExitsKnown'
  BY <1>1, <1>2, <1>3, <1>4 DEF ExitsKnown, LateExit
<1> QED BY <1>5, <1>6, <1>7, <1>8

LEMMA InvEnters == CycleInv /\ Enters => CycleInv'
<1> SUFFICES ASSUME CycleInv, Enters PROVE CycleInv'
  OBVIOUS
<1> USE DEF CycleInv
<1> DEFINE side == Said(Here).entry
           p == Opened(side, Now)
           row == [side |-> side, entry |-> Now]
<1>1. /\ UNCHANGED <<kind, tape, up, exitBar, lastMark, left, exitRow, cycled>> /\ pc = "entries"
      /\ pos' = [pos EXCEPT ![Here] = p] /\ rows' = [rows EXCEPT ![Here] = row] /\ Advance("twin")
  BY DEF Enters
<1>2. Here \in Symbols /\ Now \in Nat /\ up /\ Now >= 1
  BY <1>1, HereIsSymbol DEF Running, Parts
<1>3. side \in Side /\ side \notin Said(Here).out /\ side # "none"
  BY <1>2, SaidOfBar DEF Enters, Firing, Fires, Asks
<1>4. at' \in 1..Len(Order) /\ pc' \in {"entries", "twin"}
  BY <1>1, Advanced
<1>5. p \in Place /\ row \in Row /\ p.side = row.side /\ p.entry = row.entry /\ row.entry = Now /\ row.side = side
  BY <1>2, <1>3 DEF Opened, Place, Row
<1>6. Aged(p)
  BY <1>2 DEF Opened, Aged
<1> HIDE DEF p, row
<1>7. /\ pos' \in [Symbols -> Place] /\ \A s \in Symbols : pos'[s] = IF s = Here THEN p ELSE pos[s]
      /\ rows' \in [Symbols -> Row] /\ \A s \in Symbols : rows'[s] = IF s = Here THEN row ELSE rows[s]
  BY <1>1, <1>2, <1>5 DEF Types
<1>8. Types' /\ Running'
  BY <1>1, <1>2, <1>4, <1>7 DEF Types, Running, Parts, Now
<1>9. PositionsAged' /\ Remembered'
  BY <1>1, <1>2, <1>5, <1>6, <1>7 DEF PositionsAged, Aged, Remembered, Now
<1>10. RowsYoung'
  <2>1. Now' = Now /\ \A s \in Symbols : Said(s)' = Said(s)
    BY <1>1 DEF Now, Said
  <2> QED BY <1>2, <1>3, <1>5, <1>7, <2>1 DEF RowsYoung
<1>11. ExitsKnown'
  BY <1>1, <1>4 DEF ExitsKnown, LateExit
<1> QED BY <1>8, <1>9, <1>10, <1>11

LEMMA InvKill ==
  ASSUME CycleInv, Kill
  PROVE  CycleInv'
<1> USE DEF CycleInv
<1>1. /\ UNCHANGED <<kind, tape, rows, left, exitRow, cycled>>
      /\ ("exitbar" \notin KillAt => pc # "exitbar") /\ up' = FALSE /\ pc' = "idle" /\ at' = 1 /\ lastMark' = lastMark
      /\ pos' = [s \in Symbols |-> NoPos] /\ exitBar' = [s \in Symbols |-> 0]
  BY DEF Kill, Store
<1>2. Len(Order) \in Nat /\ Now \in Nat /\ at \in 1..Len(Order)
  BY HereIsSymbol DEF Types
<1>3. NoPos \in Place /\ Aged(NoPos)
  BY <1>2 DEF NoPos, Place, Side, Aged
<1>4. Types'
  <2>1. at' \in 1..Len(Order)
    BY <1>1, <1>2
  <2>2. pos' \in [Symbols -> Place] /\ exitBar' \in [Symbols -> Nat] /\ lastMark' \in Nat
    BY <1>1, <1>3 DEF Types
  <2> QED BY <1>1, <2>1, <2>2 DEF Types
<1>5. PositionsAged' /\ Remembered' /\ Running'
  BY <1>1, <1>3 DEF PositionsAged, Aged, Remembered, Running, Parts, Now
<1>6. RowsYoung'
  BY <1>1 DEF RowsYoung, Now, Said
<1>7. ExitsKnown'
  BY <1>1 DEF ExitsKnown, LateExit
<1> QED BY <1>4, <1>5, <1>6, <1>7

(* What a restart makes of an open trade.                                  *)
LEMMA AdoptedFits ==
  ASSUME CycleInv, NEW s \in Symbols
  PROVE  /\ Adopted(rows[s]) \in Place /\ Aged(Adopted(rows[s]))
         /\ Adopted(rows[s]).side = rows[s].side /\ Adopted(rows[s]).entry = rows[s].entry
<1>1. rows[s] \in Row /\ Now \in Nat
  BY HereIsSymbol DEF CycleInv, Types
<1>2. CASE rows[s].side = "none"
  <2>1. rows[s] = NoRow
    BY <1>2 DEF CycleInv, RowsYoung
  <2>2. Adopted(rows[s]) = NoPos
    BY <1>2 DEF Adopted
  <2> QED BY <1>1, <2>1, <2>2 DEF NoRow, NoPos, Place, Side, Aged
<1>3. CASE rows[s].side # "none"
  <2> DEFINE p == [side |-> rows[s].side, entry |-> rows[s].entry, last |-> Now, age |-> Now - rows[s].entry]
  <2>1. Adopted(rows[s]) = p
    BY <1>3 DEF Adopted
  <2>2. rows[s].entry <= Now
    BY <1>3 DEF CycleInv, RowsYoung
  <2>3. rows[s].side \in Side /\ rows[s].entry \in Nat /\ Now - rows[s].entry \in Nat
    BY <1>1, <2>2 DEF Row
  <2>4. p \in Place /\ Aged(p) /\ p.side = rows[s].side /\ p.entry = rows[s].entry
    BY <1>1, <2>2, <2>3 DEF Place, Aged
  <2> QED BY <2>1, <2>4
<1> QED BY <1>2, <1>3

LEMMA InvStartup == CycleInv /\ Startup => CycleInv'
<1> SUFFICES ASSUME CycleInv, Startup PROVE CycleInv'
  OBVIOUS
<1> USE DEF CycleInv
<1>1. /\ UNCHANGED <<kind, tape, pc, at, rows, left, exitRow, cycled>> /\ ~up
      /\ pos' = [s \in Symbols |-> Adopted(rows[s])]
      /\ exitBar' = Cooldowns /\ lastMark' \in {cycled, Now} /\ up' = TRUE
  BY DEF Startup, Store, Resumed, PassedBy
<1>2. Now \in Nat /\ pc # "exitbar"
  BY <1>1, HereIsSymbol DEF Running, Parts
<1>3. pos' \in [Symbols -> Place]
      /\ \A s \in Symbols : pos'[s] = Adopted(rows[s])
  BY <1>1, AdoptedFits
<1>4. exitBar' \in [Symbols -> Nat] /\ ("exitbar" \notin KillAt => \A s \in Symbols : exitBar'[s] = left[s])
  BY <1>1, <1>2 DEF Cooldowns, Types, Kinds, ExitsKnown, LateExit
<1>5. Types'
  <2>1. lastMark' \in Nat
    BY <1>1, <1>2 DEF Types
  <2> QED BY <1>1, <1>3, <1>4, <2>1 DEF Types
<1>6. PositionsAged' /\ Remembered'
  BY <1>1, <1>3, AdoptedFits DEF PositionsAged, Aged, Remembered, Now
<1>7. RowsYoung'
  BY <1>1 DEF RowsYoung, Now, Said
<1>8. ExitsKnown' /\ Running'
  BY <1>1, <1>2, <1>4 DEF ExitsKnown, LateExit, Running
<1> QED BY <1>5, <1>6, <1>7, <1>8

LEMMA InvFlatten == CycleInv /\ Flatten => CycleInv'
<1> SUFFICES ASSUME CycleInv, Flatten PROVE CycleInv'
  OBVIOUS
<1> USE DEF CycleInv
<1> DEFINE gone == {s \in Symbols : pos[s].side # "none"}
<1>1. /\ UNCHANGED <<kind, tape, up, at, lastMark, cycled>> /\ up /\ pc = "idle" /\ pc' = "over"
      /\ left' = [s \in Symbols |-> IF s \in gone THEN Now ELSE left[s]]
      /\ exitBar' = [s \in Symbols |-> IF s \in gone THEN Now ELSE exitBar[s]]
      /\ exitRow' = [s \in Symbols |-> IF s \in gone /\ kind = "bar" THEN Now ELSE exitRow[s]]
      /\ pos' = [s \in Symbols |-> NoPos] /\ rows' = [s \in Symbols |-> NoRow]
  BY DEF Flatten
<1> HIDE DEF gone
<1>2. Now \in Nat
  BY HereIsSymbol
<1>3. NoPos \in Place /\ NoRow \in Row /\ NoPos.side = "none" /\ NoRow.side = "none"
      /\ NoPos.entry = NoRow.entry /\ Aged(NoPos)
  BY <1>2 DEF NoPos, NoRow, Place, Row, Side, Aged
<1>4. Types'
  BY <1>1, <1>2, <1>3 DEF Types
<1>5. PositionsAged' /\ Remembered' /\ RowsYoung'
  BY <1>1, <1>3 DEF PositionsAged, Aged, Remembered, RowsYoung, Now
<1>6. ExitsKnown' /\ Running'
  BY <1>1 DEF ExitsKnown, LateExit, Running, Parts
<1> QED BY <1>4, <1>5, <1>6

LEMMA InvStep == CycleInv /\ [Next]_vars => CycleInv'
<1>1. CycleInv /\ UNCHANGED vars => CycleInv'
  BY DEF vars, CycleInv, Types, PositionsAged, Aged, Remembered, RowsYoung, ExitsKnown, LateExit, Running, Now, Here, Said
<1> QED BY <1>1, InvNewBar, InvBegins, InvNoEntry, InvStays, InvCloses, InvSetExitBar, InvEnters,
           InvKill, InvStartup, InvFlatten DEF Next

-----------------------------------------------------------------------------
(* The refinement                                                          *)

LEMMA RulesInit == Init => Rules!Init
<1>1. Init => Now = 0 /\ NoRow = Rules!Out
  BY DEF Init, Now, NoRow, Rules!Out
<1> QED BY <1>1 DEF Init, Rules!Init, Kinds

(* Closing a trade is leaving its symbol on a later bar.                   *)
LEMMA ClosingLeaves == CycleInv /\ ExitCloses => Rules!Leave(Here)
<1> SUFFICES ASSUME CycleInv, ExitCloses PROVE Rules!Leave(Here)
  OBVIOUS
<1>1. pc = "exits" /\ Due
  BY DEF ExitCloses
<1>2. rows[Here].side # "none" /\ rows[Here].entry < Now
  BY <1>1, LeavesLater
<1>3. rows[Here] # Rules!Out
  BY <1>2 DEF Rules!Out
<1>4. rows' = [rows EXCEPT ![Here] = Rules!Out] /\ left' = [left EXCEPT ![Here] = Now]
      /\ kind' = kind /\ Now' = Now
  BY DEF ExitCloses, Rules!Out, NoRow, Now
<1> QED BY <1>2, <1>3, <1>4 DEF Rules!Leave

(* Entering obeys the window, the cooldown and the room of the rules.      *)
LEMMA EnteringEnters ==
  ASSUME "exitbar" \notin KillAt, CycleInv, Enters
  PROVE  \E side \in Rules!Sides : Rules!Enter(Here, side)
<1> DEFINE side == Said(Here).entry
<1>1. /\ Here \in Symbols /\ Now \in Nat /\ up /\ Now >= 1 /\ pc = "entries"
      /\ \A s \in Symbols : pos[s].side = rows[s].side /\ exitBar[s] = left[s]
      /\ \A s \in Symbols : rows[s].side = "none" <=> rows[s] = Rules!Out
  <2>1. pc = "entries" /\ up /\ Now >= 1
    BY DEF Enters, CycleInv, Running, Parts
  <2>2. \A s \in Symbols : rows[s].side = "none" <=> rows[s] = Rules!Out
    BY DEF CycleInv, RowsYoung, NoRow, Rules!Out
  <2> QED BY <2>1, <2>2, HereIsSymbol DEF CycleInv, Remembered, ExitsKnown, LateExit
<1>2. side \in Rules!Sides
  <2>1. side \in Side /\ side # "none"
    BY <1>1, SaidOfBar DEF Enters, Firing, Fires, Asks
  <2> QED BY <2>1 DEF Side, Sides, Rules!Sides
<1>3. Ready(pos, exitBar, Here, Now) /\ Room(kind, pos, Here, side)
  BY DEF Enters, Firing, Fires, Asks
<1>4. Now \in 1..EntriesEnd /\ rows[Here] = Rules!Out /\ (left[Here] # 0 => Now - left[Here] >= Cooldown)
  BY <1>1, <1>3, BoundsAssumption DEF Ready
<1>5. Rules!Room(Here, side)
  <2>1. {q \in Symbols : pos[q].side # "none"} = {q \in Symbols : rows[q] # Rules!Out}
    BY <1>1
  <2>2. \A q \in Symbols \ {Here} : pos[q].side # side <=> rows[q].side # side
    BY <1>1
  <2>3. CASE kind = "minute"
    <3>1. Cardinality({q \in Symbols : pos[q].side # "none"}) < Slots
      BY <1>3, <2>3 DEF Room
    <3>2. Cardinality({q \in Symbols : rows[q] # Rules!Out}) < Slots
      BY <2>1, <3>1, Zenon
    <3> QED BY <2>3, <3>2, Zenon DEF Rules!Room, Rules!Cardinality, Cardinality
  <2>4. CASE kind # "minute"
    <3>1. \A q \in Symbols \ {Here} : pos[q].side # side
      BY <1>3, <2>4 DEF Room
    <3>2. \A q \in Symbols \ {Here} : rows[q].side # side
      BY <2>2, <3>1
    <3> QED BY <2>4, <3>2, Zenon DEF Rules!Room
  <2> QED BY <2>3, <2>4
<1>6. rows' = [rows EXCEPT ![Here] = [side |-> side, entry |-> Now]] /\ UNCHANGED <<kind, left>> /\ Now' = Now
  BY DEF Enters, Now
<1> QED BY <1>2, <1>4, <1>5, <1>6 DEF Rules!Enter

LEMMA FlatteningFlattens == CycleInv /\ Flatten => Rules!Flatten
<1> SUFFICES ASSUME CycleInv, Flatten PROVE Rules!Flatten
  OBVIOUS
<1>1. up /\ Now = Bars /\ kind' = kind /\ Now' = Now /\ rows' = [s \in Symbols |-> NoRow]
      /\ left' = [s \in Symbols |-> IF s \in {q \in Symbols : pos[q].side # "none"} THEN Now ELSE left[s]]
  BY DEF Flatten, Now
<1>2. \A s \in Symbols : pos[s].side # "none" <=> rows[s] # Rules!Out
  BY <1>1 DEF CycleInv, Remembered, RowsYoung, NoRow, Rules!Out
<1>3. rows' = [s \in Symbols |-> Rules!Out]
  BY <1>1 DEF NoRow, Rules!Out
<1>4. left' = [s \in Symbols |-> IF rows[s] # Rules!Out THEN Now ELSE left[s]]
  BY <1>1, <1>2
<1> QED BY <1>1, <1>3, <1>4 DEF Rules!Flatten

LEMMA TickingTicks == CycleInv /\ NewBar => Rules!Tick
<1> SUFFICES ASSUME CycleInv, NewBar PROVE Rules!Tick
  OBVIOUS
<1>1. PICK r \in Readings : tape' = Append(tape, r)
  BY DEF NewBar
<1>2. tape \in Seq(Readings) /\ Now < Bars /\ UNCHANGED <<kind, rows, left>>
  BY DEF NewBar, CycleInv, Types, Store
<1>3. Now' = Now + 1
  BY <1>1, <1>2, AppendProperties DEF Now
<1> QED BY <1>2, <1>3 DEF Rules!Tick

LEMMA StepsFollow ==
  ASSUME "exitbar" \notin KillAt, CycleInv, [Next]_vars
  PROVE  [Rules!Next]_Rules!vars
<1>1. CASE ExitCloses \/ Enters \/ Flatten \/ NewBar
  BY <1>1, ClosingLeaves, EnteringEnters, FlatteningFlattens, TickingTicks, HereIsSymbol DEF Rules!Next
<1>2. CASE UNCHANGED <<kind, tape, rows, left>>
  BY <1>2 DEF Rules!vars, Now
<1> QED BY <1>1, <1>2 DEF Next, vars, StartCycle, FetchFails, ExitStays, SetExitBar, ExitUnfilled, NoEntry, EntryUnfilled,
           TwinCycle, WriteCycle, Kill, Startup, Memory, Store

(* What the live cycle makes of a session is what the rules of the sleeve  *)
(* allow: whatever is missed, unfilled or killed (but for a kill between   *)
(* the two writes of a bar sleeve's exit), with what memory rebuilds from  *)
(* the store, a symbol is left on a later bar than it was entered, taken   *)
(* again only after its cooldown, and never beyond the slots or the pair   *)
(* filter (engine.py and sleeve.py run_cycle, adopt).                      *)
THEOREM CycleFollowsRules ==
  ASSUME "exitbar" \notin KillAt
  PROVE  Spec => FollowsRules
<1>1. Init => CycleInv
  BY InvInit
<1>2. CycleInv /\ [Next]_vars => CycleInv'
  BY InvStep
<1>3. Init => Rules!Init
  BY RulesInit
<1>4. CycleInv /\ [Next]_vars => [Rules!Next]_Rules!vars
  BY StepsFollow
<1> QED BY <1>1, <1>2, <1>3, <1>4, PTL DEF Spec, Rules!Spec, FollowsRules

-----------------------------------------------------------------------------
(* Types                                                                   *)

\* A position is entered on a bar and has counted no more than there were
\* since; so for the twin, in memory and in the store.
Held(p) == Aged(p) /\ (p.side # "none" => p.entry >= 1)
TwinFits(t) ==
  /\ t.pos \in [Symbols -> Place] /\ t.drawn \in [Symbols -> Nat]
  /\ \A s \in Symbols : Held(t.pos[s]) /\ t.drawn[s] <= Now

Counts == Now <= Bars /\ faults \in 0..MaxFaults /\ apart \in BOOLEAN /\ full \in BOOLEAN /\ lastMark <= Now /\ cycled <= Now
ExitsPast == \A s \in Symbols : exitBar[s] <= Now /\ left[s] <= Now /\ exitRow[s] <= Now
Entered ==
  \A s \in Symbols : (pos[s].side # "none" => pos[s].entry >= 1) /\ (rows[s].side # "none" => rows[s].entry >= 1)
Trades == log \subseteq TradeType /\ tlog \subseteq TradeType
Twins == TwinFits(tw) /\ trows \in [Symbols -> Place] /\ \A s \in Symbols : Held(trows[s])

TypeInv == CycleInv /\ Counts /\ ExitsPast /\ Entered /\ Trades /\ Twins

LEMMA Reasons ==
  ASSUME NEW p, NEW r, ExitReason(p, r) # "none"
  PROVE  ExitReason(p, r) \in {"signal", "stop_loss", "time_stop"}
  BY DEF ExitReason

(* A trade closed on the newest bar, of a position that there was.         *)
LEMMA ClosedFits ==
  ASSUME NEW p \in Place, Held(p), p.side # "none", NEW s \in Symbols, Now \in Nat, Now <= Bars,
         NEW why \in {"signal", "stop_loss", "time_stop", "eod_flatten"}
  PROVE  Closed(s, p, Now, why) \in TradeType
<1>1. p.side \in Sides /\ p.entry \in 1..Bars /\ Now \in 1..Bars /\ p.age \in 0..Bars
  BY BoundsAssumption DEF Held, Aged, Place, Side
<1> QED BY <1>1 DEF Closed, TradeType

LEMMA NoPosHeld == Now \in Nat => NoPos \in Place /\ Held(NoPos)
  BY DEF NoPos, Place, Side, Held, Aged

LEMMA NoTwinFits == Now \in Nat => TwinFits(NoTwin)
<1> SUFFICES ASSUME Now \in Nat PROVE TwinFits(NoTwin)
  OBVIOUS
<1>1. NoTwin.pos = [s \in Symbols |-> NoPos] /\ NoTwin.drawn = [s \in Symbols |-> 0]
  BY DEF NoTwin
<1> QED BY <1>1, NoPosHeld DEF TwinFits

(* The twin's step: it leaves only what was entered, and enters on the     *)
(* newest bar.                                                             *)
LEMMA TwinSteps ==
  ASSUME NEW t, TwinFits(t), NEW r \in Reading, Now \in Nat, Now >= 1, Now <= Bars
  PROVE  TwinFits(TwinStep(t, r, Now)) /\ TwinTrades(t, r, Now) \subseteq TradeType
<1> DEFINE x == TwinExits(t, r, Now)
<1>1. /\ x.pos = [s \in Symbols |-> IF t.pos[s].side = "none" \/ s \in TwinLeaves(t, r, Now) THEN NoPos
                                    ELSE OnBar(t.pos[s], Now)]
      /\ x.drawn = [s \in Symbols |-> IF s \in TwinLeaves(t, r, Now) /\ Now > t.drawn[s] THEN Now ELSE t.drawn[s]]
  BY DEF TwinExits
<1>2. \A s \in Symbols : /\ OnBar(t.pos[s], Now) \in Place /\ Held(OnBar(t.pos[s], Now))
                         /\ OnBar(t.pos[s], Now).side = t.pos[s].side
  BY OnBarAges DEF TwinFits, Held
<1> HIDE DEF x
<1>3. TwinFits(x)
  <2>1. x.pos \in [Symbols -> Place] /\ \A s \in Symbols : Held(x.pos[s])
    BY <1>1, <1>2, NoPosHeld
  <2>2. x.drawn \in [Symbols -> Nat] /\ \A s \in Symbols : x.drawn[s] <= Now
    BY <1>1 DEF TwinFits
  <2> QED BY <2>1, <2>2 DEF TwinFits
<1> DEFINE y == TwinDraws(x, r, Now)
           asked == {s \in Symbols : Now <= EntriesEnd /\ x.pos[s].side = "none" /\ Now > x.drawn[s]}
<1>4. /\ y.pos = [s \in Symbols |-> IF s \in asked /\ r[s].draw # "none" THEN Opened(r[s].draw, Now) ELSE x.pos[s]]
      /\ y.drawn = [s \in Symbols |-> IF s \in asked THEN Now ELSE x.drawn[s]]
  BY DEF TwinDraws
<1>5. \A s \in Symbols : r[s].draw # "none" => Opened(r[s].draw, Now) \in Place /\ Held(Opened(r[s].draw, Now))
  <2> SUFFICES ASSUME NEW s \in Symbols, r[s].draw # "none"
               PROVE  Opened(r[s].draw, Now) \in Place /\ Held(Opened(r[s].draw, Now))
    OBVIOUS
  <2>1. r[s].draw \in Side
    BY DEF Reading, Side
  <2> DEFINE d == r[s].draw
  <2> HIDE DEF d
  <2>2. d \in Side => Opened(d, Now) \in Place /\ Held(Opened(d, Now))
    BY DEF Opened, Place, Held, Aged
  <2> QED BY <2>1, <2>2 DEF d
<1> HIDE DEF y, asked
<1>6. TwinFits(y)
  <2>1. y.pos \in [Symbols -> Place] /\ \A s \in Symbols : Held(y.pos[s])
    BY <1>3, <1>4, <1>5 DEF TwinFits
  <2>2. y.drawn \in [Symbols -> Nat] /\ \A s \in Symbols : y.drawn[s] <= Now
    BY <1>3, <1>4 DEF TwinFits
  <2> QED BY <2>1, <2>2 DEF TwinFits
<1>7. TwinTrades(t, r, Now) \subseteq TradeType
  <2> SUFFICES ASSUME NEW s \in TwinLeaves(t, r, Now)
               PROVE  Closed(s, OnBar(t.pos[s], Now), Now, ExitReason(OnBar(t.pos[s], Now), r[s])) \in TradeType
    BY DEF TwinTrades
  <2> DEFINE q == OnBar(t.pos[s], Now)
             why == ExitReason(q, r[s])
  <2>1. s \in Symbols /\ t.pos[s].side # "none" /\ why # "none"
    BY DEF TwinLeaves
  <2>2. q \in Place /\ Held(q) /\ q.side # "none"
    BY <1>2, <2>1
  <2>3. why \in {"signal", "stop_loss", "time_stop", "eod_flatten"}
    BY <2>1, Reasons
  <2> HIDE DEF q, why
  <2>4. Closed(s, q, Now, why) \in TradeType
    BY <2>1, <2>2, <2>3, ClosedFits
  <2> QED BY <2>4 DEF q, why
<1> QED BY <1>6, <1>7 DEF TwinStep, x, y

(* What the end of the day closes.                                         *)
LEMMA FlattenedFits ==
  ASSUME NEW held \in [Symbols -> Place], \A s \in Symbols : Held(held[s]), Now \in Nat, Now <= Bars
  PROVE  Flattened(held, Now) \subseteq TradeType
<1> SUFFICES ASSUME NEW s \in Symbols, held[s].side # "none"
             PROVE  Closed(s, held[s], Now, "eod_flatten") \in TradeType
  BY DEF Flattened
<1> DEFINE p == held[s]
<1>1. p \in Place /\ Held(p) /\ p.side # "none"
  OBVIOUS
<1> HIDE DEF p
<1>2. Closed(s, p, Now, "eod_flatten") \in TradeType
  BY <1>1, ClosedFits
<1> QED BY <1>2 DEF p

LEMMA TypeInit == Init => TypeInv
<1> SUFFICES ASSUME Init PROVE TypeInv
  OBVIOUS
<1>1. Now = 0
  BY DEF Init, Now
<1>2. Counts
  <2>1. faults \in 0..MaxFaults /\ Now <= Bars
    BY <1>1, BoundsAssumption DEF Init
  <2>2. lastMark <= Now /\ cycled <= Now
    BY <1>1 DEF Init
  <2>3. apart \in BOOLEAN /\ full \in BOOLEAN
    BY DEF Init
  <2> QED BY <2>1, <2>2, <2>3 DEF Counts
<1>3. ExitsPast /\ Entered /\ Trades
  BY <1>1 DEF Init, ExitsPast, Entered, Trades, NoPos, NoRow
<1>4. Twins
  BY <1>1, NoTwinFits DEF Init, Twins, TwinFits
<1> QED BY <1>2, <1>3, <1>4, InvInit DEF TypeInv

LEMMA TwinsStay ==
  ASSUME TypeInv, UNCHANGED <<tw, trows, tape>>
  PROVE  Twins'
  BY DEF TypeInv, Twins, TwinFits, Held, Aged, Now

LEMMA TypeNewBar == TypeInv /\ NewBar => Counts' /\ ExitsPast' /\ Entered' /\ Trades' /\ Twins'
<1> SUFFICES ASSUME TypeInv, NewBar PROVE Counts' /\ ExitsPast' /\ Entered' /\ Trades' /\ Twins'
  OBVIOUS
<1> USE DEF TypeInv
<1>1. PICK r \in Readings : tape' = Append(tape, r)
  BY DEF NewBar
<1>2. Now' = Now + 1 /\ Now \in Nat /\ Now < Bars
  BY <1>1, HereIsSymbol, AppendProperties DEF NewBar, CycleInv, Types, Now
<1>3. UNCHANGED <<pos, exitBar, lastMark, tw, rows, left, exitRow, cycled, log, trows, tlog, faults, full>> /\ apart' \in BOOLEAN
  BY DEF NewBar, Memory, Store, Counts
<1>4. Counts'
  BY <1>2, <1>3, BoundsAssumption DEF Counts, CycleInv, Types
<1>5. ExitsPast' /\ Entered' /\ Trades'
  BY <1>2, <1>3 DEF ExitsPast, Entered, Trades, CycleInv, Types
<1>6. \A q \in Place : Held(q) => Held(q)'
  BY <1>2 DEF Held, Aged, Place
<1>7. TwinFits(tw)'
  BY <1>2, <1>3, <1>6 DEF Twins, TwinFits
<1>8. Twins'
  BY <1>3, <1>6, <1>7 DEF Twins
<1> QED BY <1>4, <1>5, <1>8

LEMMA TypeLoops ==
  ASSUME TypeInv, StartCycle \/ FetchFails \/ ExitStays \/ ExitUnfilled \/ NoEntry \/ EntryUnfilled \/ WriteCycle
  PROVE  Counts' /\ ExitsPast' /\ Entered' /\ Trades' /\ Twins'
<1> USE DEF TypeInv
<1>1. /\ UNCHANGED <<tape, exitBar, rows, left, exitRow, log, tw, trows, tlog>>
      /\ lastMark' \in {lastMark, Now} /\ cycled' \in {cycled, lastMark}
      /\ apart' \in {apart, TRUE}
      /\ pos' = pos \/ ((ExitStays \/ ExitUnfilled) /\ pos' = [pos EXCEPT ![Here] = Counted(pos[Here])])
      /\ faults' = faults \/ (faults < MaxFaults /\ faults' = faults + 1)
  BY DEF StartCycle, FetchFails, ExitStays, ExitUnfilled, NoEntry, EntryUnfilled, WriteCycle, Memory, Store
<1>2. Now' = Now /\ Now \in Nat
  BY <1>1, HereIsSymbol DEF Now
<1>3. Counts'
  <2>0. faults' \in 0..MaxFaults
    BY <1>1, BoundsAssumption DEF Counts
  <2>1. apart' \in BOOLEAN
    BY <1>1, Zenon DEF Counts
  <2>3. full' \in BOOLEAN
    <3>1. full' \in {TRUE, FALSE} \cup {full}
      BY DEF StartCycle, FetchFails, ExitStays, ExitUnfilled, NoEntry, EntryUnfilled, WriteCycle
    <3> QED BY <3>1, Zenon DEF Counts
  <2>2. Now' <= Bars /\ lastMark' <= Now' /\ cycled' <= Now'
    BY <1>1, <1>2 DEF Counts
  <2> QED BY <2>0, <2>1, <2>2, <2>3 DEF Counts
<1>4. Entered'
  <2>1. CASE pos' = pos
    BY <1>1, <2>1 DEF Entered
  <2>2. CASE pos' = [pos EXCEPT ![Here] = Counted(pos[Here])]
    <3>1. Here \in Symbols
      BY HereIsSymbol
    <3>2. Counted(pos[Here]).side = pos[Here].side /\ Counted(pos[Here]).entry = pos[Here].entry
      BY <3>1, CountedAges
    <3>3. \A s \in Symbols : pos'[s] = IF s = Here THEN Counted(pos[Here]) ELSE pos[s]
      BY <2>2 DEF CycleInv, Types
    <3> QED BY <1>1, <3>2, <3>3 DEF Entered
  <2> QED BY <1>1, <2>1, <2>2
<1>5. ExitsPast' /\ Trades'
  BY <1>1, <1>2 DEF ExitsPast, Trades
<1> QED BY <1>1, <1>3, <1>4, <1>5, TwinsStay

LEMMA TypeCloses ==
  ASSUME TypeInv, ExitCloses
  PROVE  Counts' /\ ExitsPast' /\ Entered' /\ Trades' /\ Twins'
<1> USE DEF TypeInv
<1> DEFINE p == Counted(pos[Here])
           why == ExitReason(p, Said(Here))
<1>1. /\ UNCHANGED <<tape, lastMark, exitRow, cycled, tw, trows, tlog, faults, apart, full>>
      /\ log' = log \cup {Closed(Here, p, Now, why)}
      /\ pos' = [pos EXCEPT ![Here] = NoPos] /\ rows' = [rows EXCEPT ![Here] = NoRow]
      /\ left' = [left EXCEPT ![Here] = Now]
      /\ exitBar' \in {exitBar, [exitBar EXCEPT ![Here] = Now]}
  BY DEF ExitCloses
<1>2. Now' = Now /\ Now \in Nat /\ Here \in Symbols /\ Now <= Bars
  BY <1>1, HereIsSymbol DEF Now, Counts
<1>3. p \in Place /\ Held(p) /\ p.side # "none"
  <2>1. pos[Here].side # "none"
    BY DEF ExitCloses, Due
  <2> QED BY <1>2, <2>1, CountedAges DEF Held, Entered
<1>4. why \in {"signal", "stop_loss", "time_stop", "eod_flatten"}
  <2>1. why # "none"
    BY DEF ExitCloses, Due
  <2> QED BY <2>1, Reasons
<1> HIDE DEF p, why
<1>5. Trades'
  <2>1. Closed(Here, p, Now, why) \in TradeType
    BY <1>2, <1>3, <1>4, ClosedFits
  <2> QED BY <1>1, <2>1 DEF Trades
<1>6. Entered'
  BY <1>1, <1>2 DEF Entered, NoPos, NoRow, CycleInv, Types
<1>7. ExitsPast'
  BY <1>1, <1>2 DEF ExitsPast, CycleInv, Types
<1>8. Counts'
  BY <1>1, <1>2 DEF Counts
<1> QED BY <1>1, <1>5, <1>6, <1>7, <1>8, TwinsStay

LEMMA TypeSetExitBar ==
  ASSUME TypeInv, SetExitBar
  PROVE  Counts' /\ ExitsPast' /\ Entered' /\ Trades' /\ Twins'
<1> USE DEF TypeInv
<1>1. /\ UNCHANGED <<tape, pos, lastMark, rows, left, cycled, log, tw, trows, tlog, faults, apart, full>>
      /\ exitBar' = [exitBar EXCEPT ![Here] = Now] /\ exitRow' = [exitRow EXCEPT ![Here] = Now]
  BY DEF SetExitBar
<1>2. Now' = Now /\ Now \in Nat /\ Here \in Symbols
  BY <1>1, HereIsSymbol DEF Now
<1>3. ExitsPast'
  BY <1>1, <1>2 DEF ExitsPast, CycleInv, Types
<1>4. Counts' /\ Entered' /\ Trades'
  BY <1>1, <1>2 DEF Counts, Entered, Trades
<1> QED BY <1>1, <1>3, <1>4, TwinsStay

LEMMA TypeEnters ==
  ASSUME TypeInv, Enters
  PROVE  Counts' /\ ExitsPast' /\ Entered' /\ Trades' /\ Twins'
<1> USE DEF TypeInv
<1>1. /\ UNCHANGED <<tape, exitBar, lastMark, left, exitRow, cycled, log, tw, trows, tlog, faults, apart, full>>
      /\ pos' = [pos EXCEPT ![Here] = Opened(Said(Here).entry, Now)]
      /\ rows' = [rows EXCEPT ![Here] = [side |-> Said(Here).entry, entry |-> Now]]
  BY DEF Enters
<1>2. Now' = Now /\ Now \in Nat /\ Here \in Symbols /\ Now >= 1
  BY <1>1, HereIsSymbol DEF Now, Enters, CycleInv, Running, Parts
<1>3. Opened(Said(Here).entry, Now).entry = Now
  BY DEF Opened
<1>4. Entered'
  BY <1>1, <1>2, <1>3 DEF Entered, CycleInv, Types
<1>5. Counts' /\ ExitsPast' /\ Trades'
  BY <1>1, <1>2 DEF Counts, ExitsPast, Trades
<1> QED BY <1>1, <1>4, <1>5, TwinsStay

LEMMA TypeTwin ==
  ASSUME TypeInv, TwinCycle
  PROVE  Counts' /\ ExitsPast' /\ Entered' /\ Trades' /\ Twins'
<1> USE DEF TypeInv
<1> DEFINE r == tape[Now]
<1>1. /\ UNCHANGED <<tape, pos, exitBar, lastMark, rows, left, exitRow, cycled, log, faults, apart, full>>
      /\ tw' = TwinStep(tw, r, Now) /\ trows' = tw'.pos /\ tlog' = tlog \cup TwinTrades(tw, r, Now)
  BY DEF TwinCycle
<1>2. Now' = Now /\ Now \in Nat /\ Now >= 1 /\ Now <= Bars
  BY <1>1, HereIsSymbol DEF Now, TwinCycle, CycleInv, Running, Parts, Counts
<1>3. r \in Reading
  <2>1. tape \in Seq(Readings)
    BY DEF CycleInv, Types
  <2> QED BY <1>2, <2>1, ElementOfSeq, ReadingsAssumption DEF Now
<1> HIDE DEF r
<1>4. TwinFits(TwinStep(tw, r, Now)) /\ TwinTrades(tw, r, Now) \subseteq TradeType
  BY <1>2, <1>3, TwinSteps DEF Twins
<1>5. Twins'
  <2> DEFINE y == TwinStep(tw, r, Now)
  <2>1. tw' = y /\ trows' = y.pos /\ TwinFits(y)
    BY <1>1, <1>4
  <2> HIDE DEF y
  <2>2. TwinFits(tw)'
    BY <1>2, <2>1 DEF TwinFits, Held, Aged
  <2> QED BY <1>2, <2>1, <2>2 DEF Twins, TwinFits, Held, Aged
<1>6. Counts' /\ ExitsPast' /\ Entered' /\ Trades'
  BY <1>1, <1>2, <1>4 DEF Counts, ExitsPast, Entered, Trades
<1> QED BY <1>5, <1>6

LEMMA TypeKill ==
  ASSUME TypeInv, Kill
  PROVE  Counts' /\ ExitsPast' /\ Entered' /\ Trades' /\ Twins'
<1> USE DEF TypeInv
<1>1. /\ UNCHANGED <<tape, apart, full, lastMark, rows, left, exitRow, cycled, log, trows, tlog>>
      /\ faults < MaxFaults /\ faults' = faults + 1 /\ tw' = NoTwin
      /\ pos' = [s \in Symbols |-> NoPos] /\ exitBar' = [s \in Symbols |-> 0]
  BY DEF Kill, Store
<1>2. Now' = Now /\ Now \in Nat
  BY <1>1, HereIsSymbol DEF Now
<1>3. Counts'
  BY <1>1, <1>2, BoundsAssumption DEF Counts
<1>4. ExitsPast' /\ Entered' /\ Trades'
  BY <1>1, <1>2 DEF ExitsPast, Entered, Trades, NoPos
<1>5. TwinFits(tw)'
  BY <1>1, <1>2, NoTwinFits DEF TwinFits, Held, Aged
<1>6. Twins'
  BY <1>1, <1>2, <1>5 DEF Twins, Held, Aged
<1> QED BY <1>3, <1>4, <1>6

LEMMA TypeStartup ==
  ASSUME TypeInv, Startup
  PROVE  Counts' /\ ExitsPast' /\ Entered' /\ Trades' /\ Twins'
<1> USE DEF TypeInv
<1>1. /\ UNCHANGED <<tape, faults, full, rows, left, exitRow, cycled, log, trows, tlog>>
      /\ pos' = [s \in Symbols |-> Adopted(rows[s])] /\ exitBar' \in {left, exitRow}
      /\ lastMark' \in {cycled, Now} /\ apart' \in BOOLEAN /\ tw' = RestoredTwin
  BY DEF Startup, Store, Cooldowns, Counts, Resumed, PassedBy
<1>2. Now' = Now /\ Now \in Nat
  BY <1>1, HereIsSymbol DEF Now
<1>3. Counts'
  BY <1>1, <1>2 DEF Counts
<1>4. ExitsPast' /\ Trades'
  BY <1>1, <1>2 DEF ExitsPast, Trades
<1>5. Entered'
  BY <1>1, AdoptedFits DEF Entered
<1>6. RestoredTwin.pos = trows /\ RestoredTwin.drawn = [s \in Symbols |-> trows[s].last]
  BY DEF RestoredTwin
<1>7. \A s \in Symbols : trows[s].last \in Nat /\ trows[s].last <= Now
  BY DEF Twins, Held, Aged, Place
<1>8. TwinFits(tw)'
  BY <1>1, <1>2, <1>6, <1>7 DEF Twins, TwinFits, Held, Aged
<1>9. Twins'
  BY <1>1, <1>2, <1>8 DEF Twins, Held, Aged
<1> QED BY <1>3, <1>4, <1>5, <1>9

LEMMA TypeFlatten ==
  ASSUME TypeInv, Flatten
  PROVE  Counts' /\ ExitsPast' /\ Entered' /\ Trades' /\ Twins'
<1> USE DEF TypeInv
<1>1. /\ UNCHANGED <<tape, lastMark, cycled, faults, full>> /\ apart' \in BOOLEAN
      /\ log' = log \cup Flattened(pos, Now) /\ tlog' = tlog \cup Flattened(tw.pos, Now)
      /\ \A s \in Symbols : left'[s] \in {Now, left[s]} /\ exitBar'[s] \in {Now, exitBar[s]}
                            /\ exitRow'[s] \in {Now, exitRow[s]}
      /\ pos' = [s \in Symbols |-> NoPos] /\ rows' = [s \in Symbols |-> NoRow]
      /\ tw' = [tw EXCEPT !.pos = NoTwin.pos] /\ trows' = NoTwin.pos
  BY DEF Flatten, Counts
<1>2. Now' = Now /\ Now \in Nat /\ Now <= Bars
  BY <1>1, HereIsSymbol DEF Now, Counts
<1>3. Counts'
  BY <1>1, <1>2 DEF Counts
<1>4. ExitsPast' /\ Entered'
  <2>1. ExitsPast'
    BY <1>1, <1>2 DEF ExitsPast
  <2>2. \A s \in Symbols : pos'[s].side = "none" /\ rows'[s].side = "none"
    BY <1>1 DEF NoPos, NoRow
  <2> QED BY <2>1, <2>2 DEF Entered
<1>5. Flattened(pos, Now) \subseteq TradeType
  BY <1>2, FlattenedFits DEF CycleInv, Types, PositionsAged, Entered, Held
<1>6. Flattened(tw.pos, Now) \subseteq TradeType
  <2> DEFINE q == tw.pos
  <2>1. q \in [Symbols -> Place] /\ \A s \in Symbols : Held(q[s])
    BY DEF Twins, TwinFits
  <2> HIDE DEF q
  <2>2. Flattened(q, Now) \subseteq TradeType
    BY <1>2, <2>1, FlattenedFits
  <2> QED BY <2>2 DEF q
<1>7. TwinFits(tw)' /\ trows' \in [Symbols -> Place] /\ \A s \in Symbols : Held(trows[s])'
  <2>1. tw'.drawn = tw.drawn /\ tw'.pos = NoTwin.pos /\ NoTwin.pos = [s \in Symbols |-> NoPos]
    BY <1>1 DEF NoTwin
  <2>2. NoPos \in Place /\ Held(NoPos)'
    BY <1>2, NoPosHeld DEF Held, Aged
  <2> QED BY <1>1, <1>2, <2>1, <2>2 DEF Twins, TwinFits
<1> QED BY <1>1, <1>3, <1>4, <1>5, <1>6, <1>7 DEF Trades, Twins

LEMMA TypeStep == TypeInv /\ [Next]_vars => TypeInv'
<1> SUFFICES ASSUME TypeInv, [Next]_vars PROVE TypeInv'
  OBVIOUS
<1>1. CycleInv'
  BY InvStep DEF TypeInv
<1>2. ASSUME UNCHANGED vars PROVE Counts' /\ ExitsPast' /\ Entered' /\ Trades' /\ Twins'
  BY <1>2, TwinsStay DEF vars, TypeInv, Counts, ExitsPast, Entered, Trades, Now
<1>3. Counts' /\ ExitsPast' /\ Entered' /\ Trades' /\ Twins'
  BY <1>2, TypeNewBar, TypeLoops, TypeCloses, TypeSetExitBar, TypeEnters, TypeTwin, TypeKill, TypeStartup, TypeFlatten
  DEF Next
<1> QED BY <1>1, <1>3 DEF TypeInv

(* CycleTypeCorrect: for every list of symbols and every bound, wherever   *)
(* the process is killed: a trade is entered and closed on bars of the     *)
(* session, on a side and with a reason; a position has counted no more    *)
(* bars than there were since its entry, whatever was missed, recounted or *)
(* restored (engine.py Position.on_bar).                                   *)
THEOREM CycleTypeCorrect == Spec => []TypeOK
<1>1. TypeInv => TypeOK
  <2> SUFFICES ASSUME TypeInv PROVE TypeOK
    OBVIOUS
  <2> USE DEF TypeInv
  <2>1. Now \in Nat /\ Now <= Bars
    BY HereIsSymbol DEF Counts
  <2>2. \A q \in Place : Aged(q) => q \in PosType /\ q.age <= Now - q.entry
    BY <2>1, BoundsAssumption DEF Place, Side, PosType, Aged
  <2>3. pos \in [Symbols -> PosType] /\ \A s \in Symbols : pos[s].age <= Now - pos[s].entry
    BY <2>2 DEF CycleInv, Types, PositionsAged
  <2>4. tw.pos \in [Symbols -> PosType] /\ trows \in [Symbols -> PosType]
    BY <2>2 DEF Twins, TwinFits, Held
  <2>5. exitBar \in ExitType /\ left \in ExitType /\ exitRow \in ExitType /\ tw.drawn \in ExitType
    BY <2>1, BoundsAssumption DEF ExitsPast, ExitType, CycleInv, Types, Twins, TwinFits
  <2>6. rows \in [Symbols -> [side : Sides \cup {"none"}, entry : 0..Bars]]
    <3> SUFFICES ASSUME NEW s \in Symbols PROVE rows[s] \in [side : Sides \cup {"none"}, entry : 0..Bars]
      BY DEF CycleInv, Types
    <3>1. rows[s] \in Row
      BY DEF CycleInv, Types
    <3>2. rows[s].entry <= Bars
      BY <2>1, <3>1, BoundsAssumption DEF CycleInv, RowsYoung, NoRow, Row
    <3> QED BY <3>1, <3>2, BoundsAssumption DEF Row, Side
  <2>7. /\ lastMark \in 0..Now /\ cycled \in 0..Now
        /\ pc \in {"idle", "exits", "exitbar", "entries", "twin", "write", "over"}
    BY <2>1 DEF Counts, CycleInv, Types, Parts
  <2> QED BY <2>1, <2>3, <2>4, <2>5, <2>6, <2>7 DEF TypeOK, Counts, Trades, CycleInv, Types
<1> QED BY <1>1, TypeInit, TypeStep, PTL DEF Spec

-----------------------------------------------------------------------------
(* The replay: its states, and the exits of a bar.                         *)

Why == {"signal", "stop_loss", "time_stop", "none"}
Deal == [s : Symbols, side : Side, in : Nat, out : Nat, age : Nat, why : Why \cup {"eod_flatten"}]
Twin == [pos : [Symbols -> Place], drawn : [Symbols -> Nat]]
State == [pos : [Symbols -> Place], exit : [Symbols -> Nat], log : SUBSET Deal, tw : Twin, tlog : SUBSET Deal]

\* The exits of the symbols of S on a bar, whatever their order.
Leaves(st, s, b, r) == st.pos[s].side # "none" /\ ExitReason(OnBar(st.pos[s], b), r[s]) # "none"
Deals(S, st, b, r) ==
  {Closed(s, OnBar(st.pos[s], b), b, ExitReason(OnBar(st.pos[s], b), r[s])) : s \in {q \in S : Leaves(st, q, b, r)}}
ExitsOn(S, st, b, r) ==
  [pos  |-> [s \in Symbols |-> IF s \notin S \/ st.pos[s].side = "none" THEN st.pos[s]
                               ELSE IF Leaves(st, s, b, r) THEN NoPos ELSE OnBar(st.pos[s], b)],
   exit |-> [s \in Symbols |-> IF s \in S /\ Leaves(st, s, b, r) THEN b ELSE st.exit[s]],
   log  |-> st.log \cup Deals(S, st, b, r), tw |-> st.tw, tlog |-> st.tlog]

LEMMA SameState ==
  ASSUME NEW x \in State, NEW y \in State, x.pos = y.pos, x.exit = y.exit, x.log = y.log, x.tw = y.tw, x.tlog = y.tlog
  PROVE  x = y
BY DEF State

LEMMA OnBarOnce ==
  ASSUME NEW p \in Place, NEW b \in Nat
  PROVE  /\ OnBar(p, b) \in Place /\ OnBar(p, b).side = p.side /\ OnBar(p, b).entry = p.entry
         /\ OnBar(OnBar(p, b), b) = OnBar(p, b) /\ OnBar(p, b).last >= b
<1>1. CASE b > p.last
  <2> DEFINE k == [p EXCEPT !.last = b]
             m == [k EXCEPT !.age = p.age + 1]
  <2>1. k \in Place /\ k.last = b /\ k.side = p.side /\ k.entry = p.entry
    BY DEF Place
  <2>2. OnBar(p, b) = m
    BY <1>1 DEF OnBar, Place
  <2> HIDE DEF k
  <2>3. m \in Place /\ m.last = k.last /\ m.side = k.side /\ m.entry = k.entry
    BY <2>1 DEF Place
  <2> HIDE DEF m
  <2>4. OnBar(m, b) = m
    BY <2>1, <2>3 DEF OnBar
  <2> QED BY <2>1, <2>2, <2>3, <2>4
<1>2. CASE ~(b > p.last)
  <2>1. OnBar(p, b) = p
    BY <1>2 DEF OnBar
  <2> QED BY <1>2, <2>1 DEF Place
<1> QED BY <1>1, <1>2

LEMMA NoPosPlace == NoPos \in Place /\ NoPos.side = "none"
BY DEF NoPos, Place, Side

LEMMA ReasonIn ==
  ASSUME NEW p, NEW r
  PROVE  ExitReason(p, r) \in Why
BY DEF ExitReason, Why

LEMMA ClosedDeal ==
  ASSUME NEW s \in Symbols, NEW p \in Place, NEW b \in Nat, NEW why \in Why \cup {"eod_flatten"}
  PROVE  Closed(s, p, b, why) \in Deal
BY DEF Closed, Deal, Place

LEMMA ExitsFit ==
  ASSUME NEW S \in SUBSET Symbols, NEW st \in State, NEW b \in Nat, NEW r
  PROVE  ExitsOn(S, st, b, r) \in State
<1>1. st.pos \in [Symbols -> Place] /\ st.exit \in [Symbols -> Nat] /\ st.log \in SUBSET Deal /\ st.tw \in Twin
      /\ st.tlog \in SUBSET Deal
  BY DEF State
<1>2. \A s \in Symbols : OnBar(st.pos[s], b) \in Place
  BY <1>1, OnBarOnce
<1>3. Deals(S, st, b, r) \in SUBSET Deal
  <2> SUFFICES ASSUME NEW s \in S
               PROVE  Closed(s, OnBar(st.pos[s], b), b, ExitReason(OnBar(st.pos[s], b), r[s])) \in Deal
    BY DEF Deals
  <2> DEFINE p == OnBar(st.pos[s], b)
             why == ExitReason(p, r[s])
  <2>1. s \in Symbols /\ p \in Place /\ why \in Why
    BY <1>2, ReasonIn
  <2> HIDE DEF p, why
  <2>2. Closed(s, p, b, why) \in Deal
    BY <2>1, ClosedDeal
  <2> QED BY <2>2 DEF p, why
<1> QED BY <1>1, <1>2, <1>3, NoPosPlace DEF ExitsOn, State

LEMMA ExitsAre ==
  ASSUME NEW S, NEW st, NEW b, NEW r
  PROVE  LET x == ExitsOn(S, st, b, r) IN
         /\ x.pos = [s \in Symbols |-> IF s \notin S \/ st.pos[s].side = "none" THEN st.pos[s]
                                       ELSE IF Leaves(st, s, b, r) THEN NoPos ELSE OnBar(st.pos[s], b)]
         /\ x.exit = [s \in Symbols |-> IF s \in S /\ Leaves(st, s, b, r) THEN b ELSE st.exit[s]]
         /\ x.log = st.log \cup Deals(S, st, b, r) /\ x.tw = st.tw /\ x.tlog = st.tlog
BY DEF ExitsOn

(* A symbol whose exit was looked at on a bar gives nothing more on it.    *)
LEMMA ExitsTwice ==
  ASSUME NEW S \in SUBSET Symbols, NEW T \in SUBSET Symbols, NEW st \in State, NEW b \in Nat, NEW r
  PROVE  ExitsOn(S, ExitsOn(T, st, b, r), b, r) = ExitsOn(S \cup T, st, b, r)
<1> DEFINE x == ExitsOn(T, st, b, r)
           y == ExitsOn(S, x, b, r)
           z == ExitsOn(S \cup T, st, b, r)
<1>1. x \in State /\ z \in State /\ S \cup T \in SUBSET Symbols
  BY ExitsFit
<1>2. y \in State
  <2> HIDE DEF x
  <2> QED BY <1>1, ExitsFit
<1>3. st.pos \in [Symbols -> Place]
  BY DEF State
<1>4. /\ x.pos = [s \in Symbols |-> IF s \notin T \/ st.pos[s].side = "none" THEN st.pos[s]
                                    ELSE IF Leaves(st, s, b, r) THEN NoPos ELSE OnBar(st.pos[s], b)]
      /\ x.exit = [s \in Symbols |-> IF s \in T /\ Leaves(st, s, b, r) THEN b ELSE st.exit[s]]
      /\ x.log = st.log \cup Deals(T, st, b, r) /\ x.tw = st.tw /\ x.tlog = st.tlog
  BY ExitsAre
<1>5. /\ z.pos = [s \in Symbols |-> IF s \notin S \cup T \/ st.pos[s].side = "none" THEN st.pos[s]
                                    ELSE IF Leaves(st, s, b, r) THEN NoPos ELSE OnBar(st.pos[s], b)]
      /\ z.exit = [s \in Symbols |-> IF s \in S \cup T /\ Leaves(st, s, b, r) THEN b ELSE st.exit[s]]
      /\ z.log = st.log \cup Deals(S \cup T, st, b, r) /\ z.tw = st.tw /\ z.tlog = st.tlog
  BY ExitsAre
<1> HIDE DEF x, z
<1>6. /\ y.pos = [s \in Symbols |-> IF s \notin S \/ x.pos[s].side = "none" THEN x.pos[s]
                                    ELSE IF Leaves(x, s, b, r) THEN NoPos ELSE OnBar(x.pos[s], b)]
      /\ y.exit = [s \in Symbols |-> IF s \in S /\ Leaves(x, s, b, r) THEN b ELSE x.exit[s]]
      /\ y.log = x.log \cup Deals(S, x, b, r) /\ y.tw = x.tw /\ y.tlog = x.tlog
  BY ExitsAre
<1> HIDE DEF y
<1>7. \A s \in Symbols : /\ s \in T => ~Leaves(x, s, b, r)
                                       /\ (x.pos[s].side # "none" => OnBar(x.pos[s], b) = x.pos[s])
                         /\ s \notin T => x.pos[s] = st.pos[s] /\ (Leaves(x, s, b, r) <=> Leaves(st, s, b, r))
  <2> SUFFICES ASSUME NEW s \in Symbols
               PROVE  /\ s \in T => ~Leaves(x, s, b, r)
                                    /\ (x.pos[s].side # "none" => OnBar(x.pos[s], b) = x.pos[s])
                      /\ s \notin T => x.pos[s] = st.pos[s] /\ (Leaves(x, s, b, r) <=> Leaves(st, s, b, r))
    OBVIOUS
  <2>1. st.pos[s] \in Place
    BY <1>3
  <2> DEFINE p == st.pos[s]
             q == OnBar(p, b)
  <2>2. q \in Place /\ OnBar(q, b) = q /\ q.side = p.side
    BY <2>1, OnBarOnce
  <2>3. CASE s \notin T
    BY <1>4, <2>3 DEF Leaves
  <2>4. CASE s \in T /\ p.side = "none"
    <3>1. x.pos[s] = p
      BY <1>4, <2>4
    <3> QED BY <2>4, <3>1 DEF Leaves
  <2>5. CASE s \in T /\ p.side # "none" /\ Leaves(st, s, b, r)
    <3>1. x.pos[s] = NoPos
      BY <1>4, <2>5
    <3> QED BY <2>5, <3>1, NoPosPlace DEF Leaves
  <2>6. CASE s \in T /\ p.side # "none" /\ ~Leaves(st, s, b, r)
    <3>1. x.pos[s] = q
      BY <1>4, <2>6
    <3>2. ExitReason(q, r[s]) = "none"
      BY <2>6 DEF Leaves
    <3> QED BY <2>2, <2>6, <3>1, <3>2 DEF Leaves
  <2> QED BY <2>3, <2>4, <2>5, <2>6
<1>8. y.pos = z.pos
  BY <1>4, <1>5, <1>6, <1>7, NoPosPlace
<1>9. y.exit = z.exit
  BY <1>4, <1>5, <1>6, <1>7
<1>10. y.log = z.log
  <2>1. Deals(S, x, b, r) = Deals(S \ T, st, b, r)
    <3>1. {q \in S : Leaves(x, q, b, r)} = {q \in S \ T : Leaves(st, q, b, r)}
      BY <1>7
    <3>2. \A q \in S \ T : x.pos[q] = st.pos[q]
      BY <1>7
    <3> QED BY <3>1, <3>2 DEF Deals
  <2>2. Deals(S \cup T, st, b, r) = Deals(T, st, b, r) \cup Deals(S \ T, st, b, r)
    BY DEF Deals
  <2> QED BY <1>4, <1>5, <1>6, <2>1, <2>2
<1>11. y.tw = z.tw /\ y.tlog = z.tlog
  BY <1>4, <1>5, <1>6
<1>12. y = z
  BY <1>1, <1>2, <1>8, <1>9, <1>10, <1>11, SameState
<1> QED BY <1>12 DEF x, y, z

LEMMA ExitsNone ==
  ASSUME NEW S \in SUBSET Symbols, NEW st \in State, NEW b \in Nat, NEW r,
         \A s \in S : ~Leaves(st, s, b, r) /\ (st.pos[s].side # "none" => OnBar(st.pos[s], b) = st.pos[s])
  PROVE  ExitsOn(S, st, b, r) = st
<1> DEFINE x == ExitsOn(S, st, b, r)
<1>1. x \in State /\ st.pos \in [Symbols -> Place] /\ st.exit \in [Symbols -> Nat]
  BY ExitsFit DEF State
<1>2. /\ x.pos = [s \in Symbols |-> IF s \notin S \/ st.pos[s].side = "none" THEN st.pos[s]
                                    ELSE IF Leaves(st, s, b, r) THEN NoPos ELSE OnBar(st.pos[s], b)]
      /\ x.exit = [s \in Symbols |-> IF s \in S /\ Leaves(st, s, b, r) THEN b ELSE st.exit[s]]
      /\ x.log = st.log \cup Deals(S, st, b, r) /\ x.tw = st.tw /\ x.tlog = st.tlog
  BY ExitsAre
<1> HIDE DEF x
<1>3. Deals(S, st, b, r) = {}
  BY DEF Deals
<1>4. x.pos = st.pos /\ x.exit = st.exit
  BY <1>1, <1>2
<1>5. x = st
  BY <1>1, <1>2, <1>3, <1>4, SameState
<1> QED BY <1>5 DEF x

(* The exit of one symbol, as the replay and the cycle make it.            *)
LEMMA ExitOfOne ==
  ASSUME NEW s \in Symbols, NEW st \in State, NEW b \in Nat, NEW r
  PROVE  ReplayExit(st, s, b, r) = ExitsOn({s}, st, b, r)
<1> DEFINE x == ExitsOn({s}, st, b, r)
           y == ReplayExit(st, s, b, r)
           p == OnBar(st.pos[s], b)
           d == Closed(s, p, b, ExitReason(p, r[s]))
<1>1. x \in State /\ st.pos \in [Symbols -> Place] /\ st.exit \in [Symbols -> Nat] /\ st.log \in SUBSET Deal
  BY ExitsFit DEF State
<1>2. /\ x.pos = [q \in Symbols |-> IF q \notin {s} \/ st.pos[q].side = "none" THEN st.pos[q]
                                    ELSE IF Leaves(st, q, b, r) THEN NoPos ELSE OnBar(st.pos[q], b)]
      /\ x.exit = [q \in Symbols |-> IF q \in {s} /\ Leaves(st, q, b, r) THEN b ELSE st.exit[q]]
      /\ x.log = st.log \cup Deals({s}, st, b, r) /\ x.tw = st.tw /\ x.tlog = st.tlog
  BY ExitsAre
<1>3. p \in Place /\ p.side = st.pos[s].side
  BY <1>1, OnBarOnce
<1>4. Deals({s}, st, b, r) = IF Leaves(st, s, b, r) THEN {d} ELSE {}
  BY DEF Deals
<1>5. d \in Deal
  <2> DEFINE why == ExitReason(p, r[s])
  <2>1. why \in Why
    BY ReasonIn
  <2> HIDE DEF p, why
  <2> QED BY <1>3, <2>1, ClosedDeal DEF why
<1>6. y = IF p.side = "none" THEN st
          ELSE IF ExitReason(p, r[s]) = "none" THEN [st EXCEPT !.pos = [st.pos EXCEPT ![s] = p]]
          ELSE [st EXCEPT !.pos = [st.pos EXCEPT ![s] = NoPos], !.exit = [st.exit EXCEPT ![s] = b], !.log = st.log \cup {d}]
  BY DEF ReplayExit
<1>7. Leaves(st, s, b, r) <=> p.side # "none" /\ ExitReason(p, r[s]) # "none"
  BY <1>3 DEF Leaves
<1> HIDE DEF x, y, p, d
<1>8. CASE p.side = "none"
  <2>1. y = st
    BY <1>6, <1>8
  <2>2. x.pos = y.pos /\ x.exit = y.exit /\ x.log = y.log /\ x.tw = y.tw /\ x.tlog = y.tlog
    BY <1>1, <1>2, <1>3, <1>4, <1>7, <1>8, <2>1
  <2> QED BY <1>1, <2>1, <2>2, SameState DEF x, y
<1>9. CASE p.side # "none" /\ ExitReason(p, r[s]) = "none"
  <2> DEFINE f == [st.pos EXCEPT ![s] = p]
  <2>1. y = [st EXCEPT !.pos = f] /\ f \in [Symbols -> Place]
    BY <1>1, <1>3, <1>6, <1>9
  <2>2. x.pos = f
    BY <1>1, <1>2, <1>3, <1>7, <1>9 DEF p
  <2> HIDE DEF f
  <2>3. y \in State /\ y.pos = f /\ y.exit = st.exit /\ y.log = st.log /\ y.tw = st.tw /\ y.tlog = st.tlog
    BY <2>1 DEF State
  <2>4. x.exit = y.exit /\ x.log = y.log /\ x.tw = y.tw /\ x.tlog = y.tlog
    BY <1>1, <1>2, <1>4, <1>7, <1>9, <2>3
  <2> QED BY <1>1, <2>2, <2>3, <2>4, SameState DEF x, y
<1>10. CASE p.side # "none" /\ ExitReason(p, r[s]) # "none"
  <2> DEFINE f == [st.pos EXCEPT ![s] = NoPos]
             e == [st.exit EXCEPT ![s] = b]
  <2>1. y = [st EXCEPT !.pos = f, !.exit = e, !.log = st.log \cup {d}]
    BY <1>6, <1>10
  <2>2. f \in [Symbols -> Place] /\ e \in [Symbols -> Nat] /\ st.log \cup {d} \in SUBSET Deal
    BY <1>1, <1>5, NoPosPlace
  <2>3. x.pos = f
    BY <1>1, <1>2, <1>3, <1>7, <1>10
  <2>4. x.exit = e
    BY <1>1, <1>2, <1>3, <1>7, <1>10
  <2> HIDE DEF f, e
  <2>5. y \in State /\ y.pos = f /\ y.exit = e /\ y.log = st.log \cup {d} /\ y.tw = st.tw /\ y.tlog = st.tlog
    BY <2>1, <2>2 DEF State
  <2>6. x.log = y.log /\ x.tw = y.tw /\ x.tlog = y.tlog
    BY <1>2, <1>4, <1>7, <1>10, <2>5
  <2> QED BY <1>1, <2>3, <2>4, <2>5, <2>6, SameState DEF x, y
<1> QED BY <1>8, <1>9, <1>10

-----------------------------------------------------------------------------
(* A fold over the symbols is a function on the sets of their places, each *)
(* set walked from its last place.  c says which fold: of the exits or of  *)
(* the entries of a bar, and in which of the two orders of the symbols.    *)
Lists == {Order, Sorted}
Step(c, st, s) ==
  IF c.part = "exits" THEN ReplayExit(st, s, c.bar, c.said) ELSE ReplayEntry(c.kind, st, s, c.bar, c.said)
Walks(g, c, st, S) ==
  g = [T \in SUBSET S |-> IF T = {} THEN st ELSE Step(c, g[T \ {Max(T)}], c.order[Max(T)])]

LEMMA Places ==
  ASSUME NEW o \in Lists
  PROVE  /\ DOMAIN o = 1..Len(o) /\ Len(o) \in Nat
         /\ \A i \in DOMAIN o : o[i] \in Symbols
         /\ Symbols = {o[i] : i \in DOMAIN o}
<1>1. o \in Seq(Symbols) /\ ToSet(o) = Symbols
  BY OrderAssumption, SortedAssumption DEF Lists, Symbols
<1> QED BY <1>1, LenProperties, ElementOfSeq DEF ToSet

LEMMA PlacesFinite == ASSUME NEW o \in Lists, NEW T \in SUBSET DOMAIN o PROVE IsFiniteSet(T)
<1>1. IsFiniteSet(DOMAIN o)
  BY Places, FS_Interval
<1> QED BY <1>1, FS_Subset

(* Every non-empty set of naturals has a least member.                     *)
LEMMA Least ==
  ASSUME NEW T \in SUBSET Nat, T # {}
  PROVE  \E x \in T : \A y \in T : x <= y
<1>1. PICK x \in T : \A y \in T : ~ (<<y, x>> \in OpToRel(<, Nat))
  BY NatLessThanWellFounded, WFMin
<1>2. \A y \in T : ~(y < x)
  BY <1>1 DEF OpToRel
<1> QED BY <1>2

(* The last of some places is one of them.                                 *)
LEMMA LastPlace ==
  ASSUME NEW o \in Lists, NEW T \in SUBSET DOMAIN o, T # {}
  PROVE  Max(T) \in T /\ \A y \in T : y <= Max(T)
<1> DEFINE n == Len(o)
           U == {n - x : x \in T}
<1>0. n \in Nat /\ \A x \in T : x \in 1..n
  BY Places
<1> HIDE DEF n
<1>1. U \in SUBSET Nat /\ U # {}
  <2>1. \A x \in T : n - x \in Nat
    BY <1>0
  <2> QED BY <2>1
<1>2. PICK d \in U : \A e \in U : d <= e
  <2> HIDE DEF U
  <2> QED BY <1>1, Least
<1>3. PICK x \in T : d = n - x
  BY <1>2
<1>4. \A y \in T : x >= y
  BY <1>0, <1>2, <1>3
<1>5. \E z \in T : \A y \in T : z >= y
  BY <1>4
<1>6. Max(T) \in T /\ \A y \in T : Max(T) >= y
  BY <1>5 DEF Max
<1> QED BY <1>0, <1>6

(* Induction over the subsets of a finite set, with a set for the          *)
(* predicate.                                                              *)
LEMMA SubsetInduction ==
  ASSUME NEW S, IsFiniteSet(S), NEW Q,
         \A s \in SUBSET S : (\A t \in SUBSET s : t # s => t \in Q) => s \in Q
  PROVE  \A s \in SUBSET S : s \in Q
<1> DEFINE Bad == {s \in SUBSET S : s \notin Q}
<1> SUFFICES ASSUME Bad # {} PROVE FALSE
  OBVIOUS
<1>1. Bad \subseteq FiniteSubsetsOf(S)
  BY FS_Subset DEF FiniteSubsetsOf
<1>2. PICK x \in Bad : \A y \in Bad : ~ (<<y, x>> \in StrictSubsetOrdering(S))
  <2> HIDE DEF Bad
  <2> QED BY <1>1, FS_StrictSubsetOrderingWellFounded, WFMin
<1>3. \A t \in SUBSET x : t # x => t \in Q
  BY <1>2 DEF StrictSubsetOrdering
<1> QED BY <1>2, <1>3

LEMMA WalksAt ==
  ASSUME NEW S, NEW c, NEW st, NEW g, Walks(g, c, st, S), NEW T \in SUBSET S
  PROVE  g[T] = IF T = {} THEN st ELSE Step(c, g[T \ {Max(T)}], c.order[Max(T)])
<1> DEFINE body(U) == IF U = {} THEN st ELSE Step(c, g[U \ {Max(U)}], c.order[Max(U)])
           f == [U \in SUBSET S |-> body(U)]
<1>1. g = f
  BY DEF Walks
<1>2. f[T] = body(T)
  <2> HIDE DEF body
  <2> QED OBVIOUS
<1>3. g[T] = f[T]
  <2> HIDE DEF f
  <2> QED BY <1>1
<1>4. g[T] = body(T)
  <2> HIDE DEF f, body
  <2> QED BY <1>2, <1>3
<1> QED BY <1>4

LEMMA WalksFrom ==
  ASSUME NEW S, NEW c, NEW st, NEW g, Walks(g, c, st, S)
  PROVE  g[{}] = st
<1> DEFINE P == {}
<1>1. P \in SUBSET S /\ P = {}
  OBVIOUS
<1> HIDE DEF P
<1>2. g[P] = st
  BY <1>1, WalksAt
<1> QED BY <1>1, <1>2

LEMMA WalksOn ==
  ASSUME NEW S, NEW c, NEW st, NEW g, Walks(g, c, st, S), NEW T \in SUBSET S, T # {}
  PROVE  g[T] = Step(c, g[T \ {Max(T)}], c.order[Max(T)])
<1>1. g[T] = IF T = {} THEN st ELSE Step(c, g[T \ {Max(T)}], c.order[Max(T)])
  BY WalksAt
<1> QED BY <1>1

(* Two such functions agree on what both are defined on.                   *)
LEMMA WalksOnce ==
  ASSUME NEW c, c.order \in Lists, NEW S \in SUBSET DOMAIN c.order, NEW U, S \subseteq U, NEW st,
         NEW g, Walks(g, c, st, S), NEW h, Walks(h, c, st, U)
  PROVE  g[S] = h[S]
<1> DEFINE Q == {T \in SUBSET S : g[T] = h[T]}
<1>1. ASSUME NEW T \in SUBSET S, \A t \in SUBSET T : t # T => t \in Q
      PROVE  g[T] = h[T]
  <2>0. T \in SUBSET S /\ T \in SUBSET U /\ T \in SUBSET DOMAIN c.order
    OBVIOUS
  <2>5. ASSUME NEW X, T \in SUBSET X, NEW w, Walks(w, c, st, X)
        PROVE  w[T] = IF T = {} THEN st ELSE Step(c, w[T \ {Max(T)}], c.order[Max(T)])
    <3> HIDE DEF Q
    <3> QED BY <2>5, WalksAt
  <2>1. g[T] = IF T = {} THEN st ELSE Step(c, g[T \ {Max(T)}], c.order[Max(T)])
    <3> HIDE DEF Q
    <3> QED BY <2>0, <2>5
  <2>2. h[T] = IF T = {} THEN st ELSE Step(c, h[T \ {Max(T)}], c.order[Max(T)])
    <3> HIDE DEF Q
    <3> QED BY <2>0, <2>5
  <2>3. T # {} => Max(T) \in T
    BY <2>0, LastPlace
  <2>4. T # {} => g[T \ {Max(T)}] = h[T \ {Max(T)}]
    BY <1>1, <2>3
  <2> QED BY <2>1, <2>2, <2>4
<1>2. \A T \in SUBSET S : (\A t \in SUBSET T : t # T => t \in Q) => T \in Q
  BY <1>1
<1>3. IsFiniteSet(S)
  BY PlacesFinite
<1>4. \A T \in SUBSET S : T \in Q
  <2> HIDE DEF Q
  <2> QED BY <1>2, <1>3, SubsetInduction
<1>5. S \in SUBSET S
  OBVIOUS
<1>6. S \in Q
  BY <1>4, <1>5
<1> QED BY <1>6

LEMMA WalksLess ==
  ASSUME NEW c, c.order \in Lists, NEW T \in SUBSET DOMAIN c.order, T # {}, NEW st,
         NEW g, Walks(g, c, st, T), NEW h, Walks(h, c, st, T \ {Max(T)})
  PROVE  g[T] = Step(c, h[T \ {Max(T)}], c.order[Max(T)])
<1> DEFINE P == T \ {Max(T)}
<1>1. P \in SUBSET DOMAIN c.order /\ P \subseteq T /\ P \in SUBSET P
  OBVIOUS
<1>2. g[T] = Step(c, g[P], c.order[Max(T)])
  <2>1. T \in SUBSET T
    OBVIOUS
  <2> QED BY <2>1, WalksOn
<1>3. h[P] = g[P]
  <2>1. Walks(h, c, st, P)
    OBVIOUS
  <2> HIDE DEF P
  <2> QED BY <1>1, <2>1, WalksOnce
<1> QED BY <1>2, <1>3

LEMMA WalksSubset ==
  ASSUME NEW c, c.order \in Lists, NEW S \in SUBSET DOMAIN c.order, NEW st,
         \A t \in SUBSET S : t # S => \E g : Walks(g, c, st, t)
  PROVE  \E g : Walks(g, c, st, S)
<1> DEFINE end(t) == (CHOOSE g : Walks(g, c, st, t))[t]
           val(t) == IF t = {} THEN st ELSE Step(c, end(t \ {Max(t)}), c.order[Max(t)])
           h == [t \in SUBSET S |-> val(t)]
<1>1. ASSUME NEW t \in SUBSET S, t # S PROVE end(t) = val(t)
  <2> DEFINE g == CHOOSE g : Walks(g, c, st, t)
  <2>1. Walks(g, c, st, t)
    BY <1>1
  <2>0. end(t) = g[t]
    OBVIOUS
  <2>2. CASE t = {}
    <3>2. g[t] = st
      <4> HIDE DEF g
      <4> QED BY <2>1, <2>2, WalksFrom
    <3>3. val(t) = st
      BY <2>2
    <3> HIDE DEF val, end, g
    <3> QED BY <2>0, <3>2, <3>3
  <2>3. CASE t # {}
    <3> DEFINE r == t \ {Max(t)}
               k == CHOOSE k : Walks(k, c, st, r)
    <3>1. Max(t) \in t /\ r \in SUBSET S /\ r # S /\ t \in SUBSET DOMAIN c.order
      BY <2>3, LastPlace
    <3>2. Walks(k, c, st, r)
      BY <3>1
    <3>3. g[t] = Step(c, k[r], c.order[Max(t)])
      <4> HIDE DEF g, k
      <4> QED BY <2>1, <2>3, <3>1, <3>2, WalksLess
    <3> QED BY <2>3, <3>3
  <2> QED BY <2>2, <2>3
<1>2. Walks(h, c, st, S)
  <2>1. ASSUME NEW t \in SUBSET S, t # {} PROVE h[t \ {Max(t)}] = end(t \ {Max(t)})
    <3>1. Max(t) \in t
      BY <2>1, LastPlace
    <3>2. t \ {Max(t)} \in SUBSET S /\ t \ {Max(t)} # S
      BY <3>1
    <3> HIDE DEF end, val
    <3> QED BY <1>1, <3>2
  <2>2. \A t \in SUBSET S : val(t) = IF t = {} THEN st ELSE Step(c, h[t \ {Max(t)}], c.order[Max(t)])
    <3> HIDE DEF end, h
    <3> QED BY <2>1
  <2> HIDE DEF end, val
  <2> QED BY <2>2 DEF Walks
<1> QED BY <1>2

(* There is such a walk over all the places.                               *)
LEMMA WalksExists ==
  ASSUME NEW c, c.order \in Lists, NEW st
  PROVE  \E g : Walks(g, c, st, DOMAIN c.order)
<1> DEFINE S == DOMAIN c.order
           Q == {s \in SUBSET S : \E g : Walks(g, c, st, s)}
<1>1. ASSUME NEW s \in SUBSET S, \A t \in SUBSET s : t # s => t \in Q
      PROVE  \E g : Walks(g, c, st, s)
  <2>1. \A t \in SUBSET s : t # s => \E g : Walks(g, c, st, t)
    BY <1>1
  <2> QED BY <2>1, WalksSubset
<1>2. \A s \in SUBSET S : (\A t \in SUBSET s : t # s => t \in Q) => s \in Q
  BY <1>1
<1>3. IsFiniteSet(S)
  BY PlacesFinite
<1>4. \A s \in SUBSET S : s \in Q
  <2> HIDE DEF Q, S
  <2> QED BY <1>2, <1>3, SubsetInduction
<1> QED BY <1>4

(* Where the walk has come after the first j symbols.                      *)
After(c, st, j) == (CHOOSE g : Walks(g, c, st, DOMAIN c.order))[1..j]

(* What the walk comes to after each place.                                *)
LEMMA AfterIs ==
  ASSUME NEW c, c.order \in Lists, NEW st
  PROVE  /\ After(c, st, 0) = st
         /\ \A j \in 1..Len(c.order) : After(c, st, j) = Step(c, After(c, st, j - 1), c.order[j])
<1> DEFINE g == CHOOSE g : Walks(g, c, st, DOMAIN c.order)
<1>1. Walks(g, c, st, DOMAIN c.order)
  BY WalksExists
<1>2. \A j : After(c, st, j) = g[1..j]
  BY DEF After
<1> HIDE DEF g
<1>3. After(c, st, 0) = st
  <2>1. 1..0 = {}
    OBVIOUS
  <2>2. g[{}] = st
    BY <1>1, WalksFrom
  <2> QED BY <1>2, <2>1, <2>2
<1>4. ASSUME NEW j \in 1..Len(c.order) PROVE After(c, st, j) = Step(c, After(c, st, j - 1), c.order[j])
  <2>1. 1..j \in SUBSET DOMAIN c.order /\ j \in 1..j
    BY Places
  <2>2. Max(1..j) = j
    <3> DEFINE T == 1..j
    <3>1. T \in SUBSET DOMAIN c.order /\ T # {}
      BY <2>1
    <3>2. Max(T) \in T /\ \A y \in T : y <= Max(T)
      <4> HIDE DEF T
      <4> QED BY <3>1, LastPlace
    <3> QED BY <2>1, <3>2
  <2>3. (1..j) \ {j} = 1..(j - 1)
    BY Places
  <2>4. g[1..j] = Step(c, g[(1..j) \ {Max(1..j)}], c.order[Max(1..j)])
    <3> DEFINE P == 1..j
               D == DOMAIN c.order
    <3>1. P \in SUBSET D /\ P # {} /\ Walks(g, c, st, D)
      BY <1>1, <2>1
    <3> HIDE DEF P, D
    <3>2. g[P] = Step(c, g[P \ {Max(P)}], c.order[Max(P)])
      BY <3>1, WalksOn
    <3> QED BY <3>2 DEF P
  <2> QED BY <1>2, <2>2, <2>3, <2>4
<1> QED BY <1>3, <1>4

ExitStep(o, b, r) == [part |-> "exits", kind |-> "bar", bar |-> b, said |-> r, order |-> o]
EntryStep(o, k, b, r) == [part |-> "entries", kind |-> k, bar |-> b, said |-> r, order |-> o]

ExitWalks(o, g, st, b, r) ==
  g = [T \in SUBSET DOMAIN o |-> IF T = {} THEN st ELSE ReplayExit(g[T \ {Max(T)}], o[Max(T)], b, r)]
EntryWalks(o, g, k, st, b, r) ==
  g = [T \in SUBSET DOMAIN o |-> IF T = {} THEN st ELSE ReplayEntry(k, g[T \ {Max(T)}], o[Max(T)], b, r)]

(* The replay's fold of the exits is that walk; so is that of the entries. *)
LEMMA ExitFold ==
  ASSUME NEW o \in Lists, NEW st, NEW b, NEW r
  PROVE  FoldLeft(LAMBDA a, s : ReplayExit(a, s, b, r), st, o) = After(ExitStep(o, b, r), st, Len(o))
<1> DEFINE f == CHOOSE g : ExitWalks(o, g, st, b, r)
           c == ExitStep(o, b, r)
           h == CHOOSE g : Walks(g, c, st, DOMAIN o)
<1>1. FoldLeft(LAMBDA a, s : ReplayExit(a, s, b, r), st, o) = f[DOMAIN o]
  BY DEF FoldLeft, MapThenFoldSet, ExitWalks
<1>2. \A a, s : Step(c, a, s) = ReplayExit(a, s, b, r)
  BY DEF Step, ExitStep
<1>9. c.order = o
  BY DEF ExitStep
<1>3. \A g : Walks(g, c, st, DOMAIN o) <=> ExitWalks(o, g, st, b, r)
  <2> HIDE DEF c
  <2> QED BY <1>2, <1>9 DEF Walks, ExitWalks
<1>4. Walks(h, c, st, DOMAIN o)
  <2> HIDE DEF c
  <2> QED BY <1>9, WalksExists
<1>5. ExitWalks(o, f, st, b, r)
  <2> HIDE DEF c, h
  <2> QED BY <1>3, <1>4
<1>6. Walks(f, c, st, DOMAIN o)
  <2> HIDE DEF c, h, f
  <2> QED BY <1>3, <1>5
<1>7. f[DOMAIN o] = h[DOMAIN o]
  <2> HIDE DEF c, h, f
  <2> QED BY <1>4, <1>6, <1>9, WalksOnce
<1>8. After(c, st, Len(o)) = h[DOMAIN o]
  BY <1>9, Places DEF After
<1> QED BY <1>1, <1>7, <1>8

LEMMA EntryFold ==
  ASSUME NEW o \in Lists, NEW k, NEW st, NEW b, NEW r
  PROVE  FoldLeft(LAMBDA a, s : ReplayEntry(k, a, s, b, r), st, o) = After(EntryStep(o, k, b, r), st, Len(o))
<1> DEFINE f == CHOOSE g : EntryWalks(o, g, k, st, b, r)
           c == EntryStep(o, k, b, r)
           h == CHOOSE g : Walks(g, c, st, DOMAIN o)
<1>1. FoldLeft(LAMBDA a, s : ReplayEntry(k, a, s, b, r), st, o) = f[DOMAIN o]
  BY DEF FoldLeft, MapThenFoldSet, EntryWalks
<1>2. \A a, s : Step(c, a, s) = ReplayEntry(k, a, s, b, r)
  BY DEF Step, EntryStep
<1>9. c.order = o
  BY DEF EntryStep
<1>3. \A g : Walks(g, c, st, DOMAIN o) <=> EntryWalks(o, g, k, st, b, r)
  <2> HIDE DEF c
  <2> QED BY <1>2, <1>9 DEF Walks, EntryWalks
<1>4. Walks(h, c, st, DOMAIN o)
  <2> HIDE DEF c
  <2> QED BY <1>9, WalksExists
<1>5. EntryWalks(o, f, k, st, b, r)
  <2> HIDE DEF c, h
  <2> QED BY <1>3, <1>4
<1>6. Walks(f, c, st, DOMAIN o)
  <2> HIDE DEF c, h, f
  <2> QED BY <1>3, <1>5
<1>7. f[DOMAIN o] = h[DOMAIN o]
  <2> HIDE DEF c, h, f
  <2> QED BY <1>4, <1>6, <1>9, WalksOnce
<1>8. After(c, st, Len(o)) = h[DOMAIN o]
  BY <1>9, Places DEF After
<1> QED BY <1>1, <1>7, <1>8

-----------------------------------------------------------------------------
(* What a position is when every bar since its entry was counted.          *)
Seen(p, b) ==
  IF p.side = "none" THEN NoPos ELSE [side |-> p.side, entry |-> p.entry, last |-> b, age |-> b - p.entry]
Fresh(st, b) == \A s \in Symbols : st.pos[s] = Seen(st.pos[s], b) /\ (st.pos[s].side # "none" => st.pos[s].entry <= b)
Aging(st, b) == [st EXCEPT !.pos = [s \in Symbols |-> Seen(st.pos[s], b)]]

LEMMA SeenFits ==
  ASSUME NEW p, p.side \in Side, p.entry \in Nat, NEW b \in Nat, p.side # "none" => p.entry <= b
  PROVE  /\ Seen(p, b) \in Place /\ Seen(p, b).side = p.side
         /\ p.side # "none" => Seen(p, b).entry = p.entry
         /\ p.side = "none" => Seen(p, b) = NoPos
<1>1. CASE p.side = "none"
  BY <1>1, NoPosPlace DEF Seen
<1>2. CASE p.side # "none"
  <2>1. b - p.entry \in Nat
    BY <1>2
  <2> QED BY <1>2, <2>1 DEF Seen, Place
<1> QED BY <1>1, <1>2

LEMMA SeenAgain ==
  ASSUME NEW p, NEW a, NEW b
  PROVE  Seen(Seen(p, a), b) = Seen(p, b)
BY DEF Seen, NoPos

(* A position that has seen every bar but the newest sees it once.         *)
LEMMA OnBarSeen ==
  ASSUME NEW p, p.side # "none", p.entry \in Nat, NEW b \in Nat, NEW a \in {b, b - 1}
  PROVE  OnBar(Seen(p, a), b) = Seen(p, b)
<1> DEFINE x == [side |-> p.side, entry |-> p.entry, last |-> a, age |-> a - p.entry]
<1>1. Seen(p, a) = x
  BY DEF Seen
<1>2. CASE a = b
  <2>1. x.last = b
    BY <1>2
  <2>2. ~(b > x.last)
    BY <2>1
  <2> QED BY <1>1, <1>2, <2>2 DEF OnBar
<1>3. CASE a = b - 1
  <2> DEFINE d == a - p.entry
             w == [side |-> p.side, entry |-> p.entry, last |-> a, age |-> d]
             y == [side |-> p.side, entry |-> p.entry, last |-> b, age |-> d]
             z == [side |-> p.side, entry |-> p.entry, last |-> b, age |-> d + 1]
  <2>1. x = w
    OBVIOUS
  <2>2. d + 1 = b - p.entry
    BY <1>3
  <2>3. b > a
    BY <1>3
  <2> HIDE DEF d
  <2>4. [w EXCEPT !.last = b] = y /\ [y EXCEPT !.age = y.age + 1] = z /\ w.last = a
    OBVIOUS
  <2>5. OnBar(w, b) = z
    BY <2>3, <2>4 DEF OnBar
  <2>6. z = Seen(p, b)
    BY <2>2 DEF Seen
  <2> QED BY <1>1, <2>1, <2>5, <2>6
<1> QED BY <1>2, <1>3

(* A replay's state aged to a bar is one whose positions have seen it.     *)
LEMMA AgingFits ==
  ASSUME NEW st \in State, NEW a \in Nat, NEW b \in Nat, a <= b, Fresh(st, a)
  PROVE  /\ Aging(st, b) \in State /\ Fresh(Aging(st, b), b)
         /\ Aging(st, b).pos = [s \in Symbols |-> Seen(st.pos[s], b)] /\ Aging(st, b).exit = st.exit
         /\ Aging(st, b).log = st.log /\ Aging(st, b).tw = st.tw /\ Aging(st, b).tlog = st.tlog
<1> DEFINE f == [s \in Symbols |-> Seen(st.pos[s], b)]
           x == [st EXCEPT !.pos = f]
<1>1. Aging(st, b) = x
  BY DEF Aging
<1>2. st.pos \in [Symbols -> Place]
  BY DEF State
<1>3. \A s \in Symbols : st.pos[s].side \in Side /\ st.pos[s].entry \in Nat /\ (st.pos[s].side # "none" => st.pos[s].entry <= b)
  BY <1>2 DEF Place, Fresh
<1>4. \A s \in Symbols : f[s] \in Place /\ f[s] = Seen(f[s], b) /\ (f[s].side # "none" => f[s].entry <= b)
  <2> SUFFICES ASSUME NEW s \in Symbols
               PROVE  Seen(st.pos[s], b) \in Place /\ Seen(st.pos[s], b) = Seen(Seen(st.pos[s], b), b)
                      /\ (Seen(st.pos[s], b).side # "none" => Seen(st.pos[s], b).entry <= b)
    OBVIOUS
  <2> DEFINE p == st.pos[s]
  <2>1. p.side \in Side /\ p.entry \in Nat /\ (p.side # "none" => p.entry <= b)
    BY <1>3
  <2> HIDE DEF p
  <2>2. Seen(p, b) \in Place /\ Seen(p, b).side = p.side /\ (p.side # "none" => Seen(p, b).entry = p.entry)
    BY <2>1, SeenFits
  <2>3. Seen(Seen(p, b), b) = Seen(p, b)
    BY SeenAgain
  <2> QED BY <2>1, <2>2, <2>3 DEF p
<1>5. f \in [Symbols -> Place]
  BY <1>4
<1>6. \A s \in Symbols : f[s] = Seen(f[s], b) /\ (f[s].side # "none" => f[s].entry <= b)
  BY <1>4
<1> HIDE DEF f
<1>7. x \in State /\ x.pos = f /\ x.exit = st.exit /\ x.log = st.log /\ x.tw = st.tw /\ x.tlog = st.tlog
  BY <1>5 DEF State
<1>8. Fresh(x, b)
  BY <1>6, <1>7 DEF Fresh
<1> QED BY <1>1, <1>7, <1>8 DEF f

(* The exits of a bar do not depend on whether the bar was counted yet.    *)
LEMMA ExitsAged ==
  ASSUME NEW st \in State, NEW b \in Nat, b >= 1, Fresh(st, b - 1), NEW r
  PROVE  ExitsOn(Symbols, st, b, r) = ExitsOn(Symbols, Aging(st, b), b, r)
<1> DEFINE u == Aging(st, b)
           x == ExitsOn(Symbols, st, b, r)
           y == ExitsOn(Symbols, u, b, r)
<1>0. b - 1 \in Nat /\ b - 1 <= b
  OBVIOUS
<1>1. /\ u \in State /\ u.pos = [s \in Symbols |-> Seen(st.pos[s], b)] /\ u.exit = st.exit
      /\ u.log = st.log /\ u.tw = st.tw /\ u.tlog = st.tlog
  BY <1>0, AgingFits
<1>2. x \in State /\ st.pos \in [Symbols -> Place]
  BY ExitsFit DEF State
<1>3. /\ x.pos = [s \in Symbols |-> IF s \notin Symbols \/ st.pos[s].side = "none" THEN st.pos[s]
                                    ELSE IF Leaves(st, s, b, r) THEN NoPos ELSE OnBar(st.pos[s], b)]
      /\ x.exit = [s \in Symbols |-> IF s \in Symbols /\ Leaves(st, s, b, r) THEN b ELSE st.exit[s]]
      /\ x.log = st.log \cup Deals(Symbols, st, b, r) /\ x.tw = st.tw /\ x.tlog = st.tlog
  BY ExitsAre
<1> HIDE DEF x, u
<1>4. y \in State
  BY <1>1, ExitsFit
<1>5. /\ y.pos = [s \in Symbols |-> IF s \notin Symbols \/ u.pos[s].side = "none" THEN u.pos[s]
                                    ELSE IF Leaves(u, s, b, r) THEN NoPos ELSE OnBar(u.pos[s], b)]
      /\ y.exit = [s \in Symbols |-> IF s \in Symbols /\ Leaves(u, s, b, r) THEN b ELSE u.exit[s]]
      /\ y.log = u.log \cup Deals(Symbols, u, b, r) /\ y.tw = u.tw /\ y.tlog = u.tlog
  BY ExitsAre
<1> HIDE DEF y
<1>6. \A s \in Symbols : /\ u.pos[s].side = st.pos[s].side
                         /\ st.pos[s].side = "none" => u.pos[s] = st.pos[s]
                         /\ st.pos[s].side # "none" => OnBar(u.pos[s], b) = OnBar(st.pos[s], b)
                         /\ Leaves(u, s, b, r) <=> Leaves(st, s, b, r)
  <2> SUFFICES ASSUME NEW s \in Symbols
               PROVE  /\ u.pos[s].side = st.pos[s].side
                      /\ st.pos[s].side = "none" => u.pos[s] = st.pos[s]
                      /\ st.pos[s].side # "none" => OnBar(u.pos[s], b) = OnBar(st.pos[s], b)
                      /\ Leaves(u, s, b, r) <=> Leaves(st, s, b, r)
    OBVIOUS
  <2> DEFINE p == st.pos[s]
  <2>1. p = Seen(p, b - 1) /\ u.pos[s] = Seen(p, b) /\ p.side \in Side /\ p.entry \in Nat
        /\ (p.side # "none" => p.entry <= b)
    BY <1>0, <1>1, <1>2 DEF Fresh, Place
  <2>2. CASE p.side = "none"
    BY <2>1, <2>2 DEF Seen, Leaves
  <2>3. CASE p.side # "none"
    <3> HIDE DEF p
    <3>1. OnBar(Seen(p, b - 1), b) = Seen(p, b) /\ OnBar(Seen(p, b), b) = Seen(p, b) /\ Seen(p, b).side = p.side
      BY <2>1, <2>3, OnBarSeen, SeenFits
    <3>2. OnBar(p, b) = Seen(p, b)
      BY <2>1, <3>1
    <3> QED BY <2>1, <2>3, <3>1, <3>2 DEF Leaves, p
  <2> QED BY <2>2, <2>3
<1>7. x.pos = y.pos
  BY <1>3, <1>5, <1>6
<1>8. x.exit = y.exit
  BY <1>1, <1>3, <1>5, <1>6
<1>9. Deals(Symbols, u, b, r) = Deals(Symbols, st, b, r)
  <2>1. {q \in Symbols : Leaves(u, q, b, r)} = {q \in Symbols : Leaves(st, q, b, r)}
    BY <1>6
  <2>2. \A q \in {q \in Symbols : Leaves(u, q, b, r)} : OnBar(u.pos[q], b) = OnBar(st.pos[q], b)
    BY <1>6 DEF Leaves
  <2> QED BY <2>1, <2>2 DEF Deals
<1>10. x.log = y.log /\ x.tw = y.tw /\ x.tlog = y.tlog
  BY <1>1, <1>3, <1>5, <1>9
<1>11. x = y
  BY <1>2, <1>4, <1>7, <1>8, <1>10, SameState
<1> QED BY <1>11 DEF x, y, u

(* Up to the first place that fails, there is none.                        *)
LEMMA UpTo ==
  ASSUME NEW n \in Nat, NEW Q, 0 \in Q, \A j \in 1..n : j - 1 \in Q => j \in Q
  PROVE  \A j \in 0..n : j \in Q
<1> DEFINE Bad == {j \in 0..n : j \notin Q}
<1> SUFFICES ASSUME Bad # {} PROVE FALSE
  OBVIOUS
<1>1. Bad \in SUBSET Nat
  OBVIOUS
<1>2. PICK x \in Bad : \A y \in Bad : x <= y
  <2> HIDE DEF Bad
  <2> QED BY <1>1, Least
<1>3. x \in 1..n /\ x - 1 \in 0..n /\ ~(x <= x - 1)
  BY <1>2
<1>4. x - 1 \in Q
  BY <1>2, <1>3
<1> QED BY <1>2, <1>3, <1>4

\* The symbols whose turn has come in the first k places of a list.
Passed(o, k) == {o[i] : i \in 1..k}
Past(k) == Passed(Order, k)

LEMMA PassedGrows ==
  ASSUME NEW o \in Lists
  PROVE  /\ Passed(o, 0) = {} /\ Passed(o, Len(o)) = Symbols
         /\ \A j \in 1..Len(o) : Passed(o, j) = Passed(o, j - 1) \cup {o[j]}
         /\ \A j \in 0..Len(o) : Passed(o, j) \in SUBSET Symbols
<1>1. \A j \in 1..Len(o) : 1..j = (1..(j - 1)) \cup {j}
  BY Places
<1>2. \A j \in 0..Len(o) : Passed(o, j) \in SUBSET Symbols
  BY Places DEF Passed
<1>3. Passed(o, 0) = {}
  <2>1. 1..0 = {}
    OBVIOUS
  <2> QED BY <2>1 DEF Passed
<1>4. Passed(o, Len(o)) = Symbols
  BY Places DEF Passed
<1>5. ASSUME NEW j \in 1..Len(o) PROVE Passed(o, j) = Passed(o, j - 1) \cup {o[j]}
  BY <1>1 DEF Passed
<1> QED BY <1>2, <1>3, <1>4, <1>5

LEMMA PastGrows ==
  /\ Past(0) = {} /\ Past(Len(Order)) = Symbols
  /\ \A j \in 1..Len(Order) : Past(j) = Past(j - 1) \cup {Order[j]}
  /\ \A j \in 0..Len(Order) : Past(j) \in SUBSET Symbols
BY PassedGrows DEF Past, Lists

(* The walk over the exits leaves in any order the same.                   *)
LEMMA ExitWalk ==
  ASSUME NEW o \in Lists, NEW st \in State, NEW b \in Nat, NEW r
  PROVE  After(ExitStep(o, b, r), st, Len(o)) = ExitsOn(Symbols, st, b, r)
<1> DEFINE c == ExitStep(o, b, r)
           n == Len(o)
           Q == {j \in 0..n : After(c, st, j) = ExitsOn(Passed(o, j), st, b, r)}
<1>0. n \in Nat /\ c.order = o
  BY Places DEF ExitStep
<1>1. 0 \in Q
  <2>1. ExitsOn({}, st, b, r) = st
    BY ExitsNone
  <2>2. After(c, st, 0) = st
    <3> HIDE DEF c
    <3> QED BY <1>0, AfterIs
  <2>3. Passed(o, 0) = {} /\ 0 \in 0..n
    BY <1>0, PassedGrows
  <2> QED BY <2>1, <2>2, <2>3
<1>2. ASSUME NEW j \in 1..n, j - 1 \in Q PROVE j \in Q
  <2> DEFINE s == o[j]
             x == ExitsOn(Passed(o, j - 1), st, b, r)
  <2>1. s \in Symbols /\ j - 1 \in 0..n /\ Passed(o, j - 1) \in SUBSET Symbols /\ {s} \in SUBSET Symbols
    BY Places, PassedGrows
  <2>2. x \in State
    BY <2>1, ExitsFit
  <2>3. After(c, st, j) = Step(c, x, s)
    <3>1. After(c, st, j - 1) = x
      BY <1>2
    <3>2. After(c, st, j) = Step(c, After(c, st, j - 1), s)
      <4> HIDE DEF c
      <4> QED BY <1>0, AfterIs
    <3> HIDE DEF c, x, s
    <3> QED BY <3>1, <3>2
  <2>4. Step(c, x, s) = ReplayExit(x, s, b, r)
    BY DEF Step, ExitStep
  <2>5. ReplayExit(x, s, b, r) = ExitsOn({s}, x, b, r)
    <3> HIDE DEF x, s
    <3> QED BY <2>1, <2>2, ExitOfOne
  <2>6. ExitsOn({s}, x, b, r) = ExitsOn({s} \cup Passed(o, j - 1), st, b, r)
    <3> HIDE DEF s
    <3> QED BY <2>1, ExitsTwice
  <2>7. {s} \cup Passed(o, j - 1) = Passed(o, j)
    BY PassedGrows
  <2>8. After(c, st, j) = ExitsOn(Passed(o, j), st, b, r)
    BY <2>3, <2>4, <2>5, <2>6, <2>7
  <2> QED BY <2>8
<1>3. n \in Q
  <2>1. \A j \in 0..n : j \in Q
    <3> HIDE DEF Q, n
    <3> QED BY <1>0, <1>1, <1>2, UpTo
  <2> QED BY <1>0, <2>1
<1> QED BY <1>3, PassedGrows

-----------------------------------------------------------------------------
(* The entries of a bar: what they open does not leave on the bar, and no  *)
(* symbol they passed fires again on it.                                   *)
Settled(o, k, st, b, r, j) ==
  /\ st \in State /\ Fresh(st, b)
  /\ \A s \in Symbols : ~Leaves(st, s, b, r)
  /\ \A i \in 1..j : ~Fires(k, st.pos, st.exit, o[i], b, r[o[i]])

(* A position just opened counts nothing and does not leave on its bar.    *)
LEMMA OpenedStays ==
  ASSUME NEW s \in Symbols, NEW b \in Nat, NEW r \in Readings, r[s].entry # "none"
  PROVE  /\ Opened(r[s].entry, b) \in Place /\ Opened(r[s].entry, b) = Seen(Opened(r[s].entry, b), b)
         /\ Opened(r[s].entry, b).side = r[s].entry /\ Opened(r[s].entry, b).entry = b
         /\ OnBar(Opened(r[s].entry, b), b) = Opened(r[s].entry, b)
         /\ ExitReason(Opened(r[s].entry, b), r[s]) = "none"
<1> DEFINE d == r[s].entry
           p == [side |-> d, entry |-> b, last |-> b, age |-> 0]
<1>1. d \in Side /\ d # "none" /\ d \notin r[s].out
  BY ExitAssumption, ReadingsAssumption DEF Reading, Side
<1> HIDE DEF d
<1>2. p = Opened(d, b) /\ p \in Place /\ p.side = d /\ p.entry = b /\ p.last = b /\ p.age = 0
  BY <1>1 DEF Opened, Place
<1>3. Seen(p, b) = p
  <2>1. b - b = 0
    OBVIOUS
  <2> QED BY <1>1, <2>1 DEF Seen
<1> HIDE DEF p
<1>4. OnBar(p, b) = p
  BY <1>2 DEF OnBar
<1>5. ~StopHit(p, r[s]) /\ ~(p.age >= MaxHold)
  BY <1>2, BoundsAssumption DEF StopHit
<1>6. ExitReason(p, r[s]) = "none"
  BY <1>1, <1>2, <1>5 DEF ExitReason
<1> QED BY <1>1, <1>2, <1>3, <1>4, <1>6 DEF d

\* y is st with the entry of s made.
EntryMade(st, y, s, b, r) ==
  /\ y \in State /\ y.pos = [st.pos EXCEPT ![s] = Opened(r[s].entry, b)]
  /\ y.exit = st.exit /\ y.log = st.log /\ y.tw = st.tw /\ y.tlog = st.tlog

LEMMA EntryFired ==
  ASSUME NEW k, NEW st \in State, NEW s \in Symbols, NEW b \in Nat, NEW r \in Readings,
         Fires(k, st.pos, st.exit, s, b, r[s])
  PROVE  EntryMade(st, ReplayEntry(k, st, s, b, r), s, b, r)
<1> DEFINE y == ReplayEntry(k, st, s, b, r)
           g == [st.pos EXCEPT ![s] = Opened(r[s].entry, b)]
<1>1. y = [st EXCEPT !.pos = g]
  BY DEF ReplayEntry
<1>2. g \in [Symbols -> Place]
  BY OpenedStays DEF State, Fires, Asks
<1> HIDE DEF g, y
<1>3. y \in State /\ y.pos = g /\ y.exit = st.exit /\ y.log = st.log /\ y.tw = st.tw /\ y.tlog = st.tlog
  BY <1>1, <1>2 DEF State
<1> QED BY <1>3 DEF EntryMade, y, g

LEMMA SymbolsFinite == IsFiniteSet(Symbols)
<1>0. Order \in Lists
  BY DEF Lists
<1>1. IsFiniteSet(DOMAIN Order)
  BY <1>0, Places, FS_Interval
<1>2. Symbols = {Order[i] : i \in DOMAIN Order}
  BY <1>0, Places
<1> DEFINE f == [i \in DOMAIN Order |-> Order[i]]
<1>3. f \in Surjection(DOMAIN Order, Symbols)
  BY <1>2 DEF Surjection
<1> QED BY <1>1, <1>3, FS_Surjection

(* The more is held, the less fires.                                       *)
LEMMA HeldFiresLess ==
  ASSUME NEW k, NEW h \in [Symbols -> Place], NEW g \in [Symbols -> Place], NEW e, NEW s \in Symbols, NEW b, NEW r,
         \A q \in Symbols : h[q].side # "none" => g[q].side = h[q].side,
         ~Fires(k, h, e, s, b, r)
  PROVE  ~Fires(k, g, e, s, b, r)
<1> SUFFICES ASSUME Fires(k, g, e, s, b, r) PROVE FALSE
  OBVIOUS
<1>1. r.entry # "none" /\ Room(k, g, s, r.entry) /\ Ready(g, e, s, b)
  BY DEF Fires, Asks
<1>2. Ready(h, e, s, b)
  BY <1>1 DEF Ready
<1>3. Room(k, h, s, r.entry)
  <2>1. CASE k = "minute"
    <3> DEFINE H == {q \in Symbols : h[q].side # "none"}
               G == {q \in Symbols : g[q].side # "none"}
    <3>1. H \subseteq G /\ IsFiniteSet(G)
      BY SymbolsFinite, FS_Subset
    <3>2. Cardinality(H) <= Cardinality(G) /\ Cardinality(H) \in Nat /\ Cardinality(G) \in Nat
      <4> HIDE DEF H, G
      <4> QED BY <3>1, FS_Subset, FS_CardinalityType
    <3>3. Cardinality(G) < Slots
      BY <1>1, <2>1 DEF Room
    <3>4. Cardinality(H) < Slots
      <4> HIDE DEF H, G
      <4> QED BY <3>2, <3>3, BoundsAssumption
    <3> QED BY <2>1, <3>4 DEF Room
  <2>2. CASE k # "minute"
    <3>1. \A q \in Symbols \ {s} : g[q].side # r.entry
      BY <1>1, <2>2 DEF Room
    <3>2. \A q \in Symbols \ {s} : h[q].side # r.entry
      BY <1>1, <3>1
    <3> QED BY <2>2, <3>2 DEF Room
  <2> QED BY <2>1, <2>2
<1> QED BY <1>1, <1>2, <1>3 DEF Fires, Asks

(* Once its turn has passed, a symbol that did not fire never fires on the bar.*)
LEMMA EntrySettles ==
  ASSUME NEW o \in Lists, NEW k, NEW st, NEW b \in Nat, NEW r \in Readings, NEW j \in 1..Len(o), Settled(o, k, st, b, r, j - 1)
  PROVE  LET y == ReplayEntry(k, st, o[j], b, r)
         IN  Settled(o, k, y, b, r, j) /\ y.exit = st.exit /\ y.log = st.log /\ y.tw = st.tw /\ y.tlog = st.tlog
<1> DEFINE s == o[j]
           f == Fires(k, st.pos, st.exit, s, b, r[s])
           y == ReplayEntry(k, st, s, b, r)
           d == Opened(r[s].entry, b)
<1>1. st \in State /\ st.pos \in [Symbols -> Place] /\ s \in Symbols /\ \A i \in 1..j : i = j \/ i \in 1..(j - 1)
  BY Places DEF Settled, State
<1>2. /\ ~f => y = st
      /\ f => /\ y \in State /\ y.pos = [st.pos EXCEPT ![s] = d]
              /\ y.exit = st.exit /\ y.log = st.log /\ y.tw = st.tw /\ y.tlog = st.tlog
  <2>1. ASSUME f PROVE EntryMade(st, y, s, b, r)
    <3> HIDE DEF s
    <3> QED BY <1>1, <2>1, EntryFired
  <2> QED BY <2>1 DEF EntryMade, ReplayEntry
<1>3. CASE ~f
  <2>1. y = st
    BY <1>2, <1>3
  <2>2. \A i \in 1..j : ~Fires(k, st.pos, st.exit, o[i], b, r[o[i]])
    BY <1>1, <1>3 DEF Settled
  <2> HIDE DEF y
  <2>3. Settled(o, k, y, b, r, j)
    BY <2>1, <2>2 DEF Settled
  <2> QED BY <2>1, <2>3 DEF y
<1>4. CASE f
  <2>1. r[s].entry # "none" /\ st.pos[s].side = "none"
    BY <1>4 DEF Fires, Asks, Ready
  <2>2. /\ d \in Place /\ d = Seen(d, b) /\ d.side = r[s].entry /\ d.entry = b
        /\ OnBar(d, b) = d /\ ExitReason(d, r[s]) = "none"
    <3> HIDE DEF s
    <3> QED BY <1>1, <2>1, OpenedStays
  <2> HIDE DEF y, d, f
  <2>3. y.pos[s] = d /\ \A q \in Symbols \ {s} : y.pos[q] = st.pos[q]
    BY <1>1, <1>2, <1>4
  <2>4. Fresh(y, b)
    BY <2>2, <2>3 DEF Settled, Fresh
  <2>5. \A q \in Symbols : ~Leaves(y, q, b, r)
    BY <2>2, <2>3 DEF Settled, Leaves
  <2>6. ASSUME NEW i \in 1..j PROVE ~Fires(k, y.pos, y.exit, o[i], b, r[o[i]])
    <3>1. CASE i = j
      BY <2>1, <2>2, <2>3, <3>1 DEF Fires, Asks, Ready
    <3>2. CASE i \in 1..(j - 1)
      <4>1. ~Fires(k, st.pos, st.exit, o[i], b, r[o[i]])
        BY <3>2 DEF Settled
      <4>2. \A q \in Symbols : st.pos[q].side # "none" => y.pos[q].side = st.pos[q].side
        BY <2>1, <2>3
      <4>3. y.pos \in [Symbols -> Place] /\ y.exit = st.exit /\ o[i] \in Symbols
        BY <1>2, <1>4, Places DEF State
      <4> QED BY <1>1, <4>1, <4>2, <4>3, HeldFiresLess
    <3> QED BY <1>1, <3>1, <3>2
  <2>7. Settled(o, k, y, b, r, j)
    BY <1>2, <1>4, <2>4, <2>5, <2>6 DEF Settled
  <2> QED BY <1>2, <1>4, <2>7 DEF y
<1> QED BY <1>3, <1>4

LEMMA EntriesSettle ==
  ASSUME NEW o \in Lists, NEW k, NEW st, NEW b \in Nat, NEW r \in Readings, Settled(o, k, st, b, r, 0), NEW j \in 0..Len(o)
  PROVE  LET y == After(EntryStep(o, k, b, r), st, j)
         IN  Settled(o, k, y, b, r, j) /\ y.exit = st.exit /\ y.log = st.log /\ y.tw = st.tw /\ y.tlog = st.tlog
<1> DEFINE n == Len(o)
           c == EntryStep(o, k, b, r)
           Fine(y, i) == Settled(o, k, y, b, r, i) /\ y.exit = st.exit /\ y.log = st.log /\ y.tw = st.tw /\ y.tlog = st.tlog
           Q == {i \in 0..n : Fine(After(c, st, i), i)}
<1>0. n \in Nat /\ c.order = o
  BY Places DEF EntryStep
<1>1. 0 \in Q
  BY <1>0, AfterIs
<1>2. ASSUME NEW i \in 1..n, i - 1 \in Q PROVE i \in Q
  <2> DEFINE x == After(c, st, i - 1)
             y == ReplayEntry(k, x, o[i], b, r)
  <2>1. Settled(o, k, x, b, r, i - 1) /\ x.exit = st.exit /\ x.log = st.log /\ x.tw = st.tw /\ x.tlog = st.tlog
    BY <1>2
  <2>2. After(c, st, i) = Step(c, x, o[i])
    <3> HIDE DEF c
    <3> QED BY <1>0, AfterIs
  <2>3. Step(c, x, o[i]) = y
    BY DEF Step, EntryStep
  <2>4. Settled(o, k, y, b, r, i) /\ y.exit = x.exit /\ y.log = x.log /\ y.tw = x.tw /\ y.tlog = x.tlog
    <3> HIDE DEF x
    <3> QED BY <2>1, EntrySettles
  <2> HIDE DEF x, y
  <2>5. Fine(y, i)
    BY <2>1, <2>4
  <2> QED BY <2>2, <2>3, <2>5
<1>3. j \in Q
  <2>1. \A i \in 0..n : i \in Q
    <3> HIDE DEF Q, n
    <3> QED BY <1>0, <1>1, <1>2, UpTo
  <2> QED BY <2>1
<1> QED BY <1>3

-----------------------------------------------------------------------------
(* The replay, bar by bar.                                                 *)
Follows(g, k, bars, m) ==
  g = [n \in 0..m |-> IF n = 0 THEN ReplayStart ELSE ReplayBar(k, g[n - 1], n, bars[n])]

LEMMA FollowsAt ==
  ASSUME NEW g, NEW k, NEW bars, NEW m \in Nat, Follows(g, k, bars, m)
  PROVE  g[0] = ReplayStart /\ \A n \in 1..m : g[n] = ReplayBar(k, g[n - 1], n, bars[n])
<1> DEFINE body(n) == IF n = 0 THEN ReplayStart ELSE ReplayBar(k, g[n - 1], n, bars[n])
           f == [n \in 0..m |-> body(n)]
<1>1. g = f
  BY DEF Follows
<1>2. \A n \in 0..m : f[n] = body(n)
  <2> HIDE DEF body
  <2> QED OBVIOUS
<1>3. \A n \in 0..m : g[n] = body(n)
  <2> HIDE DEF body, f
  <2> QED BY <1>1, <1>2
<1>4. g[0] = body(0)
  BY <1>3
<1>5. \A n \in 1..m : g[n] = body(n) /\ n # 0
  <2> HIDE DEF body
  <2> QED BY <1>3
<1> QED BY <1>4, <1>5

LEMMA FollowsExists ==
  ASSUME NEW k, NEW bars, NEW m \in Nat
  PROVE  \E g : Follows(g, k, bars, m)
<1> DEFINE Q == {n \in 0..m : \E g : Follows(g, k, bars, n)}
<1>1. 0 \in Q
  <2> DEFINE g == [n \in 0..0 |-> ReplayStart]
  <2>1. \A n \in 0..0 : ReplayStart = IF n = 0 THEN ReplayStart ELSE ReplayBar(k, g[n - 1], n, bars[n])
    OBVIOUS
  <2>2. Follows(g, k, bars, 0)
    BY <2>1 DEF Follows
  <2> HIDE DEF g
  <2> QED BY <2>2
<1>2. ASSUME NEW n \in 1..m, n - 1 \in Q PROVE n \in Q
  <2>1. PICK g : Follows(g, k, bars, n - 1)
    BY <1>2
  <2>0. n - 1 \in Nat
    OBVIOUS
  <2>2. g[0] = ReplayStart /\ \A i \in 1..(n - 1) : g[i] = ReplayBar(k, g[i - 1], i, bars[i])
    BY <2>0, <2>1, FollowsAt
  <2> DEFINE val(i) == IF i = n THEN ReplayBar(k, g[n - 1], n, bars[n]) ELSE g[i]
             h == [i \in 0..n |-> val(i)]
  <2>3. \A i \in 0..(n - 1) : h[i] = g[i]
    OBVIOUS
  <2>4. ASSUME NEW i \in 0..n PROVE val(i) = IF i = 0 THEN ReplayStart ELSE ReplayBar(k, h[i - 1], i, bars[i])
    <3>1. CASE i = 0
      BY <2>2, <3>1
    <3>2. CASE i # 0
      <4>1. h[i - 1] = g[i - 1]
        <5> HIDE DEF h
        <5> QED BY <2>3, <3>2
      <4>2. val(i) = ReplayBar(k, g[i - 1], i, bars[i])
        <5>1. CASE i = n
          BY <5>1
        <5>2. CASE i # n
          <6>1. i \in 1..(n - 1)
            BY <3>2, <5>2
          <6>2. val(i) = g[i]
            BY <5>2
          <6> HIDE DEF val, h
          <6> QED BY <2>2, <6>1, <6>2
        <5> QED BY <5>1, <5>2
      <4> HIDE DEF val, h
      <4> QED BY <3>2, <4>1, <4>2
    <3> QED BY <3>1, <3>2
  <2>5. Follows(h, k, bars, n)
    <3>1. h = [i \in 0..n |-> val(i)]
      OBVIOUS
    <3> HIDE DEF h, val
    <3> QED BY <2>4, <3>1 DEF Follows
  <2> HIDE DEF h
  <2> QED BY <2>5
<1>3. \A n \in 0..m : n \in Q
  <2> HIDE DEF Q
  <2> QED BY <1>1, <1>2, UpTo
<1> QED BY <1>3

(* ReplayTo is the function that its recursion describes.                  *)
LEMMA ReplayFollows ==
  ASSUME NEW k, NEW bars, Len(bars) \in Nat
  PROVE  Follows(ReplayTo(k, bars), k, bars, Len(bars))
<1> DEFINE f == CHOOSE g : Follows(g, k, bars, Len(bars))
<1>1. ReplayTo(k, bars) = f
  BY DEF ReplayTo, Follows
<1>2. Follows(f, k, bars, Len(bars))
  BY FollowsExists
<1> HIDE DEF f
<1> QED BY <1>1, <1>2

LEMMA ReplayIs ==
  ASSUME NEW k, NEW bars \in Seq(Readings)
  PROVE  /\ ReplayTo(k, bars)[0] = ReplayStart
         /\ \A n \in 1..Len(bars) : ReplayTo(k, bars)[n] = ReplayBar(k, ReplayTo(k, bars)[n - 1], n, bars[n])
<1>1. Len(bars) \in Nat
  BY LenProperties
<1> QED BY <1>1, ReplayFollows, FollowsAt

(* A further bar changes nothing of the replay up to it.                   *)
LEMMA ReplayGrows ==
  ASSUME NEW k, NEW bars \in Seq(Readings), NEW r \in Readings
  PROVE  \A n \in 0..Len(bars) : ReplayTo(k, Append(bars, r))[n] = ReplayTo(k, bars)[n]
<1> DEFINE more == Append(bars, r)
           g == ReplayTo(k, bars)
           h == ReplayTo(k, more)
           m == Len(bars)
           Q == {n \in 0..m : h[n] = g[n]}
<1>1. m \in Nat /\ Len(more) = m + 1 /\ more \in Seq(Readings) /\ \A n \in 1..m : bars[n] = more[n]
  BY LenProperties, AppendProperties
<1>2. g[0] = ReplayStart /\ \A n \in 1..m : g[n] = ReplayBar(k, g[n - 1], n, bars[n])
  BY ReplayIs
<1> HIDE DEF more
<1>3. h[0] = ReplayStart /\ \A n \in 1..Len(more) : h[n] = ReplayBar(k, h[n - 1], n, more[n])
  BY <1>1, ReplayIs
<1> HIDE DEF g, h, m
<1>4. 0 \in Q
  BY <1>1, <1>2, <1>3
<1>5. ASSUME NEW n \in 1..m, n - 1 \in Q PROVE n \in Q
  <2>1. h[n - 1] = g[n - 1] /\ n \in 0..m /\ n \in 1..Len(more) /\ bars[n] = more[n]
    BY <1>1, <1>5
  <2> QED BY <1>2, <1>3, <2>1
<1>6. \A n \in 0..m : n \in Q
  <2> HIDE DEF Q
  <2> QED BY <1>1, <1>4, <1>5, UpTo
<1> QED BY <1>6 DEF g, h, m, more

(* One bar of the replay: the exits, the entries and the twin's step.      *)
Exited(k, st, b, r) == ExitsOn(Symbols, Aging(st, b), b, r)
Entering(k, st, b, r, j) == After(EntryStep(Order, k, b, r), Exited(k, st, b, r), j)
\* The entries of the replay, in its own order.
Made(k, st, b, r) == After(EntryStep(Turns(k), k, b, r), Exited(k, st, b, r), Len(Turns(k)))

LEMMA TurnsListed == \A k : Turns(k) \in Lists
BY DEF Turns, Lists

(* After the exits of a bar nothing leaves on it.                          *)
LEMMA ExitedSettles ==
  ASSUME NEW o, NEW k, NEW u \in State, NEW b \in Nat, Fresh(u, b), NEW r
  PROVE  Settled(o, k, ExitsOn(Symbols, u, b, r), b, r, 0)
<1> DEFINE x == ExitsOn(Symbols, u, b, r)
<1>1. /\ x.pos = [s \in Symbols |-> IF s \notin Symbols \/ u.pos[s].side = "none" THEN u.pos[s]
                                    ELSE IF Leaves(u, s, b, r) THEN NoPos ELSE OnBar(u.pos[s], b)]
      /\ x.exit = [s \in Symbols |-> IF s \in Symbols /\ Leaves(u, s, b, r) THEN b ELSE u.exit[s]]
      /\ x.log = u.log \cup Deals(Symbols, u, b, r) /\ x.tw = u.tw /\ x.tlog = u.tlog
  BY ExitsAre
<1>2. x \in State /\ u.pos \in [Symbols -> Place]
  BY ExitsFit DEF State
<1> HIDE DEF x
<1>3. \A s \in Symbols : u.pos[s].side # "none" => OnBar(u.pos[s], b) = u.pos[s]
  <2> SUFFICES ASSUME NEW s \in Symbols, u.pos[s].side # "none" PROVE OnBar(u.pos[s], b) = u.pos[s]
    OBVIOUS
  <2> DEFINE p == u.pos[s]
  <2>1. p.side # "none" /\ p.entry \in Nat /\ p = Seen(p, b) /\ b \in {b, b - 1}
    BY <1>2 DEF Fresh, Place
  <2> HIDE DEF p
  <2>2. OnBar(Seen(p, b), b) = Seen(p, b)
    BY <2>1, OnBarSeen
  <2> QED BY <2>1, <2>2 DEF p
<1>4. \A s \in Symbols : x.pos[s] = NoPos \/ (x.pos[s] = u.pos[s] /\ ~Leaves(u, s, b, r))
  BY <1>1, <1>3 DEF Leaves
<1>5. \A s \in Symbols : ~Leaves(x, s, b, r)
  BY <1>4, NoPosPlace DEF Leaves
<1>6. Fresh(x, b)
  BY <1>4, NoPosPlace DEF Fresh, Seen
<1>7. \A i \in 1..0 : FALSE
  OBVIOUS
<1>8. Settled(o, k, x, b, r, 0)
  BY <1>2, <1>5, <1>6, <1>7 DEF Settled
<1> QED BY <1>8 DEF x

(* The replay's state after the entries of a bar is one, fresh on the bar.  *)
LEMMA MadeFits ==
  ASSUME NEW k, NEW st \in State, NEW b \in Nat, b >= 1, Fresh(st, b - 1), NEW r \in Readings
  PROVE  Made(k, st, b, r) \in State /\ Fresh(Made(k, st, b, r), b) /\ Made(k, st, b, r).tlog = st.tlog
<1> DEFINE u == Aging(st, b)
           x == ExitsOn(Symbols, u, b, r)
           o == Turns(k)
           y == After(EntryStep(o, k, b, r), x, Len(o))
<1>0. b - 1 \in Nat /\ b - 1 <= b /\ o \in Lists
  BY TurnsListed
<1>1. u \in State /\ Fresh(u, b) /\ u.tlog = st.tlog
  BY <1>0, AgingFits
<1>2. Made(k, st, b, r) = y
  BY DEF Made, Exited
<1>3. x.tlog = u.tlog
  BY DEF ExitsOn
<1> HIDE DEF u
<1>4. Settled(o, k, x, b, r, 0)
  BY <1>1, ExitedSettles
<1> HIDE DEF x, o
<1>5. Len(o) \in 0..Len(o)
  BY <1>0, Places
<1>6. Settled(o, k, y, b, r, Len(o)) /\ y.tlog = x.tlog
  BY <1>0, <1>4, <1>5, EntriesSettle
<1> HIDE DEF y
<1> QED BY <1>1, <1>2, <1>3, <1>6 DEF Settled

LEMMA TwinFit ==
  ASSUME NEW t \in Twin, NEW r \in Reading, NEW b \in Nat
  PROVE  TwinStep(t, r, b) \in Twin /\ TwinTrades(t, r, b) \in SUBSET Deal
<1> DEFINE x == TwinExits(t, r, b)
           y == TwinDraws(x, r, b)
<1>1. t.pos \in [Symbols -> Place] /\ t.drawn \in [Symbols -> Nat]
  BY DEF Twin
<1>2. \A s \in Symbols : OnBar(t.pos[s], b) \in Place
  BY <1>1, OnBarOnce
<1>3. x \in Twin
  BY <1>1, <1>2, NoPosPlace DEF TwinExits, Twin
<1> HIDE DEF x
<1>4. \A s \in Symbols : Opened(r[s].draw, b) \in Place
  BY DEF Opened, Place, Reading, Side
<1>5. y \in Twin
  BY <1>3, <1>4 DEF TwinDraws, Twin
<1>6. ASSUME NEW s \in Symbols PROVE Closed(s, OnBar(t.pos[s], b), b, ExitReason(OnBar(t.pos[s], b), r[s])) \in Deal
  <2> DEFINE p == OnBar(t.pos[s], b)
             why == ExitReason(p, r[s])
  <2>1. p \in Place /\ why \in Why
    BY <1>2, ReasonIn
  <2> HIDE DEF p, why
  <2>2. Closed(s, p, b, why) \in Deal
    BY <2>1, ClosedDeal
  <2> QED BY <2>2 DEF p, why
<1>7. TwinTrades(t, r, b) \in SUBSET Deal
  BY <1>6 DEF TwinTrades, TwinLeaves
<1> QED BY <1>5, <1>7 DEF TwinStep, x

\* z is st after the bar: y's places, and the twin's step.
BarMade(st, y, z, b, r) ==
  /\ z \in State /\ z.pos = y.pos /\ z.exit = y.exit /\ z.log = y.log
  /\ z.tw = TwinStep(st.tw, r, b) /\ z.tlog = st.tlog \cup TwinTrades(st.tw, r, b)

LEMMA BarIs ==
  ASSUME NEW k, NEW st \in State, NEW b \in Nat, b >= 1, Fresh(st, b - 1), NEW r \in Readings,
         NEW y, y = Made(k, st, b, r), y \in State, y.tlog = st.tlog,
         TwinStep(st.tw, r, b) \in Twin, TwinTrades(st.tw, r, b) \in SUBSET Deal,
         NEW z, z = ReplayBar(k, st, b, r)
  PROVE  BarMade(st, y, z, b, r)
<1> DEFINE o == Turns(k)
           left1 == FoldLeft(LAMBDA a, s : ReplayExit(a, s, b, r), st, o)
           in1 == FoldLeft(LAMBDA a, s : ReplayEntry(k, a, s, b, r), left1, o)
           tw1 == TwinStep(st.tw, r, b)
           tr1 == TwinTrades(st.tw, r, b)
<1>0. o \in Lists
  BY TurnsListed
<1>1. left1 = ExitsOn(Symbols, st, b, r)
  <2>1. left1 = After(ExitStep(o, b, r), st, Len(o))
    <3> HIDE DEF o
    <3> QED BY <1>0, ExitFold
  <2> HIDE DEF left1, o
  <2> QED BY <1>0, <2>1, ExitWalk
<1>2. left1 = Exited(k, st, b, r)
  <2> HIDE DEF left1
  <2> QED BY <1>1, ExitsAged DEF Exited
<1>3. in1 = y
  <2> HIDE DEF left1
  <2>1. in1 = After(EntryStep(o, k, b, r), left1, Len(o))
    <3> HIDE DEF o
    <3> QED BY <1>0, EntryFold
  <2> HIDE DEF in1
  <2> QED BY <1>2, <2>1 DEF Made
<1>4. z = [in1 EXCEPT !.tw = tw1, !.tlog = @ \cup tr1]
  BY DEF ReplayBar
<1> HIDE DEF left1, in1, tw1, tr1, o
<1>5. z = [y EXCEPT !.tw = tw1, !.tlog = y.tlog \cup tr1]
  BY <1>3, <1>4
<1>6. tw1 \in Twin /\ tr1 \in SUBSET Deal
  BY DEF tw1, tr1
<1>7. z \in State /\ z.pos = y.pos /\ z.exit = y.exit /\ z.log = y.log /\ z.tw = tw1 /\ z.tlog = y.tlog \cup tr1
  BY <1>5, <1>6 DEF State
<1> QED BY <1>7 DEF BarMade, tw1, tr1

LEMMA StartFits == ReplayStart \in State /\ ReplayStart.pos = [s \in Symbols |-> NoPos] /\ ReplayStart.log = {} /\ ReplayStart.tlog = {}
                   /\ ReplayStart.exit = [s \in Symbols |-> 0] /\ ReplayStart.tw = NoTwin
<1>1. NoTwin.pos = [s \in Symbols |-> NoPos] /\ NoTwin.pos \in [Symbols -> Place] /\ NoTwin \in Twin
  BY NoPosPlace DEF NoTwin, Twin
<1> QED BY <1>1 DEF ReplayStart, State

(* The replay of any bars is a state whose positions have seen every bar.   *)
LEMMA ReplayFits ==
  ASSUME NEW k, NEW bars \in Seq(Readings)
  PROVE  \A n \in 0..Len(bars) : ReplayTo(k, bars)[n] \in State /\ Fresh(ReplayTo(k, bars)[n], n)
<1> DEFINE g == ReplayTo(k, bars)
           m == Len(bars)
           Q == {n \in 0..m : g[n] \in State /\ Fresh(g[n], n)}
<1>0. m \in Nat
  BY LenProperties
<1>1. g[0] = ReplayStart /\ \A n \in 1..m : g[n] = ReplayBar(k, g[n - 1], n, bars[n])
  BY ReplayIs
<1>2. \A n \in 1..m : bars[n] \in Readings
  BY ElementOfSeq
<1> HIDE DEF g, m
<1>3. 0 \in Q
  <2>1. Fresh(ReplayStart, 0)
    BY StartFits, NoPosPlace DEF Fresh, Seen
  <2> QED BY <1>0, <1>1, <2>1, StartFits
<1>4. ASSUME NEW n \in 1..m, n - 1 \in Q PROVE n \in Q
  <2> DEFINE st == g[n - 1]
             r == bars[n]
             y == Made(k, st, n, r)
             z == ReplayBar(k, st, n, r)
  <2>1. st \in State /\ Fresh(st, n - 1) /\ n \in Nat /\ n >= 1 /\ r \in Readings /\ g[n] = z /\ n \in 0..m
    BY <1>0, <1>1, <1>2, <1>4
  <2> HIDE DEF st, r
  <2>2. y \in State /\ Fresh(y, n) /\ y.tlog = st.tlog
    BY <2>1, MadeFits
  <2>3. TwinStep(st.tw, r, n) \in Twin /\ TwinTrades(st.tw, r, n) \in SUBSET Deal
    BY <2>1, TwinFit, ReadingsAssumption DEF State
  <2>4. BarMade(st, y, z, n, r)
    <3>1. y = Made(k, st, n, r) /\ z = ReplayBar(k, st, n, r)
      OBVIOUS
    <3> HIDE DEF y, z
    <3> QED BY <2>1, <2>2, <2>3, <3>1, BarIs
  <2> HIDE DEF y, z
  <2>5. z \in State /\ Fresh(z, n)
    BY <2>2, <2>4 DEF BarMade, Fresh
  <2> QED BY <2>1, <2>5
<1>5. \A n \in 0..m : n \in Q
  <2> HIDE DEF Q
  <2> QED BY <1>0, <1>3, <1>4, UpTo
<1> QED BY <1>5 DEF g, m

-----------------------------------------------------------------------------
(* When in the end no symbol asks to enter any more, none was turned away, *)
(* and any order of the symbols makes the same entries.                    *)
Taken(st) == {s \in Symbols : st.pos[s].side # "none"}
Alike(x, y) == y \in State /\ y.exit = x.exit /\ y.log = x.log /\ y.tw = x.tw /\ y.tlog = x.tlog
Asked(x, s, b, r) == Asks(x.pos, x.exit, s, b, r[s])

\* y is x with some of those that asked entered, within the slots.
Some(x, y, b, r) ==
  /\ Alike(x, y)
  /\ \A s \in Symbols : y.pos[s] = x.pos[s] \/ (Asked(x, s, b, r) /\ y.pos[s] = Opened(r[s].entry, b))
  /\ y.pos = x.pos \/ Cardinality(Taken(y)) <= Slots
\* y is x with all of P that asked entered.
All(x, y, P, b, r) ==
  /\ Alike(x, y)
  /\ \A s \in Symbols : y.pos[s] = IF s \in P /\ Asked(x, s, b, r) THEN Opened(r[s].entry, b) ELSE x.pos[s]

LEMMA AskedOpens ==
  ASSUME NEW x \in State, NEW s \in Symbols, NEW b \in Nat, NEW r \in Readings, Asked(x, s, b, r)
  PROVE  x.pos[s].side = "none" /\ Opened(r[s].entry, b).side # "none" /\ Opened(r[s].entry, b) \in Place
<1>1. r[s].entry # "none" /\ x.pos[s].side = "none"
  BY DEF Asked, Asks, Ready
<1> QED BY <1>1, OpenedStays

(* What a symbol asks depends on its own place and on the exits.           *)
LEMMA AskedSame ==
  ASSUME NEW x, NEW y, NEW s, NEW b, NEW r, y.exit = x.exit, y.pos[s].side = x.pos[s].side
  PROVE  Asked(y, s, b, r) <=> Asked(x, s, b, r)
BY DEF Asked, Asks, Ready

LEMMA TakenFinite ==
  ASSUME NEW st
  PROVE  IsFiniteSet(Taken(st)) /\ Cardinality(Taken(st)) \in Nat
<1>1. Taken(st) \subseteq Symbols
  BY DEF Taken
<1> QED BY <1>1, SymbolsFinite, FS_Subset, FS_CardinalityType

LEMMA SomeStep ==
  ASSUME NEW x \in State, NEW y, NEW b \in Nat, NEW r \in Readings, Some(x, y, b, r), NEW s \in Symbols
  PROVE  Some(x, ReplayEntry("minute", y, s, b, r), b, r)
<1> DEFINE z == ReplayEntry("minute", y, s, b, r)
           d == Opened(r[s].entry, b)
<1>1. y \in State /\ y.pos \in [Symbols -> Place]
  BY DEF Some, Alike, State
<1>2. CASE ~Fires("minute", y.pos, y.exit, s, b, r[s])
  BY <1>2 DEF ReplayEntry
<1>3. CASE Fires("minute", y.pos, y.exit, s, b, r[s])
  <2>1. z \in State /\ z.pos = [y.pos EXCEPT ![s] = d] /\ z.exit = y.exit /\ z.log = y.log /\ z.tw = y.tw /\ z.tlog = y.tlog
    BY <1>1, <1>3, EntryFired DEF EntryMade
  <2> HIDE DEF z
  <2>2. Asked(y, s, b, r) /\ Cardinality(Taken(y)) < Slots
    BY <1>3 DEF Fires, Room, Asked, Taken
  <2>3. y.pos[s].side = "none" /\ d.side # "none"
    BY <1>1, <2>2, AskedOpens
  <2> HIDE DEF d
  <2>4. y.pos[s] = x.pos[s]
    <3>1. ASSUME Asked(x, s, b, r), y.pos[s] = d PROVE FALSE
      BY <2>3, <3>1
    <3> QED BY <3>1 DEF Some, d
  <2>5. Asked(x, s, b, r)
    BY <2>2, <2>4, AskedSame DEF Some, Alike
  <2>6. z.pos[s] = d /\ \A q \in Symbols \ {s} : z.pos[q] = y.pos[q]
    BY <1>1, <2>1
  <2>7. \A q \in Symbols : z.pos[q] = x.pos[q] \/ (Asked(x, q, b, r) /\ z.pos[q] = Opened(r[q].entry, b))
    BY <2>5, <2>6 DEF Some, d
  <2>8. Cardinality(Taken(z)) <= Slots
    <3>1. Taken(z) = Taken(y) \cup {s} /\ s \notin Taken(y)
      BY <2>3, <2>6 DEF Taken
    <3>2. Cardinality(Taken(z)) = Cardinality(Taken(y)) + 1
      BY <3>1, TakenFinite, FS_AddElement
    <3> QED BY <2>2, <3>2, TakenFinite, BoundsAssumption
  <2>9. Alike(x, z)
    BY <2>1 DEF Some, Alike
  <2>10. Some(x, z, b, r)
    BY <2>7, <2>8, <2>9 DEF Some
  <2> QED BY <2>10 DEF z
<1> QED BY <1>2, <1>3

LEMMA SomeWalk ==
  ASSUME NEW x \in State, NEW b \in Nat, NEW r \in Readings, NEW o \in Lists
  PROVE  Some(x, After(EntryStep(o, "minute", b, r), x, Len(o)), b, r)
<1> DEFINE c == EntryStep(o, "minute", b, r)
           n == Len(o)
           Q == {j \in 0..n : Some(x, After(c, x, j), b, r)}
<1>0. n \in Nat /\ c.order = o /\ \A st, s : Step(c, st, s) = ReplayEntry("minute", st, s, b, r)
  BY Places DEF EntryStep, Step
<1> HIDE DEF c
<1>1. 0 \in Q
  <2>1. Some(x, x, b, r)
    BY DEF Some, Alike
  <2> QED BY <1>0, <2>1, AfterIs
<1>2. ASSUME NEW j \in 1..n, j - 1 \in Q PROVE j \in Q
  <2> DEFINE y == After(c, x, j - 1)
             s == o[j]
  <2>1. Some(x, y, b, r) /\ s \in Symbols
    BY <1>0, <1>2, Places
  <2>2. After(c, x, j) = ReplayEntry("minute", y, s, b, r)
    <3>1. After(c, x, j) = Step(c, y, s)
      BY <1>0, AfterIs
    <3> HIDE DEF y, s
    <3> QED BY <1>0, <3>1
  <2> HIDE DEF y, s
  <2>3. Some(x, ReplayEntry("minute", y, s, b, r), b, r)
    BY <2>1, SomeStep
  <2> QED BY <2>2, <2>3
<1>3. \A j \in 0..n : j \in Q
  <2> HIDE DEF Q, n
  <2> QED BY <1>0, <1>1, <1>2, UpTo
<1>4. n \in Q
  BY <1>0, <1>3
<1> QED BY <1>4 DEF c

LEMMA AllOf ==
  ASSUME NEW x \in State, NEW a, NEW b \in Nat, NEW r \in Readings, Some(x, a, b, r),
         \A s \in Symbols : ~Asked(a, s, b, r)
  PROVE  All(x, a, Symbols, b, r) /\ (a.pos = x.pos \/ Cardinality(Taken(a)) <= Slots)
<1>1. ASSUME NEW s \in Symbols
      PROVE  a.pos[s] = IF Asked(x, s, b, r) THEN Opened(r[s].entry, b) ELSE x.pos[s]
  <2>1. ASSUME Asked(x, s, b, r), a.pos[s] = x.pos[s] PROVE FALSE
    <3>1. Asked(a, s, b, r)
      BY <2>1, AskedSame DEF Some, Alike
    <3> QED BY <3>1
  <2> QED BY <2>1 DEF Some
<1> QED BY <1>1 DEF All, Some

LEMMA AllStep ==
  ASSUME NEW x \in State, NEW b \in Nat, NEW r \in Readings, NEW a, All(x, a, Symbols, b, r),
         a.pos = x.pos \/ Cardinality(Taken(a)) <= Slots,
         NEW P \in SUBSET Symbols, NEW y, All(x, y, P, b, r), NEW s \in Symbols
  PROVE  All(x, ReplayEntry("minute", y, s, b, r), P \cup {s}, b, r)
<1> DEFINE z == ReplayEntry("minute", y, s, b, r)
           d == Opened(r[s].entry, b)
<1>1. y \in State /\ y.pos \in [Symbols -> Place] /\ y.exit = x.exit
  BY DEF All, Alike, State
<1>2. CASE s \notin P /\ Asked(x, s, b, r)
  <2>1. x.pos[s].side = "none" /\ d.side # "none" /\ d \in Place
    BY <1>2, AskedOpens
  <2>2. y.pos[s] = x.pos[s] /\ a.pos[s] = d
    BY <1>2 DEF All
  <2> HIDE DEF d
  <2>3. Asked(y, s, b, r)
    BY <1>1, <1>2, <2>2, AskedSame
  <2>4. Cardinality(Taken(y)) < Slots
    <3>1. a.pos # x.pos /\ s \in Taken(a) /\ s \notin Taken(y)
      BY <2>1, <2>2 DEF Taken
    <3>2. ASSUME NEW q \in Taken(y) PROVE q \in Taken(a) \ {s}
      <4>1. q \in Symbols /\ y.pos[q].side # "none" /\ q # s
        BY <3>1, <3>2 DEF Taken
      <4>2. CASE Asked(x, q, b, r)
        <5>1. a.pos[q] = Opened(r[q].entry, b)
          BY <4>1, <4>2 DEF All
        <5>2. Opened(r[q].entry, b).side # "none"
          BY <4>1, <4>2, AskedOpens
        <5> QED BY <4>1, <5>1, <5>2 DEF Taken
      <4>3. CASE ~Asked(x, q, b, r)
        <5>1. a.pos[q] = x.pos[q] /\ y.pos[q] = x.pos[q]
          BY <4>1, <4>3 DEF All
        <5> QED BY <4>1, <5>1 DEF Taken
      <4> QED BY <4>2, <4>3
    <3> DEFINE A == Taken(a)
               Y == Taken(y)
    <3>3. IsFiniteSet(A) /\ Cardinality(A) \in Nat /\ IsFiniteSet(Y) /\ Cardinality(Y) \in Nat /\ Y \subseteq A \ {s} /\ s \in A
          /\ Cardinality(A) <= Slots
      BY <3>1, <3>2, TakenFinite
    <3> HIDE DEF A, Y
    <3>4. IsFiniteSet(A \ {s}) /\ Cardinality(A \ {s}) = Cardinality(A) - 1
      BY <3>3, FS_RemoveElement
    <3>5. Cardinality(Y) <= Cardinality(A \ {s})
      BY <3>3, <3>4, FS_Subset
    <3>6. Cardinality(Y) < Slots
      BY <3>3, <3>4, <3>5, BoundsAssumption
    <3> QED BY <3>6 DEF Y
  <2>5. Fires("minute", y.pos, y.exit, s, b, r[s])
    BY <2>3, <2>4 DEF Fires, Room, Asked, Taken
  <2>6. z \in State /\ z.pos = [y.pos EXCEPT ![s] = d] /\ z.exit = y.exit /\ z.log = y.log /\ z.tw = y.tw /\ z.tlog = y.tlog
    BY <1>1, <2>5, EntryFired DEF EntryMade, d
  <2> HIDE DEF z
  <2>7. z.pos[s] = d /\ \A q \in Symbols \ {s} : z.pos[q] = y.pos[q]
    BY <1>1, <2>6
  <2>8. Alike(x, z)
    BY <2>6 DEF All, Alike
  <2>9. \A q \in Symbols : z.pos[q] = IF q \in P \cup {s} /\ Asked(x, q, b, r) THEN Opened(r[q].entry, b) ELSE x.pos[q]
    BY <1>2, <2>7 DEF All, d
  <2>10. All(x, z, P \cup {s}, b, r)
    BY <2>8, <2>9 DEF All
  <2> QED BY <2>10 DEF z
<1>3. CASE ~(s \notin P /\ Asked(x, s, b, r))
  <2>1. ~Asked(y, s, b, r)
    <3>1. CASE Asked(x, s, b, r)
      <4>1. y.pos[s] = d /\ d.side # "none"
        BY <1>3, <3>1, AskedOpens DEF All
      <4> HIDE DEF d
      <4> QED BY <4>1 DEF Asked, Asks, Ready
    <3>2. CASE ~Asked(x, s, b, r)
      <4>1. y.pos[s] = x.pos[s]
        BY <3>2 DEF All
      <4> QED BY <1>1, <3>2, <4>1, AskedSame
    <3> QED BY <3>1, <3>2
  <2>2. z = y
    BY <2>1 DEF ReplayEntry, Fires, Asked
  <2> HIDE DEF z
  <2>3. All(x, y, P \cup {s}, b, r)
    BY <1>3 DEF All
  <2> QED BY <2>2, <2>3 DEF z
<1> QED BY <1>2, <1>3

LEMMA AllWalk ==
  ASSUME NEW x \in State, NEW b \in Nat, NEW r \in Readings, NEW a, All(x, a, Symbols, b, r),
         a.pos = x.pos \/ Cardinality(Taken(a)) <= Slots, NEW o \in Lists
  PROVE  All(x, After(EntryStep(o, "minute", b, r), x, Len(o)), Symbols, b, r)
<1> DEFINE c == EntryStep(o, "minute", b, r)
           n == Len(o)
           Q == {j \in 0..n : All(x, After(c, x, j), Passed(o, j), b, r)}
<1>0. n \in Nat /\ c.order = o /\ \A st, s : Step(c, st, s) = ReplayEntry("minute", st, s, b, r)
  BY Places DEF EntryStep, Step
<1> HIDE DEF c
<1>1. 0 \in Q
  <2>1. Passed(o, 0) = {} /\ After(c, x, 0) = x
    BY <1>0, AfterIs, PassedGrows
  <2>2. All(x, x, {}, b, r)
    BY DEF All, Alike
  <2> QED BY <1>0, <2>1, <2>2
<1>2. ASSUME NEW j \in 1..n, j - 1 \in Q PROVE j \in Q
  <2> DEFINE y == After(c, x, j - 1)
             s == o[j]
             P == Passed(o, j - 1)
  <2>1. All(x, y, P, b, r) /\ s \in Symbols /\ P \in SUBSET Symbols /\ P \cup {s} = Passed(o, j)
    BY <1>0, <1>2, Places, PassedGrows
  <2>2. After(c, x, j) = ReplayEntry("minute", y, s, b, r)
    <3>1. After(c, x, j) = Step(c, y, s)
      BY <1>0, AfterIs
    <3> HIDE DEF y, s
    <3> QED BY <1>0, <3>1
  <2> HIDE DEF y, s, P
  <2>3. All(x, ReplayEntry("minute", y, s, b, r), P \cup {s}, b, r)
    BY <2>1, AllStep
  <2>4. All(x, After(c, x, j), Passed(o, j), b, r)
    BY <2>1, <2>2, <2>3
  <2> QED BY <2>4
<1>3. \A j \in 0..n : j \in Q
  <2> HIDE DEF Q, n
  <2> QED BY <1>0, <1>1, <1>2, UpTo
<1>4. n \in Q /\ Passed(o, n) = Symbols
  BY <1>0, <1>3, PassedGrows
<1> QED BY <1>4 DEF c

LEMMA SameEntries ==
  ASSUME NEW x \in State, NEW b \in Nat, NEW r \in Readings, NEW o \in Lists, NEW p \in Lists,
         \A s \in Symbols : ~Asked(After(EntryStep(o, "minute", b, r), x, Len(o)), s, b, r)
  PROVE  After(EntryStep(o, "minute", b, r), x, Len(o)) = After(EntryStep(p, "minute", b, r), x, Len(p))
<1> DEFINE a == After(EntryStep(o, "minute", b, r), x, Len(o))
           z == After(EntryStep(p, "minute", b, r), x, Len(p))
<1>1. Some(x, a, b, r)
  BY SomeWalk
<1> HIDE DEF a
<1>2. All(x, a, Symbols, b, r) /\ (a.pos = x.pos \/ Cardinality(Taken(a)) <= Slots)
  BY <1>1, AllOf DEF a
<1>3. All(x, z, Symbols, b, r)
  BY <1>2, AllWalk
<1> HIDE DEF z
<1>4. a \in State /\ z \in State /\ a.exit = z.exit /\ a.log = z.log /\ a.tw = z.tw /\ a.tlog = z.tlog
  BY <1>2, <1>3 DEF All, Alike
<1>5. a.pos = z.pos
  <2>1. \A s \in Symbols : a.pos[s] = z.pos[s]
    BY <1>2, <1>3 DEF All
  <2> QED BY <1>4, <2>1 DEF State
<1>6. a = z
  BY <1>4, <1>5, SameState
<1> QED BY <1>6 DEF a, z

(* The entries of a bar do not depend on the order, then; a bar sleeve has  *)
(* one order only.                                                         *)
LEMMA EnteringMakes ==
  ASSUME NEW k \in Kinds, NEW st \in State, NEW b \in Nat, b >= 1, Fresh(st, b - 1), NEW r \in Readings,
         k = "minute" => \A s \in Symbols : ~Asked(Entering(k, st, b, r, Len(Order)), s, b, r)
  PROVE  Entering(k, st, b, r, Len(Order)) = Made(k, st, b, r)
<1> DEFINE x == Exited(k, st, b, r)
<1>1. x \in State
  <2>1. b - 1 \in Nat /\ b - 1 <= b
    OBVIOUS
  <2>2. Aging(st, b) \in State
    BY <2>1, AgingFits
  <2> QED BY <2>2, ExitsFit DEF Exited
<1> HIDE DEF x
<1>2. CASE k = "bar"
  BY <1>2 DEF Entering, Made, Turns
<1>3. CASE k = "minute"
  <2>1. Turns(k) = Sorted /\ Order \in Lists /\ Sorted \in Lists
    BY <1>3 DEF Turns, Lists
  <2>2. \A s \in Symbols : ~Asked(After(EntryStep(Order, "minute", b, r), x, Len(Order)), s, b, r)
    BY <1>3 DEF Entering, x
  <2>3. After(EntryStep(Order, "minute", b, r), x, Len(Order)) = After(EntryStep(Sorted, "minute", b, r), x, Len(Sorted))
    BY <1>1, <2>1, <2>2, SameEntries
  <2> QED BY <1>3, <2>1, <2>3 DEF Entering, Made, x
<1> QED BY <1>2, <1>3 DEF Kinds

-----------------------------------------------------------------------------
(* What the twin drew before a bar does not matter on it.                  *)
LEMMA TwinSame ==
  ASSUME NEW t, NEW u, NEW r, NEW b \in Nat, t.pos = u.pos,
         \A s \in Symbols : t.drawn[s] \in Nat /\ u.drawn[s] \in Nat /\ t.drawn[s] < b /\ u.drawn[s] < b
  PROVE  TwinStep(t, r, b).pos = TwinStep(u, r, b).pos /\ TwinTrades(t, r, b) = TwinTrades(u, r, b)
<1> DEFINE L == TwinLeaves(t, r, b)
           x == TwinExits(t, r, b)
           y == TwinExits(u, r, b)
<1>1. L = TwinLeaves(u, r, b)
  BY DEF TwinLeaves
<1>2. TwinTrades(t, r, b) = TwinTrades(u, r, b)
  BY <1>1 DEF TwinTrades
<1>3. x.pos = y.pos
  BY <1>1 DEF TwinExits
<1>4. \A s \in Symbols : x.drawn[s] = (IF s \in L /\ b > t.drawn[s] THEN b ELSE t.drawn[s])
                      /\ y.drawn[s] = (IF s \in L /\ b > u.drawn[s] THEN b ELSE u.drawn[s])
  BY <1>1 DEF TwinExits
<1>5. \A s \in Symbols : (b > x.drawn[s]) <=> (b > y.drawn[s])
  <2> HIDE DEF L, x, y
  <2> QED BY <1>4
<1> HIDE DEF L, x, y
<1>6. TwinDraws(x, r, b).pos = TwinDraws(y, r, b).pos
  <2> DEFINE A == {s \in Symbols : b <= EntriesEnd /\ x.pos[s].side = "none" /\ b > x.drawn[s]}
             B == {s \in Symbols : b <= EntriesEnd /\ y.pos[s].side = "none" /\ b > y.drawn[s]}
  <2>1. A = B
    BY <1>3, <1>5
  <2>2. TwinDraws(x, r, b).pos = [s \in Symbols |-> IF s \in A /\ r[s].draw # "none" THEN Opened(r[s].draw, b) ELSE x.pos[s]]
    BY DEF TwinDraws
  <2>3. TwinDraws(y, r, b).pos = [s \in Symbols |-> IF s \in B /\ r[s].draw # "none" THEN Opened(r[s].draw, b) ELSE y.pos[s]]
    BY DEF TwinDraws
  <2> HIDE DEF A, B
  <2> QED BY <1>3, <2>1, <2>2, <2>3
<1> QED BY <1>2, <1>6 DEF TwinStep, x, y

-----------------------------------------------------------------------------
(* The live day beside the replay, while nothing was missed.  The store    *)
(* is read as a state of the replay (View).  Between two marks it is the   *)
(* replay's; within a mark it is where the walk over the symbols has come  *)
(* from the replay of the bars before, and further than the process knows  *)
(* when a mark is begun again after a restart.                             *)
Told == tape[Now]
Base == ReplayTo(kind, tape)[Now - 1]
View == [pos |-> [s \in Symbols |-> Seen(rows[s], Now)], exit |-> Cooldowns, log |-> log,
         tw |-> Base.tw, tlog |-> Base.tlog]

ExitsDone(S) == \E X \in SUBSET Symbols : S \subseteq X /\ View = ExitsOn(X, Aging(Base, Now), Now, Told)
EntriesDone(m) == \E j \in m..Len(Order) : View = Entering(kind, Base, Now, Told, j)
Come(S) == ExitsDone(S) \/ EntriesDone(0)
\* The exit whose second write is still to come.
ComeLate(S) ==
  \E X \in SUBSET Symbols :
    S \subseteq X /\ [View EXCEPT !.exit = [Cooldowns EXCEPT ![Here] = Now]] = ExitsOn(X, Aging(Base, Now), Now, Told)

Steps ==
  /\ pc = "idle" => Come({})
  /\ pc = "exits" => Come(Past(at - 1))
  /\ pc = "exitbar" => ComeLate(Past(at))
  /\ pc = "entries" => EntriesDone(at - 1)
  /\ pc = "twin" => EntriesDone(Len(Order))

\* The twin in the store, and in memory, is the replay's of m bars; what it
\* drew may be forgotten, but for the bars still to come.
TwinAt(m) ==
  LET d == ReplayTo(kind, tape)[m] IN
  /\ trows = d.tw.pos /\ tlog = d.tlog
  /\ \A s \in Symbols : d.tw.drawn[s] <= m /\ trows[s].last <= m
  /\ up => tw.pos = trows /\ \A s \in Symbols : tw.drawn[s] <= m

Finished == pc = "write" \/ (pc = "idle" /\ (IF up THEN lastMark ELSE cycled) = Now)
Grounded == Now >= 1 /\ Base \in State /\ Fresh(Base, Now - 1)
Pending == Grounded /\ Steps
Done ==
  /\ Replay \in State
  /\ Replay.pos = [s \in Symbols |-> Seen(rows[s], Now)] /\ Replay.exit = Cooldowns /\ Replay.log = log

SeenAt(s, b) == pos[s] = Seen(rows[s], b)
InMemory ==
  /\ exitBar = Cooldowns
  /\ \A s \in Symbols : SeenAt(s, Now) \/ (SeenAt(s, Now - 1) /\ ~Finished /\ pc \in {"idle", "exits", "exitbar"})
  /\ pc = "exits" => \A i \in 1..(at - 1) : SeenAt(Order[i], Now)
  /\ pc = "exitbar" => \A i \in 1..at : SeenAt(Order[i], Now)
Marks ==
  /\ pc = "idle" /\ up => lastMark = cycled
  /\ pc \in {"exits", "exitbar", "entries", "twin"} => lastMark = Now /\ cycled < Now
  /\ pc = "write" => lastMark = Now
  /\ ~up => pc = "idle"
Over == log = Replay.log \cup Flattened(Replay.pos, Now)
TwinOver == tlog = Replay.tlog \cup Flattened(Replay.tw.pos, Now)

Beside == (up => InMemory) /\ (Finished => Done) /\ (~Finished => Pending)
Unasked(s) == ~Asks(pos, exitBar, s, Now, Said(s))

(* The twin goes with the replay whether slots bind or not.                *)
TwinInv ==
  ~apart => /\ Marks
            /\ pc # "over" => (Finished => TwinAt(Now)) /\ (~Finished => TwinAt(Now - 1))
            /\ pc = "over" => TwinOver
(* The sleeve does as long as S0 had a slot for all that asked: then none   *)
(* of those it has come to asks any more.                                  *)
LiveInv == ~apart /\ ~full => (pc # "over" => Beside) /\ (pc = "over" => Over)
ServedInv ==
  ~apart /\ ~full /\ kind = "minute" =>
    /\ pc = "entries" => \A i \in 1..(at - 1) : Unasked(Order[i])
    /\ pc = "twin" => \A i \in 1..Len(Order) : Unasked(Order[i])
ReplayInv == TwinInv /\ LiveInv /\ ServedInv

(* What the type invariant says, for the provers.                          *)
LEMMA Facts ==
  ASSUME TypeInv
  PROVE  /\ Now \in Nat /\ tape \in Seq(Readings) /\ kind \in Kinds /\ Now <= Bars
         /\ rows \in [Symbols -> Row] /\ pos \in [Symbols -> Place]
         /\ left \in [Symbols -> Nat] /\ exitRow \in [Symbols -> Nat] /\ exitBar \in [Symbols -> Nat]
         /\ Cooldowns \in [Symbols -> Nat] /\ log \in SUBSET Deal /\ tlog \in SUBSET Deal
         /\ at \in 1..Len(Order) /\ Len(Order) \in Nat /\ Here \in Symbols /\ Here = Order[at]
         /\ \A s \in Symbols : rows[s].side \in Side /\ rows[s].entry \in Nat /\ (rows[s].side # "none" => rows[s].entry <= Now)
         /\ lastMark \in Nat /\ cycled \in Nat /\ lastMark <= Now /\ cycled <= Now
<1>1. /\ Now \in Nat /\ tape \in Seq(Readings) /\ kind \in Kinds /\ Now <= Bars
      /\ rows \in [Symbols -> Row] /\ pos \in [Symbols -> Place]
      /\ left \in [Symbols -> Nat] /\ exitRow \in [Symbols -> Nat] /\ exitBar \in [Symbols -> Nat]
      /\ at \in 1..Len(Order) /\ Len(Order) \in Nat /\ Here \in Symbols /\ Here = Order[at]
      /\ lastMark \in Nat /\ cycled \in Nat /\ lastMark <= Now /\ cycled <= Now
  BY HereIsSymbol DEF TypeInv, CycleInv, Types, Counts, Here
<1>2. Cooldowns \in [Symbols -> Nat]
  BY <1>1 DEF Cooldowns
<1>3. TradeType \subseteq Deal
  <2> SUFFICES ASSUME NEW d \in TradeType PROVE d \in Deal
    OBVIOUS
  <2> QED BY BoundsAssumption DEF TradeType, Deal, Side, Why
<1>4. log \in SUBSET Deal /\ tlog \in SUBSET Deal
  BY <1>3 DEF TypeInv, Trades
<1>5. \A s \in Symbols : rows[s].side \in Side /\ rows[s].entry \in Nat /\ (rows[s].side # "none" => rows[s].entry <= Now)
  BY <1>1 DEF TypeInv, CycleInv, RowsYoung, Row
<1> QED BY <1>1, <1>2, <1>4, <1>5

LEMMA ToldReading == ASSUME TypeInv, Now >= 1 PROVE Told \in Readings /\ Now - 1 \in 0..Len(tape) /\ Now \in 1..Len(tape)
<1>1. tape \in Seq(Readings) /\ Now \in Nat /\ Now = Len(tape)
  BY Facts DEF Now
<1>2. Now \in 1..Len(tape)
  BY <1>1
<1>3. tape[Now] \in Readings
  BY <1>1, <1>2, ElementOfSeq
<1> QED BY <1>1, <1>2, <1>3 DEF Told

(* The store, read as a state of the replay, is one.                       *)
LEMMA ViewFits ==
  ASSUME TypeInv, Base \in State
  PROVE  View \in State /\ Fresh(View, Now)
<1>1. \A s \in Symbols : Seen(rows[s], Now) \in Place /\ Seen(rows[s], Now) = Seen(Seen(rows[s], Now), Now)
                         /\ (Seen(rows[s], Now).side # "none" => Seen(rows[s], Now).entry <= Now)
  <2> SUFFICES ASSUME NEW s \in Symbols
               PROVE  /\ Seen(rows[s], Now) \in Place /\ Seen(rows[s], Now) = Seen(Seen(rows[s], Now), Now)
                      /\ (Seen(rows[s], Now).side # "none" => Seen(rows[s], Now).entry <= Now)
    OBVIOUS
  <2> DEFINE p == rows[s]
  <2>1. p.side \in Side /\ p.entry \in Nat /\ (p.side # "none" => p.entry <= Now) /\ Now \in Nat
    BY Facts
  <2> HIDE DEF p
  <2>2. Seen(p, Now) \in Place /\ Seen(p, Now).side = p.side /\ (p.side # "none" => Seen(p, Now).entry = p.entry)
    BY <2>1, SeenFits
  <2>3. Seen(Seen(p, Now), Now) = Seen(p, Now)
    BY SeenAgain
  <2> QED BY <2>1, <2>2, <2>3 DEF p
<1>2. View.pos = [s \in Symbols |-> Seen(rows[s], Now)]
  BY DEF View
<1>3. Fresh(View, Now)
  BY <1>1, <1>2 DEF Fresh
<1>4. [s \in Symbols |-> Seen(rows[s], Now)] \in [Symbols -> Place]
  BY <1>1
<1>5. Base.tw \in Twin /\ Base.tlog \in SUBSET Deal
  BY DEF State
<1>6. View \in State
  <2> DEFINE f == [s \in Symbols |-> Seen(rows[s], Now)]
  <2>1. View = [pos |-> f, exit |-> Cooldowns, log |-> log, tw |-> Base.tw, tlog |-> Base.tlog]
    BY DEF View
  <2>2. f \in [Symbols -> Place]
    BY <1>4
  <2> HIDE DEF f
  <2> QED BY <1>5, <2>1, <2>2, Facts DEF State
<1> QED BY <1>3, <1>6

LEMMA ViewIs ==
  /\ View.pos = [s \in Symbols |-> Seen(rows[s], Now)] /\ View.exit = Cooldowns
  /\ View.log = log /\ View.tw = Base.tw /\ View.tlog = Base.tlog
BY DEF View

(* The walk over the entries of the newest bar.                            *)
LEMMA Entries ==
  ASSUME TypeInv, Grounded, NEW j \in 0..Len(Order)
  PROVE  /\ Settled(Order, kind, Entering(kind, Base, Now, Told, j), Now, Told, j)
         /\ Entering(kind, Base, Now, Told, j).tw = Base.tw /\ Entering(kind, Base, Now, Told, j).tlog = Base.tlog
         /\ Entering(kind, Base, Now, Told, 0) = ExitsOn(Symbols, Aging(Base, Now), Now, Told)
         /\ j >= 1 => Entering(kind, Base, Now, Told, j)
                      = ReplayEntry(kind, Entering(kind, Base, Now, Told, j - 1), Order[j], Now, Told)
<1>0. Order \in Lists
  BY DEF Lists
<1>1. Now \in Nat /\ Now - 1 \in Nat /\ Now - 1 <= Now /\ Told \in Readings /\ Len(Order) \in Nat
  BY Facts, ToldReading DEF Grounded
<1> DEFINE u == Aging(Base, Now)
           x == ExitsOn(Symbols, u, Now, Told)
           c == EntryStep(Order, kind, Now, Told)
<1>2. u \in State /\ Fresh(u, Now) /\ u.tw = Base.tw /\ u.tlog = Base.tlog
  BY <1>1, AgingFits DEF Grounded
<1>3. Exited(kind, Base, Now, Told) = x
  BY DEF Exited
<1>4. \A i : Entering(kind, Base, Now, Told, i) = After(c, x, i)
  BY <1>3 DEF Entering
<1> HIDE DEF u
<1>5. Settled(Order, kind, x, Now, Told, 0)
  BY <1>0, <1>1, <1>2, ExitedSettles
<1>9. x.tw = u.tw /\ x.tlog = u.tlog
  BY DEF ExitsOn
<1> HIDE DEF x
<1>6. Settled(Order, kind, After(c, x, j), Now, Told, j) /\ After(c, x, j).tw = x.tw /\ After(c, x, j).tlog = x.tlog
  BY <1>0, <1>1, <1>5, EntriesSettle
<1>10. c.order = Order
  BY DEF EntryStep
<1>7. After(c, x, 0) = x
  <2> HIDE DEF c
  <2> QED BY <1>0, <1>10, AfterIs
<1>8. ASSUME j >= 1 PROVE After(c, x, j) = ReplayEntry(kind, After(c, x, j - 1), Order[j], Now, Told)
  <2>1. After(c, x, j) = Step(c, After(c, x, j - 1), Order[j])
    <3> HIDE DEF c
    <3>1. j \in 1..Len(Order)
      BY <1>1, <1>8
    <3> QED BY <1>0, <1>10, <3>1, AfterIs
  <2> QED BY <2>1 DEF Step, EntryStep
<1> HIDE DEF c
<1> QED BY <1>2, <1>4, <1>5, <1>6, <1>7, <1>8, <1>9 DEF x, u

(* What the process looks at, at an exit, is what the store says of the    *)
(* symbol, seen up to this bar.                                            *)
LEMMA LiveExit ==
  ASSUME TypeInv, InMemory
  PROVE  /\ Said(Here) = Told[Here] /\ pos[Here].side = rows[Here].side
         /\ Due <=> Leaves(View, Here, Now, Told)
         /\ pos[Here].side # "none" => /\ Counted(pos[Here]) = Seen(rows[Here], Now)
                                       /\ OnBar(View.pos[Here], Now) = Seen(rows[Here], Now)
         /\ View.pos[Here] = Seen(rows[Here], Now) /\ pos[Here].side = View.pos[Here].side
<1> DEFINE s == Here
           p == rows[s]
<1>1. s \in Symbols /\ Now \in Nat /\ kind \in Kinds /\ p.side \in Side /\ p.entry \in Nat
      /\ (p.side # "none" => p.entry <= Now)
  BY Facts
<1>2. View.pos[s] = Seen(p, Now)
  BY <1>1, ViewIs
<1>3. PICK a \in {Now, Now - 1} : pos[s] = Seen(p, a)
  BY <1>1 DEF InMemory, SeenAt
<1>4. Said(s) = Told[s]
  BY DEF Said, Told
<1> HIDE DEF p, s
<1>5. CASE p.side = "none"
  <2>1. pos[s] = NoPos /\ Seen(p, Now) = NoPos
    BY <1>3, <1>5 DEF Seen
  <2>2. NoPos.side = "none"
    BY NoPosPlace
  <2>3. ~Due /\ ~Leaves(View, s, Now, Told)
    BY <1>2, <2>1, <2>2 DEF Due, Leaves, s
  <2> QED BY <1>2, <1>4, <1>5, <2>1, <2>2, <2>3 DEF s, p
<1>6. CASE p.side # "none"
  <2> DEFINE e == a - p.entry
             q == [side |-> p.side, entry |-> p.entry, last |-> a, age |-> e]
             z == [side |-> p.side, entry |-> p.entry, last |-> Now, age |-> Now - p.entry]
  <2>1. pos[s] = q /\ Seen(p, Now) = z
    BY <1>3, <1>6 DEF Seen
  <2>2. OnBar(Seen(p, a), Now) = Seen(p, Now) /\ OnBar(Seen(p, Now), Now) = Seen(p, Now)
    BY <1>1, <1>6, OnBarSeen
  <2>3. Counted(q) = z
    <3>1. CASE kind = "bar"
      <4>1. e + (Now - a) = Now - p.entry
        BY <1>1
      <4> DEFINE m == e + (Now - a)
      <4> HIDE DEF e
      <4>2. q.age = e /\ q.last = a
        OBVIOUS
      <4> DEFINE y == [side |-> p.side, entry |-> p.entry, last |-> a, age |-> m]
      <4>6. [q EXCEPT !.age = q.age + (Now - q.last)] = y
        <5> HIDE DEF m
        <5>1. q.age + (Now - q.last) = m
          BY <4>2 DEF m
        <5>2. [q EXCEPT !.age = m] = y
          OBVIOUS
        <5> QED BY <5>1, <5>2
      <4>3. Counted(q) = [y EXCEPT !.last = Now]
        BY <3>1, <4>6 DEF Counted
      <4> HIDE DEF m
      <4>4. [y EXCEPT !.last = Now] = [side |-> p.side, entry |-> p.entry, last |-> Now, age |-> m]
        OBVIOUS
      <4>5. m = Now - p.entry
        BY <4>1 DEF m
      <4> QED BY <4>3, <4>4, <4>5
    <3>2. CASE kind # "bar"
      <4>1. Counted(q) = OnBar(q, Now)
        BY <3>2 DEF Counted
      <4>2. q = Seen(p, a)
        BY <1>3, <2>1
      <4> HIDE DEF q, z
      <4> QED BY <2>1, <2>2, <4>1, <4>2
    <3> QED BY <3>1, <3>2
  <2>4. q.side = p.side /\ z.side = p.side
    OBVIOUS
  <2> HIDE DEF q, z
  <2>5. Counted(pos[s]) = Seen(p, Now) /\ OnBar(View.pos[s], Now) = Seen(p, Now)
        /\ pos[s].side # "none" /\ View.pos[s].side # "none" /\ pos[s].side = p.side /\ View.pos[s].side = p.side
    BY <1>2, <1>6, <2>1, <2>2, <2>3, <2>4
  <2>6. Due <=> Leaves(View, s, Now, Told)
    BY <1>4, <2>5 DEF Due, Leaves, s
  <2> QED BY <1>2, <1>4, <2>5, <2>6 DEF s, p
<1> QED BY <1>5, <1>6

(* One more symbol of the walk.                                            *)
LEMMA ComeOn ==
  ASSUME TypeInv, Grounded, NEW S \in SUBSET Symbols, Come(S), NEW s \in Symbols
  PROVE  /\ ~Leaves(View, s, Now, Told) => Come(S \cup {s})
         /\ Leaves(View, s, Now, Told) =>
              \E X \in SUBSET Symbols :
                S \cup {s} \subseteq X /\ ExitsOn({s}, View, Now, Told) = ExitsOn(X, Aging(Base, Now), Now, Told)
<1> DEFINE u == Aging(Base, Now)
           v == View
<1>0. Now \in Nat /\ Now - 1 \in Nat /\ Now - 1 <= Now
  BY Facts DEF Grounded
<1>1. u \in State /\ v \in State /\ Fresh(v, Now)
  BY <1>0, AgingFits, ViewFits DEF Grounded
<1> HIDE DEF u, v
<1>2. CASE ExitsDone(S)
  <2>1. PICK X \in SUBSET Symbols : S \subseteq X /\ v = ExitsOn(X, u, Now, Told)
    BY <1>2 DEF ExitsDone, u, v
  <2>2. {s} \in SUBSET Symbols /\ {s} \cup X \in SUBSET Symbols /\ S \cup {s} \subseteq {s} \cup X
    BY <2>1
  <2>3. ExitsOn({s}, v, Now, Told) = ExitsOn({s} \cup X, u, Now, Told)
    BY <1>0, <1>1, <2>1, <2>2, ExitsTwice
  <2>4. ASSUME ~Leaves(v, s, Now, Told) PROVE v = ExitsOn({s} \cup X, u, Now, Told)
    <3>1. v.pos[s].side # "none" => OnBar(v.pos[s], Now) = v.pos[s]
      <4> DEFINE p == v.pos[s]
      <4>1. p \in Place /\ p = Seen(p, Now)
        BY <1>1 DEF State, Fresh
      <4> HIDE DEF p
      <4>2. p.side # "none" => OnBar(Seen(p, Now), Now) = Seen(p, Now)
        BY <1>0, <4>1, OnBarSeen DEF Place
      <4> QED BY <4>1, <4>2 DEF p
    <3>2. ExitsOn({s}, v, Now, Told) = v
      <4>1. \A q \in {s} : ~Leaves(v, q, Now, Told) /\ (v.pos[q].side # "none" => OnBar(v.pos[q], Now) = v.pos[q])
        BY <2>4, <3>1
      <4> QED BY <1>0, <1>1, <2>2, <4>1, ExitsNone
    <3> QED BY <2>3, <3>2
  <2>5. ~Leaves(v, s, Now, Told) => ExitsDone(S \cup {s})
    BY <2>2, <2>4 DEF ExitsDone, u, v
  <2> QED BY <2>2, <2>3, <2>5 DEF Come, u, v
<1>3. CASE EntriesDone(0)
  <2>1. PICK j \in 0..Len(Order) : v = Entering(kind, Base, Now, Told, j)
    BY <1>3 DEF EntriesDone, v
  <2>2. ~Leaves(v, s, Now, Told)
    BY <2>1, Entries DEF Settled
  <2> QED BY <1>3, <2>2 DEF Come, v
<1> QED BY <1>2, <1>3 DEF Come

(* What a step that leaves the tape and the trades alone leaves alone.     *)
LEMMA SameView ==
  ASSUME UNCHANGED <<kind, tape, rows, left, exitRow, log>>
  PROVE  /\ Now' = Now /\ Told' = Told /\ Base' = Base /\ View' = View /\ Replay' = Replay /\ Cooldowns' = Cooldowns
         /\ \A S : Come(S)' <=> Come(S)
         /\ \A m : EntriesDone(m)' <=> EntriesDone(m)
<1>1. Now' = Now
  BY DEF Now
<1>2. Told' = Told /\ Base' = Base /\ Cooldowns' = Cooldowns /\ Replay' = Replay
  BY <1>1 DEF Told, Base, Cooldowns, Replay
<1>3. View' = View
  BY <1>1, <1>2 DEF View
<1>4. \A m : EntriesDone(m)' <=> EntriesDone(m)
  BY <1>1, <1>2, <1>3 DEF EntriesDone
<1>5. \A S : ExitsDone(S)' <=> ExitsDone(S)
  BY <1>1, <1>2, <1>3 DEF ExitsDone
<1>6. \A S : Come(S)' <=> Come(S)
  BY <1>4, <1>5 DEF Come
<1> QED BY <1>1, <1>2, <1>3, <1>4, <1>6

LEMMA TwinStays ==
  ASSUME UNCHANGED <<kind, tape, trows, tlog>>, up' => up /\ tw' = tw
  PROVE  (TwinAt(Now - 1) => TwinAt(Now - 1)') /\ (TwinAt(Now) => TwinAt(Now)')
BY DEF TwinAt, Now

(* The fields of what an exit makes of the view.                           *)
LEMMA ExitView ==
  ASSUME TypeInv, Base \in State, NEW s \in Symbols
  PROVE  LET v == View
             x == ExitsOn({s}, v, Now, Told)
             p == OnBar(v.pos[s], Now)
         IN  Leaves(v, s, Now, Told) =>
             /\ x.pos = [v.pos EXCEPT ![s] = NoPos] /\ x.exit = [Cooldowns EXCEPT ![s] = Now]
             /\ x.log = log \cup {Closed(s, p, Now, ExitReason(p, Told[s]))}
             /\ x.tw = Base.tw /\ x.tlog = Base.tlog /\ x \in State
<1> SUFFICES ASSUME Leaves(View, s, Now, Told)
             PROVE  LET v == View
                        x == ExitsOn({s}, v, Now, Told)
                        p == OnBar(v.pos[s], Now)
                    IN  /\ x.pos = [v.pos EXCEPT ![s] = NoPos] /\ x.exit = [Cooldowns EXCEPT ![s] = Now]
                        /\ x.log = log \cup {Closed(s, p, Now, ExitReason(p, Told[s]))}
                        /\ x.tw = Base.tw /\ x.tlog = Base.tlog /\ x \in State
  OBVIOUS
<1> DEFINE v == View
           x == ExitsOn({s}, v, Now, Told)
           p == OnBar(v.pos[s], Now)
           d == Closed(s, p, Now, ExitReason(p, Told[s]))
<1>1. v \in State /\ Now \in Nat /\ Cooldowns \in [Symbols -> Nat] /\ v.pos \in [Symbols -> Place]
  BY ViewFits, Facts DEF State
<1>2. v.exit = Cooldowns /\ v.log = log /\ v.tw = Base.tw /\ v.tlog = Base.tlog /\ Leaves(v, s, Now, Told)
  BY ViewIs
<1>3. Deals({s}, v, Now, Told) = {d}
  BY <1>2 DEF Deals
<1>4. v.pos[s].side # "none"
  BY <1>2 DEF Leaves
<1> HIDE DEF v, p, d
<1>5. /\ x.pos = [q \in Symbols |-> IF q \notin {s} \/ v.pos[q].side = "none" THEN v.pos[q]
                                    ELSE IF Leaves(v, q, Now, Told) THEN NoPos ELSE OnBar(v.pos[q], Now)]
      /\ x.exit = [q \in Symbols |-> IF q \in {s} /\ Leaves(v, q, Now, Told) THEN Now ELSE v.exit[q]]
      /\ x.log = v.log \cup Deals({s}, v, Now, Told) /\ x.tw = v.tw /\ x.tlog = v.tlog
  BY ExitsAre
<1>6. x \in State
  BY <1>1, ExitsFit
<1> HIDE DEF x
<1>7. x.pos = [v.pos EXCEPT ![s] = NoPos]
  BY <1>1, <1>2, <1>4, <1>5
<1>8. x.exit = [Cooldowns EXCEPT ![s] = Now]
  BY <1>1, <1>2, <1>5
<1> QED BY <1>2, <1>3, <1>5, <1>6, <1>7, <1>8 DEF x, v, p, d

LEMMA AsInit == Init => ReplayInv
<1> SUFFICES ASSUME Init PROVE ReplayInv
  OBVIOUS
<1>1. Now = 0 /\ pc = "idle" /\ up /\ lastMark = 0 /\ cycled = 0 /\ tape = <<>>
  BY DEF Init, Now
<1>2. Replay = ReplayStart
  <2>1. tape \in Seq(Readings) /\ Len(tape) = 0
    BY <1>1
  <2> QED BY <2>1, ReplayIs DEF Replay
<1>3. Cooldowns = [s \in Symbols |-> 0] /\ exitBar = Cooldowns
  BY DEF Init, Cooldowns
<1>4. \A s \in Symbols : Seen(rows[s], 0) = NoPos
  BY DEF Init, NoRow, Seen
<1>5. TwinAt(0)
  <2>1. ReplayTo(kind, tape)[0] = ReplayStart
    BY <1>1, <1>2 DEF Replay
  <2>2. NoTwin.pos = [s \in Symbols |-> NoPos] /\ NoTwin.drawn = [s \in Symbols |-> 0] /\ NoPos.last = 0
    BY DEF NoTwin, NoPos
  <2> QED BY <2>1, <2>2, StartFits DEF TwinAt, Init
<1>6. Done
  BY <1>1, <1>2, <1>3, <1>4, StartFits DEF Done, Init
<1>7. InMemory
  BY <1>1, <1>3, <1>4 DEF InMemory, SeenAt, Init
<1>8. Finished /\ Marks
  BY <1>1 DEF Marks, Finished
<1> QED BY <1>1, <1>5, <1>6, <1>7, <1>8 DEF Beside, TwinInv, LiveInv, ServedInv, ReplayInv

LEMMA ViewFitsNext == TypeInv' /\ (Base \in State)' => (View \in State)'
<1>1. TypeInv /\ Base \in State => View \in State
  BY ViewFits
<1> QED BY <1>1, PTL

(* The bar that completes once the last one is done with.                  *)
LEMMA AsNewBar ==
  ASSUME TypeInv, TypeInv', ReplayInv, NewBar
  PROVE  LiveInv'
<1> SUFFICES ASSUME ~apart', ~full' PROVE Beside' /\ pc' # "over"
  BY DEF LiveInv
<1>1. PICK r \in Readings : tape' = Append(tape, r)
  BY DEF NewBar
<1>2. /\ pc = "idle" /\ pc' = "idle" /\ ~apart /\ ~full /\ ~((IF up THEN lastMark ELSE cycled) < Now)
      /\ UNCHANGED <<kind, up, at, pos, exitBar, lastMark, tw, rows, left, exitRow, cycled, log, trows, tlog>>
  BY DEF NewBar, Memory, Store
<1>3. (IF up THEN lastMark ELSE cycled) = Now
  BY <1>2, Facts
<1>4. Finished /\ Done /\ (up => InMemory)
  BY <1>2, <1>3 DEF Finished, ReplayInv, LiveInv, TwinInv, Beside
<1>5. tape \in Seq(Readings) /\ Now \in Nat /\ Now' = Now + 1 /\ Now' \in Nat /\ Now' - 1 = Now /\ Now' >= 1
  BY <1>1, Facts, AppendProperties DEF Now
<1>6. Base' = Replay
  <2>1. ReplayTo(kind, Append(tape, r))[Now] = ReplayTo(kind, tape)[Now]
    BY <1>5, ReplayGrows DEF Now
  <2> QED BY <1>1, <1>2, <1>5, <2>1 DEF Base, Replay, Now
<1>7. ~Finished'
  BY <1>2, <1>3, <1>5 DEF Finished
<1>8. /\ Replay \in State /\ Replay.pos = [s \in Symbols |-> Seen(rows[s], Now)]
      /\ Replay.exit = Cooldowns /\ Replay.log = log
  BY <1>4 DEF Done
<1>9. Fresh(Replay, Now)
  <2> SUFFICES ASSUME NEW s \in Symbols
               PROVE  /\ Seen(rows[s], Now) = Seen(Seen(rows[s], Now), Now)
                      /\ (Seen(rows[s], Now).side # "none" => Seen(rows[s], Now).entry <= Now)
    BY <1>8 DEF Fresh
  <2> DEFINE p == rows[s]
  <2>1. p.side \in Side /\ p.entry \in Nat /\ (p.side # "none" => p.entry <= Now)
    BY Facts
  <2> HIDE DEF p
  <2>2. Seen(p, Now).side = p.side /\ (p.side # "none" => Seen(p, Now).entry = p.entry)
    BY <1>5, <2>1, SeenFits
  <2> QED BY <2>1, <2>2, SeenAgain DEF p
<1>10. Now <= Now'
  BY <1>5
<1> DEFINE u == Aging(Replay, Now')
<1>11. /\ u \in State /\ Fresh(u, Now') /\ u.pos = [s \in Symbols |-> Seen(Replay.pos[s], Now')] /\ u.exit = Replay.exit
       /\ u.log = Replay.log /\ u.tw = Replay.tw /\ u.tlog = Replay.tlog
  <2> DEFINE b == Now'
             d == Replay
             a == Now
  <2>1. d \in State /\ a \in Nat /\ b \in Nat /\ a <= b /\ Fresh(d, a)
    BY <1>5, <1>8, <1>9, <1>10
  <2> HIDE DEF a, b, d
  <2>2. /\ Aging(d, b) \in State /\ Fresh(Aging(d, b), b) /\ Aging(d, b).pos = [s \in Symbols |-> Seen(d.pos[s], b)]
        /\ Aging(d, b).exit = d.exit /\ Aging(d, b).log = d.log /\ Aging(d, b).tw = d.tw /\ Aging(d, b).tlog = d.tlog
    BY <2>1, AgingFits
  <2> QED BY <2>2 DEF b, d
<1> HIDE DEF u
<1>12. View' = u
  <2>1. View' \in State
    <3>1. Base' \in State
      BY <1>6, <1>8
    <3> QED BY <3>1, ViewFitsNext
  <2>2. View'.pos = [s \in Symbols |-> Seen(rows[s], Now')]
    BY <1>2 DEF View
  <2>3. \A s \in Symbols : Seen(Replay.pos[s], Now') = Seen(rows[s], Now')
    BY <1>8, SeenAgain
  <2>4. View'.pos = u.pos
    BY <1>11, <2>2, <2>3
  <2>5. View'.exit = u.exit /\ View'.log = u.log
    BY <1>2, <1>8, <1>11 DEF View, Cooldowns
  <2>6. View'.tw = u.tw /\ View'.tlog = u.tlog
    BY <1>6, <1>11 DEF View
  <2> DEFINE v == View'
  <2>7. v \in State /\ v.pos = u.pos /\ v.exit = u.exit /\ v.log = u.log /\ v.tw = u.tw /\ v.tlog = u.tlog
    BY <2>1, <2>4, <2>5, <2>6
  <2> HIDE DEF v
  <2>8. v = u
    BY <1>11, <2>7, SameState
  <2> QED BY <2>8 DEF v
<1>13. Come({})'
  <2>1. ExitsOn({}, u, Now', Told') = u
    <3> DEFINE b == Now'
               r1 == Told'
    <3>1. b \in Nat
      BY <1>5
    <3> HIDE DEF b, r1
    <3>2. ExitsOn({}, u, b, r1) = u
      BY <1>11, <3>1, ExitsNone
    <3> QED BY <3>2 DEF b, r1
  <2>2. View' = ExitsOn({}, Aging(Base', Now'), Now', Told')
    BY <1>6, <1>12, <2>1 DEF u
  <2>3. {} \in SUBSET Symbols /\ {} \subseteq {}
    OBVIOUS
  <2> QED BY <2>2, <2>3 DEF Come, ExitsDone
<1>14. Steps'
  BY <1>2, <1>13 DEF Steps
<1>16. Pending'
  BY <1>5, <1>6, <1>8, <1>9, <1>14 DEF Pending, Grounded
<1>17. up' => InMemory'
  <2> SUFFICES ASSUME up PROVE InMemory'
    BY <1>2
  <2>1. InMemory /\ \A s \in Symbols : SeenAt(s, Now)
    BY <1>4 DEF InMemory
  <2>2. \A s \in Symbols : pos'[s] = Seen(rows'[s], Now' - 1)
    BY <1>2, <1>5, <2>1 DEF SeenAt
  <2>3. exitBar' = Cooldowns'
    BY <1>2, <2>1 DEF InMemory, Cooldowns
  <2> QED BY <1>2, <1>7, <2>2, <2>3 DEF InMemory, SeenAt
<1> QED BY <1>2, <1>7, <1>16, <1>17 DEF Beside

(* A mark begins.                                                          *)
LEMMA AsStarts ==
  ASSUME TypeInv, ReplayInv, StartCycle
  PROVE  LiveInv'
<1> SUFFICES ASSUME ~apart', ~full' PROVE Beside' /\ pc' # "over"
  BY DEF LiveInv
<1>1. /\ up /\ pc = "idle" /\ pc' = "exits" /\ at' = 1 /\ lastMark < Now /\ lastMark' = Now /\ ~apart /\ ~full
      /\ UNCHANGED <<kind, tape, up, pos, exitBar, tw, rows, left, exitRow, cycled, log, trows, tlog>>
  BY DEF StartCycle, Store
<1>2. ~Finished /\ Pending /\ InMemory /\ Marks
  BY <1>1, Facts DEF Finished, ReplayInv, LiveInv, TwinInv, Beside
<1>3. Now' = Now /\ Base' = Base /\ Cooldowns' = Cooldowns /\ Come({})' /\ ~Finished'
  BY <1>1, <1>2, SameView DEF Pending, Steps, Finished
<1>4. Past(at' - 1) = {}
  <2>1. at' - 1 = 0
    BY <1>1
  <2> QED BY <2>1, PastGrows
<1>5. Steps'
  BY <1>1, <1>3, <1>4 DEF Steps
<1>6. Pending'
  BY <1>1, <1>2, <1>3, <1>5 DEF Pending, Grounded
<1>7. InMemory'
  BY <1>1, <1>2, <1>3 DEF InMemory, SeenAt
<1> QED BY <1>1, <1>3, <1>6, <1>7 DEF Beside

LEMMA SameTape ==
  ASSUME UNCHANGED <<kind, tape>>
  PROVE  Now' = Now /\ Told' = Told /\ Base' = Base /\ Replay' = Replay /\ (Grounded => Grounded')
<1>1. Now' = Now /\ Told' = Told /\ Replay' = Replay
  BY DEF Now, Told, Replay
<1>2. Base' = Base
  BY <1>1 DEF Base, Now
<1> QED BY <1>1, <1>2 DEF Grounded

(* The exits of the symbols so far are done: the loop goes on, or gives    *)
(* way to the entries.                                                     *)
LEMMA ExitsGoOn ==
  ASSUME TypeInv, Grounded, UNCHANGED <<kind, tape>>, NEW CONSTANT m, m = at, Come(Past(m))', exitBar' = Cooldowns',
         \A i \in 1..m : pos'[Order[i]] = Seen(rows'[Order[i]], Now),
         \A s \in Symbols : pos'[s] = Seen(rows'[s], Now) \/ pos'[s] = Seen(rows'[s], Now - 1),
         IF at = Len(Order) THEN at' = 1 /\ pc' = "entries" ELSE at' = at + 1 /\ pc' = "exits"
  PROVE  Steps' /\ InMemory' /\ ~Finished'
<1>1. Now' = Now /\ Told' = Told /\ Base' = Base /\ m \in 1..Len(Order) /\ Len(Order) \in Nat
  BY SameTape, Facts
<1>2. CASE m = Len(Order)
  <2>1. at' = 1 /\ pc' = "entries" /\ at' - 1 = 0
    BY <1>2
  <2>2. \A s \in Symbols : pos'[s] = Seen(rows'[s], Now)
    <3>1. \A s \in Symbols : \E i \in 1..m : s = Order[i]
      BY <1>2, PastGrows DEF Past, Passed
    <3> QED BY <3>1
  <2>3. EntriesDone(0)'
    <3>1. CASE EntriesDone(0)'
      BY <3>1
    <3>2. CASE ExitsDone(Past(m))'
      <4>1. PICK X \in SUBSET Symbols : Past(m) \subseteq X /\ View' = ExitsOn(X, Aging(Base, Now), Now, Told)
        BY <1>1, <3>2 DEF ExitsDone
      <4>2. X = Symbols
        BY <1>2, <4>1, PastGrows
      <4>3. 0 \in 0..Len(Order)
        BY <1>1
      <4>4. View' = Entering(kind, Base, Now, Told, 0)
        BY <4>1, <4>2, <4>3, Entries
      <4>5. View' = Entering(kind', Base', Now', Told', 0)
        BY <1>1, <4>4
      <4> QED BY <4>3, <4>5 DEF EntriesDone
    <3> QED BY <3>1, <3>2 DEF Come
  <2>4. Steps'
    BY <2>1, <2>3 DEF Steps
  <2>5. InMemory'
    BY <1>1, <2>1, <2>2 DEF InMemory, SeenAt
  <2> QED BY <2>1, <2>4, <2>5 DEF Finished
<1>3. CASE m # Len(Order)
  <2>1. at' = m + 1 /\ pc' = "exits" /\ at' - 1 = m
    BY <1>1, <1>3
  <2>2. Steps'
    <3>1. Past(at' - 1) = Past(m)
      BY <2>1
    <3>2. ExitsDone(Past(at - 1))' \/ EntriesDone(0)'
      BY <2>1, <3>1 DEF Come, ExitsDone
    <3> QED BY <2>1, <3>2 DEF Steps, Come
  <2>3. ~Finished'
    BY <2>1 DEF Finished
  <2>4. InMemory'
    BY <1>1, <2>1, <2>3 DEF InMemory, SeenAt
  <2> QED BY <2>2, <2>3, <2>4
<1> QED BY <1>2, <1>3

LEMMA AsStaysIn ==
  ASSUME TypeInv, ReplayInv, ExitStays
  PROVE  LiveInv'
<1> SUFFICES ASSUME ~apart', ~full' PROVE Beside' /\ pc' # "over"
  BY DEF LiveInv
<1>1. /\ pc = "exits" /\ ~Due /\ Advance("entries") /\ ~apart /\ ~full
      /\ pos' = IF pos[Here].side = "none" THEN pos ELSE [pos EXCEPT ![Here] = Counted(pos[Here])]
      /\ UNCHANGED <<kind, tape, up, exitBar, lastMark, tw, rows, left, exitRow, cycled, log, trows, tlog>>
  BY DEF ExitStays, Store
<1>2. up /\ ~Finished /\ Pending /\ Grounded /\ InMemory
  BY <1>1 DEF Finished, ReplayInv, LiveInv, Beside, Pending, TypeInv, CycleInv, Running, Parts
<1>3. /\ at \in 1..Len(Order) /\ Len(Order) \in Nat /\ Here \in Symbols /\ Here = Order[at]
      /\ pos \in [Symbols -> Place]
  BY Facts
<1>4. PICK m \in 1..Len(Order) : m = at
  BY <1>3
<1>5. Past(m - 1) \cup {Here} = Past(m) /\ Past(m - 1) \in SUBSET Symbols
  <2>1. m - 1 \in 0..Len(Order)
    BY <1>3
  <2> QED BY <1>3, <1>4, <2>1, PastGrows
<1>6. Come(Past(m))
  <2>1. Come(Past(m - 1))
    BY <1>1, <1>2, <1>4 DEF Pending, Steps
  <2>2. ~Leaves(View, Here, Now, Told)
    BY <1>1, <1>2, LiveExit
  <2> QED BY <1>2, <1>3, <1>5, <2>1, <2>2, ComeOn
<1>7. Come(Past(m))' /\ Now' = Now /\ Cooldowns' = Cooldowns
  BY <1>1, <1>6, SameView
<1>8. /\ pos'[Here] = Seen(rows[Here], Now)
      /\ \A s \in Symbols \ {Here} : pos'[s] = pos[s]
  <2>1. CASE pos[Here].side = "none"
    <3>1. rows[Here].side = "none"
      BY <1>2, <2>1, LiveExit
    <3>2. pos[Here] = Seen(rows[Here], Now) \/ pos[Here] = Seen(rows[Here], Now - 1)
      BY <1>2, <1>3 DEF InMemory, SeenAt
    <3> QED BY <1>1, <2>1, <3>1, <3>2 DEF Seen
  <2>2. CASE pos[Here].side # "none"
    <3>1. Counted(pos[Here]) = Seen(rows[Here], Now)
      BY <1>2, <2>2, LiveExit
    <3> QED BY <1>1, <1>3, <2>2, <3>1
  <2> QED BY <2>1, <2>2
<1>9. \A i \in 1..m : pos'[Order[i]] = Seen(rows'[Order[i]], Now)
  <2> SUFFICES ASSUME NEW i \in 1..m PROVE pos'[Order[i]] = Seen(rows[Order[i]], Now)
    BY <1>1
  <2>1. CASE Order[i] = Here
    BY <1>8, <2>1
  <2>2. CASE Order[i] # Here
    <3>1. i \in 1..(at - 1) /\ Order[i] \in Symbols
      BY <1>3, <1>4, <2>2, Places DEF Lists
    <3> QED BY <1>1, <1>2, <1>8, <2>2, <3>1 DEF InMemory, SeenAt
  <2> QED BY <2>1, <2>2
<1>10. \A s \in Symbols : pos'[s] = Seen(rows'[s], Now) \/ pos'[s] = Seen(rows'[s], Now - 1)
  BY <1>1, <1>2, <1>8 DEF InMemory, SeenAt
<1>11. IF at = Len(Order) THEN at' = 1 /\ pc' = "entries" ELSE at' = at + 1 /\ pc' = "exits"
  BY <1>1 DEF Advance
<1>12. exitBar' = Cooldowns'
  BY <1>1, <1>2, <1>7 DEF InMemory
<1>13. Steps' /\ InMemory' /\ ~Finished'
  BY <1>1, <1>2, <1>4, <1>7, <1>9, <1>10, <1>11, <1>12, ExitsGoOn
<1>14. Pending'
  BY <1>1, <1>2, <1>13, SameTape DEF Pending
<1> QED BY <1>1, <1>11, <1>13, <1>14 DEF Beside

(* The state that an exit leaves in the store.                             *)
LEMMA ClosingView ==
  ASSUME TypeInv, TypeInv', ReplayInv, ExitCloses, Pending, InMemory
  PROVE  LET x == ExitsOn({Here}, View, Now, Told)
         IN  /\ View'.pos = x.pos /\ View'.log = x.log /\ View'.tw = x.tw /\ View'.tlog = x.tlog /\ x \in State
             /\ x.exit = [Cooldowns EXCEPT ![Here] = Now] /\ View' \in State
             /\ kind = "minute" => View' = x
             /\ kind # "minute" => Cooldowns' = Cooldowns
<1> DEFINE x == ExitsOn({Here}, View, Now, Told)
           p == Counted(pos[Here])
           v == View'
<1>1. /\ pc = "exits" /\ Due
      /\ log' = log \cup {Closed(Here, p, Now, ExitReason(p, Said(Here)))}
      /\ rows' = [rows EXCEPT ![Here] = NoRow] /\ left' = [left EXCEPT ![Here] = Now]
      /\ UNCHANGED <<kind, tape, exitRow>>
  BY DEF ExitCloses
<1>2. /\ Now' = Now /\ Told' = Told /\ Base' = Base
  BY <1>1, SameTape
<1>3. Here \in Symbols /\ rows \in [Symbols -> Row] /\ Grounded
  BY Facts DEF Pending
<1>4. Leaves(View, Here, Now, Told) /\ p = OnBar(View.pos[Here], Now) /\ Said(Here) = Told[Here]
  BY <1>1, LiveExit DEF Due
<1>5. /\ x.pos = [View.pos EXCEPT ![Here] = NoPos] /\ x.exit = [Cooldowns EXCEPT ![Here] = Now]
      /\ x.log = log \cup {Closed(Here, p, Now, ExitReason(p, Told[Here]))}
      /\ x.tw = Base.tw /\ x.tlog = Base.tlog /\ x \in State
  BY <1>3, <1>4, ExitView DEF Grounded
<1> HIDE DEF x, p
<1>6. v.pos = [s \in Symbols |-> Seen(rows'[s], Now)] /\ v.exit = Cooldowns' /\ v.log = log' /\ v.tw = Base.tw /\ v.tlog = Base.tlog
  BY <1>2 DEF View
<1>7. v \in State
  BY <1>2, <1>3, ViewFitsNext DEF Grounded
<1> HIDE DEF v
<1>8. v.pos = x.pos
  <2>1. Seen(NoRow, Now) = NoPos
    BY DEF Seen, NoRow
  <2>2. View.pos = [s \in Symbols |-> Seen(rows[s], Now)]
    BY ViewIs
  <2> QED BY <1>1, <1>3, <1>5, <1>6, <2>1, <2>2
<1>9. v.log = x.log /\ v.tw = x.tw /\ v.tlog = x.tlog
  BY <1>1, <1>4, <1>5, <1>6
<1>10. ASSUME kind = "minute" PROVE v = x
  <2>1. Cooldowns = left /\ Cooldowns' = left'
    BY <1>1, <1>10 DEF Cooldowns
  <2>2. v.exit = x.exit
    BY <1>1, <1>5, <1>6, <2>1
  <2> QED BY <1>5, <1>7, <1>8, <1>9, <2>2, SameState
<1>11. kind # "minute" => Cooldowns' = Cooldowns
  BY <1>1 DEF Cooldowns
<1> QED BY <1>5, <1>7, <1>8, <1>9, <1>10, <1>11 DEF x, v

(* A symbol leaves.                                                        *)
LEMMA AsCloses ==
  ASSUME TypeInv, TypeInv', ReplayInv, ExitCloses
  PROVE  LiveInv'
<1> SUFFICES ASSUME ~apart', ~full' PROVE Beside' /\ pc' # "over"
  BY DEF LiveInv
<1> DEFINE x == ExitsOn({Here}, View, Now, Told)
<1>1. /\ pc = "exits" /\ Due /\ ~apart /\ ~full
      /\ pos' = [pos EXCEPT ![Here] = NoPos] /\ rows' = [rows EXCEPT ![Here] = NoRow]
      /\ IF kind = "minute" THEN exitBar' = [exitBar EXCEPT ![Here] = Now] /\ Advance("entries")
         ELSE pc' = "exitbar" /\ UNCHANGED <<at, exitBar>>
      /\ UNCHANGED <<kind, tape, up, lastMark, cycled, tw, trows, tlog, apart>>
  BY DEF ExitCloses
<1>2. up /\ ~Finished /\ Pending /\ Grounded /\ InMemory
  BY <1>1 DEF Finished, ReplayInv, LiveInv, Beside, Pending, TypeInv, CycleInv, Running, Parts
<1>3. /\ at \in 1..Len(Order) /\ Len(Order) \in Nat /\ Here \in Symbols /\ Here = Order[at]
      /\ pos \in [Symbols -> Place] /\ rows \in [Symbols -> Row]
  BY Facts
<1>4. PICK m \in 1..Len(Order) : m = at
  BY <1>3
<1>5. Past(m - 1) \cup {Here} = Past(m) /\ Past(m - 1) \in SUBSET Symbols
  <2>1. m - 1 \in 0..Len(Order)
    BY <1>3
  <2> QED BY <1>3, <1>4, <2>1, PastGrows
<1>6. PICK X \in SUBSET Symbols : Past(m) \subseteq X /\ x = ExitsOn(X, Aging(Base, Now), Now, Told)
  <2>1. Come(Past(m - 1))
    BY <1>1, <1>2, <1>4 DEF Pending, Steps
  <2>2. Leaves(View, Here, Now, Told)
    BY <1>1, <1>2, LiveExit
  <2> DEFINE S == Past(m - 1)
             s == Here
  <2>3. S \in SUBSET Symbols /\ Come(S) /\ s \in Symbols /\ Leaves(View, s, Now, Told)
    BY <1>3, <1>5, <2>1, <2>2
  <2> HIDE DEF S, s
  <2>4. \E X \in SUBSET Symbols :
          S \cup {s} \subseteq X /\ ExitsOn({s}, View, Now, Told) = ExitsOn(X, Aging(Base, Now), Now, Told)
    BY <1>2, <2>3, ComeOn
  <2> QED BY <1>5, <2>4 DEF S, s
<1>7. /\ View'.pos = x.pos /\ View'.log = x.log /\ View'.tw = x.tw /\ View'.tlog = x.tlog /\ x \in State
      /\ x.exit = [Cooldowns EXCEPT ![Here] = Now] /\ View' \in State
      /\ kind = "minute" => View' = x
      /\ kind # "minute" => Cooldowns' = Cooldowns
  BY <1>2, ClosingView
<1> HIDE DEF x
<1>8. Now' = Now /\ Told' = Told /\ Base' = Base /\ Grounded'
  BY <1>1, <1>2, SameTape
<1>9. pos'[Here] = Seen(rows'[Here], Now) /\ \A s \in Symbols \ {Here} : pos'[s] = pos[s] /\ rows'[s] = rows[s]
  <2>1. Seen(NoRow, Now) = NoPos
    BY DEF Seen, NoRow
  <2> QED BY <1>1, <1>3, <2>1
<1>10. \A i \in 1..m : pos'[Order[i]] = Seen(rows'[Order[i]], Now)
  <2> SUFFICES ASSUME NEW i \in 1..m PROVE pos'[Order[i]] = Seen(rows'[Order[i]], Now)
    OBVIOUS
  <2>1. CASE Order[i] = Here
    BY <1>9, <2>1
  <2>2. CASE Order[i] # Here
    <3>1. i \in 1..(at - 1) /\ Order[i] \in Symbols
      BY <1>3, <1>4, <2>2, Places DEF Lists
    <3> QED BY <1>1, <1>2, <1>9, <2>2, <3>1 DEF InMemory, SeenAt
  <2> QED BY <2>1, <2>2
<1>11. \A s \in Symbols : pos'[s] = Seen(rows'[s], Now) \/ pos'[s] = Seen(rows'[s], Now - 1)
  BY <1>2, <1>9 DEF InMemory, SeenAt
<1>12. CASE kind = "minute"
  <2>1. ExitsDone(Past(m))'
    BY <1>6, <1>7, <1>8, <1>12 DEF ExitsDone
  <2>2. IF at = Len(Order) THEN at' = 1 /\ pc' = "entries" ELSE at' = at + 1 /\ pc' = "exits"
    BY <1>1, <1>12 DEF Advance
  <2>3. exitBar' = Cooldowns'
    <3>1. exitBar = left /\ Cooldowns' = left' /\ left' = [left EXCEPT ![Here] = Now]
      BY <1>1, <1>2, <1>12 DEF InMemory, Cooldowns, ExitCloses
    <3> QED BY <1>1, <1>12, <3>1
  <2>4. Steps' /\ InMemory' /\ ~Finished'
    BY <1>1, <1>2, <1>4, <1>10, <1>11, <2>1, <2>2, <2>3, ExitsGoOn DEF Come
  <2>5. Pending'
    BY <1>1, <1>2, <1>8, <2>4 DEF Pending
  <2> QED BY <1>1, <2>2, <2>4, <2>5 DEF Beside
<1>13. CASE kind # "minute"
  <2>1. pc' = "exitbar" /\ at' = at /\ exitBar' = exitBar /\ Cooldowns' = Cooldowns /\ Here' = Here
    BY <1>1, <1>7, <1>13 DEF Here
  <2>2. [View' EXCEPT !.exit = [Cooldowns' EXCEPT ![Here'] = Now']] = x
    <3> DEFINE v == View'
               e == [Cooldowns EXCEPT ![Here] = Now]
               z == [v EXCEPT !.exit = e]
    <3>1. v \in State /\ v.pos = x.pos /\ v.log = x.log /\ v.tw = x.tw /\ v.tlog = x.tlog /\ e = x.exit /\ x \in State
      BY <1>7
    <3> HIDE DEF v, e
    <3>2. z \in State /\ z.pos = v.pos /\ z.exit = e /\ z.log = v.log /\ z.tw = v.tw /\ z.tlog = v.tlog
      BY <3>1 DEF State
    <3> HIDE DEF z
    <3>3. z = x
      BY <3>1, <3>2, SameState
    <3> QED BY <1>8, <2>1, <3>3 DEF z, v, e
  <2>3. ComeLate(Past(m))'
    BY <1>6, <1>8, <2>2 DEF ComeLate
  <2>4. Past(at') = Past(m)
    BY <1>4, <2>1
  <2>5. ComeLate(Past(at))'
    BY <2>3, <2>4 DEF ComeLate
  <2>6. Steps' /\ ~Finished'
    BY <2>1, <2>5 DEF Steps, Finished
  <2>7. InMemory'
    BY <1>2, <1>4, <1>8, <1>10, <1>11, <2>1, <2>6 DEF InMemory, SeenAt
  <2>8. Pending'
    BY <1>1, <1>2, <1>8, <2>6 DEF Pending
  <2> QED BY <1>1, <2>1, <2>6, <2>7, <2>8 DEF Beside
<1> QED BY <1>12, <1>13

(* The second write of its exit.                                           *)
LEMMA AsSetExitBar ==
  ASSUME "exitbar" \notin KillAt, TypeInv, ReplayInv, SetExitBar
  PROVE  LiveInv'
<1> SUFFICES ASSUME ~apart', ~full' PROVE Beside' /\ pc' # "over"
  BY DEF LiveInv
<1>1. /\ pc = "exitbar" /\ ~apart /\ ~full
      /\ exitBar' = [exitBar EXCEPT ![Here] = Now] /\ exitRow' = [exitRow EXCEPT ![Here] = Now]
      /\ IF at = Len(Order) THEN at' = 1 /\ pc' = "entries" ELSE at' = at + 1 /\ pc' = "exits"
      /\ UNCHANGED <<kind, tape, up, pos, lastMark, rows, left, cycled, log, tw, trows, tlog, apart>>
  BY DEF SetExitBar
<1>2. up /\ ~Finished /\ Pending /\ Grounded /\ InMemory /\ kind = "bar"
  BY <1>1 DEF Finished, ReplayInv, LiveInv, Beside, Pending, TypeInv, CycleInv, Running, Parts, ExitsKnown
<1>3. at \in 1..Len(Order) /\ Len(Order) \in Nat /\ Here \in Symbols
  BY Facts
<1>4. PICK m \in 1..Len(Order) : m = at
  BY <1>3
<1>5. Now' = Now /\ Told' = Told /\ Base' = Base /\ Grounded'
  BY <1>1, <1>2, SameTape
<1>6. Cooldowns = exitRow /\ Cooldowns' = [Cooldowns EXCEPT ![Here] = Now] /\ exitBar' = Cooldowns'
  BY <1>1, <1>2 DEF Cooldowns, InMemory
<1>7. View' = [View EXCEPT !.exit = [Cooldowns EXCEPT ![Here] = Now]]
  <2> DEFINE f == [s \in Symbols |-> Seen(rows[s], Now)]
             e == [Cooldowns EXCEPT ![Here] = Now]
             v == [pos |-> f, exit |-> Cooldowns, log |-> log, tw |-> Base.tw, tlog |-> Base.tlog]
  <2>1. View = v
    BY DEF View
  <2>2. View' = [pos |-> f, exit |-> e, log |-> log, tw |-> Base.tw, tlog |-> Base.tlog]
    BY <1>1, <1>5, <1>6 DEF View
  <2> HIDE DEF f, e
  <2>3. [v EXCEPT !.exit = e] = [pos |-> f, exit |-> e, log |-> log, tw |-> Base.tw, tlog |-> Base.tlog]
    OBVIOUS
  <2> QED BY <2>1, <2>2, <2>3 DEF e
<1>8. Come(Past(m))'
  <2>1. PICK X \in SUBSET Symbols :
          Past(m) \subseteq X /\ [View EXCEPT !.exit = [Cooldowns EXCEPT ![Here] = Now]] = ExitsOn(X, Aging(Base, Now), Now, Told)
    BY <1>1, <1>2, <1>4 DEF Pending, Steps, ComeLate
  <2>2. ExitsDone(Past(m))'
    BY <1>5, <1>7, <2>1 DEF ExitsDone
  <2> QED BY <2>2 DEF Come
<1>9. \A i \in 1..m : pos'[Order[i]] = Seen(rows'[Order[i]], Now)
  BY <1>1, <1>2, <1>4 DEF InMemory, SeenAt
<1>10. \A s \in Symbols : pos'[s] = Seen(rows'[s], Now) \/ pos'[s] = Seen(rows'[s], Now - 1)
  BY <1>1, <1>2 DEF InMemory, SeenAt
<1>11. Steps' /\ InMemory' /\ ~Finished'
  BY <1>1, <1>2, <1>4, <1>6, <1>8, <1>9, <1>10, ExitsGoOn
<1>12. Pending'
  BY <1>1, <1>2, <1>5, <1>11 DEF Pending
<1> QED BY <1>1, <1>11, <1>12 DEF Beside

-----------------------------------------------------------------------------
(* The entries.                                                            *)
LEMMA LiveEntry ==
  ASSUME TypeInv, Grounded, InMemory, pc \in {"entries", "twin"}
  PROVE  pos = View.pos /\ exitBar = View.exit /\ (Firing <=> Fires(kind, View.pos, View.exit, Here, Now, Told[Here]))
<1>1. pos \in [Symbols -> Place]
  BY Facts
<1>2. \A s \in Symbols : pos[s] = Seen(rows[s], Now)
  BY DEF InMemory, SeenAt
<1>3. pos = View.pos
  BY <1>1, <1>2, ViewIs
<1>4. exitBar = View.exit
  BY ViewIs DEF InMemory
<1>5. Said(Here) = Told[Here]
  BY DEF Said, Told
<1> QED BY <1>3, <1>4, <1>5 DEF Firing

(* The entries of the symbols so far are done.                             *)
LEMMA EntriesGoOn ==
  ASSUME TypeInv, Grounded, UNCHANGED <<kind, tape>>, NEW CONSTANT m, m = at, EntriesDone(m)', exitBar' = Cooldowns',
         \A s \in Symbols : pos'[s] = Seen(rows'[s], Now),
         IF at = Len(Order) THEN at' = 1 /\ pc' = "twin" ELSE at' = at + 1 /\ pc' = "entries"
  PROVE  Steps' /\ InMemory' /\ ~Finished'
<1>1. Now' = Now /\ m \in 1..Len(Order) /\ Len(Order) \in Nat
  BY SameTape, Facts
<1>2. InMemory' /\ ~Finished'
  BY <1>1 DEF InMemory, SeenAt, Finished
<1>3. CASE m = Len(Order)
  <2>1. pc' = "twin"
    BY <1>3
  <2> QED BY <1>2, <1>3, <2>1 DEF Steps
<1>4. CASE m # Len(Order)
  <2>1. at' - 1 = m /\ pc' = "entries"
    BY <1>1, <1>4
  <2>2. EntriesDone(at - 1)'
    BY <2>1 DEF EntriesDone
  <2> QED BY <1>2, <2>1, <2>2 DEF Steps
<1> QED BY <1>3, <1>4

(* A symbol that does not fire now, or whose entry the store already has.  *)
LEMMA AsNoEntry ==
  ASSUME TypeInv, ReplayInv, NoEntry
  PROVE  LiveInv'
<1> SUFFICES ASSUME ~apart', ~full' PROVE Beside' /\ pc' # "over"
  BY DEF LiveInv
<1>1. /\ pc = "entries" /\ ~Firing /\ Advance("twin") /\ ~apart /\ ~full
      /\ UNCHANGED <<kind, tape, up, pos, exitBar, lastMark, tw, rows, left, exitRow, cycled, log, trows, tlog>>
  BY DEF NoEntry, Memory, Store
<1>2. up /\ ~Finished /\ Pending /\ Grounded /\ InMemory
  BY <1>1 DEF Finished, ReplayInv, LiveInv, Beside, Pending, TypeInv, CycleInv, Running, Parts
<1>3. at \in 1..Len(Order) /\ Len(Order) \in Nat /\ Here \in Symbols /\ Here = Order[at] /\ Now \in Nat /\ Told \in Readings
  BY <1>2, Facts, ToldReading DEF Grounded
<1>4. PICK m \in 1..Len(Order) : m = at
  BY <1>3
<1>5. PICK j \in (m - 1)..Len(Order) : View = Entering(kind, Base, Now, Told, j)
  BY <1>1, <1>2, <1>4 DEF Pending, Steps, EntriesDone
<1>6. EntriesDone(m)
  <2>1. CASE j >= m
    <3>1. j \in m..Len(Order)
      BY <1>3, <2>1
    <3> QED BY <1>5, <3>1 DEF EntriesDone
  <2>2. CASE j < m
    <3>1. j = m - 1 /\ j \in 0..Len(Order) /\ m \in 0..Len(Order) /\ m >= 1
      BY <1>3, <2>2
    <3>2. Entering(kind, Base, Now, Told, m) = ReplayEntry(kind, View, Order[m], Now, Told)
      BY <1>2, <1>5, <3>1, Entries
    <3>3. View \in State
      BY <1>2, ViewFits DEF Grounded
    <3>4. ~Fires(kind, View.pos, View.exit, Order[m], Now, Told[Order[m]])
      BY <1>1, <1>2, <1>3, <1>4, LiveEntry
    <3> DEFINE v == View
               r == Told
               s == Order[m]
    <3>5. v \in State /\ r \in Readings /\ s \in Symbols /\ ~Fires(kind, v.pos, v.exit, s, Now, r[s])
      BY <1>3, <1>4, <3>3, <3>4
    <3> HIDE DEF v, r, s
    <3>6. ReplayEntry(kind, v, s, Now, r) = v
      BY <3>5 DEF ReplayEntry
    <3>7. m \in m..Len(Order)
      BY <1>3, <1>4
    <3> QED BY <3>2, <3>6, <3>7 DEF v, r, s, EntriesDone
  <2> QED BY <1>3, <2>1, <2>2
<1>7. EntriesDone(m)' /\ Cooldowns' = Cooldowns /\ Now' = Now
  BY <1>1, <1>6, SameView
<1>8. exitBar' = Cooldowns' /\ \A s \in Symbols : pos'[s] = Seen(rows'[s], Now)
  BY <1>1, <1>2, <1>7 DEF InMemory, SeenAt
<1>9. IF at = Len(Order) THEN at' = 1 /\ pc' = "twin" ELSE at' = at + 1 /\ pc' = "entries"
  BY <1>1 DEF Advance
<1>10. Steps' /\ InMemory' /\ ~Finished'
  BY <1>1, <1>2, <1>4, <1>7, <1>8, <1>9, EntriesGoOn
<1>11. Pending'
  BY <1>1, <1>2, <1>10, SameTape DEF Pending
<1> QED BY <1>1, <1>9, <1>10, <1>11 DEF Beside

(* A symbol that fires is the first whose entry is not in the store.       *)
LEMMA AsEnters ==
  ASSUME TypeInv, TypeInv', ReplayInv, Enters
  PROVE  LiveInv'
<1> SUFFICES ASSUME ~apart', ~full' PROVE Beside' /\ pc' # "over"
  BY DEF LiveInv
<1> DEFINE d == Said(Here).entry
<1>1. /\ pc = "entries" /\ Firing /\ Advance("twin") /\ ~apart /\ ~full
      /\ pos' = [pos EXCEPT ![Here] = Opened(d, Now)] /\ rows' = [rows EXCEPT ![Here] = [side |-> d, entry |-> Now]]
      /\ UNCHANGED <<kind, tape, up, exitBar, lastMark, tw, left, exitRow, cycled, log, trows, tlog>>
  BY DEF Enters
<1>2. up /\ ~Finished /\ Pending /\ Grounded /\ InMemory
  BY <1>1 DEF Finished, ReplayInv, LiveInv, Beside, Pending, TypeInv, CycleInv, Running, Parts
<1>3. /\ at \in 1..Len(Order) /\ Len(Order) \in Nat /\ Here \in Symbols /\ Here = Order[at] /\ Now \in Nat /\ Told \in Readings
      /\ pos \in [Symbols -> Place] /\ rows \in [Symbols -> Row]
  BY <1>2, Facts, ToldReading DEF Grounded
<1>4. PICK m \in 1..Len(Order) : m = at
  BY <1>3
<1>5. PICK j \in (m - 1)..Len(Order) : View = Entering(kind, Base, Now, Told, j)
  BY <1>1, <1>2, <1>4 DEF Pending, Steps, EntriesDone
<1>6. Fires(kind, View.pos, View.exit, Here, Now, Told[Here]) /\ pos = View.pos /\ exitBar = View.exit
  BY <1>1, <1>2, LiveEntry
<1>7. j = m - 1 /\ j \in 0..Len(Order) /\ m \in 0..Len(Order) /\ m >= 1
  <2>1. j \in 0..Len(Order) /\ m \in 0..Len(Order) /\ m >= 1
    BY <1>3
  <2>2. \A i \in 1..j : ~Fires(kind, View.pos, View.exit, Order[i], Now, Told[Order[i]])
    BY <1>2, <1>5, <2>1, Entries DEF Settled
  <2>3. ~(m \in 1..j)
    BY <1>3, <1>4, <1>6, <2>2
  <2> QED BY <1>3, <2>1, <2>3
<1>8. Now' = Now /\ Told' = Told /\ Base' = Base /\ Grounded' /\ Cooldowns' = Cooldowns
  BY <1>1, <1>2, SameTape DEF Cooldowns
<1> DEFINE e == Entering(kind, Base, Now, Told, m)
<1>9. e = ReplayEntry(kind, View, Here, Now, Told)
  BY <1>2, <1>3, <1>4, <1>5, <1>7, Entries
<1>10. View \in State
  BY <1>2, ViewFits DEF Grounded
<1>11. /\ e \in State /\ e.pos = [View.pos EXCEPT ![Here] = Opened(Told[Here].entry, Now)]
       /\ e.exit = View.exit /\ e.log = View.log /\ e.tw = View.tw /\ e.tlog = View.tlog
  <2> DEFINE v == View
             r == Told
             s == Here
             y == ReplayEntry(kind, v, s, Now, r)
  <2>1. v \in State /\ r \in Readings /\ s \in Symbols /\ Fires(kind, v.pos, v.exit, s, Now, r[s]) /\ e = y
    BY <1>3, <1>6, <1>9, <1>10
  <2> HIDE DEF v, r, s, e
  <2>2. EntryMade(v, ReplayEntry(kind, v, s, Now, r), s, Now, r)
    BY <1>3, <2>1, EntryFired
  <2>3. e \in State /\ e.pos = [v.pos EXCEPT ![s] = Opened(r[s].entry, Now)]
        /\ e.exit = v.exit /\ e.log = v.log /\ e.tw = v.tw /\ e.tlog = v.tlog
    BY <2>1, <2>2 DEF EntryMade
  <2> QED BY <2>1, <2>3 DEF v, r, s
<1> HIDE DEF e
<1>12. d = Told[Here].entry /\ d # "none"
  BY <1>1 DEF Said, Told, Firing, Fires, Asks
<1> HIDE DEF d
<1>13. Seen([side |-> d, entry |-> Now], Now) = Opened(d, Now)
  <2>1. Now - Now = 0
    BY <1>3
  <2> QED BY <1>12, <2>1 DEF Seen, Opened
<1>14. View' = e
  <2> DEFINE v == View'
  <2>1. v \in State
    BY <1>2, <1>8, ViewFitsNext DEF Grounded
  <2>2. v.pos = [s \in Symbols |-> Seen(rows'[s], Now)] /\ v.exit = Cooldowns /\ v.log = log /\ v.tw = Base.tw /\ v.tlog = Base.tlog
    BY <1>1, <1>8 DEF View
  <2> HIDE DEF v
  <2>3. v.pos = e.pos
    BY <1>1, <1>3, <1>11, <1>12, <1>13, <2>2, ViewIs
  <2>4. v.exit = e.exit /\ v.log = e.log /\ v.tw = e.tw /\ v.tlog = e.tlog
    BY <1>11, <2>2, ViewIs
  <2>5. v = e
    BY <1>11, <2>1, <2>3, <2>4, SameState
  <2> QED BY <2>5 DEF v
<1>15. EntriesDone(m)'
  <2>1. m \in m..Len(Order)
    BY <1>3
  <2>2. View' = Entering(kind', Base', Now', Told', m)
    BY <1>1, <1>8, <1>14 DEF e
  <2> QED BY <2>1, <2>2 DEF EntriesDone
<1>16. exitBar' = Cooldowns' /\ \A s \in Symbols : pos'[s] = Seen(rows'[s], Now)
  <2>1. \A s \in Symbols : pos[s] = Seen(rows[s], Now)
    BY <1>1, <1>2 DEF InMemory, SeenAt
  <2> QED BY <1>1, <1>2, <1>3, <1>8, <1>13, <2>1 DEF InMemory
<1>17. IF at = Len(Order) THEN at' = 1 /\ pc' = "twin" ELSE at' = at + 1 /\ pc' = "entries"
  BY <1>1 DEF Advance
<1>18. Steps' /\ InMemory' /\ ~Finished'
  BY <1>1, <1>2, <1>4, <1>15, <1>16, <1>17, EntriesGoOn
<1>19. Pending'
  BY <1>1, <1>2, <1>8, <1>18 DEF Pending
<1> QED BY <1>1, <1>17, <1>18, <1>19 DEF Beside

-----------------------------------------------------------------------------
(* The twin, the end of the mark, the process and the end of the day.      *)
LEMMA TwinOfBase ==
  ASSUME TypeInv, Grounded, TwinAt(Now - 1)
  PROVE  LET t == TwinStep(Base.tw, Told, Now)
         IN  /\ TwinFits(t)
             /\ (up => TwinStep(tw, Told, Now).pos = t.pos /\ TwinTrades(tw, Told, Now) = TwinTrades(Base.tw, Told, Now))
<1> DEFINE t == TwinStep(Base.tw, Told, Now)
           u == Base.tw
<1>1. Now \in Nat /\ Now >= 1 /\ Now <= Bars /\ Told \in Reading
  BY Facts, ToldReading, ReadingsAssumption DEF Grounded
<1>2. u \in Twin /\ trows = u.pos /\ \A s \in Symbols : u.drawn[s] <= Now - 1
  BY DEF Grounded, State, TwinAt, Base
<1>3. TwinFits(u)
  BY <1>1, <1>2 DEF TwinFits, Twin, TypeInv, Twins
<1> HIDE DEF u
<1>4. TwinFits(TwinStep(u, Told, Now))
  BY <1>1, <1>3, TwinSteps
<1>5. ASSUME up PROVE TwinStep(tw, Told, Now).pos = TwinStep(u, Told, Now).pos /\ TwinTrades(tw, Told, Now) = TwinTrades(u, Told, Now)
  <2> DEFINE w == tw
             r == Told
             b == Now
  <2>1. w.pos = u.pos /\ b \in Nat /\ \A s \in Symbols : w.drawn[s] \in Nat /\ u.drawn[s] \in Nat /\ w.drawn[s] < b /\ u.drawn[s] < b
    BY <1>1, <1>2, <1>5 DEF TwinAt, TypeInv, Twins, TwinFits, Twin
  <2> HIDE DEF w, r, b
  <2>2. TwinStep(w, r, b).pos = TwinStep(u, r, b).pos /\ TwinTrades(w, r, b) = TwinTrades(u, r, b)
    BY <2>1, TwinSame
  <2> QED BY <2>2 DEF w, r, b
<1> QED BY <1>4, <1>5 DEF u

(* The replay of the newest bar, from the replay of those before.          *)
LEMMA BarDone ==
  ASSUME TypeInv, Grounded
  PROVE  BarMade(Base, Made(kind, Base, Now, Told), Replay, Now, Told)
<1> DEFINE st == Base
           b == Now
           r == Told
           k == kind
           y == Made(k, st, b, r)
           z == ReplayBar(k, st, b, r)
<1>1. st \in State /\ b \in Nat /\ b >= 1 /\ Fresh(st, b - 1) /\ r \in Readings
  BY Facts, ToldReading DEF Grounded
<1>2. Replay = z
  <2>1. tape \in Seq(Readings) /\ Now \in 1..Len(tape)
    BY Facts, ToldReading DEF Grounded
  <2>2. ReplayTo(kind, tape)[Now] = ReplayBar(kind, ReplayTo(kind, tape)[Now - 1], Now, tape[Now])
    BY <2>1, ReplayIs
  <2> QED BY <2>2 DEF Replay, Base, Told, Now
<1> HIDE DEF st, b, r, k
<1>3. TwinStep(st.tw, r, b) \in Twin /\ TwinTrades(st.tw, r, b) \in SUBSET Deal
  BY <1>1, TwinFit, ReadingsAssumption DEF State
<1>4. y \in State /\ y.tlog = st.tlog
  BY <1>1, MadeFits
<1>5. BarMade(st, y, z, b, r)
  <2>1. y = Made(k, st, b, r) /\ z = ReplayBar(k, st, b, r)
    OBVIOUS
  <2> HIDE DEF y, z
  <2> QED BY <1>1, <1>3, <1>4, <2>1, BarIs
<1> QED BY <1>2, <1>5 DEF st, b, r, k

(* The twin's step is the last of the replay's bar.                        *)
LEMMA AsTwin ==
  ASSUME TypeInv, ReplayInv, TwinCycle
  PROVE  LiveInv'
<1> SUFFICES ASSUME ~apart', ~full' PROVE Beside' /\ pc' # "over"
  BY DEF LiveInv
<1>1. /\ pc = "twin" /\ pc' = "write" /\ ~apart /\ ~full
      /\ UNCHANGED <<kind, tape, up, pos, exitBar, rows, left, exitRow, log>>
  BY DEF TwinCycle
<1>2. up /\ ~Finished /\ Pending /\ Grounded /\ InMemory
  BY <1>1 DEF Finished, ReplayInv, LiveInv, Beside, Pending, TypeInv, CycleInv, Running, Parts
<1>3. Now \in Nat /\ Now >= 1 /\ Told \in Readings /\ Len(Order) \in Nat /\ Base \in State /\ Fresh(Base, Now - 1) /\ kind \in Kinds
  BY <1>2, Facts, ToldReading DEF Grounded
<1>4. View = Entering(kind, Base, Now, Told, Len(Order))
  <2>1. PICK j \in Len(Order)..Len(Order) : View = Entering(kind, Base, Now, Told, j)
    BY <1>1, <1>2 DEF Pending, Steps, EntriesDone
  <2>2. j = Len(Order)
    BY <1>3, <2>1
  <2> QED BY <2>1, <2>2
<1>5. kind = "minute" => \A s \in Symbols : ~Asked(View, s, Now, Told)
  <2> SUFFICES ASSUME kind = "minute", NEW s \in Symbols PROVE ~Asked(View, s, Now, Told)
    OBVIOUS
  <2>1. pos = View.pos /\ exitBar = View.exit
    BY <1>1, <1>2, LiveEntry
  <2>2. PICK i \in 1..Len(Order) : s = Order[i]
    BY Places DEF Lists
  <2>3. Unasked(s)
    BY <1>1, <2>2 DEF ReplayInv, ServedInv
  <2> QED BY <2>1, <2>3 DEF Unasked, Asked, Said, Told
<1>6. View = Made(kind, Base, Now, Told)
  <2> DEFINE st == Base
             b == Now
             r == Told
             k == kind
  <2>1. k \in Kinds /\ st \in State /\ b \in Nat /\ b >= 1 /\ Fresh(st, b - 1) /\ r \in Readings
    BY <1>3
  <2>2. k = "minute" => \A s \in Symbols : ~Asked(Entering(k, st, b, r, Len(Order)), s, b, r)
    BY <1>4, <1>5
  <2> HIDE DEF st, b, r, k
  <2>3. Entering(k, st, b, r, Len(Order)) = Made(k, st, b, r)
    BY <2>1, <2>2, EnteringMakes
  <2> QED BY <1>4, <2>3 DEF st, b, r, k
<1>7. BarMade(Base, View, Replay, Now, Told)
  BY <1>2, <1>6, BarDone
<1>8. Replay' = Replay /\ Now' = Now /\ Cooldowns' = Cooldowns
  BY <1>1, SameTape DEF Cooldowns
<1>9. Done'
  <2>1. Replay \in State /\ Replay.pos = [s \in Symbols |-> Seen(rows[s], Now)] /\ Replay.exit = Cooldowns /\ Replay.log = log
    BY <1>7, ViewIs DEF BarMade
  <2> QED BY <1>1, <1>8, <2>1 DEF Done
<1>10. Finished'
  BY <1>1 DEF Finished
<1>11. InMemory'
  BY <1>1, <1>2, <1>8 DEF InMemory, SeenAt
<1> QED BY <1>1, <1>9, <1>10, <1>11 DEF Beside

(* The cycles row is written: the mark is done, as it was.                 *)
LEMMA AsWrites ==
  ASSUME TypeInv, ReplayInv, WriteCycle
  PROVE  LiveInv'
<1> SUFFICES ASSUME ~apart', ~full' PROVE Beside' /\ pc' # "over"
  BY DEF LiveInv
<1>1. /\ pc = "write" /\ pc' = "idle" /\ cycled' = lastMark /\ ~apart /\ ~full
      /\ UNCHANGED <<kind, tape, up, pos, exitBar, lastMark, tw, rows, left, exitRow, log, trows, tlog>>
  BY DEF WriteCycle, Memory
<1>2. up /\ Finished /\ Done /\ InMemory /\ Marks /\ lastMark = Now
  BY <1>1 DEF Finished, ReplayInv, LiveInv, TwinInv, Beside, Marks, TypeInv, CycleInv, Running, Parts
<1>3. Now' = Now /\ Replay' = Replay /\ Cooldowns' = Cooldowns
  BY <1>1, SameTape DEF Cooldowns
<1>5. Done'
  BY <1>1, <1>2, <1>3 DEF Done
<1>6. Finished'
  BY <1>1, <1>2, <1>3 DEF Finished
<1>7. InMemory'
  BY <1>1, <1>2, <1>3 DEF InMemory, SeenAt
<1> QED BY <1>1, <1>5, <1>6, <1>7 DEF Beside

(* Begun again, a mark has come at least as far as the store had.          *)
LEMMA ComeLess ==
  ASSUME TypeInv, Steps, pc \in {"idle", "exits", "entries", "twin"}
  PROVE  Come({})
<1>1. Len(Order) \in Nat /\ at \in 1..Len(Order)
  BY Facts
<1>2. ASSUME NEW S, Come(S) PROVE Come({})
  BY <1>2 DEF Come, ExitsDone
<1>3. ASSUME NEW m \in 0..Len(Order), EntriesDone(m) PROVE Come({})
  <2>1. PICK j \in m..Len(Order) : View = Entering(kind, Base, Now, Told, j)
    BY <1>3 DEF EntriesDone
  <2>2. j \in 0..Len(Order)
    BY <1>1, <2>1
  <2> QED BY <2>1, <2>2 DEF Come, EntriesDone
<1>4. at - 1 \in 0..Len(Order) /\ Len(Order) \in 0..Len(Order)
  BY <1>1
<1> QED BY <1>2, <1>3, <1>4 DEF Steps

(* A kill keeps what the store has; the mark it fell into is begun again.  *)
LEMMA AsKills ==
  ASSUME KillAt \subseteq {"idle", "exits", "entries", "twin"}, TypeInv, ReplayInv, Kill
  PROVE  LiveInv'
<1> SUFFICES ASSUME ~apart', ~full' PROVE Beside' /\ pc' # "over"
  BY DEF LiveInv
<1>1. /\ up /\ pc \in {"idle", "exits", "entries", "twin"} /\ up' = FALSE /\ pc' = "idle" /\ ~apart /\ ~full
      /\ UNCHANGED <<kind, tape, rows, left, exitRow, cycled, log, trows, tlog>>
  BY DEF Kill, Store
<1>2. Beside /\ Marks
  BY <1>1 DEF ReplayInv, LiveInv, TwinInv
<1>3. Now' = Now /\ Replay' = Replay /\ Cooldowns' = Cooldowns /\ cycled \in Nat /\ Now \in Nat
  BY <1>1, SameTape, Facts DEF Cooldowns
<1>5. Finished' <=> Finished
  BY <1>1, <1>2, <1>3 DEF Finished, Marks
<1>6. ASSUME Finished PROVE Done'
  BY <1>1, <1>2, <1>3, <1>6 DEF Beside, Done
<1>7. ASSUME ~Finished PROVE Pending'
  <2>1. Pending
    BY <1>2, <1>7 DEF Beside
  <2>2. Grounded'
    BY <1>1, <2>1, SameTape DEF Pending
  <2>3. Come({})
    BY <1>1, <2>1, ComeLess DEF Pending
  <2>4. Come({})'
    BY <1>1, <2>3, SameView
  <2> QED BY <1>1, <2>2, <2>4 DEF Pending, Steps
<1> QED BY <1>1, <1>5, <1>6, <1>7 DEF Beside

(* A start that passes no mark by resumes after the last cycles row.       *)
LEMMA Resumes ==
  ASSUME TypeInv, Startup, ~apart'
  PROVE  lastMark' = cycled
<1>1. lastMark' \in {cycled, Now} /\ ~(cycled < lastMark')
  BY DEF Startup, Resumed, PassedBy
<1> QED BY <1>1, Facts

(* Adopted positions have counted every bar since their entry.             *)
LEMMA AsStartup ==
  ASSUME TypeInv, ReplayInv, Startup
  PROVE  LiveInv'
<1> SUFFICES ASSUME ~apart', ~full' PROVE Beside' /\ pc' # "over"
  BY DEF LiveInv
<1>1. /\ ~up /\ up' = TRUE /\ ~apart /\ ~full
      /\ pos' = [s \in Symbols |-> Adopted(rows[s])] /\ exitBar' = Cooldowns
      /\ UNCHANGED <<kind, tape, pc, rows, left, exitRow, cycled, log, trows, tlog>>
  BY DEF Startup, Store
<1>2. Marks /\ pc = "idle" /\ pc' = "idle" /\ Beside
  BY <1>1 DEF ReplayInv, LiveInv, TwinInv, Marks
<1>3. Now' = Now /\ Replay' = Replay /\ Base' = Base /\ Cooldowns' = Cooldowns /\ Now \in Nat /\ cycled \in Nat /\ cycled <= Now
  BY <1>1, SameTape, Facts DEF Cooldowns
<1>4. lastMark' = cycled
  BY Resumes
<1>5. Finished' <=> Finished
  BY <1>1, <1>2, <1>3, <1>4 DEF Finished
<1>6. \A s \in Symbols : SeenAt(s, Now)'
  BY <1>1, <1>3 DEF SeenAt, Adopted, Seen
<1>7. InMemory'
  BY <1>1, <1>2, <1>3, <1>6 DEF InMemory, SeenAt
<1>8. ASSUME Finished PROVE Done'
  BY <1>1, <1>2, <1>3, <1>8 DEF Beside, Done
<1>9. ASSUME ~Finished PROVE Pending'
  <2>1. Pending
    BY <1>2, <1>9 DEF Beside
  <2>2. Grounded'
    BY <1>1, <2>1, SameTape DEF Pending
  <2>3. Come({})'
    BY <1>1, <1>2, <2>1, SameView DEF Pending, Steps
  <2> QED BY <1>2, <2>2, <2>3 DEF Pending, Steps
<1> QED BY <1>2, <1>5, <1>7, <1>8, <1>9 DEF Beside

(* What a finished mark has left in memory and in the store.               *)
LEMMA AsReplay ==
  ASSUME TypeInv, Done, InMemory, up, Finished
  PROVE  pos = Replay.pos /\ log = Replay.log
<1>1. pos \in [Symbols -> Place]
  BY Facts
<1>2. \A s \in Symbols : pos[s] = Seen(rows[s], Now)
  BY DEF InMemory, SeenAt
<1> QED BY <1>1, <1>2 DEF Done

(* The flatten closes what the replay holds.                               *)
LEMMA AsFlattens ==
  ASSUME TypeInv, ReplayInv, Flatten
  PROVE  LiveInv'
<1> SUFFICES ASSUME ~apart', ~full' PROVE Over' /\ pc' = "over"
  BY DEF LiveInv
<1>1. /\ up /\ pc = "idle" /\ pc' = "over" /\ ~apart /\ ~full /\ ~(lastMark < Now)
      /\ log' = log \cup Flattened(pos, Now)
      /\ UNCHANGED <<kind, tape, up>>
  BY DEF Flatten
<1>2. Finished /\ Done /\ InMemory
  BY <1>1, Facts DEF Finished, ReplayInv, LiveInv, Beside
<1>3. pos = Replay.pos /\ log = Replay.log
  BY <1>1, <1>2, AsReplay
<1>4. Now' = Now /\ Replay' = Replay
  BY <1>1, SameTape
<1>5. Over'
  BY <1>1, <1>3, <1>4 DEF Over
<1> QED BY <1>1, <1>5

LEMMA AsStutters == ASSUME LiveInv, UNCHANGED vars PROVE LiveInv'
<1> SUFFICES ASSUME ~apart', ~full' PROVE (pc' # "over" => Beside') /\ (pc' = "over" => Over')
  BY DEF LiveInv
<1>1. /\ UNCHANGED <<kind, tape, up, pc, at, pos, exitBar, lastMark, rows, left, exitRow, cycled, log>>
      /\ ~apart /\ ~full
  BY DEF vars
<1>2. Now' = Now /\ Replay' = Replay /\ Base' = Base /\ Told' = Told /\ Cooldowns' = Cooldowns /\ (Grounded => Grounded') /\ Here' = Here
  BY <1>1, SameTape DEF Cooldowns, Here
<1>3. pc' = "over" => Over'
  BY <1>1, <1>2 DEF LiveInv, Over
<1>4. View' = View
  BY <1>1, <1>2 DEF View
<1>5. ASSUME Beside PROVE Beside'
  <2>1. Finished' <=> Finished
    BY <1>1, <1>2 DEF Finished
  <2>2. up => InMemory'
    BY <1>1, <1>2, <1>5, <2>1 DEF Beside, InMemory, SeenAt
  <2>3. Steps => Steps'
    BY <1>1, <1>2, <1>4 DEF Steps, Come, ComeLate, ExitsDone, EntriesDone
  <2>4. (Done => Done') /\ (Pending => Pending')
    BY <1>1, <1>2, <2>3 DEF Done, Pending
  <2> QED BY <1>1, <1>5, <2>1, <2>2, <2>4 DEF Beside
<1> QED BY <1>1, <1>3, <1>5 DEF LiveInv

LEMMA LiveStep ==
  ASSUME KillAt \subseteq {"idle", "exits", "entries", "twin"}, TypeInv, TypeInv', ReplayInv, [Next]_vars
  PROVE  LiveInv'
<1>1. "exitbar" \notin KillAt
  OBVIOUS
<1>2. ASSUME FetchFails \/ ExitUnfilled \/ EntryUnfilled PROVE LiveInv'
  BY <1>2 DEF FetchFails, ExitUnfilled, EntryUnfilled, LiveInv
<1> QED BY <1>1, <1>2, AsNewBar, AsStarts, AsStaysIn, AsCloses, AsSetExitBar, AsNoEntry, AsEnters, AsTwin, AsWrites, AsKills,
           AsStartup, AsFlattens, AsStutters DEF Next, ReplayInv

-----------------------------------------------------------------------------
(* None of the symbols that S0 has come to asks any more.                  *)
LEMMA AsksOf ==
  ASSUME NEW h, NEW g, NEW e, NEW f, NEW s, NEW b, NEW r, g[s].side = h[s].side, f[s] = e[s]
  PROVE  Asks(g, f, s, b, r) <=> Asks(h, e, s, b, r)
BY DEF Asks, Ready

LEMMA ServedOn ==
  ASSUME TypeInv, pc = "entries", Advance("twin"), \A i \in 1..at : Unasked(Order[i])'
  PROVE  ServedInv'
<1>1. at \in 1..Len(Order) /\ Len(Order) \in Nat
  BY Facts
<1>2. CASE at = Len(Order)
  BY <1>1, <1>2 DEF Advance, ServedInv
<1>3. CASE at # Len(Order)
  <2>1. at' - 1 = at /\ pc' = "entries"
    BY <1>1, <1>3 DEF Advance
  <2>2. \A i \in 1..(at' - 1) : Unasked(Order[i])'
    BY <2>1
  <2> QED BY <2>1, <2>2 DEF ServedInv
<1> QED BY <1>2, <1>3

LEMMA ServedNoEntry ==
  ASSUME TypeInv, ReplayInv, NoEntry
  PROVE  ServedInv'
<1> SUFFICES ASSUME ~apart', ~full', kind = "minute" PROVE ServedInv'
  BY DEF ServedInv, NoEntry
<1>1. /\ pc = "entries" /\ Advance("twin") /\ ~apart /\ ~full /\ Unasked(Here)
      /\ UNCHANGED <<kind, tape, pos, exitBar>>
  BY DEF NoEntry, Memory, Unasked
<1>2. at \in 1..Len(Order) /\ Here = Order[at]
  BY Facts
<1>3. \A i \in 1..at : Unasked(Order[i])
  <2>1. \A i \in 1..(at - 1) : Unasked(Order[i])
    BY <1>1 DEF ReplayInv, ServedInv
  <2>2. \A i \in 1..at : i = at \/ i \in 1..(at - 1)
    BY <1>2
  <2> QED BY <1>1, <1>2, <2>1, <2>2
<1>4. \A s : Unasked(s)' <=> Unasked(s)
  BY <1>1 DEF Unasked, Now, Said
<1> QED BY <1>1, <1>3, <1>4, ServedOn

LEMMA ServedEnters ==
  ASSUME TypeInv, ReplayInv, Enters
  PROVE  ServedInv'
<1> SUFFICES ASSUME ~apart', ~full', kind = "minute" PROVE ServedInv'
  BY DEF ServedInv, Enters
<1>1. /\ pc = "entries" /\ Advance("twin") /\ ~apart /\ ~full /\ Said(Here).entry # "none"
      /\ pos' = [pos EXCEPT ![Here] = Opened(Said(Here).entry, Now)]
      /\ UNCHANGED <<kind, tape, exitBar>>
  BY DEF Enters, Firing, Fires, Asks
<1>2. at \in 1..Len(Order) /\ Here = Order[at] /\ Here \in Symbols /\ pos \in [Symbols -> Place] /\ \A i \in 1..Len(Order) : Order[i] \in Symbols
  BY Facts, Places DEF Lists
<1> SUFFICES ASSUME NEW CONSTANT i \in 1..at PROVE Unasked(Order[i])'
  BY <1>1, ServedOn
<1>3. CASE Order[i] = Here
  <2>1. pos'[Here].side # "none"
    BY <1>1, <1>2 DEF Opened
  <2>2. ~Asks(pos', exitBar', Order[i], Now', Said(Order[i])')
    BY <1>3, <2>1 DEF Asks, Ready
  <2> QED BY <2>2 DEF Unasked
<1>4. CASE Order[i] # Here
  <2>1. i \in 1..(at - 1) /\ Order[i] \in Symbols
    BY <1>2, <1>4
  <2>2. Unasked(Order[i])
    BY <1>1, <2>1 DEF ReplayInv, ServedInv
  <2>3. pos'[Order[i]] = pos[Order[i]]
    BY <1>1, <1>2, <1>4, <2>1
  <2>4. Now' = Now /\ Said(Order[i])' = Said(Order[i])
    BY <1>1 DEF Now, Said
  <2>5. ~Asks(pos', exitBar', Order[i], Now', Said(Order[i])')
    BY <1>1, <2>2, <2>3, <2>4, AsksOf DEF Unasked
  <2> QED BY <2>5 DEF Unasked
<1> QED BY <1>3, <1>4

LEMMA ServedStep ==
  ASSUME TypeInv, ReplayInv, [Next]_vars
  PROVE  ServedInv'
<1>1. ASSUME ExitStays \/ ExitCloses \/ SetExitBar PROVE ServedInv'
  <2>1. pc' # "twin" /\ (pc' = "entries" => at' = 1)
    BY <1>1 DEF ExitStays, ExitCloses, SetExitBar, Advance
  <2>2. \A i \in 1..(1 - 1) : FALSE
    OBVIOUS
  <2> QED BY <2>1, <2>2 DEF ServedInv
<1>2. ASSUME EntryUnfilled \/ ExitUnfilled \/ FetchFails PROVE ServedInv'
  BY <1>2 DEF EntryUnfilled, ExitUnfilled, FetchFails, ServedInv
<1>3. ASSUME NewBar \/ StartCycle \/ TwinCycle \/ WriteCycle \/ Kill \/ Flatten PROVE ServedInv'
  <2>1. pc' \notin {"entries", "twin"}
    BY <1>3 DEF NewBar, StartCycle, TwinCycle, WriteCycle, Kill, Flatten
  <2> QED BY <2>1 DEF ServedInv
<1>4. ASSUME Startup PROVE ServedInv'
  <2>1. apart' = (apart \/ cycled < lastMark') /\ ~up /\ pc' = pc
    BY <1>4 DEF Startup
  <2>2. apart \/ pc = "idle"
    BY <2>1 DEF ReplayInv, TwinInv, Marks
  <2> QED BY <2>1, <2>2 DEF ServedInv
<1>5. ASSUME UNCHANGED vars PROVE ServedInv'
  BY <1>5 DEF ReplayInv, ServedInv, vars, Unasked, Now, Said
<1> QED BY <1>1, <1>2, <1>3, <1>4, <1>5, ServedNoEntry, ServedEnters DEF Next

-----------------------------------------------------------------------------
(* The twin, whatever the slots.                                           *)
LEMMA Grounds ==
  ASSUME TypeInv, Marks, ~Finished, pc # "over"
  PROVE  Grounded
<1>1. Now \in Nat /\ tape \in Seq(Readings) /\ Now = Len(tape) /\ lastMark \in Nat /\ cycled \in Nat /\ lastMark <= Now /\ cycled <= Now
  BY Facts DEF Now
<1>2. Now >= 1
  <2>1. pc \in {"idle", "exits", "exitbar", "entries", "twin", "write", "over"}
    BY DEF TypeInv, CycleInv, Types, Parts
  <2>2. ASSUME pc = "idle" PROVE Now >= 1
    BY <1>1, <2>2 DEF Finished
  <2>3. ASSUME pc \in {"exits", "exitbar", "entries", "twin"} PROVE Now >= 1
    BY <1>1, <2>3 DEF Marks
  <2> QED BY <2>1, <2>2, <2>3 DEF Finished
<1>3. Now - 1 \in 0..Len(tape)
  BY <1>1, <1>2
<1>4. ReplayTo(kind, tape)[Now - 1] \in State /\ Fresh(ReplayTo(kind, tape)[Now - 1], Now - 1)
  BY <1>1, <1>3, ReplayFits
<1> QED BY <1>2, <1>4 DEF Grounded, Base

LEMMA TwinNewBar ==
  ASSUME TypeInv, TwinInv, NewBar
  PROVE  TwinInv'
<1> SUFFICES ASSUME ~apart' PROVE Marks' /\ ~Finished' /\ TwinAt(Now - 1)' /\ pc' # "over"
  BY DEF TwinInv
<1>1. PICK r \in Readings : tape' = Append(tape, r)
  BY DEF NewBar
<1>2. /\ pc = "idle" /\ pc' = "idle" /\ ~apart /\ ~((IF up THEN lastMark ELSE cycled) < Now)
      /\ UNCHANGED <<kind, up, lastMark, tw, cycled, trows, tlog>>
  BY DEF NewBar, Memory, Store
<1>3. (IF up THEN lastMark ELSE cycled) = Now
  BY <1>2, Facts
<1>4. Marks /\ TwinAt(Now)
  BY <1>2, <1>3 DEF TwinInv, Finished
<1>5. tape \in Seq(Readings) /\ Now \in Nat /\ Now' = Now + 1 /\ Now' - 1 = Now
  BY <1>1, Facts, AppendProperties DEF Now
<1>6. ReplayTo(kind', tape')[Now' - 1] = ReplayTo(kind, tape)[Now]
  <2>1. ReplayTo(kind, Append(tape, r))[Now] = ReplayTo(kind, tape)[Now]
    BY <1>5, ReplayGrows DEF Now
  <2> QED BY <1>1, <1>2, <1>5, <2>1
<1>7. ~Finished'
  BY <1>2, <1>3, <1>5 DEF Finished
<1>8. TwinAt(Now - 1)'
  BY <1>2, <1>4, <1>5, <1>6 DEF TwinAt
<1>9. Marks'
  BY <1>2, <1>4 DEF Marks
<1> QED BY <1>2, <1>7, <1>8, <1>9

(* A mark begins and the sleeve takes its symbols.                         *)
LEMMA TwinWaits ==
  ASSUME TypeInv, TwinInv, StartCycle \/ ExitStays \/ ExitCloses \/ SetExitBar \/ NoEntry \/ Enters
  PROVE  TwinInv'
<1> SUFFICES ASSUME ~apart' PROVE Marks' /\ ~Finished' /\ TwinAt(Now - 1)' /\ pc' # "over"
  BY DEF TwinInv
<1>1. ~apart /\ UNCHANGED <<kind, tape, up, tw, cycled, trows, tlog>> /\ Now' = Now
  BY DEF StartCycle, ExitStays, ExitCloses, SetExitBar, NoEntry, Enters, Memory, Store, Now
<1>2. pc' \in {"exits", "exitbar", "entries", "twin"}
  BY DEF StartCycle, ExitStays, ExitCloses, SetExitBar, NoEntry, Enters, Advance
<1>3. Marks /\ pc # "over" /\ ~Finished
  BY <1>1, Facts DEF TwinInv, StartCycle, ExitStays, ExitCloses, SetExitBar, NoEntry, Enters, Finished
<1>4. lastMark' = Now /\ cycled < Now /\ up
  <2>1. CASE StartCycle
    BY <1>1, <1>3, <2>1 DEF StartCycle, Marks
  <2>2. CASE ~StartCycle
    <3>1. pc \in {"exits", "exitbar", "entries"} /\ lastMark' = lastMark
      BY <2>2 DEF ExitStays, ExitCloses, SetExitBar, NoEntry, Enters, Memory
    <3> QED BY <1>3, <3>1 DEF Marks
  <2> QED BY <2>1, <2>2
<1>5. TwinAt(Now - 1)'
  BY <1>1, <1>3, TwinStays DEF TwinInv
<1> QED BY <1>1, <1>2, <1>4, <1>5 DEF Marks, Finished

LEMMA TwinCycles ==
  ASSUME TypeInv, TypeInv', TwinInv, TwinCycle
  PROVE  TwinInv'
<1> SUFFICES ASSUME ~apart' PROVE Marks' /\ Finished' /\ TwinAt(Now)' /\ pc' # "over"
  BY DEF TwinInv
<1> DEFINE t == TwinStep(Base.tw, Told, Now)
           tr == TwinTrades(Base.tw, Told, Now)
<1>1. /\ pc = "twin" /\ pc' = "write" /\ ~apart
      /\ tw' = TwinStep(tw, Told, Now) /\ trows' = tw'.pos /\ tlog' = tlog \cup TwinTrades(tw, Told, Now)
      /\ UNCHANGED <<kind, tape, up, lastMark>>
  BY DEF TwinCycle, Told
<1>2. up /\ ~Finished /\ Marks /\ TwinAt(Now - 1)
  BY <1>1 DEF Finished, TwinInv, TypeInv, CycleInv, Running, Parts
<1>3. Grounded
  BY <1>1, <1>2, Grounds
<1>4. TwinFits(t) /\ TwinStep(tw, Told, Now).pos = t.pos /\ TwinTrades(tw, Told, Now) = tr
  BY <1>2, <1>3, TwinOfBase
<1>5. Replay.tw = t /\ Replay.tlog = Base.tlog \cup tr
  BY <1>3, BarDone DEF BarMade
<1> HIDE DEF t, tr
<1>6. Replay' = Replay /\ Now' = Now
  BY <1>1, SameTape
<1>7. Base.tlog = tlog
  BY <1>2 DEF TwinAt, Base
<1>8. ReplayTo(kind', tape')[Now'] = Replay
  BY <1>1, <1>6 DEF Replay, Now
<1>9. \A s \in Symbols : t.drawn[s] <= Now /\ t.pos[s].last <= Now
  BY <1>4 DEF TwinFits, Held, Aged
<1>10. \A s \in Symbols : tw'.drawn[s] <= Now
  BY <1>6 DEF TypeInv, Twins, TwinFits
<1>11. TwinAt(Now)'
  BY <1>1, <1>4, <1>5, <1>6, <1>7, <1>8, <1>9, <1>10 DEF TwinAt
<1> QED BY <1>1, <1>2, <1>6, <1>11 DEF Marks, Finished

LEMMA TwinWrites ==
  ASSUME TypeInv, TwinInv, WriteCycle
  PROVE  TwinInv'
<1> SUFFICES ASSUME ~apart' PROVE Marks' /\ Finished' /\ TwinAt(Now)' /\ pc' # "over"
  BY DEF TwinInv
<1>1. /\ pc = "write" /\ pc' = "idle" /\ cycled' = lastMark /\ ~apart
      /\ UNCHANGED <<kind, tape, up, lastMark, tw, trows, tlog>>
  BY DEF WriteCycle, Memory
<1>2. up /\ Marks /\ TwinAt(Now) /\ lastMark = Now /\ Now' = Now
  BY <1>1 DEF Finished, TwinInv, Marks, Now
<1>3. TwinAt(Now)'
  BY <1>1, <1>2, TwinStays
<1> QED BY <1>1, <1>2, <1>3 DEF Marks, Finished

LEMMA TwinKilled ==
  ASSUME KillAt \subseteq {"idle", "exits", "entries", "twin"}, TypeInv, TwinInv, Kill
  PROVE  TwinInv'
<1> SUFFICES ASSUME ~apart' PROVE Marks' /\ (Finished' => TwinAt(Now)') /\ (~Finished' => TwinAt(Now - 1)') /\ pc' # "over"
  BY DEF TwinInv
<1>1. /\ up /\ pc \in {"idle", "exits", "entries", "twin"} /\ up' = FALSE /\ pc' = "idle" /\ ~apart
      /\ UNCHANGED <<kind, tape, cycled, trows, tlog>> /\ Now' = Now
  BY DEF Kill, Store, Now
<1>2. Marks /\ (Finished => TwinAt(Now)) /\ (~Finished => TwinAt(Now - 1)) /\ cycled \in Nat /\ Now \in Nat
  BY <1>1, Facts DEF TwinInv
<1>3. Finished' <=> Finished
  BY <1>1, <1>2 DEF Finished, Marks
<1>4. Marks'
  BY <1>1 DEF Marks
<1> QED BY <1>1, <1>2, <1>3, <1>4, TwinStays

LEMMA TwinRestored ==
  ASSUME TypeInv, TwinInv, Startup
  PROVE  TwinInv'
<1> SUFFICES ASSUME ~apart' PROVE Marks' /\ (Finished' => TwinAt(Now)') /\ (~Finished' => TwinAt(Now - 1)') /\ pc' # "over"
  BY DEF TwinInv
<1>1. /\ ~up /\ up' = TRUE /\ ~apart /\ tw' = RestoredTwin
      /\ UNCHANGED <<kind, tape, pc, cycled, trows, tlog>> /\ Now' = Now
  BY DEF Startup, Store, Now
<1>2. Marks /\ pc = "idle" /\ (Finished => TwinAt(Now)) /\ (~Finished => TwinAt(Now - 1))
  BY <1>1 DEF TwinInv, Marks
<1>3. lastMark' = cycled
  BY Resumes
<1>4. Marks' /\ (Finished' <=> Finished)
  BY <1>1, <1>2, <1>3 DEF Marks, Finished
<1>5. tw'.pos = trows /\ \A s \in Symbols : tw'.drawn[s] = trows[s].last
  BY <1>1 DEF RestoredTwin
<1>6. (TwinAt(Now) => TwinAt(Now)') /\ (TwinAt(Now - 1) => TwinAt(Now - 1)')
  BY <1>1, <1>5 DEF TwinAt
<1> QED BY <1>1, <1>2, <1>4, <1>6

LEMMA TwinReplayed ==
  ASSUME TwinAt(Now), up
  PROVE  tw.pos = Replay.tw.pos /\ tlog = Replay.tlog
<1>1. ReplayTo(kind, tape)[Now] = Replay
  BY DEF Replay, Now
<1> QED BY <1>1 DEF TwinAt

LEMMA TwinFlattens ==
  ASSUME TypeInv, TwinInv, Flatten
  PROVE  TwinInv'
<1> SUFFICES ASSUME ~apart' PROVE Marks' /\ TwinOver' /\ pc' = "over"
  BY DEF TwinInv
<1>1. /\ up /\ pc = "idle" /\ pc' = "over" /\ ~apart /\ ~(lastMark < Now)
      /\ tlog' = tlog \cup Flattened(tw.pos, Now)
      /\ UNCHANGED <<kind, tape, up>>
  BY DEF Flatten
<1>2. TwinAt(Now)
  BY <1>1, Facts DEF Finished, TwinInv
<1>3. tw.pos = Replay.tw.pos /\ tlog = Replay.tlog
  BY <1>1, <1>2, TwinReplayed
<1>4. Now' = Now /\ Replay' = Replay
  BY <1>1, SameTape
<1>5. TwinOver'
  BY <1>1, <1>3, <1>4 DEF TwinOver
<1> QED BY <1>1, <1>5 DEF Marks

LEMMA TwinStutters == ASSUME TwinInv, UNCHANGED vars PROVE TwinInv'
<1>1. UNCHANGED <<kind, tape, up, pc, lastMark, cycled, tw, trows, tlog, apart>> /\ Now' = Now /\ Replay' = Replay
  BY SameTape DEF vars
<1>2. (TwinAt(Now - 1) => TwinAt(Now - 1)') /\ (TwinAt(Now) => TwinAt(Now)')
  BY <1>1, TwinStays
<1>3. (Marks => Marks') /\ (Finished' <=> Finished) /\ (TwinOver => TwinOver')
  BY <1>1 DEF Marks, Finished, TwinOver
<1> QED BY <1>1, <1>2, <1>3 DEF TwinInv

LEMMA TwinInvStep ==
  ASSUME KillAt \subseteq {"idle", "exits", "entries", "twin"}, TypeInv, TypeInv', TwinInv, [Next]_vars
  PROVE  TwinInv'
<1>1. ASSUME FetchFails \/ ExitUnfilled \/ EntryUnfilled PROVE TwinInv'
  BY <1>1 DEF FetchFails, ExitUnfilled, EntryUnfilled, TwinInv
<1> QED BY <1>1, TwinNewBar, TwinWaits, TwinCycles, TwinWrites, TwinKilled, TwinRestored, TwinFlattens, TwinStutters DEF Next

-----------------------------------------------------------------------------
(* CycleReplayed: as long as every mark was run, every fetch answered and   *)
(* every order filled, the twin has made exactly the trades of the twin in  *)
(* the replay of the same bars; and as long, besides, as S0 had a slot for  *)
(* every symbol that asked for one, the live sleeve has made exactly the    *)
(* trades of the replay and holds the same positions: for every list of     *)
(* symbols, in whatever order the replay takes them, and every reading of   *)
(* every bar, however often the process was killed and restarted, but for   *)
(* a kill between the two writes of a bar sleeve's exit or between the      *)
(* twin's trades and the cycles row (engine.py and sleeve.py run_cycle,     *)
(* adopt and _rebuild_cooldowns, twin.py, against replay and replay_bars).  *)
THEOREM CycleReplayed ==
  ASSUME KillAt \subseteq {"idle", "exits", "entries", "twin"}
  PROVE  Spec => []AsReplayed
<1>1. Init => TypeInv /\ ReplayInv
  BY TypeInit, AsInit
<1>2. TypeInv /\ ReplayInv /\ [Next]_vars => TypeInv' /\ ReplayInv'
  <2> SUFFICES ASSUME TypeInv, ReplayInv, [Next]_vars PROVE TypeInv' /\ ReplayInv'
    OBVIOUS
  <2>1. TypeInv'
    BY TypeStep
  <2>2. TwinInv'
    BY <2>1, TwinInvStep DEF ReplayInv
  <2>3. LiveInv'
    BY <2>1, LiveStep
  <2>4. ServedInv'
    BY ServedStep
  <2> QED BY <2>1, <2>2, <2>3, <2>4 DEF ReplayInv
<1>3. TypeInv /\ ReplayInv => AsReplayed
  <2> SUFFICES ASSUME TypeInv, ReplayInv PROVE AsReplayed
    OBVIOUS
  <2>1. ASSUME MarkDone PROVE tw.pos = Replay.tw.pos /\ tlog = Replay.tlog
    <3>1. up /\ TwinAt(Now)
      BY <2>1 DEF MarkDone, Finished, ReplayInv, TwinInv
    <3> QED BY <3>1, TwinReplayed
  <2>2. ASSUME DayDone PROVE TwinOver
    BY <2>2 DEF DayDone, ReplayInv, TwinInv
  <2>3. TwinMirrors
    BY <2>1, <2>2 DEF TwinMirrors, TwinOver
  <2>4. ASSUME ~full, MarkDone PROVE pos = Replay.pos /\ log = Replay.log
    <3>1. up /\ Finished /\ ~apart /\ pc # "over"
      BY <2>4 DEF MarkDone, Finished
    <3>2. Done /\ InMemory
      BY <2>4, <3>1 DEF ReplayInv, LiveInv, Beside
    <3> QED BY <3>1, <3>2, AsReplay
  <2>5. ASSUME ~full, DayDone PROVE Over
    BY <2>5 DEF DayDone, ReplayInv, LiveInv
  <2> QED BY <2>3, <2>4, <2>5 DEF AsReplayed, ReplayMirrors, Over
<1> QED BY <1>1, <1>2, <1>3, PTL DEF Spec
=============================================================================
