------------------------------- MODULE Cycle -------------------------------
(***************************************************************************)
(* One sleeve's decisions over a session, cycle by cycle: exits, entries   *)
(* and the random twin, what is kept in memory and what is in the          *)
(* database, kills and restarts, and beside it the replay of the same bars *)
(* that sweeps, the Lab and the daily comparison trust.                    *)
(*                                                                         *)
(* The strategies are data: what each says of a bar is a reading.          *)
(* Sizes, the risk gate and pauses (Risk), partly filled orders and the    *)
(* broker (Books) and the times of marks (Scheduler) are not here.         *)
(***************************************************************************)
EXTENDS Naturals, Sequences, FiniteSets, SequencesExt

CONSTANTS
  Order,      \* the sleeve's symbols, in the order they are evaluated
  Sorted,     \* the same in the order of bars_for_day (ORDER BY symbol)
  Readings,   \* what the strategy may say of a bar (see Reading)
  Bars,       \* the bars of the session
  EntriesEnd, \* the last bar on which entries are allowed
  MaxHold,    \* max_hold_bars
  Cooldown,   \* reentry_cooldown_bars
  Slots,      \* max_open_positions (S0)
  KillAt,     \* the places of the cycle where the process may be killed
  MaxFaults   \* bound: kills, failed fetches and unfilled orders in all

Symbols == ToSet(Order)
Sides == {"long", "short"}
Kinds == {"minute", "bar"}

\* For each symbol: the entry the strategy asks for, the sides whose exit rule
\* holds, those for which the bar is beyond the stop of a position entered
\* before it, and what the twin's draw for this symbol and bar comes to.
Reading == [Symbols -> [entry : Sides \cup {"none"}, out : SUBSET Sides, stop : SUBSET Sides,
                        draw : Sides \cup {"none"}]]

ASSUME OrderAssumption == Order \in Seq(Symbols) /\ Len(Order) > 0
ASSUME SortedAssumption == Sorted \in Seq(Symbols) /\ ToSet(Sorted) = Symbols
ASSUME ReadingsAssumption == Readings \subseteq Reading
ASSUME BoundsAssumption ==
  /\ Bars \in Nat /\ EntriesEnd \in Nat /\ EntriesEnd < Bars
  /\ MaxHold \in Nat \ {0} /\ Cooldown \in Nat /\ Slots \in Nat /\ MaxFaults \in Nat
\* The exit rule never holds for the side that the same bar asks to enter:
\* s1 needs z beyond the entry threshold for the one and past 0 for the
\* other, S0 a deviation beyond and below its threshold.
ASSUME ExitAssumption == \A r \in Readings, s \in Symbols : r[s].entry \notin r[s].out

VARIABLES
  kind,     \* the sleeve: "minute" (S0) or "bar" (S1)
  tape,     \* the readings of the bars completed so far
  up,       \* the process runs
  pc,       \* where it is in the cycle
  at,       \* the symbol it has come to
  pos,      \* memory: positions[s]
  exitBar,  \* memory: exit_bar_count / exit_bar_ts, 0 when absent
  lastMark, \* memory: the last mark begun; kept while the process is down, see Startup
  rows,     \* store: the open trade of each symbol
  left,     \* store: the bar at which the last closed trade of each symbol was closed
  exitRow,  \* store: the last exit_bar_ts of each symbol (bar sleeves)
  cycled,   \* store: the mark of the last cycles row
  log,      \* store: the closed trades
  tw,       \* memory: the twin's positions and last_draw
  trows,    \* store: the twin's open trades with their state_json
  tlog,     \* store: the twin's closed trades
  faults,   \* bound: faults so far
  apart,    \* history: a mark was missed, a fetch failed or an order did not fill
  full      \* history: S0 turned away a symbol that asked to enter, for want of a slot

Memory == <<pos, exitBar, lastMark, tw>>
Store == <<rows, left, exitRow, cycled, log, trows, tlog>>
vars == <<kind, tape, up, pc, at, pos, exitBar, lastMark, rows, left, exitRow, cycled, log,
          tw, trows, tlog, faults, apart, full>>

-----------------------------------------------------------------------------
(* The rules that the live cycle and the replay share.                     *)

NoPos == [side |-> "none", entry |-> 0, last |-> 0, age |-> 0]
NoRow == [side |-> "none", entry |-> 0]
NoTwin == [pos |-> [s \in Symbols |-> NoPos], drawn |-> [s \in Symbols |-> 0]]

Opened(side, b) == [side |-> side, entry |-> b, last |-> b, age |-> 0]

\* The position has seen one more bar, if it is a new one.
OnBar(p, b) == IF b > p.last THEN [p EXCEPT !.last = b, !.age = @ + 1] ELSE p

\* No order is filled beyond its own stop: the bar of the entry never stops it out.
StopHit(p, r) == p.side \in r.stop /\ p.entry < p.last

ExitReason(p, r) ==
  CASE p.side \in r.out -> "signal"
    [] p.side \notin r.out /\ StopHit(p, r) -> "stop_loss"
    [] p.side \notin r.out /\ ~StopHit(p, r) /\ p.age >= MaxHold -> "time_stop"
    [] OTHER -> "none"

Closed(s, p, b, why) == [s |-> s, side |-> p.side, in |-> p.entry, out |-> b, age |-> p.age, why |-> why]

\* evaluate / evaluate_entry: the gates before the strategy's own answer.
Ready(held, exits, s, b) ==
  /\ b <= EntriesEnd
  /\ held[s].side = "none"
  /\ exits[s] # 0 => b - exits[s] >= Cooldown

\* S0's slots, and the pair filter of a sleeve that takes one symbol a side.
Room(k, held, s, side) ==
  IF k = "minute" THEN Cardinality({q \in Symbols : held[q].side # "none"}) < Slots
  ELSE \A q \in Symbols \ {s} : held[q].side # side

Asks(held, exits, s, b, r) == Ready(held, exits, s, b) /\ r.entry # "none"
Fires(k, held, exits, s, b, r) == Asks(held, exits, s, b, r) /\ Room(k, held, s, r.entry)

-----------------------------------------------------------------------------
(* The twin: the same step in the live cycle and in the replay.            *)

\* Exits first: a symbol closed on a bar counts as drawn on it.
TwinLeaves(t, r, b) == {s \in Symbols : t.pos[s].side # "none" /\ ExitReason(OnBar(t.pos[s], b), r[s]) # "none"}
TwinTrades(t, r, b) ==
  {LET p == OnBar(t.pos[s], b) IN Closed(s, p, b, ExitReason(p, r[s])) : s \in TwinLeaves(t, r, b)}
TwinExits(t, r, b) ==
  [pos |-> [s \in Symbols |-> IF t.pos[s].side = "none" \/ s \in TwinLeaves(t, r, b) THEN NoPos
                              ELSE OnBar(t.pos[s], b)],
   drawn |-> [s \in Symbols |-> IF s \in TwinLeaves(t, r, b) /\ b > t.drawn[s] THEN b ELSE t.drawn[s]]]

\* Then one draw for each flat symbol on each new bar of the entry window.
TwinDraws(t, r, b) ==
  LET asked == {s \in Symbols : b <= EntriesEnd /\ t.pos[s].side = "none" /\ b > t.drawn[s]}
  IN  [pos |-> [s \in Symbols |-> IF s \in asked /\ r[s].draw # "none" THEN Opened(r[s].draw, b) ELSE t.pos[s]],
       drawn |-> [s \in Symbols |-> IF s \in asked THEN b ELSE t.drawn[s]]]

TwinStep(t, r, b) == TwinDraws(TwinExits(t, r, b), r, b)

Flattened(held, b) == {Closed(s, held[s], b, "eod_flatten") : s \in {q \in Symbols : held[q].side # "none"}}

-----------------------------------------------------------------------------
(* The replay of the bars so far.                                          *)

ReplayStart == [pos |-> NoTwin.pos, exit |-> [s \in Symbols |-> 0], log |-> {}, tw |-> NoTwin, tlog |-> {}]

ReplayExit(st, s, b, r) ==
  LET p == OnBar(st.pos[s], b) IN
  IF p.side = "none" THEN st
  ELSE IF ExitReason(p, r[s]) = "none" THEN [st EXCEPT !.pos[s] = p]
  ELSE [st EXCEPT !.pos[s] = NoPos, !.exit[s] = b, !.log = @ \cup {Closed(s, p, b, ExitReason(p, r[s]))}]

ReplayEntry(k, st, s, b, r) ==
  IF Fires(k, st.pos, st.exit, s, b, r[s]) THEN [st EXCEPT !.pos[s] = Opened(r[s].entry, b)] ELSE st

\* replay() takes the symbols as the day's bars were read, by name;
\* replay_bars() as the sleeve has them.
Turns(k) == IF k = "minute" THEN Sorted ELSE Order

ReplayBar(k, st, b, r) ==
  LET left1 == FoldLeft(LAMBDA a, s : ReplayExit(a, s, b, r), st, Turns(k))
      in1 == FoldLeft(LAMBDA a, s : ReplayEntry(k, a, s, b, r), left1, Turns(k))
  IN  [in1 EXCEPT !.tw = TwinStep(st.tw, r, b), !.tlog = @ \cup TwinTrades(st.tw, r, b)]

ReplayTo(k, bars) ==
  LET upTo[n \in 0..Len(bars)] == IF n = 0 THEN ReplayStart ELSE ReplayBar(k, upTo[n - 1], n, bars[n])
  IN  upTo

Replay == ReplayTo(kind, tape)[Len(tape)]

-----------------------------------------------------------------------------
(* The live cycle.                                                         *)

Now == Len(tape)
Said(s) == tape[Now][s]

Init ==
  /\ kind \in Kinds
  /\ tape = <<>> /\ up = TRUE /\ pc = "idle" /\ at = 1
  /\ pos = [s \in Symbols |-> NoPos] /\ exitBar = [s \in Symbols |-> 0] /\ lastMark = 0
  /\ rows = [s \in Symbols |-> NoRow] /\ left = [s \in Symbols |-> 0]
  /\ exitRow = [s \in Symbols |-> 0] /\ cycled = 0 /\ log = {}
  /\ tw = NoTwin /\ trows = NoTwin.pos /\ tlog = {}
  /\ faults = 0 /\ apart = FALSE /\ full = FALSE

\* A bar completes; a mark that nobody began by then is never run.
NewBar ==
  /\ pc = "idle" /\ Now < Bars
  /\ \E r \in Readings : tape' = Append(tape, r)
  /\ apart' = (apart \/ (IF up THEN lastMark ELSE cycled) < Now)
  /\ UNCHANGED <<kind, up, pc, at, faults, full, Memory, Store>>

\* plan: the newest mark is due; run_cycle begins with it.
StartCycle ==
  /\ up /\ pc = "idle" /\ lastMark < Now
  /\ lastMark' = Now /\ pc' = "exits" /\ at' = 1
  /\ UNCHANGED <<kind, tape, up, pos, exitBar, tw, faults, apart, full, Store>>

\* The bars cannot be fetched: no exits, no entries, no twin on this mark.
FetchFails ==
  /\ up /\ pc = "idle" /\ lastMark < Now /\ faults < MaxFaults
  /\ lastMark' = Now /\ pc' = "write" /\ faults' = faults + 1 /\ apart' = TRUE
  /\ UNCHANGED <<kind, tape, up, at, pos, exitBar, tw, full, Store>>

\* The loop over the symbols goes on, or gives way to the next part.
Advance(next) ==
  IF at = Len(Order) THEN at' = 1 /\ pc' = next ELSE at' = at + 1 /\ UNCHANGED pc

\* Mutant: A bar sleeve that counts the bars since the entry once more on every cycle.
CountedTwice(p) ==
  IF kind = "bar" THEN [p EXCEPT !.age = @ + (Now - p.entry), !.last = Now] ELSE OnBar(p, Now)

\* A bar sleeve counts every bar since the last it saw, S0 the newest one.
Counted(p) ==
  IF kind = "bar" THEN [p EXCEPT !.age = @ + (Now - p.last), !.last = Now] ELSE OnBar(p, Now)

Here == Order[at]
Due == pos[Here].side # "none" /\ ExitReason(Counted(pos[Here]), Said(Here)) # "none"

ExitStays ==
  /\ pc = "exits" /\ ~Due
  /\ pos' = IF pos[Here].side = "none" THEN pos ELSE [pos EXCEPT ![Here] = Counted(@)]
  /\ Advance("entries")
  /\ UNCHANGED <<kind, tape, up, exitBar, lastMark, tw, faults, apart, full, Store>>

\* close_position filled: the trade is closed in the store and forgotten.
\* S0 notes the exit bar at once, a bar sleeve commits it in a second write.
ExitCloses ==
  /\ pc = "exits" /\ Due
  /\ LET p == Counted(pos[Here]) IN log' = log \cup {Closed(Here, p, Now, ExitReason(p, Said(Here)))}
  /\ pos' = [pos EXCEPT ![Here] = NoPos]
  /\ rows' = [rows EXCEPT ![Here] = NoRow]
  /\ left' = [left EXCEPT ![Here] = Now]
  /\ IF kind = "minute" THEN exitBar' = [exitBar EXCEPT ![Here] = Now] /\ Advance("entries")
     ELSE pc' = "exitbar" /\ UNCHANGED <<at, exitBar>>
  /\ UNCHANGED <<kind, tape, up, lastMark, exitRow, cycled, tw, trows, tlog, faults, apart, full>>

SetExitBar ==
  /\ pc = "exitbar"
  /\ exitBar' = [exitBar EXCEPT ![Here] = Now]
  /\ exitRow' = [exitRow EXCEPT ![Here] = Now]
  /\ IF at = Len(Order) THEN at' = 1 /\ pc' = "entries" ELSE at' = at + 1 /\ pc' = "exits"
  /\ UNCHANGED <<kind, tape, up, pos, lastMark, rows, left, cycled, log, tw, trows, tlog, faults, apart, full>>

\* The exit order settles with nothing filled: the position stays.
ExitUnfilled ==
  /\ pc = "exits" /\ Due /\ faults < MaxFaults
  /\ pos' = [pos EXCEPT ![Here] = Counted(@)]
  /\ faults' = faults + 1 /\ apart' = TRUE
  /\ Advance("entries")
  /\ UNCHANGED <<kind, tape, up, exitBar, lastMark, tw, full, Store>>

Firing == Fires(kind, pos, exitBar, Here, Now, Said(Here))

NoEntry ==
  /\ pc = "entries" /\ ~Firing
  /\ full' = (full \/ (kind = "minute" /\ Asks(pos, exitBar, Here, Now, Said(Here))))
  /\ Advance("twin")
  /\ UNCHANGED <<kind, tape, up, faults, apart, Memory, Store>>

Enters ==
  /\ pc = "entries" /\ Firing
  /\ pos' = [pos EXCEPT ![Here] = Opened(Said(Here).entry, Now)]
  /\ rows' = [rows EXCEPT ![Here] = [side |-> Said(Here).entry, entry |-> Now]]
  /\ Advance("twin")
  /\ UNCHANGED <<kind, tape, up, exitBar, lastMark, left, exitRow, cycled, log, tw, trows, tlog, faults, apart, full>>

EntryUnfilled ==
  /\ pc = "entries" /\ Firing /\ faults < MaxFaults
  /\ faults' = faults + 1 /\ apart' = TRUE
  /\ Advance("twin")
  /\ UNCHANGED <<kind, tape, up, full, Memory, Store>>

TwinCycle ==
  /\ pc = "twin"
  /\ tw' = TwinStep(tw, tape[Now], Now)
  /\ trows' = tw'.pos
  /\ tlog' = tlog \cup TwinTrades(tw, tape[Now], Now)
  /\ pc' = "write"
  /\ UNCHANGED <<kind, tape, up, at, pos, exitBar, lastMark, rows, left, exitRow, cycled, log, faults, apart, full>>

WriteCycle ==
  /\ pc = "write"
  /\ cycled' = lastMark /\ pc' = "idle"
  /\ UNCHANGED <<kind, tape, up, at, rows, left, exitRow, log, trows, tlog, faults, apart, full, Memory>>

Kill ==
  /\ up /\ pc \in KillAt /\ faults < MaxFaults
  /\ up' = FALSE /\ pc' = "idle" /\ at' = 1 /\ faults' = faults + 1
  /\ pos' = [s \in Symbols |-> NoPos] /\ exitBar' = [s \in Symbols |-> 0] /\ tw' = NoTwin
  /\ UNCHANGED <<kind, tape, lastMark, apart, full, Store>>

\* Mutant: A restart that takes the stored positions without counting their bars again.
AdoptedYoung(row) ==
  IF row.side = "none" THEN NoPos
  ELSE [side |-> row.side, entry |-> row.entry, last |-> Now, age |-> 0]

\* adopt: the bars held are counted again from the bars after the entry.
Adopted(row) ==
  IF row.side = "none" THEN NoPos
  ELSE [side |-> row.side, entry |-> row.entry, last |-> Now, age |-> Now - row.entry]

\* Mutant: A restart that forgets the cooldowns of a bar sleeve.
CooldownsForgotten == IF kind = "minute" THEN left ELSE [s \in Symbols |-> 0]

\* S0 rebuilds its cooldowns from the day's closed trades, a bar sleeve reads them.
Cooldowns == IF kind = "minute" THEN left ELSE exitRow

\* restore: the open twin trades, each drawn up to the last bar it saw.
RestoredTwin == [pos |-> trows, drawn |-> [s \in Symbols |-> trows[s].last]]

\* A bar sleeve resumes after its last cycles row and may run the newest mark
\* again.  S0 runs the newest minute if it is up before its :05, which has
\* passed once the minute was begun, and does not catch up on it otherwise.
Resumed == IF kind = "bar" \/ lastMark < Now THEN {cycled} ELSE {}
PassedBy == IF kind = "minute" THEN {Now} ELSE {}

Startup ==
  /\ ~up
  /\ up' = TRUE
  /\ pos' = [s \in Symbols |-> Adopted(rows[s])]
  /\ exitBar' = Cooldowns
  /\ lastMark' \in Resumed \cup PassedBy
  /\ apart' = (apart \/ cycled < lastMark')
  /\ tw' = RestoredTwin
  /\ UNCHANGED <<kind, tape, pc, at, faults, full, Store>>

\* The end-of-day flatten of the sleeve and of its twin.
Flatten ==
  /\ up /\ pc = "idle" /\ Now = Bars
  /\ apart' = (apart \/ lastMark < Now)
  /\ log' = log \cup Flattened(pos, Now)
  /\ LET gone == {s \in Symbols : pos[s].side # "none"} IN
       /\ left' = [s \in Symbols |-> IF s \in gone THEN Now ELSE left[s]]
       /\ exitBar' = [s \in Symbols |-> IF s \in gone THEN Now ELSE exitBar[s]]
       /\ exitRow' = [s \in Symbols |-> IF s \in gone /\ kind = "bar" THEN Now ELSE exitRow[s]]
  /\ pos' = [s \in Symbols |-> NoPos] /\ rows' = [s \in Symbols |-> NoRow]
  /\ tlog' = tlog \cup Flattened(tw.pos, Now)
  /\ tw' = [tw EXCEPT !.pos = NoTwin.pos] /\ trows' = NoTwin.pos
  /\ pc' = "over"
  /\ UNCHANGED <<kind, tape, up, at, lastMark, cycled, faults, full>>

Next ==
  \/ NewBar \/ StartCycle \/ FetchFails
  \/ ExitStays \/ ExitCloses \/ SetExitBar \/ ExitUnfilled
  \/ NoEntry \/ Enters \/ EntryUnfilled
  \/ TwinCycle \/ WriteCycle
  \/ Kill \/ Startup \/ Flatten

Spec == Init /\ [][Next]_vars

-----------------------------------------------------------------------------
(* Properties                                                              *)

PosType == [side : Sides \cup {"none"}, entry : 0..Bars, last : 0..Bars, age : 0..Bars]
ExitType == [Symbols -> 0..Bars]
TradeType == [s : Symbols, side : Sides, in : 1..Bars, out : 1..Bars, age : 0..Bars,
              why : {"signal", "stop_loss", "time_stop", "eod_flatten"}]

\* The type invariant; the bars a position has counted never exceed the bars
\* there were, whatever was missed and recounted (engine.py Position.on_bar).
TypeOK ==
  /\ kind \in Kinds /\ {up, apart, full} \subseteq BOOLEAN
  /\ pc \in {"idle", "exits", "exitbar", "entries", "twin", "write", "over"}
  /\ tape \in Seq(Readings) /\ Now <= Bars /\ at \in 1..Len(Order) /\ faults \in 0..MaxFaults
  /\ pos \in [Symbols -> PosType] /\ \A s \in Symbols : pos[s].age <= Now - pos[s].entry
  /\ exitBar \in ExitType /\ left \in ExitType /\ exitRow \in ExitType
  /\ lastMark \in 0..Now /\ cycled \in 0..Now
  /\ rows \in [Symbols -> [side : Sides \cup {"none"}, entry : 0..Bars]]
  /\ log \subseteq TradeType /\ tlog \subseteq TradeType
  /\ tw.pos \in [Symbols -> PosType] /\ tw.drawn \in ExitType /\ trows \in [Symbols -> PosType]

MarkDone == up /\ ~apart /\ pc = "idle" /\ lastMark = Now
DayDone == ~apart /\ pc = "over"

\* ReplayMirrors (replay.py, "Mirrors Engine.run_cycle"): as long as every
\* mark was run, every fetch answered and every order filled, the live sleeve
\* has made the trades of the replay of the same bars and holds the same.
ReplayMirrors ==
  /\ MarkDone => pos = Replay.pos /\ log = Replay.log
  /\ DayDone => log = Replay.log \cup Flattened(Replay.pos, Now)
TwinMirrors ==
  /\ MarkDone => tw.pos = Replay.tw.pos /\ tlog = Replay.tlog
  /\ DayDone => tlog = Replay.tlog \cup Flattened(Replay.tw.pos, Now)

\* As long, besides, as S0 had a slot for every symbol that asked for one, the
\* live trades are exactly those of the replay (same sides, entry and exit
\* bars, bars held and reasons) and so are the positions: in whatever order
\* the two take the symbols, and however often the process was killed and
\* restarted, with what it keeps in memory rebuilt from the store (run_cycle,
\* adopt and _rebuild_cooldowns against replay and replay_bars).  The same of
\* the twin (twin.py 12-15), slots or not: the seed, the draw probability and
\* the bars give the same twin trades however the day was restarted.
AsReplayed == (~full => ReplayMirrors) /\ TwinMirrors

\* Whatever is missed, fails or is killed, the trades in the store obey the
\* rules of the sleeve: a symbol is left on a later bar than it was entered,
\* taken again only after its whole cooldown, and never beyond the slots or
\* the pair filter.
Rules == INSTANCE SleeveRules WITH bar <- Now, held <- rows
FollowsRules == Rules!Spec

=============================================================================
