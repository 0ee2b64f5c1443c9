---------------------------- MODULE SleeveRules ----------------------------
(***************************************************************************)
(* What one sleeve promises about a session, whatever its process does:    *)
(* which symbols it holds, since which bar, and when it may take them      *)
(* again.  There is no process, no restart and no database here: Cycle is  *)
(* the program, and it implements this specification.                      *)
(***************************************************************************)
EXTENDS Naturals, FiniteSets

CONSTANTS
  Symbols,    \* the symbols of the sleeve
  Bars,       \* the bars of the session
  EntriesEnd, \* the last bar on which an entry is allowed
  Cooldown,   \* reentry_cooldown_bars
  Slots       \* max_open_positions (S0)

VARIABLES
  kind,  \* "minute" (S0: slots) or "bar" (S1: one position a side)
  bar,   \* the bars completed so far
  held,  \* held[s]: Out, or the side and the bar of the entry
  left   \* left[s]: the bar of the last exit, 0 before the first

vars == <<kind, bar, held, left>>

Sides == {"long", "short"}
Out == [side |-> "none", entry |-> 0]

Init ==
  /\ kind \in {"minute", "bar"}
  /\ bar = 0
  /\ held = [s \in Symbols |-> Out]
  /\ left = [s \in Symbols |-> 0]

Tick == bar < Bars /\ bar' = bar + 1 /\ UNCHANGED <<kind, held, left>>

\* The sleeve has room for one more position on this side.
Room(s, side) ==
  IF kind = "minute" THEN Cardinality({q \in Symbols : held[q] # Out}) < Slots
  ELSE \A q \in Symbols \ {s} : held[q].side # side

\* A symbol is entered on a bar of the entry window, once the bars of its
\* cooldown have passed since it was left, and while there is room.
Enter(s, side) ==
  /\ bar \in 1..EntriesEnd
  /\ held[s] = Out
  /\ left[s] # 0 => bar - left[s] >= Cooldown
  /\ Room(s, side)
  /\ held' = [held EXCEPT ![s] = [side |-> side, entry |-> bar]]
  /\ UNCHANGED <<kind, bar, left>>

\* A symbol is left on a later bar than the one it was entered on.
Leave(s) ==
  /\ held[s] # Out
  /\ held[s].entry < bar
  /\ held' = [held EXCEPT ![s] = Out]
  /\ left' = [left EXCEPT ![s] = bar]
  /\ UNCHANGED <<kind, bar>>

\* After the last bar the whole sleeve is flattened.
Flatten ==
  /\ bar = Bars
  /\ held' = [s \in Symbols |-> Out]
  /\ left' = [s \in Symbols |-> IF held[s] # Out THEN bar ELSE left[s]]
  /\ UNCHANGED <<kind, bar>>

Next ==
  \/ Tick
  \/ \E s \in Symbols : Leave(s) \/ \E side \in Sides : Enter(s, side)
  \/ Flatten

Spec == Init /\ [][Next]_vars
=============================================================================
