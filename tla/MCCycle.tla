------------------------------ MODULE MCCycle ------------------------------
EXTENDS Cycle

R(entry, out, stop, draw) == [entry |-> entry, out |-> out, stop |-> stop, draw |-> draw]

MCOrder == <<"b", "a">>
MCSorted == <<"a", "b">>
\* Both ask to enter on one side, beyond the stop of what was taken on it
\* before; then one of them turns against it while the other says nothing,
\* and the twin draws on its own.
MCReadings == {
  [s \in {"a", "b"} |-> R("long", {}, {"long"}, "long")],
  [a |-> R("none", {"short"}, {}, "short"), b |-> R("short", {"long"}, {}, "none")],
  [a |-> R("short", {"long"}, {}, "none"), b |-> R("none", {"short"}, {}, "short")]}
MCKillAt == {"idle", "exits", "entries", "twin"}
=============================================================================
