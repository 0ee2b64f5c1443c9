------------------------------- MODULE MCP100 -------------------------------
EXTENDS P100

Sig(symbol, side, in, out, stop, worth) ==
  [symbol |-> symbol, side |-> side, in |-> in, out |-> out, stop |-> stop, worth |-> worth]

MCSleeves == <<"S0", "S1">>
MCInverse == [s \in {"SPY"} |-> "SH"]
\* Two halves of the account, the second while the first is open, and a third
\* that finds no cash; a short and the fund itself at once, with a loss; a short
\* nobody can express, and an exit at the moment of an entry.
MCDaySignals == {
  <<Sig("SPY", "long", 1, 3, 2, 110), Sig("AMD", "long", 2, 4, 2, 90), Sig("AMD", "long", 3, 4, 2, 120)>>,
  <<Sig("SPY", "short", 1, 3, 3, 70), Sig("SH", "long", 2, 3, 1, 100)>>,
  <<Sig("AMD", "short", 1, 2, 1, 100), Sig("SPY", "long", 1, 2, 1, 120), Sig("AMD", "long", 2, 3, 1, 100)>>}
=============================================================================
