-------------------------------- MODULE Sweep --------------------------------
(***************************************************************************)
(* The parameters of one sleeve and who writes them: the nightly sweep of  *)
(* the engine (chambers/sweep.py, run_bar_sweep in sleeve_replay.py), the  *)
(* same sweep started by hand (main.py --sweep), and the dashboard's form. *)
(*                                                                         *)
(* They share two tables, params and params_history, and each writes the   *)
(* first and then the second, in two commits.  The engine is killed at any *)
(* point and started again; what it knows beside the tables is the         *)
(* parameters it last loaded.  What a replay of the stored bars finds best *)
(* is any verdict.                                                         *)
(***************************************************************************)
EXTENDS Integers, Sequences, FiniteSetsExt, SequencesExt

CONSTANTS
  Order,        (* the grid's parameters, in the grid's order                *)
  Grid,         (* parameter -> its grid values, increasing                  *)
  Fitting,      (* the parameter values that keep the strategy's constraint  *)
  Config,       (* the values of config.yaml                                 *)
  Forms,        (* the values the operator saves                             *)
  Verdicts,     (* what a replay finds best; NoRow is too little evidence,   *)
                (* or no eligible combination                                *)
  MaxEdits, MaxCrashes, MaxFailures       (* bounds                          *)

NoRow  == [k \in {} |-> 0]
Keys   == {Order[i] : i \in DOMAIN Order}
Combos == {p \in [Keys -> UNION {{Grid[k][i] : i \in DOMAIN Grid[k]} : k \in Keys}] :
             /\ \A k \in Keys : \E i \in DOMAIN Grid[k] : p[k] = Grid[k][i]
             /\ p \in Fitting}

ASSUME GridAssumption ==
  /\ Order \in Seq(Keys)
  /\ \A k \in Keys :
       /\ Grid[k] \in Seq(Int) /\ Grid[k] # <<>>
       /\ \A i, j \in DOMAIN Grid[k] : i < j => Grid[k][i] < Grid[k][j]
  /\ DOMAIN Grid = Keys /\ Fitting \subseteq [Keys -> Int]
  /\ Config \in Fitting /\ Forms \subseteq Fitting
ASSUME VerdictAssumption == Verdicts \subseteq Combos \cup {NoRow}
ASSUME BoundsAssumption  == {MaxEdits, MaxCrashes, MaxFailures} \subseteq Nat

-----------------------------------------------------------------------------
(* nearest_index() and one_step().                                         *)

Distance(k, i, x) == IF Grid[k][i] >= x THEN Grid[k][i] - x ELSE x - Grid[k][i]
NearestIndex(k, x) ==
  CHOOSE i \in DOMAIN Grid[k] :
    \A j \in DOMAIN Grid[k] : /\ Distance(k, i, x) <= Distance(k, j, x)
                              /\ Distance(k, j, x) = Distance(k, i, x) => i <= j

AllTheWay(c, b) == b                    (* mutant *)
Short(c, b) == IF b > c + 1 THEN c + 1 ELSE IF b < c - 1 THEN c - 1 ELSE c     (* mutant *)
Toward(c, b) == IF b > c THEN c + 1 ELSE IF b < c THEN c - 1 ELSE c
StepOf(k, current, best) ==
  Grid[k][Toward(NearestIndex(k, current[k]), NearestIndex(k, best[k]))]

Stepped(current, best) == [k \in Keys |-> StepOf(k, current, best)]
Tried(p, k, x) == LET t == [p EXCEPT ![k] = x] IN IF t \in Fitting THEN t ELSE p
KeyByKey(current, best) ==
  FoldLeft(LAMBDA p, k : Tried(p, k, StepOf(k, current, best)), current, Order)
OneStep(current, best) ==
  IF Stepped(current, best) \in Fitting THEN Stepped(current, best) ELSE KeyByKey(current, best)

Chosen(current, verdict) == IF verdict = NoRow THEN current ELSE OneStep(current, verdict)

-----------------------------------------------------------------------------
VARIABLES
  params,      (* store: the params row, NoRow before the first              *)
  swept,       (* store: how many sweep rows params_history has of today     *)
  evening,     (* the session's last cycle is over                           *)
  engine,      (* down, up, eval, write, row, done                           *)
  loaded,      (* engine memory: the parameters in force                     *)
  chosen,      (* engine memory: what the sweep being run chose              *)
  hand,        (* the sweep by hand: none, check, write, row, done            *)
  handFrom, handTo,        (* its memory                                     *)
  form,        (* the save being made: the params row as it was read, or NoRow *)
  unseen,      (* history: someone else wrote params since the engine's load *)
  edits, crashes, failures (* how often, against the bounds                  *)

storeVars == <<params, swept, evening>>
engineVars == <<engine, loaded, chosen>>
handVars  == <<hand, handFrom, handTo>>
countVars == <<edits, crashes, failures>>
vars == <<storeVars, engineVars, handVars, form, unseen, countVars>>

Init ==
  /\ params = NoRow /\ swept = 0 /\ evening = FALSE
  /\ engine = "down" /\ loaded = NoRow /\ chosen = NoRow
  /\ hand = "none" /\ handFrom = NoRow /\ handTo = NoRow
  /\ form = NoRow /\ unseen = FALSE
  /\ edits = 0 /\ crashes = 0 /\ failures = 0

(* load_params(): the first one seeds the row from config.yaml.            *)
Load ==
  /\ params' = IF params = NoRow THEN Config ELSE params
  /\ loaded' = params'
  /\ unseen' = FALSE

Startup ==
  /\ engine = "down" /\ engine' = "up" /\ Load
  /\ UNCHANGED <<swept, evening, chosen, handVars, form, countVars>>

(* A cycle of the session loads the parameters it trades by.               *)
RunCycle ==
  /\ engine = "up" /\ ~evening /\ Load
  /\ UNCHANGED <<swept, evening, engine, chosen, handVars, form, countVars>>

Evening ==
  /\ ~evening /\ evening' = TRUE
  /\ UNCHANGED <<params, swept, engineVars, handVars, form, unseen, countVars>>

AlwaysFree == TRUE                      (* mutant *)
NotSwept   == swept = 0

(* At sweep_at.  `swept` is also asked for in run_sweep(), with nothing    *)
(* between; a sweep already recorded is skipped.                           *)
SweepDue ==
  /\ engine = "up" /\ evening
  /\ engine' = IF NotSwept THEN "eval" ELSE "done"
  /\ UNCHANGED <<storeVars, loaded, chosen, handVars, form, unseen, countVars>>

(* The grid is scored from the parameters in memory.                       *)
Evaluate ==
  /\ engine = "eval" /\ engine' = "write"
  /\ \E v \in Verdicts : chosen' = Chosen(loaded, v)
  /\ UNCHANGED <<storeVars, loaded, handVars, form, unseen, countVars>>

(* params is written only if it changes ...                                *)
WriteParams ==
  /\ engine = "write" /\ engine' = "row"
  /\ params' = IF chosen # loaded THEN chosen ELSE params
  /\ UNCHANGED <<swept, evening, loaded, chosen, handVars, form, unseen, countVars>>

(* ... the history always.                                                 *)
WriteHistory ==
  /\ engine = "row" /\ engine' = "done" /\ swept' = swept + 1
  /\ UNCHANGED <<params, evening, loaded, chosen, handVars, form, unseen, countVars>>

(* An exception in the sweep is logged; it is not tried again until the    *)
(* process is restarted.                                                   *)
SweepFails ==
  /\ engine \in {"eval", "write", "row"} /\ engine' = "done"
  /\ failures < MaxFailures /\ failures' = failures + 1
  /\ UNCHANGED <<storeVars, loaded, chosen, handVars, form, unseen, edits, crashes>>

Crash ==
  /\ engine # "down" /\ engine' = "down" /\ loaded' = NoRow /\ chosen' = NoRow
  /\ crashes < MaxCrashes /\ crashes' = crashes + 1
  /\ UNCHANGED <<storeVars, handVars, form, unseen, edits, failures>>

(* The next session day begins with the preopen's load.                    *)
NewDay ==
  /\ evening /\ engine \in {"done", "down"} /\ hand \in {"none", "done"} /\ form = NoRow
  /\ evening' = FALSE /\ swept' = 0 /\ hand' = "none" /\ handFrom' = NoRow /\ handTo' = NoRow
  /\ IF engine = "done" THEN engine' = "up" /\ Load ELSE UNCHANGED <<engine, params, loaded, unseen>>
  /\ chosen' = NoRow
  /\ UNCHANGED <<form, countVars>>

-----------------------------------------------------------------------------
(* --sweep, in a process of its own: it starts from the params row.        *)
HandStarts ==
  /\ hand = "none" /\ evening
  /\ handFrom' = IF params = NoRow THEN Config ELSE params
  /\ hand' = "check"
  /\ UNCHANGED <<storeVars, engineVars, handTo, form, unseen, countVars>>

HandEvaluates ==
  /\ hand = "check"
  /\ IF NotSwept
     THEN hand' = "write" /\ \E v \in Verdicts : handTo' = Chosen(handFrom, v)
     ELSE hand' = "done" /\ UNCHANGED handTo
  /\ UNCHANGED <<storeVars, engineVars, handFrom, form, unseen, countVars>>

HandWritesParams ==
  /\ hand = "write" /\ hand' = "row"
  /\ params' = IF handTo # handFrom THEN handTo ELSE params
  /\ unseen' = (unseen \/ handTo # handFrom)
  /\ UNCHANGED <<swept, evening, engineVars, handFrom, handTo, form, countVars>>

HandWritesHistory ==
  /\ hand = "row" /\ hand' = "done" /\ swept' = swept + 1
  /\ UNCHANGED <<params, evening, engineVars, handFrom, handTo, form, unseen, countVars>>

AnyForm(p)    == TRUE                   (* mutant *)
Acceptable(p) == p \in Fitting

(* The form: what it leaves out is taken from the row as read before, and  *)
(* the whole is saved.  Its history row is no sweep row.                   *)
ReadForm ==
  /\ form = NoRow /\ params # NoRow /\ edits < MaxEdits
  /\ form' = params
  /\ UNCHANGED <<storeVars, engineVars, handVars, unseen, countVars>>

SaveForm ==
  /\ form # NoRow /\ form' = NoRow
  /\ \E f \in Forms, ks \in SUBSET Keys :
       LET saved == [k \in Keys |-> IF k \in ks THEN f[k] ELSE form[k]]
       IN  ks # {} /\ Acceptable(saved) /\ params' = saved
  /\ unseen' = TRUE /\ edits' = edits + 1
  /\ UNCHANGED <<swept, evening, engineVars, handVars, crashes, failures>>

-----------------------------------------------------------------------------
Engine == Startup \/ RunCycle \/ SweepDue \/ Evaluate \/ WriteParams \/ WriteHistory
Hand   == HandStarts \/ HandEvaluates \/ HandWritesParams \/ HandWritesHistory
Next   == Engine \/ SweepFails \/ Crash \/ Evening \/ NewDay \/ Hand \/ ReadForm \/ SaveForm

Spec == Init /\ [][Next]_vars

(* launchd starts the engine, it goes on, a save or a sweep begun by hand  *)
(* ends, and evenings and days come.                                       *)
FairSpec ==
  /\ Spec /\ WF_vars(Evening) /\ WF_vars(NewDay) /\ WF_vars(Startup) /\ WF_vars(SweepDue)
  /\ WF_vars(SaveForm) /\ WF_vars(Evaluate) /\ WF_vars(WriteParams) /\ WF_vars(WriteHistory)
  /\ WF_vars(HandEvaluates \/ HandWritesParams \/ HandWritesHistory)

-----------------------------------------------------------------------------
Rows == Fitting \cup {NoRow}

TypeOK ==
  /\ params \in Rows /\ swept \in Nat /\ evening \in BOOLEAN
  /\ engine \in {"down", "up", "eval", "write", "row", "done"}
  /\ loaded \in Rows /\ chosen \in Rows
  /\ hand \in {"none", "check", "write", "row", "done"} /\ handFrom \in Rows /\ handTo \in Rows
  /\ form \in Rows /\ unseen \in BOOLEAN
  /\ edits \in 0..MaxEdits /\ crashes \in 0..MaxCrashes /\ failures \in 0..MaxFailures

Near(p, q) ==
  \A k \in Keys : NearestIndex(k, p[k]) - NearestIndex(k, q[k]) \in {-1, 0, 1}

(* The parameters in memory are a combination that fits, and so is what is *)
(* chosen, a step from them at most; while nobody else has written params  *)
(* since, the row is what was loaded.                                      *)
InMemory ==
  /\ engine # "down" => loaded \in Fitting
  /\ engine \in {"write", "row"} => chosen \in Fitting /\ Near(chosen, loaded)
  /\ hand \in {"check", "write"} => handFrom \in Fitting
  /\ hand = "write" => handTo \in Fitting
Bounded == form # NoRow => edits < MaxEdits
AsLoaded == ~unseen /\ engine \in {"up", "eval", "write"} => params = loaded

(* SweptOnce (PHASE0_SPEC section 10.8, "At most one sweep per session     *)
(* date"): params_history never has two sweep rows of a date, whenever the *)
(* engine is killed and started again, unless a sweep started by hand      *)
(* found none and goes on.                                                 *)
SweptOnce == hand \in {"none", "check"} => swept <= 1

(* SweepsFromLatest: a sweep of the engine that changes params moves them  *)
(* at most one grid step from the row it replaces, if nobody else wrote    *)
(* that row after the engine's last load; also after a restart.            *)
SweepsFromLatest ==
  [][engine = "write" /\ engine' = "row" /\ ~unseen => Near(params', params)]_vars

(* Settles: a sleeve whose replays go on finding one combination best ends *)
(* up with it, whatever the operator saved before, however often the       *)
(* engine is killed, and also if sweeps are run by hand beside its own.    *)
Finds(b) ==
  [][/\ engine = "eval" /\ engine' = "write" => chosen' = OneStep(loaded, b)
     /\ hand = "check" /\ hand' = "write" => handTo' = OneStep(handFrom, b)]_vars
Settles == \A b \in Verdicts \ {NoRow} : <>Finds(b) => <>[](params = b)
==============================================================================
