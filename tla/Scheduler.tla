------------------------------ MODULE Scheduler ------------------------------
(***************************************************************************)
(* The one loop that runs every sleeve (chambers/scheduler.py), and what   *)
(* S0 (Engine.plan) and the session sleeves (BarSleeve.plan) and the       *)
(* morning brief (MorningBrief.plan) answer when it asks them what is due. *)
(*                                                                         *)
(* A tick reads the clock once, asks every runner in order with that one   *)
(* reading, waits for the earliest answer and runs its action.  A plan may *)
(* itself work (preopen, flatten, sweep), and all work takes time: Busy    *)
(* bounds what one plan or one action takes.  The process may stop between *)
(* any two steps; the cycles rows, the sweep rows, the record of the brief *)
(* and the dashboard's flatten request survive.                            *)
(*                                                                         *)
(* Time runs from 0 to Horizon within a session day, in units of which     *)
(* Minute make a minute; :05 of each minute is Offset units into it.  What *)
(* a cycle, a flatten or a sweep does is in other modules.                 *)
(***************************************************************************)
EXTENDS Integers, Sequences, FiniteSets, FiniteSetsExt, Functions

CONSTANTS
  Runners,               (* the sleeves in list order, S0 first, then the brief *)
  Brief,                 (* the morning brief's runner                       *)
  Marks,                 (* decision marks of each session sleeve            *)
  Intraday,              (* sleeves with eod_flatten                         *)
  Minute, Offset,        (* a minute, and CYCLE_OFFSET_S                     *)
  Late,                  (* LATE_CYCLE_S                                     *)
  PreopenAt, OpenAt, FlattenAt, CloseAt, SweepAt,       (* the Session       *)
  BriefAt, LateBrief,    (* 8:45, and open + LATE_BRIEF                      *)
  Recheck,               (* how long a runner with nothing to do sleeps      *)
  Retry,                 (* PLAN_RETRY_S                                     *)
  Horizon,               (* bound: the end of the day                        *)
  Busy,                  (* bound: the longest work of a plan or an action   *)
  MaxCrashes, MaxRaises, MaxRequests,                   (* bounds            *)
  Reachable              (* whether messages get through, one value a day    *)

All     == Range(Runners)
Sleeves == All \ {Brief}
S0      == Runners[1]
Bars    == Sleeves \ {S0}
None    == -1                      (* no mark, no row, no backoff            *)

ASSUME RunnersAssumption ==
  /\ Runners \in Seq(All) /\ Runners # <<>> /\ IsInjective(Runners)
  /\ Brief = Runners[Len(Runners)] /\ Brief # S0
  /\ Intraday \subseteq Sleeves /\ S0 \in Intraday
  /\ Marks \in [Bars -> SUBSET (OpenAt..FlattenAt)]
ASSUME SessionAssumption ==
  /\ Minute \in Nat \ {0} /\ Offset \in 0..(Minute - 1) /\ Late \in 1..Minute
  /\ {PreopenAt, OpenAt, FlattenAt, CloseAt, SweepAt, BriefAt, LateBrief} \subseteq Nat
  /\ OpenAt % Minute = 0 /\ FlattenAt % Minute = 0
  /\ PreopenAt < OpenAt /\ OpenAt < FlattenAt /\ FlattenAt < CloseAt /\ CloseAt < SweepAt
  /\ SweepAt < Horizon /\ BriefAt < OpenAt /\ OpenAt < LateBrief
ASSUME BoundsAssumption ==
  /\ {Recheck, Retry, Busy} \subseteq Nat \ {0} /\ Horizon \in Nat
  /\ {MaxCrashes, MaxRaises, MaxRequests} \subseteq Nat /\ Reachable \subseteq BOOLEAN

VARIABLES
  now,         (* the clock                                                  *)
  reachable,   (* whether the brief gets through today                       *)
  pc,          (* down, tick, serve, plan, wait, act or cycle                *)
  at,          (* the clock reading the current tick's plans were asked with *)
  asked,       (* how many runners the current tick has asked                *)
  best,        (* the earliest answer so far: [when, who, act, mark]         *)
  backoff,     (* runner -> not before                                       *)
  preopened, flattened, swept,   (* memory: sleeves done with it today       *)
  lastMark,    (* memory: the mark of each sleeve's last cycle               *)
  cycleAt,     (* memory: when the cycle being run began                     *)
  startedAt,   (* memory: when the process started, 0 if before today        *)
  rows,        (* store: the time of each session sleeve's last cycles row   *)
  sweepRows,   (* store: sleeves whose sweep of today is recorded            *)
  sent,        (* store: today's brief is recorded as sent                   *)
  request,     (* store: the dashboard's flatten request                     *)
  begun,       (* history: the marks whose cycle began today, per sleeve     *)
  recorded,    (* history: the marks whose cycle has its row                 *)
  crashes, raises, requests      (* how often, against the bounds            *)

clockVars  == <<now, reachable>>
tickVars   == <<pc, at, asked, best>>
memoryVars == <<backoff, preopened, flattened, swept, lastMark, cycleAt, startedAt>>
storeVars  == <<rows, sweepRows, sent, request>>
countVars  == <<begun, recorded, crashes, raises, requests>>
vars == <<clockVars, tickVars, memoryVars, storeVars, countVars>>

NoAnswer == [when |-> Horizon, who |-> S0, act |-> "none", mark |-> None]

(* Work that begins now and takes at most Busy.                            *)
Takes == now' \in {t \in now..(now + Busy) : t <= Horizon}

NoMemory ==
  /\ backoff' = [r \in All |-> None]
  /\ preopened' = {} /\ flattened' = {} /\ swept' = {} /\ cycleAt' = None

Init ==
  /\ now = 0 /\ reachable \in Reachable
  /\ pc = "down" /\ at = 0 /\ asked = 0 /\ best = NoAnswer
  /\ backoff = [r \in All |-> None]
  /\ preopened = {} /\ flattened = {} /\ swept = {}
  /\ lastMark = [sl \in Sleeves |-> None] /\ cycleAt = None /\ startedAt = None
  /\ rows = [sl \in Bars |-> None] /\ sweepRows = {} /\ sent = FALSE /\ request = FALSE
  /\ begun = [sl \in Sleeves |-> {}] /\ recorded = [sl \in Bars |-> {}]
  /\ crashes = 0 /\ raises = 0 /\ requests = 0

-----------------------------------------------------------------------------
(* What a runner answers when it is asked at time t.                       *)

Answer(w)      == [when |-> w, act |-> "none", mark |-> None, does |-> "nothing", missed |-> None]
Cycle(w, m)    == [when |-> w, act |-> "cycle", mark |-> m, does |-> "nothing", missed |-> None]
Does(w, what)  == [when |-> w, act |-> "none", mark |-> None, does |-> what, missed |-> None]

MarkOf(t)   == t - (t % Minute) + Offset          (* hh:mm:05 of t's minute    *)
MinuteAfter(t) == MarkOf(t) + Minute    (* mutant *)
NextMark(t) == IF MarkOf(t) > t THEN MarkOf(t) ELSE MarkOf(t) + Minute

(* S0's overdue minute, if the minute before it ran.                       *)
NoCatchUp(t) == FALSE                   (* mutant *)
CatchUp(t) ==
  LET mark == MarkOf(t)
  IN  /\ mark <= t /\ OpenAt <= mark /\ mark < FlattenAt
      /\ lastMark[S0] # None /\ mark - lastMark[S0] = Minute
      /\ t - mark < Late

NotLate(sl, t)    == t \in FlattenAt..(SweepAt - 1) /\ sl \notin flattened (* mutant *)
FlattenDue(sl, t) == t >= FlattenAt /\ sl \notin flattened

OnlyLate(t) == IF CatchUp(t) THEN Cycle(t, MarkOf(t)) ELSE Answer(NextMark(t))   (* mutant *)
MinutePlan(t) ==
  CASE CatchUp(t)                              -> Cycle(t, MarkOf(t))
    [] ~CatchUp(t) /\ NextMark(t) >= FlattenAt -> Answer(FlattenAt)
    [] OTHER                                   -> Cycle(NextMark(t), NextMark(t))

S0Plan(t) ==
  CASE t >= SweepAt /\ S0 \in swept   -> Answer(t + Recheck)
    [] t < PreopenAt                  -> Answer(PreopenAt)
    [] t \in PreopenAt..(OpenAt - 1)  -> Answer(OpenAt)
    [] t \in OpenAt..(FlattenAt - 1)  -> MinutePlan(t)
    [] FlattenDue(S0, t) /\ ~(t >= SweepAt /\ S0 \in swept) -> Does(t, "flatten")
    [] t \in FlattenAt..(SweepAt - 1) /\ S0 \in flattened -> Answer(SweepAt)
    [] OTHER                          -> Does(t, "sweep")

(* A session sleeve's newest mark that is due; it is run unless the next   *)
(* mark or the close has come, and then counts as missed.                  *)
DueMarks(sl, t) == {m \in Marks[sl] : m <= t /\ m > lastMark[sl]}
Limit(sl, m)    == Min({x \in Marks[sl] : x > m} \cup {CloseAt})

(* When nothing is due: the next mark, the flatten, the sweep.            *)
AtLeisure(sl, t) ==
  IF t < SweepAt THEN Answer(SweepAt)
  ELSE IF sl \in swept THEN Answer(t + Recheck) ELSE Does(t, "sweep")
NextWork(sl, t) ==
  LET nxt == {m \in Marks[sl] : m > t}
  IN  CASE nxt # {} -> Cycle(Min(nxt), Min(nxt))
        [] nxt = {} /\ sl \in Intraday /\ t < FlattenAt -> Answer(FlattenAt)
        [] OTHER -> AtLeisure(sl, t)

BarPlan(sl, t) ==
  LET due    == DueMarks(sl, t)
      m      == Max(due)
      rest   == IF sl \in Intraday /\ FlattenDue(sl, t) THEN Does(t, "flatten") ELSE NextWork(sl, t)
  IN  CASE t < PreopenAt -> Answer(PreopenAt)
        [] t >= PreopenAt /\ due # {} /\ t < Limit(sl, m) -> Cycle(t, m)
        [] OTHER -> IF due # {} THEN [rest EXCEPT !.missed = m] ELSE rest

BriefPlan(t) ==
  CASE ~sent /\ t < BriefAt             -> Answer(BriefAt)
    [] ~sent /\ t \in BriefAt..(LateBrief - 1) ->
         [when |-> t, act |-> "brief", mark |-> None, does |-> "nothing", missed |-> None]
    [] OTHER                            -> Answer(t + Recheck)

Plan(r, t) == CASE r = S0    -> S0Plan(t)
                [] r = Brief -> BriefPlan(t)
                [] OTHER     -> BarPlan(r, t)

(* A plan first opens the day of its sleeve.                               *)
EveryTick(r, t) == t >= PreopenAt /\ t < CloseAt     (* mutant *)
PreopenDue(r, t) ==
  /\ r \in Sleeves \ preopened /\ t >= PreopenAt
  /\ t < IF r = S0 THEN FlattenAt ELSE CloseAt

-----------------------------------------------------------------------------
(* The loop.                                                               *)

NotCleared   == UNCHANGED request       (* mutant *)
ClearRequest == request' = FALSE

(* A tick, or a pause in the wait, finds the flatten request: it is        *)
(* cleared, and then every sleeve flattens.                                *)
FindRequest ==
  /\ pc \in {"tick", "wait"} /\ request /\ now < Horizon
  /\ ClearRequest
  /\ pc' = "serve"
  /\ UNCHANGED <<clockVars, at, asked, best, memoryVars, rows, sweepRows, sent, countVars>>

ServeRequest ==
  /\ pc = "serve" /\ pc' = "tick" /\ Takes
  /\ UNCHANGED <<reachable, at, asked, best, memoryVars, storeVars, countVars>>

Tick ==
  /\ pc = "tick" /\ ~request /\ now < Horizon
  /\ pc' = "plan" /\ at' = now /\ asked' = 0 /\ best' = NoAnswer
  /\ UNCHANGED <<clockVars, memoryVars, storeVars, countVars>>

(* min() over (when, index): a later runner wins only if it is earlier.    *)
Better(r, a) ==
  IF asked = 0 \/ a.when < best.when
  THEN [when |-> a.when, who |-> r, act |-> a.act, mark |-> a.mark] ELSE best

Asked(r, a) ==
  /\ best' = Better(r, a)
  /\ asked' = asked + 1
  /\ pc' = IF asked' = Len(Runners) THEN "wait" ELSE "plan"

AnyBackoff(r) == backoff[r] # None      (* mutant: never asked again *)
InBackoff(r)  == at < backoff[r]

BackedOff ==
  LET r == Runners[asked + 1]
  IN  /\ pc = "plan" /\ InBackoff(r)
      /\ Asked(r, Answer(backoff[r]))
      /\ UNCHANGED <<clockVars, at, memoryVars, storeVars, countVars>>

Raises == raises < MaxRaises /\ raises' = raises + 1

(* The plan raises (the calendar cannot be read): the runner is left alone *)
(* for PLAN_RETRY_S.                                                       *)
PlanRaises ==
  LET r == Runners[asked + 1]
  IN  /\ pc = "plan" /\ ~InBackoff(r)
      /\ Raises
      /\ backoff' = [backoff EXCEPT ![r] = at + Retry]
      /\ Asked(r, Answer(at + Retry))
      /\ UNCHANGED <<clockVars, at, preopened, flattened, swept, lastMark, cycleAt,
                     startedAt, storeVars, begun, recorded, crashes, requests>>

(* A sweep is run only if the store has no row of it; one that fails is    *)
(* logged and not tried again by this process.                             *)
Ask ==
  LET r == Runners[asked + 1]
      a == Plan(r, at)
  IN  /\ pc = "plan" /\ ~InBackoff(r)
      /\ Asked(r, a)
      /\ preopened' = IF PreopenDue(r, at) THEN preopened \cup {r} ELSE preopened
      /\ flattened' = IF a.does = "flatten" THEN flattened \cup {r} ELSE flattened
      /\ swept'     = IF a.does = "sweep" THEN swept \cup {r} ELSE swept
      /\ \/ /\ UNCHANGED raises
            /\ sweepRows' = IF a.does = "sweep" THEN sweepRows \cup {r} ELSE sweepRows
         \/ Raises /\ a.does = "sweep" /\ r \notin sweepRows /\ UNCHANGED sweepRows
      /\ lastMark'  = IF a.missed # None THEN [lastMark EXCEPT ![r] = a.missed] ELSE lastMark
      /\ IF PreopenDue(r, at) \/ a.does # "nothing" THEN Takes ELSE UNCHANGED now
      /\ UNCHANGED <<reachable, at, backoff, cycleAt, startedAt, rows, sent, request,
                     begun, recorded, crashes, requests>>

Wait ==
  /\ pc = "wait" /\ ~request /\ now < best.when /\ now < Horizon
  /\ now' = now + 1
  /\ UNCHANGED <<reachable, tickVars, memoryVars, storeVars, countVars>>

WaitOver ==
  /\ pc = "wait" /\ now >= best.when
  /\ pc' = IF best.act = "none" THEN "tick" ELSE "act"
  /\ UNCHANGED <<clockVars, at, asked, best, memoryVars, storeVars, countVars>>

(* run_cycle(): S0 takes the minute it finds on the clock for its mark.    *)
MarkRun == IF best.who = S0 THEN MarkOf(now) ELSE best.mark
Remembers == lastMark' = [lastMark EXCEPT ![best.who] = MarkRun]

BeginCycle ==
  /\ pc = "act" /\ best.act = "cycle"
  /\ Remembers
  /\ begun' = [begun EXCEPT ![best.who] = @ \cup {MarkRun}]
  /\ cycleAt' = now /\ pc' = "cycle"
  /\ UNCHANGED <<clockVars, at, asked, best, backoff, preopened, flattened, swept,
                 startedAt, storeVars, recorded, crashes, raises, requests>>

(* The cycles row is the last thing a cycle writes; failing to is logged.  *)
EndCycle ==
  /\ pc = "cycle" /\ Takes
  /\ \/ /\ rows' = IF best.who \in Bars THEN [rows EXCEPT ![best.who] = cycleAt] ELSE rows
        /\ recorded' = IF best.who \in Bars
                       THEN [recorded EXCEPT ![best.who] = @ \cup {best.mark}] ELSE recorded
        /\ UNCHANGED raises
     \/ Raises /\ UNCHANGED <<rows, recorded>>
  /\ cycleAt' = None /\ pc' = "tick"
  /\ UNCHANGED <<reachable, at, asked, best, backoff, preopened, flattened, swept, lastMark,
                 startedAt, sweepRows, sent, request, begun, crashes, requests>>

(* A brief that cannot be sent is recorded as failed; nothing is raised.   *)
(* Trying in vain takes time.                                              *)
SendBrief ==
  /\ pc = "act" /\ best.act = "brief" /\ Takes /\ (reachable \/ now' > now)
  /\ sent' = reachable /\ pc' = "tick"
  /\ UNCHANGED <<reachable, at, asked, best, memoryVars, rows, sweepRows, request, countVars>>

(* An action raises before it does anything (a session sleeve's cycle has  *)
(* noted its mark by then): its runner is left alone for PLAN_RETRY_S.     *)
ActionRaises ==
  /\ pc = "act" /\ Raises
  /\ backoff' = [backoff EXCEPT ![best.who] = now + Retry]
  /\ IF best.who \in Bars THEN Remembers ELSE UNCHANGED lastMark
  /\ pc' = "tick"
  /\ UNCHANGED <<clockVars, at, asked, best, preopened, flattened, swept, cycleAt, startedAt,
                 storeVars, begun, recorded, crashes, requests>>

-----------------------------------------------------------------------------
RequestFlatten ==
  /\ requests < MaxRequests /\ requests' = requests + 1
  /\ request' = TRUE
  /\ UNCHANGED <<clockVars, tickVars, memoryVars, rows, sweepRows, sent, begun, recorded, crashes, raises>>

Crash ==
  /\ pc # "down" /\ crashes < MaxCrashes /\ crashes' = crashes + 1
  /\ pc' = "down" /\ at' = 0 /\ asked' = 0 /\ best' = NoAnswer
  /\ NoMemory /\ lastMark' = [sl \in Sleeves |-> None] /\ startedAt' = None
  /\ UNCHANGED <<clockVars, storeVars, begun, recorded, raises, requests>>

Down ==
  /\ pc = "down" /\ now < Horizon /\ now' = now + 1
  /\ UNCHANGED <<reachable, tickVars, memoryVars, storeVars, countVars>>

(* A session sleeve counts every mark up to its last cycles row as done.   *)
Forgotten(sl) == None                   (* mutant *)
Restored(sl)  == rows[sl]

Startup ==
  /\ pc = "down" /\ now < Horizon /\ pc' = "tick" /\ Takes /\ startedAt' = now
  /\ lastMark' = [sl \in Sleeves |-> IF sl = S0 THEN None ELSE Restored(sl)]
  /\ UNCHANGED <<reachable, at, asked, best, backoff, preopened, flattened, swept, cycleAt,
                 storeVars, countVars>>

(* The next session day: what is kept by date or by time is of the past.   *)
NewDay ==
  /\ now = Horizon /\ pc \in {"tick", "wait", "down"}
  /\ now' = 0 /\ reachable' \in Reachable
  /\ pc' = IF pc = "down" THEN "down" ELSE "tick"
  /\ at' = 0 /\ asked' = 0 /\ best' = NoAnswer
  /\ NoMemory /\ lastMark' = [sl \in Sleeves |-> None]
  /\ startedAt' = IF pc = "down" THEN None ELSE 0
  /\ rows' = [sl \in Bars |-> None] /\ sweepRows' = {} /\ sent' = FALSE
  /\ begun' = [sl \in Sleeves |-> {}] /\ recorded' = [sl \in Bars |-> {}]
  /\ UNCHANGED <<request, crashes, raises, requests>>

Thread == FindRequest \/ ServeRequest \/ Tick \/ BackedOff \/ Ask \/ Wait \/ WaitOver
          \/ BeginCycle \/ EndCycle \/ SendBrief
Next == Thread \/ PlanRaises \/ ActionRaises \/ RequestFlatten \/ Crash \/ Down \/ Startup \/ NewDay

Spec == Init /\ [][Next]_vars

(* The loop goes on, launchd starts a stopped process, and days follow     *)
(* each other.                                                             *)
FairSpec == Spec /\ WF_vars(Thread) /\ SF_vars(Startup) /\ WF_vars(NewDay)

-----------------------------------------------------------------------------
Times == 0..Horizon

TypeOK ==
  /\ now \in Times /\ reachable \in BOOLEAN
  /\ pc \in {"down", "tick", "serve", "plan", "wait", "act", "cycle"}
  /\ at \in Times /\ asked \in 0..Len(Runners)
  /\ best \in [when : Nat, who : All, act : {"none", "cycle", "brief"}, mark : Nat \cup {None}]
  /\ backoff \in [All -> Nat \cup {None}]
  /\ preopened \subseteq Sleeves /\ flattened \subseteq Sleeves /\ swept \subseteq Sleeves
  /\ lastMark \in [Sleeves -> Nat \cup {None}]
  /\ {cycleAt, startedAt} \subseteq Times \cup {None}
  /\ rows \in [Bars -> Times \cup {None}] /\ sweepRows \subseteq Sleeves
  /\ sent \in BOOLEAN /\ request \in BOOLEAN
  /\ begun \in [Sleeves -> SUBSET Nat] /\ recorded \in [Bars -> SUBSET Nat]
  /\ crashes \in 0..MaxCrashes /\ raises \in 0..MaxRaises /\ requests \in 0..MaxRequests

Begins(sl) == pc = "act" /\ pc' = "cycle" /\ best.who = sl

(* RecordedOnce (BarSleeve.startup: "a decision mark is never run twice"): *)
(* across restarts, the cycle of a mark whose row was written never begins *)
(* again.  The row is written last, so a mark cut short by a kill does.    *)
RecordedOnce == [][\A sl \in Bars : Begins(sl) => best.mark \notin recorded[sl]]_vars

(* MarksInv: what makes RecordedOnce inductive.  The cycle a tick chose is *)
(* of a sleeve already asked, and of a mark after that sleeve's last; a    *)
(* mark begins no earlier than it is due, so that the row its cycle writes *)
(* is a time at or after it, and memory and store never fall behind a mark *)
(* that was recorded.                                                      *)
ChosenSound ==
  /\ best.act = "cycle" => /\ best.who \in Sleeves /\ best.mark \in Nat
                           /\ best.who \in Bars => best.mark <= best.when
  /\ best.act = "brief" => best.who = Brief
AskedSome ==
  /\ pc = "plan" => /\ asked < Len(Runners) /\ at <= now
                    /\ best.act = "cycle" => \E i \in 1..asked : best.who = Runners[i]
  /\ pc = "wait" => asked = Len(Runners)
ActDue ==
  /\ pc = "act" => best.act # "none" /\ best.when <= now
  /\ pc = "cycle" => best.act = "cycle" /\ cycleAt \in 0..now
MarkUnrun ==
  pc \in {"plan", "wait", "act"} /\ best.act = "cycle" /\ best.who \in Bars =>
    lastMark[best.who] < best.mark
MarkRunning ==
  pc = "cycle" /\ best.who \in Bars =>
    lastMark[best.who] = best.mark /\ best.mark <= cycleAt /\ rows[best.who] <= cycleAt
MarksPast ==
  \A sl \in Bars :
    /\ rows[sl] <= now
    /\ pc # "down" => lastMark[sl] <= IF pc = "plan" THEN at ELSE now
MarksKept ==
  \A sl \in Bars : \A m \in recorded[sl] :
    m <= rows[sl] /\ (pc # "down" => m <= lastMark[sl])
MarksInv ==
  ChosenSound /\ AskedSome /\ ActDue /\ MarkUnrun /\ MarkRunning /\ MarksPast /\ MarksKept

(* NeverOversleeps: the loop never waits past work a runner will have to   *)
(* do, whatever the other runners answered: a decision mark or minute to   *)
(* come, a preopen, a flatten or a sweep not done, a brief not sent.       *)
Minutes == {m \in OpenAt..(FlattenAt - 1) : m = MarkOf(m)}
Undone(sl) ==
  (IF sl = S0 THEN Minutes ELSE Marks[sl])
  \cup {PreopenAt : x \in {sl} \ preopened}
  \cup {FlattenAt : x \in ({sl} \cap Intraday) \ flattened}
  \cup {SweepAt : x \in {sl} \ swept}
NeverOversleeps ==
  pc = "wait" =>
    /\ \A sl \in Sleeves : ~InBackoff(sl) =>
         \A d \in Undone(sl) : d > at => best.when <= d
    /\ ~InBackoff(Brief) /\ ~sent /\ BriefAt > at => best.when <= BriefAt

(* AskedHeeded: what makes NeverOversleeps inductive.  The earliest answer *)
(* so far comes no later than the work of any runner asked so far.         *)
Heeded(r) ==
  ~InBackoff(r) =>
    IF r = Brief THEN ~sent /\ BriefAt > at => best.when <= BriefAt
    ELSE \A d \in Undone(r) : d > at => best.when <= d
AskedHeeded == pc \in {"plan", "wait"} => \A i \in 1..asked : Heeded(Runners[i])

(* NoMinuteLost (DECISIONS.md Step 2, "S0 loses no minute"): once S0 has   *)
(* run a minute after the one the process started in, it runs the next one *)
(* too, late if need be, whatever the other runners do in between.         *)
InSession(m) == OpenAt <= m /\ m < FlattenAt
NoMinuteLost ==
  pc # "down" =>
    \A m \in begun[S0] :
      m - Offset > startedAt /\ InSession(m + Minute) /\ now >= m - Offset + 2 * Minute
        => m + Minute \in begun[S0]

(* TimelyInv: what makes NoMinuteLost inductive where one piece of work    *)
(* and every request served one after the other fit into LATE_CYCLE_S.     *)
(* Until S0's next mark no other answer is earlier than S0's own; what is  *)
(* begun before that mark ends late by its own length at most, and by that *)
(* of the requests served after it; and then S0 is the first to be due.    *)
KeepsUp     == MaxRaises = 0 /\ (1 + MaxRequests) * Busy <= Late /\ Late <= Minute - Offset
Served      == requests - (IF request THEN 1 ELSE 0)
NoneBacksOff == \A r \in All : backoff[r] = None
Opened ==
  /\ pc \in {"plan", "wait", "act"} /\ best.who = S0 /\ best.act = "cycle" =>
       at \in OpenAt..(FlattenAt - 1)
  /\ pc = "plan" /\ at \in PreopenAt..(FlattenAt - 1) =>
       \A i \in 1..asked : Runners[i] \in preopened \cup {Brief}
  /\ pc \in {"wait", "act"} /\ at \in PreopenAt..(FlattenAt - 1) => Sleeves \subseteq preopened
  /\ lastMark[S0] # None => Sleeves \subseteq preopened
NextMinute  == lastMark[S0] + Minute
Awaited     == pc # "down" /\ lastMark[S0] # None /\ InSession(NextMinute)
LateBy(k)   == now < NextMinute + k * Busy
S0Leads     == IF at >= NextMinute THEN best.who = S0 /\ best.when = at
               ELSE best.when <= NextMinute /\ (best.who = S0 \/ best.when < NextMinute)
OnTime ==
  Awaited =>
    /\ pc \in {"serve", "cycle"} => LateBy(Served)
    /\ pc \notin {"serve", "cycle"} => LateBy(Served + 1)
    /\ pc = "plan" => now = at /\ (asked > 0 => S0Leads)
    /\ pc \in {"wait", "act"} => at <= now /\ (now = at \/ now <= best.when) /\ S0Leads
MinutesRun ==
  /\ lastMark[S0] # None => lastMark[S0] = MarkOf(lastMark[S0]) /\ lastMark[S0] - Offset <= now
  /\ \A m \in begun[S0] :
       /\ m - Offset <= now
       /\ pc # "down" /\ m - Offset > startedAt /\ InSession(m + Minute) =>
            lastMark[S0] # None /\ (m = lastMark[S0] \/ m + Minute \in begun[S0])
TimelyInv == Served >= 0 /\ NoneBacksOff /\ Opened /\ OnTime /\ MinutesRun

(* CyclesStart (README "Every minute at :05" from the open on): with the   *)
(* process up since the preopen and messages that can be sent (a brief     *)
(* that cannot answers "now" every tick), S0 has begun a cycle by the end  *)
(* of the session's second minute.                                         *)
CyclesStart ==
  startedAt \in 0..PreopenAt /\ now >= OpenAt + 2 * Minute => begun[S0] # {}

(* MorningInv: what makes CyclesStart inductive where messages can be sent,*)
(* no session sleeve has a mark before S0's second one, and the morning's  *)
(* work - the start, a preopen of each sleeve, the brief, a request - done *)
(* one after the other is over by the open.  Then nothing but S0 is due    *)
(* before that second mark, and only a request can take the first from it. *)
FirstMark   == OpenAt + Offset
SecondMark  == FirstMark + Minute
Morning     == IF PreopenAt < BriefAt THEN BriefAt ELSE PreopenAt
MorningFits ==
  /\ MaxRaises = 0 /\ MaxRequests <= 1 /\ Reachable = {TRUE}
  /\ Offset > 0 /\ Busy < Minute /\ OpenAt + 2 * Minute <= FlattenAt
  /\ \A sl \in Bars : \A m \in Marks[sl] : m >= SecondMark
  /\ Morning + (Cardinality(Sleeves) + 2 + MaxRequests) * Busy <= OpenAt
Jobs        == 1 + Cardinality(preopened) + (IF sent THEN 1 ELSE 0) + Served
Settled     == Sleeves \subseteq preopened /\ sent
Starting    == pc # "down" /\ startedAt \in 0..PreopenAt /\ begun[S0] = {}
InTime(t)   == t < FirstMark \/ (Served >= 1 /\ t < SecondMark)
Aim(t)      == IF t < PreopenAt THEN PreopenAt ELSE IF t < OpenAt THEN OpenAt
               ELSE IF t < FirstMark THEN FirstMark ELSE SecondMark
Led ==
  /\ best.act = "brief" => ~sent
  /\ best.act = "cycle" => best.who = S0
  /\ asked > 0 =>
       /\ best.when <= Aim(at)
       /\ best.when < Aim(at) \/ (at >= OpenAt => best.act = "cycle")
  /\ asked = Len(Runners) /\ ~sent => best.when <= BriefAt \/ best.when <= at
FirstCycleAhead ==
  Starting =>
    /\ pc # "cycle"
    /\ ~Settled => now <= Morning + (IF pc = "serve" THEN Jobs - 1 ELSE Jobs) * Busy
    /\ pc = "tick"  => InTime(now)
    /\ pc = "serve" => Served >= 1 /\ now <= FirstMark
    /\ pc \in {"plan", "wait", "act"} =>
         /\ InTime(at) /\ Led /\ (pc # "plan" => asked = Len(Runners))
         /\ at <= now /\ (now = at \/ now <= OpenAt \/ (pc # "plan" /\ now <= best.when))
MorningInv ==
  /\ Served >= 0 /\ NoneBacksOff /\ Opened /\ reachable
  /\ pc = "down" => startedAt = None /\ preopened = {}
  /\ FirstCycleAhead

(* SweepAfterFlatten: no intraday sleeve's parameters are swept before its *)
(* positions of the day are flattened, also after a restart that finds     *)
(* the close already past.                                                 *)
SweepAfterFlatten ==
  [][\A sl \in Intraday : sl \in sweepRows' \ sweepRows => sl \in flattened]_vars

(* RequestServed: a flatten request from the dashboard is taken up, also   *)
(* across restarts, however busy the runners are.                          *)
RequestServed == request ~> ~request

(* FlattensDaily: once nothing crashes or raises any more, every day's     *)
(* intraday positions are flattened.                                       *)
FlattensDaily == []<>(Intraday \subseteq flattened)
==============================================================================
