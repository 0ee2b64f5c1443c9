------------------------------- MODULE Alerts -------------------------------
(***************************************************************************)
(* The notifier's rate limit and the heartbeat watchdog: two processes     *)
(* that send alerts through Telegram and share nothing but the store's     *)
(* alerts and heartbeats.  The engine runs cycles, hangs or is killed, and *)
(* tells of its restarts; the watchdog is run once a minute and tells of   *)
(* the sleeves that miss their cycles.  Time counts minutes of a session.  *)
(***************************************************************************)
EXTENDS Integers, Sequences, FiniteSets, FiniteSetsExt

CONSTANTS
  Sleeves,
  Marks,     \* expected cycles of each sleeve
  RateLimit, \* RATE_LIMIT
  Stale,     \* STALE
  Back,      \* how far back the watchdog looks
  KillAt,    \* where the engine's process may be killed: "off", "check", "send", "record"
  Outcomes,  \* of a send: "sent", "failed", "unclear" (told, and yet an error)
  Horizon,   \* bound: minutes
  MaxKills   \* bound: kills

ASSUME AlertsAssumption ==
  /\ Marks \in [Sleeves -> SUBSET (1..Horizon)]
  /\ RateLimit \in Nat \ {0} /\ Stale \in Nat /\ Back \in Nat
  /\ KillAt \subseteq {"off", "check", "send", "record"}
  /\ Outcomes \subseteq {"sent", "failed", "unclear"}
  /\ Horizon \in Nat /\ MaxKills \in Nat
  /\ "engine_restart" \notin Sleeves

VARIABLES
  now,    \* the minute
  last,   \* store: last_cycle_ts of each sleeve, 0 for none
  up,     \* the engine's process runs
  proc,   \* each process: where it is in alert(), what it has to tell, its now
  ran,    \* the minute of the watchdog's newest run
  alerts, \* store: the alerts rows of each key
  told,   \* history: the moments Telegram delivered of each key
  kills   \* bound: kills so far

vars == <<now, last, up, proc, ran, alerts, told, kills>>

Processes == {"engine", "watchdog"}
Restarted == "engine_restart"
Keys == Sleeves \cup {Restarted}
Off == [pc |-> "off", todo |-> {}, key |-> Restarted, at |-> 0, status |-> "none"]

\* The process begins to tell of keys, with one reading of the clock.
Telling(keys) == IF keys = {} THEN Off ELSE [Off EXCEPT !.pc = "check", !.todo = keys, !.at = now]

Init ==
  /\ now = 0 /\ up = TRUE /\ ran = 0
  /\ last = [s \in Sleeves |-> 0]
  /\ proc = [p \in Processes |-> Off]
  /\ kills = 0
  /\ alerts = [k \in Keys |-> <<>>] /\ told = [k \in Keys |-> <<>>]

-----------------------------------------------------------------------------
(* Notifier.alert and send                                                 *)

\* Mutant: an alert that failed keeps the next one back.
CountsEvenFailed(status) == status \in {"sent", "failed"}

\* The statuses last_alert() looks for.  (disabled and dry_run count like sent.)
Counts(status) == status = "sent"

Counting(key) == {i \in DOMAIN alerts[key] : Counts(alerts[key][i].status)}

\* Mutant: only the newest row is looked at.
LastRowLimits(key, at) == Len(alerts[key]) \in Counting(key) /\ at - alerts[key][Len(alerts[key])].ts < RateLimit

\* Is the newest that counts too young?
Limited(key, at) == Counting(key) # {} /\ at - alerts[key][Max(Counting(key))].ts < RateLimit

\* write_alert
Written(p, key, status) == [alerts EXCEPT ![key] = Append(@, [ts |-> proc[p].at, status |-> status])]

\* The process is done with key.
AfterKey(p, key) ==
  LET rest == proc[p].todo \ {key}
  IN  IF rest = {} THEN Off ELSE [proc[p] EXCEPT !.pc = "check", !.todo = rest, !.status = "none"]

\* alert(): it is suppressed, or goes on to send.
Check(p) ==
  /\ proc[p].pc = "check"
  /\ \E key \in proc[p].todo :
       IF Limited(key, proc[p].at)
       THEN /\ alerts' = Written(p, key, "suppressed")
            /\ proc' = [proc EXCEPT ![p] = AfterKey(p, key)]
       ELSE /\ proc' = [proc EXCEPT ![p] = [@ EXCEPT !.pc = "send", !.key = key]]
            /\ UNCHANGED alerts
  /\ UNCHANGED <<now, last, up, ran, told, kills>>

\* send(): Telegram answers, refuses, or answers too late.
Send(p) ==
  /\ proc[p].pc = "send"
  /\ \E outcome \in Outcomes :
       /\ proc' = [proc EXCEPT ![p] = [@ EXCEPT !.pc = "record",
                                                !.status = IF outcome = "sent" THEN "sent" ELSE "failed"]]
       /\ told' = IF outcome = "failed" THEN told ELSE [told EXCEPT ![proc[p].key] = Append(@, proc[p].at)]
  /\ UNCHANGED <<now, last, up, ran, alerts, kills>>

\* send(): write_alert.
Record(p) ==
  /\ proc[p].pc = "record"
  /\ alerts' = Written(p, proc[p].key, proc[p].status)
  /\ proc' = [proc EXCEPT ![p] = AfterKey(p, proc[p].key)]
  /\ UNCHANGED <<now, last, up, ran, told, kills>>

-----------------------------------------------------------------------------
(* The watchdog                                                            *)

\* marks[-1]: the newest of the cycles that are due.
NewestDue(marks) == Max(marks)

\* expected_marks(sid, session, now - 2 h, now - STALE)
Expected(s) == {m \in Marks[s] : now - Back <= m /\ m < now - Stale}

StaleSleeves == {s \in Sleeves : Expected(s) # {} /\ last[s] < NewestDue(Expected(s))}

\* The timer's service: once a minute, and not before the last one is over.
RunWatchdog ==
  /\ proc["watchdog"].pc = "off" /\ ran < now
  /\ ran' = now
  /\ proc' = [proc EXCEPT !["watchdog"] = Telling(StaleSleeves)]
  /\ UNCHANGED <<now, last, up, alerts, told, kills>>

-----------------------------------------------------------------------------
(* The engine                                                              *)

\* A cycle of a sleeve, on time or late, or after some that were never run.
Cycle(s) ==
  /\ up /\ proc["engine"].pc = "off"
  /\ \E m \in Marks[s] : last[s] < m /\ m <= now
  /\ last' = [last EXCEPT ![s] = now]
  /\ UNCHANGED <<now, up, proc, ran, alerts, told, kills>>

Kill ==
  /\ up /\ kills < MaxKills /\ proc["engine"].pc \in KillAt
  /\ up' = FALSE /\ kills' = kills + 1
  /\ proc' = [proc EXCEPT !["engine"] = Off]
  /\ UNCHANGED <<now, last, ran, alerts, told>>

\* startup() during market hours: the alert goes before everything else.
Startup ==
  /\ ~up /\ up' = TRUE
  /\ proc' = [proc EXCEPT !["engine"] = Telling({Restarted})]
  /\ UNCHANGED <<now, last, ran, alerts, told, kills>>

\* The timer does not miss a minute; a run that takes long may cross one.
Tick ==
  /\ now < Horizon /\ ran = now
  /\ \A p \in Processes : proc[p].pc # "off" => now - proc[p].at < 1
  /\ now' = now + 1
  /\ UNCHANGED <<last, up, proc, ran, alerts, told, kills>>

Next ==
  \/ \E p \in Processes : Check(p) \/ Send(p) \/ Record(p)
  \/ RunWatchdog \/ \E s \in Sleeves : Cycle(s)
  \/ Kill \/ Startup \/ Tick

Spec == Init /\ [][Next]_vars

-----------------------------------------------------------------------------
(* Properties                                                              *)

\* One message of a kind a quarter of an hour (notify.py 5-8, DECISIONS.md 244
\* on a crash loop): whatever failed in between, however often the engine is
\* started again, two messages of the same key are never delivered for moments
\* closer than the rate limit -- but for a kill between a send and its row
\* ("record" in KillAt) and a send whose answer is lost ("unclear" in Outcomes):
\* either may repeat a message at once, and both are left out where this is
\* checked and proved.
OncePerLimit ==
  \A k \in Keys : \A i, j \in DOMAIN told[k] : i < j => told[k][j] - told[k][i] >= RateLimit

\* A silent engine is noticed (watchdog.py 8-9): when a run of the watchdog is
\* over, each sleeve with a cycle of the last two hours overdue by more than
\* STALE, and none run since, has been told of within the rate limit, unless
\* this very run tried and Telegram refused.
NeverSilent ==
  proc["watchdog"].pc = "off" /\ ran = now =>
    \A s \in Sleeves :
      (\E m \in Marks[s] : now - Back <= m /\ m < now - Stale /\ last[s] < m) =>
        \/ \E i \in DOMAIN told[s] : now - told[s][i] < RateLimit
        \/ \E i \in DOMAIN alerts[s] : alerts[s][i] = [ts |-> now, status |-> "failed"]
=============================================================================
