-------------------------------- MODULE Lab --------------------------------
(***************************************************************************)
(* The night lab and its suggestions: processes of their own that grade    *)
(* the candidate strategies and propose the ones that meet the rule, and   *)
(* the dashboard, where a user approves or rejects a proposal.  Several    *)
(* labs may run at once (one started by the chain, one by hand), any of    *)
(* them may be killed, and the form a user answers may be out of date.     *)
(* Grading itself (replays over floating point prices) is a free choice of *)
(* verdict and of the number of graded trades.                             *)
(***************************************************************************)
EXTENDS Naturals, Sequences, SequencesExt

CONSTANTS
  Labs,           \* the lab processes there may be
  Candidates,     \* the candidates, in the order they are graded
  MinTrades,      \* LAB_MIN_APPROVE_TRADES
  TradeCounts,    \* what the number of graded trades may be
  MaxLabRuns,     \* bound: lab processes launched in all
  MaxForms        \* bound: answers sent from the dashboard

ASSUME LabAssumption ==
  /\ Candidates \in Seq(STRING) /\ Candidates # <<>>
  /\ MinTrades \in Nat /\ TradeCounts \subseteq Nat
  /\ MaxLabRuns \in Nat /\ MaxForms \in Nat

VARIABLES
  lab,         \* each process: where it is, its run and its candidate
  labRuns,     \* lab_runs: the date and status of each
  labResults,  \* lab_results: run, candidate, whether it meets the rule
  suggestions, \* lab_suggestions
  form,        \* the dashboard's answer between its check and its UPDATE
  launches,    \* bound: launches so far
  forms        \* bound: answers so far

labVars == <<lab, labRuns, labResults, suggestions, form, launches, forms>>

Off == [pc |-> "off", run |-> 0, at |-> 0, status |-> "done"]
NoForm == [id |-> 0, status |-> "none"]
Decisions == {"approved", "rejected"}

LabInit ==
  /\ lab = [p \in Labs |-> Off]
  /\ labRuns = <<>> /\ labResults = {} /\ suggestions = <<>>
  /\ form = NoForm /\ launches = 0 /\ forms = 0

Here(p) == Candidates[lab[p].at]

\* launch_lab: the process exists; its run is not in the database yet.
Launched(p) ==
  /\ lab[p].pc = "off" /\ launches < MaxLabRuns
  /\ lab' = [lab EXCEPT ![p] = [Off EXCEPT !.pc = "launched"]]
  /\ launches' = launches + 1

LaunchByHand(p) == Launched(p) /\ UNCHANGED <<labRuns, labResults, suggestions, form, forms>>

\* run_lab: start_lab_run.
StartRun(p, date) ==
  /\ lab[p].pc = "launched"
  /\ labRuns' = Append(labRuns, [date |-> date, status |-> "running"])
  /\ lab' = [lab EXCEPT ![p] = [pc |-> "grade", run |-> Len(labRuns) + 1, at |-> 1, status |-> "done"]]
  /\ UNCHANGED <<labResults, suggestions, form, launches, forms>>

\* Mutant: the loop runs once too often.
AfterOneMore(p, l) ==
  IF l.at > Len(Candidates) THEN [l EXCEPT !.pc = "finish"] ELSE [l EXCEPT !.pc = "grade", !.at = @ + 1]

\* The loop over the candidates goes on, or the run ends.
After(p, l) ==
  IF l.at = Len(Candidates) THEN [l EXCEPT !.pc = "finish"] ELSE [l EXCEPT !.pc = "grade", !.at = @ + 1]

\* A candidate is graded: a verdict, or an error that the run survives.
Grade(p) ==
  /\ lab[p].pc = "grade"
  /\ \E verdict \in {"meets", "fails", "error"} :
       /\ labResults' = labResults \cup {[run |-> lab[p].run, candidate |-> Here(p), meets |-> verdict = "meets"]}
       /\ lab' = [lab EXCEPT ![p] =
            CASE verdict = "meets" -> [@ EXCEPT !.pc = "suggest"]
              [] verdict = "fails" -> After(p, @)
              [] verdict = "error" -> After(p, [@ EXCEPT !.status = "done_with_errors"])]
  /\ UNCHANGED <<labRuns, suggestions, form, launches, forms>>

\* Mutant: an older suggestion of the candidate stays as it is.
NothingSuperseded(c) == suggestions

\* What a newer suggestion of the candidate makes of the older ones.
Superseded(c) ==
  [i \in DOMAIN suggestions |->
     IF suggestions[i].candidate = c /\ suggestions[i].status = "pending"
     THEN [suggestions[i] EXCEPT !.status = "superseded"] ELSE suggestions[i]]

\* write_lab_suggestion: both statements in one commit.
Suggest(p) ==
  /\ lab[p].pc = "suggest"
  /\ \E n \in TradeCounts :
       suggestions' = Append(Superseded(Here(p)),
                             [candidate |-> Here(p), run |-> lab[p].run, trades |-> n, status |-> "pending"])
  /\ lab' = [lab EXCEPT ![p] = After(p, @)]
  /\ UNCHANGED <<labRuns, labResults, form, launches, forms>>

Finish(p) ==
  /\ lab[p].pc = "finish"
  /\ labRuns' = [labRuns EXCEPT ![lab[p].run].status = lab[p].status]
  /\ lab' = [lab EXCEPT ![p] = Off]
  /\ UNCHANGED <<labResults, suggestions, form, launches, forms>>

\* A killed lab leaves its run "running" for ever.
KillLab(p) ==
  /\ lab[p].pc # "off"
  /\ lab' = [lab EXCEPT ![p] = Off]
  /\ UNCHANGED <<labRuns, labResults, suggestions, form, launches, forms>>

\* lab_decide: the row is read and a hopeless approval refused.
Answer(id, status) ==
  /\ form = NoForm /\ forms < MaxForms
  /\ ~ (status = "approved" /\ suggestions[id].status = "pending" /\ suggestions[id].trades < MinTrades)
  /\ form' = [id |-> id, status |-> status] /\ forms' = forms + 1
  /\ UNCHANGED <<lab, labRuns, labResults, suggestions, launches>>

\* Mutant: the UPDATE trusts what the handler read.
DecidableAsRead(s, status) == TRUE

\* The WHERE of decide_lab_suggestion: it looks at the row again.
Decidable(s, status) == s.status = "pending" /\ (status = "rejected" \/ s.trades >= MinTrades)

Decide ==
  /\ form # NoForm
  /\ suggestions' = IF Decidable(suggestions[form.id], form.status)
                    THEN [suggestions EXCEPT ![form.id].status = form.status] ELSE suggestions
  /\ form' = NoForm
  /\ UNCHANGED <<lab, labRuns, labResults, launches, forms>>

LabStep ==
  \/ \E p \in Labs : LaunchByHand(p) \/ Grade(p) \/ Suggest(p) \/ Finish(p) \/ KillLab(p)
  \/ \E id \in DOMAIN suggestions, status \in Decisions : Answer(id, status)
  \/ Decide

\* The lab by itself, within one night.
LabNext == LabStep \/ \E p \in Labs : StartRun(p, 0)

LabSpec == LabInit /\ [][LabNext]_labVars

-----------------------------------------------------------------------------
LabTypeOK ==
  /\ lab \in [Labs -> [pc : {"off", "launched", "grade", "suggest", "finish"}, run : 0..Len(labRuns),
                       at : 0..Len(Candidates), status : {"done", "done_with_errors"}]]
  /\ \A r \in labResults : r.run \in DOMAIN labRuns /\ r.candidate \in ToSet(Candidates) /\ r.meets \in BOOLEAN
  /\ \A i \in DOMAIN labRuns : labRuns[i].status \in {"running", "done", "done_with_errors"}
  /\ \A i \in DOMAIN suggestions :
       /\ suggestions[i].candidate \in ToSet(Candidates)
       /\ suggestions[i].status \in Decisions \cup {"pending", "superseded"}
       /\ \E r \in labResults : r.run = suggestions[i].run /\ r.candidate = suggestions[i].candidate /\ r.meets
  /\ form.id \in 0..Len(suggestions) /\ forms \in 0..MaxForms
  /\ Len(labRuns) <= launches /\ launches <= MaxLabRuns

\* A user's decision stands (store.py decide_lab_suggestion): an approved or
\* rejected suggestion never changes, whatever lab proposes the candidate again
\* and whatever an outdated form says; one that is superseded is not decided any
\* more; and nothing is approved on fewer graded trades than the minimum.
DecisionsStand ==
  [][\A i \in DOMAIN suggestions :
       suggestions'[i].status # suggestions[i].status =>
         /\ suggestions[i].status = "pending"
         /\ suggestions'[i].status = "approved" => suggestions[i].trades >= MinTrades]_labVars

\* At any time a candidate has at most one suggestion to decide, its newest,
\* and one gives way only to a newer one of the same candidate.
OnePending ==
  \A i \in DOMAIN suggestions :
    LET newer == {j \in DOMAIN suggestions : j > i /\ suggestions[j].candidate = suggestions[i].candidate}
    IN  /\ suggestions[i].status = "pending" => newer = {}
        /\ suggestions[i].status = "superseded" => newer # {}
=============================================================================
