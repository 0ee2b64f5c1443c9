----------------------------- MODULE NightlyProofs -----------------------------
(***************************************************************************)
(* What holds of the labs and their suggestions for every number of        *)
(* processes, candidates, launches and answers, whatever is killed; and of *)
(* the evening around them, for every chain of steps and any number of     *)
(* days, trades and kills.                                                 *)
(***************************************************************************)
EXTENDS Nightly, FiniteSetTheorems, SequenceTheorems, TLAPS

Runs == [date : Nat, status : {"running", "done", "done_with_errors"}]
Suggested == [candidate : STRING, run : Nat, trades : Nat,
              status : {"approved", "rejected", "pending", "superseded"}]
Places == [pc : {"off", "launched", "grade", "suggest", "finish"}, run : Nat, at : Nat,
           status : {"done", "done_with_errors"}]

Working(l) == l.pc \in {"grade", "suggest", "finish"}
Waiting == {p \in Labs : lab[p].pc = "launched"}

Types ==
  /\ lab \in [Labs -> Places]
  /\ labRuns \in Seq(Runs) /\ suggestions \in Seq(Suggested)
  /\ labResults \in SUBSET [run : Nat, candidate : STRING, meets : BOOLEAN]
  /\ form \in [id : Nat, status : Decisions \cup {"none"}]
  /\ launches \in Nat /\ forms \in Nat

\* A process at work has a run of its own and a candidate; one that has
\* something to suggest has recorded the result it rests on.
PlaceKnown ==
  \A p \in Labs :
    /\ Working(lab[p]) => lab[p].run \in DOMAIN labRuns /\ lab[p].at \in DOMAIN Candidates
    /\ ~Working(lab[p]) => lab[p].run = 0 /\ lab[p].at = 0
    /\ lab[p].pc = "suggest" =>
         \E r \in labResults : r.run = lab[p].run /\ r.candidate = Here(p) /\ r.meets

ResultsKnown ==
  \A r \in labResults : r.run \in DOMAIN labRuns /\ r.candidate \in ToSet(Candidates)

SuggestionsKnown ==
  \A i \in DOMAIN suggestions :
    /\ suggestions[i].candidate \in ToSet(Candidates)
    /\ \E r \in labResults : r.run = suggestions[i].run /\ r.candidate = suggestions[i].candidate /\ r.meets

FormKnown ==
  /\ form.id \in 0..Len(suggestions) /\ forms <= MaxForms
  /\ form # NoForm => form.id \in DOMAIN suggestions /\ form.status \in Decisions

\* Every run, and every process that waits to start one, was launched.
Launches ==
  /\ IsFiniteSet(Waiting)
  /\ Len(labRuns) + Cardinality(Waiting) <= launches
  /\ launches <= MaxLabRuns

LabInv == Types /\ PlaceKnown /\ ResultsKnown /\ SuggestionsKnown /\ FormKnown /\ Launches

-----------------------------------------------------------------------------
(* Lemmas                                                                  *)

(* The candidates are named by strings.                                    *)
LEMMA CandidateNames ==
  /\ Len(Candidates) \in Nat \ {0} /\ DOMAIN Candidates = 1..Len(Candidates)
  /\ \A i \in 1..Len(Candidates) : Candidates[i] \in STRING /\ Candidates[i] \in ToSet(Candidates)
  /\ ToSet(Candidates) \subseteq STRING
<1>1. Candidates \in Seq(STRING) /\ Candidates # <<>>
  BY LabAssumption
<1>2. /\ Len(Candidates) \in Nat \ {0} /\ DOMAIN Candidates = 1..Len(Candidates)
      /\ \A i \in 1..Len(Candidates) : Candidates[i] \in STRING
  BY <1>1
<1> QED BY <1>2 DEF ToSet

(* Superseding changes statuses only: as many suggestions, the same        *)
(* candidates, and a status changes only from pending to superseded.       *)
LEMMA SupersededKeeps ==
  ASSUME suggestions \in Seq(Suggested), NEW c
  PROVE  /\ Superseded(c) \in Seq(Suggested) /\ Len(Superseded(c)) = Len(suggestions)
         /\ \A i \in DOMAIN suggestions :
              /\ Superseded(c)[i].candidate = suggestions[i].candidate
              /\ Superseded(c)[i].run = suggestions[i].run
              /\ Superseded(c)[i].status =
                   IF suggestions[i].candidate = c /\ suggestions[i].status = "pending"
                   THEN "superseded" ELSE suggestions[i].status
<1> DEFINE n == Len(suggestions)
<1>1. n \in Nat /\ DOMAIN suggestions = 1..n /\ \A i \in 1..n : suggestions[i] \in Suggested
  BY LenProperties, ElementOfSeq
<1>2. \A i \in 1..n : Superseded(c)[i] =
        IF suggestions[i].candidate = c /\ suggestions[i].status = "pending"
        THEN [suggestions[i] EXCEPT !.status = "superseded"] ELSE suggestions[i]
  BY <1>1 DEF Superseded
<1>3. \A i \in 1..n : Superseded(c)[i] \in Suggested
  BY <1>1, <1>2 DEF Suggested
<1>4. Superseded(c) \in [1..n -> Suggested]
  BY <1>1, <1>3 DEF Superseded
<1>5. Superseded(c) \in Seq(Suggested)
  BY <1>1, <1>4, SeqDef
<1>6. Len(Superseded(c)) = n
  <2>1. DOMAIN Superseded(c) = 1..n
    BY <1>4
  <2>2. Len(Superseded(c)) \in Nat /\ DOMAIN Superseded(c) = 1..Len(Superseded(c))
    BY <1>5, LenProperties
  <2> QED BY <1>1, <2>1, <2>2
<1> QED BY <1>1, <1>2, <1>5, <1>6 DEF Suggested

(* Going on leaves a process at work on a candidate, with nothing to suggest. *)
LEMMA AfterWorks ==
  ASSUME NEW l \in Places, l.at \in DOMAIN Candidates, NEW p
  PROVE  /\ After(p, l) \in Places /\ After(p, l).pc \in {"grade", "finish"}
         /\ After(p, l).run = l.run /\ After(p, l).at \in DOMAIN Candidates
<1>1. l.at \in 1..Len(Candidates) /\ Len(Candidates) \in Nat
  BY CandidateNames
<1>2. CASE l.at = Len(Candidates)
  <2> DEFINE m == [l EXCEPT !.pc = "finish"]
  <2>1. m \in Places /\ m.pc = "finish" /\ m.run = l.run /\ m.at = l.at
    BY DEF Places
  <2>2. After(p, l) = m
    BY <1>2 DEF After
  <2>3. m.at \in DOMAIN Candidates
    BY <2>1
  <2>4. m.pc \in {"grade", "finish"}
    BY <2>1
  <2> HIDE DEF m
  <2> QED BY <2>1, <2>2, <2>3, <2>4
<1>3. CASE l.at # Len(Candidates)
  <2>1. l.at + 1 \in 1..Len(Candidates)
    BY <1>1, <1>3
  <2> DEFINE k == [l EXCEPT !.pc = "grade"]
             m == [k EXCEPT !.at = l.at + 1]
  <2>a. k \in Places /\ k.pc = "grade" /\ k.run = l.run
    BY DEF Places
  <2>b. After(p, l) = m
    BY <1>3 DEF After, Places
  <2> HIDE DEF k
  <2>2. m \in Places /\ m.pc = "grade" /\ m.run = l.run /\ m.at = l.at + 1
    BY <1>1, <2>1, <2>a DEF Places
  <2>3. After(p, l) = m
    BY <2>b
  <2>4. m.at \in DOMAIN Candidates
    BY <2>1, <2>2, CandidateNames
  <2> HIDE DEF m
  <2> QED BY <2>2, <2>3, <2>4
<1> QED BY <1>2, <1>3

-----------------------------------------------------------------------------
(* The invariant                                                           *)

LEMMA InvInit == LabInit => LabInv
<1> SUFFICES ASSUME LabInit PROVE LabInv
  OBVIOUS
<1> USE DEF LabInit
<1>1. Types
  BY LabAssumption DEF Types, Places, Off, NoForm, Decisions
<1>2. Waiting = {}
  BY DEF Waiting, Off
<1>3. Launches
  BY <1>2, FS_EmptySet, LabAssumption DEF Launches
<1>4. PlaceKnown /\ ResultsKnown /\ SuggestionsKnown
  BY DEF PlaceKnown, ResultsKnown, SuggestionsKnown, Working, Off
<1>5. FormKnown
  BY LabAssumption DEF FormKnown, NoForm
<1> QED BY <1>1, <1>3, <1>4, <1>5 DEF LabInv

(* A process that only moves leaves the launched ones, unless it was one.  *)
LEMMA WaitingOnes ==
  ASSUME LabInv, NEW p \in Labs, NEW l, lab' = [lab EXCEPT ![p] = l], l.pc # "launched"
  PROVE  /\ Waiting' = Waiting \ {p} /\ IsFiniteSet(Waiting')
         /\ Cardinality(Waiting') \in Nat /\ Cardinality(Waiting) \in Nat
         /\ Cardinality(Waiting') = IF lab[p].pc = "launched" THEN Cardinality(Waiting) - 1 ELSE Cardinality(Waiting)
<1>1. Waiting' = Waiting \ {p}
  BY DEF LabInv, Types, Waiting
<1>2. p \in Waiting <=> lab[p].pc = "launched"
  BY DEF Waiting
<1>3. IsFiniteSet(Waiting)
  BY DEF LabInv, Launches
<1> QED BY <1>1, <1>2, <1>3, FS_RemoveElement, FS_CardinalityType

LEMMA InvLaunch ==
  ASSUME LabInv, NEW p \in Labs, LaunchByHand(p)
  PROVE  LabInv'
<1> USE DEF LabInv, LaunchByHand, Launched
<1> DEFINE l == [Off EXCEPT !.pc = "launched"]
<1>a. l \in Places /\ l.pc = "launched" /\ l.run = 0 /\ l.at = 0
  BY DEF Off, Places
<1>b. lab' = [lab EXCEPT ![p] = l]
  BY DEF LabInv
<1> HIDE DEF l
<1>c. lab' \in [Labs -> Places] /\ \A q \in Labs : lab'[q] = IF q = p THEN l ELSE lab[q]
  BY <1>a, <1>b DEF Types
<1>1. Types'
  BY <1>c DEF Types
<1>2. Waiting' = Waiting \cup {p} /\ p \notin Waiting
  BY <1>a, <1>c DEF Waiting
<1>3. Launches'
  <2>1. IsFiniteSet(Waiting') /\ Cardinality(Waiting') = Cardinality(Waiting) + 1
    BY <1>2, FS_AddElement DEF Launches
  <2>2. Cardinality(Waiting) \in Nat /\ Len(labRuns) \in Nat /\ launches \in Nat /\ MaxLabRuns \in Nat
    BY FS_CardinalityType, LenProperties, LabAssumption DEF Launches, Types
  <2>3. labRuns' = labRuns /\ launches' = launches + 1 /\ launches < MaxLabRuns
    OBVIOUS
  <2> QED BY <2>1, <2>2, <2>3 DEF Launches
<1>4. PlaceKnown'
  BY <1>a, <1>c DEF PlaceKnown, Working, Here
<1>5. ResultsKnown' /\ SuggestionsKnown' /\ FormKnown'
  BY DEF ResultsKnown, SuggestionsKnown, FormKnown
<1> QED BY <1>1, <1>3, <1>4, <1>5

LEMMA InvStartRun ==
  ASSUME LabInv, NEW p \in Labs, NEW date \in Nat, StartRun(p, date)
  PROVE  LabInv'
<1> DEFINE row == [date |-> date, status |-> "running"]
           l == [pc |-> "grade", run |-> Len(labRuns) + 1, at |-> 1, status |-> "done"]
<1> USE DEF LabInv
<1>1. row \in Runs /\ labRuns \in Seq(Runs) /\ Len(labRuns) \in Nat /\ DOMAIN labRuns = 1..Len(labRuns)
  BY LenProperties DEF Types, Runs
<1>2. labRuns' = Append(labRuns, row) /\ lab' = [lab EXCEPT ![p] = l] /\ lab[p].pc = "launched"
      /\ UNCHANGED <<labResults, suggestions, form, launches, forms>>
  BY DEF StartRun
<1> HIDE DEF row
<1>3. labRuns' \in Seq(Runs) /\ Len(labRuns') = Len(labRuns) + 1
  BY <1>1, <1>2
<1>4. DOMAIN labRuns' = 1..(Len(labRuns) + 1)
  BY <1>1, <1>3, LenProperties
<1>5. Types'
  BY <1>1, <1>2, <1>3 DEF Types, Places
<1>6. Launches'
  <2>1. l.pc # "launched"
    OBVIOUS
  <2>2. /\ IsFiniteSet(Waiting') /\ Cardinality(Waiting') = Cardinality(Waiting) - 1
        /\ Cardinality(Waiting) \in Nat /\ Cardinality(Waiting') \in Nat
    <3> HIDE DEF l
    <3> QED BY <1>2, <2>1, WaitingOnes
  <2> QED BY <1>1, <1>2, <1>3, <2>2 DEF Launches, Types
<1>7. PlaceKnown'
  <2>1. 1 \in DOMAIN Candidates
    BY CandidateNames
  <2>2. \A q \in Labs : lab'[q] = IF q = p THEN l ELSE lab[q]
    BY <1>2 DEF Types
  <2> QED BY <1>1, <1>2, <1>4, <2>1, <2>2 DEF PlaceKnown, Working, Here
<1>8. ResultsKnown' /\ SuggestionsKnown' /\ FormKnown'
  BY <1>1, <1>2, <1>4 DEF ResultsKnown, SuggestionsKnown, FormKnown
<1> QED BY <1>5, <1>6, <1>7, <1>8

(* What a process at work leaves of the invariant when it alone moves.     *)
LEMMA Moves ==
  ASSUME LabInv, NEW p \in Labs, Working(lab[p]), NEW l \in Places, lab' = [lab EXCEPT ![p] = l],
         l.pc \in {"grade", "finish", "suggest"} => l.run = lab[p].run /\ l.at \in DOMAIN Candidates,
         l.pc = "off" => l = Off, l.pc # "launched",
         l.pc = "suggest" => \E r \in labResults' : r.run = l.run /\ r.candidate = Candidates[l.at] /\ r.meets,
         Len(labRuns') = Len(labRuns), DOMAIN labRuns' = DOMAIN labRuns, labResults \subseteq labResults',
         launches' = launches
  PROVE  lab' \in [Labs -> Places] /\ PlaceKnown' /\ Launches'
<1>1. lab' \in [Labs -> Places] /\ \A q \in Labs : lab'[q] = IF q = p THEN l ELSE lab[q]
  BY DEF LabInv, Types
<1>2. PlaceKnown'
  <2> SUFFICES ASSUME NEW q \in Labs
               PROVE  /\ Working(lab'[q]) => lab'[q].run \in DOMAIN labRuns' /\ lab'[q].at \in DOMAIN Candidates
                      /\ ~Working(lab'[q]) => lab'[q].run = 0 /\ lab'[q].at = 0
                      /\ lab'[q].pc = "suggest" =>
                           \E r \in labResults' : r.run = lab'[q].run /\ r.candidate = Candidates[lab'[q].at] /\ r.meets
    BY DEF PlaceKnown, Here
  <2>1. CASE q = p
    <3>1. lab[p].run \in DOMAIN labRuns
      BY DEF LabInv, PlaceKnown
    <3>2. ~Working(l) => l = Off
      BY DEF Working, Places
    <3> QED BY <1>1, <2>1, <3>1, <3>2 DEF Working, Off
  <2>2. CASE q # p
    BY <1>1, <2>2 DEF LabInv, PlaceKnown, Here
  <2> QED BY <2>1, <2>2
<1>3. Launches'
  <2>1. lab[p].pc # "launched"
    BY DEF Working
  <2>2. IsFiniteSet(Waiting') /\ Cardinality(Waiting') = Cardinality(Waiting)
    BY <2>1, WaitingOnes
  <2> QED BY <2>2 DEF LabInv, Launches
<1> QED BY <1>1, <1>2, <1>3

LEMMA InvGrade ==
  ASSUME LabInv, NEW p \in Labs, Grade(p)
  PROVE  LabInv'
<1> USE DEF LabInv
<1>1. PICK verdict \in {"meets", "fails", "error"} :
        /\ labResults' = labResults \cup {[run |-> lab[p].run, candidate |-> Here(p), meets |-> verdict = "meets"]}
        /\ lab' = [lab EXCEPT ![p] =
             CASE verdict = "meets" -> [@ EXCEPT !.pc = "suggest"]
               [] verdict = "fails" -> After(p, @)
               [] verdict = "error" -> After(p, [@ EXCEPT !.status = "done_with_errors"])]
  BY DEF Grade
<1> DEFINE row == [run |-> lab[p].run, candidate |-> Here(p), meets |-> verdict = "meets"]
<1>2. /\ lab[p] \in Places /\ lab[p].pc = "grade"
      /\ lab[p].run \in DOMAIN labRuns /\ lab[p].at \in DOMAIN Candidates
      /\ UNCHANGED <<labRuns, suggestions, form, launches, forms>>
  BY DEF Grade, Types, PlaceKnown, Working
<1>3. /\ row \in [run : Nat, candidate : STRING, meets : BOOLEAN] /\ row.candidate = Candidates[lab[p].at]
      /\ row.run = lab[p].run /\ row.candidate \in ToSet(Candidates)
      /\ (verdict = "meets" => row.meets)
  BY <1>2, CandidateNames DEF Here, Places
<1>4. PICK l \in Places :
        /\ lab' = [lab EXCEPT ![p] = l]
        /\ l.pc \in {"grade", "finish", "suggest"} /\ l.run = lab[p].run /\ l.at \in DOMAIN Candidates
        /\ l.pc = "suggest" => l.at = lab[p].at /\ verdict = "meets"
  <2>1. CASE verdict = "meets"
    <3> DEFINE m == [lab[p] EXCEPT !.pc = "suggest"]
    <3>1. m \in Places /\ m.pc = "suggest" /\ m.run = lab[p].run /\ m.at = lab[p].at
      BY <1>2 DEF Places
    <3>2. lab' = [lab EXCEPT ![p] = m]
      BY <1>1, <2>1
    <3> QED BY <1>2, <2>1, <3>1, <3>2
  <2>2. CASE verdict = "fails"
    <3>1. lab' = [lab EXCEPT ![p] = After(p, lab[p])]
      BY <1>1, <2>2
    <3> QED BY <1>2, <3>1, AfterWorks
  <2>3. CASE verdict = "error"
    <3> DEFINE m == [lab[p] EXCEPT !.status = "done_with_errors"]
    <3>1. m \in Places /\ m.run = lab[p].run /\ m.at = lab[p].at
      BY <1>2 DEF Places
    <3>2. lab' = [lab EXCEPT ![p] = After(p, m)]
      BY <1>1, <2>3
    <3> HIDE DEF m
    <3>3. After(p, m) \in Places /\ After(p, m).pc \in {"grade", "finish"}
          /\ After(p, m).run = lab[p].run /\ After(p, m).at \in DOMAIN Candidates
      BY <1>2, <3>1, AfterWorks
    <3> QED BY <3>2, <3>3
  <2> QED BY <2>1, <2>2, <2>3
<1> HIDE DEF row
<1>5. labResults' = labResults \cup {row}
  BY <1>1 DEF row
<1>6. lab' \in [Labs -> Places] /\ PlaceKnown' /\ Launches'
  <2>1. l.pc = "suggest" => \E r \in labResults' : r.run = l.run /\ r.candidate = Candidates[l.at] /\ r.meets
    BY <1>3, <1>4, <1>5
  <2> QED BY <1>2, <1>4, <1>5, <2>1, Moves DEF Working
<1>7. Types'
  BY <1>2, <1>3, <1>5, <1>6 DEF Types
<1>8. ResultsKnown' /\ SuggestionsKnown' /\ FormKnown'
  BY <1>2, <1>3, <1>5 DEF ResultsKnown, SuggestionsKnown, FormKnown
<1> QED BY <1>6, <1>7, <1>8

(* What a new suggestion makes of the list of suggestions.                 *)
LEMMA SuggestAppends ==
  ASSUME LabInv, NEW p \in Labs, Suggest(p)
  PROVE  /\ suggestions' \in Seq(Suggested) /\ Len(suggestions) \in Nat
         /\ DOMAIN suggestions = 1..Len(suggestions) /\ DOMAIN suggestions' = 1..(Len(suggestions) + 1)
         /\ \A i \in DOMAIN suggestions :
              /\ suggestions'[i].candidate = suggestions[i].candidate
              /\ suggestions'[i].run = suggestions[i].run
              /\ suggestions'[i].status =
                   IF suggestions[i].candidate = Here(p) /\ suggestions[i].status = "pending"
                   THEN "superseded" ELSE suggestions[i].status
         /\ suggestions'[Len(suggestions) + 1].candidate = Here(p)
         /\ suggestions'[Len(suggestions) + 1].run = lab[p].run
         /\ suggestions'[Len(suggestions) + 1].status = "pending"
         /\ Len(suggestions') = Len(suggestions) + 1
<1>1. PICK n \in TradeCounts :
        suggestions' = Append(Superseded(Here(p)),
                              [candidate |-> Here(p), run |-> lab[p].run, trades |-> n, status |-> "pending"])
  BY DEF Suggest
<1> DEFINE new == [candidate |-> Here(p), run |-> lab[p].run, trades |-> n, status |-> "pending"]
           old == Superseded(Here(p))
<1>2. new \in Suggested
  <2>1. Here(p) \in STRING /\ lab[p].run \in Nat
    BY CandidateNames DEF Suggest, LabInv, PlaceKnown, Working, Here, Types, Places
  <2>2. n \in Nat
    BY LabAssumption
  <2> QED BY <2>1, <2>2 DEF Suggested
<1>3. suggestions \in Seq(Suggested)
  BY DEF LabInv, Types
<1>4. /\ old \in Seq(Suggested) /\ Len(old) = Len(suggestions)
      /\ \A i \in DOMAIN suggestions :
           /\ old[i].candidate = suggestions[i].candidate
           /\ old[i].run = suggestions[i].run
           /\ old[i].status = IF suggestions[i].candidate = Here(p) /\ suggestions[i].status = "pending"
                              THEN "superseded" ELSE suggestions[i].status
  BY <1>3, SupersededKeeps
<1>5. new.candidate = Here(p) /\ new.run = lab[p].run /\ new.status = "pending"
  OBVIOUS
<1>6. suggestions' = Append(old, new)
  BY <1>1
<1>7. Len(suggestions) \in Nat /\ DOMAIN suggestions = 1..Len(suggestions)
  BY <1>3, LenProperties
<1> HIDE DEF new, old
<1>8. /\ suggestions' \in Seq(Suggested) /\ Len(suggestions') = Len(suggestions) + 1
      /\ \A i \in 1..Len(suggestions) : suggestions'[i] = old[i]
      /\ suggestions'[Len(suggestions) + 1] = new
  BY <1>2, <1>4, <1>6, <1>7, AppendProperties
<1>9. DOMAIN suggestions' = 1..(Len(suggestions) + 1)
  BY <1>8, LenProperties
<1> QED BY <1>4, <1>5, <1>7, <1>8, <1>9

LEMMA InvSuggest ==
  ASSUME LabInv, NEW p \in Labs, Suggest(p)
  PROVE  LabInv'
<1> USE DEF LabInv
<1>1. /\ lab[p] \in Places /\ lab[p].pc = "suggest"
      /\ lab[p].run \in DOMAIN labRuns /\ lab[p].at \in DOMAIN Candidates
      /\ lab' = [lab EXCEPT ![p] = After(p, lab[p])]
      /\ UNCHANGED <<labRuns, labResults, form, launches, forms>>
  BY DEF Suggest, Types, PlaceKnown, Working
<1>2. /\ After(p, lab[p]) \in Places /\ After(p, lab[p]).pc \in {"grade", "finish"}
      /\ After(p, lab[p]).run = lab[p].run /\ After(p, lab[p]).at \in DOMAIN Candidates
  BY <1>1, AfterWorks
<1>3. lab' \in [Labs -> Places] /\ PlaceKnown' /\ Launches'
  BY <1>1, <1>2, Moves DEF Working
<1>4. Types'
  BY <1>1, <1>3, SuggestAppends DEF Types
<1>5. SuggestionsKnown'
  <2>1. Here(p) \in ToSet(Candidates)
    BY <1>1, CandidateNames DEF Here
  <2>2. \E r \in labResults : r.run = lab[p].run /\ r.candidate = Here(p) /\ r.meets
    BY <1>1 DEF PlaceKnown
  <2>3. \A i \in DOMAIN suggestions' : i \in DOMAIN suggestions \/ i = Len(suggestions) + 1
    BY SuggestAppends
  <2> QED BY <1>1, <2>1, <2>2, <2>3, SuggestAppends DEF SuggestionsKnown
<1>6. ResultsKnown'
  BY <1>1 DEF ResultsKnown
<1>7. FormKnown'
  BY <1>1, SuggestAppends DEF FormKnown
<1> QED BY <1>3, <1>4, <1>5, <1>6, <1>7

LEMMA InvFinish ==
  ASSUME LabInv, NEW p \in Labs, Finish(p)
  PROVE  LabInv'
<1> USE DEF LabInv
<1>1. /\ lab[p] \in Places /\ lab[p].pc = "finish" /\ lab[p].run \in DOMAIN labRuns
      /\ lab' = [lab EXCEPT ![p] = Off]
      /\ labRuns' = [labRuns EXCEPT ![lab[p].run].status = lab[p].status]
      /\ UNCHANGED <<labResults, suggestions, form, launches, forms>>
  BY DEF Finish, Types, PlaceKnown, Working
<1>2. labRuns' \in Seq(Runs) /\ Len(labRuns') = Len(labRuns) /\ DOMAIN labRuns' = DOMAIN labRuns
  <2> DEFINE row == [labRuns[lab[p].run] EXCEPT !.status = lab[p].status]
  <2>1. labRuns \in Seq(Runs) /\ labRuns[lab[p].run] \in Runs
    BY <1>1, ElementOfSeq, LenProperties DEF Types
  <2>2. row \in Runs
    BY <1>1, <2>1 DEF Runs, Places
  <2>3. labRuns' = [labRuns EXCEPT ![lab[p].run] = row]
    BY <1>1
  <2> HIDE DEF row
  <2>4. lab[p].run \in 1..Len(labRuns)
    BY <1>1, <2>1, LenProperties
  <2>5. labRuns' \in Seq(Runs) /\ Len(labRuns') = Len(labRuns)
    BY <2>1, <2>2, <2>3, <2>4, ExceptSeq
  <2> QED BY <2>1, <2>5, LenProperties
<1>3. Off \in Places /\ Off.pc = "off"
  BY DEF Off, Places
<1>4. lab' \in [Labs -> Places] /\ PlaceKnown' /\ Launches'
  BY <1>1, <1>2, <1>3, Moves DEF Working
<1>5. Types'
  BY <1>1, <1>2, <1>4 DEF Types
<1>6. ResultsKnown' /\ SuggestionsKnown' /\ FormKnown'
  BY <1>1, <1>2 DEF ResultsKnown, SuggestionsKnown, FormKnown
<1> QED BY <1>4, <1>5, <1>6

LEMMA InvKill ==
  ASSUME LabInv, NEW p \in Labs, KillLab(p)
  PROVE  LabInv'
<1> USE DEF LabInv
<1>1. /\ lab' = [lab EXCEPT ![p] = Off]
      /\ UNCHANGED <<labRuns, labResults, suggestions, form, launches, forms>>
  BY DEF KillLab
<1>2. Off \in Places /\ Off.pc = "off" /\ Off.run = 0 /\ Off.at = 0
  BY DEF Off, Places
<1>3. lab' \in [Labs -> Places] /\ \A q \in Labs : lab'[q] = IF q = p THEN Off ELSE lab[q]
  BY <1>1, <1>2 DEF Types
<1>4. Launches'
  <2>1. /\ IsFiniteSet(Waiting') /\ Cardinality(Waiting') \in Nat /\ Cardinality(Waiting) \in Nat
        /\ Cardinality(Waiting') = IF lab[p].pc = "launched" THEN Cardinality(Waiting) - 1 ELSE Cardinality(Waiting)
    BY <1>1, <1>2, WaitingOnes
  <2>2. Len(labRuns) \in Nat /\ launches \in Nat
    BY LenProperties DEF Types
  <2> QED BY <1>1, <2>1, <2>2 DEF Launches
<1>5. PlaceKnown'
  BY <1>1, <1>2, <1>3 DEF PlaceKnown, Working, Here
<1>6. Types'
  BY <1>1, <1>3 DEF Types
<1>7. ResultsKnown' /\ SuggestionsKnown' /\ FormKnown'
  BY <1>1 DEF ResultsKnown, SuggestionsKnown, FormKnown
<1> QED BY <1>4, <1>5, <1>6, <1>7

LEMMA InvAnswer ==
  ASSUME LabInv, NEW id \in DOMAIN suggestions, NEW status \in Decisions, Answer(id, status)
  PROVE  LabInv'
<1> USE DEF LabInv
<1>1. /\ form' = [id |-> id, status |-> status] /\ forms' = forms + 1 /\ forms < MaxForms
      /\ UNCHANGED <<lab, labRuns, labResults, suggestions, launches>>
  BY DEF Answer
<1>2. Len(suggestions) \in Nat /\ id \in 1..Len(suggestions) /\ MaxForms \in Nat /\ forms \in Nat
  BY LenProperties, LabAssumption DEF Types
<1>3. Types' /\ FormKnown'
  BY <1>1, <1>2 DEF Types, FormKnown
<1>4. PlaceKnown' /\ ResultsKnown' /\ SuggestionsKnown' /\ Launches'
  BY <1>1 DEF PlaceKnown, ResultsKnown, SuggestionsKnown, Launches, Waiting, Here
<1> QED BY <1>3, <1>4

(* What an answer makes of the suggestions: it decides the pending one it  *)
(* is about, and nothing else changes.                                     *)
LEMMA DecideChanges ==
  ASSUME LabInv, Decide
  PROVE  /\ suggestions' \in Seq(Suggested) /\ Len(suggestions') = Len(suggestions)
         /\ DOMAIN suggestions' = DOMAIN suggestions
         /\ \A i \in DOMAIN suggestions :
              /\ suggestions'[i].candidate = suggestions[i].candidate
              /\ suggestions'[i].run = suggestions[i].run
              /\ suggestions'[i].status # suggestions[i].status =>
                   /\ suggestions[i].status = "pending" /\ suggestions'[i].status \in Decisions
                   /\ suggestions'[i].status = "approved" => suggestions[i].trades >= MinTrades
<1>1. suggestions \in Seq(Suggested) /\ form.id \in DOMAIN suggestions /\ form.status \in Decisions
  BY DEF LabInv, Types, FormKnown, Decide
<1> DEFINE row == [suggestions[form.id] EXCEPT !.status = form.status]
<1>2. Len(suggestions) \in Nat /\ DOMAIN suggestions = 1..Len(suggestions) /\ suggestions[form.id] \in Suggested
  BY <1>1, LenProperties, ElementOfSeq
<1>3. /\ row \in Suggested /\ row.candidate = suggestions[form.id].candidate
      /\ row.run = suggestions[form.id].run /\ row.status = form.status
  BY <1>1, <1>2 DEF Suggested, Decisions
<1>4. CASE Decidable(suggestions[form.id], form.status)
  <2>1. suggestions' = [suggestions EXCEPT ![form.id] = row]
    BY <1>4 DEF Decide
  <2> HIDE DEF row
  <2>2. suggestions' \in Seq(Suggested) /\ Len(suggestions') = Len(suggestions)
    BY <1>1, <1>2, <1>3, <2>1, ExceptSeq
  <2>3. \A i \in DOMAIN suggestions : suggestions'[i] = IF i = form.id THEN row ELSE suggestions[i]
    BY <2>1
  <2>4. DOMAIN suggestions' = DOMAIN suggestions
    BY <2>1
  <2>5. /\ suggestions[form.id].status = "pending"
        /\ form.status = "approved" => suggestions[form.id].trades >= MinTrades
    BY <1>4 DEF Decidable
  <2> QED BY <1>1, <1>3, <2>2, <2>3, <2>4, <2>5
<1>5. CASE ~Decidable(suggestions[form.id], form.status)
  BY <1>1, <1>5 DEF Decide
<1> QED BY <1>4, <1>5

LEMMA InvDecide ==
  ASSUME LabInv, Decide
  PROVE  LabInv'
<1> USE DEF LabInv
<1>1. form' = NoForm /\ UNCHANGED <<lab, labRuns, labResults, launches, forms>>
  BY DEF Decide
<1>2. Types'
  BY <1>1, DecideChanges DEF Types, NoForm, Decisions
<1>3. FormKnown'
  <2>1. Len(suggestions) \in Nat
    BY LenProperties DEF Types
  <2> QED BY <1>1, <2>1, DecideChanges DEF FormKnown, NoForm
<1>4. SuggestionsKnown'
  BY <1>1, DecideChanges DEF SuggestionsKnown
<1>5. PlaceKnown' /\ ResultsKnown' /\ Launches'
  BY <1>1 DEF PlaceKnown, ResultsKnown, Launches, Waiting, Here
<1> QED BY <1>2, <1>3, <1>4, <1>5

\* A run may be of any date: the night's, in the composition.
LabMoves == LabStep \/ \E p \in Labs, date \in Nat : StartRun(p, date)

LEMMA LabNextMoves == [LabNext]_labVars => [LabMoves]_labVars
  BY DEF LabNext, LabMoves

LEMMA InvStep == LabInv /\ [LabMoves]_labVars => LabInv'
<1> SUFFICES ASSUME LabInv, [LabMoves]_labVars PROVE LabInv'
  OBVIOUS
<1>1. ASSUME NEW p \in Labs, NEW date \in Nat, LaunchByHand(p) \/ StartRun(p, date) PROVE LabInv'
  BY <1>1, InvLaunch, InvStartRun
<1>2. ASSUME NEW p \in Labs, Grade(p) \/ Suggest(p) \/ Finish(p) \/ KillLab(p) PROVE LabInv'
  BY <1>2, InvGrade, InvSuggest, InvFinish, InvKill
<1>3. ASSUME NEW id \in DOMAIN suggestions, NEW status \in Decisions, Answer(id, status) PROVE LabInv'
  BY <1>3, InvAnswer
<1>4. CASE Decide
  BY <1>4, InvDecide
<1>5. CASE UNCHANGED labVars
  BY <1>5 DEF labVars, LabInv, Types, PlaceKnown, ResultsKnown, SuggestionsKnown, FormKnown, Launches, Waiting, Here
<1> QED BY <1>1, <1>2, <1>3, <1>4, <1>5 DEF LabMoves, LabStep

LEMMA InvAlways == LabSpec => []LabInv
<1> QED BY InvInit, InvStep, LabNextMoves, PTL DEF LabSpec

-----------------------------------------------------------------------------
(* The theorems                                                            *)

LEMMA LabTyped == LabInv => LabTypeOK
<1> SUFFICES ASSUME LabInv PROVE LabTypeOK
  OBVIOUS
<1> USE DEF LabInv
<1>1. /\ Len(labRuns) \in Nat /\ DOMAIN labRuns = 1..Len(labRuns)
      /\ \A i \in DOMAIN labRuns : labRuns[i] \in Runs
  BY LenProperties, ElementOfSeq DEF Types
<1>2. \A i \in DOMAIN suggestions : suggestions[i] \in Suggested
  BY LenProperties, ElementOfSeq DEF Types
<1>3. lab \in [Labs -> [pc : {"off", "launched", "grade", "suggest", "finish"}, run : 0..Len(labRuns),
                    at : 0..Len(Candidates), status : {"done", "done_with_errors"}]]
  <2> SUFFICES ASSUME NEW p \in Labs PROVE lab[p] \in Places /\ lab[p].run \in 0..Len(labRuns) /\ lab[p].at \in 0..Len(Candidates)
    BY DEF Types, Places
  <2>1. Len(Candidates) \in Nat /\ DOMAIN Candidates = 1..Len(Candidates)
    BY CandidateNames
  <2> QED BY <1>1, <2>1 DEF Types, PlaceKnown
<1>4. Len(labRuns) <= launches
  BY <1>1, FS_CardinalityType DEF Launches, Types
<1>5. forms \in 0..MaxForms
  BY LabAssumption DEF Types, FormKnown
<1>6. \A r \in labResults : r.run \in DOMAIN labRuns /\ r.candidate \in ToSet(Candidates) /\ r.meets \in BOOLEAN
  BY DEF Types, ResultsKnown
<1>7. \A i \in DOMAIN labRuns : labRuns[i].status \in {"running", "done", "done_with_errors"}
  BY <1>1 DEF Runs
<1>8. \A i \in DOMAIN suggestions :
        /\ suggestions[i].candidate \in ToSet(Candidates)
        /\ suggestions[i].status \in Decisions \cup {"pending", "superseded"}
        /\ \E r \in labResults : r.run = suggestions[i].run /\ r.candidate = suggestions[i].candidate /\ r.meets
  BY <1>2 DEF Suggested, Decisions, SuggestionsKnown
<1> QED BY <1>3, <1>4, <1>5, <1>6, <1>7, <1>8 DEF LabTypeOK, Launches, FormKnown

(* Every result is of a run and a candidate that exist, every suggestion   *)
(* rests on a recorded result of its run that meets the rule, and no run   *)
(* is recorded that was not launched (lab.py run_lab, store.py).           *)
THEOREM LabTypeCorrect == LabSpec => []LabTypeOK
<1> QED BY LabTyped, InvAlways, PTL

LEMMA PendingStep == LabInv /\ OnePending /\ [LabMoves]_labVars => OnePending'
<1> SUFFICES ASSUME LabInv, OnePending, [LabMoves]_labVars PROVE OnePending'
  OBVIOUS
<1>1. ASSUME NEW p \in Labs, Suggest(p) PROVE OnePending'
  <2> DEFINE n == Len(suggestions)
  <2>1. SUFFICES ASSUME NEW i \in 1..(n + 1)
                 PROVE  LET newer == {j \in 1..(n + 1) : j > i /\ suggestions'[j].candidate = suggestions'[i].candidate}
                        IN  /\ suggestions'[i].status = "pending" => newer = {}
                            /\ suggestions'[i].status = "superseded" => newer # {}
    BY <1>1, SuggestAppends DEF OnePending
  <2>2. CASE i = n + 1
    BY <1>1, <2>2, SuggestAppends
  <2>3. CASE i \in 1..n
    <3> DEFINE older == {j \in 1..n : j > i /\ suggestions[j].candidate = suggestions[i].candidate}
    <3>1. /\ suggestions[i].status = "pending" => older = {}
          /\ suggestions[i].status = "superseded" => older # {}
      BY <1>1, <2>3, SuggestAppends DEF OnePending
    <3>2. \A j \in 1..n : suggestions'[j].candidate = suggestions[j].candidate
      BY <1>1, SuggestAppends
    <3>3. n \in Nat /\ suggestions'[n + 1].candidate = Here(p)
      BY <1>1, SuggestAppends
    <3>4. suggestions'[i].status = IF suggestions[i].candidate = Here(p) /\ suggestions[i].status = "pending"
                                   THEN "superseded" ELSE suggestions[i].status
      BY <1>1, <2>3, SuggestAppends
    <3>5. suggestions[i].candidate = Here(p) => n + 1 > i /\ suggestions'[n + 1].candidate = suggestions'[i].candidate
      BY <2>3, <3>2, <3>3
    <3>6. CASE suggestions[i].candidate = Here(p)
      <4>1. suggestions'[i].status # "pending"
        BY <3>4, <3>6
      <4> QED BY <3>3, <3>5, <3>6, <4>1
    <3>7. CASE suggestions[i].candidate # Here(p)
      BY <2>3, <3>1, <3>2, <3>3, <3>4, <3>7
    <3> QED BY <3>6, <3>7
  <2>4. n \in Nat
    BY <1>1, SuggestAppends
  <2> QED BY <2>2, <2>3, <2>4
<1>2. CASE Decide
  <2> SUFFICES ASSUME NEW i \in DOMAIN suggestions
               PROVE  LET newer == {j \in DOMAIN suggestions : j > i /\ suggestions'[j].candidate = suggestions'[i].candidate}
                      IN  /\ suggestions'[i].status = "pending" => newer = {}
                          /\ suggestions'[i].status = "superseded" => newer # {}
    BY <1>2, DecideChanges DEF OnePending
  <2>1. \A j \in DOMAIN suggestions : suggestions'[j].candidate = suggestions[j].candidate
    BY <1>2, DecideChanges
  <2>2. suggestions'[i].status \in {"pending", "superseded"} => suggestions'[i].status = suggestions[i].status
    BY <1>2, DecideChanges DEF Decisions
  <2> QED BY <2>1, <2>2 DEF OnePending
<1>3. CASE UNCHANGED suggestions
  BY <1>3 DEF OnePending
<1> QED BY <1>1, <1>2, <1>3 DEF LabMoves, LabStep, LaunchByHand, Launched, StartRun, Grade, Finish, KillLab, Answer, labVars

(* However many labs propose a candidate at once and whatever the user     *)
(* answers meanwhile, at most its newest suggestion waits for a decision   *)
(* and a superseded one has a successor (store.py write_lab_suggestion).   *)
THEOREM NewestPending == LabSpec => []OnePending
<1>1. LabInit => OnePending
  BY DEF LabInit, OnePending
<1>2. LabInv /\ OnePending /\ [LabNext]_labVars => OnePending'
  BY PendingStep, LabNextMoves
<1> QED BY <1>1, <1>2, InvAlways, PTL DEF LabSpec
Stands ==
  \A i \in DOMAIN suggestions :
    suggestions'[i].status # suggestions[i].status =>
      /\ suggestions[i].status = "pending"
      /\ suggestions'[i].status = "approved" => suggestions[i].trades >= MinTrades

LEMMA DecisionStep == LabInv /\ [LabMoves]_labVars => Stands
<1> SUFFICES ASSUME LabInv, [LabMoves]_labVars PROVE Stands
  OBVIOUS
<1>1. ASSUME NEW p \in Labs, Suggest(p) PROVE Stands
  BY <1>1, SuggestAppends DEF Stands
<1>2. CASE Decide
  BY <1>2, DecideChanges DEF Stands
<1>3. CASE UNCHANGED suggestions
  BY <1>3 DEF Stands
<1> QED BY <1>1, <1>2, <1>3 DEF LabMoves, LabStep, LaunchByHand, Launched, StartRun, Grade, Finish, KillLab, Answer, labVars

(* A decision is final, a superseded suggestion is not decided, and        *)
(* nothing is approved on too few trades, whatever the dashboard had read  *)
(* when the user answered (store.py decide_lab_suggestion).                *)
THEOREM DecisionsFinal == LabSpec => DecisionsStand
<1>1. LabInv /\ [LabNext]_labVars => [Stands]_labVars
  BY DecisionStep, LabNextMoves
<1> QED BY <1>1, InvAlways, PTL DEF LabSpec, DecisionsStand, Stands

-----------------------------------------------------------------------------
(* The evening                                                             *)

Recons == [kind : {"equity_session", "crypto_rollover"}, status : {"baseline", "measured", "error"},
           ts : Nat, counted : SUBSET Nat]

NightTypes ==
  /\ now \in 0..(3 * Days - 1) /\ up \in BOOLEAN /\ swept \subseteq Waits /\ kills \in 0..MaxKills
  /\ done \subseteq (0..Date) \X ToSet(Steps) /\ kept \subseteq (0..Date) \X {"p100", "backup", "evening"}
  /\ rolled \subseteq [date : 0..(Date + 1), in : {"store", "memory"}]
  /\ recons \in Seq(Recons) /\ closed \in Seq(0..now)
  /\ \A i \in DOMAIN recons : recons[i].counted \subseteq DOMAIN closed /\ recons[i].ts <= now

\* Rows are in the order of their instants.
InOrder == \A i, j \in DOMAIN recons : i <= j => recons[i].ts <= recons[j].ts

\* The reconciliations that count a trade, and what their first and last say
\* of it.
Counting(t) == {i \in Good : t \in recons[i].counted}
Spans(f, l) == f \in Good /\ l \in Good /\ \A j \in Good : f <= j /\ j <= l
Within(f, l, t) == recons[f].ts <= closed[t] /\ closed[t] < recons[l].ts
Exact(f, l) ==
  \A t \in DOMAIN closed : IF Within(f, l, t) THEN \E i : Counting(t) = {i} ELSE Counting(t) = {}

Chained == Good = {} \/ \E f, l : Spans(f, l) /\ Exact(f, l)

NightInv == LabInv /\ NightTypes /\ InOrder /\ Chained

(* The instants of a date, and the date of the next instant.               *)
LEMMA Dates ==
  ASSUME NEW n \in Nat
  PROVE  n \div 3 \in Nat /\ (n + 1) \div 3 \in {n \div 3, n \div 3 + 1}
  OBVIOUS

LEMMA SeqWider ==
  ASSUME NEW S, NEW T, S \subseteq T, NEW s \in Seq(S)
  PROVE  s \in Seq(T)
<1>1. PICK n \in Nat : s \in [1..n -> S]
  BY SeqDef
<1>2. s \in [1..n -> T]
  BY <1>1
<1> QED BY <1>2, SeqDef

LEMMA NightInit == Init => NightInv
<1> SUFFICES ASSUME Init PROVE NightInv
  OBVIOUS
<1>1. LabInv
  BY InvInit DEF Init
<1>2. now = 0 /\ Date = 0 /\ 0 \in 0..(3 * Days - 1) /\ 0 \in 0..MaxKills
  BY NightlyBounds DEF Init, Date
<1>3. NightTypes
  BY <1>2 DEF Init, NightTypes, Row
<1>4. InOrder /\ Good = {}
  BY DEF Init, InOrder, Good
<1> QED BY <1>1, <1>3, <1>4 DEF NightInv, Chained

(* One more reconciliation, of either kind, whether it fails or not.       *)
LEMMA ReconRow ==
  ASSUME NightInv, NEW kind \in {"equity_session", "crypto_rollover"}, Recon(kind), UNCHANGED <<now, closed>>
  PROVE  \E row \in Recons :
           /\ recons' = Append(recons, row) /\ row.ts = now /\ row.counted \subseteq DOMAIN closed
           /\ \/ row.status = "error"
              \/ row.status # "error" /\ Good = {} /\ row.counted = {}
              \/ /\ row.status # "error" /\ Good # {}
                 /\ row.counted = {t \in DOMAIN closed : recons[Newest(Good)].ts <= closed[t] /\ closed[t] < now}
<1>1. now \in Nat /\ DOMAIN closed \subseteq Nat
  BY NightlyBounds, LenProperties DEF NightInv, NightTypes
<1>2. CASE recons' = Append(recons, Failed(kind))
  <2>1. /\ Failed(kind) \in Recons /\ Failed(kind).ts = now /\ Failed(kind).counted \subseteq DOMAIN closed
        /\ Failed(kind).status = "error"
    BY <1>1 DEF Failed, Recons
  <2> QED BY <1>2, <2>1
<1>3. CASE recons' = Append(recons, Passed(kind))
  <2>1. CASE Good = {}
    <3> DEFINE row == [kind |-> kind, status |-> "baseline", ts |-> now, counted |-> {}]
    <3>1. Passed(kind) = row
      BY <2>1 DEF Passed, PrevOf
    <3>2. row \in Recons /\ row.ts = now /\ row.counted = {} /\ row.status # "error"
      BY <1>1 DEF Recons
    <3> HIDE DEF row
    <3>3. recons' = Append(recons, row) /\ row.counted \subseteq DOMAIN closed
      BY <1>3, <3>1, <3>2
    <3> QED BY <2>1, <3>2, <3>3
  <2>2. CASE Good # {}
    <3> DEFINE C == {t \in DOMAIN closed : recons[Newest(Good)].ts <= closed[t] /\ closed[t] < now}
    <3>1. C \subseteq DOMAIN closed
      OBVIOUS
    <3>2. Passed(kind) = [kind |-> kind, status |-> "measured", ts |-> now, counted |-> C]
      BY <2>2 DEF Passed, PrevOf
    <3> HIDE DEF C
    <3> DEFINE row == [kind |-> kind, status |-> "measured", ts |-> now, counted |-> C]
    <3>3. row \in Recons /\ row.ts = now /\ row.counted = C /\ row.status # "error"
      BY <1>1, <3>1 DEF Recons
    <3>4. recons' = Append(recons, row)
      BY <1>3, <3>2
    <3> HIDE DEF row
    <3> QED BY <2>2, <3>1, <3>3, <3>4 DEF C
  <2> QED BY <2>1, <2>2
<1> QED BY <1>2, <1>3 DEF Recon

(* What the rows say of those there were.                                  *)
LEMMA ReconAppends ==
  ASSUME NightInv, NEW row \in Recons, recons' = Append(recons, row), row.ts = now,
         row.counted \subseteq DOMAIN closed, UNCHANGED <<now, closed>>
  PROVE  /\ recons' \in Seq(Recons) /\ Len(recons) \in Nat
         /\ DOMAIN recons = 1..Len(recons) /\ DOMAIN recons' = 1..(Len(recons) + 1)
         /\ \A i \in DOMAIN recons : recons'[i] = recons[i] /\ recons[i] \in Recons
         /\ recons'[Len(recons) + 1] = row
         /\ \A i \in DOMAIN recons' : recons'[i].counted \subseteq DOMAIN closed' /\ recons'[i].ts <= now'
         /\ InOrder'
<1>1. recons \in Seq(Recons) /\ Len(recons) \in Nat /\ DOMAIN recons = 1..Len(recons)
  BY LenProperties DEF NightInv, NightTypes
<1>2. \A i \in DOMAIN recons : recons[i] \in Recons
  BY <1>1, ElementOfSeq
<1>3. /\ recons' \in Seq(Recons) /\ Len(recons') = Len(recons) + 1
      /\ \A i \in 1..Len(recons) : recons'[i] = recons[i]
      /\ recons'[Len(recons) + 1] = row
  BY <1>1, AppendProperties
<1>4. DOMAIN recons' = 1..(Len(recons) + 1)
  BY <1>3, LenProperties
<1>5. now \in Nat
  BY NightlyBounds DEF NightInv, NightTypes
<1>6. \A i \in DOMAIN recons : recons[i].counted \subseteq DOMAIN closed /\ recons[i].ts <= now /\ recons[i].ts \in Nat
  BY <1>2 DEF NightInv, NightTypes, Recons
<1>7. \A i \in DOMAIN recons' : recons'[i].counted \subseteq DOMAIN closed' /\ recons'[i].ts <= now'
  BY <1>1, <1>3, <1>4, <1>5, <1>6
<1>8. InOrder'
  <2> SUFFICES ASSUME NEW i \in DOMAIN recons', NEW j \in DOMAIN recons', i <= j
               PROVE  recons'[i].ts <= recons'[j].ts
    BY DEF InOrder
  <2>1. CASE j = Len(recons) + 1
    BY <1>3, <1>7, <2>1
  <2>2. CASE j # Len(recons) + 1
    BY <1>1, <1>3, <1>4, <2>2 DEF NightInv, InOrder
  <2> QED BY <2>1, <2>2
<1> QED BY <1>1, <1>2, <1>3, <1>4, <1>7, <1>8

LEMMA ChainGrows ==
  ASSUME NightInv, NEW kind \in {"equity_session", "crypto_rollover"}, Recon(kind), UNCHANGED <<now, closed>>
  PROVE  /\ recons' \in Seq(Recons) /\ InOrder' /\ Chained'
         /\ \A i \in DOMAIN recons' : recons'[i].counted \subseteq DOMAIN closed' /\ recons'[i].ts <= now'
<1>1. PICK row \in Recons :
        /\ recons' = Append(recons, row) /\ row.ts = now /\ row.counted \subseteq DOMAIN closed
        /\ \/ row.status = "error"
           \/ row.status # "error" /\ Good = {} /\ row.counted = {}
           \/ /\ row.status # "error" /\ Good # {}
              /\ row.counted = {t \in DOMAIN closed : recons[Newest(Good)].ts <= closed[t] /\ closed[t] < now}
  BY ReconRow
<1>n. PICK n : n = Len(recons) + 1
  OBVIOUS
<1>2. /\ recons' \in Seq(Recons) /\ Len(recons) \in Nat
      /\ DOMAIN recons = 1..Len(recons) /\ DOMAIN recons' = 1..n
      /\ \A i \in DOMAIN recons : recons'[i] = recons[i] /\ recons[i] \in Recons
      /\ recons'[n] = row
      /\ \A i \in DOMAIN recons' : recons'[i].counted \subseteq DOMAIN closed' /\ recons'[i].ts <= now'
      /\ InOrder'
  BY <1>1, <1>n, ReconAppends
<1>3. closed' = closed /\ now' = now /\ now \in Nat /\ \A t \in DOMAIN closed : closed[t] \in Nat
  BY NightlyBounds, LenProperties, ElementOfSeq DEF NightInv, NightTypes
<1>4. Good \subseteq DOMAIN recons /\ n \notin DOMAIN recons /\ n \in Nat /\ \A i \in DOMAIN recons : i <= n
  BY <1>n, <1>2 DEF Good
<1>5. Good' = IF row.status = "error" THEN Good ELSE Good \cup {n}
  <2>1. DOMAIN recons' = DOMAIN recons \cup {n}
    BY <1>n, <1>2
  <2>2. \A i \in DOMAIN recons : recons'[i].status = recons[i].status
    BY <1>2
  <2>3. recons'[n].status = row.status
    BY <1>2
  <2> QED BY <1>4, <2>1, <2>2, <2>3 DEF Good
<1>6. \A i \in Good : recons'[i] = recons[i]
  BY <1>2, <1>4
<1>7. Chained'
  <2>1. CASE row.status = "error"
    <3>1. Good' = Good
      BY <1>5, <2>1
    <3>2. CASE Good = {}
      BY <3>1, <3>2 DEF Chained
    <3>3. CASE Good # {}
      <4>1. PICK f, l : Spans(f, l) /\ Exact(f, l)
        BY <3>3 DEF NightInv, Chained
      <4>2. Spans(f, l)'
        BY <3>1, <4>1 DEF Spans
      <4>3. \A t : Counting(t)' = Counting(t)
        BY <1>6, <3>1 DEF Counting
      <4>4. f \in Good /\ l \in Good
        BY <4>1 DEF Spans
      <4>5. \A t \in DOMAIN closed : Within(f, l, t)' = Within(f, l, t)
        BY <1>3, <1>6, <4>4 DEF Within
      <4>6. Exact(f, l)'
        BY <1>3, <4>1, <4>3, <4>5 DEF Exact
      <4> QED BY <4>2, <4>6 DEF Chained
    <3> QED BY <3>2, <3>3
  <2>2. CASE row.status # "error" /\ Good = {}
    <3>1. Good' = {n} /\ row.counted = {}
      BY <1>1, <1>5, <2>2
    <3>2. Spans(n, n)'
      BY <1>4, <3>1 DEF Spans
    <3>3. \A t : Counting(t)' = {}
      BY <1>2, <3>1 DEF Counting
    <3>4. \A t \in DOMAIN closed : ~Within(n, n, t)'
      BY <1>1, <1>2, <1>3 DEF Within
    <3>5. Exact(n, n)'
      BY <1>3, <3>3, <3>4 DEF Exact
    <3> QED BY <3>2, <3>5 DEF Chained
  <2>3. CASE row.status # "error" /\ Good # {}
    <3>1. PICK f, l : Spans(f, l) /\ Exact(f, l)
      BY <2>3 DEF NightInv, Chained
    <3>2. f \in Good /\ l \in Good /\ f \in DOMAIN recons /\ l \in DOMAIN recons /\ \A j \in Good : f <= j /\ j <= l
      BY <1>4, <3>1 DEF Spans
    <3>3. Newest(Good) = l
      BY <1>2, <1>4, <3>2 DEF Newest
    <3>4. /\ row.counted = {t \in DOMAIN closed : recons[l].ts <= closed[t] /\ closed[t] < now}
          /\ Good' = Good \cup {n}
      BY <1>1, <1>5, <2>3, <3>3
    <3>5. Spans(f, n)'
      <4>1. f <= n
        BY <1>4, <3>2
      <4> QED BY <1>4, <3>2, <3>4, <4>1 DEF Spans
    <3>6. /\ recons'[f] = recons[f] /\ recons'[n].ts = now
          /\ recons[f].ts \in Nat /\ recons[l].ts \in Nat /\ recons[f].ts <= recons[l].ts /\ recons[l].ts <= now
      <4>1. recons[f].ts \in Nat /\ recons[l].ts \in Nat
        BY <1>2, <3>2 DEF Recons
      <4>2. recons[f].ts <= recons[l].ts /\ recons[l].ts <= now
        BY <3>2 DEF NightInv, NightTypes, InOrder
      <4> QED BY <1>1, <1>2, <3>2, <4>1, <4>2
    <3>7. \A t : Counting(t)' = Counting(t) \cup (IF t \in row.counted THEN {n} ELSE {})
      <4>1. \A t : n \in Counting(t)' <=> t \in row.counted
        BY <1>2, <3>4 DEF Counting
      <4>2. \A t : \A i \in Good : i \in Counting(t)' <=> i \in Counting(t)
        BY <1>6, <3>4 DEF Counting
      <4>3. \A t : Counting(t)' \subseteq Good \cup {n} /\ Counting(t) \subseteq Good
        BY <3>4 DEF Counting
      <4> QED BY <1>4, <4>1, <4>2, <4>3
    <3>8. Exact(f, n)'
      <4> SUFFICES ASSUME NEW t \in DOMAIN closed
                   PROVE  IF Within(f, n, t)' THEN \E i : Counting(t)' = {i} ELSE Counting(t)' = {}
        BY <1>3 DEF Exact
      <4>1. IF Within(f, l, t) THEN \E i : Counting(t) = {i} ELSE Counting(t) = {}
        BY <3>1 DEF Exact
      <4>2. Within(f, n, t)' <=> recons[f].ts <= closed[t] /\ closed[t] < now
        BY <1>3, <3>6 DEF Within
      <4>3. Within(f, l, t) <=> recons[f].ts <= closed[t] /\ closed[t] < recons[l].ts
        BY DEF Within
      <4>4. t \in row.counted <=> recons[l].ts <= closed[t] /\ closed[t] < now
        BY <3>4
      <4>5. closed[t] \in Nat
        BY <1>3
      <4>6. CASE Within(f, l, t)
        <5>1. Within(f, n, t)' /\ t \notin row.counted
          BY <1>3, <3>6, <4>2, <4>3, <4>4, <4>5, <4>6
        <5>2. Counting(t)' = Counting(t)
          BY <3>7, <5>1
        <5>3. \E i : Counting(t)' = {i}
          BY <4>1, <4>6, <5>2
        <5> QED BY <5>1, <5>3
      <4>7. CASE ~Within(f, l, t)
        <5>1. Counting(t)' = IF t \in row.counted THEN {n} ELSE {}
          BY <3>7, <4>1, <4>7
        <5>2. t \in row.counted <=> Within(f, n, t)'
          BY <1>3, <3>6, <4>2, <4>3, <4>4, <4>5, <4>7
        <5> QED BY <5>1, <5>2
      <4> QED BY <4>6, <4>7
    <3> QED BY <3>5, <3>8 DEF Chained
  <2> QED BY <2>1, <2>2, <2>3
<1> QED BY <1>2, <1>7

(* What a step of the chain may change beside its own mark.                *)
LEMMA EffectOf ==
  ASSUME NEW step \in AllSteps, Effect(step)
  PROVE  /\ UNCHANGED labVars \/ \E p \in Labs : LaunchByHand(p)
         /\ UNCHANGED recons \/ Recon("equity_session")
         /\ kept' = kept \/ (step \in {"p100", "backup", "evening"} /\ kept' = kept \cup {<<Date, step>>})
<1>1. CASE step = "recon"
  BY <1>1 DEF Effect, Reconciles
<1>2. CASE step = "lab"
  BY <1>2 DEF Effect, LaunchByHand, labVars
<1>3. CASE step \in {"p100", "backup", "evening"}
  BY <1>3 DEF Effect
<1>4. CASE step = "history"
  BY <1>4 DEF Effect
<1> QED BY <1>1, <1>2, <1>3, <1>4 DEF AllSteps

(* Every step of the night is one of the labs', or leaves them alone.      *)
LEMMA NightMoves ==
  ASSUME NightInv, [Next]_vars
  PROVE  [LabMoves]_labVars
<1>1. ASSUME RunStep PROVE [LabMoves]_labVars
  <2>1. PICK i \in DOMAIN Steps : Effect(Steps[i])
    BY <1>1 DEF RunStep
  <2>2. Steps[i] \in AllSteps
    BY NightlyAssumption, LenProperties, ElementOfSeq
  <2> QED BY <2>1, <2>2, EffectOf DEF LabMoves, LabStep
<1>2. ASSUME LabRuns PROVE [LabMoves]_labVars
  <2>1. Date \in Nat
    BY NightlyBounds, Dates DEF NightInv, NightTypes, Date
  <2> QED BY <1>2, <2>1 DEF LabRuns, LabMoves
<1>3. ASSUME SleeveSweeps \/ Rollover \/ RolloverCut \/ CloseTrade \/ Kill \/ Restart \/ Tick \/ UNCHANGED vars
      PROVE  UNCHANGED labVars
  BY <1>3 DEF SleeveSweeps, Rollover, RolloverCut, CloseTrade, Kill, Restart, Tick, vars
<1> QED BY <1>1, <1>2, <1>3 DEF Next

(* Nothing that leaves the rows and the trades alone breaks their chain.   *)
LEMMA ChainStays ==
  ASSUME NightInv, UNCHANGED <<recons, closed>>
  PROVE  InOrder' /\ Chained'
<1>1. InOrder'
  BY DEF NightInv, InOrder
<1>2. Good' = Good
  BY DEF Good
<1>3. \A t : Counting(t)' = Counting(t)
  BY <1>2 DEF Counting
<1>4. \A f, l : Spans(f, l)' = Spans(f, l)
  BY <1>2 DEF Spans
<1>5. \A f, l, t : Within(f, l, t)' = Within(f, l, t)
  BY DEF Within
<1>6. \A f, l : Exact(f, l)' = Exact(f, l)
  BY <1>3, <1>5 DEF Exact
<1> QED BY <1>1, <1>2, <1>4, <1>6 DEF NightInv, Chained

(* A trade closed now comes after every row there is.                      *)
LEMMA ChainClosed ==
  ASSUME NightInv, closed' = Append(closed, now), UNCHANGED <<recons, now>>
  PROVE  /\ InOrder' /\ Chained' /\ closed' \in Seq(0..now)
         /\ \A i \in DOMAIN recons : recons[i].counted \subseteq DOMAIN closed'
<1>n. PICK n : n = Len(closed) + 1
  OBVIOUS
<1>1. now \in 0..now /\ closed \in Seq(0..now) /\ now \in Nat
  BY NightlyBounds DEF NightInv, NightTypes
<1>2. /\ closed' \in Seq(0..now) /\ DOMAIN closed' = DOMAIN closed \cup {n}
      /\ \A t \in DOMAIN closed : closed'[t] = closed[t]
      /\ closed'[n] = now /\ n \notin DOMAIN closed
  <2>1. Len(closed) \in Nat /\ DOMAIN closed = 1..Len(closed)
    BY <1>1, LenProperties
  <2>2. /\ closed' \in Seq(0..now) /\ Len(closed') = n
        /\ \A t \in 1..Len(closed) : closed'[t] = closed[t]
        /\ closed'[n] = now
    BY <1>n, <1>1, <2>1, AppendProperties
  <2>3. DOMAIN closed' = 1..n
    BY <2>2, LenProperties
  <2> QED BY <1>n, <2>1, <2>2, <2>3
<1>3. InOrder'
  BY DEF NightInv, InOrder
<1>4. Good' = Good
  BY DEF Good
<1>5. \A t : Counting(t)' = Counting(t)
  BY <1>4 DEF Counting
<1>6. Counting(n) = {}
  BY <1>2 DEF NightInv, NightTypes, Counting, Good
<1>9. \A i \in DOMAIN recons : recons[i].counted \subseteq DOMAIN closed'
  <2>1. \A i \in DOMAIN recons : recons[i].counted \subseteq DOMAIN closed
    BY DEF NightInv, NightTypes
  <2> QED BY <1>2, <2>1
<1>7. ASSUME Good # {} PROVE Chained'
  <2>1. PICK f, l : Spans(f, l) /\ Exact(f, l)
    BY <1>7 DEF NightInv, Chained
  <2>2. Spans(f, l)'
    BY <1>4, <2>1 DEF Spans
  <2>3. recons[l].ts <= now /\ recons[l].ts \in Nat
    <3>1. l \in DOMAIN recons
      BY <2>1 DEF Spans, Good
    <3>2. recons[l] \in Recons
      BY <3>1, ElementOfSeq, LenProperties DEF NightInv, NightTypes
    <3> QED BY <3>1, <3>2 DEF NightInv, NightTypes, Recons
  <2>4. ~Within(f, l, n)'
    BY <1>1, <1>2, <2>3 DEF Within
  <2>5. \A t \in DOMAIN closed : Within(f, l, t)' = Within(f, l, t)
    BY <1>2 DEF Within
  <2>6. Exact(f, l)'
    BY <1>2, <1>5, <1>6, <2>1, <2>4, <2>5 DEF Exact
  <2> QED BY <2>2, <2>6 DEF Chained
<1>8. ASSUME Good = {} PROVE Chained'
  BY <1>4, <1>8 DEF Chained
<1> QED BY <1>2, <1>3, <1>7, <1>8, <1>9

(* The types are kept by a step of the chain ...                           *)
LEMMA RunStepKeeps ==
  ASSUME NightInv, RunStep
  PROVE  NightTypes' /\ InOrder' /\ Chained'
<1>1. PICK i \in DOMAIN Steps :
        /\ Effect(Steps[i]) /\ UNCHANGED <<now, up, swept, rolled, closed, kills>>
        /\ done' = done \cup {<<Date, Steps[i]>>}
  BY DEF RunStep, Marked
<1>2. Steps[i] \in AllSteps /\ Steps[i] \in ToSet(Steps)
  BY NightlyAssumption, LenProperties, ElementOfSeq DEF ToSet
<1>3. Date' = Date /\ Date \in 0..Date
  BY <1>1, NightlyBounds, Dates DEF NightInv, NightTypes, Date
<1>4. kept' \subseteq (0..Date) \X {"p100", "backup", "evening"}
  BY <1>1, <1>2, <1>3, EffectOf DEF NightInv, NightTypes
<1>5. done' \subseteq (0..Date) \X ToSet(Steps)
  BY <1>1, <1>2, <1>3 DEF NightInv, NightTypes
<1>6. CASE UNCHANGED recons
  BY <1>1, <1>3, <1>4, <1>5, <1>6, ChainStays DEF NightInv, NightTypes
<1>7. CASE Recon("equity_session")
  BY <1>1, <1>3, <1>4, <1>5, <1>7, ChainGrows DEF NightInv, NightTypes
<1> QED BY <1>1, <1>2, <1>6, <1>7, EffectOf

(* ... and by the others.                                                  *)
LEMMA OthersKeep ==
  ASSUME NightInv, SleeveSweeps \/ Rollover \/ RolloverCut \/ CloseTrade \/ Kill \/ Restart \/ Tick
                   \/ LabRuns \/ UNCHANGED vars
  PROVE  NightTypes' /\ InOrder' /\ Chained'
<1> USE DEF NightInv, NightTypes
<1>0. /\ now \in Nat /\ Date \in Nat /\ RollDate \in 0..(Date + 1)
      /\ Row(RollDate) \in [date : 0..(Date + 1), in : {"store", "memory"}]
      /\ Memo(RollDate) \in [date : 0..(Date + 1), in : {"store", "memory"}]
      /\ Rows \subseteq rolled
  BY NightlyBounds, Dates DEF Date, RollDate, Row, Memo, Rows
<1>a. now' = now => Date' = Date
  BY DEF Date
<1>1. CASE SleeveSweeps
  BY <1>1, <1>a, ChainStays DEF SleeveSweeps
<1>2. CASE Rollover
  <2>1. rolled' \subseteq [date : 0..(Date + 1), in : {"store", "memory"}]
    BY <1>0, <1>2 DEF Rollover
  <2>2. /\ recons' \in Seq(Recons) /\ InOrder' /\ Chained'
        /\ \A i \in DOMAIN recons' : recons'[i].counted \subseteq DOMAIN closed' /\ recons'[i].ts <= now'
    BY <1>2, ChainGrows, ChainStays DEF Rollover, Reconciles
  <2> QED BY <1>2, <1>a, <2>1, <2>2 DEF Rollover
<1>3. CASE RolloverCut
  <2>1. kills' \in 0..MaxKills /\ done' = {} /\ up' = FALSE
    BY <1>3, NightlyBounds DEF RolloverCut, Dies
  <2>2. rolled' \subseteq [date : 0..(Date + 1), in : {"store", "memory"}]
    BY <1>0, <1>3 DEF RolloverCut
  <2> QED BY <1>3, <1>a, <2>1, <2>2, ChainStays DEF RolloverCut
<1>4. CASE CloseTrade
  BY <1>4, <1>a, ChainClosed DEF CloseTrade
<1>5. CASE Kill
  <2>1. kills' \in 0..MaxKills /\ done' = {} /\ up' = FALSE
    BY <1>5, NightlyBounds DEF Kill, Dies
  <2>2. rolled' \subseteq [date : 0..(Date + 1), in : {"store", "memory"}]
    BY <1>0, <1>5 DEF Kill
  <2> QED BY <1>5, <1>a, <2>1, <2>2, ChainStays DEF Kill
<1>6. CASE Restart
  BY <1>6, <1>a, ChainStays DEF Restart
<1>7. CASE Tick
  <2>1. now' \in 0..(3 * Days - 1) /\ now' = now + 1
    BY <1>0, <1>7, NightlyBounds DEF Tick
  <2>2. 0..Date \subseteq 0..Date' /\ 0..(Date + 1) \subseteq 0..(Date' + 1) /\ Date' \in Nat
    BY <1>0, <2>1, Dates DEF Date
  <2>3. UNCHANGED <<up, done, kept, rolled, recons, closed, kills>> /\ swept' \subseteq Waits
    BY <1>7 DEF Tick
  <2>4. done' \subseteq (0..Date') \X ToSet(Steps) /\ kept' \subseteq (0..Date') \X {"p100", "backup", "evening"}
    BY <2>2, <2>3
  <2>5. rolled' \subseteq [date : 0..(Date' + 1), in : {"store", "memory"}]
    <3>1. [date : 0..(Date + 1), in : {"store", "memory"}] \subseteq [date : 0..(Date' + 1), in : {"store", "memory"}]
      BY <2>2
    <3> QED BY <2>3, <3>1
  <2>6. closed' \in Seq(0..now')
    <3>1. 0..now \subseteq 0..now' /\ closed' = closed
      BY <1>0, <2>1, <2>3
    <3>2. closed \in Seq(0..now)
      OBVIOUS
    <3>5. closed \in Seq(0..now')
      BY <3>2, <3>1, SeqWider
    <3> QED BY <3>1, <3>5
  <2>7. \A j \in DOMAIN recons' : recons'[j].counted \subseteq DOMAIN closed' /\ recons'[j].ts <= now'
    <3>0. recons \in Seq(Recons)
      OBVIOUS
    <3>1. \A j \in DOMAIN recons : recons[j] \in Recons
      BY <3>0, LenProperties, ElementOfSeq
    <3>2. \A j \in DOMAIN recons : recons[j].ts \in Nat
      BY <3>1 DEF Recons
    <3> QED BY <1>0, <2>1, <2>3, <3>2
  <2> QED BY <2>1, <2>3, <2>4, <2>5, <2>6, <2>7, ChainStays
<1>8. CASE LabRuns
  BY <1>8, <1>a, ChainStays DEF LabRuns, nightVars
<1>9. CASE UNCHANGED vars
  BY <1>9, <1>a, ChainStays DEF vars, nightVars
<1> QED BY <1>1, <1>2, <1>3, <1>4, <1>5, <1>6, <1>7, <1>8, <1>9

LEMMA NightStep == NightInv /\ [Next]_vars => NightInv'
<1> SUFFICES ASSUME NightInv, [Next]_vars PROVE NightInv'
  OBVIOUS
<1>1. LabInv'
  BY NightMoves, InvStep DEF NightInv
<1>2. NightTypes' /\ InOrder' /\ Chained'
  BY RunStepKeeps, OthersKeep DEF Next
<1> QED BY <1>1, <1>2 DEF NightInv

LEMMA NightAlways == Spec => []NightInv
<1> QED BY NightInit, NightStep, PTL DEF Spec

(* NightTypeCorrect: the night's marks, rows and rollovers are of dates    *)
(* there have been, a row counts only trades that were closed, and what    *)
(* holds of the labs by themselves holds of the one the chain launches.    *)
THEOREM NightTypeCorrect == Spec => []TypeOK
<1>1. NightInv => TypeOK
  <2> SUFFICES ASSUME NightInv PROVE TypeOK
    OBVIOUS
  <2>1. \A t \in DOMAIN closed : closed[t] \in 0..now
    BY LenProperties, ElementOfSeq DEF NightInv, NightTypes
  <2> QED BY <2>1, LabTyped DEF NightInv, NightTypes, TypeOK
<1> QED BY <1>1, NightAlways, PTL

(* TradesCountedOnce (recon.py run_recon, WindowsExact): for every chain,  *)
(* number of days and kills: whichever kinds of reconciliation follow each *)
(* other, fail or are run again, the good ones count every trade closed    *)
(* between the first of them and the newest exactly once, and no other.    *)
THEOREM TradesCountedOnce == Spec => []WindowsExact
<1>1. NightInv => WindowsExact
  <2> SUFFICES ASSUME NightInv, NEW t \in DOMAIN closed
               PROVE  LET in == {i \in Good : t \in recons[i].counted}
                          first == CHOOSE i \in Good : \A j \in Good : i <= j
                      IN  IF Good # {} /\ recons[first].ts <= closed[t] /\ closed[t] < recons[Newest(Good)].ts
                          THEN Cardinality(in) = 1 ELSE in = {}
    BY DEF WindowsExact
  <2>1. CASE Good = {}
    BY <2>1
  <2>2. CASE Good # {}
    <3>1. PICK f, l : Spans(f, l) /\ Exact(f, l)
      BY <2>2 DEF NightInv, Chained
    <3>2. Good \subseteq Nat
      BY LenProperties DEF Good, NightInv, NightTypes
    <3>a. f \in Good /\ l \in Good /\ f \in Nat /\ l \in Nat /\ \A j \in Good : f <= j /\ j <= l
      BY <3>1, <3>2 DEF Spans
    <3>3. (CHOOSE i \in Good : \A j \in Good : i <= j) = f
      <4> DEFINE c == CHOOSE i \in Good : \A j \in Good : i <= j
      <4>1. c \in Good /\ \A j \in Good : c <= j
        BY <3>a
      <4>2. c <= f /\ f <= c /\ c \in Nat
        BY <3>2, <3>a, <4>1
      <4> HIDE DEF c
      <4>3. c = f
        BY <3>a, <4>2
      <4> QED BY <4>3 DEF c
    <3>4. Newest(Good) = l
      <4>1. Newest(Good) \in Good /\ \A j \in Good : j <= Newest(Good)
        BY <3>a DEF Newest
      <4>2. Newest(Good) <= l /\ l <= Newest(Good) /\ Newest(Good) \in Nat
        BY <3>2, <3>a, <4>1
      <4> QED BY <3>a, <4>2
    <3>5. IF Within(f, l, t) THEN \E i : Counting(t) = {i} ELSE Counting(t) = {}
      BY <3>1 DEF Exact
    <3>6. \A i : Counting(t) = {i} => Cardinality(Counting(t)) = 1
      BY FS_Singleton
    <3> QED BY <2>2, <3>3, <3>4, <3>5, <3>6 DEF Within, Counting
  <2> QED BY <2>1, <2>2
<1> QED BY <1>1, NightAlways, PTL

(* NewestPendingAtNight: a lab of the chain's beside one started by hand   *)
(* leaves a candidate at most its newest suggestion to decide, on whatever *)
(* date each of them runs.                                                 *)
THEOREM NewestPendingAtNight == Spec => []OnePending
<1>1. Init => OnePending
  BY DEF Init, LabInit, OnePending
<1>2. NightInv /\ OnePending /\ [Next]_vars => OnePending'
  BY NightMoves, PendingStep DEF NightInv
<1> QED BY <1>1, <1>2, NightAlways, PTL DEF Spec

(* DecisionsFinalAtNight: and no lab the chain launches undoes a decision. *)
THEOREM DecisionsFinalAtNight == Spec => DecisionsStand
<1>1. NightInv /\ [Next]_vars => [Stands]_labVars
  BY NightMoves, DecisionStep DEF NightInv
<1> QED BY <1>1, NightAlways, PTL DEF Spec, DecisionsStand, Stands
=============================================================================
