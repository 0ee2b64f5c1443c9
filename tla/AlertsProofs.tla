---------------------------- MODULE AlertsProofs ----------------------------
(***************************************************************************)
(* What holds of the alerts for every set of sleeves, every timetable,     *)
(* every limit and any number of kills and failed sends.                   *)
(***************************************************************************)
EXTENDS Alerts, SequenceTheorems, WellFoundedInduction, TLAPS

Row == [ts : Nat, status : {"sent", "failed", "suppressed"}]
Place == [pc : {"off", "check", "send", "record"}, todo : SUBSET Keys, key : Keys, at : Nat,
          status : {"none", "sent", "failed"}]

\* Each key is told by one process.
Owner(key) == IF key = Restarted THEN "engine" ELSE "watchdog"

Types ==
  /\ now \in Nat /\ ran \in Nat /\ up \in BOOLEAN
  /\ last \in [Sleeves -> Nat] /\ proc \in [Processes -> Place]
  /\ alerts \in [Keys -> Seq(Row)] /\ told \in [Keys -> Seq(Nat)]

Placed ==
  /\ \A p \in Processes :
       /\ \A k \in proc[p].todo : Owner(k) = p
       /\ proc[p].pc \in {"send", "record"} => proc[p].key \in proc[p].todo
       /\ proc[p].pc = "off" => proc[p].todo = {}
       /\ proc[p].pc = "record" => proc[p].status \in {"sent", "failed"}
       /\ proc[p].at <= now
  /\ ran <= now
  /\ proc["watchdog"].pc # "off" => proc["watchdog"].at = ran
  /\ ~up => proc["engine"].pc = "off"

\* The rows of a key are in the order of their times, and none is of a later
\* time than the one its process writes next.
Clock(p) == IF proc[p].pc = "off" THEN now ELSE proc[p].at
RowsOrdered ==
  \A k \in Keys :
    /\ \A i \in DOMAIN alerts[k] : alerts[k][i].ts <= Clock(Owner(k))
    /\ \A i, j \in DOMAIN alerts[k] : i < j => alerts[k][i].ts <= alerts[k][j].ts

\* A row says "sent" only of what was delivered.
Delivered(k, t) == \E i \in DOMAIN told[k] : told[k][i] = t
SentDelivered ==
  /\ \A k \in Keys : \A j \in Counting(k) : Delivered(k, alerts[k][j].ts)
  /\ \A p \in Processes :
       proc[p].pc = "record" /\ proc[p].status = "sent" => Delivered(proc[p].key, proc[p].at)

\* A sleeve that was stale when the watchdog last looked is still to be told
\* of, or is known.
StaleAt(s, t) == \E m \in Marks[s] : t - Back <= m /\ m < t - Stale /\ last[s] < m
Known(s, t) ==
  \/ \E i \in DOMAIN told[s] : t - told[s][i] < RateLimit
  \/ \E i \in DOMAIN alerts[s] : alerts[s][i] = [ts |-> t, status |-> "failed"]
Attended == \A s \in Sleeves : StaleAt(s, ran) => s \in proc["watchdog"].todo \/ Known(s, ran)

AlertsInv == Types /\ Placed /\ RowsOrdered /\ SentDelivered /\ Attended

\* What was delivered has its row, or is about to get it.
Pending(k, t) ==
  LET p == proc[Owner(k)] IN p.pc = "record" /\ p.key = k /\ p.status = "sent" /\ p.at = t
RowFor(k, t) == \E j \in Counting(k) : alerts[k][j].ts = t
DeliveredKnown == \A k \in Keys : \A i \in DOMAIN told[k] : RowFor(k, told[k][i]) \/ Pending(k, told[k][i])

\* Nothing that counts is too young while a message is on its way.
Free(key, at) == \A j \in Counting(key) : at - alerts[key][j].ts >= RateLimit
SendsFree == \A p \in Processes : proc[p].pc = "send" => Free(proc[p].key, proc[p].at)

LimitInv == DeliveredKnown /\ SendsFree /\ OncePerLimit

-----------------------------------------------------------------------------
(* Lemmas                                                                  *)

(* Bounded sets of numbers have a greatest element.                        *)
LEMMA GreatestOne ==
  ASSUME NEW n \in Nat, NEW S \in SUBSET (0..n), S # {}
  PROVE  Max(S) \in S /\ \A x \in S : x <= Max(S)
<1> DEFINE Below == {p \in Nat \X Nat : p[1] < p[2]}
           T == {n - x : x \in S}
<1>1. IsWellFoundedOn(Below, Nat)
  BY NatLessThanWellFounded DEF OpToRel
<1>2. T \subseteq Nat /\ T # {}
  <2>1. \A x \in S : n - x \in Nat
    OBVIOUS
  <2>2. PICK x \in S : TRUE
    OBVIOUS
  <2>3. n - x \in T
    BY <2>2
  <2> QED BY <2>1, <2>3
<1>3. \E x \in T : \A y \in T : <<y, x>> \notin Below
  <2> HIDE DEF Below, T
  <2> QED BY <1>1, <1>2, WFMin
<1>4. PICK x \in T : \A y \in T : <<y, x>> \notin Below
  BY <1>3
<1>5. \A y \in T : ~(y < x)
  BY <1>2, <1>4
<1>6. PICK m \in S : x = n - m
  BY <1>4
<1>7. ASSUME NEW z \in S PROVE z <= m
  <2>1. n - z \in T
    OBVIOUS
  <2>2. ~(n - z < n - m)
    BY <1>5, <1>6, <2>1
  <2> QED BY <2>2
<1> QED BY <1>7 DEF Max

(* The newest row that counts is the youngest of them.                     *)
LEMMA NewestIsYoungest ==
  ASSUME AlertsInv, NEW key \in Keys, NEW at \in Nat
  PROVE  /\ ~Limited(key, at) => Free(key, at)
         /\ Limited(key, at) => \E j \in Counting(key) : at - alerts[key][j].ts < RateLimit
<1>1. alerts[key] \in Seq(Row) /\ Len(alerts[key]) \in Nat /\ DOMAIN alerts[key] = 1..Len(alerts[key])
  BY LenProperties DEF AlertsInv, Types
<1>2. Counting(key) \in SUBSET (0..Len(alerts[key])) /\ Counting(key) \subseteq DOMAIN alerts[key]
  BY <1>1 DEF Counting
<1>3. \A j \in Counting(key) : alerts[key][j].ts \in Nat
  <2>1. \A i \in 1..Len(alerts[key]) : alerts[key][i] \in Row
    BY <1>1, ElementOfSeq
  <2> QED BY <1>1, <1>2, <2>1 DEF Row
<1>4. Counting(key) # {} =>
        /\ Max(Counting(key)) \in Counting(key)
        /\ \A j \in Counting(key) : j <= Max(Counting(key))
  BY <1>1, <1>2, GreatestOne
<1>5. ASSUME NEW j \in Counting(key) PROVE alerts[key][j].ts <= alerts[key][Max(Counting(key))].ts
  <2>1. Max(Counting(key)) \in Counting(key) /\ j <= Max(Counting(key))
    BY <1>4
  <2>2. j \in DOMAIN alerts[key] /\ Max(Counting(key)) \in DOMAIN alerts[key]
    BY <1>2, <2>1
  <2>3. CASE j = Max(Counting(key))
    BY <1>3, <2>3
  <2>4. CASE j < Max(Counting(key))
    BY <2>2, <2>4 DEF AlertsInv, RowsOrdered
  <2> QED BY <1>1, <2>1, <2>2, <2>3, <2>4
<1>6. ASSUME ~Limited(key, at), NEW j \in Counting(key) PROVE at - alerts[key][j].ts >= RateLimit
  <2>1. ~(at - alerts[key][Max(Counting(key))].ts < RateLimit)
    BY <1>6 DEF Limited
  <2>2. Max(Counting(key)) \in Counting(key) /\ alerts[key][Max(Counting(key))].ts \in Nat
    BY <1>3, <1>4
  <2> QED BY <1>3, <1>5, <2>1, <2>2, AlertsAssumption
<1>7. Limited(key, at) => \E j \in Counting(key) : at - alerts[key][j].ts < RateLimit
  BY <1>4 DEF Limited
<1> QED BY <1>6, <1>7 DEF Free

(* A process at work writes one row of one key.                            *)
LEMMA Writes ==
  ASSUME AlertsInv, NEW p \in Processes, NEW key \in Keys, NEW status \in {"sent", "failed", "suppressed"},
         alerts' = Written(p, key, status)
  PROVE  LET n == Len(alerts[key])
             row == [ts |-> proc[p].at, status |-> status]
         IN  /\ alerts' \in [Keys -> Seq(Row)] /\ row \in Row
             /\ \A k \in Keys \ {key} : alerts'[k] = alerts[k]
             /\ n \in Nat /\ DOMAIN alerts[key] = 1..n /\ DOMAIN alerts'[key] = 1..(n + 1)
             /\ \A i \in 1..n : alerts'[key][i] = alerts[key][i]
             /\ alerts'[key][n + 1] = row
<1> DEFINE row == [ts |-> proc[p].at, status |-> status]
<1>1. row \in Row
  BY DEF AlertsInv, Types, Place, Row
<1>2. alerts[key] \in Seq(Row) /\ Len(alerts[key]) \in Nat /\ DOMAIN alerts[key] = 1..Len(alerts[key])
  BY LenProperties DEF AlertsInv, Types
<1>3. alerts' = [alerts EXCEPT ![key] = Append(alerts[key], row)]
  BY DEF Written
<1> HIDE DEF row
<1>4. /\ Append(alerts[key], row) \in Seq(Row) /\ Len(Append(alerts[key], row)) = Len(alerts[key]) + 1
      /\ \A i \in 1..Len(alerts[key]) : Append(alerts[key], row)[i] = alerts[key][i]
      /\ Append(alerts[key], row)[Len(alerts[key]) + 1] = row
  BY <1>1, <1>2, AppendProperties
<1>5. DOMAIN Append(alerts[key], row) = 1..(Len(alerts[key]) + 1)
  BY <1>4, LenProperties
<1>6. /\ alerts' \in [Keys -> Seq(Row)] /\ alerts'[key] = Append(alerts[key], row)
      /\ \A k \in Keys \ {key} : alerts'[k] = alerts[k]
  BY <1>3, <1>4 DEF AlertsInv, Types
<1> QED BY <1>1, <1>2, <1>4, <1>5, <1>6 DEF row

(* Done with a key, the process has the others to tell.                    *)
LEMMA AfterKeyFits ==
  ASSUME AlertsInv, NEW p \in Processes, NEW key
  PROVE  /\ AfterKey(p, key) \in Place /\ AfterKey(p, key).pc \in {"off", "check"}
         /\ AfterKey(p, key).todo = proc[p].todo \ {key}
         /\ AfterKey(p, key).pc = "off" => proc[p].todo \ {key} = {}
         /\ AfterKey(p, key).pc # "off" => AfterKey(p, key).at = proc[p].at
         /\ AfterKey(p, key).at <= proc[p].at
<1> DEFINE rest == proc[p].todo \ {key}
<1>1. proc[p] \in Place
  BY DEF AlertsInv, Types
<1>2. CASE rest = {}
  <2>1. AfterKey(p, key) = Off
    BY <1>2 DEF AfterKey
  <2>2. Off \in Place /\ Off.pc = "off" /\ Off.todo = {} /\ Off.at = 0
    BY DEF Off, Place, Keys
  <2> QED BY <1>1, <1>2, <2>1, <2>2 DEF Place
<1>3. CASE rest # {}
  <2> DEFINE a == [proc[p] EXCEPT !.pc = "check"]
             b == [a EXCEPT !.todo = rest]
             c == [b EXCEPT !.status = "none"]
  <2>1. a \in Place /\ a.pc = "check" /\ a.at = proc[p].at /\ a.todo = proc[p].todo
    BY <1>1 DEF Place
  <2>2. AfterKey(p, key) = c
    BY <1>1, <1>3 DEF AfterKey, Place
  <2> HIDE DEF a
  <2>3. b \in Place /\ b.pc = "check" /\ b.at = a.at /\ b.todo = rest
    <3>1. rest \in SUBSET Keys
      BY <1>1 DEF Place
    <3> HIDE DEF rest
    <3> QED BY <2>1, <3>1 DEF Place
  <2> HIDE DEF b
  <2>4. c \in Place /\ c.pc = "check" /\ c.at = b.at /\ c.todo = b.todo
    BY <2>3 DEF Place
  <2> HIDE DEF c
  <2>5. proc[p].at \in Nat
    BY <1>1 DEF Place
  <2> QED BY <1>3, <2>1, <2>2, <2>3, <2>4, <2>5
<1> QED BY <1>2, <1>3

-----------------------------------------------------------------------------
(* The invariant                                                           *)

LEMMA InvInit == Init => AlertsInv /\ LimitInv
<1> SUFFICES ASSUME Init PROVE AlertsInv /\ LimitInv
  OBVIOUS
<1> USE DEF Init
<1>1. Off \in Place /\ Off.pc = "off" /\ Off.todo = {} /\ Off.at = 0
  BY DEF Off, Place, Keys
<1>2. Types
  BY <1>1 DEF Types
<1>3. Placed
  BY <1>1 DEF Placed, Processes
<1>4. \A k \in Keys : Counting(k) = {} /\ DOMAIN alerts[k] = {} /\ DOMAIN told[k] = {}
  BY DEF Counting
<1>5. RowsOrdered /\ SentDelivered
  BY <1>1, <1>4 DEF RowsOrdered, SentDelivered
<1>6. Attended
  <2> SUFFICES ASSUME NEW s \in Sleeves, NEW m \in Marks[s], m < 0 - Stale PROVE FALSE
    BY DEF Attended, StaleAt
  <2>1. m \in 1..Horizon /\ Stale \in Nat /\ Horizon \in Nat
    BY AlertsAssumption
  <2> QED BY <2>1
<1>7. LimitInv
  BY <1>1, <1>4 DEF LimitInv, DeliveredKnown, SendsFree, OncePerLimit
<1> QED BY <1>2, <1>3, <1>5, <1>6, <1>7 DEF AlertsInv

(* A row of the key that a process tells, whether the alert was suppressed *)
(* or sent: the row says "sent" only of what was delivered, and a failed   *)
(* or suppressed one is accounted for.                                     *)
LEMMA InvWrites ==
  ASSUME AlertsInv, NEW p \in Processes, NEW key \in proc[p].todo, NEW status \in {"sent", "failed", "suppressed"},
         proc[p].pc # "off", alerts' = Written(p, key, status), proc' = [proc EXCEPT ![p] = AfterKey(p, key)],
         UNCHANGED <<now, last, up, ran, told>>,
         status = "sent" => Delivered(key, proc[p].at),
         status = "suppressed" => \E i \in DOMAIN told[key] : proc[p].at - told[key][i] < RateLimit
  PROVE  AlertsInv'
<1> USE DEF AlertsInv
<1> DEFINE n == Len(alerts[key])
           row == [ts |-> proc[p].at, status |-> status]
<1>1. key \in Keys /\ Owner(key) = p /\ proc[p] \in Place /\ proc[p].at \in Nat
  BY DEF Types, Place, Placed
<1>2. /\ alerts' \in [Keys -> Seq(Row)] /\ row \in Row
      /\ \A k \in Keys \ {key} : alerts'[k] = alerts[k]
      /\ n \in Nat /\ DOMAIN alerts[key] = 1..n /\ DOMAIN alerts'[key] = 1..(n + 1)
      /\ \A i \in 1..n : alerts'[key][i] = alerts[key][i]
      /\ alerts'[key][n + 1] = row
  BY <1>1, Writes
<1>3. row.ts = proc[p].at /\ row.status = status
  OBVIOUS
<1> HIDE DEF row, n
<1>4. /\ proc' \in [Processes -> Place]
      /\ \A q \in Processes : proc'[q] = IF q = p THEN AfterKey(p, key) ELSE proc[q]
  BY AfterKeyFits DEF Types
<1>5. /\ AfterKey(p, key).pc \in {"off", "check"} /\ AfterKey(p, key).todo = proc[p].todo \ {key}
      /\ AfterKey(p, key).pc = "off" => proc[p].todo \ {key} = {}
      /\ AfterKey(p, key).pc # "off" => AfterKey(p, key).at = proc[p].at
      /\ AfterKey(p, key).at <= proc[p].at /\ AfterKey(p, key).at \in Nat
  BY AfterKeyFits DEF Place
<1>6. Types'
  BY <1>2, <1>4 DEF Types
<1>7. Placed'
  <2>1. ASSUME NEW q \in Processes
        PROVE  /\ \A k \in proc'[q].todo : Owner(k) = q
               /\ proc'[q].pc \in {"send", "record"} => proc'[q].key \in proc'[q].todo
               /\ proc'[q].pc = "off" => proc'[q].todo = {}
               /\ proc'[q].pc = "record" => proc'[q].status \in {"sent", "failed"}
               /\ proc'[q].at <= now
    <3>1. CASE q = p
      BY <1>1, <1>4, <1>5, <3>1 DEF Placed, Types
    <3>2. CASE q # p
      BY <1>4, <3>2 DEF Placed
    <3> QED BY <3>1, <3>2
  <2>2. proc'["watchdog"].pc # "off" => proc'["watchdog"].at = ran
    BY <1>4, <1>5 DEF Placed, Processes
  <2>3. ~up => proc'["engine"].pc = "off"
    BY <1>4, <1>5 DEF Placed, Processes
  <2> QED BY <2>1, <2>2, <2>3 DEF Placed
<1>8. RowsOrdered'
  <2>1. Clock(p) = proc[p].at /\ Clock(p)' >= proc[p].at
    BY <1>1, <1>4, <1>5 DEF Clock, Placed, Types
  <2>2. ASSUME NEW k \in Keys \ {key}
        PROVE  /\ \A i \in DOMAIN alerts'[k] : alerts'[k][i].ts <= Clock(Owner(k))'
               /\ \A i, j \in DOMAIN alerts'[k] : i < j => alerts'[k][i].ts <= alerts'[k][j].ts
    <3>1. alerts'[k] = alerts[k] /\ Owner(k) \in Processes
      BY <1>2 DEF Owner, Processes
    <3>2. \A i \in DOMAIN alerts[k] : alerts[k][i].ts \in Nat
      <4>1. alerts[k] \in Seq(Row)
        BY DEF Types
      <4>2. \A i \in DOMAIN alerts[k] : alerts[k][i] \in Row
        BY <4>1, ElementOfSeq, LenProperties
      <4> QED BY <4>2 DEF Row
    <3>3. Clock(Owner(k)) \in Nat /\ Clock(Owner(k))' \in Nat /\ Clock(Owner(k)) <= Clock(Owner(k))'
      <4>1. CASE Owner(k) = p
        BY <1>1, <1>4, <1>5, <2>1, <4>1 DEF Clock, Types, Place
      <4>2. CASE Owner(k) # p
        BY <1>4, <3>1, <4>2 DEF Clock, Types, Place
      <4> QED BY <4>1, <4>2
    <3> QED BY <3>1, <3>2, <3>3 DEF RowsOrdered
  <2>3. \A i \in 1..n : alerts[key][i].ts \in Nat /\ alerts[key][i].ts <= proc[p].at
    <3>1. alerts[key] \in Seq(Row)
      BY <1>1 DEF Types
    <3>2. \A i \in 1..n : alerts[key][i] \in Row
      BY <1>2, <3>1, ElementOfSeq, LenProperties
    <3> QED BY <1>1, <1>2, <2>1, <3>2 DEF RowsOrdered, Row
  <2>4. \A i \in 1..(n + 1) : alerts'[key][i].ts <= Clock(Owner(key))'
    <3>1. Clock(p)' \in Nat
      BY <1>4, <1>5 DEF Clock, Types
    <3>2. ASSUME NEW i \in 1..(n + 1) PROVE alerts'[key][i].ts \in Nat /\ alerts'[key][i].ts <= proc[p].at
      <4>1. CASE i = n + 1
        BY <1>1, <1>2, <1>3, <4>1
      <4>2. CASE i \in 1..n
        BY <1>2, <2>3, <4>2
      <4> QED BY <1>2, <4>1, <4>2
    <3> QED BY <1>1, <2>1, <3>1, <3>2
  <2>5. \A i, j \in 1..(n + 1) : i < j => alerts'[key][i].ts <= alerts'[key][j].ts
    <3> SUFFICES ASSUME NEW i \in 1..n, NEW j \in 1..(n + 1), i < j
                 PROVE  alerts'[key][i].ts <= alerts'[key][j].ts
      BY <1>2
    <3>1. CASE j = n + 1
      BY <1>2, <1>3, <2>3, <3>1
    <3>2. CASE j \in 1..n
      BY <1>1, <1>2, <3>2 DEF RowsOrdered
    <3> QED BY <1>2, <3>1, <3>2
  <2> QED BY <1>2, <2>2, <2>4, <2>5 DEF RowsOrdered
<1>9. SentDelivered'
  <2>1. ASSUME NEW k \in Keys, NEW j \in Counting(k)' PROVE Delivered(k, alerts[k][j].ts)'
    <3>1. j \in DOMAIN alerts'[k] /\ alerts'[k][j].status = "sent"
      BY DEF Counting, Counts
    <3>2. CASE k # key \/ j \in 1..n
      <4>1. j \in Counting(k) /\ alerts'[k][j] = alerts[k][j]
        BY <1>2, <3>1, <3>2 DEF Counting, Counts
      <4> QED BY <4>1 DEF SentDelivered, Delivered
    <3>3. CASE k = key /\ j = n + 1
      BY <1>2, <1>3, <3>1, <3>3 DEF Delivered
    <3> QED BY <1>2, <3>1, <3>2, <3>3
  <2>2. ASSUME NEW q \in Processes, proc'[q].pc = "record", proc'[q].status = "sent"
        PROVE  Delivered(proc[q].key, proc[q].at)'
    <3>1. q # p
      BY <1>4, <1>5, <2>2
    <3> QED BY <1>4, <2>2, <3>1 DEF SentDelivered, Delivered
  <2> QED BY <2>1, <2>2 DEF SentDelivered
<1>10. Attended'
  <2> SUFFICES ASSUME NEW s \in Sleeves, StaleAt(s, ran), s \notin proc'["watchdog"].todo
               PROVE  Known(s, ran)'
    BY DEF Attended, StaleAt
  <2>1. s \in Keys /\ "watchdog" \in Processes
    BY DEF Keys, Processes
  <2>2. CASE s \notin proc["watchdog"].todo
    <3>1. Known(s, ran)
      BY <2>2 DEF Attended
    <3>2. CASE s # key
      BY <1>2, <2>1, <3>1, <3>2 DEF Known
    <3>3. CASE s = key
      BY <1>2, <3>1, <3>3 DEF Known
    <3> QED BY <3>2, <3>3
  <2>3. CASE s \in proc["watchdog"].todo
    <3>1. p = "watchdog" /\ s = key
      BY <1>4, <1>5, <2>1, <2>3
    <3>2. proc[p].at = ran
      BY <3>1 DEF Placed
    <3>3. CASE status = "failed"
      <4>1. alerts'[s][n + 1] = [ts |-> ran, status |-> "failed"] /\ n + 1 \in DOMAIN alerts'[s]
        BY <1>2, <3>1, <3>2, <3>3 DEF row
      <4> QED BY <4>1 DEF Known
    <3>4. CASE status = "suppressed"
      BY <3>1, <3>2, <3>4 DEF Known
    <3>5. CASE status = "sent"
      <4>1. ran - ran < RateLimit /\ ran \in Nat
        BY AlertsAssumption DEF Types
      <4> QED BY <3>1, <3>2, <3>5, <4>1 DEF Known, Delivered
    <3> QED BY <3>3, <3>4, <3>5
  <2> QED BY <2>2, <2>3
<1> QED BY <1>6, <1>7, <1>8, <1>9, <1>10

(* A process goes on with an alert; what was delivered stays delivered.    *)
LEMMA InvGoesOn ==
  ASSUME AlertsInv, NEW p \in Processes, NEW l \in Place, proc' = [proc EXCEPT ![p] = l],
         proc[p].pc # "off", l.pc \in {"send", "record"}, l.todo = proc[p].todo, l.at = proc[p].at,
         l.key \in l.todo, l.pc = "record" => l.status \in {"sent", "failed"},
         UNCHANGED <<now, last, up, ran, alerts>>, told' \in [Keys -> Seq(Nat)],
         \A k \in Keys : \A i \in DOMAIN told[k] : i \in DOMAIN told'[k] /\ told'[k][i] = told[k][i],
         l.pc = "record" /\ l.status = "sent" => Delivered(l.key, l.at)'
  PROVE  AlertsInv'
<1> USE DEF AlertsInv
<1>1. proc' \in [Processes -> Place] /\ \A q \in Processes : proc'[q] = IF q = p THEN l ELSE proc[q]
  BY DEF Types
<1>2. Types'
  BY <1>1 DEF Types
<1>3. Placed'
  BY <1>1 DEF Placed, Processes
<1>4. RowsOrdered'
  <2>1. \A k \in Keys : Clock(Owner(k))' = Clock(Owner(k))
    BY <1>1 DEF Clock, Owner, Processes
  <2> QED BY <2>1 DEF RowsOrdered
<1>5. \A k \in Keys, t \in Nat : Delivered(k, t) => Delivered(k, t)'
  BY DEF Delivered
<1>6. SentDelivered'
  <2>1. ASSUME NEW k \in Keys, NEW j \in Counting(k)' PROVE Delivered(k, alerts[k][j].ts)'
    <3>1. j \in Counting(k)
      BY DEF Counting, Counts
    <3> QED BY <3>1 DEF SentDelivered, Delivered
  <2>2. ASSUME NEW q \in Processes, proc'[q].pc = "record", proc'[q].status = "sent"
        PROVE  Delivered(proc[q].key, proc[q].at)'
    <3>1. CASE q = p
      BY <1>1, <2>2, <3>1 DEF Delivered
    <3>2. CASE q # p
      BY <1>1, <2>2, <3>2 DEF SentDelivered, Delivered, Types, Place
    <3> QED BY <3>1, <3>2
  <2> QED BY <2>1, <2>2 DEF SentDelivered
<1>7. Attended'
  <2> SUFFICES ASSUME NEW s \in Sleeves, StaleAt(s, ran), s \notin proc'["watchdog"].todo
               PROVE  Known(s, ran)'
    BY DEF Attended, StaleAt
  <2>1. s \in Keys /\ s \notin proc["watchdog"].todo
    BY <1>1 DEF Keys, Processes
  <2>2. Known(s, ran)
    BY <2>1 DEF Attended
  <2> QED BY <2>1, <2>2 DEF Known
<1> QED BY <1>2, <1>3, <1>4, <1>6, <1>7

(* A message on its way is looked up in the store or delivered.            *)
LEMMA CheckOrSend ==
  ASSUME AlertsInv, NEW p \in Processes
  PROVE  /\ Check(p) => \E key \in proc[p].todo :
              \/ /\ Limited(key, proc[p].at)
                 /\ alerts' = Written(p, key, "suppressed") /\ proc' = [proc EXCEPT ![p] = AfterKey(p, key)]
              \/ /\ ~Limited(key, proc[p].at) /\ alerts' = alerts
                 /\ \E l \in Place :
                      /\ proc' = [proc EXCEPT ![p] = l]
                      /\ l.pc = "send" /\ l.key = key /\ l.todo = proc[p].todo /\ l.at = proc[p].at
         /\ Send(p) => \E outcome \in Outcomes, l \in Place :
              /\ proc' = [proc EXCEPT ![p] = l]
              /\ l.pc = "record" /\ l.key = proc[p].key /\ l.todo = proc[p].todo /\ l.at = proc[p].at
              /\ l.status = (IF outcome = "sent" THEN "sent" ELSE "failed")
              /\ told' = IF outcome = "failed" THEN told ELSE [told EXCEPT ![proc[p].key] = Append(@, proc[p].at)]
<1>1. proc[p] \in Place
  BY DEF AlertsInv, Types
<1>2. ASSUME Check(p), NEW key \in proc[p].todo, ~Limited(key, proc[p].at),
             proc' = [proc EXCEPT ![p] = [@ EXCEPT !.pc = "send", !.key = key]]
      PROVE  \E l \in Place :
               /\ proc' = [proc EXCEPT ![p] = l]
               /\ l.pc = "send" /\ l.key = key /\ l.todo = proc[p].todo /\ l.at = proc[p].at
  <2> DEFINE a == [proc[p] EXCEPT !.pc = "send"]
             b == [a EXCEPT !.key = key]
  <2>1. key \in Keys
    BY <1>1 DEF Place
  <2>2. a \in Place /\ a.pc = "send" /\ a.todo = proc[p].todo /\ a.at = proc[p].at
    BY <1>1 DEF Place
  <2>3. proc' = [proc EXCEPT ![p] = b]
    BY <1>1, <1>2 DEF Place
  <2> HIDE DEF a
  <2>4. b \in Place /\ b.pc = a.pc /\ b.key = key /\ b.todo = a.todo /\ b.at = a.at
    BY <2>1, <2>2 DEF Place
  <2> HIDE DEF b
  <2> QED BY <2>2, <2>3, <2>4
<1>3. ASSUME Send(p)
      PROVE  \E outcome \in Outcomes, l \in Place :
               /\ proc' = [proc EXCEPT ![p] = l]
               /\ l.pc = "record" /\ l.key = proc[p].key /\ l.todo = proc[p].todo /\ l.at = proc[p].at
               /\ l.status = (IF outcome = "sent" THEN "sent" ELSE "failed")
               /\ told' = IF outcome = "failed" THEN told ELSE [told EXCEPT ![proc[p].key] = Append(@, proc[p].at)]
  <2>1. PICK outcome \in Outcomes :
          /\ proc' = [proc EXCEPT ![p] = [@ EXCEPT !.pc = "record",
                                                   !.status = IF outcome = "sent" THEN "sent" ELSE "failed"]]
          /\ told' = IF outcome = "failed" THEN told ELSE [told EXCEPT ![proc[p].key] = Append(@, proc[p].at)]
    BY <1>3 DEF Send
  <2> DEFINE status == IF outcome = "sent" THEN "sent" ELSE "failed"
             a == [proc[p] EXCEPT !.pc = "record"]
             b == [a EXCEPT !.status = status]
  <2>2. a \in Place /\ a.pc = "record" /\ a.todo = proc[p].todo /\ a.at = proc[p].at /\ a.key = proc[p].key
    BY <1>1 DEF Place
  <2>3. proc' = [proc EXCEPT ![p] = b]
    BY <1>1, <2>1 DEF Place
  <2>4. status \in {"sent", "failed"}
    OBVIOUS
  <2> HIDE DEF a, status
  <2>5. b \in Place /\ b.pc = a.pc /\ b.status = status /\ b.todo = a.todo /\ b.at = a.at /\ b.key = a.key
    BY <2>2, <2>4 DEF Place
  <2> HIDE DEF b
  <2>6. b.status = IF outcome = "sent" THEN "sent" ELSE "failed"
    BY <2>5 DEF status
  <2> QED BY <2>1, <2>2, <2>3, <2>5, <2>6
<1> QED BY <1>2, <1>3 DEF Check

(* What a delivery adds to what was told.                                  *)
LEMMA Delivers ==
  ASSUME AlertsInv, NEW key \in Keys, NEW at \in Nat, told' = [told EXCEPT ![key] = Append(@, at)]
  PROVE  LET n == Len(told[key])
         IN  /\ told' \in [Keys -> Seq(Nat)] /\ n \in Nat
             /\ DOMAIN told[key] = 1..n /\ DOMAIN told'[key] = 1..(n + 1)
             /\ \A k \in Keys \ {key} : told'[k] = told[k]
             /\ \A i \in 1..n : told'[key][i] = told[key][i]
             /\ told'[key][n + 1] = at
<1> DEFINE n == Len(told[key])
<1>1. told[key] \in Seq(Nat) /\ n \in Nat /\ DOMAIN told[key] = 1..n
  BY LenProperties DEF AlertsInv, Types
<1>2. /\ Append(told[key], at) \in Seq(Nat) /\ Len(Append(told[key], at)) = n + 1
      /\ \A i \in 1..n : Append(told[key], at)[i] = told[key][i]
      /\ Append(told[key], at)[n + 1] = at
  BY <1>1, AppendProperties
<1>3. DOMAIN Append(told[key], at) = 1..(n + 1)
  BY <1>2, LenProperties
<1>4. told' \in [Keys -> Seq(Nat)] /\ told'[key] = Append(told[key], at)
      /\ \A k \in Keys \ {key} : told'[k] = told[k]
  BY <1>2 DEF AlertsInv, Types
<1> QED BY <1>1, <1>2, <1>3, <1>4

LEMMA InvCheck ==
  ASSUME AlertsInv, NEW p \in Processes, Check(p)
  PROVE  AlertsInv'
<1>1. PICK key \in proc[p].todo :
        \/ /\ Limited(key, proc[p].at)
           /\ alerts' = Written(p, key, "suppressed") /\ proc' = [proc EXCEPT ![p] = AfterKey(p, key)]
        \/ /\ ~Limited(key, proc[p].at) /\ alerts' = alerts
           /\ \E l \in Place :
                /\ proc' = [proc EXCEPT ![p] = l]
                /\ l.pc = "send" /\ l.key = key /\ l.todo = proc[p].todo /\ l.at = proc[p].at
  BY CheckOrSend
<1>2. proc[p].pc = "check" /\ UNCHANGED <<now, last, up, ran, told>>
  BY DEF Check
<1>3. key \in Keys /\ proc[p].at \in Nat /\ told \in [Keys -> Seq(Nat)]
  BY DEF AlertsInv, Types, Place
<1>4. CASE Limited(key, proc[p].at)
  <2>1. PICK j \in Counting(key) : proc[p].at - alerts[key][j].ts < RateLimit
    BY <1>3, <1>4, NewestIsYoungest
  <2>2. \E i \in DOMAIN told[key] : proc[p].at - told[key][i] < RateLimit
    BY <1>3, <2>1 DEF AlertsInv, SentDelivered, Delivered
  <2> QED BY <1>1, <1>2, <1>4, <2>2, InvWrites
<1>5. CASE ~Limited(key, proc[p].at)
  <2>1. PICK l \in Place :
          /\ proc' = [proc EXCEPT ![p] = l]
          /\ l.pc = "send" /\ l.key = key /\ l.todo = proc[p].todo /\ l.at = proc[p].at
    BY <1>1, <1>5
  <2> QED BY <1>1, <1>2, <1>3, <1>5, <2>1, InvGoesOn
<1> QED BY <1>4, <1>5

LEMMA InvSend ==
  ASSUME AlertsInv, NEW p \in Processes, Send(p)
  PROVE  AlertsInv'
<1>1. PICK outcome \in Outcomes, l \in Place :
        /\ proc' = [proc EXCEPT ![p] = l]
        /\ l.pc = "record" /\ l.key = proc[p].key /\ l.todo = proc[p].todo /\ l.at = proc[p].at
        /\ l.status = (IF outcome = "sent" THEN "sent" ELSE "failed")
        /\ told' = IF outcome = "failed" THEN told ELSE [told EXCEPT ![proc[p].key] = Append(@, proc[p].at)]
  BY CheckOrSend
<1>2. proc[p].pc = "send" /\ UNCHANGED <<now, last, up, ran, alerts>>
  BY DEF Send
<1>3. proc[p].key \in proc[p].todo /\ proc[p].key \in Keys /\ proc[p].at \in Nat /\ told \in [Keys -> Seq(Nat)]
  BY <1>2 DEF AlertsInv, Types, Place, Placed
<1>4. l.status \in {"sent", "failed"} /\ (outcome = "failed" => l.status = "failed")
  BY <1>1
<1>5. /\ told' \in [Keys -> Seq(Nat)]
      /\ \A k \in Keys : \A i \in DOMAIN told[k] : i \in DOMAIN told'[k] /\ told'[k][i] = told[k][i]
      /\ l.status = "sent" => Delivered(l.key, l.at)'
  <2>1. CASE outcome = "failed"
    BY <1>1, <1>3, <1>4, <2>1
  <2>2. CASE outcome # "failed"
    <3>1. told' = [told EXCEPT ![proc[p].key] = Append(@, proc[p].at)]
      BY <1>1, <2>2
    <3>2. Delivered(l.key, l.at)'
      <4>1. Len(told[proc[p].key]) + 1 \in DOMAIN told'[proc[p].key]
            /\ told'[proc[p].key][Len(told[proc[p].key]) + 1] = proc[p].at
        BY <1>3, <3>1, Delivers
      <4> QED BY <1>1, <4>1 DEF Delivered
    <3>3. told' \in [Keys -> Seq(Nat)]
          /\ \A k \in Keys : \A i \in DOMAIN told[k] : i \in DOMAIN told'[k] /\ told'[k][i] = told[k][i]
      BY <1>3, <3>1, Delivers
    <3> QED BY <3>2, <3>3
  <2> QED BY <2>1, <2>2
<1> QED BY <1>1, <1>2, <1>3, <1>4, <1>5, InvGoesOn

LEMMA InvRecord ==
  ASSUME AlertsInv, NEW p \in Processes, Record(p)
  PROVE  AlertsInv'
<1>1. /\ proc[p].pc = "record" /\ UNCHANGED <<now, last, up, ran, told>>
      /\ alerts' = Written(p, proc[p].key, proc[p].status)
      /\ proc' = [proc EXCEPT ![p] = AfterKey(p, proc[p].key)]
  BY DEF Record
<1>2. proc[p].key \in proc[p].todo /\ proc[p].status \in {"sent", "failed"}
      /\ (proc[p].status = "sent" => Delivered(proc[p].key, proc[p].at))
  BY <1>1 DEF AlertsInv, Placed, SentDelivered
<1> QED BY <1>1, <1>2, InvWrites

(* Rows are ordered as long as no clock goes back.                         *)
LEMMA OrderKept ==
  ASSUME AlertsInv, alerts' = alerts,
         \A p \in Processes : Clock(p) \in Nat /\ Clock(p)' \in Nat /\ Clock(p) <= Clock(p)'
  PROVE  RowsOrdered'
<1> SUFFICES ASSUME NEW k \in Keys, NEW i \in DOMAIN alerts[k]
             PROVE  alerts[k][i].ts <= Clock(Owner(k))'
  BY DEF RowsOrdered, AlertsInv
<1>1. alerts[k] \in Seq(Row)
  BY DEF AlertsInv, Types
<1>2. alerts[k][i] \in Row
  BY <1>1, ElementOfSeq, LenProperties
<1>3. Owner(k) \in Processes /\ alerts[k][i].ts <= Clock(Owner(k)) /\ alerts[k][i].ts \in Nat
  BY <1>2 DEF AlertsInv, RowsOrdered, Row, Owner, Processes
<1> QED BY <1>3

(* A process that was idle has keys of its own to tell.                    *)
LEMMA InvTells ==
  ASSUME AlertsInv, NEW p \in Processes, proc[p].pc = "off", NEW keys \in SUBSET Keys,
         \A k \in keys : Owner(k) = p, proc' = [proc EXCEPT ![p] = Telling(keys)],
         UNCHANGED <<now, last, alerts, told>>, up' \in BOOLEAN, ran' \in Nat, ran' <= now,
         p = "watchdog" => ran' = now /\ up' = up, p = "engine" => ran' = ran /\ up',
         \A s \in Sleeves : p = "watchdog" /\ StaleAt(s, now) => s \in keys
  PROVE  AlertsInv'
<1> USE DEF AlertsInv
<1>1. /\ Telling(keys) \in Place /\ Telling(keys).pc \in {"off", "check"} /\ Telling(keys).todo = keys
      /\ Telling(keys).pc = "off" => keys = {}
      /\ Telling(keys).pc = "check" => Telling(keys).at = now
      /\ Telling(keys).at <= now /\ now \in Nat
  <2>1. Off \in Place /\ Off.pc = "off" /\ Off.todo = {} /\ Off.at = 0 /\ now \in Nat
    BY DEF Off, Place, Keys, Types
  <2>2. CASE keys = {}
    BY <2>1, <2>2 DEF Telling
  <2>3. CASE keys # {}
    <3> DEFINE l == [pc |-> "check", todo |-> keys, key |-> Restarted, at |-> now, status |-> "none"]
    <3>1. Telling(keys) = l
      BY <2>3 DEF Telling, Off
    <3>2. l \in Place
      BY <2>1 DEF Place, Keys
    <3> QED BY <2>1, <2>3, <3>1, <3>2
  <2> QED BY <2>2, <2>3
<1>2. proc' \in [Processes -> Place] /\ \A q \in Processes : proc'[q] = IF q = p THEN Telling(keys) ELSE proc[q]
  BY <1>1 DEF Types
<1>3. Types'
  BY <1>2 DEF Types
<1>4. Placed'
  BY <1>1, <1>2 DEF Placed, Processes
<1>5. RowsOrdered'
  <2>1. \A q \in Processes : Clock(q) \in Nat /\ Clock(q)' = Clock(q)
    BY <1>1, <1>2 DEF Clock, Types, Place
  <2> QED BY <2>1, OrderKept
<1>6. SentDelivered'
  BY <1>1, <1>2 DEF SentDelivered, Delivered, Counting
<1>7. Attended'
  <2>1. CASE p = "watchdog"
    BY <1>1, <1>2, <2>1 DEF Attended, StaleAt
  <2>2. CASE p = "engine"
    BY <1>2, <2>2 DEF Attended, StaleAt, Known, Processes
  <2> QED BY <2>1, <2>2 DEF Processes
<1> QED BY <1>3, <1>4, <1>5, <1>6, <1>7

LEMMA InvRunWatchdog == AlertsInv /\ RunWatchdog => AlertsInv'
<1> SUFFICES ASSUME AlertsInv, RunWatchdog PROVE AlertsInv'
  OBVIOUS
<1>1. /\ proc["watchdog"].pc = "off" /\ ran' = now /\ UNCHANGED <<now, last, up, alerts, told>>
      /\ proc' = [proc EXCEPT !["watchdog"] = Telling(StaleSleeves)]
  BY DEF RunWatchdog
<1>2. "watchdog" \in Processes /\ StaleSleeves \in SUBSET Keys /\ \A k \in StaleSleeves : Owner(k) = "watchdog"
  BY AlertsAssumption DEF StaleSleeves, Keys, Processes, Owner, Restarted
<1>3. ASSUME NEW s \in Sleeves, StaleAt(s, now) PROVE s \in StaleSleeves
  <2>1. PICK m \in Marks[s] : now - Back <= m /\ m < now - Stale /\ last[s] < m
    BY <1>3 DEF StaleAt
  <2>2. Marks[s] \in SUBSET (1..Horizon) /\ Horizon \in Nat
    BY AlertsAssumption
  <2>3. m \in Expected(s) /\ Expected(s) \in SUBSET (0..Horizon)
    BY <2>1, <2>2 DEF Expected
  <2>4. m <= Max(Expected(s)) /\ Max(Expected(s)) \in Nat
    <3>1. Expected(s) # {}
      BY <2>3
    <3>2. Max(Expected(s)) \in Expected(s) /\ \A x \in Expected(s) : x <= Max(Expected(s))
      BY <2>2, <2>3, <3>1, GreatestOne
    <3> QED BY <2>2, <2>3, <3>2
  <2>5. last[s] \in Nat /\ m \in Nat
    BY <2>2 DEF AlertsInv, Types
  <2>6. last[s] < NewestDue(Expected(s))
    BY <2>1, <2>4, <2>5 DEF NewestDue
  <2> QED BY <2>3, <2>6 DEF StaleSleeves
<1>4. now \in Nat /\ up \in BOOLEAN
  BY DEF AlertsInv, Types
<1>5. \A q \in Sleeves : StaleAt(q, now) => q \in StaleSleeves
  BY <1>3
<1> HIDE DEF StaleSleeves
<1>6. ran' \in Nat /\ ran' <= now /\ up' \in BOOLEAN /\ up' = up
  BY <1>1, <1>4
<1> QED BY <1>1, <1>2, <1>5, <1>6, InvTells

LEMMA InvStartup == AlertsInv /\ Startup => AlertsInv'
<1> SUFFICES ASSUME AlertsInv, Startup PROVE AlertsInv'
  OBVIOUS
<1>1. /\ ~up /\ up' = TRUE /\ UNCHANGED <<now, last, ran, alerts, told>>
      /\ proc' = [proc EXCEPT !["engine"] = Telling({Restarted})]
  BY DEF Startup
<1>2. /\ proc["engine"].pc = "off" /\ ran \in Nat /\ ran <= now /\ "engine" \in Processes
      /\ {Restarted} \in SUBSET Keys /\ \A k \in {Restarted} : Owner(k) = "engine"
  BY <1>1 DEF AlertsInv, Placed, Types, Processes, Keys, Owner
<1> QED BY <1>1, <1>2, InvTells

LEMMA InvCycle ==
  ASSUME AlertsInv, NEW s \in Sleeves, Cycle(s)
  PROVE  AlertsInv'
<1> USE DEF AlertsInv
<1>1. /\ last' = [last EXCEPT ![s] = now] /\ UNCHANGED <<now, up, proc, ran, alerts, told>>
      /\ \E m \in Marks[s] : last[s] < m /\ m <= now
  BY DEF Cycle
<1>2. last[s] < now /\ last[s] \in Nat /\ now \in Nat
  <2>1. PICK m \in Marks[s] : last[s] < m /\ m <= now
    BY <1>1
  <2>2. m \in 1..Horizon /\ Horizon \in Nat
    BY AlertsAssumption
  <2> QED BY <2>1, <2>2 DEF Types
<1>3. Types' /\ Placed'
  BY <1>1, <1>2 DEF Types, Placed
<1>4. RowsOrdered' /\ SentDelivered'
  BY <1>1 DEF RowsOrdered, SentDelivered, Clock, Counting, Delivered
<1>5. Attended'
  <2> SUFFICES ASSUME NEW q \in Sleeves, StaleAt(q, ran)' PROVE StaleAt(q, ran)
    BY <1>1 DEF Attended, Known
  <2>1. PICK m \in Marks[q] : ran - Back <= m /\ m < ran - Stale /\ last'[q] < m
    BY <1>1 DEF StaleAt
  <2>2. m \in Nat
    BY AlertsAssumption
  <2>3. last[q] < m
    BY <1>1, <1>2, <2>1, <2>2 DEF Types
  <2> QED BY <2>1, <2>3 DEF StaleAt
<1> QED BY <1>3, <1>4, <1>5

LEMMA InvKill == AlertsInv /\ Kill => AlertsInv'
<1> SUFFICES ASSUME AlertsInv, Kill PROVE AlertsInv'
  OBVIOUS
<1> USE DEF AlertsInv
<1>1. /\ up' = FALSE /\ proc' = [proc EXCEPT !["engine"] = Off] /\ UNCHANGED <<now, last, ran, alerts, told>>
  BY DEF Kill
<1>2. Off \in Place /\ Off.pc = "off" /\ Off.todo = {} /\ Off.at = 0 /\ now \in Nat
  BY DEF Off, Place, Keys, Types
<1>3. proc' \in [Processes -> Place] /\ \A q \in Processes : proc'[q] = IF q = "engine" THEN Off ELSE proc[q]
  BY <1>1, <1>2 DEF Types
<1>4. Types'
  BY <1>1, <1>3 DEF Types
<1>5. Placed'
  BY <1>1, <1>2, <1>3 DEF Placed, Processes
<1>6. RowsOrdered'
  <2>1. \A q \in Processes : Clock(q) \in Nat /\ Clock(q)' \in Nat /\ Clock(q) <= Clock(q)'
    BY <1>1, <1>2, <1>3 DEF Clock, Types, Place, Placed
  <2> QED BY <1>1, <2>1, OrderKept
<1>7. SentDelivered'
  BY <1>1, <1>2, <1>3 DEF SentDelivered, Delivered, Counting
<1>8. Attended'
  BY <1>1, <1>3 DEF Attended, StaleAt, Known, Processes
<1> QED BY <1>4, <1>5, <1>6, <1>7, <1>8

LEMMA InvTick == AlertsInv /\ Tick => AlertsInv'
<1> SUFFICES ASSUME AlertsInv, Tick PROVE AlertsInv'
  OBVIOUS
<1> USE DEF AlertsInv
<1>1. now' = now + 1 /\ now \in Nat /\ UNCHANGED <<last, up, proc, ran, alerts, told>>
  BY DEF Tick, Types
<1>2. Types' /\ Placed'
  BY <1>1 DEF Types, Placed, Place
<1>3. RowsOrdered'
  <2>1. \A q \in Processes : Clock(q) \in Nat /\ Clock(q)' \in Nat /\ Clock(q) <= Clock(q)'
    BY <1>1 DEF Clock, Types, Place
  <2> QED BY <1>1, <2>1, OrderKept
<1>4. SentDelivered' /\ Attended'
  BY <1>1 DEF SentDelivered, Delivered, Counting, Attended, StaleAt, Known
<1> QED BY <1>2, <1>3, <1>4

LEMMA InvStep == AlertsInv /\ [Next]_vars => AlertsInv'
<1> SUFFICES ASSUME AlertsInv, [Next]_vars PROVE AlertsInv'
  OBVIOUS
<1>1. ASSUME NEW p \in Processes, Check(p) \/ Send(p) \/ Record(p) PROVE AlertsInv'
  BY <1>1, InvCheck, InvSend, InvRecord
<1>2. ASSUME NEW s \in Sleeves, Cycle(s) PROVE AlertsInv'
  BY <1>2, InvCycle
<1>3. CASE RunWatchdog \/ Kill \/ Startup \/ Tick
  BY <1>3, InvRunWatchdog, InvKill, InvStartup, InvTick
<1>4. CASE UNCHANGED vars
  <2>1. Types' /\ Placed' /\ RowsOrdered'
    BY <1>4 DEF vars, AlertsInv, Types, Placed, RowsOrdered, Clock
  <2>2. SentDelivered' /\ Attended'
    BY <1>4 DEF vars, AlertsInv, SentDelivered, Delivered, Counting, Attended, StaleAt, Known
  <2> QED BY <2>1, <2>2 DEF AlertsInv
<1> QED BY <1>1, <1>2, <1>3, <1>4 DEF Next

LEMMA InvAlways == Spec => []AlertsInv
<1> QED BY InvInit, InvStep, PTL DEF Spec

-----------------------------------------------------------------------------
(* The theorems                                                            *)

(* However often the engine is killed and whatever Telegram answers, when  *)
(* a run of the watchdog is over every sleeve that misses its cycles has   *)
(* been told of within the limit, or this very run tried and failed        *)
(* (watchdog.py run_once, notify.py alert).                                *)
THEOREM SilenceIsTold == Spec => []NeverSilent
<1>1. AlertsInv => NeverSilent
  <2> SUFFICES ASSUME AlertsInv, proc["watchdog"].pc = "off", ran = now, NEW s \in Sleeves, StaleAt(s, now)
               PROVE  Known(s, now)
    BY DEF NeverSilent, StaleAt, Known
  <2>1. s \notin proc["watchdog"].todo
    BY DEF AlertsInv, Placed, Processes
  <2> QED BY <2>1 DEF AlertsInv, Attended
<1> QED BY <1>1, InvAlways, PTL

-----------------------------------------------------------------------------
(* The rate limit                                                          *)

(* A step that leaves the rows and the deliveries alone.                   *)
LEMMA LimitStands ==
  ASSUME LimitInv, UNCHANGED <<alerts, told>>,
         \A p \in Processes : proc[p].pc = "record" => proc'[p] = proc[p],
         \A p \in Processes : proc'[p].pc = "send" => Free(proc'[p].key, proc'[p].at)
  PROVE  LimitInv'
<1> USE DEF LimitInv
<1>1. DeliveredKnown'
  BY DEF DeliveredKnown, RowFor, Pending, Counting, Owner, Processes
<1>2. SendsFree'
  BY DEF SendsFree, Free, Counting
<1>3. OncePerLimit'
  BY DEF OncePerLimit
<1> QED BY <1>1, <1>2, <1>3

(* Writing the row of a delivery, or of none.                              *)
LEMMA LimitWrites ==
  ASSUME AlertsInv, LimitInv, NEW p \in Processes, NEW key \in proc[p].todo,
         NEW status \in {"sent", "failed", "suppressed"},
         proc[p].pc = "record" => key = proc[p].key /\ status = proc[p].status,
         alerts' = Written(p, key, status), proc' = [proc EXCEPT ![p] = AfterKey(p, key)], told' = told
  PROVE  LimitInv'
<1> USE DEF LimitInv
<1> DEFINE n == Len(alerts[key])
           row == [ts |-> proc[p].at, status |-> status]
<1>1. key \in Keys /\ Owner(key) = p /\ AfterKey(p, key).pc \in {"off", "check"}
  BY AfterKeyFits DEF AlertsInv, Types, Place, Placed
<1>2. /\ \A k \in Keys \ {key} : alerts'[k] = alerts[k]
      /\ n \in Nat /\ DOMAIN alerts[key] = 1..n /\ DOMAIN alerts'[key] = 1..(n + 1)
      /\ \A i \in 1..n : alerts'[key][i] = alerts[key][i]
      /\ alerts'[key][n + 1] = row
  BY <1>1, Writes
<1>3. row.ts = proc[p].at /\ row.status = status
  OBVIOUS
<1> HIDE DEF row, n
<1>4. \A q \in Processes : proc'[q] = IF q = p THEN AfterKey(p, key) ELSE proc[q]
  BY DEF AlertsInv, Types
<1>5. \A k \in Keys, t \in Nat : RowFor(k, t) => RowFor(k, t)'
  BY <1>2 DEF RowFor, Counting, Counts
<1>6. DeliveredKnown'
  <2> SUFFICES ASSUME NEW k \in Keys, NEW i \in DOMAIN told[k]
               PROVE  RowFor(k, told[k][i])' \/ Pending(k, told[k][i])'
    BY DEF DeliveredKnown
  <2>1. told[k][i] \in Nat
    <3>1. told[k] \in Seq(Nat)
      BY DEF AlertsInv, Types
    <3> QED BY <3>1, ElementOfSeq, LenProperties
  <2>2. CASE RowFor(k, told[k][i])
    BY <1>5, <2>1, <2>2
  <2>3. CASE Pending(k, told[k][i]) /\ Owner(k) = p
    <3>1. k = key /\ status = "sent" /\ told[k][i] = proc[p].at
      BY <2>3 DEF Pending
    <3>2. n + 1 \in DOMAIN alerts'[k] /\ alerts'[k][n + 1].status = "sent" /\ alerts'[k][n + 1].ts = told[k][i]
      BY <1>2, <1>3, <3>1
    <3> QED BY <3>2 DEF RowFor, Counting, Counts
  <2>4. CASE Pending(k, told[k][i]) /\ Owner(k) # p
    BY <1>4, <2>4 DEF Pending, Owner, Processes
  <2> QED BY <2>2, <2>3, <2>4 DEF DeliveredKnown
<1>7. SendsFree'
  <2> SUFFICES ASSUME NEW q \in Processes, proc'[q].pc = "send" PROVE Free(proc[q].key, proc[q].at)'
    BY DEF SendsFree
  <2>1. q # p /\ proc'[q] = proc[q]
    BY <1>1, <1>4
  <2>2. proc[q].key \in Keys /\ Owner(proc[q].key) = q
    BY <2>1 DEF AlertsInv, Types, Place, Placed
  <2>3. alerts'[proc[q].key] = alerts[proc[q].key]
    BY <1>1, <1>2, <2>1, <2>2
  <2> QED BY <2>1, <2>3 DEF SendsFree, Free, Counting
<1>8. OncePerLimit'
  BY DEF OncePerLimit
<1> QED BY <1>6, <1>7, <1>8

LEMMA LimitCheck ==
  ASSUME AlertsInv, LimitInv, NEW p \in Processes, Check(p)
  PROVE  LimitInv'
<1>1. PICK key \in proc[p].todo :
        \/ /\ Limited(key, proc[p].at)
           /\ alerts' = Written(p, key, "suppressed") /\ proc' = [proc EXCEPT ![p] = AfterKey(p, key)]
        \/ /\ ~Limited(key, proc[p].at) /\ alerts' = alerts
           /\ \E l \in Place :
                /\ proc' = [proc EXCEPT ![p] = l]
                /\ l.pc = "send" /\ l.key = key /\ l.todo = proc[p].todo /\ l.at = proc[p].at
  BY CheckOrSend
<1>2. proc[p].pc = "check" /\ told' = told /\ key \in Keys /\ proc[p].at \in Nat
  BY DEF Check, AlertsInv, Types, Place
<1>3. CASE Limited(key, proc[p].at)
  BY <1>1, <1>2, <1>3, LimitWrites
<1>4. CASE ~Limited(key, proc[p].at)
  <2>1. PICK l \in Place :
          /\ proc' = [proc EXCEPT ![p] = l]
          /\ l.pc = "send" /\ l.key = key /\ l.todo = proc[p].todo /\ l.at = proc[p].at
    BY <1>1, <1>4
  <2>2. \A q \in Processes : proc'[q] = IF q = p THEN l ELSE proc[q]
    BY <2>1 DEF AlertsInv, Types
  <2>3. Free(key, proc[p].at)
    BY <1>2, <1>4, NewestIsYoungest
  <2>4. \A q \in Processes : proc'[q].pc = "send" => Free(proc'[q].key, proc'[q].at)
    BY <2>1, <2>2, <2>3 DEF LimitInv, SendsFree
  <2>5. \A q \in Processes : proc[q].pc = "record" => proc'[q] = proc[q]
    BY <1>2, <2>2
  <2> QED BY <1>1, <1>2, <1>4, <2>4, <2>5, LimitStands
<1> QED BY <1>3, <1>4

LEMMA LimitSend ==
  ASSUME "unclear" \notin Outcomes, AlertsInv, LimitInv, NEW p \in Processes, Send(p)
  PROVE  LimitInv'
<1> USE DEF LimitInv
<1>1. PICK outcome \in Outcomes, l \in Place :
        /\ proc' = [proc EXCEPT ![p] = l]
        /\ l.pc = "record" /\ l.key = proc[p].key /\ l.todo = proc[p].todo /\ l.at = proc[p].at
        /\ l.status = (IF outcome = "sent" THEN "sent" ELSE "failed")
        /\ told' = IF outcome = "failed" THEN told ELSE [told EXCEPT ![proc[p].key] = Append(@, proc[p].at)]
  BY CheckOrSend
<1>2. proc[p].pc = "send" /\ alerts' = alerts /\ (outcome # "failed" => outcome = "sent")
  BY AlertsAssumption DEF Send
<1>3. proc[p].key \in Keys /\ Owner(proc[p].key) = p /\ proc[p].at \in Nat
  BY <1>2 DEF AlertsInv, Types, Place, Placed
<1>4. \A q \in Processes : proc'[q] = IF q = p THEN l ELSE proc[q]
  BY <1>1 DEF AlertsInv, Types
<1>5. SendsFree'
  BY <1>1, <1>2, <1>4 DEF SendsFree, Free, Counting
<1>6. CASE outcome = "failed"
  <2>1. told' = told
    BY <1>1, <1>6
  <2>2. \A q \in Processes : proc[q].pc = "record" => proc'[q] = proc[q]
    BY <1>2, <1>4
  <2>3. \A q \in Processes : proc'[q].pc = "send" => Free(proc'[q].key, proc'[q].at)
    BY <1>1, <1>4 DEF SendsFree
  <2> QED BY <1>2, <2>1, <2>2, <2>3, LimitStands
<1>7. CASE outcome # "failed"
  <2> DEFINE key == proc[p].key
             n == Len(told[key])
  <2>1. l.status = "sent" /\ told' = [told EXCEPT ![key] = Append(@, proc[p].at)]
    BY <1>1, <1>2, <1>7
  <2>2. /\ n \in Nat /\ DOMAIN told[key] = 1..n /\ DOMAIN told'[key] = 1..(n + 1)
        /\ \A k \in Keys \ {key} : told'[k] = told[k]
        /\ \A i \in 1..n : told'[key][i] = told[key][i]
        /\ told'[key][n + 1] = proc[p].at
    BY <1>3, <2>1, Delivers
  <2> HIDE DEF n
  <2>3. \A k \in Keys, t \in Nat : RowFor(k, t)' = RowFor(k, t)
    BY <1>2 DEF RowFor, Counting
  <2>4. \A i \in 1..n : RowFor(key, told[key][i]) /\ told[key][i] \in Nat
    <3>1. told[key] \in Seq(Nat)
      BY <1>3 DEF AlertsInv, Types
    <3>2. \A i \in 1..n : told[key][i] \in Nat
      BY <2>2, <3>1, ElementOfSeq, LenProperties
    <3>3. \A t \in Nat : ~Pending(key, t)
      BY <1>2, <1>3 DEF Pending
    <3> QED BY <1>3, <2>2, <3>2, <3>3 DEF DeliveredKnown
  <2>5. DeliveredKnown'
    <3> SUFFICES ASSUME NEW k \in Keys, NEW i \in DOMAIN told'[k]
                 PROVE  RowFor(k, told[k][i])' \/ Pending(k, told[k][i])'
      BY DEF DeliveredKnown
    <3>1. CASE k # key
      <4>1. told'[k] = told[k] /\ told[k] \in Seq(Nat)
        BY <2>2, <3>1 DEF AlertsInv, Types
      <4>2. told[k][i] \in Nat
        BY <4>1, ElementOfSeq, LenProperties
      <4>3. CASE RowFor(k, told[k][i])
        BY <1>2, <4>1, <4>3 DEF RowFor, Counting
      <4>4. CASE Pending(k, told[k][i])
        <5>1. Owner(k) # p /\ Owner(k) \in Processes
          BY <1>2, <4>4 DEF Pending, Owner, Processes
        <5> QED BY <1>4, <4>1, <4>4, <5>1 DEF Pending
      <4> QED BY <4>1, <4>3, <4>4 DEF DeliveredKnown
    <3>2. CASE k = key /\ i \in 1..n
      BY <1>2, <2>2, <2>4, <3>2 DEF RowFor, Counting
    <3>3. CASE k = key /\ i = n + 1
      BY <1>1, <1>3, <1>4, <2>1, <2>2, <3>3 DEF Pending
    <3> QED BY <2>2, <3>1, <3>2, <3>3
  <2>6. \A i \in 1..n : proc[p].at - told[key][i] >= RateLimit
    BY <1>2, <2>4 DEF SendsFree, Free, RowFor
  <2>7. OncePerLimit'
    <3> SUFFICES ASSUME NEW k \in Keys, NEW i \in DOMAIN told'[k], NEW j \in DOMAIN told'[k], i < j
                 PROVE  told'[k][j] - told'[k][i] >= RateLimit
      BY DEF OncePerLimit
    <3>1. CASE k # key
      BY <2>2, <3>1 DEF OncePerLimit
    <3>2. CASE k = key /\ j = n + 1
      <4>1. i \in 1..n
        BY <2>2, <3>2
      <4> QED BY <2>2, <2>6, <3>2, <4>1
    <3>3. CASE k = key /\ j # n + 1
      <4>1. i \in 1..n /\ j \in 1..n
        BY <2>2, <3>3
      <4> QED BY <1>3, <2>2, <3>3, <4>1 DEF OncePerLimit
    <3> QED BY <3>1, <3>2, <3>3
  <2> QED BY <1>5, <2>5, <2>7
<1> QED BY <1>6, <1>7

LEMMA LimitStep ==
  ASSUME "unclear" \notin Outcomes, "record" \notin KillAt
  PROVE  AlertsInv /\ LimitInv /\ [Next]_vars => LimitInv'
<1> SUFFICES ASSUME AlertsInv, LimitInv, [Next]_vars PROVE LimitInv'
  OBVIOUS
<1>1. ASSUME NEW p \in Processes, Check(p) PROVE LimitInv'
  BY <1>1, LimitCheck
<1>2. ASSUME NEW p \in Processes, Send(p) PROVE LimitInv'
  BY <1>2, LimitSend
<1>3. ASSUME NEW p \in Processes, Record(p) PROVE LimitInv'
  <2>1. /\ proc[p].pc = "record" /\ told' = told /\ alerts' = Written(p, proc[p].key, proc[p].status)
        /\ proc' = [proc EXCEPT ![p] = AfterKey(p, proc[p].key)]
    BY <1>3 DEF Record
  <2>2. proc[p].key \in proc[p].todo /\ proc[p].status \in {"sent", "failed"}
    BY <2>1 DEF AlertsInv, Placed
  <2> QED BY <2>1, <2>2, LimitWrites
<1>4. CASE RunWatchdog \/ Kill \/ Startup
  <2>1. \E p \in Processes : \E l :
          /\ proc' = [proc EXCEPT ![p] = l] /\ proc[p].pc # "record" /\ l.pc # "send"
          /\ UNCHANGED <<alerts, told>>
    <3>1. \A keys : Telling(keys).pc \in {"off", "check"}
      BY DEF Telling, Off
    <3>2. CASE RunWatchdog
      BY <3>1, <3>2 DEF RunWatchdog, Processes
    <3>3. CASE Kill
      <4>1. proc' = [proc EXCEPT !["engine"] = Off] /\ proc["engine"].pc # "record" /\ UNCHANGED <<alerts, told>>
        BY <3>3 DEF Kill
      <4>2. Off.pc # "send" /\ "engine" \in Processes
        BY DEF Off, Processes
      <4> QED BY <4>1, <4>2
    <3>4. CASE Startup
      <4>1. proc' = [proc EXCEPT !["engine"] = Telling({Restarted})] /\ ~up /\ UNCHANGED <<alerts, told>>
        BY <3>4 DEF Startup
      <4>2. proc["engine"].pc = "off" /\ "engine" \in Processes
        BY <4>1 DEF AlertsInv, Placed, Processes
      <4>3. Telling({Restarted}).pc # "send"
        BY <3>1
      <4> QED BY <4>1, <4>2, <4>3
    <3> QED BY <1>4, <3>2, <3>3, <3>4
  <2>2. PICK p \in Processes : \E l :
          /\ proc' = [proc EXCEPT ![p] = l] /\ proc[p].pc # "record" /\ l.pc # "send"
          /\ UNCHANGED <<alerts, told>>
    BY <2>1
  <2>3. PICK l :
          /\ proc' = [proc EXCEPT ![p] = l] /\ proc[p].pc # "record" /\ l.pc # "send"
          /\ UNCHANGED <<alerts, told>>
    BY <2>2
  <2>4. \A q \in Processes : proc'[q] = IF q = p THEN l ELSE proc[q]
    BY <2>3 DEF AlertsInv, Types
  <2>5. \A q \in Processes : proc[q].pc = "record" => proc'[q] = proc[q]
    BY <2>3, <2>4
  <2>6. \A q \in Processes : proc'[q].pc = "send" => Free(proc'[q].key, proc'[q].at)
    BY <2>3, <2>4 DEF LimitInv, SendsFree
  <2> QED BY <2>3, <2>5, <2>6, LimitStands
<1>5. CASE Tick \/ (\E s \in Sleeves : Cycle(s)) \/ UNCHANGED vars
  <2>1. UNCHANGED <<proc, alerts, told>>
    BY <1>5 DEF Tick, Cycle, vars
  <2> QED BY <2>1, LimitStands DEF LimitInv, SendsFree
<1> QED BY <1>1, <1>2, <1>3, <1>4, <1>5 DEF Next

(* Two messages of a kind are never delivered for moments closer than the  *)
(* limit, whatever failed, was suppressed or started again in between, as  *)
(* long as a delivery is not mistaken for a failure and the engine not     *)
(* killed between a delivery and its row (notify.py alert, send).          *)
THEOREM RateLimitHolds ==
  ASSUME "unclear" \notin Outcomes, "record" \notin KillAt
  PROVE  Spec => []OncePerLimit
<1>1. LimitInv => OncePerLimit
  BY DEF LimitInv
<1>2. Init => AlertsInv /\ LimitInv
  BY InvInit
<1>3. AlertsInv /\ [Next]_vars => AlertsInv'
  BY InvStep
<1>4. AlertsInv /\ LimitInv /\ [Next]_vars => LimitInv'
  BY LimitStep
<1> QED BY <1>1, <1>2, <1>3, <1>4, PTL DEF Spec
=============================================================================
