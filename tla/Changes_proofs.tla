--------------------------- MODULE Changes_proofs ---------------------------
(***************************************************************************)
(* Proofs about what is changed by several people at once, for any number   *)
(* of them: issues, their numbers and their log; documents and templates,   *)
(* edited whole; deletions, releases and health reports.                    *)
(***************************************************************************)
EXTENDS Tracker, Sequences, FiniteSetTheorems, WellFoundedInduction, TLAPS

-----------------------------------------------------------------------------
(* Health reports.                                                          *)

Live(r) == report[r] # Reporting!Idle
Last(e) == \A f \in log : f.ended <= e.ended

\* The clock tells reports apart, and those that ended are in order.
ReportsAreDated ==
  /\ \A e \in log : e.born <= ticks /\ e.ended <= ticks
  /\ \A r \in Reporters : Live(r) => report[r].row.born <= ticks
  /\ \A e, f \in log : e.ended = f.ended \/ e.born = f.born => e = f
  /\ \A r \in Reporters : Live(r) => \A e \in log : e.born # report[r].row.born
  /\ \A r, s \in Reporters : Live(r) /\ Live(s) /\ report[r].row.born = report[s].row.born => r = s

\* The health is that of the report that ended last, and who has compared with it has compared with that one.
HealthIsTheLast ==
  \/ log = {} /\ health = None
  \/ \E e \in log : Last(e) /\ health = e.to
Compared(r) == Live(r) /\ report[r].at \in {"decided", "stamped"} =>
  /\ log = {} => report[r].row.moved = TRUE
  /\ \A e \in log : Last(e) /\ e.ended < report[r].row.born => report[r].row.moved = (e.to # report[r].row.to)

\* The inductive invariant of the health reports.
HealthInv ==
  /\ Reporting!HealthTypeOK /\ report \in [Reporters -> Reporting!Report \union {Reporting!Idle}]
  /\ \A r, s \in Reporters : Reporting!Holds(r) /\ Reporting!Holds(s) => r = s
  /\ ReportsAreDated /\ HealthIsTheLast /\ \A r \in Reporters : Compared(r)
  /\ Reporting!HealthFollowsTheLog

\* There are no reports at first.
LEMMA HealthStart == Reporting!HealthInit => HealthInv
<1> SUFFICES ASSUME Reporting!HealthInit PROVE HealthInv
  OBVIOUS
<1>1. /\ health = None /\ log = {} /\ reported = 0 /\ ticks = 0 /\ MaxReports \in Nat
      /\ report = [r \in Reporters |-> Reporting!Idle]
  BY LegalConstants DEF Reporting!HealthInit, Reporting!LegalHealthConstants
<1>2. Reporting!HealthTypeOK
  BY <1>1 DEF Reporting!HealthTypeOK, Reporting!Times
<1>3. \A r \in Reporters : ~Live(r) /\ ~Reporting!Holds(r)
  BY <1>1 DEF Live, Reporting!Holds
<1>4. Reporting!HealthFollowsTheLog
  BY <1>1 DEF Reporting!HealthFollowsTheLog, Reporting!Newest
<1> QED BY <1>1, <1>2, <1>3, <1>4 DEF HealthInv, ReportsAreDated, HealthIsTheLast, Compared

\* What a report under way carries.
LEMMA ReportRow ==
  ASSUME HealthInv, NEW r \in Reporters, Live(r)
  PROVE  /\ report[r] \in Reporting!Report /\ report[r].row \in Reporting!Fields
         /\ report[r].row.born \in Nat /\ report[r].row.to \in Healths /\ report[r].row.moved \in BOOLEAN
BY DEF HealthInv, Live, Reporting!Report, Reporting!Fields, Reporting!Times

\* What an entry of the log carries.
LEMMA Entries ==
  ASSUME HealthInv
  PROVE  /\ ticks \in Nat /\ \A e \in log : e.born \in Nat /\ e.ended \in Nat /\ e.to \in Healths /\ e.moved \in BOOLEAN
BY DEF HealthInv, Reporting!HealthTypeOK, Reporting!Times

\* The log rests, and so does what it says.
LEMMA TheLogRests ==
  ASSUME HealthInv, UNCHANGED <<health, log>>
  PROVE  Reporting!HealthFollowsTheLog' /\ HealthIsTheLast' /\ \A e \in log : Last(e)' = Last(e)
<1>1. \A e : Reporting!Before(e)' = Reporting!Before(e)
  BY DEF Reporting!Before
<1>2. Reporting!Newest' = Reporting!Newest
  BY DEF Reporting!Newest
<1>3. Reporting!HealthFollowsTheLog'
  BY <1>1, <1>2 DEF HealthInv, Reporting!HealthFollowsTheLog
<1> QED BY <1>3 DEF HealthInv, HealthIsTheLast, Last

\* A report is inserted, dated by the clock.
LEMMA ReportKeeps ==
  ASSUME HealthInv, NEW r \in Reporters, NEW h \in Healths, Reporting!Insert(r, h) PROVE HealthInv'
<1> DEFINE entry == [born |-> ticks + 1, to |-> h, moved |-> FALSE]
           k == [at |-> "inserted", row |-> entry]
<1>1. /\ report[r] = Reporting!Idle /\ reported < MaxReports /\ reported' = reported + 1 /\ ticks' = ticks + 1
      /\ report' = [report EXCEPT ![r] = k] /\ UNCHANGED <<health, log>>
  BY DEF Reporting!Insert
<1>2. ticks' \in Nat /\ reported' \in 0..MaxReports
  BY <1>1, Entries, LegalConstants DEF HealthInv, Reporting!HealthTypeOK, Reporting!LegalHealthConstants
<1>3. k \in Reporting!Report /\ k.at = "inserted" /\ k.row = entry /\ entry.born = ticks'
  BY <1>1, <1>2 DEF Reporting!Report, Reporting!Fields, Reporting!Times
<1> HIDE DEF k, entry
<1>4. /\ report' \in [Reporters -> Reporting!Report \union {Reporting!Idle}] /\ report'[r] = k
      /\ \A s \in Reporters \ {r} : report'[s] = report[s]
  BY <1>1, <1>3 DEF HealthInv
<1>5. Reporting!HealthTypeOK'
  BY <1>1, <1>2, <1>4 DEF HealthInv, Reporting!HealthTypeOK, Reporting!Times
<1>6. \A s, t \in Reporters : Reporting!Holds(s)' /\ Reporting!Holds(t)' => s = t
  BY <1>3, <1>4 DEF HealthInv, Reporting!Holds
<1>7. ReportsAreDated'
  <2>1. \A e \in log : e.born < ticks' /\ e.ended < ticks' /\ e.born # ticks'
    BY <1>1, Entries DEF HealthInv, ReportsAreDated
  <2>2. \A s \in Reporters \ {r} : Live(s)' => Live(s) /\ report'[s].row = report[s].row /\ report[s].row.born < ticks'
    BY <1>1, <1>4, Entries, ReportRow DEF HealthInv, ReportsAreDated, Live
  <2>3. Live(r)' => report'[r].row.born = ticks'
    BY <1>3, <1>4
  <2>4. \A e \in log : e.born <= ticks' /\ e.ended <= ticks'
    BY <1>2, <2>1, Entries
  <2>5. \A s \in Reporters : Live(s)' => report'[s].row.born <= ticks'
    BY <1>2, <2>2, <2>3, ReportRow
  <2>6. \A s \in Reporters : Live(s)' => \A e \in log : e.born # report'[s].row.born
    BY <2>1, <2>2, <2>3 DEF HealthInv, ReportsAreDated
  <2>7. ASSUME NEW s \in Reporters, NEW t \in Reporters, Live(s)', Live(t)', report'[s].row.born = report'[t].row.born PROVE s = t
    <3>1. \A u \in Reporters \ {r} : Live(u)' => report'[u].row.born # ticks'
      BY <2>2, <1>2, ReportRow
    <3>2. CASE s = r \/ t = r
      BY <2>3, <2>7, <3>1, <3>2
    <3>3. CASE s # r /\ t # r
      BY <2>2, <2>7, <3>3 DEF HealthInv, ReportsAreDated
    <3> QED BY <3>2, <3>3
  <2>8. \A e, f \in log : e.ended = f.ended \/ e.born = f.born => e = f
    BY DEF HealthInv, ReportsAreDated
  <2> QED BY <1>1, <2>4, <2>5, <2>6, <2>7, <2>8 DEF ReportsAreDated
<1>8. ASSUME NEW s \in Reporters PROVE Compared(s)'
  <2>1. CASE s = r
    BY <1>3, <1>4, <2>1 DEF Compared
  <2>2. CASE s # r
    BY <1>1, <1>4, <2>2 DEF HealthInv, Compared, Live, Last
  <2> QED BY <2>1, <2>2
<1> QED BY <1>1, <1>4, <1>5, <1>6, <1>7, <1>8, TheLogRests DEF HealthInv

\* A report moves on, or is abandoned, and its row says what it said but for "moved".
LEMMA ReportMoves ==
  ASSUME HealthInv, NEW r \in Reporters, NEW k \in Reporting!Report \union {Reporting!Idle}, Live(r),
         report' = [report EXCEPT ![r] = k], UNCHANGED <<health, log, reported, ticks>>,
         k # Reporting!Idle => k.row.born = report[r].row.born /\ k.row.to = report[r].row.to,
         k # Reporting!Idle /\ k.at = "stamped" => \A s \in Reporters : ~Reporting!Holds(s),
         k # Reporting!Idle /\ k.at \in {"decided", "stamped"} =>
           /\ log = {} => k.row.moved = TRUE
           /\ \A e \in log : Last(e) /\ e.ended < k.row.born => k.row.moved = (e.to # k.row.to)
  PROVE  HealthInv'
<1>1. /\ report' \in [Reporters -> Reporting!Report \union {Reporting!Idle}] /\ report'[r] = k
      /\ \A s \in Reporters \ {r} : report'[s] = report[s]
  BY DEF HealthInv
<1>2. Reporting!HealthTypeOK'
  BY <1>1 DEF HealthInv, Reporting!HealthTypeOK
<1>3. \A s, t \in Reporters : Reporting!Holds(s)' /\ Reporting!Holds(t)' => s = t
  BY <1>1 DEF HealthInv, Reporting!Holds
<1>4. \A s \in Reporters : Live(s)' => Live(s) /\ report'[s].row.born = report[s].row.born
  BY <1>1 DEF Live
<1>5. ReportsAreDated'
  BY <1>4 DEF HealthInv, ReportsAreDated
<1>6. ASSUME NEW s \in Reporters PROVE Compared(s)'
  <2>1. CASE s = r
    BY <1>1, <2>1 DEF Compared, Live, Last
  <2>2. CASE s # r
    BY <1>1, <2>2 DEF HealthInv, Compared, Live, Last
  <2> QED BY <2>1, <2>2
<1> QED BY <1>1, <1>2, <1>3, <1>5, <1>6, TheLogRests DEF HealthInv

\* Whether the health moved is decided against what is stored.
LEMMA DecideKeeps == ASSUME HealthInv, NEW r \in Reporters, Reporting!Decide(r) PROVE HealthInv'
<1> DEFINE k == report[r]
           entry == k.row
           move == health # entry.to
           new == [entry EXCEPT !.moved = move]
           m == [at |-> "decided", row |-> new]
<1>1. Live(r) /\ report' = [report EXCEPT ![r] = m] /\ UNCHANGED <<health, log, reported, ticks>>
  BY DEF Reporting!Decide, Reporting!Moved, Live
<1>2. entry \in Reporting!Fields
  BY <1>1, ReportRow
<1>3. move \in BOOLEAN
  OBVIOUS
<1>4. log = {} => move = TRUE
  <2>1. log = {} => health = None
    BY DEF HealthInv, HealthIsTheLast
  <2>2. entry.to # None
    BY <1>2, LegalConstants DEF Reporting!LegalHealthConstants, Reporting!Fields
  <2> QED BY <2>1, <2>2
<1>5. ASSUME NEW e \in log, Last(e) PROVE move = (e.to # entry.to)
  <2>1. PICK f \in log : Last(f) /\ health = f.to
    BY DEF HealthInv, HealthIsTheLast
  <2>2. e.ended = f.ended
    BY <1>5, <2>1, Entries DEF Last
  <2>3. e = f
    BY <2>2 DEF HealthInv, ReportsAreDated
  <2> QED BY <2>1, <2>3
<1> HIDE DEF entry, move
<1>6. new \in Reporting!Fields /\ new.born = entry.born /\ new.to = entry.to /\ new.moved = move
  BY <1>2, <1>3 DEF Reporting!Fields
<1> HIDE DEF new
<1>7. m \in Reporting!Report /\ m.at = "decided" /\ m.row = new
  BY <1>6 DEF Reporting!Report
<1>8. entry.born = report[r].row.born /\ entry.to = report[r].row.to
  BY DEF entry
<1> HIDE DEF m, k
<1> QED BY <1>1, <1>4, <1>5, <1>6, <1>7, <1>8, ReportMoves

\* A report is stamped on the project it is about.
LEMMA StampKeeps == ASSUME HealthInv, NEW r \in Reporters, Reporting!Stamp(r) PROVE HealthInv'
<1> DEFINE k == report[r]
           m == [k EXCEPT !.at = "stamped"]
<1>1. /\ Live(r) /\ k.at = "decided" /\ \A s \in Reporters : ~Reporting!Holds(s)
      /\ report' = [report EXCEPT ![r] = m] /\ UNCHANGED <<health, log, reported, ticks>>
  BY DEF Reporting!Stamp, Live
<1>2. k \in Reporting!Report
  BY <1>1, ReportRow
<1>3. /\ log = {} => k.row.moved = TRUE
      /\ \A e \in log : Last(e) /\ e.ended < k.row.born => k.row.moved = (e.to # k.row.to)
  BY <1>1 DEF HealthInv, Compared
<1>4. k = report[r]
  OBVIOUS
<1> HIDE DEF k
<1>5. m \in Reporting!Report /\ m.at = "stamped" /\ m.row = k.row
  BY <1>2 DEF Reporting!Report
<1> HIDE DEF m
<1> QED BY <1>1, <1>3, <1>4, <1>5, ReportMoves

\* The report is entered as the one that ended last; the ones before keep the reports before them.
LEMMA PublishKeeps == ASSUME HealthInv, NEW r \in Reporters, Reporting!Publish(r) PROVE HealthInv'
<1> DEFINE entry == report[r].row
<1>0. PICK n \in {[born |-> entry.born, to |-> entry.to, moved |-> entry.moved, ended |-> ticks + 1]} : TRUE
  OBVIOUS
<1>1. /\ Reporting!Holds(r) /\ health' = entry.to /\ log' = log \union {n} /\ ticks' = ticks + 1 /\ reported' = reported
      /\ report' = [report EXCEPT ![r] = Reporting!Idle]
  BY <1>0 DEF Reporting!Publish
<1>2. Live(r) /\ report[r].at = "stamped"
  BY <1>1 DEF Reporting!Holds, Live
<1>3. entry.born \in Nat /\ entry.to \in Healths /\ entry.moved \in BOOLEAN
  BY <1>2, ReportRow
<1>4. /\ log = {} => entry.moved = TRUE
      /\ \A e \in log : Last(e) /\ e.ended < entry.born => entry.moved = (e.to # entry.to)
      /\ entry.born <= ticks /\ \A e \in log : e.born # entry.born
  BY <1>2 DEF HealthInv, Compared, ReportsAreDated
<1>5. \A s \in Reporters : Live(s) /\ s # r => report[s].row.born # entry.born
  BY <1>2 DEF HealthInv, ReportsAreDated
<1> HIDE DEF entry
<1>6. /\ n.born = entry.born /\ n.to = entry.to /\ n.moved = entry.moved /\ n.ended = ticks'
      /\ n \in [born : Reporting!Times, to : Healths, moved : BOOLEAN, ended : Reporting!Times]
  BY <1>0, <1>1, <1>3, Entries DEF Reporting!Times
<1>7. /\ report' \in [Reporters -> Reporting!Report \union {Reporting!Idle}] /\ ~Live(r)'
      /\ \A s \in Reporters \ {r} : report'[s] = report[s]
  BY <1>1 DEF HealthInv, Live
<1>8. Reporting!HealthTypeOK'
  BY <1>1, <1>3, <1>6, <1>7, Entries DEF HealthInv, Reporting!HealthTypeOK, Reporting!Times
<1>9. \A s, t \in Reporters : Reporting!Holds(s)' /\ Reporting!Holds(t)' => s = t
  BY <1>7 DEF HealthInv, Reporting!Holds, Live
<1>10. \A e \in log : e.born <= ticks /\ e.ended < n.ended /\ e.ended # n.ended /\ e # n /\ e.born # n.born
  BY <1>1, <1>4, <1>6, Entries DEF HealthInv, ReportsAreDated
<1>11. n.born <= ticks' /\ n.born < n.ended /\ ticks' \in Nat /\ n.ended \in Nat /\ n.born \in Nat
  BY <1>1, <1>3, <1>4, <1>6, Entries
<1>12. ReportsAreDated'
  <2>1. \A e \in log' : e.born <= ticks' /\ e.ended <= ticks'
    BY <1>1, <1>6, <1>10, <1>11, Entries
  <2>2. \A s \in Reporters : Live(s)' => Live(s) /\ s # r /\ report'[s].row = report[s].row
    BY <1>7 DEF Live
  <2>3. \A s \in Reporters : Live(s)' => report'[s].row.born <= ticks'
    BY <1>1, <2>2, ReportRow, Entries DEF HealthInv, ReportsAreDated
  <2>4. \A e, f \in log' : e.ended = f.ended \/ e.born = f.born => e = f
    BY <1>1, <1>10 DEF HealthInv, ReportsAreDated
  <2>5. \A s \in Reporters : Live(s)' => \A e \in log' : e.born # report'[s].row.born
    BY <1>1, <1>5, <1>6, <2>2 DEF HealthInv, ReportsAreDated
  <2>6. \A s, t \in Reporters : Live(s)' /\ Live(t)' /\ report'[s].row.born = report'[t].row.born => s = t
    BY <2>2 DEF HealthInv, ReportsAreDated
  <2> QED BY <2>1, <2>3, <2>4, <2>5, <2>6 DEF ReportsAreDated
<1>13. Last(n)' /\ \A e \in log : ~Last(e)'
  BY <1>1, <1>10, <1>11, Entries DEF Last
<1>14. HealthIsTheLast'
  BY <1>1, <1>6, <1>13 DEF HealthIsTheLast
<1>15. ASSUME NEW s \in Reporters PROVE Compared(s)'
  <2> SUFFICES ASSUME Live(s)' PROVE /\ log' # {} /\ \A e \in log' : Last(e)' => ~(e.ended < report'[s].row.born)
    BY DEF Compared
  <2>1. s # r /\ report'[s] = report[s] /\ Live(s)
    BY <1>7 DEF Live
  <2>2. report[s].row.born <= ticks /\ report[s].row.born \in Nat
    BY <2>1, ReportRow DEF HealthInv, ReportsAreDated
  <2>3. ~(n.ended < report'[s].row.born)
    BY <1>1, <1>6, <2>1, <2>2, Entries
  <2> QED BY <1>1, <1>13, <2>3
<1>16. \A e \in log : Reporting!Before(e)' = Reporting!Before(e)
  BY <1>1, <1>10, <1>11, Entries DEF Reporting!Before
<1>17. \A s \in log : s \in Reporting!Before(n)' <=> Last(s)
  BY <1>1, <1>10, <1>11, Entries DEF Reporting!Before, Last
<1>18. n \notin Reporting!Before(n)'
  BY <1>11 DEF Reporting!Before
<1>19. Reporting!Before(n)' \subseteq log
  BY <1>1, <1>18 DEF Reporting!Before
<1>20. ASSUME NEW e \in log'
       PROVE  /\ Reporting!Before(e)' = {} => e.moved
              /\ \A s \in Reporting!Before(e)' : s.ended < e.born => e.moved = (s.to # e.to)
  <2>1. CASE e \in log
    BY <1>16, <2>1 DEF HealthInv, Reporting!HealthFollowsTheLog
  <2>2. CASE e = n
    <3>1. Reporting!Before(n)' = {} => log = {}
      BY <1>17 DEF HealthInv, HealthIsTheLast
    <3>2. \A s \in Reporting!Before(n)' : s.ended < entry.born => entry.moved = (s.to # entry.to)
      BY <1>4, <1>17, <1>19
    <3> QED BY <1>4, <1>6, <2>2, <3>1, <3>2
  <2> QED BY <1>1, <2>1, <2>2
<1>21. ASSUME NEW e \in Reporting!Newest'
       PROVE  \E s \in log' : health' = s.to /\ (s = e \/ (s.born < e.born /\ e.ended < s.ended))
  <2>1. e \in log' /\ \A s \in log' : s.born <= e.born
    BY DEF Reporting!Newest
  <2>2. n \in log' /\ health' = n.to
    BY <1>1, <1>6
  <2>3. CASE e # n
    <3>1. e \in log /\ n.born <= e.born /\ n.born # e.born /\ e.born \in Nat
      BY <1>1, <1>10, <2>1, <2>2, <2>3, Entries
    <3>2. n.born < e.born
      BY <1>11, <3>1
    <3> QED BY <1>10, <2>2, <3>1, <3>2
  <2> QED BY <2>2, <2>3
<1>22. Reporting!HealthFollowsTheLog'
  BY <1>20, <1>21 DEF Reporting!HealthFollowsTheLog
<1> QED BY <1>7, <1>8, <1>9, <1>12, <1>14, <1>15, <1>22 DEF HealthInv

\* Every step of a report keeps the invariant.
LEMMA HealthStep == HealthInv /\ [Reporting!HealthNext]_healthVars => HealthInv'
<1> SUFFICES ASSUME HealthInv, [Reporting!HealthNext]_healthVars PROVE HealthInv'
  OBVIOUS
<1>1. CASE UNCHANGED healthVars
  <2>1. UNCHANGED <<health, log, report, reported, ticks>>
    BY <1>1 DEF healthVars
  <2>2. Reporting!HealthTypeOK' /\ ReportsAreDated' /\ \A r \in Reporters : Compared(r)'
    BY <2>1 DEF HealthInv, Reporting!HealthTypeOK, ReportsAreDated, Compared, Live, Last
  <2> QED BY <2>1, <2>2, TheLogRests DEF HealthInv, Reporting!Holds
<1>2. ASSUME NEW r \in Reporters, Reporting!Abandon(r) PROVE HealthInv'
  <2>1. Live(r) /\ report' = [report EXCEPT ![r] = Reporting!Idle] /\ UNCHANGED <<health, log, reported, ticks>>
    BY <1>2 DEF Reporting!Abandon, Live
  <2> QED BY <2>1, ReportMoves
<1> QED BY <1>1, <1>2, ReportKeeps, DecideKeeps, StampKeeps, PublishKeeps DEF Reporting!HealthNext

-----------------------------------------------------------------------------
(* Documents.                                                               *)

Changing(c) == request[c].kind = "change"
Requests == {Editing!Inactive} \union [kind : {"change"}, current : Editing!Document]
              \union [kind : {"delete"}, cleared : SUBSET (Editing!Revision \union Editing!Comment)]

\* Who changes the document has it locked: it is as it was read, but that it may have come to rest.
DocumentInv ==
  /\ Editing!DocumentTypeOK /\ request \in [Clients -> Requests]
  /\ \A c \in Clients : Changing(c) =>
       document # None /\ document.text = request[c].current.text /\ document.by = request[c].current.by
  /\ ~born => document = None /\ owed = {}
  /\ Editing!NoVersionIsLost

\* The row's lock is one editor's.
LockIsOnes == \A c, d \in Clients : Changing(c) /\ Changing(d) => c = d

\* There is no document at first.
LEMMA DocumentStart == Editing!DocumentInit => DocumentInv /\ LockIsOnes
<1> SUFFICES ASSUME Editing!DocumentInit PROVE DocumentInv /\ LockIsOnes
  OBVIOUS
<1>1. /\ document = None /\ revisions = {} /\ comments = {} /\ owed = {} /\ born = FALSE
      /\ request = [c \in Clients |-> Editing!Inactive]
  BY DEF Editing!DocumentInit
<1>2. Editing!DocumentTypeOK /\ request \in [Clients -> Requests]
  BY <1>1 DEF Editing!DocumentTypeOK, Requests
<1> QED BY <1>1, <1>2 DEF DocumentInv, LockIsOnes, Changing, Editing!Inactive, Editing!NoVersionIsLost

\* What a request holds.
LEMMA RequestTypes == ASSUME DocumentInv, NEW c \in Clients
  PROVE  /\ Changing(c) => request[c] \in [kind : {"change"}, current : Editing!Document]
         /\ request[c].kind = "delete" => request[c] \in [kind : {"delete"}, cleared : SUBSET (Editing!Revision \union Editing!Comment)]
BY DEF DocumentInv, Requests, Changing, Editing!Inactive

\* The tables are well typed when each of them is.
LEMMA DocumentTypes ==
  ASSUME request' \in [Clients -> Requests], document' \in Editing!Document \union {None},
         revisions' \in SUBSET Editing!Revision, comments' \in SUBSET Editing!Comment, owed' \in SUBSET (Texts \X Editors), born' \in BOOLEAN
  PROVE  Editing!DocumentTypeOK'
BY DEF Editing!DocumentTypeOK, Requests

\* The tables, one at a time.
LEMMA TableTypes ==
  ASSUME DocumentInv
  PROVE  /\ document \in Editing!Document \union {None} /\ None \notin Editing!Document
         /\ revisions \in SUBSET Editing!Revision /\ comments \in SUBSET Editing!Comment
         /\ owed \in SUBSET (Texts \X Editors) /\ born \in BOOLEAN /\ request \in [Clients -> Requests]
BY LegalConstants DEF DocumentInv, Editing!DocumentTypeOK, Editing!LegalDocumentConstants

\* A transaction begins or is over, and nothing is written but a comment.
LEMMA RequestMoves ==
  ASSUME DocumentInv, NEW c \in Clients, NEW k \in Requests, request' = [request EXCEPT ![c] = k],
         k.kind = "change" => document # None /\ k.current = document,
         UNCHANGED <<document, revisions, comments, owed, born>>
  PROVE  DocumentInv'
<1>1. request' \in [Clients -> Requests] /\ request'[c] = k /\ \A d \in Clients \ {c} : request'[d] = request[d]
  BY TableTypes
<1>2. Editing!DocumentTypeOK'
  BY <1>1, TableTypes, DocumentTypes
<1>3. Editing!NoVersionIsLost'
  BY DEF DocumentInv, Editing!NoVersionIsLost
<1> QED BY <1>1, <1>2, <1>3 DEF DocumentInv, Changing

\* A new text is put over the one that was locked.
LEMMA PutKeeps ==
  ASSUME DocumentInv, NEW c \in Clients, NEW text \in Texts, NEW e \in Editors, Changing(c), Editing!Put(c, text, e),
         \/ Editing!CreateRevision /\ owed' \in {owed, owed \union {<<document.text, document.by>>}}
         \/ UNCHANGED <<revisions, owed>>,
         \A d \in Clients : Changing(d) => d = c
  PROVE  DocumentInv'
<1> DEFINE new == [text |-> text, by |-> e, rested |-> FALSE]
<1>1. /\ document' = new /\ request' = [request EXCEPT ![c] = Editing!Inactive] /\ comments' = comments /\ born' = born
      /\ document # None
  BY DEF Editing!Put, Editing!Close, DocumentInv
<1>2. document \in Editing!Document /\ document.text \in Texts /\ document.by \in Editors /\ new \in Editing!Document
  BY <1>1, TableTypes DEF Editing!Document
<1> HIDE DEF new
<1>3. request' \in [Clients -> Requests] /\ request'[c] = Editing!Inactive /\ \A d \in Clients \ {c} : request'[d] = request[d]
  BY <1>1, TableTypes DEF Requests
<1>4. revisions' \in SUBSET Editing!Revision /\ revisions \subseteq revisions'
      /\ (UNCHANGED <<revisions, owed>> \/ \E r \in revisions' : r.text = document.text /\ r.by = document.by)
  <2>1. CASE Editing!CreateRevision
    <3>1. PICK id \in 1..MaxRevisions : revisions' = revisions \union {[id |-> id, text |-> document.text, by |-> document.by]}
      BY <2>1 DEF Editing!CreateRevision
    <3>2. [id |-> id, text |-> document.text, by |-> document.by] \in Editing!Revision
      BY <1>2 DEF Editing!Revision
    <3> QED BY <3>1, <3>2, TableTypes
  <2>2. CASE UNCHANGED <<revisions, owed>>
    BY <2>2, TableTypes
  <2> QED BY <2>1, <2>2
<1>5. owed' \in SUBSET (Texts \X Editors)
  BY <1>2, TableTypes
<1>6. Editing!DocumentTypeOK'
  BY <1>1, <1>2, <1>3, <1>4, <1>5, TableTypes, DocumentTypes
<1>7. owed \subseteq {<<r.text, r.by>> : r \in revisions}
  BY <1>1 DEF DocumentInv, Editing!NoVersionIsLost
<1>8. Editing!NoVersionIsLost'
  <2>1. owed \subseteq {<<r.text, r.by>> : r \in revisions'}
    BY <1>4, <1>7
  <2>2. owed' = owed \/ <<document.text, document.by>> \in {<<r.text, r.by>> : r \in revisions'}
    BY <1>4
  <2> QED BY <2>1, <2>2 DEF Editing!NoVersionIsLost
<1>9. born
  BY <1>1 DEF DocumentInv
<1>10. \A d \in Clients : ~Changing(d)'
  BY <1>3 DEF Changing, Editing!Inactive
<1> QED BY <1>1, <1>3, <1>6, <1>8, <1>9, <1>10 DEF DocumentInv

\* Every step on a document keeps the invariant, and its lock with one request.
LEMMA DocumentStep == DocumentInv /\ LockIsOnes /\ [Editing!DocumentNext]_documentVars => DocumentInv' /\ LockIsOnes'
<1> SUFFICES ASSUME DocumentInv, LockIsOnes, [Editing!DocumentNext]_documentVars PROVE DocumentInv' /\ LockIsOnes'
  OBVIOUS
<1>1. CASE UNCHANGED documentVars
  <2>1. UNCHANGED <<document, revisions, comments, request, owed, born>>
    BY <1>1 DEF documentVars
  <2>2. Editing!DocumentTypeOK'
    BY <2>1, TableTypes, DocumentTypes
  <2> QED BY <2>1, <2>2 DEF DocumentInv, LockIsOnes, Changing, Editing!NoVersionIsLost
<1>2. ASSUME NEW text \in Texts, NEW e \in Editors, Editing!CreateDocument(text, e) PROVE DocumentInv' /\ LockIsOnes'
  <2> DEFINE new == [text |-> text, by |-> e, rested |-> FALSE]
  <2>1. ~born /\ born' = TRUE /\ document' = new /\ UNCHANGED <<revisions, comments, request, owed>>
    BY <1>2 DEF Editing!CreateDocument
  <2>2. new \in Editing!Document /\ owed = {} /\ document = None
    BY <2>1 DEF Editing!Document, DocumentInv
  <2> HIDE DEF new
  <2>3. Editing!DocumentTypeOK'
    BY <2>1, <2>2, TableTypes, DocumentTypes
  <2>4. \A c \in Clients : ~Changing(c) /\ ~Changing(c)'
    BY <2>1, <2>2 DEF DocumentInv, Changing
  <2> QED BY <2>1, <2>2, <2>3, <2>4 DEF DocumentInv, LockIsOnes, Editing!NoVersionIsLost
<1>3. CASE Editing!Rest
  <2> DEFINE new == [document EXCEPT !.rested = TRUE]
  <2>1. document # None /\ document' = new /\ UNCHANGED <<revisions, comments, request, owed, born>>
    BY <1>3 DEF Editing!Rest
  <2>2. document \in Editing!Document
    BY <2>1, TableTypes
  <2>3. new \in Editing!Document /\ new.text = document.text /\ new.by = document.by
    BY <2>2 DEF Editing!Document
  <2> HIDE DEF new
  <2>4. Editing!DocumentTypeOK'
    BY <2>1, <2>3, TableTypes, DocumentTypes
  <2> QED BY <2>1, <2>3, <2>4, TableTypes DEF DocumentInv, LockIsOnes, Changing, Editing!NoVersionIsLost
<1>4. ASSUME NEW c \in Clients, Editing!LockForEdit(c) PROVE DocumentInv' /\ LockIsOnes'
  <2> DEFINE k == [kind |-> "change", current |-> document]
  <2>1. /\ document # None /\ \A d \in Clients : ~Changing(d) /\ request' = [request EXCEPT ![c] = k]
        /\ UNCHANGED <<document, revisions, comments, owed, born>>
    BY <1>4 DEF Editing!LockForEdit, Editing!Unlocked, Changing
  <2>2. k \in Requests /\ k.current = document
    BY <2>1, TableTypes DEF Requests
  <2> HIDE DEF k
  <2>3. LockIsOnes'
    BY <2>1, TableTypes DEF LockIsOnes, Changing
  <2> QED BY <2>1, <2>2, <2>3, RequestMoves
<1>5. ASSUME NEW c \in Clients, NEW e \in Editors, NEW text \in Texts, NEW snapshot \in BOOLEAN, Editing!Edit(c, e, text, snapshot)
      PROVE  DocumentInv' /\ LockIsOnes'
  <2>1. /\ Changing(c) /\ Editing!Put(c, text, e)
        /\ IF Editing!IsBoundary(c, e, snapshot) THEN Editing!CreateRevision ELSE UNCHANGED revisions
        /\ IF e # document.by \/ document.rested \/ snapshot THEN Editing!Owe ELSE UNCHANGED owed
    BY <1>5 DEF Editing!Edit, Changing
  <2>2. e # document.by \/ document.rested \/ snapshot => Editing!IsBoundary(c, e, snapshot)
    BY <2>1 DEF Editing!IsBoundary, DocumentInv
  <2>3. \/ Editing!CreateRevision /\ owed' \in {owed, owed \union {<<document.text, document.by>>}}
        \/ UNCHANGED <<revisions, owed>>
    BY <2>1, <2>2 DEF Editing!Owe
  <2>4. \A d \in Clients : Changing(d) => d = c
    BY <2>1 DEF LockIsOnes
  <2>5. LockIsOnes'
    BY <2>1, <2>4, TableTypes DEF LockIsOnes, Editing!Put, Editing!Close, Editing!Inactive, Changing
  <2> QED BY <2>1, <2>3, <2>4, <2>5, PutKeeps
<1>6. ASSUME NEW c \in Clients, NEW e \in Editors, NEW r \in Editing!Revision, Editing!Restore(c, e, r)
      PROVE  DocumentInv' /\ LockIsOnes'
  <2>1. /\ Changing(c) /\ Editing!Put(c, r.text, e) /\ Editing!CreateRevision
        /\ owed' = owed \union {<<document.text, document.by>>} /\ r.text \in Texts
    BY <1>6 DEF Editing!Restore, Changing, Editing!Owe, Editing!Revision
  <2>2. \A d \in Clients : Changing(d) => d = c
    BY <2>1 DEF LockIsOnes
  <2>3. LockIsOnes'
    BY <2>1, <2>2, TableTypes DEF LockIsOnes, Editing!Put, Editing!Close, Editing!Inactive, Changing
  <2> QED BY <2>1, <2>2, <2>3, PutKeeps
<1>7. ASSUME NEW c \in Clients, Editing!Leave(c) \/ Editing!BeginDelete(c) PROVE DocumentInv' /\ LockIsOnes'
  <2> DEFINE k == [kind |-> "delete", cleared |-> revisions \union comments]
  <2>1. /\ request' = [request EXCEPT ![c] = Editing!Inactive] \/ request' = [request EXCEPT ![c] = k]
        /\ UNCHANGED <<document, revisions, comments, owed, born>>
    BY <1>7 DEF Editing!Leave, Editing!Close, Editing!BeginDelete
  <2>2. k \in Requests /\ k.kind = "delete" /\ Editing!Inactive \in Requests /\ Editing!Inactive.kind = "none"
    BY TableTypes DEF Requests, Editing!Inactive
  <2> HIDE DEF k
  <2>3. LockIsOnes'
    BY <2>1, <2>2, TableTypes DEF LockIsOnes, Changing
  <2> QED BY <2>1, <2>2, <2>3, RequestMoves
<1>8. ASSUME NEW c \in Clients, Editing!FinishDelete(c) PROVE DocumentInv' /\ LockIsOnes'
  <2>1. /\ \A d \in Clients : ~Changing(d) /\ request' = [request EXCEPT ![c] = Editing!Inactive] /\ UNCHANGED <<owed, born>>
        /\ \/ document # None /\ document' = None /\ revisions' = {} /\ comments' = {}
           \/ UNCHANGED <<document, revisions, comments>>
    BY <1>8 DEF Editing!FinishDelete, Editing!Unlocked, Editing!Close, Changing
  <2>2. request' \in [Clients -> Requests] /\ \A d \in Clients : ~Changing(d)'
    BY <2>1, TableTypes DEF Requests, Changing, Editing!Inactive
  <2>3. Editing!DocumentTypeOK'
    BY <2>1, <2>2, TableTypes, DocumentTypes
  <2> QED BY <2>1, <2>2, <2>3 DEF DocumentInv, LockIsOnes, Editing!NoVersionIsLost
<1>9. ASSUME comments' \in SUBSET Editing!Comment, UNCHANGED <<document, revisions, request, owed, born>>
      PROVE  DocumentInv' /\ LockIsOnes'
  <2>1. Editing!DocumentTypeOK'
    BY <1>9, TableTypes, DocumentTypes
  <2> QED BY <1>9, <2>1 DEF DocumentInv, LockIsOnes, Changing, Editing!NoVersionIsLost
<1>10. ASSUME NEW id \in Comments, NEW e \in Editors, Editing!CreateComment(id, e) PROVE DocumentInv' /\ LockIsOnes'
  <2>1. comments' \in SUBSET Editing!Comment /\ UNCHANGED <<document, revisions, request, owed, born>>
    BY <1>10, TableTypes DEF Editing!CreateComment, Editing!Comment
  <2> QED BY <1>9, <2>1
<1>11. ASSUME NEW m \in Editing!Comment, Editing!DeleteComment(m) PROVE DocumentInv' /\ LockIsOnes'
  <2>1. comments' \in SUBSET Editing!Comment /\ UNCHANGED <<document, revisions, request, owed, born>>
    BY <1>11, TableTypes DEF Editing!DeleteComment
  <2> QED BY <1>9, <2>1
<1> QED BY <1>1, <1>2, <1>3, <1>4, <1>5, <1>6, <1>7, <1>8, <1>10, <1>11 DEF Editing!DocumentNext

-----------------------------------------------------------------------------
(* Templates.                                                               *)

Worn == UNION {d.labels : d \in Drafts}
Writes == [at : {"written", "relabelled"}, draft : Drafts, gone : SUBSET Worn]
Discards == [at : {"unscheduled", "unlabelled"}, took : BOOLEAN, gone : SUBSET Worn]
Checks == [at : {"checked"}, team : Squads, moved : BOOLEAN]
Edits == {Shaping!Idle} \union Writes \union Discards \union Checks
HoldsTheRow(c) == edits[c].at \in {"written", "relabelled"}

\* One writer holds the row, and the labels it is about to put back are those it deleted;
\* a schedule's check is of the template's present team, or it knows that the team was moved.
EditsInv ==
  /\ template \in Drafts \union {None} /\ labels \in SUBSET Worn /\ schedule \in Squads \union {None}
  /\ retargeted \in BOOLEAN /\ saved \in SUBSET Drafts /\ edits \in [Menders -> Edits]
  /\ template = None => labels = {} /\ schedule = None
  /\ template # None => template \in saved /\ labels = template.labels
  /\ \A c, d \in Menders : HoldsTheRow(c) /\ HoldsTheRow(d) => c = d
  /\ \A c \in Menders : HoldsTheRow(c) => template # None
  /\ \A c \in Menders : edits[c].at = "relabelled" => labels = edits[c].gone
  /\ \A c \in Menders : edits[c].at = "checked" /\ template # None =>
       Shaping!Fits(template, edits[c].team) \/ edits[c].moved = TRUE
  /\ Shaping!ScheduleFits

Reads == [at : {"read", "filed", "placed"}, team : Squads, project : {d.project : d \in Drafts}, labels : SUBSET Worn]
Issue == [team : Squads, project : {d.project : d \in Drafts} \union {None}, labels : SUBSET Worn]

\* What an applier has read is a draft that was saved; what it has filed is what it has read, as far as it is.
FilingsInv ==
  /\ applying \in [Appliers -> Reads \union {Shaping!Idle}] /\ filed \in [Appliers -> Issue \union {None}]
  /\ \A a \in Appliers : applying[a].at # "idle" =>
       /\ \E d \in saved : Shaping!Fits(d, applying[a].team) /\ applying[a].project = d.project /\ applying[a].labels = d.labels
       /\ applying[a].at = "filed" => filed[a] = [team |-> applying[a].team, project |-> None, labels |-> {}]
       /\ applying[a].at = "placed" =>
            /\ filed[a] \in Issue /\ filed[a].team = applying[a].team /\ filed[a].project = applying[a].project
            /\ filed[a].labels \subseteq applying[a].labels
  /\ Shaping!IssueFollowsOneDraft

\* There is no template at first.
LEMMA TemplateStart == Shaping!TemplateInit => EditsInv /\ FilingsInv
<1> SUFFICES ASSUME Shaping!TemplateInit PROVE EditsInv /\ FilingsInv
  OBVIOUS
<1>1. /\ template = None /\ labels = {} /\ schedule = None /\ edits = [c \in Menders |-> Shaping!Idle]
      /\ applying = [a \in Appliers |-> Shaping!Idle] /\ filed = [a \in Appliers |-> None]
      /\ saved = {} /\ retargeted = FALSE
  BY DEF Shaping!TemplateInit
<1>2. Shaping!Idle.at = "idle" /\ Shaping!Idle \in Edits
  BY DEF Shaping!Idle, Edits
<1>3. EditsInv
  BY <1>1, <1>2 DEF EditsInv, HoldsTheRow, Shaping!ScheduleFits
<1>4. FilingsInv
  BY <1>1, <1>2 DEF FilingsInv, Shaping!IssueFollowsOneDraft
<1> QED BY <1>3, <1>4

\* The properties follow.
LEMMA TemplateProperties ==
  EditsInv /\ FilingsInv =>
    Shaping!TemplateTypeOK /\ Shaping!TemplateIsOneDraft /\ Shaping!ScheduleFits /\ Shaping!IssueFollowsOneDraft
<1> SUFFICES ASSUME EditsInv, FilingsInv PROVE Shaping!TemplateTypeOK /\ Shaping!TemplateIsOneDraft
  BY DEF EditsInv, FilingsInv
<1>1. \A c \in Menders : edits[c].at \in {"idle", "written", "relabelled", "unscheduled", "unlabelled", "checked"}
  BY DEF EditsInv, Edits, Writes, Discards, Checks, Shaping!Idle
<1>2. \A a \in Appliers : applying[a].at \in {"idle", "read", "filed", "placed"}
  BY DEF FilingsInv, Reads, Shaping!Idle
<1>3. \A a \in Appliers : filed[a] # None => filed[a].team \in Squads
  BY DEF FilingsInv, Issue
<1> QED BY <1>1, <1>2, <1>3 DEF EditsInv, Shaping!TemplateTypeOK, Shaping!TemplateIsOneDraft

\* What a writer of the template holds.
LEMMA EditRecords == ASSUME EditsInv, NEW c \in Menders
  PROVE  /\ HoldsTheRow(c) => edits[c] \in Writes
         /\ edits[c].at \in {"unscheduled", "unlabelled"} => edits[c] \in Discards
         /\ edits[c].at = "checked" => edits[c] \in Checks
BY DEF EditsInv, Edits, Writes, Discards, Checks, HoldsTheRow, Shaping!Idle

\* One transaction takes a step, and no table is written.
LEMMA EditMoves ==
  ASSUME EditsInv, NEW c \in Menders, NEW k \in Edits, edits' = [edits EXCEPT ![c] = k],
         k.at \in {"written", "relabelled"} => template # None /\ \A d \in Menders \ {c} : ~HoldsTheRow(d),
         k.at = "relabelled" => k.gone = labels,
         k.at = "checked" => Shaping!Fits(template, k.team),
         UNCHANGED <<template, labels, schedule, saved, retargeted>>
  PROVE  EditsInv'
<1>1. edits' \in [Menders -> Edits] /\ edits'[c] = k /\ \A d \in Menders \ {c} : edits'[d] = edits[d]
  BY DEF EditsInv
<1>2. Shaping!ScheduleFits'
  BY DEF EditsInv, Shaping!ScheduleFits, Shaping!Fits
<1>3. \A d, e \in Menders : HoldsTheRow(d)' /\ HoldsTheRow(e)' => d = e
  BY <1>1 DEF EditsInv, HoldsTheRow
<1>4. \A d \in Menders : HoldsTheRow(d)' => template' # None
  BY <1>1 DEF EditsInv, HoldsTheRow
<1>5. \A d \in Menders : edits'[d].at = "relabelled" => labels' = edits'[d].gone
  BY <1>1 DEF EditsInv
<1>6. \A d \in Menders : edits'[d].at = "checked" /\ template' # None => Shaping!Fits(template', edits'[d].team) \/ edits'[d].moved = TRUE
  BY <1>1 DEF EditsInv
<1> QED BY <1>1, <1>2, <1>3, <1>4, <1>5, <1>6 DEF EditsInv

\* A request that ended holds nothing.
LEMMA IdleIsOver == Shaping!Idle \in Edits /\ Shaping!Idle.at = "idle"
BY DEF Shaping!Idle, Edits

\* The row and its labels are written as the draft says, and whoever checked the team is told of another.
LEMMA SaveKeeps == ASSUME EditsInv, NEW c \in Menders, Shaping!Save(c) PROVE EditsInv' /\ saved \subseteq saved'
<1> DEFINE new == edits[c].draft
           other == new.team # template.team
<1>1. /\ edits[c].at = "relabelled" /\ template' = new /\ labels' = (labels \ edits[c].gone) \union new.labels
      /\ saved' = saved \union {new} /\ schedule' = schedule /\ retargeted' = (retargeted \/ other)
      /\ edits' = [d \in Menders |-> IF d = c THEN Shaping!Idle
                                     ELSE IF edits[d].at = "checked" THEN [edits[d] EXCEPT !.moved = @ \/ other]
                                     ELSE edits[d]]
  BY DEF Shaping!Save
<1>2. /\ edits[c] \in Writes /\ template # None /\ labels = edits[c].gone /\ \A d \in Menders \ {c} : ~HoldsTheRow(d)
  BY <1>1, EditRecords DEF EditsInv, HoldsTheRow
<1>3. new \in Drafts /\ new # None /\ labels' = new.labels /\ new.labels \in SUBSET Worn
  BY <1>1, <1>2, LegalConstants DEF Writes, Worn, Shaping!LegalTemplateConstants
<1>4. retargeted' \in BOOLEAN /\ other \in BOOLEAN /\ (other => retargeted' = TRUE) /\ (retargeted = TRUE => retargeted' = TRUE)
  BY <1>1 DEF EditsInv
<1>5. template.team # new.team \/ \A s : Shaping!Fits(template, s) => Shaping!Fits(new, s)
  BY DEF Shaping!Fits
<1>6. other <=> template.team # new.team
  OBVIOUS
<1> HIDE DEF other, new
<1>7. ASSUME NEW d \in Menders \ {c}
      PROVE  /\ edits'[d] \in Edits /\ edits'[d].at = edits[d].at
             /\ edits[d].at # "checked" => edits'[d] = edits[d]
             /\ edits[d].at = "checked" => edits'[d].team = edits[d].team /\ (edits[d].moved = TRUE \/ other => edits'[d].moved = TRUE)
  <2>1. CASE edits[d].at = "checked"
    <3> DEFINE k == edits[d]
               m == [k EXCEPT !.moved = @ \/ other]
    <3>1. edits'[d] = m /\ k \in Checks
      BY <1>1, <2>1, EditRecords
    <3> HIDE DEF k
    <3>2. (k.moved \/ other) \in BOOLEAN
      OBVIOUS
    <3>3. m \in Checks /\ m.at = "checked" /\ m.team = k.team /\ m.moved = (k.moved \/ other)
      BY <3>1, <3>2 DEF Checks
    <3>4. m.moved \in BOOLEAN /\ k.moved \in BOOLEAN
      BY <3>1, <3>3 DEF Checks
    <3>5. k.moved = TRUE \/ other => m.moved = TRUE
      BY <3>3, <3>4
    <3> HIDE DEF m
    <3> QED BY <2>1, <3>1, <3>3, <3>5 DEF k, Edits
  <2>2. CASE edits[d].at # "checked"
    BY <1>1, <2>2 DEF EditsInv
  <2> QED BY <2>1, <2>2
<1>8. edits'[c] = Shaping!Idle
  BY <1>1
<1>9. edits' \in [Menders -> Edits]
  <2>1. \A d \in Menders : edits'[d] \in Edits
    BY <1>7, <1>8, IdleIsOver
  <2>2. edits' = [d \in Menders |-> edits'[d]]
    BY <1>1
  <2> QED BY <2>1, <2>2
<1>10. \A d \in Menders : ~HoldsTheRow(d)' /\ edits'[d].at # "relabelled"
  BY <1>2, <1>7, <1>8, IdleIsOver DEF HoldsTheRow
<1>11. ASSUME NEW d \in Menders, edits'[d].at = "checked" PROVE Shaping!Fits(new, edits'[d].team) \/ edits'[d].moved = TRUE
  <2>1. d # c /\ edits[d].at = "checked"
    BY <1>7, <1>8, <1>11, IdleIsOver
  <2>2. Shaping!Fits(template, edits[d].team) \/ edits[d].moved = TRUE
    BY <1>2, <2>1 DEF EditsInv
  <2> QED BY <1>5, <1>6, <1>7, <2>1, <2>2
<1>12. schedule # None => Shaping!Fits(new, schedule) \/ retargeted' = TRUE
  <2>1. schedule # None => Shaping!Fits(template, schedule) \/ retargeted = TRUE
    BY DEF EditsInv, Shaping!ScheduleFits
  <2> QED BY <1>4, <1>5, <1>6, <2>1
<1>13. Shaping!ScheduleFits'
  BY <1>1, <1>12 DEF Shaping!ScheduleFits, Shaping!Fits
<1>14. saved' \in SUBSET Drafts /\ new \in saved' /\ schedule' \in Squads \union {None}
  BY <1>1, <1>3 DEF EditsInv
<1> QED BY <1>1, <1>3, <1>4, <1>9, <1>10, <1>11, <1>13, <1>14 DEF EditsInv

\* A writer's labels replace those that are there.
LEMMA ReplaceLabelsKeeps == ASSUME EditsInv, NEW c \in Menders, Shaping!ReplaceLabels(c) PROVE EditsInv'
<1> DEFINE k == edits[c]
           m == [k EXCEPT !.at = "relabelled", !.gone = labels]
<1>1. k.at = "written" /\ edits' = [edits EXCEPT ![c] = m] /\ UNCHANGED <<template, labels, schedule, saved, retargeted>>
  BY DEF Shaping!ReplaceLabels
<1>2. k \in Writes /\ template # None /\ labels \in SUBSET Worn /\ \A d \in Menders \ {c} : ~HoldsTheRow(d)
  BY <1>1, EditRecords DEF EditsInv, HoldsTheRow
<1> HIDE DEF k
<1>3. m \in Writes /\ m.at = "relabelled" /\ m.gone = labels
  BY <1>2 DEF Writes
<1>4. m \in Edits
  BY <1>3 DEF Edits
<1> HIDE DEF m
<1> QED BY <1>1, <1>2, <1>3, <1>4, EditMoves

\* A deletion takes the labels away.
LEMMA UnlabelKeeps == ASSUME EditsInv, NEW c \in Menders, Shaping!Unlabel(c) PROVE EditsInv'
<1> DEFINE k == edits[c]
           m == [k EXCEPT !.at = "unlabelled", !.gone = labels]
<1>1. k.at = "unscheduled" /\ edits' = [edits EXCEPT ![c] = m] /\ UNCHANGED <<template, labels, schedule, saved, retargeted>>
  BY DEF Shaping!Unlabel
<1>2. k \in Discards /\ labels \in SUBSET Worn
  BY <1>1, EditRecords DEF EditsInv
<1> HIDE DEF k
<1>3. m \in Discards /\ m.at = "unlabelled"
  BY <1>2 DEF Discards
<1>4. m \in Edits
  BY <1>3 DEF Edits
<1> HIDE DEF m
<1> QED BY <1>1, <1>3, <1>4, EditMoves

\* The row goes with its schedule and labels, or what came since keeps it.
LEMMA DeleteKeeps == ASSUME EditsInv, NEW c \in Menders, Shaping!Delete(c) PROVE EditsInv'
<1>1. /\ \A d \in Menders : ~HoldsTheRow(d)
      /\ edits' = [edits EXCEPT ![c] = Shaping!Idle] /\ saved' = saved
      /\ \/ template' = None /\ labels' = {} /\ schedule' = None /\ retargeted' = FALSE
         \/ UNCHANGED <<template, labels, schedule, retargeted>>
  BY DEF Shaping!Delete, Shaping!RowHeld, Shaping!Over, HoldsTheRow
<1>2. CASE UNCHANGED <<template, labels, schedule, retargeted>>
  BY <1>1, <1>2, EditMoves, IdleIsOver
<1>3. CASE template' = None /\ labels' = {} /\ schedule' = None /\ retargeted' = FALSE
  <2>1. /\ edits' \in [Menders -> Edits] /\ \A d \in Menders : ~HoldsTheRow(d)' /\ edits'[d].at # "relabelled"
    BY <1>1, IdleIsOver DEF EditsInv, HoldsTheRow
  <2>2. Shaping!ScheduleFits'
    BY <1>3 DEF Shaping!ScheduleFits
  <2> QED BY <1>1, <1>3, <2>1, <2>2 DEF EditsInv
<1> QED BY <1>1, <1>2, <1>3

\* A schedule is saved for the team that was checked.
LEMMA UpsertKeeps == ASSUME EditsInv, NEW c \in Menders, Shaping!Upsert(c) PROVE EditsInv'
<1>1. /\ edits[c].at = "checked" /\ edits' = [edits EXCEPT ![c] = Shaping!Idle] /\ UNCHANGED <<template, labels, saved>>
      /\ IF template = None THEN UNCHANGED <<schedule, retargeted>> ELSE schedule' = edits[c].team /\ retargeted' = edits[c].moved
  BY DEF Shaping!Upsert, Shaping!Over
<1>2. CASE template = None
  BY <1>1, <1>2, EditMoves, IdleIsOver
<1>3. CASE template # None
  <2>1. edits[c].team \in Squads /\ edits[c].moved \in BOOLEAN
    BY <1>1, EditRecords DEF Checks
  <2>2. Shaping!Fits(template, edits[c].team) \/ edits[c].moved = TRUE
    BY <1>1, <1>3 DEF EditsInv
  <2>3. Shaping!ScheduleFits'
    BY <1>1, <1>3, <2>2 DEF Shaping!ScheduleFits, Shaping!Fits
  <2>4. /\ edits' \in [Menders -> Edits] /\ edits'[c] = Shaping!Idle /\ \A d \in Menders \ {c} : edits'[d] = edits[d]
    BY <1>1, IdleIsOver DEF EditsInv
  <2>5. /\ \A d, e \in Menders : HoldsTheRow(d)' /\ HoldsTheRow(e)' => d = e
        /\ \A d \in Menders : edits'[d].at = "relabelled" => labels = edits'[d].gone
        /\ \A d \in Menders : edits'[d].at = "checked" => Shaping!Fits(template, edits'[d].team) \/ edits'[d].moved = TRUE
    BY <1>3, <2>4, IdleIsOver DEF EditsInv, HoldsTheRow
  <2> QED BY <1>1, <1>3, <2>1, <2>3, <2>4, <2>5 DEF EditsInv
<1> QED BY <1>2, <1>3

\* A filed issue is of a draft that stays saved.
LEMMA FilingsStay == ASSUME FilingsInv, saved \subseteq saved', UNCHANGED <<applying, filed>> PROVE FilingsInv'
<1>1. Shaping!IssueFollowsOneDraft'
  BY DEF FilingsInv, Shaping!IssueFollowsOneDraft, Shaping!Fits
<1>2. ASSUME NEW a \in Appliers, applying[a].at # "idle"
      PROVE  \E d \in saved' : Shaping!Fits(d, applying[a].team) /\ applying[a].project = d.project /\ applying[a].labels = d.labels
  BY <1>2 DEF FilingsInv
<1> QED BY <1>1, <1>2 DEF FilingsInv, Shaping!Fits

\* One applier takes a step.
LEMMA FilingMoves ==
  ASSUME FilingsInv, NEW a \in Appliers, NEW k \in Reads \union {Shaping!Idle}, NEW i \in Issue \union {None},
         applying' = [applying EXCEPT ![a] = k], filed' = [filed EXCEPT ![a] = i], saved' = saved,
         k.at # "idle" =>
           /\ \E d \in saved : Shaping!Fits(d, k.team) /\ k.project = d.project /\ k.labels = d.labels
           /\ k.at = "filed" => i = [team |-> k.team, project |-> None, labels |-> {}]
           /\ k.at = "placed" => i \in Issue /\ i.team = k.team /\ i.project = k.project /\ i.labels \subseteq k.labels,
         i # None => \E d \in saved :
           /\ Shaping!Fits(d, i.team) /\ i.project \in {None, d.project} /\ i.labels \subseteq d.labels
           /\ i.labels # {} => i.project = d.project
  PROVE  FilingsInv'
<1>1. /\ applying' \in [Appliers -> Reads \union {Shaping!Idle}] /\ applying'[a] = k /\ \A b \in Appliers \ {a} : applying'[b] = applying[b]
      /\ filed' \in [Appliers -> Issue \union {None}] /\ filed'[a] = i /\ \A b \in Appliers \ {a} : filed'[b] = filed[b]
  BY DEF FilingsInv
<1>2. Shaping!IssueFollowsOneDraft'
  BY <1>1 DEF FilingsInv, Shaping!IssueFollowsOneDraft, Shaping!Fits
<1>3. ASSUME NEW b \in Appliers, applying'[b].at # "idle"
      PROVE  /\ \E d \in saved' : Shaping!Fits(d, applying'[b].team) /\ applying'[b].project = d.project /\ applying'[b].labels = d.labels
             /\ applying'[b].at = "filed" => filed'[b] = [team |-> applying'[b].team, project |-> None, labels |-> {}]
             /\ applying'[b].at = "placed" =>
                  /\ filed'[b] \in Issue /\ filed'[b].team = applying'[b].team /\ filed'[b].project = applying'[b].project
                  /\ filed'[b].labels \subseteq applying'[b].labels
  <2>1. CASE b = a
    BY <1>1, <1>3, <2>1
  <2>2. CASE b # a
    BY <1>1, <1>3, <2>2 DEF FilingsInv
  <2> QED BY <2>1, <2>2
<1> QED BY <1>1, <1>2, <1>3 DEF FilingsInv, Shaping!Fits

\* A request reads the template whole.
LEMMA TemplateReadKeeps == ASSUME EditsInv, FilingsInv, NEW a \in Appliers, NEW team \in Squads, Shaping!Read(a, team) PROVE FilingsInv'
<1> DEFINE k == [at |-> "read", team |-> team, project |-> template.project, labels |-> labels]
<1>1. /\ template # None /\ Shaping!Fits(template, team) /\ filed[a] = None /\ applying' = [applying EXCEPT ![a] = k]
      /\ UNCHANGED <<filed, saved>>
  BY DEF Shaping!Read
<1>2. template \in saved /\ template \in Drafts /\ labels = template.labels /\ labels \in SUBSET Worn
  BY <1>1 DEF EditsInv
<1>3. k \in Reads /\ k.at = "read" /\ k.team = team /\ k.project = template.project /\ k.labels = template.labels
  BY <1>2 DEF Reads
<1> HIDE DEF k
<1>4. filed' = [filed EXCEPT ![a] = None]
  BY <1>1 DEF FilingsInv
<1> QED BY <1>1, <1>2, <1>3, <1>4, FilingMoves

\* An issue is filed from the draft that was read.
LEMMA FileKeeps == ASSUME FilingsInv, NEW a \in Appliers, Shaping!File(a) PROVE FilingsInv'
<1> DEFINE k == applying[a]
           m == [k EXCEPT !.at = "filed"]
           i == [team |-> k.team, project |-> None, labels |-> {}]
<1>1. k.at = "read" /\ filed' = [filed EXCEPT ![a] = i] /\ applying' = [applying EXCEPT ![a] = m] /\ saved' = saved
  BY DEF Shaping!File
<1>2. k \in Reads
  BY <1>1 DEF FilingsInv, Shaping!Idle
<1>3. PICK d \in saved : Shaping!Fits(d, k.team) /\ k.project = d.project /\ k.labels = d.labels
  BY <1>1 DEF FilingsInv
<1> HIDE DEF k
<1>4. m \in Reads /\ m.at = "filed" /\ m.team = k.team /\ m.project = k.project /\ m.labels = k.labels
  BY <1>2 DEF Reads
<1>5. i \in Issue /\ i.team = k.team /\ i.project = None /\ i.labels = {} /\ i = [team |-> m.team, project |-> None, labels |-> {}]
  BY <1>2, <1>4 DEF Issue, Reads
<1> HIDE DEF m, i
<1> QED BY <1>1, <1>3, <1>4, <1>5, FilingMoves

\* The issue is put in the draft's project.
LEMMA PlaceKeeps == ASSUME FilingsInv, NEW a \in Appliers, Shaping!Place(a) PROVE FilingsInv'
<1> DEFINE k == applying[a]
           m == [k EXCEPT !.at = "placed"]
           i == filed[a]
           j == [i EXCEPT !.project = k.project]
<1>1. k.at = "filed" /\ filed' = [filed EXCEPT ![a] = j] /\ applying' = [applying EXCEPT ![a] = m] /\ saved' = saved
  BY DEF Shaping!Place
<1>2. k \in Reads /\ i = [team |-> k.team, project |-> None, labels |-> {}]
  BY <1>1 DEF FilingsInv, Shaping!Idle
<1>3. PICK d \in saved : Shaping!Fits(d, k.team) /\ k.project = d.project /\ k.labels = d.labels
  BY <1>1 DEF FilingsInv
<1> HIDE DEF k, i
<1>4. m \in Reads /\ m.at = "placed" /\ m.team = k.team /\ m.project = k.project /\ m.labels = k.labels
  BY <1>2 DEF Reads
<1>5. j \in Issue /\ j.team = k.team /\ j.project = k.project /\ j.labels = {}
  BY <1>2 DEF Issue, Reads
<1> HIDE DEF m, j
<1> QED BY <1>1, <1>3, <1>4, <1>5, FilingMoves

\* The issue is given one of the draft's labels.
LEMMA LabelKeeps == ASSUME FilingsInv, NEW a \in Appliers, NEW l, Shaping!Label(a, l) PROVE FilingsInv'
<1> DEFINE k == applying[a]
           i == filed[a]
           j == [i EXCEPT !.labels = i.labels \union {l}]
<1>1. k.at = "placed" /\ l \in k.labels /\ filed' = [filed EXCEPT ![a] = j] /\ UNCHANGED <<applying, saved>>
  BY DEF Shaping!Label
<1>2. /\ k \in Reads /\ i \in Issue /\ i.team = k.team /\ i.project = k.project /\ i.labels \subseteq k.labels
  BY <1>1 DEF FilingsInv, Shaping!Idle
<1>3. PICK d \in saved : Shaping!Fits(d, k.team) /\ k.project = d.project /\ k.labels = d.labels
  BY <1>1 DEF FilingsInv
<1>4. applying' = [applying EXCEPT ![a] = k]
  BY <1>1 DEF FilingsInv
<1> HIDE DEF k, i
<1>5. j \in Issue /\ j.team = k.team /\ j.project = k.project /\ j.labels \subseteq k.labels
  BY <1>1, <1>2 DEF Issue, Reads
<1> HIDE DEF j
<1> QED BY <1>1, <1>2, <1>3, <1>4, <1>5, FilingMoves

\* A request that stops leaves what it has filed.
LEMMA StopKeeps == ASSUME FilingsInv, NEW a \in Appliers, Shaping!Stop(a) PROVE FilingsInv'
<1>1. applying' = [applying EXCEPT ![a] = Shaping!Idle] /\ UNCHANGED <<filed, saved>>
  BY DEF Shaping!Stop
<1>2. filed' = [filed EXCEPT ![a] = filed[a]] /\ filed[a] \in Issue \union {None}
  BY <1>1 DEF FilingsInv
<1>3. filed[a] # None => \E d \in saved :
        /\ Shaping!Fits(d, filed[a].team) /\ filed[a].project \in {None, d.project} /\ filed[a].labels \subseteq d.labels
        /\ filed[a].labels # {} => filed[a].project = d.project
  BY DEF FilingsInv, Shaping!IssueFollowsOneDraft
<1>4. Shaping!Idle.at = "idle"
  BY DEF Shaping!Idle
<1> QED BY <1>1, <1>2, <1>3, <1>4, FilingMoves

\* Every step on a template, its schedule and what is filed from it keeps the invariant.
LEMMA TemplateStep == EditsInv /\ FilingsInv /\ [Shaping!TemplateNext]_templateVars => EditsInv' /\ FilingsInv'
<1> SUFFICES ASSUME EditsInv, FilingsInv, [Shaping!TemplateNext]_templateVars PROVE EditsInv' /\ FilingsInv'
  OBVIOUS
<1>0. ASSUME UNCHANGED <<template, labels, schedule, edits, saved, retargeted>> PROVE EditsInv'
  <2>1. Shaping!ScheduleFits'
    BY <1>0 DEF EditsInv, Shaping!ScheduleFits, Shaping!Fits
  <2> QED BY <1>0, <2>1 DEF EditsInv, HoldsTheRow, Shaping!Fits
<1>1. CASE UNCHANGED templateVars
  <2>1. UNCHANGED <<template, labels, schedule, edits, applying, filed, saved, retargeted>>
    BY <1>1 DEF templateVars
  <2> QED BY <1>0, <2>1, FilingsStay
<1>2. ASSUME NEW d \in Drafts, Shaping!Create(d) PROVE EditsInv' /\ FilingsInv'
  <2>1. /\ template = None /\ \A c \in Menders : edits[c] = Shaping!Idle
        /\ template' = d /\ labels' = d.labels /\ saved' = saved \union {d} /\ UNCHANGED <<schedule, edits, applying, filed, retargeted>>
    BY <1>2 DEF Shaping!Create
  <2>2. schedule = None /\ d # None /\ d.labels \in SUBSET Worn
    BY <2>1, LegalConstants DEF EditsInv, Worn, Shaping!LegalTemplateConstants
  <2>3. Shaping!ScheduleFits'
    BY <2>1, <2>2 DEF Shaping!ScheduleFits
  <2>4. \A c \in Menders : edits'[c].at = "idle"
    BY <2>1, IdleIsOver
  <2>5. EditsInv'
    BY <2>1, <2>2, <2>3, <2>4 DEF EditsInv, HoldsTheRow
  <2> QED BY <2>1, <2>5, FilingsStay
<1>3. ASSUME NEW c \in Menders, NEW d \in Drafts, Shaping!Write(c, d) PROVE EditsInv' /\ FilingsInv'
  <2> DEFINE k == [at |-> "written", draft |-> d, gone |-> {}]
  <2>1. /\ template # None /\ \A e \in Menders : ~HoldsTheRow(e)
        /\ edits' = [edits EXCEPT ![c] = k] /\ UNCHANGED <<template, labels, schedule, applying, filed, saved, retargeted>>
    BY <1>3 DEF Shaping!Write, Shaping!RowHeld, Shaping!Begins, HoldsTheRow
  <2>2. k \in Edits /\ k.at = "written"
    BY DEF Edits, Writes
  <2> HIDE DEF k
  <2> QED BY <2>1, <2>2, EditMoves, FilingsStay
<1>4. ASSUME NEW c \in Menders, Shaping!Unschedule(c) PROVE EditsInv' /\ FilingsInv'
  <2> DEFINE took == schedule # None
             k == [at |-> "unscheduled", took |-> took, gone |-> {}]
  <2>1. edits' = [edits EXCEPT ![c] = k] /\ UNCHANGED <<template, labels, schedule, applying, filed, saved, retargeted>>
    BY <1>4 DEF Shaping!Unschedule, Shaping!Begins
  <2>2. took \in BOOLEAN
    OBVIOUS
  <2> HIDE DEF took
  <2>3. k \in Edits /\ k.at = "unscheduled"
    BY <2>2 DEF Edits, Discards
  <2> HIDE DEF k
  <2> QED BY <2>1, <2>3, EditMoves, FilingsStay
<1>5. ASSUME NEW c \in Menders, NEW team \in Squads, Shaping!CheckTeam(c, team) PROVE EditsInv' /\ FilingsInv'
  <2> DEFINE k == [at |-> "checked", team |-> team, moved |-> FALSE]
  <2>1. /\ Shaping!Fits(template, team) /\ edits' = [edits EXCEPT ![c] = k]
        /\ UNCHANGED <<template, labels, schedule, applying, filed, saved, retargeted>>
    BY <1>5 DEF Shaping!CheckTeam, Shaping!Begins
  <2>2. k \in Edits /\ k.at = "checked" /\ k.team = team
    BY DEF Edits, Checks
  <2> HIDE DEF k
  <2> QED BY <2>1, <2>2, EditMoves, FilingsStay
<1>6. ASSUME NEW c \in Menders, Shaping!Rollback(c) PROVE EditsInv' /\ FilingsInv'
  <2>1. edits' = [edits EXCEPT ![c] = Shaping!Idle] /\ UNCHANGED <<template, labels, schedule, applying, filed, saved, retargeted>>
    BY <1>6 DEF Shaping!Rollback, Shaping!Over
  <2> QED BY <2>1, IdleIsOver, EditMoves, FilingsStay
<1>7. CASE Shaping!ClearRecurrence
  <2>1. schedule' = None /\ retargeted' = FALSE /\ UNCHANGED <<template, labels, edits, applying, filed, saved>>
    BY <1>7 DEF Shaping!ClearRecurrence
  <2>2. Shaping!ScheduleFits'
    BY <2>1 DEF Shaping!ScheduleFits
  <2>3. EditsInv'
    BY <2>1, <2>2 DEF EditsInv, HoldsTheRow, Shaping!Fits
  <2> QED BY <2>1, <2>3, FilingsStay
<1>8. ASSUME NEW c \in Menders, Shaping!ReplaceLabels(c) \/ Shaping!Save(c) \/ Shaping!Unlabel(c) \/ Shaping!Delete(c) \/ Shaping!Upsert(c)
      PROVE  EditsInv' /\ FilingsInv'
  <2>1. EditsInv' /\ saved \subseteq saved'
    BY <1>8, ReplaceLabelsKeeps, SaveKeeps, UnlabelKeeps, DeleteKeeps, UpsertKeeps
       DEF Shaping!ReplaceLabels, Shaping!Unlabel, Shaping!Delete, Shaping!Upsert
  <2>2. UNCHANGED <<applying, filed>>
    BY <1>8 DEF Shaping!ReplaceLabels, Shaping!Save, Shaping!Unlabel, Shaping!Delete, Shaping!Upsert
  <2> QED BY <2>1, <2>2, FilingsStay
<1>9. ASSUME NEW a \in Appliers,
             (\E team \in Squads : Shaping!Read(a, team)) \/ Shaping!File(a) \/ Shaping!Place(a) \/ Shaping!Stop(a) \/ (\E l : Shaping!Label(a, l))
      PROVE  EditsInv' /\ FilingsInv'
  <2>1. UNCHANGED <<template, labels, schedule, edits, saved, retargeted>>
    BY <1>9 DEF Shaping!Read, Shaping!File, Shaping!Place, Shaping!Stop, Shaping!Label
  <2>2. FilingsInv'
    BY <1>9, TemplateReadKeeps, FileKeeps, PlaceKeeps, StopKeeps, LabelKeeps
  <2> QED BY <1>0, <2>1, <2>2
<1>10. ASSUME NEW a \in Appliers, NEW l, Shaping!Label(a, l) PROVE EditsInv' /\ FilingsInv'
  BY <1>9, <1>10
<1> QED BY <1>1, <1>2, <1>3, <1>4, <1>5, <1>6, <1>7, <1>8, <1>9, <1>10 DEF Shaping!TemplateNext

-----------------------------------------------------------------------------
(* Deletions.                                                               *)

\* A deletion under way has taken away what its earlier statements found, and found
\* everything but what was added since it began; no two of them hold a row.
Deletion == [of : Ids \union {None}, at : 1..7, gone : SUBSET Deleting!Refs]
\* What a statement takes away, and what the earlier ones have left of it.
Concerns(of, p, r) == r[1] \in Deleting!Statements(of)[p] /\ (of # None => r[2] = of)
Cleared(c) == \A p \in 1..Len(Deleting!Statements(deletions[c].of)) : \A r \in refs :
  p < deletions[c].at /\ Concerns(deletions[c].of, p, r) => r \in deletions[c].gone \/ Deleting!RowOf(r) \in added[c]
Taken(c) == \A r \in deletions[c].gone :
  /\ r \in refs
  /\ \E p \in 1..Len(Deleting!Statements(deletions[c].of)) : p < deletions[c].at /\ Concerns(deletions[c].of, p, r)

\* A deletion of one row is of a project, and ends after its last statement.
Within(c) == /\ deletions[c].of # None => target = "project"
             /\ deletions[c].at <= Len(Deleting!Statements(deletions[c].of)) + 1

\* The inductive invariant of the deletions.
DeletionsInv ==
  /\ target \in Targets /\ exists \in BOOLEAN /\ refs \in SUBSET Deleting!Refs /\ (~exists => refs = {})
  /\ deletions \in [Deleters -> Deletion \union {None}] /\ added \in [Deleters -> SUBSET Deleting!Refs] /\ refused = {}
  /\ \A c \in Deleting!Running : Cleared(c) /\ Taken(c) /\ Within(c)
  /\ \A c, d \in Deleting!Running : c # d => Deleting!Held(c) \intersect Deleting!Held(d) = {}

-----------------------------------------------------------------------------
\* The statements of each kind of deletion.
LEMMA PlansOfDeletions ==
  /\ \A of : of # None => Deleting!Statements(of) = <<{"placed"}>>
  /\ target = "project" => Deleting!Statements(None) =
       <<{"issues", "placed"}, {"milestones"}, {"teams"}, {"updates"}, {"dependencies"}, {"links"}>>
  /\ target = "initiative" => Deleting!Statements(None) = <<{"children"}, {"links"}, {"updates"}>>
  /\ target = "template" => Deleting!Statements(None) = <<{"schedule"}, {"labels"}>>
  /\ target \notin {"project", "initiative", "template"} => Deleting!Statements(None) = <<>>
BY DEF Deleting!Statements, Deleting!ProjectStatements, Deleting!InitiativeStatements, Deleting!TemplateStatements, Deleting!MilestoneStatements

\* What can be deleted.
LEMMA TargetKinds == target \in Targets => target \in {"project", "initiative", "template", "cycle", "label"}
BY LegalConstants DEF Deleting!LegalDeletionConstants, Deleting!Tables

\* The tables that refer to what can be deleted.
LEMMA TargetTables ==
  /\ target = "project" => Deleting!Tables[target] = {"issues", "placed", "milestones", "teams", "updates", "dependencies", "links",
                   "templates", "favourites", "documents"}
  /\ target = "initiative" => Deleting!Tables[target] = {"children", "links", "updates", "documents"}
  /\ target = "template" => Deleting!Tables[target] = {"schedule", "labels"}
  /\ target \in {"cycle", "label"} => Deleting!Tables[target] = {"issues", "templates"}
BY DEF Deleting!Tables

\* A milestone is deleted in one statement.
LEMMA MilestonePlan == ASSUME NEW of, of # None
  PROVE  Len(Deleting!Statements(of)) = 1 /\ Deleting!Statements(of)[1] = {"placed"}
BY PlansOfDeletions

\* A project is deleted in six statements, its issues first.
LEMMA ProjectPlan == ASSUME target = "project"
  PROVE  /\ Len(Deleting!Statements(None)) = 6
         /\ Deleting!Statements(None)[1] = {"issues", "placed"} /\ Deleting!Statements(None)[2] = {"milestones"}
         /\ Deleting!Statements(None)[3] = {"teams"} /\ Deleting!Statements(None)[4] = {"updates"}
         /\ Deleting!Statements(None)[5] = {"dependencies"} /\ Deleting!Statements(None)[6] = {"links"}
BY PlansOfDeletions

\* An initiative is deleted in three statements.
LEMMA InitiativePlan == ASSUME target = "initiative"
  PROVE  /\ Len(Deleting!Statements(None)) = 3
         /\ Deleting!Statements(None)[1] = {"children"} /\ Deleting!Statements(None)[2] = {"links"}
         /\ Deleting!Statements(None)[3] = {"updates"}
BY PlansOfDeletions

\* A template is deleted in two statements.
LEMMA TemplatePlan == ASSUME target = "template"
  PROVE  /\ Len(Deleting!Statements(None)) = 2
         /\ Deleting!Statements(None)[1] = {"schedule"} /\ Deleting!Statements(None)[2] = {"labels"}
BY PlansOfDeletions

\* A cycle and a label are deleted without a statement before.
LEMMA NoPlan == ASSUME target \in {"cycle", "label"} PROVE Len(Deleting!Statements(None)) = 0
BY PlansOfDeletions

\* A deletion has no more than six statements.
LEMMA PlanLengths == ASSUME target \in Targets, NEW of PROVE Len(Deleting!Statements(of)) \in 0..6
BY TargetKinds, MilestonePlan, ProjectPlan, InitiativePlan, TemplatePlan, NoPlan

\* No table is cleared by two statements.
LEMMA StatementsAreApart ==
  ASSUME target \in Targets, NEW p \in 1..Len(Deleting!Statements(None)), NEW q \in 1..Len(Deleting!Statements(None)),
         NEW t, t \in Deleting!Statements(None)[p], t \in Deleting!Statements(None)[q]
  PROVE  p = q
<1>1. CASE target = "project"
  <2>1. p \in 1..6 /\ q \in 1..6
    BY <1>1, ProjectPlan
  <2>2. p \in {1, 2, 3, 4, 5, 6} /\ q \in {1, 2, 3, 4, 5, 6}
    BY <2>1
  <2> QED BY <1>1, <2>2, ProjectPlan
<1>2. CASE target = "initiative"
  <2>1. p \in {1, 2, 3} /\ q \in {1, 2, 3}
    <3>1. p \in 1..3 /\ q \in 1..3
      BY <1>2, InitiativePlan
    <3> QED BY <3>1
  <2> QED BY <1>2, <2>1, InitiativePlan
<1>3. CASE target = "template"
  <2>1. p \in {1, 2} /\ q \in {1, 2}
    <3>1. p \in 1..2 /\ q \in 1..2
      BY <1>3, TemplatePlan
    <3> QED BY <3>1
  <2> QED BY <1>3, <2>1, TemplatePlan
<1>4. CASE target \in {"cycle", "label"}
  BY <1>4, NoPlan
<1> QED BY <1>1, <1>2, <1>3, <1>4, TargetKinds

\* The statements of a deletion clear every table but those nobody clears and those that fall with the row.
LEMMA StatementsCover ==
  ASSUME target \in Targets, NEW t \in Deleting!Tables[target], t \notin Deleting!Uncleared, t \notin Deleting!Falling
  PROVE  \E p \in 1..Len(Deleting!Statements(None)) : t \in Deleting!Statements(None)[p]
<1>1. CASE target = "project"
  <2>1. t \in {"issues", "placed", "milestones", "teams", "updates", "dependencies", "links"}
    BY <1>1, TargetTables DEF Deleting!Uncleared
  <2>2. /\ 1 \in 1..Len(Deleting!Statements(None)) /\ 2 \in 1..Len(Deleting!Statements(None)) /\ 3 \in 1..Len(Deleting!Statements(None))
        /\ 4 \in 1..Len(Deleting!Statements(None)) /\ 5 \in 1..Len(Deleting!Statements(None)) /\ 6 \in 1..Len(Deleting!Statements(None))
    BY <1>1, ProjectPlan
  <2> QED BY <1>1, <2>1, <2>2, ProjectPlan
<1>2. CASE target = "initiative"
  <2>1. t \in {"children", "links", "updates"}
    BY <1>2, TargetTables DEF Deleting!Uncleared
  <2>2. 1 \in 1..Len(Deleting!Statements(None)) /\ 2 \in 1..Len(Deleting!Statements(None)) /\ 3 \in 1..Len(Deleting!Statements(None))
    <3>1. Len(Deleting!Statements(None)) = 3
      BY <1>2, InitiativePlan
    <3>2. 1 \in 1..3 /\ 2 \in 1..3 /\ 3 \in 1..3
      OBVIOUS
    <3> QED BY <3>1, <3>2
  <2> QED BY <1>2, <2>1, <2>2, InitiativePlan
<1>3. CASE target = "template"
  <2>1. 1 \in 1..Len(Deleting!Statements(None)) /\ 2 \in 1..Len(Deleting!Statements(None))
    BY <1>3, TemplatePlan
  <2> QED BY <1>3, <2>1, TemplatePlan, TargetTables
<1>4. CASE target \in {"cycle", "label"}
  BY <1>4, TargetTables DEF Deleting!Uncleared, Deleting!Falling
<1> QED BY <1>1, <1>2, <1>3, <1>4, TargetKinds

\* Milestones go in the second statement of a project's deletion, their issues in the first.
LEMMA MilestonesComeSecond ==
  ASSUME target \in Targets, NEW of, NEW p \in 1..Len(Deleting!Statements(of)), "milestones" \in Deleting!Statements(of)[p]
  PROVE  of = None /\ target = "project" /\ p = 2
<1>1. of = None
  <2>1. CASE of # None
    <3>1. p = 1
      BY <2>1, MilestonePlan
    <3> QED BY <2>1, <3>1, MilestonePlan
  <2> QED BY <2>1
<1>2. CASE target = "project"
  <2>1. p \in {1, 2, 3, 4, 5, 6}
    <3>1. p \in 1..6
      BY <1>1, <1>2, ProjectPlan
    <3> QED BY <3>1
  <2> QED BY <1>1, <1>2, <2>1, ProjectPlan
<1>3. CASE target = "initiative"
  <2>1. p \in {1, 2, 3}
    <3>1. p \in 1..3
      BY <1>1, <1>3, InitiativePlan
    <3> QED BY <3>1
  <2> QED BY <1>1, <1>3, <2>1, InitiativePlan
<1>4. CASE target = "template"
  <2>1. p \in {1, 2}
    <3>1. p \in 1..2
      BY <1>1, <1>4, TemplatePlan
    <3> QED BY <3>1
  <2> QED BY <1>1, <1>4, <2>1, TemplatePlan
<1>5. CASE target \in {"cycle", "label"}
  BY <1>1, <1>5, NoPlan
<1> QED BY <1>2, <1>3, <1>4, <1>5, TargetKinds

\* Only a project's first statement takes issues.
LEMMA IssuesComeFirst ==
  ASSUME target = "project"
  PROVE  /\ \A p \in 1..Len(Deleting!Statements(None)) : "issues" \in Deleting!Statements(None)[p] <=> p = 1
         /\ \A p \in 1..Len(Deleting!Statements(None)) : "placed" \in Deleting!Statements(None)[p] <=> p = 1
         /\ 1 \in 1..Len(Deleting!Statements(None))
<1>1. Len(Deleting!Statements(None)) = 6 /\ \A p \in 1..6 : p \in {1, 2, 3, 4, 5, 6}
  BY ProjectPlan
<1> QED BY <1>1, ProjectPlan

\* "placed" is a table of projects alone.
LEMMA RowsOfReferences ==
  ASSUME target \in Targets, NEW r \in Deleting!Refs
  PROVE  /\ r[1] \in Deleting!Tables[target] /\ r[2] \in Ids /\ r = <<r[1], r[2]>>
         /\ r[1] # "placed" => Deleting!RowOf(r) = r
         /\ r[1] = "placed" => Deleting!RowOf(r) = <<"issues", r[2]>> /\ target = "project"
         /\ Deleting!RowOf(r) \in Deleting!Refs
<1>1. r[1] \in Deleting!Tables[target] /\ r[2] \in Ids /\ r = <<r[1], r[2]>>
  BY DEF Deleting!Refs
<1>2. r[1] # "placed" => Deleting!RowOf(r) = r
  BY DEF Deleting!RowOf
<1>3. r[1] = "placed" => Deleting!RowOf(r) = <<"issues", r[2]>> /\ target = "project"
  BY <1>1, TargetKinds, TargetTables DEF Deleting!RowOf
<1>4. Deleting!RowOf(r) \in Deleting!Refs
  <2>1. CASE r[1] = "placed"
    <3>1. "issues" \in Deleting!Tables[target]
      BY <1>3, <2>1, TargetTables
    <3> QED BY <1>1, <1>3, <2>1, <3>1 DEF Deleting!Refs
  <2> QED BY <1>2, <2>1
<1> QED BY <1>1, <1>2, <1>3, <1>4

\* References that are one row of a table are cleared by one statement.
LEMMA RowsHaveAPlace ==
  ASSUME target \in Targets, NEW r \in Deleting!Refs, NEW s \in Deleting!Refs, Deleting!RowOf(r) = Deleting!RowOf(s),
         NEW p \in 1..Len(Deleting!Statements(None)), r[1] \in Deleting!Statements(None)[p]
  PROVE  s[1] \in Deleting!Statements(None)[p]
<1>1. CASE r[1] = "placed" /\ s[1] = "placed"
  BY <1>1
<1>2. CASE r[1] # "placed" /\ s[1] # "placed"
  BY <1>2, RowsOfReferences
<1>3. CASE r[1] = "placed" /\ s[1] # "placed"
  <2>1. target = "project" /\ s[1] = "issues"
    BY <1>3, RowsOfReferences
  <2> QED BY <1>3, <2>1, IssuesComeFirst
<1>4. CASE r[1] # "placed" /\ s[1] = "placed"
  <2>1. target = "project" /\ r[1] = "issues"
    BY <1>4, RowsOfReferences
  <2> QED BY <1>4, <2>1, IssuesComeFirst
<1> QED BY <1>1, <1>2, <1>3, <1>4

-----------------------------------------------------------------------------
\* What a deletion under way holds.
LEMMA DeletionTypes ==
  ASSUME DeletionsInv
  PROVE  /\ target \in Targets /\ refs \in SUBSET Deleting!Refs
         /\ \A c \in Deleting!Running : /\ c \in Deleters /\ deletions[c] \in Deletion /\ deletions[c].of \in Ids \union {None}
                                        /\ deletions[c].at \in 1..7 /\ deletions[c].gone \in SUBSET Deleting!Refs
         /\ Deleting!HeldBut(None) = UNION {Deleting!Held(d) : d \in Deleting!Running}
<1>1. \A c \in Deleting!Running : c \in Deleters /\ deletions[c] \in Deletion
  BY DEF DeletionsInv, Deleting!Running
<1>2. Deleting!Running \ {None} = Deleting!Running
  BY LegalConstants DEF Deleting!LegalDeletionConstants, Deleting!Running
<1> QED BY <1>1, <1>2 DEF DeletionsInv, Deletion, Deleting!HeldBut

\* What a deletion waits for, and another holds, comes no earlier than the statement it is at.
LEMMA WantsAreAhead ==
  ASSUME DeletionsInv, NEW c \in Deleting!Running, NEW d \in Deleting!Running, c # d, NEW y \in Deleting!Wants(d) \intersect Deleting!Held(c)
  PROVE  \E p \in 1..Len(Deleting!Statements(None)) : y[1] \in Deleting!Statements(None)[p] /\ deletions[d].at <= p /\ p < deletions[c].at
<1> DEFINE S(of) == Deleting!Statements(of)
<1>0. /\ deletions[c].at \in Nat /\ deletions[d].at \in Nat /\ target \in Targets
      /\ \A of : Len(S(of)) \in Nat
  BY DeletionTypes, PlanLengths
<1>1. PICK r \in deletions[c].gone : y = Deleting!RowOf(r)
  BY DEF Deleting!Held
<1>2. r \in Deleting!Refs /\ r \in refs
  BY DeletionTypes DEF DeletionsInv, Taken
<1>3. PICK q \in 1..Len(S(deletions[c].of)) : q < deletions[c].at /\ Concerns(deletions[c].of, q, r)
  BY DEF DeletionsInv, Taken
<1>4. y \in Deleting!Refs /\ Deleting!RowOf(y) = y
  <2>1. y \in Deleting!Refs /\ y[1] # "placed"
    <3>1. CASE r[1] = "placed"
      <4>1. y = <<"issues", r[2]>>
        BY <1>0, <1>1, <1>2, <3>1, RowsOfReferences
      <4>2. y[1] = "issues" /\ y[1] # "placed"
        BY <4>1
      <4> QED BY <1>0, <1>1, <1>2, <4>2, RowsOfReferences
    <3>2. CASE r[1] # "placed"
      BY <1>0, <1>1, <1>2, <3>2, RowsOfReferences
    <3> QED BY <3>1, <3>2
  <2> QED BY <1>0, <2>1, RowsOfReferences
\* The place of y among the statements of the whole deletion.
<1>5. PICK p \in 1..Len(S(None)) : r[1] \in S(None)[p] /\ p < deletions[c].at
  <2>1. CASE deletions[c].of = None
    BY <1>3, <2>1 DEF Concerns
  <2>2. CASE deletions[c].of # None
    <3>1. q = 1 /\ r[1] = "placed" /\ target = "project"
      BY <1>3, <2>2, MilestonePlan DEF Concerns, DeletionsInv, Within
    <3> QED BY <1>3, <3>1, IssuesComeFirst
  <2> QED BY <2>1, <2>2
<1>6. y[1] \in S(None)[p]
  BY <1>0, <1>1, <1>2, <1>4, <1>5, RowsHaveAPlace
<1>7. y \notin Deleting!Held(d)
  BY DEF DeletionsInv
<1>8. deletions[d].at <= p
  <2>1. CASE deletions[d].of # None
    <3>0. Len(S(deletions[d].of)) = 1 /\ S(deletions[d].of)[1] = {"placed"} /\ target = "project"
      BY <2>1, MilestonePlan DEF DeletionsInv, Within
    <3>1. CASE deletions[d].at <= 1
      BY <1>5, <3>1, <1>0
    <3>2. CASE deletions[d].at > 1
      <4>1. y = <<"milestones", deletions[d].of>>
        BY <1>0, <2>1, <3>0, <3>2 DEF Deleting!Wants
      <4>2. p = 2
        BY <1>0, <1>6, <4>1, MilestonesComeSecond
      <4>3. deletions[d].at <= Len(S(deletions[d].of)) + 1
        BY DEF DeletionsInv, Within
      <4>4. deletions[d].at <= 2
        BY <3>0, <4>3
      <4> QED BY <4>2, <4>4
    <3> QED BY <1>0, <3>1, <3>2
  <2>2. CASE deletions[d].of = None
    <3>1. PICK s \in refs : y = Deleting!RowOf(s) /\ y \notin added[d] /\
                            (deletions[d].at <= Len(S(None)) => s[1] \in S(None)[deletions[d].at])
      BY <2>2 DEF Deleting!Wants, Deleting!Found
    <3>2. s \in Deleting!Refs /\ s \notin deletions[d].gone
      BY <1>7, <3>1, DeletionTypes DEF Deleting!Held
    <3>3. s[1] \in S(None)[p]
      BY <1>0, <1>1, <1>2, <1>5, <3>1, <3>2, RowsHaveAPlace
    <3>4. p < deletions[d].at => FALSE
      BY <2>2, <3>1, <3>2, <3>3 DEF DeletionsInv, Cleared, Concerns
    <3> QED BY <1>0, <3>4
  <2> QED BY <2>1, <2>2
<1> QED BY <1>5, <1>6, <1>8

\* The properties follow.
LEMMA DeletionProperties ==
  DeletionsInv => Deleting!DeletionTypeOK /\ Deleting!DeletionsDoNotDeadlock /\ Deleting!RefusedForAReason
<1> SUFFICES ASSUME DeletionsInv PROVE Deleting!DeletionTypeOK /\ Deleting!DeletionsDoNotDeadlock /\ Deleting!RefusedForAReason
  OBVIOUS
<1>1. Deleting!DeletionTypeOK
  BY DEF DeletionsInv, Deleting!DeletionTypeOK, Deletion
<1>2. ASSUME NEW c \in Deleting!Running, NEW d \in Deleting!Running, c # d,
             NEW y \in Deleting!Wants(d) \intersect Deleting!Held(c), NEW x \in Deleting!Wants(c) \intersect Deleting!Held(d)
      PROVE  FALSE
  <2>1. PICK p \in 1..Len(Deleting!Statements(None)) : deletions[d].at <= p /\ p < deletions[c].at
    BY <1>2, WantsAreAhead
  <2>2. PICK q \in 1..Len(Deleting!Statements(None)) : deletions[c].at <= q /\ q < deletions[d].at
    BY <1>2, WantsAreAhead
  <2>3. deletions[c].at \in Nat /\ deletions[d].at \in Nat
    BY DeletionTypes
  <2> QED BY <2>1, <2>2, <2>3
<1>3. Deleting!DeletionsDoNotDeadlock
  BY <1>2 DEF Deleting!DeletionsDoNotDeadlock
<1> QED BY <1>1, <1>3 DEF DeletionsInv, Deleting!RefusedForAReason

-----------------------------------------------------------------------------
\* Nobody deletes at first.
LEMMA DeletionStart == Deleting!DeletionInit => DeletionsInv
<1> SUFFICES ASSUME Deleting!DeletionInit PROVE DeletionsInv
  OBVIOUS
<1>1. /\ target \in Targets /\ exists = TRUE /\ refs = {} /\ deletions = [c \in Deleters |-> None]
      /\ added = [c \in Deleters |-> {}] /\ refused = {}
  BY DEF Deleting!DeletionInit
<1>2. Deleting!Running = {}
  BY <1>1 DEF Deleting!Running
<1> QED BY <1>1, <1>2 DEF DeletionsInv

\* The rows that refer change; what the deletions under way hold stays, and what is new is remembered by each.
LEMMA ReferencesMove ==
  ASSUME DeletionsInv, UNCHANGED <<target, deletions, refused>>, exists' \in BOOLEAN, ~exists' => refs' = {},
         refs' \in SUBSET Deleting!Refs, added' \in [Deleters -> SUBSET Deleting!Refs],
         \A c \in Deleting!Running : /\ deletions[c].gone \subseteq refs' /\ added[c] \subseteq added'[c]
                                     /\ \A r \in refs' \ refs : Deleting!RowOf(r) \in added'[c]
  PROVE  DeletionsInv'
<1>1. /\ Deleting!Running' = Deleting!Running /\ Deleting!Refs' = Deleting!Refs
      /\ \A of : Deleting!Statements(of)' = Deleting!Statements(of)
      /\ \A c : Deleting!Held(c)' = Deleting!Held(c)
  BY DEF Deleting!Running, Deleting!Refs, Deleting!Statements, Deleting!Held
<1>2. Deletion' = Deletion
  BY <1>1 DEF Deletion
<1>3. ASSUME NEW c \in Deleting!Running PROVE Cleared(c)' /\ Taken(c)'
  <2>1. Cleared(c) /\ Taken(c)
    BY DEF DeletionsInv
  <2>2. Cleared(c)'
    BY <1>1, <2>1 DEF Cleared, Concerns
  <2>3. Taken(c)'
    BY <1>1, <2>1 DEF Taken, Concerns
  <2> QED BY <2>2, <2>3
<1>4. \A c \in Deleting!Running' : Within(c)'
  BY <1>1 DEF DeletionsInv, Within
<1>5. \A c, d \in Deleting!Running' : c # d => Deleting!Held(c)' \intersect Deleting!Held(d)' = {}
  BY <1>1 DEF DeletionsInv
<1> QED BY <1>1, <1>2, <1>3, <1>4, <1>5 DEF DeletionsInv

\* References are changed once nobody holds their rows.
LEMMA ChangeKeeps ==
  ASSUME DeletionsInv, NEW old, NEW new \in SUBSET Deleting!Refs, Deleting!Change(old, new) PROVE DeletionsInv'
<1>1. /\ exists /\ old \subseteq refs /\ {Deleting!RowOf(r) : r \in old} \intersect Deleting!HeldBut(None) = {}
      /\ refs' = (refs \ old) \union new
      /\ added' = [c \in Deleters |-> IF c \in Deleting!Running THEN added[c] \union {Deleting!RowOf(r) : r \in new} ELSE {}]
      /\ UNCHANGED <<target, exists, deletions, refused>>
  BY DEF Deleting!Change
<1>2. {Deleting!RowOf(r) : r \in new} \in SUBSET Deleting!Refs
  BY DeletionTypes, RowsOfReferences
<1>3. added' \in [Deleters -> SUBSET Deleting!Refs] /\ refs' \in SUBSET Deleting!Refs
  BY <1>1, <1>2 DEF DeletionsInv
<1>4. ASSUME NEW c \in Deleting!Running
      PROVE  /\ deletions[c].gone \subseteq refs' /\ added[c] \subseteq added'[c]
             /\ \A r \in refs' \ refs : Deleting!RowOf(r) \in added'[c]
  <2>1. added'[c] = added[c] \union {Deleting!RowOf(r) : r \in new}
    BY <1>1, DeletionTypes
  <2>2. \A r \in deletions[c].gone : r \in refs
    BY DEF DeletionsInv, Taken
  <2>3. \A r \in deletions[c].gone : Deleting!RowOf(r) \in Deleting!Held(c)
    BY DEF Deleting!Held
  <2>4. Deleting!Held(c) \subseteq Deleting!HeldBut(None)
    <3>1. c \in Deleting!Running \ {None}
      BY LegalConstants DEF Deleting!LegalDeletionConstants, Deleting!Running
    <3> QED BY <3>1 DEF Deleting!HeldBut
  <2>5. deletions[c].gone \subseteq refs'
    BY <1>1, <2>2, <2>3, <2>4
  <2>6. \A r \in refs' \ refs : Deleting!RowOf(r) \in added'[c]
    BY <1>1, <2>1
  <2> QED BY <2>1, <2>5, <2>6
<1> QED BY <1>1, <1>3, <1>4, ReferencesMove DEF DeletionsInv

\* A reference is added or taken away.
LEMMA ReferKeeps ==
  ASSUME DeletionsInv, NEW t, NEW n \in Ids, Deleting!Refer(t, n) \/ Deleting!Unrefer(t, n) PROVE DeletionsInv'
<1>1. CASE Deleting!Refer(t, n)
  <2>1. {<<t, n>>} \in SUBSET Deleting!Refs /\ Deleting!Change({}, {<<t, n>>})
    BY <1>1 DEF Deleting!Refer
  <2> QED BY <2>1, ChangeKeeps
<1>2. CASE Deleting!Unrefer(t, n)
  <2>1. {} \in SUBSET Deleting!Refs /\ Deleting!Change({<<t, n>>}, {})
    BY <1>2 DEF Deleting!Unrefer
  <2> QED BY <2>1, ChangeKeeps
<1> QED BY <1>1, <1>2

\* An issue is moved to the project or out of it.
LEMMA SetProjectKeeps == ASSUME DeletionsInv, NEW n \in Ids, Deleting!SetProject(n) PROVE DeletionsInv'
<1>1. PICK new \in {{}, {<<"issues", n>>}, {<<"placed", n>>}} :
        target = "project" /\ Deleting!Change({<<"issues", n>>, <<"placed", n>>} \intersect refs, new)
  BY DEF Deleting!SetProject
<1>2. new \in SUBSET Deleting!Refs
  BY <1>1, TargetTables DEF Deleting!Refs
<1> QED BY <1>1, <1>2, ChangeKeeps

\* One deletion begins, moves on or is over; the others rest, and so do the rows.
LEMMA DeletionMoves ==
  ASSUME DeletionsInv, NEW c \in Deleters, NEW k \in Deletion \union {None}, deletions' = [deletions EXCEPT ![c] = k],
         UNCHANGED <<target, exists, refs, refused>>, added' \in [Deleters -> SUBSET Deleting!Refs],
         \A d \in Deleters \ {c} : added'[d] = added[d],
         k # None =>
           /\ k.of # None => target = "project"
           /\ k.at <= Len(Deleting!Statements(k.of)) + 1
           /\ \A p \in 1..Len(Deleting!Statements(k.of)) : \A r \in refs :
                p < k.at /\ Concerns(k.of, p, r) => r \in k.gone \/ Deleting!RowOf(r) \in added'[c]
           /\ \A r \in k.gone : r \in refs /\ \E p \in 1..Len(Deleting!Statements(k.of)) : p < k.at /\ Concerns(k.of, p, r)
           /\ {Deleting!RowOf(r) : r \in k.gone} \intersect Deleting!HeldBut(c) = {}
  PROVE  DeletionsInv'
<1>1. /\ Deleting!Refs' = Deleting!Refs /\ \A of : Deleting!Statements(of)' = Deleting!Statements(of)
  BY DEF Deleting!Refs, Deleting!Statements
<1>2. Deletion' = Deletion /\ \A of, p, r : Concerns(of, p, r)' = Concerns(of, p, r)
  BY <1>1 DEF Deletion, Concerns
<1>3. /\ deletions' \in [Deleters -> Deletion \union {None}] /\ deletions'[c] = k
      /\ \A d \in Deleters \ {c} : deletions'[d] = deletions[d]
  BY DEF DeletionsInv
<1>4. /\ \A d \in Deleting!Running' : d \in Deleters /\ (d # c => d \in Deleting!Running) /\ (d = c => k # None)
  BY <1>3 DEF Deleting!Running
<1>5. ASSUME NEW d \in Deleting!Running'
      PROVE  Cleared(d)' /\ Taken(d)' /\ Within(d)'
  <2>1. CASE d = c
    <3>1. k # None
      BY <1>4, <2>1
    <3>2. Cleared(d)'
      BY <1>1, <1>2, <1>3, <2>1, <3>1 DEF Cleared
    <3>3. Taken(d)'
      BY <1>1, <1>2, <1>3, <2>1, <3>1 DEF Taken
    <3>4. Within(d)'
      BY <1>1, <1>3, <2>1, <3>1 DEF Within
    <3> QED BY <3>2, <3>3, <3>4
  <2>2. CASE d # c
    <3>1. d \in Deleting!Running /\ d \in Deleters /\ deletions'[d] = deletions[d] /\ added'[d] = added[d]
      BY <1>3, <1>4, <2>2
    <3>2. Cleared(d) /\ Taken(d) /\ Within(d)
      BY <3>1 DEF DeletionsInv
    <3>3. Cleared(d)'
      BY <1>1, <1>2, <3>1, <3>2 DEF Cleared
    <3>4. Taken(d)'
      BY <1>1, <1>2, <3>1, <3>2 DEF Taken
    <3>5. Within(d)'
      BY <1>1, <3>1, <3>2 DEF Within
    <3> QED BY <3>3, <3>4, <3>5
  <2> QED BY <2>1, <2>2
<1>6. \A r : Deleting!RowOf(r)' = Deleting!RowOf(r)
  BY DEF Deleting!RowOf
<1>7. ASSUME NEW d \in Deleting!Running', NEW e \in Deleting!Running', d # e
      PROVE  Deleting!Held(d)' \intersect Deleting!Held(e)' = {}
  <2>1. \A f \in Deleting!Running' : f # c => Deleting!Held(f)' = Deleting!Held(f) /\ f \in Deleting!Running \ {c}
    BY <1>3, <1>4 DEF Deleting!Held
  <2>2. c \in Deleting!Running' => Deleting!Held(c)' \intersect Deleting!HeldBut(c) = {}
    BY <1>3, <1>4 DEF Deleting!Held
  <2>3. \A f \in Deleting!Running \ {c} : Deleting!Held(f) \subseteq Deleting!HeldBut(c)
    BY DEF Deleting!HeldBut
  <2>4. CASE d = c \/ e = c
    BY <1>7, <2>1, <2>2, <2>3, <2>4
  <2>5. CASE d # c /\ e # c
    BY <1>7, <2>1, <2>5 DEF DeletionsInv
  <2> QED BY <2>4, <2>5
<1> QED BY <1>1, <1>2, <1>3, <1>5, <1>7 DEF DeletionsInv

\* A deletion that is over holds no row.
LEMMA OverKeeps ==
  ASSUME DeletionsInv, NEW c \in Deleters, Deleting!Over(c), UNCHANGED <<target, exists, refs, refused>> PROVE DeletionsInv'
<1>1. deletions' = [deletions EXCEPT ![c] = None] /\ added' = [added EXCEPT ![c] = {}]
  BY DEF Deleting!Over
<1>2. added' \in [Deleters -> SUBSET Deleting!Refs] /\ \A d \in Deleters \ {c} : added'[d] = added[d]
  BY <1>1 DEF DeletionsInv
<1> QED BY <1>1, <1>2, DeletionMoves

\* A deletion begins with nothing in hand.
LEMMA BeginsKeep == ASSUME DeletionsInv, NEW c \in Deleters, NEW of \in Ids \union {None}, Deleting!Delete(c, of) PROVE DeletionsInv'
<1> DEFINE k == [of |-> of, at |-> 1, gone |-> {}]
<1>1. /\ of # None => target = "project"
      /\ deletions' = [deletions EXCEPT ![c] = k] /\ UNCHANGED <<target, exists, refs, added, refused>>
  BY DEF Deleting!Delete
<1>2. k \in Deletion /\ k.of = of /\ k.at = 1 /\ k.gone = {}
  BY DEF Deletion
<1> HIDE DEF k
<1>3. 1 <= Len(Deleting!Statements(of)) + 1 /\ \A p \in 1..Len(Deleting!Statements(of)) : ~(p < 1)
  BY DeletionTypes, PlanLengths
<1>4. added' \in [Deleters -> SUBSET Deleting!Refs]
  BY <1>1 DEF DeletionsInv
<1> QED BY <1>1, <1>2, <1>3, <1>4, DeletionMoves

\* A refusal is by rows that were added, or that nobody clears, and leaves all as it was.
LEMMA RefusalsKeep ==
  ASSUME DeletionsInv, NEW c \in Deleters, NEW by, Deleting!Refuse(c, by),
         \A r \in by : Deleting!RowOf(r) \in added[c] \/ r[1] \in Deleting!Uncleared
  PROVE  DeletionsInv'
<1>1. /\ refused' = refused \union ({r[1] : r \in {b \in by : Deleting!RowOf(b) \notin added[c]}} \ Deleting!Uncleared)
      /\ Deleting!Over(c) /\ UNCHANGED <<target, exists, refs>>
  BY DEF Deleting!Refuse
<1>2. refused' = refused
  BY <1>1
<1> QED BY <1>1, <1>2, OverKeeps

\* A statement takes what it finds, but for what was added since the deletion began.
LEMMA StatementKeeps == ASSUME DeletionsInv, NEW c \in Deleters, Deleting!Statement(c) PROVE DeletionsInv'
<1> DEFINE k == deletions[c]
           S == Deleting!Statements(k.of)
<1>1. c \in Deleting!Running /\ k.at <= Len(S)
  BY DEF Deleting!Statement, Deleting!Running
<1>2. PICK missed \in SUBSET (IF Deleting!Running = {c} THEN {} ELSE {r \in Deleting!Found(c) : Deleting!RowOf(r) \in added[c]}) :
     LET found == Deleting!Found(c) \ missed
         rows == {Deleting!RowOf(r) : r \in found}
         by == Deleting!Referring(found) \ k.gone
     IN /\ rows \intersect Deleting!HeldBut(c) = {}
        /\ IF by # {} THEN Deleting!Refuse(c, by)
           ELSE /\ deletions' = [deletions EXCEPT ![c].at = @ + 1, ![c].gone = @ \union found]
                /\ UNCHANGED <<target, exists, refs, added, refused>>
  BY DEF Deleting!Statement
<1> DEFINE found == Deleting!Found(c) \ missed
           by == Deleting!Referring(found) \ k.gone
           m == [k EXCEPT !.at = @ + 1, !.gone = @ \union found]
<1>3. /\ {Deleting!RowOf(r) : r \in found} \intersect Deleting!HeldBut(c) = {}
      /\ by # {} => Deleting!Refuse(c, by)
      /\ by = {} => deletions' = [deletions EXCEPT ![c] = m] /\ UNCHANGED <<target, exists, refs, added, refused>>
  BY <1>2
<1>4. \A r \in Deleting!Found(c) : r \in refs /\ r[1] \in S[k.at] /\ (k.of # None => r[2] = k.of)
  BY DEF Deleting!Found
<1>5. \A r \in refs : Concerns(k.of, k.at, r) => r \in found \/ Deleting!RowOf(r) \in added[c]
  BY <1>2 DEF Deleting!Found, Concerns
<1>6. k \in Deletion /\ k.at \in 1..7 /\ k.gone \in SUBSET Deleting!Refs /\ k.of \in Ids \union {None} /\ target \in Targets /\ Len(S) \in 0..6
  BY <1>1, DeletionTypes, PlanLengths
<1>7. Cleared(c) /\ Taken(c) /\ (k.of # None => target = "project")
  BY <1>1 DEF DeletionsInv, Within
<1>8. found \in SUBSET refs /\ found \in SUBSET Deleting!Refs
  BY <1>4, DeletionTypes
<1>9. CASE by # {}
  <2>1. ASSUME NEW r \in by PROVE Deleting!RowOf(r) \in added[c]
    <3>1. r \in refs /\ r \notin k.gone /\ r[1] = "placed" /\ <<"milestones", r[2]>> \in found
      BY DEF Deleting!Referring
    <3>2. "milestones" \in S[k.at] /\ k.at \in 1..Len(S)
      BY <1>1, <1>4, <1>6, <3>1
    <3>3. k.of = None /\ target = "project" /\ k.at = 2
      BY <1>6, <3>2, MilestonesComeSecond
    <3>4. 1 \in 1..Len(S) /\ Concerns(k.of, 1, r)
      BY <3>1, <3>3, IssuesComeFirst DEF Concerns
    <3> QED BY <1>7, <3>1, <3>3, <3>4 DEF Cleared
  <2> QED BY <1>3, <1>9, <2>1, RefusalsKeep
<1>10. CASE by = {}
  <2> HIDE DEF found, by
  <2>0. ASSUME NEW a \in 1..7, NEW l \in 0..6, a <= l PROVE a + 1 \in 1..7 /\ a + 1 <= l + 1
    BY <2>0
  <2>1. k.at + 1 \in 1..7 /\ k.at + 1 <= Len(S) + 1
    BY <1>1, <1>6, <2>0
  <2> HIDE DEF k
  <2>2. m \in Deletion /\ m.of = k.of /\ m.at = k.at + 1 /\ m.gone = k.gone \union found
    BY <1>6, <1>8, <2>1 DEF Deletion
  <2> HIDE DEF m
  <2>3. ASSUME NEW p \in 1..Len(S), NEW r \in refs, p < k.at + 1, Concerns(k.of, p, r)
        PROVE  r \in k.gone \union found \/ Deleting!RowOf(r) \in added[c]
    <3>1. p < k.at \/ p = k.at
      BY <1>6, <2>3
    <3> QED BY <1>5, <1>7, <2>3, <3>1 DEF Cleared, k
  <2>4. ASSUME NEW r \in k.gone \union found PROVE r \in refs /\ \E p \in 1..Len(S) : p < k.at + 1 /\ Concerns(k.of, p, r)
    <3>1. CASE r \in found
      BY <1>1, <1>4, <1>6, <1>8, <3>1 DEF Concerns, found
    <3>2. CASE r \in k.gone
      <4>1. r \in refs /\ \E p \in 1..Len(S) : p < k.at /\ Concerns(k.of, p, r)
        BY <1>7, <3>2 DEF Taken, k
      <4> QED BY <1>6, <4>1
    <3> QED BY <2>4, <3>1, <3>2
  <2>5. {Deleting!RowOf(r) : r \in k.gone \union found} \intersect Deleting!HeldBut(c) = {}
    <3>1. {Deleting!RowOf(r) : r \in k.gone} = Deleting!Held(c)
      BY DEF k, Deleting!Held
    <3>2. Deleting!Held(c) \intersect Deleting!HeldBut(c) = {}
      BY <1>1 DEF DeletionsInv, Deleting!HeldBut
    <3> QED BY <1>3, <3>1, <3>2
  <2>6. added' \in [Deleters -> SUBSET Deleting!Refs] /\ added' = added
    BY <1>3, <1>10 DEF DeletionsInv
  <2> QED BY <1>3, <1>7, <1>10, <2>1, <2>2, <2>3, <2>4, <2>5, <2>6, DeletionMoves
<1> QED BY <1>9, <1>10

\* The row goes, and what the deletion took away with it; nobody else holds any of that.
LEMMA FinishKeeps == ASSUME DeletionsInv, NEW c \in Deleters, Deleting!Finish(c) PROVE DeletionsInv'
<1> DEFINE k == deletions[c]
           goes == IF k.of = None THEN {} ELSE {<<"milestones", k.of>>}
           by == IF k.of = None THEN {r \in refs \ k.gone : r[1] \notin Deleting!Falling}
                                ELSE Deleting!Referring(goes) \ k.gone
<1>1. /\ c \in Deleting!Running /\ k.at > Len(Deleting!Statements(k.of))
      /\ (goes \union {r \in refs : r[1] \in Deleting!Falling}) \intersect Deleting!HeldBut(c) = {}
      /\ exists /\ by # {} => Deleting!Refuse(c, by)
      /\ ~(exists /\ by # {}) =>
           /\ exists' = (exists /\ k.of # None)
           /\ refs' = IF k.of = None THEN {} ELSE (refs \ (k.gone \union goes)) \union {Deleting!RowOf(r) : r \in k.gone}
           /\ Deleting!Over(c) /\ UNCHANGED <<target, refused>>
  BY DEF Deleting!Finish, Deleting!Running
<1>2. /\ k.at \in 1..7 /\ k.gone \in SUBSET Deleting!Refs /\ target \in Targets /\ \A of : Len(Deleting!Statements(of)) \in 0..6
      /\ refs \in SUBSET Deleting!Refs
  BY <1>1, DeletionTypes, PlanLengths
<1>3. Cleared(c) /\ Taken(c) /\ (k.of # None => target = "project")
  BY <1>1 DEF DeletionsInv, Within
<1>4. CASE exists /\ by # {}
  <2>1. ASSUME NEW r \in by PROVE Deleting!RowOf(r) \in added[c] \/ r[1] \in Deleting!Uncleared
    <3>1. CASE k.of = None
      <4>1. r \in refs /\ r \notin k.gone /\ r[1] \notin Deleting!Falling
        BY <3>1
      <4>2. CASE r[1] \notin Deleting!Uncleared
        <5>1. r[1] \in Deleting!Tables[target]
          BY <1>2, <4>1, RowsOfReferences
        <5>2. PICK p \in 1..Len(Deleting!Statements(None)) : r[1] \in Deleting!Statements(None)[p]
          BY <1>2, <4>1, <4>2, <5>1, StatementsCover
        <5>3. Len(Deleting!Statements(None)) \in Nat
          BY <1>2
        <5>4. p < k.at
          BY <1>1, <1>2, <3>1, <5>2, <5>3
        <5> QED BY <1>3, <3>1, <4>1, <5>2, <5>4 DEF Cleared, Concerns
      <4> QED BY <4>2
    <3>2. CASE k.of # None
      <4>1. r \in refs /\ r \notin k.gone /\ r[1] = "placed" /\ r[2] = k.of
        BY <3>2 DEF Deleting!Referring
      <4>2. 1 \in 1..Len(Deleting!Statements(k.of)) /\ 1 < k.at /\ Concerns(k.of, 1, r)
        BY <1>1, <1>2, <3>2, <4>1, MilestonePlan DEF Concerns
      <4> QED BY <1>3, <4>1, <4>2 DEF Cleared
    <3> QED BY <3>1, <3>2
  <2> HIDE DEF by
  <2> QED BY <1>1, <1>4, <2>1, RefusalsKeep
<1>5. CASE ~(exists /\ by # {})
  <2>0. /\ exists' = (exists /\ k.of # None) /\ deletions' = [deletions EXCEPT ![c] = None] /\ added' = [added EXCEPT ![c] = {}]
        /\ refs' = IF k.of = None THEN {} ELSE (refs \ (k.gone \union goes)) \union {Deleting!RowOf(r) : r \in k.gone}
        /\ UNCHANGED <<target, refused>>
    BY <1>1, <1>5 DEF Deleting!Over
  \* What this deletion took away of a milestone are issues' places.
  <2>1. k.of # None => \A r \in k.gone : r[1] = "placed" /\ r[2] = k.of /\ Deleting!RowOf(r) = <<"issues", k.of>>
    <3> SUFFICES ASSUME k.of # None, NEW r \in k.gone PROVE r[1] = "placed" /\ r[2] = k.of /\ Deleting!RowOf(r) = <<"issues", k.of>>
      OBVIOUS
    <3>1. PICK p \in 1..Len(Deleting!Statements(k.of)) : Concerns(k.of, p, r)
      BY <1>3 DEF Taken
    <3>2. p = 1 /\ r[1] = "placed" /\ r[2] = k.of
      BY <3>1, MilestonePlan DEF Concerns
    <3> QED BY <1>2, <3>2, RowsOfReferences
  <2>2. refs' \in SUBSET Deleting!Refs
    BY <1>2, <2>0, RowsOfReferences
  <2>3. ~exists' => refs' = {}
    <3>1. CASE k.of = None
      BY <2>0, <3>1
    <3>2. CASE k.of # None /\ ~exists
      <4>1. refs = {} /\ k.gone = {}
        BY <1>3, <3>2 DEF DeletionsInv, Taken
      <4> QED BY <2>0, <4>1
    <3> QED BY <2>0, <3>1, <3>2
  <2>4. /\ deletions' \in [Deleters -> Deletion \union {None}] /\ deletions'[c] = None
        /\ \A d \in Deleters \ {c} : deletions'[d] = deletions[d] /\ added'[d] = added[d]
        /\ added' \in [Deleters -> SUBSET Deleting!Refs]
    BY <2>0 DEF DeletionsInv
  <2>5. \A d \in Deleting!Running' : d \in Deleting!Running /\ d # c /\ d \in Deleters
    BY <2>4 DEF Deleting!Running
  <2>6. ASSUME NEW d \in Deleting!Running, d # c PROVE deletions[d].gone \subseteq refs'
    <3> SUFFICES ASSUME NEW r \in deletions[d].gone PROVE r \in refs'
      OBVIOUS
    <3>1. r \in refs /\ r \in Deleting!Refs /\ Deleting!RowOf(r) \in Deleting!Held(d) /\ Deleting!RowOf(r) \in Deleting!HeldBut(c)
      BY <1>2, <2>6 DEF DeletionsInv, Taken, Deleting!Held, Deleting!HeldBut
    <3>2. r \notin k.gone
      <4>1. Deleting!RowOf(r) \notin Deleting!Held(c)
        BY <1>1, <2>6, <3>1 DEF DeletionsInv
      <4> QED BY <4>1 DEF Deleting!Held
    <3>3. CASE k.of # None
      <4>1. r \notin goes
        BY <1>1, <3>1, <1>2, <3>3, RowsOfReferences
      <4> QED BY <2>0, <3>1, <3>2, <3>3, <4>1
    <3>4. CASE k.of = None
      <4>1. exists
        BY <3>1 DEF DeletionsInv
      <4>2. r[1] \in Deleting!Falling
        BY <1>5, <3>1, <3>2, <3>4, <4>1
      <4>3. r[1] = "issues" /\ Deleting!RowOf(r) = r
        BY <1>2, <3>1, <4>2, RowsOfReferences DEF Deleting!Falling
      <4> QED BY <1>1, <3>1, <4>2, <4>3
    <3> QED BY <3>3, <3>4
  <2>7. /\ Deleting!Refs' = Deleting!Refs /\ \A of : Deleting!Statements(of)' = Deleting!Statements(of)
    BY <2>0 DEF Deleting!Refs, Deleting!Statements
  <2>8. Deletion' = Deletion /\ \A of, p, r : Concerns(of, p, r)' = Concerns(of, p, r)
    BY <2>7 DEF Deletion, Concerns
  <2>9. ASSUME NEW d \in Deleting!Running' PROVE Taken(d)'
    BY <2>4, <2>5, <2>6, <2>7, <2>8 DEF DeletionsInv, Taken
  <2>10. ASSUME NEW d \in Deleting!Running' PROVE Cleared(d)'
    <3>1. Cleared(d) /\ deletions'[d] = deletions[d] /\ added'[d] = added[d]
      BY <2>4, <2>5 DEF DeletionsInv
    <3>2. ASSUME NEW p \in 1..Len(Deleting!Statements(deletions[d].of)), NEW r \in refs',
                 p < deletions[d].at, Concerns(deletions[d].of, p, r)
          PROVE  r \in deletions[d].gone \/ Deleting!RowOf(r) \in added[d]
      <4>1. CASE r \in refs
        BY <3>1, <3>2, <4>1 DEF Cleared
      <4>2. CASE r \notin refs
        <5>1. k.of # None /\ target = "project"
          BY <1>3, <2>0, <4>2
        <5>2. PICK s \in k.gone : r = Deleting!RowOf(s)
          BY <2>0, <4>2, <5>1
        <5>3. s[1] = "placed" /\ r = <<"issues", k.of>> /\ s \in refs /\ s \in Deleting!Refs
          BY <1>2, <1>3, <2>1, <5>1, <5>2 DEF Taken
        <5>4. r[1] = "issues" /\ Deleting!RowOf(r) = r
          BY <5>3 DEF Deleting!RowOf
        <5>5. deletions[d].of = None /\ p = 1
          <6>1. CASE deletions[d].of # None
            <7>1. p = 1 /\ r[1] \in {"placed"}
              BY <3>2, <6>1, MilestonePlan DEF Concerns
            <7> QED BY <5>4, <7>1
          <6>2. CASE deletions[d].of = None
            BY <3>2, <5>1, <5>4, <6>2, IssuesComeFirst DEF Concerns
          <6> QED BY <6>1, <6>2
        <5>6. Concerns(deletions[d].of, p, s)
          BY <5>1, <5>3, <5>5, ProjectPlan DEF Concerns
        <5>7. s \in deletions[d].gone \/ Deleting!RowOf(s) \in added[d]
          BY <3>1, <3>2, <5>3, <5>6 DEF Cleared
        <5>8. s \notin deletions[d].gone
          <6>1. Deleting!Held(c) \intersect Deleting!Held(d) = {}
            BY <1>1, <2>5 DEF DeletionsInv
          <6> QED BY <5>2, <6>1 DEF Deleting!Held
        <5> QED BY <5>2, <5>4, <5>7, <5>8
      <4> QED BY <4>1, <4>2
    <3> QED BY <2>7, <2>8, <3>1, <3>2 DEF Cleared
  <2>11. \A d \in Deleting!Running' : Within(d)'
    BY <2>0, <2>4, <2>5, <2>7 DEF DeletionsInv, Within
  <2>12. ASSUME NEW d \in Deleting!Running', NEW e \in Deleting!Running', d # e PROVE Deleting!Held(d)' \intersect Deleting!Held(e)' = {}
    <3>1. Deleting!Held(d)' = Deleting!Held(d) /\ Deleting!Held(e)' = Deleting!Held(e)
      BY <2>4, <2>5 DEF Deleting!Held
    <3> QED BY <2>5, <2>12, <3>1 DEF DeletionsInv
  <2>13. exists' \in BOOLEAN
    BY <2>0 DEF DeletionsInv
  <2> QED BY <2>0, <2>2, <2>3, <2>4, <2>7, <2>8, <2>9, <2>10, <2>11, <2>12, <2>13 DEF DeletionsInv
<1> QED BY <1>4, <1>5

\* Every step of a deletion, and of those who refer to its target, keeps the invariant.
LEMMA DeletionStep == DeletionsInv /\ [Deleting!DeletionNext]_deletionVars => DeletionsInv'
<1> SUFFICES ASSUME DeletionsInv, [Deleting!DeletionNext]_deletionVars PROVE DeletionsInv'
  OBVIOUS
<1>1. CASE UNCHANGED deletionVars
  <2>1. UNCHANGED <<target, exists, refs, deletions, added, refused>>
    BY <1>1 DEF deletionVars
  <2>2. \A c \in Deleting!Running : deletions[c].gone \subseteq refs
    BY DEF DeletionsInv, Taken
  <2>3. /\ refs' \in SUBSET Deleting!Refs /\ added' \in [Deleters -> SUBSET Deleting!Refs] /\ exists' \in BOOLEAN
        /\ (~exists' => refs' = {}) /\ refs' \ refs = {}
    BY <2>1 DEF DeletionsInv
  <2> QED BY <2>1, <2>2, <2>3, ReferencesMove
<1>2. ASSUME NEW n \in Ids,
        \/ Deleting!AddTeam(n) \/ Deleting!RemoveTeam(n) \/ Deleting!CreateMilestone(n) \/ Deleting!PostUpdate(n)
        \/ Deleting!AddDependency(n) \/ Deleting!RemoveDependency(n) \/ Deleting!AddProject(n) \/ Deleting!RemoveProject(n)
        \/ Deleting!SetParent(n) \/ Deleting!WriteDocument(n) \/ Deleting!AddFavorite(n) \/ Deleting!UseInTemplate(n)
        \/ Deleting!SetRecurrence(n) \/ Deleting!ReplaceLabels(n) \/ Deleting!SetCycle(n) \/ Deleting!Attach(n)
      PROVE  DeletionsInv'
  BY <1>2, ReferKeeps
     DEF Deleting!AddTeam, Deleting!RemoveTeam, Deleting!CreateMilestone, Deleting!PostUpdate,
         Deleting!AddDependency, Deleting!RemoveDependency, Deleting!AddProject, Deleting!RemoveProject,
         Deleting!SetParent, Deleting!WriteDocument, Deleting!AddFavorite, Deleting!UseInTemplate,
         Deleting!SetRecurrence, Deleting!ReplaceLabels, Deleting!SetCycle, Deleting!Attach
<1>3. ASSUME NEW c \in Deleters, Deleting!Rollback(c) PROVE DeletionsInv'
  BY <1>3, OverKeeps DEF Deleting!Rollback
<1> QED BY <1>1, <1>2, <1>3, SetProjectKeeps, BeginsKeep, StatementKeeps, FinishKeeps DEF Deleting!DeletionNext

-----------------------------------------------------------------------------
(* Releases.                                                                *)

\* Releases that reached the environment, the work they shipped, and the work for which
\* there is no excuse.
Reached == {i \in Releasing!Existing : release[i].deployedAt # None}
Shipped == UNION {release[i].shipped : i \in Reached}
Sought == commits \ excused
PendingReleases == {i \in Releasing!Existing : release[i].status = "pending"}

\* Behind a boundary work is shipped; what is still to come there will be late, or skipped.
Behind(p, S, E, R, K) == p # None =>
  /\ p <= R \/ \A c \in Commits : c <= p => c \in E
  /\ \A c \in S : c <= p => c \in K
\* Work that arrives between two states is ahead of every release, or late; what was
\* shipped stays shipped, or has an excuse.
Ahead(S, E, R, K, S2, E2, R2, K2) ==
  /\ S2 \in SUBSET Commits /\ S2 \intersect E2 = {} /\ E \subseteq E2
  /\ R \in Nat /\ R2 \in Nat /\ R <= R2
  /\ \A c \in S2 : (c \in S \/ c > R) /\ (c \in K => c \in K2)
\* A release ships what it was cut for, back to its boundary.
Ships(r, S, E, R, K) ==
  /\ Behind(r.previous, S, E, R, K) /\ r.head <= R
  /\ \A c \in S : c <= r.head => c \in r.shipped \/ (r.previous # None /\ c <= r.previous)
  /\ (r.deployedAt # None) <=> (r.status \in {"deployed", "rolled_back"})

\* The inductive invariant of the releases.
ReleaseInv ==
  /\ commits \in SUBSET Commits /\ excused \in SUBSET Commits /\ reach \in Commits \union {0}
  /\ release \in [Slots -> Releasing!Release \union {None}]
  /\ cutting \in [Cutters -> [at : {"bounded"}, bounds : Releasing!Bounds] \union {Releasing!Idle}]
  /\ last \in Slots \union {0} /\ deployments \in Nat /\ deployments + Cardinality(PendingReleases) <= last
  /\ \A i \in Releasing!Existing : i <= last /\ Ships(release[i], Sought, excused, reach, Shipped)
  /\ \A q \in Cutters : cutting[q] # Releasing!Idle => Behind(cutting[q].bounds.previous, Sought, excused, reach, Shipped)

-----------------------------------------------------------------------------
\* What the releases assume of their constants.
LEMMA ReleaseConstants ==
  /\ Commits \subseteq Nat \ {0} /\ IsFiniteSet(Slots) /\ Slots \subseteq Nat \ {0} /\ None \notin Releasing!Release /\ None \notin Nat
  /\ \A n \in Slots \union {0} : n + 1 \in Slots \/ \A m \in Slots : m <= n
<1>1. /\ Commits \subseteq Nat \ {0} /\ Releasing!IsFiniteSet(Slots) /\ Slots = 1..Releasing!Cardinality(Slots)
      /\ None \notin Releasing!Release /\ None \notin Nat
  BY LegalConstants DEF Releasing!LegalReleaseConstants
<1>2. IsFiniteSet(Slots) /\ Slots = 1..Cardinality(Slots)
  BY <1>1 DEF Releasing!IsFiniteSet, IsFiniteSet, Releasing!Cardinality, Cardinality
<1>3. Cardinality(Slots) \in Nat
  BY <1>2, FS_CardinalityType
<1> QED BY <1>1, <1>2, <1>3

\* Releases that wait can be counted.
LEMMA PendingIsFinite == IsFiniteSet(PendingReleases) /\ Cardinality(PendingReleases) \in Nat
<1>1. PendingReleases \subseteq Slots
  BY DEF PendingReleases, Releasing!Existing
<1> QED BY <1>1, ReleaseConstants, FS_Subset, FS_CardinalityType

\* What a release carries.
LEMMA ReleaseTypes == ASSUME ReleaseInv, NEW i \in Releasing!Existing
  PROVE  /\ i \in Slots /\ release[i] \in Releasing!Release
         /\ release[i].head \in Commits /\ release[i].previous \in Commits \union {None} /\ release[i].shipped \in SUBSET Commits
         /\ release[i].status \in {"pending", "deployed", "failed", "rolled_back"} /\ release[i].deployedAt \in Nat \union {None}
<1>1. i \in Slots /\ release[i] \in Releasing!Release
  BY DEF ReleaseInv, Releasing!Existing
<1> QED BY <1>1 DEF Releasing!Release

\* What counts deployments is a number.
LEMMA ReleaseNumbers == ReleaseInv => reach \in Nat /\ last \in Nat /\ deployments \in Nat
BY ReleaseConstants DEF ReleaseInv

\* What is behind a boundary stays shipped while work that arrives is ahead of every release.
LEMMA BehindMoves ==
  ASSUME NEW p, NEW S, NEW E, NEW R, NEW K, NEW S2, NEW E2, NEW R2, NEW K2,
         Behind(p, S, E, R, K), p \in Commits \union {None}, Ahead(S, E, R, K, S2, E2, R2, K2)
  PROVE  Behind(p, S2, E2, R2, K2)
<1>0. /\ S2 \in SUBSET Commits /\ S2 \intersect E2 = {} /\ E \subseteq E2
      /\ R \in Nat /\ R2 \in Nat /\ R <= R2
      /\ \A c \in S2 : (c \in S \/ c > R) /\ (c \in K => c \in K2)
  BY DEF Ahead
<1> SUFFICES ASSUME p # None
             PROVE  /\ p <= R2 \/ \A c \in Commits : c <= p => c \in E2
                    /\ \A c \in S2 : c <= p => c \in K2
  BY DEF Behind
<1>1. p \in Nat /\ Commits \subseteq Nat
  BY ReleaseConstants
<1>2. p <= R2 \/ \A c \in Commits : c <= p => c \in E2
  BY <1>0, <1>1 DEF Behind
<1>3. ASSUME NEW c \in S2, c <= p PROVE c \in K2
  <2>1. c \in Commits /\ c \notin E
    BY <1>0
  <2>2. CASE c \in S
    BY <1>0, <1>3, <2>2 DEF Behind
  <2>3. CASE c \notin S
    <3>1. c > R
      BY <1>0, <2>3
    <3>2. ~(p <= R)
      BY <1>0, <1>1, <1>3, <2>1, <3>1
    <3>3. c \in E
      BY <1>3, <2>1, <3>2 DEF Behind
    <3> QED BY <2>1, <3>3
  <2> QED BY <2>2, <2>3
<1> QED BY <1>2, <1>3

\* What a release owes stays paid while the rest goes on.
LEMMA ShipsMoves ==
  ASSUME NEW r, NEW r2, NEW S, NEW E, NEW R, NEW K, NEW S2, NEW E2, NEW R2, NEW K2,
         Ships(r, S, E, R, K), r.head \in Commits, r.previous \in Commits \union {None},
         r2.head = r.head, r2.previous = r.previous, r2.shipped = r.shipped,
         (r2.deployedAt # None) <=> (r2.status \in {"deployed", "rolled_back"}), Ahead(S, E, R, K, S2, E2, R2, K2)
  PROVE  Ships(r2, S2, E2, R2, K2)
<1>0. /\ S2 \in SUBSET Commits /\ R \in Nat /\ R2 \in Nat /\ R <= R2
      /\ \A c \in S2 : c \in S \/ c > R
  BY DEF Ahead
<1>1. Behind(r2.previous, S2, E2, R2, K2)
  <2>1. Behind(r.previous, S, E, R, K)
    BY DEF Ships
  <2>2. Behind(r.previous, S2, E2, R2, K2)
    BY <2>1, BehindMoves
  <2> QED BY <2>2
<1>2. r.head <= R /\ r.head \in Nat
  BY ReleaseConstants DEF Ships
<1>3. r2.head <= R2
  BY <1>0, <1>2
<1>4. ASSUME NEW c \in S2, c <= r2.head PROVE c \in r2.shipped \/ (r2.previous # None /\ c <= r2.previous)
  <2>1. c \in S
    BY <1>0, <1>2, <1>4, ReleaseConstants
  <2> QED BY <1>4, <2>1 DEF Ships
<1> QED BY <1>1, <1>3, <1>4 DEF Ships

\* Nothing is released at first.
LEMMA ReleaseStart == Releasing!ReleaseInit => ReleaseInv
<1> SUFFICES ASSUME Releasing!ReleaseInit PROVE ReleaseInv
  OBVIOUS
<1>1. /\ commits = {} /\ release = [i \in Slots |-> None] /\ cutting = [q \in Cutters |-> Releasing!Idle]
      /\ deployments = 0 /\ last = 0 /\ reach = 0 /\ excused = {}
  BY DEF Releasing!ReleaseInit
<1>2. Releasing!Existing = {} /\ PendingReleases = {}
  BY <1>1 DEF Releasing!Existing, PendingReleases
<1>3. Cardinality(PendingReleases) = 0
  BY <1>2, FS_EmptySet
<1> QED BY <1>1, <1>2, <1>3 DEF ReleaseInv

\* The properties follow.
LEMMA ReleaseProperties == ReleaseInv => Releasing!ReleaseTypeOK /\ Releasing!MissingWorkHasAReason
<1> SUFFICES ASSUME ReleaseInv PROVE Releasing!ReleaseTypeOK /\ Releasing!MissingWorkHasAReason
  OBVIOUS
<1>1. \A i \in Slots : release[i] # None => (release[i].deployedAt # None) = (release[i].status \in {"deployed", "rolled_back"})
  <2> SUFFICES ASSUME NEW i \in Slots, release[i] # None
               PROVE  (release[i].deployedAt # None) = (release[i].status \in {"deployed", "rolled_back"})
    OBVIOUS
  <2>1. i \in Releasing!Existing
    BY DEF Releasing!Existing
  <2>2. (release[i].deployedAt # None) <=> (release[i].status \in {"deployed", "rolled_back"})
    BY <2>1 DEF ReleaseInv, Ships
  <2> QED BY <2>2
<1>2. deployments <= last
  BY PendingIsFinite, ReleaseConstants DEF ReleaseInv
<1>3. Releasing!ReleaseTypeOK
  BY <1>1, <1>2 DEF ReleaseInv, Releasing!ReleaseTypeOK
<1>4. ASSUME NEW i \in Releasing!Existing, release[i].deployedAt # None,
             NEW c \in commits \ excused, c <= release[i].head
      PROVE  \E j \in Releasing!Existing : release[j].deployedAt # None /\ c \in release[j].shipped
  <2>1. c \in Sought /\ Ships(release[i], Sought, excused, reach, Shipped)
    BY DEF Sought, ReleaseInv
  <2>2. c \in release[i].shipped \/ c \in Shipped
    BY <1>4, <2>1 DEF Ships, Behind
  <2> QED BY <1>4, <2>2 DEF Shipped, Reached
<1> QED BY <1>3, <1>4 DEF Releasing!MissingWorkHasAReason

\* A step that keeps what every release ships, and takes no release back, keeps the invariant.
LEMMA ReleasesMove ==
  ASSUME ReleaseInv, commits' \in SUBSET Commits, excused' \in SUBSET Commits, reach' \in Commits \union {0},
         release' \in [Slots -> Releasing!Release \union {None}],
         excused \subseteq excused', reach <= reach',
         \A c \in commits' : c \in commits \/ c \in excused' \/ c > reach,
         \A i \in Slots : \/ release'[i] = release[i] \/ (release'[i] = None /\ release[i].shipped \subseteq excused')
                          \/ release[i] = None
                          \/ /\ release'[i] # None
                             /\ release'[i].head = release[i].head /\ release'[i].previous = release[i].previous
                             /\ release'[i].shipped = release[i].shipped
                             /\ release[i].deployedAt # None => release'[i].deployedAt # None
                             /\ (release'[i].deployedAt # None) <=> (release'[i].status \in {"deployed", "rolled_back"})
  PROVE  /\ \A c \in Sought' : c \in Sought \/ c > reach
         /\ \A c \in Sought' : c \in Shipped => c \in Shipped'
         /\ \A i \in Releasing!Existing' : i \in Releasing!Existing => Ships(release[i], Sought, excused, reach, Shipped)'
         /\ \A p \in Commits \union {None} :
              Behind(p, Sought, excused, reach, Shipped) => Behind(p, Sought', excused', reach', Shipped')
<1>1. \A c \in Sought' : c \in Sought \/ c > reach
  BY DEF Sought
<1>2. ASSUME NEW c \in Sought', c \in Shipped PROVE c \in Shipped'
  <2>1. PICK i \in Reached : c \in release[i].shipped
    BY <1>2 DEF Shipped
  <2>2. i \in Slots /\ release[i] # None /\ release[i].deployedAt # None
    BY DEF Reached, Releasing!Existing
  <2>3. c \notin excused'
    BY DEF Sought
  <2>4. release'[i] # None /\ release'[i].deployedAt # None /\ release'[i].shipped = release[i].shipped
    BY <2>1, <2>2, <2>3
  <2>5. i \in Reached'
    BY <2>2, <2>4 DEF Reached, Releasing!Existing
  <2> QED BY <2>1, <2>4, <2>5 DEF Shipped
<1>3. Ahead(Sought, excused, reach, Shipped, Sought', excused', reach', Shipped')
  <2>1. reach \in Nat /\ reach' \in Nat /\ Sought' \in SUBSET Commits /\ Sought' \intersect excused' = {}
    BY ReleaseConstants, ReleaseNumbers DEF Sought
  <2> QED BY <1>1, <1>2, <2>1 DEF Ahead
<1>4. ASSUME NEW i \in Releasing!Existing', i \in Releasing!Existing
      PROVE  Ships(release[i], Sought, excused, reach, Shipped)'
  <2>1. i \in Slots /\ release'[i] # None /\ release[i] # None
    BY <1>4 DEF Releasing!Existing
  <2>2. Ships(release[i], Sought, excused, reach, Shipped)
    BY <1>4 DEF ReleaseInv
  <2>3. /\ release'[i].head = release[i].head /\ release'[i].previous = release[i].previous
        /\ release'[i].shipped = release[i].shipped
        /\ (release'[i].deployedAt # None) <=> (release'[i].status \in {"deployed", "rolled_back"})
    BY <2>1, <2>2 DEF Ships
  <2>4. release[i].head \in Commits /\ release[i].previous \in Commits \union {None}
    BY <1>4, ReleaseTypes
  <2>5. Ships(release'[i], Sought', excused', reach', Shipped')
    BY <1>3, <2>2, <2>3, <2>4, ShipsMoves
  <2> QED BY <2>5
<1>5. ASSUME NEW p \in Commits \union {None}, Behind(p, Sought, excused, reach, Shipped)
      PROVE  Behind(p, Sought', excused', reach', Shipped')
  BY <1>3, <1>5, BehindMoves
<1> QED BY <1>1, <1>2, <1>4, <1>5

\* What is behind the boundary of a cut stays there while the rest goes on.
LEMMA CutsMove ==
  ASSUME ReleaseInv, NEW q \in Cutters, cutting[q] # Releasing!Idle,
         \A p \in Commits \union {None} :
           Behind(p, Sought, excused, reach, Shipped) => Behind(p, Sought', excused', reach', Shipped')
  PROVE  Behind(cutting[q].bounds.previous, Sought', excused', reach', Shipped')
<1>1. cutting[q] \in [at : {"bounded"}, bounds : Releasing!Bounds]
  BY DEF ReleaseInv
<1>2. cutting[q].bounds.previous \in Commits \union {None}
  BY <1>1 DEF Releasing!Bounds
<1>3. Behind(cutting[q].bounds.previous, Sought, excused, reach, Shipped)
  BY DEF ReleaseInv
<1> QED BY <1>2, <1>3

-----------------------------------------------------------------------------
\* A commit is pushed, and may be late for what has been cut.
LEMMA StoreKeeps == ASSUME ReleaseInv, NEW c \in Commits, Releasing!Store(c) PROVE ReleaseInv'
<1>1. /\ commits' = commits \union {c} /\ UNCHANGED <<release, cutting, deployments, last, reach>>
      /\ excused' = IF c <= reach THEN excused \union {c} ELSE excused
  BY DEF Releasing!Store
<1>2. /\ commits' \in SUBSET Commits /\ excused' \in SUBSET Commits /\ excused \subseteq excused' /\ reach' \in Commits \union {0}
      /\ release' \in [Slots -> Releasing!Release \union {None}] /\ \A i \in Slots : release'[i] = release[i]
  BY <1>1 DEF ReleaseInv
<1>3. reach \in Nat /\ c \in Nat /\ reach <= reach'
  BY <1>1, ReleaseConstants DEF ReleaseInv
<1>4. \A d \in commits' : d \in commits \/ d \in excused' \/ d > reach
  BY <1>1, <1>3
<1>5. Releasing!Existing' = Releasing!Existing /\ PendingReleases' = PendingReleases
  BY <1>1 DEF Releasing!Existing, PendingReleases
<1>6. \A i \in Releasing!Existing' : i <= last' /\ Ships(release[i], Sought, excused, reach, Shipped)'
  BY <1>1, <1>2, <1>3, <1>4, <1>5, ReleasesMove DEF ReleaseInv
<1>7. \A q \in Cutters : cutting'[q] # Releasing!Idle => Behind(cutting'[q].bounds.previous, Sought', excused', reach', Shipped')
  BY <1>1, <1>2, <1>3, <1>4, ReleasesMove, CutsMove
<1> QED BY <1>1, <1>2, <1>5, <1>6, <1>7 DEF ReleaseInv

\* The boundary the service chooses is the head of a release that reached the environment.
LEMMA DerivedIsBehind == ReleaseInv => Releasing!Derived \in Commits \union {None} /\ Behind(Releasing!Derived, Sought, excused, reach, Shipped)
<1> SUFFICES ASSUME ReleaseInv, Releasing!LatestDeployed # {}
             PROVE  Releasing!Derived \in Commits \union {None} /\ Behind(Releasing!Derived, Sought, excused, reach, Shipped)
  BY DEF Releasing!Derived, Behind
<1>1. PICK i \in Releasing!LatestDeployed : Releasing!Derived = release[i].head
  BY DEF Releasing!Derived
<1>2. i \in Releasing!Existing /\ i \in Reached
  BY DEF Releasing!LatestDeployed, Reached
<1>3. Ships(release[i], Sought, excused, reach, Shipped)
  BY <1>2 DEF ReleaseInv
<1>4. release[i].shipped \subseteq Shipped
  BY <1>2 DEF Shipped
<1> QED BY <1>1, <1>2, <1>3, <1>4, ReleaseTypes DEF Ships, Behind

\* A cut takes its boundaries.
LEMMA CutBeginKeeps ==
  ASSUME ReleaseInv, NEW q \in Cutters, NEW head \in Commits, NEW previous \in Commits \union {None}, Releasing!Begin(q, head, previous)
  PROVE  ReleaseInv'
<1> DEFINE b == [at |-> "bounded", bounds |-> [head |-> head, previous |-> previous]]
<1>1. /\ cutting' = [cutting EXCEPT ![q] = b] /\ UNCHANGED <<commits, release, deployments, last, reach>>
      /\ excused' = IF previous \in {Releasing!Derived, None} THEN excused
                    ELSE excused \union {c \in Commits : c <= previous}
  BY DEF Releasing!Begin
<1>2. b \in [at : {"bounded"}, bounds : Releasing!Bounds] /\ b.bounds.previous = previous
  BY DEF Releasing!Bounds
<1> HIDE DEF b
<1>3. /\ commits' \in SUBSET Commits /\ excused' \in SUBSET Commits /\ excused \subseteq excused' /\ reach' \in Commits \union {0}
      /\ release' \in [Slots -> Releasing!Release \union {None}] /\ \A i \in Slots : release'[i] = release[i]
      /\ \A d \in commits' : d \in commits
  BY <1>1 DEF ReleaseInv
<1>4. reach \in Nat /\ reach <= reach'
  BY <1>1, ReleaseNumbers
<1>5. Releasing!Existing' = Releasing!Existing /\ PendingReleases' = PendingReleases /\ Shipped' = Shipped
  BY <1>1 DEF Releasing!Existing, PendingReleases, Shipped, Reached
<1>6. \A i \in Releasing!Existing' : i <= last' /\ Ships(release[i], Sought, excused, reach, Shipped)'
  BY <1>1, <1>3, <1>4, <1>5, ReleasesMove DEF ReleaseInv
<1>7. Behind(previous, Sought', excused', reach', Shipped')
  <2>1. CASE previous = None
    BY <2>1 DEF Behind
  <2>2. CASE previous # None /\ previous = Releasing!Derived
    <3>1. Behind(previous, Sought, excused, reach, Shipped)
      BY <2>2, DerivedIsBehind
    <3>2. Sought' = Sought /\ excused' = excused /\ reach' = reach
      BY <1>1, <2>2 DEF Sought
    <3> QED BY <1>5, <3>1, <3>2
  <2>3. CASE previous # None /\ previous # Releasing!Derived
    <3>1. \A c \in Commits : c <= previous => c \in excused'
      BY <1>1, <2>3
    <3>2. Sought' \subseteq Commits /\ Sought' \intersect excused' = {}
      BY <1>3 DEF Sought
    <3> QED BY <3>1, <3>2 DEF Behind
  <2> QED BY <2>1, <2>2, <2>3
<1>8. \A d \in Cutters : cutting'[d] # Releasing!Idle => Behind(cutting'[d].bounds.previous, Sought', excused', reach', Shipped')
  <2> SUFFICES ASSUME NEW d \in Cutters, cutting'[d] # Releasing!Idle
               PROVE  Behind(cutting'[d].bounds.previous, Sought', excused', reach', Shipped')
    OBVIOUS
  <2>1. CASE d = q
    BY <1>1, <1>2, <1>7, <2>1 DEF ReleaseInv
  <2>2. CASE d # q
    <3>1. cutting'[d] = cutting[d]
      BY <1>1, <2>2 DEF ReleaseInv
    <3> QED BY <1>3, <1>4, <3>1, ReleasesMove, CutsMove
  <2> QED BY <2>1, <2>2
<1>9. cutting' \in [Cutters -> [at : {"bounded"}, bounds : Releasing!Bounds] \union {Releasing!Idle}]
  BY <1>1, <1>2 DEF ReleaseInv
<1> QED BY <1>1, <1>3, <1>5, <1>6, <1>8, <1>9 DEF ReleaseInv

\* A cut makes a release of what is between its boundaries.
LEMMA CutKeeps == ASSUME ReleaseInv, NEW q \in Cutters, NEW i \in Slots, Releasing!Cut(q, i) PROVE ReleaseInv'
<1>1. cutting[q] # Releasing!Idle /\ cutting[q] \in [at : {"bounded"}, bounds : Releasing!Bounds]
  BY DEF Releasing!Cut, ReleaseInv
<1>2. PICK b \in Releasing!Bounds : b = cutting[q].bounds
  BY <1>1
<1>3. PICK r \in {[head |-> b.head, previous |-> b.previous, shipped |-> Releasing!Trimmed(Releasing!Range(b)),
                   status |-> "pending", deployedAt |-> None]} : TRUE
  OBVIOUS
<1>4. /\ i = last + 1 /\ last' = i /\ release' = [release EXCEPT ![i] = r]
      /\ excused' = excused \union (Releasing!Range(b) \ r.shipped)
      /\ reach' = (IF b.head > reach THEN b.head ELSE reach)
      /\ cutting' = [cutting EXCEPT ![q] = Releasing!Idle] /\ UNCHANGED <<commits, deployments>>
  <2>1. /\ i = last + 1 /\ last' = i
        /\ cutting' = [cutting EXCEPT ![q] = Releasing!Idle] /\ UNCHANGED <<commits, deployments>>
    BY DEF Releasing!Cut
  <2>2. release' = [release EXCEPT ![i] = r]
    BY <1>2, <1>3 DEF Releasing!Cut
  <2>3. r.shipped = Releasing!Trimmed(Releasing!Range(b))
    BY <1>3
  <2>4. /\ excused' = excused \union (Releasing!Range(b) \ r.shipped)
        /\ reach' = (IF b.head > reach THEN b.head ELSE reach)
    BY <1>2, <2>3 DEF Releasing!Cut
  <2> QED BY <2>1, <2>2, <2>4
<1>5. /\ r.head = b.head /\ r.previous = b.previous /\ r.shipped = Releasing!Trimmed(Releasing!Range(b))
      /\ r.status = "pending" /\ r.deployedAt = None
  BY <1>3
<1>6. Releasing!Range(b) \subseteq commits /\ r.shipped \subseteq Releasing!Range(b)
  BY <1>5 DEF Releasing!Range, Releasing!Trimmed
<1>7. b.head \in Commits /\ b.previous \in Commits \union {None}
  BY DEF Releasing!Bounds
<1>8. r \in Releasing!Release /\ r # None
  BY <1>3, <1>6, <1>7, ReleaseConstants DEF Releasing!Release, ReleaseInv
<1>9. release[i] = None /\ release'[i] = r /\ \A j \in Slots \ {i} : release'[j] = release[j]
  <2>1. i \notin Releasing!Existing
    BY <1>4, ReleaseConstants DEF ReleaseInv
  <2> QED BY <1>4, <2>1 DEF ReleaseInv, Releasing!Existing
<1>10. /\ commits' \in SUBSET Commits /\ excused' \in SUBSET Commits /\ excused \subseteq excused' /\ reach' \in Commits \union {0}
       /\ release' \in [Slots -> Releasing!Release \union {None}] /\ \A d \in commits' : d \in commits
  BY <1>4, <1>6, <1>7, <1>8 DEF ReleaseInv
<1>11. reach \in Nat /\ reach <= reach' /\ b.head <= reach' /\ last \in Nat
  <2>1. b.head \in Nat
    BY <1>7, ReleaseConstants
  <2> QED BY <1>4, <2>1, ReleaseNumbers
<1>12. Releasing!Existing' = Releasing!Existing \union {i} /\ i \notin Releasing!Existing
  BY <1>8, <1>9 DEF Releasing!Existing
<1>13. Behind(b.previous, Sought', excused', reach', Shipped')
  BY <1>1, <1>2, <1>9, <1>10, <1>11, ReleasesMove, CutsMove
<1>14. Ships(r, Sought', excused', reach', Shipped')
  <2>1. ASSUME NEW c \in Sought', c <= r.head PROVE c \in r.shipped \/ (r.previous # None /\ c <= r.previous)
    <3>1. c \in commits /\ c \notin excused' /\ c \in Nat
      BY <1>4, <1>10, ReleaseConstants DEF Sought
    <3>2. CASE c \in Releasing!Range(b)
      BY <1>4, <3>1, <3>2
    <3>3. CASE c \notin Releasing!Range(b)
      <4>1. b.previous # None /\ ~(c > b.previous)
        BY <1>5, <2>1, <3>1, <3>3 DEF Releasing!Range
      <4>2. b.previous \in Nat
        BY <1>7, <4>1, ReleaseConstants
      <4> QED BY <1>5, <3>1, <4>1, <4>2
    <3> QED BY <3>2, <3>3
  <2> QED BY <1>5, <1>11, <1>13, <2>1 DEF Ships
<1>15. \A j \in Releasing!Existing' : j <= last' /\ Ships(release[j], Sought, excused, reach, Shipped)'
  <2> SUFFICES ASSUME NEW j \in Releasing!Existing' PROVE j <= last' /\ Ships(release[j], Sought, excused, reach, Shipped)'
    OBVIOUS
  <2>1. CASE j = i
    BY <1>4, <1>9, <1>11, <1>14, <2>1
  <2>2. CASE j # i
    <3>1. j \in Releasing!Existing
      BY <1>12, <2>2
    <3>2. Ships(release[j], Sought, excused, reach, Shipped)'
      BY <1>9, <1>10, <1>11, <3>1, ReleasesMove
    <3>3. j <= last /\ j \in Nat
      BY <3>1, ReleaseTypes, ReleaseConstants DEF ReleaseInv
    <3> QED BY <1>4, <1>11, <3>2, <3>3
  <2> QED BY <2>1, <2>2
<1>16. \A d \in Cutters : cutting'[d] # Releasing!Idle => Behind(cutting'[d].bounds.previous, Sought', excused', reach', Shipped')
  <2> SUFFICES ASSUME NEW d \in Cutters, cutting'[d] # Releasing!Idle
               PROVE  Behind(cutting'[d].bounds.previous, Sought', excused', reach', Shipped')
    OBVIOUS
  <2>1. cutting'[d] = cutting[d] /\ cutting[d] # Releasing!Idle
    BY <1>4 DEF ReleaseInv
  <2> QED BY <1>9, <1>10, <1>11, <2>1, ReleasesMove, CutsMove
<1>17. deployments' + Cardinality(PendingReleases') <= last'
  <2>1. PendingReleases' = PendingReleases \union {i} /\ i \notin PendingReleases
    BY <1>5, <1>9, <1>12 DEF PendingReleases, Releasing!Existing
  <2>2. Cardinality(PendingReleases') = Cardinality(PendingReleases) + 1
    BY <2>1, PendingIsFinite, FS_AddElement
  <2> QED BY <1>4, <1>11, <2>2, PendingIsFinite DEF ReleaseInv
<1>18. cutting' \in [Cutters -> [at : {"bounded"}, bounds : Releasing!Bounds] \union {Releasing!Idle}]
       /\ last' \in Slots \union {0} /\ deployments' \in Nat
  BY <1>4 DEF ReleaseInv
<1> QED BY <1>10, <1>15, <1>16, <1>17, <1>18 DEF ReleaseInv

\* A release reaches its environment, fails, or is rolled back.
LEMMA SetStatusKeeps ==
  ASSUME ReleaseInv, NEW i \in Slots, NEW status \in {"deployed", "failed", "rolled_back"}, Releasing!SetStatus(i, status)
  PROVE  ReleaseInv'
<1>1. i \in Releasing!Existing /\ release[i].status \in Releasing!AllowedFrom(status)
  BY DEF Releasing!SetStatus, Releasing!Existing
<1>2. PICK r \in Releasing!Release : r = release[i]
  BY <1>1, ReleaseTypes
<1>3. PICK s \in {[r EXCEPT !.status = status, !.deployedAt = IF status = "deployed" THEN deployments + 1 ELSE @]} : TRUE
  OBVIOUS
<1>4. /\ release' = [release EXCEPT ![i] = s]
      /\ deployments' = (IF status = "deployed" THEN deployments + 1 ELSE deployments)
      /\ UNCHANGED <<commits, cutting, last, reach, excused>>
  BY <1>1, <1>2, <1>3 DEF Releasing!SetStatus, ReleaseInv
<1>5. /\ s.head = r.head /\ s.previous = r.previous /\ s.shipped = r.shipped /\ s.status = status
      /\ s.deployedAt = (IF status = "deployed" THEN deployments + 1 ELSE r.deployedAt)
      /\ s \in [head : Commits, previous : Commits \union {None}, shipped : SUBSET Commits,
                status : {"pending", "deployed", "failed", "rolled_back"}, deployedAt : Nat \union {None}]
  <2>1. r.deployedAt \in Nat \union {None}
    BY DEF Releasing!Release
  <2>2. PICK d \in Nat \union {None} : d = IF status = "deployed" THEN deployments + 1 ELSE r.deployedAt
    BY <2>1, ReleaseNumbers
  <2>3. s = [r EXCEPT !.status = status, !.deployedAt = d]
    BY <1>3, <2>2
  <2> QED BY <2>2, <2>3 DEF Releasing!Release
<1>6. s \in Releasing!Release /\ s # None
  BY <1>5, ReleaseConstants DEF Releasing!Release
<1>7. (r.deployedAt # None) <=> (r.status \in {"deployed", "rolled_back"})
  BY <1>1, <1>2 DEF ReleaseInv, Ships
<1>8. /\ status \in {"deployed", "failed"} => r.status = "pending"
      /\ status = "rolled_back" => r.status = "deployed"
  BY <1>1, <1>2 DEF Releasing!AllowedFrom
<1>9. /\ r.deployedAt # None => s.deployedAt # None
      /\ (s.deployedAt # None) <=> (s.status \in {"deployed", "rolled_back"})
  BY <1>5, <1>7, <1>8, ReleaseConstants DEF ReleaseInv
<1>10. release'[i] = s /\ \A j \in Slots \ {i} : release'[j] = release[j]
  BY <1>4 DEF ReleaseInv
<1>11. /\ commits' \in SUBSET Commits /\ excused' \in SUBSET Commits /\ excused \subseteq excused' /\ reach' \in Commits \union {0}
       /\ release' \in [Slots -> Releasing!Release \union {None}] /\ \A d \in commits' : d \in commits
  BY <1>4, <1>6 DEF ReleaseInv
<1>12. reach \in Nat /\ reach <= reach' /\ deployments \in Nat
  BY <1>4, ReleaseConstants DEF ReleaseInv
<1>13. Releasing!Existing' = Releasing!Existing
  BY <1>1, <1>6, <1>10 DEF Releasing!Existing
<1>14. /\ release'[i] # None /\ release'[i].head = release[i].head /\ release'[i].previous = release[i].previous
       /\ release'[i].shipped = release[i].shipped /\ (release[i].deployedAt # None => release'[i].deployedAt # None)
       /\ (release'[i].deployedAt # None) <=> (release'[i].status \in {"deployed", "rolled_back"})
  BY <1>2, <1>5, <1>6, <1>9, <1>10
<1>15. \A j \in Releasing!Existing' : j <= last' /\ Ships(release[j], Sought, excused, reach, Shipped)'
  BY <1>4, <1>10, <1>11, <1>12, <1>13, <1>14, ReleasesMove DEF ReleaseInv
<1>16. \A d \in Cutters : cutting'[d] # Releasing!Idle => Behind(cutting'[d].bounds.previous, Sought', excused', reach', Shipped')
  BY <1>4, <1>10, <1>11, <1>12, <1>14, ReleasesMove, CutsMove
<1>17. deployments' + Cardinality(PendingReleases') <= last'
  <2>1. PendingReleases' = PendingReleases \ {i}
    BY <1>5, <1>10, <1>13 DEF PendingReleases, Releasing!Existing
  <2>2. CASE status = "deployed"
    <3>1. i \in PendingReleases
      BY <1>1, <1>2, <1>8, <2>2 DEF PendingReleases
    <3>2. Cardinality(PendingReleases') = Cardinality(PendingReleases) - 1
      BY <2>1, <3>1, PendingIsFinite, FS_RemoveElement
    <3> QED BY <1>4, <1>12, <2>2, <3>2, PendingIsFinite, ReleaseConstants DEF ReleaseInv
  <2>3. CASE status # "deployed"
    <3>1. Cardinality(PendingReleases') <= Cardinality(PendingReleases) /\ Cardinality(PendingReleases') \in Nat
      BY <2>1, PendingIsFinite, FS_Subset, FS_CardinalityType
    <3> QED BY <1>4, <1>12, <2>3, <3>1, PendingIsFinite, ReleaseConstants DEF ReleaseInv
  <2> QED BY <2>2, <2>3
<1>18. deployments' \in Nat /\ last' \in Slots \union {0}
       /\ cutting' \in [Cutters -> [at : {"bounded"}, bounds : Releasing!Bounds] \union {Releasing!Idle}]
  BY <1>4, <1>12 DEF ReleaseInv
<1> QED BY <1>11, <1>15, <1>16, <1>17, <1>18 DEF ReleaseInv

\* A release is deleted, and what it shipped has an excuse.
LEMMA DeleteReleaseKeeps == ASSUME ReleaseInv, NEW i \in Slots, Releasing!Delete(i) PROVE ReleaseInv'
<1>1. /\ i \in Releasing!Existing /\ release' = [release EXCEPT ![i] = None]
      /\ excused' = excused \union release[i].shipped /\ UNCHANGED <<commits, cutting, deployments, last, reach>>
  BY DEF Releasing!Delete, Releasing!Existing
<1>2. release'[i] = None /\ release[i].shipped \subseteq excused' /\ \A j \in Slots \ {i} : release'[j] = release[j]
  BY <1>1 DEF ReleaseInv
<1>3. /\ commits' \in SUBSET Commits /\ excused' \in SUBSET Commits /\ excused \subseteq excused' /\ reach' \in Commits \union {0}
      /\ release' \in [Slots -> Releasing!Release \union {None}] /\ \A d \in commits' : d \in commits
  BY <1>1, ReleaseTypes DEF ReleaseInv
<1>4. reach \in Nat /\ reach <= reach'
  BY <1>1, ReleaseNumbers
<1>5. Releasing!Existing' = Releasing!Existing \ {i} /\ PendingReleases' = PendingReleases \ {i}
  BY <1>2 DEF Releasing!Existing, PendingReleases
<1>6. \A j \in Releasing!Existing' : j <= last' /\ Ships(release[j], Sought, excused, reach, Shipped)'
  BY <1>1, <1>2, <1>3, <1>4, <1>5, ReleasesMove DEF ReleaseInv
<1>7. \A d \in Cutters : cutting'[d] # Releasing!Idle => Behind(cutting'[d].bounds.previous, Sought', excused', reach', Shipped')
  BY <1>1, <1>2, <1>3, <1>4, ReleasesMove, CutsMove
<1>8. deployments' + Cardinality(PendingReleases') <= last'
  <2>1. Cardinality(PendingReleases') <= Cardinality(PendingReleases) /\ Cardinality(PendingReleases') \in Nat
    BY <1>5, PendingIsFinite, FS_Subset, FS_CardinalityType
  <2> QED BY <1>1, <2>1, PendingIsFinite, ReleaseConstants DEF ReleaseInv
<1>9. deployments' \in Nat /\ last' \in Slots \union {0}
      /\ cutting' \in [Cutters -> [at : {"bounded"}, bounds : Releasing!Bounds] \union {Releasing!Idle}]
  BY <1>1 DEF ReleaseInv
<1> QED BY <1>3, <1>6, <1>7, <1>8, <1>9 DEF ReleaseInv

\* Every step of a release keeps the invariant.
LEMMA ReleaseStep == ReleaseInv /\ [Releasing!ReleaseNext]_releaseVars => ReleaseInv'
<1> SUFFICES ASSUME ReleaseInv, [Releasing!ReleaseNext]_releaseVars PROVE ReleaseInv'
  OBVIOUS
<1>1. ASSUME NEW c \in Commits, Releasing!Store(c) PROVE ReleaseInv'
  BY <1>1, StoreKeeps
<1>2. ASSUME NEW q \in Cutters, NEW h \in Commits, NEW p \in Commits \union {None}, Releasing!Begin(q, h, p) PROVE ReleaseInv'
  BY <1>2, CutBeginKeeps
<1>3. ASSUME NEW q \in Cutters, NEW i \in Slots, Releasing!Cut(q, i) PROVE ReleaseInv'
  BY <1>3, CutKeeps
<1>4. ASSUME NEW q \in Cutters, Releasing!AbandonCut(q) PROVE ReleaseInv'
  <2>1. cutting' = [cutting EXCEPT ![q] = Releasing!Idle] /\ UNCHANGED <<commits, release, deployments, last, reach, excused>>
    BY <1>4 DEF Releasing!AbandonCut
  <2>2. Releasing!Existing' = Releasing!Existing /\ PendingReleases' = PendingReleases /\ Sought' = Sought /\ Shipped' = Shipped
    BY <2>1 DEF Releasing!Existing, PendingReleases, Shipped, Reached, Sought
  <2>3. \A d \in Cutters : cutting'[d] # Releasing!Idle => Behind(cutting'[d].bounds.previous, Sought', excused', reach', Shipped')
    BY <2>1, <2>2 DEF ReleaseInv
  <2> QED BY <2>1, <2>2, <2>3 DEF ReleaseInv
<1>5. ASSUME NEW i \in Slots, NEW status \in {"deployed", "failed", "rolled_back"}, Releasing!SetStatus(i, status) PROVE ReleaseInv'
  BY <1>5, SetStatusKeeps
<1>6. ASSUME NEW i \in Slots, Releasing!Delete(i) PROVE ReleaseInv'
  BY <1>6, DeleteReleaseKeeps
<1>7. CASE UNCHANGED releaseVars
  <2>1. UNCHANGED <<commits, release, cutting, deployments, last, reach, excused>>
    BY <1>7 DEF releaseVars
  <2>2. Releasing!Existing' = Releasing!Existing /\ PendingReleases' = PendingReleases /\ Sought' = Sought /\ Shipped' = Shipped
    BY <2>1 DEF Releasing!Existing, PendingReleases, Shipped, Reached, Sought
  <2> QED BY <2>1, <2>2 DEF ReleaseInv
<1> QED BY <1>1, <1>2, <1>3, <1>4, <1>5, <1>6, <1>7 DEF Releasing!ReleaseNext

-----------------------------------------------------------------------------
(* Issues, their numbers and their log.                                     *)

Opening == [kind : {"open"}, born : Nat, wants : SUBSET Work]
Numbering == [kind : {"number"}, born : Nat, wants : SUBSET Work, team : Teams]
Snapshots == UNION {[S -> Issues!Row] : S \in SUBSET Work}
Batch == [kind : {"bulk"}, born : Nat, wants : SUBSET Work, seen : Snapshots]
Transactions == {Issues!NoTx} \union Opening \union Numbering \union Batch
Contents == Issues!Categories \union Members \union Projects \union {None}
ToldEntries == [born : Nat, to : Contents]

\* A number is taken by one request at a time, which leaves room for it.
NumbersInv ==
  /\ counter \in [Teams -> Nat] /\ \A t \in Teams : counter[t] <= MaxNumber[t]
  /\ named \in [Teams -> SUBSET (Nat \X Work)]
  /\ \A t \in Teams : {p[1] : p \in named[t]} = 1..counter[t]
  /\ \A t \in Teams : \A p, q \in named[t] : p[1] = q[1] => p = q
  /\ \A c \in Clients : tx[c].kind = "number" => counter[tx[c].team] < MaxNumber[tx[c].team]
  /\ \A c, d \in Clients : c # d /\ tx[c].kind = "number" /\ tx[d].kind = "number" => tx[c].team # tx[d].team

\* The newest entry is as the column, if it was not cleared silently, or is not the last written.
IssueRowsInv ==
  /\ row \in [Work -> Issues!Row \union {None}]
  /\ told \in [Work -> [Issues!Logged -> ToldEntries]]
  /\ latest \in [Work -> [Issues!Logged -> Nat]]
  /\ silent \in SUBSET (Work \X Issues!Logged)
  /\ \A i \in Work, f \in Issues!Logged : row[i] # None /\ <<i, f>> \notin silent =>
       told[i][f].to = row[i][f] \/ latest[i][f] < told[i][f].born

\* The clock tells transactions apart, and one under way has written no entry yet.
DatesInv ==
  /\ starts \in Nat /\ starts <= MaxStarts
  /\ \A c \in Clients : Issues!Tx(c) => tx[c].born \in 1..starts
  /\ \A c, d \in Clients : c # d /\ Issues!Tx(c) /\ Issues!Tx(d) => tx[c].born # tx[d].born
  /\ \A i \in Work, f \in Issues!Logged : told[i][f].born <= starts /\ latest[i][f] <= starts
  /\ \A c \in Clients, i \in Work, f \in Issues!Logged : Issues!Tx(c) => told[i][f].born # tx[c].born

\* A bulk edit has locked the first of its issues, and they are as it saw them.
Locked(c) ==
  /\ Issues!Held(c) \subseteq tx[c].wants
  /\ \A i \in Issues!Held(c) : row[i] # None /\ tx[c].seen[i] = row[i]
  /\ \A i \in Issues!Held(c), j \in tx[c].wants \ Issues!Held(c) : i < j

\* No two requests have locked the same issue.
LocksInv ==
  /\ tx \in [Clients -> Transactions]
  /\ \A c \in Clients : tx[c].kind = "bulk" => Locked(c)
  /\ \A c, d \in Clients : c # d => Issues!Held(c) \intersect Issues!Held(d) = {}

\* The inductive invariant of the issues.
IssueInv == NumbersInv /\ IssueRowsInv /\ DatesInv /\ LocksInv

-----------------------------------------------------------------------------
\* What the issues assume of their constants.
LEMMA IssueConstants ==
  /\ Work \subseteq Nat /\ Patches \subseteq Issues!Patch /\ Batches \subseteq SUBSET Work /\ MaxNumber \in [Teams -> Nat]
  /\ MaxStarts \in Nat
BY LegalConstants DEF Issues!LegalIssueConstants

\* The kinds of transaction.
LEMMA TransactionKinds ==
  ASSUME NEW x \in Transactions
  PROVE  /\ x.kind \in {"none", "open", "number", "bulk"}
         /\ x.kind = "none" => x = Issues!NoTx
         /\ x.kind # "none" => x.born \in Nat /\ x.wants \in SUBSET Work
         /\ x.kind = "open" => x \in Opening
         /\ x.kind = "number" => x \in Numbering /\ x.team \in Teams
         /\ x.kind = "bulk" => x \in Batch /\ x.wants \in SUBSET Work /\ DOMAIN x.seen \in SUBSET Work
                               /\ \A i \in DOMAIN x.seen : x.seen[i] \in Issues!Row
BY DEF Transactions, Issues!NoTx, Opening, Numbering, Batch, Snapshots

\* A request without a transaction is of no kind.
LEMMA NoTxIsNone == Issues!NoTx \in Transactions /\ Issues!NoTx.kind = "none"
BY DEF Transactions, Issues!NoTx

\* The columns of an issue.
LEMMA RowFields ==
  ASSUME NEW r \in Issues!Row
  PROVE  /\ r["state"] = r.state /\ r["assignee"] = r.assignee /\ r["project"] = r.project
         /\ r.state \in Issues!Categories /\ r.assignee \in Members \union {None} /\ r.project \in Projects \union {None}
         /\ \A f \in Issues!Logged : r[f] \in Contents
BY DEF Issues!Row, Issues!Logged, Contents

\* There are no issues at first.
LEMMA IssueStart == Issues!IssueInit => IssueInv
<1> SUFFICES ASSUME Issues!IssueInit PROVE IssueInv
  OBVIOUS
<1>1. /\ counter = [t \in Teams |-> 0] /\ row = [i \in Work |-> None]
      /\ told = [i \in Work |-> [f \in Issues!Logged |-> [born |-> 0, to |-> None]]] /\ silent = {}
      /\ latest = [i \in Work |-> [f \in Issues!Logged |-> 0]] /\ starts = 0
      /\ named = [t \in Teams |-> {}] /\ tx = [c \in Clients |-> Issues!NoTx]
  BY DEF Issues!IssueInit
<1>2. \A c \in Clients : tx[c] \in Transactions /\ tx[c].kind = "none" /\ Issues!Held(c) = {}
  BY <1>1, NoTxIsNone DEF Issues!Held
<1>3. NumbersInv
  <2>1. \A t \in Teams : counter[t] = 0 /\ MaxNumber[t] \in Nat /\ named[t] = {} /\ 1..0 = {}
    BY <1>1, IssueConstants
  <2> QED BY <1>1, <1>2, <2>1 DEF NumbersInv
<1>4. IssueRowsInv
  <2>1. [born |-> 0, to |-> None] \in ToldEntries
    BY DEF ToldEntries, Contents
  <2> QED BY <1>1, <2>1 DEF IssueRowsInv
<1>5. LocksInv
  BY <1>1, <1>2 DEF LocksInv
<1>6. DatesInv
  BY <1>1, <1>2, IssueConstants DEF DatesInv, Issues!Tx
<1> QED BY <1>3, <1>4, <1>5, <1>6 DEF IssueInv

\* The tables are well typed.
LEMMA IssueTypes == IssueInv => Issues!IssueTypeOK
<1> SUFFICES ASSUME IssueInv PROVE Issues!IssueTypeOK
  OBVIOUS
<1>1. \A t \in Teams : counter[t] \in 0..MaxNumber[t]
  BY IssueConstants DEF IssueInv, NumbersInv
<1>2. ASSUME NEW c \in Clients
      PROVE  \/ tx[c] = Issues!NoTx
             \/ tx[c] \in [kind : {"open"}, born : 1..starts, wants : SUBSET Work]
             \/ tx[c] \in [kind : {"number"}, born : 1..starts, wants : SUBSET Work, team : Teams]
             \/ /\ tx[c].kind = "bulk" /\ tx[c].born \in 1..starts /\ tx[c].wants \in SUBSET Work
                /\ Issues!Held(c) \subseteq tx[c].wants
                /\ \A i \in Issues!Held(c) : Issues!Filed(i) /\ tx[c].seen[i] \in Issues!Row
  <2>1. tx[c] \in Transactions /\ (tx[c].kind # "none" => tx[c].born \in 1..starts)
    BY DEF IssueInv, LocksInv, DatesInv, Issues!Tx
  <2>2. CASE tx[c].kind = "bulk"
    <3>1. Locked(c) /\ Issues!Held(c) = DOMAIN tx[c].seen
      BY <2>2 DEF IssueInv, LocksInv, Issues!Held
    <3> QED BY <2>1, <2>2, <3>1, TransactionKinds DEF Locked, Issues!Filed
  <2>3. CASE tx[c].kind # "bulk"
    BY <2>1, <2>3, TransactionKinds DEF Opening, Numbering
  <2> QED BY <2>2, <2>3
<1>3. /\ row \in [Work -> Issues!Row \union {None}] /\ silent \subseteq Work \X Issues!Logged
      /\ named \in [Teams -> SUBSET (Nat \X Work)] /\ starts \in 0..MaxStarts
  BY IssueConstants DEF IssueInv, IssueRowsInv, NumbersInv, DatesInv
<1>4. latest \in [Work -> [Issues!Logged -> 0..starts]]
  <2>1. \A i \in Work, f \in Issues!Logged : latest[i][f] \in 0..starts
    BY DEF IssueInv, IssueRowsInv, DatesInv
  <2> QED BY <2>1 DEF IssueInv, IssueRowsInv
<1>5. told \in [Work -> [Issues!Logged -> [born : 0..starts, to : Contents]]]
  <2>1. \A i \in Work, f \in Issues!Logged : told[i][f] \in [born : 0..starts, to : Contents]
    BY DEF IssueInv, IssueRowsInv, DatesInv, ToldEntries
  <2> QED BY <2>1 DEF IssueInv, IssueRowsInv
<1> QED BY <1>1, <1>2, <1>3, <1>4, <1>5 DEF Issues!IssueTypeOK, Contents

\* The properties follow.
LEMMA IssueProperties ==
  IssueInv => Issues!NumbersIdentify /\ Issues!TheLogTellsTheStory /\ Issues!BulkEditsDoNotDeadlock
<1> SUFFICES ASSUME IssueInv PROVE Issues!NumbersIdentify /\ Issues!TheLogTellsTheStory /\ Issues!BulkEditsDoNotDeadlock
  OBVIOUS
<1>1. Issues!NumbersIdentify
  BY DEF IssueInv, NumbersInv, Issues!NumbersIdentify
<1>2. Issues!TheLogTellsTheStory
  BY DEF IssueInv, IssueRowsInv, Issues!TheLogTellsTheStory, Issues!Filed
<1>3. ASSUME NEW c \in Clients, NEW d \in Clients, Issues!Waits(c, d), Issues!Waits(d, c) PROVE FALSE
  <2>1. tx[c].kind = "bulk" /\ tx[d].kind = "bulk" /\ Locked(c) /\ Locked(d)
    BY <1>3 DEF Issues!Waits, IssueInv, LocksInv
  <2>2. PICK i \in Issues!Unlocked(c) : i \in Issues!Held(d)
    BY <1>3 DEF Issues!Waits
  <2>3. PICK j \in Issues!Unlocked(d) : j \in Issues!Held(c)
    BY <1>3 DEF Issues!Waits
  <2>4. i \in Nat /\ j \in Nat
    <3>1. tx[c].wants \in SUBSET Work /\ tx[d].wants \in SUBSET Work
      BY <2>1, TransactionKinds DEF IssueInv, LocksInv
    <3> QED BY <2>2, <2>3, <3>1, IssueConstants DEF Issues!Unlocked
  <2>5. j < i /\ i < j
    BY <2>1, <2>2, <2>3 DEF Locked, Issues!Unlocked
  <2> QED BY <2>4, <2>5
<1> QED BY <1>1, <1>2, <1>3 DEF Issues!BulkEditsDoNotDeadlock

-----------------------------------------------------------------------------
\* Transactions that begin nothing and rows that nobody holds.
LEMMA LocksStay ==
  ASSUME LocksInv, tx' \in [Clients -> Transactions],
         \A c \in Clients : tx'[c] = tx[c] \/ tx'[c].kind # "bulk",
         \A c \in Clients : tx'[c] = tx[c] => \A i \in Issues!Held(c) : row'[i] = row[i]
  PROVE  LocksInv'
<1>1. ASSUME NEW c \in Clients
      PROVE  Issues!Held(c)' \subseteq Issues!Held(c) /\ (tx'[c].kind = "bulk" => tx'[c] = tx[c] /\ Issues!Held(c)' = Issues!Held(c))
  BY DEF Issues!Held
<1>2. ASSUME NEW c \in Clients, tx'[c].kind = "bulk" PROVE Locked(c)'
  <2>1. tx'[c] = tx[c] /\ Issues!Held(c)' = Issues!Held(c) /\ Locked(c) /\ \A i \in Issues!Held(c) : row'[i] = row[i]
    BY <1>1, <1>2 DEF LocksInv
  <2> QED BY <2>1 DEF Locked
<1> QED BY <1>1, <1>2 DEF LocksInv

\* Numbers rest while nobody allocates.
LEMMA NumbersStay ==
  ASSUME NumbersInv, UNCHANGED <<counter, named>>, \A c \in Clients : tx'[c] = tx[c] \/ tx'[c].kind # "number"
  PROVE  NumbersInv'
BY DEF NumbersInv

\* Dates rest while no transaction begins and nothing is logged.
LEMMA DatesStay ==
  ASSUME DatesInv, UNCHANGED <<told, latest, starts>>,
         \A c \in Clients : tx'[c].kind # "none" => tx[c].kind # "none" /\ tx'[c].born = tx[c].born
  PROVE  DatesInv'
<1>1. \A c \in Clients : Issues!Tx(c)' => Issues!Tx(c) /\ tx'[c].born = tx[c].born
  BY DEF Issues!Tx
<1> QED BY <1>1 DEF DatesInv

\* Ending a transaction, or leaving all of them alone.
LEMMA EndEnds ==
  ASSUME LocksInv, NEW c \in Clients, Issues!End(c)
  PROVE  /\ tx' \in [Clients -> Transactions]
         /\ \A d \in Clients : tx'[d] = tx[d] \/ tx'[d].kind = "none"
         /\ \A d \in Clients : d # c => tx'[d] = tx[d]
         /\ tx'[c].kind = "none"
BY NoTxIsNone DEF LocksInv, Issues!End

\* A transaction that ends without a word.
LEMMA SilentEnds ==
  ASSUME IssueInv, NEW c \in Clients, Issues!End(c), UNCHANGED <<counter, row, told, latest, silent, named, starts>>
  PROVE  IssueInv'
<1>1. LocksInv'
  BY EndEnds, LocksStay DEF IssueInv
<1>2. NumbersInv'
  BY EndEnds, NumbersStay DEF IssueInv
<1>3. \A d \in Clients : tx'[d].kind # "none" => tx'[d] = tx[d]
  BY EndEnds DEF IssueInv
<1>4. DatesInv'
  BY <1>3, DatesStay DEF IssueInv
<1> QED BY <1>1, <1>2, <1>4 DEF IssueInv, IssueRowsInv

\* A free row is held by nobody.
LEMMA FreeRows == ASSUME NEW i, Issues!Free(i), NEW c \in Clients PROVE i \notin Issues!Held(c)
BY DEF Issues!Free

\* Nobody holds an issue that is not there.
LEMMA HeldRowsAreThere == ASSUME LocksInv, NEW c \in Clients, NEW i \in Issues!Held(c) PROVE row[i] # None
<1>1. tx[c].kind = "bulk"
  BY DEF Issues!Held
<1> QED BY <1>1 DEF LocksInv, Locked

-----------------------------------------------------------------------------
\* A transaction begins with no row locked, at a time of its own.
LEMMA StartKeeps ==
  ASSUME IssueInv, NEW c \in Clients, NEW x \in Transactions, x.kind \in {"open", "bulk"}, x.born = starts + 1,
         x.kind = "bulk" => DOMAIN x.seen = {}, Issues!Start(c, x)
  PROVE  IssueInv'
<1>1. /\ tx[c] = Issues!NoTx /\ starts < MaxStarts /\ starts' = starts + 1 /\ tx' = [tx EXCEPT ![c] = x]
      /\ UNCHANGED <<counter, row, told, latest, silent, named>>
  BY DEF Issues!Start
<1>2. tx' \in [Clients -> Transactions] /\ tx'[c] = x /\ \A d \in Clients \ {c} : tx'[d] = tx[d]
  BY <1>1 DEF IssueInv, LocksInv
<1>3. Issues!Held(c)' = {} /\ \A d \in Clients \ {c} : Issues!Held(d)' = Issues!Held(d)
  BY <1>2 DEF Issues!Held
<1>4. \A d \in Clients : tx'[d].kind = "bulk" => Locked(d)'
  <2> SUFFICES ASSUME NEW d \in Clients, tx'[d].kind = "bulk" PROVE Locked(d)'
    OBVIOUS
  <2>1. CASE d = c
    BY <1>3, <2>1 DEF Locked
  <2>2. CASE d # c
    BY <1>1, <1>2, <1>3, <2>2 DEF Locked, IssueInv, LocksInv
  <2> QED BY <2>1, <2>2
<1>5. LocksInv'
  BY <1>2, <1>3, <1>4 DEF LocksInv, IssueInv
<1>6. NumbersInv'
  BY <1>1, <1>2, NumbersStay DEF IssueInv
<1>7. starts \in Nat /\ MaxStarts \in Nat
  BY IssueConstants DEF IssueInv, DatesInv
<1>8. \A d \in Clients \ {c} : Issues!Tx(d)' => Issues!Tx(d) /\ tx'[d].born = tx[d].born /\ tx[d].born \in 1..starts
  BY <1>2 DEF Issues!Tx, IssueInv, DatesInv
<1>9. \A i \in Work, f \in Issues!Logged : told[i][f].born \in Nat /\ latest[i][f] \in Nat
  BY DEF IssueInv, IssueRowsInv, ToldEntries
<1>10. DatesInv'
  <2>1. \A d \in Clients : Issues!Tx(d)' => tx'[d].born \in 1..starts'
    BY <1>1, <1>2, <1>7, <1>8
  <2>2. \A d, e \in Clients : d # e /\ Issues!Tx(d)' /\ Issues!Tx(e)' => tx'[d].born # tx'[e].born
    <3> SUFFICES ASSUME NEW d \in Clients, NEW e \in Clients, d # e, Issues!Tx(d)', Issues!Tx(e)' PROVE tx'[d].born # tx'[e].born
      OBVIOUS
    <3>1. CASE d = c \/ e = c
      BY <1>2, <1>7, <1>8, <3>1
    <3>2. CASE d # c /\ e # c
      BY <1>8, <3>2 DEF IssueInv, DatesInv
    <3> QED BY <3>1, <3>2
  <2>3. \A i \in Work, f \in Issues!Logged : told'[i][f].born <= starts' /\ latest'[i][f] <= starts'
    BY <1>1, <1>7, <1>9 DEF IssueInv, DatesInv
  <2>4. \A d \in Clients, i \in Work, f \in Issues!Logged : Issues!Tx(d)' => told'[i][f].born # tx'[d].born
    <3> SUFFICES ASSUME NEW d \in Clients, NEW i \in Work, NEW f \in Issues!Logged, Issues!Tx(d)' PROVE told'[i][f].born # tx'[d].born
      OBVIOUS
    <3>1. told'[i][f].born = told[i][f].born /\ told[i][f].born <= starts
      BY <1>1 DEF IssueInv, DatesInv
    <3>2. CASE d = c
      BY <1>2, <1>7, <1>9, <3>1, <3>2
    <3>3. CASE d # c
      BY <1>8, <3>1, <3>3 DEF IssueInv, DatesInv
    <3> QED BY <3>2, <3>3
  <2> QED BY <1>1, <1>7, <2>1, <2>2, <2>3, <2>4 DEF DatesInv
<1> QED BY <1>1, <1>5, <1>6, <1>10 DEF IssueInv, IssueRowsInv

\* A request about one issue, or about none yet.
LEMMA OpenKeeps == ASSUME IssueInv, NEW c \in Clients, NEW S \in SUBSET Work, Issues!Open(c, S) PROVE IssueInv'
<1>1. PICK x \in {[kind |-> "open", born |-> starts + 1, wants |-> S]} : TRUE
  OBVIOUS
<1>2. x.kind = "open" /\ x.born = starts + 1 /\ starts + 1 \in Nat
  BY <1>1 DEF IssueInv, DatesInv
<1>3. x \in Transactions
  BY <1>1, <1>2 DEF Transactions, Opening
<1>4. Issues!Start(c, x)
  BY <1>1 DEF Issues!Open
<1> QED BY <1>2, <1>3, <1>4, StartKeeps

\* A bulk edit.
LEMMA BulkBeginKeeps == ASSUME IssueInv, NEW c \in Clients, NEW S \in Batches, Issues!Begin(c, S) PROVE IssueInv'
<1>1. PICK x \in {[kind |-> "bulk", born |-> starts + 1, wants |-> S, seen |-> <<>>]} : TRUE
  OBVIOUS
<1>2. /\ x.kind = "bulk" /\ x.born = starts + 1 /\ starts + 1 \in Nat
      /\ x.wants = S /\ x.seen = <<>> /\ DOMAIN x.seen = {} /\ S \in SUBSET Work
  BY <1>1, IssueConstants DEF IssueInv, DatesInv
<1>3. x \in Transactions
  <2>1. <<>> \in [{} -> Issues!Row]
    OBVIOUS
  <2>2. <<>> \in Snapshots
    BY <2>1 DEF Snapshots
  <2> QED BY <1>1, <1>2, <2>2 DEF Transactions, Batch
<1>4. Issues!Start(c, x)
  BY <1>1 DEF Issues!Begin
<1> QED BY <1>2, <1>3, <1>4, StartKeeps

-----------------------------------------------------------------------------
\* A request takes the team's next number and keeps its counter locked.
LEMMA AllocateKeeps == ASSUME IssueInv, NEW c \in Clients, NEW t \in Teams, Issues!Allocate(c, t) PROVE IssueInv'
<1>1. PICK x \in {[kind |-> "number", born |-> tx[c].born, wants |-> tx[c].wants, team |-> t]} : TRUE
  OBVIOUS
<1>2. /\ tx[c].kind = "open" /\ counter[t] < MaxNumber[t] /\ \A d \in Clients : tx[d].kind = "number" => tx[d].team # t
      /\ tx' = [tx EXCEPT ![c] = x] /\ UNCHANGED <<counter, row, told, latest, silent, named, starts>>
  BY <1>1 DEF Issues!Allocate
<1>3. x.kind = "number" /\ x.team = t /\ x.born = tx[c].born /\ x \in Transactions
  <2>1. tx[c].born \in Nat /\ tx[c].wants \in SUBSET Work
    BY <1>2, TransactionKinds DEF IssueInv, LocksInv
  <2> QED BY <1>1, <2>1 DEF Transactions, Numbering
<1>4. tx'[c] = x /\ tx' \in [Clients -> Transactions] /\ \A d \in Clients \ {c} : tx'[d] = tx[d]
  BY <1>2, <1>3 DEF IssueInv, LocksInv
<1>5. LocksInv'
  BY <1>2, <1>3, <1>4, LocksStay DEF IssueInv
<1>6. DatesInv'
  <2>1. \A d \in Clients : tx'[d].kind # "none" => tx[d].kind # "none" /\ tx'[d].born = tx[d].born
    BY <1>2, <1>3, <1>4
  <2> QED BY <1>2, <2>1, DatesStay DEF IssueInv
<1>7. NumbersInv'
  <2>1. \A d \in Clients : tx'[d].kind = "number" => counter[tx'[d].team] < MaxNumber[tx'[d].team]
    BY <1>2, <1>3, <1>4 DEF IssueInv, NumbersInv
  <2>2. \A d, e \in Clients : d # e /\ tx'[d].kind = "number" /\ tx'[e].kind = "number" => tx'[d].team # tx'[e].team
    BY <1>2, <1>3, <1>4 DEF IssueInv, NumbersInv
  <2> QED BY <1>2, <2>1, <2>2 DEF IssueInv, NumbersInv
<1>8. IssueRowsInv'
  BY <1>2 DEF IssueInv, IssueRowsInv
<1> QED BY <1>5, <1>6, <1>7, <1>8 DEF IssueInv

\* The number a request takes is new to its team.
LEMMA NumberKeeps ==
  ASSUME IssueInv, NEW c \in Clients, NEW i \in Work, NEW t \in Teams,
         tx[c].kind = "number", tx[c].team = t, Issues!Number(i, t), Issues!End(c)
  PROVE  NumbersInv' /\ counter[t] + 1 \in Nat
<1>0. PICK n \in Nat : n = counter[t] + 1
  BY DEF IssueInv, NumbersInv
<1>1. counter' = [counter EXCEPT ![t] = n] /\ named' = [named EXCEPT ![t] = named[t] \union {<<n, i>>}]
  BY <1>0 DEF Issues!Number
<1>2. counter[t] \in Nat /\ n \in Nat /\ n <= MaxNumber[t] /\ MaxNumber[t] \in Nat
  BY <1>0, IssueConstants DEF IssueInv, NumbersInv
<1>3. /\ counter'[t] = n /\ named'[t] = named[t] \union {<<n, i>>}
      /\ \A s \in Teams \ {t} : counter'[s] = counter[s] /\ named'[s] = named[s]
      /\ counter' \in [Teams -> Nat] /\ named' \in [Teams -> SUBSET (Nat \X Work)]
  BY <1>1, <1>2 DEF IssueInv, NumbersInv
<1>4. {p[1] : p \in named[t]} = 1..counter[t]
  BY DEF IssueInv, NumbersInv
<1>5. {p[1] : p \in named'[t]} = {p[1] : p \in named[t]} \union {n}
  <2>1. <<n, i>>[1] = n
    OBVIOUS
  <2> QED BY <1>3, <2>1
<1>6. {p[1] : p \in named'[t]} = 1..n
  BY <1>0, <1>2, <1>4, <1>5
<1>7. ASSUME NEW p \in named'[t], NEW q \in named'[t], p[1] = q[1] PROVE p = q
  <2>1. \A x \in named[t] : x[1] \in 1..counter[t]
    BY <1>4
  <2>2. \A x \in named[t] : x[1] # n
    BY <1>0, <1>2, <2>1
  <2>3. CASE p \in named[t] /\ q \in named[t]
    BY <1>7, <2>3 DEF IssueInv, NumbersInv
  <2>4. CASE p = <<n, i>> /\ q = <<n, i>>
    BY <2>4
  <2> QED BY <1>3, <1>7, <2>2, <2>3, <2>4
<1>8. /\ tx'[c].kind = "none" /\ \A d \in Clients : d # c => tx'[d] = tx[d]
  BY EndEnds DEF IssueInv
<1>9. \A d \in Clients \ {c} : tx[d].kind = "number" => tx[d].team # t /\ tx[d].team \in Teams
  BY TransactionKinds DEF IssueInv, NumbersInv, LocksInv
<1>10. \A d \in Clients : tx'[d].kind = "number" => counter'[tx'[d].team] < MaxNumber[tx'[d].team]
  <2> SUFFICES ASSUME NEW d \in Clients, tx'[d].kind = "number" PROVE counter'[tx'[d].team] < MaxNumber[tx'[d].team]
    OBVIOUS
  <2>1. d # c /\ tx'[d] = tx[d] /\ counter'[tx[d].team] = counter[tx[d].team]
    BY <1>3, <1>8, <1>9
  <2> QED BY <2>1 DEF IssueInv, NumbersInv
<1>11. \A d, e \in Clients : d # e /\ tx'[d].kind = "number" /\ tx'[e].kind = "number" => tx'[d].team # tx'[e].team
  BY <1>8 DEF IssueInv, NumbersInv
<1>12. \A s \in Teams : counter'[s] <= MaxNumber[s] /\ {p[1] : p \in named'[s]} = 1..counter'[s]
  <2> SUFFICES ASSUME NEW s \in Teams PROVE counter'[s] <= MaxNumber[s] /\ {p[1] : p \in named'[s]} = 1..counter'[s]
    OBVIOUS
  <2>1. CASE s = t
    BY <1>2, <1>3, <1>6, <2>1
  <2>2. CASE s # t
    BY <1>3, <2>2 DEF IssueInv, NumbersInv
  <2> QED BY <2>1, <2>2
<1>13. \A s \in Teams : \A p, q \in named'[s] : p[1] = q[1] => p = q
  BY <1>3, <1>7 DEF IssueInv, NumbersInv
<1> QED BY <1>0, <1>3, <1>10, <1>11, <1>12, <1>13 DEF NumbersInv

\* ToldEntries are written about every column that changed, and their transaction ends.
LEMMA LogKeeps ==
  ASSUME IssueInv, NEW c \in Clients, Issues!Tx(c), NEW L \in SUBSET (Work \X Issues!Logged), Issues!Log(c, L), Issues!End(c),
         UNCHANGED starts, row' \in [Work -> Issues!Row \union {None}], \A p \in L : row'[p[1]] \in Issues!Row,
         \A i \in Work, f \in Issues!Logged : row'[i] # None /\ <<i, f>> \notin L => row[i] # None /\ row'[i][f] = row[i][f]
  PROVE  IssueRowsInv' /\ DatesInv'
<1>1. PICK b \in Nat : b = tx[c].born /\ b <= starts
  BY DEF IssueInv, DatesInv
<1>2. /\ told' = [i \in Work |-> [f \in Issues!Logged |->
                    IF <<i, f>> \in L /\ told[i][f].born < b THEN [born |-> b, to |-> row'[i][f]] ELSE told[i][f]]]
      /\ latest' = [i \in Work |-> [f \in Issues!Logged |-> IF <<i, f>> \in L THEN b ELSE latest[i][f]]]
      /\ silent' = silent \ L
  BY <1>1 DEF Issues!Log
<1>3. \A i \in Work, f \in Issues!Logged :
        /\ told[i][f] \in ToldEntries /\ told[i][f].born \in Nat /\ told[i][f].born # b /\ told[i][f].born <= starts
        /\ latest[i][f] \in Nat /\ latest[i][f] <= starts
  BY <1>1 DEF IssueInv, IssueRowsInv, DatesInv, ToldEntries
<1>4. ASSUME NEW i \in Work, NEW f \in Issues!Logged
      PROVE  /\ told'[i][f] = IF <<i, f>> \in L /\ told[i][f].born < b THEN [born |-> b, to |-> row'[i][f]] ELSE told[i][f]
             /\ latest'[i][f] = IF <<i, f>> \in L THEN b ELSE latest[i][f]
  BY <1>2
<1>5. ASSUME NEW i \in Work, NEW f \in Issues!Logged, <<i, f>> \in L PROVE row'[i][f] \in Contents
  <2>1. <<i, f>>[1] = i
    OBVIOUS
  <2>2. row'[i] \in Issues!Row
    BY <1>5, <2>1
  <2> QED BY <2>2, RowFields
<1>6. ASSUME NEW i \in Work, NEW f \in Issues!Logged
      PROVE  /\ told'[i][f] \in ToldEntries /\ latest'[i][f] \in Nat /\ latest'[i][f] <= starts
             /\ told'[i][f].born \in {b, told[i][f].born} /\ told'[i][f].born <= starts
  <2>1. CASE <<i, f>> \in L /\ told[i][f].born < b
    <3>1. PICK v \in Contents : v = row'[i][f]
      BY <1>5, <2>1
    <3>2. told'[i][f] = [born |-> b, to |-> v] /\ latest'[i][f] = b
      BY <1>4, <2>1, <3>1
    <3>3. [born |-> b, to |-> v] \in ToldEntries /\ [born |-> b, to |-> v].born = b
      BY DEF ToldEntries
    <3> QED BY <1>1, <3>2, <3>3
  <2>2. CASE ~(<<i, f>> \in L /\ told[i][f].born < b)
    BY <1>1, <1>3, <1>4, <2>2
  <2> QED BY <2>1, <2>2
<1>7. told' \in [Work -> [Issues!Logged -> ToldEntries]] /\ latest' \in [Work -> [Issues!Logged -> Nat]]
  BY <1>2, <1>6
<1>8. ASSUME NEW i \in Work, NEW f \in Issues!Logged, row'[i] # None, <<i, f>> \notin silent'
      PROVE  told'[i][f].to = row'[i][f] \/ latest'[i][f] < told'[i][f].born
  <2>1. CASE <<i, f>> \in L /\ told[i][f].born < b
    <3>1. told'[i][f] = [born |-> b, to |-> row'[i][f]]
      BY <1>4, <2>1
    <3> QED BY <3>1
  <2>2. CASE <<i, f>> \in L /\ ~(told[i][f].born < b)
    <3>1. told'[i][f] = told[i][f] /\ latest'[i][f] = b
      BY <1>4, <2>2
    <3>2. told[i][f].born \in Nat /\ told[i][f].born # b
      BY <1>3
    <3> QED BY <1>1, <2>2, <3>1, <3>2
  <2>3. CASE <<i, f>> \notin L
    <3>1. row[i] # None /\ row'[i][f] = row[i][f] /\ <<i, f>> \notin silent
      BY <1>2, <1>8, <2>3
    <3>2. told'[i][f] = told[i][f] /\ latest'[i][f] = latest[i][f]
      BY <1>4, <2>3
    <3> QED BY <3>1, <3>2 DEF IssueInv, IssueRowsInv
  <2> QED BY <2>1, <2>2, <2>3
<1>9. IssueRowsInv'
  BY <1>2, <1>7, <1>8 DEF IssueInv, IssueRowsInv
<1>10. \A d \in Clients : Issues!Tx(d)' => d # c /\ Issues!Tx(d) /\ tx'[d] = tx[d] /\ tx[d].born # b
  BY <1>1, EndEnds DEF Issues!Tx, IssueInv, DatesInv
<1>11. DatesInv'
  <2>1. \A d \in Clients, i \in Work, f \in Issues!Logged : Issues!Tx(d)' => told'[i][f].born # tx'[d].born
    BY <1>6, <1>10 DEF IssueInv, DatesInv
  <2>2. \A d \in Clients : Issues!Tx(d)' => tx'[d].born \in 1..starts'
    BY <1>10 DEF IssueInv, DatesInv
  <2>3. \A d, e \in Clients : d # e /\ Issues!Tx(d)' /\ Issues!Tx(e)' => tx'[d].born # tx'[e].born
    BY <1>10 DEF IssueInv, DatesInv
  <2> QED BY <1>6, <2>1, <2>2, <2>3 DEF IssueInv, DatesInv
<1> QED BY <1>9, <1>11

\* One row changes, and what changed in it is logged.
LEMMA RowMoves ==
  ASSUME IssueInv, NEW c \in Clients, Issues!Tx(c), NEW L \in SUBSET (Work \X Issues!Logged), Issues!Log(c, L), Issues!End(c),
         UNCHANGED starts, NEW i \in Work, NEW r \in Issues!Row, row' = [row EXCEPT ![i] = r], \A p \in L : p[1] = i,
         \A f \in Issues!Logged : <<i, f>> \notin L => row[i] # None /\ r[f] = row[i][f]
  PROVE  IssueRowsInv' /\ DatesInv'
<1>1. row' \in [Work -> Issues!Row \union {None}] /\ row'[i] = r /\ \A j \in Work \ {i} : row'[j] = row[j]
  BY DEF IssueInv, IssueRowsInv
<1>2. \A p \in L : row'[p[1]] \in Issues!Row
  BY <1>1
<1>3. \A j \in Work, f \in Issues!Logged : row'[j] # None /\ <<j, f>> \notin L => row[j] # None /\ row'[j][f] = row[j][f]
  BY <1>1
<1> QED BY <1>1, <1>2, <1>3, LogKeeps

\* Rows with one assignee and one project differ in the state at most.
LEMMA OnlyTheStateDiffers ==
  ASSUME NEW q \in Issues!Row, NEW r \in Issues!Row, r.assignee = q.assignee, r.project = q.project
  PROVE  \A f \in Issues!Logged : f = "state" \/ r[f] = q[f]
BY RowFields DEF Issues!Logged

\* A move is logged as a change of state.
LEMMA StateMoves ==
  ASSUME IssueInv, NEW c \in Clients, Issues!Tx(c), NEW i \in Work, row[i] # None, NEW r \in Issues!Row,
         Issues!RecordState(c, i), Issues!End(c), UNCHANGED starts, row' = [row EXCEPT ![i] = r],
         \A f \in Issues!Logged : f = "state" \/ r[f] = row[i][f]
  PROVE  IssueRowsInv' /\ DatesInv'
<1>1. "state" \in Issues!Logged
  BY DEF Issues!Logged
<1>2. <<i, "state">> \in Work \X Issues!Logged
  BY <1>1
<1>3. PICK L \in SUBSET (Work \X Issues!Logged) : L = {<<i, "state">>}
  BY <1>2
<1>4. Issues!Log(c, L)
  BY <1>3 DEF Issues!RecordState
<1>5. row' \in [Work -> Issues!Row \union {None}] /\ row'[i] = r /\ \A j \in Work \ {i} : row'[j] = row[j]
  BY DEF IssueInv, IssueRowsInv
<1>6. \A p \in L : row'[p[1]] \in Issues!Row
  BY <1>3, <1>5
<1>7. \A j \in Work, f \in Issues!Logged : row'[j] # None /\ <<j, f>> \notin L => row[j] # None /\ row'[j][f] = row[j][f]
  BY <1>3, <1>5
<1> QED BY <1>4, <1>5, <1>6, <1>7, LogKeeps

\* An issue is created under the number its request took.
LEMMA IssueCreateKeeps ==
  ASSUME IssueInv, NEW c \in Clients, NEW i \in Work, NEW a \in Members \union {None}, Issues!Create(c, i, a) PROVE IssueInv'
<1>1. PICK t \in Teams : tx[c].kind = "number" /\ tx[c].team = t
  BY TransactionKinds DEF Issues!Create, IssueInv, LocksInv
<1>2. PICK r \in {[team |-> t, number |-> counter[t] + 1, state |-> "unstarted", dated |-> FALSE,
                   assignee |-> a, project |-> None, stage |-> "live"]} : TRUE
  OBVIOUS
<1>3. /\ row[i] = None /\ Issues!Number(i, t) /\ row' = [row EXCEPT ![i] = r]
      /\ Issues!Log(c, {i} \X Issues!Logged) /\ Issues!End(c) /\ UNCHANGED starts
  BY <1>1, <1>2 DEF Issues!Create, Issues!Filed
<1>4. NumbersInv' /\ counter[t] + 1 \in Nat
  BY <1>1, <1>3, NumberKeeps
<1>5. r \in Issues!Row
  <2>1. PICK n \in Nat : n = counter[t] + 1
    BY <1>4
  <2>2. r = [team |-> t, number |-> n, state |-> "unstarted", dated |-> FALSE, assignee |-> a, project |-> None, stage |-> "live"]
    BY <1>2, <2>1
  <2>3. "unstarted" \in Issues!Categories
    BY DEF Issues!Categories
  <2> QED BY <2>2, <2>3 DEF Issues!Row
<1>6. Issues!Tx(c)
  BY <1>1 DEF Issues!Tx
<1>7. IssueRowsInv' /\ DatesInv'
  <2>1. PICK L \in SUBSET (Work \X Issues!Logged) : L = {i} \X Issues!Logged
    OBVIOUS
  <2>2. Issues!Log(c, L) /\ (\A p \in L : p[1] = i) /\ \A f \in Issues!Logged : <<i, f>> \in L
    BY <1>3, <2>1
  <2> QED BY <1>3, <1>5, <1>6, <2>2, RowMoves
<1>8. LocksInv'
  <2>1. \A d \in Clients : i \notin Issues!Held(d)
    BY <1>3, HeldRowsAreThere DEF IssueInv
  <2>2. \A d \in Clients : \A j \in Issues!Held(d) : row'[j] = row[j]
    BY <1>3, <2>1 DEF IssueInv, IssueRowsInv
  <2> QED BY <1>3, <2>2, EndEnds, LocksStay DEF IssueInv
<1> QED BY <1>4, <1>7, <1>8 DEF IssueInv

\* An issue changes teams, and numbers.
LEMMA ChangeTeamKeeps ==
  ASSUME IssueInv, NEW c \in Clients, NEW i \in Work, Issues!ChangeTeam(c, i) PROVE IssueInv'
<1>1. PICK t \in Teams : tx[c].kind = "number" /\ tx[c].team = t
  BY TransactionKinds DEF Issues!ChangeTeam, IssueInv, LocksInv
<1>2. PICK q \in Issues!Row : q = row[i] /\ q # None
  BY DEF Issues!ChangeTeam, Issues!Filed, IssueInv, IssueRowsInv
<1>3. PICK r \in {[q EXCEPT !.team = t, !.number = counter[t] + 1, !.state = "unstarted"]} : TRUE
  OBVIOUS
<1>4. /\ Issues!Free(i) /\ Issues!Number(i, t) /\ row' = [row EXCEPT ![i] = r]
      /\ Issues!RecordState(c, i) /\ Issues!End(c) /\ UNCHANGED starts
  BY <1>1, <1>2, <1>3 DEF Issues!ChangeTeam, IssueInv, IssueRowsInv
<1>5. NumbersInv' /\ counter[t] + 1 \in Nat
  BY <1>1, <1>4, NumberKeeps
<1>6. r \in Issues!Row /\ r.state = "unstarted" /\ r.assignee = q.assignee /\ r.project = q.project
  BY <1>3, <1>5 DEF Issues!Row, Issues!Categories
<1>7. IssueRowsInv' /\ DatesInv'
  <2>1. Issues!Tx(c) /\ row[i] # None /\ \A f \in Issues!Logged : f = "state" \/ r[f] = row[i][f]
    BY <1>1, <1>2, <1>6, OnlyTheStateDiffers DEF Issues!Tx
  <2> QED BY <1>4, <1>6, <2>1, StateMoves
<1>8. LocksInv'
  <2>1. \A d \in Clients : \A j \in Issues!Held(d) : row'[j] = row[j]
    BY <1>4, FreeRows DEF IssueInv, IssueRowsInv
  <2> QED BY <1>4, <2>1, EndEnds, LocksStay DEF IssueInv
<1> QED BY <1>5, <1>7, <1>8 DEF IssueInv

-----------------------------------------------------------------------------
\* A bulk edit locks its issues in the order of their keys.
LEMMA LockIssueKeeps == ASSUME IssueInv, NEW c \in Clients, NEW i \in Work, Issues!LockIssue(c, i) PROVE IssueInv'
<1>1. /\ tx[c].kind = "bulk" /\ i \in Issues!Unlocked(c) /\ Issues!InOrder(c, i) /\ Issues!Free(i)
      /\ UNCHANGED <<counter, row, told, latest, silent, named, starts>>
  BY DEF Issues!LockIssue, Issues!Available
<1>2. CASE Issues!End(c)
  BY <1>1, <1>2, SilentEnds
<1>3. CASE Issues!Live(i) /\ Issues!See(c, i)
  <2>1. PICK x \in Batch : x = tx[c]
    BY <1>1, TransactionKinds DEF IssueInv, LocksInv
  <2>2. PICK D \in SUBSET Work : D = Issues!Held(c)
    BY <1>1, TransactionKinds DEF IssueInv, LocksInv, Issues!Held
  <2>3. PICK s \in {[j \in D \union {i} |-> IF j = i THEN row[i] ELSE x.seen[j]]} : TRUE
    OBVIOUS
  <2>4. tx' = [tx EXCEPT ![c] = [x EXCEPT !.seen = s]]
    BY <1>3, <2>1, <2>2, <2>3 DEF Issues!See, IssueInv, LocksInv
  <2>5. Locked(c)
    BY <1>1 DEF IssueInv, LocksInv
  <2>6. row[i] # None /\ row[i] \in Issues!Row
    BY <1>3 DEF Issues!Live, Issues!Filed, IssueInv, IssueRowsInv
  <2>7. \A j \in D : x.seen[j] = row[j] /\ row[j] # None /\ x.seen[j] \in Issues!Row
    <3>1. \A j \in D : x.seen[j] = row[j] /\ row[j] # None
      BY <2>1, <2>2, <2>5 DEF Locked
    <3> QED BY <3>1 DEF IssueInv, IssueRowsInv
  <2>8. s \in Snapshots /\ DOMAIN s = D \union {i} /\ \A j \in D \union {i} : s[j] = row[j]
    <3>1. s \in [D \union {i} -> Issues!Row]
      BY <2>3, <2>6, <2>7
    <3>2. \A j \in D \union {i} : s[j] = row[j]
      BY <2>3, <2>7
    <3> QED BY <3>1, <3>2 DEF Snapshots
  <2>9. PICK y \in {[x EXCEPT !.seen = s]} : TRUE
    OBVIOUS
  <2>10. y.kind = "bulk" /\ y.born = x.born /\ y.wants = x.wants /\ y.seen = s /\ y \in Transactions
    BY <2>8, <2>9 DEF Batch, Transactions
  <2>11. tx' \in [Clients -> Transactions] /\ tx'[c] = y /\ \A d \in Clients \ {c} : tx'[d] = tx[d]
    BY <2>4, <2>9, <2>10 DEF IssueInv, LocksInv
  <2>12. Issues!Held(c)' = D \union {i} /\ \A d \in Clients \ {c} : Issues!Held(d)' = Issues!Held(d)
    BY <2>8, <2>10, <2>11 DEF Issues!Held
  <2>13. Locked(c)'
    <3>1. D \union {i} \subseteq x.wants
      BY <1>1, <2>1, <2>2, <2>5 DEF Locked, Issues!Unlocked
    <3>2. ASSUME NEW k \in D \union {i}, NEW j \in x.wants \ (D \union {i}) PROVE k < j
      <4>1. j \in Issues!Unlocked(c) /\ j # i
        BY <2>1, <2>2, <3>2 DEF Issues!Unlocked
      <4>2. CASE k \in D
        BY <2>1, <2>2, <2>5, <4>2 DEF Locked
      <4>3. CASE k = i
        <5>1. i <= j
          BY <1>1, <4>1 DEF Issues!InOrder
        <5>2. i \in Nat /\ j \in Nat
          BY IssueConstants, <2>1 DEF Batch
        <5> QED BY <4>1, <4>3, <5>1, <5>2
      <4> QED BY <4>2, <4>3
    <3> QED BY <1>1, <2>6, <2>7, <2>8, <2>10, <2>11, <2>12, <3>1, <3>2 DEF Locked
  <2>14. \A d \in Clients : tx'[d].kind = "bulk" => Locked(d)'
    <3> SUFFICES ASSUME NEW d \in Clients, d # c, tx'[d].kind = "bulk" PROVE Locked(d)'
      BY <2>13
    <3> QED BY <1>1, <2>11, <2>12 DEF Locked, IssueInv, LocksInv
  <2>15. \A d, e \in Clients : d # e => Issues!Held(d)' \intersect Issues!Held(e)' = {}
    BY <1>1, <2>2, <2>12, FreeRows DEF IssueInv, LocksInv
  <2>16. LocksInv'
    BY <2>11, <2>14, <2>15 DEF LocksInv
  <2>17. NumbersInv'
    BY <1>1, <2>10, <2>11, NumbersStay DEF IssueInv
  <2>18. DatesInv'
    <3>1. \A d \in Clients : tx'[d].kind # "none" => tx[d].kind # "none" /\ tx'[d].born = tx[d].born
      BY <1>1, <2>1, <2>10, <2>11
    <3> QED BY <1>1, <3>1, DatesStay DEF IssueInv
  <2> QED BY <1>1, <2>16, <2>17, <2>18 DEF IssueInv, IssueRowsInv
<1> QED BY <1>2, <1>3 DEF Issues!LockIssue

\* A state is one that dates issues or not.
LEMMA DatedOrNot == \A s : Issues!Dated(s) \in BOOLEAN
BY DEF Issues!Dated

\* What a patch makes of a row.
LEMMA PatchedRows == ASSUME NEW r \in Issues!Row, NEW p \in Patches PROVE Issues!Patched(r, p) \in Issues!Row
<1>1. p \in Issues!Patch
  BY IssueConstants
<1>2. PICK s \in Issues!Categories : s = Issues!New(r.state, p.state)
  BY <1>1, RowFields DEF Issues!Patch, Issues!New
<1>3. PICK a \in Members \union {None} : a = Issues!New(r.assignee, p.assignee)
  BY <1>1, RowFields DEF Issues!Patch, Issues!New
<1>4. PICK o \in Projects \union {None} : o = Issues!New(r.project, p.project)
  BY <1>1, RowFields DEF Issues!Patch, Issues!New
<1>5. PICK t \in BOOLEAN : t = Issues!Dated(s)
  BY DatedOrNot
<1>6. Issues!Patched(r, p) = [r EXCEPT !.state = s, !.dated = t, !.assignee = a, !.project = o]
  BY <1>2, <1>3, <1>4, <1>5 DEF Issues!Patched
<1> QED BY <1>6 DEF Issues!Row

\* The log of rows that were as they had been seen.
LEMMA RecordChangesMoves ==
  ASSUME IssueInv, NEW c \in Clients, Issues!Tx(c), NEW S \in SUBSET Work, NEW before, row' \in [Work -> Issues!Row \union {None}],
         \A i \in S : before[i] = row[i] /\ row[i] # None /\ row'[i] \in Issues!Row, \A i \in Work \ S : row'[i] = row[i],
         Issues!RecordChanges(c, S, before, row'), Issues!End(c), UNCHANGED starts
  PROVE  IssueRowsInv' /\ DatesInv'
<1>1. PICK L \in SUBSET (Work \X Issues!Logged) : L = {p \in S \X Issues!Logged : before[p[1]][p[2]] # row'[p[1]][p[2]]}
  OBVIOUS
<1>2. Issues!Log(c, L)
  BY <1>1 DEF Issues!RecordChanges
<1>3. \A p \in L : row'[p[1]] \in Issues!Row
  BY <1>1
<1>4. ASSUME NEW i \in Work, NEW f \in Issues!Logged, row'[i] # None, <<i, f>> \notin L PROVE row[i] # None /\ row'[i][f] = row[i][f]
  <2>1. CASE i \in S
    <3>1. <<i, f>> \in S \X Issues!Logged /\ <<i, f>>[1] = i /\ <<i, f>>[2] = f
      BY <2>1
    <3>2. before[i][f] = row'[i][f]
      BY <1>1, <1>4, <3>1
    <3> QED BY <2>1, <3>2
  <2>2. CASE i \notin S
    BY <1>4, <2>2
  <2> QED BY <2>1, <2>2
<1> QED BY <1>2, <1>3, <1>4, LogKeeps

\* A bulk edit writes the rows it has locked, and their entries.
LEMMA WriteKeeps ==
  ASSUME IssueInv, NEW c \in Clients, NEW after \in [Work -> Issues!Row \union {None}], Issues!Write(c, after),
         \A i \in Issues!Held(c) : after[i] \in Issues!Row, \A i \in Work \ Issues!Held(c) : after[i] = row[i]
  PROVE  IssueInv'
<1>1. /\ tx[c].kind = "bulk" /\ row' = after /\ Issues!RecordChanges(c, Issues!Held(c), tx[c].seen, after) /\ Issues!End(c)
      /\ UNCHANGED <<counter, named, starts>>
  BY DEF Issues!Write
<1>2. Issues!Held(c) \in SUBSET Work /\ Locked(c)
  BY <1>1, TransactionKinds DEF IssueInv, LocksInv, Issues!Held
<1>3. IssueRowsInv' /\ DatesInv'
  <2>1. Issues!Tx(c)
    BY <1>1 DEF Issues!Tx
  <2>2. \A i \in Issues!Held(c) : tx[c].seen[i] = row[i] /\ row[i] # None
    BY <1>2 DEF Locked
  <2> QED BY <1>1, <1>2, <2>1, <2>2, RecordChangesMoves
<1>4. \A d \in Clients : d # c => \A i \in Issues!Held(d) : row'[i] = row[i]
  <2> SUFFICES ASSUME NEW d \in Clients, d # c, NEW i \in Issues!Held(d) PROVE row'[i] = row[i]
    OBVIOUS
  <2>1. i \in Work
    <3>1. tx[d].kind = "bulk" /\ Issues!Held(d) = DOMAIN tx[d].seen
      BY DEF Issues!Held
    <3> QED BY <3>1, TransactionKinds DEF IssueInv, LocksInv
  <2>2. i \notin Issues!Held(c)
    BY DEF IssueInv, LocksInv
  <2> QED BY <1>1, <2>1, <2>2
<1>5. LocksInv'
  <2>1. \A d \in Clients : tx'[d] = tx[d] => d # c
    BY <1>1, EndEnds DEF IssueInv
  <2> QED BY <1>1, <1>4, <2>1, EndEnds, LocksStay DEF IssueInv
<1>6. NumbersInv'
  BY <1>1, EndEnds, NumbersStay DEF IssueInv
<1> QED BY <1>3, <1>5, <1>6 DEF IssueInv

\* A locked row is there.
LEMMA HeldRows == ASSUME IssueInv, NEW c \in Clients, NEW i \in Issues!Held(c) PROVE row[i] \in Issues!Row /\ i \in Work
<1>1. tx[c].kind = "bulk" /\ Issues!Held(c) = DOMAIN tx[c].seen
  BY DEF Issues!Held
<1>2. i \in Work
  BY <1>1, TransactionKinds DEF IssueInv, LocksInv
<1>3. row[i] # None
  BY HeldRowsAreThere DEF IssueInv
<1> QED BY <1>2, <1>3 DEF IssueInv, IssueRowsInv

\* A bulk edit changes its issues and ends.
LEMMA UpdateManyKeeps == ASSUME IssueInv, NEW c \in Clients, NEW p \in Patches, Issues!UpdateMany(c, p) PROVE IssueInv'
<1>1. PICK after \in {[i \in Work |-> IF i \in Issues!Held(c) THEN Issues!Patched(row[i], p) ELSE row[i]]} : TRUE
  OBVIOUS
<1>2. Issues!Write(c, after)
  BY <1>1 DEF Issues!UpdateMany
<1>3. \A i \in Issues!Held(c) : after[i] \in Issues!Row
  BY <1>1, HeldRows, PatchedRows
<1>4. \A i \in Work \ Issues!Held(c) : after[i] = row[i]
  BY <1>1
<1>5. after \in [Work -> Issues!Row \union {None}]
  BY <1>1, HeldRows, PatchedRows DEF IssueInv, IssueRowsInv
<1> QED BY <1>2, <1>3, <1>4, <1>5, WriteKeeps

\* An archived issue is an issue.
LEMMA ArchivedRows == ASSUME NEW r \in Issues!Row PROVE [r EXCEPT !.stage = "archived"] \in Issues!Row
BY DEF Issues!Row

\* A bulk edit archives its issues and ends.
LEMMA ArchiveManyKeeps == ASSUME IssueInv, NEW c \in Clients, Issues!ArchiveMany(c) PROVE IssueInv'
<1>1. PICK after \in {[i \in Work |-> IF i \in Issues!Held(c) THEN [row[i] EXCEPT !.stage = "archived"] ELSE row[i]]} : TRUE
  OBVIOUS
<1>2. Issues!Write(c, after)
  BY <1>1 DEF Issues!ArchiveMany
<1>3. \A i \in Issues!Held(c) : after[i] \in Issues!Row
  BY <1>1, HeldRows, ArchivedRows
<1>4. \A i \in Work \ Issues!Held(c) : after[i] = row[i]
  BY <1>1
<1>5. after \in [Work -> Issues!Row \union {None}]
  BY <1>1, HeldRows, ArchivedRows DEF IssueInv, IssueRowsInv
<1> QED BY <1>2, <1>3, <1>4, <1>5, WriteKeeps

-----------------------------------------------------------------------------
\* A statement clears a column of many issues and logs nothing.
LEMMA ColumnClearKeeps ==
  ASSUME IssueInv, NEW column \in {"assignee", "project"}, NEW S \in SUBSET Work, Issues!Clear(column, S) PROVE IssueInv'
<1>1. /\ \A i \in S : row[i] # None /\ Issues!Free(i)
      /\ row' = [i \in Work |-> IF i \in S THEN [row[i] EXCEPT ![column] = None] ELSE row[i]]
      /\ silent' = silent \union (S \X {column}) /\ UNCHANGED <<counter, told, latest, named, tx, starts>>
  BY DEF Issues!Clear, Issues!Filed
<1>2. \A i \in S : row[i] \in Issues!Row
  BY <1>1 DEF IssueInv, IssueRowsInv
<1>3. ASSUME NEW r \in Issues!Row
      PROVE  /\ [r EXCEPT ![column] = None] \in Issues!Row
             /\ \A f \in Issues!Logged : f # column => [r EXCEPT ![column] = None][f] = r[f]
  BY DEF Issues!Row, Issues!Logged
<1>4. row' \in [Work -> Issues!Row \union {None}]
  BY <1>1, <1>2, <1>3 DEF IssueInv, IssueRowsInv
<1>5. column \in Issues!Logged
  BY DEF Issues!Logged
<1>6. silent' \in SUBSET (Work \X Issues!Logged)
  BY <1>1, <1>5 DEF IssueInv, IssueRowsInv
<1>7. ASSUME NEW i \in Work, NEW f \in Issues!Logged, row'[i] # None, <<i, f>> \notin silent'
      PROVE  told'[i][f].to = row'[i][f] \/ latest'[i][f] < told'[i][f].born
  <2>1. <<i, f>> \notin silent /\ (i \in S => f # column)
    BY <1>1, <1>7
  <2>2. CASE i \in S
    BY <1>1, <1>2, <1>3, <2>1, <2>2 DEF IssueInv, IssueRowsInv
  <2>3. CASE i \notin S
    BY <1>1, <1>7, <2>1, <2>3 DEF IssueInv, IssueRowsInv
  <2> QED BY <2>2, <2>3
<1>8. IssueRowsInv'
  BY <1>1, <1>4, <1>6, <1>7 DEF IssueInv, IssueRowsInv
<1>9. \A d \in Clients : \A j \in Issues!Held(d) : row'[j] = row[j]
  BY <1>1, FreeRows, HeldRows
<1>10. LocksInv'
  BY <1>1, <1>9, LocksStay DEF IssueInv, LocksInv
<1>11. NumbersInv'
  BY <1>1, NumbersStay DEF IssueInv
<1>12. DatesInv'
  BY <1>1, DatesStay DEF IssueInv
<1> QED BY <1>8, <1>10, <1>11, <1>12 DEF IssueInv

\* A request about one issue: its row, and the transaction ends.
LEMMA SingleKeeps ==
  ASSUME IssueInv, NEW c \in Clients, NEW i \in Work, Issues!Free(i), IssueRowsInv', DatesInv', Issues!End(c),
         UNCHANGED <<counter, named>>, \A j \in Work \ {i} : row'[j] = row[j]
  PROVE  IssueInv'
<1>1. \A d \in Clients : \A j \in Issues!Held(d) : row'[j] = row[j]
  BY FreeRows, HeldRows
<1>2. LocksInv'
  BY <1>1, EndEnds, LocksStay DEF IssueInv
<1>3. NumbersInv'
  BY EndEnds, NumbersStay DEF IssueInv
<1> QED BY <1>2, <1>3 DEF IssueInv

\* An issue is moved by one statement, with its entry in the log.
LEMMA MoveKeeps ==
  ASSUME IssueInv, NEW c \in Clients, Issues!Tx(c), NEW i \in Work, NEW stage, NEW r \in Issues!Row, Issues!Move(c, i, stage, r),
         r.assignee = row[i].assignee, r.project = row[i].project
  PROVE  IssueInv'
<1>1. /\ row[i] # None /\ Issues!Free(i) /\ row' = [row EXCEPT ![i] = r] /\ Issues!RecordState(c, i) /\ Issues!End(c)
      /\ UNCHANGED <<counter, named, starts>>
  BY DEF Issues!Move, Issues!Filed
<1>2. row[i] \in Issues!Row
  BY <1>1 DEF IssueInv, IssueRowsInv
<1>3. \A f \in Issues!Logged : f = "state" \/ r[f] = row[i][f]
  BY <1>2, OnlyTheStateDiffers
<1>4. IssueRowsInv' /\ DatesInv'
  BY <1>1, <1>3, StateMoves
<1> QED BY <1>1, <1>4, SingleKeeps DEF IssueInv, IssueRowsInv

\* Triage is entered, accepted, declined and automated.
LEMMA TriageKeeps ==
  ASSUME IssueInv, NEW c \in Clients, NEW i \in Work,
         Issues!Enter(c, i) \/ (\E s \in Issues!Categories : Issues!Accept(c, i, s)) \/ Issues!Decline(c, i) \/ Issues!Automate(c, i)
  PROVE  IssueInv'
<1>1. row[i] # None /\ Issues!Tx(c)
  BY DEF Issues!Enter, Issues!Accept, Issues!Decline, Issues!Automate, Issues!Move, Issues!Filed, Issues!Serves, Issues!Tx
<1>2. PICK q \in Issues!Row : q = row[i]
  BY <1>1 DEF IssueInv, IssueRowsInv
<1>3. /\ "canceled" \in Issues!Categories /\ "completed" \in Issues!Categories
      /\ \A s : Issues!Dated(s) \in BOOLEAN
  BY DatedOrNot DEF Issues!Categories, Issues!Terminal
<1>4. CASE Issues!Enter(c, i)
  <2>1. Issues!Move(c, i, "live", [q EXCEPT !.stage = "triage"])
    BY <1>2, <1>4 DEF Issues!Enter
  <2>2. PICK r \in {[q EXCEPT !.stage = "triage"]} : TRUE
    OBVIOUS
  <2>3. r \in Issues!Row /\ r.state = q.state /\ r.assignee = q.assignee /\ r.project = q.project
    BY <2>2 DEF Issues!Row
  <2>4. Issues!Move(c, i, "live", r)
    BY <2>1, <2>2, <2>3
  <2> QED BY <1>1, <1>2, <2>3, <2>4, MoveKeeps
<1>5. ASSUME NEW s \in Issues!Categories, Issues!Accept(c, i, s) PROVE IssueInv'
  <2>1. PICK b \in BOOLEAN : b = Issues!Dated(s)
    BY <1>3
  <2>2. Issues!Move(c, i, "triage", [q EXCEPT !.stage = "live", !.state = s, !.dated = b])
    BY <1>2, <1>5, <2>1 DEF Issues!Accept
  <2>3. PICK r \in {[q EXCEPT !.stage = "live", !.state = s, !.dated = b]} : TRUE
    OBVIOUS
  <2>4. r \in Issues!Row /\ r.state = s /\ r.assignee = q.assignee /\ r.project = q.project
    BY <2>3 DEF Issues!Row
  <2>5. Issues!Move(c, i, "triage", r)
    BY <2>2, <2>3, <2>4
  <2> QED BY <1>1, <1>2, <2>4, <2>5, MoveKeeps
<1>6. CASE Issues!Decline(c, i)
  <2>1. Issues!Move(c, i, "triage", [q EXCEPT !.stage = "live", !.state = "canceled", !.dated = TRUE])
    BY <1>2, <1>6 DEF Issues!Decline
  <2>2. PICK r \in {[q EXCEPT !.stage = "live", !.state = "canceled", !.dated = TRUE]} : TRUE
    OBVIOUS
  <2>3. r \in Issues!Row /\ r.state = "canceled" /\ r.assignee = q.assignee /\ r.project = q.project
    BY <1>3, <2>2 DEF Issues!Row
  <2>4. Issues!Move(c, i, "triage", r)
    BY <2>1, <2>2, <2>3
  <2> QED BY <1>1, <1>2, <2>3, <2>4, MoveKeeps
<1>7. CASE Issues!Automate(c, i)
  <2>1. PICK b \in BOOLEAN : b = Issues!Dated("completed")
    BY <1>3
  <2>2. PICK stage \in {"live", "triage"} : Issues!Move(c, i, stage, [q EXCEPT !.state = "completed", !.dated = b])
    BY <1>2, <1>7, <2>1 DEF Issues!Automate
  <2>3. PICK r \in {[q EXCEPT !.state = "completed", !.dated = b]} : TRUE
    OBVIOUS
  <2>4. r \in Issues!Row /\ r.state = "completed" /\ r.assignee = q.assignee /\ r.project = q.project
    BY <1>3, <2>3 DEF Issues!Row
  <2>5. Issues!Move(c, i, stage, r)
    BY <2>2, <2>3, <2>4
  <2> QED BY <1>1, <1>2, <2>4, <2>5, MoveKeeps
<1> QED BY <1>4, <1>5, <1>6, <1>7

\* One issue is edited, with an entry for each column that changed.
LEMMA EditKeeps ==
  ASSUME IssueInv, NEW c \in Clients, NEW i \in Work, row[i] # None, NEW r \in Issues!Row, Issues!Edit(c, i, r) PROVE IssueInv'
<1>1. /\ Issues!Tx(c) /\ Issues!Free(i) /\ row' = [row EXCEPT ![i] = r] /\ Issues!RecordChanges(c, {i}, row, row')
      /\ Issues!End(c) /\ UNCHANGED <<counter, named, starts>>
  BY DEF Issues!Edit, Issues!Serves, Issues!Tx
<1>2. row' \in [Work -> Issues!Row \union {None}] /\ row'[i] = r /\ \A j \in Work \ {i} : row'[j] = row[j]
  BY <1>1 DEF IssueInv, IssueRowsInv
<1>3. {i} \in SUBSET Work
  OBVIOUS
<1>4. \A j \in {i} : row[j] = row[j] /\ row[j] # None /\ row'[j] \in Issues!Row
  BY <1>2
<1>5. IssueRowsInv' /\ DatesInv'
  BY <1>1, <1>2, <1>3, <1>4, RecordChangesMoves
<1> QED BY <1>1, <1>2, <1>5, SingleKeeps

\* An archived issue is the same, and its entry is about no column.
LEMMA ArchiveKeeps == ASSUME IssueInv, NEW i \in Work, Issues!Archive(i) PROVE IssueInv'
<1>1. row[i] # None /\ row[i] \in Issues!Row
  BY DEF Issues!Archive, Issues!Filed, IssueInv, IssueRowsInv
<1>2. PICK q \in Issues!Row : q = row[i]
  BY <1>1
<1>3. PICK r \in {[q EXCEPT !.stage = "archived"]} : TRUE
  OBVIOUS
<1>4. Issues!Free(i) /\ row' = [row EXCEPT ![i] = r] /\ UNCHANGED <<counter, told, latest, silent, named, tx, starts>>
  BY <1>2, <1>3 DEF Issues!Archive, IssueInv, IssueRowsInv
<1>5. r \in Issues!Row /\ \A f \in Issues!Logged : r[f] = q[f]
  BY <1>3 DEF Issues!Row, Issues!Logged
<1>6. row' \in [Work -> Issues!Row \union {None}] /\ row'[i] = r /\ \A j \in Work \ {i} : row'[j] = row[j]
  BY <1>4, <1>5 DEF IssueInv, IssueRowsInv
<1>7. \A j \in Work, f \in Issues!Logged : row'[j] # None => row[j] # None /\ row'[j][f] = row[j][f]
  BY <1>1, <1>2, <1>5, <1>6
<1>8. IssueRowsInv'
  BY <1>4, <1>6, <1>7 DEF IssueInv, IssueRowsInv
<1>9. DatesInv'
  BY <1>4, DatesStay DEF IssueInv
<1>10. LocksInv'
  <2>1. \A d \in Clients : \A j \in Issues!Held(d) : row'[j] = row[j]
    BY <1>4, <1>6, FreeRows, HeldRows
  <2> QED BY <1>4, <2>1, LocksStay DEF IssueInv, LocksInv
<1>11. NumbersInv'
  BY <1>4, NumbersStay DEF IssueInv
<1> QED BY <1>8, <1>9, <1>10, <1>11 DEF IssueInv

\* Requests about one issue wait for its row, and log what they change.
LEMMA SinglesKeep ==
  ASSUME IssueInv, NEW c \in Clients, NEW i \in Work,
         (\E p \in Patches : Issues!Update(c, i, p)) \/ (\E o \in Projects \union {None} : Issues!Place(c, i, o))
  PROVE  IssueInv'
<1>1. row[i] # None
  BY DEF Issues!Update, Issues!Place, Issues!Live, Issues!Filed
<1>2. row[i] \in Issues!Row
  BY <1>1 DEF IssueInv, IssueRowsInv
<1>3. ASSUME NEW p \in Patches, Issues!Update(c, i, p) PROVE IssueInv'
  BY <1>1, <1>2, <1>3, PatchedRows, EditKeeps DEF Issues!Update
<1>4. ASSUME NEW o \in Projects \union {None}, Issues!Place(c, i, o) PROVE IssueInv'
  <2>1. [row[i] EXCEPT !.project = o] \in Issues!Row
    BY <1>2 DEF Issues!Row
  <2> QED BY <1>1, <1>4, <2>1, EditKeeps DEF Issues!Place
<1> QED BY <1>3, <1>4

\* Every step on issues keeps the invariant.
LEMMA IssueStep == IssueInv /\ [Issues!IssueNext]_issueVars => IssueInv'
<1> SUFFICES ASSUME IssueInv, [Issues!IssueNext]_issueVars PROVE IssueInv'
  OBVIOUS
<1>1. ASSUME NEW c \in Clients, NEW t \in Teams, Issues!Allocate(c, t) PROVE IssueInv'
  BY <1>1, AllocateKeeps
<1>2. ASSUME NEW c \in Clients, NEW i \in Work, NEW a \in Members \union {None}, Issues!Create(c, i, a) PROVE IssueInv'
  BY <1>2, IssueCreateKeeps
<1>3. ASSUME NEW c \in Clients, NEW i \in Work, Issues!ChangeTeam(c, i) PROVE IssueInv'
  BY <1>3, ChangeTeamKeeps
<1>4. ASSUME NEW c \in Clients, NEW S \in Batches, Issues!Begin(c, S) PROVE IssueInv'
  BY <1>4, BulkBeginKeeps
<1>5. ASSUME NEW c \in Clients, NEW i \in Work, Issues!LockIssue(c, i) PROVE IssueInv'
  BY <1>5, LockIssueKeeps
<1>6. ASSUME NEW c \in Clients, NEW p \in Patches, Issues!UpdateMany(c, p) PROVE IssueInv'
  BY <1>6, UpdateManyKeeps
<1>7. ASSUME NEW c \in Clients, Issues!ArchiveMany(c) PROVE IssueInv'
  BY <1>7, ArchiveManyKeeps
<1>8. ASSUME NEW column \in {"assignee", "project"}, NEW S \in SUBSET Work, Issues!Clear(column, S) PROVE IssueInv'
  BY <1>8, ColumnClearKeeps
<1>9. ASSUME NEW c \in Clients, NEW i \in Work,
             Issues!Enter(c, i) \/ (\E s \in Issues!Categories : Issues!Accept(c, i, s)) \/ Issues!Decline(c, i) \/ Issues!Automate(c, i)
      PROVE  IssueInv'
  BY <1>9, TriageKeeps
<1>10. ASSUME NEW c \in Clients, NEW i \in Work,
              (\E p \in Patches : Issues!Update(c, i, p)) \/ (\E o \in Projects \union {None} : Issues!Place(c, i, o))
       PROVE  IssueInv'
  BY <1>10, SinglesKeep
<1>11. ASSUME NEW i \in Work, Issues!Archive(i) PROVE IssueInv'
  BY <1>11, ArchiveKeeps
<1>12. ASSUME NEW c \in Clients, Issues!Rollback(c) PROVE IssueInv'
  BY <1>12, SilentEnds DEF Issues!Rollback
<1>13. ASSUME NEW c \in Clients, NEW S \in SUBSET Work, Issues!Open(c, S) PROVE IssueInv'
  BY <1>13, OpenKeeps
<1>14. CASE UNCHANGED issueVars
  <2>1. UNCHANGED <<counter, row, told, latest, silent, named, tx, starts>>
    BY <1>14 DEF issueVars
  <2>2. LocksInv'
    BY <2>1, LocksStay DEF IssueInv, LocksInv
  <2>3. DatesInv'
    BY <2>1, DatesStay DEF IssueInv
  <2> QED BY <2>1, <2>2, <2>3 DEF IssueInv, IssueRowsInv, NumbersInv
<1>15. /\ \A c \in Clients : Issues!Open(c, {}) => IssueInv'
       /\ \A c \in Clients, i \in Work : Issues!Open(c, {i}) => IssueInv'
  BY <1>13
<1> QED BY <1>1, <1>2, <1>3, <1>4, <1>5, <1>6, <1>7, <1>8, <1>9, <1>10, <1>11, <1>12, <1>14, <1>15 DEF Issues!IssueNext

-----------------------------------------------------------------------------
(* The six of them, one to a behaviour.                                     *)

\* The invariant of whatever part moves.
ChangesInv ==
  /\ part = "health" => HealthInv
  /\ part = "documents" => DocumentInv /\ LockIsOnes
  /\ part = "templates" => EditsInv /\ FilingsInv
  /\ part = "deletions" => DeletionsInv
  /\ part = "releases" => ReleaseInv
  /\ part = "issues" => IssueInv

\* Every part begins in its invariant, and moves within it.
THEOREM ChangesInvHolds == Spec => []ChangesInv
<1>1. Init => ChangesInv
  BY HealthStart, DocumentStart, TemplateStart, DeletionStart, ReleaseStart, IssueStart DEF Init, ChangesInv
<1>2. ChangesInv /\ [Next]_vars => ChangesInv'
  <2> SUFFICES ASSUME ChangesInv, [Next]_vars PROVE ChangesInv'
    OBVIOUS
  <2>1. part' = part
    BY DEF Next, vars
  <2>2. ASSUME part = "health" PROVE HealthInv'
    <3>1. [Reporting!HealthNext]_healthVars
      BY <2>2 DEF Next, vars, healthVars
    <3> QED BY <2>2, <3>1, HealthStep DEF ChangesInv
  <2>3. ASSUME part = "documents" PROVE DocumentInv' /\ LockIsOnes'
    <3>1. [Editing!DocumentNext]_documentVars
      BY <2>3 DEF Next, vars, documentVars
    <3> QED BY <2>3, <3>1, DocumentStep DEF ChangesInv
  <2>4. ASSUME part = "templates" PROVE EditsInv' /\ FilingsInv'
    <3>1. [Shaping!TemplateNext]_templateVars
      BY <2>4 DEF Next, vars, templateVars
    <3> QED BY <2>4, <3>1, TemplateStep DEF ChangesInv
  <2>5. ASSUME part = "deletions" PROVE DeletionsInv'
    <3>1. [Deleting!DeletionNext]_deletionVars
      BY <2>5 DEF Next, vars, deletionVars
    <3> QED BY <2>5, <3>1, DeletionStep DEF ChangesInv
  <2>6. ASSUME part = "releases" PROVE ReleaseInv'
    <3>1. [Releasing!ReleaseNext]_releaseVars
      BY <2>6 DEF Next, vars, releaseVars
    <3> QED BY <2>6, <3>1, ReleaseStep DEF ChangesInv
  <2>7. ASSUME part = "issues" PROVE IssueInv'
    <3>1. [Issues!IssueNext]_issueVars
      BY <2>7 DEF Next, vars, issueVars
    <3> QED BY <2>7, <3>1, IssueStep DEF ChangesInv
  <2> QED BY <2>1, <2>2, <2>3, <2>4, <2>5, <2>6, <2>7 DEF ChangesInv
<1> QED BY <1>1, <1>2, PTL DEF Spec

\* A team's number names one issue for ever, and none is skipped.
THEOREM NumbersTheorem == Spec => []NumbersIdentify
<1>1. ChangesInv => NumbersIdentify
  BY IssueProperties DEF ChangesInv, NumbersIdentify
<1> QED BY <1>1, ChangesInvHolds, PTL

\* The newest entry of an issue's log tells what is in the column, but for what is cleared unlogged, and
\* where the entry written last is older: its transaction began first, and waited.
THEOREM LogTheorem == Spec => []TheLogTellsTheStory
<1>1. ChangesInv => TheLogTellsTheStory
  BY IssueProperties DEF ChangesInv, TheLogTellsTheStory
<1> QED BY <1>1, ChangesInvHolds, PTL

\* Bulk edits never wait for each other, deletions only for what was added since they began,
\* which is also all that refuses them.
THEOREM OrderTheorem == Spec => []RowsAreTakenInOrder
<1>1. ChangesInv => RowsAreTakenInOrder
  BY IssueProperties, DeletionProperties DEF ChangesInv, RowsAreTakenInOrder
<1> QED BY <1>1, ChangesInvHolds, PTL

\* No version of a document that should be in its history is lost; and a template, its schedule and
\* what is filed from it are of one draft.
THEOREM EditsTheorem == Spec => []EditsAreKeptWhole
<1>1. ChangesInv => EditsAreKeptWhole
  BY TemplateProperties DEF ChangesInv, EditsAreKeptWhole, DocumentInv
<1> QED BY <1>1, ChangesInvHolds, PTL

\* Work behind a commit that reached an environment was announced, or there is a reason why not.
THEOREM MissingWorkTheorem == Spec => []MissingWorkHasAReason
<1>1. ChangesInv => MissingWorkHasAReason
  BY ReleaseProperties DEF ChangesInv, MissingWorkHasAReason
<1> QED BY <1>1, ChangesInvHolds, PTL

\* A project's health is its newest report's, but for reports that overlap.
THEOREM HealthTheorem == Spec => []HealthFollowsTheLog
<1>1. ChangesInv => HealthFollowsTheLog
  BY DEF ChangesInv, HealthFollowsTheLog, HealthInv
<1> QED BY <1>1, ChangesInvHolds, PTL
=============================================================================
