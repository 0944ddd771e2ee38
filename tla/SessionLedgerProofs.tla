------------------------- MODULE SessionLedgerProofs -------------------------
(***************************************************************************)
(* Theorems of SessionLedger, for every number of processes, sessions,     *)
(* crossings and submissions, and every interleaving and crash of them.    *)
(***************************************************************************)
EXTENDS SessionLedger, FiniteSetTheorems, SequenceTheorems, TLAPS

\* A counting process that is busy works on a session of the table.
BusyHasSession ==
  \A p \in Counters : proc[p].pc # "idle" => proc[p].sess \in Sessions

ProcRecord == [pc   : {"idle", "ready", "recorded", "summed", "done"},
               sess : Sessions \cup {NoSession},
               net  : Int,
               view : Row \cup {NoRow}]

-----------------------------------------------------------------------------
(* The sums over the ledger *)

\* The net count over any part of the ledger is an integer: it is the
\* difference of the cardinalities of two finite sets of rows.
LEMMA NetUpToInt ==
  ASSUME ledger \in Seq(Event), NEW s \in Sessions, NEW n \in 0 .. Len(ledger)
  PROVE  NetUpTo(s, n) \in Int
<1> DEFINE Rows(d) == {i \in 1 .. n : ledger[i].sess = s /\ ledger[i].dir = d}
<1>1. n \in Nat
  OBVIOUS
<1>2. ASSUME NEW d PROVE Cardinality(Rows(d)) \in Nat
  <2>1. IsFiniteSet(1 .. n)
    BY <1>1, FS_Interval
  <2>2. IsFiniteSet(Rows(d))
    BY <2>1, FS_Subset
  <2>3. QED
    BY <2>2, FS_CardinalityType
<1>3. Cardinality(Rows(1)) \in Nat /\ Cardinality(Rows(-1)) \in Nat
  BY <1>2
<1>4. NetUpTo(s, n) = Cardinality(Rows(1)) - Cardinality(Rows(-1))
  BY DEF NetUpTo
<1> HIDE DEF Rows
<1>5. QED
  BY <1>3, <1>4

\* Appending a row does not change the sums over the rows before it.
LEMMA NetUpToAppend ==
  ASSUME ledger \in Seq(Event), NEW e \in Event, ledger' = Append(ledger, e),
         NEW s \in Sessions, NEW n \in 0 .. Len(ledger)
  PROVE  NetUpTo(s, n)' = NetUpTo(s, n)
<1>1. \A i \in 1 .. n : ledger'[i] = ledger[i]
  OBVIOUS
<1>2. ASSUME NEW d
      PROVE  {i \in 1 .. n : ledger'[i].sess = s /\ ledger'[i].dir = d}
               = {i \in 1 .. n : ledger[i].sess = s /\ ledger[i].dir = d}
  BY <1>1
<1>3. QED
  BY <1>2 DEF NetUpTo

\* So nothing that was once the count of a session is forgotten.
LEMMA PastCountsGrow ==
  ASSUME ledger \in Seq(Event), NEW e \in Event, ledger' = Append(ledger, e),
         NEW s \in Sessions
  PROVE  PastCounts(s) \subseteq PastCounts(s)'
<1>1. SUFFICES ASSUME NEW n \in 0 .. Len(ledger)
               PROVE  NetUpTo(s, n) \in PastCounts(s)'
  BY DEF PastCounts
<1>2. Len(ledger') = Len(ledger) + 1
  OBVIOUS
<1>3. n \in 0 .. Len(ledger')
  BY <1>2
<1>4. NetUpTo(s, n)' = NetUpTo(s, n)
  BY NetUpToAppend
<1>5. NetUpTo(s, n)' \in PastCounts(s)'
  BY <1>3 DEF PastCounts
<1>6. QED
  BY <1>4, <1>5

LEMMA NetCountIsPast ==
  ASSUME ledger \in Seq(Event), NEW s \in Sessions
  PROVE  NetCount(s) \in PastCounts(s) /\ NetCount(s) \in Int
<1>1. Len(ledger) \in 0 .. Len(ledger)
  OBVIOUS
<1>2. QED
  BY <1>1, NetUpToInt DEF NetCount, PastCounts

-----------------------------------------------------------------------------
(* Types *)

LEMMA StatusesNamed ==
  {"open", "counting", "paused", "degraded", "closed", "reconcile_required", "reconciled"}
    \subseteq Statuses
BY DEF Statuses, Active

\* Writing a column or two of a row leaves a table of rows.
LEMMA StatusWritten ==
  ASSUME session \in [Sessions -> Row], NEW s \in Sessions, NEW status \in Statuses
  PROVE  [session EXCEPT ![s].status = status] \in [Sessions -> Row]
<1>1. session[s] \in Row
  OBVIOUS
<1>2. [session[s] EXCEPT !.status = status] \in Row
  BY <1>1 DEF Row
<1>3. [session EXCEPT ![s].status = status]
        = [session EXCEPT ![s] = [session[s] EXCEPT !.status = status]]
  OBVIOUS
<1>4. QED
  BY <1>2, <1>3

LEMMA TotalWritten ==
  ASSUME session \in [Sessions -> Row], NEW s \in Sessions, NEW total \in Int
  PROVE  [session EXCEPT ![s].total = total] \in [Sessions -> Row]
<1>1. session[s] \in Row
  OBVIOUS
<1>2. [session[s] EXCEPT !.total = total] \in Row
  BY <1>1 DEF Row
<1>3. [session EXCEPT ![s].total = total]
        = [session EXCEPT ![s] = [session[s] EXCEPT !.total = total]]
  OBVIOUS
<1>4. QED
  BY <1>2, <1>3

LEMMA StatusAndTotalWritten ==
  ASSUME session \in [Sessions -> Row], NEW s \in Sessions,
         NEW status \in Statuses, NEW total \in Int
  PROVE  [session EXCEPT ![s].status = status, ![s].total = total] \in [Sessions -> Row]
<1> DEFINE once == [session EXCEPT ![s].status = status]
<1>1. once \in [Sessions -> Row]
  BY StatusWritten
<1>2. once[s] \in Row
  BY <1>1
<1>3. [session EXCEPT ![s].status = status, ![s].total = total]
        = [once EXCEPT ![s] = [once[s] EXCEPT !.total = total]]
  OBVIOUS
<1> HIDE DEF once
<1>4. [once[s] EXCEPT !.total = total] \in Row
  BY <1>2 DEF Row
<1>5. QED
  BY <1>1, <1>3, <1>4

LEMMA InitTypeOK == Init => TypeOK /\ BusyHasSession
<1> SUFFICES ASSUME Init PROVE TypeOK /\ BusyHasSession
  OBVIOUS
<1>1. Idle \in ProcRecord /\ Idle.pc = "idle"
  BY DEF Idle, ProcRecord, NoSession
<1>2. proc \in [Counters -> ProcRecord]
  BY <1>1 DEF Init
<1>3. session \in [Sessions -> Row]
  BY DEF Init, Row, Statuses, Active
<1>4. ledger \in Seq(Event) /\ outbox = <<>> /\ recs = <<>>
  BY DEF Init
<1>5. opener \in [Operators -> {"idle", "checked"}] /\ decided \in [Sessions -> SUBSET Int]
  BY DEF Init
<1>6. BusyHasSession
  BY <1>1 DEF Init, BusyHasSession
<1>7. QED
  BY <1>2, <1>3, <1>4, <1>5, <1>6 DEF TypeOK, ProcRecord

\* The row a busy process works with is a row.
LEMMA ViewIsRow ==
  ASSUME TypeOK, BusyHasSession, NEW p \in Counters, proc[p].pc # "idle"
  PROVE  View(p) \in Row /\ proc[p].sess \in Sessions
BY DEF TypeOK, BusyHasSession, View

\* A step of an operator keeps the types.
LEMMA OperatorTypeOK ==
  ASSUME TypeOK, BusyHasSession, Operator
  PROVE  TypeOK' /\ BusyHasSession'
<1>1. CASE \E o \in Operators : OpenCheck(o)
  BY <1>1 DEF TypeOK, BusyHasSession, OpenCheck
<1>2. CASE \E o \in Operators : OpenInsert(o)
  <2>1. PICK o \in Operators : OpenInsert(o)
    BY <1>2
  <2>2. PICK s \in Sessions : session' = [session EXCEPT ![s].status = "open"]
    BY <2>1 DEF OpenInsert
  <2>2a. session' \in [Sessions -> Row]
    BY <2>2, StatusWritten, StatusesNamed DEF TypeOK
  <2>3. opener' \in [Operators -> {"idle", "checked"}]
    BY <2>1 DEF TypeOK, OpenInsert
  <2>4. UNCHANGED <<ledger, proc, outbox, recs, decided>>
    BY <2>1 DEF OpenInsert
  <2>5. QED
    BY <2>2a, <2>3, <2>4 DEF TypeOK, BusyHasSession
<1>3. CASE \E s \in Sessions : PauseSession(s) \/ ResumeSession(s)
  <2>1. PICK s \in Sessions : PauseSession(s) \/ ResumeSession(s)
    BY <1>3
  <2>2. PICK status \in Statuses : session' = [session EXCEPT ![s].status = status]
    BY <2>1 DEF PauseSession, ResumeSession, Statuses, Active
  <2>3. session' \in [Sessions -> Row]
    BY <2>2, StatusWritten DEF TypeOK
  <2>4. UNCHANGED <<ledger, proc, opener, outbox, recs, decided>>
    BY <2>1 DEF PauseSession, ResumeSession
  <2>5. QED
    BY <2>3, <2>4 DEF TypeOK, BusyHasSession
<1>4. CASE \E s \in Sessions : CloseSession(s)
  <2>1. PICK s \in Sessions : CloseSession(s)
    BY <1>4
  <2>2. NetCount(s) \in Int
    BY NetCountIsPast DEF TypeOK
  <2>3. session' \in [Sessions -> Row]
    BY <2>1, <2>2 DEF TypeOK, CloseSession, Row, Statuses, Active
  <2>4. UNCHANGED <<ledger, proc, opener, outbox, recs, decided>>
    BY <2>1 DEF CloseSession
  <2>5. QED
    BY <2>3, <2>4 DEF TypeOK, BusyHasSession
<1>5. CASE \E s \in Sessions : SubmitSession(s)
  <2>1. PICK s \in Sessions : SubmitSession(s)
    BY <1>5
  <2>2. [sess |-> s, count |-> session[s].total, escalated |-> FALSE]
          \in [sess : Sessions, count : Int, escalated : BOOLEAN]
    BY DEF TypeOK, Row
  <2>3. outbox' \in Seq([sess : Sessions, count : Int, escalated : BOOLEAN])
    BY <2>1, <2>2 DEF TypeOK, SubmitSession
  <2>4. UNCHANGED <<session, ledger, proc, opener, recs, decided>>
    BY <2>1 DEF SubmitSession
  <2>5. QED
    BY <2>3, <2>4 DEF TypeOK, BusyHasSession
<1>6. QED
  BY <1>1, <1>2, <1>3, <1>4, <1>5 DEF Operator

\* A step of a counting process keeps the types.
LEMMA CountTypeOK ==
  ASSUME TypeOK, BusyHasSession, NEW p \in Counters, Count(p)
  PROVE  TypeOK' /\ BusyHasSession'
<1>0. proc \in [Counters -> ProcRecord] /\ Idle \in ProcRecord
  BY DEF TypeOK, ProcRecord, Idle, NoSession
<1>a. ASSUME NEW row \in Row PROVE Kept(p, row) \in Row \cup {NoRow}
  BY DEF Kept
\* It is enough to look at the row, the process and the ledger.
<1>b. ASSUME session' \in [Sessions -> Row], ledger' \in Seq(Event),
             NEW q \in ProcRecord, proc' = [proc EXCEPT ![p] = q],
             q.pc # "idle" => q.sess \in Sessions,
             UNCHANGED <<opener, outbox, recs, decided>>
      PROVE  TypeOK' /\ BusyHasSession'
  <2>1. proc' \in [Counters -> ProcRecord]
    BY <1>0, <1>b
  <2>2. BusyHasSession'
    BY <1>0, <1>b DEF BusyHasSession
  <2>3. QED
    BY <1>b, <2>1, <2>2 DEF TypeOK, ProcRecord
<1>1. CASE BeginBatch(p)
  <2>1. PICK s \in Sessions : proc' = [proc EXCEPT ![p] =
            [pc |-> "ready", sess |-> s, net |-> 0, view |-> Kept(p, session[s])]]
    BY <1>1 DEF BeginBatch
  <2>2. [pc |-> "ready", sess |-> s, net |-> 0, view |-> Kept(p, session[s])] \in ProcRecord
    BY <1>a DEF TypeOK, ProcRecord
  <2>3. QED
    BY <1>1, <1>b, <2>1, <2>2 DEF TypeOK, BeginBatch
<1>2. CASE BeginSimulation(p)
  <2> DEFINE Status(s) == IF session[s].status \in {"open", "counting"}
                            THEN session[s].status ELSE "counting"
             Begun(s)  == [pc |-> "ready", sess |-> s, net |-> 0,
                           view |-> [session[s] EXCEPT !.status = Status(s)]]
  <2>1. PICK s \in Sessions : /\ session' = [session EXCEPT ![s].status = Status(s)]
                              /\ proc' = [proc EXCEPT ![p] = Begun(s)]
    BY <1>2 DEF BeginSimulation
  <2>2. Status(s) \in Statuses
    BY DEF Statuses, Active
  <2>3. session[s] \in Row
    BY DEF TypeOK
  <2> HIDE DEF Status
  <2>4. [session[s] EXCEPT !.status = Status(s)] \in Row
    BY <2>2, <2>3 DEF Row
  <2>5. Begun(s) \in ProcRecord /\ Begun(s).sess = s
    BY <2>4 DEF ProcRecord
  <2>6. session' \in [Sessions -> Row]
    BY <2>1, <2>4 DEF TypeOK
  <2> HIDE DEF Begun
  <2>7. QED
    BY <1>2, <1>b, <2>1, <2>5, <2>6 DEF TypeOK, BeginSimulation
<1>3. CASE EndBatch(p) \/ EndSimulation(p) \/ Crash(p)
  BY <1>0, <1>3, <1>b DEF TypeOK, EndBatch, EndSimulation, Crash, Idle
<1>4. CASE \E k \in Keys : RecordDuplicate(p, k)
  <2> DEFINE q == [proc[p] EXCEPT !.pc = After(p), !.view = NoRow]
  <2>1. proc' = [proc EXCEPT ![p] = q]
    BY <1>0, <1>4 DEF RecordDuplicate
  <2>2. q \in ProcRecord /\ q.sess = proc[p].sess
    BY <1>0 DEF ProcRecord, After
  <2>3. proc[p].sess \in Sessions
    BY <1>4 DEF RecordDuplicate, BusyHasSession
  <2> HIDE DEF q
  <2>4. QED
    BY <1>4, <1>b, <2>1, <2>2, <2>3 DEF TypeOK, RecordDuplicate
<1>5. CASE \E k \in Keys, d \in Directions : RecordEvent(p, k, d)
  <2>1. PICK k \in Keys, d \in Directions : RecordEvent(p, k, d)
    BY <1>5
  <2> DEFINE q == [proc[p] EXCEPT !.pc = "recorded"]
  <2>2. proc[p].sess \in Sessions
    BY <2>1 DEF RecordEvent, BusyHasSession
  <2>3. ledger' \in Seq(Event)
    BY <2>1, <2>2 DEF TypeOK, RecordEvent, Event
  <2>4. proc' = [proc EXCEPT ![p] = q]
    BY <1>0, <2>1 DEF RecordEvent
  <2>5. q \in ProcRecord /\ q.sess = proc[p].sess
    BY <1>0 DEF ProcRecord
  <2> HIDE DEF q
  <2>6. QED
    BY <1>b, <2>1, <2>2, <2>3, <2>4, <2>5 DEF TypeOK, RecordEvent
<1>6. CASE SumLedger(p)
  <2> DEFINE q == [proc[p] EXCEPT !.pc = "summed", !.net = NetCount(proc[p].sess)]
  <2>1. proc[p].sess \in Sessions
    BY <1>6 DEF SumLedger, BusyHasSession
  <2>2. NetCount(proc[p].sess) \in Int
    BY <2>1, NetCountIsPast DEF TypeOK
  <2>3. proc' = [proc EXCEPT ![p] = q]
    BY <1>0, <1>6 DEF SumLedger
  <2>4. q \in ProcRecord /\ q.sess = proc[p].sess
    BY <1>0, <2>2 DEF ProcRecord
  <2> HIDE DEF q
  <2>5. QED
    BY <1>6, <1>b, <2>1, <2>3, <2>4 DEF TypeOK, SumLedger
<1>7. CASE UpdateCountedTotal(p)
  <2> DEFINE s     == proc[p].sess
             total == Flushed(View(p).total, proc[p].net, session[s].total)
             q     == [proc[p] EXCEPT !.pc = After(p),
                          !.view = Kept(p, [View(p) EXCEPT !.total = proc[p].net])]
  <2>1. View(p) \in Row /\ s \in Sessions
    BY <1>7, ViewIsRow DEF UpdateCountedTotal
  <2>2. proc[p].net \in Int
    BY <1>0 DEF ProcRecord
  <2>3. total \in Int
    BY <2>1, <2>2 DEF TypeOK, Row, Flushed
  <2>4. session' = [session EXCEPT ![s].total = total]
    BY <1>7 DEF UpdateCountedTotal
  <2>5. session' \in [Sessions -> Row]
    BY <2>1, <2>3, <2>4, TotalWritten DEF TypeOK
  <2>6. [View(p) EXCEPT !.total = proc[p].net] \in Row
    BY <2>1, <2>2 DEF Row
  <2>7. proc' = [proc EXCEPT ![p] = q]
    BY <1>0, <1>7 DEF UpdateCountedTotal
  <2>8. q \in ProcRecord /\ q.sess = s
    BY <1>0, <1>a, <2>6 DEF ProcRecord, After
  <2> HIDE DEF q
  <2>9. QED
    BY <1>7, <1>b, <2>1, <2>5, <2>7, <2>8 DEF TypeOK, UpdateCountedTotal
<1>8. CASE UpdateAreaEstimate(p)
  <2> DEFINE q == [proc[p] EXCEPT !.view = session[proc[p].sess]]
  <2>1. proc[p].sess \in Sessions
    BY <1>8 DEF UpdateAreaEstimate, BusyHasSession
  <2>2. proc' = [proc EXCEPT ![p] = q]
    BY <1>0, <1>8 DEF UpdateAreaEstimate
  <2>3. q \in ProcRecord /\ q.sess = proc[p].sess
    BY <1>0, <2>1 DEF TypeOK, ProcRecord
  <2> HIDE DEF q
  <2>4. QED
    BY <1>8, <1>b, <2>1, <2>2, <2>3 DEF TypeOK, UpdateAreaEstimate
<1>9. CASE MarkDegraded(p)
  <2> DEFINE s   == proc[p].sess
             row == [session[s] EXCEPT !.status = "degraded"]
             q   == [proc[p] EXCEPT !.view = row]
  <2>1. s \in Sessions
    BY <1>9 DEF MarkDegraded, BusyHasSession
  <2>1a. session[s] \in Row
    BY <2>1 DEF TypeOK
  <2>2. row \in Row
    BY <2>1a, StatusesNamed DEF Row
  <2>3. session' = [session EXCEPT ![s] = row]
    BY <1>9 DEF MarkDegraded
  <2>4. proc' = [proc EXCEPT ![p] = q]
    BY <1>0, <1>9 DEF MarkDegraded
  <2> HIDE DEF row
  <2>5. q \in ProcRecord /\ q.sess = s
    BY <1>0, <2>2 DEF ProcRecord
  <2>6. session' \in [Sessions -> Row]
    BY <2>1, <2>2, <2>3 DEF TypeOK
  <2> HIDE DEF q
  <2>7. QED
    BY <1>9, <1>b, <2>1, <2>4, <2>5, <2>6 DEF TypeOK, MarkDegraded
<1>10. CASE FlagDiscrepancy(p)
  <2> DEFINE s    == proc[p].sess
             flag == Flushed(View(p).flagged, TRUE, session[s].flagged)
             stat == Flushed(View(p).status, "reconcile_required", session[s].status)
             row  == [session[s] EXCEPT !.flagged = flag, !.status = stat]
             q    == [proc[p] EXCEPT !.view = Kept(p, row)]
  <2>1. s \in Sessions
    BY <1>10 DEF FlagDiscrepancy, BusyHasSession
  <2>2. session[s] \in Row
    BY <2>1 DEF TypeOK
  <2>3. flag \in BOOLEAN /\ stat \in Statuses
    BY <2>2 DEF Row, Flushed, Statuses
  <2>4. session' = [session EXCEPT ![s] = row]
    BY <1>10 DEF FlagDiscrepancy
  <2>5. proc' = [proc EXCEPT ![p] = q]
    BY <1>0, <1>10 DEF FlagDiscrepancy
  <2> HIDE DEF flag, stat
  <2>6. row \in Row
    BY <2>2, <2>3 DEF Row
  <2> HIDE DEF row
  <2>7. q \in ProcRecord /\ q.sess = s
    BY <1>0, <1>a, <2>6 DEF ProcRecord
  <2>8. session' \in [Sessions -> Row]
    BY <2>1, <2>4, <2>6 DEF TypeOK
  <2> HIDE DEF q
  <2>9. QED
    BY <1>10, <1>b, <2>1, <2>5, <2>7, <2>8 DEF TypeOK, FlagDiscrepancy
<1>11. QED
  BY <1>1, <1>2, <1>3, <1>4, <1>5, <1>6, <1>7, <1>8, <1>9, <1>10 DEF Count

\* A step of the relay or of the reviewing engineer keeps the types.
LEMMA ReviewTypeOK ==
  ASSUME TypeOK, BusyHasSession, Review
  PROVE  TypeOK' /\ BusyHasSession'
<1> DEFINE Entry == [sess : Sessions, count : Int, escalated : BOOLEAN]
           Case  == [sess : Sessions, resolution :
                       {"none", "accept_system", "manual_override", "void_session"}]
<1>0. outbox \in Seq(Entry) /\ recs \in Seq(Case) /\ session \in [Sessions -> Row]
        /\ decided \in [Sessions -> SUBSET Int]
  BY DEF TypeOK
<1>a. UNCHANGED <<ledger, proc, opener>>
  BY DEF Review, CreateReconciliation, ResolveReconciliation
<1>b. ASSUME session' \in [Sessions -> Row], outbox' \in Seq(Entry), recs' \in Seq(Case),
             decided' \in [Sessions -> SUBSET Int]
      PROVE  TypeOK' /\ BusyHasSession'
  BY <1>a, <1>b DEF TypeOK, BusyHasSession
<1>1. ASSUME NEW i \in 1 .. MaxOutbox, CreateReconciliation(i)
      PROVE  TypeOK' /\ BusyHasSession'
  <2>1. i \in DOMAIN outbox /\ outbox[i] \in Entry /\ outbox[i].sess \in Sessions
    <3>1. i \in DOMAIN outbox
      BY <1>1 DEF CreateReconciliation
    <3>2. i \in 1 .. Len(outbox) /\ outbox[i] \in Entry
      <4> HIDE DEF Entry
      <4>1. QED
        BY <1>0, <3>1, ElementOfSeq
    <3>3. QED
      BY <3>1, <3>2
  <2>2. [outbox[i] EXCEPT !.escalated = TRUE] \in Entry
    BY <2>1
  <2>3. outbox' = [outbox EXCEPT ![i] = [outbox[i] EXCEPT !.escalated = TRUE]]
    BY <1>1 DEF CreateReconciliation
  <2>4. outbox' \in Seq(Entry)
    <3> HIDE DEF Entry
    <3>1. QED
      BY <1>0, <2>1, <2>2, <2>3, ElementOfSeq, ExceptSeq
  <2>5. [sess |-> outbox[i].sess, resolution |-> "none"] \in Case
    BY <2>1
  <2>6. recs' \in Seq(Case)
    BY <1>0, <1>1, <2>5 DEF CreateReconciliation
  <2>7. session' \in [Sessions -> Row]
    BY <1>0, <1>1, <2>1, StatusWritten, StatusesNamed DEF CreateReconciliation
  <2>8. QED
    BY <1>0, <1>1, <1>b, <2>4, <2>6, <2>7 DEF CreateReconciliation
<1>2. ASSUME NEW r \in 1 .. MaxOutbox, ResolveReconciliation(r)
      PROVE  TypeOK' /\ BusyHasSession'
  <2> DEFINE s == recs[r].sess
  <2>1. r \in DOMAIN recs /\ recs[r] \in Case /\ s \in Sessions
    <3>1. r \in DOMAIN recs
      BY <1>2 DEF ResolveReconciliation
    <3>2. r \in 1 .. Len(recs) /\ recs[r] \in Case
      <4> HIDE DEF Case
      <4>1. QED
        BY <1>0, <3>1, ElementOfSeq
    <3>3. QED
      BY <3>1, <3>2
  <2>2. PICK resolution \in {"accept_system", "manual_override", "void_session"} :
          recs' = [recs EXCEPT ![r].resolution = resolution]
    BY <1>2 DEF ResolveReconciliation
  <2>3. [recs[r] EXCEPT !.resolution = resolution] \in Case
    BY <2>1
  <2>4. recs' = [recs EXCEPT ![r] = [recs[r] EXCEPT !.resolution = resolution]]
    BY <2>2
  <2>5. recs' \in Seq(Case)
    <3> HIDE DEF Case
    <3>1. QED
      BY <1>0, <2>1, <2>3, <2>4, ExceptSeq
  <2>6. session' \in [Sessions -> Row]
    <3>1. CASE session' = [session EXCEPT ![s].status = "reconciled"]
      BY <1>0, <2>1, <3>1, StatusWritten, StatusesNamed
    <3>2. CASE \E count \in Overrides :
                 session' = [session EXCEPT ![s].status = "reconciled", ![s].total = count]
      <4>1. PICK count \in Overrides :
                 session' = [session EXCEPT ![s].status = "reconciled", ![s].total = count]
        BY <3>2
      <4>2. count \in Int /\ "reconciled" \in Statuses
        BY OverridesAssumption, StatusesNamed
      <4>3. QED
        BY <1>0, <2>1, <4>1, <4>2, StatusAndTotalWritten
    <3>3. CASE session' = [session EXCEPT ![s].status = "closed", ![s].total = 0]
      <4>1. 0 \in Int /\ "closed" \in Statuses
        BY StatusesNamed
      <4>2. QED
        BY <1>0, <2>1, <3>3, <4>1, StatusAndTotalWritten
    <3>4. QED
      BY <1>2, <3>1, <3>2, <3>3 DEF ResolveReconciliation
  <2>7. decided' \in [Sessions -> SUBSET Int]
    <3>1. CASE decided' = decided
      BY <1>0, <3>1
    <3>2. CASE \E count \in Overrides \cup {0} :
                 decided' = [decided EXCEPT ![s] = @ \cup {count}]
      BY <1>0, <2>1, <3>2, OverridesAssumption
    <3>3. QED
      BY <1>2, <3>1, <3>2 DEF ResolveReconciliation
  <2>8. outbox' = outbox
    BY <1>2 DEF ResolveReconciliation
  <2>9. QED
    BY <1>0, <1>b, <2>5, <2>6, <2>7, <2>8
<1>3. QED
  BY <1>1, <1>2 DEF Review

-----------------------------------------------------------------------------
(* The ledger and the totals *)

\* What a handler read as the sum was the sum at some moment.
SumWasOnceTrue ==
  \A p \in Counters : proc[p].pc = "summed" => proc[p].net \in Known(proc[p].sess)

IInv ==
  /\ TypeOK /\ BusyHasSession
  /\ UniqueCrossing
  /\ SumWasOnceTrue /\ TotalWasOnceTrue /\ SubmittedWasOnceTrue

\* The ledger is append-only, and every append passed the unique constraint.
LEMMA LedgerStep ==
  ASSUME TypeOK, BusyHasSession, [Next]_vars
  PROVE  \/ ledger' = ledger
         \/ \E e \in Event : /\ ledger' = Append(ledger, e)
                             /\ ~ Recorded(e.sess, e.key)
                             /\ decided' = decided
<1>1. ASSUME NEW p \in Counters, NEW k \in Keys, NEW d \in Directions, RecordEvent(p, k, d)
      PROVE  \E e \in Event : /\ ledger' = Append(ledger, e)
                              /\ ~ Recorded(e.sess, e.key)
                              /\ decided' = decided
  <2> DEFINE e == [sess |-> proc[p].sess, key |-> k, dir |-> d]
  <2>1. e \in Event
    BY <1>1 DEF RecordEvent, BusyHasSession, Event
  <2>2. ledger' = Append(ledger, e) /\ ~ Recorded(e.sess, e.key) /\ decided' = decided
    BY <1>1 DEF RecordEvent
  <2> HIDE DEF e
  <2>3. QED
    BY <2>1, <2>2
<1>2. CASE Operator
  BY <1>2 DEF Operator, OpenCheck, OpenInsert, PauseSession, ResumeSession, CloseSession,
              SubmitSession
<1>3. CASE Review
  BY <1>3 DEF Review, CreateReconciliation, ResolveReconciliation
<1>4. ASSUME NEW p \in Counters, Count(p),
             ~ \E k \in Keys, d \in Directions : RecordEvent(p, k, d)
      PROVE  ledger' = ledger
  BY <1>4 DEF Count, BeginBatch, BeginSimulation, EndBatch, EndSimulation, RecordDuplicate,
              SumLedger, UpdateCountedTotal, UpdateAreaEstimate, MarkDegraded,
              FlagDiscrepancy, Crash
<1>5. CASE UNCHANGED vars
  BY <1>5 DEF vars
<1>6. QED
  BY <1>1, <1>2, <1>3, <1>4, <1>5 DEF Next

LEMMA UniqueCrossingStep ==
  ASSUME TypeOK, BusyHasSession, UniqueCrossing, [Next]_vars
  PROVE  UniqueCrossing'
<1>1. CASE ledger' = ledger
  BY <1>1 DEF UniqueCrossing
<1>2. ASSUME NEW e \in Event, ledger' = Append(ledger, e), ~ Recorded(e.sess, e.key)
      PROVE  UniqueCrossing'
  <2> SUFFICES ASSUME NEW i \in DOMAIN ledger', NEW j \in DOMAIN ledger',
                      ledger'[i].sess = ledger'[j].sess, ledger'[i].key = ledger'[j].key
               PROVE  i = j
    BY DEF UniqueCrossing
  <2>0. ledger \in Seq(Event)
    BY DEF TypeOK
  <2>1. Len(ledger') = Len(ledger) + 1 /\ ledger'[Len(ledger) + 1] = e
          /\ \A n \in 1 .. Len(ledger) : ledger'[n] = ledger[n]
    BY <1>2, <2>0
  <2>2. \A n \in 1 .. Len(ledger) : ~ (ledger[n].sess = e.sess /\ ledger[n].key = e.key)
    BY <1>2, <2>0 DEF Recorded
  <2>3. i \in 1 .. Len(ledger) + 1 /\ j \in 1 .. Len(ledger) + 1
    BY <1>2, <2>0
  <2>4. Len(ledger) \in Nat
    BY <2>0
  <2>5. CASE i = Len(ledger) + 1 /\ j # Len(ledger) + 1
    BY <2>1, <2>2, <2>3, <2>4, <2>5
  <2>6. CASE j = Len(ledger) + 1 /\ i # Len(ledger) + 1
    BY <2>1, <2>2, <2>3, <2>4, <2>6
  <2>7. CASE i # Len(ledger) + 1 /\ j # Len(ledger) + 1
    <3>1. i \in DOMAIN ledger /\ j \in DOMAIN ledger
      BY <2>0, <2>3, <2>4, <2>7
    <3>2. QED
      BY <2>0, <2>1, <3>1 DEF UniqueCrossing
  <2>8. QED
    BY <2>5, <2>6, <2>7
<1>3. QED
  BY <1>1, <1>2, LedgerStep

\* A decision is never forgotten.
LEMMA DecidedGrows ==
  ASSUME TypeOK, [Next]_vars, NEW s \in Sessions
  PROVE  decided[s] \subseteq decided'[s]
<1>1. CASE Operator
  BY <1>1 DEF Operator, OpenCheck, OpenInsert, PauseSession, ResumeSession, CloseSession,
              SubmitSession
<1>2. CASE \E p \in Counters : Count(p)
  BY <1>2 DEF Count, BeginBatch, BeginSimulation, EndBatch, EndSimulation, RecordEvent,
              RecordDuplicate, SumLedger, UpdateCountedTotal, UpdateAreaEstimate,
              MarkDegraded, FlagDiscrepancy, Crash
<1>3. CASE \E i \in 1 .. MaxOutbox : CreateReconciliation(i)
  BY <1>3 DEF CreateReconciliation
<1>4. CASE \E r \in 1 .. MaxOutbox : ResolveReconciliation(r)
  <2>1. PICK r \in 1 .. MaxOutbox : ResolveReconciliation(r)
    BY <1>4
  <2>2. \/ decided' = decided
        \/ \E count : decided' = [decided EXCEPT ![recs[r].sess] = @ \cup {count}]
    BY <2>1 DEF ResolveReconciliation
  <2>3. decided \in [Sessions -> SUBSET Int]
    BY DEF TypeOK
  <2>4. QED
    BY <2>2, <2>3
<1>5. CASE UNCHANGED vars
  BY <1>5 DEF vars
<1>6. QED
  BY <1>1, <1>2, <1>3, <1>4, <1>5 DEF Next, Review

\* What was known of a session stays known: the ledger and the decisions only grow.
LEMMA KnownGrows ==
  ASSUME TypeOK, BusyHasSession, [Next]_vars, NEW s \in Sessions
  PROVE  Known(s) \subseteq Known(s)'
<1>1. decided[s] \subseteq decided'[s]
  BY DecidedGrows
<1>2. PastCounts(s) \subseteq PastCounts(s)'
  <2>1. CASE ledger' = ledger
    BY <2>1 DEF PastCounts, NetUpTo
  <2>2. ASSUME NEW e \in Event, ledger' = Append(ledger, e)
        PROVE  PastCounts(s) \subseteq PastCounts(s)'
    BY <2>2, PastCountsGrow DEF TypeOK
  <2>3. QED
    BY <2>1, <2>2, LedgerStep
<1>3. QED
  BY <1>1, <1>2 DEF Known

\* Writing a total one knows of: what a flush leaves in the row is the new total
\* or the stored one.
LEMMA FlushedTotal ==
  ASSUME NEW loaded, NEW new, NEW stored
  PROVE  Flushed(loaded, new, stored) \in {new, stored}
BY DEF Flushed

\* Only one step of a counting process writes a total.
LEMMA CountKeepsTotals ==
  ASSUME TypeOK, BusyHasSession, NEW p \in Counters, Count(p), ~ UpdateCountedTotal(p),
         NEW s \in Sessions
  PROVE  session'[s].total = session[s].total
<1>0. session \in [Sessions -> Row] /\ session[s] \in Row
  BY DEF TypeOK
<1>a. ASSUME session' = session PROVE session'[s].total = session[s].total
  BY <1>a
\* The actions that write other columns only.
<1>b. ASSUME NEW q \in Sessions, NEW status, session' = [session EXCEPT ![q].status = status]
      PROVE  session'[s].total = session[s].total
  BY <1>0, <1>b DEF Row
<1>c. ASSUME NEW q \in Sessions, NEW row,
             session' = [session EXCEPT ![q] = row], row.total = session[q].total
      PROVE  session'[s].total = session[s].total
  BY <1>0, <1>c DEF Row
<1>1. CASE BeginSimulation(p)
  BY <1>1, <1>b DEF BeginSimulation
<1>3. CASE MarkDegraded(p)
  <2>1. session[proc[p].sess] \in Row /\ proc[p].sess \in Sessions
    BY <1>3 DEF MarkDegraded, BusyHasSession, TypeOK
  <2>2. [session[proc[p].sess] EXCEPT !.status = "degraded"].total
          = session[proc[p].sess].total
    BY <2>1 DEF Row
  <2>3. QED
    BY <1>3, <1>c, <2>1, <2>2 DEF MarkDegraded
<1>4. CASE FlagDiscrepancy(p)
  <2> DEFINE q    == proc[p].sess
             flag == Flushed(View(p).flagged, TRUE, session[q].flagged)
             stat == Flushed(View(p).status, "reconcile_required", session[q].status)
             row  == [session[q] EXCEPT !.flagged = flag, !.status = stat]
  <2>1. q \in Sessions /\ session[q] \in Row
    BY <1>4 DEF FlagDiscrepancy, BusyHasSession, TypeOK
  <2>2. session' = [session EXCEPT ![q] = row]
    BY <1>4 DEF FlagDiscrepancy
  <2> HIDE DEF flag, stat
  <2>3. row.total = session[q].total
    BY <2>1 DEF Row
  <2> HIDE DEF row
  <2>4. QED
    BY <1>c, <2>1, <2>2, <2>3
<1>5. ASSUME ~ BeginSimulation(p), ~ MarkDegraded(p), ~ FlagDiscrepancy(p)
      PROVE  session' = session
  BY <1>5 DEF Count, BeginBatch, EndBatch, EndSimulation, RecordEvent, RecordDuplicate,
              SumLedger, UpdateAreaEstimate, Crash
<1>6. QED
  BY <1>1, <1>3, <1>4, <1>5, <1>a

\* That one writes the sum it read before to its session.
LEMMA UpdateWritesTotal ==
  ASSUME TypeOK, BusyHasSession, SumWasOnceTrue, NEW p \in Counters, UpdateCountedTotal(p)
  PROVE  /\ proc[p].sess \in Sessions
         /\ session'[proc[p].sess].total \in {session[proc[p].sess].total} \cup Known(proc[p].sess)
         /\ \A s \in Sessions \ {proc[p].sess} : session'[s].total = session[s].total
<1> DEFINE q     == proc[p].sess
           total == Flushed(View(p).total, proc[p].net, session[q].total)
<1>0. session \in [Sessions -> Row]
  BY DEF TypeOK
<1>1. q \in Sessions /\ proc[p].net \in Known(q)
  BY DEF UpdateCountedTotal, BusyHasSession, SumWasOnceTrue
<1>2. session' = [session EXCEPT ![q].total = total]
  BY DEF UpdateCountedTotal
<1>3. total \in {session[q].total} \cup Known(q)
  BY <1>1, FlushedTotal
<1> HIDE DEF total
<1>4. session'[q].total = total
  BY <1>0, <1>1, <1>2 DEF Row
<1>5. \A s \in Sessions \ {q} : session'[s].total = session[s].total
  BY <1>0, <1>2
<1> QED
  BY <1>1, <1>3, <1>4, <1>5

LEMMA CountTotals ==
  ASSUME TypeOK, BusyHasSession, SumWasOnceTrue, NEW p \in Counters, Count(p),
         NEW s \in Sessions
  PROVE  session'[s].total \in {session[s].total} \cup Known(s)
<1>1. CASE UpdateCountedTotal(p)
  BY <1>1, UpdateWritesTotal
<1>2. CASE ~ UpdateCountedTotal(p)
  BY <1>2, CountKeepsTotals
<1> QED
  BY <1>1, <1>2

\* Of the operators' requests only close writes a total.
LEMMA OperatorKeepsTotals ==
  ASSUME TypeOK, Operator, \A q \in Sessions : ~ CloseSession(q), NEW s \in Sessions
  PROVE  session'[s].total = session[s].total
<1>0. session \in [Sessions -> Row] /\ session[s] \in Row
  BY DEF TypeOK
<1>b. ASSUME NEW q \in Sessions, NEW status, session' = [session EXCEPT ![q].status = status]
      PROVE  session'[s].total = session[s].total
  BY <1>0, <1>b DEF Row
<1>1. CASE \E o \in Operators : OpenInsert(o)
  BY <1>1, <1>b DEF OpenInsert
<1>2. CASE \E q \in Sessions : PauseSession(q) \/ ResumeSession(q)
  BY <1>2, <1>b DEF PauseSession, ResumeSession
<1>3. CASE (\E o \in Operators : OpenCheck(o)) \/ (\E q \in Sessions : SubmitSession(q))
  BY <1>3 DEF OpenCheck, SubmitSession
<1> QED
  BY <1>1, <1>2, <1>3 DEF Operator

\* It writes the ledger's sum.
LEMMA CloseWritesTotal ==
  ASSUME TypeOK, NEW q \in Sessions, CloseSession(q)
  PROVE  /\ session'[q].total = NetCount(q) /\ NetCount(q) \in Known(q)
         /\ \A s \in Sessions \ {q} : session'[s].total = session[s].total
<1>0. session \in [Sessions -> Row]
  BY DEF TypeOK
<1> DEFINE row == [status  |-> IF session[q].status = "degraded" \/ session[q].flagged
                                 THEN "reconcile_required" ELSE "closed",
                   total   |-> NetCount(q),
                   flagged |-> session[q].flagged,
                   locked  |-> TRUE]
<1>1. session' = [session EXCEPT ![q] = row] /\ row.total = NetCount(q)
  BY DEF CloseSession
<1> HIDE DEF row
<1>2. NetCount(q) \in Known(q)
  BY NetCountIsPast DEF Known, TypeOK
<1> QED
  BY <1>0, <1>1, <1>2

LEMMA OperatorTotals ==
  ASSUME TypeOK, Operator, NEW s \in Sessions
  PROVE  session'[s].total \in {session[s].total} \cup Known(s)
BY OperatorKeepsTotals, CloseWritesTotal

\* A step of the relay or of the reviewing engineer leaves every total alone, or
\* writes the engineer's decision about one session.
LEMMA ReviewTotal ==
  ASSUME TypeOK, Review
  PROVE  \/ /\ decided' = decided
            /\ \A s \in Sessions : session'[s].total = session[s].total
         \/ \E q \in Sessions, count \in Int :
              /\ decided' = [decided EXCEPT ![q] = @ \cup {count}]
              /\ session'[q].total = count
              /\ \A s \in Sessions \ {q} : session'[s].total = session[s].total
<1>0. session \in [Sessions -> Row]
  BY DEF TypeOK
<1>b. ASSUME NEW q, NEW status, session' = [session EXCEPT ![q].status = status]
      PROVE  \A s \in Sessions : session'[s].total = session[s].total
  BY <1>0, <1>b DEF Row
<1>c. ASSUME NEW q \in Sessions, NEW status, NEW count,
             session' = [session EXCEPT ![q].status = status, ![q].total = count]
      PROVE  /\ session'[q].total = count
             /\ \A s \in Sessions \ {q} : session'[s].total = session[s].total
  <2> DEFINE once == [session EXCEPT ![q].status = status]
  <2>1. DOMAIN once = Sessions /\ "total" \in DOMAIN once[q]
        /\ \A s \in Sessions : once[s].total = session[s].total
    BY <1>0 DEF Row
  <2>2. session' = [once EXCEPT ![q].total = count]
    BY <1>c
  <2> HIDE DEF once
  <2> QED
    BY <2>1, <2>2
<1>1. CASE \E i \in 1 .. MaxOutbox : CreateReconciliation(i)
  BY <1>1, <1>b DEF CreateReconciliation
<1>2. CASE \E r \in 1 .. MaxOutbox : ResolveReconciliation(r)
  <2>1. PICK r \in 1 .. MaxOutbox : ResolveReconciliation(r)
    BY <1>2
  <2> DEFINE q == recs[r].sess
  <2>2. q \in Sessions
    <3> DEFINE Case == [sess : Sessions, resolution :
                          {"none", "accept_system", "manual_override", "void_session"}]
    <3>1. recs \in Seq(Case) /\ r \in DOMAIN recs
      BY <2>1 DEF ResolveReconciliation, TypeOK
    <3> HIDE DEF Case
    <3>2. recs[r] \in Case
      BY <3>1
    <3> QED
      BY <3>2 DEF Case
  <2> HIDE DEF q
  <2>3. CASE session' = [session EXCEPT ![q].status = "reconciled"] /\ decided' = decided
    BY <1>b, <2>3
  <2>4. CASE \E count \in Overrides :
               /\ session' = [session EXCEPT ![q].status = "reconciled", ![q].total = count]
               /\ decided' = [decided EXCEPT ![q] = @ \cup {count}]
    <3>1. PICK count \in Overrides :
               /\ session' = [session EXCEPT ![q].status = "reconciled", ![q].total = count]
               /\ decided' = [decided EXCEPT ![q] = @ \cup {count}]
      BY <2>4
    <3>2. count \in Int
      BY OverridesAssumption
    <3>3. /\ session'[q].total = count
          /\ \A s \in Sessions \ {q} : session'[s].total = session[s].total
      BY <1>c, <2>2, <3>1
    <3> QED
      BY <2>2, <3>1, <3>2, <3>3
  <2>5. CASE /\ session' = [session EXCEPT ![q].status = "closed", ![q].total = 0]
             /\ decided' = [decided EXCEPT ![q] = @ \cup {0}]
    <3>1. 0 \in Int
      OBVIOUS
    <3> QED
      BY <1>c, <2>2, <2>5, <3>1
  <2>6. QED
    BY <2>1, <2>3, <2>4, <2>5 DEF ResolveReconciliation, q
<1>3. QED
  BY <1>1, <1>2 DEF Review

LEMMA ReviewTotals ==
  ASSUME TypeOK, Review, NEW s \in Sessions
  PROVE  session'[s].total \in {session[s].total} \cup decided'[s]
<1>1. decided \in [Sessions -> SUBSET Int]
  BY DEF TypeOK
<1> QED
  BY <1>1, ReviewTotal

LEMMA TotalWasOnceTrueStep ==
  ASSUME IInv, [Next]_vars
  PROVE  TotalWasOnceTrue'
<1> SUFFICES ASSUME NEW s \in Sessions PROVE session'[s].total \in Known(s)'
  BY DEF TotalWasOnceTrue
<1>1. session[s].total \in Known(s) /\ Known(s) \subseteq Known(s)'
  BY KnownGrows DEF IInv, TotalWasOnceTrue
<1>2. decided'[s] \subseteq Known(s)'
  BY DEF Known
<1>3. session'[s].total \in {session[s].total} \cup Known(s) \cup decided'[s]
  <2>1. CASE Operator
    BY <2>1, OperatorTotals DEF IInv
  <2>2. CASE \E p \in Counters : Count(p)
    BY <2>2, CountTotals DEF IInv
  <2>3. CASE Review
    BY <2>3, ReviewTotals DEF IInv
  <2>4. CASE UNCHANGED vars
    BY <2>4 DEF vars
  <2>5. QED
    BY <2>1, <2>2, <2>3, <2>4 DEF Next
<1>4. QED
  BY <1>1, <1>2, <1>3

\* Only SumLedger sets the sum, to the ledger's.
LEMMA SumWasOnceTrueStep ==
  ASSUME IInv, [Next]_vars
  PROVE  SumWasOnceTrue'
<1>0. proc \in [Counters -> ProcRecord]
  BY DEF IInv, TypeOK, ProcRecord
<1> SUFFICES ASSUME NEW p \in Counters, proc'[p].pc = "summed"
             PROVE  (proc[p].net \in Known(proc[p].sess))'
  BY DEF SumWasOnceTrue
<1>a. ASSUME NEW s \in Sessions, proc'[p].sess = s, proc'[p].net \in Known(s)
      PROVE  (proc[p].net \in Known(proc[p].sess))'
  BY <1>a, KnownGrows DEF IInv
<1>1. CASE proc'[p] = proc[p]
  <2>1. proc[p].sess \in Sessions /\ proc[p].net \in Known(proc[p].sess)
    BY <1>1 DEF IInv, BusyHasSession, SumWasOnceTrue
  <2>2. QED
    BY <1>1, <1>a, <2>1
<1>2. CASE SumLedger(p)
  <2>1. PICK s \in Sessions : s = proc[p].sess
    BY <1>2 DEF SumLedger, IInv, BusyHasSession
  <2>2. proc'[p].net = NetCount(s) /\ proc'[p].sess = s
    BY <1>0, <1>2, <2>1 DEF SumLedger, ProcRecord
  <2>3. NetCount(s) \in Known(s)
    BY <2>1, NetCountIsPast DEF Known, IInv, TypeOK
  <2>4. QED
    BY <1>a, <2>2, <2>3
<1>3. ASSUME proc'[p] # proc[p], ~ SumLedger(p)
      PROVE  FALSE
  <2>1. ~ Operator /\ ~ Review /\ ~ UNCHANGED vars
    BY <1>3 DEF vars, Operator, OpenCheck, OpenInsert, PauseSession, ResumeSession,
                CloseSession, SubmitSession, Review, CreateReconciliation,
                ResolveReconciliation
  <2>2. PICK q \in Counters : Count(q)
    BY <2>1 DEF Next
  <2>3. q = p
    BY <1>0, <1>3, <2>2 DEF Count, BeginBatch, BeginSimulation, EndBatch, EndSimulation,
       RecordEvent, RecordDuplicate, SumLedger, UpdateCountedTotal, UpdateAreaEstimate,
       MarkDegraded, FlagDiscrepancy, Crash
  <2>4. CASE BeginBatch(p) \/ BeginSimulation(p)
    BY <1>0, <2>4 DEF BeginBatch, BeginSimulation
  <2>5. CASE EndBatch(p) \/ EndSimulation(p) \/ Crash(p)
    BY <1>0, <2>5 DEF EndBatch, EndSimulation, Crash, Idle
  <2>6. CASE \E k \in Keys : RecordDuplicate(p, k) \/ \E d \in Directions : RecordEvent(p, k, d)
    <3>1. ~ \E k \in Keys : RecordDuplicate(p, k)
      <4>1. ASSUME NEW k \in Keys, RecordDuplicate(p, k) PROVE proc'[p].pc = After(p)
        BY <1>0, <4>1 DEF RecordDuplicate, ProcRecord
      <4>2. After(p) # "summed"
        BY DEF After
      <4>3. QED
        BY <4>1, <4>2
    <3>2. ~ \E k \in Keys, d \in Directions : RecordEvent(p, k, d)
      BY <1>0 DEF RecordEvent, ProcRecord
    <3>3. QED
      BY <2>6, <3>1, <3>2
  <2>7. CASE UpdateCountedTotal(p)
    BY <1>0, <2>7 DEF UpdateCountedTotal, After, ProcRecord
  <2>8. CASE UpdateAreaEstimate(p) \/ MarkDegraded(p) \/ FlagDiscrepancy(p)
    BY <1>0, <2>8 DEF UpdateAreaEstimate, MarkDegraded, FlagDiscrepancy, ProcRecord
  <2>9. QED
    BY <1>3, <2>2, <2>3, <2>4, <2>5, <2>6, <2>7, <2>8 DEF Count
<1>4. QED
  BY <1>1, <1>2, <1>3

\* A submission carries the total of the moment, and its count never changes.
LEMMA SubmittedWasOnceTrueStep ==
  ASSUME IInv, [Next]_vars
  PROVE  SubmittedWasOnceTrue'
<1> DEFINE Entry == [sess : Sessions, count : Int, escalated : BOOLEAN]
<1>0. outbox \in Seq(Entry)
  BY DEF IInv, TypeOK
<1>a. ASSUME NEW i \in DOMAIN outbox, NEW s, s = outbox[i].sess
      PROVE  s \in Sessions /\ outbox[i].count \in Known(s)'
  <2>0. i \in 1 .. Len(outbox)
    BY <1>0, <1>a
  <2>1. outbox[i] \in Entry
    <3> HIDE DEF Entry
    <3>1. QED
      BY <1>0, <2>0, ElementOfSeq
  <2>2. s \in Sessions /\ outbox[i].count \in Known(s)
    BY <1>a, <2>1 DEF IInv, SubmittedWasOnceTrue
  <2>3. QED
    BY <2>2, KnownGrows DEF IInv
<1>1. CASE \E s \in Sessions : SubmitSession(s)
  <2>1. PICK s \in Sessions : SubmitSession(s)
    BY <1>1
  <2>2. session[s].total \in Known(s)'
    BY KnownGrows DEF IInv, TotalWasOnceTrue
  <2> DEFINE e == [sess |-> s, count |-> session[s].total, escalated |-> FALSE]
  <2>3. outbox' = Append(outbox, e)
    BY <2>1 DEF SubmitSession
  <2>4. e.sess = s /\ e.count \in Known(s)'
    BY <2>2
  <2> HIDE DEF e
  <2>5. \A i \in DOMAIN outbox' :
         (i \in DOMAIN outbox /\ outbox'[i] = outbox[i]) \/ outbox'[i] = e
    BY <1>0, <2>3
  <2>6. QED
    BY <1>a, <2>4, <2>5 DEF SubmittedWasOnceTrue
<1>2. CASE \E i \in 1 .. MaxOutbox : CreateReconciliation(i)
  <2>1. PICK i \in 1 .. MaxOutbox : CreateReconciliation(i)
    BY <1>2
  <2>2. outbox' = [outbox EXCEPT ![i].escalated = TRUE]
    BY <2>1 DEF CreateReconciliation
  <2>3. \A j \in DOMAIN outbox : outbox'[j].sess = outbox[j].sess
                                  /\ outbox'[j].count = outbox[j].count
    BY <1>0, <2>2
  <2>4. DOMAIN outbox' = DOMAIN outbox
    BY <1>0, <2>2
  <2>5. QED
    BY <1>a, <2>3, <2>4 DEF SubmittedWasOnceTrue
<1>3. CASE outbox' = outbox
  BY <1>a, <1>3 DEF SubmittedWasOnceTrue
<1>4. outbox' = outbox \/ (\E s \in Sessions : SubmitSession(s))
        \/ (\E i \in 1 .. MaxOutbox : CreateReconciliation(i))
  <2>1. CASE Operator
    BY <2>1 DEF Operator, OpenCheck, OpenInsert, PauseSession, ResumeSession, CloseSession
  <2>2. CASE \E p \in Counters : Count(p)
    BY <2>2 DEF Count, BeginBatch, BeginSimulation, EndBatch, EndSimulation, RecordEvent,
                RecordDuplicate, SumLedger, UpdateCountedTotal, UpdateAreaEstimate,
                MarkDegraded, FlagDiscrepancy, Crash
  <2>3. CASE Review
    BY <2>3 DEF Review, ResolveReconciliation
  <2>4. CASE UNCHANGED vars
    BY <2>4 DEF vars
  <2>5. QED
    BY <2>1, <2>2, <2>3, <2>4 DEF Next
<1>5. QED
  BY <1>1, <1>2, <1>3, <1>4

LEMMA InitIInv == Init => IInv
<1> SUFFICES ASSUME Init PROVE IInv
  OBVIOUS
<1>1. TypeOK /\ BusyHasSession
  BY InitTypeOK
<1>2. UniqueCrossing /\ SubmittedWasOnceTrue
  BY DEF Init, UniqueCrossing, SubmittedWasOnceTrue
<1>3. SumWasOnceTrue
  BY DEF Init, SumWasOnceTrue, Idle
<1>4. TotalWasOnceTrue
  <2> SUFFICES ASSUME NEW s \in Sessions PROVE session[s].total \in Known(s)
    BY DEF TotalWasOnceTrue
  <2>1. \A d : {i \in 1 .. 0 : ledger[i].sess = s /\ ledger[i].dir = d} = {}
    OBVIOUS
  <2>2. NetUpTo(s, 0) = Cardinality({}) - Cardinality({})
    BY <2>1 DEF NetUpTo
  <2>3. NetUpTo(s, 0) = 0
    BY <2>2, FS_EmptySet
  <2>4. 0 \in 0 .. Len(ledger)
    BY DEF Init
  <2>5. session[s].total = 0
    BY DEF Init
  <2>6. QED
    BY <2>3, <2>4, <2>5 DEF Known, PastCounts
<1>5. QED
  BY <1>1, <1>2, <1>3, <1>4 DEF IInv

\* The inductive invariant: where TLC explored one small instance, this holds for
\* any number of processes, sessions and crossings.
LEMMA IInvHolds == Spec => []IInv
<1>1. IInv /\ [Next]_vars => IInv'
  <2> SUFFICES ASSUME IInv, [Next]_vars PROVE IInv'
    OBVIOUS
  <2>1. TypeOK' /\ BusyHasSession'
    <3>1. TypeOK /\ BusyHasSession
      BY DEF IInv
    <3>2. CASE Operator
      BY <3>1, <3>2, OperatorTypeOK
    <3>3. CASE \E p \in Counters : Count(p)
      BY <3>1, <3>3, CountTypeOK
    <3>4. CASE Review
      BY <3>1, <3>4, ReviewTypeOK
    <3>5. CASE UNCHANGED vars
      BY <3>1, <3>5 DEF vars, TypeOK, BusyHasSession
    <3>6. QED
      BY <3>2, <3>3, <3>4, <3>5 DEF Next
  <2>2. UniqueCrossing'
    BY UniqueCrossingStep DEF IInv
  <2>3. QED
    BY <2>1, <2>2, SumWasOnceTrueStep, TotalWasOnceTrueStep, SubmittedWasOnceTrueStep DEF IInv
<1>2. QED
  BY <1>1, InitIInv, PTL DEF Spec

\* Types are never left, whoever acts and whoever crashes: in particular every
\* handler finds the record of its own transaction as it left it.
THEOREM TypeCorrect == Spec => []TypeOK
<1>1. IInv => TypeOK
  BY DEF IInv
<1>2. QED
  BY <1>1, IInvHolds, PTL

\* record_event's promise: however crossings are redelivered, by whichever
\* processes, and wherever these crash, no crossing is in the ledger twice.
THEOREM CountsOnce == Spec => []UniqueCrossing
<1>1. IInv => UniqueCrossing
  BY DEF IInv
<1>2. QED
  BY <1>1, IInvHolds, PTL

\* What handle_gate_crossing promises with its two transactions: a total on
\* display was the ledger's sum at some moment, or is an engineer's decision.
THEOREM TotalsWereTrue == Spec => []TotalWasOnceTrue
<1>1. IInv => TotalWasOnceTrue
  BY DEF IInv
<1>2. QED
  BY <1>1, IInvHolds, PTL

\* And so was every count that was submitted to the ERP.
THEOREM SubmissionsWereTrue == Spec => []SubmittedWasOnceTrue
<1>1. IInv => SubmittedWasOnceTrue
  BY DEF IInv
<1>2. QED
  BY <1>1, IInvHolds, PTL

-----------------------------------------------------------------------------
(* SessionLedger implements CrossingCounter: a recorded crossing is one      *)
(* Count, a written total a Show, a decision a Decide, the rest a stutter.   *)

\* A row of the ledger adds its direction to the count of its session ...
LEMMA NetAppended ==
  ASSUME ledger \in Seq(Event), NEW e \in Event, ledger' = Append(ledger, e), NEW s \in Sessions
  PROVE  NetCount(s)' = IF e.sess = s THEN NetCount(s) + e.dir ELSE NetCount(s)
<1> DEFINE n == Len(ledger)
           Rows(d) == {i \in 1 .. n : ledger[i].sess = s /\ ledger[i].dir = d}
           More(d) == {i \in 1 .. n + 1 : ledger'[i].sess = s /\ ledger'[i].dir = d}
<1>1. /\ n \in Nat /\ Len(ledger') = n + 1 /\ ledger'[n + 1] = e
      /\ \A i \in 1 .. n : ledger'[i] = ledger[i]
  OBVIOUS
<1>2. ASSUME NEW d
      PROVE  /\ IsFiniteSet(Rows(d)) /\ Cardinality(Rows(d)) \in Nat
             /\ Cardinality(More(d)) = IF e.sess = s /\ e.dir = d THEN Cardinality(Rows(d)) + 1
                                                                 ELSE Cardinality(Rows(d))
  <2>1. IsFiniteSet(Rows(d))
    <3>1. IsFiniteSet(1 .. n)
      BY <1>1, FS_Interval
    <3> QED
      BY <3>1, FS_Subset
  <2>2. n + 1 \notin Rows(d)
    BY <1>1
  <2>3. CASE e.sess = s /\ e.dir = d
    <3>1. More(d) = Rows(d) \cup {n + 1}
      BY <1>1, <2>3
    <3> HIDE DEF Rows, More
    <3> QED
      BY <2>1, <2>2, <2>3, <3>1, FS_AddElement, FS_CardinalityType
  <2>4. CASE ~ (e.sess = s /\ e.dir = d)
    <3>1. More(d) = Rows(d)
      BY <1>1, <2>4
    <3> HIDE DEF Rows, More
    <3> QED
      BY <2>1, <2>4, <3>1, FS_CardinalityType
  <2> QED
    BY <2>3, <2>4
<1>3. /\ NetCount(s) = Cardinality(Rows(1)) - Cardinality(Rows(-1))
      /\ NetCount(s)' = Cardinality(More(1)) - Cardinality(More(-1))
  BY <1>1 DEF NetCount, NetUpTo
<1>4. e.dir \in {1, -1}
  BY DirectionsAssumption DEF Event
<1> HIDE DEF Rows, More
<1>5. /\ Cardinality(Rows(1)) \in Nat /\ Cardinality(Rows(-1)) \in Nat
      /\ Cardinality(More(1)) = IF e.sess = s /\ e.dir = 1 THEN Cardinality(Rows(1)) + 1
                                                            ELSE Cardinality(Rows(1))
      /\ Cardinality(More(-1)) = IF e.sess = s /\ e.dir = -1 THEN Cardinality(Rows(-1)) + 1
                                                              ELSE Cardinality(Rows(-1))
  BY <1>2
<1> QED
  BY <1>3, <1>4, <1>5

\* ... the new count is one more the session ever had ...
LEMMA PastAppended ==
  ASSUME ledger \in Seq(Event), NEW e \in Event, ledger' = Append(ledger, e), NEW s \in Sessions
  PROVE  PastCounts(s)' = PastCounts(s) \cup {NetCount(s)'}
<1>1. PICK m \in Nat : m = Len(ledger) /\ Len(ledger') = m + 1
  OBVIOUS
<1>2. \A n \in 0 .. m : NetUpTo(s, n)' = NetUpTo(s, n)
  BY <1>1, NetUpToAppend
<1>3. NetCount(s)' = NetUpTo(s, m + 1)'
  BY <1>1 DEF NetCount
<1>4. 0 .. m + 1 = 0 .. m \cup {m + 1}
  OBVIOUS
<1>5. PastCounts(s)' = {NetUpTo(s, n)' : n \in 0 .. m + 1}
  BY <1>1 DEF PastCounts
<1>6. PastCounts(s) = {NetUpTo(s, n) : n \in 0 .. m}
  BY <1>1 DEF PastCounts
<1>7. {NetUpTo(s, n)' : n \in 0 .. m + 1} = {NetUpTo(s, n)' : n \in 0 .. m} \cup {NetUpTo(s, m + 1)'}
  BY <1>4
<1>8. {NetUpTo(s, n)' : n \in 0 .. m} = {NetUpTo(s, n) : n \in 0 .. m}
  BY <1>2
<1> QED
  BY <1>3, <1>5, <1>6, <1>7, <1>8

\* ... and its key one more that was counted.
LEMMA KeysAppended ==
  ASSUME ledger \in Seq(Event), NEW e \in Event, ledger' = Append(ledger, e), NEW s \in Sessions
  PROVE  CountedKeys(s)' = IF e.sess = s THEN CountedKeys(s) \cup {e.key} ELSE CountedKeys(s)
<1>1. /\ Len(ledger) \in Nat /\ DOMAIN ledger = 1 .. Len(ledger)
      /\ DOMAIN ledger' = 1 .. Len(ledger) + 1 /\ ledger'[Len(ledger) + 1] = e
      /\ \A i \in 1 .. Len(ledger) : ledger'[i] = ledger[i]
  OBVIOUS
<1>2. \A k : k \in CountedKeys(s) <=> \E i \in 1 .. Len(ledger) : ledger[i].sess = s /\ ledger[i].key = k
  BY <1>1 DEF CountedKeys
<1>3. \A k : k \in CountedKeys(s)' <=> \E i \in 1 .. Len(ledger) + 1 : ledger'[i].sess = s /\ ledger'[i].key = k
  BY <1>1 DEF CountedKeys
<1>4. \A k : k \in CountedKeys(s)' <=> (k \in CountedKeys(s) \/ (e.sess = s /\ e.key = k))
  <2>1. 1 .. Len(ledger) + 1 = 1 .. Len(ledger) \cup {Len(ledger) + 1}
    BY <1>1
  <2> QED
    BY <1>1, <1>2, <1>3, <2>1
<1> QED
  BY <1>4

\* What the counter shows.
CounterVars ==
  <<[s \in Sessions |-> CountedKeys(s)], [s \in Sessions |-> NetCount(s)],
    [s \in Sessions |-> Known(s)], [s \in Sessions |-> session[s].total]>>

LEMMA RefineInit == Init => Abstract!Init
<1> SUFFICES ASSUME Init PROVE Abstract!Init
  OBVIOUS
<1>1. ASSUME NEW s \in Sessions
      PROVE  /\ CountedKeys(s) = {} /\ NetCount(s) = 0
             /\ Known(s) = {0} /\ session[s].total = 0
  <2>1. ledger = <<>> /\ Len(ledger) = 0 /\ DOMAIN ledger = {} /\ decided[s] = {}
    BY DEF Init
  <2>2. \A d : {i \in 1 .. 0 : ledger[i].sess = s /\ ledger[i].dir = d} = {}
    OBVIOUS
  <2>3. NetUpTo(s, 0) = Cardinality({}) - Cardinality({})
    BY <2>2 DEF NetUpTo
  <2>4. NetUpTo(s, 0) = 0
    BY <2>3, FS_EmptySet
  <2>5. 0 .. Len(ledger) = {0}
    BY <2>1
  <2>6. PastCounts(s) = {0}
    BY <2>4, <2>5 DEF PastCounts
  <2> QED
    BY <2>1, <2>4, <2>6 DEF CountedKeys, NetCount, Known, Init
<1> QED
  BY <1>1 DEF Abstract!Init

\* A crossing is recorded.
LEMMA RefineRecord ==
  ASSUME IInv, NEW p \in Counters, NEW k \in Keys, NEW d \in Directions, RecordEvent(p, k, d)
  PROVE  Abstract!Count(proc[p].sess, k, d)
<1> DEFINE q == proc[p].sess
           e == [sess |-> q, key |-> k, dir |-> d]
<1>1. q \in Sessions
  BY DEF RecordEvent, IInv, BusyHasSession
<1>2. e \in Event /\ ledger' = Append(ledger, e) /\ UNCHANGED <<session, decided>> /\ ~ Recorded(q, k)
  BY <1>1 DEF RecordEvent, Event
<1>3. e.sess = q /\ e.key = k /\ e.dir = d /\ ledger \in Seq(Event)
  BY DEF IInv, TypeOK
<1> HIDE DEF e
<1>4. k \notin CountedKeys(q)
  BY <1>2 DEF CountedKeys, Recorded
<1>5. \A s \in Sessions : CountedKeys(s)' = IF s = q THEN CountedKeys(s) \cup {k} ELSE CountedKeys(s)
  BY <1>2, <1>3, KeysAppended
<1>6. \A s \in Sessions : NetCount(s)' = IF s = q THEN NetCount(s) + d ELSE NetCount(s)
  BY <1>2, <1>3, NetAppended
<1>7. \A s \in Sessions : Known(s)' = IF s = q THEN Known(s) \cup {NetCount(q) + d} ELSE Known(s)
  <2>1. SUFFICES ASSUME NEW s \in Sessions
                 PROVE  Known(s)' = IF s = q THEN Known(s) \cup {NetCount(q) + d} ELSE Known(s)
    OBVIOUS
  <2>2. Known(s)' = Known(s) \cup {NetCount(s)'}
    BY <1>2, <1>3, PastAppended DEF Known
  <2>3. NetCount(s) \in Known(s)
    BY <1>3, NetCountIsPast DEF Known
  <2> QED
    BY <1>6, <2>2, <2>3
<1>8. [s \in Sessions |-> CountedKeys(s)]'
        = [[s \in Sessions |-> CountedKeys(s)] EXCEPT ![q] = @ \cup {k}]
  BY <1>1, <1>5
<1>9. [s \in Sessions |-> NetCount(s)]' = [[s \in Sessions |-> NetCount(s)] EXCEPT ![q] = @ + d]
  BY <1>1, <1>6
<1>10. [s \in Sessions |-> Known(s)]'
         = [[s \in Sessions |-> Known(s)] EXCEPT ![q] = @ \cup {NetCount(q) + d}]
  BY <1>1, <1>7
<1>11. [s \in Sessions |-> session[s].total]' = [s \in Sessions |-> session[s].total]
  BY <1>2
<1> QED
  BY <1>1, <1>4, <1>8, <1>9, <1>10, <1>11 DEF Abstract!Count

\* A step that writes at most one total, with a count that was once true.
LEMMA RefineShow ==
  ASSUME session \in [Sessions -> Row], UNCHANGED <<ledger, decided>>, NEW q \in Sessions,
         session'[q].total \in {session[q].total} \cup Known(q),
         \A s \in Sessions \ {q} : session'[s].total = session[s].total
  PROVE  Abstract!Show(q) \/ UNCHANGED CounterVars
<1>1. \A s \in Sessions : CountedKeys(s)' = CountedKeys(s) /\ NetCount(s)' = NetCount(s) /\ Known(s)' = Known(s)
  BY DEF CountedKeys, NetCount, NetUpTo, Known, PastCounts
<1>2. /\ [s \in Sessions |-> CountedKeys(s)]' = [s \in Sessions |-> CountedKeys(s)]
      /\ [s \in Sessions |-> NetCount(s)]' = [s \in Sessions |-> NetCount(s)]
      /\ [s \in Sessions |-> Known(s)]' = [s \in Sessions |-> Known(s)]
  BY <1>1
<1>3. CASE session'[q].total \in Known(q)
  <2>1. [s \in Sessions |-> session[s].total]'
          = [[s \in Sessions |-> session[s].total] EXCEPT ![q] = session'[q].total]
    OBVIOUS
  <2> QED
    BY <1>2, <1>3, <2>1 DEF Abstract!Show
<1>4. CASE session'[q].total = session[q].total
  <2>1. [s \in Sessions |-> session[s].total]' = [s \in Sessions |-> session[s].total]
    BY <1>4
  <2> QED
    BY <1>2, <2>1 DEF CounterVars
<1> QED
  BY <1>3, <1>4

\* A step that changes no total, and neither the ledger nor the decisions.
LEMMA RefineStutter ==
  ASSUME UNCHANGED <<ledger, decided>>,
         \A s \in Sessions : session'[s].total = session[s].total
  PROVE  UNCHANGED CounterVars
<1>1. \A s \in Sessions : CountedKeys(s)' = CountedKeys(s) /\ NetCount(s)' = NetCount(s) /\ Known(s)' = Known(s)
  BY DEF CountedKeys, NetCount, NetUpTo, Known, PastCounts
<1> QED
  BY <1>1 DEF CounterVars

\* The engineer's decision.
LEMMA RefineDecide ==
  ASSUME decided \in [Sessions -> SUBSET Int], ledger' = ledger,
         NEW q \in Sessions, NEW count \in Int, session'[q].total = count,
         decided' = [decided EXCEPT ![q] = @ \cup {count}],
         \A s \in Sessions \ {q} : session'[s].total = session[s].total
  PROVE  Abstract!Decide(q)
<1>1. \A s \in Sessions : CountedKeys(s)' = CountedKeys(s) /\ NetCount(s)' = NetCount(s)
                         /\ PastCounts(s)' = PastCounts(s)
  BY DEF CountedKeys, NetCount, NetUpTo, PastCounts
<1>2. \A s \in Sessions : Known(s)' = IF s = q THEN Known(s) \cup {count} ELSE Known(s)
  BY <1>1 DEF Known
<1>3. /\ [s \in Sessions |-> CountedKeys(s)]' = [s \in Sessions |-> CountedKeys(s)]
      /\ [s \in Sessions |-> NetCount(s)]' = [s \in Sessions |-> NetCount(s)]
  BY <1>1
<1>4. [s \in Sessions |-> Known(s)]' = [[s \in Sessions |-> Known(s)] EXCEPT ![q] = @ \cup {count}]
  BY <1>2
<1>5. [s \in Sessions |-> session[s].total]'
        = [[s \in Sessions |-> session[s].total] EXCEPT ![q] = count]
  OBVIOUS
<1>6. [s \in Sessions |-> session[s].total]'[q] = count
  OBVIOUS
<1> QED
  BY <1>3, <1>4, <1>5, <1>6 DEF Abstract!Decide

LEMMA RefineNext == IInv /\ [Next]_vars => [Abstract!Next]_CounterVars
<1> SUFFICES ASSUME IInv, [Next]_vars PROVE Abstract!Next \/ UNCHANGED CounterVars
  OBVIOUS
<1>t. /\ session \in [Sessions -> Row] /\ decided \in [Sessions -> SUBSET Int]
      /\ TypeOK /\ BusyHasSession /\ SumWasOnceTrue
  BY DEF IInv, TypeOK
<1>1. ASSUME NEW q \in Sessions, CloseSession(q)
      PROVE  Abstract!Next \/ UNCHANGED CounterVars
  <2>1. UNCHANGED <<ledger, decided>>
    BY <1>1 DEF CloseSession
  <2> QED
    BY <1>t, <1>1, <2>1, CloseWritesTotal, RefineShow DEF Abstract!Next
<1>2. CASE Operator /\ \A q \in Sessions : ~ CloseSession(q)
  <2>1. UNCHANGED <<ledger, decided>>
    BY <1>2 DEF Operator, OpenCheck, OpenInsert, PauseSession, ResumeSession, SubmitSession
  <2> QED
    BY <1>t, <1>2, <2>1, OperatorKeepsTotals, RefineStutter
<1>3. ASSUME NEW p \in Counters, NEW k \in Keys, NEW d \in Directions, RecordEvent(p, k, d)
      PROVE  Abstract!Next
  <2>1. proc[p].sess \in Sessions
    BY <1>3 DEF RecordEvent, IInv, BusyHasSession
  <2> QED
    BY <1>3, <2>1, RefineRecord DEF Abstract!Next
<1>4. ASSUME NEW p \in Counters, UpdateCountedTotal(p)
      PROVE  Abstract!Next \/ UNCHANGED CounterVars
  <2>1. UNCHANGED <<ledger, decided>>
    BY <1>4 DEF UpdateCountedTotal
  <2> QED
    BY <1>t, <1>4, <2>1, UpdateWritesTotal, RefineShow DEF Abstract!Next
<1>5. ASSUME NEW p \in Counters, Count(p), ~ UpdateCountedTotal(p),
             ~ \E k \in Keys, d \in Directions : RecordEvent(p, k, d)
      PROVE  UNCHANGED CounterVars
  <2>1. UNCHANGED <<ledger, decided>>
    BY <1>5 DEF Count, BeginBatch, BeginSimulation, EndBatch, EndSimulation, RecordDuplicate,
                SumLedger, UpdateAreaEstimate, MarkDegraded, FlagDiscrepancy, Crash
  <2> QED
    BY <1>t, <1>5, <2>1, CountKeepsTotals, RefineStutter
<1>6. CASE Review
  <2>0. ledger' = ledger
    BY <1>6 DEF Review, CreateReconciliation, ResolveReconciliation
  <2>1. CASE decided' = decided /\ \A s \in Sessions : session'[s].total = session[s].total
    BY <2>0, <2>1, RefineStutter
  <2>2. ASSUME NEW q \in Sessions, NEW count \in Int,
               decided' = [decided EXCEPT ![q] = @ \cup {count}], session'[q].total = count,
               \A s \in Sessions \ {q} : session'[s].total = session[s].total
        PROVE  Abstract!Next
    BY <1>t, <2>0, <2>2, RefineDecide DEF Abstract!Next
  <2> QED
    BY <1>t, <1>6, <2>1, <2>2, ReviewTotal
<1>7. CASE UNCHANGED vars
  BY <1>7, RefineStutter DEF vars
<1> QED
  BY <1>1, <1>2, <1>3, <1>4, <1>5, <1>6, <1>7 DEF Next

\* The counting core implements the counter: however its processes overtake each
\* other and die, a crossing is counted at most once and never taken back, and a
\* total that is shown is one the session had (CountingEventHandler).
THEOREM CounterImplemented == Spec => ImplementsCounter
BY IInvHolds, RefineInit, RefineNext, PTL DEF Spec, ImplementsCounter, Abstract!Spec, CounterVars

-----------------------------------------------------------------------------
(* Two properties of restricted deployments: without inference workers, whose *)
(* loaded rows grow stale, and with a single counting process that lives on.  *)

\* A renderer's transaction always works with the row as it is.
FlagInv ==
  /\ FlaggedClosesOnlyVoided
  /\ \A p \in Renderers : proc[p].view = NoRow

LEMMA FlagInvStep ==
  ASSUME Inference = {}, TypeOK, BusyHasSession, FlagInv, [Next]_vars
  PROVE  FlagInv'
<1>t. /\ session \in [Sessions -> Row] /\ proc \in [Counters -> ProcRecord]
      /\ decided \in [Sessions -> SUBSET Int]
  BY DEF TypeOK, ProcRecord
<1>g. \A s \in Sessions : decided[s] \subseteq decided'[s]
  BY DecidedGrows
\* A step that gives rows another status, but "closed" to none.
<1>s. ASSUME \A s \in Sessions :
               /\ session'[s].flagged = session[s].flagged
               /\ session'[s].status = session[s].status \/ session'[s].status # "closed"
      PROVE  FlaggedClosesOnlyVoided'
  BY <1>g, <1>s DEF FlagInv, FlaggedClosesOnlyVoided
<1>u. ASSUME session' = session PROVE FlaggedClosesOnlyVoided'
  BY <1>g, <1>u DEF FlagInv, FlaggedClosesOnlyVoided
\* A step that leaves the renderers' transactions alone.
<1>v. ASSUME proc' = proc PROVE \A p \in Renderers : proc'[p].view = NoRow
  BY <1>v DEF FlagInv
<1>1. CASE Operator
  <2>1. proc' = proc
    BY <1>1 DEF Operator, OpenCheck, OpenInsert, PauseSession, ResumeSession, CloseSession,
                SubmitSession
  <2>2. ASSUME NEW q \in Sessions, CloseSession(q) PROVE FlaggedClosesOnlyVoided'
    <3> DEFINE row == [status  |-> IF session[q].status = "degraded" \/ session[q].flagged
                                     THEN "reconcile_required" ELSE "closed",
                       total   |-> NetCount(q),
                       flagged |-> session[q].flagged,
                       locked  |-> TRUE]
    <3>1. session' = [session EXCEPT ![q] = row]
      BY <2>2 DEF CloseSession
    <3>2. ~ (row.status = "closed" /\ row.flagged)
      OBVIOUS
    <3> HIDE DEF row
    <3>3. session'[q] = row /\ \A s \in Sessions \ {q} : session'[s] = session[s]
      BY <1>t, <3>1
    <3> QED
      BY <1>g, <3>2, <3>3 DEF FlagInv, FlaggedClosesOnlyVoided
  <2>3. ASSUME \E o \in Operators : OpenCheck(o) \/ OpenInsert(o)
        PROVE  FlaggedClosesOnlyVoided'
    <3>1. session' = session \/ \E q \in Sessions : session' = [session EXCEPT ![q].status = "open"]
      BY <2>3 DEF OpenCheck, OpenInsert
    <3>2. \A s \in Sessions :
               /\ session'[s].flagged = session[s].flagged
               /\ session'[s].status = session[s].status \/ session'[s].status # "closed"
      BY <1>t, <3>1 DEF Row
    <3> QED
      BY <1>s, <3>2
  <2>4. ASSUME \E q \in Sessions : PauseSession(q) \/ ResumeSession(q) \/ SubmitSession(q)
        PROVE  FlaggedClosesOnlyVoided'
    <3>1. \/ session' = session
          \/ \E q \in Sessions : session' = [session EXCEPT ![q].status = "paused"]
          \/ \E q \in Sessions : session' = [session EXCEPT ![q].status = "counting"]
      BY <2>4 DEF PauseSession, ResumeSession, SubmitSession
    <3>2. \A s \in Sessions :
               /\ session'[s].flagged = session[s].flagged
               /\ session'[s].status = session[s].status \/ session'[s].status # "closed"
      BY <1>t, <3>1 DEF Row
    <3> QED
      BY <1>s, <3>2
  <2> QED
    BY <1>1, <1>v, <2>1, <2>2, <2>3, <2>4 DEF Operator, FlagInv
<1>2. ASSUME NEW p \in Counters, Count(p) PROVE FlagInv'
  <2>0. p \notin Inference /\ (p \in Simulators => p \notin Renderers)
    BY KindsAssumption
  <2>1. FlaggedClosesOnlyVoided'
    <3>1. CASE BeginSimulation(p)
      <4>1. PICK q \in Sessions, status \in {"open", "counting"} :
              session' = [session EXCEPT ![q].status = status]
        BY <3>1 DEF BeginSimulation
      <4> QED
        BY <1>t, <1>s, <4>1 DEF Row
    <3>2. CASE UpdateCountedTotal(p)
      <4>1. PICK q, total : session' = [session EXCEPT ![q].total = total]
        BY <3>2 DEF UpdateCountedTotal
      <4>2. \A s \in Sessions : /\ session'[s].flagged = session[s].flagged
                                /\ session'[s].status = session[s].status
        BY <1>t, <4>1 DEF Row
      <4> QED
        BY <1>g, <4>2 DEF FlagInv, FlaggedClosesOnlyVoided
    <3>3. CASE FlagDiscrepancy(p)
      <4> DEFINE q == proc[p].sess
      <4>1. q \in Sessions /\ View(p) = session[q]
        BY <2>0, <3>3 DEF FlagDiscrepancy, BusyHasSession, FlagInv, View
      <4>2. PICK flag, stat :
              /\ session' = [session EXCEPT ![q] = [session[q] EXCEPT !.flagged = flag, !.status = stat]]
              /\ stat = Flushed(View(p).status, "reconcile_required", session[q].status)
        BY <3>3 DEF FlagDiscrepancy
      <4>3. stat = "reconcile_required"
        BY <4>1, <4>2 DEF Flushed
      <4>4. session'[q].status = "reconcile_required" /\ \A s \in Sessions \ {q} : session'[s] = session[s]
        BY <1>t, <4>1, <4>2, <4>3 DEF Row
      <4> QED
        BY <1>g, <4>4 DEF FlagInv, FlaggedClosesOnlyVoided
    <3>4. ASSUME ~ BeginSimulation(p), ~ UpdateCountedTotal(p), ~ FlagDiscrepancy(p)
          PROVE  session' = session
      BY <1>2, <2>0, <3>4 DEF Count, BeginBatch, EndBatch, EndSimulation, RecordEvent, RecordDuplicate,
                              SumLedger, UpdateAreaEstimate, MarkDegraded, Crash
    <3> QED
      BY <1>u, <3>1, <3>2, <3>3, <3>4
  <2>2. ASSUME p \in Renderers PROVE proc'[p].view = NoRow
    <3>1. CASE BeginBatch(p)
      <4>1. PICK q : proc' = [proc EXCEPT ![p] = [pc |-> "ready", sess |-> q, net |-> 0, view |-> Kept(p, session[q])]]
        BY <3>1 DEF BeginBatch
      <4> QED
        BY <1>t, <2>2, <4>1 DEF Kept
    <3>6. CASE FlagDiscrepancy(p)
      <4>1. PICK row : proc' = [proc EXCEPT ![p].view = Kept(p, row)]
        BY <3>6 DEF FlagDiscrepancy
      <4> QED
        BY <1>t, <2>2, <4>1 DEF Kept, ProcRecord
    <3>7. CASE UpdateCountedTotal(p)
      <4>1. PICK row : proc' = [proc EXCEPT ![p].pc = After(p), ![p].view = Kept(p, row)]
        BY <3>7 DEF UpdateCountedTotal
      <4>2. Kept(p, row) = NoRow
        BY <2>2 DEF Kept
      <4>3. proc' = [proc EXCEPT ![p] = [[proc[p] EXCEPT !.pc = After(p)] EXCEPT !.view = NoRow]]
        BY <1>t, <4>1, <4>2
      <4> QED
        BY <1>t, <4>3 DEF ProcRecord
    <3>2. CASE EndBatch(p) \/ EndSimulation(p) \/ Crash(p)
      BY <1>t, <3>2 DEF EndBatch, EndSimulation, Crash, Idle
    <3>3. CASE \E k \in Keys : RecordDuplicate(p, k) \/ \E d \in Directions : RecordEvent(p, k, d)
      BY <1>t, <2>2, <3>3 DEF RecordDuplicate, RecordEvent, FlagInv, ProcRecord
    <3>4. CASE SumLedger(p)
      BY <1>t, <2>2, <3>4 DEF SumLedger, FlagInv, ProcRecord
    <3>5. ~ BeginSimulation(p) /\ ~ UpdateAreaEstimate(p) /\ ~ MarkDegraded(p)
      BY <2>0, <2>2 DEF BeginSimulation, UpdateAreaEstimate, MarkDegraded
    <3> QED
      BY <1>2, <3>1, <3>2, <3>3, <3>4, <3>5, <3>6, <3>7 DEF Count
  <2>3. \A r \in Renderers \ {p} : proc'[r] = proc[r]
    <3>1. \A r \in Renderers : r \in Counters
      BY DEF Counters
    <3> QED
      BY <1>t, <1>2, <3>1 DEF Count, BeginBatch, BeginSimulation, EndBatch, EndSimulation,
              RecordDuplicate, RecordEvent, SumLedger, UpdateCountedTotal, UpdateAreaEstimate,
              MarkDegraded, FlagDiscrepancy, Crash
  <2> QED
    BY <2>1, <2>2, <2>3 DEF FlagInv
<1>3. CASE Review
  <2>1. proc' = proc
    BY <1>3 DEF Review, CreateReconciliation, ResolveReconciliation
  <2>2. ASSUME \E i \in 1 .. MaxOutbox : CreateReconciliation(i)
        PROVE  FlaggedClosesOnlyVoided'
    <3>1. \E q : session' = [session EXCEPT ![q].status = "reconcile_required"]
      BY <2>2 DEF CreateReconciliation
    <3>2. \A s \in Sessions :
               /\ session'[s].flagged = session[s].flagged
               /\ session'[s].status = session[s].status \/ session'[s].status # "closed"
      BY <1>t, <3>1 DEF Row
    <3> QED
      BY <1>s, <3>2
  <2>3. ASSUME NEW r \in 1 .. MaxOutbox, ResolveReconciliation(r)
        PROVE  FlaggedClosesOnlyVoided'
    <3> DEFINE q == recs[r].sess
    <3>1. CASE session' = [session EXCEPT ![q].status = "reconciled"]
      BY <1>t, <1>s, <3>1 DEF Row
    <3>2. ASSUME NEW count,
                 session' = [session EXCEPT ![q].status = "reconciled", ![q].total = count]
          PROVE  FlaggedClosesOnlyVoided'
      <4>1. \A s \in Sessions : /\ session'[s].flagged = session[s].flagged
                                /\ session'[s].status \in {session[s].status, "reconciled"}
        BY <1>t, <3>2 DEF Row
      <4> QED
        BY <1>g, <4>1 DEF FlagInv, FlaggedClosesOnlyVoided
    <3>3. ASSUME session' = [session EXCEPT ![q].status = "closed", ![q].total = 0],
                 decided' = [decided EXCEPT ![q] = @ \cup {0}]
          PROVE  FlaggedClosesOnlyVoided'
      <4>1. \A s \in Sessions : s # q => session'[s] = session[s]
        BY <1>t, <3>3
      <4>2. \A s \in Sessions : s = q => 0 \in decided'[s]
        BY <1>t, <3>3
      <4> QED
        BY <1>g, <4>1, <4>2 DEF FlagInv, FlaggedClosesOnlyVoided
    <3> QED
      BY <2>3, <3>1, <3>2, <3>3 DEF ResolveReconciliation
  <2> QED
    BY <1>3, <1>v, <2>1, <2>2, <2>3 DEF Review, FlagInv
<1>4. CASE UNCHANGED vars
  BY <1>u, <1>v, <1>4 DEF vars, FlagInv
<1> QED
  BY <1>1, <1>2, <1>3, <1>4 DEF Next

\* Without inference workers, a session flagged for a discrepancy is closed only
\* by an engineer who voids it (close_session, flag_discrepancy): the renderers
\* and the requests work with the row as it is.
THEOREM FlaggedClosesVoided ==
  ASSUME Inference = {} PROVE Spec => []FlaggedClosesOnlyVoided
<1>1. Init => FlagInv
  BY DEF Init, FlagInv, FlaggedClosesOnlyVoided, Idle, Counters
<1>2. IInv /\ FlagInv /\ [Next]_vars => FlagInv'
  BY FlagInvStep DEF IInv
<1>3. FlagInv => FlaggedClosesOnlyVoided
  BY DEF FlagInv
<1> QED
  BY <1>1, <1>2, <1>3, IInvHolds, PTL DEF Spec

\* With w the only counting process, and until an engineer decides about s: what
\* was summed is current, a row that was loaded has the stored total, but for a
\* close in between, and so the total is right.
Current(w, s) ==
  /\ proc[w].sess = s /\ proc[w].pc = "summed" => proc[w].net = NetCount(s)
  /\ proc[w].sess = s /\ proc[w].view # NoRow =>
       \/ proc[w].view.total = session[s].total
       \/ proc[w].pc \in {"recorded", "summed"} /\ session[s].total = NetCount(s)
  /\ (proc[w].sess = s => proc[w].pc \notin {"recorded", "summed"})
       => session[s].total = NetCount(s)

NetInv(w) == \A s \in Sessions : decided[s] = {} => Current(w, s)

\* What becomes of the process: it is all that Current needs to know.
LEMMA CurrentKept ==
  ASSUME UNCHANGED <<proc, ledger>>, NEW w, NEW s \in Sessions, Current(w, s),
         session'[s].total = session[s].total
  PROVE  Current(w, s)'
BY DEF Current, NetCount, NetUpTo

LEMMA CurrentClosed ==
  ASSUME TypeOK, NEW w, NEW s \in Sessions, Current(w, s), NEW q \in Sessions, CloseSession(q)
  PROVE  Current(w, s)'
<1>1. UNCHANGED <<proc, ledger>>
  BY DEF CloseSession
<1>2. CASE q # s
  BY <1>1, <1>2, CloseWritesTotal, CurrentKept
<1>3. CASE q = s
  <2>1. session'[s].total = NetCount(s) /\ NetCount(s)' = NetCount(s)
    BY <1>1, <1>3, CloseWritesTotal DEF NetCount, NetUpTo
  <2> QED
    BY <1>1, <2>1 DEF Current
<1> QED
  BY <1>2, <1>3

\* The process records a crossing, of this session or of another.
LEMMA CurrentRecorded ==
  ASSUME IInv, NEW w \in Counters, NEW s \in Sessions, Current(w, s),
         NEW k \in Keys, NEW d \in Directions, RecordEvent(w, k, d)
  PROVE  Current(w, s)'
<1> DEFINE e == [sess |-> proc[w].sess, key |-> k, dir |-> d]
<1>t. proc \in [Counters -> ProcRecord] /\ ledger \in Seq(Event)
  BY DEF IInv, TypeOK, ProcRecord
<1>1. e \in Event /\ ledger' = Append(ledger, e) /\ session' = session /\ proc[w].pc = "ready"
  BY DEF RecordEvent, Event, IInv, BusyHasSession
<1>2. e.sess = proc[w].sess
  OBVIOUS
<1> HIDE DEF e
<1>3. /\ proc'[w].pc = "recorded" /\ proc'[w].sess = proc[w].sess
      /\ proc'[w].view = proc[w].view
  BY <1>t DEF RecordEvent, ProcRecord
<1>4. CASE proc[w].sess = s
  BY <1>1, <1>3, <1>4 DEF Current
<1>5. CASE proc[w].sess # s
  <2>1. NetCount(s)' = NetCount(s)
    BY <1>t, <1>1, <1>2, <1>5, NetAppended
  <2> QED
    BY <1>1, <1>3, <1>5, <2>1 DEF Current
<1> QED
  BY <1>4, <1>5

\* It writes the sum: the total is right again, and the row it keeps has it.
LEMMA CurrentUpdated ==
  ASSUME IInv, NEW w \in Counters, NEW s \in Sessions, Current(w, s), UpdateCountedTotal(w)
  PROVE  Current(w, s)'
<1> DEFINE q     == proc[w].sess
           total == Flushed(View(w).total, proc[w].net, session[q].total)
           row   == [View(w) EXCEPT !.total = proc[w].net]
<1>t. proc \in [Counters -> ProcRecord] /\ session \in [Sessions -> Row]
  BY DEF IInv, TypeOK, ProcRecord
<1>1. q \in Sessions /\ View(w) \in Row /\ proc[w].pc = "summed" /\ ledger' = ledger
  BY ViewIsRow DEF UpdateCountedTotal, IInv
<1>2. NetCount(s)' = NetCount(s)
  BY <1>1 DEF NetCount, NetUpTo
<1>3. session' = [session EXCEPT ![q].total = total]
  BY DEF UpdateCountedTotal
<1>4. /\ proc'[w].pc \in {"ready", "done"} /\ proc'[w].sess = q
      /\ proc'[w].view = NoRow \/ proc'[w].view = row
  <2>1. proc' = [proc EXCEPT ![w].pc = After(w), ![w].view = Kept(w, row)]
    BY DEF UpdateCountedTotal
  <2>2. proc' = [proc EXCEPT ![w] = [[proc[w] EXCEPT !.pc = After(w)] EXCEPT !.view = Kept(w, row)]]
    BY <1>t, <2>1
  <2>3. After(w) \in {"ready", "done"} /\ Kept(w, row) \in {NoRow, row}
    BY DEF After, Kept
  <2> HIDE DEF row
  <2> QED
    BY <1>t, <2>2, <2>3 DEF ProcRecord
<1>5. row.total = proc[w].net
  BY <1>1 DEF Row
<1> HIDE DEF row
<1>6. CASE q = s
  <2>1. proc[w].net = NetCount(s)
    BY <1>1, <1>6 DEF Current
  <2>2. total = NetCount(s)
    <3>1. CASE proc[w].view = NoRow
      <4>1. View(w) = session[q]
        BY <3>1 DEF View
      <4> QED
        BY <2>1, <4>1 DEF Flushed
    <3>2. CASE proc[w].view # NoRow
      <4>1. View(w) = proc[w].view
        BY <3>2 DEF View
      <4> QED
        BY <1>6, <2>1, <3>2, <4>1 DEF Flushed, Current
    <3> QED
      BY <3>1, <3>2
  <2> HIDE DEF total
  <2>3. session'[s].total = NetCount(s)
    BY <1>t, <1>3, <1>6, <2>2 DEF Row
  <2> QED
    BY <1>2, <1>4, <1>5, <2>1, <2>3 DEF Current
<1>7. CASE q # s
  <2>1. session'[s] = session[s]
    BY <1>t, <1>1, <1>3, <1>7
  <2> QED
    BY <1>2, <1>4, <1>7, <2>1 DEF Current
<1> QED
  BY <1>6, <1>7

\* The other steps of the process change no total, and what they load is what is
\* stored.
LEMMA CurrentOther ==
  ASSUME IInv, NEW w \in Counters, w \notin Crashable, NEW s \in Sessions, Current(w, s), Count(w),
         ~ UpdateCountedTotal(w), ~ \E k \in Keys, d \in Directions : RecordEvent(w, k, d)
  PROVE  Current(w, s)'
<1>t. proc \in [Counters -> ProcRecord] /\ session \in [Sessions -> Row]
  BY DEF IInv, TypeOK, ProcRecord
<1>1. session'[s].total = session[s].total
  BY CountKeepsTotals DEF IInv
<1>2. ledger' = ledger
  BY DEF Count, BeginBatch, BeginSimulation, EndBatch, EndSimulation, RecordDuplicate,
         SumLedger, UpdateAreaEstimate, MarkDegraded, FlagDiscrepancy, Crash
<1>3. NetCount(s)' = NetCount(s)
  BY <1>2 DEF NetCount, NetUpTo
<1>4. CASE BeginBatch(w) \/ BeginSimulation(w)
  <2>1. PICK q, row :
          /\ q \in Sessions /\ proc[w].pc = "idle"
          /\ proc' = [proc EXCEPT ![w] = [pc |-> "ready", sess |-> q, net |-> 0, view |-> row]]
          /\ row = NoRow \/ row.total = session[q].total
    <3>1. CASE BeginBatch(w)
      BY <3>1 DEF BeginBatch, Kept
    <3>2. CASE BeginSimulation(w)
      <4>1. PICK q \in Sessions, status \in {"open", "counting"} :
              proc' = [proc EXCEPT ![w] = [pc |-> "ready", sess |-> q, net |-> 0,
                                           view |-> [session[q] EXCEPT !.status = status]]]
        BY <3>2 DEF BeginSimulation
      <4>2. [session[q] EXCEPT !.status = status].total = session[q].total
        BY <1>t DEF Row
      <4> QED
        BY <3>2, <4>1, <4>2 DEF BeginSimulation
    <3> QED
      BY <1>4, <3>1, <3>2
  <2>2. proc'[w] = [pc |-> "ready", sess |-> q, net |-> 0, view |-> row]
    BY <1>t, <2>1
  <2> QED
    BY <1>1, <1>3, <2>1, <2>2 DEF Current
<1>5. CASE EndBatch(w) \/ EndSimulation(w)
  <2>1. proc'[w] = Idle /\ proc[w].pc \in {"ready", "done"}
    BY <1>t, <1>5 DEF EndBatch, EndSimulation
  <2>2. NoSession # s
    BY DEF NoSession, Sessions
  <2> QED
    BY <1>1, <1>3, <2>1, <2>2 DEF Current, Idle
<1>6. CASE \E k \in Keys : RecordDuplicate(w, k)
  <2>1. proc' = [proc EXCEPT ![w].pc = After(w), ![w].view = NoRow] /\ proc[w].pc = "ready"
    BY <1>6 DEF RecordDuplicate
  <2>2. proc' = [proc EXCEPT ![w] = [[proc[w] EXCEPT !.pc = After(w)] EXCEPT !.view = NoRow]]
    BY <1>t, <2>1
  <2>3. After(w) \in {"ready", "done"}
    BY DEF After
  <2>4. proc'[w].pc \in {"ready", "done"} /\ proc'[w].sess = proc[w].sess /\ proc'[w].view = NoRow
    BY <1>t, <2>2, <2>3 DEF ProcRecord
  <2> QED
    BY <1>1, <1>3, <2>1, <2>4 DEF Current
<1>7. CASE SumLedger(w)
  <2>1. /\ proc[w].pc = "recorded" /\ proc'[w].pc = "summed" /\ proc'[w].sess = proc[w].sess
        /\ proc'[w].net = NetCount(proc[w].sess) /\ proc'[w].view = proc[w].view
    <3>1. proc' = [proc EXCEPT ![w] =
                     [[proc[w] EXCEPT !.pc = "summed"] EXCEPT !.net = NetCount(proc[w].sess)]]
      BY <1>t, <1>7 DEF SumLedger
    <3> QED
      BY <1>t, <1>7, <3>1 DEF SumLedger, ProcRecord
  <2> QED
    BY <1>1, <1>3, <2>1 DEF Current
<1>8. CASE UpdateAreaEstimate(w) \/ MarkDegraded(w) \/ FlagDiscrepancy(w)
  <2>1. proc[w].pc = "ready" /\ proc[w].sess \in Sessions
    BY <1>8 DEF UpdateAreaEstimate, MarkDegraded, FlagDiscrepancy, IInv, BusyHasSession
  <2>2. PICK row :
          /\ proc' = [proc EXCEPT ![w].view = row]
          /\ row = NoRow \/ row = session'[proc[w].sess]
    <3>1. CASE UpdateAreaEstimate(w)
      BY <3>1 DEF UpdateAreaEstimate
    <3>2. CASE MarkDegraded(w)
      BY <1>t, <2>1, <3>2 DEF MarkDegraded
    <3>3. CASE FlagDiscrepancy(w)
      <4>1. PICK row : /\ session' = [session EXCEPT ![proc[w].sess] = row]
                       /\ proc' = [proc EXCEPT ![w].view = Kept(w, row)]
        BY <3>3 DEF FlagDiscrepancy
      <4> QED
        BY <1>t, <2>1, <4>1 DEF Kept
    <3> QED
      BY <1>8, <3>1, <3>2, <3>3
  <2>3. proc'[w].pc = "ready" /\ proc'[w].sess = proc[w].sess /\ proc'[w].view = row
    BY <1>t, <2>1, <2>2 DEF ProcRecord
  <2> QED
    BY <1>1, <1>3, <2>1, <2>2, <2>3 DEF Current
<1>9. ~ Crash(w)
  BY DEF Crash
<1> QED
  BY <1>4, <1>5, <1>6, <1>7, <1>8, <1>9 DEF Count

LEMMA NetInvStep ==
  ASSUME NEW w, Counters = {w}, Crashable = {}, IInv, NetInv(w), [Next]_vars
  PROVE  NetInv(w)'
<1> SUFFICES ASSUME NEW s \in Sessions, decided'[s] = {} PROVE Current(w, s)'
  BY DEF NetInv
<1>t. TypeOK /\ decided \in [Sessions -> SUBSET Int]
  BY DEF IInv, TypeOK
<1>0. Current(w, s)
  BY <1>t, DecidedGrows DEF NetInv
<1>1. CASE Operator
  <2>1. ASSUME NEW q \in Sessions, CloseSession(q) PROVE Current(w, s)'
    BY <1>t, <1>0, <2>1, CurrentClosed
  <2>2. CASE \A q \in Sessions : ~ CloseSession(q)
    <3>1. UNCHANGED <<proc, ledger>>
      BY <1>1, <2>2 DEF Operator, OpenCheck, OpenInsert, PauseSession, ResumeSession, SubmitSession
    <3> QED
      BY <1>t, <1>0, <1>1, <2>2, <3>1, OperatorKeepsTotals, CurrentKept
  <2> QED
    BY <2>1, <2>2
<1>2. ASSUME NEW p \in Counters, Count(p) PROVE Current(w, s)'
  BY <1>0, <1>2, CurrentRecorded, CurrentUpdated, CurrentOther
<1>3. CASE Review
  <2>1. UNCHANGED <<proc, ledger>>
    BY <1>3 DEF Review, CreateReconciliation, ResolveReconciliation
  <2>2. session'[s].total = session[s].total
    BY <1>t, <1>3, ReviewTotal
  <2> QED
    BY <1>0, <2>1, <2>2, CurrentKept
<1>4. CASE UNCHANGED vars
  BY <1>0, <1>4, CurrentKept DEF vars
<1> QED
  BY <1>1, <1>2, <1>3, <1>4 DEF Next

\* A counting process that is alone, and that nobody kills, keeps the total at
\* the ledger's sum between crossings, over closes, discrepancies and resolved
\* cases, with whatever row it loaded (CountingEventHandler.handle_gate_crossing).
THEOREM SingleWriterTotals ==
  ASSUME NEW w, Counters = {w}, Crashable = {}
  PROVE  Spec => []TotalIsNetCount
<1>1. Init => NetInv(w)
  <2> SUFFICES ASSUME Init, NEW s \in Sessions PROVE Current(w, s)
    BY DEF NetInv
  <2>1. proc[w] = Idle /\ session[s].total = 0 /\ ledger = <<>>
    BY DEF Init
  <2>2. NetCount(s) = 0
    <3>1. \A d : {i \in 1 .. 0 : ledger[i].sess = s /\ ledger[i].dir = d} = {}
      OBVIOUS
    <3>2. NetUpTo(s, 0) = Cardinality({}) - Cardinality({})
      BY <3>1 DEF NetUpTo
    <3> QED
      BY <2>1, <3>2, FS_EmptySet DEF NetCount
  <2> QED
    BY <2>1, <2>2 DEF Current, Idle
<1>2. IInv /\ NetInv(w) /\ [Next]_vars => NetInv(w)'
  BY NetInvStep
<1>3. NetInv(w) => TotalIsNetCount
  BY DEF NetInv, Current, TotalIsNetCount
<1> QED
  BY <1>1, <1>2, <1>3, IInvHolds, PTL DEF Spec

\* Who makes a closed or reconciled session count again: a simulated crossing, or
\* an inference worker that degrades the row as it loaded it once.
LEMMA ReopenedOnlyBy ==
  ASSUME TypeOK, BusyHasSession, [Next]_vars, NEW s \in Sessions,
         session[s].status \in {"closed", "reconciled"}, session'[s].status \in Active
  PROVE  \E p \in Counters : BeginSimulation(p) \/ MarkDegraded(p)
<1> SUFFICES ASSUME \A p \in Counters : ~ BeginSimulation(p) /\ ~ MarkDegraded(p)
             PROVE  session'[s].status \notin Active
  OBVIOUS
<1>t. session \in [Sessions -> Row]
  BY DEF TypeOK
<1>1. {"closed", "reconciled", "reconcile_required"} \cap Active = {}
  BY DEF Active
\* It is enough that the status becomes none of the active ones.
<1>s. ASSUME NEW q \in Sessions, NEW row, session' = [session EXCEPT ![q] = row],
             row.status \in {session[q].status, "closed", "reconciled", "reconcile_required"}
      PROVE  session'[s].status \notin Active
  BY <1>t, <1>1, <1>s
<1>u. ASSUME session' = session PROVE session'[s].status \notin Active
  BY <1>1, <1>u
<1>2. CASE Operator
  <2>1. ASSUME NEW q \in Sessions, CloseSession(q) PROVE session'[s].status \notin Active
    <3> DEFINE row == [status  |-> IF session[q].status = "degraded" \/ session[q].flagged
                                     THEN "reconcile_required" ELSE "closed",
                       total   |-> NetCount(q),
                       flagged |-> session[q].flagged,
                       locked  |-> TRUE]
    <3>1. session' = [session EXCEPT ![q] = row] /\ row.status \in {"closed", "reconcile_required"}
      BY <2>1 DEF CloseSession
    <3> HIDE DEF row
    <3> QED
      BY <1>s, <3>1
  <2>2. ASSUME NEW q \in Sessions, PauseSession(q) \/ ResumeSession(q)
        PROVE  session'[s].status \notin Active
    <3>1. q # s /\ \E status : session' = [session EXCEPT ![q].status = status]
      BY <2>2 DEF PauseSession, ResumeSession
    <3> QED
      BY <1>t, <1>1, <3>1
  <2>3. ASSUME NEW o \in Operators, OpenInsert(o) PROVE session'[s].status \notin Active
    <3>1. PICK q \in Sessions : q # s /\ session' = [session EXCEPT ![q].status = "open"]
      BY <2>3 DEF OpenInsert, Created
    <3> QED
      BY <1>t, <1>1, <3>1
  <2>4. ASSUME (\E o \in Operators : OpenCheck(o)) \/ (\E q \in Sessions : SubmitSession(q))
        PROVE  session'[s].status \notin Active
    BY <1>u, <2>4 DEF OpenCheck, SubmitSession
  <2> QED
    BY <1>2, <2>1, <2>2, <2>3, <2>4 DEF Operator
<1>3. ASSUME NEW p \in Counters, Count(p) PROVE session'[s].status \notin Active
  <2>1. CASE UpdateCountedTotal(p)
    <3>1. PICK q, total : session' = [session EXCEPT ![q].total = total]
      BY <2>1 DEF UpdateCountedTotal
    <3>2. session'[s].status = session[s].status
      BY <1>t, <3>1 DEF Row
    <3> QED
      BY <1>1, <3>2
  <2>2. CASE FlagDiscrepancy(p)
    <3> DEFINE q == proc[p].sess
    <3>1. q \in Sessions
      BY <2>2 DEF FlagDiscrepancy, BusyHasSession
    <3>2. PICK flag, stat :
            /\ session' = [session EXCEPT ![q] = [session[q] EXCEPT !.flagged = flag, !.status = stat]]
            /\ stat \in {session[q].status, "reconcile_required"}
      BY <2>2 DEF FlagDiscrepancy, Flushed
    <3>3. [session[q] EXCEPT !.flagged = flag, !.status = stat].status = stat
      BY <1>t, <3>1 DEF Row
    <3> QED
      BY <1>s, <3>1, <3>2, <3>3
  <2>3. ASSUME ~ UpdateCountedTotal(p), ~ FlagDiscrepancy(p) PROVE session' = session
    BY <1>3, <2>3 DEF Count, BeginBatch, EndBatch, EndSimulation, RecordEvent, RecordDuplicate,
                      SumLedger, UpdateAreaEstimate, Crash
  <2> QED
    BY <1>u, <2>1, <2>2, <2>3
<1>4. CASE Review
  <2>1. session'[s].status \in {session[s].status, "reconcile_required", "reconciled", "closed"}
    <3>1. CASE \E i \in 1 .. MaxOutbox : CreateReconciliation(i)
      <4>1. PICK q : session' = [session EXCEPT ![q].status = "reconcile_required"]
        BY <3>1 DEF CreateReconciliation
      <4> QED
        BY <1>t, <4>1 DEF Row
    <3>2. CASE \E r \in 1 .. MaxOutbox : ResolveReconciliation(r)
      <4>1. PICK q, total :
              \/ session' = [session EXCEPT ![q].status = "reconciled"]
              \/ session' = [session EXCEPT ![q].status = "reconciled", ![q].total = total]
              \/ session' = [session EXCEPT ![q].status = "closed", ![q].total = total]
        BY <3>2 DEF ResolveReconciliation
      <4>2. CASE session' = [session EXCEPT ![q].status = "reconciled"]
        BY <1>t, <4>2 DEF Row
      <4>3. CASE session' = [session EXCEPT ![q].status = "reconciled", ![q].total = total]
        BY <1>t, <4>3 DEF Row
      <4>4. CASE session' = [session EXCEPT ![q].status = "closed", ![q].total = total]
        BY <1>t, <4>4 DEF Row
      <4> QED
        BY <4>1, <4>2, <4>3, <4>4
    <3> QED
      BY <1>4, <3>1, <3>2 DEF Review
  <2> QED
    BY <1>1, <2>1
<1>5. CASE UNCHANGED vars
  BY <1>u, <1>5 DEF vars
<1> QED
  BY <1>2, <1>3, <1>4, <1>5 DEF Next

\* Where neither of them runs, a session that was closed or reconciled counts no
\* more: the operators' requests, the renderers and the relay cannot reopen it.
THEOREM ClosedStays ==
  ASSUME Inference = {}, Simulators = {} PROVE Spec => ClosedStaysInactive
<1>1. IInv /\ [Next]_vars =>
        \A s \in Sessions :
          session[s].status \in {"closed", "reconciled"} => session'[s].status \notin Active
  <2> SUFFICES ASSUME IInv, [Next]_vars, NEW s \in Sessions,
                      session[s].status \in {"closed", "reconciled"}, session'[s].status \in Active
               PROVE  FALSE
    OBVIOUS
  <2>1. PICK p \in Counters : BeginSimulation(p) \/ MarkDegraded(p)
    BY ReopenedOnlyBy DEF IInv
  <2> QED
    BY <2>1 DEF BeginSimulation, MarkDegraded
<1> QED
  BY <1>1, IInvHolds, PTL DEF Spec, ClosedStaysInactive
=============================================================================
