---------------------------- MODULE SessionLedger ----------------------------
(***************************************************************************)
(* The counting core of one line: the session rows, the count-event        *)
(* ledger, the processes that write both, and the reconciliation cases.    *)
(*                                                                         *)
(*   Inference   InferenceWorker.run_step: one database session per batch, *)
(*               whose identity map keeps the session row as first loaded  *)
(*               (expire_on_commit=False, no populate_existing)            *)
(*   Renderers   threads of get_stream_generator: a new database session   *)
(*               per frame, so every row is loaded afresh                  *)
(*   Simulators  requests of POST /sessions/{id}/simulate_bag              *)
(*   Operators   requests of POST /sessions (open)                         *)
(*                                                                         *)
(* An action is what happens up to a commit, or up to a read that takes no *)
(* lock on what is read; anyone may act before the handler's next action.  *)
(* The database runs at READ COMMITTED and the SELECT ... FOR UPDATE of a   *)
(* session row holds it until the commit (PostgreSQL).  The ledger's key    *)
(* (camera, epoch, track, gate, crossing_seq) is one member of Keys.       *)
(***************************************************************************)
EXTENDS Integers, Sequences, FiniteSets

CONSTANTS
  Inference, Renderers, Simulators, Operators,
  Crashable,     \* the processes that may be killed between two transactions
  Keys,          \* crossing identities
  Directions,    \* +1 forward, -1 backward
  Overrides,     \* counts an engineer may enter in a manual override
  MaxSessions,   \* bound: rows of table session
  MaxEvents,     \* bound: rows of table count_event
  MaxOutbox,     \* bound: rows of table outbox
  NoRow          \* nothing loaded in the identity map

Sessions  == 1 .. MaxSessions
NoSession == 0
Counters  == Inference \cup Renderers \cup Simulators

Active   == {"open", "counting", "paused", "degraded"}
Statuses == Active \cup {"none", "closed", "reconcile_required", "reconciled"}

Row   == [status : Statuses, total : Int, flagged : BOOLEAN, locked : BOOLEAN]
Event == [sess : Sessions, key : Keys, dir : Directions]

ASSUME BoundsAssumption ==
  MaxSessions \in Nat \ {0} /\ MaxEvents \in Nat /\ MaxOutbox \in Nat
ASSUME DirectionsAssumption == Directions \subseteq {1, -1}
ASSUME OverridesAssumption  == Overrides \subseteq Int
ASSUME NoRowAssumption      == NoRow \notin Row
ASSUME CrashableAssumption  == Crashable \subseteq Counters
\* A process runs one handler: get_stream_generator and simulate_bag_crossing are
\* different requests.
ASSUME KindsAssumption      == Renderers \cap Simulators = {}

VARIABLES
  session,   \* table session; status "none" where no row was inserted yet
  ledger,    \* table count_event, in insertion order
  proc,      \* the handler each counting process is in the middle of
  opener,    \* how far each open request got
  outbox,    \* table outbox: the count each submission carries
  recs,      \* table reconciliation
  decided    \* history: the counts engineers put in place of the ledger's

vars == <<session, ledger, proc, opener, outbox, recs, decided>>

Idle == [pc |-> "idle", sess |-> NoSession, net |-> 0, view |-> NoRow]

Init ==
  /\ session = [s \in Sessions |->
                  [status |-> "none", total |-> 0, flagged |-> FALSE, locked |-> FALSE]]
  /\ ledger  = <<>>
  /\ proc    = [p \in Counters |-> Idle]
  /\ opener  = [o \in Operators |-> "idle"]
  /\ outbox  = <<>>
  /\ recs    = <<>>
  /\ decided = [s \in Sessions |-> {}]

-----------------------------------------------------------------------------
(* Queries *)

Created(s) == session[s].status # "none"

ActiveSessions == {s \in Sessions : session[s].status \in Active}

\* get_active_session: the most recently opened of the active ones.
IsCurrent(s) == s \in ActiveSessions /\ \A t \in ActiveSessions : t <= s

\* SUM(direction) over the first n rows of the ledger, for session s.
NetUpTo(s, n) ==
  LET Rows(d) == {i \in 1 .. n : ledger[i].sess = s /\ ledger[i].dir = d}
  IN  Cardinality(Rows(1)) - Cardinality(Rows(-1))

\* get_session_total_count
NetCount(s) == NetUpTo(s, Len(ledger))

\* The unique constraint uq_count_event_idempotency.
Recorded(s, k) == \E i \in DOMAIN ledger : ledger[i].sess = s /\ ledger[i].key = k

\* The row p's database session works with: the one its identity map holds, or
\* else the one the SELECT ... FOR UPDATE loads.
View(p) == IF proc[p].view = NoRow THEN session[proc[p].sess] ELSE proc[p].view

\* A flush writes an attribute only when it differs from the value loaded.
Flushed(loaded, new, stored) == IF new = loaded THEN stored ELSE new

\* What stays in the identity map after a row was loaded: only InferenceWorker
\* and simulate_bag hold a reference to it.
Kept(p, row) == IF p \in Renderers THEN NoRow ELSE row

-----------------------------------------------------------------------------
(* Session lifecycle: services/api/routes.py over SessionRepository *)

\* create_session, first half: no active session on the line was found.
OpenCheck(o) ==
  /\ opener[o] = "idle"
  /\ ActiveSessions = {}
  /\ Cardinality({t \in Sessions : ~ Created(t)})
       > Cardinality({q \in Operators : opener[q] = "checked"})
  /\ opener' = [opener EXCEPT ![o] = "checked"]
  /\ UNCHANGED <<session, ledger, proc, outbox, recs, decided>>

\* create_session, second half: insert the row with the next id.
OpenInsert(o) ==
  /\ opener[o] = "checked"
  /\ \E s \in Sessions :
       /\ ~ Created(s) /\ \A t \in 1 .. s - 1 : Created(t)
       /\ session' = [session EXCEPT ![s].status = "open"]
  /\ opener' = [opener EXCEPT ![o] = "idle"]
  /\ UNCHANGED <<ledger, proc, outbox, recs, decided>>

PauseSession(s) ==
  /\ session[s].status \in {"open", "counting"}
  /\ session' = [session EXCEPT ![s].status = "paused"]
  /\ UNCHANGED <<ledger, proc, opener, outbox, recs, decided>>

\* Bug: resume_session without its status test.
ResumeSessionAnyStatus(s) ==
  /\ Created(s) /\ session[s].status # "counting"
  /\ session' = [session EXCEPT ![s].status = "counting"]
  /\ UNCHANGED <<ledger, proc, opener, outbox, recs, decided>>

ResumeSession(s) ==
  /\ session[s].status = "paused"
  /\ session' = [session EXCEPT ![s].status = "counting"]
  /\ UNCHANGED <<ledger, proc, opener, outbox, recs, decided>>

\* Bug: close_session forgets the discrepancy flag.
CloseSessionIgnoringFlag(s) ==
  /\ Created(s)
  /\ session' = [session EXCEPT
       ![s] = [status  |-> IF @.status = "degraded" THEN "reconcile_required" ELSE "closed",
               total   |-> NetCount(s),
               flagged |-> @.flagged,
               locked  |-> TRUE]]
  /\ UNCHANGED <<ledger, proc, opener, outbox, recs, decided>>

\* close_session looks at no status: any row can be closed, or closed again.
CloseSession(s) ==
  /\ Created(s)
  /\ session' = [session EXCEPT
       ![s] = [status  |-> IF @.status = "degraded" \/ @.flagged
                             THEN "reconcile_required" ELSE "closed",
               total   |-> NetCount(s),
               flagged |-> @.flagged,
               locked  |-> TRUE]]
  /\ UNCHANGED <<ledger, proc, opener, outbox, recs, decided>>

\* submit_session_to_erp: the only status it refuses is reconcile_required.
SubmitSession(s) ==
  /\ Created(s) /\ session[s].status # "reconcile_required"
  /\ Len(outbox) < MaxOutbox
  /\ outbox' = Append(outbox, [sess |-> s, count |-> session[s].total, escalated |-> FALSE])
  /\ UNCHANGED <<session, ledger, proc, opener, recs, decided>>

-----------------------------------------------------------------------------
(* Counting: the callers of CountingEventHandler *)

\* InferenceWorker.run_step reads the active session once for the batch;
\* get_stream_generator reads its id and keeps only that.
BeginBatch(p) ==
  /\ p \in Inference \cup Renderers /\ proc[p].pc = "idle"
  /\ \E s \in Sessions :
       /\ IsCurrent(s)
       /\ proc' = [proc EXCEPT ![p] =
            [pc |-> "ready", sess |-> s, net |-> 0, view |-> Kept(p, session[s])]]
  /\ UNCHANGED <<session, ledger, opener, outbox, recs, decided>>

\* simulate_bag_crossing up to the crossing: any session is put to counting.
BeginSimulation(p) ==
  /\ p \in Simulators /\ proc[p].pc = "idle"
  /\ \E s \in Sessions :
       LET status == IF session[s].status \in {"open", "counting"}
                       THEN session[s].status ELSE "counting"
       IN  /\ Created(s)
           /\ session' = [session EXCEPT ![s].status = status]
           /\ proc' = [proc EXCEPT ![p] =
                [pc |-> "ready", sess |-> s, net |-> 0,
                 view |-> [session[s] EXCEPT !.status = status]]]
  /\ UNCHANGED <<ledger, opener, outbox, recs, decided>>

\* End of the batch, of the frame loop's cached second, or of the request.
EndBatch(p) ==
  /\ proc[p].pc = "ready"
  /\ proc' = [proc EXCEPT ![p] = Idle]
  /\ UNCHANGED <<session, ledger, opener, outbox, recs, decided>>

\* A simulate_bag request carries one crossing, a batch any number.
After(p) == IF p \in Simulators THEN "done" ELSE "ready"

\* Bug: no unique constraint on count_event.
RecordEventAlways(p, k, d) ==
  /\ proc[p].pc = "ready"
  /\ Len(ledger) < MaxEvents
  /\ ledger' = Append(ledger, [sess |-> proc[p].sess, key |-> k, dir |-> d])
  /\ proc' = [proc EXCEPT ![p].pc = "recorded"]
  /\ UNCHANGED <<session, opener, outbox, recs, decided>>

\* record_event inserts the crossing ...
RecordEvent(p, k, d) ==
  /\ proc[p].pc = "ready"
  /\ ~ Recorded(proc[p].sess, k)
  /\ Len(ledger) < MaxEvents
  /\ ledger' = Append(ledger, [sess |-> proc[p].sess, key |-> k, dir |-> d])
  /\ proc' = [proc EXCEPT ![p].pc = "recorded"]
  /\ UNCHANGED <<session, opener, outbox, recs, decided>>

\* ... or hits the constraint: its rollback expires what was loaded.
RecordDuplicate(p, k) ==
  /\ proc[p].pc = "ready"
  /\ Recorded(proc[p].sess, k)
  /\ proc' = [proc EXCEPT ![p].pc = After(p), ![p].view = NoRow]
  /\ UNCHANGED <<session, ledger, opener, outbox, recs, decided>>

\* Bug: the loaded total plus the newest crossing instead of the ledger's sum.
SumLedgerIncrementally(p) ==
  /\ proc[p].pc = "recorded"
  /\ proc' = [proc EXCEPT ![p].pc = "summed",
                          ![p].net = View(p).total + ledger[Len(ledger)].dir]
  /\ UNCHANGED <<session, ledger, opener, outbox, recs, decided>>

\* handle_gate_crossing reads the sum, which locks nothing ...
SumLedger(p) ==
  /\ proc[p].pc = "recorded"
  /\ proc' = [proc EXCEPT ![p].pc = "summed", ![p].net = NetCount(proc[p].sess)]
  /\ UNCHANGED <<session, ledger, opener, outbox, recs, decided>>

\* Bug: a total that only ever goes up.
UpdateCountedTotalUpwards(p) ==
  LET s == proc[p].sess IN
  /\ proc[p].pc = "summed"
  /\ session' = [session EXCEPT ![s].total = IF proc[p].net > @ THEN proc[p].net ELSE @]
  /\ proc' = [proc EXCEPT ![p].pc = After(p), ![p].view = Kept(p, session'[s])]
  /\ UNCHANGED <<ledger, opener, outbox, recs, decided>>

\* ... and then locks the row and writes the sum: update_counted_total.
UpdateCountedTotal(p) ==
  LET s     == proc[p].sess
      total == Flushed(View(p).total, proc[p].net, session[s].total)
  IN
  /\ proc[p].pc = "summed"
  /\ session' = [session EXCEPT ![s].total = total]
  /\ proc' = [proc EXCEPT ![p].pc = After(p),
                          ![p].view = Kept(p, [View(p) EXCEPT !.total = proc[p].net])]
  /\ UNCHANGED <<ledger, opener, outbox, recs, decided>>

\* update_area_estimate, at the end of every frame: of what is modelled here
\* it changes the identity map, which gets the row back after a rollback.
UpdateAreaEstimate(p) ==
  /\ p \in Inference /\ proc[p].pc = "ready" /\ proc[p].view = NoRow
  /\ proc' = [proc EXCEPT ![p].view = session[proc[p].sess]]
  /\ UNCHANGED <<session, ledger, opener, outbox, recs, decided>>

EndSimulation(p) ==
  /\ proc[p].pc = "done"
  /\ proc' = [proc EXCEPT ![p] = Idle]
  /\ UNCHANGED <<session, ledger, opener, outbox, recs, decided>>

\* mark_degraded, for a camera with too many consecutive drops: the status it
\* tests is the loaded one.
MarkDegraded(p) ==
  LET s   == proc[p].sess
      row == [session[s] EXCEPT !.status = "degraded"]
  IN
  /\ p \in Inference /\ proc[p].pc = "ready"
  /\ View(p).status \in {"open", "counting"}
  /\ session' = [session EXCEPT ![s] = row]
  /\ proc' = [proc EXCEPT ![p].view = row]
  /\ UNCHANGED <<ledger, opener, outbox, recs, decided>>

\* flag_discrepancy, when count and area estimate disagree.
FlagDiscrepancy(p) ==
  LET s   == proc[p].sess
      row == [session[s] EXCEPT
                !.flagged = Flushed(View(p).flagged, TRUE, @),
                !.status  = Flushed(View(p).status, "reconcile_required", @)]
  IN
  /\ p \in Inference \cup Renderers /\ proc[p].pc = "ready"
  /\ session' = [session EXCEPT ![s] = row]
  /\ proc' = [proc EXCEPT ![p].view = Kept(p, row)]
  /\ UNCHANGED <<ledger, opener, outbox, recs, decided>>

\* The process dies between two transactions; its supervisor starts it again.
Crash(p) ==
  /\ p \in Crashable /\ proc[p].pc # "idle"
  /\ proc' = [proc EXCEPT ![p] = Idle]
  /\ UNCHANGED <<session, ledger, opener, outbox, recs, decided>>

-----------------------------------------------------------------------------
(* Reconciliation: ReconciliationRepository *)

\* create_reconciliation, whose only caller is the relay, once for an outbox
\* entry that it could not deliver.
CreateReconciliation(i) ==
  /\ i \in DOMAIN outbox /\ ~ outbox[i].escalated
  /\ outbox'  = [outbox EXCEPT ![i].escalated = TRUE]
  /\ recs'    = Append(recs, [sess |-> outbox[i].sess, resolution |-> "none"])
  /\ session' = [session EXCEPT ![outbox[i].sess].status = "reconcile_required"]
  /\ UNCHANGED <<ledger, proc, opener, decided>>

\* resolve_reconciliation: the case may be resolved already, the session in
\* any status; accept_system and an override without a count keep the total.
ResolveReconciliation(r) ==
  /\ r \in DOMAIN recs
  /\ LET s == recs[r].sess IN
     \/ \E resolution \in {"accept_system", "manual_override"} :
          /\ recs' = [recs EXCEPT ![r].resolution = resolution]
          /\ session' = [session EXCEPT ![s].status = "reconciled"]
          /\ UNCHANGED decided
     \/ \E count \in Overrides :
          /\ recs' = [recs EXCEPT ![r].resolution = "manual_override"]
          /\ session' = [session EXCEPT ![s].status = "reconciled", ![s].total = count]
          /\ decided' = [decided EXCEPT ![s] = @ \cup {count}]
     \/ /\ recs' = [recs EXCEPT ![r].resolution = "void_session"]
        /\ session' = [session EXCEPT ![s].status = "closed", ![s].total = 0]
        /\ decided' = [decided EXCEPT ![s] = @ \cup {0}]
  /\ UNCHANGED <<ledger, proc, opener, outbox>>

-----------------------------------------------------------------------------
Operator ==
  \/ \E o \in Operators : OpenCheck(o) \/ OpenInsert(o)
  \/ \E s \in Sessions :
       PauseSession(s) \/ ResumeSession(s) \/ CloseSession(s) \/ SubmitSession(s)

Count(p) ==
  \/ BeginBatch(p) \/ BeginSimulation(p) \/ EndBatch(p) \/ EndSimulation(p)
  \/ \E k \in Keys : RecordDuplicate(p, k) \/ \E d \in Directions : RecordEvent(p, k, d)
  \/ SumLedger(p) \/ UpdateCountedTotal(p) \/ UpdateAreaEstimate(p)
  \/ MarkDegraded(p) \/ FlagDiscrepancy(p)
  \/ Crash(p)

Review ==
  \/ \E i \in 1 .. MaxOutbox : CreateReconciliation(i)
  \/ \E r \in 1 .. MaxOutbox : ResolveReconciliation(r)

Next == Operator \/ (\E p \in Counters : Count(p)) \/ Review

Spec == Init /\ [][Next]_vars

\* A handler that recorded a crossing runs on to the end: nothing in it waits
\* for another process.
Handling(p) == SumLedger(p) \/ UpdateCountedTotal(p)
FairSpec == Spec /\ \A p \in Counters : WF_vars(Handling(p))

-----------------------------------------------------------------------------
(* Properties *)

\* Every variable stays within its type.
TypeOK ==
  /\ session \in [Sessions -> Row]
  /\ ledger  \in Seq(Event)
  /\ proc \in [Counters -> [pc   : {"idle", "ready", "recorded", "summed", "done"},
                            sess : Sessions \cup {NoSession},
                            net  : Int,
                            view : Row \cup {NoRow}]]
  /\ opener  \in [Operators -> {"idle", "checked"}]
  /\ outbox  \in Seq([sess : Sessions, count : Int, escalated : BOOLEAN])
  /\ recs    \in Seq([sess : Sessions,
                      resolution : {"none", "accept_system", "manual_override", "void_session"}])
  /\ decided \in [Sessions -> SUBSET Int]

\* However often a crossing is redelivered, and by however many processes, the
\* ledger holds it once per session (LedgerRepository.record_event).
UniqueCrossing ==
  \A i, j \in DOMAIN ledger :
    ledger[i].sess = ledger[j].sess /\ ledger[i].key = ledger[j].key => i = j

\* The net counts a session has had since it was opened.
PastCounts(s) == {NetUpTo(s, n) : n \in 0 .. Len(ledger)}

\* Those, and the counts engineers decided on.
Known(s) == PastCounts(s) \cup decided[s]

\* A total on display is never made up: it is what the ledger of that session
\* summed to at some moment, or what an engineer decided, even though handlers
\* overtake each other between reading the sum and writing it, and crash there.
TotalWasOnceTrue ==
  \A s \in Sessions : session[s].total \in Known(s)

\* The counts put in the outbox for the ERP are such totals too.
SubmittedWasOnceTrue ==
  \A i \in DOMAIN outbox : outbox[i].count \in Known(outbox[i].sess)

\* A session flagged for a count/area discrepancy is not "closed" unless an
\* engineer voided it: closing it, simulating bags in it or degrading it all
\* lead back to reconcile_required.
FlaggedClosesOnlyVoided ==
  \A s \in Sessions :
    session[s].status = "closed" /\ session[s].flagged => 0 \in decided[s]

\* Between crossings the total is the ledger's net sum, until an engineer
\* decides otherwise (CountingEventHandler.handle_gate_crossing).
TotalIsNetCount ==
  \A s \in Sessions :
    (\A p \in Counters : proc[p].sess = s => proc[p].pc \notin {"recorded", "summed"})
    /\ decided[s] = {}
      => session[s].total = NetCount(s)

\* Once closed or reconciled, a session counts no more: it leaves these states
\* only for reconcile_required.
ClosedStaysInactive ==
  [][\A s \in Sessions :
       session[s].status \in {"closed", "reconciled"} => session'[s].status \notin Active]_vars

\* A crossing in the ledger is in the total sooner or later, or an engineer has
\* decided about its session.
CrossingsReachTotal ==
  \A s \in Sessions : []<>(session[s].total = NetCount(s) \/ decided[s] # {})

CountedKeys(s) == {ledger[i].key : i \in {j \in DOMAIN ledger : ledger[j].sess = s}}

Abstract == INSTANCE CrossingCounter WITH
  counted <- [s \in Sessions |-> CountedKeys(s)],
  net     <- [s \in Sessions |-> NetCount(s)],
  known   <- [s \in Sessions |-> Known(s)],
  shown   <- [s \in Sessions |-> session[s].total]

\* Together the processes implement the counter CrossingCounter specifies: seen
\* from the ledger and the totals alone, every crossing is counted at most once
\* and never taken back, and totals are late at worst.
ImplementsCounter == Abstract!Spec

=============================================================================
