------------------------------ MODULE ErpRelay ------------------------------
(***************************************************************************)
(* Outbox delivery: the outbox table, the ErpRelayWorker processes that    *)
(* claim its entries, the ERP adapters they submit through, and the ERP.   *)
(*                                                                         *)
(* A relay claims a batch in one UPDATE, then works through it entry by    *)
(* entry: submit (no database transaction is open), perhaps a status       *)
(* query, one commit that moves the entry on and, for an entry given up,   *)
(* one more that opens the reconciliation case.  It may be killed between  *)
(* any two of these, and an exception ends its loop just the same.         *)
(***************************************************************************)
EXTENDS Integers, FiniteSets

CONSTANTS
  Relays,        \* ErpRelayWorker processes
  Crashable,     \* the relays that may die
  MaxEntries,    \* bound: rows of table outbox
  WithRef,       \* the entries whose session has an external_ref
  Adapters,      \* the adapters a deployment may be configured with
  BatchLimit,    \* entries per claim; 5 in the code
  MaxAttempts    \* attempts before an entry is given up; 5 in the code

Entries == 1 .. MaxEntries

\* "ecc_gateway" is SapEccErpAdapter with an endpoint or an export directory,
\* "ecc_default" the one without, that resolve_erp_adapter makes; the two
\* "odata" are the service types of SapODataErpAdapter.
KnownAdapters == {"csv", "odata_document", "odata_delivery", "ecc_gateway", "ecc_default"}

ASSUME EntriesAssumption   == MaxEntries \in Nat /\ WithRef \subseteq Entries
ASSUME CrashableAssumption == Crashable \subseteq Relays
ASSUME AdaptersAssumption  == Adapters \subseteq KnownAdapters
ASSUME LimitsAssumption    == BatchLimit \in Nat \ {0} /\ MaxAttempts \in Nat \ {0}

VARIABLES
  adapter,   \* ERP_ADAPTER of this deployment
  entry,     \* table outbox; status "none" where no row was inserted yet
  relay,     \* what each relay is doing, to which entries
  posted,    \* posted[e]: documents the ERP holds of entry e
  cases,     \* cases[e]: reconciliation rows opened for entry e
  orphaned   \* history: the entries a relay died with

vars == <<adapter, entry, relay, posted, cases, orphaned>>

Polling == [pc |-> "poll", batch |-> {}]

Init ==
  /\ adapter \in Adapters
  /\ entry    = [e \in Entries |-> [status |-> "none", attempts |-> 0, due |-> FALSE]]
  /\ relay    = [r \in Relays |-> Polling]
  /\ posted   = [e \in Entries |-> 0]
  /\ cases    = [e \in Entries |-> 0]
  /\ orphaned = {}

-----------------------------------------------------------------------------
(* The adapters *)

\* Only CsvErpAdapter says it does not.
SupportsStatusQuery == adapter # "csv"

\* What submit_session returns, and whether the ERP got the document: a request
\* that times out, or a file write that fails, may have done its work.
AnyOutcome == [success : {TRUE}, arrived : {TRUE}] \cup [success : {FALSE}, arrived : BOOLEAN]

\* Requests and file writes inside a try block.
OdataOutcomes == AnyOutcome
CsvOutcomes   == AnyOutcome

\* The write of "ecc_default" is in no try block: failing, it ends the relay
\* (Crash) instead of returning.
EccOutcomes == {o \in AnyOutcome : o.success \/ adapter = "ecc_gateway"}

SubmitOutcomes ==
  CASE adapter = "csv" -> CsvOutcomes
    [] adapter \in {"odata_document", "odata_delivery"} -> OdataOutcomes
    [] adapter \in {"ecc_gateway", "ecc_default"} -> EccOutcomes

\* The header text of a material document is "Delivery <ref>", which the filter
\* for <ref> never finds; the delivery that a session refers to exists before
\* anything was posted to it, but SAP may not answer.
OdataAnswers == IF adapter = "odata_document" THEN {FALSE} ELSE {TRUE, FALSE}

\* ECC says "posted" without asking.
EccAnswers == {TRUE}

\* Bug: the filter of the query finds the header text of any document.
QueryAnswersAlwaysFound == {TRUE, FALSE}

\* Bug: no answer is ever believed.
QueryAnswersNeverFound == {FALSE}

\* Whether query_status may say "posted".
QueryAnswers ==
  IF adapter \in {"odata_document", "odata_delivery"} THEN OdataAnswers ELSE EccAnswers

-----------------------------------------------------------------------------
(* The outbox: OutboxRepository *)

\* create_entry
CreateEntry(e) ==
  /\ entry[e].status = "none" /\ \A f \in 1 .. e - 1 : entry[f].status # "none"
  /\ entry' = [entry EXCEPT ![e] = [status |-> "pending", attempts |-> 0, due |-> TRUE]]
  /\ UNCHANGED <<adapter, relay, posted, cases, orphaned>>

\* The clock reaches next_attempt_at.
BackoffEnds(e) ==
  /\ entry[e].status = "pending" /\ ~ entry[e].due
  /\ entry' = [entry EXCEPT ![e].due = TRUE]
  /\ UNCHANGED <<adapter, relay, posted, cases, orphaned>>

Candidates == {e \in Entries : entry[e].status = "pending" /\ entry[e].due}

Oldest(S, n) == {e \in S : Cardinality({f \in S : f < e}) < n}

\* Bug: the claim reads the candidates but does not test their status again.
ClaimUnchecked(r) ==
  /\ relay[r].pc = "poll"
  /\ \E S \in SUBSET {e \in Entries : entry[e].status \in {"pending", "in_progress"}} :
       /\ S # {} /\ Cardinality(S) <= BatchLimit
       /\ entry' = [e \in Entries |->
                      IF e \in S
                        THEN [status |-> "in_progress", attempts |-> entry[e].attempts + 1,
                              due |-> FALSE]
                        ELSE entry[e]]
       /\ relay' = [relay EXCEPT ![r] = [pc |-> "submit", batch |-> S]]
  /\ UNCHANGED <<adapter, posted, cases, orphaned>>

\* claim_pending_entries, one UPDATE ... RETURNING and its commit.
Claim(r) ==
  LET claimed == Oldest(Candidates, BatchLimit) IN
  /\ relay[r].pc = "poll"
  /\ claimed # {}
  /\ entry' = [e \in Entries |->
                 IF e \in claimed
                   THEN [status |-> "in_progress", attempts |-> entry[e].attempts + 1,
                         due |-> FALSE]
                   ELSE entry[e]]
  /\ relay' = [relay EXCEPT ![r] = [pc |-> "submit", batch |-> claimed]]
  /\ UNCHANGED <<adapter, posted, cases, orphaned>>

-----------------------------------------------------------------------------
(* Delivery: ErpRelayWorker.process_entry *)

\* Relay r is at step pc with entry e: the oldest of its batch.
InHand(r, e, pc) ==
  /\ relay[r].pc = pc
  /\ e \in relay[r].batch /\ \A f \in relay[r].batch : e <= f

\* process_entry returns: the next entry of the batch, or the next poll.
Proceed(r, e) ==
  LET rest == relay[r].batch \ {e}
  IN  relay' = [relay EXCEPT ![r] =
                  IF rest = {} THEN Polling ELSE [pc |-> "submit", batch |-> rest]]

GoTo(r, pc) == relay' = [relay EXCEPT ![r].pc = pc]

\* adapter.submit_session; after a failure the status query is tried only
\* through an adapter that supports it and for a session that has a reference.
Submit(r, e) ==
  /\ InHand(r, e, "submit")
  /\ \E outcome \in SubmitOutcomes :
       /\ posted' = [posted EXCEPT ![e] = IF outcome.arrived THEN @ + 1 ELSE @]
       /\ GoTo(r, IF outcome.success THEN "mark_sent"
                  ELSE IF SupportsStatusQuery /\ e \in WithRef THEN "query"
                  ELSE "route")
  /\ UNCHANGED <<adapter, entry, cases, orphaned>>

\* adapter.query_status
Query(r, e) ==
  /\ InHand(r, e, "query")
  /\ \E found \in QueryAnswers :
       GoTo(r, IF found THEN "mark_sent" ELSE "mark_failed")
  /\ UNCHANGED <<adapter, entry, posted, cases, orphaned>>

\* mark_sent
MarkSent(r, e) ==
  /\ InHand(r, e, "mark_sent")
  /\ entry' = [entry EXCEPT ![e].status = "sent"]
  /\ Proceed(r, e)
  /\ UNCHANGED <<adapter, posted, cases, orphaned>>

\* Bug: the escalation is recorded, its result is not looked at.
MarkFailedSilently(r, e) ==
  /\ InHand(r, e, "mark_failed")
  /\ entry' = [entry EXCEPT
       ![e].status = IF entry[e].attempts >= MaxAttempts THEN "reconcile_required" ELSE "pending"]
  /\ Proceed(r, e)
  /\ UNCHANGED <<adapter, posted, cases, orphaned>>

\* mark_failed: back to pending with a delay, or given up; the caller opens a
\* case for an entry that was given up.
MarkFailed(r, e) ==
  /\ InHand(r, e, "mark_failed")
  /\ IF entry[e].attempts >= MaxAttempts
       THEN /\ entry' = [entry EXCEPT ![e].status = "reconcile_required"]
            /\ GoTo(r, "open_case")
       ELSE /\ entry' = [entry EXCEPT ![e].status = "pending", ![e].due = FALSE]
            /\ Proceed(r, e)
  /\ UNCHANGED <<adapter, posted, cases, orphaned>>

\* route_to_reconciliation: without a status query, one failure is the last.
RouteToReconciliation(r, e) ==
  /\ InHand(r, e, "route")
  /\ entry' = [entry EXCEPT ![e].status = "reconcile_required"]
  /\ GoTo(r, "open_case")
  /\ UNCHANGED <<adapter, posted, cases, orphaned>>

\* create_reconciliation, in a transaction of its own.
OpenCase(r, e) ==
  /\ InHand(r, e, "open_case")
  /\ cases' = [cases EXCEPT ![e] = @ + 1]
  /\ Proceed(r, e)
  /\ UNCHANGED <<adapter, entry, posted, orphaned>>

\* The relay dies with the rest of its batch, and is started again.
Crash(r) ==
  /\ r \in Crashable /\ relay[r].pc # "poll"
  /\ relay'    = [relay EXCEPT ![r] = Polling]
  /\ orphaned' = orphaned \cup relay[r].batch
  /\ UNCHANGED <<adapter, entry, posted, cases>>

-----------------------------------------------------------------------------
\* process_entry, from the answer of the ERP to its return.
Process(r) ==
  \E e \in Entries :
    \/ Submit(r, e) \/ Query(r, e)
    \/ MarkSent(r, e) \/ MarkFailed(r, e) \/ RouteToReconciliation(r, e)
    \/ OpenCase(r, e)

Next ==
  \/ \E e \in Entries : CreateEntry(e) \/ BackoffEnds(e)
  \/ \E r \in Relays  : Claim(r) \/ Process(r) \/ Crash(r)

Spec == Init /\ [][Next]_vars

\* start_loop polls for ever, the clock runs, and submit and query have timeouts.
FairSpec ==
  /\ Spec
  /\ \A r \in Relays  : WF_vars(Claim(r)) /\ WF_vars(Process(r))
  /\ \A e \in Entries : WF_vars(BackoffEnds(e))

-----------------------------------------------------------------------------
(* Properties *)

\* Every variable stays within its type, and attempts within their limit.
TypeOK ==
  /\ adapter \in Adapters
  /\ entry \in [Entries -> [status   : {"none", "pending", "in_progress", "sent",
                                        "reconcile_required"},
                            attempts : 0 .. MaxAttempts,
                            due      : BOOLEAN]]
  /\ relay \in [Relays -> [pc    : {"poll", "submit", "query", "mark_sent", "mark_failed",
                                    "route", "open_case"},
                           batch : SUBSET Entries]]
  /\ posted \in [Entries -> Nat]
  /\ cases  \in [Entries -> Nat]
  /\ orphaned \subseteq Entries

\* No entry is in the hands of two relays (claim_pending_entries: "a row already
\* claimed by another worker's UPDATE can no longer match this one's WHERE").
ClaimsAreExclusive ==
  \A r, q \in Relays : relay[r].batch \cap relay[q].batch # {} => r = q

\* An entry is sent to the ERP at most MaxAttempts times, whoever claims it and
\* however relays die: the documents it can leave there are bounded.
PostsAreBounded == \A e \in Entries : posted[e] <= entry[e].attempts

\* Where a submission's failure is certain or final, the ERP never gets an entry
\* twice: every other adapter may post again what timed out.
NeverPostedTwice ==
  adapter \in {"csv", "ecc_gateway", "ecc_default"} => \A e \in Entries : posted[e] <= 1

\* An entry marked "sent" is in the ERP.
SentIsPosted == \A e \in Entries : entry[e].status = "sent" => posted[e] > 0

\* ... which the adapters guarantee whose answers depend on what was posted.
SentIsPostedWhereAsked ==
  adapter \in {"csv", "odata_document", "ecc_default"} => SentIsPosted

Concluded(e) ==
  \/ entry[e].status = "sent"
  \/ entry[e].status = "reconcile_required" /\ cases[e] > 0

\* Every entry is delivered or handed to a human in the end, unless a relay died
\* with it.
EntriesConclude ==
  \A e \in Entries : entry[e].status # "none" ~> Concluded(e) \/ e \in orphaned

\* Every entry is delivered or handed to a human in the end, come what may.
DeliveryIsGuaranteed ==
  \A e \in Entries : entry[e].status # "none" ~> Concluded(e)

\* What the status of a row means to the readers of the outbox.
PhaseOf(status) ==
  CASE status = "none" -> "absent"
    [] status = "sent" -> "delivered"
    [] status = "reconcile_required" -> "handed_over"
    [] OTHER -> "open"

Outbox == INSTANCE Delivery WITH
  Limit <- MaxAttempts,
  docs  <- posted,
  phase <- [e \in Entries |-> PhaseOf(entry[e].status)]

\* The relays implement the outbox Delivery specifies: nothing is posted for an
\* entry that was settled, and no entry is ever taken up again.
ImplementsDelivery == Outbox!Spec

=============================================================================
