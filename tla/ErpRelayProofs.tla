--------------------------- MODULE ErpRelayProofs ---------------------------
(***************************************************************************)
(* What holds of ErpRelay for any number of relays and entries, any limit  *)
(* of attempts and of entries per claim, and any choice of adapters, with  *)
(* relays dying between any two steps.                                     *)
(*                                                                         *)
(* The inductive invariant says which entries a relay may hold: they are   *)
(* in_progress, each was claimed by it alone, and until the current one is *)
(* submitted the ERP got fewer documents of it than there were attempts.   *)
(* Two more say what the adapters add: what is posted once, and what is    *)
(* sent only when it arrived.                                              *)
(***************************************************************************)
EXTENDS ErpRelay, TLAPS

\* A relay polls exactly when it holds no entry.
BatchInv == \A r \in Relays : relay[r].pc = "poll" <=> relay[r].batch = {}

\* The entries of a batch are in_progress, but for the one given up just now.
HeldInv ==
  \A r \in Relays : \A e \in relay[r].batch :
    \/ entry[e].status = "in_progress"
    \/ InHand(r, e, "open_case") /\ entry[e].status = "reconcile_required"

\* Every claim pays for one document: as long as the entry is not submitted, the
\* ERP has fewer of it than it has attempts.
PaidInv ==
  \A r \in Relays : \A e \in relay[r].batch :
    \/ posted[e] < entry[e].attempts
    \/ InHand(r, e, relay[r].pc) /\ relay[r].pc # "submit"

\* A row that does not exist was never attempted, one that waits may be again.
AttemptsInv ==
  \A e \in Entries :
    /\ entry[e].status = "none"    => entry[e].attempts = 0
    /\ entry[e].status = "pending" => entry[e].attempts < MaxAttempts

IInv ==
  /\ TypeOK
  /\ BatchInv
  /\ HeldInv
  /\ PaidInv
  /\ AttemptsInv
  /\ ClaimsAreExclusive
  /\ PostsAreBounded

-----------------------------------------------------------------------------
(* The types, spelled out once. *)

EntryStatuses == {"none", "pending", "in_progress", "sent", "reconcile_required"}
Pcs == {"poll", "submit", "query", "mark_sent", "mark_failed", "route", "open_case"}

EntryRow == [status : EntryStatuses, attempts : 0 .. MaxAttempts, due : BOOLEAN]
RelayRow == [pc : Pcs, batch : SUBSET Entries]

\* The two rows a proof has to know about are functions into these.
LEMMA Types ==
  ASSUME TypeOK
  PROVE  /\ entry \in [Entries -> EntryRow]
         /\ relay \in [Relays -> RelayRow]
         /\ posted \in [Entries -> Nat]
BY DEF TypeOK, EntryRow, RelayRow, EntryStatuses, Pcs

\* A relay that moves on within one entry keeps its batch.
LEMMA GoToKeepsBatch ==
  ASSUME relay \in [Relays -> RelayRow], NEW r \in Relays, NEW pc \in Pcs, GoTo(r, pc)
  PROVE  /\ relay' \in [Relays -> RelayRow]
         /\ relay'[r].pc = pc /\ relay'[r].batch = relay[r].batch
         /\ \A q \in Relays \ {r} : relay'[q] = relay[q]
BY DEF GoTo, RelayRow

\* A relay that is done with an entry drops it, and polls when it was the last.
LEMMA ProceedDrops ==
  ASSUME relay \in [Relays -> RelayRow], NEW r \in Relays, NEW e \in Entries, Proceed(r, e)
  PROVE  /\ relay' \in [Relays -> RelayRow]
         /\ relay'[r].batch = relay[r].batch \ {e}
         /\ relay'[r].pc \in {"poll", "submit"}
         /\ relay'[r].pc = "poll" <=> relay'[r].batch = {}
         /\ \A q \in Relays \ {r} : relay'[q] = relay[q]
BY DEF Proceed, Polling, RelayRow, Pcs

\* A batch has one oldest entry.
LEMMA OneInHand ==
  ASSUME relay \in [Relays -> RelayRow], NEW r \in Relays, NEW e \in Entries, NEW f \in Entries,
         NEW pc, NEW pcf, InHand(r, e, pc), InHand(r, f, pcf)
  PROVE  e = f
BY EntriesAssumption DEF InHand, Entries, RelayRow

\* Writing the status of one row.
LEMMA StatusWritten ==
  ASSUME entry \in [Entries -> EntryRow], NEW e \in Entries, NEW st \in EntryStatuses,
         entry' = [entry EXCEPT ![e].status = st]
  PROVE  /\ entry' \in [Entries -> EntryRow]
         /\ entry'[e].status = st /\ entry'[e].attempts = entry[e].attempts
         /\ \A f \in Entries \ {e} : entry'[f] = entry[f]
BY DEF EntryRow

\* Writing the due time of one row.
LEMMA DueWritten ==
  ASSUME entry \in [Entries -> EntryRow], NEW e \in Entries, NEW due \in BOOLEAN,
         entry' = [entry EXCEPT ![e].due = due]
  PROVE  /\ entry' \in [Entries -> EntryRow]
         /\ entry'[e].status = entry[e].status /\ entry'[e].attempts = entry[e].attempts
         /\ \A f \in Entries \ {e} : entry'[f] = entry[f]
BY DEF EntryRow

\* What Claim takes is pending.
LEMMA ClaimedArePending ==
  \A e \in Oldest(Candidates, BatchLimit) : e \in Entries /\ entry[e].status = "pending"
BY DEF Oldest, Candidates

-----------------------------------------------------------------------------
(* The invariant is inductive. *)

LEMMA InvInit == Init => IInv
BY LimitsAssumption
   DEF Init, IInv, TypeOK, BatchInv, HeldInv, PaidInv, AttemptsInv, ClaimsAreExclusive,
       PostsAreBounded, Polling

\* A row is inserted, or its backoff ends: no relay holds it.
LEMMA RowStep ==
  ASSUME IInv, NEW e \in Entries, CreateEntry(e) \/ BackoffEnds(e)
  PROVE  IInv'
<1>t. entry \in [Entries -> EntryRow]
  BY Types DEF IInv
<1>z. 0 \in 0 .. MaxAttempts /\ 0 < MaxAttempts
  BY LimitsAssumption
<1>1. /\ entry' \in [Entries -> EntryRow]
      /\ \A f \in Entries \ {e} : entry'[f] = entry[f]
      /\ entry[e].status \in {"none", "pending"}
      /\ entry'[e].status = "pending" /\ entry'[e].attempts = entry[e].attempts
  <2>1. CASE CreateEntry(e)
    <3>1. [status |-> "pending", attempts |-> 0, due |-> TRUE] \in EntryRow
      BY <1>z DEF EntryRow, EntryStatuses
    <3>2. entry[e].attempts = 0
      BY <2>1 DEF IInv, AttemptsInv, CreateEntry
    <3> QED
      BY <1>t, <2>1, <3>1, <3>2 DEF CreateEntry
  <2>2. CASE BackoffEnds(e)
    <3>1. entry' = [entry EXCEPT ![e].due = TRUE] /\ entry[e].status = "pending"
      BY <2>2 DEF BackoffEnds
    <3> QED
      BY <1>t, <3>1, DueWritten
  <2> QED
    BY <2>1, <2>2
<1>2. UNCHANGED <<adapter, relay, posted, cases, orphaned>>
  BY DEF CreateEntry, BackoffEnds
<1>3. \A r \in Relays : e \notin relay[r].batch
  BY <1>1 DEF IInv, HeldInv
<1>4. TypeOK'
  BY <1>1, <1>2 DEF IInv, TypeOK, EntryRow, EntryStatuses
<1>5. BatchInv' /\ ClaimsAreExclusive'
  BY <1>2 DEF IInv, BatchInv, ClaimsAreExclusive
<1>6. \A r \in Relays : relay[r].batch \subseteq Entries
  BY Types DEF IInv, RelayRow
<1>7. HeldInv'
  BY <1>1, <1>2, <1>3, <1>6 DEF IInv, HeldInv, InHand
<1>8. PaidInv'
  BY <1>1, <1>2, <1>3, <1>6 DEF IInv, PaidInv, InHand
<1>9. AttemptsInv'
  BY <1>1, <1>z DEF IInv, AttemptsInv
<1>10. PostsAreBounded'
  BY <1>1, <1>2 DEF IInv, PostsAreBounded
<1> QED
  BY <1>4, <1>5, <1>7, <1>8, <1>9, <1>10 DEF IInv

\* A claim takes rows that nobody holds, and pays for each of them.
LEMMA ClaimStep ==
  ASSUME IInv, NEW r \in Relays, Claim(r)
  PROVE  IInv'
<1> DEFINE S == Oldest(Candidates, BatchLimit)
<1>1. /\ \A e \in S : e \in Entries /\ entry[e].status = "pending"
      /\ S # {} /\ relay[r].pc = "poll"
  BY ClaimedArePending DEF Claim
<1>2. entry' = [e \in Entries |->
                 IF e \in S
                   THEN [status |-> "in_progress", attempts |-> entry[e].attempts + 1,
                         due |-> FALSE]
                   ELSE entry[e]]
  BY DEF Claim
<1>3. relay' = [relay EXCEPT ![r] = [pc |-> "submit", batch |-> S]]
  BY DEF Claim
<1>4. UNCHANGED <<adapter, posted, cases, orphaned>>
  BY DEF Claim
<1> HIDE DEF S
<1>t. entry \in [Entries -> EntryRow] /\ relay \in [Relays -> RelayRow] /\ posted \in [Entries -> Nat]
  BY Types DEF IInv
<1>5. \A e \in S : /\ e \in Entries /\ entry[e].attempts < MaxAttempts /\ entry[e].attempts \in Nat
                   /\ entry'[e].status = "in_progress"
                   /\ entry'[e].attempts = entry[e].attempts + 1
  BY <1>1, <1>2, <1>t DEF IInv, AttemptsInv, EntryRow
<1>6. \A e \in Entries \ S : entry'[e] = entry[e]
  BY <1>2
<1>7. relay'[r].pc = "submit" /\ relay'[r].batch = S /\ \A q \in Relays \ {r} : relay'[q] = relay[q]
  BY <1>3, <1>t
<1>8. \A q \in Relays : relay[q].batch \cap S = {}
  BY <1>1, <1>t DEF IInv, HeldInv, RelayRow
<1>9. entry' \in [Entries -> EntryRow]
  <2>1. \A e \in S : entry[e].attempts + 1 \in 0 .. MaxAttempts
    BY <1>5, LimitsAssumption
  <2>2. \A e \in S : [status |-> "in_progress", attempts |-> entry[e].attempts + 1,
                      due |-> FALSE] \in EntryRow
    BY <2>1 DEF EntryRow, EntryStatuses
  <2> QED
    BY <1>2, <1>t, <2>2
<1>10. relay' \in [Relays -> RelayRow]
  BY <1>3, <1>t, <1>5 DEF RelayRow, Pcs
<1>11. TypeOK'
  BY <1>4, <1>9, <1>10 DEF IInv, TypeOK, EntryRow, EntryStatuses, RelayRow, Pcs
<1>12. BatchInv'
  BY <1>1, <1>7 DEF IInv, BatchInv
<1>13. HeldInv'
  <2>1. SUFFICES ASSUME NEW q \in Relays, NEW e \in relay'[q].batch
                 PROVE  \/ entry'[e].status = "in_progress"
                        \/ InHand(q, e, "open_case")' /\ entry'[e].status = "reconcile_required"
    BY DEF HeldInv
  <2>2. CASE q = r
    BY <1>5, <1>7, <2>2
  <2>3. CASE q # r
    <3>1. relay'[q] = relay[q] /\ e \notin S /\ e \in Entries
      BY <1>7, <1>8, <1>t, <2>1, <2>3 DEF RelayRow
    <3> QED
      BY <1>6, <2>1, <3>1 DEF IInv, HeldInv, InHand
  <2> QED
    BY <2>2, <2>3
<1>14. PaidInv'
  <2>1. SUFFICES ASSUME NEW q \in Relays, NEW e \in relay'[q].batch
                 PROVE  \/ posted'[e] < entry'[e].attempts
                        \/ InHand(q, e, relay[q].pc)' /\ relay'[q].pc # "submit"
    BY DEF PaidInv, InHand
  <2>2. CASE q = r
    <3>1. e \in S
      BY <1>7, <2>1, <2>2
    <3>2. posted[e] <= entry[e].attempts /\ posted[e] \in Nat
      BY <1>5, <1>t, <3>1 DEF IInv, PostsAreBounded
    <3> QED
      BY <1>4, <1>5, <3>1, <3>2
  <2>3. CASE q # r
    <3>1. relay'[q] = relay[q] /\ e \notin S /\ e \in Entries
      BY <1>7, <1>8, <1>t, <2>1, <2>3 DEF RelayRow
    <3> QED
      BY <1>4, <1>6, <2>1, <3>1 DEF IInv, PaidInv, InHand
  <2> QED
    BY <2>2, <2>3
<1>15. AttemptsInv'
  BY <1>5, <1>6 DEF IInv, AttemptsInv
<1>16. ClaimsAreExclusive'
  BY <1>7, <1>8 DEF IInv, ClaimsAreExclusive
<1>17. PostsAreBounded'
  <2>1. \A e \in Entries : posted[e] \in Nat /\ entry[e].attempts \in Nat
    BY <1>t DEF EntryRow
  <2> QED
    BY <1>4, <1>5, <1>6, <2>1 DEF IInv, PostsAreBounded
<1> QED
  BY <1>11, <1>12, <1>13, <1>14, <1>15, <1>16, <1>17 DEF IInv

\* What the relay holds beside the entry in hand was claimed, and not submitted.
LEMMA RestOfBatch ==
  ASSUME IInv, NEW r \in Relays, NEW e \in Entries, NEW pc, InHand(r, e, pc),
         NEW f \in relay[r].batch, f # e
  PROVE  entry[f].status = "in_progress" /\ posted[f] < entry[f].attempts
<1>1. relay \in [Relays -> RelayRow] /\ f \in Entries
  BY Types DEF IInv, RelayRow
<1>2. \A p : ~ InHand(r, f, p)
  BY <1>1, OneInHand
<1> QED
  BY <1>2 DEF IInv, HeldInv, PaidInv

\* Nobody else holds the entry in hand.
LEMMA NotElsewhere ==
  ASSUME IInv, NEW r \in Relays, NEW e \in Entries, NEW pc, InHand(r, e, pc),
         NEW q \in Relays \ {r}, NEW f \in relay[q].batch
  PROVE  f # e /\ f \in Entries
<1>1. relay \in [Relays -> RelayRow]
  BY Types DEF IInv
<1> QED
  BY <1>1 DEF IInv, ClaimsAreExclusive, InHand, RelayRow

\* A relay takes the entry in hand one step further.
LEMMA StepInHand ==
  ASSUME IInv, NEW r \in Relays, NEW e \in Entries,
         NEW pc, pc # "open_case", InHand(r, e, pc),
         NEW pc2 \in Pcs \ {"poll", "submit"}, GoTo(r, pc2),
         \/ entry' = entry /\ pc2 # "open_case"
         \/ entry' = [entry EXCEPT ![e].status = "reconcile_required"] /\ pc2 = "open_case",
         posted' \in [Entries -> Nat], posted'[e] <= entry[e].attempts,
         \A f \in Entries \ {e} : posted'[f] = posted[f],
         UNCHANGED <<adapter, cases, orphaned>>
  PROVE  IInv'
<1>t. entry \in [Entries -> EntryRow] /\ relay \in [Relays -> RelayRow]
  BY Types DEF IInv
<1>0. "reconcile_required" \in EntryStatuses
  BY DEF EntryStatuses
<1>1. /\ entry' \in [Entries -> EntryRow]
      /\ \A f \in Entries \ {e} : entry'[f] = entry[f]
      /\ entry'[e].attempts = entry[e].attempts
      /\ entry'[e].status = IF pc2 = "open_case" THEN "reconcile_required" ELSE entry[e].status
  BY <1>t, <1>0, StatusWritten
<1>2. /\ relay' \in [Relays -> RelayRow]
      /\ relay'[r].pc = pc2 /\ relay'[r].batch = relay[r].batch
      /\ \A q \in Relays \ {r} : relay'[q] = relay[q]
  BY <1>t, GoToKeepsBatch
<1>3. entry[e].status = "in_progress"
  BY DEF IInv, HeldInv, InHand
<1>4. InHand(r, e, pc2)'
  BY <1>2 DEF InHand
<1>5. TypeOK'
  BY <1>1, <1>2 DEF IInv, TypeOK, EntryRow, EntryStatuses, RelayRow, Pcs
<1>6. BatchInv'
  <2>1. relay[r].batch # {}
    BY DEF InHand
  <2> QED
    BY <1>2, <2>1 DEF IInv, BatchInv
<1>7. HeldInv' /\ PaidInv'
  <2>1. SUFFICES ASSUME NEW q \in Relays, NEW f \in relay'[q].batch
                 PROVE  /\ \/ entry'[f].status = "in_progress"
                           \/ InHand(q, f, "open_case")' /\ entry'[f].status = "reconcile_required"
                        /\ \/ posted'[f] < entry'[f].attempts
                           \/ InHand(q, f, relay[q].pc)' /\ relay'[q].pc # "submit"
    BY DEF HeldInv, PaidInv
  <2>2. CASE q = r /\ f = e
    <3>1. InHand(q, f, relay[q].pc)' /\ relay'[q].pc # "submit"
      BY <1>2, <1>4, <2>2 DEF InHand
    <3>2. CASE pc2 = "open_case"
      BY <1>1, <1>4, <2>2, <3>1, <3>2
    <3>3. CASE pc2 # "open_case"
      BY <1>1, <1>3, <2>2, <3>1, <3>3
    <3> QED
      BY <3>2, <3>3
  <2>3. CASE q = r /\ f # e
    <3>1. f \in relay[r].batch /\ f \in Entries
      BY <1>2, <1>t, <2>1, <2>3 DEF RelayRow
    <3>2. entry[f].status = "in_progress" /\ posted[f] < entry[f].attempts
      BY <2>3, <3>1, RestOfBatch
    <3> QED
      BY <1>1, <2>3, <3>1, <3>2
  <2>4. CASE q # r
    <3>1. relay'[q] = relay[q] /\ f \in relay[q].batch
      BY <1>2, <2>1, <2>4
    <3>2. f # e /\ f \in Entries
      BY <2>4, <3>1, NotElsewhere
    <3> QED
      BY <1>1, <3>1, <3>2 DEF IInv, HeldInv, PaidInv, InHand
  <2> QED
    BY <2>2, <2>3, <2>4
<1>8. AttemptsInv'
  BY <1>1, <1>3 DEF IInv, AttemptsInv
<1>9. ClaimsAreExclusive'
  BY <1>2 DEF IInv, ClaimsAreExclusive
<1>10. PostsAreBounded'
  BY <1>1 DEF IInv, PostsAreBounded
<1> QED
  BY <1>5, <1>6, <1>7, <1>8, <1>9, <1>10 DEF IInv

\* A relay is done with the entry in hand.
LEMMA StepOn ==
  ASSUME IInv, NEW r \in Relays, NEW e \in Entries, NEW pc, InHand(r, e, pc), Proceed(r, e),
         entry' \in [Entries -> EntryRow],
         \A f \in Entries \ {e} : entry'[f] = entry[f],
         entry'[e].attempts = entry[e].attempts, entry'[e].status # "none",
         entry'[e].status = "pending" => entry[e].attempts < MaxAttempts,
         posted' = posted, cases' \in [Entries -> Nat],
         UNCHANGED <<adapter, orphaned>>
  PROVE  IInv'
<1>t. relay \in [Relays -> RelayRow]
  BY Types DEF IInv
<1>2. /\ relay' \in [Relays -> RelayRow]
      /\ relay'[r].batch = relay[r].batch \ {e}
      /\ relay'[r].pc = "poll" <=> relay'[r].batch = {}
      /\ \A q \in Relays \ {r} : relay'[q] = relay[q]
  BY <1>t, ProceedDrops
<1>5. TypeOK'
  BY <1>2 DEF IInv, TypeOK, EntryRow, EntryStatuses, RelayRow, Pcs
<1>6. BatchInv'
  BY <1>2 DEF IInv, BatchInv
<1>7. HeldInv' /\ PaidInv'
  <2>1. SUFFICES ASSUME NEW q \in Relays, NEW f \in relay'[q].batch
                 PROVE  /\ \/ entry'[f].status = "in_progress"
                           \/ InHand(q, f, "open_case")' /\ entry'[f].status = "reconcile_required"
                        /\ \/ posted'[f] < entry'[f].attempts
                           \/ InHand(q, f, relay[q].pc)' /\ relay'[q].pc # "submit"
    BY DEF HeldInv, PaidInv
  <2>2. CASE q = r
    <3>1. f \in relay[r].batch /\ f # e /\ f \in Entries
      BY <1>2, <1>t, <2>1, <2>2 DEF RelayRow
    <3>2. entry[f].status = "in_progress" /\ posted[f] < entry[f].attempts
      BY <3>1, RestOfBatch
    <3> QED
      BY <3>1, <3>2
  <2>3. CASE q # r
    <3>1. relay'[q] = relay[q] /\ f \in relay[q].batch
      BY <1>2, <2>1, <2>3
    <3>2. f # e /\ f \in Entries
      BY <2>3, <3>1, NotElsewhere
    <3> QED
      BY <3>1, <3>2 DEF IInv, HeldInv, PaidInv, InHand
  <2> QED
    BY <2>2, <2>3
<1>8. AttemptsInv'
  BY DEF IInv, AttemptsInv
<1>9. ClaimsAreExclusive'
  BY <1>2 DEF IInv, ClaimsAreExclusive
<1>10. PostsAreBounded'
  BY DEF IInv, PostsAreBounded
<1> QED
  BY <1>5, <1>6, <1>7, <1>8, <1>9, <1>10 DEF IInv

LEMMA ProcessStep ==
  ASSUME IInv, NEW r \in Relays, Process(r)
  PROVE  IInv'
<1>t. /\ entry \in [Entries -> EntryRow] /\ relay \in [Relays -> RelayRow]
      /\ posted \in [Entries -> Nat] /\ cases \in [Entries -> Nat]
  BY Types DEF IInv, TypeOK
<1>s. {"query", "mark_sent", "mark_failed", "route", "open_case"} \subseteq Pcs \ {"poll", "submit"}
  BY DEF Pcs
<1>v. {"sent", "pending", "reconcile_required"} \subseteq EntryStatuses
  BY DEF EntryStatuses
<1>0. PICK e \in Entries :
        \/ Submit(r, e) \/ Query(r, e)
        \/ MarkSent(r, e) \/ MarkFailed(r, e) \/ RouteToReconciliation(r, e)
        \/ OpenCase(r, e)
  BY DEF Process
<1>p. posted[e] <= entry[e].attempts /\ posted[e] \in Nat /\ entry[e].attempts \in Nat
  BY <1>t DEF IInv, PostsAreBounded, EntryRow
<1>1. CASE Submit(r, e)
  <2>1. InHand(r, e, "submit") /\ entry' = entry /\ UNCHANGED <<adapter, cases, orphaned>>
    BY <1>1 DEF Submit
  <2>2. PICK outcome \in SubmitOutcomes :
          /\ posted' = [posted EXCEPT ![e] = IF outcome.arrived THEN @ + 1 ELSE @]
          /\ GoTo(r, IF outcome.success THEN "mark_sent"
                     ELSE IF SupportsStatusQuery /\ e \in WithRef THEN "query"
                     ELSE "route")
    BY <1>1 DEF Submit
  <2>3. PICK pc2 \in {"mark_sent", "query", "route"} : GoTo(r, pc2)
    BY <2>2
  <2>4. posted[e] < entry[e].attempts
    BY <2>1 DEF IInv, PaidInv, InHand
  <2>5. posted' \in [Entries -> Nat] /\ posted'[e] <= entry[e].attempts
    BY <1>t, <1>p, <2>2, <2>4
  <2>6. \A f \in Entries \ {e} : posted'[f] = posted[f]
    BY <1>t, <2>2
  <2>7. pc2 \in Pcs \ {"poll", "submit"} /\ pc2 # "open_case"
    BY <1>s, <2>3
  <2> QED
    BY <2>1, <2>3, <2>5, <2>6, <2>7, StepInHand
<1>2. CASE Query(r, e)
  <2>1. /\ InHand(r, e, "query") /\ entry' = entry /\ posted' = posted
        /\ UNCHANGED <<adapter, cases, orphaned>>
    BY <1>2 DEF Query
  <2>2. PICK pc2 \in {"mark_sent", "mark_failed"} : GoTo(r, pc2)
    BY <1>2 DEF Query
  <2>3. pc2 \in Pcs \ {"poll", "submit"} /\ pc2 # "open_case"
    BY <1>s, <2>2
  <2> QED
    BY <1>t, <1>p, <2>1, <2>2, <2>3, StepInHand
<1>3. CASE MarkSent(r, e)
  <2>1. /\ InHand(r, e, "mark_sent") /\ Proceed(r, e)
        /\ entry' = [entry EXCEPT ![e].status = "sent"]
        /\ UNCHANGED <<adapter, posted, cases, orphaned>>
    BY <1>3 DEF MarkSent
  <2>2. /\ entry' \in [Entries -> EntryRow]
        /\ entry'[e].status = "sent" /\ entry'[e].attempts = entry[e].attempts
        /\ \A f \in Entries \ {e} : entry'[f] = entry[f]
    BY <1>t, <1>v, <2>1, StatusWritten
  <2> QED
    BY <1>t, <2>1, <2>2, StepOn
<1>4. CASE MarkFailed(r, e)
  <2>1. InHand(r, e, "mark_failed") /\ UNCHANGED <<adapter, posted, cases, orphaned>>
    BY <1>4 DEF MarkFailed
  <2>2. CASE entry[e].attempts >= MaxAttempts
    <3>1. entry' = [entry EXCEPT ![e].status = "reconcile_required"] /\ GoTo(r, "open_case")
      BY <1>4, <2>2 DEF MarkFailed
    <3>2. "open_case" \in Pcs \ {"poll", "submit"}
      BY <1>s
    <3> QED
      BY <1>t, <1>p, <2>1, <3>1, <3>2, StepInHand
  <2>3. CASE ~ (entry[e].attempts >= MaxAttempts)
    <3>1. /\ entry' = [entry EXCEPT ![e].status = "pending", ![e].due = FALSE]
          /\ Proceed(r, e)
      BY <1>4, <2>3 DEF MarkFailed
    <3>2. entry[e].attempts < MaxAttempts
      BY <1>p, <2>3, LimitsAssumption
    <3>3. /\ entry' \in [Entries -> EntryRow]
          /\ entry'[e].status = "pending" /\ entry'[e].attempts = entry[e].attempts
          /\ \A f \in Entries \ {e} : entry'[f] = entry[f]
      BY <1>t, <1>v, <3>1 DEF EntryRow
    <3> QED
      BY <1>t, <2>1, <3>1, <3>2, <3>3, StepOn
  <2> QED
    BY <2>2, <2>3
<1>5. CASE RouteToReconciliation(r, e)
  <2>1. /\ InHand(r, e, "route") /\ GoTo(r, "open_case")
        /\ entry' = [entry EXCEPT ![e].status = "reconcile_required"]
        /\ UNCHANGED <<adapter, posted, cases, orphaned>>
    BY <1>5 DEF RouteToReconciliation
  <2>2. "open_case" \in Pcs \ {"poll", "submit"}
    BY <1>s
  <2> QED
    BY <1>t, <1>p, <2>1, <2>2, StepInHand
<1>6. CASE OpenCase(r, e)
  <2>1. /\ InHand(r, e, "open_case") /\ Proceed(r, e)
        /\ cases' = [cases EXCEPT ![e] = @ + 1]
        /\ UNCHANGED <<adapter, entry, posted, orphaned>>
    BY <1>6 DEF OpenCase
  <2>2. cases' \in [Entries -> Nat]
    BY <1>t, <2>1
  <2>3. entry[e].status \in {"in_progress", "reconcile_required"}
    BY <2>1 DEF IInv, HeldInv, InHand
  <2> QED
    BY <1>t, <2>1, <2>2, <2>3, StepOn
<1> QED
  BY <1>0, <1>1, <1>2, <1>3, <1>4, <1>5, <1>6

\* A relay that dies drops its batch; the rows stay as they are.
LEMMA CrashStep ==
  ASSUME IInv, NEW r \in Relays, Crash(r)
  PROVE  IInv'
<1>1. /\ relay' = [relay EXCEPT ![r] = [pc |-> "poll", batch |-> {}]]
      /\ orphaned' = orphaned \cup relay[r].batch
      /\ UNCHANGED <<adapter, entry, posted, cases>>
  BY DEF Crash, Polling
<1>t. relay \in [Relays -> RelayRow]
  BY Types DEF IInv
<1>2. relay'[r].pc = "poll" /\ relay'[r].batch = {} /\ \A q \in Relays \ {r} : relay'[q] = relay[q]
  BY <1>1, <1>t
<1>3. relay' \in [Relays -> RelayRow]
  BY <1>1, <1>t DEF RelayRow, Pcs
<1>4. orphaned' \subseteq Entries
  BY <1>1, <1>t DEF IInv, TypeOK, RelayRow
<1>5. TypeOK'
  BY <1>1, <1>3, <1>4 DEF IInv, TypeOK, RelayRow, Pcs
<1>6. BatchInv' /\ ClaimsAreExclusive'
  BY <1>2 DEF IInv, BatchInv, ClaimsAreExclusive
<1>7. HeldInv' /\ PaidInv'
  BY <1>1, <1>2 DEF IInv, HeldInv, PaidInv, InHand
<1>8. AttemptsInv' /\ PostsAreBounded'
  BY <1>1 DEF IInv, AttemptsInv, PostsAreBounded
<1> QED
  BY <1>5, <1>6, <1>7, <1>8 DEF IInv

LEMMA InvNext == IInv /\ [Next]_vars => IInv'
<1> SUFFICES ASSUME IInv, [Next]_vars PROVE IInv'
  OBVIOUS
<1>1. CASE Next
  BY <1>1, RowStep, ClaimStep, ProcessStep, CrashStep DEF Next
<1>2. CASE UNCHANGED vars
  BY <1>2 DEF vars, IInv, TypeOK, BatchInv, HeldInv, PaidInv, AttemptsInv, ClaimsAreExclusive,
              PostsAreBounded, InHand
<1> QED
  BY <1>1, <1>2

LEMMA Inductive == Spec => []IInv
BY InvInit, InvNext, PTL DEF Spec

-----------------------------------------------------------------------------
(* What the adapters decide: how often a document is posted, and whether    *)
(* "sent" means that the ERP has it.  Two more invariants, on top of IInv.  *)

\* The adapters after whose failures nothing is submitted a second time.
FinalAdapters == {"csv", "ecc_gateway", "ecc_default"}

\* The adapters that call an entry sent only on what the ERP received.
EvidentAdapters == {"csv", "odata_document", "ecc_default"}

\* Entry e waits in the batch of relay r for its submission.
Unsubmitted(r, e) ==
  e \in relay[r].batch /\ (relay[r].pc = "submit" \/ ~ InHand(r, e, relay[r].pc))

\* Whatever may still be submitted was never posted.
OnceInv ==
  adapter \in FinalAdapters =>
    /\ \A r \in Relays : relay[r].pc # "mark_failed"
    /\ \A e \in Entries : entry[e].status \in {"none", "pending"} => posted[e] = 0
    /\ \A r \in Relays : \A e \in Entries : Unsubmitted(r, e) => posted[e] = 0
    /\ \A e \in Entries : posted[e] <= 1

\* Whatever is sent, or about to be, arrived.
ArrivedInv ==
  adapter \in EvidentAdapters =>
    /\ \A r \in Relays : relay[r].pc = "query" => adapter = "odata_document"
    /\ \A r \in Relays : \A e \in Entries : InHand(r, e, "mark_sent") => posted[e] > 0
    /\ SentIsPosted

LEMMA PostedInit == Init => OnceInv /\ ArrivedInv
BY LimitsAssumption DEF Init, OnceInv, ArrivedInv, Unsubmitted, InHand, Polling, SentIsPosted

\* A relay that goes a step further with e, or is done with it, leaves the
\* entries that wait as they were, and does not add e to them.
LEMMA StillUnsubmitted ==
  ASSUME IInv, NEW r \in Relays, NEW e \in Entries, NEW pc, InHand(r, e, pc),
         \/ \E pc2 \in Pcs \ {"poll", "submit"} : GoTo(r, pc2)
         \/ Proceed(r, e),
         NEW q \in Relays, NEW f \in Entries, Unsubmitted(q, f)'
  PROVE  Unsubmitted(q, f) /\ f # e
<1>t. relay \in [Relays -> RelayRow]
  BY Types DEF IInv
<1>0. \A x \in Relays \ {r} : relay'[x] = relay[x]
  BY <1>t, GoToKeepsBatch, ProceedDrops
<1>1. CASE q # r
  <2>1. relay'[q] = relay[q]
    BY <1>0, <1>1
  <2>2. Unsubmitted(q, f)
    BY <2>1 DEF Unsubmitted, InHand
  <2> QED
    BY <1>1, <2>2, NotElsewhere DEF Unsubmitted
<1>2. CASE q = r
  <2>1. f \in relay[r].batch /\ f # e
    <3>1. CASE Proceed(r, e)
      BY <1>t, <1>2, <3>1, ProceedDrops DEF Unsubmitted
    <3>2. ASSUME NEW pc2 \in Pcs \ {"poll", "submit"}, GoTo(r, pc2)
          PROVE  f \in relay[r].batch /\ f # e
      <4>1. relay'[r].batch = relay[r].batch /\ relay'[r].pc = pc2
        BY <1>t, <3>2, GoToKeepsBatch
      <4>2. InHand(r, e, relay[r].pc)'
        BY <4>1 DEF InHand
      <4> QED
        BY <1>2, <4>1, <4>2 DEF Unsubmitted
    <3> QED
      BY <3>1, <3>2
  <2>2. ~ InHand(r, f, relay[r].pc)
    BY <1>t, <2>1, OneInHand
  <2> QED
    BY <1>2, <2>1, <2>2 DEF Unsubmitted
<1> QED
  BY <1>1, <1>2

\* What a step has to do so that OnceInv stays, when it posts nothing.
LEMMA OnceKept ==
  ASSUME OnceInv, UNCHANGED <<adapter, posted>>,
         adapter \in FinalAdapters =>
           /\ \A r \in Relays : relay'[r].pc # "mark_failed"
           /\ \A e \in Entries : entry'[e].status \in {"none", "pending"}
                => entry[e].status \in {"none", "pending"}
           /\ \A r \in Relays : \A e \in Entries :
                Unsubmitted(r, e)' => Unsubmitted(r, e) \/ posted[e] = 0
  PROVE  OnceInv'
BY DEF OnceInv

LEMMA OnceRow ==
  ASSUME IInv, OnceInv, NEW e \in Entries, CreateEntry(e) \/ BackoffEnds(e)
  PROVE  OnceInv'
<1>1. UNCHANGED <<adapter, relay, posted>> /\ entry[e].status \in {"none", "pending"}
  BY DEF CreateEntry, BackoffEnds
<1>2. \A f \in Entries \ {e} : entry'[f] = entry[f]
  BY Types DEF CreateEntry, BackoffEnds, IInv
<1>3. \A r \in Relays, f \in Entries : Unsubmitted(r, f)' => Unsubmitted(r, f)
  BY <1>1 DEF Unsubmitted, InHand
<1>4. adapter \in FinalAdapters => \A r \in Relays : relay'[r].pc # "mark_failed"
  BY <1>1 DEF OnceInv
<1> QED
  BY <1>1, <1>2, <1>3, <1>4, OnceKept

LEMMA OnceClaim ==
  ASSUME IInv, OnceInv, NEW r \in Relays, Claim(r)
  PROVE  OnceInv'
<1> DEFINE S == Oldest(Candidates, BatchLimit)
<1>1. /\ \A e \in S : e \in Entries /\ entry[e].status = "pending"
      /\ entry' = [e \in Entries |->
                     IF e \in S
                       THEN [status |-> "in_progress", attempts |-> entry[e].attempts + 1,
                             due |-> FALSE]
                       ELSE entry[e]]
      /\ relay' = [relay EXCEPT ![r] = [pc |-> "submit", batch |-> S]]
      /\ UNCHANGED <<adapter, posted>>
  BY ClaimedArePending DEF Claim
<1> HIDE DEF S
<1>t. relay \in [Relays -> RelayRow]
  BY Types DEF IInv
<1>2. /\ relay'[r] = [pc |-> "submit", batch |-> S]
      /\ \A q \in Relays \ {r} : relay'[q] = relay[q]
  BY <1>1, <1>t
<1>3. ASSUME adapter \in FinalAdapters, NEW q \in Relays, NEW e \in Entries, Unsubmitted(q, e)'
      PROVE  Unsubmitted(q, e) \/ posted[e] = 0
  <2>1. CASE q = r
    BY <1>1, <1>2, <1>3, <2>1 DEF Unsubmitted, OnceInv
  <2>2. CASE q # r
    BY <1>2, <1>3, <2>2 DEF Unsubmitted, InHand
  <2> QED
    BY <2>1, <2>2
<1>4. \A e \in Entries : entry'[e].status \in {"none", "pending"}
        => entry[e].status \in {"none", "pending"}
  BY <1>1
<1>5. adapter \in FinalAdapters => \A q \in Relays : relay'[q].pc # "mark_failed"
  BY <1>2 DEF OnceInv
<1> QED
  BY <1>1, <1>3, <1>4, <1>5, OnceKept

\* The one document of an entry.
LEMMA OnceSubmit ==
  ASSUME IInv, OnceInv, NEW r \in Relays, NEW e \in Entries, Submit(r, e)
  PROVE  OnceInv'
<1>t. relay \in [Relays -> RelayRow] /\ posted \in [Entries -> Nat]
  BY Types DEF IInv
<1>1. InHand(r, e, "submit") /\ UNCHANGED <<adapter, entry>>
  BY DEF Submit
<1>2. PICK outcome \in SubmitOutcomes :
        /\ posted' = [posted EXCEPT ![e] = IF outcome.arrived THEN @ + 1 ELSE @]
        /\ GoTo(r, IF outcome.success THEN "mark_sent"
                   ELSE IF SupportsStatusQuery /\ e \in WithRef THEN "query"
                   ELSE "route")
  BY DEF Submit
<1>3. PICK pc2 \in {"mark_sent", "query", "route"} : GoTo(r, pc2)
  BY <1>2
<1>4. pc2 \in Pcs \ {"poll", "submit"} /\ pc2 # "mark_failed"
  BY <1>3 DEF Pcs
<1>5. relay'[r].pc = pc2 /\ \A q \in Relays \ {r} : relay'[q] = relay[q]
  BY <1>t, <1>3, <1>4, GoToKeepsBatch
<1>6. posted'[e] <= posted[e] + 1 /\ \A f \in Entries \ {e} : posted'[f] = posted[f]
  BY <1>t, <1>2
<1>7. entry[e].status = "in_progress"
  BY <1>1 DEF IInv, HeldInv, InHand
<1>8. Unsubmitted(r, e)
  BY <1>1 DEF Unsubmitted, InHand
<1>9. ASSUME NEW q \in Relays, NEW f \in Entries, Unsubmitted(q, f)'
      PROVE  Unsubmitted(q, f) /\ f # e
  BY <1>1, <1>3, <1>4, <1>9, StillUnsubmitted
<1>10. SUFFICES ASSUME adapter \in FinalAdapters
               PROVE  /\ \A q \in Relays : relay'[q].pc # "mark_failed"
                      /\ \A f \in Entries : entry'[f].status \in {"none", "pending"} => posted'[f] = 0
                      /\ \A q \in Relays : \A f \in Entries : Unsubmitted(q, f)' => posted'[f] = 0
                      /\ \A f \in Entries : posted'[f] <= 1
  BY <1>1 DEF OnceInv
<1>11. posted[e] = 0
  BY <1>8, <1>10 DEF OnceInv
<1>12. \A q \in Relays : relay'[q].pc # "mark_failed"
  BY <1>4, <1>5, <1>10 DEF OnceInv
<1>13. \A f \in Entries : entry'[f].status \in {"none", "pending"} => posted'[f] = 0
  BY <1>1, <1>6, <1>7, <1>10 DEF OnceInv
<1>14. \A f \in Entries : posted'[f] <= 1
  BY <1>t, <1>6, <1>10, <1>11 DEF OnceInv
<1>15. \A q \in Relays : \A f \in Entries : Unsubmitted(q, f)' => posted'[f] = 0
  BY <1>6, <1>9, <1>10 DEF OnceInv
<1> QED
  BY <1>12, <1>13, <1>14, <1>15

\* The other steps of process_entry post nothing.  Only a failure the adapter
\* asked about, and was told of, makes an entry pending again.
LEMMA OnceProcess ==
  ASSUME IInv, OnceInv, NEW r \in Relays, NEW e \in Entries,
         \/ Query(r, e) \/ MarkSent(r, e) \/ MarkFailed(r, e)
         \/ RouteToReconciliation(r, e) \/ OpenCase(r, e)
  PROVE  OnceInv'
<1>t. entry \in [Entries -> EntryRow] /\ relay \in [Relays -> RelayRow]
  BY Types DEF IInv
<1>1. SUFFICES ASSUME adapter \in FinalAdapters PROVE OnceInv'
  BY DEF OnceInv, Query, MarkSent, MarkFailed, RouteToReconciliation, OpenCase
<1>2. UNCHANGED <<adapter, posted>>
  BY DEF Query, MarkSent, MarkFailed, RouteToReconciliation, OpenCase
<1>3. ~ MarkFailed(r, e)
  BY <1>1 DEF OnceInv, MarkFailed, InHand
<1>4. /\ \E pc : InHand(r, e, pc)
      /\ \/ \E pc2 \in {"mark_sent", "open_case"} : GoTo(r, pc2)
         \/ Proceed(r, e)
  <2>1. CASE Query(r, e)
    <3>1. QueryAnswers = {TRUE}
      BY <1>1 DEF FinalAdapters, QueryAnswers, EccAnswers
    <3> QED
      BY <2>1, <3>1 DEF Query
  <2>2. CASE MarkSent(r, e) \/ RouteToReconciliation(r, e) \/ OpenCase(r, e)
    BY <2>2 DEF MarkSent, RouteToReconciliation, OpenCase
  <2> QED
    BY <1>3, <2>1, <2>2
<1>5. {"mark_sent", "open_case"} \subseteq Pcs \ {"poll", "submit"}
  BY DEF Pcs
<1>6. \A q \in Relays : \A f \in Entries : Unsubmitted(q, f)' => Unsubmitted(q, f)
  BY <1>4, <1>5, StillUnsubmitted
<1>7. relay'[r].pc # "mark_failed" /\ \A q \in Relays \ {r} : relay'[q] = relay[q]
  BY <1>t, <1>4, <1>5, GoToKeepsBatch, ProceedDrops
<1>8. \A f \in Entries : entry'[f].status \in {"none", "pending"}
        => entry[f].status \in {"none", "pending"}
  <2>1. CASE Query(r, e) \/ OpenCase(r, e)
    BY <2>1 DEF Query, OpenCase
  <2>2. CASE MarkSent(r, e) \/ RouteToReconciliation(r, e)
    <3>1. \E st \in {"sent", "reconcile_required"} : entry' = [entry EXCEPT ![e].status = st]
      BY <2>2 DEF MarkSent, RouteToReconciliation
    <3>2. {"sent", "reconcile_required"} \subseteq EntryStatuses
      BY DEF EntryStatuses
    <3> QED
      BY <1>t, <3>1, <3>2, StatusWritten
  <2> QED
    BY <1>3, <2>1, <2>2
<1>9. \A q \in Relays : relay'[q].pc # "mark_failed"
  BY <1>1, <1>7 DEF OnceInv
<1> QED
  BY <1>2, <1>6, <1>8, <1>9, OnceKept

LEMMA OnceCrash ==
  ASSUME IInv, OnceInv, NEW r \in Relays, Crash(r)
  PROVE  OnceInv'
<1>t. relay \in [Relays -> RelayRow]
  BY Types DEF IInv
<1>1. /\ relay' = [relay EXCEPT ![r] = [pc |-> "poll", batch |-> {}]]
      /\ UNCHANGED <<adapter, entry, posted>>
  BY DEF Crash, Polling
<1>2. relay'[r] = [pc |-> "poll", batch |-> {}] /\ \A q \in Relays \ {r} : relay'[q] = relay[q]
  BY <1>t, <1>1
<1>3. \A q \in Relays : \A e \in Entries : Unsubmitted(q, e)' => Unsubmitted(q, e)
  BY <1>2 DEF Unsubmitted, InHand
<1>4. adapter \in FinalAdapters => \A q \in Relays : relay'[q].pc # "mark_failed"
  BY <1>2 DEF OnceInv
<1> QED
  BY <1>1, <1>3, <1>4, OnceKept

LEMMA OnceNext == IInv /\ OnceInv /\ [Next]_vars => OnceInv'
<1> SUFFICES ASSUME IInv, OnceInv, [Next]_vars PROVE OnceInv'
  OBVIOUS
<1>1. CASE UNCHANGED vars
  BY <1>1 DEF vars, OnceInv, Unsubmitted, InHand
<1>2. ASSUME NEW r \in Relays, Process(r) PROVE OnceInv'
  BY <1>2, OnceSubmit, OnceProcess DEF Process
<1>3. CASE Next
  BY <1>2, <1>3, OnceRow, OnceClaim, OnceCrash DEF Next
<1> QED
  BY <1>1, <1>3

\* What a step has to do so that ArrivedInv stays: documents are never taken
\* back, and whoever newly reaches a status or a step has a reason to.
LEMMA ArrivedKept ==
  ASSUME ArrivedInv, UNCHANGED adapter,
         posted \in [Entries -> Nat], posted' \in [Entries -> Nat],
         \A e \in Entries : posted'[e] >= posted[e],
         adapter \in EvidentAdapters =>
           /\ \A r \in Relays : relay'[r].pc = "query"
                => relay[r].pc = "query" \/ adapter = "odata_document"
           /\ \A r \in Relays : \A e \in Entries : InHand(r, e, "mark_sent")'
                => InHand(r, e, "mark_sent") \/ posted'[e] > 0
           /\ \A e \in Entries : entry'[e].status = "sent" => entry[e].status = "sent" \/ posted[e] > 0
  PROVE  ArrivedInv'
<1>1. \A e \in Entries : posted[e] > 0 => posted'[e] > 0
  OBVIOUS
<1> QED
  BY <1>1 DEF ArrivedInv, SentIsPosted

LEMMA ArrivedRow ==
  ASSUME IInv, ArrivedInv, NEW e \in Entries, CreateEntry(e) \/ BackoffEnds(e)
  PROVE  ArrivedInv'
<1>1. UNCHANGED <<adapter, relay, posted>>
  BY DEF CreateEntry, BackoffEnds
<1>2. entry'[e].status # "sent" /\ \A f \in Entries \ {e} : entry'[f] = entry[f]
  BY Types DEF CreateEntry, BackoffEnds, IInv, EntryRow
<1>3. \A r \in Relays, f \in Entries : InHand(r, f, "mark_sent")' => InHand(r, f, "mark_sent")
  BY <1>1 DEF InHand
<1>4. posted \in [Entries -> Nat] /\ \A f \in Entries : posted'[f] >= posted[f]
  BY <1>1, Types DEF IInv
<1> QED
  BY <1>1, <1>2, <1>3, <1>4, ArrivedKept

LEMMA ArrivedClaim ==
  ASSUME IInv, ArrivedInv, NEW r \in Relays, Claim(r)
  PROVE  ArrivedInv'
<1> DEFINE S == Oldest(Candidates, BatchLimit)
<1>1. /\ entry' = [e \in Entries |->
                     IF e \in S
                       THEN [status |-> "in_progress", attempts |-> entry[e].attempts + 1,
                             due |-> FALSE]
                       ELSE entry[e]]
      /\ relay' = [relay EXCEPT ![r] = [pc |-> "submit", batch |-> S]]
      /\ UNCHANGED <<adapter, posted>>
  BY DEF Claim
<1> HIDE DEF S
<1>t. relay \in [Relays -> RelayRow]
  BY Types DEF IInv
<1>2. relay'[r].pc = "submit" /\ \A q \in Relays \ {r} : relay'[q] = relay[q]
  BY <1>1, <1>t
<1>3. \A q \in Relays : \A e \in Entries : InHand(q, e, "mark_sent")' => InHand(q, e, "mark_sent")
  BY <1>2 DEF InHand
<1>4. \A e \in Entries : entry'[e].status = "sent" => entry[e].status = "sent"
  BY <1>1
<1>5. \A q \in Relays : relay'[q].pc = "query" => relay[q].pc = "query"
  BY <1>2
<1>6. posted \in [Entries -> Nat] /\ \A e \in Entries : posted'[e] >= posted[e]
  BY <1>1, Types DEF IInv
<1> QED
  BY <1>1, <1>3, <1>4, <1>5, <1>6, ArrivedKept

\* An adapter reports success only for what arrived; "ecc_default" reports
\* nothing else, and only the material documents are asked about.
LEMMA ArrivedSubmit ==
  ASSUME IInv, ArrivedInv, NEW r \in Relays, NEW e \in Entries, Submit(r, e)
  PROVE  ArrivedInv'
<1>t. relay \in [Relays -> RelayRow] /\ posted \in [Entries -> Nat]
  BY Types DEF IInv
<1>1. InHand(r, e, "submit") /\ UNCHANGED <<adapter, entry>>
  BY DEF Submit
<1>2. PICK outcome \in SubmitOutcomes :
        /\ posted' = [posted EXCEPT ![e] = IF outcome.arrived THEN @ + 1 ELSE @]
        /\ GoTo(r, IF outcome.success THEN "mark_sent"
                   ELSE IF SupportsStatusQuery /\ e \in WithRef THEN "query"
                   ELSE "route")
  BY DEF Submit
<1>3. PICK pc2 \in {"mark_sent", "query", "route"} :
        /\ GoTo(r, pc2)
        /\ pc2 = "mark_sent" => outcome.success
        /\ pc2 = "query" => ~ outcome.success /\ adapter # "csv"
  BY <1>2 DEF SupportsStatusQuery
<1>4. pc2 \in Pcs
  BY <1>3 DEF Pcs
<1>5. /\ relay'[r].pc = pc2 /\ relay'[r].batch = relay[r].batch
      /\ \A q \in Relays \ {r} : relay'[q] = relay[q]
  BY <1>t, <1>3, <1>4, GoToKeepsBatch
<1>6. /\ posted' \in [Entries -> Nat]
      /\ \A f \in Entries : posted'[f] >= posted[f]
      /\ outcome.arrived => posted'[e] > 0
  BY <1>t, <1>2
<1>7. adapter \in EvidentAdapters =>
        /\ outcome.success => outcome.arrived
        /\ adapter = "ecc_default" => outcome.success
  <2>1. SUFFICES ASSUME adapter \in EvidentAdapters
                 PROVE  /\ outcome.success => outcome.arrived
                        /\ adapter = "ecc_default" => outcome.success
    OBVIOUS
  <2>2. outcome \in AnyOutcome /\ (adapter = "ecc_default" => outcome.success)
    BY <2>1 DEF EvidentAdapters, SubmitOutcomes, OdataOutcomes, CsvOutcomes, EccOutcomes
  <2> QED
    BY <2>2 DEF AnyOutcome
<1>8. \A q \in Relays : \A f \in Entries :
        InHand(q, f, "mark_sent")' => InHand(q, f, "mark_sent") \/ (q = r /\ InHand(r, f, "submit") /\ pc2 = "mark_sent")
  BY <1>1, <1>5 DEF InHand
<1>9. adapter \in EvidentAdapters => \A q \in Relays : \A f \in Entries :
        InHand(q, f, "mark_sent")' => InHand(q, f, "mark_sent") \/ posted'[f] > 0
  BY <1>t, <1>1, <1>3, <1>6, <1>7, <1>8, OneInHand
<1>10. adapter \in EvidentAdapters => \A q \in Relays :
        relay'[q].pc = "query" => relay[q].pc = "query" \/ adapter = "odata_document"
  BY <1>3, <1>5, <1>7 DEF EvidentAdapters
<1> QED
  BY <1>t, <1>1, <1>6, <1>9, <1>10, ArrivedKept

\* The answer about a material document is never "found"; mark_sent writes
\* "sent" of what is in hand.
LEMMA ArrivedProcess ==
  ASSUME IInv, ArrivedInv, NEW r \in Relays, NEW e \in Entries,
         \/ Query(r, e) \/ MarkSent(r, e) \/ MarkFailed(r, e)
         \/ RouteToReconciliation(r, e) \/ OpenCase(r, e)
  PROVE  ArrivedInv'
<1>t. entry \in [Entries -> EntryRow] /\ relay \in [Relays -> RelayRow]
  BY Types DEF IInv
<1>1. SUFFICES ASSUME adapter \in EvidentAdapters PROVE ArrivedInv'
  BY DEF ArrivedInv, Query, MarkSent, MarkFailed, RouteToReconciliation, OpenCase
<1>2. UNCHANGED <<adapter, posted>>
  BY DEF Query, MarkSent, MarkFailed, RouteToReconciliation, OpenCase
<1>3. posted \in [Entries -> Nat] /\ \A f \in Entries : posted'[f] >= posted[f]
  BY <1>2, Types DEF IInv
<1>4. \/ \E pc2 \in {"mark_failed", "open_case"} : GoTo(r, pc2)
      \/ Proceed(r, e)
  <2>1. CASE Query(r, e)
    <3>1. QueryAnswers = {FALSE}
      <4>1. adapter = "odata_document"
        BY <1>1, <2>1 DEF ArrivedInv, Query, InHand
      <4> QED
        BY <4>1 DEF QueryAnswers, OdataAnswers
    <3> QED
      BY <2>1, <3>1 DEF Query
  <2>2. CASE MarkSent(r, e) \/ MarkFailed(r, e) \/ RouteToReconciliation(r, e) \/ OpenCase(r, e)
    BY <2>2 DEF MarkSent, MarkFailed, RouteToReconciliation, OpenCase
  <2> QED
    BY <2>1, <2>2
<1>5. {"mark_failed", "open_case"} \subseteq Pcs
  BY DEF Pcs
<1>6. relay'[r].pc \notin {"mark_sent", "query"} /\ \A q \in Relays \ {r} : relay'[q] = relay[q]
  BY <1>t, <1>4, <1>5, GoToKeepsBatch, ProceedDrops
<1>7. /\ \A q \in Relays : \A f \in Entries : InHand(q, f, "mark_sent")' => InHand(q, f, "mark_sent")
      /\ \A q \in Relays : relay'[q].pc = "query" => relay[q].pc = "query"
  BY <1>6 DEF InHand
<1>8. \A f \in Entries : entry'[f].status = "sent" => entry[f].status = "sent" \/ posted[f] > 0
  <2>1. CASE Query(r, e) \/ OpenCase(r, e)
    BY <2>1 DEF Query, OpenCase
  <2>2. CASE MarkSent(r, e)
    <3>1. posted[e] > 0
      BY <1>1, <2>2 DEF ArrivedInv, MarkSent
    <3> QED
      BY <1>t, <2>2, <3>1 DEF MarkSent
  <2>3. CASE MarkFailed(r, e) \/ RouteToReconciliation(r, e)
    BY <1>t, <2>3 DEF MarkFailed, RouteToReconciliation, EntryRow
  <2> QED
    BY <2>1, <2>2, <2>3
<1> QED
  BY <1>2, <1>3, <1>7, <1>8, ArrivedKept

LEMMA ArrivedCrash ==
  ASSUME IInv, ArrivedInv, NEW r \in Relays, Crash(r)
  PROVE  ArrivedInv'
<1>t. relay \in [Relays -> RelayRow] /\ posted \in [Entries -> Nat]
  BY Types DEF IInv
<1>1. /\ relay' = [relay EXCEPT ![r] = [pc |-> "poll", batch |-> {}]]
      /\ UNCHANGED <<adapter, entry, posted>>
  BY DEF Crash, Polling
<1>2. relay'[r].pc = "poll" /\ \A q \in Relays \ {r} : relay'[q] = relay[q]
  BY <1>t, <1>1
<1>3. /\ \A q \in Relays : \A e \in Entries : InHand(q, e, "mark_sent")' => InHand(q, e, "mark_sent")
      /\ \A q \in Relays : relay'[q].pc = "query" => relay[q].pc = "query"
      /\ \A e \in Entries : posted'[e] >= posted[e]
  BY <1>t, <1>1, <1>2 DEF InHand
<1> QED
  BY <1>t, <1>1, <1>3, ArrivedKept

LEMMA ArrivedNext == IInv /\ ArrivedInv /\ [Next]_vars => ArrivedInv'
<1> SUFFICES ASSUME IInv, ArrivedInv, [Next]_vars PROVE ArrivedInv'
  OBVIOUS
<1>1. CASE UNCHANGED vars
  BY <1>1 DEF vars, ArrivedInv, InHand, SentIsPosted
<1>2. ASSUME NEW r \in Relays, Process(r) PROVE ArrivedInv'
  BY <1>2, ArrivedSubmit, ArrivedProcess DEF Process
<1>3. CASE Next
  BY <1>2, <1>3, ArrivedRow, ArrivedClaim, ArrivedCrash DEF Next
<1> QED
  BY <1>1, <1>3

-----------------------------------------------------------------------------
(* The theorems. *)

\* Every variable keeps its type, and no entry is ever attempted more often than
\* MaxAttempts (claim_pending_entries, mark_failed).
THEOREM RelayTypeCorrect == Spec => []TypeOK
BY Inductive, PTL DEF IInv

\* However many relays poll at once, and wherever they die, none takes an entry
\* that another one holds (claim_pending_entries).
THEOREM ClaimsExclusive == Spec => []ClaimsAreExclusive
BY Inductive, PTL DEF IInv

\* The ERP never gets more documents of an entry than the entry had attempts.
THEOREM PostsBounded == Spec => []PostsAreBounded
BY Inductive, PTL DEF IInv

\* An adapter that is not asked about a failure, or believed whatever it says,
\* never posts an entry twice: nothing is submitted again after any failure, and
\* a relay that dies keeps others from it (process_entry).
THEOREM PostedOnce == Spec => []NeverPostedTwice
<1>1. OnceInv => NeverPostedTwice
  BY DEF OnceInv, NeverPostedTwice, FinalAdapters
<1> QED
  BY <1>1, Inductive, PostedInit, OnceNext, PTL DEF Spec

\* Through the adapters that report a success only of what arrived, and ask about
\* nothing else, every entry marked "sent" is in the ERP (mark_sent).
THEOREM SentArrived == Spec => []SentIsPostedWhereAsked
<1>1. ArrivedInv => SentIsPostedWhereAsked
  BY DEF ArrivedInv, SentIsPostedWhereAsked, EvidentAdapters
<1> QED
  BY <1>1, Inductive, PostedInit, ArrivedNext, PTL DEF Spec

-----------------------------------------------------------------------------
(* ErpRelay implements Delivery: every step settles or posts an open entry,  *)
(* or is not seen from outside.                                              *)

OutboxVars == <<[e \in Entries |-> PhaseOf(entry[e].status)], posted>>

\* A step that changes no phase and posts nothing is a stuttering step.
LEMMA Unseen ==
  ASSUME \A e \in Entries : PhaseOf(entry'[e].status) = PhaseOf(entry[e].status),
         posted' = posted
  PROVE  UNCHANGED OutboxVars
BY DEF OutboxVars

\* A step that settles the open entry e and nothing else.
LEMMA SettleStep ==
  ASSUME entry \in [Entries -> EntryRow], NEW e \in Entries, entry[e].status = "in_progress",
         NEW st \in {"sent", "reconcile_required"},
         entry' = [entry EXCEPT ![e].status = st], posted' = posted
  PROVE  Outbox!Settle(e)
<1>1. st \in EntryStatuses
  BY DEF EntryStatuses
<1>2. entry'[e].status = st /\ \A f \in Entries \ {e} : entry'[f] = entry[f]
  BY <1>1, StatusWritten
<1>3. PhaseOf(st) \in Outbox!Settled /\ PhaseOf("in_progress") = "open"
  BY DEF PhaseOf, Outbox!Settled
<1>4. [f \in Entries |-> PhaseOf(entry'[f].status)] =
        [[f \in Entries |-> PhaseOf(entry[f].status)] EXCEPT ![e] = PhaseOf(st)]
  <2>1. \A f \in Entries : PhaseOf(entry'[f].status) =
          IF f = e THEN PhaseOf(st) ELSE PhaseOf(entry[f].status)
    BY <1>2
  <2> QED
    BY <2>1, Zenon
<1> QED
  BY <1>3, <1>4 DEF Outbox!Settle

LEMMA RefineInit == Init => Outbox!Init
BY DEF Init, Outbox!Init, PhaseOf

LEMMA RefineNext == IInv /\ [Next]_vars => [Outbox!Next]_OutboxVars
<1> SUFFICES ASSUME IInv, [Next]_vars PROVE Outbox!Next \/ UNCHANGED OutboxVars
  OBVIOUS
<1>t. /\ entry \in [Entries -> EntryRow] /\ relay \in [Relays -> RelayRow]
      /\ posted \in [Entries -> Nat]
  BY Types DEF IInv
<1>h. \A r \in Relays, e \in Entries :
        \A pc \in {"submit", "mark_sent", "mark_failed", "route"} :
          InHand(r, e, pc) => entry[e].status = "in_progress"
  BY DEF IInv, HeldInv, InHand
<1>o. PhaseOf("pending") = "open" /\ PhaseOf("in_progress") = "open" /\ PhaseOf("none") = "absent"
  BY DEF PhaseOf
<1>1. ASSUME NEW e \in Entries, CreateEntry(e) PROVE Outbox!Next
  <2>1. /\ entry' = [entry EXCEPT ![e] = [status |-> "pending", attempts |-> 0, due |-> TRUE]]
        /\ entry[e].status = "none" /\ posted' = posted
    BY <1>1 DEF CreateEntry
  <2>2. entry'[e].status = "pending" /\ \A f \in Entries \ {e} : entry'[f] = entry[f]
    BY <1>t, <2>1
  <2>3. [f \in Entries |-> PhaseOf(entry'[f].status)] =
          [[f \in Entries |-> PhaseOf(entry[f].status)] EXCEPT ![e] = "open"]
    BY <1>o, <2>2
  <2> QED
    BY <1>o, <2>1, <2>3 DEF Outbox!Next, Outbox!Enqueue
<1>2. ASSUME NEW e \in Entries, BackoffEnds(e) PROVE UNCHANGED OutboxVars
  <2>1. entry' = [entry EXCEPT ![e].due = TRUE] /\ posted' = posted
    BY <1>2 DEF BackoffEnds
  <2>2. \A f \in Entries : entry'[f].status = entry[f].status
    BY <1>t, <2>1, DueWritten
  <2> QED
    BY <2>1, <2>2, Unseen
<1>3. ASSUME NEW r \in Relays, Claim(r) PROVE UNCHANGED OutboxVars
  <2> DEFINE S == Oldest(Candidates, BatchLimit)
  <2>1. \A e \in S : entry[e].status = "pending"
    BY ClaimedArePending
  <2>2. /\ posted' = posted
        /\ entry' = [e \in Entries |->
                       IF e \in S
                         THEN [status |-> "in_progress", attempts |-> entry[e].attempts + 1,
                               due |-> FALSE]
                         ELSE entry[e]]
    BY <1>3 DEF Claim
  <2> HIDE DEF S
  <2>3. \A e \in Entries : PhaseOf(entry'[e].status) = PhaseOf(entry[e].status)
    <3>1. TAKE e \in Entries
    <3>2. CASE e \in S
      <4>1. entry[e].status = "pending" /\ entry'[e].status = "in_progress"
        BY <2>1, <2>2, <3>2
      <4> QED
        BY <1>o, <4>1
    <3>3. CASE e \notin S
      BY <2>2, <3>3
    <3> QED
      BY <3>2, <3>3
  <2> QED
    BY <2>2, <2>3, Unseen
<1>4. ASSUME NEW r \in Relays, Process(r) PROVE Outbox!Next \/ UNCHANGED OutboxVars
  <2>0. PICK e \in Entries :
          \/ Submit(r, e) \/ Query(r, e)
          \/ MarkSent(r, e) \/ MarkFailed(r, e) \/ RouteToReconciliation(r, e)
          \/ OpenCase(r, e)
    BY <1>4 DEF Process
  <2>1. CASE Submit(r, e)
    <3>1. InHand(r, e, "submit") /\ entry' = entry
      BY <2>1 DEF Submit
    <3>2. posted' = posted \/ posted' = [posted EXCEPT ![e] = @ + 1]
      BY <1>t, <2>1 DEF Submit
    <3>3. CASE posted' = posted
      BY <3>1, <3>3, Unseen
    <3>4. CASE posted' = [posted EXCEPT ![e] = @ + 1]
      <4>1. posted[e] < entry[e].attempts
        BY <3>1 DEF IInv, PaidInv, InHand
      <4>2. entry[e].attempts \in 0 .. MaxAttempts /\ posted[e] \in Nat
        BY <1>t DEF EntryRow
      <4>3. posted[e] < MaxAttempts
        BY <4>1, <4>2, LimitsAssumption
      <4>4. PhaseOf(entry[e].status) = "open"
        BY <1>h, <1>o, <3>1
      <4> QED
        BY <3>1, <3>4, <4>3, <4>4 DEF Outbox!Next, Outbox!Post
    <3> QED
      BY <3>2, <3>3, <3>4
  <2>2. CASE Query(r, e) \/ OpenCase(r, e)
    <3>1. entry' = entry /\ posted' = posted
      BY <2>2 DEF Query, OpenCase
    <3> QED
      BY <3>1, Unseen
  <2>3. CASE MarkSent(r, e) \/ RouteToReconciliation(r, e)
    <3>1. /\ InHand(r, e, "mark_sent") \/ InHand(r, e, "route")
          /\ posted' = posted
          /\ \E st \in {"sent", "reconcile_required"} : entry' = [entry EXCEPT ![e].status = st]
      BY <2>3 DEF MarkSent, RouteToReconciliation
    <3>2. entry[e].status = "in_progress"
      BY <1>h, <3>1
    <3>3. Outbox!Settle(e)
      BY <1>t, <3>1, <3>2, SettleStep
    <3> QED
      BY <3>3 DEF Outbox!Next
  <2>4. CASE MarkFailed(r, e)
    <3>1. InHand(r, e, "mark_failed") /\ posted' = posted
      BY <2>4 DEF MarkFailed
    <3>2. entry[e].status = "in_progress"
      BY <1>h, <3>1
    <3>3. CASE entry' = [entry EXCEPT ![e].status = "reconcile_required"]
      <4>1. Outbox!Settle(e)
        BY <1>t, <3>1, <3>2, <3>3, SettleStep
      <4> QED
        BY <4>1 DEF Outbox!Next
    <3>4. CASE entry' = [entry EXCEPT ![e].status = "pending", ![e].due = FALSE]
      <4>1. entry'[e].status = "pending" /\ \A f \in Entries \ {e} : entry'[f] = entry[f]
        BY <1>t, <3>4 DEF EntryRow
      <4>2. \A f \in Entries : PhaseOf(entry'[f].status) = PhaseOf(entry[f].status)
        BY <1>o, <3>2, <4>1
      <4> QED
        BY <3>1, <4>2, Unseen
    <3> QED
      BY <2>4, <3>3, <3>4 DEF MarkFailed
  <2> QED
    BY <2>0, <2>1, <2>2, <2>3, <2>4
<1>5. ASSUME NEW r \in Relays, Crash(r) PROVE UNCHANGED OutboxVars
  <2>1. entry' = entry /\ posted' = posted
    BY <1>5 DEF Crash
  <2> QED
    BY <2>1, Unseen
<1>6. CASE Next
  BY <1>6, <1>1, <1>2, <1>3, <1>4, <1>5 DEF Next
<1>7. CASE UNCHANGED vars
  <2>1. entry' = entry /\ posted' = posted
    BY <1>7 DEF vars
  <2> QED
    BY <2>1, Unseen
<1> QED
  BY <1>6, <1>7

\* The relays implement the outbox of Delivery, for any number of them and any
\* adapter: nothing is posted for an entry that is settled, at most MaxAttempts
\* documents of one that is open, and no settled entry is taken up again.
THEOREM DeliveryImplemented == Spec => ImplementsDelivery
  BY Inductive, RefineInit, RefineNext, PTL DEF Spec, ImplementsDelivery, Outbox!Spec, OutboxVars

=============================================================================
