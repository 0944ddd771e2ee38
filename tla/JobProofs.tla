------------------------------ MODULE JobProofs -----------------------------
(***************************************************************************)
(* What TLAPS proves about the jobs: about the queue that hands them out   *)
(* and, in the second half, about the models that they make.               *)
(*                                                                         *)
(* What holds of JobQueue for any number of workers and jobs, any limit of *)
(* attempts, and workers killed at any moment: as long as no lease of a    *)
(* job expired, the queue keeps its promises about it.                     *)
(*                                                                         *)
(* The inductive invariant says what may be known of such a job: a worker  *)
(* that holds it is the only one, its row is running or cancelled, and its *)
(* work is done just when the holder is about to report so; a row that     *)
(* waits has attempts left and nothing done; and nobody's list of expired  *)
(* jobs, which is written without looking again, names it.                 *)
(***************************************************************************)
EXTENDS JobQueue, ModelStore, SequenceTheorems, TLAPS

Free == {"poll", "reclaim", "write", "claim"}

\* A worker has a job in hand exactly from its claim to its report.
HandInv == \A w \in Workers : worker[w].job = NoJob <=> worker[w].pc \in Free

\* What a worker is going to write back as expired did expire.
ListInv == \A w \in Workers : worker[w].requeue \cup worker[w].giveup \subseteq lapsed

\* An expired lease is on record.
LeaseInv == \A j \in Jobs : job[j].expired => j \in lapsed

\* The row of a job in hand, and whether its work is done.
HeldInv ==
  \A w \in Workers : \A j \in Jobs \ lapsed :
    Holds(w, j) => /\ job[j].status \in {"running", "cancelled"}
                   /\ done[j] = IF worker[w].pc = "complete" THEN 1 ELSE 0

\* Success is reported of work that was done.
ReportInv == \A w \in Workers : worker[w].pc = "complete" => done[worker[w].job] > 0

\* A job that waits was not worked on and may be tried.
WaitInv ==
  \A j \in Jobs \ lapsed :
    job[j].status \in {"none", "queued"} => done[j] = 0 /\ job[j].attempts < MaxAttempts

IInv ==
  /\ TypeOK
  /\ HandInv /\ ListInv /\ LeaseInv
  /\ HeldInv /\ ReportInv /\ WaitInv
  /\ OneHolder /\ WorkedOnce /\ AttemptsAreBounded /\ CompletedWasDone

-----------------------------------------------------------------------------
(* The types, spelled out once. *)

Pcs == Free \cup {"recheck", "release", "execute", "complete", "fail"}

WorkerRow == [pc : Pcs, job : Jobs \cup {NoJob}, gpu : BOOLEAN,
              requeue : SUBSET Jobs, giveup : SUBSET Jobs]

LEMMA NoJobIsNone == NoJob \notin Jobs
BY JobsAssumption DEF NoJob, Jobs

LEMMA Types ==
  TypeOK <=> /\ job \in [Jobs -> Rows]
             /\ worker \in [Workers -> WorkerRow]
             /\ session \in [active : BOOLEAN, started : 0 .. MaxSessions]
             /\ done \in [Jobs -> 0 .. 2]
             /\ lapsed \subseteq Jobs
BY DEF TypeOK, WorkerRow, Pcs, Free

LEMMA TypesNext ==
  TypeOK' <=> /\ job' \in [Jobs -> Rows]
              /\ worker' \in [Workers -> WorkerRow]
              /\ session' \in [active : BOOLEAN, started : 0 .. MaxSessions]
              /\ done' \in [Jobs -> 0 .. 2]
              /\ lapsed' \subseteq Jobs
BY DEF TypeOK, WorkerRow, Pcs, Free

LEMMA PollingIsFree ==
  /\ Polling \in WorkerRow
  /\ Polling.pc = "poll" /\ Polling.job = NoJob /\ Polling.requeue = {} /\ Polling.giveup = {}
BY DEF Polling, WorkerRow, Pcs, Free

\* A status written over a row.
LEMMA MovedRow ==
  ASSUME NEW row \in Rows, NEW status \in Statuses
  PROVE  /\ Moved(row, status) \in Rows
         /\ Moved(row, status).status = status
         /\ Moved(row, status).attempts = row.attempts
         /\ Moved(row, status).expired = FALSE
BY DEF Moved, Rows

LEMMA StatusesNamed == {"queued", "running", "completed", "failed", "cancelled"} \subseteq Statuses
BY DEF Statuses, Finished

-----------------------------------------------------------------------------
(* The invariant is inductive. *)

LEMMA InvInit == Init => IInv
<1> SUFFICES ASSUME Init PROVE IInv
  OBVIOUS
<1>1. [status |-> "none", attempts |-> 0, expired |-> FALSE] \in Rows
  BY DEF Rows, Statuses
<1>2. [active |-> FALSE, started |-> 0] \in [active : BOOLEAN, started : 0 .. MaxSessions]
  BY LimitsAssumption
<1>3. TypeOK
  BY <1>1, <1>2, Types, PollingIsFree DEF Init
<1>4. HandInv /\ ListInv /\ LeaseInv
  BY PollingIsFree DEF Init, HandInv, ListInv, LeaseInv, Free
<1>5. HeldInv /\ OneHolder
  BY PollingIsFree, NoJobIsNone DEF Init, HeldInv, OneHolder, Holds
<1>6. ReportInv
  BY PollingIsFree DEF Init, ReportInv
<1>7. WaitInv /\ WorkedOnce /\ AttemptsAreBounded /\ CompletedWasDone
  BY LimitsAssumption DEF Init, WaitInv, WorkedOnce, AttemptsAreBounded, CompletedWasDone
<1> QED
  BY <1>3, <1>4, <1>5, <1>6, <1>7 DEF IInv

\* A worker goes on without touching the tables: it keeps its job, whose work is
\* no more done than before, or it has none.
LEMMA MoveOn ==
  ASSUME IInv, NEW w \in Workers,
         UNCHANGED <<job, session, done, lapsed>>,
         worker' \in [Workers -> WorkerRow],
         \A v \in Workers \ {w} : worker'[v] = worker[v],
         worker'[w].requeue \cup worker'[w].giveup \subseteq lapsed,
         \/ worker'[w].job = NoJob /\ worker'[w].pc \in Free
         \/ /\ worker'[w].job = worker[w].job
            /\ worker[w].pc \notin Free \cup {"complete"}
            /\ worker'[w].pc \notin Free \cup {"complete"}
  PROVE  IInv'
<1>1. TypeOK'
  BY Types, TypesNext DEF IInv
<1>2. HandInv'
  BY DEF IInv, HandInv
<1>3. ListInv' /\ LeaseInv'
  BY DEF IInv, ListInv, LeaseInv
<1>4. ASSUME NEW v \in Workers, NEW j \in Jobs, Holds(v, j)'
      PROVE  Holds(v, j) /\ (worker'[v].pc = "complete" <=> worker[v].pc = "complete")
  BY <1>4, NoJobIsNone DEF Holds, Free
<1>5. HeldInv'
  BY <1>4 DEF IInv, HeldInv
<1>6. OneHolder'
  BY <1>4 DEF IInv, OneHolder
<1>7. ReportInv'
  BY DEF IInv, ReportInv, Free
<1>8. WaitInv' /\ WorkedOnce' /\ AttemptsAreBounded' /\ CompletedWasDone'
  BY DEF IInv, WaitInv, WorkedOnce, AttemptsAreBounded, CompletedWasDone
<1> QED
  BY <1>1, <1>2, <1>3, <1>5, <1>6, <1>7, <1>8 DEF IInv

\* A worker puts its job down with the row it writes.
LEMMA PutDown ==
  ASSUME IInv, NEW w \in Workers, NEW j \in Jobs, NEW row \in Rows, Holds(w, j),
         job' = [job EXCEPT ![j] = row],
         worker' = [worker EXCEPT ![w] = Polling],
         UNCHANGED <<session, done, lapsed>>,
         row.expired => job[j].expired,
         row.status = "completed" => job[j].status = "completed" \/ worker[w].pc = "complete",
         j \notin lapsed => row.attempts <= MaxAttempts,
         row.status \in {"none", "queued"} =>
            j \in lapsed \/ (worker[w].pc # "complete" /\ row.attempts < MaxAttempts)
  PROVE  IInv'
<1>t. job \in [Jobs -> Rows] /\ worker \in [Workers -> WorkerRow]
  BY Types DEF IInv
<1>1. /\ job'[j] = row /\ \A i \in Jobs \ {j} : job'[i] = job[i]
      /\ worker'[w] = Polling /\ \A v \in Workers \ {w} : worker'[v] = worker[v]
  BY <1>t
<1>2. job' \in [Jobs -> Rows] /\ worker' \in [Workers -> WorkerRow]
  BY <1>t, PollingIsFree
<1>3. TypeOK'
  BY <1>2, Types, TypesNext DEF IInv
<1>4. HandInv' /\ ListInv'
  BY <1>1, PollingIsFree DEF IInv, HandInv, ListInv, Free
<1>5. LeaseInv'
  BY <1>1 DEF IInv, LeaseInv
<1>6. ASSUME NEW v \in Workers, NEW i \in Jobs, Holds(v, i)'
      PROVE  v # w /\ Holds(v, i) /\ worker'[v] = worker[v]
  BY <1>1, <1>6, PollingIsFree, NoJobIsNone DEF Holds
<1>7. HeldInv'
  <2> SUFFICES ASSUME NEW v \in Workers, NEW i \in Jobs \ lapsed', Holds(v, i)'
               PROVE  /\ job'[i].status \in {"running", "cancelled"}
                      /\ done'[i] = IF worker'[v].pc = "complete" THEN 1 ELSE 0
    BY DEF HeldInv
  <2>1. v # w /\ Holds(v, i) /\ worker'[v] = worker[v] /\ i \notin lapsed
    BY <1>6
  <2>2. i # j
    BY <2>1 DEF IInv, OneHolder
  <2> QED
    BY <1>1, <2>1, <2>2 DEF IInv, HeldInv
<1>8. OneHolder'
  BY <1>6 DEF IInv, OneHolder
<1>9. ReportInv'
  BY <1>1, PollingIsFree DEF IInv, ReportInv
<1>10. WaitInv'
  <2>1. j \notin lapsed /\ worker[w].pc # "complete" => done[j] = 0
    BY DEF IInv, HeldInv
  <2> QED
    BY <1>1, <2>1 DEF IInv, WaitInv
<1>11. WorkedOnce' /\ AttemptsAreBounded'
  BY <1>1 DEF IInv, WorkedOnce, AttemptsAreBounded
<1>12. CompletedWasDone'
  BY <1>1 DEF IInv, CompletedWasDone, ReportInv, Holds
<1> QED
  BY <1>3, <1>4, <1>5, <1>7, <1>8, <1>9, <1>10, <1>11, <1>12 DEF IInv

\* Someone outside the workers writes a row: it is queued for the first time, or
\* a lease of it ends, or it is cancelled.
LEMMA RowStep ==
  ASSUME IInv, NEW j \in Jobs, SubmitJob(j) \/ CancelJob(j) \/ LeaseExpires(j)
  PROVE  IInv'
<1>t. job \in [Jobs -> Rows] /\ job[j] \in Rows
  BY Types DEF IInv
<1>s. "queued" \in Statuses /\ "cancelled" \in Statuses
  BY StatusesNamed
<1>u. UNCHANGED <<worker, done>> /\ session' \in [active : BOOLEAN, started : 0 .. MaxSessions]
  BY Types DEF IInv, SubmitJob, CancelJob, LeaseExpires
<1>1. /\ job' \in [Jobs -> Rows] /\ \A i \in Jobs \ {j} : job'[i] = job[i]
      /\ job'[j].attempts = job[j].attempts
      /\ lapsed \subseteq lapsed' /\ lapsed' \subseteq Jobs
      /\ job'[j].expired => job[j].expired \/ j \in lapsed'
      /\ \/ job[j].status = "none" /\ job'[j].status = "queued"
         \/ job[j].status \in {"queued", "running"} /\ job'[j].status = "cancelled"
         \/ j \in lapsed' /\ job'[j].status = job[j].status
  <2>1. CASE SubmitJob(j)
    <3>1. [job[j] EXCEPT !.status = "queued"] \in Rows
      BY <1>t, <1>s DEF Rows
    <3>2. job' = [job EXCEPT ![j] = [job[j] EXCEPT !.status = "queued"]] /\ lapsed' = lapsed
             /\ job[j].status = "none"
      BY <2>1 DEF SubmitJob
    <3> QED
      BY <1>t, <3>1, <3>2, Types DEF IInv, Rows
  <2>2. CASE CancelJob(j)
    <3>1. job' = [job EXCEPT ![j] = Moved(job[j], "cancelled")] /\ lapsed' = lapsed
             /\ job[j].status \in {"queued", "running"}
      BY <2>2 DEF CancelJob
    <3> QED
      BY <1>t, <1>s, <3>1, MovedRow, Types DEF IInv
  <2>3. CASE LeaseExpires(j)
    <3>1. [job[j] EXCEPT !.expired = TRUE] \in Rows
      BY <1>t DEF Rows
    <3>2. job' = [job EXCEPT ![j] = [job[j] EXCEPT !.expired = TRUE]] /\ lapsed' = lapsed \cup {j}
      BY <2>3 DEF LeaseExpires
    <3> QED
      BY <1>t, <3>1, <3>2, Types DEF IInv, Rows
  <2> QED
    BY <2>1, <2>2, <2>3
<1>2. TypeOK'
  BY <1>u, <1>1, Types, TypesNext DEF IInv
<1>3. HandInv' /\ ReportInv'
  BY <1>u DEF IInv, HandInv, ReportInv
<1>4. ListInv' /\ LeaseInv'
  BY <1>u, <1>1 DEF IInv, ListInv, LeaseInv
<1>5. ASSUME NEW v \in Workers, NEW i \in Jobs, Holds(v, i)' PROVE Holds(v, i)
  BY <1>u, <1>5 DEF Holds
<1>6. HeldInv'
  BY <1>u, <1>1, <1>5 DEF IInv, HeldInv
<1>7. OneHolder'
  BY <1>1, <1>5 DEF IInv, OneHolder
<1>8. WaitInv' /\ WorkedOnce' /\ AttemptsAreBounded'
  BY <1>u, <1>1 DEF IInv, WaitInv, WorkedOnce, AttemptsAreBounded
<1>9. CompletedWasDone'
  BY <1>u, <1>1 DEF IInv, CompletedWasDone
<1> QED
  BY <1>2, <1>3, <1>4, <1>6, <1>7, <1>8, <1>9 DEF IInv

\* Sessions come and go: only the GPU rule looks at them.
LEMMA SessionStep ==
  ASSUME IInv, SessionStarts \/ SessionEnds
  PROVE  IInv'
<1>1. UNCHANGED <<job, worker, done, lapsed>>
  BY DEF SessionStarts, SessionEnds
<1>2. session \in [active : BOOLEAN, started : 0 .. MaxSessions]
  BY Types DEF IInv
<1>3. session' \in [active : BOOLEAN, started : 0 .. MaxSessions]
  <2>1. CASE SessionStarts
    BY <1>2, <2>1, LimitsAssumption DEF SessionStarts
  <2>2. CASE SessionEnds
    BY <1>2, <2>2 DEF SessionEnds
  <2> QED
    BY <2>1, <2>2
<1>4. TypeOK'
  BY <1>1, <1>3, Types, TypesNext DEF IInv
<1> QED
  BY <1>1, <1>4
     DEF IInv, HandInv, ListInv, LeaseInv, HeldInv, ReportInv, WaitInv, OneHolder, WorkedOnce,
         AttemptsAreBounded, CompletedWasDone, Holds

\* The second half of a reclaim writes over rows of lapsed jobs only.
LEMMA WriteExpiredStep ==
  ASSUME IInv, NEW w \in Workers, WriteExpired(w)
  PROVE  IInv'
<1>t. job \in [Jobs -> Rows] /\ worker \in [Workers -> WorkerRow] /\ lapsed \subseteq Jobs
  BY Types DEF IInv
<1>s. "queued" \in Statuses /\ "failed" \in Statuses
  BY StatusesNamed
<1>1. /\ worker[w].pc = "write"
      /\ job' = [j \in Jobs |->
                   IF j \in worker[w].requeue THEN Moved(job[j], "queued")
                   ELSE IF j \in worker[w].giveup THEN Moved(job[j], "failed")
                   ELSE job[j]]
      /\ worker' = [worker EXCEPT ![w].pc = "claim", ![w].requeue = {}, ![w].giveup = {}]
      /\ UNCHANGED <<session, done, lapsed>>
  BY DEF WriteExpired
<1>2. \A j \in Jobs :
        /\ job'[j] \in Rows
        /\ j \notin lapsed => job'[j] = job[j]
        /\ job'[j] = job[j] \/ (~ job'[j].expired /\ job'[j].status \in {"queued", "failed"})
  BY <1>t, <1>s, <1>1, MovedRow DEF IInv, ListInv
<1>3. /\ worker' \in [Workers -> WorkerRow]
      /\ worker'[w].pc = "claim" /\ worker'[w].job = worker[w].job
      /\ worker'[w].requeue = {} /\ worker'[w].giveup = {}
      /\ \A v \in Workers \ {w} : worker'[v] = worker[v]
  BY <1>t, <1>1 DEF WorkerRow, Pcs, Free
<1>4. job' \in [Jobs -> Rows]
  BY <1>1, <1>2
<1>5. TypeOK'
  BY <1>1, <1>3, <1>4, Types, TypesNext DEF IInv
<1>6. HandInv' /\ ListInv'
  BY <1>1, <1>3 DEF IInv, HandInv, ListInv, Free
<1>7. LeaseInv'
  BY <1>1, <1>2 DEF IInv, LeaseInv
<1>8. ASSUME NEW v \in Workers, NEW j \in Jobs, Holds(v, j)'
      PROVE  Holds(v, j) /\ (worker'[v].pc = "complete" <=> worker[v].pc = "complete")
  BY <1>1, <1>3, <1>8 DEF Holds
<1>9. HeldInv'
  BY <1>1, <1>2, <1>8 DEF IInv, HeldInv
<1>10. OneHolder'
  BY <1>1, <1>8 DEF IInv, OneHolder
<1>11. ReportInv'
  BY <1>1, <1>3 DEF IInv, ReportInv
<1>12. WaitInv' /\ WorkedOnce' /\ AttemptsAreBounded'
  BY <1>1, <1>2 DEF IInv, WaitInv, WorkedOnce, AttemptsAreBounded
<1>13. CompletedWasDone'
  BY <1>1, <1>2 DEF IInv, CompletedWasDone
<1> QED
  BY <1>5, <1>6, <1>7, <1>9, <1>10, <1>11, <1>12, <1>13 DEF IInv

\* A claim takes a queued row, which nobody holds.
LEMMA ClaimStep ==
  ASSUME IInv, NEW w \in Workers, Claim(w)
  PROVE  IInv'
<1>t. job \in [Jobs -> Rows] /\ worker \in [Workers -> WorkerRow]
  BY Types DEF IInv
<1>1. CASE worker' = [worker EXCEPT ![w] = Polling] /\ UNCHANGED job
  <2>1. UNCHANGED <<job, session, done, lapsed>>
    BY <1>1 DEF Claim
  <2>2. worker' \in [Workers -> WorkerRow] /\ worker'[w] = Polling
        /\ \A v \in Workers \ {w} : worker'[v] = worker[v]
    BY <1>t, <1>1, PollingIsFree
  <2>3. worker'[w].requeue \cup worker'[w].giveup \subseteq lapsed
        /\ worker'[w].job = NoJob /\ worker'[w].pc \in Free
    BY <2>2, PollingIsFree DEF Free
  <2> QED
    BY <2>1, <2>2, <2>3, MoveOn
<1>2. CASE \E j \in Jobs :
             /\ IsNext(j, Claimable(w))
             /\ job' = [job EXCEPT ![j] = [status |-> "running", attempts |-> @.attempts + 1,
                                           expired |-> FALSE]]
             /\ worker' = [worker EXCEPT ![w].pc = IF j \in GpuJobs THEN "recheck" ELSE "execute",
                                         ![w].job = j, ![w].gpu = FALSE]
  <2>1. PICK j \in Jobs :
          /\ j \in Claimable(w)
          /\ job' = [job EXCEPT ![j] = [status |-> "running", attempts |-> job[j].attempts + 1,
                                        expired |-> FALSE]]
          /\ worker' = [worker EXCEPT ![w].pc = IF j \in GpuJobs THEN "recheck" ELSE "execute",
                                      ![w].job = j, ![w].gpu = FALSE]
    BY <1>2 DEF IsNext
  <2>2. UNCHANGED <<session, done, lapsed>> /\ worker[w].pc = "claim"
    BY DEF Claim
  <2>3. job[j].status = "queued" /\ j # NoJob
    BY <2>1, NoJobIsNone DEF Claimable
  <2>4. [status |-> "running", attempts |-> job[j].attempts + 1, expired |-> FALSE] \in Rows
    BY <1>t, StatusesNamed DEF Rows
  <2>5. /\ job' \in [Jobs -> Rows] /\ \A i \in Jobs \ {j} : job'[i] = job[i]
        /\ job'[j].status = "running" /\ job'[j].attempts = job[j].attempts + 1 /\ ~ job'[j].expired
    BY <1>t, <2>1, <2>4
  <2>6. /\ worker' \in [Workers -> WorkerRow] /\ \A v \in Workers \ {w} : worker'[v] = worker[v]
        /\ worker'[w].pc \in {"recheck", "execute"} /\ worker'[w].job = j
        /\ worker'[w].requeue = worker[w].requeue /\ worker'[w].giveup = worker[w].giveup
    <3> DEFINE next == IF j \in GpuJobs THEN "recheck" ELSE "execute"
    <3>1. next \in {"recheck", "execute"} /\ next \in Pcs
      BY DEF Pcs
    <3>2. worker' = [worker EXCEPT ![w].pc = next, ![w].job = j, ![w].gpu = FALSE]
      BY <2>1
    <3> HIDE DEF next
    <3> QED
      BY <1>t, <3>1, <3>2 DEF WorkerRow
  <2>7. j \notin lapsed => done[j] = 0 /\ job[j].attempts < MaxAttempts
    BY <2>3 DEF IInv, WaitInv
  <2>8. \A v \in Workers : j \notin lapsed => ~ Holds(v, j)
    BY <2>3 DEF IInv, HeldInv
  <2>9. TypeOK'
    BY <2>2, <2>5, <2>6, Types, TypesNext DEF IInv
  <2>10. HandInv' /\ ListInv'
    BY <2>2, <2>3, <2>6 DEF IInv, HandInv, ListInv, Free
  <2>11. LeaseInv'
    BY <2>2, <2>5 DEF IInv, LeaseInv
  <2>12. ASSUME NEW v \in Workers, NEW i \in Jobs \ lapsed, Holds(v, i)'
         PROVE  IF v = w THEN i = j ELSE i # j /\ Holds(v, i) /\ worker'[v] = worker[v]
    BY <2>6, <2>8, <2>12 DEF Holds
  <2>13. HeldInv'
    <3> SUFFICES ASSUME NEW v \in Workers, NEW i \in Jobs \ lapsed, Holds(v, i)'
                 PROVE  /\ job'[i].status \in {"running", "cancelled"}
                        /\ done[i] = IF worker'[v].pc = "complete" THEN 1 ELSE 0
      BY <2>2 DEF HeldInv
    <3>1. CASE v = w
      BY <2>5, <2>6, <2>7, <2>12, <3>1
    <3>2. CASE v # w
      BY <2>5, <2>12, <3>2 DEF IInv, HeldInv
    <3> QED
      BY <3>1, <3>2
  <2>14. OneHolder'
    BY <2>2, <2>12 DEF IInv, OneHolder
  <2>15. ReportInv'
    BY <2>2, <2>6 DEF IInv, ReportInv
  <2>16. WaitInv' /\ WorkedOnce'
    BY <2>2, <2>5 DEF IInv, WaitInv, WorkedOnce
  <2>17. AttemptsAreBounded'
    BY <1>t, <2>2, <2>5, <2>7, LimitsAssumption DEF IInv, AttemptsAreBounded, Rows
  <2>18. CompletedWasDone'
    BY <2>2, <2>5 DEF IInv, CompletedWasDone
  <2> QED
    BY <2>9, <2>10, <2>11, <2>13, <2>14, <2>15, <2>16, <2>17, <2>18 DEF IInv
<1> QED
  BY <1>1, <1>2 DEF Claim

\* The work is done by the only holder, or raises.
LEMMA ExecuteStep ==
  ASSUME IInv, NEW w \in Workers, Execute(w)
  PROVE  IInv'
<1>t. worker \in [Workers -> WorkerRow] /\ done \in [Jobs -> 0 .. 2]
  BY Types DEF IInv
<1> DEFINE j == worker[w].job
<1>1. worker[w].pc = "execute" /\ UNCHANGED <<job, session, lapsed>>
  BY DEF Execute
<1>2. j \in Jobs
  BY <1>t, <1>1 DEF IInv, HandInv, Free, WorkerRow
<1>3. CASE worker' = [worker EXCEPT ![w].pc = "fail"] /\ UNCHANGED done
  <2>1. /\ worker' \in [Workers -> WorkerRow] /\ \A v \in Workers \ {w} : worker'[v] = worker[v]
        /\ worker'[w].pc = "fail" /\ worker'[w].job = worker[w].job
        /\ worker'[w].requeue = worker[w].requeue /\ worker'[w].giveup = worker[w].giveup
    BY <1>t, <1>3 DEF WorkerRow, Pcs
  <2>2. worker'[w].requeue \cup worker'[w].giveup \subseteq lapsed
    BY <2>1 DEF IInv, ListInv
  <2>3. worker[w].pc \notin Free \cup {"complete"} /\ worker'[w].pc \notin Free \cup {"complete"}
    BY <1>1, <2>1 DEF Free
  <2> QED
    BY <1>1, <1>3, <2>1, <2>2, <2>3, MoveOn
<1>4. CASE /\ done' = [done EXCEPT ![j] = IF @ < 2 THEN @ + 1 ELSE 2]
           /\ worker' = [worker EXCEPT ![w].pc = "complete"]
  <2>1. /\ worker' \in [Workers -> WorkerRow] /\ \A v \in Workers \ {w} : worker'[v] = worker[v]
        /\ worker'[w].pc = "complete" /\ worker'[w].job = j
        /\ worker'[w].requeue = worker[w].requeue /\ worker'[w].giveup = worker[w].giveup
    BY <1>t, <1>4 DEF WorkerRow, Pcs
  <2>2. /\ done' \in [Jobs -> 0 .. 2] /\ \A i \in Jobs \ {j} : done'[i] = done[i]
        /\ done'[j] > 0 /\ (done[j] = 0 => done'[j] = 1)
    BY <1>t, <1>2, <1>4
  <2>3. Holds(w, j)
    BY DEF Holds
  <2>4. j \notin lapsed => done[j] = 0 /\ job[j].status \in {"running", "cancelled"}
    BY <1>1, <1>2, <2>3 DEF IInv, HeldInv
  <2> HIDE DEF j
  <2>5. TypeOK'
    BY <1>1, <2>1, <2>2, Types, TypesNext DEF IInv
  <2>6. HandInv'
    BY <1>1, <1>2, <2>1, NoJobIsNone DEF IInv, HandInv, Free
  <2>7. ListInv' /\ LeaseInv'
    BY <1>1, <2>1 DEF IInv, ListInv, LeaseInv
  <2>8. ASSUME NEW v \in Workers, NEW i \in Jobs, Holds(v, i)'
        PROVE  Holds(v, i) /\ (v # w => worker'[v] = worker[v]) /\ (v = w => i = j)
    BY <2>1, <2>8 DEF Holds, j
  <2>9. HeldInv'
    <3> SUFFICES ASSUME NEW v \in Workers, NEW i \in Jobs \ lapsed, Holds(v, i)'
                 PROVE  /\ job[i].status \in {"running", "cancelled"}
                        /\ done'[i] = IF worker'[v].pc = "complete" THEN 1 ELSE 0
      BY <1>1 DEF HeldInv
    <3>1. CASE v = w
      BY <2>1, <2>2, <2>4, <2>8, <3>1
    <3>2. CASE v # w
      <4>1. i # j
        BY <2>3, <2>8, <3>2 DEF IInv, OneHolder
      <4> QED
        BY <2>2, <2>8, <3>2, <4>1 DEF IInv, HeldInv
    <3> QED
      BY <3>1, <3>2
  <2>10. OneHolder'
    BY <1>1, <2>8 DEF IInv, OneHolder
  <2>11. ReportInv'
    <3> SUFFICES ASSUME NEW v \in Workers, worker'[v].pc = "complete"
                 PROVE  done'[worker'[v].job] > 0
      BY DEF ReportInv
    <3>1. CASE v = w
      BY <2>1, <2>2, <3>1
    <3>2. CASE v # w
      <4>1. worker'[v] = worker[v] /\ worker[v].job \in Jobs
        BY <1>t, <2>1, <3>2 DEF IInv, HandInv, Free, WorkerRow
      <4> QED
        BY <2>2, <4>1 DEF IInv, ReportInv
    <3> QED
      BY <3>1, <3>2
  <2>12. WaitInv' /\ AttemptsAreBounded'
    BY <1>1, <2>2, <2>4 DEF IInv, WaitInv, AttemptsAreBounded
  <2>13. WorkedOnce'
    BY <1>1, <2>2, <2>4 DEF IInv, WorkedOnce
  <2>14. CompletedWasDone'
    BY <1>1, <2>2 DEF IInv, CompletedWasDone
  <2> QED
    BY <2>5, <2>6, <2>7, <2>9, <2>10, <2>11, <2>12, <2>13, <2>14 DEF IInv
<1> QED
  BY <1>3, <1>4 DEF Execute

\* A worker looks at the sessions or at the leases, or is killed.
LEMMA LookStep ==
  ASSUME IInv, NEW w \in Workers, CheckGpu(w) \/ ReadExpired(w) \/ Recheck(w) \/ Crash(w)
  PROVE  IInv'
<1>t. worker \in [Workers -> WorkerRow]
  BY Types DEF IInv
<1>0. UNCHANGED <<job, session, done, lapsed>>
  BY DEF CheckGpu, ReadExpired, Recheck, Crash
<1>l. worker[w].requeue \cup worker[w].giveup \subseteq lapsed
  BY DEF IInv, ListInv
<1>h. worker[w].job = NoJob <=> worker[w].pc \in Free
  BY DEF IInv, HandInv
<1>1. CASE CheckGpu(w)
  <2>1. GpuAllowed \in BOOLEAN
    BY DEF GpuAllowed
  <2>2. /\ worker[w].pc = "poll"
        /\ worker' = [worker EXCEPT ![w].pc = "reclaim", ![w].gpu = GpuAllowed]
    BY <1>1 DEF CheckGpu
  <2>3. /\ worker' \in [Workers -> WorkerRow] /\ \A v \in Workers \ {w} : worker'[v] = worker[v]
        /\ worker'[w].pc = "reclaim" /\ worker'[w].job = worker[w].job
        /\ worker'[w].requeue = worker[w].requeue /\ worker'[w].giveup = worker[w].giveup
    BY <1>t, <2>1, <2>2 DEF WorkerRow, Pcs, Free
  <2>4. worker'[w].job = NoJob /\ worker'[w].pc \in Free
    BY <1>h, <2>2, <2>3 DEF Free
  <2> QED
    BY <1>0, <1>l, <2>3, <2>4, MoveOn
<1>2. CASE ReadExpired(w)
  <2> DEFINE spent == {j \in Expired : job[j].attempts >= MaxAttempts}
             next  == IF Expired = {} THEN "claim" ELSE "write"
  <2>1. /\ worker[w].pc = "reclaim"
        /\ worker' = [worker EXCEPT ![w].pc = next, ![w].requeue = Expired \ spent,
                                    ![w].giveup = spent]
    BY <1>2 DEF ReadExpired
  <2>2. Expired \subseteq Jobs /\ Expired \subseteq lapsed
    BY DEF Expired, IInv, LeaseInv
  <2>3. spent \subseteq Expired /\ next \in {"claim", "write"}
    OBVIOUS
  <2> HIDE DEF spent, next
  <2>4. next \in Pcs /\ spent \in SUBSET Jobs /\ Expired \ spent \in SUBSET Jobs
    BY <2>2, <2>3 DEF Pcs, Free
  <2>5. /\ worker' \in [Workers -> WorkerRow] /\ \A v \in Workers \ {w} : worker'[v] = worker[v]
        /\ worker'[w].pc = next /\ worker'[w].job = worker[w].job
        /\ worker'[w].requeue = Expired \ spent /\ worker'[w].giveup = spent
    BY <1>t, <2>1, <2>4 DEF WorkerRow
  <2>6. worker'[w].requeue \cup worker'[w].giveup \subseteq lapsed
    BY <2>2, <2>3, <2>5
  <2>7. worker'[w].job = NoJob /\ worker'[w].pc \in Free
    BY <1>h, <2>1, <2>3, <2>5 DEF Free
  <2> QED
    BY <1>0, <2>5, <2>6, <2>7, MoveOn
<1>3. CASE Recheck(w)
  <2> DEFINE next == IF GpuAllowed THEN "execute" ELSE "release"
  <2>1. worker[w].pc = "recheck" /\ worker' = [worker EXCEPT ![w].pc = next]
    BY <1>3 DEF Recheck
  <2>2. next \in {"execute", "release"} /\ next \in Pcs
    BY DEF Pcs
  <2> HIDE DEF next
  <2>3. /\ worker' \in [Workers -> WorkerRow] /\ \A v \in Workers \ {w} : worker'[v] = worker[v]
        /\ worker'[w].pc = next /\ worker'[w].job = worker[w].job
        /\ worker'[w].requeue = worker[w].requeue /\ worker'[w].giveup = worker[w].giveup
    BY <1>t, <2>1, <2>2 DEF WorkerRow
  <2>4. worker[w].pc \notin Free \cup {"complete"} /\ worker'[w].pc \notin Free \cup {"complete"}
    BY <2>1, <2>2, <2>3 DEF Free
  <2> QED
    BY <1>0, <1>l, <2>3, <2>4, MoveOn
<1>4. CASE Crash(w)
  <2>1. worker' = [worker EXCEPT ![w] = Polling]
    BY <1>4 DEF Crash
  <2>2. worker' \in [Workers -> WorkerRow] /\ worker'[w] = Polling
        /\ \A v \in Workers \ {w} : worker'[v] = worker[v]
    BY <1>t, <2>1, PollingIsFree
  <2>3. worker'[w].requeue \cup worker'[w].giveup \subseteq lapsed
        /\ worker'[w].job = NoJob /\ worker'[w].pc \in Free
    BY <2>2, PollingIsFree DEF Free
  <2> QED
    BY <1>0, <2>2, <2>3, MoveOn
<1> QED
  BY <1>1, <1>2, <1>3, <1>4

\* A worker reports on its job, or gives it back.
LEMMA ReportStep ==
  ASSUME IInv, NEW w \in Workers, Release(w) \/ Complete(w) \/ Fail(w)
  PROVE  IInv'
<1>t. job \in [Jobs -> Rows] /\ worker \in [Workers -> WorkerRow]
  BY Types DEF IInv
<1> DEFINE j == worker[w].job
<1>0. /\ worker[w].pc \in {"release", "complete", "fail"}
      /\ worker' = [worker EXCEPT ![w] = Polling]
      /\ UNCHANGED <<session, done, lapsed>>
  BY DEF Release, Complete, Fail
<1>1. j \in Jobs /\ Holds(w, j)
  BY <1>t, <1>0 DEF IInv, HandInv, Free, WorkerRow, Holds
<1>2. job[j] \in Rows /\ job[j].attempts \in Nat /\ MaxAttempts \in Nat \ {0}
  BY <1>t, <1>1, LimitsAssumption DEF Rows
<1>3. j \notin lapsed => job[j].attempts <= MaxAttempts
  BY <1>1 DEF IInv, AttemptsAreBounded
<1>s. /\ "queued" \in Statuses /\ "completed" \in Statuses /\ "failed" \in Statuses
  BY StatusesNamed
<1>p. Holds(w, j) <=> worker[w].job = j
  BY DEF Holds
<1> SUFFICES \E row \in Rows :
      /\ job' = [job EXCEPT ![j] = row]
      /\ row.expired => job[j].expired
      /\ row.status = "completed" => job[j].status = "completed" \/ worker[w].pc = "complete"
      /\ j \notin lapsed => row.attempts <= MaxAttempts
      /\ row.status \in {"none", "queued"} =>
           j \in lapsed \/ (worker[w].pc # "complete" /\ row.attempts < MaxAttempts)
  BY <1>0, <1>1, PutDown
<1>4. CASE Release(w)
  <2>1. CASE job[j].status = "running"
    <3> DEFINE left == IF job[j].attempts > 0 THEN job[j].attempts - 1 ELSE 0
               row  == [status |-> "queued", attempts |-> left, expired |-> FALSE]
    <3>1. left \in Nat /\ (j \notin lapsed => left < MaxAttempts)
      BY <1>2, <1>3
    <3>2. job' = [job EXCEPT ![j] = row]
      BY <1>4, <2>1 DEF Release
    <3>3. row \in Rows
      BY <1>s, <3>1 DEF Rows
    <3>4. worker[w].pc = "release"
      BY <1>4 DEF Release
    <3> WITNESS row \in Rows
    <3> QED
      BY <3>1, <3>2, <3>4, <1>2
  <2>2. CASE job[j].status # "running"
    <3>1. job' = job
      BY <1>4, <2>2 DEF Release
    <3>2. job' = [job EXCEPT ![j] = job[j]]
      BY <1>t, <3>1
    <3>3. worker[w].pc = "release"
      BY <1>4 DEF Release
    <3>4. j \notin lapsed => job[j].status = "cancelled"
      BY <1>1, <2>2 DEF IInv, HeldInv
    <3> QED
      BY <1>2, <1>3, <3>2, <3>3, <3>4
  <2> QED
    BY <2>1, <2>2
<1>5. CASE Complete(w)
  <2>1. worker[w].pc = "complete" /\ job' = [job EXCEPT ![j] = Moved(job[j], "completed")]
    BY <1>5 DEF Complete
  <2> QED
    BY <1>2, <1>3, <1>s, <2>1, MovedRow
<1>6. CASE Fail(w)
  <2>0. worker[w].pc = "fail"
    BY <1>6 DEF Fail
  <2>1. CASE job[j].attempts >= MaxAttempts
    <3>1. job' = [job EXCEPT ![j] = Moved(job[j], "failed")]
      BY <1>6, <2>1 DEF Fail
    <3> QED
      BY <1>2, <1>3, <1>s, <3>1, MovedRow
  <2>2. CASE ~ (job[j].attempts >= MaxAttempts)
    <3>1. job' = [job EXCEPT ![j] = Moved(job[j], "queued")]
      BY <1>6, <2>2 DEF Fail
    <3>2. job[j].attempts < MaxAttempts /\ job[j].attempts <= MaxAttempts
      BY <1>2, <2>2
    <3> DEFINE row == Moved(job[j], "queued")
    <3>3. /\ row \in Rows
          /\ row.status = "queued" /\ row.attempts = job[j].attempts /\ row.expired = FALSE
      BY <1>2, <1>s, MovedRow
    <3>4. worker[w].pc # "complete" /\ row.status # "completed"
      BY <2>0, <3>3
    <3> HIDE DEF row
    <3>5. job' = [job EXCEPT ![j] = row]
      BY <3>1 DEF row
    <3> QED
      BY <3>2, <3>3, <3>4, <3>5
  <2> QED
    BY <2>1, <2>2
<1> QED
  BY <1>4, <1>5, <1>6

LEMMA InvNext == IInv /\ [Next]_vars => IInv'
<1> SUFFICES ASSUME IInv, [Next]_vars PROVE IInv'
  OBVIOUS
<1>1. CASE Next
  BY <1>1, RowStep, SessionStep, WriteExpiredStep, ClaimStep, ExecuteStep, LookStep, ReportStep
     DEF Next, RunStep
<1>2. CASE UNCHANGED vars
  BY <1>2, Types, TypesNext
     DEF vars, IInv, HandInv, ListInv, LeaseInv, HeldInv, ReportInv, WaitInv, OneHolder,
         WorkedOnce, AttemptsAreBounded, CompletedWasDone, Holds
<1> QED
  BY <1>1, <1>2

LEMMA Inductive == Spec => []IInv
BY InvInit, InvNext, PTL DEF Spec

-----------------------------------------------------------------------------
(* The theorems. *)

\* Every variable keeps its type, for any number of workers and jobs.
THEOREM JobTypeCorrect == Spec => []TypeOK
BY Inductive, PTL DEF IInv

\* However many workers poll at once, a job whose lease never expired is in the
\* hands of one of them at most (acquire_next_job).
THEOREM HoldersExclusive == Spec => []OneHolder
BY Inductive, PTL DEF IInv

\* ... and is worked on once at most, whatever is cancelled, released, failed
\* and queued again (run_step, fail_job).
THEOREM WorkDoneOnce == Spec => []WorkedOnce
BY Inductive, PTL DEF IInv

\* ... and is not tried more often than max_attempts (fail_job; the release in
\* run_step gives back what the claim took).
THEOREM AttemptsBounded == Spec => []AttemptsAreBounded
BY Inductive, PTL DEF IInv

\* No job, whatever happened to its lease, is completed without having been
\* worked on (execute_job, complete_job).
THEOREM CompletedWorkWasDone == Spec => []CompletedWasDone
BY Inductive, PTL DEF IInv

\* A job that ended stays as it ended, as long as its lease never expired: who
\* writes a row of it holds it, and what is held has not ended.
THEOREM FinishedJobsStay == Spec => FinishedStays
<1> DEFINE Ended(j) == job[j].status \in {"completed", "failed"}
           Stay == \A j \in Jobs \ lapsed : Ended(j) => job'[j].status = job[j].status
<1>1. ASSUME IInv, [Next]_vars PROVE Stay
  <2> SUFFICES ASSUME NEW j \in Jobs \ lapsed, Ended(j)
               PROVE  job'[j] = job[j] \/ job'[j].status = job[j].status
    BY DEF Stay
  <2>t. job \in [Jobs -> Rows] /\ worker \in [Workers -> WorkerRow]
    BY <1>1, Types DEF IInv
  <2>h. \A w \in Workers : ~ Holds(w, j)
    BY <1>1 DEF IInv, HeldInv
  <2>1. ASSUME NEW i \in Jobs, SubmitJob(i) \/ CancelJob(i) PROVE job'[j] = job[j]
    BY <2>t, <2>1 DEF SubmitJob, CancelJob
  <2>2. ASSUME NEW i \in Jobs, LeaseExpires(i) PROVE job'[j] = job[j]
    BY <2>t, <2>2 DEF LeaseExpires
  <2>3. ASSUME NEW w \in Workers, WriteExpired(w) PROVE job'[j] = job[j]
    BY <1>1, <2>3 DEF WriteExpired, IInv, ListInv
  <2>4. ASSUME NEW w \in Workers, Claim(w) PROVE job'[j] = job[j]
    BY <2>t, <2>4 DEF Claim, IsNext, Claimable
  <2>5. ASSUME NEW w \in Workers, Release(w) \/ Complete(w) \/ Fail(w) PROVE job'[j] = job[j]
    <3>1. worker[w].job # j
      BY <2>h DEF Holds
    <3> QED
      BY <2>t, <2>5, <3>1 DEF Release, Complete, Fail
  <2>6. ASSUME NEW w \in Workers,
               CheckGpu(w) \/ ReadExpired(w) \/ Recheck(w) \/ Execute(w) \/ Crash(w)
        PROVE  job'[j] = job[j]
    BY <2>6 DEF CheckGpu, ReadExpired, Recheck, Execute, Crash
  <2>7. CASE SessionStarts \/ SessionEnds \/ UNCHANGED vars
    BY <2>7 DEF SessionStarts, SessionEnds, vars
  <2> QED
    BY <1>1, <2>1, <2>2, <2>3, <2>4, <2>5, <2>6, <2>7 DEF Next, RunStep
<1>2. QED
  BY <1>1, Inductive, PTL DEF Spec, FinishedStays

-----------------------------------------------------------------------------
(***************************************************************************)
(* ModelStore.  What a runner knows of the shared file is true as long as  *)
(* no other export met its own; whoever did meet one still has the scores  *)
(* of a network.                                                           *)
(***************************************************************************)

WorkRow == [step : Steps, net : Networks, base : Nat \cup {None},
         scores : Networks \cup {None, Heuristic}, hash : Contents \cup {None}, lone : BOOLEAN]

\* A runner alone with the file: nobody else writes it, and what the file,
\* the scores and the hash say so far is its own network.
Alone(r) ==
  work[r].lone /\ work[r].step \in AfterExport =>
    /\ \A o \in Runners \ {r} : work[o].step # "exporting"
    /\ work[r].step # "exporting" => onnx = work[r].net
    /\ work[r].step \in {"hash", "register"} => work[r].scores = work[r].net
    /\ work[r].step = "register" => work[r].hash = work[r].net

\* Whoever has scored has the scores of a network.
Scored(r) == work[r].step \in {"hash", "register"} => work[r].scores \in Networks

StoreInv ==
  /\ StoreTypeOK
  /\ \A r \in Runners : Alone(r) /\ Scored(r)
  /\ RowsDescribeTheirNetwork /\ ScoresAreOfANetwork

THEOREM StoreInvInit == StoreInit => StoreInv
BY BoundsAssumption, StagesAssumption, MarksAssumption DEF StoreInit, StoreInv, StoreTypeOK, Alone, Scored, RowsDescribeTheirNetwork, ScoresAreOfANetwork, Networks, Contents, Steps, Idle, AfterExport, Version

LEMMA Marks ==
  /\ Torn \notin Networks /\ Torn \in Contents /\ Networks \subseteq Contents
  /\ 0 \in Networks /\ 0 \in Nat /\ Heuristic \notin Networks
BY BoundsAssumption, MarksAssumption DEF Networks, Contents

\* A record of the table of runners is replaced.
LEMMA RunnerReplaced ==
  ASSUME work \in [Runners -> WorkRow], NEW r \in Runners, NEW w \in WorkRow,
         work' = [work EXCEPT ![r] = w]
  PROVE  /\ work' \in [Runners -> WorkRow]
         /\ work'[r] = w
         /\ \A o \in Runners \ {r} : work'[o] = work[o]
OBVIOUS

\* A runner that does not write moves on with what it has measured.
LEMMA MovesOn ==
  ASSUME work \in [Runners -> WorkRow], \A q \in Runners : Alone(q) /\ Scored(q),
         NEW r \in Runners, NEW w \in WorkRow, work' = [work EXCEPT ![r] = w],
         onnx' = onnx, w.step # "exporting",
         w.step \in {"hash", "register"} => w.scores \in Networks,
         w.lone /\ w.step \in AfterExport =>
           /\ work[r].lone /\ work[r].step \in AfterExport \ {"exporting"}
           /\ w.net = work[r].net
           /\ w.step \in {"hash", "register"} => w.scores = w.net
           /\ w.step = "register" => w.hash = w.net
  PROVE  /\ work' \in [Runners -> WorkRow]
         /\ \A q \in Runners : Alone(q)' /\ Scored(q)'
<1>1. /\ work' \in [Runners -> WorkRow] /\ work'[r] = w
      /\ \A o \in Runners \ {r} : work'[o] = work[o]
  BY RunnerReplaced
<1>2. \A o \in Runners : work'[o].step = "exporting" => work[o].step = "exporting" /\ o # r
  BY <1>1
<1>3. ASSUME NEW q \in Runners, q # r PROVE Alone(q)' /\ Scored(q)'
  BY <1>1, <1>2, <1>3 DEF Alone, Scored
<1>4. Alone(r)' /\ Scored(r)'
  BY <1>1, <1>2 DEF Alone, Scored
<1> QED BY <1>1, <1>3, <1>4

LEMMA TrainKeeps ==
  ASSUME StoreInv, NEW r \in Runners, Train(r)
  PROVE  StoreTypeOK' /\ \A q \in Runners : Alone(q)' /\ Scored(q)'
<1> DEFINE w == [Idle EXCEPT !.step = "training", !.net = trained', !.base = None]
<1>1. /\ work \in [Runners -> WorkRow] /\ \A q \in Runners : Alone(q) /\ Scored(q)
      /\ work[r] \in WorkRow /\ Alone(r) /\ Scored(r)
  BY DEF StoreInv, StoreTypeOK, WorkRow
<1>0. trained \in Nat /\ trained + 1 \in Networks /\ trained' = trained + 1
  BY BoundsAssumption DEF StoreInv, StoreTypeOK, Networks, Train
<1>2. w \in WorkRow
  BY <1>0, Marks DEF WorkRow, Steps, Idle
<1>3. work' = [work EXCEPT ![r] = w] /\ onnx' = onnx
  BY <1>1 DEF Train, Begun, files, Idle
<1>4. /\ w.step # "exporting"
      /\ w.step \in {"hash", "register"} => w.scores \in Networks
      /\ w.lone /\ w.step \in AfterExport =>
           /\ work[r].lone /\ work[r].step \in AfterExport \ {"exporting"}
           /\ w.net = work[r].net
           /\ w.step \in {"hash", "register"} => w.scores = w.net
           /\ w.step = "register" => w.hash = w.net
  BY <1>1, Marks DEF Train, Begun, Idle, AfterExport, Alone, Scored, StoreInv, StoreTypeOK, Contents, WorkRow
<1> HIDE DEF w
<1>5. work' \in [Runners -> WorkRow] /\ \A q \in Runners : Alone(q)' /\ Scored(q)'
  BY <1>1, <1>2, <1>3, <1>4, MovesOn
<1>6. StoreTypeOK'
  BY <1>0, <1>5 DEF Train, files, StoreInv, StoreTypeOK, WorkRow, Networks
<1> QED BY <1>5, <1>6

LEMMA VerifyKeeps ==
  ASSUME StoreInv, NEW r \in Runners, Verify(r)
  PROVE  StoreTypeOK' /\ \A q \in Runners : Alone(q)' /\ Scored(q)'
<1> DEFINE w == IF onnx = Torn THEN Idle ELSE [work[r] EXCEPT !.step = "plan"]
<1>1. /\ work \in [Runners -> WorkRow] /\ \A q \in Runners : Alone(q) /\ Scored(q)
      /\ work[r] \in WorkRow /\ Alone(r) /\ Scored(r)
  BY DEF StoreInv, StoreTypeOK, WorkRow
<1>2. w \in WorkRow
  BY <1>1, Marks DEF Verify, GoesTo, Fails, WorkRow, Steps, Idle, StoreInv, StoreTypeOK, Networks
<1>3. work' = [work EXCEPT ![r] = w] /\ onnx' = onnx
  BY <1>1 DEF Verify, GoesTo, Fails, files, Idle
<1>4. /\ w.step # "exporting"
      /\ w.step \in {"hash", "register"} => w.scores \in Networks
      /\ w.lone /\ w.step \in AfterExport =>
           /\ work[r].lone /\ work[r].step \in AfterExport \ {"exporting"}
           /\ w.net = work[r].net
           /\ w.step \in {"hash", "register"} => w.scores = w.net
           /\ w.step = "register" => w.hash = w.net
  BY <1>1, Marks DEF Verify, GoesTo, Fails, Idle, AfterExport, Alone, Scored, StoreInv, StoreTypeOK, Contents, WorkRow
<1> HIDE DEF w
<1>5. work' \in [Runners -> WorkRow] /\ \A q \in Runners : Alone(q)' /\ Scored(q)'
  BY <1>1, <1>2, <1>3, <1>4, MovesOn
<1>6. StoreTypeOK'
  BY <1>5, Marks DEF Verify, GoesTo, Fails, files, StoreInv, StoreTypeOK, WorkRow, Contents, Networks
<1> QED BY <1>5, <1>6

LEMMA BuildPlanKeeps ==
  ASSUME StoreInv, NEW r \in Runners, BuildPlan(r)
  PROVE  StoreTypeOK' /\ \A q \in Runners : Alone(q)' /\ Scored(q)'
<1> DEFINE w == [work[r] EXCEPT !.step = "score"]
<1>1. /\ work \in [Runners -> WorkRow] /\ \A q \in Runners : Alone(q) /\ Scored(q)
      /\ work[r] \in WorkRow /\ Alone(r) /\ Scored(r)
  BY DEF StoreInv, StoreTypeOK, WorkRow
<1>2. w \in WorkRow
  BY <1>1, Marks DEF BuildPlan, GoesTo, WorkRow, Steps, Idle, StoreInv, StoreTypeOK, Networks
<1>3. work' = [work EXCEPT ![r] = w] /\ onnx' = onnx
  BY <1>1 DEF BuildPlan, GoesTo, files, Idle
<1>4. /\ w.step # "exporting"
      /\ w.step \in {"hash", "register"} => w.scores \in Networks
      /\ w.lone /\ w.step \in AfterExport =>
           /\ work[r].lone /\ work[r].step \in AfterExport \ {"exporting"}
           /\ w.net = work[r].net
           /\ w.step \in {"hash", "register"} => w.scores = w.net
           /\ w.step = "register" => w.hash = w.net
  BY <1>1, Marks DEF BuildPlan, GoesTo, Idle, AfterExport, Alone, Scored, StoreInv, StoreTypeOK, Contents, WorkRow
<1> HIDE DEF w
<1>5. work' \in [Runners -> WorkRow] /\ \A q \in Runners : Alone(q)' /\ Scored(q)'
  BY <1>1, <1>2, <1>3, <1>4, MovesOn
<1>6. StoreTypeOK'
  BY <1>5, Marks DEF BuildPlan, GoesTo, files, StoreInv, StoreTypeOK, WorkRow, Contents, Networks
<1> QED BY <1>5, <1>6

LEMMA EvaluateKeeps ==
  ASSUME StoreInv, NEW r \in Runners, Evaluate(r)
  PROVE  StoreTypeOK' /\ \A q \in Runners : Alone(q)' /\ Scored(q)'
<1> DEFINE w == IF onnx = Torn THEN Idle ELSE [work[r] EXCEPT !.step = "hash", !.scores = onnx]
<1>1. /\ work \in [Runners -> WorkRow] /\ \A q \in Runners : Alone(q) /\ Scored(q)
      /\ work[r] \in WorkRow /\ Alone(r) /\ Scored(r)
  BY DEF StoreInv, StoreTypeOK, WorkRow
<1>0. onnx # Torn => onnx \in Networks
  BY DEF StoreInv, StoreTypeOK, Contents
<1>2. w \in WorkRow
  <2>1. CASE onnx = Torn
    BY <2>1, Marks DEF WorkRow, Steps, Idle
  <2>2. CASE onnx # Torn
    BY <1>0, <1>1, <2>2 DEF WorkRow, Steps
  <2> QED BY <2>1, <2>2
<1>3. work' = [work EXCEPT ![r] = w] /\ onnx' = onnx
  BY <1>1 DEF Evaluate, Fails, files, Idle
<1>4. /\ w.step # "exporting"
      /\ w.step \in {"hash", "register"} => w.scores \in Networks
      /\ w.lone /\ w.step \in AfterExport =>
           /\ work[r].lone /\ work[r].step \in AfterExport \ {"exporting"}
           /\ w.net = work[r].net
           /\ w.step \in {"hash", "register"} => w.scores = w.net
           /\ w.step = "register" => w.hash = w.net
  BY <1>1, Marks DEF Evaluate, Fails, Idle, AfterExport, Alone, Scored, StoreInv, StoreTypeOK, Contents, WorkRow
<1> HIDE DEF w
<1>5. work' \in [Runners -> WorkRow] /\ \A q \in Runners : Alone(q)' /\ Scored(q)'
  BY <1>1, <1>2, <1>3, <1>4, MovesOn
<1>6. StoreTypeOK'
  BY <1>5, Marks DEF Evaluate, Fails, files, StoreInv, StoreTypeOK, WorkRow, Contents, Networks
<1> QED BY <1>5, <1>6

LEMMA HashKeeps ==
  ASSUME StoreInv, NEW r \in Runners, Hash(r)
  PROVE  StoreTypeOK' /\ \A q \in Runners : Alone(q)' /\ Scored(q)'
<1> DEFINE w == [work[r] EXCEPT !.step = "register", !.hash = onnx]
<1>1. /\ work \in [Runners -> WorkRow] /\ \A q \in Runners : Alone(q) /\ Scored(q)
      /\ work[r] \in WorkRow /\ Alone(r) /\ Scored(r)
  BY DEF StoreInv, StoreTypeOK, WorkRow
<1>2. w \in WorkRow
  BY <1>1, Marks DEF Hash, WorkRow, Steps, Idle, StoreInv, StoreTypeOK, Networks
<1>3. work' = [work EXCEPT ![r] = w] /\ onnx' = onnx
  BY <1>1 DEF Hash, files, Idle
<1>4. /\ w.step # "exporting"
      /\ w.step \in {"hash", "register"} => w.scores \in Networks
      /\ w.lone /\ w.step \in AfterExport =>
           /\ work[r].lone /\ work[r].step \in AfterExport \ {"exporting"}
           /\ w.net = work[r].net
           /\ w.step \in {"hash", "register"} => w.scores = w.net
           /\ w.step = "register" => w.hash = w.net
  BY <1>1, Marks DEF Hash, Idle, AfterExport, Alone, Scored, StoreInv, StoreTypeOK, Contents, WorkRow
<1> HIDE DEF w
<1>5. work' \in [Runners -> WorkRow] /\ \A q \in Runners : Alone(q)' /\ Scored(q)'
  BY <1>1, <1>2, <1>3, <1>4, MovesOn
<1>6. StoreTypeOK'
  BY <1>5, Marks DEF Hash, files, StoreInv, StoreTypeOK, WorkRow, Contents, Networks
<1> QED BY <1>5, <1>6

LEMMA StartQuantizeKeeps ==
  ASSUME StoreInv, NEW r \in Runners, StartQuantize(r)
  PROVE  StoreTypeOK' /\ \A q \in Runners : Alone(q)' /\ Scored(q)'
<1> DEFINE w == [work[r] EXCEPT !.step = "quantize"]
<1>1. /\ work \in [Runners -> WorkRow] /\ \A q \in Runners : Alone(q) /\ Scored(q)
      /\ work[r] \in WorkRow /\ Alone(r) /\ Scored(r)
  BY DEF StoreInv, StoreTypeOK, WorkRow
<1>2. w \in WorkRow
  BY <1>1, Marks DEF StartQuantize, GoesTo, WorkRow, Steps, Idle, StoreInv, StoreTypeOK, Networks
<1>3. work' = [work EXCEPT ![r] = w] /\ onnx' = onnx
  BY <1>1 DEF StartQuantize, GoesTo, files, Idle
<1>4. /\ w.step # "exporting"
      /\ w.step \in {"hash", "register"} => w.scores \in Networks
      /\ w.lone /\ w.step \in AfterExport =>
           /\ work[r].lone /\ work[r].step \in AfterExport \ {"exporting"}
           /\ w.net = work[r].net
           /\ w.step \in {"hash", "register"} => w.scores = w.net
           /\ w.step = "register" => w.hash = w.net
  BY <1>1, Marks DEF StartQuantize, GoesTo, Idle, AfterExport, Alone, Scored, StoreInv, StoreTypeOK, Contents, WorkRow
<1> HIDE DEF w
<1>5. work' \in [Runners -> WorkRow] /\ \A q \in Runners : Alone(q)' /\ Scored(q)'
  BY <1>1, <1>2, <1>3, <1>4, MovesOn
<1>6. StoreTypeOK'
  BY <1>5, BoundsAssumption DEF StartQuantize, files, StoreInv, StoreTypeOK, WorkRow
<1> QED BY <1>5, <1>6

LEMMA LoadSourceKeeps ==
  ASSUME StoreInv, NEW r \in Runners, LoadSource(r)
  PROVE  StoreTypeOK' /\ \A q \in Runners : Alone(q)' /\ Scored(q)'
<1> DEFINE w == IF onnx = Torn THEN Idle ELSE [work[r] EXCEPT !.step = "quantizing"]
<1>1. /\ work \in [Runners -> WorkRow] /\ \A q \in Runners : Alone(q) /\ Scored(q)
      /\ work[r] \in WorkRow /\ Alone(r) /\ Scored(r)
  BY DEF StoreInv, StoreTypeOK, WorkRow
<1>2. w \in WorkRow
  BY <1>1, Marks DEF LoadSource, GoesTo, Fails, WorkRow, Steps, Idle, StoreInv, StoreTypeOK, Networks
<1>3. work' = [work EXCEPT ![r] = w] /\ onnx' = onnx
  BY <1>1 DEF LoadSource, GoesTo, Fails, files, Idle
<1>4. /\ w.step # "exporting"
      /\ w.step \in {"hash", "register"} => w.scores \in Networks
      /\ w.lone /\ w.step \in AfterExport =>
           /\ work[r].lone /\ work[r].step \in AfterExport \ {"exporting"}
           /\ w.net = work[r].net
           /\ w.step \in {"hash", "register"} => w.scores = w.net
           /\ w.step = "register" => w.hash = w.net
  BY <1>1, Marks DEF LoadSource, GoesTo, Fails, Idle, AfterExport, Alone, Scored, StoreInv, StoreTypeOK, Contents, WorkRow
<1> HIDE DEF w
<1>5. work' \in [Runners -> WorkRow] /\ \A q \in Runners : Alone(q)' /\ Scored(q)'
  BY <1>1, <1>2, <1>3, <1>4, MovesOn
<1>6. StoreTypeOK'
  BY <1>5, Marks DEF LoadSource, GoesTo, Fails, files, StoreInv, StoreTypeOK, WorkRow, Contents, Networks
<1> QED BY <1>5, <1>6

LEMMA QuantizeKeeps ==
  ASSUME StoreInv, NEW r \in Runners, Quantize(r)
  PROVE  StoreTypeOK' /\ \A q \in Runners : Alone(q)' /\ Scored(q)'
<1> DEFINE w == IF onnx = Torn THEN Idle ELSE [work[r] EXCEPT !.step = "check", !.net = onnx]
<1>1. /\ work \in [Runners -> WorkRow] /\ \A q \in Runners : Alone(q) /\ Scored(q)
      /\ work[r] \in WorkRow /\ Alone(r) /\ Scored(r)
  BY DEF StoreInv, StoreTypeOK, WorkRow
<1>0. onnx # Torn => onnx \in Networks
  BY DEF StoreInv, StoreTypeOK, Contents
<1>2. w \in WorkRow
  <2>1. CASE onnx = Torn
    BY <2>1, Marks DEF WorkRow, Steps, Idle
  <2>2. CASE onnx # Torn
    BY <1>0, <1>1, <2>2 DEF WorkRow, Steps
  <2> QED BY <2>1, <2>2
<1>3. work' = [work EXCEPT ![r] = w] /\ onnx' = onnx
  BY <1>1 DEF Quantize, Fails, files, Idle
<1>4. /\ w.step # "exporting"
      /\ w.step \in {"hash", "register"} => w.scores \in Networks
      /\ w.lone /\ w.step \in AfterExport =>
           /\ work[r].lone /\ work[r].step \in AfterExport \ {"exporting"}
           /\ w.net = work[r].net
           /\ w.step \in {"hash", "register"} => w.scores = w.net
           /\ w.step = "register" => w.hash = w.net
  BY <1>1, Marks DEF Quantize, Fails, Idle, AfterExport, Alone, Scored, StoreInv, StoreTypeOK, Contents, WorkRow
<1> HIDE DEF w
<1>5. work' \in [Runners -> WorkRow] /\ \A q \in Runners : Alone(q)' /\ Scored(q)'
  BY <1>1, <1>2, <1>3, <1>4, MovesOn
<1>6. StoreTypeOK'
  BY <1>5, Marks DEF Quantize, Fails, files, StoreInv, StoreTypeOK, WorkRow, Contents, Networks
<1> QED BY <1>5, <1>6

LEMMA CheckQuantizedKeeps ==
  ASSUME StoreInv, NEW r \in Runners, CheckQuantized(r)
  PROVE  StoreTypeOK' /\ \A q \in Runners : Alone(q)' /\ Scored(q)'
<1> DEFINE w == Idle
<1>1. /\ work \in [Runners -> WorkRow] /\ \A q \in Runners : Alone(q) /\ Scored(q)
      /\ work[r] \in WorkRow /\ Alone(r) /\ Scored(r)
  BY DEF StoreInv, StoreTypeOK, WorkRow
<1>2. w \in WorkRow
  BY <1>1, Marks DEF CheckQuantized, Fails, WorkRow, Steps, Idle, StoreInv, StoreTypeOK, Networks
<1>3. work' = [work EXCEPT ![r] = w] /\ onnx' = onnx
  BY <1>1 DEF CheckQuantized, Fails, files, Idle
<1>4. /\ w.step # "exporting"
      /\ w.step \in {"hash", "register"} => w.scores \in Networks
      /\ w.lone /\ w.step \in AfterExport =>
           /\ work[r].lone /\ work[r].step \in AfterExport \ {"exporting"}
           /\ w.net = work[r].net
           /\ w.step \in {"hash", "register"} => w.scores = w.net
           /\ w.step = "register" => w.hash = w.net
  BY <1>1, Marks DEF CheckQuantized, Fails, Idle, AfterExport, Alone, Scored, StoreInv, StoreTypeOK, Contents, WorkRow
<1> HIDE DEF w
<1>5. work' \in [Runners -> WorkRow] /\ \A q \in Runners : Alone(q)' /\ Scored(q)'
  BY <1>1, <1>2, <1>3, <1>4, MovesOn
<1>6. StoreTypeOK'
  BY <1>5, Marks DEF CheckQuantized, Fails, files, StoreInv, StoreTypeOK, WorkRow, Contents, Networks
<1> QED BY <1>5, <1>6

LEMMA DieKeeps ==
  ASSUME StoreInv, NEW r \in Runners, Die(r)
  PROVE  StoreTypeOK' /\ \A q \in Runners : Alone(q)' /\ Scored(q)'
<1> DEFINE w == Idle
<1>1. /\ work \in [Runners -> WorkRow] /\ \A q \in Runners : Alone(q) /\ Scored(q)
      /\ work[r] \in WorkRow /\ Alone(r) /\ Scored(r)
  BY DEF StoreInv, StoreTypeOK, WorkRow
<1>2. w \in WorkRow
  BY <1>1, Marks DEF Die, WorkRow, Steps, Idle, StoreInv, StoreTypeOK, Networks
<1>3. work' = [work EXCEPT ![r] = w] /\ onnx' = onnx
  BY <1>1 DEF Die, files, Idle
<1>4. /\ w.step # "exporting"
      /\ w.step \in {"hash", "register"} => w.scores \in Networks
      /\ w.lone /\ w.step \in AfterExport =>
           /\ work[r].lone /\ work[r].step \in AfterExport \ {"exporting"}
           /\ w.net = work[r].net
           /\ w.step \in {"hash", "register"} => w.scores = w.net
           /\ w.step = "register" => w.hash = w.net
  BY <1>1, Marks DEF Die, Idle, AfterExport, Alone, Scored, StoreInv, StoreTypeOK, Contents, WorkRow
<1> HIDE DEF w
<1>5. work' \in [Runners -> WorkRow] /\ \A q \in Runners : Alone(q)' /\ Scored(q)'
  BY <1>1, <1>2, <1>3, <1>4, MovesOn
<1>6. StoreTypeOK'
  BY <1>5, Marks DEF Die, files, StoreInv, StoreTypeOK, WorkRow, Contents, Networks
<1> QED BY <1>5, <1>6
LEMMA ExportVersionKeeps ==
  ASSUME StoreInv, NEW r \in Runners, NEW v \in DOMAIN versions, ExportVersion(r, v)
  PROVE  StoreTypeOK' /\ \A q \in Runners : Alone(q)' /\ Scored(q)'
<1> DEFINE w == [Idle EXCEPT !.step = "training", !.net = trained', !.base = v]
<1>1. /\ work \in [Runners -> WorkRow] /\ \A q \in Runners : Alone(q) /\ Scored(q)
      /\ work[r] \in WorkRow /\ Alone(r) /\ Scored(r)
  BY DEF StoreInv, StoreTypeOK, WorkRow
<1>0. trained \in Nat /\ trained + 1 \in Networks /\ trained' = trained + 1
  BY BoundsAssumption DEF StoreInv, StoreTypeOK, Networks, ExportVersion
<1>v. v \in Nat
  BY DEF StoreInv, StoreTypeOK
<1>2. w \in WorkRow
  BY <1>0, <1>v, Marks DEF WorkRow, Steps, Idle
<1>3. work' = [work EXCEPT ![r] = w] /\ onnx' = onnx
  BY <1>1 DEF ExportVersion, Begun, files, Idle
<1>4. /\ w.step # "exporting"
      /\ w.step \in {"hash", "register"} => w.scores \in Networks
      /\ w.lone /\ w.step \in AfterExport =>
           /\ work[r].lone /\ work[r].step \in AfterExport \ {"exporting"}
           /\ w.net = work[r].net
           /\ w.step \in {"hash", "register"} => w.scores = w.net
           /\ w.step = "register" => w.hash = w.net
  BY <1>1, Marks DEF ExportVersion, Begun, Idle, AfterExport, Alone, Scored, StoreInv, StoreTypeOK, Contents, WorkRow
<1> HIDE DEF w
<1>5. work' \in [Runners -> WorkRow] /\ \A q \in Runners : Alone(q)' /\ Scored(q)'
  BY <1>1, <1>2, <1>3, <1>4, MovesOn
<1>6. StoreTypeOK'
  BY <1>0, <1>5 DEF ExportVersion, files, StoreInv, StoreTypeOK, WorkRow, Networks
<1> QED BY <1>5, <1>6

LEMMA OpenOnnxKeeps ==
  ASSUME StoreInv, NEW r \in Runners, OpenOnnx(r)
  PROVE  StoreTypeOK' /\ \A q \in Runners : Alone(q)' /\ Scored(q)'
<1>1. /\ work \in [Runners -> WorkRow] /\ \A q \in Runners : Alone(q) /\ Scored(q)
  BY DEF StoreInv, StoreTypeOK, WorkRow
<1>2. /\ work'[r] = [work[r] EXCEPT !.step = "exporting", !.lone = ~OtherAt(r, Writing)]
      /\ \A o \in Runners \ {r} : work'[o] = [work[o] EXCEPT !.lone = @ /\ work[o].step \notin AfterExport]
      /\ DOMAIN work' = Runners
      /\ work' = [o \in Runners |-> work'[o]]
  BY DEF OpenOnnx
<1>3. work'[r] \in WorkRow /\ work'[r].step = "exporting" /\ work'[r].lone = ~OtherAt(r, Writing)
  <2> DEFINE l == ~OtherAt(r, Writing)
  <2>1. work[r] \in WorkRow
    BY <1>1
  <2>2. l \in BOOLEAN
    BY ZenonT(20)
  <2>3. work'[r] = [work[r] EXCEPT !.step = "exporting", !.lone = l]
    BY <1>2
  <2>4. l = ~OtherAt(r, Writing)
    OBVIOUS
  <2> HIDE DEF l
  <2>5. work'[r] \in WorkRow /\ work'[r].step = "exporting" /\ work'[r].lone = l
    BY <2>1, <2>2, <2>3 DEF WorkRow, Steps
  <2> QED BY <2>4, <2>5
<1>4. ASSUME NEW o \in Runners \ {r}
      PROVE  /\ work'[o] \in WorkRow /\ work'[o].step = work[o].step /\ work'[o].scores = work[o].scores
             /\ work'[o].lone => work[o].step \notin AfterExport
  <2> DEFINE l == work[o].lone /\ work[o].step \notin AfterExport
  <2>1. l \in BOOLEAN /\ work[o] \in WorkRow
    BY <1>1
  <2>2. work'[o] = [work[o] EXCEPT !.lone = l]
    BY <1>2
  <2>3. l => work[o].step \notin AfterExport
    OBVIOUS
  <2> HIDE DEF l
  <2> QED BY <2>1, <2>2, <2>3 DEF WorkRow
<1>5. work' \in [Runners -> WorkRow]
  BY <1>2, <1>3, <1>4
<1>6. StoreTypeOK'
  BY <1>5, Marks DEF OpenOnnx, StoreInv, StoreTypeOK, WorkRow
<1>7. Alone(r)' /\ Scored(r)'
  <2>1. work'[r].lone => \A o \in Runners \ {r} : work'[o].step # "exporting"
    BY <1>3, <1>4 DEF OtherAt, Writing
  <2> QED BY <1>3, <2>1 DEF Alone, Scored
<1>8. ASSUME NEW q \in Runners \ {r} PROVE Alone(q)' /\ Scored(q)'
  BY <1>1, <1>4 DEF Alone, Scored
<1> QED BY <1>6, <1>7, <1>8

LEMMA CloseOnnxKeeps ==
  ASSUME StoreInv, NEW r \in Runners, CloseOnnx(r)
  PROVE  StoreTypeOK' /\ \A q \in Runners : Alone(q)' /\ Scored(q)'
<1> DEFINE w == [work[r] EXCEPT !.step = "verify"]
<1>1. /\ work \in [Runners -> WorkRow] /\ \A q \in Runners : Alone(q) /\ Scored(q)
      /\ work[r] \in WorkRow /\ work[r].step = "exporting" /\ onnx \in Contents
  BY DEF StoreInv, StoreTypeOK, WorkRow, CloseOnnx
<1>2. w \in WorkRow /\ w.step = "verify" /\ w.net = work[r].net /\ w.lone = work[r].lone
  BY <1>1 DEF WorkRow, Steps
<1>3. work' = [work EXCEPT ![r] = w]
  BY DEF CloseOnnx
<1>4. onnx' \in Contents /\ (work[r].lone => onnx' = work[r].net)
  BY <1>1, Marks DEF CloseOnnx, WorkRow
<1> HIDE DEF w
<1>5. /\ work' \in [Runners -> WorkRow] /\ work'[r] = w
      /\ \A o \in Runners \ {r} : work'[o] = work[o]
  BY <1>1, <1>2, <1>3, RunnerReplaced
<1>6. StoreTypeOK'
  BY <1>4, <1>5 DEF CloseOnnx, StoreInv, StoreTypeOK, WorkRow
<1>7. Alone(r)' /\ Scored(r)'
  BY <1>1, <1>2, <1>4, <1>5 DEF Alone, Scored, AfterExport
<1>8. ASSUME NEW q \in Runners \ {r} PROVE Alone(q)' /\ Scored(q)'
  BY <1>1, <1>2, <1>5 DEF Alone, Scored
<1> QED BY <1>6, <1>7, <1>8

\* The table of versions says what its rows' jobs measured.
RowsAre == RowsDescribeTheirNetwork /\ ScoresAreOfANetwork

LEMMA RegisterKeeps ==
  ASSUME StoreInv, NEW r \in Runners, Register(r)
  PROVE  StoreTypeOK' /\ (\A q \in Runners : Alone(q)' /\ Scored(q)') /\ RowsAre'
<1> DEFINE row == [of |-> work[r].net, base |-> work[r].base, run |-> None, hash |-> work[r].hash,
                   scores |-> work[r].scores, stage |-> "draft", lone |-> work[r].lone]
<1>1. /\ work \in [Runners -> WorkRow] /\ \A q \in Runners : Alone(q) /\ Scored(q)
      /\ work[r] \in WorkRow /\ Alone(r) /\ Scored(r) /\ work[r].step = "register"
      /\ versions \in Seq(Version)
  BY DEF StoreInv, StoreTypeOK, WorkRow, Register
<1>2. Idle \in WorkRow /\ work' = [work EXCEPT ![r] = Idle] /\ onnx' = onnx
  BY Marks DEF Register, Fails, files, Idle, WorkRow, Steps
<1>3. work' \in [Runners -> WorkRow] /\ \A q \in Runners : Alone(q)' /\ Scored(q)'
  BY <1>1, <1>2, MovesOn DEF Idle, AfterExport
<1>4. row \in Version
  <2>1. "draft" \in Stages
    BY StagesAssumption
  <2>2. work[r].scores \in Networks
    BY <1>1 DEF Scored
  <2> QED BY <1>1, <2>1, <2>2 DEF WorkRow, Version
<1>5. versions' = Append(versions, row)
  BY DEF Register
<1>6. /\ row.scores \in Networks
      /\ row.lone => row.scores = row.of /\ row.hash = row.of
  BY <1>1 DEF Alone, Scored, AfterExport
<1> HIDE DEF row
<1>7. versions' \in Seq(Version) /\ Len(versions') = Len(versions) + 1
      /\ versions'[Len(versions')] = row
      /\ \A v \in 1..Len(versions) : versions'[v] = versions[v]
  BY <1>1, <1>4, <1>5
<1>8. StoreTypeOK'
  BY <1>3, <1>7 DEF Register, files, StoreInv, StoreTypeOK, WorkRow
<1>9. RowsAre'
  <2>1. Len(versions) \in Nat /\ Len(versions') = Len(versions) + 1
    BY <1>1, <1>7
  <2>2. ASSUME NEW v \in 2..Len(versions')
        PROVE  \/ v \in 2..Len(versions) /\ versions'[v] = versions[v]
               \/ versions'[v] = row
    BY <1>7, <2>1
  <2> QED BY <1>6, <2>2 DEF RowsAre, RowsDescribeTheirNetwork, ScoresAreOfANetwork, StoreInv
<1> QED BY <1>3, <1>8, <1>9

LEMMA UpdateStageKeeps ==
  ASSUME StoreInv, NEW v \in DOMAIN versions, NEW s \in Stages, UpdateStage(v, s)
  PROVE  StoreInv'
<1>1. /\ versions \in Seq(Version) /\ versions[v] \in Version
      /\ versions' = [versions EXCEPT ![v].stage = s]
  BY DEF StoreInv, StoreTypeOK, UpdateStage
<1>2. /\ versions' \in Seq(Version) /\ Len(versions') = Len(versions)
      /\ \A u \in 1..Len(versions) :
           /\ versions'[u].of = versions[u].of /\ versions'[u].lone = versions[u].lone
           /\ versions'[u].scores = versions[u].scores /\ versions'[u].hash = versions[u].hash
  <2>1. [versions[v] EXCEPT !.stage = s] \in Version
    BY <1>1 DEF Version
  <2> QED BY <1>1, <2>1 DEF Version
<1>3. StoreTypeOK'
  BY <1>2 DEF UpdateStage, files, StoreInv, StoreTypeOK
<1>4. RowsAre'
  BY <1>1, <1>2 DEF RowsAre, RowsDescribeTheirNetwork, ScoresAreOfANetwork, StoreInv
<1> QED
  BY <1>3, <1>4 DEF UpdateStage, files, StoreInv, RowsAre, Alone, Scored

LEMMA RestartDetectorKeeps ==
  ASSUME StoreInv, NEW d \in Detectors, RestartDetector(d)
  PROVE  StoreInv'
<1>1. Loaded \in Networks \cup {Heuristic}
  BY DEF Loaded, StoreInv, StoreTypeOK, Contents
<1>2. StoreTypeOK'
  BY <1>1 DEF RestartDetector, files, StoreInv, StoreTypeOK
<1> QED
  BY <1>2 DEF RestartDetector, files, StoreInv, Alone, Scored, RowsDescribeTheirNetwork, ScoresAreOfANetwork

-----------------------------------------------------------------------------
LEMMA RowsStay ==
  ASSUME StoreInv, UNCHANGED versions
  PROVE  RowsAre'
BY DEF StoreInv, RowsAre, RowsDescribeTheirNetwork, ScoresAreOfANetwork

THEOREM StoreInvNext == StoreInv /\ [StoreNext]_storeVars => StoreInv'
<1> SUFFICES ASSUME StoreInv, [StoreNext]_storeVars PROVE StoreInv'
  OBVIOUS
<1>1. ASSUME NEW r \in Runners, TrainingJob(r) PROVE StoreInv'
  <2>1. CASE Register(r)
    BY <2>1, RegisterKeeps DEF StoreInv, RowsAre
  <2>2. CASE ~Register(r)
    <3>1. UNCHANGED versions
      BY <1>1, <2>2 DEF TrainingJob, Train, ExportVersion, OpenOnnx, CloseOnnx, Verify, BuildPlan, Evaluate, Hash
    <3>2. StoreTypeOK' /\ \A q \in Runners : Alone(q)' /\ Scored(q)'
      BY <1>1, <2>2, TrainKeeps, ExportVersionKeeps, OpenOnnxKeeps, CloseOnnxKeeps, VerifyKeeps,
         BuildPlanKeeps, EvaluateKeeps, HashKeeps DEF TrainingJob
    <3> QED BY <3>1, <3>2, RowsStay DEF StoreInv, RowsAre
  <2> QED BY <2>1, <2>2
<1>2. ASSUME NEW r \in Runners, QuantizeJob(r) \/ Die(r) PROVE StoreInv'
  <2>1. UNCHANGED versions
    BY <1>2 DEF QuantizeJob, StartQuantize, LoadSource, Quantize, CheckQuantized, Die
  <2>2. StoreTypeOK' /\ \A q \in Runners : Alone(q)' /\ Scored(q)'
    BY <1>2, StartQuantizeKeeps, LoadSourceKeeps, QuantizeKeeps, CheckQuantizedKeeps, DieKeeps
    DEF QuantizeJob
  <2> QED BY <2>1, <2>2, RowsStay DEF StoreInv, RowsAre
<1>3. CASE UNCHANGED storeVars
  BY <1>3 DEF storeVars, files, StoreInv, StoreTypeOK, Alone, Scored, RowsDescribeTheirNetwork, ScoresAreOfANetwork
<1> QED
  BY <1>1, <1>2, <1>3, UpdateStageKeeps, RestartDetectorKeeps DEF StoreNext

THEOREM StoreInvariant == StoreSpec => []StoreInv
BY StoreInvInit, StoreInvNext, PTL DEF StoreSpec

\* Every variable keeps its type: no plan is ever built from a torn file and
\* no counting process works with one (tensorrt_builder.py 65, detector.py 138).
THEOREM StoreTypes == StoreSpec => []StoreTypeOK
BY StoreInvariant, PTL DEF StoreInv

\* A row whose job met no other export has the scores and the hash of the
\* network it was registered for, whatever else used the file.
THEOREM RowsDescribe == StoreSpec => []RowsDescribeTheirNetwork
BY StoreInvariant, PTL DEF StoreInv

\* No row carries the scores of the contour heuristic or of no network at
\* all, however many exports overwrite each other.
THEOREM ScoresAreReal == StoreSpec => []ScoresAreOfANetwork
BY StoreInvariant, PTL DEF StoreInv
=============================================================================
