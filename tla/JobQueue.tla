------------------------------ MODULE JobQueue ------------------------------
(***************************************************************************)
(* The background jobs: the job table with its leases, the JobrunnerWorker *)
(* processes that share it, engineers who submit and cancel jobs, and the  *)
(* counting sessions that keep the GPU from them.                          *)
(*                                                                         *)
(* A transaction that reads one row and writes it is one step.  The one    *)
(* that reclaims leases is two, the SELECT of every expired lease and the  *)
(* UPDATEs by primary key: neither locks a row before it writes it, and    *)
(* the second tests nothing again.                                         *)
(***************************************************************************)
EXTENDS Integers, FiniteSets

CONSTANTS
  Workers,       \* JobrunnerWorker processes, all with gpu_mode "strict"
  Crashable,     \* the workers that may be killed
  MaxJobs,       \* bound: rows of table job
  GpuJobs,       \* the jobs with requires_gpu; they have the higher priority
  MaxAttempts,   \* max_attempts of every job; 3 in the code
  MaxSessions    \* bound: counting sessions that start on the line

Jobs  == 1 .. MaxJobs
NoJob == 0

ASSUME JobsAssumption      == MaxJobs \in Nat /\ GpuJobs \subseteq Jobs
ASSUME CrashableAssumption == Crashable \subseteq Workers
ASSUME LimitsAssumption    == MaxAttempts \in Nat \ {0} /\ MaxSessions \in Nat

Finished == {"completed", "failed", "cancelled"}
Statuses == {"none", "queued", "running"} \cup Finished

VARIABLES
  job,       \* table job; status "none" where no row was inserted yet
  worker,    \* what each worker is doing, and the rows it has loaded
  session,   \* whether line 1 has an open or counting session, and how many it had
  done,      \* history: how often the work of a job was carried out; 2 is twice or more
  lapsed     \* history: the jobs whose lease ever expired

vars == <<job, worker, session, done, lapsed>>

Polling == [pc |-> "poll", job |-> NoJob, gpu |-> FALSE, requeue |-> {}, giveup |-> {}]

Init ==
  /\ job     = [j \in Jobs |-> [status |-> "none", attempts |-> 0, expired |-> FALSE]]
  /\ worker  = [w \in Workers |-> Polling]
  /\ session = [active |-> FALSE, started |-> 0]
  /\ done    = [j \in Jobs |-> 0]
  /\ lapsed  = {}

\* Writing a status that ends the lease: lease_until is read of running rows only.
Moved(row, status) == [row EXCEPT !.status = status, !.expired = FALSE]

-----------------------------------------------------------------------------
(* The world around the workers *)

\* submit_job
SubmitJob(j) ==
  /\ job[j].status = "none" /\ \A i \in 1 .. j - 1 : job[i].status # "none"
  /\ job' = [job EXCEPT ![j].status = "queued"]
  /\ UNCHANGED <<worker, session, done, lapsed>>

\* Bug: cancel_job without its status test.
CancelAnyJob(j) ==
  /\ job[j].status # "none"
  /\ job' = [job EXCEPT ![j] = Moved(@, "cancelled")]
  /\ UNCHANGED <<worker, session, done, lapsed>>

\* cancel_job: also a running job; the worker that runs it is not told.
CancelJob(j) ==
  /\ job[j].status \in {"queued", "running"}
  /\ job' = [job EXCEPT ![j] = Moved(@, "cancelled")]
  /\ UNCHANGED <<worker, session, done, lapsed>>

SessionStarts ==
  /\ ~ session.active /\ session.started < MaxSessions
  /\ session' = [active |-> TRUE, started |-> session.started + 1]
  /\ UNCHANGED <<job, worker, done, lapsed>>

SessionEnds ==
  /\ session.active
  /\ session' = [session EXCEPT !.active = FALSE]
  /\ UNCHANGED <<job, worker, done, lapsed>>

\* Whether the thread beside execute_job renews the lease: it calls heartbeat
\* with extend_seconds, a parameter heartbeat does not have, and logs the
\* TypeError at debug level.
HeartbeatRenews == FALSE

\* The clock passes lease_until.
LeaseExpires(j) ==
  /\ job[j].status = "running" /\ ~ job[j].expired
  /\ ~ (HeartbeatRenews /\ \E w \in Workers : worker[w].pc = "execute" /\ worker[w].job = j)
  /\ job'    = [job EXCEPT ![j].expired = TRUE]
  /\ lapsed' = lapsed \cup {j}
  /\ UNCHANGED <<worker, session, done>>

-----------------------------------------------------------------------------
(* Acquiring a job: run_step and acquire_next_job *)

\* can_run_gpu_job in strict mode
GpuAllowed == ~ session.active

CheckGpu(w) ==
  /\ worker[w].pc = "poll"
  /\ worker' = [worker EXCEPT ![w].pc = "reclaim", ![w].gpu = GpuAllowed]
  /\ UNCHANGED <<job, session, done, lapsed>>

Expired == {j \in Jobs : job[j].status = "running" /\ job[j].expired}

\* Bug: a job without attempts left is not looked at.
ReadExpiredUnspent(w) ==
  LET spent == {j \in Expired : job[j].attempts >= MaxAttempts} IN
  /\ worker[w].pc = "reclaim"
  /\ worker' = [worker EXCEPT ![w].pc = IF Expired \ spent = {} THEN "claim" ELSE "write",
                              ![w].requeue = Expired \ spent]
  /\ UNCHANGED <<job, session, done, lapsed>>

\* reclaim_expired_leases: loads the expired jobs and decides about each.
ReadExpired(w) ==
  LET spent == {j \in Expired : job[j].attempts >= MaxAttempts} IN
  /\ worker[w].pc = "reclaim"
  /\ worker' = [worker EXCEPT ![w].pc = IF Expired = {} THEN "claim" ELSE "write",
                              ![w].requeue = Expired \ spent,
                              ![w].giveup  = spent]
  /\ UNCHANGED <<job, session, done, lapsed>>

\* ... and writes what it decided over whatever the rows hold by then.
WriteExpired(w) ==
  LET mine == worker[w] IN
  /\ mine.pc = "write"
  /\ job' = [j \in Jobs |->
               IF j \in mine.requeue THEN Moved(job[j], "queued")
               ELSE IF j \in mine.giveup THEN Moved(job[j], "failed")
               ELSE job[j]]
  /\ worker' = [worker EXCEPT ![w].pc = "claim", ![w].requeue = {}, ![w].giveup = {}]
  /\ UNCHANGED <<session, done, lapsed>>

Claimable(w) == {j \in Jobs : job[j].status = "queued" /\ (worker[w].gpu \/ j \notin GpuJobs)}

\* Priority first, then age.
IsNext(j, S) ==
  /\ j \in S
  /\ \A i \in S : IF (i \in GpuJobs) = (j \in GpuJobs) THEN j <= i ELSE j \in GpuJobs

\* Bug: the UPDATE does not test again that the job is still queued.
ClaimUnchecked(w) ==
  /\ worker[w].pc = "claim"
  /\ \E j \in Jobs :
       /\ job[j].status \in {"queued", "running"}
       /\ job' = [job EXCEPT ![j] = [status |-> "running", attempts |-> @.attempts + 1,
                                     expired |-> FALSE]]
       /\ worker' = [worker EXCEPT ![w].pc = IF j \in GpuJobs THEN "recheck" ELSE "execute",
                                   ![w].job = j, ![w].gpu = FALSE]
  /\ UNCHANGED <<session, done, lapsed>>

\* The UPDATE ... RETURNING of acquire_next_job and its commit.
Claim(w) ==
  /\ worker[w].pc = "claim"
  /\ \/ /\ Claimable(w) = {}
        /\ worker' = [worker EXCEPT ![w] = Polling]
        /\ UNCHANGED job
     \/ \E j \in Jobs :
          /\ IsNext(j, Claimable(w))
          /\ job' = [job EXCEPT ![j] = [status |-> "running", attempts |-> @.attempts + 1,
                                        expired |-> FALSE]]
          /\ worker' = [worker EXCEPT ![w].pc = IF j \in GpuJobs THEN "recheck" ELSE "execute",
                                      ![w].job = j, ![w].gpu = FALSE]
  /\ UNCHANGED <<session, done, lapsed>>

\* The guard after the claim of a GPU job: a session may have started meanwhile.
Recheck(w) ==
  /\ worker[w].pc = "recheck"
  /\ worker' = [worker EXCEPT ![w].pc = IF GpuAllowed THEN "execute" ELSE "release"]
  /\ UNCHANGED <<job, session, done, lapsed>>

\* Gives the job back, with its attempt.
Release(w) ==
  LET j == worker[w].job IN
  /\ worker[w].pc = "release"
  /\ job' = IF job[j].status = "running"
              THEN [job EXCEPT ![j] = [status   |-> "queued",
                                       attempts |-> IF @.attempts > 0 THEN @.attempts - 1 ELSE 0,
                                       expired  |-> FALSE]]
              ELSE job
  /\ worker' = [worker EXCEPT ![w] = Polling]
  /\ UNCHANGED <<session, done, lapsed>>

-----------------------------------------------------------------------------
(* Running it: execute_job, complete_job, fail_job *)

\* execute_job does its work, whose results are committed, or raises.
Execute(w) ==
  LET j == worker[w].job IN
  /\ worker[w].pc = "execute"
  /\ \/ /\ done' = [done EXCEPT ![j] = IF @ < 2 THEN @ + 1 ELSE 2]
        /\ worker' = [worker EXCEPT ![w].pc = "complete"]
     \/ /\ worker' = [worker EXCEPT ![w].pc = "fail"]
        /\ UNCHANGED done
  /\ UNCHANGED <<job, session, lapsed>>

\* complete_job looks at no status.
Complete(w) ==
  /\ worker[w].pc = "complete"
  /\ job' = [job EXCEPT ![worker[w].job] = Moved(@, "completed")]
  /\ worker' = [worker EXCEPT ![w] = Polling]
  /\ UNCHANGED <<session, done, lapsed>>

\* fail_job looks at the attempts only.
Fail(w) ==
  LET j == worker[w].job IN
  /\ worker[w].pc = "fail"
  /\ job' = IF job[j].attempts >= MaxAttempts
              THEN [job EXCEPT ![j] = Moved(@, "failed")]
              ELSE [job EXCEPT ![j] = Moved(@, "queued")]
  /\ worker' = [worker EXCEPT ![w] = Polling]
  /\ UNCHANGED <<session, done, lapsed>>

\* The worker is killed, and started again.
Crash(w) ==
  /\ w \in Crashable /\ worker[w].pc # "poll"
  /\ worker' = [worker EXCEPT ![w] = Polling]
  /\ UNCHANGED <<job, session, done, lapsed>>

-----------------------------------------------------------------------------
RunStep(w) ==
  \/ CheckGpu(w) \/ ReadExpired(w) \/ WriteExpired(w) \/ Claim(w) \/ Recheck(w) \/ Release(w)
  \/ Execute(w) \/ Complete(w) \/ Fail(w)

Next ==
  \/ \E j \in Jobs : SubmitJob(j) \/ CancelJob(j) \/ LeaseExpires(j)
  \/ SessionStarts \/ SessionEnds
  \/ \E w \in Workers : RunStep(w) \/ Crash(w)

Spec == Init /\ [][Next]_vars

\* start_loop runs for ever, work takes finite time, the clock runs, and a
\* session is closed at some time.
FairSpec ==
  /\ Spec
  /\ \A w \in Workers : WF_vars(RunStep(w))
  /\ \A j \in Jobs    : WF_vars(LeaseExpires(j))
  /\ WF_vars(SessionEnds)

-----------------------------------------------------------------------------
(* Properties *)

Rows == [status : Statuses, attempts : Nat, expired : BOOLEAN]

\* Every variable stays within its type.
TypeOK ==
  /\ job \in [Jobs -> Rows]
  /\ worker \in [Workers ->
       [pc  : {"poll", "reclaim", "write", "claim", "recheck", "release", "execute",
               "complete", "fail"},
        job : Jobs \cup {NoJob}, gpu : BOOLEAN, requeue : SUBSET Jobs, giveup : SUBSET Jobs]]
  /\ session \in [active : BOOLEAN, started : 0 .. MaxSessions]
  /\ done \in [Jobs -> 0 .. 2]
  /\ lapsed \subseteq Jobs

Holds(w, j) == worker[w].job = j

\* As long as no lease of a job expired, one worker at most has it in hand,
\* whatever is cancelled, released or failed (acquire_next_job: "only the worker
\* whose UPDATE actually lands first can flip the row").
OneHolder ==
  \A w, v \in Workers : \A j \in Jobs \ lapsed : Holds(w, j) /\ Holds(v, j) => w = v

\* ... and its work is carried out once at most.
WorkedOnce == \A j \in Jobs \ lapsed : done[j] <= 1

\* ... and it is not tried more often than its max_attempts, although releasing
\* a job gives attempts back.
AttemptsAreBounded == \A j \in Jobs \ lapsed : job[j].attempts <= MaxAttempts

\* ... and once it is completed or failed it stays so.
FinishedStays ==
  [][\A j \in Jobs \ lapsed :
       job[j].status \in {"completed", "failed"} => job'[j].status = job[j].status]_vars

\* A job that is completed was worked on.
CompletedWasDone == \A j \in Jobs : job[j].status = "completed" => done[j] > 0

\* Every job comes to an end and stays there: leases of dead workers are
\* reclaimed, attempts run out, and no two workers keep undoing each other.
JobsSettle == \A j \in Jobs : <>[](job[j].status \in Finished \cup {"none"})

\* While a worker is alive and at work on a job, no other works on it.
NoSecondRunner ==
  \A w, v \in Workers : \A j \in Jobs :
    Holds(w, j) /\ Holds(v, j) /\ worker[w].pc = "execute" /\ worker[v].pc = "execute" => w = v

=============================================================================
