----------------------------- MODULE Supervisor -----------------------------
(***************************************************************************)
(* The supervisor keeps one ingest process running for every enabled row   *)
(* of the camera table.  Every few seconds sync_camera_workers looks at    *)
(* the cameras one after the other: it forgives those whose process is     *)
(* alive, starts the others unless they are backing off, and at last       *)
(* terminates the processes of cameras that are no longer enabled.  An     *)
(* exception anywhere ends the tick: what comes after it is not done.      *)
(*                                                                         *)
(* A tick is one step: nobody else touches the supervisor's tables, and a  *)
(* process that dies or a row that changes during a tick does so before or *)
(* after it.  Time is counted in ticks.                                    *)
(***************************************************************************)
EXTENDS Integers, FiniteSetsExt

CONSTANTS
  CameraIds,     \* ids of the camera table; rows come in their order
  Base,          \* _RESPAWN_BACKOFF_BASE_SECONDS
  Cap,           \* _RESPAWN_BACKOFF_MAX_SECONDS
  TickSeconds,   \* what main sleeps between two ticks
  Overflow,      \* attempts for which 2.0 * 2**attempts raises; 1024 in Python
  MaxFailures,   \* bound: processes that could not be spawned
  MaxDeaths      \* bound: deaths of the supervisor

ASSUME CamerasAssumption == CameraIds \subseteq Int
ASSUME SecondsAssumption == /\ Base \in Nat \ {0} /\ Cap \in Nat \ {0}
                            /\ TickSeconds \in Nat \ {0} /\ Overflow \in Nat \ {0}

VARIABLES
  enabled,    \* the cameras with an enabled row
  up,         \* the supervisor is running
  child,      \* worker_processes: none, or a process that is alive or dead
  attempts,   \* _respawn_attempts; above Overflow they are all alike
  hold,       \* _next_spawn_at: the ticks that have to pass yet
  strays,     \* how many ingest processes of a camera run without being in the table
  failures, deaths,
  overflowed  \* history: the backoff could not be computed

supervisorVars == <<enabled, up, child, attempts, hold, strays, failures, deaths, overflowed>>

SupervisorInit ==
  /\ enabled \in SUBSET CameraIds
  /\ up = TRUE
  /\ child = [c \in CameraIds |-> "none"]
  /\ attempts = [c \in CameraIds |-> 0]
  /\ hold = [c \in CameraIds |-> 0]
  /\ strays = [c \in CameraIds |-> 0]
  /\ failures = 0 /\ deaths = 0
  /\ overflowed = FALSE

-----------------------------------------------------------------------------
(* One camera of a tick.                                                   *)

\* The attempts after an exit since the last tick has been noticed.
Attempts(c) ==
  IF child[c] = "dead" /\ attempts[c] < Overflow THEN attempts[c] + 1 ELSE attempts[c]

\* min(Cap, Base * 2 ** a) seconds, as the ticks at which it is too early.
Backoff(a) ==
  LET seconds == Base * 2 ^ a
  IN  ((IF seconds < Cap THEN seconds ELSE Cap) - 1) \div TickSeconds

\* Bug: every enabled camera is started, alive or not.
DueAlways(c) == c \in enabled /\ hold[c] = 0

\* The camera has no process and is not backing off.
Due(c) == c \in enabled /\ child[c] # "alive" /\ hold[c] = 0

\* A camera ends the tick if its process cannot be spawned ("failing") or,
\* after the spawn, if its backoff cannot be computed.
Ends(c, failing) == Due(c) /\ (c \in failing \/ Attempts(c) >= Overflow)

Reached(c, failing) == \A b \in enabled : b < c => ~Ends(b, failing)
Finishes(failing)   == \A b \in enabled : ~Ends(b, failing)

Spawned(c, failing) == Due(c) /\ Reached(c, failing) /\ c \notin failing
Seen(c, failing)    == c \in enabled /\ Reached(c, failing)

\* Bug: only processes that are alive are removed.
RemovedAlive(c, failing) == c \notin enabled /\ child[c] = "alive" /\ Finishes(failing)

Removed(c, failing) == c \notin enabled /\ child[c] # "none" /\ Finishes(failing)

\* Bug: a camera that backs off is pushed back on every tick.
NeverElapses(lag) == [c \in CameraIds |-> hold[c]]

\* Time passes until the next tick; if that is late, more of it.
Elapsed(lag) == [c \in CameraIds |-> IF hold[c] > lag THEN hold[c] - lag ELSE 0]

-----------------------------------------------------------------------------
(* SupervisorManager.sync_camera_workers.                                  *)

Sync(failing, lag) ==
  /\ child' = [c \in CameraIds |->
       CASE Spawned(c, failing) -> "alive"
         [] Removed(c, failing) -> "none"
         [] Seen(c, failing) /\ ~Spawned(c, failing) /\ child[c] = "dead" -> "none"
         [] OTHER -> child[c]]
  /\ attempts' = [c \in CameraIds |->
       CASE Removed(c, failing) \/ (Seen(c, failing) /\ child[c] = "alive") -> 0
         [] Seen(c, failing) /\ child[c] # "alive" -> Attempts(c)
         [] OTHER -> attempts[c]]
  /\ hold' = [c \in CameraIds |->
       CASE Spawned(c, failing) /\ Attempts(c) < Overflow -> Backoff(Attempts(c))
         [] Removed(c, failing) \/ (Seen(c, failing) /\ child[c] = "alive") -> 0
         [] OTHER -> Elapsed(lag)[c]]
  \* The handle of a process that is spawned over is lost, the process is not.
  /\ strays' = [c \in CameraIds |->
       IF Spawned(c, failing) /\ child[c] = "alive" THEN strays[c] + 1 ELSE strays[c]]
  /\ overflowed' = (overflowed \/ \E c \in CameraIds : Spawned(c, failing) /\ Attempts(c) >= Overflow)

Tick ==
  /\ up
  /\ \E failing \in SUBSET enabled, lag \in 1..2 :
       /\ failures + Cardinality(failing) <= MaxFailures
       /\ failures' = failures + Cardinality(failing)
       /\ Sync(failing, lag)
  /\ UNCHANGED <<enabled, up, deaths>>

-----------------------------------------------------------------------------
(* The environment.                                                        *)

\* An ingest process ends: the source cannot be opened, the camera row is
\* gone, it is killed.
Exit(c) ==
  /\ child[c] = "alive"
  /\ child' = [child EXCEPT ![c] = "dead"]
  /\ UNCHANGED <<enabled, up, attempts, hold, strays, failures, deaths, overflowed>>

\* An administrator enables or disables a camera in the table.
Enable(c) ==
  /\ c \notin enabled
  /\ enabled' = enabled \cup {c}
  /\ UNCHANGED <<up, child, attempts, hold, strays, failures, deaths, overflowed>>

Disable(c) ==
  /\ c \in enabled
  /\ enabled' = enabled \ {c}
  /\ UNCHANGED <<up, child, attempts, hold, strays, failures, deaths, overflowed>>

\* SupervisorManager.stop terminates the processes; a supervisor that is
\* killed leaves some behind, which nobody will ever terminate.
Down(left) ==
  /\ up /\ deaths < MaxDeaths
  /\ up' = FALSE /\ deaths' = deaths + 1
  /\ strays' = [c \in CameraIds |-> IF c \in left THEN strays[c] + 1 ELSE strays[c]]
  /\ child' = [c \in CameraIds |-> "none"]
  /\ attempts' = [c \in CameraIds |-> 0]
  /\ hold' = [c \in CameraIds |-> 0]
  /\ UNCHANGED <<enabled, failures, overflowed>>

Stop  == Down({})
Death == \E left \in SUBSET {c \in CameraIds : child[c] = "alive"} : left # {} /\ Down(left)

Start ==
  /\ ~up
  /\ up' = TRUE
  /\ UNCHANGED <<enabled, child, attempts, hold, strays, failures, deaths, overflowed>>

SupervisorNext ==
  \/ Tick \/ Stop \/ Death \/ Start
  \/ \E c \in CameraIds : Exit(c) \/ Enable(c) \/ Disable(c)

\* main ticks for ever, and the service manager starts it again.
Fairness == WF_supervisorVars(Tick) /\ WF_supervisorVars(Start)

SupervisorSpec == SupervisorInit /\ [][SupervisorNext]_supervisorVars
SupervisorFairSpec == SupervisorSpec /\ Fairness

-----------------------------------------------------------------------------
(* Properties.                                                             *)

\* Types; a supervisor that is down has no tables, and a camera that backs
\* off has had an exit or a process.
SupervisorTypeOK ==
  /\ enabled \subseteq CameraIds
  /\ up \in BOOLEAN
  /\ child \in [CameraIds -> {"none", "alive", "dead"}]
  /\ attempts \in [CameraIds -> 0..Overflow]
  /\ hold \in [CameraIds -> 0..(Cap - 1) \div TickSeconds]
  /\ strays \in [CameraIds -> Nat]
  /\ failures \in 0..MaxFailures /\ deaths \in 0..MaxDeaths
  /\ overflowed \in BOOLEAN
  /\ ~up => \A c \in CameraIds : child[c] = "none"

\* Every ingest process is in the table, so a camera never has two, however
\* crashes, ticks that end early and changes of the table interleave; only
\* the death of the supervisor itself leaves one behind (sync_camera_workers).
OneProcessPerCamera ==
  \A c \in CameraIds : strays[c] <= deaths

\* An enabled camera gets a process again and again, whatever dies, as long
\* as its process or that of another camera does not exit so often in a row
\* that the backoff overflows (sync_camera_workers).
EnabledIsServed ==
  <>overflowed \/ \A c \in CameraIds : []<>(c \notin enabled \/ child[c] = "alive")

\* A camera that stays disabled loses its process for good.
DisabledIsStopped ==
  <>overflowed \/ \A c \in CameraIds : <>[](c \notin enabled) => <>[](child[c] = "none")

\* "Respawn backoff: exponential, capped, per-camera" (manager.py:18): what
\* one camera does is nothing to the others.
PerCamera ==
  \A c \in CameraIds : []<>(c \notin enabled \/ child[c] = "alive")
=============================================================================
