----------------------------- MODULE BootGuard -----------------------------
(***************************************************************************)
(* The boot guard of the StartOS mempool package                           *)
(* (startos/mempool-guide/startos/main.ts): a shell script that writes a   *)
(* sentinel file whenever the backend starts, the api health check that    *)
(* removes it once the backend listens, and the rule that a sentinel found *)
(* at a start means the on-disk cache keeps the backend from starting and  *)
(* is dropped.                                                             *)
(*                                                                         *)
(* The service's main process runs the health check and keeps              *)
(* bootSentinelCleared in its memory.  StartOS (external) starts and stops *)
(* main, and under one main restarts a daemon that ended or whose          *)
(* requirements recovered.  The cache is empty, good, or one that kills    *)
(* the backend when it loads it.                                           *)
(***************************************************************************)
EXTENDS Naturals

CONSTANTS
  MaxFailures,  \* bound: failing commands, of the script or the health check
  MaxCrashes    \* bound: backend deaths that are not the cache's doing

ASSUME BootGuardAssumption == MaxFailures \in Nat /\ MaxCrashes \in Nat

VARIABLES
  service,      \* the service's main process: "stopped" or "running"
  backend,      \* where the backend's container is
  cache,        \* disk: "empty", "good" or "deadly"
  sentinel,     \* disk: BOOT_SENTINEL exists
  cleared,      \* main: bootSentinelCleared
  check,        \* main: where the health check is
  checksThis,   \* history: the success in check is of the present boot
  reboot,       \* history: this main has started the backend before
  settled,      \* history: has a success report, its removal included, ended
                \* since the last boot ("no"), in main's first boot or later?
  failures,     \* bounded counters
  crashes

disk == <<cache, sentinel>>
report == <<cleared, check, checksThis>>
history == <<reboot, settled>>
bounds == <<failures, crashes>>
guardVars == <<service, backend, disk, report, history, bounds>>

GuardInit ==
  /\ service = "stopped" /\ backend = "down"
  /\ cache = "empty" /\ sentinel = FALSE
  /\ cleared = FALSE /\ check = "idle" /\ checksThis = FALSE
  /\ reboot = FALSE /\ settled = "no"
  /\ failures = 0 /\ crashes = 0
----------------------------------------------------------------------------
(* StartOS.                                                                *)

(* setupMain's closure runs anew: bootSentinelCleared is FALSE again.      *)
StartService ==
  /\ service = "stopped"
  /\ service' = "running" /\ backend' = "test"
  /\ cleared' = FALSE /\ reboot' = FALSE
  /\ UNCHANGED <<disk, check, checksThis, settled, bounds>>

(* A stop, an update or a power failure, at any moment.                    *)
StopService ==
  /\ service = "running"
  /\ service' = "stopped" /\ backend' = "down"
  /\ check' = "idle" /\ checksThis' = FALSE
  /\ UNCHANGED <<disk, cleared, history, bounds>>

RestartBackend ==
  /\ service = "running" /\ backend = "down"
  /\ backend' = "test"
  /\ reboot' = TRUE /\ checksThis' = FALSE
  /\ UNCHANGED <<service, disk, cleared, check, settled, bounds>>
----------------------------------------------------------------------------
(* BOOT_GUARD_CMD, one action per command of the script.                   *)

TestSentinel ==
  /\ backend = "test"
  /\ backend' = IF sentinel THEN "remove" ELSE "mark"
  /\ UNCHANGED <<service, disk, report, history, bounds>>

RemoveSentinel ==
  /\ backend = "remove"
  /\ sentinel' = FALSE
  /\ backend' = IF cache = "empty" THEN "mark" ELSE "drop"
  /\ UNCHANGED <<service, cache, report, history, bounds>>

(* Mutant of DropCache: the glob is quoted and removes nothing.            *)
DropNothing ==
  /\ backend = "drop"
  /\ sentinel' = FALSE
  /\ backend' = "mark"
  /\ UNCHANGED <<service, cache, report, history, bounds>>

DropCache ==
  /\ backend = "drop"
  /\ cache' = "empty" /\ sentinel' = FALSE
  /\ backend' = "mark"
  /\ UNCHANGED <<service, report, history, bounds>>

(* : > BOOT_SENTINEL; exec node                                            *)
Mark ==
  /\ backend = "mark"
  /\ sentinel' = TRUE
  /\ backend' = "starting"
  /\ checksThis' = FALSE /\ settled' = "no"
  /\ UNCHANGED <<service, cache, cleared, check, reboot, bounds>>
----------------------------------------------------------------------------
(* A command of the script fails: the script has no set -e.                *)

(* The sentinel that stays keeps ls -A from finding the directory empty.   *)
FailRemoveSentinel ==
  /\ backend = "remove" /\ sentinel /\ failures < MaxFailures
  /\ failures' = failures + 1
  /\ backend' = "drop"
  /\ UNCHANGED <<service, disk, report, history, crashes>>

(* rm -rf ... || true leaves the cache, or what it likes of it.            *)
FailDrop ==
  /\ backend = "drop" /\ failures < MaxFailures
  /\ failures' = failures + 1
  /\ cache' \in IF cache = "empty" THEN {"empty"}
                ELSE {"empty", "good", "deadly"}
  /\ sentinel' \in {FALSE, sentinel}
  /\ backend' = "mark"
  /\ UNCHANGED <<service, report, history, crashes>>

(* A failing redirection of : ends the shell before exec.                  *)
FailMark ==
  /\ backend = "mark" /\ failures < MaxFailures
  /\ failures' = failures + 1
  /\ backend' = "down"
  /\ UNCHANGED <<service, disk, report, history, crashes>>
----------------------------------------------------------------------------
(* The backend (external).                                                 *)

Listen ==
  /\ backend = "starting" /\ cache # "deadly"
  /\ backend' = "listening"
  /\ UNCHANGED <<service, disk, report, history, bounds>>

DieOfCache ==
  /\ backend = "starting" /\ cache = "deadly"
  /\ backend' = "down"
  /\ UNCHANGED <<service, disk, report, history, bounds>>

Crash ==
  /\ backend \in {"starting", "listening"} /\ crashes < MaxCrashes
  /\ crashes' = crashes + 1
  /\ backend' = "down"
  /\ UNCHANGED <<service, disk, report, history, failures>>

SaveCache ==
  /\ backend = "listening"
  /\ cache' \in {"good", "deadly"}
  /\ UNCHANGED <<service, backend, sentinel, report, history, bounds>>
----------------------------------------------------------------------------
(* The api daemon's ready.fn, polled by StartOS while main runs.           *)

(* checkPortListening succeeds; its answer is used after an await.         *)
Poll ==
  /\ service = "running" /\ check = "idle" /\ backend = "listening"
  /\ check' = "success" /\ checksThis' = TRUE
  /\ UNCHANGED <<service, backend, disk, cleared, history, bounds>>

(* The report of this boot is over, with nothing left in flight.           *)
Settle ==
  settled' = IF ~checksThis THEN settled
             ELSE IF reboot THEN "later" ELSE "first"

ReportAgain ==
  /\ check = "success" /\ cleared
  /\ check' = "idle" /\ checksThis' = FALSE
  /\ Settle
  /\ UNCHANGED <<service, backend, disk, cleared, reboot, bounds>>

BeginRemoval ==
  /\ check = "success" /\ ~cleared
  /\ cleared' = TRUE
  /\ check' = "removing"
  /\ UNCHANGED <<service, backend, disk, checksThis, history, bounds>>

(* Mutant of EndRemoval: rm succeeds on another path.                      *)
RemoveElsewhere ==
  /\ check = "removing"
  /\ check' = "idle" /\ checksThis' = FALSE
  /\ Settle
  /\ UNCHANGED <<service, backend, disk, cleared, reboot, bounds>>

EndRemoval ==
  /\ check = "removing"
  /\ sentinel' = FALSE
  /\ check' = "idle" /\ checksThis' = FALSE
  /\ Settle
  /\ UNCHANGED <<service, backend, cache, cleared, reboot, bounds>>

(* Mutant of FailRemoval: the flag is not taken back.                      *)
ForgetRemoval ==
  /\ check = "removing" /\ failures < MaxFailures
  /\ failures' = failures + 1
  /\ check' = "idle" /\ checksThis' = FALSE
  /\ UNCHANGED <<service, backend, disk, cleared, history, crashes>>

FailRemoval ==
  /\ check = "removing" /\ failures < MaxFailures
  /\ failures' = failures + 1
  /\ cleared' = FALSE
  /\ check' = "idle" /\ checksThis' = FALSE
  /\ UNCHANGED <<service, backend, disk, history, crashes>>
----------------------------------------------------------------------------
Boot == RestartBackend \/ TestSentinel \/ RemoveSentinel \/ DropCache \/ Mark
BootFailure == FailRemoveSentinel \/ FailDrop \/ FailMark
Node == Listen \/ DieOfCache
HealthCheck == Poll \/ ReportAgain \/ BeginRemoval \/ EndRemoval \/ FailRemoval

GuardNext ==
  \/ StartService \/ StopService
  \/ Boot \/ BootFailure \/ Node \/ HealthCheck
  \/ Crash \/ SaveCache

GuardSpec == GuardInit /\ [][GuardNext]_guardVars

(* While main runs, daemons are restarted, containers run and the health   *)
(* check is polled.  Nobody has to stop the service or to save a cache,    *)
(* and no command has to fail: a disk on which rm fails at every boot is   *)
(* beyond MaxFailures.                                                     *)
GuardFairness ==
  WF_guardVars(Boot) /\ WF_guardVars(Node) /\ WF_guardVars(HealthCheck)

GuardFairSpec == GuardSpec /\ GuardFairness
----------------------------------------------------------------------------
TypeOK ==
  /\ service \in {"stopped", "running"}
  /\ backend \in {"down", "test", "remove", "drop", "mark", "starting",
                  "listening"}
  /\ cache \in {"empty", "good", "deadly"}
  /\ sentinel \in BOOLEAN /\ cleared \in BOOLEAN
  /\ check \in {"idle", "success", "removing"}
  /\ checksThis \in BOOLEAN /\ reboot \in BOOLEAN
  /\ settled \in {"no", "first", "later"}
  /\ failures \in Nat /\ crashes \in Nat

CacheDropped == cache # "empty" /\ cache' = "empty"

(* A boot that was the first of its main and was reported healthy never    *)
(* costs the cache at the next start, whenever the service is stopped and  *)
(* however often the removal of the sentinel fails first.                  *)
FirstBootKeepsCache == [][CacheDropped => settled # "first"]_guardVars

(* Why: the flag of a main's first boot says that its sentinel is gone.    *)
SentinelFollowsFlag ==
  /\ settled = "first" => ~sentinel
  /\ service = "running" /\ ~reboot /\ cleared /\ check # "removing" =>
       ~sentinel

(* A flag is raised, and a report runs, only after main's first boot.      *)
FlagFollowsBoot ==
  /\ service = "stopped" => backend = "down" /\ check = "idle"
  /\ service = "running" /\ ~reboot /\ backend \notin {"listening", "down"} =>
       ~cleared /\ check = "idle"
  /\ backend \in {"remove", "drop"} => settled # "first"

GuardInv == TypeOK /\ SentinelFollowsFlag /\ FlagFollowsBoot

(* A cache the backend cannot load is dropped after it killed the backend, *)
(* unless the service is stopped: the boot loop ends, although commands of *)
(* the script fail at some boots; a later boot tries again.                *)
BootLoopEnds ==
  (backend = "starting" /\ cache = "deadly")
    ~> (cache # "deadly" \/ service = "stopped")

(* A healthy first boot loses its sentinel although rm may fail: the next  *)
(* poll tries again.                                                       *)
HealthyBootIsUnmarked ==
  (backend = "listening" /\ ~reboot) ~> (~sentinel \/ backend # "listening")

(* main.ts:21: "Still present at the next start means the previous start   *)
(* never became healthy": no cache is dropped after a boot whose health    *)
(* report ended in success.                                                *)
HealthyBootKeepsCache == [][CacheDropped => settled = "no"]_guardVars
=============================================================================
