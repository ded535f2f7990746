---------------------------- MODULE TuningCache ----------------------------
(***************************************************************************)
(* How a backend finds its kernel: choose_kernel of src/gpu/opencl.rs or   *)
(* choose_pipeline of src/gpu/metal.rs, with the file the selections are   *)
(* cached in.  Miner processes share that file.  A process creates its     *)
(* backends one after the other, so one start of a backend at a time is    *)
(* all a process does here.  It may die at any step, and its process id,   *)
(* which names its temporary file, may come back.                          *)
(*                                                                         *)
(* Kernels, widths and group sizes are abstract selections.  Which of them *)
(* the driver can build for a device, and which of these find the nonces   *)
(* the CPU finds, is a matter of the device with its driver, which the key *)
(* of an entry names; times are not modelled: any selection may be the     *)
(* fastest.                                                                *)
(***************************************************************************)
EXTENDS Naturals

CONSTANTS
  Processes, Devices, Selections,
  Requests,      \* options: the sets of selections they leave to choose from
  Fallback(_),   \* of a request: from_options, legacy_selection
  Compiles(_),   \* of a device: selections whose kernel compiles
  Builds(_),     \* of a device: those that fit its limits as well
  Works(_),      \* of a device: those that also pass validation
  MaxStarts,     \* bound: backends started
  MaxFailures,   \* bound: power failures
  None

Keys == [device : Devices, request : Requests]
Entry(k, selection) == [key |-> k, selection |-> selection]
Entries == [key : Keys, selection : Selections]

ASSUME TuningAssumption ==
  /\ Requests \subseteq SUBSET Selections /\ None \notin Selections
  /\ \A f \in SUBSET Entries : f # None
  /\ \A request \in Requests : Fallback(request) \in request
  /\ \A device \in Devices : 
       Works(device) \subseteq Builds(device)
         /\ Builds(device) \subseteq Compiles(device)
  /\ MaxStarts \in Nat /\ MaxFailures \in Nat

VARIABLES
  api,      \* "opencl" or "metal"
  file,     \* the cache: its entries, or None if absent or no JSON
  temp,     \* each process's temporary file, likewise
  disk,     \* the cache as it was when it last reached the disk
  at,       \* what each process does next
  key,      \* the device and request of the backend it starts
  mode,     \* the tuning option
  chosen,   \* its selection
  cache,    \* what write_cached_selection has in memory
  seen,     \* the file as write_cached_selection read it
  starts, failures  \* bounded counters

files == <<file, temp, disk>>
memory == <<key, mode, chosen, cache, seen>>
bounds == <<starts, failures>>
vars == <<api, files, at, memory, bounds>>

(* read_cached_selection: the entry of the key, of which the list has one  *)
(* at most (CacheInv), so its order is left out.                           *)
Parsed(f) == IF f = None THEN {} ELSE f
Lookup(f, k) ==
  IF \E entry \in Parsed(f) : entry.key = k
  THEN (CHOOSE entry \in Parsed(f) : entry.key = k).selection
  ELSE None

(* retain and push                                                         *)
Updated(f, k, selection) ==
  {entry \in Parsed(f) : entry.key # k} \cup {Entry(k, selection)}

Init ==
  /\ api \in {"opencl", "metal"}
  /\ file \in {None, {}} /\ disk = file
  /\ temp = [p \in Processes |-> None]
  /\ at = [p \in Processes |-> "idle"]
  /\ key = [p \in Processes |-> None] /\ mode = key /\ chosen = key
  /\ cache = [p \in Processes |-> {}] /\ seen = cache
  /\ starts = 0 /\ failures = 0
----------------------------------------------------------------------------
Go(p, place) == at' = [at EXCEPT ![p] = place]
Choose(p, selection) == chosen' = [chosen EXCEPT ![p] = selection]

(* write_cached_selection returns, or the process ends.                    *)
Forget(processes) ==
  /\ cache' = [p \in Processes |-> IF p \in processes THEN {} ELSE cache[p]]
  /\ seen' = [p \in Processes |-> IF p \in processes THEN {} ELSE seen[p]]
End(processes) ==
  LET Lost(f) == [p \in Processes |-> IF p \in processes THEN None ELSE f[p]]
  IN  /\ at' = [p \in Processes |-> IF p \in processes THEN "idle" ELSE at[p]]
      /\ key' = Lost(key) /\ mode' = Lost(mode) /\ chosen' = Lost(chosen)
      /\ Forget(processes)

(* tuning = Off skips the cache, Retune its lookup.                        *)
StartBackend(p, k, tuning) ==
  /\ at[p] \in {"idle", "started"} /\ starts < MaxStarts
  /\ starts' = starts + 1
  /\ key' = [key EXCEPT ![p] = k] /\ mode' = [mode EXCEPT ![p] = tuning]
  /\ Choose(p, None)
  /\ Go(p, CASE tuning = "off" -> "off" [] tuning = "auto" -> "read"
             [] tuning = "retune" -> "tune")
  /\ UNCHANGED <<api, files, cache, seen, failures>>

(* Metal validates the fallback too.                                       *)
Off(p) ==
  /\ at[p] = "off"
  /\ LET selection == Fallback(key[p].request)
         usable == IF api = "metal" THEN Works(key[p].device)
                                    ELSE Builds(key[p].device)
     IN  \/ /\ selection \in usable
            /\ Choose(p, selection) /\ Go(p, "started")
            /\ UNCHANGED <<key, mode, cache, seen>>
         \/ selection \notin usable /\ End({p})
  /\ UNCHANGED <<api, files, bounds>>

(* Mutant of Usable: the limits and the request are not looked at.         *)
UsableAtAll(selection, k) == selection # None

(* What Metal caches it validates again, OpenCL builds.                    *)
Usable(selection, k) ==
  /\ selection \in k.request
  /\ selection \in IF api = "metal" THEN Works(k.device) ELSE Builds(k.device)

ReadCache(p) ==
  /\ at[p] = "read"
  /\ LET selection == Lookup(file, key[p])
     IN  IF Usable(selection, key[p])
         THEN Choose(p, selection) /\ Go(p, "started")
         ELSE Go(p, "tune") /\ UNCHANGED chosen
  /\ UNCHANGED <<api, files, key, mode, cache, seen, bounds>>

(* Mutant of Candidates: what builds is measured, validated or not.        *)
BuiltCandidates(k) == k.request \cap Builds(k.device)

Candidates(k) == k.request \cap Works(k.device)

(* With no request Metal keeps its legacy selection unless the winner is   *)
(* faster by a hundredth; it compiles and measures it, no more.            *)
LooksAtLegacy(k) == api = "metal" /\ k.request = Selections

(* The fastest of the candidates is saved unless there is no cache path.   *)
Tune(p) ==
  /\ at[p] = "tune" /\ Candidates(key[p]) # {}
  /\ LooksAtLegacy(key[p]) =>
       Fallback(Selections) \in Compiles(key[p].device)
  /\ \/ \E selection \in Candidates(key[p]) : Choose(p, selection)
     \/ LooksAtLegacy(key[p]) /\ Choose(p, Fallback(Selections))
  /\ \E place \in {"save", "started"} : Go(p, place)
  /\ UNCHANGED <<api, files, key, mode, cache, seen, bounds>>

(* No candidate, or an error of the driver; the process ends.              *)
TuneFails(p) ==
  /\ at[p] = "tune" /\ End({p})
  /\ UNCHANGED <<api, files, bounds>>
----------------------------------------------------------------------------
(* write_cached_selection                                                  *)

(* Mutants of ReadAgain: the cache is not read again; the old entry stays. *)
StartAfresh(p) ==
  /\ at[p] = "save"
  /\ seen' = [seen EXCEPT ![p] = Parsed(file)]
  /\ cache' = [cache EXCEPT ![p] = Updated(None, key[p], chosen[p])]
  /\ Go(p, "truncate")
  /\ UNCHANGED <<api, files, key, mode, chosen, bounds>>
PushOnly(p) ==
  /\ at[p] = "save"
  /\ seen' = [seen EXCEPT ![p] = Parsed(file)]
  /\ cache' = [cache EXCEPT ![p] =
                 Parsed(file) \cup {Entry(key[p], chosen[p])}]
  /\ Go(p, "truncate")
  /\ UNCHANGED <<api, files, key, mode, chosen, bounds>>

ReadAgain(p) ==
  /\ at[p] = "save"
  /\ seen' = [seen EXCEPT ![p] = Parsed(file)]
  /\ cache' = [cache EXCEPT ![p] = Updated(file, key[p], chosen[p])]
  /\ Go(p, "truncate")
  /\ UNCHANGED <<api, files, key, mode, chosen, bounds>>

(* Mutant of Truncate: the cache itself is written.                        *)
TruncateCache(p) ==
  /\ at[p] = "truncate"
  /\ file' = None /\ UNCHANGED temp
  /\ Go(p, "write")
  /\ UNCHANGED <<api, disk, key, mode, chosen, cache, seen, bounds>>

(* fs::write empties the temporary file first.                             *)
Truncate(p) ==
  /\ at[p] = "truncate"
  /\ temp' = [temp EXCEPT ![p] = None]
  /\ Go(p, "write")
  /\ UNCHANGED <<api, file, disk, key, mode, chosen, cache, seen, bounds>>

Write(p) ==
  /\ at[p] = "write"
  /\ temp' = [temp EXCEPT ![p] = cache[p]]
  /\ Go(p, "rename")
  /\ UNCHANGED <<api, file, disk, key, mode, chosen, cache, seen, bounds>>

Rename(p) ==
  /\ at[p] = "rename"
  /\ file' = temp[p] /\ temp' = [temp EXCEPT ![p] = None]
  /\ Go(p, "started") /\ Forget({p})
  /\ UNCHANGED <<api, disk, key, mode, chosen, bounds>>

(* "tuning cache was not written": the backend starts all the same.        *)
SaveFails(p) ==
  /\ at[p] \in {"save", "truncate", "write", "rename"}
  /\ Go(p, "started") /\ Forget({p})
  /\ UNCHANGED <<api, files, key, mode, chosen, bounds>>
----------------------------------------------------------------------------
Die(p) ==
  /\ at[p] # "idle" /\ End({p})
  /\ UNCHANGED <<api, files, bounds>>

(* Nothing is synchronized: the system writes the cache out when it likes, *)
(* and a power failure leaves the version the disk has, or a file of that  *)
(* name without its contents.                                              *)
ReachDisk ==
  /\ disk # file /\ disk' = file
  /\ UNCHANGED <<api, file, temp, at, memory, bounds>>

PowerFailure ==
  /\ failures < MaxFailures /\ failures' = failures + 1
  /\ End(Processes)
  /\ file' \in {disk, None} /\ disk' = file'
  /\ UNCHANGED <<api, temp, starts>>

ProcessStep(p) ==
  \/ \E k \in Keys, tuning \in {"off", "auto", "retune"} :
       StartBackend(p, k, tuning)
  \/ Off(p) \/ ReadCache(p) \/ Tune(p) \/ TuneFails(p)
  \/ ReadAgain(p) \/ Truncate(p) \/ Write(p) \/ Rename(p) \/ SaveFails(p)
  \/ Die(p)

(* No further starts.                                                      *)
Terminated ==
  /\ \A p \in Processes : at[p] = "idle" /\ starts = MaxStarts
  /\ UNCHANGED vars

Next ==
  \/ \E p \in Processes : ProcessStep(p)
  \/ ReachDisk \/ PowerFailure
  \/ Terminated

Spec == Init /\ [][Next]_vars
=============================================================================
