-------------------------- MODULE TuningProperties --------------------------
(***************************************************************************)
(* What finding a kernel, with the cache, must get right.                  *)
(***************************************************************************)
EXTENDS TuningCache

Places == {"idle", "started", "off", "read", "tune", "save", "truncate",
           "write", "rename"}
Contents == (SUBSET Entries) \cup {None}

TuningTypeOK ==
  /\ api \in {"opencl", "metal"}
  /\ file \in Contents /\ disk \in Contents /\ temp \in [Processes -> Contents]
  /\ at \in [Processes -> Places]
  /\ key \in [Processes -> Keys \cup {None}]
  /\ mode \in [Processes -> {"off", "auto", "retune", None}]
  /\ chosen \in [Processes -> Selections \cup {None}]
  /\ cache \in [Processes -> SUBSET Entries]
  /\ seen \in [Processes -> SUBSET Entries]
  /\ starts \in Nat /\ failures \in Nat

(* A selection was validated for the key, but for Metal's legacy one.      *)
Trusted(k, selection) ==
  /\ selection \in k.request
  /\ \/ selection \in Works(k.device)
     \/ LooksAtLegacy(k) /\ selection = Fallback(Selections)

TrustedEntries(f) ==
  \A entry \in Parsed(f) : Trusted(entry.key, entry.selection)
OneEntryPerKey(f) ==
  \A one, other \in Parsed(f) : one.key = other.key => one = other

(* Whatever lies in the cache, on the disk or on its way there has one entry for a key, *)
(* of a selection that may be used without another look; what is about to  *)
(* replace the cache is whole.                                             *)
CacheInv ==
  /\ TuningTypeOK
  /\ \A f \in {file, disk} : TrustedEntries(f) /\ OneEntryPerKey(f)
  /\ \A p \in Processes :
       /\ TrustedEntries(cache[p]) /\ OneEntryPerKey(cache[p])
       /\ at[p] \in {"save", "truncate", "write", "rename"} =>
            Trusted(key[p], chosen[p])
       /\ at[p] = "rename" => temp[p] = cache[p]

(* Whichever processes tuned, died and saved before: a backend that was    *)
(* tuned or found its kernel in the cache mines with one that gave the     *)
(* CPU's results on its device.  OpenCL does not validate a cached kernel  *)
(* again, nor the fallback; Metal does, but not a legacy kernel it retains.*)
StartedKernelsWork ==
  \A p \in Processes :
    at[p] = "started" /\ (mode[p] # "off" \/ api = "metal") =>
      Trusted(key[p], chosen[p])

(* A readable cache is never lost while the power lasts: no process leaves *)
(* or shows a part of one, whenever it dies.                               *)
CacheStaysReadable ==
  [][file # None /\ file' = None => failures' # failures]_vars

(* A save makes the last selection of its key the one that will be found,  *)
(* and if no other process saved since this one read the cache again, it   *)
(* leaves all other keys' selections alone.                                *)
SavesAreUpdates ==
  [][\A p \in Processes :
       at[p] = "rename" /\ at'[p] = "started" /\ file' # file =>
         /\ Lookup(file', key[p]) = chosen[p]
         /\ Parsed(file) = seen[p] =>
              \A k \in Keys \ {key[p]} : Lookup(file', k) = Lookup(file, k)]_vars
----------------------------------------------------------------------------
(* Why they hold: a process at work has a key, and what it writes is what  *)
(* it has read with its own selection in it.                               *)
SaveInv ==
  \A p \in Processes :
    /\ at[p] # "idle" => key[p] \in Keys
    /\ at[p] = "off" => mode[p] = "off"
    /\ at[p] \in {"truncate", "write", "rename"} =>
         cache[p] = Updated(seen[p], key[p], chosen[p])

TuningInv == CacheInv /\ SaveInv /\ StartedKernelsWork
=============================================================================
