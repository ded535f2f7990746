---------------------------- MODULE TuningProofs ----------------------------
(***************************************************************************)
(* Proofs about the tuning cache, for any number of processes, devices,    *)
(* selections and requests, and any deaths and power failures.             *)
(***************************************************************************)
EXTENDS TuningProperties, TLAPS

(* What the cache says of a key.                                           *)
LEMMA LookupFinds ==
  ASSUME NEW f, OneEntryPerKey(f), NEW entry \in Parsed(f)
  PROVE  Lookup(f, entry.key) = entry.selection
BY DEF Lookup, OneEntryPerKey

LEMMA LookupFails ==
  ASSUME NEW f, NEW k, \A entry \in Parsed(f) : entry.key # k
  PROVE  Lookup(f, k) = None
BY DEF Lookup

(* A trusted cache has no other than trusted selections to offer.          *)
LEMMA LookupTrusted ==
  ASSUME NEW f, OneEntryPerKey(f), TrustedEntries(f), NEW k
  PROVE  Lookup(f, k) = None \/ Trusted(k, Lookup(f, k))
<1>1. CASE \E entry \in Parsed(f) : entry.key = k
  <2>1. PICK entry \in Parsed(f) : entry.key = k
    BY <1>1
  <2>2. Lookup(f, k) = entry.selection
    BY <2>1, LookupFinds
  <2> QED BY <2>1, <2>2 DEF TrustedEntries
<1>2. CASE \A entry \in Parsed(f) : entry.key # k
  BY <1>2, LookupFails
<1> QED BY <1>1, <1>2

(* None is no cache; a set of entries is its own contents.                 *)
LEMMA Readable ==
  /\ Parsed(None) = {}
  /\ \A f \in SUBSET Entries : f # None /\ Parsed(f) = f
  /\ \A f \in Contents : Parsed(f) \in SUBSET Entries
<1>1. \A f \in SUBSET Entries : f # None
  BY TuningAssumption
<1>2. {} \in SUBSET Entries
  OBVIOUS
<1>3. Parsed(None) = {}
  BY DEF Parsed
<1>4. \A f \in SUBSET Entries : f # None /\ Parsed(f) = f
  BY <1>1 DEF Parsed
<1>5. ASSUME NEW f \in Contents PROVE Parsed(f) \in SUBSET Entries
  <2>1. f = None \/ f \in SUBSET Entries
    BY DEF Contents
  <2> QED BY <1>2, <1>3, <1>4, <2>1
<1> QED BY <1>3, <1>4, <1>5

(* retain and push make one trusted entry of the key and keep the others.  *)
LEMMA UpdatedCache ==
  ASSUME NEW f \in Contents, NEW k \in Keys, NEW selection \in Selections
  PROVE  /\ Updated(f, k, selection) \in SUBSET Entries
         /\ OneEntryPerKey(f) => OneEntryPerKey(Updated(f, k, selection))
         /\ TrustedEntries(f) /\ Trusted(k, selection) =>
              TrustedEntries(Updated(f, k, selection))
<1> DEFINE new == Updated(f, k, selection)
<1>1. /\ new = {entry \in Parsed(f) : entry.key # k}
                 \cup {Entry(k, selection)}
      /\ Entry(k, selection) \in Entries
      /\ Entry(k, selection).key = k
      /\ Entry(k, selection).selection = selection
  BY DEF Updated, Entry, Entries
<1>2. Parsed(f) \in SUBSET Entries
  BY Readable
<1>3. new \in SUBSET Entries
  BY <1>1, <1>2
<1>4. Parsed(new) = new
  BY <1>3, Readable
<1> HIDE DEF new
<1>5. OneEntryPerKey(f) => OneEntryPerKey(new)
  BY <1>1, <1>4 DEF OneEntryPerKey
<1>6. TrustedEntries(f) /\ Trusted(k, selection) => TrustedEntries(new)
  BY <1>1, <1>4 DEF TrustedEntries
<1> QED BY <1>3, <1>5, <1>6 DEF new

LEMMA UpdatedLookup ==
  ASSUME NEW f \in Contents, OneEntryPerKey(f),
         NEW k \in Keys, NEW selection \in Selections
  PROVE  /\ Lookup(Updated(f, k, selection), k) = selection
         /\ \A other \in Keys \ {k} :
              Lookup(Updated(f, k, selection), other) = Lookup(f, other)
<1> DEFINE new == Updated(f, k, selection)
<1>1. /\ new = {entry \in Parsed(f) : entry.key # k}
                 \cup {Entry(k, selection)}
      /\ Entry(k, selection).key = k
      /\ Entry(k, selection).selection = selection
  BY DEF Updated, Entry
<1>2. new \in SUBSET Entries /\ OneEntryPerKey(new)
  BY UpdatedCache
<1>3. Parsed(new) = new
  BY <1>2, Readable
<1> HIDE DEF new
<1>4. Lookup(new, k) = selection
  BY <1>1, <1>2, <1>3, LookupFinds
<1>5. ASSUME NEW other \in Keys \ {k}
      PROVE  Lookup(new, other) = Lookup(f, other)
  <2>1. CASE \E entry \in Parsed(f) : entry.key = other
    <3>1. PICK entry \in Parsed(f) : entry.key = other
      BY <2>1
    <3>2. entry \in Parsed(new)
      BY <1>1, <1>3, <1>5, <3>1
    <3>3. Lookup(f, other) = entry.selection
      BY <3>1, LookupFinds
    <3>4. Lookup(new, other) = entry.selection
      BY <1>2, <3>1, <3>2, LookupFinds
    <3> QED BY <3>3, <3>4
  <2>2. CASE \A entry \in Parsed(f) : entry.key # other
    <3>1. \A entry \in Parsed(new) : entry.key # other
      BY <1>1, <1>3, <1>5, <2>2
    <3> QED BY <2>2, <3>1, LookupFails
  <2> QED BY <2>1, <2>2
<1> QED BY <1>4, <1>5 DEF new
----------------------------------------------------------------------------
(* The invariant.                                                          *)

LEMMA TuningInit == Init => TuningInv
<1> SUFFICES ASSUME Init PROVE TuningInv
  OBVIOUS
<1>1. TuningTypeOK
  <2>1. None \in Contents /\ {} \in Contents /\ {} \in SUBSET Entries
    BY DEF Contents
  <2>2. /\ file \in Contents /\ disk \in Contents
        /\ temp \in [Processes -> Contents]
    BY <2>1 DEF Init
  <2>3. /\ cache \in [Processes -> SUBSET Entries]
        /\ seen \in [Processes -> SUBSET Entries]
    BY <2>1 DEF Init
  <2>4. /\ at \in [Processes -> Places]
        /\ key \in [Processes -> Keys \cup {None}]
        /\ mode \in [Processes -> {"off", "auto", "retune", None}]
        /\ chosen \in [Processes -> Selections \cup {None}]
    BY DEF Init, Places
  <2> QED BY <2>2, <2>3, <2>4 DEF Init, TuningTypeOK
<1>2. \A p \in Processes : at[p] = "idle" /\ cache[p] = {}
  BY DEF Init
<1>3. file \in {None, {}} /\ disk = file
  BY DEF Init
<1>4. /\ TrustedEntries(file) /\ OneEntryPerKey(file)
      /\ TrustedEntries({}) /\ OneEntryPerKey({})
  BY <1>3 DEF TrustedEntries, OneEntryPerKey, Parsed
<1> QED
  BY <1>1, <1>2, <1>3, <1>4
     DEF TuningInv, CacheInv, SaveInv, StartedKernelsWork

(* Invariants of one process beside the cache.                             *)
ProcessInv(p) ==
  /\ TrustedEntries(cache[p]) /\ OneEntryPerKey(cache[p])
  /\ at[p] \in {"save", "truncate", "write", "rename"} =>
       Trusted(key[p], chosen[p])
  /\ at[p] = "rename" => temp[p] = cache[p]
  /\ at[p] # "idle" => key[p] \in Keys
  /\ at[p] = "off" => mode[p] = "off"
  /\ at[p] \in {"truncate", "write", "rename"} =>
       cache[p] = Updated(seen[p], key[p], chosen[p])
  /\ at[p] = "started" /\ (mode[p] # "off" \/ api = "metal") =>
       Trusted(key[p], chosen[p])

LEMMA InParts ==
  TuningInv <=>
    /\ TuningTypeOK
    /\ \A f \in {file, disk} : TrustedEntries(f) /\ OneEntryPerKey(f)
    /\ \A p \in Processes : ProcessInv(p)
BY DEF TuningInv, CacheInv, SaveInv, StartedKernelsWork, ProcessInv

(* A process whose own variables stand keeps what is said of it.           *)
LEMMA StandingProcess ==
  ASSUME NEW q \in Processes, ProcessInv(q), api' = api,
         at'[q] = at[q], temp'[q] = temp[q], key'[q] = key[q],
         mode'[q] = mode[q], chosen'[q] = chosen[q], cache'[q] = cache[q],
         seen'[q] = seen[q]
  PROVE  ProcessInv(q)'
BY DEF ProcessInv, Trusted, TrustedEntries, OneEntryPerKey, Parsed, Updated,
       LooksAtLegacy

(* A process that ended has nothing in memory.                             *)
LEMMA EndedProcess ==
  ASSUME NEW q \in Processes, at'[q] = "idle", cache'[q] = {}
  PROVE  ProcessInv(q)'
BY DEF ProcessInv, TrustedEntries, OneEntryPerKey, Parsed
----------------------------------------------------------------------------
(* The steps of a process.                                                 *)

(* The ways End and Forget change a process's variables.                   *)
LEMMA EndOf ==
  ASSUME TuningTypeOK, NEW P \in SUBSET Processes, End(P)
  PROVE  /\ at' \in [Processes -> Places]
         /\ key' \in [Processes -> Keys \cup {None}]
         /\ mode' \in [Processes -> {"off", "auto", "retune", None}]
         /\ chosen' \in [Processes -> Selections \cup {None}]
         /\ cache' \in [Processes -> SUBSET Entries]
         /\ seen' \in [Processes -> SUBSET Entries]
         /\ \A q \in P : at'[q] = "idle" /\ cache'[q] = {}
         /\ \A q \in Processes \ P :
              /\ at'[q] = at[q] /\ key'[q] = key[q] /\ mode'[q] = mode[q]
              /\ chosen'[q] = chosen[q] /\ cache'[q] = cache[q]
              /\ seen'[q] = seen[q]
<1>1. /\ at' = [q \in Processes |-> IF q \in P THEN "idle" ELSE at[q]]
      /\ key' = [q \in Processes |-> IF q \in P THEN None ELSE key[q]]
      /\ mode' = [q \in Processes |-> IF q \in P THEN None ELSE mode[q]]
      /\ chosen' = [q \in Processes |-> IF q \in P THEN None ELSE chosen[q]]
      /\ cache' = [q \in Processes |-> IF q \in P THEN {} ELSE cache[q]]
      /\ seen' = [q \in Processes |-> IF q \in P THEN {} ELSE seen[q]]
  BY DEF End, Forget
<1>2. /\ at' \in [Processes -> Places]
      /\ key' \in [Processes -> Keys \cup {None}]
      /\ mode' \in [Processes -> {"off", "auto", "retune", None}]
      /\ chosen' \in [Processes -> Selections \cup {None}]
  BY <1>1 DEF TuningTypeOK, Places
<1>3. /\ cache' \in [Processes -> SUBSET Entries]
      /\ seen' \in [Processes -> SUBSET Entries]
  BY <1>1 DEF TuningTypeOK
<1> QED BY <1>1, <1>2, <1>3

LEMMA ForgetOf ==
  ASSUME TuningTypeOK, NEW p \in Processes, Forget({p})
  PROVE  /\ cache' \in [Processes -> SUBSET Entries]
         /\ seen' \in [Processes -> SUBSET Entries]
         /\ cache'[p] = {}
         /\ \A q \in Processes \ {p} :
              cache'[q] = cache[q] /\ seen'[q] = seen[q]
BY DEF Forget, TuningTypeOK

(* Types, and whose variables a step touches.                              *)
Touches(p) ==
  /\ TuningTypeOK' /\ api' = api
  /\ \A q \in Processes \ {p} :
       /\ at'[q] = at[q] /\ temp'[q] = temp[q] /\ key'[q] = key[q]
       /\ mode'[q] = mode[q] /\ chosen'[q] = chosen[q]
       /\ cache'[q] = cache[q] /\ seen'[q] = seen[q]

LEMMA DiskStands ==
  ASSUME NEW p \in Processes, ProcessStep(p)
  PROVE  disk' = disk
BY DEF ProcessStep, StartBackend, Off, ReadCache, Tune, TuneFails, ReadAgain,
       Truncate, Write, Rename, SaveFails, Die, files

LEMMA StepTouches ==
  ASSUME TuningInv, NEW p \in Processes, ProcessStep(p)
  PROVE  Touches(p)
<1> USE DEF Touches
<1>0. TuningTypeOK /\ ProcessInv(p) /\ disk' = disk
  BY InParts, DiskStands
<1>1. ASSUME NEW k \in Keys, NEW tuning \in {"off", "auto", "retune"},
             StartBackend(p, k, tuning)
      PROVE  Touches(p)
  <2>1. /\ key' = [key EXCEPT ![p] = k] /\ mode' = [mode EXCEPT ![p] = tuning]
        /\ chosen' = [chosen EXCEPT ![p] = None] /\ starts' = starts + 1
        /\ UNCHANGED <<api, file, temp, cache, seen, failures>>
    BY <1>1 DEF StartBackend, Choose, files
  <2>2. \E place \in {"off", "read", "tune"} : at' = [at EXCEPT ![p] = place]
    BY <1>1 DEF StartBackend, Go
  <2> QED BY <1>0, <2>1, <2>2 DEF TuningTypeOK, Places
<1>2. CASE Off(p) \/ TuneFails(p) \/ Die(p)
  <2>1. UNCHANGED <<api, file, temp, starts, failures>>
    BY <1>2 DEF Off, TuneFails, Die, files, bounds
  <2>2. CASE End({p})
    BY <1>0, <2>1, <2>2, EndOf DEF TuningTypeOK
  <2>3. CASE ~End({p})
    <3>1. /\ Fallback(key[p].request) \in Selections
      <4>1. key[p] \in Keys
        BY <1>0, <1>2, <2>3 DEF ProcessInv, Off, TuneFails, Die
      <4> QED BY <4>1, TuningAssumption DEF Keys
    <3>2. /\ chosen' = [chosen EXCEPT ![p] = Fallback(key[p].request)]
          /\ at' = [at EXCEPT ![p] = "started"]
          /\ UNCHANGED <<key, mode, cache, seen>>
      BY <1>2, <2>3 DEF Off, TuneFails, Die, Choose, Go
    <3> QED BY <1>0, <2>1, <3>1, <3>2 DEF TuningTypeOK, Places
  <2> QED BY <2>2, <2>3
<1>3. CASE ReadCache(p)
  <2>1. UNCHANGED <<api, file, temp, key, mode, cache, seen, starts, failures>>
    BY <1>3 DEF ReadCache, files, bounds
  <2>2. \/ /\ Usable(Lookup(file, key[p]), key[p])
           /\ chosen' = [chosen EXCEPT ![p] = Lookup(file, key[p])]
           /\ at' = [at EXCEPT ![p] = "started"]
        \/ chosen' = chosen /\ at' = [at EXCEPT ![p] = "tune"]
    BY <1>3 DEF ReadCache, Choose, Go
  <2>3. key[p] \in Keys
    BY <1>0, <1>3 DEF ProcessInv, ReadCache
  <2>4. Usable(Lookup(file, key[p]), key[p])
          => Lookup(file, key[p]) \in Selections
    BY <2>3, TuningAssumption DEF Usable, Keys
  <2> QED BY <1>0, <2>1, <2>2, <2>4 DEF TuningTypeOK, Places
<1>4. CASE Tune(p)
  <2>1. UNCHANGED <<api, file, temp, key, mode, cache, seen, starts, failures>>
    BY <1>4 DEF Tune, files, bounds
  <2>2. key[p] \in Keys
    BY <1>0, <1>4 DEF ProcessInv, Tune
  <2>3. PICK selection \in Selections, place \in {"save", "started"} :
          /\ chosen' = [chosen EXCEPT ![p] = selection]
          /\ at' = [at EXCEPT ![p] = place]
    <3>1. Candidates(key[p]) \subseteq Selections
      BY <2>2, TuningAssumption DEF Candidates, Keys
    <3>2. LooksAtLegacy(key[p]) => Fallback(Selections) \in Selections
      BY <2>2, TuningAssumption DEF LooksAtLegacy, Keys
    <3> QED BY <1>4, <3>1, <3>2 DEF Tune, Choose, Go
  <2> QED BY <1>0, <2>1, <2>3 DEF TuningTypeOK, Places
<1>5. CASE ReadAgain(p)
  <2>1. /\ at[p] = "save"
        /\ UNCHANGED <<api, file, temp, key, mode, chosen, starts, failures>>
        /\ seen' = [seen EXCEPT ![p] = Parsed(file)]
        /\ cache' = [cache EXCEPT ![p] = Updated(file, key[p], chosen[p])]
        /\ at' = [at EXCEPT ![p] = "truncate"]
    BY <1>5 DEF ReadAgain, files, bounds, Go
  <2>2. key[p] \in Keys /\ chosen[p] \in Selections /\ file \in Contents
    BY <1>0, <2>1, TuningAssumption
       DEF ProcessInv, Trusted, TuningTypeOK, Keys
  <2>3. Parsed(file) \in SUBSET Entries
    BY <2>2, Readable
  <2>4. Updated(file, key[p], chosen[p]) \in SUBSET Entries
    BY <2>2, UpdatedCache
  <2> QED BY <1>0, <2>1, <2>3, <2>4 DEF TuningTypeOK, Places
<1>6. CASE Truncate(p) \/ Write(p)
  <2>1. /\ UNCHANGED <<api, file, key, mode, chosen, cache, seen,
                       starts, failures>>
        /\ \E place \in {"write", "rename"} : at' = [at EXCEPT ![p] = place]
        /\ \E f \in {None, cache[p]} : temp' = [temp EXCEPT ![p] = f]
    BY <1>6 DEF Truncate, Write, bounds, Go
  <2>2. {None, cache[p]} \subseteq Contents
    BY <1>0 DEF TuningTypeOK, Contents
  <2> QED BY <1>0, <2>1, <2>2 DEF TuningTypeOK, Places
<1>7. CASE Rename(p) \/ SaveFails(p)
  <2>1. /\ UNCHANGED <<api, key, mode, chosen, starts, failures>>
        /\ at' = [at EXCEPT ![p] = "started"]
        /\ Forget({p})
        /\ file' \in {file, temp[p]}
        /\ temp' = temp \/ temp' = [temp EXCEPT ![p] = None]
    BY <1>7 DEF Rename, SaveFails, files, bounds, Go
  <2>2. None \in Contents /\ file' \in Contents
    BY <1>0, <2>1 DEF TuningTypeOK, Contents
  <2> QED BY <1>0, <2>1, <2>2, ForgetOf DEF TuningTypeOK, Places
<1> QED
  BY <1>1, <1>2, <1>3, <1>4, <1>5, <1>6, <1>7 DEF ProcessStep
(* What is said of the process that takes the step.                        *)
LEMMA StepKeepsItsOwn ==
  ASSUME TuningInv, NEW p \in Processes, ProcessStep(p)
  PROVE  ProcessInv(p)'
<1>0. /\ TuningTypeOK /\ ProcessInv(p) /\ Touches(p)
      /\ TrustedEntries(file) /\ OneEntryPerKey(file)
  BY InParts, StepTouches
<1>1. api' = api
  BY <1>0 DEF Touches
<1>2. ASSUME UNCHANGED cache
      PROVE  TrustedEntries(cache[p])' /\ OneEntryPerKey(cache[p])'
  BY <1>0, <1>1, <1>2 DEF ProcessInv, TrustedEntries, OneEntryPerKey, Parsed,
                          Trusted, LooksAtLegacy
<1>3. ASSUME cache'[p] = {}
      PROVE  TrustedEntries(cache[p])' /\ OneEntryPerKey(cache[p])'
  BY <1>3 DEF TrustedEntries, OneEntryPerKey, Parsed
<1>4. CASE \E k \in Keys, tuning \in {"off", "auto", "retune"} :
             StartBackend(p, k, tuning)
  <2>1. PICK k \in Keys, tuning \in {"off", "auto", "retune"} :
          StartBackend(p, k, tuning)
    BY <1>4
  <2>2. /\ key'[p] = k /\ mode'[p] = tuning /\ UNCHANGED cache
        /\ at'[p] \in {"off", "read", "tune"}
        /\ at'[p] = "off" => tuning = "off"
    BY <1>0, <2>1 DEF StartBackend, Go, TuningTypeOK
  <2> QED BY <1>2, <2>2 DEF ProcessInv
<1>5. CASE (Off(p) \/ TuneFails(p) \/ Die(p)) /\ End({p})
  <2>1. at'[p] = "idle" /\ cache'[p] = {}
    BY <1>0, <1>5, EndOf
  <2> QED BY <2>1, EndedProcess
<1>6. CASE Off(p) /\ ~End({p})
  <2>1. /\ at[p] = "off" /\ at'[p] = "started"
        /\ UNCHANGED <<key, mode, cache>>
        /\ chosen'[p] = Fallback(key[p].request)
        /\ api = "metal" => Fallback(key[p].request) \in Works(key[p].device)
    BY <1>0, <1>6 DEF Off, Choose, Go, TuningTypeOK
  <2>2. key[p] \in Keys /\ mode[p] = "off"
    BY <1>0, <2>1 DEF ProcessInv
  <2>3. api = "metal" => Trusted(key[p], chosen'[p])
    BY <2>1, <2>2, TuningAssumption DEF Trusted, Keys
  <2>4. api' = "metal" => Trusted(key[p], chosen[p])'
    BY <1>1, <2>1, <2>3 DEF Trusted, LooksAtLegacy
  <2> QED BY <1>2, <2>1, <2>2, <2>4 DEF ProcessInv
<1>7. CASE ReadCache(p)
  <2>1. at[p] = "read" /\ UNCHANGED <<key, mode, cache>>
    BY <1>7 DEF ReadCache
  <2>2. key[p] \in Keys
    BY <1>0, <2>1 DEF ProcessInv
  <2>3. CASE at'[p] = "tune"
    BY <1>2, <2>1, <2>2, <2>3 DEF ProcessInv
  <2>4. CASE at'[p] # "tune"
    <3> DEFINE selection == Lookup(file, key[p])
    <3>1. /\ Usable(selection, key[p]) /\ chosen'[p] = selection
          /\ at'[p] = "started"
      BY <1>0, <1>7, <2>4 DEF ReadCache, Choose, Go, TuningTypeOK
    <3>2. selection # None
      BY <2>2, <3>1, TuningAssumption DEF Usable, Keys
    <3>3. Trusted(key[p], selection)
      BY <1>0, <3>2, LookupTrusted
    <3> HIDE DEF selection
    <3>4. Trusted(key[p], chosen[p])'
      BY <1>1, <2>1, <3>1, <3>3 DEF Trusted, LooksAtLegacy
    <3> QED BY <1>2, <2>1, <2>2, <3>1, <3>4 DEF ProcessInv
  <2> QED BY <2>3, <2>4
<1>8. CASE Tune(p)
  <2>1. /\ at[p] = "tune" /\ at'[p] \in {"save", "started"}
        /\ UNCHANGED <<key, mode, cache>>
        /\ \/ chosen'[p] \in Candidates(key[p])
           \/ LooksAtLegacy(key[p]) /\ chosen'[p] = Fallback(Selections)
    BY <1>0, <1>8 DEF Tune, Choose, Go, TuningTypeOK
  <2>2. key[p] \in Keys
    BY <1>0, <2>1 DEF ProcessInv
  <2>3. Trusted(key[p], chosen'[p])
    <3>1. CASE chosen'[p] \in Candidates(key[p])
      BY <3>1 DEF Candidates, Trusted
    <3>2. CASE LooksAtLegacy(key[p]) /\ chosen'[p] = Fallback(Selections)
      BY <2>2, <3>2, TuningAssumption DEF LooksAtLegacy, Trusted, Keys
    <3> QED BY <2>1, <3>1, <3>2
  <2>4. Trusted(key[p], chosen[p])'
    BY <1>1, <2>1, <2>3 DEF Trusted, LooksAtLegacy
  <2> QED BY <1>2, <2>1, <2>2, <2>4 DEF ProcessInv
<1>9. CASE ReadAgain(p)
  <2>1. /\ at[p] = "save" /\ at'[p] = "truncate"
        /\ UNCHANGED <<file, key, mode, chosen>>
        /\ seen'[p] = Parsed(file)
        /\ cache'[p] = Updated(file, key[p], chosen[p])
    BY <1>0, <1>9 DEF ReadAgain, files, Go, TuningTypeOK
  <2>2. Trusted(key[p], chosen[p]) /\ key[p] \in Keys
    BY <1>0, <2>1 DEF ProcessInv
  <2>3. chosen[p] \in Selections /\ file \in Contents
    BY <1>0, <2>2, TuningAssumption DEF Trusted, TuningTypeOK, Keys
  <2>4. /\ TrustedEntries(Updated(file, key[p], chosen[p]))
        /\ OneEntryPerKey(Updated(file, key[p], chosen[p]))
    BY <1>0, <2>2, <2>3, UpdatedCache
  <2>5. TrustedEntries(cache[p])' /\ OneEntryPerKey(cache[p])'
    BY <1>1, <2>1, <2>4 DEF TrustedEntries, OneEntryPerKey, Parsed, Trusted,
                            LooksAtLegacy
  <2>6. cache'[p] = Updated(seen[p], key[p], chosen[p])'
    <3>1. Parsed(Parsed(file)) = Parsed(file)
      BY <2>3, Readable
    <3> QED BY <2>1, <3>1 DEF Updated
  <2>7. Trusted(key[p], chosen[p])'
    BY <1>1, <2>1, <2>2 DEF Trusted, LooksAtLegacy
  <2> QED BY <2>1, <2>2, <2>5, <2>6, <2>7 DEF ProcessInv
<1>10. CASE Truncate(p) \/ Write(p)
  <2>1. /\ UNCHANGED <<key, mode, chosen, cache, seen>>
        /\ at[p] \in {"truncate", "write"}
        /\ \/ at'[p] = "write"
           \/ at'[p] = "rename" /\ temp'[p] = cache[p]
    BY <1>0, <1>10 DEF Truncate, Write, Go, TuningTypeOK
  <2>2. /\ Trusted(key[p], chosen[p]) /\ key[p] \in Keys
        /\ cache[p] = Updated(seen[p], key[p], chosen[p])
    BY <1>0, <2>1 DEF ProcessInv
  <2>3. Trusted(key[p], chosen[p])'
    BY <1>1, <2>1, <2>2 DEF Trusted, LooksAtLegacy
  <2>4. cache'[p] = Updated(seen[p], key[p], chosen[p])'
    BY <2>1, <2>2 DEF Updated, Parsed
  <2> QED BY <1>2, <2>1, <2>2, <2>3, <2>4 DEF ProcessInv
<1>11. CASE Rename(p) \/ SaveFails(p)
  <2>1. /\ UNCHANGED <<key, mode, chosen>>
        /\ at[p] \in {"save", "truncate", "write", "rename"}
        /\ at'[p] = "started" /\ cache'[p] = {}
    BY <1>0, <1>11, ForgetOf DEF Rename, SaveFails, Go, TuningTypeOK
  <2>2. Trusted(key[p], chosen[p]) /\ key[p] \in Keys
    BY <1>0, <2>1 DEF ProcessInv
  <2>3. Trusted(key[p], chosen[p])'
    BY <1>1, <2>1, <2>2 DEF Trusted, LooksAtLegacy
  <2> QED BY <1>3, <2>1, <2>2, <2>3 DEF ProcessInv
<1> QED
  BY <1>4, <1>5, <1>6, <1>7, <1>8, <1>9, <1>10, <1>11
     DEF ProcessStep, TuneFails, Die
(* The cache changes only by a rename, of a file that is whole.            *)
LEMMA FileChanges ==
  ASSUME TuningInv, NEW p \in Processes, ProcessStep(p)
  PROVE  \/ file' = file
         \/ Rename(p) /\ file' = cache[p] /\ file' # None
<1>1. CASE Rename(p)
  <2>1. file' = temp[p] /\ at[p] = "rename"
    BY <1>1 DEF Rename
  <2>2. ProcessInv(p) /\ cache[p] \in SUBSET Entries
    BY InParts DEF TuningTypeOK
  <2>3. temp[p] = cache[p]
    BY <2>1, <2>2 DEF ProcessInv
  <2> QED BY <1>1, <2>1, <2>2, <2>3, Readable
<1>2. CASE ~Rename(p)
  BY <1>2 DEF ProcessStep, StartBackend, Off, ReadCache, Tune, TuneFails,
              ReadAgain, Truncate, Write, SaveFails, Die, files
<1> QED BY <1>1, <1>2

LEMMA StepKeepsTuning ==
  TuningInv /\ [Next]_vars => TuningInv'
<1> SUFFICES ASSUME TuningInv, [Next]_vars PROVE TuningInv'
  OBVIOUS
<1>0. /\ TuningTypeOK
      /\ \A f \in {file, disk} : TrustedEntries(f) /\ OneEntryPerKey(f)
      /\ \A p \in Processes : ProcessInv(p)
  BY InParts
<1>1. /\ TuningTypeOK'
      /\ TrustedEntries(file)' /\ OneEntryPerKey(file)'
      /\ TrustedEntries(disk)' /\ OneEntryPerKey(disk)'
      /\ \A p \in Processes : ProcessInv(p)'
      => TuningInv'
  BY DEF TuningInv, CacheInv, SaveInv, StartedKernelsWork, ProcessInv
<1>2. ASSUME NEW p \in Processes, ProcessStep(p)
      PROVE  TuningInv'
  <2>1. Touches(p) /\ ProcessInv(p)'
    BY <1>2, StepTouches, StepKeepsItsOwn
  <2>2. ASSUME NEW q \in Processes \ {p} PROVE ProcessInv(q)'
    BY <1>0, <2>1, StandingProcess DEF Touches
  <2>3. TrustedEntries(file)' /\ OneEntryPerKey(file)'
    <3>1. PICK f : /\ f = file' /\ TrustedEntries(f) /\ OneEntryPerKey(f)
      BY <1>0, <1>2, FileChanges DEF ProcessInv
    <3> QED
      BY <2>1, <3>1 DEF Touches, TrustedEntries, OneEntryPerKey, Parsed,
                        Trusted, LooksAtLegacy
  <2>4. TrustedEntries(disk)' /\ OneEntryPerKey(disk)'
    BY <1>0, <1>2, <2>1, DiskStands
       DEF Touches, TrustedEntries, OneEntryPerKey, Parsed, Trusted,
           LooksAtLegacy
  <2> QED BY <1>1, <2>1, <2>2, <2>3, <2>4 DEF Touches
<1>3. CASE PowerFailure
  <2>1. /\ End(Processes) /\ file' \in {disk, None} /\ disk' = file'
        /\ UNCHANGED <<api, temp, starts>> /\ failures' = failures + 1
    BY <1>3 DEF PowerFailure
  <2>2. TuningTypeOK'
    BY <1>0, <2>1, EndOf DEF TuningTypeOK, Contents
  <2>3. \A q \in Processes : ProcessInv(q)'
    BY <1>0, <2>1, EndOf, EndedProcess
  <2>4. TrustedEntries(file)' /\ OneEntryPerKey(file)'
    BY <1>0, <2>1 DEF TrustedEntries, OneEntryPerKey, Parsed, Trusted,
                      LooksAtLegacy
  <2>5. TrustedEntries(disk)' /\ OneEntryPerKey(disk)'
    BY <2>1, <2>4
  <2> QED BY <1>1, <2>2, <2>3, <2>4, <2>5
<1>4. CASE ReachDisk \/ UNCHANGED vars
  <2>1. /\ UNCHANGED <<api, file, temp, at, key, mode, chosen, cache, seen,
                       starts, failures>>
        /\ disk' \in {file, disk}
    BY <1>4 DEF ReachDisk, vars, files, memory, bounds
  <2>2. TuningTypeOK'
    BY <1>0, <2>1 DEF TuningTypeOK
  <2>3. \A q \in Processes : ProcessInv(q)'
    BY <1>0, <2>1, StandingProcess
  <2>4. TrustedEntries(file)' /\ OneEntryPerKey(file)'
    BY <1>0, <2>1 DEF TrustedEntries, OneEntryPerKey, Parsed, Trusted,
                      LooksAtLegacy
  <2>5. TrustedEntries(disk)' /\ OneEntryPerKey(disk)'
    <3>1. PICK f : f = disk' /\ TrustedEntries(f) /\ OneEntryPerKey(f)
      BY <1>0, <2>1
    <3> QED BY <2>1, <3>1 DEF TrustedEntries, OneEntryPerKey, Parsed, Trusted,
                              LooksAtLegacy
  <2> QED BY <1>1, <2>2, <2>3, <2>4, <2>5
<1> QED BY <1>2, <1>3, <1>4 DEF Next, Terminated
----------------------------------------------------------------------------
(* CacheInv, with what a process at work has in memory.                    *)
THEOREM TuningCorrect == Spec => []TuningInv
BY TuningInit, StepKeepsTuning, PTL DEF Spec

(* CacheInv: entries are trusted and unique, what replaces them whole.     *)
THEOREM CacheCorrect == Spec => []CacheInv
<1>1. TuningInv => CacheInv
  BY DEF TuningInv
<1> QED BY <1>1, TuningCorrect, PTL

(* StartedKernelsWork: a backend mines with a kernel that was validated on *)
(* its device, by whichever process, except Metal's legacy one.            *)
THEOREM KernelsWork == Spec => []StartedKernelsWork
<1>1. TuningInv => StartedKernelsWork
  BY DEF TuningInv
<1> QED BY <1>1, TuningCorrect, PTL

(* CacheStaysReadable: only a power failure can cost a readable cache.     *)
THEOREM CacheStays == Spec => CacheStaysReadable
<1>1. TuningInv /\ [Next]_vars =>
        [file # None /\ file' = None => failures' # failures]_vars
  <2> SUFFICES ASSUME TuningInv, Next, file # None, file' = None
               PROVE  failures' # failures
    OBVIOUS
  <2>1. ASSUME NEW p \in Processes, ProcessStep(p) PROVE FALSE
    BY <2>1, FileChanges
  <2>2. CASE PowerFailure
    <3>1. failures \in Nat /\ failures' = failures + 1
      BY <2>2, InParts DEF PowerFailure, TuningTypeOK
    <3> QED BY <3>1
  <2>3. CASE ReachDisk \/ Terminated
    BY <2>3 DEF ReachDisk, Terminated, vars, files
  <2> QED BY <2>1, <2>2, <2>3 DEF Next
<1> QED BY <1>1, TuningCorrect, PTL DEF Spec, CacheStaysReadable

(* SavesAreUpdates: what a save does to its own key and to the others.     *)
Saves(p) ==
  at[p] = "rename" /\ at'[p] = "started" /\ file' # file =>
    /\ Lookup(file', key[p]) = chosen[p]
    /\ Parsed(file) = seen[p] =>
         \A k \in Keys \ {key[p]} : Lookup(file', k) = Lookup(file, k)

LEMMA RenameSaves ==
  ASSUME TuningInv, NEW p \in Processes, Rename(p), file' = cache[p]
  PROVE  Saves(p)
<1>1. /\ TuningTypeOK /\ ProcessInv(p) /\ at[p] = "rename"
      /\ OneEntryPerKey(file)
  BY InParts DEF Rename
<1>2. /\ cache[p] = Updated(seen[p], key[p], chosen[p])
      /\ key[p] \in Keys /\ Trusted(key[p], chosen[p])
      /\ OneEntryPerKey(cache[p])
  BY <1>1 DEF ProcessInv
<1>3. /\ chosen[p] \in Selections /\ seen[p] \in SUBSET Entries
      /\ file \in Contents
  BY <1>1, <1>2, TuningAssumption DEF Trusted, TuningTypeOK, Keys
<1>4. Entry(key[p], chosen[p]) \in Parsed(cache[p])
  <2>1. cache[p] \in SUBSET Entries
    BY <1>1 DEF TuningTypeOK
  <2> QED BY <1>2, <2>1, Readable DEF Updated
<1>5. Lookup(cache[p], key[p]) = chosen[p]
  <2>1. /\ Entry(key[p], chosen[p]).key = key[p]
        /\ Entry(key[p], chosen[p]).selection = chosen[p]
    BY DEF Entry
  <2> QED BY <1>2, <1>4, <2>1, LookupFinds
<1>6. ASSUME Parsed(file) = seen[p], NEW k \in Keys \ {key[p]}
      PROVE  Lookup(cache[p], k) = Lookup(file, k)
  <2>1. cache[p] = Updated(file, key[p], chosen[p])
    <3>1. Parsed(seen[p]) = seen[p]
      BY <1>3, Readable
    <3> QED BY <1>2, <1>6, <3>1 DEF Updated
  <2> QED BY <1>1, <1>2, <1>3, <2>1, UpdatedLookup
<1> QED BY <1>5, <1>6 DEF Saves

THEOREM SavesUpdate == Spec => SavesAreUpdates
<1>1. TuningInv /\ [Next]_vars => [\A p \in Processes : Saves(p)]_vars
  <2> SUFFICES ASSUME TuningInv, Next, NEW p \in Processes PROVE Saves(p)
    OBVIOUS
  <2>1. ASSUME NEW q \in Processes, ProcessStep(q) PROVE Saves(p)
    <3>1. CASE file' = file
      BY <3>1 DEF Saves
    <3>2. CASE Rename(q) /\ file' = cache[q]
      <4>1. CASE q = p
        BY <3>2, <4>1, RenameSaves
      <4>2. CASE q # p
        <5>1. at'[p] = at[p]
          BY <2>1, <4>2, StepTouches DEF Touches
        <5> QED BY <5>1 DEF Saves
      <4> QED BY <4>1, <4>2
    <3> QED BY <2>1, <3>1, <3>2, FileChanges
  <2>2. CASE PowerFailure
    <3>1. at'[p] = "idle"
      BY <2>2, InParts, EndOf DEF PowerFailure
    <3> QED BY <3>1 DEF Saves
  <2>3. CASE ReachDisk \/ Terminated
    BY <2>3 DEF ReachDisk, Terminated, vars, files, Saves
  <2> QED BY <2>1, <2>2, <2>3 DEF Next
<1> QED BY <1>1, TuningCorrect, PTL DEF Spec, SavesAreUpdates, Saves
=============================================================================
