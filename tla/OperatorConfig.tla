--------------------------- MODULE OperatorConfig ---------------------------
(***************************************************************************)
(* The JustInTimeConfig controller: it follows the configuration object    *)
(* through the informer's cache, compiles the name pattern into a global   *)
(* and writes the file that reconciles and webhooks read, one lock between *)
(* them.  The object is read anew by every getter, the file is truncated   *)
(* before it is written, and the pattern is not under the lock.            *)
(***************************************************************************)
EXTENDS Naturals, Sequences

CONSTANTS
  Configs,    \* the versions the JustInTimeConfig takes; a deletion makes the defaults one
  Getters,    \* how many fields SaveConfigToFile reads, the allowed roles first
  Readers,    \* the goroutines that read the file: the JitRequest worker, reviews
  MaxFaults   \* bound of the model: how many failures and crashes a behaviour has

VARIABLES
  config,   \* the version the API server holds
  cached,   \* the version the informer's cache holds
  queued,   \* the object's name is in the work queue
  pc,       \* where the controller's worker is
  values,   \* the versions that the getters of SaveConfigToFile have read so far
  disk,     \* the versions of the fields in the file, <<>> when missing or not JSON
  pattern,  \* the version whose expression NamespaceAllowedRegex holds, 0 for nil
  inside,   \* the readers that hold ConfigLock
  got,      \* got[r]: the content r has read, <<>> for an error
  faults    \* faults[k]: faults of kind k left

readerVars == <<inside, got>>
vars == <<config, cached, queued, pc, values, disk, pattern, inside, got, faults>>

Expression(v) == Configs[v].expression

FaultKinds == {"failure", "crash"}

ASSUME OperatorConfigAssumption ==
  /\ Len(Configs) \in Nat \ {0}
  /\ \A v \in 1..Len(Configs) : Expression(v) \in {"valid", "invalid", "none"}
  /\ Getters \in Nat \ {0} /\ MaxFaults \in [FaultKinds -> Nat]

Whole(v) == [g \in 1..Getters |-> v]

-----------------------------------------------------------------------------
(* The object and the informer.                                              *)

Publish ==
  /\ config < Len(Configs)
  /\ config' = config + 1
  /\ UNCHANGED <<cached, queued, pc, values, disk, pattern, readerVars, faults>>

\* Slip: an event that comes while a reconcile runs is dropped.
DeliverIfIdle ==
  /\ cached < config
  /\ cached' \in (cached + 1)..config
  /\ queued' = (queued \/ pc = "idle")
  /\ UNCHANGED <<config, pc, values, disk, pattern, readerVars, faults>>

\* A watch event, or a list that skips versions; ResourceVersionChangedPredicate lets
\* both pass.  A replica that does not lead has no queue yet.
Deliver ==
  /\ cached < config
  /\ cached' \in (cached + 1)..config
  /\ queued' = (pc # "standby")
  /\ UNCHANGED <<config, pc, values, disk, pattern, readerVars, faults>>

\* Controllers start when the replica becomes the leader, with an event for every object
\* in the cache; webhooks are served before.
Lead ==
  /\ pc = "standby"
  /\ pc' = "idle" /\ queued' = TRUE
  /\ UNCHANGED <<config, cached, values, disk, pattern, readerVars, faults>>

-----------------------------------------------------------------------------
(* Reconcile.                                                                *)

\* return ctrl.Result{}, err
Requeue == pc' = "idle" /\ queued' = TRUE

Start ==
  /\ pc = "idle" /\ queued
  /\ pc' = "compile" /\ queued' = FALSE
  /\ UNCHANGED <<config, cached, values, disk, pattern, readerVars, faults>>

\* Slip: := declares a local NamespaceAllowedRegex beside the global one.
CompileShadowed ==
  /\ pc = "compile"
  /\ IF Expression(cached) = "invalid" THEN Requeue ELSE pc' = "lock" /\ UNCHANGED queued
  /\ UNCHANGED <<config, cached, values, disk, pattern, readerVars, faults>>

\* Slip: the error of regexp.Compile is logged and not returned.
CompileRegardless ==
  /\ pc = "compile"
  /\ pattern' = CASE Expression(cached) = "valid"   -> cached
                  [] Expression(cached) = "invalid" -> 0
                  [] OTHER                        -> pattern
  /\ pc' = "lock"
  /\ UNCHANGED <<config, cached, queued, values, disk, readerVars, faults>>

\* regexp.Compile's result is assigned before its error is looked at; without an
\* expression the pattern stays.  Then SaveConfigToFile calls ConfigLock.Lock.
Compile ==
  /\ pc = "compile"
  /\ \/ /\ Expression(cached) # "invalid"
        /\ pattern' = IF Expression(cached) = "valid" THEN cached ELSE pattern
        /\ pc' = "lock" /\ UNCHANGED queued
     \/ Expression(cached) = "invalid" /\ pattern' = 0 /\ Requeue
  /\ UNCHANGED <<config, cached, values, disk, readerVars, faults>>

\* ConfigLock.Lock returns once the readers are out.
Lock ==
  /\ pc = "lock" /\ inside = {}
  /\ pc' = "read"
  /\ UNCHANGED <<config, cached, queued, values, disk, pattern, readerVars, faults>>

\* Slip: the last field is left out.
GetAllButLast ==
  /\ pc = "read"
  /\ values' = Append(values, cached)
  /\ pc' = IF Len(values) + 2 >= Getters THEN "create" ELSE "read"
  /\ UNCHANGED <<config, cached, queued, disk, pattern, readerVars, faults>>

\* One getter of the configuration client: it reads the object from the cache again.
Get ==
  /\ pc = "read"
  /\ values' = Append(values, cached)
  /\ pc' = IF Len(values) + 1 = Getters THEN "create" ELSE "read"
  /\ UNCHANGED <<config, cached, queued, disk, pattern, readerVars, faults>>

\* os.Create truncates the file.
Create ==
  /\ pc = "create"
  /\ disk' = <<>> /\ pc' = "write"
  /\ UNCHANGED <<config, cached, queued, values, pattern, readerVars, faults>>

\* file.Write, and the lock is released.
WriteFile ==
  /\ pc = "write"
  /\ disk' = values /\ values' = <<>> /\ pc' = "idle"
  /\ UNCHANGED <<config, cached, queued, pattern, readerVars, faults>>

Reconcile == Start \/ Compile \/ Lock \/ Get \/ Create \/ WriteFile

-----------------------------------------------------------------------------
(* ReadConfigFromFile.                                                       *)

\* Slip: the reader does not wait for a writer.
RLockAtOnce(r) ==
  /\ r \notin inside
  /\ inside' = inside \union {r}
  /\ UNCHANGED <<config, cached, queued, pc, values, disk, pattern, got, faults>>

\* A writer that waits or writes keeps new readers out.
RLock(r) ==
  /\ r \notin inside
  /\ pc \notin {"lock", "read", "create", "write"}
  /\ inside' = inside \union {r}
  /\ UNCHANGED <<config, cached, queued, pc, values, disk, pattern, got, faults>>

\* Slip: the lock is released by hand, after the file was read and parsed.
ReadWithoutDefer(r) ==
  /\ r \in inside
  /\ got' = [got EXCEPT ![r] = disk]
  /\ inside' = IF disk = <<>> THEN inside ELSE inside \ {r}
  /\ UNCHANGED <<config, cached, queued, pc, values, disk, pattern, faults>>

\* os.ReadFile and json.Unmarshal, and the lock is released.
ReadConfigFromFile(r) ==
  /\ r \in inside
  /\ got' = [got EXCEPT ![r] = disk]
  /\ inside' = inside \ {r}
  /\ UNCHANGED <<config, cached, queued, pc, values, disk, pattern, faults>>

-----------------------------------------------------------------------------
(* Faults.                                                                   *)

Fault(kind) == faults[kind] > 0 /\ faults' = [faults EXCEPT ![kind] = @ - 1]

\* Slip: an error returns without the unlock, as if somebody never left.
FailLocked ==
  /\ Fault("failure")
  /\ pc \in {"read", "create", "write"}
  /\ values' = <<>> /\ pc' = "lock" /\ inside' = inside \union {"nobody"}
  /\ UNCHANGED <<config, cached, queued, disk, pattern, got>>

\* A getter panics, or the directory, the file or the write fails; what was truncated
\* stays so, the deferred unlock runs and the name is queued again.
Fail ==
  /\ Fault("failure")
  /\ pc \in {"compile", "lock", "read", "create", "write"}
  /\ values' = <<>> /\ Requeue
  /\ UNCHANGED <<config, cached, disk, pattern, readerVars>>

\* The process ends and starts again, its cache with a list.  The file is on a volume
\* that a restart of the container keeps and a restart of the pod does not.
Crash ==
  /\ Fault("crash")
  /\ pc' = "standby" /\ queued' = FALSE /\ cached' = config
  /\ values' = <<>> /\ pattern' = 0 /\ disk' \in {disk, <<>>}
  /\ inside' = {} /\ got' = [r \in Readers |-> <<>>]
  /\ UNCHANGED config

-----------------------------------------------------------------------------
Init ==
  /\ config = 1 /\ cached = 1 /\ queued = FALSE /\ pc = "standby"
  /\ values = <<>> /\ disk = <<>> /\ pattern = 0
  /\ inside = {} /\ got = [r \in Readers |-> <<>>]
  /\ faults = MaxFaults

\* The configuration's own steps.
ConfigNext == Publish \/ Deliver \/ Lead \/ Reconcile \/ Fail

Next == ConfigNext \/ Crash \/ \E r \in Readers : RLock(r) \/ ReadConfigFromFile(r)

Spec == Init /\ [][Next]_vars

\* The informer, the leader election and the worker run for as long as the process does,
\* and nobody keeps the read lock.  No version has to be published, nobody has to read.
Fairness ==
  /\ WF_vars(Deliver) /\ WF_vars(Lead) /\ WF_vars(Reconcile)
  /\ \A r \in Readers : WF_vars(ReadConfigFromFile(r))

FairSpec == Spec /\ Fairness

-----------------------------------------------------------------------------
(* What the controller has to guarantee.                                     *)

\* Every variable has its type, the cache is never ahead of the server, and a file that
\* can be read has every field.
TypeOK ==
  /\ config \in 1..Len(Configs) /\ cached \in 1..config
  /\ queued \in BOOLEAN
  /\ pc \in {"standby", "idle", "compile", "lock", "read", "create", "write"}
  /\ values \in Seq(1..cached)
  /\ Len(values) \in CASE pc = "read"              -> 0..Getters - 1
                       [] pc \in {"create", "write"} -> {Getters}
                       [] OTHER                      -> {0}
  /\ disk \in Seq(1..cached) /\ Len(disk) \in {0, Getters}
  /\ pattern \in 0..cached
  /\ inside \subseteq Readers
  /\ got \in [Readers -> Seq(1..cached)]
  /\ \A r \in Readers : Len(got[r]) \in {0, Getters}
  /\ faults \in [FaultKinds -> Nat] /\ \A k \in FaultKinds : faults[k] <= MaxFaults[k]

\* The content of the file as its readers are to see it: replaced in one step.
Register == IF pc = "write" THEN values ELSE disk

\* A reader never sees a file that is being written: what it gets is what the last save
\* left, although the file is empty for a while (SaveConfigToFile, lines 144-156).
ReadReturnsFile ==
  [][\A r \in Readers : r \in inside /\ r \notin inside' /\ UNCHANGED faults
                        => got'[r] = Register]_vars

\* When nothing is left to do the file is that of one version, the one in the cache, and
\* so is the pattern if that version has an expression, although the getters read the
\* object one by one and saves fail (Reconcile): nothing done early goes without a retry.
SettledIsCurrent ==
  pc = "idle" /\ ~queued =>
    /\ disk = Whole(cached)
    /\ Expression(cached) # "none" => pattern = cached /\ Expression(cached) = "valid"

JC == INSTANCE JitConfig WITH file <- IF Register = <<>> THEN 0 ELSE Register[1]

\* The controller keeps the promise the rest of the operator builds on.
ImplementsJitConfig == JC!JitConfigSpec

\* The file catches up with the object and stays so, unless its expression is invalid.
FileCatchesUp == <>[](Expression(config) # "invalid" => disk = Whole(config))
=============================================================================
