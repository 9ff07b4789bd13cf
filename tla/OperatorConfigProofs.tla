------------------------ MODULE OperatorConfigProofs ------------------------
(***************************************************************************)
(* What holds of the configuration controller for every sequence of        *)
(* versions, every number of fields and of readers, and every bound on     *)
(* faults.                                                                 *)
(***************************************************************************)
EXTENDS OperatorConfig, TLAPS

\* The controller's worker is in SaveConfigToFile, with or without the lock.
Saving == {"lock", "read", "create", "write"}

\* The pattern is the one version v asks for, if it asks for one.
PatternFits(v) == Expression(v) # "none" => pattern = v /\ Expression(v) = "valid"

\* The write lock keeps the readers out, and while the file is empty under it nobody can
\* tell: its content is what the worker is about to write.
Exclusive ==
  /\ pc \in {"read", "create", "write"} => inside = {}
  /\ pc = "write" => disk = <<>>

\* As long as no event waits, everything read since the last one is of one version.
Current ==
  ~queued =>
    /\ pc \in Saving => /\ PatternFits(cached)
                        /\ \A g \in 1..Len(values) : values[g] = cached
    /\ pc = "idle" => disk = Whole(cached) /\ PatternFits(cached)

\* An expression was dealt with before the first field was read, and the file is older.
Ordered ==
  /\ pc \in Saving =>
       \E u \in 1..cached :
         /\ pattern <= u
         /\ Expression(u) = "none" \/ (Expression(u) = "valid" /\ pattern = u)
         /\ values # <<>> => u <= values[1]
  /\ values # <<>> /\ disk # <<>> => disk[1] <= values[1]

Inductive == TypeOK /\ Exclusive /\ Current /\ Ordered

-----------------------------------------------------------------------------
\* Versions that exist go on existing.
LEMMA SeqWidens ==
  ASSUME NEW a \in Nat, NEW b \in Nat, a <= b, NEW s \in Seq(1..a)
  PROVE  s \in Seq(1..b)
<1>1. Len(s) \in Nat /\ \A i \in 1..Len(s) : s[i] \in 1..b
  OBVIOUS
<1> QED
  BY <1>1

LEMMA ElementOf ==
  ASSUME NEW S, NEW s \in Seq(S), NEW i \in 1..Len(s)  PROVE s[i] \in S
OBVIOUS

FaultsOK == faults \in [FaultKinds -> Nat] /\ \A k \in FaultKinds : faults[k] <= MaxFaults[k]

\* A fault is spent and never given back.
LEMMA FaultsFall ==
  ASSUME FaultsOK, NEW kind \in FaultKinds, Fault(kind)
  PROVE  FaultsOK' /\ faults' # faults /\ faults'[kind] < faults[kind]
<1>1. /\ MaxFaults \in [FaultKinds -> Nat] /\ faults \in [FaultKinds -> Nat]
      /\ \A k \in FaultKinds : faults[k] <= MaxFaults[k]
  BY OperatorConfigAssumption DEF FaultsOK
<1>2. faults' = [faults EXCEPT ![kind] = @ - 1] /\ faults[kind] > 0
  BY DEF Fault
<1>3. faults'[kind] = faults[kind] - 1 /\ faults' \in [FaultKinds -> Nat]
  BY <1>1, <1>2
<1>4. \A k \in FaultKinds : faults'[k] <= MaxFaults[k]
  BY <1>1, <1>2, <1>3
<1> QED
  BY <1>1, <1>2, <1>3, <1>4 DEF FaultsOK

\* Every variable keeps its type.
LEMMA TypeStep ==
  ASSUME TypeOK, [Next]_vars  PROVE TypeOK'
<1> USE OperatorConfigAssumption
<1>1. /\ config \in Nat /\ cached \in 1..config /\ config \in 1..Len(Configs)
      /\ Len(values) \in Nat
  BY DEF TypeOK
<1>2. CASE Publish
  <2>1. config' \in 1..Len(Configs) /\ cached \in 1..config'
    BY <1>1, <1>2 DEF Publish
  <2>2. UNCHANGED <<cached, queued, pc, values, disk, pattern, inside, got, faults>>
    BY <1>2 DEF Publish, readerVars
  <2> QED
    BY <2>1, <2>2 DEF TypeOK
<1>3. CASE Deliver
  <2>1. cached' \in 1..config /\ cached <= cached' /\ cached \in Nat /\ cached' \in Nat
    BY <1>1, <1>3 DEF Deliver
  <2>2. \A s \in Seq(1..cached) : s \in Seq(1..cached')
    BY <2>1, SeqWidens
  <2> QED
    BY <1>1, <1>3, <2>1, <2>2 DEF TypeOK, Deliver, readerVars
<1>4. CASE Lead
  BY <1>1, <1>4 DEF TypeOK, Lead, readerVars
<1>5. CASE Start \/ Compile \/ Lock \/ Create
  <2>1. CASE Start
    BY <1>1, <2>1 DEF TypeOK, Start, readerVars
  <2>2. CASE Compile
    <3>1. pattern' \in 0..cached /\ pc' \in {"lock", "idle"}
      BY <1>1, <2>2 DEF TypeOK, Compile, Requeue
    <3>2. queued' \in BOOLEAN
      BY <2>2, Zenon DEF TypeOK, Compile, Requeue
    <3>3. Len(values) = 0 /\ UNCHANGED <<config, cached, values, disk, inside, got, faults>>
      BY <2>2 DEF TypeOK, Compile, readerVars
    <3> QED
      BY <3>1, <3>3, <3>2 DEF TypeOK
  <2>3. CASE Lock
    BY <1>1, <2>3 DEF TypeOK, Lock, readerVars
  <2>4. CASE Create
    BY <1>1, <2>4 DEF TypeOK, Create, readerVars
  <2> QED
    BY <1>5, <2>1, <2>2, <2>3, <2>4
<1>6. CASE Get
  <2>1. /\ values' \in Seq(1..cached) /\ Len(values') = Len(values) + 1
        /\ Len(values) \in 0..Getters - 1
    BY <1>1, <1>6 DEF TypeOK, Get
  <2>2. Len(values') \in CASE pc' = "read"              -> 0..Getters - 1
                           [] pc' \in {"create", "write"} -> {Getters}
                           [] OTHER                      -> {0}
    BY <1>1, <1>6, <2>1 DEF Get
  <2> QED
    BY <1>6, <2>1, <2>2 DEF TypeOK, Get, readerVars
<1>7. CASE WriteFile
  BY <1>1, <1>7 DEF TypeOK, WriteFile, readerVars
<1>8. CASE Fail
  <2>1. FaultsOK'
    BY <1>8, FaultsFall DEF Fail, TypeOK, FaultsOK, FaultKinds
  <2> QED
    BY <1>1, <1>8, <2>1 DEF TypeOK, FaultsOK, Fail, Requeue, readerVars
<1>9. CASE Crash
  <2>1. \A s \in Seq(1..cached) : s \in Seq(1..config)
    BY <1>1, SeqWidens
  <2>2. disk' \in Seq(1..config) /\ Len(disk') \in {0, Getters}
    <3>1. CASE disk' = disk
      BY <2>1, <3>1 DEF TypeOK
    <3>2. CASE disk' = <<>>
      BY <3>2
    <3> QED
      BY <1>9, <3>1, <3>2 DEF Crash
  <2>3. got' \in [Readers -> Seq(1..config)] /\ \A r \in Readers : Len(got'[r]) = 0
    BY <1>9 DEF Crash
  <2>4. config' = config /\ cached' = config /\ queued' \in BOOLEAN /\ inside' = {}
    BY <1>9, Zenon DEF Crash
  <2>5. pc' = "standby" /\ pattern' = 0 /\ values' = <<>>
    BY <1>9 DEF Crash
  <2>6. FaultsOK'
    BY <1>9, FaultsFall DEF Crash, TypeOK, FaultsOK, FaultKinds
  <2> QED
    BY <1>1, <2>2, <2>3, <2>4, <2>5, <2>6 DEF TypeOK, FaultsOK
<1>10. ASSUME NEW r \in Readers, RLock(r) \/ ReadConfigFromFile(r)  PROVE TypeOK'
  BY <1>1, <1>10 DEF TypeOK, RLock, ReadConfigFromFile
<1>11. CASE UNCHANGED vars
  BY <1>11 DEF TypeOK, vars
<1> QED
  BY <1>2, <1>3, <1>4, <1>5, <1>6, <1>7, <1>8, <1>9, <1>10, <1>11
     DEF Next, ConfigNext, Reconcile

\* The lock keeps writer and readers apart.
LEMMA ExclusiveStep ==
  ASSUME TypeOK, Exclusive, [Next]_vars  PROVE Exclusive'
<1>1. CASE ConfigNext \/ Crash \/ UNCHANGED vars
  BY <1>1
     DEF Exclusive, ConfigNext, Publish, Deliver, Lead, Reconcile, Start, Compile, Lock, Get,
         Create, WriteFile, Fail, Crash, Requeue, readerVars, vars
<1>2. ASSUME NEW r \in Readers, RLock(r) \/ ReadConfigFromFile(r)  PROVE Exclusive'
  BY <1>2 DEF Exclusive, RLock, ReadConfigFromFile
<1> QED
  BY <1>1, <1>2 DEF Next

\* Whatever is read before an event comes is of the version in the cache.
LEMMA CurrentStep ==
  ASSUME TypeOK, Current, [Next]_vars  PROVE Current'
<1> USE OperatorConfigAssumption
<1>1. /\ cached \in 1..Len(Configs) /\ values \in Seq(1..cached) /\ Getters \in Nat
  BY DEF TypeOK
<1>2. CASE Publish \/ UNCHANGED vars
  BY <1>2 DEF Current, PatternFits, Publish, readerVars, vars
<1>3. CASE Deliver \/ Lead \/ Fail
  BY <1>3 DEF TypeOK, Current, Deliver, Lead, Fail, Requeue, Saving
<1>4. CASE Start \/ Lock
  BY <1>4 DEF Current, PatternFits, Start, Lock, Saving
<1>5. CASE Compile
  <2>1. values = <<>>
    BY <1>5 DEF TypeOK, Compile
  <2> QED
    BY <1>1, <1>5, <2>1 DEF Current, PatternFits, Compile, Requeue, Saving
<1>6. CASE Get
  <2>1. \A g \in 1..Len(values') :
          values'[g] = IF g = Len(values) + 1 THEN cached ELSE values[g]
    BY <1>1, <1>6 DEF Get
  <2> QED
    BY <1>1, <1>6, <2>1 DEF Current, PatternFits, Get, Saving
<1>7. CASE Create
  BY <1>7 DEF Current, PatternFits, Create, Saving
<1>8. CASE WriteFile
  <2>1. Len(values) = Getters
    BY <1>8 DEF TypeOK, WriteFile
  <2>2. ~queued => values = Whole(cached)
    BY <1>1, <1>8, <2>1 DEF Current, WriteFile, Saving, Whole
  <2> QED
    BY <1>8, <2>2 DEF Current, PatternFits, WriteFile, Saving
<1>9. CASE Crash
  BY <1>9 DEF Current, Crash, Saving
<1>10. ASSUME NEW r \in Readers, RLock(r) \/ ReadConfigFromFile(r)  PROVE Current'
  BY <1>10 DEF Current, PatternFits, RLock, ReadConfigFromFile
<1> QED
  BY <1>2, <1>3, <1>4, <1>5, <1>6, <1>7, <1>8, <1>9, <1>10 DEF Next, ConfigNext, Reconcile

\* The expression comes before the file, and the file never goes back.
LEMMA OrderedStep ==
  ASSUME TypeOK, Exclusive, Ordered, [Next]_vars  PROVE Ordered'
<1> USE OperatorConfigAssumption
<1>1. /\ config \in Nat /\ cached \in 1..config /\ cached \in 1..Len(Configs)
      /\ values \in Seq(1..cached) /\ disk \in Seq(1..cached) /\ pattern \in 0..cached
  BY DEF TypeOK
<1>2. CASE UNCHANGED <<pc, cached, pattern, values, disk>>
  BY <1>2 DEF Ordered
<1>3. CASE Deliver
  <2>1. /\ cached' \in Nat /\ 1..cached \subseteq 1..cached'
        /\ UNCHANGED <<pc, pattern, values, disk>>
    BY <1>1, <1>3 DEF Deliver
  <2> QED
    BY <2>1 DEF Ordered
<1>4. CASE Lead \/ Start \/ Fail \/ Crash
  BY <1>4 DEF TypeOK, Ordered, Lead, Start, Fail, Crash, Requeue, Saving
<1>5. CASE Compile
  <2>1. values = <<>> /\ values' = <<>>
    BY <1>5 DEF TypeOK, Compile
  <2>2. pc' \in Saving => Expression(cached) \in {"valid", "none"} /\ pattern' <= cached
                          /\ (Expression(cached) = "valid" => pattern' = cached)
    BY <1>1, <1>5 DEF Compile, Requeue, Saving
  <2> QED
    BY <1>1, <1>5, <2>1, <2>2 DEF Ordered, Compile
<1>6. CASE Lock \/ Create
  BY <1>6 DEF Ordered, Lock, Create, Saving
<1>7. CASE Get
  <2>1. values' # <<>> /\ values'[1] = IF values = <<>> THEN cached ELSE values[1]
    BY <1>1, <1>7 DEF Get
  <2>2. disk # <<>> => disk[1] <= cached
    BY <1>1
  <2>3. pc \in Saving /\ UNCHANGED <<pattern, cached, disk>>
    BY <1>7 DEF Get, Saving
  <2>4. PICK u \in 1..cached :
          /\ pattern <= u
          /\ Expression(u) = "none" \/ (Expression(u) = "valid" /\ pattern = u)
          /\ values # <<>> => u <= values[1]
    BY <2>3 DEF Ordered
  <2>5. u <= values'[1]
    BY <1>1, <2>1, <2>4
  <2> QED
    BY <2>1, <2>2, <2>3, <2>4, <2>5 DEF Ordered
<1>8. CASE WriteFile
  BY <1>8 DEF Ordered, WriteFile, Saving
<1> QED
  BY <1>2, <1>3, <1>4, <1>5, <1>6, <1>7, <1>8
     DEF Next, ConfigNext, Reconcile, Publish, RLock, ReadConfigFromFile, vars

\* Nothing is read, written or compiled at the start.
LEMMA InductiveInit ==
  ASSUME Init  PROVE Inductive
<1> USE OperatorConfigAssumption
<1>1. TypeOK
  <2>1. <<>> \in Seq(1..1) /\ Len(<<>>) = 0
    OBVIOUS
  <2>2. got \in [Readers -> Seq(1..1)] /\ \A r \in Readers : Len(got[r]) = 0
    BY <2>1 DEF Init
  <2>3. config = 1 /\ cached = 1 /\ pc = "standby" /\ pattern = 0 /\ queued \in BOOLEAN
    BY Zenon DEF Init
  <2>4. values = <<>> /\ disk = <<>> /\ inside = {} /\ faults = MaxFaults
    BY DEF Init
  <2> QED
    BY <2>1, <2>2, <2>3, <2>4 DEF TypeOK
<1>2. Exclusive /\ Current /\ Ordered
  BY DEF Init, Exclusive, Current, Ordered, Saving
<1> QED
  BY <1>1, <1>2 DEF Inductive

LEMMA InductiveStep ==
  ASSUME Inductive, [Next]_vars  PROVE Inductive'
BY TypeStep, ExclusiveStep, CurrentStep, OrderedStep DEF Inductive

\* Types, exclusion, currency and order hold in every state, whatever fails.
THEOREM ConfigInvariant == Spec => []Inductive
BY InductiveInit, InductiveStep, PTL DEF Spec

\* Type correctness, for any versions, fields and readers.
THEOREM ConfigTypeCorrect == Spec => []TypeOK
BY ConfigInvariant, PTL DEF Inductive

\* When the work queue is empty and the worker idle, file and pattern are those of the
\* version in the cache: an event during a save, a failed save and a crash all lead to
\* another run (Reconcile).
THEOREM SettledConfigIsCurrent == Spec => []SettledIsCurrent
<1>1. Inductive => SettledIsCurrent
  BY DEF Inductive, Current, PatternFits, SettledIsCurrent
<1> QED
  BY <1>1, ConfigInvariant, PTL

\* A read returns what the last save left, never the truncated file (ConfigLock).
THEOREM ReadsAreWhole == Spec => ReadReturnsFile
<1>1. Inductive /\ [Next]_vars =>
        [\A r \in Readers : r \in inside /\ r \notin inside' /\ UNCHANGED faults
                            => got'[r] = Register]_vars
  <2> SUFFICES ASSUME Inductive, [Next]_vars, NEW r \in Readers,
                      r \in inside, r \notin inside', UNCHANGED faults
               PROVE  got'[r] = Register
    OBVIOUS
  <2>1. pc # "write"
    BY DEF Inductive, Exclusive
  <2>2. ~Crash /\ ~UNCHANGED vars /\ ~ConfigNext
    BY FaultsFall
       DEF Inductive, TypeOK, FaultsOK, FaultKinds, Crash, vars, ConfigNext, Publish, Deliver,
           Lead, Reconcile, Start, Compile, Lock, Get, Create, WriteFile, Fail, readerVars
  <2>3. PICK q \in Readers : RLock(q) \/ ReadConfigFromFile(q)
    BY <2>2 DEF Next
  <2>4. ReadConfigFromFile(r)
    BY <2>3 DEF RLock, ReadConfigFromFile
  <2> QED
    BY <2>1, <2>4 DEF ReadConfigFromFile, Register, Inductive, TypeOK
<1> QED
  BY <1>1, ConfigInvariant, PTL DEF Spec, ReadReturnsFile

-----------------------------------------------------------------------------
(* The controller implements JitConfig.                                      *)

\* The version that the promise's file holds.
FileVersion == IF Register = <<>> THEN 0 ELSE Register[1]

Promised == <<config, FileVersion, pattern>>

\* No version in the file is ahead of the cache.
LEMMA FileVersionType ==
  ASSUME TypeOK  PROVE FileVersion \in 0..cached /\ cached \in Nat /\ config \in Nat
<1>1. values \in Seq(1..cached) /\ disk \in Seq(1..cached) /\ cached \in Nat /\ config \in Nat
  BY OperatorConfigAssumption DEF TypeOK
<1> QED
  BY <1>1 DEF FileVersion, Register

\* Every step is one of the promise or leaves what it speaks of as it is.
LEMMA JitConfigStep ==
  ASSUME Inductive, [Next]_vars
  PROVE  JC!JitConfigNext \/ UNCHANGED Promised
<1> USE OperatorConfigAssumption
<1>1. /\ FileVersion \in 0..cached /\ config \in Nat /\ cached \in 1..config
      /\ config \in 1..Len(Configs) /\ pattern \in 0..cached
  BY FileVersionType DEF Inductive, TypeOK
<1>2. CASE Publish
  <2>1. UNCHANGED <<FileVersion, pattern>>
    BY <1>2 DEF Publish, FileVersion, Register
  <2> QED
    BY <1>2, <2>1 DEF Publish, JC!JitConfigNext, JC!Publish, FileVersion
<1>3. CASE Compile
  <2>1. UNCHANGED <<config, FileVersion>>
    BY <1>3 DEF Compile, Requeue, FileVersion, Register
  <2>2. CASE Expression(cached) = "none"
    BY <1>3, <2>1, <2>2 DEF Compile, Promised
  <2>3. CASE Expression(cached) # "none"
    <3>1. \/ Expression(cached) = "valid"   /\ pattern' = cached
          \/ Expression(cached) = "invalid" /\ pattern' = 0
      BY <1>1, <1>3, <2>3 DEF Compile
    <3>2. cached \in 1..config /\ FileVersion <= cached /\ pattern <= cached
      BY <1>1
    <3>3. JC!Compile
      BY <2>1, <3>1, <3>2 DEF JC!Compile, JC!Published, JC!Expression, Expression, FileVersion
    <3> QED
      BY <3>3 DEF JC!JitConfigNext
  <2> QED
    BY <2>2, <2>3
<1>4. CASE Create
  <2>1. values \in Seq(1..cached) /\ disk \in Seq(1..cached) /\ Len(values) = Getters
    BY <1>4 DEF Inductive, TypeOK, Create
  <2>2. values # <<>> /\ values[1] \in 1..cached
    <3>1. 1 \in 1..Len(values)
      BY <2>1
    <3>2. \A i \in 1..Len(values) : values[i] \in 1..cached
      BY <2>1, ElementOf
    <3>3. Len(values) # 0
      BY <3>1
    <3> QED
      BY <3>1, <3>2, <3>3
  <2>3. FileVersion' = values[1] /\ FileVersion = IF disk = <<>> THEN 0 ELSE disk[1]
    BY <1>4, <2>2 DEF Create, FileVersion, Register
  <2>4. FileVersion <= values[1]
    BY <2>1, <2>2, <2>3 DEF Inductive, Ordered
  <2>5. PICK u \in 1..cached :
          /\ pattern <= u
          /\ Expression(u) = "none" \/ (Expression(u) = "valid" /\ pattern = u)
          /\ u <= values[1]
    BY <1>4, <2>2 DEF Inductive, Ordered, Create, Saving
  <2>6. u \in 1..values[1] /\ values[1] \in 1..config
    BY <1>1, <2>2, <2>5
  <2>7. UNCHANGED <<config, pattern>>
    BY <1>4 DEF Create
  <2>8. JC!DealtWith(values[1])
    BY <2>5, <2>6 DEF JC!DealtWith, JC!Expression, Expression
  <2>9. JC!Save
    BY <2>3, <2>4, <2>6, <2>7, <2>8 DEF JC!Save, JC!Published, FileVersion
  <2> QED
    BY <2>9 DEF JC!JitConfigNext
<1>5. CASE WriteFile
  BY <1>5 DEF WriteFile, Promised, FileVersion, Register
<1>6. CASE Fail
  <2>1. UNCHANGED <<config, pattern>>
    BY <1>6 DEF Fail
  <2>2. CASE pc = "write"
    <3>1. FileVersion' = 0
      BY <1>6, <2>2 DEF Fail, Requeue, FileVersion, Register, Inductive, Exclusive
    <3> QED
      BY <2>1, <3>1 DEF JC!JitConfigNext, JC!Lose, FileVersion
  <2>3. CASE pc # "write"
    BY <1>6, <2>1, <2>3 DEF Fail, Requeue, FileVersion, Register, Promised
  <2> QED
    BY <2>2, <2>3
<1>7. CASE Crash
  <2>1. FileVersion' \in {FileVersion, 0}
    BY <1>7 DEF Crash, FileVersion, Register, Inductive, Exclusive
  <2> QED
    BY <1>7, <2>1 DEF Crash, JC!JitConfigNext, JC!StartAgain, FileVersion
<1>8. CASE Deliver \/ Lead \/ Start \/ Lock \/ Get \/ UNCHANGED vars
  BY <1>8 DEF Deliver, Lead, Start, Lock, Get, vars, Promised, FileVersion, Register
<1>9. ASSUME NEW r \in Readers, RLock(r) \/ ReadConfigFromFile(r)  PROVE UNCHANGED Promised
  BY <1>9 DEF RLock, ReadConfigFromFile, Promised, FileVersion, Register
<1> QED
  BY <1>2, <1>3, <1>4, <1>5, <1>6, <1>7, <1>8, <1>9 DEF Next, ConfigNext, Reconcile

\* What the rest of the operator sees of the controller is what JitConfig promises: one
\* write per save, no version before its expression was dealt with, none after a newer.
THEOREM ControllerKeepsConfigPromise == Spec => ImplementsJitConfig
<1>1. Init => JC!JitConfigInit
  BY DEF Init, JC!JitConfigInit, Register
<1>2. Inductive /\ [Next]_vars =>
        [JC!JitConfigNext]_<<config, IF Register = <<>> THEN 0 ELSE Register[1], pattern>>
  BY JitConfigStep DEF Promised, FileVersion
<1> QED
  BY <1>1, <1>2, ConfigInvariant, PTL DEF Spec, ImplementsJitConfig, JC!JitConfigSpec
=============================================================================
