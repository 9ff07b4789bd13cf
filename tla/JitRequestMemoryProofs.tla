----------------------- MODULE JitRequestMemoryProofs -----------------------
(***************************************************************************)
(* No request is forgotten: nothing looks through the requests again, so   *)
(* every reconcile that returns has to leave behind what brings its        *)
(* request back, whatever others did to the request meanwhile.             *)
(***************************************************************************)
EXTENDS JitRequestRecordProofs

\* jiraFields has every custom field that the first configuration requires.
Complete(s) == FieldsGiven(s, 1)

EveryoneComplete == Webhooks \/ \A s \in Specs : Complete(s)

\* Under these conditions nothing that brings a request back is dropped.  A start time
\* that is over when the delay is computed gives no delay; a list that skips a deletion
\* and a creation shows an update; a rejection that is not written is only logged, and
\* when another writer was in between that writer's event may be one that is dropped.  The
\* worker itself is such a writer if a stale copy of what it pre-approved lacks a field
\* that another configuration requires: so all require what the specs have, or have not.
NothingDropped ==
  /\ ~SlowCalls
  /\ \A s \in Specs, v \in 1..Len(Configs) : FieldsGiven(s, v) <=> Complete(s)
  /\ "relist" \notin Disturbances \/ "recreate" \notin Disturbances
  /\ \/ EveryoneComplete
     \/ "UpdateSkipped" \notin Faulty /\ Disturbances \intersect {"edit", "touch"} = {}

-----------------------------------------------------------------------------
(* The inductive invariant.                                                  *)

\* An incarnation lasts until it is deleted.
Chained ==
  \A n \in Names : \A i \in 1..Len(log[n]) : \A j \in 1..Len(log[n]) :
    j = i + 1 /\ log[n][i].state # "Deleted" => log[n][j].uid = log[n][i].uid

\* No incomplete request is there if none can be.
NoneIncomplete ==
  EveryoneComplete => \A n \in Names : \A i \in 1..Len(log[n]) : Complete(log[n][i].spec)

\* What version v of a request may be, once version old of it was there.
Sequel(old, v) ==
  /\ old.state = "Pre-Approved" =>
       \/ v.state = "Pre-Approved" /\ v.startTime = old.startTime
       \/ v.state = "Succeeded" /\ old.startTime <= now
       \/ v.state \in {"Rejected", "Deleted"}
  /\ old.state = "Succeeded" =>
       \/ v.state = "Succeeded" /\ v.endTime = old.endTime
       \/ v.state = "Deleted"
  /\ old.state = "Rejected" => v.state \in {"Rejected", "Deleted"}

\* An old version, the cache's for one, tells as much of the request as it is now; of an
\* incomplete request that was new it tells that it is rejected.
OldTells ==
  \A n \in Names : \A i \in 1..Len(log[n]) :
    log[n][i].uid = Latest(n).uid =>
      /\ Sequel(log[n][i], Latest(n))
      /\ i < Len(log[n]) /\ log[n][i].state = "" /\ ~Complete(log[n][i].spec) =>
           Latest(n).state \in {"Rejected", "Deleted"}

\* The calls up to a pre-approval.
PreApproving == Reads \union {"FindReporter", "CreateIssue", "ListNamespaces",
                               "CommentPreApproved", "UpdatePreApproved"}

\* Whoever pre-approves has a complete request whose start is to come, and whoever rejects
\* an incomplete one finds it as it was, or it will come back.
WillComeBack ==
  job # Idle =>
    /\ job.call \in PreApproving => Complete(Request.spec)
    /\ job.call \in {"CommentPreApproved", "UpdatePreApproved"} =>
         Request.spec.startTime > now
    /\ At("UpdateSkipped") =>
         /\ ~Complete(Request.spec)
         /\ Live(job.name) => UpToDate \/ job.name \in queue \/ EventToCome(job.name)

Memory ==
  Chained /\ UidsEarlier /\ NoneIncomplete /\ OldTells /\ WillComeBack /\ NobodyIsForgotten

-----------------------------------------------------------------------------
(* What the log tells.                                                       *)

\* Chained is kept: what follows a live version has its uid.
LEMMA ChainedStep ==
  ASSUME Inductive, Chained, [Next]_vars
  PROVE  Chained'
<1>1. CASE UNCHANGED log
  BY <1>1 DEF Chained
<1>2. ASSUME NEW n \in Names, NEW v \in Versions, Write(n, v), Fresh(n, v) \/ Rewritten(n, v)
      PROVE  Chained'
  <2>1. /\ Len(log[n]) \in Nat /\ Len(log'[n]) = Len(log[n]) + 1
        /\ \A m \in Names : m # n => log'[m] = log[m]
        /\ \A i \in 1..Len(log'[n]) :
             \/ i \in 1..Len(log[n]) /\ log'[n][i] = log[n][i]
             \/ i = Len(log[n]) + 1 /\ log'[n][i] = v
    BY <1>2, WriteAtEnd DEF Inductive
  <2>2. ASSUME NEW i \in 1..Len(log'[n]), NEW j \in 1..Len(log'[n]),
               j = i + 1, log'[n][i].state # "Deleted"
        PROVE  log'[n][j].uid = log'[n][i].uid
    <3>1. i \in 1..Len(log[n]) /\ log'[n][i] = log[n][i]
      BY <2>1, <2>2
    <3>2. CASE j \in 1..Len(log[n])
      BY <2>1, <2>2, <3>1, <3>2 DEF Chained
    <3>3. CASE j = Len(log[n]) + 1 /\ log'[n][j] = v
      <4>1. i = Len(log[n]) /\ log[n][i] = Latest(n) /\ log[n] # <<>>
        BY <2>1, <2>2, <3>1, <3>3 DEF Latest
      <4>2. Live(n)
        BY <2>2, <3>1, <4>1 DEF Live
      <4> QED
        BY <1>2, <3>1, <3>3, <4>1, <4>2 DEF Fresh, Rewritten
    <3> QED
      BY <2>1, <3>2, <3>3
  <2> QED
    BY <2>1, <2>2 DEF Chained
<1> QED
  BY <1>1, <1>2, LogGoesOn

\* Whatever version the file's fields are of, it asks of a spec what the first one does.
LEMMA FieldsAgree ==
  ASSUME TypeOK, NothingDropped, file # 0, NEW s \in Specs, NEW v \in FileVersions
  PROVE  FieldsGiven(s, v) <=> Complete(s)
<1>1. v \in 1..Len(Configs)
  BY JitConfigAssumption DEF TypeOK, FileVersions
<1> QED
  BY <1>1 DEF NothingDropped

\* NoneIncomplete is kept: every spec that is written was submitted and admitted.
LEMMA NoneIncompleteStep ==
  ASSUME Inductive, NothingDropped, NoneIncomplete, [Next]_vars
  PROVE  NoneIncomplete'
<1>1. CASE UNCHANGED log
  BY <1>1 DEF NoneIncomplete, EveryoneComplete
<1>2. ASSUME NEW n \in Names, NEW v \in Versions, Write(n, v),
             Fresh(n, v) \/ Rewritten(n, v), EveryoneComplete
      PROVE  NoneIncomplete'
  <2>1. /\ \A m \in Names : m # n => log'[m] = log[m]
        /\ \A i \in 1..Len(log'[n]) :
             \/ i \in 1..Len(log[n]) /\ log'[n][i] = log[n][i]
             \/ i = Len(log[n]) + 1 /\ log'[n][i] = v
    BY <1>2, WriteAtEnd DEF Inductive
  <2>2. Live(n) => Complete(Latest(n).spec)
    BY <1>2, LatestThere DEF NoneIncomplete, Inductive
  <2>3. Admitted(v.spec) => Complete(v.spec)
    <3>1. v.spec \in Specs
      BY DEF Versions
    <3> QED
      BY <1>2, <3>1, FieldsAgree DEF Admitted, EveryoneComplete, Inductive
  <2>4. Complete(v.spec)
    BY <1>2, <2>2, <2>3 DEF Fresh, Rewritten, Gone, Edited, Updated
  <2> QED
    BY <2>1, <2>4 DEF NoneIncomplete
<1>3. ~EveryoneComplete => NoneIncomplete'
  BY DEF NoneIncomplete, EveryoneComplete
<1> QED
  BY <1>1, <1>2, <1>3, LogGoesOn

\* The story goes on with every version that is written.
LEMMA SequelGoesOn ==
  ASSUME Inductive, NEW n \in Names, NEW v \in Versions, Rewritten(n, v),
         NEW old \in Versions, Sequel(old, Latest(n))
  PROVE  Sequel(old, v)
<1>1. Latest(n).state # "Deleted"
  BY DEF Rewritten, Live
<1>2. CASE Gone(n, v)
  BY <1>2 DEF Gone, Sequel
<1>3. CASE Edited(n, v)
  BY <1>3 DEF Edited, Sequel
<1>4. CASE Updated(n, v)
  <2>1. /\ Latest(n).state \in StatesBefore(job.call) /\ job.call \in Updates
        /\ job # Idle /\ v.state = StateAfter(job.call) /\ Latest(n) = Request
    BY <1>4, UpdateFromLatest DEF Updated, WorkerWrites, Inductive
  <2>2. CASE job.call = "UpdateSucceeded"
    <3>1. v.state = "Succeeded" /\ Latest(n).state = "Pre-Approved"
      BY <2>1, <2>2 DEF StateAfter, StatesBefore, Reads
    <3>2. Latest(n).startTime <= now
      BY <2>1, <2>2 DEF Inductive, WorkerKnows, AfterStart
    <3> QED
      BY <3>1, <3>2 DEF Sequel
  <2>3. CASE job.call = "UpdatePreApproved"
    BY <2>1, <2>3 DEF StatesBefore, Reads, Sequel
  <2>4. CASE job.call \in {"UpdateRejected", "UpdateSkipped"}
    BY <2>1, <2>4 DEF StateAfter, StatesBefore, Reads, Sequel
  <2> QED
    BY <2>1, <2>2, <2>3, <2>4 DEF Updates
<1> QED
  BY <1>2, <1>3, <1>4 DEF Rewritten

\* An incomplete request that is new can only be rejected or deleted.
LEMMA IncompleteEnds ==
  ASSUME Inductive, NothingDropped, NoneIncomplete, WillComeBack,
         NEW n \in Names, NEW v \in Versions, Rewritten(n, v),
         ~Complete(Latest(n).spec), Latest(n).state = ""
  PROVE  v.state \in {"Rejected", "Deleted"}
<1>1. ~Edited(n, v)
  <2>1. ~EveryoneComplete
    BY LatestThere DEF NoneIncomplete, Rewritten, Inductive
  <2> QED
    BY <2>1 DEF NothingDropped, Edited
<1>2. CASE Gone(n, v)
  BY <1>2 DEF Gone
<1>3. CASE Updated(n, v)
  <2>1. /\ Latest(n).state \in StatesBefore(job.call) /\ job.call \in Updates
        /\ job # Idle /\ v.state = StateAfter(job.call) /\ Latest(n) = Request
    BY <1>3, UpdateFromLatest DEF Updated, WorkerWrites, Inductive
  <2>2. job.call # "UpdatePreApproved"
    BY <2>1 DEF WillComeBack, PreApproving
  <2>3. job.call # "UpdateSucceeded"
    BY <2>1 DEF StatesBefore, Reads
  <2> QED
    BY <2>1, <2>2, <2>3 DEF StateAfter, Updates
<1> QED
  BY <1>1, <1>2, <1>3 DEF Rewritten

\* OldTells is kept.
LEMMA OldTellsStep ==
  ASSUME Inductive, NothingDropped, UidsEarlier, NoneIncomplete, OldTells, WillComeBack,
         [Next]_vars
  PROVE  OldTells'
<1>1. /\ log \in [Names -> Seq(Versions)] /\ now \in Nat /\ now' \in Nat /\ now <= now'
  BY TimeStep DEF Inductive, TypeOK
<1>2. CASE UNCHANGED log
  <2>1. ASSUME NEW n \in Names, NEW i \in 1..Len(log[n]), Sequel(log[n][i], Latest(n))
        PROVE  Sequel(log[n][i], Latest(n))'
    <3>1. log[n][i] \in Versions
      BY <1>1
    <3>2. log[n][i].startTime \in Nat
      BY <3>1 DEF Versions
    <3> QED
      BY <1>1, <1>2, <2>1, <3>2 DEF Sequel, Latest
  <2> QED
    BY <1>2, <2>1 DEF OldTells, Latest
<1>3. ASSUME NEW n \in Names, NEW v \in Versions, Write(n, v), UNCHANGED now,
             Fresh(n, v) \/ Rewritten(n, v)
      PROVE  OldTells'
  <2>1. /\ Latest(n)' = v /\ Len(log[n]) \in Nat /\ Len(log'[n]) = Len(log[n]) + 1
        /\ \A m \in Names : m # n => log'[m] = log[m]
        /\ \A i \in 1..Len(log'[n]) :
             \/ i \in 1..Len(log[n]) /\ log'[n][i] = log[n][i]
             \/ i = Len(log[n]) + 1 /\ log'[n][i] = v
    BY <1>3, WriteAtEnd DEF Inductive
  <2>2. ASSUME NEW m \in Names, m # n, NEW i \in 1..Len(log'[m]),
               log'[m][i].uid = Latest(m)'.uid
        PROVE  /\ Sequel(log'[m][i], Latest(m)')
               /\ i < Len(log'[m]) /\ log'[m][i].state = "" /\ ~Complete(log'[m][i].spec) =>
                    Latest(m)'.state \in {"Rejected", "Deleted"}
    <3>1. log'[m] = log[m] /\ Latest(m)' = Latest(m)
      BY <2>1, <2>2 DEF Latest
    <3> QED
      BY <2>2, <3>1 DEF OldTells
  <2>3. ASSUME NEW i \in 1..Len(log'[n]), log'[n][i].uid = v.uid
        PROVE  /\ Sequel(log'[n][i], v)
               /\ i < Len(log'[n]) /\ log'[n][i].state = "" /\ ~Complete(log'[n][i].spec) =>
                    v.state \in {"Rejected", "Deleted"}
    <3>1. CASE i = Len(log[n]) + 1 /\ log'[n][i] = v
      <4>1. ~(i < Len(log'[n]))
        BY <2>1, <3>1
      <4>2. Sequel(v, v)
        BY DEF Sequel
      <4> QED
        BY <3>1, <4>1, <4>2
    <3>2. CASE i \in 1..Len(log[n]) /\ log'[n][i] = log[n][i]
      <4>1. log[n][i] \in Versions /\ log[n][i].uid <= i
        BY <1>1, <3>2 DEF UidsEarlier
      <4>2. ~Fresh(n, v)
        <5>1. v.uid <= i
          BY <2>3, <3>2, <4>1
        <5>2. v.uid # Len(log[n]) + 1
          BY <2>1, <3>2, <5>1
        <5> QED
          BY <5>2 DEF Fresh
      <4>3. Rewritten(n, v) /\ log[n][i].uid = Latest(n).uid /\ Live(n)
        BY <1>3, <2>3, <3>2, <4>2 DEF Rewritten
      <4>4. Sequel(log[n][i], Latest(n))
        BY <3>2, <4>3 DEF OldTells
      <4>5. Sequel(log'[n][i], v)
        BY <3>2, <4>1, <4>3, <4>4, SequelGoesOn
      <4>6. ASSUME log[n][i].state = "", ~Complete(log[n][i].spec)
            PROVE  v.state \in {"Rejected", "Deleted"}
        <5>1. CASE i = Len(log[n])
          <6>1. log[n][i] = Latest(n)
            BY <5>1 DEF Latest
          <6> QED
            BY <4>3, <4>6, <6>1, IncompleteEnds
        <5>2. CASE i < Len(log[n])
          <6>1. Latest(n).state = "Rejected"
            BY <3>2, <4>3, <4>6, <5>2 DEF OldTells, Live
          <6>2. Latest(n) \in Versions
            BY <4>3, LatestThere DEF Inductive
          <6>3. Sequel(Latest(n), Latest(n))
            BY <6>1 DEF Sequel
          <6>4. Sequel(Latest(n), v)
            BY <4>3, <6>2, <6>3, SequelGoesOn
          <6> QED
            BY <6>1, <6>4 DEF Sequel
        <5> QED
          BY <2>1, <3>2, <5>1, <5>2
      <4> QED
        BY <3>2, <4>5, <4>6
    <3> QED
      BY <2>1, <3>1, <3>2
  <2>4. ASSUME NEW m \in Names, NEW i \in 1..Len(log'[m]), log'[m][i].uid = Latest(m)'.uid
        PROVE  /\ Sequel(log'[m][i], Latest(m)')
               /\ i < Len(log'[m]) /\ log'[m][i].state = "" /\ ~Complete(log'[m][i].spec) =>
                    Latest(m)'.state \in {"Rejected", "Deleted"}
    <3>1. CASE m = n
      BY <2>1, <2>3, <2>4, <3>1
    <3>2. CASE m # n
      BY <2>2, <2>4, <3>2
    <3> QED
      BY <3>1, <3>2
  <2> QED
    BY <1>3, <2>4 DEF OldTells, Sequel
<1> QED
  BY <1>2, <1>3, LogGoesOn

-----------------------------------------------------------------------------
(* What brings a request back.                                               *)

\* The cache moves by a watch, a list or a restart.
LEMMA CacheMoves ==
  ASSUME TypeOK, [Next]_vars, NEW n \in Names
  PROVE  seen'[n] = seen[n] \/ Deliver(n) \/ Relist(n) \/ Restart
<1>1. seen \in [Names -> Nat]
  BY DEF TypeOK
<1>2. ASSUME NEW m \in Names, m # n, Deliver(m) \/ Relist(m)  PROVE seen'[n] = seen[n]
  BY <1>1, <1>2 DEF Deliver, Relist, TakeOver
<1> QED
  BY <1>2
     DEF Next, Operator, Work, CallFails, AnswerLost, Reconcile, ConfigChanges,
         ConfigPublished, ConfigCompiled, ConfigSaved, ConfigLost, CollectGarbage, Tick,
         WakeUp, WithdrawRequest, CreateRequest, EditRequest, ApproveTicket, VetoTicket,
         vars, apiVars

\* Only the worker takes a name from the queue, and a restart empties it.
LEMMA QueueMoves ==
  ASSUME [Next]_vars, NEW n \in queue
  PROVE  n \in queue' \/ Reconcile(n) \/ Restart
<1>1. ASSUME NEW m, Reconcile(m), m # n  PROVE n \in queue'
  BY <1>1 DEF Reconcile
<1> QED
  BY <1>1
     DEF Next, Operator, Work, CallFails, AnswerLost, Deliver, Relist, TakeOver,
         ConfigChanges, ConfigPublished, ConfigCompiled, ConfigSaved, ConfigLost,
         CollectGarbage, Tick, WakeUp, WithdrawRequest, CreateRequest, EditRequest,
         ApproveTicket, VetoTicket, vars, queueVars

\* A delay is only ever made shorter, unless it is over.
LEMMA WakeMoves ==
  ASSUME TypeOK, [Next]_vars, NEW n \in Names
  PROVE  wake'[n] <= wake[n] \/ n \in queue' \/ Restart
<1>1. wake \in [Names -> Nat] /\ now \in Nat
  BY DEF TypeOK
<1>2. ASSUME wake' = wake  PROVE wake'[n] <= wake[n]
  BY <1>1, <1>2
<1>3. ASSUME NEW m \in Names, NEW t \in Nat, wake' = [wake EXCEPT ![m] = Sooner(@, t)]
      PROVE  wake'[n] <= wake[n]
  BY <1>1, <1>3 DEF Sooner
<1>4. ASSUME NEW m \in Names, Done \/ Retry(m) \/ \E t \in Nat : RequeueAt(m, t)
      PROVE  wake'[n] <= wake[n]
  BY <1>1, <1>2, <1>3, <1>4 DEF Done, Retry, RequeueAt
<1>5. ASSUME NEW m \in Names, Reconcile(m)  PROVE wake'[n] <= wake[n]
  <2>1. CASE UNCHANGED wake
    BY <1>2, <2>1
  <2>2. CASE Done \/ Retry(m)
    BY <1>4, <2>2
  <2>3. Found(m) => Cached(m).startTime \in Nat /\ Cached(m).endTime \in Nat
    BY CopyInCache DEF Versions
  <2>4. CASE Found(m) /\ handlePreApproved(m)
    BY <1>4, <2>1, <2>3, <2>4 DEF handlePreApproved, Begin
  <2>5. CASE Found(m) /\ handleCleanup(m)
    BY <1>4, <2>1, <2>3, <2>5 DEF handleCleanup, Begin
  <2> QED
    BY <1>5, <2>1, <2>2, <2>4, <2>5
       DEF Reconcile, handleFetchError, ReadConfigFromFile, handleRejected,
           handleNewRequest, Begin
<1>6. CASE Work \/ CallFails \/ AnswerLost
  <2>1. job.name \in Names /\ Request.spec.startTime \in Nat /\ Request.spec.endTime \in Nat
    BY <1>6, CallDoesOneThing, CopyInHand DEF Jobs, SpecType
  <2>2. CASE UNCHANGED wake
    BY <1>2, <2>2
  <2>3. OnError => wake'[n] <= wake[n]
    <3>1. Done \/ Retry(job.name) => wake'[n] <= wake[n]
      BY <1>4, <2>1
    <3>2. OnError => Done \/ Retry(job.name) \/ UNCHANGED wake
      BY DEF OnError, Call, At
    <3> QED
      BY <1>2, <3>1, <3>2
  <2>4. CASE UpdatePreApproved \/ UpdateRejected \/ UpdateSkipped \/ DeleteRequest
             \/ UpdateSucceeded
    BY <1>4, <2>1, <2>2, <2>3, <2>4
       DEF UpdatePreApproved, UpdateRejected, UpdateSkipped, DeleteRequest, UpdateSucceeded,
           Refused
  <2>5. CASE FindReporter \/ CommentPreApproved \/ GetIssue \/ CommentCompleted
             \/ CommentRejected \/ CreateIssue \/ ListNamespaces
    BY <2>2, <2>3, <2>5
       DEF FindReporter, CommentPreApproved, GetIssue, CommentCompleted, CommentRejected,
           CreateIssue, ListNamespaces, Call, BindFrom
  <2>6. CASE CreateRoleBinding \/ MoveCompleted \/ MoveRejected
    BY <2>2, <2>3, <2>6
       DEF CreateRoleBinding, MoveCompleted, MoveRejected, Call, BindFrom, Refused
  <2>7. CASE MatchNamespace \/ QuotePattern
    BY <1>4, <2>1, <2>2, <2>7 DEF MatchNamespace, QuotePattern, MatchFrom, Call
  <2> QED
    BY <1>6, <2>3, <2>4, <2>5, <2>6, <2>7 DEF Work, CallFails, AnswerLost, Refused
<1>7. ASSUME NEW m \in Names, WakeUp(m)  PROVE wake'[n] <= wake[n] \/ n \in queue'
  <2>1. CASE m = n
    BY <1>7, <2>1 DEF WakeUp
  <2>2. CASE m # n
    BY <1>1, <1>7, <2>2 DEF WakeUp
  <2> QED
    BY <2>1, <2>2
<1>8. ASSUME NEW m \in Names,
             Deliver(m) \/ Relist(m) \/ WithdrawRequest(m)
             \/ \E s \in Specs : CreateRequest(m, s) \/ EditRequest(m, s)
      PROVE  wake' = wake
  BY <1>8 DEF Deliver, Relist, TakeOver, WithdrawRequest, CreateRequest, EditRequest, queueVars
<1>9. ASSUME ConfigChanges \/ CollectGarbage \/ Tick \/ UNCHANGED vars
             \/ \E k \in DOMAIN tickets : ApproveTicket(k) \/ VetoTicket(k)
      PROVE  wake' = wake
  BY <1>9
     DEF ConfigChanges, ConfigPublished, ConfigCompiled, ConfigSaved, ConfigLost,
         CollectGarbage, Tick, ApproveTicket, VetoTicket, vars, queueVars
<1> QED
  BY <1>2, <1>5, <1>6, <1>7, <1>8, <1>9 DEF Next, Operator

\* A version the cache holds stays what it is.
LEMMA CachedStays ==
  ASSUME Inductive, [Next]_vars, NEW n \in Names, seen'[n] = seen[n]
  PROVE  Found(n)' = Found(n) /\ (Found(n) => Cached(n)' = Cached(n))
<1>1. Grows /\ seen[n] \in Nat /\ seen[n] <= Len(log[n]) /\ Len(log[n]) \in Nat
  BY StepFootprint, FootprintGrows DEF Inductive, TypeOK
<1>2. seen[n] > 0 => Cached(n)' = Cached(n)
  BY <1>1 DEF Grows, Cached
<1> QED
  BY <1>1, <1>2 DEF Found

\* Names that are used once have one request.
NamesTell == NamesOnce => OneRequest

\* An event that is to come is still to come, or it has queued the name.
LEMMA EventStays ==
  ASSUME Inductive, NothingDropped, Chained, NamesTell, [Next]_vars,
         NEW n \in Names, Live(n), Live(n)', EventToCome(n),
         Latest(n)'.uid = Latest(n).uid,
         Latest(n).state = "Rejected" => Latest(n)'.state = "Rejected"
  PROVE  EventToCome(n)' \/ n \in queue'
<1>1. CASE seen'[n] = seen[n]
  BY <1>1, CachedStays DEF EventToCome
<1>2. CASE Restart
  BY <1>2 DEF Restart
<1>3. ASSUME NEW i \in 1..Len(log[n]), TakeOver(n, i)
      PROVE  /\ log[n][i] \in Versions /\ UNCHANGED log
             /\ Found(n)' = (log[n][i].state # "Deleted") /\ Cached(n)' = log[n][i]
             /\ Latest(n)' = Latest(n)
             /\ \/ n \in queue'
                \/ Found(n) = (log[n][i].state # "Deleted")
                   /\ ~(/\ Found(n) /\ log[n][i].state # "Deleted"
                        /\ Cached(n).state # "Rejected" /\ log[n][i].state = "Rejected")
  <2>1. log[n] \in Seq(Versions) /\ seen \in [Names -> Nat]
    BY DEF Inductive, TypeOK
  <2>2. seen'[n] = i /\ UNCHANGED log
    BY <1>3, <2>1 DEF TakeOver
  <2>3. Cached(n)' = log[n][i] /\ Latest(n)' = Latest(n)
    BY <2>2 DEF Cached, Latest
  <2>4. Found(n)' = (log[n][i].state # "Deleted")
    BY <2>2, <2>3 DEF Found
  <2>5. \/ n \in queue'
        \/ Found(n) = (log[n][i].state # "Deleted")
           /\ ~(/\ Found(n) /\ log[n][i].state # "Deleted"
                /\ Cached(n).state # "Rejected" /\ log[n][i].state = "Rejected")
    BY <1>3 DEF TakeOver, jitRequestPredicate
  <2> QED
    BY <2>1, <2>2, <2>3, <2>4, <2>5
<1>4. CASE Deliver(n)
  <2>1. seen[n] + 1 \in 1..Len(log[n]) /\ TakeOver(n, seen[n] + 1)
    <3>1. seen[n] < Len(log[n]) /\ seen[n] \in Nat /\ Len(log[n]) \in Nat
      BY <1>4 DEF Deliver, Inductive, TypeOK
    <3> QED
      BY <1>4, <3>1 DEF Deliver
  <2>2. PICK i \in 1..Len(log[n]) : i = seen[n] + 1 /\ TakeOver(n, i)
    BY <2>1
  <2>3. Found(n) => log[n][i].uid = Cached(n).uid
    BY <2>2, CopyInCache DEF Chained, Found, Inductive
  <2> QED
    BY <1>3, <2>2, <2>3 DEF EventToCome
<1>5. CASE Relist(n)
  <2>1. OneRequest
    BY <1>5 DEF Relist, NothingDropped, NamesTell, NamesOnce
  <2>2. Len(log[n]) \in 1..Len(log[n]) /\ Latest(n) = log[n][Len(log[n])]
    BY LatestThere DEF Inductive
  <2>3. PICK i \in 1..Len(log[n]) : TakeOver(n, i) /\ log[n][i] = Latest(n)
    BY <1>5, <2>2 DEF Relist
  <2>4. Found(n) => Cached(n).uid = Latest(n).uid
    BY <2>1, CopyInCache DEF OneRequest, Follows, Inductive
  <2> QED
    BY <1>3, <2>3, <2>4 DEF EventToCome, Live
<1> QED
  BY <1>1, <1>2, <1>4, <1>5, CacheMoves DEF Inductive

\* A request that is created is news to the cache.
LEMMA FreshEvent ==
  ASSUME Inductive, UidsEarlier, [Next]_vars, NEW n \in Names, NEW v \in Versions,
         Write(n, v), Fresh(n, v)
  PROVE  EventToCome(n)'
<1>1. /\ Latest(n)' = v /\ Len(log[n]) \in Nat /\ Len(log'[n]) = Len(log[n]) + 1
  BY WriteAtEnd DEF Inductive
<1>2. log'[n] # log[n]
  BY <1>1
<1>3. seen'[n] = seen[n]
  BY <1>2, CacheMoves DEF Inductive, Deliver, Relist, TakeOver, Restart
<1>4. ASSUME Found(n)  PROVE Cached(n).uid # v.uid
  <2>1. Cached(n) \in Versions /\ seen[n] \in 1..Len(log[n]) /\ Cached(n) = log[n][seen[n]]
    BY <1>4, CopyInCache DEF Inductive
  <2>2. Cached(n).uid <= seen[n]
    BY <2>1 DEF UidsEarlier
  <2>3. Cached(n).uid # Len(log[n]) + 1
    BY <1>1, <2>1, <2>2
  <2> QED
    BY <2>3 DEF Fresh
<1> QED
  BY <1>1, <1>3, <1>4, CachedStays DEF EventToCome

\* A request that is there now was there before, unless it is news to the cache; it is the
\* same but for what a user or the worker writes.
LEMMA LiveBefore ==
  ASSUME Inductive, UidsEarlier, [Next]_vars, NEW n \in Names, Live(n)'
  PROVE  \/ EventToCome(n)'
         \/ /\ Live(n) /\ Latest(n)'.uid = Latest(n).uid
            /\ \/ log'[n] = log[n] /\ Latest(n)' = Latest(n)
               \/ \E v \in Versions : Latest(n)' = v /\ Edited(n, v)
               \/ \E v \in Versions : Latest(n)' = v /\ Updated(n, v)
<1>1. CASE log'[n] = log[n]
  BY <1>1 DEF Live, Latest
<1>2. ASSUME NEW m \in Names, NEW v \in Versions, Write(m, v), Fresh(m, v) \/ Rewritten(m, v),
             log'[n] # log[n]
      PROVE  \/ EventToCome(n)'
             \/ /\ Live(n) /\ Latest(n)'.uid = Latest(n).uid
                /\ Latest(n)' = v /\ (Edited(n, v) \/ Updated(n, v))
  <2>1. m = n /\ Latest(n)' = v
    BY <1>2, WriteAtEnd DEF Inductive
  <2>2. ~Gone(n, v)
    BY <2>1 DEF Gone, Live
  <2> QED
    BY <1>2, <2>1, <2>2, FreshEvent DEF Rewritten
<1> QED
  BY <1>1, <1>2, LogGoesOn

-----------------------------------------------------------------------------
(* What a reconcile leaves behind.                                           *)

\* What keeps request n from being forgotten.
Kept(n) == n \in queue \/ (job # Idle /\ job.name = n) \/ DelayRuns(n) \/ EventToCome(n)

\* With calls that take no time the clock stands still while one is under way.
LEMMA ClockStops ==
  ASSUME ~SlowCalls, [Next]_vars, job # Idle
  PROVE  UNCHANGED now
BY DEF Next, Operator, Reconcile, Work, CallFails, AnswerLost, Restart, ConfigChanges,
       ConfigPublished, ConfigCompiled, ConfigSaved, ConfigLost, CollectGarbage, Tick,
       Deliver, Relist, TakeOver, WakeUp, WithdrawRequest, CreateRequest, EditRequest,
       ApproveTicket, VetoTicket, vars

\* A delay is at most as long as what it was computed from.
LEMMA RequeueBounds ==
  ASSUME TypeOK, NEW n \in Names
  PROVE  /\ Retry(n) => wake'[n] <= now
         /\ \A t \in Nat : RequeueAt(n, t) /\ t > now => wake'[n] <= t
BY DEF TypeOK, Retry, RequeueAt, Sooner

\* Where a reconcile begins, and with what.
LEMMA ReconcileStarts ==
  ASSUME Inductive, NothingDropped, NEW n \in Names, Reconcile(n), job' # Idle
  PROVE  /\ job'.name = n /\ Request' = Cached(n) /\ job'.rev = seen[n]
         /\ Found(n) /\ UNCHANGED <<log, seen, now>>
         /\ job'.call \in {"DeleteRejected", "CommentRejected", "FindReporter",
                           "UpdateSkipped", "GetIssue", "DeleteExpired"}
         /\ job'.call = "FindReporter" => Complete(Cached(n).spec)
         /\ job'.call = "UpdateSkipped" => ~Complete(Cached(n).spec) /\ Cached(n).state = ""
<1>1. /\ job'.name = n /\ job'.rev = seen[n] /\ UNCHANGED <<log, seen, now>>
      /\ job'.call \in {"DeleteRejected", "CommentRejected", "FindReporter",
                        "UpdateSkipped", "GetIssue", "DeleteExpired"}
  BY ReconcileCalls DEF Inductive, Reconcile
<1>2. Request' = Cached(n)
  BY <1>1 DEF Request, Cached
<1>3. CASE Found(n) /\ handleRejected(n)
  BY <1>1, <1>2, <1>3 DEF handleRejected, Begin
<1>4. CASE Found(n) /\ handleNewRequest(n)
  <2> DEFINE first(v) == IF FieldsGiven(Cached(n).spec, v) THEN "FindReporter"
                         ELSE "UpdateSkipped"
  <2>1. PICK v \in FileVersions : Begin(n, first(v), Skipped) /\ Cached(n).state = ""
    BY <1>4 DEF handleNewRequest
  <2>2. job'.call = first(v)
    BY <2>1 DEF Begin
  <2>3. file # 0
    <3>1. ~ReadConfigFromFile(n) /\ ~handleFetchError(n)
      BY <1>4 DEF ReadConfigFromFile, Retry, handleFetchError
    <3> QED
      BY <3>1 DEF Reconcile
  <2>4. Cached(n).spec \in Specs
    BY <1>4, CopyInCache DEF Inductive, Versions
  <2>5. FieldsGiven(Cached(n).spec, v) <=> Complete(Cached(n).spec)
    BY <2>3, <2>4, FieldsAgree DEF Inductive
  <2> QED
    BY <1>1, <1>2, <1>4, <2>1, <2>2, <2>5
<1>5. CASE Found(n) /\ handlePreApproved(n)
  BY <1>1, <1>2, <1>5 DEF handlePreApproved, RequeueAt, Begin
<1>6. CASE Found(n) /\ handleCleanup(n)
  BY <1>1, <1>2, <1>6 DEF handleCleanup, RequeueAt, Begin
<1> QED
  BY <1>3, <1>4, <1>5, <1>6 DEF Reconcile, handleFetchError, ReadConfigFromFile, Done, Retry

\* A reconcile that returns without a call leaves a delay, if the cache is not behind: the
\* date it read is the one the request has.
LEMMA ReconcileRemembers ==
  ASSUME Inductive, OldTells, [Next]_vars, NEW n \in Names, Reconcile(n), Live(n)'
  PROVE  Kept(n)'
<1>1. /\ UNCHANGED <<log, seen, now>> /\ Live(n) /\ Latest(n)' = Latest(n)
      /\ Cached(n)' = Cached(n) /\ Found(n)' = Found(n) /\ now \in Nat
  BY DEF Reconcile, Live, Latest, Found, Cached, Inductive, TypeOK
<1>2. CASE ~Found(n)
  BY <1>1, <1>2 DEF Kept, EventToCome
<1>3. CASE ReadConfigFromFile(n)
  BY <1>1, <1>3, RequeueBounds DEF Inductive, ReadConfigFromFile, Kept, DelayRuns
<1>4. ASSUME Found(n), ~EventToCome(n)
      PROVE  Sequel(Cached(n), Latest(n)) /\ Cached(n) \in Versions
  BY <1>4, CopyInCache DEF Inductive, EventToCome, OldTells
<1>5. ASSUME job' # Idle  PROVE Kept(n)'
  BY <1>5, ReconcileCalls DEF Kept, Inductive
<1>6. CASE Found(n) /\ handlePreApproved(n)
  <2>1. SUFFICES ASSUME ~EventToCome(n), job' = Idle  PROVE DelayRuns(n)'
    BY <1>1, <1>5 DEF Kept, EventToCome
  <2>2. /\ Cached(n).state = "Pre-Approved" /\ Cached(n).startTime > now
        /\ RequeueAt(n, Cached(n).startTime) /\ Cached(n).startTime \in Nat
    <3>1. ~Begin(n, "GetIssue", Cached(n).ticket)
      BY <2>1 DEF Begin, Idle
    <3> QED
      BY <1>4, <1>6, <2>1, <3>1 DEF handlePreApproved, Versions
  <2>3. wake'[n] <= Cached(n).startTime
    BY <2>2, RequeueBounds DEF Inductive
  <2>4. Latest(n).state = "Pre-Approved" /\ Latest(n).startTime = Cached(n).startTime
    <3>1. Latest(n).state \notin {"Rejected", "Deleted"}
      BY <1>1, <2>1, <2>2 DEF EventToCome, Live
    <3>2. ~(Cached(n).startTime <= now)
      BY <1>1, <2>2
    <3> QED
      BY <1>4, <1>6, <2>1, <2>2, <3>1, <3>2 DEF Sequel
  <2> QED
    BY <1>1, <2>3, <2>4 DEF DelayRuns
<1>7. CASE Found(n) /\ handleCleanup(n)
  <2>1. SUFFICES ASSUME ~EventToCome(n), job' = Idle  PROVE DelayRuns(n)'
    BY <1>1, <1>5 DEF Kept, EventToCome
  <2>2. /\ Cached(n).state = "Succeeded" /\ Cached(n).endTime > now
        /\ RequeueAt(n, Cached(n).endTime) /\ Cached(n).endTime \in Nat
    <3>1. ~Begin(n, "DeleteExpired", Cached(n).ticket)
      BY <2>1 DEF Begin, Idle
    <3> QED
      BY <1>4, <1>7, <2>1, <3>1 DEF handleCleanup, Versions
  <2>3. wake'[n] <= Cached(n).endTime
    BY <2>2, RequeueBounds DEF Inductive
  <2>4. Latest(n).state = "Succeeded" /\ Latest(n).endTime = Cached(n).endTime
    BY <1>1, <1>4, <1>7, <2>1, <2>2 DEF Sequel, Live
  <2> QED
    BY <1>1, <2>3, <2>4 DEF DelayRuns
<1>8. CASE Found(n) /\ (handleRejected(n) \/ handleNewRequest(n))
  <2>1. \E c, k : Begin(n, c, k)
    BY <1>8 DEF handleRejected, handleNewRequest
  <2>2. job' # Idle
    BY <2>1 DEF Begin, Idle
  <2> QED
    BY <1>5, <2>2
<1> QED
  BY <1>2, <1>3, <1>6, <1>7, <1>8 DEF Reconcile, handleFetchError

\* How a reconcile that made a call ends.
LEMMA WorkerReturns ==
  ASSUME Inductive, Work \/ CallFails \/ AnswerLost, job' = Idle
  PROVE  \/ Retry(job.name)
         \/ job.call \in {"UpdateRejected", "UpdateSkipped"} /\ updateStatus("Rejected")
         \/ /\ At("UpdatePreApproved") /\ updateStatus("Pre-Approved")
            /\ RequeueAt(job.name, Request.spec.startTime)
         \/ /\ At("UpdateSucceeded") /\ updateStatus("Succeeded")
            /\ RequeueAt(job.name, Request.spec.endTime) /\ Request.spec.endTime > now
         \/ At("UpdateSkipped") /\ NoEffect /\ (~UpToDate \/ job.call \in Faulty)
         \/ deleteJitRequest
<1>1. job # Idle /\ job \in Jobs
  BY CallDoesOneThing, CopyInHand DEF Inductive
<1>2. ASSUME NEW c, Call(c)  PROVE FALSE
  <2>1. job'.call = c /\ job'.name = job.name
    BY <1>1, <1>2 DEF Call, Jobs
  <2>2. "name" \in DOMAIN job' /\ "name" \notin DOMAIN Idle
    BY <1>1, <1>2 DEF Call, Jobs, Idle
  <2> QED
    BY <2>2
<1>3. ASSUME NEW i, BindFrom(i)  PROVE FALSE
  <2>1. "name" \in DOMAIN job' /\ "name" \notin DOMAIN Idle
    BY <1>1, <1>3 DEF BindFrom, Jobs, Idle
  <2> QED
    BY <2>1
<1>4. OnError => Retry(job.name) \/ At("UpdateSkipped")
  BY <1>2 DEF OnError, At
<1>5. CASE AnswerLost
  BY <1>4, <1>5 DEF AnswerLost, At
<1>6. CASE CallFails
  BY <1>4, <1>6 DEF CallFails, FaultyCall, Refused
<1>7. CASE FindReporter \/ CommentPreApproved \/ GetIssue \/ CommentCompleted
           \/ CommentRejected
  BY <1>2, <1>3, <1>4, <1>7
     DEF FindReporter, CommentPreApproved, GetIssue, CommentCompleted, CommentRejected, At
<1>8. CASE CreateRoleBinding \/ MoveCompleted \/ MoveRejected
  BY <1>2, <1>3, <1>4, <1>8 DEF CreateRoleBinding, MoveCompleted, MoveRejected, Refused, At
<1>9. CASE CreateIssue \/ ListNamespaces \/ MatchFrom(job.next + 1)
  <2>1. "name" \in DOMAIN job' /\ "name" \notin DOMAIN Idle
    BY <1>1, <1>9 DEF CreateIssue, ListNamespaces, MatchFrom, Jobs, Idle
  <2> QED
    BY <2>1
<1>10. CASE UpdatePreApproved \/ UpdateRejected \/ UpdateSkipped \/ DeleteRequest
  BY <1>4, <1>10
     DEF UpdatePreApproved, UpdateRejected, UpdateSkipped, DeleteRequest, Refused, At
<1>11. CASE UpdateSucceeded
  <2>1. CASE job' = [job EXCEPT !.call = "DeleteExpired", !.rev = @ + 1]
    <3>1. "name" \in DOMAIN job' /\ "name" \notin DOMAIN Idle
      BY <1>1, <2>1 DEF Jobs, Idle
    <3> QED
      BY <3>1
  <2> QED
    BY <1>4, <1>11, <2>1 DEF UpdateSucceeded, Refused, At
<1>12. CASE MatchNamespace \/ QuotePattern
  BY <1>2, <1>9, <1>12 DEF MatchNamespace, QuotePattern
<1> QED
  BY <1>5, <1>6, <1>7, <1>8, <1>9, <1>10, <1>11, <1>12 DEF Work

\* Whoever returns from a call leaves a delay or an event behind, or the request is gone.
LEMMA ReturnRemembers ==
  ASSUME Inductive, NothingDropped, NoneIncomplete, OldTells, WillComeBack, [Next]_vars,
         job # Idle, job' = Idle, Work \/ CallFails \/ AnswerLost,
         NEW n \in Names, n = job.name, Live(n)'
  PROVE  Kept(n)'
<1>1. /\ UNCHANGED <<seen, queue, now>> /\ now \in Nat /\ job \in Jobs
      /\ Request \in Versions /\ Request.spec \in SpecType
  BY CopyInHand DEF Work, CallFails, AnswerLost, Inductive, TypeOK
<1>2. CASE Retry(n)
  BY <1>1, <1>2, RequeueBounds DEF Kept, DelayRuns, Inductive
<1>3. ASSUME job.call \in Updates, updateStatus(StateAfter(job.call))
      PROVE  /\ Latest(n) = Request /\ Live(n) /\ Request.state \in StatesBefore(job.call)
             /\ Latest(n)'.state = StateAfter(job.call) /\ Latest(n)'.uid = Latest(n).uid
             /\ Latest(n)'.startTime = Request.spec.startTime
             /\ Latest(n)'.endTime = Request.spec.endTime
  <2>1. PICK v \in Versions :
          Write(n, v) /\ Rewritten(n, v) /\ Updated(n, v)
    BY <1>3, WorkerUpdates
  <2>2. Latest(n)' = v
    BY <2>1, WriteAtEnd DEF Inductive
  <2>3. Request.state \in StatesBefore(job.call)
    BY DEF Inductive, WorkerKnows
  <2> QED
    BY <2>1, <2>2, <2>3 DEF Rewritten, Updated
<1>4. CASE job.call \in {"UpdateRejected", "UpdateSkipped"} /\ updateStatus("Rejected")
  <2>1. /\ Latest(n) = Request /\ Request.state \in {"", "Pre-Approved"}
        /\ Latest(n)'.state = "Rejected" /\ Latest(n)'.uid = Latest(n).uid
    BY <1>3, <1>4 DEF Updates, StateAfter, StatesBefore, Reads
  <2>2. ASSUME Found(n), Cached(n).uid = Latest(n).uid  PROVE Cached(n).state # "Rejected"
    <3>1. Sequel(Cached(n), Latest(n))
      BY <2>2, CopyInCache DEF Inductive, OldTells
    <3> QED
      BY <2>1, <3>1 DEF Sequel
  <2> QED
    BY <1>1, <2>1, <2>2, CachedStays DEF Kept, EventToCome
<1>5. CASE /\ At("UpdatePreApproved") /\ updateStatus("Pre-Approved")
           /\ RequeueAt(n, Request.spec.startTime)
  <2>1. Request.spec.startTime > now /\ Request.spec.startTime \in Nat
    BY <1>1, <1>5 DEF WillComeBack, At, SpecType
  <2>2. wake'[n] <= Request.spec.startTime
    BY <1>5, <2>1, RequeueBounds DEF Inductive
  <2>3. Latest(n)'.state = "Pre-Approved" /\ Latest(n)'.startTime = Request.spec.startTime
    BY <1>3, <1>5 DEF Updates, StateAfter, At
  <2> QED
    BY <2>2, <2>3 DEF Kept, DelayRuns
<1>6. CASE /\ At("UpdateSucceeded") /\ updateStatus("Succeeded")
           /\ RequeueAt(n, Request.spec.endTime) /\ Request.spec.endTime > now
  <2>1. wake'[n] <= Request.spec.endTime
    BY <1>1, <1>6, RequeueBounds DEF Inductive, SpecType
  <2>2. Latest(n)'.state = "Succeeded" /\ Latest(n)'.endTime = Request.spec.endTime
    BY <1>3, <1>6 DEF Updates, StateAfter, At
  <2> QED
    BY <2>1, <2>2 DEF Kept, DelayRuns
<1>7. CASE At("UpdateSkipped") /\ NoEffect /\ (~UpToDate \/ job.call \in Faulty)
  <2>1. ~Complete(Request.spec)
    BY <1>7 DEF WillComeBack
  <2>2. ~EveryoneComplete
    BY <1>1, <2>1, CopyInHand DEF NoneIncomplete, Inductive, Jobs, Request
  <2>3. ~UpToDate
    BY <1>7, <2>2 DEF NothingDropped, At
  <2>4. /\ Live(n) /\ Latest(n)' = Latest(n)
    BY <1>7 DEF NoEffect, Live, Latest
  <2>5. n \in queue \/ EventToCome(n)
    BY <1>7, <2>3, <2>4 DEF WillComeBack
  <2> QED
    BY <1>1, <2>4, <2>5, CachedStays DEF Kept, EventToCome
<1>8. CASE deleteJitRequest
  <2> DEFINE v == [Latest(n) EXCEPT !.state = "Deleted"]
  <2>1. Write(n, v) /\ Latest(n) \in Versions
    BY <1>8, LatestThere DEF deleteJitRequest, Delete, Inductive
  <2>2. v \in Versions /\ v.state = "Deleted"
    BY <2>1 DEF Versions, States
  <2> HIDE DEF v
  <2>3. Latest(n)' = v
    BY <2>1, <2>2, WriteAtEnd DEF Inductive
  <2> QED
    BY <2>2, <2>3 DEF Live
<1> QED
  BY <1>2, <1>4, <1>5, <1>6, <1>7, <1>8, WorkerReturns

\* A call that goes on towards a pre-approval goes on from one, past the check of the start
\* time; no call leads to the rejection of an incomplete request.
LEMMA CallsGoOn ==
  ASSUME Inductive, [Next]_vars, job # Idle, job' # Idle
  PROVE  /\ job'.call \in PreApproving => job.call \in PreApproving
         /\ job'.call \in {"CommentPreApproved", "UpdatePreApproved"} =>
              \/ job.call \in {"CommentPreApproved", "UpdatePreApproved"}
              \/ Request.spec.startTime > now
         /\ job'.call = "UpdateSkipped" => UNCHANGED job
<1>1. job \in Jobs
  BY CopyInHand DEF Inductive
<1>2. CASE UNCHANGED job
  BY <1>2
<1>3. ~Reconciles
  BY DEF Reconciles, Reconcile
<1>4. CASE Work \/ CallFails \/ AnswerLost
  <2>1. ASSUME NEW c, Call(c)  PROVE job'.call = c
    BY <1>1, <2>1 DEF Call, Jobs
  <2>2. CASE Checks
    BY <2>2 DEF Checks, CreateIssue, AfterTicket, Reads, PreApproving, At
  <2>3. CASE CleansUp \/ \E i : BindFrom(i)
    BY <1>1, <2>3 DEF CleansUp, BindFrom, Jobs, PreApproving, Reads
  <2>4. CASE Call("UpdateSucceeded") \/ Call("DeleteRejected") \/ Call("UpdateRejected")
    BY <2>1, <2>4 DEF PreApproving, Reads
  <2>5. ASSUME NEW c \in Calls, Call(c), <<job.call, c>> \in Turns
        PROVE  /\ job'.call \in PreApproving => job.call \in PreApproving
               /\ job'.call \in {"CommentPreApproved", "UpdatePreApproved"} =>
                    job.call \in {"CommentPreApproved", "UpdatePreApproved"}
               /\ job'.call # "UpdateSkipped"
    BY <2>1, <2>5 DEF PreApproving, Reads, Turns
  <2> QED
    BY <1>4, <2>2, <2>3, <2>4, <2>5, WorkerTurns DEF Inductive
<1> QED
  BY <1>2, <1>3, <1>4, JobMoves

\* WillComeBack is kept.
LEMMA WillComeBackStep ==
  ASSUME Inductive, NothingDropped, Chained, UidsEarlier, NoneIncomplete, OldTells,
         WillComeBack, NamesTell, [Next]_vars
  PROVE  WillComeBack'
<1>1. CASE job' = Idle
  BY <1>1 DEF WillComeBack
<1>2. ASSUME NEW n \in Names, Reconcile(n), job' # Idle  PROVE WillComeBack'
  <2>1. /\ job'.name = n /\ Request' = Cached(n) /\ job'.rev = seen[n]
        /\ Found(n) /\ UNCHANGED <<log, seen, now>>
        /\ job'.call \in {"DeleteRejected", "CommentRejected", "FindReporter",
                          "UpdateSkipped", "GetIssue", "DeleteExpired"}
        /\ job'.call = "FindReporter" => Complete(Cached(n).spec)
        /\ job'.call = "UpdateSkipped" => ~Complete(Cached(n).spec) /\ Cached(n).state = ""
    BY <1>2, ReconcileStarts
  <2>2. ASSUME job'.call = "UpdateSkipped", Live(n)
        PROVE  seen[n] = Len(log[n]) \/ EventToCome(n)
    <3>1. seen[n] \in 1..Len(log[n]) /\ Cached(n) = log[n][seen[n]]
      BY <2>1, CopyInCache DEF Inductive
    <3>2. Len(log[n]) \in Nat
      BY DEF Inductive, TypeOK
    <3>3. CASE seen[n] < Len(log[n]) /\ Cached(n).uid = Latest(n).uid
      BY <2>1, <2>2, <3>1, <3>3 DEF OldTells, Live, EventToCome
    <3> QED
      BY <3>1, <3>2, <3>3 DEF EventToCome
  <2>3. /\ Live(n)' = Live(n) /\ EventToCome(n)' = EventToCome(n)
    BY <2>1 DEF Live, Latest, EventToCome, Found, Cached
  <2> QED
    BY <2>1, <2>2, <2>3 DEF WillComeBack, PreApproving, Reads, At, UpToDate
<1>3. CASE job # Idle /\ job' # Idle
  <2>1. /\ job \in Jobs /\ job'.name = job.name /\ UNCHANGED now
        /\ (job'.rev = job.rev /\ job'.call # "None") \/ CleansUp
    BY <1>3, JobGoesOn, ClockStops DEF NothingDropped
  <2>2. CASE CleansUp
    BY <2>1, <2>2 DEF CleansUp, WillComeBack, PreApproving, Reads, At, Jobs
  <2>3. CASE job'.rev = job.rev
    <3>1. Request' = Request
      BY <1>3, <2>1, <2>3, CopyStays, StepFootprint DEF Request, Inductive
    <3>2. ASSUME job'.call = "UpdateSkipped", NEW n \in Names, n = job.name, Live(n)'
          PROVE  UpToDate' \/ n \in queue' \/ EventToCome(n)'
      <4>1. UNCHANGED job /\ At("UpdateSkipped")
        BY <1>3, <3>2, CallsGoOn DEF At
      <4>2. ~Complete(Request.spec)
        BY <1>3, <4>1 DEF WillComeBack
      <4>3. ~EveryoneComplete
        BY <1>3, <4>2, CopyInHand DEF NoneIncomplete, Inductive, Jobs, Request
      <4>4. \A v : ~Edited(n, v) /\ ~Updated(n, v)
        <5>1. ~CleansUp
          BY <4>1 DEF CleansUp, At
        <5> QED
          BY <1>3, <4>3, <5>1 DEF NothingDropped, Edited, Updated
      <4>5. SUFFICES ASSUME /\ Live(n) /\ log'[n] = log[n] /\ Latest(n)' = Latest(n)
                            /\ Latest(n)'.uid = Latest(n).uid
                     PROVE  UpToDate' \/ n \in queue' \/ EventToCome(n)'
        BY <3>2, <4>4, LiveBefore
      <4>6. UpToDate \/ n \in queue \/ EventToCome(n)
        BY <1>3, <3>2, <4>1, <4>5 DEF WillComeBack
      <4>7. CASE UpToDate
        BY <3>2, <4>1, <4>5, <4>7 DEF UpToDate
      <4>8. CASE n \in queue
        BY <1>3, <4>8, QueueMoves DEF Reconcile, Restart
      <4>9. CASE EventToCome(n)
        BY <3>2, <4>5, <4>9, EventStays
      <4> QED
        BY <4>6, <4>7, <4>8, <4>9
    <3> QED
      BY <1>3, <2>1, <3>1, <3>2, CallsGoOn DEF WillComeBack, At, Jobs
  <2> QED
    BY <2>1, <2>2, <2>3
<1>4. job = Idle /\ job' # Idle => Reconciles
  BY JobMoves DEF Work, CallFails, AnswerLost, FaultyCall
<1> QED
  BY <1>1, <1>2, <1>3, <1>4 DEF Reconciles

\* A reconcile ends by its return or by a restart.
LEMMA JobEnds ==
  ASSUME [Next]_vars, job # Idle, job' = Idle
  PROVE  Restart \/ Work \/ CallFails \/ AnswerLost
BY DEF Next, Operator, Reconcile, ConfigChanges, ConfigPublished, ConfigCompiled,
       ConfigSaved, ConfigLost, CollectGarbage, Tick, Deliver, Relist, TakeOver, WakeUp,
       WithdrawRequest, CreateRequest, EditRequest, ApproveTicket, VetoTicket, vars

\* NobodyIsForgotten is kept.
LEMMA NobodyIsForgottenStep ==
  ASSUME Inductive, NothingDropped, Chained, UidsEarlier, NoneIncomplete, OldTells,
         WillComeBack, NamesTell, NobodyIsForgotten, [Next]_vars
  PROVE  NobodyIsForgotten'
<1>1. SUFFICES ASSUME NEW n \in Names, Live(n)'  PROVE Kept(n)'
  BY DEF NobodyIsForgotten, Kept
<1>2. CASE EventToCome(n)'
  BY <1>2 DEF Kept
<1>3. CASE Restart
  <2>1. Live(n)
    BY <1>1, <1>3 DEF Restart, Live, Latest
  <2> QED
    BY <1>3, <2>1 DEF Restart, Kept
<1>4. CASE job # Idle /\ job.name = n /\ ~Restart
  BY <1>1, <1>4, JobEnds, ReturnRemembers, JobGoesOn DEF Kept
<1>5. CASE Reconcile(n)
  BY <1>1, <1>5, ReconcileRemembers
<1>6. ASSUME Live(n), Latest(n)'.uid = Latest(n).uid,
             ~(job # Idle /\ job.name = n), ~Restart, ~Reconcile(n),
             \/ Latest(n)' = Latest(n)
             \/ \E v \in Versions : Latest(n)' = v /\ Edited(n, v)
      PROVE  Kept(n)'
  <2>1. /\ Latest(n)'.state = Latest(n).state
        /\ Latest(n)'.startTime = Latest(n).startTime
        /\ Latest(n)'.endTime = Latest(n).endTime
    BY <1>6 DEF Edited
  <2>2. n \in queue \/ DelayRuns(n) \/ EventToCome(n)
    BY <1>6 DEF NobodyIsForgotten
  <2>3. CASE n \in queue
    BY <1>6, <2>3, QueueMoves DEF Kept
  <2>4. CASE DelayRuns(n)
    <3>1. wake'[n] <= wake[n] \/ n \in queue'
      BY <1>6, WakeMoves DEF Inductive
    <3>2. /\ wake[n] \in Nat /\ wake'[n] \in Nat /\ now \in Nat /\ now' \in Nat /\ now <= now'
          /\ Latest(n).startTime \in Nat /\ Latest(n).endTime \in Nat
      <4>1. wake' \in [Names -> Nat]
        BY WakeStep DEF Inductive
      <4> QED
        BY <1>6, <4>1, TimeStep, LatestThere DEF Inductive, TypeOK, Versions
    <3>3. CASE wake'[n] <= wake[n]
      BY <2>1, <2>4, <3>2, <3>3 DEF DelayRuns, Kept
    <3> QED
      BY <3>1, <3>3 DEF Kept
  <2>5. CASE EventToCome(n)
    BY <1>1, <1>6, <2>1, <2>5, EventStays DEF Kept
  <2> QED
    BY <2>2, <2>3, <2>4, <2>5
<1>7. ASSUME NEW v \in Versions, Updated(n, v)  PROVE job # Idle /\ job.name = n
  BY <1>7 DEF Updated, WorkerWrites
<1> QED
  BY <1>1, <1>2, <1>3, <1>4, <1>5, <1>6, <1>7, LiveBefore

\* Used once or not, names tell.
LEMMA NamesTellAlways == Spec => []NamesTell
<1>1. CASE NamesOnce
  <2>1. OnceInductive => NamesTell
    BY DEF OnceInductive, NamesTell
  <2> QED
    BY <1>1, <2>1, OnceInvariant, PTL
<1>2. CASE ~NamesOnce
  <2>1. NamesTell
    BY <1>2 DEF NamesTell
  <2> QED
    BY <2>1, PTL
<1> QED
  BY <1>1, <1>2

\* All of it holds.
LEMMA MemoryInvariant ==
  ASSUME NothingDropped  PROVE Spec => []Memory
<1>1. Init => Memory
  <2>1. SUFFICES ASSUME Init  PROVE Memory
    OBVIOUS
  <2>2. /\ job = Idle
        /\ \A n \in Names : log[n] = <<>> /\ 1..Len(log[n]) = {} /\ ~Live(n)
    BY <2>1 DEF Init, ApiInit, Live
  <2> QED
    BY <2>2
       DEF Memory, Chained, UidsEarlier, NoneIncomplete, OldTells, WillComeBack,
           NobodyIsForgotten
<1>2. Inductive /\ NamesTell /\ Memory /\ [Next]_vars => Memory'
  BY ChainedStep, UidsEarlierStep, NoneIncompleteStep, OldTellsStep, WillComeBackStep,
     NobodyIsForgottenStep
     DEF Memory
<1> QED
  BY <1>1, <1>2, InductiveInvariant, NamesTellAlways, PTL DEF Spec

\* No request is lost, whichever calls fail and whenever the operator stops: as long as it
\* is there it is queued, in hand, delayed to its next date or about to be brought back by
\* an event (jitRequestPredicate, RequeueAfter, handlePreApproved, handleCleanup).
THEOREM NobodyIsLost ==
  ASSUME NothingDropped  PROVE Spec => []NobodyIsForgotten
<1>1. Memory => NobodyIsForgotten
  BY DEF Memory
<1> QED
  BY <1>1, MemoryInvariant, PTL
=============================================================================
