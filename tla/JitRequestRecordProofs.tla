------------------------ MODULE JitRequestRecordProofs ------------------------
(***************************************************************************)
(* What holds as long as nothing comes between a ticket, an approval or a  *)
(* grant and its record in the status: a request has one ticket, whoever   *)
(* is approved is not rejected, and a rejected request holds no access.    *)
(***************************************************************************)
EXTENDS JitRequestOnceProofs

\* What would come between: a stale read, a crash, another writer of the same request.
Undisturbed ==
  /\ ~LaggingCache
  /\ Disturbances \intersect {"crash", "touch", "edit"} = {}

\* What leaves a ticket without its record: a failure, or an expression that does not
\* compile and takes the pattern away while the names are matched with it.
TicketsRecorded ==
  /\ Undisturbed
  /\ \A v \in 1..Len(Configs) : Expression(v) # "invalid"
  /\ Faulty \intersect {"CreateIssue", "CommentPreApproved", "UpdatePreApproved",
                        "UpdateRejected"} = {}

\* The failures that leave a grant without its record: the calls in which a reconcile
\* learns of the approval, completes the ticket and writes that down are answered.
AnswersHeard == Faulty \intersect {"GetIssue", "MoveCompleted", "UpdateSucceeded"} = {}

GrantsRecorded == TicketsRecorded /\ AnswersHeard

-----------------------------------------------------------------------------
(* An incarnation is one thing, alive or not.                                *)

\* A uid is the place of its creation, which is never after the version that has it.
UidsEarlier == \A n \in Names : \A i \in 1..Len(log[n]) : log[n][i].uid <= i

\* A ticket is filed for an incarnation that was created.
TicketsBefore ==
  \A k \in 1..Len(tickets) : tickets[k].owner[2] <= Len(log[tickets[k].owner[1]])

\* The worker goes on with the request it has in hand.
LEMMA JobGoesOn ==
  ASSUME Inductive, [Next]_vars, job # Idle, job' # Idle
  PROVE  /\ job \in Jobs /\ job'.name = job.name
         /\ (job'.rev = job.rev /\ job'.call # "None") \/ CleansUp
<1>1. job \in Jobs
  BY CopyInHand DEF Inductive
<1>2. CASE UNCHANGED job
  BY <1>1, <1>2 DEF Jobs, Calls, Reads
<1>3. CASE Work \/ CallFails \/ AnswerLost
  <2>1. CASE Checks
    BY <1>1, <2>1 DEF Checks, AfterTicket, Reads
  <2>2. CASE CleansUp
    BY <1>1, <2>2 DEF CleansUp, Jobs
  <2>3. ASSUME NEW i, BindFrom(i)
        PROVE  job'.name = job.name /\ job'.rev = job.rev /\ job'.call # "None"
    BY <1>1, <2>3 DEF BindFrom, Jobs
  <2>4. ASSUME NEW c \in Calls, Call(c)
        PROVE  job'.name = job.name /\ job'.rev = job.rev /\ job'.call # "None"
    BY <1>1, <2>4 DEF Call, Jobs, Calls
  <2>5. {"UpdateSucceeded", "UpdateRejected", "DeleteRejected"} \subseteq Calls
    BY DEF Calls
  <2> QED
    BY <1>1, <1>3, <2>1, <2>2, <2>3, <2>4, <2>5, WorkerTurns DEF Inductive
<1>4. ~Reconciles
  BY DEF Reconciles, Reconcile
<1> QED
  BY <1>2, <1>3, <1>4, JobMoves

\* A request that is not new was there before; its versions are the same unless the worker
\* wrote its status.
LEMMA AliveBefore ==
  ASSUME Inductive, Undisturbed, [Next]_vars,
         NEW n \in Names, NEW u \in Nat, u <= Len(log[n]), Alive(n, u)'
  PROVE  /\ Alive(n, u)
         /\ \/ log'[n] = log[n]
            \/ n = job.name /\ u = Request.uid /\ WorkerWrites /\ (job' = Idle \/ CleansUp)
<1>1. CASE log'[n] = log[n]
  BY <1>1 DEF Alive, Live, Latest
<1>2. ASSUME NEW m \in Names, NEW v \in Versions, Write(m, v), Fresh(m, v) \/ Rewritten(m, v),
             log'[n] # log[n]
      PROVE  /\ Alive(n, u)
             /\ n = job.name /\ u = Request.uid /\ WorkerWrites /\ (job' = Idle \/ CleansUp)
  <2>1. m = n /\ Latest(n)' = v /\ Len(log[n]) \in Nat
    BY <1>2, WriteAtEnd DEF Inductive
  <2>2. v.uid = u /\ v.state # "Deleted"
    BY <2>1 DEF Alive, Live
  <2>3. u # Len(log[n]) + 1
    BY <2>1
  <2>4. ~Fresh(n, v) /\ ~Gone(n, v) /\ ~Edited(n, v)
    BY <2>2, <2>3 DEF Fresh, Gone, Edited, Undisturbed
  <2> QED
    BY <1>2, <2>1, <2>2, <2>4 DEF Rewritten, Updated, Alive
<1> QED
  BY <1>1, <1>2, LogGoesOn

\* UidsEarlier is kept: a new uid is the place of its creation.
LEMMA UidsEarlierStep ==
  ASSUME Inductive, UidsEarlier, [Next]_vars
  PROVE  UidsEarlier'
<1>1. CASE UNCHANGED log
  BY <1>1 DEF UidsEarlier
<1>2. ASSUME NEW n \in Names, NEW v \in Versions, Write(n, v), Fresh(n, v) \/ Rewritten(n, v)
      PROVE  UidsEarlier'
  <2>1. /\ Len(log[n]) \in Nat /\ Len(log'[n]) = Len(log[n]) + 1
        /\ \A m \in Names : m # n => log'[m] = log[m]
        /\ \A i \in 1..Len(log'[n]) :
             \/ i \in 1..Len(log[n]) /\ log'[n][i] = log[n][i]
             \/ i = Len(log[n]) + 1 /\ log'[n][i] = v
    BY <1>2, WriteAtEnd DEF Inductive
  <2>2. v.uid <= Len(log[n]) + 1
    <3>1. CASE Fresh(n, v)
      <4>1. v.uid = Len(log[n]) + 1
        BY <3>1 DEF Fresh
      <4> QED
        BY <2>1, <4>1
    <3>2. CASE Rewritten(n, v)
      <4>1. Latest(n) \in Versions /\ Latest(n).uid <= Len(log[n]) /\ v.uid = Latest(n).uid
        BY <3>2, LatestThere DEF Rewritten, Inductive, UidsEarlier
      <4> QED
        BY <2>1, <4>1 DEF Versions
    <3> QED
      BY <1>2, <3>1, <3>2
  <2> QED
    BY <2>1, <2>2 DEF UidsEarlier
<1> QED
  BY <1>1, <1>2, LogGoesOn

-----------------------------------------------------------------------------
(* One ticket for each request.                                              *)

\* The copy in hand is the request as it is, if that request is there at all.
InHand == job # Idle /\ Alive(job.name, Request.uid) => UpToDate

\* Whoever is about to create a ticket is about to create the first.
Unfiled ==
  job # Idle /\ job.call \in {"FindReporter", "CreateIssue"} =>
    \A k \in 1..Len(tickets) : tickets[k].owner # Owner

\* The calls between a ticket and its record.
Recording == AfterTicket \union {"UpdatePreApproved"}

\* A request that is still new has a ticket only while the worker is recording it.
Filed ==
  \A k \in 1..Len(tickets), n \in Names :
    Live(n) /\ Latest(n).state = "" /\ tickets[k].owner = <<n, Latest(n).uid>> =>
      job # Idle /\ Owner = tickets[k].owner /\ job.call \in Recording

\* Whoever reads the pattern will find one.
PatternThere == job # Idle /\ job.call \in Reads => pattern # 0

Records ==
  /\ UidsEarlier /\ TicketsBefore /\ InHand /\ PatternThere
  /\ Unfiled /\ Filed /\ OneTicketEach

\* A ticket stays its owner's, and a new one is filed for the request in hand.
LEMMA TicketsFiled ==
  ASSUME Inductive, [Next]_vars
  PROVE  /\ tickets \in Seq(TicketRecords) /\ tickets' \in Seq(TicketRecords)
         /\ \A k \in 1..Len(tickets) : tickets'[k].owner = tickets[k].owner
         /\ \/ Len(tickets') = Len(tickets)
            \/ /\ job # Idle /\ At("CreateIssue") /\ FileTicket(Owner)
               /\ Len(tickets') = Len(tickets) + 1
               /\ tickets'[Len(tickets) + 1] = [owner |-> Owner, status |-> "Todo"]
<1>1. /\ Grows /\ tickets \in Seq(TicketRecords) /\ tickets' \in Seq(TicketRecords)
  BY StepFootprint, FootprintGrows DEF Inductive, TypeOK
<1>2. \A k \in 1..Len(tickets) : tickets'[k].owner = tickets[k].owner
  BY <1>1 DEF Grows
<1>3. ASSUME NEW k, NEW a, Move(k, a)  PROVE Len(tickets') = Len(tickets)
  BY <1>1, <1>3 DEF Move
<1>4. ASSUME FileTicket(Owner)
      PROVE  /\ Len(tickets') = Len(tickets) + 1
             /\ tickets'[Len(tickets) + 1] = [owner |-> Owner, status |-> "Todo"]
  BY <1>1, <1>4 DEF FileTicket
<1> QED
  BY <1>1, <1>2, <1>3, <1>4, TicketMoves DEF Inductive

\* A ticket is filed by a call that is answered.
LEMMA OwnersMove ==
  ASSUME Inductive, TicketsRecorded, [Next]_vars
  PROVE  /\ tickets \in Seq(TicketRecords) /\ tickets' \in Seq(TicketRecords)
         /\ \A k \in 1..Len(tickets) : tickets'[k].owner = tickets[k].owner
         /\ \/ Len(tickets') = Len(tickets)
            \/ /\ job # Idle /\ CreateIssue /\ Len(tickets') = Len(tickets) + 1
               /\ tickets'[Len(tickets) + 1] = [owner |-> Owner, status |-> "Todo"]
<1>1. tickets \in Seq(TicketRecords)
  BY TicketsFiled
<1>2. ASSUME NEW k, NEW a, Move(k, a)  PROVE Len(tickets') = Len(tickets)
  BY <1>1, <1>2 DEF Move
<1>3. ASSUME job # Idle, At("CreateIssue"), Len(tickets') = Len(tickets) + 1
      PROVE  CreateIssue
  <2>1. Len(tickets') # Len(tickets)
    <3>1. Len(tickets) \in Nat
      BY <1>1
    <3> QED
      BY <1>3, <3>1
  <2>2. ~CallFails /\ ~AnswerLost
    BY <1>3 DEF CallFails, AnswerLost, FaultyCall, TicketsRecorded, At
  <2>3. Work
    BY <1>2, <2>1, <2>2
       DEF Next, Operator, Reconcile, Restart, ConfigChanges, ConfigPublished, ConfigCompiled,
           ConfigSaved, ConfigLost, CollectGarbage, Tick, Deliver, Relist, TakeOver, WakeUp,
           WithdrawRequest, CreateRequest, EditRequest, ApproveTicket, VetoTicket, vars, apiVars
  <2>4. CreateIssue
    BY <1>3, <2>3
       DEF Work, FindReporter, ListNamespaces, MatchNamespace, QuotePattern,
           CommentPreApproved, UpdatePreApproved, UpdateRejected, UpdateSkipped, GetIssue,
           CreateRoleBinding, CommentCompleted, MoveCompleted, UpdateSucceeded,
           CommentRejected, MoveRejected, DeleteRequest, At
  <2> QED
    BY <2>4
<1> QED
  BY <1>3, TicketsFiled

\* TicketsBefore is kept.
LEMMA TicketsBeforeStep ==
  ASSUME Inductive, UidsEarlier, TicketsBefore, [Next]_vars
  PROVE  TicketsBefore'
<1>1. /\ Grows
      /\ log \in [Names -> Seq(Versions)] /\ log' \in [Names -> Seq(Versions)]
  BY StepFootprint, FootprintGrows DEF Inductive, TypeOK
<1>2. ASSUME NEW n \in Names, NEW u \in Nat, u <= Len(log[n])  PROVE u <= Len(log'[n])
  <2>1. Len(log[n]) <= Len(log'[n]) /\ Len(log[n]) \in Nat /\ Len(log'[n]) \in Nat
    BY <1>1 DEF Grows
  <2> QED
    BY <1>2, <2>1
<1>3. ASSUME NEW k \in 1..Len(tickets)
      PROVE  tickets'[k].owner[2] <= Len(log'[tickets'[k].owner[1]])
  <2>1. tickets[k] \in TicketRecords /\ tickets'[k].owner = tickets[k].owner
    BY TicketsFiled
  <2>2. tickets[k].owner[1] \in Names /\ tickets[k].owner[2] \in Nat
    BY <2>1 DEF TicketRecords
  <2> QED
    BY <1>2, <2>1, <2>2 DEF TicketsBefore
<1>4. ASSUME job # Idle  PROVE Owner[2] <= Len(log'[Owner[1]])
  <2>1. job.name \in Names /\ job.rev \in 1..Len(log[job.name]) /\ Request \in Versions
    BY <1>4, CopyInHand DEF Inductive, Jobs
  <2>2. Request.uid <= job.rev
    BY <2>1 DEF UidsEarlier, Request
  <2>3. Request.uid \in Nat /\ Len(log[job.name]) \in Nat
    BY <1>1, <2>1 DEF Versions
  <2>4. Request.uid <= Len(log[job.name])
    BY <2>1, <2>2, <2>3
  <2> QED
    BY <1>2, <2>1, <2>3, <2>4 DEF Owner
<1>5. Len(tickets) \in Nat
  BY TicketsFiled
<1> QED
  BY <1>3, <1>4, <1>5, TicketsFiled DEF TicketsBefore

\* InHand is kept: a reconcile starts from the last version, and only the worker writes to
\* a request that stays.
LEMMA InHandStep ==
  ASSUME Inductive, Undisturbed, UidsEarlier, InHand, [Next]_vars
  PROVE  InHand'
<1>1. log \in [Names -> Seq(Versions)] /\ log' \in [Names -> Seq(Versions)]
  BY StepFootprint, FootprintGrows DEF Inductive, TypeOK
<1>2. CASE job' = Idle
  BY <1>2 DEF InHand
<1>3. ASSUME NEW n \in Names, Reconcile(n), job' # Idle  PROVE InHand'
  <2>1. job'.name = n /\ job'.rev = seen[n] /\ UNCHANGED log
    BY <1>3, ReconcileCalls DEF Inductive
  <2>2. seen[n] = Len(log[n])
    BY <1>3 DEF Reconcile, Undisturbed
  <2> QED
    BY <2>1, <2>2 DEF InHand, UpToDate
<1>4. CASE job # Idle /\ job' # Idle
  <2>1. PICK n \in Names : n = job.name
    BY <1>4, CopyInHand DEF Inductive, Jobs
  <2>2. job.rev \in 1..Len(log[n]) /\ Request \in Versions /\ log'[n][job.rev] = Request
    BY <1>4, <2>1, CopyInHand, CopyStays, StepFootprint DEF Inductive
  <2>3. PICK u \in Nat : u = Request.uid
    BY <2>2 DEF Versions
  <2>4. u <= Len(log[n])
    <3>1. u <= job.rev
      BY <2>1, <2>2, <2>3 DEF UidsEarlier, Request
    <3>2. Len(log[n]) \in Nat
      BY <1>1
    <3> QED
      BY <2>2, <3>1, <3>2
  <2>5. CleansUp => job'.rev = job.rev + 1 /\ job.rev \in Nat
    BY <1>4, JobGoesOn DEF CleansUp, Jobs
  <2>6. CASE CleansUp
    <3> DEFINE v == [Request EXCEPT !.state = "Succeeded", !.ticket = job.issue,
                                    !.startTime = Request.spec.startTime,
                                    !.endTime = Request.spec.endTime]
    <3>1. job \in Jobs /\ Request.spec \in SpecType
      BY <1>4, CopyInHand DEF Inductive
    <3>2. v \in Versions
      BY <2>2, <3>1 DEF Versions, SpecType, Jobs, States
    <3>3. Write(n, v) /\ job.rev = Len(log[n])
      BY <2>1, <2>6 DEF CleansUp, updateStatus, UpToDate
    <3> HIDE DEF v
    <3>4. Len(log'[n]) = Len(log[n]) + 1
      BY <1>1, <3>2, <3>3, WriteAppends
    <3> QED
      BY <1>4, <2>1, <2>5, <2>6, <3>3, <3>4, JobGoesOn DEF InHand, UpToDate
  <2>7. CASE ~CleansUp
    <3>1. job'.name = n /\ job'.rev = job.rev
      BY <1>4, <2>1, <2>7, JobGoesOn
    <3>2. Request' = Request
      BY <2>2, <3>1 DEF Request
    <3>3. ASSUME Alive(n, u)'  PROVE job.rev = Len(log'[n])
      <4>1. Alive(n, u) /\ log'[n] = log[n]
        BY <1>4, <2>1, <2>3, <2>4, <2>7, <3>3, AliveBefore
      <4> QED
        BY <1>4, <2>1, <2>3, <4>1 DEF InHand, UpToDate
    <3> QED
      BY <2>3, <3>1, <3>2, <3>3 DEF InHand, UpToDate, Alive, Live, Latest
  <2> QED
    BY <2>6, <2>7
<1>5. job = Idle /\ job' # Idle => Reconciles
  BY JobMoves DEF Work, CallFails, AnswerLost, FaultyCall
<1> QED
  BY <1>2, <1>3, <1>4, <1>5 DEF Reconciles

\* A reconcile that goes on has found the request as it is.
LEMMA ReconcileFinds ==
  ASSUME Inductive, Undisturbed, NEW n \in Names, Reconcile(n), job' # Idle
  PROVE  /\ Live(n) /\ Request' = Latest(n) /\ Latest(n) \in Versions /\ job'.name = n
         /\ job'.call \in {"FindReporter", "UpdateSkipped"} => Latest(n).state = ""
         /\ UNCHANGED <<log, tickets, bindings>>
<1>1. /\ job'.name = n /\ job'.rev = seen[n] /\ seen[n] \in 1..Len(log[n])
      /\ UNCHANGED <<log, tickets>>
  BY ReconcileCalls DEF Inductive
<1>2. seen[n] = Len(log[n])
  BY DEF Reconcile, Undisturbed
<1>3. Found(n) /\ UNCHANGED bindings
  BY DEF Reconcile, handleFetchError, ReadConfigFromFile, Done, Retry
<1>4. Cached(n) = Latest(n) /\ Cached(n) \in Versions /\ log[n] # <<>>
  BY <1>1, <1>2, <1>3, CopyInCache DEF Inductive, Latest
<1>5. Request' = Latest(n)
  BY <1>1, <1>2 DEF Request, Latest
<1>6. job'.call \in {"FindReporter", "UpdateSkipped"} => Cached(n).state = ""
  <2>1. CASE handleRejected(n)
    <3>1. PICK c \in {"DeleteRejected", "CommentRejected"}, k \in {Cached(n).ticket} :
            Begin(n, c, k)
      BY <2>1 DEF handleRejected
    <3>2. job'.call = c
      BY <3>1 DEF Begin
    <3> QED
      BY <3>2
  <2>2. CASE handlePreApproved(n)
    BY <2>2 DEF handlePreApproved, RequeueAt, Begin
  <2>3. CASE handleCleanup(n)
    BY <2>3 DEF handleCleanup, RequeueAt, Begin
  <2> QED
    BY <1>3, <2>1, <2>2, <2>3 DEF Reconcile, handleFetchError, ReadConfigFromFile, Retry,
                                  handleNewRequest
<1> QED
  BY <1>1, <1>3, <1>4, <1>5, <1>6 DEF Found, Live

\* Unfiled is kept: at the beginning nobody is recording, so no ticket is there.
LEMMA UnfiledStep ==
  ASSUME Inductive, TicketsRecorded, Unfiled, Filed, [Next]_vars
  PROVE  Unfiled'
<1>1. CASE job' = Idle
  BY <1>1 DEF Unfiled
<1>2. ASSUME NEW n \in Names, Reconcile(n), job' # Idle  PROVE Unfiled'
  <2>1. /\ Live(n) /\ Request' = Latest(n) /\ job'.name = n /\ UNCHANGED <<log, tickets>>
        /\ job'.call = "FindReporter" => Latest(n).state = ""
    BY <1>2, ReconcileFinds DEF TicketsRecorded
  <2>2. job = Idle /\ job'.call # "CreateIssue"
    BY <1>2, ReconcileCalls DEF Inductive, Reconcile
  <2> QED
    BY <2>1, <2>2 DEF Unfiled, Filed, Owner
<1>3. CASE job # Idle /\ job' # Idle
  <2>1. /\ Len(tickets) \in Nat
        /\ \A k \in 1..Len(tickets) : tickets'[k].owner = tickets[k].owner
    BY OwnersMove
  <2>2. job \in Jobs
    BY <1>3, CopyInHand DEF Inductive
  <2>3. CASE Checks \/ CleansUp
    <3>1. job'.call \notin {"FindReporter", "CreateIssue"}
      BY <2>2, <2>3 DEF Checks, AfterTicket, Reads, CleansUp, Jobs
    <3> QED
      BY <3>1 DEF Unfiled
  <2>4. CASE ~Checks /\ ~CleansUp
    <3>1. Len(tickets') = Len(tickets)
      BY <1>3, <2>4, ChecksGoOn, OwnersMove DEF Inductive
    <3>2. job'.name = job.name /\ job'.rev = job.rev
      BY <1>3, <2>4, JobGoesOn
    <3>3. Request' = Request
      BY <1>3, <3>2, CopyStays, StepFootprint DEF Request, Inductive
    <3>4. job'.call \in {"FindReporter", "CreateIssue"} =>
            job.call \in {"FindReporter", "CreateIssue"}
      <4>1. CASE UNCHANGED job
        BY <4>1
      <4>2. CASE Work \/ CallFails \/ AnswerLost
        <5>1. ASSUME NEW i, BindFrom(i)  PROVE job'.call \notin {"FindReporter", "CreateIssue"}
          BY <2>2, <5>1 DEF BindFrom, Jobs
        <5>2. ASSUME NEW c, Call(c)  PROVE job'.call = c
          BY <2>2, <5>2 DEF Call, Jobs
        <5>4. \A c : <<job.call, c>> \in Turns /\ c \in {"FindReporter", "CreateIssue"} =>
                       job.call = "FindReporter"
          BY DEF Turns
        <5> QED
          BY <1>3, <2>4, <4>2, <5>1, <5>2, <5>4, WorkerTurns DEF Inductive
      <4>3. ~Reconciles
        BY <1>3 DEF Reconciles, Reconcile
      <4> QED
        BY <1>3, <4>1, <4>2, <4>3, JobMoves
    <3> QED
      BY <1>3, <2>1, <3>1, <3>2, <3>3, <3>4 DEF Unfiled, Owner
  <2> QED
    BY <2>3, <2>4
<1>4. job = Idle /\ job' # Idle => Reconciles
  BY JobMoves DEF Work, CallFails, AnswerLost, FaultyCall
<1> QED
  BY <1>1, <1>2, <1>3, <1>4 DEF Reconciles

\* PatternThere is kept: a pattern goes with a restart, which ends the reconcile, or with an
\* expression that does not compile.
LEMMA PatternThereStep ==
  ASSUME Inductive, TicketsRecorded, PatternThere, [Next]_vars
  PROVE  PatternThere'
<1>1. CASE job' = Idle \/ job'.call \notin Reads
  BY <1>1 DEF PatternThere
<1>2. CASE UNCHANGED job /\ job # Idle /\ job.call \in Reads
  <2>1. pattern # 0
    BY <1>2 DEF PatternThere
  <2>2. ASSUME Compile  PROVE pattern' # 0
    <3>1. PICK v \in Published : Expression(v) = "invalid" \/ pattern' = v
      BY <2>2 DEF Compile
    <3>2. v \in 1..Len(Configs)
      BY <3>1, JitConfigAssumption DEF Published, Inductive, TypeOK
    <3> QED
      BY <3>1, <3>2 DEF TicketsRecorded
  <2>3. UNCHANGED pattern \/ Compile
    <3>1. CASE Work \/ CallFails \/ AnswerLost
      BY <3>1 DEF Work, CallFails, AnswerLost, configVars
    <3>2. ~Restart /\ ~\E n \in Names : Reconcile(n)
      BY <1>2 DEF Restart, Reconcile
    <3> QED
      BY <3>1, <3>2
         DEF Next, Operator, ConfigChanges, ConfigPublished, Publish, ConfigCompiled,
             ConfigSaved, Save, ConfigLost, Lose, CollectGarbage, Tick, Deliver, Relist,
             TakeOver, WakeUp, WithdrawRequest, CreateRequest, EditRequest, ApproveTicket,
             VetoTicket, vars, configVars
  <2> QED
    BY <2>1, <2>2, <2>3 DEF PatternThere
<1>3. CASE (Work \/ CallFails \/ AnswerLost) /\ job' # Idle /\ job'.call \in Reads
  <2>1. job # Idle /\ UNCHANGED pattern
    BY <1>3 DEF Work, CallFails, AnswerLost, FaultyCall, configVars
  <2>2. job \in Jobs
    BY <2>1, CopyInHand DEF Inductive
  <2>3. CASE job.call \in Reads
    BY <2>1, <2>3 DEF PatternThere
  <2>4. ASSUME job'.call = CallOfNames(Request.spec)  PROVE pattern # 0
    BY <1>3, <2>1, <2>4, CallsOfNames DEF CallOfNames, Reads, Inductive
  <2>5. CASE CreateIssue
    <3>1. job'.call = CallOfTicket(Request.spec)
      BY <2>2, <2>5 DEF CreateIssue, Jobs
    <3>2. job'.call = CallOfNames(Request.spec)
      BY <1>3, <3>1 DEF CallOfTicket, Reads
    <3> QED
      BY <2>1, <2>4, <3>2 DEF PatternThere
  <2>6. CASE ListNamespaces
    <3>1. job'.call = IF LabelsMatch(Request.spec) THEN CallOfNames(Request.spec)
                      ELSE "UpdateRejected"
      BY <2>2, <2>6 DEF ListNamespaces, Jobs
    <3>2. job'.call = CallOfNames(Request.spec)
      BY <1>3, <3>1 DEF Reads
    <3> QED
      BY <2>1, <2>4, <3>2 DEF PatternThere
  <2>7. CASE ~CreateIssue /\ ~ListNamespaces /\ job.call \notin Reads
    <3>1. ASSUME NEW i, BindFrom(i)  PROVE FALSE
      BY <1>3, <2>2, <3>1 DEF BindFrom, Jobs, Reads
    <3>2. ASSUME NEW c, Call(c)  PROVE c \in Reads
      BY <1>3, <2>2, <3>2 DEF Call, Jobs
    <3>3. ~CleansUp
      BY <1>3, <2>2 DEF CleansUp, Jobs, Reads
    <3>4. \A c : <<job.call, c>> \in Turns => c \notin Reads
      BY DEF Turns, Reads
    <3>5. \A c \in {"UpdateSucceeded", "DeleteRejected", "UpdateRejected"} : c \notin Reads
      BY DEF Reads
    <3>6. Checks
      BY <1>3, <2>1, <3>1, <3>2, <3>3, <3>4, <3>5, WorkerTurns DEF Inductive
    <3>7. At("ListNamespaces")
      BY <2>7, <3>6 DEF Checks, At
    <3>8. ~Work
      BY <2>7, <3>7
         DEF Work, FindReporter, MatchNamespace, QuotePattern, CommentPreApproved,
             UpdatePreApproved, UpdateRejected, UpdateSkipped, GetIssue, CreateRoleBinding,
             CommentCompleted, MoveCompleted, UpdateSucceeded, CommentRejected, MoveRejected,
             DeleteRequest, At
    <3>9. OnError
      BY <1>3, <3>8 DEF CallFails, AnswerLost, Refused
    <3>10. Call("UpdateRejected")
      BY <3>7, <3>9 DEF OnError, At
    <3> QED
      BY <3>2, <3>5, <3>10
  <2> QED
    BY <2>3, <2>5, <2>6, <2>7
<1>4. ASSUME Reconciles, job' # Idle  PROVE job'.call \notin Reads
  BY <1>4, ReconcileCalls DEF Reconciles, Reads, Inductive
<1> QED
  BY <1>1, <1>2, <1>3, <1>4, JobMoves

\* While the request is there a record is written as soon as its call is made.
LEMMA RecordingStep ==
  ASSUME Inductive, "crash" \notin Disturbances, [Next]_vars,
         job # Idle, job.call \in Recording \union {"UpdateSucceeded"},
         job.call \in Faulty => At("ListNamespaces"), job.call \in Reads => pattern # 0,
         UpToDate, log'[job.name] = log[job.name]
  PROVE  UNCHANGED job \/ Checks \/ (At("CommentPreApproved") /\ Call("UpdatePreApproved"))
<1>1. CASE CallFails \/ AnswerLost
  <2>1. At("ListNamespaces") /\ CallFails
    BY <1>1 DEF CallFails, AnswerLost, FaultyCall, At
  <2>2. Call("UpdateRejected") /\ NoEffect /\ job \in Jobs
    BY <2>1, CopyInHand DEF CallFails, Refused, OnError, At, Inductive
  <2> QED
    BY <2>1, <2>2 DEF Checks, AfterTicket, Call, Jobs, At
<1>2. ASSUME NEW state, updateStatus(state)  PROVE FALSE
  <2>1. job \in Jobs /\ log[job.name] \in Seq(Versions)
    BY CopyInHand DEF Inductive, TypeOK, Jobs
  <2> DEFINE v == [Request EXCEPT !.state = state, !.ticket = job.issue,
                                  !.startTime = Request.spec.startTime,
                                  !.endTime = Request.spec.endTime]
  <2>2. log'[job.name] = Append(log[job.name], v)
    BY <1>2, <2>1 DEF updateStatus, Write, Inductive, TypeOK, Jobs
  <2>3. PICK S : Versions \union {v} = S
    OBVIOUS
  <2> HIDE DEF v
  <2>4. log[job.name] \in Seq(S) /\ v \in S
    BY <2>1, <2>3
  <2>5. Len(log'[job.name]) = Len(log[job.name]) + 1 /\ Len(log[job.name]) \in Nat
    BY <2>2, <2>4
  <2> QED
    BY <2>5
<1>3. ~Reconciles /\ ~Restart
  BY DEF Reconciles, Reconcile, Restart
<1>4. CASE Work
  <2>1. CASE ListNamespaces \/ MatchNamespace \/ QuotePattern
    BY <2>1, ChecksGoOn DEF MatchNamespace, QuotePattern, Reads, At, Inductive
  <2> QED
    BY <1>2, <1>4, <2>1
       DEF Recording, AfterTicket, Reads, Work, FindReporter, CreateIssue,
           CommentPreApproved, UpdatePreApproved, UpdateRejected, UpdateSkipped, GetIssue,
           CreateRoleBinding, CommentCompleted, MoveCompleted, UpdateSucceeded,
           CommentRejected, MoveRejected, DeleteRequest, At
<1> QED
  BY <1>1, <1>3, <1>4
     DEF Reconciles, Next, Operator, ConfigChanges, ConfigPublished, ConfigCompiled,
         ConfigSaved, ConfigLost, CollectGarbage, Tick, Deliver, Relist, TakeOver, WakeUp,
         WithdrawRequest, CreateRequest, EditRequest, ApproveTicket, VetoTicket, vars

\* Filed is kept: a ticket is followed by its record or by the end of the request.
LEMMA FiledStep ==
  ASSUME Inductive, TicketsRecorded, UidsEarlier, TicketsBefore, InHand, PatternThere, Filed,
         [Next]_vars
  PROVE  Filed'
<1>1. /\ tickets \in Seq(TicketRecords) /\ tickets' \in Seq(TicketRecords)
      /\ log' \in [Names -> Seq(Versions)]
      /\ \A k \in 1..Len(tickets) : tickets'[k].owner = tickets[k].owner
  BY OwnersMove, StepFootprint, FootprintGrows DEF Inductive
<1>2. SUFFICES ASSUME NEW k \in 1..Len(tickets'), NEW n \in Names, NEW u,
                      Live(n)', Latest(n)'.state = "", u = Latest(n)'.uid,
                      tickets'[k].owner = <<n, u>>
               PROVE  job' # Idle /\ Owner' = <<n, u>> /\ job'.call \in Recording
  BY DEF Filed
<1>3. CASE k \in 1..Len(tickets)
  <2>1. tickets[k].owner = <<n, u>> /\ tickets[k] \in TicketRecords
    <3>1. tickets'[k].owner = tickets[k].owner
      BY <1>1, <1>3
    <3>2. tickets[k] \in TicketRecords
      BY <1>1, <1>3
    <3> QED
      BY <1>2, <3>1, <3>2
  <2>2. u \in Nat /\ u <= Len(log[n])
    BY <1>3, <2>1 DEF TicketsBefore, TicketRecords
  <2>3. Alive(n, u)'
    BY <1>2 DEF Alive
  <2>4. ~(n = job.name /\ WorkerWrites)
    <3>1. ASSUME n = job.name, WorkerWrites  PROVE FALSE
      <4>1. PICK v \in Versions : Write(n, v) /\ v.state = StateAfter(job.call)
        BY <3>1, UpdateWrites DEF Inductive
      <4>2. Latest(n)' = v
        BY <4>1, WriteLatest DEF Inductive
      <4> QED
        BY <1>2, <4>1, <4>2 DEF StateAfter
    <3> QED
      BY <3>1
  <2>5. Alive(n, u) /\ log'[n] = log[n]
    BY <2>2, <2>3, <2>4, AliveBefore DEF TicketsRecorded
  <2>6. Latest(n)' = Latest(n)
    BY <2>5 DEF Latest
  <2>7. job # Idle /\ Owner = <<n, u>> /\ job.call \in Recording
    BY <1>2, <1>3, <2>1, <2>5, <2>6 DEF Filed, Alive
  <2>8. UpToDate /\ job.name = n /\ job \in Jobs /\ job.rev \in 1..Len(log[n])
    BY <2>5, <2>7, CopyInHand DEF InHand, Owner, Inductive
  <2>9. UNCHANGED job \/ Checks \/ (At("CommentPreApproved") /\ Call("UpdatePreApproved"))
    <3>1. job.call \in Faulty => At("ListNamespaces")
      BY <2>7, FaultyAssumption
         DEF TicketsRecorded, Recording, AfterTicket, Reads, Calls, At
    <3>2. job.call \in Reads => pattern # 0
      BY <2>7 DEF PatternThere
    <3> QED
      BY <2>5, <2>7, <2>8, <3>1, <3>2, RecordingStep DEF TicketsRecorded, Undisturbed
  <2>10. job'.name = n /\ job'.rev = job.rev /\ job'.call \in Recording /\ job' # Idle
    <3>1. CASE UNCHANGED job
      BY <2>7, <2>8, <3>1
    <3>2. CASE Call("UpdatePreApproved")
      <4>1. job'.call = "UpdatePreApproved" /\ job'.name = n /\ job'.rev = job.rev
        BY <2>8, <3>2 DEF Call, Jobs
      <4>2. job' # Idle
        BY <4>1 DEF Idle
      <4> QED
        BY <4>1, <4>2 DEF Recording
    <3>3. CASE Checks
      <4>1. job' # Idle
        BY <3>3 DEF Checks, AfterTicket, Reads, Idle
      <4> QED
        BY <2>8, <3>3, <4>1 DEF Checks, Recording
    <3> QED
      BY <2>9, <3>1, <3>2, <3>3
  <2>11. Request' = Request
    BY <2>5, <2>8, <2>10 DEF Request
  <2> QED
    BY <2>7, <2>10, <2>11 DEF Owner
<1>4. CASE job # Idle /\ CreateIssue /\ k = Len(tickets) + 1 /\ tickets'[k].owner = Owner
  <2>1. job \in Jobs
    BY <1>4, CopyInHand DEF Inductive
  <2>2. job'.name = job.name /\ job'.rev = job.rev /\ job'.call \in Recording
    BY <1>4, ChecksGoOn DEF Checks, Recording, Inductive
  <2>3. UNCHANGED log
    BY <1>4 DEF CreateIssue, FileIssue
  <2>4. job' # Idle
    BY <2>2 DEF Recording, AfterTicket, Reads, Idle
  <2> QED
    BY <1>2, <1>4, <2>2, <2>3, <2>4 DEF Owner, Request
<1>5. CASE k \notin 1..Len(tickets)
  <2>1. Len(tickets) \in Nat /\ Len(tickets') \in Nat
    BY <1>1
  <2>2. Len(tickets') # Len(tickets)
    BY <1>2, <1>5
  <2>3. /\ job # Idle /\ CreateIssue /\ Len(tickets') = Len(tickets) + 1
        /\ tickets'[Len(tickets) + 1] = [owner |-> Owner, status |-> "Todo"]
    BY <2>2, OwnersMove
  <2>4. k = Len(tickets) + 1
    <3>1. k \in 1..Len(tickets) + 1 /\ k \notin 1..Len(tickets)
      BY <1>2, <1>5, <2>3
    <3> QED
      BY <2>1, <3>1
  <2> QED
    BY <1>4, <2>3, <2>4
<1> QED
  BY <1>3, <1>5

\* One ticket stays one: another is filed only for a request without one.
LEMMA OneTicketEachStep ==
  ASSUME Inductive, TicketsRecorded, Unfiled, OneTicketEach, [Next]_vars
  PROVE  OneTicketEach'
<1>1. /\ tickets \in Seq(TicketRecords) /\ tickets' \in Seq(TicketRecords)
      /\ \A k \in 1..Len(tickets) : tickets'[k].owner = tickets[k].owner
      /\ \A j, k \in 1..Len(tickets) : tickets[j].owner = tickets[k].owner => j = k
  BY OwnersMove DEF OneTicketEach
<1>2. CASE Len(tickets') = Len(tickets)
  BY <1>1, <1>2 DEF OneTicketEach
<1>3. CASE job # Idle /\ CreateIssue /\ Len(tickets') = Len(tickets) + 1
           /\ tickets'[Len(tickets) + 1].owner = Owner
  <2>1. \A k \in 1..Len(tickets) : tickets'[k].owner # Owner
    BY <1>1, <1>3 DEF Unfiled, CreateIssue, At
  <2>2. \A k \in 1..Len(tickets') : k \in 1..Len(tickets) \/ k = Len(tickets) + 1
    BY <1>1, <1>3
  <2>3. DOMAIN tickets' = 1..Len(tickets')
    BY <1>1
  <2> QED
    BY <1>1, <1>3, <2>1, <2>2, <2>3 DEF OneTicketEach
<1> QED
  BY <1>2, <1>3, OwnersMove

\* All of it holds.
LEMMA RecordsInvariant ==
  ASSUME TicketsRecorded  PROVE Spec => []Records
<1>1. Init => Records
  BY DEF Init, ApiInit, JiraInit, Records, UidsEarlier, TicketsBefore, InHand, PatternThere,
         Unfiled, Filed, OneTicketEach
<1>2. Inductive /\ Records /\ [Next]_vars => Records'
  BY UidsEarlierStep, TicketsBeforeStep, InHandStep, PatternThereStep, UnfiledStep, FiledStep,
     OneTicketEachStep DEF Records, TicketsRecorded
<1> QED
  BY <1>1, <1>2, InductiveInvariant, PTL DEF Spec

\* One ticket for each request, as long as reads are fresh and nothing comes between the
\* ticket and its record (createJiraTicket, then preApproveRequest or a rejection).
THEOREM OneTicketForEach ==
  ASSUME TicketsRecorded  PROVE Spec => []OneTicketEach
<1>1. Records => OneTicketEach
  BY DEF Records
<1> QED
  BY <1>1, RecordsInvariant, PTL

-----------------------------------------------------------------------------
(* A rejection meets no access.                                              *)

\* A completed ticket of a request that is not over is being recorded.
DoneIsRecorded ==
  \A k \in 1..Len(tickets), n \in Names :
    /\ Live(n) /\ Latest(n).state \in {"", "Pre-Approved"}
    /\ tickets[k].owner = <<n, Latest(n).uid>> /\ tickets[k].status = "Done"
    => job # Idle /\ Owner = tickets[k].owner /\ At("UpdateSucceeded")

\* Whoever may be about to reject a request that is there has granted it nothing.
Unheld ==
  job # Idle /\ job.call \in AfterTicket \union {"UpdateSkipped"}
             /\ Alive(job.name, Request.uid) =>
    \A b \in bindings : ~(b.name = job.name /\ b.uid = Request.uid)

Rejections == DoneIsRecorded /\ Unheld /\ RejectedHoldsNothing

\* A ticket is completed by a call that is answered.
LEMMA CompletedByCall ==
  ASSUME Inductive, AnswersHeard, [Next]_vars,
         NEW k \in 1..Len(tickets), tickets[k].status # "Done", tickets'[k].status = "Done"
  PROVE  job # Idle /\ k = job.issue /\ At("MoveCompleted") /\ Call("UpdateSucceeded")
<1>1. tickets \in Seq(TicketRecords)
  BY DEF Inductive, TypeOK
<1>2. ASSUME NEW j, NEW a \in {"approval", "rejected"}, Move(j, a)  PROVE FALSE
  <2>1. tickets[k] \in TicketRecords
    BY <1>1
  <2>2. tickets' = [tickets EXCEPT ![j] = [tickets[j] EXCEPT !.status = To[a]]]
    BY <1>1, <1>2 DEF Move
  <2>3. To[a] # "Done"
    BY <1>2 DEF To
  <2>4. CASE j = k
    <3>1. tickets'[k] = [tickets[k] EXCEPT !.status = To[a]]
      BY <1>1, <2>2, <2>4
    <3> QED
      BY <2>1, <2>3, <3>1 DEF TicketRecords
  <2>5. CASE j # k
    BY <1>1, <2>2, <2>5
  <2> QED
    BY <2>4, <2>5
<1>3. ASSUME FileTicket(Owner)  PROVE FALSE
  BY <1>1, <1>3 DEF FileTicket
<1>4. tickets' # tickets
  OBVIOUS
<1>5. job # Idle /\ At("MoveCompleted") /\ Move(job.issue, "complete")
  BY <1>2, <1>3, <1>4, TicketMoves DEF Inductive
<1>6. k = job.issue
  BY <1>1, <1>5 DEF Move
<1>7. ~CallFails /\ ~AnswerLost
  BY <1>5 DEF CallFails, AnswerLost, FaultyCall, AnswersHeard, At
<1>8. Work
  BY <1>2, <1>4, <1>7
     DEF Next, Operator, Reconcile, Restart, ConfigChanges, ConfigPublished, ConfigCompiled,
         ConfigSaved, ConfigLost, CollectGarbage, Tick, Deliver, Relist, TakeOver, WakeUp,
         WithdrawRequest, CreateRequest, EditRequest, ApproveTicket, VetoTicket, vars, apiVars
<1>9. MoveCompleted
  BY <1>5, <1>8
     DEF Work, FindReporter, CreateIssue, ListNamespaces, MatchNamespace, QuotePattern,
         CommentPreApproved, UpdatePreApproved, UpdateRejected, UpdateSkipped, GetIssue,
         CreateRoleBinding, CommentCompleted, UpdateSucceeded, CommentRejected, MoveRejected,
         DeleteRequest, At
<1> QED
  BY <1>4, <1>5, <1>6, <1>9 DEF MoveCompleted, Refused, NoEffect

\* DoneIsRecorded is kept: a completed ticket's record is the next thing to be written.
LEMMA DoneIsRecordedStep ==
  ASSUME Inductive, GrantsRecorded, Records, DoneIsRecorded, [Next]_vars
  PROVE  DoneIsRecorded'
<1>1. /\ tickets \in Seq(TicketRecords) /\ tickets' \in Seq(TicketRecords)
      /\ log' \in [Names -> Seq(Versions)] /\ TicketsRecorded /\ Undisturbed
      /\ \A k \in 1..Len(tickets) : tickets'[k].owner = tickets[k].owner
  BY OwnersMove, StepFootprint, FootprintGrows
     DEF Inductive, GrantsRecorded, TicketsRecorded
<1>2. SUFFICES ASSUME NEW k \in 1..Len(tickets'), NEW n \in Names, NEW u,
                      Live(n)', Latest(n)'.state \in {"", "Pre-Approved"},
                      u = Latest(n)'.uid, tickets'[k].owner = <<n, u>>,
                      tickets'[k].status = "Done"
               PROVE  job' # Idle /\ Owner' = <<n, u>> /\ At("UpdateSucceeded")'
  BY DEF DoneIsRecorded
<1>3. k \in 1..Len(tickets)
  <2>1. Len(tickets) \in Nat /\ Len(tickets') \in Nat
    BY <1>1
  <2>2. CASE Len(tickets') = Len(tickets)
    BY <1>2, <2>2
  <2>3. CASE Len(tickets') = Len(tickets) + 1 /\ tickets'[Len(tickets) + 1].status = "Todo"
    <3>1. k # Len(tickets) + 1 /\ k \in 1..Len(tickets) + 1
      BY <1>2, <2>3
    <3> QED
      BY <2>1, <3>1
  <2> QED
    BY <1>1, <2>2, <2>3, OwnersMove
<1>4. tickets[k].owner = <<n, u>> /\ u \in Nat /\ u <= Len(log[n])
  <2>1. tickets[k] \in TicketRecords /\ tickets'[k].owner = tickets[k].owner
    BY <1>1, <1>3
  <2>2. tickets[k].owner = <<n, u>>
    BY <1>2, <2>1
  <2> QED
    BY <1>3, <2>1, <2>2 DEF Records, TicketsBefore, TicketRecords
<1>5. /\ Alive(n, u)
      /\ \/ log'[n] = log[n]
         \/ n = job.name /\ u = Request.uid /\ WorkerWrites
  BY <1>1, <1>2, <1>4, AliveBefore DEF Alive
<1>6. CASE tickets[k].status # "Done"
  <2>1. k = job.issue /\ At("MoveCompleted") /\ Call("UpdateSucceeded") /\ job # Idle
    BY <1>2, <1>3, <1>6, CompletedByCall DEF GrantsRecorded
  <2>2. job \in Jobs /\ log'[job.name][job.rev] = Request /\ Owner = <<n, u>>
    <3>1. Owner = <<n, u>>
      BY <1>4, <2>1 DEF Inductive, WorkerKnows, At, OnTicket, AfterStart, FiledFor
    <3> QED
      BY <2>1, <3>1, CopyInHand, CopyStays, StepFootprint DEF Inductive
  <2>3. job'.name = job.name /\ job'.rev = job.rev /\ job'.call = "UpdateSucceeded"
    BY <2>1, <2>2 DEF Call, Jobs
  <2>4. job' # Idle
    BY <2>3 DEF Idle
  <2> QED
    BY <2>2, <2>3, <2>4 DEF Owner, Request, At
<1>7. CASE tickets[k].status = "Done" /\ log'[n] = log[n]
  <2>1. Live(n) /\ Latest(n)' = Latest(n)
    BY <1>5, <1>7 DEF Alive, Latest
  <2>2. job # Idle /\ Owner = <<n, u>> /\ At("UpdateSucceeded")
    BY <1>2, <1>3, <1>4, <1>7, <2>1 DEF DoneIsRecorded
  <2>3. UpToDate /\ job.name = n /\ job.rev \in 1..Len(log[n])
    BY <1>5, <2>2, CopyInHand DEF Records, InHand, Owner, Inductive
  <2>4. UNCHANGED job
    <3>1. job.call \notin Faulty
      BY <2>2 DEF GrantsRecorded, AnswersHeard, At
    <3>2. ~At("CommentPreApproved") /\ ~Checks /\ job.call \notin Reads
      BY <2>2 DEF Checks, CreateIssue, Reads, At
    <3> QED
      BY <1>1, <1>7, <2>2, <2>3, <3>1, <3>2, RecordingStep DEF At, Undisturbed
  <2> QED
    BY <1>7, <2>2, <2>3, <2>4 DEF Owner, Request, At
<1>8. CASE tickets[k].status = "Done" /\ n = job.name /\ u = Request.uid /\ WorkerWrites
  <2>1. PICK v \in Versions : Write(n, v) /\ v.state = StateAfter(job.call)
    BY <1>8, UpdateWrites DEF Inductive
  <2>2. Latest(n)' = v
    BY <2>1, WriteLatest DEF Inductive
  <2>3. job.call = "UpdatePreApproved"
    BY <1>2, <2>1, <2>2 DEF StateAfter
  <2>4. Latest(n) = Request /\ Live(n) /\ Request.state = ""
    BY <1>8, <2>3, UpdateFromLatest DEF Inductive, StatesBefore, Reads
  <2>5. At("UpdateSucceeded")
    BY <1>3, <1>4, <1>8, <2>4 DEF DoneIsRecorded
  <2> QED
    BY <2>3, <2>5 DEF At
<1> QED
  BY <1>5, <1>6, <1>7, <1>8

\* What leads to a rejection: the checks, or a ticket that is not approved.
LEMMA RejectingStep ==
  ASSUME Inductive, AnswersHeard, [Next]_vars, job # Idle, job' # Idle,
         job'.call \in AfterTicket \union {"UpdateSkipped"}
  PROVE  /\ job'.name = job.name /\ Request' = Request
         /\ \/ UNCHANGED job
            \/ Checks
            \/ /\ At("GetIssue") /\ UNCHANGED <<log, bindings, tickets>>
               /\ tickets[job.issue].status # "Approved"
<1>1. job \in Jobs
  BY CopyInHand DEF Inductive
<1>2. ~CleansUp
  BY <1>1 DEF CleansUp, Jobs, AfterTicket, Reads
<1>3. job'.name = job.name /\ job'.rev = job.rev
  BY <1>2, JobGoesOn
<1>4. Request' = Request
  BY <1>3, CopyStays, StepFootprint DEF Request, Inductive
<1>5. CASE (Work \/ CallFails \/ AnswerLost) /\ ~Checks
  <2>1. ASSUME NEW i, BindFrom(i)  PROVE FALSE
    BY <1>1, <2>1 DEF BindFrom, Jobs, AfterTicket, Reads
  <2>2. ASSUME NEW c, Call(c)  PROVE job'.call = c
    BY <1>1, <2>2 DEF Call, Jobs
  <2>3. \A c : <<job.call, c>> \in Turns /\ c \in AfterTicket \union {"UpdateSkipped"} =>
                 job.call = "GetIssue"
    BY DEF Turns, AfterTicket, Reads
  <2>4. At("GetIssue")
    <3>1. CASE Call("UpdateSucceeded") \/ Call("DeleteRejected")
      BY <2>2, <3>1 DEF AfterTicket, Reads
    <3> QED
      BY <1>2, <1>5, <2>1, <2>2, <2>3, <3>1, WorkerTurns DEF Inductive, At
  <2>5. ~CallFails /\ ~AnswerLost
    BY <2>4 DEF CallFails, AnswerLost, FaultyCall, AnswersHeard, At
  <2>6. GetIssue
    BY <1>5, <2>4, <2>5
       DEF Work, FindReporter, CreateIssue, ListNamespaces, MatchNamespace, QuotePattern,
           CommentPreApproved, UpdatePreApproved, UpdateRejected, UpdateSkipped,
           CreateRoleBinding, CommentCompleted, MoveCompleted, UpdateSucceeded,
           CommentRejected, MoveRejected, DeleteRequest, At
  <2>7. tickets[job.issue].status # "Approved"
    BY <2>1, <2>6 DEF GetIssue
  <2> QED
    BY <1>3, <1>4, <2>4, <2>6, <2>7 DEF GetIssue, NoEffect
<1>6. ~Reconciles
  BY DEF Reconciles, Reconcile
<1> QED
  BY <1>3, <1>4, <1>5, <1>6, JobMoves

\* Unheld is kept: without a ticket there is no grant, and a ticket that was granted on is
\* found approved until the grant is recorded.
LEMMA UnheldStep ==
  ASSUME Inductive, GrantsRecorded, Records, DoneIsRecorded, Unheld, [Next]_vars
  PROVE  Unheld'
<1>1. TicketsRecorded /\ Undisturbed /\ log \in [Names -> Seq(Versions)]
  BY DEF GrantsRecorded, TicketsRecorded, Inductive, TypeOK
<1>2. SUFFICES ASSUME NEW n, NEW u, job' # Idle,
                      job'.call \in AfterTicket \union {"UpdateSkipped"},
                      n = job'.name, u = Request'.uid, Alive(n, u)',
                      NEW b \in bindings', b.name = n, b.uid = u
               PROVE  FALSE
  BY DEF Unheld, Alive, Live, Latest
<1>3. ASSUME NEW m \in Names, Reconcile(m)  PROVE FALSE
  <2>1. /\ Live(n) /\ Request' = Latest(n) /\ m = n /\ job = Idle
        /\ job'.call = "UpdateSkipped" => Latest(n).state = ""
        /\ b \in bindings
    BY <1>1, <1>2, <1>3, ReconcileFinds DEF Reconcile
  <2>2. job'.call \notin AfterTicket
    BY <1>2, <1>3, ReconcileCalls DEF Inductive, AfterTicket, Reads
  <2>3. PICK k \in DOMAIN tickets : tickets[k].owner = <<n, Latest(n).uid>>
    BY <1>2, <1>3, <2>1 DEF Inductive, GrantNeedsApproval
  <2>4. k \in 1..Len(tickets)
    BY <2>3, OwnersMove, <1>1
  <2> QED
    BY <1>2, <1>3, <2>1, <2>2, <2>3, <2>4 DEF Records, Filed
<1>4. CASE job # Idle
  <2>1. /\ job'.name = job.name /\ Request' = Request
        /\ \/ UNCHANGED job
           \/ Checks
           \/ /\ At("GetIssue") /\ UNCHANGED <<log, bindings, tickets>>
              /\ tickets[job.issue].status # "Approved"
    BY <1>2, <1>4, RejectingStep DEF GrantsRecorded
  <2>2. n = job.name /\ n \in Names
    BY <1>2, <1>4, <2>1, CopyInHand DEF Inductive, Jobs
  <2>3. u = Request.uid /\ u \in Nat
    BY <1>2, <1>4, <2>1, CopyInHand DEF Inductive, Versions
  <2>4. b.name = n /\ b.uid = u /\ Owner = <<n, u>>
    BY <1>2, <2>1, <2>2, <2>3 DEF Owner
  <2>5. u <= Len(log[n])
    <3>1. job.rev \in 1..Len(log[n]) /\ Request = log[n][job.rev]
      BY <1>4, <2>2, CopyInHand DEF Inductive, Request
    <3>2. u <= job.rev /\ Len(log[n]) \in Nat
      BY <1>1, <2>2, <2>3, <3>1 DEF Records, UidsEarlier
    <3> QED
      BY <2>3, <3>1, <3>2
  <2>6. Alive(n, u)
    BY <1>1, <1>2, <2>2, <2>3, <2>5, AliveBefore
  <2>7. b \in bindings => \E k \in 1..Len(tickets) : tickets[k].owner = Owner /\ EverApproved(k)
    <3>1. DOMAIN tickets = 1..Len(tickets)
      BY <1>1, OwnersMove
    <3> QED
      BY <2>4, <3>1 DEF Inductive, GrantNeedsApproval
  <2>8. CASE UNCHANGED job
    <3>1. b \in bindings
      BY <1>2, <2>8, BindingsStep DEF Inductive, At, AfterTicket, Reads
    <3> QED
      BY <1>2, <1>4, <2>2, <2>3, <2>4, <2>6, <2>8, <3>1 DEF Unheld
  <2>9. CASE CreateIssue
    <3>1. b \in bindings /\ At("CreateIssue")
      BY <1>2, <2>9 DEF CreateIssue, FileIssue
    <3> QED
      BY <1>4, <2>7, <3>1 DEF Records, Unfiled, At
  <2>10. CASE job.call \in Reads \union {"ListNamespaces"} /\ NoEffect
    <3>1. b \in bindings /\ job.call \in AfterTicket
      BY <1>2, <2>10 DEF NoEffect, AfterTicket
    <3> QED
      BY <1>2, <1>4, <2>2, <2>3, <2>4, <2>6, <3>1 DEF Unheld
  <2>11. CASE /\ At("GetIssue") /\ UNCHANGED <<log, bindings, tickets>>
              /\ tickets[job.issue].status # "Approved"
    <3>1. PICK k \in 1..Len(tickets) : tickets[k].owner = Owner /\ EverApproved(k)
      BY <1>2, <2>7, <2>11
    <3>2. /\ job.issue \in 1..Len(tickets) /\ tickets[job.issue].owner = Owner
          /\ Request.state = "Pre-Approved"
      <4>1. job.issue \in DOMAIN tickets /\ tickets[job.issue].owner = Owner
        BY <1>4, <2>11 DEF Inductive, WorkerKnows, At, OnTicket, AfterStart, FiledFor
      <4>2. DOMAIN tickets = 1..Len(tickets)
        BY <1>1, OwnersMove
      <4>3. Request.state = "Pre-Approved"
        BY <1>4, <2>11 DEF Inductive, WorkerKnows, At, StatesBefore, Reads
      <4> QED
        BY <4>1, <4>2, <4>3
    <3>3. k = job.issue
      BY <1>1, <3>1, <3>2, OwnersMove DEF Records, OneTicketEach
    <3>4. tickets[k].status = "Done"
      BY <2>11, <3>1, <3>3 DEF EverApproved
    <3>5. Live(n) /\ Latest(n) = Request
      BY <1>4, <2>2, <2>3, <2>6 DEF Records, InHand, UpToDate, Alive, Latest, Request
    <3>6. At("UpdateSucceeded")
      BY <2>2, <2>3, <2>4, <3>1, <3>2, <3>4, <3>5 DEF DoneIsRecorded
    <3> QED
      BY <2>11, <3>6 DEF At
  <2> QED
    BY <2>1, <2>8, <2>9, <2>11, <2>10 DEF Checks
<1>5. job = Idle => Reconciles
  BY <1>2, JobMoves DEF Work, CallFails, AnswerLost, FaultyCall
<1> QED
  BY <1>3, <1>4, <1>5 DEF Reconciles

\* A rejection is written over nothing that was granted, and nothing is granted after it.
LEMMA RejectedStep ==
  ASSUME Inductive, GrantsRecorded, Records, Unheld, RejectedHoldsNothing, [Next]_vars
  PROVE  RejectedHoldsNothing'
<1>1. TicketsRecorded /\ Undisturbed /\ log \in [Names -> Seq(Versions)]
  BY DEF GrantsRecorded, TicketsRecorded, Inductive, TypeOK
<1>2. SUFFICES ASSUME NEW n \in Names, Live(n)', Latest(n)'.state = "Rejected",
                      NEW b \in bindings', b.name = n, b.uid = Latest(n)'.uid
               PROVE  FALSE
  BY DEF RejectedHoldsNothing
<1>3. CASE b \in bindings
  <2>1. PICK i \in 1..Len(log[n]) : log[n][i].uid = b.uid
    BY <1>1, <1>2, <1>3 DEF Inductive, GrantNotBeforeStart
  <2>2. log[n][i] \in Versions /\ log[n][i].uid <= i /\ Len(log[n]) \in Nat
    BY <1>1, <2>1 DEF Records, UidsEarlier
  <2>3. PICK u \in Nat : u = b.uid
    BY <2>1, <2>2 DEF Versions
  <2>4. u <= Len(log[n])
    BY <2>1, <2>2, <2>3
  <2>5. /\ Alive(n, u)
        /\ log'[n] = log[n] \/ (n = job.name /\ u = Request.uid /\ WorkerWrites)
    BY <1>1, <1>2, <2>3, <2>4, AliveBefore DEF Alive
  <2>6. CASE log'[n] = log[n]
    BY <1>2, <1>3, <2>3, <2>5, <2>6 DEF RejectedHoldsNothing, Alive, Latest
  <2>7. CASE n = job.name /\ u = Request.uid /\ WorkerWrites
    <3>1. PICK v \in Versions : Write(n, v) /\ v.state = StateAfter(job.call)
      BY <2>7, UpdateWrites DEF Inductive
    <3>2. Latest(n)' = v
      BY <3>1, WriteLatest DEF Inductive
    <3>3. job # Idle /\ job.call \in AfterTicket \union {"UpdateSkipped"}
      BY <1>2, <2>7, <3>1, <3>2 DEF WorkerWrites, Updates, StateAfter, AfterTicket
    <3> QED
      BY <1>2, <1>3, <2>3, <2>5, <2>7, <3>3 DEF Unheld
  <2> QED
    BY <2>5, <2>6, <2>7
<1>4. CASE b \notin bindings
  <2>1. job # Idle /\ At("CreateRoleBinding") /\ CreateBinding
    BY <1>4, BindingsStep DEF Inductive
  <2>2. b.name = job.name /\ b.uid = Request.uid /\ UNCHANGED log
    BY <1>4, <2>1 DEF CreateBinding, Bind
  <2>3. Alive(job.name, Request.uid) /\ Latest(job.name).state = "Rejected"
    BY <1>2, <2>2 DEF Alive, Live, Latest
  <2>4. Latest(job.name) = Request
    BY <2>1, <2>3 DEF Records, InHand, UpToDate, Latest, Request
  <2>5. Request.state = "Pre-Approved"
    BY <2>1 DEF Inductive, WorkerKnows, At, StatesBefore, Reads
  <2> QED
    BY <2>3, <2>4, <2>5
<1> QED
  BY <1>3, <1>4

\* All of it holds.
LEMMA RejectionsInvariant ==
  ASSUME GrantsRecorded  PROVE Spec => []Rejections
<1>1. Init => Rejections
  BY DEF Init, ApiInit, JiraInit, Rejections, DoneIsRecorded, Unheld, RejectedHoldsNothing
<1>2. Inductive /\ Records /\ Rejections /\ [Next]_vars => Rejections'
  BY DoneIsRecordedStep, UnheldStep, RejectedStep DEF Rejections
<1>3. TicketsRecorded
  BY DEF GrantsRecorded
<1> QED
  BY <1>1, <1>2, <1>3, InductiveInvariant, RecordsInvariant, PTL DEF Spec

\* A rejected request holds no RoleBinding, as long as nothing comes between a grant and
\* its record either (handlePreApproved decides on the ticket, which then tells the truth).
THEOREM RejectionMeetsNoAccess ==
  ASSUME GrantsRecorded  PROVE Spec => []RejectedHoldsNothing
<1>1. Rejections => RejectedHoldsNothing
  BY DEF Rejections
<1> QED
  BY <1>1, RejectionsInvariant, PTL

-----------------------------------------------------------------------------
(* Consent is heard.                                                         *)

\* What would make the operator deaf to an approval: one that comes late, a crash on the
\* way to its record, another writer of the same request, an answer that is lost.
ConsentHeard ==
  /\ Disturbances \intersect {"crash", "touch", "edit", "anytime"} = {}
  /\ AnswersHeard

\* A request is pre-approved once.
PreApprovedOnce ==
  \A n \in Names : \A i \in 1..Len(log[n]) :
    log[n][i].uid = Latest(n).uid /\ log[n][i].state = "Pre-Approved" =>
      i = Len(log[n]) \/ Latest(n).state \in {"Succeeded", "Rejected", "Deleted"}

\* An approved ticket is the one in the status of its request, which is not rejected.
ConsentRecorded ==
  \A n \in Names : \A k \in 1..Len(tickets) :
    Live(n) /\ tickets[k].owner = <<n, Latest(n).uid>> /\ EverApproved(k) =>
      Latest(n).state \in {"Pre-Approved", "Succeeded"} /\ Latest(n).ticket = k

\* On a pre-approved request the worker looks at the ticket in the status, after the start.
TicketInStatus ==
  job # Idle /\ Request.state = "Pre-Approved" =>
    job.issue = Request.ticket /\ Request.startTime <= now

\* Whoever is about to reject a pre-approved request has seen a ticket that is not
\* approved and, the start being over, will not be.
RefusalStands ==
  job # Idle /\ At("UpdateRejected") /\ Request.state = "Pre-Approved" /\ UpToDate =>
    ~EverApproved(job.issue)

\* The completed ticket of a request that is still pre-approved is being recorded.
CompletionPending ==
  \A n \in Names :
    Live(n) /\ Latest(n).state = "Pre-Approved"
            /\ Latest(n).ticket \in 1..Len(tickets) /\ tickets[Latest(n).ticket].status = "Done"
    => job # Idle /\ At("UpdateSucceeded") /\ job.name = n /\ UpToDate

Consent ==
  /\ UidsEarlier /\ TicketsBefore /\ PreApprovedOnce /\ TicketInStatus
  /\ ConsentRecorded /\ RefusalStands /\ CompletionPending

\* A copy that is the last version of a request is the request.
LEMMA CopyIsLatest ==
  ASSUME Inductive, job # Idle, UpToDate
  PROVE  /\ Latest(job.name) = Request /\ job.name \in Names
         /\ Live(job.name) /\ Request.state # "Deleted"
<1>1. job \in Jobs /\ job.rev \in 1..Len(log[job.name])
  BY CopyInHand DEF Inductive
<1>2. log[job.name] # <<>>
  BY <1>1
<1>3. Request.state # "Deleted"
  <2>1. Request.state \in StatesBefore(job.call)
    BY DEF Inductive, WorkerKnows
  <2> QED
    BY <2>1 DEF StatesBefore, Reads
<1> QED
  BY <1>1, <1>2, <1>3 DEF Latest, Request, UpToDate, Live, Jobs

\* What a status update finds and leaves.
LEMMA UpdatedFrom ==
  ASSUME Inductive, NEW n \in Names, NEW v \in Versions, Updated(n, v)
  PROVE  /\ job # Idle /\ n = job.name /\ UpToDate /\ Latest(n) = Request
         /\ \/ Request.state = "" /\ v.state \in {"Pre-Approved", "Rejected"}
            \/ Request.state = "Pre-Approved" /\ At("UpdateRejected") /\ v.state = "Rejected"
            \/ Request.state = "Pre-Approved" /\ At("UpdateSucceeded") /\ v.state = "Succeeded"
         /\ v.state = "Pre-Approved" => At("UpdatePreApproved")
<1>1. /\ job # Idle /\ job.call \in Updates /\ UpToDate
      /\ Request.state \in StatesBefore(job.call) /\ v.state = StateAfter(job.call)
  BY DEF Updated, WorkerWrites, updateStatus, Inductive, WorkerKnows
<1> QED
  BY <1>1 DEF Updated, Updates, StatesBefore, Reads, StateAfter, At

\* PreApprovedOnce is kept.
LEMMA PreApprovedOnceStep ==
  ASSUME Inductive, ConsentHeard, UidsEarlier, PreApprovedOnce, [Next]_vars
  PROVE  PreApprovedOnce'
<1>1. CASE UNCHANGED log
  BY <1>1 DEF PreApprovedOnce, Latest
<1>2. ASSUME NEW n \in Names, NEW v \in Versions, Write(n, v), Fresh(n, v) \/ Rewritten(n, v)
      PROVE  PreApprovedOnce'
  <2>1. /\ Latest(n)' = v /\ Len(log[n]) \in Nat /\ Len(log'[n]) = Len(log[n]) + 1
        /\ \A m \in Names : m # n => log'[m] = log[m]
        /\ \A i \in 1..Len(log'[n]) :
             \/ i \in 1..Len(log[n]) /\ log'[n][i] = log[n][i]
             \/ i = Len(log[n]) + 1 /\ log'[n][i] = v
    BY <1>2, WriteAtEnd DEF Inductive
  <2>2. ASSUME NEW i \in 1..Len(log[n]), log[n][i].uid = v.uid,
               log[n][i].state = "Pre-Approved"
        PROVE  v.state \in {"Succeeded", "Rejected", "Deleted"}
    <3>1. ~Fresh(n, v)
      <4>1. v.uid <= i
        BY <2>2 DEF UidsEarlier
      <4>2. v.uid # Len(log[n]) + 1
        BY <2>1, <2>2, <4>1
      <4> QED
        BY <4>2 DEF Fresh
    <3>2. Live(n) /\ Latest(n).uid = v.uid /\ ~Edited(n, v)
      BY <1>2, <3>1 DEF Rewritten, Edited, ConsentHeard
    <3>3. i = Len(log[n]) \/ Latest(n).state \in {"Succeeded", "Rejected", "Deleted"}
      BY <2>2, <3>2 DEF PreApprovedOnce
    <3>4. Latest(n).state # ""
      BY <2>2, <3>3 DEF Latest
    <3>5. CASE Updated(n, v)
      BY <3>4, <3>5, UpdatedFrom
    <3> QED
      BY <1>2, <3>1, <3>2, <3>5 DEF Rewritten, Gone
  <2>3. ASSUME NEW m \in Names, NEW i \in 1..Len(log'[m]),
               log'[m][i].uid = Latest(m)'.uid, log'[m][i].state = "Pre-Approved"
        PROVE  i = Len(log'[m]) \/ Latest(m)'.state \in {"Succeeded", "Rejected", "Deleted"}
    <3>1. CASE m = n
      BY <2>1, <2>2, <2>3, <3>1
    <3>2. CASE m # n
      <4>1. log'[m] = log[m] /\ Latest(m)' = Latest(m)
        BY <2>1, <3>2 DEF Latest
      <4> QED
        BY <2>3, <4>1 DEF PreApprovedOnce
    <3> QED
      BY <3>1, <3>2
  <2> QED
    BY <2>3 DEF PreApprovedOnce
<1> QED
  BY <1>1, <1>2, LogGoesOn

\* A reconcile looks at a pre-approved request once its start is over.
LEMMA ReconcileOnTicket ==
  ASSUME Inductive, NEW n \in Names, Reconcile(n), job' # Idle,
         Request'.state = "Pre-Approved"
  PROVE  /\ job'.issue = Request'.ticket /\ Request'.startTime <= now'
         /\ job'.call = "GetIssue"
<1>1. /\ job'.name = n /\ job'.rev = seen[n] /\ UNCHANGED <<log, now>>
  BY ReconcileCalls DEF Inductive
<1>2. Request' = Cached(n) /\ Cached(n).state = "Pre-Approved"
  BY <1>1 DEF Request, Cached
<1>3. Cached(n).startTime \in Nat /\ now \in Nat
  <2>1. Found(n)
    BY DEF Reconcile, handleFetchError, ReadConfigFromFile, Done, Retry
  <2> QED
    BY <2>1, CopyInCache DEF Versions, Inductive, TypeOK
<1>4. handlePreApproved(n)
  BY <1>2 DEF Reconcile, handleFetchError, ReadConfigFromFile, Done, Retry, handleRejected,
              handleNewRequest, handleCleanup
<1>5. ~(Cached(n).startTime > now) /\ Begin(n, "GetIssue", Cached(n).ticket)
  BY <1>4 DEF handlePreApproved, RequeueAt
<1> QED
  BY <1>1, <1>2, <1>3, <1>5 DEF Begin

\* A request that is given its ticket or is checked is new.
LEMMA ChecksAreEarly ==
  ASSUME WorkerKnows, job # Idle, Checks  PROVE Request.state = ""
BY DEF Checks, CreateIssue, At, WorkerKnows, StatesBefore, Reads

\* Where the worker goes on with a pre-approved request.
LEMMA WorkerGoesOn ==
  ASSUME Inductive, [Next]_vars, job # Idle, job' # Idle, Request'.state = "Pre-Approved"
  PROVE  /\ job'.name = job.name /\ Request' = Request
         /\ job'.issue = job.issue \/ Checks
<1>1. job \in Jobs
  BY CopyInHand DEF Inductive
<1>2. ~CleansUp
  <2>1. ASSUME CleansUp  PROVE FALSE
    <3>1. job'.call = "DeleteExpired"
      BY <1>1, <2>1 DEF CleansUp, Jobs
    <3>2. Request'.state = "Succeeded"
      BY <3>1, InductiveStep DEF Inductive, WorkerKnows, StatesBefore, Reads
    <3> QED
      BY <3>2
  <2> QED
    BY <2>1
<1>3. job'.name = job.name /\ job'.rev = job.rev
  BY <1>2, JobGoesOn
<1>4. Request' = Request
  BY <1>3, CopyStays, StepFootprint DEF Request, Inductive
<1>5. CASE (Work \/ CallFails \/ AnswerLost) /\ ~Checks
  <2>1. ASSUME NEW i, BindFrom(i)  PROVE job'.issue = job.issue
    BY <1>1, <2>1 DEF BindFrom, Jobs
  <2>2. ASSUME NEW c, Call(c)  PROVE job'.issue = job.issue
    BY <1>1, <2>2 DEF Call, Jobs
  <2>3. (\E i : BindFrom(i)) \/ (\E c : Call(c))
    BY <1>2, <1>5, WorkerTurns DEF Inductive
  <2> QED
    BY <1>3, <1>4, <2>1, <2>2, <2>3
<1>6. ~Reconciles
  BY DEF Reconciles, Reconcile
<1> QED
  BY <1>3, <1>4, <1>5, <1>6, JobMoves

\* TicketInStatus is kept.
LEMMA TicketInStatusStep ==
  ASSUME Inductive, TicketInStatus, [Next]_vars
  PROVE  TicketInStatus'
<1>1. SUFFICES ASSUME job' # Idle, Request'.state = "Pre-Approved"
               PROVE  job'.issue = Request'.ticket /\ Request'.startTime <= now'
  BY DEF TicketInStatus
<1>2. CASE job # Idle
  <2>1. Request' = Request /\ (job'.issue = job.issue \/ Checks)
    BY <1>1, <1>2, WorkerGoesOn
  <2>2. job.issue = Request.ticket /\ Request.startTime <= now /\ Request \in Versions
    BY <1>1, <1>2, <2>1, CopyInHand DEF TicketInStatus, Inductive
  <2>3. ~Checks
    BY <1>1, <1>2, <2>1, ChecksAreEarly DEF Inductive
  <2>4. Request.startTime <= now'
    <3>1. now \in Nat /\ now' \in Nat /\ now <= now' /\ Request.startTime \in Nat
      BY <2>2, TimeStep DEF Inductive, TypeOK, Versions
    <3> QED
      BY <2>2, <3>1
  <2> QED
    BY <2>1, <2>2, <2>3, <2>4
<1>3. CASE job = Idle
  <2>1. Reconciles
    BY <1>1, <1>3, JobMoves DEF Work, CallFails, AnswerLost, FaultyCall
  <2> QED
    BY <1>1, <2>1, ReconcileOnTicket DEF Reconciles
<1> QED
  BY <1>2, <1>3

\* A ticket is approved while its request waits for it.
LEMMA ApprovalAwaited ==
  ASSUME Inductive, "anytime" \notin Disturbances, [Next]_vars,
         NEW k \in 1..Len(tickets), ~EverApproved(k), EverApproved(k)'
  PROVE  AwaitsApproval(k) /\ UNCHANGED <<log, job>>
<1>1. tickets \in Seq(TicketRecords) /\ tickets[k] \in TicketRecords
  BY DEF Inductive, TypeOK
<1>2. tickets' # tickets
  BY DEF EverApproved
<1>3. ASSUME NEW j, NEW a \in {"approval", "rejected", "complete"}, Move(j, a)
      PROVE  j = k /\ a = "approval"
  <2>1. tickets' = [tickets EXCEPT ![j] = [tickets[j] EXCEPT !.status = To[a]]]
    BY <1>1, <1>3 DEF Move
  <2>2. j = k
    BY <1>1, <2>1 DEF EverApproved
  <2>3. tickets'[k].status = To[a]
    BY <1>1, <2>1, <2>2 DEF TicketRecords
  <2>4. a # "rejected"
    BY <2>3 DEF EverApproved, To
  <2>5. tickets[k].status = From[a]
    BY <1>3, <2>2 DEF Move, CanMove
  <2>6. a # "complete"
    BY <2>5 DEF EverApproved, From
  <2> QED
    BY <1>3, <2>2, <2>4, <2>6
<1>4. ~FileTicket(Owner)
  <2>1. ASSUME FileTicket(Owner)  PROVE FALSE
    <3>1. tickets'[k] = tickets[k]
      BY <1>1, <2>1 DEF FileTicket
    <3> QED
      BY <3>1 DEF EverApproved
  <2> QED
    BY <2>1
<1>5. ~(Work \/ CallFails \/ AnswerLost)
  <2>1. ASSUME Work \/ CallFails \/ AnswerLost  PROVE FALSE
    <3>1. CallDoes
      BY <2>1, CallDoesOneThing DEF Inductive
    <3> QED
      BY <1>2, <1>3, <1>4, <3>1
         DEF CallDoes, NoEffect, FileIssue, MoveIssue, CreateBinding, deleteJitRequest,
             updateStatus
  <2> QED
    BY <2>1
<1>6. PICK j \in DOMAIN tickets : ApproveTicket(j) \/ VetoTicket(j)
  BY <1>2, <1>5
     DEF Next, Operator, Reconcile, Restart, ConfigChanges, ConfigPublished, ConfigCompiled,
         ConfigSaved, ConfigLost, CollectGarbage, Tick, Deliver, Relist, TakeOver, WakeUp,
         WithdrawRequest, CreateRequest, EditRequest, vars, apiVars
<1>7. ~VetoTicket(j)
  BY <1>3 DEF VetoTicket
<1>8. ApproveTicket(j) /\ j = k
  BY <1>3, <1>6, <1>7 DEF ApproveTicket
<1> QED
  BY <1>8 DEF ApproveTicket, apiVars

\* The request that awaits the approval of a ticket is the ticket's owner.
LEMMA OwnerAwaits ==
  ASSUME Inductive, NEW k, AwaitsApproval(k)
  PROVE  \E n \in Names : /\ Live(n) /\ Latest(n).state = "Pre-Approved"
                          /\ Latest(n).ticket = k /\ now < Latest(n).startTime
                          /\ tickets[k].owner = <<n, Latest(n).uid>>
<1>1. PICK n \in Names : /\ Live(n) /\ Latest(n).state = "Pre-Approved"
                         /\ Latest(n).ticket = k /\ now < Latest(n).startTime
  BY DEF AwaitsApproval
<1>2. tickets[k].owner = <<n, Latest(n).uid>>
  <2>1. Len(log[n]) \in DOMAIN log[n] /\ log[n][Len(log[n])] = Latest(n)
    BY <1>1 DEF Inductive, TypeOK, Live, Latest
  <2> QED
    BY <1>1, <2>1 DEF Inductive, TicketIsOwn, FiledFor
<1> QED
  BY <1>1, <1>2

\* RefusalStands is kept: an approval would have to come before the start, and the worker
\* refuses after it.
LEMMA RefusalStandsStep ==
  ASSUME Inductive, ConsentHeard, TicketInStatus, RefusalStands, CompletionPending, [Next]_vars
  PROVE  RefusalStands'
<1>1. log \in [Names -> Seq(Versions)] /\ log' \in [Names -> Seq(Versions)] /\ Grows
      /\ tickets \in Seq(TicketRecords)
  BY StepFootprint, FootprintGrows DEF Inductive, TypeOK
<1>2. SUFFICES ASSUME job' # Idle, job'.call = "UpdateRejected",
                      Request'.state = "Pre-Approved", UpToDate', EverApproved(job.issue)'
               PROVE  FALSE
  BY DEF RefusalStands, At
<1>3. job # Idle
  <2>1. ASSUME Reconciles  PROVE FALSE
    <3>1. PICK n \in Names : Reconcile(n)
      BY <2>1 DEF Reconciles
    <3> QED
      BY <1>2, <3>1, ReconcileCalls DEF Inductive
  <2> QED
    BY <1>2, <2>1, JobMoves DEF Work, CallFails, AnswerLost, FaultyCall
<1>4. /\ job'.name = job.name /\ Request' = Request
      /\ \/ UNCHANGED job
         \/ Checks
         \/ /\ At("GetIssue") /\ UNCHANGED <<log, bindings, tickets>>
            /\ tickets[job.issue].status # "Approved"
  BY <1>2, <1>3, RejectingStep DEF ConsentHeard, AfterTicket
<1>5. ~Checks
  BY <1>2, <1>3, <1>4, ChecksAreEarly DEF Inductive
<1>6. job'.issue = job.issue /\ job.issue = Request.ticket /\ Request.startTime <= now
  BY <1>2, <1>3, <1>4, <1>5, WorkerGoesOn DEF TicketInStatus
<1>7. FiledFor(job.issue, Owner) /\ job.issue \in 1..Len(tickets)
      /\ tickets[job.issue].owner = Owner
  <2>1. job.call \in OnTicket
    BY <1>2, <1>4, <1>5 DEF At, OnTicket, AfterStart
  <2>2. FiledFor(job.issue, Owner)
    BY <1>3, <2>1 DEF Inductive, WorkerKnows
  <2> QED
    BY <1>1, <2>2 DEF FiledFor
<1>8. UpToDate
  <2>1. job \in Jobs /\ job.rev \in 1..Len(log[job.name]) /\ job'.rev = Len(log'[job.name])
    BY <1>2, <1>3, <1>4, CopyInHand DEF Inductive, UpToDate
  <2>2. job'.rev = job.rev
    <3>1. ~CleansUp
      BY <1>2, <2>1 DEF CleansUp, Jobs
    <3> QED
      BY <1>2, <1>3, <3>1, JobGoesOn
  <2>3. Len(log[job.name]) <= Len(log'[job.name])
        /\ Len(log[job.name]) \in Nat /\ Len(log'[job.name]) \in Nat
    BY <1>1, <2>1 DEF Grows, Jobs
  <2> QED
    BY <2>1, <2>2, <2>3 DEF UpToDate
<1>9. Live(job.name) /\ Latest(job.name) = Request /\ job.name \in Names
  BY <1>3, <1>8, CopyIsLatest
<1>10. ~EverApproved(job.issue)
  <2>1. CASE UNCHANGED job
    BY <1>2, <1>3, <1>4, <1>8, <2>1 DEF RefusalStands, At
  <2>2. CASE At("GetIssue") /\ tickets[job.issue].status # "Approved"
    <3>1. ~At("UpdateSucceeded")
      BY <2>2 DEF At
    <3>2. tickets[job.issue].status # "Done"
      BY <1>2, <1>4, <1>6, <1>7, <1>9, <3>1 DEF CompletionPending
    <3> QED
      BY <2>2, <3>2 DEF EverApproved
  <2> QED
    BY <1>4, <1>5, <2>1, <2>2
<1>11. AwaitsApproval(job.issue)
  <2>1. PICK k \in 1..Len(tickets) : k = job.issue
    BY <1>7
  <2>2. ~EverApproved(k) /\ EverApproved(k)'
    BY <1>2, <1>6, <1>10, <2>1 DEF EverApproved
  <2> QED
    BY <2>1, <2>2, ApprovalAwaited DEF ConsentHeard
<1>12. PICK n \in Names : /\ now < Latest(n).startTime
                          /\ tickets[job.issue].owner = <<n, Latest(n).uid>>
  BY <1>11, OwnerAwaits
<1>13. n = job.name
  BY <1>7, <1>12 DEF Owner
<1>14. Request.startTime \in Nat /\ now \in Nat
  BY <1>3, CopyInHand DEF Inductive, TypeOK, Versions
<1> QED
  BY <1>6, <1>9, <1>12, <1>13, <1>14

\* ConsentRecorded is kept: what is approved is in the status, and the worker rejects
\* nothing that is.
LEMMA ConsentRecordedStep ==
  ASSUME Inductive, ConsentHeard, TicketsBefore, TicketInStatus, ConsentRecorded,
         RefusalStands, [Next]_vars
  PROVE  ConsentRecorded'
<1>1. SUFFICES ASSUME NEW n \in Names, NEW k \in 1..Len(tickets'), NEW u,
                      Live(n)', u = Latest(n)'.uid, tickets'[k].owner = <<n, u>>,
                      EverApproved(k)'
               PROVE  /\ Latest(n)'.state \in {"Pre-Approved", "Succeeded"}
                      /\ Latest(n)'.ticket = k
  BY DEF ConsentRecorded
<1>2. /\ tickets \in Seq(TicketRecords) /\ tickets' \in Seq(TicketRecords)
      /\ Len(tickets) \in Nat /\ Len(tickets') \in Nat
  BY TicketsFiled
<1>3. k \in 1..Len(tickets)
  <2>1. CASE Len(tickets') = Len(tickets)
    BY <1>1, <2>1
  <2>2. CASE Len(tickets') = Len(tickets) + 1 /\ tickets'[Len(tickets) + 1].status = "Todo"
    <3>1. k # Len(tickets) + 1
      BY <1>1, <2>2 DEF EverApproved
    <3> QED
      BY <1>1, <1>2, <2>2, <3>1
  <2> QED
    BY <2>1, <2>2, TicketsFiled
<1>4. tickets[k] \in TicketRecords /\ tickets[k].owner = <<n, u>>
  BY <1>1, <1>2, <1>3, TicketsFiled
<1>5. CASE ~EverApproved(k)
  <2>1. AwaitsApproval(k) /\ UNCHANGED log
    BY <1>1, <1>3, <1>5, ApprovalAwaited DEF ConsentHeard
  <2>2. PICK m \in Names : /\ Latest(m).state = "Pre-Approved" /\ Latest(m).ticket = k
                           /\ tickets[k].owner = <<m, Latest(m).uid>>
    BY <2>1, OwnerAwaits
  <2>3. m = n
    BY <1>4, <2>2
  <2> QED
    BY <2>1, <2>2, <2>3 DEF Latest
<1>6. CASE EverApproved(k) /\ log'[n] = log[n]
  <2>1. Live(n) /\ Latest(n)' = Latest(n)
    BY <1>1, <1>6 DEF Live, Latest
  <2> QED
    BY <1>1, <1>3, <1>4, <1>6, <2>1 DEF ConsentRecorded
<1>7. ASSUME EverApproved(k), NEW m \in Names, NEW v \in Versions, Write(m, v),
             Fresh(m, v) \/ Rewritten(m, v), log'[n] # log[n]
      PROVE  /\ Latest(n)'.state \in {"Pre-Approved", "Succeeded"}
             /\ Latest(n)'.ticket = k
  <2>1. m = n /\ Latest(n)' = v /\ Len(log[n]) \in Nat
    BY <1>7, WriteAtEnd DEF Inductive
  <2>2. v.uid = u /\ v.state # "Deleted"
    BY <1>1, <2>1 DEF Live
  <2>3. ~Fresh(n, v)
    <3>1. u \in Nat /\ u <= Len(log[n])
      BY <1>3, <1>4 DEF TicketsBefore, TicketRecords
    <3>2. u # Len(log[n]) + 1
      BY <2>1, <3>1
    <3> QED
      BY <2>2, <3>2 DEF Fresh
  <2>4. Live(n) /\ Latest(n).uid = u /\ Updated(n, v)
    BY <1>7, <2>1, <2>2, <2>3 DEF Rewritten, Gone, Edited, ConsentHeard
  <2>5. Latest(n).state \in {"Pre-Approved", "Succeeded"} /\ Latest(n).ticket = k
    BY <1>3, <1>4, <1>7, <2>4 DEF ConsentRecorded
  <2>6. /\ job # Idle /\ UpToDate /\ Latest(n) = Request /\ Request.state = "Pre-Approved"
        /\ At("UpdateRejected") \/ (At("UpdateSucceeded") /\ v.state = "Succeeded")
    BY <2>4, <2>5, UpdatedFrom
  <2>7. job.issue = k /\ v.ticket = k
    BY <2>4, <2>5, <2>6 DEF TicketInStatus, Updated
  <2>8. ~At("UpdateRejected")
    BY <1>7, <2>6, <2>7 DEF RefusalStands
  <2> QED
    BY <2>1, <2>6, <2>7, <2>8
<1> QED
  BY <1>5, <1>6, <1>7, LogGoesOn

\* CompletionPending is kept: between the completion of the ticket and its record nobody
\* else writes to the request.
LEMMA CompletionPendingStep ==
  ASSUME Inductive, ConsentHeard, PreApprovedOnce, ConsentRecorded, CompletionPending,
         [Next]_vars
  PROVE  CompletionPending'
<1>1. SUFFICES ASSUME NEW n \in Names, Live(n)', Latest(n)'.state = "Pre-Approved",
                      NEW k \in 1..Len(tickets'), k = Latest(n)'.ticket,
                      tickets'[k].status = "Done"
               PROVE  job' # Idle /\ At("UpdateSucceeded")' /\ job'.name = n /\ UpToDate'
  BY DEF CompletionPending
<1>2. /\ tickets \in Seq(TicketRecords) /\ tickets' \in Seq(TicketRecords)
      /\ Len(tickets) \in Nat /\ Len(tickets') \in Nat
  BY TicketsFiled
<1>3. k \in 1..Len(tickets)
  <2>1. CASE Len(tickets') = Len(tickets)
    BY <1>1, <2>1
  <2>2. CASE Len(tickets') = Len(tickets) + 1 /\ tickets'[Len(tickets) + 1].status = "Todo"
    <3>1. k # Len(tickets) + 1
      BY <1>1, <2>2
    <3> QED
      BY <1>1, <1>2, <2>2, <3>1
  <2> QED
    BY <2>1, <2>2, TicketsFiled
<1>4. ASSUME NEW m \in Names, NEW v \in Versions, Write(m, v), Fresh(m, v) \/ Rewritten(m, v),
             log'[n] # log[n]
      PROVE  FALSE
  <2>1. m = n /\ Latest(n)' = v
    BY <1>4, WriteAtEnd DEF Inductive
  <2>2. Updated(n, v) /\ v.state = "Pre-Approved"
    BY <1>1, <1>4, <2>1 DEF Fresh, Rewritten, Gone, Edited, ConsentHeard
  <2>3. /\ job # Idle /\ At("UpdatePreApproved") /\ UpToDate
        /\ Latest(n) = Request /\ n = job.name /\ Request.state = ""
    BY <2>2, UpdatedFrom
  <2>4. k = job.issue /\ UNCHANGED tickets /\ Live(n)
    BY <1>1, <1>4, <2>1, <2>2, <2>3, CopyIsLatest DEF Updated, WorkerWrites
  <2>5. tickets[k].owner = <<n, Latest(n).uid>>
    BY <2>3, <2>4 DEF Inductive, WorkerKnows, At, OnTicket, FiledFor, Owner
  <2>6. EverApproved(k)
    BY <1>1, <2>4 DEF EverApproved
  <2> QED
    BY <1>3, <2>3, <2>4, <2>5, <2>6 DEF ConsentRecorded
<1>5. log'[n] = log[n] /\ Live(n) /\ Latest(n)' = Latest(n)
  <2>1. log'[n] = log[n]
    BY <1>4, LogGoesOn
  <2> QED
    BY <1>1, <2>1 DEF Live, Latest
<1>6. CASE tickets[k].status # "Done"
  <2>1. k = job.issue /\ At("MoveCompleted") /\ Call("UpdateSucceeded") /\ job # Idle
    BY <1>1, <1>3, <1>6, CompletedByCall DEF ConsentHeard
  <2>2. /\ job \in Jobs /\ job.rev \in 1..Len(log[job.name]) /\ Request.state = "Pre-Approved"
        /\ tickets[k].owner = <<job.name, Request.uid>>
    BY <2>1, CopyInHand
       DEF Inductive, WorkerKnows, At, StatesBefore, Reads, OnTicket, AfterStart, FiledFor,
           Owner
  <2>3. tickets[k].owner = <<n, Latest(n).uid>>
    <3>1. Len(log[n]) \in DOMAIN log[n] /\ log[n][Len(log[n])] = Latest(n)
      BY <1>5 DEF Inductive, TypeOK, Live, Latest
    <3> QED
      BY <1>1, <1>5, <3>1 DEF Inductive, TicketIsOwn, FiledFor
  <2>4. job.name = n /\ Request.uid = Latest(n).uid
    BY <2>2, <2>3
  <2>5. job.rev = Len(log[n])
    BY <1>1, <1>5, <2>2, <2>4 DEF PreApprovedOnce, Request
  <2>6. job'.call = "UpdateSucceeded" /\ job'.name = n /\ job'.rev = job.rev
    BY <2>1, <2>2, <2>4 DEF Call, Jobs
  <2>7. job' # Idle
    BY <2>6 DEF Idle
  <2> QED
    BY <1>5, <2>5, <2>6, <2>7 DEF At, UpToDate
<1>7. CASE tickets[k].status = "Done"
  <2>1. job # Idle /\ At("UpdateSucceeded") /\ job.name = n /\ UpToDate
    BY <1>1, <1>3, <1>5, <1>7 DEF CompletionPending
  <2>2. UNCHANGED job
    <3>1. /\ job.call \notin Faulty /\ "crash" \notin Disturbances
          /\ ~At("CommentPreApproved") /\ ~Checks /\ job.call \notin Reads
      BY <2>1 DEF ConsentHeard, AnswersHeard, Checks, CreateIssue, Reads, At
    <3> QED
      BY <1>5, <2>1, <3>1, RecordingStep DEF At
  <2> QED
    BY <1>5, <2>1, <2>2 DEF At, UpToDate
<1> QED
  BY <1>6, <1>7

\* All of it holds.
LEMMA ConsentInvariant ==
  ASSUME ConsentHeard  PROVE Spec => []Consent
<1>1. Init => Consent
  BY DEF Init, ApiInit, JiraInit, Consent, UidsEarlier, TicketsBefore, PreApprovedOnce,
         TicketInStatus, ConsentRecorded, RefusalStands, CompletionPending, Live
<1>2. Inductive /\ Consent /\ [Next]_vars => Consent'
  BY UidsEarlierStep, TicketsBeforeStep, PreApprovedOnceStep, TicketInStatusStep,
     ConsentRecordedStep, RefusalStandsStep, CompletionPendingStep DEF Consent
<1> QED
  BY <1>1, <1>2, InductiveInvariant, PTL DEF Spec

\* Nobody who is approved is rejected, as long as approvals come in time and the operator
\* is not cut off from them (getJiraApproval takes every status but "Approved", and every
\* error, for a refusal; completeJiraTicket changes that status before it is written down).
THEOREM ApprovalIsNotOverridden ==
  ASSUME ConsentHeard  PROVE Spec => []ApprovedIsNotRejected
<1>1. ASSUME Inductive, Consent  PROVE ApprovedIsNotRejected
  <2>1. DOMAIN tickets = 1..Len(tickets)
    BY <1>1 DEF Inductive, TypeOK
  <2> QED
    BY <1>1, <2>1 DEF Consent, ConsentRecorded, ApprovedIsNotRejected
<1> QED
  BY <1>1, ConsentInvariant, InductiveInvariant, PTL

\* Then a rejected request holds no RoleBinding either, however stale the reads and
\* whatever other call fails: a grant needs the approval.
THEOREM RejectionMeetsNoConsent ==
  ASSUME ConsentHeard  PROVE Spec => []RejectedHoldsNothing
<1>1. GrantNeedsApproval /\ ApprovedIsNotRejected => RejectedHoldsNothing
  BY DEF GrantNeedsApproval, ApprovedIsNotRejected, RejectedHoldsNothing
<1> QED
  BY <1>1, ApprovalIsNotOverridden, ApprovalComesFirst, PTL
=============================================================================
