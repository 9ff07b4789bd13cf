------------------------- MODULE JitRequestOnceProofs -------------------------
(***************************************************************************)
(* What holds as long as no name of a request is used again: what is       *)
(* deleted by name is the request that was judged, its ticket has been     *)
(* closed before, and a ticket that tells of access tells the truth.       *)
(***************************************************************************)
EXTENDS JitRequestProofs

\* Without this none of the three properties holds: a deletion by name takes whatever has
\* the name, and a RoleBinding of the former owner counts as one's own.
NamesOnce == "recreate" \notin Disturbances

-----------------------------------------------------------------------------
(* The worker's ways.                                                        *)

\* The calls that follow one another whatever the first is answered with.
Turns == {<<"FindReporter", "CreateIssue">>, <<"CommentPreApproved", "UpdatePreApproved">>,
          <<"GetIssue", "UpdateRejected">>, <<"CommentCompleted", "MoveCompleted">>,
          <<"MoveCompleted", "UpdateSucceeded">>, <<"CommentRejected", "MoveRejected">>}

\* The clean-up goes on with the version that was just written.
CleansUp ==
  /\ At("UpdateSucceeded") /\ updateStatus("Succeeded") /\ Request.spec.endTime <= now
  /\ job' = [job EXCEPT !.call = "DeleteExpired", !.rev = @ + 1]

\* What may follow a ticket that was created, up to the pre-approval.
AfterTicket == Reads \union {"ListNamespaces", "CommentPreApproved", "UpdateRejected"}

\* A new request is given its ticket or is checked, last of all for its start.
Checks ==
  /\ CreateIssue \/ (job.call \in Reads \union {"ListNamespaces"} /\ NoEffect)
  /\ job'.name = job.name /\ job'.rev = job.rev /\ job'.call \in AfterTicket
  /\ job'.call = "CommentPreApproved" => Request.spec.startTime > now

\* The checks of a new request lead on as long as there is a pattern to read.
LEMMA ChecksGoOn ==
  ASSUME TypeOK, job # Idle,
         CreateIssue \/ ListNamespaces \/ ((MatchNamespace \/ QuotePattern) /\ pattern # 0)
  PROVE  Checks
<1>1. job \in Jobs
  BY CopyInHand
<1>2. CASE CreateIssue
  <2>1. /\ job'.name = job.name /\ job'.rev = job.rev
        /\ job'.call = CallOfTicket(Request.spec)
    BY <1>1, <1>2 DEF CreateIssue, Jobs
  <2> QED
    BY <1>2, <2>1, CallsOfNames DEF Checks, CallOfTicket, AfterTicket, Reads
<1>3. CASE ListNamespaces
  <2>1. /\ job'.name = job.name /\ job'.rev = job.rev /\ At("ListNamespaces") /\ NoEffect
        /\ job'.call = IF LabelsMatch(Request.spec) THEN CallOfNames(Request.spec)
                       ELSE "UpdateRejected"
    BY <1>1, <1>3 DEF ListNamespaces, Jobs
  <2> QED
    BY <2>1, CallsOfNames DEF Checks, AfterTicket, Reads, At
<1>4. CASE MatchNamespace /\ pattern # 0
  <2>1. At("MatchNamespace") /\ NoEffect
    BY <1>4 DEF MatchNamespace
  <2>2. CASE Call("QuotePattern")
    BY <1>1, <2>1, <2>2 DEF Checks, AfterTicket, Reads, Call, Jobs, At
  <2>3. CASE MatchFrom(job.next + 1)
    <3>1. /\ job'.name = job.name /\ job'.rev = job.rev
          /\ job'.call \in {"MatchNamespace", CallOfStart(Request.spec)}
      BY <1>1, <2>3 DEF MatchFrom, Jobs
    <3> QED
      BY <2>1, <3>1, CallsOfNames DEF Checks, AfterTicket, Reads, At
  <2> QED
    BY <1>4, <2>2, <2>3 DEF MatchNamespace
<1>5. CASE QuotePattern /\ pattern # 0
  BY <1>1, <1>5 DEF QuotePattern, Checks, AfterTicket, Reads, Call, Jobs, At
<1> QED
  BY <1>2, <1>3, <1>4, <1>5

\* Where a call leads.
LEMMA WorkerTurns ==
  ASSUME TypeOK, job # Idle, Work \/ CallFails \/ AnswerLost
  PROVE  \/ job' = Idle
         \/ Checks
         \/ CleansUp
         \/ At("GetIssue") /\ NoEffect /\ EverApproved(job.issue) /\ BindFrom(1)
         \/ At("CreateRoleBinding") /\ CreateBinding /\ BindFrom(job.next + 1)
         \/ At("MoveCompleted") /\ MoveIssue("complete") /\ Call("UpdateSucceeded")
         \/ At("MoveRejected") /\ MoveIssue("rejected") /\ Call("DeleteRejected")
         \/ At("GetIssue") /\ NoEffect /\ Call("UpdateRejected")
         \/ /\ job.call \notin {"GetIssue", "MoveCompleted", "MoveRejected"}
            /\ \E c \in Calls : Call(c) /\ <<job.call, c>> \in Turns
<1>1. job \in Jobs /\ Request \in Versions /\ Request.spec.endTime \in Nat /\ now \in Nat
  BY CopyInHand DEF SpecType, TypeOK
<1>2. CASE OnError /\ NoEffect
  <2>1. CASE At("ListNamespaces") /\ Call("UpdateRejected")
    BY <1>1, <1>2, <2>1 DEF Checks, AfterTicket, Call, Jobs, At
  <2> QED
    BY <1>2, <2>1 DEF OnError, Done, Retry, At
<1>3. CASE FindReporter \/ CommentPreApproved \/ CommentCompleted \/ CommentRejected
  BY <1>2, <1>3
     DEF FindReporter, CommentPreApproved, CommentCompleted, CommentRejected, Turns, Calls,
         At
<1>4. CASE GetIssue
  BY <1>4 DEF GetIssue, EverApproved
<1>5. CASE CreateRoleBinding \/ MoveCompleted
  BY <1>2, <1>5 DEF CreateRoleBinding, MoveCompleted, Refused
<1>6. CASE MoveRejected
  BY <1>2, <1>6 DEF MoveRejected, Refused
<1>7. CASE UpdatePreApproved \/ UpdateRejected \/ UpdateSkipped \/ DeleteRequest
  BY <1>2, <1>7
     DEF UpdatePreApproved, UpdateRejected, UpdateSkipped, DeleteRequest, Done, RequeueAt,
         Refused
<1>8. CASE UpdateSucceeded
  BY <1>1, <1>2, <1>8 DEF UpdateSucceeded, CleansUp, RequeueAt, Refused
<1>9. CASE CallFails
  BY <1>2, <1>9 DEF CallFails, Refused
<1>10. CASE AnswerLost
  BY <1>10 DEF AnswerLost, OnError, Done, Retry, At
<1>11. CASE CreateIssue \/ ListNamespaces
  BY <1>11, ChecksGoOn
<1>12. CASE MatchNamespace \/ QuotePattern
  BY <1>12, ChecksGoOn DEF MatchNamespace, QuotePattern, Retry
<1> QED
  BY <1>3, <1>4, <1>5, <1>6, <1>7, <1>8, <1>9, <1>10, <1>11, <1>12 DEF Work

\* What happens to the tickets: one is filed for the request in hand, one is completed by
\* the worker, or approvers decide on one.
LEMMA TicketMoves ==
  ASSUME TypeOK, WorkerKnows, [Next]_vars
  PROVE  \/ UNCHANGED tickets
         \/ job # Idle /\ At("CreateIssue") /\ FileTicket(Owner)
         \/ \E k \in DOMAIN tickets, a \in {"approval", "rejected"} : Move(k, a)
         \/ job # Idle /\ At("MoveCompleted") /\ Move(job.issue, "complete")
<1>1. CASE Work \/ CallFails \/ AnswerLost
  <2>1. job # Idle /\ CallDoes
    BY <1>1, CallDoesOneThing
  <2>2. CASE At("MoveRejected") /\ MoveIssue("rejected")
    BY <2>1, <2>2 DEF WorkerKnows, At, OnTicket, FiledFor, MoveIssue
  <2> QED
    BY <2>1, <2>2
       DEF CallDoes, NoEffect, FileIssue, MoveIssue, CreateBinding, deleteJitRequest,
           updateStatus
<1>2. ASSUME NEW k \in DOMAIN tickets, ApproveTicket(k) \/ VetoTicket(k)
      PROVE  \E a \in {"approval", "rejected"} : Move(k, a)
  BY <1>2 DEF ApproveTicket, VetoTicket
<1> QED
  BY <1>1, <1>2
     DEF Next, Operator, Reconcile, Restart, ConfigChanges, ConfigPublished, ConfigCompiled,
         ConfigSaved, ConfigLost, CollectGarbage, Tick, Deliver, Relist, TakeOver, WakeUp,
         WithdrawRequest, CreateRequest, EditRequest, vars

-----------------------------------------------------------------------------
(* Who writes a log.                                                         *)

\* A request is created, with a uid that no version has.
Fresh(n, v) ==
  /\ log[n] = <<>> \/ (~Live(n) /\ "recreate" \in Disturbances)
  /\ v.uid = Len(log[n]) + 1 /\ v.state = "" /\ Admitted(v.spec)

\* A request is deleted, touched or edited by a user, or written by the worker.
Gone(n, v) ==
  /\ v.state = "Deleted" /\ v.spec = Latest(n).spec
  /\ v.ticket = Latest(n).ticket /\ v.endTime = Latest(n).endTime

Edited(n, v) ==
  /\ "edit" \in Disturbances \/ ("touch" \in Disturbances /\ v.spec = Latest(n).spec)
  /\ v.state = Latest(n).state /\ v.ticket = Latest(n).ticket /\ Admitted(v.spec)
  /\ v.startTime = Latest(n).startTime /\ v.endTime = Latest(n).endTime

Updated(n, v) ==
  /\ WorkerWrites /\ n = job.name /\ Latest(n) = Request
  /\ v.state = StateAfter(job.call) /\ v.ticket = job.issue /\ v.spec = Request.spec
  /\ v.startTime = Request.spec.startTime /\ v.endTime = Request.spec.endTime
  /\ job' = Idle \/ CleansUp

Rewritten(n, v) ==
  Live(n) /\ v.uid = Latest(n).uid /\ (Gone(n, v) \/ Edited(n, v) \/ Updated(n, v))

\* The last version of a request that is there is one.
LEMMA LatestThere ==
  ASSUME TypeOK, NEW n \in Names, Live(n)
  PROVE  /\ Latest(n) \in Versions /\ Len(log[n]) \in 1..Len(log[n])
         /\ Latest(n) = log[n][Len(log[n])]
<1>1. log[n] \in Seq(Versions) /\ log[n] # <<>>
  BY DEF TypeOK, Live
<1>2. Len(log[n]) \in 1..Len(log[n])
  BY <1>1
<1> QED
  BY <1>1, <1>2 DEF Latest

\* A status update writes state and times of the copy in hand and, whether its answer is
\* lost or not, it is the last thing the reconcile does or the clean-up goes on with it.
LEMMA WorkerUpdates ==
  ASSUME Inductive, Work \/ CallFails \/ AnswerLost,
         job.call \in Updates, updateStatus(StateAfter(job.call))
  PROVE  \E v \in Versions :
           Write(job.name, v) /\ Rewritten(job.name, v) /\ Updated(job.name, v)
<1>1. job # Idle /\ UNCHANGED now /\ CallDoes
  BY CallDoesOneThing
<1>2. WorkerWrites
  BY <1>1 DEF WorkerWrites, updateStatus
<1>3. /\ job \in Jobs /\ Request \in Versions /\ Request.spec \in SpecType
      /\ Latest(job.name) = Request /\ Live(job.name)
  BY <1>1, <1>2, CopyInHand, UpdateFromLatest DEF Inductive
<1> DEFINE v == [Request EXCEPT !.state = StateAfter(job.call), !.ticket = job.issue,
                                !.startTime = Request.spec.startTime,
                                !.endTime = Request.spec.endTime]
<1>4. /\ v \in Versions /\ v.uid = Request.uid /\ v.state = StateAfter(job.call)
      /\ v.ticket = job.issue /\ v.spec = Request.spec
      /\ v.startTime = Request.spec.startTime /\ v.endTime = Request.spec.endTime
  BY <1>3 DEF Versions, SpecType, Jobs, StateAfter, States
<1>5. Write(job.name, v)
  BY DEF updateStatus
<1>6. /\ \A c : <<job.call, c>> \notin Turns
      /\ ~At("CreateIssue") /\ ~At("GetIssue") /\ ~At("CreateRoleBinding")
      /\ ~At("MoveCompleted") /\ ~At("MoveRejected")
      /\ job.call \notin Reads \union {"ListNamespaces"}
  BY DEF Updates, Turns, Reads, At
<1>7. job' = Idle \/ CleansUp
  BY <1>1, <1>6, WorkerTurns DEF Inductive, Checks, CreateIssue
<1> HIDE DEF v
<1> QED
  BY <1>2, <1>3, <1>4, <1>5, <1>7 DEF Updated, Rewritten

\* Whatever is written is new or follows the last version.
LEMMA LogGoesOn ==
  ASSUME Inductive, [Next]_vars
  PROVE  \/ UNCHANGED log
         \/ \E n \in Names, v \in Versions :
              Write(n, v) /\ UNCHANGED now /\ (Fresh(n, v) \/ Rewritten(n, v))
<1> DEFINE Good == \E n \in Names, v \in Versions :
                     Write(n, v) /\ UNCHANGED now /\ (Fresh(n, v) \/ Rewritten(n, v))
<1>1. TypeOK /\ WorkerKnows /\ log \in [Names -> Seq(Versions)]
  BY DEF Inductive, TypeOK
<1>2. ASSUME NEW n \in Names, Delete(n), UNCHANGED now  PROVE Good
  <2> DEFINE v == [Latest(n) EXCEPT !.state = "Deleted"]
  <2>1. Live(n) /\ Write(n, v) /\ Latest(n) \in Versions
    BY <1>1, <1>2, LatestThere DEF Delete
  <2>2. v \in Versions /\ v.uid = Latest(n).uid /\ Gone(n, v)
    BY <2>1 DEF Versions, States, Gone
  <2> HIDE DEF v
  <2> QED
    BY <1>2, <2>1, <2>2 DEF Rewritten
<1>3. ASSUME NEW n \in Names, NEW s \in Specs, EditRequest(n, s)  PROVE Good
  <2> DEFINE v == [Latest(n) EXCEPT !.spec = s]
  <2>1. /\ Live(n) /\ Write(n, v) /\ Latest(n) \in Versions /\ Admitted(s) /\ UNCHANGED now
        /\ "edit" \in Disturbances \/ ("touch" \in Disturbances /\ s = Latest(n).spec)
    BY <1>1, <1>3, LatestThere DEF EditRequest
  <2>2. v \in Versions /\ v.uid = Latest(n).uid /\ Edited(n, v)
    BY <2>1 DEF Versions, Edited
  <2> HIDE DEF v
  <2> QED
    BY <2>1, <2>2 DEF Rewritten
<1>4. ASSUME NEW n \in Names, NEW s \in Specs, CreateRequest(n, s)  PROVE Good
  <2> DEFINE v == [uid |-> Len(log[n]) + 1, spec |-> s, state |-> "",
                   ticket |-> 0, startTime |-> 0, endTime |-> 0]
  <2>1. Len(log[n]) \in Nat
    BY <1>1
  <2>2. v \in Versions /\ v.uid = Len(log[n]) + 1 /\ v.state = "" /\ v.spec = s
    BY <2>1 DEF Versions, States
  <2>3. /\ Write(n, v) /\ Admitted(s) /\ UNCHANGED now
        /\ log[n] = <<>> \/ (~Live(n) /\ "recreate" \in Disturbances)
    BY <1>4 DEF CreateRequest, Create
  <2> HIDE DEF v
  <2> QED
    BY <2>2, <2>3 DEF Fresh
<1>5. ASSUME Work \/ CallFails \/ AnswerLost  PROVE Good \/ UNCHANGED log
  <2>1. job # Idle /\ UNCHANGED now /\ CallDoes
    BY <1>5, CallDoesOneThing
  <2>2. job \in Jobs
    BY <1>1, <2>1, CopyInHand
  <2>3. CASE job.call \in Updates /\ updateStatus(StateAfter(job.call))
    BY <1>5, <2>1, <2>2, <2>3, WorkerUpdates DEF Jobs
  <2>4. CASE deleteJitRequest
    BY <1>2, <2>1, <2>2, <2>4 DEF deleteJitRequest, Jobs
  <2> QED
    BY <2>1, <2>3, <2>4 DEF CallDoes, NoEffect, FileIssue, MoveIssue, CreateBinding
<1> HIDE DEF Good
<1>6. ASSUME NEW n \in Names,
             \/ Reconcile(n) \/ Deliver(n) \/ Relist(n) \/ WakeUp(n) \/ WithdrawRequest(n)
             \/ \E s \in Specs : CreateRequest(n, s) \/ EditRequest(n, s)
      PROVE  Good \/ UNCHANGED log
  BY <1>2, <1>3, <1>4, <1>6
     DEF Reconcile, Deliver, Relist, TakeOver, WakeUp, WithdrawRequest, apiVars
<1>7. ASSUME \/ Restart \/ ConfigChanges \/ CollectGarbage \/ Tick \/ UNCHANGED vars
             \/ \E k \in DOMAIN tickets : ApproveTicket(k) \/ VetoTicket(k)
      PROVE  UNCHANGED log
  BY <1>7
     DEF Restart, ConfigChanges, ConfigPublished, ConfigCompiled, ConfigSaved, ConfigLost,
         CollectGarbage, Tick, ApproveTicket, VetoTicket, apiVars, vars
<1>8. Good \/ UNCHANGED log
  BY <1>5, <1>6, <1>7 DEF Next, Operator
<1> QED
  BY <1>8 DEF Good

\* A write puts one version at the end of one log.
LEMMA WriteAtEnd ==
  ASSUME TypeOK, NEW n \in Names, NEW v \in Versions, Write(n, v)
  PROVE  /\ Latest(n)' = v /\ Len(log[n]) \in Nat /\ Len(log'[n]) = Len(log[n]) + 1
         /\ \A m \in Names : m # n => log'[m] = log[m]
         /\ \A i \in 1..Len(log'[n]) :
              \/ i \in 1..Len(log[n]) /\ log'[n][i] = log[n][i]
              \/ i = Len(log[n]) + 1 /\ log'[n][i] = v
<1>1. log \in [Names -> Seq(Versions)]
  BY DEF TypeOK
<1>2. /\ Len(log'[n]) = Len(log[n]) + 1 /\ log'[n][Len(log[n]) + 1] = v
      /\ \A i \in 1..Len(log[n]) : log'[n][i] = log[n][i]
  BY <1>1, WriteAppends
<1>3. Latest(n)' = v /\ \A m \in Names : m # n => log'[m] = log[m]
  BY WriteLatest
<1>4. Len(log[n]) \in Nat
  BY <1>1
<1>5. \A i \in 1..Len(log'[n]) : i \in 1..Len(log[n]) \/ i = Len(log[n]) + 1
  BY <1>2, <1>4
<1> QED
  BY <1>2, <1>3, <1>4, <1>5

-----------------------------------------------------------------------------
(* One request per name.                                                     *)

Final == {"Rejected", "Succeeded"}

\* Version v may follow version old of the same request.
Follows(old, v) ==
  /\ v.uid = old.uid
  /\ old.state \in Final => /\ v.state \in {old.state, "Deleted"}
                           /\ v.endTime = old.endTime /\ v.ticket = old.ticket
  /\ "edit" \notin Disturbances => v.spec = old.spec

\* All versions of a name are of one request, and its final state is final.
OneRequest ==
  \A n \in Names : \A i \in 1..Len(log[n]) : Follows(log[n][i], Latest(n))

\* A name's first version is a creation, every other one follows a live one.
LEMMA LogMoves ==
  ASSUME Inductive, NamesOnce, [Next]_vars
  PROVE  \/ UNCHANGED log
         \/ \E n \in Names, v \in Versions :
              /\ Write(n, v)
              /\ log[n] = <<>> \/ (Live(n) /\ Follows(Latest(n), v))
<1>1. ASSUME NEW n \in Names, NEW v \in Versions, Rewritten(n, v)
      PROVE  Live(n) /\ Follows(Latest(n), v)
  <2>1. CASE Gone(n, v) \/ Edited(n, v)
    BY <1>1, <2>1 DEF Rewritten, Gone, Edited, Follows
  <2>2. CASE Updated(n, v)
    <3>1. Latest(n).state \in StatesBefore(job.call) /\ job.call \in Updates
      BY <2>2, UpdateFromLatest DEF Updated, WorkerWrites, Inductive
    <3>2. Latest(n).state \notin Final
      BY <3>1 DEF StatesBefore, Reads, Updates, Final
    <3> QED
      BY <1>1, <2>2, <3>2 DEF Rewritten, Updated, Follows
  <2> QED
    BY <1>1, <2>1, <2>2 DEF Rewritten
<1>2. ASSUME NEW n \in Names, NEW v \in Versions, Fresh(n, v)  PROVE log[n] = <<>>
  BY <1>2 DEF Fresh, NamesOnce
<1> QED
  BY <1>1, <1>2, LogGoesOn

\* Following is transitive: what followed the last version of a live request follows
\* all that were before.
LEMMA OneRequestStep ==
  ASSUME Inductive, NamesOnce, OneRequest, [Next]_vars
  PROVE  OneRequest'
<1>1. log \in [Names -> Seq(Versions)]
  BY DEF Inductive, TypeOK
<1>2. CASE UNCHANGED log
  BY <1>2 DEF OneRequest, Latest, Follows
<1>3. ASSUME NEW n \in Names, NEW v \in Versions, Write(n, v),
             log[n] = <<>> \/ (Live(n) /\ Follows(Latest(n), v))
      PROVE  OneRequest'
  <2>1. /\ \A m \in Names : Len(log'[m]) = IF m = n THEN Len(log[m]) + 1 ELSE Len(log[m])
        /\ \A m \in Names : \A i \in 1..Len(log[m]) : log'[m][i] = log[m][i]
        /\ log'[n][Len(log[n]) + 1] = v
    BY <1>1, <1>3, WriteAppends
  <2>2. Latest(n)' = v /\ \A m \in Names : m # n => log'[m] = log[m]
    BY <1>3, WriteLatest DEF Inductive
  <2>3. ASSUME NEW i \in 1..Len(log'[n])  PROVE Follows(log'[n][i], v)
    <3>1. Len(log[n]) \in Nat
      BY <1>1
    <3>2. CASE i = Len(log[n]) + 1
      BY <2>1, <3>2 DEF Follows
    <3>3. CASE i \in 1..Len(log[n])
      <4>1. log[n] # <<>> /\ log'[n][i] = log[n][i] /\ Follows(log[n][i], Latest(n))
        BY <1>1, <2>1, <3>3 DEF OneRequest
      <4>2. Latest(n).state # "Deleted" /\ Follows(Latest(n), v)
        BY <1>3, <4>1 DEF Live
      <4> QED
        BY <4>1, <4>2 DEF Follows
    <3> QED
      BY <2>1, <3>1, <3>2, <3>3
  <2>4. ASSUME NEW m \in Names, NEW i \in 1..Len(log'[m])
        PROVE  Follows(log'[m][i], Latest(m)')
    <3>1. CASE m = n
      BY <2>2, <2>3, <3>1
    <3>2. CASE m # n
      BY <2>2, <3>2 DEF OneRequest, Latest
    <3> QED
      BY <3>1, <3>2
  <2> QED
    BY <2>4 DEF OneRequest, Follows
<1> QED
  BY <1>2, <1>3, LogMoves

-----------------------------------------------------------------------------
(* What is deleted is over.                                                  *)

\* Whoever is about to delete an expired request has seen that it is over.
OverOK == job # Idle /\ At("DeleteExpired") => Request.endTime <= now

\* A reconcile takes up a request and nothing else happens.
Reconciles == \E n \in Names : Reconcile(n)

\* Only calls and reconciles move the worker, and a restart stops it.
LEMMA JobMoves ==
  ASSUME [Next]_vars
  PROVE  \/ UNCHANGED job \/ job' = Idle
         \/ Work \/ CallFails \/ AnswerLost
         \/ Reconciles
BY DEF Reconciles, Next, Operator, Restart, ConfigChanges, ConfigPublished, ConfigCompiled,
       ConfigSaved, ConfigLost, CollectGarbage, Tick, Deliver, Relist, TakeOver, WakeUp,
       WithdrawRequest, CreateRequest, EditRequest, ApproveTicket, VetoTicket, vars

\* A reconcile begins with one of five calls.
LEMMA ReconcileCalls ==
  ASSUME TypeOK, NEW n \in Names, Reconcile(n), job' # Idle
  PROVE  /\ job'.name = n /\ job'.rev = seen[n] /\ seen[n] \in 1..Len(log[n])
         /\ job'.call \in {"DeleteRejected", "CommentRejected", "FindReporter",
                           "UpdateSkipped", "GetIssue", "DeleteExpired"}
         /\ job'.call = "DeleteExpired" => log[n][seen[n]].endTime <= now
         /\ UNCHANGED <<log, tickets, now>>
<1>1. UNCHANGED <<log, tickets, now>>
  BY DEF Reconcile
<1>2. ASSUME Found(n)
      PROVE  /\ seen[n] \in 1..Len(log[n]) /\ Cached(n) = log[n][seen[n]]
             /\ Cached(n).endTime \in Nat /\ now \in Nat
  BY <1>2, CopyInCache DEF Versions, TypeOK
<1>3. CASE handleFetchError(n) \/ ReadConfigFromFile(n)
  BY <1>3 DEF handleFetchError, ReadConfigFromFile, Done, Retry
<1>4. CASE Found(n) /\ (handleRejected(n) \/ handleNewRequest(n))
  <2>1. \E c \in {"DeleteRejected", "CommentRejected", "FindReporter", "UpdateSkipped"},
           k \in {Cached(n).ticket, Skipped} : Begin(n, c, k)
    BY <1>4 DEF handleRejected, handleNewRequest
  <2> QED
    BY <1>1, <1>2, <1>4, <2>1 DEF Begin
<1>5. CASE Found(n) /\ handlePreApproved(n)
  BY <1>1, <1>2, <1>5 DEF handlePreApproved, RequeueAt, Begin
<1>6. CASE Found(n) /\ handleCleanup(n)
  BY <1>1, <1>2, <1>6 DEF handleCleanup, RequeueAt, Begin
<1> QED
  BY <1>3, <1>4, <1>5, <1>6 DEF Reconcile

\* OverOK is kept: the end time was compared with the clock, in the cached version or in
\* the one that was written a moment ago.
LEMMA OverOKStep ==
  ASSUME TypeOK, TicketIsOwn, WorkerKnows, OverOK, [Next]_vars
  PROVE  OverOK'
<1>1. /\ Footprint /\ now \in Nat /\ now' \in Nat /\ now <= now'
  BY StepFootprint, TimeStep DEF TypeOK
<1>2. CASE job' = Idle
  BY <1>2 DEF OverOK
<1>3. CASE UNCHANGED job
  <2>1. job # Idle => log'[job.name][job.rev] = Request /\ Request.endTime \in Nat
    BY <1>1, CopyStays, CopyInHand DEF Versions
  <2> QED
    BY <1>1, <1>3, <2>1 DEF OverOK, Request, At
<1>4. ASSUME NEW n \in Names, Reconcile(n), job' # Idle  PROVE OverOK'
  BY <1>4, ReconcileCalls DEF OverOK, Request, At
<1>5. CASE (Work \/ CallFails \/ AnswerLost) /\ job' # Idle
  <2>1. job # Idle /\ job \in Jobs /\ job.rev \in 1..Len(log[job.name])
        /\ Request \in Versions /\ Request.spec \in SpecType /\ UNCHANGED now
    BY <1>5, CallDoesOneThing, CopyInHand
  <2>2. ASSUME NEW c, Call(c), c # "DeleteExpired"  PROVE OverOK'
    BY <2>1, <2>2 DEF OverOK, Call, At, Jobs
  <2>3. CASE CleansUp
    <3> DEFINE v == [Request EXCEPT !.state = "Succeeded", !.ticket = job.issue,
                                    !.startTime = Request.spec.startTime,
                                    !.endTime = Request.spec.endTime]
    <3>1. v \in Versions /\ v.endTime = Request.spec.endTime
      BY <2>1 DEF Versions, SpecType, Jobs, States
    <3>2. Write(job.name, v) /\ job.rev = Len(log[job.name])
      BY <2>3 DEF CleansUp, updateStatus, UpToDate
    <3>3. job'.rev = job.rev + 1 /\ job'.name = job.name
      BY <2>1, <2>3 DEF CleansUp, Jobs
    <3> HIDE DEF v
    <3>4. log'[job.name][job.rev + 1] = v
      BY <2>1, <3>1, <3>2, WriteAppends DEF TypeOK, Jobs
    <3> QED
      BY <1>1, <2>1, <2>3, <3>1, <3>3, <3>4 DEF OverOK, CleansUp, Request, SpecType
  <2>4. CASE Checks
    BY <2>4 DEF OverOK, Checks, AfterTicket, Reads, At
  <2>5. ASSUME NEW i, BindFrom(i)  PROVE OverOK'
    BY <2>1, <2>5 DEF OverOK, BindFrom, At, Jobs
  <2>6. ASSUME NEW c, Call(c), <<job.call, c>> \in Turns  PROVE OverOK'
    BY <2>2, <2>6 DEF Turns
  <2> QED
    BY <1>5, <2>1, <2>2, <2>3, <2>4, <2>5, <2>6, WorkerTurns
<1> QED
  BY <1>2, <1>3, <1>4, <1>5, JobMoves DEF Reconciles

\* Who deletes for the operator, and of what he had in hand: the request's last version is
\* final and agrees with it.
LEMMA DeletedInHand ==
  ASSUME TypeOK, WorkerKnows, OneRequest, [Next]_vars,
         NEW n \in Names, job' # job, log'[n] # log[n], Latest(n)'.state = "Deleted"
  PROVE  /\ job # Idle /\ (At("DeleteRejected") \/ At("DeleteExpired"))
         /\ UNCHANGED <<now, tickets>>
         /\ job.name = n /\ Follows(Request, Latest(n))
         /\ Latest(n).state = IF At("DeleteRejected") THEN "Rejected" ELSE "Succeeded"
<1>1. Work \/ CallFails \/ AnswerLost
  BY DEF Next, Operator, Reconcile, Restart, ConfigChanges, ConfigPublished, ConfigCompiled,
         ConfigSaved, ConfigLost, CollectGarbage, Tick, Deliver, Relist, TakeOver, WakeUp,
         WithdrawRequest, CreateRequest, EditRequest, ApproveTicket, VetoTicket, vars
<1>2. job # Idle /\ UNCHANGED now /\ CallDoes
  BY <1>1, CallDoesOneThing
<1>3. job \in Jobs /\ job.rev \in 1..Len(log[job.name])
  BY <1>2, CopyInHand
<1>4. CASE job.call \in Updates /\ updateStatus(StateAfter(job.call))
  <2>1. PICK v \in Versions : Write(job.name, v) /\ v.state = StateAfter(job.call)
    BY <1>2, <1>4, UpdateWrites DEF WorkerWrites, updateStatus
  <2>2. n = job.name /\ Latest(n)' = v
    BY <1>3, <2>1, WriteLatest DEF Jobs
  <2> QED
    BY <2>1, <2>2 DEF StateAfter
<1>5. CASE (At("DeleteRejected") \/ At("DeleteExpired")) /\ deleteJitRequest
  <2>1. /\ log' = [log EXCEPT ![job.name] = log'[job.name]] /\ Live(job.name)
        /\ UNCHANGED tickets
    BY <1>5 DEF deleteJitRequest, Delete, Write, TypeOK
  <2>2. n = job.name
    BY <2>1 DEF TypeOK
  <2>3. Follows(Request, Latest(n))
    BY <1>3, <2>2 DEF OneRequest, Request
  <2>4. Request.state = IF At("DeleteRejected") THEN "Rejected" ELSE "Succeeded"
    BY <1>2, <1>5 DEF WorkerKnows, StatesBefore, Reads, At
  <2> QED
    BY <1>2, <1>5, <2>1, <2>2, <2>3, <2>4 DEF Follows, Final, Live
<1> QED
  BY <1>2, <1>4, <1>5 DEF CallDoes, NoEffect, FileIssue, MoveIssue, CreateBinding

\* What a call deletes was judged, and the judgement is final.
LEMMA DeletedStep ==
  ASSUME TypeOK, WorkerKnows, OneRequest, OverOK, [Next]_vars,
         NEW n \in Names, job' # job, log'[n] # log[n], Latest(n)'.state = "Deleted"
  PROVE  \/ Latest(n).state = "Rejected"
         \/ Latest(n).state = "Succeeded" /\ Latest(n).endTime <= now
<1>1. /\ job # Idle /\ (At("DeleteRejected") \/ At("DeleteExpired"))
      /\ Follows(Request, Latest(n))
      /\ Latest(n).state = IF At("DeleteRejected") THEN "Rejected" ELSE "Succeeded"
  BY DeletedInHand
<1>2. At("DeleteExpired") => Request.state = "Succeeded" /\ Request.endTime <= now
  BY <1>1 DEF WorkerKnows, StatesBefore, Reads, OverOK, At
<1> QED
  BY <1>1, <1>2 DEF Follows, Final

OnceInductive == OneRequest /\ OverOK

\* As long as names are used once, one request has each name, and the end time of one
\* that is about to be deleted as expired has come.
LEMMA OnceInvariant ==
  ASSUME NamesOnce  PROVE Spec => []OnceInductive
<1>1. Init => OnceInductive
  BY DEF Init, ApiInit, OnceInductive, OneRequest, OverOK
<1>2. Inductive /\ OnceInductive /\ [Next]_vars => OnceInductive'
  BY OneRequestStep, OverOKStep DEF Inductive, OnceInductive
<1> QED
  BY <1>1, <1>2, InductiveInvariant, PTL DEF Spec

\* The operator deletes a request only when it is rejected or over, although it deletes by
\* name and decides on a copy that may be old (handleRejected, handleCleanup).
THEOREM DeletionsAreDue ==
  ASSUME NamesOnce  PROVE Spec => DeletedWhenOver
<1>1. Inductive /\ OnceInductive /\ [Next]_vars =>
        [\A n \in Names :
           /\ job' # job /\ log'[n] # log[n]
           /\ Latest(n)'.state = "Deleted"
           =>
             \/ Latest(n).state = "Rejected"
             \/ Latest(n).state = "Succeeded" /\ Latest(n).endTime <= now]_vars
  BY DeletedStep DEF Inductive, OnceInductive
<1> QED
  BY <1>1, InductiveInvariant, OnceInvariant, PTL DEF Spec, DeletedWhenOver

-----------------------------------------------------------------------------
(* Jira learns of the end first.                                             *)

\* The ticket that a succeeded version names is completed.
Completed ==
  \A n \in Names : \A i \in 1..Len(log[n]) :
    log[n][i].state = "Succeeded" =>
      /\ log[n][i].ticket \in 1..Len(tickets)
      /\ tickets[log[n][i].ticket].status = "Done"

\* The calls of handleRejected.
Rejecting == {"CommentRejected", "MoveRejected", "DeleteRejected"}

\* Whoever writes that a request succeeded has completed its ticket, and whoever clears a
\* rejected one away works on the ticket of his copy and has moved it before he deletes.
Closing ==
  job # Idle =>
    /\ At("UpdateSucceeded") => tickets[job.issue].status = "Done"
    /\ job.call \in Rejecting => job.issue = Request.ticket
    /\ At("DeleteRejected") => job.issue = Skipped \/ tickets[job.issue].status = "Rejected"

\* No action leads out of "Rejected" or "Done".
LEMMA SettledStays ==
  ASSUME TypeOK, Footprint, NEW k \in 1..Len(tickets),
         tickets[k].status \in {"Rejected", "Done"}
  PROVE  k \in 1..Len(tickets') /\ tickets'[k].status = tickets[k].status
<1>1. tickets \in Seq(TicketRecords)
  BY DEF TypeOK
<1>2. CASE UNCHANGED tickets
  BY <1>2
<1>3. ASSUME NEW o \in Names \X (Nat \ {0}), FileTicket(o)
      PROVE  k \in 1..Len(tickets') /\ tickets'[k] = tickets[k]
  <2>1. [owner |-> o, status |-> "Todo"] \in TicketRecords
    BY DEF TicketRecords, Statuses
  <2> QED
    BY <1>1, <1>3, <2>1 DEF FileTicket
<1>4. ASSUME NEW j \in DOMAIN tickets, NEW a \in DOMAIN From, Move(j, a)
      PROVE  k \in 1..Len(tickets') /\ tickets'[k] = tickets[k]
  <2>1. From[a] \notin {"Rejected", "Done"}
    BY DEF From
  <2>2. j # k
    BY <1>4, <2>1 DEF Move, CanMove
  <2> QED
    BY <1>1, <1>4, <2>2 DEF Move
<1> QED
  BY <1>2, <1>3, <1>4 DEF Footprint, OneWrite, OneTicketFiled, OneTicketMoved

\* Completed is kept: the worker completes a ticket before it writes so, others copy what
\* is written, and the ticket stays.
LEMMA CompletedStep ==
  ASSUME Inductive, Completed, Closing, [Next]_vars
  PROVE  Completed'
<1>1. /\ log \in [Names -> Seq(Versions)] /\ Footprint /\ Effect
      /\ tickets \in Seq(TicketRecords)
  BY StepFootprint, StepEffect DEF Inductive, TypeOK
<1>2. CASE UNCHANGED log
  BY <1>1, <1>2, SettledStays DEF Completed, Inductive
<1>3. ASSUME NEW n \in Names, NEW v \in Versions, Write(n, v), UNCHANGED tickets,
             v.state = "Succeeded" =>
               v.ticket \in 1..Len(tickets) /\ tickets[v.ticket].status = "Done"
      PROVE  Completed'
  <2>1. /\ \A m \in Names : Len(log'[m]) = IF m = n THEN Len(log[m]) + 1 ELSE Len(log[m])
        /\ \A m \in Names : \A i \in 1..Len(log[m]) : log'[m][i] = log[m][i]
        /\ log'[n][Len(log[n]) + 1] = v
    BY <1>1, <1>3, WriteAppends
  <2>2. ASSUME NEW m \in Names, NEW i \in 1..Len(log'[m])
        PROVE  i \in 1..Len(log[m]) \/ (m = n /\ i = Len(log[n]) + 1)
    <3>1. Len(log[m]) \in Nat
      BY <1>1
    <3> QED
      BY <2>1, <2>2, <3>1
  <2>3. ASSUME NEW m \in Names, NEW i \in 1..Len(log'[m]), log'[m][i].state = "Succeeded"
        PROVE  /\ log'[m][i].ticket \in 1..Len(tickets)
               /\ tickets[log'[m][i].ticket].status = "Done"
    <3>1. CASE i \in 1..Len(log[m])
      BY <2>1, <2>3, <3>1 DEF Completed
    <3>2. CASE m = n /\ i = Len(log[n]) + 1
      BY <1>3, <2>1, <2>3, <3>2
    <3> QED
      BY <2>2, <3>1, <3>2
  <2> QED
    BY <1>3, <2>3 DEF Completed
<1>4. ASSUME NEW n \in Names, Live(n)
      PROVE  /\ Latest(n) \in Versions
             /\ Latest(n).state = "Succeeded" =>
                  /\ Latest(n).ticket \in 1..Len(tickets)
                  /\ tickets[Latest(n).ticket].status = "Done"
  <2>1. log[n] \in Seq(Versions) /\ log[n] # <<>>
    BY <1>1, <1>4 DEF Live
  <2>2. Len(log[n]) \in 1..Len(log[n])
    BY <2>1
  <2> QED
    BY <2>1, <2>2 DEF Latest, Completed
<1>5. ASSUME NEW n \in Names, Delete(n), UNCHANGED tickets  PROVE Completed'
  <2> DEFINE v == [Latest(n) EXCEPT !.state = "Deleted"]
  <2>1. Write(n, v) /\ Latest(n) \in Versions
    BY <1>4, <1>5 DEF Delete
  <2>2. v \in Versions /\ v.state = "Deleted"
    BY <2>1 DEF Versions, States
  <2> HIDE DEF v
  <2> QED
    BY <1>3, <1>5, <2>1, <2>2
<1>6. ASSUME NEW n \in Names, NEW s \in Specs, Create(n, s), UNCHANGED tickets
      PROVE  Completed'
  <2> DEFINE v == [uid |-> Len(log[n]) + 1, spec |-> s, state |-> "",
                   ticket |-> 0, startTime |-> 0, endTime |-> 0]
  <2>1. Len(log[n]) \in Nat
    BY <1>1
  <2>2. v \in Versions /\ v.state = ""
    BY <2>1 DEF Versions, States
  <2>3. Write(n, v)
    BY <1>6 DEF Create
  <2> HIDE DEF v
  <2> QED
    BY <1>3, <1>6, <2>2, <2>3
<1>7. ASSUME NEW n \in Names, NEW s \in Specs, EditLatest(n, s), UNCHANGED tickets
      PROVE  Completed'
  <2> DEFINE v == [Latest(n) EXCEPT !.spec = s]
  <2>1. Write(n, v) /\ Live(n) /\ Latest(n) \in Versions
    BY <1>4, <1>7 DEF EditLatest
  <2>2. v \in Versions /\ v.state = Latest(n).state /\ v.ticket = Latest(n).ticket
    BY <2>1 DEF Versions
  <2> HIDE DEF v
  <2> QED
    BY <1>3, <1>4, <1>7, <2>1, <2>2
<1>8. CASE WorkerWrites
  <2> DEFINE v == [Request EXCEPT !.state = StateAfter(job.call), !.ticket = job.issue,
                                  !.startTime = Request.spec.startTime,
                                  !.endTime = Request.spec.endTime]
  <2>1. /\ job # Idle /\ job \in Jobs /\ Request \in Versions /\ Request.spec \in SpecType
        /\ Write(job.name, v) /\ UNCHANGED tickets
    BY <1>8, CopyInHand DEF WorkerWrites, updateStatus, Inductive
  <2>2. v \in Versions /\ v.state = StateAfter(job.call) /\ v.ticket = job.issue
    BY <2>1 DEF Versions, SpecType, Jobs, StateAfter, States
  <2>3. StateAfter(job.call) = "Succeeded" => At("UpdateSucceeded")
    BY DEF StateAfter, At
  <2>4. At("UpdateSucceeded") => job.issue \in 1..Len(tickets)
    BY <1>1, <2>1 DEF Inductive, WorkerKnows, OnTicket, AfterStart, FiledFor, At
  <2> HIDE DEF v
  <2> QED
    BY <1>3, <2>1, <2>2, <2>3, <2>4 DEF Closing, Jobs
<1> QED
  BY <1>1, <1>2, <1>5, <1>6, <1>7, <1>8
     DEF Effect, UserWrites, TicketChanges, BindingAdds, BindingGoes, TimePasses

\* Closing is kept: each call is made only after the one before it was answered.
LEMMA ClosingStep ==
  ASSUME Inductive, Closing, [Next]_vars
  PROVE  Closing'
<1>1. /\ TypeOK /\ Footprint /\ tickets \in Seq(TicketRecords)
  BY StepFootprint DEF Inductive, TypeOK
<1>2. CASE job' = Idle
  BY <1>2 DEF Closing
<1>3. ASSUME job # Idle
      PROVE  /\ job \in Jobs /\ log'[job.name][job.rev] = Request
             /\ job.issue = Skipped \/ job.issue \in 1..Len(tickets)
             /\ job.call \in OnTicket => job.issue \in 1..Len(tickets)
  <2>1. job \in Jobs /\ log'[job.name][job.rev] = Request
    BY <1>1, <1>3, CopyInHand, CopyStays
  <2>2. job.issue \in Nat /\ job.issue <= Len(tickets) /\ Len(tickets) \in Nat
    BY <1>1, <1>3, <2>1 DEF TypeOK, JobTypeOK, Jobs
  <2>3. job.call \in OnTicket => job.issue \in 1..Len(tickets)
    BY <1>1, <1>3 DEF Inductive, WorkerKnows, FiledFor
  <2> QED
    BY <2>1, <2>2, <2>3 DEF Skipped
<1>4. CASE UNCHANGED job /\ job # Idle
  <2>1. Request' = Request
    BY <1>3, <1>4 DEF Request
  <2>2. At("UpdateSucceeded") => tickets'[job.issue].status = "Done"
    BY <1>1, <1>3, <1>4, SettledStays DEF Closing, OnTicket, AfterStart, At
  <2>3. At("DeleteRejected") => job.issue = Skipped \/ tickets'[job.issue].status = "Rejected"
    BY <1>1, <1>3, <1>4, SettledStays DEF Closing
  <2> QED
    BY <1>4, <2>1, <2>2, <2>3 DEF Closing, At
<1>5. ASSUME NEW n \in Names, Reconcile(n), job' # Idle  PROVE Closing'
  <2>1. /\ job'.name = n /\ job'.rev = seen[n] /\ UNCHANGED log
        /\ job'.call \in {"DeleteRejected", "CommentRejected", "FindReporter",
                          "UpdateSkipped", "GetIssue", "DeleteExpired"}
    BY <1>1, <1>5, ReconcileCalls
  <2>2. Request' = Cached(n)
    BY <2>1 DEF Request, Cached
  <2>3. job'.call \in Rejecting =>
          /\ job'.issue = Cached(n).ticket
          /\ job'.call = "DeleteRejected" => job'.issue = Skipped
    <3>1. CASE handleRejected(n)
      BY <3>1 DEF handleRejected, Begin
    <3>2. CASE handleNewRequest(n)
      <4> DEFINE first(v) == IF FieldsGiven(Cached(n).spec, v) THEN "FindReporter"
                             ELSE "UpdateSkipped"
      <4>1. PICK v \in FileVersions : Begin(n, first(v), Skipped)
        BY <3>2 DEF handleNewRequest
      <4>2. job'.call = first(v)
        BY <4>1 DEF Begin
      <4> QED
        BY <4>2 DEF Rejecting
    <3>3. CASE handlePreApproved(n)
      BY <1>5, <3>3 DEF handlePreApproved, Begin, RequeueAt, Rejecting
    <3>4. CASE handleCleanup(n)
      BY <1>5, <3>4 DEF handleCleanup, Begin, RequeueAt, Rejecting
    <3> QED
      BY <1>5, <3>1, <3>2, <3>3, <3>4
         DEF Reconcile, handleFetchError, ReadConfigFromFile, Done, Retry
  <2> QED
    BY <2>1, <2>2, <2>3 DEF Closing, Rejecting, At
<1>6. CASE (Work \/ CallFails \/ AnswerLost) /\ job' # Idle
  <2>1. job # Idle
    BY <1>6, CallDoesOneThing
  <2>2. ASSUME NEW c, Call(c)
        PROVE  job'.call = c /\ job'.issue = job.issue /\ Request' = Request
    <3>1. job'.call = c /\ job'.issue = job.issue /\ job'.name = job.name /\ job'.rev = job.rev
      BY <1>3, <2>1, <2>2 DEF Call, Jobs
    <3> QED
      BY <1>3, <2>1, <3>1 DEF Request
  <2>3. ASSUME job'.call \notin Rejecting \union {"UpdateSucceeded"}  PROVE Closing'
    BY <2>3 DEF Closing, At, Rejecting
  <2>4. CASE Checks \/ CleansUp \/ \E i : BindFrom(i)
    BY <1>3, <2>1, <2>3, <2>4
       DEF Checks, AfterTicket, Reads, CleansUp, BindFrom, Rejecting, Jobs
  <2>5. CASE At("MoveCompleted") /\ MoveIssue("complete") /\ Call("UpdateSucceeded")
    <3>1. job.issue \in 1..Len(tickets)
      BY <1>3, <2>1, <2>5 DEF OnTicket, AfterStart, At
    <3>2. tickets'[job.issue].status = "Done"
      BY <1>1, <2>5, <3>1 DEF MoveIssue, Move, To, TicketRecords
    <3> QED
      BY <2>2, <2>5, <3>2 DEF Closing, At, Rejecting
  <2>6. CASE At("MoveRejected") /\ MoveIssue("rejected") /\ Call("DeleteRejected")
    <3>1. job.issue \in 1..Len(tickets)
      BY <1>3, <2>1, <2>6 DEF OnTicket, At
    <3>2. tickets'[job.issue].status = "Rejected"
      BY <1>1, <2>6, <3>1 DEF MoveIssue, Move, To, TicketRecords
    <3> QED
      BY <2>1, <2>2, <2>6, <3>2 DEF Closing, At, Rejecting
  <2>7. CASE At("GetIssue") /\ Call("UpdateRejected")
    BY <2>2, <2>3, <2>7 DEF Rejecting
  <2>8. ASSUME NEW c, Call(c), <<job.call, c>> \in Turns, ~At("MoveCompleted")
        PROVE  Closing'
    <3>1. c \in Rejecting => At("CommentRejected") /\ c = "MoveRejected"
      BY <2>8 DEF Turns, Rejecting, At
    <3>2. c # "UpdateSucceeded"
      BY <2>8 DEF Turns, At
    <3> QED
      BY <2>1, <2>2, <2>3, <2>8, <3>1, <3>2 DEF Closing, At, Rejecting
  <2> QED
    BY <1>1, <1>6, <2>1, <2>4, <2>5, <2>6, <2>7, <2>8, WorkerTurns DEF At
<1> QED
  BY <1>2, <1>4, <1>5, <1>6, JobMoves DEF Reconciles


ClosedInductive == Completed /\ Closing

\* Both hold, whatever happens to names.
LEMMA ClosedInvariant == Spec => []ClosedInductive
<1>1. Init => ClosedInductive
  BY DEF Init, ApiInit, ClosedInductive, Completed, Closing
<1>2. Inductive /\ ClosedInductive /\ [Next]_vars => ClosedInductive'
  BY CompletedStep, ClosingStep DEF ClosedInductive
<1> QED
  BY <1>1, <1>2, InductiveInvariant, PTL DEF Spec

\* As long as names are used once, the operator deletes a request only after its ticket is
\* closed the same way, in whichever reconcile that was (rejectJiraTicket,
\* completeJiraTicket).
THEOREM JiraIsToldFirst ==
  ASSUME NamesOnce  PROVE Spec => TicketsCloseFirst
<1>1. ASSUME Inductive, OnceInductive, ClosedInductive, [Next]_vars,
             NEW n \in Names, job' # job, log'[n] # log[n], Latest(n)'.state = "Deleted"
      PROVE  \/ /\ Latest(n).state = "Rejected"
                /\ \/ Latest(n).ticket = Skipped
                   \/ tickets[Latest(n).ticket].status = "Rejected"
             \/ Latest(n).state = "Succeeded" /\ tickets[Latest(n).ticket].status = "Done"
  <2>1. /\ job # Idle /\ (At("DeleteRejected") \/ At("DeleteExpired"))
        /\ job.name = n /\ Follows(Request, Latest(n))
        /\ Latest(n).state = IF At("DeleteRejected") THEN "Rejected" ELSE "Succeeded"
    BY <1>1, DeletedInHand DEF Inductive, OnceInductive
  <2>2. CASE At("DeleteRejected")
    <3>1. Request.state = "Rejected"
      BY <1>1, <2>1, <2>2 DEF Inductive, WorkerKnows, StatesBefore, Reads, At
    <3>2. job.issue = Latest(n).ticket
      BY <1>1, <2>1, <2>2, <3>1 DEF ClosedInductive, Closing, Rejecting, Follows, Final, At
    <3> QED
      BY <1>1, <2>1, <2>2, <3>2 DEF ClosedInductive, Closing
  <2>3. CASE ~At("DeleteRejected")
    <3>1. log[n] \in Seq(Versions) /\ job.rev \in 1..Len(log[n])
      BY <1>1, <2>1, CopyInHand DEF Inductive, TypeOK
    <3>2. Len(log[n]) \in 1..Len(log[n])
      BY <3>1
    <3> QED
      BY <1>1, <2>1, <2>3, <3>2 DEF ClosedInductive, Completed, Latest
  <2> QED
    BY <2>2, <2>3
<1>2. Inductive /\ OnceInductive /\ ClosedInductive /\ [Next]_vars =>
        [\A n \in Names :
           /\ job' # job /\ log'[n] # log[n]
           /\ Latest(n)'.state = "Deleted"
           =>
             \/ /\ Latest(n).state = "Rejected"
                /\ \/ Latest(n).ticket = Skipped
                   \/ tickets[Latest(n).ticket].status = "Rejected"
             \/ Latest(n).state = "Succeeded" /\ tickets[Latest(n).ticket].status = "Done"]_vars
  BY <1>1
<1> QED
  BY <1>2, InductiveInvariant, OnceInvariant, ClosedInvariant, PTL DEF Spec, TicketsCloseFirst

-----------------------------------------------------------------------------
(* A ticket that says so is right.                                           *)

\* Nor does the property hold when a spec may name other namespaces than were granted.
SpecsFixed == NamesOnce /\ "edit" \notin Disturbances

\* Whoever creates RoleBindings has created those before, and all before he says so.
Granting ==
  job # Idle /\ Live(job.name) =>
    /\ At("CreateRoleBinding") =>
         \A j \in 1..job.next - 1 : Holds(job.name, Request.spec.namespaces[j])
    /\ job.call \in {"CommentCompleted", "MoveCompleted"} =>
         \A j \in 1..Len(Request.spec.namespaces) :
           Holds(job.name, Request.spec.namespaces[j])

\* No ticket is older than its request.
TicketsLater == \A k \in 1..Len(tickets) : log[tickets[k].owner[1]] # <<>>

DoneInductive == Granting /\ TicketsLater /\ DoneMeansGranted

\* A request that is there was there before, and is what it was.
LEMMA WasThere ==
  ASSUME Inductive, SpecsFixed, OneRequest, OneRequest', [Next]_vars,
         NEW n \in Names, log[n] # <<>>, Live(n)'
  PROVE  /\ Live(n) /\ Latest(n)'.uid = Latest(n).uid
         /\ Latest(n)'.spec = Latest(n).spec /\ Latest(n) \in Versions
<1>1. /\ Grows
      /\ log \in [Names -> Seq(Versions)] /\ log' \in [Names -> Seq(Versions)]
  BY StepFootprint, FootprintGrows DEF Inductive, TypeOK
<1>2. /\ Len(log[n]) \in 1..Len(log[n])
      /\ Len(log[n]) \in Nat /\ Len(log'[n]) \in Nat
  BY <1>1
<1>3. log'[n][Len(log[n])] = Latest(n) /\ Len(log[n]) \in 1..Len(log'[n])
  <2>1. log'[n][Len(log[n])] = log[n][Len(log[n])] /\ Len(log[n]) <= Len(log'[n])
    BY <1>1, <1>2 DEF Grows
  <2> QED
    BY <1>2, <2>1 DEF Latest
<1>4. Follows(Latest(n), Latest(n)')
  BY <1>3 DEF OneRequest, Follows
<1>5. Live(n)
  <2>1. CASE UNCHANGED log
    BY <2>1 DEF Live, Latest
  <2>2. ASSUME NEW m \in Names, NEW v \in Versions, Write(m, v), log[m] = <<>> \/ Live(m)
        PROVE  Live(n)
    <3>1. m # n => log'[n] = log[n]
      BY <2>2, WriteLatest DEF Inductive
    <3> QED
      BY <2>2, <3>1 DEF Live, Latest
  <2> QED
    BY <2>1, <2>2, LogMoves DEF Inductive, SpecsFixed
<1> QED
  BY <1>1, <1>2, <1>4, <1>5 DEF Follows, SpecsFixed, Latest

\* As long as it is there nobody takes its RoleBindings away.
LEMMA HoldsStays ==
  ASSUME Inductive, OneRequest, [Next]_vars, NEW n \in Names, Live(n), NEW ns, Holds(n, ns)
  PROVE  Holds(n, ns)'
<1>1. PICK b \in bindings : b.name = n /\ b.namespace = ns
  BY DEF Holds
<1>2. PICK i \in 1..Len(log[n]) : log[n][i].uid = b.uid
  <2>1. log[n] \in Seq(Versions)
    BY DEF Inductive, TypeOK
  <2> QED
    BY <1>1, <2>1 DEF Inductive, GrantNotBeforeStart
<1>3. Alive(b.name, b.uid)
  BY <1>1, <1>2 DEF OneRequest, Follows, Alive
<1>4. Effect
  BY StepEffect DEF Inductive
<1>5. b \in bindings'
  BY <1>1, <1>3, <1>4
     DEF Effect, UserWrites, WorkerWrites, TicketChanges, BindingAdds, BindingGoes,
         TimePasses, CreateBinding, Bind, Collect
<1> QED
  BY <1>1, <1>5 DEF Holds

\* Granting is kept: namespace after namespace, and nothing goes meanwhile.
LEMMA GrantingStep ==
  ASSUME Inductive, SpecsFixed, OneRequest, OneRequest', Granting, [Next]_vars
  PROVE  Granting'
<1>1. CASE job' = Idle
  BY <1>1 DEF Granting
<1>2. ASSUME NEW n \in Names, Reconcile(n), job' # Idle  PROVE Granting'
  BY <1>2, ReconcileCalls DEF Granting, At, Inductive
<1>3. ASSUME job # Idle
      PROVE  /\ job \in Jobs /\ log[job.name] # <<>> /\ log'[job.name][job.rev] = Request
             /\ Request.spec.namespaces \in Seq(Namespaces)
  <2>1. job \in Jobs /\ job.rev \in 1..Len(log[job.name]) /\ Request.spec \in SpecType
    BY <1>3, CopyInHand DEF Inductive
  <2>2. log'[job.name][job.rev] = Request
    BY <1>3, StepFootprint, CopyStays DEF Inductive
  <2>3. log[job.name] \in Seq(Versions)
    BY <2>1 DEF Inductive, TypeOK, Jobs
  <2> QED
    BY <2>1, <2>2, <2>3 DEF SpecType
<1>4. ASSUME NEW n \in Names, log[n] # <<>>, Live(n)', NEW ns, Holds(n, ns)
      PROVE  Holds(n, ns)'
  BY <1>4, WasThere, HoldsStays
<1>5. CASE UNCHANGED job
  <2>1. SUFFICES ASSUME job # Idle  PROVE Granting'
    BY <1>5 DEF Granting
  <2>2. PICK n \in Names, names \in Seq(Namespaces) :
          n = job.name /\ names = Request.spec.namespaces
    BY <1>3, <2>1 DEF Jobs
  <2>3. Request' = Request /\ log[n] # <<>>
    BY <1>3, <1>5, <2>1, <2>2 DEF Request
  <2>4. Live(n)' => Live(n)
    BY <2>3, WasThere
  <2>5. SUFFICES ASSUME Live(n)'  PROVE Granting'
    BY <1>5, <2>2 DEF Granting
  <2>6. /\ At("CreateRoleBinding") => \A j \in 1..job.next - 1 : Holds(n, names[j])'
        /\ job.call \in {"CommentCompleted", "MoveCompleted"} =>
             \A j \in 1..Len(names) : Holds(n, names[j])'
    BY <1>4, <2>1, <2>2, <2>3, <2>4, <2>5 DEF Granting
  <2> QED
    BY <1>5, <2>2, <2>3, <2>6 DEF Granting, At, Holds
<1>6. CASE (Work \/ CallFails \/ AnswerLost) /\ job' # Idle
  <2>1. job # Idle
    BY <1>6, CallDoesOneThing
  <2>2. PICK n \in Names, names \in Seq(Namespaces) :
          n = job.name /\ names = Request.spec.namespaces
    BY <1>3, <2>1 DEF Jobs
  <2>3. Live(n)' => Live(n)
    BY <1>3, <2>1, <2>2, WasThere
  <2>4. ASSUME NEW c, Call(c), c \notin {"CreateRoleBinding", "CommentCompleted"},
               c = "MoveCompleted" => At("CommentCompleted")
        PROVE  Granting'
    <3>1. job'.call = c /\ job'.name = n /\ job'.rev = job.rev
      BY <1>3, <2>1, <2>2, <2>4 DEF Call, Jobs
    <3>2. Request' = Request
      BY <1>3, <2>1, <2>2, <3>1 DEF Request
    <3>3. Live(n)' /\ c = "MoveCompleted" => \A j \in 1..Len(names) : Holds(n, names[j])'
      BY <1>3, <1>4, <2>1, <2>2, <2>3, <2>4 DEF Granting, At
    <3> QED
      BY <2>2, <2>4, <3>1, <3>2, <3>3 DEF Granting, At, Holds
  <2>5. ASSUME NEW i \in Nat \ {0}, BindFrom(i),
               Live(n)' => \A j \in 1..i - 1 : j <= Len(names) => Holds(n, names[j])'
        PROVE  Granting'
    <3>1. /\ job'.name = n /\ job'.rev = job.rev /\ job'.next = i
          /\ job'.call = IF i <= Len(names) THEN "CreateRoleBinding" ELSE "CommentCompleted"
      BY <1>3, <2>1, <2>2, <2>5 DEF BindFrom, Jobs
    <3>2. Request' = Request /\ Len(names) \in Nat
      <4>1. Request' = log'[n][job.rev]
        BY <3>1 DEF Request
      <4> QED
        BY <1>3, <2>1, <2>2, <4>1
    <3>3. CASE i <= Len(names)
      BY <2>2, <2>5, <3>1, <3>2, <3>3 DEF Granting, At, Holds
    <3>4. CASE ~(i <= Len(names))
      BY <2>2, <2>5, <3>1, <3>2, <3>4 DEF Granting, At, Holds
    <3> QED
      BY <3>3, <3>4
  <2>6. CASE BindFrom(1)
    BY <2>5, <2>6
  <2>7. CASE At("CreateRoleBinding") /\ CreateBinding /\ BindFrom(job.next + 1)
    <3>1. job.next \in Nat \ {0}
      BY <1>3, <2>1 DEF Jobs
    <3>2. PICK i \in Nat \ {0} : i = job.next
      BY <3>1
    <3>3. Holds(n, names[i])'
      <4>1. PICK u, r : Bind(n, names[i], u, r)
        BY <2>2, <2>7, <3>2 DEF CreateBinding
      <4> DEFINE new == [name |-> n, namespace |-> names[i], uid |-> u, role |-> r]
      <4>2. new.name = n /\ new.namespace = names[i]
        OBVIOUS
      <4>3. (\E b \in bindings : b.name = n /\ b.namespace = names[i] /\ b \in bindings')
            \/ new \in bindings'
        BY <4>1 DEF Bind
      <4> HIDE DEF new
      <4> QED
        BY <4>2, <4>3 DEF Holds
    <3>4. ASSUME Live(n)', NEW j \in 1..i - 1  PROVE Holds(n, names[j])'
      BY <1>3, <1>4, <2>1, <2>2, <2>3, <2>7, <3>2, <3>4 DEF Granting
    <3>5. \A j \in 1..(i + 1) - 1 : j = i \/ j \in 1..i - 1
      BY <3>2
    <3> QED
      BY <2>5, <2>7, <3>2, <3>3, <3>4, <3>5
  <2>8. CASE Checks
    BY <2>8 DEF Checks, AfterTicket, Reads, Granting, At
  <2>9. CASE CleansUp
    BY <1>3, <2>1, <2>9 DEF CleansUp, Granting, At, Jobs
  <2>10. ASSUME NEW c, Call(c), <<job.call, c>> \in Turns  PROVE Granting'
    BY <2>4, <2>10 DEF Turns, At
  <2>11. CASE Call("UpdateSucceeded") \/ Call("UpdateRejected") \/ Call("DeleteRejected")
    BY <2>4, <2>11
  <2> QED
    BY <1>6, <2>1, <2>6, <2>7, <2>8, <2>9, <2>10, <2>11, WorkerTurns DEF Inductive
<1> QED
  BY <1>1, <1>2, <1>5, <1>6, JobMoves DEF Reconciles

\* TicketsLater is kept: a ticket is filed for a version that is there.
LEMMA TicketsLaterStep ==
  ASSUME Inductive, TicketsLater, [Next]_vars
  PROVE  TicketsLater'
<1>1. /\ Grows
      /\ log \in [Names -> Seq(Versions)] /\ log' \in [Names -> Seq(Versions)]
      /\ tickets \in Seq(TicketRecords) /\ tickets' \in Seq(TicketRecords)
  BY StepFootprint, FootprintGrows DEF Inductive, TypeOK
<1>2. ASSUME NEW n \in Names, log[n] # <<>>  PROVE log'[n] # <<>>
  <2>1. Len(log[n]) > 0 /\ Len(log[n]) <= Len(log'[n]) /\ Len(log'[n]) \in Nat
    BY <1>1, <1>2 DEF Grows
  <2> QED
    BY <2>1
<1>3. ASSUME NEW k \in 1..Len(tickets)  PROVE log'[tickets'[k].owner[1]] # <<>>
  <2>1. tickets[k] \in TicketRecords /\ tickets'[k].owner = tickets[k].owner
    BY <1>1 DEF Grows
  <2>2. tickets[k].owner[1] \in Names
    BY <2>1 DEF TicketRecords
  <2> QED
    BY <1>2, <2>1, <2>2 DEF TicketsLater
<1>4. CASE UNCHANGED tickets
  BY <1>3, <1>4 DEF TicketsLater
<1>5. CASE job # Idle /\ FileTicket(Owner)
  <2>1. /\ Len(tickets') = Len(tickets) + 1
        /\ tickets'[Len(tickets) + 1].owner = Owner
    BY <1>1, <1>5 DEF FileTicket
  <2>2. job \in Jobs /\ job.rev \in 1..Len(log[job.name])
    BY <1>5, CopyInHand DEF Inductive
  <2>3. log[job.name] # <<>> /\ job.name \in Names
    BY <1>1, <2>2 DEF Jobs
  <2>4. log'[Owner[1]] # <<>>
    BY <1>2, <2>3 DEF Owner
  <2>5. Len(tickets) \in Nat
    BY <1>1
  <2> QED
    BY <1>3, <2>1, <2>4, <2>5 DEF TicketsLater
<1>6. CASE \E k \in DOMAIN tickets, a \in {"approval", "rejected"} : Move(k, a)
  <2>1. Len(tickets') = Len(tickets)
    BY <1>1, <1>6 DEF Move
  <2> QED
    BY <1>3, <2>1 DEF TicketsLater
<1>7. CASE Move(job.issue, "complete")
  <2>1. Len(tickets') = Len(tickets)
    BY <1>1, <1>7 DEF Move
  <2> QED
    BY <1>3, <2>1 DEF TicketsLater
<1> QED
  BY <1>4, <1>5, <1>6, <1>7, TicketMoves DEF Inductive

\* A ticket that becomes "Done" is of the request in hand, which holds everything.
LEMMA BecomesDone ==
  ASSUME Inductive, SpecsFixed, OneRequest, Granting,
         NEW n \in Names, Live(n), NEW k \in 1..Len(tickets),
         tickets[k].owner = <<n, Latest(n).uid>>,
         job # Idle, At("MoveCompleted"), k = job.issue
  PROVE  HoldsAll(n)
<1>1. /\ job \in Jobs /\ job.rev \in 1..Len(log[job.name])
      /\ log \in [Names -> Seq(Versions)]
  BY CopyInHand DEF Inductive, TypeOK
<1>2. tickets[k].owner = Owner
  BY DEF Inductive, WorkerKnows, At, OnTicket, AfterStart, FiledFor
<1>3. job.name = n
  BY <1>2 DEF Owner
<1>4. Request = log[n][job.rev] /\ job.rev \in 1..Len(log[n])
  BY <1>1, <1>3 DEF Request
<1>5. Latest(n).spec = Request.spec
  BY <1>4 DEF OneRequest, Follows, SpecsFixed
<1>6. \A j \in 1..Len(Request.spec.namespaces) : Holds(n, Request.spec.namespaces[j])
  BY <1>3 DEF Granting, At
<1>7. Request.spec.namespaces \in Seq(Namespaces)
  BY CopyInHand DEF Inductive, SpecType
<1> QED
  BY <1>5, <1>6, <1>7 DEF HoldsAll

\* DoneMeansGranted is kept.
LEMMA DoneStep ==
  ASSUME Inductive, SpecsFixed, OneRequest, OneRequest', Granting, TicketsLater,
         DoneMeansGranted, [Next]_vars
  PROVE  DoneMeansGranted'
<1>1. /\ Grows /\ tickets \in Seq(TicketRecords) /\ tickets' \in Seq(TicketRecords)
      /\ log \in [Names -> Seq(Versions)]
  BY StepFootprint, FootprintGrows DEF Inductive, TypeOK
<1>2. SUFFICES ASSUME NEW n \in Names, NEW k \in 1..Len(tickets'), Live(n)',
                      tickets'[k].owner = <<n, Latest(n)'.uid>>, tickets'[k].status = "Done"
               PROVE  HoldsAll(n)'
  BY <1>1 DEF DoneMeansGranted
<1>3. ASSUME k \in 1..Len(tickets), HoldsAll(n)  PROVE HoldsAll(n)'
  <2>1. Live(n) /\ Latest(n)'.spec = Latest(n).spec /\ Latest(n) \in Versions
    <3>1. log[n] # <<>>
      BY <1>3 DEF HoldsAll, Live
    <3> QED
      BY <1>2, <3>1, WasThere
  <2>2. \A ns : Holds(n, ns) => Holds(n, ns)'
    BY <2>1, HoldsStays
  <2> QED
    BY <1>2, <1>3, <2>1, <2>2 DEF HoldsAll, Holds
<1>4. ASSUME k \in 1..Len(tickets)
      PROVE  Live(n) /\ tickets[k].owner = <<n, Latest(n).uid>>
  <2>1. tickets[k].owner = <<n, Latest(n)'.uid>>
    BY <1>1, <1>2, <1>4 DEF Grows
  <2>2. log[n] # <<>>
    BY <1>4, <2>1 DEF TicketsLater
  <2> QED
    BY <1>2, <2>1, <2>2, WasThere
<1>5. ASSUME k \in 1..Len(tickets), tickets[k].status = "Done"  PROVE HoldsAll(n)'
  BY <1>1, <1>3, <1>4, <1>5 DEF DoneMeansGranted
<1>6. CASE UNCHANGED tickets
  BY <1>2, <1>5, <1>6
<1>7. CASE FileTicket(Owner)
  <2>1. /\ Len(tickets') = Len(tickets) + 1 /\ tickets'[Len(tickets) + 1].status = "Todo"
        /\ \A j \in 1..Len(tickets) : tickets'[j] = tickets[j]
    BY <1>1, <1>7 DEF FileTicket
  <2>2. k = Len(tickets) + 1 \/ k \in 1..Len(tickets)
    BY <1>1, <1>2, <2>1
  <2> QED
    BY <1>2, <1>5, <2>1, <2>2
<1>8. ASSUME NEW j \in DOMAIN tickets, NEW a \in {"approval", "rejected"}, Move(j, a)
      PROVE  HoldsAll(n)'
  <2>1. /\ Len(tickets') = Len(tickets) /\ tickets'[j] = [tickets[j] EXCEPT !.status = To[a]]
        /\ \A i \in 1..Len(tickets) : i # j => tickets'[i] = tickets[i]
    BY <1>1, <1>8 DEF Move
  <2>2. To[a] # "Done" /\ tickets[j] \in TicketRecords
    BY <1>1, <1>8 DEF To
  <2>3. tickets'[j].status = To[a]
    BY <2>1, <2>2 DEF TicketRecords
  <2> QED
    BY <1>2, <1>5, <2>1, <2>2, <2>3
<1>9. CASE job # Idle /\ At("MoveCompleted") /\ Move(job.issue, "complete")
  <2>1. /\ Len(tickets') = Len(tickets)
        /\ \A i \in 1..Len(tickets) : i # job.issue => tickets'[i] = tickets[i]
    BY <1>1, <1>9 DEF Move
  <2>2. CASE k = job.issue
    BY <1>2, <1>3, <1>4, <1>9, <2>1, <2>2, BecomesDone
  <2> QED
    BY <1>2, <1>5, <2>1, <2>2
<1> QED
  BY <1>6, <1>7, <1>8, <1>9, TicketMoves DEF Inductive

\* The three hold together.
LEMMA DoneInvariant ==
  ASSUME SpecsFixed  PROVE Spec => []DoneInductive
<1>1. Init => DoneInductive
  BY DEF Init, ApiInit, JiraInit, DoneInductive, Granting, TicketsLater, DoneMeansGranted, Live
<1>2. Inductive /\ OnceInductive /\ OnceInductive' /\ DoneInductive /\ [Next]_vars
        => DoneInductive'
  BY GrantingStep, TicketsLaterStep, DoneStep DEF OnceInductive, DoneInductive
<1>3. NamesOnce
  BY DEF SpecsFixed
<1> QED
  BY <1>1, <1>2, <1>3, InductiveInvariant, OnceInvariant, PTL DEF Spec

\* As long as names are used once and nobody edits a spec, a ticket that reads "Done"
\* tells the truth: every namespace of the request that is there has its RoleBinding
\* (createRoleBinding comes before completeJiraTicket).
THEOREM DoneTicketsAreTrue ==
  ASSUME SpecsFixed  PROVE Spec => []DoneMeansGranted
<1>1. DoneInductive => DoneMeansGranted
  BY DEF DoneInductive
<1> QED
  BY <1>1, DoneInvariant, PTL
=============================================================================
