--------------------------- MODULE JitRequestProofs --------------------------
(***************************************************************************)
(* What holds of the JitRequest controller for every set of names,         *)
(* namespaces, roles and specs, whichever calls fail, whatever disturbs it *)
(* and whatever the bounds are.                                            *)
(***************************************************************************)
EXTENDS JitRequestProperties, TLAPS

\* A write adds one version to one log and leaves what was there.
LEMMA WriteAppends ==
  ASSUME log \in [Names -> Seq(Versions)],
         NEW n \in Names, NEW v \in Versions, Write(n, v)
  PROVE  /\ log' \in [Names -> Seq(Versions)]
         /\ \A m \in Names : Len(log'[m]) = IF m = n THEN Len(log[m]) + 1 ELSE Len(log[m])
         /\ \A m \in Names : \A i \in 1..Len(log[m]) : log'[m][i] = log[m][i]
         /\ log'[n][Len(log[n]) + 1] = v
<1>1. log' = [log EXCEPT ![n] = Append(@, v)]
  BY DEF Write
<1>2. log[n] \in Seq(Versions)
  OBVIOUS
<1>3. Append(log[n], v) \in Seq(Versions)
  BY <1>2
<1>4. log' \in [Names -> Seq(Versions)]
  BY <1>1, <1>3
<1>5. \A m \in Names : Len(log'[m]) = IF m = n THEN Len(log[m]) + 1 ELSE Len(log[m])
  BY <1>1, <1>2
<1>6. \A m \in Names : \A i \in 1..Len(log[m]) : log'[m][i] = log[m][i]
  BY <1>1, <1>2
<1>7. log'[n][Len(log[n]) + 1] = v
  BY <1>1, <1>2
<1> QED
  BY <1>4, <1>5, <1>6, <1>7

-----------------------------------------------------------------------------
(* The inductive invariant: what the runs check of the state, taken together. *)

Inductive == TypeOK /\ TicketIsOwn /\ WorkerKnows /\ GrantNeedsApproval /\ GrantNotBeforeStart

\* What a step may do to the requests and the tickets.
OneWrite ==
  /\ UNCHANGED tickets
  /\ \E n \in Names, v \in Versions :
       /\ Write(n, v)
       /\ v.ticket # 0 \/ v.state = "Pre-Approved" => FiledFor(v.ticket, <<n, v.uid>>)

OneTicketFiled == UNCHANGED log /\ \E o \in Names \X (Nat \ {0}) : FileTicket(o)

OneTicketMoved == UNCHANGED log /\ \E k \in DOMAIN tickets, a \in DOMAIN From : Move(k, a)

Footprint ==
  UNCHANGED <<log, tickets>> \/ OneWrite \/ OneTicketFiled \/ OneTicketMoved

\* Nothing that was is lost: versions and the tickets' owners stay, an approval stays.
Grows ==
  /\ \A n \in Names : Len(log[n]) <= Len(log'[n])
  /\ \A n \in Names : \A i \in 1..Len(log[n]) : log'[n][i] = log[n][i]
  /\ Len(tickets) <= Len(tickets')
  /\ \A k \in 1..Len(tickets) : tickets'[k].owner = tickets[k].owner
  /\ \A k \in 1..Len(tickets) :
       EverApproved(k) => tickets'[k].status \in {"Approved", "Done"}

\* Whatever the footprint, no version, ticket, vote or grant is ever lost.
LEMMA FootprintGrows ==
  ASSUME TypeOK, Footprint
  PROVE  Grows /\ log' \in [Names -> Seq(Versions)] /\ tickets' \in Seq(TicketRecords)
<1>1. log \in [Names -> Seq(Versions)] /\ tickets \in Seq(TicketRecords)
  BY DEF TypeOK
<1>2. CASE UNCHANGED <<log, tickets>>
  BY <1>1, <1>2 DEF Grows, EverApproved
<1>3. CASE OneWrite
  <2>1. PICK n \in Names, v \in Versions : Write(n, v) /\ UNCHANGED tickets
    BY <1>3 DEF OneWrite
  <2>2. Len(tickets) \in Nat /\ \A m \in Names : Len(log[m]) \in Nat
    BY <1>1
  <2>3. /\ \A m \in Names : Len(log'[m]) = IF m = n THEN Len(log[m]) + 1 ELSE Len(log[m])
        /\ \A m \in Names : \A i \in 1..Len(log[m]) : log'[m][i] = log[m][i]
        /\ log' \in [Names -> Seq(Versions)]
    BY <1>1, <2>1, WriteAppends
  <2>4. \A m \in Names : Len(log[m]) <= Len(log'[m])
    BY <2>2, <2>3
  <2> QED
    BY <1>1, <2>1, <2>2, <2>3, <2>4 DEF Grows, EverApproved
<1>4. CASE OneTicketFiled
  <2>1. PICK o \in Names \X (Nat \ {0}) :
          tickets' = Append(tickets, [owner |-> o, status |-> "Todo"]) /\ UNCHANGED log
    BY <1>4 DEF OneTicketFiled, FileTicket
  <2>2. [owner |-> o, status |-> "Todo"] \in TicketRecords
    BY DEF TicketRecords, Statuses
  <2> QED
    BY <1>1, <2>1, <2>2 DEF Grows, EverApproved
<1>5. CASE OneTicketMoved
  <2>1. PICK k \in DOMAIN tickets, a \in DOMAIN From : Move(k, a) /\ UNCHANGED log
    BY <1>5 DEF OneTicketMoved
  <2>2. To[a] \in Statuses /\ (From[a] = "Approved" => To[a] = "Done") /\ From[a] # "Done"
    BY DEF To, From, Statuses
  <2>3. /\ tickets[k].status = From[a]
        /\ tickets' = [tickets EXCEPT ![k] = [tickets[k] EXCEPT !.status = To[a]]]
    BY <1>1, <2>1 DEF Move, CanMove
  <2>4. k \in 1..Len(tickets) /\ tickets[k] \in TicketRecords
    BY <1>1, <2>1
  <2>5. [tickets[k] EXCEPT !.status = To[a]] \in TicketRecords
    BY <2>2, <2>4 DEF TicketRecords
  <2> QED
    BY <1>1, <2>1, <2>2, <2>3, <2>4, <2>5 DEF Grows, EverApproved, TicketRecords
<1> QED
  BY <1>2, <1>3, <1>4, <1>5 DEF Footprint

-----------------------------------------------------------------------------
(* What a step does to requests, tickets, RoleBindings and the clock, whoever takes it. *)

\* The status that call c writes.
StateAfter(c) ==
  CASE c = "UpdatePreApproved" -> "Pre-Approved"
    [] c = "UpdateSucceeded"   -> "Succeeded"
    [] OTHER                   -> "Rejected"

Updates == {"UpdatePreApproved", "UpdateRejected", "UpdateSkipped", "UpdateSucceeded"}

EditLatest(n, s) == Live(n) /\ Write(n, [Latest(n) EXCEPT !.spec = s])

UserWrites ==
  /\ UNCHANGED <<tickets, bindings, now>>
  /\ \E n \in Names : Delete(n) \/ \E s \in Specs : Create(n, s) \/ EditLatest(n, s)

WorkerWrites ==
  /\ UNCHANGED <<tickets, bindings, now>>
  /\ job # Idle /\ job.call \in Updates /\ updateStatus(StateAfter(job.call))

TicketChanges ==
  /\ UNCHANGED <<log, bindings, now>>
  /\ \/ \E o \in Names \X (Nat \ {0}) : FileTicket(o)
     \/ \E k \in DOMAIN tickets, a \in DOMAIN From : Move(k, a)

BindingAdds ==
  /\ UNCHANGED <<log, tickets, now>>
  /\ job # Idle /\ At("CreateRoleBinding") /\ CreateBinding

BindingGoes == UNCHANGED <<log, tickets, now>> /\ \E b \in bindings : Collect(b)

TimePasses == UNCHANGED <<log, tickets, bindings>> /\ now' = now + 1

Effect ==
  \/ UNCHANGED <<log, tickets, bindings, now>>
  \/ UserWrites \/ WorkerWrites \/ TicketChanges \/ BindingAdds \/ BindingGoes \/ TimePasses

\* The copy that a reconcile under way holds.
LEMMA CopyInHand ==
  ASSUME TypeOK, job # Idle
  PROVE  /\ job \in Jobs /\ job.rev \in 1..Len(log[job.name])
         /\ Request \in Versions /\ Owner \in Names \X (Nat \ {0})
         /\ Request.spec \in SpecType
<1>1. job \in Jobs /\ job.rev <= Len(log[job.name])
  BY DEF TypeOK, JobTypeOK
<1>2. log[job.name] \in Seq(Versions) /\ job.rev \in 1..Len(log[job.name])
  BY <1>1 DEF TypeOK, Jobs
<1>3. Request \in Versions
  BY <1>2 DEF Request
<1> QED
  BY <1>1, <1>2, <1>3, ApiAssumption DEF Owner, Jobs, Versions

\* What the server does for a call: its one client operation, or nothing.
CallDoes ==
  \/ NoEffect
  \/ At("CreateIssue") /\ FileIssue
  \/ At("MoveCompleted") /\ MoveIssue("complete")
  \/ At("MoveRejected") /\ MoveIssue("rejected")
  \/ At("CreateRoleBinding") /\ CreateBinding
  \/ (At("DeleteRejected") \/ At("DeleteExpired")) /\ deleteJitRequest
  \/ job.call \in Updates /\ updateStatus(StateAfter(job.call))

\* Answered, refused or lost, a call does its one operation or nothing.
LEMMA CallDoesOneThing ==
  ASSUME Work \/ CallFails \/ AnswerLost
  PROVE  job # Idle /\ UNCHANGED now /\ CallDoes
<1>1. job # Idle /\ UNCHANGED now
  BY DEF Work, CallFails, AnswerLost, FaultyCall
<1>2. SUFFICES CallDoes
  BY <1>1
<1>3. CASE \/ FindReporter \/ ListNamespaces \/ MatchNamespace \/ QuotePattern
           \/ CommentPreApproved \/ GetIssue \/ CommentCompleted \/ CommentRejected
  BY <1>3
     DEF CallDoes, FindReporter, ListNamespaces, MatchNamespace, QuotePattern,
         CommentPreApproved, GetIssue, CommentCompleted, CommentRejected
<1>4. CASE CreateIssue \/ CreateRoleBinding
  BY <1>4 DEF CallDoes, CreateIssue, CreateRoleBinding, Refused, At
<1>5. CASE UpdatePreApproved \/ UpdateRejected
  BY <1>5
     DEF CallDoes, UpdatePreApproved, UpdateRejected, Refused, At, Updates, StateAfter
<1>6. CASE UpdateSkipped \/ UpdateSucceeded
  BY <1>6
     DEF CallDoes, UpdateSkipped, UpdateSucceeded, Refused, At, Updates, StateAfter
<1>7. CASE MoveCompleted \/ MoveRejected \/ DeleteRequest
  BY <1>7 DEF CallDoes, MoveCompleted, MoveRejected, DeleteRequest, Refused
<1>8. CASE CallFails
  BY <1>8 DEF CallDoes, CallFails, Refused
<1>9. CASE AnswerLost
  BY <1>9 DEF CallDoes, AnswerLost, At, Updates, StateAfter
<1> QED
  BY <1>3, <1>4, <1>5, <1>6, <1>7, <1>8, <1>9 DEF Work

\* Which is one of the effects.
LEMMA CallEffect ==
  ASSUME TypeOK, WorkerKnows, Work \/ CallFails \/ AnswerLost
  PROVE  Effect
<1>1. job # Idle /\ UNCHANGED now /\ CallDoes
  BY CallDoesOneThing
<1>2. job \in Jobs /\ Owner \in Names \X (Nat \ {0})
  BY <1>1, CopyInHand
<1>3. CASE NoEffect
  BY <1>1, <1>3 DEF NoEffect, Effect
<1>4. CASE FileIssue
  BY <1>1, <1>2, <1>4 DEF FileIssue, Effect, TicketChanges
<1>5. ASSUME NEW a \in DOMAIN From, MoveIssue(a), job.call \in OnTicket  PROVE Effect
  <2>1. job.issue \in DOMAIN tickets
    BY <1>1, <1>5 DEF WorkerKnows, FiledFor
  <2> QED
    BY <1>1, <1>5, <2>1 DEF MoveIssue, Effect, TicketChanges
<1>6. CASE At("CreateRoleBinding") /\ CreateBinding
  BY <1>1, <1>6 DEF CreateBinding, Effect, BindingAdds
<1>7. CASE deleteJitRequest
  BY <1>1, <1>2, <1>7 DEF deleteJitRequest, Effect, UserWrites, Jobs
<1>8. CASE job.call \in Updates /\ updateStatus(StateAfter(job.call))
  BY <1>1, <1>8 DEF updateStatus, Effect, WorkerWrites
<1> QED
  BY <1>1, <1>3, <1>4, <1>5, <1>6, <1>7, <1>8 DEF CallDoes, At, OnTicket, AfterStart, From

\* Every step has one of these effects, or none.
LEMMA StepEffect ==
  ASSUME TypeOK, WorkerKnows, [Next]_vars
  PROVE  Effect
<1>1. CASE Work \/ CallFails \/ AnswerLost
  BY <1>1, CallEffect
<1>2. ASSUME NEW n \in Names, WithdrawRequest(n)  PROVE Effect
  BY <1>2 DEF WithdrawRequest, Effect, UserWrites
<1>3. ASSUME NEW n \in Names, NEW s \in Specs, CreateRequest(n, s) \/ EditRequest(n, s)
      PROVE  Effect
  BY <1>3 DEF CreateRequest, EditRequest, EditLatest, Effect, UserWrites
<1>4. ASSUME NEW k \in DOMAIN tickets, ApproveTicket(k) \/ VetoTicket(k)  PROVE Effect
  BY <1>4 DEF ApproveTicket, VetoTicket, apiVars, From, Effect, TicketChanges
<1>5. CASE \E n \in Names : Reconcile(n) \/ Deliver(n) \/ Relist(n) \/ WakeUp(n)
  BY <1>5
     DEF Reconcile, handleFetchError, deleteOwnedObjects, Deliver, Relist, TakeOver, WakeUp,
         apiVars, Effect
<1>6. CASE Restart \/ ConfigChanges \/ UNCHANGED vars
  BY <1>6
     DEF Restart, ConfigChanges, ConfigPublished, ConfigCompiled, ConfigSaved, ConfigLost,
         vars, apiVars, Effect
<1>7. CASE CollectGarbage \/ Tick
  BY <1>7 DEF CollectGarbage, Tick, apiVars, Effect, BindingGoes, TimePasses
<1> QED
  BY <1>1, <1>2, <1>3, <1>4, <1>5, <1>6, <1>7 DEF Next, Operator

-----------------------------------------------------------------------------
(* An effect's footprint.                                                    *)

\* A status update writes a version whose ticket is the one in hand.
LEMMA UpdateFootprint ==
  ASSUME TypeOK, job # Idle, NEW state \in States, updateStatus(state),
         job.issue # 0 \/ state = "Pre-Approved" => FiledFor(job.issue, Owner)
  PROVE  OneWrite
<1> DEFINE v == [Request EXCEPT !.state = state, !.ticket = job.issue,
                                !.startTime = Request.spec.startTime,
                                !.endTime = Request.spec.endTime]
<1>1. job \in Jobs /\ Request \in Versions /\ Request.spec \in SpecType
  BY CopyInHand
<1>2. v \in Versions
  BY <1>1 DEF Versions, SpecType, Jobs
<1>3. v.uid = Request.uid /\ v.ticket = job.issue /\ v.state = state
  BY <1>1 DEF Versions
<1>4. Write(job.name, v) /\ UNCHANGED tickets
  BY DEF updateStatus
<1> HIDE DEF v
<1>5. v.ticket # 0 \/ v.state = "Pre-Approved" => FiledFor(v.ticket, <<job.name, v.uid>>)
  BY <1>3 DEF Owner
<1> QED
  BY <1>1, <1>2, <1>4, <1>5 DEF OneWrite, Jobs

\* So does a write that keeps state, ticket and uid of the latest version.
LEMMA RewriteFootprint ==
  ASSUME TypeOK, TicketIsOwn, NEW n \in Names, Live(n), UNCHANGED tickets,
         NEW v \in Versions, Write(n, v),
         v.uid = Latest(n).uid, v.ticket = Latest(n).ticket,
         v.state \in {Latest(n).state, "Deleted"}
  PROVE  OneWrite
<1>1. log[n] \in Seq(Versions) /\ log[n] # <<>>
  BY DEF TypeOK, Live
<1>2. Len(log[n]) \in DOMAIN log[n]
  BY <1>1
<1>3. v.ticket # 0 \/ v.state = "Pre-Approved" => FiledFor(v.ticket, <<n, v.uid>>)
  BY <1>2 DEF TicketIsOwn, Latest
<1> QED
  BY <1>3 DEF OneWrite

\* A deletion repeats the latest version.
LEMMA DeleteFootprint ==
  ASSUME TypeOK, TicketIsOwn, NEW n \in Names, Delete(n), UNCHANGED tickets
  PROVE  OneWrite
<1> DEFINE v == [Latest(n) EXCEPT !.state = "Deleted"]
<1>1. log[n] \in Seq(Versions) /\ log[n] # <<>>
  BY DEF TypeOK, Live, Delete
<1>2. Latest(n) \in Versions
  BY <1>1 DEF Latest
<1>3. /\ v \in Versions /\ v.uid = Latest(n).uid
      /\ v.ticket = Latest(n).ticket /\ v.state = "Deleted"
  BY <1>2 DEF Versions, States
<1>4. Live(n) /\ Write(n, v)
  BY DEF Delete
<1> HIDE DEF v
<1> QED
  BY <1>3, <1>4, RewriteFootprint

\* Every step leaves one of these footprints; a status update has no ticket only when a field
\* is missing.
LEMMA StepFootprint ==
  ASSUME TypeOK, TicketIsOwn, WorkerKnows, [Next]_vars
  PROVE  Footprint
<1>1. Effect
  BY StepEffect
<1>2. ASSUME NEW n \in Names, NEW s \in Specs, Create(n, s), UNCHANGED tickets  PROVE OneWrite
  <2> DEFINE v == [uid |-> Len(log[n]) + 1, spec |-> s, state |-> "",
                   ticket |-> 0, startTime |-> 0, endTime |-> 0]
  <2>1. Len(log[n]) \in Nat
    BY DEF TypeOK
  <2>2. v \in Versions /\ v.ticket = 0 /\ v.state = ""
    BY <2>1 DEF Versions, States
  <2>3. Write(n, v)
    BY <1>2 DEF Create
  <2> HIDE DEF v
  <2> QED
    BY <1>2, <2>2, <2>3 DEF OneWrite
<1>3. ASSUME NEW n \in Names, NEW s \in Specs, EditLatest(n, s), UNCHANGED tickets
      PROVE  OneWrite
  <2> DEFINE v == [Latest(n) EXCEPT !.spec = s]
  <2>1. Live(n) /\ Write(n, v)
    BY <1>3 DEF EditLatest
  <2>2. log[n] \in Seq(Versions) /\ log[n] # <<>>
    BY <2>1 DEF TypeOK, Live
  <2>3. Latest(n) \in Versions
    BY <2>2 DEF Latest
  <2>4. v \in Versions /\ v.uid = Latest(n).uid /\ v.ticket = Latest(n).ticket
           /\ v.state = Latest(n).state
    BY <2>3 DEF Versions
  <2> HIDE DEF v
  <2> QED
    BY <1>3, <2>1, <2>4, RewriteFootprint
<1>4. CASE UserWrites
  BY <1>2, <1>3, <1>4, DeleteFootprint DEF UserWrites, Footprint
<1>5. CASE WorkerWrites
  <2>1. job # Idle /\ job.call \in Updates /\ updateStatus(StateAfter(job.call))
    BY <1>5 DEF WorkerWrites
  <2>2. job.issue # 0 \/ StateAfter(job.call) = "Pre-Approved" => FiledFor(job.issue, Owner)
    BY <2>1 DEF WorkerKnows, Updates, StateAfter, OnTicket, AfterStart, At, Skipped
  <2>3. StateAfter(job.call) \in States
    BY DEF StateAfter, States
  <2> QED
    BY <2>1, <2>2, <2>3, UpdateFootprint DEF Footprint
<1>6. CASE TicketChanges
  BY <1>6 DEF TicketChanges, Footprint, OneTicketFiled, OneTicketMoved
<1> QED
  BY <1>1, <1>4, <1>5, <1>6 DEF Effect, BindingAdds, BindingGoes, TimePasses, Footprint

-----------------------------------------------------------------------------
(* What a footprint does to the parts of the invariant.                      *)

\* TicketIsOwn is kept: a version takes its ticket from its predecessor or from the worker.
LEMMA TicketIsOwnStep ==
  ASSUME TypeOK, TicketIsOwn, Footprint
  PROVE  TicketIsOwn'
<1>1. /\ Grows
      /\ log \in [Names -> Seq(Versions)] /\ log' \in [Names -> Seq(Versions)]
      /\ tickets \in Seq(TicketRecords) /\ tickets' \in Seq(TicketRecords)
  BY FootprintGrows DEF TypeOK
<1>2. ASSUME NEW k, NEW o, FiledFor(k, o)
      PROVE  k \in DOMAIN tickets' /\ tickets'[k].owner = o
  <2>1. k \in 1..Len(tickets) /\ tickets[k].owner = o
    BY <1>1, <1>2 DEF FiledFor
  <2>2. /\ Len(tickets) <= Len(tickets')
        /\ \A j \in 1..Len(tickets) : tickets'[j].owner = tickets[j].owner
    BY <1>1 DEF Grows
  <2>3. Len(tickets) \in Nat /\ Len(tickets') \in Nat /\ DOMAIN tickets' = 1..Len(tickets')
    BY <1>1
  <2> QED
    BY <2>1, <2>2, <2>3
<1> DEFINE Fits(n, v) ==
      v.ticket # 0 \/ v.state = "Pre-Approved"
        => v.ticket \in DOMAIN tickets' /\ tickets'[v.ticket].owner = <<n, v.uid>>
<1> SUFFICES \A n \in Names : \A i \in 1..Len(log'[n]) : Fits(n, log'[n][i])
  BY <1>1 DEF TicketIsOwn, FiledFor
<1>3. ASSUME NEW n \in Names, NEW i \in 1..Len(log[n])  PROVE Fits(n, log'[n][i])
  <2>1. log'[n][i] = log[n][i]
    BY <1>1 DEF Grows
  <2>2. log[n][i].ticket # 0 \/ log[n][i].state = "Pre-Approved"
          => FiledFor(log[n][i].ticket, <<n, log[n][i].uid>>)
    BY <1>1 DEF TicketIsOwn
  <2> QED
    BY <1>2, <2>1, <2>2
<1>4. CASE UNCHANGED log
  BY <1>1, <1>3, <1>4
<1>5. CASE OneWrite
  <2>1. PICK m \in Names, v \in Versions :
          /\ Write(m, v) /\ UNCHANGED tickets
          /\ v.ticket # 0 \/ v.state = "Pre-Approved" => FiledFor(v.ticket, <<m, v.uid>>)
    BY <1>5 DEF OneWrite
  <2>2. /\ \A n \in Names : Len(log'[n]) = IF n = m THEN Len(log[n]) + 1 ELSE Len(log[n])
        /\ log'[m][Len(log[m]) + 1] = v
    BY <1>1, <2>1, WriteAppends
  <2>3. Fits(m, v)
    BY <1>2, <2>1
  <2>4. ASSUME NEW n \in Names, NEW i \in 1..Len(log'[n])  PROVE Fits(n, log'[n][i])
    <3>1. CASE i \in 1..Len(log[n])
      BY <1>3, <3>1
    <3>2. CASE n = m /\ i = Len(log[m]) + 1
      BY <2>2, <2>3, <3>2
    <3>3. Len(log[n]) \in Nat
      BY <1>1
    <3> HIDE DEF Fits
    <3> QED
      BY <2>2, <3>1, <3>2, <3>3
  <2> QED
    BY <2>4
<1> QED
  BY <1>4, <1>5 DEF Footprint, OneTicketFiled, OneTicketMoved

\* The clock only goes forward.
LEMMA TimeStep ==
  ASSUME TypeOK, WorkerKnows, [Next]_vars
  PROVE  now' \in Nat /\ now <= now'
BY StepEffect
   DEF TypeOK, Effect, UserWrites, WorkerWrites, TicketChanges, BindingAdds, BindingGoes,
       TimePasses

\* Only a worker that has found the approval adds RoleBindings.
LEMMA BindingsStep ==
  ASSUME TypeOK, WorkerKnows, [Next]_vars
  PROVE  \/ bindings' \subseteq bindings
         \/ job # Idle /\ At("CreateRoleBinding") /\ CreateBinding
BY StepEffect
   DEF Effect, UserWrites, WorkerWrites, TicketChanges, BindingAdds, BindingGoes, Collect,
       TimePasses

\* What it adds is in the name and with the role of the copy in hand.
LEMMA BindingAdded ==
  ASSUME TypeOK, job # Idle, At("CreateRoleBinding"), CreateBinding,
         NEW b \in bindings', b \notin bindings
  PROVE  /\ b \in Bindings /\ b.name = job.name /\ b.uid = Request.uid
         /\ b.role = Request.spec.role
         /\ b.namespace = Request.spec.namespaces[job.next]
<1>1. job \in Jobs /\ Request \in Versions /\ Request.spec \in SpecType
  BY CopyInHand
<1>2. job.next \in 1..Len(Request.spec.namespaces)
  BY <1>1 DEF TypeOK, JobTypeOK, Jobs
<1>3. Request.spec.namespaces[job.next] \in Namespaces
  BY <1>1, <1>2 DEF SpecType
<1>4. b = [name |-> job.name, namespace |-> Request.spec.namespaces[job.next],
           uid |-> Request.uid, role |-> Request.spec.role]
  BY DEF CreateBinding, Bind
<1> QED
  BY <1>1, <1>3, <1>4 DEF Bindings, Jobs, Versions, SpecType

\* GrantNeedsApproval is kept: votes are never forgotten, and a grant follows one.
LEMMA GrantNeedsApprovalStep ==
  ASSUME TypeOK, WorkerKnows, GrantNeedsApproval, Footprint, [Next]_vars
  PROVE  GrantNeedsApproval'
<1>1. /\ Grows
      /\ tickets \in Seq(TicketRecords) /\ tickets' \in Seq(TicketRecords)
  BY FootprintGrows DEF TypeOK
<1>2. ASSUME NEW k \in DOMAIN tickets, EverApproved(k)
      PROVE  k \in DOMAIN tickets' /\ tickets'[k].owner = tickets[k].owner
             /\ tickets'[k].status \in {"Approved", "Done"}
  BY <1>1, <1>2 DEF Grows
<1> SUFFICES ASSUME NEW b \in bindings'
             PROVE  \E k \in DOMAIN tickets' : /\ tickets'[k].owner = <<b.name, b.uid>>
                                               /\ tickets'[k].status \in {"Approved", "Done"}
  BY DEF GrantNeedsApproval, EverApproved
<1>3. CASE b \in bindings
  BY <1>2, <1>3 DEF GrantNeedsApproval
<1>4. CASE b \notin bindings
  <2>1. job # Idle /\ At("CreateRoleBinding") /\ CreateBinding
    BY <1>4, BindingsStep
  <2>2. b.name = job.name /\ b.uid = Request.uid
    BY <1>4, <2>1, BindingAdded
  <2>3. FiledFor(job.issue, Owner) /\ EverApproved(job.issue)
    BY <2>1 DEF WorkerKnows, At, OnTicket, AfterStart
  <2> QED
    BY <1>2, <2>2, <2>3 DEF FiledFor, Owner
<1> QED
  BY <1>3, <1>4

\* GrantNotBeforeStart is kept: start times never change and the clock never goes back.
LEMMA GrantNotBeforeStartStep ==
  ASSUME TypeOK, WorkerKnows, GrantNotBeforeStart, Footprint, [Next]_vars
  PROVE  GrantNotBeforeStart'
<1>1. /\ Grows /\ now \in Nat /\ now' \in Nat /\ now <= now'
      /\ log \in [Names -> Seq(Versions)] /\ log' \in [Names -> Seq(Versions)]
  BY FootprintGrows, TimeStep DEF TypeOK
<1> DEFINE Begun(v, u) == v.uid = u /\ v.state = "Pre-Approved" /\ v.startTime <= now
<1> DEFINE BegunNext(v, u) == v.uid = u /\ v.state = "Pre-Approved" /\ v.startTime <= now'
<1>2. ASSUME NEW n \in Names, NEW i \in 1..Len(log[n]), NEW u, Begun(log[n][i], u)
      PROVE  i \in DOMAIN log'[n] /\ BegunNext(log'[n][i], u)
  <2>1. log'[n][i] = log[n][i] /\ Len(log[n]) <= Len(log'[n])
    BY <1>1 DEF Grows
  <2>2. log[n][i] \in Versions
    BY <1>1
  <2> QED
    <3>1. i \in DOMAIN log'[n]
      BY <1>1, <2>1
    <3>2. log[n][i].startTime \in Nat
      BY <2>2 DEF Versions
    <3>3. log[n][i].startTime <= now'
      BY <1>1, <1>2, <3>2
    <3>4. BegunNext(log'[n][i], u)
      BY <1>2, <2>1, <3>3
    <3> QED
      BY <3>1, <3>4
<1> SUFFICES ASSUME NEW b \in bindings'
             PROVE  \E i \in DOMAIN log'[b.name] : BegunNext(log'[b.name][i], b.uid)
  BY DEF GrantNotBeforeStart
<1>3. CASE b \in bindings
  <2>1. b.name \in Names
    BY <1>3 DEF TypeOK, Bindings
  <2>2. PICK i \in DOMAIN log[b.name] : Begun(log[b.name][i], b.uid)
    BY <1>3 DEF GrantNotBeforeStart
  <2>3. i \in 1..Len(log[b.name])
    BY <1>1, <2>1, <2>2
  <2> QED
    BY <1>2, <2>1, <2>2, <2>3
<1>4. CASE b \notin bindings
  <2>1. job # Idle /\ At("CreateRoleBinding") /\ CreateBinding
    BY <1>4, BindingsStep
  <2>2. b.name = job.name /\ b.uid = Request.uid
    BY <1>4, <2>1, BindingAdded
  <2>3. Request.state = "Pre-Approved" /\ Request.startTime <= now
    BY <2>1 DEF WorkerKnows, At, AfterStart, StatesBefore, Reads
  <2>4. job.name \in Names /\ job.rev \in 1..Len(log[job.name])
    BY <2>1, CopyInHand DEF Jobs
  <2> QED
    BY <1>2, <2>2, <2>3, <2>4 DEF Request
<1> QED
  BY <1>3, <1>4

-----------------------------------------------------------------------------
(* The worker's reconcile.                                                   *)

JobOK == JobTypeOK /\ WorkerKnows

\* A reconcile at call c on version r of request n, with ticket k, fits what there is
\* after the step.
Fits(c, n, r, k, i) ==
  /\ c \in Calls \union Reads /\ n \in Names /\ r \in 1..Len(log'[n])
  /\ k \in 0..Len(tickets') /\ i \in Nat \ {0}
  /\ log'[n][r].state \in StatesBefore(c)
  /\ c \in OnTicket => k # 0 /\ tickets'[k].owner = <<n, log'[n][r].uid>>
  /\ c \in AfterStart => log'[n][r].startTime <= now'
  /\ c \in {"MatchNamespace", "CreateRoleBinding"} => i <= Len(log'[n][r].spec.namespaces)
  /\ c = "CreateRoleBinding" => tickets'[k].status \in {"Approved", "Done"}
  /\ c = "UpdateSkipped" => k = Skipped

\* A job whose parts fit one another is one the type allows and WorkerKnows describes.
LEMMA JobFits ==
  ASSUME tickets' \in Seq(TicketRecords), log' \in [Names -> Seq(Versions)],
         NEW c, NEW n, NEW r, NEW k, NEW i, NEW x \in 1..Len(Configs), Fits(c, n, r, k, i),
         job' = [call |-> c, name |-> n, rev |-> r, issue |-> k, next |-> i, conf |-> x]
  PROVE  JobOK'
<1>1. /\ job'.call = c /\ job'.name = n /\ job'.rev = r /\ job'.issue = k /\ job'.next = i
      /\ job' \in Jobs
  BY DEF Fits, Jobs
<1>2. JobTypeOK'
  BY <1>1 DEF JobTypeOK, Fits, At, Request
<1>3. WorkerKnows'
  BY <1>1 DEF WorkerKnows, Fits, At, Request, Owner, FiledFor, EverApproved
<1> QED
  BY <1>2, <1>3 DEF JobOK

\* A worker that has nothing to do knows nothing.
LEMMA IdleFits ==
  ASSUME job' = Idle  PROVE JobOK'
BY DEF JobOK, JobTypeOK, WorkerKnows, At, Idle

\* The copy in hand stays as it is, and so does what is known of its ticket.
LEMMA CopyStays ==
  ASSUME TypeOK, job # Idle, Footprint
  PROVE  /\ log'[job.name][job.rev] = Request /\ job.rev \in 1..Len(log'[job.name])
         /\ \A k, o : FiledFor(k, o) =>
              /\ k \in 1..Len(tickets') /\ tickets'[k].owner = o
              /\ EverApproved(k) => tickets'[k].status \in {"Approved", "Done"}
<1>1. /\ Grows
      /\ log \in [Names -> Seq(Versions)] /\ log' \in [Names -> Seq(Versions)]
      /\ tickets \in Seq(TicketRecords) /\ tickets' \in Seq(TicketRecords)
  BY FootprintGrows DEF TypeOK
<1>2. job.name \in Names /\ job.rev \in 1..Len(log[job.name])
  BY CopyInHand DEF Jobs
<1>3. log'[job.name][job.rev] = Request /\ Len(log[job.name]) <= Len(log'[job.name])
  BY <1>1, <1>2 DEF Grows, Request
<1>4. Len(log[job.name]) \in Nat /\ Len(log'[job.name]) \in Nat
  BY <1>1, <1>2
<1>5. ASSUME NEW k, NEW o, FiledFor(k, o)
      PROVE  /\ k \in 1..Len(tickets') /\ tickets'[k].owner = o
             /\ EverApproved(k) => tickets'[k].status \in {"Approved", "Done"}
  BY <1>1, <1>5 DEF FiledFor, Grows
<1> QED
  BY <1>2, <1>3, <1>4, <1>5

\* The ticket in hand is one of the project, or none.
LEMMA TicketInHand ==
  ASSUME TypeOK, job # Idle, Footprint  PROVE job.issue \in 0..Len(tickets')
<1>1. Len(tickets) <= Len(tickets') /\ Len(tickets) \in Nat /\ Len(tickets') \in Nat
  BY FootprintGrows DEF TypeOK, Grows
<1>2. job.issue \in Nat /\ job.issue <= Len(tickets)
  BY CopyInHand DEF TypeOK, JobTypeOK, Jobs
<1> QED
  BY <1>1, <1>2

\* A reconcile that waits keeps what it has found out.
LEMMA JobStays ==
  ASSUME TypeOK, WorkerKnows, Footprint, now' \in Nat, now <= now', UNCHANGED job
  PROVE  JobOK'
<1>1. CASE job = Idle
  BY <1>1, IdleFits
<1>2. CASE job # Idle
  <2> DEFINE c == job.call  n == job.name  r == job.rev  k == job.issue  i == job.next
  <2>1. job \in Jobs /\ Request \in Versions /\ now \in Nat
    BY <1>2, CopyInHand DEF TypeOK
  <2>2. log'[n][r] = Request /\ r \in 1..Len(log'[n])
    BY <1>2, CopyStays
  <2>3. c \in OnTicket => /\ k \in 1..Len(tickets') /\ tickets'[k].owner = Owner
                          /\ EverApproved(k) => tickets'[k].status \in {"Approved", "Done"}
    BY <1>2, CopyStays DEF WorkerKnows
  <2>4. k \in 0..Len(tickets')
    BY <1>2, TicketInHand
  <2>5. c \in AfterStart => Request.startTime <= now'
    BY <1>2, <2>1 DEF WorkerKnows, Versions
  <2>6. /\ Request.state \in StatesBefore(c)
        /\ c \in {"MatchNamespace", "CreateRoleBinding"} => i <= Len(Request.spec.namespaces)
        /\ c = "CreateRoleBinding" => EverApproved(k)
        /\ c = "UpdateSkipped" => k = Skipped
    BY <1>2 DEF WorkerKnows, TypeOK, JobTypeOK, At
  <2>7. Fits(c, n, r, k, i)
    BY <2>1, <2>2, <2>3, <2>4, <2>5, <2>6 DEF Fits, Jobs, Owner, OnTicket, AfterStart
  <2>8. /\ job' = [call |-> c, name |-> n, rev |-> r, issue |-> k, next |-> i,
                    conf |-> job.conf]
        /\ job.conf \in 1..Len(Configs)
    BY <2>1 DEF Jobs
  <2> QED
    BY <2>7, <2>8, JobFits, FootprintGrows
<1> QED
  BY <1>1, <1>2

\* Between two calls of one reconcile: what the caller has to know for the next call.
LEMMA NextCall ==
  ASSUME TypeOK, WorkerKnows, Footprint, UNCHANGED now, job # Idle,
         NEW c \in Calls \union Reads, NEW i \in Nat \ {0},
         job' = [job EXCEPT !.call = c, !.next = i],
         Request.state \in StatesBefore(c),
         c \in OnTicket => job.call \in OnTicket,
         c \in AfterStart => job.call \in AfterStart,
         c \in {"MatchNamespace", "CreateRoleBinding"} => i <= Len(Request.spec.namespaces),
         c = "CreateRoleBinding" => EverApproved(job.issue),
         c # "UpdateSkipped"
  PROVE  JobOK'
<1> DEFINE n == job.name  r == job.rev  k == job.issue
<1>1. job \in Jobs /\ Request \in Versions
  BY CopyInHand
<1>2. log'[n][r] = Request /\ r \in 1..Len(log'[n])
  BY CopyStays
<1>3. c \in OnTicket => /\ k \in 1..Len(tickets') /\ tickets'[k].owner = Owner
                        /\ EverApproved(k) => tickets'[k].status \in {"Approved", "Done"}
  BY CopyStays DEF WorkerKnows
<1>4. k \in 0..Len(tickets')
  BY TicketInHand
<1>5. c \in AfterStart => Request.startTime <= now'
  BY DEF WorkerKnows
<1>6. Fits(c, n, r, k, i)
  BY <1>1, <1>2, <1>3, <1>4, <1>5 DEF Fits, Jobs, Owner, OnTicket, AfterStart
<1>7. /\ job' = [call |-> c, name |-> n, rev |-> r, issue |-> k, next |-> i, conf |-> job.conf]
      /\ job.conf \in 1..Len(Configs)
  BY <1>1 DEF Jobs
<1> QED
  BY <1>6, <1>7, JobFits, FootprintGrows

\* The same when only the call changes.
LEMMA NextCallHere ==
  ASSUME TypeOK, WorkerKnows, Footprint, UNCHANGED now, job # Idle,
         NEW c \in Calls \union Reads, Call(c),
         Request.state \in StatesBefore(c),
         c \in OnTicket => job.call \in OnTicket,
         c \in AfterStart => job.call \in AfterStart,
         c \notin {"MatchNamespace", "CreateRoleBinding", "UpdateSkipped"}
  PROVE  JobOK'
<1>1. job \in Jobs
  BY CopyInHand
<1>2. job' = [job EXCEPT !.call = c, !.next = job.next] /\ job.next \in Nat \ {0}
  BY <1>1 DEF Call, Jobs
<1> QED
  BY <1>2, NextCall

\* An error ends the reconcile, or rejects the request.
LEMMA ErrorStep ==
  ASSUME TypeOK, WorkerKnows, Footprint, UNCHANGED now, job # Idle, OnError
  PROVE  JobOK'
<1>1. CASE job' = Idle
  BY <1>1, IdleFits
<1>2. CASE job.call \in {"ListNamespaces", "GetIssue"} /\ Call("UpdateRejected")
  <2>1. Request.state \in {"", "Pre-Approved"}
    BY <1>2 DEF WorkerKnows, StatesBefore, Reads
  <2> QED
    BY <1>2, <2>1, NextCallHere DEF Calls, Reads, StatesBefore, OnTicket, AfterStart
<1> QED
  BY <1>1, <1>2 DEF OnError, Done, Retry, At

\* createRoleBinding goes on only with a ticket that was approved.
LEMMA BindStep ==
  ASSUME TypeOK, WorkerKnows, Footprint, UNCHANGED now, job # Idle,
         job.call \in AfterStart, EverApproved(job.issue), NEW i \in Nat \ {0}, BindFrom(i)
  PROVE  JobOK'
<1> DEFINE c == IF i <= Len(Request.spec.namespaces) THEN "CreateRoleBinding"
                 ELSE "CommentCompleted"
<1>1. job \in Jobs
  BY CopyInHand
<1>2. job' = [job EXCEPT !.call = c, !.next = i] /\ c \in Calls
  BY <1>1 DEF BindFrom, Jobs, Calls
<1>3. Request.state = "Pre-Approved" /\ StatesBefore(c) = {"Pre-Approved"}
  BY DEF WorkerKnows, StatesBefore, Reads, AfterStart
<1>4. job.call \in OnTicket
  BY DEF OnTicket
<1>5. c = "CreateRoleBinding" => i <= Len(Request.spec.namespaces)
  OBVIOUS
<1>6. c \notin {"MatchNamespace", "UpdateSkipped"}
  OBVIOUS
<1> HIDE DEF c
<1> QED
  BY <1>2, <1>3, <1>4, <1>5, <1>6, NextCall

\* Once there is a ticket a new request goes on with one of these.
LEMMA CallsOfNames ==
  ASSUME TypeOK, job # Idle
  PROVE  /\ CallOfStart(Request.spec) \in {"CommentPreApproved", "UpdateRejected"}
         /\ CallOfNames(Request.spec) \in
              {"MatchNamespace", "CommentPreApproved", "UpdateRejected"}
         /\ CallOfNames(Request.spec) = "MatchNamespace" => 1 <= Len(Request.spec.namespaces)
         /\ "CommentPreApproved" \in {CallOfStart(Request.spec), CallOfNames(Request.spec)} =>
              Request.spec.startTime > now
<1>1. Request.spec.namespaces \in Seq(Namespaces)
  BY CopyInHand DEF SpecType
<1>2. Request.spec.namespaces # <<>> => 1 <= Len(Request.spec.namespaces)
  BY <1>1
<1>3. /\ CallOfStart(Request.spec) \in {"CommentPreApproved", "UpdateRejected"}
      /\ CallOfStart(Request.spec) = "CommentPreApproved" => Request.spec.startTime > now
  BY DEF CallOfStart
<1> QED
  BY <1>2, <1>3 DEF CallOfNames

\* ValidateNamespaceRegex goes on with a name of the request, or is through.
LEMMA MatchStep ==
  ASSUME TypeOK, WorkerKnows, Footprint, UNCHANGED now, job # Idle, job.call \in OnTicket,
         Request.state = "", NEW i \in Nat \ {0}, MatchFrom(i)
  PROVE  JobOK'
<1> DEFINE c == IF i <= Len(Request.spec.namespaces) THEN "MatchNamespace"
                 ELSE CallOfStart(Request.spec)
<1>1. job' = [job EXCEPT !.call = c, !.next = i]
  BY CopyInHand DEF MatchFrom, Jobs
<1>2. /\ c \in {"MatchNamespace", "CommentPreApproved", "UpdateRejected"}
      /\ c = "MatchNamespace" => i <= Len(Request.spec.namespaces)
  BY CallsOfNames
<1> HIDE DEF c
<1>3. c \in Calls \union Reads /\ c \notin AfterStart /\ "" \in StatesBefore(c)
  BY <1>2 DEF Calls, Reads, AfterStart, StatesBefore
<1> QED
  BY <1>1, <1>2, <1>3, NextCall

\* ListNamespaces goes on with the names, or rejects the request.
LEMMA ListStep ==
  ASSUME TypeOK, WorkerKnows, Footprint, UNCHANGED now, job # Idle, ListNamespaces
  PROVE  JobOK'
<1> DEFINE c == IF LabelsMatch(Request.spec) THEN CallOfNames(Request.spec)
                ELSE "UpdateRejected"
<1>1. job' = [job EXCEPT !.call = c, !.next = 1] /\ job.call = "ListNamespaces"
  BY CopyInHand DEF ListNamespaces, Jobs, At
<1>2. /\ c \in {"MatchNamespace", "CommentPreApproved", "UpdateRejected"}
      /\ c = "MatchNamespace" => 1 <= Len(Request.spec.namespaces)
  BY CallsOfNames
<1> HIDE DEF c
<1>3. c \in Calls \union Reads /\ c \notin AfterStart /\ "" \in StatesBefore(c)
  BY <1>2 DEF Calls, Reads, AfterStart, StatesBefore
<1>4. Request.state = "" /\ job.call \in OnTicket
  BY <1>1 DEF WorkerKnows, StatesBefore, Reads, OnTicket
<1>5. 1 \in Nat \ {0}
  OBVIOUS
<1> QED
  BY <1>1, <1>2, <1>3, <1>4, <1>5, NextCall

\* A new ticket is the request's own.
LEMMA CreateIssueStep ==
  ASSUME TypeOK, WorkerKnows, Footprint, UNCHANGED now, job # Idle, CreateIssue
  PROVE  JobOK'
<1> DEFINE c == CallOfTicket(Request.spec)
           n == job.name  r == job.rev  k == Len(tickets) + 1  i == 1
<1>1. job \in Jobs
  BY CopyInHand
<1>2. log'[n][r] = Request /\ r \in 1..Len(log'[n])
  BY CopyStays
<1>3. tickets' = Append(tickets, [owner |-> Owner, status |-> "Todo"])
  BY DEF CreateIssue, FileIssue, FileTicket
<1>4. tickets \in Seq(TicketRecords) /\ Len(tickets) \in Nat
  BY DEF TypeOK
<1>5. Len(tickets') = k /\ tickets'[k].owner = Owner
  BY <1>3, <1>4
<1>6. Request.state = ""
  BY DEF WorkerKnows, StatesBefore, CreateIssue, At
<1>7. /\ c \in {"ListNamespaces", "MatchNamespace", "CommentPreApproved", "UpdateRejected"}
      /\ c = "MatchNamespace" => 1 <= Len(Request.spec.namespaces)
  BY CallsOfNames DEF CallOfTicket
<1> HIDE DEF c
<1>8. /\ c \in Calls \union Reads /\ "" \in StatesBefore(c) /\ c \notin AfterStart
      /\ c \notin {"CreateRoleBinding", "UpdateSkipped"}
  BY <1>7 DEF StatesBefore, Calls, Reads, AfterStart
<1> USE DEF c
<1>9. /\ job' = [call |-> c, name |-> n, rev |-> r, issue |-> k, next |-> i, conf |-> job.conf]
      /\ job.conf \in 1..Len(Configs)
  BY <1>1 DEF CreateIssue, NewIssue, Jobs
<1> HIDE DEF c
<1>10. /\ n \in Names /\ r \in 1..Len(log'[n])
       /\ k \in 0..Len(tickets') /\ k # 0 /\ i \in Nat \ {0}
  <2>1. n \in Names /\ i \in Nat \ {0}
    BY <1>1 DEF Jobs
  <2>2. k \in 0..Len(tickets') /\ k # 0
    BY <1>4, <1>5
  <2> QED
    BY <1>2, <2>1, <2>2
<1>11. log'[n][r].state \in StatesBefore(c) /\ tickets'[k].owner = <<n, log'[n][r].uid>>
  BY <1>2, <1>5, <1>6, <1>8 DEF Owner
<1>12. c = "MatchNamespace" => i <= Len(log'[n][r].spec.namespaces)
  BY <1>2, <1>7
<1> HIDE DEF k, i, n, r
<1>13. Fits(c, n, r, k, i)
  BY <1>8, <1>10, <1>11, <1>12 DEF Fits
<1> QED
  BY <1>9, <1>13, JobFits, FootprintGrows

\* The version that records the success is the one the clean-up goes on with.
LEMMA UpdateSucceededStep ==
  ASSUME TypeOK, WorkerKnows, Footprint, UNCHANGED now, job # Idle, UpdateSucceeded
  PROVE  JobOK'
<1>1. CASE Refused
  BY <1>1, ErrorStep DEF Refused
<1>2. CASE job' = Idle
  BY <1>2, IdleFits
<1>3. CASE /\ updateStatus("Succeeded")
           /\ job' = [job EXCEPT !.call = "DeleteExpired", !.rev = @ + 1]
  <2> DEFINE v == [Request EXCEPT !.state = "Succeeded", !.ticket = job.issue,
                                  !.startTime = Request.spec.startTime,
                                  !.endTime = Request.spec.endTime]
             n == job.name  r == job.rev + 1  k == job.issue  i == job.next
  <2>1. job \in Jobs /\ Request \in Versions /\ Request.spec \in SpecType
    BY CopyInHand
  <2>2. v \in Versions /\ v.state = "Succeeded"
    BY <2>1 DEF Versions, States, SpecType, Jobs
  <2>3. Write(n, v) /\ r = Len(log[n]) + 1
    BY <1>3 DEF updateStatus, UpToDate
  <2> HIDE DEF v
  <2>4. log'[n][r] = v /\ Len(log'[n]) = Len(log[n]) + 1 /\ n \in Names
    BY <2>1, <2>2, <2>3, WriteAppends DEF TypeOK, Jobs
  <2>5. k \in 0..Len(tickets') /\ r \in 1..Len(log'[n])
    <3>1. Len(log[n]) \in Nat
      BY <2>4 DEF TypeOK
    <3> QED
      BY <2>3, <2>4, <3>1, TicketInHand
  <2>6. Fits("DeleteExpired", n, r, k, i)
    BY <2>1, <2>2, <2>4, <2>5 DEF Fits, Jobs, OnTicket, AfterStart, StatesBefore, Reads, Calls
  <2>7. /\ job' = [call |-> "DeleteExpired", name |-> n, rev |-> r, issue |-> k, next |-> i,
                    conf |-> job.conf]
        /\ job.conf \in 1..Len(Configs)
    BY <1>3, <2>1 DEF Jobs
  <2> QED
    BY <2>6, <2>7, JobFits, FootprintGrows
<1> QED
  BY <1>1, <1>2, <1>3 DEF UpdateSucceeded, RequeueAt

\* What the worker knows still holds after a call of its own.
LEMMA WorkStep ==
  ASSUME TypeOK, WorkerKnows, Footprint, Work
  PROVE  JobOK'
<1>1. job # Idle /\ UNCHANGED now
  BY DEF Work
<1>2. ASSUME Refused \/ OnError \/ job' = Idle  PROVE JobOK'
  BY <1>1, <1>2, ErrorStep, IdleFits DEF Refused
<1>3. Request.state \in StatesBefore(job.call)
  BY <1>1 DEF WorkerKnows
<1>4. CASE FindReporter
  BY <1>1, <1>2, <1>3, <1>4, NextCallHere
     DEF FindReporter, At, StatesBefore, Reads, OnTicket, AfterStart, Calls
<1>5. CASE CreateIssue
  BY <1>1, <1>5, CreateIssueStep
<1>6. CASE CommentPreApproved
  BY <1>1, <1>3, <1>6, NextCallHere
     DEF CommentPreApproved, At, StatesBefore, OnTicket, AfterStart, Calls
<1>7. CASE UpdatePreApproved \/ UpdateRejected \/ UpdateSkipped
  BY <1>2, <1>7 DEF UpdatePreApproved, UpdateRejected, UpdateSkipped, RequeueAt, Done
<1>8. CASE GetIssue
  <2>1. CASE tickets[job.issue].status = "Approved" /\ BindFrom(1)
    BY <1>1, <1>8, <2>1, BindStep DEF GetIssue, At, AfterStart, EverApproved
  <2>2. CASE Call("UpdateRejected")
    BY <1>1, <1>3, <1>8, <2>2, NextCallHere
       DEF GetIssue, At, StatesBefore, Reads, OnTicket, AfterStart, Calls
  <2> QED
    BY <1>8, <2>1, <2>2 DEF GetIssue
<1>9. CASE CreateRoleBinding
  <2>1. CASE BindFrom(job.next + 1)
    <3>1. EverApproved(job.issue) /\ job.call \in AfterStart /\ job.next + 1 \in Nat \ {0}
      BY <1>1, <1>9, CopyInHand DEF WorkerKnows, CreateRoleBinding, At, AfterStart, Jobs
    <3> QED
      BY <1>1, <2>1, <3>1, BindStep
  <2> QED
    BY <1>2, <1>9, <2>1 DEF CreateRoleBinding
<1>10. CASE CommentCompleted
  BY <1>1, <1>3, <1>10, NextCallHere
     DEF CommentCompleted, At, StatesBefore, Reads, OnTicket, AfterStart, Calls
<1>11. CASE MoveCompleted
  BY <1>1, <1>2, <1>3, <1>11, NextCallHere
     DEF MoveCompleted, At, StatesBefore, Reads, OnTicket, AfterStart, Calls
<1>12. CASE UpdateSucceeded
  BY <1>1, <1>12, UpdateSucceededStep
<1>13. CASE CommentRejected
  BY <1>1, <1>3, <1>13, NextCallHere
     DEF CommentRejected, At, StatesBefore, Reads, OnTicket, AfterStart, Calls
<1>14. CASE MoveRejected
  BY <1>1, <1>2, <1>3, <1>14, NextCallHere
     DEF MoveRejected, At, StatesBefore, Reads, OnTicket, AfterStart, Calls
<1>15. CASE DeleteRequest
  BY <1>2, <1>15 DEF DeleteRequest, Done
<1>16. CASE ListNamespaces
  BY <1>1, <1>16, ListStep
<1>17. CASE MatchNamespace
  <2>1. CASE MatchFrom(job.next + 1)
    <3>1. job.call = "MatchNamespace"
      BY <1>17 DEF MatchNamespace, At
    <3>2. Request.state = "" /\ job.call \in OnTicket
      BY <1>3, <3>1 DEF StatesBefore, Reads, OnTicket
    <3>3. job.next + 1 \in Nat \ {0}
      BY <1>1, CopyInHand DEF Jobs
    <3> QED
      BY <1>1, <2>1, <3>2, <3>3, MatchStep
  <2>2. CASE Call("QuotePattern")
    BY <1>1, <1>3, <1>17, <2>2, NextCallHere
       DEF MatchNamespace, At, StatesBefore, OnTicket, AfterStart, Calls, Reads
  <2> QED
    BY <1>2, <1>17, <2>1, <2>2 DEF MatchNamespace, Retry
<1>18. CASE QuotePattern
  BY <1>1, <1>2, <1>3, <1>18, NextCallHere
     DEF QuotePattern, Retry, At, StatesBefore, OnTicket, AfterStart, Calls, Reads
<1> QED
  BY <1>4, <1>5, <1>6, <1>7, <1>8, <1>9, <1>10, <1>11, <1>12, <1>13, <1>14, <1>15, <1>16,
     <1>17, <1>18
     DEF Work

\* The version in the cache, where the handlers begin.
LEMMA CopyInCache ==
  ASSUME TypeOK, NEW n \in Names, Found(n)
  PROVE  Cached(n) \in Versions /\ seen[n] \in 1..Len(log[n]) /\ Cached(n) = log[n][seen[n]]
<1>1. log[n] \in Seq(Versions) /\ seen[n] \in Nat /\ seen[n] <= Len(log[n])
  BY DEF TypeOK
<1> QED
  BY <1>1 DEF Found, Cached

\* A reconcile waits for the first call of its handler, or is over.
LEMMA ReconcileBegins ==
  ASSUME TypeOK, TicketIsOwn, NEW n \in Names, Reconcile(n)
  PROVE  \/ job' = Idle
         \/ Found(n) /\ \E c, k : /\ job' = [call |-> c, name |-> n, rev |-> seen[n],
                                             issue |-> k, next |-> 1, conf |-> file]
                                  /\ Fits(c, n, seen[n], k, 1)
                                  /\ file \in 1..Len(Configs)
<1>1. /\ UNCHANGED <<log, tickets, now>>
      /\ file # 0 => file \in 1..Len(Configs)
  BY JitConfigAssumption DEF Reconcile, TypeOK
<1>2. Len(tickets) \in Nat /\ tickets \in Seq(TicketRecords)
  BY DEF TypeOK
<1> DEFINE v == log[n][seen[n]]
<1>3. ASSUME Found(n)
      PROVE  /\ Cached(n) = v /\ v \in Versions /\ seen[n] \in 1..Len(log[n])
             /\ v.ticket # 0 \/ v.state = "Pre-Approved" =>
                  v.ticket \in 1..Len(tickets) /\ tickets[v.ticket].owner = <<n, v.uid>>
  <2>1. Cached(n) = v /\ v \in Versions /\ seen[n] \in 1..Len(log[n])
    BY <1>3, CopyInCache
  <2>2. seen[n] \in DOMAIN log[n]
    BY <2>1 DEF TypeOK
  <2> QED
    BY <1>2, <2>1, <2>2 DEF TicketIsOwn, FiledFor
<1>4. ASSUME Found(n), NEW c \in Calls, Begin(n, c, v.ticket), v.state \in StatesBefore(c),
             c \in OnTicket => v.ticket # 0 \/ v.state = "Pre-Approved",
             c \in AfterStart => v.startTime <= now,
             c \notin {"MatchNamespace", "CreateRoleBinding", "UpdateSkipped"}
      PROVE  /\ job' = [call |-> c, name |-> n, rev |-> seen[n], issue |-> v.ticket, next |-> 1,
                         conf |-> file]
             /\ Fits(c, n, seen[n], v.ticket, 1)
  <2>1. v.ticket \in 0..Len(tickets)
    BY <1>2, <1>3, <1>4 DEF Versions
  <2>2. c \in OnTicket => v.ticket # 0 /\ tickets[v.ticket].owner = <<n, v.uid>>
    BY <1>2, <1>3, <1>4
  <2>3. log'[n][seen[n]] = v /\ seen[n] \in 1..Len(log'[n]) /\ v.state \in StatesBefore(c)
    BY <1>1, <1>3, <1>4
  <2> HIDE DEF v
  <2>4. Fits(c, n, seen[n], v.ticket, 1)
    BY <1>1, <1>4, <2>1, <2>2, <2>3 DEF Fits
  <2> QED
    BY <1>4, <2>4 DEF Begin
<1>5. CASE handleFetchError(n) \/ ReadConfigFromFile(n)
  BY <1>5 DEF handleFetchError, ReadConfigFromFile, Done, Retry
<1>6. CASE Found(n) /\ file # 0 /\ handleRejected(n)
  BY <1>1, <1>3, <1>4, <1>6
     DEF handleRejected, StatesBefore, Reads, OnTicket, AfterStart, Calls, Skipped
<1>7. CASE Found(n) /\ file # 0 /\ handleNewRequest(n)
  <2>1. PICK w \in FileVersions :
          Begin(n, IF FieldsGiven(Cached(n).spec, w) THEN "FindReporter" ELSE "UpdateSkipped",
                Skipped)
    BY <1>7 DEF handleNewRequest
  <2> DEFINE c == IF FieldsGiven(Cached(n).spec, w) THEN "FindReporter" ELSE "UpdateSkipped"
  <2>2. /\ job' = [call |-> c, name |-> n, rev |-> seen[n], issue |-> 0, next |-> 1,
                    conf |-> file]
        /\ v.state = ""
    BY <1>3, <1>7, <2>1 DEF handleNewRequest, Begin, Skipped
  <2>3. c \in Calls /\ "" \in StatesBefore(c) /\ c \notin OnTicket \union AfterStart
    BY DEF Calls, StatesBefore, Reads, OnTicket, AfterStart
  <2>4. c \notin {"MatchNamespace", "CreateRoleBinding"}
    OBVIOUS
  <2> HIDE DEF c
  <2>5. log' = log /\ tickets' = tickets
    BY <1>1
  <2>6. seen[n] \in 1..Len(log'[n]) /\ log'[n][seen[n]].state = ""
    BY <1>3, <1>7, <2>2, <2>5
  <2>7. 0 \in 0..Len(tickets')
    BY <1>2, <2>5
  <2>8. c \notin OnTicket /\ c \notin AfterStart
    BY <2>3
  <2>9. Fits(c, n, seen[n], 0, 1)
    <3>1. log'[n][seen[n]].state \in StatesBefore(c)
      BY <2>3, <2>6
    <3>2. c \in Calls
      BY <2>3
    <3>3. 1 \in Nat \ {0}
      OBVIOUS
    <3>4. c = "UpdateSkipped" => 0 = Skipped
      BY DEF Skipped
    <3>5. seen[n] \in 1..Len(log'[n])
      BY <2>6
    <3> QED
      BY <2>4, <2>8, <2>7, <3>1, <3>2, <3>4, <3>5, <3>3 DEF Fits
  <2> QED
    BY <1>1, <1>7, <2>2, <2>9
<1>8. CASE Found(n) /\ file # 0 /\ handlePreApproved(n)
  <2>1. CASE job' = Idle
    BY <2>1
  <2>2. CASE Cached(n).startTime <= now /\ Begin(n, "GetIssue", Cached(n).ticket)
    BY <1>1, <1>3, <1>4, <1>8, <2>2
       DEF handlePreApproved, StatesBefore, Reads, OnTicket, AfterStart, Calls
  <2>3. Found(n) => Cached(n).startTime \in Nat /\ now \in Nat
    BY <1>3 DEF Versions, TypeOK
  <2> QED
    BY <1>8, <2>1, <2>2, <2>3 DEF handlePreApproved, RequeueAt
<1>9. CASE Found(n) /\ file # 0 /\ handleCleanup(n)
  <2>1. CASE job' = Idle
    BY <2>1
  <2>2. CASE Begin(n, "DeleteExpired", Cached(n).ticket)
    BY <1>1, <1>3, <1>4, <1>9, <2>2
       DEF handleCleanup, StatesBefore, Reads, OnTicket, AfterStart, Calls
  <2> QED
    BY <1>9, <2>1, <2>2 DEF handleCleanup, RequeueAt
<1> QED
  BY <1>5, <1>6, <1>7, <1>8, <1>9 DEF Reconcile

\* The worker's part of the type, and what it knows, are kept by every step.
LEMMA JobStep ==
  ASSUME TypeOK, TicketIsOwn, WorkerKnows, [Next]_vars
  PROVE  JobOK'
<1>1. Footprint /\ now' \in Nat /\ now <= now'
  BY StepFootprint, TimeStep
<1>2. log' \in [Names -> Seq(Versions)] /\ tickets' \in Seq(TicketRecords)
  BY <1>1, FootprintGrows
<1>3. CASE Work
  BY <1>1, <1>3, WorkStep
<1>4. CASE CallFails \/ AnswerLost
  BY <1>1, <1>4, ErrorStep DEF CallFails, AnswerLost, Refused, FaultyCall
<1>5. ASSUME NEW n \in Names, Reconcile(n)  PROVE JobOK'
  BY <1>2, <1>5, ReconcileBegins, JobFits, IdleFits
<1>6. CASE Restart
  BY <1>6, IdleFits DEF Restart
<1>7. CASE UNCHANGED job
  BY <1>1, <1>7, JobStays
<1>8. CASE \/ ConfigChanges \/ CollectGarbage \/ Tick \/ UNCHANGED vars
           \/ \E n \in Names : \/ Deliver(n) \/ Relist(n) \/ WakeUp(n) \/ WithdrawRequest(n)
                               \/ \E s \in Specs : CreateRequest(n, s) \/ EditRequest(n, s)
           \/ \E k \in DOMAIN tickets : ApproveTicket(k) \/ VetoTicket(k)
  BY <1>7, <1>8
     DEF ConfigChanges, ConfigPublished, ConfigCompiled, ConfigSaved, ConfigLost,
         CollectGarbage, Tick, Deliver, Relist, TakeOver, WakeUp,
         WithdrawRequest, CreateRequest, EditRequest, ApproveTicket, VetoTicket, vars
<1> QED
  BY <1>3, <1>4, <1>5, <1>6, <1>8 DEF Next, Operator

-----------------------------------------------------------------------------
(* The rest of the types.                                                    *)

\* The cache never gets ahead of the log.
LEMMA SeenStep ==
  ASSUME TypeOK, TicketIsOwn, WorkerKnows, [Next]_vars
  PROVE  seen' \in [Names -> Nat] /\ \A n \in Names : seen'[n] <= Len(log'[n])
<1>1. /\ log \in [Names -> Seq(Versions)] /\ log' \in [Names -> Seq(Versions)]
      /\ \A n \in Names : Len(log[n]) <= Len(log'[n])
  BY StepFootprint, FootprintGrows DEF TypeOK, Grows
<1>2. /\ \A n \in Names : Len(log[n]) \in Nat /\ Len(log'[n]) \in Nat
      /\ seen \in [Names -> Nat] /\ \A n \in Names : seen[n] <= Len(log[n])
  BY <1>1 DEF TypeOK
<1>3. CASE UNCHANGED seen
  BY <1>1, <1>2, <1>3
<1>4. CASE Restart
  BY <1>2, <1>4 DEF Restart
<1>5. ASSUME NEW n \in Names, Deliver(n) \/ Relist(n)
      PROVE  \E i \in 0..Len(log[n]) : seen' = [seen EXCEPT ![n] = i] /\ UNCHANGED log
  BY <1>2, <1>5 DEF Deliver, Relist, TakeOver
<1>6. CASE \E n \in Names : Deliver(n) \/ Relist(n)
  BY <1>2, <1>5, <1>6
<1> QED
  BY <1>3, <1>4, <1>6
     DEF Next, Operator, Work, Reconcile, CallFails, AnswerLost, ConfigChanges,
         ConfigPublished, ConfigCompiled, ConfigSaved, ConfigLost,
         CollectGarbage, Tick, WakeUp, WithdrawRequest, CreateRequest, EditRequest,
         ApproveTicket, VetoTicket, apiVars, vars

\* The work queue holds names only.
LEMMA QueueStep ==
  ASSUME TypeOK, [Next]_vars
  PROVE  queue' \subseteq Names
<1>1. CASE UNCHANGED queue
  BY <1>1 DEF TypeOK
<1>2. CASE \E n \in Names : Reconcile(n) \/ Deliver(n) \/ Relist(n) \/ WakeUp(n)
  BY <1>2 DEF TypeOK, Reconcile, Deliver, Relist, TakeOver, WakeUp
<1>3. CASE Restart
  BY <1>3 DEF Restart
<1> QED
  BY <1>1, <1>2, <1>3
     DEF Next, Operator, Work, CallFails, AnswerLost, ConfigChanges, ConfigPublished,
         ConfigCompiled, ConfigSaved, ConfigLost, CollectGarbage, Tick,
         WithdrawRequest, CreateRequest, EditRequest, ApproveTicket, VetoTicket, queueVars,
         vars

\* What a return does to the delaying queue.
LEMMA WakeTyped ==
  ASSUME TypeOK, NEW n \in Names
  PROVE  /\ Done => wake' \in [Names -> Nat]
         /\ Retry(n) => wake' \in [Names -> Nat]
         /\ \A t \in Nat : RequeueAt(n, t) => wake' \in [Names -> Nat]
BY DEF TypeOK, Done, Retry, RequeueAt, Sooner

\* The delaying queue holds a time for each name.
LEMMA WakeStep ==
  ASSUME TypeOK, [Next]_vars
  PROVE  wake' \in [Names -> Nat]
<1>1. CASE UNCHANGED wake
  BY <1>1 DEF TypeOK
<1>2. CASE Work \/ CallFails \/ AnswerLost
  <2>1. job # Idle
    BY <1>2 DEF Work, CallFails, AnswerLost, FaultyCall
  <2>2. job.name \in Names /\ Request.spec.startTime \in Nat /\ Request.spec.endTime \in Nat
    BY <2>1, CopyInHand DEF Jobs, SpecType
  <2>3. CASE Done \/ Retry(job.name) \/ OnError \/ Refused
    BY <1>1, <2>2, <2>3, WakeTyped DEF OnError, Refused, Call
  <2>4. CASE RequeueAt(job.name, Request.spec.startTime)
              \/ RequeueAt(job.name, Request.spec.endTime)
    BY <2>2, <2>4, WakeTyped
  <2> QED
    BY <1>1, <1>2, <2>3, <2>4
       DEF Work, CallFails, AnswerLost, FindReporter, CreateIssue, ListNamespaces,
           MatchNamespace, QuotePattern, CommentPreApproved, UpdatePreApproved, UpdateRejected,
           UpdateSkipped, GetIssue, CreateRoleBinding, CommentCompleted, MoveCompleted,
           UpdateSucceeded, CommentRejected, MoveRejected, DeleteRequest, BindFrom, MatchFrom,
           Call
<1>3. ASSUME NEW n \in Names, Reconcile(n)  PROVE wake' \in [Names -> Nat]
  <2>1. Found(n) => Cached(n).startTime \in Nat /\ Cached(n).endTime \in Nat
    BY CopyInCache DEF Versions
  <2>2. CASE handleFetchError(n) \/ ReadConfigFromFile(n)
    BY <2>2, WakeTyped DEF handleFetchError, ReadConfigFromFile
  <2>3. CASE Found(n) /\ (handleRejected(n) \/ handleNewRequest(n))
    BY <1>1, <2>3 DEF handleRejected, handleNewRequest, Begin
  <2>4. CASE Found(n) /\ (handlePreApproved(n) \/ handleCleanup(n))
    BY <1>1, <2>1, <2>4, WakeTyped DEF handlePreApproved, handleCleanup, Begin
  <2> QED
    BY <1>3, <2>2, <2>3, <2>4 DEF Reconcile
<1>4. CASE Restart
  <2>1. Never \in Nat
    BY ControllerAssumption DEF Never
  <2> QED
    BY <1>4, <2>1 DEF Restart
<1>5. CASE \E n \in Names : WakeUp(n)
  <2>1. Never \in Nat
    BY ControllerAssumption DEF Never
  <2> QED
    BY <1>5, <2>1 DEF TypeOK, WakeUp
<1> QED
  BY <1>1, <1>2, <1>3, <1>4, <1>5
     DEF Next, Operator, ConfigChanges, ConfigPublished, ConfigCompiled, ConfigSaved,
         ConfigLost, CollectGarbage, Tick, Deliver, Relist, TakeOver,
         WithdrawRequest, CreateRequest, EditRequest, ApproveTicket, VetoTicket, queueVars,
         vars

\* The budget of failures stays a natural number.
LEMMA TroubleStep ==
  ASSUME TypeOK, [Next]_vars
  PROVE  trouble' \in Nat
<1>1. CASE UNCHANGED trouble
  BY <1>1 DEF TypeOK
<1>2. CASE Trouble
  BY <1>2 DEF TypeOK, Trouble
<1> QED
  BY <1>1, <1>2
     DEF Next, Operator, Work, Reconcile, CallFails, AnswerLost, FaultyCall, Restart,
         ConfigChanges, ConfigPublished, ConfigCompiled, ConfigSaved, ConfigLost,
         CollectGarbage, Tick, Deliver, Relist, WakeUp, WithdrawRequest,
         CreateRequest, EditRequest, ApproveTicket, VetoTicket, vars

\* File and pattern are of versions that were published.
LEMMA ConfigStep ==
  ASSUME TypeOK, [Next]_vars
  PROVE  config' \in 1..Len(Configs) /\ file' \in 0..config' /\ pattern' \in 0..config'
<1> USE JitConfigAssumption
<1>1. CASE UNCHANGED configVars
  BY <1>1 DEF TypeOK, configVars
<1>2. CASE StartAgain \/ Publish \/ Compile \/ Save \/ Lose
  BY <1>2 DEF TypeOK, StartAgain, Publish, Compile, Save, Lose, Published
<1> QED
  BY <1>1, <1>2
     DEF Next, Operator, Work, Reconcile, CallFails, AnswerLost, Restart, ConfigChanges,
         ConfigPublished, ConfigCompiled, ConfigSaved, ConfigLost, CollectGarbage, Tick,
         Deliver, Relist, TakeOver, WakeUp, WithdrawRequest, CreateRequest, EditRequest,
         ApproveTicket, VetoTicket, configVars, vars

\* TypeOK is kept, given what the other lemmas say of each variable.
LEMMA TypeStep ==
  ASSUME TypeOK, TicketIsOwn, WorkerKnows, [Next]_vars
  PROVE  TypeOK'
<1>1. log' \in [Names -> Seq(Versions)] /\ tickets' \in Seq(TicketRecords)
  BY StepFootprint, FootprintGrows
<1>2. bindings' \subseteq Bindings
  BY BindingsStep, BindingAdded DEF TypeOK
<1>3. JobTypeOK'
  BY JobStep DEF JobOK
<1> QED
  BY <1>1, <1>2, <1>3, SeenStep, TimeStep, TroubleStep, QueueStep, WakeStep, ConfigStep
     DEF TypeOK

-----------------------------------------------------------------------------
(* The theorems.                                                             *)

\* The invariant holds at the start: nothing is written, filed or granted.
LEMMA InductiveInit ==
  ASSUME Init  PROVE Inductive
<1>1. Never \in Nat /\ MaxTrouble \in Nat
  BY ControllerAssumption DEF Never
<1>2. \A n \in Names : log[n] = <<>> /\ seen[n] = 0
  BY DEF Init, ApiInit
<1>3. TypeOK
  <2>1. log \in [Names -> Seq(Versions)] /\ tickets \in Seq(TicketRecords)
    BY DEF Init, ApiInit, JiraInit
  <2>2. seen \in [Names -> Nat] /\ \A n \in Names : seen[n] <= Len(log[n])
    BY <1>2 DEF Init, ApiInit
  <2>3. JobTypeOK
    BY DEF Init, JobTypeOK, At, Idle
  <2>4. now \in Nat /\ trouble \in Nat /\ wake \in [Names -> Nat]
    BY <1>1 DEF Init
  <2>5. config \in 1..Len(Configs) /\ file \in 0..config /\ pattern \in 0..config
    BY JitConfigAssumption DEF Init, JitConfigInit
  <2> QED
    BY <2>1, <2>2, <2>3, <2>4, <2>5 DEF Init, ApiInit, TypeOK
<1>4. TicketIsOwn
  BY <1>2 DEF TicketIsOwn
<1>5. WorkerKnows /\ GrantNeedsApproval /\ GrantNotBeforeStart
  BY DEF Init, ApiInit, WorkerKnows, GrantNeedsApproval, GrantNotBeforeStart
<1> QED
  BY <1>3, <1>4, <1>5 DEF Inductive

\* The invariant is kept by every step.
LEMMA InductiveStep ==
  ASSUME Inductive, [Next]_vars  PROVE Inductive'
<1>1. Footprint
  BY StepFootprint DEF Inductive
<1>2. TypeOK'
  BY TypeStep DEF Inductive
<1>3. TicketIsOwn'
  BY <1>1, TicketIsOwnStep DEF Inductive
<1>4. WorkerKnows'
  BY JobStep DEF Inductive, JobOK
<1>5. GrantNeedsApproval'
  BY <1>1, GrantNeedsApprovalStep DEF Inductive
<1>6. GrantNotBeforeStart'
  BY <1>1, GrantNotBeforeStartStep DEF Inductive
<1> QED
  BY <1>2, <1>3, <1>4, <1>5, <1>6 DEF Inductive

\* What the worker knows, and all that follows from it, holds in every state: the argument
\* by which the handlers of jitrequest_controller.go may act on what they read earlier.
THEOREM InductiveInvariant == Spec => []Inductive
BY InductiveInit, InductiveStep, PTL DEF Spec

\* Type correctness, for any sets of names, namespaces, roles and specs.
THEOREM TypeCorrect == Spec => []TypeOK
BY InductiveInvariant, PTL DEF Inductive

\* No access without the approval of a ticket filed for that very incarnation, whichever
\* calls fail and whoever acts in between (handlePreApproved, createRoleBinding).
THEOREM ApprovalComesFirst == Spec => []GrantNeedsApproval
BY InductiveInvariant, PTL DEF Inductive

\* No access before the announced start time (handlePreApproved, line 73).
THEOREM StartComesFirst == Spec => []GrantNotBeforeStart
BY InductiveInvariant, PTL DEF Inductive

\* No request ever names another incarnation's ticket (createJiraTicket, updateStatus).
THEOREM TicketsAreOwn == Spec => []TicketIsOwn
BY InductiveInvariant, PTL DEF Inductive

\* What the worker found out before a call still holds when it makes the call.
THEOREM KnowledgeLasts == Spec => []WorkerKnows
BY InductiveInvariant, PTL DEF Inductive

-----------------------------------------------------------------------------
(* What no step does.                                                        *)

\* A status update is made from the last version there is.
LEMMA UpdateFromLatest ==
  ASSUME TypeOK, WorkerKnows, WorkerWrites
  PROVE  /\ Latest(job.name) = Request /\ Live(job.name)
         /\ Request.state \in StatesBefore(job.call)
<1>1. job # Idle /\ job.call \in Updates /\ UpToDate
  BY DEF WorkerWrites, updateStatus
<1>2. job.name \in Names /\ job.rev \in 1..Len(log[job.name])
  BY <1>1, CopyInHand DEF Jobs
<1>3. Latest(job.name) = Request
  BY <1>1 DEF Latest, Request, UpToDate
<1>4. Request.state \in StatesBefore(job.call)
  BY <1>1 DEF WorkerKnows
<1>5. Request.state # "Deleted"
  BY <1>1, <1>4 DEF StatesBefore, Updates
<1>6. log[job.name] # <<>>
  BY <1>2
<1> QED
  BY <1>3, <1>4, <1>5, <1>6 DEF Live

\* A write changes the last version of one name.
LEMMA WriteLatest ==
  ASSUME TypeOK, NEW n \in Names, NEW v \in Versions, Write(n, v)
  PROVE  Latest(n)' = v /\ \A m \in Names : m # n => log'[m] = log[m]
<1>1. log \in [Names -> Seq(Versions)]
  BY DEF TypeOK
<1>2. Len(log'[n]) = Len(log[n]) + 1 /\ log'[n][Len(log[n]) + 1] = v
  BY <1>1, WriteAppends
<1>3. \A m \in Names : m # n => log'[m] = log[m]
  BY <1>1 DEF Write
<1> QED
  BY <1>2, <1>3 DEF Latest

\* The version a status update writes.
LEMMA UpdateWrites ==
  ASSUME TypeOK, WorkerKnows, WorkerWrites
  PROVE  \E v \in Versions : /\ Write(job.name, v) /\ v.uid = Request.uid
                             /\ v.state = StateAfter(job.call)
<1> DEFINE v == [Request EXCEPT !.state = StateAfter(job.call), !.ticket = job.issue,
                                !.startTime = Request.spec.startTime,
                                !.endTime = Request.spec.endTime]
<1>1. job \in Jobs /\ Request \in Versions /\ Request.spec \in SpecType
  BY CopyInHand DEF WorkerWrites
<1>2. v \in Versions /\ v.uid = Request.uid /\ v.state = StateAfter(job.call)
  BY <1>1 DEF Versions, SpecType, Jobs, StateAfter, States
<1>3. Write(job.name, v)
  BY DEF WorkerWrites, updateStatus
<1> HIDE DEF v
<1> QED
  BY <1>2, <1>3

\* No step takes back a decision.
LEMMA DecisionsStep ==
  ASSUME TypeOK, WorkerKnows, [Next]_vars, NEW n \in Names, log'[n] # log[n], Live(n)
  PROVE  LET old == Latest(n).state
             new == Latest(n)'.state
         IN \/ new \in {old, "Deleted"}
            \/ old = "" /\ new \in {"Pre-Approved", "Rejected"}
            \/ old = "Pre-Approved" /\ new \in {"Succeeded", "Rejected"}
<1>1. log[n] \in Seq(Versions) /\ log[n] # <<>>
  BY DEF TypeOK, Live
<1>2. Latest(n) \in Versions
  BY <1>1 DEF Latest
<1>3. CASE UserWrites
  <2>1. PICK m \in Names : Delete(m) \/ \E s \in Specs : Create(m, s) \/ EditLatest(m, s)
    BY <1>3 DEF UserWrites
  <2>2. log' = [log EXCEPT ![m] = log'[m]]
    BY <2>1 DEF Delete, Create, EditLatest, Write, TypeOK
  <2>3. n = m
    BY <2>2 DEF TypeOK
  <2>4. CASE Delete(n)
    <3>1. [Latest(n) EXCEPT !.state = "Deleted"] \in Versions
      BY <1>2 DEF Versions, States
    <3>2. Latest(n)' = [Latest(n) EXCEPT !.state = "Deleted"]
      BY <2>4, <3>1, WriteLatest DEF Delete
    <3> QED
      BY <1>2, <3>2 DEF Versions
  <2>5. ASSUME NEW s \in Specs, EditLatest(n, s)  PROVE Latest(n)'.state = Latest(n).state
    <3>1. [Latest(n) EXCEPT !.spec = s] \in Versions
      BY <1>2 DEF Versions
    <3>2. Latest(n)' = [Latest(n) EXCEPT !.spec = s]
      BY <2>5, <3>1, WriteLatest DEF EditLatest
    <3> QED
      BY <1>2, <3>2 DEF Versions
  <2> QED
    BY <2>1, <2>3, <2>4, <2>5 DEF Create
<1>4. CASE WorkerWrites
  <2>1. PICK v \in Versions : Write(job.name, v) /\ v.state = StateAfter(job.call)
    BY <1>4, UpdateWrites
  <2>2. job.name \in Names /\ job.call \in Updates
    BY <1>4, CopyInHand DEF WorkerWrites, Jobs
  <2>3. n = job.name /\ Latest(n)' = v
    BY <2>1, <2>2, WriteLatest
  <2>4. Latest(n).state \in StatesBefore(job.call)
    BY <1>4, <2>3, UpdateFromLatest
  <2> QED
    BY <2>1, <2>2, <2>3, <2>4 DEF StatesBefore, Reads, StateAfter, Updates
<1> QED
  BY <1>3, <1>4, StepEffect DEF Effect, TicketChanges, BindingAdds, BindingGoes, TimePasses

\* No decision is undone, although the worker writes from a copy that may be old by then:
\* what it writes to is the very version it read (updateStatus, RetryOnConflict).
THEOREM DecisionsAreFinal == Spec => DecisionsStand
<1>1. TypeOK /\ WorkerKnows /\ [Next]_vars =>
        [\A n \in Names :
           log'[n] # log[n] /\ Live(n) =>
             LET old == Latest(n).state
                 new == Latest(n)'.state
             IN \/ new \in {old, "Deleted"}
                \/ old = "" /\ new \in {"Pre-Approved", "Rejected"}
                \/ old = "Pre-Approved" /\ new \in {"Succeeded", "Rejected"}]_vars
  BY DecisionsStep
<1> QED
  BY <1>1, TypeCorrect, KnowledgeLasts, PTL DEF Spec, DecisionsStand
=============================================================================
