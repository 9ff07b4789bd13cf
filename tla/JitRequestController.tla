------------------------ MODULE JitRequestController ------------------------
(***************************************************************************)
(* The JitRequest controller: its queue, its single worker and every call  *)
(* the worker makes, between the Kubernetes API (JitApi), the Jira project *)
(* (JiraWorkflow) and the users of both.                                   *)
(*                                                                         *)
(* A reconcile is cut at its calls: one action takes a name from the queue *)
(* and runs to the first call, and one action per call carries out what    *)
(* the server does and runs on to the next call or to the return.          *)
(* Everything else happens between two such steps: time, users, the        *)
(* informer, the garbage collector, a restart.  Of the configuration it    *)
(* takes what JitConfig promises and OperatorConfig is shown to keep; of   *)
(* the webhook, whose reviews AdmissionReview cuts into steps, the verdict.*)
(***************************************************************************)
EXTENDS JitApi, JiraWorkflow, JitConfig

CONSTANTS
  LabelledNamespaces,  \* namespaces that carry the labels a request asks for
  Webhooks,            \* ENABLE_WEBHOOKS
  SlowCalls,           \* TRUE: the clock may advance while a call is under way
  LaggingCache,        \* TRUE: a reconcile may read a version older than the last
  Faulty,              \* the calls that may fail
  Disturbances,        \* what else may happen: see each action's first conjunct
  MaxTrouble,          \* bound of the model: faults and disturbances in a behaviour
  Horizon              \* bound of the model: the last instant

ASSUME ControllerAssumption ==
  /\ {Webhooks, SlowCalls, LaggingCache} \subseteq BOOLEAN
  /\ MaxTrouble \in Nat /\ Horizon \in Nat
  /\ \A s \in Specs : s.startTime <= Horizon /\ s.endTime <= Horizon

VARIABLES
  now,      \* the clock
  queue,    \* the names in the work queue, which keeps no duplicates
  wake,     \* wake[n]: when the delaying queue adds n to the queue, Never if it holds none
  job,      \* what the worker is doing
  trouble   \* faults and disturbances left

apiVars    == <<log, seen, bindings>>
queueVars  == <<queue, wake>>
configVars == <<config, file, pattern>>
vars == <<log, seen, bindings, tickets, now, queue, wake, job, config, file, pattern,
          trouble>>

Never == Horizon + 1

\* status.jiraTicket of a request without a ticket: "" while it is new, "Skipped" once
\* it is rejected; only a rejected request's is read, so one value stands for both.
Skipped == 0

\* The calls a reconcile waits for.
Calls == {"FindReporter", "CreateIssue", "ListNamespaces", "CommentPreApproved",
          "UpdatePreApproved", "UpdateRejected", "UpdateSkipped", "GetIssue",
          "CreateRoleBinding", "CommentCompleted", "MoveCompleted", "UpdateSucceeded",
          "CommentRejected", "MoveRejected", "DeleteRejected", "DeleteExpired"}

ASSUME FaultyAssumption == Faulty \subseteq Calls

\* The reads of the global pattern, which no lock protects: the other steps it is cut at.
Reads == {"MatchNamespace", "QuotePattern"}

Idle == [call |-> "None"]

\* A reconcile under way: its copy of request name is log[name][rev]; issue is the
\* ticket it works on, next the place in spec.namespaces a loop is at, conf the version
\* of the configuration whose roles it has read.
Jobs == [call : Calls \union Reads, name : Names, rev : Nat \ {0}, issue : Nat,
         next : Nat \ {0}, conf : 1..Len(Configs)]

At(c) == job.call = c

Request == log[job.name][job.rev]

Owner == <<job.name, Request.uid>>

-----------------------------------------------------------------------------
(* What a reconcile's return does to the queue (controller-runtime).         *)

Sooner(t1, t2) == IF t1 <= t2 THEN t1 ELSE t2

\* return ctrl.Result{}, nil
Done == job' = Idle /\ UNCHANGED wake

\* return ctrl.Result{}, err: the name comes back after a back-off of some length.
Retry(n) == job' = Idle /\ wake' = [wake EXCEPT ![n] = Sooner(@, now)]

\* return ctrl.Result{RequeueAfter: time.Until(t)}, nil: a delay that is not positive
\* means no requeue at all; the delaying queue keeps the sooner of two entries.
RequeueAt(n, t) ==
  /\ job' = Idle
  /\ wake' = IF t > now THEN [wake EXCEPT ![n] = Sooner(@, t)] ELSE wake

Call(c) == job' = [job EXCEPT !.call = c] /\ UNCHANGED wake

-----------------------------------------------------------------------------
(* Validation.                                                               *)

RoleAllowed(s, v) == s.role \in Configs[v].roles

FieldsGiven(s, v) == Configs[v].fields \subseteq s.fields

\* The file's roles are of version file; its other fields may be of a later one.
FileVersions == file..config

\* Slip: one namespace with the labels is enough.
LabelsMatchSome(s) ==
  s.labelled => \E i \in DOMAIN s.namespaces : s.namespaces[i] \in LabelledNamespaces

\* ValidateNamespaceLabels
LabelsMatch(s) ==
  s.labelled => \A i \in DOMAIN s.namespaces : s.namespaces[i] \in LabelledNamespaces

Matches(ns, v) == ns \in Configs[v].matches

\* ValidateNamespaceRegex: without a compiled expression every name passes.
RegexMatches(s) ==
  pattern # 0 => \A i \in DOMAIN s.namespaces : Matches(s.namespaces[i], pattern)

\* validateJitRequestSpec, which the API server calls when a request is created or
\* updated (the status subresource excepted); it errs when the configuration is missing.
\* AdmissionReview cuts it into steps.
Admitted(s) ==
  Webhooks => /\ file # 0
              /\ RoleAllowed(s, file) /\ RegexMatches(s) /\ LabelsMatch(s)
              /\ s.startTime > now /\ s.endTime > s.startTime
              /\ s.known /\ \E v \in FileVersions : FieldsGiven(s, v)

-----------------------------------------------------------------------------
(* Reconcile: fetch the request from the cache, read the configuration and   *)
(* run the handler of its state up to the first call.                        *)

Cached(n) == log[n][seen[n]]

Found(n) == seen[n] > 0 /\ Cached(n).state # "Deleted"

Begin(n, c, ticket) ==
  /\ job' = [call |-> c, name |-> n, rev |-> seen[n], issue |-> ticket, next |-> 1,
             conf |-> file]
  /\ UNCHANGED wake

deleteOwnedObjects(n, namespaces) ==
  bindings' = {b \in bindings : ~(b.name = n /\ b.namespace \in namespaces)}

\* What is handed on is the empty request a failed Get leaves: its spec names no namespace.
handleFetchError(n) == ~Found(n) /\ deleteOwnedObjects(n, {}) /\ Done

ReadConfigFromFile(n) == Found(n) /\ file = 0 /\ Retry(n)

handleRejected(n) ==
  /\ Cached(n).state = "Rejected"
  /\ Begin(n, IF Cached(n).ticket = Skipped THEN "DeleteRejected" ELSE "CommentRejected",
           Cached(n).ticket)

handleNewRequest(n) ==
  /\ Cached(n).state = ""
  /\ \E v \in FileVersions :
       Begin(n, IF FieldsGiven(Cached(n).spec, v) THEN "FindReporter" ELSE "UpdateSkipped",
             Skipped)

\* Slip: the ticket is looked at before the start.
handlePreApprovedAtOnce(n) ==
  Cached(n).state = "Pre-Approved" /\ Begin(n, "GetIssue", Cached(n).ticket)

handlePreApproved(n) ==
  /\ Cached(n).state = "Pre-Approved"
  /\ IF Cached(n).startTime > now
     THEN RequeueAt(n, Cached(n).startTime)
     ELSE Begin(n, "GetIssue", Cached(n).ticket)

\* Slip: the start time is taken for the end time.
handleCleanupFromStart(n) ==
  /\ Cached(n).state = "Succeeded"
  /\ IF Cached(n).startTime > now
     THEN RequeueAt(n, Cached(n).startTime)
     ELSE Begin(n, "DeleteExpired", Cached(n).ticket)

\* Slip: a request that is not over is not queued again.
handleCleanupOnce(n) ==
  /\ Cached(n).state = "Succeeded"
  /\ IF Cached(n).endTime > now
     THEN Done
     ELSE Begin(n, "DeleteExpired", Cached(n).ticket)

handleCleanup(n) ==
  /\ Cached(n).state = "Succeeded"
  /\ IF Cached(n).endTime > now
     THEN RequeueAt(n, Cached(n).endTime)
     ELSE Begin(n, "DeleteExpired", Cached(n).ticket)

Reconcile(n) ==
  /\ job = Idle /\ n \in queue
  /\ LaggingCache \/ seen[n] = Len(log[n])
  /\ queue' = queue \ {n}
  /\ \/ handleFetchError(n)
     \/ ReadConfigFromFile(n) /\ UNCHANGED bindings
     \/ /\ Found(n) /\ file # 0
        /\ \/ handleRejected(n) \/ handleNewRequest(n)
           \/ handlePreApproved(n) \/ handleCleanup(n)
        /\ UNCHANGED bindings
  /\ UNCHANGED <<log, seen, tickets, now, configVars, trouble>>

-----------------------------------------------------------------------------
(* What the calls do at the server that answers them.                        *)

NoEffect == UNCHANGED <<log, bindings, tickets>>

\* Slip: an error of Issue.Create is overlooked.
FileIssueUnchecked == (FileTicket(Owner) /\ UNCHANGED <<log, bindings>>) \/ NoEffect

FileIssue == FileTicket(Owner) /\ UNCHANGED <<log, bindings>>

MoveIssue(action) == Move(job.issue, action) /\ UNCHANGED <<log, bindings>>

\* Slip: the last writer wins.
AnyVersion == Live(job.name)

UpToDate == job.rev = Len(log[job.name])

\* The update carries the resourceVersion that was read, and RetryOnConflict sends the
\* same object again: once the version is old every attempt conflicts.
updateStatus(state) ==
  /\ UpToDate
  /\ Write(job.name, [Request EXCEPT !.state = state, !.ticket = job.issue,
                                     !.startTime = Request.spec.startTime,
                                     !.endTime = Request.spec.endTime])
  /\ UNCHANGED <<bindings, tickets>>

CreateBinding ==
  /\ Bind(job.name, Request.spec.namespaces[job.next], Request.uid, Request.spec.role)
  /\ UNCHANGED <<log, tickets>>

deleteJitRequest == Delete(job.name) /\ UNCHANGED <<bindings, tickets>>

\* Slip: a RoleBinding that cannot be created rejects the request.
OnErrorReject ==
  CASE job.call \in {"ListNamespaces", "GetIssue", "CreateRoleBinding"} ->
         Call("UpdateRejected")
    [] At("UpdateSkipped") -> Done
    [] OTHER               -> Retry(job.name)

\* Slip: an error of rejectJiraTicket is overlooked.
OnErrorDelete ==
  CASE job.call \in {"ListNamespaces", "GetIssue"} -> Call("UpdateRejected")
    [] At("MoveRejected")  -> Call("DeleteRejected")
    [] At("UpdateSkipped") -> Done
    [] OTHER               -> Retry(job.name)

\* What the caller makes of an error: namespaces that cannot be listed count as without
\* the labels, a ticket that cannot be read as not approved, and a status of "Skipped"
\* that is not written is only logged.
OnError ==
  CASE job.call \in {"ListNamespaces", "GetIssue"} -> Call("UpdateRejected")
    [] At("UpdateSkipped") -> Done
    [] OTHER               -> Retry(job.name)

Refused == NoEffect /\ OnError

-----------------------------------------------------------------------------
(* The calls, each with what follows its answer.                             *)

\* createJiraTicket: GetNameByEmail
FindReporter ==
  /\ At("FindReporter") /\ NoEffect
  /\ IF Request.spec.known THEN Call("CreateIssue") ELSE OnError

\* Slip: the last ticket there was, not the one that was created.
LastIssue == Len(tickets)

\* createdIssue.Key
NewIssue == Len(tickets) + 1

\* preApproveRequest: the start is to come.
CallOfStart(s) == IF s.startTime > now THEN "CommentPreApproved" ELSE "UpdateRejected"

\* ValidateNamespaceRegex: is there an expression at all?
CallOfNames(s) ==
  IF pattern = 0 \/ s.namespaces = <<>> THEN CallOfStart(s) ELSE "MatchNamespace"

\* handleNewRequest has a ticket: it looks at the role, among those read before the ticket
\* was created, and at the labels unless the webhook did.
CallOfTicket(s) ==
  IF ~RoleAllowed(s, job.conf)       THEN "UpdateRejected"
  ELSE IF ~Webhooks /\ s.labelled THEN "ListNamespaces"
  ELSE CallOfNames(s)

\* createJiraTicket: Issue.Create
CreateIssue ==
  /\ At("CreateIssue") /\ FileIssue
  /\ job' = [job EXCEPT !.issue = NewIssue, !.next = 1, !.call = CallOfTicket(Request.spec)]
  /\ UNCHANGED wake

\* ValidateNamespaceLabels
ListNamespaces ==
  /\ At("ListNamespaces") /\ NoEffect
  /\ job' = [job EXCEPT !.next = 1,
                        !.call = IF LabelsMatch(Request.spec) THEN CallOfNames(Request.spec)
                                 ELSE "UpdateRejected"]
  /\ UNCHANGED wake

\* Slip: off by one at the last namespace.
MatchButLast(i) ==
  /\ job' = [job EXCEPT !.next = i,
                        !.call = IF i < Len(Request.spec.namespaces)
                                 THEN "MatchNamespace" ELSE CallOfStart(Request.spec)]
  /\ UNCHANGED wake

\* ValidateNamespaceRegex goes on with the i-th namespace, or is through.
MatchFrom(i) ==
  /\ job' = [job EXCEPT !.next = i,
                        !.call = IF i <= Len(Request.spec.namespaces)
                                 THEN "MatchNamespace" ELSE CallOfStart(Request.spec)]
  /\ UNCHANGED wake

\* The global is read again for each namespace; if it is nil by now, MatchString panics,
\* which the controller runtime makes an error of the reconcile.
MatchNamespace ==
  LET ns == Request.spec.namespaces[job.next]
  IN /\ At("MatchNamespace") /\ NoEffect
     /\ \/ pattern = 0 /\ Retry(job.name)
        \/ pattern # 0 /\ Matches(ns, pattern)  /\ MatchFrom(job.next + 1)
        \/ pattern # 0 /\ ~Matches(ns, pattern) /\ Call("QuotePattern")

\* The message of a mismatch quotes the expression: another read.
QuotePattern ==
  /\ At("QuotePattern") /\ NoEffect
  /\ \/ pattern = 0 /\ Retry(job.name)
     \/ pattern # 0 /\ Call("UpdateRejected")

\* preApproveRequest
CommentPreApproved ==
  At("CommentPreApproved") /\ NoEffect /\ Call("UpdatePreApproved")

\* Slip: the request is queued for its start and its status is not written.
UpdatePreApprovedUnstored ==
  At("UpdatePreApproved") /\ NoEffect /\ RequeueAt(job.name, Request.spec.startTime)

UpdatePreApproved ==
  /\ At("UpdatePreApproved")
  /\ \/ updateStatus("Pre-Approved") /\ RequeueAt(job.name, Request.spec.startTime)
     \/ ~UpToDate /\ Refused

\* rejectInvalidRole, rejectInvalidNamespace, preApproveRequest and handlePreApproved;
\* the Update event brings the request back.
UpdateRejected ==
  /\ At("UpdateRejected")
  /\ \/ updateStatus("Rejected") /\ Done
     \/ ~UpToDate /\ Refused

\* createJiraTicket: a custom field is missing
UpdateSkipped ==
  /\ At("UpdateSkipped")
  /\ \/ updateStatus("Rejected") /\ Done
     \/ ~UpToDate /\ Refused

\* Slip: off by one at the last namespace.
BindButLast(i) ==
  /\ job' = [job EXCEPT !.next = i,
                        !.call = IF i < Len(Request.spec.namespaces)
                                 THEN "CreateRoleBinding" ELSE "CommentCompleted"]
  /\ UNCHANGED wake

\* createRoleBinding goes on with the i-th namespace, or is through.
BindFrom(i) ==
  /\ job' = [job EXCEPT !.next = i,
                        !.call = IF i <= Len(Request.spec.namespaces)
                                 THEN "CreateRoleBinding" ELSE "CommentCompleted"]
  /\ UNCHANGED wake

\* Slip: whatever is not rejected counts as approved.
GetIssueUnlessRejected ==
  /\ At("GetIssue") /\ NoEffect
  /\ IF tickets[job.issue].status # "Rejected" THEN BindFrom(1) ELSE Call("UpdateRejected")

\* getJiraApproval
GetIssue ==
  /\ At("GetIssue") /\ NoEffect
  /\ IF tickets[job.issue].status = "Approved" THEN BindFrom(1) ELSE Call("UpdateRejected")

CreateRoleBinding ==
  /\ At("CreateRoleBinding")
  /\ \/ CreateBinding /\ BindFrom(job.next + 1)
     \/ Request.spec.namespaces[job.next] \notin ExistingNamespaces /\ Refused

\* completeJiraTicket
CommentCompleted == At("CommentCompleted") /\ NoEffect /\ Call("MoveCompleted")

MoveCompleted ==
  /\ At("MoveCompleted")
  /\ \/ MoveIssue("complete") /\ Call("UpdateSucceeded")
     \/ ~CanMove(job.issue, "complete") /\ Refused

\* handlePreApproved ends in handleCleanup.
UpdateSucceeded ==
  /\ At("UpdateSucceeded")
  /\ \/ /\ updateStatus("Succeeded")
        /\ IF Request.spec.endTime > now
           THEN RequeueAt(job.name, Request.spec.endTime)
           ELSE /\ job' = [job EXCEPT !.call = "DeleteExpired", !.rev = @ + 1]
                /\ UNCHANGED wake
     \/ ~UpToDate /\ Refused

\* rejectJiraTicket
CommentRejected == At("CommentRejected") /\ NoEffect /\ Call("MoveRejected")

MoveRejected ==
  /\ At("MoveRejected")
  /\ \/ MoveIssue("rejected") /\ Call("DeleteRejected")
     \/ ~CanMove(job.issue, "rejected") /\ Refused

\* handleRejected and handleCleanup
DeleteRequest ==
  /\ At("DeleteRejected") \/ At("DeleteExpired")
  /\ \/ deleteJitRequest /\ Done
     \/ ~Live(job.name) /\ Refused

Work ==
  /\ job # Idle
  /\ \/ FindReporter \/ CreateIssue \/ ListNamespaces \/ MatchNamespace \/ QuotePattern
     \/ CommentPreApproved \/ UpdatePreApproved \/ UpdateRejected \/ UpdateSkipped
     \/ GetIssue \/ CreateRoleBinding \/ CommentCompleted \/ MoveCompleted
     \/ UpdateSucceeded \/ CommentRejected \/ MoveRejected \/ DeleteRequest
  /\ UNCHANGED <<seen, now, queue, configVars, trouble>>

-----------------------------------------------------------------------------
(* Faults.                                                                   *)

Trouble == trouble > 0 /\ trouble' = trouble - 1

FaultyCall == job # Idle /\ job.call \in Faulty /\ Trouble

\* The call fails and nothing came of it.
CallFails ==
  /\ FaultyCall /\ Refused
  /\ UNCHANGED <<seen, now, queue, configVars>>

\* The call took effect and its answer is lost.
AnswerLost ==
  /\ FaultyCall
  /\ \/ At("CreateIssue")       /\ FileIssue
     \/ At("UpdatePreApproved") /\ updateStatus("Pre-Approved")
     \/ At("UpdateRejected")    /\ updateStatus("Rejected")
     \/ At("UpdateSkipped")     /\ updateStatus("Rejected")
     \/ At("CreateRoleBinding") /\ CreateBinding
     \/ At("MoveCompleted")     /\ MoveIssue("complete")
     \/ At("UpdateSucceeded")   /\ updateStatus("Succeeded")
     \/ At("MoveRejected")      /\ MoveIssue("rejected")
     \/ (At("DeleteRejected") \/ At("DeleteExpired")) /\ deleteJitRequest
  /\ OnError
  /\ UNCHANGED <<seen, now, queue, configVars>>

\* The operator starts again: queue and worker are lost, the cache is read anew and
\* every request there is comes as a Create event.  "crash": at any time; "restart":
\* between two reconciles.
Restart ==
  /\ "crash" \in Disturbances \/ ("restart" \in Disturbances /\ job = Idle)
  /\ Trouble
  /\ job' = Idle
  /\ seen' = [n \in Names |-> Len(log[n])]
  /\ queue' = {n \in Names : Live(n)}
  /\ wake' = [n \in Names |-> Never]
  /\ StartAgain
  /\ UNCHANGED <<log, bindings, tickets, now>>

-----------------------------------------------------------------------------
(* The configuration (JitConfig).                                            *)

\* Another version is published ("reconfigure").
ConfigPublished ==
  /\ "reconfigure" \in Disturbances /\ Publish
  /\ UNCHANGED <<apiVars, tickets, now, queueVars, job, trouble>>

ConfigCompiled ==
  Compile /\ UNCHANGED <<apiVars, tickets, now, queueVars, job, trouble>>

ConfigSaved ==
  Save /\ UNCHANGED <<apiVars, tickets, now, queueVars, job, trouble>>

\* A save of the configuration fails half way ("diskfull").
ConfigLost ==
  /\ "diskfull" \in Disturbances /\ Trouble /\ Lose
  /\ UNCHANGED <<apiVars, tickets, now, queueVars, job>>

ConfigChanges == ConfigPublished \/ ConfigCompiled \/ ConfigSaved \/ ConfigLost

-----------------------------------------------------------------------------
(* The queue's two sources: events of the cache and delays that are over.    *)

\* Slip: no update passes.
NoUpdate(old, new) == FALSE

\* jitRequestPredicate: of the updates only the one to Rejected passes.
jitRequestPredicate(old, new) == old.state # "Rejected" /\ new.state = "Rejected"

\* The cache moves to version i.  A creation and a deletion always pass to the queue; an
\* object that was deleted and made again between two lists is an update to it.
TakeOver(n, i) ==
  LET new == log[n][i]
      there == new.state # "Deleted"
  IN /\ seen' = [seen EXCEPT ![n] = i]
     /\ queue' = IF \/ Found(n) # there
                    \/ Found(n) /\ there /\ jitRequestPredicate(Cached(n), new)
                 THEN queue \union {n} ELSE queue
     /\ UNCHANGED <<log, bindings, tickets, now, wake, job, configVars>>

\* The watch brings one version after the other.
Deliver(n) ==
  /\ seen[n] < Len(log[n])
  /\ TakeOver(n, seen[n] + 1)
  /\ UNCHANGED trouble

\* A watch that broke off is followed by a list, which skips to the last version.
Relist(n) ==
  /\ "relist" \in Disturbances /\ Trouble
  /\ seen[n] + 1 < Len(log[n])
  /\ TakeOver(n, Len(log[n]))

WakeUp(n) ==
  /\ wake[n] <= now
  /\ queue' = queue \union {n}
  /\ wake' = [wake EXCEPT ![n] = Never]
  /\ UNCHANGED <<apiVars, tickets, now, job, configVars, trouble>>

CollectGarbage ==
  /\ \E b \in bindings : Collect(b)
  /\ UNCHANGED <<log, seen, tickets, now, queueVars, job, configVars, trouble>>

Tick ==
  /\ now < Horizon
  /\ SlowCalls \/ job = Idle
  /\ now' = now + 1
  /\ UNCHANGED <<apiVars, tickets, queueVars, job, configVars, trouble>>

-----------------------------------------------------------------------------
(* The users of the cluster and of Jira.                                     *)

\* A name is used again ("recreate") only once the request that had it is gone.
CreateRequest(n, s) ==
  /\ Admitted(s) /\ Create(n, s)
  /\ IF log[n] = <<>> THEN UNCHANGED trouble
                      ELSE "recreate" \in Disturbances /\ Trouble
  /\ UNCHANGED <<seen, bindings, tickets, now, queueVars, job, configVars>>

\* "touch": a label or an annotation is written; "edit": the spec is.
EditRequest(n, s) ==
  /\ Live(n) /\ Admitted(s) /\ Trouble
  /\ "edit" \in Disturbances \/ ("touch" \in Disturbances /\ s = Latest(n).spec)
  /\ Write(n, [Latest(n) EXCEPT !.spec = s])
  /\ UNCHANGED <<seen, bindings, tickets, now, queueVars, job, configVars>>

WithdrawRequest(n) ==
  /\ "withdraw" \in Disturbances /\ Trouble
  /\ Delete(n)
  /\ UNCHANGED <<seen, bindings, tickets, now, queueVars, job, configVars>>

\* Ticket k waits for its approval: the request says so and its start is to come.
AwaitsApproval(k) ==
  \E n \in Names : /\ Live(n)
                   /\ Latest(n).state = "Pre-Approved" /\ Latest(n).ticket = k
                   /\ now < Latest(n).startTime

\* Approvers take the action while the ticket waits for it, or at any time ("anytime").
ApproveTicket(k) ==
  /\ "anytime" \in Disturbances \/ AwaitsApproval(k)
  /\ Move(k, "approval")
  /\ UNCHANGED <<apiVars, now, queueVars, job, configVars, trouble>>

\* Approvers use the workflow's other action ("veto").
VetoTicket(k) ==
  /\ "veto" \in Disturbances
  /\ Move(k, "rejected")
  /\ UNCHANGED <<apiVars, now, queueVars, job, configVars, trouble>>

-----------------------------------------------------------------------------
Init ==
  /\ ApiInit /\ JiraInit /\ JitConfigInit
  /\ now = 0 /\ queue = {} /\ wake = [n \in Names |-> Never] /\ job = Idle
  /\ trouble = MaxTrouble

Operator == Work \/ \E n \in Names : Reconcile(n)

Next ==
  \/ Operator
  \/ CallFails \/ AnswerLost \/ Restart \/ ConfigChanges \/ CollectGarbage \/ Tick
  \/ \E n \in Names : \/ Deliver(n) \/ Relist(n) \/ WakeUp(n) \/ WithdrawRequest(n)
                      \/ \E s \in Specs : CreateRequest(n, s) \/ EditRequest(n, s)
  \/ \E k \in DOMAIN tickets : ApproveTicket(k) \/ VetoTicket(k)

\* Every call is answered, every queued name has its turn (the work queue is first in,
\* first out, the model's a set), watches and the garbage collector make progress, a
\* configuration is compiled and saved (OperatorConfig!FileCatchesUp), and time passes
\* whatever the worker does.  No user is obliged to act, no version to be published.
Fairness ==
  /\ WF_vars(Work) /\ WF_vars(CollectGarbage) /\ SF_vars(Tick)
  /\ WF_vars(ConfigCompiled) /\ WF_vars(ConfigSaved)
  /\ \A n \in Names : SF_vars(Reconcile(n)) /\ WF_vars(Deliver(n)) /\ WF_vars(WakeUp(n))

Spec == Init /\ [][Next]_vars

FairSpec == Spec /\ Fairness
=============================================================================
