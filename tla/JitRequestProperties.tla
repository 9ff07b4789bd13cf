------------------------ MODULE JitRequestProperties ------------------------
(***************************************************************************)
(* What the JitRequest controller has to guarantee.                        *)
(***************************************************************************)
EXTENDS JitRequestController

TicketRecords == [owner : Names \X (Nat \ {0}), status : Statuses]

\* A reconcile holds a version that exists, a ticket that was filed and, while it checks
\* names or creates RoleBindings, one of the request's namespaces.
JobTypeOK ==
  /\ job \in Jobs \union {Idle}
  /\ job # Idle => job.rev <= Len(log[job.name]) /\ job.issue <= Len(tickets)
  /\ At("MatchNamespace") \/ At("CreateRoleBinding") => job.next <= Len(Request.spec.namespaces)

\* Every variable has its type, and the cache is never ahead of the server.
TypeOK ==
  /\ log \in [Names -> Seq(Versions)]
  /\ seen \in [Names -> Nat] /\ \A n \in Names : seen[n] <= Len(log[n])
  /\ bindings \subseteq Bindings
  /\ tickets \in Seq(TicketRecords)
  /\ now \in Nat /\ trouble \in Nat
  /\ queue \subseteq Names /\ wake \in [Names -> Nat]
  /\ JobTypeOK
  /\ config \in 1..Len(Configs) /\ file \in 0..config /\ pattern \in 0..config

\* No access without consent: whoever holds a RoleBinding made for an incarnation of a
\* request, a ticket filed for that very incarnation has been approved.  The worker
\* decides on a cached copy, asks Jira and creates the binding in three separate steps
\* (handlePreApproved), and names are used again.
GrantNeedsApproval ==
  \A b \in bindings : \E k \in DOMAIN tickets :
    tickets[k].owner = <<b.name, b.uid>> /\ EverApproved(k)

\* No access early: a RoleBinding exists only once the start time that the status of its
\* incarnation announced with the pre-approval has come (handlePreApproved, line 73).
GrantNotBeforeStart ==
  \A b \in bindings : \E i \in DOMAIN log[b.name] :
    LET v == log[b.name][i]
    IN v.uid = b.uid /\ v.state = "Pre-Approved" /\ v.startTime <= now

\* Ticket k was filed for this incarnation of a request.
FiledFor(k, owner) == k \in DOMAIN tickets /\ tickets[k].owner = owner

\* The ticket in a request's status was filed for that incarnation and for no other,
\* whichever version of the request the worker started from, and a pre-approved request
\* has one (createJiraTicket files it, updateStatus stores it later).
TicketIsOwn ==
  \A n \in Names : \A i \in DOMAIN log[n] :
    LET v == log[n][i]
    IN v.ticket # 0 \/ v.state = "Pre-Approved" => FiledFor(v.ticket, <<n, v.uid>>)

\* The state of the copy from which the worker makes call c.
StatesBefore(c) ==
  CASE c \in Reads \union {"FindReporter", "CreateIssue", "ListNamespaces", "UpdateSkipped",
                           "CommentPreApproved", "UpdatePreApproved"} -> {""}
    [] c = "UpdateRejected"                                 -> {"", "Pre-Approved"}
    [] c \in {"CommentRejected", "MoveRejected", "DeleteRejected"} -> {"Rejected"}
    [] c = "DeleteExpired"                                  -> {"Succeeded"}
    [] OTHER                                                -> {"Pre-Approved"}

\* The calls that follow a start time that has come, and those made on a ticket.
AfterStart == {"GetIssue", "CreateRoleBinding", "CommentCompleted", "MoveCompleted",
               "UpdateSucceeded"}

OnTicket == AfterStart \union Reads \union {"ListNamespaces", "CommentPreApproved",
              "UpdatePreApproved", "UpdateRejected", "CommentRejected", "MoveRejected"}

\* What a handler found out before a call still holds when the call is made, whatever
\* happened in between: the state it branched on, that the start time had come, that the
\* ticket is the request's own and, before it grants, that the ticket was approved.
WorkerKnows ==
  job # Idle =>
    /\ Request.state \in StatesBefore(job.call)
    /\ job.call \in OnTicket => FiledFor(job.issue, Owner)
    /\ job.call \in AfterStart => Request.startTime <= now
    /\ At("CreateRoleBinding") => EverApproved(job.issue)
    /\ At("UpdateSkipped") => job.issue = Skipped

Holds(n, ns) == \E b \in bindings : b.name = n /\ b.namespace = ns

HoldsAll(n) ==
  /\ Live(n)
  /\ \A i \in DOMAIN Latest(n).spec.namespaces : Holds(n, Latest(n).spec.namespaces[i])

\* A ticket that reads "Done - access granted until end time" tells the truth: every
\* namespace of its request has the RoleBinding, as long as the request is there
\* (createRoleBinding comes before completeJiraTicket, a failed binding stops both).
DoneMeansGranted ==
  \A n \in Names : \A k \in DOMAIN tickets :
    /\ Live(n) /\ tickets[k].owner = <<n, Latest(n).uid>>
    /\ tickets[k].status = "Done"
    => HoldsAll(n)

\* The operator never undoes a decision: a request that is rejected or succeeded leaves
\* that state by deletion only, and it succeeds out of a pre-approval only, although the
\* worker writes the status from a copy that may be old by then.
DecisionsStand ==
  [][\A n \in Names :
       log'[n] # log[n] /\ Live(n) =>
         LET old == Latest(n).state
             new == Latest(n)'.state
         IN \/ new \in {old, "Deleted"}
            \/ old = "" /\ new \in {"Pre-Approved", "Rejected"}
            \/ old = "Pre-Approved" /\ new \in {"Succeeded", "Rejected"}]_vars

\* The operator deletes a request only when it is rejected or its end time has come
\* (handleRejected, handleCleanup): the object it deletes by name is the one it judged.
DeletedWhenOver ==
  [][\A n \in Names :
       /\ job' # job /\ log'[n] # log[n]
       /\ Latest(n)'.state = "Deleted"
       =>
         \/ Latest(n).state = "Rejected"
         \/ Latest(n).state = "Succeeded" /\ Latest(n).endTime <= now]_vars

\* Jira learns of the end first: when the operator deletes a request, the ticket that its
\* status names has been closed the same way, rejected or completed, or there is none.
\* The ticket is moved in one reconcile and the request deleted in that one or, after
\* failures and restarts, in a later one (rejectJiraTicket, completeJiraTicket).
TicketsCloseFirst ==
  [][\A n \in Names :
       /\ job' # job /\ log'[n] # log[n]
       /\ Latest(n)'.state = "Deleted"
       =>
         \/ /\ Latest(n).state = "Rejected"
            /\ \/ Latest(n).ticket = Skipped
               \/ tickets[Latest(n).ticket].status = "Rejected"
         \/ Latest(n).state = "Succeeded" /\ tickets[Latest(n).ticket].status = "Done"]_vars

NameAllowed(ns, v) == Expression(v) = "valid" => ns \in Configs[v].matches

\* Access is what was pre-approved: role and namespace of a RoleBinding are those of a
\* pre-approved version of its owner, and each was allowed by a published configuration
\* (an expression that is missing or invalid allows every name) and by the labels.  The
\* checks run before the pre-approval, partly in the webhook and partly in
\* handleNewRequest, on roles that were read before the ticket was created and a pattern
\* that was read after; createRoleBinding reads the spec again at the start time.
GrantIsAllowed ==
  \A b \in bindings : \E i \in DOMAIN log[b.name] :
    LET v == log[b.name][i]
    IN /\ v.uid = b.uid /\ v.state = "Pre-Approved"
       /\ v.spec.role = b.role /\ \E j \in DOMAIN v.spec.namespaces :
                                     v.spec.namespaces[j] = b.namespace
       /\ \E u \in Published : b.role \in Configs[u].roles
       /\ \E u \in Published : NameAllowed(b.namespace, u)
       /\ v.spec.labelled => b.namespace \in LabelledNamespaces

\* A rejected request holds no RoleBinding: a rejection is never written over access that
\* was granted (handlePreApproved rejects after the same steps that grant).
RejectedHoldsNothing ==
  \A n \in Names : Live(n) /\ Latest(n).state = "Rejected" =>
    ~\E b \in bindings : b.name = n /\ b.uid = Latest(n).uid

\* Consent is not overridden: whoever is rejected does not have an approved ticket.  The
\* handler looks at the ticket, binds, completes it and writes the status one after the
\* other, starts over after any failure, and then takes every status other than
\* "Approved", that of a completed ticket included, for a refusal (getJiraApproval).
ApprovedIsNotRejected ==
  \A n \in Names : \A k \in DOMAIN tickets :
    /\ Live(n) /\ Latest(n).state = "Rejected"
    /\ tickets[k].owner = <<n, Latest(n).uid>>
    => ~EverApproved(k)

\* handleNewRequest creates a ticket for a new request: one, not one per attempt.
OneTicketEach ==
  \A j, k \in DOMAIN tickets : tickets[j].owner = tickets[k].owner => j = k

\* The cache has yet to show request n, or its rejection: an event that will queue it.
EventToCome(n) ==
  \/ ~Found(n) \/ Cached(n).uid # Latest(n).uid
  \/ Latest(n).state = "Rejected" /\ Cached(n).state # "Rejected"

\* The delaying queue brings n back at once or at the next date of its status.
DelayRuns(n) ==
  \/ wake[n] <= now
  \/ Latest(n).state = "Pre-Approved" /\ wake[n] <= Latest(n).startTime
  \/ Latest(n).state = "Succeeded" /\ wake[n] <= Latest(n).endTime

\* No request is lost: as long as it is there it is queued, in hand, delayed to no later
\* than the next date it has, or about to be queued by an event of the cache.  Nothing
\* looks through the requests again: a reconcile that returns without any of these leaves
\* the request, its ticket and its access as they are until the operator starts anew
\* (jitRequestPredicate drops most updates, RequeueAfter drops delays that are over).
NobodyIsForgotten ==
  \A n \in Names : Live(n) =>
    n \in queue \/ (job # Idle /\ job.name = n) \/ DelayRuns(n) \/ EventToCome(n)

-----------------------------------------------------------------------------
(* The controller implements JustInTimeAccess: a request is an incarnation.  *)

Consented == {tickets[k].owner : k \in {j \in DOMAIN tickets : EverApproved(j)}}

Places == UNION {{<<n, i>> : i \in DOMAIN log[n]} : n \in Names}

VersionAt(p) == log[p[1]][p[2]]

IncarnationAt(p) == <<p[1], VersionAt(p).uid>>

Announced(p) == VersionAt(p).state = "Pre-Approved" /\ VersionAt(p).startTime <= now

Due == {IncarnationAt(p) : p \in {q \in Places : Announced(q)}}

Closed == {IncarnationAt(p) : p \in {q \in Places : ~Alive(q[1], VersionAt(q).uid)}}

Access == {<<<<b.name, b.uid>>, b.namespace>> : b \in bindings}

JIT == INSTANCE JustInTimeAccess
         WITH consent <- Consented, due <- Due, closed <- Closed, access <- Access

\* No step of the operator, of its users, of time or of a fault does to access anything
\* that the promise does not allow.
ImplementsJustInTimeAccess == JIT!ASpec

-----------------------------------------------------------------------------
(* Liveness.                                                                 *)

\* Every request is closed in the end: rejected or expired, it is deleted.
RequestsClose == \A n \in Names : Live(n) ~> ~Live(n)

\* Access ends: no RoleBinding of a request stays for ever.
AccessEnds ==
  \A n \in Names, ns \in Namespaces : Holds(n, ns) ~> ~Holds(n, ns)

\* Whoever is approved in time gets the access: when the ticket of a pre-approved
\* request is approved before the start, every namespace gets its RoleBinding.
ApprovedGetsAccess ==
  \A n \in Names :
    /\ Live(n) /\ Latest(n).state = "Pre-Approved"
    /\ tickets[Latest(n).ticket].status = "Approved" /\ now < Latest(n).startTime
    ~> HoldsAll(n)
=============================================================================
