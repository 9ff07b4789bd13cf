# A verified model of the Jira JIT RBAC operator

The operator gives a user a RoleBinding in some namespaces for a limited time. A user
creates a `JitRequest`; the operator files a Jira ticket, waits for the start time, looks
whether a human approved the ticket, creates the RoleBindings, and deletes the request at
the end time, whereupon Kubernetes collects the RoleBindings. This directory models that
program in TLA+, checks the models with TLC, and proves the safety results with TLAPS.

* `tlc -config Safety.cfg MCJitRequest` runs one configuration. `Config.cfg` goes with
  `MCOperatorConfig`, `Review.cfg` with `MCAdmissionReview`, all others with `MCJitRequest`.
* `tlapm M.tla` checks the proofs of module `M`: any of the eight whose names end in `Proofs`
  or `Refinement`.

## 1. The system

| Component | State | Operations | Talks to |
|---|---|---|---|
| **JitRequest controller** (`internal/controller`) | none of its own between two reconciles; its work queue and delaying queue belong to controller-runtime | `Reconcile` dispatches on `status.state`: `handleNewRequest`, `handlePreApproved`, `handleRejected`, `handleCleanup`, `handleFetchError` | API server (reads through the informer cache, writes directly), Jira, the configuration file, the global `NamespaceAllowedRegex` |
| **JustInTimeConfig controller** (`internal/config`) | `config.json`, `ConfigLock`, `NamespaceAllowedRegex` | `Reconcile`: read the object, compile the expression, write the file | configuration client, file system |
| **Configuration client** (`pkg/configuration`) | none; every getter reads the object again, a default stands for a missing one | 13 getters | informer cache |
| **Validation helpers** (`pkg/utils`) | none | `ReadConfigFromFile`, `Contains`, `ValidateNamespaceRegex`, `ValidateNamespaceLabels`, `GetNameByEmail` | file, API server, Jira |
| **Admission webhook** (`internal/webhook`) | package globals set at start-up | `ValidateCreate`, `ValidateUpdate`, `ValidateDelete` over `validateJitRequestSpec` | helpers, Jira |
| **Manager** (`cmd/main.go`) | process | wiring, start | all |
| **Jira project** (`samples/workflow.xml`, external) | tickets and their step | create, comment, transitions 11, 21, 41 | approvers |
| **Kubernetes** (external) | objects, versions, informer cache, garbage collector | writes, watch, list, collection | users |

### How they interact

A user's create or edit passes the webhook (if it is enabled) and becomes a new version of the
object. The informer's cache follows; `jitRequestPredicate` lets creations, deletions and the
update *to* `Rejected` into the queue. One worker takes a name from the queue, reads the
**cached** object and runs the handler of its state. A handler is a chain of calls to Jira and
to the API server; it returns an error (back-off), a delay (`RequeueAfter`) or nothing. The
delays are the operator's only memory of the start and end times, and live in the process.

```
            ""  --ticket filed, checks pass-->  Pre-Approved --approved, bindings made--> Succeeded
             |                                       |                                        |
             +--a check fails--> Rejected <----------+ not approved                           | endTime
                                    |  ticket moved to Rejected                               v
                                    +------------------------------------------------->   deleted
```

### What is hard here

* *Distributed writes without a transaction.* Ticket, RoleBindings, ticket status and
  `status.state` are written one after the other to two systems; each write can fail, be lost
  on its way back, or be the last before a crash.
* *Stale reads.* The worker decides on a cached version; users, approvers, deletions and
  re-creations under the same name go on meanwhile.
* *Retries that start over.* After any error the whole handler is run again from the state on
  the server, including `Issue.Create` and transitions that are no longer offered.
* *Time.* The clock is compared with the start and end times before calls that take time.
* *Restart.* Queue, delays and the compiled expression are lost, the file may survive.
* *Shared configuration.* The file is under a lock, the expression is a global without one;
  thirteen getters read the object one after the other while it changes; reviews read file,
  expression and Jira at different moments.

`PROJECT.json` lists every hazard at its line with the properties that watch it.

### What makes each component correct

* Controller: no access without consent, none early, none that the configuration does not
  allow; no consent overridden and no decision overwritten; no request lost from sight, every
  request closed and every access ended; one ticket per request, closed before the request is
  deleted, and a ticket that tells the truth.
* Configuration controller: readers never see half a file; a version's file is saved only
  after its expression was dealt with; once nothing is left to do, file and expression are those
  of the current version; the file catches up with the object, whatever failed before.
* Webhook and helpers: nothing is admitted that the file the review read forbids or whose names
  no published expression matches; nobody is refused without a reason; a look-up that fails
  never admits; no one approves his own request unless that is enabled; every review ends.

## 2. The modules

| Module | What it is |
|---|---|
| `JiraWorkflow` | Tickets and the workflow the repository ships. `Move` answers with an error (`~CanMove`) unless the step offers the transition. |
| `JitApi` | API server, informer cache, RoleBindings, garbage collector. `log[n]` holds every version of request `n`: a place in it is a `resourceVersion`, the creating place the `uid`; `seen[n]` is the place the cache has reached. |
| `JitConfig` | What the configuration controller promises the rest: abstract specification. |
| `JitRequestController` | The controller: `EXTENDS` these three and adds queue, delays, worker, clock, faults and users. |
| `JustInTimeAccess` | The abstract specification of the controller: consent, due, closed and access, and the five steps that may change them. |
| `JitRequestProperties` | Types, safety, action properties, the refinement mapping and liveness. |
| `OperatorConfig` | The configuration controller at the grain of its getters, its lock, the truncation and the write, with the readers of the file; its properties and its mapping to `JitConfig`. |
| `AdmissionReview` | Reviews of the webhook side by side: `EXTENDS OperatorConfig`, whose readers the reviews are. |
| `MCJitRequest`, `MCOperatorConfig`, `MCAdmissionReview` | Specs, configurations and sets of calls for the runs. |
| `JitRequestProofs` | The controller's inductive invariant and the theorems that follow from it. |
| `JitRequestRefinement` | The proof that the controller implements `JustInTimeAccess`. |
| `JitRequestGrantProofs`, `JitRequestOnceProofs`, `JitRequestRecordProofs` | What holds under conditions: grants are what was checked; deletions and completed tickets are right; one ticket, no rejection over consent or access. |
| `JitRequestMemoryProofs` | No request is lost, under the condition that no event and no delay is dropped. |
| `OperatorConfigProofs`, `AdmissionReviewProofs` | The theorems of the two modules. |

How they compose:

```
   JustInTimeAccess  <==implements==  JitRequestController
                                        |  extends JitApi, JiraWorkflow and
                                        v
                                      JitConfig  <==implements==  OperatorConfig
                                                                    ^  extends
                                                                    |
                                                                  AdmissionReview
```

`JitRequestController` takes the steps of `JitConfig` as its own (`ConfigPublished`,
`ConfigCompiled`, `ConfigSaved`, `ConfigLost`, and `StartAgain` in `Restart`), so that every
interleaving of a changing configuration with validation and grants is in its runs, and
`ControllerKeepsConfigPromise` is the theorem that the code's configuration controller does
nothing else. `JitRequestController!Admitted` is the webhook's verdict in one step, taken with
the write; `AdmissionReview` cuts that step at every read and shows what a verdict then means.

### How the controller's model corresponds to the code

*Steps.* A reconcile is cut at its calls to other processes. `Reconcile(n)` reads the cached
version (`fetchJitRequest`), the configuration, dispatches, and runs to the first call;
`job.call` names the call that is pending, `job.rev` the version held in `jitRequest`,
`job.issue` the Jira key at hand, `job.next` the namespace `createRoleBinding` or
`ValidateNamespaceRegex` has come to. One action per call (`FindReporter` ... `DeleteRequest`)
does what the server does and runs the code after it to the next call or the return. The reads
of the global expression, which no lock protects, are steps too. Everything else interleaves
between.

| Code | Actions |
|---|---|
| `handleNewRequest`, `createJiraTicket`, `preApproveRequest`, `rejectInvalid*` | `handleNewRequest`, `FindReporter`, `CreateIssue`, `CommentPreApproved`, `UpdatePreApproved`, `UpdateRejected`, `UpdateSkipped` |
| `ValidateNamespaceLabels` | `ListNamespaces`, without webhooks and for a request with labels; a list that fails rejects it |
| `ValidateNamespaceRegex` | `CallOfNames` (is there an expression?), `MatchNamespace` (the global is read again for each namespace), `QuotePattern` (and once more for the message); nil by then is a panic, which controller-runtime makes an error: the request is retried |
| `handlePreApproved`, `getJiraApproval`, `createRoleBinding`, `completeJiraTicket` | `handlePreApproved`, `GetIssue`, `CreateRoleBinding` (one per namespace), `CommentCompleted`, `MoveCompleted`, `UpdateSucceeded` |
| `handleRejected`, `rejectJiraTicket` | `handleRejected`, `CommentRejected`, `MoveRejected`, `DeleteRequest` |
| `handleCleanup` | `handleCleanup`, `DeleteRequest` |
| `handleFetchError`, `deleteOwnedObjects` | `handleFetchError`: the object a failed `Get` leaves is empty, so it names no namespace and nothing is deleted |
| `updateStatus` with `RetryOnConflict` | `updateStatus`, guarded by `UpToDate`: every attempt sends the version first read, so a conflict ends as an error |
| returns | `Done`, `Retry`, `RequeueAt` (a delay that is not positive is no requeue) |

*Faults.* `CallFails`: a call of `Faulty` fails without effect. `AnswerLost`: it takes effect
and the answer is lost. `Restart`: between reconciles or, with `"crash"`, at any point;
`Relist`: a broken watch is followed by a list that skips versions. Each costs one of
`MaxTrouble`. `SlowCalls` lets the clock move while a call is under way, `LaggingCache` lets a
reconcile read a version that is not the last.

*Configuration.* `file` and `pattern` are the versions whose roles the file holds and whose
expression is compiled, 0 for none; a reconcile keeps the version of the file it has read
(`job.conf`), while the expression is read when it is needed, as in `handleNewRequest`. Each
version names the custom fields it requires. The roles are the first field that
`SaveConfigToFile` reads, so the fields in a file may be of any version from that of its roles
to the published one (`FileVersions`).

*Users.* They create, edit, touch, withdraw and re-create requests. Approvers take the
approving transition while the ticket waits for it or, with `"anytime"`, at any time; with
`"veto"` they take the rejecting one too. With `Webhooks`, `Admitted` guards creation and edits.

*Left out.* The wording of comments, events and messages, ticket fields and subjects of the
RoleBinding; whole expressions and label selectors (a namespace matches or does not); a
`status.state` that no code writes (the `default` branch of the switch is `handleCleanup`
again); humans who complete tickets themselves; a deletion that lingers on finalizers. The
status names and transition ids are the same in every configuration.

### How `OperatorConfig` and `AdmissionReview` correspond to the code

| Code | Actions of `OperatorConfig` |
|---|---|
| watch of the object, `ResourceVersionChangedPredicate` | `Publish`, `Deliver`; a deletion is a version with the defaults, which is what the client then returns |
| leader election before the controllers start | `Lead`: webhooks are served before it, the file is not written |
| `Reconcile`: client and expression | `Start`, `Compile`: `NamespaceAllowedRegex, err = regexp.Compile(...)` assigns nil before the error is looked at; without an expression nothing is assigned |
| `SaveConfigToFile` | `Lock`, `Get` (once per getter, each reads the cache again), `Create` (truncates), `WriteFile` (writes, releases the lock) |
| `ReadConfigFromFile` | `RLock` (a writer that waits keeps new readers out), `ReadConfigFromFile` |
| errors and panics, both recovered | `Fail`: the lock is released, what was truncated stays, the name is queued again |
| end of the process | `Crash`: the file is on an `emptyDir` volume, which a restart of the container keeps |

A version of the file is a sequence of the versions its fields were read at; `Getters` says how
many. `AdmissionReview` needs the three the webhook decides on: the roles, the custom
fields, self approval.

| Code | Actions of `AdmissionReview` |
|---|---|
| `ValidateCreate`, `ValidateUpdate` | `Receive` |
| `ReadConfigFromFile`, role and times | `WaitForFile`, `ReadFile` |
| `ValidateNamespaceRegex` | `CheckPattern` (is there an expression?), `MatchNamespace` (the global is read again for each namespace) and `QuotePattern` (and once more for the message of a mismatch); nil by then is a panic, `"errored"` |
| `ValidateNamespaceLabels`, presence of the custom fields | `CheckLabels` |
| `GetNameByEmail` for the reporter, then for each user field | `FindReporter`, `FindUser` (in any order: the fields are a map) |
| an error of Kubernetes or Jira | `LookUpFails` |
| the process ends, `failurePolicy: fail` | `CrashAll` |

## 3. The runs

Bounds common to all: `MaxTrouble` faults and disturbances, `MaxTickets` tickets, the clock
from 0 to `Horizon`. Instants are few because the code only compares the clock with a start and
an end: before, at and after each is all it can tell apart. A request runs from 1 to 2
(`Later`: 2 to 3), with two namespaces where a partial grant matters.

| Run | Question | Bounds |
|---|---|---|
| `Safety` | With every fault, disturbance, slow call and stale read: `TypeOK`, `WorkerKnows`, `GrantNeedsApproval`, `GrantNotBeforeStart`, `DecisionsStand`, and does the controller implement `JustInTimeAccess`? | one name used again, two specs, 2 troubles |
| `Grants` | Without webhooks, one request per reason to reject, while the configuration is withdrawn altogether or its save fails: is only what the checks let through ever granted (`GrantIsAllowed`)? | four specs, three configurations, the last with an invalid expression, 2 troubles |
| `Admission` | The same with webhooks, where users also edit specs, while the configuration is narrowed down, with stale reads and any call failing; and is every request remembered (`NobodyIsForgotten`)? The clock stops during calls. | eight specs, two configurations, 2 troubles |
| `Records` | One ticket per incarnation, no rejection written over access (`OneTicketEach`, `RejectedHoldsNothing`), as far as the code achieves it: fresh reads and no failure between a ticket or a grant and its record, whenever approvers decide, with restarts between reconciles and broken watches. | a sound spec, one with a wrong role, one whose reporter Jira does not know; 3 troubles, 3 tickets |
| `Completion` | Two requests share worker, queue and project: `TicketIsOwn`, `DoneMeansGranted`, `DeletedWhenOver`, `TicketsCloseFirst`. | two names, any call fails, crash |
| `Liveness` | `RequestsClose`, `AccessEnds`, `ApprovedGetsAccess`, and the two invariants behind them, `NobodyIsForgotten` and `ApprovedIsNotRejected`, with restarts between reconciles, a second configuration that asks for one more field and failures a retry can go on from. | seven specs, 2 troubles |
| `Config` | `OperatorConfig`: reads are whole (`ReadReturnsFile`), what is settled is current (`SettledIsCurrent`), `JitConfig` is implemented, the file catches up (`FileCatchesUp`). | five versions (valid, invalid, valid, none, valid), three getters, two readers, 2 failures and a crash |
| `Review` | `AdmissionReview`: `AdmittedIsAllowed`, `FilteredWhenConfigured`, `RefusedForReason`, `ReviewsEnd`, with the configuration changing under the review. | four versions, ten specs, one review, a failure and a crash |

The conditions of `Records` and `Liveness` are not conveniences: each call left out of
`HarmlessToRecords` or `HarmlessToClosing` is one after whose failure the property is false.

Three getters stand for the thirteen: a first, a middle and a last one, which is enough for a
file to mix three versions. Five versions let an expression be lost, regained and removed. One
review in `Review` is enough for TLC because reviews share only the read lock, which `Config`
checks with two readers; the theorems hold for any number side by side.

Four runs show where the code and what the repository says of it part; each is a finding in
`PROJECT.json` with the line it contradicts.

| Run | What TLC finds |
|---|---|
| `Veto` | An approver rejects the ticket himself. The operator's own rejecting transition is then not offered, `handleRejected` fails at every attempt, and the request is never deleted. |
| `CrashAfterCompletion` | The operator stops between completing the ticket and recording `Succeeded`. The retry reads "Done", which is not the approved status, and rejects a request whose RoleBindings are in force; that ticket cannot be rejected, so request and access stay for ever. |
| `MissingNamespace` | The second namespace does not exist. The first one's RoleBinding stays, the request is retried without a look at its end time. |
| `Conflict` | A label is written while the ticket is created. `RetryOnConflict` resends the old version, the retry of the whole handler files a second ticket. |

### Also observed

Violations that TLC finds when a condition is lifted, kept here rather than as runs:

* `SlowCalls = TRUE` without any fault violates `NobodyIsForgotten` and `RequestsClose`: when the
  start time passes during `updateStatus`, `time.Until` (jira_client.go:304) is not positive and
  the pre-approved request is never queued again, although the comment on `preApproveRequest`
  (line 263) says that it "re-queues for start time".
* `Faulty = {"GetIssue"}` violates `ApprovedGetsAccess` and `ApprovedIsNotRejected`: a failed read
  counts as "not approved". So do, of the second, a lost answer of `MoveCompleted` and a failure
  of `UpdateSucceeded`, after which the retry finds the ticket "Done", and each of `"crash"`,
  `"touch"` and `"edit"` at that moment. `"anytime"` violates it too: an approval that comes
  after the start, between the operator's look at the ticket and its rejection, is overridden.
* `Faulty = {"UpdateSkipped"}` with an incomplete spec violates `NobodyIsForgotten` and
  `RequestsClose`: the failed status update of a missing custom field is only logged. So does a
  label that is written (`"touch"`) while that update is on its way, for the same reason: the
  update conflicts, and the event of the label is one that the predicate drops.
* `"restart"` violates `GrantIsAllowed`: the file of the previous container is readable while
  the expression is not yet compiled, and without webhooks a request is checked against no
  pattern.
* `"withdraw"` and `"recreate"` violate `DeletedWhenOver` and `TicketsCloseFirst` (deletion is by
  name) and, with two successive specs, `DoneMeansGranted` (the AlreadyExists of a binding about
  to be collected counts as success).
* An invalid expression sets the global to nil (justintimeconfig_controller.go:91, before the
  error is looked at) while the former file stays readable: every name passes until the
  expression is mended. `GrantIsAllowed` allows this ("an invalid expression allows every
  name"), and `OneTicketEach` is violated by it: a reconcile that panics between two reads of
  the global has filed its ticket, and the retry files another.
* An expression that is removed from the configuration stays in force until a restart: the
  global is assigned only when there is one (justintimeconfig_controller.go:89).
  `SettledIsCurrent` says nothing about a version without an expression.
* A file read while two versions were current mixes them (`Get`): it may admit what neither
  version admits, until the event that came meanwhile leads to another save.
  `AdmittedIsAllowed` therefore speaks of the fields of the file, each of its own version.
* The global is read again for every namespace and for the message: an invalid expression in
  between makes the review panic (`"errored"`), which refuses the request.
* After its start time the webhook refuses every update of a request, labels and finalizers
  included, because updates are validated like creations.
* `"withdraw"`, `"recreate"` and `"relist"` violate `NobodyIsForgotten` and `RequestsClose`: the
  list shows a new object as an update of the old one, and the predicate drops it.
* Access may be granted after the end time, when back-off or downtime reach over it.

### Fairness

`Liveness` assumes weak fairness of the worker's calls, of the cache (`Deliver`), of the
delaying queue (`WakeUp`), of the garbage collector and of the configuration controller
(`ConfigCompiled`, `ConfigSaved`): these are processes that run for as long as the operator
does, and `FileCatchesUp` shows of the last one that it gets there. `Reconcile(n)` is strongly fair
because the work queue is first in, first out and the one worker is enabled in between only;
`Tick` because the model stops the clock during calls when `SlowCalls` is FALSE. No user is
obliged to do anything, and no fault is obliged to happen or to stop beyond the bound
`MaxTrouble`: a fault that never ends is outside the question. The Jira client has no timeout,
so that every call is answered is an assumption about Jira, not a fact about the code.

`Config` assumes weak fairness of the informer, of the leader election, of the worker's steps
and of each reader that holds the lock (`ReadConfigFromFile` ends without waiting for anyone).
Nobody has to read, and no version has to be published. `Review` adds that each review goes on
(`Proceed`): it is a goroutine whose look-ups are answered.

## 4. What is proved

All theorems are for every set of names, namespaces, roles, specs, faulty calls and
disturbances, for every sequence of configurations, any number of readers and reviews, and for
every bound. The named assumptions (`ApiAssumption`, `ControllerAssumption`,
`JitConfigAssumption`, `OperatorConfigAssumption`, `ReviewAssumption`) say that constants have
their types, specs end before the horizon and, for reviews, that there are three getters; TLC
evaluates them in every run.

### The controller

`Inductive` is the conjunction of `TypeOK`, `TicketIsOwn`, `WorkerKnows`, `GrantNeedsApproval`
and `GrantNotBeforeStart`. The last two are not inductive alone: a binding is made by a
reconcile that looked at the clock and at Jira some steps ago. `WorkerKnows` says what such a
reconcile may rely on - the state it branched on, that the start has come, whose ticket it
holds and, before it binds, that this ticket was approved - and it lasts because versions in the
log never change, a ticket keeps its owner, an approved ticket can only be completed, and time
does not go back (`Grows`). `TicketIsOwn` is what a reconcile of a pre-approved request begins
with.

The proof first shows that every step has one of six effects on requests, tickets, RoleBindings
and clock (`StepEffect`), then that every effect lets the past stand (`FootprintGrows`), then
each conjunct: `TicketIsOwnStep`, `GrantNeedsApprovalStep`, `GrantNotBeforeStartStep`,
`JobStep` (one case per call) and `TypeStep`.

| Theorem | States | Under |
|---|---|---|
| `TypeCorrect`, `ApprovalComesFirst`, `StartComesFirst`, `TicketsAreOwn`, `KnowledgeLasts` | the five conjuncts, each as `Spec => []...` | nothing |
| `DecisionsAreFinal` | `DecisionsStand`: a status update writes to the very version it was decided on | nothing |
| `ControllerImplementsPromise` | `ImplementsJustInTimeAccess` | nothing |
| `GrantsAreAllowed` | `GrantIsAllowed` | `ChecksInForce`: no restart; the webhook if specs are edited |
| `DeletionsAreDue` | `DeletedWhenOver` | `NamesOnce`: no name is used again |
| `JiraIsToldFirst` | `TicketsCloseFirst` | `NamesOnce` |
| `DoneTicketsAreTrue` | `DoneMeansGranted` | `SpecsFixed`: nor is a spec edited |
| `OneTicketForEach` | `OneTicketEach` | `TicketsRecorded`: fresh reads, no crash, nobody else writes to the request, no expression is invalid, no failure between ticket and record |
| `RejectionMeetsNoAccess` | `RejectedHoldsNothing` | `GrantsRecorded`: nor between grant and record |
| `ApprovalIsNotOverridden`, `RejectionMeetsNoConsent` | `ApprovedIsNotRejected`, `RejectedHoldsNothing` | `ConsentHeard`: approvals come before the start, no crash, nobody else writes to the request, and the calls that read, complete and record the approval are answered; reads may be stale and any other call may fail |
| `NobodyIsLost` | `NobodyIsForgotten` | `NothingDropped`: the clock stops during calls, no list skips a re-creation, configurations agree on which requests are complete, and every request is complete or the rejection of an incomplete one is written and undisturbed |

The runs of section 3 and its observations violate the property without its condition. That
configurations agree on who is complete is what the proof needs with stale reads: a stale copy
of a pre-approved request that lacks a field of a newer version would end in a conflict that is
only logged.

* *Refinement.* `UidsPast` says that a uid is a place in the log, so that a new incarnation is
  not one that was closed; each of the six effects is a step of `JustInTimeAccess` or a stutter.
* *Grants.* `VersionsOK`, `CopyOK`, `PatternInForce` and `BindingsOK` follow a spec from the
  check to the grant: a version that was pre-approved had passed the checks, the copy in hand
  has passed those behind it, a readable file means that the pattern in force is that of a
  published version (or that one had none that compiles), and a binding goes back to such a
  version. Roles and names may be allowed by different versions: the file is read before the
  ticket is created, the pattern after.
* *Deletions and completed tickets.* `OneRequest`: all versions of a name are of one request and
  a final state stays; `OverOK`: whoever is about to delete has compared the end time with the
  clock. `Granting`: the namespaces before the one at hand, and all of them when the comment is
  written, hold their RoleBinding; nobody takes it away while the request lives
  (`HoldsStays`).
* *Records.* `InHand`: the copy in hand is the last version, or its request is gone (uids are
  never used again, `UidsEarlier`); `Filed`: a request that is still new has a ticket only while
  the worker is recording it; `DoneIsRecorded`: a completed ticket of a request that is not over
  is being recorded; `Unheld`: whoever is about to reject has granted nothing. The last needs
  `OneTicketEach`: the ticket that was approved before the grant is the ticket at hand.
* *Told first.* `Completed`: the ticket that a succeeded version names is completed, which
  outlasts the reconcile that completed it. `Closing`: whoever is about to delete a rejected
  request works on the ticket of his copy and has moved it, or there is none. A closed ticket
  stays closed (`SettledStays`), and a request in its final state keeps its ticket (`Follows`).
* *Consent.* `ConsentRecorded`: an approved ticket is the one in the status of its request, and
  that request is not rejected. It needs to know what a worker knows who is about to reject a
  pre-approved request: the ticket it saw is the one in the status (`TicketInStatus`), that is
  not approved and, the start being over, will not be (`RefusalStands`). "Not approved" must not
  mean "completed": a completed ticket of a request that is still pre-approved is being recorded
  (`CompletionPending`), from the copy that is the last because a request is pre-approved once
  (`PreApprovedOnce`). No ticket has to be the only one, so stale reads are allowed. Since a
  grant needs an approval, a rejected request then has no access either.
* *Memory.* `NobodyIsForgotten` is the safety part of `RequestsClose`: fairness can only bring
  back what is queued, delayed or announced. The predicate drops most updates, so every return
  of a reconcile has to leave something behind, whatever others wrote meanwhile. `OldTells`: an
  old copy tells as much of its request as it is now - a pre-approved one that is still
  pre-approved has the same start, one that was new is new or has been taken further - so that
  the delay a stale reconcile leaves is right. `Chained` and `UidsEarlier`: an incarnation lasts
  until a deletion, whose event the cache will show. `WillComeBack` says of each call whose
  return might leave nothing why it will not. The proof has a case for each way to return
  (`ReconcileRemembers`, `ReturnRemembers`) and one for what others can take away
  (`EventStays`, `QueueMoves`, `WakeMoves`).

### The configuration controller and the webhook

| Theorem | States |
|---|---|
| `ConfigTypeCorrect`, `SettledConfigIsCurrent`, `ReadsAreWhole` | `TypeOK`, `SettledIsCurrent`, `ReadReturnsFile` |
| `ControllerKeepsConfigPromise` | `Spec => ImplementsJitConfig` |
| `ReviewsReadOnly` | `ReviewSpec => Spec`: all of this holds beside reviews |
| `ReviewTypeCorrect`, `NothingForbiddenIsAdmitted`, `PatternBeforeFile`, `RejectedForReason` | `ReviewTypeOK`, `AdmittedIsAllowed`, `FilteredWhenConfigured`, `RefusedForReason` |

The invariant of `OperatorConfig` adds to the types that a writer is alone (`Exclusive`), that
whatever is not yet in the file is still in the queue or under way (`Current`: an event during a
save queues the name again), and that the versions in a file, in the getters' hands and in the
pattern are in order (`Ordered`), which is what makes a save map to `JitConfig!Save`. Reviews
carry along, stage by stage, what their checks have established of the content they read.

### Only model-checked

Liveness (`RequestsClose`, `AccessEnds`, `ApprovedGetsAccess`, `FileCatchesUp`, `ReviewsEnd`):
fairness and ENABLED are out of the prover's reach. Every safety property of a passing run
is proved; of `RequestsClose` and `ApprovedGetsAccess` the safety part is (`NobodyIsLost`,
`ApprovalIsNotOverridden`).

## 5. Not modelled, and why

* A call that never returns: the single worker would wait for ever; nothing in the code bounds it.
* The moment between two readings of the clock in one handler (handlers.go:112-115): the clock
  of the models advances between steps; the same gap with calls in it is observed above.
* The gap between a review's verdict and the write it admits: `Admitted` is evaluated with the
  write. A version published in between can only make the spec one that an older version
  allowed, which `GrantIsAllowed` permits.
* Several operator replicas at work: leader election allows one. Webhooks of replicas that do not
  lead are `OperatorConfig` in `"standby"`.
* A configuration object that does not exist when the operator starts: the first version stands
  for it, with the defaults.
* What a regular expression or a label selector is: the set of namespaces it selects.
* Wording of tickets, comments, events and log lines; flags, certificates, metrics, probes;
  deep copies (generated); manifests and test code.

## 6. Where to go on

The parts of the code with state of their own are modelled, and what is safe about them is
proved. Worth adding when the code changes:

* a time-out for Jira calls would turn the unbounded call into a failure the model has;
* a `Done` ticket accepted by `getJiraApproval`, or bindings checked before a rejection, would
  let `CrashAfterCompletion` and `MissingNamespace` become passing runs, and `GrantsRecorded`
  lose its second half;
* assigning the expression under `ConfigLock` and after its error was looked at would remove
  the `"errored"` verdict and sharpen `FilteredWhenConfigured`.
