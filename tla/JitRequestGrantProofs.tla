------------------------ MODULE JitRequestGrantProofs ------------------------
(***************************************************************************)
(* What is granted was allowed, for every sequence of configurations that  *)
(* is published, compiled, saved and lost while requests are on their way. *)
(***************************************************************************)
EXTENDS JitRequestProofs

\* Without these the property does not hold: a restart loses the pattern and may keep the
\* file, and only the webhook looks at a spec that is edited.
ChecksInForce ==
  /\ "crash" \notin Disturbances /\ "restart" \notin Disturbances
  /\ Webhooks \/ "edit" \notin Disturbances

-----------------------------------------------------------------------------
(* The inductive invariant.                                                  *)

RoleOK(role) == \E u \in Published : role \in Configs[u].roles

NameOK(ns) == \E u \in Published : NameAllowed(ns, u)

\* What the checks between creation and pre-approval establish, wherever they run.
SpecOK(s) ==
  /\ RoleOK(s.role) /\ LabelsMatch(s)
  /\ \A i \in 1..Len(s.namespaces) : NameOK(s.namespaces[i])

VersionOK(v) ==
  /\ v.state = "Pre-Approved" => SpecOK(v.spec)
  /\ Webhooks => LabelsMatch(v.spec)

VersionsOK == \A n \in Names : \A i \in 1..Len(log[n]) : VersionOK(log[n][i])

\* The calls that announce a pre-approval.
PreApproving == {"CommentPreApproved", "UpdatePreApproved"}

\* What the worker has checked of spec s when it comes to call c, at the i-th namespace.
Checked(s, c, i) ==
  /\ c = "ListNamespaces" => RoleOK(s.role)
  /\ c = "MatchNamespace" => /\ RoleOK(s.role) /\ LabelsMatch(s)
                             /\ \A j \in 1..(i - 1) : NameOK(s.namespaces[j])
  /\ c \in PreApproving => SpecOK(s)

\* The worker announces a pre-approval only after the checks.
CopyOK ==
  job # Idle => job.conf \in Published /\ Checked(Request.spec, job.call, job.next)

\* Whoever has read the file finds a pattern, unless a version has no valid expression.
PatternInForce ==
  /\ pattern # 0 => Expression(pattern) = "valid"
  /\ (file # 0 \/ job # Idle) /\ pattern = 0 => \E u \in Published : Expression(u) # "valid"

\* Version v is the pre-approval that RoleBinding b goes back to.
GrantedBy(b, v) ==
  /\ v.uid = b.uid /\ v.state = "Pre-Approved" /\ v.spec.role = b.role
  /\ \E j \in 1..Len(v.spec.namespaces) : v.spec.namespaces[j] = b.namespace

BindingsOK == \A b \in bindings : \E i \in 1..Len(log[b.name]) : GrantedBy(b, log[b.name][i])

GrantInductive == VersionsOK /\ CopyOK /\ PatternInForce /\ BindingsOK

-----------------------------------------------------------------------------
(* The configuration.                                                        *)

\* Every step is one of the configuration or leaves it alone.
LEMMA ConfigMoves ==
  ASSUME ChecksInForce, [Next]_vars
  PROVE  \/ (Publish \/ Compile \/ Save \/ Lose) /\ UNCHANGED <<log, bindings, tickets, job>>
         \/ UNCHANGED configVars /\ (job' # Idle => job # Idle \/ file # 0)
<1>1. ASSUME NEW n \in Names, Reconcile(n)
      PROVE  UNCHANGED configVars /\ (job' # Idle => file # 0)
  BY <1>1 DEF Reconcile, handleFetchError, ReadConfigFromFile, Done, Retry
<1>2. CASE Work \/ CallFails \/ AnswerLost
  BY <1>2 DEF Work, CallFails, AnswerLost, FaultyCall
<1>3. CASE ConfigChanges
  BY <1>3 DEF ConfigChanges, ConfigPublished, ConfigCompiled, ConfigSaved, ConfigLost, apiVars
<1>4. CASE CollectGarbage \/ Tick \/ UNCHANGED vars
  BY <1>4 DEF CollectGarbage, Tick, configVars, vars
<1>5. ASSUME NEW n \in Names, Deliver(n) \/ Relist(n) \/ WakeUp(n) \/ WithdrawRequest(n)
      PROVE  UNCHANGED <<job, configVars>>
  BY <1>5 DEF Deliver, Relist, TakeOver, WakeUp, WithdrawRequest, configVars
<1>6. ASSUME NEW n \in Names, NEW s \in Specs, CreateRequest(n, s) \/ EditRequest(n, s)
      PROVE  UNCHANGED <<job, configVars>>
  BY <1>6 DEF CreateRequest, EditRequest, configVars
<1>7. ASSUME NEW k \in DOMAIN tickets, ApproveTicket(k) \/ VetoTicket(k)
      PROVE  UNCHANGED <<job, configVars>>
  BY <1>7 DEF ApproveTicket, VetoTicket, configVars
<1>8. ~Restart
  BY DEF ChecksInForce, Restart
<1> QED
  BY <1>1, <1>2, <1>3, <1>4, <1>5, <1>6, <1>7, <1>8 DEF Next, Operator

\* What was allowed once stays so.
LEMMA StaysOK ==
  ASSUME TypeOK, ChecksInForce, [Next]_vars
  PROVE  /\ Published \subseteq Published'
         /\ \A role : RoleOK(role) => RoleOK(role)'
         /\ \A ns : NameOK(ns) => NameOK(ns)'
         /\ \A s : SpecOK(s) => SpecOK(s)'
         /\ \A s, c, i : Checked(s, c, i) => Checked(s, c, i)'
         /\ \A v : VersionOK(v) => VersionOK(v)'
<1>1. Published \subseteq Published'
  BY ConfigMoves, JitConfigAssumption
     DEF TypeOK, Publish, Compile, Save, Lose, configVars, Published
<1>2. \A role : RoleOK(role) => RoleOK(role)'
  BY <1>1 DEF RoleOK
<1>3. \A ns : NameOK(ns) => NameOK(ns)'
  BY <1>1 DEF NameOK, NameAllowed, Expression
<1>4. \A s : SpecOK(s) => SpecOK(s)'
  BY <1>2, <1>3 DEF SpecOK, LabelsMatch
<1>5. \A s, c, i : Checked(s, c, i) => Checked(s, c, i)'
  BY <1>2, <1>3, <1>4 DEF Checked, LabelsMatch
<1> QED
  BY <1>1, <1>2, <1>3, <1>4, <1>5 DEF VersionOK, LabelsMatch

\* A file is saved only after its expression has been dealt with.
LEMMA PatternInForceStep ==
  ASSUME TypeOK, ChecksInForce, PatternInForce, [Next]_vars
  PROVE  PatternInForce'
<1>1. \A u \in Published : u \in Published'
  BY StaysOK
<1>2. CASE Publish \/ Lose
  BY <1>1, <1>2, ConfigMoves DEF PatternInForce, Publish, Lose, Expression, configVars
<1>3. CASE Compile /\ UNCHANGED job
  BY <1>1, <1>3, JitConfigAssumption
     DEF TypeOK, PatternInForce, Compile, Published, Expression
<1>4. CASE Save /\ UNCHANGED job
  <2>1. pattern = 0 => \E u \in Published : Expression(u) # "valid"
    BY <1>4, JitConfigAssumption DEF TypeOK, Save, DealtWith, Published
  <2> QED
    BY <1>1, <1>4, <2>1 DEF PatternInForce, Save, Expression
<1>5. CASE UNCHANGED configVars /\ (job' # Idle => job # Idle \/ file # 0)
  BY <1>1, <1>5 DEF PatternInForce, configVars, Expression, Published
<1> QED
  BY <1>2, <1>3, <1>4, <1>5, ConfigMoves

\* A name that matches the pattern is one that a version allows; without a pattern every
\* name is.
LEMMA MatchAllows ==
  ASSUME TypeOK, PatternInForce, file # 0 \/ job # Idle, NEW ns,
         pattern # 0 => Matches(ns, pattern)
  PROVE  NameOK(ns)
<1>1. CASE pattern = 0
  BY <1>1 DEF PatternInForce, NameOK, NameAllowed
<1>2. CASE pattern # 0
  <2>1. pattern \in Published
    BY <1>2, JitConfigAssumption DEF TypeOK, Published
  <2> QED
    BY <1>2, <2>1 DEF Matches, NameOK, NameAllowed
<1> QED
  BY <1>1, <1>2

\* So is each name of a spec that passes ValidateNamespaceRegex in the webhook.
LEMMA RegexAllows ==
  ASSUME TypeOK, PatternInForce, file # 0 \/ job # Idle, NEW s \in Specs, RegexMatches(s)
  PROVE  \A i \in 1..Len(s.namespaces) : NameOK(s.namespaces[i])
<1>1. s.namespaces \in Seq(Namespaces)
  BY ApiAssumption DEF SpecType
<1> QED
  BY <1>1, MatchAllows DEF RegexMatches

\* What the webhook admits is allowed.
LEMMA AdmittedOK ==
  ASSUME TypeOK, PatternInForce, Webhooks, NEW s \in Specs, Admitted(s)
  PROVE  SpecOK(s)
<1>1. file \in Published
  BY JitConfigAssumption DEF TypeOK, Admitted, Published
<1>2. RoleOK(s.role) /\ LabelsMatch(s)
  BY <1>1 DEF Admitted, RoleAllowed, RoleOK
<1>3. \A i \in 1..Len(s.namespaces) : NameOK(s.namespaces[i])
  BY RegexAllows DEF Admitted
<1> QED
  BY <1>2, <1>3 DEF SpecOK

\* Whoever has checked role and labels goes on with the names, or is through if there are
\* none or no pattern.
LEMMA NamesChecked ==
  ASSUME TypeOK, PatternInForce, job # Idle,
         RoleOK(Request.spec.role), LabelsMatch(Request.spec)
  PROVE  Checked(Request.spec, CallOfNames(Request.spec), 1)
<1> DEFINE s == Request.spec
<1>1. s.namespaces \in Seq(Namespaces)
  BY CopyInHand DEF SpecType
<1>2. pattern = 0 \/ s.namespaces = <<>> =>
        \A j \in 1..Len(s.namespaces) : NameOK(s.namespaces[j])
  BY <1>1, MatchAllows
<1>3. pattern = 0 \/ s.namespaces = <<>> => SpecOK(s)
  BY <1>2 DEF SpecOK
<1>4. ~(pattern = 0 \/ s.namespaces = <<>>) => CallOfNames(s) = "MatchNamespace"
  BY DEF CallOfNames
<1>5. CallOfNames(s) \in {"MatchNamespace", "CommentPreApproved", "UpdateRejected"}
  BY CallsOfNames
<1>6. CallOfNames(s) = "MatchNamespace" => \A j \in 1..(1 - 1) : NameOK(s.namespaces[j])
  OBVIOUS
<1> HIDE DEF s
<1>7. CallOfNames(s) # "ListNamespaces" /\ "MatchNamespace" \notin PreApproving
  BY <1>5 DEF PreApproving
<1>8. RoleOK(s.role) /\ LabelsMatch(s)
  BY DEF s
<1>9. Checked(s, CallOfNames(s), 1)
  BY <1>3, <1>4, <1>6, <1>7, <1>8 DEF Checked
<1> QED
  BY <1>9 DEF s

\* A new ticket: the role is one of those read before, the labels are the webhook's or to
\* be looked at.
LEMMA TicketChecked ==
  ASSUME TypeOK, VersionsOK, CopyOK, PatternInForce, job # Idle
  PROVE  Checked(Request.spec, CallOfTicket(Request.spec), 1)
<1> DEFINE s == Request.spec
<1>1. job \in Jobs /\ job.rev \in 1..Len(log[job.name])
  BY CopyInHand
<1>2. Webhooks \/ ~s.labelled => LabelsMatch(s)
  BY <1>1 DEF LabelsMatch, VersionsOK, VersionOK, Request, Jobs
<1>3. RoleAllowed(s, job.conf) => RoleOK(s.role)
  BY DEF RoleAllowed, RoleOK, CopyOK
<1>4. CASE ~RoleAllowed(s, job.conf)
  BY <1>4 DEF CallOfTicket, Checked, PreApproving
<1>5. CASE RoleAllowed(s, job.conf) /\ ~Webhooks /\ s.labelled
  BY <1>3, <1>5 DEF CallOfTicket, Checked, PreApproving
<1>6. CASE RoleAllowed(s, job.conf) /\ ~(~Webhooks /\ s.labelled)
  BY <1>2, <1>3, <1>6, NamesChecked DEF CallOfTicket
<1> QED
  BY <1>4, <1>5, <1>6

\* One more name matches.
LEMMA MatchChecked ==
  ASSUME TypeOK, CopyOK, PatternInForce, job # Idle, At("MatchNamespace"),
         pattern # 0, Matches(Request.spec.namespaces[job.next], pattern),
         MatchFrom(job.next + 1)
  PROVE  Checked(Request.spec, job'.call, job'.next)
<1>1. PICK s, i, k : s = Request.spec /\ i = job.next /\ k = job.next + 1
  OBVIOUS
<1>2. job \in Jobs /\ s.namespaces \in Seq(Namespaces)
  BY <1>1, CopyInHand DEF SpecType
<1>3. i \in Nat \ {0} /\ k = i + 1 /\ Len(s.namespaces) \in Nat
  BY <1>1, <1>2, CopyInHand DEF Jobs
<1>4. /\ job'.next = k
      /\ job'.call = IF k <= Len(s.namespaces) THEN "MatchNamespace" ELSE CallOfStart(s)
  BY <1>1, <1>2 DEF MatchFrom, Jobs
<1>5. NameOK(s.namespaces[i])
  BY <1>1, MatchAllows
<1>6. RoleOK(s.role) /\ LabelsMatch(s) /\ \A j \in 1..(i - 1) : NameOK(s.namespaces[j])
  BY <1>1 DEF CopyOK, Checked, At
<1>7. \A j \in 1..(k - 1) : NameOK(s.namespaces[j])
  <2>1. \A j \in 1..(k - 1) : j = i \/ j \in 1..(i - 1)
    BY <1>3
  <2> QED
    BY <1>5, <1>6, <2>1
<1>8. CASE k <= Len(s.namespaces)
  <2>1. Checked(s, "MatchNamespace", k)
    BY <1>6, <1>7 DEF Checked, PreApproving
  <2> QED
    BY <1>1, <1>4, <1>8, <2>1
<1>9. CASE ~(k <= Len(s.namespaces))
  <2>1. \A j \in 1..Len(s.namespaces) : j \in 1..(k - 1)
    BY <1>3, <1>9
  <2>2. SpecOK(s)
    BY <1>6, <1>7, <2>1 DEF SpecOK
  <2>3. job'.call \in {"CommentPreApproved", "UpdateRejected"}
    BY <1>1, <1>4, <1>9, CallsOfNames
  <2>4. Checked(s, job'.call, job'.next)
    BY <2>2, <2>3 DEF Checked
  <2> QED
    BY <1>1, <2>4
<1> QED
  BY <1>8, <1>9

-----------------------------------------------------------------------------
(* The versions of the requests.                                             *)

\* One more version that is right leaves all of them right.
LEMMA AppendedOK ==
  ASSUME TypeOK, ChecksInForce, VersionsOK, [Next]_vars,
         NEW n \in Names, NEW v \in Versions, Write(n, v), VersionOK(v)
  PROVE  VersionsOK'
<1>1. log \in [Names -> Seq(Versions)]
  BY DEF TypeOK
<1>2. /\ \A m \in Names : Len(log'[m]) = IF m = n THEN Len(log[m]) + 1 ELSE Len(log[m])
      /\ \A m \in Names : \A i \in 1..Len(log[m]) : log'[m][i] = log[m][i]
      /\ log'[n][Len(log[n]) + 1] = v
  BY <1>1, WriteAppends
<1>3. ASSUME NEW m \in Names, NEW i \in 1..Len(log'[m])  PROVE VersionOK(log'[m][i])
  <2>1. Len(log[m]) \in Nat
    BY <1>1
  <2>2. CASE i \in 1..Len(log[m])
    BY <1>2, <2>2 DEF VersionsOK
  <2>3. CASE m = n /\ i = Len(log[n]) + 1
    BY <1>2, <2>3
  <2> QED
    BY <1>2, <2>1, <2>2, <2>3
<1>4. \A v1 : VersionOK(v1) => VersionOK(v1)'
  BY StaysOK
<1> QED
  BY <1>3, <1>4 DEF VersionsOK

\* The latest version is one of them.
LEMMA LatestOK ==
  ASSUME TypeOK, VersionsOK, NEW n \in Names, Live(n)
  PROVE  Latest(n) \in Versions /\ VersionOK(Latest(n))
<1>1. log[n] \in Seq(Versions) /\ log[n] # <<>>
  BY DEF TypeOK, Live
<1>2. Len(log[n]) \in 1..Len(log[n])
  BY <1>1
<1> QED
  BY <1>1, <1>2 DEF VersionsOK, Latest

\* A deletion keeps the spec.
LEMMA DeleteOK ==
  ASSUME TypeOK, ChecksInForce, VersionsOK, [Next]_vars, NEW n \in Names, Delete(n)
  PROVE  VersionsOK'
<1> DEFINE v == [Latest(n) EXCEPT !.state = "Deleted"]
<1>1. Latest(n) \in Versions /\ VersionOK(Latest(n))
  BY LatestOK DEF Delete
<1>2. v \in Versions /\ v.spec = Latest(n).spec /\ v.state = "Deleted"
  BY <1>1 DEF Versions, States
<1>3. Write(n, v)
  BY DEF Delete
<1> HIDE DEF v
<1>4. VersionOK(v)
  BY <1>1, <1>2 DEF VersionOK
<1> QED
  BY <1>2, <1>3, <1>4, AppendedOK

\* The worker writes the spec it has checked.
LEMMA UpdateOK ==
  ASSUME TypeOK, WorkerKnows, ChecksInForce, VersionsOK, CopyOK, [Next]_vars, WorkerWrites
  PROVE  VersionsOK'
<1> DEFINE v == [Request EXCEPT !.state = StateAfter(job.call), !.ticket = job.issue,
                                !.startTime = Request.spec.startTime,
                                !.endTime = Request.spec.endTime]
<1>1. /\ job \in Jobs /\ job.rev \in 1..Len(log[job.name])
      /\ Request \in Versions /\ Request.spec \in SpecType
  BY CopyInHand DEF WorkerWrites
<1>2. v \in Versions /\ v.spec = Request.spec /\ v.state = StateAfter(job.call)
  BY <1>1 DEF Versions, SpecType, Jobs, StateAfter, States
<1>3. Write(job.name, v)
  BY DEF WorkerWrites, updateStatus
<1> HIDE DEF v
<1>4. Webhooks => LabelsMatch(Request.spec)
  BY <1>1 DEF VersionsOK, VersionOK, Request, Jobs
<1>5. StateAfter(job.call) = "Pre-Approved" => SpecOK(Request.spec)
  BY DEF WorkerWrites, StateAfter, CopyOK, Checked, PreApproving
<1>6. VersionOK(v)
  BY <1>2, <1>4, <1>5 DEF VersionOK
<1> QED
  BY <1>1, <1>2, <1>3, <1>6, AppendedOK DEF Jobs

\* VersionsOK is kept: a pre-approved spec is edited only through the webhook.
LEMMA VersionsOKStep ==
  ASSUME TypeOK, WorkerKnows, ChecksInForce, VersionsOK, CopyOK, PatternInForce, [Next]_vars
  PROVE  VersionsOK'
<1>1. CASE UNCHANGED log
  BY <1>1, StaysOK DEF VersionsOK
<1>2. ASSUME NEW n \in Names, NEW s \in Specs, CreateRequest(n, s)  PROVE VersionsOK'
  <2> DEFINE v == [uid |-> Len(log[n]) + 1, spec |-> s, state |-> "",
                   ticket |-> 0, startTime |-> 0, endTime |-> 0]
  <2>1. Len(log[n]) \in Nat
    BY DEF TypeOK
  <2>2. v \in Versions /\ v.spec = s /\ v.state = ""
    BY <2>1 DEF Versions, States
  <2>3. Write(n, v) /\ Admitted(s)
    BY <1>2 DEF CreateRequest, Create
  <2> HIDE DEF v
  <2>4. VersionOK(v)
    BY <2>2, <2>3 DEF VersionOK, Admitted
  <2> QED
    BY <2>2, <2>3, <2>4, AppendedOK
<1>3. ASSUME NEW n \in Names, NEW s \in Specs, EditRequest(n, s)  PROVE VersionsOK'
  <2> DEFINE v == [Latest(n) EXCEPT !.spec = s]
  <2>1. Live(n) /\ Admitted(s) /\ Write(n, v) /\ (Webhooks \/ s = Latest(n).spec)
    BY <1>3 DEF EditRequest, ChecksInForce
  <2>2. Latest(n) \in Versions /\ VersionOK(Latest(n))
    BY <2>1, LatestOK
  <2>3. v \in Versions /\ v.spec = s /\ v.state = Latest(n).state
    BY <2>2 DEF Versions
  <2> HIDE DEF v
  <2>4. CASE s = Latest(n).spec
    BY <2>1, <2>2, <2>3, <2>4, AppendedOK DEF VersionOK
  <2>5. CASE Webhooks
    <3>1. SpecOK(s)
      BY <2>1, <2>5, AdmittedOK
    <3>2. VersionOK(v)
      BY <2>3, <3>1 DEF VersionOK, SpecOK
    <3> QED
      BY <2>1, <2>3, <3>2, AppendedOK
  <2> QED
    BY <2>1, <2>4, <2>5
<1>4. CASE Work \/ CallFails \/ AnswerLost
  <2>1. job # Idle /\ UNCHANGED now /\ CallDoes
    BY <1>4, CallDoesOneThing
  <2>2. CASE job.call \in Updates /\ updateStatus(StateAfter(job.call))
    BY <2>1, <2>2, UpdateOK DEF WorkerWrites, updateStatus
  <2>3. CASE deleteJitRequest
    BY <2>1, <2>3, CopyInHand, DeleteOK DEF deleteJitRequest, Jobs
  <2> QED
    BY <1>1, <2>1, <2>2, <2>3 DEF CallDoes, NoEffect, FileIssue, MoveIssue, CreateBinding
<1>5. ASSUME NEW n \in Names, WithdrawRequest(n)  PROVE VersionsOK'
  BY <1>5, DeleteOK DEF WithdrawRequest
<1> QED
  BY <1>1, <1>2, <1>3, <1>4, <1>5
     DEF Next, Operator, Reconcile, Restart, ConfigChanges, ConfigPublished, ConfigCompiled,
         ConfigSaved, ConfigLost, CollectGarbage, Tick, Deliver, Relist, TakeOver, WakeUp,
         ApproveTicket, VetoTicket, apiVars, vars

-----------------------------------------------------------------------------
(* The copy in hand.                                                         *)

\* The calls that a check comes before.
AfterCheck == PreApproving \union {"ListNamespaces", "MatchNamespace"}

\* The worker comes to a pre-approval by way of the checks.
LEMMA WorkerMoves ==
  ASSUME TypeOK, VersionsOK, CopyOK, PatternInForce, job # Idle,
         Work \/ CallFails \/ AnswerLost
  PROVE  \/ job' = Idle
         \/ /\ job'.conf = job.conf
            /\ \/ job'.call \notin AfterCheck
               \/ /\ job'.name = job.name /\ job'.rev = job.rev
                  /\ Checked(Request.spec, job'.call, job'.next)
<1>1. job \in Jobs
  BY CopyInHand
<1>2. ASSUME NEW c, Call(c), c \notin AfterCheck
      PROVE  job'.conf = job.conf /\ job'.call \notin AfterCheck
  BY <1>1, <1>2 DEF Call, Jobs
<1>3. CASE OnError
  BY <1>2, <1>3 DEF OnError, Done, Retry, AfterCheck, PreApproving
<1>4. CASE CreateIssue
  <2>1. /\ job'.conf = job.conf /\ job'.name = job.name /\ job'.rev = job.rev
        /\ job'.next = 1 /\ job'.call = CallOfTicket(Request.spec)
    BY <1>1, <1>4 DEF CreateIssue, Jobs
  <2> QED
    BY <2>1, TicketChecked
<1>5. ASSUME NEW i, BindFrom(i)  PROVE job'.conf = job.conf /\ job'.call \notin AfterCheck
  BY <1>1, <1>5 DEF BindFrom, Jobs, AfterCheck, PreApproving
<1>6. CASE UpdateSucceeded
  BY <1>1, <1>3, <1>6 DEF UpdateSucceeded, RequeueAt, Refused, Jobs, AfterCheck, PreApproving
<1>7. CASE FindReporter \/ GetIssue \/ CommentCompleted \/ CommentRejected \/ QuotePattern
  BY <1>2, <1>3, <1>5, <1>7
     DEF FindReporter, GetIssue, CommentCompleted, CommentRejected, QuotePattern, Retry,
         AfterCheck, PreApproving
<1>8. CASE MoveCompleted \/ MoveRejected \/ CreateRoleBinding
  BY <1>2, <1>3, <1>5, <1>8
     DEF MoveCompleted, MoveRejected, CreateRoleBinding, Refused, AfterCheck, PreApproving
<1>9. CASE UpdatePreApproved \/ UpdateRejected \/ UpdateSkipped \/ DeleteRequest
  BY <1>3, <1>9
     DEF UpdatePreApproved, UpdateRejected, UpdateSkipped, DeleteRequest, Done, RequeueAt,
         Refused
<1>10. CASE CallFails \/ AnswerLost
  BY <1>3, <1>10 DEF CallFails, AnswerLost, Refused
<1>11. CASE CommentPreApproved
  <2>1. /\ job'.conf = job.conf /\ job'.name = job.name /\ job'.rev = job.rev
        /\ job'.call = "UpdatePreApproved" /\ job.call = "CommentPreApproved"
    BY <1>1, <1>11 DEF CommentPreApproved, Call, Jobs, At
  <2> QED
    BY <2>1 DEF CopyOK, Checked, PreApproving
<1>12. CASE ListNamespaces
  <2> DEFINE s == Request.spec
  <2>1. /\ job'.conf = job.conf /\ job'.name = job.name /\ job'.rev = job.rev
        /\ job'.next = 1 /\ job.call = "ListNamespaces"
        /\ job'.call = IF LabelsMatch(s) THEN CallOfNames(s) ELSE "UpdateRejected"
    BY <1>1, <1>12 DEF ListNamespaces, Jobs, At
  <2>2. RoleOK(s.role)
    BY <2>1 DEF CopyOK, Checked
  <2>3. CASE LabelsMatch(s)
    BY <2>1, <2>2, <2>3, NamesChecked
  <2>4. CASE ~LabelsMatch(s)
    BY <2>1, <2>4 DEF AfterCheck, PreApproving
  <2> QED
    BY <2>3, <2>4
<1>13. CASE MatchNamespace
  <2>1. CASE job' = Idle
    BY <2>1
  <2>2. CASE Call("QuotePattern")
    BY <1>2, <2>2 DEF AfterCheck, PreApproving
  <2>3. CASE /\ pattern # 0 /\ Matches(Request.spec.namespaces[job.next], pattern)
             /\ MatchFrom(job.next + 1)
    <3>1. At("MatchNamespace")
      BY <1>13 DEF MatchNamespace
    <3>2. job'.conf = job.conf /\ job'.name = job.name /\ job'.rev = job.rev
      BY <1>1, <2>3 DEF MatchFrom, Jobs
    <3> QED
      BY <2>3, <3>1, <3>2, MatchChecked
  <2> QED
    BY <1>13, <2>1, <2>2, <2>3 DEF MatchNamespace, Retry
<1> QED
  BY <1>3, <1>4, <1>6, <1>7, <1>8, <1>9, <1>10, <1>11, <1>12, <1>13 DEF Work

\* CopyOK is kept: the copy never changes, and what was checked of it stays allowed.
LEMMA CopyOKStep ==
  ASSUME TypeOK, TicketIsOwn, WorkerKnows, ChecksInForce,
         VersionsOK, CopyOK, PatternInForce, [Next]_vars
  PROVE  CopyOK'
<1>1. /\ Published \subseteq Published'
      /\ \A s, c, i : Checked(s, c, i) => Checked(s, c, i)'
  BY StaysOK
<1>2. job # Idle => log'[job.name][job.rev] = Request
  BY StepFootprint, CopyStays
<1>3. CASE UNCHANGED job
  BY <1>1, <1>2, <1>3 DEF CopyOK, Request
<1>4. CASE job' = Idle
  BY <1>4 DEF CopyOK
<1>5. CASE Work \/ CallFails \/ AnswerLost
  <2>1. job # Idle
    BY <1>5, CallDoesOneThing
  <2>2. CASE job'.conf = job.conf /\ job'.call \notin AfterCheck
    BY <1>1, <2>1, <2>2 DEF CopyOK, Checked, AfterCheck, PreApproving
  <2>3. CASE /\ job'.conf = job.conf /\ job'.name = job.name /\ job'.rev = job.rev
             /\ Checked(Request.spec, job'.call, job'.next)
    <3>1. Request' = Request
      BY <1>2, <2>1, <2>3 DEF Request
    <3>2. PICK s, c, i : s = Request.spec /\ c = job'.call /\ i = job'.next
      OBVIOUS
    <3>3. Checked(s, c, i)'
      BY <1>1, <2>3, <3>2
    <3> QED
      BY <1>1, <2>1, <2>3, <3>1, <3>2, <3>3 DEF CopyOK
  <2> QED
    BY <1>4, <1>5, <2>1, <2>2, <2>3, WorkerMoves
<1>6. ASSUME NEW n \in Names, Reconcile(n)  PROVE CopyOK'
  <2>1. CASE handleFetchError(n) \/ ReadConfigFromFile(n)
    BY <1>4, <2>1 DEF handleFetchError, ReadConfigFromFile, Done, Retry
  <2>2. ASSUME file # 0, NEW c, NEW k, Begin(n, c, k), c \notin AfterCheck  PROVE CopyOK'
    <3>1. job'.conf = file /\ job'.call = c
      BY <2>2 DEF Begin
    <3>2. file \in Published
      BY <2>2, JitConfigAssumption DEF TypeOK, Published
    <3> QED
      BY <1>1, <2>2, <3>1, <3>2 DEF CopyOK, Checked, AfterCheck, PreApproving
  <2>3. CASE file # 0 /\ (handleRejected(n) \/ handleNewRequest(n))
    <3>1. \E c \in Calls \ AfterCheck, k \in {Cached(n).ticket, Skipped} : Begin(n, c, k)
      BY <2>3 DEF handleRejected, handleNewRequest, AfterCheck, PreApproving, Calls
    <3> QED
      BY <2>2, <2>3, <3>1
  <2>4. CASE file # 0 /\ handlePreApproved(n)
    BY <1>4, <2>2, <2>4 DEF handlePreApproved, RequeueAt, AfterCheck, PreApproving
  <2>5. CASE file # 0 /\ handleCleanup(n)
    BY <1>4, <2>2, <2>5 DEF handleCleanup, RequeueAt, AfterCheck, PreApproving
  <2> QED
    BY <1>6, <2>1, <2>3, <2>4, <2>5 DEF Reconcile
<1> QED
  BY <1>3, <1>5, <1>6
     DEF Next, Operator, Restart, ChecksInForce, ConfigChanges, ConfigPublished,
         ConfigCompiled, ConfigSaved, ConfigLost, CollectGarbage, Tick, Deliver, Relist,
         TakeOver, WakeUp, WithdrawRequest, CreateRequest, EditRequest, ApproveTicket,
         VetoTicket, vars

-----------------------------------------------------------------------------
(* The RoleBindings.                                                         *)

\* A pre-approval that was there is there after the step.
LEMMA GrantStays ==
  ASSUME TypeOK, TicketIsOwn, WorkerKnows, [Next]_vars, NEW b \in Bindings,
         NEW i \in 1..Len(log[b.name]), GrantedBy(b, log[b.name][i])
  PROVE  \E j \in 1..Len(log'[b.name]) : GrantedBy(b, log'[b.name][j])
<1>1. /\ Grows
      /\ log \in [Names -> Seq(Versions)] /\ log' \in [Names -> Seq(Versions)]
  BY StepFootprint, FootprintGrows DEF TypeOK
<1>2. b.name \in Names
  BY DEF Bindings
<1>3. log'[b.name][i] = log[b.name][i] /\ Len(log[b.name]) <= Len(log'[b.name])
  BY <1>1, <1>2 DEF Grows
<1>4. i \in 1..Len(log'[b.name])
  BY <1>1, <1>2, <1>3
<1> QED
  BY <1>3, <1>4

\* BindingsOK is kept: the copy from which a RoleBinding is made is pre-approved.
LEMMA BindingsOKStep ==
  ASSUME TypeOK, TicketIsOwn, WorkerKnows, BindingsOK, [Next]_vars
  PROVE  BindingsOK'
<1> SUFFICES ASSUME NEW b \in bindings'
             PROVE  \E j \in 1..Len(log'[b.name]) : GrantedBy(b, log'[b.name][j])
  BY DEF BindingsOK, GrantedBy
<1>1. CASE b \in bindings
  BY <1>1, GrantStays DEF BindingsOK, TypeOK
<1>2. CASE b \notin bindings
  <2>1. job # Idle /\ At("CreateRoleBinding") /\ CreateBinding
    BY <1>2, BindingsStep
  <2>2. /\ b \in Bindings /\ b.name = job.name /\ b.uid = Request.uid
        /\ b.role = Request.spec.role /\ b.namespace = Request.spec.namespaces[job.next]
    BY <1>2, <2>1, BindingAdded
  <2>3. /\ job.rev \in 1..Len(log[job.name]) /\ job \in Jobs
        /\ Request.state = "Pre-Approved"
    BY <2>1, CopyInHand DEF WorkerKnows, StatesBefore, Reads, At
  <2>4. job.next \in 1..Len(Request.spec.namespaces)
    BY <2>1, <2>3 DEF TypeOK, JobTypeOK, Jobs
  <2>5. GrantedBy(b, log[b.name][job.rev])
    BY <2>2, <2>3, <2>4 DEF GrantedBy, Request
  <2> QED
    BY <2>2, <2>3, <2>5, GrantStays
<1> QED
  BY <1>1, <1>2

-----------------------------------------------------------------------------
(* The theorem.                                                              *)

\* At the start nothing is requested, granted or read.
LEMMA GrantInit ==
  ASSUME Init  PROVE GrantInductive
<1>1. \A n \in Names : log[n] = <<>>
  BY DEF Init, ApiInit
<1>2. VersionsOK
  BY <1>1 DEF VersionsOK
<1>3. bindings = {} /\ job = Idle /\ file = 0 /\ pattern = 0
  BY DEF Init, ApiInit, JitConfigInit
<1> QED
  BY <1>2, <1>3 DEF GrantInductive, CopyOK, PatternInForce, BindingsOK

\* Every step keeps the invariant.
LEMMA GrantStep ==
  ASSUME Inductive, ChecksInForce, GrantInductive, [Next]_vars  PROVE GrantInductive'
BY VersionsOKStep, CopyOKStep, PatternInForceStep, BindingsOKStep DEF Inductive, GrantInductive

\* The invariant is enough: role, namespace and labels are those of the pre-approval.
LEMMA GrantFollows ==
  ASSUME Inductive, GrantInductive  PROVE GrantIsAllowed
<1> SUFFICES ASSUME NEW b \in bindings
             PROVE  \E i \in DOMAIN log[b.name] :
                      LET v == log[b.name][i]
                      IN /\ v.uid = b.uid /\ v.state = "Pre-Approved"
                         /\ v.spec.role = b.role
                         /\ \E j \in DOMAIN v.spec.namespaces :
                              v.spec.namespaces[j] = b.namespace
                         /\ \E u \in Published : b.role \in Configs[u].roles
                         /\ \E u \in Published : NameAllowed(b.namespace, u)
                         /\ v.spec.labelled => b.namespace \in LabelledNamespaces
  BY DEF GrantIsAllowed
<1>1. PICK i \in 1..Len(log[b.name]) : GrantedBy(b, log[b.name][i])
  BY DEF GrantInductive, BindingsOK
<1> DEFINE v == log[b.name][i]
<1>2. b.name \in Names /\ log[b.name] \in Seq(Versions)
  BY DEF Inductive, TypeOK, Bindings
<1>3. v \in Versions /\ SpecOK(v.spec)
  BY <1>1, <1>2 DEF GrantInductive, VersionsOK, VersionOK, GrantedBy
<1>4. v.spec.namespaces \in Seq(Namespaces)
  BY <1>3, ApiAssumption DEF Versions, SpecType
<1>5. PICK j \in 1..Len(v.spec.namespaces) : v.spec.namespaces[j] = b.namespace
  BY <1>1 DEF GrantedBy
<1>6. RoleOK(b.role) /\ NameOK(b.namespace)
  BY <1>1, <1>3, <1>5 DEF SpecOK, GrantedBy
<1>7. v.spec.labelled => b.namespace \in LabelledNamespaces
  BY <1>3, <1>4, <1>5 DEF SpecOK, LabelsMatch
<1>8. i \in DOMAIN log[b.name] /\ j \in DOMAIN v.spec.namespaces
  BY <1>2, <1>4
<1> HIDE DEF v
<1> QED
  BY <1>1, <1>5, <1>6, <1>7, <1>8 DEF v, RoleOK, NameOK, GrantedBy

\* Access is what was pre-approved and what a published configuration allowed, although
\* roles, names and labels are checked by two processes at different times against a
\* configuration that goes on changing (handleNewRequest, validateJitRequestSpec).
THEOREM GrantsAreAllowed ==
  ASSUME ChecksInForce  PROVE Spec => []GrantIsAllowed
<1>1. Init => GrantInductive
  BY GrantInit
<1>2. Inductive /\ GrantInductive /\ [Next]_vars => GrantInductive'
  BY GrantStep
<1>3. Inductive /\ GrantInductive => GrantIsAllowed
  BY GrantFollows
<1> QED
  BY <1>1, <1>2, <1>3, InductiveInvariant, PTL DEF Spec
=============================================================================
