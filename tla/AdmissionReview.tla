--------------------------- MODULE AdmissionReview ---------------------------
(***************************************************************************)
(* The admission webhook: reviews of JitRequests run side by side, each    *)
(* reads the configuration file once, the global pattern once for every    *)
(* namespace and Jira once for every user, while the configuration         *)
(* controller, faults and the clock go on.  A review is cut at each of     *)
(* these reads; what it computes in between is part of the step.           *)
(***************************************************************************)
EXTENDS OperatorConfig

CONSTANTS
  Namespaces, \* namespaces a spec may name
  Submitted,  \* the specs users submit
  Labelled,   \* namespaces that carry the labels a spec asks for
  Accounts,   \* Accounts[e]: the accounts Jira finds for the e-mail e, a sequence
  NoEmail,    \* the empty string
  LastInstant \* bound of the model: the clock stops there

\* The three getters are those of the fields the webhook reads.
ASSUME ReviewAssumption ==
  /\ Getters = 3 /\ LastInstant \in Nat
  /\ \A s \in Submitted : /\ s.namespaces \in Seq(Namespaces)
                          /\ s.startTime \in Nat /\ s.endTime \in Nat

VARIABLES
  now,     \* the clock
  review   \* review[r]: where it is, its spec, the next namespace, the user fields left

reviewVars == <<now, review>>
allVars == <<vars, reviewVars>>

\* "failed" is a rejection too: its cause is a look-up that got no answer.
Verdicts == {"admitted", "rejected", "failed", "errored"}

\* Where a review is: before the read of the file or at a later one, or through.
Stages == Verdicts \union
            {"none", "file", "pattern", "match", "quote", "labels", "reporter", "users"}

NoReview == [at |-> "none"]

At(r, stage) == review[r].at = stage

Reviewed(r) == review[r].spec

GoTo(r, stage) == review' = [review EXCEPT ![r].at = stage]

\* A failed check ends the review.
Check(r, holds, stage) == GoTo(r, IF holds THEN stage ELSE "rejected")

-----------------------------------------------------------------------------
(* What a check looks at: a spec s and the content c of the file, whose      *)
(* first, seventh and last field are the ones the webhook reads.             *)

RoleAllowed(s, c) == s.role \in Configs[c[1]].roles

UserFields(c) == Configs[c[2]].users

FieldsGiven(s, c) == Configs[c[2]].fields \subseteq DOMAIN s.jiraFields

TimesInOrder(s) == s.startTime < s.endTime

\* ValidateNamespaceLabels
LabelsMatch(s) ==
  s.labelled => \A i \in DOMAIN s.namespaces : s.namespaces[i] \in Labelled

Matches(ns, v) == ns \in Configs[v].matches

\* GetNameByEmail takes the first account that Jira finds.
Known(e) == Accounts[e] # <<>>

Account(e) == Accounts[e][1]

\* Slip: the e-mails are compared, not the accounts behind them.
UserFitsByEmail(s, c, f) ==
  LET e == s.jiraFields[f]
  IN /\ e # NoEmail /\ Known(e)
     /\ Configs[c[3]].selfApproval \/ e # s.reporter

\* Slip: self approval is refused whatever the configuration says.
UserFitsStrictly(s, c, f) ==
  LET e == s.jiraFields[f]
  IN e # NoEmail /\ Known(e) /\ Account(e) # Account(s.reporter)

\* A user field names a Jira user who is not the reporter.
UserFits(s, c, f) ==
  LET e == s.jiraFields[f]
  IN /\ e # NoEmail /\ Known(e)
     /\ Configs[c[3]].selfApproval \/ Account(e) # Account(s.reporter)

-----------------------------------------------------------------------------
(* The reads of a review (validateJitRequestSpec).                           *)

\* ValidateCreate and ValidateUpdate alike.
Receive(r, s) ==
  /\ At(r, "none")
  /\ review' = [review EXCEPT ![r] = [at |-> "file", spec |-> s, next |-> 0, left |-> {}]]
  /\ UNCHANGED <<vars, now>>

WaitForFile(r) == At(r, "file") /\ RLock(r) /\ UNCHANGED reviewVars

\* The file, then the role and the times.
ReadFile(r) ==
  /\ At(r, "file") /\ ReadConfigFromFile(r)
  /\ IF disk = <<>>
     THEN GoTo(r, "errored")
     ELSE Check(r, /\ RoleAllowed(Reviewed(r), disk)
                   /\ now < Reviewed(r).startTime /\ TimesInOrder(Reviewed(r)), "pattern")
  /\ UNCHANGED now

\* ValidateNamespaceRegex: is there an expression at all?
CheckPattern(r) ==
  /\ At(r, "pattern")
  /\ review' = [review EXCEPT
       ![r].at   = IF pattern = 0 \/ Reviewed(r).namespaces = <<>> THEN "labels" ELSE "match",
       ![r].next = IF pattern = 0 THEN 0 ELSE 1]
  /\ UNCHANGED <<vars, now>>

\* Slip: the loop takes one namespace too many.
MatchOneMore(r) ==
  /\ At(r, "match") /\ pattern # 0
  /\ review' = [review EXCEPT
       ![r].at   = IF review[r].next > Len(Reviewed(r).namespaces) THEN "labels" ELSE "match",
       ![r].next = @ + 1]
  /\ UNCHANGED <<vars, now>>

\* The global is read again for each namespace; if it is nil by now, MatchString panics.
MatchNamespace(r) ==
  LET i == review[r].next
      namespaces == Reviewed(r).namespaces
  IN /\ At(r, "match")
     /\ \/ pattern = 0 /\ GoTo(r, "errored")
        \/ /\ pattern # 0 /\ Matches(namespaces[i], pattern)
           /\ review' = [review EXCEPT
                ![r].at   = IF i = Len(namespaces) THEN "labels" ELSE "match",
                ![r].next = @ + 1]
        \/ pattern # 0 /\ ~Matches(namespaces[i], pattern) /\ GoTo(r, "quote")
     /\ UNCHANGED <<vars, now>>

\* The message of a mismatch quotes the expression: another read of the global.
QuotePattern(r) ==
  /\ At(r, "quote")
  /\ GoTo(r, IF pattern = 0 THEN "errored" ELSE "rejected")
  /\ UNCHANGED <<vars, now>>

\* The namespaces' labels, then the custom fields.
CheckLabels(r) ==
  /\ At(r, "labels")
  /\ Check(r, LabelsMatch(Reviewed(r)) /\ FieldsGiven(Reviewed(r), got[r]), "reporter")
  /\ UNCHANGED <<vars, now>>

FindReporter(r) ==
  /\ At(r, "reporter")
  /\ review' = [review EXCEPT
       ![r].left = UserFields(got[r]),
       ![r].at   = IF ~Known(Reviewed(r).reporter) THEN "rejected"
                   ELSE IF UserFields(got[r]) = {} THEN "admitted" ELSE "users"]
  /\ UNCHANGED <<vars, now>>

\* The fields are a map: one of those left is next.
FindUser(r) ==
  /\ At(r, "users")
  /\ \E f \in review[r].left :
       review' = [review EXCEPT
         ![r].left = @ \ {f},
         ![r].at   = IF ~UserFits(Reviewed(r), got[r], f) THEN "rejected"
                     ELSE IF review[r].left = {f} THEN "admitted" ELSE "users"]
  /\ UNCHANGED <<vars, now>>

\* Slip: whoever cannot be looked up is passed over.
LookUpFailsOpen(r) ==
  /\ At(r, "users")
  /\ GoTo(r, "admitted")
  /\ UNCHANGED <<vars, now>>

\* An error of Kubernetes or Jira counts as a broken rule.
LookUpFails(r) ==
  /\ (At(r, "labels") /\ Reviewed(r).labelled) \/ At(r, "reporter") \/ At(r, "users")
  /\ GoTo(r, "failed")
  /\ UNCHANGED <<vars, now>>

Proceed(r) ==
  \/ WaitForFile(r) \/ ReadFile(r) \/ CheckPattern(r) \/ MatchNamespace(r)
  \/ QuotePattern(r) \/ CheckLabels(r) \/ FindReporter(r) \/ FindUser(r)

-----------------------------------------------------------------------------
\* Whoever waits for an answer of a process that ends is refused (failurePolicy=fail).
CrashAll == Crash /\ review' = [r \in Readers |-> NoReview] /\ UNCHANGED now

Tick == now < LastInstant /\ now' = now + 1 /\ UNCHANGED <<vars, review>>

ReviewInit == Init /\ now = 0 /\ review = [r \in Readers |-> NoReview]

ReviewNext ==
  \/ ConfigNext /\ UNCHANGED reviewVars
  \/ CrashAll \/ Tick
  \/ \E r \in Readers : Proceed(r) \/ LookUpFails(r) \/ \E s \in Submitted : Receive(r, s)

ReviewSpec == ReviewInit /\ [][ReviewNext]_allVars

\* The configuration's fairness, and every review goes on to its verdict: Kubernetes and
\* Jira answer.
ReviewFairSpec == ReviewSpec /\ Fairness /\ \A r \in Readers : WF_allVars(Proceed(r))

-----------------------------------------------------------------------------
(* What a verdict has to mean.                                               *)

Reviews == [at : Stages \ {"none"}, spec : Submitted, next : Nat,
            left : SUBSET UNION {Configs[v].users : v \in 1..Len(Configs)}]

\* A review is somewhere in validateJitRequestSpec, at a namespace or user field there is.
ReviewTypeOK ==
  /\ now \in 0..LastInstant
  /\ review \in [Readers -> Reviews \union {NoReview}]
  /\ \A r \in Readers :
       /\ At(r, "match") => review[r].next \in DOMAIN Reviewed(r).namespaces
       /\ At(r, "users") => review[r].left # {} /\ review[r].left \subseteq UserFields(got[r])
       /\ r \in inside => At(r, "file")

Filtered(r) == review[r].next > 0

\* Nothing is admitted that the configuration file forbade when the review read it, or
\* whose names no published expression matches, whatever is published or fails meanwhile:
\* a check that cannot be made never admits (validateJitRequestSpec).
AdmittedIsAllowed ==
  \A r \in Readers : At(r, "admitted") =>
    LET s == Reviewed(r)
        c == got[r]
        users == {s.jiraFields[f] : f \in UserFields(c)}
    IN /\ RoleAllowed(s, c) /\ FieldsGiven(s, c) /\ TimesInOrder(s) /\ LabelsMatch(s)
       /\ Accounts[s.reporter] # <<>>
       /\ \A e \in users : e # NoEmail /\ Accounts[e] # <<>>
       /\ ~Configs[c[3]].selfApproval =>
            \A e \in users : Accounts[e][1] # Accounts[s.reporter][1]
       /\ Filtered(r) => \A i \in DOMAIN s.namespaces :
            \E v \in 1..config : Expression(v) = "valid" /\ Matches(s.namespaces[i], v)

\* As long as every published version has an expression that compiles, no review finds the
\* file without a pattern, whatever saves fail: Reconcile compiles before it saves (lines
\* 89 and 99).  Only a crash takes the pattern and may leave the file.
FilteredWhenConfigured ==
  \A r \in Readers :
    /\ review[r].at \in {"labels", "reporter", "users", "admitted"}
    /\ faults["crash"] = MaxFaults["crash"] /\ \A v \in 1..config : Expression(v) = "valid"
    => Filtered(r)

\* What is wrong with the reporter or another user.
BadUser(s, c) ==
  \/ Accounts[s.reporter] = <<>>
  \/ \E f \in UserFields(c) :
       LET e == s.jiraFields[f]
       IN \/ e = NoEmail \/ Accounts[e] = <<>>
          \/ ~Configs[c[3]].selfApproval /\ Accounts[e][1] = Accounts[s.reporter][1]

\* Nobody is refused for no reason: a rejected request breaks a rule of the file the
\* review read, of a published expression or of the clock, and a review errs only when the
\* file cannot be read or an invalid expression took the pattern away between two reads
\* of it (ValidateNamespaceRegex).
RefusedForReason ==
  \A r \in Readers :
    LET s == Reviewed(r)
        c == got[r]
    IN /\ At(r, "rejected") =>
            \/ ~RoleAllowed(s, c) \/ s.startTime <= now \/ ~TimesInOrder(s)
            \/ ~LabelsMatch(s) \/ ~FieldsGiven(s, c) \/ BadUser(s, c)
            \/ \E i \in DOMAIN s.namespaces, v \in 1..config :
                 Expression(v) = "valid" /\ ~Matches(s.namespaces[i], v)
       /\ At(r, "errored") => c = <<>> \/ \E v \in 1..config : Expression(v) = "invalid"

\* Every review ends, with a verdict or with the process: writers and readers of the file
\* never wait for each other for ever.
ReviewsEnd ==
  \A r \in Readers : At(r, "file") ~> review[r].at \in Verdicts \union {"none"}
=============================================================================
