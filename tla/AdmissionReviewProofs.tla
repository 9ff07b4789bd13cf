------------------------ MODULE AdmissionReviewProofs ------------------------
(***************************************************************************)
(* What a verdict of the webhook means, for all versions of the            *)
(* configuration, all specs, all users of Jira and any number of reviews   *)
(* at a time.                                                              *)
(***************************************************************************)
EXTENDS AdmissionReview, OperatorConfigProofs

\* To the configuration controller reviews are readers and nothing else.
LEMMA ReviewStepsAreReads ==
  ASSUME [ReviewNext]_allVars  PROVE [Next]_vars
<1>1. CASE UNCHANGED allVars \/ Tick
  BY <1>1 DEF allVars, Tick
<1>2. CASE ConfigNext \/ CrashAll
  BY <1>2 DEF CrashAll, Next
<1>3. ASSUME NEW r \in Readers, Proceed(r)  PROVE [Next]_vars
  BY <1>3
     DEF Proceed, WaitForFile, ReadFile, CheckPattern, MatchNamespace, QuotePattern,
         CheckLabels, FindReporter, FindUser, Next
<1>4. ASSUME NEW r \in Readers, LookUpFails(r) \/ \E s \in Submitted : Receive(r, s)
      PROVE  [Next]_vars
  BY <1>4 DEF LookUpFails, Receive
<1> QED
  BY <1>1, <1>2, <1>3, <1>4 DEF ReviewNext

\* So whatever is proved of OperatorConfig holds beside the webhook.
THEOREM ReviewsReadOnly == ReviewSpec => Spec
BY ReviewStepsAreReads, PTL DEF ReviewSpec, ReviewInit, Spec

LEMMA ReviewedConfig == ReviewSpec => []Inductive
BY ReviewsReadOnly, ConfigInvariant, PTL

-----------------------------------------------------------------------------
(* The inductive invariant.                                                  *)

\* The stages behind each check.
AfterLabels  == {"reporter", "users", "admitted"}
AfterPattern == AfterLabels \union {"labels"}
AfterFile    == AfterPattern \union {"pattern", "match"}

NameMatches(ns) == \E v \in 1..config : Expression(v) = "valid" /\ Matches(ns, v)

\* What a review has checked is still so.
Checked(r) ==
  LET s == Reviewed(r)
      c == got[r]
      at == review[r].at
  IN /\ at \in AfterFile => c # <<>> /\ RoleAllowed(s, c) /\ TimesInOrder(s)
     /\ at = "match" => \A i \in 1..review[r].next - 1 : NameMatches(s.namespaces[i])
     /\ at \in AfterPattern /\ Filtered(r) =>
          \A i \in 1..Len(s.namespaces) : NameMatches(s.namespaces[i])
     /\ at \in AfterLabels => LabelsMatch(s) /\ FieldsGiven(s, c)
     /\ at \in {"users", "admitted"} =>
          /\ Known(s.reporter)
          /\ \A f \in UserFields(c) : f \in review[r].left \/ UserFits(s, c, f)
     /\ at = "admitted" => review[r].left = {}

SomeInvalid == \E v \in 1..config : Expression(v) = "invalid"

AlwaysFiltered ==
  faults["crash"] = MaxFaults["crash"] /\ \A v \in 1..config : Expression(v) = "valid"

\* The pattern stays, once it is there, as long as no version is invalid.
PatternOK == pattern # 0 => Expression(pattern) = "valid"

FileFiltered == AlwaysFiltered /\ (pc \in Saving \/ disk # <<>>) => pattern # 0

PatternKept(r) ==
  /\ At(r, "match") \/ At(r, "quote") => pattern # 0 \/ SomeInvalid
  /\ AlwaysFiltered => /\ At(r, "pattern") => pattern # 0
                       /\ review[r].at \in AfterPattern => Filtered(r)

NameMissed(s) ==
  \E i \in DOMAIN s.namespaces, v \in 1..config :
    Expression(v) = "valid" /\ ~Matches(s.namespaces[i], v)

HasReason(r) ==
  LET s == Reviewed(r)
      c == got[r]
  IN /\ At(r, "quote") => NameMissed(s)
     /\ At(r, "rejected") =>
          \/ ~RoleAllowed(s, c) \/ s.startTime <= now \/ ~TimesInOrder(s)
          \/ ~LabelsMatch(s) \/ ~FieldsGiven(s, c) \/ BadUser(s, c) \/ NameMissed(s)
     /\ At(r, "errored") => c = <<>> \/ SomeInvalid

ReviewInductive ==
  /\ ReviewTypeOK /\ PatternOK /\ FileFiltered
  /\ \A r \in Readers : Checked(r) /\ PatternKept(r) /\ HasReason(r)

-----------------------------------------------------------------------------
(* The steps a review takes, and those it does not take.                     *)

Turn(r) ==
  \/ ReadFile(r) \/ CheckPattern(r) \/ MatchNamespace(r)
  \/ QuotePattern(r) \/ CheckLabels(r) \/ FindReporter(r) \/ FindUser(r) \/ LookUpFails(r)
  \/ \E s \in Submitted : Receive(r, s)

Stays(r) ==
  /\ review'[r] = review[r]
  /\ At(r, "file") \/ got'[r] = got[r]

\* Nothing a step does unsettles what others found out.
LEMMA WhoseStep ==
  ASSUME TypeOK, ReviewTypeOK, [ReviewNext]_allVars, NEW r \in Readers
  PROVE  Stays(r) \/ Turn(r) \/ CrashAll
<1>1. CASE UNCHANGED allVars \/ Tick
  BY <1>1 DEF allVars, reviewVars, vars, Tick, Stays
<1>2. CASE ConfigNext /\ UNCHANGED reviewVars
  BY <1>2
     DEF ConfigNext, Publish, Deliver, Lead, Reconcile, Start, Compile, Lock, Get, Create,
         WriteFile, Fail, readerVars, reviewVars, Stays
<1>3. ASSUME NEW q \in Readers, WaitForFile(q)  PROVE Stays(r)
  BY <1>3 DEF WaitForFile, RLock, reviewVars, Stays
<1>4. ASSUME NEW q \in Readers, q # r, Turn(q)  PROVE Stays(r)
  <2> DEFINE functions == review \in [Readers -> Reviews \union {NoReview}]
                          /\ got \in [Readers -> Seq(1..cached)]
  <2>1. functions
    BY DEF TypeOK, ReviewTypeOK
  <2>2. CASE ReadFile(q)
    BY <1>4, <2>1, <2>2 DEF ReadFile, ReadConfigFromFile, Check, GoTo, Stays
  <2>3. CASE CheckPattern(q)
    BY <1>4, <2>1, <2>3 DEF CheckPattern, vars, Stays
  <2>4. CASE MatchNamespace(q)
    BY <1>4, <2>1, <2>4 DEF MatchNamespace, GoTo, vars, Stays
  <2>5. CASE QuotePattern(q) \/ CheckLabels(q) \/ LookUpFails(q)
    BY <1>4, <2>1, <2>5 DEF QuotePattern, CheckLabels, LookUpFails, Check, GoTo, vars, Stays
  <2>6. CASE FindReporter(q)
    BY <1>4, <2>1, <2>6 DEF FindReporter, vars, Stays
  <2>7. CASE FindUser(q)
    BY <1>4, <2>1, <2>7 DEF FindUser, vars, Stays
  <2>8. ASSUME NEW s \in Submitted, Receive(q, s)  PROVE Stays(r)
    BY <1>4, <2>1, <2>8 DEF Receive, vars, Stays
  <2> QED
    BY <1>4, <2>2, <2>3, <2>4, <2>5, <2>6, <2>7, <2>8 DEF Turn
<1> QED
  BY <1>1, <1>2, <1>3, <1>4 DEF ReviewNext, Proceed, Turn

\* The clock and the versions only grow.
LEMMA Onward ==
  ASSUME TypeOK, ReviewTypeOK, [ReviewNext]_allVars
  PROVE  /\ config \in Nat /\ config' \in Nat /\ config <= config'
         /\ now \in Nat /\ now' \in 0..LastInstant /\ now <= now'
<1> USE OperatorConfigAssumption, ReviewAssumption
<1>1. [Next]_vars
  BY ReviewStepsAreReads
<1>2. config \in Nat /\ config' \in Nat /\ config <= config'
  <2>1. config' = config \/ config' = config + 1
    BY <1>1
       DEF Next, ConfigNext, Publish, Deliver, Lead, Reconcile, Start, Compile, Lock,
           Get, Create, WriteFile, Fail, Crash, RLock, ReadConfigFromFile, vars
  <2>2. config \in Nat
    BY DEF TypeOK
  <2> QED
    BY <2>1, <2>2
<1>3. CASE Tick
  BY <1>2, <1>3 DEF ReviewTypeOK, Tick
<1>4. CASE now' = now
  BY <1>2, <1>4 DEF ReviewTypeOK
<1> QED
  BY <1>3, <1>4
     DEF ReviewNext, CrashAll, Proceed, WaitForFile, ReadFile, CheckPattern, MatchNamespace,
         QuotePattern, CheckLabels, FindReporter, FindUser, LookUpFails, Receive, reviewVars,
         allVars

-----------------------------------------------------------------------------
(* One lemma for each step of a review r: what r has found out is so.        *)

\* The part of ReviewTypeOK that is about r.
RecordOK(r) ==
  /\ review[r] \in Reviews \union {NoReview}
  /\ At(r, "match") => review[r].next \in DOMAIN Reviewed(r).namespaces
  /\ At(r, "users") => review[r].left # {} /\ review[r].left \subseteq UserFields(got[r])

Good(r) == RecordOK(r) /\ Checked(r) /\ PatternKept(r) /\ HasReason(r)

\* What Good(r) is about besides the review itself.
Around == <<config, cached, pattern, faults, now>>

LEMMA RecordTypes ==
  ASSUME TypeOK, ReviewTypeOK, NEW r \in Readers, ~At(r, "none")
  PROVE  /\ review[r] \in Reviews
         /\ Reviewed(r) \in Submitted
         /\ Reviewed(r).namespaces \in Seq(Namespaces)
         /\ review \in [Readers -> Reviews \union {NoReview}]
<1>1. review[r] \in Reviews /\ review \in [Readers -> Reviews \union {NoReview}]
  BY DEF ReviewTypeOK, NoReview, At
<1>2. Reviewed(r) \in Submitted
  BY <1>1 DEF Reviews, Reviewed
<1> QED
  BY <1>1, <1>2, ReviewAssumption

LEMMA GoodAfterReceive ==
  ASSUME TypeOK, ReviewTypeOK, NEW r \in Readers, NEW s \in Submitted, Receive(r, s)
  PROVE  Good(r)'
<1>1. review'[r] = [at |-> "file", spec |-> s, next |-> 0, left |-> {}]
  BY DEF Receive, ReviewTypeOK
<1>2. review'[r] \in Reviews
  BY <1>1 DEF Reviews, Stages, Verdicts
<1> QED
  BY <1>1, <1>2
     DEF Good, RecordOK, Checked, PatternKept, HasReason, At, AfterFile, AfterPattern,
         AfterLabels

LEMMA GoodAfterReadFile ==
  ASSUME Inductive, ReviewInductive, NEW r \in Readers, ReadFile(r)
  PROVE  Good(r)'
<1>1. TypeOK /\ ReviewTypeOK /\ FileFiltered /\ At(r, "file")
  BY DEF Inductive, ReviewInductive, ReadFile
<1>2. review[r] \in Reviews /\ review \in [Readers -> Reviews \union {NoReview}]
  BY <1>1, RecordTypes DEF At
<1>3. got'[r] = disk /\ UNCHANGED Around
  BY <1>1 DEF TypeOK, ReadFile, ReadConfigFromFile, Around
<1> DEFINE s == Reviewed(r)
<1>4. /\ review'[r] = [review[r] EXCEPT !.at = review'[r].at]
      /\ \/ disk = <<>> /\ review'[r].at = "errored"
         \/ /\ disk # <<>> /\ review'[r].at = "pattern"
            /\ RoleAllowed(s, disk) /\ TimesInOrder(s)
         \/ /\ review'[r].at = "rejected"
            /\ ~RoleAllowed(s, disk) \/ ~(now < s.startTime) \/ ~TimesInOrder(s)
  BY <1>2 DEF ReadFile, Check, GoTo, Reviews
<1>5. s \in Submitted /\ s.startTime \in Nat /\ now \in Nat
  BY <1>1, <1>2, ReviewAssumption DEF Reviews, Reviewed, ReviewTypeOK
<1>6. review'[r] \in Reviews /\ Reviewed(r)' = s
  BY <1>2, <1>4 DEF Reviews, Reviewed, Stages, Verdicts
<1>7. RecordOK(r)' /\ Checked(r)'
  BY <1>3, <1>4, <1>6
     DEF RecordOK, Checked, At, AfterFile, AfterPattern, AfterLabels, RoleAllowed,
         TimesInOrder
<1>8. PatternKept(r)'
  BY <1>1, <1>3, <1>4
     DEF PatternKept, FileFiltered, AlwaysFiltered, At, AfterPattern, AfterLabels, Around,
         Expression
<1>9. HasReason(r)'
  BY <1>3, <1>4, <1>5, <1>6 DEF HasReason, At, RoleAllowed, TimesInOrder, Around
<1> QED
  BY <1>7, <1>8, <1>9 DEF Good

LEMMA GoodAfterCheckPattern ==
  ASSUME Inductive, ReviewInductive, NEW r \in Readers, CheckPattern(r)
  PROVE  Good(r)'
<1>1. TypeOK /\ ReviewTypeOK /\ Checked(r) /\ PatternKept(r) /\ At(r, "pattern")
  BY DEF Inductive, ReviewInductive, CheckPattern
<1>2. /\ review[r] \in Reviews /\ review \in [Readers -> Reviews \union {NoReview}]
      /\ Reviewed(r).namespaces \in Seq(Namespaces)
  BY <1>1, RecordTypes DEF At
<1>3. UNCHANGED <<got, Around>>
  BY DEF CheckPattern, vars, Around
<1> DEFINE s == Reviewed(r)
           to == review'[r]
<1>4. /\ to = [review[r] EXCEPT !.at = to.at, !.next = to.next]
      /\ \/ to.at = "labels" /\ to.next = 0 /\ pattern = 0
         \/ to.at = "labels" /\ to.next = 1 /\ pattern # 0 /\ s.namespaces = <<>>
         \/ to.at = "match" /\ to.next = 1 /\ pattern # 0 /\ s.namespaces # <<>>
  BY <1>2 DEF CheckPattern, Reviews
<1>5. to \in Reviews /\ Reviewed(r)' = s
  <2>1. to.at \in Stages \ {"none"} /\ to.next \in Nat
    BY <1>4 DEF Stages, Verdicts
  <2> QED
    BY <1>2, <1>4, <2>1 DEF Reviews, Reviewed
<1>6. RecordOK(r)'
  BY <1>2, <1>3, <1>4, <1>5 DEF RecordOK, At
<1>7. Checked(r)'
  BY <1>1, <1>2, <1>3, <1>4, <1>5
     DEF Checked, At, AfterFile, AfterPattern, AfterLabels, RoleAllowed, TimesInOrder,
         Filtered
<1>8. PatternKept(r)'
  BY <1>1, <1>3, <1>4
     DEF PatternKept, AlwaysFiltered, At, AfterPattern, AfterLabels, Around, Expression,
         Filtered
<1>9. HasReason(r)'
  BY <1>4 DEF HasReason, At
<1> QED
  BY <1>6, <1>7, <1>8, <1>9 DEF Good

LEMMA GoodAfterMatchNamespace ==
  ASSUME Inductive, ReviewInductive, NEW r \in Readers, MatchNamespace(r)
  PROVE  Good(r)'
<1>1. TypeOK /\ ReviewTypeOK /\ Checked(r) /\ PatternKept(r) /\ PatternOK /\ At(r, "match")
  BY DEF Inductive, ReviewInductive, MatchNamespace
<1>2. /\ review[r] \in Reviews /\ review \in [Readers -> Reviews \union {NoReview}]
      /\ Reviewed(r).namespaces \in Seq(Namespaces)
  BY <1>1, RecordTypes DEF At
<1>3. UNCHANGED <<got, Around>>
  BY DEF MatchNamespace, vars, Around
<1> DEFINE s == Reviewed(r)
           i == review[r].next
           to == review'[r]
<1>4. i \in 1..Len(s.namespaces) /\ Len(s.namespaces) \in Nat
  BY <1>1, <1>2 DEF ReviewTypeOK
<1>5. /\ to = [review[r] EXCEPT !.at = to.at, !.next = to.next]
      /\ \/ to.at = "errored" /\ pattern = 0
         \/ /\ pattern # 0 /\ Matches(s.namespaces[i], pattern) /\ to.next = i + 1
            /\ to.at = IF i = Len(s.namespaces) THEN "labels" ELSE "match"
         \/ to.at = "quote" /\ pattern # 0 /\ ~Matches(s.namespaces[i], pattern)
  <2>1. CASE pattern = 0
    BY <1>2, <2>1 DEF MatchNamespace, Reviews, GoTo
  <2>2. CASE pattern # 0 /\ ~Matches(s.namespaces[i], pattern)
    BY <1>2, <2>2 DEF MatchNamespace, Reviews, GoTo
  <2>3. CASE pattern # 0 /\ Matches(s.namespaces[i], pattern)
    <3>1. review' = [review EXCEPT
            ![r].at   = IF i = Len(s.namespaces) THEN "labels" ELSE "match",
            ![r].next = i + 1]
      BY <2>3 DEF MatchNamespace
    <3>2. to = [review[r] EXCEPT !.at   = IF i = Len(s.namespaces) THEN "labels" ELSE "match",
                                 !.next = i + 1]
      BY <1>2, <3>1
    <3> HIDE DEF to
    <3> QED
      BY <1>2, <2>3, <3>2 DEF Reviews
  <2> QED
    BY <2>1, <2>2, <2>3
<1>6. to.next \in Nat
  <2>1. CASE to.next = i
    BY <1>4, <2>1
  <2>2. CASE to.next = i + 1
    BY <1>4, <2>2
  <2>3. to.next \in {i, i + 1}
    BY <1>2 DEF MatchNamespace, Reviews, GoTo
  <2> QED
    BY <2>1, <2>2, <2>3
<1>7. to \in Reviews /\ Reviewed(r)' = s
  <2>1. to.at \in Stages \ {"none"}
    BY <1>5 DEF Stages, Verdicts
  <2> QED
    BY <1>2, <1>5, <1>6, <2>1 DEF Reviews, Reviewed
<1>8. pattern # 0 => pattern \in 1..config /\ Expression(pattern) = "valid"
  BY <1>1, OperatorConfigAssumption DEF TypeOK, PatternOK
<1>9. RecordOK(r)'
  BY <1>2, <1>3, <1>4, <1>5, <1>7 DEF RecordOK, At
<1>10. Checked(r)'
  <2>1. got'[r] # <<>> /\ RoleAllowed(s, got'[r]) /\ TimesInOrder(s)
    BY <1>1, <1>3 DEF Checked, At, AfterFile
  <2>2. CASE to.at \in {"errored", "quote"}
    BY <2>2 DEF Checked, AfterFile, AfterPattern, AfterLabels
  <2>3. CASE to.at \notin {"errored", "quote"}
    <3>1. NameMatches(s.namespaces[i]) /\ to.next = i + 1
      BY <1>5, <1>8, <2>3 DEF NameMatches
    <3>2. \A j \in 1..i : NameMatches(s.namespaces[j])
      BY <1>1, <1>4, <3>1 DEF Checked, At
    <3>3. \A j \in 1..i : NameMatches(s.namespaces[j])'
      BY <1>3, <1>7, <3>2 DEF NameMatches, Around, Expression, Matches
    <3> QED
      BY <1>4, <1>5, <1>7, <2>1, <2>3, <3>1, <3>3
         DEF Checked, AfterFile, AfterPattern, AfterLabels, RoleAllowed, TimesInOrder
  <2> QED
    BY <2>2, <2>3
<1>11. PatternKept(r)'
  BY <1>1, <1>3, <1>4, <1>5
     DEF PatternKept, AlwaysFiltered, At, AfterPattern, AfterLabels, Around, Filtered
<1>12. HasReason(r)'
  <2>1. to.at = "errored" => SomeInvalid'
    BY <1>1, <1>3, <1>5 DEF PatternKept, SomeInvalid, Around, Expression
  <2>2. to.at = "quote" => NameMissed(s)
    BY <1>2, <1>4, <1>5, <1>8 DEF NameMissed
  <2> QED
    BY <1>3, <1>5, <1>7, <2>1, <2>2 DEF HasReason, NameMissed, At, Around, Expression, Matches
<1> QED
  BY <1>9, <1>10, <1>11, <1>12 DEF Good

LEMMA GoodAfterQuotePattern ==
  ASSUME Inductive, ReviewInductive, NEW r \in Readers, QuotePattern(r)
  PROVE  Good(r)'
<1>1. TypeOK /\ ReviewTypeOK /\ PatternKept(r) /\ HasReason(r) /\ At(r, "quote")
  BY DEF Inductive, ReviewInductive, QuotePattern
<1>2. review[r] \in Reviews /\ review \in [Readers -> Reviews \union {NoReview}]
  BY <1>1, RecordTypes DEF At
<1>3. UNCHANGED <<got, Around>>
  BY DEF QuotePattern, vars, Around
<1> DEFINE s == Reviewed(r)
           to == review'[r]
<1>4. /\ to = [review[r] EXCEPT !.at = to.at]
      /\ \/ to.at = "errored" /\ pattern = 0
         \/ to.at = "rejected"
  BY <1>2 DEF QuotePattern, GoTo, Reviews
<1>5. to \in Reviews /\ Reviewed(r)' = s
  BY <1>2, <1>4 DEF Reviews, Reviewed, Stages, Verdicts
<1>6. RecordOK(r)' /\ Checked(r)' /\ PatternKept(r)'
  BY <1>4, <1>5
     DEF RecordOK, Checked, PatternKept, At, AfterFile, AfterPattern, AfterLabels
<1>7. HasReason(r)'
  <2>1. NameMissed(s) /\ (pattern = 0 => SomeInvalid)
    BY <1>1 DEF HasReason, PatternKept, At
  <2> QED
    BY <1>3, <1>4, <1>5, <2>1
       DEF HasReason, NameMissed, SomeInvalid, At, Around, Expression, Matches
<1> QED
  BY <1>6, <1>7 DEF Good

LEMMA GoodAfterCheckLabels ==
  ASSUME Inductive, ReviewInductive, NEW r \in Readers, CheckLabels(r)
  PROVE  Good(r)'
<1>1. TypeOK /\ ReviewTypeOK /\ Checked(r) /\ PatternKept(r) /\ At(r, "labels")
  BY DEF Inductive, ReviewInductive, CheckLabels
<1>2. review[r] \in Reviews /\ review \in [Readers -> Reviews \union {NoReview}]
  BY <1>1, RecordTypes DEF At
<1>3. UNCHANGED <<got, Around>>
  BY DEF CheckLabels, vars, Around
<1> DEFINE s == Reviewed(r)
           to == review'[r]
<1>4. /\ to = [review[r] EXCEPT !.at = to.at]
      /\ \/ to.at = "reporter" /\ LabelsMatch(s) /\ FieldsGiven(s, got[r])
         \/ to.at = "rejected" /\ ~(LabelsMatch(s) /\ FieldsGiven(s, got[r]))
  BY <1>2 DEF CheckLabels, Check, GoTo, Reviews
<1>5. to \in Reviews /\ Reviewed(r)' = s
  BY <1>2, <1>4 DEF Reviews, Reviewed, Stages, Verdicts
<1>6. RecordOK(r)'
  BY <1>4, <1>5 DEF RecordOK, At
<1>7. to.at = "reporter" => Filtered(r)' = Filtered(r)
  BY <1>2, <1>4 DEF Filtered, Reviews
<1>8. Checked(r)'
  <2>1. CASE to.at = "rejected"
    BY <2>1 DEF Checked, AfterFile, AfterPattern, AfterLabels
  <2>2. CASE to.at = "reporter"
    <3>1. got[r] # <<>> /\ RoleAllowed(s, got[r]) /\ TimesInOrder(s)
      BY <1>1 DEF Checked, At, AfterFile, AfterPattern
    <3>2. Filtered(r) => \A i \in 1..Len(s.namespaces) : NameMatches(s.namespaces[i])
      BY <1>1 DEF Checked, At, AfterPattern
    <3>3. Filtered(r)' => \A i \in 1..Len(s.namespaces) : NameMatches(s.namespaces[i])'
      BY <1>3, <1>5, <1>7, <2>2, <3>2 DEF NameMatches, Around, Expression, Matches
    <3> QED
      BY <1>3, <1>4, <1>5, <2>2, <3>1, <3>3
         DEF Checked, RoleAllowed, TimesInOrder, LabelsMatch, FieldsGiven
  <2> QED
    BY <1>4, <2>1, <2>2
<1>9. PatternKept(r)'
  BY <1>1, <1>3, <1>4, <1>7
     DEF PatternKept, AlwaysFiltered, At, AfterPattern, AfterLabels, Around
<1>10. HasReason(r)'
  BY <1>3, <1>4, <1>5 DEF HasReason, At, LabelsMatch, FieldsGiven
<1> QED
  BY <1>6, <1>8, <1>9, <1>10 DEF Good

\* What holds of every stage behind CheckLabels whatever becomes of the users.
LEMMA StillChecked ==
  ASSUME NEW r \in Readers, TypeOK, Checked(r), PatternKept(r), review[r] \in Reviews,
         review[r].at \in {"reporter", "users"}, UNCHANGED <<got, Around>>,
         review'[r] \in Reviews, Reviewed(r)' = Reviewed(r),
         review'[r].next = review[r].next,
         review'[r].at \in {"users", "admitted"},
         Known(Reviewed(r).reporter),
         \A f \in UserFields(got[r]) :
            f \in review'[r].left \/ UserFits(Reviewed(r), got[r], f),
         review'[r].at = "admitted" => review'[r].left = {}
  PROVE  Checked(r)' /\ PatternKept(r)' /\ HasReason(r)'
<1> DEFINE s == Reviewed(r)
<1>1. /\ got[r] # <<>> /\ RoleAllowed(s, got[r]) /\ TimesInOrder(s)
      /\ LabelsMatch(s) /\ FieldsGiven(s, got[r])
  BY DEF Checked, AfterFile, AfterPattern, AfterLabels
<1>2. Filtered(r)' = Filtered(r)
  BY DEF Filtered
<1>3. Filtered(r)' => \A i \in 1..Len(s.namespaces) : NameMatches(s.namespaces[i])'
  BY <1>2 DEF Checked, AfterPattern, AfterLabels, NameMatches, Around, Expression, Matches
<1>4. Checked(r)'
  BY <1>1, <1>3
     DEF Checked, RoleAllowed, TimesInOrder, LabelsMatch, FieldsGiven, UserFields, UserFits
<1>5. PatternKept(r)'
  BY <1>2 DEF PatternKept, AlwaysFiltered, At, AfterPattern, AfterLabels, Around
<1> QED
  BY <1>4, <1>5 DEF HasReason, At

LEMMA GoodAfterFindReporter ==
  ASSUME Inductive, ReviewInductive, NEW r \in Readers, FindReporter(r)
  PROVE  Good(r)'
<1>1. TypeOK /\ ReviewTypeOK /\ Checked(r) /\ PatternKept(r) /\ At(r, "reporter")
  BY DEF Inductive, ReviewInductive, FindReporter
<1>2. review[r] \in Reviews /\ review \in [Readers -> Reviews \union {NoReview}]
  BY <1>1, RecordTypes DEF At
<1>3. UNCHANGED <<got, Around>>
  BY DEF FindReporter, vars, Around
<1> DEFINE s == Reviewed(r)
           fields == UserFields(got[r])
           to == review'[r]
<1>4. /\ to = [review[r] EXCEPT !.left = fields, !.at = to.at]
      /\ \/ to.at = "rejected" /\ ~Known(s.reporter)
         \/ to.at = "admitted" /\ Known(s.reporter) /\ fields = {}
         \/ to.at = "users" /\ Known(s.reporter) /\ fields # {}
  BY <1>2 DEF FindReporter, Reviews
<1>5. fields \subseteq UNION {Configs[v].users : v \in 1..Len(Configs)}
  <2>1. got[r] \in Seq(1..cached) /\ Len(got[r]) = 3
    BY <1>1, ReviewAssumption DEF TypeOK, Checked, At, AfterFile, AfterPattern, AfterLabels
  <2>2. got[r][2] \in 1..cached
    <3> DEFINE c == got[r]
    <3>1. c \in Seq(1..cached) /\ 2 \in 1..Len(c)
      BY <2>1
    <3> HIDE DEF c
    <3>2. c[2] \in 1..cached
      BY <3>1, ElementOf
    <3> QED
      BY <3>2 DEF c
  <2>3. got[r][2] \in 1..Len(Configs)
    BY <1>1, <2>2, OperatorConfigAssumption DEF TypeOK
  <2> QED
    BY <2>3 DEF UserFields
<1>6. to \in Reviews /\ Reviewed(r)' = s
  <2>1. to.at \in Stages \ {"none"}
    BY <1>4 DEF Stages, Verdicts
  <2> QED
    BY <1>2, <1>4, <1>5, <2>1 DEF Reviews, Reviewed
<1>7. RecordOK(r)'
  BY <1>2, <1>3, <1>4, <1>6 DEF RecordOK, At, UserFields, Reviews
<1>8. CASE to.at = "rejected"
  BY <1>3, <1>4, <1>6, <1>7, <1>8
     DEF Good, Checked, PatternKept, HasReason, BadUser, Known, At, AfterFile, AfterPattern,
         AfterLabels
<1>9. CASE to.at # "rejected"
  <2>1. to.left = fields /\ to.next = review[r].next
    BY <1>2, <1>4 DEF Reviews
  <2> QED
    BY <1>1, <1>2, <1>3, <1>4, <1>6, <1>7, <1>9, <2>1, StillChecked DEF Good, At
<1> QED
  BY <1>8, <1>9

LEMMA GoodAfterFindUser ==
  ASSUME Inductive, ReviewInductive, NEW r \in Readers, FindUser(r)
  PROVE  Good(r)'
<1>1. TypeOK /\ ReviewTypeOK /\ Checked(r) /\ PatternKept(r) /\ At(r, "users")
  BY DEF Inductive, ReviewInductive, FindUser
<1>2. /\ review[r] \in Reviews /\ review \in [Readers -> Reviews \union {NoReview}]
      /\ review[r].left \subseteq UserFields(got[r])
  BY <1>1, RecordTypes DEF At, ReviewTypeOK
<1>3. UNCHANGED <<got, Around>>
  BY DEF FindUser, vars, Around
<1> DEFINE s == Reviewed(r)
           left == review[r].left
           to == review'[r]
<1>4. PICK f \in left :
        review' = [review EXCEPT
          ![r].left = left \ {f},
          ![r].at   = IF ~UserFits(s, got[r], f) THEN "rejected"
                      ELSE IF left = {f} THEN "admitted" ELSE "users"]
  BY DEF FindUser
<1>5. /\ to = [review[r] EXCEPT !.left = left \ {f}, !.at = to.at]
      /\ \/ to.at = "rejected" /\ ~UserFits(s, got[r], f)
         \/ to.at = "admitted" /\ UserFits(s, got[r], f) /\ left = {f}
         \/ to.at = "users" /\ UserFits(s, got[r], f) /\ left # {f}
  BY <1>2, <1>4 DEF Reviews
<1>6. to \in Reviews /\ Reviewed(r)' = s
  <2>1. to.at \in Stages \ {"none"}
    BY <1>5 DEF Stages, Verdicts
  <2> QED
    BY <1>2, <1>5, <2>1 DEF Reviews, Reviewed
<1>7. to.left = left \ {f} /\ to.next = review[r].next
  BY <1>2, <1>5 DEF Reviews
<1>8. RecordOK(r)'
  BY <1>2, <1>3, <1>5, <1>6, <1>7 DEF RecordOK, At, UserFields
<1>9. CASE to.at = "rejected"
  <2>1. BadUser(s, got[r])
    BY <1>2, <1>5, <1>9 DEF UserFits, BadUser, Known, Account
  <2> QED
    BY <1>3, <1>6, <1>8, <1>9, <2>1
       DEF Good, Checked, PatternKept, HasReason, BadUser, At, AfterFile, AfterPattern,
           AfterLabels, UserFields
<1>10. CASE to.at # "rejected"
  <2>1. Known(s.reporter) /\ \A g \in UserFields(got[r]) : g \in left \/ UserFits(s, got[r], g)
    BY <1>1 DEF Checked, At
  <2>2. \A g \in UserFields(got[r]) : g \in to.left \/ UserFits(s, got[r], g)
    BY <1>5, <1>7, <1>10, <2>1
  <2>3. to.at = "admitted" => to.left = {}
    BY <1>5, <1>7
  <2> QED
    BY <1>1, <1>2, <1>3, <1>5, <1>6, <1>7, <1>8, <1>10, <2>1, <2>2, <2>3, StillChecked
       DEF Good, At
<1> QED
  BY <1>9, <1>10

LEMMA GoodAfterLookUpFails ==
  ASSUME Inductive, ReviewInductive, NEW r \in Readers, LookUpFails(r)
  PROVE  Good(r)'
<1>1. TypeOK /\ ReviewTypeOK /\ ~At(r, "none")
  BY DEF Inductive, ReviewInductive, LookUpFails, At
<1>2. review[r] \in Reviews /\ review \in [Readers -> Reviews \union {NoReview}]
  BY <1>1, RecordTypes
<1>3. review'[r] = [review[r] EXCEPT !.at = "failed"] /\ review'[r].at = "failed"
  BY <1>2 DEF LookUpFails, GoTo, Reviews
<1>4. review'[r] \in Reviews
  BY <1>2, <1>3 DEF Reviews, Stages, Verdicts
<1> QED
  BY <1>3, <1>4
     DEF Good, RecordOK, Checked, PatternKept, HasReason, At, AfterFile, AfterPattern,
         AfterLabels

LEMMA GoodAfterTurn ==
  ASSUME Inductive, ReviewInductive, NEW r \in Readers, Turn(r)
  PROVE  Good(r)'
BY GoodAfterReadFile, GoodAfterCheckPattern, GoodAfterMatchNamespace, GoodAfterQuotePattern,
   GoodAfterCheckLabels, GoodAfterFindReporter, GoodAfterFindUser, GoodAfterLookUpFails,
   GoodAfterReceive
   DEF Turn, Inductive, ReviewInductive

-----------------------------------------------------------------------------
(* What the rest of the system does to the pattern.                          *)

\* A crash is never taken back.
LEMMA FaultsStep ==
  ASSUME TypeOK, [Next]_vars, faults'["crash"] = MaxFaults["crash"]
  PROVE  faults["crash"] = MaxFaults["crash"] /\ ~Crash
<1>1. /\ MaxFaults["crash"] \in Nat /\ faults["crash"] \in Nat
      /\ faults["crash"] <= MaxFaults["crash"] /\ faults \in [FaultKinds -> Nat]
  BY OperatorConfigAssumption DEF TypeOK, FaultKinds
<1>2. ~Crash
  BY <1>1, FaultsFall DEF Crash, TypeOK, FaultsOK, FaultKinds
<1>3. faults'["crash"] = faults["crash"]
  BY <1>1, <1>2
     DEF Next, ConfigNext, Publish, Deliver, Lead, Reconcile, Start, Compile, Lock, Get,
         Create, WriteFile, Fail, Fault, FaultKinds, RLock, ReadConfigFromFile, vars
<1> QED
  BY <1>2, <1>3

\* The pattern is a published one, and only an invalid expression or a crash takes it away.
LEMMA PatternStep ==
  ASSUME TypeOK, PatternOK, [Next]_vars
  PROVE  PatternOK' /\ (pattern # 0 /\ ~Crash => pattern' # 0 \/ SomeInvalid)
<1>1. cached \in 1..config
  BY DEF TypeOK
<1>2. CASE Compile
  BY <1>1, <1>2 DEF Compile, PatternOK, SomeInvalid, Expression
<1>3. CASE Crash
  BY <1>3 DEF Crash, PatternOK
<1>4. CASE UNCHANGED pattern
  BY <1>4 DEF PatternOK, Expression
<1> QED
  BY <1>2, <1>3, <1>4
     DEF Next, ConfigNext, Publish, Deliver, Lead, Reconcile, Start, Lock, Get, Create,
         WriteFile, Fail, RLock, ReadConfigFromFile, vars

\* What is invalid stays so, and what was never invalid was not so before.
LEMMA AlwaysStep ==
  ASSUME TypeOK, config' \in Nat, config <= config', [Next]_vars
  PROVE  /\ SomeInvalid => SomeInvalid'
         /\ AlwaysFiltered' => AlwaysFiltered /\ ~SomeInvalid /\ ~SomeInvalid' /\ ~Crash
<1>1. config \in Nat /\ \A v \in 1..config : v \in 1..config'
  BY OperatorConfigAssumption DEF TypeOK
<1> QED
  BY <1>1, FaultsStep DEF SomeInvalid, AlwaysFiltered, Expression

LEMMA FileFilteredStep ==
  ASSUME TypeOK, PatternOK, FileFiltered, config' \in Nat, config <= config', [Next]_vars
  PROVE  FileFiltered'
<1> SUFFICES ASSUME AlwaysFiltered', pc' \in Saving \/ disk' # <<>>  PROVE pattern' # 0
  BY DEF FileFiltered
<1>1. AlwaysFiltered /\ ~SomeInvalid /\ ~Crash
  BY AlwaysStep
<1>2. pattern # 0 => pattern' # 0
  BY <1>1, PatternStep
<1>3. CASE pc \in Saving \/ disk # <<>>
  BY <1>1, <1>2, <1>3 DEF FileFiltered
<1>4. CASE pc \notin Saving /\ disk = <<>>
  <2>1. Compile
    BY <1>1, <1>4
       DEF Saving, Next, ConfigNext, Publish, Deliver, Lead, Reconcile, Start, Lock, Get,
           Create, WriteFile, Fail, Requeue, RLock, ReadConfigFromFile, vars
  <2>2. cached \in 1..config /\ cached # 0
    BY OperatorConfigAssumption DEF TypeOK
  <2> QED
    BY <1>1, <2>1, <2>2 DEF Compile, AlwaysFiltered
<1> QED
  BY <1>3, <1>4

-----------------------------------------------------------------------------
(* The invariant.                                                            *)

\* What a review has found out stays true while others take their steps.
LEMMA GoodWhenOthersMove ==
  ASSUME Inductive, ReviewInductive, [ReviewNext]_allVars, ~CrashAll,
         NEW r \in Readers, Stays(r)
  PROVE  Good(r)'
<1>1. /\ TypeOK /\ ReviewTypeOK /\ PatternOK
      /\ Checked(r) /\ PatternKept(r) /\ HasReason(r) /\ [Next]_vars
  BY ReviewStepsAreReads DEF Inductive, ReviewInductive
<1>2. /\ config \in Nat /\ config' \in Nat /\ config <= config'
      /\ now \in Nat /\ now' \in Nat /\ now <= now'
  BY <1>1, Onward
<1>3. review'[r] = review[r] /\ Reviewed(r)' = Reviewed(r)
  BY DEF Stays, Reviewed
<1>4. CASE At(r, "none") \/ At(r, "file")
  <2>1. RecordOK(r)'
    BY <1>1, <1>3, <1>4 DEF RecordOK, ReviewTypeOK, At
  <2> QED
    BY <1>3, <1>4, <2>1
       DEF Good, Checked, PatternKept, HasReason, At, AfterFile, AfterPattern, AfterLabels
<1>5. CASE ~At(r, "none") /\ ~At(r, "file")
  <2>1. got'[r] = got[r]
    BY <1>5 DEF Stays
  <2>2. RecordOK(r)'
    BY <1>1, <1>3, <2>1 DEF RecordOK, ReviewTypeOK, At, UserFields
  <2>3. \A ns : NameMatches(ns) => NameMatches(ns)'
    BY <1>2 DEF NameMatches, Expression, Matches
  <2>4. Checked(r)'
    BY <1>1, <1>3, <2>1, <2>3
       DEF Checked, RoleAllowed, TimesInOrder, LabelsMatch, FieldsGiven, UserFields, UserFits,
           Filtered
  <2>5. pattern # 0 => pattern' # 0 \/ SomeInvalid'
    <3>1. ~Crash
      <4>1. UNCHANGED faults \/ pc' = "idle"
        BY DEF ReviewNext, ConfigNext, Publish, Deliver, Lead, Reconcile, Start, Compile, Lock,
               Get, Create, WriteFile, Fail, Requeue, Tick, Proceed, WaitForFile, RLock,
               ReadFile, ReadConfigFromFile, CheckPattern, MatchNamespace, QuotePattern,
               CheckLabels, FindReporter, FindUser, LookUpFails, Receive, vars, allVars
      <4> QED
        BY <1>1, <4>1, FaultsFall DEF Crash, TypeOK, FaultsOK, FaultKinds
    <3> QED
      BY <1>1, <1>2, <3>1, PatternStep, AlwaysStep
  <2>6. PatternKept(r)'
    BY <1>1, <1>2, <1>3, <2>5, AlwaysStep DEF PatternKept, At, Filtered
  <2>7. HasReason(r)'
    <3>1. At(r, "errored")' => got'[r] = <<>> \/ SomeInvalid'
      BY <1>1, <1>2, <1>3, <2>1, AlwaysStep DEF HasReason, At
    <3>2. At(r, "rejected") => Reviewed(r).startTime \in Nat
      BY <1>1, RecordTypes, ReviewAssumption DEF At
    <3>3. At(r, "rejected")' =>
            LET s == Reviewed(r)
                c == got[r]
            IN \/ ~RoleAllowed(s, c) \/ s.startTime <= now' \/ ~TimesInOrder(s)
               \/ ~LabelsMatch(s) \/ ~FieldsGiven(s, c) \/ BadUser(s, c) \/ NameMissed(s)
      BY <1>1, <1>2, <1>3, <3>2 DEF HasReason, At
    <3>4. NameMissed(Reviewed(r)) => NameMissed(Reviewed(r))'
      BY <1>2, <1>3 DEF NameMissed, Expression, Matches
    <3>5. At(r, "quote")' => NameMissed(Reviewed(r))'
      BY <1>1, <1>3, <3>4 DEF HasReason, At
    <3> QED
      BY <1>3, <2>1, <3>1, <3>3, <3>4, <3>5
         DEF HasReason, RoleAllowed, TimesInOrder, LabelsMatch, FieldsGiven, BadUser,
             UserFields, Expression, Matches
  <2> QED
    BY <2>2, <2>4, <2>6, <2>7 DEF Good
<1> QED
  BY <1>4, <1>5

\* Who holds the read lock waits for the file.
LEMMA InsideStep ==
  ASSUME TypeOK, ReviewTypeOK, [ReviewNext]_allVars, ~CrashAll,
         NEW r \in Readers, r \in inside'
  PROVE  At(r, "file")'
<1>1. \/ r \in inside
      \/ At(r, "file") /\ UNCHANGED review
  BY DEF ReviewNext, ConfigNext, Publish, Deliver, Lead, Reconcile, Start, Compile, Lock, Get,
         Create, WriteFile, Fail, Tick, Proceed, WaitForFile, RLock, ReadFile,
         ReadConfigFromFile, CheckPattern, MatchNamespace, QuotePattern, CheckLabels,
         FindReporter, FindUser, LookUpFails, Receive, readerVars, reviewVars, vars,
         allVars
<1>2. CASE r \in inside
  <2>1. At(r, "file")
    BY <1>2 DEF ReviewTypeOK
  <2>2. ~Turn(r)
    BY <2>1 DEF Turn, At, ReadFile, ReadConfigFromFile, CheckPattern, MatchNamespace,
                QuotePattern, CheckLabels, FindReporter, FindUser, LookUpFails, Receive
  <2> QED
    BY <2>1, <2>2, WhoseStep DEF Stays, At
<1> QED
  BY <1>1, <1>2 DEF At

LEMMA ReviewIsFunction ==
  ASSUME ReviewTypeOK, [ReviewNext]_allVars
  PROVE  review' = [r \in Readers |-> review'[r]]
<1>1. review = [r \in Readers |-> review[r]]
  BY DEF ReviewTypeOK
<1>2. CASE UNCHANGED review
  BY <1>1, <1>2
<1>3. CASE CrashAll
  BY <1>3 DEF CrashAll
<1>4. ASSUME NEW r \in Readers, Turn(r)  PROVE review' = [q \in Readers |-> review'[q]]
  <2>1. \E f, g, h : \/ review' = [review EXCEPT ![r] = f]
                    \/ review' = [review EXCEPT ![r].at = f]
                    \/ review' = [review EXCEPT ![r].at = f, ![r].next = g]
                    \/ review' = [review EXCEPT ![r].left = g, ![r].at = f]
    BY <1>4
       DEF Turn, ReadFile, CheckPattern, MatchNamespace, QuotePattern, CheckLabels,
           FindReporter, FindUser, LookUpFails, Receive, Check, GoTo
  <2> QED
    BY <1>1, <2>1
<1> QED
  BY <1>2, <1>3, <1>4
     DEF ReviewNext, Proceed, WaitForFile, Turn, Tick, reviewVars, allVars

LEMMA ReviewInductiveStep ==
  ASSUME Inductive, ReviewInductive, [ReviewNext]_allVars  PROVE ReviewInductive'
<1>1. TypeOK /\ ReviewTypeOK /\ PatternOK /\ FileFiltered /\ [Next]_vars
  BY ReviewStepsAreReads DEF Inductive, ReviewInductive
<1>2. config' \in Nat /\ config <= config' /\ now' \in 0..LastInstant
  BY <1>1, Onward
<1>3. PatternOK' /\ FileFiltered'
  BY <1>1, <1>2, PatternStep, FileFilteredStep
<1>4. ASSUME NEW r \in Readers  PROVE Good(r)'
  <2>1. CASE CrashAll
    <3>1. review'[r] = NoReview
      BY <2>1 DEF CrashAll
    <3> QED
      BY <3>1
         DEF Good, RecordOK, Checked, PatternKept, HasReason, NoReview, At, AfterFile,
             AfterPattern, AfterLabels
  <2>2. CASE ~CrashAll /\ Stays(r)
    BY <2>2, GoodWhenOthersMove
  <2>3. CASE Turn(r)
    BY <2>3, GoodAfterTurn
  <2> QED
    BY <1>1, <2>1, <2>2, <2>3, WhoseStep
<1>5. \A r \in Readers : r \in inside' => At(r, "file")'
  <2>1. CASE CrashAll
    BY <2>1 DEF CrashAll, Crash
  <2>2. CASE ~CrashAll
    BY <1>1, <2>2, InsideStep
  <2> QED
    BY <2>1, <2>2
<1>6. review' \in [Readers -> Reviews \union {NoReview}]
  BY <1>1, <1>4, ReviewIsFunction DEF Good, RecordOK
<1>7. ReviewTypeOK'
  BY <1>2, <1>4, <1>5, <1>6 DEF ReviewTypeOK, Good, RecordOK
<1> QED
  BY <1>3, <1>4, <1>7 DEF ReviewInductive, Good

LEMMA ReviewInductiveInit == ReviewInit => ReviewInductive
<1> SUFFICES ASSUME ReviewInit  PROVE ReviewInductive
  OBVIOUS
<1> USE ReviewAssumption DEF ReviewInit, Init
<1>1. ReviewTypeOK
  BY DEF ReviewTypeOK, NoReview, At
<1>2. PatternOK /\ FileFiltered
  BY DEF PatternOK, FileFiltered, Saving
<1>3. \A r \in Readers : Checked(r) /\ PatternKept(r) /\ HasReason(r)
  BY DEF Checked, PatternKept, HasReason, NoReview, At, AfterFile, AfterPattern, AfterLabels
<1> QED
  BY <1>1, <1>2, <1>3 DEF ReviewInductive

LEMMA ReviewInvariant == ReviewSpec => [](Inductive /\ ReviewInductive)
<1>1. Inductive /\ Inductive' /\ ReviewInductive /\ [ReviewNext]_allVars => ReviewInductive'
  BY ReviewInductiveStep
<1> QED
  BY <1>1, ReviewInductiveInit, ReviewedConfig, PTL DEF ReviewSpec

-----------------------------------------------------------------------------
(* The theorems.                                                             *)

\* However many reviews run and whatever the configuration controller, faults and the
\* clock do meanwhile, a review is somewhere in validateJitRequestSpec, at a namespace and
\* a user field there is.
THEOREM ReviewTypeCorrect == ReviewSpec => []ReviewTypeOK
BY ReviewInvariant, PTL DEF ReviewInductive

\* Nothing is admitted that the file the review read forbids, or whose names no published
\* expression matches: the checks of validateJitRequestSpec fail closed.
THEOREM NothingForbiddenIsAdmitted == ReviewSpec => []AdmittedIsAllowed
<1>1. ASSUME Inductive, ReviewInductive, NEW r \in Readers, At(r, "admitted")
      PROVE  LET s == Reviewed(r)
                 c == got[r]
                 users == {s.jiraFields[f] : f \in UserFields(c)}
             IN /\ RoleAllowed(s, c) /\ FieldsGiven(s, c) /\ TimesInOrder(s) /\ LabelsMatch(s)
                /\ Accounts[s.reporter] # <<>>
                /\ \A e \in users : e # NoEmail /\ Accounts[e] # <<>>
                /\ ~Configs[c[3]].selfApproval =>
                     \A e \in users : Accounts[e][1] # Accounts[s.reporter][1]
                /\ Filtered(r) => \A i \in DOMAIN s.namespaces :
                     \E v \in 1..config : Expression(v) = "valid" /\ Matches(s.namespaces[i], v)
  <2> DEFINE s == Reviewed(r)
             c == got[r]
  <2>1. TypeOK /\ ReviewTypeOK /\ Checked(r)
    BY <1>1 DEF Inductive, ReviewInductive
  <2>2. s.namespaces \in Seq(Namespaces)
    BY <1>1, <2>1, RecordTypes DEF At
  <2>3. RoleAllowed(s, c) /\ FieldsGiven(s, c) /\ TimesInOrder(s) /\ LabelsMatch(s)
    BY <1>1, <2>1 DEF Checked, At, AfterFile, AfterPattern, AfterLabels
  <2>4. Known(s.reporter) /\ \A f \in UserFields(c) : UserFits(s, c, f)
    BY <1>1, <2>1 DEF Checked, At
  <2>5. Filtered(r) => \A i \in DOMAIN s.namespaces : NameMatches(s.namespaces[i])
    BY <1>1, <2>1, <2>2 DEF Checked, At, AfterPattern, AfterLabels
  <2> QED
    BY <2>3, <2>4, <2>5 DEF Known, Account, UserFits, NameMatches
<1>2. Inductive /\ ReviewInductive => AdmittedIsAllowed
  BY <1>1 DEF AdmittedIsAllowed
<1> QED
  BY <1>2, ReviewInvariant, PTL

\* With an expression in every version no review finds the file without a pattern: the
\* order of lines 89 and 99 of Reconcile is kept by every interleaving but a crash.
THEOREM PatternBeforeFile == ReviewSpec => []FilteredWhenConfigured
<1>1. ReviewInductive => FilteredWhenConfigured
  BY DEF ReviewInductive, PatternKept, AlwaysFiltered, FilteredWhenConfigured, AfterPattern,
         AfterLabels
<1> QED
  BY <1>1, ReviewInvariant, PTL

\* A request is rejected for a rule it breaks, and a review errs only for want of a file or
\* of a pattern that an invalid expression took away.
THEOREM RejectedForReason == ReviewSpec => []RefusedForReason
<1>1. ReviewInductive => RefusedForReason
  BY DEF ReviewInductive, HasReason, NameMissed, SomeInvalid, RefusedForReason
<1> QED
  BY <1>1, ReviewInvariant, PTL
=============================================================================
