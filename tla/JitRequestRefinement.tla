------------------------ MODULE JitRequestRefinement ------------------------
(***************************************************************************)
(* The JitRequest controller implements JustInTimeAccess, for every value  *)
(* of the constants: every step maps to a step of the promise or to none.  *)
(***************************************************************************)
EXTENDS JitRequestProofs

\* A uid is the place where its incarnation was created, so a new one is new.
UidsPast == \A n \in Names : \A i \in DOMAIN log[n] : log[n][i].uid <= Len(log[n])

Uids(n) == {log[n][i].uid : i \in 1..Len(log[n])}

\* What Due and Closed hold, said of a name and a uid.
InDue(n, u) == \E i \in 1..Len(log[n]) : /\ log[n][i].uid = u
                                        /\ log[n][i].state = "Pre-Approved"
                                        /\ log[n][i].startTime <= now

DueAndClosed ==
  /\ \A r \in Due : \E n \in Names : \E u : r = <<n, u>>
  /\ \A n \in Names : \A u : <<n, u>> \in Due <=> InDue(n, u)
  /\ \A r \in Closed : \E n \in Names : \E u : r = <<n, u>>
  /\ \A n \in Names : \A u : <<n, u>> \in Closed <=> u \in Uids(n) /\ ~Alive(n, u)

\* Which incarnations are due and which are closed, read off the log.
LEMMA Members == log \in [Names -> Seq(Versions)] => DueAndClosed
<1> SUFFICES ASSUME log \in [Names -> Seq(Versions)]  PROVE DueAndClosed
  OBVIOUS
<1>1. \A n \in Names : DOMAIN log[n] = 1..Len(log[n])
  OBVIOUS
<1>2. \A p : p \in Places <=> \E n \in Names : \E i \in 1..Len(log[n]) : p = <<n, i>>
  BY <1>1 DEF Places
<1>3. \A r \in Due : \E n \in Names : \E u : r = <<n, u>>
  BY <1>2 DEF Due, IncarnationAt
<1>4. ASSUME NEW n \in Names, NEW u
      PROVE  <<n, u>> \in Due <=> InDue(n, u)
  <2>1. ASSUME <<n, u>> \in Due
        PROVE  InDue(n, u)
    <3>1. PICK p \in Places : Announced(p) /\ <<n, u>> = <<p[1], VersionAt(p).uid>>
      BY <2>1 DEF Due, IncarnationAt
    <3>2. PICK m \in Names : \E i \in 1..Len(log[m]) : p = <<m, i>>
      BY <1>2
    <3>3. PICK i \in 1..Len(log[m]) : p = <<m, i>>
      BY <3>2
    <3> QED
      BY <3>1, <3>3 DEF Announced, VersionAt, InDue
  <2>2. ASSUME NEW i \in 1..Len(log[n]), log[n][i].uid = u,
               log[n][i].state = "Pre-Approved", log[n][i].startTime <= now
        PROVE  <<n, u>> \in Due
    <3>1. <<n, i>> \in Places /\ Announced(<<n, i>>) /\ IncarnationAt(<<n, i>>) = <<n, u>>
      BY <1>2, <2>2 DEF Announced, VersionAt, IncarnationAt
    <3> QED
      BY <3>1 DEF Due
  <2> QED
    BY <2>1, <2>2 DEF InDue
<1>5. \A r \in Closed : \E n \in Names : \E u : r = <<n, u>>
  BY <1>2 DEF Closed, IncarnationAt
<1>6. ASSUME NEW n \in Names, NEW u
      PROVE  <<n, u>> \in Closed <=> u \in Uids(n) /\ ~Alive(n, u)
  <2>1. ASSUME <<n, u>> \in Closed  PROVE u \in Uids(n) /\ ~Alive(n, u)
    <3>1. PICK p \in Places : ~Alive(p[1], VersionAt(p).uid)
                     /\ <<n, u>> = <<p[1], VersionAt(p).uid>>
      BY <2>1 DEF Closed, IncarnationAt
    <3>2. PICK m \in Names : \E i \in 1..Len(log[m]) : p = <<m, i>>
      BY <1>2
    <3>3. PICK i \in 1..Len(log[m]) : p = <<m, i>>
      BY <3>2
    <3> QED
      BY <3>1, <3>3 DEF VersionAt, Uids
  <2>2. ASSUME u \in Uids(n), ~Alive(n, u)  PROVE <<n, u>> \in Closed
    <3>1. PICK i \in 1..Len(log[n]) : log[n][i].uid = u
      BY <2>2 DEF Uids
    <3>2. <<n, i>> \in Places /\ VersionAt(<<n, i>>) = log[n][i]
          /\ IncarnationAt(<<n, i>>) = <<n, u>>
      BY <1>2, <3>1 DEF VersionAt, IncarnationAt
    <3>3. ~Alive(<<n, i>>[1], VersionAt(<<n, i>>).uid)
      BY <2>2, <3>1, <3>2
    <3> QED
      BY <3>2, <3>3 DEF Closed
  <2> QED
    BY <2>1, <2>2
<1> QED
  BY <1>3, <1>4, <1>5, <1>6 DEF DueAndClosed

\* The same one step later.
LEMMA MembersNext == (log \in [Names -> Seq(Versions)])' => DueAndClosed'
BY Members, PTL

\* Two sets of incarnations with the same members are equal.
LEMMA SamePairs ==
  ASSUME NEW A, \A r \in A : \E n \in Names : \E u : r = <<n, u>>,
         NEW B, \A r \in B : \E n \in Names : \E u : r = <<n, u>>,
         \A n \in Names : \A u : <<n, u>> \in A <=> <<n, u>> \in B
  PROVE  A = B
OBVIOUS

\* What a write adds to them.
LEMMA WriteAdds ==
  ASSUME TypeOK, UNCHANGED now, NEW n \in Names, NEW v \in Versions, Write(n, v)
  PROVE  /\ (log \in [Names -> Seq(Versions)])'
         /\ Uids(n)' = Uids(n) \union {v.uid}
         /\ \A u : Alive(n, u)' <=> v.state # "Deleted" /\ v.uid = u
         /\ \A u : InDue(n, u)' <=> \/ InDue(n, u)
                                   \/ /\ v.uid = u /\ v.state = "Pre-Approved"
                                      /\ v.startTime <= now
         /\ \A m \in Names \ {n} :
              /\ Uids(m)' = Uids(m)
              /\ \A u : (Alive(m, u)' <=> Alive(m, u)) /\ (InDue(m, u)' <=> InDue(m, u))
<1>1. log \in [Names -> Seq(Versions)]
  BY DEF TypeOK
<1>2. /\ log' \in [Names -> Seq(Versions)]
      /\ Len(log'[n]) = Len(log[n]) + 1
      /\ \A i \in 1..Len(log[n]) : log'[n][i] = log[n][i]
      /\ log'[n][Len(log[n]) + 1] = v
  BY <1>1, WriteAppends
<1>3. \A m \in Names \ {n} : log'[m] = log[m]
  BY <1>1 DEF Write
<1>4. Len(log[n]) \in Nat
  BY <1>1
<1>5. \A i : i \in 1..Len(log'[n]) <=> i \in 1..Len(log[n]) \/ i = Len(log[n]) + 1
  BY <1>2, <1>4
<1>6. Uids(n)' = Uids(n) \union {v.uid}
  BY <1>2, <1>5 DEF Uids
<1>7. ASSUME NEW u  PROVE Alive(n, u)' <=> v.state # "Deleted" /\ v.uid = u
  <2>1. log'[n] # <<>>
    BY <1>2, <1>4
  <2> QED
    BY <1>2, <2>1 DEF Alive, Live, Latest
<1>8. ASSUME NEW u
      PROVE  InDue(n, u)' <=> \/ InDue(n, u)
                              \/ v.uid = u /\ v.state = "Pre-Approved" /\ v.startTime <= now
  BY <1>2, <1>5 DEF InDue
<1>9. ASSUME NEW m \in Names \ {n}
      PROVE  /\ Uids(m)' = Uids(m)
             /\ \A u : (Alive(m, u)' <=> Alive(m, u)) /\ (InDue(m, u)' <=> InDue(m, u))
  BY <1>3 DEF Uids, Alive, Live, Latest, InDue
<1> QED
  BY <1>2, <1>6, <1>7, <1>8, <1>9

\* A new incarnation closes nothing and is not due.
LEMMA CreateStutters ==
  ASSUME TypeOK, UidsPast, UNCHANGED now, NEW n \in Names, NEW s \in Specs, Create(n, s)
  PROVE  Due' = Due /\ Closed' = Closed
<1> DEFINE v == [uid |-> Len(log[n]) + 1, spec |-> s, state |-> "",
                 ticket |-> 0, startTime |-> 0, endTime |-> 0]
<1>1. Len(log[n]) \in Nat /\ log \in [Names -> Seq(Versions)]
  BY DEF TypeOK
<1>2. v.uid = Len(log[n]) + 1 /\ v.state = ""
  OBVIOUS
<1>3. v \in Versions
  <2>1. Len(log[n]) \in Nat
    BY <1>1
  <2> QED
    BY <2>1 DEF Versions, States
<1>4. Write(n, v) /\ ~Live(n)
  BY DEF Create
<1> HIDE DEF v
<1>5. \A u \in Uids(n) : u # v.uid
  <2>1. Len(log[n]) \in Nat /\ v.uid = Len(log[n]) + 1
    BY <1>1, <1>2
  <2>2. v.uid > Len(log[n])
    BY <2>1
  <2>3. ASSUME NEW i \in 1..Len(log[n])  PROVE log[n][i].uid # v.uid
    <3>1. log[n][i] \in Versions /\ log[n][i].uid <= Len(log[n])
      BY <1>1 DEF UidsPast
    <3>2. log[n][i].uid \in Nat
      BY <3>1 DEF Versions
    <3> QED
      BY <1>1, <2>2, <3>1, <3>2
  <2> QED
    BY <2>3 DEF Uids
<1>6. DueAndClosed /\ DueAndClosed'
  BY <1>1, <1>4, <1>3, Members, MembersNext, WriteAdds
<1>7. /\ Uids(n)' = Uids(n) \union {v.uid}
      /\ \A u : Alive(n, u)' <=> v.uid = u
      /\ \A u : InDue(n, u)' <=> InDue(n, u)
      /\ \A m \in Names \ {n} :
           /\ Uids(m)' = Uids(m)
           /\ \A u : (Alive(m, u)' <=> Alive(m, u)) /\ (InDue(m, u)' <=> InDue(m, u))
  BY <1>2, <1>4, <1>3, WriteAdds
<1>8. ASSUME NEW m \in Names, NEW u
      PROVE  /\ <<m, u>> \in Due' <=> <<m, u>> \in Due
             /\ <<m, u>> \in Closed' <=> <<m, u>> \in Closed
  <2>1. CASE m # n
    BY <1>6, <1>7, <2>1 DEF DueAndClosed
  <2>2. CASE m = n
    BY <1>4, <1>5, <1>6, <1>7, <2>2 DEF DueAndClosed, Alive
  <2> QED
    BY <2>1, <2>2
<1>9. Due' = Due
  BY <1>6, <1>8, SamePairs DEF DueAndClosed
<1>10. Closed' = Closed
  BY <1>6, <1>8, SamePairs DEF DueAndClosed
<1> QED
  BY <1>9, <1>10

\* A deletion closes one incarnation.
LEMMA DeleteCloses ==
  ASSUME TypeOK, UNCHANGED now, NEW n \in Names, Delete(n)
  PROVE  Due' = Due /\ Closed' = Closed \union {<<n, Latest(n).uid>>}
<1> DEFINE v == [Latest(n) EXCEPT !.state = "Deleted"]
<1>1. log[n] \in Seq(Versions) /\ log[n] # <<>>
  BY DEF TypeOK, Live, Delete
<1>2. Latest(n) \in Versions /\ Latest(n).uid \in Uids(n)
  BY <1>1 DEF Latest, Uids
<1>3. v \in Versions /\ v.uid = Latest(n).uid /\ v.state = "Deleted"
  BY <1>2 DEF Versions, States
<1>4. Write(n, v) /\ Live(n)
  BY DEF Delete
<1> HIDE DEF v
<1>5. DueAndClosed /\ DueAndClosed'
  BY <1>3, <1>4, Members, MembersNext, WriteAdds DEF TypeOK
<1>6. /\ Uids(n)' = Uids(n)
      /\ \A u : ~Alive(n, u)'
      /\ \A u : InDue(n, u)' <=> InDue(n, u)
      /\ \A m \in Names \ {n} :
           /\ Uids(m)' = Uids(m)
           /\ \A u : (Alive(m, u)' <=> Alive(m, u)) /\ (InDue(m, u)' <=> InDue(m, u))
  BY <1>2, <1>3, <1>4, WriteAdds
<1>7. ASSUME NEW m \in Names, NEW u
      PROVE  /\ <<m, u>> \in Due' <=> <<m, u>> \in Due
             /\ <<m, u>> \in Closed' <=> <<m, u>> \in Closed \/ (m = n /\ u = Latest(n).uid)
  <2>1. CASE m # n
    BY <1>5, <1>6, <2>1 DEF DueAndClosed
  <2>2. CASE m = n
    BY <1>2, <1>4, <1>5, <1>6, <2>2 DEF DueAndClosed, Alive
  <2> QED
    BY <2>1, <2>2
<1> QED
  BY <1>5, <1>7 DEF DueAndClosed

\* Any other write of a live request closes nothing; only a pre-approval makes one due.
LEMMA UpdateStarts ==
  ASSUME TypeOK, UNCHANGED now, NEW n \in Names, Live(n),
         NEW v \in Versions, Write(n, v), v.uid = Latest(n).uid, v.state # "Deleted"
  PROVE  /\ Due \subseteq Due' /\ Closed' = Closed
         /\ (v.state = "Pre-Approved" => /\ v.state = Latest(n).state
                                          /\ v.startTime = Latest(n).startTime)
              => Due' = Due
<1>1. log[n] \in Seq(Versions) /\ log[n] # <<>>
  BY DEF TypeOK, Live
<1>2. Latest(n) \in Versions /\ Latest(n).uid \in Uids(n)
  BY <1>1 DEF Latest, Uids
<1>3. DueAndClosed /\ DueAndClosed'
  BY Members, MembersNext, WriteAdds DEF TypeOK
<1>4. /\ Uids(n)' = Uids(n) \union {v.uid}
      /\ \A u : Alive(n, u)' <=> v.uid = u
      /\ \A u : InDue(n, u)' <=>
           InDue(n, u) \/ (v.uid = u /\ v.state = "Pre-Approved" /\ v.startTime <= now)
      /\ \A m \in Names \ {n} :
           /\ Uids(m)' = Uids(m)
           /\ \A u : (Alive(m, u)' <=> Alive(m, u)) /\ (InDue(m, u)' <=> InDue(m, u))
  BY WriteAdds
<1>5. Uids(n)' = Uids(n)
  BY <1>2, <1>4
<1>6. \A u : Alive(n, u) <=> v.uid = u
  BY DEF Alive
<1>7. ASSUME NEW m \in Names, NEW u
      PROVE  /\ <<m, u>> \in Due => <<m, u>> \in Due'
             /\ <<m, u>> \in Closed' <=> <<m, u>> \in Closed
  <2>1. CASE m # n
    BY <1>3, <1>4, <2>1 DEF DueAndClosed
  <2>2. CASE m = n
    BY <1>3, <1>4, <1>6, <1>5, <2>2 DEF DueAndClosed
  <2> QED
    BY <2>1, <2>2
<1>8. ASSUME v.state = "Pre-Approved" =>
               v.state = Latest(n).state /\ v.startTime = Latest(n).startTime,
             NEW m \in Names, NEW u
      PROVE  <<m, u>> \in Due' => <<m, u>> \in Due
  <2>1. Len(log[n]) \in 1..Len(log[n])
    BY <1>1
  <2>2. v.state = "Pre-Approved" /\ v.startTime <= now => InDue(n, v.uid)
    BY <1>8, <2>1 DEF InDue, Latest
  <2>3. CASE m # n
    BY <1>3, <1>4, <2>3 DEF DueAndClosed
  <2>4. CASE m = n
    BY <1>3, <1>4, <2>2, <2>4 DEF DueAndClosed
  <2> QED
    BY <2>3, <2>4
<1>9. Due \subseteq Due'
  BY <1>3, <1>7 DEF DueAndClosed
<1>10. Closed' = Closed
  BY <1>3, <1>7, SamePairs DEF DueAndClosed
<1>11. ASSUME v.state = "Pre-Approved" =>
                v.state = Latest(n).state /\ v.startTime = Latest(n).startTime
       PROVE  Due' = Due
  BY <1>3, <1>7, <1>8, <1>11, SamePairs DEF DueAndClosed
<1> QED
  BY <1>9, <1>10, <1>11

-----------------------------------------------------------------------------
(* The uids, and the effects one by one.                                     *)

\* The uid of a version is the place of its creation, which lies in the log.
LEMMA UidWritten ==
  ASSUME TypeOK, UidsPast, NEW n \in Names, NEW v \in Versions, Write(n, v),
         v.uid <= Len(log[n]) + 1
  PROVE  UidsPast'
<1>1. log \in [Names -> Seq(Versions)]
  BY DEF TypeOK
<1>2. /\ log' \in [Names -> Seq(Versions)]
      /\ Len(log'[n]) = Len(log[n]) + 1
      /\ \A i \in 1..Len(log[n]) : log'[n][i] = log[n][i]
      /\ log'[n][Len(log[n]) + 1] = v
  BY <1>1, WriteAppends
<1>3. \A m \in Names \ {n} : log'[m] = log[m]
  BY <1>1 DEF Write
<1>4. ASSUME NEW i \in 1..Len(log'[n])  PROVE log'[n][i].uid <= Len(log'[n])
  <2>1. Len(log[n]) \in Nat
    BY <1>1
  <2>2. CASE i \in 1..Len(log[n])
    <3>1. log[n][i] \in Versions /\ log[n][i].uid <= Len(log[n])
      BY <1>1, <2>2 DEF UidsPast
    <3>2. log[n][i].uid \in Nat
      BY <3>1 DEF Versions
    <3> QED
      BY <1>2, <2>1, <2>2, <3>1, <3>2
  <2>3. CASE i = Len(log[n]) + 1
    BY <1>2, <2>3
  <2> QED
    BY <1>2, <2>1, <2>2, <2>3
<1>5. ASSUME NEW m \in Names, NEW i \in DOMAIN log'[m]  PROVE log'[m][i].uid <= Len(log'[m])
  <2>1. CASE m = n
    BY <1>2, <1>4, <2>1
  <2>2. CASE m # n
    BY <1>3, <1>5, <2>2 DEF UidsPast
  <2> QED
    BY <2>1, <2>2
<1> QED
  BY <1>5 DEF UidsPast

\* The uid of the last version is a place in the log.
LEMMA LatestUid ==
  ASSUME TypeOK, UidsPast, NEW n \in Names, Live(n)
  PROVE  /\ Latest(n) \in Versions /\ Latest(n).uid \in Nat /\ Len(log[n]) \in Nat
         /\ Latest(n).uid <= Len(log[n]) + 1
<1>1. log[n] \in Seq(Versions) /\ log[n] # <<>>
  BY DEF TypeOK, Live
<1>2. Latest(n) \in Versions /\ Len(log[n]) \in DOMAIN log[n] /\ Len(log[n]) \in Nat
  BY <1>1 DEF Latest
<1>3. Latest(n).uid <= Len(log[n])
  BY <1>2 DEF UidsPast, Latest
<1>4. Latest(n).uid \in Nat
  BY <1>2 DEF Versions
<1> QED
  BY <1>2, <1>3, <1>4

\* Uids stay places in the log that are already written.
LEMMA UidsStep ==
  ASSUME TypeOK, WorkerKnows, UidsPast, [Next]_vars
  PROVE  UidsPast'
<1>1. CASE UNCHANGED log
  BY <1>1 DEF UidsPast
<1>2. CASE UserWrites
  <2>1. ASSUME NEW n \in Names, Delete(n)  PROVE UidsPast'
    <3> DEFINE v == [Latest(n) EXCEPT !.state = "Deleted"]
    <3>1. Live(n) /\ Write(n, v)
      BY <2>1 DEF Delete
    <3>2. Latest(n) \in Versions /\ Latest(n).uid <= Len(log[n]) + 1
      BY <3>1, LatestUid
    <3>3. v \in Versions /\ v.uid = Latest(n).uid
      BY <3>2 DEF Versions, States
    <3> HIDE DEF v
    <3> QED
      BY <3>1, <3>2, <3>3, UidWritten
  <2>2. ASSUME NEW n \in Names, NEW s \in Specs, EditLatest(n, s)  PROVE UidsPast'
    <3> DEFINE v == [Latest(n) EXCEPT !.spec = s]
    <3>1. Live(n) /\ Write(n, v)
      BY <2>2 DEF EditLatest
    <3>2. Latest(n) \in Versions /\ Latest(n).uid <= Len(log[n]) + 1
      BY <3>1, LatestUid
    <3>3. v \in Versions /\ v.uid = Latest(n).uid
      BY <3>2 DEF Versions
    <3> HIDE DEF v
    <3> QED
      BY <3>1, <3>2, <3>3, UidWritten
  <2>3. ASSUME NEW n \in Names, NEW s \in Specs, Create(n, s)  PROVE UidsPast'
    <3> DEFINE v == [uid |-> Len(log[n]) + 1, spec |-> s, state |-> "",
                     ticket |-> 0, startTime |-> 0, endTime |-> 0]
    <3>1. Len(log[n]) \in Nat
      BY DEF TypeOK
    <3>2. v \in Versions /\ v.uid <= Len(log[n]) + 1
      BY <3>1 DEF Versions, States
    <3>3. Write(n, v)
      BY <2>3 DEF Create
    <3> HIDE DEF v
    <3> QED
      BY <3>2, <3>3, UidWritten
  <2> QED
    BY <1>2, <2>1, <2>2, <2>3 DEF UserWrites
<1>3. CASE WorkerWrites
  <2>1. PICK v \in Versions : Write(job.name, v) /\ v.uid = Request.uid
    BY <1>3, UpdateWrites
  <2>2. job.name \in Names
    BY <1>3, CopyInHand DEF WorkerWrites, Jobs
  <2>3. Latest(job.name) = Request /\ Live(job.name)
    BY <1>3, UpdateFromLatest
  <2>4. Request.uid <= Len(log[job.name]) + 1
    BY <2>2, <2>3, LatestUid
  <2> QED
    BY <2>1, <2>2, <2>4, UidWritten
<1> QED
  BY <1>1, <1>2, <1>3, StepEffect
     DEF Effect, TicketChanges, BindingAdds, BindingGoes, TimePasses

\* The bookkeeping sets are functions of what an effect leaves alone.
LEMMA Unchanged ==
  /\ UNCHANGED tickets => Consented' = Consented
  /\ UNCHANGED <<log, now>> => Due' = Due
  /\ UNCHANGED log => Closed' = Closed
  /\ UNCHANGED bindings => Access' = Access
<1>1. UNCHANGED tickets => Consented' = Consented
  BY DEF Consented, EverApproved
<1>2. UNCHANGED <<log, now>> => Due' = Due
  BY DEF Due, Places, Announced, VersionAt, IncarnationAt
<1>3. UNCHANGED log => Closed' = Closed
  BY DEF Closed, Places, VersionAt, IncarnationAt, Alive, Live, Latest
<1>4. UNCHANGED bindings => Access' = Access
  BY DEF Access
<1> QED
  BY <1>1, <1>2, <1>3, <1>4

-----------------------------------------------------------------------------
(* Every effect is a step of the promise, or none.                           *)

PromiseStep == [JIT!ANext]_(JIT!avars)

\* What users write starts nothing; deleting a request closes it.
LEMMA UserWritesRefine ==
  ASSUME TypeOK, UidsPast, UserWrites  PROVE PromiseStep
<1>1. Consented' = Consented /\ Access' = Access
  BY Unchanged DEF UserWrites
<1>2. ASSUME NEW n \in Names, Delete(n)  PROVE PromiseStep
  <2>1. Due' = Due /\ Closed' = Closed \union {<<n, Latest(n).uid>>}
    BY <1>2, DeleteCloses DEF UserWrites
  <2> QED
    BY <1>1, <2>1 DEF PromiseStep, JIT!ANext, JIT!Close
<1>3. ASSUME NEW n \in Names, NEW s \in Specs, Create(n, s)  PROVE PromiseStep
  <2>1. Due' = Due /\ Closed' = Closed
    BY <1>3, CreateStutters DEF UserWrites
  <2> QED
    BY <1>1, <2>1 DEF PromiseStep, JIT!avars
<1>4. ASSUME NEW n \in Names, NEW s \in Specs, EditLatest(n, s)  PROVE PromiseStep
  <2> DEFINE v == [Latest(n) EXCEPT !.spec = s]
  <2>1. Live(n) /\ Write(n, v)
    BY <1>4 DEF EditLatest
  <2>2. Latest(n) \in Versions
    BY <2>1, LatestUid
  <2>3. /\ v \in Versions /\ v.uid = Latest(n).uid /\ v.state # "Deleted"
        /\ v.state = Latest(n).state /\ v.startTime = Latest(n).startTime
    BY <2>1, <2>2 DEF Versions, Live
  <2> HIDE DEF v
  <2>4. Due' = Due /\ Closed' = Closed
    BY <2>1, <2>3, UpdateStarts DEF UserWrites
  <2> QED
    BY <1>1, <2>4 DEF PromiseStep, JIT!avars
<1> QED
  BY <1>2, <1>3, <1>4 DEF UserWrites

\* What the worker writes makes a request due, closes it, or changes neither.
LEMMA WorkerWritesRefine ==
  ASSUME TypeOK, WorkerKnows, WorkerWrites  PROVE PromiseStep
<1>1. Consented' = Consented /\ Access' = Access
  BY Unchanged DEF WorkerWrites
<1>2. PICK v \in Versions : /\ Write(job.name, v) /\ v.uid = Request.uid
                            /\ v.state = StateAfter(job.call)
  BY UpdateWrites
<1>3. Latest(job.name) = Request /\ Live(job.name) /\ job.name \in Names
  BY UpdateFromLatest, CopyInHand DEF WorkerWrites, Jobs
<1>4. v.state # "Deleted"
  BY <1>2 DEF StateAfter
<1>5. Due \subseteq Due' /\ Closed' = Closed
  BY <1>2, <1>3, <1>4, UpdateStarts DEF WorkerWrites
<1> QED
  BY <1>1, <1>5 DEF PromiseStep, JIT!ANext, JIT!Start

\* Only an approval adds to the consent.
LEMMA TicketChangesRefine ==
  ASSUME TypeOK, TicketChanges  PROVE PromiseStep
<1>1. Due' = Due /\ Closed' = Closed /\ Access' = Access
  BY Unchanged DEF TicketChanges
<1>2. tickets \in Seq(TicketRecords) /\ DOMAIN tickets = 1..Len(tickets)
  BY DEF TypeOK
<1>3. ASSUME NEW o \in Names \X (Nat \ {0}), FileTicket(o)  PROVE PromiseStep
  <2>1. tickets' = Append(tickets, [owner |-> o, status |-> "Todo"])
    BY <1>3 DEF FileTicket
  <2>2. /\ DOMAIN tickets' = DOMAIN tickets \union {Len(tickets) + 1}
        /\ \A k \in DOMAIN tickets : tickets'[k] = tickets[k]
        /\ tickets'[Len(tickets) + 1].status = "Todo"
    BY <1>2, <2>1
  <2>3. Consented' = Consented
    BY <2>2 DEF Consented, EverApproved
  <2> QED
    BY <1>1, <2>3 DEF PromiseStep, JIT!avars
<1>4. ASSUME NEW k \in DOMAIN tickets, NEW a \in DOMAIN From, Move(k, a)  PROVE PromiseStep
  <2>1. /\ DOMAIN tickets' = DOMAIN tickets
        /\ \A j \in DOMAIN tickets \ {k} : tickets'[j] = tickets[j]
        /\ tickets'[k].owner = tickets[k].owner /\ tickets'[k].status = To[a]
        /\ tickets[k].status = From[a]
    BY <1>2, <1>4 DEF Move, CanMove, TicketRecords
  <2>2. CASE To[a] = "Approved"
    <3>1. Consented' = Consented \union {tickets[k].owner}
      BY <2>1, <2>2 DEF Consented, EverApproved, From, To
    <3> QED
      BY <1>1, <3>1 DEF PromiseStep, JIT!ANext, JIT!Approve
  <2>3. CASE To[a] # "Approved"
    <3>1. Consented' = Consented
      BY <2>1, <2>3 DEF Consented, EverApproved, From, To
    <3> QED
      BY <1>1, <3>1 DEF PromiseStep, JIT!avars
  <2> QED
    BY <2>2, <2>3
<1> QED
  BY <1>3, <1>4 DEF TicketChanges

\* A RoleBinding is added for a request that is approved and due.
LEMMA BindingAddsRefine ==
  ASSUME TypeOK, WorkerKnows, BindingAdds  PROVE PromiseStep
<1>1. Consented' = Consented /\ Due' = Due /\ Closed' = Closed
  BY Unchanged DEF BindingAdds
<1>2. job # Idle /\ At("CreateRoleBinding") /\ CreateBinding
  BY DEF BindingAdds
<1>3. Owner \in Consented
  <2>1. FiledFor(job.issue, Owner) /\ EverApproved(job.issue)
    BY <1>2 DEF WorkerKnows, At, OnTicket, AfterStart
  <2> QED
    BY <2>1 DEF FiledFor, Consented
<1>4. Owner \in Due
  <2>1. Request.state = "Pre-Approved" /\ Request.startTime <= now
    BY <1>2 DEF WorkerKnows, At, AfterStart, StatesBefore, Reads
  <2>2. job.name \in Names /\ job.rev \in 1..Len(log[job.name])
    BY <1>2, CopyInHand DEF Jobs
  <2>3. DueAndClosed /\ InDue(job.name, Request.uid)
    BY <2>1, <2>2, Members DEF TypeOK, InDue, Request
  <2> QED
    BY <2>2, <2>3 DEF DueAndClosed, Owner
<1> DEFINE a == <<Owner, Request.spec.namespaces[job.next]>>
<1>5. Access' = Access \/ Access' = Access \union {a}
  <2>1. bindings' = bindings \/ \E r : bindings' = bindings \union
          {[name |-> job.name, namespace |-> Request.spec.namespaces[job.next],
            uid |-> Request.uid, role |-> r]}
    BY <1>2 DEF CreateBinding, Bind
  <2> QED
    BY <2>1 DEF Access, Owner
<1>6. a[1] \in Consented \intersect Due
  BY <1>3, <1>4
<1> HIDE DEF a
<1>7. CASE Access' = Access
  BY <1>1, <1>7 DEF PromiseStep, JIT!avars
<1>8. CASE Access' = Access \union {a}
  BY <1>1, <1>6, <1>8 DEF PromiseStep, JIT!ANext, JIT!Grant
<1> QED
  BY <1>5, <1>7, <1>8

\* A RoleBinding is collected once its owner is gone.
LEMMA BindingGoesRefine ==
  ASSUME TypeOK, GrantNotBeforeStart, BindingGoes  PROVE PromiseStep
<1>1. Consented' = Consented /\ Due' = Due /\ Closed' = Closed
  BY Unchanged DEF BindingGoes
<1>2. PICK b \in bindings : bindings' = bindings \ {b} /\ ~Alive(b.name, b.uid)
  BY DEF BindingGoes, Collect
<1> DEFINE a == <<<<b.name, b.uid>>, b.namespace>>
<1>3. Access' = Access \/ Access' = Access \ {a}
  BY <1>2 DEF Access
<1>4. a \in Access
  BY DEF Access
<1>5. a[1] \in Closed
  <2>1. b.name \in Names /\ log \in [Names -> Seq(Versions)]
    BY DEF TypeOK, Bindings
  <2>2. PICK i \in DOMAIN log[b.name] : log[b.name][i].uid = b.uid
    BY DEF GrantNotBeforeStart
  <2>3. i \in 1..Len(log[b.name])
    BY <2>1
  <2>4. b.uid \in Uids(b.name)
    BY <2>2, <2>3 DEF Uids
  <2> QED
    BY <1>2, <2>1, <2>4, Members DEF DueAndClosed
<1> HIDE DEF a
<1>6. CASE Access' = Access
  BY <1>1, <1>6 DEF PromiseStep, JIT!avars
<1>7. CASE Access' = Access \ {a}
  BY <1>1, <1>4, <1>5, <1>7 DEF PromiseStep, JIT!ANext, JIT!Revoke
<1> QED
  BY <1>3, <1>6, <1>7

\* Time makes requests due and grants nothing.
LEMMA TimePassesRefines ==
  ASSUME TypeOK, TimePasses  PROVE PromiseStep
<1>1. Consented' = Consented /\ Closed' = Closed /\ Access' = Access
  BY Unchanged DEF TimePasses
<1>2. log \in [Names -> Seq(Versions)] /\ now \in Nat /\ log' = log /\ now' = now + 1
  BY DEF TypeOK, TimePasses
<1>3. ASSUME NEW n \in Names, NEW i \in 1..Len(log[n]), log[n][i].startTime <= now
      PROVE  log[n][i].startTime <= now'
  <2>1. log[n][i] \in Versions
    BY <1>2
  <2>2. log[n][i].startTime \in Nat
    BY <2>1 DEF Versions
  <2> QED
    BY <1>2, <1>3, <2>2
<1>4. DueAndClosed /\ DueAndClosed'
  BY <1>2, Members, MembersNext
<1>5. \A n \in Names : \A u : InDue(n, u) => InDue(n, u)'
  BY <1>2, <1>3 DEF InDue
<1>6. Due \subseteq Due'
  BY <1>4, <1>5 DEF DueAndClosed
<1> QED
  BY <1>1, <1>6 DEF PromiseStep, JIT!ANext, JIT!Start

-----------------------------------------------------------------------------
(* The theorems.                                                             *)

\* In every reachable state uids are places in the log.
LEMMA UidsInvariant == Spec => []UidsPast
<1>1. Init => UidsPast
  BY DEF Init, ApiInit, UidsPast
<1>2. TypeOK /\ WorkerKnows /\ UidsPast /\ [Next]_vars => UidsPast'
  BY UidsStep
<1> QED
  BY <1>1, <1>2, TypeCorrect, KnowledgeLasts, PTL DEF Spec

\* At the start nothing is allowed, and nothing is granted.
LEMMA InitRefines ==
  ASSUME Init  PROVE JIT!AInit
<1>1. \A n \in Names : log[n] = <<>>
  BY DEF Init, ApiInit
<1>2. bindings = {} /\ tickets = <<>>
  BY DEF Init, ApiInit, JiraInit
<1>3. Consented = {}
  BY <1>2 DEF Consented
<1>4. Places = {}
  BY <1>1 DEF Places
<1>5. Due = {} /\ Closed = {} /\ Access = {}
  BY <1>2, <1>4 DEF Due, Closed, Access
<1> QED
  BY <1>3, <1>5 DEF JIT!AInit

\* Every step of the controller is a step of the promise, or none.
LEMMA StepRefines ==
  ASSUME Inductive, UidsPast, [Next]_vars  PROVE PromiseStep
<1>1. CASE UNCHANGED <<log, tickets, bindings, now>>
  BY <1>1, Unchanged DEF PromiseStep, JIT!avars
<1> QED
  BY <1>1, StepEffect, UserWritesRefine, WorkerWritesRefine, TicketChangesRefine,
     BindingAddsRefine, BindingGoesRefine, TimePassesRefines
     DEF Inductive, Effect

\* The controller implements the promise: whatever the operator, its users, time and
\* faults do, access is given on behalf of a request only once it is approved and due, and
\* taken away only once the request is closed.
THEOREM ControllerImplementsPromise == Spec => ImplementsJustInTimeAccess
<1>1. Init => JIT!AInit
  BY InitRefines
<1>2. Inductive /\ UidsPast /\ [Next]_vars => [JIT!ANext]_(JIT!avars)
  BY StepRefines DEF PromiseStep
<1> QED
  BY <1>1, <1>2, InductiveInvariant, UidsInvariant, PTL
     DEF Spec, ImplementsJustInTimeAccess, JIT!ASpec
=============================================================================
