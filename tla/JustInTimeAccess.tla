-------------------------- MODULE JustInTimeAccess --------------------------
(***************************************************************************)
(* What the operator promises, without saying how: access to a namespace   *)
(* is given on behalf of a request only after a human consented to that    *)
(* request and its start time came, and it is taken away only once the     *)
(* request is closed.  A request is whatever the four sets speak of.       *)
(***************************************************************************)
VARIABLES consent,  \* requests a human approved
          due,      \* requests whose announced start time has come
          closed,   \* requests that were and are no more
          access    \* pairs of a request and a namespace it gives access to

avars == <<consent, due, closed, access>>

AInit == consent = {} /\ due = {} /\ closed = {} /\ access = {}

Approve ==
  /\ \E r \in consent' : consent' = consent \union {r}
  /\ UNCHANGED <<due, closed, access>>

\* One instant may be the start of several requests.
Start == due \subseteq due' /\ UNCHANGED <<consent, closed, access>>

Grant ==
  /\ \E a \in access' : access' = access \union {a} /\ a[1] \in consent \intersect due
  /\ UNCHANGED <<consent, due, closed>>

Close ==
  /\ \E r \in closed' : closed' = closed \union {r}
  /\ UNCHANGED <<consent, due, access>>

Revoke ==
  /\ \E a \in access : access' = access \ {a} /\ a[1] \in closed
  /\ UNCHANGED <<consent, due, closed>>

ANext == Approve \/ Start \/ Grant \/ Close \/ Revoke

ASpec == AInit /\ [][ANext]_avars
=============================================================================
