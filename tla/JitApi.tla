------------------------------- MODULE JitApi -------------------------------
(***************************************************************************)
(* What the operator sees of Kubernetes: the API server's JitRequests and  *)
(* RoleBindings, the informer's cache of the JitRequests, and the garbage  *)
(* collector.  Every write of a JitRequest appends a version to the log of *)
(* its name, so a place in the log is a resourceVersion and the creating   *)
(* place is the uid.  The cache is a place in the log that trails its end. *)
(***************************************************************************)
EXTENDS Naturals, Sequences

CONSTANTS Names,
          Namespaces,          \* namespaces a request may name
          ExistingNamespaces,  \* the ones the cluster has
          Roles,               \* ClusterRoles a request may name
          CustomFields,        \* custom fields a configuration may require
          Specs                \* the specs users submit

VARIABLES log,       \* log[n]: the versions of JitRequest n, oldest first
          seen,      \* seen[n]: the version of n the informer's cache holds, 0 for none
          bindings   \* the RoleBindings made for requests

\* JitRequestSpec, reduced to what the program decides on: labelled tells whether
\* namespaceLabels are given, fields which custom fields jiraFields has, known whether
\* Jira finds the reporter.
SpecType == [role : Roles, namespaces : Seq(Namespaces), labelled : BOOLEAN,
             fields : SUBSET CustomFields, known : BOOLEAN, startTime : Nat, endTime : Nat]

ASSUME ApiAssumption == /\ ExistingNamespaces \subseteq Namespaces
                        /\ Specs \subseteq SpecType

\* status.state; "" is the state of a new request.  "Deleted" marks the end of an
\* incarnation in the log and is not a state the program reads.
States == {"", "Pre-Approved", "Rejected", "Succeeded", "Deleted"}

Versions == [uid : Nat \ {0}, spec : Specs, state : States,
             ticket : Nat, startTime : Nat, endTime : Nat]

Bindings == [name : Names, namespace : Namespaces, uid : Nat \ {0}, role : Roles]

Latest(n) == log[n][Len(log[n])]

Live(n) == log[n] # <<>> /\ Latest(n).state # "Deleted"

\* Incarnation u of name n is still there.
Alive(n, u) == Live(n) /\ Latest(n).uid = u

ApiInit == /\ log = [n \in Names |-> <<>>]
           /\ seen = [n \in Names |-> 0]
           /\ bindings = {}

Write(n, version) == log' = [log EXCEPT ![n] = Append(@, version)]

\* The API server drops the status of an object that is created.
Create(n, s) ==
  /\ ~Live(n)
  /\ Write(n, [uid |-> Len(log[n]) + 1, spec |-> s, state |-> "",
               ticket |-> 0, startTime |-> 0, endTime |-> 0])

\* Deletion is by name: it takes whichever incarnation is there.
Delete(n) == Live(n) /\ Write(n, [Latest(n) EXCEPT !.state = "Deleted"])

\* Creating a RoleBinding that exists is answered with AlreadyExists, which the
\* caller ignores, so both outcomes are one.
Bind(n, ns, u, r) ==
  /\ ns \in ExistingNamespaces
  /\ bindings' =
       IF \E b \in bindings : b.name = n /\ b.namespace = ns
       THEN bindings
       ELSE bindings \union {[name |-> n, namespace |-> ns, uid |-> u, role |-> r]}

\* The garbage collector removes a RoleBinding whose owner's uid is gone.
Collect(b) ==
  /\ b \in bindings
  /\ ~Alive(b.name, b.uid)
  /\ bindings' = bindings \ {b}
=============================================================================
