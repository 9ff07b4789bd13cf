---------------------------- MODULE MCJitRequest ----------------------------
(***************************************************************************)
(* The JitRequest controller on small instances.                           *)
(***************************************************************************)
EXTENDS JitRequestProperties

CONSTANTS r1, r2, ns1, ns2, view, admin

Fields == {"Approver", "Justification"}

\* Configurations: one for both namespaces; then one that is withdrawn altogether, its
\* expression broken at last, one that is narrowed down and one that asks for more.
Open        == [expression |-> "valid", roles |-> {view}, matches |-> {ns1, ns2},
                fields |-> {"Approver"}]
Half        == [Open EXCEPT !.matches = {ns1}]
Withdrawn   == [Half EXCEPT !.roles = {}, !.matches = {}, !.fields = Fields]
JustOpen    == <<Open>>
Withdrawing == <<Half, Withdrawn, [Withdrawn EXCEPT !.expression = "invalid"]>>
Narrowing   == <<Open, [Half EXCEPT !.roles = {}]>>
Tightening  == <<Open, [Half EXCEPT !.fields = Fields]>>

\* A request that passes every check, for both namespaces, from 1 to 2.
Sound == [role |-> view, namespaces |-> <<ns1, ns2>>, labelled |-> FALSE,
          fields |-> Fields, known |-> TRUE, startTime |-> 1, endTime |-> 2]

Small == [Sound EXCEPT !.namespaces = <<ns1>>, !.fields = {"Approver"}]

Later == [Small EXCEPT !.startTime = 2, !.endTime = 3]

\* One request for each reason to reject.
WrongRole      == [Small EXCEPT !.role = admin]
WrongLabel     == [Sound EXCEPT !.labelled = TRUE]
WrongName      == [Small EXCEPT !.namespaces = <<ns2>>]
Incomplete     == [Small EXCEPT !.fields = {}]
Unknown        == [Small EXCEPT !.known = FALSE]
Late           == [Small EXCEPT !.startTime = 0]

JustSound      == {Sound}
Successive     == {Small, Later}
SoundAndWrong  == {Sound, WrongRole, Unknown}
Admissible     == {Sound, Small, Later, WrongLabel, WrongRole, Late, Unknown, Incomplete}
Refusable      == {Sound, Small, WrongRole, WrongLabel}
Closable       == Refusable \union {WrongName, Incomplete, Late}

NoCalls == {}
AllCalls == Calls

\* The calls whose failure comes neither between a ticket and its record nor between a
\* grant and its record.
HarmlessToRecords ==
  Calls \ {"CreateIssue", "CommentPreApproved", "UpdatePreApproved", "UpdateRejected",
           "GetIssue", "MoveCompleted", "UpdateSucceeded"}

\* The calls whose failure leaves the request where a retry can go on from.
HarmlessToClosing ==
  Calls \ {"GetIssue", "MoveCompleted", "UpdateSucceeded",
           "UpdateSkipped", "MoveRejected", "DeleteRejected"}
=============================================================================
