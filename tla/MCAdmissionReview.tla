------------------------- MODULE MCAdmissionReview -------------------------
(***************************************************************************)
(* The admission webhook beside the configuration controller.              *)
(***************************************************************************)
EXTENDS AdmissionReview, TLC

CONSTANTS r1, ns1, ns2, view, admin,
          rita, alias, adam, nobody, none   \* e-mails: alias is rita's too

\* The first version allows one role, one name and no self approval.
First == [expression |-> "valid", matches |-> {ns1}, roles |-> {view},
          fields |-> {"Approver", "Justification"}, users |-> {"Approver"},
          selfApproval |-> FALSE]

\* Another allows everything but asks for a second user.
Second == [First EXCEPT !.matches = {ns1, ns2}, !.roles = {view, admin},
                        !.users = {"Approver", "Justification"}, !.selfApproval = TRUE]

\* A version is replaced, broken, mended and left without an expression.
Changing == <<First, Second, [First EXCEPT !.expression = "invalid"],
              [Second EXCEPT !.expression = "none"]>>

Finds == rita :> <<"a1">> @@ alias :> <<"a1", "a2">> @@ adam :> <<"a2">>
         @@ nobody :> <<>> @@ none :> <<"a2">>

Given(e) == "Approver" :> e @@ "Justification" :> adam

Sound == [role |-> view, namespaces |-> <<ns1>>, labelled |-> FALSE, reporter |-> rita,
          jiraFields |-> Given(adam), startTime |-> 1, endTime |-> 2]

\* A spec for each rule that can be broken.
Specs == {Sound,
          [Sound EXCEPT !.role = admin],
          [Sound EXCEPT !.namespaces = <<>>, !.reporter = nobody],
          [Sound EXCEPT !.namespaces = <<ns1, ns2>>],
          [Sound EXCEPT !.namespaces = <<ns2, ns1>>, !.labelled = TRUE],
          [Sound EXCEPT !.jiraFields = Given(alias)],
          [Sound EXCEPT !.jiraFields = Given(nobody)],
          [Sound EXCEPT !.jiraFields = Given(none)],
          [Sound EXCEPT !.jiraFields = "Approver" :> adam],
          [Sound EXCEPT !.endTime = 1]}

Bounds == [failure |-> 1, crash |-> 1]
=============================================================================
