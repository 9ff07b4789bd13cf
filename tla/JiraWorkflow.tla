---------------------------- MODULE JiraWorkflow ----------------------------
(***************************************************************************)
(* The tickets of the Jira project and the workflow they follow, as the    *)
(* repository ships it (samples/workflow.xml).  A ticket is numbered by    *)
(* its place in the project.  Its key is a conversion of that number; a    *)
(* ticket also remembers its owner, the incarnation of a JitRequest it was *)
(* filed for, which Jira cannot tell and the properties need.  Comments    *)
(* are not kept: no guard of the program reads one.                        *)
(***************************************************************************)
EXTENDS Naturals, Sequences

CONSTANT MaxTickets  \* bound of the model: tickets Jira accepts in a behaviour

VARIABLE tickets     \* the project's tickets, oldest first

Statuses == {"Todo", "Approved", "Rejected", "Done"}

\* The steps an action leads from and to: 11 (approval), 21 (rejected) and 41
\* (complete).  "Rejected" and "Done" have no outgoing action.
From == [approval |-> "Todo", rejected |-> "Todo", complete |-> "Approved"]
To   == [approval |-> "Approved", rejected |-> "Rejected", complete |-> "Done"]

JiraInit == tickets = <<>>

\* Issue.Create: a new ticket starts in "Todo".
FileTicket(owner) ==
  /\ Len(tickets) < MaxTickets
  /\ tickets' = Append(tickets, [owner |-> owner, status |-> "Todo"])

\* Issue.Move answers with an error unless the ticket's step offers the action.
CanMove(k, action) == tickets[k].status = From[action]

Move(k, action) ==
  /\ CanMove(k, action)
  /\ tickets' = [tickets EXCEPT ![k].status = To[action]]

\* A decision stays: once approved, a ticket can only be completed.
EverApproved(k) == tickets[k].status \in {"Approved", "Done"}
=============================================================================
