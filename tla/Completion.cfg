\* Two requests share the worker, the queue and the Jira project, every call may fail and
\* the operator may crash: a status never names the other's ticket, a completed ticket
\* means access, and only rejected or expired requests are deleted, their tickets first
\* closed.
SPECIFICATION Spec
CONSTANTS
  r1 = r1
  r2 = r2
  ns1 = ns1
  ns2 = ns2
  view = view
  admin = admin
  Names = {r1, r2}
  Namespaces = {ns1, ns2}
  ExistingNamespaces = {ns1, ns2}
  Roles = {view, admin}
  CustomFields <- Fields
  Specs <- JustSound
  Configs <- JustOpen
  LabelledNamespaces = {ns1, ns2}
  Webhooks = FALSE
  SlowCalls = TRUE
  LaggingCache = TRUE
  Faulty <- AllCalls
  Disturbances = {"crash", "touch", "withdraw", "anytime", "veto", "relist"}
  MaxTrouble = 1
  Horizon = 2
  MaxTickets = 2
INVARIANTS
  TicketIsOwn
  DoneMeansGranted
PROPERTIES
  DeletedWhenOver
  TicketsCloseFirst
CHECK_DEADLOCK FALSE
