\* A request for each reason to reject, without webhooks, while the configuration is
\* withdrawn or lost: only what the controller's checks let through is ever granted.
SPECIFICATION Spec
CONSTANTS
  r1 = r1
  r2 = r2
  ns1 = ns1
  ns2 = ns2
  view = view
  admin = admin
  Names = {r1}
  Namespaces = {ns1, ns2}
  ExistingNamespaces = {ns1, ns2}
  Roles = {view, admin}
  CustomFields <- Fields
  Specs <- Refusable
  Configs <- Withdrawing
  LabelledNamespaces = {ns1}
  Webhooks = FALSE
  SlowCalls = TRUE
  LaggingCache = TRUE
  Faulty <- AllCalls
  Disturbances = {"reconfigure", "diskfull", "touch", "withdraw", "recreate"}
  MaxTrouble = 2
  Horizon = 2
  MaxTickets = 2
INVARIANTS
  GrantIsAllowed
CHECK_DEADLOCK FALSE
