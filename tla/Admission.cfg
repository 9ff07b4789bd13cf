\* The same with webhooks, where users may edit specs, the label check is the webhook's
\* and the configuration is narrowed down: what is granted is still a spec that passed
\* every check, and no request is lost.
SPECIFICATION Spec
CONSTANTS
  r1 = r1
  r2 = r2
  ns1 = ns1
  ns2 = ns2
  view = view
  admin = admin
  Names = {r1}
  Namespaces = {ns1, ns2}
  ExistingNamespaces = {ns1, ns2}
  Roles = {view, admin}
  CustomFields <- Fields
  Specs <- Admissible
  Configs <- Narrowing
  LabelledNamespaces = {ns1}
  Webhooks = TRUE
  SlowCalls = FALSE
  LaggingCache = TRUE
  Faulty <- AllCalls
  Disturbances = {"reconfigure", "edit", "withdraw", "recreate", "anytime"}
  MaxTrouble = 2
  Horizon = 3
  MaxTickets = 2
INVARIANTS
  GrantIsAllowed
  NobodyIsForgotten
CHECK_DEADLOCK FALSE
