\* One request, its name used again, with every fault, disturbance, slow call and stale
\* read: access follows consent and start, and no decision is overwritten.
SPECIFICATION Spec
CONSTANTS
  r1 = r1
  r2 = r2
  ns1 = ns1
  ns2 = ns2
  view = view
  admin = admin
  Names = {r1}
  Namespaces = {ns1, ns2}
  ExistingNamespaces = {ns1, ns2}
  Roles = {view, admin}
  CustomFields <- Fields
  Specs <- Successive
  Configs <- JustOpen
  LabelledNamespaces = {ns1, ns2}
  Webhooks = FALSE
  SlowCalls = TRUE
  LaggingCache = TRUE
  Faulty <- AllCalls
  Disturbances = {"crash", "touch", "edit", "withdraw", "recreate", "anytime", "veto", "relist"}
  MaxTrouble = 2
  Horizon = 3
  MaxTickets = 2
INVARIANTS
  TypeOK
  WorkerKnows
  GrantNeedsApproval
  GrantNotBeforeStart
PROPERTIES
  DecisionsStand
  ImplementsJustInTimeAccess
CHECK_DEADLOCK FALSE
