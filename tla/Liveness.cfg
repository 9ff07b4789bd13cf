\* With restarts between reconciles, a new configuration and failures a retry can go on
\* from, no request is lost, every one is closed, no approved one is rejected, timely
\* approval brings access and all access ends.
SPECIFICATION FairSpec
CONSTANTS
  r1 = r1
  r2 = r2
  ns1 = ns1
  ns2 = ns2
  view = view
  admin = admin
  Names = {r1}
  Namespaces = {ns1, ns2}
  ExistingNamespaces = {ns1, ns2}
  Roles = {view, admin}
  CustomFields <- Fields
  Specs <- Closable
  Configs <- Tightening
  LabelledNamespaces = {ns1, ns2}
  Webhooks = FALSE
  SlowCalls = FALSE
  LaggingCache = FALSE
  Faulty <- HarmlessToClosing
  Disturbances = {"restart", "reconfigure"}
  MaxTrouble = 2
  Horizon = 3
  MaxTickets = 4
INVARIANTS
  NobodyIsForgotten
  ApprovedIsNotRejected
PROPERTIES
  RequestsClose
  AccessEnds
  ApprovedGetsAccess
CHECK_DEADLOCK FALSE
