\* An approver takes the workflow's rejecting action: the operator's own rejection then
\* fails at every attempt.
SPECIFICATION FairSpec
CONSTANTS
  r1 = r1
  r2 = r2
  ns1 = ns1
  ns2 = ns2
  view = view
  admin = admin
  Names = {r1}
  Namespaces = {ns1, ns2}
  ExistingNamespaces = {ns1, ns2}
  Roles = {view, admin}
  CustomFields <- Fields
  Specs <- JustSound
  Configs <- JustOpen
  LabelledNamespaces = {ns1, ns2}
  Webhooks = FALSE
  SlowCalls = FALSE
  LaggingCache = FALSE
  Faulty <- NoCalls
  Disturbances = {"veto"}
  MaxTrouble = 0
  Horizon = 3
  MaxTickets = 4
PROPERTIES
  RequestsClose
CHECK_DEADLOCK FALSE
