\* A label written while the ticket is being created makes the status update conflict,
\* and the retry files a second ticket.
SPECIFICATION Spec
CONSTANTS
  r1 = r1
  r2 = r2
  ns1 = ns1
  ns2 = ns2
  view = view
  admin = admin
  Names = {r1}
  Namespaces = {ns1, ns2}
  ExistingNamespaces = {ns1, ns2}
  Roles = {view, admin}
  CustomFields <- Fields
  Specs <- JustSound
  Configs <- JustOpen
  LabelledNamespaces = {ns1, ns2}
  Webhooks = FALSE
  SlowCalls = FALSE
  LaggingCache = FALSE
  Faulty <- NoCalls
  Disturbances = {"touch"}
  MaxTrouble = 1
  Horizon = 3
  MaxTickets = 4
INVARIANTS
  OneTicketEach
CHECK_DEADLOCK FALSE
