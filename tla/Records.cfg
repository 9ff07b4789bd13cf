\* With fresh reads and no failure between a ticket or a grant and its record, an
\* incarnation has one ticket and no rejection meets access, whenever approvers decide.
SPECIFICATION Spec
CONSTANTS
  r1 = r1
  r2 = r2
  ns1 = ns1
  ns2 = ns2
  view = view
  admin = admin
  Names = {r1}
  Namespaces = {ns1, ns2}
  ExistingNamespaces = {ns1, ns2}
  Roles = {view, admin}
  CustomFields <- Fields
  Specs <- SoundAndWrong
  Configs <- JustOpen
  LabelledNamespaces = {ns1, ns2}
  Webhooks = FALSE
  SlowCalls = TRUE
  LaggingCache = FALSE
  Faulty <- HarmlessToRecords
  Disturbances = {"restart", "withdraw", "recreate", "anytime", "veto", "relist"}
  MaxTrouble = 3
  Horizon = 2
  MaxTickets = 3
INVARIANTS
  OneTicketEach
  RejectedHoldsNothing
CHECK_DEADLOCK FALSE
