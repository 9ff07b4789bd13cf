SPECIFICATION ReviewFairSpec
CONSTANTS
  r1 = r1
  ns1 = ns1
  ns2 = ns2
  view = view
  admin = admin
  rita = rita
  alias = alias
  adam = adam
  nobody = nobody
  none = none
  NoEmail = none
  Configs <- Changing
  Getters = 3
  Readers = {r1}
  MaxFaults <- Bounds
  Namespaces = {ns1, ns2}
  Submitted <- Specs
  Labelled = {ns1}
  Accounts <- Finds
  LastInstant = 1
INVARIANTS
  ReviewTypeOK
  AdmittedIsAllowed
  FilteredWhenConfigured
  RefusedForReason
PROPERTIES
  ReviewsEnd
CHECK_DEADLOCK FALSE
