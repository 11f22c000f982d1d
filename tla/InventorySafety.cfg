CONSTANTS
  c1 = c1
  c2 = c2
  k1 = k1
  k2 = k2
  r1 = r1
  Clients = {c1, c2}
  Skus <- MCSkus
  Locs <- MCLocs
  Qtys <- MCQtys
  Receipts <- MCReceipts
  Lines <- MCLines
  Serials = {7}
  Rmas <- MCRmas
  RmaItem <- MCRmaItem
  RmaQty <- MCRmaQty
  Weee = {8}
  Opening <- MCOpening
  Kits = {k1, k2}
  KitLines <- MCKitLines
  Releasers = {r1}
  MaxKey = 8
  MaxCalls = 3
  MaxFaults = 1
SPECIFICATION Spec
CONSTRAINT Bounded
SYMMETRY Symmetric
CHECK_DEADLOCK FALSE
INVARIANTS
  TypeOK
  NoDeadlock
  LedgerAgrees
  DocumentsOnce
  KitsWhole
