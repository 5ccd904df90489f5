\* The vulnerable application: two threads, two orders, four requests; anybody
\* may present a code, which is good for the tick it was made in.
SPECIFICATION BodySpec
CONSTANTS
  Worker = {w1, w2}
  OrderId = {o1, o2}
  CodeId = {c1, c2}
  CodeValue = {c1, c2, minted}
  avery = avery
  navarro = navarro
  wrench = wrench
  woAvery = woAvery
  minted = minted
  textFalse = textFalse
  textTwo = textTwo
  None = None
  Null = Null
  Loose = {textFalse, textTwo}
  Converted <- MCConverted
  Written <- MCWritten
  Account <- MCAccount
  Part <- MCPart
  RoleOf <- MCRoleOf
  Limit <- MCLimit
  SeedStock <- MCSeedStock
  WorkOrder <- MCWorkOrder
  WorkOrderOwner <- MCWorkOrderOwner
  Forms <- MCForms
  PickupTTL = 0
  EnforcePickupOwner = FALSE
  MaxNow = 2
  MaxRequests = 4
SYMMETRY MCSymmetry
INVARIANTS
  BodyTypeOK
  ClientAgreesWithServer
  StoredAsSigned
  UsedIffCollected
  ReleasedAsSigned
  ReleasedHasCode
  CollectedBeforeExpiry
  AuditAccountsForTables
  StockNeverOverCounted
