\* Two threads, one order, two tokens, three handled requests, two logins;
\* a session lives for one tick.
SPECIFICATION SiteSpec
CONSTANTS
  Worker = {w1, w2}
  OrderId = {o1}
  CodeId = {c1}
  CodeValue = {c1}
  Token = {t1, t2}
  avery = avery
  navarro = navarro
  wrench = wrench
  woAvery = woAvery
  None = None
  Account <- MCAccount
  Part <- MCPart
  RoleOf <- MCRoleOf
  Limit <- MCLimit
  SeedStock <- MCSeedStock
  WorkOrder <- MCWorkOrder
  WorkOrderOwner <- MCWorkOrderOwner
  Price <- MCPrice
  Restricted <- MCRestricted
  Quantities = {1, 2}
  PickupTTL = 1
  SessionTTL = 0
  EnforcePickupOwner = TRUE
  MaxNow = 1
  MaxRequests = 3
  MaxLogins = 2
SYMMETRY MCSymmetry
INVARIANTS
  SiteTypeOK
  OnlySignedInAct
  LoggedOutStaysOut
  FailedLoginsAudited
  OwnerSeesCode
PROPERTY ImplementsSecureApp
