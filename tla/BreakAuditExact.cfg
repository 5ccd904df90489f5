\* Two threads, two orders, four requests; a code lives for one tick.
SPECIFICATION Spec
CONSTANTS
  Worker = {w1, w2}
  OrderId = {o1, o2}
  CodeId = {c1, c2}
  CodeValue = {c1, c2}
  avery = avery
  brooks = brooks
  navarro = navarro
  wrench = wrench
  canister = canister
  woAvery = woAvery
  None = None
  Account <- MCAccount
  Part <- MCWrench
  RoleOf <- MCRoleOf
  Limit <- MCLimit
  SeedStock <- MCSeedStock
  WorkOrder <- MCWorkOrder
  WorkOrderOwner <- MCWorkOrderOwner
  Price <- MCPrice
  Restricted <- MCRestricted
  Quantities <- MCQuantities
  PickupTTL = 1
  EnforcePickupOwner = TRUE
  MaxNow = 2
  MaxRequests = 4
SYMMETRY MCSymmetry
INVARIANT EventsLoggedAndPersisted
