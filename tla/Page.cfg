\* Two people, an order each; after the first load six loads, forms or buttons if
\* users wait for the page to come to rest, three if somebody does not.
SPECIFICATION PageSpec
CONSTANTS
  None = None
  alice = alice
  bob = bob
  o1 = o1
  o2 = o2
  Person = {alice, bob}
  Order = {o1, o2}
  Call = {k1, k2}
  Owner <- OneOrderEach
  MaxLogins = 2
  MaxActs = 6
  MaxHasty = 3
INVARIANTS
  PageTypeOK
  OnePersonsCodes
  SettledShowsOwn
SYMMETRY CallSymmetry
