\* More requests than threads and connections together, logins among them: light
\* loads and loads that only the timeout ends both occur.
SPECIFICATION FairPoolSpec
CONSTANTS
  Reader = {r1, r2, r3}
  Writer = {x1}
  Login = {l1, l2}
  NThreads = 2
  NConns = 2
INVARIANTS
  PoolTypeOK
  NoWedge
PROPERTY EveryRequestDone
