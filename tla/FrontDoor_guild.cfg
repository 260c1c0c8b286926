SPECIFICATION MCSpec
CONSTANTS
  admin = admin
  mod = mod
  r1 = r1
  r2 = r2
  h1 = h1
  h2 = h2
  t1 = t1
  Requests <- MCRequests
  Users <- MCUsers
  Admins <- MCAdmins
  Roles <- MCRoles
  Events <- MCEvents
  Proposals <- MCProposals
  Tokens <- MCTokens
  WellNamed <- MCWellNamed
  UnusableLabels = {"secret"}
  UnusableModels = {"too_long"}
  LongNames = {"too_long"}
  Conversations = {c1, c2, c3}
  Runs = {x1, x2, x3, x4}
  MaxEntries = 2
  TTL = 1
  MaxRuns = 2
  MaxTime = 3
  MaxSaves = 5
  MaxEvents = 5
SYMMETRY MCSymmetry
INVARIANTS
  EffectsWerePermitted
  DispatchIsConsented
  TrailIsComplete
  ModalIsItsOwn
  ShutdownReleases
  RecentRunsAreFound
CHECK_DEADLOCK FALSE
