SPECIFICATION FairSpec
CONSTANTS
  App = app
  Reconnectors = {r1, r2}
  Askers = {a1, a2}
  Servers = {1, 2, 3}
  None = None
INVARIANTS ConnectedMeansOpen NoServerIsLost
PROPERTY EveryRequestEnds
