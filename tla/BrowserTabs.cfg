SPECIFICATION FairSpec
CONSTANTS
  a = a
  b = b
  fa = fa
  ga = ga
  fb = fb
  Tabs = {a, b}
  Fetches = {fa, ga, fb}
  TabOf <- MCTabOf
  Loads = {fa, fb}
  FormTabs = {a}
  Users = {ann}
  SessionIds = {1}
  TokenIds = {1, 2, 3}
  AccessLife = 1
  Lifetime = 4
  Grace = 2
  Delay = 1
  Horizon = 3
  None = None
  Guest = Guest
  Refused = Refused
  Never = Never
INVARIANTS PromptPagesAreNoReplay CookiesArriveUnspent NoLoginIsThrownAway
PROPERTIES ImplementsLogins EveryFetchEnds
