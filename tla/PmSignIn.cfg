SPECIFICATION FairSpec
CONSTANTS
  People = {"p", "q"}
  Tabs = {"t1", "t2", "t3"}
  Who <- MCWho
  Orgs = {1, 2}
  Belongs <- MCBelongs
  Slugs = {1, 2, 3, 4}
  Candidates <- MCCandidates
  Emails = {"e", "f"}
  Address <- MCAddress
  Changes = 1
INVARIANTS
  OneDeskEach
  StateActsOnce
PROPERTIES
  SignInKeepsRows
  WelcomeGetsIn
