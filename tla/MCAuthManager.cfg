\* Three of two requests or tickers and two logins: two refreshes and a login, or a
\* refresh and two logins, whose enrichment may race the later one.
CONSTANTS
  Workers = {w1, w2}
  Logins = {l1, l2}
  Main = main
  CtxId = {c1, c2, c3}
  NoUser = NoUser
  NoCtx = NoCtx
  Nobody = Nobody
  NoKey = NoKey
  MaxVersion = 3
SPECIFICATION MCSpec
SYMMETRY Symmetry
INVARIANTS
  CleanMeansSaved
  RotationKept
  TokenUsable
  UsedContextOpen
  NoContextLeak
  OneSession
  ProfileOwn
PROPERTIES
  DiskNeverRegresses
  ClosedIsFinal
  KeepsCredentials
