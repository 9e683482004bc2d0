\* One request or ticker and one login, without symmetry: progress.
CONSTANTS
  Workers = {w1}
  Logins = {l1}
  Main = main
  CtxId = {c1, c2}
  NoUser = NoUser
  NoCtx = NoCtx
  Nobody = Nobody
  NoKey = NoKey
  MaxVersion = 2
SPECIFICATION FairSpec
PROPERTIES
  DirtyEventuallySaved
  NobodyBlocked
