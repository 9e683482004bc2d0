\* Two requests or tickers while the CLI writes two more logins.
CONSTANTS
  Workers = {w1, w2}
  Main = main
  CtxId = {c1, c2, c3}
  NoCtx = NoCtx
  Nobody = Nobody
  Broken = Broken
  MaxVersion = 3
SPECIFICATION Spec
SYMMETRY Symmetry
CHECK_DEADLOCK FALSE
INVARIANTS
  SignsFreshLogin
  UsedContextOpen
  NoContextLeak
PROPERTIES
  ContextNeverRegresses
