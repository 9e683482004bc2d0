\* Catalogues with every kind of name, windows and preferences at their limits, and
\* conversations with parallel calls, images and text in any order.
CONSTANTS
  None = None
  t1 = t1
  t2 = t2
  t3 = t3
  i1 = i1
  i2 = i2
  o1 = o1
  c1 = c1
  c2 = c2
  c3 = c3
  f1 = f1
  f2 = f2
  s1 = s1
  s2 = s2
  Items <- MCItems
  Images <- MCImages
  Inline <- MCInline
  Omitted = o1
  CallIds <- MCCallIds
  ToolNames <- MCToolNames
  Builtin <- MCBuiltin
  Scenarios <- MCScenarios
SPECIFICATION Spec
CHECK_DEADLOCK FALSE
INVARIANTS
  ListedIsServed
  NoFallback
  WindowChosen
  ConversationKept
  ResultsFollowCalls
