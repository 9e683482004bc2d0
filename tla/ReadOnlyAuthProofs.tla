------------------------- MODULE ReadOnlyAuthProofs -------------------------
(***************************************************************************)
(* Theorems about ReadOnlyAuth, for any number of requests and of logins   *)
(* the CLI writes.  The inductive invariant has four layers, each          *)
(* preserved on top of the ones before it: TypeOK, Control (who owns a.mu  *)
(* and holds which context), Order (file, a.ui and context in the order of *)
(* the logins) and Contexts (which contexts are open).                     *)
(***************************************************************************)
EXTENDS ReadOnlyAuth, TLAPS

\* What each program point says about a.mu, the closed flag and the contexts
\* its goroutine holds.
Control ==
  /\ \A p \in Proc : pc[p] \in Owning => mu = p
  /\ pc[Main] \in {"idle", "closing", "drain", "closed"}
  /\ \A p \in Workers :
       pc[p] \in {"idle", "wait", "build", "swap", "retire", "ready", "using"}
  /\ closed <=> pc[Main] \in {"drain", "closed"}
  /\ protoCtx = NoCtx => closed
  /\ closed => protoCtx = NoCtx /\ \A p \in Workers : pc[p] \notin Owning
  /\ \A p \in Proc : next[p] # NoCtx <=> pc[p] = "swap"
  /\ \A p \in Proc : old[p] # NoCtx => pc[p] \in {"retire", "drain"}
  /\ \A p \in Proc : using[p] # NoCtx => pc[p] = "using" /\ using[p] = protoCtx

\* The file is never older than a.ui, nor a.ui than the context; a request that
\* has loaded finds its login, or a later one, in both.
Order ==
  /\ file # Broken => file = written
  /\ ui <= written
  /\ \A p \in Workers : since[p] <= written
  /\ protoCtx # NoCtx => protoCtx.v <= ui
  /\ \A p \in Workers :
       /\ pc[p] = "swap" => next[p].v = ui
       /\ pc[p] \in {"build", "swap"} => since[p] <= ui
       /\ pc[p] \in {"retire", "ready", "using"} /\ protoCtx # NoCtx =>
            since[p] <= protoCtx.v

\* The current context is open; the one in the hands of a load is another.
Contexts ==
  /\ NoContextLeak
  /\ protoCtx # NoCtx => protoCtx \in open
  /\ \A p \in Proc : next[p] # NoCtx => next[p] \in open /\ next[p] # protoCtx
  /\ \A p \in Proc : old[p] # NoCtx => old[p] # protoCtx

Inv == TypeOK /\ Control /\ Order /\ Contexts

\* A context is identified by its id.
LEMMA Built ==
  ASSUME TypeOK, NEW i \in CtxId
  PROVE  CtxFor(i) \in Ctx /\ CtxFor(i).id = i /\ CtxFor(i).v = ui
BY DEF TypeOK, CtxFor, Ctx

\* Each layer is preserved, action by action.
LEMMA TypeStep == ASSUME TypeOK, [Next]_vars PROVE TypeOK'
<1> USE DEF TypeOK, Proc, Owning, At, disk, ctxs
<1>1. CASE CliWrites \/ CliBreaks
  BY <1>1 DEF CliWrites, CliBreaks
<1>2. ASSUME NEW p \in Workers, NEW s \in BOOLEAN, Begin(p, s) PROVE TypeOK'
  BY <1>2 DEF Begin
<1>3. ASSUME NEW p \in Workers, LoadFails(p) \/ BuildFails(p) PROVE TypeOK'
  BY <1>3 DEF LoadFails, BuildFails
<1>4. ASSUME NEW p \in Workers, LoadReads(p) PROVE TypeOK'
  BY <1>4 DEF LoadReads, Unusable, Content
<1>5. ASSUME NEW p \in Workers, BuildContext(p) PROVE TypeOK'
  BY <1>5, Built DEF BuildContext
<1>6. ASSUME NEW p \in Workers, Swap(p) PROVE TypeOK'
  BY <1>6 DEF Swap
<1>7. ASSUME NEW p \in Workers, Retire(p) PROVE TypeOK'
  BY <1>7 DEF Retire, CloseOld
<1>8. ASSUME NEW p \in Workers, BeginPrepare(p) \/ EndPrepare(p) PROVE TypeOK'
  BY <1>8 DEF BeginPrepare, EndPrepare
<1>9. CASE Close \/ Closing \/ CloseContext
  BY <1>9, ZenonT(60) DEF Close, Closing, CloseContext, CloseOld
<1>10. CASE UNCHANGED vars
  BY <1>10 DEF vars
<1> QED BY <1>1, <1>2, <1>3, <1>4, <1>5, <1>6, <1>7, <1>8, <1>9, <1>10 DEF Next, Load

LEMMA ControlStep == ASSUME TypeOK, Control, [Next]_vars PROVE Control'
<1> USE Distinct DEF TypeOK, Control, Proc, Owning, At, disk, ctxs
<1>1. CASE CliWrites \/ CliBreaks
  BY <1>1 DEF CliWrites, CliBreaks
<1>2. ASSUME NEW p \in Workers, NEW s \in BOOLEAN, Begin(p, s) PROVE Control'
  BY <1>2 DEF Begin
<1>3. ASSUME NEW p \in Workers, LoadFails(p) \/ BuildFails(p) PROVE Control'
  BY <1>3 DEF LoadFails, BuildFails
<1>4. ASSUME NEW p \in Workers, LoadReads(p) PROVE Control'
  BY <1>4 DEF LoadReads
<1>5. ASSUME NEW p \in Workers, BuildContext(p) PROVE Control'
  BY <1>5, Built DEF BuildContext
<1>6. ASSUME NEW p \in Workers, Swap(p) PROVE Control'
  BY <1>6 DEF Swap, NoReaders, Readers
<1>7. ASSUME NEW p \in Workers, Retire(p) PROVE Control'
  BY <1>7 DEF Retire
<1>8. ASSUME NEW p \in Workers, BeginPrepare(p) \/ EndPrepare(p) PROVE Control'
  BY <1>8 DEF BeginPrepare, EndPrepare
<1>9. CASE Close \/ CloseContext
  BY <1>9 DEF Close, CloseContext
<1>10. CASE Closing
  BY <1>10 DEF Closing, NoReaders, Readers
<1>11. CASE UNCHANGED vars
  BY <1>11 DEF vars
<1> QED BY <1>1, <1>2, <1>3, <1>4, <1>5, <1>6, <1>7, <1>8, <1>9, <1>10, <1>11
        DEF Next, Load

LEMMA OrderStep == ASSUME TypeOK, Control, Order, [Next]_vars PROVE Order'
<1> USE Distinct DEF TypeOK, Order, Proc, At, disk, ctxs
<1>1. CASE CliWrites \/ CliBreaks
  BY <1>1 DEF CliWrites, CliBreaks
<1>2. ASSUME NEW p \in Workers, NEW s \in BOOLEAN, Begin(p, s) PROVE Order'
  BY <1>2 DEF Begin
<1>3. ASSUME NEW p \in Workers, LoadFails(p) \/ BuildFails(p) PROVE Order'
  BY <1>3 DEF LoadFails, BuildFails
<1>4. ASSUME NEW p \in Workers, LoadReads(p) PROVE Order'
  <2> USE <1>4 DEF LoadReads, Unusable, Content
  <2>1. ui' = written /\ ui <= ui' /\ ui' \in Nat
    OBVIOUS
  <2>2. \A q \in Workers : pc[q] \notin {"swap", "build"}
    BY DEF Control, Owning
  <2>3. protoCtx # NoCtx => protoCtx.v <= ui'
    BY <2>1 DEF Ctx
  <2>4. pc' = [pc EXCEPT ![p] = "build"]
    OBVIOUS
  <2> QED BY <2>1, <2>2, <2>3, <2>4
<1>5. ASSUME NEW p \in Workers, BuildContext(p) PROVE Order'
  BY <1>5, Built DEF BuildContext
<1>6. ASSUME NEW p \in Workers, Swap(p) PROVE Order'
  <2> USE <1>6 DEF Swap
  <2>1. protoCtx' # NoCtx /\ protoCtx'.v = ui /\ protoCtx' \in Ctx
    BY DEF Control
  <2>2. \A q \in Workers : pc[q] \in {"swap", "build"} => q = p
    BY DEF Control, Owning
  <2>3. protoCtx # NoCtx => protoCtx.v <= ui /\ protoCtx.v \in Nat
    BY DEF Ctx
  <2>4. \A q \in Workers : q # p => pc'[q] \notin {"swap", "build"}
    BY <2>2
  <2>5. ASSUME NEW q \in Workers, pc'[q] \in {"retire", "ready", "using"}
        PROVE  since[q] <= ui
    <3>1. CASE q = p
      BY <3>1
    <3>2. CASE q # p
      BY <2>3, <2>5, <3>2 DEF Control, Owning
    <3> QED BY <3>1, <3>2
  <2>6. pc'[p] = "retire"
    OBVIOUS
  <2> QED BY <2>1, <2>4, <2>5, <2>6
<1>7. ASSUME NEW p \in Workers, Retire(p) PROVE Order'
  BY <1>7 DEF Retire
<1>8. ASSUME NEW p \in Workers, BeginPrepare(p) \/ EndPrepare(p) PROVE Order'
  BY <1>8 DEF BeginPrepare, EndPrepare
<1>9. CASE Close \/ Closing \/ CloseContext
  BY <1>9 DEF Close, Closing, CloseContext, Control
<1>10. CASE UNCHANGED vars
  BY <1>10 DEF vars
<1> QED BY <1>1, <1>2, <1>3, <1>4, <1>5, <1>6, <1>7, <1>8, <1>9, <1>10 DEF Next, Load

LEMMA ContextsStep ==
  ASSUME TypeOK, Control, Contexts, [Next]_vars PROVE Contexts'
<1> USE Distinct DEF TypeOK, Control, Contexts, NoContextLeak, Proc, Owning, At,
        disk, ctxs
<1>1. CASE CliWrites \/ CliBreaks
  BY <1>1 DEF CliWrites, CliBreaks
<1>2. ASSUME NEW p \in Workers, NEW s \in BOOLEAN, Begin(p, s) PROVE Contexts'
  BY <1>2 DEF Begin
<1>3. ASSUME NEW p \in Workers, LoadFails(p) \/ LoadReads(p) \/ BuildFails(p)
      PROVE Contexts'
  BY <1>3 DEF LoadFails, LoadReads, BuildFails
<1>4. ASSUME NEW p \in Workers, BuildContext(p) PROVE Contexts'
  BY <1>4, Built DEF BuildContext
<1>5. ASSUME NEW p \in Workers, Swap(p) PROVE Contexts'
  BY <1>5 DEF Swap
<1>6. ASSUME NEW p \in Workers, Retire(p) PROVE Contexts'
  BY <1>6 DEF Retire, CloseOld
<1>7. ASSUME NEW p \in Workers, BeginPrepare(p) \/ EndPrepare(p) PROVE Contexts'
  BY <1>7 DEF BeginPrepare, EndPrepare
<1>8. CASE Close \/ Closing
  BY <1>8 DEF Close, Closing
<1>9. CASE CloseContext
  BY <1>9 DEF CloseContext, CloseOld
<1>10. CASE UNCHANGED vars
  BY <1>10 DEF vars
<1> QED BY <1>1, <1>2, <1>3, <1>4, <1>5, <1>6, <1>7, <1>8, <1>9, <1>10 DEF Next, Load

LEMMA AlwaysInv == Spec => []Inv
<1>1. Init => Inv
  <2> SUFFICES ASSUME Init PROVE Inv
    OBVIOUS
  <2> PICK i \in CtxId : protoCtx = [id |-> i, v |-> 1] /\ open = {protoCtx}
    BY DEF Init
  <2>1. protoCtx \in Ctx /\ protoCtx.v = 1 /\ protoCtx # NoCtx
    BY Distinct DEF Ctx
  <2>2. TypeOK
    <3>1. file \in Nat /\ written \in Nat /\ ui \in Nat
      BY DEF Init
    <3>2. closed = FALSE /\ signs = [p \in Proc |-> FALSE]
      BY Zenon DEF Init
    <3>3. signs \in [Proc -> BOOLEAN] /\ closed \in BOOLEAN
      BY <3>2
    <3>4. /\ next \in [Proc -> {NoCtx}] /\ old \in [Proc -> {NoCtx}]
          /\ using \in [Proc -> {NoCtx}] /\ since \in [Proc -> Nat]
          /\ pc \in [Proc -> {"idle"}] /\ mu = Nobody
      BY DEF Init
    <3> QED BY <2>1, <3>1, <3>3, <3>4 DEF TypeOK
  <2>3. Control
    BY <2>1, Distinct DEF Init, Control, Proc, Owning
  <2>4. Order
    BY <2>1 DEF Init, Order, Proc
  <2>5. Contexts
    BY <2>1 DEF Init, Contexts, NoContextLeak, Proc
  <2> QED BY <2>2, <2>3, <2>4, <2>5 DEF Inv
<1>2. Inv /\ [Next]_vars => Inv'
  BY TypeStep, ControlStep, OrderStep, ContextsStep DEF Inv
<1> QED BY <1>1, <1>2, PTL DEF Spec

\* TypeOK, with the requests' and the CLI's steps in any order.
THEOREM TypeCorrect == Spec => []TypeOK
<1>1. Inv => TypeOK
  BY DEF Inv
<1> QED BY <1>1, AlwaysInv, PTL

\* No request is signed with a login older than the one the CLI had completed
\* when it began, although another request may have built the context.
THEOREM RequestsSignFreshLogin == Spec => []SignsFreshLogin
<1>1. Inv => SignsFreshLogin
  BY DEF Inv, TypeOK, Control, Order, SignsFreshLogin, Readers, Proc, Ctx
<1> QED BY <1>1, AlwaysInv, PTL

\* PrepareInferRequest only ever runs on the current, open context.
THEOREM RequestsUseOpenContext == Spec => []UsedContextOpen
<1>1. Inv => UsedContextOpen
  BY DEF Inv, Control, Contexts, UsedContextOpen, Readers, Proc
<1> QED BY <1>1, AlwaysInv, PTL

\* No open context is lost sight of.
THEOREM ContextsAreClosed == Spec => []NoContextLeak
<1>1. Inv => NoContextLeak
  BY DEF Inv, Contexts
<1> QED BY <1>1, AlwaysInv, PTL

\* The current context never goes back to an earlier login.
THEOREM LoginsAdvance == Spec => ContextNeverRegresses
<1>1. Inv /\ [Next]_vars =>
        [protoCtx # NoCtx /\ protoCtx' # NoCtx => protoCtx'.v >= protoCtx.v]_vars
  <2> SUFFICES ASSUME Inv, [Next]_vars, protoCtx # NoCtx, protoCtx' # NoCtx
               PROVE  protoCtx'.v >= protoCtx.v
    OBVIOUS
  <2>1. protoCtx.v \in Nat
    BY DEF Inv, TypeOK, Ctx
  <2>2. ASSUME NEW p \in Workers, Swap(p) PROVE protoCtx'.v >= protoCtx.v
    BY <2>2 DEF Inv, Control, Order, TypeOK, Swap, Ctx, Proc
  <2>3. ASSUME UNCHANGED protoCtx PROVE protoCtx'.v >= protoCtx.v
    BY <2>1, <2>3
  <2>4. CASE Closing
    BY <2>4 DEF Closing
  <2> QED
    BY <2>2, <2>3, <2>4
    DEF Next, Load, vars, ctxs, CliWrites, CliBreaks, Begin, LoadFails,
        LoadReads, BuildFails, BuildContext, Retire, BeginPrepare, EndPrepare,
        Close, CloseContext
<1> QED BY <1>1, AlwaysInv, PTL DEF Spec, ContextNeverRegresses

=============================================================================
