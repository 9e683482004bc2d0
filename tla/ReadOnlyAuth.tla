---------------------------- MODULE ReadOnlyAuth ----------------------------
(***************************************************************************)
(* auth.go with readOnly set, the only mode main() permits: the credential *)
(* file belongs to the official CLI, ensureFresh and forceRefresh are      *)
(* load, and nothing is ever refreshed, rotated or saved.  Every request   *)
(* reads the file again, rebuilds the protocol context from it and is then *)
(* signed with whatever context is current.                                *)
(*                                                                         *)
(* A version number stands for the content of one complete login the CLI   *)
(* wrote.  Locks are modelled as in AuthManager: mu owns a.mu, "swap" and  *)
(* "closing" are calls of ctxMu.Lock(), "using" holds ctxMu for reading.   *)
(***************************************************************************)
EXTENDS Naturals

CONSTANTS
  Workers,    \* goroutines of inference requests and of the refresh ticker
  Main,       \* the goroutine of run
  CtxId,      \* identities of protocol contexts
  NoCtx,      \* the nil protocolContext
  Nobody,     \* no owner of a.mu
  Broken,     \* a file that does not read, decrypt or parse
  MaxVersion  \* bound: how many logins the CLI writes

Proc == Workers \cup {Main}
Ctx  == [id : CtxId, v : Nat]

ASSUME Distinct == /\ Main \notin Workers
                   /\ Nobody \notin Proc
                   /\ NoCtx \notin Ctx
                   /\ Broken \notin Nat

ASSUME Bound == MaxVersion \in Nat

VARIABLES
  file,      \* content of the user file
  written,   \* history: the newest complete login the CLI has written
  ui,        \* version held in a.ui
  protoCtx,  \* a.protoCtx
  closed,    \* a.closed
  open,      \* contexts created and not yet closed
  mu,        \* owner of a.mu
  pc,        \* where each goroutine is
  signs,     \* the goroutine goes on to prepareWithCurrentContext
  next,      \* the context it built and has not published
  old,       \* the context it replaced and has not closed
  using,     \* the context whose PrepareInferRequest it runs
  since      \* history: value of written when the request began

disk == <<file, written>>
ctxs == <<protoCtx, closed, open>>
vars == <<disk, ui, ctxs, mu, pc, signs, next, old, using, since>>

At(p, l) == pc' = [pc EXCEPT ![p] = l]

Owning  == {"build", "swap", "retire", "closing"}
Locking == {"swap", "closing"}

\* ctxMu.Lock() returns once the readers are gone.
Readers == {p \in Workers : using[p] # NoCtx}

\* Mutant: the context is replaced under its readers.
WithoutWaiting == TRUE
NoReaders == Readers = {}

----------------------------------------------------------------------------
(* The official CLI.                                                       *)

CliWrites ==
  /\ written < MaxVersion
  /\ written' = written + 1
  /\ file' = written'
  /\ UNCHANGED <<ui, ctxs, mu, pc, signs, next, old, using, since>>

\* A write in progress, a logout, a foreign content.
CliBreaks ==
  /\ file' = Broken
  /\ UNCHANGED <<written, ui, ctxs, mu, pc, signs, next, old, using, since>>

----------------------------------------------------------------------------
(* PrepareInferRequest (s), or ensureFresh of the ticker and forceRefresh  *)
(* after a 401 (~s).                                                       *)

Begin(p, s) ==
  /\ pc[p] = "idle"
  /\ ~closed
  /\ since' = [since EXCEPT ![p] = written]
  /\ signs' = [signs EXCEPT ![p] = s]
  /\ At(p, "wait")
  /\ UNCHANGED <<disk, ui, ctxs, mu, next, old, using>>

Unusable == file = Broken

\* load: the manager is closed or the file is unusable.  Nothing changes, and
\* the caller gets the error.  Mutant: the request goes on with what is there.
FailOpen(p) ==
  /\ pc[p] = "wait"
  /\ mu = Nobody
  /\ closed \/ Unusable
  /\ At(p, IF signs[p] THEN "ready" ELSE "idle")
  /\ UNCHANGED <<disk, ui, ctxs, mu, signs, next, old, using, since>>

LoadFails(p) ==
  /\ pc[p] = "wait"
  /\ mu = Nobody
  /\ closed \/ Unusable
  /\ At(p, "idle")
  /\ UNCHANGED <<disk, ui, ctxs, mu, signs, next, old, using, since>>

\* load reads the file once it owns a.mu.  Mutant: before that.
ContentBefore(p) == since[p]
Content(p) == file

\* load up to the assignment of a.ui.
LoadReads(p) ==
  /\ pc[p] = "wait"
  /\ mu = Nobody
  /\ ~closed
  /\ ~Unusable
  /\ mu' = p
  /\ ui' = Content(p)
  /\ At(p, "build")
  /\ UNCHANGED <<disk, ctxs, signs, next, old, using, since>>

\* rebuildContextLocked fails: a.ui is new, the context stays the old one.
BuildFails(p) ==
  /\ pc[p] = "build"
  /\ mu' = Nobody
  /\ At(p, "idle")
  /\ UNCHANGED <<disk, ui, ctxs, signs, next, old, using, since>>

CtxFor(i) == [id |-> i, v |-> ui]

BuildContext(p) ==
  /\ pc[p] = "build"
  /\ \E i \in CtxId :
       /\ \A c \in open : c.id # i
       /\ next' = [next EXCEPT ![p] = CtxFor(i)]
       /\ open' = open \cup {CtxFor(i)}
  /\ At(p, "swap")
  /\ UNCHANGED <<disk, ui, protoCtx, closed, mu, signs, old, using, since>>

Swap(p) ==
  /\ pc[p] = "swap"
  /\ NoReaders
  /\ old' = [old EXCEPT ![p] = protoCtx]
  /\ protoCtx' = next[p]
  /\ next' = [next EXCEPT ![p] = NoCtx]
  /\ At(p, "retire")
  /\ UNCHANGED <<disk, ui, closed, open, mu, signs, using, since>>

\* Mutant: the replaced context is forgotten, not closed.
KeepOld(p) == UNCHANGED open
CloseOld(p) == open' = open \ {old[p]}

\* The replaced context is closed and a.mu released.
Retire(p) ==
  /\ pc[p] = "retire"
  /\ CloseOld(p)
  /\ old' = [old EXCEPT ![p] = NoCtx]
  /\ mu' = Nobody
  /\ At(p, IF signs[p] THEN "ready" ELSE "idle")
  /\ UNCHANGED <<disk, ui, protoCtx, closed, signs, next, using, since>>

\* prepareWithCurrentContext.
BeginPrepare(p) ==
  /\ pc[p] = "ready"
  /\ \A q \in Proc : pc[q] \notin Locking
  /\ IF closed \/ protoCtx = NoCtx
       THEN At(p, "idle") /\ UNCHANGED using
       ELSE At(p, "using") /\ using' = [using EXCEPT ![p] = protoCtx]
  /\ UNCHANGED <<disk, ui, ctxs, mu, signs, next, old, since>>

EndPrepare(p) ==
  /\ pc[p] = "using"
  /\ using' = [using EXCEPT ![p] = NoCtx]
  /\ At(p, "idle")
  /\ UNCHANGED <<disk, ui, ctxs, mu, signs, next, old, since>>

----------------------------------------------------------------------------
(* Close; there is never anything to persist.                              *)

Close ==
  /\ pc[Main] = "idle"
  /\ mu = Nobody
  /\ mu' = Main
  /\ At(Main, "closing")
  /\ UNCHANGED <<disk, ui, ctxs, signs, next, old, using, since>>

Closing ==
  /\ pc[Main] = "closing"
  /\ NoReaders
  /\ closed' = TRUE
  /\ old' = [old EXCEPT ![Main] = protoCtx]
  /\ protoCtx' = NoCtx
  /\ mu' = Nobody
  /\ At(Main, "drain")
  /\ UNCHANGED <<disk, ui, open, signs, next, using, since>>

CloseContext ==
  /\ pc[Main] = "drain"
  /\ CloseOld(Main)
  /\ old' = [old EXCEPT ![Main] = NoCtx]
  /\ At(Main, "closed")
  /\ UNCHANGED <<disk, ui, protoCtx, closed, mu, signs, next, using, since>>

----------------------------------------------------------------------------

\* run has loaded the first login; readExistingAuthFiles found the file.
Init ==
  \E i \in CtxId :
    /\ file = 1 /\ written = 1 /\ ui = 1
    /\ protoCtx = [id |-> i, v |-> 1]
    /\ open = {[id |-> i, v |-> 1]}
    /\ closed = FALSE
    /\ mu = Nobody
    /\ pc = [p \in Proc |-> "idle"]
    /\ signs = [p \in Proc |-> FALSE]
    /\ next = [p \in Proc |-> NoCtx]
    /\ old = [p \in Proc |-> NoCtx]
    /\ using = [p \in Proc |-> NoCtx]
    /\ since = [p \in Proc |-> 0]

Load(p) == LoadFails(p) \/ LoadReads(p) \/ BuildFails(p) \/ BuildContext(p)
           \/ Swap(p) \/ Retire(p)

Next ==
  \/ CliWrites \/ CliBreaks
  \/ \E p \in Workers, s \in BOOLEAN : Begin(p, s)
  \/ \E p \in Workers : Load(p) \/ BeginPrepare(p) \/ EndPrepare(p)
  \/ Close \/ Closing \/ CloseContext

Spec == Init /\ [][Next]_vars

----------------------------------------------------------------------------
(* Correctness.                                                            *)

TypeOK ==
  /\ file \in Nat \cup {Broken} /\ written \in Nat /\ ui \in Nat
  /\ protoCtx \in Ctx \cup {NoCtx} /\ closed \in BOOLEAN /\ open \subseteq Ctx
  /\ mu \in Proc \cup {Nobody}
  /\ pc \in [Proc -> Owning \cup
                     {"idle", "wait", "ready", "using", "drain", "closed"}]
  /\ signs \in [Proc -> BOOLEAN]
  /\ next \in [Proc -> Ctx \cup {NoCtx}]
  /\ old \in [Proc -> Ctx \cup {NoCtx}]
  /\ using \in [Proc -> Ctx \cup {NoCtx}]
  /\ since \in [Proc -> Nat]

\* A request is signed with a login at least as recent as the one the CLI had
\* completed when the request began, although the context it uses may have been
\* built by another request, and the context was rebuilt in between.
SignsFreshLogin == \A p \in Readers : using[p].v >= since[p]

\* The context in use is current and open; replacing and Close wait for it.
UsedContextOpen ==
  \A p \in Readers : using[p] = protoCtx /\ using[p] \in open

\* Contexts are built and dropped with every request: each open one is current
\* or in the hands of the load in progress.
NoContextLeak ==
  open \subseteq {protoCtx} \cup {next[p] : p \in Proc} \cup {old[p] : p \in Proc}

\* Requests never go back to the login of an earlier one.
ContextNeverRegresses ==
  [][protoCtx # NoCtx /\ protoCtx' # NoCtx => protoCtx'.v >= protoCtx.v]_vars

=============================================================================
