------------------------------ MODULE Lifecycle ------------------------------
(***************************************************************************)
(* run of app.go: start-up with its early returns, the refresh ticker, the *)
(* goroutine that shuts the HTTP server down, and the deferred cleanup;    *)
(* with them the admission gate every request passes and the concurrency   *)
(* limit of localNativeGuard behind it.                                    *)
(*                                                                         *)
(* Cleanup closes what handlers and ticker use.  http.Server helps little: *)
(* ListenAndServe returns as soon as Shutdown begins, Shutdown gives up    *)
(* after five seconds, and a request already read may reach the handler    *)
(* after Shutdown, or Close, has returned.                                 *)
(***************************************************************************)
EXTENDS Naturals, FiniteSets

CONSTANTS
  Requests,   \* goroutines of net/http that serve a connection
  Slots       \* capacity of the channel in localNativeGuard (4)

ASSUME SlotsAssumption == Slots \in Nat \ {0}

VARIABLES
  main,       \* where run is
  ticker,     \* the refresh goroutine
  shut,       \* the shutdown goroutine
  cancelled,  \* ctx.Done()
  stopped,    \* http.Server.Shutdown or Close has been called
  closing,    \* handlerAdmissionGate.closing
  req,        \* where each request is
  conns,      \* connections net/http has accepted and not closed
  tokens,     \* elements in the slots channel
  auth,       \* the credential manager
  services,   \* the protocol services
  recorded,   \* a background cleanup error has been recorded
  reported    \* the error run returns includes it

resources == <<auth, services>>
errs == <<recorded, reported>>
http == <<conns, req, tokens>>
vars == <<main, ticker, shut, cancelled, stopped, closing, http, resources, errs>>

\* Between active.Add(1) and active.Done() of the gate.
Inside == {"guard", "light", "infer"}
Active == {r \in Requests : req[r] \in Inside}

----------------------------------------------------------------------------
(* run.                                                                    *)

\* The checks before anything exists.
Refuse ==
  /\ main = "start"
  /\ main' = "exited"
  /\ UNCHANGED <<ticker, shut, cancelled, stopped, closing, http, resources, errs>>

NewServices ==
  /\ main = "start"
  /\ services' = "open"
  /\ main' = "auth"
  /\ UNCHANGED <<ticker, shut, cancelled, stopped, closing, http, auth, errs>>

NewAuth ==
  /\ main = "auth"
  /\ auth' = "open"
  /\ main' = "load"
  /\ UNCHANGED <<ticker, shut, cancelled, stopped, closing, http, services, errs>>

\* load and the first ensureFresh, whose failure is only logged.
StartTicker ==
  /\ main = "load"
  /\ ticker' = "idle"
  /\ main' = "config"
  /\ UNCHANGED <<shut, cancelled, stopped, closing, http, resources, errs>>

StartShutdown ==
  /\ main = "config"
  /\ shut' = "idle"
  /\ main' = "listen"
  /\ UNCHANGED <<ticker, cancelled, stopped, closing, http, resources, errs>>

Listen ==
  /\ main = "listen"
  /\ ~stopped
  /\ main' = "serving"
  /\ UNCHANGED <<ticker, shut, cancelled, stopped, closing, http, resources, errs>>

\* ListenAndServe returns at once when Shutdown begins.
ServerClosed ==
  /\ main \in {"listen", "serving"}
  /\ stopped
  /\ main' = "cancel"
  /\ UNCHANGED <<ticker, shut, cancelled, stopped, closing, http, resources, errs>>

\* Every other return: services, manager or credentials fail, a login mode is
\* done, the configuration does not parse, the address is taken, Accept fails.
Return ==
  /\ main \in {"start", "auth", "load", "config", "listen", "serving"}
  /\ main' = "cancel"
  /\ UNCHANGED <<ticker, shut, cancelled, stopped, closing, http, resources, errs>>

\* The deferred function.
Cancel ==
  /\ main = "cancel"
  /\ cancelled' = TRUE
  /\ main' = "wait"
  /\ UNCHANGED <<ticker, shut, stopped, closing, http, resources, errs>>

Ended == {"none", "done"}

\* Mutant: the recorded errors are collected before wg.Wait.
CollectEarly ==
  /\ main = "wait"
  /\ reported' = recorded
  /\ main' = "join"
  /\ UNCHANGED <<ticker, shut, cancelled, stopped, closing, http, resources,
                 recorded>>

\* wg.Wait, then the errors the goroutines recorded.
Wait ==
  /\ main = "wait"
  /\ ticker \in Ended /\ shut \in Ended
  /\ reported' = recorded
  /\ main' = "join"
  /\ UNCHANGED <<ticker, shut, cancelled, stopped, closing, http, resources,
                 recorded>>

CloseAuth ==
  /\ main = "join"
  /\ auth' = IF auth = "open" THEN "closed" ELSE auth
  /\ main' = "services"
  /\ UNCHANGED <<ticker, shut, cancelled, stopped, closing, http, services, errs>>

CloseServices ==
  /\ main = "services"
  /\ services' = IF services = "open" THEN "closed" ELSE services
  /\ main' = "exited"
  /\ UNCHANGED <<ticker, shut, cancelled, stopped, closing, http, auth, errs>>

\* A signal, or the goroutine that POST /_qoder/shutdown starts.
Signal ==
  /\ main # "exited"
  /\ ~cancelled
  /\ cancelled' = TRUE
  /\ UNCHANGED <<main, ticker, shut, stopped, closing, http, resources, errs>>

----------------------------------------------------------------------------
(* The refresh goroutine.  select may take a tick after cancellation.      *)

Tick ==
  /\ ticker = "idle"
  /\ ticker' = "refresh"
  /\ UNCHANGED <<main, shut, cancelled, stopped, closing, http, resources, errs>>

TickDone ==
  /\ ticker = "refresh"
  /\ ticker' = "idle"
  /\ UNCHANGED <<main, shut, cancelled, stopped, closing, http, resources, errs>>

TickerEnds ==
  /\ ticker = "idle"
  /\ cancelled
  /\ ticker' = "done"
  /\ UNCHANGED <<main, shut, cancelled, stopped, closing, http, resources, errs>>

----------------------------------------------------------------------------
(* The shutdown goroutine.                                                 *)

\* Mutant: the gate stays open.
KeepAdmitting ==
  /\ shut = "idle"
  /\ cancelled
  /\ shut' = "close"
  /\ UNCHANGED <<main, ticker, cancelled, stopped, closing, http, resources, errs>>

CloseAdmission ==
  /\ shut = "idle"
  /\ cancelled
  /\ closing' = TRUE
  /\ shut' = "close"
  /\ UNCHANGED <<main, ticker, cancelled, stopped, http, resources, errs>>

BeginShutdown ==
  /\ shut = "close"
  /\ stopped' = TRUE
  /\ shut' = "drain"
  /\ UNCHANGED <<main, ticker, cancelled, closing, http, resources, errs>>

\* Shutdown returns nil: no connection is active, and the idle ones are closed.
Drained ==
  /\ shut = "drain"
  /\ Active = {}
  /\ conns' = {}
  /\ shut' = "admitted"
  /\ UNCHANGED <<main, ticker, cancelled, stopped, closing, req, tokens,
                 resources, errs>>

\* The five seconds are over, or a listener did not close.
GiveUp ==
  /\ shut = "drain"
  /\ recorded' = TRUE
  /\ shut' = "force"
  /\ UNCHANGED <<main, ticker, cancelled, stopped, closing, http, resources,
                 reported>>

\* Mutant: connections are left to end by themselves.
LeaveOpen == UNCHANGED conns
CutAll == conns' = {}

\* closeServer; its error is recorded as well.
ForceClose ==
  /\ shut = "force"
  /\ CutAll
  /\ shut' = "admitted"
  /\ UNCHANGED <<main, ticker, cancelled, stopped, closing, req, tokens,
                 resources, errs>>

\* Mutant: the end of the HTTP server is taken for the end of its handlers.
TrustServer ==
  /\ shut = "admitted"
  /\ shut' = "done"
  /\ UNCHANGED <<main, ticker, cancelled, stopped, closing, http, resources, errs>>

\* admission.wait.
AdmissionWait ==
  /\ shut = "admitted"
  /\ Active = {}
  /\ shut' = "done"
  /\ UNCHANGED <<main, ticker, cancelled, stopped, closing, http, resources, errs>>

----------------------------------------------------------------------------
(* Requests.                                                               *)

Accept(r) ==
  /\ main = "serving"
  /\ ~stopped
  /\ r \notin conns /\ req[r] = "none"
  /\ conns' = conns \cup {r}
  /\ UNCHANGED <<main, ticker, shut, cancelled, stopped, closing, req, tokens,
                 resources, errs>>

\* A connection, also one kept alive after ListenAndServe has returned, delivers
\* a request.  net/http does not count it as active before the handler runs.
Read(r) ==
  /\ r \in conns
  /\ req[r] = "none"
  /\ req' = [req EXCEPT ![r] = "read"]
  /\ UNCHANGED <<main, ticker, shut, cancelled, stopped, closing, conns, tokens,
                 resources, errs>>

\* The client goes away; the context of its request is cancelled.
Disconnect(r) ==
  /\ r \in conns
  /\ conns' = conns \ {r}
  /\ UNCHANGED <<main, ticker, shut, cancelled, stopped, closing, req, tokens,
                 resources, errs>>

\* handlerAdmissionGate.wrap.
Enter(r) ==
  /\ req[r] = "read"
  /\ req' = [req EXCEPT ![r] = IF closing THEN "none" ELSE "guard"]
  /\ UNCHANGED <<main, ticker, shut, cancelled, stopped, closing, conns, tokens,
                 resources, errs>>

\* localNativeGuard rejects the request, or needs no slot for it.
Bypass(r) ==
  /\ req[r] = "guard"
  /\ \E to \in {"none", "light"} : req' = [req EXCEPT ![r] = to]
  /\ UNCHANGED <<main, ticker, shut, cancelled, stopped, closing, conns, tokens,
                 resources, errs>>

HasSlot == tokens < Slots

\* Never blocks: an inference request takes a slot or is answered 429.
TakeSlot(r) ==
  /\ req[r] = "guard"
  /\ IF HasSlot
       THEN tokens' = tokens + 1 /\ req' = [req EXCEPT ![r] = "infer"]
       ELSE UNCHANGED tokens /\ req' = [req EXCEPT ![r] = "none"]
  /\ UNCHANGED <<main, ticker, shut, cancelled, stopped, closing, conns,
                 resources, errs>>

\* Mutant: a handler whose connection is gone keeps its slot.
ReleaseUnlessCut(r) ==
  tokens' = IF req[r] = "infer" /\ r \in conns THEN tokens - 1 ELSE tokens
Release(r) == tokens' = IF req[r] = "infer" THEN tokens - 1 ELSE tokens

\* The handler returns or panics; both defers run.
Finish(r) ==
  /\ req[r] \in {"light", "infer"}
  /\ Release(r)
  /\ req' = [req EXCEPT ![r] = "none"]
  /\ UNCHANGED <<main, ticker, shut, cancelled, stopped, closing, conns,
                 resources, errs>>

----------------------------------------------------------------------------

Init ==
  /\ main = "start" /\ ticker = "none" /\ shut = "none"
  /\ cancelled = FALSE /\ stopped = FALSE /\ closing = FALSE
  /\ req = [r \in Requests |-> "none"] /\ conns = {} /\ tokens = 0
  /\ auth = "none" /\ services = "none"
  /\ recorded = FALSE /\ reported = FALSE

Run == \/ Refuse \/ NewServices \/ NewAuth \/ StartTicker \/ StartShutdown
       \/ Listen \/ ServerClosed \/ Return
       \/ Cancel \/ Wait \/ CloseAuth \/ CloseServices

\* Steps run takes without waiting for a connection or a signal.
Progress == \/ NewServices \/ NewAuth \/ StartTicker \/ StartShutdown
            \/ ServerClosed \/ Cancel \/ Wait \/ CloseAuth \/ CloseServices

TickerSteps == TickDone \/ TickerEnds
ShutdownSteps == \/ CloseAdmission \/ BeginShutdown \/ Drained \/ GiveUp
                 \/ ForceClose \/ AdmissionWait

Connection(r) == Accept(r) \/ Read(r) \/ Disconnect(r)
Handler(r) == Enter(r) \/ Bypass(r) \/ TakeSlot(r) \/ Finish(r)

Next ==
  \/ Run \/ Signal
  \/ Tick \/ TickerSteps
  \/ ShutdownSteps
  \/ \E r \in Requests : Connection(r) \/ Handler(r)

Spec == Init /\ [][Next]_vars

\* A handler is only sure to return once its connection is closed: nothing
\* bounds how long a client takes to send its body or to read the answer.
FinishCut(r) == r \notin conns /\ Finish(r)

Fairness ==
  /\ WF_vars(Progress) /\ WF_vars(ShutdownSteps)
  /\ WF_vars(TickDone) /\ SF_vars(TickerEnds)
  /\ \A r \in Requests : WF_vars(TakeSlot(r)) /\ WF_vars(FinishCut(r))

FairSpec == Spec /\ Fairness

----------------------------------------------------------------------------
(* Correctness.                                                            *)

TypeOK ==
  /\ main \in {"start", "auth", "load", "config", "listen", "serving",
               "cancel", "wait", "join", "services", "exited"}
  /\ ticker \in {"none", "idle", "refresh", "done"}
  /\ shut \in {"none", "idle", "close", "drain", "force", "admitted", "done"}
  /\ cancelled \in BOOLEAN /\ stopped \in BOOLEAN /\ closing \in BOOLEAN
  /\ req \in [Requests -> Inside \cup {"none", "read"}]
  /\ conns \subseteq Requests
  /\ tokens \in 0 .. Slots
  /\ auth \in {"none", "open", "closed"}
  /\ services \in {"none", "open", "closed"}
  /\ recorded \in BOOLEAN /\ reported \in BOOLEAN

\* Whoever may sign a request (a handler past the gate, the refreshing ticker)
\* finds the manager open, and the services outlive the manager.
NoUseAfterClose ==
  /\ Active # {} \/ ticker = "refresh" => auth = "open"
  /\ auth = "open" => services = "open"

\* Every way out of run releases what was created: the manager and the services
\* are closed, the goroutines are gone, and no handler is left.
NothingLeftBehind ==
  main = "exited" =>
    /\ auth # "open" /\ services # "open"
    /\ ticker \in Ended /\ shut \in Ended
    /\ Active = {}

\* The channel holds one element for each inference in progress: a handler that
\* ends, also by panic or with its connection, gives its slot back.
SlotsHeld == tokens = Cardinality({r \in Requests : req[r] = "infer"})

\* What the shutdown goroutine recorded is part of the error run returns.
CleanupErrorsReported == main = "exited" => reported = recorded

\* run returns after every signal or request to stop, with inferences going on
\* and clients that never finish.
ShutdownEnds == cancelled ~> main = "exited"

=============================================================================
