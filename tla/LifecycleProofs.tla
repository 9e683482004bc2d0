--------------------------- MODULE LifecycleProofs ---------------------------
(***************************************************************************)
(* Theorems about Lifecycle, for any number of connections and slots.      *)
(* Phases relates the program counter of run to what exists; Gate relates  *)
(* the shutdown goroutine to the requests behind the admission gate.       *)
(***************************************************************************)
EXTENDS Lifecycle, FiniteSetTheorems, TLAPS

\* TypeOK without the bound on the slots channel.
Types ==
  /\ main \in {"start", "auth", "load", "config", "listen", "serving",
               "cancel", "wait", "join", "services", "exited"}
  /\ ticker \in {"none", "idle", "refresh", "done"}
  /\ shut \in {"none", "idle", "close", "drain", "force", "admitted", "done"}
  /\ cancelled \in BOOLEAN /\ stopped \in BOOLEAN /\ closing \in BOOLEAN
  /\ req \in [Requests -> Inside \cup {"none", "read"}]
  /\ auth \in {"none", "open", "closed"}
  /\ services \in {"none", "open", "closed"}

\* What exists at each point of run.  The two goroutines only exist with an
\* open manager, and run is past wg.Wait only when both have ended.
Phases ==
  /\ main \in {"start", "auth"} => auth = "none"
  /\ main \in {"auth", "load", "config", "listen", "serving"} => services = "open"
  /\ main = "start" => services = "none"
  /\ main \in {"load", "config", "listen", "serving"} => auth = "open"
  /\ main \in {"start", "auth", "load"} => ticker = "none"
  /\ main \in {"start", "auth", "load", "config"} => shut = "none"
  /\ main \in {"listen", "serving"} => shut # "none"
  /\ ticker # "none" \/ shut # "none" =>
       auth = "open" \/ main \in {"services", "exited"}
  /\ main \in {"join", "services", "exited"} => ticker \in Ended /\ shut \in Ended
  /\ main \in {"services", "exited"} => auth # "open"
  /\ main = "exited" => services # "open"
  /\ auth = "open" => services = "open"

\* The gate is closed before the HTTP server stops, and the shutdown goroutine
\* ends with nobody behind the gate: nobody enters afterwards.
Gate ==
  /\ shut \in {"close", "drain", "force", "admitted", "done"} => closing
  /\ shut = "done" => Active = {}
  /\ shut = "none" => conns = {} /\ \A r \in Requests : req[r] = "none"

Inv == Types /\ Phases /\ Gate

LEMMA TypesStep == ASSUME Types, [Next]_vars PROVE Types'
<1> USE DEF Types, Inside, http, resources, errs
<1>1. CASE Run
  BY <1>1 DEF Run, Refuse, NewServices, NewAuth, StartTicker, StartShutdown,
     Listen, ServerClosed, Return, Cancel, Wait, CloseAuth, CloseServices
<1>2. CASE Signal \/ Tick \/ TickerSteps
  BY <1>2 DEF Signal, Tick, TickerSteps, TickDone, TickerEnds
<1>3. CASE ShutdownSteps
  BY <1>3 DEF ShutdownSteps, CloseAdmission, BeginShutdown, Drained, GiveUp,
     ForceClose, AdmissionWait
<1>4. ASSUME NEW r \in Requests, Connection(r) \/ Handler(r) PROVE Types'
  BY <1>4 DEF Connection, Accept, Read, Disconnect, Handler, Enter, Bypass,
     TakeSlot, Finish
<1>5. CASE UNCHANGED vars
  BY <1>5 DEF vars
<1> QED BY <1>1, <1>2, <1>3, <1>4, <1>5 DEF Next

LEMMA PhasesStep == ASSUME Types, Phases, [Next]_vars PROVE Phases'
<1> USE DEF Types, Phases, Ended, http, resources, errs
<1>1. CASE Run
  BY <1>1 DEF Run, Refuse, NewServices, NewAuth, StartTicker, StartShutdown,
     Listen, ServerClosed, Return, Cancel, Wait, CloseAuth, CloseServices
<1>2. CASE Signal \/ Tick \/ TickerSteps
  BY <1>2 DEF Signal, Tick, TickerSteps, TickDone, TickerEnds
<1>3. CASE ShutdownSteps
  BY <1>3 DEF ShutdownSteps, CloseAdmission, BeginShutdown, Drained, GiveUp,
     ForceClose, AdmissionWait
<1>4. ASSUME NEW r \in Requests, Connection(r) \/ Handler(r) PROVE Phases'
  BY <1>4 DEF Connection, Accept, Read, Disconnect, Handler, Enter, Bypass,
     TakeSlot, Finish
<1>5. CASE UNCHANGED vars
  BY <1>5 DEF vars
<1> QED BY <1>1, <1>2, <1>3, <1>4, <1>5 DEF Next

LEMMA GateStep == ASSUME Types, Phases, Gate, [Next]_vars PROVE Gate'
<1> USE DEF Types, Phases, Gate, Active, Inside, http, resources, errs
<1>1. CASE Run
  BY <1>1 DEF Run, Refuse, NewServices, NewAuth, StartTicker, StartShutdown,
     Listen, ServerClosed, Return, Cancel, Wait, CloseAuth, CloseServices
<1>2. CASE Signal \/ Tick \/ TickerSteps
  BY <1>2 DEF Signal, Tick, TickerSteps, TickDone, TickerEnds
<1>3. CASE ShutdownSteps
  BY <1>3 DEF ShutdownSteps, CloseAdmission, BeginShutdown, Drained, GiveUp,
     ForceClose, AdmissionWait, CutAll
<1>4. ASSUME NEW r \in Requests, Connection(r) PROVE Gate'
  BY <1>4 DEF Connection, Accept, Read, Disconnect
<1>5. ASSUME NEW r \in Requests, Handler(r) PROVE Gate'
  BY <1>5 DEF Handler, Enter, Bypass, TakeSlot, Finish
<1>6. CASE UNCHANGED vars
  BY <1>6 DEF vars
<1> QED BY <1>1, <1>2, <1>3, <1>4, <1>5, <1>6 DEF Next

LEMMA AlwaysInv == Spec => []Inv
<1>1. Init => Inv
  BY DEF Init, Inv, Types, Phases, Gate, Active, Inside, Ended
<1>2. Inv /\ [Next]_vars => Inv'
  BY TypesStep, PhasesStep, GateStep DEF Inv
<1> QED BY <1>1, <1>2, PTL DEF Spec

\* No handler and no tick of the refresh goroutine ever finds the credential
\* manager, or the services below it, closed.
THEOREM UsersFindManagerOpen == Spec => []NoUseAfterClose
<1>1. Inv => NoUseAfterClose
  BY DEF Inv, Types, Phases, Gate, NoUseAfterClose, Active, Inside, Ended
<1> QED BY <1>1, AlwaysInv, PTL

\* Whichever way run returns, all it created has been closed and has ended.
THEOREM RunReleasesEverything == Spec => []NothingLeftBehind
<1>1. Inv => NothingLeftBehind
  BY DEF Inv, Types, Phases, Gate, NothingLeftBehind, Active, Inside, Ended
<1> QED BY <1>1, AlwaysInv, PTL

\* The requests that hold a slot.
Holders == {r \in Requests : req[r] = "infer"}

\* The slots channel, counted and bounded.
SlotsInv == /\ IsFiniteSet(Holders) /\ tokens = Cardinality(Holders)
            /\ tokens \in 0 .. Slots

LEMMA SlotsStep == ASSUME Types, SlotsInv, [Next]_vars PROVE SlotsInv'
<1> USE DEF SlotsInv, http, resources, errs
<1>1. CASE UNCHANGED <<req, tokens>>
  BY <1>1 DEF Holders
<1>2. CASE Run \/ Signal \/ Tick \/ TickerSteps
  BY <1>1, <1>2 DEF Run, Refuse, NewServices, NewAuth, StartTicker, StartShutdown,
     Listen, ServerClosed, Return, Cancel, Wait, CloseAuth, CloseServices,
     Signal, Tick, TickerSteps, TickDone, TickerEnds
<1>3. CASE ShutdownSteps
  BY <1>1, <1>3 DEF ShutdownSteps, CloseAdmission, BeginShutdown, Drained, GiveUp,
     ForceClose, AdmissionWait
<1>4. ASSUME NEW r \in Requests, Connection(r) \/ Enter(r) \/ Bypass(r)
      PROVE SlotsInv'
  <2>1. Holders' = Holders /\ tokens' = tokens
    BY <1>4 DEF Connection, Accept, Read, Disconnect, Enter, Bypass, Holders, Types
  <2> QED BY <2>1
<1>5. ASSUME NEW r \in Requests, TakeSlot(r) PROVE SlotsInv'
  <2> USE <1>5 DEF TakeSlot
  <2>1. CASE HasSlot
    <3>1. Holders' = Holders \cup {r} /\ r \notin Holders
      BY <2>1 DEF Holders, Types
    <3>2. IsFiniteSet(Holders') /\ Cardinality(Holders') = Cardinality(Holders) + 1
      BY <3>1, FS_AddElement
    <3> QED BY <2>1, <3>2, SlotsAssumption DEF HasSlot
  <2>2. CASE ~HasSlot
    <3>1. Holders' = Holders /\ tokens' = tokens
      BY <2>2 DEF Holders, Types
    <3> QED BY <3>1
  <2> QED BY <2>1, <2>2
<1>6. ASSUME NEW r \in Requests, Finish(r) PROVE SlotsInv'
  <2> USE <1>6 DEF Finish, Release
  <2>1. CASE req[r] = "infer"
    <3>1. Holders' = Holders \ {r} /\ r \in Holders
      BY <2>1 DEF Holders, Types
    <3>2. IsFiniteSet(Holders') /\ Cardinality(Holders') = Cardinality(Holders) - 1
      BY <3>1, FS_RemoveElement
    <3>3. Cardinality(Holders') \in Nat
      BY <3>2, FS_CardinalityType
    <3> QED BY <2>1, <3>2, <3>3, SlotsAssumption
  <2>2. CASE req[r] # "infer"
    <3>1. Holders' = Holders /\ tokens' = tokens
      BY <2>2 DEF Holders, Types
    <3> QED BY <3>1
  <2> QED BY <2>1, <2>2
<1>7. CASE UNCHANGED vars
  BY <1>1, <1>7 DEF vars
<1> QED BY <1>2, <1>3, <1>4, <1>5, <1>6, <1>7 DEF Next, Handler

\* Every slot taken belongs to an inference in progress.
THEOREM SlotsAreReturned == Spec => []SlotsHeld
<1>1. Init => SlotsInv
  <2> SUFFICES ASSUME Init PROVE SlotsInv
    OBVIOUS
  <2>1. Holders = {} /\ tokens = 0
    BY DEF Init, Holders
  <2> QED BY <2>1, FS_EmptySet, SlotsAssumption DEF SlotsInv
<1>2. Inv /\ SlotsInv /\ [Next]_vars => SlotsInv'
  BY SlotsStep DEF Inv
<1>3. SlotsInv => SlotsHeld
  BY DEF SlotsInv, SlotsHeld, Holders
<1> QED BY <1>1, <1>2, <1>3, AlwaysInv, PTL DEF Spec

----------------------------------------------------------------------------

\* Once run has waited for the shutdown goroutine nothing records an error any more.
Collected == main \in {"start", "join", "services", "exited"} => reported = recorded

LEMMA CollectedStep == ASSUME Types, Phases, Collected, [Next]_vars PROVE Collected'
<1> USE DEF Types, Phases, Collected, Ended, http, resources, errs
<1>1. CASE Run
  BY <1>1 DEF Run, Refuse, NewServices, NewAuth, StartTicker, StartShutdown,
     Listen, ServerClosed, Return, Cancel, Wait, CloseAuth, CloseServices
<1>2. CASE Signal \/ Tick \/ TickerSteps
  BY <1>2 DEF Signal, Tick, TickerSteps, TickDone, TickerEnds
<1>3. CASE ShutdownSteps
  BY <1>3 DEF ShutdownSteps, CloseAdmission, BeginShutdown, Drained, GiveUp,
     ForceClose, AdmissionWait
<1>4. ASSUME NEW r \in Requests, Connection(r) \/ Handler(r) PROVE Collected'
  BY <1>4 DEF Connection, Accept, Read, Disconnect, Handler, Enter, Bypass,
     TakeSlot, Finish
<1>5. CASE UNCHANGED vars
  BY <1>5 DEF vars
<1> QED BY <1>1, <1>2, <1>3, <1>4, <1>5 DEF Next

\* No error of the shutdown goroutine is missing from what run returns.
THEOREM ErrorsAreReported == Spec => []CleanupErrorsReported
<1>1. Init => Collected
  BY DEF Init, Collected
<1>2. Inv /\ Collected /\ [Next]_vars => Collected'
  BY CollectedStep DEF Inv
<1>3. Collected => CleanupErrorsReported
  BY DEF Collected, CleanupErrorsReported
<1> QED BY <1>1, <1>2, <1>3, AlwaysInv, PTL DEF Spec

=============================================================================
