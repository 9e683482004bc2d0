-------------------------- MODULE AuthManagerProofs --------------------------
(***************************************************************************)
(* Theorems about AuthManager, for any number of goroutines, contexts and  *)
(* answers of the service.  The inductive invariant is built in layers:    *)
(* TypeInv (types, the owner of a.mu, who holds a candidate), and on top   *)
(* of it one conjunct per property; ContextInv for the life of a protocol  *)
(* context, SessionInv for what belongs to a login session.                *)
(***************************************************************************)
EXTENDS AuthManager, TLAPS

\* TypeOK by parts: flags, shared data, locals of the goroutines, control.
Flags == /\ dirty \in BOOLEAN
         /\ holdoff \in BOOLEAN
         /\ closed \in BOOLEAN
         /\ lost \in BOOLEAN

Data == /\ disk \in User \cup {NoUser}
        /\ ver \in Nat
        /\ valid \subseteq Nat
        /\ ui \in User \cup {NoUser}
        /\ protoCtx \in Ctx \cup {NoCtx}
        /\ open \subseteq Ctx
        /\ received \in [rt : Nat, rx : Nat]

Locals == /\ cand \in [Proc -> User \cup {NoUser}]
          /\ next \in [Proc -> Ctx \cup {NoCtx}]
          /\ old \in [Proc -> Ctx \cup {NoCtx}]
          /\ using \in [Proc -> Ctx \cup {NoCtx}]

Control == /\ mu \in Proc \cup {Nobody}
           /\ pc \in [Proc -> Point]
           /\ op \in [Proc -> Op]
           /\ then \in [Proc -> Then]

\* Exactly the owner of a.mu is inside an operation.
MuOwner == \A p \in Proc : pc[p] \in Critical <=> mu = p

\* A process that is down has no goroutine inside the manager.
DownIdle == pc[Main] = "down" =>
              mu = Nobody /\ \A p \in Workers \cup Logins : pc[p] = "idle"

\* A login carries a candidate from the answer that issued it to its end; a
\* refresh carries one from the answer until it is adopted, and has a user.
CandidateHeld ==
  /\ \A l \in Logins : pc[l] # "idle" => cand[l] # NoUser
  /\ \A p \in Workers : pc[p] \in Refreshing => cand[p] # NoUser
  /\ \A p \in Workers : pc[p] \in {"post", "reply"} => ui # NoUser

\* The strengthening of TypeOK that every action preserves.
TypeInv == /\ Flags /\ Data /\ Locals /\ Control
           /\ MuOwner /\ DownIdle /\ CandidateHeld

\* The parts are the whole.
LEMMA TypeParts == TypeInv => TypeOK
BY Zenon DEF TypeInv, TypeOK, Flags, Data, Locals, Control

\* What the operations build from a user is a user, and from one with runtime
\* fields a context.
LEMMA Users ==
  ASSUME NEW u \in User
  PROVE  /\ WithFields(u) \in User /\ WithFields(u).key # NoKey
         /\ \A k \in Nat \cup {NoKey} : Keyed(u, k) \in User
         /\ \A f \in Nat : Enriched(u, f) \in User
         /\ \A r, x \in Nat : Rotated(u, r, x) \in User
         /\ \A t, r, x \in Nat : Refreshed(u, t, r, x) \in User
BY Sentinels DEF User, WithFields, Keyed, Enriched, Rotated, Refreshed

LEMMA Contexts ==
  ASSUME NEW u \in User, u.key # NoKey, NEW i \in CtxId
  PROVE  /\ CtxFor(u, i) \in Ctx
         /\ FreeId(i) => CtxFor(u, i) \notin open
BY DEF User, Ctx, CtxFor, FreeId

LEMMA Fields ==
  ASSUME NEW u \in User
  PROVE  /\ u.sess \in Nat /\ u.tok \in Nat /\ u.rt \in Nat /\ u.rx \in Nat
         /\ u.prof \in Nat /\ u.key \in Nat \cup {NoKey}
         /\ Pair(u) \in [rt : Nat, rx : Nat]
BY DEF User, Pair

\* What the actions that build users and contexts leave behind.
LEMMA RefreshAnswer ==
  ASSUME TypeInv, NEW p \in Workers, ServiceRefreshes(p)
  PROVE  /\ ver' \in Nat /\ valid' \subseteq Nat
         /\ \E c \in User : cand' = [cand EXCEPT ![p] = c]
<1>1. ui \in User /\ ver \in Nat /\ valid \subseteq Nat
  BY DEF TypeInv, Data, CandidateHeld, ServiceRefreshes
<1>2. PICK r \in {ui.rt, ver + 1}, x \in {ui.rx, ver + 1} :
        /\ valid' = (valid \ {ui.rt}) \cup {r}
        /\ cand' = [cand EXCEPT ![p] = Refreshed(ui, ver + 1, r, x)]
  BY DEF ServiceRefreshes
<1>3. r \in Nat /\ x \in Nat /\ ver + 1 \in Nat
  BY <1>1, Fields
<1>4. Refreshed(ui, ver + 1, r, x) \in User
  BY <1>1, <1>3, Users
<1> QED BY <1>1, <1>2, <1>3, <1>4 DEF ServiceRefreshes

LEMMA RefreshBuilt ==
  ASSUME TypeInv, NEW p \in Workers, BuildRefreshed(p)
  PROVE  \E c \in User, n \in Ctx \ open :
           /\ cand' = [cand EXCEPT ![p] = c]
           /\ next' = [next EXCEPT ![p] = n]
           /\ open' = open \cup {n}
           /\ received' = Pair(cand[p]) /\ Pair(c) = Pair(cand[p])
           /\ received' \in [rt : Nat, rx : Nat]
<1>1. cand[p] \in User
  BY DEF TypeInv, Locals, CandidateHeld, BuildRefreshed, Refreshing, Proc
<1>2. PICK k \in {cand[p].key, cand[p].prof}, i \in CtxId :
        /\ k # NoKey /\ FreeId(i)
        /\ cand' = [cand EXCEPT ![p] = Keyed(cand[p], k)]
        /\ next' = [next EXCEPT ![p] = CtxFor(Keyed(cand[p], k), i)]
        /\ open' = open \cup {CtxFor(Keyed(cand[p], k), i)}
  BY DEF BuildRefreshed
<1>3. k \in Nat \cup {NoKey}
  BY <1>1, Fields
<1>4. Keyed(cand[p], k) \in User
  BY <1>1, <1>3, Users
<1>5. Keyed(cand[p], k).key = k /\ Pair(Keyed(cand[p], k)) = Pair(cand[p])
  BY <1>1 DEF User, Keyed, Pair
<1>6. CtxFor(Keyed(cand[p], k), i) \in Ctx \ open
  BY <1>2, <1>4, <1>5, Contexts
<1>7. received' = Pair(cand[p]) /\ received' \in [rt : Nat, rx : Nat]
  BY <1>1, Fields DEF BuildRefreshed
<1> QED BY <1>2, <1>4, <1>5, <1>6, <1>7

LEMMA RefreshDropped ==
  ASSUME TypeInv, NEW p \in Workers, BuildFails(p)
  PROVE  /\ ui' \in User /\ Pair(ui') = Pair(cand[p])
         /\ received' = Pair(cand[p])
         /\ received' \in [rt : Nat, rx : Nat]
<1>1. cand[p] \in User /\ ui \in User
  BY DEF TypeInv, Data, Locals, CandidateHeld, BuildFails, Refreshing, Proc
<1>2. received' = Pair(cand[p]) /\ received' \in [rt : Nat, rx : Nat]
  BY <1>1, Fields DEF BuildFails
<1>3. CASE Pair(cand[p]) = Pair(ui)
  BY <1>1, <1>2, <1>3 DEF BuildFails, KeepRotation, cred
<1>4. CASE Pair(cand[p]) # Pair(ui)
  <2>1. ui' = Rotated(ui, cand[p].rt, cand[p].rx)
    BY <1>4 DEF BuildFails, KeepRotation
  <2>2. ui' \in User
    BY <1>1, <2>1, Users, Fields
  <2>3. Pair(ui') = Pair(cand[p])
    BY <1>1, <2>1 DEF User, Rotated, Pair
  <2> QED BY <1>2, <2>2, <2>3
<1> QED BY <1>3, <1>4

LEMMA LoginIssued ==
  ASSUME TypeInv, NEW l \in Logins, Issued(l)
  PROVE  /\ ver' \in Nat /\ valid' \subseteq Nat
         /\ \E c \in User : cand' = [cand EXCEPT ![l] = c]
<1>1. ver \in Nat /\ valid \subseteq Nat
  BY DEF TypeInv, Data
<1>2. PICK r \in {0, ver + 1}, x \in {0, ver + 1}, f \in {Bare, ver + 1} :
        /\ valid' = valid \cup ({r} \ {0})
        /\ cand' = [cand EXCEPT ![l] =
                      [sess |-> ver + 1, tok |-> ver + 1, rt |-> r, rx |-> x,
                       prof |-> f, key |-> NoKey]]
  BY DEF Issued
<1>3. r \in Nat /\ x \in Nat /\ f \in Nat
  BY <1>1 DEF Bare
<1>4. [sess |-> ver + 1, tok |-> ver + 1, rt |-> r, rx |-> x,
       prof |-> f, key |-> NoKey] \in User
  BY <1>1, <1>3 DEF User
<1>5. ver' \in Nat /\ valid' \subseteq Nat
  BY <1>1, <1>2, <1>3 DEF Issued
<1> QED BY <1>2, <1>4, <1>5

LEMMA LoginBuilt ==
  ASSUME TypeInv, NEW l \in Logins, BuildLogin(l)
  PROVE  \E c \in User, n \in Ctx \ open :
           /\ cand' = [cand EXCEPT ![l] = c]
           /\ next' = [next EXCEPT ![l] = n]
           /\ open' = open \cup {n}
<1>1. cand[l] \in User
  BY DEF TypeInv, Locals, CandidateHeld, BuildLogin, Proc
<1>2. PICK i \in CtxId :
        /\ FreeId(i)
        /\ cand' = [cand EXCEPT ![l] = WithFields(cand[l])]
        /\ next' = [next EXCEPT ![l] = CtxFor(WithFields(cand[l]), i)]
        /\ open' = open \cup {CtxFor(WithFields(cand[l]), i)}
  BY DEF BuildLogin
<1>3. WithFields(cand[l]) \in User /\ WithFields(cand[l]).key # NoKey
  BY <1>1, Users
<1>4. CtxFor(WithFields(cand[l]), i) \in Ctx \ open
  BY <1>2, <1>3, Contexts
<1> QED BY <1>2, <1>3, <1>4

LEMMA ProfileApplied ==
  ASSUME TypeInv, NEW l \in Logins, ApplyProfile(l)
  PROVE  /\ ui \in User /\ ui' \in User /\ Pair(ui') = Pair(ui)
         /\ \/ UNCHANGED <<next, open>>
            \/ \E n \in Ctx \ open : /\ next' = [next EXCEPT ![l] = n]
                                     /\ open' = open \cup {n}
<1>1. ui \in User /\ cand[l] \in User
  BY DEF TypeInv, Data, Locals, CandidateHeld, ApplyProfile, Superseded, Proc
<1> DEFINE u == Enriched(ui, cand[l].sess)
<1>2. u \in User
  BY <1>1, Users, Fields
<1>3. WithFields(u) \in User
  BY <1>2, Users
<1>4. ui' = u \/ ui' = WithFields(u)
  BY DEF ApplyProfile
<1>5. Pair(u) = Pair(ui) /\ Pair(WithFields(u)) = Pair(ui)
  BY <1>1 DEF User, Enriched, WithFields, Keyed, Pair
<1>6. ASSUME NEW i \in CtxId, ui'.key # NoKey, FreeId(i)
      PROVE  CtxFor(ui', i) \in Ctx \ open
  BY <1>2, <1>3, <1>4, <1>6, Contexts
<1>7. \/ UNCHANGED <<next, open>>
      \/ \E n \in Ctx \ open : /\ next' = [next EXCEPT ![l] = n]
                               /\ open' = open \cup {n}
  BY <1>6 DEF ApplyProfile
<1> QED BY <1>1, <1>2, <1>3, <1>4, <1>5, <1>7

LEMMA FileLoaded ==
  ASSUME TypeInv, Load
  PROVE  /\ disk \in User /\ ui' \in User /\ Pair(ui') = received'
         /\ received' \in [rt : Nat, rx : Nat]
         /\ \/ UNCHANGED <<next, open>>
            \/ \E n \in Ctx \ open : /\ next' = [next EXCEPT ![Main] = n]
                                     /\ open' = open \cup {n}
<1>1. disk \in User
  BY DEF TypeInv, Data, Load
<1>2. WithFields(disk) \in User
  BY <1>1, Users
<1>3. ui' = disk \/ ui' = WithFields(disk)
  BY DEF Load
<1>4. received' = Pair(disk) /\ received' \in [rt : Nat, rx : Nat]
  BY <1>1, Fields DEF Load
<1>5. Pair(WithFields(disk)) = Pair(disk)
  BY <1>1 DEF User, WithFields, Keyed, Pair
<1>6. ASSUME NEW i \in CtxId, ui'.key # NoKey, FreeId(i)
      PROVE  CtxFor(ui', i) \in Ctx \ open
  BY <1>1, <1>2, <1>3, <1>6, Contexts
<1>7. \/ UNCHANGED <<next, open>>
      \/ \E n \in Ctx \ open : /\ next' = [next EXCEPT ![Main] = n]
                               /\ open' = open \cup {n}
  BY <1>6 DEF Load
<1> QED BY <1>1, <1>2, <1>3, <1>4, <1>5, <1>7

\* The initial states satisfy the invariant.
LEMMA InitTypeInv == Init => TypeInv
<1> SUFFICES ASSUME Init PROVE TypeInv
  OBVIOUS
<1> USE Roles, Sentinels DEF Init, Proc
<1>1. Flags
  BY DEF Flags
<1>2. Data
  BY DEF Data, InitialUsers, User
<1>3. Locals
  BY DEF Locals
<1>4. Control
  BY DEF Control, Point, Op, Then
<1>5. MuOwner /\ DownIdle /\ CandidateHeld
  BY DEF MuOwner, DownIdle, CandidateHeld, Critical, Refreshing
<1> QED BY <1>1, <1>2, <1>3, <1>4, <1>5 DEF TypeInv

\* Every step keeps the flags Boolean.
LEMMA FlagsStep == ASSUME TypeInv, [Next]_vars PROVE Flags'
<1> USE Roles, Sentinels DEF TypeInv, Flags, MarkDirty, ClearDirty, service, cred, ctxs, local,
            history, BestEffort
<1>1. ASSUME NEW p \in Proc, Save(p) PROVE Flags'
  BY <1>1 DEF Save, StageOk, SaveFails, PublishOk
<1>2. ASSUME NEW p \in Proc, Swap(p) \/ Retire(p) PROVE Flags'
  BY <1>2 DEF Swap, Retire
<1>3. ASSUME NEW p \in Workers, Work(p) PROVE Flags'
  BY <1>3 DEF Work, CheckFresh, CheckRefuses, SendRefresh, ServiceRefreshes,
         RefreshRejected, ReplyLost, BuildRefreshed, BuildFails, KeepRotation,
         Adopt, Leave, BeginPrepare, EndPrepare
<1>4. ASSUME NEW p \in Workers, NEW o \in {"prepare", "tick", "force"},
            Enter(p, o)
     PROVE Flags'
  BY <1>4 DEF Enter, EntryPoint, Acquire
<1>5. ASSUME NEW l \in Logins, Issued(l) PROVE Flags'
  BY <1>5, LoginIssued DEF Issued
<1>6. ASSUME NEW l \in Logins, Login(l) PROVE Flags'
  BY <1>6 DEF Login, BuildLogin, LoginFails, StageLogin, RejectLogin, CommitLogin,
         LeaveLogin, RequestProfile, AbandonProfile, ApplyProfile,
         Acquire, CloseRejected, PublishLogin, Superseded
<1>7. CASE StartLogin \/ Load \/ Loaded \/ Close \/ Closing \/ CloseContext
  BY <1>7 DEF StartLogin, Load, Loaded, Close, Closing, CloseContext,
         Acquire
<1>8. CASE Stop \/ HoldoffElapses \/ UNCHANGED vars
  BY <1>8 DEF Stop, HoldoffElapses, vars
<1> QED BY <1>1, <1>2, <1>3, <1>4, <1>5, <1>6, <1>7, <1>8 DEF Next

\* Every step keeps the control state in its range.
LEMMA ControlStep == ASSUME TypeInv, [Next]_vars PROVE Control'
<1> USE Roles, Sentinels DEF TypeInv, Control, Goto, At, Proc, Point, Critical, Then, Op
<1>1. ASSUME NEW p \in Proc, Save(p) PROVE Control'
  BY <1>1 DEF Save, StageOk, SaveFails, PublishOk
<1>2. ASSUME NEW p \in Proc, Swap(p) \/ Retire(p) PROVE Control'
  BY <1>2 DEF Swap, Retire
<1>3. ASSUME NEW p \in Workers, Work(p) PROVE Control'
  BY <1>3 DEF Work, CheckFresh, CheckRefuses, SendRefresh, ServiceRefreshes,
         RefreshRejected, ReplyLost, BuildRefreshed, BuildFails, KeepRotation,
         Adopt, Leave, BeginPrepare, EndPrepare
<1>4. ASSUME NEW p \in Workers, NEW o \in {"prepare", "tick", "force"},
            Enter(p, o)
     PROVE Control'
  BY <1>4 DEF Enter, EntryPoint, Acquire
<1>5. ASSUME NEW l \in Logins, Issued(l) PROVE Control'
  BY <1>5, LoginIssued DEF Issued
<1>6. ASSUME NEW l \in Logins, Login(l) PROVE Control'
  BY <1>6 DEF Login, BuildLogin, LoginFails, StageLogin, RejectLogin, CommitLogin,
         LeaveLogin, RequestProfile, AbandonProfile, ApplyProfile,
         Acquire, CloseRejected, PublishLogin, Superseded
<1>7. CASE StartLogin \/ Load \/ Loaded \/ Close \/ Closing \/ CloseContext
  BY <1>7 DEF StartLogin, Load, Loaded, Close, Closing, CloseContext,
         Acquire
<1>8. CASE Stop \/ HoldoffElapses \/ UNCHANGED vars
  BY <1>8 DEF Stop, HoldoffElapses, vars
<1> QED BY <1>1, <1>2, <1>3, <1>4, <1>5, <1>6, <1>7, <1>8 DEF Next

\* Every step keeps a.mu owned by the goroutine inside.
LEMMA MuOwnerStep == ASSUME TypeInv, [Next]_vars PROVE MuOwner'
<1> USE Roles, Sentinels DEF TypeInv, Control, MuOwner, DownIdle, Goto, At, Proc, Critical, Then
<1>1. ASSUME NEW p \in Proc, Save(p) PROVE MuOwner'
  BY <1>1 DEF Save, StageOk, SaveFails, PublishOk
<1>2. ASSUME NEW p \in Proc, Swap(p) \/ Retire(p) PROVE MuOwner'
  BY <1>2 DEF Swap, Retire
<1>3. ASSUME NEW p \in Workers, Work(p) PROVE MuOwner'
  BY <1>3 DEF Work, CheckFresh, CheckRefuses, SendRefresh, ServiceRefreshes,
         RefreshRejected, ReplyLost, BuildRefreshed, BuildFails, KeepRotation,
         Adopt, Leave, BeginPrepare, EndPrepare
<1>4. ASSUME NEW p \in Workers, NEW o \in {"prepare", "tick", "force"},
            Enter(p, o)
     PROVE MuOwner'
  BY <1>4 DEF Enter, EntryPoint, Acquire
<1>5. ASSUME NEW l \in Logins, Issued(l) PROVE MuOwner'
  BY <1>5, LoginIssued DEF Issued
<1>6. ASSUME NEW l \in Logins, Login(l) PROVE MuOwner'
  BY <1>6 DEF Login, BuildLogin, LoginFails, StageLogin, RejectLogin, CommitLogin,
         LeaveLogin, RequestProfile, AbandonProfile, ApplyProfile,
         Acquire, CloseRejected, PublishLogin, Superseded
<1>7. CASE StartLogin \/ Load \/ Loaded \/ Close \/ Closing \/ CloseContext
  BY <1>7 DEF StartLogin, Load, Loaded, Close, Closing, CloseContext,
         Acquire
<1>8. CASE Stop \/ HoldoffElapses \/ UNCHANGED vars
  BY <1>8 DEF Stop, HoldoffElapses, vars
<1> QED BY <1>1, <1>2, <1>3, <1>4, <1>5, <1>6, <1>7, <1>8 DEF Next

\* Every step keeps a process that is down empty.
LEMMA DownIdleStep == ASSUME TypeInv, [Next]_vars PROVE DownIdle'
<1> USE Roles, Sentinels DEF TypeInv, Control, MuOwner, DownIdle, Goto, At, Proc, Critical, Then
<1>1. ASSUME NEW p \in Proc, Save(p) PROVE DownIdle'
  BY <1>1 DEF Save, StageOk, SaveFails, PublishOk
<1>2. ASSUME NEW p \in Proc, Swap(p) \/ Retire(p) PROVE DownIdle'
  BY <1>2 DEF Swap, Retire
<1>3. ASSUME NEW p \in Workers, Work(p) PROVE DownIdle'
  BY <1>3 DEF Work, CheckFresh, CheckRefuses, SendRefresh, ServiceRefreshes,
         RefreshRejected, ReplyLost, BuildRefreshed, BuildFails, KeepRotation,
         Adopt, Leave, BeginPrepare, EndPrepare
<1>4. ASSUME NEW p \in Workers, NEW o \in {"prepare", "tick", "force"},
            Enter(p, o)
     PROVE DownIdle'
  BY <1>4 DEF Enter, EntryPoint, Acquire
<1>5. ASSUME NEW l \in Logins, Issued(l) PROVE DownIdle'
  BY <1>5, LoginIssued DEF Issued
<1>6. ASSUME NEW l \in Logins, Login(l) PROVE DownIdle'
  BY <1>6 DEF Login, BuildLogin, LoginFails, StageLogin, RejectLogin, CommitLogin,
         LeaveLogin, RequestProfile, AbandonProfile, ApplyProfile,
         Acquire, CloseRejected, PublishLogin, Superseded
<1>7. CASE StartLogin \/ Load \/ Loaded \/ Close \/ Closing \/ CloseContext
  BY <1>7 DEF StartLogin, Load, Loaded, Close, Closing, CloseContext,
         Acquire
<1>8. CASE Stop \/ HoldoffElapses \/ UNCHANGED vars
  BY <1>8 DEF Stop, HoldoffElapses, vars
<1> QED BY <1>1, <1>2, <1>3, <1>4, <1>5, <1>6, <1>7, <1>8 DEF Next

\* Every step keeps the shared data in its range.
LEMMA DataStep == ASSUME TypeInv, [Next]_vars PROVE Data'
<1> USE Roles, Sentinels DEF TypeInv, Data, Locals, Control, Proc, service, cred, ctxs, local, history
<1>1. ASSUME NEW p \in Proc, Save(p) PROVE Data'
  BY <1>1 DEF Save, StageOk, SaveFails, PublishOk
<1>2. ASSUME NEW p \in Proc, Swap(p) \/ Retire(p) PROVE Data'
  BY <1>2 DEF Swap, Retire
<1>3. ASSUME NEW p \in Workers, Work(p) PROVE Data'
  <2>1. CASE ServiceRefreshes(p)
    <3>1. /\ ver' \in Nat /\ valid' \subseteq Nat
          /\ \E c \in User : cand' = [cand EXCEPT ![p] = c]
      BY <2>1, RefreshAnswer
    <3> QED BY <2>1, <3>1 DEF ServiceRefreshes
  <2>2. CASE BuildRefreshed(p)
    <3>1. PICK c \in User, n \in Ctx :
            /\ cand' = [cand EXCEPT ![p] = c]
            /\ next' = [next EXCEPT ![p] = n]
            /\ open' = open \cup {n}
            /\ received' \in [rt : Nat, rx : Nat]
      BY <2>2, RefreshBuilt
    <3> QED BY <2>2, <3>1 DEF BuildRefreshed
  <2>3. CASE BuildFails(p)
    <3>1. ui' \in User /\ received' \in [rt : Nat, rx : Nat]
      BY <2>3, RefreshDropped
    <3> QED BY <2>3, <3>1 DEF BuildFails
  <2>4. CASE Adopt(p)
    BY <2>4 DEF Adopt
  <2>5. CASE \/ CheckFresh(p) \/ CheckRefuses(p) \/ SendRefresh(p)
             \/ RefreshRejected(p) \/ ReplyLost(p) \/ Leave(p)
             \/ BeginPrepare(p) \/ EndPrepare(p)
    BY <2>5 DEF CheckFresh, CheckRefuses, SendRefresh, RefreshRejected,
             ReplyLost, Leave, BeginPrepare, EndPrepare
  <2> QED BY <1>3, <2>1, <2>2, <2>3, <2>4, <2>5 DEF Work
<1>4. ASSUME NEW p \in Workers, NEW o \in {"prepare", "tick", "force"},
            Enter(p, o)
     PROVE Data'
  BY <1>4 DEF Enter, EntryPoint, Acquire
<1>5. ASSUME NEW l \in Logins, Issued(l) PROVE Data'
  <2>1. /\ ver' \in Nat /\ valid' \subseteq Nat
        /\ \E c \in User : cand' = [cand EXCEPT ![l] = c]
    BY <1>5, LoginIssued
  <2> QED BY <1>5, <2>1 DEF Issued
<1>6. ASSUME NEW l \in Logins, Login(l) PROVE Data'
  <2>1. CASE BuildLogin(l)
    <3>1. PICK c \in User, n \in Ctx : /\ cand' = [cand EXCEPT ![l] = c]
                                      /\ next' = [next EXCEPT ![l] = n]
                                      /\ open' = open \cup {n}
      BY <2>1, LoginBuilt
    <3> QED BY <2>1, <3>1 DEF BuildLogin
  <2>2. CASE CommitLogin(l)
    <3>1. cand[l] \in User
      BY <2>2 DEF CommitLogin, CandidateHeld
    <3> QED BY <2>2, <3>1, Fields DEF CommitLogin, PublishLogin
  <2>3. CASE ApplyProfile(l)
    <3>1. /\ ui' \in User
          /\ \/ UNCHANGED <<next, open>>
             \/ \E n \in Ctx : /\ next' = [next EXCEPT ![l] = n]
                               /\ open' = open \cup {n}
      BY <2>3, ProfileApplied
    <3> QED BY <2>3, <3>1 DEF ApplyProfile
  <2>4. CASE \/ LoginFails(l) \/ StageLogin(l) \/ RejectLogin(l)
             \/ LeaveLogin(l) \/ RequestProfile(l) \/ AbandonProfile(l)
    BY <2>4 DEF LoginFails, StageLogin, RejectLogin, CloseRejected,
             LeaveLogin, RequestProfile, AbandonProfile
  <2> QED BY <1>6, <2>1, <2>2, <2>3, <2>4 DEF Login
<1>7. CASE StartLogin \/ Load \/ Loaded \/ Close \/ Closing \/ CloseContext
  <2>1. CASE Load
    <3>1. /\ ui' \in User /\ received' \in [rt : Nat, rx : Nat]
          /\ \/ UNCHANGED <<next, open>>
             \/ \E n \in Ctx : /\ next' = [next EXCEPT ![Main] = n]
                               /\ open' = open \cup {n}
      BY <2>1, FileLoaded
    <3> QED BY <2>1, <3>1 DEF Load
  <2>2. CASE StartLogin \/ Loaded \/ Close \/ Closing \/ CloseContext
    BY <2>2 DEF StartLogin, Loaded, Close, Closing, CloseContext, Acquire
  <2> QED BY <1>7, <2>1, <2>2
<1>8. CASE Stop \/ HoldoffElapses \/ UNCHANGED vars
  BY <1>8 DEF Stop, HoldoffElapses, vars
<1> QED BY <1>1, <1>2, <1>3, <1>4, <1>5, <1>6, <1>7, <1>8 DEF Next

\* Every step keeps the goroutines' locals in their range.
LEMMA LocalsStep == ASSUME TypeInv, [Next]_vars PROVE Locals'
<1> USE Roles, Sentinels DEF TypeInv, Data, Locals, Control, Proc, service, cred, ctxs, local, history
<1>1. ASSUME NEW p \in Proc, Save(p) PROVE Locals'
  BY <1>1 DEF Save, StageOk, SaveFails, PublishOk
<1>2. ASSUME NEW p \in Proc, Swap(p) \/ Retire(p) PROVE Locals'
  BY <1>2 DEF Swap, Retire
<1>3. ASSUME NEW p \in Workers, Work(p) PROVE Locals'
  <2>1. CASE ServiceRefreshes(p)
    <3>1. /\ ver' \in Nat /\ valid' \subseteq Nat
          /\ \E c \in User : cand' = [cand EXCEPT ![p] = c]
      BY <2>1, RefreshAnswer
    <3> QED BY <2>1, <3>1 DEF ServiceRefreshes
  <2>2. CASE BuildRefreshed(p)
    <3>1. PICK c \in User, n \in Ctx :
            /\ cand' = [cand EXCEPT ![p] = c]
            /\ next' = [next EXCEPT ![p] = n]
            /\ open' = open \cup {n}
            /\ received' \in [rt : Nat, rx : Nat]
      BY <2>2, RefreshBuilt
    <3> QED BY <2>2, <3>1 DEF BuildRefreshed
  <2>3. CASE BuildFails(p)
    <3>1. ui' \in User /\ received' \in [rt : Nat, rx : Nat]
      BY <2>3, RefreshDropped
    <3> QED BY <2>3, <3>1 DEF BuildFails
  <2>4. CASE Adopt(p)
    BY <2>4 DEF Adopt
  <2>5. CASE \/ CheckFresh(p) \/ CheckRefuses(p) \/ SendRefresh(p)
             \/ RefreshRejected(p) \/ ReplyLost(p) \/ Leave(p)
             \/ BeginPrepare(p) \/ EndPrepare(p)
    BY <2>5 DEF CheckFresh, CheckRefuses, SendRefresh, RefreshRejected,
             ReplyLost, Leave, BeginPrepare, EndPrepare
  <2> QED BY <1>3, <2>1, <2>2, <2>3, <2>4, <2>5 DEF Work
<1>4. ASSUME NEW p \in Workers, NEW o \in {"prepare", "tick", "force"},
            Enter(p, o)
     PROVE Locals'
  BY <1>4 DEF Enter, EntryPoint, Acquire
<1>5. ASSUME NEW l \in Logins, Issued(l) PROVE Locals'
  <2>1. /\ ver' \in Nat /\ valid' \subseteq Nat
        /\ \E c \in User : cand' = [cand EXCEPT ![l] = c]
    BY <1>5, LoginIssued
  <2> QED BY <1>5, <2>1 DEF Issued
<1>6. ASSUME NEW l \in Logins, Login(l) PROVE Locals'
  <2>1. CASE BuildLogin(l)
    <3>1. PICK c \in User, n \in Ctx : /\ cand' = [cand EXCEPT ![l] = c]
                                      /\ next' = [next EXCEPT ![l] = n]
                                      /\ open' = open \cup {n}
      BY <2>1, LoginBuilt
    <3> QED BY <2>1, <3>1 DEF BuildLogin
  <2>2. CASE CommitLogin(l)
    <3>1. cand[l] \in User
      BY <2>2 DEF CommitLogin, CandidateHeld
    <3> QED BY <2>2, <3>1, Fields DEF CommitLogin, PublishLogin
  <2>3. CASE ApplyProfile(l)
    <3>1. /\ ui' \in User
          /\ \/ UNCHANGED <<next, open>>
             \/ \E n \in Ctx : /\ next' = [next EXCEPT ![l] = n]
                               /\ open' = open \cup {n}
      BY <2>3, ProfileApplied
    <3> QED BY <2>3, <3>1 DEF ApplyProfile
  <2>4. CASE \/ LoginFails(l) \/ StageLogin(l) \/ RejectLogin(l)
             \/ LeaveLogin(l) \/ RequestProfile(l) \/ AbandonProfile(l)
    BY <2>4 DEF LoginFails, StageLogin, RejectLogin, CloseRejected,
             LeaveLogin, RequestProfile, AbandonProfile
  <2> QED BY <1>6, <2>1, <2>2, <2>3, <2>4 DEF Login
<1>7. CASE StartLogin \/ Load \/ Loaded \/ Close \/ Closing \/ CloseContext
  <2>1. CASE Load
    <3>1. /\ ui' \in User /\ received' \in [rt : Nat, rx : Nat]
          /\ \/ UNCHANGED <<next, open>>
             \/ \E n \in Ctx : /\ next' = [next EXCEPT ![Main] = n]
                               /\ open' = open \cup {n}
      BY <2>1, FileLoaded
    <3> QED BY <2>1, <3>1 DEF Load
  <2>2. CASE StartLogin \/ Loaded \/ Close \/ Closing \/ CloseContext
    BY <2>2 DEF StartLogin, Loaded, Close, Closing, CloseContext, Acquire
  <2> QED BY <1>7, <2>1, <2>2
<1>8. CASE Stop \/ HoldoffElapses \/ UNCHANGED vars
  BY <1>8 DEF Stop, HoldoffElapses, vars
<1> QED BY <1>1, <1>2, <1>3, <1>4, <1>5, <1>6, <1>7, <1>8 DEF Next

\* Every step keeps the candidates where they are needed.
LEMMA CandidateHeldStep == ASSUME TypeInv, [Next]_vars PROVE CandidateHeld'
<1> USE Roles, Sentinels DEF TypeInv, Locals, Control, MuOwner, CandidateHeld, Goto, At, Proc,
            Critical, Refreshing, Then, Data, service, cred, ctxs, local, history
<1>1. ASSUME NEW p \in Proc, Save(p) PROVE CandidateHeld'
  BY <1>1 DEF Save, StageOk, SaveFails, PublishOk
<1>2. ASSUME NEW p \in Proc, Swap(p) \/ Retire(p) PROVE CandidateHeld'
  BY <1>2 DEF Swap, Retire
<1>3. ASSUME NEW p \in Workers, Work(p) PROVE CandidateHeld'
  <2>1. CASE ServiceRefreshes(p)
    <3>1. /\ ver' \in Nat /\ valid' \subseteq Nat
          /\ \E c \in User : cand' = [cand EXCEPT ![p] = c]
      BY <2>1, RefreshAnswer
    <3> QED BY <2>1, <3>1 DEF ServiceRefreshes
  <2>2. CASE BuildRefreshed(p)
    <3>1. PICK c \in User, n \in Ctx :
            /\ cand' = [cand EXCEPT ![p] = c]
            /\ next' = [next EXCEPT ![p] = n]
            /\ open' = open \cup {n}
            /\ received' \in [rt : Nat, rx : Nat]
      BY <2>2, RefreshBuilt
    <3> QED BY <2>2, <3>1 DEF BuildRefreshed
  <2>3. CASE BuildFails(p)
    <3>1. ui' \in User /\ received' \in [rt : Nat, rx : Nat]
      BY <2>3, RefreshDropped
    <3> QED BY <2>3, <3>1 DEF BuildFails, KeepRotation
  <2>4. CASE Adopt(p)
    BY <2>4 DEF Adopt
  <2>5. CASE \/ CheckFresh(p) \/ CheckRefuses(p) \/ SendRefresh(p)
             \/ RefreshRejected(p) \/ ReplyLost(p) \/ Leave(p)
             \/ BeginPrepare(p) \/ EndPrepare(p)
    BY <2>5 DEF CheckFresh, CheckRefuses, SendRefresh, RefreshRejected,
             ReplyLost, Leave, BeginPrepare, EndPrepare
  <2> QED BY <1>3, <2>1, <2>2, <2>3, <2>4, <2>5 DEF Work
<1>4. ASSUME NEW p \in Workers, NEW o \in {"prepare", "tick", "force"},
            Enter(p, o)
     PROVE CandidateHeld'
  BY <1>4 DEF Enter, EntryPoint, Acquire
<1>5. ASSUME NEW l \in Logins, Issued(l) PROVE CandidateHeld'
  <2>1. /\ ver' \in Nat /\ valid' \subseteq Nat
        /\ \E c \in User : cand' = [cand EXCEPT ![l] = c]
    BY <1>5, LoginIssued
  <2> QED BY <1>5, <2>1 DEF Issued
<1>6. ASSUME NEW l \in Logins, Login(l) PROVE CandidateHeld'
  <2>1. CASE BuildLogin(l)
    <3>1. PICK c \in User, n \in Ctx : /\ cand' = [cand EXCEPT ![l] = c]
                                      /\ next' = [next EXCEPT ![l] = n]
                                      /\ open' = open \cup {n}
      BY <2>1, LoginBuilt
    <3> QED BY <2>1, <3>1 DEF BuildLogin, Acquire
  <2>2. CASE CommitLogin(l)
    <3>1. cand[l] \in User
      BY <2>2 DEF CommitLogin, CandidateHeld
    <3> QED BY <2>2, <3>1, Fields DEF CommitLogin, PublishLogin
  <2>3. CASE ApplyProfile(l)
    <3>1. /\ ui' \in User
          /\ \/ UNCHANGED <<next, open>>
             \/ \E n \in Ctx : /\ next' = [next EXCEPT ![l] = n]
                               /\ open' = open \cup {n}
      BY <2>3, ProfileApplied
    <3> QED BY <2>3, <3>1 DEF ApplyProfile
  <2>4. CASE \/ LoginFails(l) \/ StageLogin(l) \/ RejectLogin(l)
             \/ LeaveLogin(l) \/ RequestProfile(l) \/ AbandonProfile(l)
    BY <2>4 DEF LoginFails, StageLogin, RejectLogin, CloseRejected,
             LeaveLogin, RequestProfile, AbandonProfile
  <2> QED BY <1>6, <2>1, <2>2, <2>3, <2>4 DEF Login
<1>7. CASE StartLogin \/ Load \/ Loaded \/ Close \/ Closing \/ CloseContext
  <2>1. CASE Load
    <3>1. /\ ui' \in User /\ received' \in [rt : Nat, rx : Nat]
          /\ \/ UNCHANGED <<next, open>>
             \/ \E n \in Ctx : /\ next' = [next EXCEPT ![Main] = n]
                               /\ open' = open \cup {n}
      BY <2>1, FileLoaded
    <3> QED BY <2>1, <3>1 DEF Load
  <2>2. CASE StartLogin \/ Loaded \/ Close \/ Closing \/ CloseContext
    BY <2>2 DEF StartLogin, Loaded, Close, Closing, CloseContext, Acquire
  <2> QED BY <1>7, <2>1, <2>2
<1>8. CASE Stop \/ HoldoffElapses \/ UNCHANGED vars
  BY <1>8 DEF Stop, HoldoffElapses, vars
<1> QED BY <1>1, <1>2, <1>3, <1>4, <1>5, <1>6, <1>7, <1>8 DEF Next

\* Every step preserves the whole invariant.
LEMMA StepTypeInv == TypeInv /\ [Next]_vars => TypeInv'
<1> SUFFICES ASSUME TypeInv, [Next]_vars PROVE TypeInv'
  OBVIOUS
<1>1. Flags' /\ Data' /\ Locals' /\ Control'
  BY FlagsStep, DataStep, LocalsStep, ControlStep
<1>2. MuOwner' /\ DownIdle' /\ CandidateHeld'
  BY MuOwnerStep, DownIdleStep, CandidateHeldStep
<1> QED BY <1>1, <1>2 DEF TypeInv

LEMMA AlwaysTypeInv == Spec => []TypeInv
BY InitTypeInv, StepTypeInv, PTL DEF Spec

\* At most one goroutine is inside an operation.
LEMMA OneOwner ==
  ASSUME TypeInv
  PROVE  \A p, q \in Proc : pc[p] \in Critical /\ pc[q] \in Critical => p = q
BY DEF TypeInv, MuOwner

\* Whatever the goroutines, the service and the disk do, every variable keeps
\* its type: in particular no protocol context is ever built for a user without
\* runtime fields, and no operation works on a missing candidate.
THEOREM TypeCorrect == Spec => []TypeOK
BY AlwaysTypeInv, TypeParts, PTL

\* Step for CleanMeansSaved: the flag is set before memory departs from disk,
\* and cleared only when they agree.
LEMMA CleanMeansSavedStep ==
  ASSUME TypeInv, CleanMeansSaved, [Next]_vars PROVE CleanMeansSaved'
<1> USE Roles, Sentinels DEF CleanMeansSaved, MarkDirty, ClearDirty, cred, ctxs,
        local, history, service
<1>1. ASSUME NEW p \in Proc, Save(p) PROVE CleanMeansSaved'
  BY <1>1 DEF Save, StageOk, SaveFails, PublishOk
<1>2. ASSUME NEW p \in Proc, Swap(p) \/ Retire(p) PROVE CleanMeansSaved'
  BY <1>2 DEF Swap, Retire
<1>3. ASSUME NEW p \in Workers, Work(p) PROVE CleanMeansSaved'
  BY <1>3 DEF Work, CheckFresh, CheckRefuses, SendRefresh, ServiceRefreshes,
         RefreshRejected, ReplyLost, BuildRefreshed, BuildFails, KeepRotation,
         Adopt, Leave, BeginPrepare, EndPrepare
<1>4. ASSUME NEW p \in Workers, NEW o \in {"prepare", "tick", "force"},
             Enter(p, o)
      PROVE CleanMeansSaved'
  BY <1>4 DEF Enter
<1>5. ASSUME NEW l \in Logins, Issued(l) \/ Login(l) PROVE CleanMeansSaved'
  BY <1>5 DEF Issued, Login, BuildLogin, LoginFails, StageLogin, RejectLogin, CommitLogin,
         LeaveLogin, RequestProfile, AbandonProfile, ApplyProfile,
         PublishLogin
<1>6. CASE StartLogin \/ Load \/ Loaded \/ Close \/ Closing \/ CloseContext
  <2>1. CASE Load
    <3>1. disk' = disk /\ dirty' = (ui' # disk)
      BY <2>1 DEF Load
    <3> QED BY <3>1, Zenon
  <2>2. CASE StartLogin \/ Loaded \/ Close \/ Closing \/ CloseContext
    BY <2>2 DEF StartLogin, Loaded, Close, Closing, CloseContext
  <2> QED BY <1>6, <2>1, <2>2
<1>7. CASE Stop \/ HoldoffElapses \/ UNCHANGED vars
  BY <1>7 DEF Stop, HoldoffElapses, vars
<1> QED BY <1>1, <1>2, <1>3, <1>4, <1>5, <1>6, <1>7 DEF Next

\* A credential that is not marked dirty is on disk: a crash while the flag is
\* clear forgets nothing, for any number of goroutines and any interleaving.
THEOREM CleanCredentialsAreSaved == Spec => []CleanMeansSaved
<1>1. Init => CleanMeansSaved
  BY DEF Init, CleanMeansSaved
<1>2. TypeInv /\ CleanMeansSaved /\ [Next]_vars => CleanMeansSaved'
  BY CleanMeansSavedStep
<1> QED BY <1>1, <1>2, AlwaysTypeInv, PTL DEF Spec

\* The workers whose refresh has received an answer that a.ui does not hold yet.
Adopting == {p \in Workers : pc[p] \in {"swap", "retire", "adopt"}}

\* The inductive form of RotationKept: while a refresh is adopting its
\* candidate, the candidate holds what was received; otherwise a.ui does.
RotationInv ==
  /\ \A p \in Adopting : Pair(cand[p]) = received
  /\ Adopting = {} /\ ui # NoUser => Pair(ui) = received

\* Step for RotationInv.  Only one goroutine is inside an operation, so at most
\* one refresh is adopting its candidate, and no login commits meanwhile.
LEMMA RotationStep ==
  ASSUME TypeInv, RotationInv, [Next]_vars PROVE RotationInv'
<1>0. \A p, q \in Proc : pc[p] \in Critical /\ pc[q] \in Critical => p = q
  BY OneOwner
<1> USE <1>0, Roles, Sentinels DEF RotationInv, Adopting, TypeInv, Control,
        Locals, Critical, Proc, Goto, At, cred, ctxs, local, history, service
<1>1. ASSUME NEW p \in Proc, Save(p) PROVE RotationInv'
  BY <1>1 DEF Save, StageOk, SaveFails, PublishOk, Then
<1>2. ASSUME NEW p \in Proc, Swap(p) \/ Retire(p) PROVE RotationInv'
  BY <1>2 DEF Swap, Retire
<1>3. ASSUME NEW p \in Workers, Work(p) PROVE RotationInv'
  <2>1. CASE ServiceRefreshes(p)
    <3>1. \E c \in User : cand' = [cand EXCEPT ![p] = c]
      BY <2>1, RefreshAnswer
    <3> QED BY <2>1, <3>1 DEF ServiceRefreshes
  <2>2. CASE BuildRefreshed(p)
    <3>1. PICK c \in User : /\ cand' = [cand EXCEPT ![p] = c]
                            /\ received' = Pair(c)
      BY <2>2, RefreshBuilt
    <3>2. Adopting' = {p}
      BY <2>2 DEF BuildRefreshed
    <3> QED BY <3>1, <3>2
  <2>3. CASE BuildFails(p)
    <3>1. Pair(ui') = received'
      BY <2>3, RefreshDropped
    <3>2. Adopting' = {}
      BY <2>3 DEF BuildFails, KeepRotation
    <3> QED BY <3>1, <3>2
  <2>4. CASE Adopt(p)
    <3>1. Adopting' = {} /\ ui' = cand[p] /\ received' = Pair(cand[p])
      BY <2>4 DEF Adopt
    <3> QED BY <3>1
  <2>5. CASE \/ CheckFresh(p) \/ CheckRefuses(p) \/ SendRefresh(p)
             \/ RefreshRejected(p) \/ ReplyLost(p) \/ Leave(p)
             \/ BeginPrepare(p) \/ EndPrepare(p)
    BY <2>5 DEF CheckFresh, CheckRefuses, SendRefresh, RefreshRejected,
             ReplyLost, Leave, BeginPrepare, EndPrepare
  <2> QED BY <1>3, <2>1, <2>2, <2>3, <2>4, <2>5 DEF Work
<1>4. ASSUME NEW p \in Workers, NEW o \in {"prepare", "tick", "force"},
             Enter(p, o)
      PROVE RotationInv'
  BY <1>4 DEF Enter, EntryPoint, Acquire
<1>5. ASSUME NEW l \in Logins, Issued(l) PROVE RotationInv'
  BY <1>5 DEF Issued
<1>6. ASSUME NEW l \in Logins, Login(l) PROVE RotationInv'
  <2>1. CASE BuildLogin(l)
    BY <2>1 DEF BuildLogin, Acquire
  <2>2. CASE CommitLogin(l)
    <3>1. Adopting' = {} /\ received' = Pair(ui')
      BY <2>2 DEF CommitLogin
    <3> QED BY <3>1
  <2>3. CASE ApplyProfile(l)
    <3>1. ui \in User /\ Pair(ui') = Pair(ui)
      BY <2>3, ProfileApplied
    <3>2. Adopting = {}
      BY <2>3 DEF ApplyProfile, MuOwner
    <3>3. Adopting' = {} /\ received' = received
      BY <2>3, <3>2 DEF ApplyProfile
    <3> QED BY <3>1, <3>2, <3>3
  <2>4. CASE \/ LoginFails(l) \/ StageLogin(l) \/ RejectLogin(l)
             \/ LeaveLogin(l) \/ RequestProfile(l) \/ AbandonProfile(l)
    BY <2>4 DEF LoginFails, StageLogin, RejectLogin, LeaveLogin,
             RequestProfile, AbandonProfile
  <2> QED BY <1>6, <2>1, <2>2, <2>3, <2>4 DEF Login
<1>7. CASE StartLogin \/ Load \/ Loaded \/ Close \/ Closing \/ CloseContext
  <2>1. CASE Load
    <3>1. Pair(ui') = received'
      BY <2>1, FileLoaded
    <3>2. Adopting' = {}
      BY <2>1 DEF Load, DownIdle
    <3> QED BY <3>1, <3>2
  <2>2. CASE StartLogin \/ Loaded \/ Close \/ Closing \/ CloseContext
    BY <2>2 DEF StartLogin, Loaded, Close, Closing, CloseContext, Acquire
  <2> QED BY <1>7, <2>1, <2>2
<1>8. CASE Stop \/ HoldoffElapses \/ UNCHANGED vars
  BY <1>8 DEF Stop, HoldoffElapses, vars
<1> QED BY <1>1, <1>2, <1>3, <1>4, <1>5, <1>6, <1>7, <1>8 DEF Next

\* Between operations a.ui holds the refresh token and expiry last received for
\* its session, although the refresh that received them may have failed.
THEOREM ReceivedRotationIsKept == Spec => []RotationKept
<1>1. Init => RotationInv
  BY Sentinels DEF Init, RotationInv, Adopting, Proc
<1>2. TypeInv /\ RotationInv /\ [Next]_vars => RotationInv'
  BY RotationStep
<1>3. TypeInv /\ RotationInv => RotationKept
  BY Sentinels DEF TypeInv, Control, MuOwner, RotationInv, RotationKept,
     Adopting, Critical, Proc
<1> QED BY <1>1, <1>2, <1>3, AlwaysTypeInv, PTL DEF Spec

----------------------------------------------------------------------------
(***************************************************************************)
(* The life of a protocol context: a request never meets a context that was *)
(* closed or replaced under it, and none is left open behind an operation. *)
(***************************************************************************)

\* A context in use is the current one, and its user is inside
\* PrepareInferRequest.
Reading == \A p \in Proc : using[p] # NoCtx => /\ pc[p] = "using"
                                               /\ using[p] = protoCtx

\* The current context has not been closed.
Current == protoCtx # NoCtx => protoCtx \in open

\* A context that is not published yet belongs to the operation that built it.
Unpublished ==
  \A p \in Proc : next[p] # NoCtx => /\ pc[p] \in {"swap", "lstage", "commit"}
                                     /\ next[p] \in open
                                     /\ next[p] # protoCtx

\* A replaced context belongs to the operation that replaced it.
Replaced ==
  \A p \in Proc : old[p] # NoCtx => /\ \/ pc[p] = "retire"
                                       \/ p = Main /\ pc[p] = "drain"
                                    /\ old[p] # protoCtx

\* A closed manager is never entered again.
Quiet == /\ closed => /\ mu = Nobody
                      /\ protoCtx = NoCtx
                      /\ pc[Main] \in {"drain", "closed"}
         /\ pc[Main] = "drain" => closed

\* The strengthening of UsedContextOpen and NoContextLeak.
ContextInv == Reading /\ Current /\ Unpublished /\ Replaced /\ Quiet
              /\ NoContextLeak

\* A step that leaves every context where it is, and no goroutine that owns one
\* at a point where it could not, preserves the invariant.
LEMMA ContextsUntouched ==
  ASSUME ContextInv, UNCHANGED <<protoCtx, closed, open, next, old, using>>,
         NEW p \in Proc, pc \in [Proc -> Point], NEW l \in Point,
         pc' = [pc EXCEPT ![p] = l],
         next[p] # NoCtx => l \in {"swap", "lstage", "commit"},
         using[p] = NoCtx, old[p] = NoCtx,
         closed => mu' = Nobody,
         p = Main => ~closed /\ l # "drain"
  PROVE  ContextInv'
BY DEF ContextInv, Reading, Current, Unpublished, Replaced, Quiet,
       NoContextLeak, Held

\* A context built for p and not published preserves the invariant.
LEMMA ContextBuilt ==
  ASSUME TypeInv, ContextInv, UNCHANGED <<protoCtx, closed, old, using>>,
         NEW p \in Proc, NEW l \in {"swap", "lstage"},
         pc' = [pc EXCEPT ![p] = l],
         pc[p] \in {"reply", "polled", "fetching", "down"}, ~closed,
         \E n \in Ctx \ open : /\ next' = [next EXCEPT ![p] = n]
                               /\ open' = open \cup {n}
  PROVE  ContextInv'
<1>1. PICK n \in Ctx \ open : /\ next' = [next EXCEPT ![p] = n]
                              /\ open' = open \cup {n}
  OBVIOUS
<1>2. n # NoCtx /\ pc \in [Proc -> Point] /\ next \in [Proc -> Ctx \cup {NoCtx}]
  BY Sentinels DEF TypeInv, Control, Locals
<1>3. next[p] = NoCtx /\ using[p] = NoCtx /\ old[p] = NoCtx
  BY DEF ContextInv, Reading, Unpublished, Replaced
<1> USE <1>1, <1>2, <1>3 DEF ContextInv
<1>4. Reading'
  BY DEF Reading
<1>5. Current'
  BY DEF Current
<1>6. Unpublished'
  BY DEF Unpublished, Current
<1>7. Replaced'
  BY DEF Replaced
<1>8. Quiet'
  BY DEF Quiet
<1>9. NoContextLeak'
  <2>1. \A q \in Proc : next[q] # NoCtx => next'[q] = next[q]
    OBVIOUS
  <2>2. next'[p] = n
    OBVIOUS
  <2> QED BY <2>1, <2>2 DEF NoContextLeak, Held
<1> QED BY <1>4, <1>5, <1>6, <1>7, <1>8, <1>9

\* replaceContext publishes the context and remembers the one it replaces:
\* nobody is reading it.
LEMMA ContextSwapped ==
  ASSUME TypeInv, ContextInv, NEW p \in Proc, UNCHANGED <<closed, open, using>>,
         pc[p] \in {"swap", "commit"}, NoReaders, pc' = [pc EXCEPT ![p] = "retire"],
         old' = [old EXCEPT ![p] = protoCtx], protoCtx' = next[p],
         next' = [next EXCEPT ![p] = NoCtx]
  PROVE  ContextInv'
<1>1. /\ pc \in [Proc -> Point]
      /\ next \in [Proc -> Ctx \cup {NoCtx}] /\ old \in [Proc -> Ctx \cup {NoCtx}]
      /\ \A q \in Proc : using[q] = NoCtx
  BY DEF TypeInv, Control, Locals, NoReaders, Readers
<1>2. mu = p /\ mu # Nobody
  BY Sentinels DEF TypeInv, MuOwner, Critical
<1>3. ~closed /\ pc[Main] # "drain"
  BY <1>2 DEF ContextInv, Quiet
<1>4. \A q \in Proc : q # p => next[q] = NoCtx /\ old[q] = NoCtx
  BY <1>3, OneOwner DEF ContextInv, Unpublished, Replaced, Critical
<1>5. old[p] = NoCtx
  BY <1>3 DEF ContextInv, Replaced
<1> USE <1>1, <1>3, <1>4, <1>5 DEF ContextInv
<1>6. Reading' /\ Current' /\ Unpublished' /\ Quiet'
  BY DEF Reading, Current, Unpublished, Quiet
<1>7. Replaced'
  BY DEF Replaced, Unpublished
<1>8. NoContextLeak'
  <2>1. old'[p] = protoCtx /\ protoCtx' = next[p]
    OBVIOUS
  <2> QED BY <2>1 DEF NoContextLeak, Held
<1> QED BY <1>6, <1>7, <1>8

\* A context that its owner replaced or never published is closed.
LEMMA ContextClosed ==
  ASSUME TypeInv, ContextInv, NEW p \in Proc,
         UNCHANGED <<protoCtx, closed, using>>,
         NEW l \in Point, pc' = [pc EXCEPT ![p] = l],
         l \notin {"swap", "lstage", "commit", "retire", "drain"},
         \/ /\ pc[p] \in {"lstage", "commit"} \cup {"retire"}
            /\ mu' = mu
         \/ p = Main /\ pc[p] = "drain" /\ l = "closed" /\ mu' = mu,
         \/ /\ pc[p] \in {"lstage", "commit"}
            /\ open' = open \ {next[p]} /\ next' = [next EXCEPT ![p] = NoCtx]
            /\ old' = old
         \/ /\ pc[p] \in {"retire", "drain"}
            /\ open' = open \ {old[p]} /\ old' = [old EXCEPT ![p] = NoCtx]
            /\ next' = next
  PROVE  ContextInv'
<1>1. /\ pc \in [Proc -> Point] /\ open \subseteq Ctx
      /\ next \in [Proc -> Ctx \cup {NoCtx}] /\ old \in [Proc -> Ctx \cup {NoCtx}]
      /\ using \in [Proc -> Ctx \cup {NoCtx}]
  BY DEF TypeInv, Control, Data, Locals
<1>2. \A q \in Proc : q # p => next[q] = NoCtx /\ old[q] = NoCtx
  <2>1. CASE pc[p] \in Critical
    <3>1. mu = p /\ mu # Nobody
      BY <2>1, Sentinels DEF TypeInv, MuOwner
    <3> QED BY <2>1, <3>1, OneOwner DEF ContextInv, Unpublished, Replaced, Quiet,
               Critical
  <2>2. CASE p = Main /\ pc[p] = "drain"
    <3>1. mu = Nobody
      BY <2>2 DEF ContextInv, Quiet
    <3> QED BY <2>2, <3>1, Sentinels DEF ContextInv, Unpublished, Replaced,
               TypeInv, MuOwner, Critical
  <2> QED BY <2>1, <2>2 DEF Critical
<1>3. old[p] # protoCtx \/ old[p] = NoCtx
  BY DEF ContextInv, Replaced
<1>4. next[p] # protoCtx \/ next[p] = NoCtx
  BY DEF ContextInv, Unpublished
<1>5. NoCtx \notin open
  BY <1>1, Sentinels
<1> USE <1>1, <1>2, <1>3, <1>4, <1>5 DEF ContextInv
<1>6. Reading' /\ Current'
  BY DEF Reading, Current
<1>7. Unpublished' /\ Replaced'
  BY DEF Unpublished, Replaced
<1>8. Quiet'
  <2>1. closed => mu = Nobody
    BY DEF Quiet
  <2>2. closed /\ p # Main => pc'[Main] = pc[Main]
    OBVIOUS
  <2>3. closed /\ p = Main => pc[p] = "drain"
    BY DEF Quiet
  <2>4. Main \in Proc
    BY DEF Proc
  <2> QED BY <2>1, <2>2, <2>3, <2>4 DEF Quiet
<1>9. NoContextLeak'
  <2>1. \A q \in Proc : q # p => next'[q] = next[q] /\ old'[q] = old[q]
    OBVIOUS
  <2>2. ASSUME NEW c \in open' PROVE c = protoCtx \/ c \in Held'
    <3>1. c \in open /\ c # NoCtx
      BY <2>2
    <3>2. c = protoCtx \/ c \in {next[p], old[p]}
      BY <3>1 DEF NoContextLeak, Held
    <3>3. pc[p] \in {"lstage", "commit"} => old[p] = NoCtx
      BY DEF Replaced
    <3>4. pc[p] \in {"retire", "drain"} => next[p] = NoCtx
      BY DEF Unpublished
    <3> QED BY <2>2, <3>1, <3>2, <3>3, <3>4
  <2> QED BY <2>2 DEF NoContextLeak
<1> QED BY <1>6, <1>7, <1>8, <1>9

\* Save leaves the contexts alone: its goroutine owns none.
LEMMA SaveContexts ==
  ASSUME TypeInv, ContextInv, NEW p \in Proc, Save(p) PROVE ContextInv'
<1>1. /\ UNCHANGED <<protoCtx, closed, open, next, old, using>> /\ mu' = mu
      /\ pc[p] \in {"stage", "publish"}
  BY DEF Save, StageOk, SaveFails, PublishOk, Goto, ctxs, local
<1>2. PICK l \in Point : l # "drain" /\ pc' = [pc EXCEPT ![p] = l]
  <2>1. then[p] \in {"ok", "error", "check", "closing"}
    BY DEF TypeInv, Control, Then
  <2> QED BY <2>1 DEF Save, StageOk, SaveFails, PublishOk, Goto, At, Point, Critical
<1>3. pc \in [Proc -> Point]
  BY DEF TypeInv, Control
<1>4. next[p] = NoCtx /\ using[p] = NoCtx /\ old[p] = NoCtx
  BY <1>1 DEF ContextInv, Unpublished, Reading, Replaced
<1>5. (closed => mu' = Nobody) /\ (p = Main => ~closed)
  BY <1>1 DEF ContextInv, Quiet
<1> QED BY <1>1, <1>2, <1>3, <1>4, <1>5, ContextsUntouched

\* Every step of a refresh and of the request it serves.
LEMMA WorkContexts ==
  ASSUME TypeInv, ContextInv, NEW p \in Workers, Work(p) PROVE ContextInv'
<1>1. p \in Proc /\ p # Main /\ pc \in [Proc -> Point]
  BY Roles DEF Proc, TypeInv, Control
<1>2. closed => mu = Nobody
  BY DEF ContextInv, Quiet
<1>3. CASE BuildRefreshed(p)
  <2>1. \E n \in Ctx \ open : /\ next' = [next EXCEPT ![p] = n]
                              /\ open' = open \cup {n}
    BY <1>3, RefreshBuilt
  <2>2. pc[p] = "reply" /\ pc' = [pc EXCEPT ![p] = "swap"]
        /\ UNCHANGED <<protoCtx, closed, old, using>>
    BY <1>3 DEF BuildRefreshed, Goto, At
  <2>3. ~closed
    BY <1>1, <1>2, <2>2, Sentinels DEF TypeInv, MuOwner, Critical
  <2> QED BY <1>1, <2>1, <2>2, <2>3, ContextBuilt
<1>4. CASE BeginPrepare(p) \/ EndPrepare(p)
  <2>1. UNCHANGED <<protoCtx, closed, open, next, old, mu>>
    BY <1>4 DEF BeginPrepare, EndPrepare, Goto, ctxs, local
  <2>2. next[p] = NoCtx /\ old[p] = NoCtx
    BY <1>1, <1>4 DEF BeginPrepare, EndPrepare, ContextInv, Unpublished, Replaced
  <2>3. \/ UNCHANGED using /\ using[p] = NoCtx /\ pc' = [pc EXCEPT ![p] = "idle"]
        \/ using' = [using EXCEPT ![p] = protoCtx] /\ pc' = [pc EXCEPT ![p] = "using"]
        \/ using' = [using EXCEPT ![p] = NoCtx] /\ pc' = [pc EXCEPT ![p] = "idle"]
    BY <1>1, <1>4 DEF BeginPrepare, EndPrepare, Goto, At, ContextInv, Reading
  <2>4. using \in [Proc -> Ctx \cup {NoCtx}]
    BY DEF TypeInv, Locals
  <2> USE <1>1, <2>1, <2>2, <2>3, <2>4 DEF ContextInv
  <2>5. Reading'
    BY DEF Reading
  <2>6. Current' /\ NoContextLeak'
    BY DEF Current, NoContextLeak, Held
  <2>7. Unpublished' /\ Replaced'
    BY DEF Unpublished, Replaced
  <2>8. Quiet'
    <3>1. pc'[Main] = pc[Main]
      BY DEF Proc
    <3> QED BY <3>1 DEF Quiet
  <2> QED BY <2>5, <2>6, <2>7, <2>8
<1>5. CASE \/ CheckFresh(p) \/ CheckRefuses(p) \/ SendRefresh(p)
           \/ ServiceRefreshes(p) \/ RefreshRejected(p) \/ ReplyLost(p)
           \/ BuildFails(p) \/ Adopt(p) \/ Leave(p)
  <2>1. UNCHANGED <<protoCtx, closed, open, next, old, using>>
    BY <1>5 DEF CheckFresh, CheckRefuses, SendRefresh, ServiceRefreshes,
       RefreshRejected, ReplyLost, BuildFails, Adopt, Leave, ctxs, local
  <2>2. /\ pc[p] \in {"check", "post", "reply", "adopt", "ok", "error"}
        /\ mu' \in {mu, Nobody}
        /\ \E l \in Point : l # "drain" /\ pc' = [pc EXCEPT ![p] = l]
    BY <1>5 DEF CheckFresh, CheckRefuses, SendRefresh, ServiceRefreshes,
       RefreshRejected, ReplyLost, BuildFails, KeepRotation, Adopt, Leave,
       Goto, At, Point, Critical
  <2>3. next[p] = NoCtx /\ using[p] = NoCtx /\ old[p] = NoCtx
    BY <1>1, <2>2 DEF ContextInv, Unpublished, Reading, Replaced
  <2> QED BY <1>1, <1>2, <2>1, <2>2, <2>3, ContextsUntouched
<1> QED BY <1>3, <1>4, <1>5 DEF Work

\* Every step of a login.
LEMMA LoginContexts ==
  ASSUME TypeInv, ContextInv, NEW l \in Logins, Issued(l) \/ Login(l)
  PROVE  ContextInv'
<1>1. l \in Proc /\ l # Main /\ pc \in [Proc -> Point]
  BY Roles DEF Proc, TypeInv, Control
<1>2. closed => mu = Nobody
  BY DEF ContextInv, Quiet
<1>3. CASE BuildLogin(l)
  <2>1. \E n \in Ctx \ open : /\ next' = [next EXCEPT ![l] = n]
                              /\ open' = open \cup {n}
    BY <1>3, LoginBuilt
  <2>2. pc[l] = "polled" /\ pc' = [pc EXCEPT ![l] = "lstage"] /\ ~closed
        /\ UNCHANGED <<protoCtx, closed, old, using>>
    BY <1>3 DEF BuildLogin, Acquire, At
  <2> QED BY <1>1, <2>1, <2>2, ContextBuilt
<1>4. CASE ApplyProfile(l)
  <2>1. \/ UNCHANGED <<next, open>> /\ pc' = [pc EXCEPT ![l] = "stage"]
        \/ /\ pc' = [pc EXCEPT ![l] = "swap"]
           /\ \E n \in Ctx \ open : /\ next' = [next EXCEPT ![l] = n]
                                    /\ open' = open \cup {n}
    <3>1. \/ UNCHANGED <<next, open>>
          \/ \E n \in Ctx \ open : /\ next' = [next EXCEPT ![l] = n]
                                   /\ open' = open \cup {n}
      BY <1>4, ProfileApplied
    <3>2. CASE At(l, "stage") /\ UNCHANGED <<next, open>>
      BY <3>2 DEF At
    <3>3. CASE \E i \in CtxId :
                 /\ FreeId(i) /\ At(l, "swap")
                 /\ next' = [next EXCEPT ![l] = CtxFor(ui', i)]
                 /\ open' = open \cup {CtxFor(ui', i)}
      <4>1. PICK i \in CtxId : /\ FreeId(i) /\ At(l, "swap")
                               /\ open' = open \cup {CtxFor(ui', i)}
        BY <3>3
      <4>2. CtxFor(ui', i) \notin open
        BY <4>1 DEF FreeId, CtxFor
      <4>3. open' # open
        BY <4>1, <4>2
      <4> QED BY <3>1, <4>1, <4>3 DEF At
    <3> QED BY <1>4, <3>2, <3>3 DEF ApplyProfile
  <2>2. pc[l] = "fetching" /\ ~closed /\ UNCHANGED <<protoCtx, closed, old, using>>
    BY <1>4 DEF ApplyProfile, Superseded
  <2>3. CASE UNCHANGED <<next, open>> /\ pc' = [pc EXCEPT ![l] = "stage"]
    <3>1. next[l] = NoCtx /\ using[l] = NoCtx /\ old[l] = NoCtx
      BY <1>1, <2>2 DEF ContextInv, Unpublished, Reading, Replaced
    <3> QED BY <1>1, <2>2, <2>3, <3>1, ContextsUntouched DEF Point, Critical
  <2> QED BY <1>1, <2>1, <2>2, <2>3, ContextBuilt
<1>5. CASE RejectLogin(l)
  <2>1. /\ pc[l] \in {"lstage", "commit"} /\ mu' = mu
        /\ pc' = [pc EXCEPT ![l] = "error"] /\ open' = open \ {next[l]}
        /\ next' = [next EXCEPT ![l] = NoCtx] /\ old' = old
        /\ UNCHANGED <<protoCtx, closed, using>>
    BY <1>5 DEF RejectLogin, CloseRejected, Goto, At
  <2>2. "error" \in Point
    BY DEF Point, Critical
  <2> QED BY <1>1, <2>1, <2>2, ContextClosed
<1>6. CASE CommitLogin(l)
  <2>1. /\ pc[l] = "commit" /\ NoReaders /\ pc' = [pc EXCEPT ![l] = "retire"]
        /\ old' = [old EXCEPT ![l] = protoCtx] /\ protoCtx' = next[l]
        /\ next' = [next EXCEPT ![l] = NoCtx]
        /\ UNCHANGED <<closed, open, using>>
    BY <1>6 DEF CommitLogin, Goto, At
  <2> QED BY <1>1, <2>1, ContextSwapped
<1>7. CASE StageLogin(l)
  <2>1. /\ pc[l] = "lstage" /\ mu' = mu /\ pc' = [pc EXCEPT ![l] = "commit"]
        /\ UNCHANGED <<protoCtx, closed, open, next, old, using>>
    BY <1>7 DEF StageLogin, Goto, At, ctxs, local
  <2>2. using[l] = NoCtx /\ old[l] = NoCtx
    BY <1>1, <2>1 DEF ContextInv, Reading, Replaced
  <2> QED BY <1>1, <1>2, <2>1, <2>2, ContextsUntouched DEF Point, Critical
<1>8. CASE \/ Issued(l) \/ LoginFails(l) \/ LeaveLogin(l)
           \/ RequestProfile(l) \/ AbandonProfile(l)
  <2>1. UNCHANGED <<protoCtx, closed, open, next, old, using>>
    BY <1>8 DEF Issued, LoginFails, LeaveLogin, RequestProfile, AbandonProfile,
       ctxs, local
  <2>2. /\ pc[l] \in {"idle", "polled", "ok", "error", "committed", "fetching"}
        /\ mu' \in {mu, Nobody}
        /\ \E m \in Point : m # "drain" /\ pc' = [pc EXCEPT ![l] = m]
    BY <1>8 DEF Issued, LoginFails, LeaveLogin, RequestProfile, AbandonProfile,
       Goto, At, Point, Critical
  <2>3. next[l] = NoCtx /\ using[l] = NoCtx /\ old[l] = NoCtx
    BY <1>1, <2>2 DEF ContextInv, Unpublished, Reading, Replaced
  <2> QED BY <1>1, <1>2, <2>1, <2>2, <2>3, ContextsUntouched
<1> QED BY <1>3, <1>4, <1>5, <1>6, <1>7, <1>8 DEF Login

\* The steps of the goroutine of run.
LEMMA MainContexts ==
  ASSUME TypeInv, ContextInv,
         StartLogin \/ Load \/ Loaded \/ Close \/ Closing \/ CloseContext
  PROVE  ContextInv'
<1>1. Main \in Proc /\ pc \in [Proc -> Point]
  BY DEF Proc, TypeInv, Control
<1>2. closed => mu = Nobody /\ pc[Main] \in {"drain", "closed"}
  BY DEF ContextInv, Quiet
<1>3. CASE Load
  <2>1. pc[Main] = "down" /\ ~closed /\ UNCHANGED <<protoCtx, closed, old, using>>
    BY <1>2, <1>3 DEF Load
  <2>2. \/ UNCHANGED <<next, open>> /\ pc' = [pc EXCEPT ![Main] = "error"]
        \/ /\ pc' = [pc EXCEPT ![Main] = "swap"]
           /\ \E n \in Ctx \ open : /\ next' = [next EXCEPT ![Main] = n]
                                    /\ open' = open \cup {n}
    <3>1. \/ UNCHANGED <<next, open>>
          \/ \E n \in Ctx \ open : /\ next' = [next EXCEPT ![Main] = n]
                                   /\ open' = open \cup {n}
      BY <1>3, FileLoaded
    <3>2. CASE At(Main, "error") /\ UNCHANGED <<next, open>>
      BY <3>2 DEF At
    <3>3. CASE \E i \in CtxId :
                 /\ FreeId(i) /\ At(Main, "swap")
                 /\ next' = [next EXCEPT ![Main] = CtxFor(ui', i)]
                 /\ open' = open \cup {CtxFor(ui', i)}
      <4>1. PICK i \in CtxId : /\ FreeId(i) /\ At(Main, "swap")
                               /\ open' = open \cup {CtxFor(ui', i)}
        BY <3>3
      <4>2. CtxFor(ui', i) \notin open
        BY <4>1 DEF FreeId, CtxFor
      <4>3. open' # open
        BY <4>1, <4>2
      <4> QED BY <3>1, <4>1, <4>3 DEF At
    <3> QED BY <1>3, <3>2, <3>3 DEF Load
  <2>3. CASE UNCHANGED <<next, open>> /\ pc' = [pc EXCEPT ![Main] = "error"]
    <3>1. next[Main] = NoCtx /\ using[Main] = NoCtx /\ old[Main] = NoCtx
      BY <1>1, <2>1 DEF ContextInv, Unpublished, Reading, Replaced
    <3> QED BY <1>1, <2>1, <2>3, <3>1, ContextsUntouched DEF Point, Critical
  <2> QED BY <1>1, <2>1, <2>2, <2>3, ContextBuilt
<1>4. CASE Closing
  <2>1. /\ pc[Main] = "closing" /\ NoReaders /\ closed' = TRUE
        /\ old' = [old EXCEPT ![Main] = protoCtx] /\ protoCtx' = NoCtx
        /\ mu' = Nobody /\ pc' = [pc EXCEPT ![Main] = "drain"]
        /\ UNCHANGED <<open, next, using>>
    BY <1>4 DEF Closing, At
  <2>2. \A q \in Proc : q # Main => next[q] = NoCtx /\ old[q] = NoCtx
    BY <1>1, <2>1, OneOwner DEF ContextInv, Unpublished, Replaced, Critical
  <2>3. next[Main] = NoCtx /\ old[Main] = NoCtx
    BY <1>1, <2>1 DEF ContextInv, Unpublished, Replaced
  <2>4. \A q \in Proc : using[q] = NoCtx
    BY <2>1 DEF NoReaders, Readers
  <2>5. old \in [Proc -> Ctx \cup {NoCtx}]
    BY DEF TypeInv, Locals
  <2> USE <1>1, <2>1, <2>2, <2>3, <2>4, <2>5 DEF ContextInv
  <2>6. Reading' /\ Current' /\ Unpublished' /\ Replaced' /\ Quiet'
    BY DEF Reading, Current, Unpublished, Replaced, Quiet
  <2>7. NoContextLeak'
    <3>1. old'[Main] = protoCtx
      OBVIOUS
    <3> QED BY <3>1 DEF NoContextLeak, Held
  <2> QED BY <2>6, <2>7
<1>5. CASE CloseContext
  <2>1. /\ pc[Main] = "drain" /\ mu' = mu /\ pc' = [pc EXCEPT ![Main] = "closed"]
        /\ open' = open \ {old[Main]} /\ old' = [old EXCEPT ![Main] = NoCtx]
        /\ next' = next /\ UNCHANGED <<protoCtx, closed, using>>
    BY <1>5 DEF CloseContext, Goto, At
  <2>2. "closed" \in Point
    BY DEF Point
  <2> QED BY <1>1, <2>1, <2>2, ContextClosed
<1>6. CASE StartLogin \/ Loaded \/ Close
  <2>1. UNCHANGED <<protoCtx, closed, open, next, old, using>>
    BY <1>6 DEF StartLogin, Loaded, Close, ctxs, local
  <2>2. /\ pc[Main] \in {"down", "ok", "error", "serving", "failed"}
        /\ \E m \in Point : m # "drain" /\ pc' = [pc EXCEPT ![Main] = m]
    BY <1>6 DEF StartLogin, Loaded, Close, Acquire, Goto, At, Point, Critical
  <2>3. next[Main] = NoCtx /\ using[Main] = NoCtx /\ old[Main] = NoCtx
    BY <1>1, <2>2 DEF ContextInv, Unpublished, Reading, Replaced
  <2> QED BY <1>1, <1>2, <2>1, <2>2, <2>3, ContextsUntouched
<1> QED BY <1>3, <1>4, <1>5, <1>6

\* Every step preserves the invariant.
LEMMA ContextStep ==
  ASSUME TypeInv, ContextInv, [Next]_vars PROVE ContextInv'
<1>1. ASSUME NEW p \in Proc, Save(p) PROVE ContextInv'
  BY <1>1, SaveContexts
<1>2. ASSUME NEW p \in Proc, Swap(p) PROVE ContextInv'
  <2>1. /\ pc[p] = "swap" /\ NoReaders /\ pc' = [pc EXCEPT ![p] = "retire"]
        /\ old' = [old EXCEPT ![p] = protoCtx] /\ protoCtx' = next[p]
        /\ next' = [next EXCEPT ![p] = NoCtx]
        /\ UNCHANGED <<closed, open, using>>
    BY <1>2 DEF Swap, Goto, At
  <2> QED BY <2>1, ContextSwapped
<1>3. ASSUME NEW p \in Proc, Retire(p) PROVE ContextInv'
  <2>1. /\ pc[p] = "retire" /\ mu' = mu
        /\ open' = open \ {old[p]} /\ old' = [old EXCEPT ![p] = NoCtx]
        /\ next' = next /\ UNCHANGED <<protoCtx, closed, using>>
    BY <1>3 DEF Retire, Goto
  <2>2. PICK m \in {"adopt", "stage", "ok"} : pc' = [pc EXCEPT ![p] = m]
    BY <1>3 DEF Retire, Goto, At
  <2>3. m \in Point /\ m \notin {"swap", "lstage", "commit", "retire", "drain"}
    BY DEF Point, Critical
  <2> QED BY <2>1, <2>2, <2>3, ContextClosed
<1>4. ASSUME NEW p \in Workers, NEW o \in {"prepare", "tick", "force"},
             Enter(p, o)
      PROVE ContextInv'
  <2>1. p \in Proc /\ p # Main /\ pc \in [Proc -> Point]
    BY Roles DEF Proc, TypeInv, Control
  <2>2. /\ pc[p] = "idle" /\ ~closed
        /\ UNCHANGED <<protoCtx, closed, open, next, old, using>>
    BY <1>4 DEF Enter, ctxs, local
  <2>3. \E m \in {"stage", "check"} : pc' = [pc EXCEPT ![p] = m]
    BY <1>4 DEF Enter, Acquire, EntryPoint, At
  <2>4. next[p] = NoCtx /\ using[p] = NoCtx /\ old[p] = NoCtx
    BY <2>1, <2>2 DEF ContextInv, Unpublished, Reading, Replaced
  <2> QED BY <2>1, <2>2, <2>3, <2>4, ContextsUntouched DEF Point, Critical
<1>5. ASSUME NEW p \in Workers, Work(p) PROVE ContextInv'
  BY <1>5, WorkContexts
<1>6. ASSUME NEW l \in Logins, Issued(l) \/ Login(l) PROVE ContextInv'
  BY <1>6, LoginContexts
<1>7. CASE StartLogin \/ Load \/ Loaded \/ Close \/ Closing \/ CloseContext
  BY <1>7, MainContexts
<1>8. CASE Stop
  BY <1>8 DEF Stop, ContextInv, Reading, Current, Unpublished, Replaced, Quiet,
     NoContextLeak, Proc
<1>9. CASE HoldoffElapses \/ UNCHANGED vars
  BY <1>9 DEF HoldoffElapses, vars, ctxs, local, ContextInv, Reading, Current,
     Unpublished, Replaced, Quiet, NoContextLeak, Held
<1> QED BY <1>1, <1>2, <1>3, <1>4, <1>5, <1>6, <1>7, <1>8, <1>9 DEF Next

LEMMA AlwaysContextInv == Spec => []ContextInv
<1>1. Init => ContextInv
  BY Roles DEF Init, ContextInv, Reading, Current, Unpublished, Replaced, Quiet,
     NoContextLeak, Proc
<1>2. TypeInv /\ ContextInv /\ [Next]_vars => ContextInv'
  BY ContextStep
<1> QED BY <1>1, <1>2, AlwaysTypeInv, PTL DEF Spec

\* No refresh, login or Close ever closes or replaces a protocol context while
\* a request is inside PrepareInferRequest with it, for any number of requests.
THEOREM RequestsUseOpenContexts == Spec => []UsedContextOpen
<1>1. ContextInv => UsedContextOpen
  BY DEF ContextInv, Reading, Current, UsedContextOpen, Readers
<1> QED BY <1>1, AlwaysContextInv, PTL

\* Whatever fails or is rejected, every open context is the current one or is
\* held by an operation that will publish or close it.
THEOREM ContextsAreNotLeaked == Spec => []NoContextLeak
<1>1. ContextInv => NoContextLeak
  BY DEF ContextInv
<1> QED BY <1>1, AlwaysContextInv, PTL

\* After Close nothing is published, saved or rebuilt any more, whichever
\* refresh, login or enrichment was waiting for a.mu: each finds the manager
\* closed when it gets the lock.
THEOREM CloseIsFinal == Spec => ClosedIsFinal
<1> DEFINE Kept == closed /\ closed' => UNCHANGED <<disk, ui, dirty, protoCtx>>
<1>1. ASSUME TypeInv, ContextInv, [Next]_vars PROVE Kept
  <2> SUFFICES ASSUME closed, closed' PROVE UNCHANGED <<disk, ui, dirty, protoCtx>>
    OBVIOUS
  <2>1. pc[Main] \in {"drain", "closed"} /\ protoCtx = NoCtx
    BY <1>1 DEF ContextInv, Quiet
  <2>2. \A p \in Proc : pc[p] \notin Critical
    BY <1>1, Sentinels DEF ContextInv, Quiet, TypeInv, MuOwner
  <2> USE <2>1, <2>2 DEF Critical, cred, ctxs
  <2>3. ASSUME NEW p \in Proc, Save(p) \/ Swap(p) \/ Retire(p) PROVE FALSE
    BY <2>3 DEF Save, StageOk, SaveFails, PublishOk, Swap, Retire
  <2>4. ASSUME NEW p \in Workers, Work(p)
        PROVE  UNCHANGED <<disk, ui, dirty, protoCtx>>
    <3>1. pc[p] \notin Critical
      BY DEF Proc
    <3> QED BY <2>4, <3>1 DEF Work, CheckFresh, CheckRefuses, SendRefresh,
            ServiceRefreshes, RefreshRejected, ReplyLost, BuildRefreshed,
            BuildFails, Adopt, Leave, BeginPrepare, EndPrepare
  <2>5. ASSUME NEW l \in Logins, Issued(l) \/ Login(l)
        PROVE  UNCHANGED <<disk, ui, dirty, protoCtx>>
    <3>1. pc[l] \notin Critical
      BY DEF Proc
    <3> QED BY <2>5, <3>1 DEF Issued, Login, BuildLogin, LoginFails, StageLogin,
            RejectLogin, CommitLogin, LeaveLogin, RequestProfile,
            AbandonProfile, ApplyProfile, Superseded
  <2>6. ASSUME NEW p \in Workers, NEW o \in {"prepare", "tick", "force"},
               Enter(p, o)
        PROVE  FALSE
    BY <2>6 DEF Enter
  <2>7. CASE \/ StartLogin \/ Load \/ Loaded \/ Close \/ Closing
             \/ CloseContext \/ Stop
    BY <2>7 DEF StartLogin, Load, Loaded, Close, Closing, CloseContext, Stop
  <2>8. CASE HoldoffElapses \/ UNCHANGED vars
    BY <2>8 DEF HoldoffElapses, vars
  <2> QED BY <1>1, <2>3, <2>4, <2>5, <2>6, <2>7, <2>8 DEF Next
<1>2. TypeInv /\ ContextInv /\ [Next]_vars => [Kept]_vars
  BY <1>1
<1> QED BY <1>2, AlwaysTypeInv, AlwaysContextInv, PTL DEF Spec, ClosedIsFinal

----------------------------------------------------------------------------
(***************************************************************************)
(* Memory, disk and protocol context belong to one login session and carry *)
(* the profile and runtime fields of that session, and the refresh token   *)
(* the manager would send is the one the service accepts, and the file     *)
(* never goes back within a session, for any number of logins, refreshes   *)
(* and enrichments in flight.                                              *)
(***************************************************************************)

\* A user carries its own session's profile and a token issued up to v; a login
\* in progress (control points P, candidates C) with the same token is a login
\* of the same session.  This is what the pointer comparison of fetchUserInfo
\* relies on.
Fits(u, v, P, C) ==
  /\ Owns(u)
  /\ u.tok <= v
  /\ \A l \in Logins : P[l] # "idle" /\ u.tok = C[l].tok => u.sess = C[l].sess

\* Every user an operation may still install fits.
UsersFit ==
  /\ ui # NoUser => Fits(ui, ver, pc, cand)
  /\ disk # NoUser => Fits(disk, ver, pc, cand)
  /\ \A p \in Workers : pc[p] \in Refreshing => Fits(cand[p], ver, pc, cand)
  /\ \A l \in Logins : pc[l] # "idle" => /\ Fits(cand[l], ver, pc, cand)
                                         /\ cand[l].tok = cand[l].sess

\* A refresh stays within the session in memory.
RefreshWithin ==
  \A p \in Workers : pc[p] \in Refreshing => ui # NoUser /\ cand[p].sess = ui.sess

\* The context an operation is about to publish is for the user it installs.
NextFits ==
  \A p \in Proc :
    /\ pc[p] = "swap" => ui # NoUser /\ next[p].sess = ui.sess
    /\ pc[p] \in {"lstage", "commit"} => next[p].sess = cand[p].sess

\* Every open context carries the profile of its session.
ContextsOwn == \A c \in open : Owns(c)

\* The strengthening of OneSession and ProfileOwn.
SessionInv == /\ UsersFit /\ RefreshWithin /\ NextFits /\ ContextsOwn
              /\ OneSession
              /\ pc[Main] = "down" => protoCtx = NoCtx

\* A user keeps fitting as versions grow, as logins end, and as logins begin
\* with tokens that were not issued before.
LEMMA FitsKept ==
  ASSUME NEW u \in User, NEW v \in Nat, NEW w \in Nat, v <= w,
         NEW P, NEW C, NEW Q, NEW D, Fits(u, v, P, C),
         \A l \in Logins : Q[l] # "idle" =>
           \/ /\ P[l] # "idle"
              /\ D[l].tok = C[l].tok /\ D[l].sess = C[l].sess
           \/ D[l].tok = v + 1
  PROVE  Fits(u, w, Q, D)
<1>1. u.tok \in Nat
  BY Fields
<1> QED BY <1>1 DEF Fits

\* What becomes of a user that fits still fits.
LEMMA FitsCopy ==
  ASSUME NEW u \in User, NEW v, NEW P, NEW C, Fits(u, v, P, C)
  PROVE  /\ Fits(WithFields(u), v, P, C)
         /\ \A k \in {u.key, u.prof} : Fits(Keyed(u, k), v, P, C)
         /\ Fits(Enriched(u, u.sess), v, P, C)
         /\ \A r, x \in Nat : Fits(Rotated(u, r, x), v, P, C)
BY Sentinels DEF Fits, Owns, User, WithFields, Keyed, Enriched, Rotated, Bare

\* A step that installs, keeps or forgets users that fit.
LEMMA UsersKept ==
  ASSUME TypeInv, TypeInv', UsersFit, ver' = ver,
         ui' # NoUser => Fits(ui', ver, pc, cand),
         disk' # NoUser => Fits(disk', ver, pc, cand),
         \A p \in Workers : pc'[p] \in Refreshing => Fits(cand'[p], ver, pc, cand),
         \A l \in Logins : pc'[l] # "idle" =>
           /\ pc[l] # "idle"
           /\ Fits(cand'[l], ver, pc, cand)
           /\ cand'[l].tok = cand[l].tok /\ cand'[l].sess = cand[l].sess
  PROVE  UsersFit'
<1>1. ver \in Nat
  BY DEF TypeInv, Data
<1>2. \A u \in User : Fits(u, ver, pc, cand) => Fits(u, ver', pc', cand')
  BY <1>1, FitsKept
<1>3. /\ ui' # NoUser => ui' \in User
      /\ disk' # NoUser => disk' \in User
      /\ \A p \in Workers : pc'[p] \in Refreshing => cand'[p] \in User
      /\ \A l \in Logins : pc'[l] # "idle" => cand'[l] \in User
  BY DEF TypeInv, Data, Locals, CandidateHeld, Proc
<1> QED BY <1>2, <1>3 DEF UsersFit

\* The service draws a version that no user in the process has yet.
LEMMA UsersAfterRefresh ==
  ASSUME TypeInv, TypeInv', UsersFit, NEW p \in Workers, ServiceRefreshes(p)
  PROVE  UsersFit' /\ cand'[p].sess = ui.sess
<1>1. ui \in User /\ ver \in Nat /\ ver' = ver + 1 /\ ver' \in Nat
  BY DEF TypeInv, Data, CandidateHeld, ServiceRefreshes
<1>2. PICK r, x : cand' = [cand EXCEPT ![p] = Refreshed(ui, ver + 1, r, x)]
  BY DEF ServiceRefreshes
<1>3. p \in Proc /\ p \notin Logins /\ cand \in [Proc -> User \cup {NoUser}]
      /\ pc' = [pc EXCEPT ![p] = "reply"] /\ pc[p] = "post"
      /\ pc \in [Proc -> Point] /\ Logins \subseteq Proc /\ Workers \subseteq Proc
  BY Roles DEF Proc, TypeInv, Control, Locals, ServiceRefreshes, Goto, At
<1>4. \A u \in User : Fits(u, ver, pc, cand) => Fits(u, ver', pc', cand')
  <2>1. \A l \in Logins : pc'[l] # "idle" => pc[l] # "idle" /\ cand'[l] = cand[l]
    BY <1>2, <1>3
  <2>2. ver <= ver'
    BY <1>1
  <2> QED BY <1>1, <2>1, <2>2, FitsKept
<1>5. \A l \in Logins : pc[l] # "idle" =>
        cand[l] \in User /\ Fits(cand[l], ver, pc, cand) /\ cand[l].tok = cand[l].sess
  BY <1>3 DEF UsersFit, TypeInv, CandidateHeld
<1>6. Fits(cand'[p], ver', pc', cand') /\ cand'[p].sess = ui.sess
  <2>1. cand'[p] = Refreshed(ui, ver + 1, r, x)
    BY <1>2, <1>3
  <2>2. /\ cand'[p].tok = ver + 1 /\ cand'[p].sess = ui.sess
        /\ cand'[p].prof = ui.prof /\ cand'[p].key = ui.key
    BY <1>1, <2>1 DEF Refreshed, User
  <2>3. Owns(ui)
    BY <1>1, Sentinels DEF UsersFit, Fits
  <2>4. ASSUME NEW l \in Logins, pc'[l] # "idle" PROVE cand'[l].tok # ver + 1
    <3>1. pc[l] # "idle" /\ cand'[l] = cand[l]
      BY <1>2, <1>3, <2>4
    <3>2. cand[l].tok <= ver /\ cand[l].tok \in Nat
      BY <1>5, <3>1, Fields DEF Fits
    <3> QED BY <1>1, <3>1, <3>2
  <2> QED BY <1>1, <2>2, <2>3, <2>4 DEF Fits, Owns
<1>7. ui' = ui /\ disk' = disk
  BY DEF ServiceRefreshes, cred
<1>8. \A q \in Workers : pc'[q] \in Refreshing /\ q # p =>
        pc[q] \in Refreshing /\ cand'[q] = cand[q] /\ cand[q] \in User
  BY <1>2, <1>3 DEF TypeInv, CandidateHeld
<1>9. \A l \in Logins : pc'[l] # "idle" => pc[l] # "idle" /\ cand'[l] = cand[l]
  BY <1>2, <1>3
<1>10. ui # NoUser => ui \in User
  BY <1>1
<1>11. disk # NoUser => disk \in User
  BY DEF TypeInv, Data
<1> QED BY <1>4, <1>5, <1>6, <1>7, <1>8, <1>9, <1>10, <1>11 DEF UsersFit

LEMMA UsersAfterIssue ==
  ASSUME TypeInv, TypeInv', UsersFit, NEW l \in Logins, Issued(l)
  PROVE  UsersFit'
<1>1. ver \in Nat /\ ver' = ver + 1 /\ ver' \in Nat
  BY DEF TypeInv, Data, Issued
<1>2. PICK r \in {0, ver + 1}, x \in {0, ver + 1}, f \in {Bare, ver + 1} :
        cand' = [cand EXCEPT ![l] =
                   [sess |-> ver + 1, tok |-> ver + 1, rt |-> r, rx |-> x,
                    prof |-> f, key |-> NoKey]]
  BY DEF Issued
<1>3. l \in Proc /\ l \notin Workers /\ cand \in [Proc -> User \cup {NoUser}]
      /\ pc' = [pc EXCEPT ![l] = "polled"] /\ pc[l] = "idle"
      /\ pc \in [Proc -> Point] /\ Logins \subseteq Proc /\ Workers \subseteq Proc
  BY Roles DEF Proc, TypeInv, Control, Locals, Issued, Goto, At
<1>4. /\ cand'[l].sess = ver + 1 /\ cand'[l].tok = ver + 1
      /\ cand'[l].prof \in {Bare, ver + 1} /\ cand'[l].key = NoKey
  BY <1>2, <1>3
<1>5. \A m \in Logins : m # l /\ pc'[m] # "idle" => pc[m] # "idle" /\ cand'[m] = cand[m]
  BY <1>2, <1>3
<1>6. \A u \in User : Fits(u, ver, pc, cand) => Fits(u, ver', pc', cand')
  BY <1>1, <1>4, <1>5, FitsKept
<1>7. \A m \in Logins : pc[m] # "idle" =>
        cand[m] \in User /\ Fits(cand[m], ver, pc, cand) /\ cand[m].tok = cand[m].sess
  BY <1>3 DEF UsersFit, TypeInv, CandidateHeld
<1>8. Fits(cand'[l], ver', pc', cand')
  <2>1. ASSUME NEW m \in Logins, pc'[m] # "idle", m # l PROVE cand'[m].tok # ver + 1
    <3>1. cand[m].tok <= ver /\ cand[m].tok \in Nat
      BY <1>5, <1>7, <2>1, Fields DEF Fits
    <3> QED BY <1>1, <1>5, <2>1, <3>1
  <2> QED BY <1>1, <1>4, <2>1 DEF Fits, Owns
<1>9. ui' = ui /\ disk' = disk
  BY DEF Issued, cred
<1>10. \A q \in Workers : pc'[q] \in Refreshing =>
         pc[q] \in Refreshing /\ cand'[q] = cand[q] /\ cand[q] \in User
  BY <1>2, <1>3 DEF TypeInv, CandidateHeld
<1>11. (ui # NoUser => ui \in User) /\ (disk # NoUser => disk \in User)
  BY DEF TypeInv, Data
<1> QED BY <1>4, <1>5, <1>6, <1>7, <1>8, <1>9, <1>10, <1>11 DEF UsersFit

\* A step that changes no user, starts no login and receives no answer.
LEMMA UsersSame ==
  ASSUME TypeInv, TypeInv', UsersFit, ver' = ver, ui' \in {ui, NoUser},
         disk' \in {disk, ui},
         \A p \in Workers : pc'[p] \in Refreshing =>
           pc[p] \in Refreshing /\ cand'[p] = cand[p],
         \A l \in Logins : pc'[l] # "idle" =>
           pc[l] # "idle" /\ cand'[l] = cand[l]
  PROVE  UsersFit'
BY UsersKept DEF UsersFit

\* Every step leaves users that fit.
LEMMA UsersFitStep ==
  ASSUME TypeInv, UsersFit, [Next]_vars PROVE UsersFit'
<1>0. TypeInv'
  BY StepTypeInv
<1> USE <1>0, Roles DEF service, cred, ctxs, local, history
<1>b. /\ pc \in [Proc -> Point] /\ cand \in [Proc -> User \cup {NoUser}]
      /\ Workers \subseteq Proc /\ Logins \subseteq Proc /\ Main \in Proc
      /\ Main \notin Workers /\ Main \notin Logins
      /\ \A p \in Workers : p \notin Logins
  BY DEF TypeInv, Control, Locals, Proc
<1>1. ASSUME NEW p \in Proc, Save(p) \/ Swap(p) \/ Retire(p) PROVE UsersFit'
  <2>1. /\ ver' = ver /\ ui' = ui /\ disk' \in {disk, ui} /\ cand' = cand
        /\ pc[p] \in {"stage", "publish", "swap", "retire"}
    BY <1>1 DEF Save, StageOk, SaveFails, PublishOk, Swap, Retire
  <2>2. PICK m : /\ pc' = [pc EXCEPT ![p] = m]
                 /\ m \in Refreshing => pc[p] \in Refreshing
    <3>1. then[p] \in Then
      BY DEF TypeInv, Control
    <3> QED BY <1>1, <3>1 DEF Save, StageOk, SaveFails, PublishOk, Swap, Retire,
            Goto, At, Refreshing, Then
  <2> QED BY <1>b, <2>1, <2>2, UsersSame
<1>2. ASSUME NEW p \in Workers, Work(p) PROVE UsersFit'
  <2>1. CASE ServiceRefreshes(p)
    BY <2>1, UsersAfterRefresh
  <2>2. CASE BuildRefreshed(p)
    <3>1. PICK k \in {cand[p].key, cand[p].prof} :
            cand' = [cand EXCEPT ![p] = Keyed(cand[p], k)]
      BY <2>2 DEF BuildRefreshed
    <3>2. pc[p] = "reply" /\ pc' = [pc EXCEPT ![p] = "swap"]
          /\ ver' = ver /\ ui' = ui /\ disk' = disk
      BY <2>2 DEF BuildRefreshed, Goto, At
    <3>3. Fits(Keyed(cand[p], k), ver, pc, cand)
      <4>1. Fits(cand[p], ver, pc, cand)
        BY <3>2 DEF UsersFit, Refreshing
      <4>2. cand[p] \in User
        BY <1>b, <3>2 DEF TypeInv, CandidateHeld, Refreshing
      <4> QED BY <4>1, <4>2, FitsCopy
    <3>4. \A q \in Workers : pc'[q] \in Refreshing => Fits(cand'[q], ver, pc, cand)
      BY <1>b, <3>1, <3>2, <3>3 DEF UsersFit, Refreshing
    <3>5. \A l \in Logins : pc'[l] # "idle" => pc[l] # "idle" /\ cand'[l] = cand[l]
      BY <1>b, <3>1, <3>2
    <3> QED BY <3>2, <3>4, <3>5, UsersKept DEF UsersFit
  <2>3. CASE BuildFails(p)
    <3>1. pc[p] = "reply" /\ cand' = cand /\ ver' = ver /\ disk' = disk
          /\ \E m \in {"error", "stage"} : pc' = [pc EXCEPT ![p] = m]
      BY <2>3 DEF BuildFails, KeepRotation, Goto, At
    <3>2. ui \in User /\ cand[p] \in User
      BY <1>b, <3>1 DEF TypeInv, Data, CandidateHeld, Refreshing
    <3>3. ui' = ui \/ ui' = Rotated(ui, cand[p].rt, cand[p].rx)
      BY <2>3 DEF BuildFails, KeepRotation
    <3>4. Fits(ui, ver, pc, cand)
      BY <3>2, Sentinels DEF UsersFit
    <3>5. Fits(ui', ver, pc, cand)
      BY <3>2, <3>3, <3>4, FitsCopy, Fields
    <3> QED BY <1>b, <3>1, <3>5, UsersKept DEF UsersFit, Refreshing
  <2>4. CASE Adopt(p)
    <3>1. pc[p] = "adopt" /\ cand' = cand /\ ver' = ver /\ disk' = disk
          /\ ui' = cand[p] /\ pc' = [pc EXCEPT ![p] = "stage"]
      BY <2>4 DEF Adopt, At
    <3> QED BY <1>b, <3>1, UsersKept DEF UsersFit, Refreshing
  <2>5. CASE Leave(p)
    <3>1. /\ ver' = ver /\ ui' = ui /\ disk' = disk
          /\ cand' = [cand EXCEPT ![p] = NoUser]
          /\ \E m \in {"ready", "idle"} : pc' = [pc EXCEPT ![p] = m]
      BY <2>5 DEF Leave, At
    <3> QED BY <1>b, <3>1, UsersSame DEF Refreshing
  <2>6. CASE \/ CheckFresh(p) \/ CheckRefuses(p) \/ SendRefresh(p)
             \/ RefreshRejected(p) \/ ReplyLost(p)
             \/ BeginPrepare(p) \/ EndPrepare(p)
    <3>1. ver' = ver /\ ui' = ui /\ disk' = disk /\ cand' = cand
      BY <2>6 DEF CheckFresh, CheckRefuses, SendRefresh, RefreshRejected,
         ReplyLost, BeginPrepare, EndPrepare
    <3>2. \E m \in {"ok", "error", "post", "idle", "using"} :
            pc' = [pc EXCEPT ![p] = m]
      BY <2>6 DEF CheckFresh, CheckRefuses, SendRefresh, RefreshRejected,
         ReplyLost, BeginPrepare, EndPrepare, Goto, At
    <3> QED BY <1>b, <3>1, <3>2, UsersSame DEF Refreshing
  <2> QED BY <1>2, <2>1, <2>2, <2>3, <2>4, <2>5, <2>6 DEF Work
<1>3. ASSUME NEW p \in Workers, NEW o \in {"prepare", "tick", "force"},
             Enter(p, o)
      PROVE UsersFit'
  <2>1. ver' = ver /\ ui' = ui /\ disk' = disk /\ cand' = cand
    BY <1>3 DEF Enter
  <2>2. \E m \in {"stage", "check"} : pc' = [pc EXCEPT ![p] = m]
    BY <1>3 DEF Enter, Acquire, EntryPoint, At
  <2> QED BY <1>b, <2>1, <2>2, UsersSame DEF Refreshing
<1>4. ASSUME NEW l \in Logins, Issued(l) PROVE UsersFit'
  BY <1>4, UsersAfterIssue
<1>5. ASSUME NEW l \in Logins, Login(l) PROVE UsersFit'
  <2>1. CASE BuildLogin(l)
    <3>1. pc[l] = "polled" /\ pc' = [pc EXCEPT ![l] = "lstage"]
          /\ cand' = [cand EXCEPT ![l] = WithFields(cand[l])]
          /\ ver' = ver /\ ui' = ui /\ disk' = disk
      BY <2>1 DEF BuildLogin, Acquire, At
    <3>2. cand[l] \in User /\ Fits(cand[l], ver, pc, cand)
      BY <1>b, <3>1 DEF TypeInv, CandidateHeld, UsersFit
    <3>3. Fits(WithFields(cand[l]), ver, pc, cand)
      BY <3>2, FitsCopy
    <3>4. WithFields(cand[l]).tok = cand[l].tok
          /\ WithFields(cand[l]).sess = cand[l].sess
      BY <3>2 DEF User, WithFields, Keyed
    <3>5. \A m \in Logins : pc'[m] # "idle" =>
            /\ pc[m] # "idle"
            /\ Fits(cand'[m], ver, pc, cand)
            /\ cand'[m].tok = cand[m].tok /\ cand'[m].sess = cand[m].sess
      BY <1>b, <3>1, <3>3, <3>4 DEF UsersFit
    <3>6. \A p \in Workers : pc'[p] \in Refreshing => Fits(cand'[p], ver, pc, cand)
      BY <1>b, <3>1 DEF UsersFit
    <3> QED BY <3>1, <3>5, <3>6, UsersKept DEF UsersFit
  <2>2. CASE CommitLogin(l)
    <3>1. pc[l] = "commit" /\ pc' = [pc EXCEPT ![l] = "retire"] /\ cand' = cand
          /\ ver' = ver /\ ui' = cand[l] /\ disk' = cand[l]
      BY <2>2 DEF CommitLogin, PublishLogin, Goto, At
    <3> QED BY <1>b, <3>1, UsersKept DEF UsersFit
  <2>3. CASE ApplyProfile(l)
    <3>1. pc[l] = "fetching" /\ cand' = cand /\ ver' = ver /\ disk' = disk
          /\ ui # NoUser /\ ui.tok = cand[l].tok
          /\ \E m \in {"stage", "swap"} : pc' = [pc EXCEPT ![l] = m]
      BY <2>3 DEF ApplyProfile, Superseded, At
    <3>2. ui \in User /\ Fits(ui, ver, pc, cand)
      BY <3>1 DEF TypeInv, Data, UsersFit
    <3>3. ui.sess = cand[l].sess
      BY <3>1, <3>2 DEF Fits
    <3>4. Enriched(ui, ui.sess) \in User
      BY <3>2, Users, Fields
    <3>5. Fits(Enriched(ui, ui.sess), ver, pc, cand)
      BY <3>2, FitsCopy
    <3>6. Fits(WithFields(Enriched(ui, ui.sess)), ver, pc, cand)
      BY <3>4, <3>5, FitsCopy
    <3>7. Fits(ui', ver, pc, cand)
      BY <2>3, <3>3, <3>5, <3>6 DEF ApplyProfile
    <3> QED BY <1>b, <3>1, <3>7, UsersKept DEF UsersFit
  <2>4. CASE LoginFails(l) \/ LeaveLogin(l) \/ AbandonProfile(l)
    <3>1. ver' = ver /\ ui' = ui /\ disk' = disk
      BY <2>4 DEF LoginFails, LeaveLogin, AbandonProfile
    <3>2. \/ pc' = [pc EXCEPT ![l] = "idle"] /\ cand' = [cand EXCEPT ![l] = NoUser]
          \/ pc' = [pc EXCEPT ![l] = "committed"] /\ cand' = cand /\ pc[l] = "ok"
      BY <2>4 DEF LoginFails, LeaveLogin, AbandonProfile, Goto, At
    <3> QED BY <1>b, <3>1, <3>2, UsersSame
  <2>5. CASE StageLogin(l) \/ RejectLogin(l) \/ RequestProfile(l)
    <3>1. ver' = ver /\ ui' = ui /\ disk' = disk /\ cand' = cand /\ pc[l] # "idle"
      BY <2>5 DEF StageLogin, RejectLogin, RequestProfile
    <3>2. \E m : pc' = [pc EXCEPT ![l] = m]
      BY <2>5 DEF StageLogin, RejectLogin, RequestProfile, Goto, At
    <3> QED BY <1>b, <3>1, <3>2, UsersSame
  <2> QED BY <1>5, <2>1, <2>2, <2>3, <2>4, <2>5 DEF Login
<1>6. CASE StartLogin \/ Load \/ Loaded \/ Close \/ Closing \/ CloseContext
  <2>1. /\ ver' = ver /\ disk' = disk /\ cand' = cand
        /\ \E m : pc' = [pc EXCEPT ![Main] = m]
    BY <1>6 DEF StartLogin, Load, Loaded, Close, Closing, CloseContext, Acquire,
       Goto, At
  <2>2. ui' # NoUser => Fits(ui', ver, pc, cand)
    <3>1. CASE Load
      <4>1. disk \in User /\ Fits(disk, ver, pc, cand)
        BY <3>1, FileLoaded, Sentinels DEF UsersFit
      <4>2. Fits(WithFields(disk), ver, pc, cand)
        BY <4>1, FitsCopy
      <4> QED BY <3>1, <4>1, <4>2 DEF Load
    <3>2. CASE ~Load
      BY <1>6, <3>2 DEF StartLogin, Loaded, Close, Closing, CloseContext, UsersFit
    <3> QED BY <3>1, <3>2
  <2> QED BY <1>b, <2>1, <2>2, UsersKept DEF UsersFit
<1>7. CASE Stop
  BY <1>b, <1>7, UsersSame DEF Stop, Refreshing
<1>8. CASE HoldoffElapses \/ UNCHANGED vars
  BY <1>8, UsersSame DEF HoldoffElapses, vars
<1> QED BY <1>1, <1>2, <1>3, <1>4, <1>5, <1>6, <1>7, <1>8 DEF Next

\* A step within the session in memory: it may build or publish a context for
\* that session, start or drop a refresh of it, and save it.
LEMMA SessionKept ==
  ASSUME TypeInv, SessionInv, UsersFit', NEW p \in Proc, NEW m,
         pc' = [pc EXCEPT ![p] = m], m # "down",
         \A q \in Proc : q # p => cand'[q] = cand[q] /\ next'[q] = next[q],
         ui' # NoUser <=> ui # NoUser, ui # NoUser => ui'.sess = ui.sess,
         disk' = disk \/ disk' = ui',
         \/ protoCtx' \in {protoCtx, NoCtx}
         \/ /\ ui # NoUser /\ protoCtx'.sess = ui.sess
            /\ pc[Main] # "down",
         \A c \in open' : c \in open \/ Owns(c),
         p \in Workers /\ m \in Refreshing =>
           \/ pc[p] \in Refreshing /\ cand'[p] = cand[p]
           \/ ui # NoUser /\ cand'[p].sess = ui.sess,
         m = "swap" => ui # NoUser /\ next'[p].sess = ui.sess,
         m \in {"lstage", "commit"} => next'[p].sess = cand'[p].sess
  PROVE  SessionInv'
<1>1. pc \in [Proc -> Point] /\ Main \in Proc /\ Workers \subseteq Proc
  BY DEF TypeInv, Control, Proc
<1>2. pc'[p] = m /\ \A q \in Proc : q # p => pc'[q] = pc[q]
  BY <1>1
<1> USE <1>1, <1>2 DEF SessionInv
<1>3. RefreshWithin'
  BY DEF RefreshWithin
<1>4. NextFits'
  BY DEF NextFits
<1>5. ContextsOwn'
  BY DEF ContextsOwn
<1>6. OneSession'
  BY DEF OneSession
<1>7. pc'[Main] = "down" => protoCtx' = NoCtx
  OBVIOUS
<1> QED BY <1>3, <1>4, <1>5, <1>6, <1>7

\* A context carries what the user it is built for carries.
LEMMA ContextOwn ==
  ASSUME NEW u, NEW i
  PROVE  /\ CtxFor(u, i).sess = u.sess
         /\ Owns(u) => Owns(CtxFor(u, i))
BY DEF CtxFor, Owns

\* Every step of a refresh and of the request it serves.
LEMMA WorkSession ==
  ASSUME TypeInv, SessionInv, UsersFit', NEW p \in Workers, Work(p)
  PROVE  SessionInv'
<1>1. /\ pc \in [Proc -> Point] /\ cand \in [Proc -> User \cup {NoUser}]
      /\ next \in [Proc -> Ctx \cup {NoCtx}]
      /\ Workers \subseteq Proc /\ Main \in Proc /\ p # Main
  BY Roles DEF TypeInv, Control, Locals, Proc
<1>2. CASE BuildRefreshed(p)
  <2>1. PICK k \in {cand[p].key, cand[p].prof}, i \in CtxId :
          /\ cand' = [cand EXCEPT ![p] = Keyed(cand[p], k)]
          /\ next' = [next EXCEPT ![p] = CtxFor(Keyed(cand[p], k), i)]
          /\ open' = open \cup {CtxFor(Keyed(cand[p], k), i)}
    BY <1>2 DEF BuildRefreshed
  <2>2. pc[p] = "reply" /\ pc' = [pc EXCEPT ![p] = "swap"]
        /\ ui' = ui /\ disk' = disk /\ protoCtx' = protoCtx
    BY <1>2 DEF BuildRefreshed, Goto, At, cred
  <2>3. cand[p] \in User /\ ui # NoUser /\ cand[p].sess = ui.sess
        /\ Fits(cand[p], ver, pc, cand)
    BY <1>1, <2>2 DEF TypeInv, CandidateHeld, SessionInv, RefreshWithin,
       UsersFit, Refreshing
  <2>4. Keyed(cand[p], k).sess = ui.sess /\ Owns(Keyed(cand[p], k))
    <3>1. Keyed(cand[p], k).sess = ui.sess
      BY <2>3 DEF User, Keyed
    <3>2. Fits(Keyed(cand[p], k), ver, pc, cand)
      BY <2>3, FitsCopy
    <3> QED BY <3>1, <3>2 DEF Fits
  <2>5. /\ next'[p].sess = ui.sess /\ cand'[p].sess = ui.sess
        /\ \A c \in open' : c \in open \/ Owns(c)
    BY <1>1, <2>1, <2>4, ContextOwn
  <2> QED BY <1>1, <2>1, <2>2, <2>3, <2>5, SessionKept
<1>3. CASE ServiceRefreshes(p)
  <2>1. PICK r, x : cand' = [cand EXCEPT ![p] = Refreshed(ui, ver + 1, r, x)]
    BY <1>3 DEF ServiceRefreshes
  <2>2. pc' = [pc EXCEPT ![p] = "reply"] /\ next' = next /\ open' = open
        /\ ui' = ui /\ disk' = disk /\ protoCtx' = protoCtx /\ pc[p] = "post"
    BY <1>3 DEF ServiceRefreshes, Goto, At, cred, ctxs
  <2>3. ui \in User /\ ui # NoUser
    BY <2>2 DEF TypeInv, CandidateHeld, Data
  <2>4. cand'[p].sess = ui.sess
    BY <1>1, <2>1, <2>3 DEF User, Refreshed
  <2> QED BY <1>1, <2>1, <2>2, <2>3, <2>4, SessionKept
<1>4. CASE BuildFails(p)
  <2>1. /\ pc[p] = "reply" /\ cand' = cand /\ next' = next /\ open' = open
        /\ disk' = disk /\ protoCtx' = protoCtx
        /\ \E m \in {"error", "stage"} : pc' = [pc EXCEPT ![p] = m]
    BY <1>4 DEF BuildFails, KeepRotation, Goto, At, ctxs, local
  <2>2. ui \in User /\ ui # NoUser
    BY <2>1 DEF TypeInv, CandidateHeld, Data
  <2>3. ui' # NoUser /\ ui'.sess = ui.sess
    <3>1. ui' \in User
      BY <1>4, RefreshDropped
    <3>2. ui' = ui \/ ui' = Rotated(ui, cand[p].rt, cand[p].rx)
      BY <1>4 DEF BuildFails, KeepRotation, cred
    <3> QED BY <2>2, <3>1, <3>2, Sentinels DEF User, Rotated
  <2> QED BY <1>1, <2>1, <2>2, <2>3, SessionKept DEF Refreshing
<1>5. CASE Adopt(p)
  <2>1. /\ pc[p] = "adopt" /\ cand' = cand /\ next' = next /\ open' = open
        /\ disk' = disk /\ protoCtx' = protoCtx /\ ui' = cand[p]
        /\ pc' = [pc EXCEPT ![p] = "stage"]
    BY <1>5 DEF Adopt, At, ctxs, local
  <2>2. ui # NoUser /\ cand[p] # NoUser /\ cand[p].sess = ui.sess
    BY <2>1 DEF TypeInv, CandidateHeld, SessionInv, RefreshWithin, Refreshing
  <2> QED BY <1>1, <2>1, <2>2, SessionKept DEF Refreshing
<1>6. CASE \/ CheckFresh(p) \/ CheckRefuses(p) \/ SendRefresh(p)
           \/ RefreshRejected(p) \/ ReplyLost(p) \/ Leave(p)
           \/ BeginPrepare(p) \/ EndPrepare(p)
  <2>1. /\ next' = next /\ open' = open /\ ui' = ui /\ disk' = disk
        /\ protoCtx' = protoCtx /\ \A q \in Proc : q # p => cand'[q] = cand[q]
    BY <1>1, <1>6 DEF CheckFresh, CheckRefuses, SendRefresh, RefreshRejected,
       ReplyLost, Leave, BeginPrepare, EndPrepare, cred, ctxs, local
  <2>2. \E m \in {"ok", "error", "post", "ready", "idle", "using"} :
          pc' = [pc EXCEPT ![p] = m]
    BY <1>6 DEF CheckFresh, CheckRefuses, SendRefresh, RefreshRejected,
       ReplyLost, Leave, BeginPrepare, EndPrepare, Goto, At
  <2> QED BY <1>1, <2>1, <2>2, SessionKept DEF Refreshing
<1> QED BY <1>2, <1>3, <1>4, <1>5, <1>6 DEF Work

\* The save of a credential and the exchange of a context.
LEMMA PublishSession ==
  ASSUME TypeInv, SessionInv, UsersFit', NEW p \in Proc,
         Save(p) \/ Swap(p) \/ Retire(p)
  PROVE  SessionInv'
<1>1. /\ pc[p] \in Critical /\ pc[Main] # "down"
      /\ next \in [Proc -> Ctx \cup {NoCtx}]
  BY DEF Save, StageOk, SaveFails, PublishOk, Swap, Retire, TypeInv, MuOwner,
     DownIdle, Critical, Proc, Locals
<1>2. CASE Save(p)
  <2>1. then[p] \in Then
    BY DEF TypeInv, Control
  <2>2. /\ ui' = ui /\ disk' \in {disk, ui} /\ cand' = cand /\ next' = next
        /\ protoCtx' = protoCtx /\ open' = open
        /\ \E m \in Then \cup {"publish"} : pc' = [pc EXCEPT ![p] = m]
    BY <1>2, <2>1 DEF Save, StageOk, SaveFails, PublishOk, Goto, At, ctxs, local
  <2> QED BY <2>2, SessionKept DEF Then, Refreshing
<1>3. CASE Swap(p)
  <2>1. /\ pc[p] = "swap" /\ pc' = [pc EXCEPT ![p] = "retire"]
        /\ ui' = ui /\ disk' = disk /\ cand' = cand /\ open' = open
        /\ next' = [next EXCEPT ![p] = NoCtx] /\ protoCtx' = next[p]
    BY <1>3 DEF Swap, Goto, At, cred
  <2>2. ui # NoUser /\ protoCtx'.sess = ui.sess
    BY <2>1 DEF SessionInv, NextFits
  <2>3. p \in Workers => pc[p] \in Refreshing
    BY <2>1 DEF Refreshing
  <2>4. \A q \in Proc : q # p => next'[q] = next[q]
    BY <1>1, <2>1
  <2> QED BY <1>1, <2>1, <2>2, <2>3, <2>4, SessionKept
<1>4. CASE Retire(p)
  <2>1. /\ pc[p] = "retire" /\ ui' = ui /\ disk' = disk /\ cand' = cand
        /\ next' = next /\ protoCtx' = protoCtx /\ open' \subseteq open
    BY <1>4 DEF Retire, cred
  <2>2. PICK m \in {"adopt", "stage", "ok"} : pc' = [pc EXCEPT ![p] = m]
    BY <1>4 DEF Retire, Goto, At
  <2>3. p \in Workers => pc[p] \in Refreshing
    BY <2>1 DEF Refreshing
  <2> QED BY <2>1, <2>2, <2>3, SessionKept
<1> QED BY <1>2, <1>3, <1>4

\* A committed login replaces file, context and user in one step, while no
\* refresh and no other operation is under way.
LEMMA CommitSession ==
  ASSUME TypeInv, SessionInv, UsersFit', NEW l \in Logins, CommitLogin(l)
  PROVE  SessionInv'
<1>1. /\ pc \in [Proc -> Point] /\ next \in [Proc -> Ctx \cup {NoCtx}]
      /\ l \in Proc /\ l \notin Workers /\ l # Main /\ Main \in Proc
      /\ Workers \subseteq Proc
  BY Roles DEF TypeInv, Control, Locals, Proc
<1>2. /\ pc[l] = "commit" /\ pc' = [pc EXCEPT ![l] = "retire"]
      /\ ui' = cand[l] /\ disk' = cand[l] /\ cand' = cand /\ open' = open
      /\ next' = [next EXCEPT ![l] = NoCtx] /\ protoCtx' = next[l]
  BY DEF CommitLogin, PublishLogin, Goto, At
<1>3. \A p \in Proc : p # l => pc[p] \notin Critical
  BY <1>1, <1>2, OneOwner DEF Critical
<1>4. pc[Main] # "down" /\ cand[l] # NoUser
  BY <1>1, <1>2 DEF TypeInv, DownIdle, CandidateHeld
<1>5. \A p \in Proc : pc'[p] \notin Refreshing \ {"retire"}
                      /\ pc'[p] \notin {"swap", "lstage", "commit"}
  BY <1>1, <1>2, <1>3 DEF Refreshing, Critical
<1>6. \A p \in Workers : pc'[p] \notin Refreshing
  BY <1>1, <1>2, <1>3 DEF Refreshing, Critical
<1>7. next[l].sess = cand[l].sess
  BY <1>1, <1>2 DEF SessionInv, NextFits
<1>8. RefreshWithin' /\ NextFits' /\ ContextsOwn'
  BY <1>2, <1>5, <1>6 DEF RefreshWithin, NextFits, SessionInv, ContextsOwn
<1>9. OneSession'
  BY <1>2, <1>4, <1>7 DEF OneSession
<1>10. pc'[Main] # "down"
  BY <1>1, <1>2, <1>4
<1> QED BY <1>8, <1>9, <1>10 DEF SessionInv

\* The other steps of a login, the enrichment included.
LEMMA LoginSession ==
  ASSUME TypeInv, SessionInv, UsersFit', NEW l \in Logins,
         Issued(l) \/ Login(l)
  PROVE  SessionInv'
<1>1. /\ pc \in [Proc -> Point] /\ cand \in [Proc -> User \cup {NoUser}]
      /\ next \in [Proc -> Ctx \cup {NoCtx}]
      /\ l \in Proc /\ l \notin Workers /\ l # Main /\ Main \in Proc
  BY Roles DEF TypeInv, Control, Locals, Proc
<1>2. CASE CommitLogin(l)
  BY <1>2, CommitSession
<1>3. CASE BuildLogin(l)
  <2>1. PICK i \in CtxId :
          /\ cand' = [cand EXCEPT ![l] = WithFields(cand[l])]
          /\ next' = [next EXCEPT ![l] = CtxFor(WithFields(cand[l]), i)]
          /\ open' = open \cup {CtxFor(WithFields(cand[l]), i)}
    BY <1>3 DEF BuildLogin
  <2>2. pc[l] = "polled" /\ pc' = [pc EXCEPT ![l] = "lstage"]
        /\ ui' = ui /\ disk' = disk /\ protoCtx' = protoCtx
    BY <1>3 DEF BuildLogin, Acquire, At, cred
  <2>3. cand[l] \in User /\ Fits(cand[l], ver, pc, cand)
    BY <1>1, <2>2 DEF TypeInv, CandidateHeld, SessionInv, UsersFit
  <2>4. Owns(WithFields(cand[l]))
    <3>1. Fits(WithFields(cand[l]), ver, pc, cand)
      BY <2>3, FitsCopy
    <3> QED BY <3>1 DEF Fits
  <2>5. next'[l].sess = cand'[l].sess
    BY <1>1, <2>1, ContextOwn
  <2>6. \A c \in open' : c \in open \/ Owns(c)
    BY <2>1, <2>4, ContextOwn
  <2>7. \A q \in Proc : q # l => cand'[q] = cand[q] /\ next'[q] = next[q]
    BY <1>1, <2>1
  <2> QED BY <1>1, <2>2, <2>5, <2>6, <2>7, SessionKept
<1>4. CASE ApplyProfile(l)
  <2>1. /\ pc[l] = "fetching" /\ cand' = cand /\ disk' = disk /\ protoCtx' = protoCtx
        /\ ui # NoUser /\ ui.tok = cand[l].tok
    BY <1>4 DEF ApplyProfile, Superseded
  <2>2. ui \in User /\ ui' \in User
    BY <1>4, ProfileApplied
  <2>3. ui'.sess = ui.sess /\ ui' # NoUser
    <3>1. Enriched(ui, cand[l].sess).sess = ui.sess
      BY <2>2 DEF User, Enriched
    <3>2. WithFields(Enriched(ui, cand[l].sess)).sess = ui.sess
      BY <2>2 DEF User, Enriched, WithFields, Keyed
    <3> QED BY <1>4, <2>2, <3>1, <3>2, Sentinels DEF ApplyProfile
  <2>4. Owns(ui')
    BY <2>3 DEF UsersFit, Fits
  <2>5. \/ pc' = [pc EXCEPT ![l] = "stage"] /\ next' = next /\ open' = open
        \/ /\ pc' = [pc EXCEPT ![l] = "swap"]
           /\ \E i \in CtxId : /\ next' = [next EXCEPT ![l] = CtxFor(ui', i)]
                               /\ open' = open \cup {CtxFor(ui', i)}
    BY <1>4 DEF ApplyProfile, At
  <2>6. CASE pc' = [pc EXCEPT ![l] = "stage"] /\ next' = next /\ open' = open
    BY <1>1, <2>1, <2>3, <2>6, SessionKept
  <2>7. CASE /\ pc' = [pc EXCEPT ![l] = "swap"]
             /\ \E i \in CtxId : /\ next' = [next EXCEPT ![l] = CtxFor(ui', i)]
                                 /\ open' = open \cup {CtxFor(ui', i)}
    <3>1. /\ next'[l].sess = ui.sess
          /\ \A c \in open' : c \in open \/ Owns(c)
          /\ \A q \in Proc : q # l => next'[q] = next[q]
      BY <1>1, <2>3, <2>4, <2>7, ContextOwn
    <3> QED BY <1>1, <2>1, <2>3, <2>7, <3>1, SessionKept
  <2> QED BY <2>5, <2>6, <2>7
<1>5. CASE StageLogin(l)
  <2>1. /\ pc[l] = "lstage" /\ cand' = cand /\ next' = next /\ ui' = ui
        /\ disk' = disk /\ protoCtx' = protoCtx /\ open' = open
        /\ pc' = [pc EXCEPT ![l] = "commit"]
    BY <1>5 DEF StageLogin, Goto, At, cred, ctxs, local
  <2>2. next[l].sess = cand[l].sess
    BY <1>1, <2>1 DEF SessionInv, NextFits
  <2> QED BY <1>1, <2>1, <2>2, SessionKept
<1>6. CASE \/ Issued(l) \/ LoginFails(l) \/ RejectLogin(l)
           \/ LeaveLogin(l) \/ RequestProfile(l) \/ AbandonProfile(l)
  <2>1. /\ ui' = ui /\ disk' = disk /\ protoCtx' = protoCtx
        /\ open' \subseteq open
        /\ \A q \in Proc : q # l => cand'[q] = cand[q] /\ next'[q] = next[q]
    BY <1>1, <1>6 DEF Issued, LoginFails, RejectLogin, CloseRejected, LeaveLogin,
       RequestProfile, AbandonProfile, cred, ctxs, local
  <2>2. \E m \in {"polled", "idle", "error", "committed", "fetching"} :
          pc' = [pc EXCEPT ![l] = m]
    BY <1>6 DEF Issued, LoginFails, RejectLogin, LeaveLogin, RequestProfile,
       AbandonProfile, Goto, At
  <2> QED BY <1>1, <2>1, <2>2, SessionKept
<1> QED BY <1>2, <1>3, <1>4, <1>5, <1>6 DEF Login

\* A start finds no goroutine and no context, and takes the session of the file.
LEMMA LoadSession ==
  ASSUME TypeInv, SessionInv, UsersFit', Load PROVE SessionInv'
<1>1. /\ pc \in [Proc -> Point] /\ next \in [Proc -> Ctx \cup {NoCtx}]
      /\ Main \in Proc /\ Main \notin Workers /\ Main \notin Logins
      /\ Proc = Workers \cup Logins \cup {Main}
  BY Roles DEF TypeInv, Control, Locals, Proc
<1>2. pc[Main] = "down" /\ disk' = disk /\ protoCtx' = protoCtx /\ cand' = cand
  BY DEF Load
<1>3. protoCtx = NoCtx /\ \A p \in Workers \cup Logins : pc[p] = "idle"
  BY <1>2 DEF SessionInv, TypeInv, DownIdle
<1>4. disk \in User /\ ui' \in User
  BY FileLoaded
<1>5. ui' # NoUser /\ ui'.sess = disk.sess /\ disk # NoUser
  <2>1. WithFields(disk).sess = disk.sess
    BY <1>4 DEF User, WithFields, Keyed
  <2> QED BY <1>4, <2>1, Sentinels DEF Load
<1>6. Owns(ui')
  BY <1>5 DEF UsersFit, Fits
<1>7. \/ pc' = [pc EXCEPT ![Main] = "error"] /\ next' = next /\ open' = open
      \/ /\ pc' = [pc EXCEPT ![Main] = "swap"]
         /\ \E i \in CtxId : /\ next' = [next EXCEPT ![Main] = CtxFor(ui', i)]
                             /\ open' = open \cup {CtxFor(ui', i)}
  BY DEF Load, At
<1>8. \A p \in Workers \cup Logins : pc'[p] = "idle"
  BY <1>1, <1>3, <1>7
<1>9. pc'[Main] \in {"error", "swap"}
      /\ (pc'[Main] = "swap" => next'[Main].sess = ui'.sess)
  BY <1>1, <1>7, ContextOwn
<1>10. \A c \in open' : Owns(c)
  BY <1>6, <1>7, ContextOwn DEF SessionInv, ContextsOwn
<1>11. RefreshWithin' /\ NextFits'
  BY <1>1, <1>5, <1>8, <1>9 DEF RefreshWithin, NextFits, Refreshing
<1>12. ContextsOwn' /\ OneSession'
  BY <1>2, <1>3, <1>5, <1>10 DEF ContextsOwn, OneSession
<1> QED BY <1>9, <1>11, <1>12 DEF SessionInv

\* Every step preserves the invariant.
LEMMA SessionStep ==
  ASSUME TypeInv, SessionInv, [Next]_vars PROVE SessionInv'
<1>1. UsersFit'
  BY UsersFitStep DEF SessionInv
<1>2. /\ Main \in Proc /\ Main \notin Workers /\ Main \notin Logins
      /\ Workers \subseteq Proc /\ pc \in [Proc -> Point]
  BY Roles DEF Proc, TypeInv, Control
<1>3. ASSUME NEW p \in Proc, Save(p) \/ Swap(p) \/ Retire(p) PROVE SessionInv'
  BY <1>1, <1>3, PublishSession
<1>4. ASSUME NEW p \in Workers, Work(p) PROVE SessionInv'
  BY <1>1, <1>4, WorkSession
<1>5. ASSUME NEW p \in Workers, NEW o \in {"prepare", "tick", "force"},
             Enter(p, o)
      PROVE SessionInv'
  <2>1. /\ ui' = ui /\ disk' = disk /\ protoCtx' = protoCtx /\ open' = open
        /\ cand' = cand /\ next' = next
        /\ \E m \in {"stage", "check"} : pc' = [pc EXCEPT ![p] = m]
    BY <1>5 DEF Enter, Acquire, EntryPoint, At, cred, ctxs, local
  <2> QED BY <1>1, <1>2, <2>1, SessionKept DEF Refreshing
<1>6. ASSUME NEW l \in Logins, Issued(l) \/ Login(l) PROVE SessionInv'
  BY <1>1, <1>6, LoginSession
<1>7. CASE Load
  BY <1>1, <1>7, LoadSession
<1>8. CASE StartLogin \/ Loaded \/ Close \/ Closing \/ CloseContext
  <2>1. /\ ui' = ui /\ disk' = disk /\ protoCtx' \in {protoCtx, NoCtx}
        /\ open' \subseteq open /\ cand' = cand /\ next' = next
    BY <1>8 DEF StartLogin, Loaded, Close, Closing, CloseContext, cred, ctxs, local
  <2>2. \E m \in {"serving", "failed", "stage", "closing", "drain", "closed"} :
          pc' = [pc EXCEPT ![Main] = m]
    BY <1>8 DEF StartLogin, Loaded, Close, Closing, CloseContext, Acquire, Goto, At
  <2> QED BY <1>1, <1>2, <2>1, <2>2, SessionKept
<1>9. CASE Stop
  <2>1. /\ ui' = NoUser /\ protoCtx' = NoCtx /\ open' = {}
        /\ \A p \in Proc : pc'[p] \in {"idle", "down"}
    BY <1>9 DEF Stop
  <2>2. RefreshWithin' /\ NextFits' /\ ContextsOwn' /\ OneSession'
    BY <1>2, <2>1 DEF RefreshWithin, NextFits, ContextsOwn, OneSession, Refreshing
  <2> QED BY <1>1, <2>1, <2>2 DEF SessionInv
<1>10. CASE HoldoffElapses \/ UNCHANGED vars
  BY <1>1, <1>10 DEF HoldoffElapses, vars, cred, ctxs, local, service, SessionInv,
     RefreshWithin, NextFits, ContextsOwn, OneSession
<1> QED BY <1>3, <1>4, <1>5, <1>6, <1>7, <1>8, <1>9, <1>10 DEF Next

LEMMA AlwaysSessionInv == Spec => []SessionInv
<1>1. Init => SessionInv
  <2> SUFFICES ASSUME Init PROVE SessionInv
    OBVIOUS
  <2>1. /\ ver = 1 /\ ui = NoUser /\ protoCtx = NoCtx /\ open = {}
        /\ \A p \in Proc : pc[p] \in {"idle", "down"}
        /\ \A l \in Logins : pc[l] = "idle"
    BY Roles DEF Init, Proc
  <2>2. disk # NoUser => disk.tok = 1 /\ Owns(disk)
    BY Sentinels DEF Init, InitialUsers, Owns, Bare
  <2>3. UsersFit
    BY <2>1, <2>2 DEF UsersFit, Fits, Refreshing, Proc
  <2>4. RefreshWithin /\ NextFits /\ ContextsOwn /\ OneSession
    BY <2>1 DEF RefreshWithin, NextFits, ContextsOwn, OneSession, Refreshing, Proc
  <2> QED BY <2>1, <2>3, <2>4 DEF SessionInv
<1>2. TypeInv /\ SessionInv /\ [Next]_vars => SessionInv'
  BY SessionStep
<1> QED BY <1>1, <1>2, AlwaysTypeInv, PTL DEF Spec

\* Memory, disk and protocol context belong to one login session at any time,
\* for any number of logins: no request is signed for an account other than the
\* committed one.
THEOREM SessionsDoNotMix == Spec => []OneSession
<1>1. SessionInv => OneSession
  BY DEF SessionInv
<1> QED BY <1>1, AlwaysSessionInv, PTL

\* A profile, and the runtime fields generated from it, are never attached to a
\* session other than the one they were fetched for, however many logins commit
\* while the request for the profile is in flight.
THEOREM ProfilesBelong == Spec => []ProfileOwn
<1>1. SessionInv => ProfileOwn
  BY DEF SessionInv, UsersFit, Fits, ContextsOwn, ProfileOwn
<1> QED BY <1>1, AlwaysSessionInv, PTL

----------------------------------------------------------------------------
(* The refresh token.                                                      *)

\* A login that has an answer of the service and has not installed it.
Pending == {"polled", "lstage", "commit"}

\* No pending login has been issued the refresh token of u.
Apart(u, v, P, C) ==
  /\ u.rt <= v
  /\ \A l \in Logins : P[l] \in Pending /\ u.rt = C[l].rt => u.rt = 0

\* A refresh token the manager may spend is not the one of a pending login.
TokensApart ==
  /\ ui # NoUser => Apart(ui, ver, pc, cand)
  /\ disk # NoUser => disk.rt <= ver
  /\ \A p \in Workers : pc[p] \in Refreshing => Apart(cand[p], ver, pc, cand)
  /\ \A l \in Logins : pc[l] \in Pending =>
       /\ cand[l].rt <= ver
       /\ \A m \in Logins : m # l /\ pc[m] \in Pending /\ cand[l].rt = cand[m].rt
                              => cand[l].rt = 0

\* Usable, for the set V of tokens the service accepts.
Accepted(u, V) == u = NoUser \/ u.rt = 0 \/ u.rt \in V

\* The service accepts the token that will be installed, and unless something
\* was lost the one that is: the candidate's while a refresh is adopted.
NewestUsable ==
  /\ \A l \in Logins : pc[l] \in Pending => Accepted(cand[l], valid)
  /\ ~lost =>
       /\ \A p \in Workers : pc[p] \in Refreshing => Accepted(cand[p], valid)
       /\ (\A p \in Workers : pc[p] \notin Refreshing) =>
            Accepted(IF ui = NoUser THEN disk ELSE ui, valid)

\* A refresh spends a token that exists; nothing is in memory before a start.
SpendsToken == /\ \A p \in Workers : pc[p] = "post" => ui.rt # 0
               /\ pc[Main] = "down" => ui = NoUser

\* The strengthening of TokenUsable.
TokenInv == TokensApart /\ NewestUsable /\ SpendsToken

\* A step that issues nothing and installs only tokens kept apart.
LEMMA ApartKept ==
  ASSUME TokensApart, ver' = ver,
         ui' # NoUser => Apart(ui', ver, pc, cand),
         disk' # NoUser => disk'.rt <= ver,
         \A p \in Workers : pc'[p] \in Refreshing => Apart(cand'[p], ver, pc, cand),
         \A l \in Logins : pc'[l] \in Pending =>
           pc[l] \in Pending /\ cand'[l].rt = cand[l].rt
  PROVE  TokensApart'
<1>1. ASSUME NEW u, Apart(u, ver, pc, cand) PROVE Apart(u, ver', pc', cand')
  BY <1>1 DEF Apart
<1>2. ui' # NoUser => Apart(ui', ver', pc', cand')
  BY <1>1
<1>3. \A p \in Workers : pc'[p] \in Refreshing => Apart(cand'[p], ver', pc', cand')
  BY <1>1
<1> QED BY <1>2, <1>3 DEF TokensApart

\* In particular one that installs nothing.
LEMMA ApartSame ==
  ASSUME TypeInv, TokensApart, ver' = ver, ui' \in {ui, NoUser}, disk' \in {disk, ui},
         \A p \in Workers : pc'[p] \in Refreshing =>
           pc[p] \in Refreshing /\ cand'[p] = cand[p],
         \A l \in Logins : pc'[l] \in Pending =>
           pc[l] \in Pending /\ cand'[l].rt = cand[l].rt
  PROVE  TokensApart'
<1>1. disk' # NoUser => disk'.rt <= ver
  BY DEF TokensApart, Apart
<1>2. ui' # NoUser => Apart(ui', ver, pc, cand)
  BY DEF TokensApart
<1>3. \A p \in Workers : pc'[p] \in Refreshing => Apart(cand'[p], ver, pc, cand)
  BY DEF TokensApart
<1> QED BY <1>1, <1>2, <1>3, ApartKept

LEMMA ApartAfterRefresh ==
  ASSUME TypeInv, TokensApart, NEW p \in Workers, ServiceRefreshes(p)
  PROVE  TokensApart'
<1>1. ui \in User /\ ui # NoUser /\ ver \in Nat /\ ver' = ver + 1
  BY DEF TypeInv, Data, CandidateHeld, ServiceRefreshes
<1>2. PICK r \in {ui.rt, ver + 1}, x \in {ui.rx, ver + 1} :
        cand' = [cand EXCEPT ![p] = Refreshed(ui, ver + 1, r, x)]
  BY DEF ServiceRefreshes
<1>3. /\ p \in Proc /\ p \notin Logins /\ cand \in [Proc -> User \cup {NoUser}]
      /\ pc' = [pc EXCEPT ![p] = "reply"] /\ pc[p] = "post"
      /\ pc \in [Proc -> Point] /\ Logins \subseteq Proc /\ Workers \subseteq Proc
      /\ ui' = ui /\ disk' = disk
  BY Roles DEF Proc, TypeInv, Control, Locals, ServiceRefreshes, Goto, At, cred
<1>4. cand'[p].rt = r
  BY <1>1, <1>2, <1>3 DEF User, Refreshed
<1>5. \A l \in Logins : pc'[l] = pc[l] /\ cand'[l] = cand[l]
  BY <1>2, <1>3
<1>6. \A l \in Logins : pc[l] \in Pending => cand[l].rt <= ver /\ cand[l].rt \in Nat
  <2>1. \A l \in Logins : pc[l] \in Pending => cand[l] \in User
    BY <1>3 DEF TypeInv, CandidateHeld, Pending
  <2> QED BY <2>1, Fields DEF TokensApart
<1>7. ASSUME NEW u \in User, Apart(u, ver, pc, cand) PROVE Apart(u, ver', pc', cand')
  BY <1>1, <1>5, <1>7, Fields DEF Apart
<1>8. Apart(ui, ver, pc, cand)
  BY <1>1 DEF TokensApart
<1>9. Apart(cand'[p], ver', pc', cand')
  <2>1. r \in Nat /\ r <= ver + 1
    BY <1>1, <1>8, Fields DEF Apart
  <2>2. CASE r = ver + 1
    BY <1>1, <1>4, <1>5, <1>6, <2>2 DEF Apart
  <2>3. CASE r = ui.rt
    BY <1>1, <1>4, <1>5, <1>8, <2>1, <2>3 DEF Apart
  <2> QED BY <2>2, <2>3
<1>10. \A q \in Workers : pc'[q] \in Refreshing /\ q # p =>
         pc[q] \in Refreshing /\ cand'[q] = cand[q] /\ cand[q] \in User
  BY <1>2, <1>3 DEF TypeInv, CandidateHeld
<1>11. \A q \in Workers : pc'[q] \in Refreshing => Apart(cand'[q], ver', pc', cand')
  BY <1>7, <1>9, <1>10 DEF TokensApart
<1>12. disk' # NoUser => disk'.rt <= ver'
  <2>1. disk # NoUser => disk \in User
    BY DEF TypeInv, Data
  <2> QED BY <1>1, <1>3, <2>1, Fields DEF TokensApart
<1>13. \A l \in Logins : pc'[l] \in Pending =>
         /\ cand'[l].rt <= ver'
         /\ \A m \in Logins : m # l /\ pc'[m] \in Pending /\ cand'[l].rt = cand'[m].rt
                                => cand'[l].rt = 0
  BY <1>1, <1>5, <1>6 DEF TokensApart
<1>14. ui' # NoUser => Apart(ui', ver', pc', cand')
  BY <1>1, <1>3, <1>7, <1>8
<1> QED BY <1>11, <1>12, <1>13, <1>14 DEF TokensApart

LEMMA ApartAfterIssue ==
  ASSUME TypeInv, TokensApart, NEW l \in Logins, Issued(l)
  PROVE  TokensApart'
<1>1. ver \in Nat /\ ver' = ver + 1
  BY DEF TypeInv, Data, Issued
<1>2. PICK r \in {0, ver + 1}, x \in {0, ver + 1}, f \in {Bare, ver + 1} :
        cand' = [cand EXCEPT ![l] =
                   [sess |-> ver + 1, tok |-> ver + 1, rt |-> r, rx |-> x,
                    prof |-> f, key |-> NoKey]]
  BY DEF Issued
<1>3. /\ l \in Proc /\ l \notin Workers /\ cand \in [Proc -> User \cup {NoUser}]
      /\ pc' = [pc EXCEPT ![l] = "polled"]
      /\ pc \in [Proc -> Point] /\ Logins \subseteq Proc /\ Workers \subseteq Proc
      /\ ui' = ui /\ disk' = disk
  BY Roles DEF Proc, TypeInv, Control, Locals, Issued, Goto, At, cred
<1>4. cand'[l].rt = r
  BY <1>2, <1>3
<1>5. \A m \in Proc : m # l => pc'[m] = pc[m] /\ cand'[m] = cand[m]
  BY <1>2, <1>3
<1>6. \A m \in Logins : pc[m] \in Pending => cand[m].rt <= ver /\ cand[m].rt \in Nat
  <2>1. \A m \in Logins : pc[m] \in Pending => cand[m] \in User
    BY <1>3 DEF TypeInv, CandidateHeld, Pending
  <2> QED BY <2>1, Fields DEF TokensApart
<1>7. ASSUME NEW u \in User, Apart(u, ver, pc, cand) PROVE Apart(u, ver', pc', cand')
  <2>1. u.rt \in Nat /\ u.rt <= ver
    BY <1>7, Fields DEF Apart
  <2>2. ASSUME NEW m \in Logins, pc'[m] \in Pending, u.rt = cand'[m].rt
        PROVE  u.rt = 0
    <3>1. CASE m = l
      BY <1>1, <1>4, <2>1, <2>2, <3>1
    <3>2. CASE m # l
      BY <1>3, <1>5, <1>7, <2>2, <3>2 DEF Apart
    <3> QED BY <3>1, <3>2
  <2> QED BY <1>1, <2>1, <2>2 DEF Apart
<1>8. (ui # NoUser => ui \in User) /\ (disk # NoUser => disk \in User)
  BY DEF TypeInv, Data
<1>9. ui' # NoUser => Apart(ui', ver', pc', cand')
  BY <1>3, <1>7, <1>8 DEF TokensApart
<1>10. disk' # NoUser => disk'.rt <= ver'
  BY <1>1, <1>3, <1>8, Fields DEF TokensApart
<1>11. \A q \in Workers : pc'[q] \in Refreshing =>
         pc[q] \in Refreshing /\ cand'[q] = cand[q] /\ cand[q] \in User
  BY <1>3, <1>5 DEF TypeInv, CandidateHeld
<1>12. \A q \in Workers : pc'[q] \in Refreshing => Apart(cand'[q], ver', pc', cand')
  BY <1>7, <1>11 DEF TokensApart
<1>13. ASSUME NEW a \in Logins, pc'[a] \in Pending
       PROVE  /\ cand'[a].rt <= ver'
              /\ \A m \in Logins :
                   m # a /\ pc'[m] \in Pending /\ cand'[a].rt = cand'[m].rt
                     => cand'[a].rt = 0
  <2>1. CASE a = l
    BY <1>1, <1>3, <1>4, <1>5, <1>6, <2>1
  <2>2. CASE a # l
    <3>1. pc[a] \in Pending /\ cand'[a] = cand[a]
          /\ cand[a].rt <= ver /\ cand[a].rt \in Nat
      BY <1>3, <1>5, <1>6, <1>13, <2>2
    <3>2. ASSUME NEW m \in Logins, m # a, pc'[m] \in Pending,
                 cand'[a].rt = cand'[m].rt
          PROVE  cand'[a].rt = 0
      <4>1. CASE m = l
        BY <1>1, <1>4, <3>1, <3>2, <4>1
      <4>2. CASE m # l
        BY <1>3, <1>5, <3>1, <3>2, <4>2 DEF TokensApart
      <4> QED BY <4>1, <4>2
    <3> QED BY <1>1, <3>1, <3>2
  <2> QED BY <2>1, <2>2
<1> QED BY <1>9, <1>10, <1>12, <1>13 DEF TokensApart

\* Every step keeps the tokens apart.
LEMMA ApartStep ==
  ASSUME TypeInv, TokensApart, [Next]_vars PROVE TokensApart'
<1> USE Roles DEF service, cred, ctxs, local, history
<1>b. /\ pc \in [Proc -> Point] /\ cand \in [Proc -> User \cup {NoUser}]
      /\ Workers \subseteq Proc /\ Logins \subseteq Proc /\ Main \in Proc
      /\ Main \notin Workers /\ Main \notin Logins
      /\ \A p \in Workers : p \notin Logins
  BY DEF TypeInv, Control, Locals, Proc
<1>1. ASSUME NEW p \in Proc, Save(p) \/ Swap(p) \/ Retire(p) PROVE TokensApart'
  <2>1. /\ ver' = ver /\ ui' = ui /\ disk' \in {disk, ui} /\ cand' = cand
        /\ pc[p] \in {"stage", "publish", "swap", "retire"}
    BY <1>1 DEF Save, StageOk, SaveFails, PublishOk, Swap, Retire
  <2>2. PICK m \in Point : /\ pc' = [pc EXCEPT ![p] = m]
                           /\ m \in Refreshing => pc[p] \in Refreshing
                           /\ m \notin Pending
    <3>1. then[p] \in Then
      BY DEF TypeInv, Control
    <3> QED BY <1>1, <3>1 DEF Save, StageOk, SaveFails, PublishOk, Swap, Retire,
            Goto, At, Refreshing, Then, Pending, Point, Critical
  <2> QED BY <1>b, <2>1, <2>2, ApartSame
<1>2. ASSUME NEW p \in Workers, Work(p) PROVE TokensApart'
  <2>1. CASE ServiceRefreshes(p)
    BY <2>1, ApartAfterRefresh
  <2>2. CASE BuildRefreshed(p)
    <3>1. PICK k \in {cand[p].key, cand[p].prof} :
            cand' = [cand EXCEPT ![p] = Keyed(cand[p], k)]
      BY <2>2 DEF BuildRefreshed
    <3>2. pc[p] = "reply" /\ pc' = [pc EXCEPT ![p] = "swap"]
          /\ ver' = ver /\ ui' = ui /\ disk' = disk
      BY <2>2 DEF BuildRefreshed, Goto, At
    <3>3. cand[p] \in User
      BY <1>b, <3>2 DEF TypeInv, CandidateHeld, Refreshing
    <3>4. Keyed(cand[p], k).rt = cand[p].rt
      BY <3>3 DEF User, Keyed
    <3>5. Apart(Keyed(cand[p], k), ver, pc, cand)
      BY <3>2, <3>4 DEF TokensApart, Apart, Refreshing
    <3>6. \A q \in Workers : pc'[q] \in Refreshing => Apart(cand'[q], ver, pc, cand)
      BY <1>b, <3>1, <3>2, <3>5 DEF TokensApart
    <3>7. \A l \in Logins : pc'[l] = pc[l] /\ cand'[l] = cand[l]
      BY <1>b, <3>1, <3>2
    <3> QED BY <3>2, <3>6, <3>7, ApartKept DEF TokensApart
  <2>3. CASE BuildFails(p)
    <3>1. pc[p] = "reply" /\ cand' = cand /\ ver' = ver /\ disk' = disk
          /\ \E m \in {"error", "stage"} : pc' = [pc EXCEPT ![p] = m]
      BY <2>3 DEF BuildFails, KeepRotation, Goto, At
    <3>2. ui'.rt = cand[p].rt
      BY <2>3, RefreshDropped DEF Pair
    <3>3. Apart(ui', ver, pc, cand)
      BY <3>1, <3>2 DEF TokensApart, Apart, Refreshing
    <3> QED BY <1>b, <3>1, <3>3, ApartKept DEF TokensApart, Refreshing, Pending
  <2>4. CASE Adopt(p)
    <3>1. pc[p] = "adopt" /\ cand' = cand /\ ver' = ver /\ disk' = disk
          /\ ui' = cand[p] /\ pc' = [pc EXCEPT ![p] = "stage"]
      BY <2>4 DEF Adopt, At
    <3> QED BY <1>b, <3>1, ApartKept DEF TokensApart, Refreshing
  <2>5. CASE \/ CheckFresh(p) \/ CheckRefuses(p) \/ SendRefresh(p)
             \/ RefreshRejected(p) \/ ReplyLost(p) \/ Leave(p)
             \/ BeginPrepare(p) \/ EndPrepare(p)
    <3>1. ver' = ver /\ ui' = ui /\ disk' = disk
          /\ \A q \in Proc : q # p => cand'[q] = cand[q]
      BY <1>b, <2>5 DEF CheckFresh, CheckRefuses, SendRefresh, RefreshRejected,
         ReplyLost, Leave, BeginPrepare, EndPrepare
    <3>2. \E m \in {"ok", "error", "post", "ready", "idle", "using"} :
            pc' = [pc EXCEPT ![p] = m]
      BY <2>5 DEF CheckFresh, CheckRefuses, SendRefresh, RefreshRejected,
         ReplyLost, Leave, BeginPrepare, EndPrepare, Goto, At
    <3> QED BY <1>b, <3>1, <3>2, ApartSame DEF Refreshing
  <2> QED BY <1>2, <2>1, <2>2, <2>3, <2>4, <2>5 DEF Work
<1>3. ASSUME NEW p \in Workers, NEW o \in {"prepare", "tick", "force"},
             Enter(p, o)
      PROVE TokensApart'
  <2>1. ver' = ver /\ ui' = ui /\ disk' = disk /\ cand' = cand
        /\ \E m \in {"stage", "check"} : pc' = [pc EXCEPT ![p] = m]
    BY <1>3 DEF Enter, Acquire, EntryPoint, At
  <2> QED BY <1>b, <2>1, ApartSame DEF Refreshing
<1>4. ASSUME NEW l \in Logins, Issued(l) PROVE TokensApart'
  BY <1>4, ApartAfterIssue
<1>5. ASSUME NEW l \in Logins, Login(l) PROVE TokensApart'
  <2>1. CASE BuildLogin(l)
    <3>1. pc[l] = "polled" /\ pc' = [pc EXCEPT ![l] = "lstage"]
          /\ cand' = [cand EXCEPT ![l] = WithFields(cand[l])]
          /\ ver' = ver /\ ui' = ui /\ disk' = disk
      BY <2>1 DEF BuildLogin, Acquire, At
    <3>2. cand[l] \in User
      BY <1>b, <3>1 DEF TypeInv, CandidateHeld
    <3>3. WithFields(cand[l]).rt = cand[l].rt
      BY <3>2 DEF User, WithFields, Keyed
    <3> QED BY <1>b, <3>1, <3>3, ApartSame DEF Pending
  <2>2. CASE CommitLogin(l)
    <3>1. pc[l] = "commit" /\ pc' = [pc EXCEPT ![l] = "retire"] /\ cand' = cand
          /\ ver' = ver /\ ui' = cand[l] /\ disk' = cand[l]
      BY <2>2 DEF CommitLogin, PublishLogin, Goto, At
    <3>2. cand[l].rt <= ver
      BY <3>1 DEF TokensApart, Pending
    <3>3. \A m \in Logins : pc'[m] \in Pending => m # l /\ pc[m] \in Pending
      BY <1>b, <3>1 DEF Pending
    <3>4. Apart(ui', ver', pc', cand')
      BY <3>1, <3>2, <3>3 DEF TokensApart, Apart, Pending
    <3>5. ASSUME NEW p \in Workers, pc'[p] \in Refreshing
          PROVE  Apart(cand'[p], ver', pc', cand')
      BY <1>b, <3>1, <3>3, <3>5 DEF TokensApart, Apart
    <3> QED BY <3>1, <3>2, <3>3, <3>4, <3>5 DEF TokensApart
  <2>3. CASE ApplyProfile(l)
    <3>1. cand' = cand /\ ver' = ver /\ disk' = disk
          /\ \E m \in {"stage", "swap"} : pc' = [pc EXCEPT ![l] = m]
      BY <2>3 DEF ApplyProfile, At
    <3>2. ui # NoUser /\ ui'.rt = ui.rt
      BY <2>3, ProfileApplied, Sentinels DEF Pair
    <3>3. Apart(ui', ver, pc, cand)
      BY <3>2 DEF TokensApart, Apart
    <3> QED BY <1>b, <3>1, <3>3, ApartKept DEF TokensApart, Pending
  <2>4. CASE \/ LoginFails(l) \/ StageLogin(l) \/ RejectLogin(l)
             \/ LeaveLogin(l) \/ RequestProfile(l) \/ AbandonProfile(l)
    <3>1. ver' = ver /\ ui' = ui /\ disk' = disk
          /\ \A q \in Proc : q # l => cand'[q] = cand[q]
      BY <1>b, <2>4 DEF LoginFails, StageLogin, RejectLogin, LeaveLogin,
         RequestProfile, AbandonProfile
    <3>2. \/ pc[l] = "lstage" /\ pc' = [pc EXCEPT ![l] = "commit"] /\ cand' = cand
          \/ \E m \in {"idle", "error", "committed", "fetching"} :
               pc' = [pc EXCEPT ![l] = m]
      BY <2>4 DEF LoginFails, StageLogin, RejectLogin, LeaveLogin,
         RequestProfile, AbandonProfile, Goto, At
    <3> QED BY <1>b, <3>1, <3>2, ApartSame DEF Pending
  <2> QED BY <1>5, <2>1, <2>2, <2>3, <2>4 DEF Login
<1>6. CASE StartLogin \/ Load \/ Loaded \/ Close \/ Closing \/ CloseContext
  <2>1. /\ ver' = ver /\ disk' = disk /\ cand' = cand
        /\ \A p \in Workers \cup Logins : pc'[p] = pc[p]
    BY <1>b, <1>6 DEF StartLogin, Load, Loaded, Close, Closing, CloseContext,
       Acquire, Goto, At
  <2>2. ui' # NoUser => Apart(ui', ver, pc, cand)
    <3>1. CASE Load
      <4>1. disk \in User /\ disk # NoUser /\ ui'.rt = disk.rt
        BY <3>1, FileLoaded, Sentinels DEF Load, Pair
      <4>2. \A l \in Logins : pc[l] \notin Pending
        BY <3>1 DEF Load, TypeInv, DownIdle, Pending
      <4> QED BY <4>1, <4>2 DEF TokensApart, Apart
    <3>2. CASE ~Load
      BY <1>6, <3>2 DEF StartLogin, Loaded, Close, Closing, CloseContext, TokensApart
    <3> QED BY <3>1, <3>2
  <2> QED BY <2>1, <2>2, ApartKept DEF TokensApart
<1>7. CASE Stop
  <2>1. /\ ver' = ver /\ ui' = NoUser /\ disk' = disk
        /\ \A p \in Workers \cup Logins : pc'[p] = "idle"
    BY <1>b, <1>7 DEF Stop
  <2> QED BY <2>1, ApartSame DEF Refreshing, Pending
<1>8. CASE HoldoffElapses \/ UNCHANGED vars
  BY <1>8, ApartSame DEF HoldoffElapses, vars
<1> QED BY <1>1, <1>2, <1>3, <1>4, <1>5, <1>6, <1>7, <1>8 DEF Next

\* Every step keeps the token of a refresh that is posted.
LEMMA SpendsStep ==
  ASSUME TypeInv, SpendsToken, [Next]_vars PROVE SpendsToken'
<1>1. \A p, q \in Proc : pc[p] \in Critical /\ pc[q] \in Critical => p = q
  BY OneOwner
<1> USE <1>1, Roles, Sentinels DEF SpendsToken, TypeInv, Control, DownIdle, MuOwner, Proc,
        Critical, Goto, At, service, cred, ctxs, local, history
<1>2. ASSUME NEW p \in Proc, Save(p) \/ Swap(p) \/ Retire(p) PROVE SpendsToken'
  BY <1>2 DEF Save, StageOk, SaveFails, PublishOk, Swap, Retire, Then
<1>3. ASSUME NEW p \in Workers, Work(p) PROVE SpendsToken'
  BY <1>3 DEF Work, CheckFresh, CheckRefuses, SendRefresh, ServiceRefreshes,
         RefreshRejected, ReplyLost, BuildRefreshed, BuildFails, KeepRotation,
         Adopt, Leave, BeginPrepare, EndPrepare
<1>4. ASSUME NEW p \in Workers, NEW o \in {"prepare", "tick", "force"},
             Enter(p, o)
      PROVE SpendsToken'
  BY <1>4 DEF Enter, EntryPoint, Acquire
<1>5. ASSUME NEW l \in Logins, Issued(l) PROVE SpendsToken'
  BY <1>5 DEF Issued
<1>6. ASSUME NEW l \in Logins, Login(l) PROVE SpendsToken'
  BY <1>6 DEF Login, BuildLogin, LoginFails, StageLogin, RejectLogin, CommitLogin,
         LeaveLogin, RequestProfile, AbandonProfile, ApplyProfile, Acquire
<1>7. CASE StartLogin \/ Load \/ Loaded \/ Close \/ Closing \/ CloseContext
  BY <1>7 DEF StartLogin, Load, Loaded, Close, Closing, CloseContext, Acquire
<1>8. CASE Stop \/ HoldoffElapses \/ UNCHANGED vars
  BY <1>8 DEF Stop, HoldoffElapses, vars
<1> QED BY <1>2, <1>3, <1>4, <1>5, <1>6, <1>7, <1>8 DEF Next

\* A step that issues nothing: what is pending stays so, and what is newest is
\* as usable as it was.
LEMMA UsableKept ==
  ASSUME TypeInv, NewestUsable, valid \subseteq valid', lost => lost',
         \A l \in Logins : pc'[l] \in Pending =>
           pc[l] \in Pending /\ cand'[l].rt = cand[l].rt,
         ~lost' => \A p \in Workers : pc'[p] \in Refreshing =>
           pc[p] \in Refreshing /\ cand'[p].rt = cand[p].rt,
         ~lost' /\ (\A p \in Workers : pc'[p] \notin Refreshing) =>
           Accepted(IF ui' = NoUser THEN disk' ELSE ui', valid)
  PROVE  NewestUsable'
<1>1. \A l \in Logins : pc[l] \in Pending => cand[l] # NoUser
  BY DEF TypeInv, CandidateHeld, Pending
<1>2. \A p \in Workers : pc[p] \in Refreshing => cand[p] # NoUser
  BY DEF TypeInv, CandidateHeld
<1>3. \A l \in Logins : pc'[l] \in Pending => Accepted(cand[l], valid) /\ cand[l] # NoUser
  BY <1>1 DEF NewestUsable
<1>4. ASSUME NEW l \in Logins, pc'[l] \in Pending PROVE Accepted(cand'[l], valid')
  BY <1>3, <1>4 DEF Accepted
<1>5. ASSUME ~lost', NEW p \in Workers, pc'[p] \in Refreshing
      PROVE  Accepted(cand'[p], valid')
  <2>1. pc[p] \in Refreshing /\ cand'[p].rt = cand[p].rt /\ ~lost
    BY <1>5
  <2>2. Accepted(cand[p], valid) /\ cand[p] # NoUser
    BY <1>2, <2>1 DEF NewestUsable
  <2> QED BY <2>1, <2>2 DEF Accepted
<1>6. ASSUME ~lost', \A p \in Workers : pc'[p] \notin Refreshing
      PROVE  Accepted(IF ui' = NoUser THEN disk' ELSE ui', valid')
  BY <1>6 DEF Accepted
<1> QED BY <1>4, <1>5, <1>6 DEF NewestUsable

\* The service's answer spends the token in memory, which no pending login has.
LEMMA UsableAfterRefresh ==
  ASSUME TypeInv, TokenInv, NEW p \in Workers, ServiceRefreshes(p)
  PROVE  NewestUsable'
<1>1. ui \in User /\ ui # NoUser /\ ui.rt # 0 /\ Apart(ui, ver, pc, cand)
  <2>1. pc[p] = "post"
    BY DEF ServiceRefreshes
  <2> QED BY <2>1 DEF TypeInv, Data, CandidateHeld, TokenInv, SpendsToken, TokensApart
<1>2. PICK r \in {ui.rt, ver + 1}, x \in {ui.rx, ver + 1} :
        /\ valid' = (valid \ {ui.rt}) \cup {r}
        /\ cand' = [cand EXCEPT ![p] = Refreshed(ui, ver + 1, r, x)]
  BY DEF ServiceRefreshes
<1>3. /\ p \in Proc /\ p \notin Logins /\ cand \in [Proc -> User \cup {NoUser}]
      /\ pc' = [pc EXCEPT ![p] = "reply"] /\ pc[p] = "post"
      /\ pc \in [Proc -> Point] /\ Logins \subseteq Proc /\ Workers \subseteq Proc
  BY Roles DEF Proc, TypeInv, Control, Locals, ServiceRefreshes, Goto, At
<1>4. cand'[p].rt = r
  BY <1>1, <1>2, <1>3 DEF User, Refreshed
<1>5. \A q \in Workers : pc'[q] \in Refreshing => q = p
  BY <1>3, OneOwner DEF Refreshing, Critical
<1>6. p \in Workers /\ pc'[p] \in Refreshing
  BY <1>3 DEF Refreshing
<1>7. ASSUME NEW l \in Logins, pc'[l] \in Pending
      PROVE  Accepted(cand'[l], valid')
  <2>1. pc[l] \in Pending /\ cand'[l] = cand[l]
    BY <1>2, <1>3, <1>7
  <2>2. Accepted(cand[l], valid)
    BY <2>1 DEF TokenInv, NewestUsable
  <2>3. cand[l].rt # ui.rt
    BY <1>1, <2>1 DEF Apart
  <2> QED BY <1>2, <2>1, <2>2, <2>3 DEF Accepted
<1>8. Accepted(cand'[p], valid')
  BY <1>2, <1>4 DEF Accepted
<1> QED BY <1>5, <1>6, <1>7, <1>8 DEF NewestUsable

LEMMA UsableAfterIssue ==
  ASSUME TypeInv, TokenInv, NEW l \in Logins, Issued(l)
  PROVE  NewestUsable'
<1>1. PICK r \in {0, ver + 1}, x \in {0, ver + 1}, f \in {Bare, ver + 1} :
        /\ valid' = valid \cup ({r} \ {0})
        /\ cand' = [cand EXCEPT ![l] =
                      [sess |-> ver + 1, tok |-> ver + 1, rt |-> r, rx |-> x,
                       prof |-> f, key |-> NoKey]]
  BY DEF Issued
<1>2. /\ l \in Proc /\ l \notin Workers /\ cand \in [Proc -> User \cup {NoUser}]
      /\ pc' = [pc EXCEPT ![l] = "polled"]
      /\ pc \in [Proc -> Point] /\ Logins \subseteq Proc /\ Workers \subseteq Proc
      /\ ui' = ui /\ disk' = disk /\ lost' = lost
  BY Roles DEF Proc, TypeInv, Control, Locals, Issued, Goto, At, cred, history
<1>3. \A m \in Proc : m # l => pc'[m] = pc[m] /\ cand'[m] = cand[m]
  BY <1>1, <1>2
<1>4. cand'[l].rt = r
  BY <1>1, <1>2
<1>5. \A u : Accepted(u, valid) => Accepted(u, valid')
  BY <1>1 DEF Accepted
<1>6. ASSUME NEW m \in Logins, pc'[m] \in Pending PROVE Accepted(cand'[m], valid')
  <2>1. CASE m = l
    BY <1>1, <1>4, <2>1 DEF Accepted
  <2>2. CASE m # l
    BY <1>2, <1>3, <1>5, <1>6, <2>2 DEF TokenInv, NewestUsable
  <2> QED BY <2>1, <2>2
<1>7. \A p \in Workers : pc'[p] = pc[p] /\ cand'[p] = cand[p]
  BY <1>2, <1>3
<1> QED BY <1>2, <1>5, <1>6, <1>7 DEF TokenInv, NewestUsable

\* A step that moves p, and takes no goroutine into or out of a refresh.
LEMMA UsableSame ==
  ASSUME TypeInv, NewestUsable, valid' = valid, lost => lost',
         ui' = ui, disk' \in {disk, ui},
         \A l \in Logins : pc'[l] \in Pending =>
           pc[l] \in Pending /\ cand'[l].rt = cand[l].rt,
         \A p \in Workers : pc'[p] \in Refreshing <=> pc[p] \in Refreshing,
         \A p \in Workers : pc[p] \in Refreshing => cand'[p].rt = cand[p].rt
  PROVE  NewestUsable'
<1>1. ASSUME ~lost', \A p \in Workers : pc'[p] \notin Refreshing
      PROVE  Accepted(IF ui' = NoUser THEN disk' ELSE ui', valid)
  <2>1. ~lost /\ \A p \in Workers : pc[p] \notin Refreshing
    BY <1>1 DEF TypeInv, Flags
  <2>2. Accepted(IF ui = NoUser THEN disk ELSE ui, valid)
    BY <2>1 DEF NewestUsable
  <2> QED BY <2>2 DEF Accepted
<1> QED BY <1>1, UsableKept

\* Every step keeps the newest token usable, or is recorded as a loss.
LEMMA UsableStep ==
  ASSUME TypeInv, TokenInv, CleanMeansSaved, [Next]_vars PROVE NewestUsable'
<1> USE Roles DEF service, cred, ctxs, local, history
<1>b. /\ pc \in [Proc -> Point] /\ cand \in [Proc -> User \cup {NoUser}]
      /\ Workers \subseteq Proc /\ Logins \subseteq Proc /\ Main \in Proc
      /\ Main \notin Workers /\ Main \notin Logins
      /\ \A p \in Workers : p \notin Logins
  BY DEF TypeInv, Control, Locals, Proc
<1>n. NewestUsable
  BY DEF TokenInv
<1>o. ASSUME NEW p \in Workers, pc[p] \in Refreshing, NEW q \in Proc,
             pc[q] \in Critical
      PROVE  q = p
  BY <1>b, <1>o, OneOwner DEF Refreshing, Critical
<1>1. ASSUME NEW p \in Proc, Save(p) \/ Swap(p) \/ Retire(p) PROVE NewestUsable'
  <2>1. /\ valid' = valid /\ lost' = lost /\ ui' = ui /\ disk' \in {disk, ui}
        /\ cand' = cand /\ pc[p] \in {"stage", "publish", "swap", "retire"}
    BY <1>1 DEF Save, StageOk, SaveFails, PublishOk, Swap, Retire
  <2>2. PICK m \in Point : /\ pc' = [pc EXCEPT ![p] = m]
                           /\ m \notin Pending
                           /\ p \in Workers => (m \in Refreshing <=> pc[p] \in Refreshing)
    <3>1. then[p] \in Then
      BY DEF TypeInv, Control
    <3> QED BY <1>1, <3>1 DEF Save, StageOk, SaveFails, PublishOk, Swap, Retire,
            Goto, At, Refreshing, Then, Pending, Point, Critical
  <2> QED BY <1>b, <1>n, <2>1, <2>2, UsableSame
<1>2. ASSUME NEW p \in Workers, Work(p) PROVE NewestUsable'
  <2>1. CASE ServiceRefreshes(p)
    BY <2>1, UsableAfterRefresh
  <2>2. CASE BuildRefreshed(p)
    <3>1. PICK k \in {cand[p].key, cand[p].prof} :
            cand' = [cand EXCEPT ![p] = Keyed(cand[p], k)]
      BY <2>2 DEF BuildRefreshed
    <3>2. /\ pc[p] = "reply" /\ pc' = [pc EXCEPT ![p] = "swap"] /\ valid' = valid
          /\ lost' = lost /\ ui' = ui /\ disk' = disk
      BY <2>2 DEF BuildRefreshed, Goto, At
    <3>3. cand[p] \in User
      BY <1>b, <3>2 DEF TypeInv, CandidateHeld, Refreshing
    <3>4. Keyed(cand[p], k).rt = cand[p].rt
      BY <3>3 DEF User, Keyed
    <3> QED BY <1>b, <1>n, <3>1, <3>2, <3>4, UsableSame DEF Refreshing
  <2>3. CASE ReplyLost(p) \/ BuildFails(p) \/ Adopt(p)
    <3>1. /\ pc[p] \in Refreshing \cap Critical /\ cand' = cand /\ valid' = valid
          /\ disk' = disk
      BY <2>3 DEF ReplyLost, BuildFails, Adopt, Refreshing, Critical
    <3>0. lost => lost'
      BY <2>3, Zenon DEF ReplyLost, BuildFails, Adopt
    <3>2. PICK m \in {"error", "stage"} : pc' = [pc EXCEPT ![p] = m]
      BY <2>3 DEF ReplyLost, BuildFails, KeepRotation, Adopt, Goto, At
    <3>3. ~lost' => ui' # NoUser /\ ui'.rt = cand[p].rt
      <4>1. CASE ReplyLost(p)
        BY <4>1 DEF ReplyLost, TypeInv, CandidateHeld
      <4>2. CASE BuildFails(p)
        BY <4>2, RefreshDropped, Sentinels DEF Pair
      <4>3. CASE Adopt(p)
        BY <3>1, <4>3 DEF Adopt, TypeInv, CandidateHeld
      <4> QED BY <2>3, <4>1, <4>2, <4>3
    <3>4. ~lost' => Accepted(cand[p], valid) /\ cand[p] # NoUser
      BY <3>0, <3>1 DEF CandidateHeld, TypeInv, TokenInv, NewestUsable
    <3>5. ~lost' => Accepted(IF ui' = NoUser THEN disk' ELSE ui', valid)
      BY <3>3, <3>4 DEF Accepted
    <3>6. \A q \in Workers : pc'[q] \notin Refreshing
      BY <1>b, <1>o, <3>1, <3>2 DEF Refreshing, Critical
    <3>7. \A l \in Logins : pc'[l] = pc[l] /\ cand'[l] = cand[l]
      BY <1>b, <3>1, <3>2
    <3> QED BY <1>n, <3>0, <3>1, <3>5, <3>6, <3>7, UsableKept
  <2>4. CASE \/ CheckFresh(p) \/ CheckRefuses(p) \/ SendRefresh(p)
             \/ RefreshRejected(p) \/ Leave(p)
             \/ BeginPrepare(p) \/ EndPrepare(p)
    <3>1. /\ valid' = valid /\ lost' = lost /\ ui' = ui /\ disk' = disk
          /\ \A q \in Proc : q # p => cand'[q] = cand[q]
          /\ pc[p] \notin Refreshing
      BY <1>b, <2>4 DEF CheckFresh, CheckRefuses, SendRefresh, RefreshRejected,
         Leave, BeginPrepare, EndPrepare, Refreshing
    <3>2. \E m \in {"ok", "error", "post", "ready", "idle", "using"} :
            pc' = [pc EXCEPT ![p] = m]
      BY <2>4 DEF CheckFresh, CheckRefuses, SendRefresh, RefreshRejected,
         Leave, BeginPrepare, EndPrepare, Goto, At
    <3>3. \A q \in Workers : pc'[q] \in Refreshing <=> pc[q] \in Refreshing
      BY <1>b, <3>1, <3>2 DEF Refreshing
    <3>4. \A q \in Workers : pc[q] \in Refreshing => cand'[q].rt = cand[q].rt
      BY <1>b, <3>1
    <3>5. \A l \in Logins : pc'[l] = pc[l] /\ cand'[l] = cand[l]
      BY <1>b, <3>1, <3>2
    <3> QED BY <1>n, <3>1, <3>3, <3>4, <3>5, UsableSame
  <2> QED BY <1>2, <2>1, <2>2, <2>3, <2>4 DEF Work
<1>3. ASSUME NEW p \in Workers, NEW o \in {"prepare", "tick", "force"},
             Enter(p, o)
      PROVE NewestUsable'
  <2>1. /\ valid' = valid /\ lost' = lost /\ ui' = ui /\ disk' = disk
        /\ cand' = cand /\ pc[p] = "idle"
        /\ \E m \in {"stage", "check"} : pc' = [pc EXCEPT ![p] = m]
    BY <1>3 DEF Enter, Acquire, EntryPoint, At
  <2> QED BY <1>b, <1>n, <2>1, UsableSame DEF Refreshing
<1>4. ASSUME NEW l \in Logins, Issued(l) PROVE NewestUsable'
  BY <1>4, UsableAfterIssue
<1>5. ASSUME NEW l \in Logins, Login(l) PROVE NewestUsable'
  <2>1. CASE BuildLogin(l)
    <3>1. /\ pc[l] = "polled" /\ pc' = [pc EXCEPT ![l] = "lstage"]
          /\ cand' = [cand EXCEPT ![l] = WithFields(cand[l])]
          /\ valid' = valid /\ lost' = lost /\ ui' = ui /\ disk' = disk
      BY <2>1 DEF BuildLogin, Acquire, At
    <3>2. cand[l] \in User
      BY <1>b, <3>1 DEF TypeInv, CandidateHeld
    <3>3. WithFields(cand[l]).rt = cand[l].rt
      BY <3>2 DEF User, WithFields, Keyed
    <3> QED BY <1>b, <1>n, <3>1, <3>3, UsableSame DEF Pending
  <2>2. CASE CommitLogin(l)
    <3>1. /\ pc[l] = "commit" /\ pc' = [pc EXCEPT ![l] = "retire"] /\ cand' = cand
          /\ valid' = valid /\ ui' = cand[l] /\ disk' = cand[l]
      BY <2>2 DEF CommitLogin, PublishLogin, Goto, At
    <3>2. Accepted(cand[l], valid)
      BY <3>1 DEF TokenInv, NewestUsable, Pending
    <3>3. \A p \in Workers : pc'[p] \notin Refreshing
      BY <1>b, <1>o, <3>1 DEF Critical, Refreshing
    <3>4. \A m \in Logins : pc'[m] \in Pending => pc[m] \in Pending
      BY <1>b, <3>1 DEF Pending
    <3> QED BY <3>1, <3>2, <3>3, <3>4 DEF TokenInv, NewestUsable
  <2>3. CASE ApplyProfile(l)
    <3>1. /\ cand' = cand /\ valid' = valid /\ lost' = lost /\ disk' = disk
          /\ \E m \in {"stage", "swap"} : pc' = [pc EXCEPT ![l] = m]
      BY <2>3 DEF ApplyProfile, At
    <3>2. ui # NoUser /\ ui' # NoUser /\ ui'.rt = ui.rt
      BY <2>3, ProfileApplied, Sentinels DEF Pair
    <3>3. ASSUME ~lost', \A p \in Workers : pc'[p] \notin Refreshing
          PROVE  Accepted(IF ui' = NoUser THEN disk' ELSE ui', valid)
      <4>1. \A p \in Workers : pc[p] \notin Refreshing
        BY <1>b, <3>1, <3>3
      <4>2. Accepted(ui, valid)
        BY <3>1, <3>2, <3>3, <4>1 DEF TokenInv, NewestUsable
      <4> QED BY <3>2, <4>2 DEF Accepted
    <3> QED BY <1>b, <1>n, <3>1, <3>3, UsableKept DEF Pending
  <2>4. CASE \/ LoginFails(l) \/ StageLogin(l) \/ RejectLogin(l)
             \/ LeaveLogin(l) \/ RequestProfile(l) \/ AbandonProfile(l)
    <3>1. /\ valid' = valid /\ lost' = lost /\ ui' = ui /\ disk' = disk
          /\ \A q \in Proc : q # l => cand'[q] = cand[q]
      BY <1>b, <2>4 DEF LoginFails, StageLogin, RejectLogin, LeaveLogin,
         RequestProfile, AbandonProfile
    <3>2. \/ pc[l] = "lstage" /\ pc' = [pc EXCEPT ![l] = "commit"] /\ cand' = cand
          \/ \E m \in {"idle", "error", "committed", "fetching"} :
               pc' = [pc EXCEPT ![l] = m]
      BY <2>4 DEF LoginFails, StageLogin, RejectLogin, LeaveLogin,
         RequestProfile, AbandonProfile, Goto, At
    <3> QED BY <1>b, <1>n, <3>1, <3>2, UsableSame DEF Pending
  <2> QED BY <1>5, <2>1, <2>2, <2>3, <2>4 DEF Login
<1>6. CASE Load
  <2>1. /\ valid' = valid /\ lost' = lost /\ disk' = disk /\ cand' = cand
        /\ pc[Main] = "down" /\ \A p \in Workers \cup Logins : pc'[p] = pc[p]
    BY <1>b, <1>6 DEF Load, At
  <2>2. ui = NoUser /\ disk # NoUser /\ ui' # NoUser /\ ui'.rt = disk.rt
    BY <1>6, <2>1, FileLoaded, Sentinels DEF Load, TokenInv, SpendsToken, Pair
  <2>3. ASSUME ~lost', \A p \in Workers : pc'[p] \notin Refreshing
        PROVE  Accepted(IF ui' = NoUser THEN disk' ELSE ui', valid)
    <3>1. Accepted(disk, valid)
      BY <2>1, <2>2, <2>3 DEF TokenInv, NewestUsable
    <3> QED BY <2>2, <3>1 DEF Accepted
  <2> QED BY <1>n, <2>1, <2>3, UsableKept
<1>7. CASE StartLogin \/ Loaded \/ Close \/ Closing \/ CloseContext
  <2>1. /\ valid' = valid /\ lost' = lost /\ ui' = ui /\ disk' = disk
        /\ cand' = cand /\ \A p \in Workers \cup Logins : pc'[p] = pc[p]
    BY <1>b, <1>7 DEF StartLogin, Loaded, Close, Closing, CloseContext, Acquire,
       Goto, At
  <2> QED BY <1>n, <2>1, UsableSame
<1>8. CASE Stop
  <2>1. /\ valid' = valid /\ ui' = NoUser /\ disk' = disk
        /\ lost' = (lost \/ AtRisk)
        /\ \A p \in Workers \cup Logins : pc'[p] = "idle"
    BY <1>b, <1>8 DEF Stop
  <2>2. ASSUME ~lost' PROVE Accepted(disk, valid)
    <3>1. ~lost /\ ~dirty /\ \A p \in Workers : pc[p] \notin Refreshing
      BY <2>1, <2>2 DEF AtRisk
    <3>2. Accepted(IF ui = NoUser THEN disk ELSE ui, valid)
      BY <3>1 DEF TokenInv, NewestUsable
    <3> QED BY <3>1, <3>2 DEF CleanMeansSaved
  <2>3. "idle" \notin Refreshing \cup Pending
    BY DEF Refreshing, Pending
  <2> QED BY <2>1, <2>2, <2>3 DEF NewestUsable
<1>9. CASE HoldoffElapses \/ UNCHANGED vars
  BY <1>n, <1>9, UsableSame DEF HoldoffElapses, vars
<1> QED BY <1>1, <1>2, <1>3, <1>4, <1>5, <1>6, <1>7, <1>8, <1>9 DEF Next

LEMMA AlwaysTokenInv == Spec => []TokenInv
<1>1. Init => TokenInv
  <2> SUFFICES ASSUME Init PROVE TokenInv
    OBVIOUS
  <2>1. /\ ver = 1 /\ valid = {1} /\ ui = NoUser
        /\ \A p \in Workers \cup Logins : pc[p] = "idle"
    BY Roles DEF Init, Proc
  <2>2. disk # NoUser => disk.rt = 1
    BY DEF Init, InitialUsers
  <2> QED BY <2>1, <2>2 DEF TokenInv, TokensApart, NewestUsable, SpendsToken, Apart,
          Accepted, Refreshing, Pending
<1>2. TypeInv /\ CleanMeansSaved /\ TokenInv /\ [Next]_vars => TokenInv'
  BY ApartStep, SpendsStep, UsableStep DEF TokenInv
<1> QED BY <1>1, <1>2, AlwaysTypeInv, CleanCredentialsAreSaved, PTL DEF Spec

\* The service accepts the refresh token the manager would send, and after a
\* restart the one it would load, unless an answer was lost or the process
\* stopped while a rotation was not on disk: no interleaving of refreshes,
\* logins, enrichments and failed saves makes the manager keep a spent token.
THEOREM NewestTokenIsKept == Spec => []TokenUsable
<1>1. TypeInv /\ TokenInv => TokenUsable
  <2>1. ASSUME TypeInv, TokenInv, mu = Nobody, ~lost
        PROVE  Usable(IF ui = NoUser THEN disk ELSE ui)
    <3>1. \A p \in Workers : pc[p] \notin Refreshing
      BY <2>1, Sentinels DEF TypeInv, MuOwner, Proc, Refreshing, Critical
    <3> QED BY <2>1, <3>1 DEF TokenInv, NewestUsable, Accepted, Usable
  <2> QED BY <2>1 DEF TokenUsable
<1> QED BY <1>1, AlwaysTypeInv, AlwaysTokenInv, PTL

----------------------------------------------------------------------------
(* The order of versions within a session.                                 *)

\* A pending login is of a session of its own.
SessionsApart ==
  /\ disk # NoUser => disk.sess <= ver
  /\ \A l \in Logins : pc[l] \in Pending =>
       /\ cand[l].sess <= ver
       /\ disk # NoUser => disk.sess # cand[l].sess
       /\ \A m \in Logins : m # l /\ pc[m] \in Pending => cand[m].sess # cand[l].sess

\* a is not behind b.
Newer(a, b) == a.rt >= b.rt /\ a.prof >= b.prof

\* Memory is not behind the file, a refresh is not behind memory.
Ordered ==
  /\ ui # NoUser => Newer(ui, disk)
  /\ \A p \in Workers : pc[p] \in Refreshing => Newer(cand[p], ui)

\* A step that begins no login and leaves the file to its session.
LEMMA SessionsSame ==
  ASSUME SessionsApart, ver' = ver,
         disk' # NoUser => disk # NoUser /\ disk'.sess = disk.sess,
         \A l \in Logins : pc'[l] \in Pending =>
           pc[l] \in Pending /\ cand'[l].sess = cand[l].sess
  PROVE  SessionsApart'
BY DEF SessionsApart

\* Every step keeps the sessions apart.
LEMMA SessionsApartStep ==
  ASSUME TypeInv, SessionInv, SessionsApart, [Next]_vars PROVE SessionsApart'
<1> USE Roles DEF service, cred, ctxs, local, history
<1>b. /\ pc \in [Proc -> Point] /\ cand \in [Proc -> User \cup {NoUser}]
      /\ Workers \subseteq Proc /\ Logins \subseteq Proc /\ Main \in Proc
      /\ Main \notin Workers /\ Main \notin Logins
      /\ \A p \in Workers : p \notin Logins
  BY DEF TypeInv, Control, Locals, Proc
<1>1. ASSUME NEW p \in Proc, Save(p) \/ Swap(p) \/ Retire(p) PROVE SessionsApart'
  <2>1. ver' = ver /\ disk' \in {disk, ui} /\ cand' = cand
    BY <1>1 DEF Save, StageOk, SaveFails, PublishOk, Swap, Retire
  <2>2. PICK m : pc' = [pc EXCEPT ![p] = m] /\ m \notin Pending
    <3>1. then[p] \in Then
      BY DEF TypeInv, Control
    <3> QED BY <1>1, <3>1 DEF Save, StageOk, SaveFails, PublishOk, Swap, Retire,
            Goto, At, Then, Pending
  <2>3. disk' # NoUser => disk # NoUser /\ disk'.sess = disk.sess
    BY <2>1 DEF SessionInv, OneSession
  <2> QED BY <1>b, <2>1, <2>2, <2>3, SessionsSame
<1>2. ASSUME NEW p \in Workers, Work(p) PROVE SessionsApart'
  <2>1. /\ disk' = disk /\ \A l \in Logins : pc'[l] = pc[l] /\ cand'[l] = cand[l]
    BY <1>b, <1>2 DEF Work, CheckFresh, CheckRefuses, SendRefresh,
       ServiceRefreshes, RefreshRejected, ReplyLost, BuildRefreshed, BuildFails,
       KeepRotation, Adopt, Leave, BeginPrepare, EndPrepare, Goto, At
  <2>2. CASE ServiceRefreshes(p)
    <3>1. ver \in Nat /\ ver' = ver + 1 /\ (disk # NoUser => disk.sess \in Nat)
      BY <2>2, Fields DEF ServiceRefreshes, TypeInv, Data
    <3>2. \A l \in Logins : pc[l] \in Pending => cand[l].sess \in Nat
      BY <1>b, Fields DEF TypeInv, CandidateHeld, Pending
    <3> QED BY <2>1, <3>1, <3>2 DEF SessionsApart
  <2>3. CASE ~ServiceRefreshes(p)
    <3>1. ver' = ver
      BY <1>2, <2>3 DEF Work, CheckFresh, CheckRefuses, SendRefresh,
         RefreshRejected, ReplyLost, BuildRefreshed, BuildFails, Adopt, Leave,
         BeginPrepare, EndPrepare
    <3> QED BY <2>1, <3>1, SessionsSame
  <2> QED BY <2>2, <2>3
<1>3. ASSUME NEW p \in Workers, NEW o \in {"prepare", "tick", "force"},
             Enter(p, o)
      PROVE SessionsApart'
  <2>1. /\ ver' = ver /\ disk' = disk /\ cand' = cand
        /\ \A l \in Logins : pc'[l] = pc[l]
    BY <1>b, <1>3 DEF Enter, Acquire, At
  <2> QED BY <2>1, SessionsSame
<1>4. ASSUME NEW l \in Logins, Issued(l) PROVE SessionsApart'
  <2>1. PICK r \in {0, ver + 1}, x \in {0, ver + 1}, f \in {Bare, ver + 1} :
          cand' = [cand EXCEPT ![l] =
                     [sess |-> ver + 1, tok |-> ver + 1, rt |-> r, rx |-> x,
                      prof |-> f, key |-> NoKey]]
    BY <1>4 DEF Issued
  <2>2. /\ ver \in Nat /\ ver' = ver + 1 /\ disk' = disk
        /\ pc' = [pc EXCEPT ![l] = "polled"]
        /\ disk # NoUser => disk.sess \in Nat
    BY <1>4, Fields DEF Issued, TypeInv, Data, Goto, At
  <2>3. cand'[l].sess = ver + 1
    BY <1>b, <2>1
  <2>4. \A m \in Logins : m # l => pc'[m] = pc[m] /\ cand'[m] = cand[m]
    BY <1>b, <2>1, <2>2
  <2>5. \A m \in Logins : pc[m] \in Pending => cand[m].sess \in Nat
    BY <1>b, Fields DEF TypeInv, CandidateHeld, Pending
  <2>6. \A m \in Logins : m # l /\ pc'[m] \in Pending =>
          cand'[m].sess \in Nat /\ cand'[m].sess <= ver
    BY <2>4, <2>5 DEF SessionsApart
  <2>7. disk' # NoUser => disk'.sess \in Nat /\ disk'.sess <= ver
    BY <2>2 DEF SessionsApart
  <2>8. \A m, n \in Logins :
          m # n /\ pc'[m] \in Pending /\ pc'[n] \in Pending
            => cand'[m].sess # cand'[n].sess
    <3>1. ASSUME NEW m \in Logins, NEW n \in Logins, m # n, m # l, n # l,
                 pc'[m] \in Pending, pc'[n] \in Pending
          PROVE  cand'[m].sess # cand'[n].sess
      BY <2>4, <3>1 DEF SessionsApart
    <3>2. \A m \in Logins : m # l /\ pc'[m] \in Pending => cand'[m].sess # cand'[l].sess
      BY <2>2, <2>3, <2>6
    <3> QED BY <3>1, <3>2
  <2>9. \A m \in Logins : pc'[m] \in Pending =>
          /\ cand'[m].sess <= ver'
          /\ disk' # NoUser => disk'.sess # cand'[m].sess
    <3>1. CASE disk' = NoUser
      BY <2>2, <2>3, <2>6, <3>1
    <3>2. ASSUME NEW m \in Logins, m # l, pc'[m] \in Pending, disk' # NoUser
          PROVE  disk'.sess # cand'[m].sess
      BY <2>2, <2>4, <3>2 DEF SessionsApart
    <3>3. disk' # NoUser => disk'.sess # cand'[l].sess
      BY <2>2, <2>3, <2>7
    <3> QED BY <2>2, <2>3, <2>6, <3>1, <3>2, <3>3
  <2> QED BY <2>2, <2>7, <2>8, <2>9 DEF SessionsApart
<1>5. ASSUME NEW l \in Logins, Login(l) PROVE SessionsApart'
  <2>1. CASE BuildLogin(l)
    <3>1. /\ pc[l] = "polled" /\ pc' = [pc EXCEPT ![l] = "lstage"]
          /\ cand' = [cand EXCEPT ![l] = WithFields(cand[l])]
          /\ ver' = ver /\ disk' = disk
      BY <2>1 DEF BuildLogin, Acquire, At
    <3>2. WithFields(cand[l]).sess = cand[l].sess
      <4>1. cand[l] \in User
        BY <1>b, <3>1 DEF TypeInv, CandidateHeld
      <4> QED BY <4>1 DEF User, WithFields, Keyed
    <3> QED BY <1>b, <3>1, <3>2, SessionsSame DEF Pending
  <2>2. CASE CommitLogin(l)
    <3>1. /\ pc[l] = "commit" /\ pc' = [pc EXCEPT ![l] = "retire"] /\ cand' = cand
          /\ ver' = ver /\ disk' = cand[l]
      BY <2>2 DEF CommitLogin, PublishLogin, Goto, At
    <3>2. \A m \in Logins : pc'[m] \in Pending => m # l /\ pc[m] \in Pending
      BY <1>b, <3>1 DEF Pending
    <3> QED BY <3>1, <3>2 DEF SessionsApart, Pending
  <2>3. CASE \/ ApplyProfile(l) \/ LoginFails(l) \/ StageLogin(l) \/ RejectLogin(l)
             \/ LeaveLogin(l) \/ RequestProfile(l) \/ AbandonProfile(l)
    <3>1. /\ ver' = ver /\ disk' = disk
          /\ \A q \in Proc : q # l => cand'[q] = cand[q]
      BY <1>b, <2>3 DEF ApplyProfile, LoginFails, StageLogin, RejectLogin,
         LeaveLogin, RequestProfile, AbandonProfile
    <3>2. \/ pc[l] = "lstage" /\ pc' = [pc EXCEPT ![l] = "commit"] /\ cand' = cand
          \/ \E m \in {"idle", "error", "committed", "fetching", "stage", "swap"} :
               pc' = [pc EXCEPT ![l] = m]
      BY <2>3 DEF ApplyProfile, LoginFails, StageLogin, RejectLogin, LeaveLogin,
         RequestProfile, AbandonProfile, Goto, At
    <3> QED BY <1>b, <3>1, <3>2, SessionsSame DEF Pending
  <2> QED BY <1>5, <2>1, <2>2, <2>3 DEF Login
<1>6. CASE StartLogin \/ Load \/ Loaded \/ Close \/ Closing \/ CloseContext
  <2>1. /\ ver' = ver /\ disk' = disk /\ cand' = cand
        /\ \A l \in Logins : pc'[l] = pc[l]
    BY <1>b, <1>6 DEF StartLogin, Load, Loaded, Close, Closing, CloseContext,
       Acquire, Goto, At
  <2> QED BY <2>1, SessionsSame
<1>7. CASE Stop
  <2>1. ver' = ver /\ disk' = disk /\ \A l \in Logins : pc'[l] = "idle"
    BY <1>b, <1>7 DEF Stop
  <2> QED BY <2>1, SessionsSame DEF Pending
<1>8. CASE HoldoffElapses \/ UNCHANGED vars
  BY <1>8, SessionsSame DEF HoldoffElapses, vars
<1> QED BY <1>1, <1>2, <1>3, <1>4, <1>5, <1>6, <1>7, <1>8 DEF Next

LEMMA NewerSame == \A u \in User : Newer(u, u)
BY Fields DEF Newer

\* A step that changes neither memory nor file nor the candidate of a refresh.
LEMMA OrderedSame ==
  ASSUME TypeInv, Ordered, ui' \in {ui, NoUser}, disk' \in {disk, ui},
         \A p \in Workers : pc'[p] \in Refreshing =>
           pc[p] \in Refreshing /\ cand'[p] = cand[p] /\ ui' = ui
  PROVE  Ordered'
<1>1. ui # NoUser => Newer(ui, ui)
  BY NewerSame DEF TypeInv, Data
<1>2. ui' # NoUser => Newer(ui', disk')
  BY <1>1 DEF Ordered
<1>3. \A p \in Workers : pc'[p] \in Refreshing => Newer(cand'[p], ui')
  BY DEF Ordered
<1> QED BY <1>2, <1>3 DEF Ordered

\* Every step keeps the order.
LEMMA OrderedStep ==
  ASSUME TypeInv, SessionInv, TokensApart, Ordered, [Next]_vars PROVE Ordered'
<1> USE Roles DEF service, cred, ctxs, local, history
<1>b. /\ pc \in [Proc -> Point] /\ cand \in [Proc -> User \cup {NoUser}]
      /\ Workers \subseteq Proc /\ Logins \subseteq Proc /\ Main \in Proc
      /\ Main \notin Workers /\ Main \notin Logins
      /\ \A p \in Workers : p \notin Logins
  BY DEF TypeInv, Control, Locals, Proc
<1>o. ASSUME NEW q \in Proc, pc[q] \in Critical, NEW p \in Workers, p # q
      PROVE  pc[p] \notin Refreshing
  BY <1>b, <1>o, OneOwner DEF Refreshing, Critical
<1>1. ASSUME NEW p \in Proc, Save(p) \/ Swap(p) \/ Retire(p) PROVE Ordered'
  <2>1. /\ ui' = ui /\ disk' \in {disk, ui} /\ cand' = cand
        /\ pc[p] \in {"stage", "publish", "swap", "retire"}
    BY <1>1 DEF Save, StageOk, SaveFails, PublishOk, Swap, Retire
  <2>2. PICK m : /\ pc' = [pc EXCEPT ![p] = m]
                 /\ m \in Refreshing => pc[p] \in Refreshing
    <3>1. then[p] \in Then
      BY DEF TypeInv, Control
    <3> QED BY <1>1, <3>1 DEF Save, StageOk, SaveFails, PublishOk, Swap, Retire,
            Goto, At, Refreshing, Then
  <2> QED BY <1>b, <2>1, <2>2, OrderedSame
<1>2. ASSUME NEW p \in Workers, Work(p) PROVE Ordered'
  <2>1. CASE ServiceRefreshes(p) \/ BuildRefreshed(p)
    <3>1. /\ ui' = ui /\ disk' = disk /\ pc[p] \in {"post", "reply"}
          /\ ui \in User /\ ui # NoUser
      BY <2>1 DEF ServiceRefreshes, BuildRefreshed, TypeInv, Data, CandidateHeld
    <3>2. PICK m : pc' = [pc EXCEPT ![p] = m]
      BY <2>1 DEF ServiceRefreshes, BuildRefreshed, Goto, At
    <3>3. \A q \in Workers : pc'[q] \in Refreshing => q = p
      BY <1>b, <1>o, <3>1, <3>2 DEF Critical
    <3>4. CASE ServiceRefreshes(p)
      <4>1. PICK r \in {ui.rt, ver + 1}, x \in {ui.rx, ver + 1} :
              cand' = [cand EXCEPT ![p] = Refreshed(ui, ver + 1, r, x)]
        BY <3>4 DEF ServiceRefreshes
      <4>2. cand'[p].rt = r /\ cand'[p].prof = ui.prof
        BY <1>b, <3>1, <4>1 DEF User, Refreshed
      <4>3. ui.rt <= ver /\ ver \in Nat
        BY <3>1 DEF TokensApart, Apart, TypeInv, Data
      <4>4. Newer(cand'[p], ui)
        BY <3>1, <4>2, <4>3, Fields DEF Newer
      <4> QED BY <3>1, <3>3, <4>4 DEF Ordered
    <3>5. CASE BuildRefreshed(p)
      <4>1. PICK k \in {cand[p].key, cand[p].prof} :
              cand' = [cand EXCEPT ![p] = Keyed(cand[p], k)]
        BY <3>5 DEF BuildRefreshed
      <4>2. pc[p] = "reply"
        BY <3>5 DEF BuildRefreshed
      <4>3. cand[p] \in User
        BY <1>b, <4>2 DEF TypeInv, CandidateHeld, Refreshing
      <4>4. cand'[p].rt = cand[p].rt /\ cand'[p].prof = cand[p].prof
        BY <1>b, <4>1, <4>3 DEF User, Keyed
      <4>5. Newer(cand'[p], ui)
        BY <4>2, <4>4 DEF Ordered, Newer, Refreshing
      <4> QED BY <3>1, <3>3, <4>5 DEF Ordered
    <3> QED BY <2>1, <3>4, <3>5
  <2>2. CASE BuildFails(p) \/ Adopt(p)
    <3>1. /\ pc[p] \in Refreshing \cap Critical /\ cand' = cand /\ disk' = disk
          /\ \E m \in {"error", "stage"} : pc' = [pc EXCEPT ![p] = m]
      BY <2>2 DEF BuildFails, KeepRotation, Adopt, Refreshing, Critical, Goto, At
    <3>2. \A q \in Workers : pc'[q] \notin Refreshing
      BY <1>b, <1>o, <3>1 DEF Refreshing
    <3>3. /\ ui \in User /\ ui # NoUser /\ cand[p] \in User
          /\ Newer(cand[p], ui) /\ Newer(ui, disk)
      BY <1>b, <3>1 DEF TypeInv, Data, CandidateHeld, SessionInv, RefreshWithin, Ordered
    <3>4. ui'.rt = cand[p].rt /\ (ui'.prof = ui.prof \/ ui'.prof = cand[p].prof)
      <4>1. CASE BuildFails(p)
        <5>1. ui'.rt = cand[p].rt
          BY <4>1, RefreshDropped DEF Pair
        <5>2. ui' = ui \/ ui' = Rotated(ui, cand[p].rt, cand[p].rx)
          BY <4>1 DEF BuildFails, KeepRotation
        <5> QED BY <3>3, <5>1, <5>2 DEF User, Rotated
      <4>2. CASE Adopt(p)
        BY <4>2 DEF Adopt
      <4> QED BY <2>2, <4>1, <4>2
    <3>5. disk # NoUser => disk \in User
      BY DEF TypeInv, Data
    <3>6. disk # NoUser
      BY <3>3 DEF SessionInv, OneSession
    <3>7. /\ cand[p].rt \in Nat /\ cand[p].prof \in Nat /\ ui.rt \in Nat
          /\ ui.prof \in Nat /\ disk.rt \in Nat /\ disk.prof \in Nat
      BY <3>3, <3>5, <3>6, Fields
    <3>8. Newer(ui', disk')
      BY <3>1, <3>3, <3>4, <3>7 DEF Newer
    <3> QED BY <3>2, <3>8 DEF Ordered
  <2>3. CASE \/ CheckFresh(p) \/ CheckRefuses(p) \/ SendRefresh(p)
             \/ RefreshRejected(p) \/ ReplyLost(p) \/ Leave(p)
             \/ BeginPrepare(p) \/ EndPrepare(p)
    <3>1. ui' = ui /\ disk' = disk /\ \A q \in Proc : q # p => cand'[q] = cand[q]
      BY <1>b, <2>3 DEF CheckFresh, CheckRefuses, SendRefresh, RefreshRejected,
         ReplyLost, Leave, BeginPrepare, EndPrepare
    <3>2. \E m \in {"ok", "error", "post", "ready", "idle", "using"} :
            pc' = [pc EXCEPT ![p] = m]
      BY <2>3 DEF CheckFresh, CheckRefuses, SendRefresh, RefreshRejected,
         ReplyLost, Leave, BeginPrepare, EndPrepare, Goto, At
    <3> QED BY <1>b, <3>1, <3>2, OrderedSame DEF Refreshing
  <2> QED BY <1>2, <2>1, <2>2, <2>3 DEF Work
<1>3. ASSUME NEW p \in Workers, NEW o \in {"prepare", "tick", "force"},
             Enter(p, o)
      PROVE Ordered'
  <2>1. ui' = ui /\ disk' = disk /\ cand' = cand
        /\ \E m \in {"stage", "check"} : pc' = [pc EXCEPT ![p] = m]
    BY <1>3 DEF Enter, Acquire, EntryPoint, At
  <2> QED BY <1>b, <2>1, OrderedSame DEF Refreshing
<1>4. ASSUME NEW l \in Logins, Issued(l) PROVE Ordered'
  <2>1. ui' = ui /\ disk' = disk
        /\ \A q \in Workers : pc'[q] = pc[q] /\ cand'[q] = cand[q]
    BY <1>b, <1>4 DEF Issued, Goto, At
  <2> QED BY <2>1, OrderedSame
<1>5. ASSUME NEW l \in Logins, Login(l) PROVE Ordered'
  <2>1. \A q \in Workers : pc'[q] = pc[q] /\ cand'[q] = cand[q]
    BY <1>b, <1>5 DEF Login, BuildLogin, LoginFails, StageLogin, RejectLogin,
       CommitLogin, LeaveLogin, RequestProfile, AbandonProfile, ApplyProfile,
       Acquire, Goto, At
  <2>2. CASE CommitLogin(l)
    <3>1. pc[l] = "commit" /\ ui' = cand[l] /\ disk' = cand[l]
      BY <2>2 DEF CommitLogin, PublishLogin
    <3>2. cand[l] \in User
      BY <1>b, <3>1 DEF TypeInv, CandidateHeld
    <3>3. \A q \in Workers : pc'[q] \notin Refreshing
      BY <1>b, <1>o, <2>1, <3>1 DEF Critical
    <3> QED BY <3>1, <3>2, <3>3, NewerSame DEF Ordered
  <2>3. CASE ApplyProfile(l)
    <3>1. /\ ui \in User /\ ui' \in User /\ disk' = disk /\ ui'.rt = ui.rt
          /\ pc[l] = "fetching" /\ mu = Nobody
      BY <2>3, ProfileApplied DEF ApplyProfile, Pair
    <3>2. ui # NoUser /\ ui.tok = cand[l].tok /\ Fits(ui, ver, pc, cand)
      BY <2>3 DEF ApplyProfile, Superseded, SessionInv, UsersFit
    <3>3. ui.sess = cand[l].sess /\ ui.prof \in {Bare, ui.sess}
      BY <3>1, <3>2 DEF Fits, Owns
    <3>4. ui'.prof = ui.sess
      <4>1. Enriched(ui, cand[l].sess).prof = ui.sess
        BY <3>1, <3>3 DEF User, Enriched
      <4>2. WithFields(Enriched(ui, cand[l].sess)).prof = ui.sess
        BY <3>1, <3>3 DEF User, Enriched, WithFields, Keyed
      <4> QED BY <2>3, <4>1, <4>2 DEF ApplyProfile
    <3>5. Newer(ui, disk) /\ disk # NoUser /\ disk \in User
      BY <3>2 DEF Ordered, SessionInv, OneSession, TypeInv, Data
    <3>6. /\ ui.rt \in Nat /\ ui.prof \in Nat /\ ui.sess \in Nat
          /\ disk.rt \in Nat /\ disk.prof \in Nat
      BY <3>1, <3>5, Fields
    <3>7. Newer(ui', disk')
      BY <3>1, <3>3, <3>4, <3>5, <3>6 DEF Newer, Bare
    <3>8. \A q \in Workers : pc'[q] \notin Refreshing
      BY <1>b, <2>1, <3>1, Sentinels DEF TypeInv, MuOwner, Refreshing, Critical
    <3> QED BY <3>7, <3>8 DEF Ordered
  <2>4. CASE \/ BuildLogin(l) \/ LoginFails(l) \/ StageLogin(l) \/ RejectLogin(l)
             \/ LeaveLogin(l) \/ RequestProfile(l) \/ AbandonProfile(l)
    <3>1. ui' = ui /\ disk' = disk
      BY <2>4 DEF BuildLogin, LoginFails, StageLogin, RejectLogin, LeaveLogin,
         RequestProfile, AbandonProfile
    <3> QED BY <2>1, <3>1, OrderedSame
  <2> QED BY <1>5, <2>2, <2>3, <2>4 DEF Login
<1>6. CASE Load
  <2>1. /\ disk' = disk /\ \A q \in Workers : pc[q] = "idle"
        /\ \A q \in Workers : pc'[q] = pc[q]
    BY <1>b, <1>6 DEF Load, At, TypeInv, DownIdle
  <2>2. disk \in User
    BY <1>6, FileLoaded
  <2>3. ui'.rt = disk.rt /\ ui'.prof = disk.prof
    <3>1. WithFields(disk).rt = disk.rt /\ WithFields(disk).prof = disk.prof
      BY <2>2 DEF User, WithFields, Keyed
    <3> QED BY <1>6, <3>1 DEF Load
  <2>4. Newer(ui', disk')
    BY <2>1, <2>2, <2>3, Fields DEF Newer
  <2> QED BY <2>1, <2>4 DEF Ordered, Refreshing
<1>7. CASE StartLogin \/ Loaded \/ Close \/ Closing \/ CloseContext
  <2>1. ui' = ui /\ disk' = disk /\ cand' = cand
        /\ \A q \in Workers : pc'[q] = pc[q]
    BY <1>b, <1>7 DEF StartLogin, Loaded, Close, Closing, CloseContext, Acquire,
       Goto, At
  <2> QED BY <2>1, OrderedSame
<1>8. CASE Stop
  <2>1. ui' = NoUser /\ disk' = disk /\ \A q \in Workers : pc'[q] = "idle"
    BY <1>b, <1>8 DEF Stop
  <2> QED BY <2>1, OrderedSame DEF Refreshing
<1>9. CASE HoldoffElapses \/ UNCHANGED vars
  BY <1>9, OrderedSame DEF HoldoffElapses, vars
<1> QED BY <1>1, <1>2, <1>3, <1>4, <1>5, <1>6, <1>7, <1>8, <1>9 DEF Next

LEMMA AlwaysOrdered == Spec => [](SessionsApart /\ Ordered)
<1>1. Init => SessionsApart /\ Ordered
  <2> SUFFICES ASSUME Init PROVE SessionsApart /\ Ordered
    OBVIOUS
  <2>1. /\ ver = 1 /\ ui = NoUser /\ (disk # NoUser => disk.sess = 1)
        /\ \A p \in Workers \cup Logins : pc[p] = "idle"
    BY Roles DEF Init, Proc, InitialUsers
  <2> QED BY <2>1 DEF SessionsApart, Ordered, Refreshing, Pending
<1>2. /\ TypeInv /\ SessionInv /\ TokenInv /\ SessionsApart /\ Ordered /\ [Next]_vars
      => SessionsApart' /\ Ordered'
  BY SessionsApartStep, OrderedStep DEF TokenInv
<1> QED BY <1>1, <1>2, AlwaysTypeInv, AlwaysSessionInv, AlwaysTokenInv, PTL DEF Spec

\* Only a save and a committed login write the file: the first never puts back
\* an older refresh token or takes the profile away, and the second begins a
\* session no file has had, whatever refreshes, enrichments and failed saves
\* came between.
THEOREM FileAdvances == Spec => DiskNeverRegresses
<1> DEFINE Advances == disk # NoUser /\ disk' # NoUser /\ disk'.sess = disk.sess
                         => disk'.rt >= disk.rt /\ disk'.prof >= disk.prof
<1>1. ASSUME TypeInv, SessionsApart, Ordered, [Next]_vars PROVE Advances
  <2>1. CASE disk' = disk
    <3>1. disk # NoUser => Newer(disk, disk)
      BY <1>1, NewerSame DEF TypeInv, Data
    <3> QED BY <2>1, <3>1 DEF Newer
  <2>2. ASSUME NEW p \in Proc, PublishOk(p) PROVE Advances
    BY <1>1, <2>2 DEF PublishOk, Ordered, Newer
  <2>3. ASSUME NEW l \in Logins, CommitLogin(l) PROVE Advances
    <3>1. disk' = cand[l] /\ pc[l] \in Pending
      BY <2>3 DEF CommitLogin, PublishLogin, Pending
    <3> QED BY <1>1, <3>1 DEF SessionsApart
  <2>4. \/ disk' = disk
        \/ \E p \in Proc : PublishOk(p)
        \/ \E l \in Logins : CommitLogin(l)
    BY <1>1 DEF Next, Save, StageOk, SaveFails, Swap, Retire, Work, CheckFresh,
       CheckRefuses, SendRefresh, ServiceRefreshes, RefreshRejected, ReplyLost,
       BuildRefreshed, BuildFails, Adopt, Leave, BeginPrepare, EndPrepare, Enter,
       Issued, Login, BuildLogin, LoginFails, StageLogin, RejectLogin, LeaveLogin,
       RequestProfile, AbandonProfile, ApplyProfile, HoldoffElapses, StartLogin,
       Load, Loaded, Close, Closing, CloseContext, Stop, vars
  <2> QED BY <2>1, <2>2, <2>3, <2>4
<1>2. TypeInv /\ SessionsApart /\ Ordered /\ [Next]_vars => [Advances]_vars
  BY <1>1
<1> QED BY <1>2, AlwaysTypeInv, AlwaysOrdered, PTL DEF Spec, DiskNeverRegresses

----------------------------------------------------------------------------
(* The refinement: every step of the manager is a step of CredentialStore  *)
(* or none.                                                                *)

\* The operation of p still owes the file a save: it is in saveLocked, or it has
\* applied a profile and is installing the context for it.
Saving(p) == \/ pc[p] \in {"stage", "publish"}
             \/ p \notin Workers /\ op[p] = "enrich" /\ pc[p] \in {"swap", "retire"}

\* Only a credential in memory is dirty, only a dirty one is saved; a commit is
\* no enrichment, and who waits for ctxMu to install a context has one.
SaveInv ==
  /\ dirty => ui # NoUser
  /\ \A p \in Proc : Saving(p) => dirty
  /\ \A p \in Proc : pc[p] \in {"lstage", "commit"} => op[p] # "enrich"
  /\ \A p \in Proc : pc[p] \in {"swap", "lstage", "commit"} => next[p] # NoCtx

\* A step of p that leaves the others alone, clears the flag only while nobody
\* else is inside and itself owes no save afterwards.
LEMMA SaveKept ==
  ASSUME TypeInv, SaveInv, NEW p \in Proc, NEW l \in Point, NEW o \in Op,
         pc' = [pc EXCEPT ![p] = l],
         op' = [op EXCEPT ![p] = o],
         \A q \in Proc : q # p => next'[q] = next[q],
         dirty' => ui' # NoUser,
         dirty' \/ (dirty => pc[p] \in Critical),
         Saving(p)' => dirty',
         l \in {"lstage", "commit"} => o # "enrich",
         l \in {"swap", "lstage", "commit"} => next'[p] # NoCtx
  PROVE  SaveInv'
<1>1. /\ pc'[p] = l /\ op'[p] = o
      /\ \A q \in Proc : q # p => pc'[q] = pc[q] /\ op'[q] = op[q]
  BY DEF TypeInv, Control
<1>2. ASSUME NEW q \in Proc, Saving(q)' PROVE dirty'
  <2>1. CASE q = p
    BY <1>2, <2>1 DEF Saving
  <2>2. CASE q # p
    <3>1. Saving(q) /\ pc[q] \in Critical
      BY <1>1, <1>2, <2>2 DEF Saving, Critical
    <3>2. dirty
      BY <3>1 DEF SaveInv
    <3>3. pc[p] \notin Critical
      BY <2>2, <3>1, OneOwner
    <3> QED BY <3>2, <3>3
  <2> QED BY <2>1, <2>2
<1>3. \A q \in Proc : pc'[q] \in {"lstage", "commit"} => op'[q] # "enrich"
  BY <1>1 DEF SaveInv
<1>4. \A q \in Proc : pc'[q] \in {"swap", "lstage", "commit"} => next'[q] # NoCtx
  BY <1>1 DEF SaveInv
<1> QED BY <1>2, <1>3, <1>4 DEF SaveInv

\* A step that only moves p, to where it waits for nothing and owes nothing.
LEMMA SaveMoved ==
  ASSUME TypeInv, SaveInv, NEW p \in Proc, NEW l \in Point, NEW o \in Op,
         pc' = [pc EXCEPT ![p] = l],
         op' = [op EXCEPT ![p] = o],
         \A q \in Proc : q # p => next'[q] = next[q],
         dirty' = dirty, ui' = ui,
         l \notin {"stage", "publish", "swap", "retire", "lstage", "commit"}
  PROVE  SaveInv'
<1>1. pc'[p] = l
  BY DEF TypeInv, Control
<1> QED BY <1>1, SaveKept DEF SaveInv, Saving

\* What an operation does not assign, it keeps at its own place.
LEMMA OpKept == TypeInv => \A p \in Proc : op = [op EXCEPT ![p] = op[p]]
BY DEF TypeInv, Control

LEMMA SaveStep ==
  ASSUME TypeInv, TokenInv, SaveInv, [Next]_vars PROVE SaveInv'
<1> USE Roles, Sentinels DEF service, cred, ctxs, local, history
<1>b. /\ pc \in [Proc -> Point] /\ op \in [Proc -> Op] /\ then \in [Proc -> Then]
      /\ next \in [Proc -> Ctx \cup {NoCtx}]
      /\ cand \in [Proc -> User \cup {NoUser}]
      /\ Workers \subseteq Proc /\ Logins \subseteq Proc /\ Main \in Proc
      /\ Main \notin Workers /\ Main \notin Logins
      /\ \A p \in Workers : p \notin Logins
  BY DEF TypeInv, Control, Locals, Proc
<1>p. /\ Then \subseteq Point
      /\ {"idle", "stage", "publish", "check", "post", "reply", "swap", "retire",
          "adopt", "lstage", "commit", "closing", "ok", "error", "ready", "using",
          "polled", "committed", "fetching", "serving", "failed", "drain",
          "closed"} \subseteq Point
      /\ {"prepare", "tick", "force", "login", "enrich", "load", "close"}
           \subseteq Op
  BY DEF Then, Point, Critical, Op
<1>o. \A p \in Proc : op[p] \in Op /\ op = [op EXCEPT ![p] = op[p]]
  BY <1>b, OpKept
<1>1. ASSUME NEW p \in Proc, Save(p) PROVE SaveInv'
  <2>0. /\ pc[p] \in {"stage", "publish"} /\ pc[p] \in Critical
        /\ ui' = ui /\ next' = next /\ op' = op
        /\ then[p] \in {"ok", "error", "check", "closing"}
    BY <1>1, <1>b DEF Save, StageOk, SaveFails, PublishOk, Goto, Critical, Then
  <2>1. dirty /\ ui # NoUser
    BY <2>0 DEF SaveInv, Saving
  <2>2. CASE StageOk(p)
    <3>1. pc' = [pc EXCEPT ![p] = "publish"] /\ dirty'
      BY <2>2 DEF StageOk, Goto, At, MarkDirty
    <3>2. op' = [op EXCEPT ![p] = op[p]]
      BY <1>o, <2>0
    <3> QED BY <1>p, <1>o, <2>0, <2>1, <3>1, <3>2, SaveKept
  <2>3. CASE SaveFails(p) \/ PublishOk(p)
    <3>1. pc' = [pc EXCEPT ![p] = then[p]] /\ pc'[p] = then[p]
      BY <1>b, <2>3 DEF SaveFails, PublishOk, Goto, At
    <3>2. op' = [op EXCEPT ![p] = op[p]]
      BY <1>o, <2>0
    <3>3. ~Saving(p)'
      BY <2>0, <3>1 DEF Saving
    <3> QED BY <1>p, <1>o, <2>0, <2>1, <3>1, <3>2, <3>3, SaveKept
  <2> QED BY <1>1, <2>2, <2>3 DEF Save
<1>2. ASSUME NEW p \in Proc, Swap(p) PROVE SaveInv'
  <2>1. /\ pc[p] = "swap" /\ pc' = [pc EXCEPT ![p] = "retire"]
        /\ ui' = ui /\ dirty' = dirty /\ op' = op
        /\ \A q \in Proc : q # p => next'[q] = next[q]
    BY <1>b, <1>2 DEF Swap, Goto, At
  <2>2. op' = [op EXCEPT ![p] = op[p]]
    BY <1>o, <2>1
  <2>3. pc[p] \in Critical /\ (Saving(p)' => Saving(p))
    BY <1>b, <2>1 DEF Saving, Critical
  <2> QED BY <1>p, <1>o, <2>1, <2>2, <2>3, SaveKept DEF SaveInv
<1>3. ASSUME NEW p \in Proc, Retire(p) PROVE SaveInv'
  <2>1. /\ pc[p] = "retire" /\ ui' = ui /\ dirty' = dirty /\ op' = op
        /\ next' = next
    BY <1>3 DEF Retire, Goto
  <2>2. op' = [op EXCEPT ![p] = op[p]]
    BY <1>o, <2>1
  <2>3. pc[p] \in Critical
    BY <2>1 DEF Critical
  <2>4. CASE p \notin Workers /\ op[p] = "enrich"
    <3>1. pc' = [pc EXCEPT ![p] = "stage"] /\ dirty
      BY <1>3, <1>b, <2>1, <2>4 DEF Retire, Goto, At, SaveInv, Saving
    <3> QED BY <1>p, <1>o, <2>1, <2>2, <2>3, <3>1, SaveKept DEF SaveInv
  <2>5. CASE p \in Workers \/ op[p] # "enrich"
    <3>1. PICK l \in {"adopt", "ok"} : pc' = [pc EXCEPT ![p] = l]
      BY <1>3, <2>5 DEF Retire, Goto, At
    <3> QED BY <1>p, <1>o, <2>1, <2>2, <3>1, SaveMoved
  <2> QED BY <2>4, <2>5
<1>4. ASSUME NEW p \in Workers, Work(p) PROVE SaveInv'
  <2>1. p \in Proc /\ p \notin Logins
    BY <1>b
  <2>2. CASE BuildRefreshed(p)
    <3>1. /\ pc[p] = "reply" /\ pc' = [pc EXCEPT ![p] = "swap"]
          /\ ui' = ui /\ dirty' = dirty /\ op' = op
      BY <2>2 DEF BuildRefreshed, Goto, At
    <3>2. PICK n \in Ctx : next' = [next EXCEPT ![p] = n]
      BY <2>2, RefreshBuilt
    <3>3. n # NoCtx /\ next'[p] = n /\ \A q \in Proc : q # p => next'[q] = next[q]
      BY <1>b, <2>1, <3>2
    <3>4. op' = [op EXCEPT ![p] = op[p]]
      BY <1>o, <2>1, <3>1
    <3>5. pc[p] \in Critical /\ ~Saving(p)'
      BY <1>b, <2>1, <3>1 DEF Saving, Critical
    <3> QED BY <1>p, <1>o, <2>1, <3>1, <3>3, <3>4, <3>5, SaveKept DEF SaveInv
  <2>3. CASE BuildFails(p) \/ Adopt(p)
    <3>1. /\ pc[p] \in Critical /\ op' = op /\ next' = next
          /\ ui' \in User
      <4>1. CASE BuildFails(p)
        BY <4>1, RefreshDropped DEF BuildFails, KeepRotation, Goto, Critical
      <4>2. CASE Adopt(p)
        BY <1>b, <2>1, <4>2 DEF Adopt, TypeInv, CandidateHeld, Refreshing, Critical
      <4> QED BY <2>3, <4>1, <4>2
    <3>2. op' = [op EXCEPT ![p] = op[p]]
      BY <1>o, <2>1, <3>1
    <3>3. \/ pc' = [pc EXCEPT ![p] = "error"] /\ dirty' = dirty
          \/ pc' = [pc EXCEPT ![p] = "stage"] /\ dirty'
      BY <2>3 DEF BuildFails, KeepRotation, Adopt, Goto, At, MarkDirty
    <3>4. CASE pc' = [pc EXCEPT ![p] = "error"] /\ dirty' = dirty
      <4>1. ~Saving(p)'
        BY <1>b, <2>1, <3>4 DEF Saving
      <4> QED BY <1>p, <1>o, <2>1, <3>1, <3>2, <3>4, <4>1, SaveKept
    <3>5. CASE pc' = [pc EXCEPT ![p] = "stage"] /\ dirty'
      BY <1>p, <1>o, <2>1, <3>1, <3>2, <3>5, SaveKept
    <3> QED BY <3>3, <3>4, <3>5
  <2>4. CASE \/ CheckFresh(p) \/ CheckRefuses(p) \/ SendRefresh(p)
             \/ ServiceRefreshes(p) \/ RefreshRejected(p) \/ ReplyLost(p)
             \/ Leave(p) \/ BeginPrepare(p) \/ EndPrepare(p)
    <3>1. ui' = ui /\ dirty' = dirty /\ op' = op /\ next' = next
      BY <2>4 DEF CheckFresh, CheckRefuses, SendRefresh, ServiceRefreshes,
         RefreshRejected, ReplyLost, Leave, BeginPrepare, EndPrepare, Goto
    <3>2. PICK l \in {"ok", "error", "post", "reply", "ready", "idle", "using"} :
            pc' = [pc EXCEPT ![p] = l]
      BY <2>4 DEF CheckFresh, CheckRefuses, SendRefresh, ServiceRefreshes,
         RefreshRejected, ReplyLost, Leave, BeginPrepare, EndPrepare, Goto, At
    <3>3. op' = [op EXCEPT ![p] = op[p]]
      BY <1>o, <2>1, <3>1
    <3> QED BY <1>p, <1>o, <2>1, <3>1, <3>2, <3>3, SaveMoved
  <2> QED BY <1>4, <2>2, <2>3, <2>4 DEF Work
<1>5. ASSUME NEW p \in Workers, NEW o \in {"prepare", "tick", "force"},
             Enter(p, o)
      PROVE SaveInv'
  <2>1. /\ ui' = ui /\ dirty' = dirty /\ next' = next
        /\ op' = [op EXCEPT ![p] = o]
        /\ \/ pc' = [pc EXCEPT ![p] = "stage"] /\ dirty
           \/ pc' = [pc EXCEPT ![p] = "check"]
    BY <1>5 DEF Enter, Acquire, EntryPoint, At
  <2>2. CASE pc' = [pc EXCEPT ![p] = "stage"] /\ dirty
    BY <1>b, <1>p, <2>1, <2>2, SaveKept DEF SaveInv
  <2>3. CASE pc' = [pc EXCEPT ![p] = "check"]
    BY <1>b, <1>p, <2>1, <2>3, SaveMoved
  <2> QED BY <2>1, <2>2, <2>3
<1>6. ASSUME NEW l \in Logins, Issued(l) PROVE SaveInv'
  <2>1. /\ ui' = ui /\ dirty' = dirty /\ next' = next /\ op' = op
        /\ pc' = [pc EXCEPT ![l] = "polled"]
    BY <1>6 DEF Issued, Goto, At
  <2>2. op' = [op EXCEPT ![l] = op[l]]
    BY <1>b, <1>o, <2>1
  <2> QED BY <1>b, <1>p, <1>o, <2>1, <2>2, SaveMoved
<1>7. ASSUME NEW l \in Logins, Login(l) PROVE SaveInv'
  <2>1. CASE BuildLogin(l)
    <3>1. /\ ui' = ui /\ dirty' = dirty /\ op' = [op EXCEPT ![l] = "login"]
          /\ pc' = [pc EXCEPT ![l] = "lstage"]
      BY <2>1 DEF BuildLogin, Acquire, At
    <3>2. PICK n \in Ctx : next' = [next EXCEPT ![l] = n]
      BY <2>1, LoginBuilt
    <3>3. n # NoCtx /\ next'[l] = n /\ \A q \in Proc : q # l => next'[q] = next[q]
      BY <1>b, <3>2
    <3>4. ~Saving(l)'
      BY <1>b, <3>1 DEF Saving
    <3>5. dirty' \/ ~dirty
      BY <3>1 DEF TypeInv, Flags
    <3> QED BY <1>b, <1>p, <3>1, <3>3, <3>4, <3>5, SaveKept DEF SaveInv
  <2>2. CASE StageLogin(l)
    <3>1. /\ pc[l] = "lstage" /\ ui' = ui /\ dirty' = dirty /\ op' = op
          /\ next' = next /\ pc' = [pc EXCEPT ![l] = "commit"]
      BY <2>2 DEF StageLogin, Goto, At
    <3>2. op' = [op EXCEPT ![l] = op[l]]
      BY <1>b, <1>o, <3>1
    <3>3. /\ ~Saving(l)' /\ op[l] # "enrich" /\ next'[l] # NoCtx
          /\ pc[l] \in Critical
      BY <1>b, <3>1 DEF Saving, SaveInv, Critical
    <3> QED BY <1>b, <1>p, <1>o, <3>1, <3>2, <3>3, SaveKept DEF SaveInv
  <2>3. CASE RejectLogin(l)
    <3>1. /\ ui' = ui /\ dirty' = dirty /\ op' = op
          /\ next' = [next EXCEPT ![l] = NoCtx]
          /\ pc' = [pc EXCEPT ![l] = "error"]
      BY <2>3 DEF RejectLogin, Goto, At
    <3>2. op' = [op EXCEPT ![l] = op[l]]
      BY <1>b, <1>o, <3>1
    <3>3. \A q \in Proc : q # l => next'[q] = next[q]
      BY <1>b, <3>1
    <3> QED BY <1>b, <1>p, <1>o, <3>1, <3>2, <3>3, SaveMoved
  <2>4. CASE CommitLogin(l)
    <3>1. /\ pc[l] = "commit" /\ ui' = cand[l] /\ ~dirty' /\ op' = op
          /\ next' = [next EXCEPT ![l] = NoCtx]
          /\ pc' = [pc EXCEPT ![l] = "retire"]
      BY <2>4 DEF CommitLogin, ClearDirty, Goto, At
    <3>2. op' = [op EXCEPT ![l] = op[l]]
      BY <1>b, <1>o, <3>1
    <3>3. \A q \in Proc : q # l => next'[q] = next[q]
      BY <1>b, <3>1
    <3>4. pc[l] \in Critical /\ ~Saving(l)'
      BY <1>b, <3>1 DEF Saving, SaveInv, Critical
    <3> QED BY <1>b, <1>p, <1>o, <3>1, <3>2, <3>3, <3>4, SaveKept
  <2>5. CASE ApplyProfile(l)
    <3>1. ui' # NoUser /\ dirty' /\ op' = [op EXCEPT ![l] = "enrich"]
      BY <2>5, ProfileApplied DEF ApplyProfile, MarkDirty
    <3>2. \/ pc' = [pc EXCEPT ![l] = "stage"] /\ next' = next
          \/ \E i \in CtxId : /\ pc' = [pc EXCEPT ![l] = "swap"]
                              /\ ui'.key # NoKey
                              /\ next' = [next EXCEPT ![l] = CtxFor(ui', i)]
      BY <2>5 DEF ApplyProfile, At
    <3>3. CASE pc' = [pc EXCEPT ![l] = "stage"] /\ next' = next
      BY <1>b, <1>p, <3>1, <3>3, SaveKept
    <3>4. ASSUME NEW i \in CtxId, pc' = [pc EXCEPT ![l] = "swap"],
                 ui'.key # NoKey, next' = [next EXCEPT ![l] = CtxFor(ui', i)]
          PROVE  SaveInv'
      <4>1. CtxFor(ui', i) \in Ctx
        BY <2>5, <3>4, ProfileApplied, Contexts
      <4>2. /\ next'[l] # NoCtx
            /\ \A q \in Proc : q # l => next'[q] = next[q]
        BY <1>b, <3>4, <4>1
      <4> QED BY <1>b, <1>p, <3>1, <3>4, <4>2, SaveKept
    <3> QED BY <3>2, <3>3, <3>4
  <2>6. CASE \/ LoginFails(l) \/ LeaveLogin(l) \/ RequestProfile(l)
             \/ AbandonProfile(l)
    <3>1. ui' = ui /\ dirty' = dirty /\ op' = op /\ next' = next
      BY <2>6 DEF LoginFails, LeaveLogin, RequestProfile, AbandonProfile, Goto
    <3>2. PICK m \in {"idle", "committed", "fetching"} : pc' = [pc EXCEPT ![l] = m]
      BY <2>6 DEF LoginFails, LeaveLogin, RequestProfile, AbandonProfile, Goto, At
    <3>3. op' = [op EXCEPT ![l] = op[l]]
      BY <1>b, <1>o, <3>1
    <3> QED BY <1>b, <1>p, <1>o, <3>1, <3>2, <3>3, SaveMoved
  <2> QED BY <1>7, <2>1, <2>2, <2>3, <2>4, <2>5, <2>6 DEF Login
<1>8. CASE Load
  <2>1. /\ ui' # NoUser /\ ~dirty /\ op' = [op EXCEPT ![Main] = "load"]
    <3>1. ui = NoUser
      BY <1>8 DEF Load, TokenInv, SpendsToken
    <3> QED BY <1>8, <3>1, FileLoaded DEF Load, SaveInv
  <2>2. \/ pc' = [pc EXCEPT ![Main] = "error"] /\ next' = next
        \/ \E i \in CtxId : /\ pc' = [pc EXCEPT ![Main] = "swap"]
                            /\ ui'.key # NoKey
                            /\ next' = [next EXCEPT ![Main] = CtxFor(ui', i)]
    BY <1>8 DEF Load, At
  <2>3. CASE pc' = [pc EXCEPT ![Main] = "error"] /\ next' = next
    <3>1. ~Saving(Main)'
      BY <1>b, <2>3 DEF Saving
    <3> QED BY <1>b, <1>p, <2>1, <2>3, <3>1, SaveKept
  <2>4. ASSUME NEW i \in CtxId, pc' = [pc EXCEPT ![Main] = "swap"],
               ui'.key # NoKey, next' = [next EXCEPT ![Main] = CtxFor(ui', i)]
        PROVE  SaveInv'
    <3>1. CtxFor(ui', i) \in Ctx
      BY <1>8, <2>4, FileLoaded, Contexts
    <3>2. /\ next'[Main] # NoCtx
          /\ \A q \in Proc : q # Main => next'[q] = next[q]
      BY <1>b, <2>4, <3>1
    <3>3. ~Saving(Main)'
      BY <1>b, <2>1, <2>4 DEF Saving
    <3> QED BY <1>b, <1>p, <2>1, <2>4, <3>2, <3>3, SaveKept
  <2> QED BY <2>2, <2>3, <2>4
<1>9. CASE StartLogin \/ Loaded \/ Closing \/ CloseContext
  <2>1. ui' = ui /\ dirty' = dirty /\ op' = op /\ next' = next
    BY <1>9 DEF StartLogin, Loaded, Closing, CloseContext, Goto
  <2>2. PICK m \in {"serving", "failed", "drain", "closed"} :
          pc' = [pc EXCEPT ![Main] = m]
    BY <1>9 DEF StartLogin, Loaded, Closing, CloseContext, Goto, At
  <2>3. op' = [op EXCEPT ![Main] = op[Main]]
    BY <1>b, <1>o, <2>1
  <2> QED BY <1>b, <1>p, <1>o, <2>1, <2>2, <2>3, SaveMoved
<1>10. CASE Close
  <2>1. /\ ui' = ui /\ dirty' = dirty /\ next' = next
        /\ op' = [op EXCEPT ![Main] = "close"]
        /\ \/ pc' = [pc EXCEPT ![Main] = "stage"] /\ dirty
           \/ pc' = [pc EXCEPT ![Main] = "closing"]
    BY <1>10 DEF Close, Acquire, At
  <2>2. CASE pc' = [pc EXCEPT ![Main] = "stage"] /\ dirty
    BY <1>b, <1>p, <2>1, <2>2, SaveKept DEF SaveInv
  <2>3. CASE pc' = [pc EXCEPT ![Main] = "closing"]
    BY <1>b, <1>p, <2>1, <2>3, SaveMoved
  <2> QED BY <2>1, <2>2, <2>3
<1>11. CASE Stop
  BY <1>b, <1>11 DEF Stop, SaveInv, Saving, ClearDirty
<1>12. CASE HoldoffElapses \/ UNCHANGED vars
  BY <1>12 DEF HoldoffElapses, vars, SaveInv, Saving
<1> QED BY <1>1, <1>2, <1>3, <1>4, <1>5, <1>6, <1>7, <1>8, <1>9, <1>10, <1>11,
           <1>12
        DEF Next

LEMMA AlwaysSaveInv == Spec => []SaveInv
<1>1. Init => SaveInv
  <2> SUFFICES ASSUME Init PROVE SaveInv
    OBVIOUS
  <2>1. ~dirty /\ \A p \in Proc : pc[p] \in {"down", "idle"} /\ op[p] = "none"
    BY DEF Init
  <2> QED BY <2>1 DEF SaveInv, Saving
<1>2. TypeInv /\ TokenInv /\ SaveInv /\ [Next]_vars => SaveInv'
  BY SaveStep
<1> QED BY <1>1, <1>2, AlwaysTypeInv, AlwaysTokenInv, PTL DEF Spec

\* Everything the refinement rests on.
StoreInv == /\ TypeInv /\ ContextInv /\ SessionInv /\ TokenInv
            /\ SessionsApart /\ Ordered /\ SaveInv

\* Nobody is inside a closed manager.
LEMMA InsideOpen ==
  ASSUME TypeInv, ContextInv, NEW p \in Proc, pc[p] \in Critical
  PROVE  ~closed
BY Sentinels DEF TypeInv, MuOwner, ContextInv, Quiet

\* The stutters of the mapping.
LEMMA StoreSame ==
  UNCHANGED <<disk, ui, dirty, protoCtx, closed>> => UNCHANGED Store!vars
BY DEF Store!vars, Signing

LEMMA StoreInit == Init => Store!Init
<1> SUFFICES ASSUME Init PROVE Store!Init
  OBVIOUS
<1>1. disk \in User \cup {NoUser}
  BY InitTypeInv DEF TypeInv, Data
<1> QED BY <1>1 DEF Init, Store!Init, Signing

\* What a refresh installs, whole or only its rotation, succeeds the user.
LEMMA RefreshSucceeds ==
  ASSUME StoreInv, NEW p \in Workers, BuildFails(p) \/ Adopt(p)
  PROVE  Store!Next \/ UNCHANGED Store!vars
<1> USE DEF StoreInv
<1>1. /\ pc[p] \in Refreshing \cap Critical /\ p \in Proc
      /\ UNCHANGED <<disk, protoCtx, closed>>
  BY DEF BuildFails, KeepRotation, Adopt, Refreshing, Critical, ctxs, Proc
<1>2. ~closed
  BY <1>1, InsideOpen
<1>3. /\ ui \in User /\ ui # NoUser /\ cand[p] \in User
      /\ Newer(cand[p], ui) /\ cand[p].sess = ui.sess
      /\ Owns(cand[p])
  BY <1>1, Sentinels DEF TypeInv, Data, Locals, CandidateHeld, SessionInv,
     RefreshWithin, UsersFit, Fits, Ordered
<1>4. /\ cand[p].rt \in Nat /\ cand[p].rx \in Nat /\ cand[p].prof \in Nat
      /\ ui.rt \in Nat /\ ui.prof \in Nat
  BY <1>3, Fields
<1>5. cand[p].rt >= ui.rt /\ cand[p].prof \in {ui.prof, ui.sess}
  BY <1>3, <1>4 DEF Newer, Owns, Bare
<1>6. CASE UNCHANGED <<ui, dirty>>
  BY <1>1, <1>6, StoreSame
<1>7. CASE /\ dirty' = TRUE
           /\ ui' \in {cand[p], Rotated(ui, cand[p].rt, cand[p].rx)}
  <2>1. /\ Rotated(ui, cand[p].rt, cand[p].rx) \in User
        /\ Rotated(ui, cand[p].rt, cand[p].rx).sess = ui.sess
        /\ Rotated(ui, cand[p].rt, cand[p].rx).prof = ui.prof
        /\ Rotated(ui, cand[p].rt, cand[p].rx).rt = cand[p].rt
    BY <1>3, <1>4 DEF User, Rotated
  <2>2. /\ ui' \in User
        /\ ui'.sess = ui.sess /\ ui'.rt >= ui.rt
        /\ ui'.prof \in {ui.prof, ui.sess}
    BY <1>3, <1>5, <1>7, <2>1
  <2>3. Store!Succeeds(ui', ui)
    BY <2>2 DEF Store!Succeeds
  <2>4. Signing' = Signing
    BY <1>1 DEF Signing
  <2>5. Store!Renew
    BY <1>1, <1>2, <1>3, <1>7, <2>2, <2>3, <2>4 DEF Store!Renew
  <2> QED BY <2>5 DEF Store!Next
<1>8. \/ UNCHANGED <<ui, dirty>>
      \/ /\ dirty' = TRUE
         /\ ui' \in {cand[p], Rotated(ui, cand[p].rt, cand[p].rx)}
  BY DEF BuildFails, KeepRotation, Adopt, MarkDirty, cred
<1> QED BY <1>6, <1>7, <1>8

\* A profile that comes back is added to the user of the login that asked.
LEMMA ProfileSucceeds ==
  ASSUME StoreInv, NEW l \in Logins, ApplyProfile(l)
  PROVE  Store!Next
<1> USE DEF StoreInv
<1>1. /\ ui \in User /\ ui' \in User /\ ui'.rt = ui.rt
      /\ pc[l] = "fetching" /\ dirty' = TRUE
      /\ UNCHANGED <<disk, protoCtx, closed>>
  BY ProfileApplied DEF ApplyProfile, Pair, MarkDirty
<1>2. ~closed /\ ui # NoUser /\ ui.tok = cand[l].tok /\ Fits(ui, ver, pc, cand)
  BY DEF ApplyProfile, Superseded, SessionInv, UsersFit
<1>3. ui.sess = cand[l].sess
  BY <1>1, <1>2 DEF Fits
<1>4. ui'.prof = ui.sess /\ ui'.sess = ui.sess
  <2>1. /\ Enriched(ui, cand[l].sess).prof = ui.sess
        /\ Enriched(ui, cand[l].sess).sess = ui.sess
    BY <1>1, <1>3 DEF User, Enriched
  <2>2. /\ WithFields(Enriched(ui, cand[l].sess)).prof = ui.sess
        /\ WithFields(Enriched(ui, cand[l].sess)).sess = ui.sess
    BY <1>1, <1>3 DEF User, Enriched, WithFields, Keyed
  <2> QED BY <2>1, <2>2 DEF ApplyProfile
<1>5. Store!Succeeds(ui', ui)
  BY <1>1, <1>4, Fields DEF Store!Succeeds
<1>6. Signing' = Signing
  BY <1>1 DEF Signing
<1>7. Store!Renew
  BY <1>1, <1>2, <1>5, <1>6 DEF Store!Renew
<1> QED BY <1>7 DEF Store!Next

\* A login replaces file, memory and signing session in its one commit.
LEMMA CommitReplaces ==
  ASSUME StoreInv, NEW l \in Logins, CommitLogin(l)
  PROVE  Store!Next
<1> USE DEF StoreInv
<1>1. /\ pc[l] = "commit" /\ disk' = cand[l] /\ ui' = cand[l]
      /\ protoCtx' = next[l] /\ dirty' = FALSE /\ closed' = closed /\ l \in Proc
  BY DEF CommitLogin, PublishLogin, ClearDirty, Proc
<1>2. ~closed
  BY <1>1, InsideOpen DEF Critical
<1>3. cand[l] \in User
  BY <1>1 DEF TypeInv, Locals, CandidateHeld
<1>4. disk # NoUser => cand[l].sess # disk.sess
  BY <1>1 DEF SessionsApart, Pending
<1>5. next[l] # NoCtx /\ next[l].sess = cand[l].sess
  BY <1>1 DEF SaveInv, SessionInv, NextFits
<1>6. Signing' = cand[l].sess
  BY <1>1, <1>5 DEF Signing
<1>7. Store!Login
  BY <1>1, <1>2, <1>3, <1>4, <1>6 DEF Store!Login
<1> QED BY <1>7 DEF Store!Next

\* A file that is loaded is only completed, and dirty at once when it is.
LEMMA LoadCompletes ==
  ASSUME StoreInv, Load
  PROVE  Store!Next
<1> USE DEF StoreInv
<1>1. /\ pc[Main] = "down" /\ disk # NoUser
      /\ UNCHANGED <<disk, protoCtx, closed>>
      /\ dirty' = (ui' # disk)
  BY DEF Load
<1>2. ui = NoUser /\ ~closed
  BY <1>1 DEF TokenInv, SpendsToken, ContextInv, Quiet
<1>3. disk \in User /\ ui' \in User
  BY FileLoaded
<1>4. ui'.sess = disk.sess /\ ui'.rt = disk.rt /\ ui'.prof = disk.prof
  <2>1. /\ WithFields(disk).sess = disk.sess /\ WithFields(disk).rt = disk.rt
        /\ WithFields(disk).prof = disk.prof
    BY <1>3 DEF User, WithFields, Keyed
  <2> QED BY <2>1 DEF Load
<1>5. Store!Succeeds(ui', disk)
  BY <1>3, <1>4, Fields DEF Store!Succeeds
<1>6. Signing' = Signing
  BY <1>1 DEF Signing
<1>7. Store!Load
  BY <1>1, <1>2, <1>3, <1>4, <1>5, <1>6 DEF Store!Load
<1> QED BY <1>7 DEF Store!Next

\* Each remaining action is the step of the store it is named for, or none.
LEMMA StoreStep == StoreInv /\ [Next]_vars => [Store!Next]_(Store!vars)
<1> SUFFICES ASSUME StoreInv, [Next]_vars
             PROVE  Store!Next \/ UNCHANGED Store!vars
  OBVIOUS
<1> USE DEF service, cred, ctxs, local, history
<1>1. ASSUME NEW p \in Proc, Save(p)
      PROVE  Store!Next \/ UNCHANGED Store!vars
  <2>1. pc[p] \in {"stage", "publish"} /\ UNCHANGED <<ui, protoCtx, closed>>
    BY <1>1 DEF Save, StageOk, SaveFails, PublishOk
  <2>2. dirty /\ dirty \in BOOLEAN
    BY <2>1 DEF StoreInv, SaveInv, Saving, TypeInv, Flags
  <2>3. CASE PublishOk(p)
    <3>1. ~closed
      BY <2>1, InsideOpen DEF StoreInv, Critical
    <3>2. Signing' = Signing
      BY <2>1 DEF Signing
    <3>3. Store!Save
      BY <2>1, <2>2, <2>3, <3>1, <3>2 DEF PublishOk, ClearDirty, Store!Save
    <3> QED BY <3>3 DEF Store!Next
  <2>4. CASE StageOk(p) \/ SaveFails(p)
    <3>1. disk' = disk /\ dirty' = TRUE
      BY <2>4 DEF StageOk, SaveFails, MarkDirty
    <3> QED BY <2>1, <2>2, <3>1, StoreSame
  <2> QED BY <1>1, <2>3, <2>4 DEF Save
<1>2. ASSUME NEW p \in Proc, Swap(p) PROVE Store!Next
  <2>1. /\ pc[p] = "swap" /\ protoCtx' = next[p]
        /\ UNCHANGED <<disk, ui, dirty, closed>>
    BY <1>2 DEF Swap
  <2>2. ~closed
    BY <2>1, InsideOpen DEF StoreInv, Critical
  <2>3. ui # NoUser /\ next[p].sess = ui.sess /\ next[p] # NoCtx
    BY <2>1 DEF StoreInv, SessionInv, NextFits, SaveInv
  <2>4. Signing' = ui.sess
    BY <2>1, <2>3 DEF Signing
  <2>5. Store!Sign
    BY <2>1, <2>2, <2>3, <2>4 DEF Store!Sign
  <2> QED BY <2>5 DEF Store!Next
<1>3. ASSUME NEW p \in Workers, BuildFails(p) \/ Adopt(p)
      PROVE  Store!Next \/ UNCHANGED Store!vars
  BY <1>3, RefreshSucceeds
<1>4. ASSUME NEW l \in Logins, ApplyProfile(l) \/ CommitLogin(l)
      PROVE  Store!Next
  BY <1>4, ProfileSucceeds, CommitReplaces
<1>5. CASE Load
  BY <1>5, LoadCompletes
<1>6. CASE Closing
  <2>1. /\ pc[Main] = "closing" /\ closed' = TRUE /\ protoCtx' = NoCtx
        /\ UNCHANGED <<disk, ui, dirty>>
    BY <1>6 DEF Closing
  <2>2. ~closed
    BY <2>1, InsideOpen DEF StoreInv, Critical, Proc
  <2>3. Signing' = NoUser
    BY <2>1 DEF Signing
  <2>4. Store!Close
    BY <2>1, <2>2, <2>3 DEF Store!Close
  <2> QED BY <2>4 DEF Store!Next
<1>7. CASE Stop
  <2>1. Signing' = NoUser
    BY <1>7 DEF Stop, Signing
  <2>2. Store!Stop
    BY <1>7, <2>1 DEF Stop, ClearDirty, Store!Stop
  <2> QED BY <2>2 DEF Store!Next
<1>8. ASSUME NEW p \in Proc, Retire(p) PROVE UNCHANGED Store!vars
  BY <1>8, StoreSame DEF Retire
<1>9. ASSUME NEW p \in Workers, Work(p), ~BuildFails(p), ~Adopt(p)
      PROVE  UNCHANGED Store!vars
  BY <1>9, StoreSame DEF Work, CheckFresh, CheckRefuses, SendRefresh,
     ServiceRefreshes, RefreshRejected, ReplyLost, BuildRefreshed, Leave,
     BeginPrepare, EndPrepare
<1>10. ASSUME NEW p \in Workers, NEW o \in {"prepare", "tick", "force"},
              Enter(p, o)
       PROVE  UNCHANGED Store!vars
  BY <1>10, StoreSame DEF Enter
<1>11. ASSUME NEW l \in Logins, Issued(l) \/ Login(l), ~ApplyProfile(l),
              ~CommitLogin(l)
       PROVE  UNCHANGED Store!vars
  BY <1>11, StoreSame DEF Issued, Login, BuildLogin, LoginFails, StageLogin,
     RejectLogin, LeaveLogin, RequestProfile, AbandonProfile
<1>12. CASE StartLogin \/ Loaded \/ Close \/ CloseContext \/ HoldoffElapses
  BY <1>12, StoreSame DEF StartLogin, Loaded, Close, CloseContext, HoldoffElapses
<1>13. CASE UNCHANGED vars
  BY <1>13, StoreSame DEF vars
<1> QED BY <1>1, <1>2, <1>3, <1>4, <1>5, <1>6, <1>7, <1>8, <1>9, <1>10, <1>11,
           <1>12, <1>13
        DEF Next

\* KeepsCredentials of the run auth: for any number of requests, logins,
\* contexts and answers of the service, the manager implements CredentialStore.
THEOREM ImplementsStore == Spec => KeepsCredentials
<1>1. Spec => []StoreInv
  BY AlwaysTypeInv, AlwaysContextInv, AlwaysSessionInv, AlwaysTokenInv,
     AlwaysOrdered, AlwaysSaveInv, PTL DEF StoreInv
<1> QED BY <1>1, StoreInit, StoreStep, PTL DEF Spec, KeepsCredentials, Store!Spec

=============================================================================
