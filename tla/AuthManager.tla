---------------------------- MODULE AuthManager ----------------------------
(***************************************************************************)
(* The credential manager of auth.go in its read-write mode: the userInfo  *)
(* in memory, the credential file on disk, the protocol context requests   *)
(* are signed with, and the goroutines that compete for them.              *)
(*                                                                         *)
(* a.mu serialises every operation (mu holds its owner); a.ctxMu is a      *)
(* reader/writer lock: a goroutine at "using" holds it for reading, one at *)
(* "swap", "commit" or "closing" has called Lock() and waits for the       *)
(* readers, and (sync.RWMutex) no new reader enters while it waits.        *)
(*                                                                         *)
(* Version numbers stand for the opaque strings of the service: every      *)
(* answer of the service that issues something draws the next one.  A      *)
(* userInfo object is allocated exactly when an access token is issued, so *)
(* the number of its access token is also its identity (the *userInfo      *)
(* pointer fetchUserInfo compares).                                        *)
(***************************************************************************)
EXTENDS Naturals

CONSTANTS
  Workers,    \* goroutines of inference requests and of the refresh ticker
  Logins,     \* goroutines running deviceLogin or patLogin
  Main,       \* the goroutine of run: loads, serves, closes
  CtxId,      \* identities of protocol contexts
  NoUser,     \* the nil *userInfo; on disk: no credential file
  NoCtx,      \* the nil protocolContext
  Nobody,     \* no owner of a.mu
  NoKey,      \* EncryptUserInfo and Key not generated yet
  MaxVersion  \* bound: how many answers of the service issue something

Proc == Workers \cup Logins \cup {Main}

\* The profile of a login that has not been enriched.
Bare == 0

\* rt, rx: refresh token and its expiry, 0 when absent.  prof: the login whose
\* profile the object carries; key: the profile its runtime fields encode.
User == [sess : Nat, tok : Nat, rt : Nat, rx : Nat, prof : Nat,
         key : Nat \cup {NoKey}]

\* A context is never built without runtime fields.
Ctx == [id : CtxId, sess : Nat, prof : Nat, key : Nat]

Pair(u) == [rt |-> u.rt, rx |-> u.rx]

\* A user after a refresh, after a rotation alone, with a profile, with fields.
Refreshed(u, t, r, x) == [u EXCEPT !.tok = t, !.rt = r, !.rx = x]
Rotated(u, r, x)      == [u EXCEPT !.rt = r, !.rx = x]
Enriched(u, f)        == [u EXCEPT !.prof = f]
Keyed(u, k)           == [u EXCEPT !.key = k]

ASSUME Sentinels == /\ NoUser \notin User
                    /\ NoCtx \notin Ctx
                    /\ Nobody \notin Proc
                    /\ NoKey \notin Nat

ASSUME Roles == /\ Main \notin Workers \cup Logins
                /\ Workers \cap Logins = {}

ASSUME Bound == MaxVersion \in Nat

VARIABLES
  disk,      \* the credential file (authFile)
  ver,       \* last version number the service issued
  valid,     \* refresh tokens the service accepts
  ui,        \* a.ui
  dirty,     \* a.credentialDirty
  holdoff,   \* a.credentialPersistRetryAt lies in the future
  protoCtx,  \* a.protoCtx
  closed,    \* a.closed
  open,      \* contexts created and not yet closed
  mu,        \* owner of a.mu
  pc,        \* where each goroutine is
  op,        \* the operation it runs
  then,      \* where it continues after saveLocked returns
  cand,      \* its candidate userInfo
  next,      \* the context it built and has not published
  old,       \* the context it replaced and has not closed
  using,     \* the context whose PrepareInferRequest it runs
  received,  \* history: the pair last received for the session in a.ui
  lost       \* history: the process stopped, or an answer was lost, at a
             \* moment when a rotation was not on disk yet

service == <<ver, valid>>
cred    == <<ui, dirty, holdoff>>
ctxs    == <<protoCtx, closed, open>>
local   == <<cand, next, old>>
history == <<received, lost>>
vars == <<disk, service, cred, ctxs, mu, pc, op, then, local, using, history>>

Idle == {"idle", "down"}

\* The program points at which a goroutine owns a.mu.
Critical == {"stage", "publish", "check", "post", "reply", "swap", "retire",
             "adopt", "lstage", "commit", "closing", "ok", "error"}

\* The program points at which a goroutine has called ctxMu.Lock().
Locking == {"swap", "commit", "closing"}

\* The program points of a refresh whose answer has not reached a.ui.
Refreshing == {"reply", "swap", "retire", "adopt"}

Readers == {p \in Proc : using[p] # NoCtx}

\* ctxMu.Lock() returns.  Mutant: the context is replaced under its readers.
WithoutWaiting == TRUE
NoReaders == Readers = {}

At(p, l) == pc' = [pc EXCEPT ![p] = l]

Goto(p, l) == /\ At(p, l)
              /\ UNCHANGED <<mu, op, then>>

\* a.mu.Lock() followed by the first stretch of operation o.  Mutant: a forced
\* refresh runs without the lock.
AcquireUnlessForced(p, o, l) == /\ mu = Nobody \/ o = "force"
                                /\ mu' = p
                                /\ op' = [op EXCEPT ![p] = o]
                                /\ At(p, l)
Acquire(p, o, l) == /\ mu = Nobody
                    /\ mu' = p
                    /\ op' = [op EXCEPT ![p] = o]
                    /\ At(p, l)

\* The context contextFactory.New returns for u, under an unused identity.
CtxFor(u, i) == [id |-> i, sess |-> u.sess, prof |-> u.prof, key |-> u.key]

FreeId(i) == \A c \in open : c.id # i

\* Mutant: the flag is only set once a save has failed.
MarkNothing == dirty' = dirty /\ holdoff' = FALSE
MarkDirty == dirty' = TRUE /\ holdoff' = FALSE
ClearDirty == dirty' = FALSE /\ holdoff' = FALSE

\* buildContextForUserLocked fills in runtime fields only when it has none.
WithFields(u) == IF u.key = NoKey THEN Keyed(u, u.prof) ELSE u

----------------------------------------------------------------------------
(* saveLocked: stage a temporary file, rename it over the credential file. *)

\* Only persistDirtyCredentialBestEffortLocked sets the retry time.
BestEffort(p) == p \in Workers /\ then[p] # "error"

StageOk(p) ==
  /\ pc[p] = "stage"
  /\ MarkDirty
  /\ Goto(p, "publish")
  /\ UNCHANGED <<disk, service, ui, ctxs, local, using, history>>

\* Mutant: the flag is cleared although nothing was written.
SaveFailsClean(p) ==
  /\ pc[p] \in {"stage", "publish"}
  /\ ClearDirty
  /\ Goto(p, then[p])
  /\ UNCHANGED <<disk, service, ui, ctxs, local, using, history>>

SaveFails(p) ==
  /\ pc[p] \in {"stage", "publish"}
  /\ dirty' = TRUE
  /\ holdoff' = BestEffort(p)
  /\ Goto(p, then[p])
  /\ UNCHANGED <<disk, service, ui, ctxs, local, using, history>>

PublishOk(p) ==
  /\ pc[p] = "publish"
  /\ disk' = ui
  /\ ClearDirty
  /\ Goto(p, then[p])
  /\ UNCHANGED <<service, ui, ctxs, local, using, history>>

\* credentialPersistRetryDelay (30 s) passes.
HoldoffElapses ==
  /\ holdoff
  /\ holdoff' = FALSE
  /\ UNCHANGED <<disk, service, ui, dirty, ctxs, mu, pc, op, then, local,
                 using, history>>

----------------------------------------------------------------------------
(* ensureFresh and forceRefresh.                                           *)

\* persistDirtyCredentialBestEffortLocked on entry.  Mutant: nobody retries.
EntryWithoutSave == "check"
EntryPoint == IF dirty /\ ~holdoff THEN "stage" ELSE "check"

\* o is "prepare" (PrepareInferRequest), "tick" (the ticker's ensureFresh) or
\* "force" (callUpstream's forceRefresh after a 401).
Enter(p, o) ==
  /\ pc[p] = "idle"
  /\ pc[Main] = "serving"
  /\ ~closed
  /\ Acquire(p, o, EntryPoint)
  /\ then' = [then EXCEPT ![p] = "check"]
  /\ UNCHANGED <<disk, service, cred, ctxs, local, using, history>>

\* The access token never expires or is outside the refresh skew.
CheckFresh(p) ==
  /\ pc[p] = "check"
  /\ op[p] # "force"
  /\ ui # NoUser
  /\ Goto(p, "ok")
  /\ UNCHANGED <<disk, service, cred, ctxs, local, using, history>>

CheckRefuses(p) ==
  /\ pc[p] = "check"
  /\ \/ ui = NoUser
     \/ /\ ui # NoUser
        /\ \/ ui.rt = 0
           \/ op[p] # "force" /\ ui.rx # 0
  /\ Goto(p, "error")
  /\ UNCHANGED <<disk, service, cred, ctxs, local, using, history>>

\* refreshLocked posts the refresh token it has.
SendRefresh(p) ==
  /\ pc[p] = "check"
  /\ ui # NoUser
  /\ ui.rt # 0
  /\ Goto(p, "post")
  /\ UNCHANGED <<disk, service, cred, ctxs, local, using, history>>

\* The service answers 200.  It may rotate the refresh token, and then no
\* longer accepts the one it was sent.
ServiceRefreshes(p) ==
  /\ pc[p] = "post"
  /\ ui.rt \in valid
  /\ ver < MaxVersion
  /\ ver' = ver + 1
  /\ \E r \in {ui.rt, ver + 1}, x \in {ui.rx, ver + 1} :
       /\ valid' = (valid \ {ui.rt}) \cup {r}
       /\ cand' = [cand EXCEPT ![p] = Refreshed(ui, ver + 1, r, x)]
  /\ Goto(p, "reply")
  /\ UNCHANGED <<disk, cred, ctxs, next, old, using, history>>

\* Refused, or the request never reached the service.
RefreshRejected(p) ==
  /\ pc[p] = "post"
  /\ Goto(p, "error")
  /\ UNCHANGED <<disk, service, cred, ctxs, local, using, history>>

\* The request's context was cancelled, the 30 s client timeout fired, or the
\* answer does not parse: the service has acted, the manager does not know.
ReplyLost(p) ==
  /\ pc[p] = "reply"
  /\ lost' = (lost \/ cand[p].rt # ui.rt)
  /\ Goto(p, "error")
  /\ UNCHANGED <<disk, service, cred, ctxs, local, using, received>>

\* runtimeFields.Generate is best effort here: the old fields stay if it fails.
BuildRefreshed(p) ==
  /\ pc[p] = "reply"
  /\ received' = Pair(cand[p])
  /\ \E k \in {cand[p].key, cand[p].prof}, i \in CtxId :
       LET c == Keyed(cand[p], k) IN
         /\ k # NoKey
         /\ FreeId(i)
         /\ cand' = [cand EXCEPT ![p] = c]
         /\ next' = [next EXCEPT ![p] = CtxFor(c, i)]
         /\ open' = open \cup {CtxFor(c, i)}
  /\ Goto(p, "swap")
  /\ UNCHANGED <<disk, service, cred, protoCtx, closed, old, using, lost>>

\* preserveRefreshRotationAndSaveLocked: of the candidate only the rotation is
\* kept.  Mutant: the failed refresh drops the whole answer.
DropAnswer(p) == Goto(p, "error") /\ UNCHANGED cred
KeepRotation(p) ==
  IF Pair(cand[p]) = Pair(ui)
    THEN /\ Goto(p, "error")
         /\ UNCHANGED cred
    ELSE /\ ui' = Rotated(ui, cand[p].rt, cand[p].rx)
         /\ MarkDirty
         /\ At(p, "stage")
         /\ then' = [then EXCEPT ![p] = "error"]
         /\ UNCHANGED <<mu, op>>

BuildFails(p) ==
  /\ pc[p] = "reply"
  /\ received' = Pair(cand[p])
  /\ KeepRotation(p)
  /\ UNCHANGED <<disk, service, ctxs, local, using, lost>>

\* replaceContext up to the release of ctxMu.
Swap(p) ==
  /\ pc[p] = "swap"
  /\ NoReaders
  /\ old' = [old EXCEPT ![p] = protoCtx]
  /\ protoCtx' = next[p]
  /\ next' = [next EXCEPT ![p] = NoCtx]
  /\ Goto(p, "retire")
  /\ UNCHANGED <<disk, service, cred, closed, open, cand, using, history>>

\* The replaced context is closed; each caller of replaceContext goes on.
Retire(p) ==
  /\ pc[p] = "retire"
  /\ open' = open \ {old[p]}
  /\ old' = [old EXCEPT ![p] = NoCtx]
  /\ Goto(p, IF p \in Workers THEN "adopt"
             ELSE IF op[p] = "enrich" THEN "stage" ELSE "ok")
  /\ UNCHANGED <<disk, service, cred, protoCtx, closed, cand, next, using,
                 history>>

\* Mutant: the flag is left to the save that follows.
AdoptClean(p) ==
  /\ pc[p] = "adopt"
  /\ ui' = cand[p]
  /\ At(p, "stage")
  /\ then' = [then EXCEPT ![p] = "ok"]
  /\ UNCHANGED <<disk, service, dirty, holdoff, ctxs, mu, op, local, using,
                 history>>

Adopt(p) ==
  /\ pc[p] = "adopt"
  /\ MarkDirty
  /\ ui' = cand[p]
  /\ At(p, "stage")
  /\ then' = [then EXCEPT ![p] = "ok"]
  /\ UNCHANGED <<disk, service, ctxs, mu, op, local, using, history>>

\* a.mu.Unlock(): a request goes on to prepareWithCurrentContext.
Leave(p) ==
  /\ p \in Workers
  /\ pc[p] \in {"ok", "error"}
  /\ mu' = Nobody
  /\ At(p, IF pc[p] = "ok" /\ op[p] = "prepare" THEN "ready" ELSE "idle")
  /\ cand' = [cand EXCEPT ![p] = NoUser]
  /\ UNCHANGED <<disk, service, cred, ctxs, op, then, next, old, using,
                 history>>

----------------------------------------------------------------------------
(* prepareWithCurrentContext: a.mu is free, a.ctxMu is held for reading.   *)

BeginPrepare(p) ==
  /\ pc[p] = "ready"
  /\ \A q \in Proc : pc[q] \notin Locking
  /\ IF closed \/ protoCtx = NoCtx
       THEN Goto(p, "idle") /\ UNCHANGED using
       ELSE Goto(p, "using") /\ using' = [using EXCEPT ![p] = protoCtx]
  /\ UNCHANGED <<disk, service, cred, ctxs, local, history>>

\* Mutant: an error path forgets ctxMu.RUnlock().
EndPrepareLocked(p) ==
  /\ pc[p] = "using"
  /\ Goto(p, "idle")
  /\ UNCHANGED <<disk, service, cred, ctxs, local, using, history>>

EndPrepare(p) ==
  /\ pc[p] = "using"
  /\ using' = [using EXCEPT ![p] = NoCtx]
  /\ Goto(p, "idle")
  /\ UNCHANGED <<disk, service, cred, ctxs, local, history>>

----------------------------------------------------------------------------
(* deviceLogin and patLogin.                                               *)

\* The service issues tokens for a new session; a.mu is not held.  patLogin
\* applies the profile before it commits, deviceLogin afterwards.
Issued(l) ==
  /\ pc[l] = "idle"
  /\ pc[Main] = "serving"
  /\ ver < MaxVersion
  /\ ver' = ver + 1
  /\ \E r \in {0, ver + 1}, x \in {0, ver + 1}, f \in {Bare, ver + 1} :
       /\ valid' = valid \cup ({r} \ {0})
       /\ cand' = [cand EXCEPT ![l] =
                     [sess |-> ver + 1, tok |-> ver + 1, rt |-> r, rx |-> x,
                      prof |-> f, key |-> NoKey]]
  /\ Goto(l, "polled")
  /\ UNCHANGED <<disk, cred, ctxs, next, old, using, history>>

\* commitLoginCandidateLocked up to the staged file.
BuildLogin(l) ==
  /\ pc[l] = "polled"
  /\ ~closed
  /\ Acquire(l, "login", "lstage")
  /\ \E i \in CtxId :
       LET c == WithFields(cand[l]) IN
         /\ FreeId(i)
         /\ cand' = [cand EXCEPT ![l] = c]
         /\ next' = [next EXCEPT ![l] = CtxFor(c, i)]
         /\ open' = open \cup {CtxFor(c, i)}
  /\ UNCHANGED <<disk, service, cred, protoCtx, closed, then, old, using,
                 history>>

\* The manager was closed, or no context can be built for the candidate.
LoginFails(l) ==
  /\ pc[l] = "polled"
  /\ mu = Nobody
  /\ cand' = [cand EXCEPT ![l] = NoUser]
  /\ Goto(l, "idle")
  /\ UNCHANGED <<disk, service, cred, ctxs, next, old, using, history>>

StageLogin(l) ==
  /\ pc[l] = "lstage"
  /\ Goto(l, "commit")
  /\ UNCHANGED <<disk, service, cred, ctxs, local, using, history>>

\* closeRejectedLoginContext.  Mutant: the candidate's context stays open.
KeepRejected(l) == UNCHANGED open
CloseRejected(l) == open' = open \ {next[l]}

\* Staging or the rename failed.
RejectLogin(l) ==
  /\ \/ pc[l] = "lstage"
     \/ pc[l] = "commit" /\ NoReaders
  /\ CloseRejected(l)
  /\ next' = [next EXCEPT ![l] = NoCtx]
  /\ Goto(l, "error")
  /\ UNCHANGED <<disk, service, cred, protoCtx, closed, cand, old, using,
                 history>>

\* The staged file is renamed.  Mutant: its error is ignored.
PublishNothing(l) == UNCHANGED disk
PublishLogin(l) == disk' = cand[l]

\* Under ctxMu: publish the file, install the context and the candidate.
CommitLogin(l) ==
  /\ pc[l] = "commit"
  /\ NoReaders
  /\ PublishLogin(l)
  /\ old' = [old EXCEPT ![l] = protoCtx]
  /\ protoCtx' = next[l]
  /\ next' = [next EXCEPT ![l] = NoCtx]
  /\ ui' = cand[l]
  /\ ClearDirty
  /\ received' = Pair(cand[l])
  /\ lost' = FALSE
  /\ Goto(l, "retire")
  /\ UNCHANGED <<service, closed, open, cand, using>>

\* a.mu.Unlock(): only a committed device login goes on to fetchUserInfo.
LeaveLogin(l) ==
  /\ l \in Logins
  /\ pc[l] \in {"ok", "error"}
  /\ mu' = Nobody
  /\ IF op[l] = "login" /\ pc[l] = "ok" /\ cand[l].prof = Bare
       THEN At(l, "committed") /\ UNCHANGED cand
       ELSE At(l, "idle") /\ cand' = [cand EXCEPT ![l] = NoUser]
  /\ UNCHANGED <<disk, service, cred, ctxs, op, then, next, old, using,
                 history>>

\* closed, or a.ui != target: the object this login committed is no longer
\* current.  Mutants: one half of the check is missing.
ClosedOnly(l) == closed \/ ui = NoUser
OtherUserOnly(l) == ui = NoUser \/ ui.tok # cand[l].tok
Superseded(l) == closed \/ ui = NoUser \/ ui.tok # cand[l].tok

\* fetchUserInfo: the first check under a.mu, then the request without it.
RequestProfile(l) ==
  /\ pc[l] = "committed"
  /\ mu = Nobody
  /\ ~Superseded(l)
  /\ Goto(l, "fetching")
  /\ UNCHANGED <<disk, service, cred, ctxs, local, using, history>>

\* The request failed, or a check finds that the login was superseded.
AbandonProfile(l) ==
  /\ \/ pc[l] = "committed" /\ mu = Nobody /\ Superseded(l)
     \/ pc[l] = "fetching"
  /\ cand' = [cand EXCEPT ![l] = NoUser]
  /\ Goto(l, "idle")
  /\ UNCHANGED <<disk, service, cred, ctxs, next, old, using, history>>

\* fetchUserInfo after the second check: the profile of the login whose token
\* was sent is applied; errors of the rebuild and of the save are ignored.
ApplyProfile(l) ==
  /\ pc[l] = "fetching"
  /\ ~Superseded(l)
  /\ mu = Nobody
  /\ mu' = l
  /\ op' = [op EXCEPT ![l] = "enrich"]
  /\ then' = [then EXCEPT ![l] = "ok"]
  /\ MarkDirty
  /\ LET u == Enriched(ui, cand[l].sess) IN ui' \in {u, WithFields(u)}
  /\ \/ /\ At(l, "stage")
        /\ UNCHANGED <<next, open>>
     \/ \E i \in CtxId :
          /\ ui'.key # NoKey
          /\ FreeId(i)
          /\ At(l, "swap")
          /\ next' = [next EXCEPT ![l] = CtxFor(ui', i)]
          /\ open' = open \cup {CtxFor(ui', i)}
  /\ UNCHANGED <<disk, service, protoCtx, closed, cand, old, using, history>>

----------------------------------------------------------------------------
(* run: start, load, close, stop.                                          *)

\* run with -login or -login-pat: nothing is loaded.
StartLogin ==
  /\ pc[Main] = "down"
  /\ Goto(Main, "serving")
  /\ UNCHANGED <<disk, service, cred, ctxs, local, using, history>>

\* load reads the file, then rebuilds the context.  Runtime fields missing on
\* disk are generated, which makes the credential dirty.
Load ==
  /\ pc[Main] = "down"
  /\ disk # NoUser
  /\ mu' = Main
  /\ op' = [op EXCEPT ![Main] = "load"]
  /\ received' = Pair(disk)
  /\ ui' \in {disk, WithFields(disk)}
  /\ dirty' = (ui' # disk)
  /\ holdoff' = FALSE
  /\ \/ At(Main, "error") /\ UNCHANGED <<next, open>>
     \/ \E i \in CtxId :
          /\ ui'.key # NoKey
          /\ FreeId(i)
          /\ At(Main, "swap")
          /\ next' = [next EXCEPT ![Main] = CtxFor(ui', i)]
          /\ open' = open \cup {CtxFor(ui', i)}
  /\ UNCHANGED <<disk, service, protoCtx, closed, then, cand, old, using,
                 lost>>

\* A failed load makes run return, and so close the manager.
Loaded ==
  /\ pc[Main] \in {"ok", "error"}
  /\ mu' = Nobody
  /\ At(Main, IF pc[Main] = "ok" THEN "serving" ELSE "failed")
  /\ UNCHANGED <<disk, service, cred, ctxs, op, then, local, using, history>>

\* Close: a dirty credential is saved whatever the retry time says.
Close ==
  /\ pc[Main] \in {"serving", "failed"}
  /\ Acquire(Main, "close", IF dirty THEN "stage" ELSE "closing")
  /\ then' = [then EXCEPT ![Main] = "closing"]
  /\ UNCHANGED <<disk, service, cred, ctxs, local, using, history>>

Closing ==
  /\ pc[Main] = "closing"
  /\ NoReaders
  /\ closed' = TRUE
  /\ old' = [old EXCEPT ![Main] = protoCtx]
  /\ protoCtx' = NoCtx
  /\ mu' = Nobody
  /\ At(Main, "drain")
  /\ UNCHANGED <<disk, service, cred, open, op, then, cand, next, using,
                 history>>

CloseContext ==
  /\ pc[Main] = "drain"
  /\ open' = open \ {old[Main]}
  /\ old' = [old EXCEPT ![Main] = NoCtx]
  /\ Goto(Main, "closed")
  /\ UNCHANGED <<disk, service, cred, protoCtx, closed, cand, next, using,
                 history>>

\* A rotation the disk does not hold would be forgotten now.
AtRisk == dirty \/ \E p \in Workers : pc[p] \in Refreshing

\* The process exits after Close, or crashes: only disk and service remain.
Stop ==
  /\ pc[Main] # "down"
  /\ lost' = (lost \/ AtRisk)
  /\ ui' = NoUser
  /\ ClearDirty
  /\ protoCtx' = NoCtx
  /\ closed' = FALSE
  /\ open' = {}
  /\ mu' = Nobody
  /\ pc' = [p \in Proc |-> IF p = Main THEN "down" ELSE "idle"]
  /\ op' = [p \in Proc |-> "none"]
  /\ then' = [p \in Proc |-> "ok"]
  /\ cand' = [p \in Proc |-> NoUser]
  /\ next' = [p \in Proc |-> NoCtx]
  /\ old' = [p \in Proc |-> NoCtx]
  /\ using' = [p \in Proc |-> NoCtx]
  /\ UNCHANGED <<disk, service, received>>

----------------------------------------------------------------------------

\* No file, or the file of a login of session 1, with or without refresh token
\* expiry and runtime fields.
InitialUsers ==
  [sess : {1}, tok : {1}, rt : {1}, rx : {0, 1}, prof : {1}, key : {NoKey, 1}]

Init ==
  /\ disk \in InitialUsers \cup {NoUser}
  /\ ver = 1
  /\ valid = {1}
  /\ ui = NoUser /\ dirty = FALSE /\ holdoff = FALSE
  /\ protoCtx = NoCtx /\ closed = FALSE /\ open = {}
  /\ mu = Nobody
  /\ pc = [p \in Proc |-> IF p = Main THEN "down" ELSE "idle"]
  /\ op = [p \in Proc |-> "none"]
  /\ then = [p \in Proc |-> "ok"]
  /\ cand = [p \in Proc |-> NoUser]
  /\ next = [p \in Proc |-> NoCtx]
  /\ old = [p \in Proc |-> NoCtx]
  /\ using = [p \in Proc |-> NoCtx]
  /\ received = [rt |-> 0, rx |-> 0]
  /\ lost = FALSE

Save(p) == StageOk(p) \/ SaveFails(p) \/ PublishOk(p)

\* The steps of a refresh and of the request it serves, by goroutine p.
Work(p) ==
  \/ CheckFresh(p) \/ CheckRefuses(p) \/ SendRefresh(p)
  \/ ServiceRefreshes(p) \/ RefreshRejected(p) \/ ReplyLost(p)
  \/ BuildRefreshed(p) \/ BuildFails(p) \/ Adopt(p) \/ Leave(p)
  \/ BeginPrepare(p) \/ EndPrepare(p)

Login(l) ==
  \/ BuildLogin(l) \/ LoginFails(l) \/ StageLogin(l) \/ RejectLogin(l)
  \/ CommitLogin(l) \/ LeaveLogin(l)
  \/ RequestProfile(l) \/ AbandonProfile(l) \/ ApplyProfile(l)

Next ==
  \/ \E p \in Proc : Save(p) \/ Swap(p) \/ Retire(p)
  \/ \E p \in Workers : Work(p)
  \/ \E p \in Workers, o \in {"prepare", "tick", "force"} : Enter(p, o)
  \/ \E l \in Logins : Issued(l) \/ Login(l)
  \/ HoldoffElapses
  \/ StartLogin \/ Load \/ Loaded \/ Close \/ Closing \/ CloseContext
  \/ Stop

Spec == Init /\ [][Next]_vars


----------------------------------------------------------------------------
(* Correctness.                                                            *)

Then == {"ok", "error", "check", "closing"}

Point == Critical \cup
         {"idle", "down", "ready", "using", "polled", "committed", "fetching",
          "serving", "failed", "drain", "closed"}

Op == {"none", "prepare", "tick", "force", "login", "enrich", "load", "close"}

\* The values the variables range over.
TypeOK ==
  /\ disk \in User \cup {NoUser}
  /\ ver \in Nat
  /\ valid \subseteq Nat
  /\ ui \in User \cup {NoUser}
  /\ dirty \in BOOLEAN /\ holdoff \in BOOLEAN
  /\ protoCtx \in Ctx \cup {NoCtx}
  /\ closed \in BOOLEAN
  /\ open \subseteq Ctx
  /\ mu \in Proc \cup {Nobody}
  /\ pc \in [Proc -> Point]
  /\ op \in [Proc -> Op]
  /\ then \in [Proc -> Then]
  /\ cand \in [Proc -> User \cup {NoUser}]
  /\ next \in [Proc -> Ctx \cup {NoCtx}]
  /\ old \in [Proc -> Ctx \cup {NoCtx}]
  /\ using \in [Proc -> Ctx \cup {NoCtx}]
  /\ received \in [rt : Nat, rx : Nat]
  /\ lost \in BOOLEAN

\* A credential that is not marked dirty is on disk, field for field: whatever
\* was rotated, enriched or generated in memory, and however a save failed, a
\* crash while the flag is clear forgets nothing (saveLocked, and every caller
\* of markCredentialDirtyLocked).
CleanMeansSaved == ui # NoUser /\ ~dirty => disk = ui

\* Between operations a.ui holds the refresh token and expiry last received for
\* its session, although the refresh that received them may have failed to
\* build or install a context (preserveRefreshRotationAndSaveLocked).
RotationKept == mu = Nobody /\ ui # NoUser => Pair(ui) = received

\* The service still accepts the refresh token the manager would send, and
\* after a restart the one it would load, unless an answer was lost or the
\* process stopped while the credential was dirty or a refresh was under way.
Usable(u) == u = NoUser \/ u.rt = 0 \/ u.rt \in valid
TokenUsable == mu = Nobody /\ ~lost => Usable(IF ui = NoUser THEN disk ELSE ui)

\* Memory, disk and protocol context always belong to one login session: a
\* login replaces all three or none (commitLoginCandidateLocked), so no request
\* is signed for an account other than the committed one.
OneSession ==
  /\ ui # NoUser => disk # NoUser /\ disk.sess = ui.sess
  /\ protoCtx # NoCtx => ui # NoUser /\ protoCtx.sess = ui.sess

\* The profile and the runtime fields attached to a session, in memory, on disk
\* and in a context, were obtained for that very session: a profile that comes
\* back after another login is dropped (fetchUserInfo).
Owns(x) == x.prof \in {Bare, x.sess} /\ x.key \in {NoKey, Bare, x.sess}
ProfileOwn == /\ \A u \in {ui, disk} : u = NoUser \/ Owns(u)
              /\ \A c \in open : Owns(c)

\* The context whose PrepareInferRequest runs is the current one and is open:
\* no refresh, login or Close closes it under a request (replaceContext waits
\* for the readers of ctxMu before the old context is closed).
UsedContextOpen ==
  \A p \in Readers : using[p] = protoCtx /\ using[p] \in open

\* Every open context is the current one, or is held by the one operation in
\* progress, which will publish or close it: no failure path leaks a context.
Held == {next[p] : p \in Proc} \cup {old[p] : p \in Proc}
NoContextLeak == open \subseteq {protoCtx} \cup Held

\* After Close nothing is published, saved or rebuilt any more, whichever
\* refresh, login or enrichment was waiting for the lock.
ClosedIsFinal ==
  [][closed /\ closed' => UNCHANGED <<disk, ui, dirty, protoCtx>>]_vars

\* Within a session the file never goes back to an older refresh token or loses
\* its profile.
DiskNeverRegresses ==
  [][disk # NoUser /\ disk' # NoUser /\ disk'.sess = disk.sess
       => disk'.rt >= disk.rt /\ disk'.prof >= disk.prof]_vars

\* The manager is a CredentialStore: with every goroutine, lock and failure in
\* between, each step is a load, a renewal marked dirty, a save of what memory
\* holds, a change of the signing session to the one held, a login that replaces
\* file, memory and context at once, a close or a stop, or none of these
\* (saveLocked, refreshLocked, fetchUserInfo, commitLoginCandidateLocked, Close).
Signing == IF protoCtx = NoCtx THEN NoUser ELSE protoCtx.sess

Store == INSTANCE CredentialStore WITH
  Credentials <- User,
  None <- NoUser,
  stored <- disk,
  held <- ui,
  signs <- Signing

KeepsCredentials == Store!Spec

\* Fairness: the owner of a.mu goes on (timeouts bound its network calls); a
\* goroutine waiting for ctxMu gets it; the ticker calls ensureFresh again and
\* again; run closes the manager when the load failed; the disk does not fail
\* for ever.
OwnerStep ==
  \/ \E p \in Proc : Save(p) \/ Swap(p) \/ Retire(p)
  \/ \E p \in Workers : pc[p] \in Critical /\ Work(p)
  \/ \E l \in Logins : pc[l] \in Critical /\ Login(l)
  \/ Loaded \/ Closing

Fairness ==
  /\ WF_vars(OwnerStep)
  /\ \A p \in Workers : /\ SF_vars(BeginPrepare(p))
                        /\ WF_vars(EndPrepare(p))
                        /\ SF_vars(Enter(p, "tick"))
  /\ SF_vars(\E p \in Proc : StageOk(p))
  /\ SF_vars(\E p \in Proc : PublishOk(p))
  /\ SF_vars(pc[Main] = "failed" /\ Close)
  /\ WF_vars(CloseContext)
  /\ WF_vars(HoldoffElapses)

FairSpec == Spec /\ Fairness

\* A dirty credential reaches the disk, or the manager is closed: the retry
\* delay postpones a save and never cancels it.
DirtyEventuallySaved == dirty ~> (~dirty \/ closed)

\* Every request and tick returns, whoever else wants a.mu or ctxMu, and a Close
\* that has begun ends, with no context left open.
NobodyBlocked ==
  /\ \A p \in Workers : pc[p] # "idle" ~> pc[p] = "idle"
  /\ op[Main] = "close" ~> (open = {} \/ op[Main] # "close")

=============================================================================
