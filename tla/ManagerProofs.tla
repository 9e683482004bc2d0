---------------------------- MODULE ManagerProofs ----------------------------
(***************************************************************************)
(* Theorems about Manager, for any number of commands, instances, kills    *)
(* and edits.  Each property has an inductive invariant of its own over    *)
(* the types: who is in a locked section (LockExclusive itself), what a    *)
(* stopping command knows of its gateway (Stopping), what a configuring    *)
(* command has read and backed up (Editing), and which serve may write or  *)
(* remove status.json (Announcing).                                        *)
(***************************************************************************)
EXTENDS Manager, TLAPS

Places ==
  {"idle", "current", "open", "owner", "create", "again", "spawn", "await", "unlock",
   "ready", "post", "wait", "read", "backup", "compare", "rename", "done", "killed"}

Settings == [user : Nat, by : {"user", "manager", "none"}]

Command ==
  [kind : {"start", "stop", "enable", None}, goal : {"start", "config", None},
   pc : Places, live : Instances \cup {None}, before : Settings \cup {None},
   result : {"stale", "failed", "stopped", None}]

CommandsTyped == cmd \in [Commands -> Command]

InstancesTyped ==
  /\ serve \in [Instances -> {"none", "spawn", "poll", "write", "listening", "failing",
                              "check", "unlink", "gone", "killed"}]
  /\ native \in [Instances -> {"none", "starting", "bound", "stopping", "draining", "dead"}]

FilesTyped ==
  /\ lock \in [owner : Commands \cup {None}, written : BOOLEAN]
  /\ settings \in Settings
  /\ edits \in Nat

EditPlaces == {"backup", "compare", "rename"}

BeforeTyped == \A p \in Commands : cmd[p].pc \in EditPlaces => cmd[p].before \in Settings

TypeOK == CommandsTyped /\ InstancesTyped /\ FilesTyped /\ BeforeTyped

\* A native process never goes back; one that has ended, or may only end, stays so.
Ending == {"stopping", "draining", "dead"}

Stopping ==
  /\ \A i \in Instances :
       serve[i] \in {"check", "unlink", "gone"} => native[i] = "dead"
  /\ \A p \in Commands :
       /\ cmd[p].pc = "post" =>
            cmd[p].live \in Instances /\ native[cmd[p].live] \in Ending \cup {"bound"}
       /\ cmd[p].pc = "wait" \/ cmd[p].result = "stopped" =>
            cmd[p].live \in Instances /\ native[cmd[p].live] \in Ending
       /\ cmd[p].result = "stopped" => cmd[p].pc = "done" /\ Dead(cmd[p].live)

\* A serve spawns its native process once.
Fresh == \A i \in Instances : serve[i] \in {"none", "spawn"} => native[i] = "none"

\* What a command is about to rename over the settings has been backed up and holds
\* the user's last version.  Where there is no file, there was none when it read.
Editing ==
  /\ SettingsKept
  /\ \A p \in Commands :
       /\ cmd[p].pc \in {"compare", "rename"} => cmd[p].before.user \in backups
       /\ cmd[p].pc \in {"backup", "compare"} /\ settings.by = "none" =>
            cmd[p].before = settings \/ windowed
       /\ cmd[p].pc = "rename" => cmd[p].before.user = edits \/ windowed

\* One process listens; a serve that has seen its native process answer never sees it
\* start again; a serve that removes status.json finds its own there.
Announcing ==
  /\ \A i, j \in Listening : i = j
  /\ \A i \in Instances :
       /\ serve[i] \in {"write", "listening"} => native[i] \in Ending \cup {"bound"}
       /\ serve[i] = "unlink" => (status = i \/ raced) /\ native[i] = "dead"
       /\ serve[i] = "check" => native[i] = "dead"
  /\ GatewayKnown

----------------------------------------------------------------------------
(* Types.                                                                  *)

LEMMA TypeInit == Init => TypeOK
BY ManagerAssumption DEF Init, TypeOK, CommandsTyped, InstancesTyped, FilesTyped, BeforeTyped,
   EditPlaces, Idle, Command, Places, Settings

\* What Goto, Found, Finish and the other changes do to the commands.
Others(p) == \A q \in Commands \ {p} : cmd'[q] = cmd[q]

LEMMA GotoFacts ==
  ASSUME CommandsTyped, NEW p \in Commands, NEW to \in Places, Goto(p, to)
  PROVE  /\ CommandsTyped' /\ Others(p)
         /\ cmd'[p].pc = to /\ cmd'[p].live = cmd[p].live
         /\ cmd'[p].before = cmd[p].before /\ cmd'[p].result = cmd[p].result
BY DEF CommandsTyped, Command, Goto, Others

LEMMA FoundFacts ==
  ASSUME CommandsTyped, NEW p \in Commands, NEW to \in Places, NEW i \in Instances,
         Found(p, i, to)
  PROVE  /\ CommandsTyped' /\ Others(p)
         /\ cmd'[p].pc = to /\ cmd'[p].live = i
         /\ cmd'[p].before = cmd[p].before /\ cmd'[p].result = cmd[p].result
BY DEF CommandsTyped, Command, Found, Others

LEMMA FinishFacts ==
  ASSUME CommandsTyped, NEW p \in Commands,
         NEW r \in {"stale", "stopped", None}, Finish(p, r)
  PROVE  /\ CommandsTyped' /\ Others(p)
         /\ cmd'[p].pc = "done" /\ cmd'[p].result = r
         /\ r = "stopped" => cmd'[p].live = cmd[p].live
BY DEF CommandsTyped, Command, Finish, Idle, Places, Others

LEMMA RunFacts ==
  ASSUME CommandsTyped, NEW p \in Commands, NEW kind \in {"start", "stop", "enable"},
         Run(p, kind)
  PROVE  /\ CommandsTyped' /\ Others(p)
         /\ cmd'[p].pc \in {"current", "open"} /\ cmd'[p].result = cmd[p].result
BY DEF CommandsTyped, Command, Run, Places, Others

LEMMA CreateFacts ==
  ASSUME CommandsTyped, NEW p \in Commands, CreateConfig(p)
  PROVE  /\ CommandsTyped' /\ Others(p)
         /\ cmd'[p].pc = "unlock" /\ cmd'[p].result = cmd[p].result
BY ZenonT(60) DEF CommandsTyped, Command, CreateConfig, Places, Others

LEMMA AwaitFacts ==
  ASSUME CommandsTyped, NEW p \in Commands, Await(p)
  PROVE  /\ CommandsTyped' /\ Others(p)
         /\ cmd'[p].pc = "unlock" /\ cmd'[p].result \in {cmd[p].result, "failed"}
<1>1. CASE \E i \in Current : Found(p, i, "unlock")
  BY <1>1, FoundFacts DEF Current, Listening, Places
<1>2. CASE cmd' = [cmd EXCEPT ![p].pc = "unlock", ![p].result = "failed"]
  BY <1>2, ZenonT(60) DEF CommandsTyped, Command, Places, Others
<1> QED
  BY <1>1, <1>2 DEF Await

LEMMA ReadSettingsFacts ==
  ASSUME CommandsTyped, settings \in Settings, NEW p \in Commands, ReadSettings(p)
  PROVE  /\ CommandsTyped' /\ Others(p)
         /\ \/ /\ cmd'[p].pc = "backup" /\ cmd'[p].before = settings
               /\ cmd'[p].result = cmd[p].result
            \/ cmd'[p].pc = "done" /\ cmd'[p].result = None
<1>1. CASE Finish(p, None)
  BY <1>1, FinishFacts
<1>2. CASE cmd' = [cmd EXCEPT ![p].pc = "backup", ![p].before = settings]
  BY <1>2, ZenonT(60) DEF CommandsTyped, Command, Places, Others
<1> QED
  BY <1>1, <1>2 DEF ReadSettings

LEMMA ReadyFacts ==
  ASSUME CommandsTyped, NEW p \in Commands, Ready(p)
  PROVE  /\ CommandsTyped' /\ Others(p)
         /\ cmd'[p].pc \in {"read", "done"} /\ cmd'[p].result = None
<1>1. CASE Finish(p, None)
  BY <1>1, FinishFacts
<1>2. CASE cmd' = [cmd EXCEPT ![p] = [Idle EXCEPT !.kind = "enable", !.pc = "read"]]
  BY <1>2 DEF CommandsTyped, Command, Idle, Places, Others
<1> QED
  BY <1>1, <1>2 DEF Ready

LEMMA KillFacts ==
  ASSUME CommandsTyped, NEW p \in Commands, KillCommand(p)
  PROVE  /\ CommandsTyped' /\ Others(p)
         /\ cmd'[p].pc = "killed" /\ cmd'[p].result = None
BY DEF CommandsTyped, Command, KillCommand, Idle, Places, Others

\* A command changes no other.
LEMMA CommandFacts ==
  ASSUME TypeOK, NEW p \in Commands, CommandStep(p)
  PROVE  CommandsTyped' /\ Others(p)
<1> USE DEF TypeOK, FilesTyped
<1>1. CASE \E kind \in {"start", "stop", "enable"} : Run(p, kind)
  BY <1>1, RunFacts
<1>2. CASE OpenLock(p) \/ WriteOwner(p) \/ Unlock(p)
  BY <1>2, GotoFacts, FinishFacts DEF OpenLock, WriteOwner, Unlock, Places
<1>3. CASE ReadCurrent(p) \/ ReadAgain(p) \/ SpawnServe(p)
  BY <1>3, GotoFacts, FinishFacts, FoundFacts
     DEF ReadCurrent, ReadAgain, SpawnServe, Places, Current, Listening
<1>6. CASE Ready(p)
  BY <1>6, ReadyFacts DEF Ready
<1>4. CASE PostShutdown(p) \/ AwaitStop(p) \/ Backup(p) \/ Compare(p) \/ WriteSettings(p)
  BY <1>4, GotoFacts, FinishFacts
     DEF PostShutdown, AwaitStop, Backup, Compare, WriteSettings, Places
<1>5. CASE CreateConfig(p) \/ Await(p) \/ ReadSettings(p) \/ KillCommand(p)
  BY <1>5, CreateFacts, AwaitFacts, ReadSettingsFacts, KillFacts
<1> QED
  BY <1>1, <1>2, <1>3, <1>4, <1>5, <1>6 DEF CommandStep

LEMMA CommandsStep == TypeOK /\ [Next]_vars => CommandsTyped'
<1> SUFFICES ASSUME TypeOK, [Next]_vars
             PROVE  CommandsTyped'
  OBVIOUS
<1>1. ASSUME NEW i \in Instances, InstanceStep(i)
      PROVE  UNCHANGED cmd
  BY <1>1 DEF InstanceStep, ServeByHand, SpawnNative, Poll, WriteStatus, NativeClosed,
     CheckStatus, RemoveStatus, SetNative, Bind, CloseListener, Exit, Break, KillServe
<1>2. CASE UserEdits \/ RemoveStaleLock \/ UNCHANGED vars
  BY <1>2 DEF UserEdits, RemoveStaleLock, vars, TypeOK, CommandsTyped
<1> QED
  BY <1>1, <1>2, CommandFacts DEF Next, TypeOK, CommandsTyped

LEMMA InstancesStep == TypeOK /\ [Next]_vars => InstancesTyped'
<1> SUFFICES ASSUME TypeOK, [Next]_vars
             PROVE  InstancesTyped'
  OBVIOUS
<1> USE DEF TypeOK, InstancesTyped
<1>1. ASSUME NEW p \in Commands, CommandStep(p)
      PROVE  InstancesTyped'
  <2>1. CASE SpawnServe(p) \/ PostShutdown(p)
    BY <2>1 DEF SpawnServe, PostShutdown
  <2>2. CASE UNCHANGED <<serve, native>>
    BY <2>2
  <2> QED
    BY <1>1, <2>1, <2>2 DEF CommandStep, Run, OpenLock, WriteOwner, CreateConfig, Unlock,
       ReadCurrent, ReadAgain, Await, Ready, AwaitStop, ReadSettings, Backup, Compare,
       WriteSettings, KillCommand
<1>2. ASSUME NEW i \in Instances, InstanceStep(i)
      PROVE  InstancesTyped'
  <2>1. CASE ServeByHand(i) \/ SpawnNative(i) \/ Poll(i) \/ WriteStatus(i)
    BY <2>1 DEF ServeByHand, SpawnNative, Poll, WriteStatus
  <2>2. CASE NativeClosed(i) \/ CheckStatus(i) \/ RemoveStatus(i) \/ KillServe(i)
    BY <2>2 DEF NativeClosed, CheckStatus, RemoveStatus, KillServe
  <2>3. CASE Bind(i) \/ CloseListener(i) \/ Exit(i) \/ Break(i)
    BY <2>3 DEF Bind, CloseListener, Exit, Break, SetNative
  <2> QED
    BY <1>2, <2>1, <2>2, <2>3 DEF InstanceStep
<1>3. CASE UserEdits \/ RemoveStaleLock \/ UNCHANGED vars
  BY <1>3 DEF UserEdits, RemoveStaleLock, vars
<1> QED
  BY <1>1, <1>2, <1>3 DEF Next

\* Only these four touch the settings or get to where a command edits them.
LEMMA OtherCommandFacts ==
  ASSUME TypeOK, NEW p \in Commands, CommandStep(p)
  PROVE  \/ ReadSettings(p) \/ Backup(p) \/ Compare(p) \/ WriteSettings(p)
         \/ /\ cmd'[p].pc \notin EditPlaces
            /\ UNCHANGED <<settings, backups, edits, windowed>>
<1> USE DEF TypeOK, FilesTyped, EditPlaces, files, history
<1>1. CASE \E kind \in {"start", "stop", "enable"} : Run(p, kind)
  <2>1. UNCHANGED <<settings, backups, edits, windowed>>
    BY <1>1 DEF Run
  <2> QED
    BY <1>1, <2>1, RunFacts
<1>2. CASE OpenLock(p) \/ WriteOwner(p) \/ Unlock(p)
  BY <1>2, GotoFacts, FinishFacts DEF OpenLock, WriteOwner, Unlock, Places
<1>3. CASE ReadCurrent(p) \/ ReadAgain(p) \/ SpawnServe(p)
  BY <1>3, GotoFacts, FinishFacts, FoundFacts
     DEF ReadCurrent, ReadAgain, SpawnServe, Places, Current, Listening
<1>6. CASE Ready(p)
  BY <1>6, ReadyFacts DEF Ready
<1>4. CASE PostShutdown(p) \/ AwaitStop(p)
  BY <1>4, GotoFacts, FinishFacts DEF PostShutdown, AwaitStop, Places
<1>5. CASE CreateConfig(p) \/ Await(p) \/ KillCommand(p)
  <2>1. UNCHANGED <<settings, backups, edits, windowed>>
    BY <1>5 DEF CreateConfig, Await, KillCommand
  <2> QED
    BY <1>5, <2>1, CreateFacts, AwaitFacts, KillFacts
<1> QED
  BY <1>1, <1>2, <1>3, <1>4, <1>5, <1>6 DEF CommandStep

\* What a step of an instance leaves alone.
LEMMA InstanceFacts ==
  ASSUME NEW i \in Instances, InstanceStep(i)
  PROVE  UNCHANGED <<cmd, lock, settings, backups, edits, windowed>>
BY DEF InstanceStep, ServeByHand, SpawnNative, Poll, WriteStatus, NativeClosed, CheckStatus,
   RemoveStatus, SetNative, Bind, CloseListener, Exit, Break, KillServe, files, history

LEMMA BeforeStep == TypeOK /\ [Next]_vars => BeforeTyped'
<1> SUFFICES ASSUME TypeOK, [Next]_vars
             PROVE  BeforeTyped'
  OBVIOUS
<1>1. ASSUME NEW p \in Commands, CommandStep(p)
      PROVE  BeforeTyped'
  <2>1. Others(p)
    BY <1>1, CommandFacts
  <2> SUFFICES cmd'[p].pc \in EditPlaces => cmd'[p].before \in Settings
    BY <2>1 DEF TypeOK, BeforeTyped, Others
  <2>2. CASE ReadSettings(p)
    BY <2>2, ReadSettingsFacts DEF TypeOK, FilesTyped, EditPlaces
  <2>3. CASE Backup(p) \/ Compare(p)
    BY <2>3, GotoFacts, FinishFacts
       DEF Backup, Compare, TypeOK, BeforeTyped, EditPlaces, Places
  <2>4. CASE WriteSettings(p)
    BY <2>4, FinishFacts DEF WriteSettings, TypeOK, EditPlaces
  <2> QED
    BY <1>1, <2>2, <2>3, <2>4, OtherCommandFacts
<1>2. CASE UserEdits \/ RemoveStaleLock \/ UNCHANGED vars
  BY <1>2 DEF UserEdits, RemoveStaleLock, vars, TypeOK, BeforeTyped
<1> QED
  BY <1>1, <1>2, InstanceFacts DEF Next, TypeOK, BeforeTyped

LEMMA FilesStep == TypeOK /\ [Next]_vars => FilesTyped'
<1> SUFFICES ASSUME TypeOK, [Next]_vars
             PROVE  FilesTyped'
  OBVIOUS
<1>1. ASSUME NEW p \in Commands, CommandStep(p)
      PROVE  lock' \in [owner : Commands \cup {None}, written : BOOLEAN]
  <2>1. CASE OpenLock(p) \/ WriteOwner(p) \/ Unlock(p)
    <3>1. \/ lock' = lock
          \/ lock' = [lock EXCEPT !.written = TRUE]
          \/ \E o \in Commands \cup {None} : lock' = [owner |-> o, written |-> FALSE]
      BY <2>1 DEF OpenLock, WriteOwner, Unlock
    <3>2. lock \in [owner : Commands \cup {None}, written : BOOLEAN]
      BY DEF TypeOK, FilesTyped
    <3>3. [lock EXCEPT !.written = TRUE] \in
            [owner : Commands \cup {None}, written : BOOLEAN]
      BY <3>2
    <3>4. \A o \in Commands \cup {None} :
            [owner |-> o, written |-> FALSE] \in
              [owner : Commands \cup {None}, written : BOOLEAN]
      OBVIOUS
    <3> QED
      BY <3>1, <3>2, <3>3, <3>4
  <2>2. CASE UNCHANGED lock
    BY <2>2 DEF TypeOK, FilesTyped
  <2> QED
    BY <1>1, <2>1, <2>2 DEF CommandStep, Run, CreateConfig, ReadCurrent, ReadAgain,
       SpawnServe, Await, Ready, PostShutdown, AwaitStop, ReadSettings, Backup, Compare,
       WriteSettings, KillCommand
<1>2. ASSUME NEW p \in Commands, CommandStep(p)
      PROVE  settings' \in Settings /\ edits' \in Nat
  <2>1. CASE WriteSettings(p)
    BY <2>1 DEF WriteSettings, TypeOK, FilesTyped, BeforeTyped, EditPlaces, Settings, history
  <2>2. CASE ReadSettings(p) \/ Backup(p) \/ Compare(p)
    BY <2>2 DEF ReadSettings, Backup, Compare, TypeOK, FilesTyped, history, files
  <2> QED
    BY <1>2, <2>1, <2>2, OtherCommandFacts DEF TypeOK, FilesTyped
<1>3. CASE UserEdits
  BY <1>3 DEF UserEdits, TypeOK, FilesTyped, Settings
<1>4. CASE RemoveStaleLock
  BY <1>4 DEF RemoveStaleLock, files, history, TypeOK, FilesTyped
<1>5. CASE UNCHANGED vars
  BY <1>5 DEF vars, files, history, TypeOK, FilesTyped
<1> QED
  BY <1>1, <1>2, <1>3, <1>4, <1>5, InstanceFacts DEF Next, TypeOK, FilesTyped

LEMMA TypeStep == TypeOK /\ [Next]_vars => TypeOK'
BY CommandsStep, InstancesStep, FilesStep, BeforeStep DEF TypeOK

\* Every variable keeps its type, for any commands and instances.
THEOREM TypeCorrect == Spec => []TypeOK
BY TypeInit, TypeStep, PTL DEF Spec

----------------------------------------------------------------------------
(* The lock.                                                               *)

LEMMA LockStep == TypeOK /\ LockExclusive /\ [Next]_vars => LockExclusive'
<1> SUFFICES ASSUME TypeOK, LockExclusive, [Next]_vars
             PROVE  LockExclusive'
  OBVIOUS
<1> USE DEF TypeOK, LockExclusive, Locked
<1>1. ASSUME NEW p \in Commands, CommandStep(p)
      PROVE  LockExclusive'
  <2>1. Others(p)
    BY <1>1, CommandFacts
  <2>2. CASE OpenLock(p)
    <3>1. CASE Free
      <4>1. cmd'[p].pc = "owner" /\ lock'.owner = p
        BY <2>2, <3>1, GotoFacts DEF OpenLock, Places
      <4>2. \A q \in Commands : cmd[q].pc \notin Locked
        BY <3>1, ManagerAssumption DEF Free
      <4> QED
        BY <2>1, <4>1, <4>2 DEF Others
    <3>2. CASE ~Free
      BY <2>1, <2>2, <3>2, FinishFacts DEF OpenLock, Others
    <3> QED
      BY <3>1, <3>2
  <2>3. CASE WriteOwner(p)
    <3>1. lock'.owner = lock.owner
      BY <2>3 DEF WriteOwner, FilesTyped
    <3>2. lock.owner = p
      BY <2>3 DEF WriteOwner
    <3> QED
      BY <2>1, <3>1, <3>2 DEF Others
  <2>4. CASE Unlock(p)
    <3>1. \A q \in Commands \ {p} : cmd[q].pc \notin Locked
      BY <2>4 DEF Unlock
    <3>2. cmd'[p].pc \notin Locked
      BY <2>4, GotoFacts, FinishFacts DEF Unlock, Places
    <3> QED
      BY <2>1, <3>1, <3>2 DEF Others
  <2>5. CASE /\ UNCHANGED lock
             /\ cmd'[p].pc \in Locked => cmd[p].pc \in Locked
    BY <2>1, <2>5 DEF Others
  <2>6. CASE CreateConfig(p) \/ ReadAgain(p) \/ SpawnServe(p) \/ Await(p)
    BY <2>1, <2>6 DEF CreateConfig, ReadAgain, SpawnServe, Await, Others
  <2>7. CASE ReadCurrent(p) \/ PostShutdown(p) \/ AwaitStop(p)
    BY <2>5, <2>7, GotoFacts, FoundFacts, FinishFacts
       DEF ReadCurrent, PostShutdown, AwaitStop, Places, Current, Listening
  <2>8. CASE Backup(p) \/ Compare(p) \/ WriteSettings(p)
    BY <2>5, <2>8, GotoFacts, FinishFacts DEF Backup, Compare, WriteSettings, Places
  <2>9. CASE Ready(p) \/ ReadSettings(p) \/ KillCommand(p)
    <3>1. UNCHANGED lock
      BY <2>9 DEF Ready, ReadSettings, KillCommand
    <3> QED
      BY <2>5, <2>9, <3>1, ReadyFacts, ReadSettingsFacts, KillFacts DEF FilesTyped
  <2>10. CASE \E kind \in {"start", "stop", "enable"} : Run(p, kind)
    <3>1. UNCHANGED lock
      BY <2>10 DEF Run
    <3> QED
      BY <2>5, <2>10, <3>1, RunFacts
  <2> QED
    BY <1>1, <2>2, <2>3, <2>4, <2>6, <2>7, <2>8, <2>9, <2>10 DEF CommandStep
<1>2. CASE RemoveStaleLock
  BY <1>2 DEF RemoveStaleLock, Ended, FilesTyped
<1>3. CASE UserEdits \/ UNCHANGED vars
  BY <1>3 DEF UserEdits, vars
<1> QED
  BY <1>1, <1>2, <1>3, InstanceFacts DEF Next

\* LockExclusive of the run manager: however many commands meet, are killed and have
\* their locks removed, a locked section belongs to the owner of control.lock.
THEOREM LockIsExclusive == Spec => []LockExclusive
<1>1. Init => LockExclusive
  BY DEF Init, LockExclusive, Locked, Idle
<1> QED
  BY <1>1, LockStep, TypeCorrect, PTL DEF Spec

----------------------------------------------------------------------------
(* The settings.                                                           *)

LEMMA EditingInit == Init => Editing
BY DEF Init, Editing, SettingsKept, Idle

LEMMA EditingStep == TypeOK /\ Editing /\ [Next]_vars => Editing'
<1> SUFFICES ASSUME TypeOK, Editing, [Next]_vars
             PROVE  Editing'
  OBVIOUS
<1> USE DEF TypeOK, FilesTyped, EditPlaces, Editing, SettingsKept
<1>1. ASSUME NEW p \in Commands, CommandStep(p)
      PROVE  Editing'
  <2>1. Others(p)
    BY <1>1, CommandFacts
  <2>2. CASE cmd'[p].pc \notin EditPlaces /\ UNCHANGED <<settings, backups, edits, windowed>>
    BY <2>1, <2>2 DEF Others
  <2>3. CASE ReadSettings(p)
    <3>1. UNCHANGED <<settings, backups, edits, windowed>>
      BY <2>3 DEF ReadSettings, files, history
    <3>2. /\ cmd'[p].pc \notin {"compare", "rename"}
          /\ cmd'[p].pc = "backup" => cmd'[p].before = settings
      BY <2>3, ReadSettingsFacts
    <3> QED
      BY <2>1, <3>1, <3>2 DEF Others
  <2>4. CASE Backup(p)
    <3>1. cmd'[p].pc = "compare" /\ cmd'[p].before = cmd[p].before
      BY <2>4, GotoFacts DEF Backup, Places
    <3>2. backups' = backups \cup {cmd[p].before.user} /\ UNCHANGED <<settings, edits, windowed>>
      BY <2>4 DEF Backup, history
    <3>3. settings.by = "none" => cmd[p].before = settings \/ windowed
      BY <2>4 DEF Backup
    <3>4. SettingsKept'
      BY <3>2
    <3>5. \A q \in Commands \ {p} : UNCHANGED cmd[q]
      BY <2>1 DEF Others
    <3>6. /\ cmd'[p].before.user \in backups'
          /\ settings'.by = "none" => cmd'[p].before = settings' \/ windowed'
      BY <3>1, <3>2, <3>3
    <3>7. ASSUME NEW q \in Commands, q # p
          PROVE  /\ cmd'[q].pc \in {"compare", "rename"} => cmd'[q].before.user \in backups'
                 /\ cmd'[q].pc \in {"backup", "compare"} /\ settings'.by = "none" =>
                      cmd'[q].before = settings' \/ windowed'
                 /\ cmd'[q].pc = "rename" => cmd'[q].before.user = edits' \/ windowed'
      BY <3>2, <3>5, <3>7
    <3> QED
      BY <3>1, <3>4, <3>6, <3>7
  <2>5. CASE Compare(p)
    <3>1. UNCHANGED <<settings, backups, edits, windowed>>
      BY <2>5 DEF Compare, files, history
    <3>2. CASE Unchanged(p)
      <4>1. /\ cmd'[p].pc = "rename" /\ cmd'[p].before = cmd[p].before
            /\ cmd[p].before.user \in backups
            /\ cmd[p].before = settings \/ windowed
        BY <2>5, <3>2, GotoFacts DEF Compare, Unchanged, Places
      <4> QED
        BY <2>1, <3>1, <4>1 DEF Others
    <3>3. CASE ~Unchanged(p)
      BY <2>1, <2>5, <3>1, <3>3, FinishFacts DEF Compare, Others
    <3> QED
      BY <3>2, <3>3
  <2>6. CASE WriteSettings(p)
    <3>1. /\ settings' = [user |-> cmd[p].before.user, by |-> "manager"]
          /\ UNCHANGED <<backups, edits, windowed>>
      BY <2>6 DEF WriteSettings, history
    <3>2. cmd'[p].pc = "done"
      BY <2>6, FinishFacts DEF WriteSettings
    <3>3. cmd[p].before.user \in backups /\ (cmd[p].before.user = edits \/ windowed)
      BY <2>6 DEF WriteSettings
    <3> QED
      BY <2>1, <3>1, <3>2, <3>3 DEF Others
  <2> QED
    BY <1>1, <2>2, <2>3, <2>4, <2>5, <2>6, OtherCommandFacts
<1>2. CASE UserEdits
  <2>1. PICK by \in {"user", "none"} : settings' = [user |-> edits', by |-> by]
    BY <1>2 DEF UserEdits
  <2>4. \/ /\ settings' = [user |-> edits', by |-> "user"]
           /\ windowed' = (windowed \/ Configuring({"rename"}))
        \/ /\ settings' = [user |-> edits', by |-> "none"]
           /\ windowed' = (windowed \/ Configuring(EditPlaces))
    BY <1>2 DEF UserEdits
  <2>5. ASSUME NEW p \in Commands, NEW places, cmd[p].pc \in places
        PROVE  Configuring(places)
    BY <2>5 DEF Configuring
  <2>2. /\ UNCHANGED <<cmd, backups>>
        /\ \A p \in Commands : cmd[p].pc = "rename" => windowed'
        /\ settings'.by = "none" => \A p \in Commands : cmd[p].pc \in EditPlaces => windowed'
    <3>1. UNCHANGED <<cmd, backups>>
      BY <1>2 DEF UserEdits
    <3>2. \A p \in Commands : cmd[p].pc = "rename" => windowed'
      BY <2>4, <2>5
    <3>3. settings'.by = "none" => \A p \in Commands : cmd[p].pc \in EditPlaces => windowed'
      <4>1. CASE settings' = [user |-> edits', by |-> "user"]
        BY <4>1
      <4>2. CASE windowed' = (windowed \/ Configuring(EditPlaces))
        BY <2>5, <4>2
      <4> QED
        BY <2>4, <4>1, <4>2
    <3> QED
      BY <3>1, <3>2, <3>3
  <2>3. settings'.user = edits' /\ settings'.by = by
    BY <2>1
  <2> QED
    BY <2>2, <2>3
<1>3. CASE RemoveStaleLock \/ UNCHANGED vars
  BY <1>3 DEF RemoveStaleLock, vars, files, history
<1> QED
  BY <1>1, <1>2, <1>3, InstanceFacts DEF Next

\* SettingsKept of the run manager: what the user wrote survives every mixture of
\* configuring commands, kills, edits and deletions, but for an edit within the rename's
\* window and a deletion that a command which had read the file undoes.
THEOREM SettingsAreKept == Spec => []SettingsKept
<1>1. Editing => SettingsKept
  BY DEF Editing
<1> QED
  BY <1>1, EditingInit, EditingStep, TypeCorrect, PTL DEF Spec

----------------------------------------------------------------------------
(* stop.                                                                   *)

LEMMA StoppingInit == Init => Stopping /\ Fresh
BY ManagerAssumption DEF Init, Stopping, Fresh, Idle

LEMMA FreshStep == TypeOK /\ Fresh /\ [Next]_vars => Fresh'
<1> SUFFICES ASSUME TypeOK, Fresh, [Next]_vars
             PROVE  Fresh'
  OBVIOUS
<1> USE DEF TypeOK, InstancesTyped, Fresh
<1>1. ASSUME NEW p \in Commands, CommandStep(p)
      PROVE  Fresh'
  <2>1. CASE SpawnServe(p) \/ PostShutdown(p)
    BY <2>1 DEF SpawnServe, PostShutdown, Listening
  <2>2. CASE UNCHANGED <<serve, native>>
    BY <2>2
  <2> QED
    BY <1>1, <2>1, <2>2 DEF CommandStep, Run, OpenLock, WriteOwner, CreateConfig, Unlock,
       ReadCurrent, ReadAgain, Await, Ready, AwaitStop, ReadSettings, Backup, Compare,
       WriteSettings, KillCommand
<1>2. ASSUME NEW i \in Instances, InstanceStep(i)
      PROVE  Fresh'
  <2>1. CASE ServeByHand(i) \/ SpawnNative(i) \/ Poll(i) \/ WriteStatus(i)
    BY <2>1 DEF ServeByHand, SpawnNative, Poll, WriteStatus
  <2>2. CASE NativeClosed(i) \/ CheckStatus(i) \/ RemoveStatus(i) \/ KillServe(i)
    BY <2>2 DEF NativeClosed, CheckStatus, RemoveStatus, KillServe
  <2>3. CASE Bind(i) \/ CloseListener(i) \/ Exit(i) \/ Break(i)
    BY <2>3 DEF Bind, CloseListener, Exit, Break, SetNative
  <2> QED
    BY <1>2, <2>1, <2>2, <2>3 DEF InstanceStep
<1>3. CASE UserEdits \/ RemoveStaleLock \/ UNCHANGED vars
  BY <1>3 DEF UserEdits, RemoveStaleLock, vars
<1> QED
  BY <1>1, <1>2, <1>3 DEF Next

\* Native processes only go forward, and a dead serve stays so.
LEMMA NativeForward ==
  ASSUME TypeOK, Fresh, [Next]_vars, NEW i \in Instances
  PROVE  /\ native[i] \in Ending => native'[i] \in Ending
         /\ native[i] = "bound" => native'[i] \in Ending \cup {"bound"}
         /\ native[i] = "dead" => native'[i] = "dead"
         /\ Dead(i) => Dead(i)'
<1> USE DEF TypeOK, InstancesTyped, Ending
<1>1. ASSUME NEW p \in Commands, CommandStep(p)
      PROVE  /\ native[i] \in Ending => native'[i] \in Ending
             /\ native[i] = "bound" => native'[i] \in Ending \cup {"bound"}
             /\ native[i] = "dead" => native'[i] = "dead"
             /\ Dead(i) => Dead(i)'
  <2>1. CASE SpawnServe(p) \/ PostShutdown(p)
    BY <2>1 DEF SpawnServe, PostShutdown, Listening, Dead
  <2>2. CASE UNCHANGED <<serve, native>>
    BY <2>2 DEF Dead
  <2> QED
    BY <1>1, <2>1, <2>2 DEF CommandStep, Run, OpenLock, WriteOwner, CreateConfig, Unlock,
       ReadCurrent, ReadAgain, Await, Ready, AwaitStop, ReadSettings, Backup, Compare,
       WriteSettings, KillCommand
<1>2. ASSUME NEW j \in Instances, InstanceStep(j)
      PROVE  /\ native[i] \in Ending => native'[i] \in Ending
             /\ native[i] = "bound" => native'[i] \in Ending \cup {"bound"}
             /\ native[i] = "dead" => native'[i] = "dead"
             /\ Dead(i) => Dead(i)'
  <2>1. CASE ServeByHand(j) \/ SpawnNative(j) \/ Poll(j) \/ WriteStatus(j)
    BY <2>1 DEF Fresh, ServeByHand, SpawnNative, Poll, WriteStatus, Dead
  <2>2. CASE NativeClosed(j) \/ CheckStatus(j) \/ RemoveStatus(j) \/ KillServe(j)
    BY <2>2 DEF NativeClosed, CheckStatus, RemoveStatus, KillServe, Dead
  <2>3. CASE Bind(j) \/ CloseListener(j) \/ Exit(j) \/ Break(j)
    BY <2>3 DEF Bind, CloseListener, Exit, Break, SetNative, Dead
  <2> QED
    BY <1>2, <2>1, <2>2, <2>3 DEF InstanceStep
<1>3. CASE UserEdits \/ RemoveStaleLock \/ UNCHANGED vars
  BY <1>3 DEF UserEdits, RemoveStaleLock, vars, Dead
<1> QED
  BY <1>1, <1>2, <1>3 DEF Next

\* Only these three get to where a command stops a gateway, or to "stopped".
LEMMA StoppingOthers ==
  ASSUME TypeOK, NEW p \in Commands, CommandStep(p)
  PROVE  \/ ReadCurrent(p) \/ PostShutdown(p) \/ AwaitStop(p)
         \/ /\ cmd'[p].pc \notin {"post", "wait"}
            /\ cmd'[p].result \in {cmd[p].result, None, "stale", "failed"}
<1> USE DEF TypeOK, FilesTyped
<1>1. CASE \E kind \in {"start", "stop", "enable"} : Run(p, kind)
  BY <1>1, RunFacts
<1>2. CASE OpenLock(p) \/ WriteOwner(p) \/ Unlock(p)
  BY <1>2, GotoFacts, FinishFacts DEF OpenLock, WriteOwner, Unlock, Places
<1>3. CASE ReadAgain(p) \/ SpawnServe(p)
  BY <1>3, GotoFacts, FoundFacts DEF ReadAgain, SpawnServe, Places, Current, Listening
<1>6. CASE Ready(p)
  BY <1>6, ReadyFacts
<1>4. CASE Backup(p) \/ Compare(p) \/ WriteSettings(p)
  BY <1>4, GotoFacts, FinishFacts DEF Backup, Compare, WriteSettings, Places
<1>5. CASE CreateConfig(p) \/ Await(p) \/ ReadSettings(p) \/ KillCommand(p)
  BY <1>5, CreateFacts, AwaitFacts, ReadSettingsFacts, KillFacts
<1> QED
  BY <1>1, <1>2, <1>3, <1>4, <1>5, <1>6 DEF CommandStep

LEMMA StoppingStep == TypeOK /\ Fresh /\ Stopping /\ [Next]_vars => Stopping'
<1> SUFFICES ASSUME TypeOK, Fresh, Stopping, [Next]_vars
             PROVE  Stopping'
  OBVIOUS
<1> DEFINE Gone == \A i \in Instances :
                     serve[i] \in {"check", "unlink", "gone"} => native[i] = "dead"
           Knows(p) ==
             /\ cmd[p].pc = "post" =>
                  cmd[p].live \in Instances /\ native[cmd[p].live] \in Ending \cup {"bound"}
             /\ cmd[p].pc = "wait" \/ cmd[p].result = "stopped" =>
                  cmd[p].live \in Instances /\ native[cmd[p].live] \in Ending
             /\ cmd[p].result = "stopped" => cmd[p].pc = "done" /\ Dead(cmd[p].live)
<1>0. Gone /\ \A p \in Commands : Knows(p)
  BY DEF Stopping
<1>1. Gone'
  <2>1. ASSUME NEW i \in Instances, InstanceStep(i)
        PROVE  \A j \in Instances :
                 serve'[j] \in {"check", "unlink", "gone"} =>
                   native[j] = "dead" \/ serve[j] \in {"check", "unlink", "gone"}
    BY <2>1 DEF InstanceStep, ServeByHand, SpawnNative, Poll, WriteStatus, NativeClosed,
       CheckStatus, RemoveStatus, SetNative, Bind, CloseListener, Exit, Break, KillServe,
       TypeOK, InstancesTyped
  <2>2. ASSUME NEW p \in Commands, CommandStep(p)
        PROVE  \A j \in Instances :
                 serve'[j] \in {"check", "unlink", "gone"} =>
                   serve[j] \in {"check", "unlink", "gone"}
    BY <2>2 DEF CommandStep, Run, OpenLock, WriteOwner, CreateConfig, Unlock, ReadCurrent,
       ReadAgain, SpawnServe, Await, Ready, PostShutdown, AwaitStop, ReadSettings, Backup,
       Compare, WriteSettings, KillCommand, TypeOK, InstancesTyped
  <2>3. CASE UserEdits \/ RemoveStaleLock \/ UNCHANGED vars
    BY <1>0, <2>3 DEF UserEdits, RemoveStaleLock, vars
  <2> QED
    BY <1>0, <2>1, <2>2, <2>3, NativeForward DEF Next
<1>2. ASSUME NEW p \in Commands, UNCHANGED cmd[p]
      PROVE  Knows(p)'
  BY <1>0, <1>2, NativeForward DEF Ending
<1>3. ASSUME NEW p \in Commands, CommandStep(p)
      PROVE  Knows(p)'
  <2>1. cmd[p].result # "stopped"
    BY <1>0, <1>3 DEF CommandStep, Run, OpenLock, WriteOwner, CreateConfig, Unlock,
       ReadCurrent, ReadAgain, SpawnServe, Await, Ready, PostShutdown, AwaitStop,
       ReadSettings, Backup, Compare, WriteSettings, KillCommand, Ended
  <2>2. CASE ReadCurrent(p)
    <3>1. ASSUME NEW i \in Current,
                 Found(p, i, IF cmd[p].kind = "stop" THEN "post" ELSE "ready")
          PROVE  Knows(p)'
      <4>1. i \in Instances /\ native[i] \in Ending \cup {"bound"}
        BY DEF Current, Listening, Ending
      <4>2. /\ cmd'[p].pc \in {"post", "ready"} /\ cmd'[p].live = i
            /\ cmd'[p].result = cmd[p].result
        BY <3>1, <4>1, FoundFacts DEF Places, TypeOK
      <4>3. UNCHANGED native
        BY <2>2 DEF ReadCurrent
      <4> QED
        BY <2>1, <4>1, <4>2, <4>3
    <3>2. ASSUME \/ Finish(p, None) \/ Goto(p, "open")
          PROVE  Knows(p)'
      BY <2>1, <3>2, FinishFacts, GotoFacts, ManagerAssumption DEF Places, TypeOK
    <3> QED
      BY <2>2, <3>1, <3>2 DEF ReadCurrent
  <2>3. CASE PostShutdown(p)
    <3>1. cmd[p].live \in Instances /\ native[cmd[p].live] \in Ending \cup {"bound"}
      BY <1>0, <2>3 DEF PostShutdown
    <3>2. CASE Listening = {}
      BY <2>3, <3>2, FinishFacts, ManagerAssumption DEF PostShutdown, TypeOK
    <3>3. CASE Listening # {}
      <4>1. native'[cmd[p].live] \in Ending
        BY <2>3, <3>1, <3>3 DEF PostShutdown, Listening, Ending
      <4>2. /\ cmd'[p].pc = "wait" /\ cmd'[p].live = cmd[p].live
            /\ cmd'[p].result = cmd[p].result
        BY <2>3, <3>3, GotoFacts DEF PostShutdown, Places, TypeOK
      <4> QED
        BY <2>1, <3>1, <4>1, <4>2
    <3> QED
      BY <3>2, <3>3
  <2>4. CASE AwaitStop(p)
    <3>1. /\ cmd[p].live \in Instances /\ native[cmd[p].live] \in Ending
          /\ UNCHANGED <<serve, native>>
      BY <1>0, <2>4 DEF AwaitStop
    <3>2. CASE Stopped(p)
      BY <2>4, <3>1, <3>2, FinishFacts DEF AwaitStop, Stopped, Dead, TypeOK
    <3>3. CASE ~Stopped(p)
      BY <2>4, <3>3, FinishFacts, ManagerAssumption DEF AwaitStop, TypeOK
    <3> QED
      BY <3>2, <3>3
  <2>5. CASE /\ cmd'[p].pc \notin {"post", "wait"}
             /\ cmd'[p].result \in {cmd[p].result, None, "stale", "failed"}
    BY <2>1, <2>5, ManagerAssumption
  <2> QED
    BY <1>3, <2>2, <2>3, <2>4, <2>5, StoppingOthers
<1>4. ASSUME NEW p \in Commands
      PROVE  Knows(p)'
  <2>1. ASSUME NEW q \in Commands, CommandStep(q)
        PROVE  Knows(p)'
    BY <1>2, <1>3, <2>1, CommandFacts DEF Others
  <2>2. CASE UNCHANGED cmd
    BY <1>2, <2>2
  <2> QED
    BY <2>1, <2>2, InstanceFacts DEF Next, UserEdits, RemoveStaleLock, vars
<1> QED
  BY <1>1, <1>4 DEF Stopping

\* StoppedIsGone of the run manager: "stopped" is only said of a gateway that has
\* closed its port and whose serve has ended, whatever else starts, stops or is killed.
THEOREM StoppedGatewaysAreGone == Spec => []StoppedIsGone
<1>1. Stopping => StoppedIsGone
  BY DEF Stopping, StoppedIsGone, Ending
<1>2. TypeOK /\ Fresh /\ Stopping /\ [Next]_vars => (Fresh /\ Stopping)'
  BY FreshStep, StoppingStep
<1> QED
  BY <1>1, <1>2, StoppingInit, TypeCorrect, PTL DEF Spec

----------------------------------------------------------------------------
(* status.json.                                                            *)

LEMMA AnnouncingInit == Init => Announcing
BY DEF Init, Announcing, GatewayKnown, Listening

\* One native process listens at a time, since a port can be bound once.
LEMMA AnnouncingCommand ==
  ASSUME TypeOK, Announcing, NEW p \in Commands, CommandStep(p)
  PROVE  Announcing'
<1> USE DEF TypeOK, InstancesTyped, Announcing, GatewayKnown, Listening, Ending
<1>1. CASE SpawnServe(p)
  BY <1>1 DEF SpawnServe, files, history
<1>2. CASE PostShutdown(p)
  BY <1>2 DEF PostShutdown, files, history
<1>3. CASE UNCHANGED <<serve, native, status, raced>>
  BY <1>3
<1> QED
  BY <1>1, <1>2, <1>3 DEF CommandStep, Run, OpenLock, WriteOwner, CreateConfig, Unlock,
     ReadCurrent, ReadAgain, Await, Ready, AwaitStop, ReadSettings, Backup, Compare,
     WriteSettings, KillCommand, files, history

LEMMA AnnouncingInstance ==
  ASSUME TypeOK, Fresh, Announcing, NEW i \in Instances, InstanceStep(i)
  PROVE  Announcing'
<1> USE DEF TypeOK, InstancesTyped, Announcing, GatewayKnown, Listening, Ending
<1>1. CASE ServeByHand(i) \/ SpawnNative(i) \/ Poll(i)
  BY <1>1 DEF ServeByHand, SpawnNative, Poll, Fresh, files, history
<1>2. CASE WriteStatus(i)
  BY <1>2 DEF WriteStatus
<1>3. CASE NativeClosed(i) \/ CheckStatus(i) \/ KillServe(i)
  BY <1>3 DEF NativeClosed, CheckStatus, OwnStatus, KillServe, files, history
<1>4. CASE RemoveStatus(i)
  BY <1>4 DEF RemoveStatus, history
<1>5. CASE Bind(i) \/ CloseListener(i) \/ Exit(i) \/ Break(i)
  BY <1>5 DEF Bind, CloseListener, Exit, Break, SetNative, files, history
<1> QED
  BY <1>1, <1>2, <1>3, <1>4, <1>5 DEF InstanceStep

LEMMA AnnouncingStep == TypeOK /\ Fresh /\ Announcing /\ [Next]_vars => Announcing'
<1> SUFFICES ASSUME TypeOK, Fresh, Announcing, [Next]_vars
             PROVE  Announcing'
  OBVIOUS
<1>1. CASE UserEdits \/ RemoveStaleLock \/ UNCHANGED vars
  <2>1. UNCHANGED <<serve, native, status, raced>>
    BY <1>1 DEF UserEdits, RemoveStaleLock, vars, files, history
  <2> QED
    BY <2>1 DEF Announcing, GatewayKnown, Listening
<1> QED
  BY <1>1, AnnouncingCommand, AnnouncingInstance DEF Next

\* GatewayKnown of the run manager: whichever serves start, fail, stop or are killed,
\* the one that has announced itself and listens is the one in status.json.
THEOREM GatewaysAreKnown == Spec => []GatewayKnown
<1>1. Announcing => GatewayKnown
  BY DEF Announcing
<1>2. TypeOK /\ Fresh /\ Announcing /\ [Next]_vars => (Fresh /\ Announcing)'
  BY FreshStep, AnnouncingStep
<1>3. Init => Fresh /\ Announcing
  BY StoppingInit, AnnouncingInit
<1> QED
  BY <1>1, <1>2, <1>3, TypeCorrect, PTL DEF Spec

=============================================================================
