------------------------------ MODULE Manager ------------------------------
(***************************************************************************)
(* The manager script: commands of several terminals and harnesses start,  *)
(* stop and configure one gateway.  They meet in files (control.lock,      *)
(* config.json, status.json, Claude's settings.json) and in the port that  *)
(* one native process can listen on.  Every process may be killed between  *)
(* two of its steps; a killed serve leaves its native process behind.      *)
(*                                                                         *)
(* An instance is one serve process with the native process it spawns.     *)
(* current(c), which reads status.json and /health together, is one read.  *)
(***************************************************************************)
EXTENDS Integers, FiniteSets

CONSTANTS
  Commands,   \* the commands, each is run once
  Instances,  \* the serve processes
  None,       \* no command, no instance, no result
  MaxEdits,   \* bound: changes the user makes to the settings
  MaxKills    \* bound: processes killed

ASSUME ManagerAssumption ==
  /\ None \notin Commands \cup Instances \cup {"stale", "failed", "stopped"}
  /\ MaxEdits \in Nat /\ MaxKills \in Nat

VARIABLES
  cmd,        \* command -> [kind, goal, pc, live, before, result]
  serve,      \* instance -> where its serve is
  native,     \* instance -> what its native process is doing
  lock,       \* control.lock: [owner, written], the owner None without the file
  configured, \* config.json exists
  status,     \* the instance in status.json
  settings,   \* settings.json: [user, by], the user's version and who wrote it; by
              \* "none" there is no file, which is the user's doing and read as {}
  backups,    \* the user's versions that have been backed up, each in a directory of its
              \* own (named by the millisecond: two commands in one are not modelled)
  edits,      \* versions of the user, deletions included
  kills,
  raced,      \* history: status.json was written when a serve was about to remove it, or
              \* by one whose native process had just ended
  windowed    \* history: the user wrote between a command's compare and its rename, or
              \* deleted the file after a command had read it

vars == <<cmd, serve, native, lock, configured, status, settings, backups, edits,
          kills, raced, windowed>>
files == <<configured, status, settings, backups>>
history == <<edits, kills, raced, windowed>>

Listening == {i \in Instances : native[i] \in {"bound", "stopping"}}
Dead(i) == serve[i] \in {"gone", "killed"}
Ended(p) == cmd[p].pc \in {"done", "killed"}

\* The instance whose status is saved and which answers.
Current == {i \in Listening : status = i}

Idle == [kind |-> None, goal |-> None, pc |-> "idle", live |-> None, before |-> None,
         result |-> None]

Goto(p, pc) == cmd' = [cmd EXCEPT ![p].pc = pc]
\* What a command has read is forgotten when it ends, but for what the properties ask.
Finish(p, result) ==
  cmd' = [cmd EXCEPT ![p] = [Idle EXCEPT !.pc = "done", !.result = result,
                               !.live = IF result = "stopped" THEN cmd[p].live ELSE None]]

----------------------------------------------------------------------------
(* The lock.                                                               *)

Run(p, kind) ==
  /\ cmd[p].pc = "idle"
  /\ cmd' = [cmd EXCEPT ![p].kind = kind, ![p].goal = IF configured THEN "start" ELSE "config",
                         ![p].pc = IF configured THEN "current" ELSE "open"]
  /\ UNCHANGED <<serve, native, lock, files, history>>

\* Mutant: a lock without a readable owner is taken for stale and replaced.
FreeUnlessOwned == lock.owner = None \/ ~lock.written
Free == lock.owner = None

OpenLock(p) ==
  /\ cmd[p].pc = "open"
  /\ IF Free
       THEN lock' = [owner |-> p, written |-> FALSE] /\ Goto(p, "owner")
       ELSE /\ UNCHANGED lock
            /\ Finish(p, IF lock.written /\ Ended(lock.owner) THEN "stale" ELSE None)
  /\ UNCHANGED <<serve, native, files, history>>

\* Once the owner is written the action runs; a failure leaves the file behind.
WriteOwner(p) ==
  /\ cmd[p].pc = "owner"
  /\ \/ /\ lock' = [lock EXCEPT !.written = TRUE]
        /\ Goto(p, IF cmd[p].goal = "config" THEN "create" ELSE "again")
     \/ Finish(p, None) /\ UNCHANGED lock
  /\ UNCHANGED <<serve, native, files, history>>

CreateConfig(p) ==
  /\ cmd[p].pc = "create"
  /\ configured' = TRUE
  /\ cmd' = [cmd EXCEPT ![p].pc = "unlock", ![p].goal = "start"]
  /\ UNCHANGED <<serve, native, lock, status, settings, backups, history>>

\* After the configuration the command goes on; after a start it has its gateway or
\* has failed.
Unlock(p) ==
  /\ cmd[p].pc = "unlock"
  /\ lock' = [owner |-> None, written |-> FALSE]
  /\ CASE cmd[p].result = "failed" -> Finish(p, None)
       [] cmd[p].live # None -> Goto(p, "ready")
       [] OTHER -> Goto(p, "current")
  /\ UNCHANGED <<serve, native, files, history>>

\* The user follows the advice of STALE_CONTROL_LOCK.
RemoveStaleLock ==
  /\ \E p \in Commands : cmd[p].result = "stale"
  /\ lock.owner # None /\ Ended(lock.owner)
  /\ lock' = [owner |-> None, written |-> FALSE]
  /\ UNCHANGED <<cmd, serve, native, files, history>>

----------------------------------------------------------------------------
(* ensureRunning.                                                          *)

Found(p, i, pc) == cmd' = [cmd EXCEPT ![p].live = i, ![p].pc = pc]

ReadCurrent(p) ==
  /\ cmd[p].pc = "current"
  /\ \/ \E i \in Current : Found(p, i, IF cmd[p].kind = "stop" THEN "post" ELSE "ready")
     \/ /\ Current = {}
        /\ IF cmd[p].kind = "stop" THEN Finish(p, None) ELSE Goto(p, "open")
  /\ UNCHANGED <<serve, native, lock, files, history>>

ReadAgain(p) ==
  /\ cmd[p].pc = "again"
  /\ \/ \E i \in Current : Found(p, i, "unlock")
     \/ Current = {} /\ Goto(p, "spawn")
  /\ UNCHANGED <<serve, native, lock, files, history>>

SpawnServe(p) ==
  /\ cmd[p].pc = "spawn"
  /\ \E i \in Instances :
       /\ serve[i] = "none"
       /\ serve' = [serve EXCEPT ![i] = "spawn"]
       /\ Goto(p, "await")
  /\ UNCHANGED <<native, lock, files, history>>

\* Until a gateway answers, whichever it is, its serve has ended or time is up.
Await(p) ==
  /\ cmd[p].pc = "await"
  /\ \/ \E i \in Current : Found(p, i, "unlock")
     \/ /\ Current = {}
        /\ cmd' = [cmd EXCEPT ![p].pc = "unlock", ![p].result = "failed"]
  /\ UNCHANGED <<serve, native, lock, files, history>>

Ready(p) ==
  /\ cmd[p].pc = "ready"
  /\ IF cmd[p].kind = "enable"
       THEN cmd' = [cmd EXCEPT ![p] = [Idle EXCEPT !.kind = "enable", !.pc = "read"]]
       ELSE Finish(p, None)
  /\ UNCHANGED <<serve, native, lock, files, history>>

----------------------------------------------------------------------------
(* serve and the native process.                                           *)

\* serve can be run by hand as well.
ServeByHand(i) ==
  /\ configured /\ serve[i] = "none"
  /\ serve' = [serve EXCEPT ![i] = "spawn"]
  /\ UNCHANGED <<cmd, native, lock, files, history>>

SpawnNative(i) ==
  /\ serve[i] = "spawn"
  /\ serve' = [serve EXCEPT ![i] = "poll"]
  /\ native' = [native EXCEPT ![i] = "starting"]
  /\ UNCHANGED <<cmd, lock, files, history>>

\* The native process must answer with the identity serve gave it, or it is stopped.
Poll(i) ==
  /\ serve[i] = "poll"
  /\ \/ /\ i \in Listening
        /\ serve' = [serve EXCEPT ![i] = "write"]
        /\ UNCHANGED native
     \/ /\ i \notin Listening
        /\ serve' = [serve EXCEPT ![i] = "failing"]
        /\ native' = [native EXCEPT ![i] =
             IF @ = "starting" THEN "draining" ELSE IF @ = "bound" THEN "stopping" ELSE @]
  /\ UNCHANGED <<cmd, lock, files, history>>

WriteStatus(i) ==
  /\ serve[i] = "write"
  /\ serve' = [serve EXCEPT ![i] = "listening"]
  /\ status' = i
  /\ raced' = (raced \/ i \notin Listening \/ \E j \in Instances : serve[j] = "unlink")
  /\ UNCHANGED <<cmd, native, lock, configured, settings, backups, edits, kills, windowed>>

NativeClosed(i) ==
  /\ serve[i] \in {"listening", "failing"} /\ native[i] = "dead"
  /\ serve' = [serve EXCEPT ![i] = IF @ = "listening" THEN "check" ELSE "gone"]
  /\ UNCHANGED <<cmd, native, lock, files, history>>

\* Mutant: whatever status.json says.
AnyStatus(i) == status # None
OwnStatus(i) == status = i

CheckStatus(i) ==
  /\ serve[i] = "check"
  /\ serve' = [serve EXCEPT ![i] = IF OwnStatus(i) THEN "unlink" ELSE "gone"]
  /\ UNCHANGED <<cmd, native, lock, files, history>>

RemoveStatus(i) ==
  /\ serve[i] = "unlink"
  /\ serve' = [serve EXCEPT ![i] = "gone"]
  /\ status' = None
  /\ UNCHANGED <<cmd, native, lock, configured, settings, backups, history>>

SetNative(i, to) ==
  /\ native' = [native EXCEPT ![i] = to]
  /\ UNCHANGED <<cmd, serve, lock, files, history>>

\* One process can listen on the port; another one gives up.
Bind(i) ==
  native[i] = "starting" /\ SetNative(i, IF Listening = {} THEN "bound" ELSE "dead")
CloseListener(i) == native[i] = "stopping" /\ SetNative(i, "draining")
Exit(i) == native[i] = "draining" /\ SetNative(i, "dead")
\* run returns an error, the login has expired, the process is killed.
Break(i) == native[i] \in {"starting", "bound"} /\ SetNative(i, "dead")

----------------------------------------------------------------------------
(* stop.                                                                   *)

\* All instances have the same URL and the same key: whichever listens is stopped.
PostShutdown(p) ==
  /\ cmd[p].pc = "post"
  /\ IF Listening = {}
       THEN Finish(p, None) /\ UNCHANGED native
       ELSE /\ Goto(p, "wait")
            /\ native' = [i \in Instances |-> IF i \in Listening THEN "stopping" ELSE native[i]]
  /\ UNCHANGED <<serve, lock, files, history>>

\* Mutant: no answer is enough.
NotAnswering(p) == Current = {}
Stopped(p) == Current = {} /\ Dead(cmd[p].live)

AwaitStop(p) ==
  /\ cmd[p].pc = "wait"
  /\ Finish(p, IF Stopped(p) THEN "stopped" ELSE None)
  /\ UNCHANGED <<serve, native, lock, files, history>>

----------------------------------------------------------------------------
(* claudeEnable.                                                           *)

ReadSettings(p) ==
  /\ cmd[p].pc = "read"
  /\ IF Listening = {} THEN Finish(p, None)
     ELSE cmd' = [cmd EXCEPT ![p].pc = "backup", ![p].before = settings]
  /\ UNCHANGED <<serve, native, lock, files, history>>

Backup(p) ==
  /\ cmd[p].pc = "backup"
  /\ backups' = backups \cup {cmd[p].before.user}
  /\ Goto(p, "compare")
  /\ UNCHANGED <<serve, native, lock, configured, status, settings, history>>

\* Mutant: changes of others are not looked for.
AnySettings(p) == TRUE
\* Nothing is compared with a file that is not there.
Unchanged(p) == settings.by = "none" \/ settings = cmd[p].before

Compare(p) ==
  /\ cmd[p].pc = "compare"
  /\ IF Unchanged(p) THEN Goto(p, "rename") ELSE Finish(p, None)
  /\ UNCHANGED <<serve, native, lock, files, history>>

\* buildClaudeSettings keeps the user's version but for the routing and the settings
\* that go with it (telemetry, tool search, the windows).
WriteSettings(p) ==
  /\ cmd[p].pc = "rename"
  /\ settings' = [user |-> cmd[p].before.user, by |-> "manager"]
  /\ Finish(p, None)
  /\ UNCHANGED <<serve, native, lock, configured, status, backups, history>>

Configuring(places) == \E p \in Commands : cmd[p].pc \in places

UserEdits ==
  /\ edits < MaxEdits
  /\ edits' = edits + 1
  /\ \/ /\ settings' = [user |-> edits', by |-> "user"]
        /\ windowed' = (windowed \/ Configuring({"rename"}))
     \/ /\ settings.by # "none"
        /\ settings' = [user |-> edits', by |-> "none"]
        /\ windowed' = (windowed \/ Configuring({"backup", "compare", "rename"}))
  /\ UNCHANGED <<cmd, serve, native, lock, configured, status, backups, kills, raced>>

----------------------------------------------------------------------------
KillCommand(p) ==
  /\ kills < MaxKills /\ cmd[p].pc # "idle" /\ ~Ended(p)
  /\ kills' = kills + 1
  /\ cmd' = [cmd EXCEPT ![p] = [Idle EXCEPT !.pc = "killed"]]
  /\ UNCHANGED <<serve, native, lock, files, edits, raced, windowed>>

KillServe(i) ==
  /\ kills < MaxKills /\ serve[i] # "none" /\ ~Dead(i)
  /\ kills' = kills + 1
  /\ serve' = [serve EXCEPT ![i] = "killed"]
  /\ UNCHANGED <<cmd, native, lock, files, edits, raced, windowed>>

Init ==
  /\ cmd = [p \in Commands |-> Idle]
  /\ serve = [i \in Instances |-> "none"] /\ native = [i \in Instances |-> "none"]
  /\ lock = [owner |-> None, written |-> FALSE]
  /\ configured \in BOOLEAN /\ status = None
  /\ settings \in [user : {0}, by : {"user", "none"}] /\ backups = {}
  /\ edits = 0 /\ kills = 0 /\ raced = FALSE /\ windowed = FALSE

CommandStep(p) ==
  \/ \E kind \in {"start", "stop", "enable"} : Run(p, kind)
  \/ OpenLock(p) \/ WriteOwner(p) \/ CreateConfig(p) \/ Unlock(p)
  \/ ReadCurrent(p) \/ ReadAgain(p) \/ SpawnServe(p) \/ Await(p) \/ Ready(p)
  \/ PostShutdown(p) \/ AwaitStop(p)
  \/ ReadSettings(p) \/ Backup(p) \/ Compare(p) \/ WriteSettings(p)
  \/ KillCommand(p)

InstanceStep(i) ==
  \/ ServeByHand(i) \/ SpawnNative(i) \/ Poll(i) \/ WriteStatus(i)
  \/ NativeClosed(i) \/ CheckStatus(i) \/ RemoveStatus(i)
  \/ Bind(i) \/ CloseListener(i) \/ Exit(i) \/ Break(i)
  \/ KillServe(i)

Next ==
  \/ \E p \in Commands : CommandStep(p)
  \/ \E i \in Instances : InstanceStep(i)
  \/ UserEdits \/ RemoveStaleLock

Spec == Init /\ [][Next]_vars

----------------------------------------------------------------------------
(* Correctness.                                                            *)

Locked == {"owner", "create", "again", "spawn", "await", "unlock"}

\* control.lock keeps commands apart: who is in a locked section owns the file, which
\* nobody else takes, replaces or removes, also after commands have been killed at any
\* point and the user has removed the locks they left behind.
LockExclusive ==
  \A p \in Commands : cmd[p].pc \in Locked => lock.owner = p

\* A gateway that has announced itself and still listens is the one status.json names,
\* so that status and stop find it and start does not spawn another, whichever
\* serves start, fail, stop or are killed.  (Except: a serve wrote or removed status.json
\* when what it had checked was no longer so.)
GatewayKnown ==
  \A i \in Instances :
    serve[i] = "listening" /\ native[i] = "bound" => status = i \/ raced

\* When stop says "stopped" the gateway it saw is gone with its port; only the native
\* process of a serve that was killed may still be ending.
StoppedIsGone ==
  \A p \in Commands :
    cmd[p].result = "stopped" =>
      LET i == cmd[p].live IN
      native[i] # "bound" /\ (serve[i] = "gone" => native[i] = "dead") /\ Dead(i)

\* Configuring Claude never loses what the user wrote: the settings in place hold the
\* user's last version, and what the manager replaced has a backup, whatever runs or is
\* killed meanwhile.  (Except: an edit between the comparison and the rename, and a
\* deletion once a command has read the file, which that command may undo.)
SettingsKept ==
  /\ settings.user = edits \/ windowed
  /\ settings.by = "manager" => settings.user \in backups

=============================================================================
