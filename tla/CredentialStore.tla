--------------------------- MODULE CredentialStore ---------------------------
(***************************************************************************)
(* What the credential manager of auth.go promises about one account's     *)
(* credential, without goroutines, locks and the service: a write-back     *)
(* cache of one record.  Memory holds the record or a successor of it      *)
(* within its login session and is marked dirty until it is saved; a login *)
(* replaces memory, file and signing session in one step; requests are     *)
(* only ever signed for the session held; a closed store does not change,  *)
(* and a crash leaves the file.                                            *)
(***************************************************************************)
EXTENDS Naturals

CONSTANTS
  Credentials,  \* records with at least a session, refresh token and profile
  None          \* no credential; no session

VARIABLES
  stored,  \* the file
  held,    \* the credential in memory
  dirty,   \* memory may be ahead of the file
  signs,   \* the session requests are signed for
  closed   \* the store has been closed

vars == <<stored, held, dirty, signs, closed>>

\* c may follow d in its session: never an older refresh token, and at most
\* the session's own profile added.
Succeeds(c, d) ==
  /\ c.sess = d.sess
  /\ c.rt >= d.rt
  /\ c.prof \in {d.prof, d.sess}

Init ==
  /\ stored \in Credentials \cup {None}
  /\ held = None /\ ~dirty
  /\ signs = None
  /\ ~closed

\* Memory is dirty at once when loading completes the record of the file.
Load ==
  /\ held = None /\ stored # None
  /\ ~closed
  /\ held' \in Credentials
  /\ Succeeds(held', stored) /\ held'.rt = stored.rt
  /\ dirty' = (held' # stored)
  /\ UNCHANGED <<stored, signs, closed>>

\* A rotation, a refresh or a profile reaches memory, never without the mark.
Renew ==
  /\ held # None
  /\ ~closed
  /\ held' \in Credentials
  /\ Succeeds(held', held)
  /\ dirty' = TRUE
  /\ UNCHANGED <<stored, signs, closed>>

\* The file receives what memory holds now, not what it held when the save
\* became due.
Save ==
  /\ dirty
  /\ ~closed
  /\ stored' = held
  /\ dirty' = FALSE
  /\ UNCHANGED <<held, signs, closed>>

Sign ==
  /\ held # None
  /\ ~closed
  /\ signs' = held.sess
  /\ UNCHANGED <<stored, held, dirty, closed>>

\* A new session, in memory, on file and for requests at the same moment.
Login ==
  /\ ~closed
  /\ held' \in Credentials
  /\ stored # None => held'.sess # stored.sess
  /\ stored' = held'
  /\ dirty' = FALSE
  /\ signs' = held'.sess
  /\ UNCHANGED closed

Close ==
  /\ ~closed
  /\ closed' = TRUE
  /\ signs' = None
  /\ UNCHANGED <<stored, held, dirty>>

\* The process exits or crashes.
Stop ==
  /\ held' = None /\ dirty' = FALSE /\ signs' = None /\ closed' = FALSE
  /\ UNCHANGED stored

Next == Load \/ Renew \/ Save \/ Sign \/ Login \/ Close \/ Stop

Spec == Init /\ [][Next]_vars

=============================================================================
