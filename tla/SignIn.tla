------------------------------- MODULE SignIn -------------------------------
(***************************************************************************)
(* Whose library a command reads and writes.  Both programs sign in per    *)
(* role (source, destination): a session is restored from the keyring or   *)
(* obtained in the browser, checked, and saved (TidalAuthenticator and     *)
(* CredentialStore, the same code twice).  The menu of tidal_manager works *)
(* with the sessions it has obtained; the command line of music_transfer   *)
(* connects each account, records it (AccountService._upsert), and then    *)
(* builds its adapters from a second sign-in by role (adapter_for).        *)
(*                                                                         *)
(* A command is the sequence of stages its handler goes through; a stage   *)
(* that refuses, or a stop of the program, abandons the rest.  What is     *)
(* durable: the keyring, the account rows, and unfinished work (the        *)
(* transfer checkpoint, the cleanup queue, the job).                       *)
(***************************************************************************)
EXTENDS Sequences, FiniteSets, Naturals

CONSTANTS
  Accounts,      \* accounts the user has at the service
  Programs,      \* subset of {"menu", "cli"}
  TakesUrl,      \* whether the interface's callback accepts the url keyword
  NoOne,
  MaxCommands,   \* bound on commands
  MaxFaults,     \* bound on failed requests, failed saves and revocations
  MaxStops       \* bound on interrupted commands

ASSUME SignInAssumption ==
  /\ NoOne \notin Accounts
  /\ "malformed" \notin Accounts
  /\ Programs \subseteq {"menu", "cli"}
  /\ TakesUrl \in BOOLEAN

Roles == {"source", "destination"}

VARIABLES
  program,       \* the program in use: keyring service names are distinct
  backend,       \* whether a usable keyring backend exists
  keyring,       \* keyring[r]: the account whose session is saved, or not one
  accepted,      \* accepted[r]: the service still accepts that session
  rows,          \* accounts.json: the account and role of each row
  work,          \* unfinished work by kind: transfer, cleanup, job
  backups,       \* accounts of the complete backups on disk
  copied,        \* copies that were made: from, to and the command
  deleted,       \* accounts a cleanup deleted from
  command,       \* the command that runs, or "none"
  todo,          \* its stages to come
  step,          \* where the sign-in of the first of them is
  candidate,     \* the account of the session being established
  session,       \* session[r]: the account the command works with
  hit,           \* whether something failed since the command started
  commands, faults, stops

durable == <<keyring, rows, work, backups>>
effects == <<copied, deleted>>
signing == <<step, candidate>>
bounds == <<commands, faults, stops>>
vars == <<program, backend, durable, accepted, effects, command, todo, signing,
          session, hit, bounds>>

NoWork == [transfer |-> NoOne, operation |-> "transfer", cleanup |-> NoOne,
           job |-> NoOne, target |-> NoOne]

Init ==
  /\ program \in Programs
  /\ backend \in BOOLEAN
  /\ keyring = [r \in Roles |-> NoOne]
  /\ accepted = [r \in Roles |-> TRUE]
  /\ rows = {}
  /\ work = NoWork
  /\ backups = {}
  /\ copied = {}
  /\ deleted = {}
  /\ command = "none"
  /\ todo = <<>>
  /\ step = "idle"
  /\ candidate = NoOne
  /\ session = [r \in Roles |-> NoOne]
  /\ hit = FALSE
  /\ commands = 0
  /\ faults = 0
  /\ stops = 0
----------------------------------------------------------------------------
(* The stages of the handlers.  "source" and "destination" are sign-ins of *)
(* the menu or of connect(); the adapters are those of adapter_for().      *)
MenuStages(c) ==
  CASE c = "transfer" ->
         <<"source", "destination", "compare", "checkpoint", "copy">>
    [] c = "resume_transfer" -> <<"destination", "compare_checkpoint", "copy">>
    [] c = "restore" -> <<"choose", "destination", "checkpoint", "copy">>
    [] c = "backup" -> <<"source", "backup">>
    [] c = "cleanup" -> <<"source", "backup", "enqueue", "delete">>
    [] c = "resume_cleanup" -> <<"source", "delete">>

CliStages(c) ==
  CASE c = "transfer" ->
         <<"source", "row", "destination", "row", "create_job",
           "source_adapter", "destination_adapter", "copy">>
    [] c = "resume_transfer" -> <<"destination", "row", "destination_adapter", "copy">>
    [] c = "backup" -> <<"source", "row", "source_adapter", "backup">>

Stages(c) == IF program = "menu" THEN MenuStages(c) ELSE CliStages(c)

(* Commands that can be given: resuming needs unfinished work, restoring a *)
(* backup.                                                                 *)
Offered ==
  {"transfer", "backup"}
    \cup {c \in {"resume_transfer"} :
            IF program = "menu" THEN work.transfer # NoOne ELSE work.job # NoOne}
    \cup {c \in {"restore"} : program = "menu" /\ backups # {}}
    \cup {c \in {"cleanup"} : program = "menu"}
    \cup {c \in {"resume_cleanup"} : program = "menu" /\ work.cleanup # NoOne}

Give(c) ==
  /\ command = "none"
  /\ commands < MaxCommands
  /\ commands' = commands + 1
  /\ c \in Offered
  /\ command' = c
  /\ todo' = Stages(c)
  /\ hit' = FALSE
  /\ UNCHANGED <<program, backend, durable, accepted, effects, signing, session,
                 faults, stops>>

(* The command ends, and its sessions with it.                             *)
End ==
  /\ command' = "none"
  /\ todo' = <<>>
  /\ step' = "idle"
  /\ candidate' = NoOne
  /\ session' = [r \in Roles |-> NoOne]

At(stage) == todo # <<>> /\ step = "idle" /\ Head(todo) = stage

(* A stage is passed; after the last one the command has ended.            *)
Pass ==
  IF Len(todo) = 1 THEN End
  ELSE todo' = Tail(todo) /\ UNCHANGED <<command, signing, session>>

Fails == faults < MaxFaults /\ faults' = faults + 1 /\ hit' = TRUE
Succeeds == UNCHANGED <<faults, hit>>
----------------------------------------------------------------------------
(* connect(role): TidalAuthenticator of either program.                    *)
SignsIn(stage) ==
  stage \in {"source", "destination", "source_adapter", "destination_adapter"}
Role ==
  IF Head(todo) \in {"source", "source_adapter"} THEN "source" ELSE "destination"

(* adapter_for passes a callback that takes one positional argument.       *)
ShowsUrl == TakesUrl /\ Head(todo) \in Roles

Forgotten == keyring' = [keyring EXCEPT ![Role] = NoOne]

(* CredentialStore.load: without a backend or an entry there is nothing to *)
(* restore; an entry that is not a credential is deleted.                  *)
LoadNothing ==
  /\ todo # <<>>
  /\ step = "idle"
  /\ SignsIn(Head(todo))
  /\ ~backend \/ keyring[Role] \in {NoOne, "malformed"}
  /\ IF backend THEN Forgotten ELSE UNCHANGED keyring
  /\ step' = "login"
  /\ hit' = (hit \/ ~backend)
  /\ UNCHANGED <<program, backend, accepted, rows, work, backups, effects, command,
                 todo, candidate, session, bounds>>

(* Mutation: a rejected session ends the sign-in instead of asking again.  *)
RestoreOrRefuse ==
  /\ todo # <<>>
  /\ step = "idle"
  /\ SignsIn(Head(todo))
  /\ backend
  /\ keyring[Role] \in Accounts
  /\ \/ /\ accepted[Role]
        /\ step' = "check"
        /\ candidate' = keyring[Role]
        /\ UNCHANGED <<command, todo, session, keyring>>
     \/ /\ ~accepted[Role]
        /\ Forgotten
        /\ End
  /\ Succeeds
  /\ UNCHANGED <<program, backend, accepted, rows, work, backups, effects,
                 commands, stops>>

(* _restore_session: any answer but a restored and accepted session, a     *)
(* network failure included, deletes the saved one.                        *)
Restore ==
  /\ todo # <<>>
  /\ step = "idle"
  /\ SignsIn(Head(todo))
  /\ backend
  /\ keyring[Role] \in Accounts
  /\ \/ /\ accepted[Role]
        /\ Succeeds
        /\ step' = "check"
        /\ candidate' = keyring[Role]
        /\ UNCHANGED keyring
     \/ /\ ~accepted[Role]
        /\ Succeeds
        /\ step' = "login"
        /\ Forgotten
        /\ UNCHANGED candidate
     \/ /\ Fails
        /\ step' = "login"
        /\ Forgotten
        /\ UNCHANGED candidate
  /\ UNCHANGED <<program, backend, accepted, rows, work, backups, effects, command,
                 todo, session, commands, stops>>

(* _login_with_oauth: the user opens the URL and signs in with any account *)
(* of theirs.  A callback that does not take the URL raises, and so does a *)
(* flow that fails.                                                        *)
Login ==
  /\ step = "login"
  /\ ShowsUrl
  /\ Succeeds
  /\ \E a \in Accounts : candidate' = a
  /\ step' = "check"
  /\ UNCHANGED <<program, backend, durable, accepted, effects, command, todo,
                 session, commands, stops>>

LoginFails ==
  /\ step = "login"
  /\ IF ShowsUrl THEN Fails ELSE Succeeds
  /\ End
  /\ UNCHANGED <<program, backend, durable, accepted, effects, commands, stops>>

(* The check after either way, and CredentialStore.save: without a backend *)
(* or when the backend fails, the session is used and not saved.           *)
Check ==
  /\ step = "check"
  /\ session' = [session EXCEPT ![Role] = candidate]
  /\ \/ /\ Succeeds
        /\ IF backend
             THEN /\ keyring' = [keyring EXCEPT ![Role] = candidate]
                  /\ accepted' = [accepted EXCEPT ![Role] = TRUE]
             ELSE UNCHANGED <<keyring, accepted>>
     \/ /\ backend
        /\ Fails
        /\ UNCHANGED <<keyring, accepted>>
  /\ step' = "idle"
  /\ candidate' = NoOne
  /\ todo' = Tail(todo)
  /\ UNCHANGED <<program, backend, rows, work, backups, effects, command, commands,
                 stops>>

CheckFails ==
  /\ step = "check"
  /\ Fails
  /\ End
  /\ UNCHANGED <<program, backend, durable, accepted, effects, commands, stops>>
----------------------------------------------------------------------------
(* _upsert: the row of an account is found by platform and account, and    *)
(* kept as it is; a new one notes the role it was connected in.            *)
LastRole == IF session["destination"] = NoOne THEN "source" ELSE "destination"
RecordRow ==
  /\ At("row")
  /\ LET a == session[LastRole]
     IN rows' = IF \E row \in rows : row.account = a
                  THEN rows ELSE rows \cup {[account |-> a, role |-> LastRole]}
  /\ Pass
  /\ UNCHANGED <<program, backend, keyring, work, backups, accepted, effects, hit,
                 bounds>>

(* Where the library that is copied comes from.                            *)
Origin ==
  IF command # "resume_transfer" THEN session["source"]
  ELSE IF program = "menu" THEN work.transfer ELSE work.job
Operation ==
  IF program = "cli" THEN "job"
  ELSE IF command = "resume_transfer" THEN work.operation ELSE command

Refuse(same) == IF same THEN End ELSE Pass

(* Mutation: the accounts are not compared.                                *)
SameNever(a, b) == FALSE

(* profile().account_id of both sessions; Account.same_identity.           *)
Same(a, b) == a = b

(* _transfer_library: nothing is recorded for a copy onto itself.          *)
Compare ==
  /\ At("compare")
  /\ Refuse(Same(session["source"], session["destination"]))
  /\ UNCHANGED <<program, backend, durable, accepted, effects, hit, bounds>>

(* create_job: the same check on the rows; the job names both accounts.    *)
CreateJob ==
  /\ At("create_job")
  /\ LET same == Same(session["source"], session["destination"])
     IN /\ Refuse(same)
        /\ work' = IF same THEN work
                   ELSE [work EXCEPT !.job = session["source"],
                                     !.target = session["destination"]]
  /\ UNCHANGED <<program, backend, keyring, rows, backups, accepted, effects, hit,
                 bounds>>

(* _resume_if_requested: the checkpoint of a transfer names its source.    *)
CompareCheckpoint ==
  /\ At("compare_checkpoint")
  /\ Refuse(work.operation = "transfer"
              /\ Same(work.transfer, session["destination"]))
  /\ UNCHANGED <<program, backend, durable, accepted, effects, hit, bounds>>

(* _restore_backup: the library of one of the files is the source.         *)
ChooseBackup ==
  /\ At("choose")
  /\ \E a \in backups : session' = [session EXCEPT !["source"] = a]
  /\ todo' = Tail(todo)
  /\ UNCHANGED <<program, backend, durable, accepted, effects, command, signing, hit,
                 bounds>>

(* TransferService.run stores the checkpoint before the first request;     *)
(* TransferStateStore.save keeps the document of an unfinished transfer    *)
(* that is there.                                                          *)
Checkpoint ==
  /\ At("checkpoint")
  /\ work' = IF work.transfer # NoOne THEN work
             ELSE [work EXCEPT !.transfer = session["source"],
                               !.operation = command]
  /\ Pass
  /\ UNCHANGED <<program, backend, keyring, rows, backups, accepted, effects, hit,
                 bounds>>

(* The user declines a confirmation, or a library cannot be read whole.    *)
Decline ==
  /\ step = "idle"
  /\ todo # <<>>
  /\ Head(todo) \in {"checkpoint", "copy", "backup", "enqueue", "delete"}
  /\ End
  /\ UNCHANGED <<program, backend, durable, accepted, effects, hit, bounds>>

(* The copy is made; the work is finished, or failures keep it.            *)
Copy ==
  /\ At("copy")
  /\ copied' = copied \cup {[from |-> Origin, to |-> session["destination"],
                             by |-> command,
                             of |-> Operation]}
  /\ \/ UNCHANGED work
     \/ work' = [work EXCEPT !.transfer = NoOne, !.job = NoOne]
  /\ Pass
  /\ UNCHANGED <<program, backend, keyring, rows, backups, accepted, deleted, hit,
                 bounds>>

(* BackupService.create, command_export, and the backup _clean_library     *)
(* insists on: a partial one ends the cleanup.                             *)
Backup ==
  /\ At("backup")
  /\ backups' = backups \cup {session["source"]}
  /\ Pass
  /\ UNCHANGED <<program, backend, keyring, rows, work, accepted, effects, hit,
                 bounds>>

(* CleanupManager.execute writes the queue, which names no account.        *)
Enqueue ==
  /\ At("enqueue")
  /\ work' = [work EXCEPT !.cleanup = session["source"]]
  /\ Pass
  /\ UNCHANGED <<program, backend, keyring, rows, backups, accepted, effects, hit,
                 bounds>>

Delete ==
  /\ At("delete")
  /\ deleted' = deleted \cup {[account |-> session["source"], by |-> command]}
  /\ \/ UNCHANGED work
     \/ work' = [work EXCEPT !.cleanup = NoOne]
  /\ Pass
  /\ UNCHANGED <<program, backend, keyring, rows, backups, accepted, copied, hit,
                 bounds>>
----------------------------------------------------------------------------
(* forget: the settings of the menu, AccountService.forget.                *)
Forget(r) ==
  /\ command = "none"
  /\ backend
  /\ keyring[r] # NoOne
  /\ keyring' = [keyring EXCEPT ![r] = NoOne]
  /\ UNCHANGED <<program, backend, rows, work, backups, accepted, effects, command,
                 todo, signing, session, hit, bounds>>

(* The service no longer accepts a session, or the entry is damaged.       *)
Revoke(r) ==
  /\ keyring[r] \in Accounts
  /\ Fails
  /\ \/ accepted' = [accepted EXCEPT ![r] = FALSE] /\ UNCHANGED keyring
     \/ keyring' = [keyring EXCEPT ![r] = "malformed"] /\ UNCHANGED accepted
  /\ UNCHANGED <<program, backend, rows, work, backups, effects, command, todo,
                 signing, session, commands, stops>>

(* Ctrl+C, or the process dies.                                            *)
Stop ==
  /\ command # "none"
  /\ stops < MaxStops
  /\ stops' = stops + 1
  /\ End
  /\ UNCHANGED <<program, backend, durable, accepted, effects, hit, commands, faults>>

Next ==
  \/ \E c \in Offered : Give(c)
  \/ LoadNothing \/ Restore \/ Login \/ LoginFails \/ Check \/ CheckFails
  \/ RecordRow \/ Compare \/ CreateJob \/ CompareCheckpoint \/ ChooseBackup
  \/ Checkpoint \/ Decline \/ Copy \/ Backup \/ Enqueue \/ Delete
  \/ \E r \in Roles : Forget(r) \/ Revoke(r)
  \/ Stop

Spec == Init /\ [][Next]_vars
----------------------------------------------------------------------------
(* No transfer copies a library onto the account it came from, though the  *)
(* accounts are compared before the sessions that write are established    *)
(* (create_job before adapter_for) and a transfer that tidal_manager       *)
(* resumes signs in anew.  Two commands compare nothing and are excepted:  *)
(* a restore, which is meant for the account of the backup, and            *)
(* command_resume, which writes to whichever account signs in.             *)
NeverOntoItself ==
  \A c \in copied :
    c.from = c.to =>
      \/ c.of = "restore"
      \/ program = "cli" /\ c.by = "resume_transfer"

(* A cleanup only deletes from an account of which there is a complete     *)
(* backup (menu.py: "A complete, newly validated backup is mandatory"),    *)
(* unless it is resumed: the queue names no account, and whoever signs in  *)
(* then is deleted from.                                                   *)
DeletesBackedUp ==
  \A d \in deleted : d.by # "resume_cleanup" => d.account \in backups

(* Every write of a command goes to an account it may go to.               *)
RightAccount == NeverOntoItself /\ DeletesBackedUp

(* A sign-in is refused only when something failed during the command or   *)
(* no session can be saved: an expired, revoked or damaged saved session   *)
(* leads to the browser, never to an error (_restore_session).             *)
RefusedForCause ==
  [][command # "none" /\ command' = "none" /\ stops' = stops
       /\ SignsIn(Head(todo)) => hit']_vars

============================================================================
