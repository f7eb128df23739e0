------------------------------ MODULE JobStore ------------------------------
(***************************************************************************)
(* Several processes on the documents of JsonTransferJobRepository and     *)
(* JsonTransferItemRepository.  Nothing locks them: jobs.update() writes   *)
(* the caller's own copy of the job, and items.update() reads the whole    *)
(* items document, replaces one item and writes the document back.         *)
(*                                                                         *)
(* A process runs one command at a time: it resumes a job to its end,      *)
(* creates a retry job from what another job left, or asks a job to stop.  *)
(* TransferExecution looks inside one run; here a run is reduced to what   *)
(* it reads, writes and stores, and the interleaving is what matters.      *)
(* Each read and each write of a document is a step of its own.            *)
(***************************************************************************)
EXTENDS TransferLifecycle, Sublists, SequencesExt

CONSTANTS
  Processes,     \* programs started on one data directory
  Jobs,          \* identifiers of jobs; all but First are retry jobs
  First,         \* the job that was planned
  Order,         \* its items as _write_order arranges them: the favorites,
                 \* the playlist, the entries of the playlist
  Playlist,      \* the playlist item
  Entries,       \* its playlist_item items
  Nothing,
  MaxItemAttempts, \* settings.max_item_attempts
  MaxCommands,   \* bound on the commands that are started: too few to use
                 \* up the attempts of an item (_attempts_exhausted)
  MaxFaults,     \* bound on requests that fail
  MaxStops       \* bound on processes that die

Items == ToSet(Order)
Favorites == Items \ (Entries \cup {Playlist})

ASSUME StoreAssumption ==
  /\ First \in Jobs
  /\ Entries \subseteq Items
  /\ Nothing \notin Jobs \cup Items \cup [status : JobStatus, cancel : BOOLEAN]
  /\ MaxCommands <= MaxItemAttempts

(* Items have identifiers of their own, and the planner puts the entries   *)
(* of a playlist behind it.                                                *)
ASSUME OrderAssumption ==
  /\ Order \in Seq(Items)
  /\ \A m, n \in DOMAIN Order : Order[m] = Order[n] => m = n
  /\ Playlist \in Items \ Entries
  /\ \A m, n \in DOMAIN Order :
       Order[m] = Playlist /\ Order[n] \in Entries => m < n

VARIABLES
  dryRun,    \* settings.dry_run of the job; its retry jobs copy the settings
  jobs,      \* jobs/<id>.json: status and cancellation_requested, or Nothing
  items,     \* items/<id>.json: the stored items of each job
  library,   \* the favorites at the destination
  lists,     \* the content of each playlist that was created there
  run,       \* what each process holds in memory
  tried,     \* tried[j]: items some process has attempted, or found settled
  commands, faults, stops

documents == <<jobs, items>>
destination == <<library, lists>>
bounds == <<commands, faults, stops>>
vars == <<dryRun, documents, destination, run, tried, bounds>>

(* A stored item: its status and the playlist it knows, an index of lists: *)
(* destination_id of the playlist, container_destination_id of an entry.   *)
Item(status, list) == [status |-> status, list |-> list]
Job(status, cancel) == [status |-> status, cancel |-> cancel]

(* The memory of a process: the job and its items as it has read them, the *)
(* items it has to go through, what it has read of the items document in   *)
(* update() and of the destination, and ExecutionOutcome.cancelled.        *)
Idle ==
  [pc |-> "idle", id |-> Nothing, job |-> Nothing, mine |-> <<>>,
   queue |-> <<>>, read |-> <<>>, seen |-> <<>>, cancelled |-> FALSE]

(* _write_order: an entry is reached through the playlist item of the job. *)
WriteOrder(S) ==
  Sublist(Order, {i \in S : i \in Entries => Playlist \in S})

Settled(item) == item.status \in TerminalItemStatuses
IsFinished(job) == job.status \in TerminalStatuses

Init ==
  /\ dryRun \in BOOLEAN
  /\ jobs = [j \in Jobs |->
               IF j = First THEN Job("waiting_confirmation", FALSE) ELSE Nothing]
  /\ items = [j \in Jobs |->
               IF j = First THEN [i \in Items |-> Item("matched", 0)] ELSE <<>>]
  /\ library = {}
  /\ lists = <<>>
  /\ run = [p \in Processes |-> Idle]
  /\ tried = [j \in Jobs |-> {}]
  /\ commands = 0
  /\ faults = 0
  /\ stops = 0

(* The process goes on with this memory.                                   *)
Becomes(p, memory) ==
  /\ run' = [run EXCEPT ![p] = memory]
  /\ dryRun' = dryRun
At(p, pc) == run[p].pc = pc
Command(p) ==
  /\ At(p, "idle")
  /\ commands < MaxCommands
  /\ commands' = commands + 1
----------------------------------------------------------------------------
(* command_resume and the beginning of resume(): a job that is finished or *)
(* has nothing pending is left alone.                                      *)
Resume(p, j) ==
  /\ Command(p)
  /\ jobs[j] # Nothing
  /\ ~IsFinished(jobs[j])
  /\ \E i \in DOMAIN items[j] : ~Settled(items[j][i])
  /\ Becomes(p, [run[p] EXCEPT !.pc = "resolve", !.id = j, !.job = jobs[j]])
  /\ UNCHANGED <<documents, destination, tried, faults, stops>>

(* get_destination_state; a failure of it leaves the doubts as they are.   *)
ReadState(p) ==
  /\ At(p, "resolve")
  /\ \/ /\ Becomes(p, [run[p] EXCEPT !.pc = "resolve_list",
                          !.seen = Sublist(Order, Favorites \cap library)])
        /\ faults' = faults
     \/ /\ faults < MaxFaults
        /\ faults' = faults + 1
        /\ Becomes(p, [run[p] EXCEPT !.pc = "enter"])
  /\ UNCHANGED <<documents, destination, tried, commands, stops>>

(* resolve_ambiguous: list_for_job is read once, and what the destination  *)
(* state shows of it is stored item by item.  Entries of playlists are not *)
(* in that state, and a playlist whose creation is in doubt has no         *)
(* identifier to look for.                                                 *)
Resolve(p) ==
  /\ At(p, "resolve_list")
  /\ LET stored == items[run[p].id]
         doubtful == {i \in DOMAIN stored : stored[i].status = "ambiguous"}
     IN Becomes(p, [run[p] EXCEPT !.pc = "confirm", !.mine = stored,
                      !.queue = Sublist(run[p].seen, doubtful), !.seen = <<>>])
  /\ UNCHANGED <<documents, destination, tried, bounds>>

(* One item of resolve_ambiguous is marked, to be stored by items.update.  *)
ConfirmAmbiguous(p) ==
  /\ At(p, "confirm")
  /\ run[p].queue # <<>>
  /\ LET i == Head(run[p].queue)
     IN Becomes(p, [run[p] EXCEPT !.pc = "confirm_read",
                      !.mine[i].status = "transferred"])
  /\ UNCHANGED <<documents, destination, tried, bounds>>

(* resume() sets IMPORTING from any status and drops a request to cancel,  *)
(* and stores its copy of the job; execute() stores it once more.          *)
EnterImport(p) ==
  /\ \/ At(p, "enter")
     \/ At(p, "confirm") /\ run[p].queue = <<>>
  /\ jobs' = [jobs EXCEPT ![run[p].id] = Job("importing", FALSE)]
  /\ Becomes(p, [run[p] EXCEPT !.pc = "list", !.job = Job("importing", FALSE)])
  /\ UNCHANGED <<items, destination, tried, bounds>>

(* execute() reads the items its executor will work on.                    *)
ListItems(p) ==
  /\ At(p, "list")
  /\ LET stored == items[run[p].id]
     IN Becomes(p, [run[p] EXCEPT !.pc = "loop", !.mine = stored,
                      !.queue = WriteOrder(DOMAIN stored)])
  /\ UNCHANGED <<documents, destination, tried, bounds>>
----------------------------------------------------------------------------
(* items.update, in two steps: load() reads the document, _store() writes  *)
(* all of it back with the one item replaced, or added when it is missing. *)
LoadItems(p) ==
  /\ run[p].pc \in {"confirm_read", "loop_read"}
  /\ Becomes(p, [run[p] EXCEPT
                   !.pc = IF @ = "loop_read" THEN "loop_store" ELSE "confirm_store",
                   !.read = items[run[p].id]])
  /\ UNCHANGED <<documents, destination, tried, bounds>>

(* Mutation: the document is read through list_for_job's status filter.    *)
ReplacedPending(document, i, item) ==
  [k \in {n \in DOMAIN document : ~Settled(document[n])} \cup {i} |->
     IF k = i THEN item ELSE document[k]]

(* The document of a job with one item replaced.                           *)
Replaced(document, i, item) ==
  [k \in DOMAIN document \cup {i} |-> IF k = i THEN item ELSE document[k]]

UpdateItem(p) ==
  /\ run[p].pc \in {"confirm_store", "loop_store"}
  /\ LET i == Head(run[p].queue)
         settling == At(p, "loop_store")
     IN /\ items' = [items EXCEPT ![run[p].id] =
                       Replaced(run[p].read, i, run[p].mine[i])]
        /\ tried' = IF settling
                      THEN [tried EXCEPT ![run[p].id] = @ \cup {i}]
                      ELSE tried
        /\ Becomes(p, [run[p] EXCEPT
                         !.pc = IF settling THEN "loop" ELSE "confirm",
                         !.queue = Tail(@), !.read = <<>>])
  /\ UNCHANGED <<jobs, destination, bounds>>
----------------------------------------------------------------------------
(* The executor's loop.  A process looks at its own copy of the job: what  *)
(* another one stores in the meantime is not seen.                         *)
Visiting(p) == At(p, "loop") /\ run[p].queue # <<>> /\ ~run[p].job.cancel

SkipSettled(p) ==
  /\ Visiting(p)
  /\ LET i == Head(run[p].queue)
     IN /\ Settled(run[p].mine[i])
        /\ tried' = [tried EXCEPT ![run[p].id] = @ \cup {i}]
  /\ Becomes(p, [run[p] EXCEPT !.queue = Tail(@)])
  /\ UNCHANGED <<documents, destination, bounds>>

(* The list an entry is appended to: its own, or the playlist item's.      *)
ListOf(mine, e) ==
  IF mine[e].list # 0 THEN mine[e].list
  ELSE IF Playlist \in DOMAIN mine THEN mine[Playlist].list ELSE 0

(* What the destination reports of a write, as the item's status.  Neither *)
(* an ambiguous nor a failed one excludes that the write has landed: the   *)
(* adapter makes a permanent failure of an unknown outcome (RemoteClient). *)
Reported(status) ==
  \/ status = "transferred" /\ faults' = faults
  \/ status \in {"failed", "ambiguous"} /\ faults < MaxFaults /\ faults' = faults + 1

Effect(status, before, after) ==
  IF status = "transferred" THEN {after} ELSE {before, after}

(* An item's attempt has come to a status; items.update stores it next.    *)
Attempted(p, i, status) ==
  /\ Becomes(p, [run[p] EXCEPT !.pc = "loop_read", !.mine[i].status = status,
                   !.seen = <<>>])
  /\ UNCHANGED <<documents, tried, commands, stops>>

(* _execute_item of an item that is neither settled nor only rehearsed.    *)
Executing(p) == Visiting(p) /\ ~Settled(run[p].mine[Head(run[p].queue)]) /\ ~dryRun

DryRunItem(p) ==
  /\ Visiting(p)
  /\ dryRun
  /\ LET i == Head(run[p].queue)
     IN /\ ~Settled(run[p].mine[i])
        /\ Attempted(p, i, "skipped")
  /\ UNCHANGED <<destination, faults>>

WriteFavorite(p) ==
  /\ Executing(p)
  /\ LET i == Head(run[p].queue)
     IN /\ i \in Favorites
        /\ \E status \in ItemStatus :
             /\ Reported(status)
             /\ library' \in Effect(status, library, library \cup {i})
             /\ Attempted(p, i, status)
  /\ UNCHANGED lists

(* _write_playlist: a new identifier is propagated to the entries in       *)
(* memory.  An unsettled playlist never has one here: no platform adapter  *)
(* calls a playlist's identifier reusable (can_reuse_identifier).          *)
WithList(mine, l) ==
  [i \in DOMAIN mine |->
     IF i \in Entries \cup {Playlist} THEN [mine[i] EXCEPT !.list = l] ELSE mine[i]]

CreatePlaylist(p) ==
  /\ Executing(p)
  /\ Head(run[p].queue) = Playlist
  /\ run[p].mine[Playlist].list = 0
  /\ \E status \in ItemStatus :
       /\ Reported(status)
       /\ lists' \in Effect(status, lists, Append(lists, <<>>))
       /\ LET mine == IF status = "transferred"
                        THEN WithList(run[p].mine, Len(lists'))
                        ELSE run[p].mine
          IN Becomes(p, [run[p] EXCEPT !.pc = "loop_read",
                           !.mine = [mine EXCEPT ![Playlist].status = status]])
  /\ UNCHANGED <<documents, library, tried, commands, stops>>

(* _reconcile: the content of the list against the entries this job holds, *)
(* in source order; a list that is longer than the entry's position in the *)
(* source is taken to hold it.                                             *)
Position(e) == CHOOSE n \in DOMAIN Order : Order[n] = e
EntryPosition(e) == Position(e) - Position(Playlist) - 1
Siblings(mine) == Sublist(Order, Entries \cap DOMAIN mine)

(* Mutation: a list as long as the position is taken to hold the entry.    *)
LandedEarly(content, e) == Len(content) >= EntryPosition(e)
Landed(content, e) == Len(content) > EntryPosition(e)

(* _write_playlist_item, up to the answer to playlist_item_ids.            *)
ReadList(p) ==
  /\ Executing(p)
  /\ LET e == Head(run[p].queue)
         l == ListOf(run[p].mine, e)
     IN /\ e \in Entries
        /\ \/ l = 0 /\ faults' = faults /\ Attempted(p, e, "not_found")
           \/ l # 0 /\ Reported("failed") /\ Attempted(p, e, "failed")
           \/ /\ l # 0
              /\ faults' = faults
              /\ Becomes(p, [run[p] EXCEPT !.pc = "reconcile", !.seen = lists[l]])
              /\ UNCHANGED <<documents, tried, commands, stops>>
  /\ UNCHANGED destination

(* The rest of it: what was read decides, and what the list holds by then  *)
(* is appended to.                                                         *)
WriteEntry(p) ==
  /\ At(p, "reconcile")
  /\ LET e == Head(run[p].queue)
         l == ListOf(run[p].mine, e)
         asPlanned == IsPrefix(run[p].seen, Siblings(run[p].mine))
         landed == Landed(run[p].seen, e)
     IN \/ ~asPlanned /\ UNCHANGED <<lists, faults>> /\ Attempted(p, e, "ambiguous")
        \/ /\ asPlanned /\ landed
           /\ UNCHANGED <<lists, faults>>
           /\ Attempted(p, e, "transferred")
        \/ /\ asPlanned /\ ~landed
           /\ \E status \in ItemStatus :
                /\ Reported(status)
                /\ lists' \in
                     Effect(status, lists, [lists EXCEPT ![l] = Append(@, e)])
                /\ Attempted(p, e, status)
  /\ UNCHANGED library

(* request_cancellation on the job a run of the same process holds: the    *)
(* loop ends before its next item.                                         *)
RequestCancellation(p) ==
  /\ At(p, "loop")
  /\ ~run[p].job.cancel
  /\ commands < MaxCommands
  /\ commands' = commands + 1
  /\ LET job == [run[p].job EXCEPT !.cancel = TRUE]
     IN /\ jobs' = [jobs EXCEPT ![run[p].id] = job]
        /\ Becomes(p, [run[p] EXCEPT !.job = job])
  /\ UNCHANGED <<items, destination, tried, faults, stops>>

(* The loop is over, with items left only when it was cancelled.           *)
LoopOver(p) == At(p, "loop") /\ (run[p].queue = <<>> \/ run[p].job.cancel)

(* The job is verified and its last status is stored, always from the copy *)
(* this process holds.                                                     *)
BeginVerify(p) ==
  /\ LoopOver(p)
  /\ ~dryRun
  /\ LET job == Job("verifying", run[p].job.cancel)
     IN /\ jobs' = [jobs EXCEPT ![run[p].id] = job]
        /\ Becomes(p, [run[p] EXCEPT !.pc = "verify", !.job = job,
                         !.cancelled = run[p].queue # <<>>])
  /\ UNCHANGED <<items, destination, tried, bounds>>

(* Mutation: the outcome of the loop is not looked at.                     *)
LastStatusCompleted(memory) == "completed"
LastStatus(memory) == IF memory.cancelled THEN "cancelled" ELSE "completed"

FinishJob(p) ==
  /\ At(p, "verify")
  /\ jobs' = [jobs EXCEPT ![run[p].id] =
                Job(LastStatus(run[p]), run[p].job.cancel)]
  /\ Becomes(p, Idle)
  /\ UNCHANGED <<items, destination, tried, bounds>>

(* A dry run is completed whatever its loop came to.                       *)
FinishDryRun(p) ==
  /\ LoopOver(p)
  /\ dryRun
  /\ jobs' = [jobs EXCEPT ![run[p].id] = Job("completed", run[p].job.cancel)]
  /\ Becomes(p, Idle)
  /\ UNCHANGED <<items, destination, tried, bounds>>
----------------------------------------------------------------------------
(* create_retry_job: the items worth another attempt are read, the new job *)
(* is added, then its items, then the job is stored once more with their   *)
(* number.  A clone is pending and keeps the identifiers of its original.  *)
Retryable == {"failed", "not_found", "ambiguous", "unavailable", "matched"}

SelectForRetry(p, j) ==
  /\ Command(p)
  /\ jobs[j] # Nothing
  /\ LET stored == items[j]
         selected == {i \in DOMAIN stored : stored[i].status \in Retryable}
     IN /\ selected # {}
        /\ Becomes(p, [run[p] EXCEPT !.pc = "add_job",
                         !.mine = [i \in selected |->
                                     Item("pending", stored[i].list)]])
  /\ UNCHANGED <<documents, destination, tried, faults, stops>>

AddJob(p) ==
  /\ At(p, "add_job")
  /\ \E j \in Jobs :
       /\ jobs[j] = Nothing
       /\ jobs' = [jobs EXCEPT ![j] = Job("created", FALSE)]
       /\ Becomes(p, [run[p] EXCEPT !.pc = "add_items", !.id = j,
                        !.job = Job("created", FALSE)])
  /\ UNCHANGED <<items, destination, tried, bounds>>

(* add_many keeps what the document already holds.                         *)
Merged(document, added) ==
  [k \in DOMAIN document \cup DOMAIN added |->
     IF k \in DOMAIN document THEN document[k] ELSE added[k]]

AddItems(p) ==
  /\ At(p, "add_items")
  /\ items' = [items EXCEPT ![run[p].id] = Merged(@, run[p].mine)]
  /\ Becomes(p, [run[p] EXCEPT !.pc = "store_job"])
  /\ UNCHANGED <<jobs, destination, tried, bounds>>

(* jobs.update with this process's copy of a job, whatever is stored.      *)
StoreJob(p) ==
  /\ At(p, "store_job")
  /\ jobs' = [jobs EXCEPT ![run[p].id] = run[p].job]
  /\ Becomes(p, Idle)
  /\ UNCHANGED <<items, destination, tried, bounds>>

(* request_cancellation, cancel and fail, from a process that has loaded   *)
(* the job: its copy, changed, is stored.                                  *)
LoadToStop(p, j) ==
  /\ Command(p)
  /\ jobs[j] # Nothing
  /\ \E job \in {[jobs[j] EXCEPT !.cancel = TRUE],
                 [jobs[j] EXCEPT !.status = "cancelled"],
                 [jobs[j] EXCEPT !.status = "failed"]} :
       Becomes(p, [run[p] EXCEPT !.pc = "store_job", !.id = j, !.job = job])
  /\ UNCHANGED <<documents, destination, tried, faults, stops>>

(* The process dies, or an error that nothing catches ends its command, as *)
(* one of playlist_item_ids does in verify_job; the documents are replaced *)
(* atomically, so they stay as the last write left them.                   *)
Crash(p) ==
  /\ ~At(p, "idle")
  /\ stops < MaxStops
  /\ stops' = stops + 1
  /\ Becomes(p, Idle)
  /\ UNCHANGED <<documents, destination, tried, commands, faults>>

Next ==
  \E p \in Processes :
    \/ \E j \in Jobs : Resume(p, j) \/ SelectForRetry(p, j) \/ LoadToStop(p, j)
    \/ ReadState(p) \/ Resolve(p) \/ ConfirmAmbiguous(p) \/ EnterImport(p) \/ ListItems(p)
    \/ LoadItems(p) \/ UpdateItem(p) \/ SkipSettled(p)
    \/ DryRunItem(p) \/ WriteFavorite(p) \/ CreatePlaylist(p)
    \/ ReadList(p) \/ WriteEntry(p)
    \/ RequestCancellation(p) \/ BeginVerify(p) \/ FinishJob(p) \/ FinishDryRun(p)
    \/ AddJob(p) \/ AddItems(p) \/ StoreJob(p)
    \/ Crash(p)

Spec == Init /\ [][Next]_vars
----------------------------------------------------------------------------
Present(i) ==
  CASE i \in Favorites -> i \in library
    [] i = Playlist -> lists # <<>>
    [] OTHER -> \E l \in DOMAIN lists : i \in ToSet(lists[l])

(* Whatever two processes overwrite of one another's records, no document  *)
(* of any job ever names an item as transferred that the destination has   *)
(* not: updates can be lost, never invented (repositories.update).         *)
StoredMeansWritten ==
  \A j \in Jobs : \A i \in DOMAIN items[j] :
    items[j][i].status = "transferred" => Present(i)

(* The items of a job never become fewer: update() and add_many() write a  *)
(* whole document from an earlier reading of it, and still keep every item *)
(* another process has stored.                                             *)
ItemsKept ==
  [][\A j \in Jobs : DOMAIN items[j] \subseteq DOMAIN items'[j]]_vars

(* A job that is no dry run and is stored as completed has had each of its *)
(* items attempted or found settled by some process, whichever copy of the *)
(* job was stored last: a loop that was cut short is never taken for one   *)
(* that came to its end.  Two jobs are excepted.  A dry run is stored as   *)
(* completed even when it was cancelled half way (transfer_service.py:250).*)
(* And of a retry job, the entries whose playlist item was not copied with *)
(* them are never visited (create_retry_job, _write_order).  A request to  *)
(* cancel that another process stores is overwritten, and nothing is said  *)
(* of it here.                                                             *)
CompletedWasVisited ==
  \A j \in Jobs :
    /\ ~dryRun
    /\ jobs[j] # Nothing
    /\ jobs[j].status = "completed"
    => \A i \in DOMAIN items[j] :
         i \notin tried[j] => i \in Entries /\ Playlist \notin DOMAIN items[j]
============================================================================
