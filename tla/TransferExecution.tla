------------------------- MODULE TransferExecution -------------------------
(***************************************************************************)
(* One transfer job from analysis to its last status, as TransferService,  *)
(* TransferExecutor and RecoveryService run it in one process, with the    *)
(* JSON repositories it checkpoints to and the destination library it      *)
(* writes.  The process can die between any two steps; what survives is    *)
(* what the repositories and the destination hold.                         *)
(*                                                                         *)
(* A remote write and its acknowledgement are one step (CallReturns); the  *)
(* durable record of the outcome is the next one (Settle).  A crash in     *)
(* between is the lost checkpoint, an unsure failure that landed is the    *)
(* lost acknowledgement.                                                   *)
(***************************************************************************)
EXTENDS TransferLifecycle, Sequences, FiniteSets

CONSTANTS
  Favorites,     \* items of set-like sections: tracks, albums, artists
  Playlists,     \* playlist items
  Entries,       \* playlist_item items
  Container,     \* container_source_id: the playlist of an entry
  Position,      \* original_position of an entry in its source playlist
  Rank,          \* list_for_job's sort key of favorites and playlists
  Target,        \* destination_id the plan gives an item, or None
  Ids,           \* catalogue identifiers at the destination
  Lists,         \* identifiers the destination may give playlists (a bound)
  None,
  FailureKinds,  \* the kinds of failure the destination reports
  UnsureKinds,   \* those after which the write may have landed all the same
  ReadsLists,    \* whether the destination can list a playlist's content
  MaxAttempts,   \* settings.max_item_attempts
  MaxCrashes     \* bound on the crashes of a behaviour

Items == Favorites \cup Playlists \cup Entries

ASSUME ItemsAssumption ==
  /\ Favorites \cap Playlists = {}
  /\ Favorites \cap Entries = {}
  /\ Playlists \cap Entries = {}
  /\ IsFiniteSet(Entries)
  /\ None \notin Items \cup Ids \cup Lists \cup FailureKind

ASSUME PlanAssumption ==
  /\ Container \in [Entries -> Playlists]
  /\ Position \in [Entries -> Nat]
  /\ \A e, f \in Entries :
       e # f /\ Container[e] = Container[f] => Position[e] # Position[f]
  /\ Rank \in [Favorites \cup Playlists -> Nat]
  /\ \A i, j \in Favorites \cup Playlists : Rank[i] = Rank[j] => i = j
  /\ Target \in [Items -> Ids \cup Lists \cup {None}]
  /\ \A i \in Favorites \cup Entries : Target[i] \in Ids \cup {None}
  /\ \A p \in Playlists : Target[p] \in Lists \cup {None}
  /\ \A p, q \in Playlists : Target[p] = Target[q] /\ p # q => Target[p] = None

ASSUME EnvironmentAssumption ==
  /\ FailureKinds \subseteq FailureKind
  /\ UnsureKinds \subseteq FailureKinds
  /\ ReadsLists \in BOOLEAN
  /\ MaxAttempts \in Nat \ {0}
  /\ MaxCrashes \in Nat

VARIABLES
  (* The destination account. *)
  library,       \* identifiers in its liked tracks, albums and artists
  owner,         \* owner[l]: the playlist item list l was created for
  lists,         \* lists[l]: the entries appended to l, oldest first
  (* The repositories: what a new process reads. *)
  jobStatus,     \* TransferJob.status, as last persisted
  dryRun,        \* settings.dry_run
  planned,       \* whether the items document exists (add_many has run)
  itemStore,     \* the stored TransferItems
  (* The process that runs the job. *)
  pc,            \* down, analysis, prompt, resolve, loop, settle or verify
  queue,         \* items the executor's loop has not reached
  current,       \* the item whose write has returned and is not recorded
  outcome,       \* what that write reported
  known,         \* list identifiers the items carry in memory
  snapshot,      \* sections of DestinationState that resume() could read
  cancel,        \* job.cancellation_requested, or the token
  cancelled,     \* ExecutionOutcome.cancelled
  crashes        \* crashes so far

destination == <<library, owner, lists>>
store == <<jobStatus, dryRun, planned, itemStore>>
process == <<pc, queue, current, outcome, known, snapshot, cancel, cancelled>>
vars == <<destination, store, process, crashes>>

(* A stored item: status, attempt_count (compared only with MaxAttempts and *)
(* kept from growing past it), last_failure_kind, and the list it knows:    *)
(* destination_id of a playlist, container_destination_id of an entry.      *)
ItemRecord ==
  [status : ItemStatus, attempts : 0..MaxAttempts,
   list : Lists \cup {None}, kind : FailureKind \cup {None}]

Phases == {"down", "analysis", "prompt", "resolve", "loop", "settle", "verify"}
Sections == {"favorites", "playlists"}
Outcomes == {"ok"} \cup FailureKinds
NothingKnown == [i \in Items |-> None]
Finished == jobStatus \in TerminalStatuses
PendingItems ==
  {i \in Items : planned /\ itemStore[i].status \notin TerminalItemStatuses}

TypeOK ==
  /\ library \subseteq Ids
  /\ owner \in [Lists -> Playlists \cup {None}]
  /\ lists \in [Lists -> Seq(Entries)]
  /\ jobStatus \in JobStatus
  /\ dryRun \in BOOLEAN
  /\ planned \in BOOLEAN
  /\ itemStore \in [Items -> ItemRecord]
  /\ pc \in Phases
  /\ queue \subseteq Items
  /\ current \in Items \cup {None}
  /\ outcome \in Outcomes \cup {None}
  /\ known \in [Items -> Lists \cup {None}]
  /\ snapshot \subseteq Sections
  /\ cancel \in BOOLEAN
  /\ cancelled \in BOOLEAN
  /\ crashes \in 0..MaxCrashes
----------------------------------------------------------------------------
(* The statuses the planner gives the items, given the library it read.  A *)
(* favorite that is already there is planned all the same when the         *)
(* destination state cannot be read or settings.skip_already_existing is   *)
(* off; what has no identifier was not searched for, not found or          *)
(* ambiguous.                                                              *)
AlreadyThere(present) == {f \in Favorites : Target[f] \in present}

SearchResults ==
  [{i \in Favorites \cup Entries : Target[i] = None}
     -> {"pending", "not_found", "ambiguous"}]

PlannedStatuses(present) ==
  {[i \in Items |->
      IF i \in skipped THEN "already_exists"
      ELSE IF i \in DOMAIN searched THEN searched[i]
      ELSE IF Target[i] = None THEN "pending" ELSE "matched"] :
     skipped \in SUBSET AlreadyThere(present), searched \in SearchResults}

Init ==
  /\ library \in SUBSET {Target[i] : i \in {f \in Favorites : Target[f] # None}}
  /\ owner = [l \in Lists |->
       IF \E p \in Playlists : Target[p] = l
         THEN CHOOSE p \in Playlists : Target[p] = l ELSE None]
  /\ lists = [l \in Lists |-> <<>>]
  /\ jobStatus = "created"
  /\ dryRun \in BOOLEAN
  /\ planned = FALSE
  /\ \E s \in PlannedStatuses(library) :
       itemStore = [i \in Items |->
         [status |-> s[i], attempts |-> 0, kind |-> None,
          list |-> IF i \in Playlists THEN Target[i] ELSE None]]
  /\ pc = "down"
  /\ queue = {}
  /\ current = None
  /\ outcome = None
  /\ known = NothingKnown
  /\ snapshot = {}
  /\ cancel = FALSE
  /\ cancelled = FALSE
  /\ crashes = 0

(* lifecycle.transition followed by jobs.update.                           *)
Transition(target) ==
  /\ CanTransition(jobStatus, target)
  /\ jobStatus' = target

(* The process ends: every in-memory object is gone.                       *)
GoDown ==
  /\ pc' = "down"
  /\ queue' = {}
  /\ current' = None
  /\ outcome' = None
  /\ known' = NothingKnown
  /\ snapshot' = {}
  /\ cancel' = FALSE
  /\ cancelled' = FALSE
----------------------------------------------------------------------------
(* analyze(): the statuses it persists.  normalizing and matching are      *)
(* passed in memory between exporting and planning.                        *)
Authenticate ==
  /\ pc = "down"
  /\ Transition("authenticating")
  /\ pc' = "analysis"
  /\ UNCHANGED <<destination, dryRun, planned, itemStore, queue, current,
                 outcome, known, snapshot, cancel, cancelled, crashes>>

Export ==
  /\ pc = "analysis"
  /\ Transition("exporting")
  /\ UNCHANGED <<destination, dryRun, planned, itemStore, process, crashes>>

Plan ==
  /\ pc = "analysis"
  /\ jobStatus = "exporting"
  /\ CanTransition("exporting", "normalizing")
  /\ CanTransition("normalizing", "matching")
  /\ CanTransition("matching", "planning")
  /\ jobStatus' = "planning"
  /\ UNCHANGED <<destination, dryRun, planned, itemStore, process, crashes>>

StoreItems ==
  /\ pc = "analysis"
  /\ jobStatus = "planning"
  /\ ~planned
  /\ planned' = TRUE
  /\ UNCHANGED <<destination, jobStatus, dryRun, itemStore, process, crashes>>

AwaitConfirmation ==
  /\ pc = "analysis"
  /\ planned
  /\ Transition("waiting_confirmation")
  /\ pc' = "prompt"
  /\ UNCHANGED <<destination, dryRun, planned, itemStore, queue, current,
                 outcome, known, snapshot, cancel, cancelled, crashes>>

(* execute() hands the executor the items it has just loaded.              *)
StartExecutor ==
  /\ pc' = "loop"
  /\ queue' = Items
  /\ known' = [i \in Items |-> itemStore[i].list]
  /\ cancelled' = FALSE
  /\ UNCHANGED <<current, outcome>>

(* The user accepts the plan: execute(confirmed=True).                     *)
Confirm ==
  /\ pc = "prompt"
  /\ Transition("importing")
  /\ StartExecutor
  /\ UNCHANGED <<destination, dryRun, planned, itemStore, snapshot, cancel,
                 crashes>>

Decline ==
  /\ pc = "prompt"
  /\ GoDown
  /\ UNCHANGED <<destination, store, crashes>>
----------------------------------------------------------------------------
(* Mutation: resume() insists on the statuses execute() accepts.           *)
ResumeInterrupted ==
  /\ pc = "down"
  /\ jobStatus \in {"paused", "importing"}
  /\ PendingItems # {}
  /\ pc' = "resolve"
  /\ snapshot' \in SUBSET Sections
  /\ UNCHANGED <<destination, store, queue, current, outcome, known, cancel,
                 cancelled, crashes>>

(* resume(): offered while the job is unfinished and has items to process. *)
(* Each section of the destination state may be unreadable.                *)
Resume ==
  /\ pc = "down"
  /\ ~Finished
  /\ PendingItems # {}
  /\ pc' = "resolve"
  /\ snapshot' \in SUBSET Sections
  /\ UNCHANGED <<destination, store, queue, current, outcome, known, cancel,
                 cancelled, crashes>>

(* _state_contains: the snapshot shows the item's identifier.              *)
StateContains(i) ==
  \/ i \in Favorites /\ "favorites" \in snapshot /\ Target[i] \in library
  \/ /\ i \in Playlists
     /\ "playlists" \in snapshot
     /\ itemStore[i].list # None
     /\ owner[itemStore[i].list] # None

Resolvable(i) == itemStore[i].status = "ambiguous" /\ StateContains(i)

(* Mutation: the item is confirmed without being marked.                   *)
ResolveUnmarked(i) ==
  /\ pc = "resolve"
  /\ Resolvable(i)
  /\ itemStore' = [itemStore EXCEPT ![i].kind = None]
  /\ UNCHANGED <<destination, jobStatus, dryRun, planned, process, crashes>>

ResolveAmbiguous(i) ==
  /\ pc = "resolve"
  /\ Resolvable(i)
  /\ itemStore' = [itemStore EXCEPT
                     ![i] = [@ EXCEPT !.status = "transferred", !.kind = None]]
  /\ UNCHANGED <<destination, jobStatus, dryRun, planned, process, crashes>>

(* resume() sets the status itself, without transition(), and clears a     *)
(* request made on the job; one made on the token stays.                   *)
EnterImport ==
  /\ pc = "resolve"
  /\ \A i \in Items : ~Resolvable(i)
  /\ jobStatus' = "importing"
  /\ cancel' \in {FALSE, cancel}
  /\ snapshot' = {}
  /\ StartExecutor
  /\ UNCHANGED <<destination, dryRun, planned, itemStore, crashes>>
----------------------------------------------------------------------------
(* _write_order: favorites, then each playlist followed by its entries in  *)
(* source position order.                                                  *)
Group(i) == IF i \in Playlists THEN i ELSE Container[i]

Before(i, j) ==
  \/ i \in Favorites /\ j \notin Favorites
  \/ i \in Favorites /\ j \in Favorites /\ Rank[i] < Rank[j]
  \/ /\ i \notin Favorites /\ j \notin Favorites
     /\ \/ Rank[Group(i)] < Rank[Group(j)]
        \/ Group(i) = Group(j) /\ i \in Playlists /\ j \in Entries
        \/ /\ Group(i) = Group(j) /\ i \in Entries /\ j \in Entries
           /\ Position[i] < Position[j]

(* Mutation: the loop forgets to pass over terminal items.                 *)
SettledByAttempts(i) ==
  itemStore[i].status = "failed" /\ itemStore[i].attempts >= MaxAttempts

(* Items the loop passes over: terminal ones, and failed ones whose        *)
(* attempts are used up.                                                   *)
Settled(i) ==
  \/ itemStore[i].status \in TerminalItemStatuses
  \/ itemStore[i].status = "failed" /\ itemStore[i].attempts >= MaxAttempts

(* Mutation: the loop does not look at the cancellation flag.              *)
VisitingDespiteCancel(i) ==
  /\ pc = "loop"
  /\ i \in queue
  /\ \A j \in queue \ {i} : Before(i, j)
  /\ queue' = queue \ {i}

Visiting(i) ==
  /\ pc = "loop"
  /\ ~cancel
  /\ i \in queue
  /\ \A j \in queue \ {i} : Before(i, j)
  /\ queue' = queue \ {i}

(* Mutation: the dry run writes.                                           *)
AttemptingInDryRun(i) == Visiting(i) /\ ~Settled(i)

Attempting(i) == Visiting(i) /\ ~Settled(i) /\ ~dryRun

Attempts(i) ==
  IF itemStore[i].attempts < MaxAttempts THEN itemStore[i].attempts + 1
                                         ELSE MaxAttempts

(* Mutations: the failure kind is stored where its status belongs; the     *)
(* record is written back with the list it was read with.                  *)
RecordKind(i, status, kind) ==
  itemStore' = [itemStore EXCEPT ![i] =
    [status |-> IF kind = None THEN status ELSE kind, attempts |-> Attempts(i),
     list |-> known[i], kind |-> kind]]

RecordStaleList(i, status, kind) ==
  itemStore' = [itemStore EXCEPT ![i] =
    [status |-> status, attempts |-> Attempts(i), list |-> itemStore[i].list,
     kind |-> kind]]

(* items.update after an attempt: the whole record, as memory has it.      *)
Record(i, status, kind) ==
  itemStore' = [itemStore EXCEPT ![i] =
    [status |-> status, attempts |-> Attempts(i), list |-> known[i],
     kind |-> kind]]

SkipSettled(i) ==
  /\ Visiting(i)
  /\ Settled(i)
  /\ UNCHANGED <<destination, store, pc, current, outcome, known, snapshot,
                 cancel, cancelled, crashes>>

DryRunItem(i) ==
  /\ Visiting(i)
  /\ ~Settled(i)
  /\ dryRun
  /\ itemStore' = [itemStore EXCEPT ![i].status = "skipped"]
  /\ UNCHANGED <<destination, jobStatus, dryRun, planned, pc, current, outcome,
                 known, snapshot, cancel, cancelled, crashes>>

(* The list an entry is written to: its own field, or its playlist's.      *)
ListOf(e) == IF known[e] # None THEN known[e] ELSE known[Container[e]]

MissingIdentifier(i) ==
  \/ i \in Favorites \cup Entries /\ Target[i] = None
  \/ i \in Entries /\ ListOf(i) = None

RefuseMissing(i) ==
  /\ Attempting(i)
  /\ MissingIdentifier(i)
  /\ Record(i, "not_found", "not_found")
  /\ UNCHANGED <<destination, jobStatus, dryRun, planned, pc, current, outcome,
                 known, snapshot, cancel, cancelled, crashes>>
----------------------------------------------------------------------------
(* What a write that reported o may have done to the destination.          *)
Effects(o) ==
  IF o = "ok" THEN {TRUE} ELSE IF o \in UnsureKinds THEN BOOLEAN ELSE {FALSE}

CallReturns(i, o) ==
  /\ pc' = "settle"
  /\ current' = i
  /\ outcome' = o
  /\ UNCHANGED <<store, snapshot, cancel, cancelled, crashes>>

SaveFavorite(i) ==
  /\ i \in Favorites
  /\ Attempting(i)
  /\ ~MissingIdentifier(i)
  /\ \E o \in Outcomes : \E landed \in Effects(o) :
       /\ library' = IF landed THEN library \cup {Target[i]} ELSE library
       /\ CallReturns(i, o)
  /\ UNCHANGED <<owner, lists, known>>

(* _propagate_container, and the playlist's own destination_id.            *)
Propagate(p, l) ==
  [i \in Items |-> IF i = p \/ (i \in Entries /\ Container[i] = p)
                     THEN l ELSE known[i]]

CreatePlaylist(p) ==
  /\ p \in Playlists
  /\ Attempting(p)
  /\ known[p] = None
  /\ \E o \in Outcomes : \E landed \in Effects(o) :
       /\ IF landed
            THEN \E l \in {m \in Lists : owner[m] = None} :
                   /\ owner' = [owner EXCEPT ![l] = p]
                   /\ known' = IF o = "ok" THEN Propagate(p, l) ELSE known
            ELSE UNCHANGED <<owner, known>>
       /\ CallReturns(p, o)
  /\ UNCHANGED <<library, lists>>

(* A playlist whose identifier is already known needs no call.             *)
ReusePlaylist(p) ==
  /\ p \in Playlists
  /\ Attempting(p)
  /\ known[p] # None
  /\ known' = Propagate(p, known[p])
  /\ CallReturns(p, "ok")
  /\ UNCHANGED destination

(* _reconcile compares the destination's sequence with the planned one:    *)
(* the identifiers of the playlist's resolved entries in source order,     *)
(* where Slot(e) is the place of e.                                        *)
Resolved(p) == {e \in Entries : Container[e] = p /\ Target[e] # None}

Slot(e) ==
  Cardinality({f \in Resolved(Container[e]) : Position[f] < Position[e]}) + 1

(* Mutation: only the lengths are compared.                                *)
IsShorter(actual, p) == Len(actual) <= Cardinality(Resolved(p))

IsPlannedPrefix(actual, p) ==
  /\ Len(actual) <= Cardinality(Resolved(p))
  /\ \A e \in Resolved(p) :
       Slot(e) <= Len(actual) => Target[actual[Slot(e)]] = Target[e]

Reconciling(e) == e \in Entries /\ Attempting(e) /\ ~MissingIdentifier(e)

Mismatch(e) == ReadsLists /\ ~IsPlannedPrefix(lists[ListOf(e)], Container[e])

(* Mutations: off by one in either direction.                              *)
AlreadyLandedEarly(e) ==
  ReadsLists /\ ~Mismatch(e) /\ Len(lists[ListOf(e)]) >= Position[e]

AlreadyLandedLate(e) ==
  ReadsLists /\ ~Mismatch(e) /\ Len(lists[ListOf(e)]) > Position[e] + 1

AlreadyLanded(e) ==
  ReadsLists /\ ~Mismatch(e) /\ Len(lists[ListOf(e)]) > Position[e]

(* The read fails; reads are never reported as ambiguous.                  *)
FailRead(e) ==
  /\ Reconciling(e)
  /\ ReadsLists
  /\ \E k \in FailureKinds \ {"ambiguous"} : Record(e, FailureStatus[k], k)
  /\ UNCHANGED <<destination, jobStatus, dryRun, planned, pc, current, outcome,
                 known, snapshot, cancel, cancelled, crashes>>

RefuseMismatch(e) ==
  /\ Reconciling(e)
  /\ Mismatch(e)
  /\ Record(e, "ambiguous", "ambiguous")
  /\ UNCHANGED <<destination, jobStatus, dryRun, planned, pc, current, outcome,
                 known, snapshot, cancel, cancelled, crashes>>

ConfirmLanded(e) ==
  /\ Reconciling(e)
  /\ AlreadyLanded(e)
  /\ Record(e, "transferred", None)
  /\ UNCHANGED <<destination, jobStatus, dryRun, planned, pc, current, outcome,
                 known, snapshot, cancel, cancelled, crashes>>

AppendEntry(e) ==
  /\ Reconciling(e)
  /\ ~Mismatch(e)
  /\ ~AlreadyLanded(e)
  /\ \E o \in Outcomes : \E landed \in Effects(o) :
       /\ lists' = IF landed
                     THEN [lists EXCEPT ![ListOf(e)] = Append(@, e)]
                     ELSE lists
       /\ CallReturns(e, o)
  /\ UNCHANGED <<library, owner, known>>

(* The outcome becomes the item's durable status, whatever it is: every    *)
(* failure, an authentication one included, is recorded and passed over.   *)
Settle ==
  /\ pc = "settle"
  /\ IF outcome = "ok" THEN Record(current, "transferred", None)
                       ELSE Record(current, FailureStatus[outcome], outcome)
  /\ pc' = "loop"
  /\ current' = None
  /\ outcome' = None
  /\ UNCHANGED <<destination, jobStatus, dryRun, planned, queue, known,
                 snapshot, cancel, cancelled, crashes>>
----------------------------------------------------------------------------
StopForCancellation ==
  /\ pc = "loop"
  /\ queue # {}
  /\ cancel
  /\ cancelled' = TRUE
  /\ queue' = {}
  /\ UNCHANGED <<destination, store, pc, current, outcome, known, snapshot,
                 cancel, crashes>>

FinishDryRun ==
  /\ pc = "loop"
  /\ queue = {}
  /\ dryRun
  /\ jobStatus' = "completed"
  /\ GoDown
  /\ UNCHANGED <<destination, dryRun, planned, itemStore, crashes>>

BeginVerify ==
  /\ pc = "loop"
  /\ queue = {}
  /\ ~dryRun
  /\ Transition("verifying")
  /\ pc' = "verify"
  /\ UNCHANGED <<destination, dryRun, planned, itemStore, queue, current,
                 outcome, known, snapshot, cancel, cancelled, crashes>>

FinishJob ==
  /\ pc = "verify"
  /\ jobStatus' = IF cancelled THEN "cancelled" ELSE "completed"
  /\ GoDown
  /\ UNCHANGED <<destination, dryRun, planned, itemStore, crashes>>

(* request_cancellation(), from the interface that drives this process.    *)
RequestCancellation ==
  /\ pc # "down"
  /\ ~cancel
  /\ cancel' = TRUE
  /\ UNCHANGED <<destination, store, pc, queue, current, outcome, known,
                 snapshot, cancelled, crashes>>

(* cancel() and fail(): they force the status of a job nobody is running.  *)
Retire(status) ==
  /\ pc = "down"
  /\ jobStatus' = status
  /\ UNCHANGED <<destination, dryRun, planned, itemStore, process, crashes>>

(* The process dies, or an exception leaves analyze() or execute().        *)
Crash ==
  /\ pc # "down"
  /\ crashes < MaxCrashes
  /\ crashes' = crashes + 1
  /\ GoDown
  /\ UNCHANGED <<destination, store>>
----------------------------------------------------------------------------
Analyze ==
  Authenticate \/ Export \/ Plan \/ StoreItems \/ AwaitConfirmation

ExecuteItem(i) ==
  \/ SkipSettled(i) \/ DryRunItem(i) \/ RefuseMissing(i)
  \/ SaveFavorite(i) \/ CreatePlaylist(i) \/ ReusePlaylist(i)
  \/ FailRead(i) \/ RefuseMismatch(i) \/ ConfirmLanded(i) \/ AppendEntry(i)

Run ==
  \/ \E i \in Items : ResolveAmbiguous(i)
  \/ EnterImport
  \/ \E i \in Items : ExecuteItem(i)
  \/ Settle
  \/ StopForCancellation \/ FinishDryRun \/ BeginVerify \/ FinishJob

Answer == Confirm \/ Decline

Next ==
  \/ Analyze \/ Answer \/ Resume \/ Run
  \/ RequestCancellation
  \/ \E s \in {"cancelled", "failed"} : Retire(s)
  \/ Crash

Spec == Init /\ [][Next]_vars

(* The steps of a live process are taken: every remote call is bounded by  *)
(* a timeout and a retry limit.  The user answers an open prompt and       *)
(* resumes a job that was interrupted.                                     *)
Fairness == WF_vars(Analyze) /\ WF_vars(Run) /\ WF_vars(Answer) /\ WF_vars(Resume)

FairSpec == Spec /\ Fairness
----------------------------------------------------------------------------
(* A durable confirmation is never wrong, whatever was lost on the way to  *)
(* it: a favorite recorded as transferred or already present is in the     *)
(* library, a transferred playlist knows a list made for it, and a         *)
(* transferred entry's track is in that list.  executor.py records         *)
(* TRANSFERRED on an acknowledged write, on a reconciled list and, through *)
(* recovery.py, on a destination snapshot.                                 *)
Confirmed(i) == itemStore[i].status \in {"transferred", "already_exists"}

Holds(l, id) == \E n \in 1..Len(lists[l]) : Target[lists[l][n]] = id

ConfirmedPresent ==
  /\ \A f \in Favorites : Confirmed(f) => Target[f] \in library
  /\ \A p \in Playlists :
       Confirmed(p) => itemStore[p].list # None /\ owner[itemStore[p].list] = p
  /\ \A e \in Entries :
       Confirmed(e) => /\ itemStore[Container[e]].list # None
                       /\ Holds(itemStore[Container[e]].list, Target[e])

(* Terminal items are never replayed (Invariant E), nor failed ones whose  *)
(* attempts are used up: across runs, crashes and resumes, no write is     *)
(* issued for one and its record never changes.                            *)
Final(i) ==
  \/ itemStore[i].status \in TerminalItemStatuses
  \/ itemStore[i].status = "failed" /\ itemStore[i].attempts >= MaxAttempts

ConfirmedFinal ==
  [][\A i \in Items : Final(i) =>
       itemStore'[i] = itemStore[i] /\ current' # i]_vars

(* An entry is appended only to a list whose identifier is already in the  *)
(* item store, so that a restart finds the list again: _write_playlist     *)
(* only updates memory, and _execute_item stores the playlist item before  *)
(* the loop reaches its entries.                                           *)
ListRecordedFirst ==
  \A l \in Lists : lists[l] # <<>> =>
    owner[l] # None /\ itemStore[owner[l]].list = l

(* The destination playlist is a subsequence of the source playlist: no    *)
(* entry is appended twice and none behind a later one, although _reconcile *)
(* knows only the identifiers it reads back and the entry's position.      *)
SourceOrder ==
  \A l \in Lists : \A m, n \in 1..Len(lists[l]) :
    m < n => Position[lists[l][m]] < Position[lists[l][n]]

(* Every confirmed entry has a copy of its own in the playlist (Invariant  *)
(* D, "Playlist duplicates are preserved"): there are never more           *)
(* TRANSFERRED entries than tracks in the list.                            *)
EntriesCounted ==
  \A p \in Playlists : itemStore[p].list # None =>
    Cardinality({e \in Entries : Container[e] = p /\ Confirmed(e)})
      <= Len(lists[itemStore[p].list])

(* The destination changes only while the stored job says it is being      *)
(* imported, and never in a dry run: a crash at any point of a writing run *)
(* leaves a job that is visibly unfinished.                                *)
WritesOnlyWhileImporting ==
  [][destination' # destination => jobStatus = "importing" /\ ~dryRun]_vars

(* Cancellation stops at the next safe boundary: once the flag is up, no   *)
(* further item is written in that run, not even by one that was resumed.  *)
CancelStopsWrites == [][cancel => UNCHANGED destination]_vars

(* A run always ends, whatever the destination answers.                    *)
RunEnds == pc \in {"resolve", "loop", "settle", "verify"} ~> pc = "down"

(* Once the plan is stored, a user who keeps resuming gets every item      *)
(* settled or the job finished, however often the process dies.            *)
WorkGetsDone == planned ~> (Finished \/ PendingItems = {})
============================================================================
