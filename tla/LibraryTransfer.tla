-------------------------- MODULE LibraryTransfer --------------------------
(***************************************************************************)
(* tidal_manager: the transfer (or restore) of one snapshot of a library   *)
(* to an account, run and resumed from a checkpoint (core/transfer.py),    *)
(* with the verification that decides whether the checkpoint may go        *)
(* (core/verification.py) and the menu that starts both (ui/menu.py).      *)
(*                                                                         *)
(* The checkpoint is read and written as one value here; what              *)
(* TransferStateStore makes of it on disk is the module TransferJournal.   *)
(***************************************************************************)
EXTENDS Naturals, Sequences, FiniteSets, SequencesExt, FiniteSetsExt, Sublists

CONSTANTS
  FavoriteOrder,   \* the favourites of one category, in the order of writing
  FolderOrder,     \* the folders of the snapshot, parents first
  PlaylistOrder,   \* its playlists
  Followed,        \* the playlists that belong to somebody else
  Parent,          \* the folder of a folder or playlist, or Root
  Name,            \* kind, title and description, as one value
  Media,           \* the entries of each playlist, in order
  Videos,          \* the media tidalapi cannot append
  Root,
  Answers,         \* the ways a request can end (below)
  MaxStops, MaxChanges

Favorites == ToSet(FavoriteOrder)
Folders   == ToSet(FolderOrder)
Playlists == ToSet(PlaylistOrder)
Owned     == Playlists \ Followed
Created   == Folders \cup Owned
Entries   == UNION {{p} \X DOMAIN Media[p] : p \in Owned}
Objects   == Favorites \cup Folders \cup Playlists \cup Entries

ASSUME SnapshotAssumption ==
  /\ Followed \subseteq Playlists
  /\ Parent \in [Folders \cup Playlists -> Folders \cup {Root}]
  /\ Created \subseteq DOMAIN Name
  /\ DOMAIN Media = Owned
  /\ MaxStops \in Nat /\ MaxChanges \in Nat

(* The orders and the entries are lists; an object is of one kind.         *)
ASSUME KindsAssumption ==
  /\ FavoriteOrder \in Seq(Favorites) /\ FolderOrder \in Seq(Folders)
  /\ PlaylistOrder \in Seq(Playlists)
  /\ \A p \in Owned : Media[p] \in Seq(ToSet(Media[p]))
  /\ Favorites \cap (Folders \cup Playlists) = {}
  /\ Folders \cap Playlists = {}
  /\ Entries \cap (Favorites \cup Folders \cup Playlists) = {}
  /\ Root \notin Folders \cup Playlists

(* How a request can end. "lost": a timeout, a broken connection, a server *)
(* error or a rate limit, and the write may have landed. "refused": any    *)
(* other failure, nothing written. "gone": the object is unavailable.      *)
(* "garbled": any other failure, but the write landed.                     *)
AnswerKinds == {"done", "lost", "refused", "gone", "garbled"}

ASSUME AnswerAssumption == Answers \subseteq AnswerKinds

Limited == {"unavailable", "unsupported"}
Barred  == Limited \cup {"failed_permanent"}
Buckets == Limited \cup {"successful", "failed", "failed_permanent",
                         "ambiguous", "skipped"}

Fresh == [status   |-> [o \in Objects |-> "none"],
          dest     |-> [c \in Created |-> 0],
          baseline |-> [c \in Created |-> {}]]

NoState == [status |-> << >>, dest |-> << >>, baseline |-> << >>]

VARIABLES
  favorites,       \* destination: its favourites and followed playlists
  made,            \* destination: the folders and playlists, by identifier
  saved,           \* the checkpoint, or NoState
  mem,             \* TransferState in memory, or NoState
  pc,              \* where the process is
  queue,           \* the objects the run has not come to
  existing,        \* the favourites the run read at its start
  fresh,           \* created_playlist of _transfer_playlist
  position,        \* the loop of _transfer_playlist_items
  answer,          \* how the last request ended
  report,          \* TransferReport: bucket -> objects
  stops, changes   \* how often the process stopped, the account changed

remote == <<favorites, made>>
loop   == <<queue, existing, fresh, position>>
vars   == <<remote, saved, mem, pc, loop, answer, report, stops, changes>>

EmptyReport == [b \in Buckets |-> {}]
Everything  == FavoriteOrder \o FolderOrder \o PlaylistOrder
Current     == Head(queue)

Init ==
  /\ favorites \in SUBSET Favorites
  /\ made = << >>
  /\ saved = NoState /\ mem = NoState
  /\ pc = "menu" /\ queue = << >> /\ existing = {} /\ fresh = FALSE
  /\ position = 0 /\ answer = "done" /\ report = EmptyReport
  /\ stops = 0 /\ changes = 0

(***************************************************************************)
(* The checkpoint and the report                                           *)
(***************************************************************************)
Marked(state, o, status) == [state EXCEPT !.status[o] = status]

Checkpoint(state) == mem' = state /\ saved' = state

Report(bucket, o) == report' = [report EXCEPT ![bucket] = @ \cup {o}]

(* _record_failure: the status, and the bucket of the report.              *)
FailureStatus(kind) ==
  CASE kind = "gone" -> "unavailable"
    [] kind = "lost" -> "failed_retryable"
    [] OTHER         -> "failed_permanent"

FailureBucket(kind) ==
  IF kind = "lost" THEN "failed" ELSE FailureStatus(kind)

RecordFailure(o, kind) ==
  /\ Checkpoint(Marked(mem, o, FailureStatus(kind)))
  /\ Report(FailureBucket(kind), o)

Advance ==
  /\ queue' = Tail(queue) /\ pc' = "run"
  /\ fresh' = FALSE /\ position' = 0 /\ answer' = "done"

Then(next) ==
  pc' = next /\ answer' = "done" /\ UNCHANGED <<queue, fresh, position>>

(* Whatever run() held in memory is gone.                                  *)
Leave(next) ==
  /\ pc' = next /\ mem' = NoState /\ queue' = << >> /\ existing' = {}
  /\ fresh' = FALSE /\ position' = 0 /\ answer' = "done"
  /\ report' = EmptyReport

(* A failed read of the library leaves run() by an exception: the menu     *)
(* shows an error and what was saved stays.                                *)
Abort ==
  /\ Leave("menu")
  /\ UNCHANGED <<remote, saved, stops, changes>>

(* One request: how it ends and whether the write lands.                   *)
Request(Landed, Lost, next) ==
  /\ answer' \in Answers
  /\ CASE answer' \in {"done", "garbled"} -> Landed
       [] answer' = "lost"                -> Landed \/ Lost
       [] OTHER                           -> Lost
  /\ pc' = next

(***************************************************************************)
(* Starting: a new transfer after its confirmation, or the checkpoint      *)
(***************************************************************************)
Begin(state) ==
  /\ pc = "menu"
  /\ Checkpoint(state)
  /\ pc' = "read" /\ report' = EmptyReport
  /\ UNCHANGED <<remote, loop, answer, stops, changes>>

Start  == saved = NoState /\ Begin(Fresh)
Resume == saved # NoState /\ Begin(saved)

ReadFavorites ==
  /\ pc = "read"
  /\ existing' = favorites \cap Favorites
  /\ queue' = Everything /\ pc' = "run"
  /\ UNCHANGED <<remote, saved, mem, fresh, position, answer, report, stops,
                 changes>>

ReadFails == pc = "read" /\ Abort

(***************************************************************************)
(* _transfer_favorites                                                     *)
(***************************************************************************)
AtFavorite == pc = "run" /\ queue # << >> /\ Current \in Favorites

SkipFavorite ==
  /\ AtFavorite
  /\ LET status == mem.status[Current] IN
       /\ status \in Barred \cup {"completed", "already_present"}
       /\ Report(IF status \in Barred THEN status ELSE "skipped", Current)
  /\ Advance
  /\ UNCHANGED <<remote, saved, mem, existing, stops, changes>>

(* already_present is marked in memory; the next save takes it along.      *)
NoteFavorite ==
  /\ AtFavorite
  /\ mem.status[Current] \notin Barred \cup {"completed", "already_present"}
  /\ Current \in existing
  /\ mem' = Marked(mem, Current, "already_present")
  /\ Report("skipped", Current) /\ Advance
  /\ UNCHANGED <<remote, saved, existing, stops, changes>>

AddFavorite ==
  /\ AtFavorite
  /\ mem.status[Current] \notin Barred \cup {"completed", "already_present"}
  /\ Current \notin existing
  /\ Request(favorites' = favorites \cup {Current}, favorites' = favorites,
             "settle")
  /\ saved' = mem
  /\ UNCHANGED <<made, mem, loop, report, stops, changes>>

(* Also the end of favorite_playlist for a playlist of somebody else.      *)
SettleFavorite ==
  /\ pc = "settle" /\ Current \in Favorites \cup Followed
  /\ IF answer = "done"
       THEN /\ Checkpoint(Marked(mem, Current, "completed"))
            /\ Report("successful", Current)
       ELSE RecordFailure(Current, answer)
  /\ Advance
  /\ UNCHANGED <<remote, existing, stops, changes>>

(***************************************************************************)
(* _transfer_folders and the creation half of _transfer_playlist           *)
(***************************************************************************)
AtCreated == pc = "run" /\ queue # << >> /\ Current \in Created

Undecided == mem.status[Current] \in {"ambiguous", "creating"}

Place(c) == IF Parent[c] = Root THEN 0 ELSE mem.dest[Parent[c]]

Orphan(c) == Parent[c] # Root /\ mem.dest[Parent[c]] = 0

(* creation_candidates: same kind, title, description and folder.          *)
Candidates(c) ==
  {i \in DOMAIN made : made[i].name = Name[c] /\ made[i].place = Place(c)}

SkipCompleted ==
  /\ pc = "run" /\ queue # << >> /\ Current \in Folders \cup Playlists
  /\ mem.status[Current] = "completed"
  /\ Report("skipped", Current) /\ Advance
  /\ UNCHANGED <<remote, saved, mem, existing, stops, changes>>

(* _recover_ambiguous_folder, _recover_ambiguous_playlist: exactly one     *)
(* candidate that was not there when the intent was stored.                *)
Adopt ==
  /\ AtCreated /\ Undecided
  /\ \E i \in Candidates(Current) \ mem.baseline[Current] :
       /\ Candidates(Current) \ mem.baseline[Current] = {i}
       /\ Checkpoint([Marked(mem, Current,
                        IF Current \in Folders THEN "completed" ELSE "pending")
                        EXCEPT !.dest[Current] = i])
  /\ IF Current \in Folders
       THEN Report("successful", Current) /\ Advance
       ELSE Then("list") /\ UNCHANGED report
  /\ UNCHANGED <<remote, existing, stops, changes>>

Conflict ==
  /\ AtCreated /\ Undecided
  /\ Cardinality(Candidates(Current) \ mem.baseline[Current]) # 1
  /\ Report("ambiguous", Current) /\ Advance
  /\ UNCHANGED <<remote, saved, mem, existing, stops, changes>>

CandidatesUnreadable ==
  /\ AtCreated
  /\ \/ Undecided
     \/ /\ Current \in Folders /\ mem.status[Current] # "completed"
        /\ ~Orphan(Current)
  /\ Abort

NotBegun ==
  /\ pc = "run" /\ queue # << >> /\ Current \in Folders \cup Playlists
  /\ mem.status[Current] \notin {"completed", "ambiguous", "creating"}

RefuseOrphan ==
  /\ NotBegun /\ Orphan(Current)
  /\ RecordFailure(Current, "refused") /\ Advance
  /\ UNCHANGED <<remote, existing, stops, changes>>

Creates(c) ==
  ~Orphan(c) /\ c \in Created /\ (c \in Owned => mem.dest[c] = 0)

(* Mutation: the creation is sent without a durable intent.                *)
StoreIntentInMemory ==
  /\ NotBegun /\ Creates(Current)
  /\ mem' = [Marked(mem, Current, "creating")
              EXCEPT !.baseline[Current] = Candidates(Current)]
  /\ fresh' = TRUE /\ pc' = "create"
  /\ UNCHANGED <<remote, saved, queue, existing, position, answer, report,
                 stops, changes>>

(* The intent is durable before the request.                               *)
StoreIntent ==
  /\ NotBegun /\ Creates(Current)
  /\ Checkpoint([Marked(mem, Current, "creating")
                  EXCEPT !.baseline[Current] = Candidates(Current)])
  /\ fresh' = TRUE /\ pc' = "create"
  /\ UNCHANGED <<remote, queue, existing, position, answer, report, stops,
                 changes>>

(* For a playlist the failed read of the baseline is inside the try.       *)
BaselineUnreadable ==
  /\ NotBegun /\ Creates(Current) /\ Current \in Owned
  /\ RecordFailure(Current, "refused") /\ Advance
  /\ UNCHANGED <<remote, existing, stops, changes>>

Create ==
  /\ pc = "create"
  /\ Request(made' = Append(made, [name |-> Name[Current], by |-> Current,
                                   place |-> Place(Current), items |-> << >>]),
             made' = made, "settle")
  /\ UNCHANGED <<favorites, saved, mem, loop, report, stops, changes>>

SettleCreation ==
  /\ pc = "settle" /\ Current \in Created
  /\ CASE answer = "done" ->
            /\ Checkpoint(
                 LET status == IF Current \in Folders THEN "completed"
                               ELSE "creating"
                 IN [Marked(mem, Current, status)
                       EXCEPT !.dest[Current] =
                              Max({i \in DOMAIN made : made[i].by = Current})])
            /\ IF Current \in Folders
                 THEN Report("successful", Current) /\ Advance
                 ELSE Then("list") /\ UNCHANGED report
       [] answer = "lost" ->
            /\ Checkpoint(Marked(mem, Current, "ambiguous"))
            /\ Report("ambiguous", Current) /\ Advance
       [] OTHER -> RecordFailure(Current, answer) /\ Advance
  /\ UNCHANGED <<remote, existing, stops, changes>>

FollowPlaylist ==
  /\ NotBegun /\ Current \in Followed /\ ~Orphan(Current)
  /\ Request(favorites' = favorites \cup {Current}, favorites' = favorites,
             "settle")
  /\ saved' = mem
  /\ UNCHANGED <<made, mem, loop, report, stops, changes>>

(***************************************************************************)
(* _transfer_playlist_items                                                *)
(***************************************************************************)
OpenPlaylist ==
  /\ NotBegun /\ Current \in Owned /\ ~Orphan(Current) /\ mem.dest[Current] # 0
  /\ pc' = "list"
  /\ UNCHANGED <<remote, saved, mem, loop, answer, report, stops, changes>>

Contents(i) == [k \in DOMAIN made[i].items |->
                  LET e == made[i].items[k] IN Media[e[1]][e[2]]]

(* The source positions a list should hold: all that are not barred.       *)
Due(p) == Sublist([k \in DOMAIN Media[p] |-> k],
                  {k \in DOMAIN Media[p] : mem.status[<<p, k>>] \notin Barred})

(* _reconcile_playlist_position: they are compared with the list one by    *)
(* one.                                                                    *)
Listed   == Contents(mem.dest[Current])
Expected == Due(Current)

Matches ==
  /\ Len(Listed) <= Len(Expected)
  /\ \A k \in DOMAIN Listed : Listed[k] = Media[Current][Expected[k]]

(* Mutation: the length of the list is taken for the source position.      *)
ReconcileByLength ==
  /\ pc = "list" /\ Matches
  /\ position' = Len(Listed) + 1
  /\ pc' = "entries"
  /\ UNCHANGED <<remote, saved, mem, queue, existing, fresh, answer, report,
                 stops, changes>>

Reconcile ==
  /\ pc = "list" /\ Matches
  /\ Checkpoint([mem EXCEPT !.status =
       [o \in Objects |->
          IF \E k \in DOMAIN Listed : o = <<Current, Expected[k]>>
            THEN "completed" ELSE mem.status[o]]])
  /\ position' = IF Len(Listed) < Len(Expected)
                   THEN Expected[Len(Listed) + 1]
                   ELSE Len(Media[Current]) + 1
  /\ pc' = "entries"
  /\ UNCHANGED <<remote, queue, existing, fresh, answer, report, stops,
                 changes>>

(* The handler at the end of _transfer_playlist. An unknown outcome of an  *)
(* entry makes a playlist ambiguous that this call created.                *)
FailPlaylist(state, kind) ==
  LET status == IF fresh /\ kind = "lost" THEN "ambiguous"
                ELSE FailureStatus(kind)
  IN /\ Checkpoint(Marked(state, Current, status))
     /\ Report(IF status = "ambiguous" THEN status ELSE FailureBucket(kind),
               Current)
     /\ Advance

Mismatch ==
  /\ pc = "list" /\ ~Matches
  /\ FailPlaylist(mem, "refused")
  /\ UNCHANGED <<remote, existing, position, answer, stops, changes>>

ListUnreadable ==
  /\ pc = "list"
  /\ \E kind \in Answers \ {"done", "garbled"} : FailPlaylist(mem, kind)
  /\ UNCHANGED <<remote, existing, position, answer, stops, changes>>

AppendEntry ==
  /\ pc = "entries" /\ position <= Len(Media[Current])
  /\ Media[Current][position] \notin Videos
  /\ Request(made' = [made EXCEPT ![mem.dest[Current]].items =
                        Append(@, <<Current, position>>)],
             made' = made, "entry")
  /\ saved' = mem
  /\ UNCHANGED <<favorites, mem, loop, report, stops, changes>>

(* Mutation: an unavailable entry is reported and not recorded.            *)
SettleEntryUnrecorded ==
  /\ pc = "entry" /\ answer \in {"done", "gone"}
  /\ Checkpoint(mem)
  /\ Report(IF answer = "done" THEN "successful" ELSE "unavailable",
            <<Current, position>>)
  /\ position' = position + 1 /\ pc' = "entries" /\ answer' = "done"
  /\ UNCHANGED <<remote, queue, existing, fresh, stops, changes>>

SettleEntry ==
  /\ pc = "entry" /\ answer \in {"done", "gone"}
  /\ Checkpoint(IF answer = "done" THEN mem
                ELSE Marked(mem, <<Current, position>>, "unavailable"))
  /\ Report(IF answer = "done" THEN "successful" ELSE "unavailable",
            <<Current, position>>)
  /\ position' = position + 1 /\ pc' = "entries" /\ answer' = "done"
  /\ UNCHANGED <<remote, queue, existing, fresh, stops, changes>>

RefuseVideo ==
  /\ pc = "entries" /\ position <= Len(Media[Current])
  /\ Media[Current][position] \in Videos
  /\ Checkpoint(Marked(mem, <<Current, position>>, "unsupported"))
  /\ Report("unsupported", <<Current, position>>)
  /\ position' = position + 1
  /\ UNCHANGED <<remote, pc, queue, existing, fresh, answer, stops, changes>>

(* The entry is recorded, then the playlist: two saves, and the second     *)
(* makes no difference to what a restart does.                             *)
FailEntry ==
  /\ pc = "entry" /\ answer \notin {"done", "gone"}
  /\ LET state  == Marked(mem, <<Current, position>>, FailureStatus(answer))
         status == IF fresh /\ answer = "lost" THEN "ambiguous"
                   ELSE FailureStatus(answer)
     IN /\ Checkpoint(Marked(state, Current, status))
        /\ report' = [report EXCEPT
             ![FailureBucket(answer)] = @ \cup {<<Current, position>>} \cup
                 (IF status = "ambiguous" THEN {} ELSE {Current}),
             !["ambiguous"] = @ \cup
                 (IF status = "ambiguous" THEN {Current} ELSE {})]
  /\ Advance
  /\ UNCHANGED <<remote, existing, stops, changes>>

FinishPlaylist ==
  /\ pc = "entries" /\ position > Len(Media[Current])
  /\ Checkpoint(Marked(mem, Current, "completed"))
  /\ Report("successful", Current) /\ Advance
  /\ UNCHANGED <<remote, existing, stops, changes>>

(***************************************************************************)
(* verify_and_write and _complete_transfer                                 *)
(***************************************************************************)
FinishRun ==
  /\ pc = "run" /\ queue = << >>
  /\ pc' = "verify"
  /\ UNCHANGED <<remote, saved, mem, loop, answer, report, stops, changes>>

FavoritesMissing ==
  Favorites \ (favorites \cup report["unavailable"] \cup report["failed"]
                 \cup report["failed_permanent"])

(* _expected_remote_order against the destination's list, and the folder.  *)
PlaylistVerified(p) ==
  IF p \in Followed
    THEN mem.status[p] = "completed" /\ p \in favorites
    ELSE /\ mem.dest[p] # 0
         /\ Contents(mem.dest[p]) = [k \in DOMAIN Due(p) |-> Media[p][Due(p)[k]]]
         /\ made[mem.dest[p]].place = Place(p)

FolderVerified(f) == mem.dest[f] # 0 /\ made[mem.dest[f]].place = Place(f)

Excused(c) == mem.status[c] \in Limited /\ (c \in Created => mem.dest[c] = 0)

Verdict ==
  IF \/ FavoritesMissing # {}
     \/ \E p \in Playlists : ~Excused(p) /\ ~PlaylistVerified(p)
     \/ \E f \in Folders : ~Excused(f) /\ ~FolderVerified(f)
    THEN "failed"
  ELSE IF report["failed_permanent"] # {} THEN "completed_with_failures"
  ELSE IF report["unsupported"] \cup report["unavailable"] # {}
    THEN "completed_with_expected_limitations"
  ELSE "clean"

(* Mutation: only a mismatch keeps the checkpoint.                         *)
CompleteUnlessFailed(verdict) ==
  /\ pc = "verify"
  /\ IF verdict # "failed"
       THEN saved' = NoState /\ Leave("done")
       ELSE saved' = saved /\ Leave("menu")
  /\ UNCHANGED <<remote, stops, changes>>

(* The library is read once more; when a section is unreadable the verdict *)
(* is "inconclusive" and the checkpoint stays. One transfer is followed,   *)
(* from its start until its checkpoint goes.                               *)
Complete(verdict) ==
  /\ pc = "verify"
  /\ IF /\ report["failed"] \cup report["ambiguous"] = {}
        /\ verdict \in {"clean", "completed_with_expected_limitations"}
       THEN saved' = NoState /\ Leave("done")
       ELSE saved' = saved /\ Leave("menu")
  /\ UNCHANGED <<remote, stops, changes>>

Verify           == Complete(Verdict)
VerifyUnreadable == Complete("inconclusive")

(***************************************************************************)
(* The end of the process, and other clients of the account                *)
(***************************************************************************)
(* KeyboardInterrupt: run() saves what is in memory.                       *)
Stopped(state) ==
  /\ pc \notin {"menu", "done"} /\ stops < MaxStops
  /\ stops' = stops + 1
  /\ saved' = state
  /\ Leave("menu")
  /\ UNCHANGED <<remote, changes>>

Interrupt == pc \in {"run", "create", "settle", "list", "entries", "entry"}
             /\ Stopped(mem)
Crash     == Stopped(saved)

(* A playlist of the same name can be empty or hold one of the media, each *)
(* under its first position.                                               *)
OneOf(c) ==
  IF c \in Folders THEN {}
  ELSE {<< <<c, k>> >> : k \in {j \in DOMAIN Media[c] :
          \A i \in 1 .. (j - 1) : Media[c][i] # Media[c][j]}}

(* Where such an object is a candidate; elsewhere nothing looks at it.     *)
PlacesOf(c) ==
  IF Parent[c] = Root THEN {0}
  ELSE {i \in DOMAIN made : made[i].name = Name[Parent[c]]}

OtherClient ==
  /\ changes < MaxChanges /\ changes' = changes + 1
  /\ \/ \E f \in favorites : favorites' = favorites \ {f} /\ made' = made
     \/ \E c \in Created :
          \E place \in PlacesOf(c),
             items \in {<< >>} \cup OneOf(c) :
            /\ made' = Append(made, [name |-> Name[c], by |-> Root,
                                     place |-> place, items |-> items])
            /\ favorites' = favorites
  /\ UNCHANGED <<saved, mem, pc, loop, answer, report, stops>>

Next ==
  \/ Start \/ Resume \/ ReadFavorites \/ ReadFails
  \/ SkipFavorite \/ NoteFavorite \/ AddFavorite \/ SettleFavorite
  \/ SkipCompleted \/ Adopt \/ Conflict \/ CandidatesUnreadable
  \/ RefuseOrphan \/ StoreIntent \/ BaselineUnreadable \/ Create
  \/ SettleCreation \/ FollowPlaylist
  \/ OpenPlaylist \/ Reconcile \/ Mismatch \/ ListUnreadable
  \/ AppendEntry \/ SettleEntry \/ RefuseVideo \/ FailEntry \/ FinishPlaylist
  \/ FinishRun \/ Verify \/ VerifyUnreadable
  \/ Interrupt \/ Crash \/ OtherClient

Spec == Init /\ [][Next]_vars

(***************************************************************************)
(* Properties                                                              *)
(***************************************************************************)
(* A folder or playlist of the snapshot is created once, whatever request  *)
(* loses its answer and wherever the process stops: the write-ahead intent *)
(* with its baseline (transfer.py:174, 263) and the adoption of the one    *)
(* new candidate (transfer.py:297-331) never let a creation be repeated.   *)
CreatedOnce ==
  \A i, j \in DOMAIN made : made[i].by = made[j].by /\ i # j => made[i].by = Root

(* An entry is appended once and in the order of the source, although the  *)
(* answer of an append can be lost after it landed and a resumed run knows *)
(* only the media it reads back (_reconcile_playlist_position,             *)
(* transfer.py:388-428).                                                   *)
EntriesOnceInOrder ==
  \A i \in DOMAIN made :
    LET items == made[i].items IN
      \A k, l \in DOMAIN items : k < l =>
        items[k][1] = items[l][1] /\ items[k][2] < items[l][2]

(* A playlist recorded as completed holds, one for one, the media of the   *)
(* entries that are not recorded as unavailable, unsupported or failed for *)
(* good: no position is passed over when positions of the list and of the  *)
(* source come apart (transfer.py:352-386, 403-428).                       *)
CompletedHoldsAll ==
  saved # NoState =>
    \A p \in Owned : saved.status[p] = "completed" =>
      /\ saved.dest[p] # 0
      /\ LET items == made[saved.dest[p]].items
             due   == {k \in DOMAIN Media[p] :
                         saved.status[<<p, k>>] \notin Barred}
         IN /\ Len(items) = Cardinality(due)
            /\ \A m \in ToSet(Media[p]) :
                 Cardinality({k \in DOMAIN items :
                                Media[items[k][1]][items[k][2]] = m})
                   = Cardinality({k \in due : Media[p][k] = m})

(* The checkpoint goes only when the account holds every favourite,        *)
(* folder and playlist that is not recorded as unavailable, and each own   *)
(* playlist as many entries as the snapshot, less those recorded as        *)
(* unavailable, unsupported or failed for good.  The last kind is no       *)
(* success: an entry that was refused once is passed over by every resume  *)
(* (transfer.py:402-408) and left out of the verification                  *)
(* (verification.py:186), so that the checkpoint can go without it         *)
(* (menu.py:607-611), while state.py:390 says "only after a fully          *)
(* successful operation".                                                  *)
ClearedWhenComplete ==
  [][saved # NoState /\ saved' = NoState =>
       /\ \A f \in Favorites : f \in favorites \/ mem.status[f] = "unavailable"
       /\ \A p \in Followed :
            p \in favorites \/ mem.status[p] = "unavailable"
       /\ \A c \in Created :
            mem.dest[c] # 0 \/ mem.status[c] = "unavailable"
       /\ \A p \in Owned : mem.dest[p] # 0 =>
            Len(made[mem.dest[p]].items)
              = Cardinality({k \in DOMAIN Media[p] :
                               mem.status[<<p, k>>] \notin Barred})]_vars
============================================================================
