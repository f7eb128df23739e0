----------------------- MODULE LibraryTransferProofs -----------------------
(***************************************************************************)
(* What a transfer makes of the account and of its checkpoint: proofs of   *)
(* the safety properties of LibraryTransfer, for every snapshot, any       *)
(* number of stops and any number of changes by other clients.             *)
(***************************************************************************)
EXTENDS LibraryTransfer, SublistProofs, FiniteSetTheorems

(***************************************************************************)
(* Types, and what the process holds at each point                         *)
(***************************************************************************)
Statuses == {"none", "pending", "creating", "ambiguous", "completed",
             "already_present", "unavailable", "unsupported",
             "failed_retryable", "failed_permanent"}

States == [status   : [Objects -> Statuses],
           dest     : [Created -> Nat],
           baseline : [Created -> SUBSET Nat]]

Names == {Name[c] : c \in Created}

Lists == [name : Names, by : Created \cup {Root}, place : Nat, items : Seq(Entries)]

Tops == Favorites \cup Folders \cup Playlists

Idle    == {"menu", "done"}
Copying == {"list", "entries", "entry"}
Busy    == {"create", "settle"} \cup Copying
Tried   == {"creating", "ambiguous", "completed"}
Phases  == Idle \cup Busy \cup {"read", "run", "verify"}

TypeInv ==
  /\ favorites \in SUBSET (Favorites \cup Followed)
  /\ made \in Seq(Lists)
  /\ saved \in States \cup {NoState} /\ mem \in States \cup {NoState}
  /\ pc \in Phases
  /\ queue \in Seq(Tops) /\ existing \in SUBSET Favorites
  /\ fresh \in BOOLEAN /\ position \in Nat
  /\ answer \in Answers \cup {"done"}
  /\ report \in [Buckets -> SUBSET Objects]
  /\ stops \in Nat /\ changes \in Nat

Sent(c, m) == \E i \in DOMAIN m : m[i].by = c

(* A run holds a checkpoint in memory and has one on disk; each point of   *)
(* the program is about an object of one kind.                             *)
PhaseInv ==
  /\ pc \notin Idle => mem \in States /\ saved \in States
  /\ pc \in Busy => queue # << >>
  /\ pc = "create" => Current \in Created
  /\ pc = "settle" => /\ Current \in Favorites \cup Followed \cup Created
                      /\ Current \in Created /\ answer = "done" => Sent(Current, made)
                      /\ Current \in Favorites => mem.status[Current] \notin Barred
  /\ pc \in Copying => Current \in Owned
  /\ pc \in {"entries", "entry"} => position >= 1
  /\ pc = "entry" => position <= Len(Media[Current])

(* Only an entry is ever unsupported.                                      *)
Supported(s) == \A o \in Tops : s.status[o] # "unsupported"

(* A favourite that is reported as unavailable is recorded as such.        *)
ReportInv ==
  /\ pc \notin Idle => Supported(mem) /\ Supported(saved)
  /\ saved \in States => Supported(saved)
  /\ pc \notin Idle =>
       \A o \in Favorites : o \in report["unavailable"] => mem.status[o] = "unavailable"

BaseInv == TypeInv /\ PhaseInv /\ ReportInv

(* The objects at the head of the queue are of the kinds the run handles.  *)
LEMMA Kinds ==
  /\ Objects = Tops \cup Entries
  /\ Tops = Favorites \cup Followed \cup Created
  /\ Favorites \cap Created = {} /\ Favorites \cap Followed = {}
  /\ Created \cap Followed = {} /\ Tops \cap Entries = {}
  /\ Created = Folders \cup Owned /\ Folders \cap Owned = {}
  /\ Root \notin Created
BY SnapshotAssumption, KindsAssumption
   DEF Objects, Tops, Created, Owned

(* Every position of a playlist is an entry.                               *)
LEMMA EntriesAre ==
  \A p \in Owned : \A k \in DOMAIN Media[p] : <<p, k>> \in Entries
BY DEF Entries

(* The media of a playlist are a list.                                     *)
LEMMA MediaAre ==
  ASSUME NEW p \in Owned
  PROVE  /\ Len(Media[p]) \in Nat /\ DOMAIN Media[p] = 1 .. Len(Media[p])
BY KindsAssumption

(* A status that is set changes nothing else of a checkpoint.              *)
LEMMA MarkedIs ==
  ASSUME NEW s \in States, NEW o \in Objects, NEW status \in Statuses
  PROVE  /\ Marked(s, o, status) \in States
         /\ Marked(s, o, status).dest = s.dest
         /\ Marked(s, o, status).baseline = s.baseline
         /\ \A x \in Objects : Marked(s, o, status).status[x]
                                 = IF x = o THEN status ELSE s.status[x]
BY DEF Marked, States

(* The head and the tail of a list that is not empty.                      *)
LEMMA HeadIs ==
  ASSUME NEW S, NEW q \in Seq(S), q # << >>
  PROVE  Head(q) \in S /\ Tail(q) \in Seq(S)
OBVIOUS

(* A new checkpoint is one, and it records nothing.                        *)
LEMMA FreshIs ==
  /\ Fresh \in States
  /\ \A o \in Objects : Fresh.status[o] = "none"
BY DEF Fresh, States, Statuses

(* A set of places that is not empty has a last one, which Max names.      *)
LEMMA MaxIs ==
  ASSUME NEW n \in Nat, NEW S, S \subseteq 1 .. n, S # {}
  PROVE  Max(S) \in S
<1> DEFINE T == {n - i : i \in S}
<1>1. T \subseteq Nat /\ T # {}
  <2>1. \A i \in S : i \in 1 .. n /\ n - i \in Nat
    OBVIOUS
  <2> QED
    BY <2>1
<1>2. PICK t \in T : \A u \in T : t <= u
  BY <1>1, LeastElement
<1>3. PICK i \in S : t = n - i
  BY <1>2
<1>4. \A j \in S : i >= j
  BY <1>2, <1>3
<1> QED
  BY <1>3, <1>4 DEF Max

(* An identifier that is set changes nothing else of a checkpoint.         *)
LEMMA DestIs ==
  ASSUME NEW s \in States, NEW c \in Created, NEW i \in Nat
  PROVE  /\ [s EXCEPT !.dest[c] = i] \in States
         /\ [s EXCEPT !.dest[c] = i].status = s.status
         /\ [s EXCEPT !.dest[c] = i].baseline = s.baseline
         /\ \A x \in Created :
              [s EXCEPT !.dest[c] = i].dest[x] = IF x = c THEN i ELSE s.dest[x]
BY DEF States

(* A baseline that is set changes nothing else of a checkpoint.            *)
LEMMA BaselineIs ==
  ASSUME NEW s \in States, NEW c \in Created, NEW B \in SUBSET Nat
  PROVE  /\ [s EXCEPT !.baseline[c] = B] \in States
         /\ [s EXCEPT !.baseline[c] = B].status = s.status
         /\ [s EXCEPT !.baseline[c] = B].dest = s.dest
         /\ \A x \in Created : [s EXCEPT !.baseline[c] = B].baseline[x]
                                 = IF x = c THEN B ELSE s.baseline[x]
BY DEF States

(* The end of a request is one of the known answers.                       *)
LEMMA FailuresAre ==
  \A kind : FailureStatus(kind) \in {"unavailable", "failed_retryable", "failed_permanent"}
BY DEF FailureStatus

(***************************************************************************)
(* Which steps change what                                                 *)
(***************************************************************************)
Opens   == Start \/ Resume
Leaves  == ReadFails \/ CandidatesUnreadable \/ Verify \/ VerifyUnreadable
             \/ Interrupt \/ Crash
Sends   == AddFavorite \/ FollowPlaylist \/ Create \/ AppendEntry
Marks   == SettleFavorite \/ Adopt \/ RefuseOrphan \/ StoreIntent
             \/ BaselineUnreadable \/ SettleCreation \/ Reconcile \/ Mismatch
             \/ ListUnreadable \/ SettleEntry \/ RefuseVideo \/ FailEntry
             \/ FinishPlaylist
Passes  == ReadFavorites \/ SkipFavorite \/ SkipCompleted \/ Conflict
             \/ OpenPlaylist \/ FinishRun

(* The steps, by what they do to the checkpoint and the account.           *)
LEMMA StepsAre ==
  ASSUME [Next]_vars
  PROVE  \/ Opens \/ Leaves \/ Sends \/ Marks \/ Passes
         \/ NoteFavorite \/ OtherClient \/ UNCHANGED vars
BY DEF Next, Opens, Leaves, Sends, Marks, Passes

(* Only requests and other clients change the account.                     *)
LEMMA RemoteKept ==
  ASSUME [Next]_vars, ~Sends, ~OtherClient
  PROVE  UNCHANGED remote
BY DEF Next, Sends, vars, remote, Start, Resume, Begin, ReadFavorites, ReadFails,
       Abort, SkipFavorite, NoteFavorite, SettleFavorite, SkipCompleted, Adopt,
       Conflict, CandidatesUnreadable, RefuseOrphan, StoreIntent,
       BaselineUnreadable, SettleCreation, OpenPlaylist, Reconcile, Mismatch,
       ListUnreadable, SettleEntry, RefuseVideo, FailEntry, FinishPlaylist,
       FinishRun, Verify, VerifyUnreadable, Complete, Interrupt, Crash, Stopped

(* A run that ends leaves nothing in memory.                               *)
LEMMA LeavesAre ==
  ASSUME Leaves
  PROVE  /\ pc' \in Idle /\ mem' = NoState /\ queue' = << >>
         /\ existing' = {} /\ fresh' = FALSE /\ position' = 0 /\ answer' = "done"
         /\ report' = EmptyReport /\ pc \notin Idle
         /\ saved' = saved \/ saved' = mem \/ (saved' = NoState /\ pc' = "done")
         /\ UNCHANGED remote
BY DEF Leaves, ReadFails, CandidatesUnreadable, Verify, VerifyUnreadable, Interrupt,
       Crash, Abort, Leave, Complete, Stopped, Idle, remote, AtCreated

(* Steps that only move on.                                                *)
LEMMA PassesAre ==
  ASSUME Passes
  PROVE  /\ UNCHANGED <<remote, mem, saved>> /\ pc \notin Idle /\ pc' \notin Idle
         /\ pc' \in {"run", "list", "verify"}
BY DEF Passes, ReadFavorites, SkipFavorite, SkipCompleted, Conflict, OpenPlaylist,
       FinishRun, Advance, Idle, AtFavorite, AtCreated, NotBegun, remote

(* A request is sent from what is in memory, and its answer is awaited.    *)
LEMMA SendsAre ==
  ASSUME Sends
  PROVE  /\ mem' = mem /\ UNCHANGED <<loop, report>> /\ pc \notin Idle
         /\ saved' = mem \/ saved' = saved
         /\ pc' \in {"settle", "entry"}
BY DEF Sends, AddFavorite, FollowPlaylist, Create, AppendEntry, Request, Idle,
       AtFavorite, NotBegun

(* What a run records is on disk when the step ends.                       *)
LEMMA MarksAre ==
  ASSUME Marks
  PROVE  /\ pc \notin Idle /\ pc' \in {"run", "create", "list", "entries"}
         /\ saved' = mem' /\ UNCHANGED remote
BY DEF Marks, SettleFavorite, Adopt, RefuseOrphan, StoreIntent, BaselineUnreadable,
       SettleCreation, Reconcile, Mismatch, ListUnreadable, SettleEntry,
       RefuseVideo, FailEntry, FinishPlaylist, Checkpoint, RecordFailure,
       FailPlaylist, Advance, Then, Idle, AtFavorite, AtCreated, NotBegun

(***************************************************************************)
(* The types                                                               *)
(***************************************************************************)
LEMMA CurrentIs ==
  ASSUME TypeInv, queue # << >>
  PROVE  Current \in Tops /\ Current \in Objects
BY HeadIs, Kinds DEF TypeInv, Current

(* Candidates are identifiers of lists that are there.                     *)
LEMMA CandidatesAre ==
  ASSUME TypeInv
  PROVE  \A c : Candidates(c) \in SUBSET Nat /\ Candidates(c) \subseteq DOMAIN made
BY DEF TypeInv, Candidates

(* The position of the loop is that of an entry.                           *)
LEMMA EntryIs ==
  ASSUME NEW p \in Owned, NEW k \in Nat, k >= 1, k <= Len(Media[p])
  PROVE  <<p, k>> \in Entries /\ <<p, k>> \in Objects
BY MediaAre, EntriesAre, Kinds

(* The positions that are due are positions of the source.                 *)
LEMMA DueIs ==
  ASSUME NEW p \in Owned
  PROVE  /\ Due(p) \in Seq(1 .. Len(Media[p])) /\ Len(Due(p)) \in Nat
         /\ \A k \in 1 .. Len(Due(p)) : Due(p)[k] \in 1 .. Len(Media[p])
<1> DEFINE s == [k \in DOMAIN Media[p] |-> k]
<1>1. s \in Seq(1 .. Len(Media[p]))
  BY MediaAre
<1> HIDE DEF s
<1>2. Due(p) \in Seq(1 .. Len(Media[p]))
  BY <1>1, SublistPlaces DEF Due, s
<1> QED
  BY <1>2

(* A status of any outcome makes a checkpoint of a checkpoint.             *)
LEMMA MarkedStates ==
  ASSUME NEW s \in States, NEW o \in Objects
  PROVE  /\ \A status \in Statuses : Marked(s, o, status) \in States
         /\ \A kind : Marked(s, o, FailureStatus(kind)) \in States
         /\ \A kind, b : Marked(s, o, IF b THEN "ambiguous" ELSE FailureStatus(kind))
                         \in States
<1>1. \A status \in Statuses : Marked(s, o, status) \in States
  BY MarkedIs
<1>2. \A kind : FailureStatus(kind) \in Statuses
  BY FailuresAre DEF Statuses
<1>3. "ambiguous" \in Statuses
  BY DEF Statuses
<1>4. \A kind, b : (IF b THEN "ambiguous" ELSE FailureStatus(kind)) \in Statuses
  BY <1>2, <1>3
<1> QED
  BY <1>1, <1>2, <1>4

(* What a run records is a checkpoint.                                     *)
LEMMA MarksTypes ==
  ASSUME TypeInv, PhaseInv, Marks
  PROVE  mem' \in States
<1>1. mem \in States /\ pc \notin Idle
  BY MarksAre DEF PhaseInv
<1>2. CASE SettleFavorite
  <2>1. Current \in Objects
    BY <1>2, CurrentIs DEF SettleFavorite, PhaseInv, Busy
  <2> QED
    BY <1>1, <1>2, <2>1, MarkedStates
       DEF SettleFavorite, Checkpoint, RecordFailure, Statuses
<1>3. CASE Adopt
  <2>1. Current \in Objects /\ Current \in Created
    BY <1>3, CurrentIs DEF Adopt, AtCreated
  <2>2. PICK i \in Candidates(Current) \ mem.baseline[Current] :
          Checkpoint([Marked(mem, Current,
                        IF Current \in Folders THEN "completed" ELSE "pending")
                        EXCEPT !.dest[Current] = i])
    BY <1>3 DEF Adopt
  <2>3. i \in Nat
    BY <2>2, CandidatesAre
  <2>4. \A status \in Statuses : Marked(mem, Current, status) \in States
    BY <1>1, <2>1, MarkedStates
  <2>5. Marked(mem, Current, IF Current \in Folders THEN "completed" ELSE "pending") \in States
    BY <2>4 DEF Statuses
  <2> QED
    BY <2>1, <2>2, <2>3, <2>5, DestIs DEF Checkpoint
<1>4. CASE RefuseOrphan \/ BaselineUnreadable
  <2>1. Current \in Objects
    BY <1>4, CurrentIs DEF RefuseOrphan, BaselineUnreadable, NotBegun
  <2> QED
    BY <1>1, <1>4, <2>1, MarkedStates
       DEF RefuseOrphan, BaselineUnreadable, Checkpoint, RecordFailure, Statuses
<1>5. CASE StoreIntent
  <2>1. Current \in Objects /\ Current \in Created
    BY <1>5, CurrentIs DEF StoreIntent, NotBegun, Creates
  <2>2. Marked(mem, Current, "creating") \in States
    BY <1>1, <2>1, MarkedStates DEF Statuses
  <2> QED
    BY <1>5, <2>1, <2>2, BaselineIs, CandidatesAre DEF StoreIntent, Checkpoint
<1>6. CASE SettleCreation
  <2>1. Current \in Objects /\ Current \in Created
    BY <1>6, CurrentIs DEF SettleCreation, PhaseInv, Busy
  <2>2. CASE answer = "done"
    <3> DEFINE S == {i \in DOMAIN made : made[i].by = Current}
    <3>1. S \subseteq 1 .. Len(made) /\ Len(made) \in Nat
      BY DEF TypeInv
    <3>2. S # {}
      BY <1>6, <2>1, <2>2 DEF SettleCreation, PhaseInv, Sent
    <3>3. Max(S) \in Nat
      <4>1. Max(S) \in S
        <5> HIDE DEF S
        <5> QED BY <3>1, <3>2, MaxIs
      <4> QED
        BY <3>1, <4>1
    <3>4. Marked(mem, Current, IF Current \in Folders THEN "completed" ELSE "creating")
            \in States
      BY <1>1, <2>1, MarkedStates DEF Statuses
    <3>5. mem' = [Marked(mem, Current, IF Current \in Folders THEN "completed"
                                       ELSE "creating") EXCEPT !.dest[Current] = Max(S)]
      BY <1>6, <2>2 DEF SettleCreation, Checkpoint
    <3> HIDE DEF S
    <3> QED
      BY <2>1, <3>3, <3>4, <3>5, DestIs
  <2>3. CASE answer # "done"
    BY <1>1, <1>6, <2>1, <2>3, MarkedStates
       DEF SettleCreation, Checkpoint, RecordFailure, Statuses
  <2> QED
    BY <2>2, <2>3
<1>7. CASE Reconcile
  <2> DEFINE status == [o \in Objects |->
               IF \E k \in DOMAIN Listed : o = <<Current, Expected[k]>>
                 THEN "completed" ELSE mem.status[o]]
  <2>1. status \in [Objects -> Statuses]
    BY <1>1 DEF States, Statuses
  <2>2. mem' = [mem EXCEPT !.status = status]
    BY <1>7 DEF Reconcile, Checkpoint
  <2> HIDE DEF status
  <2> QED
    BY <1>1, <2>1, <2>2 DEF States
<1>8. CASE Mismatch \/ ListUnreadable
  <2>1. Current \in Objects
    BY <1>8, CurrentIs DEF Mismatch, ListUnreadable, PhaseInv, Busy, Copying
  <2> QED
    BY <1>1, <1>8, <2>1, MarkedStates
       DEF Mismatch, ListUnreadable, FailPlaylist, Checkpoint
<1>9. CASE SettleEntry \/ RefuseVideo \/ FailEntry
  <2>1. <<Current, position>> \in Objects
    BY <1>9, EntryIs DEF SettleEntry, RefuseVideo, FailEntry, PhaseInv, Copying, TypeInv
  <2>2. Current \in Objects
    BY <1>9, CurrentIs DEF SettleEntry, RefuseVideo, FailEntry, PhaseInv, Busy, Copying
  <2>3. \A st \in Statuses : Marked(mem, <<Current, position>>, st) \in States
    BY <1>1, <2>1, MarkedStates
  <2>4. CASE SettleEntry \/ RefuseVideo
    BY <1>1, <2>3, <2>4 DEF SettleEntry, RefuseVideo, Checkpoint, Statuses
  <2>5. CASE FailEntry
    <3>1. Marked(mem, <<Current, position>>, FailureStatus(answer)) \in States
      BY <2>3, FailuresAre DEF Statuses
    <3>2. \A st \in Statuses :
            Marked(Marked(mem, <<Current, position>>, FailureStatus(answer)), Current, st)
              \in States
      BY <2>2, <3>1, MarkedStates
    <3> QED
      BY <2>5, <3>2, FailuresAre DEF FailEntry, Checkpoint, Statuses
  <2> QED
    BY <1>9, <2>4, <2>5
<1>10. CASE FinishPlaylist
  <2>1. Current \in Objects
    BY <1>10, CurrentIs DEF FinishPlaylist, PhaseInv, Busy, Copying
  <2> QED
    BY <1>1, <1>10, <2>1, MarkedStates DEF FinishPlaylist, Checkpoint, Statuses
<1> QED
  BY <1>2, <1>3, <1>4, <1>5, <1>6, <1>7, <1>8, <1>9, <1>10 DEF Marks

(* A run holds a checkpoint, in memory and on disk.                        *)
LEMMA CheckpointTypes ==
  ASSUME TypeInv, PhaseInv, [Next]_vars
  PROVE  /\ saved' \in States \cup {NoState} /\ mem' \in States \cup {NoState}
         /\ pc' \notin Idle => mem' \in States /\ saved' \in States
<1>1. /\ saved \in States \cup {NoState} /\ mem \in States \cup {NoState}
      /\ pc \notin Idle => mem \in States /\ saved \in States
  BY DEF TypeInv, PhaseInv
<1>2. CASE Opens
  BY <1>1, <1>2, FreshIs DEF Opens, Start, Resume, Begin, Checkpoint
<1>3. CASE Leaves
  BY <1>1, <1>3, LeavesAre
<1>4. CASE Sends
  BY <1>1, <1>4, SendsAre
<1>5. CASE Marks
  BY <1>5, MarksAre, MarksTypes
<1>6. CASE Passes
  BY <1>1, <1>6, PassesAre
<1>7. CASE NoteFavorite
  <2>1. Current \in Objects
    BY <1>7, CurrentIs DEF NoteFavorite, AtFavorite
  <2>2. mem \in States /\ saved \in States
    BY <1>1, <1>7 DEF NoteFavorite, AtFavorite, Idle
  <2> QED
    BY <1>7, <2>1, <2>2, MarkedIs DEF NoteFavorite, Statuses
<1>8. CASE OtherClient \/ UNCHANGED vars
  BY <1>1, <1>8 DEF OtherClient, vars
<1> QED
  BY <1>2, <1>3, <1>4, <1>5, <1>6, <1>7, <1>8, StepsAre

(* What a creation and an append send, and when they land.                 *)
NewList == [name |-> Name[Current], by |-> Current, place |-> Place(Current),
            items |-> << >>]

Longer == [made EXCEPT ![mem.dest[Current]].items = Append(@, <<Current, position>>)]

(* When the list of a creation is there, by the answer.                    *)
LEMMA CreateIs ==
  ASSUME Create
  PROVE  /\ pc = "create" /\ pc' = "settle" /\ answer' \in Answers
         /\ made' = Append(made, NewList) \/ made' = made
         /\ answer' = "done" => made' = Append(made, NewList)
         /\ answer' \in {"refused", "gone"} => made' = made
         /\ UNCHANGED <<favorites, saved, mem, loop, report>>
BY DEF Create, Request, NewList

(* When the entry of an append is there, by the answer.                    *)
LEMMA AppendIs ==
  ASSUME AppendEntry
  PROVE  /\ pc = "entries" /\ pc' = "entry" /\ answer' \in Answers
         /\ made' = Longer \/ made' = made
         /\ answer' = "done" => made' = Longer
         /\ answer' \in {"refused", "gone"} => made' = made
         /\ saved' = mem /\ position <= Len(Media[Current])
         /\ UNCHANGED <<favorites, mem, loop, report>>
BY DEF AppendEntry, Request, Longer

(* A list that another client makes.                                       *)
Others(c, at, items) ==
  [name |-> Name[c], by |-> Root, place |-> at, items |-> items]

(* Another client removes favourites or adds a list of its own.            *)
LEMMA OtherIs ==
  ASSUME OtherClient
  PROVE  /\ UNCHANGED <<saved, mem, pc, loop, answer, report>>
         /\ favorites' \subseteq favorites
         /\ \/ made' = made
            \/ \E c \in Created : \E at \in PlacesOf(c), items \in {<< >>} \cup OneOf(c) :
                 made' = Append(made, Others(c, at, items))
BY DEF OtherClient, Others

(* A list of another client is well formed.                                *)
LEMMA OthersAre ==
  ASSUME TypeInv, NEW c \in Created, NEW at \in PlacesOf(c),
         NEW items \in {<< >>} \cup OneOf(c)
  PROVE  Others(c, at, items) \in Lists
<1>1. at \in Nat
  BY DEF TypeInv, PlacesOf
<1>2. items \in Seq(Entries)
  <2>1. CASE items = << >>
    BY <2>1
  <2>2. CASE items \in OneOf(c)
    <3>1. c \in Owned
      BY <2>2, Kinds DEF OneOf
    <3>2. PICK k \in DOMAIN Media[c] : items = << <<c, k>> >>
      BY <2>2 DEF OneOf
    <3>3. <<c, k>> \in Entries
      BY <3>1, <3>2, EntriesAre
    <3> QED
      BY <3>2, <3>3
  <2> QED
    BY <2>1, <2>2
<1> QED
  BY <1>1, <1>2, SnapshotAssumption DEF Others, Lists, Names

(* The list of a creation is well formed.                                  *)
LEMMA NewListIs ==
  ASSUME TypeInv, PhaseInv, pc = "create"
  PROVE  Current \in Created /\ NewList \in Lists
<1>1. Current \in Created /\ mem \in States
  BY DEF PhaseInv, Idle
<1>2. Place(Current) \in Nat
  <2>1. Parent[Current] = Root \/ Parent[Current] \in Created
    BY <1>1, Kinds, SnapshotAssumption DEF Created, Owned
  <2> QED
    BY <1>1, <2>1 DEF Place, States
<1> QED
  BY <1>1, <1>2 DEF NewList, Lists, Names

(* An append makes one list longer by one entry.                           *)
LEMMA LongerIs ==
  ASSUME TypeInv, PhaseInv, pc = "entries", position <= Len(Media[Current])
  PROVE  /\ Longer \in Seq(Lists) /\ Len(Longer) = Len(made)
         /\ \A i \in DOMAIN made :
              /\ Longer[i].name = made[i].name /\ Longer[i].by = made[i].by
              /\ Longer[i].place = made[i].place
              /\ Longer[i].items = IF i = mem.dest[Current]
                                   THEN Append(made[i].items, <<Current, position>>)
                                   ELSE made[i].items
<1>1. <<Current, position>> \in Entries
  BY EntryIs DEF PhaseInv, Copying, TypeInv
<1>2. made \in Seq(Lists)
  BY DEF TypeInv
<1> DEFINE d == mem.dest[Current]
           e == <<Current, position>>
<1>3. ASSUME NEW i \in DOMAIN made
      PROVE  /\ Append(made[i].items, e) \in Seq(Entries)
             /\ [made[i] EXCEPT !.items = Append(@, e)] \in Lists
  <2>0. made[i] \in Lists
    BY <1>2
  <2>1. made[i] \in Lists /\ made[i].items \in Seq(Entries)
    BY <2>0 DEF Lists
  <2>2. Append(made[i].items, e) \in Seq(Entries)
    <3>1. e \in Entries
      BY <1>1
    <3> HIDE DEF e
    <3> QED BY <2>1, <3>1
  <2> QED
    BY <2>1, <2>2 DEF Lists
<1>4. Longer = [i \in DOMAIN made |-> IF i = d THEN [made[i] EXCEPT !.items = Append(@, e)]
                                       ELSE made[i]]
  BY <1>2 DEF Longer
<1>5. \A i \in DOMAIN made : made[i] \in Lists
  BY <1>2
<1>6. \A i \in DOMAIN made : Longer[i] \in Lists
  BY <1>3, <1>4, <1>5
<1>7. DOMAIN Longer = DOMAIN made /\ DOMAIN made = 1 .. Len(made) /\ Len(made) \in Nat
  BY <1>2, <1>4
<1>8. Longer = [i \in 1 .. Len(made) |-> Longer[i]]
  BY <1>4, <1>7
<1>9. Longer \in Seq(Lists) /\ Len(Longer) = Len(made)
  <2> HIDE DEF d, e
  <2> QED BY <1>6, <1>7, <1>8
<1> QED
  BY <1>4, <1>5, <1>9 DEF Lists

(* The account keeps its type.                                             *)
LEMMA RemoteTypes ==
  ASSUME TypeInv, PhaseInv, [Next]_vars
  PROVE  favorites' \in SUBSET (Favorites \cup Followed) /\ made' \in Seq(Lists)
<1>1. favorites \in SUBSET (Favorites \cup Followed) /\ made \in Seq(Lists)
  BY DEF TypeInv
<1>2. CASE AddFavorite \/ FollowPlaylist
  BY <1>1, <1>2 DEF AddFavorite, FollowPlaylist, Request, AtFavorite
<1>3. CASE Create
  BY <1>1, <1>3, CreateIs, NewListIs
<1>4. CASE AppendEntry
  BY <1>1, <1>4, AppendIs, LongerIs
<1>5. CASE OtherClient
  BY <1>1, <1>5, OtherIs, OthersAre
<1>6. CASE ~Sends /\ ~OtherClient
  BY <1>1, <1>6, RemoteKept DEF remote
<1> QED
  BY <1>2, <1>3, <1>4, <1>5, <1>6 DEF Sends

(* What a run holds keeps its type.                                        *)
LEMMA LoopTypes ==
  ASSUME TypeInv, PhaseInv, [Next]_vars
  PROVE  /\ pc' \in Phases
         /\ queue' \in Seq(Tops) /\ existing' \in SUBSET Favorites
         /\ fresh' \in BOOLEAN /\ position' \in Nat
         /\ answer' \in Answers \cup {"done"}
         /\ stops' \in Nat /\ changes' \in Nat
<1>1. /\ pc \in Phases
      /\ queue \in Seq(Tops) /\ existing \in SUBSET Favorites
      /\ fresh \in BOOLEAN /\ position \in Nat
      /\ answer \in Answers \cup {"done"}
      /\ stops \in Nat /\ changes \in Nat
  BY DEF TypeInv
<1>2. queue # << >> => Tail(queue) \in Seq(Tops)
  BY <1>1
<1>3. stops' \in Nat /\ changes' \in Nat
  <2>1. UNCHANGED stops \/ stops' = stops + 1
    BY DEF Next, vars, Start, Resume, Begin, ReadFavorites, ReadFails, Abort,
       SkipFavorite, NoteFavorite, AddFavorite, SettleFavorite, SkipCompleted, Adopt,
       Conflict, CandidatesUnreadable, RefuseOrphan, StoreIntent, BaselineUnreadable,
       Create, SettleCreation, FollowPlaylist, OpenPlaylist, Reconcile, Mismatch,
       ListUnreadable, AppendEntry, SettleEntry, RefuseVideo, FailEntry,
       FinishPlaylist, FinishRun, Verify, VerifyUnreadable, Complete, Interrupt,
       Crash, Stopped, OtherClient
  <2>2. UNCHANGED changes \/ changes' = changes + 1
    BY DEF Next, vars, Start, Resume, Begin, ReadFavorites, ReadFails, Abort,
       SkipFavorite, NoteFavorite, AddFavorite, SettleFavorite, SkipCompleted, Adopt,
       Conflict, CandidatesUnreadable, RefuseOrphan, StoreIntent, BaselineUnreadable,
       Create, SettleCreation, FollowPlaylist, OpenPlaylist, Reconcile, Mismatch,
       ListUnreadable, AppendEntry, SettleEntry, RefuseVideo, FailEntry,
       FinishPlaylist, FinishRun, Verify, VerifyUnreadable, Complete, Interrupt,
       Crash, Stopped, OtherClient
  <2> QED
    BY <1>1, <2>1, <2>2
<1> HIDE <1>1
<1>4. CASE Opens
  BY <1>1, <1>3, <1>4 DEF Opens, Start, Resume, Begin, loop, Phases
<1>5. CASE Leaves
  BY <1>3, <1>5, LeavesAre DEF Phases
<1>6. CASE Sends
  <2>1. answer' \in Answers
    BY <1>6 DEF Sends, AddFavorite, FollowPlaylist, Create, AppendEntry, Request
  <2> QED
    BY <1>1, <1>3, <1>6, <2>1, SendsAre DEF loop, Phases, Busy, Copying
<1>7. CASE Marks
  <2>1. pc' \in Phases
    BY <1>7, MarksAre DEF Phases, Busy, Copying
  <2>2. /\ queue # << >>
        /\ queue' = queue \/ queue' = Tail(queue)
        /\ existing' = existing
    BY <1>7 DEF Marks, SettleFavorite, Adopt, RefuseOrphan, StoreIntent,
       BaselineUnreadable, SettleCreation, Reconcile, Mismatch, ListUnreadable,
       SettleEntry, RefuseVideo, FailEntry, FinishPlaylist, FailPlaylist, Advance,
       Then, AtCreated, NotBegun, PhaseInv, Busy, Copying
  <2>3. /\ fresh' = fresh \/ fresh' = FALSE \/ fresh' = TRUE
        /\ answer' = answer \/ answer' = "done"
    BY <1>7 DEF Marks, SettleFavorite, Adopt, RefuseOrphan, StoreIntent,
       BaselineUnreadable, SettleCreation, Reconcile, Mismatch, ListUnreadable,
       SettleEntry, RefuseVideo, FailEntry, FinishPlaylist, FailPlaylist, Advance,
       Then
  <2>4. position' \in Nat
    <3>1. CASE Reconcile
      <4>1. Current \in Owned
        BY <3>1 DEF Reconcile, PhaseInv, Copying
      <4>2. Len(Listed) \in Nat
        BY DEF Contents, TypeInv, Lists
      <4> QED
        BY <3>1, <4>1, DueIs, MediaAre DEF Reconcile, Expected
    <3>2. CASE SettleEntry \/ RefuseVideo
      BY <1>1, <3>2 DEF SettleEntry, RefuseVideo
    <3>3. CASE ~Reconcile /\ ~SettleEntry /\ ~RefuseVideo
      BY <1>1, <1>7, <3>3 DEF Marks, SettleFavorite, Adopt, RefuseOrphan, StoreIntent,
         BaselineUnreadable, SettleCreation, Mismatch, ListUnreadable, FailEntry,
         FinishPlaylist, FailPlaylist, Advance, Then
    <3> QED
      BY <3>1, <3>2, <3>3
  <2> QED
    BY <1>1, <1>2, <1>3, <2>1, <2>2, <2>3, <2>4
<1>8. CASE Passes
  <2>1. pc' \in Phases
    BY <1>8, PassesAre DEF Phases, Busy, Copying
  <2>2. CASE ReadFavorites
    <3>1. Everything \in Seq(Tops)
      BY KindsAssumption DEF Everything, Tops
    <3> QED
      BY <1>1, <1>3, <2>1, <2>2, <3>1 DEF ReadFavorites
  <2>3. CASE OpenPlaylist \/ FinishRun
    BY <1>1, <1>3, <2>1, <2>3 DEF OpenPlaylist, FinishRun, loop
  <2>4. CASE SkipFavorite \/ SkipCompleted \/ Conflict
    <3>1. queue # << >> /\ Advance /\ existing' = existing
      BY <2>4 DEF SkipFavorite, SkipCompleted, Conflict, AtFavorite, AtCreated
    <3> QED
      BY <1>1, <1>2, <1>3, <2>1, <3>1 DEF Advance
  <2> QED
    BY <1>8, <2>2, <2>3, <2>4 DEF Passes
<1>9. CASE NoteFavorite
  BY <1>1, <1>2, <1>3, <1>9 DEF NoteFavorite, AtFavorite, Advance, Phases
<1>10. CASE OtherClient \/ UNCHANGED vars
  BY <1>1, <1>3, <1>10 DEF OtherClient, vars, loop
<1> QED
  BY <1>4, <1>5, <1>6, <1>7, <1>8, <1>9, <1>10, StepsAre

(* The report keeps its type.                                              *)
LEMMA ReportTypes ==
  ASSUME TypeInv, PhaseInv, [Next]_vars
  PROVE  report' \in [Buckets -> SUBSET Objects]
<1>1. report \in [Buckets -> SUBSET Objects]
  BY DEF TypeInv
<1>2. EmptyReport \in [Buckets -> SUBSET Objects]
  BY DEF EmptyReport
<1>3. \A b, o : o \in Objects /\ Report(b, o) => report' \in [Buckets -> SUBSET Objects]
  BY <1>1 DEF Report
<1>4. queue # << >> => Current \in Objects
  BY CurrentIs
<1>5. CASE Opens
  BY <1>2, <1>5 DEF Opens, Start, Resume, Begin
<1>6. CASE Leaves
  BY <1>2, <1>6, LeavesAre
<1>7. CASE Sends
  BY <1>1, <1>7, SendsAre
<1>8. CASE SettleEntry \/ RefuseVideo \/ FailEntry
  <2>1. <<Current, position>> \in Objects
    BY <1>8, EntryIs DEF SettleEntry, RefuseVideo, FailEntry, PhaseInv, Copying, TypeInv
  <2>2. CASE SettleEntry \/ RefuseVideo
    BY <1>3, <2>1, <2>2 DEF SettleEntry, RefuseVideo
  <2>3. CASE FailEntry
    <3>1. Current \in Objects
      BY <1>4, <2>3 DEF FailEntry, PhaseInv, Busy, Copying
    <3>2. PICK X \in SUBSET Objects, Y \in SUBSET Objects :
            report' = [report EXCEPT ![FailureBucket(answer)] = @ \cup X,
                                     !["ambiguous"] = @ \cup Y]
      <4> DEFINE status == IF fresh /\ answer = "lost" THEN "ambiguous"
                           ELSE FailureStatus(answer)
                 X == {<<Current, position>>} \cup
                        (IF status = "ambiguous" THEN {} ELSE {Current})
                 Y == IF status = "ambiguous" THEN {Current} ELSE {}
      <4>1. report' = [report EXCEPT ![FailureBucket(answer)] = @ \cup X,
                                     !["ambiguous"] = @ \cup Y]
        BY <2>3 DEF FailEntry
      <4>2. X \in SUBSET Objects /\ Y \in SUBSET Objects
        BY <2>1, <3>1
      <4> HIDE DEF X, Y
      <4> QED BY <4>1, <4>2
    <3> QED
      BY <1>1, <3>2
  <2> QED
    BY <1>8, <2>2, <2>3
<1>9. CASE Marks /\ ~SettleEntry /\ ~RefuseVideo /\ ~FailEntry
  <2>1. Current \in Objects
    BY <1>4, <1>9 DEF Marks, SettleFavorite, Adopt, RefuseOrphan, StoreIntent,
       BaselineUnreadable, SettleCreation, Reconcile, Mismatch, ListUnreadable,
       FinishPlaylist, AtCreated, NotBegun, PhaseInv, Busy, Copying
  <2>2. report' = report \/ \E b : Report(b, Current)
    BY <1>9 DEF Marks, SettleFavorite, Adopt, RefuseOrphan, StoreIntent,
       BaselineUnreadable, SettleCreation, Reconcile, Mismatch, ListUnreadable,
       FinishPlaylist, RecordFailure, FailPlaylist
  <2> QED
    BY <1>1, <1>3, <2>1, <2>2
<1>10. CASE Passes \/ NoteFavorite
  <2>1. report' = report \/ (queue # << >> /\ \E b : Report(b, Current))
    BY <1>10 DEF Passes, ReadFavorites, SkipFavorite, SkipCompleted, Conflict,
       OpenPlaylist, FinishRun, NoteFavorite, AtFavorite, AtCreated
  <2> QED
    BY <1>1, <1>3, <1>4, <2>1
<1>11. CASE OtherClient \/ UNCHANGED vars
  BY <1>1, <1>11 DEF OtherClient, vars
<1> QED
  BY <1>5, <1>6, <1>7, <1>8, <1>9, <1>10, <1>11, StepsAre DEF Marks

(* Types are kept by every step.                                           *)
LEMMA TypeStep ==
  ASSUME TypeInv, PhaseInv, [Next]_vars
  PROVE  TypeInv'
BY RemoteTypes, CheckpointTypes, LoopTypes, ReportTypes DEF TypeInv

(***************************************************************************)
(* What each step makes of the checkpoint                                  *)
(***************************************************************************)
(* t is s with another status of o.                                        *)
Becomes(s, t, o, status) ==
  /\ t.dest = s.dest /\ t.baseline = s.baseline
  /\ \A x \in Objects : t.status[x] = IF x = o THEN status ELSE s.status[x]

Failures == {"unavailable", "failed_retryable", "failed_permanent"}

(* A status that is set is the only difference it makes.                   *)
LEMMA MarkedBecomes ==
  ASSUME NEW s \in States, NEW o \in Objects
  PROVE  /\ \A status \in Statuses : Becomes(s, Marked(s, o, status), o, status)
         /\ \A kind : Becomes(s, Marked(s, o, FailureStatus(kind)), o, FailureStatus(kind))
<1>1. \A status \in Statuses : Becomes(s, Marked(s, o, status), o, status)
  BY MarkedIs DEF Becomes
<1>2. \A kind : FailureStatus(kind) \in Statuses
  BY FailuresAre DEF Statuses
<1> QED
  BY <1>1, <1>2

(* A run has a checkpoint in memory and one on disk.                       *)
LEMMA RunHolds ==
  ASSUME TypeInv, PhaseInv, pc \notin Idle
  PROVE  mem \in States /\ saved \in States
BY DEF PhaseInv

(* The end of a favourite: its status, and its place in the report.        *)
LEMMA SettleFavoriteIs ==
  ASSUME TypeInv, PhaseInv, SettleFavorite
  PROVE  /\ Current \in Favorites \cup Followed /\ pc' = "run"
         /\ \E status \in Failures \cup {"completed"} :
              /\ Becomes(mem, mem', Current, status)
              /\ \E b : /\ Report(b, Current)
                        /\ b = "unavailable" => status = "unavailable"
<1>1. Current \in Objects /\ mem \in States /\ pc = "settle"
  BY CurrentIs, RunHolds DEF SettleFavorite, PhaseInv, Busy, Idle
<1>2. CASE answer = "done"
  BY <1>1, <1>2, MarkedBecomes DEF SettleFavorite, Checkpoint, Advance, Statuses
<1>3. CASE answer # "done"
  <2>1. /\ mem' = Marked(mem, Current, FailureStatus(answer))
        /\ Report(FailureBucket(answer), Current)
    BY <1>3 DEF SettleFavorite, RecordFailure, Checkpoint
  <2>2. FailureBucket(answer) = "unavailable" => FailureStatus(answer) = "unavailable"
    BY DEF FailureBucket
  <2>3. FailureStatus(answer) \in Failures
    BY FailuresAre DEF Failures
  <2>4. Becomes(mem, mem', Current, FailureStatus(answer))
    BY <1>1, <2>1, MarkedBecomes
  <2> QED
    BY <2>1, <2>2, <2>3, <2>4 DEF SettleFavorite, Advance
<1> QED
  BY <1>2, <1>3

(* A failure before anything is sent.                                      *)
LEMMA RefusesAre ==
  ASSUME TypeInv, PhaseInv, RefuseOrphan \/ BaselineUnreadable
  PROVE  /\ Current \in Folders \cup Playlists /\ pc = "run" /\ pc' = "run" /\ fresh' = FALSE
         /\ mem.status[Current] \notin Tried
         /\ \E status \in Failures : Becomes(mem, mem', Current, status)
         /\ \E b : Report(b, Current)
<1>1. Current \in Objects /\ mem \in States /\ NotBegun /\ pc = "run"
  BY CurrentIs, RunHolds DEF RefuseOrphan, BaselineUnreadable, NotBegun, Idle
<1>2. RecordFailure(Current, "refused") /\ Advance
  BY DEF RefuseOrphan, BaselineUnreadable
<1>3. Becomes(mem, mem', Current, FailureStatus("refused"))
  BY <1>1, <1>2, MarkedBecomes DEF RecordFailure, Checkpoint
<1> QED
  BY <1>1, <1>2, <1>3, FailuresAre DEF NotBegun, Tried, RecordFailure, Advance, Failures

(* The adoption of the one new candidate.                                  *)
LEMMA AdoptIs ==
  ASSUME TypeInv, PhaseInv, Adopt
  PROVE  /\ Current \in Created /\ pc = "run" /\ Undecided
         /\ \E i \in Candidates(Current) \ mem.baseline[Current] :
              /\ Candidates(Current) \ mem.baseline[Current] = {i}
              /\ i \in DOMAIN made
              /\ mem'.baseline = mem.baseline
              /\ \A x \in Created : mem'.dest[x] = IF x = Current THEN i ELSE mem.dest[x]
              /\ \A x \in Objects : mem'.status[x] =
                   IF x # Current THEN mem.status[x]
                   ELSE IF Current \in Folders THEN "completed" ELSE "pending"
         /\ \/ Current \in Folders /\ pc' = "run" /\ fresh' = FALSE
            \/ Current \in Owned /\ pc' = "list" /\ UNCHANGED <<queue, fresh>>
         /\ report' = report \/ \E b : Report(b, Current)
<1>1. /\ Current \in Objects /\ Current \in Created /\ mem \in States /\ pc = "run"
      /\ Undecided
  BY CurrentIs, RunHolds DEF Adopt, AtCreated, Idle
<1> DEFINE status == IF Current \in Folders THEN "completed" ELSE "pending"
<1>2. PICK i \in Candidates(Current) \ mem.baseline[Current] :
        /\ Candidates(Current) \ mem.baseline[Current] = {i}
        /\ mem' = [Marked(mem, Current, status) EXCEPT !.dest[Current] = i]
  BY DEF Adopt, Checkpoint
<1>3. i \in DOMAIN made /\ i \in Nat
  BY <1>2, CandidatesAre
<1>4. status \in Statuses
  BY DEF Statuses
<1>5. /\ Marked(mem, Current, status) \in States
      /\ Becomes(mem, Marked(mem, Current, status), Current, status)
  <2> HIDE DEF status
  <2> QED BY <1>1, <1>4, MarkedBecomes, MarkedStates
<1>6. /\ mem'.baseline = mem.baseline
      /\ \A x \in Created : mem'.dest[x] = IF x = Current THEN i ELSE mem.dest[x]
      /\ \A x \in Objects : mem'.status[x] = IF x # Current THEN mem.status[x] ELSE status
  <2> HIDE DEF status
  <2> QED BY <1>1, <1>2, <1>3, <1>5, DestIs DEF Becomes
<1>7. /\ \/ Current \in Folders /\ pc' = "run" /\ fresh' = FALSE
         \/ Current \in Owned /\ pc' = "list" /\ UNCHANGED <<queue, fresh>>
      /\ report' = report \/ \E b : Report(b, Current)
  BY <1>1, Kinds DEF Adopt, Advance, Then
<1> QED
  BY <1>1, <1>2, <1>3, <1>6, <1>7

(* The intent of a creation, with its baseline.                            *)
LEMMA StoreIntentIs ==
  ASSUME TypeInv, PhaseInv, StoreIntent
  PROVE  /\ Current \in Created /\ pc = "run" /\ pc' = "create"
         /\ mem.status[Current] \notin Tried
         /\ Creates(Current)
         /\ mem'.dest = mem.dest
         /\ \A x \in Created : mem'.baseline[x] = IF x = Current THEN Candidates(Current)
                                                  ELSE mem.baseline[x]
         /\ \A x \in Objects : mem'.status[x] = IF x = Current THEN "creating"
                                                ELSE mem.status[x]
         /\ UNCHANGED <<queue, report>>
<1>1. /\ Current \in Objects /\ Current \in Created /\ mem \in States /\ pc = "run"
      /\ mem.status[Current] \notin Tried /\ Creates(Current)
  BY CurrentIs, RunHolds DEF StoreIntent, NotBegun, Creates, Idle, Tried
<1>2. mem' = [Marked(mem, Current, "creating")
               EXCEPT !.baseline[Current] = Candidates(Current)]
  BY DEF StoreIntent, Checkpoint
<1>3. /\ Marked(mem, Current, "creating") \in States
      /\ Becomes(mem, Marked(mem, Current, "creating"), Current, "creating")
  BY <1>1, MarkedBecomes, MarkedStates DEF Statuses
<1>4. /\ mem'.dest = mem.dest
      /\ \A x \in Created : mem'.baseline[x] = IF x = Current THEN Candidates(Current)
                                               ELSE mem.baseline[x]
      /\ \A x \in Objects : mem'.status[x] = IF x = Current THEN "creating"
                                             ELSE mem.status[x]
  BY <1>1, <1>2, <1>3, CandidatesAre, BaselineIs DEF Becomes
<1> QED
  BY <1>1, <1>4 DEF StoreIntent

(* The identifier that a creation returns, when it was sent once.          *)
LEMMA SettleCreationIs ==
  ASSUME TypeInv, PhaseInv, SettleCreation
  PROVE  /\ Current \in Created /\ pc = "settle"
         /\ answer = "done" =>
              /\ mem'.baseline = mem.baseline
              /\ \E i \in DOMAIN made :
                   /\ made[i].by = Current
                   /\ \A x \in Created : mem'.dest[x] = IF x = Current THEN i ELSE mem.dest[x]
              /\ \A x \in Objects : mem'.status[x] =
                   IF x # Current THEN mem.status[x]
                   ELSE IF Current \in Folders THEN "completed" ELSE "creating"
              /\ \/ Current \in Folders /\ pc' = "run" /\ fresh' = FALSE
                 \/ Current \in Owned /\ pc' = "list" /\ UNCHANGED <<queue, fresh>>
              /\ report' = report \/ \E b : Report(b, Current)
         /\ answer # "done" =>
              /\ pc' = "run" /\ fresh' = FALSE
              /\ \E status \in Failures \cup {"ambiguous"} :
                   /\ Becomes(mem, mem', Current, status)
                   /\ status = "ambiguous" <=> answer = "lost"
              /\ \E b : Report(b, Current)
<1>1. /\ Current \in Objects /\ Current \in Created /\ mem \in States /\ pc = "settle"
  BY CurrentIs, RunHolds DEF SettleCreation, PhaseInv, Busy, Idle
<1>2. ASSUME answer = "done"
      PROVE  /\ mem'.baseline = mem.baseline
             /\ \E i \in DOMAIN made :
                  /\ made[i].by = Current
                  /\ \A x \in Created : mem'.dest[x] = IF x = Current THEN i ELSE mem.dest[x]
             /\ \A x \in Objects : mem'.status[x] =
                  IF x # Current THEN mem.status[x]
                  ELSE IF Current \in Folders THEN "completed" ELSE "creating"
             /\ \/ Current \in Folders /\ pc' = "run" /\ fresh' = FALSE
                \/ Current \in Owned /\ pc' = "list" /\ UNCHANGED <<queue, fresh>>
             /\ report' = report \/ \E b : Report(b, Current)
  <2> DEFINE S == {i \in DOMAIN made : made[i].by = Current}
             status == IF Current \in Folders THEN "completed" ELSE "creating"
  <2>1. S \subseteq 1 .. Len(made) /\ Len(made) \in Nat
    BY DEF TypeInv
  <2>2. S # {}
    BY <1>1, <1>2 DEF PhaseInv, Sent
  <2>3. Max(S) \in S
    <3> HIDE DEF S
    <3> QED BY <2>1, <2>2, MaxIs
  <2>4. mem' = [Marked(mem, Current, status) EXCEPT !.dest[Current] = Max(S)]
    BY <1>2 DEF SettleCreation, Checkpoint
  <2> DEFINE i == Max(S)
  <2>5. i \in DOMAIN made /\ made[i].by = Current /\ i \in Nat
    BY <2>1, <2>3
  <2>6. status \in Statuses
    BY DEF Statuses
  <2>7. /\ Marked(mem, Current, status) \in States
        /\ Becomes(mem, Marked(mem, Current, status), Current, status)
    <3> HIDE DEF status
    <3> QED BY <1>1, <2>6, MarkedBecomes, MarkedStates
  <2>8. /\ mem'.baseline = mem.baseline
        /\ \A x \in Created : mem'.dest[x] = IF x = Current THEN i ELSE mem.dest[x]
        /\ \A x \in Objects : mem'.status[x] = IF x # Current THEN mem.status[x] ELSE status
    <3> HIDE DEF status, S
    <3> QED BY <1>1, <2>4, <2>5, <2>7, DestIs DEF Becomes
  <2>9. /\ \/ Current \in Folders /\ pc' = "run" /\ fresh' = FALSE
           \/ Current \in Owned /\ pc' = "list" /\ UNCHANGED <<queue, fresh>>
        /\ report' = report \/ \E b : Report(b, Current)
    BY <1>1, <1>2, Kinds DEF SettleCreation, Advance, Then
  <2> HIDE DEF i
  <2> QED
    BY <2>5, <2>8, <2>9
<1>3. ASSUME answer # "done"
      PROVE  /\ pc' = "run" /\ fresh' = FALSE
             /\ \E status \in Failures \cup {"ambiguous"} :
                  /\ Becomes(mem, mem', Current, status)
                  /\ status = "ambiguous" <=> answer = "lost"
             /\ \E b : Report(b, Current)
  <2>1. CASE answer = "lost"
    <3>1. Becomes(mem, mem', Current, "ambiguous")
      BY <1>1, <2>1, MarkedBecomes DEF SettleCreation, Checkpoint, Statuses
    <3> QED
      BY <2>1, <3>1 DEF SettleCreation, Advance
  <2>2. CASE answer # "lost"
    <3>1. RecordFailure(Current, answer) /\ Advance
      BY <1>3, <2>2 DEF SettleCreation
    <3>2. Becomes(mem, mem', Current, FailureStatus(answer))
      BY <1>1, <3>1, MarkedBecomes DEF RecordFailure, Checkpoint
    <3>3. FailureStatus(answer) \in Failures /\ FailureStatus(answer) # "ambiguous"
      BY FailuresAre DEF Failures
    <3> QED
      BY <2>2, <3>1, <3>2, <3>3 DEF RecordFailure, Advance
  <2> QED
    BY <2>1, <2>2
<1> QED
  BY <1>1, <1>2, <1>3

(* The end of a playlist, by its outcome.                                  *)
LEMMA PlaylistEnds ==
  ASSUME TypeInv, PhaseInv, Mismatch \/ ListUnreadable \/ FinishPlaylist
  PROVE  /\ Current \in Owned /\ pc \in Copying /\ pc' = "run" /\ fresh' = FALSE
         /\ \E status \in Failures \cup {"ambiguous", "completed"} :
              /\ Becomes(mem, mem', Current, status)
              /\ status = "ambiguous" => fresh
              /\ status = "completed" => FinishPlaylist
         /\ \E b : Report(b, Current)
<1>1. /\ Current \in Objects /\ Current \in Owned /\ mem \in States /\ pc \in Copying
  BY CurrentIs, RunHolds
     DEF Mismatch, ListUnreadable, FinishPlaylist, PhaseInv, Busy, Copying, Idle
<1>2. CASE FinishPlaylist
  <2>1. Becomes(mem, mem', Current, "completed")
    BY <1>1, <1>2, MarkedBecomes DEF FinishPlaylist, Checkpoint, Statuses
  <2> QED
    BY <1>1, <1>2, <2>1 DEF FinishPlaylist, Advance
<1>3. CASE Mismatch \/ ListUnreadable
  <2>1. PICK kind : FailPlaylist(mem, kind)
    BY <1>3 DEF Mismatch, ListUnreadable
  <2> DEFINE status == IF fresh /\ kind = "lost" THEN "ambiguous" ELSE FailureStatus(kind)
  <2>2. /\ mem' = Marked(mem, Current, status)
        /\ \E b : Report(b, Current)
        /\ pc' = "run" /\ fresh' = FALSE
    BY <2>1 DEF FailPlaylist, Checkpoint, Advance
  <2>3. status \in Failures \cup {"ambiguous"} /\ (status = "ambiguous" => fresh)
    BY FailuresAre DEF Failures
  <2>4. status \in Statuses /\ status # "completed"
    BY FailuresAre DEF Statuses
  <2> HIDE DEF status
  <2>5. Becomes(mem, mem', Current, status)
    BY <1>1, <2>2, <2>4, MarkedBecomes
  <2> QED
    BY <1>1, <2>2, <2>3, <2>4, <2>5
<1> QED
  BY <1>2, <1>3

(* What is read back marks entries that are due, and nothing else.         *)
LEMMA ReconcileIs ==
  ASSUME TypeInv, PhaseInv, Reconcile
  PROVE  /\ Current \in Owned /\ pc = "list" /\ pc' = "entries"
         /\ UNCHANGED <<queue, fresh, report>>
         /\ mem'.dest = mem.dest /\ mem'.baseline = mem.baseline
         /\ \A x \in Tops : mem'.status[x] = mem.status[x]
         /\ \A p \in Owned : \A k \in DOMAIN Media[p] :
              \/ mem'.status[<<p, k>>] = mem.status[<<p, k>>]
              \/ /\ mem'.status[<<p, k>>] = "completed" /\ p = Current
                 /\ \E n \in DOMAIN Due(p) : Due(p)[n] = k
<1>1. /\ Current \in Owned /\ mem \in States /\ pc = "list" /\ pc' = "entries"
      /\ UNCHANGED <<queue, fresh, report>> /\ Matches
  BY RunHolds DEF Reconcile, PhaseInv, Copying, Idle
<1> DEFINE status == [o \in Objects |->
             IF \E k \in DOMAIN Listed : o = <<Current, Expected[k]>>
               THEN "completed" ELSE mem.status[o]]
<1>2. mem' = [mem EXCEPT !.status = status]
  BY DEF Reconcile, Checkpoint
<1>3. mem'.dest = mem.dest /\ mem'.baseline = mem.baseline /\ mem'.status = status
  <2> HIDE DEF status
  <2> QED BY <1>1, <1>2 DEF States
<1>4. \A k \in DOMAIN Listed : /\ k \in DOMAIN Due(Current)
                               /\ <<Current, Expected[k]>> \in Entries
  <2>1. Len(Listed) <= Len(Expected) /\ Len(Listed) \in Nat
        /\ DOMAIN Listed = 1 .. Len(Listed)
    BY <1>1 DEF Matches, Contents, TypeInv, Lists
  <2>2. DOMAIN Listed \subseteq DOMAIN Due(Current)
    BY <1>1, <2>1, DueIs DEF Expected
  <2> QED
    BY <1>1, <2>1, <2>2, DueIs, EntriesAre, MediaAre DEF Expected
<1>5. ASSUME NEW x \in Tops PROVE mem'.status[x] = mem.status[x]
  <2>1. x \in Objects /\ x \notin Entries
    BY Kinds
  <2> QED
    BY <1>3, <1>4, <2>1
<1>6. ASSUME NEW p \in Owned, NEW k \in DOMAIN Media[p]
      PROVE  \/ mem'.status[<<p, k>>] = mem.status[<<p, k>>]
             \/ /\ mem'.status[<<p, k>>] = "completed" /\ p = Current
                /\ \E n \in DOMAIN Due(p) : Due(p)[n] = k
  <2>1. <<p, k>> \in Objects
    BY EntriesAre, Kinds
  <2>2. mem'.status[<<p, k>>] = IF \E n \in DOMAIN Listed : <<p, k>> = <<Current, Expected[n]>>
                                  THEN "completed" ELSE mem.status[<<p, k>>]
    BY <1>3, <2>1
  <2> QED
    BY <1>4, <2>2 DEF Expected
<1> QED
  BY <1>1, <1>3, <1>5, <1>6

(* The end of an entry that does not end its playlist.                     *)
LEMMA EntryMarks ==
  ASSUME TypeInv, PhaseInv, SettleEntry \/ RefuseVideo
  PROVE  /\ Current \in Owned /\ pc \in {"entries", "entry"} /\ pc' = "entries"
         /\ position >= 1 /\ position <= Len(Media[Current])
         /\ <<Current, position>> \in Entries
         /\ UNCHANGED <<remote, queue, fresh>> /\ position' = position + 1
         /\ \E b : Report(b, <<Current, position>>)
         /\ \/ SettleEntry /\ answer = "done" /\ mem' = mem
            \/ SettleEntry /\ answer = "gone"
               /\ Becomes(mem, mem', <<Current, position>>, "unavailable")
            \/ RefuseVideo /\ Becomes(mem, mem', <<Current, position>>, "unsupported")
<1>1. /\ Current \in Owned /\ mem \in States /\ pc \in {"entries", "entry"}
      /\ position >= 1 /\ position <= Len(Media[Current]) /\ position \in Nat
  BY RunHolds DEF SettleEntry, RefuseVideo, PhaseInv, Copying, Idle, TypeInv
<1>2. <<Current, position>> \in Objects /\ <<Current, position>> \in Entries
  BY <1>1, EntryIs
<1>3. \A st \in Statuses : Becomes(mem, Marked(mem, <<Current, position>>, st),
                                   <<Current, position>>, st)
  BY <1>1, <1>2, MarkedBecomes
<1>4. "unavailable" \in Statuses /\ "unsupported" \in Statuses
  BY DEF Statuses
<1>5. CASE SettleEntry
  BY <1>1, <1>2, <1>3, <1>4, <1>5 DEF SettleEntry, Checkpoint
<1>6. CASE RefuseVideo
  BY <1>1, <1>2, <1>3, <1>4, <1>6 DEF RefuseVideo, Checkpoint
<1> QED
  BY <1>5, <1>6

(* The end of an entry that ends its playlist too.                         *)
LEMMA FailEntryIs ==
  ASSUME TypeInv, PhaseInv, FailEntry
  PROVE  /\ Current \in Owned /\ pc = "entry" /\ pc' = "run" /\ fresh' = FALSE
         /\ <<Current, position>> \in Entries
         /\ answer \notin {"done", "gone"}
         /\ mem'.dest = mem.dest /\ mem'.baseline = mem.baseline
         /\ mem'.status[Current] \in Failures \cup {"ambiguous"}
         /\ \E status \in Failures \cup {"ambiguous"}, state \in States :
              /\ Becomes(mem, state, <<Current, position>>, FailureStatus(answer))
              /\ Becomes(state, mem', Current, status)
              /\ status = "ambiguous" => fresh
         /\ mem'.status[<<Current, position>>] = FailureStatus(answer)
         /\ \A x \in Objects : x # Current /\ x # <<Current, position>> =>
              mem'.status[x] = mem.status[x]
         /\ \A b \in Buckets : report'[b] \subseteq
              report[b] \cup {Current, <<Current, position>>}
<1>1. /\ Current \in Owned /\ mem \in States /\ pc = "entry" /\ pc' = "run" /\ fresh' = FALSE
      /\ position >= 1 /\ position <= Len(Media[Current]) /\ position \in Nat
      /\ Current \in Objects /\ answer \notin {"done", "gone"}
  BY RunHolds, CurrentIs DEF FailEntry, PhaseInv, Busy, Copying, Idle, TypeInv, Advance
<1>2. <<Current, position>> \in Objects /\ <<Current, position>> \in Entries
  BY <1>1, EntryIs
<1> DEFINE state == Marked(mem, <<Current, position>>, FailureStatus(answer))
           status == IF fresh /\ answer = "lost" THEN "ambiguous" ELSE FailureStatus(answer)
<1>3. mem' = Marked(state, Current, status)
  BY DEF FailEntry, Checkpoint
<1>4. status \in Failures \cup {"ambiguous"} /\ (status = "ambiguous" => fresh)
  BY FailuresAre DEF Failures
<1>5. status \in Statuses
  BY FailuresAre DEF Statuses
<1>6. state \in States /\ Becomes(mem, state, <<Current, position>>, FailureStatus(answer))
  BY <1>1, <1>2, MarkedStates, MarkedBecomes
<1>7. \A b \in Buckets : report'[b] \subseteq report[b] \cup {Current, <<Current, position>>}
  <2>1. PICK X \in SUBSET {Current, <<Current, position>>},
             Y \in SUBSET {Current, <<Current, position>>} :
          report' = [report EXCEPT ![FailureBucket(answer)] = @ \cup X,
                                   !["ambiguous"] = @ \cup Y]
    <3> DEFINE X == {<<Current, position>>} \cup
                      (IF status = "ambiguous" THEN {} ELSE {Current})
               Y == IF status = "ambiguous" THEN {Current} ELSE {}
    <3>1. report' = [report EXCEPT ![FailureBucket(answer)] = @ \cup X,
                                   !["ambiguous"] = @ \cup Y]
      BY DEF FailEntry
    <3>2. /\ X \in SUBSET {Current, <<Current, position>>}
          /\ Y \in SUBSET {Current, <<Current, position>>}
      OBVIOUS
    <3> HIDE DEF X, Y
    <3> QED BY <3>1, <3>2
  <2>2. DOMAIN report = Buckets
    BY DEF TypeInv
  <2> QED
    BY <2>1, <2>2
<1> HIDE DEF state, status
<1>8. Becomes(state, mem', Current, status)
  BY <1>1, <1>3, <1>5, <1>6, MarkedBecomes
<1>9. Current # <<Current, position>>
  BY <1>1, <1>2, Kinds
<1>10. /\ mem'.dest = mem.dest /\ mem'.baseline = mem.baseline
       /\ mem'.status[Current] = status
       /\ mem'.status[<<Current, position>>] = FailureStatus(answer)
       /\ \A x \in Objects : x # Current /\ x # <<Current, position>> =>
            mem'.status[x] = mem.status[x]
  BY <1>1, <1>2, <1>6, <1>8, <1>9 DEF Becomes
<1> QED
  BY <1>1, <1>2, <1>4, <1>6, <1>7, <1>8, <1>10

(***************************************************************************)
(* Where the process is                                                    *)
(***************************************************************************)
(* What was sent stays sent.                                               *)
LEMMA SentStays ==
  ASSUME TypeInv, PhaseInv, [Next]_vars, NEW c, Sent(c, made)
  PROVE  Sent(c, made')
<1>1. made \in Seq(Lists) /\ \E i \in DOMAIN made : made[i].by = c
  BY DEF TypeInv, Sent
<1>2. \A l : DOMAIN made \subseteq DOMAIN Append(made, l)
             /\ \A i \in DOMAIN made : Append(made, l)[i] = made[i]
  BY <1>1
<1>3. CASE AddFavorite \/ FollowPlaylist \/ (~Sends /\ ~OtherClient)
  BY <1>1, <1>3, RemoteKept DEF AddFavorite, FollowPlaylist, remote, Sent
<1>4. CASE Create
  BY <1>1, <1>2, <1>4, CreateIs DEF Sent
<1>5. CASE AppendEntry
  <2>1. CASE made' = made
    BY <1>1, <2>1 DEF Sent
  <2>2. CASE made' = Longer
    <3>1. /\ Len(Longer) = Len(made) /\ Longer \in Seq(Lists)
          /\ \A i \in DOMAIN made : Longer[i].by = made[i].by
      BY <1>5, AppendIs, LongerIs
    <3>2. DOMAIN Longer = DOMAIN made
      BY <1>1, <3>1
    <3> QED
      BY <1>1, <2>2, <3>1, <3>2 DEF Sent
  <2> QED
    BY <1>5, <2>1, <2>2, AppendIs
<1>6. CASE OtherClient
  BY <1>1, <1>2, <1>6, OtherIs DEF Sent
<1> QED
  BY <1>3, <1>4, <1>5, <1>6 DEF Sends

(* Every step leaves each point of the program what it needs.              *)
LEMMA PhaseStep ==
  ASSUME TypeInv, PhaseInv, [Next]_vars
  PROVE  PhaseInv'
<1>1. pc' \notin Idle => mem' \in States /\ saved' \in States
  BY CheckpointTypes
<1> DEFINE Rest ==
      /\ pc' \in Busy => queue' # << >>
      /\ pc' = "create" => Head(queue') \in Created
      /\ pc' = "settle" =>
           /\ Head(queue') \in Favorites \cup Followed \cup Created
           /\ Head(queue') \in Created /\ answer' = "done" => Sent(Head(queue'), made')
           /\ Head(queue') \in Favorites => mem'.status[Head(queue')] \notin Barred
      /\ pc' \in Copying => Head(queue') \in Owned
      /\ pc' \in {"entries", "entry"} => position' >= 1
      /\ pc' = "entry" => position' <= Len(Media[Head(queue')])
<1>2. ASSUME pc' \in Idle \cup {"read", "run", "verify"} PROVE Rest
  BY <1>2 DEF Idle, Busy, Copying
<1>3. CASE Opens \/ Leaves \/ NoteFavorite
  <2>1. pc' \in Idle \cup {"read", "run", "verify"}
    BY <1>3, LeavesAre DEF Opens, Start, Resume, Begin, NoteFavorite, Advance
  <2> QED
    BY <1>1, <1>2, <2>1 DEF PhaseInv, Current
<1>4. CASE AddFavorite \/ FollowPlaylist
  <2>1. /\ pc' = "settle" /\ queue' = queue /\ queue # << >> /\ mem' = mem
        /\ Current \in Favorites \cup Followed
        /\ Current \in Favorites => mem.status[Current] \notin Barred
    BY <1>4, Kinds
       DEF AddFavorite, FollowPlaylist, Request, AtFavorite, NotBegun, loop
  <2> QED
    BY <1>1, <2>1, Kinds DEF PhaseInv, Current, Busy, Copying
<1>5. CASE Create
  <2>1. /\ pc' = "settle" /\ queue' = queue /\ mem' = mem /\ queue # << >>
        /\ Current \in Created
    BY <1>5, CreateIs DEF PhaseInv, loop, Busy
  <2>2. answer' = "done" => Sent(Current, made')
    <3>1. made \in Seq(Lists)
      BY DEF TypeInv
    <3>2. /\ DOMAIN Append(made, NewList) = 1 .. Len(made) + 1 /\ Len(made) \in Nat
          /\ Append(made, NewList)[Len(made) + 1] = NewList
      BY <3>1
    <3>3. Sent(Current, Append(made, NewList))
      BY <3>2 DEF Sent, NewList
    <3> QED
      BY <1>5, <3>3, CreateIs
  <2> QED
    BY <1>1, <2>1, <2>2, Kinds DEF PhaseInv, Current, Busy, Copying
<1>6. CASE AppendEntry
  <2>1. /\ pc' = "entry" /\ queue' = queue /\ position' = position /\ queue # << >>
        /\ Current \in Owned /\ position >= 1 /\ position <= Len(Media[Current])
    BY <1>6, AppendIs DEF PhaseInv, loop, Busy, Copying
  <2> QED
    BY <1>1, <2>1 DEF PhaseInv, Current, Busy, Copying
<1>7. CASE ReadFavorites \/ SkipFavorite \/ SkipCompleted \/ Conflict \/ FinishRun
  <2>1. pc' \in {"run", "verify"}
    BY <1>7 DEF ReadFavorites, SkipFavorite, SkipCompleted, Conflict, FinishRun, Advance
  <2> QED
    BY <1>1, <1>2, <2>1 DEF PhaseInv, Current
<1>8. CASE OpenPlaylist
  BY <1>1, <1>8 DEF OpenPlaylist, NotBegun, PhaseInv, Current, Busy, Copying, loop
<1>9. CASE StoreIntent
  <2>1. Current \in Created /\ pc' = "create" /\ queue' = queue /\ queue # << >>
    BY <1>9, StoreIntentIs DEF StoreIntent, NotBegun
  <2> QED
    BY <1>1, <2>1 DEF PhaseInv, Current, Busy, Copying
<1>10. CASE Adopt \/ SettleCreation
  <2>1. /\ pc' = "run" \/ (Current \in Owned /\ pc' = "list" /\ UNCHANGED queue)
        /\ queue # << >>
    BY <1>10, AdoptIs, SettleCreationIs DEF Adopt, AtCreated, SettleCreation, PhaseInv, Busy
  <2> QED
    BY <1>1, <1>2, <2>1 DEF PhaseInv, Current, Busy, Copying
<1>11. CASE Reconcile
  <2>1. /\ Current \in Owned /\ pc' = "entries" /\ queue' = queue /\ queue # << >>
    BY <1>11, ReconcileIs DEF Reconcile, PhaseInv, Busy, Copying
  <2>2. position' >= 1
    <3>1. Len(Listed) \in Nat
      BY DEF Contents, TypeInv, Lists
    <3> QED
      BY <1>11, <2>1, <3>1, DueIs, MediaAre DEF Reconcile, Expected
  <2> QED
    BY <1>1, <2>1, <2>2 DEF PhaseInv, Current, Busy, Copying
<1>12. CASE SettleEntry \/ RefuseVideo
  <2>1. /\ Current \in Owned /\ pc' = "entries" /\ queue' = queue /\ queue # << >>
        /\ position' >= 1
    BY <1>12, EntryMarks DEF PhaseInv, Busy, Copying, TypeInv
  <2> QED
    BY <1>1, <2>1 DEF PhaseInv, Current, Busy, Copying
<1>13. CASE SettleFavorite \/ RefuseOrphan \/ BaselineUnreadable \/ Mismatch
              \/ ListUnreadable \/ FinishPlaylist \/ FailEntry
  <2>1. pc' = "run"
    BY <1>13, SettleFavoriteIs, RefusesAre, PlaylistEnds, FailEntryIs
  <2> QED
    BY <1>1, <1>2, <2>1 DEF PhaseInv, Current
<1>14. CASE OtherClient \/ UNCHANGED vars
  <2>1. UNCHANGED <<mem, pc, loop, answer>>
    BY <1>14, OtherIs DEF vars
  <2>2. \A c : Sent(c, made) => Sent(c, made')
    BY SentStays
  <2> QED
    BY <1>1, <2>1, <2>2 DEF PhaseInv, Current, loop
<1> QED
  BY <1>3, <1>4, <1>5, <1>6, <1>7, <1>8, <1>9, <1>10, <1>11, <1>12, <1>13, <1>14,
     StepsAre DEF Sends, Passes, Marks

(* Only an entry is ever recorded as unsupported.                          *)
LEMMA MarksKeepSupported ==
  ASSUME TypeInv, PhaseInv, Marks, Supported(mem)
  PROVE  Supported(mem')
<1>1. Tops \subseteq Objects /\ \A x \in Tops : x \notin Entries
  BY Kinds
<1>2. \A status \in Failures \cup {"ambiguous", "completed"} :
        Becomes(mem, mem', Current, status) => Supported(mem')
  BY <1>1 DEF Becomes, Supported, Failures
<1>3. CASE SettleFavorite \/ RefuseOrphan \/ BaselineUnreadable \/ Mismatch
             \/ ListUnreadable \/ FinishPlaylist
  BY <1>2, <1>3, SettleFavoriteIs, RefusesAre, PlaylistEnds
<1>4. CASE Adopt
  BY <1>1, <1>4, AdoptIs DEF Supported
<1>5. CASE StoreIntent
  BY <1>1, <1>5, StoreIntentIs DEF Supported
<1>6. CASE SettleCreation
  <2>1. CASE answer = "done"
    BY <1>1, <1>6, <2>1, SettleCreationIs DEF Supported
  <2>2. CASE answer # "done"
    BY <1>2, <1>6, <2>2, SettleCreationIs
  <2> QED
    BY <2>1, <2>2
<1>7. CASE Reconcile
  BY <1>7, ReconcileIs DEF Supported
<1>8. CASE SettleEntry \/ RefuseVideo
  BY <1>1, <1>8, EntryMarks DEF Supported, Becomes
<1>9. CASE FailEntry
  BY <1>1, <1>9, FailEntryIs DEF Supported, Failures
<1> QED
  BY <1>3, <1>4, <1>5, <1>6, <1>7, <1>8, <1>9 DEF Marks

(* Only the steps of a favourite change its status or report it.           *)
LEMMA FavoritesKept ==
  ASSUME TypeInv, PhaseInv, Marks, ~SettleFavorite, NEW o \in Favorites
  PROVE  /\ mem'.status[o] = mem.status[o]
         /\ o \in report'["unavailable"] => o \in report["unavailable"]
<1>1. o \in Objects /\ o \notin Entries /\ o \notin Created /\ o \in Tops
      /\ o \notin Folders \cup Playlists /\ Owned \subseteq Created
  BY Kinds, KindsAssumption
<1>2. \A x, b : x # o /\ Report(b, x) =>
        (o \in report'["unavailable"] => o \in report["unavailable"])
  BY DEF Report, TypeInv, Buckets, Limited
<1>3. CASE RefuseOrphan \/ BaselineUnreadable \/ Mismatch
             \/ ListUnreadable \/ FinishPlaylist
  <2>1. /\ Current # o /\ \E status : Becomes(mem, mem', Current, status)
        /\ \E b : Report(b, Current)
    BY <1>1, <1>3, RefusesAre, PlaylistEnds
  <2> QED
    BY <1>1, <1>2, <2>1 DEF Becomes
<1>4. CASE Adopt
  BY <1>1, <1>2, <1>4, AdoptIs
<1>5. CASE StoreIntent
  BY <1>1, <1>5, StoreIntentIs
<1>6. CASE SettleCreation
  <2>1. Current # o
    BY <1>1, <1>6, SettleCreationIs
  <2>2. CASE answer = "done"
    BY <1>1, <1>2, <1>6, <2>1, <2>2, SettleCreationIs
  <2>3. CASE answer # "done"
    BY <1>1, <1>2, <1>6, <2>1, <2>3, SettleCreationIs DEF Becomes
  <2> QED
    BY <2>2, <2>3
<1>7. CASE Reconcile
  BY <1>1, <1>7, ReconcileIs
<1>8. CASE SettleEntry \/ RefuseVideo
  <2>1. <<Current, position>> # o /\ \E b : Report(b, <<Current, position>>)
    BY <1>1, <1>8, EntryMarks
  <2>2. mem'.status[o] = mem.status[o]
    BY <1>1, <1>8, <2>1, EntryMarks DEF Becomes
  <2> QED
    BY <1>2, <2>1, <2>2
<1>9. CASE FailEntry
  <2>1. Current # o /\ <<Current, position>> # o /\ "unavailable" \in Buckets
    BY <1>1, <1>9, FailEntryIs DEF Buckets, Limited
  <2>2. report'["unavailable"] \subseteq report["unavailable"] \cup {Current, <<Current, position>>}
    BY <1>9, <2>1, FailEntryIs
  <2> QED
    BY <1>1, <1>9, <2>1, <2>2, FailEntryIs
<1> QED
  BY <1>3, <1>4, <1>5, <1>6, <1>7, <1>8, <1>9 DEF Marks

(* The report stays true to the checkpoint.                                *)
LEMMA ReportStep ==
  ASSUME TypeInv, PhaseInv, ReportInv, [Next]_vars
  PROVE  ReportInv'
<1> DEFINE Right == pc' \notin Idle => \A o \in Favorites :
                      o \in report'["unavailable"] => mem'.status[o] = "unavailable"
<1>1. /\ pc \notin Idle => Supported(mem) /\ Supported(saved)
      /\ saved \in States => Supported(saved)
      /\ pc \notin Idle => \A o \in Favorites :
           o \in report["unavailable"] => mem.status[o] = "unavailable"
  BY DEF ReportInv
<1>2. "unavailable" \in Buckets
  BY DEF Buckets, Limited
<1>3. \A o \in Favorites : o \in Objects /\ o \notin Created
  BY Kinds
<1>4. CASE Opens
  <2>1. Supported(Fresh)
    BY FreshIs, Kinds DEF Supported
  <2>2. mem' = saved' /\ (saved' = Fresh \/ (saved' = saved /\ saved # NoState))
        /\ report' = EmptyReport
    BY <1>4 DEF Opens, Start, Resume, Begin, Checkpoint
  <2>3. saved # NoState => saved \in States
    BY DEF TypeInv
  <2> QED
    BY <1>1, <1>2, <2>1, <2>2, <2>3 DEF ReportInv, EmptyReport
<1>5. CASE Leaves
  <2>1. pc' \in Idle /\ pc \notin Idle
    BY <1>5, LeavesAre
  <2>2. saved' \in States => Supported(saved')
    <3>1. CASE saved' = NoState /\ saved' \in States
      <4>1. NoState.status = << >> /\ NoState \in States
        BY <3>1 DEF NoState
      <4>2. Objects = {}
        <5>1. DOMAIN NoState.status = Objects
          BY <4>1 DEF States
        <5> QED
          BY <4>1, <5>1
      <4> QED
        BY <4>2, Kinds DEF Supported
    <3> QED
      BY <1>1, <1>5, <2>1, <3>1, LeavesAre
  <2> QED
    BY <2>1, <2>2 DEF ReportInv
<1>6. CASE Sends
  BY <1>1, <1>6, SendsAre DEF ReportInv, Idle
<1>7. CASE Marks
  <2>1. pc \notin Idle /\ saved' = mem' /\ Supported(mem')
    BY <1>1, <1>7, MarksAre, MarksKeepSupported
  <2>2. Right
    <3>1. CASE SettleFavorite
      <4>1. PICK status, b :
              /\ status \in Failures \cup {"completed"}
              /\ Becomes(mem, mem', Current, status)
              /\ Report(b, Current)
              /\ b = "unavailable" => status = "unavailable"
        BY <3>1, SettleFavoriteIs
      <4>2. Current \in Favorites => mem.status[Current] # "unavailable"
        BY <3>1 DEF SettleFavorite, PhaseInv, Barred, Limited
      <4>3. \A o \in Favorites : o \in report'["unavailable"] =>
              o \in report["unavailable"] \/ (o = Current /\ b = "unavailable")
        BY <1>2, <4>1 DEF Report, TypeInv
      <4> QED
        BY <1>1, <1>3, <2>1, <4>1, <4>2, <4>3 DEF Becomes
    <3>2. CASE ~SettleFavorite
      BY <1>1, <1>7, <2>1, <3>2, FavoritesKept
    <3> QED
      BY <3>1, <3>2
  <2> QED
    BY <2>1, <2>2 DEF ReportInv
<1>8. CASE Passes
  <2>1. UNCHANGED <<mem, saved>> /\ pc \notin Idle
    BY <1>8, PassesAre
  <2>2. report' = report \/ \E b :
          /\ Report(b, Current)
          /\ Current \in Favorites /\ b = "unavailable" => mem.status[Current] = "unavailable"
    <3>1. CASE SkipFavorite
      <4>1. Report(IF mem.status[Current] \in Barred THEN mem.status[Current]
                   ELSE "skipped", Current)
        BY <3>1 DEF SkipFavorite
      <4> QED
        BY <4>1
    <3>2. CASE SkipCompleted \/ Conflict
      <4>1. Current \notin Favorites /\ \E b : Report(b, Current)
        BY <3>2, KindsAssumption, Kinds DEF SkipCompleted, Conflict, AtCreated
      <4> QED
        BY <4>1
    <3>3. CASE ReadFavorites \/ OpenPlaylist \/ FinishRun
      BY <3>3 DEF ReadFavorites, OpenPlaylist, FinishRun
    <3> QED
      BY <1>8, <3>1, <3>2, <3>3 DEF Passes
  <2>3. Right
    BY <1>1, <1>2, <2>1, <2>2 DEF Report, TypeInv
  <2> QED
    BY <1>1, <2>1, <2>3 DEF ReportInv
<1>9. CASE NoteFavorite
  <2>1. /\ Current \in Favorites /\ mem' = Marked(mem, Current, "already_present")
        /\ Report("skipped", Current) /\ saved' = saved /\ pc \notin Idle
        /\ mem.status[Current] # "unavailable"
    BY <1>9 DEF NoteFavorite, AtFavorite, Idle, Barred, Limited
  <2>2. Becomes(mem, mem', Current, "already_present")
    BY <1>3, <2>1, RunHolds, MarkedBecomes DEF Statuses
  <2>3. Supported(mem')
    BY <1>1, <2>1, <2>2, Kinds DEF Becomes, Supported
  <2>4. Right
    BY <1>1, <1>2, <1>3, <2>1, <2>2 DEF Becomes, Report, TypeInv
  <2> QED
    BY <1>1, <2>1, <2>3, <2>4 DEF ReportInv
<1>10. CASE OtherClient \/ UNCHANGED vars
  BY <1>1, <1>10 DEF OtherClient, vars, ReportInv
<1> QED
  BY <1>4, <1>5, <1>6, <1>7, <1>8, <1>9, <1>10, StepsAre

(* The first state.                                                        *)
LEMMA BaseInit ==
  ASSUME Init
  PROVE  BaseInv
<1>1. TypeInv
  <2>1. report \in [Buckets -> SUBSET Objects]
    BY DEF Init, EmptyReport
  <2>2. made \in Seq(Lists) /\ queue \in Seq(Tops)
    BY DEF Init
  <2>3. favorites \in SUBSET (Favorites \cup Followed) /\ existing \in SUBSET Favorites
    BY DEF Init
  <2>4. pc \in Phases /\ saved = NoState /\ mem = NoState /\ fresh \in BOOLEAN
        /\ position \in Nat /\ answer = "done" /\ stops \in Nat /\ changes \in Nat
    BY DEF Init, Phases, Idle
  <2> QED
    BY <2>1, <2>2, <2>3, <2>4 DEF TypeInv
<1>2. PhaseInv
  BY DEF Init, PhaseInv, Idle, Busy, Copying
<1>3. NoState \in States => Supported(NoState)
  <2>1. ASSUME NoState \in States PROVE Objects = {}
    <3>1. DOMAIN NoState.status = Objects /\ NoState.status = << >>
      BY <2>1 DEF States, NoState
    <3> QED
      BY <3>1
  <2> QED
    BY <2>1, Kinds DEF Supported
<1>4. ReportInv
  BY <1>3 DEF Init, ReportInv, Idle
<1> QED
  BY <1>1, <1>2, <1>4 DEF BaseInv

(* Every step keeps the types, the phases and the report.                  *)
LEMMA BaseStep ==
  ASSUME BaseInv, [Next]_vars
  PROVE  BaseInv'
BY TypeStep, PhaseStep, ReportStep DEF BaseInv

(* Memory, disk and account keep their types, and the process is where its *)
(* data says it is: for every snapshot and any way a request can end.      *)
THEOREM BaseHolds == Spec => []BaseInv
<1>1. Init => BaseInv
  BY BaseInit
<1>2. BaseInv /\ [Next]_vars => BaseInv'
  BY BaseStep
<1> QED
  BY <1>1, <1>2, PTL DEF Spec

(***************************************************************************)
(* When the checkpoint goes                                                *)
(***************************************************************************)
DueIn(s, p) == {k \in DOMAIN Media[p] : s.status[<<p, k>>] \notin Barred}

(* Sets that a function pairs one to one are of one size.                  *)
LEMMA SameSize ==
  ASSUME NEW S, NEW T, IsFiniteSet(S), NEW g \in [S -> T],
         \A a, b \in S : g[a] = g[b] => a = b,
         \A t \in T : \E a \in S : g[a] = t
  PROVE  IsFiniteSet(T) /\ Cardinality(T) = Cardinality(S)
<1>1. ExistsBijection(S, T)
  BY DEF ExistsBijection, Bijection, Injection, Surjection, IsInjective
<1> QED
  BY <1>1, FS_Bijection

(* A list without repetition has as many elements as there are in it.      *)
LEMMA SizeOfList ==
  ASSUME NEW n \in Nat, NEW T, NEW g \in [1 .. n -> T],
         \A a, b \in 1 .. n : g[a] = g[b] => a = b,
         \A t \in T : \E a \in 1 .. n : g[a] = t
  PROVE  IsFiniteSet(T) /\ Cardinality(T) = n
<1>1. ExistsBijection(1 .. n, T)
  BY DEF ExistsBijection, Bijection, Injection, Surjection, IsInjective
<1> QED
  BY <1>1, FS_CountingElements, FS_NatBijection

(* Due lists the positions that are due, in their order, each once.        *)
LEMMA DueLists ==
  ASSUME NEW p \in Owned
  PROVE  /\ Len(Due(p)) \in Nat /\ DOMAIN Due(p) = 1 .. Len(Due(p))
         /\ \A k \in 1 .. Len(Due(p)) : Due(p)[k] \in DueIn(mem, p)
         /\ \A j, k \in 1 .. Len(Due(p)) : j < k => Due(p)[j] < Due(p)[k]
         /\ \A m \in DueIn(mem, p) : \E k \in 1 .. Len(Due(p)) : Due(p)[k] = m
<1> DEFINE s == [k \in DOMAIN Media[p] |-> k]
           S == DueIn(mem, p)
           t == Due(p)
<1>1. s \in Seq(1 .. Len(Media[p])) /\ Len(s) = Len(Media[p])
  BY MediaAre
<1>2. \A k \in 1 .. Len(Media[p]) : s[k] = k
  BY MediaAre
<1>3. t = Sublist(s, S)
  BY DEF Due, DueIn
<1>4. S \subseteq 1 .. Len(Media[p]) /\ Len(Media[p]) \in Nat
  BY MediaAre DEF DueIn
<1> HIDE DEF s, S, t
<1>5. t \in Seq(1 .. Len(Media[p])) /\ \E at : Places(t, s, S, Len(s), at)
  BY <1>1, <1>3, SublistPlaces
<1>6. PICK at : Places(t, s, S, Len(s), at)
  BY <1>5
<1>7. \A k \in 1 .. Len(t) : at[k] \in 1 .. Len(Media[p]) /\ t[k] = at[k] /\ t[k] \in S
  BY <1>1, <1>2, <1>6 DEF Places
<1>8. ASSUME NEW j \in 1 .. Len(t), NEW k \in 1 .. Len(t), j < k
      PROVE  t[j] < t[k]
  <2>1. Len(t) \in Nat /\ Len(Media[p]) \in Nat
    BY <1>4, <1>5
  <2>2. at[j] + (k - j) <= at[k]
    BY <1>6, <1>8, <2>1 DEF Places
  <2>3. at[j] \in Nat /\ at[k] \in Nat /\ t[j] = at[j] /\ t[k] = at[k]
    BY <1>7, <2>1
  <2> QED
    BY <1>8, <2>1, <2>2, <2>3
<1>9. ASSUME NEW m \in S PROVE \E k \in 1 .. Len(t) : t[k] = m
  BY <1>1, <1>2, <1>4, <1>6, <1>7, <1>9 DEF Places
<1>10. Len(t) \in Nat /\ DOMAIN t = 1 .. Len(t)
  BY <1>5
<1> QED
  BY <1>7, <1>8, <1>9, <1>10 DEF S, t

(* The list of what is due is as long as there are entries due.            *)
LEMMA DueCounts ==
  ASSUME NEW p \in Owned
  PROVE  Cardinality(DueIn(mem, p)) = Len(Due(p))
<1>1. /\ Len(Due(p)) \in Nat /\ DOMAIN Due(p) = 1 .. Len(Due(p))
      /\ \A k \in 1 .. Len(Due(p)) : Due(p)[k] \in DueIn(mem, p)
      /\ \A j, k \in 1 .. Len(Due(p)) : j < k => Due(p)[j] < Due(p)[k]
      /\ \A m \in DueIn(mem, p) : \E k \in 1 .. Len(Due(p)) : Due(p)[k] = m
  BY DueLists
<1>2. \A m \in DueIn(mem, p) : m \in Nat
  BY MediaAre DEF DueIn
<1> DEFINE g == [k \in 1 .. Len(Due(p)) |-> Due(p)[k]]
<1>3. g \in [1 .. Len(Due(p)) -> DueIn(mem, p)]
  BY <1>1
<1>4. \A a, b \in 1 .. Len(Due(p)) : g[a] = g[b] => a = b
  BY <1>1, <1>2
<1>5. \A m \in DueIn(mem, p) : \E a \in 1 .. Len(Due(p)) : g[a] = m
  BY <1>1
<1> QED
  <2> HIDE DEF g
  <2> QED BY <1>1, <1>3, <1>4, <1>5, SizeOfList

(* With the checkpoint the process forgets what there was to do; the list  *)
(* of a playlist is then as long as its entries are many.                  *)
LEMMA ClearStep ==
  ASSUME BaseInv, [Next]_vars, saved # NoState, saved' = NoState
  PROVE  /\ \A f \in Favorites : f \in favorites \/ mem.status[f] = "unavailable"
         /\ \A p \in Followed :
              p \in favorites \/ mem.status[p] = "unavailable"
         /\ \A c \in Created :
              mem.dest[c] # 0 \/ mem.status[c] = "unavailable"
         /\ \A p \in Owned : mem.dest[p] # 0 =>
              Len(made[mem.dest[p]].items)
                = Cardinality({k \in DOMAIN Media[p] :
                                 mem.status[<<p, k>>] \notin Barred})
<1>1. CASE Objects = {}
  BY <1>1, Kinds
<1>2. CASE Objects # {}
  <2>1. NoState \notin States
    <3>1. NoState \in States => Objects = {}
      <4>1. NoState \in States => DOMAIN NoState.status = Objects
        BY DEF States
      <4> QED
        BY <4>1 DEF NoState
    <3> QED
      BY <1>2, <3>1
  <2>2. pc' \in Idle
    BY <2>1, CheckpointTypes DEF BaseInv
  <2>3. Verify
    <3>1. CASE Opens \/ Sends \/ Marks \/ Passes \/ NoteFavorite \/ OtherClient
                 \/ UNCHANGED vars
      <4>1. CASE OtherClient \/ UNCHANGED vars
        BY <4>1 DEF OtherClient, vars
      <4>2. CASE Opens
        BY <2>2, <4>2 DEF Opens, Start, Resume, Begin, Idle
      <4>3. CASE Sends \/ Marks \/ Passes \/ NoteFavorite
        BY <2>2, <4>3, SendsAre, MarksAre, PassesAre
           DEF NoteFavorite, AtFavorite, Advance, Idle
      <4> QED
        BY <3>1, <4>1, <4>2, <4>3
    <3>2. CASE Leaves
      <4>1. pc \notin Idle => mem # NoState
        BY <2>1, RunHolds DEF BaseInv
      <4> QED
        BY <3>2, <4>1
           DEF Leaves, ReadFails, CandidatesUnreadable, Verify, VerifyUnreadable,
               Interrupt, Crash, Abort, Stopped, Complete, Idle
    <3> QED
      BY <3>1, <3>2, StepsAre
  <2>4. /\ pc = "verify" /\ report["failed"] = {}
        /\ Verdict \in {"clean", "completed_with_expected_limitations"}
    BY <2>3 DEF Verify, Complete
  <2>5. /\ FavoritesMissing = {} /\ report["failed_permanent"] = {}
        /\ \A p \in Playlists : Excused(p) \/ PlaylistVerified(p)
        /\ \A f \in Folders : Excused(f) \/ FolderVerified(f)
    BY <2>4 DEF Verdict
  <2>6. /\ Supported(mem)
        /\ \A o \in Favorites : o \in report["unavailable"] => mem.status[o] = "unavailable"
    BY <2>4 DEF BaseInv, ReportInv, Idle
  <2>7. \A f \in Favorites : f \in favorites \/ mem.status[f] = "unavailable"
    BY <2>4, <2>5, <2>6 DEF FavoritesMissing
  <2>8. \A c : c \in Tops /\ Excused(c) => mem.status[c] = "unavailable"
    BY <2>6 DEF Excused, Supported, Limited
  <2>9. \A p \in Followed : p \in favorites \/ mem.status[p] = "unavailable"
    BY <2>5, <2>8, SnapshotAssumption, Kinds DEF PlaylistVerified
  <2>10. \A c \in Created : mem.dest[c] # 0 \/ mem.status[c] = "unavailable"
    BY <2>5, <2>8, Kinds DEF PlaylistVerified, FolderVerified, Owned
  <2>11. ASSUME NEW p \in Owned, mem.dest[p] # 0
         PROVE  Len(made[mem.dest[p]].items) = Cardinality(DueIn(mem, p))
    <3>1. PlaylistVerified(p)
      BY <2>5, <2>11, Kinds DEF Excused, Owned
    <3>2. p \notin Followed
      BY DEF Owned
    <3>3. Contents(mem.dest[p]) = [k \in DOMAIN Due(p) |-> Media[p][Due(p)[k]]]
      BY <3>1, <3>2 DEF PlaylistVerified
    <3>4. DOMAIN made[mem.dest[p]].items = DOMAIN Due(p)
      BY <3>3 DEF Contents
    <3> QED
      BY <3>4, DueLists, DueCounts
  <2> QED
    BY <2>7, <2>9, <2>10, <2>11 DEF DueIn
<1> QED
  BY <1>1, <1>2

(* The checkpoint only goes when the account holds what the snapshot has,  *)
(* less what is recorded as unavailable and, of the entries of playlists,  *)
(* as unsupported or failed for good: in every snapshot, however requests  *)
(* end (verification.py:58-74, 186, menu.py:607-611).                      *)
THEOREM CheckpointGoesLast == Spec => ClearedWhenComplete
<1>1. BaseInv /\ [Next]_vars =>
        (saved # NoState /\ saved' = NoState =>
           /\ \A f \in Favorites : f \in favorites \/ mem.status[f] = "unavailable"
           /\ \A p \in Followed :
                p \in favorites \/ mem.status[p] = "unavailable"
           /\ \A c \in Created :
                mem.dest[c] # 0 \/ mem.status[c] = "unavailable"
           /\ \A p \in Owned : mem.dest[p] # 0 =>
                Len(made[mem.dest[p]].items)
                  = Cardinality({k \in DOMAIN Media[p] :
                                   mem.status[<<p, k>>] \notin Barred}))
  BY ClearStep
<1> QED
  BY <1>1, BaseHolds, PTL DEF Spec, ClearedWhenComplete

(***************************************************************************)
(* What a checkpoint knows of the folders and playlists made from it       *)
(***************************************************************************)

(* A creation that was sent shows in the checkpoint: its intent, its       *)
(* completion, or the identifier it returned.                              *)
Remembers(s, m) ==
  \A c \in Created : Sent(c, m) =>
    \/ s.status[c] \in Tried
    \/ c \in Owned /\ s.dest[c] # 0

Once(m) ==
  \A i, j \in DOMAIN m : m[i].by = m[j].by /\ i # j => m[i].by = Root

CreationInv ==
  /\ Once(made)
  /\ pc # "done" /\ (\E c \in Created : Sent(c, made)) => saved \in States
  /\ pc # "done" /\ saved \in States => Remembers(saved, made)
  /\ pc \notin Idle => Remembers(mem, made)
  /\ pc \in {"create", "settle", "entries", "entry", "read"} => saved = mem
  /\ pc = "create" => mem.status[Current] = "creating" /\ ~Sent(Current, made)
  /\ pc = "settle" /\ Current \in Created =>
       /\ mem.status[Current] = "creating"
       /\ answer \in {"refused", "gone"} => ~Sent(Current, made)
  /\ pc \in Copying => mem.dest[Current] # 0

(* A missing checkpoint is not taken for one, if anything is transferred.  *)
LEMMA NoStateIs ==
  Objects # {} => NoState \notin States
<1>1. NoState \in States => DOMAIN NoState.status = Objects
  BY DEF States
<1> QED
  BY <1>1 DEF NoState

(* Folders and own playlists are objects at the head of the queue.         *)
LEMMA CreatedAre ==
  /\ \A c \in Created : c \in Objects /\ c \in Tops /\ c \notin Entries
  /\ Owned \subseteq Created
BY Kinds

(* No step of a run forgets a creation that was sent.                      *)
LEMMA MarksRemember ==
  ASSUME TypeInv, PhaseInv, CreationInv, Marks, "garbled" \notin Answers
  PROVE  Remembers(mem', made)
<1>1. Remembers(mem, made) /\ pc \notin Idle
  BY MarksAre DEF CreationInv
<1>2. ASSUME \A c \in Created : c # Current =>
               mem'.status[c] = mem.status[c] /\ mem'.dest[c] = mem.dest[c],
             Current \in Created /\ Sent(Current, made) =>
               \/ mem'.status[Current] \in Tried
               \/ Current \in Owned /\ mem'.dest[Current] # 0
      PROVE  Remembers(mem', made)
  BY <1>1, <1>2 DEF Remembers
<1>3. ASSUME NEW status, Becomes(mem, mem', Current, status),
             Current \in Created /\ Sent(Current, made) =>
               status \in Tried \/ (Current \in Owned /\ mem.dest[Current] # 0)
      PROVE  Remembers(mem', made)
  BY <1>2, <1>3, CreatedAre DEF Becomes
<1>4. CASE SettleFavorite
  <2>1. Current \notin Created /\ \E status : Becomes(mem, mem', Current, status)
    BY <1>4, Kinds, SettleFavoriteIs
  <2> QED
    BY <1>3, <2>1
<1>5. CASE RefuseOrphan \/ BaselineUnreadable
  <2>1. Current \in Created /\ Sent(Current, made) =>
          Current \in Owned /\ mem.dest[Current] # 0
    BY <1>1, <1>5, RefusesAre DEF Remembers
  <2>2. \E status : Becomes(mem, mem', Current, status)
    BY <1>5, RefusesAre
  <2> QED
    BY <1>3, <2>1, <2>2
<1>6. CASE Adopt
  <2>1. PICK i \in DOMAIN made :
          \A x \in Created : mem'.dest[x] = IF x = Current THEN i ELSE mem.dest[x]
    BY <1>6, AdoptIs
  <2>2. i # 0
    BY DEF TypeInv
  <2>3. /\ \A c \in Created : c # Current =>
             mem'.status[c] = mem.status[c] /\ mem'.dest[c] = mem.dest[c]
        /\ mem'.dest[Current] # 0
        /\ Current \in Folders => mem'.status[Current] = "completed"
        /\ Current \in Created
    BY <1>6, <2>1, <2>2, AdoptIs, CreatedAre
  <2> QED
    BY <1>2, <2>3, Kinds DEF Tried
<1>7. CASE StoreIntent
  <2>1. /\ \A c \in Created : c # Current =>
             mem'.status[c] = mem.status[c] /\ mem'.dest[c] = mem.dest[c]
        /\ mem'.status[Current] = "creating"
    BY <1>7, StoreIntentIs, CreatedAre
  <2> QED
    BY <1>2, <2>1 DEF Tried
<1>8. CASE SettleCreation
  <2>1. CASE answer = "done"
    <3>1. /\ \A c \in Created : c # Current =>
               mem'.status[c] = mem.status[c] /\ mem'.dest[c] = mem.dest[c]
          /\ mem'.status[Current] \in Tried
      BY <1>8, <2>1, SettleCreationIs, CreatedAre DEF Tried
    <3> QED
      BY <1>2, <3>1
  <2>2. CASE answer # "done"
    <3>1. PICK status \in Failures \cup {"ambiguous"} :
            /\ Becomes(mem, mem', Current, status)
            /\ status = "ambiguous" <=> answer = "lost"
      BY <1>8, <2>2, SettleCreationIs
    <3>2. answer = "lost" => status \in Tried
      BY <3>1 DEF Tried
    <3>3. answer # "lost" => answer \in {"refused", "gone"}
      BY <2>2, AnswerAssumption DEF TypeInv, AnswerKinds
    <3>4. answer # "lost" => ~Sent(Current, made)
      BY <1>8, <3>3, SettleCreationIs DEF CreationInv
    <3> QED
      BY <1>3, <3>1, <3>2, <3>4
  <2> QED
    BY <2>1, <2>2
<1>9. CASE Mismatch \/ ListUnreadable \/ FinishPlaylist
  <2>1. Current \in Owned /\ mem.dest[Current] # 0
    BY <1>9, PlaylistEnds DEF CreationInv
  <2>2. \E status : Becomes(mem, mem', Current, status)
    BY <1>9, PlaylistEnds
  <2> QED
    BY <1>3, <2>1, <2>2
<1>10. CASE Reconcile
  BY <1>1, <1>10, ReconcileIs, CreatedAre DEF Remembers
<1>11. CASE SettleEntry \/ RefuseVideo
  <2>1. \A c \in Created : mem'.status[c] = mem.status[c] /\ mem'.dest[c] = mem.dest[c]
    BY <1>11, EntryMarks, CreatedAre DEF Becomes
  <2> QED
    BY <1>1, <2>1 DEF Remembers
<1>12. CASE FailEntry
  <2>1. Current \in Owned /\ mem.dest[Current] # 0
    BY <1>12, FailEntryIs DEF CreationInv, Copying
  <2>2. \A c \in Created : c # Current => mem'.status[c] = mem.status[c]
    BY <1>12, FailEntryIs, CreatedAre
  <2>3. mem'.dest = mem.dest
    BY <1>12, FailEntryIs
  <2> QED
    BY <1>2, <2>1, <2>2, <2>3
<1> QED
  BY <1>4, <1>5, <1>6, <1>7, <1>8, <1>9, <1>10, <1>11, <1>12 DEF Marks

(* A creation is sent when none was: the list that it makes is the first.  *)
LEMMA AppendedOnce ==
  ASSUME NEW m \in Seq(Lists), NEW l \in Lists, Once(m),
         l.by # Root => ~Sent(l.by, m)
  PROVE  /\ Once(Append(m, l))
         /\ \A c : Sent(c, Append(m, l)) <=> Sent(c, m) \/ c = l.by
<1>1. /\ Len(m) \in Nat /\ DOMAIN m = 1 .. Len(m)
      /\ DOMAIN Append(m, l) = 1 .. Len(m) + 1
      /\ \A i \in 1 .. Len(m) : Append(m, l)[i] = m[i]
      /\ Append(m, l)[Len(m) + 1] = l
  OBVIOUS
<1> DEFINE n == Append(m, l)
<1> HIDE DEF n
<1>2. \A i \in DOMAIN n : i \in DOMAIN m \/ i = Len(m) + 1
  BY <1>1 DEF n
<1>3. Once(n)
  BY <1>1, <1>2 DEF Once, Sent, n
<1>4. \A c : Sent(c, n) <=> Sent(c, m) \/ c = l.by
  BY <1>1, <1>2 DEF Sent, n
<1> QED
  BY <1>3, <1>4 DEF n

(* An append creates no list.                                              *)
LEMMA LongerSends ==
  ASSUME TypeInv, PhaseInv, AppendEntry
  PROVE  /\ Once(made) => Once(made')
         /\ \A c : Sent(c, made') <=> Sent(c, made)
<1>1. CASE made' = made
  BY <1>1
<1>2. CASE made' = Longer
  <2>1. /\ Len(Longer) = Len(made) /\ Longer \in Seq(Lists) /\ made \in Seq(Lists)
        /\ \A i \in DOMAIN made : Longer[i].by = made[i].by
    BY AppendIs, LongerIs DEF TypeInv
  <2>2. DOMAIN Longer = DOMAIN made
    BY <2>1
  <2> QED
    BY <1>2, <2>1, <2>2 DEF Once, Sent
<1> QED
  BY <1>1, <1>2, AppendIs

(* Every step keeps what a checkpoint knows of the creations.              *)
LEMMA CreationStep ==
  ASSUME BaseInv, CreationInv, [Next]_vars, "garbled" \notin Answers
  PROVE  CreationInv'
<1>1. /\ TypeInv /\ PhaseInv
      /\ Once(made)
      /\ pc # "done" /\ (\E c \in Created : Sent(c, made)) => saved \in States
      /\ pc # "done" /\ saved \in States => Remembers(saved, made)
      /\ pc \notin Idle => Remembers(mem, made)
      /\ pc \in {"create", "settle", "entries", "entry", "read"} => saved = mem
      /\ pc = "create" => mem.status[Current] = "creating" /\ ~Sent(Current, made)
      /\ pc = "settle" /\ Current \in Created =>
           /\ mem.status[Current] = "creating"
           /\ answer \in {"refused", "gone"} => ~Sent(Current, made)
      /\ pc \in Copying => mem.dest[Current] # 0
  BY DEF BaseInv, CreationInv
<1>2. pc \notin Idle => mem \in States /\ saved \in States
  BY <1>1, RunHolds
<1>3. (\E c \in Created : Sent(c, made)) => Objects # {}
  BY CreatedAre
<1>4. CASE Opens
  <2>1. /\ pc = "menu" /\ pc' = "read" /\ mem' = saved' /\ made' = made
        /\ (saved = NoState /\ saved' = Fresh) \/ saved' = saved
    BY <1>4 DEF Opens, Start, Resume, Begin, Checkpoint, remote
  <2>2. saved' \in States
    BY <1>1, <2>1, CheckpointTypes DEF Idle
  <2>3. Remembers(saved', made)
    <3>1. CASE saved' = saved
      BY <1>1, <2>1, <2>2, <3>1
    <3>2. CASE saved = NoState
      <4>1. ~\E c \in Created : Sent(c, made)
        BY <1>1, <1>3, <2>1, <3>2, NoStateIs
      <4> QED
        BY <4>1 DEF Remembers
    <3> QED
      BY <2>1, <3>1, <3>2
  <2> QED
    BY <1>1, <2>1, <2>2, <2>3 DEF CreationInv, Idle, Copying
<1>5. CASE Leaves
  <2>1. /\ pc' \in Idle /\ made' = made /\ pc \notin Idle
        /\ saved' = saved \/ saved' = mem \/ pc' = "done"
    BY <1>5, LeavesAre DEF remote
  <2>2. pc # "done"
    BY <2>1 DEF Idle
  <2> QED
    BY <1>1, <1>2, <2>1, <2>2 DEF CreationInv, Idle, Copying
<1>6. CASE AddFavorite \/ FollowPlaylist
  <2>1. /\ made' = made /\ mem' = mem /\ saved' = mem /\ queue' = queue /\ pc' = "settle"
        /\ pc = "run" /\ Current \notin Created
    BY <1>6, Kinds DEF AddFavorite, FollowPlaylist, Request, AtFavorite, NotBegun, loop
  <2> QED
    BY <1>1, <1>2, <2>1 DEF CreationInv, Idle, Copying, Current
<1>7. CASE Create
  <2>1. /\ pc = "create" /\ pc' = "settle" /\ saved' = saved /\ mem' = mem
        /\ queue' = queue /\ Current \in Created /\ NewList \in Lists
        /\ made' = Append(made, NewList) \/ made' = made
        /\ answer' \in {"refused", "gone"} => made' = made
    BY <1>1, <1>7, CreateIs, NewListIs DEF loop
  <2>2. /\ Once(made')
        /\ \A c : Sent(c, made') => Sent(c, made) \/ c = Current
    <3>1. made \in Seq(Lists) /\ NewList.by = Current
      BY <1>1 DEF TypeInv, NewList
    <3> QED
      BY <1>1, <2>1, <3>1, AppendedOnce
  <2>3. Remembers(mem, made')
    BY <1>1, <2>1, <2>2 DEF Remembers, Idle, Tried
  <2>4. mem \in States /\ saved = mem
    BY <1>1, <1>2, <2>1 DEF Idle
  <2> QED
    BY <1>1, <2>1, <2>2, <2>3, <2>4 DEF CreationInv, Idle, Copying, Current
<1>8. CASE AppendEntry
  <2>1. /\ pc = "entries" /\ pc' = "entry" /\ saved' = mem /\ mem' = mem /\ queue' = queue
    BY <1>8, AppendIs DEF loop
  <2>2. /\ Once(made') /\ \A c : Sent(c, made') <=> Sent(c, made)
    BY <1>1, <1>8, LongerSends
  <2>3. Remembers(mem, made')
    BY <1>1, <2>1, <2>2 DEF Remembers, Idle
  <2>4. mem \in States
    BY <1>2, <2>1 DEF Idle
  <2> QED
    BY <1>1, <2>1, <2>2, <2>3, <2>4 DEF CreationInv, Idle, Copying, Current
<1>9. CASE Marks
  <2>1. /\ Remembers(mem', made) /\ mem' \in States /\ saved' = mem' /\ made' = made
        /\ pc' \in {"run", "create", "list", "entries"}
    BY <1>1, <1>9, MarksRemember, MarksTypes, MarksAre DEF remote
  <2>2. pc' = "create" => mem'.status[Current'] = "creating" /\ ~Sent(Current', made)
    <3>1. ASSUME pc' = "create" PROVE StoreIntent
      BY <1>1, <1>9, <3>1, SettleFavoriteIs, RefusesAre, AdoptIs, SettleCreationIs,
         PlaylistEnds, ReconcileIs, EntryMarks, FailEntryIs DEF Marks
    <3>2. ASSUME StoreIntent
          PROVE  mem'.status[Current'] = "creating" /\ ~Sent(Current', made)
      <4>1. /\ Current \in Created /\ pc = "run" /\ mem.status[Current] \notin Tried
            /\ Creates(Current) /\ mem'.status[Current] = "creating" /\ queue' = queue
        BY <1>1, <3>2, StoreIntentIs, CreatedAre
      <4>2. ~Sent(Current, made)
        BY <1>1, <4>1 DEF Remembers, Creates, Idle
      <4> QED
        BY <4>1, <4>2 DEF Current
    <3> QED
      BY <3>1, <3>2
  <2>3. pc' \in {"list", "entries"} => mem'.dest[Current'] # 0
    <3>1. CASE Adopt
      <4>1. PICK i \in DOMAIN made :
              \A x \in Created : mem'.dest[x] = IF x = Current THEN i ELSE mem.dest[x]
        BY <1>1, <3>1, AdoptIs
      <4>2. i # 0
        BY <1>1 DEF TypeInv
      <4> QED
        BY <1>1, <3>1, <4>1, <4>2, AdoptIs DEF Current
    <3>2. CASE SettleCreation
      <4>1. CASE answer = "done"
        <5>1. PICK i \in DOMAIN made :
                \A x \in Created : mem'.dest[x] = IF x = Current THEN i ELSE mem.dest[x]
          BY <1>1, <3>2, <4>1, SettleCreationIs
        <5>2. i # 0
          BY <1>1 DEF TypeInv
        <5> QED
          BY <1>1, <3>2, <4>1, <5>1, <5>2, SettleCreationIs DEF Current
      <4>2. CASE answer # "done"
        BY <1>1, <3>2, <4>2, SettleCreationIs
      <4> QED
        BY <4>1, <4>2
    <3>3. CASE Reconcile
      BY <1>1, <3>3, ReconcileIs DEF Current, Copying
    <3>4. CASE SettleEntry \/ RefuseVideo
      <4>1. mem'.dest = mem.dest
        BY <1>1, <3>4, EntryMarks DEF Becomes
      <4> QED
        BY <1>1, <3>4, <4>1, EntryMarks DEF Current, Copying
    <3>5. CASE StoreIntent
      BY <1>1, <3>5, StoreIntentIs
    <3>6. CASE SettleFavorite \/ RefuseOrphan \/ BaselineUnreadable \/ Mismatch
                 \/ ListUnreadable \/ FinishPlaylist \/ FailEntry
      BY <1>1, <3>6, SettleFavoriteIs, RefusesAre, PlaylistEnds, FailEntryIs
    <3> QED
      BY <1>9, <3>1, <3>2, <3>3, <3>4, <3>5, <3>6 DEF Marks
  <2> QED
    BY <1>1, <2>1, <2>2, <2>3 DEF CreationInv, Idle, Copying
<1>10. CASE Passes
  <2>1. /\ UNCHANGED <<made, mem, saved>> /\ pc \notin Idle
        /\ pc' \in {"run", "list", "verify"}
    BY <1>10, PassesAre DEF remote
  <2>2. pc' = "list" => mem'.dest[Current'] # 0
    <3>1. CASE OpenPlaylist
      BY <3>1 DEF OpenPlaylist, Current, loop
    <3>2. CASE ~OpenPlaylist
      BY <1>10, <3>2 DEF Passes, ReadFavorites, SkipFavorite, SkipCompleted, Conflict,
         FinishRun, Advance
    <3> QED
      BY <3>1, <3>2
  <2> QED
    BY <1>1, <1>2, <2>1, <2>2 DEF CreationInv, Idle, Copying
<1>11. CASE NoteFavorite
  <2>1. /\ made' = made /\ saved' = saved /\ pc' = "run" /\ pc = "run"
        /\ Current \in Favorites /\ mem' = Marked(mem, Current, "already_present")
    BY <1>11 DEF NoteFavorite, AtFavorite, Advance, remote
  <2>2. Becomes(mem, mem', Current, "already_present")
    BY <1>2, <2>1, Kinds, MarkedBecomes DEF Statuses, Idle
  <2>3. Remembers(mem', made)
    BY <1>1, <2>1, <2>2, Kinds, CreatedAre DEF Remembers, Becomes, Idle
  <2> QED
    BY <1>1, <2>1, <2>3 DEF CreationInv, Idle, Copying
<1>12. CASE OtherClient
  <2>1. /\ UNCHANGED <<saved, mem, pc, queue, answer>>
    BY <1>12, OtherIs DEF loop
  <2>2. /\ Once(made') /\ \A c \in Created : Sent(c, made') <=> Sent(c, made)
    <3>1. CASE made' = made
      BY <1>1, <3>1
    <3>2. CASE \E c \in Created : \E at \in PlacesOf(c), items \in {<< >>} \cup OneOf(c) :
                 made' = Append(made, Others(c, at, items))
      <4>1. PICK l \in Lists : made' = Append(made, l) /\ l.by = Root
        <5>1. PICK c \in Created : \E at \in PlacesOf(c), items \in {<< >>} \cup OneOf(c) :
                made' = Append(made, Others(c, at, items))
          BY <3>2
        <5>2. PICK at \in PlacesOf(c), items \in {<< >>} \cup OneOf(c) :
                made' = Append(made, Others(c, at, items))
          BY <5>1
        <5> QED
          BY <1>1, <5>2, OthersAre DEF Others
      <4>2. made \in Seq(Lists)
        BY <1>1 DEF TypeInv
      <4> QED
        BY <1>1, <4>1, <4>2, AppendedOnce, Kinds
    <3> QED
      BY <1>12, <3>1, <3>2, OtherIs
  <2>3. \A t : Remembers(t, made) => Remembers(t, made')
    BY <2>2 DEF Remembers
  <2>4. pc = "create" => Current \in Created
    BY <1>1 DEF PhaseInv
  <2> QED
    BY <1>1, <2>1, <2>2, <2>3, <2>4 DEF CreationInv, Current
<1>13. CASE UNCHANGED vars
  BY <1>13 DEF vars, remote, loop, CreationInv, Current
<1> QED
  BY <1>4, <1>5, <1>6, <1>7, <1>8, <1>9, <1>10, <1>11, <1>12, <1>13, StepsAre DEF Sends

(* Nothing was created.                                                    *)
LEMMA CreationInit ==
  ASSUME Init
  PROVE  CreationInv
<1>1. \A c : ~Sent(c, made)
  BY DEF Init, Sent
<1> QED
  BY <1>1 DEF Init, CreationInv, Once, Remembers, Idle, Copying

(* In every run, what is created shows in the checkpoint.                  *)
LEMMA CreationHolds ==
  ASSUME "garbled" \notin Answers
  PROVE  Spec => []CreationInv
<1>1. Init => CreationInv
  BY CreationInit
<1>2. BaseInv /\ CreationInv /\ [Next]_vars => CreationInv'
  BY CreationStep
<1> QED
  BY <1>1, <1>2, BaseHolds, PTL DEF Spec

(* No folder and no playlist of the snapshot is created twice, wherever    *)
(* the process stops and whichever answer is lost, for every snapshot, as  *)
(* long as no creation lands that is reported as a definite failure        *)
(* (transfer.py:174, 263, 297-331).                                        *)
THEOREM NothingIsCreatedTwice ==
  ASSUME "garbled" \notin Answers
  PROVE  Spec => []CreatedOnce
<1>1. CreationInv => CreatedOnce
  BY DEF CreationInv, Once, CreatedOnce
<1> QED
  BY <1>1, CreationHolds, PTL

(***************************************************************************)
(* What a checkpoint knows of the lists                                    *)
(***************************************************************************)
PlaceIn(s, c)  == IF Parent[c] = Root THEN 0 ELSE s.dest[Parent[c]]
OrphanIn(s, c) == Parent[c] # Root /\ s.dest[Parent[c]] = 0

(* An identifier leads to an object of the right name; a folder has one    *)
(* exactly when it is completed.  A playlist whose outcome is in doubt has *)
(* the one it was created with, which was not there before the intent.     *)
KnowsLists(s, m) ==
  /\ \A c \in Created : s.dest[c] # 0 =>
       s.dest[c] \in DOMAIN m /\ m[s.dest[c]].name = Name[c]
  /\ \A f \in Folders : s.dest[f] # 0 <=> s.status[f] = "completed"
  /\ \A c \in Created : \A i \in s.baseline[c] : i \in DOMAIN m /\ m[i].by # c
  /\ \A p \in Owned : s.dest[p] # 0 /\ s.status[p] \in {"creating", "ambiguous"} =>
       m[s.dest[p]].by = p
  /\ \A i \in DOMAIN m : m[i].by \in Created =>
       /\ m[i].name = Name[m[i].by] /\ m[i].place = PlaceIn(s, m[i].by)
       /\ ~OrphanIn(s, m[i].by)

Landed(l) == {l.items[n][2] : n \in DOMAIN l.items}

(* A list has the entries of the playlist it is named after, in order.     *)
Orderly(l) ==
  /\ \A n \in DOMAIN l.items : l.name = Name[l.items[n][1]]
  /\ \A j, n \in DOMAIN l.items : j < n => l.items[j][2] < l.items[n][2]

(* A list that no checkpoint names is empty or as another client made it.  *)
Untouched(l) ==
  \/ l.items = << >>
  \/ \E c \in Owned : l.name = Name[c] /\ l.items \in OneOf(c)

(* The list holds the first of the entries that are due, up to some place, *)
(* and an entry is only ever barred when all before it are there.          *)
Aligned(s, p, l) ==
  /\ Landed(l) \subseteq DueIn(s, p)
  /\ \A k \in DueIn(s, p), j \in Landed(l) : k <= j => k \in Landed(l)
  /\ \A k \in DOMAIN Media[p] \ DueIn(s, p), j \in DueIn(s, p) : j < k => j \in Landed(l)

(* Another client's list of that name whose content does not match.        *)
Stray(s, p, l) ==
  /\ DueIn(s, p) = DOMAIN Media[p]
  /\ \E j \in DOMAIN Media[p] : l.items = << <<p, j>> >> /\ Media[p][j] # Media[p][1]

KnowsEntries(s, m) ==
  /\ \A p \in Owned :
       IF s.dest[p] = 0
         THEN DueIn(s, p) = DOMAIN Media[p] /\ s.status[p] # "completed"
         ELSE \/ Aligned(s, p, m[s.dest[p]])
              \/ Stray(s, p, m[s.dest[p]]) /\ s.status[p] # "completed"
  /\ \A p \in Owned : s.status[p] = "completed" =>
       DueIn(s, p) \subseteq Landed(m[s.dest[p]])
  /\ \A i \in DOMAIN m : (\A p \in Owned : s.dest[p] # i) => Untouched(m[i])

Knows(s, m) == KnowsLists(s, m) /\ KnowsEntries(s, m)

(* The loop over the entries: nothing is given up from the position on,    *)
(* and what is due before it is in the list.                               *)
Reached(s, p, l, n) ==
  /\ n <= Len(Media[p]) + 1
  /\ Aligned(s, p, l)
  /\ \A k \in DOMAIN Media[p] : k >= n => k \in DueIn(s, p)
  /\ \A k \in DueIn(s, p) : k < n => k \in Landed(l)
  /\ \A k \in Landed(l) : k <= n

Target == made[mem.dest[Current]]

EntryInv ==
  /\ \A i \in DOMAIN made : Orderly(made[i])
  /\ pc # "done" /\ saved \in States => Knows(saved, made)
  /\ pc \notin Idle => Knows(mem, made)
  /\ pc # "done" /\ saved \notin States => \A i \in DOMAIN made : Untouched(made[i])
  /\ pc = "done" => saved = NoState
  /\ pc \in Idle \cup {"read", "run"} => ~fresh
  /\ pc = "create" => mem.dest[Current] = 0 /\ ~Orphan(Current)
  /\ pc = "settle" /\ Current \in Created => mem.dest[Current] = 0
  /\ pc \in Copying => /\ mem.status[Current] # "completed"
                       /\ fresh => Target.by = Current
  /\ pc \in {"entries", "entry"} => Reached(mem, Current, Target, position)
  /\ pc = "entries" \/ (pc = "entry" /\ answer \in {"refused", "gone"}) =>
       position \notin Landed(Target)
  /\ pc = "entry" /\ answer = "done" => position \in Landed(Target)

(***************************************************************************)
(* Lists and places                                                        *)
(***************************************************************************)
(* The same title, description and kind twice: then another client's list, *)
(* or that of a creation whose answer was lost, could be either's.         *)
DistinctNames == \A p \in Owned, c \in Created : Name[p] = Name[c] => p = c

Rises(a, n) ==
  (\A k \in 1 .. n : a[k] \in Nat) /\ \A i, j \in 1 .. n : i < j => a[i] < a[j]

Begins(a, m, t, n) ==
  /\ \A j \in 1 .. m : \E k \in 1 .. n : t[k] = a[j]
  /\ \A k \in 1 .. n, j \in 1 .. m : t[k] <= a[j] => \E i \in 1 .. m : a[i] = t[k]

(* A rising list that holds the first elements of another one is the       *)
(* beginning of that other list.                                           *)
LEMMA SameStart ==
  ASSUME NEW m \in Nat, NEW n \in Nat, m <= n, NEW a, NEW t,
         Rises(a, m), Rises(t, n), Begins(a, m, t, n)
  PROVE  \A j \in 1 .. m : a[j] = t[j]
<1>0. /\ \A j \in 1 .. m : a[j] \in Nat
      /\ \A k \in 1 .. n : t[k] \in Nat
      /\ \A i, j \in 1 .. m : i < j => a[i] < a[j]
      /\ \A i, j \in 1 .. n : i < j => t[i] < t[j]
      /\ \A j \in 1 .. m : \E k \in 1 .. n : t[k] = a[j]
      /\ \A k \in 1 .. n, j \in 1 .. m : t[k] <= a[j] => \E i \in 1 .. m : a[i] = t[k]
  BY DEF Rises, Begins
<1> DEFINE Wrong == {j \in 1 .. m : a[j] # t[j]}
<1>1. SUFFICES ASSUME Wrong # {} PROVE FALSE
  OBVIOUS
<1>2. PICK j \in Wrong : \A i \in Wrong : j <= i
  <2>1. Wrong \subseteq Nat
    OBVIOUS
  <2> QED
    BY <1>0, <1>1, <2>1, LeastElement
<1>3. j \in 1 .. m /\ a[j] # t[j] /\ j \in 1 .. n
  BY <1>0, <1>2
<1>4. \A i \in 1 .. m : i < j => a[i] = t[i]
  BY <1>0, <1>2, <1>3
<1>5. PICK k \in 1 .. n : t[k] = a[j]
  BY <1>0, <1>3
<1>6. k # j
  BY <1>0, <1>3, <1>5
<1>7. CASE k < j
  <2>1. k \in 1 .. m /\ a[k] = t[k] /\ a[k] < a[j]
    BY <1>0, <1>3, <1>4, <1>7
  <2>2. a[k] \in Nat
    BY <1>0, <2>1
  <2> QED
    BY <1>0, <1>5, <2>1, <2>2
<1>8. CASE j < k
  <2>1. t[j] < t[k] /\ t[j] \in Nat /\ t[k] \in Nat
    BY <1>0, <1>3, <1>8
  <2>2. PICK i \in 1 .. m : a[i] = t[j]
    BY <1>0, <1>3, <1>5, <2>1
  <2>3. a[i] < a[j] /\ a[i] \in Nat /\ a[j] \in Nat
    BY <1>0, <1>3, <1>5, <2>1, <2>2
  <2>4. i < j
    <3>1. CASE i = j
      BY <1>0, <2>3, <3>1
    <3>2. CASE j < i
      <4>1. a[j] < a[i]
        BY <1>0, <1>3, <3>2
      <4> QED
        BY <1>0, <2>3, <4>1
    <3> QED
      BY <1>0, <1>3, <3>1, <3>2
  <2>5. t[i] < t[j] /\ a[i] = t[i] /\ t[i] \in Nat
    BY <1>0, <1>3, <1>4, <2>4
  <2> QED
    BY <1>0, <2>1, <2>2, <2>5
<1> QED
  BY <1>0, <1>3, <1>6, <1>7, <1>8

(* Only the statuses of entries say what is due.                           *)
LEMMA DueSame ==
  ASSUME NEW s, NEW t, NEW p \in Owned, \A e \in Entries : t.status[e] = s.status[e]
  PROVE  DueIn(t, p) = DueIn(s, p)
BY EntriesAre DEF DueIn

(* A change of the checkpoint that is not about a folder or playlist, and  *)
(* makes no entry due or not due.                                          *)
LEMMA KnowsSame ==
  ASSUME NEW s, NEW t, NEW m, Knows(s, m),
         \A c \in Created : /\ t.dest[c] = s.dest[c] /\ t.baseline[c] = s.baseline[c]
                            /\ t.status[c] = s.status[c],
         \A p \in Owned : DueIn(t, p) = DueIn(s, p)
  PROVE  Knows(t, m)
<1>1. \A c \in Created : Parent[c] # Root => Parent[c] \in Created
  BY SnapshotAssumption, Kinds DEF Created, Owned
<1>2. \A c \in Created : PlaceIn(t, c) = PlaceIn(s, c) /\ (OrphanIn(t, c) <=> OrphanIn(s, c))
  BY <1>1 DEF PlaceIn, OrphanIn
<1>3. Folders \subseteq Created /\ Owned \subseteq Created
  BY Kinds
<1>4. KnowsLists(t, m)
  BY <1>2, <1>3 DEF Knows, KnowsLists
<1>6. \A p \in Owned : \A l : /\ Aligned(t, p, l) <=> Aligned(s, p, l)
                              /\ Stray(t, p, l) <=> Stray(s, p, l)
  BY DEF Aligned, Stray
<1>7. KnowsEntries(t, m)
  BY <1>3, <1>6 DEF Knows, KnowsEntries
<1> QED
  BY <1>4, <1>7 DEF Knows

(* A failure of a folder without an identifier, or of a playlist.          *)
LEMMA KnowsFailed ==
  ASSUME NEW s, NEW t, NEW m, NEW o \in Created, NEW status,
         Knows(s, m), Becomes(s, t, o, status), status # "completed",
         o \in Folders => s.dest[o] = 0,
         status \in {"creating", "ambiguous"} /\ s.dest[o] # 0 => m[s.dest[o]].by = o
  PROVE  Knows(t, m)
<1>1. /\ t.dest = s.dest /\ t.baseline = s.baseline
      /\ \A c \in Created : t.status[c] = IF c = o THEN status ELSE s.status[c]
      /\ \A e \in Entries : t.status[e] = s.status[e]
  BY CreatedAre, Kinds DEF Becomes
<1>2. Folders \subseteq Created /\ Owned \subseteq Created
  BY Kinds
<1>3. KnowsLists(t, m)
  BY <1>1, <1>2 DEF Knows, KnowsLists, PlaceIn, OrphanIn
<1>4. \A p \in Owned : DueIn(t, p) = DueIn(s, p)
  BY <1>1, DueSame
<1>5. \A p \in Owned : \A l : /\ Aligned(t, p, l) <=> Aligned(s, p, l)
                              /\ Stray(t, p, l) <=> Stray(s, p, l)
  BY <1>4 DEF Aligned, Stray
<1>6. KnowsEntries(t, m)
  BY <1>1, <1>2, <1>4, <1>5 DEF Knows, KnowsEntries
<1> QED
  BY <1>3, <1>6 DEF Knows

(* A list that no checkpoint named, with all entries of its playlist due.  *)
LEMMA UntouchedIs ==
  ASSUME DistinctNames, NEW s, NEW p \in Owned, NEW l \in Lists,
         DueIn(s, p) = DOMAIN Media[p], l.name = Name[p], Untouched(l)
  PROVE  Aligned(s, p, l) \/ Stray(s, p, l)
<1>1. CASE l.items = << >>
  <2>1. Landed(l) = {}
    BY <1>1 DEF Landed
  <2> QED
    BY <2>1 DEF Aligned
<1>2. CASE \E c \in Owned : l.name = Name[c] /\ l.items \in OneOf(c)
  <2>1. l.items \in OneOf(p)
    BY <1>2, CreatedAre DEF DistinctNames
  <2>2. p \notin Folders
    BY Kinds
  <2>3. PICK j \in DOMAIN Media[p] :
          /\ l.items = << <<p, j>> >>
          /\ \A i \in 1 .. (j - 1) : Media[p][i] # Media[p][j]
    BY <2>1, <2>2 DEF OneOf
  <2>4. j \in Nat /\ j >= 1 /\ DOMAIN Media[p] \subseteq Nat \ {0}
    BY MediaAre
  <2>5. CASE j = 1
    <3>1. DOMAIN l.items = {1} /\ l.items[1] = <<p, 1>>
      BY <2>3, <2>5
    <3>2. Landed(l) = {1}
      BY <3>1 DEF Landed
    <3>3. \A k \in DOMAIN Media[p] : k <= 1 => k = 1
      BY <2>4
    <3> QED
      BY <2>3, <2>5, <3>2, <3>3 DEF Aligned
  <2>6. CASE j # 1
    <3>1. Media[p][1] # Media[p][j]
      BY <2>3, <2>4, <2>6
    <3> QED
      BY <2>3, <3>1 DEF Stray
  <2> QED
    BY <2>5, <2>6
<1> QED
  BY <1>1, <1>2 DEF Untouched

(* One more list, that no checkpoint names.                                *)
LEMMA KnowsAppended ==
  ASSUME NEW s \in States, NEW m \in Seq(Lists), NEW l \in Lists,
         Knows(s, m), Untouched(l),
         l.by \in Created => /\ l.name = Name[l.by] /\ l.place = PlaceIn(s, l.by)
                             /\ ~OrphanIn(s, l.by)
  PROVE  Knows(s, Append(m, l))
<1> DEFINE n == Append(m, l)
<1>1. /\ Len(m) \in Nat /\ DOMAIN m = 1 .. Len(m) /\ DOMAIN n = 1 .. Len(m) + 1
      /\ \A i \in DOMAIN m : n[i] = m[i]
      /\ n[Len(m) + 1] = l
  OBVIOUS
<1> HIDE DEF n
<1>2. \A i \in DOMAIN n : i \in DOMAIN m \/ i = Len(m) + 1
  BY <1>1
<1>3. DOMAIN m \subseteq DOMAIN n
  BY <1>1
<1>4. Folders \subseteq Created /\ Owned \subseteq Created
  BY Kinds
<1>5. KnowsLists(s, n)
  BY <1>1, <1>2, <1>3, <1>4 DEF Knows, KnowsLists
<1>6. \A p \in Owned : s.dest[p] # 0 => n[s.dest[p]] = m[s.dest[p]]
  BY <1>1, <1>4 DEF Knows, KnowsLists
<1>7. \A p \in Owned :
        IF s.dest[p] = 0
          THEN DueIn(s, p) = DOMAIN Media[p] /\ s.status[p] # "completed"
          ELSE \/ Aligned(s, p, n[s.dest[p]])
               \/ Stray(s, p, n[s.dest[p]]) /\ s.status[p] # "completed"
  BY <1>6 DEF Knows, KnowsEntries
<1>8. \A p \in Owned : s.status[p] = "completed" =>
        DueIn(s, p) \subseteq Landed(n[s.dest[p]])
  BY <1>6 DEF Knows, KnowsEntries
<1>9. \A i \in DOMAIN n : (\A p \in Owned : s.dest[p] # i) => Untouched(n[i])
  BY <1>1, <1>2 DEF Knows, KnowsEntries
<1> QED
  BY <1>5, <1>7, <1>8, <1>9 DEF Knows, KnowsEntries, n

(* Two playlists do not share a list.                                      *)
LEMMA OwnLists ==
  ASSUME DistinctNames, NEW s, NEW m, KnowsLists(s, m),
         NEW p \in Owned, NEW c \in Created, s.dest[p] # 0, s.dest[c] = s.dest[p]
  PROVE  c = p
BY CreatedAre DEF DistinctNames, KnowsLists

(* An entry is appended behind all that are there.                         *)
LEMMA KnowsLonger ==
  ASSUME BaseInv, CreationInv, EntryInv, DistinctNames, AppendEntry, made' = Longer
  PROVE  /\ Knows(mem, made')
         /\ \A i \in DOMAIN made' : Orderly(made'[i])
         /\ Landed(made'[mem.dest[Current]]) = Landed(Target) \cup {position}
         /\ made'[mem.dest[Current]].by = Target.by
         /\ Aligned(mem, Current, made'[mem.dest[Current]])
<1> DEFINE d == mem.dest[Current]
<1>1. /\ TypeInv /\ PhaseInv /\ pc = "entries" /\ Current \in Owned /\ mem \in States
      /\ position \in Nat /\ position >= 1 /\ position <= Len(Media[Current])
  BY RunHolds, AppendIs DEF BaseInv, PhaseInv, Copying, Idle, TypeInv
<1>2. /\ Knows(mem, made) /\ \A i \in DOMAIN made : Orderly(made[i])
      /\ mem.status[Current] # "completed"
      /\ Aligned(mem, Current, Target)
      /\ \A k \in DOMAIN Media[Current] : k >= position => k \in DueIn(mem, Current)
      /\ \A k \in DueIn(mem, Current) : k < position => k \in Landed(Target)
      /\ \A k \in Landed(Target) : k <= position
      /\ position \notin Landed(Target)
  BY <1>1 DEF EntryInv, Idle, Copying, Reached
<1>a. /\ Len(Media[Current]) \in Nat /\ DOMAIN Media[Current] = 1 .. Len(Media[Current])
      /\ position \in DOMAIN Media[Current]
  BY <1>1, MediaAre
<1>b. DueIn(mem, Current) \subseteq Nat /\ position \in DueIn(mem, Current)
  <2>1. position >= position
    BY <1>1
  <2>2. DueIn(mem, Current) \subseteq DOMAIN Media[Current]
    BY DEF DueIn
  <2> QED
    BY <1>2, <1>a, <2>1, <2>2
<1>3. d # 0 /\ d \in DOMAIN made /\ made[d].name = Name[Current]
  BY <1>1, <1>2, CreatedAre DEF CreationInv, Copying, Knows, KnowsLists
<1>4. /\ made' \in Seq(Lists) /\ Len(made') = Len(made) /\ made \in Seq(Lists)
      /\ \A i \in DOMAIN made :
           /\ made'[i].name = made[i].name /\ made'[i].by = made[i].by
           /\ made'[i].place = made[i].place
           /\ made'[i].items = IF i = d THEN Append(made[i].items, <<Current, position>>)
                               ELSE made[i].items
  BY <1>1, LongerIs DEF TypeInv
<1>5. DOMAIN made' = DOMAIN made
  BY <1>4
<1>6. made[d].items \in Seq(Entries)
  <2>1. made[d] \in Lists
    BY <1>3, <1>4
  <2> QED
    BY <2>1 DEF Lists
<1> DEFINE old == made[d].items
           new == made'[d].items
<1>7. /\ Len(old) \in Nat /\ DOMAIN old = 1 .. Len(old) /\ DOMAIN new = 1 .. Len(old) + 1
      /\ \A n \in DOMAIN old : new[n] = old[n]
      /\ new[Len(old) + 1] = <<Current, position>>
  <2>1. new = Append(old, <<Current, position>>)
    BY <1>3, <1>4
  <2>2. old \in Seq(Entries)
    BY <1>6
  <2> HIDE DEF old, new
  <2> QED BY <2>1, <2>2
<1> HIDE DEF old, new
<1>8. \A n \in DOMAIN new : n \in DOMAIN old \/ n = Len(old) + 1
  BY <1>7
<1>9. Landed(made'[d]) = Landed(made[d]) \cup {position}
  <2>1. Landed(made'[d]) = {new[n][2] : n \in DOMAIN new}
        /\ Landed(made[d]) = {old[n][2] : n \in DOMAIN old}
    BY DEF Landed, new, old
  <2>2. \A n \in DOMAIN old : n \in DOMAIN new
    BY <1>7
  <2>3. Len(old) + 1 \in DOMAIN new
    BY <1>7
  <2> QED
    BY <1>7, <1>8, <2>1, <2>2, <2>3
<1>10. ASSUME NEW i \in DOMAIN made' PROVE Orderly(made'[i])
  <2>1. CASE i # d
    BY <1>2, <1>4, <1>5, <2>1 DEF Orderly
  <2>2. CASE i = d
    <3>1. Orderly(made[d])
      BY <1>2, <1>3
    <3>2. \A n \in DOMAIN new : made'[d].name = Name[new[n][1]]
      <4>1. made'[d].name = made[d].name /\ made[d].name = Name[Current]
        BY <1>3, <1>4
      <4>2. \A n \in DOMAIN old : made[d].name = Name[old[n][1]]
        BY <3>1 DEF Orderly, old
      <4>3. new[Len(old) + 1][1] = Current
        BY <1>7
      <4> QED
        BY <1>7, <1>8, <4>1, <4>2, <4>3
    <3>3. \A n \in DOMAIN old : old[n][2] < position
      <4>1. \A n \in DOMAIN old : old[n][2] \in Landed(Target)
        BY DEF Landed, old, Target
      <4>2. \A n \in DOMAIN old : old[n][2] \in DueIn(mem, Current)
        BY <1>2, <4>1 DEF Aligned
      <4>3. \A n \in DOMAIN old : old[n][2] \in Nat
        BY <4>2, <1>b
      <4>4. \A n \in DOMAIN old : old[n][2] <= position /\ old[n][2] # position
        BY <1>2, <4>1
      <4> QED
        BY <1>1, <4>3, <4>4
    <3>4. ASSUME NEW j \in DOMAIN new, NEW n \in DOMAIN new, j < n
          PROVE  new[j][2] < new[n][2]
      <4>1. j \in DOMAIN old
        BY <1>7, <3>4
      <4>2. CASE n \in DOMAIN old
        BY <1>7, <3>1, <3>4, <4>1, <4>2 DEF Orderly, old
      <4>3. CASE n = Len(old) + 1
        BY <1>7, <3>3, <4>1, <4>3
      <4> QED
        BY <1>8, <4>2, <4>3
    <3> QED
      BY <2>2, <3>2, <3>4 DEF Orderly, new
  <2> QED
    BY <2>1, <2>2
<1>11. Aligned(mem, Current, made'[d])
  <2>1. Landed(made'[d]) \subseteq DueIn(mem, Current)
    BY <1>2, <1>9, <1>b DEF Aligned, Target
  <2>2. ASSUME NEW k \in DueIn(mem, Current), NEW j \in Landed(made'[d]), k <= j
        PROVE  k \in Landed(made'[d])
    <3>1. CASE j = position
      BY <1>1, <1>2, <1>9, <1>b, <2>2, <3>1 DEF Target
    <3>2. CASE j \in Landed(made[d])
      BY <1>2, <1>9, <2>2, <3>2 DEF Aligned, Target
    <3> QED
      BY <1>9, <3>1, <3>2
  <2>3. \A k \in DOMAIN Media[Current] \ DueIn(mem, Current), j \in DueIn(mem, Current) :
          j < k => j \in Landed(made'[d])
    BY <1>2, <1>9 DEF Aligned, Target
  <2> QED
    BY <2>1, <2>2, <2>3 DEF Aligned
<1>12. KnowsLists(mem, made')
  BY <1>2, <1>4, <1>5, CreatedAre, Kinds DEF Knows, KnowsLists
<1>13. ASSUME NEW p \in Owned, p # Current, mem.dest[p] # 0
       PROVE  Landed(made'[mem.dest[p]]) = Landed(made[mem.dest[p]])
              /\ made'[mem.dest[p]].items = made[mem.dest[p]].items
  <2>1. KnowsLists(mem, made) /\ Current \in Created /\ p \in Created
    BY <1>1, <1>2, CreatedAre DEF Knows
  <2>2. mem.dest[p] # d
    BY <1>13, <2>1, OwnLists
  <2>3. mem.dest[p] \in DOMAIN made
    BY <1>13, <2>1 DEF KnowsLists
  <2> QED
    BY <1>4, <2>2, <2>3 DEF Landed
<1>14. \A p \in Owned :
         IF mem.dest[p] = 0
           THEN DueIn(mem, p) = DOMAIN Media[p] /\ mem.status[p] # "completed"
           ELSE \/ Aligned(mem, p, made'[mem.dest[p]])
                \/ Stray(mem, p, made'[mem.dest[p]]) /\ mem.status[p] # "completed"
  BY <1>2, <1>11, <1>13 DEF Knows, KnowsEntries, Aligned, Stray
<1>15. \A p \in Owned : mem.status[p] = "completed" =>
         DueIn(mem, p) \subseteq Landed(made'[mem.dest[p]])
  BY <1>2, <1>13 DEF Knows, KnowsEntries
<1>16. \A i \in DOMAIN made' : (\A p \in Owned : mem.dest[p] # i) => Untouched(made'[i])
  BY <1>1, <1>2, <1>4, <1>5 DEF Knows, KnowsEntries, Untouched
<1>17. Knows(mem, made')
  BY <1>12, <1>14, <1>15, <1>16 DEF Knows, KnowsEntries
<1>18. made'[d].by = made[d].by
  BY <1>3, <1>4
<1> QED
  BY <1>9, <1>10, <1>11, <1>17, <1>18 DEF Target

(* A list is recorded for a folder or playlist that had none.              *)
LEMMA KnowsPlaced ==
  ASSUME DistinctNames, NEW s, NEW t, NEW m \in Seq(Lists), NEW c \in Created,
         NEW i \in DOMAIN m, NEW status, Knows(s, m), m[i].name = Name[c], s.dest[c] = 0,
         t.baseline = s.baseline, t.dest[c] = i, t.status[c] = status,
         \A x \in Created : x # c => t.dest[x] = s.dest[x],
         \A x \in Objects : x # c => t.status[x] = s.status[x],
         c \in Folders => status = "completed",
         c \in Owned => /\ status # "completed"
                        /\ status \in {"creating", "ambiguous"} => m[i].by = c
  PROVE  Knows(t, m)
<1>1. Folders \subseteq Created /\ Owned \subseteq Created /\ Folders \cap Owned = {}
      /\ Created = Folders \cup Owned
  BY Kinds
<1>2. /\ \A x \in Created : t.status[x] = IF x # c THEN s.status[x] ELSE status
      /\ \A e \in Entries : t.status[e] = s.status[e]
  BY CreatedAre, Kinds
<1>3. \A p \in Owned : DueIn(t, p) = DueIn(s, p)
  BY <1>2, DueSame
<1>4. KnowsLists(s, m) /\ KnowsEntries(s, m)
  BY DEF Knows
<1>5. i # 0 /\ \A j \in DOMAIN m : j # 0
  OBVIOUS
<1>6. \A p \in Owned : s.dest[p] # i
  <2>1. ASSUME NEW p \in Owned, s.dest[p] = i PROVE FALSE
    <3>1. m[i].name = Name[p]
      BY <1>1, <1>4, <1>5, <2>1 DEF KnowsLists
    <3>2. p = c
      BY <3>1 DEF DistinctNames
    <3> QED
      BY <1>5, <2>1, <3>2
  <2> QED
    BY <2>1
<1>7. KnowsLists(t, m)
  <2>1. \A x \in Created : t.dest[x] # 0 => t.dest[x] \in DOMAIN m /\ m[t.dest[x]].name = Name[x]
    BY <1>4 DEF KnowsLists
  <2>2. \A f \in Folders : t.dest[f] # 0 <=> t.status[f] = "completed"
    BY <1>1, <1>2, <1>4, <1>5 DEF KnowsLists
  <2>3. \A x \in Created : \A j \in t.baseline[x] : j \in DOMAIN m /\ m[j].by # x
    BY <1>4 DEF KnowsLists
  <2>4. \A p \in Owned : t.dest[p] # 0 /\ t.status[p] \in {"creating", "ambiguous"} =>
          m[t.dest[p]].by = p
    BY <1>1, <1>2, <1>4 DEF KnowsLists
  <2>5. ASSUME NEW j \in DOMAIN m, m[j].by \in Created
        PROVE  /\ m[j].name = Name[m[j].by] /\ m[j].place = PlaceIn(t, m[j].by)
               /\ ~OrphanIn(t, m[j].by)
    <3> DEFINE x == m[j].by
    <3>1. /\ m[j].name = Name[x] /\ m[j].place = PlaceIn(s, x) /\ ~OrphanIn(s, x)
          /\ x \in Created
      BY <1>4, <2>5 DEF KnowsLists
    <3> HIDE DEF x
    <3>2. Parent[x] = Root \/ Parent[x] \in Created
      BY <3>1, <1>1, SnapshotAssumption DEF Created, Owned
    <3>3. Parent[x] # Root => t.dest[Parent[x]] = s.dest[Parent[x]]
      BY <3>1, <3>2 DEF OrphanIn
    <3> QED
      BY <3>1, <3>3 DEF PlaceIn, OrphanIn, x
  <2> QED
    BY <2>1, <2>2, <2>3, <2>4, <2>5 DEF KnowsLists
<1>8. \A p \in Owned : \A l : /\ Aligned(t, p, l) <=> Aligned(s, p, l)
                              /\ Stray(t, p, l) <=> Stray(s, p, l)
  BY <1>3 DEF Aligned, Stray
<1>9. ASSUME c \in Owned
      PROVE  Aligned(t, c, m[i]) \/ Stray(t, c, m[i])
  <2>1. DueIn(s, c) = DOMAIN Media[c] /\ Untouched(m[i]) /\ m[i] \in Lists
    BY <1>4, <1>6, <1>9 DEF KnowsEntries
  <2>2. Aligned(s, c, m[i]) \/ Stray(s, c, m[i])
    BY <1>9, <2>1, UntouchedIs
  <2> QED
    BY <1>8, <1>9, <2>2
<1>10. \A p \in Owned :
         IF t.dest[p] = 0
           THEN DueIn(t, p) = DOMAIN Media[p] /\ t.status[p] # "completed"
           ELSE \/ Aligned(t, p, m[t.dest[p]])
                \/ Stray(t, p, m[t.dest[p]]) /\ t.status[p] # "completed"
  BY <1>1, <1>2, <1>3, <1>4, <1>5, <1>8, <1>9 DEF KnowsEntries
<1>11. \A p \in Owned : t.status[p] = "completed" => DueIn(t, p) \subseteq Landed(m[t.dest[p]])
  BY <1>1, <1>2, <1>3, <1>4 DEF KnowsEntries
<1>12. \A j \in DOMAIN m : (\A p \in Owned : t.dest[p] # j) => Untouched(m[j])
  BY <1>1, <1>4, <1>5 DEF KnowsEntries
<1> QED
  BY <1>7, <1>10, <1>11, <1>12 DEF Knows, KnowsEntries

(* A playlist whose list holds all that is due is completed.               *)
LEMMA KnowsCompleted ==
  ASSUME NEW s, NEW t, NEW m, NEW p \in Owned, Knows(s, m),
         Becomes(s, t, p, "completed"), s.dest[p] # 0,
         Aligned(s, p, m[s.dest[p]]), DueIn(s, p) \subseteq Landed(m[s.dest[p]])
  PROVE  Knows(t, m)
<1>1. /\ t.dest = s.dest /\ t.baseline = s.baseline
      /\ \A c \in Created : t.status[c] = IF c = p THEN "completed" ELSE s.status[c]
      /\ \A e \in Entries : t.status[e] = s.status[e]
  BY CreatedAre, Kinds DEF Becomes
<1>2. Folders \subseteq Created /\ Owned \subseteq Created /\ Folders \cap Owned = {}
  BY Kinds
<1>3. KnowsLists(t, m)
  BY <1>1, <1>2 DEF Knows, KnowsLists, PlaceIn, OrphanIn
<1>4. \A q \in Owned : DueIn(t, q) = DueIn(s, q)
  BY <1>1, DueSame
<1>5. \A q \in Owned : \A l : /\ Aligned(t, q, l) <=> Aligned(s, q, l)
                              /\ Stray(t, q, l) <=> Stray(s, q, l)
  BY <1>4 DEF Aligned, Stray
<1>6. KnowsEntries(t, m)
  BY <1>1, <1>2, <1>4, <1>5 DEF Knows, KnowsEntries
<1> QED
  BY <1>3, <1>6 DEF Knows

(* An entry is given up: all before it are there, and it is not.           *)
LEMMA KnowsBarred ==
  ASSUME NEW s, NEW t, NEW m, NEW p \in Owned, NEW k \in DOMAIN Media[p],
         NEW status \in Barred, Knows(s, m), Becomes(s, t, <<p, k>>, status),
         s.dest[p] # 0, s.status[p] # "completed", Aligned(s, p, m[s.dest[p]]),
         k \notin Landed(m[s.dest[p]]),
         \A j \in DueIn(s, p) : j < k => j \in Landed(m[s.dest[p]])
  PROVE  /\ Knows(t, m) /\ DueIn(t, p) = DueIn(s, p) \ {k}
         /\ Aligned(t, p, m[t.dest[p]])
<1>1. /\ t.dest = s.dest /\ t.baseline = s.baseline
      /\ \A c \in Created : t.status[c] = s.status[c]
      /\ \A e \in Entries : t.status[e] = IF e = <<p, k>> THEN status ELSE s.status[e]
  BY CreatedAre, Kinds, EntriesAre DEF Becomes
<1>2. Folders \subseteq Created /\ Owned \subseteq Created
  BY Kinds
<1>3. KnowsLists(t, m)
  BY <1>1, <1>2 DEF Knows, KnowsLists, PlaceIn, OrphanIn
<1>4. \A q \in Owned : q # p => DueIn(t, q) = DueIn(s, q)
  BY <1>1, EntriesAre DEF DueIn
<1>5. DueIn(t, p) = DueIn(s, p) \ {k}
  BY <1>1, EntriesAre DEF DueIn
<1>6. Aligned(t, p, m[t.dest[p]])
  BY <1>1, <1>5 DEF Aligned
<1>7. \A q \in Owned : \A l : q # p => /\ Aligned(t, q, l) <=> Aligned(s, q, l)
                                       /\ Stray(t, q, l) <=> Stray(s, q, l)
  BY <1>4 DEF Aligned, Stray
<1>8. KnowsEntries(t, m)
  BY <1>1, <1>2, <1>4, <1>6, <1>7 DEF Knows, KnowsEntries
<1> QED
  BY <1>3, <1>5, <1>6, <1>8 DEF Knows

(* A new transfer knows nothing, and nothing was sent for it.              *)
LEMMA StartKnows ==
  ASSUME BaseInv, CreationInv, EntryInv, pc = "menu", saved = NoState
  PROVE  Knows(Fresh, made)
<1>1. \A i \in DOMAIN made : made[i].by \notin Created
  <2>1. ASSUME NEW i \in DOMAIN made, made[i].by \in Created PROVE FALSE
    <3>1. saved \in States
      BY <2>1 DEF CreationInv, Sent
    <3>2. Objects # {}
      BY <2>1, CreatedAre
    <3> QED
      BY <3>1, <3>2, NoStateIs
  <2> QED
    BY <2>1
<1>2. \A i \in DOMAIN made : Untouched(made[i])
  <2>1. CASE saved \in States
    <3>1. Objects = {}
      BY <2>1, NoStateIs
    <3>2. Owned = {}
      BY <3>1, CreatedAre
    <3> QED
      BY <2>1, <3>2 DEF EntryInv, Knows, KnowsEntries
  <2>2. CASE saved \notin States
    BY <2>2 DEF EntryInv
  <2> QED
    BY <2>1, <2>2
<1>3. \A c \in Created : /\ Fresh.dest[c] = 0 /\ Fresh.baseline[c] = {}
                         /\ Fresh.status[c] = "none"
  BY CreatedAre DEF Fresh
<1>4. Folders \subseteq Created /\ Owned \subseteq Created
  BY Kinds
<1>5. KnowsLists(Fresh, made)
  BY <1>1, <1>3, <1>4 DEF KnowsLists
<1>6. \A p \in Owned : DueIn(Fresh, p) = DOMAIN Media[p]
  BY EntriesAre, Kinds, FreshIs DEF DueIn, Barred, Limited
<1>7. KnowsEntries(Fresh, made)
  BY <1>2, <1>3, <1>4, <1>6 DEF KnowsEntries
<1> QED
  BY <1>5, <1>7 DEF Knows

(* The new candidate is the list of the intent: the one its checkpoint has *)
(* already, or one that no checkpoint has.                                 *)
LEMMA AdoptKnows ==
  ASSUME BaseInv, Knows(mem, made), Adopt, DistinctNames
  PROVE  Knows(mem', made)
<1>1. TypeInv /\ PhaseInv /\ made \in Seq(Lists) /\ mem' \in States /\ mem \in States
  BY MarksTypes, AdoptIs, RunHolds DEF BaseInv, TypeInv, Marks, Idle
<1> DEFINE c == Current
<1>2. c \in Created /\ Undecided
  BY <1>1, AdoptIs
<1>3. PICK i \in Candidates(c) \ mem.baseline[c] :
         /\ Candidates(c) \ mem.baseline[c] = {i}
         /\ i \in DOMAIN made
         /\ mem'.baseline = mem.baseline
         /\ \A x \in Created : mem'.dest[x] = IF x = c THEN i ELSE mem.dest[x]
         /\ \A x \in Objects : mem'.status[x] =
              IF x # c THEN mem.status[x]
              ELSE IF c \in Folders THEN "completed" ELSE "pending"
  BY <1>1, AdoptIs
<1>4. made[i].name = Name[c]
  BY <1>3 DEF Candidates
<1>5. Folders \cap Owned = {} /\ Created = Folders \cup Owned
  BY Kinds
<1>6. CASE mem.dest[c] = 0
  <2> DEFINE status == IF c \in Folders THEN "completed" ELSE "pending"
  <2>1. /\ \A x \in Objects : mem'.status[x] = IF x # c THEN mem.status[x] ELSE status
        /\ c \in Folders => status = "completed"
        /\ c \in Owned => status # "completed" /\ status \notin {"creating", "ambiguous"}
    BY <1>3, <1>5
  <2>2. /\ c \in Created /\ c \in Objects
        /\ mem'.dest[c] = i /\ mem'.status[c] = status
        /\ \A x \in Created : x # c => mem'.dest[x] = mem.dest[x]
        /\ \A x \in Objects : x # c => mem'.status[x] = mem.status[x]
    BY <1>2, <1>3, <2>1, CreatedAre
  <2> HIDE DEF c, status
  <2>3. i \in DOMAIN made /\ mem'.baseline = mem.baseline
    BY <1>3
  <2> QED
    BY <1>1, <1>4, <1>6, <2>1, <2>2, <2>3, KnowsPlaced
<1>7. CASE mem.dest[c] # 0
  <2> DEFINE d == mem.dest[c]
  <2>1. c \in Owned /\ mem.status[c] \in {"creating", "ambiguous"}
    BY <1>2, <1>5, <1>7 DEF Knows, KnowsLists, Undecided
  <2>2. d \in DOMAIN made /\ made[d].name = Name[c] /\ made[d].by = c
        /\ made[d].place = PlaceIn(mem, c)
    BY <1>2, <1>7, <2>1 DEF Knows, KnowsLists
  <2>3. d \in Candidates(c)
    BY <2>2 DEF Candidates, Place, PlaceIn
  <2>4. d \notin mem.baseline[c]
    BY <1>2, <2>2 DEF Knows, KnowsLists
  <2>5. d = i
    BY <1>3, <2>3, <2>4
  <2>6. mem'.dest = mem.dest
    <3>1. \A x \in Created : mem'.dest[x] = mem.dest[x]
      BY <1>3, <2>5
    <3>2. mem'.dest \in [Created -> Nat] /\ mem.dest \in [Created -> Nat]
      BY <1>1 DEF States
    <3> QED
      BY <3>1, <3>2
  <2>7. Becomes(mem, mem', c, "pending")
    BY <1>3, <1>5, <2>1, <2>6 DEF Becomes
  <2> HIDE DEF c
  <2> QED
    BY <1>2, <1>5, <2>1, <2>7, KnowsFailed
<1> QED
  BY <1>6, <1>7

(* The intent is stored before anything is sent for it.                    *)
LEMMA IntentKnows ==
  ASSUME BaseInv, CreationInv, Knows(mem, made), StoreIntent
  PROVE  Knows(mem', made) /\ mem'.dest[Current] = 0 /\ ~OrphanIn(mem', Current)
<1>1. TypeInv /\ PhaseInv
  BY DEF BaseInv
<1> DEFINE c == Current
<1>2. /\ c \in Created /\ pc = "run" /\ mem.status[c] \notin Tried /\ Creates(c)
      /\ mem'.dest = mem.dest
      /\ \A x \in Created : mem'.baseline[x] = IF x = c THEN Candidates(c)
                                               ELSE mem.baseline[x]
      /\ \A x \in Created : mem'.status[x] = IF x = c THEN "creating" ELSE mem.status[x]
      /\ \A e \in Entries : mem'.status[e] = mem.status[e]
  BY <1>1, StoreIntentIs, CreatedAre, Kinds
<1>3. Candidates(c) \subseteq DOMAIN made
  BY <1>1, CandidatesAre
<1>4. Folders \subseteq Created /\ Owned \subseteq Created /\ Folders \cap Owned = {}
      /\ Created = Folders \cup Owned
  BY Kinds
<1>5. mem.dest[c] = 0
  BY <1>2, <1>4 DEF Creates, Knows, KnowsLists, Tried
<1>6. ~Sent(c, made)
  BY <1>2, <1>5 DEF CreationInv, Remembers, Idle
<1>7. \A i \in Candidates(c) : i \in DOMAIN made /\ made[i].by # c
  BY <1>3, <1>6 DEF Sent
<1> HIDE DEF c
<1>8. KnowsLists(mem', made)
  <2>1. \A x \in Created : mem'.dest[x] # 0 =>
          mem'.dest[x] \in DOMAIN made /\ made[mem'.dest[x]].name = Name[x]
    BY <1>2 DEF Knows, KnowsLists
  <2>2. \A f \in Folders : mem'.dest[f] # 0 <=> mem'.status[f] = "completed"
    BY <1>2, <1>4, <1>5 DEF Knows, KnowsLists
  <2>3. \A x \in Created : \A i \in mem'.baseline[x] : i \in DOMAIN made /\ made[i].by # x
    BY <1>2, <1>7 DEF Knows, KnowsLists
  <2>4. \A p \in Owned : mem'.dest[p] # 0 /\ mem'.status[p] \in {"creating", "ambiguous"} =>
          made[mem'.dest[p]].by = p
    BY <1>2, <1>4, <1>5 DEF Knows, KnowsLists
  <2>5. \A i \in DOMAIN made : made[i].by \in Created =>
          /\ made[i].name = Name[made[i].by] /\ made[i].place = PlaceIn(mem', made[i].by)
          /\ ~OrphanIn(mem', made[i].by)
    BY <1>2 DEF Knows, KnowsLists, PlaceIn, OrphanIn
  <2> QED
    BY <2>1, <2>2, <2>3, <2>4, <2>5 DEF KnowsLists
<1>9. \A p \in Owned : DueIn(mem', p) = DueIn(mem, p)
  BY <1>2, DueSame
<1>10. \A p \in Owned : \A l : /\ Aligned(mem', p, l) <=> Aligned(mem, p, l)
                               /\ Stray(mem', p, l) <=> Stray(mem, p, l)
  BY <1>9 DEF Aligned, Stray
<1>11. KnowsEntries(mem', made)
  BY <1>2, <1>4, <1>9, <1>10 DEF Knows, KnowsEntries
<1>12. ~OrphanIn(mem', c)
  BY <1>2 DEF Creates, Orphan, OrphanIn
<1> QED
  BY <1>2, <1>5, <1>8, <1>11, <1>12 DEF Knows, c

(* The identifier that a creation returned, or the failure it ended in.    *)
LEMMA SettleKnows ==
  ASSUME BaseInv, EntryInv, Knows(mem, made), SettleCreation, DistinctNames
  PROVE  Knows(mem', made)
<1>1. TypeInv /\ PhaseInv /\ made \in Seq(Lists)
  BY DEF BaseInv, TypeInv
<1> DEFINE c == Current
<1>2. c \in Created /\ mem.dest[c] = 0
  BY <1>1, SettleCreationIs DEF EntryInv
<1>3. Folders \cap Owned = {} /\ Created = Folders \cup Owned
  BY Kinds
<1>4. CASE answer = "done"
  <2>1. /\ mem'.baseline = mem.baseline
        /\ \E i \in DOMAIN made :
             /\ made[i].by = c
             /\ \A x \in Created : mem'.dest[x] = IF x = c THEN i ELSE mem.dest[x]
        /\ \A x \in Objects : mem'.status[x] =
             IF x # c THEN mem.status[x]
             ELSE IF c \in Folders THEN "completed" ELSE "creating"
    BY <1>1, <1>4, SettleCreationIs
  <2>2. PICK i \in DOMAIN made :
          /\ made[i].by = c
          /\ \A x \in Created : mem'.dest[x] = IF x = c THEN i ELSE mem.dest[x]
    BY <2>1
  <2>3. made[i].name = Name[c]
    BY <1>2, <2>2 DEF Knows, KnowsLists
  <2> DEFINE status == IF c \in Folders THEN "completed" ELSE "creating"
  <2>4. /\ \A x \in Objects : mem'.status[x] = IF x # c THEN mem.status[x] ELSE status
        /\ c \in Folders => status = "completed"
        /\ c \in Owned => status # "completed"
    BY <1>3, <2>1
  <2>5. /\ c \in Created /\ c \in Objects
        /\ mem'.dest[c] = i /\ mem'.status[c] = status
        /\ \A x \in Created : x # c => mem'.dest[x] = mem.dest[x]
        /\ \A x \in Objects : x # c => mem'.status[x] = mem.status[x]
    BY <1>2, <2>2, <2>4, CreatedAre
  <2> HIDE DEF c, status
  <2> QED
    BY <1>1, <1>2, <2>1, <2>2, <2>3, <2>4, <2>5, KnowsPlaced
<1>5. CASE answer # "done"
  <2>1. PICK status \in Failures \cup {"ambiguous"} : Becomes(mem, mem', c, status)
    BY <1>1, <1>5, SettleCreationIs
  <2>2. status # "completed"
    BY DEF Failures
  <2> HIDE DEF c
  <2> QED
    BY <1>2, <2>1, <2>2, KnowsFailed
<1> QED
  BY <1>4, <1>5

(* A playlist ends: with all that is due, or with a failure.               *)
LEMMA EndKnows ==
  ASSUME BaseInv, CreationInv, EntryInv, Mismatch \/ ListUnreadable \/ FinishPlaylist
  PROVE  Knows(mem', made)
<1>1. TypeInv /\ PhaseInv
  BY DEF BaseInv
<1>2. /\ Current \in Owned /\ pc \in Copying
      /\ \E status \in Failures \cup {"ambiguous", "completed"} :
           /\ Becomes(mem, mem', Current, status)
           /\ status = "ambiguous" => fresh
           /\ status = "completed" => FinishPlaylist
  BY <1>1, PlaylistEnds
<1>3. /\ Knows(mem, made) /\ mem.dest[Current] # 0
      /\ fresh => Target.by = Current
  BY <1>2 DEF EntryInv, CreationInv, Copying, Idle
<1>4. PICK status \in Failures \cup {"ambiguous", "completed"} :
        /\ Becomes(mem, mem', Current, status)
        /\ status = "ambiguous" => fresh
        /\ status = "completed" => FinishPlaylist
  BY <1>2
<1>5. CASE status # "completed"
  <2>1. Current \notin Folders /\ Current \in Created
    BY <1>2, Kinds
  <2>2. status # "creating"
    BY DEF Failures
  <2>3. status \in {"creating", "ambiguous"} => made[mem.dest[Current]].by = Current
    BY <1>3, <1>4, <2>2 DEF Target
  <2> QED
    BY <1>3, <1>4, <1>5, <2>1, <2>3, KnowsFailed
<1>6. CASE status = "completed"
  <2>1. pc = "entries" /\ position > Len(Media[Current]) /\ position \in Nat
    BY <1>1, <1>4, <1>6 DEF FinishPlaylist, TypeInv
  <2>2. /\ Aligned(mem, Current, Target)
        /\ \A k \in DueIn(mem, Current) : k < position => k \in Landed(Target)
    BY <2>1 DEF EntryInv, Reached
  <2>3. \A k \in DOMAIN Media[Current] : k < position
    BY <1>2, <2>1, MediaAre
  <2>4. DueIn(mem, Current) \subseteq Landed(Target)
    BY <2>2, <2>3 DEF DueIn
  <2> QED
    BY <1>2, <1>3, <1>4, <1>6, <2>2, <2>4, KnowsCompleted DEF Target
<1> QED
  BY <1>5, <1>6

(* What the list holds, entry for entry, is the beginning of what is due.  *)
LEMMA ListIsStart ==
  ASSUME BaseInv, CreationInv, EntryInv, Reconcile
  PROVE  /\ Aligned(mem, Current, Target)
         /\ Len(Listed) \in Nat /\ Len(Listed) <= Len(Expected)
         /\ Landed(Target) = {Expected[j] : j \in 1 .. Len(Listed)}
<1>1. TypeInv /\ PhaseInv /\ made \in Seq(Lists) /\ mem \in States
  BY RunHolds DEF BaseInv, TypeInv, Reconcile, Idle
<1>2. /\ Current \in Owned /\ pc = "list" /\ Matches
      /\ Len(Listed) <= Len(Expected)
      /\ \A k \in DOMAIN Listed : Listed[k] = Media[Current][Expected[k]]
  BY <1>1 DEF Reconcile, PhaseInv, Copying, Matches
<1>3. /\ Knows(mem, made) /\ mem.dest[Current] # 0
      /\ \A i \in DOMAIN made : Orderly(made[i])
  BY <1>2 DEF EntryInv, CreationInv, Copying, Idle
<1> DEFINE d == mem.dest[Current]
           items == made[d].items
           m == Len(items)
           n == Len(Expected)
<1>4. d \in DOMAIN made /\ made[d] \in Lists
  BY <1>1, <1>2, <1>3, CreatedAre DEF Knows, KnowsLists
<1>5. items \in Seq(Entries) /\ m \in Nat /\ DOMAIN items = 1 .. m
  <2>1. items \in Seq(Entries)
    BY <1>4 DEF Lists
  <2> HIDE DEF items
  <2> QED BY <2>1
<1>6. /\ DOMAIN Listed = 1 .. m /\ Len(Listed) = m
      /\ \A k \in 1 .. m : Listed[k] = Media[items[k][1]][items[k][2]]
  <2>1. Listed = [k \in 1 .. m |-> Media[items[k][1]][items[k][2]]]
    BY <1>5 DEF Listed, Contents
  <2> HIDE DEF items, m
  <2> QED BY <1>5, <2>1
<1>7. /\ n \in Nat /\ DOMAIN Expected = 1 .. n
      /\ \A k \in 1 .. n : Expected[k] \in DueIn(mem, Current)
      /\ \A j, k \in 1 .. n : j < k => Expected[j] < Expected[k]
      /\ \A x \in DueIn(mem, Current) : \E k \in 1 .. n : Expected[k] = x
  BY <1>2, DueLists DEF Expected
<1>8. DueIn(mem, Current) \subseteq Nat \ {0}
  <2>1. DOMAIN Media[Current] \subseteq Nat \ {0}
    BY <1>2, MediaAre
  <2> QED
    BY <2>1 DEF DueIn
<1>9. Landed(made[d]) = {items[k][2] : k \in 1 .. m}
  BY <1>5 DEF Landed
<1> HIDE DEF items, m, n
<1>10. ASSUME Stray(mem, Current, made[d]) PROVE FALSE
  <2>1. PICK j \in DOMAIN Media[Current] :
          made[d].items = << <<Current, j>> >> /\ Media[Current][j] # Media[Current][1]
    BY <1>10 DEF Stray
  <2>2. m = 1 /\ items[1] = <<Current, j>>
    BY <2>1 DEF items, m
  <2>3. Listed[1] = Media[Current][j] /\ Listed[1] = Media[Current][Expected[1]]
    BY <1>2, <1>6, <2>2
  <2>4. 1 \in DueIn(mem, Current)
    <3>1. 1 \in DOMAIN Media[Current]
      BY <1>2, <2>1, MediaAre
    <3> QED
      BY <1>10, <3>1 DEF Stray
  <2>5. PICK k \in 1 .. n : Expected[k] = 1
    BY <1>7, <2>4
  <2>6. k = 1
    <3>1. CASE 1 < k
      <4>1. Expected[1] < Expected[k] /\ Expected[1] \in Nat \ {0}
        BY <1>7, <1>8, <2>5, <3>1
      <4> QED
        BY <2>5, <4>1
    <3> QED
      BY <2>5, <3>1
  <2> QED
    BY <2>1, <2>3, <2>5, <2>6
<1>11. Aligned(mem, Current, made[d])
  BY <1>2, <1>3, <1>10 DEF Knows, KnowsEntries
<1>12. \A k \in 1 .. m : items[k][2] = Expected[k]
  <2> DEFINE a == [k \in 1 .. m |-> items[k][2]]
  <2>1. \A k \in 1 .. m : a[k] = items[k][2] /\ a[k] \in Landed(made[d])
    BY <1>9
  <2>2. \A j, k \in 1 .. m : j < k => a[j] < a[k]
    <3>1. \A j, k \in 1 .. m : j < k => items[j][2] < items[k][2]
      BY <1>3, <1>4, <1>5 DEF Orderly, items
    <3> QED
      BY <2>1, <3>1
  <2> HIDE DEF a
  <2>3. \A k \in 1 .. m : a[k] \in Nat
    BY <1>8, <1>11, <2>1 DEF Aligned
  <2>9. \A i, j \in 1 .. n : i < j => Expected[i] < Expected[j]
    BY <1>7
  <2>4. \A k \in 1 .. n : Expected[k] \in Nat
    BY <1>7, <1>8
  <2>5. \A j \in 1 .. m : \E k \in 1 .. n : Expected[k] = a[j]
    BY <1>7, <1>11, <2>1 DEF Aligned
  <2>6. ASSUME NEW k \in 1 .. n, NEW j \in 1 .. m, Expected[k] <= a[j]
        PROVE  \E i \in 1 .. m : a[i] = Expected[k]
    <3>1. Expected[k] \in Landed(made[d])
      BY <1>7, <1>11, <2>1, <2>6 DEF Aligned
    <3> QED
      BY <1>9, <2>1, <3>1
  <2>7. m \in Nat /\ n \in Nat /\ m <= n
    BY <1>2, <1>5, <1>6, <1>7 DEF n
  <2>8. \A j \in 1 .. m : a[j] = Expected[j]
    <3>1. Rises(a, m) /\ Rises(Expected, n)
      BY <2>2, <2>3, <2>4, <2>9 DEF Rises
    <3>2. Begins(a, m, Expected, n)
      BY <2>5, <2>6 DEF Begins
    <3> QED
      BY <2>7, <3>1, <3>2, SameStart
  <2> QED
    BY <2>1, <2>8
<1>13. Landed(made[d]) = {Expected[k] : k \in 1 .. m}
  BY <1>9, <1>12
<1> QED
  BY <1>2, <1>5, <1>6, <1>11, <1>13 DEF Target

(* The run starts at the first entry that is due and not there.            *)
LEMMA ReconcileKnows ==
  ASSUME BaseInv, CreationInv, EntryInv, Reconcile
  PROVE  /\ Knows(mem', made) /\ Reached(mem', Current, Target, position')
         /\ position' \notin Landed(Target)
<1>1. TypeInv /\ PhaseInv
  BY DEF BaseInv
<1>2. /\ Current \in Owned /\ pc = "list"
      /\ mem'.dest = mem.dest /\ mem'.baseline = mem.baseline
      /\ \A x \in Tops : mem'.status[x] = mem.status[x]
      /\ \A p \in Owned : \A k \in DOMAIN Media[p] :
           \/ mem'.status[<<p, k>>] = mem.status[<<p, k>>]
           \/ /\ mem'.status[<<p, k>>] = "completed" /\ p = Current
              /\ \E n \in DOMAIN Due(p) : Due(p)[n] = k
  BY <1>1, ReconcileIs
<1>3. /\ Knows(mem, made) /\ position' = IF Len(Listed) < Len(Expected)
                                         THEN Expected[Len(Listed) + 1]
                                         ELSE Len(Media[Current]) + 1
  BY <1>2 DEF EntryInv, Idle, Reconcile
<1> DEFINE m == Len(Listed)
           n == Len(Expected)
<1>4. /\ Aligned(mem, Current, Target) /\ m \in Nat /\ m <= n
      /\ Landed(Target) = {Expected[j] : j \in 1 .. m}
  BY ListIsStart
<1>5. /\ n \in Nat /\ DOMAIN Expected = 1 .. n
      /\ \A k \in 1 .. n : Expected[k] \in DueIn(mem, Current)
      /\ \A j, k \in 1 .. n : j < k => Expected[j] < Expected[k]
      /\ \A x \in DueIn(mem, Current) : \E k \in 1 .. n : Expected[k] = x
  BY <1>2, DueLists DEF Expected
<1>6. /\ Len(Media[Current]) \in Nat /\ DOMAIN Media[Current] = 1 .. Len(Media[Current])
      /\ DueIn(mem, Current) \subseteq DOMAIN Media[Current]
  BY <1>2, MediaAre DEF DueIn
<1>7. ASSUME NEW p \in Owned PROVE DueIn(mem', p) = DueIn(mem, p)
  <2>1. \A x \in DOMAIN Due(p) : Due(p)[x] \in DueIn(mem, p)
    BY <1>7, DueLists
  <2>2. "completed" \notin Barred
    BY DEF Barred, Limited
  <2> QED
    BY <1>2, <1>7, <2>1, <2>2 DEF DueIn
<1>8. Knows(mem', made)
  <2>1. \A c \in Created : mem'.status[c] = mem.status[c]
    BY <1>2, CreatedAre
  <2> QED
    BY <1>2, <1>3, <1>7, <2>1, KnowsSame
<1>9. Aligned(mem', Current, Target)
  BY <1>2, <1>4, <1>7 DEF Aligned
<1> HIDE DEF m, n
<1>10. CASE m < n
  <2> DEFINE q == Expected[m + 1]
  <2>1. m + 1 \in 1 .. n /\ position' = q
    BY <1>3, <1>4, <1>5, <1>10 DEF m, n
  <2>2. q \in DueIn(mem, Current) /\ q \in 1 .. Len(Media[Current]) /\ q \in Nat
    BY <1>5, <1>6, <2>1
  <2>3. \A j \in 1 .. m : Expected[j] < q /\ Expected[j] \in Nat
    <3>1. \A j \in 1 .. m : j \in 1 .. n /\ j < m + 1
      BY <1>4, <1>5
    <3> QED
      BY <1>5, <1>6, <2>1, <3>1
  <2> HIDE DEF q
  <2>4. q \notin Landed(Target)
    BY <1>4, <2>2, <2>3
  <2>5. ASSUME NEW k \in DOMAIN Media[Current], k >= q PROVE k \in DueIn(mem, Current)
    <3>1. CASE k = q
      BY <2>2, <3>1
    <3>2. CASE q < k
      BY <1>4, <2>2, <2>4, <3>2 DEF Aligned
    <3> QED
      BY <1>6, <2>2, <2>5, <3>1, <3>2
  <2>6. ASSUME NEW k \in DueIn(mem, Current), k < q PROVE k \in Landed(Target)
    <3>1. PICK j \in 1 .. n : Expected[j] = k
      BY <1>5
    <3>2. j <= m
      <4>1. CASE m + 1 < j
        <5>1. Expected[m + 1] < Expected[j]
          BY <1>5, <2>1, <4>1
        <5> QED
          BY <1>6, <2>2, <2>6, <3>1, <5>1 DEF q
      <4>2. CASE j = m + 1
        BY <2>2, <2>6, <3>1, <4>2 DEF q
      <4> QED
        BY <1>4, <4>1, <4>2
    <3> QED
      BY <1>4, <3>1, <3>2
  <2>7. \A k \in Landed(Target) : k <= q
    BY <1>4, <2>2, <2>3
  <2> QED
    BY <1>2, <1>6, <1>7, <1>8, <1>9, <2>1, <2>2, <2>4, <2>5, <2>6, <2>7 DEF Reached
<1>11. CASE ~(m < n)
  <2>1. position' = Len(Media[Current]) + 1 /\ m = n
    BY <1>3, <1>4, <1>5, <1>11 DEF m, n
  <2>2. \A k \in DOMAIN Media[Current] : k < position' /\ ~(k >= position')
    BY <1>6, <2>1
  <2>3. Landed(Target) = DueIn(mem, Current)
    BY <1>4, <1>5, <2>1
  <2>4. position' \notin DOMAIN Media[Current]
    BY <1>6, <2>1
  <2>5. \A k \in Landed(Target) : k <= position'
    BY <1>6, <2>1, <2>3
  <2>6. position' <= Len(Media[Current]) + 1
    BY <1>6, <2>1
  <2> QED
    BY <1>2, <1>6, <1>7, <1>8, <1>9, <2>2, <2>3, <2>4, <2>5, <2>6 DEF Reached
<1> QED
  BY <1>10, <1>11

(* One entry further: it is in the list, or it is given up.                *)
LEMMA EntryKnows ==
  ASSUME BaseInv, CreationInv, EntryInv, SettleEntry \/ RefuseVideo
  PROVE  /\ Knows(mem', made) /\ Reached(mem', Current, Target, position')
         /\ position' \notin Landed(Target)
<1>1. TypeInv /\ PhaseInv
  BY DEF BaseInv
<1>2. /\ Current \in Owned /\ pc \in {"entries", "entry"}
      /\ position >= 1 /\ position <= Len(Media[Current]) /\ position \in Nat
      /\ position' = position + 1
      /\ \/ SettleEntry /\ answer = "done" /\ mem' = mem
         \/ SettleEntry /\ answer = "gone"
            /\ Becomes(mem, mem', <<Current, position>>, "unavailable")
         \/ RefuseVideo /\ Becomes(mem, mem', <<Current, position>>, "unsupported")
  BY <1>1, EntryMarks DEF TypeInv
<1>3. /\ Knows(mem, made) /\ Reached(mem, Current, Target, position)
      /\ mem.dest[Current] # 0 /\ mem.status[Current] # "completed"
  BY <1>2 DEF EntryInv, CreationInv, Copying, Idle
<1>4. /\ Len(Media[Current]) \in Nat /\ DOMAIN Media[Current] = 1 .. Len(Media[Current])
      /\ DueIn(mem, Current) \subseteq DOMAIN Media[Current]
      /\ position \in DOMAIN Media[Current]
  BY <1>2, MediaAre DEF DueIn
<1>5. Landed(Target) \subseteq DueIn(mem, Current)
  BY <1>3 DEF Reached, Aligned
<1>6. /\ \A k \in Landed(Target) : k <= position' /\ k # position'
      /\ position' <= Len(Media[Current]) + 1
  <2>1. \A k \in Landed(Target) : k <= position /\ k \in Nat
    BY <1>3, <1>4, <1>5 DEF Reached
  <2> QED
    BY <1>2, <1>4, <2>1
<1>7. CASE SettleEntry /\ answer = "done" /\ mem' = mem
  <2>1. position \in Landed(Target)
    BY <1>7 DEF EntryInv, SettleEntry
  <2>2. \A k \in DOMAIN Media[Current] : k >= position' => k \in DueIn(mem, Current)
    BY <1>2, <1>3, <1>4 DEF Reached
  <2>3. \A k \in DueIn(mem, Current) : k < position' => k \in Landed(Target)
    BY <1>2, <1>3, <1>4, <2>1 DEF Reached
  <2> QED
    BY <1>3, <1>6, <1>7, <2>2, <2>3 DEF Reached
<1>8. ASSUME NEW status \in Barred, Becomes(mem, mem', <<Current, position>>, status),
             position \notin Landed(Target)
      PROVE  Knows(mem', made) /\ Reached(mem', Current, Target, position')
  <2>1. /\ Aligned(mem, Current, Target)
        /\ \A j \in DueIn(mem, Current) : j < position => j \in Landed(Target)
    BY <1>3 DEF Reached
  <2>2. mem'.dest = mem.dest
    BY <1>8 DEF Becomes
  <2>3. /\ Knows(mem', made) /\ DueIn(mem', Current) = DueIn(mem, Current) \ {position}
        /\ Aligned(mem', Current, Target)
    <3>1. /\ Current \in Owned /\ position \in DOMAIN Media[Current] /\ Knows(mem, made)
          /\ mem.dest[Current] # 0 /\ mem.status[Current] # "completed"
      BY <1>2, <1>3, <1>4
    <3>2. /\ Aligned(mem, Current, made[mem.dest[Current]])
          /\ position \notin Landed(made[mem.dest[Current]])
          /\ \A j \in DueIn(mem, Current) : j < position => j \in Landed(made[mem.dest[Current]])
      BY <1>8, <2>1 DEF Target
    <3>3. /\ Knows(mem', made) /\ DueIn(mem', Current) = DueIn(mem, Current) \ {position}
          /\ Aligned(mem', Current, made[mem'.dest[Current]])
      BY <1>8, <3>1, <3>2, KnowsBarred
    <3> QED
      BY <2>2, <3>3 DEF Target
  <2>4. \A k \in DOMAIN Media[Current] : k >= position' => k \in DueIn(mem', Current)
    BY <1>2, <1>3, <1>4, <2>3 DEF Reached
  <2>5. \A k \in DueIn(mem', Current) : k < position' => k \in Landed(Target)
    <3>1. \A k \in DueIn(mem', Current) : k \in Nat /\ k # position /\ k \in DueIn(mem, Current)
      BY <1>4, <2>3
    <3> QED
      BY <1>2, <2>1, <3>1
  <2> QED
    BY <1>6, <2>3, <2>4, <2>5 DEF Reached
<1>9. "unavailable" \in Barred /\ "unsupported" \in Barred
  BY DEF Barred, Limited
<1>10. CASE SettleEntry /\ answer = "gone"
            /\ Becomes(mem, mem', <<Current, position>>, "unavailable")
  <2>1. position \notin Landed(Target)
    BY <1>10 DEF EntryInv, SettleEntry
  <2> QED
    BY <1>6, <1>8, <1>9, <1>10, <2>1
<1>11. CASE RefuseVideo /\ Becomes(mem, mem', <<Current, position>>, "unsupported")
  <2>1. position \notin Landed(Target)
    BY <1>11 DEF EntryInv, RefuseVideo
  <2> QED
    BY <1>6, <1>8, <1>9, <1>11, <2>1
<1> QED
  BY <1>2, <1>7, <1>10, <1>11

(* The playlist ends at an entry: a lost answer leaves the entry due, and  *)
(* a refusal gives it up.                                                  *)
LEMMA FailKnows ==
  ASSUME BaseInv, CreationInv, EntryInv, FailEntry, "garbled" \notin Answers
  PROVE  Knows(mem', made)
<1>1. TypeInv /\ PhaseInv
  BY DEF BaseInv
<1>2. /\ Current \in Owned /\ pc = "entry" /\ answer \notin {"done", "gone"}
      /\ <<Current, position>> \in Entries
  BY <1>1, FailEntryIs
<1>3. PICK status \in Failures \cup {"ambiguous"}, state \in States :
        /\ Becomes(mem, state, <<Current, position>>, FailureStatus(answer))
        /\ Becomes(state, mem', Current, status)
        /\ status = "ambiguous" => fresh
  BY <1>1, FailEntryIs
<1>4. /\ Knows(mem, made) /\ Reached(mem, Current, Target, position)
      /\ mem.dest[Current] # 0 /\ mem.status[Current] # "completed"
      /\ fresh => Target.by = Current
  BY <1>2 DEF EntryInv, CreationInv, Copying, Idle
<1>5. position \in DOMAIN Media[Current] /\ position \in Nat
  BY <1>1, <1>2, MediaAre DEF PhaseInv, TypeInv
<1>6. state.dest = mem.dest /\ position \in DueIn(mem, Current)
  BY <1>3, <1>4, <1>5 DEF Becomes, Reached
<1>7. Knows(state, made)
  <2>1. CASE answer = "lost"
    <3>1. FailureStatus(answer) \notin Barred
      BY <2>1 DEF FailureStatus, Barred, Limited
    <3>2. /\ state.baseline = mem.baseline
          /\ \A c \in Created : state.status[c] = mem.status[c]
          /\ \A e \in Entries : state.status[e] =
               IF e = <<Current, position>> THEN FailureStatus(answer) ELSE mem.status[e]
      BY <1>2, <1>3, CreatedAre, Kinds DEF Becomes
    <3>3. \A p \in Owned : DueIn(state, p) = DueIn(mem, p)
      BY <1>6, <3>1, <3>2, EntriesAre DEF DueIn
    <3> QED
      BY <1>4, <1>6, <3>2, <3>3, KnowsSame
  <2>2. CASE answer = "refused"
    <3>1. FailureStatus(answer) \in Barred
      BY <2>2 DEF FailureStatus, Barred
    <3>2. position \notin Landed(Target)
      BY <1>2, <2>2 DEF EntryInv
    <3>3. /\ Aligned(mem, Current, Target)
          /\ \A j \in DueIn(mem, Current) : j < position => j \in Landed(Target)
      BY <1>4 DEF Reached
    <3> QED
      BY <1>2, <1>3, <1>4, <1>5, <3>1, <3>2, <3>3, KnowsBarred DEF Target
  <2>3. answer \in {"lost", "refused"}
    BY <1>1, <1>2, AnswerAssumption DEF TypeInv, AnswerKinds
  <2> QED
    BY <2>1, <2>2, <2>3
<1>8. Current \in Created /\ Current \notin Folders
  BY <1>2, Kinds
<1>9. status # "completed" /\ status # "creating"
  BY DEF Failures
<1>10. status \in {"creating", "ambiguous"} => made[state.dest[Current]].by = Current
  BY <1>3, <1>4, <1>6, <1>9 DEF Target
<1> QED
  BY <1>3, <1>7, <1>8, <1>9, <1>10, KnowsFailed

(* What a run records of the account stays true.                           *)
LEMMA MarksKnow ==
  ASSUME BaseInv, CreationInv, EntryInv, Marks, DistinctNames, "garbled" \notin Answers
  PROVE  Knows(mem', made)
<1>1. TypeInv /\ PhaseInv
  BY DEF BaseInv
<1>2. Knows(mem, made)
  BY MarksAre DEF EntryInv
<1>3. CASE SettleFavorite
  <2>1. PICK status : Becomes(mem, mem', Current, status)
    BY <1>1, <1>3, SettleFavoriteIs
  <2>2. Current \in Favorites \cup Followed
    BY <1>1, <1>3, SettleFavoriteIs
  <2>3. Current \notin Created /\ Current \notin Entries
    BY <2>2, Kinds
  <2>4. /\ mem'.dest = mem.dest /\ mem'.baseline = mem.baseline
        /\ \A c \in Created : mem'.status[c] = mem.status[c]
        /\ \A e \in Entries : mem'.status[e] = mem.status[e]
    BY <2>1, <2>3, Kinds, CreatedAre DEF Becomes
  <2>5. \A p \in Owned : DueIn(mem', p) = DueIn(mem, p)
    BY <2>4, DueSame
  <2> QED
    BY <1>2, <2>4, <2>5, KnowsSame
<1>4. CASE RefuseOrphan \/ BaselineUnreadable
  <2>1. PICK status \in Failures : Becomes(mem, mem', Current, status)
    BY <1>1, <1>4, RefusesAre
  <2>2. /\ Current \in Created \cup Followed /\ mem.status[Current] \notin Tried
        /\ Current \in Created => (Current \in Folders => mem.dest[Current] = 0)
    BY <1>1, <1>2, <1>4, RefusesAre, Kinds DEF Owned, Tried, Knows, KnowsLists
  <2>3. status # "completed" /\ status \notin {"creating", "ambiguous"}
    BY DEF Failures
  <2>4. CASE Current \in Created
    BY <1>2, <2>1, <2>2, <2>3, <2>4, KnowsFailed
  <2>5. CASE Current \in Followed
    <3>1. Current \notin Created /\ Current \notin Entries
      BY <2>5, Kinds
    <3>2. /\ mem'.dest = mem.dest /\ mem'.baseline = mem.baseline
          /\ \A c \in Created : mem'.status[c] = mem.status[c]
          /\ \A e \in Entries : mem'.status[e] = mem.status[e]
      BY <2>1, <3>1, Kinds, CreatedAre DEF Becomes
    <3>3. \A p \in Owned : DueIn(mem', p) = DueIn(mem, p)
      BY <3>2, DueSame
    <3> QED
      BY <1>2, <3>2, <3>3, KnowsSame
  <2> QED
    BY <2>2, <2>4, <2>5
<1>5. CASE Adopt
  BY <1>2, <1>5, AdoptKnows
<1>6. CASE StoreIntent
  BY <1>2, <1>6, IntentKnows
<1>7. CASE SettleCreation
  BY <1>2, <1>7, SettleKnows
<1>8. CASE Mismatch \/ ListUnreadable \/ FinishPlaylist
  BY <1>8, EndKnows
<1>9. CASE Reconcile
  BY <1>9, ReconcileKnows
<1>10. CASE SettleEntry \/ RefuseVideo
  BY <1>10, EntryKnows
<1>11. CASE FailEntry
  BY <1>11, FailKnows
<1> QED
  BY <1>3, <1>4, <1>5, <1>6, <1>7, <1>8, <1>9, <1>10, <1>11 DEF Marks

(* Where a run goes on after it has recorded something.                    *)
LEMMA MarksLead ==
  ASSUME BaseInv, CreationInv, EntryInv, Marks, DistinctNames
  PROVE  /\ pc' = "run" => ~fresh'
         /\ pc' = "create" => mem'.dest[Current'] = 0 /\ ~OrphanIn(mem', Current')
         /\ pc' \in {"list", "entries"} =>
              /\ mem'.status[Current'] # "completed"
              /\ fresh' => made[mem'.dest[Current']].by = Current'
         /\ pc' = "entries" =>
              /\ Reached(mem', Current', made[mem'.dest[Current']], position')
              /\ position' \notin Landed(made[mem'.dest[Current']])
<1>1. /\ TypeInv /\ PhaseInv /\ Knows(mem, made)
      /\ pc = "run" => ~fresh
  BY MarksAre DEF BaseInv, EntryInv
<1>2. pc \in Copying => /\ mem.status[Current] # "completed"
                        /\ fresh => Target.by = Current
  BY DEF EntryInv
<1>3. CASE SettleFavorite \/ RefuseOrphan \/ BaselineUnreadable \/ Mismatch
             \/ ListUnreadable \/ FinishPlaylist \/ FailEntry
  <2>1. pc' = "run" /\ fresh' = FALSE
    BY <1>1, <1>3, SettleFavoriteIs, RefusesAre, PlaylistEnds, FailEntryIs
       DEF SettleFavorite, Advance
  <2> QED
    BY <2>1
<1>4. CASE StoreIntent
  <2>1. pc' = "create" /\ queue' = queue
    BY <1>1, <1>4, StoreIntentIs
  <2>2. mem'.dest[Current] = 0 /\ ~OrphanIn(mem', Current)
    BY <1>1, <1>4, IntentKnows
  <2>3. Current' = Current
    BY <2>1 DEF Current
  <2> QED
    BY <2>1, <2>2, <2>3
<1>5. CASE Adopt
  <2>1. Current \in Folders => pc' = "run" /\ fresh' = FALSE
    BY <1>1, <1>5, AdoptIs, Kinds
  <2>2. Current \in Owned =>
          /\ pc' = "list" /\ UNCHANGED <<queue, fresh>> /\ pc = "run"
          /\ mem'.status[Current] = "pending"
    BY <1>1, <1>5, AdoptIs, Kinds, CreatedAre
  <2>3. Current \in Folders \cup Owned
    BY <1>1, <1>5, AdoptIs, Kinds
  <2> QED
    BY <1>1, <2>1, <2>2, <2>3 DEF Current
<1>6. CASE SettleCreation
  <2>1. CASE answer # "done"
    BY <1>1, <1>6, <2>1, SettleCreationIs
  <2>2. CASE answer = "done"
    <3>1. /\ Current \in Created
          /\ \E i \in DOMAIN made :
               /\ made[i].by = Current
               /\ \A x \in Created : mem'.dest[x] = IF x = Current THEN i ELSE mem.dest[x]
          /\ \A x \in Objects : mem'.status[x] =
               IF x # Current THEN mem.status[x]
               ELSE IF Current \in Folders THEN "completed" ELSE "creating"
          /\ \/ Current \in Folders /\ pc' = "run" /\ fresh' = FALSE
             \/ Current \in Owned /\ pc' = "list" /\ UNCHANGED <<queue, fresh>>
      BY <1>1, <1>6, <2>2, SettleCreationIs
    <3>2. made[mem'.dest[Current]].by = Current
      BY <3>1
    <3>3. Current \in Owned => mem'.status[Current] = "creating"
      BY <3>1, CreatedAre, Kinds
    <3> QED
      BY <3>1, <3>2, <3>3 DEF Current
  <2> QED
    BY <2>1, <2>2
<1>7. CASE Reconcile
  <2>1. /\ pc = "list" /\ pc' = "entries" /\ UNCHANGED <<queue, fresh>>
        /\ mem'.dest = mem.dest /\ mem'.status[Current] = mem.status[Current]
    BY <1>1, <1>7, ReconcileIs, CreatedAre
  <2>2. Reached(mem', Current, Target, position') /\ position' \notin Landed(Target)
    BY <1>7, ReconcileKnows
  <2> QED
    BY <1>2, <2>1, <2>2 DEF Current, Target, Copying
<1>8. CASE SettleEntry \/ RefuseVideo
  <2>1. /\ pc \in Copying /\ pc' = "entries" /\ UNCHANGED <<queue, fresh>>
        /\ mem'.dest = mem.dest /\ mem'.status[Current] = mem.status[Current]
    BY <1>1, <1>8, EntryMarks, CreatedAre DEF Becomes, Copying
  <2>2. Reached(mem', Current, Target, position') /\ position' \notin Landed(Target)
    BY <1>8, EntryKnows
  <2> QED
    BY <1>2, <2>1, <2>2 DEF Current, Target
<1> QED
  BY <1>3, <1>4, <1>5, <1>6, <1>7, <1>8 DEF Marks

(* A list that somebody adds takes nothing from what is known.             *)
LEMMA AddedIs ==
  ASSUME BaseInv, CreationInv, EntryInv, NEW l \in Lists, made' = Append(made, l),
         Untouched(l), Orderly(l),
         UNCHANGED <<saved, mem, queue>>,
         l.by \in Created => /\ pc = "create" /\ l.by = Current
                             /\ l.name = Name[l.by] /\ l.place = Place(l.by)
  PROVE  /\ \A i \in DOMAIN made' : Orderly(made'[i])
         /\ pc # "done" /\ saved \in States => Knows(saved, made')
         /\ pc \notin Idle => Knows(mem, made')
         /\ pc # "done" /\ saved \notin States => \A i \in DOMAIN made' : Untouched(made'[i])
         /\ pc \in Copying => Target' = Target
<1>1. made \in Seq(Lists) /\ (pc \notin Idle => mem \in States /\ saved \in States)
  BY DEF BaseInv, TypeInv, PhaseInv
<1>2. /\ DOMAIN made \subseteq DOMAIN made' /\ \A i \in DOMAIN made : made'[i] = made[i]
      /\ \A i \in DOMAIN made' : i \in DOMAIN made \/ made'[i] = l
  <2>1. /\ Len(made) \in Nat /\ DOMAIN made = 1 .. Len(made)
        /\ DOMAIN Append(made, l) = 1 .. Len(made) + 1
        /\ \A i \in 1 .. Len(made) : Append(made, l)[i] = made[i]
        /\ Append(made, l)[Len(made) + 1] = l
    BY <1>1
  <2>2. \A i \in 1 .. Len(made) + 1 : i \in 1 .. Len(made) \/ i = Len(made) + 1
    BY <2>1
  <2>3. 1 .. Len(made) \subseteq 1 .. Len(made) + 1
    BY <2>1
  <2> QED
    BY <2>1, <2>2, <2>3
<1>3. \A i \in DOMAIN made : Orderly(made[i])
  BY DEF EntryInv
<1>4. l.by \in Created => saved = mem /\ mem \in States
        /\ l.name = Name[l.by] /\ l.place = PlaceIn(mem, l.by) /\ ~OrphanIn(mem, l.by)
  <2>1. pc = "create" => saved = mem /\ mem \in States /\ ~OrphanIn(mem, Current)
    BY <1>1 DEF EntryInv, CreationInv, Idle, Orphan, OrphanIn
  <2> QED
    BY <2>1 DEF Place, PlaceIn
<1>5. ASSUME pc # "done", saved \in States PROVE Knows(saved, made')
  <2>1. Knows(saved, made)
    BY <1>5 DEF EntryInv
  <2> QED
    BY <1>1, <1>4, <1>5, <2>1, KnowsAppended
<1>6. ASSUME pc \notin Idle PROVE Knows(mem, made')
  <2>1. Knows(mem, made) /\ mem \in States
    BY <1>1, <1>6 DEF EntryInv
  <2> QED
    BY <1>1, <1>4, <2>1, KnowsAppended
<1>7. ASSUME pc # "done", saved \notin States
      PROVE  \A i \in DOMAIN made' : Untouched(made'[i])
  BY <1>2, <1>7 DEF EntryInv
<1>8. ASSUME pc \in Copying PROVE Target' = Target
  <2>1. Knows(mem, made) /\ mem.dest[Current] # 0 /\ Current \in Owned
    BY <1>8 DEF BaseInv, PhaseInv, EntryInv, CreationInv, Copying, Idle
  <2>2. mem.dest[Current] \in DOMAIN made
    BY <2>1, CreatedAre DEF Knows, KnowsLists
  <2>3. Current' = Current
    BY DEF Current
  <2> QED
    BY <1>2, <2>2, <2>3 DEF Target
<1> QED
  BY <1>2, <1>3, <1>5, <1>6, <1>7, <1>8

(* Every step keeps what a checkpoint knows of the lists.                  *)
LEMMA EntryStep ==
  ASSUME BaseInv, BaseInv', CreationInv, EntryInv, [Next]_vars, DistinctNames,
         "garbled" \notin Answers
  PROVE  EntryInv'
<1>1. /\ TypeInv /\ PhaseInv
      /\ \A i \in DOMAIN made : Orderly(made[i])
      /\ pc # "done" /\ saved \in States => Knows(saved, made)
      /\ pc \notin Idle => Knows(mem, made)
      /\ pc # "done" /\ saved \notin States => \A i \in DOMAIN made : Untouched(made[i])
      /\ pc = "done" => saved = NoState
      /\ pc \in Idle \cup {"read", "run"} => ~fresh
      /\ pc = "create" => mem.dest[Current] = 0 /\ ~Orphan(Current)
      /\ pc = "settle" /\ Current \in Created => mem.dest[Current] = 0
  BY DEF BaseInv, EntryInv
<1>2. pc \notin Idle => mem \in States /\ saved \in States
  BY <1>1, RunHolds
<1>3. CASE Opens
  <2>1. /\ pc = "menu" /\ pc' = "read" /\ mem' = saved' /\ made' = made /\ fresh' = fresh
        /\ (saved = NoState /\ saved' = Fresh) \/ (saved # NoState /\ saved' = saved)
    BY <1>3 DEF Opens, Start, Resume, Begin, Checkpoint, remote, loop
  <2>2. saved' \in States
    BY <1>1, <2>1, CheckpointTypes DEF Idle
  <2>3. Knows(saved', made)
    BY <1>1, <2>1, <2>2, StartKnows
  <2> QED
    BY <1>1, <2>1, <2>2, <2>3 DEF EntryInv, Idle, Copying
<1>4. CASE Leaves
  <2>1. /\ pc' \in Idle /\ made' = made /\ pc \notin Idle /\ fresh' = FALSE
        /\ saved' = saved \/ saved' = mem \/ (saved' = NoState /\ pc' = "done")
    BY <1>4, LeavesAre DEF remote
  <2>2. pc' = "done" => saved' = NoState
    BY <1>4 DEF Leaves, ReadFails, CandidatesUnreadable, Verify, VerifyUnreadable,
       Interrupt, Crash, Abort, Leave, Complete, Stopped
  <2>3. pc # "done"
    BY <2>1 DEF Idle
  <2> QED
    BY <1>1, <1>2, <2>1, <2>2, <2>3 DEF EntryInv, Idle, Copying
<1>5. CASE AddFavorite \/ FollowPlaylist
  <2>1. /\ made' = made /\ mem' = mem /\ saved' = mem /\ queue' = queue /\ pc' = "settle"
        /\ pc = "run" /\ Current \notin Created
    BY <1>5, Kinds DEF AddFavorite, FollowPlaylist, Request, AtFavorite, NotBegun, loop
  <2>2. Current' = Current
    BY <2>1 DEF Current
  <2> QED
    BY <1>1, <1>2, <2>1, <2>2 DEF EntryInv, Idle, Copying
<1>6. CASE Create
  <2>1. /\ pc = "create" /\ pc' = "settle" /\ saved' = saved /\ mem' = mem
        /\ queue' = queue /\ Current \in Created /\ NewList \in Lists
        /\ made' = Append(made, NewList) \/ made' = made
    BY <1>1, <1>6, CreateIs, NewListIs DEF loop
  <2>2. /\ NewList.by = Current /\ NewList.name = Name[Current]
        /\ NewList.place = Place(Current) /\ NewList.items = << >>
    BY DEF NewList
  <2>3. Untouched(NewList) /\ Orderly(NewList)
    BY <2>2 DEF Untouched, Orderly
  <2>4. Current' = Current
    BY <2>1 DEF Current
  <2>5. /\ \A i \in DOMAIN made' : Orderly(made'[i])
        /\ Knows(saved, made') /\ Knows(mem, made')
    <3>1. CASE made' = made
      BY <1>1, <1>2, <2>1, <3>1 DEF Idle
    <3>2. CASE made' = Append(made, NewList)
      <4>1. pc # "done" /\ pc \notin Idle /\ saved \in States
        BY <1>2, <2>1 DEF Idle
      <4> HIDE DEF NewList
      <4> QED BY <2>1, <2>2, <2>3, <3>2, <4>1, AddedIs
    <3> QED
      BY <2>1, <3>1, <3>2
  <2>6. saved \in States
    BY <1>2, <2>1 DEF Idle
  <2> QED
    BY <1>1, <2>1, <2>4, <2>5, <2>6 DEF EntryInv, Idle, Copying
<1>7. CASE AppendEntry
  <2>1. /\ pc = "entries" /\ pc' = "entry" /\ answer' \in Answers
        /\ made' = Longer \/ made' = made
        /\ answer' = "done" => made' = Longer
        /\ answer' \in {"refused", "gone"} => made' = made
        /\ saved' = mem /\ mem' = mem
        /\ UNCHANGED <<queue, existing, fresh, position>>
    BY <1>7, AppendIs DEF loop
  <2>2. /\ Knows(mem, made) /\ Reached(mem, Current, Target, position)
        /\ mem.status[Current] # "completed"
        /\ fresh => Target.by = Current
        /\ position \notin Landed(Target) /\ mem \in States
    BY <1>2, <2>1 DEF EntryInv, Idle, Copying
  <2>3. /\ Knows(mem, made') /\ \A i \in DOMAIN made' : Orderly(made'[i])
        /\ Reached(mem, Current, made'[mem.dest[Current]], position)
        /\ made'[mem.dest[Current]].by = Target.by
        /\ answer' = "done" => position \in Landed(made'[mem.dest[Current]])
        /\ answer' \in {"refused", "gone"} => position \notin Landed(made'[mem.dest[Current]])
    <3>1. CASE made' = made
      <4>1. answer' # "done" \/ made' = Longer
        BY <2>1
      <4>2. CASE answer' # "done"
        BY <1>1, <2>2, <3>1, <4>2 DEF Target
      <4>3. CASE made' = Longer
        <5>1. Landed(made'[mem.dest[Current]]) = Landed(Target) \cup {position}
          BY <1>7, <4>3, KnowsLonger
        <5> QED
          BY <2>2, <3>1, <5>1 DEF Target
      <4> QED
        BY <4>1, <4>2, <4>3
    <3>2. CASE made' = Longer
      <4>1. /\ Knows(mem, made')
            /\ \A i \in DOMAIN made' : Orderly(made'[i])
            /\ Landed(made'[mem.dest[Current]]) = Landed(Target) \cup {position}
            /\ made'[mem.dest[Current]].by = Target.by
            /\ Aligned(mem, Current, made'[mem.dest[Current]])
        BY <1>7, <3>2, KnowsLonger
      <4>2. answer' \in {"refused", "gone"} => position \notin Landed(made'[mem.dest[Current]])
        BY <2>1, <2>2 DEF Target
      <4>3. position \in Nat
        BY <1>1 DEF TypeInv
      <4>4. Reached(mem, Current, made'[mem.dest[Current]], position)
        BY <2>2, <4>1, <4>3 DEF Reached
      <4> QED
        BY <4>1, <4>2, <4>4
    <3> QED
      BY <2>1, <3>1, <3>2
  <2>4. Current' = Current /\ Target' = made'[mem.dest[Current]]
    BY <2>1 DEF Current, Target
  <2> QED
    BY <1>1, <2>1, <2>2, <2>3, <2>4 DEF EntryInv, Idle, Copying
<1>8. CASE Marks
  <2>1. /\ mem' \in States /\ saved' = mem' /\ made' = made
        /\ pc' \in {"run", "create", "list", "entries"}
    BY <1>1, <1>8, MarksTypes, MarksAre DEF remote
  <2>2. Knows(mem', made)
    BY <1>8, MarksKnow
  <2>3. /\ pc' = "run" => ~fresh'
        /\ pc' = "create" => mem'.dest[Current'] = 0 /\ ~OrphanIn(mem', Current')
        /\ pc' \in {"list", "entries"} =>
             /\ mem'.status[Current'] # "completed"
             /\ fresh' => made[mem'.dest[Current']].by = Current'
        /\ pc' = "entries" =>
             /\ Reached(mem', Current', made[mem'.dest[Current']], position')
             /\ position' \notin Landed(made[mem'.dest[Current']])
    BY <1>8, MarksLead
  <2>4. Target' = made[mem'.dest[Current']]
    BY <2>1 DEF Target
  <2>5. Orphan(Current)' <=> OrphanIn(mem', Current')
    BY DEF Orphan, OrphanIn
  <2> QED
    BY <1>1, <2>1, <2>2, <2>3, <2>4, <2>5 DEF EntryInv, Idle, Copying
<1>9. CASE Passes
  <2>1. /\ UNCHANGED <<made, mem, saved>> /\ pc \notin Idle
        /\ pc' \in {"run", "list", "verify"}
    BY <1>9, PassesAre DEF remote
  <2>2. /\ pc' = "run" => ~fresh'
        /\ pc' = "list" => ~fresh' /\ mem.status[Current'] # "completed"
    <3>1. CASE OpenPlaylist
      BY <1>1, <3>1 DEF OpenPlaylist, NotBegun, Current, loop
    <3>2. CASE ~OpenPlaylist
      BY <1>1, <1>9, <3>2 DEF Passes, ReadFavorites, SkipFavorite, SkipCompleted, Conflict,
         FinishRun, Advance
    <3> QED
      BY <3>1, <3>2
  <2> QED
    BY <1>1, <1>2, <2>1, <2>2 DEF EntryInv, Idle, Copying
<1>10. CASE NoteFavorite
  <2>1. /\ made' = made /\ saved' = saved /\ pc' = "run" /\ pc = "run" /\ fresh' = FALSE
        /\ Current \in Favorites /\ mem' = Marked(mem, Current, "already_present")
    BY <1>10 DEF NoteFavorite, AtFavorite, Advance, remote
  <2>2. Becomes(mem, mem', Current, "already_present")
    BY <1>2, <2>1, Kinds, MarkedBecomes DEF Statuses, Idle
  <2>3. Current \notin Created /\ Current \notin Entries
    BY <2>1, Kinds
  <2>4. /\ mem'.dest = mem.dest /\ mem'.baseline = mem.baseline
        /\ \A c \in Created : mem'.status[c] = mem.status[c]
        /\ \A e \in Entries : mem'.status[e] = mem.status[e]
    BY <2>2, <2>3, Kinds, CreatedAre DEF Becomes
  <2>5. \A p \in Owned : DueIn(mem', p) = DueIn(mem, p)
    BY <2>4, DueSame
  <2>6. Knows(mem', made)
    BY <1>1, <2>1, <2>4, <2>5, KnowsSame DEF Idle
  <2> QED
    BY <1>1, <1>2, <2>1, <2>6 DEF EntryInv, Idle, Copying
<1>11. CASE OtherClient
  <2>1. UNCHANGED <<saved, mem, pc, queue, existing, fresh, position, answer>>
    BY <1>11, OtherIs DEF loop
  <2>2. Current' = Current
    BY <2>1 DEF Current
  <2>3. /\ \A i \in DOMAIN made' : Orderly(made'[i])
        /\ pc # "done" /\ saved \in States => Knows(saved, made')
        /\ pc \notin Idle => Knows(mem, made')
        /\ pc # "done" /\ saved \notin States => \A i \in DOMAIN made' : Untouched(made'[i])
        /\ pc \in Copying => Target' = Target
    <3>1. CASE made' = made
      BY <1>1, <2>1, <2>2, <3>1 DEF Target
    <3>2. CASE \E c \in Created : \E at \in PlacesOf(c), items \in {<< >>} \cup OneOf(c) :
                 made' = Append(made, Others(c, at, items))
      <4>1. PICK c \in Created : \E at \in PlacesOf(c), items \in {<< >>} \cup OneOf(c) :
              made' = Append(made, Others(c, at, items))
        BY <3>2
      <4>2. PICK at \in PlacesOf(c), items \in {<< >>} \cup OneOf(c) :
              made' = Append(made, Others(c, at, items))
        BY <4>1
      <4> DEFINE l == Others(c, at, items)
      <4>3. l \in Lists /\ l.by = Root /\ l.name = Name[c] /\ l.items = items
        BY <1>1, OthersAre DEF Others
      <4>4. Untouched(l) /\ Orderly(l)
        <5>1. CASE items = << >>
          BY <4>3, <5>1 DEF Untouched, Orderly
        <5>2. CASE items \in OneOf(c)
          <6>1. c \in Owned
            BY <5>2, Kinds DEF OneOf
          <6>2. PICK k \in DOMAIN Media[c] : items = << <<c, k>> >>
            BY <5>2 DEF OneOf
          <6>3. DOMAIN items = {1} /\ items[1] = <<c, k>>
            BY <6>2
          <6> QED
            BY <4>3, <5>2, <6>1, <6>3 DEF Untouched, Orderly
        <5> QED
          BY <5>1, <5>2
      <4>5. l.by \notin Created
        BY <4>3, Kinds
      <4>6. made' = Append(made, l)
        BY <4>2
      <4> HIDE DEF l
      <4> QED
        BY <2>1, <4>3, <4>4, <4>5, <4>6, AddedIs
    <3> QED
      BY <1>11, <3>1, <3>2, OtherIs
  <2>4. Orphan(Current)' <=> Orphan(Current)
    BY <2>1, <2>2 DEF Orphan
  <2>5. /\ pc \in Copying => /\ mem.status[Current] # "completed"
                             /\ fresh => Target.by = Current
        /\ pc \in {"entries", "entry"} => Reached(mem, Current, Target, position)
        /\ pc = "entries" \/ (pc = "entry" /\ answer \in {"refused", "gone"}) =>
             position \notin Landed(Target)
        /\ pc = "entry" /\ answer = "done" => position \in Landed(Target)
    BY DEF EntryInv
  <2>6. pc \in {"entries", "entry"} => pc \in Copying
    BY DEF Copying
  <2> QED
    BY <1>1, <2>1, <2>2, <2>3, <2>4, <2>5, <2>6 DEF EntryInv
<1>12. CASE UNCHANGED vars
  BY <1>12 DEF vars, remote, loop, EntryInv, Current, Orphan, Target
<1> QED
  BY <1>3, <1>4, <1>5, <1>6, <1>7, <1>8, <1>9, <1>10, <1>11, <1>12, StepsAre DEF Sends

(* There are no lists of the snapshot, and no checkpoint.                  *)
LEMMA EntryInit ==
  ASSUME Init
  PROVE  EntryInv
<1>1. made = << >> /\ pc = "menu" /\ saved = NoState /\ fresh = FALSE
  BY DEF Init
<1>2. DOMAIN made = {}
  BY <1>1
<1>3. saved \in States => Knows(saved, made)
  <2>1. ASSUME saved \in States PROVE Objects = {}
    BY <1>1, <2>1, NoStateIs
  <2>2. ASSUME saved \in States PROVE Created = {} /\ Owned = {} /\ Folders = {}
    BY <2>1, <2>2, CreatedAre, Kinds
  <2> QED
    BY <1>2, <2>2 DEF Knows, KnowsLists, KnowsEntries
<1> QED
  BY <1>1, <1>2, <1>3 DEF EntryInv, Idle, Copying

(* In every run, a checkpoint is true of the lists that it names.          *)
LEMMA EntryHolds ==
  ASSUME DistinctNames, "garbled" \notin Answers
  PROVE  Spec => []EntryInv
<1>1. Init => EntryInv
  BY EntryInit
<1>2. BaseInv /\ BaseInv' /\ CreationInv /\ EntryInv /\ [Next]_vars => EntryInv'
  BY EntryStep
<1> QED
  BY <1>1, <1>2, BaseHolds, CreationHolds, PTL DEF Spec

(* An entry is appended once and in the order of the source, whichever     *)
(* answer is lost and wherever the process stops, in every snapshot whose  *)
(* playlists are told apart by their names, as long as nothing lands that  *)
(* is reported as a definite failure (transfer.py:388-428).                *)
THEOREM EntriesLandOnceInOrder ==
  ASSUME DistinctNames, "garbled" \notin Answers
  PROVE  Spec => []EntriesOnceInOrder
<1>1. BaseInv /\ EntryInv => EntriesOnceInOrder
  <2>1. SUFFICES ASSUME BaseInv, EntryInv, NEW i \in DOMAIN made,
                        NEW k \in DOMAIN made[i].items, NEW l \in DOMAIN made[i].items, k < l
                 PROVE  /\ made[i].items[k][1] = made[i].items[l][1]
                        /\ made[i].items[k][2] < made[i].items[l][2]
    BY DEF EntriesOnceInOrder
  <2> DEFINE items == made[i].items
  <2>2. Orderly(made[i])
    BY <2>1 DEF EntryInv
  <2>3. /\ made[i].name = Name[items[k][1]] /\ made[i].name = Name[items[l][1]]
        /\ items[k][2] < items[l][2]
    BY <2>1, <2>2 DEF Orderly
  <2>4. items[k][1] \in Owned /\ items[l][1] \in Owned
    <3>1. made[i] \in Lists
      BY <2>1 DEF BaseInv, TypeInv
    <3>2. items \in Seq(Entries)
      BY <3>1 DEF Lists
    <3>3. items[k] \in Entries /\ items[l] \in Entries
      <4> HIDE DEF items
      <4>1. k \in DOMAIN items /\ l \in DOMAIN items
        BY DEF items
      <4> QED
        BY <3>2, <4>1
    <3>4. \A e \in Entries : e[1] \in Owned
      BY DEF Entries
    <3> QED
      BY <3>3, <3>4
  <2>5. items[k][1] = items[l][1]
    BY <2>3, <2>4, CreatedAre DEF DistinctNames
  <2> QED
    BY <2>3, <2>5
<1> QED
  BY <1>1, BaseHolds, EntryHolds, PTL

(* Entry for entry, the list of a completed playlist is what is due.       *)
LEMMA CompletedList ==
  ASSUME BaseInv, EntryInv, DistinctNames, saved # NoState,
         NEW p \in Owned, saved.status[p] = "completed"
  PROVE  /\ saved.dest[p] # 0
         /\ \E m \in Nat : \E g \in [1 .. m -> DueIn(saved, p)] :
              /\ DOMAIN made[saved.dest[p]].items = 1 .. m
              /\ Len(made[saved.dest[p]].items) = m
              /\ \A k \in 1 .. m : made[saved.dest[p]].items[k] = <<p, g[k]>>
              /\ \A a, b \in 1 .. m : g[a] = g[b] => a = b
              /\ \A k \in DueIn(saved, p) : \E a \in 1 .. m : g[a] = k
<1> DEFINE d == saved.dest[p]
           items == made[d].items
           m == Len(items)
           g == [k \in 1 .. m |-> items[k][2]]
<1>1. saved \in States /\ pc # "done" /\ made \in Seq(Lists)
  BY DEF BaseInv, TypeInv, EntryInv
<1>2. Knows(saved, made) /\ \A i \in DOMAIN made : Orderly(made[i])
  BY <1>1 DEF EntryInv
<1>3. /\ d # 0 /\ Aligned(saved, p, made[d]) /\ DueIn(saved, p) \subseteq Landed(made[d])
  BY <1>2 DEF Knows, KnowsEntries
<1>4. d \in DOMAIN made /\ made[d].name = Name[p] /\ made[d] \in Lists
  BY <1>1, <1>2, <1>3, CreatedAre DEF Knows, KnowsLists
<1>5. items \in Seq(Entries)
  BY <1>4 DEF Lists
<1>6. m \in Nat /\ DOMAIN items = 1 .. m /\ \A k \in 1 .. m : items[k] \in Entries
  <2> HIDE DEF items
  <2> QED BY <1>5
<1>7. Orderly(made[d])
  BY <1>2, <1>4
<1>8. /\ \A k \in 1 .. m : made[d].name = Name[items[k][1]]
      /\ \A j, k \in 1 .. m : j < k => items[j][2] < items[k][2]
  BY <1>6, <1>7 DEF Orderly
<1>9. Landed(made[d]) = {items[k][2] : k \in 1 .. m}
  BY <1>6 DEF Landed
<1>10. \A e \in Entries : e[1] \in Owned /\ e = <<e[1], e[2]>> /\ e[2] \in DOMAIN Media[e[1]]
  BY DEF Entries
<1> HIDE DEF d, items, m
<1>11. \A k \in 1 .. m : items[k][1] = p
  BY <1>4, <1>6, <1>8, <1>10, CreatedAre DEF DistinctNames
<1>12. \A k \in 1 .. m : items[k] = <<p, g[k]>> /\ g[k] = items[k][2]
  BY <1>6, <1>10, <1>11
<1>13. g \in [1 .. m -> DueIn(saved, p)]
  <2>1. Landed(made[d]) \subseteq DueIn(saved, p)
    BY <1>3 DEF Aligned
  <2> QED
    BY <1>9, <2>1
<1>14. \A k \in DueIn(saved, p) : \E a \in 1 .. m : g[a] = k
  BY <1>3, <1>9
<1>15. ASSUME NEW a \in 1 .. m, NEW b \in 1 .. m, g[a] = g[b] PROVE a = b
  <2>1. items[a][2] = items[b][2] /\ items[a][2] \in Nat
    <3>1. items[a][2] \in DOMAIN Media[p]
      BY <1>6, <1>10, <1>11
    <3> QED
      BY <1>12, <1>15, <3>1, MediaAre
  <2>2. CASE a < b
    BY <1>8, <2>1, <2>2
  <2>3. CASE b < a
    BY <1>8, <2>1, <2>3
  <2> QED
    BY <1>6, <2>2, <2>3
<1> HIDE DEF g
<1>16. /\ DOMAIN items = 1 .. m /\ Len(items) = m
       /\ \A k \in 1 .. m : items[k] = <<p, g[k]>>
  BY <1>6, <1>12 DEF m
<1>17. \E h \in [1 .. m -> DueIn(saved, p)] :
         /\ DOMAIN items = 1 .. m /\ Len(items) = m
         /\ \A k \in 1 .. m : items[k] = <<p, h[k]>>
         /\ \A a, b \in 1 .. m : h[a] = h[b] => a = b
         /\ \A k \in DueIn(saved, p) : \E a \in 1 .. m : h[a] = k
  BY <1>13, <1>14, <1>15, <1>16
<1> HIDE DEF m
<1> QED
  BY <1>3, <1>6, <1>17 DEF d, items

(* A playlist recorded as completed holds, one for one, the media of the   *)
(* entries that are not recorded as limited, under the same conditions     *)
(* (transfer.py:352-386, 403-428).                                         *)
THEOREM CompletedPlaylistsHoldAll ==
  ASSUME DistinctNames, "garbled" \notin Answers
  PROVE  Spec => []CompletedHoldsAll
<1>1. BaseInv /\ EntryInv => CompletedHoldsAll
  <2>1. SUFFICES ASSUME BaseInv, EntryInv, saved # NoState, NEW p \in Owned,
                        saved.status[p] = "completed"
                 PROVE  /\ saved.dest[p] # 0
                        /\ Len(made[saved.dest[p]].items) = Cardinality(DueIn(saved, p))
                        /\ \A x \in ToSet(Media[p]) :
                             Cardinality({k \in DOMAIN made[saved.dest[p]].items :
                                Media[made[saved.dest[p]].items[k][1]][made[saved.dest[p]].items[k][2]] = x})
                               = Cardinality({k \in DueIn(saved, p) : Media[p][k] = x})
    BY DEF CompletedHoldsAll, DueIn
  <2> DEFINE items == made[saved.dest[p]].items
  <2>2. saved.dest[p] # 0
    BY <2>1, CompletedList
  <2>3. PICK m \in Nat : \E g \in [1 .. m -> DueIn(saved, p)] :
              /\ DOMAIN items = 1 .. m /\ Len(items) = m
              /\ \A k \in 1 .. m : items[k] = <<p, g[k]>>
              /\ \A a, b \in 1 .. m : g[a] = g[b] => a = b
              /\ \A k \in DueIn(saved, p) : \E a \in 1 .. m : g[a] = k
    BY <2>1, CompletedList
  <2>4. PICK g \in [1 .. m -> DueIn(saved, p)] :
              /\ DOMAIN items = 1 .. m /\ Len(items) = m
              /\ \A k \in 1 .. m : items[k] = <<p, g[k]>>
              /\ \A a, b \in 1 .. m : g[a] = g[b] => a = b
              /\ \A k \in DueIn(saved, p) : \E a \in 1 .. m : g[a] = k
    BY <2>3
  <2> HIDE DEF items
  <2>5. Len(items) = Cardinality(DueIn(saved, p))
    BY <2>4, SizeOfList
  <2>6. ASSUME NEW x \in ToSet(Media[p])
        PROVE  Cardinality({k \in DOMAIN items : Media[items[k][1]][items[k][2]] = x})
                 = Cardinality({k \in DueIn(saved, p) : Media[p][k] = x})
    <3> DEFINE S == {k \in 1 .. m : Media[p][g[k]] = x}
               T == {k \in DueIn(saved, p) : Media[p][k] = x}
               h == [k \in S |-> g[k]]
    <3>1. {k \in DOMAIN items : Media[items[k][1]][items[k][2]] = x} = S
      BY <2>4
    <3>2. IsFiniteSet(S)
      <4>1. IsFiniteSet(1 .. m)
        BY FS_Interval
      <4> QED
        BY <4>1, FS_Subset
    <3>3. h \in [S -> T] /\ \A k \in S : h[k] = g[k] /\ k \in 1 .. m
      <4>1. \A k \in S : k \in 1 .. m /\ g[k] \in T
        BY <2>4
      <4> QED
        BY <4>1
    <3>4. \A a, b \in S : h[a] = h[b] => a = b
      BY <2>4, <3>3
    <3>5. \A k \in T : \E a \in S : h[a] = k
      BY <2>4, <3>3
    <3> HIDE DEF h, S, T
    <3>6. Cardinality(T) = Cardinality(S)
      BY <3>2, <3>3, <3>4, <3>5, SameSize
    <3> QED
      BY <3>1, <3>6 DEF T
  <2> QED
    BY <2>2, <2>5, <2>6 DEF items
<1> QED
  BY <1>1, BaseHolds, EntryHolds, PTL
============================================================================
