----------------------- MODULE TransferExecutionProofs -----------------------
(***************************************************************************)
(* Theorems about TransferExecution, for every plan, destination and       *)
(* number of crashes.                                                      *)
(***************************************************************************)
EXTENDS TransferExecution, FiniteSetTheorems, TLAPS

(* A write that has returned belongs to an item that was not settled, and  *)
(* only such a write is waiting for its record.                            *)
SettleInv ==
  /\ pc = "settle" => /\ current \in Items
                      /\ outcome \in Outcomes
                      /\ ~Settled(current)
  /\ pc # "settle" => current = None

TypeInv == TypeOK /\ SettleInv
----------------------------------------------------------------------------
(* What the planner gives: an item's status, already_exists only for what  *)
(* the library has.                                                        *)
LEMMA PlannedTypes ==
  ASSUME NEW present, NEW s \in PlannedStatuses(present)
  PROVE  /\ s \in [Items -> ItemStatus]
         /\ \A i \in Items : s[i] \in {"transferred", "already_exists"} =>
              i \in Favorites /\ Target[i] \in present
<1>1. PICK skipped \in SUBSET AlreadyThere(present), searched \in SearchResults :
        s = [i \in Items |->
               IF i \in skipped THEN "already_exists"
               ELSE IF i \in DOMAIN searched THEN searched[i]
               ELSE IF Target[i] = None THEN "pending" ELSE "matched"]
  BY DEF PlannedStatuses
<1>2. /\ \A i \in DOMAIN searched :
           searched[i] \in {"pending", "not_found", "ambiguous"}
      /\ \A i \in skipped : i \in Favorites /\ Target[i] \in present
  BY DEF SearchResults, AlreadyThere
<1>3. \A i \in Items :
        \/ s[i] = "already_exists" /\ i \in Favorites /\ Target[i] \in present
        \/ s[i] \in {"pending", "not_found", "ambiguous", "matched"}
  BY <1>1, <1>2
<1>4. s \in [Items -> ItemStatus]
  BY <1>1, <1>3 DEF ItemStatus
<1> QED
  BY <1>3, <1>4

(* Init establishes the types.                                             *)
LEMMA TypeInit == Init => TypeInv
<1> SUFFICES ASSUME Init PROVE TypeInv
  OBVIOUS
<1> USE ItemsAssumption, PlanAssumption, EnvironmentAssumption
<1>1. library \subseteq Ids
  BY SMTT(30) DEF Init, Items
<1>2. owner \in [Lists -> Playlists \cup {None}]
  <2>1. ASSUME NEW l \in Lists, \E p \in Playlists : Target[p] = l
        PROVE  (CHOOSE p \in Playlists : Target[p] = l) \in Playlists
    BY <2>1
  <2> QED
    BY <2>1 DEF Init
<1>3. lists \in [Lists -> Seq(Entries)]
  BY DEF Init
<1>4. itemStore \in [Items -> ItemRecord]
  <2>1. PICK s \in PlannedStatuses(library) :
          itemStore = [i \in Items |->
            [status |-> s[i], attempts |-> 0, kind |-> None,
             list |-> IF i \in Playlists THEN Target[i] ELSE None]]
    BY DEF Init
  <2> QED
    BY <2>1, PlannedTypes DEF ItemRecord, Items
<1>5. /\ jobStatus = "created" /\ dryRun \in BOOLEAN /\ planned = FALSE
      /\ pc = "down" /\ queue = {} /\ current = None
      /\ outcome = None /\ snapshot = {}
      /\ cancel = FALSE /\ cancelled = FALSE /\ crashes = 0
  BY DEF Init
<1>6. known \in [Items -> Lists \cup {None}]
  BY DEF Init, NothingKnown
<1>7. SettleInv
  BY DEF Init, SettleInv
<1>8. crashes \in 0..MaxCrashes
  BY <1>5
<1>9. jobStatus \in JobStatus /\ pc \in Phases
  BY <1>5 DEF JobStatus, Phases
<1>10. /\ queue \subseteq Items /\ current \in Items \cup {None}
       /\ outcome \in Outcomes \cup {None} /\ snapshot \subseteq Sections
       /\ dryRun \in BOOLEAN /\ planned \in BOOLEAN
       /\ cancel \in BOOLEAN /\ cancelled \in BOOLEAN
  BY <1>5
<1> QED
  BY <1>1, <1>2, <1>3, <1>4, <1>6, <1>7, <1>8, <1>9, <1>10 DEF TypeInv, TypeOK

(* What the actions share.                                                 *)
LEMMA StatusTypes ==
  /\ FailureStatus \in [FailureKind -> ItemStatus]
  /\ Outcomes \ {"ok"} \subseteq FailureKind
  /\ None \notin Items
  /\ \A k \in FailureKind : FailureStatus[k] \notin TerminalItemStatuses
BY ItemsAssumption, EnvironmentAssumption
   DEF FailureStatus, FailureKind, ItemStatus, Outcomes, TerminalItemStatuses

(* items.update stores an item of the right shape.                         *)
LEMMA RecordType ==
  ASSUME TypeOK, NEW i \in Items, NEW status \in ItemStatus,
         NEW kind \in FailureKind \cup {None}, Record(i, status, kind)
  PROVE  itemStore' \in [Items -> ItemRecord]
<1>1. Attempts(i) \in 0..MaxAttempts
  BY EnvironmentAssumption DEF TypeOK, ItemRecord, Attempts
<1> QED
  BY <1>1 DEF TypeOK, ItemRecord, Record

(* A process that ends leaves well-typed, empty memory.                    *)
LEMMA GoDownType ==
  ASSUME GoDown
  PROVE  /\ pc' \in Phases /\ queue' \subseteq Items
         /\ current' \in Items \cup {None} /\ outcome' \in Outcomes \cup {None}
         /\ known' \in [Items -> Lists \cup {None}]
         /\ snapshot' \subseteq Sections
         /\ cancel' \in BOOLEAN /\ cancelled' \in BOOLEAN
         /\ SettleInv'
BY DEF GoDown, Phases, NothingKnown, SettleInv

(* transition() keeps the status among the declared ones.                  *)
LEMMA TransitionType ==
  ASSUME TypeOK, NEW target \in JobStatus, Transition(target)
  PROVE  jobStatus' \in JobStatus
BY DEF Transition

(* The statuses analyze() persists.                                        *)
LEMMA AnalyzeType == TypeInv /\ Analyze => TypeInv'
<1> SUFFICES ASSUME TypeInv, Analyze PROVE TypeInv'
  OBVIOUS
<1>1. /\ jobStatus' \in JobStatus
      /\ planned' \in BOOLEAN
      /\ pc' \in Phases \ {"settle"}
      /\ pc # "settle"
  BY DEF TypeInv, TypeOK, Analyze, Authenticate, Export, Plan, StoreItems,
         AwaitConfirmation, Transition, JobStatus, Phases, process
<1>2. UNCHANGED <<destination, dryRun, itemStore, queue, current, outcome,
                  known, snapshot, cancel, cancelled, crashes>>
  BY DEF Analyze, Authenticate, Export, Plan, StoreItems, AwaitConfirmation,
         process, store
<1> QED
  BY <1>1, <1>2 DEF TypeInv, TypeOK, SettleInv, destination

(* The executor starts with a queue and memory taken from the store.       *)
LEMMA StartType ==
  ASSUME TypeInv, StartExecutor, UNCHANGED itemStore, pc # "settle"
  PROVE  /\ pc' \in Phases /\ queue' \subseteq Items
         /\ current' \in Items \cup {None} /\ outcome' \in Outcomes \cup {None}
         /\ known' \in [Items -> Lists \cup {None}]
         /\ cancelled' \in BOOLEAN
         /\ SettleInv'
BY DEF TypeInv, TypeOK, StartExecutor, Phases, SettleInv, ItemRecord

(* The steps of a run that touch no item but its beginning and end.        *)
LEMMA RunEdgesType ==
  TypeInv /\ (Answer \/ Resume \/ EnterImport \/ FinishDryRun \/ FinishJob
                \/ Crash \/ RequestCancellation
                \/ \E s \in {"cancelled", "failed"} : Retire(s))
    => TypeInv'
<1> SUFFICES ASSUME TypeInv PROVE
      Answer \/ Resume \/ EnterImport \/ FinishDryRun \/ FinishJob \/ Crash
        \/ RequestCancellation \/ (\E s \in {"cancelled", "failed"} : Retire(s))
      => TypeInv'
  OBVIOUS
<1>1. CASE Confirm
  <2>1. jobStatus' \in JobStatus
    BY <1>1, TransitionType DEF Confirm, TypeInv, JobStatus
  <2>2. UNCHANGED <<destination, dryRun, planned, itemStore, snapshot, cancel,
                    crashes>> /\ StartExecutor /\ pc # "settle"
    BY <1>1 DEF Confirm
  <2> QED
    BY <2>1, <2>2, StartType DEF TypeInv, TypeOK, destination
<1>2. CASE Decline
  BY <1>2, GoDownType DEF Decline, TypeInv, TypeOK, destination, store
<1>3. CASE Resume
  BY <1>3 DEF Resume, TypeInv, TypeOK, SettleInv, destination, store, Phases
<1>4. CASE EnterImport
  <2>1. /\ UNCHANGED <<destination, dryRun, planned, itemStore, crashes>>
        /\ StartExecutor /\ pc # "settle"
        /\ jobStatus' \in JobStatus /\ snapshot' \subseteq Sections
    BY <1>4 DEF EnterImport, JobStatus
  <2>2. cancel' \in BOOLEAN
    BY <1>4 DEF EnterImport, TypeInv, TypeOK
  <2> QED
    BY <2>1, <2>2, StartType DEF TypeInv, TypeOK, destination
<1>5. CASE FinishDryRun
  BY <1>5, GoDownType
     DEF FinishDryRun, TypeInv, TypeOK, destination, JobStatus
<1>6. CASE FinishJob
  BY <1>6, GoDownType DEF FinishJob, TypeInv, TypeOK, destination, JobStatus
<1>7. CASE Crash
  <2>1. crashes' \in 0..MaxCrashes
    BY <1>7, EnvironmentAssumption DEF Crash, TypeInv, TypeOK
  <2> QED
    BY <1>7, <2>1, GoDownType DEF Crash, TypeInv, TypeOK, destination, store
<1>8. CASE RequestCancellation
  BY <1>8
     DEF RequestCancellation, TypeInv, TypeOK, SettleInv, Settled, destination,
         store
<1>9. CASE \E s \in {"cancelled", "failed"} : Retire(s)
  BY <1>9
     DEF Retire, TypeInv, TypeOK, SettleInv, destination, process, JobStatus
<1> QED
  BY <1>1, <1>2, <1>3, <1>4, <1>5, <1>6, <1>7, <1>8, <1>9 DEF Answer

(* The actions that only change one stored item.                           *)
LEMMA ItemOnlyType ==
  ASSUME TypeInv, NEW i \in Items, Visiting(i),
         UNCHANGED <<destination, jobStatus, dryRun, planned, pc, current,
                     outcome, known, snapshot, cancel, cancelled, crashes>>,
         itemStore' \in [Items -> ItemRecord]
  PROVE  TypeInv'
BY DEF TypeInv, TypeOK, SettleInv, Visiting, destination

(* The visits of the loop that call no write.                              *)
LEMMA VisitType ==
  ASSUME TypeInv, NEW i \in Items,
         SkipSettled(i) \/ DryRunItem(i) \/ RefuseMissing(i) \/ FailRead(i)
           \/ RefuseMismatch(i) \/ ConfirmLanded(i)
  PROVE  TypeInv'
<1>1. CASE SkipSettled(i)
  BY <1>1, ItemOnlyType DEF SkipSettled, store, TypeInv, TypeOK
<1>2. CASE DryRunItem(i)
  <2>1. itemStore' \in [Items -> ItemRecord]
    BY <1>2 DEF DryRunItem, TypeInv, TypeOK, ItemRecord, ItemStatus
  <2> QED
    BY <1>2, <2>1, ItemOnlyType DEF DryRunItem
<1>3. CASE RefuseMissing(i)
  <2>1. itemStore' \in [Items -> ItemRecord]
    BY <1>3, RecordType
       DEF RefuseMissing, TypeInv, ItemStatus, FailureKind
  <2> QED
    BY <1>3, <2>1, ItemOnlyType DEF RefuseMissing, Attempting
<1>4. CASE FailRead(i)
  <2>1. itemStore' \in [Items -> ItemRecord]
    BY <1>4, RecordType, StatusTypes, EnvironmentAssumption
       DEF FailRead, TypeInv
  <2> QED
    BY <1>4, <2>1, ItemOnlyType DEF FailRead, Reconciling, Attempting
<1>5. CASE RefuseMismatch(i)
  <2>1. itemStore' \in [Items -> ItemRecord]
    BY <1>5, RecordType
       DEF RefuseMismatch, TypeInv, ItemStatus, FailureKind
  <2> QED
    BY <1>5, <2>1, ItemOnlyType DEF RefuseMismatch, Reconciling, Attempting
<1>6. CASE ConfirmLanded(i)
  <2>1. itemStore' \in [Items -> ItemRecord]
    BY <1>6, RecordType DEF ConfirmLanded, TypeInv, ItemStatus
  <2> QED
    BY <1>6, <2>1, ItemOnlyType DEF ConfirmLanded, Reconciling, Attempting
<1> QED
  BY <1>1, <1>2, <1>3, <1>4, <1>5, <1>6

(* The actions that issue a write.                                         *)
LEMMA CallType ==
  ASSUME TypeInv, NEW i \in Items, NEW o \in Outcomes, Attempting(i),
         CallReturns(i, o),
         library' \subseteq Ids,
         owner' \in [Lists -> Playlists \cup {None}],
         lists' \in [Lists -> Seq(Entries)],
         known' \in [Items -> Lists \cup {None}]
  PROVE  TypeInv'
BY DEF TypeInv, TypeOK, SettleInv, Attempting, Visiting, Settled, CallReturns,
       store, Phases

(* The visits that call the destination.                                   *)
LEMMA WriteType ==
  ASSUME TypeInv, NEW i \in Items,
         SaveFavorite(i) \/ CreatePlaylist(i) \/ ReusePlaylist(i)
           \/ AppendEntry(i)
  PROVE  TypeInv'
<1> USE DEF TypeInv, TypeOK
<1>1. CASE SaveFavorite(i)
  <2>1. PICK o \in Outcomes : \E landed \in Effects(o) :
          /\ library' = IF landed THEN library \cup {Target[i]} ELSE library
          /\ CallReturns(i, o)
    BY <1>1 DEF SaveFavorite
  <2>2. i \in Favorites /\ Target[i] \in Ids
    BY <1>1, PlanAssumption DEF SaveFavorite, MissingIdentifier
  <2>3. library' \subseteq Ids
    BY <2>1, <2>2
  <2> QED
    BY <1>1, <2>1, <2>3, CallType DEF SaveFavorite
<1>2. CASE CreatePlaylist(i)
  <2>1. PICK o \in Outcomes : \E landed \in Effects(o) :
          /\ IF landed
               THEN \E l \in {m \in Lists : owner[m] = None} :
                      /\ owner' = [owner EXCEPT ![l] = i]
                      /\ known' = IF o = "ok" THEN Propagate(i, l) ELSE known
               ELSE UNCHANGED <<owner, known>>
          /\ CallReturns(i, o)
    BY <1>2 DEF CreatePlaylist
  <2>2. i \in Playlists /\ Attempting(i) /\ UNCHANGED <<library, lists>>
    BY <1>2 DEF CreatePlaylist
  <2>3. /\ owner' \in [Lists -> Playlists \cup {None}]
        /\ known' \in [Items -> Lists \cup {None}]
    BY <2>1, <2>2 DEF Propagate
  <2> QED
    BY <2>1, <2>2, <2>3, CallType
<1>3. CASE ReusePlaylist(i)
  <2>1. /\ i \in Playlists /\ Attempting(i) /\ UNCHANGED destination
        /\ CallReturns(i, "ok") /\ known' \in [Items -> Lists \cup {None}]
    BY <1>3 DEF ReusePlaylist, Propagate
  <2>2. "ok" \in Outcomes
    BY DEF Outcomes
  <2> QED
    BY <2>1, <2>2, CallType DEF destination
<1>4. CASE AppendEntry(i)
  <2>1. PICK o \in Outcomes : \E landed \in Effects(o) :
          /\ lists' = IF landed
                        THEN [lists EXCEPT ![ListOf(i)] = Append(@, i)]
                        ELSE lists
          /\ CallReturns(i, o)
    BY <1>4 DEF AppendEntry
  <2>2. /\ i \in Entries /\ Attempting(i) /\ ListOf(i) # None
        /\ UNCHANGED <<library, owner, known>>
    BY <1>4 DEF AppendEntry, Reconciling, MissingIdentifier
  <2>3. ListOf(i) \in Lists
    BY <2>2, PlanAssumption DEF ListOf, Items
  <2>4. lists' \in [Lists -> Seq(Entries)]
    BY <2>1, <2>2, <2>3
  <2> QED
    BY <2>1, <2>2, <2>4, CallType
<1> QED
  BY <1>1, <1>2, <1>3, <1>4

(* All steps of a live run.                                                *)
LEMMA LoopType ==
  ASSUME TypeInv,
         \/ \E i \in Items : ResolveAmbiguous(i)
         \/ Settle \/ StopForCancellation \/ BeginVerify
  PROVE  TypeInv'
<1> USE DEF TypeInv, TypeOK
<1>1. ASSUME NEW i \in Items, ResolveAmbiguous(i) PROVE TypeInv'
  <2>1. [itemStore[i] EXCEPT !.status = "transferred", !.kind = None]
          \in ItemRecord
    BY DEF ItemRecord, ItemStatus
  <2>2. itemStore' \in [Items -> ItemRecord]
    BY <1>1, <2>1 DEF ResolveAmbiguous
  <2> QED
    BY <1>1, <2>2 DEF ResolveAmbiguous, SettleInv, process, destination
<1>2. CASE Settle
  <2>1. itemStore' \in [Items -> ItemRecord]
    BY <1>2, RecordType, StatusTypes DEF Settle, SettleInv, ItemStatus
  <2>2. /\ pc' = "loop" /\ current' = None /\ outcome' = None
        /\ UNCHANGED <<destination, jobStatus, dryRun, planned, queue, known,
                       snapshot, cancel, cancelled, crashes>>
    BY <1>2 DEF Settle
  <2> QED
    BY <2>1, <2>2 DEF SettleInv, destination, Phases
<1>3. CASE StopForCancellation
  BY <1>3 DEF StopForCancellation, SettleInv, destination, store
<1>4. CASE BeginVerify
  <2>1. jobStatus' \in JobStatus
    BY <1>4, TransitionType DEF BeginVerify, JobStatus
  <2> QED
    BY <1>4, <2>1 DEF BeginVerify, SettleInv, destination, Phases
<1> QED
  BY <1>1, <1>2, <1>3, <1>4

(* Every step keeps the types.                                             *)
LEMMA TypeStep == TypeInv /\ [Next]_vars => TypeInv'
<1> SUFFICES ASSUME TypeInv, [Next]_vars PROVE TypeInv'
  OBVIOUS
<1>1. CASE Next
  BY <1>1, AnalyzeType, RunEdgesType, VisitType, WriteType, LoopType
     DEF Next, Run, ExecuteItem
<1>2. CASE UNCHANGED vars
  BY <1>2
     DEF vars, destination, store, process, TypeInv, TypeOK, SettleInv, Settled
<1> QED
  BY <1>1, <1>2

(* Type correctness: every variable of the job, its repositories, the      *)
(* destination and the running process keeps its type.                     *)
THEOREM TypeCorrect == Spec => []TypeOK
<1>1. TypeInv => TypeOK
  BY DEF TypeInv
<1> QED
  BY <1>1, TypeInit, TypeStep, PTL DEF Spec
----------------------------------------------------------------------------
(* Where list identifiers live.  A list an item knows, in memory or in the *)
(* store, was made for its playlist; an entry never knows a list that its  *)
(* playlist does not; and memory and store agree about a playlist except   *)
(* while its creation waits for its record.                                *)
ListInv ==
  /\ \A f \in Favorites : known[f] = None /\ itemStore[f].list = None
  /\ \A i \in Playlists \cup Entries :
       /\ known[i] # None => owner[known[i]] = Group(i)
       /\ itemStore[i].list # None => owner[itemStore[i].list] = Group(i)
  /\ \A e \in Entries :
       /\ known[e] # None => known[e] = known[Container[e]]
       /\ itemStore[e].list # None =>
            itemStore[e].list = itemStore[Container[e]].list
  /\ \A p \in Playlists :
       /\ known[p] # None /\ ~(pc = "settle" /\ current = p) =>
            itemStore[p].list = known[p]
       /\ pc \in {"loop", "settle"} /\ itemStore[p].list # None =>
            known[p] = itemStore[p].list

(* The effect a confirmation of i would claim, as memory sees it; a write  *)
(* that reported success has had it.                                       *)
EffectOf(i) ==
  /\ i \in Favorites => Target[i] \in library
  /\ i \in Playlists => known[i] # None
  /\ i \in Entries => /\ known[Container[i]] # None
                      /\ Holds(known[Container[i]], Target[i])

EffectInv == pc = "settle" /\ outcome = "ok" => EffectOf(current)

IInv == TypeInv /\ ListInv /\ EffectInv /\ ConfirmedPresent /\ ListRecordedFirst

(* The group of a playlist item or entry is a playlist.                    *)
LEMMA GroupType ==
  /\ \A i \in Playlists \cup Entries : Group(i) \in Playlists /\ Group(i) # None
  /\ \A p \in Playlists : Group(p) = p
  /\ \A e \in Entries : Group(e) = Container[e] /\ Container[e] \in Items
BY ItemsAssumption, PlanAssumption DEF Group, Items

(* Init establishes the inductive invariant.                               *)
LEMMA IInvInit == Init => IInv
<1> SUFFICES ASSUME Init PROVE IInv
  OBVIOUS
<1> USE ItemsAssumption, PlanAssumption, EnvironmentAssumption
<1>1. TypeInv
  BY TypeInit
<1>2. PICK s \in PlannedStatuses(library) :
        itemStore = [i \in Items |->
          [status |-> s[i], attempts |-> 0, kind |-> None,
           list |-> IF i \in Playlists THEN Target[i] ELSE None]]
  BY DEF Init
<1>3. ASSUME NEW p \in Playlists, Target[p] # None
      PROVE  owner[Target[p]] = p
  <2>1. Target[p] \in Lists
    BY <1>3
  <2>2. \A q \in Playlists : Target[q] = Target[p] => q = p
    BY <1>3
  <2> QED
    BY <2>1, <2>2 DEF Init
<1>4. ListInv
  BY <1>2, <1>3, GroupType DEF ListInv, Init, NothingKnown, Items
<1>5. EffectInv
  BY DEF EffectInv, Init
<1>6. ConfirmedPresent
  <2>1. \A i \in Items : Confirmed(i) => i \in Favorites /\ Target[i] \in library
    BY <1>2, PlannedTypes DEF Confirmed
  <2> QED
    BY <2>1 DEF ConfirmedPresent, Items
<1>7. ListRecordedFirst
  BY DEF ListRecordedFirst, Init
<1> QED
  BY <1>1, <1>4, <1>5, <1>6, <1>7 DEF IInv

(* Steps that leave the destination and the stored items alone.            *)
LEMMA QuietStep ==
  ASSUME IInv, UNCHANGED <<library, owner, lists, itemStore>>,
         \/ UNCHANGED <<pc, current, outcome, known>>
         \/ /\ UNCHANGED <<current, known>>
            /\ pc # "settle" /\ pc' \notin {"loop", "settle"}
         \/ GoDown
         \/ pc # "settle" /\ StartExecutor
  PROVE  /\ ListInv' /\ EffectInv' /\ ConfirmedPresent' /\ ListRecordedFirst'
<1>1. ConfirmedPresent' /\ ListRecordedFirst'
  BY DEF IInv, ConfirmedPresent, Confirmed, Holds, ListRecordedFirst
<1>2. ListInv'
  <2>1. CASE UNCHANGED <<pc, current, outcome, known>>
    BY <2>1 DEF IInv, ListInv
  <2>2. CASE /\ UNCHANGED <<current, known>>
             /\ pc # "settle" /\ pc' \notin {"loop", "settle"}
    BY <2>2 DEF IInv, ListInv
  <2>3. CASE GoDown
    BY <2>3, PlanAssumption
       DEF IInv, ListInv, GoDown, NothingKnown, Items
  <2>4. CASE pc # "settle" /\ StartExecutor
    BY <2>4, GroupType DEF IInv, ListInv, StartExecutor, Items
  <2> QED
    BY <2>1, <2>2, <2>3, <2>4
<1>3. EffectInv'
  <2>1. CASE UNCHANGED <<pc, current, outcome, known>>
    BY <2>1 DEF IInv, EffectInv, EffectOf, Holds
  <2>2. CASE ~UNCHANGED <<pc, current, outcome, known>>
    BY <2>2 DEF EffectInv, GoDown, StartExecutor
  <2> QED
    BY <2>1, <2>2
<1> QED
  BY <1>1, <1>2, <1>3

(* Steps that store the outcome of one item: the item keeps the list that  *)
(* memory has for it, and a confirmation needs its effect.                 *)
LEMMA RecordStep ==
  ASSUME IInv, NEW i \in Items, NEW status, NEW kind, Record(i, status, kind),
         UNCHANGED <<destination, known>>,
         pc = "loop" \/ (pc = "settle" /\ current = i),
         pc' = "loop",
         status \in {"transferred", "already_exists"} => EffectOf(i)
  PROVE  ListInv' /\ EffectInv' /\ ConfirmedPresent' /\ ListRecordedFirst'
<1> DEFINE new == itemStore'[i]
<1>0. /\ new.status = status /\ new.list = known[i]
      /\ \A j \in Items \ {i} : itemStore'[j] = itemStore[j]
  BY DEF Record, IInv, TypeInv, TypeOK
<1> HIDE DEF new
<1>1. \A p \in Playlists : ~(pc = "settle" /\ current = p) \/ p = i
  OBVIOUS
<1>2. \A p \in Playlists :
        itemStore'[p].list = known[p] \/ itemStore'[p].list = itemStore[p].list
  BY <1>0 DEF new, Items
<1>3. \A p \in Playlists : itemStore[p].list # None => itemStore'[p] .list = itemStore[p].list
  BY <1>0 DEF new, IInv, ListInv, Items
<1>4. \A p \in Playlists : known[p] # None => itemStore'[p].list = known[p]
  BY <1>0, <1>1 DEF new, IInv, ListInv, Items
<1>5. ListInv'
  <2>1. \A f \in Favorites : known'[f] = None /\ itemStore'[f].list = None
    BY <1>0 DEF new, IInv, ListInv, Items
  <2>2. \A j \in Playlists \cup Entries :
          /\ known'[j] # None => owner'[known'[j]] = Group(j)
          /\ itemStore'[j].list # None => owner'[itemStore'[j].list] = Group(j)
    BY <1>0 DEF new, IInv, ListInv, Items, destination
  <2>3. \A e \in Entries :
          /\ known'[e] # None => known'[e] = known'[Container[e]]
          /\ itemStore'[e].list # None =>
               itemStore'[e].list = itemStore'[Container[e]].list
    <3> SUFFICES ASSUME NEW e \in Entries
                 PROVE  /\ known[e] # None => known[e] = known[Container[e]]
                        /\ itemStore'[e].list # None =>
                             itemStore'[e].list = itemStore'[Container[e]].list
      OBVIOUS
    <3>1. Container[e] \in Playlists
      BY PlanAssumption
    <3>2. known[e] # None => known[e] = known[Container[e]]
      BY DEF IInv, ListInv
    <3>3. itemStore[e].list # None =>
            itemStore[e].list = itemStore[Container[e]].list
      BY DEF IInv, ListInv
    <3>4. itemStore'[e].list = itemStore[e].list \/ itemStore'[e].list = known[e]
      BY <1>0 DEF new, Items
    <3> QED
      BY <1>3, <1>4, <3>1, <3>2, <3>3, <3>4
  <2>4. \A p \in Playlists :
          /\ known'[p] # None => itemStore'[p].list = known'[p]
          /\ itemStore'[p].list # None => known'[p] = itemStore'[p].list
    BY <1>2, <1>4 DEF IInv, ListInv
  <2> QED
    BY <2>1, <2>2, <2>3, <2>4 DEF ListInv
<1>6. EffectInv'
  BY DEF EffectInv
<1>7. ConfirmedPresent'
  <2>1. \A f \in Favorites : Confirmed(f)' => Target[f] \in library'
    BY <1>0 DEF new, IInv, ConfirmedPresent, Confirmed, EffectOf, Items,
                destination
  <2>2. ASSUME NEW p \in Playlists, Confirmed(p)'
        PROVE  itemStore'[p].list # None /\ owner'[itemStore'[p].list] = p
    <3>1. CASE p = i
      BY <2>2, <3>1, <1>0, GroupType
         DEF new, IInv, ListInv, Confirmed, EffectOf, destination
    <3>2. CASE p # i
      BY <2>2, <3>2, <1>0
         DEF IInv, ConfirmedPresent, Confirmed, Items, destination
    <3> QED
      BY <3>1, <3>2
  <2>3. ASSUME NEW e \in Entries, Confirmed(e)'
        PROVE  (/\ itemStore[Container[e]].list # None
                /\ Holds(itemStore[Container[e]].list, Target[e]))'
    <3>1. Container[e] \in Playlists
      BY PlanAssumption
    <3>2. PICK l : /\ l # None /\ Holds(l, Target[e])
                   /\ itemStore'[Container[e]].list = l
      <4>1. CASE e = i
        <5>1. /\ known[Container[e]] # None
              /\ Holds(known[Container[e]], Target[e])
          BY <2>3, <4>1, <1>0 DEF new, Confirmed, EffectOf
        <5> QED
          BY <5>1, <3>1, <1>4
      <4>2. CASE e # i
        <5>1. /\ itemStore[Container[e]].list # None
              /\ Holds(itemStore[Container[e]].list, Target[e])
          BY <2>3, <4>2, <1>0 DEF IInv, ConfirmedPresent, Confirmed, Items
        <5> QED
          BY <5>1, <3>1, <1>3
      <4> QED
        BY <4>1, <4>2
    <3> QED
      BY <3>2 DEF Holds, destination
  <2> QED
    BY <2>1, <2>2, <2>3 DEF ConfirmedPresent
<1>8. ListRecordedFirst'
  <2> SUFFICES ASSUME NEW l \in Lists, lists[l] # <<>>
               PROVE  owner[l] # None /\ itemStore'[owner[l]].list = l
    BY DEF ListRecordedFirst, destination
  <2>1. owner[l] \in Playlists /\ itemStore[owner[l]].list = l
    BY DEF IInv, ListRecordedFirst, TypeInv, TypeOK
  <2>2. l # None
    BY ItemsAssumption
  <2> QED
    BY <2>1, <2>2, <1>3, ItemsAssumption DEF Items
<1> QED
  BY <1>5, <1>6, <1>7, <1>8

(* The place of an entry among the resolved ones is never behind its       *)
(* position in the source: entries that were dropped or not resolved only  *)
(* move it forward.                                                        *)
LEMMA SlotBound ==
  ASSUME NEW e \in Entries
  PROVE  Slot(e) \in Nat \ {0} /\ Slot(e) <= Position[e] + 1
<1> DEFINE ahead == {f \in Resolved(Container[e]) : Position[f] < Position[e]}
           place == 0..(Position[e] - 1)
           at == [f \in ahead |-> Position[f]]
<1>1. IsFiniteSet(ahead) /\ Cardinality(ahead) \in Nat
  <2>1. ahead \subseteq Entries
    BY DEF Resolved
  <2> QED
    BY <2>1, ItemsAssumption, FS_Subset, FS_CardinalityType
<1>2. Position[e] \in Nat
  BY PlanAssumption
<1>3. IsFiniteSet(place) /\ Cardinality(place) = Position[e]
  <2> DEFINE last == Position[e] - 1
  <2>1. last \in Int /\ (0 > last <=> Position[e] = 0) /\ last - 0 + 1 = Position[e]
    BY <1>2
  <2>2. /\ IsFiniteSet(0..last)
        /\ Cardinality(0..last) = IF 0 > last THEN 0 ELSE last - 0 + 1
    <3> HIDE DEF last
    <3> QED
      BY <2>1, FS_Interval
  <2> QED
    BY <2>1, <2>2
<1>4. at \in [ahead -> place]
  BY <1>2, PlanAssumption DEF Resolved
<1>5. \A f, g \in ahead : f # g => at[f] # at[g]
  BY PlanAssumption DEF Resolved
<1>6. ~(Cardinality(place) < Cardinality(ahead))
  <2> HIDE DEF ahead, place, at
  <2> QED
    BY <1>1, <1>3, <1>4, <1>5, FS_PigeonHole
<1>7. Slot(e) = Cardinality(ahead) + 1
  BY DEF Slot
<1> HIDE DEF ahead, place
<1> QED
  BY <1>1, <1>2, <1>3, <1>6, <1>7

(* The list an entry is written to is the list of its playlist.            *)
LEMMA ListOfContainer ==
  ASSUME IInv, NEW e \in Entries, ~MissingIdentifier(e)
  PROVE  /\ ListOf(e) = known[Container[e]]
         /\ ListOf(e) \in Lists /\ ListOf(e) # None
         /\ Container[e] \in Playlists
         /\ owner[ListOf(e)] = Container[e]
<1>1. Container[e] \in Playlists /\ Container[e] \in Items
  BY PlanAssumption DEF Items
<1>2. ListOf(e) # None
  BY DEF MissingIdentifier
<1>3. ListOf(e) = known[Container[e]]
  BY DEF IInv, ListInv, ListOf
<1>4. known[Container[e]] \in Lists \cup {None}
  BY <1>1 DEF IInv, TypeInv, TypeOK
<1>5. owner[known[Container[e]]] = Container[e]
  BY <1>1, <1>2, <1>3, GroupType DEF IInv, ListInv
<1> QED
  BY <1>1, <1>2, <1>3, <1>4, <1>5

(* What _reconcile concludes from a list that has grown past the entry.    *)
LEMMA LandedEffect ==
  ASSUME IInv, NEW e \in Entries, Reconciling(e), AlreadyLanded(e)
  PROVE  EffectOf(e)
<1>1. /\ ListOf(e) = known[Container[e]] /\ ListOf(e) \in Lists
      /\ ListOf(e) # None
  BY ListOfContainer DEF Reconciling
<1> DEFINE actual == lists[ListOf(e)]
<1>2. actual \in Seq(Entries)
  BY <1>1 DEF IInv, TypeInv, TypeOK
<1>3. IsPlannedPrefix(actual, Container[e]) /\ Len(actual) > Position[e]
  BY DEF AlreadyLanded, Mismatch
<1>4. Slot(e) \in 1..Len(actual)
  <2>1. Len(actual) \in Nat /\ Position[e] \in Nat
    BY <1>2, PlanAssumption
  <2>2. Slot(e) \in Nat \ {0} /\ Slot(e) <= Position[e] + 1
    BY SlotBound
  <2> HIDE DEF actual
  <2> QED
    BY <1>3, <2>1, <2>2
<1>5. e \in Resolved(Container[e])
  BY DEF Resolved, Reconciling, MissingIdentifier
<1>6. Target[actual[Slot(e)]] = Target[e]
  BY <1>3, <1>4, <1>5 DEF IsPlannedPrefix
<1>7. Holds(ListOf(e), Target[e])
  BY <1>4, <1>6 DEF Holds
<1> QED
  BY <1>1, <1>7, ItemsAssumption DEF EffectOf

(* Steps that change statuses only, and confirm only what is present.      *)
LEMMA MarkStep ==
  ASSUME IInv, UNCHANGED <<library, owner, lists>>,
         \A j \in Items : itemStore'[j].list = itemStore[j].list,
         \A j \in Items : Confirmed(j)' =>
           \/ Confirmed(j)
           \/ j \in Favorites /\ Target[j] \in library
           \/ /\ j \in Playlists
              /\ itemStore[j].list # None /\ owner[itemStore[j].list] = j
  PROVE  ConfirmedPresent' /\ ListRecordedFirst'
<1>1. \A f \in Favorites : Confirmed(f)' => Target[f] \in library'
  BY ItemsAssumption DEF IInv, ConfirmedPresent, Items
<1>2. \A p \in Playlists : Confirmed(p)' =>
        itemStore'[p].list # None /\ owner'[itemStore'[p].list] = p
  BY ItemsAssumption DEF IInv, ConfirmedPresent, Items
<1>3. ASSUME NEW e \in Entries, Confirmed(e)'
      PROVE  (/\ itemStore[Container[e]].list # None
              /\ Holds(itemStore[Container[e]].list, Target[e]))'
  <2>1. /\ itemStore[Container[e]].list # None
        /\ Holds(itemStore[Container[e]].list, Target[e])
    BY <1>3, ItemsAssumption DEF IInv, ConfirmedPresent, Items
  <2>2. itemStore'[Container[e]].list = itemStore[Container[e]].list
    BY PlanAssumption DEF Items
  <2> QED
    BY <2>1, <2>2 DEF Holds
<1>4. ListRecordedFirst'
  <2>1. \A l \in Lists : owner[l] # None => owner[l] \in Items
    BY DEF IInv, TypeInv, TypeOK, Items
  <2> QED
    BY <2>1 DEF IInv, ListRecordedFirst
<1> QED
  BY <1>1, <1>2, <1>3, <1>4 DEF ConfirmedPresent

(* A visit that calls no write keeps the invariant.                        *)
LEMMA VisitStep ==
  ASSUME IInv, NEW i \in Items,
         \/ DryRunItem(i) \/ RefuseMissing(i) \/ FailRead(i)
         \/ RefuseMismatch(i) \/ ConfirmLanded(i)
  PROVE  /\ ListInv' /\ EffectInv' /\ ConfirmedPresent' /\ ListRecordedFirst'
<1>1. CASE DryRunItem(i)
  <2>1. /\ \A j \in Items : itemStore'[j].list = itemStore[j].list
        /\ \A j \in Items : Confirmed(j)' => Confirmed(j)
    BY <1>1 DEF DryRunItem, IInv, TypeInv, TypeOK, ItemRecord, Confirmed
  <2>2. /\ UNCHANGED <<library, owner, lists, pc, current, outcome, known>>
        /\ pc = "loop"
    BY <1>1 DEF DryRunItem, destination, Visiting
  <2>3. ListInv'
    BY <2>1, <2>2, GroupType DEF IInv, ListInv, Items
  <2>4. EffectInv'
    BY <2>2 DEF EffectInv
  <2>5. ConfirmedPresent' /\ ListRecordedFirst'
    BY <2>1, <2>2, MarkStep
  <2> QED
    BY <2>3, <2>4, <2>5
<1>2. CASE RefuseMissing(i)
  BY <1>2, RecordStep DEF RefuseMissing, Attempting, Visiting
<1>3. CASE FailRead(i)
  <2>1. PICK k \in FailureKind : Record(i, FailureStatus[k], k)
    BY <1>3, EnvironmentAssumption DEF FailRead
  <2>2. FailureStatus[k] \notin {"transferred", "already_exists"}
    BY StatusTypes DEF TerminalItemStatuses
  <2> QED
    BY <1>3, <2>1, <2>2, RecordStep
       DEF FailRead, Reconciling, Attempting, Visiting
<1>4. CASE RefuseMismatch(i)
  BY <1>4, RecordStep DEF RefuseMismatch, Reconciling, Attempting, Visiting
<1>5. CASE ConfirmLanded(i)
  BY <1>5, RecordStep, LandedEffect
     DEF ConfirmLanded, Reconciling, Attempting, Visiting
<1> QED
  BY <1>1, <1>2, <1>3, <1>4, <1>5

(* The record of a write that has returned keeps the invariant: the write  *)
(* reported ok only if its effect is there.                                *)
LEMMA SettleStep ==
  ASSUME IInv, Settle
  PROVE  /\ ListInv' /\ EffectInv' /\ ConfirmedPresent' /\ ListRecordedFirst'
<1>1. /\ pc = "settle" /\ current \in Items /\ outcome \in Outcomes
      /\ UNCHANGED <<destination, known>> /\ pc' = "loop"
  BY DEF Settle, IInv, TypeInv, SettleInv
<1>2. CASE outcome = "ok"
  BY <1>1, <1>2, RecordStep DEF Settle, IInv, EffectInv
<1>3. CASE outcome # "ok"
  <2>1. FailureStatus[outcome] \notin {"transferred", "already_exists"}
    BY <1>1, <1>3, StatusTypes DEF TerminalItemStatuses
  <2> QED
    BY <1>1, <1>3, <2>1, RecordStep DEF Settle
<1> QED
  BY <1>2, <1>3

(* resolve_ambiguous confirms only what the snapshot shows.                *)
LEMMA ResolveStep ==
  ASSUME IInv, NEW i \in Items, ResolveAmbiguous(i)
  PROVE  /\ ListInv' /\ EffectInv' /\ ConfirmedPresent' /\ ListRecordedFirst'
<1>1. /\ pc = "resolve" /\ StateContains(i)
      /\ UNCHANGED <<library, owner, lists, pc, current, outcome, known>>
  BY DEF ResolveAmbiguous, Resolvable, process, destination
<1>2. /\ \A j \in Items : itemStore'[j].list = itemStore[j].list
      /\ \A j \in Items \ {i} : Confirmed(j)' => Confirmed(j)
  BY DEF ResolveAmbiguous, IInv, TypeInv, TypeOK, ItemRecord, Confirmed
<1>3. ListInv'
  BY <1>1, <1>2, GroupType DEF IInv, ListInv, Items
<1>4. EffectInv'
  BY <1>1 DEF EffectInv
<1>5. ConfirmedPresent' /\ ListRecordedFirst'
  <2>1. \/ i \in Favorites /\ Target[i] \in library
        \/ /\ i \in Playlists
           /\ itemStore[i].list # None /\ owner[itemStore[i].list] = i
    BY <1>1, GroupType DEF StateContains, IInv, ListInv
  <2> QED
    BY <1>1, <1>2, <2>1, MarkStep
<1> QED
  BY <1>3, <1>4, <1>5

(* The destination only grows, and a list keeps its owner: what a          *)
(* confirmation relies on stays true.                                      *)
LEMMA GrowthStep ==
  ASSUME IInv, UNCHANGED itemStore,
         library \subseteq library',
         \A l \in Lists : owner[l] # None => owner'[l] = owner[l],
         \A l \in Lists : \A id : Holds(l, id) => Holds(l, id)'
  PROVE  ConfirmedPresent'
<1>1. \A f \in Favorites : Confirmed(f)' => Target[f] \in library'
  BY DEF IInv, ConfirmedPresent, Confirmed
<1>2. \A i \in Items : itemStore[i].list \in Lists \cup {None}
  BY DEF IInv, TypeInv, TypeOK, ItemRecord
<1>3. \A p \in Playlists : Confirmed(p)' =>
        itemStore'[p].list # None /\ owner'[itemStore'[p].list] = p
  BY <1>2, ItemsAssumption DEF IInv, ConfirmedPresent, Confirmed, Items
<1>4. ASSUME NEW e \in Entries, Confirmed(e)'
      PROVE  (/\ itemStore[Container[e]].list # None
              /\ Holds(itemStore[Container[e]].list, Target[e]))'
  <2>1. /\ itemStore[Container[e]].list # None
        /\ Holds(itemStore[Container[e]].list, Target[e])
    BY <1>4 DEF IInv, ConfirmedPresent, Confirmed
  <2>2. itemStore[Container[e]].list \in Lists
    BY <1>2, <2>1, GroupType
  <2>3. PICK l \in Lists : l = itemStore[Container[e]].list
    BY <2>2
  <2>4. Holds(l, Target[e])'
    BY <2>1, <2>3
  <2> QED
    BY <2>1, <2>3, <2>4 DEF Holds
<1> QED
  BY <1>1, <1>3, <1>4 DEF ConfirmedPresent

(* Saving a favorite.                                                      *)
LEMMA SaveStep ==
  ASSUME IInv, NEW i \in Items, SaveFavorite(i)
  PROVE  /\ ListInv' /\ EffectInv' /\ ConfirmedPresent' /\ ListRecordedFirst'
<1>1. PICK o \in Outcomes : \E landed \in Effects(o) :
        /\ library' = IF landed THEN library \cup {Target[i]} ELSE library
        /\ CallReturns(i, o)
  BY DEF SaveFavorite
<1>2. /\ i \in Favorites /\ pc = "loop"
      /\ UNCHANGED <<owner, lists, known, itemStore>>
      /\ pc' = "settle" /\ current' = i /\ outcome' = o
  BY <1>1 DEF SaveFavorite, Attempting, Visiting, CallReturns, store
<1>3. ListInv'
  BY <1>2, ItemsAssumption DEF IInv, ListInv
<1>4. EffectInv'
  <2>1. o = "ok" => Target[i] \in library'
    BY <1>1 DEF Effects
  <2> QED
    BY <1>2, <2>1, ItemsAssumption DEF EffectInv, EffectOf
<1>5. ConfirmedPresent'
  <2>1. library \subseteq library'
    BY <1>1
  <2> QED
    BY <1>2, <2>1, GrowthStep DEF Holds
<1>6. ListRecordedFirst'
  BY <1>2 DEF IInv, ListRecordedFirst
<1> QED
  BY <1>3, <1>4, <1>5, <1>6

(* A playlist has just learned that its list is l, and so have its entries. *)
LEMMA PropagateStep ==
  ASSUME IInv, NEW p \in Playlists, NEW l \in Lists,
         known' = Propagate(p, l), UNCHANGED itemStore,
         known[p] = None \/ known[p] = l,
         owner'[l] = p,
         \A m \in Lists : owner[m] # None => owner'[m] = owner[m],
         pc = "loop", pc' = "settle", current' = p
  PROVE  ListInv' /\ EffectInv'
<1>1. \A i \in Items :
        known'[i] = IF i = p \/ (i \in Entries /\ Container[i] = p)
                      THEN l ELSE known[i]
  BY DEF Propagate
<1>2. l # None /\ p \in Items
  BY ItemsAssumption DEF Items
<1>3. \A i \in Items : known[i] \in Lists \cup {None}
                       /\ itemStore[i].list \in Lists \cup {None}
  BY DEF IInv, TypeInv, TypeOK, ItemRecord
<1>4. \A f \in Favorites : known'[f] = None /\ itemStore'[f].list = None
  BY <1>1, ItemsAssumption DEF IInv, ListInv, Items
<1>5. \A i \in Playlists \cup Entries :
        /\ known'[i] # None => owner'[known'[i]] = Group(i)
        /\ itemStore'[i].list # None => owner'[itemStore'[i].list] = Group(i)
  <2> SUFFICES ASSUME NEW i \in Playlists \cup Entries
               PROVE  /\ known'[i] # None => owner'[known'[i]] = Group(i)
                      /\ itemStore[i].list # None =>
                           owner'[itemStore[i].list] = Group(i)
    OBVIOUS
  <2>1. i \in Items /\ Group(i) # None
    BY GroupType DEF Items
  <2>2. known[i] # None => owner'[known[i]] = Group(i)
    BY <1>3, <2>1 DEF IInv, ListInv
  <2>3. itemStore[i].list # None => owner'[itemStore[i].list] = Group(i)
    BY <1>3, <2>1 DEF IInv, ListInv
  <2> QED
    BY <1>1, <2>1, <2>2, <2>3, GroupType
<1>6. \A e \in Entries :
        /\ known'[e] # None => known'[e] = known'[Container[e]]
        /\ itemStore'[e].list # None =>
             itemStore'[e].list = itemStore'[Container[e]].list
  BY <1>1, GroupType, ItemsAssumption, PlanAssumption DEF IInv, ListInv, Items
<1>7. \A q \in Playlists :
        /\ known'[q] # None /\ ~(pc' = "settle" /\ current' = q) =>
             itemStore'[q].list = known'[q]
        /\ itemStore'[q].list # None => known'[q] = itemStore'[q].list
  BY <1>1, ItemsAssumption DEF IInv, ListInv, Items
<1>8. ListInv'
  BY <1>4, <1>5, <1>6, <1>7 DEF ListInv
<1>9. EffectInv'
  BY <1>1, <1>2, ItemsAssumption DEF EffectInv, EffectOf
<1> QED
  BY <1>8, <1>9

(* Creating a playlist takes a list nobody owned.                          *)
LEMMA CreateStep ==
  ASSUME IInv, NEW i \in Items, CreatePlaylist(i)
  PROVE  /\ ListInv' /\ EffectInv' /\ ConfirmedPresent' /\ ListRecordedFirst'
<1>1. PICK o \in Outcomes : \E landed \in Effects(o) :
        /\ IF landed
             THEN \E l \in {m \in Lists : owner[m] = None} :
                    /\ owner' = [owner EXCEPT ![l] = i]
                    /\ known' = IF o = "ok" THEN Propagate(i, l) ELSE known
             ELSE UNCHANGED <<owner, known>>
        /\ CallReturns(i, o)
  BY DEF CreatePlaylist
<1>2. /\ i \in Playlists /\ pc = "loop" /\ known[i] = None
      /\ UNCHANGED <<library, lists, itemStore>>
      /\ pc' = "settle" /\ current' = i /\ outcome' = o
  BY <1>1 DEF CreatePlaylist, Attempting, Visiting, CallReturns, store
<1>3. \A l \in Lists : owner[l] # None => owner'[l] = owner[l]
  BY <1>1 DEF IInv, TypeInv, TypeOK
<1>4. ConfirmedPresent'
  BY <1>2, <1>3, GrowthStep DEF Holds
<1>5. ListRecordedFirst'
  BY <1>2, <1>3 DEF IInv, ListRecordedFirst
<1>6. CASE o = "ok"
  <2>1. PICK l \in Lists : owner' = [owner EXCEPT ![l] = i]
                           /\ known' = Propagate(i, l)
    BY <1>1, <1>6 DEF Effects
  <2>2. owner'[l] = i
    BY <2>1 DEF IInv, TypeInv, TypeOK
  <2> QED
    BY <1>2, <1>3, <1>4, <1>5, <2>1, <2>2, PropagateStep
<1>7. CASE o # "ok"
  <2>1. UNCHANGED known
    BY <1>1, <1>7
  <2>2. \A j \in Items : known[j] \in Lists \cup {None}
                         /\ itemStore[j].list \in Lists \cup {None}
    BY DEF IInv, TypeInv, TypeOK, ItemRecord
  <2>3. \A j \in Playlists \cup Entries :
          /\ known[j] # None => owner'[known[j]] = Group(j)
          /\ itemStore[j].list # None => owner'[itemStore[j].list] = Group(j)
    BY <1>3, <2>2, GroupType DEF IInv, ListInv, Items
  <2>4. ListInv'
    BY <1>2, <2>1, <2>3 DEF IInv, ListInv
  <2>5. EffectInv'
    BY <1>2, <1>7 DEF EffectInv
  <2> QED
    BY <1>4, <1>5, <2>4, <2>5
<1> QED
  BY <1>6, <1>7

(* Reusing a known playlist.                                               *)
LEMMA ReuseStep ==
  ASSUME IInv, NEW i \in Items, ReusePlaylist(i)
  PROVE  /\ ListInv' /\ EffectInv' /\ ConfirmedPresent' /\ ListRecordedFirst'
<1>1. /\ i \in Playlists /\ pc = "loop" /\ known[i] # None
      /\ UNCHANGED <<library, owner, lists, itemStore>>
      /\ known' = Propagate(i, known[i])
      /\ pc' = "settle" /\ current' = i
  BY DEF ReusePlaylist, Attempting, Visiting, CallReturns, store, destination
<1>2. known[i] \in Lists /\ owner[known[i]] = i
  BY <1>1, GroupType DEF IInv, ListInv, TypeInv, TypeOK
<1>3. ListInv' /\ EffectInv'
  BY <1>1, <1>2, PropagateStep
<1>4. ConfirmedPresent'
  BY <1>1, GrowthStep DEF Holds
<1>5. ListRecordedFirst'
  BY <1>1 DEF IInv, ListRecordedFirst
<1> QED
  BY <1>3, <1>4, <1>5

(* Appending an entry to a list that the playlist item has recorded.       *)
LEMMA AppendStep ==
  ASSUME IInv, NEW i \in Items, AppendEntry(i)
  PROVE  /\ ListInv' /\ EffectInv' /\ ConfirmedPresent' /\ ListRecordedFirst'
<1>1. PICK o \in Outcomes : \E landed \in Effects(o) :
        /\ lists' = IF landed
                      THEN [lists EXCEPT ![ListOf(i)] = Append(@, i)]
                      ELSE lists
        /\ CallReturns(i, o)
  BY DEF AppendEntry
<1>2. /\ i \in Entries /\ pc = "loop" /\ ~MissingIdentifier(i)
      /\ UNCHANGED <<library, owner, known, itemStore>>
      /\ pc' = "settle" /\ current' = i /\ outcome' = o
  BY <1>1 DEF AppendEntry, Reconciling, Attempting, Visiting, CallReturns, store
<1>3. /\ ListOf(i) = known[Container[i]] /\ ListOf(i) \in Lists
      /\ ListOf(i) # None /\ Container[i] \in Playlists
      /\ owner[ListOf(i)] = Container[i]
  BY <1>2, ListOfContainer
<1>4. lists \in [Lists -> Seq(Entries)]
  BY DEF IInv, TypeInv, TypeOK
<1>5. ListInv'
  BY <1>2, ItemsAssumption DEF IInv, ListInv
<1>6. ASSUME NEW l \in Lists, NEW id, Holds(l, id)
      PROVE  Holds(l, id)'
  <2>1. PICK n \in 1..Len(lists[l]) : Target[lists[l][n]] = id
    BY <1>6 DEF Holds
  <2>2. lists'[l] = lists[l] \/ lists'[l] = Append(lists[l], i)
    BY <1>1, <1>3, <1>4
  <2>3. n \in 1..Len(lists'[l]) /\ lists'[l][n] = lists[l][n]
    BY <1>2, <1>4, <2>1, <2>2
  <2> QED
    BY <2>1, <2>3 DEF Holds
<1>7. ConfirmedPresent'
  BY <1>2, <1>6, GrowthStep
<1>8. EffectInv'
  <2>1. ASSUME o = "ok" PROVE Holds(known[Container[i]], Target[i])'
    <3> DEFINE l == ListOf(i)
    <3>1. lists'[l] = Append(lists[l], i)
      BY <1>1, <1>3, <1>4, <2>1 DEF Effects
    <3>2. lists[l] \in Seq(Entries)
      BY <1>3, <1>4
    <3>3. Len(lists'[l]) = Len(lists[l]) + 1 /\ lists'[l][Len(lists[l]) + 1] = i
      BY <1>2, <3>1, <3>2
    <3>4. Len(lists[l]) + 1 \in 1..Len(lists'[l])
      BY <3>2, <3>3
    <3>5. \E n \in 1..Len(lists'[l]) : Target[lists'[l][n]] = Target[i]
      BY <3>3, <3>4
    <3> QED
      BY <1>2, <1>3, <3>5 DEF Holds
  <2> QED
    BY <1>2, <1>3, <2>1, ItemsAssumption DEF EffectInv, EffectOf, Holds
<1>9. ListRecordedFirst'
  <2> SUFFICES ASSUME NEW l \in Lists, lists'[l] # <<>>
               PROVE  owner[l] # None /\ itemStore[owner[l]].list = l
    BY <1>2 DEF ListRecordedFirst
  <2>1. CASE l = ListOf(i)
    <3>1. itemStore[Container[i]].list = known[Container[i]]
      BY <1>2, <1>3 DEF IInv, ListInv
    <3> QED
      BY <2>1, <3>1, <1>3, GroupType, ItemsAssumption DEF Items
  <2>2. CASE l # ListOf(i)
    <3>1. lists'[l] = lists[l]
      BY <1>1, <1>3, <1>4, <2>2
    <3> QED
      BY <3>1 DEF IInv, ListRecordedFirst
  <2> QED
    BY <2>1, <2>2
<1> QED
  BY <1>5, <1>7, <1>8, <1>9

(* Every step keeps the inductive invariant.                               *)
LEMMA IInvStep == IInv /\ [Next]_vars => IInv'
<1> SUFFICES ASSUME IInv, [Next]_vars PROVE IInv'
  OBVIOUS
<1>0. TypeInv'
  BY TypeStep DEF IInv
<1> SUFFICES ListInv' /\ EffectInv' /\ ConfirmedPresent' /\ ListRecordedFirst'
  BY <1>0 DEF IInv
<1>1. CASE Analyze
  BY <1>1, QuietStep
     DEF Analyze, Authenticate, Export, Plan, StoreItems, AwaitConfirmation,
         destination, store, process
<1>2. CASE Answer \/ Resume \/ EnterImport
  BY <1>2, QuietStep
     DEF Answer, Confirm, Decline, Resume, EnterImport, destination, store
<1>3. CASE StopForCancellation \/ FinishDryRun \/ BeginVerify \/ FinishJob
  BY <1>3, QuietStep
     DEF StopForCancellation, FinishDryRun, BeginVerify, FinishJob,
         destination, store
<1>4. CASE \/ RequestCancellation \/ Crash
           \/ \E s \in {"cancelled", "failed"} : Retire(s)
  BY <1>4, QuietStep
     DEF RequestCancellation, Crash, Retire, destination, store, process
<1>5. CASE \E i \in Items : SkipSettled(i)
  BY <1>5, QuietStep DEF SkipSettled, destination, store
<1>6. CASE UNCHANGED vars
  BY <1>6, QuietStep DEF vars, destination, store, process
<1> QED
  BY <1>1, <1>2, <1>3, <1>4, <1>5, <1>6, ResolveStep, VisitStep, SettleStep,
     SaveStep, CreateStep, ReuseStep, AppendStep
     DEF Next, Run, ExecuteItem

(* The inductive invariant: memory, item store and destination agree on    *)
(* which list belongs to which playlist, a write waiting for its record has *)
(* had its effect if it reported ok, and every confirmation is true.       *)
THEOREM IInvCorrect == Spec => []IInv
BY IInvInit, IInvStep, PTL DEF Spec

(* Whatever fails, crashes or is resumed, a durable confirmation is right: *)
(* the favorite, playlist or entry is at the destination.                  *)
THEOREM ConfirmationsCorrect == Spec => []ConfirmedPresent
<1>1. IInv => ConfirmedPresent
  BY DEF IInv
<1> QED
  BY <1>1, IInvCorrect, PTL

(* No entry is ever in a list that the item store does not know.           *)
THEOREM ListsRecorded == Spec => []ListRecordedFirst
<1>1. IInv => ListRecordedFirst
  BY DEF IInv
<1> QED
  BY <1>1, IInvCorrect, PTL

(* No step writes a settled item again or changes its record.              *)
LEMMA FinalStep ==
  ASSUME IInv, [Next]_vars, NEW i \in Items, Settled(i)
  PROVE  itemStore'[i] = itemStore[i] /\ current' # i
<1>0. current # i /\ i # None
  BY ItemsAssumption DEF IInv, TypeInv, SettleInv, Items
<1>1. itemStore \in [Items -> ItemRecord]
  BY DEF IInv, TypeInv, TypeOK
<1>2. ASSUME UNCHANGED itemStore, current' = current \/ current' = None
      PROVE  itemStore'[i] = itemStore[i] /\ current' # i
  BY <1>0, <1>2
<1>3. ASSUME NEW j \in Items, j # i, NEW status, NEW kind,
             Record(j, status, kind), current' \in {current, None}
      PROVE  itemStore'[i] = itemStore[i] /\ current' # i
  BY <1>0, <1>1, <1>3 DEF Record
<1>4. ASSUME NEW j \in Items, Attempting(j)
      PROVE  j # i
  BY <1>4 DEF Attempting, Settled
<1>5. CASE Settle
  <2>1. current \in Items /\ current # i
    BY <1>0, <1>5 DEF Settle, IInv, TypeInv, SettleInv
  <2> QED
    BY <1>3, <1>5, <2>1 DEF Settle
<1>6. ASSUME NEW j \in Items, ExecuteItem(j)
      PROVE  itemStore'[i] = itemStore[i] /\ current' # i
  <2>1. CASE SkipSettled(j)
    BY <1>2, <2>1 DEF SkipSettled, store, destination
  <2>2. CASE DryRunItem(j)
    BY <1>0, <1>1, <2>2 DEF DryRunItem, Settled
  <2>3. CASE \/ RefuseMissing(j) \/ FailRead(j) \/ RefuseMismatch(j)
             \/ ConfirmLanded(j)
    BY <1>3, <1>4, <2>3
       DEF RefuseMissing, FailRead, RefuseMismatch, ConfirmLanded, Reconciling
  <2>4. CASE \/ SaveFavorite(j) \/ CreatePlaylist(j) \/ ReusePlaylist(j)
             \/ AppendEntry(j)
    BY <1>4, <2>4
       DEF SaveFavorite, CreatePlaylist, ReusePlaylist, AppendEntry,
           Reconciling, CallReturns, store
  <2> QED
    BY <1>6, <2>1, <2>2, <2>3, <2>4 DEF ExecuteItem
<1>7. ASSUME NEW j \in Items, ResolveAmbiguous(j)
      PROVE  itemStore'[i] = itemStore[i] /\ current' # i
  <2>1. j # i
    BY <1>7 DEF ResolveAmbiguous, Resolvable, Settled, TerminalItemStatuses
  <2> QED
    BY <1>0, <1>1, <1>7, <2>1 DEF ResolveAmbiguous, process
<1>8. CASE Analyze
  <2>1. UNCHANGED itemStore /\ UNCHANGED current
    BY <1>8
       DEF Analyze, Authenticate, Export, Plan, StoreItems, AwaitConfirmation,
           process
  <2> QED
    BY <1>2, <2>1
<1>9. CASE \/ Answer \/ Resume \/ EnterImport \/ StopForCancellation
           \/ FinishDryRun \/ BeginVerify \/ FinishJob
           \/ RequestCancellation \/ Crash
           \/ \E s \in {"cancelled", "failed"} : Retire(s)
  <2>1. UNCHANGED itemStore /\ (current' = current \/ current' = None)
    BY <1>9
       DEF Answer, Confirm, Decline, Resume, EnterImport, StartExecutor, GoDown,
           StopForCancellation, FinishDryRun, BeginVerify, FinishJob,
           RequestCancellation, Crash, Retire, store, process
  <2> QED
    BY <1>2, <2>1
<1>10. CASE UNCHANGED vars
  <2>1. UNCHANGED itemStore /\ UNCHANGED current
    BY <1>10 DEF vars, store, process
  <2> QED
    BY <1>2, <2>1
<1> QED
  BY <1>5, <1>6, <1>7, <1>8, <1>9, <1>10 DEF Next, Run

(* Invariant E: terminal items, and failed ones without an attempt left,   *)
(* are never replayed, over any number of runs, crashes and resumes.       *)
THEOREM TerminalIsFinal == Spec => ConfirmedFinal
<1>1. IInv /\ [Next]_vars =>
        [\A i \in Items : Final(i) =>
           itemStore'[i] = itemStore[i] /\ current' # i]_vars
  BY FinalStep DEF Final, Settled
<1> QED
  BY <1>1, IInvCorrect, PTL DEF Spec, ConfirmedFinal
----------------------------------------------------------------------------
(* While items are being executed the stored status stays IMPORTING.       *)
PhaseInv == pc \in {"loop", "settle"} => jobStatus = "importing"

(* The loop runs only while the stored job is importing.                   *)
LEMMA PhaseStep == PhaseInv /\ [Next]_vars => PhaseInv'
<1> SUFFICES ASSUME PhaseInv, [Next]_vars PROVE PhaseInv'
  OBVIOUS
<1>1. CASE Analyze \/ Answer \/ Resume \/ EnterImport
  BY <1>1
     DEF PhaseInv, Analyze, Authenticate, Export, Plan, StoreItems,
         AwaitConfirmation, Answer, Confirm, Decline, GoDown, Resume,
         EnterImport, Transition, process, store
<1>2. ASSUME NEW i \in Items, ExecuteItem(i) PROVE PhaseInv'
  <2>1. pc = "loop" /\ UNCHANGED jobStatus
    BY <1>2
       DEF ExecuteItem, SkipSettled, DryRunItem, RefuseMissing, SaveFavorite,
           CreatePlaylist, ReusePlaylist, FailRead, RefuseMismatch,
           ConfirmLanded, AppendEntry, Reconciling, Attempting, Visiting,
           CallReturns, store
  <2> QED
    BY <2>1 DEF PhaseInv
<1>3. CASE \/ Settle \/ StopForCancellation \/ FinishDryRun \/ BeginVerify
           \/ FinishJob \/ RequestCancellation \/ Crash
           \/ \E i \in Items : ResolveAmbiguous(i)
           \/ \E s \in {"cancelled", "failed"} : Retire(s)
  BY <1>3
     DEF PhaseInv, Settle, StopForCancellation, FinishDryRun, BeginVerify,
         FinishJob, RequestCancellation, Crash, ResolveAmbiguous, Retire,
         GoDown, process, store
<1>4. CASE UNCHANGED vars
  BY <1>4 DEF PhaseInv, vars, process, store
<1> QED
  BY <1>1, <1>2, <1>3, <1>4 DEF Next, Run

(* The only actions that write to the destination are the four that issue  *)
(* a call, and each is an attempt of the loop.                             *)
LEMMA WriteGuard ==
  ASSUME [Next]_vars, destination' # destination
  PROVE  pc = "loop" /\ ~cancel /\ ~dryRun
<1>1. ASSUME NEW i \in Items, ExecuteItem(i)
      PROVE  pc = "loop" /\ ~cancel /\ ~dryRun
  <2>1. \/ SaveFavorite(i) \/ CreatePlaylist(i) \/ ReusePlaylist(i)
        \/ AppendEntry(i)
    BY <1>1
       DEF ExecuteItem, SkipSettled, DryRunItem, RefuseMissing, FailRead,
           RefuseMismatch, ConfirmLanded
  <2> QED
    BY <2>1
       DEF SaveFavorite, CreatePlaylist, ReusePlaylist, AppendEntry,
           Reconciling, Attempting, Visiting
<1>2. \E i \in Items : ExecuteItem(i)
  BY DEF Next, Analyze, Authenticate, Export, Plan, StoreItems,
         AwaitConfirmation, Answer, Confirm, Decline, Resume, Run, EnterImport,
         ResolveAmbiguous, Settle, StopForCancellation, FinishDryRun,
         BeginVerify, FinishJob, RequestCancellation, Retire, Crash, vars
<1> QED
  BY <1>1, <1>2

(* A dry run writes nothing, and a job whose destination has been touched  *)
(* was stored as IMPORTING before.                                         *)
THEOREM WritesAreImports == Spec => WritesOnlyWhileImporting
<1>1. Init => PhaseInv
  BY DEF Init, PhaseInv
<1>2. PhaseInv /\ [Next]_vars =>
        [destination' # destination => jobStatus = "importing" /\ ~dryRun]_vars
  BY WriteGuard DEF PhaseInv
<1> QED
  BY <1>1, <1>2, PhaseStep, PTL DEF Spec, WritesOnlyWhileImporting

(* No write follows a cancellation request in the run it was made in.      *)
THEOREM CancellationStops == Spec => CancelStopsWrites
<1>1. [Next]_vars => [cancel => UNCHANGED destination]_vars
  BY WriteGuard
<1> QED
  BY <1>1, PTL DEF Spec, CancelStopsWrites
----------------------------------------------------------------------------
(* Plans whose lists identify their entries: every position before an      *)
(* entry is that of a resolved entry, and no track is planned twice in one *)
(* playlist.  What happens without them is shown by a run.                 *)
NoGap ==
  \A e \in Entries : \A k \in 0..(Position[e] - 1) :
    \E f \in Resolved(Container[e]) : Position[f] = k

NoRepeat ==
  \A e, f \in Entries :
    /\ Container[e] = Container[f]
    /\ Target[e] # None /\ Target[e] = Target[f]
    => e = f

(* A list holds resolved entries of the playlist it was made for.          *)
OwnInv ==
  \A l \in Lists : \A n \in 1..Len(lists[l]) : lists[l][n] \in Resolved(owner[l])

(* Lists change by an append only, and keep their playlist.                *)
LEMMA ListsGrow ==
  ASSUME IInv, [Next]_vars
  PROVE  /\ UNCHANGED lists \/ \E e \in Entries : AppendEntry(e)
         /\ \A l \in Lists : owner[l] # None => owner'[l] = owner[l]
<1>1. ASSUME NEW i \in Items, ExecuteItem(i)
      PROVE  /\ UNCHANGED lists \/ (i \in Entries /\ AppendEntry(i))
             /\ \A l \in Lists : owner[l] # None => owner'[l] = owner[l]
  <2>1. CASE \/ SkipSettled(i) \/ DryRunItem(i) \/ RefuseMissing(i) \/ FailRead(i)
             \/ RefuseMismatch(i) \/ ConfirmLanded(i) \/ SaveFavorite(i)
             \/ ReusePlaylist(i)
    BY <2>1 DEF SkipSettled, DryRunItem, RefuseMissing, FailRead, RefuseMismatch,
                ConfirmLanded, SaveFavorite, ReusePlaylist, destination
  <2>2. CASE CreatePlaylist(i)
    <3>1. UNCHANGED lists
      BY <2>2 DEF CreatePlaylist
    <3>2. \A l \in Lists : owner[l] # None => owner'[l] = owner[l]
      BY <2>2 DEF CreatePlaylist, IInv, TypeInv, TypeOK
    <3> QED
      BY <3>1, <3>2
  <2>3. CASE AppendEntry(i)
    BY <2>3 DEF AppendEntry, Reconciling
  <2> QED
    BY <1>1, <2>1, <2>2, <2>3 DEF ExecuteItem
<1>2. CASE ~\E i \in Items : ExecuteItem(i)
  <2>1. UNCHANGED destination
    BY <1>2
       DEF Next, Analyze, Authenticate, Export, Plan, StoreItems,
           AwaitConfirmation, Answer, Confirm, Decline, Resume, Run, EnterImport,
           ResolveAmbiguous, Settle, StopForCancellation, FinishDryRun,
           BeginVerify, FinishJob, RequestCancellation, Retire, Crash, vars
  <2> QED
    BY <2>1 DEF destination
<1> QED
  BY <1>1, <1>2

(* What an append does to the lists.                                       *)
LEMMA AppendChanges ==
  ASSUME IInv, NEW e \in Entries, AppendEntry(e)
  PROVE  /\ ListOf(e) \in Lists /\ owner[ListOf(e)] = Container[e]
         /\ owner' = owner
         /\ e \in Resolved(Container[e])
         /\ \/ lists' = lists
            \/ lists' = [lists EXCEPT ![ListOf(e)] = Append(lists[ListOf(e)], e)]
<1>1. ~MissingIdentifier(e)
  BY DEF AppendEntry, Reconciling
<1>2. ListOf(e) \in Lists /\ owner[ListOf(e)] = Container[e]
  BY <1>1, ListOfContainer
<1>3. e \in Resolved(Container[e])
  BY <1>1 DEF Resolved, MissingIdentifier
<1>4. \/ lists' = lists
      \/ lists' = [lists EXCEPT ![ListOf(e)] = Append(lists[ListOf(e)], e)]
  BY DEF AppendEntry
<1> QED
  BY <1>2, <1>3, <1>4 DEF AppendEntry

(* Nothing foreign gets into a list.                                       *)
LEMMA OwnStep == IInv /\ OwnInv /\ [Next]_vars => OwnInv'
<1> SUFFICES ASSUME IInv, OwnInv, [Next]_vars,
                    NEW l \in Lists, NEW n \in 1..Len(lists'[l])
             PROVE  lists'[l][n] \in Resolved(owner'[l])
  BY DEF OwnInv
<1>1. lists \in [Lists -> Seq(Entries)]
  BY DEF IInv, TypeInv, TypeOK
<1>2. ASSUME lists'[l] = lists[l] PROVE lists'[l][n] \in Resolved(owner'[l])
  <2>1. lists[l] # <<>>
    <3>1. Len(lists[l]) \in Nat /\ Len(lists[l]) # 0
      BY <1>1, <1>2
    <3> QED
      BY <3>1
  <2>2. owner'[l] = owner[l]
    BY <2>1, ListsGrow DEF IInv, ListRecordedFirst
  <2> QED
    BY <1>2, <2>2 DEF OwnInv
<1>3. ASSUME NEW e \in Entries, AppendEntry(e), l = ListOf(e),
             lists' = [lists EXCEPT ![ListOf(e)] = Append(lists[ListOf(e)], e)]
      PROVE  lists'[l][n] \in Resolved(owner'[l])
  <2>1. lists'[l] = Append(lists[l], e) /\ lists[l] \in Seq(Entries)
    BY <1>1, <1>3
  <2>2. owner'[l] = owner[l] /\ e \in Resolved(owner[l])
    BY <1>3, AppendChanges
  <2>3. \/ n \in 1..Len(lists[l]) /\ lists'[l][n] = lists[l][n]
        \/ lists'[l][n] = e
    BY <2>1
  <2> QED
    BY <2>2, <2>3 DEF OwnInv
<1> QED
  <2>1. CASE UNCHANGED lists
    BY <1>2, <2>1
  <2>2. CASE \E e \in Entries : AppendEntry(e)
    <3>1. PICK e \in Entries : AppendEntry(e)
      BY <2>2
    <3>2. CASE lists' = lists
      BY <1>2, <3>2
    <3>3. CASE lists' = [lists EXCEPT ![ListOf(e)] = Append(lists[ListOf(e)], e)]
      <4>1. l # ListOf(e) => lists'[l] = lists[l]
        BY <1>1, <3>3
      <4> QED
        BY <1>2, <1>3, <3>1, <3>3, <4>1
    <3> QED
      BY <3>1, <3>2, <3>3, AppendChanges
  <2> QED
    BY <2>1, <2>2, ListsGrow

(* Without gaps the place of an entry among the resolved ones is its       *)
(* position.                                                               *)
LEMMA SlotIsPosition ==
  ASSUME NoGap, NEW e \in Entries
  PROVE  Slot(e) = Position[e] + 1
<1> DEFINE ahead == {f \in Resolved(Container[e]) : Position[f] < Position[e]}
           place == 0..(Position[e] - 1)
           at == [k \in place |-> CHOOSE f \in ahead : Position[f] = k]
<1>1. IsFiniteSet(ahead) /\ Cardinality(ahead) \in Nat
  <2>1. ahead \subseteq Entries
    BY DEF Resolved
  <2> QED
    BY <2>1, ItemsAssumption, FS_Subset, FS_CardinalityType
<1>2. Position[e] \in Nat
  BY PlanAssumption
<1>3. IsFiniteSet(place) /\ Cardinality(place) = Position[e]
  <2> DEFINE last == Position[e] - 1
  <2>1. last \in Int /\ (0 > last <=> Position[e] = 0) /\ last - 0 + 1 = Position[e]
    BY <1>2
  <2>2. /\ IsFiniteSet(0..last)
        /\ Cardinality(0..last) = IF 0 > last THEN 0 ELSE last - 0 + 1
    <3> HIDE DEF last
    <3> QED
      BY <2>1, FS_Interval
  <2> QED
    BY <2>1, <2>2
<1>4. ASSUME NEW k \in place PROVE \E f \in ahead : Position[f] = k
  <2>1. PICK f \in Resolved(Container[e]) : Position[f] = k
    BY DEF NoGap
  <2> QED
    BY <1>2, <2>1
<1>5. \A k \in place : at[k] \in ahead /\ Position[at[k]] = k
  <2> HIDE DEF ahead, place
  <2> QED
    BY <1>4
<1>6. at \in [place -> ahead]
  <2> HIDE DEF ahead
  <2> QED
    BY <1>5
<1>7. ~(Cardinality(ahead) < Cardinality(place))
  <2> HIDE DEF ahead, place, at
  <2>1. \A j, k \in place : j # k => at[j] # at[k]
    BY <1>5
  <2> QED
    BY <1>1, <1>3, <1>6, <2>1, FS_PigeonHole
<1>8. Slot(e) = Cardinality(ahead) + 1
  BY DEF Slot
<1> HIDE DEF ahead, place
<1> QED
  BY <1>1, <1>2, <1>3, <1>7, <1>8, SlotBound

(* An entry is appended behind entries that come before it in the source:  *)
(* the list agrees with the plan as far as it goes, and does not reach the *)
(* entry's position (executor.py:356-362).                                 *)
LEMMA AppendedBehind ==
  ASSUME IInv, OwnInv, ReadsLists, NoGap, NoRepeat, NEW e \in Entries, AppendEntry(e),
         NEW n \in 1..Len(lists[ListOf(e)])
  PROVE  Position[lists[ListOf(e)][n]] < Position[e]
<1> DEFINE actual == lists[ListOf(e)]
<1>1. ListOf(e) \in Lists /\ owner[ListOf(e)] = Container[e]
  BY AppendChanges
<1>2. actual \in Seq(Entries) /\ Len(actual) \in Nat
  BY <1>1 DEF IInv, TypeInv, TypeOK
<1>3. IsPlannedPrefix(actual, Container[e]) /\ ~(Len(actual) > Position[e])
  BY DEF AppendEntry, AlreadyLanded, Mismatch
<1>4. Position[e] \in Nat
  BY PlanAssumption
<1>5. actual[n] \in Resolved(Container[e])
  BY <1>1 DEF OwnInv
<1> HIDE DEF actual
<1>6. n - 1 \in 0..(Position[e] - 1)
  BY <1>2, <1>3, <1>4 DEF actual
<1>7. PICK g \in Resolved(Container[e]) : Position[g] = n - 1
  BY <1>6 DEF NoGap
<1>8. g \in Entries /\ Container[g] = Container[e] /\ Target[g] # None
  BY <1>7 DEF Resolved
<1>9. Slot(g) = n
  BY <1>6, <1>7, <1>8, SlotIsPosition
<1>10. n <= Len(actual)
  BY <1>2 DEF actual
<1>11. Target[actual[n]] = Target[g]
  BY <1>3, <1>7, <1>9, <1>10 DEF IsPlannedPrefix
<1>12. actual[n] = g
  BY <1>5, <1>8, <1>11 DEF NoRepeat, Resolved
<1> QED
  BY <1>4, <1>6, <1>7, <1>12 DEF actual

(* The order of a list survives an append.                                 *)
LEMMA OrderStep ==
  ASSUME ReadsLists, NoGap, NoRepeat
  PROVE  IInv /\ OwnInv /\ SourceOrder /\ [Next]_vars => SourceOrder'
<1> SUFFICES ASSUME IInv, OwnInv, SourceOrder, [Next]_vars,
                    NEW l \in Lists, NEW m \in 1..Len(lists'[l]),
                    NEW n \in 1..Len(lists'[l]), m < n
             PROVE  Position[lists'[l][m]] < Position[lists'[l][n]]
  BY DEF SourceOrder
<1>1. lists \in [Lists -> Seq(Entries)]
  BY DEF IInv, TypeInv, TypeOK
<1>2. CASE lists'[l] = lists[l]
  BY <1>2 DEF SourceOrder
<1>3. ASSUME NEW e \in Entries, AppendEntry(e), l = ListOf(e),
             lists' = [lists EXCEPT ![ListOf(e)] = Append(lists[ListOf(e)], e)]
      PROVE  Position[lists'[l][m]] < Position[lists'[l][n]]
  <2>1. lists'[l] = Append(lists[l], e) /\ lists[l] \in Seq(Entries)
        /\ Len(lists[l]) \in Nat
    BY <1>1, <1>3
  <2>2. m \in 1..Len(lists[l]) /\ lists'[l][m] = lists[l][m]
    BY <2>1
  <2>3. CASE n \in 1..Len(lists[l])
    <3>1. lists'[l][n] = lists[l][n]
      BY <2>1, <2>3
    <3> QED
      BY <2>2, <2>3, <3>1 DEF SourceOrder
  <2>4. CASE n \notin 1..Len(lists[l])
    <3>1. lists'[l][n] = e
      BY <2>1, <2>4
    <3> QED
      BY <1>3, <2>2, <3>1, AppendedBehind
  <2> QED
    BY <2>3, <2>4
<1> QED
  <2>1. CASE \E e \in Entries : AppendEntry(e)
    <3>1. PICK e \in Entries : AppendEntry(e)
      BY <2>1
    <3>2. CASE lists' = [lists EXCEPT ![ListOf(e)] = Append(lists[ListOf(e)], e)]
      <4>1. l # ListOf(e) => lists'[l] = lists[l]
        BY <1>1, <3>2
      <4> QED
        BY <1>2, <1>3, <3>1, <3>2, <4>1
    <3> QED
      BY <1>2, <3>1, <3>2, AppendChanges
  <2> QED
    BY <1>2, <2>1, ListsGrow

(* Lists are empty at first.                                               *)
LEMMA OwnInit == Init => OwnInv /\ SourceOrder
<1> SUFFICES ASSUME Init, NEW l \in Lists PROVE Len(lists[l]) = 0
  BY DEF OwnInv, SourceOrder
<1> QED
  BY DEF Init

(* At a destination that can list a playlist, for a plan without gaps or   *)
(* repeated tracks: entries come in source order and none comes twice,     *)
(* whatever was lost, crashed or resumed.                                  *)
THEOREM EntriesInOrder ==
  ASSUME ReadsLists, NoGap, NoRepeat
  PROVE  Spec => []SourceOrder
<1>1. Spec => [](IInv /\ OwnInv /\ SourceOrder)
  <2>1. IInv /\ OwnInv /\ SourceOrder /\ [Next]_vars => SourceOrder'
    BY OrderStep
  <2> QED
    BY <2>1, IInvInit, IInvStep, OwnInit, OwnStep, PTL DEF Spec
<1> QED
  BY <1>1, PTL

(* For a plan without repeated tracks, every confirmed entry has a copy of *)
(* its own in the playlist (Invariant D).                                  *)
THEOREM EveryEntryHasACopy ==
  ASSUME NoRepeat
  PROVE  Spec => []EntriesCounted
<1>1. ASSUME IInv, OwnInv PROVE EntriesCounted
  <2> SUFFICES ASSUME NEW p \in Playlists, itemStore[p].list # None
               PROVE  Cardinality({e \in Entries : Container[e] = p /\ Confirmed(e)})
                        <= Len(lists[itemStore[p].list])
    BY DEF EntriesCounted
  <2> DEFINE l == itemStore[p].list
             done == {e \in Entries : Container[e] = p /\ Confirmed(e)}
             at == [e \in done |-> CHOOSE n \in 1..Len(lists[l]) : lists[l][n] = e]
  <2>1. l \in Lists /\ owner[l] = p
    <3>1. p \in Items /\ Group(p) = p
      BY GroupType DEF Items
    <3> QED
      BY <1>1, <3>1 DEF IInv, ListInv, TypeInv, TypeOK, ItemRecord
  <2>2. Len(lists[l]) \in Nat
    BY <1>1, <2>1 DEF IInv, TypeInv, TypeOK
  <2>3. IsFiniteSet(done) /\ Cardinality(done) \in Nat
    <3>1. done \subseteq Entries
      OBVIOUS
    <3> HIDE DEF done
    <3> QED
      BY <3>1, ItemsAssumption, FS_Subset, FS_CardinalityType
  <2>4. ASSUME NEW e \in done PROVE \E n \in 1..Len(lists[l]) : lists[l][n] = e
    <3>1. Container[e] = p /\ Holds(l, Target[e]) /\ e \in Entries
      BY <1>1, <2>1 DEF IInv, ConfirmedPresent
    <3>2. PICK n \in 1..Len(lists[l]) : Target[lists[l][n]] = Target[e]
      BY <3>1 DEF Holds
    <3>3. lists[l][n] \in Resolved(p)
      BY <1>1, <2>1 DEF OwnInv
    <3>4. lists[l][n] = e
      BY <3>1, <3>2, <3>3 DEF NoRepeat, Resolved
    <3> QED
      BY <3>4
  <2> HIDE DEF l
  <2>5. \A e \in done : at[e] \in 1..Len(lists[l]) /\ lists[l][at[e]] = e
    <3> HIDE DEF done
    <3> QED
      BY <2>4
  <2>6. at \in [done -> 1..Len(lists[l])]
    <3> HIDE DEF done
    <3> QED
      BY <2>5
  <2>7. IsFiniteSet(1..Len(lists[l])) /\ Cardinality(1..Len(lists[l])) = Len(lists[l])
    <3> DEFINE last == Len(lists[l])
    <3>1. last \in Int /\ 1 \in Int /\ (1 > last <=> last = 0) /\ last - 1 + 1 = last
      BY <2>2
    <3> HIDE DEF last
    <3>2. /\ IsFiniteSet(1..last)
          /\ Cardinality(1..last) = IF 1 > last THEN 0 ELSE last - 1 + 1
      BY <3>1, FS_Interval
    <3> QED
      BY <3>1, <3>2 DEF last
  <2>8. ~(Cardinality(1..Len(lists[l])) < Cardinality(done))
    <3> DEFINE place == 1..Len(lists[l])
    <3> HIDE DEF done, at
    <3>1. \A e, f \in done : e # f => at[e] # at[f]
      BY <2>5
    <3>2. /\ IsFiniteSet(place) /\ at \in [done -> place]
      BY <2>6, <2>7
    <3> HIDE DEF place
    <3>3. ~(Cardinality(place) < Cardinality(done))
      BY <2>3, <3>1, <3>2, FS_PigeonHole
    <3> QED
      BY <3>3 DEF place
  <2>9. Cardinality(done) <= Len(lists[l])
    <3> HIDE DEF done
    <3> QED
      BY <2>2, <2>3, <2>7, <2>8
  <2> QED
    BY <2>9 DEF l
<1>2. Spec => [](IInv /\ OwnInv)
  BY IInvInit, IInvStep, OwnInit, OwnStep, PTL DEF Spec
<1> QED
  BY <1>1, <1>2, PTL
============================================================================
