--------------------------- MODULE JobStoreProofs ---------------------------
(***************************************************************************)
(* Proofs about JobStore: for any number of processes, jobs and items, no  *)
(* document names an item as transferred that the destination has not, no  *)
(* document loses an item, and no job but a dry run is stored as completed *)
(* before each of its items was attempted or found settled.                *)
(*                                                                         *)
(* What makes this true without any lock is that an update of a document   *)
(* puts back an older reading, never something that was not read: the      *)
(* readings a process holds in memory are as truthful as the documents     *)
(* (Truthful), and they have the same items, because the items of a job    *)
(* are written once, before any process can resume the job (SameItems).    *)
(***************************************************************************)
EXTENDS JobStore, SublistProofs

StoredItem == [status : ItemStatus, list : Nat]
JobRecord == [status : JobStatus, cancel : BOOLEAN]
Documents == UNION {[D -> StoredItem] : D \in SUBSET Items}

Confirming == {"confirm", "confirm_read", "confirm_store"}
Looping == {"loop", "reconcile", "loop_read", "loop_store"}
Running ==
  Confirming \cup Looping \cup {"resolve", "resolve_list", "enter", "list", "verify"}

Memory ==
  [pc : Running \cup {"idle", "add_job", "add_items", "store_job"},
   id : Jobs \cup {Nothing}, job : JobRecord \cup {Nothing},
   mine : Documents, queue : Seq(Items), read : Documents,
   seen : Seq(Items), cancelled : BOOLEAN]

TypeInv ==
  /\ jobs \in [Jobs -> JobRecord \cup {Nothing}]
  /\ items \in [Jobs -> Documents]
  /\ library \in SUBSET Items
  /\ lists \in Seq(Seq(Items))
  /\ run \in [Processes -> Memory]
  /\ tried \in [Jobs -> SUBSET Items]

(* What a reading of a document says is true of the destination.           *)
PresentIn(i, lib, ls) ==
  IF i \in Favorites THEN i \in lib
  ELSE IF i = Playlist THEN ls # << >>
  ELSE \E l \in DOMAIN ls : \E k \in DOMAIN ls[l] : ls[l][k] = i

TruthfulIn(d, lib, ls) ==
  \A i \in DOMAIN d :
    /\ d[i].list <= Len(ls)
    /\ d[i].status = "transferred" => PresentIn(i, lib, ls)

Truthful ==
  /\ \A j \in Jobs : TruthfulIn(items[j], library, lists)
  /\ \A p \in Processes :
       /\ TruthfulIn(run[p].mine, library, lists)
       /\ TruthfulIn(run[p].read, library, lists)

(* The queue of a process names items it has read; those it is about to    *)
(* confirm are in the library, and what it has seen at the destination is  *)
(* there.                                                                  *)
QueuedIn(m, lib, ls) ==
  /\ m.pc \in Confirming \cup Looping =>
       \A k \in DOMAIN m.queue : m.queue[k] \in DOMAIN m.mine
  /\ m.pc \in Confirming =>
       \A k \in DOMAIN m.queue : m.queue[k] \in lib \cap Favorites
  /\ m.pc \in {"confirm_read", "confirm_store", "reconcile", "loop_read", "loop_store"} =>
       m.queue # << >>
  /\ m.pc = "resolve_list" =>
       \A k \in DOMAIN m.seen : m.seen[k] \in lib \cap Favorites
  /\ m.pc = "reconcile" =>
       /\ Head(m.queue) \in Entries
       /\ ListOf(m.mine, Head(m.queue)) # 0
       /\ \A k \in DOMAIN m.seen :
            \E l \in DOMAIN ls : \E n \in DOMAIN ls[l] : ls[l][n] = m.seen[k]

Queued == \A p \in Processes : QueuedIn(run[p], library, lists)

(* The items of a job are written once, by the process that added it; a    *)
(* process that runs a job, or is about to store its items, has read the   *)
(* same items as are stored now.                                           *)
SameIn(m, js, its) ==
  /\ m.pc \in Running \cup {"add_items", "store_job"} =>
       m.id \in Jobs /\ js[m.id] # Nothing
  /\ m.pc \in Running => DOMAIN its[m.id] # {}
  /\ m.pc \in Confirming \cup Looping => DOMAIN m.mine = DOMAIN its[m.id]
  /\ m.pc \in {"confirm_store", "loop_store"} => DOMAIN m.read = DOMAIN its[m.id]
  /\ m.pc = "add_items" => DOMAIN its[m.id] = {}

SameItems ==
  /\ \A j \in Jobs : jobs[j] = Nothing => DOMAIN items[j] = {}
  /\ \A p \in Processes : SameIn(run[p], jobs, items)
  /\ \A p, q \in Processes :
       /\ run[p].pc = "add_items" /\ run[q].pc = "add_items"
       /\ run[p].id = run[q].id
       => p = q

(* The items of a job that have been seen to, and what is left of them;    *)
(* nothing is claimed of a dry run.                                        *)
Excused(j, i, its) == i \in Entries /\ Playlist \notin DOMAIN its[j]
DoneIn(j, its, tr, dry) ==
  \/ dry
  \/ /\ DOMAIN its[j] # {}
     /\ \A i \in DOMAIN its[j] : i \in tr[j] \/ Excused(j, i, its)

VisitedIn(m, its, tr, dry) ==
  /\ m.pc \in Running \cup {"add_items", "store_job"} => m.job # Nothing
  /\ m.pc \in Looping \cup {"list"} => m.job.status = "importing"
  /\ m.pc = "add_items" => m.job.status = "created"
  /\ m.pc = "store_job" /\ m.job.status = "completed" => DoneIn(m.id, its, tr, dry)
  /\ m.pc = "verify" /\ ~m.cancelled => DoneIn(m.id, its, tr, dry)
  /\ m.pc \in Looping =>
       \A i \in DOMAIN its[m.id] :
         \/ i \in tr[m.id] \/ Excused(m.id, i, its)
         \/ \E k \in DOMAIN m.queue : m.queue[k] = i

Visited ==
  /\ \A j \in Jobs :
       jobs[j] # Nothing /\ jobs[j].status = "completed" => DoneIn(j, items, tried, dryRun)
  /\ \A p \in Processes : VisitedIn(run[p], items, tried, dryRun)

IInv == TypeInv /\ Truthful /\ Queued /\ SameItems /\ Visited
----------------------------------------------------------------------------
(* A document is a function from some items to stored ones.                *)
LEMMA DocumentIs ==
  ASSUME NEW d
  PROVE  d \in Documents <=> DOMAIN d \subseteq Items /\ d \in [DOMAIN d -> StoredItem]
BY DEF Documents

(* The items of a job that is not there yet: an empty document; and an     *)
(* empty queue.                                                            *)
LEMMA EmptyDocument == << >> \in Documents /\ DOMAIN << >> = {} /\ << >> \in Seq(Items)
<1>2. << >> \in Seq(Items)
  OBVIOUS
<1>1. DOMAIN << >> = {} /\ << >> = [i \in {} |-> i]
  OBVIOUS
<1> QED
  BY <1>1, <1>2, DocumentIs

(* Marking an item, writing one item back, and adding missing ones keep a  *)
(* document a document.                                                    *)
LEMMA MarkedDocument ==
  ASSUME NEW d \in Documents, NEW i \in DOMAIN d, NEW s \in ItemStatus
  PROVE  [d EXCEPT ![i].status = s] \in Documents
BY DocumentIs DEF StoredItem

(* A document in which one item is replaced is a document.                 *)
LEMMA ReplacedDocument ==
  ASSUME NEW d \in Documents, NEW i \in Items, NEW item \in StoredItem
  PROVE  Replaced(d, i, item) \in Documents
<1>1. DOMAIN Replaced(d, i, item) = DOMAIN d \cup {i}
  BY DEF Replaced
<1>2. Replaced(d, i, item) \in [DOMAIN d \cup {i} -> StoredItem]
  BY DocumentIs DEF Replaced
<1> QED
  BY <1>1, <1>2, DocumentIs

(* Items added to a document make a document.                              *)
LEMMA MergedDocument ==
  ASSUME NEW d \in Documents, NEW e \in Documents
  PROVE  Merged(d, e) \in Documents
<1>1. DOMAIN Merged(d, e) = DOMAIN d \cup DOMAIN e
  BY DEF Merged
<1>2. Merged(d, e) \in [DOMAIN d \cup DOMAIN e -> StoredItem]
  BY DocumentIs DEF Merged
<1> QED
  BY <1>1, <1>2, DocumentIs

(* The memory of a process that starts afresh.                             *)
LEMMA IdleMemory == Idle \in Memory
<1>1. << >> \in Seq(Items)
  OBVIOUS
<1> QED
  BY <1>1, EmptyDocument DEF Idle, Memory

(* One process changes its memory, the others keep theirs.                 *)
LEMMA OneMoves ==
  ASSUME TypeInv, NEW p \in Processes, NEW m, Becomes(p, m)
  PROVE  run'[p] = m /\ \A q \in Processes : q # p => run'[q] = run[q]
BY DEF TypeInv, Becomes

(* The queues hold items of the plan.                                      *)
LEMMA OrderedItems ==
  ASSUME NEW S
  PROVE  Sublist(Order, S) \in Seq(Items)
BY OrderAssumption, SublistPlaces

(* What is kept of a sequence of items: some of its elements.              *)
LEMMA KeptItems ==
  ASSUME NEW s \in Seq(Items), NEW S
  PROVE  /\ Sublist(s, S) \in Seq(Items)
         /\ \A k \in DOMAIN Sublist(s, S) :
              Sublist(s, S)[k] \in S /\ \E n \in DOMAIN s : Sublist(s, S)[k] = s[n]
<1>1. Sublist(s, S) \in Seq(Items)
  BY SublistPlaces
<1>2. \A k \in 1 .. Len(Sublist(s, S)) :
        Sublist(s, S)[k] \in S /\ \E n \in 1 .. Len(s) : Sublist(s, S)[k] = s[n]
  BY SublistHolds
<1>3. DOMAIN s = 1 .. Len(s) /\ DOMAIN Sublist(s, S) = 1 .. Len(Sublist(s, S))
  BY <1>1
<1> QED
  BY <1>1, <1>2, <1>3

(* What one process makes of its memory keeps the type of all.             *)
LEMMA MemoryKept ==
  ASSUME TypeInv, NEW p \in Processes, NEW m \in Memory, Becomes(p, m)
  PROVE  run' \in [Processes -> Memory]
BY DEF TypeInv, Becomes

(* The types hold in every state.                                          *)
LEMMA TypeInit == Init => TypeInv
<1> SUFFICES ASSUME Init PROVE TypeInv
  OBVIOUS
<1>1. jobs \in [Jobs -> JobRecord \cup {Nothing}]
  BY DEF Init, Job, JobRecord, JobStatus
<1>2. items \in [Jobs -> Documents]
  <2>1. [i \in Items |-> Item("matched", 0)] \in Documents
    <3>1. Item("matched", 0) \in StoredItem
      BY DEF Item, StoredItem, ItemStatus
    <3> QED
      BY <3>1, DocumentIs
  <2> QED
    BY <2>1, EmptyDocument DEF Init
<1>3. lists \in Seq(Seq(Items))
  BY DEF Init
<1> QED
  BY <1>1, <1>2, <1>3, IdleMemory DEF Init, TypeInv

(* The head of a queue, and the rest of it.                                *)
LEMMA QueueHead ==
  ASSUME TypeInv, NEW p \in Processes, run[p].queue # << >>
  PROVE  /\ Head(run[p].queue) \in Items /\ Tail(run[p].queue) \in Seq(Items)
         /\ 1 \in DOMAIN run[p].queue /\ run[p].queue[1] = Head(run[p].queue)
         /\ \A k \in DOMAIN Tail(run[p].queue) :
              k + 1 \in DOMAIN run[p].queue /\ Tail(run[p].queue)[k] = run[p].queue[k + 1]
         /\ \A k \in DOMAIN run[p].queue : k # 1 =>
              k - 1 \in DOMAIN Tail(run[p].queue) /\ Tail(run[p].queue)[k - 1] = run[p].queue[k]
<1>1. run[p].queue \in Seq(Items)
  BY DEF TypeInv, Memory
<1> QED
  BY <1>1

(* An entry appended to one of the lists.                                  *)
LEMMA AppendedLists ==
  ASSUME NEW L \in Seq(Seq(Items)), NEW l, NEW i \in Items,
         NEW M, M = [L EXCEPT ![l] = Append(@, i)]
  PROVE  M \in Seq(Seq(Items)) /\ Len(M) = Len(L)
<1>1. /\ Len(L) \in Nat /\ DOMAIN L = 1 .. Len(L)
      /\ \A k \in 1 .. Len(L) : L[k] \in Seq(Items)
  OBVIOUS
<1>2. DOMAIN M = 1 .. Len(L) /\ M = [k \in 1 .. Len(L) |-> M[k]]
  BY <1>1
<1>3. ASSUME NEW k \in 1 .. Len(L) PROVE M[k] \in Seq(Items)
  <2>1. L[k] \in Seq(Items) /\ Append(L[k], i) \in Seq(Items)
    BY <1>1
  <2>2. M[k] = L[k] \/ M[k] = Append(L[k], i)
    BY <1>1
  <2> QED
    BY <2>1, <2>2
<1>4. M \in [1 .. Len(L) -> Seq(Items)]
  BY <1>2, <1>3
<1> QED
  BY <1>1, <1>4

(* A list that a document names was created.                               *)
LEMMA ListIsThere ==
  ASSUME TypeInv, Truthful, NEW p \in Processes, NEW e \in DOMAIN run[p].mine,
         ListOf(run[p].mine, e) # 0
  PROVE  ListOf(run[p].mine, e) \in DOMAIN lists
<1> DEFINE mine == run[p].mine
<1>1. mine \in Documents /\ TruthfulIn(mine, library, lists)
  BY DEF TypeInv, Memory, Truthful
<1>2. \A i \in DOMAIN mine : mine[i].list \in Nat /\ mine[i].list <= Len(lists)
  BY <1>1, DocumentIs DEF StoredItem, TruthfulIn
<1>3. Len(lists) \in Nat /\ DOMAIN lists = 1 .. Len(lists)
  BY DEF TypeInv
<1> HIDE DEF mine
<1>4. ListOf(mine, e) \in Nat /\ ListOf(mine, e) <= Len(lists)
  BY <1>2, <1>3 DEF ListOf, mine
<1> QED
  BY <1>3, <1>4 DEF mine

(* Every step keeps the types.                                             *)
LEMMA TypeStep ==
  TypeInv /\ Truthful /\ Queued /\ SameItems /\ Visited /\ [Next]_vars => TypeInv'
<1> SUFFICES ASSUME TypeInv, Truthful, Queued, SameItems, Visited, [Next]_vars PROVE TypeInv'
  OBVIOUS
<1>0. CASE UNCHANGED vars
  BY <1>0 DEF TypeInv, vars, documents, destination
<1>1. ASSUME NEW p \in Processes, NEW j \in Jobs,
             Resume(p, j) \/ SelectForRetry(p, j) \/ LoadToStop(p, j)
      PROVE  TypeInv'
  <2>0. run[p] \in Memory /\ items[j] \in Documents
    BY DEF TypeInv
  <2>1. CASE Resume(p, j)
    <3>1. jobs[j] \in JobRecord
      BY <2>1 DEF Resume, TypeInv
    <3>2. [run[p] EXCEPT !.pc = "resolve", !.id = j, !.job = jobs[j]] \in Memory
      BY <2>0, <3>1 DEF Memory, Running
    <3> QED
      BY <2>1, <3>2, MemoryKept DEF Resume, TypeInv, documents, destination
  <2>2. CASE SelectForRetry(p, j)
    <3> DEFINE selected == {i \in DOMAIN items[j] : items[j][i].status \in Retryable}
               mine == [i \in selected |-> Item("pending", items[j][i].list)]
    <3>1. mine \in Documents
      <4>1. \A i \in selected : Item("pending", items[j][i].list) \in StoredItem
        BY <2>0, DocumentIs DEF StoredItem, Item, ItemStatus
      <4>2. selected \subseteq Items
        BY <2>0, DocumentIs
      <4> QED
        BY <4>1, <4>2, DocumentIs
    <3>2. [run[p] EXCEPT !.pc = "add_job", !.mine = mine] \in Memory
      <4> HIDE DEF mine
      <4> QED BY <2>0, <3>1 DEF Memory
    <3> QED
      BY <2>2, <3>2, MemoryKept DEF SelectForRetry, TypeInv, documents, destination
  <2>3. CASE LoadToStop(p, j)
    <3>1. jobs[j] \in JobRecord
      BY <2>3 DEF LoadToStop, TypeInv
    <3>2. PICK job \in JobRecord :
            Becomes(p, [run[p] EXCEPT !.pc = "store_job", !.id = j, !.job = job])
      BY <2>3, <3>1 DEF LoadToStop, JobRecord, JobStatus
    <3>3. [run[p] EXCEPT !.pc = "store_job", !.id = j, !.job = job] \in Memory
      BY <2>0 DEF Memory
    <3> QED
      BY <2>3, <3>2, <3>3, MemoryKept DEF LoadToStop, TypeInv, documents, destination
  <2> QED
    BY <1>1, <2>1, <2>2, <2>3
<1>2. ASSUME NEW p \in Processes, Resolve(p) PROVE TypeInv'
  <2>0. run[p] \in Memory /\ run[p].id \in Jobs
    BY <1>2 DEF TypeInv, Resolve, At, SameItems, SameIn, Running
  <2>1. items[run[p].id] \in Documents
    BY <2>0 DEF TypeInv
  <2>2. PICK queue \in Seq(Items) :
          Becomes(p, [run[p] EXCEPT !.pc = "confirm", !.mine = items[run[p].id],
                        !.queue = queue, !.seen = << >>])
    BY <1>2, <2>0, KeptItems DEF Resolve, Memory
  <2>3. [run[p] EXCEPT !.pc = "confirm", !.mine = items[run[p].id],
           !.queue = queue, !.seen = << >>] \in Memory
    BY <2>0, <2>1, EmptyDocument DEF Memory, Running, Confirming
  <2> QED
    BY <1>2, <2>2, <2>3, MemoryKept DEF Resolve, TypeInv, documents, destination
<1>r. ASSUME NEW p \in Processes, ReadState(p) PROVE TypeInv'
  <2>0. run[p] \in Memory
    BY DEF TypeInv
  <2>1. CASE Becomes(p, [run[p] EXCEPT !.pc = "resolve_list",
                          !.seen = Sublist(Order, Favorites \cap library)])
    <3>1. Sublist(Order, Favorites \cap library) \in Seq(Items)
      BY OrderedItems
    <3>2. [run[p] EXCEPT !.pc = "resolve_list",
             !.seen = Sublist(Order, Favorites \cap library)] \in Memory
      BY <2>0, <3>1 DEF Memory, Running
    <3> QED
      BY <1>r, <2>1, <3>2, MemoryKept DEF ReadState, TypeInv, documents, destination
  <2>2. CASE Becomes(p, [run[p] EXCEPT !.pc = "enter"])
    <3>1. [run[p] EXCEPT !.pc = "enter"] \in Memory
      BY <2>0 DEF Memory, Running
    <3> QED
      BY <1>r, <2>2, <3>1, MemoryKept DEF ReadState, TypeInv, documents, destination
  <2> QED
    BY <1>r, <2>1, <2>2 DEF ReadState
<1>3. ASSUME NEW p \in Processes, ConfirmAmbiguous(p) PROVE TypeInv'
  <2>0. run[p] \in Memory /\ Head(run[p].queue) \in DOMAIN run[p].mine
    BY <1>3, QueueHead DEF TypeInv, ConfirmAmbiguous, At, Queued, QueuedIn, Confirming
  <2> DEFINE mine == [run[p].mine EXCEPT ![Head(run[p].queue)].status = "transferred"]
  <2>1. mine \in Documents
    BY <2>0, MarkedDocument DEF Memory, ItemStatus
  <2>2. Becomes(p, [run[p] EXCEPT !.pc = "confirm_read", !.mine = mine])
    BY <1>3, <2>0 DEF ConfirmAmbiguous, Memory
  <2>3. [run[p] EXCEPT !.pc = "confirm_read", !.mine = mine] \in Memory
    <3> HIDE DEF mine
    <3> QED BY <2>0, <2>1 DEF Memory, Running, Confirming
  <2> HIDE DEF mine
  <2> QED
    BY <1>3, <2>2, <2>3, MemoryKept DEF ConfirmAmbiguous, TypeInv, documents, destination
<1>4. ASSUME NEW p \in Processes, EnterImport(p) PROVE TypeInv'
  <2>0. run[p] \in Memory /\ Job("importing", FALSE) \in JobRecord
    BY DEF TypeInv, Job, JobRecord, JobStatus
  <2>1. [run[p] EXCEPT !.pc = "list", !.job = Job("importing", FALSE)] \in Memory
    BY <2>0 DEF Memory, Running
  <2> QED
    BY <1>4, <2>0, <2>1, MemoryKept DEF EnterImport, TypeInv, destination
<1>5. ASSUME NEW p \in Processes, ListItems(p) PROVE TypeInv'
  <2>0. run[p] \in Memory /\ run[p].id \in Jobs
    BY <1>5 DEF TypeInv, ListItems, At, SameItems, SameIn, Running
  <2>1. items[run[p].id] \in Documents
    BY <2>0 DEF TypeInv
  <2>2. WriteOrder(DOMAIN items[run[p].id]) \in Seq(Items)
    BY OrderedItems DEF WriteOrder
  <2>3. [run[p] EXCEPT !.pc = "loop", !.mine = items[run[p].id],
           !.queue = WriteOrder(DOMAIN items[run[p].id])] \in Memory
    BY <2>0, <2>1, <2>2 DEF Memory, Running, Looping
  <2> QED
    BY <1>5, <2>3, MemoryKept DEF ListItems, TypeInv, documents, destination
<1>6. ASSUME NEW p \in Processes, LoadItems(p) PROVE TypeInv'
  <2>0. run[p] \in Memory /\ run[p].id \in Jobs
    BY <1>6 DEF TypeInv, LoadItems, SameItems, SameIn, Running, Confirming, Looping
  <2>1. items[run[p].id] \in Documents
    BY <2>0 DEF TypeInv
  <2>2. [run[p] EXCEPT !.pc = IF @ = "loop_read" THEN "loop_store" ELSE "confirm_store",
           !.read = items[run[p].id]] \in Memory
    BY <2>0, <2>1 DEF Memory, Running, Looping, Confirming
  <2> QED
    BY <1>6, <2>2, MemoryKept DEF LoadItems, TypeInv, documents, destination
<1>7. ASSUME NEW p \in Processes, UpdateItem(p) PROVE TypeInv'
  <2> DEFINE i == Head(run[p].queue)
  <2>0. /\ run[p] \in Memory /\ run[p].id \in Jobs /\ run[p].queue # << >>
        /\ i \in DOMAIN run[p].mine /\ i \in Items
        /\ Tail(run[p].queue) \in Seq(Items)
    BY <1>7, QueueHead DEF TypeInv, UpdateItem, Queued, QueuedIn, SameItems, SameIn, Running, Confirming, Looping
  <2>1. run[p].mine[i] \in StoredItem
    BY <2>0, DocumentIs DEF Memory
  <2>2. Replaced(run[p].read, i, run[p].mine[i]) \in Documents
    BY <2>0, <2>1, ReplacedDocument DEF Memory
  <2>3. items' \in [Jobs -> Documents]
    <3> HIDE DEF i
    <3>1. items' = [items EXCEPT ![run[p].id] = Replaced(run[p].read, i, run[p].mine[i])]
      BY <1>7 DEF UpdateItem, i
    <3> QED
      BY <3>1, <2>2 DEF TypeInv
  <2>4. tried' \in [Jobs -> SUBSET Items]
    BY <1>7, <2>0 DEF UpdateItem, TypeInv
  <2>5. [run[p] EXCEPT !.pc = IF At(p, "loop_store") THEN "loop" ELSE "confirm",
           !.queue = Tail(@), !.read = <<>>] \in Memory
    BY <2>0, EmptyDocument DEF Memory, Running, Looping, Confirming
  <2>6. run' \in [Processes -> Memory]
    BY <1>7, <2>5, MemoryKept DEF UpdateItem
  <2> QED
    BY <1>7, <2>3, <2>4, <2>6 DEF UpdateItem, TypeInv, destination
<1>8. ASSUME NEW p \in Processes, SkipSettled(p) PROVE TypeInv'
  <2>0. /\ run[p] \in Memory /\ run[p].id \in Jobs
        /\ Head(run[p].queue) \in Items /\ Tail(run[p].queue) \in Seq(Items)
    BY <1>8, QueueHead DEF TypeInv, SkipSettled, Visiting, At, SameItems, SameIn, Running, Looping
  <2>1. [run[p] EXCEPT !.queue = Tail(@)] \in Memory
    BY <2>0 DEF Memory
  <2>2. tried' \in [Jobs -> SUBSET Items]
    BY <1>8, <2>0 DEF SkipSettled, TypeInv
  <2> QED
    BY <1>8, <2>1, <2>2, MemoryKept DEF SkipSettled, TypeInv, documents, destination
<1>9. ASSUME NEW p \in Processes, NEW i, NEW s \in ItemStatus,
             run[p].pc \in {"loop", "reconcile"}, run[p].queue # << >>,
             i = Head(run[p].queue), Attempted(p, i, s)
      PROVE  /\ run' \in [Processes -> Memory]
             /\ jobs' = jobs /\ items' = items /\ tried' = tried
             /\ i \in Items
  <2>0. run[p] \in Memory /\ i \in DOMAIN run[p].mine /\ i \in Items
    BY <1>9, QueueHead DEF TypeInv, Queued, QueuedIn, Looping
  <2> DEFINE mine == [run[p].mine EXCEPT ![i].status = s]
  <2>1. mine \in Documents
    BY <2>0, MarkedDocument DEF Memory
  <2>2. Becomes(p, [run[p] EXCEPT !.pc = "loop_read", !.mine = mine, !.seen = << >>])
    BY <1>9, <2>0 DEF Attempted, Memory
  <2>3. [run[p] EXCEPT !.pc = "loop_read", !.mine = mine, !.seen = << >>] \in Memory
    <3> HIDE DEF mine
    <3> QED BY <2>0, <2>1, EmptyDocument DEF Memory, Running, Looping
  <2> HIDE DEF mine
  <2> QED
    BY <1>9, <2>0, <2>2, <2>3, MemoryKept DEF Attempted, documents
<1>d. ASSUME NEW p \in Processes, DryRunItem(p) PROVE TypeInv'
  BY <1>9, <1>d DEF DryRunItem, Visiting, At, ItemStatus, TypeInv, destination
<1>10. ASSUME NEW p \in Processes, WriteFavorite(p) PROVE TypeInv'
  <2>1. PICK s \in ItemStatus :
          /\ library' \in Effect(s, library, library \cup {Head(run[p].queue)})
          /\ Attempted(p, Head(run[p].queue), s)
    BY <1>10 DEF WriteFavorite
  <2>2. /\ run' \in [Processes -> Memory]
        /\ jobs' = jobs /\ items' = items /\ tried' = tried
        /\ Head(run[p].queue) \in Items
    BY <1>9, <1>10, <2>1 DEF WriteFavorite, Executing, Visiting, At
  <2>3. library' \in SUBSET Items
    BY <2>1, <2>2 DEF Effect, TypeInv
  <2> QED
    BY <1>10, <2>2, <2>3 DEF WriteFavorite, TypeInv
<1>11. ASSUME NEW p \in Processes, CreatePlaylist(p) PROVE TypeInv'
  <2>0. run[p] \in Memory /\ Playlist \in DOMAIN run[p].mine /\ lists \in Seq(Seq(Items))
    BY <1>11, QueueHead DEF TypeInv, CreatePlaylist, Executing, Visiting, At, Queued, QueuedIn, Looping
  <2>1. lists' \in Seq(Seq(Items))
    <3>1. << >> \in Seq(Items)
      OBVIOUS
    <3>2. Append(lists, << >>) \in Seq(Seq(Items))
      BY <2>0, <3>1
    <3>3. lists' \in {lists, Append(lists, << >>)}
      BY <1>11 DEF CreatePlaylist, Effect
    <3> QED
      BY <2>0, <3>2, <3>3
  <2>2. PICK s \in {"transferred", "failed", "ambiguous"},
             known \in {WithList(run[p].mine, Len(lists')), run[p].mine} :
          Becomes(p, [run[p] EXCEPT !.pc = "loop_read",
                        !.mine = [known EXCEPT ![Playlist].status = s]])
    BY <1>11 DEF CreatePlaylist, Reported
  <2>3. WithList(run[p].mine, Len(lists')) \in Documents
    <3>1. run[p].mine \in Documents /\ Len(lists') \in Nat
      BY <2>0, <2>1 DEF Memory
    <3>2. DOMAIN WithList(run[p].mine, Len(lists')) = DOMAIN run[p].mine
      BY DEF WithList
    <3>3. WithList(run[p].mine, Len(lists')) \in [DOMAIN run[p].mine -> StoredItem]
      BY <3>1, DocumentIs DEF WithList, StoredItem
    <3> QED
      BY <3>1, <3>2, <3>3, DocumentIs
  <2>4. known \in Documents /\ Playlist \in DOMAIN known
    BY <2>0, <2>2, <2>3 DEF Memory, WithList
  <2>5. [known EXCEPT ![Playlist].status = s] \in Documents
    BY <2>4, MarkedDocument DEF ItemStatus
  <2>6. [run[p] EXCEPT !.pc = "loop_read",
           !.mine = [known EXCEPT ![Playlist].status = s]] \in Memory
    BY <2>0, <2>5 DEF Memory, Running, Looping
  <2> QED
    BY <1>11, <2>1, <2>2, <2>6, MemoryKept DEF CreatePlaylist, TypeInv, documents
<1>l. ASSUME NEW p \in Processes, ReadList(p) PROVE TypeInv'
  <2> DEFINE l == ListOf(run[p].mine, Head(run[p].queue))
  <2>0. run[p] \in Memory /\ Head(run[p].queue) \in DOMAIN run[p].mine
    BY <1>l, QueueHead DEF TypeInv, ReadList, Executing, Visiting, At, Queued, QueuedIn, Looping
  <2>1. CASE \E s \in ItemStatus : Attempted(p, Head(run[p].queue), s)
    BY <1>9, <1>l, <2>1 DEF ReadList, Executing, Visiting, At, TypeInv, destination
  <2>2. CASE /\ l # 0
             /\ Becomes(p, [run[p] EXCEPT !.pc = "reconcile", !.seen = lists[l]])
             /\ UNCHANGED <<documents, tried, commands, stops>>
    <3>1. l \in DOMAIN lists
      BY <2>0, <2>2, ListIsThere
    <3>2. lists[l] \in Seq(Items)
      BY <3>1 DEF TypeInv
    <3> HIDE DEF l
    <3>3. [run[p] EXCEPT !.pc = "reconcile", !.seen = lists[l]] \in Memory
      BY <2>0, <3>2 DEF Memory, Running, Looping
    <3> QED
      BY <1>l, <2>2, <3>3, MemoryKept DEF ReadList, TypeInv, documents, destination
  <2> QED
    BY <1>l, <2>1, <2>2 DEF ReadList, ItemStatus
<1>12. ASSUME NEW p \in Processes, WriteEntry(p) PROVE TypeInv'
  <2>0. run[p].pc = "reconcile" /\ run[p].queue # << >>
    BY <1>12 DEF WriteEntry, At, Queued, QueuedIn
  <2>1. PICK s \in ItemStatus : Attempted(p, Head(run[p].queue), s)
    BY <1>12 DEF WriteEntry, ItemStatus
  <2>2. /\ run' \in [Processes -> Memory]
        /\ jobs' = jobs /\ items' = items /\ tried' = tried
        /\ Head(run[p].queue) \in Items
    BY <1>9, <2>0, <2>1
  <2>3. lists' \in Seq(Seq(Items))
    <3> DEFINE l == ListOf(run[p].mine, Head(run[p].queue))
    <3>1. lists' = lists \/ lists' = [lists EXCEPT ![l] = Append(@, Head(run[p].queue))]
      BY <1>12 DEF WriteEntry, Effect
    <3> HIDE DEF l
    <3>2. lists \in Seq(Seq(Items)) /\ Head(run[p].queue) \in Items
      BY <2>2 DEF TypeInv
    <3> QED
      BY <3>1, <3>2, AppendedLists
  <2> QED
    BY <1>12, <2>2, <2>3 DEF WriteEntry, TypeInv
<1>13. ASSUME NEW p \in Processes, RequestCancellation(p) PROVE TypeInv'
  <2>0. run[p] \in Memory /\ run[p].id \in Jobs /\ run[p].job \in JobRecord
    BY <1>13 DEF TypeInv, Memory, RequestCancellation, At, SameItems, SameIn, Visited, VisitedIn, Running, Looping
  <2>1. [run[p].job EXCEPT !.cancel = TRUE] \in JobRecord
    BY <2>0 DEF JobRecord
  <2>2. [run[p] EXCEPT !.job = [run[p].job EXCEPT !.cancel = TRUE]] \in Memory
    BY <2>0, <2>1 DEF Memory
  <2> QED
    BY <1>13, <2>1, <2>2, MemoryKept DEF RequestCancellation, TypeInv, destination
<1>14. ASSUME NEW p \in Processes, BeginVerify(p) PROVE TypeInv'
  <2>0. run[p] \in Memory /\ run[p].id \in Jobs /\ run[p].job \in JobRecord
    BY <1>14 DEF TypeInv, Memory, BeginVerify, LoopOver, At, SameItems, SameIn, Visited, VisitedIn, Running, Looping
  <2>1. Job("verifying", run[p].job.cancel) \in JobRecord
    BY <2>0 DEF JobRecord, Job, JobStatus
  <2>2. [run[p] EXCEPT !.pc = "verify", !.job = Job("verifying", run[p].job.cancel),
           !.cancelled = run[p].queue # << >>] \in Memory
    BY <2>0, <2>1 DEF Memory, Running
  <2> QED
    BY <1>14, <2>1, <2>2, MemoryKept DEF BeginVerify, TypeInv, destination
<1>15. ASSUME NEW p \in Processes, FinishJob(p) PROVE TypeInv'
  <2>0. run[p] \in Memory /\ run[p].id \in Jobs /\ run[p].job \in JobRecord
    BY <1>15 DEF TypeInv, Memory, FinishJob, At, SameItems, SameIn, Visited, VisitedIn, Running
  <2>1. Job(LastStatus(run[p]), run[p].job.cancel) \in JobRecord
    BY <2>0 DEF JobRecord, Job, JobStatus, LastStatus
  <2> QED
    BY <1>15, <2>1, IdleMemory, MemoryKept DEF FinishJob, TypeInv, destination
<1>f. ASSUME NEW p \in Processes, FinishDryRun(p) PROVE TypeInv'
  <2>0. run[p] \in Memory /\ run[p].id \in Jobs /\ run[p].job \in JobRecord
    BY <1>f DEF TypeInv, Memory, FinishDryRun, LoopOver, At, SameItems, SameIn, Visited, VisitedIn,
       Running, Looping
  <2>1. Job("completed", run[p].job.cancel) \in JobRecord
    BY <2>0 DEF JobRecord, Job, JobStatus
  <2> QED
    BY <1>f, <2>1, IdleMemory, MemoryKept DEF FinishDryRun, TypeInv, destination
<1>16. ASSUME NEW p \in Processes, AddJob(p) PROVE TypeInv'
  <2>0. run[p] \in Memory /\ Job("created", FALSE) \in JobRecord
    BY DEF TypeInv, Job, JobRecord, JobStatus
  <2>1. PICK j \in Jobs :
          /\ jobs' = [jobs EXCEPT ![j] = Job("created", FALSE)]
          /\ Becomes(p, [run[p] EXCEPT !.pc = "add_items", !.id = j, !.job = Job("created", FALSE)])
    BY <1>16 DEF AddJob
  <2>2. [run[p] EXCEPT !.pc = "add_items", !.id = j, !.job = Job("created", FALSE)] \in Memory
    BY <2>0 DEF Memory
  <2> QED
    BY <1>16, <2>0, <2>1, <2>2, MemoryKept DEF AddJob, TypeInv, destination
<1>17. ASSUME NEW p \in Processes, AddItems(p) PROVE TypeInv'
  <2>0. run[p] \in Memory /\ run[p].id \in Jobs
    BY <1>17 DEF TypeInv, AddItems, At, SameItems, SameIn
  <2>1. Merged(items[run[p].id], run[p].mine) \in Documents
    BY <2>0, MergedDocument DEF TypeInv, Memory
  <2>2. [run[p] EXCEPT !.pc = "store_job"] \in Memory
    BY <2>0 DEF Memory
  <2> QED
    BY <1>17, <2>1, <2>2, MemoryKept DEF AddItems, TypeInv, destination
<1>18. ASSUME NEW p \in Processes, StoreJob(p) PROVE TypeInv'
  <2>0. run[p] \in Memory /\ run[p].id \in Jobs /\ run[p].job \in JobRecord
    BY <1>18 DEF TypeInv, Memory, StoreJob, At, SameItems, SameIn, Visited, VisitedIn
  <2> QED
    BY <1>18, <2>0, IdleMemory, MemoryKept DEF StoreJob, TypeInv, destination
<1>19. ASSUME NEW p \in Processes, Crash(p) PROVE TypeInv'
  BY <1>19, IdleMemory, MemoryKept DEF Crash, TypeInv, documents, destination
<1> QED
  BY <1>0, <1>1, <1>2, <1>r, <1>3, <1>4, <1>5, <1>6, <1>7, <1>8, <1>d, <1>10, <1>11, <1>l, <1>12,
     <1>13, <1>14, <1>15, <1>f, <1>16, <1>17, <1>18, <1>19 DEF Next
----------------------------------------------------------------------------
(* What was at the destination stays there.                                *)
Grown(lib, ls, lib2, ls2) ==
  /\ lib \subseteq lib2
  /\ Len(ls) \in Nat /\ Len(ls2) \in Nat /\ Len(ls) <= Len(ls2)
  /\ \A l \in DOMAIN ls :
       /\ l \in DOMAIN ls2
       /\ \A k \in DOMAIN ls[l] : k \in DOMAIN ls2[l] /\ ls2[l][k] = ls[l][k]
  /\ ls # << >> => ls2 # << >>

(* Nothing leaves the destination: what is there stays there.              *)
LEMMA PresentStays ==
  ASSUME NEW lib, NEW ls, NEW lib2, NEW ls2, Grown(lib, ls, lib2, ls2),
         NEW i, PresentIn(i, lib, ls)
  PROVE  PresentIn(i, lib2, ls2)
<1>1. CASE i \in Favorites
  BY <1>1 DEF Grown, PresentIn
<1>2. CASE i \notin Favorites /\ i = Playlist
  BY <1>2 DEF Grown, PresentIn
<1>3. CASE i \notin Favorites /\ i # Playlist
  <2>1. PICK l \in DOMAIN ls : \E k \in DOMAIN ls[l] : ls[l][k] = i
    BY <1>3 DEF PresentIn
  <2>2. l \in DOMAIN ls2 /\ \E k \in DOMAIN ls2[l] : ls2[l][k] = i
    BY <2>1 DEF Grown
  <2> QED
    BY <1>3, <2>2 DEF PresentIn
<1> QED
  BY <1>1, <1>2, <1>3

(* A document that tells the truth goes on telling it.                     *)
LEMMA TruthStays ==
  ASSUME NEW lib, NEW ls, NEW lib2, NEW ls2, Grown(lib, ls, lib2, ls2),
         NEW d \in Documents, TruthfulIn(d, lib, ls)
  PROVE  TruthfulIn(d, lib2, ls2)
<1> SUFFICES ASSUME NEW i \in DOMAIN d
             PROVE  /\ d[i].list <= Len(ls2)
                    /\ d[i].status = "transferred" => PresentIn(i, lib2, ls2)
  BY DEF TruthfulIn
<1>1. d[i].list \in Nat /\ d[i].list <= Len(ls)
  BY DocumentIs DEF StoredItem, TruthfulIn
<1>2. d[i].status = "transferred" => PresentIn(i, lib, ls)
  BY DEF TruthfulIn
<1> QED
  BY <1>1, <1>2, PresentStays DEF Grown

(* Nothing is removed from the destination.                                *)
LEMMA StepGrows ==
  TypeInv /\ TypeInv' /\ [Next]_vars => Grown(library, lists, library', lists')
<1> SUFFICES ASSUME TypeInv, TypeInv', [Next]_vars
             PROVE  Grown(library, lists, library', lists')
  OBVIOUS
<1>0. /\ Len(lists) \in Nat /\ Len(lists') \in Nat /\ DOMAIN lists = 1 .. Len(lists)
      /\ DOMAIN lists' = 1 .. Len(lists') /\ lists \in Seq(Seq(Items))
  BY DEF TypeInv
<1>1. CASE UNCHANGED destination
  BY <1>0, <1>1 DEF destination, Grown
<1>2. ASSUME NEW p \in Processes, WriteFavorite(p) PROVE Grown(library, lists, library', lists')
  <2>1. library \subseteq library' /\ lists' = lists
    BY <1>2 DEF WriteFavorite, Effect
  <2> QED
    BY <2>1, <1>0 DEF Grown
<1>3. ASSUME NEW p \in Processes, CreatePlaylist(p) PROVE Grown(library, lists, library', lists')
  <2>1. library' = library /\ lists' \in {lists, Append(lists, << >>)}
    BY <1>3 DEF CreatePlaylist, Effect
  <2>2. CASE lists' = lists
    BY <2>1, <2>2, <1>0 DEF Grown
  <2>3. CASE lists' = Append(lists, << >>)
    <3>1. \A l \in 1 .. Len(lists) : lists'[l] = lists[l]
      BY <2>3, <1>0
    <3>2. Len(lists') = Len(lists) + 1
      BY <2>3, <1>0
    <3>3. lists' # << >>
      BY <3>2, <1>0
    <3> QED
      BY <2>1, <3>1, <3>2, <3>3, <1>0 DEF Grown
  <2> QED
    BY <2>1, <2>2, <2>3
<1>4. ASSUME NEW p \in Processes, WriteEntry(p) PROVE Grown(library, lists, library', lists')
  <2> DEFINE l == ListOf(run[p].mine, Head(run[p].queue))
             e == Head(run[p].queue)
  <2>1. library' = library /\ lists' \in {lists, [lists EXCEPT ![l] = Append(@, e)]}
    BY <1>4 DEF WriteEntry, Effect
  <2>2. CASE lists' = lists
    BY <2>1, <2>2, <1>0 DEF Grown
  <2>3. CASE lists' = [lists EXCEPT ![l] = Append(@, e)]
    <3> HIDE DEF l, e
    <3>1. DOMAIN lists' = DOMAIN lists /\ Len(lists') = Len(lists)
      BY <2>3, <1>0
    <3>2. ASSUME NEW m \in DOMAIN lists, NEW k \in DOMAIN lists[m]
          PROVE  k \in DOMAIN lists'[m] /\ lists'[m][k] = lists[m][k]
      <4>1. lists[m] \in Seq(Items)
        BY <1>0
      <4>2. lists'[m] = lists[m] \/ lists'[m] = Append(lists[m], e)
        BY <2>3
      <4> QED
        BY <4>1, <4>2
    <3>3. lists # << >> => lists' # << >>
      BY <3>1, <1>0
    <3> QED
      BY <2>1, <3>1, <3>2, <3>3, <1>0 DEF Grown
  <2> QED
    BY <2>1, <2>2, <2>3
<1>5. ASSUME Next, ~UNCHANGED destination
      PROVE  \E p \in Processes : WriteFavorite(p) \/ CreatePlaylist(p) \/ WriteEntry(p)
  BY <1>5 DEF Next, Resume, SelectForRetry, LoadToStop, ReadState, Resolve, ConfirmAmbiguous,
     EnterImport, ListItems, LoadItems, UpdateItem, SkipSettled, DryRunItem, ReadList,
     RequestCancellation, BeginVerify, FinishJob, FinishDryRun, AddJob, AddItems, StoreJob, Crash
<1> QED
  BY <1>1, <1>2, <1>3, <1>4, <1>5 DEF vars

(* _reconcile: a list that repeats the entries of the job in source order  *)
(* and is longer than the place of an entry behind its playlist holds that *)
(* entry.                                                                  *)
LEMMA LandedHolds ==
  ASSUME NEW content \in Seq(Items), NEW mine, NEW e \in Entries, e \in DOMAIN mine,
         IsPrefix(content, Siblings(mine)), Landed(content, e)
  PROVE  \E k \in DOMAIN content : content[k] = e
<1> DEFINE S == Entries \cap DOMAIN mine
           s == Sublist(Order, S)
<1>1. s \in Seq(Items) /\ Len(Order) \in Nat /\ DOMAIN Order = 1 .. Len(Order)
  BY OrderAssumption, SublistPlaces
<1>2. PICK at : Places(s, Order, S, Len(Order), at)
  BY OrderAssumption, SublistPlaces
<1>3. PICK m \in 1 .. Len(Order) : Order[m] = e
  BY <1>1, StoreAssumption DEF Items, ToSet
<1>4. PICK n \in 1 .. Len(Order) : Order[n] = Playlist
  BY <1>1, OrderAssumption DEF Items, ToSet
<1>5. Position(e) = m /\ Position(Playlist) = n
  BY <1>1, <1>3, <1>4, OrderAssumption DEF Position
<1>6. Len(s) \in Nat /\ IsPrefix(content, s) /\ e \in S
  BY <1>1 DEF Siblings
<1> HIDE DEF s, S
<1>7. PICK k \in 1 .. Len(s) : at[k] = m
  BY <1>2, <1>3, <1>6 DEF Places
<1>8. 1 \in 1 .. Len(s) /\ at[1] \in 1 .. Len(Order) /\ at[1] + (k - 1) <= m /\ s[1] = Order[at[1]]
  <2>1. 1 \in 1 .. Len(s) /\ 1 <= k
    BY <1>6, <1>7
  <2>2. at[1] + (k - 1) <= at[k]
    BY <1>2, <1>7, <2>1 DEF Places
  <2>3. at[1] \in 1 .. Len(Order) /\ s[1] = Order[at[1]]
    BY <1>2, <2>1 DEF Places
  <2> QED
    BY <1>7, <2>1, <2>2, <2>3
<1>9. s[1] \in Entries
  BY <1>2, <1>8 DEF Places, S
<1>10. n < at[1]
  BY <1>1, <1>4, <1>8, <1>9, OrderAssumption
<1>11. Len(content) \in Nat /\ Len(content) > m - n - 1
  BY <1>5 DEF Landed, EntryPosition
<1>12. k \in 1 .. Len(content)
  BY <1>8, <1>10, <1>11, <1>7
<1>13. content[k] = s[k]
  BY <1>1, <1>6, <1>12 DEF IsPrefix
<1>14. s[k] = Order[m]
  BY <1>2, <1>7 DEF Places
<1> QED
  BY <1>3, <1>12, <1>13, <1>14
----------------------------------------------------------------------------
(* Reading, marking and writing documents keeps them truthful.             *)
LEMMA TruthfulMark ==
  ASSUME NEW lib, NEW ls, NEW d \in Documents, TruthfulIn(d, lib, ls),
         NEW i \in DOMAIN d, NEW s,
         s = "transferred" => PresentIn(i, lib, ls)
  PROVE  TruthfulIn([d EXCEPT ![i].status = s], lib, ls)
<1> DEFINE e == [d EXCEPT ![i].status = s]
<1>1. DOMAIN e = DOMAIN d
  OBVIOUS
<1>2. ASSUME NEW k \in DOMAIN d
      PROVE  /\ e[k].list = d[k].list
             /\ e[k].status = IF k = i THEN s ELSE d[k].status
  BY DocumentIs DEF StoredItem
<1> HIDE DEF e
<1>3. TruthfulIn(e, lib, ls)
  BY <1>1, <1>2 DEF TruthfulIn
<1> QED
  BY <1>3 DEF e

(* An item of one truthful document, written into another one.             *)
LEMMA TruthfulReplaced ==
  ASSUME NEW lib, NEW ls, NEW d, NEW e, NEW i \in DOMAIN e,
         TruthfulIn(d, lib, ls), TruthfulIn(e, lib, ls)
  PROVE  TruthfulIn(Replaced(d, i, e[i]), lib, ls)
<1>1. DOMAIN Replaced(d, i, e[i]) = DOMAIN d \cup {i}
  BY DEF Replaced
<1>2. \A k \in DOMAIN d \cup {i} : Replaced(d, i, e[i])[k] = IF k = i THEN e[i] ELSE d[k]
  BY DEF Replaced
<1> QED
  BY <1>1, <1>2 DEF TruthfulIn

(* The items of a truthful document, added to another one.                 *)
LEMMA TruthfulMerged ==
  ASSUME NEW lib, NEW ls, NEW d, NEW e,
         TruthfulIn(d, lib, ls), TruthfulIn(e, lib, ls)
  PROVE  TruthfulIn(Merged(d, e), lib, ls)
<1>1. DOMAIN Merged(d, e) = DOMAIN d \cup DOMAIN e
  BY DEF Merged
<1>2. \A k \in DOMAIN d \cup DOMAIN e :
        Merged(d, e)[k] = IF k \in DOMAIN d THEN d[k] ELSE e[k]
  BY DEF Merged
<1> QED
  BY <1>1, <1>2 DEF TruthfulIn

(* A document without items tells no untruth.                              *)
LEMMA TruthfulEmpty == \A lib, ls : TruthfulIn(<< >>, lib, ls)
BY EmptyDocument DEF TruthfulIn

(* It is enough to look at the process that moves.                         *)
LEMMA TruthfulFrame ==
  ASSUME TypeInv, TypeInv', Truthful, NEW p \in Processes, NEW m, Becomes(p, m),
         Grown(library, lists, library', lists'),
         TruthfulIn(m.mine, library', lists'), TruthfulIn(m.read, library', lists'),
         \A j \in Jobs : TruthfulIn(items'[j], library', lists')
  PROVE  Truthful'
<1>1. ASSUME NEW q \in Processes
      PROVE  TruthfulIn(run'[q].mine, library', lists') /\ TruthfulIn(run'[q].read, library', lists')
  <2>1. CASE q = p
    BY <2>1, OneMoves
  <2>2. CASE q # p
    <3>1. run'[q] = run[q] /\ run[q].mine \in Documents /\ run[q].read \in Documents
      BY <2>2, OneMoves DEF TypeInv, Memory
    <3>2. TruthfulIn(run[q].mine, library, lists) /\ TruthfulIn(run[q].read, library, lists)
      BY DEF Truthful
    <3> QED
      BY <3>1, <3>2, TruthStays
  <2> QED
    BY <2>1, <2>2
<1> QED
  BY <1>1 DEF Truthful

(* Every step keeps the documents, on disk and in memory, truthful.        *)
LEMMA TruthfulStep ==
  ASSUME TypeInv, TypeInv', Queued, SameItems, Truthful, [Next]_vars
  PROVE  Truthful'
<1>0. Grown(library, lists, library', lists')
  BY StepGrows
<1>a. /\ \A j \in Jobs : TruthfulIn(items[j], library', lists')
      /\ \A p \in Processes :
           /\ TruthfulIn(run[p].mine, library', lists')
           /\ TruthfulIn(run[p].read, library', lists')
  BY <1>0, TruthStays DEF Truthful, TypeInv, Memory
<1>u. CASE UNCHANGED vars
  BY <1>u DEF Truthful, vars, documents, destination
<1>1. ASSUME NEW p \in Processes, NEW j \in Jobs,
             Resume(p, j) \/ SelectForRetry(p, j) \/ LoadToStop(p, j)
      PROVE  Truthful'
  <2>0. run[p] \in Memory /\ items[j] \in Documents
    BY DEF TypeInv
  <2>1. CASE Resume(p, j)
    <3>1. Becomes(p, [run[p] EXCEPT !.pc = "resolve", !.id = j, !.job = jobs[j]])
      BY <2>1 DEF Resume
    <3> QED
      BY <2>0, <2>1, <3>1, <1>0, <1>a, TruthfulFrame DEF Resume, documents, Memory
  <2>2. CASE SelectForRetry(p, j)
    <3> DEFINE selected == {i \in DOMAIN items[j] : items[j][i].status \in Retryable}
               mine == [i \in selected |-> Item("pending", items[j][i].list)]
    <3>1. Becomes(p, [run[p] EXCEPT !.pc = "add_job", !.mine = mine])
      BY <2>2 DEF SelectForRetry
    <3>2. TruthfulIn(mine, library', lists')
      BY <1>a DEF TruthfulIn, Item
    <3> HIDE DEF mine
    <3> QED
      BY <2>0, <2>2, <3>1, <3>2, <1>0, <1>a, TruthfulFrame DEF SelectForRetry, documents, Memory
  <2>3. CASE LoadToStop(p, j)
    <3>1. PICK job : Becomes(p, [run[p] EXCEPT !.pc = "store_job", !.id = j, !.job = job])
      BY <2>3 DEF LoadToStop
    <3> QED
      BY <2>0, <2>3, <3>1, <1>0, <1>a, TruthfulFrame DEF LoadToStop, documents, Memory
  <2> QED
    BY <1>1, <2>1, <2>2, <2>3
<1>2. ASSUME NEW p \in Processes, Resolve(p) PROVE Truthful'
  <2>0. run[p] \in Memory /\ run[p].id \in Jobs
    BY <1>2 DEF TypeInv, Resolve, At, SameItems, SameIn, Running
  <2>1. PICK queue : Becomes(p, [run[p] EXCEPT !.pc = "confirm", !.mine = items[run[p].id],
                                   !.queue = queue, !.seen = << >>])
    BY <1>2 DEF Resolve
  <2> QED
    BY <1>2, <2>0, <2>1, <1>0, <1>a, TruthfulFrame DEF Resolve, documents, Memory
<1>r. ASSUME NEW p \in Processes, ReadState(p) PROVE Truthful'
  <2>0. run[p] \in Memory
    BY DEF TypeInv
  <2>1. CASE \E seen : Becomes(p, [run[p] EXCEPT !.pc = "resolve_list", !.seen = seen])
    BY <1>r, <2>0, <2>1, <1>0, <1>a, TruthfulFrame DEF ReadState, documents, Memory
  <2>2. CASE Becomes(p, [run[p] EXCEPT !.pc = "enter"])
    BY <1>r, <2>0, <2>2, <1>0, <1>a, TruthfulFrame DEF ReadState, documents, Memory
  <2> QED
    BY <1>r, <2>1, <2>2 DEF ReadState
<1>3. ASSUME NEW p \in Processes, ConfirmAmbiguous(p) PROVE Truthful'
  <2> DEFINE i == Head(run[p].queue)
             mine == [run[p].mine EXCEPT ![i].status = "transferred"]
  <2>0. run[p] \in Memory /\ i \in DOMAIN run[p].mine /\ i \in library \cap Favorites
    BY <1>3, QueueHead DEF TypeInv, ConfirmAmbiguous, At, Queued, QueuedIn, Confirming
  <2>1. Becomes(p, [run[p] EXCEPT !.pc = "confirm_read", !.mine = mine])
    BY <1>3, <2>0 DEF ConfirmAmbiguous, Memory
  <2>2. PresentIn(i, library', lists')
    BY <2>0, <1>0 DEF PresentIn, Grown
  <2> HIDE DEF i
  <2>3. TruthfulIn(mine, library', lists')
    BY <2>0, <2>2, <1>a, TruthfulMark DEF Memory
  <2> HIDE DEF mine
  <2> QED
    BY <1>3, <2>0, <2>1, <2>3, <1>0, <1>a, TruthfulFrame DEF ConfirmAmbiguous, documents, Memory
<1>4. ASSUME NEW p \in Processes, EnterImport(p) PROVE Truthful'
  <2>0. run[p] \in Memory
    BY DEF TypeInv
  <2> QED
    BY <1>4, <2>0, <1>0, <1>a, TruthfulFrame DEF EnterImport, Memory
<1>5. ASSUME NEW p \in Processes, ListItems(p) PROVE Truthful'
  <2>0. run[p] \in Memory /\ run[p].id \in Jobs
    BY <1>5 DEF TypeInv, ListItems, At, SameItems, SameIn, Running
  <2>1. PICK queue : Becomes(p, [run[p] EXCEPT !.pc = "loop", !.mine = items[run[p].id],
                                   !.queue = queue])
    BY <1>5 DEF ListItems
  <2> QED
    BY <1>5, <2>0, <2>1, <1>0, <1>a, TruthfulFrame DEF ListItems, documents, Memory
<1>6. ASSUME NEW p \in Processes, LoadItems(p) PROVE Truthful'
  <2>0. run[p] \in Memory /\ run[p].id \in Jobs
    BY <1>6 DEF TypeInv, LoadItems, SameItems, SameIn, Running, Confirming, Looping
  <2>1. PICK pc : Becomes(p, [run[p] EXCEPT !.pc = pc, !.read = items[run[p].id]])
    BY <1>6 DEF LoadItems
  <2> QED
    BY <1>6, <2>0, <2>1, <1>0, <1>a, TruthfulFrame DEF LoadItems, documents, Memory
<1>7. ASSUME NEW p \in Processes, UpdateItem(p) PROVE Truthful'
  <2> DEFINE i == Head(run[p].queue)
  <2>0. /\ run[p] \in Memory /\ run[p].id \in Jobs /\ i \in DOMAIN run[p].mine
    BY <1>7, QueueHead DEF TypeInv, UpdateItem, Queued, QueuedIn, SameItems, SameIn, Running, Confirming, Looping
  <2>1. items' = [items EXCEPT ![run[p].id] = Replaced(run[p].read, i, run[p].mine[i])]
    BY <1>7 DEF UpdateItem
  <2>2. PICK pc, queue : Becomes(p, [run[p] EXCEPT !.pc = pc, !.queue = queue, !.read = << >>])
    BY <1>7 DEF UpdateItem
  <2> HIDE DEF i
  <2>3. TruthfulIn(Replaced(run[p].read, i, run[p].mine[i]), library', lists')
    BY <2>0, <1>a, TruthfulReplaced
  <2>4. \A j \in Jobs : TruthfulIn(items'[j], library', lists')
    BY <2>0, <2>1, <2>3, <1>a DEF TypeInv
  <2> QED
    BY <2>0, <2>2, <2>4, <1>0, <1>a, TruthfulEmpty, TruthfulFrame DEF Memory
<1>8. ASSUME NEW p \in Processes, SkipSettled(p) PROVE Truthful'
  <2>0. run[p] \in Memory
    BY DEF TypeInv
  <2> QED
    BY <1>8, <2>0, <1>0, <1>a, TruthfulFrame DEF SkipSettled, documents, Memory
<1>9. ASSUME NEW p \in Processes, NEW i, NEW s, Attempted(p, i, s), i \in DOMAIN run[p].mine,
             s = "transferred" => PresentIn(i, library', lists')
      PROVE  Truthful'
  <2>0. run[p] \in Memory /\ i \in DOMAIN run[p].mine
    BY <1>9 DEF TypeInv
  <2> DEFINE mine == [run[p].mine EXCEPT ![i].status = s]
  <2>1. Becomes(p, [run[p] EXCEPT !.pc = "loop_read", !.mine = mine, !.seen = << >>])
    BY <1>9, <2>0 DEF Attempted, Memory
  <2>2. TruthfulIn(mine, library', lists')
    BY <2>0, <1>9, <1>a, TruthfulMark DEF Memory
  <2> HIDE DEF mine
  <2> QED
    BY <1>9, <2>0, <2>1, <2>2, <1>0, <1>a, TruthfulFrame DEF Attempted, documents, Memory
<1>d. ASSUME NEW p \in Processes, DryRunItem(p) PROVE Truthful'
  <2>1. Attempted(p, Head(run[p].queue), "skipped")
    BY <1>d DEF DryRunItem
  <2>2. Head(run[p].queue) \in DOMAIN run[p].mine
    BY <1>d, QueueHead DEF DryRunItem, Visiting, At, Queued, QueuedIn, Looping
  <2>3. "skipped" # "transferred"
    OBVIOUS
  <2> QED
    BY <1>9, <2>1, <2>2, <2>3
<1>10. ASSUME NEW p \in Processes, WriteFavorite(p) PROVE Truthful'
  <2>0. Head(run[p].queue) \in DOMAIN run[p].mine /\ Head(run[p].queue) \in Favorites
    BY <1>10, QueueHead DEF WriteFavorite, Executing, Visiting, At, Queued, QueuedIn, Looping
  <2>1. PICK s : /\ Attempted(p, Head(run[p].queue), s)
                 /\ s = "transferred" => library' = library \cup {Head(run[p].queue)}
    BY <1>10 DEF WriteFavorite, Effect
  <2>2. s = "transferred" => PresentIn(Head(run[p].queue), library', lists')
    BY <2>0, <2>1 DEF PresentIn
  <2> QED
    BY <1>9, <2>0, <2>1, <2>2
<1>11. ASSUME NEW p \in Processes, CreatePlaylist(p) PROVE Truthful'
  <2>0. /\ run[p] \in Memory /\ Playlist \in DOMAIN run[p].mine
        /\ Len(lists) \in Nat /\ Len(lists') \in Nat /\ lists \in Seq(Seq(Items))
    BY <1>11, QueueHead DEF TypeInv, CreatePlaylist, Executing, Visiting, At, Queued, QueuedIn, Looping
  <2>1. PICK s, known :
          /\ Becomes(p, [run[p] EXCEPT !.pc = "loop_read",
                           !.mine = [known EXCEPT ![Playlist].status = s]])
          /\ known \in {WithList(run[p].mine, Len(lists')), run[p].mine}
          /\ s = "transferred" => lists' = Append(lists, << >>)
    BY <1>11 DEF CreatePlaylist, Effect
  <2>2. WithList(run[p].mine, Len(lists')) \in Documents
    <3>1. run[p].mine \in Documents
      BY <2>0 DEF Memory
    <3>2. DOMAIN WithList(run[p].mine, Len(lists')) = DOMAIN run[p].mine
      BY DEF WithList
    <3>3. WithList(run[p].mine, Len(lists')) \in [DOMAIN run[p].mine -> StoredItem]
      BY <3>1, <2>0, DocumentIs DEF WithList, StoredItem
    <3> QED
      BY <3>1, <3>2, <3>3, DocumentIs
  <2>3. TruthfulIn(WithList(run[p].mine, Len(lists')), library', lists')
    <3> DEFINE d == run[p].mine
    <3>1. DOMAIN WithList(d, Len(lists')) = DOMAIN d
      BY DEF WithList
    <3>2. ASSUME NEW i \in DOMAIN d
          PROVE  /\ WithList(d, Len(lists'))[i].status = d[i].status
                 /\ WithList(d, Len(lists'))[i].list \in {d[i].list, Len(lists')}
      BY <2>0, DocumentIs DEF WithList, Memory, StoredItem
    <3>3. TruthfulIn(d, library', lists')
      BY <1>a
    <3> HIDE DEF d
    <3>4. TruthfulIn(WithList(d, Len(lists')), library', lists')
      BY <3>1, <3>2, <3>3, <2>0 DEF TruthfulIn
    <3> QED
      BY <3>4 DEF d
  <2>4. known \in Documents /\ Playlist \in DOMAIN known /\ TruthfulIn(known, library', lists')
    BY <2>0, <2>1, <2>2, <2>3, <1>a DEF Memory, WithList
  <2>5. s = "transferred" => PresentIn(Playlist, library', lists')
    <3>1. s = "transferred" => lists' # << >>
      BY <2>0, <2>1
    <3> QED
      BY <3>1 DEF PresentIn, Favorites
  <2>6. TruthfulIn([known EXCEPT ![Playlist].status = s], library', lists')
    BY <2>4, <2>5, TruthfulMark
  <2>7. TruthfulIn(run[p].read, library', lists') /\ \A j \in Jobs : TruthfulIn(items'[j], library', lists')
    BY <1>11, <1>a DEF CreatePlaylist, documents
  <2> DEFINE m == [run[p] EXCEPT !.pc = "loop_read",
                     !.mine = [known EXCEPT ![Playlist].status = s]]
  <2>8. m.mine = [known EXCEPT ![Playlist].status = s] /\ m.read = run[p].read /\ Becomes(p, m)
    BY <2>0, <2>1 DEF Memory
  <2> HIDE DEF m
  <2> QED
    BY <2>6, <2>7, <2>8, <1>0, TruthfulFrame
<1>l. ASSUME NEW p \in Processes, ReadList(p) PROVE Truthful'
  <2>0. run[p] \in Memory /\ Head(run[p].queue) \in DOMAIN run[p].mine
    BY <1>l, QueueHead DEF TypeInv, ReadList, Executing, Visiting, At, Queued, QueuedIn, Looping
  <2>1. CASE \E s \in {"not_found", "failed"} : Attempted(p, Head(run[p].queue), s)
    BY <1>9, <2>0, <2>1
  <2>2. CASE /\ \E seen : Becomes(p, [run[p] EXCEPT !.pc = "reconcile", !.seen = seen])
             /\ UNCHANGED documents
    <3>1. PICK seen : Becomes(p, [run[p] EXCEPT !.pc = "reconcile", !.seen = seen])
      BY <2>2
    <3> DEFINE m == [run[p] EXCEPT !.pc = "reconcile", !.seen = seen]
    <3>2. Becomes(p, m) /\ m.mine = run[p].mine /\ m.read = run[p].read /\ items' = items
      BY <2>0, <2>2, <3>1 DEF Memory, documents
    <3> HIDE DEF m
    <3> QED
      BY <3>2, <1>0, <1>a, TruthfulFrame
  <2> QED
    BY <1>l, <2>1, <2>2 DEF ReadList
<1>12. ASSUME NEW p \in Processes, WriteEntry(p) PROVE Truthful'
  <2> DEFINE e == Head(run[p].queue)
             mine == run[p].mine
             l == ListOf(mine, e)
             seen == run[p].seen
  <2>0. /\ run[p] \in Memory /\ e \in DOMAIN mine /\ e \in Entries /\ e \in Items
        /\ run[p].pc = "reconcile" /\ run[p].queue # << >> /\ seen \in Seq(Items)
        /\ \A k \in DOMAIN seen :
             \E m \in DOMAIN lists : \E n \in DOMAIN lists[m] : lists[m][n] = seen[k]
    <3>1. run[p].pc = "reconcile"
      BY <1>12 DEF WriteEntry, At
    <3>2. run[p] \in Memory /\ QueuedIn(run[p], library, lists)
      BY DEF TypeInv, Queued
    <3>3. run[p].queue # << >>
      BY <3>1, <3>2 DEF QueuedIn
    <3>4. e \in DOMAIN mine /\ e \in Items
      BY <3>1, <3>2, <3>3, QueueHead DEF QueuedIn, Looping
    <3> QED
      BY <3>1, <3>2, <3>3, <3>4 DEF QueuedIn, Memory
  <2>1. l \in DOMAIN lists /\ lists[l] \in Seq(Items)
    <3>1. l # 0
      BY <2>0 DEF Queued, QueuedIn
    <3>2. l \in DOMAIN lists
      BY <2>0, <3>1, ListIsThere
    <3> QED
      BY <3>2 DEF TypeInv
  <2>2. PICK s :
          /\ Attempted(p, e, s)
          /\ s = "transferred" =>
               \/ lists' = lists /\ IsPrefix(seen, Siblings(mine)) /\ Landed(seen, e)
               \/ lists' = [lists EXCEPT ![l] = Append(@, e)]
    <3> DEFINE appended == [lists EXCEPT ![l] = Append(@, e)]
    <3>1. \/ Attempted(p, e, "ambiguous")
          \/ /\ IsPrefix(seen, Siblings(mine)) /\ Landed(seen, e) /\ lists' = lists
             /\ Attempted(p, e, "transferred")
          \/ \E status \in ItemStatus :
               lists' \in Effect(status, lists, appended) /\ Attempted(p, e, status)
      BY <1>12 DEF WriteEntry
    <3> HIDE DEF e, mine, l, seen, appended
    <3>2. CASE \E status \in ItemStatus :
                 lists' \in Effect(status, lists, appended) /\ Attempted(p, e, status)
      BY <3>2 DEF Effect, appended
    <3>3. CASE Attempted(p, e, "ambiguous")
      BY <3>3
    <3> QED
      BY <3>1, <3>2, <3>3
  <2>3. ASSUME s = "transferred" PROVE PresentIn(e, library', lists')
    <3>0. e \notin Favorites /\ e # Playlist
      BY <2>0, OrderAssumption DEF Favorites
    <3>2. CASE lists' = lists /\ IsPrefix(seen, Siblings(mine)) /\ Landed(seen, e)
      <4>1. \E k \in DOMAIN seen : seen[k] = e
        BY <3>2, <2>0, LandedHolds
      <4> QED
        BY <3>0, <3>2, <4>1, <2>0 DEF PresentIn
    <3>3. CASE lists' = [lists EXCEPT ![l] = Append(@, e)]
      <4> HIDE DEF l, e
      <4>1. l \in DOMAIN lists' /\ lists'[l] = Append(lists[l], e)
        BY <2>1, <3>3
      <4>2. Len(lists[l]) + 1 \in DOMAIN lists'[l] /\ lists'[l][Len(lists[l]) + 1] = e
        BY <2>1, <4>1, <2>0
      <4> QED
        BY <3>0, <4>1, <4>2 DEF PresentIn
    <3> QED
      BY <2>2, <2>3, <3>2, <3>3
  <2> HIDE DEF e, mine, l, seen
  <2>4. e \in DOMAIN run[p].mine
    BY <2>0 DEF mine
  <2> QED
    BY <1>9, <2>2, <2>3, <2>4
<1>13. ASSUME NEW p \in Processes,
              RequestCancellation(p) \/ BeginVerify(p) \/ AddJob(p)
       PROVE  Truthful'
  <2>0. run[p] \in Memory /\ items' = items
    BY <1>13 DEF TypeInv, RequestCancellation, BeginVerify, AddJob
  <2>1. PICK pc, id, job, over :
          Becomes(p, [run[p] EXCEPT !.pc = pc, !.id = id, !.job = job, !.cancelled = over])
    <3>1. run[p] = [run[p] EXCEPT !.pc = run[p].pc] /\ run[p] = [run[p] EXCEPT !.id = run[p].id]
      BY <2>0 DEF Memory
    <3>2. CASE RequestCancellation(p)
      <4>1. PICK job : Becomes(p, [run[p] EXCEPT !.job = job])
        BY <3>2 DEF RequestCancellation
      <4>2. Becomes(p, [run[p] EXCEPT !.pc = run[p].pc, !.id = run[p].id, !.job = job,
                          !.cancelled = run[p].cancelled])
        BY <2>0, <4>1 DEF Memory
      <4> QED
        BY <4>2
    <3>3. CASE BeginVerify(p)
      <4>1. PICK job, over :
              Becomes(p, [run[p] EXCEPT !.pc = "verify", !.job = job, !.cancelled = over])
        BY <3>3 DEF BeginVerify
      <4>2. Becomes(p, [run[p] EXCEPT !.pc = "verify", !.id = run[p].id, !.job = job,
                          !.cancelled = over])
        BY <2>0, <4>1 DEF Memory
      <4> QED
        BY <4>2
    <3>4. CASE AddJob(p)
      <4>1. PICK id, job :
              Becomes(p, [run[p] EXCEPT !.pc = "add_items", !.id = id, !.job = job])
        BY <3>4 DEF AddJob
      <4>2. Becomes(p, [run[p] EXCEPT !.pc = "add_items", !.id = id, !.job = job,
                          !.cancelled = run[p].cancelled])
        BY <2>0, <4>1 DEF Memory
      <4> QED
        BY <4>2
    <3> QED
      BY <1>13, <3>2, <3>3, <3>4
  <2> QED
    BY <2>0, <2>1, <1>0, <1>a, TruthfulFrame DEF Memory
<1>14. ASSUME NEW p \in Processes,
              FinishJob(p) \/ FinishDryRun(p) \/ StoreJob(p) \/ Crash(p)
       PROVE  Truthful'
  <2>1. Becomes(p, Idle) /\ items' = items
    BY <1>14 DEF FinishJob, FinishDryRun, StoreJob, Crash, documents
  <2> QED
    BY <2>1, <1>0, <1>a, TruthfulEmpty, TruthfulFrame DEF Idle
<1>15. ASSUME NEW p \in Processes, AddItems(p) PROVE Truthful'
  <2>0. run[p] \in Memory /\ run[p].id \in Jobs
    BY <1>15 DEF TypeInv, AddItems, At, SameItems, SameIn
  <2>1. TruthfulIn(Merged(items[run[p].id], run[p].mine), library', lists')
    BY <2>0, <1>a, TruthfulMerged
  <2>2. \A j \in Jobs : TruthfulIn(items'[j], library', lists')
    BY <1>15, <2>0, <2>1, <1>a DEF AddItems, TypeInv
  <2>3. Becomes(p, [run[p] EXCEPT !.pc = "store_job"])
    BY <1>15 DEF AddItems
  <2> QED
    BY <2>0, <2>2, <2>3, <1>0, <1>a, TruthfulFrame DEF Memory
<1> QED
  BY <1>u, <1>1, <1>2, <1>r, <1>3, <1>4, <1>5, <1>6, <1>7, <1>8, <1>d, <1>10, <1>11, <1>l, <1>12,
     <1>13, <1>14, <1>15 DEF Next
----------------------------------------------------------------------------
(* What a process has queued and seen stays true while the destination     *)
(* grows.                                                                  *)
LEMMA SeenStays ==
  ASSUME NEW m, NEW lib, NEW ls, NEW lib2, NEW ls2, Grown(lib, ls, lib2, ls2),
         QueuedIn(m, lib, ls)
  PROVE  QueuedIn(m, lib2, ls2)
<1>1. ASSUME NEW i, \E l \in DOMAIN ls : \E n \in DOMAIN ls[l] : ls[l][n] = i
      PROVE  \E l \in DOMAIN ls2 : \E n \in DOMAIN ls2[l] : ls2[l][n] = i
  <2>1. PICK l \in DOMAIN ls : \E n \in DOMAIN ls[l] : ls[l][n] = i
    BY <1>1
  <2>2. l \in DOMAIN ls2 /\ \E n \in DOMAIN ls2[l] : ls2[l][n] = i
    BY <2>1 DEF Grown
  <2> QED
    BY <2>2
<1>2. lib \subseteq lib2
  BY DEF Grown
<1>3. m.pc = "reconcile" =>
        \A k \in DOMAIN m.seen :
          \E l \in DOMAIN ls2 : \E n \in DOMAIN ls2[l] : ls2[l][n] = m.seen[k]
  BY <1>1 DEF QueuedIn
<1> QED
  BY <1>2, <1>3 DEF QueuedIn

(* The queue follows the reading it was made from.                         *)
LEMMA QueuedFrame ==
  ASSUME TypeInv, Queued, NEW p \in Processes, NEW m, Becomes(p, m),
         Grown(library, lists, library', lists'), QueuedIn(m, library', lists')
  PROVE  Queued'
<1>1. ASSUME NEW q \in Processes, q # p PROVE QueuedIn(run'[q], library', lists')
  <2>1. run'[q] = run[q] /\ QueuedIn(run[q], library, lists)
    BY <1>1, OneMoves DEF Queued
  <2> QED
    BY <2>1, SeenStays
<1>2. run'[p] = m
  BY OneMoves
<1> QED
  BY <1>1, <1>2 DEF Queued

(* A process that is doing something else than running a job has no queue  *)
(* to look after.                                                          *)
LEMMA QueuedElsewhere ==
  ASSUME NEW m, NEW lib, NEW ls, m.pc \notin Confirming \cup Looping \cup {"resolve_list"}
  PROVE  QueuedIn(m, lib, ls)
BY DEF QueuedIn, Confirming, Looping

(* The elements of the queues that are made.                               *)
LEMMA OrderedMembers ==
  ASSUME NEW S
  PROVE  /\ \A k \in DOMAIN Sublist(Order, S) : Sublist(Order, S)[k] \in S
         /\ \A i \in S \cap Items : \E k \in DOMAIN Sublist(Order, S) : Sublist(Order, S)[k] = i
<1>1. /\ Sublist(Order, S) \in Seq(Items) /\ Len(Order) \in Nat
      /\ DOMAIN Order = 1 .. Len(Order)
      /\ DOMAIN Sublist(Order, S) = 1 .. Len(Sublist(Order, S))
  BY OrderAssumption, OrderedItems
<1>2. \A k \in 1 .. Len(Sublist(Order, S)) : Sublist(Order, S)[k] \in S
  BY OrderAssumption, SublistHolds
<1>3. ASSUME NEW i \in S \cap Items
      PROVE  \E k \in 1 .. Len(Sublist(Order, S)) : Sublist(Order, S)[k] = i
  <2>1. PICK n \in 1 .. Len(Order) : Order[n] = i
    BY <1>1, <1>3 DEF Items, ToSet
  <2> QED
    BY <2>1, OrderAssumption, SublistHolds
<1> QED
  BY <1>1, <1>2, <1>3

(* Every step keeps what the loops of a run rely on.                       *)
LEMMA QueuedStep ==
  ASSUME TypeInv, TypeInv', Truthful, Queued, SameItems, [Next]_vars
  PROVE  Queued'
<1>g. Grown(library, lists, library', lists')
  BY StepGrows
<1>0. library \subseteq library'
  BY <1>g DEF Grown
<1>u. CASE UNCHANGED vars
  BY <1>u DEF Queued, QueuedIn, vars, destination
<1>1. ASSUME NEW p \in Processes, NEW m, Becomes(p, m),
             m.pc \notin Confirming \cup Looping \cup {"resolve_list"}
      PROVE  Queued'
  BY <1>g, <1>1, QueuedFrame, QueuedElsewhere
<1>2. ASSUME NEW p \in Processes, NEW j \in Jobs,
             Resume(p, j) \/ SelectForRetry(p, j) \/ LoadToStop(p, j)
      PROVE  Queued'
  <2>0. run[p] \in Memory
    BY DEF TypeInv
  <2>1. PICK pc \in {"resolve", "add_job", "store_job"} : \E id, job, mine :
          Becomes(p, [run[p] EXCEPT !.pc = pc, !.id = id, !.job = job, !.mine = mine])
    <3>1. CASE Resume(p, j)
      <4>1. Becomes(p, [run[p] EXCEPT !.pc = "resolve", !.id = j, !.job = jobs[j], !.mine = run[p].mine])
        BY <2>0, <3>1 DEF Resume, Memory
      <4> QED
        BY <4>1
    <3>2. CASE SelectForRetry(p, j)
      <4>1. PICK mine : Becomes(p, [run[p] EXCEPT !.pc = "add_job", !.mine = mine])
        BY <3>2 DEF SelectForRetry
      <4>2. Becomes(p, [run[p] EXCEPT !.pc = "add_job", !.id = run[p].id, !.job = run[p].job, !.mine = mine])
        BY <2>0, <4>1 DEF Memory
      <4> QED
        BY <4>2
    <3>3. CASE LoadToStop(p, j)
      <4>1. PICK job : Becomes(p, [run[p] EXCEPT !.pc = "store_job", !.id = j, !.job = job])
        BY <3>3 DEF LoadToStop
      <4>2. Becomes(p, [run[p] EXCEPT !.pc = "store_job", !.id = j, !.job = job, !.mine = run[p].mine])
        BY <2>0, <4>1 DEF Memory
      <4> QED
        BY <4>2
    <3> QED
      BY <1>2, <3>1, <3>2, <3>3
  <2>2. PICK id, job, mine :
          Becomes(p, [run[p] EXCEPT !.pc = pc, !.id = id, !.job = job, !.mine = mine])
    BY <2>1
  <2> QED
    BY <1>1, <2>0, <2>2 DEF Memory, Confirming, Looping
<1>r. ASSUME NEW p \in Processes, ReadState(p) PROVE Queued'
  <2>0. run[p] \in Memory
    BY DEF TypeInv
  <2> DEFINE seen == Sublist(Order, Favorites \cap library)
  <2>1. CASE Becomes(p, [run[p] EXCEPT !.pc = "resolve_list", !.seen = seen])
    <3>1. \A k \in DOMAIN seen : seen[k] \in Favorites \cap library
      BY OrderedMembers
    <3> HIDE DEF seen
    <3>2. QueuedIn([run[p] EXCEPT !.pc = "resolve_list", !.seen = seen], library', lists')
      BY <2>0, <3>1, <1>0 DEF QueuedIn, Memory, Confirming, Looping
    <3> QED
      BY <2>1, <3>2, <1>g, QueuedFrame
  <2>2. CASE Becomes(p, [run[p] EXCEPT !.pc = "enter"])
    BY <1>1, <2>0, <2>2 DEF Memory, Confirming, Looping
  <2> QED
    BY <1>r, <2>1, <2>2 DEF ReadState
<1>3. ASSUME NEW p \in Processes, Resolve(p) PROVE Queued'
  <2>0. /\ run[p] \in Memory /\ run[p].seen \in Seq(Items)
        /\ \A k \in DOMAIN run[p].seen : run[p].seen[k] \in library \cap Favorites
    BY <1>3 DEF TypeInv, Memory, Resolve, At, Queued, QueuedIn
  <2> DEFINE stored == items[run[p].id]
             doubtful == {i \in DOMAIN stored : stored[i].status = "ambiguous"}
             queue == Sublist(run[p].seen, doubtful)
  <2>1. Becomes(p, [run[p] EXCEPT !.pc = "confirm", !.mine = stored, !.queue = queue,
                      !.seen = << >>])
    BY <1>3 DEF Resolve
  <2>2. doubtful \subseteq DOMAIN stored
    OBVIOUS
  <2> HIDE DEF stored, doubtful
  <2>3. \A k \in DOMAIN queue : queue[k] \in doubtful /\ queue[k] \in library \cap Favorites
    BY <2>0, KeptItems
  <2> HIDE DEF queue
  <2>4. QueuedIn([run[p] EXCEPT !.pc = "confirm", !.mine = stored, !.queue = queue,
                    !.seen = << >>], library', lists')
    BY <2>0, <2>2, <2>3, <1>0 DEF QueuedIn, Memory
  <2> QED
    BY <2>1, <2>4, <1>g, QueuedFrame
<1>4. ASSUME NEW p \in Processes, ConfirmAmbiguous(p) PROVE Queued'
  <2>0. run[p] \in Memory /\ Head(run[p].queue) \in DOMAIN run[p].mine /\ QueuedIn(run[p], library, lists)
    BY <1>4, QueueHead DEF TypeInv, ConfirmAmbiguous, At, Queued, QueuedIn, Confirming
  <2> DEFINE mine == [run[p].mine EXCEPT ![Head(run[p].queue)].status = "transferred"]
  <2>1. DOMAIN mine = DOMAIN run[p].mine
    OBVIOUS
  <2>2. Becomes(p, [run[p] EXCEPT !.pc = "confirm_read", !.mine = mine])
    BY <1>4, <2>0 DEF ConfirmAmbiguous, Memory
  <2> HIDE DEF mine
  <2>3. QueuedIn([run[p] EXCEPT !.pc = "confirm_read", !.mine = mine], library', lists')
    BY <1>4, <2>0, <2>1, <1>0 DEF QueuedIn, Memory, ConfirmAmbiguous, At, Confirming, Looping
  <2> QED
    BY <2>2, <2>3, <1>g, QueuedFrame
<1>5. ASSUME NEW p \in Processes, EnterImport(p) PROVE Queued'
  <2>0. run[p] \in Memory
    BY DEF TypeInv
  <2> QED
    BY <1>1, <1>5, <2>0 DEF EnterImport, Memory, Confirming, Looping
<1>6. ASSUME NEW p \in Processes, ListItems(p) PROVE Queued'
  <2>0. run[p] \in Memory
    BY DEF TypeInv
  <2> DEFINE stored == items[run[p].id]
             queue == WriteOrder(DOMAIN stored)
  <2>1. Becomes(p, [run[p] EXCEPT !.pc = "loop", !.mine = stored, !.queue = queue])
    BY <1>6 DEF ListItems
  <2> HIDE DEF stored
  <2>2. \A k \in DOMAIN queue : queue[k] \in DOMAIN stored
    BY OrderedMembers DEF WriteOrder
  <2> HIDE DEF queue
  <2>3. QueuedIn([run[p] EXCEPT !.pc = "loop", !.mine = stored, !.queue = queue], library', lists')
    BY <2>0, <2>2 DEF QueuedIn, Memory, Confirming
  <2> QED
    BY <2>1, <2>3, <1>g, QueuedFrame
<1>7. ASSUME NEW p \in Processes, LoadItems(p) PROVE Queued'
  <2>0. run[p] \in Memory /\ QueuedIn(run[p], library, lists)
    BY DEF TypeInv, Queued
  <2> DEFINE m == [run[p] EXCEPT !.pc = IF @ = "loop_read" THEN "loop_store" ELSE "confirm_store",
                     !.read = items[run[p].id]]
  <2>1. QueuedIn(m, library', lists')
    BY <1>7, <2>0, <1>0 DEF LoadItems, QueuedIn, Memory, Confirming, Looping
  <2>2. Becomes(p, m)
    BY <1>7 DEF LoadItems
  <2> HIDE DEF m
  <2> QED
    BY <2>1, <2>2, <1>g, QueuedFrame
<1>8. ASSUME NEW p \in Processes, UpdateItem(p) PROVE Queued'
  <2>0. run[p] \in Memory /\ QueuedIn(run[p], library, lists) /\ run[p].queue # << >>
    BY <1>8 DEF TypeInv, Queued, QueuedIn, UpdateItem
  <2> DEFINE m == [run[p] EXCEPT !.pc = IF At(p, "loop_store") THEN "loop" ELSE "confirm",
                     !.queue = Tail(@), !.read = << >>]
  <2>1. QueuedIn(m, library', lists')
    BY <1>8, <2>0, <1>0, QueueHead DEF UpdateItem, At, QueuedIn, Memory, Confirming, Looping
  <2>2. Becomes(p, m)
    BY <1>8 DEF UpdateItem
  <2> HIDE DEF m
  <2> QED
    BY <2>1, <2>2, <1>g, QueuedFrame
<1>9. ASSUME NEW p \in Processes, SkipSettled(p) PROVE Queued'
  <2>0. run[p] \in Memory /\ QueuedIn(run[p], library, lists) /\ run[p].queue # << >>
    BY <1>9 DEF TypeInv, Queued, SkipSettled, Visiting
  <2> DEFINE m == [run[p] EXCEPT !.queue = Tail(@)]
  <2>1. QueuedIn(m, library', lists')
    BY <1>9, <2>0, <1>0, QueueHead DEF SkipSettled, Visiting, At, QueuedIn, Memory, Confirming, Looping
  <2>2. Becomes(p, m)
    BY <1>9 DEF SkipSettled
  <2> HIDE DEF m
  <2> QED
    BY <2>1, <2>2, <1>g, QueuedFrame
<1>10. ASSUME NEW p \in Processes, run[p].pc \in {"loop", "reconcile"}, run[p].queue # << >>,
              NEW mine, DOMAIN mine = DOMAIN run[p].mine, NEW seen,
              Becomes(p, [run[p] EXCEPT !.pc = "loop_read", !.mine = mine, !.seen = seen])
       PROVE  Queued'
  <2>0. run[p] \in Memory /\ QueuedIn(run[p], library, lists)
    BY DEF TypeInv, Queued
  <2>1. QueuedIn([run[p] EXCEPT !.pc = "loop_read", !.mine = mine, !.seen = seen], library', lists')
    BY <1>10, <2>0 DEF QueuedIn, Memory, Confirming, Looping
  <2> QED
    BY <1>10, <2>1, <1>g, QueuedFrame
<1>11. ASSUME NEW p \in Processes, run[p].pc \in {"loop", "reconcile"}, run[p].queue # << >>,
              NEW i, NEW s, Attempted(p, i, s)
       PROVE  Queued'
  <2>0. run[p] \in Memory
    BY DEF TypeInv
  <2> DEFINE mine == [run[p].mine EXCEPT ![i].status = s]
  <2>1. Becomes(p, [run[p] EXCEPT !.pc = "loop_read", !.mine = mine, !.seen = << >>])
    BY <1>11, <2>0 DEF Attempted, Memory
  <2>2. DOMAIN mine = DOMAIN run[p].mine
    OBVIOUS
  <2> HIDE DEF mine
  <2> QED
    BY <1>10, <1>11, <2>1, <2>2
<1>12. ASSUME NEW p \in Processes, WriteFavorite(p) \/ DryRunItem(p) \/ WriteEntry(p) PROVE Queued'
  <2>1. \E i, s : Attempted(p, i, s)
    BY <1>12 DEF WriteFavorite, DryRunItem, WriteEntry
  <2>2. run[p].pc \in {"loop", "reconcile"} /\ run[p].queue # << >>
    BY <1>12 DEF WriteFavorite, DryRunItem, WriteEntry, Executing, Visiting, At, Queued, QueuedIn
  <2> QED
    BY <1>11, <2>1, <2>2
<1>l. ASSUME NEW p \in Processes, ReadList(p) PROVE Queued'
  <2> DEFINE e == Head(run[p].queue)
             l == ListOf(run[p].mine, e)
  <2>0. /\ run[p] \in Memory /\ QueuedIn(run[p], library, lists) /\ run[p].pc = "loop"
        /\ run[p].queue # << >> /\ e \in Entries /\ e \in DOMAIN run[p].mine
    BY <1>l, QueueHead DEF TypeInv, Queued, QueuedIn, ReadList, Executing, Visiting, At, Looping
  <2>1. CASE \E i, s : Attempted(p, i, s)
    BY <1>11, <2>0, <2>1
  <2>2. CASE /\ l # 0
             /\ Becomes(p, [run[p] EXCEPT !.pc = "reconcile", !.seen = lists[l]])
             /\ lists' = lists
    <3>1. l \in DOMAIN lists
      BY <2>0, <2>2, ListIsThere
    <3> DEFINE m == [run[p] EXCEPT !.pc = "reconcile", !.seen = lists[l]]
    <3>2. /\ m.pc = "reconcile" /\ m.seen = lists[l] /\ m.queue = run[p].queue
          /\ m.mine = run[p].mine /\ Becomes(p, m)
      BY <2>0, <2>2 DEF Memory
    <3> HIDE DEF m
    <3>3. QueuedIn(m, library', lists')
      BY <2>0, <2>2, <3>1, <3>2 DEF QueuedIn, Looping, Confirming
    <3> QED
      BY <3>2, <3>3, <1>g, QueuedFrame
  <2> QED
    BY <1>l, <2>1, <2>2 DEF ReadList, destination
<1>13. ASSUME NEW p \in Processes, CreatePlaylist(p) PROVE Queued'
  <2>0. run[p] \in Memory /\ run[p].pc = "loop" /\ run[p].queue # << >>
    BY <1>13 DEF TypeInv, CreatePlaylist, Executing, Visiting, At
  <2>1. PICK s \in ItemStatus, known \in {WithList(run[p].mine, Len(lists')), run[p].mine} :
          Becomes(p, [run[p] EXCEPT !.pc = "loop_read",
                        !.mine = [known EXCEPT ![Playlist].status = s]])
    BY <1>13 DEF CreatePlaylist
  <2> DEFINE mine == [known EXCEPT ![Playlist].status = s]
  <2>2. DOMAIN mine = DOMAIN run[p].mine
    BY <2>1 DEF WithList
  <2> HIDE DEF mine
  <2>3. Becomes(p, [run[p] EXCEPT !.pc = "loop_read", !.mine = mine, !.seen = run[p].seen])
    BY <2>0, <2>1 DEF Memory, mine
  <2> QED
    BY <1>10, <2>0, <2>2, <2>3
<1>14. ASSUME NEW p \in Processes, RequestCancellation(p) PROVE Queued'
  <2>0. run[p] \in Memory /\ QueuedIn(run[p], library, lists)
    BY DEF TypeInv, Queued
  <2>1. PICK job : Becomes(p, [run[p] EXCEPT !.job = job])
    BY <1>14 DEF RequestCancellation
  <2> DEFINE m == [run[p] EXCEPT !.job = job]
  <2>3. /\ m.pc = run[p].pc /\ m.queue = run[p].queue /\ m.mine = run[p].mine
        /\ m.seen = run[p].seen
    BY <2>0 DEF Memory
  <2>4. QueuedIn(run[p], library', lists')
    BY <2>0, <1>g, SeenStays
  <2>5. Becomes(p, m)
    BY <2>1
  <2> HIDE DEF m
  <2>2. QueuedIn(m, library', lists')
    BY <2>3, <2>4 DEF QueuedIn
  <2> QED
    BY <2>5, <2>2, <1>g, QueuedFrame
<1>15. ASSUME NEW p \in Processes,
              \/ BeginVerify(p) \/ AddJob(p) \/ AddItems(p) \/ FinishJob(p) \/ FinishDryRun(p)
              \/ StoreJob(p) \/ Crash(p)
       PROVE  Queued'
  <2>0. run[p] \in Memory
    BY DEF TypeInv
  <2>1. \E m : Becomes(p, m) /\ m.pc \in {"verify", "add_items", "store_job", "idle"}
    <3>1. CASE BeginVerify(p)
      <4>1. PICK job, over :
              Becomes(p, [run[p] EXCEPT !.pc = "verify", !.job = job, !.cancelled = over])
        BY <3>1 DEF BeginVerify
      <4>2. [run[p] EXCEPT !.pc = "verify", !.job = job, !.cancelled = over].pc = "verify"
        BY <2>0 DEF Memory
      <4> QED
        BY <4>1, <4>2
    <3>2. CASE AddJob(p)
      <4>1. PICK id, job : Becomes(p, [run[p] EXCEPT !.pc = "add_items", !.id = id, !.job = job])
        BY <3>2 DEF AddJob
      <4>2. [run[p] EXCEPT !.pc = "add_items", !.id = id, !.job = job].pc = "add_items"
        BY <2>0 DEF Memory
      <4> QED
        BY <4>1, <4>2
    <3>3. CASE AddItems(p)
      <4>1. Becomes(p, [run[p] EXCEPT !.pc = "store_job"])
        BY <3>3 DEF AddItems
      <4>2. [run[p] EXCEPT !.pc = "store_job"].pc = "store_job"
        BY <2>0 DEF Memory
      <4> QED
        BY <4>1, <4>2
    <3>4. CASE FinishJob(p) \/ FinishDryRun(p) \/ StoreJob(p) \/ Crash(p)
      BY <3>4 DEF FinishJob, FinishDryRun, StoreJob, Crash, Idle
    <3> QED
      BY <1>15, <3>1, <3>2, <3>3, <3>4
  <2> QED
    BY <1>1, <2>1 DEF Confirming, Looping
<1> QED
  BY <1>u, <1>2, <1>r, <1>3, <1>4, <1>5, <1>6, <1>7, <1>8, <1>9, <1>12, <1>l, <1>13, <1>14, <1>15
     DEF Next
----------------------------------------------------------------------------
(* A job record is something.                                              *)
LEMMA RecordIsSomething == \A job \in JobRecord : job # Nothing
BY StoreAssumption DEF JobRecord

(* What a process knows of the items stays true while they stay.           *)
LEMMA SameStays ==
  ASSUME NEW m, NEW js, NEW its, NEW js2, NEW its2, SameIn(m, js, its),
         \A j \in Jobs : js[j] # Nothing => js2[j] # Nothing,
         \A j \in Jobs : DOMAIN its2[j] = DOMAIN its[j]
  PROVE  SameIn(m, js2, its2)
<1>1. m.pc \in Running \cup {"add_items", "store_job"} =>
        m.id \in Jobs /\ js2[m.id] # Nothing /\ DOMAIN its2[m.id] = DOMAIN its[m.id]
  BY DEF SameIn
<1> QED
  BY <1>1 DEF SameIn, Running, Confirming, Looping

(* A process that moves and adds no job and no items.                      *)
LEMMA SameFrame ==
  ASSUME TypeInv, SameItems, NEW p \in Processes, NEW m, Becomes(p, m),
         \A j \in Jobs : jobs[j] # Nothing => jobs'[j] # Nothing,
         \A j \in Jobs : DOMAIN items'[j] = DOMAIN items[j],
         m.pc # "add_items",
         SameIn(m, jobs', items)
  PROVE  SameItems' /\ \A j \in Jobs : DOMAIN items[j] # {} => DOMAIN items'[j] = DOMAIN items[j]
<1>1. \A j \in Jobs : jobs'[j] = Nothing => DOMAIN items'[j] = {}
  BY DEF SameItems
<1>2. SameIn(run'[p], jobs', items')
  <2>1. run'[p] = m
    BY OneMoves
  <2>2. \A j \in Jobs : jobs'[j] # Nothing => jobs'[j] # Nothing
    OBVIOUS
  <2> QED
    BY <2>1, <2>2, SameStays
<1>3. ASSUME NEW q \in Processes, q # p PROVE SameIn(run'[q], jobs', items')
  <2>1. run'[q] = run[q] /\ SameIn(run[q], jobs, items)
    BY <1>3, OneMoves DEF SameItems
  <2> QED
    BY <2>1, SameStays
<1>4. ASSUME NEW q \in Processes, NEW r \in Processes,
             run'[q].pc = "add_items", run'[r].pc = "add_items", run'[q].id = run'[r].id
      PROVE  q = r
  BY <1>4, OneMoves DEF SameItems
<1> QED
  BY <1>1, <1>2, <1>3, <1>4 DEF SameItems

(* No step adds an item to a stored job, or takes one away.                *)
LEMMA SameStep ==
  ASSUME TypeInv, TypeInv', Queued, SameItems, Visited, [Next]_vars
  PROVE  SameItems' /\ \A j \in Jobs : DOMAIN items[j] # {} => DOMAIN items'[j] = DOMAIN items[j]
<1> DEFINE Conclusion ==
      SameItems' /\ \A j \in Jobs : DOMAIN items[j] # {} => DOMAIN items'[j] = DOMAIN items[j]
<1>u. CASE UNCHANGED vars
  BY <1>u DEF SameItems, SameIn, vars, documents
<1>m. \A p \in Processes : run[p] \in Memory /\ SameIn(run[p], jobs, items)
  BY DEF TypeInv, SameItems
<1>1. ASSUME NEW p \in Processes, NEW j \in Jobs,
             Resume(p, j) \/ SelectForRetry(p, j) \/ LoadToStop(p, j)
      PROVE  Conclusion
  <2>1. CASE Resume(p, j)
    <3>1. Becomes(p, [run[p] EXCEPT !.pc = "resolve", !.id = j, !.job = jobs[j]])
      BY <2>1 DEF Resume
    <3>2. SameIn([run[p] EXCEPT !.pc = "resolve", !.id = j, !.job = jobs[j]], jobs', items)
      BY <2>1, <1>m DEF Resume, documents, SameIn, Memory, Running, Confirming, Looping
    <3>3. [run[p] EXCEPT !.pc = "resolve", !.id = j, !.job = jobs[j]].pc = "resolve"
      BY <1>m DEF Memory
    <3> QED
      BY <2>1, <3>1, <3>2, <3>3, SameFrame DEF Resume, documents
  <2>2. CASE SelectForRetry(p, j)
    <3>1. PICK mine : Becomes(p, [run[p] EXCEPT !.pc = "add_job", !.mine = mine])
      BY <2>2 DEF SelectForRetry
    <3>2. [run[p] EXCEPT !.pc = "add_job", !.mine = mine].pc = "add_job"
      BY <1>m DEF Memory
    <3>3. SameIn([run[p] EXCEPT !.pc = "add_job", !.mine = mine], jobs', items)
      BY <3>2 DEF SameIn, Running, Confirming, Looping
    <3> QED
      BY <2>2, <3>1, <3>2, <3>3, SameFrame DEF SelectForRetry, documents
  <2>3. CASE LoadToStop(p, j)
    <3>1. PICK job : Becomes(p, [run[p] EXCEPT !.pc = "store_job", !.id = j, !.job = job])
      BY <2>3 DEF LoadToStop
    <3> DEFINE m == [run[p] EXCEPT !.pc = "store_job", !.id = j, !.job = job]
    <3>2. m.pc = "store_job" /\ m.id = j
      BY <1>m DEF Memory
    <3> HIDE DEF m
    <3>3. SameIn(m, jobs', items)
      BY <2>3, <3>2 DEF LoadToStop, documents, SameIn, Running, Confirming, Looping
    <3>4. Becomes(p, m)
      BY <3>1 DEF m
    <3> QED
      BY <2>3, <3>2, <3>3, <3>4, SameFrame DEF LoadToStop, documents
  <2> QED
    BY <1>1, <2>1, <2>2, <2>3
<1>2. ASSUME NEW p \in Processes, Resolve(p) \/ ListItems(p) PROVE Conclusion
  <2>0. PICK pc \in {"confirm", "loop"} : \E queue, seen :
          Becomes(p, [run[p] EXCEPT !.pc = pc, !.mine = items[run[p].id], !.queue = queue,
                        !.seen = seen])
    <3>1. CASE Resolve(p)
      BY <3>1 DEF Resolve
    <3>2. CASE ListItems(p)
      <4>1. PICK queue :
              Becomes(p, [run[p] EXCEPT !.pc = "loop", !.mine = items[run[p].id], !.queue = queue])
        BY <3>2 DEF ListItems
      <4>2. Becomes(p, [run[p] EXCEPT !.pc = "loop", !.mine = items[run[p].id], !.queue = queue,
                          !.seen = run[p].seen])
        BY <4>1, <1>m DEF Memory
      <4> QED
        BY <4>2
    <3> QED
      BY <1>2, <3>1, <3>2
  <2>1. PICK queue, seen :
          Becomes(p, [run[p] EXCEPT !.pc = pc, !.mine = items[run[p].id], !.queue = queue,
                        !.seen = seen])
    BY <2>0
  <2> DEFINE m == [run[p] EXCEPT !.pc = pc, !.mine = items[run[p].id], !.queue = queue,
                     !.seen = seen]
  <2>2. m.pc = pc /\ m.mine = items[run[p].id] /\ m.id = run[p].id
    BY <1>m DEF Memory
  <2>3. /\ run[p].id \in Jobs /\ jobs[run[p].id] # Nothing /\ DOMAIN items[run[p].id] # {}
        /\ UNCHANGED documents
    BY <1>2, <1>m DEF Resolve, ListItems, At, SameIn, Running
  <2>4. Becomes(p, m)
    BY <2>1
  <2> HIDE DEF m
  <2>5. SameIn(m, jobs', items)
    BY <2>2, <2>3 DEF SameIn, documents
  <2> QED
    BY <2>2, <2>3, <2>4, <2>5, SameFrame DEF documents
<1>3. ASSUME NEW p \in Processes, NEW m, Becomes(p, m), run[p].pc \in Running,
             \A j \in Jobs : jobs[j] # Nothing => jobs'[j] # Nothing,
             \A j \in Jobs : DOMAIN items'[j] = DOMAIN items[j],
             m.pc \in Running, m.id = run[p].id,
             m.pc \in Confirming \cup Looping => DOMAIN m.mine = DOMAIN items[m.id],
             m.pc \in {"confirm_store", "loop_store"} => DOMAIN m.read = DOMAIN items[m.id]
      PROVE  Conclusion
  <2>1. run[p].id \in Jobs /\ jobs[run[p].id] # Nothing /\ DOMAIN items[run[p].id] # {}
    BY <1>3, <1>m DEF SameIn
  <2>2. m.pc # "add_items"
    BY <1>3 DEF Running, Confirming, Looping
  <2>3. SameIn(m, jobs', items)
    BY <1>3, <2>1, <2>2 DEF SameIn
  <2> QED
    BY <1>3, <2>2, <2>3, SameFrame
<1>r. ASSUME NEW p \in Processes, ReadState(p) PROVE Conclusion
  <2>1. PICK pc \in {"resolve_list", "enter"} : \E seen :
          Becomes(p, [run[p] EXCEPT !.pc = pc, !.seen = seen])
    <3>1. CASE Becomes(p, [run[p] EXCEPT !.pc = "enter"])
      <4>1. Becomes(p, [run[p] EXCEPT !.pc = "enter", !.seen = run[p].seen])
        BY <3>1, <1>m DEF Memory
      <4> QED
        BY <4>1
    <3> QED
      BY <1>r, <3>1 DEF ReadState
  <2>4. PICK seen : Becomes(p, [run[p] EXCEPT !.pc = pc, !.seen = seen])
    BY <2>1
  <2> DEFINE m == [run[p] EXCEPT !.pc = pc, !.seen = seen]
  <2>2. Becomes(p, m) /\ m.pc = pc /\ m.id = run[p].id
    BY <2>4, <1>m DEF Memory
  <2>3. run[p].pc = "resolve" /\ UNCHANGED documents
    BY <1>r DEF ReadState, At
  <2> HIDE DEF m
  <2> QED
    BY <1>3, <2>2, <2>3 DEF Running, Confirming, Looping, documents
<1>4. ASSUME NEW p \in Processes, ConfirmAmbiguous(p) PROVE Conclusion
  <2> DEFINE mine == [run[p].mine EXCEPT ![Head(run[p].queue)].status = "transferred"]
             m == [run[p] EXCEPT !.pc = "confirm_read", !.mine = mine]
  <2>1. Becomes(p, m)
    BY <1>4, <1>m DEF ConfirmAmbiguous, Memory
  <2>2. m.pc = "confirm_read" /\ DOMAIN m.mine = DOMAIN run[p].mine /\ m.id = run[p].id
    BY <1>m DEF Memory
  <2>3. run[p].pc = "confirm" /\ DOMAIN run[p].mine = DOMAIN items[run[p].id] /\ UNCHANGED documents
    BY <1>4, <1>m DEF ConfirmAmbiguous, At, SameIn, Confirming
  <2> HIDE DEF m
  <2> QED
    BY <1>3, <2>1, <2>2, <2>3 DEF Running, Confirming, documents
<1>5. ASSUME NEW p \in Processes, NEW j \in Jobs, NEW job \in JobRecord,
             jobs' = [jobs EXCEPT ![j] = job]
      PROVE  \A k \in Jobs : jobs[k] # Nothing => jobs'[k] # Nothing
  BY <1>5, RecordIsSomething DEF TypeInv
<1>6. ASSUME NEW p \in Processes, EnterImport(p) PROVE Conclusion
  <2> DEFINE m == [run[p] EXCEPT !.pc = "list", !.job = Job("importing", FALSE)]
  <2>1. Becomes(p, m) /\ run[p].pc \in {"enter", "confirm"} /\ run[p].id \in Jobs
    BY <1>6, <1>m DEF EnterImport, At, SameIn, Running, Confirming
  <2>2. m.pc = "list" /\ m.id = run[p].id
    BY <1>m DEF Memory
  <2>3. Job("importing", FALSE) \in JobRecord
    BY DEF Job, JobRecord, JobStatus
  <2>4. \A k \in Jobs : jobs[k] # Nothing => jobs'[k] # Nothing
    BY <1>5, <1>6, <2>1, <2>3 DEF EnterImport
  <2> HIDE DEF m
  <2> QED
    BY <1>3, <1>6, <2>1, <2>2, <2>4 DEF EnterImport, Running, Confirming, Looping
<1>7. ASSUME NEW p \in Processes, LoadItems(p) PROVE Conclusion
  <2> DEFINE m == [run[p] EXCEPT !.pc = IF @ = "loop_read" THEN "loop_store" ELSE "confirm_store",
                     !.read = items[run[p].id]]
  <2>1. Becomes(p, m) /\ run[p].pc \in {"confirm_read", "loop_read"} /\ UNCHANGED documents
    BY <1>7 DEF LoadItems
  <2>2. /\ m.pc \in {"confirm_store", "loop_store"} /\ m.id = run[p].id
        /\ m.mine = run[p].mine /\ m.read = items[run[p].id]
    BY <1>m DEF Memory
  <2>3. DOMAIN run[p].mine = DOMAIN items[run[p].id]
    BY <2>1, <1>m DEF SameIn, Confirming, Looping
  <2> HIDE DEF m
  <2> QED
    BY <1>3, <2>1, <2>2, <2>3 DEF Running, Confirming, Looping, documents
<1>8. ASSUME NEW p \in Processes, UpdateItem(p) PROVE Conclusion
  <2> DEFINE i == Head(run[p].queue)
             m == [run[p] EXCEPT !.pc = IF At(p, "loop_store") THEN "loop" ELSE "confirm",
                     !.queue = Tail(@), !.read = << >>]
  <2>1. /\ Becomes(p, m) /\ run[p].pc \in {"confirm_store", "loop_store"} /\ jobs' = jobs
        /\ items' = [items EXCEPT ![run[p].id] = Replaced(run[p].read, i, run[p].mine[i])]
    BY <1>8 DEF UpdateItem
  <2>2. m.pc \in {"confirm", "loop"} /\ m.id = run[p].id /\ m.mine = run[p].mine
    BY <1>m DEF Memory
  <2>3. /\ DOMAIN run[p].mine = DOMAIN items[run[p].id]
        /\ DOMAIN run[p].read = DOMAIN items[run[p].id]
        /\ i \in DOMAIN run[p].mine
    BY <2>1, <1>m, QueueHead DEF SameIn, Queued, QueuedIn, Confirming, Looping
  <2> HIDE DEF m, i
  <2>4. DOMAIN Replaced(run[p].read, i, run[p].mine[i]) = DOMAIN items[run[p].id]
    BY <2>3 DEF Replaced
  <2>5. \A j \in Jobs : DOMAIN items'[j] = DOMAIN items[j]
    BY <2>1, <2>4 DEF TypeInv
  <2> QED
    BY <1>3, <2>1, <2>2, <2>3, <2>5 DEF Running, Confirming, Looping
<1>9. ASSUME NEW p \in Processes, NEW m, Becomes(p, m), run[p].pc \in {"loop", "reconcile"},
             m.pc \in {"loop", "reconcile", "loop_read"}, m.id = run[p].id, DOMAIN m.mine = DOMAIN run[p].mine,
             \A j \in Jobs : jobs[j] # Nothing => jobs'[j] # Nothing, items' = items
      PROVE  Conclusion
  <2>1. DOMAIN run[p].mine = DOMAIN items[run[p].id]
    BY <1>9, <1>m DEF SameIn, Looping
  <2> QED
    BY <1>3, <1>9, <2>1 DEF Running, Looping
<1>10. ASSUME NEW p \in Processes, SkipSettled(p) PROVE Conclusion
  <2> DEFINE m == [run[p] EXCEPT !.queue = Tail(@)]
  <2>1. Becomes(p, m) /\ run[p].pc = "loop" /\ UNCHANGED documents
    BY <1>10 DEF SkipSettled, Visiting, At
  <2>2. m.pc = run[p].pc /\ m.id = run[p].id /\ m.mine = run[p].mine
    BY <1>m DEF Memory
  <2> HIDE DEF m
  <2> QED
    BY <1>9, <2>1, <2>2 DEF documents
<1>11. ASSUME NEW p \in Processes, run[p].pc \in {"loop", "reconcile"}, NEW i, NEW s,
              Attempted(p, i, s)
       PROVE  Conclusion
  <2> DEFINE mine == [run[p].mine EXCEPT ![i].status = s]
             m == [run[p] EXCEPT !.pc = "loop_read", !.mine = mine, !.seen = << >>]
  <2>2. Becomes(p, m) /\ UNCHANGED documents
    BY <1>11, <1>m DEF Attempted, Memory
  <2>3. m.pc = "loop_read" /\ m.id = run[p].id /\ DOMAIN m.mine = DOMAIN run[p].mine
    BY <1>m DEF Memory
  <2> HIDE DEF m
  <2> QED
    BY <1>9, <1>11, <2>2, <2>3 DEF documents
<1>w. ASSUME NEW p \in Processes, WriteFavorite(p) \/ DryRunItem(p) \/ WriteEntry(p)
      PROVE  Conclusion
  <2>1. PICK i, s : Attempted(p, i, s)
    BY <1>w DEF WriteFavorite, DryRunItem, WriteEntry
  <2>2. run[p].pc \in {"loop", "reconcile"}
    BY <1>w DEF WriteFavorite, DryRunItem, WriteEntry, Executing, Visiting, At
  <2> QED
    BY <1>11, <2>1, <2>2
<1>l. ASSUME NEW p \in Processes, ReadList(p) PROVE Conclusion
  <2>0. run[p].pc = "loop"
    BY <1>l DEF ReadList, Executing, Visiting, At
  <2>1. CASE \E i, s : Attempted(p, i, s)
    BY <1>11, <2>0, <2>1
  <2>2. CASE /\ \E seen : Becomes(p, [run[p] EXCEPT !.pc = "reconcile", !.seen = seen])
             /\ UNCHANGED documents
    <3>1. PICK seen : Becomes(p, [run[p] EXCEPT !.pc = "reconcile", !.seen = seen])
      BY <2>2
    <3> DEFINE m == [run[p] EXCEPT !.pc = "reconcile", !.seen = seen]
    <3>2. /\ m.pc = "reconcile" /\ m.id = run[p].id /\ DOMAIN m.mine = DOMAIN run[p].mine
          /\ Becomes(p, m)
      BY <3>1, <1>m DEF Memory
    <3> HIDE DEF m
    <3> QED
      BY <1>9, <2>0, <2>2, <3>2 DEF documents
  <2> QED
    BY <1>l, <2>1, <2>2 DEF ReadList
<1>12. ASSUME NEW p \in Processes, CreatePlaylist(p) PROVE Conclusion
  <2>1. PICK s \in ItemStatus, known \in {WithList(run[p].mine, Len(lists')), run[p].mine} :
          Becomes(p, [run[p] EXCEPT !.pc = "loop_read",
                        !.mine = [known EXCEPT ![Playlist].status = s]])
    BY <1>12 DEF CreatePlaylist
  <2> DEFINE m == [run[p] EXCEPT !.pc = "loop_read",
                     !.mine = [known EXCEPT ![Playlist].status = s]]
  <2>2. Becomes(p, m) /\ UNCHANGED documents /\ run[p].pc = "loop"
    BY <1>12, <2>1 DEF CreatePlaylist, Executing, Visiting, At
  <2>3. DOMAIN [known EXCEPT ![Playlist].status = s] = DOMAIN run[p].mine
    BY <2>1 DEF WithList
  <2>4. m.pc = "loop_read" /\ m.id = run[p].id /\ DOMAIN m.mine = DOMAIN run[p].mine
    BY <2>3, <1>m DEF Memory
  <2> HIDE DEF m
  <2> QED
    BY <1>9, <2>2, <2>4 DEF documents
<1>13. ASSUME NEW p \in Processes, RequestCancellation(p) PROVE Conclusion
  <2> DEFINE job == [run[p].job EXCEPT !.cancel = TRUE]
             m == [run[p] EXCEPT !.job = job]
  <2>1. Becomes(p, m) /\ run[p].pc = "loop" /\ items' = items
    BY <1>13 DEF RequestCancellation, At
  <2>2. m.pc = run[p].pc /\ m.id = run[p].id /\ m.mine = run[p].mine
    BY <1>m DEF Memory
  <2>3. run[p].id \in Jobs /\ job \in JobRecord
    BY <2>1, <1>m DEF SameIn, Running, Looping, Visited, VisitedIn, Memory, JobRecord
  <2>4. \A k \in Jobs : jobs[k] # Nothing => jobs'[k] # Nothing
    BY <1>5, <1>13, <2>3 DEF RequestCancellation
  <2> HIDE DEF m, job
  <2> QED
    BY <1>9, <2>1, <2>2, <2>4
<1>14. ASSUME NEW p \in Processes, BeginVerify(p) PROVE Conclusion
  <2> DEFINE job == Job("verifying", run[p].job.cancel)
             m == [run[p] EXCEPT !.pc = "verify", !.job = job,
                     !.cancelled = run[p].queue # << >>]
  <2>1. Becomes(p, m) /\ run[p].pc = "loop" /\ items' = items
    BY <1>14 DEF BeginVerify, LoopOver, At
  <2>2. m.pc = "verify" /\ m.id = run[p].id
    BY <1>m DEF Memory
  <2>3. run[p].id \in Jobs /\ job \in JobRecord
    BY <2>1, <1>m DEF SameIn, Running, Looping, Visited, VisitedIn, Memory, Job, JobRecord, JobStatus
  <2>4. \A k \in Jobs : jobs[k] # Nothing => jobs'[k] # Nothing
    BY <1>5, <1>14, <2>3 DEF BeginVerify
  <2> HIDE DEF m, job
  <2> QED
    BY <1>3, <2>1, <2>2, <2>4 DEF Running, Confirming, Looping
<1>15. ASSUME NEW p \in Processes,
              FinishJob(p) \/ FinishDryRun(p) \/ StoreJob(p) \/ Crash(p)
       PROVE  Conclusion
  <2>1. Becomes(p, Idle) /\ items' = items
    BY <1>15 DEF FinishJob, FinishDryRun, StoreJob, Crash, documents
  <2>2. \A k \in Jobs : jobs[k] # Nothing => jobs'[k] # Nothing
    <3>1. CASE FinishJob(p)
      <4>1. run[p].id \in Jobs /\ Job(LastStatus(run[p]), run[p].job.cancel) \in JobRecord
        BY <3>1, <1>m DEF FinishJob, At, SameIn, Running, Visited, VisitedIn, Memory, Job, JobRecord,
           JobStatus, LastStatus
      <4> QED
        BY <3>1, <4>1, <1>5 DEF FinishJob
    <3>4. CASE FinishDryRun(p)
      <4>1. run[p].id \in Jobs /\ Job("completed", run[p].job.cancel) \in JobRecord
        BY <3>4, <1>m DEF FinishDryRun, LoopOver, At, SameIn, Running, Looping, Visited, VisitedIn,
           Memory, Job, JobRecord, JobStatus
      <4> QED
        BY <3>4, <4>1, <1>5 DEF FinishDryRun
    <3>2. CASE StoreJob(p)
      <4>1. run[p].id \in Jobs /\ run[p].job \in JobRecord
        BY <3>2, <1>m DEF StoreJob, At, SameIn, Visited, VisitedIn, Memory
      <4> QED
        BY <3>2, <4>1, <1>5 DEF StoreJob
    <3>3. CASE Crash(p)
      BY <3>3 DEF Crash, documents
    <3> QED
      BY <1>15, <3>1, <3>2, <3>3, <3>4
  <2>3. SameIn(Idle, jobs', items) /\ Idle.pc # "add_items"
    BY DEF SameIn, Idle, Running, Confirming, Looping
  <2> QED
    BY <2>1, <2>2, <2>3, SameFrame
<1>16. ASSUME NEW p \in Processes, AddJob(p) PROVE Conclusion
  <2>1. PICK j \in Jobs :
          /\ jobs[j] = Nothing /\ jobs' = [jobs EXCEPT ![j] = Job("created", FALSE)]
          /\ Becomes(p, [run[p] EXCEPT !.pc = "add_items", !.id = j, !.job = Job("created", FALSE)])
    BY <1>16 DEF AddJob
  <2> DEFINE m == [run[p] EXCEPT !.pc = "add_items", !.id = j, !.job = Job("created", FALSE)]
  <2>2. m.pc = "add_items" /\ m.id = j /\ run'[p] = m /\ items' = items
    BY <1>16, <2>1, <1>m, OneMoves DEF Memory, AddJob
  <2> HIDE DEF m
  <2>3. DOMAIN items[j] = {}
    BY <2>1 DEF SameItems
  <2>4. jobs'[j] # Nothing /\ \A k \in Jobs : k # j => jobs'[k] = jobs[k]
    <3>1. Job("created", FALSE) \in JobRecord
      BY DEF Job, JobRecord, JobStatus
    <3> QED
      BY <2>1, <3>1, RecordIsSomething DEF TypeInv
  <2>5. SameIn(run'[p], jobs', items')
    BY <2>2, <2>3, <2>4 DEF SameIn, Running, Confirming, Looping
  <2>6. ASSUME NEW q \in Processes, q # p
        PROVE  run'[q] = run[q] /\ SameIn(run'[q], jobs', items')
    <3>1. run'[q] = run[q]
      BY <2>1, <2>6, OneMoves
    <3> QED
      BY <3>1, <1>m, <2>2, <2>4 DEF SameIn
  <2>7. ASSUME NEW q \in Processes, q # p, run[q].pc = "add_items" PROVE run[q].id # j
    BY <2>7, <1>m, <2>1 DEF SameIn
  <2>8. \A q, r \in Processes :
          run'[q].pc = "add_items" /\ run'[r].pc = "add_items" /\ run'[q].id = run'[r].id => q = r
    BY <2>2, <2>6, <2>7 DEF SameItems
  <2>9. \A k \in Jobs : jobs'[k] = Nothing => DOMAIN items'[k] = {}
    BY <2>2, <2>4 DEF SameItems
  <2>10. \A q \in Processes : SameIn(run'[q], jobs', items')
    BY <2>5, <2>6
  <2> QED
    BY <2>2, <2>8, <2>9, <2>10 DEF SameItems
<1>17. ASSUME NEW p \in Processes, AddItems(p) PROVE Conclusion
  <2> DEFINE j == run[p].id
             m == [run[p] EXCEPT !.pc = "store_job"]
  <2>1. /\ run[p].pc = "add_items" /\ j \in Jobs /\ jobs[j] # Nothing /\ DOMAIN items[j] = {}
        /\ jobs' = jobs
    BY <1>17, <1>m DEF AddItems, At, SameIn
  <2>2. m.pc = "store_job" /\ m.id = j /\ run'[p] = m
    BY <1>17, <1>m, OneMoves DEF Memory, AddItems
  <2> HIDE DEF m
  <2>3. \A k \in Jobs : k # j => items'[k] = items[k]
    BY <1>17, <2>1 DEF AddItems, TypeInv
  <2>4. SameIn(run'[p], jobs', items')
    BY <2>1, <2>2 DEF SameIn, Running, Confirming, Looping
  <2>5. ASSUME NEW q \in Processes, q # p
        PROVE  run'[q] = run[q] /\ SameIn(run'[q], jobs', items')
    <3>1. run'[q] = run[q]
      BY <1>17, <2>5, OneMoves DEF AddItems
    <3>2. run[q].pc = "add_items" => run[q].id # j
      BY <2>1, <2>5 DEF SameItems
    <3>3. run[q].pc \in Running => run[q].id # j
      BY <2>1, <1>m DEF SameIn
    <3>4. SameIn(run[q], jobs, items)
      BY <1>m
    <3>5. \A k \in Jobs : k # j => DOMAIN items'[k] = DOMAIN items[k]
      BY <2>3
    <3>6. run[q].pc \in Running \cup {"add_items"} => run[q].id \in Jobs /\ run[q].id # j
      BY <3>2, <3>3, <3>4 DEF SameIn
    <3> HIDE DEF j
    <3>7. SameIn(run[q], jobs', items')
      BY <3>4, <3>5, <3>6, <2>1 DEF SameIn, Running, Confirming, Looping
    <3> QED
      BY <3>1, <3>7
  <2>6. \A k \in Jobs : jobs'[k] = Nothing => DOMAIN items'[k] = {}
    BY <2>1, <2>3 DEF SameItems
  <2>7. \A q, r \in Processes :
          run'[q].pc = "add_items" /\ run'[r].pc = "add_items" /\ run'[q].id = run'[r].id => q = r
    BY <2>2, <2>5 DEF SameItems
  <2>8. \A q \in Processes : SameIn(run'[q], jobs', items')
    BY <2>4, <2>5
  <2>9. \A k \in Jobs : DOMAIN items[k] # {} => DOMAIN items'[k] = DOMAIN items[k]
    BY <2>1, <2>3
  <2> QED
    BY <2>6, <2>7, <2>8, <2>9 DEF SameItems
<1> QED
  BY <1>u, <1>1, <1>2, <1>r, <1>4, <1>6, <1>7, <1>8, <1>10, <1>w, <1>l, <1>12, <1>13, <1>14, <1>15,
     <1>16, <1>17 DEF Next
----------------------------------------------------------------------------
(* A job whose items have been seen to stays so: its items stay the same,  *)
(* and what was tried was tried.                                           *)
LEMMA DoneStays ==
  ASSUME NEW j \in Jobs, DoneIn(j, items, tried, dryRun),
         \A k \in Jobs : DOMAIN items[k] # {} => DOMAIN items'[k] = DOMAIN items[k],
         \A k \in Jobs : tried[k] \subseteq tried'[k]
  PROVE  DoneIn(j, items', tried', dryRun)
BY DEF DoneIn, Excused

(* What a process has visited stays visited when another one moves.        *)
LEMMA VisitedStays ==
  ASSUME NEW m, VisitedIn(m, items, tried, dryRun), SameIn(m, jobs, items),
         \A k \in Jobs : DOMAIN items[k] # {} => DOMAIN items'[k] = DOMAIN items[k],
         \A k \in Jobs : tried[k] \subseteq tried'[k]
  PROVE  VisitedIn(m, items', tried', dryRun)
<1>1. m.pc \in {"store_job", "verify"} /\ DoneIn(m.id, items, tried, dryRun) => DoneIn(m.id, items', tried', dryRun)
  BY DoneStays DEF SameIn, Running
<1>2. ASSUME m.pc \in Looping, NEW i \in DOMAIN items'[m.id]
      PROVE  \/ i \in tried'[m.id] \/ Excused(m.id, i, items')
             \/ \E k \in DOMAIN m.queue : m.queue[k] = i
  <2>1. m.id \in Jobs /\ DOMAIN items'[m.id] = DOMAIN items[m.id]
    BY <1>2 DEF SameIn, Running
  <2> QED
    BY <1>2, <2>1 DEF VisitedIn, Excused
<1> QED
  BY <1>1, <1>2 DEF VisitedIn

(* It is enough to look at the process that moves.                         *)
LEMMA VisitedFrame ==
  ASSUME TypeInv, SameItems, Visited, NEW p \in Processes, NEW m, Becomes(p, m),
         \A k \in Jobs : DOMAIN items[k] # {} => DOMAIN items'[k] = DOMAIN items[k],
         \A k \in Jobs : tried[k] \subseteq tried'[k],
         VisitedIn(m, items', tried', dryRun),
         \A j \in Jobs : \/ jobs'[j] = jobs[j]
                         \/ jobs'[j].status = "completed" => DoneIn(j, items', tried', dryRun)
  PROVE  Visited'
<1>1. ASSUME NEW q \in Processes PROVE VisitedIn(run'[q], items', tried', dryRun)
  <2>1. CASE q = p
    BY <2>1, OneMoves
  <2>2. CASE q # p
    <3>1. run'[q] = run[q] /\ VisitedIn(run[q], items, tried, dryRun) /\ SameIn(run[q], jobs, items)
      BY <2>2, OneMoves DEF Visited, SameItems
    <3> QED
      BY <3>1, VisitedStays
  <2> QED
    BY <2>1, <2>2
<1>2. ASSUME NEW j \in Jobs, jobs'[j] # Nothing, jobs'[j].status = "completed"
      PROVE  DoneIn(j, items', tried', dryRun)
  BY <1>2, DoneStays DEF Visited
<1>3. dryRun' = dryRun
  BY DEF Becomes
<1> QED
  BY <1>1, <1>2, <1>3 DEF Visited

(* Only the head of a queue leaves it.                                     *)
LEMMA QueueRest ==
  ASSUME TypeInv, NEW p \in Processes, run[p].queue # << >>,
         NEW k \in DOMAIN run[p].queue, k # 1
  PROVE  \E n \in DOMAIN Tail(run[p].queue) : Tail(run[p].queue)[n] = run[p].queue[k]
<1>1. k - 1 \in DOMAIN Tail(run[p].queue) /\ Tail(run[p].queue)[k - 1] = run[p].queue[k]
  BY QueueHead
<1> QED
  BY <1>1

(* Every step of a run keeps account of what it has visited.               *)
LEMMA VisitedStep ==
  ASSUME TypeInv, TypeInv', Queued, SameItems, Visited, [Next]_vars
  PROVE  Visited'
<1>k. \A k \in Jobs : DOMAIN items[k] # {} => DOMAIN items'[k] = DOMAIN items[k]
  BY SameStep
<1>m. \A p \in Processes :
        /\ run[p] \in Memory /\ SameIn(run[p], jobs, items)
        /\ VisitedIn(run[p], items, tried, dryRun) /\ QueuedIn(run[p], library, lists)
  BY DEF TypeInv, SameItems, Visited, Queued
<1>u. CASE UNCHANGED vars
  BY <1>u DEF Visited, VisitedIn, DoneIn, Excused, vars, documents
<1>1. ASSUME NEW p \in Processes, NEW j \in Jobs,
             Resume(p, j) \/ SelectForRetry(p, j) \/ LoadToStop(p, j)
      PROVE  Visited'
  <2>0. jobs' = jobs /\ items' = items /\ tried' = tried
    BY <1>1 DEF Resume, SelectForRetry, LoadToStop, documents
  <2>1. CASE Resume(p, j)
    <3> DEFINE m == [run[p] EXCEPT !.pc = "resolve", !.id = j, !.job = jobs[j]]
    <3>1. Becomes(p, m) /\ m.pc = "resolve" /\ m.job # Nothing
      BY <2>1, <1>m DEF Resume, Memory
    <3> HIDE DEF m
    <3>2. VisitedIn(m, items', tried', dryRun)
      BY <3>1 DEF VisitedIn, Looping
    <3> QED
      BY <2>0, <3>1, <3>2, <1>k, VisitedFrame
  <2>2. CASE SelectForRetry(p, j)
    <3>1. PICK mine : Becomes(p, [run[p] EXCEPT !.pc = "add_job", !.mine = mine])
      BY <2>2 DEF SelectForRetry
    <3> DEFINE m == [run[p] EXCEPT !.pc = "add_job", !.mine = mine]
    <3>2. Becomes(p, m) /\ m.pc = "add_job"
      BY <3>1, <1>m DEF Memory
    <3> HIDE DEF m
    <3>3. VisitedIn(m, items', tried', dryRun)
      BY <3>2 DEF VisitedIn, Running, Confirming, Looping
    <3> QED
      BY <2>0, <3>2, <3>3, <1>k, VisitedFrame
  <2>3. CASE LoadToStop(p, j)
    <3>0. jobs[j] \in JobRecord /\ jobs[j] # Nothing
      BY <2>3 DEF LoadToStop, TypeInv
    <3>1. PICK job \in {[jobs[j] EXCEPT !.cancel = TRUE], [jobs[j] EXCEPT !.status = "cancelled"],
                        [jobs[j] EXCEPT !.status = "failed"]} :
            Becomes(p, [run[p] EXCEPT !.pc = "store_job", !.id = j, !.job = job])
      BY <2>3 DEF LoadToStop
    <3>2. job \in JobRecord /\ job.status \in {jobs[j].status, "cancelled", "failed"}
      BY <3>0, <3>1 DEF JobRecord, JobStatus
    <3> DEFINE m == [run[p] EXCEPT !.pc = "store_job", !.id = j, !.job = job]
    <3>3. Becomes(p, m) /\ m.pc = "store_job" /\ m.id = j /\ m.job = job
      BY <3>1, <1>m DEF Memory
    <3> HIDE DEF m
    <3>4. job.status = "completed" => DoneIn(j, items, tried, dryRun)
      BY <3>0, <3>2 DEF Visited
    <3>5. VisitedIn(m, items', tried', dryRun)
      BY <2>0, <3>2, <3>3, <3>4, RecordIsSomething DEF VisitedIn, Looping
    <3> QED
      BY <2>0, <3>3, <3>5, <1>k, VisitedFrame
  <2> QED
    BY <1>1, <2>1, <2>2, <2>3
<1>2. ASSUME NEW p \in Processes, NEW m, Becomes(p, m), m.job # Nothing,
             m.pc \in Confirming \cup {"resolve_list", "enter"}, jobs' = jobs, \A k \in Jobs : tried[k] \subseteq tried'[k]
      PROVE  Visited'
  <2>1. VisitedIn(m, items', tried', dryRun)
    BY <1>2 DEF VisitedIn, Confirming, Looping
  <2> QED
    BY <1>2, <2>1, <1>k, VisitedFrame
<1>3. ASSUME NEW p \in Processes, Resolve(p) PROVE Visited'
  <2>1. PICK queue : Becomes(p, [run[p] EXCEPT !.pc = "confirm", !.mine = items[run[p].id],
                                   !.queue = queue, !.seen = << >>])
    BY <1>3 DEF Resolve
  <2> DEFINE m == [run[p] EXCEPT !.pc = "confirm", !.mine = items[run[p].id], !.queue = queue,
                     !.seen = << >>]
  <2>2. Becomes(p, m) /\ m.pc = "confirm" /\ m.job = run[p].job
    BY <2>1, <1>m DEF Memory
  <2>3. run[p].job # Nothing /\ jobs' = jobs /\ tried' = tried
    BY <1>3, <1>m DEF Resolve, At, VisitedIn, Running, documents
  <2> HIDE DEF m
  <2> QED
    BY <1>2, <2>2, <2>3 DEF Confirming
<1>r. ASSUME NEW p \in Processes, ReadState(p) PROVE Visited'
  <2>1. PICK m : Becomes(p, m) /\ m.pc \in {"resolve_list", "enter"} /\ m.job = run[p].job
    <3>1. CASE \E seen : Becomes(p, [run[p] EXCEPT !.pc = "resolve_list", !.seen = seen])
      <4>1. PICK seen : Becomes(p, [run[p] EXCEPT !.pc = "resolve_list", !.seen = seen])
        BY <3>1
      <4> DEFINE n == [run[p] EXCEPT !.pc = "resolve_list", !.seen = seen]
      <4>2. Becomes(p, n) /\ n.pc = "resolve_list" /\ n.job = run[p].job
        BY <4>1, <1>m DEF Memory
      <4> HIDE DEF n
      <4> QED
        BY <4>2
    <3>2. CASE Becomes(p, [run[p] EXCEPT !.pc = "enter"])
      <4> DEFINE n == [run[p] EXCEPT !.pc = "enter"]
      <4>1. Becomes(p, n) /\ n.pc = "enter" /\ n.job = run[p].job
        BY <3>2, <1>m DEF Memory
      <4> HIDE DEF n
      <4> QED
        BY <4>1
    <3> QED
      BY <1>r, <3>1, <3>2 DEF ReadState
  <2>2. run[p].job # Nothing /\ jobs' = jobs /\ tried' = tried
    BY <1>r, <1>m DEF ReadState, At, VisitedIn, Running, documents
  <2> QED
    BY <1>2, <2>1, <2>2
<1>4. ASSUME NEW p \in Processes, ConfirmAmbiguous(p) PROVE Visited'
  <2> DEFINE mine == [run[p].mine EXCEPT ![Head(run[p].queue)].status = "transferred"]
             m == [run[p] EXCEPT !.pc = "confirm_read", !.mine = mine]
  <2>1. Becomes(p, m)
    BY <1>4, <1>m DEF ConfirmAmbiguous, Memory
  <2>2. m.pc = "confirm_read" /\ m.job = run[p].job
    BY <1>m DEF Memory
  <2>3. run[p].job # Nothing /\ jobs' = jobs /\ tried' = tried
    BY <1>4, <1>m DEF ConfirmAmbiguous, At, VisitedIn, Running, Confirming, documents
  <2> HIDE DEF m
  <2> QED
    BY <1>2, <2>1, <2>2, <2>3 DEF Confirming
<1>5. ASSUME NEW p \in Processes, EnterImport(p) PROVE Visited'
  <2> DEFINE job == Job("importing", FALSE)
             m == [run[p] EXCEPT !.pc = "list", !.job = job]
  <2>1. Becomes(p, m) /\ jobs' = [jobs EXCEPT ![run[p].id] = job] /\ tried' = tried
    BY <1>5 DEF EnterImport
  <2>2. m.pc = "list" /\ m.job = job
    BY <1>m DEF Memory
  <2>3. job \in JobRecord /\ job.status = "importing"
    BY DEF Job, JobRecord, JobStatus
  <2>4. job # Nothing
    BY <2>3, RecordIsSomething
  <2>5. run[p].id \in Jobs
    BY <1>5, <1>m DEF EnterImport, At, SameIn, Running, Confirming
  <2> HIDE DEF m, job
  <2>6. VisitedIn(m, items', tried', dryRun)
    BY <2>2, <2>3, <2>4 DEF VisitedIn, Looping
  <2>7. \A j \in Jobs : jobs'[j] = jobs[j] \/ jobs'[j].status # "completed"
    BY <2>1, <2>3, <2>5 DEF TypeInv
  <2> QED
    BY <2>1, <2>6, <2>7, <1>k, VisitedFrame
<1>6. ASSUME NEW p \in Processes, ListItems(p) PROVE Visited'
  <2> DEFINE stored == items[run[p].id]
             queue == WriteOrder(DOMAIN stored)
             m == [run[p] EXCEPT !.pc = "loop", !.mine = stored, !.queue = queue]
  <2>1. Becomes(p, m) /\ jobs' = jobs /\ items' = items /\ tried' = tried
    BY <1>6 DEF ListItems, documents
  <2>2. m.pc = "loop" /\ m.job = run[p].job /\ m.queue = queue /\ m.id = run[p].id
    BY <1>m DEF Memory
  <2>3. run[p].job # Nothing /\ run[p].job.status = "importing" /\ run[p].id \in Jobs
    BY <1>6, <1>m DEF ListItems, At, VisitedIn, SameIn, Running
  <2>4. ASSUME NEW i \in DOMAIN stored
        PROVE  Excused(run[p].id, i, items) \/ \E k \in DOMAIN queue : queue[k] = i
    <3>1. stored \in Documents /\ i \in Items
      BY <2>3, DocumentIs DEF TypeInv
    <3>2. CASE i \in Entries /\ Playlist \notin DOMAIN stored
      BY <3>2 DEF Excused
    <3>3. CASE i \in Entries => Playlist \in DOMAIN stored
      <4> DEFINE S == {n \in DOMAIN stored : n \in Entries => Playlist \in DOMAIN stored}
      <4>1. i \in S \cap Items /\ queue = Sublist(Order, S)
        BY <3>1, <3>3 DEF WriteOrder
      <4> HIDE DEF S, queue
      <4> QED
        BY <4>1, OrderedMembers
    <3> QED
      BY <3>2, <3>3
  <2> HIDE DEF m, queue
  <2>5. VisitedIn(m, items', tried', dryRun)
    BY <2>1, <2>2, <2>3, <2>4 DEF VisitedIn, Looping
  <2> QED
    BY <2>1, <2>5, <1>k, VisitedFrame
<1>7. ASSUME NEW p \in Processes, NEW m, Becomes(p, m), run[p].pc \in Looping, m.pc \in Looping,
             m.job = run[p].job, m.id = run[p].id,
             \A k \in Jobs : tried[k] \subseteq tried'[k],
             \A k \in DOMAIN run[p].queue :
               \/ run[p].queue[k] \in tried'[m.id]
               \/ \E n \in DOMAIN m.queue : m.queue[n] = run[p].queue[k],
             jobs' = jobs
      PROVE  Visited'
  <2>1. run[p].job # Nothing /\ run[p].job.status = "importing" /\ run[p].id \in Jobs
    BY <1>7, <1>m DEF VisitedIn, SameIn, Running
  <2>2. DOMAIN items'[m.id] = DOMAIN items[m.id]
    BY <1>7, <1>k, <1>m, <2>1 DEF SameIn, Running
  <2>3. ASSUME NEW i \in DOMAIN items'[m.id]
        PROVE  \/ i \in tried'[m.id] \/ Excused(m.id, i, items')
               \/ \E k \in DOMAIN m.queue : m.queue[k] = i
    <3>1. \/ i \in tried[m.id] \/ Excused(m.id, i, items)
          \/ \E k \in DOMAIN run[p].queue : run[p].queue[k] = i
      BY <1>7, <1>m, <2>2, <2>3 DEF VisitedIn
    <3> QED
      BY <3>1, <1>7, <2>1, <2>2 DEF Excused
  <2>4. VisitedIn(m, items', tried', dryRun)
    BY <1>7, <2>1, <2>3 DEF VisitedIn, Looping
  <2> QED
    BY <1>7, <2>4, <1>k, VisitedFrame
<1>8. ASSUME NEW p \in Processes, LoadItems(p) PROVE Visited'
  <2> DEFINE m == [run[p] EXCEPT !.pc = IF @ = "loop_read" THEN "loop_store" ELSE "confirm_store",
                     !.read = items[run[p].id]]
  <2>1. Becomes(p, m) /\ run[p].pc \in {"confirm_read", "loop_read"} /\ jobs' = jobs /\ tried' = tried
    BY <1>8 DEF LoadItems, documents
  <2>2. /\ m.pc = IF run[p].pc = "loop_read" THEN "loop_store" ELSE "confirm_store"
        /\ m.job = run[p].job /\ m.id = run[p].id /\ m.queue = run[p].queue
    BY <1>m DEF Memory
  <2>3. run[p].job # Nothing
    BY <2>1, <1>m DEF VisitedIn, Running, Confirming, Looping
  <2> HIDE DEF m
  <2>4. CASE run[p].pc = "confirm_read"
    BY <1>2, <2>1, <2>2, <2>3, <2>4 DEF Confirming
  <2>5. CASE run[p].pc = "loop_read"
    BY <1>7, <2>1, <2>2, <2>5 DEF Looping
  <2> QED
    BY <2>1, <2>4, <2>5
<1>9. ASSUME NEW p \in Processes, UpdateItem(p) PROVE Visited'
  <2> DEFINE i == Head(run[p].queue)
             m == [run[p] EXCEPT !.pc = IF At(p, "loop_store") THEN "loop" ELSE "confirm",
                     !.queue = Tail(@), !.read = << >>]
  <2>1. /\ Becomes(p, m) /\ run[p].pc \in {"confirm_store", "loop_store"} /\ jobs' = jobs
        /\ tried' = IF At(p, "loop_store")
                      THEN [tried EXCEPT ![run[p].id] = @ \cup {i}] ELSE tried
    BY <1>9 DEF UpdateItem
  <2>2. /\ m.pc = IF run[p].pc = "loop_store" THEN "loop" ELSE "confirm"
        /\ m.job = run[p].job /\ m.id = run[p].id /\ m.queue = Tail(run[p].queue)
    BY <1>m DEF Memory, At
  <2>3. run[p].job # Nothing /\ run[p].id \in Jobs /\ run[p].queue # << >>
    BY <2>1, <1>m DEF VisitedIn, SameIn, QueuedIn, Running, Confirming, Looping
  <2> HIDE DEF m
  <2>4. CASE run[p].pc = "confirm_store"
    BY <1>2, <2>1, <2>2, <2>3, <2>4 DEF Confirming, At
  <2>5. CASE run[p].pc = "loop_store"
    <3>1. \A k \in DOMAIN run[p].queue :
            k # 1 => \E n \in DOMAIN m.queue : m.queue[n] = run[p].queue[k]
      BY <2>2, <2>3, QueueRest
    <3>2. run[p].queue[1] = i
      BY <2>3, QueueHead
    <3> HIDE DEF i
    <3>3. tried' = [tried EXCEPT ![run[p].id] = @ \cup {i}]
      BY <2>1, <2>5 DEF At
    <3>4. (\A k \in Jobs : tried[k] \subseteq tried'[k]) /\ i \in tried'[run[p].id]
      BY <2>3, <3>3 DEF TypeInv
    <3> QED
      BY <1>7, <2>1, <2>2, <2>5, <3>1, <3>2, <3>4 DEF Looping
  <2> QED
    BY <2>1, <2>4, <2>5
<1>10. ASSUME NEW p \in Processes, SkipSettled(p) PROVE Visited'
  <2> DEFINE i == Head(run[p].queue)
             m == [run[p] EXCEPT !.queue = Tail(@)]
  <2>1. /\ Becomes(p, m) /\ run[p].pc = "loop" /\ run[p].queue # << >> /\ jobs' = jobs
        /\ tried' = [tried EXCEPT ![run[p].id] = @ \cup {i}]
    BY <1>10 DEF SkipSettled, Visiting, At, documents
  <2>2. /\ m.pc = run[p].pc /\ m.job = run[p].job /\ m.id = run[p].id
        /\ m.queue = Tail(run[p].queue)
    BY <1>m DEF Memory
  <2>3. run[p].id \in Jobs
    BY <2>1, <1>m DEF SameIn, Running, Looping
  <2> HIDE DEF m
  <2>4. \A k \in DOMAIN run[p].queue :
          k # 1 => \E n \in DOMAIN m.queue : m.queue[n] = run[p].queue[k]
    BY <2>1, <2>2, QueueRest
  <2>5. run[p].queue[1] = i
    BY <2>1, QueueHead
  <2> HIDE DEF i
  <2>6. (\A k \in Jobs : tried[k] \subseteq tried'[k]) /\ i \in tried'[run[p].id]
    BY <2>1, <2>3 DEF TypeInv
  <2> QED
    BY <1>7, <2>1, <2>2, <2>4, <2>5, <2>6 DEF Looping
<1>11. ASSUME NEW p \in Processes, run[p].pc \in Looping, NEW pc \in Looping, NEW mine, NEW seen,
              Becomes(p, [run[p] EXCEPT !.pc = pc, !.mine = mine, !.seen = seen]),
              jobs' = jobs, tried' = tried
       PROVE  Visited'
  <2> DEFINE m == [run[p] EXCEPT !.pc = pc, !.mine = mine, !.seen = seen]
  <2>1. m.pc = pc /\ m.job = run[p].job /\ m.id = run[p].id /\ m.queue = run[p].queue
    BY <1>m DEF Memory
  <2>2. Becomes(p, m)
    BY <1>11
  <2> HIDE DEF m
  <2> QED
    BY <1>7, <1>11, <2>1, <2>2
<1>w. ASSUME NEW p \in Processes, run[p].pc \in Looping, NEW i, NEW s, Attempted(p, i, s)
      PROVE  Visited'
  <2>1. /\ Becomes(p, [run[p] EXCEPT !.pc = "loop_read",
                          !.mine = [run[p].mine EXCEPT ![i].status = s], !.seen = << >>])
        /\ jobs' = jobs /\ tried' = tried
    BY <1>w, <1>m DEF Attempted, Memory, documents
  <2> QED
    BY <1>11, <1>w, <2>1 DEF Looping
<1>12. ASSUME NEW p \in Processes, WriteFavorite(p) \/ DryRunItem(p) \/ WriteEntry(p)
       PROVE  Visited'
  <2>1. \E i, s : Attempted(p, i, s)
    BY <1>12 DEF WriteFavorite, DryRunItem, WriteEntry
  <2>2. run[p].pc \in Looping
    BY <1>12 DEF WriteFavorite, DryRunItem, WriteEntry, Executing, Visiting, At, Looping
  <2> QED
    BY <1>w, <2>1, <2>2
<1>l. ASSUME NEW p \in Processes, ReadList(p) PROVE Visited'
  <2>0. run[p].pc \in Looping
    BY <1>l DEF ReadList, Executing, Visiting, At, Looping
  <2>1. CASE \E i, s : Attempted(p, i, s)
    BY <1>w, <2>0, <2>1
  <2>2. CASE /\ \E seen : Becomes(p, [run[p] EXCEPT !.pc = "reconcile", !.seen = seen])
             /\ jobs' = jobs /\ tried' = tried
    <3>1. PICK seen : Becomes(p, [run[p] EXCEPT !.pc = "reconcile", !.seen = seen])
      BY <2>2
    <3>2. Becomes(p, [run[p] EXCEPT !.pc = "reconcile", !.mine = run[p].mine, !.seen = seen])
      BY <3>1, <1>m DEF Memory
    <3> QED
      BY <1>11, <2>0, <2>2, <3>2 DEF Looping
  <2> QED
    BY <1>l, <2>1, <2>2 DEF ReadList, documents
<1>13. ASSUME NEW p \in Processes, CreatePlaylist(p) PROVE Visited'
  <2>1. PICK mine : Becomes(p, [run[p] EXCEPT !.pc = "loop_read", !.mine = mine])
    BY <1>13 DEF CreatePlaylist
  <2>2. Becomes(p, [run[p] EXCEPT !.pc = "loop_read", !.mine = mine, !.seen = run[p].seen])
    BY <2>1, <1>m DEF Memory
  <2>3. run[p].pc \in Looping /\ jobs' = jobs /\ tried' = tried
    BY <1>13 DEF CreatePlaylist, Executing, Visiting, At, documents, Looping
  <2> QED
    BY <1>11, <2>2, <2>3 DEF Looping
<1>14. ASSUME NEW p \in Processes, NEW job \in JobRecord, run[p].id \in Jobs,
              jobs' = [jobs EXCEPT ![run[p].id] = job],
              job.status = "completed" => DoneIn(run[p].id, items', tried', dryRun)
       PROVE  \A j \in Jobs : \/ jobs'[j] = jobs[j]
                              \/ jobs'[j].status = "completed" => DoneIn(j, items', tried', dryRun)
  BY <1>14 DEF TypeInv
<1>15. ASSUME NEW p \in Processes, RequestCancellation(p) PROVE Visited'
  <2> DEFINE job == [run[p].job EXCEPT !.cancel = TRUE]
             m == [run[p] EXCEPT !.job = job]
  <2>1. /\ Becomes(p, m) /\ run[p].pc = "loop" /\ items' = items /\ tried' = tried
        /\ jobs' = [jobs EXCEPT ![run[p].id] = job]
    BY <1>15 DEF RequestCancellation, At
  <2>2. m.pc = "loop" /\ m.id = run[p].id /\ m.job = job /\ m.queue = run[p].queue
    BY <2>1, <1>m DEF Memory
  <2>3. run[p].job # Nothing /\ run[p].job.status = "importing" /\ run[p].id \in Jobs
    BY <2>1, <1>m DEF VisitedIn, SameIn, Running, Looping
  <2>4. job \in JobRecord /\ job.status = "importing"
    BY <2>3, <1>m DEF Memory, JobRecord
  <2> HIDE DEF m, job
  <2>5. VisitedIn(m, items', tried', dryRun)
    BY <2>1, <2>2, <2>4, <1>m, RecordIsSomething DEF VisitedIn, Looping
  <2>6. \A j \in Jobs : \/ jobs'[j] = jobs[j]
                        \/ jobs'[j].status = "completed" => DoneIn(j, items', tried', dryRun)
    BY <1>14, <2>1, <2>3, <2>4
  <2> QED
    BY <2>1, <2>5, <2>6, <1>k, VisitedFrame
<1>16. ASSUME NEW p \in Processes, BeginVerify(p) PROVE Visited'
  <2> DEFINE job == Job("verifying", run[p].job.cancel)
             over == run[p].queue # << >>
             m == [run[p] EXCEPT !.pc = "verify", !.job = job, !.cancelled = over]
  <2>1. /\ Becomes(p, m) /\ run[p].pc = "loop" /\ items' = items /\ tried' = tried
        /\ jobs' = [jobs EXCEPT ![run[p].id] = job]
    BY <1>16 DEF BeginVerify, LoopOver, At
  <2>2. m.pc = "verify" /\ m.id = run[p].id /\ m.job = job /\ m.cancelled = over
    BY <1>m DEF Memory
  <2>3. run[p].job # Nothing /\ run[p].id \in Jobs /\ DOMAIN items[run[p].id] # {}
    BY <2>1, <1>m DEF VisitedIn, SameIn, Running, Looping
  <2>4. job \in JobRecord /\ job.status = "verifying"
    BY <2>3, <1>m DEF Memory, JobRecord, Job, JobStatus
  <2> HIDE DEF m, job
  <2>5. ASSUME ~over PROVE DoneIn(run[p].id, items', tried', dryRun)
    <3>1. run[p].queue = << >>
      BY <2>5
    <3> QED
      BY <2>1, <2>3, <3>1, <1>m, EmptyDocument DEF VisitedIn, Looping, DoneIn
  <2>6. VisitedIn(m, items', tried', dryRun)
    BY <2>2, <2>4, <2>5, RecordIsSomething DEF VisitedIn, Looping
  <2>7. \A j \in Jobs : \/ jobs'[j] = jobs[j]
                        \/ jobs'[j].status = "completed" => DoneIn(j, items', tried', dryRun)
    BY <1>14, <2>1, <2>3, <2>4
  <2> QED
    BY <2>1, <2>6, <2>7, <1>k, VisitedFrame
<1>17. VisitedIn(Idle, items', tried', dryRun)
  BY DEF VisitedIn, Idle, Running, Confirming, Looping
<1>18. ASSUME NEW p \in Processes, FinishJob(p) PROVE Visited'
  <2> DEFINE job == Job(LastStatus(run[p]), run[p].job.cancel)
  <2>1. /\ Becomes(p, Idle) /\ run[p].pc = "verify" /\ items' = items /\ tried' = tried
        /\ jobs' = [jobs EXCEPT ![run[p].id] = job]
    BY <1>18 DEF FinishJob, At
  <2>2. run[p].job # Nothing /\ run[p].id \in Jobs
    BY <2>1, <1>m DEF VisitedIn, SameIn, Running
  <2>3. job \in JobRecord /\ (job.status = "completed" => ~run[p].cancelled)
    BY <2>2, <1>m DEF Memory, JobRecord, Job, JobStatus, LastStatus
  <2>4. job.status = "completed" => DoneIn(run[p].id, items', tried', dryRun)
    BY <2>1, <2>3, <1>m DEF VisitedIn
  <2> HIDE DEF job
  <2>5. \A j \in Jobs : \/ jobs'[j] = jobs[j]
                        \/ jobs'[j].status = "completed" => DoneIn(j, items', tried', dryRun)
    BY <1>14, <2>1, <2>2, <2>3, <2>4
  <2> QED
    BY <2>1, <2>5, <1>17, <1>k, VisitedFrame
<1>f. ASSUME NEW p \in Processes, FinishDryRun(p) PROVE Visited'
  <2> DEFINE job == Job("completed", run[p].job.cancel)
  <2>1. /\ Becomes(p, Idle) /\ run[p].pc = "loop" /\ dryRun /\ tried' = tried
        /\ jobs' = [jobs EXCEPT ![run[p].id] = job]
    BY <1>f DEF FinishDryRun, LoopOver, At
  <2>2. run[p].job # Nothing /\ run[p].id \in Jobs
    BY <2>1, <1>m DEF VisitedIn, SameIn, Running, Looping
  <2>3. job \in JobRecord
    BY <2>2, <1>m DEF Memory, JobRecord, Job, JobStatus
  <2>4. DoneIn(run[p].id, items', tried', dryRun)
    BY <2>1 DEF DoneIn
  <2> HIDE DEF job
  <2>5. \A j \in Jobs : \/ jobs'[j] = jobs[j]
                        \/ jobs'[j].status = "completed" => DoneIn(j, items', tried', dryRun)
    BY <1>14, <2>1, <2>2, <2>3, <2>4
  <2> QED
    BY <2>1, <2>5, <1>17, <1>k, VisitedFrame
<1>19. ASSUME NEW p \in Processes, StoreJob(p) PROVE Visited'
  <2>1. /\ Becomes(p, Idle) /\ run[p].pc = "store_job" /\ items' = items /\ tried' = tried
        /\ jobs' = [jobs EXCEPT ![run[p].id] = run[p].job]
    BY <1>19 DEF StoreJob, At
  <2>2. run[p].job \in JobRecord /\ run[p].id \in Jobs
    BY <2>1, <1>m DEF VisitedIn, SameIn, Memory
  <2>3. run[p].job.status = "completed" => DoneIn(run[p].id, items', tried', dryRun)
    BY <2>1, <1>m DEF VisitedIn
  <2>4. \A j \in Jobs : \/ jobs'[j] = jobs[j]
                        \/ jobs'[j].status = "completed" => DoneIn(j, items', tried', dryRun)
    BY <1>14, <2>1, <2>2, <2>3
  <2> QED
    BY <2>1, <2>4, <1>17, <1>k, VisitedFrame
<1>20. ASSUME NEW p \in Processes, Crash(p) PROVE Visited'
  BY <1>20, <1>17, <1>k, VisitedFrame DEF Crash, documents
<1>21. ASSUME NEW p \in Processes, AddJob(p) PROVE Visited'
  <2> DEFINE job == Job("created", FALSE)
  <2>1. PICK j \in Jobs :
          /\ jobs' = [jobs EXCEPT ![j] = job]
          /\ Becomes(p, [run[p] EXCEPT !.pc = "add_items", !.id = j, !.job = job])
    BY <1>21 DEF AddJob
  <2> DEFINE m == [run[p] EXCEPT !.pc = "add_items", !.id = j, !.job = job]
  <2>2. m.pc = "add_items" /\ m.job = job /\ Becomes(p, m) /\ tried' = tried
    BY <1>21, <2>1, <1>m DEF Memory, AddJob
  <2>3. job \in JobRecord /\ job.status = "created"
    BY DEF Job, JobRecord, JobStatus
  <2> HIDE DEF m, job
  <2>4. VisitedIn(m, items', tried', dryRun)
    BY <2>2, <2>3, RecordIsSomething DEF VisitedIn, Looping
  <2>5. \A k \in Jobs : jobs'[k] = jobs[k] \/ jobs'[k].status # "completed"
    BY <2>1, <2>3 DEF TypeInv
  <2> QED
    BY <2>2, <2>4, <2>5, <1>k, VisitedFrame
<1>22. ASSUME NEW p \in Processes, AddItems(p) PROVE Visited'
  <2> DEFINE m == [run[p] EXCEPT !.pc = "store_job"]
  <2>1. Becomes(p, m) /\ run[p].pc = "add_items" /\ jobs' = jobs /\ tried' = tried
    BY <1>22 DEF AddItems, At
  <2>2. m.pc = "store_job" /\ m.job = run[p].job
    BY <1>m DEF Memory
  <2>3. run[p].job # Nothing /\ run[p].job.status = "created"
    BY <2>1, <1>m DEF VisitedIn
  <2> HIDE DEF m
  <2>4. VisitedIn(m, items', tried', dryRun)
    BY <2>2, <2>3 DEF VisitedIn, Looping
  <2> QED
    BY <2>1, <2>4, <1>k, VisitedFrame
<1> QED
  BY <1>u, <1>1, <1>3, <1>r, <1>4, <1>5, <1>6, <1>8, <1>9, <1>10, <1>12, <1>l, <1>13, <1>15, <1>16,
     <1>18, <1>f, <1>19, <1>20, <1>21, <1>22 DEF Next
----------------------------------------------------------------------------
(* The inductive invariant holds initially.                                *)
LEMMA InvariantInit == Init => IInv
<1> SUFFICES ASSUME Init PROVE IInv
  OBVIOUS
<1>0. /\ \A p \in Processes : run[p] = Idle
      /\ \A j \in Jobs : items[j] = IF j = First THEN [i \in Items |-> Item("matched", 0)] ELSE << >>
      /\ \A j \in Jobs : jobs[j] = IF j = First THEN Job("waiting_confirmation", FALSE) ELSE Nothing
      /\ Len(lists) = 0
  BY DEF Init
<1>1. TypeInv
  BY TypeInit
<1>2. Truthful
  <2>1. ASSUME NEW j \in Jobs PROVE TruthfulIn(items[j], library, lists)
    <3>1. CASE j = First
      BY <1>0, <3>1 DEF TruthfulIn, Item
    <3>2. CASE j # First
      BY <1>0, <3>2, TruthfulEmpty
    <3> QED
      BY <3>1, <3>2
  <2> QED
    BY <2>1, <1>0, TruthfulEmpty DEF Truthful, Idle
<1>3. Queued
  BY <1>0 DEF Queued, QueuedIn, Idle, Confirming, Looping
<1>4. SameItems
  <2>1. \A j \in Jobs : jobs[j] = Nothing => DOMAIN items[j] = {}
    <3>1. Job("waiting_confirmation", FALSE) \in JobRecord
      BY DEF Job, JobRecord, JobStatus
    <3> QED
      BY <3>1, <1>0, RecordIsSomething, EmptyDocument
  <2> QED
    BY <2>1, <1>0 DEF SameItems, SameIn, Idle, Running, Confirming, Looping
<1>5. Visited
  BY <1>0 DEF Visited, VisitedIn, Idle, Running, Confirming, Looping, Job
<1> QED
  BY <1>1, <1>2, <1>3, <1>4, <1>5 DEF IInv

(* ... and every step preserves it.                                        *)
LEMMA InvariantStep == IInv /\ [Next]_vars => IInv'
<1> SUFFICES ASSUME IInv, [Next]_vars PROVE IInv'
  OBVIOUS
<1>1. TypeInv /\ Truthful /\ Queued /\ SameItems /\ Visited
  BY DEF IInv
<1>2. TypeInv'
  BY <1>1, TypeStep
<1>3. Truthful'
  BY <1>1, <1>2, TruthfulStep
<1>4. Queued'
  BY <1>1, <1>2, QueuedStep
<1>5. SameItems'
  BY <1>1, <1>2, SameStep
<1>6. Visited'
  BY <1>1, <1>2, VisitedStep
<1> QED
  BY <1>2, <1>3, <1>4, <1>5, <1>6 DEF IInv

(* What the processes hold in memory, what the documents hold and what the *)
(* destination holds agree in every state, whoever writes in between.      *)
THEOREM InvariantHolds == Spec => []IInv
<1>1. Init => IInv
  BY InvariantInit
<1>2. IInv /\ [Next]_vars => IInv'
  BY InvariantStep
<1> QED
  BY <1>1, <1>2, PTL DEF Spec

(* Whatever two processes overwrite of one another's records, no document  *)
(* names an item as transferred that the destination has not.              *)
THEOREM UpdatesAreNeverInvented == Spec => []StoredMeansWritten
<1>1. IInv => StoredMeansWritten
  <2> SUFFICES ASSUME IInv, NEW j \in Jobs, NEW i \in DOMAIN items[j],
                      items[j][i].status = "transferred"
               PROVE  Present(i)
    BY DEF StoredMeansWritten
  <2>1. PresentIn(i, library, lists)
    BY DEF IInv, Truthful, TruthfulIn
  <2> QED
    BY <2>1 DEF PresentIn, Present, ToSet, Favorites
<1> QED
  BY <1>1, InvariantHolds, PTL

(* A job that is stored as completed and is no dry run has had each of its *)
(* items attempted or found settled, but for the entries of a retry job    *)
(* whose playlist item it does not hold, which are never visited.          *)
THEOREM CompletedMeansVisited == Spec => []CompletedWasVisited
<1>1. IInv => CompletedWasVisited
  BY DEF IInv, Visited, DoneIn, Excused, CompletedWasVisited
<1> QED
  BY <1>1, InvariantHolds, PTL

(* No document ever loses an item, though each is written as a whole from  *)
(* an earlier reading of it.                                               *)
THEOREM DocumentsKeepItems == Spec => ItemsKept
<1>1. IInv /\ IInv' /\ [Next]_vars =>
        [\A j \in Jobs : DOMAIN items[j] \subseteq DOMAIN items'[j]]_vars
  <2> SUFFICES ASSUME IInv, IInv', [Next]_vars
               PROVE  \A j \in Jobs : DOMAIN items[j] \subseteq DOMAIN items'[j]
    OBVIOUS
  <2>1. \A j \in Jobs : DOMAIN items[j] # {} => DOMAIN items'[j] = DOMAIN items[j]
    BY SameStep DEF IInv
  <2> QED
    BY <2>1
<1> QED
  BY <1>1, InvariantHolds, PTL DEF Spec, ItemsKept
====
