-------------------------- MODULE DeleteQueueProofs --------------------------
(***************************************************************************)
(* Proofs about DeleteQueue, for any library, scopes and bounds.           *)
(***************************************************************************)
EXTENDS DeleteQueue, FiniteSetTheorems, WellFoundedInduction, TLAPS

Current == Order[position]
Records == {"start", "outcome", "interrupt"}
InLoop == {"next", "journal", "request"}

(* Where the process is determines what it has in memory and why.          *)
PhaseInv ==
  /\ pc \notin {"down", "menu", "offered"} => mem # None
  /\ pc \in {"replace", "unlink"} => task \in {"execute", "resume", "finish"}
  /\ pc = "journal" => task \in Records
  /\ pc = "request" => task = "start"
  /\ pc \in {"journal", "request"} \/ (pc = "checkpoint" /\ task \in Records) =>
       /\ position \in DOMAIN Order
       /\ mem.status[Current] # None
  /\ pc = "request" \/ (pc \in {"journal", "checkpoint"} /\ task = "start") =>
       mem.status[Current] = "processing"
  /\ pc = "confirm" \/ (pc = "replace" /\ task = "execute") =>
       \A o \in Objects : mem.status[o] \in {"pending", None}
  /\ pc = "offered" => Loadable

(* The files as a new process would read them.                             *)
NothingSettled == \A o \in Objects : recorded[o] \notin Settled

FilesInv ==
  /\ queueDoc # None => ReadsBack \/ (overlapped /\ NothingSettled)
  /\ FilesAgree

(* A queue read back from the files, until it replaces them.               *)
Resuming == pc = "reconcile" \/ (pc = "replace" /\ task = "resume")

ResumeInv ==
  Resuming =>
    /\ Loadable
    /\ mem.operation = queueDoc.operation
    /\ Targets(mem) = Targets(queueDoc)
    /\ \A i \in DOMAIN journal : ~journal[i].torn => journal[i].seq <= mem.seq
    /\ \A o \in Objects : recorded[o] \in Settled => mem.status[o] = recorded[o]

(* The queue document with its journal reaches number n.                   *)
Numbered(q, j, n) ==
  /\ q.seq <= n
  /\ \A i \in DOMAIN j : j[i].seq <= n
  /\ n = q.seq \/ \E i \in Fresh(q, j) : j[i].seq = n

(* The queue in memory and the files, while the queue is worked off: they  *)
(* differ in the current object at most, and a record that is written a    *)
(* second time repeats what is there.                                      *)
Working ==
  pc \in InLoop \cup {"checkpoint"} \/ (pc = "replace" /\ task = "finish")

QueueInv ==
  Working =>
    /\ queueDoc # None
    /\ ReadsBack
    /\ mem.operation = queueDoc.operation
    /\ Targets(mem) = Targets(queueDoc)
    /\ \A i \in DOMAIN journal : ~journal[i].torn
    /\ \A o \in Objects :
         recorded[o] = mem.status[o] \/ (pc = "journal" /\ o = Current)
    /\ \/ Numbered(queueDoc, journal, mem.seq)
       \/ /\ pc = "journal" /\ task = "interrupt"
          /\ Numbered(queueDoc, journal, mem.seq + 1)
          /\ recorded = mem.status

(* A settled object is not worked on again.                                *)
CurrentInv ==
  pc = "journal" => recorded[Current] \notin Settled \/ recorded = mem.status

(* The checkpoint is that of the queue.                                    *)
Checkpointed ==
  \/ pc \in InLoop
  \/ pc = "checkpoint" /\ task \in Records
  \/ pc = "replace" /\ task = "finish"

CheckpointInv ==
  Checkpointed =>
    /\ stateDoc # None
    /\ stateDoc.operation = mem.operation
    /\ stateDoc.total = Cardinality(Targets(mem))

ReplacedInv ==
  /\ pc = "unlink" => queueDoc = mem /\ recorded = mem.status
  /\ pc = "clear_journal" => queueDoc = None

WorkInv ==
  /\ QueueInv
  /\ CurrentInv
  /\ CheckpointInv
  /\ ReplacedInv

IInv ==
  /\ TypeOK
  /\ PhaseInv
  /\ FilesInv
  /\ ResumeInv
  /\ WorkInv
----------------------------------------------------------------------------
(* Reading a journal.                                                      *)

(* Every set of numbers has a least one.                                   *)
LEMMA LeastNumber ==
  ASSUME NEW T \in SUBSET Nat, T # {}
  PROVE  \E x \in T : \A y \in T : x <= y
<1> DEFINE R == {ss \in Nat \X Nat : ss[1] < ss[2]}
<1>1. IsWellFoundedOn(R, Nat)
  BY NatLessThanWellFounded DEF OpToRel
<1>2. PICK x \in T : \A y \in T : ~ (<<y, x>> \in R)
  <2> HIDE DEF R
  <2> QED
    BY <1>1, WFMin
<1>3. \A y \in T : ~ (y < x)
  BY <1>2
<1> QED
  BY <1>3

(* Latest picks the greatest of a set of positions in a sequence.          *)
LEMMA LatestIsGreatest ==
  ASSUME NEW n \in Nat, NEW S \in SUBSET (1..n), S # {}
  PROVE  Latest(S) \in S /\ \A k \in S : k <= Latest(S)
<1> DEFINE Above == {m \in Nat : \A k \in S : k <= m}
<1>1. n \in Above
  OBVIOUS
<1>2. PICK m \in Above : \A y \in Above : m <= y
  <2> Above \in SUBSET Nat /\ Above # {}
    BY <1>1
  <2> HIDE DEF Above
  <2> QED
    BY LeastNumber
<1>3. m \in S
  <2> SUFFICES ASSUME m \notin S PROVE FALSE
    OBVIOUS
  <2>1. PICK k \in S : TRUE
    OBVIOUS
  <2>2. m \in Nat /\ k \in Nat /\ k <= m /\ k >= 1
    BY <1>2, <2>1
  <2>3. m - 1 \in Nat /\ \A j \in S : j <= m - 1
    BY <1>2, <2>2
  <2> QED
    BY <1>2, <2>3
<1>4. \E i \in S : \A k \in S : k <= i
  BY <1>2, <1>3
<1> QED
  BY <1>4 DEF Latest

(* What a journal consists of.                                             *)
LEMMA JournalTypes ==
  ASSUME NEW j \in Seq(Record)
  PROVE  /\ Len(j) \in Nat
         /\ DOMAIN j = 1..Len(j)
         /\ \A i \in DOMAIN j :
              /\ j[i].object \in Objects
              /\ j[i].status \in Status
              /\ j[i].seq \in Nat
              /\ j[i].torn \in BOOLEAN
<1>1. Len(j) \in Nat /\ DOMAIN j = 1..Len(j) /\ \A i \in DOMAIN j : j[i] \in Record
  OBVIOUS
<1> QED
  BY <1>1 DEF Record

(* A record that is appended to an intact journal is applied when it is    *)
(* intact and numbered above the queue document and all other records.     *)
LEMMA FreshAppend ==
  ASSUME NEW q \in Queue, NEW j \in Seq(Record), NEW r \in Record
  PROVE  LET n == Len(j) + 1
             applies == ~r.torn /\ r.seq > q.seq
                          /\ \A k \in DOMAIN j : j[k].seq < r.seq
         IN Fresh(q, Append(j, r)) = Fresh(q, j) \cup (IF applies THEN {n} ELSE {})
<1> DEFINE a == Append(j, r)
           n == Len(j) + 1
<1>1. /\ DOMAIN a = DOMAIN j \cup {n} /\ n \notin DOMAIN j
      /\ DOMAIN j = 1..(n - 1) /\ n \in Nat
      /\ a[n] = r
      /\ \A i \in DOMAIN j : a[i] = j[i]
  OBVIOUS
<1>2. \A i \in DOMAIN j : i \in Fresh(q, a) <=> i \in Fresh(q, j)
  <2> TAKE i \in DOMAIN j
  <2>1. 1..(i - 1) \subseteq DOMAIN j /\ i \in DOMAIN a
    BY <1>1
  <2>2. \A k \in 1..(i - 1) : a[k] = j[k]
    BY <1>1, <2>1
  <2> HIDE DEF a, n
  <2> QED
    BY <1>1, <2>1, <2>2 DEF Fresh
<1>3. n \in Fresh(q, a) <=>
        /\ ~r.torn
        /\ r.seq > q.seq
        /\ \A k \in DOMAIN j : j[k].seq < r.seq
  <2> HIDE DEF a, n
  <2> QED
    BY <1>1 DEF Fresh
<1>4. Fresh(q, a) \subseteq DOMAIN a /\ Fresh(q, j) \subseteq DOMAIN j
  BY DEF Fresh
<1> HIDE DEF a, n
<1> QED
  BY <1>1, <1>2, <1>3, <1>4 DEF a, n

(* The records that are applied are numbered in ascending order, and the   *)
(* number read back is at least that of every intact record.               *)
LEMMA FreshTop ==
  ASSUME NEW q \in Queue, NEW j \in Seq(Record), JournalReadable(q, j)
  PROVE  /\ Replayed(q, j).seq \in Nat
         /\ q.seq <= Replayed(q, j).seq
         /\ \A i \in DOMAIN j : ~j[i].torn => j[i].seq <= Replayed(q, j).seq
<1> DEFINE top == Replayed(q, j).seq
<1>1. q.seq \in Nat /\ DOMAIN j = 1..Len(j) /\ Len(j) \in Nat
      /\ \A i \in DOMAIN j : j[i].seq \in Nat /\ j[i].torn \in BOOLEAN
  <2>1. q.seq \in Nat
    BY DEF Queue
  <2> QED
    BY <2>1, JournalTypes
<1>2. Fresh(q, j) \subseteq 1..Len(j)
  BY <1>1 DEF Fresh
<1>3. \A i, k \in Fresh(q, j) : k <= i => j[k].seq <= j[i].seq
  BY <1>1 DEF Fresh
<1>4. /\ top \in Nat
      /\ q.seq <= top
      /\ \A i \in Fresh(q, j) : j[i].seq <= top
  <2>1. CASE Fresh(q, j) = {}
    BY <1>1, <2>1 DEF Replayed
  <2>2. CASE Fresh(q, j) # {}
    <3>1. /\ Latest(Fresh(q, j)) \in Fresh(q, j)
          /\ \A k \in Fresh(q, j) : k <= Latest(Fresh(q, j))
      BY <1>1, <1>2, <2>2, LatestIsGreatest
    <3>2. top = j[Latest(Fresh(q, j))].seq
      BY <2>2 DEF Replayed
    <3>3. j[Latest(Fresh(q, j))].seq > q.seq
      BY <3>1 DEF Fresh
    <3> QED
      BY <1>1, <1>2, <1>3, <3>1, <3>2, <3>3
  <2> QED
    BY <2>1, <2>2
<1>5. \A i \in DOMAIN j : ~j[i].torn => j[i].seq <= top
  <2> DEFINE Beyond == {i \in DOMAIN j : ~j[i].torn /\ j[i].seq > top}
  <2> HIDE DEF top
  <2>1. SUFFICES ASSUME Beyond # {} PROVE FALSE
    BY <1>1, <1>4
  <2>2. PICK i \in Beyond : \A k \in Beyond : i <= k
    <3> Beyond \in SUBSET Nat
      BY <1>1
    <3> HIDE DEF Beyond
    <3> QED
      BY <2>1, LeastNumber
  <2>3. i \in DOMAIN j /\ ~j[i].torn /\ j[i].seq > top
    BY <2>2
  <2>4. \A k \in 1..(i - 1) : j[k].seq < j[i].seq
    <3> TAKE k \in 1..(i - 1)
    <3>1. k \in DOMAIN j /\ k < i /\ k # Len(j)
      <4>1. i \in 1..Len(j) /\ Len(j) \in Nat /\ DOMAIN j = 1..Len(j)
        BY <1>1, <2>3
      <4>2. /\ i \in Nat /\ k \in Nat /\ Len(j) \in Nat
            /\ 1 <= k /\ k < i /\ i <= Len(j)
        BY <4>1
      <4>3. k \in 1..Len(j) /\ k # Len(j)
        BY <4>2
      <4> QED
        BY <4>1, <4>2, <4>3, Zenon
    <3>2. ~j[k].torn
      BY <3>1 DEF JournalReadable
    <3>3. k \notin Beyond
      BY <1>1, <2>2, <3>1
    <3> QED
      BY <1>1, <1>4, <2>3, <3>1, <3>2, <3>3
  <2>5. i \in Fresh(q, j)
    BY <1>1, <1>4, <2>3, <2>4 DEF Fresh
  <2> QED
    BY <1>1, <1>4, <2>3, <2>5
<1> QED
  BY <1>4, <1>5

(* What is read back is a queue with the same targets.                     *)
LEMMA ReplayedQueue ==
  ASSUME NEW q \in Queue, NEW j \in Seq(Record), JournalReadable(q, j)
  PROVE  /\ Replayed(q, j) \in Queue
         /\ Replayed(q, j).operation = q.operation
         /\ Targets(Replayed(q, j)) = Targets(q)
<1>1. /\ q.operation \in Scopes
      /\ q.status \in [Objects -> Status \cup {None}]
      /\ DOMAIN j = 1..Len(j) /\ Len(j) \in Nat
      /\ \A i \in DOMAIN j : j[i].status \in Status
  <2>1. q.operation \in Scopes /\ q.status \in [Objects -> Status \cup {None}]
    BY DEF Queue
  <2> QED
    BY <2>1, JournalTypes
<1>2. \A o \in Objects :
        /\ StatusAfter(q, j, o) \in Status \cup {None}
        /\ StatusAfter(q, j, o) = None <=> q.status[o] = None
  <2> TAKE o \in Objects
  <2> DEFINE updates == {i \in Fresh(q, j) : j[i].object = o}
  <2>1. CASE updates = {}
    BY <1>1, <2>1 DEF StatusAfter
  <2>2. CASE updates # {}
    <3>1. updates \in SUBSET (1..Len(j))
      BY <1>1 DEF Fresh
    <3>2. Latest(updates) \in updates
      <4> HIDE DEF updates
      <4> QED
        BY <1>1, <2>2, <3>1, LatestIsGreatest
    <3>3. Latest(updates) \in DOMAIN j /\ o \in Targets(q)
      BY <3>2 DEF Fresh, JournalReadable
    <3>4. StatusAfter(q, j, o) = j[Latest(updates)].status
      BY <2>2 DEF StatusAfter
    <3> QED
      BY <1>1, <3>3, <3>4, NoneAssumption DEF Targets
  <2> QED
    BY <2>1, <2>2
<1>3. Replayed(q, j).seq \in Nat
  BY FreshTop
<1>4. Replayed(q, j).status = [o \in Objects |-> StatusAfter(q, j, o)]
  BY DEF Replayed
<1>5. Replayed(q, j).status \in [Objects -> Status \cup {None}]
  <2>1. \A o \in Objects : StatusAfter(q, j, o) \in Status \cup {None}
    BY <1>2
  <2> QED
    BY <1>4, <2>1
<1>6. Targets(Replayed(q, j)) = Targets(q)
  BY <1>2, <1>4 DEF Targets
<1>7. Replayed(q, j) \in Queue /\ Replayed(q, j).operation = q.operation
  BY <1>1, <1>3, <1>4, <1>5 DEF Queue, Replayed
<1> QED
  BY <1>6, <1>7

(* A record that is not applied changes nothing of what is read back.      *)
LEMMA AppendIgnored ==
  ASSUME NEW q \in Queue, NEW j \in Seq(Record), NEW r \in Record,
         \A i \in DOMAIN j : ~j[i].torn,
         JournalReadable(q, j),
         r.torn \/ r.seq <= q.seq \/ \E k \in DOMAIN j : r.seq <= j[k].seq
  PROVE  /\ Fresh(q, Append(j, r)) = Fresh(q, j)
         /\ JournalReadable(q, Append(j, r))
         /\ \A o \in Objects : StatusAfter(q, Append(j, r), o) = StatusAfter(q, j, o)
<1> DEFINE a == Append(j, r)
<1>1. /\ DOMAIN a = DOMAIN j \cup {Len(j) + 1} /\ Len(a) = Len(j) + 1
      /\ \A i \in DOMAIN j : a[i] = j[i]
  OBVIOUS
<1>2. /\ q.seq \in Nat /\ r.seq \in Nat
      /\ \A k \in DOMAIN j : j[k].seq \in Nat
  BY JournalTypes DEF Queue, Record
<1>3. Fresh(q, a) = Fresh(q, j)
  <2>1. ~ (/\ ~r.torn
           /\ r.seq > q.seq
           /\ \A k \in DOMAIN j : j[k].seq < r.seq)
    BY <1>2
  <2>2. CASE r.torn
    BY <2>2, FreshAppend
  <2>3. CASE ~ (r.seq > q.seq)
    BY <2>3, FreshAppend
  <2>4. CASE ~ \A k \in DOMAIN j : j[k].seq < r.seq
    BY <2>4, FreshAppend
  <2> QED
    BY <2>1, <2>2, <2>3, <2>4
<1>4. Fresh(q, j) \subseteq DOMAIN j
  BY DEF Fresh
<1> HIDE DEF a
<1>5. JournalReadable(q, a)
  BY <1>1, <1>3, <1>4 DEF JournalReadable
<1>6. \A o \in Objects : StatusAfter(q, a, o) = StatusAfter(q, j, o)
  <2> TAKE o \in Objects
  <2>1. {i \in Fresh(q, a) : a[i].object = o} = {i \in Fresh(q, j) : j[i].object = o}
    BY <1>1, <1>3, <1>4
  <2>2. CASE {i \in Fresh(q, j) : j[i].object = o} = {}
    BY <2>1, <2>2 DEF StatusAfter
  <2>3. CASE {i \in Fresh(q, j) : j[i].object = o} # {}
    <3> DEFINE updates == {i \in Fresh(q, j) : j[i].object = o}
    <3>1. updates \in SUBSET (1..Len(j)) /\ Len(j) \in Nat /\ updates # {}
      BY <1>4, <2>3, JournalTypes
    <3>2. updates \subseteq DOMAIN j
      BY <1>4
    <3>3. Latest(updates) \in DOMAIN j
      <4> HIDE DEF updates
      <4> QED
        BY <3>1, <3>2, LatestIsGreatest
    <3> QED
      BY <1>1, <2>1, <2>3, <3>3 DEF StatusAfter
  <2> QED
    BY <2>2, <2>3
<1> QED
  BY <1>3, <1>5, <1>6 DEF a

(* The next record in sequence is applied: its object gets its status.     *)
LEMMA AppendApplied ==
  ASSUME NEW q \in Queue, NEW j \in Seq(Record), NEW r \in Record,
         \A i \in DOMAIN j : ~j[i].torn,
         JournalReadable(q, j),
         ~r.torn, r.object \in Targets(q),
         q.seq < r.seq,
         \A k \in DOMAIN j : j[k].seq < r.seq,
         r.seq = q.seq + 1 \/ \E i \in Fresh(q, j) : j[i].seq + 1 = r.seq
  PROVE  /\ Len(j) + 1 \in Fresh(q, Append(j, r))
         /\ JournalReadable(q, Append(j, r))
         /\ \A o \in Objects :
              StatusAfter(q, Append(j, r), o) =
                IF o = r.object THEN r.status ELSE StatusAfter(q, j, o)
<1> DEFINE a == Append(j, r)
           n == Len(j) + 1
<1>1. /\ DOMAIN a = DOMAIN j \cup {n} /\ n \notin DOMAIN j /\ Len(a) = n
      /\ n \in Nat /\ DOMAIN j = 1..(n - 1)
      /\ a[n] = r
      /\ \A i \in DOMAIN j : a[i] = j[i]
  OBVIOUS
<1>2. /\ q.seq \in Nat /\ r.seq \in Nat
      /\ \A k \in DOMAIN j : j[k].seq \in Nat
  BY JournalTypes DEF Queue, Record
<1>3. Fresh(q, a) = Fresh(q, j) \cup {n}
  BY <1>2, FreshAppend
<1>4. Fresh(q, j) \subseteq DOMAIN j
  BY DEF Fresh
<1> HIDE DEF a, n
<1>5. JournalReadable(q, a)
  <2>1. \A i \in DOMAIN a : ~a[i].torn
    BY <1>1
  <2>2. ASSUME NEW i \in Fresh(q, j)
        PROVE  /\ \/ a[i].seq = q.seq + 1
                  \/ \E k \in Fresh(q, a) : k < i /\ a[k].seq + 1 = a[i].seq
               /\ a[i].object \in Targets(q)
    BY <1>1, <1>3, <1>4 DEF JournalReadable
  <2>3. /\ \/ a[n].seq = q.seq + 1
           \/ \E k \in Fresh(q, a) : k < n /\ a[k].seq + 1 = a[n].seq
        /\ a[n].object \in Targets(q)
    BY <1>1, <1>3, <1>4
  <2> QED
    BY <1>3, <2>1, <2>2, <2>3 DEF JournalReadable
<1>6. ASSUME NEW o \in Objects
      PROVE  StatusAfter(q, a, o) =
               IF o = r.object THEN r.status ELSE StatusAfter(q, j, o)
  <2> DEFINE updates == {i \in Fresh(q, j) : j[i].object = o}
             later == {i \in Fresh(q, a) : a[i].object = o}
  <2>1. updates \subseteq DOMAIN j
    BY <1>4
  <2>2. CASE o = r.object
    <3>1. later = updates \cup {n}
      BY <1>1, <1>3, <1>4, <2>2
    <3>2. n \in later /\ \A k \in later : k <= n
      BY <1>1, <2>1, <3>1
    <3>3. \A i \in later : (\A k \in later : k <= i) => i = n
      BY <1>1, <2>1, <3>1
    <3>4. Latest(later) = n
      <4> HIDE DEF later
      <4> QED
        BY <3>2, <3>3 DEF Latest
    <3> QED
      BY <1>1, <2>2, <3>2, <3>4 DEF StatusAfter
  <2>3. CASE o # r.object
    <3>1. later = updates
      BY <1>1, <1>3, <1>4, <2>3
    <3>2. CASE updates = {}
      BY <2>3, <3>1, <3>2 DEF StatusAfter
    <3>3. CASE updates # {}
      <4>1. updates \in SUBSET (1..(n - 1)) /\ n - 1 \in Nat
        BY <1>1, <2>1, JournalTypes DEF n
      <4>2. Latest(updates) \in DOMAIN j
        <5> HIDE DEF updates
        <5> QED
          BY <2>1, <3>3, <4>1, LatestIsGreatest
      <4> QED
        BY <1>1, <2>3, <3>1, <3>3, <4>2 DEF StatusAfter
    <3> QED
      BY <3>2, <3>3
  <2> QED
    BY <2>2, <2>3
<1> QED
  BY <1>1, <1>3, <1>5, <1>6 DEF a, n

(* A queue document that is numbered above its journal is read back as it  *)
(* is; so is one without a journal.                                        *)
LEMMA NothingApplied ==
  ASSUME NEW q \in Queue, NEW j \in Seq(Record),
         \A i \in DOMAIN j : j[i].torn => i = Len(j),
         \A i \in DOMAIN j : ~j[i].torn => j[i].seq <= q.seq
  PROVE  /\ Fresh(q, j) = {}
         /\ JournalReadable(q, j)
         /\ \A o \in Objects : StatusAfter(q, j, o) = q.status[o]
<1>1. q.seq \in Nat /\ \A k \in DOMAIN j : j[k].seq \in Nat
  BY JournalTypes DEF Queue
<1>2. Fresh(q, j) = {}
  BY <1>1 DEF Fresh
<1> QED
  BY <1>2 DEF JournalReadable, StatusAfter

(* The next record in sequence keeps the journal intact and numbered.      *)
LEMMA AppendNext ==
  ASSUME NEW q \in Queue, NEW j \in Seq(Record), NEW r \in Record, NEW n \in Nat,
         \A i \in DOMAIN j : ~j[i].torn,
         JournalReadable(q, j),
         Numbered(q, j, n),
         ~r.torn, r.object \in Targets(q), r.seq = n + 1
  PROVE  /\ JournalReadable(q, Append(j, r))
         /\ \A o \in Objects :
              StatusAfter(q, Append(j, r), o) =
                IF o = r.object THEN r.status ELSE StatusAfter(q, j, o)
         /\ \A i \in DOMAIN Append(j, r) : ~Append(j, r)[i].torn
         /\ Numbered(q, Append(j, r), n + 1)
<1> DEFINE a == Append(j, r)
<1>1. /\ DOMAIN a = DOMAIN j \cup {Len(j) + 1}
      /\ a[Len(j) + 1] = r
      /\ \A i \in DOMAIN j : a[i] = j[i]
  OBVIOUS
<1>2. /\ q.seq \in Nat
      /\ \A k \in DOMAIN j : j[k].seq \in Nat
      /\ q.seq <= n
      /\ \A k \in DOMAIN j : j[k].seq <= n
      /\ n = q.seq \/ \E i \in Fresh(q, j) : j[i].seq = n
  BY JournalTypes DEF Queue, Numbered
<1>3. /\ q.seq < r.seq
      /\ \A k \in DOMAIN j : j[k].seq < r.seq
      /\ r.seq = q.seq + 1 \/ \E i \in Fresh(q, j) : j[i].seq + 1 = r.seq
  BY <1>2
<1>4. /\ Len(j) + 1 \in Fresh(q, a)
      /\ JournalReadable(q, a)
      /\ \A o \in Objects :
           StatusAfter(q, a, o) =
             IF o = r.object THEN r.status ELSE StatusAfter(q, j, o)
  BY <1>3, AppendApplied
<1> HIDE DEF a
<1>5. \A i \in DOMAIN a : ~a[i].torn
  BY <1>1
<1>6. Numbered(q, a, n + 1)
  <2>1. \A i \in DOMAIN a : a[i].seq <= n + 1
    BY <1>1, <1>2
  <2>2. \E i \in Fresh(q, a) : a[i].seq = n + 1
    BY <1>1, <1>4
  <2> QED
    BY <1>2, <2>1, <2>2 DEF Numbered
<1> QED
  BY <1>4, <1>5, <1>6 DEF a

(* A record that repeats the last number changes nothing.                  *)
LEMMA AppendAgain ==
  ASSUME NEW q \in Queue, NEW j \in Seq(Record), NEW r \in Record, NEW n \in Nat,
         \A i \in DOMAIN j : ~j[i].torn,
         JournalReadable(q, j),
         Numbered(q, j, n),
         ~r.torn, r.seq = n
  PROVE  /\ JournalReadable(q, Append(j, r))
         /\ \A o \in Objects : StatusAfter(q, Append(j, r), o) = StatusAfter(q, j, o)
         /\ \A i \in DOMAIN Append(j, r) : ~Append(j, r)[i].torn
         /\ Numbered(q, Append(j, r), n)
<1> DEFINE a == Append(j, r)
<1>1. /\ DOMAIN a = DOMAIN j \cup {Len(j) + 1}
      /\ a[Len(j) + 1] = r
      /\ \A i \in DOMAIN j : a[i] = j[i]
  OBVIOUS
<1>2. /\ q.seq \in Nat
      /\ q.seq <= n
      /\ \A k \in DOMAIN j : j[k].seq <= n
      /\ n = q.seq \/ \E i \in Fresh(q, j) : j[i].seq = n
      /\ Fresh(q, j) \subseteq DOMAIN j
  BY DEF Queue, Numbered, Fresh
<1>3. r.seq <= q.seq \/ \E k \in DOMAIN j : r.seq <= j[k].seq
  BY <1>2
<1>4. /\ Fresh(q, a) = Fresh(q, j)
      /\ JournalReadable(q, a)
      /\ \A o \in Objects : StatusAfter(q, a, o) = StatusAfter(q, j, o)
  BY <1>3, AppendIgnored
<1> HIDE DEF a
<1>5. \A i \in DOMAIN a : ~a[i].torn
  BY <1>1
<1>6. Numbered(q, a, n)
  <2>1. \A i \in DOMAIN a : a[i].seq <= n
    BY <1>1, <1>2
  <2>2. n = q.seq \/ \E i \in Fresh(q, a) : a[i].seq = n
    BY <1>1, <1>2, <1>4
  <2> QED
    BY <1>2, <2>1, <2>2 DEF Numbered
<1> QED
  BY <1>4, <1>5, <1>6 DEF a
----------------------------------------------------------------------------
(* Types.                                                                  *)

(* The targets and the objects with some statuses can be counted.          *)
LEMMA Counts ==
  ASSUME NEW q, NEW S
  PROVE  /\ Cardinality(Targets(q)) \in Nat
         /\ Cardinality(WithStatus(q, S)) \in Nat
<1>1. Targets(q) \subseteq Objects /\ WithStatus(q, S) \subseteq Objects
  BY DEF Targets, WithStatus
<1> QED
  BY <1>1, ObjectsAssumption, FS_Subset, FS_CardinalityType

(* The order is one of objects.                                            *)
LEMMA OrderTypes ==
  /\ Len(Order) \in Nat
  /\ DOMAIN Order = 1..Len(Order)
  /\ \A i \in DOMAIN Order : Order[i] \in Objects
BY ObjectsAssumption

(* A queue in memory.                                                      *)
LEMMA MemoryTypes ==
  ASSUME TypeOK, mem # None
  PROVE  /\ mem \in Queue
         /\ mem.operation \in Scopes
         /\ mem.status \in [Objects -> Status \cup {None}]
         /\ mem.seq \in Nat
<1>1. mem \in Queue
  BY DEF TypeOK
<1> QED
  BY <1>1 DEF Queue

(* The record of the current object.                                       *)
LEMMA CurrentTypes ==
  ASSUME TypeOK, PhaseInv,
         pc \in {"journal", "request"} \/ (pc = "checkpoint" /\ task \in Records)
  PROVE  /\ mem \in Queue
         /\ mem.status \in [Objects -> Status \cup {None}]
         /\ mem.seq \in Nat
         /\ position \in DOMAIN Order
         /\ Current \in Objects
         /\ mem.status[Current] \in Status
         /\ \A torn \in BOOLEAN : CurrentRecord(torn) \in Record
<1>1. mem # None /\ position \in DOMAIN Order /\ mem.status[Current] # None
  BY DEF PhaseInv
<1>2. Current \in Objects
  BY <1>1, OrderTypes DEF Current
<1>3. mem.status[Current] \in Status
  BY <1>1, <1>2, MemoryTypes
<1>4. \A torn \in BOOLEAN : CurrentRecord(torn) \in Record
  BY <1>1, <1>2, <1>3, MemoryTypes DEF CurrentRecord, Record, Current
<1> QED
  BY <1>1, <1>2, <1>3, <1>4, MemoryTypes

(* The initial states.                                                     *)
LEMMA InitialState == Init => IInv
<1> SUFFICES ASSUME Init PROVE IInv
  OBVIOUS
<1> USE DEF Init
<1>1. TypeOK
  <2>1. library \subseteq Objects /\ gone \subseteq Objects
    OBVIOUS
  <2>2. journal \in Seq(Record) /\ position \in 1..(Len(Order) + 1)
    BY OrderTypes
  <2>3. used \in [Bounds -> Nat]
    OBVIOUS
  <2> QED
    BY <2>1, <2>2, <2>3 DEF TypeOK, Steps, Tasks
<1>2. PhaseInv
  BY DEF PhaseInv, Records
<1>3. FilesInv
  BY DEF FilesInv, FilesAgree
<1>4. ResumeInv
  BY DEF ResumeInv, Resuming
<1>5. WorkInv
  BY DEF WorkInv, QueueInv, CurrentInv, CheckpointInv, ReplacedInv, Working,
         Checkpointed, InLoop
<1> QED
  BY <1>1, <1>2, <1>3, <1>4, <1>5 DEF IInv

(* Reconciling a queue and resetting its failures keeps its targets and    *)
(* what has been settled.                                                  *)
LEMMA ReconciledStatus ==
  ASSUME NEW q \in Queue
  PROVE  LET status == Reset(Reconciled(q))
         IN /\ status \in [Objects -> Status \cup {None}]
            /\ \A o \in Objects :
                 /\ status[o] = None <=> q.status[o] = None
                 /\ q.status[o] \in Settled => status[o] = q.status[o]
<1> DEFINE middle == Reconciled(q)
           status == Reset(middle)
<1>1. q.status \in [Objects -> Status \cup {None}]
  BY DEF Queue
<1>2. /\ middle \in [Objects -> Status \cup {None}]
      /\ \A o \in Objects :
           /\ middle[o] = None <=> q.status[o] = None
           /\ q.status[o] \in Settled => middle[o] = q.status[o]
  BY <1>1, NoneAssumption
     DEF Reconciled, InFlight, WithStatus, Status, Settled, Removed
<1> HIDE DEF middle
<1>3. /\ status \in [Objects -> Status \cup {None}]
      /\ \A o \in Objects :
           /\ status[o] = None <=> middle[o] = None
           /\ middle[o] \in Settled => status[o] = middle[o]
  BY <1>2, NoneAssumption DEF Reset, Status, Settled, Removed
<1> HIDE DEF status
<1>4. /\ status \in [Objects -> Status \cup {None}]
      /\ \A o \in Objects :
           /\ status[o] = None <=> q.status[o] = None
           /\ q.status[o] \in Settled => status[o] = q.status[o]
  BY <1>2, <1>3
<1> QED
  BY <1>4 DEF status, middle

(* A record added to a journal makes a journal.                            *)
LEMMA AppendTyped ==
  ASSUME NEW j \in Seq(Record), NEW r \in Record
  PROVE  Append(j, r) \in Seq(Record)
OBVIOUS

(* A counter of used bounds stays one.                                     *)
LEMMA SpendTypes ==
  ASSUME TypeOK, NEW b \in Bounds, NEW limit, Spend(b, limit)
  PROVE  used' \in [Bounds -> Nat]
BY DEF TypeOK, Spend

(* What a stop leaves behind.                                              *)
LEMMA LoseTypes ==
  ASSUME TypeOK, PhaseInv, Lose
  PROVE  /\ used' \in [Bounds -> Nat]
         /\ journal' \in Seq(Record)
         /\ unsure' \subseteq Objects
<1>1. used' \in [Bounds -> Nat]
  BY SpendTypes DEF Lose, Bounds
<1>2. journal' \in Seq(Record)
  <2>1. CASE journal' = journal
    BY <2>1 DEF TypeOK
  <2>2. CASE journal' # journal
    <3>1. pc = "journal" /\ journal' = Append(journal, CurrentRecord(TRUE))
      BY <2>2 DEF Lose
    <3>2. CurrentRecord(TRUE) \in Record
      BY <3>1, CurrentTypes
    <3> QED
      BY <3>1, <3>2, AppendTyped DEF TypeOK
  <2> QED
    BY <2>1, <2>2
<1>3. unsure' \subseteq Objects
  <2>1. CASE pc = "journal" /\ task = "outcome"
    BY <2>1, CurrentTypes DEF Lose, TypeOK, Current
  <2>2. CASE ~ (pc = "journal" /\ task = "outcome")
    BY <2>2 DEF Lose, TypeOK
  <2> QED
    BY <2>1, <2>2
<1> QED
  BY <1>1, <1>2, <1>3

(* Every step keeps the types.                                             *)
LEMMA TypeStep ==
  ASSUME TypeOK, PhaseInv, Next
  PROVE  TypeOK'
<1> USE DEF Steps, Tasks
<1>1. CASE ReplaceQueue
  <2>1. mem # None
    BY <1>1 DEF ReplaceQueue, PhaseInv
  <2>2. mem \in Queue /\ mem.status \in [Objects -> Status \cup {None}]
    BY <2>1, MemoryTypes
  <2> QED
    BY <1>1, <2>2 DEF ReplaceQueue, TypeOK
<1>2. CASE UnlinkJournal
  BY <1>2 DEF UnlinkJournal, TypeOK, history
<1>3. CASE AppendRecord
  <2>1. /\ mem \in Queue /\ mem.seq \in Nat
        /\ mem.status[Current] \in Status /\ Current \in Objects
        /\ CurrentRecord(FALSE) \in Record
    BY <1>3, CurrentTypes DEF AppendRecord
  <2>2. journal' \in Seq(Record)
    BY <1>3, <2>1, AppendTyped DEF AppendRecord, TypeOK
  <2>3. mem' \in Queue
    BY <1>3, <2>1 DEF AppendRecord, Queue
  <2>4. recorded' \in [Objects -> Status \cup {None}]
    BY <1>3, <2>1 DEF AppendRecord, TypeOK, Current
  <2> QED
    BY <1>3, <2>2, <2>3, <2>4 DEF AppendRecord, TypeOK
<1>4. CASE SaveState
  <2>1. mem # None
    BY <1>4 DEF SaveState, PhaseInv
  <2>2. stateDoc' \in Checkpoint
    <3>1. mem.operation \in Scopes
      BY <2>1, MemoryTypes
    <3>2. Refreshed \in Checkpoint
      BY <3>1, Counts DEF Refreshed, Checkpoint, FailedCount
    <3> QED
      BY <1>4, <3>2 DEF SaveState
  <2>3. AfterCheckpoint \in Steps
    BY DEF AfterCheckpoint
  <2>4. position' \in 1..(Len(Order) + 1)
    <3>1. CASE task = "outcome"
      <4>1. position \in DOMAIN Order
        BY <1>4, <3>1 DEF SaveState, PhaseInv, Records
      <4> QED
        BY <1>4, <3>1, <4>1, OrderTypes DEF SaveState
    <3>2. CASE task # "outcome"
      BY <1>4, <3>2 DEF SaveState, TypeOK
    <3> QED
      BY <3>1, <3>2
  <2>5. overlapped' \in BOOLEAN /\ mem' \in Queue \cup {None} /\ pc' \in Steps
    BY <1>4, <2>3 DEF SaveState, TypeOK
  <2> QED
    BY <1>4, <2>2, <2>4, <2>5 DEF SaveState, TypeOK
<1>5. CASE ClearState \/ ClearQueue \/ ClearJournal
  <2>1. CASE ClearState \/ ClearQueue
    BY <2>1 DEF ClearState, ClearQueue, TypeOK, history
  <2>2. CASE ClearJournal
    BY <2>2 DEF ClearJournal, ToMenu, TypeOK, history
  <2> QED
    BY <1>5, <2>1, <2>2
<1>6. CASE Skip
  <2>1. position' \in 1..(Len(Order) + 1)
    BY <1>6, OrderTypes DEF Skip, TypeOK
  <2> QED
    BY <1>6, <2>1 DEF Skip, TypeOK, history, files
<1>7. CASE Begin
  <2>1. mem # None
    BY <1>7 DEF Begin, PhaseInv
  <2>2. mem' \in Queue
    BY <1>7, <2>1, MemoryTypes DEF Begin, Queue, Status
  <2> QED
    BY <1>7, <2>2 DEF Begin, TypeOK, history, files
<1>8. CASE Finish
  BY <1>8 DEF Finish, TypeOK, history, files
<1>9. CASE \E status \in Reports : Request(status)
  <2>1. PICK status \in Reports : Request(status)
    BY <1>9
  <2>2. mem \in Queue /\ Current \in Objects
    BY <2>1, CurrentTypes DEF Request
  <2>3. status \in Status
    BY DEF Reports, Removed, Failed, Status
  <2>4. mem' \in Queue
    BY <2>1, <2>2, <2>3 DEF Request, Queue, Current
  <2>5. library' \subseteq Objects /\ gone' \subseteq Objects /\ unsure' \subseteq Objects
    BY <2>1, <2>2 DEF Request, TypeOK, Current
  <2> QED
    BY <2>1, <2>4, <2>5 DEF Request, TypeOK, files
<1>10. CASE Start \/ Exit \/ Confirm \/ Decline
  <2>1. 1 \in 1..(Len(Order) + 1)
    BY OrderTypes
  <2> QED
    BY <1>10, <2>1 DEF Start, Exit, Confirm, Decline, ToMenu, TypeOK, history, files
<1>11. CASE Accept
  <2>1. JournalReadable(queueDoc, journal) /\ queueDoc \in Queue
    BY <1>11 DEF Accept, PhaseInv, Loadable, TypeOK
  <2>2. mem' \in Queue
    BY <1>11, <2>1, ReplayedQueue DEF Accept, TypeOK
  <2>3. used' \in [Bounds -> Nat]
    BY <1>11, SpendTypes DEF Accept, TypeOK, Bounds
  <2>4. 1 \in 1..(Len(Order) + 1)
    BY OrderTypes
  <2> QED
    BY <1>11, <2>2, <2>3, <2>4 DEF Accept, TypeOK, history, files
<1>12. CASE \E s \in Scopes : Estimate(s)
  <2>1. PICK s \in Scopes : Estimate(s)
    BY <1>12
  <2>2. mem' \in Queue
    BY <2>1 DEF Estimate, Planned, Queue, Status
  <2>3. used' \in [Bounds -> Nat]
    BY <2>1, SpendTypes DEF Estimate, Bounds
  <2> QED
    BY <2>1, <2>2, <2>3 DEF Estimate, TypeOK, history, files
<1>13. CASE Reconcile
  <2>1. mem # None
    BY <1>13 DEF Reconcile, PhaseInv
  <2>2. mem \in Queue
    BY <2>1, MemoryTypes
  <2>3. mem' \in Queue
    BY <1>13, <2>2, ReconciledStatus DEF Reconcile, Queue
  <2>4. unsure' \subseteq Objects
    BY <1>13 DEF Reconcile, TypeOK
  <2> QED
    BY <1>13, <2>3, <2>4 DEF Reconcile, TypeOK, files
<1>14. CASE ReconcileFails
  BY <1>14 DEF ReconcileFails, ToMenu, TypeOK, history, files
<1>15. CASE Crash \/ WriteFails
  <2>1. Lose /\ pc' \in {"down", "menu"}
    BY <1>15 DEF Crash, WriteFails
  <2> QED
    BY <2>1, LoseTypes DEF Lose, TypeOK
<1>16. CASE Interrupt
  <2>1. /\ mem.status[Current] \in Status /\ Current \in Objects
        /\ CurrentRecord(FALSE) \in Record
    BY <1>16, CurrentTypes DEF Interrupt, Records
  <2>2. journal' \in Seq(Record)
    <3>1. journal' = journal \/ journal' = Append(journal, CurrentRecord(FALSE))
      BY <1>16 DEF Interrupt
    <3> QED
      BY <2>1, <3>1, AppendTyped DEF TypeOK
  <2>3. recorded' \in [Objects -> Status \cup {None}]
    <3>1. CASE recorded' = recorded
      BY <3>1 DEF TypeOK
    <3>2. CASE recorded' = [recorded EXCEPT ![Current] = mem.status[Current]]
      BY <3>2, <2>1 DEF TypeOK
    <3> QED
      BY <1>16, <3>1, <3>2 DEF Interrupt, Current
  <2>4. library' \subseteq Objects /\ gone' \subseteq Objects /\ unsure' \subseteq Objects
    BY <1>16, <2>1 DEF Interrupt, TypeOK, Current
  <2>5. used' \in [Bounds -> Nat]
    BY <1>16, SpendTypes DEF Interrupt, Bounds
  <2> QED
    BY <1>16, <2>2, <2>3, <2>4, <2>5 DEF Interrupt, TypeOK
<1>17. CASE \E o \in Objects : OthersChange(o)
  <2>1. PICK o \in Objects : OthersChange(o)
    BY <1>17
  <2>2. library' \subseteq Objects /\ gone' \subseteq Objects
    BY <2>1 DEF OthersChange, TypeOK
  <2>3. used' \in [Bounds -> Nat]
    BY <2>1, SpendTypes DEF OthersChange, Bounds
  <2> QED
    BY <2>1, <2>2, <2>3 DEF OthersChange, TypeOK, files, process
<1> QED
  BY <1>1, <1>2, <1>3, <1>4, <1>5, <1>6, <1>7, <1>8, <1>9, <1>10, <1>11,
     <1>12, <1>13, <1>14, <1>15, <1>16, <1>17
     DEF Next, Step, User, Environment
----------------------------------------------------------------------------
(* Where the process is.                                                   *)
LEMMA PhaseStep ==
  ASSUME TypeOK, PhaseInv, Next
  PROVE  PhaseInv'
<1> USE DEF Records
<1>1. CASE ReplaceQueue \/ UnlinkJournal
  BY <1>1 DEF ReplaceQueue, UnlinkJournal, PhaseInv
<1>2. CASE AppendRecord
  <2>1. /\ mem \in Queue
        /\ mem' = [mem EXCEPT !.seq = @ + 1]
        /\ task \in Records /\ position \in DOMAIN Order /\ mem.status[Current] # None
    BY <1>2, CurrentTypes, NoneAssumption DEF AppendRecord, PhaseInv
  <2>2. mem'.status = mem.status
    BY <2>1 DEF Queue
  <2>3. mem' # None
    BY <2>1, MemoryTypes, NoneAssumption DEF Queue
  <2>4. Current' = Current
    BY <1>2 DEF AppendRecord, Current
  <2> QED
    BY <1>2, <2>1, <2>2, <2>3, <2>4 DEF AppendRecord, PhaseInv
<1>3. CASE SaveState
  <2>1. mem # None
    BY <1>3 DEF SaveState, PhaseInv
  <2>2. CASE task = "start"
    <3>1. pc' = "request" /\ mem' = mem /\ position' = position /\ task' = "start"
      BY <1>3, <2>2 DEF SaveState, AfterCheckpoint
    <3>2. Current' = Current
      BY <3>1 DEF Current
    <3> QED
      BY <1>3, <2>1, <2>2, <3>1, <3>2 DEF SaveState, PhaseInv
  <2>3. CASE task # "start"
    <3>1. /\ pc' \in {"down", "menu", "clear_state", "next"}
          /\ pc' \in {"clear_state", "next"} => mem' = mem
      BY <1>3, <2>3 DEF SaveState, AfterCheckpoint
    <3> QED
      BY <2>1, <3>1 DEF PhaseInv
  <2> QED
    BY <2>2, <2>3
<1>4. CASE ClearState \/ ClearQueue \/ ClearJournal
  BY <1>4 DEF ClearState, ClearQueue, ClearJournal, ToMenu, PhaseInv
<1>5. CASE Skip
  BY <1>5 DEF Skip, PhaseInv
<1>6. CASE Begin
  <2>1. mem # None /\ position \in DOMAIN Order
    BY <1>6, OrderTypes DEF Begin, PhaseInv, TypeOK
  <2>2. mem \in Queue /\ Current \in Objects
    BY <2>1, MemoryTypes, OrderTypes DEF Current
  <2>3. mem'.status[Current] = "processing" /\ mem' # None
    <3>1. mem' = [mem EXCEPT !.status[Current] = "processing"]
      BY <1>6 DEF Begin, Current
    <3>2. mem' \in Queue
      BY <3>1, <2>2, MemoryTypes DEF Queue, Status
    <3> QED
      BY <2>2, <3>1, <3>2, NoneAssumption DEF Queue
  <2>4. Current' = Current /\ position' = position
    BY <1>6 DEF Begin, Current
  <2>5. "processing" # None
    BY NoneAssumption DEF Status
  <2> QED
    BY <1>6, <2>1, <2>3, <2>4, <2>5 DEF Begin, PhaseInv
<1>7. CASE Finish
  BY <1>7 DEF Finish, PhaseInv
<1>8. CASE \E status \in Reports : Request(status)
  <2>1. PICK status \in Reports : Request(status)
    BY <1>8
  <2>2. mem \in Queue /\ Current \in Objects /\ position \in DOMAIN Order
    BY <2>1, CurrentTypes DEF Request
  <2>3. status \in Status /\ status # None
    BY NoneAssumption DEF Reports, Removed, Failed, Status
  <2>4. mem'.status[Current] = status /\ mem' # None
    <3>1. mem' = [mem EXCEPT !.status[Current] = status]
      BY <2>1 DEF Request, Current
    <3>2. mem' \in Queue
      BY <3>1, <2>2, <2>3 DEF Queue
    <3> QED
      BY <2>2, <3>1, <3>2, NoneAssumption DEF Queue
  <2>5. Current' = Current /\ position' = position
    BY <2>1 DEF Request, Current
  <2> QED
    BY <2>1, <2>2, <2>3, <2>4, <2>5 DEF Request, PhaseInv
<1>9. CASE Start
  <2>1. pc' = "offered" => Loadable'
    BY <1>9 DEF Start, files, Loadable
  <2> QED
    BY <1>9, <2>1 DEF Start, PhaseInv
<1>10. CASE Exit \/ Confirm \/ Decline
  BY <1>10 DEF Exit, Confirm, Decline, ToMenu, PhaseInv
<1>11. CASE Accept
  <2>1. mem' # None
    <3>1. JournalReadable(queueDoc, journal) /\ queueDoc \in Queue
      BY <1>11 DEF Accept, PhaseInv, Loadable, TypeOK
    <3> QED
      BY <1>11, <3>1, ReplayedQueue, NoneAssumption DEF Accept, TypeOK
  <2> QED
    BY <1>11, <2>1 DEF Accept, PhaseInv
<1>12. CASE \E s \in Scopes : Estimate(s)
  <2>1. PICK s \in Scopes : Estimate(s)
    BY <1>12
  <2>2. \A o \in Objects : mem'.status[o] \in {"pending", None}
    BY <2>1 DEF Estimate, Planned
  <2>3. mem' # None
    <3>1. mem' \in Queue
      BY <2>1 DEF Estimate, Planned, Queue, Status
    <3> QED
      BY <3>1, NoneAssumption
  <2> QED
    BY <2>1, <2>2, <2>3 DEF Estimate, PhaseInv
<1>13. CASE Reconcile
  <2>1. mem # None
    BY <1>13 DEF Reconcile, PhaseInv
  <2>2. mem' \in Queue
    BY <1>13, <2>1, MemoryTypes, ReconciledStatus DEF Reconcile, Queue
  <2> QED
    BY <1>13, <2>2, NoneAssumption DEF Reconcile, PhaseInv
<1>14. CASE ReconcileFails
  BY <1>14 DEF ReconcileFails, ToMenu, PhaseInv
<1>15. CASE Crash \/ WriteFails
  BY <1>15 DEF Crash, WriteFails, PhaseInv
<1>16. CASE Interrupt
  <2>1. /\ mem # None /\ position \in DOMAIN Order /\ mem.status[Current] # None
        /\ mem' = mem /\ position' = position
        /\ pc' = "journal" /\ task' = "interrupt"
    BY <1>16 DEF Interrupt, PhaseInv
  <2>2. Current' = Current
    BY <2>1 DEF Current
  <2> QED
    BY <2>1, <2>2 DEF PhaseInv
<1>17. CASE \E o \in Objects : OthersChange(o)
  <2>1. UNCHANGED <<pc, task, mem, position, queueDoc, journal, stateDoc>>
    BY <1>17 DEF OthersChange, files, process
  <2>2. Loadable' <=> Loadable
    BY <2>1 DEF Loadable
  <2>3. Current' = Current
    BY <2>1 DEF Current
  <2> QED
    BY <2>1, <2>2, <2>3 DEF PhaseInv
<1> QED
  BY <1>1, <1>2, <1>3, <1>4, <1>5, <1>6, <1>7, <1>8, <1>9, <1>10, <1>11,
     <1>12, <1>13, <1>14, <1>15, <1>16, <1>17
     DEF Next, Step, User, Environment
----------------------------------------------------------------------------
(* The files.                                                              *)

(* The statuses read back, object by object.                               *)
LEMMA StatusesRead ==
  ASSUME NEW q, NEW j, NEW status \in [Objects -> Status \cup {None}]
  PROVE  (Replayed(q, j).status = status)
           <=> (\A o \in Objects : StatusAfter(q, j, o) = status[o])
BY DEF Replayed

(* What is left of a cleanup that is stopped: a torn record is not read.   *)
LEMMA FilesAfterStop ==
  ASSUME IInv, Lose
  PROVE  FilesInv'
<1>1. UNCHANGED <<queueDoc, stateDoc, recorded, overlapped>>
  BY DEF Lose
<1>2. CASE journal' = journal
  <2>1. (ReadsBack' <=> ReadsBack) /\ (FilesAgree' <=> FilesAgree)
        /\ (NothingSettled' <=> NothingSettled)
    BY <1>1, <1>2 DEF ReadsBack, FilesAgree, Loadable, NothingSettled
  <2> QED
    BY <1>1, <2>1 DEF IInv, FilesInv
<1>3. CASE journal' # journal
  <2>1. pc = "journal" /\ journal' = Append(journal, CurrentRecord(TRUE))
    BY <1>3 DEF Lose
  <2>2. /\ queueDoc \in Queue
        /\ journal \in Seq(Record)
        /\ JournalReadable(queueDoc, journal)
        /\ Replayed(queueDoc, journal).status = recorded
        /\ \A i \in DOMAIN journal : ~journal[i].torn
    BY <2>1 DEF IInv, TypeOK, WorkInv, QueueInv, Working, InLoop, ReadsBack
  <2>3. CurrentRecord(TRUE) \in Record /\ CurrentRecord(TRUE).torn
    BY <2>1, CurrentTypes DEF IInv, CurrentRecord
  <2>4. /\ JournalReadable(queueDoc, journal')
        /\ \A o \in Objects :
             StatusAfter(queueDoc, journal', o) = StatusAfter(queueDoc, journal, o)
    BY <2>1, <2>2, <2>3, AppendIgnored
  <2>5. recorded \in [Objects -> Status \cup {None}]
    BY DEF IInv, TypeOK
  <2>6. Replayed(queueDoc, journal').status = recorded
    BY <2>2, <2>4, <2>5, StatusesRead
  <2>7. ReadsBack'
    BY <1>1, <2>4, <2>6 DEF ReadsBack
  <2>8. FilesAgree'
    BY <1>1, <2>4 DEF IInv, FilesInv, FilesAgree, Loadable
  <2> QED
    BY <2>7, <2>8 DEF FilesInv
<1> QED
  BY <1>2, <1>3

(* The record of the current object: the files then hold what is in        *)
(* memory, whether it is written for the first time or once more.          *)
LEMMA FilesAfterRecord ==
  ASSUME IInv, pc = "journal",
         journal' = Append(journal, CurrentRecord(FALSE)),
         recorded' = [recorded EXCEPT ![Current] = mem.status[Current]],
         UNCHANGED <<queueDoc, stateDoc, overlapped>>
  PROVE  /\ ReadsBack'
         /\ FilesInv'
         /\ \A i \in DOMAIN journal' : ~journal'[i].torn
         /\ recorded' = mem.status
         /\ Numbered(queueDoc, journal', mem.seq + 1)
<1>1. /\ queueDoc \in Queue
      /\ journal \in Seq(Record)
      /\ JournalReadable(queueDoc, journal)
      /\ Replayed(queueDoc, journal).status = recorded
      /\ Targets(mem) = Targets(queueDoc)
      /\ \A i \in DOMAIN journal : ~journal[i].torn
      /\ \A o \in Objects : recorded[o] = mem.status[o] \/ o = Current
      /\ \/ Numbered(queueDoc, journal, mem.seq)
         \/ Numbered(queueDoc, journal, mem.seq + 1) /\ recorded = mem.status
  BY DEF IInv, TypeOK, WorkInv, QueueInv, Working, InLoop, ReadsBack
<1>2. /\ mem.status \in [Objects -> Status \cup {None}]
      /\ recorded \in [Objects -> Status \cup {None}]
      /\ mem.seq \in Nat
      /\ Current \in Objects
      /\ mem.status[Current] \in Status
      /\ CurrentRecord(FALSE) \in Record
  BY CurrentTypes DEF IInv, TypeOK
<1>3. /\ ~CurrentRecord(FALSE).torn
      /\ CurrentRecord(FALSE).object = Current
      /\ CurrentRecord(FALSE).status = mem.status[Current]
      /\ CurrentRecord(FALSE).seq = mem.seq + 1
  BY DEF CurrentRecord, Current
<1>4. recorded' = mem.status
  BY <1>1, <1>2
<1>5. \A o \in Objects : StatusAfter(queueDoc, journal, o) = recorded[o]
  BY <1>1, <1>2, StatusesRead
<1>6. /\ JournalReadable(queueDoc, journal')
      /\ \A o \in Objects : StatusAfter(queueDoc, journal', o) = mem.status[o]
      /\ \A i \in DOMAIN journal' : ~journal'[i].torn
      /\ Numbered(queueDoc, journal', mem.seq + 1)
  <2>1. CASE Numbered(queueDoc, journal, mem.seq)
    <3>1. Current \in Targets(queueDoc)
      BY <1>1, <1>2, NoneAssumption DEF Targets
    <3>2. /\ JournalReadable(queueDoc, journal')
          /\ \A o \in Objects :
               StatusAfter(queueDoc, journal', o) =
                 IF o = Current THEN mem.status[Current]
                 ELSE StatusAfter(queueDoc, journal, o)
          /\ \A i \in DOMAIN journal' : ~journal'[i].torn
          /\ Numbered(queueDoc, journal', mem.seq + 1)
      BY <1>1, <1>2, <1>3, <2>1, <3>1, AppendNext
    <3> QED
      BY <1>1, <1>5, <3>2
  <2>2. CASE Numbered(queueDoc, journal, mem.seq + 1) /\ recorded = mem.status
    <3>1. mem.seq + 1 \in Nat
      BY <1>2
    <3>2. /\ JournalReadable(queueDoc, journal')
          /\ \A o \in Objects :
               StatusAfter(queueDoc, journal', o) = StatusAfter(queueDoc, journal, o)
          /\ \A i \in DOMAIN journal' : ~journal'[i].torn
          /\ Numbered(queueDoc, journal', mem.seq + 1)
      BY <1>1, <1>2, <1>3, <2>2, <3>1, AppendAgain
    <3> QED
      BY <1>5, <2>2, <3>2
  <2> QED
    BY <1>1, <2>1, <2>2
<1>7. Replayed(queueDoc, journal').status = mem.status
  <2>1. /\ mem.status \in [Objects -> Status \cup {None}]
        /\ \A o \in Objects : StatusAfter(queueDoc, journal', o) = mem.status[o]
    BY <1>2, <1>6
  <2> QED
    BY ONLY <2>1, StatusesRead
<1>8. ReadsBack'
  BY <1>4, <1>6, <1>7 DEF ReadsBack
<1>9. FilesAgree'
  BY <1>6 DEF IInv, FilesInv, FilesAgree, Loadable
<1> QED
  BY <1>4, <1>6, <1>8, <1>9 DEF FilesInv

(* A queue document that replaces the one before, with its journal still   *)
(* there: only the queue of another cleanup is affected by it, and says so.*)
LEMMA FilesAfterReplacement ==
  ASSUME IInv, ReplaceQueue
  PROVE  FilesInv'
<1>1. /\ mem \in Queue /\ mem # None
      /\ mem.status \in [Objects -> Status \cup {None}]
      /\ mem.seq \in Nat
      /\ journal \in Seq(Record)
      /\ task \in {"execute", "resume", "finish"}
  BY MemoryTypes DEF ReplaceQueue, IInv, PhaseInv, TypeOK
<1>2. /\ pc = "replace" /\ queueDoc' = mem /\ recorded' = mem.status
      /\ UNCHANGED <<journal, stateDoc>>
  BY DEF ReplaceQueue
<1>3. ASSUME \A i \in DOMAIN journal : journal[i].torn => i = Len(journal),
             \A i \in DOMAIN journal : ~journal[i].torn => journal[i].seq <= mem.seq
      PROVE  ReadsBack' /\ JournalReadable(queueDoc', journal')
  <2>1. /\ JournalReadable(mem, journal)
        /\ \A o \in Objects : StatusAfter(mem, journal, o) = mem.status[o]
    BY <1>1, <1>3, NothingApplied
  <2>2. Replayed(mem, journal).status = mem.status
    BY <1>1, <2>1, StatusesRead
  <2> QED
    BY <1>2, <2>1, <2>2 DEF ReadsBack
<1>4. CASE task = "execute"
  <2>1. overlapped' = (journal # <<>> \/ stateDoc # None)
    BY <1>4 DEF ReplaceQueue
  <2>2. NothingSettled'
    <3>1. \A o \in Objects : mem.status[o] \in {"pending", None}
      BY <1>2, <1>4 DEF IInv, PhaseInv
    <3> QED
      BY <1>2, <3>1, NoneAssumption DEF NothingSettled, Settled, Removed, Status
  <2>3. CASE journal = <<>>
    <3>1. ReadsBack'
      BY <1>3, <2>3
    <3> QED
      BY <1>2, <2>1, <3>1 DEF FilesInv, FilesAgree
  <2>4. CASE journal # <<>>
    BY <2>1, <2>2, <2>4 DEF FilesInv, FilesAgree
  <2> QED
    BY <2>3, <2>4
<1>5. CASE task = "resume"
  <2>1. /\ Loadable
        /\ mem.operation = queueDoc.operation
        /\ Targets(mem) = Targets(queueDoc)
        /\ \A i \in DOMAIN journal : ~journal[i].torn => journal[i].seq <= mem.seq
    BY <1>2, <1>5 DEF IInv, ResumeInv, Resuming
  <2>2. \A i \in DOMAIN journal : journal[i].torn => i = Len(journal)
    BY <2>1 DEF Loadable, JournalReadable
  <2>3. ReadsBack' /\ JournalReadable(queueDoc', journal')
    BY <1>3, <2>1, <2>2
  <2>4. FilesAgree'
    BY <1>2, <2>1, <2>3 DEF FilesAgree, Loadable
  <2> QED
    BY <2>3, <2>4 DEF FilesInv
<1>6. CASE task = "finish"
  <2>1. /\ \A i \in DOMAIN journal : ~journal[i].torn
        /\ Numbered(queueDoc, journal, mem.seq)
        /\ stateDoc # None
        /\ stateDoc.operation = mem.operation
        /\ stateDoc.total = Cardinality(Targets(mem))
    BY <1>2, <1>6
       DEF IInv, WorkInv, QueueInv, Working, CheckpointInv, Checkpointed
  <2>2. ReadsBack' /\ JournalReadable(queueDoc', journal')
    BY <1>3, <2>1 DEF Numbered
  <2>3. FilesAgree'
    BY <1>1, <1>2, <2>1, <2>2 DEF FilesAgree, Loadable
  <2> QED
    BY <2>2, <2>3 DEF FilesInv
<1> QED
  BY <1>1, <1>4, <1>5, <1>6

(* The journal is gone.                                                    *)
LEMMA FilesAfterCompaction ==
  ASSUME IInv, UnlinkJournal
  PROVE  /\ ReadsBack'
         /\ FilesInv'
         /\ Numbered(queueDoc, journal', mem.seq)
<1>1. /\ mem \in Queue
      /\ mem.status \in [Objects -> Status \cup {None}]
      /\ mem.seq \in Nat
      /\ queueDoc = mem /\ recorded = mem.status
      /\ journal' = <<>>
      /\ UNCHANGED <<queueDoc, stateDoc, mem, recorded, overlapped>>
  BY MemoryTypes
     DEF UnlinkJournal, IInv, PhaseInv, WorkInv, ReplacedInv, history
<1>2. journal' \in Seq(Record) /\ DOMAIN journal' = {}
  BY <1>1
<1>3. /\ JournalReadable(mem, journal')
      /\ \A o \in Objects : StatusAfter(mem, journal', o) = mem.status[o]
  BY <1>1, <1>2, NothingApplied
<1>4. Replayed(mem, journal').status = mem.status
  BY <1>1, <1>3, StatusesRead
<1>5. ReadsBack'
  BY <1>1, <1>3, <1>4 DEF ReadsBack
<1>6. FilesAgree'
  BY <1>1, <1>3 DEF IInv, FilesInv, FilesAgree, Loadable
<1>7. Numbered(queueDoc, journal', mem.seq)
  BY <1>1, <1>2 DEF Numbered
<1> QED
  BY <1>5, <1>6, <1>7 DEF FilesInv

(* Every step keeps what the files hold.                                   *)
LEMMA FilesStep ==
  ASSUME IInv, Next
  PROVE  FilesInv'
<1>1. CASE UNCHANGED <<queueDoc, journal, stateDoc, recorded, overlapped>>
  <2>1. /\ ReadsBack' <=> ReadsBack
        /\ FilesAgree' <=> FilesAgree
        /\ NothingSettled' <=> NothingSettled
    BY <1>1 DEF ReadsBack, FilesAgree, Loadable, NothingSettled
  <2> QED
    BY <1>1, <2>1 DEF IInv, FilesInv
<1>2. CASE ReplaceQueue
  BY <1>2, FilesAfterReplacement
<1>3. CASE UnlinkJournal
  BY <1>3, FilesAfterCompaction
<1>4. CASE AppendRecord
  BY <1>4, FilesAfterRecord DEF AppendRecord, Current
<1>5. CASE SaveState
  <2>1. /\ pc = "checkpoint" /\ stateDoc' = Refreshed
        /\ UNCHANGED <<queueDoc, journal, recorded>>
    BY <1>5 DEF SaveState
  <2>2. /\ ReadsBack /\ queueDoc # None
        /\ mem.operation = queueDoc.operation
        /\ Targets(mem) = Targets(queueDoc)
    BY <2>1 DEF IInv, WorkInv, QueueInv, Working
  <2>3. ReadsBack'
    BY <2>1, <2>2 DEF ReadsBack
  <2>4. FilesAgree'
    BY <2>1, <2>2 DEF FilesAgree, Loadable, Refreshed, ReadsBack
  <2> QED
    BY <2>3, <2>4 DEF FilesInv
<1>6. CASE ClearState
  <2>1. /\ stateDoc' = None
        /\ UNCHANGED <<queueDoc, journal, recorded, overlapped>>
    BY <1>6 DEF ClearState, history
  <2>2. /\ ReadsBack' <=> ReadsBack
        /\ NothingSettled' <=> NothingSettled
    BY <2>1 DEF ReadsBack, NothingSettled
  <2> QED
    BY <2>1, <2>2 DEF IInv, FilesInv, FilesAgree
<1>7. CASE ClearQueue
  BY <1>7 DEF ClearQueue, FilesInv, FilesAgree
<1>8. CASE ClearJournal
  <2>1. queueDoc' = None
    BY <1>8 DEF ClearJournal, IInv, WorkInv, ReplacedInv
  <2> QED
    BY <2>1 DEF FilesInv, FilesAgree
<1>9. CASE Crash \/ WriteFails
  BY <1>9, FilesAfterStop DEF Crash, WriteFails
<1>10. CASE Interrupt
  <2>1. CASE journal' = journal
    BY <1>1, <1>10, <2>1 DEF Interrupt
  <2>2. CASE journal' # journal
    <3>1. /\ pc = "journal"
          /\ journal' = Append(journal, CurrentRecord(FALSE))
          /\ recorded' = [recorded EXCEPT ![Current] = mem.status[Current]]
          /\ UNCHANGED <<queueDoc, stateDoc, overlapped>>
      BY <1>10, <2>2 DEF Interrupt, Current
    <3> QED
      BY <3>1, FilesAfterRecord
  <2> QED
    BY <2>1, <2>2
<1>11. CASE Skip \/ Begin \/ Finish \/ \E status \in Reports : Request(status)
  BY <1>1, <1>11 DEF Skip, Begin, Finish, Request, files, history
<1>12. CASE User
  BY <1>1, <1>12
     DEF User, Start, Exit, Confirm, Decline, Accept, Estimate, files, history
<1>13. CASE Reconcile \/ ReconcileFails
  BY <1>1, <1>13 DEF Reconcile, ReconcileFails, files, history
<1>14. CASE \E o \in Objects : OthersChange(o)
  BY <1>1, <1>14 DEF OthersChange, files
<1> QED
  BY <1>2, <1>3, <1>4, <1>5, <1>6, <1>7, <1>8, <1>9, <1>10, <1>11, <1>12,
     <1>13, <1>14 DEF Next, Step, Environment
----------------------------------------------------------------------------
(* The queue that is read back.                                            *)
LEMMA ResumeStep ==
  ASSUME IInv, Next
  PROVE  ResumeInv'
<1>1. CASE Accept
  <2>1. /\ pc = "offered" /\ mem' = Replayed(queueDoc, journal)
        /\ UNCHANGED <<queueDoc, journal, stateDoc, recorded, overlapped>>
    BY <1>1 DEF Accept, files, history
  <2>2. /\ Loadable
        /\ queueDoc # None /\ queueDoc \in Queue /\ journal \in Seq(Record)
        /\ JournalReadable(queueDoc, journal)
    BY <2>1 DEF IInv, PhaseInv, TypeOK, Loadable
  <2>3. /\ mem'.operation = queueDoc.operation
        /\ Targets(mem') = Targets(queueDoc)
    BY <2>1, <2>2, ReplayedQueue
  <2>4. \A i \in DOMAIN journal : ~journal[i].torn => journal[i].seq <= mem'.seq
    BY <2>1, <2>2, FreshTop
  <2>5. \A o \in Objects : recorded[o] \in Settled => mem'.status[o] = recorded[o]
    BY <2>1, <2>2 DEF IInv, FilesInv, ReadsBack, NothingSettled
  <2>6. Loadable'
    BY <2>1, <2>2 DEF Loadable
  <2>7. Targets(mem)' = Targets(queueDoc)'
    BY <2>1, <2>3
  <2> QED
    BY <2>1, <2>3, <2>4, <2>5, <2>6, <2>7 DEF ResumeInv
<1>2. CASE Reconcile
  <2>1. /\ pc = "reconcile"
        /\ mem' = [mem EXCEPT !.status = Reset(Reconciled(mem))]
        /\ UNCHANGED <<queueDoc, journal, stateDoc, recorded>>
    BY <1>2 DEF Reconcile, files
  <2>2. mem \in Queue
    BY <2>1, MemoryTypes DEF IInv, PhaseInv
  <2>3. /\ Loadable
        /\ mem.operation = queueDoc.operation
        /\ Targets(mem) = Targets(queueDoc)
        /\ \A i \in DOMAIN journal : ~journal[i].torn => journal[i].seq <= mem.seq
        /\ \A o \in Objects : recorded[o] \in Settled => mem.status[o] = recorded[o]
    BY <2>1 DEF IInv, ResumeInv, Resuming
  <2>4. /\ mem'.operation = mem.operation
        /\ mem'.seq = mem.seq
        /\ \A o \in Objects :
             /\ mem'.status[o] = None <=> mem.status[o] = None
             /\ mem.status[o] \in Settled => mem'.status[o] = mem.status[o]
    BY <2>1, <2>2, ReconciledStatus DEF Queue
  <2>5. Targets(mem') = Targets(mem)
    BY <2>4 DEF Targets
  <2>6. \A o \in Objects : recorded[o] \in Settled => mem'.status[o] = recorded[o]
    BY <2>3, <2>4
  <2>7. Loadable'
    BY <2>1, <2>3 DEF Loadable
  <2>8. Targets(mem)' = Targets(queueDoc)'
    BY <2>1, <2>3, <2>5
  <2> QED
    BY <2>1, <2>3, <2>4, <2>6, <2>7, <2>8 DEF ResumeInv
<1>3. CASE \E o \in Objects : OthersChange(o)
  <2>1. UNCHANGED <<queueDoc, journal, stateDoc, pc, task, mem, recorded>>
    BY <1>3 DEF OthersChange, files, process
  <2>2. (Loadable' <=> Loadable) /\ (Resuming' <=> Resuming)
    BY <2>1 DEF Loadable, Resuming
  <2>3. Targets(mem)' = Targets(mem) /\ Targets(queueDoc)' = Targets(queueDoc)
    BY <2>1
  <2> QED
    BY <2>1, <2>2, <2>3 DEF IInv, ResumeInv
<1>4. CASE \/ ReplaceQueue \/ UnlinkJournal \/ AppendRecord
           \/ ClearState \/ ClearQueue \/ ClearJournal
  BY <1>4 DEF ReplaceQueue, UnlinkJournal, AppendRecord, ClearState,
              ClearQueue, ClearJournal, ToMenu, ResumeInv, Resuming
<1>5. CASE SaveState
  BY <1>5 DEF SaveState, AfterCheckpoint, ResumeInv, Resuming
<1>6. CASE Skip \/ Begin \/ Finish \/ \E status \in Reports : Request(status)
  BY <1>6 DEF Skip, Begin, Finish, Request, ResumeInv, Resuming
<1>7. CASE Start \/ Exit \/ Confirm \/ Decline \/ \E s \in Scopes : Estimate(s)
  BY <1>7 DEF Start, Exit, Confirm, Decline, Estimate, ToMenu, ResumeInv, Resuming
<1>8. CASE ReconcileFails \/ Crash \/ WriteFails \/ Interrupt
  BY <1>8 DEF ReconcileFails, Crash, WriteFails, Interrupt, ToMenu, ResumeInv,
              Resuming
<1> QED
  BY <1>1, <1>2, <1>3, <1>4, <1>5, <1>6, <1>7, <1>8
     DEF Next, Step, User, Environment

(* Changing the status of a target keeps the targets.                      *)
LEMMA SameTargets ==
  ASSUME NEW q \in Queue, NEW o \in Objects, q.status[o] # None, NEW st \in Status
  PROVE  LET r == [q EXCEPT !.status[o] = st]
         IN /\ r.operation = q.operation
            /\ r.seq = q.seq
            /\ Targets(r) = Targets(q)
            /\ \A p \in Objects : r.status[p] = IF p = o THEN st ELSE q.status[p]
<1> DEFINE r == [q EXCEPT !.status[o] = st]
<1>1. /\ r.operation = q.operation
      /\ r.seq = q.seq
      /\ \A p \in Objects : r.status[p] = IF p = o THEN st ELSE q.status[p]
  BY DEF Queue
<1> HIDE DEF r
<1>2. Targets(r) = Targets(q)
  BY <1>1, NoneAssumption DEF Targets
<1> QED
  BY <1>1, <1>2 DEF r

(* The queue in memory is that of the files.                               *)
LEMMA QueueStep ==
  ASSUME IInv, Next
  PROVE  QueueInv'
<1>1. CASE UnlinkJournal
  <2>1. /\ queueDoc = mem /\ recorded = mem.status /\ mem # None
        /\ journal' = <<>>
        /\ UNCHANGED <<queueDoc, mem, recorded>>
    BY <1>1 DEF UnlinkJournal, IInv, PhaseInv, WorkInv, ReplacedInv, history
  <2>2. ReadsBack' /\ Numbered(queueDoc, journal', mem.seq)
    BY <1>1, FilesAfterCompaction
  <2>3. DOMAIN journal' = {}
    BY <2>1
  <2> QED
    BY <2>1, <2>2, <2>3 DEF QueueInv
<1>2. CASE AppendRecord
  <2>1. /\ pc = "journal" /\ pc' = "checkpoint"
        /\ journal' = Append(journal, CurrentRecord(FALSE))
        /\ mem' = [mem EXCEPT !.seq = @ + 1]
        /\ recorded' = [recorded EXCEPT ![Current] = mem.status[Current]]
        /\ UNCHANGED <<queueDoc, stateDoc, overlapped>>
    BY <1>2 DEF AppendRecord, Current
  <2>2. /\ queueDoc # None
        /\ mem.operation = queueDoc.operation
        /\ Targets(mem) = Targets(queueDoc)
        /\ mem \in Queue
    BY <2>1, CurrentTypes DEF IInv, WorkInv, QueueInv, Working, InLoop
  <2>3. /\ ReadsBack'
        /\ \A i \in DOMAIN journal' : ~journal'[i].torn
        /\ recorded' = mem.status
        /\ Numbered(queueDoc, journal', mem.seq + 1)
    BY <2>1, FilesAfterRecord
  <2>4. /\ mem'.operation = mem.operation
        /\ mem'.status = mem.status
        /\ mem'.seq = mem.seq + 1
    BY <2>1, <2>2 DEF Queue
  <2>5. Targets(mem)' = Targets(queueDoc)'
    BY <2>1, <2>2, <2>4 DEF Targets
  <2> QED
    BY <2>1, <2>2, <2>3, <2>4, <2>5 DEF QueueInv
<1>3. CASE SaveState \/ Skip \/ Finish
  <2>1. /\ pc \in {"checkpoint", "next"}
        /\ UNCHANGED <<queueDoc, journal, recorded>>
        /\ Working' => mem' = mem
    BY <1>3 DEF SaveState, Skip, Finish, files, history, AfterCheckpoint,
                Working, InLoop
  <2>2. Working
    BY <2>1 DEF Working, InLoop
  <2>3. Working' => Targets(mem)' = Targets(mem) /\ Targets(queueDoc)' = Targets(queueDoc)
    BY <2>1
  <2>4. ReadsBack' <=> ReadsBack
    BY <2>1 DEF ReadsBack
  <2> QED
    BY <2>1, <2>2, <2>3, <2>4 DEF IInv, WorkInv, QueueInv
<1>4. CASE Begin \/ \E status \in Reports : Request(status)
  <2>1. PICK st \in Status :
          /\ pc \in {"next", "request"} /\ pc' = "journal"
          /\ position \in DOMAIN Order /\ Current \in Objects
          /\ mem \in Queue /\ mem.status[Current] # None
          /\ mem' = [mem EXCEPT !.status[Current] = st]
          /\ UNCHANGED <<queueDoc, journal, recorded, position>>
    <3>1. CASE Begin
      <4>1. mem # None /\ position \in DOMAIN Order
        BY <3>1, OrderTypes DEF Begin, IInv, PhaseInv, TypeOK
      <4>2. "processing" \in Status
        BY DEF Status
      <4> QED
        BY <3>1, <4>1, <4>2, MemoryTypes, OrderTypes
           DEF Begin, Current, IInv, files, history
    <3>2. CASE \E status \in Reports : Request(status)
      <4>1. PICK status \in Reports : Request(status)
        BY <3>2
      <4>2. status \in Status
        BY DEF Reports, Removed, Failed, Status
      <4>3. /\ mem \in Queue /\ position \in DOMAIN Order /\ Current \in Objects
            /\ mem.status[Current] # None
        BY <4>1, CurrentTypes, NoneAssumption DEF Request, IInv
      <4> QED
        BY <4>1, <4>2, <4>3 DEF Request, Current, files
    <3> QED
      BY <1>4, <3>1, <3>2
  <2>2. /\ mem'.operation = mem.operation
        /\ mem'.seq = mem.seq
        /\ Targets(mem') = Targets(mem)
        /\ \A o \in Objects : o # Current => mem'.status[o] = mem.status[o]
    BY <2>1, SameTargets
  <2>3. Current' = Current
    BY <2>1 DEF Current
  <2>4. ReadsBack' <=> ReadsBack
    BY <2>1 DEF ReadsBack
  <2>5. /\ queueDoc # None
        /\ ReadsBack
        /\ mem.operation = queueDoc.operation
        /\ Targets(mem) = Targets(queueDoc)
        /\ \A i \in DOMAIN journal : ~journal[i].torn
        /\ \A o \in Objects : recorded[o] = mem.status[o]
        /\ Numbered(queueDoc, journal, mem.seq)
    BY <2>1 DEF IInv, WorkInv, QueueInv, Working, InLoop
  <2>6. Targets(mem)' = Targets(queueDoc)'
    BY <2>1, <2>2, <2>5
  <2>7. Numbered(queueDoc, journal, mem.seq)'
    BY <2>1, <2>2, <2>5
  <2> QED
    BY <2>1, <2>2, <2>3, <2>4, <2>5, <2>6, <2>7 DEF QueueInv
<1>5. CASE Interrupt
  <2>1. /\ pc \in {"journal", "checkpoint", "request"} /\ task # "interrupt"
        /\ pc' = "journal" /\ task' = "interrupt"
        /\ UNCHANGED <<queueDoc, stateDoc, mem, position, overlapped>>
    BY <1>5 DEF Interrupt
  <2>2. /\ queueDoc # None
        /\ ReadsBack
        /\ mem.operation = queueDoc.operation
        /\ Targets(mem) = Targets(queueDoc)
        /\ \A i \in DOMAIN journal : ~journal[i].torn
        /\ \A o \in Objects : recorded[o] = mem.status[o] \/ o = Current
        /\ Numbered(queueDoc, journal, mem.seq)
    BY <2>1 DEF IInv, WorkInv, QueueInv, Working, InLoop
  <2>3. Targets(mem)' = Targets(queueDoc)' /\ Current' = Current
    BY <2>1, <2>2 DEF Current
  <2>4. CASE journal' = journal
    <3>1. recorded' = recorded
      BY <1>5, <2>4 DEF Interrupt
    <3>2. ReadsBack' /\ Numbered(queueDoc, journal, mem.seq)'
      BY <2>1, <2>2, <2>4, <3>1 DEF ReadsBack
    <3> QED
      BY <2>1, <2>2, <2>3, <2>4, <3>1, <3>2 DEF QueueInv
  <2>5. CASE journal' # journal
    <3>1. /\ pc = "journal"
          /\ journal' = Append(journal, CurrentRecord(FALSE))
          /\ recorded' = [recorded EXCEPT ![Current] = mem.status[Current]]
      BY <1>5, <2>5 DEF Interrupt, Current
    <3>2. /\ ReadsBack'
          /\ \A i \in DOMAIN journal' : ~journal'[i].torn
          /\ recorded' = mem.status
          /\ Numbered(queueDoc, journal', mem.seq + 1)
      BY <2>1, <3>1, FilesAfterRecord
    <3>3. Numbered(queueDoc, journal, mem.seq + 1)'
      BY <2>1, <3>2
    <3> QED
      BY <2>1, <2>2, <2>3, <3>2, <3>3 DEF QueueInv
  <2> QED
    BY <2>4, <2>5
<1>6. CASE \E o \in Objects : OthersChange(o)
  <2>1. UNCHANGED <<queueDoc, journal, pc, task, mem, position, recorded>>
    BY <1>6 DEF OthersChange, files, process
  <2>2. /\ Working' <=> Working
        /\ Current' = Current
        /\ ReadsBack' <=> ReadsBack
        /\ Targets(mem)' = Targets(mem)
        /\ Targets(queueDoc)' = Targets(queueDoc)
        /\ Numbered(queueDoc, journal, mem.seq)' <=> Numbered(queueDoc, journal, mem.seq)
        /\ Numbered(queueDoc, journal, mem.seq + 1)'
             <=> Numbered(queueDoc, journal, mem.seq + 1)
    BY <2>1 DEF Working, Current, ReadsBack
  <2> QED
    BY <2>1, <2>2 DEF IInv, WorkInv, QueueInv
<1>7. CASE ReplaceQueue \/ ClearState \/ ClearQueue \/ ClearJournal
  BY <1>7 DEF ReplaceQueue, ClearState, ClearQueue, ClearJournal, ToMenu,
              QueueInv, Working, InLoop
<1>8. CASE User
  BY <1>8 DEF User, Start, Exit, Confirm, Decline, Accept, Estimate, ToMenu,
              QueueInv, Working, InLoop
<1>9. CASE Reconcile \/ ReconcileFails \/ Crash \/ WriteFails
  BY <1>9 DEF Reconcile, ReconcileFails, Crash, WriteFails, ToMenu,
              QueueInv, Working, InLoop
<1> QED
  BY <1>1, <1>2, <1>3, <1>4, <1>5, <1>6, <1>7, <1>8, <1>9
     DEF Next, Step, Environment

(* The rest of what relates the queue in memory to the files.              *)
LEMMA WorkStep ==
  ASSUME IInv, Next
  PROVE  WorkInv'
<1>1. CurrentInv'
  <2>1. CASE Begin
    <3>1. /\ pc = "next" /\ position \in DOMAIN Order
          /\ mem.status[Current] \notin Settled \cup {None}
          /\ UNCHANGED <<recorded, position>>
      BY <2>1, OrderTypes DEF Begin, Current, IInv, TypeOK, history
    <3>2. Current \in Objects
      BY <3>1, OrderTypes DEF Current
    <3>3. recorded[Current] = mem.status[Current]
      BY <3>1, <3>2 DEF IInv, WorkInv, QueueInv, Working, InLoop
    <3>4. Current' = Current
      BY <3>1 DEF Current
    <3> QED
      BY <3>1, <3>3, <3>4 DEF CurrentInv
  <2>2. CASE \E status \in Reports : Request(status)
    <3>1. pc = "request" /\ UNCHANGED <<recorded, position>>
      BY <2>2 DEF Request
    <3>2. Current \in Objects /\ mem.status[Current] = "processing"
      BY <3>1, CurrentTypes DEF IInv, PhaseInv
    <3>3. recorded[Current] = mem.status[Current]
      BY <3>1, <3>2 DEF IInv, WorkInv, QueueInv, Working, InLoop
    <3>4. Current' = Current
      BY <3>1 DEF Current
    <3>5. "processing" \notin Settled
      BY DEF Settled, Removed
    <3> QED
      BY <3>1, <3>2, <3>3, <3>4, <3>5 DEF CurrentInv
  <2>3. CASE Interrupt
    <3>1. UNCHANGED <<mem, position>> /\ Current' = Current
      BY <2>3 DEF Interrupt, Current
    <3>2. CASE journal' # journal
      <4>1. /\ pc = "journal"
            /\ journal' = Append(journal, CurrentRecord(FALSE))
            /\ recorded' = [recorded EXCEPT ![Current] = mem.status[Current]]
            /\ UNCHANGED <<queueDoc, stateDoc, overlapped>>
        BY <2>3, <3>2 DEF Interrupt, Current
      <4>2. recorded' = mem.status
        BY <4>1, FilesAfterRecord
      <4> QED
        BY <3>1, <4>2 DEF CurrentInv
    <3>3. CASE journal' = journal
      <4>1. recorded' = recorded
        BY <2>3, <3>3 DEF Interrupt
      <4>2. CASE pc = "journal"
        BY <3>1, <4>1, <4>2 DEF IInv, WorkInv, CurrentInv
      <4>3. CASE pc \in {"checkpoint", "request"}
        <5>1. \A o \in Objects : recorded[o] = mem.status[o]
          BY <4>3 DEF IInv, WorkInv, QueueInv, Working, InLoop
        <5>2. /\ mem.status \in [Objects -> Status \cup {None}]
              /\ recorded \in [Objects -> Status \cup {None}]
          BY <4>3, MemoryTypes DEF IInv, PhaseInv, TypeOK
        <5>3. recorded = mem.status
          BY <5>1, <5>2
        <5> QED
          BY <3>1, <4>1, <5>3 DEF CurrentInv
      <4> QED
        BY <2>3, <4>2, <4>3 DEF Interrupt
    <3> QED
      BY <3>2, <3>3
  <2>4. CASE \E o \in Objects : OthersChange(o)
    <3>1. UNCHANGED <<pc, mem, position, recorded>> /\ Current' = Current
      BY <2>4 DEF OthersChange, process, Current
    <3> QED
      BY <3>1 DEF IInv, WorkInv, CurrentInv
  <2>5. CASE \/ ReplaceQueue \/ UnlinkJournal \/ AppendRecord \/ SaveState
             \/ ClearState \/ ClearQueue \/ ClearJournal \/ Skip \/ Finish
    BY <2>5 DEF ReplaceQueue, UnlinkJournal, AppendRecord, SaveState, ClearState,
                ClearQueue, ClearJournal, Skip, Finish, AfterCheckpoint, ToMenu,
                CurrentInv
  <2>6. CASE User \/ Reconcile \/ ReconcileFails \/ Crash \/ WriteFails
    BY <2>6 DEF User, Start, Exit, Confirm, Decline, Accept, Estimate, Reconcile,
                ReconcileFails, Crash, WriteFails, ToMenu, CurrentInv
  <2> QED
    BY <2>1, <2>2, <2>3, <2>4, <2>5, <2>6 DEF Next, Step, Environment
<1>2. CheckpointInv'
  <2>1. CASE SaveState
    <3>1. /\ stateDoc' = Refreshed
          /\ Checkpointed' => mem' = mem
      BY <2>1 DEF SaveState, AfterCheckpoint, Checkpointed, InLoop
    <3>2. Refreshed # None
      <4>1. mem.operation \in Scopes
        BY <2>1, MemoryTypes DEF SaveState, IInv, PhaseInv
      <4>2. Refreshed \in Checkpoint
        BY <4>1, Counts DEF Refreshed, Checkpoint, FailedCount
      <4> QED
        BY <4>2, NoneAssumption
    <3>3. Checkpointed' => Targets(mem)' = Targets(mem)
      BY <3>1
    <3> QED
      BY <3>1, <3>2, <3>3 DEF CheckpointInv, Refreshed
  <2>2. CASE AppendRecord
    <3>1. pc = "journal" /\ mem' = [mem EXCEPT !.seq = @ + 1] /\ stateDoc' = stateDoc
      BY <2>2 DEF AppendRecord
    <3>2. mem'.operation = mem.operation /\ mem'.status = mem.status
      BY <3>1, CurrentTypes DEF IInv, Queue
    <3>3. Targets(mem)' = Targets(mem)
      BY <3>2 DEF Targets
    <3> QED
      BY <3>1, <3>2, <3>3 DEF IInv, WorkInv, CheckpointInv, Checkpointed, InLoop
  <2>3. CASE Begin
    <3>1. /\ pc = "next" /\ position \in DOMAIN Order
          /\ mem # None /\ mem.status[Current] # None
          /\ mem' = [mem EXCEPT !.status[Current] = "processing"]
          /\ stateDoc' = stateDoc
      BY <2>3, OrderTypes DEF Begin, Current, IInv, PhaseInv, TypeOK, files
    <3>2. mem \in Queue /\ Current \in Objects /\ "processing" \in Status
      BY <3>1, MemoryTypes, OrderTypes DEF IInv, Current, Status
    <3>3. mem'.operation = mem.operation /\ Targets(mem)' = Targets(mem)
      BY <3>1, <3>2, SameTargets
    <3> QED
      BY <3>1, <3>3 DEF IInv, WorkInv, CheckpointInv, Checkpointed, InLoop
  <2>4. CASE \E status \in Reports : Request(status)
    <3>1. PICK status \in Reports : Request(status)
      BY <2>4
    <3>2. /\ pc = "request" /\ stateDoc' = stateDoc
          /\ mem' = [mem EXCEPT !.status[Current] = status]
      BY <3>1 DEF Request, Current, files
    <3>3. /\ mem \in Queue /\ Current \in Objects /\ mem.status[Current] # None
          /\ status \in Status
      BY <3>2, CurrentTypes, NoneAssumption DEF IInv, Reports, Removed, Failed, Status
    <3>4. mem'.operation = mem.operation /\ Targets(mem)' = Targets(mem)
      BY <3>2, <3>3, SameTargets
    <3> QED
      BY <3>2, <3>4 DEF IInv, WorkInv, CheckpointInv, Checkpointed, InLoop
  <2>5. CASE Skip \/ Finish \/ Interrupt \/ \E o \in Objects : OthersChange(o)
    <3>1. UNCHANGED <<mem, stateDoc>> /\ (Checkpointed' => Checkpointed)
      BY <2>5 DEF Skip, Finish, Interrupt, OthersChange, files, process,
                  Checkpointed, InLoop, Records
    <3>2. Targets(mem)' = Targets(mem)
      BY <3>1
    <3> QED
      BY <3>1, <3>2 DEF IInv, WorkInv, CheckpointInv
  <2>6. CASE UnlinkJournal
    <3>1. pc' = "checkpoint" /\ task' = task /\ task \notin Records
      BY <2>6 DEF UnlinkJournal, IInv, PhaseInv, Records
    <3> QED
      BY <3>1 DEF CheckpointInv, Checkpointed, InLoop
  <2>7. CASE ReplaceQueue \/ ClearState \/ ClearQueue \/ ClearJournal
    BY <2>7 DEF ReplaceQueue, ClearState, ClearQueue, ClearJournal, ToMenu,
                CheckpointInv, Checkpointed, InLoop
  <2>8. CASE User \/ Reconcile \/ ReconcileFails \/ Crash \/ WriteFails
    BY <2>8 DEF User, Start, Exit, Confirm, Decline, Accept, Estimate, Reconcile,
                ReconcileFails, Crash, WriteFails, ToMenu, CheckpointInv,
                Checkpointed, InLoop
  <2> QED
    BY <2>1, <2>2, <2>3, <2>4, <2>5, <2>6, <2>7, <2>8 DEF Next, Step, Environment
<1>3. ReplacedInv'
  <2>1. CASE ReplaceQueue \/ UnlinkJournal \/ AppendRecord \/ SaveState
    BY <2>1 DEF ReplaceQueue, UnlinkJournal, AppendRecord, SaveState,
                AfterCheckpoint, ReplacedInv
  <2>2. CASE ClearState \/ ClearQueue \/ ClearJournal
    BY <2>2 DEF ClearState, ClearQueue, ClearJournal, ToMenu, ReplacedInv
  <2>3. CASE Skip \/ Begin \/ Finish \/ \E status \in Reports : Request(status)
    BY <2>3 DEF Skip, Begin, Finish, Request, ReplacedInv
  <2>4. CASE User \/ Reconcile \/ ReconcileFails
    BY <2>4 DEF User, Start, Exit, Confirm, Decline, Accept, Estimate, Reconcile,
                ReconcileFails, ToMenu, ReplacedInv
  <2>5. CASE Crash \/ WriteFails \/ Interrupt
    BY <2>5 DEF Crash, WriteFails, Interrupt, ReplacedInv
  <2>6. CASE \E o \in Objects : OthersChange(o)
    BY <2>6 DEF OthersChange, files, process, IInv, WorkInv, ReplacedInv
  <2> QED
    BY <2>1, <2>2, <2>3, <2>4, <2>5, <2>6 DEF Next, Step, Environment
<1> QED
  BY <1>1, <1>2, <1>3, QueueStep DEF WorkInv

(* The invariant is inductive.                                             *)
LEMMA InvariantStep ==
  ASSUME IInv, [Next]_vars
  PROVE  IInv'
<1>1. CASE Next
  <2>1. TypeOK' /\ PhaseInv'
    BY <1>1, TypeStep, PhaseStep DEF IInv
  <2> QED
    BY <1>1, <2>1, FilesStep, ResumeStep, WorkStep DEF IInv
<1>2. CASE UNCHANGED vars
  <2>1. UNCHANGED <<library, queueDoc, journal, stateDoc, pc, task, mem, position,
                    recorded, gone, unsure, overlapped, used>>
    BY <1>2 DEF vars, files, process, history
  <2>2. /\ Current' = Current
        /\ Targets(mem)' = Targets(mem)
        /\ Targets(queueDoc)' = Targets(queueDoc)
        /\ Loadable' <=> Loadable
        /\ ReadsBack' <=> ReadsBack
        /\ Numbered(queueDoc, journal, mem.seq)' <=> Numbered(queueDoc, journal, mem.seq)
        /\ Numbered(queueDoc, journal, mem.seq + 1)'
             <=> Numbered(queueDoc, journal, mem.seq + 1)
    BY <2>1 DEF Current, Loadable, ReadsBack
  <2>3. TypeOK'
    BY <2>1 DEF IInv, TypeOK
  <2>4. PhaseInv'
    BY <2>1, <2>2 DEF IInv, PhaseInv
  <2>5. FilesInv'
    BY <2>1, <2>2 DEF IInv, FilesInv, FilesAgree, NothingSettled
  <2>6. ResumeInv'
    BY <2>1, <2>2 DEF IInv, ResumeInv, Resuming
  <2>7. WorkInv'
    <3>1. QueueInv'
      BY <2>1, <2>2 DEF IInv, WorkInv, QueueInv, Working
    <3>2. CurrentInv' /\ ReplacedInv'
      BY <2>1, <2>2 DEF IInv, WorkInv, CurrentInv, ReplacedInv
    <3>3. CheckpointInv'
      BY <2>1, <2>2 DEF IInv, WorkInv, CheckpointInv, Checkpointed
    <3> QED
      BY <3>1, <3>2, <3>3 DEF WorkInv
  <2> QED
    BY <2>3, <2>4, <2>5, <2>6, <2>7 DEF IInv
<1> QED
  BY <1>1, <1>2
----------------------------------------------------------------------------
(* The theorems.                                                           *)

(* The conjunction of the parts above holds in every reachable state of    *)
(* the cleanup.                                                            *)
LEMMA Invariant == Spec => []IInv
<1>1. IInv /\ [Next]_vars => IInv'
  BY InvariantStep
<1> QED
  BY InitialState, <1>1, PTL DEF Spec

(* The queue, its files and the process keep their types, for any library  *)
(* and scopes (core/cleanup.py and core/state.py).                         *)
THEOREM TypeCorrect == Spec => []TypeOK
<1>1. IInv => TypeOK
  BY DEF IInv
<1> QED
  BY Invariant, <1>1, PTL

(* What was durably recorded is what a new process reads back, wherever    *)
(* save, record or the handling of an interrupt was cut short.             *)
THEOREM RecordedIsReadBack == Spec => []ReadsBackRecorded
<1>1. IInv => ReadsBackRecorded
  BY DEF IInv, FilesInv, ReadsBackRecorded, ReadsBack
<1> QED
  BY Invariant, <1>1, PTL

(* A deletion is only sent with its target in flight in the files          *)
(* (_process).                                                             *)
THEOREM WrittenAhead == Spec => []WriteAhead
<1>1. IInv => WriteAhead
  <2> SUFFICES ASSUME IInv, pc = "request"
               PROVE  /\ Loadable
                      /\ Replayed(queueDoc, journal).status[Current] = "processing"
    BY DEF WriteAhead, Current
  <2>1. /\ queueDoc # None /\ ReadsBack
        /\ mem.operation = queueDoc.operation
        /\ Targets(mem) = Targets(queueDoc)
        /\ \A o \in Objects : recorded[o] = mem.status[o]
    BY DEF IInv, WorkInv, QueueInv, Working, InLoop
  <2>2. /\ stateDoc # None
        /\ stateDoc.operation = mem.operation
        /\ stateDoc.total = Cardinality(Targets(mem))
    BY DEF IInv, WorkInv, CheckpointInv, Checkpointed, InLoop
  <2>3. Current \in Objects /\ mem.status[Current] = "processing"
    BY CurrentTypes DEF IInv, PhaseInv
  <2> QED
    BY <2>1, <2>2, <2>3 DEF Loadable, ReadsBack
<1> QED
  BY Invariant, <1>1, PTL

(* A queue and a checkpoint found together can be resumed (the cross-check *)
(* of _load_persisted never rejects what an interrupted cleanup left).     *)
THEOREM FilesAlwaysAgree == Spec => []FilesAgree
<1>1. IInv => FilesAgree
  BY DEF IInv, FilesInv
<1> QED
  BY Invariant, <1>1, PTL

(* A settled target keeps its status until another cleanup replaces the    *)
(* queue (_process, reset_failed_items, _reconcile_interrupted_items).     *)
THEOREM SettledIsFinal == Spec => SettledFinal
<1> DEFINE Kept == \A o \in Objects :
                     recorded[o] \in Settled =>
                       \/ recorded'[o] = recorded[o]
                       \/ pc = "replace" /\ task = "execute"
<1>1. ASSUME IInv, Next PROVE Kept
  <2> SUFFICES ASSUME NEW o \in Objects, recorded[o] \in Settled,
                      ~(pc = "replace" /\ task = "execute")
               PROVE  recorded'[o] = recorded[o]
    OBVIOUS
  <2>1. CASE recorded' = recorded
    BY <2>1
  <2>2. CASE recorded' = [recorded EXCEPT ![Current] = mem.status[Current]] /\ pc = "journal"
    <3>1. recorded[Current] \notin Settled \/ recorded = mem.status
      BY <1>1, <2>2 DEF IInv, WorkInv, CurrentInv
    <3>2. recorded \in [Objects -> Status \cup {None}]
      BY <1>1 DEF IInv, TypeOK
    <3> QED
      BY <2>2, <3>1, <3>2
  <2>3. CASE ReplaceQueue
    <3>1. task \in {"resume", "finish"} /\ pc = "replace" /\ recorded' = mem.status
      BY <1>1, <2>3 DEF ReplaceQueue, IInv, PhaseInv
    <3>2. CASE task = "resume"
      BY <1>1, <3>1, <3>2 DEF IInv, ResumeInv, Resuming
    <3>3. CASE task = "finish"
      BY <1>1, <3>1, <3>3 DEF IInv, WorkInv, QueueInv, Working
    <3> QED
      BY <3>1, <3>2, <3>3
  <2>4. CASE AppendRecord
    BY <2>2, <2>4 DEF AppendRecord, Current
  <2>5. CASE Interrupt
    BY <2>1, <2>2, <2>5 DEF Interrupt, Current
  <2>6. CASE \/ UnlinkJournal \/ SaveState \/ ClearState \/ ClearQueue
             \/ ClearJournal \/ Skip \/ Begin \/ Finish
             \/ \E status \in Reports : Request(status)
    BY <2>1, <2>6 DEF UnlinkJournal, SaveState, ClearState, ClearQueue,
                      ClearJournal, Skip, Begin, Finish, Request, history
  <2>7. CASE User \/ Reconcile \/ ReconcileFails
    BY <2>1, <2>7 DEF User, Start, Exit, Confirm, Decline, Accept, Estimate,
                      Reconcile, ReconcileFails, history
  <2>8. CASE Crash \/ WriteFails \/ \E p \in Objects : OthersChange(p)
    BY <2>1, <2>8 DEF Crash, WriteFails, Lose, OthersChange
  <2> QED
    BY <1>1, <2>3, <2>4, <2>5, <2>6, <2>7, <2>8 DEF Next, Step, Environment
<1>2. IInv /\ [Next]_vars =>
        [\A o \in Objects :
           recorded[o] \in Settled =>
             recorded'[o] = recorded[o] \/ (pc = "replace" /\ task = "execute")]_vars
  BY <1>1
<1> QED
  BY Invariant, <1>2, PTL DEF Spec, SettledFinal
----------------------------------------------------------------------------
(* What the history of a cleanup says of its queue: what was removed, what *)
(* is in doubt, and how far the loop has come.                             *)
Clearing == {"clear_state", "clear_queue", "clear_journal"}
InDoubt == {"processing", "ambiguous"}
Writing(tasks) == pc \in {"replace", "unlink", "checkpoint"} /\ task \in tasks

(* Where the loop is, and what it has passed.                              *)
PassInv ==
  /\ pc = "reconcile" \/ Writing({"execute", "resume"}) => position = 1
  /\ Writing({"finish"}) => position = Len(Order) + 1
  /\ Writing({"execute"}) => \A o \in Objects : mem.status[o] \in {"pending", None}
  /\ pc \in InLoop \cup {"checkpoint"} \/ Writing({"finish"}) =>
       \A i \in 1..(position - 1) :
         mem.status[Order[i]] \notin {"pending", "processing"}
  /\ pc \in {"journal", "checkpoint"} /\ task = "outcome" =>
       mem.status[Current] \in Reports
  /\ pc \in Clearing => \A o \in Objects : mem.status[o] \in Removed \cup {None}

(* What the files and the queue in memory call removed has been absent.    *)
GoneInv ==
  /\ Objects \ library \subseteq gone
  /\ ~overlapped => \A o \in Objects : recorded[o] \in Removed => o \in gone
  /\ ~overlapped /\ mem # None =>
       \A o \in Objects : mem.status[o] \in Removed => o \in gone

(* An object whose deletion has an unknown outcome is recorded as in       *)
(* flight, and the loop has passed it.                                     *)
DoubtInv ==
  /\ queueDoc # None /\ unsure # {} =>
       ReadsBack /\ \A o \in unsure : recorded[o] \in InDoubt
  /\ pc = "reconcile" => \A o \in unsure : mem.status[o] \in InDoubt
  /\ Writing({"resume"}) \/ (Writing({"execute"}) /\ pc # "replace") => unsure = {}
  /\ pc = "journal" /\ task = "outcome" => recorded[Current] = "processing"
  /\ pc = "journal" /\ Current \in unsure => mem.status[Current] \in InDoubt
  /\ pc \in InLoop \cup {"checkpoint"} =>
       \A o \in unsure : \E i \in 1..position :
         /\ o = Order[i]
         /\ i = position => pc \in {"journal", "checkpoint"}
                              /\ task \in {"outcome", "interrupt"}

(* The checkpoint counts nothing that is not recorded.                     *)
CountInv ==
  queueDoc # None /\ stateDoc # None /\ ~overlapped =>
    stateDoc.completed <= Cardinality({o \in Objects : recorded[o] \in Removed})

HistoryInv ==
  /\ PassInv
  /\ GoneInv
  /\ DoubtInv
  /\ CountInv

(* A deletion changes the status of the current object alone.              *)
LEMMA RequestIs ==
  ASSUME IInv, NEW status \in Reports, Request(status)
  PROVE  /\ pc = "request" /\ task = "start" /\ pc' = "journal" /\ task' = "outcome"
         /\ Current \in Objects /\ Current' = Current
         /\ position \in 1..Len(Order)
         /\ mem # None
         /\ \A o \in Objects :
              /\ mem'.status[o] = IF o = Current THEN status ELSE mem.status[o]
              /\ recorded[o] = mem.status[o]
         /\ recorded[Current] = "processing"
         /\ queueDoc # None /\ ReadsBack /\ stateDoc # None
         /\ gone' = gone \cup (Objects \ library')
         /\ library' \subseteq library
         /\ status \in Removed => Current \notin library'
         /\ unsure' = IF status = "ambiguous" THEN unsure \cup {Current} ELSE unsure
         /\ UNCHANGED <<files, position, recorded, overlapped>>
<1>1. /\ pc = "request" /\ task = "start" /\ mem # None
      /\ mem.status[Current] = "processing"
  BY DEF Request, IInv, PhaseInv
<1>2. /\ mem \in Queue /\ position \in DOMAIN Order /\ Current \in Objects
      /\ position \in 1..Len(Order)
  BY <1>1, CurrentTypes, OrderTypes DEF IInv
<1>3. status \in Status /\ mem.status[Current] # None
  BY <1>1, <1>2, NoneAssumption DEF Reports, Removed, Failed, Status
<1>4. mem' = [mem EXCEPT !.status[Current] = status]
  BY DEF Request, Current
<1>5. \A o \in Objects :
        mem'.status[o] = IF o = Current THEN status ELSE mem.status[o]
  BY <1>2, <1>3, <1>4, SameTargets
<1>6. \A o \in Objects : recorded[o] = mem.status[o]
  BY <1>1 DEF IInv, WorkInv, QueueInv, Working, InLoop
<1>7. /\ gone' = gone \cup (Objects \ library')
      /\ library' \subseteq library
      /\ status \in Removed => Current \notin library'
      /\ unsure' = IF status = "ambiguous" THEN unsure \cup {Current} ELSE unsure
      /\ UNCHANGED <<files, position, recorded, overlapped>>
      /\ pc' = "journal" /\ task' = "outcome"
  <2>1. \/ library' = library \ {Current}
        \/ library' = library /\ MayMiss(Current, status)
    BY DEF Request, Current
  <2>2. status \in Removed => status \notin Failed
    BY DEF Removed, Failed
  <2> QED
    BY <2>1, <2>2 DEF Request, MayMiss, Current
<1>8. Current' = Current
  BY <1>7 DEF Current
<1>9. queueDoc # None /\ ReadsBack /\ stateDoc # None
  BY <1>1 DEF IInv, WorkInv, QueueInv, CheckpointInv, Working, Checkpointed, InLoop
<1> QED
  BY <1>1, <1>2, <1>5, <1>6, <1>7, <1>8, <1>9

(* So does marking an object in flight.                                    *)
LEMMA BeginIs ==
  ASSUME IInv, Begin
  PROVE  /\ pc = "next" /\ pc' = "journal" /\ task' = "start"
         /\ Current \in Objects /\ Current' = Current
         /\ position \in 1..Len(Order)
         /\ mem # None
         /\ \A o \in Objects :
              mem'.status[o] = IF o = Current THEN "processing" ELSE mem.status[o]
         /\ UNCHANGED <<library, files, position, history>>
<1>1. pc = "next" /\ mem # None /\ position \in 1..Len(Order)
  BY OrderTypes DEF Begin, IInv, PhaseInv, TypeOK
<1>2. mem \in Queue /\ Current \in Objects /\ "processing" \in Status
  BY <1>1, MemoryTypes, OrderTypes DEF IInv, Current, Status
<1>3. mem' = [mem EXCEPT !.status[Current] = "processing"] /\ mem.status[Current] # None
  BY DEF Begin, Current
<1>4. \A o \in Objects :
        mem'.status[o] = IF o = Current THEN "processing" ELSE mem.status[o]
  BY <1>2, <1>3, SameTargets
<1>5. /\ UNCHANGED <<library, files, position, history>>
      /\ pc' = "journal" /\ task' = "start"
  BY DEF Begin
<1>6. Current' = Current
  BY <1>5 DEF Current
<1> QED
  BY <1>1, <1>2, <1>4, <1>5, <1>6

(* Appending a record keeps the statuses in memory and records them.       *)
LEMMA AppendIs ==
  ASSUME IInv, AppendRecord
  PROVE  /\ pc = "journal" /\ pc' = "checkpoint" /\ task \in Records
         /\ mem # None /\ mem' # None
         /\ Current' = Current
         /\ mem'.status = mem.status
         /\ recorded' = mem.status
         /\ queueDoc # None /\ ReadsBack'
         /\ UNCHANGED <<library, queueDoc, stateDoc, task, position, gone, unsure,
                        overlapped>>
<1>1. /\ pc = "journal" /\ pc' = "checkpoint" /\ task \in Records /\ mem # None
      /\ journal' = Append(journal, CurrentRecord(FALSE))
      /\ mem' = [mem EXCEPT !.seq = @ + 1]
      /\ recorded' = [recorded EXCEPT ![Current] = mem.status[Current]]
      /\ UNCHANGED <<library, queueDoc, stateDoc, task, position, gone, unsure,
                     overlapped>>
  BY DEF AppendRecord, Current, IInv, PhaseInv
<1>2. mem \in Queue
  BY <1>1, MemoryTypes DEF IInv
<1>3. mem'.status = mem.status /\ mem' \in Queue
  BY <1>1, <1>2 DEF Queue
<1>4. ReadsBack' /\ recorded' = mem.status
  BY <1>1, FilesAfterRecord
<1>5. queueDoc # None
  BY <1>1 DEF IInv, WorkInv, QueueInv, Working, InLoop
<1>6. Current' = Current
  BY <1>1 DEF Current
<1> QED
  BY <1>1, <1>3, <1>4, <1>5, <1>6, NoneAssumption

(* A queue that is read back has the statuses of the files; reconciling it *)
(* leaves no target in flight and removes only what is absent.             *)
LEMMA ReconcileIs ==
  ASSUME IInv, Reconcile
  PROVE  /\ pc = "reconcile" /\ pc' = "replace" /\ task' = "resume" /\ mem # None
         /\ \A o \in Objects :
              /\ mem'.status[o] \in Removed => mem.status[o] \in Removed \/ o \notin library
              /\ mem.status[o] \in InDoubt => o \notin unsure'
         /\ unsure' \subseteq unsure
         /\ UNCHANGED <<library, files, position, recorded, gone, overlapped>>
<1>1. /\ pc = "reconcile" /\ pc' = "replace" /\ task' = "resume" /\ mem # None
      /\ mem' = [mem EXCEPT !.status = Reset(Reconciled(mem))]
      /\ unsure' = unsure \ InFlight(mem)
      /\ UNCHANGED <<library, files, position, recorded, gone, overlapped>>
  BY DEF Reconcile, IInv, PhaseInv
<1>2. mem \in Queue
  BY <1>1, MemoryTypes DEF IInv
<1>3. mem'.status = Reset(Reconciled(mem))
  BY <1>1, <1>2 DEF Queue
<1>4. \A o \in Objects :
        Reconciled(mem)[o] \in Removed => mem.status[o] \in Removed \/ o \notin library
  BY NoneAssumption DEF Reconciled, Removed, Status
<1>5. \A o \in Objects : Reset(Reconciled(mem))[o] \in Removed => Reconciled(mem)[o] \in Removed
  BY DEF Reset, Removed
<1>6. \A o \in Objects : mem.status[o] \in InDoubt => o \in InFlight(mem)
  BY DEF InDoubt, InFlight, WithStatus
<1> QED
  BY <1>1, <1>3, <1>4, <1>5, <1>6

(* What is left of a process that ended in the middle of something.        *)
LEMMA LoseIs ==
  ASSUME IInv, Lose
  PROVE  /\ mem' = None
         /\ ReadsBack => ReadsBack'
         /\ unsure' = IF pc = "journal" /\ task = "outcome"
                      THEN unsure \cup {Current} ELSE unsure
         /\ UNCHANGED <<library, queueDoc, stateDoc, task, position, recorded, gone,
                        overlapped>>
<1>1. /\ mem' = None
      /\ unsure' = IF pc = "journal" /\ task = "outcome"
                   THEN unsure \cup {Current} ELSE unsure
      /\ UNCHANGED <<library, queueDoc, stateDoc, task, position, recorded, gone,
                     overlapped>>
  BY DEF Lose, Current
<1>2. ReadsBack => ReadsBack'
  <2>1. CASE journal' = journal
    BY <1>1, <2>1 DEF ReadsBack
  <2>2. CASE journal' # journal
    <3>1. pc = "journal" /\ journal' = Append(journal, CurrentRecord(TRUE))
      BY <2>2 DEF Lose
    <3>2. /\ queueDoc \in Queue
          /\ journal \in Seq(Record)
          /\ JournalReadable(queueDoc, journal)
          /\ Replayed(queueDoc, journal).status = recorded
          /\ \A i \in DOMAIN journal : ~journal[i].torn
      BY <3>1 DEF IInv, TypeOK, WorkInv, QueueInv, Working, InLoop, ReadsBack
    <3>3. CurrentRecord(TRUE) \in Record /\ CurrentRecord(TRUE).torn
      BY <3>1, CurrentTypes DEF IInv, CurrentRecord
    <3>4. /\ JournalReadable(queueDoc, journal')
          /\ \A o \in Objects :
               StatusAfter(queueDoc, journal', o) = StatusAfter(queueDoc, journal, o)
      BY <3>1, <3>2, <3>3, AppendIgnored
    <3>5. recorded \in [Objects -> Status \cup {None}]
      BY DEF IInv, TypeOK
    <3>6. Replayed(queueDoc, journal').status = recorded
      BY <3>2, <3>4, <3>5, StatusesRead
    <3> QED
      BY <1>1, <3>4, <3>6 DEF ReadsBack
  <2> QED
    BY <2>1, <2>2
<1> QED
  BY <1>1, <1>2

(* The handler of Ctrl+C.                                                  *)
LEMMA InterruptIs ==
  ASSUME IInv, Interrupt
  PROVE  /\ pc \in {"journal", "checkpoint", "request"}
         /\ pc' = "journal" /\ task' = "interrupt" /\ task \in {"start", "outcome"}
         /\ Current \in Objects /\ Current' = Current
         /\ mem # None
         /\ queueDoc # None /\ ReadsBack'
         /\ \A o \in Objects :
              /\ recorded'[o] \in {recorded[o], mem.status[o]}
              /\ recorded[o] = mem.status[o] \/ (pc = "journal" /\ o = Current)
         /\ library' \subseteq library
         /\ gone' = gone \cup (Objects \ library')
         /\ unsure' = IF pc = "request" THEN unsure \cup {Current} ELSE unsure
         /\ UNCHANGED <<queueDoc, stateDoc, mem, position, overlapped>>
<1>1. /\ pc \in {"journal", "checkpoint", "request"}
      /\ pc' = "journal" /\ task' = "interrupt" /\ task \in {"start", "outcome"}
      /\ library' \subseteq library
      /\ gone' = gone \cup (Objects \ library')
      /\ unsure' = IF pc = "request" THEN unsure \cup {Current} ELSE unsure
      /\ UNCHANGED <<queueDoc, stateDoc, mem, position, overlapped>>
  BY DEF Interrupt, Current
<1>2. /\ queueDoc # None /\ ReadsBack
      /\ \A o \in Objects : recorded[o] = mem.status[o] \/ (pc = "journal" /\ o = Current)
  BY <1>1 DEF IInv, WorkInv, QueueInv, Working, InLoop
<1>3. mem # None /\ Current \in Objects /\ Current' = Current
  BY <1>1, CurrentTypes DEF IInv, PhaseInv, Records, Current
<1>4. ReadsBack' /\ \A o \in Objects : recorded'[o] \in {recorded[o], mem.status[o]}
  <2>1. CASE journal' = journal
    <3>1. recorded' = recorded
      BY <2>1 DEF Interrupt
    <3> QED
      BY <1>1, <1>2, <2>1, <3>1 DEF ReadsBack
  <2>2. CASE journal' # journal
    <3>1. /\ pc = "journal"
          /\ journal' = Append(journal, CurrentRecord(FALSE))
          /\ recorded' = [recorded EXCEPT ![Current] = mem.status[Current]]
      BY <2>2 DEF Interrupt, Current
    <3> QED
      BY <1>1, <3>1, FilesAfterRecord
  <2> QED
    BY <2>1, <2>2
<1> QED
  BY <1>1, <1>2, <1>3, <1>4

(* The queue that is saved at the end of a cleanup is read back.           *)
LEMMA FinishedReadsBack ==
  ASSUME IInv, ReplaceQueue, task = "finish"
  PROVE  ReadsBack'
<1>2. /\ mem \in Queue /\ mem.status \in [Objects -> Status \cup {None}]
      /\ mem.seq \in Nat
      /\ journal \in Seq(Record)
      /\ \A i \in DOMAIN journal : ~journal[i].torn /\ journal[i].seq <= mem.seq
      /\ queueDoc' = mem /\ recorded' = mem.status /\ journal' = journal
  <2>1. mem # None /\ pc = "replace"
    BY DEF ReplaceQueue, IInv, PhaseInv
  <2>2. /\ \A i \in DOMAIN journal : ~journal[i].torn
        /\ Numbered(queueDoc, journal, mem.seq)
    BY <2>1 DEF IInv, WorkInv, QueueInv, Working
  <2> QED
    BY <2>1, <2>2, MemoryTypes DEF ReplaceQueue, IInv, TypeOK, Numbered
<1>3. /\ JournalReadable(mem, journal)
      /\ \A o \in Objects : StatusAfter(mem, journal, o) = mem.status[o]
  BY <1>2, NothingApplied
<1>4. Replayed(mem, journal).status = mem.status
  BY <1>2, <1>3, StatusesRead
<1> QED
  BY <1>2, <1>3, <1>4 DEF ReadsBack

(* The object the loop is at is not among those it has passed.             *)
LEMMA CurrentNotPassed ==
  ASSUME NEW S, position \in 1..Len(Order),
         \A o \in S : \E i \in 1..position : o = Order[i] /\ i # position
  PROVE  Current \notin S
<1>1. \A i \in 1..position : i \in DOMAIN Order
  BY OrderTypes
<1> QED
  BY <1>1, ObjectsAssumption, OrderTypes DEF Current

(* A further record never changes what was settled.                        *)
LEMMA RecordsSettled ==
  ASSUME IInv, AppendRecord \/ Interrupt
  PROVE  \A o \in Objects : recorded[o] \in Settled => recorded'[o] = recorded[o]
<1>1. \/ recorded' = recorded
      \/ recorded' = [recorded EXCEPT ![Current] = mem.status[Current]] /\ pc = "journal"
  BY DEF AppendRecord, Interrupt, Current
<1>2. recorded \in [Objects -> Status \cup {None}]
  BY DEF IInv, TypeOK
<1>3. pc = "journal" => recorded[Current] \notin Settled \/ recorded = mem.status
  BY DEF IInv, WorkInv, CurrentInv
<1> QED
  BY <1>1, <1>2, <1>3

(* Every step keeps count of what the loop has passed.                     *)
LEMMA PassStep ==
  ASSUME IInv, PassInv, Next
  PROVE  PassInv'
<1>o. \A i \in 1..Len(Order) : Order[i] \in Objects
  BY OrderTypes
<1>p. position \in 1..(Len(Order) + 1) /\ Len(Order) \in Nat
  BY OrderTypes DEF IInv, TypeOK
<1>n. None \notin Status
  BY NoneAssumption
<1>1. CASE \E s \in Scopes : Estimate(s)
  BY <1>1 DEF Estimate, PassInv, Writing, Clearing, InLoop
<1>2. CASE Start \/ Exit \/ Decline \/ Accept \/ ReconcileFails \/ Crash \/ WriteFails
  BY <1>2 DEF Start, Exit, Decline, Accept, ReconcileFails, Crash, WriteFails, ToMenu,
              PassInv, Writing, Clearing, InLoop
<1>3. CASE Confirm
  <2>1. \A o \in Objects : mem.status[o] \in {"pending", None}
    BY <1>3 DEF Confirm, IInv, PhaseInv
  <2> QED
    BY <1>3, <2>1 DEF Confirm, PassInv, Writing, Clearing, InLoop
<1>4. CASE Reconcile
  BY <1>4 DEF Reconcile, PassInv, Writing, Clearing, InLoop
<1>5. CASE ReplaceQueue
  <2>1. task \in {"execute", "resume", "finish"}
    BY <1>5 DEF ReplaceQueue, IInv, PhaseInv
  <2> QED
    BY <1>5, <2>1 DEF ReplaceQueue, PassInv, Writing, Clearing, InLoop
<1>6. CASE UnlinkJournal
  <2>1. task \in {"execute", "resume", "finish"}
    BY <1>6 DEF UnlinkJournal, IInv, PhaseInv
  <2>2. task # "finish" => position = 1
    BY <1>6, <2>1 DEF UnlinkJournal, PassInv, Writing
  <2> QED
    BY <1>6, <2>1, <2>2 DEF UnlinkJournal, PassInv, Writing, Clearing, InLoop
<1>7. CASE AppendRecord
  <2>1. /\ pc = "journal" /\ pc' = "checkpoint" /\ task \in Records
        /\ Current' = Current
        /\ mem'.status = mem.status
        /\ UNCHANGED <<task, position>>
    BY <1>7, AppendIs
  <2> QED
    BY <2>1 DEF PassInv, Writing, Clearing, InLoop, Records
<1>8. CASE SaveState
  <2>1. /\ pc = "checkpoint" /\ pc' = AfterCheckpoint
        /\ pc' \notin {"down", "menu"} => mem' = mem
        /\ position' = IF task = "outcome" THEN position + 1 ELSE position
        /\ task' = task
    BY <1>8 DEF SaveState
  <2>2. CASE pc' \in {"down", "menu"}
    BY <2>2 DEF PassInv, Writing, Clearing, InLoop
  <2>3. CASE pc' = "clear_state"
    <3>1. task = "finish" /\ FailedCount(mem) = 0 /\ mem' = mem
      BY <2>1, <2>3 DEF AfterCheckpoint
    <3>2. WithStatus(mem, Failed) = {}
      <4>1. WithStatus(mem, Failed) \subseteq Objects
        BY DEF WithStatus
      <4>2. IsFiniteSet(WithStatus(mem, Failed))
        BY <4>1, ObjectsAssumption, FS_Subset
      <4> QED
        BY <3>1, <4>2, FS_EmptySet DEF FailedCount
    <3>3. \A i \in 1..Len(Order) : mem.status[Order[i]] \notin {"pending", "processing"}
      <4>1. position = Len(Order) + 1
        BY <2>1, <3>1 DEF PassInv, Writing
      <4>2. \A i \in 1..(position - 1) :
              mem.status[Order[i]] \notin {"pending", "processing"}
        BY <2>1 DEF PassInv
      <4>3. position - 1 = Len(Order)
        BY <1>p, <4>1
      <4> QED
        BY <4>2, <4>3
    <3>4. \A o \in Objects : mem.status[o] \notin {"pending", "processing"}
      BY <3>3, ObjectsAssumption, OrderTypes
    <3>5. \A o \in Objects : mem.status[o] \in Status \cup {None}
      BY <2>1, MemoryTypes DEF IInv, PhaseInv
    <3>6. \A o \in Objects : mem.status[o] \notin Failed
      BY <3>2 DEF WithStatus
    <3>7. \A o \in Objects : mem.status[o] \in Removed \cup {None}
      BY <3>4, <3>5, <3>6 DEF Removed, Failed, Status
    <3> QED
      BY <2>3, <3>1, <3>7 DEF PassInv, Writing, Clearing, InLoop
  <2>4. CASE pc' \in {"request", "next"}
    <3>1. mem' = mem /\ (pc' = "request" => task = "start")
      BY <2>1, <2>4 DEF AfterCheckpoint
    <3>2. \A i \in 1..(position - 1) : mem.status[Order[i]] \notin {"pending", "processing"}
      BY <2>1 DEF PassInv
    <3>3. task = "outcome" => mem.status[Order[position]] \notin {"pending", "processing"}
      BY <2>1 DEF PassInv, Current, Reports, Removed, Failed
    <3>4. \A i \in 1..(position' - 1) :
            mem.status[Order[i]] \notin {"pending", "processing"}
      <4>1. CASE task = "outcome"
        <5>1. \A i \in 1..(position' - 1) : i \in 1..(position - 1) \/ i = position
          BY <1>p, <2>1, <4>1
        <5> QED
          BY <3>2, <3>3, <4>1, <5>1
      <4> QED
        BY <2>1, <3>2, <4>1
    <3> QED
      BY <2>4, <3>1, <3>4 DEF PassInv, Writing, Clearing, InLoop
  <2> QED
    BY <2>1, <2>2, <2>3, <2>4 DEF AfterCheckpoint
<1>9. CASE ClearState \/ ClearQueue \/ ClearJournal
  BY <1>9 DEF ClearState, ClearQueue, ClearJournal, ToMenu, PassInv, Writing,
              Clearing, InLoop
<1>10. CASE Skip
  <2>1. /\ pc = "next" /\ position' = position + 1 /\ UNCHANGED <<pc, task, mem>>
        /\ mem.status[Order[position]] \notin {"pending", "processing"}
    BY <1>10, <1>n DEF Skip, Settled, Removed, Status
  <2>2. \A i \in 1..(position' - 1) : i \in 1..(position - 1) \/ i = position
    BY <1>p, <2>1
  <2> QED
    BY <2>1, <2>2 DEF PassInv, Writing, Clearing, InLoop
<1>11. CASE Begin
  <2>1. /\ pc = "next" /\ pc' = "journal" /\ task' = "start"
        /\ position \in 1..Len(Order)
        /\ \A o \in Objects :
             mem'.status[o] = IF o = Current THEN "processing" ELSE mem.status[o]
        /\ position' = position
    BY <1>11, BeginIs
  <2>2. \A i \in 1..(position - 1) : Order[i] # Current /\ Order[i] \in Objects
    BY <1>o, <1>p, <2>1, ObjectsAssumption, OrderTypes DEF Current
  <2> QED
    BY <2>1, <2>2 DEF PassInv, Writing, Clearing, InLoop
<1>12. CASE \E status \in Reports : Request(status)
  <2>0. PICK status \in Reports : Request(status)
    BY <1>12
  <2>1. /\ pc = "request" /\ pc' = "journal" /\ task' = "outcome"
        /\ position \in 1..Len(Order)
        /\ Current \in Objects /\ Current' = Current
        /\ \A o \in Objects :
             mem'.status[o] = IF o = Current THEN status ELSE mem.status[o]
        /\ position' = position
    BY <2>0, RequestIs
  <2>2. \A i \in 1..(position - 1) : Order[i] # Current /\ Order[i] \in Objects
    BY <1>o, <1>p, <2>1, ObjectsAssumption, OrderTypes DEF Current
  <2> QED
    BY <2>1, <2>2 DEF PassInv, Writing, Clearing, InLoop
<1>13. CASE Finish
  <2>1. position = Len(Order) + 1
    BY <1>13, <1>p DEF Finish
  <2> QED
    BY <1>13, <2>1 DEF Finish, PassInv, Writing, Clearing, InLoop
<1>14. CASE Interrupt
  <2>1. /\ pc \in {"journal", "checkpoint", "request"}
        /\ pc' = "journal" /\ task' = "interrupt"
        /\ UNCHANGED <<mem, position>>
    BY <1>14, InterruptIs
  <2> QED
    BY <2>1 DEF PassInv, Writing, Clearing, InLoop
<1>15. CASE \E o \in Objects : OthersChange(o)
  <2>1. UNCHANGED <<pc, task, mem, position>> /\ Current' = Current
    BY <1>15 DEF OthersChange, process, Current
  <2> QED
    BY <2>1 DEF PassInv, Writing
<1> QED
  BY <1>1, <1>2, <1>3, <1>4, <1>5, <1>6, <1>7, <1>8, <1>9, <1>10, <1>11, <1>12,
     <1>13, <1>14, <1>15 DEF Next, Step, User, Environment

(* Every step keeps what is called removed among what has been absent.     *)
LEMMA GoneStep ==
  ASSUME IInv, PassInv, GoneInv, Next
  PROVE  GoneInv'
<1>r. "pending" \notin Removed /\ "processing" \notin Removed /\ None \notin Removed
  BY NoneAssumption DEF Removed, Status
<1>1. ASSUME UNCHANGED <<library, recorded, gone, overlapped>>, mem' = mem \/ mem' = None
      PROVE  GoneInv'
  BY <1>1 DEF GoneInv
<1>2. CASE \/ Start \/ Exit \/ Confirm \/ Decline \/ ReconcileFails
           \/ Crash \/ WriteFails
  BY <1>1, <1>2 DEF Start, Exit, Confirm, Decline, ReconcileFails, Crash, WriteFails,
                    Lose, ToMenu, history
<1>3. CASE \E s \in Scopes : Estimate(s)
  <2>1. /\ UNCHANGED <<library, recorded, gone, overlapped>>
        /\ \A o \in Objects : mem'.status[o] \in {"pending", None}
    BY <1>3 DEF Estimate, Planned, history
  <2> QED
    BY <1>r, <2>1 DEF GoneInv
<1>4. CASE Accept
  <2>1. /\ pc = "offered" /\ mem' = Replayed(queueDoc, journal)
        /\ UNCHANGED <<library, recorded, gone, overlapped>>
    BY <1>4 DEF Accept, history
  <2>2. ~overlapped => mem'.status = recorded
    BY <2>1 DEF IInv, PhaseInv, Loadable, FilesInv, ReadsBack
  <2> QED
    BY <2>1, <2>2 DEF GoneInv
<1>5. CASE Reconcile
  <2>1. /\ mem # None
        /\ \A o \in Objects : mem'.status[o] \in Removed => mem.status[o] \in Removed \/ o \notin library
        /\ UNCHANGED <<library, recorded, gone, overlapped>>
    BY <1>5, ReconcileIs
  <2> QED
    BY <2>1 DEF GoneInv
<1>6. CASE ReplaceQueue
  <2>1. /\ mem # None /\ recorded' = mem.status /\ UNCHANGED <<library, mem>>
        /\ task = "execute" => gone' = Objects \ library
        /\ task # "execute" => UNCHANGED <<gone, overlapped>>
    BY <1>6 DEF ReplaceQueue, IInv, PhaseInv
  <2>2. task = "execute" => \A o \in Objects : mem.status[o] \in {"pending", None}
    BY <1>6 DEF ReplaceQueue, IInv, PhaseInv
  <2> QED
    BY <1>r, <2>1, <2>2 DEF GoneInv
<1>7. CASE AppendRecord
  <2>1. /\ mem # None /\ recorded' = mem.status /\ mem'.status = mem.status
        /\ UNCHANGED <<library, gone, overlapped>>
    BY <1>7, AppendIs
  <2> QED
    BY <2>1 DEF GoneInv
<1>8. CASE SaveState
  <2>1. /\ pc = "checkpoint"
        /\ mem' = mem \/ mem' = None
        /\ UNCHANGED <<library, recorded, gone>>
        /\ overlapped' = (overlapped /\ task # "execute")
    BY <1>8 DEF SaveState
  <2>2. CASE task = "execute"
    <3>1. \A o \in Objects : mem.status[o] \in {"pending", None}
      BY <2>1, <2>2 DEF PassInv, Writing
    <3>2. \A o \in Objects : recorded[o] = mem.status[o]
      BY <2>1 DEF IInv, WorkInv, QueueInv, Working
    <3> QED
      BY <1>r, <2>1, <3>1, <3>2 DEF GoneInv
  <2>3. CASE task # "execute"
    <3>1. overlapped' <=> overlapped
      BY <2>1, <2>3
    <3> QED
      BY <2>1, <3>1 DEF GoneInv
  <2> QED
    BY <2>2, <2>3
<1>9. CASE UnlinkJournal \/ ClearState \/ ClearQueue \/ ClearJournal \/ Skip \/ Finish
  BY <1>1, <1>9 DEF UnlinkJournal, ClearState, ClearQueue, ClearJournal, ToMenu, Skip,
                    Finish, history
<1>10. CASE Begin
  <2>1. /\ mem # None
        /\ \A o \in Objects :
             mem'.status[o] = IF o = Current THEN "processing" ELSE mem.status[o]
        /\ UNCHANGED <<library, recorded, gone, overlapped>>
    BY <1>10, BeginIs DEF history
  <2> QED
    BY <1>r, <2>1 DEF GoneInv
<1>11. CASE \E status \in Reports : Request(status)
  <2>0. PICK status \in Reports : Request(status)
    BY <1>11
  <2>1. /\ mem # None
        /\ \A o \in Objects :
             mem'.status[o] = IF o = Current THEN status ELSE mem.status[o]
        /\ gone' = gone \cup (Objects \ library')
        /\ status \in Removed => Current \notin library'
        /\ UNCHANGED <<recorded, overlapped>>
    BY <2>0, RequestIs
  <2> QED
    BY <2>1 DEF GoneInv
<1>12. CASE Interrupt
  <2>1. /\ mem # None
        /\ \A o \in Objects : recorded'[o] \in {recorded[o], mem.status[o]}
        /\ gone' = gone \cup (Objects \ library')
        /\ UNCHANGED <<mem, overlapped>>
    BY <1>12, InterruptIs
  <2> QED
    BY <2>1 DEF GoneInv
<1>13. CASE \E o \in Objects : OthersChange(o)
  BY <1>13 DEF OthersChange, process, GoneInv
<1> QED
  BY <1>2, <1>3, <1>4, <1>5, <1>6, <1>7, <1>8, <1>9, <1>10, <1>11, <1>12, <1>13
     DEF Next, Step, User, Environment

(* Every step keeps what is in doubt recorded as in flight.                *)
LEMMA DoubtStep ==
  ASSUME IInv, PassInv, DoubtInv, Next
  PROVE  DoubtInv'
<1>p. /\ position \in 1..(Len(Order) + 1) /\ Len(Order) \in Nat
      /\ unsure \subseteq Objects /\ position \in Nat
  BY OrderTypes DEF IInv, TypeOK
<1>q. ASSUME queueDoc # None, unsure # {} PROVE ReadsBack
  BY <1>q DEF DoubtInv
<1>1. ASSUME UNCHANGED <<queueDoc, journal, unsure, recorded>>,
             pc' \notin {"unlink", "checkpoint", "journal", "next", "request", "reconcile"},
             pc' = "replace" => task' \in {"execute", "finish"}
      PROVE  DoubtInv'
  <2>1. ReadsBack' <=> ReadsBack
    BY <1>1 DEF ReadsBack
  <2> QED
    BY <1>1, <2>1 DEF DoubtInv, Writing, InLoop
<1>2. CASE \/ Start \/ Exit \/ Decline \/ ReconcileFails \/ Confirm
           \/ \E s \in Scopes : Estimate(s)
  BY <1>1, <1>2 DEF Start, Exit, Decline, ReconcileFails, Confirm, Estimate,
                    ToMenu, files, history
<1>3. CASE Finish
  BY <1>1, <1>3 DEF Finish, files, history
<1>4. CASE ClearState \/ ClearQueue \/ ClearJournal
  <2>1. CASE ClearState
    BY <1>1, <2>1 DEF ClearState, history
  <2>2. CASE ClearQueue \/ ClearJournal
    <3>1. queueDoc' = None /\ pc' \in {"clear_journal", "menu"}
      BY <2>2 DEF ClearQueue, ClearJournal, ToMenu, IInv, WorkInv, ReplacedInv
    <3> QED
      BY <3>1 DEF DoubtInv, Writing, InLoop
  <2> QED
    BY <1>4, <2>1, <2>2
<1>5. CASE Accept
  <2>1. /\ pc = "offered" /\ pc' = "reconcile" /\ mem' = Replayed(queueDoc, journal)
        /\ UNCHANGED <<queueDoc, journal, unsure, recorded>>
    BY <1>5 DEF Accept, files, history
  <2>2. queueDoc # None
    BY <2>1 DEF IInv, PhaseInv, Loadable
  <2>3. unsure # {} => mem'.status = recorded
    BY <1>q, <2>1, <2>2 DEF ReadsBack
  <2>4. ReadsBack' <=> ReadsBack
    BY <2>1 DEF ReadsBack
  <2> QED
    BY <2>1, <2>2, <2>3, <2>4 DEF DoubtInv, Writing, InLoop
<1>6. CASE Reconcile
  <2>1. /\ pc = "reconcile" /\ pc' = "replace" /\ task' = "resume"
        /\ \A o \in Objects : mem.status[o] \in InDoubt => o \notin unsure'
        /\ unsure' \subseteq unsure
        /\ UNCHANGED <<queueDoc, journal, recorded>>
    BY <1>6, ReconcileIs DEF files
  <2>2. \A o \in unsure : mem.status[o] \in InDoubt
    BY <2>1 DEF DoubtInv
  <2>3. unsure' = {}
    BY <1>p, <2>1, <2>2
  <2> QED
    BY <2>1, <2>3 DEF DoubtInv, Writing, InLoop
<1>7. CASE ReplaceQueue
  <2>1. /\ pc = "replace" /\ pc' = "unlink" /\ task' = task
        /\ task \in {"execute", "resume", "finish"}
        /\ task = "execute" => unsure' = {}
        /\ task # "execute" => unsure' = unsure
    BY <1>7 DEF ReplaceQueue, IInv, PhaseInv
  <2>2. CASE task # "finish"
    <3>1. unsure' = {}
      BY <2>1, <2>2 DEF DoubtInv, Writing
    <3> QED
      BY <2>1, <3>1 DEF DoubtInv, InLoop
  <2>3. CASE task = "finish"
    <3>1. /\ unsure' = unsure /\ queueDoc # None
          /\ \A o \in Objects : recorded[o] = mem.status[o]
          /\ recorded' = mem.status
      BY <2>1, <2>3, <1>7 DEF ReplaceQueue, IInv, WorkInv, QueueInv, Working
    <3>2. ReadsBack'
      BY <1>7, <2>3, FinishedReadsBack
    <3>3. \A o \in unsure : recorded'[o] \in InDoubt
      BY <1>p, <3>1 DEF DoubtInv
    <3> QED
      BY <2>1, <2>3, <3>1, <3>2, <3>3 DEF DoubtInv, Writing, InLoop
  <2> QED
    BY <2>2, <2>3
<1>8. CASE UnlinkJournal
  <2>1. /\ pc = "unlink" /\ pc' = "checkpoint" /\ UNCHANGED <<task, position, unsure, recorded>>
        /\ task \in {"execute", "resume", "finish"}
        /\ ReadsBack'
        /\ queueDoc # None /\ UNCHANGED <<queueDoc, mem>>
        /\ recorded = mem.status
    BY <1>8, FilesAfterCompaction DEF UnlinkJournal, IInv, PhaseInv, WorkInv, ReplacedInv, history
  <2>2. CASE task # "finish"
    <3>1. unsure' = {}
      BY <2>1, <2>2 DEF DoubtInv, Writing
    <3> QED
      BY <2>1, <3>1 DEF DoubtInv, InLoop
  <2>3. CASE task = "finish"
    <3>1. position = Len(Order) + 1
      BY <2>1, <2>3 DEF PassInv, Writing
    <3>2. \A o \in unsure : \E i \in 1..position : o = Order[i] /\ i # position
      <4> TAKE o \in unsure
      <4>1. PICK i \in DOMAIN Order : Order[i] = o
        BY <1>p, ObjectsAssumption
      <4>2. i \in 1..position /\ i # position
        BY <1>p, <3>1, <4>1, OrderTypes
      <4> QED
        BY <4>1, <4>2
    <3> QED
      BY <2>1, <2>3, <3>2 DEF DoubtInv, Writing, InLoop
  <2> QED
    BY <2>2, <2>3
<1>9. CASE AppendRecord
  <2>1. /\ pc = "journal" /\ pc' = "checkpoint" /\ task \in Records
        /\ Current' = Current
        /\ recorded' = mem.status /\ mem'.status = mem.status
        /\ queueDoc # None /\ ReadsBack'
        /\ UNCHANGED <<queueDoc, task, position, unsure>>
    BY <1>9, AppendIs
  <2>2. \A o \in Objects : recorded[o] = mem.status[o] \/ o = Current
    BY <2>1 DEF IInv, WorkInv, QueueInv, Working, InLoop
  <2>3. \A o \in unsure : recorded'[o] \in InDoubt
    BY <1>p, <2>1, <2>2 DEF DoubtInv
  <2>4. \A o \in unsure : \E i \in 1..position :
          /\ o = Order[i]
          /\ i = position => task \in {"outcome", "interrupt"}
    BY <2>1 DEF DoubtInv, InLoop
  <2> QED
    BY <2>1, <2>3, <2>4 DEF DoubtInv, Writing, InLoop, Records
<1>10. CASE SaveState
  <2>1. /\ pc = "checkpoint" /\ pc' = AfterCheckpoint
        /\ position' = IF task = "outcome" THEN position + 1 ELSE position
        /\ UNCHANGED <<queueDoc, journal, unsure, recorded, task>>
    BY <1>10 DEF SaveState
  <2>2. CASE pc' \notin {"request", "next"}
    BY <1>1, <2>1, <2>2 DEF AfterCheckpoint
  <2>3. CASE pc' \in {"request", "next"}
    <3>1. task # "interrupt"
      BY <2>1, <2>3 DEF AfterCheckpoint
    <3>2. \A o \in unsure : \E i \in 1..position :
            o = Order[i] /\ (i = position => task \in {"outcome", "interrupt"})
      BY <2>1 DEF DoubtInv
    <3>3. \A i \in 1..position : i \in 1..position' /\
            ((i = position => task \in {"outcome", "interrupt"}) => i # position')
      BY <1>p, <2>1, <3>1
    <3>4. \A o \in unsure : \E i \in 1..position' : o = Order[i] /\ i # position'
      BY <3>2, <3>3
    <3>5. ReadsBack' <=> ReadsBack
      BY <2>1 DEF ReadsBack
    <3> QED
      BY <2>1, <2>3, <3>4, <3>5 DEF DoubtInv, Writing, InLoop
  <2> QED
    BY <2>2, <2>3
<1>11. CASE Skip
  <2>1. /\ pc = "next" /\ pc' = "next" /\ position' = position + 1
        /\ UNCHANGED <<queueDoc, journal, unsure, recorded, task, mem>>
    BY <1>11 DEF Skip, files, history
  <2>2. ReadsBack' <=> ReadsBack
    BY <2>1 DEF ReadsBack
  <2>3. \A o \in unsure : \E i \in 1..position : o = Order[i]
    BY <2>1 DEF DoubtInv, InLoop
  <2>4. \A i \in 1..position : i \in 1..position' /\ i # position'
    BY <1>p, <2>1
  <2>5. \A o \in unsure : \E i \in 1..position' : o = Order[i] /\ i # position'
    BY <2>3, <2>4
  <2> QED
    BY <2>1, <2>2, <2>5 DEF DoubtInv, Writing, InLoop
<1>12. CASE Begin
  <2>1. /\ pc = "next" /\ pc' = "journal" /\ task' = "start"
        /\ Current' = Current /\ position \in 1..Len(Order)
        /\ UNCHANGED <<queueDoc, journal, unsure, recorded, position>>
    BY <1>12, BeginIs DEF files, history
  <2>2. ReadsBack' <=> ReadsBack
    BY <2>1 DEF ReadsBack
  <2>3. \A o \in unsure : \E i \in 1..position : o = Order[i] /\ i # position
    BY <2>1 DEF DoubtInv, InLoop
  <2>4. Current \notin unsure
    BY <2>1, <2>3, CurrentNotPassed
  <2> QED
    BY <2>1, <2>2, <2>3, <2>4 DEF DoubtInv, Writing, InLoop
<1>13. CASE \E status \in Reports : Request(status)
  <2>0. PICK status \in Reports : Request(status)
    BY <1>13
  <2>1. /\ pc = "request" /\ pc' = "journal" /\ task' = "outcome"
        /\ Current \in Objects /\ Current' = Current /\ position \in 1..Len(Order)
        /\ mem'.status[Current] = status
        /\ recorded[Current] = "processing"
        /\ queueDoc # None /\ ReadsBack
        /\ unsure' = IF status = "ambiguous" THEN unsure \cup {Current} ELSE unsure
        /\ UNCHANGED <<queueDoc, journal, position, recorded>>
    BY <2>0, RequestIs DEF files
  <2>2. ReadsBack'
    BY <2>1 DEF ReadsBack
  <2>3. \A o \in unsure : \E i \in 1..position : o = Order[i] /\ i # position
    BY <2>1 DEF DoubtInv, InLoop
  <2>4. Current \notin unsure
    BY <2>1, <2>3, CurrentNotPassed
  <2>5. \A o \in unsure' : o \in unsure \/ (o = Current /\ status = "ambiguous")
    BY <2>1
  <2>6. \A o \in unsure' : recorded'[o] \in InDoubt
    BY <2>1, <2>5 DEF DoubtInv, InDoubt
  <2>7. \A o \in unsure' : \E i \in 1..position : o = Order[i]
    <3>1. position \in 1..position
      BY <1>p, <2>1
    <3> QED
      BY <2>3, <2>5, <3>1 DEF Current
  <2>8. Current \in unsure' => mem'.status[Current] \in InDoubt
    BY <2>1, <2>4, <2>5 DEF InDoubt
  <2> QED
    BY <2>1, <2>2, <2>6, <2>7, <2>8 DEF DoubtInv, Writing, InLoop
<1>14. CASE Crash \/ WriteFails
  <2>1. /\ pc' \in {"down", "menu"}
        /\ ReadsBack => ReadsBack'
        /\ unsure' = IF pc = "journal" /\ task = "outcome"
                     THEN unsure \cup {Current} ELSE unsure
        /\ UNCHANGED <<queueDoc, recorded>>
    BY <1>14, LoseIs DEF Crash, WriteFails
  <2>2. CASE pc = "journal" /\ task = "outcome"
    <3>1. ReadsBack /\ recorded[Current] = "processing" /\ queueDoc # None
      BY <2>2 DEF DoubtInv, IInv, WorkInv, QueueInv, Working, InLoop
    <3>2. \A o \in unsure' : o \in unsure \/ o = Current
      BY <2>1, <2>2
    <3>3. \A o \in unsure' : recorded'[o] \in InDoubt
      BY <2>1, <3>1, <3>2 DEF DoubtInv, InDoubt
    <3> QED
      BY <2>1, <3>1, <3>3 DEF DoubtInv, Writing, InLoop
  <2>3. CASE ~(pc = "journal" /\ task = "outcome")
    <3>1. unsure' = unsure
      BY <2>1, <2>3
    <3> QED
      BY <2>1, <3>1 DEF DoubtInv, Writing, InLoop
  <2> QED
    BY <2>2, <2>3
<1>15. CASE Interrupt
  <2>1. /\ pc \in {"journal", "checkpoint", "request"}
        /\ pc' = "journal" /\ task' = "interrupt" /\ task \in {"start", "outcome"}
        /\ Current \in Objects /\ Current' = Current
        /\ queueDoc # None /\ ReadsBack'
        /\ \A o \in Objects :
             /\ recorded'[o] \in {recorded[o], mem.status[o]}
             /\ recorded[o] = mem.status[o] \/ (pc = "journal" /\ o = Current)
        /\ unsure' = IF pc = "request" THEN unsure \cup {Current} ELSE unsure
        /\ UNCHANGED <<queueDoc, mem, position>>
    BY <1>15, InterruptIs
  <2>2. position \in 1..Len(Order) /\ (pc = "request" => mem.status[Current] = "processing")
    BY <2>1, CurrentTypes, OrderTypes DEF IInv, PhaseInv, Records
  <2>3. \A o \in unsure' : o \in unsure \/ (o = Current /\ pc = "request")
    BY <2>1
  <2>4. \A o \in unsure : recorded[o] \in InDoubt
    BY <2>1 DEF DoubtInv
  <2>5. \A o \in unsure' : mem.status[o] \in InDoubt
    BY <1>p, <2>1, <2>2, <2>3, <2>4 DEF DoubtInv, InDoubt
  <2>6. \A o \in unsure' : recorded'[o] \in InDoubt
    BY <1>p, <2>1, <2>3, <2>4, <2>5
  <2>7. \A o \in unsure' : \E i \in 1..position : o = Order[i]
    <3>1. position \in 1..position
      BY <1>p, <2>2
    <3>2. \A o \in unsure : \E i \in 1..position : o = Order[i]
      BY <2>1 DEF DoubtInv, InLoop
    <3> QED
      BY <2>3, <3>1, <3>2 DEF Current
  <2> QED
    BY <2>1, <2>5, <2>6, <2>7 DEF DoubtInv, Writing, InLoop
<1>16. CASE \E o \in Objects : OthersChange(o)
  <2>1. UNCHANGED <<queueDoc, journal, pc, task, mem, position, recorded, unsure>>
    BY <1>16 DEF OthersChange, files, process
  <2>2. (ReadsBack' <=> ReadsBack) /\ Current' = Current
    BY <2>1 DEF ReadsBack, Current
  <2> QED
    BY <2>1, <2>2 DEF DoubtInv, Writing
<1> QED
  BY <1>2, <1>3, <1>4, <1>5, <1>6, <1>7, <1>8, <1>9, <1>10, <1>11, <1>12, <1>13,
     <1>14, <1>15, <1>16 DEF Next, Step, User, Environment

(* Every step keeps the counters of the checkpoint behind the records.     *)
LEMMA CountStep ==
  ASSUME IInv, CountInv, Next
  PROVE  CountInv'
<1> DEFINE Counted == {o \in Objects : recorded[o] \in Removed}
<1>f. ASSUME NEW S \in SUBSET Objects, NEW T \in SUBSET Objects, S \subseteq T
      PROVE  Cardinality(S) <= Cardinality(T)
  <2>1. IsFiniteSet(T) /\ S \in SUBSET T
    BY <1>f, ObjectsAssumption, FS_Subset
  <2> QED
    BY <2>1, FS_Subset
<1>t. Cardinality(Counted) \in Nat /\ Cardinality(Counted') \in Nat
  <2>1. Counted \subseteq Objects /\ Counted' \subseteq Objects
    OBVIOUS
  <2> HIDE DEF Counted
  <2>2. IsFiniteSet(Counted) /\ IsFiniteSet(Counted')
    BY <2>1, ObjectsAssumption, FS_Subset
  <2> QED
    BY <2>2, FS_CardinalityType
<1>s. stateDoc # None => stateDoc.completed \in Nat
  BY DEF IInv, TypeOK, Checkpoint
<1>1. ASSUME \A o \in Objects : recorded[o] \in Removed => recorded'[o] \in Removed,
             stateDoc' = stateDoc, overlapped' = overlapped,
             queueDoc' # None => queueDoc # None
      PROVE  CountInv'
  <2>1. Counted \subseteq Counted'
    BY <1>1
  <2>2. Cardinality(Counted) <= Cardinality(Counted')
    BY <1>f, <2>1
  <2>3. ASSUME queueDoc' # None, stateDoc' # None, ~overlapped'
        PROVE  stateDoc'.completed <= Cardinality(Counted')
    <3>1. stateDoc.completed <= Cardinality(Counted)
      BY <1>1, <2>3 DEF CountInv
    <3> HIDE DEF Counted
    <3> QED
      BY <1>1, <1>s, <1>t, <2>2, <2>3, <3>1
  <2> QED
    BY <2>3 DEF CountInv
<1>2. CASE SaveState
  <2>1. /\ pc = "checkpoint" /\ stateDoc' = Refreshed /\ recorded' = recorded
    BY <1>2 DEF SaveState
  <2>2. \A o \in Objects : recorded[o] = mem.status[o]
    BY <2>1 DEF IInv, WorkInv, QueueInv, Working
  <2>3. WithStatus(mem, Removed) = Counted'
    BY <2>1, <2>2 DEF WithStatus
  <2>4. stateDoc'.completed = Cardinality(Counted')
    BY <2>1, <2>3 DEF Refreshed
  <2>5. stateDoc'.completed <= Cardinality(Counted')
    <3> HIDE DEF Counted
    <3> QED
      BY <1>t, <2>4
  <2> QED
    BY <2>5 DEF CountInv
<1>3. CASE ReplaceQueue
  <2>1. CASE task = "execute"
    <3>1. stateDoc' # None => overlapped'
      BY <1>3, <2>1 DEF ReplaceQueue
    <3> QED
      BY <3>1 DEF CountInv
  <2>2. CASE task # "execute"
    <3>1. pc = "replace" /\ task \in {"resume", "finish"} /\ recorded' = mem.status
          /\ UNCHANGED <<stateDoc, overlapped>>
      BY <1>3, <2>2 DEF ReplaceQueue, IInv, PhaseInv
    <3>2. queueDoc # None
      BY <3>1 DEF IInv, ResumeInv, Resuming, Loadable, WorkInv, QueueInv, Working
    <3>3. \A o \in Objects : recorded[o] \in Settled => mem.status[o] = recorded[o]
      BY <3>1 DEF IInv, ResumeInv, Resuming, WorkInv, QueueInv, Working
    <3> QED
      BY <1>1, <3>1, <3>2, <3>3 DEF Settled
  <2> QED
    BY <2>1, <2>2
<1>4. CASE AppendRecord \/ Interrupt
  <2>1. /\ pc' \in {"journal", "checkpoint"}
        /\ \A o \in Objects :
             recorded[o] \in Settled => recorded'[o] = recorded[o]
        /\ UNCHANGED <<stateDoc, overlapped, queueDoc>>
    BY <1>4, RecordsSettled DEF AppendRecord, Interrupt
  <2> QED
    BY <1>1, <2>1 DEF Settled
<1>5. CASE ClearState \/ ClearQueue
  BY <1>5 DEF ClearState, ClearQueue, CountInv
<1>6. CASE UnlinkJournal \/ ClearJournal \/ Skip \/ Begin \/ Finish
           \/ \E status \in Reports : Request(status)
  BY <1>1, <1>6 DEF UnlinkJournal, ClearJournal, Skip, Begin, Finish, Request, files, history
<1>7. CASE User \/ Reconcile \/ ReconcileFails
  BY <1>1, <1>7 DEF User, Start, Exit, Confirm, Decline, Accept, Estimate, Reconcile,
                    ReconcileFails, files, history
<1>8. CASE Crash \/ WriteFails \/ \E o \in Objects : OthersChange(o)
  BY <1>1, <1>8 DEF Crash, WriteFails, Lose, OthersChange, files
<1> QED
  BY <1>2, <1>3, <1>4, <1>5, <1>6, <1>7, <1>8 DEF Next, Step, Environment

(* What the history says is true of every reachable state.                 *)
LEMMA HistoryInvariant == Spec => []HistoryInv
<1>1. Init => HistoryInv
  <2> SUFFICES ASSUME Init PROVE HistoryInv
    OBVIOUS
  <2>1. PassInv
    BY DEF Init, PassInv, Writing, Clearing, InLoop
  <2>2. GoneInv
    BY NoneAssumption DEF Init, GoneInv, Removed, Status
  <2>3. DoubtInv
    BY DEF Init, DoubtInv, Writing, InLoop
  <2>4. CountInv
    BY DEF Init, CountInv
  <2> QED
    BY <2>1, <2>2, <2>3, <2>4 DEF HistoryInv
<1>2. IInv /\ HistoryInv /\ [Next]_vars => HistoryInv'
  <2> SUFFICES ASSUME IInv, HistoryInv, [Next]_vars PROVE HistoryInv'
    OBVIOUS
  <2>1. CASE Next
    BY <2>1, PassStep, GoneStep, DoubtStep, CountStep DEF HistoryInv
  <2>2. CASE UNCHANGED vars
    <3>1. UNCHANGED <<library, queueDoc, journal, stateDoc, pc, task, mem, position,
                      recorded, gone, unsure, overlapped>>
      BY <2>2 DEF vars, files, process, history
    <3>2. (ReadsBack' <=> ReadsBack) /\ Current' = Current
      BY <3>1 DEF ReadsBack, Current
    <3>3. PassInv'
      BY <3>1, <3>2 DEF HistoryInv, PassInv, Writing
    <3>4. GoneInv' /\ CountInv'
      BY <3>1 DEF HistoryInv, GoneInv, CountInv
    <3>5. DoubtInv'
      BY <3>1, <3>2 DEF HistoryInv, DoubtInv, Writing
    <3> QED
      BY <3>3, <3>4, <3>5 DEF HistoryInv
  <2> QED
    BY <2>1, <2>2
<1> QED
  BY Invariant, <1>1, <1>2, PTL DEF Spec

(* A deletion of unknown outcome is never sent again before the library    *)
(* has been read (_reconcile_interrupted_items), whatever stopped between  *)
(* the deletion, its record and the checkpoint.                            *)
THEOREM NothingRepeatedBlindly == Spec => []NoBlindRepeat
<1>1. IInv /\ HistoryInv => NoBlindRepeat
  <2> SUFFICES ASSUME IInv, HistoryInv, pc = "request" PROVE Current \notin unsure
    BY DEF NoBlindRepeat, Current
  <2>1. position \in 1..Len(Order)
    BY OrderTypes DEF IInv, PhaseInv
  <2>2. \A o \in unsure : \E i \in 1..position : o = Order[i] /\ i # position
    BY DEF HistoryInv, DoubtInv, InLoop
  <2> QED
    BY <2>1, <2>2, CurrentNotPassed
<1> QED
  BY Invariant, HistoryInvariant, <1>1, PTL

(* What the files call removed has been absent at some moment since the    *)
(* cleanup began (_process, _reconcile_interrupted_items).                 *)
THEOREM RemovedHasBeenAbsent == Spec => []RemovedWasAbsent
<1>1. IInv /\ HistoryInv => RemovedWasAbsent
  BY DEF IInv, FilesInv, HistoryInv, GoneInv, RemovedWasAbsent, ReadsBack, WithStatus
<1> QED
  BY Invariant, HistoryInvariant, <1>1, PTL

(* The files are only removed when every target has been absent (_process, *)
(* the clear at its end).                                                  *)
THEOREM FilesOutliveTargets == Spec => []ClearedAfterRemoval
<1>1. IInv /\ HistoryInv => ClearedAfterRemoval
  <2> SUFFICES ASSUME IInv, HistoryInv, pc \in Clearing, ~overlapped
               PROVE  Targets(mem) \subseteq gone
    BY DEF ClearedAfterRemoval, Clearing
  <2>1. mem # None
    BY DEF IInv, PhaseInv, Clearing
  <2>2. \A o \in Objects : mem.status[o] \in Removed \cup {None}
    BY DEF HistoryInv, PassInv
  <2>3. \A o \in Objects : mem.status[o] \in Removed => o \in gone
    BY <2>1 DEF HistoryInv, GoneInv
  <2> QED
    BY <2>2, <2>3 DEF Targets
<1> QED
  BY Invariant, HistoryInvariant, <1>1, PTL

(* The progress a start-up shows is never ahead of the queue (_persist).   *)
THEOREM ProgressIsBehind == Spec => []CountsBehindQueue
<1>1. IInv /\ HistoryInv => CountsBehindQueue
  <2> SUFFICES ASSUME IInv, HistoryInv, queueDoc # None, stateDoc # None, ~overlapped
               PROVE  stateDoc.completed
                        <= Cardinality(WithStatus(Replayed(queueDoc, journal), Removed))
    BY DEF CountsBehindQueue
  <2>1. Replayed(queueDoc, journal).status = recorded
    BY DEF IInv, FilesInv, ReadsBack
  <2>2. WithStatus(Replayed(queueDoc, journal), Removed)
          = {o \in Objects : recorded[o] \in Removed}
    BY <2>1 DEF WithStatus
  <2> QED
    BY <2>2 DEF HistoryInv, CountInv
<1> QED
  BY Invariant, HistoryInvariant, <1>1, PTL
============================================================================
