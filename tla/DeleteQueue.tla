----------------------------- MODULE DeleteQueue -----------------------------
(***************************************************************************)
(* Library cleanup of tidal_manager: a durable queue of deletions, worked  *)
(* off one object at a time by a process that may stop between any two of  *)
(* its steps, and resumed by a later one.                                  *)
(*                                                                         *)
(* What survives is three files: the queue document, a journal of status   *)
(* transitions appended to between two compactions, and a checkpoint with  *)
(* counters derived from the queue.  They are written one after another;   *)
(* a start-up has to make sense of whatever combination it finds.          *)
(***************************************************************************)
EXTENDS Integers, Sequences, FiniteSets

CONSTANTS
  Objects,       \* objects of the library: category and identifier
  Order,         \* the order in which from_plan lists them
  Scopes,        \* the cleanup scopes the user can choose
  Sections,      \* Sections[s]: the objects in the sections of scope s
  None,
  MaxOperations, \* bound on the cleanups the user prepares
  MaxStops,      \* bound on crashes, interrupts and failed file writes
  MaxRetries,    \* bound on resumptions of a finished cleanup
  MaxChanges     \* bound on changes to the library by other clients

Status ==
  {"pending", "processing", "completed", "already_absent",
   "failed_retryable", "failed_permanent", "ambiguous"}
Removed == {"completed", "already_absent"}
Failed == {"failed_retryable", "failed_permanent", "ambiguous"}
Settled == Removed \cup {"failed_permanent"}

(* A queue: its targets are the objects with a status, seq is              *)
(* last_applied_seq.  A journal record, torn when a crash cut it short.    *)
(* A checkpoint: the counters and flags of DeleteState that are read back. *)
Queue ==
  [operation : Scopes, status : [Objects -> Status \cup {None}], seq : Nat]
Record ==
  [object : Objects, status : Status, seq : Nat, torn : BOOLEAN]
Checkpoint ==
  [operation : Scopes, total : Nat, completed : Nat, failed : Nat,
   finished : BOOLEAN]

ASSUME ObjectsAssumption ==
  /\ IsFiniteSet(Objects)
  /\ Order \in Seq(Objects)
  /\ \A o \in Objects : \E i \in DOMAIN Order : Order[i] = o
  /\ \A i, j \in DOMAIN Order : Order[i] = Order[j] => i = j
  /\ Sections \in [Scopes -> SUBSET Objects]

ASSUME NoneAssumption == None \notin Status \cup Queue \cup Checkpoint

ASSUME BoundsAssumption ==
  /\ MaxOperations \in Nat
  /\ MaxStops \in Nat
  /\ MaxRetries \in Nat
  /\ MaxChanges \in Nat

VARIABLES
  library,     \* the objects in the account's library
  (* The files. *)
  queueDoc,    \* delete_queue.json, or None
  journal,     \* delete_queue.json.journal, empty when there is none
  stateDoc,    \* delete_state.json, or None
  (* The process. *)
  pc,          \* its next step
  task,        \* what it saves or records for
  mem,         \* the queue in memory, or None
  position,    \* the index of the object the loop is at
  (* History: what the properties compare the files with. *)
  recorded,    \* the statuses the running cleanup last wrote durably
  gone,        \* objects seen to be absent since this cleanup began
  unsure,      \* objects a deletion was sent for, with an unknown outcome
  overlapped,  \* this cleanup's queue replaced one that was not finished
  used         \* how much of each bound has been used

files == <<queueDoc, journal, stateDoc>>
process == <<pc, task, mem, position>>
history == <<recorded, gone, unsure, overlapped>>
vars == <<library, files, process, history, used>>

Tasks == {"execute", "resume", "start", "outcome", "interrupt", "finish"}
Steps == {"down", "menu", "confirm", "offered", "reconcile", "replace", "unlink",
          "checkpoint", "next", "journal", "request",
          "clear_state", "clear_queue", "clear_journal"}
Bounds == {"operations", "stops", "retries", "changes"}

TypeOK ==
  /\ library \subseteq Objects
  /\ queueDoc \in Queue \cup {None}
  /\ journal \in Seq(Record)
  /\ stateDoc \in Checkpoint \cup {None}
  /\ pc \in Steps
  /\ task \in Tasks
  /\ mem \in Queue \cup {None}
  /\ position \in 1..(Len(Order) + 1)
  /\ recorded \in [Objects -> Status \cup {None}]
  /\ gone \subseteq Objects
  /\ unsure \subseteq Objects
  /\ overlapped \in BOOLEAN
  /\ used \in [Bounds -> Nat]

Init ==
  /\ library \in SUBSET Objects
  /\ queueDoc = None
  /\ journal = <<>>
  /\ stateDoc = None
  /\ pc = "down"
  /\ task = "execute"
  /\ mem = None
  /\ position = 1
  /\ recorded = [o \in Objects |-> None]
  /\ gone = Objects \ library
  /\ unsure = {}
  /\ overlapped = FALSE
  /\ used = [b \in Bounds |-> 0]

Spend(b, limit) ==
  /\ used[b] < limit
  /\ used' = [used EXCEPT ![b] = @ + 1]
----------------------------------------------------------------------------
(* Reading the files back.                                                 *)
Targets(q) == {o \in Objects : q.status[o] # None}
WithStatus(q, statuses) == {o \in Objects : q.status[o] \in statuses}

(* Mutant of Fresh: last_applied_seq is not compared, so that a journal    *)
(* left beside a newer queue document is applied to it again.              *)
FreshUnnumbered(q, j) == {i \in DOMAIN j : ~j[i].torn}

(* The records load applies: numbered above the queue document and above   *)
(* every record before them.                                               *)
Fresh(q, j) ==
  {i \in DOMAIN j : /\ ~j[i].torn
                    /\ j[i].seq > q.seq
                    /\ \A k \in 1..(i - 1) : j[k].seq < j[i].seq}

(* Mutant of JournalReadable: a torn record is never tolerated.            *)
JournalReadableStrict(q, j) == \A i \in DOMAIN j : ~j[i].torn

(* load accepts a journal that is torn at its end only, and whose applied  *)
(* records are numbered without a gap and name targets of the queue.       *)
JournalReadable(q, j) ==
  /\ \A i \in DOMAIN j : j[i].torn => i = Len(j)
  /\ \A i \in Fresh(q, j) :
       /\ \/ j[i].seq = q.seq + 1
          \/ \E k \in Fresh(q, j) : k < i /\ j[k].seq + 1 = j[i].seq
       /\ j[i].object \in Targets(q)

Latest(S) == CHOOSE i \in S : \A k \in S : k <= i

StatusAfter(q, j, o) ==
  LET updates == {i \in Fresh(q, j) : j[i].object = o}
  IN IF updates = {} THEN q.status[o] ELSE j[Latest(updates)].status

Replayed(q, j) ==
  [operation |-> q.operation,
   status |-> [o \in Objects |-> StatusAfter(q, j, o)],
   seq |-> IF Fresh(q, j) = {} THEN q.seq ELSE j[Latest(Fresh(q, j))].seq]

(* load_resume_state and _load_persisted return instead of raising.        *)
Loadable ==
  /\ queueDoc # None
  /\ stateDoc # None
  /\ JournalReadable(queueDoc, journal)
  /\ stateDoc.operation = queueDoc.operation
  /\ stateDoc.total = Cardinality(Targets(queueDoc))
----------------------------------------------------------------------------
(* Preparing a cleanup and starting the program.                           *)
ToMenu ==
  /\ pc' = "menu"
  /\ mem' = None

Start ==
  /\ pc = "down"
  /\ pc' = IF Loadable THEN "offered" ELSE "menu"
  /\ UNCHANGED <<library, files, task, mem, position, history, used>>

Exit ==
  /\ pc = "menu"
  /\ pc' = "down"
  /\ UNCHANGED <<library, files, task, mem, position, history, used>>

Planned(s) ==
  [operation |-> s,
   status |-> [o \in Objects |->
                 IF o \in Sections[s] \cap library THEN "pending" ELSE None],
   seq |-> 0]

(* estimate_cleanup read every section in scope; the backup is complete.   *)
Estimate(s) ==
  /\ pc = "menu"
  /\ Spend("operations", MaxOperations)
  /\ mem' = Planned(s)
  /\ pc' = "confirm"
  /\ UNCHANGED <<library, files, task, position, history>>

Confirm ==
  /\ pc = "confirm"
  /\ pc' = "replace"
  /\ task' = "execute"
  /\ position' = 1
  /\ UNCHANGED <<library, files, mem, history, used>>

Decline ==
  /\ pc \in {"confirm", "offered"}
  /\ ToMenu
  /\ UNCHANGED <<library, files, task, position, history, used>>
----------------------------------------------------------------------------
(* Resuming one.                                                           *)
Accept ==
  /\ pc = "offered"
  /\ IF stateDoc.finished THEN Spend("retries", MaxRetries) ELSE UNCHANGED used
  /\ mem' = Replayed(queueDoc, journal)
  /\ position' = 1
  /\ pc' = "reconcile"
  /\ UNCHANGED <<library, files, task, history>>

(* Mutant of InFlight: a time-out is taken for a failure.                  *)
InFlightProcessing(q) == WithStatus(q, {"processing"})

InFlight(q) == WithStatus(q, {"processing", "ambiguous"})

(* Mutant of Reconciled: what was in flight is taken for done.             *)
ReconciledBlindly(q) ==
  [o \in Objects |->
     IF o \notin InFlight(q) THEN q.status[o] ELSE "completed"]

Reconciled(q) ==
  [o \in Objects |->
     IF o \notin InFlight(q) THEN q.status[o]
     ELSE IF o \in library THEN "pending" ELSE "completed"]

(* Mutants of Reset: permanent failures are reset as well; a failure keeps *)
(* a status the queue does not know.                                       *)
ResetAll(status) ==
  [o \in Objects |->
     IF stateDoc.finished /\ stateDoc.failed > 0 /\ status[o] \in Failed
     THEN "pending" ELSE status[o]]
ResetToFailed(status) ==
  [o \in Objects |->
     IF stateDoc.finished /\ status[o] \in Failed THEN "failed" ELSE status[o]]

(* reset_failed_items, when the previous run ended with failures.          *)
Reset(status) ==
  [o \in Objects |->
     IF /\ stateDoc.finished
        /\ stateDoc.failed > 0
        /\ status[o] = "failed_retryable"
     THEN "pending" ELSE status[o]]

(* Mutant of Reconcile: a target in flight that is still there is taken    *)
(* for a failed deletion that must not be repeated.                        *)
ReconcileStrictly ==
  /\ pc = "reconcile"
  /\ InFlight(mem) \cap library = {}
  /\ mem' = [mem EXCEPT !.status = Reset(Reconciled(mem))]
  /\ unsure' = unsure \ InFlight(mem)
  /\ pc' = "replace"
  /\ task' = "resume"
  /\ UNCHANGED <<library, files, position, recorded, gone, overlapped, used>>

Reconcile ==
  /\ pc = "reconcile"
  /\ mem' = [mem EXCEPT !.status = Reset(Reconciled(mem))]
  /\ unsure' = unsure \ InFlight(mem)
  /\ pc' = "replace"
  /\ task' = "resume"
  /\ UNCHANGED <<library, files, position, recorded, gone, overlapped, used>>

(* The export needed for it was incomplete or failed.                      *)
ReconcileFails ==
  /\ pc = "reconcile"
  /\ InFlight(mem) # {}
  /\ ToMenu
  /\ UNCHANGED <<library, files, task, position, history, used>>
----------------------------------------------------------------------------
(* Writing the files.  save replaces the queue document and then removes   *)
(* the journal; execute, resume and the end of _process save the           *)
(* checkpoint after it.                                                    *)
ReplaceQueue ==
  /\ pc = "replace"
  /\ queueDoc' = mem
  /\ recorded' = mem.status
  /\ IF task = "execute"
     THEN /\ gone' = Objects \ library
          /\ unsure' = {}
          /\ overlapped' = (journal # <<>> \/ stateDoc # None)
     ELSE UNCHANGED <<gone, unsure, overlapped>>
  /\ pc' = "unlink"
  /\ UNCHANGED <<library, journal, stateDoc, task, mem, position, used>>

UnlinkJournal ==
  /\ pc = "unlink"
  /\ journal' = <<>>
  /\ pc' = "checkpoint"
  /\ UNCHANGED <<library, queueDoc, stateDoc, task, mem, position, history, used>>

CurrentRecord(torn) ==
  [object |-> Order[position], status |-> mem.status[Order[position]],
   seq |-> mem.seq + 1, torn |-> torn]

(* Mutant of AppendRecord: only outcomes are recorded.                     *)
AppendOutcome ==
  /\ pc = "journal"
  /\ journal' = IF task = "start" THEN journal
                ELSE Append(journal, CurrentRecord(FALSE))
  /\ mem' = IF task = "start" THEN mem ELSE [mem EXCEPT !.seq = @ + 1]
  /\ recorded' = IF task = "start" THEN recorded
                 ELSE [recorded EXCEPT ![Order[position]] =
                         mem.status[Order[position]]]
  /\ pc' = "checkpoint"
  /\ UNCHANGED <<library, queueDoc, stateDoc, task, position, gone, unsure,
                 overlapped, used>>

AppendRecord ==
  /\ pc = "journal"
  /\ journal' = Append(journal, CurrentRecord(FALSE))
  /\ mem' = [mem EXCEPT !.seq = @ + 1]
  /\ recorded' = [recorded EXCEPT ![Order[position]] = mem.status[Order[position]]]
  /\ pc' = "checkpoint"
  /\ UNCHANGED <<library, queueDoc, stateDoc, task, position, gone, unsure,
                 overlapped, used>>

(* Mutant of FailedCount: an ambiguous target is not counted as failed.    *)
FailedCountSure(q) == Cardinality(WithStatus(q, Failed \ {"ambiguous"}))

(* DeleteState.refresh, and finished as _process sets it at its end.       *)
FailedCount(q) == Cardinality(WithStatus(q, Failed))

(* Mutant of Refreshed: whatever is settled counts as completed.           *)
RefreshedSettled ==
  [operation |-> mem.operation,
   total |-> Cardinality(Targets(mem)),
   completed |-> Cardinality(WithStatus(mem, Settled)),
   failed |-> FailedCount(mem),
   finished |-> task = "finish"]

Refreshed ==
  [operation |-> mem.operation,
   total |-> Cardinality(Targets(mem)),
   completed |-> Cardinality(WithStatus(mem, Removed)),
   failed |-> FailedCount(mem),
   finished |-> task = "finish"]

AfterCheckpoint ==
  CASE task = "start" -> "request"
    [] task = "interrupt" -> "down"
    [] task = "finish" /\ FailedCount(mem) > 0 -> "menu"
    [] task = "finish" /\ FailedCount(mem) = 0 -> "clear_state"
    [] OTHER -> "next"

SaveState ==
  /\ pc = "checkpoint"
  /\ stateDoc' = Refreshed
  /\ overlapped' = (overlapped /\ task # "execute")
  /\ pc' = AfterCheckpoint
  /\ mem' = IF AfterCheckpoint \in {"down", "menu"} THEN None ELSE mem
  /\ position' = IF task = "outcome" THEN position + 1 ELSE position
  /\ UNCHANGED <<library, queueDoc, journal, task, recorded, gone, unsure, used>>

(* A cleanup without failures removes its files: checkpoint, queue,        *)
(* journal.                                                                *)
ClearState ==
  /\ pc = "clear_state"
  /\ stateDoc' = None
  /\ pc' = "clear_queue"
  /\ UNCHANGED <<library, queueDoc, journal, task, mem, position, history, used>>

ClearQueue ==
  /\ pc = "clear_queue"
  /\ queueDoc' = None
  /\ pc' = "clear_journal"
  /\ UNCHANGED <<library, journal, stateDoc, task, mem, position, history, used>>

ClearJournal ==
  /\ pc = "clear_journal"
  /\ journal' = <<>>
  /\ ToMenu
  /\ UNCHANGED <<library, queueDoc, stateDoc, task, position, history, used>>
----------------------------------------------------------------------------
(* The loop of _process.                                                   *)
Skip ==
  /\ pc = "next"
  /\ position <= Len(Order)
  /\ mem.status[Order[position]] \in Settled \cup {None}
  /\ position' = position + 1
  /\ UNCHANGED <<library, files, pc, task, mem, history, used>>

Begin ==
  /\ pc = "next"
  /\ position <= Len(Order)
  /\ mem.status[Order[position]] \notin Settled \cup {None}
  /\ mem' = [mem EXCEPT !.status[Order[position]] = "processing"]
  /\ pc' = "journal"
  /\ task' = "start"
  /\ UNCHANGED <<library, files, position, history, used>>

Finish ==
  /\ pc = "next"
  /\ position > Len(Order)
  /\ pc' = "replace"
  /\ task' = "finish"
  /\ UNCHANGED <<library, files, mem, position, history, used>>

(* A deletion reports what becomes the target's status.  It is tried       *)
(* several times before it reports, so that any report may follow one that *)
(* removed the object; only a failure leaves a present object in place.    *)
Reports == Removed \cup Failed

MayMiss(o, status) == status \in Failed \/ o \notin library

Request(status) ==
  /\ pc = "request"
  /\ LET o == Order[position]
     IN /\ \/ library' = library \ {o}
           \/ library' = library /\ MayMiss(o, status)
        /\ gone' = gone \cup (Objects \ library')
        /\ unsure' = IF status = "ambiguous" THEN unsure \cup {o} ELSE unsure
        /\ mem' = [mem EXCEPT !.status[o] = status]
  /\ pc' = "journal"
  /\ task' = "outcome"
  /\ UNCHANGED <<files, position, recorded, overlapped, used>>
----------------------------------------------------------------------------
(* What stops a process.  A stop while a record is appended may leave a    *)
(* torn one; the outcome of a deletion that is not in the journal is lost. *)
FileSteps == {"replace", "unlink", "checkpoint", "journal",
              "clear_state", "clear_queue", "clear_journal"}

Lose ==
  /\ Spend("stops", MaxStops)
  /\ mem' = None
  /\ journal' \in {journal} \cup
       IF pc = "journal" THEN {Append(journal, CurrentRecord(TRUE))} ELSE {}
  /\ unsure' = IF pc = "journal" /\ task = "outcome"
               THEN unsure \cup {Order[position]} ELSE unsure
  /\ UNCHANGED <<library, queueDoc, stateDoc, task, position, recorded, gone,
                 overlapped>>

Crash == pc # "down" /\ pc' = "down" /\ Lose

(* An OSError ends the cleanup and leaves the program at its menu.         *)
WriteFails == pc \in FileSteps /\ pc' = "menu" /\ Lose

(* KeyboardInterrupt within the loop: the handler records the current item *)
(* once more, also when the interrupted append was already in the file, or *)
(* while a deletion was under way that landed or did not.                  *)
Interrupt ==
  /\ task \in {"start", "outcome"}
  /\ pc \in {"journal", "checkpoint", "request"}
  /\ Spend("stops", MaxStops)
  /\ journal' \in {journal} \cup
       IF pc = "journal" THEN {Append(journal, CurrentRecord(FALSE))} ELSE {}
  /\ recorded' = IF journal' = journal THEN recorded
                 ELSE [recorded EXCEPT ![Order[position]] =
                         mem.status[Order[position]]]
  /\ library' \in {library} \cup
       IF pc = "request" THEN {library \ {Order[position]}} ELSE {}
  /\ gone' = gone \cup (Objects \ library')
  /\ unsure' = IF pc = "request" THEN unsure \cup {Order[position]} ELSE unsure
  /\ pc' = "journal"
  /\ task' = "interrupt"
  /\ UNCHANGED <<queueDoc, stateDoc, mem, position, overlapped>>

(* Another client of the account adds or removes an object.                *)
OthersChange(o) ==
  /\ Spend("changes", MaxChanges)
  /\ library' = IF o \in library THEN library \ {o} ELSE library \cup {o}
  /\ gone' = gone \cup (Objects \ library')
  /\ UNCHANGED <<files, process, recorded, unsure, overlapped>>

Step ==
  \/ ReplaceQueue \/ UnlinkJournal \/ AppendRecord \/ SaveState
  \/ ClearState \/ ClearQueue \/ ClearJournal
  \/ Skip \/ Begin \/ Finish
  \/ \E status \in Reports : Request(status)

User ==
  \/ Start \/ Exit \/ Confirm \/ Decline \/ Accept
  \/ \E s \in Scopes : Estimate(s)

Environment ==
  \/ Crash \/ WriteFails \/ Interrupt
  \/ \E o \in Objects : OthersChange(o)

Next == Step \/ User \/ Reconcile \/ ReconcileFails \/ Environment

Spec == Init /\ [][Next]_vars

(* A live process takes its next step; the user starts and leaves the      *)
(* program, answers its questions and accepts a resumption that is offered *)
(* again and again; a library that is exported again and again is once     *)
(* exported completely.                                                    *)
Fairness ==
  /\ WF_vars(Step)
  /\ WF_vars(Start)
  /\ WF_vars(Confirm \/ Decline \/ Accept)
  /\ SF_vars(Exit)
  /\ SF_vars(Accept)
  /\ SF_vars(Reconcile)

FairSpec == Spec /\ Fairness
----------------------------------------------------------------------------
(* Properties.                                                             *)

(* The journal is written ahead of the deletion: whenever a deletion is    *)
(* about to be sent, the files as a new process would read them name its   *)
(* target as in flight (_process, first _persist).                         *)
WriteAhead ==
  pc = "request" =>
    /\ Loadable
    /\ Replayed(queueDoc, journal).status[Order[position]] = "processing"

(* What was durably recorded is what a new process reads back, whichever   *)
(* of save, record and interrupt handling was cut short (save, record and  *)
(* load of DeleteQueueStore).                                              *)
ReadsBack ==
  queueDoc # None =>
    /\ JournalReadable(queueDoc, journal)
    /\ Replayed(queueDoc, journal).status = recorded

ReadsBackRecorded == ~overlapped => ReadsBack

(* A queue and a checkpoint found together belong together, so that the    *)
(* cleanup can be resumed (the cross-check of _load_persisted).            *)
FilesAgree ==
  queueDoc # None /\ stateDoc # None /\ ~overlapped => Loadable

(* A deletion whose outcome is unknown is not sent again before a complete *)
(* export has been read (_reconcile_interrupted_items).                    *)
NoBlindRepeat == pc = "request" => Order[position] \notin unsure

(* A target that the files call removed has been absent at some moment     *)
(* since the cleanup began, even when other clients put it back later.     *)
RemovedWasAbsent ==
  queueDoc # None /\ ~overlapped =>
    WithStatus(Replayed(queueDoc, journal), Removed) \subseteq gone

(* The files are removed only after every target has been absent (clear    *)
(* when state.failed is 0, an ambiguous target counting as failed).        *)
ClearedAfterRemoval ==
  pc \in {"clear_state", "clear_queue", "clear_journal"} /\ ~overlapped =>
    Targets(mem) \subseteq gone

(* The progress a start-up shows never runs ahead of the queue (record     *)
(* before save of the checkpoint in _persist).                             *)
CountsBehindQueue ==
  queueDoc # None /\ stateDoc # None /\ ~overlapped =>
    stateDoc.completed <= Cardinality(WithStatus(Replayed(queueDoc, journal), Removed))

(* A settled target keeps its status, through resumptions and              *)
(* reconciliation, until another cleanup replaces the queue.               *)
SettledFinal ==
  [][\A o \in Objects :
       recorded[o] \in Settled =>
         recorded'[o] = recorded[o] \/ (pc = "replace" /\ task = "execute")]_vars

(* A cleanup that was cut short and can be resumed is finished, removed or *)
(* replaced by another one.                                                *)
InterruptedEnds ==
  (pc = "down" /\ Loadable /\ ~stateDoc.finished) ~>
    \/ queueDoc = None
    \/ stateDoc # None /\ stateDoc.finished
    \/ pc = "unlink" /\ task = "execute"

(* core/cleanup.py, DeleteQueueStore.save: "Persist an exact queue after   *)
(* every observable status transition."  So a cleanup that is offered for  *)
(* resumption has no target that is passed over without it having settled  *)
(* that target.                                                            *)
ExactQueue ==
  pc = "offered" =>
    \A o \in WithStatus(Replayed(queueDoc, journal), Settled) :
      recorded[o] \in Settled
============================================================================
