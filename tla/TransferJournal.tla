-------------------------- MODULE TransferJournal --------------------------
(***************************************************************************)
(* tidal_manager/core/state.py, TransferStateStore: a snapshot document    *)
(* and a journal of what changed since, with sequence numbers, compaction  *)
(* and what a process reads back.  TransferService (core/transfer.py) and  *)
(* the menu (ui/menu.py) use it as one value; CheckpointStore says so.     *)
(***************************************************************************)
EXTENDS Naturals, Sequences, FiniteSets, SequencesExt

CONSTANTS
  Keys,           \* what a state records: statuses, identifiers, intents
  MaxValue,       \* their values; 0 is an absent key
  CompactAfter,
  Overlaps,       \* may a transfer begin while files of another one exist
  None,
  MaxSeq, MaxTransfers, MaxStops

ASSUME JournalAssumption ==
  /\ CompactAfter \in Nat \ {0}
  /\ Overlaps \in BOOLEAN
  /\ {MaxValue, MaxSeq, MaxTransfers, MaxStops} \subseteq Nat

States == [Keys -> 0 .. MaxValue]
Empty  == [k \in Keys |-> 0]

(* What a document on the disk can be; there being none is neither that    *)
(* nor a state.                                                            *)
Documents == [state : States, seq : Nat]

ASSUME NoneAssumption == None \notin States /\ None \notin Documents

VARIABLES
  doc,        \* [state, seq], or None
  journal,    \* the lines of the journal; << >> when there is no file
  mem, seq,   \* TransferState and its last_applied_seq, or None and 0
  known,      \* _known_statuses, _known_retries, ... of the process
  pc,         \* where the process is
  stopping,   \* run() is in its handler of KeyboardInterrupt
  transfers, stops

files == <<doc, journal>>
vars  == <<files, mem, seq, known, pc, stopping, transfers, stops>>

Init ==
  /\ doc = None /\ journal = << >>
  /\ mem = None /\ seq = 0 /\ known = Empty
  /\ pc = "off" /\ stopping = FALSE
  /\ transfers = 0 /\ stops = 0

(***************************************************************************)
(* load                                                                    *)
(***************************************************************************)
(* _apply_event.                                                           *)
Applied(state, changes) ==
  [k \in Keys |-> IF k \in DOMAIN changes THEN changes[k] ELSE state[k]]

(* A line is an event; "open" when its newline did not reach the file,     *)
(* "torn" when the text is cut short and "garbage" when text follows it.   *)
Read(acc, line) ==
  IF line.kind = "torn" THEN acc
  ELSE IF line.kind = "garbage" THEN [acc EXCEPT !.ok = FALSE]
  ELSE IF line.seq <= acc.seq THEN acc
  ELSE IF line.seq # acc.seq + 1 THEN [acc EXCEPT !.ok = FALSE]
  ELSE [acc EXCEPT !.state = Applied(@, line.changes), !.seq = line.seq]

LoadFrom(lines) ==
  FoldLeft(Read, [state |-> doc.state, seq |-> doc.seq, ok |-> TRUE], lines)

Loaded == LoadFrom(journal)

Readable == doc = None \/ Loaded.ok

(***************************************************************************)
(* The menu: resume, or decline or fail to and start a new transfer        *)
(***************************************************************************)
Remembers(state) == known' = state

Resume ==
  /\ pc = "off" /\ doc # None /\ Readable /\ Loaded.seq < MaxSeq
  /\ mem' = Loaded.state /\ seq' = Loaded.seq /\ Remembers(Loaded.state)
  /\ pc' = "save"
  /\ UNCHANGED <<files, stopping, transfers, stops>>

Decline ==
  /\ pc = "off"
  /\ IF doc # None /\ Readable THEN Remembers(Loaded.state) ELSE UNCHANGED known
  /\ pc' = "menu"
  /\ UNCHANGED <<files, mem, seq, stopping, transfers, stops>>

Exit ==
  /\ pc = "menu"
  /\ Remembers(Empty) /\ pc' = "off"
  /\ UNCHANGED <<files, mem, seq, stopping, transfers, stops>>

Start ==
  /\ pc = "menu" /\ transfers < MaxTransfers
  /\ Overlaps \/ (doc = None /\ journal = << >>)
  /\ mem' = Empty /\ seq' = 0 /\ pc' = "save"
  /\ transfers' = transfers + 1
  /\ UNCHANGED <<files, known, stopping, stops>>

(* The transfer marks something. It never forgets a key.                   *)
Mark ==
  /\ pc = "run"
  /\ \E k \in Keys, v \in 1 .. MaxValue : mem' = [mem EXCEPT ![k] = v]
  /\ UNCHANGED <<files, seq, known, pc, stopping, transfers, stops>>

(***************************************************************************)
(* save                                                                    *)
(***************************************************************************)
Save ==
  /\ pc = "run" /\ seq < MaxSeq
  /\ pc' = "save"
  /\ UNCHANGED <<files, mem, seq, known, stopping, transfers, stops>>

(* atomic_write_json: the temporary file is renamed when it is complete.   *)
WriteDocument ==
  /\ doc' = [state |-> mem, seq |-> seq]
  /\ UNCHANGED <<mem, seq, known, stopping, transfers, stops>>

SaveFirst ==
  /\ pc = "save" /\ doc = None
  /\ WriteDocument /\ journal' = journal
  /\ pc' = "remember"

(* Mutation: only keys the store has not heard of are new.                 *)
ChangesNewKeys ==
  LET new == {k \in Keys : mem[k] # 0 /\ known[k] = 0}
  IN [k \in new |-> mem[k]]

(* _event_from_state: what differs from what the store knows.              *)
Changes ==
  LET new == {k \in Keys : mem[k] # 0 /\ mem[k] # known[k]}
  IN [k \in new |-> mem[k]]

(* An append after a line without a newline makes one line of the two.     *)
Line(kind) == [kind |-> kind, seq |-> seq + 1, changes |-> Changes]
Unread(kind) == [kind |-> kind, seq |-> 0, changes |-> [k \in {} |-> 0]]
Torn         == Unread("torn")
Garbage      == Unread("garbage")

Appended(kind) ==
  IF journal # << >> /\ Last(journal).kind \in {"torn", "open"}
    THEN Append(Front(journal), IF kind = "event" THEN Garbage ELSE Torn)
    ELSE Append(journal, IF kind = "torn" THEN Torn ELSE Line(kind))

AppendEvent ==
  /\ pc = "save" /\ doc # None
  /\ journal' = Appended("event")
  /\ pc' = "advance"
  /\ UNCHANGED <<doc, mem, seq, known, stopping, transfers, stops>>

Advance ==
  /\ pc = "advance"
  /\ seq' = seq + 1
  /\ pc' = IF (seq + 1) % CompactAfter = 0 THEN "compact" ELSE "remember"
  /\ UNCHANGED <<files, mem, known, stopping, transfers, stops>>

Compact ==
  /\ pc = "compact"
  /\ WriteDocument /\ journal' = journal
  /\ pc' = "unlink"

UnlinkJournal ==
  /\ pc = "unlink"
  /\ journal' = << >> /\ pc' = "remember"
  /\ UNCHANGED <<doc, mem, seq, known, stopping, transfers, stops>>

Remember ==
  /\ pc = "remember"
  /\ IF stopping
       THEN /\ Remembers(Empty) /\ stopping' = FALSE
            /\ mem' = None /\ seq' = 0 /\ pc' = "off"
       ELSE Remembers(mem) /\ pc' = "run" /\ UNCHANGED <<mem, seq, stopping>>
  /\ UNCHANGED <<files, transfers, stops>>

(***************************************************************************)
(* The end of a transfer, and of the process                               *)
(***************************************************************************)
(* Mutation: the journal goes first.                                       *)
ClearJournalFirst ==
  /\ pc = "run"
  /\ journal' = << >> /\ pc' = "clear"
  /\ UNCHANGED <<doc, mem, seq, known, stopping, transfers, stops>>

(* clear(): the document, then the journal.                                *)
ClearDocument ==
  /\ pc = "run"
  /\ doc' = None /\ pc' = "clear"
  /\ UNCHANGED <<journal, mem, seq, known, stopping, transfers, stops>>

ClearJournal ==
  /\ pc = "clear"
  /\ journal' = << >> /\ pc' = "menu" /\ mem' = None /\ seq' = 0
  /\ UNCHANGED <<doc, known, stopping, transfers, stops>>

(* An exception ends the transfer and the menu goes on; the checkpoint of  *)
(* a transfer with failures stays as well.                                 *)
Leave ==
  /\ pc \in {"run", "save"} /\ ~stopping
  /\ mem' = None /\ seq' = 0 /\ pc' = "menu"
  /\ UNCHANGED <<files, known, stopping, transfers, stops>>

(* KeyboardInterrupt: run() saves once more. It can arrive between any two *)
(* steps of a save.                                                        *)
Interrupt ==
  /\ pc \in {"run", "save", "advance", "compact", "unlink", "remember"}
  /\ ~stopping /\ stops < MaxStops /\ seq < MaxSeq
  /\ stopping' = TRUE /\ pc' = "save" /\ stops' = stops + 1
  /\ UNCHANGED <<files, mem, seq, known, transfers>>

Die ==
  /\ pc # "off" /\ stops < MaxStops
  /\ mem' = None /\ seq' = 0 /\ known' = Empty
  /\ pc' = "off" /\ stopping' = FALSE /\ stops' = stops + 1
  /\ transfers' = transfers

Crash == Die /\ UNCHANGED files

(* The operating system stops in the middle of an append.                  *)
TearAppend ==
  /\ pc = "save" /\ doc # None
  /\ \E kind \in {"torn", "open"} : journal' = Appended(kind)
  /\ Die /\ doc' = doc

Next ==
  \/ Resume \/ Decline \/ Exit \/ Start \/ Mark
  \/ Save \/ SaveFirst \/ AppendEvent \/ Advance \/ Compact \/ UnlinkJournal
  \/ Remember \/ ClearDocument \/ ClearJournal
  \/ Leave \/ Interrupt \/ Crash \/ TearAppend

Spec == Init /\ [][Next]_vars

(***************************************************************************)
(* Properties                                                              *)
(***************************************************************************)
(* When save() has returned, load() would give the state that was saved    *)
(* and its sequence number, unless it refuses the file: the differences    *)
(* are taken against what the store remembers (state.py:395-407), and a    *)
(* save that was interrupted anywhere is saved again. Sequence numbers     *)
(* have no gap (state.py:361): it refuses the files only when a process    *)
(* died inside an append and another one appended after it.                *)
ReadsBackSaved ==
  IF Readable
  THEN pc = "run" /\ mem = known /\ doc # None =>
         Loaded.state = mem /\ Loaded.seq = seq
  ELSE \E i \in DOMAIN journal : journal[i].kind = "garbage"

(* The two files implement one durable value. A last line without its      *)
(* newline is an event whose save() has not returned.                      *)
ReadFrom(lines) ==
  IF doc = None \/ ~LoadFrom(lines).ok THEN None ELSE LoadFrom(lines).state

Whole(lines) ==
  IF lines # << >> /\ Last(lines).kind = "open" THEN Front(lines) ELSE lines

Durable == ReadFrom(journal)
Sure    == ReadFrom(Whole(journal))

Stored == INSTANCE CheckpointStore
            WITH durable <- Durable, sure <- Sure, readable <- Readable

(* Whatever step the process stops in, the next one resumes from exactly   *)
(* the last state that was stored (state.py:342-387).                      *)
StoresOneValue == Stored!Spec
============================================================================
