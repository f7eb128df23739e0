-------------------------- MODULE MCTransferJournal --------------------------
(***************************************************************************)
(* Two keys with two values each, compaction after two records.            *)
(***************************************************************************)
EXTENDS TransferJournal

CONSTANTS k1, k2

MCKeys == {k1, k2}
============================================================================
