------------------------- MODULE TransferLifecycle -------------------------
(***************************************************************************)
(* The vocabulary of a transfer: job and item statuses, the declared job   *)
(* transition table, and the durable status each kind of failure maps to.  *)
(* Constant-level only; TransferExecution and its successors extend it.    *)
(***************************************************************************)
EXTENDS Naturals

(* JobStatus: the states of the transfer lifecycle.                        *)
JobStatus ==
  {"created", "authenticating", "exporting", "normalizing", "matching",
   "planning", "waiting_confirmation", "importing", "verifying",
   "completed", "paused", "failed", "cancelled"}

(* TERMINAL_STATUSES: a job in one of these is finished.                   *)
TerminalStatuses == {"completed", "failed", "cancelled"}

(* TRANSITIONS: the moves lifecycle.transition() accepts.                  *)
Transitions ==
  [s \in JobStatus |->
     (CASE s = "created"              -> {"authenticating"}
        [] s = "authenticating"       -> {"exporting"}
        [] s = "exporting"            -> {"normalizing", "paused"}
        [] s = "normalizing"          -> {"matching", "paused"}
        [] s = "matching"             -> {"planning", "paused"}
        [] s = "planning"             -> {"waiting_confirmation"}
        [] s = "waiting_confirmation" -> {"importing", "planning"}
        [] s = "importing"            -> {"verifying", "paused"}
        [] s = "verifying"            -> {"completed"}
        [] s = "paused"               -> {"importing"}
        [] OTHER                      -> {})
     \cup (IF s \in TerminalStatuses THEN {} ELSE {"cancelled", "failed"})]

CanTransition(current, target) == target \in Transitions[current]

(* ItemStatus, and the statuses that mean "must not be replayed".          *)
ItemStatus ==
  {"pending", "matched", "transferred", "already_exists", "not_found",
   "ambiguous", "unavailable", "skipped", "failed"}

TerminalItemStatuses == {"transferred", "already_exists", "skipped"}

(* Why an attempt failed, as classify_error reports it.                    *)
FailureKind ==
  {"ambiguous", "unavailable", "not_found", "authentication", "temporary",
   "permanent"}

(* _FAILURE_STATUS: the durable item status of each failure kind.          *)
FailureStatus ==
  [k \in FailureKind |->
     IF k \in {"ambiguous", "unavailable", "not_found"} THEN k ELSE "failed"]
============================================================================
