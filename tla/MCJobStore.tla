----------------------------- MODULE MCJobStore -----------------------------
(* Two processes, one planned job and one retry job: a track, a playlist   *)
(* and two entries of it.                                                  *)
EXTENDS JobStore

CONSTANTS p1, p2, planned, retry, track, playlist, entry1, entry2

ProcessesDef == {p1, p2}
JobsDef == {planned, retry}
OrderDef == <<track, playlist, entry1, entry2>>
EntriesDef == {entry1, entry2}
Interchangeable == Permutations(ProcessesDef)
============================================================================
