------------------------ MODULE MCTransferExecution ------------------------
(***************************************************************************)
(* Small instances of TransferExecution.                                   *)
(*                                                                         *)
(* The favorites f1 (in the destination's catalogue) and f2 (not found),   *)
(* the playlists p1 (to be created) and p2 (whose identifier can be        *)
(* reused), and the entries a, b, c of p1.                                 *)
(***************************************************************************)
EXTENDS TransferExecution

CONSTANTS f1, f2, p1, p2, a, b, c, t1, t2, t3, t4, l1, l2, l3

MCRank ==
  [i \in Favorites \cup Playlists |->
     CASE i = f1 -> 0 [] i = p1 -> 1 [] i = f2 -> 2 [] OTHER -> 3]

MCContainer == [e \in Entries |-> p1]

(* Every source position is planned, each with a track of its own.         *)
DensePosition ==
  [e \in Entries |-> CASE e = a -> 0 [] e = b -> 1 [] OTHER -> 2]

DistinctTarget ==
  [i \in Items |->
     CASE i = f1 -> t1 [] i = a -> t2 [] i = b -> t3 [] i = c -> t4
       [] i = p2 -> l1 [] OTHER -> None]

(* The planner dropped the entry at position 0: its track had gone.        *)
GapPosition ==
  [e \in Entries |-> CASE e = a -> 1 [] e = b -> 2 [] OTHER -> 3]

============================================================================
