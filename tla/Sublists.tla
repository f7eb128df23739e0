------------------------------ MODULE Sublists ------------------------------
(***************************************************************************)
(* The elements of a list that satisfy a condition, in their order: what   *)
(* a comprehension [x for x in s if x in S] keeps.  Defined by a recursive *)
(* function, so that it can be reasoned about.                             *)
(***************************************************************************)
EXTENDS Naturals, Sequences

Sublist(s, S) ==
  LET kept[n \in 0 .. Len(s)] ==
        IF n = 0 THEN << >>
        ELSE IF s[n] \in S THEN Append(kept[n - 1], s[n])
        ELSE kept[n - 1]
  IN kept[Len(s)]
=============================================================================
