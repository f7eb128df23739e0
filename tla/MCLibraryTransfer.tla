------------------------- MODULE MCLibraryTransfer -------------------------
(***************************************************************************)
(* A small snapshot: a favourite f, a folder d, a playlist p in d with one *)
(* track twice around a video, and a playlist q of somebody else.         *)
(***************************************************************************)
EXTENDS LibraryTransfer

CONSTANTS f, d, p, q, x, v

MCFavorites == <<f>>
MCFolders   == <<d>>
MCPlaylists == <<p, q>>
MCParent    == [c \in {d, p, q} |-> IF c = p THEN d ELSE Root]
MCMedia     == [c \in {p} |-> <<x, v, x>>]

MCName      == [c \in {d, p} |-> c]
============================================================================
