--------------------------- MODULE MCRemoteClient ---------------------------
(***************************************************************************)
(* Three sections and pages of two: one with a hidden item, one of four    *)
(* items, and one that music_transfer reads without the retry loop and     *)
(* that holds one track four times.  Waits are in twentieths of a second.  *)
(***************************************************************************)
EXTENDS RemoteClient

CONSTANTS a, b, c, d, h, n

MCSections   == <<"tracks", "albums", "playlists">>
MCCollection == "tracks" :> <<a, h, b, c>> @@ "albums" :> <<a, b, c, d>>
                  @@ "playlists" :> <<a, a, a, a>>
============================================================================
