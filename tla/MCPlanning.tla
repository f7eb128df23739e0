---------------------------- MODULE MCPlanning ----------------------------
(***************************************************************************)
(* A source of two tracks, and a catalogue with the first twice, on a      *)
(* compilation, live, clean and under another title; live in the version   *)
(* field only, and live behind a dash.                                     *)
(***************************************************************************)
EXTENDS Planning

CONSTANTS s, t, c, d, e, l, k, o, u, v

Mark(how) == {[says |-> "live", how |-> how]}

Facts(title, base, marks, album, seconds, explicit, isrc, keys) ==
  [title |-> title, base |-> base, marks |-> marks,
   artists |-> {"singer"}, featured |-> {}, album |-> album,
   seconds |-> seconds, explicit |-> explicit, isrc |-> isrc,
   keys |-> [date |-> keys[1], title |-> keys[2], artist |-> keys[3],
             album |-> keys[4]]]

MCTrack ==
  (s :> Facts("song", "song", {}, "first", 200, "yes", None, <<2, 2, 1, 1>>))
    @@ (t :> Facts("song live", "song", Mark("bracket"), None, None, None, "T1",
                   <<None, 1, 1, None>>))
    @@ (u :> Facts("other", "other", {}, None, 150, None, None, <<2, None, 1, 1>>))
    @@ (c :> Facts("song", "song", {}, "first", 201, None, None, <<3, 2, 2, None>>))
    @@ (d :> Facts("song", "song", {}, "firsts", 200, "yes", None, <<1, 1, None, 2>>))
    @@ (e :> Facts("song", "song", Mark("field"), "first", 200, None, None,
                   <<1, 2, 1, 1>>))
    @@ (l :> Facts("song live", "song", Mark("hyphen"), "first", 200, "yes", "T1",
                   <<1, 1, 1, 1>>))
    @@ (k :> Facts("song", "song", {}, "first", 200, "no", None,
                   <<None, 3, 1, 1>>))
    @@ (v :> Facts("song live", "song live", Mark("dash"), "first", 200, "yes", None,
                   <<1, 1, 1, 1>>))
    @@ (o :> [Facts("sing", "sing", {}, "first", 206, "yes", None, <<2, 3, 1, 1>>)
                EXCEPT !.artists = {"guest"}, !.featured = {"singer"}])

MCCatalogue == {c, d, e, l, k, o, v}

MCSimilarity ==
  [p \in Texts \X Texts |->
     CASE {p[1], p[2]} = {"first", "firsts"} -> 9000
       [] {p[1], p[2]} = {"song", "sing"}    -> 7500
       [] {p[1], p[2]} = {"song", "song live"} -> 6154
       [] OTHER                              -> 2000]

Job(content, ordering, reuse, search, fuzzy, fallback) ==
  [content |-> content, ordering |-> ordering, reuse |-> reuse,
   search |-> search, fuzzy |-> fuzzy, fallback |-> fallback, skip |-> TRUE,
   writes |-> [tracks |-> TRUE, albums |-> search \/ reuse, artists |-> TRUE,
              playlists |-> TRUE]]

Lib(tracks, playlists, incomplete) ==
  [tracks |-> tracks, albums |-> <<c, u, k>>, artists |-> <<k, d>>,
   playlists |-> playlists, incomplete |-> incomplete]

Large == {Lib(<<k, u, d, c>>, << <<c, None, u>>, << >>, <<c, c>> >>, incomplete) :
            incomplete \in SUBSET {"tracks", "playlists"}}

MCJobs ==
  (* every search result for one track, and for one entry                  *)
  {[library |-> Lib(<<a>>, << >>, {}),
    settings |-> Job(<<"tracks">>, "source", FALSE, TRUE, fuzzy, fallback)] :
     a \in {s, t}, fuzzy \in BOOLEAN, fallback \in BOOLEAN}
  \cup {[library |-> Lib(<< >>, << <<a, None>> >>, {}),
          settings |-> Job(<<"playlists">>, "source", FALSE, TRUE, TRUE, FALSE)] :
           a \in {s, t}}
  (* whole plans where nothing is searched: favourites in every order, and *)
  (* playlists                                                             *)
  \cup {[library |-> large,
          settings |-> Job(<<"albums", "tracks", "artists">>, ordering, TRUE, FALSE,
                           TRUE, FALSE)] : large \in Large, ordering \in Orderings}
  \cup {[library |-> large,
          settings |-> Job(<<"tracks", "playlists">>, "newest", TRUE, FALSE, TRUE,
                           FALSE)] : large \in Large}
  \cup {[library |-> large,
          settings |-> Job(<<"playlists", "albums">>, "source", FALSE, FALSE,
                           TRUE, FALSE)] : large \in Large}
=============================================================================
