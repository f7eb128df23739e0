------------------------------ MODULE Planning ------------------------------
(***************************************************************************)
(* music_transfer: what is decided before and after the writes, from data. *)
(* The matcher and its scores (core/matching), the planner that turns a    *)
(* snapshot into items (core/transfer/planner.py), the order it plans in   *)
(* (core/transfer/ordering.py) and the verifier that compares what was     *)
(* written with what the account holds (core/transfer/verifier.py).        *)
(*                                                                         *)
(* A title is its normalised text and the same without qualifiers; the     *)
(* versions a track is said to be are marks, each with the way in which it *)
(* is said. Components of a score are in 1/10000, scores in 1/1000000.     *)
(***************************************************************************)
EXTENDS Integers, Sequences, FiniteSets, SequencesExt, Sublists

CONSTANTS
  Track,            \* the facts about every track, by identifier
  Unidentified,     \* the ones whose identifier is missing
  Catalogue,        \* the tracks a search can return
  Similarity,       \* difflib's ratio of two different texts
  Jobs,             \* snapshots, with the settings they are planned under
  Saved,            \* the favourites the account may hold already
  High, Ambiguous, Floor, MaxCandidates,   \* MatchingPolicy
  Foreign,          \* an entry somebody else adds to a playlist
  SearchLimit,      \* the longest search result considered
  MaxFailed,        \* the writes that fail, or are undone, in one run
  MaxHeld,          \* the longest playlist found when verifying
  None

Favorites == {"tracks", "albums", "artists"}
Fields    == {"date", "title", "artist", "album"}
Orderings == {"source", "newest", "oldest", "alphabetical", "artist", "album"}

Ratios == {n \in Nat : n <= 10000}

ASSUME PolicyAssumption ==
  /\ Floor \in Ratios
  /\ Ambiguous \in Nat /\ High \in Nat /\ Ambiguous <= High /\ High <= 1000000
  /\ MaxCandidates \in Nat \ {0} /\ SearchLimit \in Nat
  /\ MaxFailed \in Nat /\ MaxHeld \in Nat
  /\ Catalogue \subseteq DOMAIN Track

(* The texts that are compared, the facts, and what a job names.           *)
Texts ==
  UNION {{Track[x].base, Track[x].album} \cup Track[x].artists : x \in DOMAIN Track}

ASSUME SimilarityAssumption == Similarity \in [Texts \X Texts -> Ratios]

ASSUME TracksAssumption == \A x \in DOMAIN Track :
  /\ Track[x].seconds \in Nat \cup {None}
  /\ IsFiniteSet(Track[x].artists \cup Track[x].featured)
  /\ Track[x].keys \in [Fields -> Int \cup {None}]

ASSUME JobsAssumption == \A job \in Jobs :
  /\ \A list \in Favorites : job.library[list] \in Seq(DOMAIN Track)
  /\ job.library.playlists \in Seq(Seq(DOMAIN Track \cup {None}))
  /\ job.settings.content \in Seq(Favorites \cup {"playlists"})
  /\ job.settings.ordering \in Orderings

(* What a plan goes through: favourites, playlists and their entries, of   *)
(* which some have no track.                                               *)
Entries ==
  [kind : Favorites, list : {None}, at : Nat, id : DOMAIN Track]
    \cup [kind : {"playlist"}, list : Nat, at : Nat, id : Nat]
    \cup [kind : {"entry"}, list : Nat, at : Nat, id : DOMAIN Track \cup {None}]

ASSUME NoneAssumption == None \notin DOMAIN Track \cup Nat \cup Seq(Entries)

VARIABLES
  phase, library, settings, present,   \* the job, and what the account holds
  stage, turns, items, warnings,    \* the plan so far
  latest,                              \* the last search and what it decided
  held, verdicts                       \* the account afterwards, as verified

plan == <<phase, library, settings, present, stage, turns, items, warnings,
          latest, held, verdicts>>

-----------------------------------------------------------------------------
(* Scores.                                                                 *)

Ratio(a, b) == IF a = b THEN 10000 ELSE Similarity[<<a, b>>]
Least(a, b) == IF a < b THEN a ELSE b
Floored(n)  == IF n < 0 THEN 0 ELSE n

TitleScore(s, c) ==
  IF s.title = c.title THEN 10000
  ELSE IF s.base = c.base THEN 9600 ELSE Similarity[<<s.base, c.base>>]

ArtistScore(s, c) ==
  LET all     == s.artists \cup s.featured
      others  == c.artists \cup c.featured
      overlap == Cardinality(all \cap others)
      first   == CHOOSE a \in s.artists : TRUE
      other   == CHOOSE a \in c.artists : TRUE
  IN IF s.artists \cap c.artists # {}
       THEN IF s.artists = c.artists THEN 10000 ELSE 9000
     ELSE IF overlap > 0
       THEN IF all = others THEN 9500
            ELSE Least(8500,
                       5500 + (4000 * overlap) \div Cardinality(all \cup others))
     ELSE IF {} \in {s.artists, c.artists} THEN 0
     ELSE (9 * Similarity[<<first, other>>]) \div 10

DurationScore(s, c) ==
  LET apart == IF s.seconds > c.seconds THEN s.seconds - c.seconds
                                        ELSE c.seconds - s.seconds
  IN CASE None \in {s.seconds, c.seconds} -> 6000
       [] OTHER -> IF apart <= 2 THEN 10000
                   ELSE IF apart >= 15 THEN 0
                   ELSE 10000 - ((apart - 2) * 10000) \div 13

AlbumScore(s, c) ==
  IF None \in {s.album, c.album} THEN 6000 ELSE Ratio(s.album, c.album)

(* find_version_qualifiers sees what a title says in brackets or behind a  *)
(* hyphen. The other dashes have become spaces before it looks, and the    *)
(* platform's own version field is never read.                             *)
Qualifiers(t) ==
  {m.says : m \in {n \in t.marks : n.how \in {"bracket", "hyphen"}}}
    \ {"explicit", "clean"}

VersionsDiffer(s, c) == Qualifiers(s) # Qualifiers(c)
ExplicitDiffers(s, c) ==
  None \notin {s.explicit, c.explicit} /\ s.explicit # c.explicit
ReplacedByClean(s, c) == ExplicitDiffers(s, c) /\ s.explicit = "yes"

(* Mutation: another version of a recording costs nothing.                 *)
PenaltyForExplicit(s, c) ==
  IF ReplacedByClean(s, c) THEN 350000
  ELSE IF ExplicitDiffers(s, c) THEN 150000 ELSE 0

Penalty(s, c) ==
  (IF VersionsDiffer(s, c) THEN 200000 ELSE 0)
    + (IF ReplacedByClean(s, c) THEN 350000
       ELSE IF ExplicitDiffers(s, c) THEN 150000 ELSE 0)

Score(s, c) ==
  Floored(40 * TitleScore(s, c) + 28 * ArtistScore(s, c)
            + 14 * DurationScore(s, c) + 18 * AlbumScore(s, c) - Penalty(s, c))

-----------------------------------------------------------------------------
(* Matching.                                                               *)

Outcome(score) == CASE score >= High                        -> "matched"
                    [] score < High /\ score >= Ambiguous   -> "ambiguous"
                    [] score < Ambiguous                    -> "not_found"

Comparable(s, c) ==
  IF settings.fuzzy THEN TitleScore(s, c) >= Floor
  ELSE s.title = c.title \/ s.base = c.base

(* Python's sort is stable: of two with the same key the first stays so.   *)
Sorted(s, key) ==
  LET ahead(i) == {j \in DOMAIN s : \/ key[s[j]] < key[s[i]]
                                    \/ j < i /\ key[s[j]] = key[s[i]]}
  IN [k \in DOMAIN s |->
        s[CHOOSE i \in DOMAIN s : Cardinality(ahead(i)) = k - 1]]

(* Mutation: only a lower score is a tie.                                  *)
TiedBelow(best, second) == best < second

(* The near tie: a wrong guess is worse than asking.                       *)
Tied(best, second) == best - second < 20000

Nothing == [outcome |-> "not_found", target |-> None, method |-> "none"]

(* As many as the policy looks at are scored; what cannot be compared goes.*)
First(s, found) ==
  [k \in 1 .. Least(MaxCandidates, Len(found)) |->
     [id |-> found[k], score |-> Score(s, Track[found[k]])]]

AllComparable(s, first) ==
  Sublist(first, {c \in ToSet(first) : Comparable(s, Track[c.id])})

Scored(s, found) == AllComparable(s, First(s, found))

Ranking(ranked) == Sorted(ranked, [c \in ToSet(ranked) |-> -c.score])

ByMetadata(s, found) ==
  LET sorted  == Ranking(Scored(s, found))
      best    == Head(sorted)
      score   == IF ReplacedByClean(s, Track[best.id]) /\ ~settings.fallback
                   THEN Least(best.score, Ambiguous) ELSE best.score
      rival   == Len(sorted) > 1 /\ Tied(score, sorted[2].score)
      outcome == Outcome(score)
  IN IF sorted = << >> THEN Nothing
     ELSE IF outcome = "matched" /\ ~rival
       THEN [outcome |-> "matched", target |-> best.id, method |-> "metadata"]
       ELSE [outcome |-> IF rival /\ outcome = "matched" THEN "ambiguous" ELSE outcome,
             target |-> None, method |-> "metadata"]

Match(s, found) ==
  LET same == Sublist(found, {c \in ToSet(found) : s.isrc # None
                                                /\ Track[c].isrc = s.isrc})
  IN IF same # << >>
       THEN [outcome |-> "matched", target |-> Head(same), method |-> "isrc"]
       ELSE ByMetadata(s, found)

-----------------------------------------------------------------------------
(* The logical order. What has no key goes last either way.                *)

(* What a section is sorted by in each mode (_order); a mode that is not   *)
(* there leaves it as it is.                                               *)
SortedBy ==
  [tracks  |-> [newest |-> "date", oldest |-> "date", alphabetical |-> "title",
                artist |-> "artist", album |-> "album"],
   albums  |-> [newest |-> "date", oldest |-> "date", alphabetical |-> "title",
                artist |-> "artist", album |-> "title"],
   artists |-> [alphabetical |-> "title"]]

Key(section) ==
  LET field == SortedBy[section][settings.ordering]
  IN [a \in {b \in DOMAIN Track : Track[b].keys[field] # None} |->
        IF settings.ordering = "newest" THEN -Track[a].keys[field]
                                        ELSE Track[a].keys[field]]

(* Mutation: what has no key is sorted before what has one.                *)
KeyedByFlag(ids, key) ==
  Sublist(ids, DOMAIN Track \ DOMAIN key) \o Sorted(Sublist(ids, DOMAIN key), key)

Keyed(ids, key) ==
  Sorted(Sublist(ids, DOMAIN key), key) \o Sublist(ids, DOMAIN Track \ DOMAIN key)

Ordered(section) ==
  IF settings.ordering \in DOMAIN SortedBy[section]
  THEN Keyed(library[section], Key(section)) ELSE library[section]

-----------------------------------------------------------------------------
(* Planning: one action for each turn of the planner's loops.              *)

Section == settings.content[stage]
Entering == phase = "planning" /\ turns = None /\ stage <= Len(settings.content)
Entry(kind, list, at, id) == [kind |-> kind, list |-> list, at |-> at, id |-> id]

(* What the loops of a section go through: a favourite each, or a playlist *)
(* followed by its entries.                                                *)
Work ==
  IF Section = "playlists"
  THEN FlattenSeq([p \in DOMAIN library.playlists |->
         <<Entry("playlist", p, p, p)>>
           \o [k \in DOMAIN library.playlists[p] |->
                 Entry("entry", p, k, library.playlists[p][k])]])
  ELSE LET ordered == Ordered(Section)
       IN [k \in DOMAIN ordered |-> Entry(Section, None, k, ordered[k])]

Turn == phase = "planning" /\ turns \notin {None, << >>}
Current == Head(turns)
Advance == turns' = Tail(turns)
Decided == UNCHANGED <<phase, library, settings, present, stage, held, verdicts>>

PlanInit ==
  /\ phase = "planning"
  /\ \E job \in Jobs : library = job.library /\ settings = job.settings
  /\ present \in SUBSET Saved
  /\ stage = 1 /\ turns = None
  /\ items = << >> /\ warnings = {}
  /\ latest = None
  /\ held = None /\ verdicts = None

SkipIncomplete ==
  /\ Entering /\ Section \in library.incomplete
  /\ warnings' = warnings \cup {Entry("incomplete", None, 0, Section)}
  /\ stage' = stage + 1
  /\ UNCHANGED <<phase, library, settings, present, turns, items, latest,
                 held, verdicts>>

(* capabilities.require raises; nothing of the plan is stored.             *)
Unsupported ==
  /\ Entering /\ Section \notin library.incomplete /\ ~settings.writes[Section]
  /\ phase' = "unsupported"
  /\ items' = << >>
  /\ UNCHANGED <<library, settings, present, stage, turns, warnings, latest,
                 held, verdicts>>

StartSection ==
  /\ Entering /\ Section \notin library.incomplete /\ settings.writes[Section]
  /\ turns' = Work
  /\ UNCHANGED <<phase, library, settings, present, stage, items, warnings, latest,
                 held, verdicts>>

SkipUnidentified ==
  /\ Turn /\ Current.kind \in Favorites /\ Current.id \in Unidentified
  /\ Advance
  /\ Decided /\ UNCHANGED <<items, warnings, latest>>

SkipUnresolved ==
  /\ Turn /\ Current.kind = "entry" /\ Current.id = None
  /\ warnings' = warnings \cup {Current}
  /\ Advance
  /\ Decided /\ UNCHANGED <<items, latest>>

Planned(target, status) ==
  Append(items, [of |-> Current, target |-> target, status |-> status,
                 filed |-> TRUE])

(* A favourite the account already holds is not written again.             *)
Settled(target, status) ==
  IF /\ Current.kind \in Favorites /\ settings.skip
     /\ target # None /\ target \in present
  THEN "already_exists" ELSE status

(* Only of a favourite the planner asks whether it is identified.          *)
Identified ==
  /\ Turn /\ Current.id # None
  /\ Current.kind \in Favorites => Current.id \notin Unidentified
Reusable   == settings.reuse /\ Current.kind # "playlist"
Searchable == settings.search /\ Current.kind \in {"tracks", "entry"}

PlanDirect ==
  /\ Identified /\ Reusable
  /\ items' = Planned(Current.id, Settled(Current.id, "matched"))
  /\ Advance
  /\ Decided /\ UNCHANGED <<warnings, latest>>

PlanSearched(found) ==
  LET match == Match(Track[Current.id], found)
  IN /\ Identified /\ ~Reusable /\ Searchable
     /\ items' = Planned(match.target, Settled(match.target, match.outcome))
     /\ latest' = [source |-> Current.id, found |-> found, match |-> match]
     /\ Advance
     /\ Decided /\ UNCHANGED warnings

PlanUntargeted ==
  /\ Identified /\ ~Reusable /\ ~Searchable
  /\ items' = Planned(None, "pending")
  /\ Advance
  /\ Decided /\ UNCHANGED <<warnings, latest>>

EndSection ==
  /\ phase = "planning" /\ turns = << >>
  /\ stage' = stage + 1 /\ turns' = None
  /\ UNCHANGED <<phase, library, settings, present, items, warnings, latest,
                 held, verdicts>>

StorePlan ==
  /\ phase = "planning" /\ stage > Len(settings.content) /\ turns = None
  /\ phase' = "confirmed" /\ latest' = None
  /\ UNCHANGED <<library, settings, present, stage, turns, items, warnings,
                 held, verdicts>>

-----------------------------------------------------------------------------
(* Writing (module TransferExecution) leaves some items transferred, some  *)
(* entries, written by a resumed run, without the identifier of their      *)
(* list, and the account as it and other clients made it.                  *)

Write ==
  LET written == {i \in DOMAIN items : items[i].status = "matched"}
      entries == {i \in written : items[i].of.kind = "entry"}
      liked   == {<<items[i].of.kind, items[i].target>> :
                    i \in {j \in written : items[j].of.kind \in Favorites}}
      lists   == {items[i].of.list : i \in entries}
      inList(p) == {items[i].target : i \in {j \in entries : items[j].of.list = p}}
  IN /\ phase = "confirmed"
     /\ \E troubled \in {f \in SUBSET written : Cardinality(f) <= MaxFailed} :
        \E unfiled \in SUBSET (troubled \cap entries) :
          LET failed == troubled \ unfiled
          IN items' = [i \in DOMAIN items |->
               IF i \notin written THEN items[i]
               ELSE [items[i] EXCEPT
                       !.status = IF i \in failed THEN "failed" ELSE "transferred",
                       !.filed  = i \notin unfiled]]
     /\ \E contents \in [lists -> UNION {BoundedSeq(inList(p) \cup {Foreign}, MaxHeld) :
                                           p \in lists}],
           gone \in {g \in SUBSET liked : Cardinality(g) <= MaxFailed},
           other \in {o \in SUBSET (Favorites \X {Foreign}) :
                       Cardinality(o) <= MaxFailed} :
          held' = [lists |-> contents, favorites |-> (liked \ gone) \cup other]
     /\ phase' = "written"
     /\ UNCHANGED <<library, settings, present, stage, turns, warnings, latest,
                    verdicts>>

-----------------------------------------------------------------------------
(* Verification.                                                           *)

Times(s, x) == Cardinality({k \in DOMAIN s : s[k] = x})
Excess(s, t) == {x \in ToSet(s) : Times(s, x) > Times(t, x)}
Mismatches(s, t) == {k \in DOMAIN s \cap DOMAIN t : s[k] # t[k]}

SameMembers(expected, actual) ==
  /\ Len(expected) = Len(actual)
  /\ Excess(expected, actual) = {} /\ Excess(actual, expected) = {}

(* Mutation: the order of a playlist is not compared.                      *)
SameSequenceByMembers(expected, actual) == SameMembers(expected, actual)

SameSequence(expected, actual) ==
  SameMembers(expected, actual) /\ Mismatches(expected, actual) = {}

Transferred(wanted) ==
  LET done == Sublist(items, {i \in wanted : i.status = "transferred"})
  IN [k \in DOMAIN done |-> done[k].target]

(* An entry whose list is not stored with it is left out, and what was     *)
(* transferred of another section than the one looked at.                  *)
OfList(p) ==
  Transferred({i \in ToSet(items) :
                 i.filed /\ i.of.kind = "entry" /\ i.of.list = p})
OfFavorites(section) == Transferred({i \in ToSet(items) : i.of.kind = section})

HeldIn(section) == {f[2] : f \in {g \in held.favorites : g[1] = section}}

JudgedLists    == {p \in DOMAIN held.lists : OfList(p) # << >>}
JudgedSections == {c \in Favorites : OfFavorites(c) # << >>}

(* The expected favourites are compared with all there are, so one that    *)
(* was there before fails the job. A section that could not be read is an  *)
(* empty one, and only of the tracks it is asked whether they were read.   *)
VerifyFavorites(section, unread) ==
  /\ section = "tracks" => section \notin unread
  /\ SameMembers(OfFavorites(section),
                 SetToSeq(IF section \in unread THEN {} ELSE HeldIn(section)))

(* Reading playlists may be unsupported, and a section may be unreadable.  *)
Verify ==
  /\ phase = "written"
  /\ \E unread \in SUBSET (JudgedSections \cup {"playlists"}) :
       /\ Cardinality(unread) <= MaxFailed
       /\ verdicts' =
            [unread    |-> unread,
             lists     |-> [p \in JudgedLists |->
                              /\ "playlists" \notin unread
                              /\ SameSequence(OfList(p), held.lists[p])],
             favorites |-> [c \in JudgedSections |-> VerifyFavorites(c, unread)]]
  /\ phase' = "verified"
  /\ UNCHANGED <<library, settings, present, stage, turns, items, warnings,
                 latest, held>>

(* Any other error of reading a playlist leaves the verifier, and with it  *)
(* the command: there is no verdict at all.                                *)
VerifyRaises ==
  /\ phase = "written" /\ JudgedLists # {}
  /\ phase' = "unverified"
  /\ UNCHANGED <<library, settings, present, stage, turns, items, warnings,
                 latest, held, verdicts>>

-----------------------------------------------------------------------------
Results == {s \in BoundedSeq(Catalogue, SearchLimit) : IsInjective(s)}

PlanNext ==
  \/ SkipIncomplete \/ Unsupported \/ StartSection \/ SkipUnidentified \/ SkipUnresolved
  \/ PlanDirect \/ PlanUntargeted
  \/ \E found \in Results : PlanSearched(found)
  \/ EndSection \/ StorePlan \/ Write \/ Verify \/ VerifyRaises

PlanSpec == PlanInit /\ [][PlanNext]_plan

-----------------------------------------------------------------------------
(* A match made from metadata has the qualifiers of its source, as far as  *)
(* the normalisation finds them in the titles, and where both say whether  *)
(* they are explicit they say the same, whatever else agrees and even      *)
(* where settings allow the fallback to a clean one (scoring.py). It does  *)
(* not say that both are the same recording: what only the version field   *)
(* or another dash tells apart is matched.                                 *)
SameQualifiers ==
  latest # None /\ latest.match.method = "metadata"
    /\ latest.match.target # None
  => LET source == Track[latest.source]
         target == Track[latest.match.target]
     IN /\ Qualifiers(source) = Qualifiers(target)
        /\ \/ None \in {source.explicit, target.explicit}
           \/ source.explicit = target.explicit

(* The order of a search result decides nothing: whichever way the         *)
(* candidates the policy looks at are arranged, the same one is chosen, or *)
(* none (matcher.py's near tie).                                           *)
MatchIgnoresOrder ==
  latest # None /\ latest.match.method = "metadata"
    /\ Len(latest.found) <= MaxCandidates
  => \A f \in Bijection(DOMAIN latest.found, DOMAIN latest.found) :
       Match(Track[latest.source], [k \in DOMAIN f |-> latest.found[f[k]]]).target
         = latest.match.target

Precedes(section, a, b) ==
  /\ settings.ordering \in DOMAIN SortedBy[section]
  /\ LET x == Track[a].keys[SortedBy[section][settings.ordering]]
         y == Track[b].keys[SortedBy[section][settings.ordering]]
     IN /\ x # None
        /\ y # None => IF settings.ordering = "newest" THEN x > y ELSE x < y

PlannedOnlyAt(e, i) == \A j \in DOMAIN items : items[j].of = e <=> j = i

(* What is confirmed is the whole of what was asked for, once: every       *)
(* identified favourite as often as the library has it, in the requested   *)
(* order with missing keys last; every playlist by one item, and behind it *)
(* each resolvable entry by one item, in the order of their positions; and *)
(* for every incomplete section, and every entry without a track, a        *)
(* warning (planner.py, ordering.py).                                      *)
PlanComplete ==
  phase = "confirmed" =>
  /\ \A n \in DOMAIN settings.content :
       LET section == settings.content[n]
           planned == {i \in DOMAIN items : items[i].of.kind = section}
       IN IF section \in library.incomplete
          THEN Entry("incomplete", None, 0, section) \in warnings
          ELSE section \in Favorites =>
            /\ \A a \in DOMAIN Track \ Unidentified : Times(library[section], a)
                 = Cardinality({i \in planned : items[i].of.id = a})
            /\ \A i, j \in planned : i < j =>
                 ~Precedes(section, items[j].of.id, items[i].of.id)
  /\ "playlists" \in ToSet(settings.content) \ library.incomplete =>
       \A p \in DOMAIN library.playlists : \E top \in DOMAIN items :
         /\ PlannedOnlyAt(Entry("playlist", p, p, p), top)
         /\ \A k \in DOMAIN library.playlists[p] :
              LET entry == Entry("entry", p, k, library.playlists[p][k])
              IN IF entry.id = None THEN entry \in warnings
                 ELSE \E i \in DOMAIN items :
                   /\ top < i /\ PlannedOnlyAt(entry, i)
                   /\ \A j \in DOMAIN items : items[j].of.list = p /\ j > i
                         => items[j].of.kind = "entry" /\ items[j].of.at > k

Due(p) == Transferred({i \in ToSet(items) : i.of.kind = "entry" /\ i.of.list = p})
Unfiled(p) ==
  \E i \in ToSet(items) : /\ i.of.kind = "entry" /\ i.of.list = p
                          /\ i.status = "transferred" /\ ~i.filed

(* A playlist of which every transferred entry is stored with its list is  *)
(* judged, and verified exactly when it was read and holds these entries   *)
(* in their order and nothing else; a section of favourites only when it   *)
(* was read and each transferred one is there. Of a playlist that lacks    *)
(* the list on an entry, which a resumed run leaves behind, nothing is     *)
(* said: the verifier leaves that entry out (verifier.py).                 *)
VerifiedMeansEqual ==
  phase = "verified" =>
  /\ \A p \in DOMAIN held.lists : Due(p) # << >> /\ ~Unfiled(p) =>
       /\ p \in DOMAIN verdicts.lists
       /\ verdicts.lists[p] <=> /\ "playlists" \notin verdicts.unread
                                /\ held.lists[p] = Due(p)
  /\ \A c \in DOMAIN verdicts.favorites : verdicts.favorites[c] =>
       c \notin verdicts.unread /\ ToSet(OfFavorites(c)) \subseteq HeldIn(c)
=============================================================================
