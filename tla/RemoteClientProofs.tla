------------------------- MODULE RemoteClientProofs -------------------------
(***************************************************************************)
(* Theorems about RemoteClient, for any library, any sizes of pages and    *)
(* any number of faults.                                                   *)
(***************************************************************************)
EXTENDS RemoteClient, SublistProofs, FiniteSetTheorems

(* A creation or an append is asked for once: it has not landed before its *)
(* only request is answered.                                               *)
AskedOnce ==
  op \in Unsafe =>
    /\ pc \in {"send", "answered", "raised", "done"}
    /\ landed \in {0, 1}
    /\ pc = "send" => landed = 0

(* What is known of an answer: one that lets the write land says so, or    *)
(* its reason is one whose outcome is unknown, and so does the error that  *)
(* is raised, until an adapter has it.                                     *)
LandedIsKnown ==
  op \in Unsafe =>
    /\ pc = "answered" /\ landed > 0 =>
         answer.kind \in {"done"} \cup Unsure
    /\ pc = "raised" => Mt
    /\ pc = "raised" /\ landed > 0 => error = Err("ambiguous", "")
    /\ pc = "done" /\ landed > 0 /\ error # Success =>
         IF Forgetful THEN error.class = "permanent" ELSE Doubtful(error)

WriteInv == /\ app \in Apps
            /\ op \in Writes \cup {"export_library"}
            /\ AskedOnce
            /\ LandedIsKnown
----------------------------------------------------------------------------
(* Which operations are which.                                             *)
LEMMA Operations ==
  /\ Unsafe \subseteq Writes
  /\ "export_library" \notin Writes
  BY DEF Unsafe, Writes

(* Nothing was sent at the start.                                          *)
LEMMA WriteInit == Init => WriteInv
<1> SUFFICES ASSUME Init PROVE WriteInv
  OBVIOUS
<1>1. /\ app \in Apps /\ op \in Writes \cup {"export_library"}
      /\ landed = 0 /\ (op \in Writes => pc = "send")
  BY DEF Init
<1> QED
  BY <1>1, Operations DEF WriteInv, AskedOnce, LandedIsKnown

(* The error that the client makes of an answer whose outcome is unknown   *)
(* says so.                                                                *)
LEMMA UnsureIsDoubtful ==
  ASSUME op \in Unsafe, NEW kind \in Unsure
  PROVE  /\ Doubtful(Invoked(Reason(kind)))
         /\ Mt => Invoked(Reason(kind)) = Err("ambiguous", "")
<1>1. Reason(kind) \in AmbiguousReasons
  BY DEF Unsure, Reason, AmbiguousReasons
<1>2. ~RetrySafe
  BY DEF RetrySafe
<1> DEFINE reason == Reason(kind)
<1> HIDE DEF reason
<1>3. /\ reason \in AmbiguousReasons
      /\ reason # "item_unavailable" /\ reason # "authorization_error"
  BY <1>1 DEF reason, AmbiguousReasons
<1>4. /\ Doubtful(Invoked(reason))
      /\ Mt => Invoked(reason) = Err("ambiguous", "")
  <2>1. CASE Mt
    <3>1. Translated(reason, ~RetrySafe) = Err("ambiguous", "")
      BY <1>2, <1>3 DEF Translated
    <3>2. Invoked(reason) = Err("ambiguous", "")
      BY <2>1, <3>1 DEF Invoked
    <3>3. Err("ambiguous", "").class = "ambiguous"
      BY DEF Err
    <3>4. Invoked(reason).class = "ambiguous"
      BY <3>2, <3>3
    <3> QED
      BY <2>1, <3>2, <3>4 DEF Doubtful
  <2>2. CASE ~Mt
    <3>1. Invoked(reason) = [class |-> "client", reason |-> reason]
      BY <2>2, <1>3 DEF Invoked, Err
    <3>2. Invoked(reason).reason = reason
      BY <3>1
    <3> QED
      BY <2>2, <3>2, <1>3 DEF Doubtful, Mt
  <2> QED
    BY <2>1, <2>2
<1> QED
  BY <1>4 DEF reason

(* No step asks for such a write again.                                    *)
LEMMA WriteStep == WriteInv /\ [Next]_vars => WriteInv'
<1> SUFFICES ASSUME WriteInv, [Next]_vars PROVE WriteInv'
  OBVIOUS
<1> USE DEF request, paging, export, others
<1>0. UNCHANGED <<app, op>>
  BY DEF Next, Step, vars, Answer, OtherClient, Retry, Written, WriteRefused,
         WriteFails, Finish, AdapterRaises, OpenSection, SectionRead,
         SectionRefused, NextPage, SectionFails
<1>1. CASE op \notin Unsafe
  BY <1>0, <1>1 DEF WriteInv, AskedOnce, LandedIsKnown
<1>2. CASE op \in Unsafe
  <2>1. /\ op \in Writes /\ op # "export_library" /\ ~CanRetry /\ ~Gone
        /\ pc \in {"send", "answered", "raised", "done"} /\ landed \in {0, 1}
    BY <1>2, Operations DEF CanRetry, RetrySafe, Gone, Unsafe, WriteInv, AskedOnce
  <2>2. CASE Answer
    <3>1. /\ pc = "send" /\ pc' = "answered" /\ landed = 0
      BY <1>2, <2>2 DEF Answer, WriteInv, AskedOnce
    <3>2. \/ landed' = 1 /\ answer'.kind = "done"
          \/ landed' = 1 /\ answer'.kind \in Unsure
          \/ landed' = 0
      <4>1. CASE /\ answer' = [NoAnswer EXCEPT !.kind = "done", !.page = << >>]
                 /\ landed' = landed + 1
        BY <3>1, <4>1 DEF NoAnswer
      <4>2. ASSUME NEW kind, NEW after,
                   answer' = [kind |-> kind, after |-> after, page |-> << >>],
                   landed' = landed \/ (kind \in Unsure /\ landed' = landed + 1)
            PROVE  landed' = 0 \/ (landed' = 1 /\ answer'.kind \in Unsure)
        BY <3>1, <4>2
      <4>3. \/ /\ answer' = [NoAnswer EXCEPT !.kind = "done", !.page = << >>]
               /\ landed' = landed + 1
            \/ \E kind, after :
                 /\ answer' = [kind |-> kind, after |-> after, page |-> << >>]
                 /\ landed' = landed \/ (kind \in Unsure /\ landed' = landed + 1)
        BY <2>1, <2>2 DEF Answer
      <4> QED
        BY <4>1, <4>2, <4>3
    <3> QED
      BY <1>0, <3>1, <3>2 DEF WriteInv, AskedOnce, LandedIsKnown
  <2>3. CASE Written
    BY <1>0, <1>2, <2>1, <2>3 DEF Written, Finish, WriteInv, AskedOnce, LandedIsKnown,
         Forgetful, Doubtful, Mt
  <2>4. CASE WriteRefused
    <3>1. landed = 0
      BY <1>2, <2>1, <2>4 DEF WriteRefused, WriteInv, LandedIsKnown, Unsure
    <3> QED
      BY <1>0, <1>2, <2>4, <3>1 DEF WriteRefused, Finish, WriteInv, AskedOnce, LandedIsKnown,
         Forgetful, Doubtful, Mt
  <2>5. CASE WriteFails
    <3>1. landed > 0 => answer.kind \in Unsure
      BY <1>2, <2>5 DEF WriteFails, WriteInv, LandedIsKnown
    <3>2. /\ error' = Invoked(Reason(answer.kind)) /\ landed' = landed
          /\ pc' = IF Mt /\ error' # Success THEN "raised" ELSE "done"
      BY <2>5 DEF WriteFails, Finish
    <3>3. landed' > 0 => /\ Doubtful(error')
                         /\ Mt => error' = Err("ambiguous", "")
      <4> SUFFICES ASSUME landed' > 0
                   PROVE  Doubtful(error') /\ (Mt => error' = Err("ambiguous", ""))
        OBVIOUS
      <4>1. /\ Doubtful(Invoked(Reason(answer.kind)))
            /\ Mt => Invoked(Reason(answer.kind)) = Err("ambiguous", "")
        BY <1>2, <3>1, <3>2, UnsureIsDoubtful
      <4> QED
        BY <3>2, <4>1
    <3>4. /\ (Doubtful(error))' <=> Doubtful(error')
          /\ Mt' <=> Mt
      BY <1>0 DEF Doubtful, Mt
    <3> QED
      BY <1>0, <2>1, <3>2, <3>3, <3>4 DEF WriteInv, AskedOnce, LandedIsKnown, Forgetful
  <2>8. CASE AdapterRaises
    <3>1. /\ pc = "raised" /\ pc' = "done" /\ landed' = landed /\ Mt
          /\ error' = Adapted(error)
      BY <1>2, <2>8 DEF AdapterRaises, WriteInv, LandedIsKnown
    <3>2. ASSUME landed > 0
          PROVE  IF Forgetful THEN error'.class = "permanent"
                 ELSE error'.class = "ambiguous"
      <4>1. error = Err("ambiguous", "")
        BY <1>2, <3>1, <3>2 DEF WriteInv, LandedIsKnown
      <4>2. error.class = "ambiguous" /\ error.reason = ""
        BY <4>1 DEF Err
      <4>3. CASE op = "create_folder"
        <5>1. Adapted(error) = error
          BY <4>2, <4>3 DEF Adapted
        <5> QED
          BY <3>1, <4>2, <4>3, <5>1 DEF Forgetful
      <4>4. CASE op # "create_folder"
        <5>1. op # "delete_playlist"
          BY <1>2 DEF Unsafe
        <5>2. Adapted(error) = Translated("", TRUE)
          BY <4>2, <4>4, <5>1 DEF Adapted
        <5>3. Translated("", TRUE) = Err("permanent", "")
          BY DEF Translated, AmbiguousReasons
        <5>4. Err("permanent", "").class = "permanent"
          BY DEF Err
        <5> QED
          BY <3>1, <4>4, <5>2, <5>3, <5>4 DEF Forgetful
      <4> QED
        BY <4>3, <4>4
    <3>3. Mt' /\ (Forgetful' <=> Forgetful)
      BY <1>0, <3>1 DEF Mt, Forgetful
    <3> QED
      BY <1>0, <1>2, <3>1, <3>2, <3>3 DEF WriteInv, AskedOnce, LandedIsKnown, Doubtful
  <2>6. CASE UNCHANGED vars
    BY <1>0, <1>2, <2>6 DEF vars, WriteInv, AskedOnce, LandedIsKnown, Doubtful, Mt,
                            Forgetful
  <2>7. ~(Retry \/ OtherClient \/ OpenSection \/ SectionRead \/ SectionRefused
            \/ NextPage \/ SectionFails)
    BY <2>1 DEF Retry, OtherClient, OpenSection, SectionRead, SectionRefused,
                NextPage, SectionFails, AtPage
  <2> QED
    BY <2>2, <2>3, <2>4, <2>5, <2>6, <2>7, <2>8 DEF Next, Step
<1> QED
  BY <1>1, <1>2

(* However many answers are lost, a creation or an append takes effect at  *)
(* most once in a call of the client.                                      *)
THEOREM UnsafeWritesLandOnce == Spec => []UnsafeLandsOnce
<1>1. WriteInv => UnsafeLandsOnce
  BY DEF WriteInv, AskedOnce, UnsafeLandsOnce
<1> QED
  BY <1>1, WriteInit, WriteStep, PTL DEF Spec

(* When it took effect and an error is raised, the error of the client     *)
(* says that the outcome is unknown; the callers of tidal_manager and of   *)
(* create_folder are told so, and those of the adapter's create_playlist   *)
(* and add_playlist_item are given a permanent failure instead.            *)
THEOREM DoubtIsKept == Spec => []ClientKeepsDoubt
<1>1. WriteInv => ClientKeepsDoubt
  <2> SUFFICES ASSUME WriteInv PROVE ClientKeepsDoubt
    OBVIOUS
  <2>1. Err("ambiguous", "").class = "ambiguous"
    BY DEF Err
  <2> QED
    BY <2>1 DEF WriteInv, LandedIsKnown, ClientKeepsDoubt, Doubtful
<1> QED
  BY <1>1, WriteInit, WriteStep, PTL DEF Spec

(***************************************************************************)
(* What an export has read                                                 *)
(***************************************************************************)
Ids == NewIds \cup UNION {ToSet(Collection[s]) : s \in ToSet(Sections)}

(* What the server shows of the first m items of a section with content r, *)
(* and of a page that begins behind them.                                  *)
Seen(r, m) == Sublist(SubSeq(r, 1, Least(m, Len(r))), ToSet(r) \ Hidden)

PageOf(r, m) ==
  Sublist(SubSeq(r, m + 1, Least(m + PageSize, Len(r))), ToSet(r) \ Hidden)

Clear(r) == ToSet(r) \cap Hidden = {}

(* Of the first m items of r, those that s held at first are among v.      *)
Covered(r, s, m, v) ==
  \A j \in 1 .. Len(r) :
    j <= m /\ r[j] \in ToSet(Collection[s]) => r[j] \in ToSet(v)

Reading == pc \in {"send", "answered"}
Closed == ToSet(Sections) \ (incomplete \cup ToSet(todo))

ReadTypes ==
  /\ app \in Apps
  /\ pc \in {"section", "send", "answered", "done"}
  /\ remote \in [ToSet(Sections) -> Seq(Ids)]
  /\ todo \in Seq(ToSet(Sections))
  /\ Reading => todo # << >>
  /\ pc = "done" => todo = << >>
  /\ pages \in Nat /\ offset \in Nat /\ offset = pages * PageSize
  /\ values \in Seq(Ids) /\ answer.page \in Seq(Ids)
  /\ snapshot \in [ToSet(Sections) -> Seq(Ids)]
  /\ inserted \in Nat /\ removed \in Nat

(* When nothing changes, what was collected is what there is to see up to  *)
(* the offset.                                                             *)
WholeInv ==
  inserted = 0 /\ removed = 0 =>
    /\ Reading => values = Seen(remote[Section], offset)
    /\ AtPage => answer.page = PageOf(remote[Section], offset)
    /\ \A s \in Closed : Pageable(s) => snapshot[s] = Visible(s)

(* When nothing is removed, the items that were there at first only move   *)
(* backwards, so that those before the offset have been collected.  A      *)
(* short page shows that none was behind it.                               *)
NothingLost ==
  removed = 0 =>
    /\ \A s \in ToSet(Sections) : ToSet(Collection[s]) \subseteq ToSet(remote[s])
    /\ Reading /\ Clear(remote[Section]) =>
         Covered(remote[Section], Section, offset, values)
    /\ AtPage /\ Clear(remote[Section]) =>
         /\ Covered(remote[Section], Section, offset + PageSize, Collected)
         /\ Len(answer.page) < PageSize =>
              ToSet(Collection[Section]) \subseteq ToSet(Collected)
    /\ \A s \in Closed :
         Clear(remote[s]) => ToSet(Collection[s]) \subseteq ToSet(snapshot[s])

ReadInv == op = "export_library" => ReadTypes /\ WholeInv /\ NothingLost
----------------------------------------------------------------------------
(* A page is a list, and with it one has seen a page more.                 *)
LEMMA SeenGrows ==
  ASSUME NEW r \in Seq(Ids), NEW m \in Nat
  PROVE  /\ PageOf(r, m) \in Seq(Ids) /\ Seen(r, m) \in Seq(Ids)
         /\ Seen(r, m + PageSize) = Seen(r, m) \o PageOf(r, m)
<1> DEFINE S == ToSet(r) \ Hidden
           a == SubSeq(r, 1, Least(m, Len(r)))
           b == SubSeq(r, m + 1, Least(m + PageSize, Len(r)))
           c == SubSeq(r, 1, Least(m + PageSize, Len(r)))
<1>1. Len(r) \in Nat /\ PageSize \in Nat \ {0} /\ m + PageSize \in Nat
  BY ClientAssumption
<1>2. \A i \in 1 .. Len(r) : r[i] \in Ids
  OBVIOUS
<1>3. a \in Seq(Ids) /\ b \in Seq(Ids) /\ c = a \o b
  <2>1. CASE m <= Len(r)
    <3> DEFINE n == Least(m + PageSize, Len(r))
    <3>1. n \in m .. Len(r) /\ Least(m, Len(r)) = m /\ m \in 1 - 1 .. Len(r)
          /\ 1 \in 1 .. Len(r) + 1 /\ m \in Int /\ m + 1 \in Int /\ n \in Int /\ 1 \in Int
      BY <1>1, <2>1 DEF Least
    <3> HIDE DEF n
    <3>2. SubSeq(r, 1, m) \o SubSeq(r, m + 1, n) = SubSeq(r, 1, n)
      BY ONLY r \in Seq(Ids), <3>1, ConcatAdjacentSubSeq
    <3>3. (\A i \in 1 .. m : r[i] \in Ids) /\ \A i \in m + 1 .. n : r[i] \in Ids
      BY <1>1, <1>2, <3>1
    <3>4. SubSeq(r, 1, m) \in Seq(Ids) /\ SubSeq(r, m + 1, n) \in Seq(Ids)
      BY ONLY <3>1, <3>3, SubSeqProperties
    <3> QED
      BY <3>1, <3>2, <3>4 DEF n
  <2>2. CASE m > Len(r)
    <3>1. Least(m, Len(r)) = Len(r) /\ Least(m + PageSize, Len(r)) = Len(r)
      BY <1>1, <2>2 DEF Least
    <3>2. m + 1 \in Int /\ Len(r) \in Int /\ Len(r) < m + 1
      BY <1>1, <2>2
    <3>3. SubSeq(r, m + 1, Len(r)) = << >>
      BY ONLY <3>2, SubSeqEmpty
    <3>4. SubSeq(r, 1, Len(r)) = r
      BY SubSeqFull
    <3>5. r \o << >> = r
      BY ConcatEmptySeq
    <3>6. a = r /\ b = << >> /\ c = r /\ << >> \in Seq(Ids)
      BY <3>1, <3>3, <3>4
    <3> HIDE DEF a, b, c
    <3> QED
      BY <3>5, <3>6
  <2> HIDE DEF a, b, c
  <2> QED
    BY <1>1, <2>1, <2>2
<1> HIDE DEF a, b, c, S
<1>4. Sublist(a, S) \in Seq(Ids) /\ Sublist(b, S) \in Seq(Ids)
  BY <1>3, SublistPlaces
<1>5. Sublist(c, S) = Sublist(a, S) \o Sublist(b, S)
  BY <1>3, SublistOfConcat
<1>6. /\ Seen(r, m) = Sublist(a, S) /\ PageOf(r, m) = Sublist(b, S)
      /\ Seen(r, m + PageSize) = Sublist(c, S)
  BY DEF Seen, PageOf, a, b, c, S
<1> QED
  BY <1>4, <1>5, <1>6

(* At the start nothing has been seen, at the end everything.              *)
LEMMA SeenEnds ==
  ASSUME NEW r \in Seq(Ids)
  PROVE  /\ Seen(r, 0) = << >>
         /\ \A m \in Nat : m >= Len(r) => Seen(r, m) = Sublist(r, ToSet(r) \ Hidden)
<1>1. Len(r) \in Nat
  OBVIOUS
<1>2. Seen(r, 0) = << >>
  <2>1. Least(0, Len(r)) = 0
    BY <1>1 DEF Least
  <2>2. SubSeq(r, 1, 0) = << >>
    BY SubSeqEmpty
  <2> QED
    BY <2>1, <2>2, SublistOfEmpty DEF Seen
<1>3. ASSUME NEW m \in Nat, m >= Len(r)
      PROVE  Seen(r, m) = Sublist(r, ToSet(r) \ Hidden)
  <2>1. Least(m, Len(r)) = Len(r)
    BY <1>1, <1>3 DEF Least
  <2>2. SubSeq(r, 1, Len(r)) = r
    BY SubSeqFull
  <2> QED
    BY <2>1, <2>2 DEF Seen
<1> QED
  BY <1>2, <1>3

(* Where nothing is hidden, a page holds the items behind the offset, and  *)
(* a short one is the last.                                                *)
LEMMA PageHolds ==
  ASSUME NEW r \in Seq(Ids), NEW m \in Nat, Clear(r)
  PROVE  /\ \A j \in 1 .. Len(r) : m < j /\ j <= m + PageSize => r[j] \in ToSet(PageOf(r, m))
         /\ Len(PageOf(r, m)) < PageSize => m + PageSize > Len(r)
<1> DEFINE n == Least(m + PageSize, Len(r))
           b == SubSeq(r, m + 1, n)
<1>1. Len(r) \in Nat /\ PageSize \in Nat \ {0} /\ n \in Nat /\ n <= Len(r)
      /\ \A i \in 1 .. Len(r) : r[i] \in Ids /\ r[i] \in ToSet(r) \ Hidden
  BY ClientAssumption DEF Least, Clear, ToSet
<1>2. /\ b \in Seq(Ids)
      /\ Len(b) = IF m + 1 <= n THEN n - (m + 1) + 1 ELSE 0
      /\ \A i \in 1 .. n - (m + 1) + 1 : b[i] = r[m + 1 + i - 1]
  <2>1. m + 1 \in Int /\ n \in Int /\ \A i \in m + 1 .. n : r[i] \in Ids
    BY <1>1
  <2> HIDE DEF n
  <2> QED
    BY ONLY <2>1, SubSeqProperties DEF b
<1>3. n = IF m + PageSize < Len(r) THEN m + PageSize ELSE Len(r)
  BY DEF Least
<1> HIDE DEF n, b
<1>4. \A i \in 1 .. Len(b) : b[i] \in ToSet(r) \ Hidden
  <2>1. ASSUME NEW i \in 1 .. Len(b) PROVE b[i] \in ToSet(r) \ Hidden
    <3>1. m + 1 <= n /\ i \in 1 .. n - (m + 1) + 1 /\ m + 1 + i - 1 \in 1 .. Len(r)
      BY <1>1, <1>2, <2>1
    <3> QED
      BY <1>1, <1>2, <3>1
  <2> QED
    BY <2>1
<1>5. PageOf(r, m) = b
  <2>1. Sublist(b, ToSet(r) \ Hidden) = b
    BY <1>2, <1>4, SublistOfAll
  <2> QED
    BY <2>1 DEF PageOf, b, n
<1>6. ASSUME NEW j \in 1 .. Len(r), m < j, j <= m + PageSize PROVE r[j] \in ToSet(b)
  <2>1. j <= n /\ m + 1 <= n /\ j - m \in 1 .. Len(b) /\ j - m \in 1 .. n - (m + 1) + 1
        /\ m + 1 + (j - m) - 1 = j
    BY <1>1, <1>2, <1>3, <1>6
  <2>2. b[j - m] = r[j]
    BY <1>2, <2>1
  <2>3. DOMAIN b = 1 .. Len(b)
    BY <1>2
  <2> QED
    BY <2>1, <2>2, <2>3 DEF ToSet
<1>7. Len(b) < PageSize => m + PageSize > Len(r)
  BY <1>1, <1>2, <1>3
<1> QED
  BY <1>5, <1>6, <1>7

(* The elements of two lists, one after the other.                         *)
LEMMA ElementsOfBoth ==
  ASSUME NEW u \in Seq(Ids), NEW v \in Seq(Ids)
  PROVE  u \o v \in Seq(Ids) /\ ToSet(u \o v) = ToSet(u) \cup ToSet(v)
<1> DEFINE w == u \o v
<1>1. /\ w \in Seq(Ids)
      /\ Len(w) = Len(u) + Len(v)
      /\ \A i \in 1 .. Len(u) + Len(v) :
           w[i] = IF i <= Len(u) THEN u[i] ELSE v[i - Len(u)]
  BY ConcatProperties
<1>2. /\ Len(u) \in Nat /\ Len(v) \in Nat
      /\ DOMAIN u = 1 .. Len(u) /\ DOMAIN v = 1 .. Len(v) /\ DOMAIN w = 1 .. Len(w)
  BY <1>1
<1> HIDE DEF w
<1>3. ASSUME NEW i \in 1 .. Len(u) PROVE u[i] = w[i] /\ i \in 1 .. Len(w)
  BY <1>1, <1>2
<1>4. ASSUME NEW i \in 1 .. Len(v)
      PROVE  v[i] = w[Len(u) + i] /\ Len(u) + i \in 1 .. Len(w)
  BY <1>1, <1>2
<1>5. ASSUME NEW i \in 1 .. Len(w) PROVE w[i] \in ToSet(u) \cup ToSet(v)
  <2>1. CASE i <= Len(u)
    BY <1>1, <1>2, <2>1 DEF ToSet
  <2>2. CASE ~(i <= Len(u))
    <3>1. i - Len(u) \in 1 .. Len(v) /\ w[i] = v[i - Len(u)]
      BY <1>1, <1>2, <2>2
    <3> QED
      BY <1>2, <3>1 DEF ToSet
  <2> QED
    BY <2>1, <2>2
<1>6. ToSet(w) = ToSet(u) \cup ToSet(v)
  <2>1. ToSet(w) \subseteq ToSet(u) \cup ToSet(v)
    <3>1. ASSUME NEW x \in ToSet(w) PROVE x \in ToSet(u) \cup ToSet(v)
      <4>1. PICK i \in 1 .. Len(w) : x = w[i]
        BY <1>2 DEF ToSet
      <4> QED
        BY <1>5, <4>1
    <3> QED
      BY <3>1
  <2>2. ToSet(u) \subseteq ToSet(w)
    BY <1>2, <1>3 DEF ToSet
  <2>3. ToSet(v) \subseteq ToSet(w)
    BY <1>2, <1>4 DEF ToSet
  <2> QED
    BY <2>1, <2>2, <2>3
<1> QED
  BY <1>1, <1>6 DEF w

(* A page read behind m covered items covers a page more; a short one      *)
(* covers everything.                                                      *)
LEMMA PageCovers ==
  ASSUME NEW s \in ToSet(Sections), NEW r \in Seq(Ids), NEW m \in Nat,
         NEW v \in Seq(Ids), Clear(r), Covered(r, s, m, v),
         ToSet(Collection[s]) \subseteq ToSet(r)
  PROVE  /\ Covered(r, s, m + PageSize, v \o PageOf(r, m))
         /\ Len(PageOf(r, m)) < PageSize =>
              ToSet(Collection[s]) \subseteq ToSet(v \o PageOf(r, m))
<1> DEFINE w == v \o PageOf(r, m)
<1>1. ToSet(w) = ToSet(v) \cup ToSet(PageOf(r, m))
  BY SeenGrows, ElementsOfBoth
<1>2. Len(r) \in Nat /\ DOMAIN r = 1 .. Len(r) /\ PageSize \in Nat
  BY ClientAssumption
<1> HIDE DEF w
<1>3. ASSUME NEW j \in 1 .. Len(r), j <= m + PageSize, r[j] \in ToSet(Collection[s])
      PROVE  r[j] \in ToSet(w)
  <2>1. CASE j <= m
    BY <1>1, <1>3, <2>1 DEF Covered
  <2>2. CASE m < j
    BY <1>1, <1>3, <2>2, PageHolds
  <2> QED
    BY <1>2, <2>1, <2>2
<1>4. ASSUME Len(PageOf(r, m)) < PageSize, NEW x \in ToSet(Collection[s])
      PROVE  x \in ToSet(w)
  <2>1. PICK j \in 1 .. Len(r) : x = r[j]
    BY <1>2 DEF ToSet
  <2>2. j <= m + PageSize
    BY <1>2, <1>4, PageHolds
  <2> QED
    BY <1>3, <1>4, <2>1, <2>2
<1> QED
  BY <1>3, <1>4 DEF Covered, w

(* An addition in front of r moves the covered items backwards.            *)
LEMMA InsertionKeeps ==
  ASSUME NEW s \in ToSet(Sections), NEW r \in Seq(Ids), NEW id \in Ids,
         id \notin ToSet(Collection[s])
  PROVE  /\ <<id>> \o r \in Seq(Ids)
         /\ ToSet(<<id>> \o r) = ToSet(r) \cup {id}
         /\ \A m \in Nat : \A v : Covered(r, s, m, v) => Covered(<<id>> \o r, s, m, v)
<1> DEFINE w == <<id>> \o r
<1>1. /\ <<id>> \in Seq(Ids) /\ Len(<<id>>) = 1 /\ ToSet(<<id>>) = {id}
      /\ <<id>>[1] = id
  BY DEF ToSet
<1>2. /\ w \in Seq(Ids)
      /\ Len(w) = 1 + Len(r)
      /\ \A i \in 1 .. 1 + Len(r) : w[i] = IF i <= 1 THEN id ELSE r[i - 1]
  <2> DEFINE one == <<id>>
  <2>1. one \in Seq(Ids) /\ Len(one) = 1 /\ one[1] = id
    BY <1>1
  <2> HIDE DEF one
  <2>2. /\ one \o r \in Seq(Ids)
        /\ Len(one \o r) = Len(one) + Len(r)
        /\ \A i \in 1 .. Len(one) + Len(r) :
             (one \o r)[i] = IF i <= Len(one) THEN one[i] ELSE r[i - Len(one)]
    BY <2>1, ConcatProperties
  <2>3. /\ one \o r \in Seq(Ids)
        /\ Len(one \o r) = 1 + Len(r)
        /\ \A i \in 1 .. 1 + Len(r) : (one \o r)[i] = IF i <= 1 THEN id ELSE r[i - 1]
    <3>1. \A i \in 1 .. 1 + Len(r) : i <= 1 => i = 1
      OBVIOUS
    <3> QED
      BY <2>1, <2>2, <3>1
  <2> QED
    BY <2>3 DEF one
<1>3. ToSet(w) = ToSet(r) \cup {id}
  <2>1. ToSet(<<id>> \o r) = ToSet(<<id>>) \cup ToSet(r)
    BY <1>1, ElementsOfBoth
  <2>2. ToSet(w) = ToSet(<<id>>) \cup ToSet(r)
    BY <2>1
  <2> HIDE DEF w
  <2> QED
    BY <1>1, <2>2
<1> HIDE DEF w
<1>4. ASSUME NEW m \in Nat, NEW v, Covered(r, s, m, v),
             NEW j \in 1 .. Len(w), j <= m, w[j] \in ToSet(Collection[s])
      PROVE  w[j] \in ToSet(v)
  <2>1. j # 1 /\ j - 1 \in 1 .. Len(r) /\ j - 1 <= m /\ w[j] = r[j - 1]
    BY <1>2, <1>4
  <2> QED
    BY <1>4, <2>1 DEF Covered
<1> QED
  BY <1>2, <1>3, <1>4 DEF Covered, w

(* What belongs to a section is an identifier.                             *)
LEMMA SectionIds ==
  ASSUME NEW s \in ToSet(Sections)
  PROVE  Collection[s] \in Seq(Ids)
<1> DEFINE Held == UNION {ToSet(Collection[t]) : t \in ToSet(Sections)}
<1>1. Collection[s] \in Seq(Held) /\ Held \subseteq Ids
  BY ListsAssumption DEF Ids
<1> HIDE DEF Held
<1>2. /\ Len(Collection[s]) \in Nat
      /\ Collection[s] \in [1 .. Len(Collection[s]) -> Held]
  BY <1>1
<1>3. Collection[s] \in [1 .. Len(Collection[s]) -> Ids]
  BY <1>1, <1>2
<1> QED
  BY <1>2, <1>3, SeqDef

(* The head of what is still to be read is no longer closed off by it.     *)
LEMMA TodoIs ==
  ASSUME todo \in Seq(ToSet(Sections)), todo # << >>
  PROVE  /\ Section \in ToSet(Sections)
         /\ Tail(todo) \in Seq(ToSet(Sections))
         /\ ToSet(todo) = {Section} \cup ToSet(Tail(todo))
<1>1. /\ Head(todo) \in ToSet(Sections)
      /\ Tail(todo) \in Seq(ToSet(Sections))
      /\ Len(Tail(todo)) = Len(todo) - 1
      /\ \A i \in 1 .. Len(Tail(todo)) : Tail(todo)[i] = todo[i + 1]
  BY HeadTailProperties
<1>2. Len(todo) \in Nat \ {0} /\ Head(todo) = todo[1] /\ DOMAIN todo = 1 .. Len(todo)
      /\ DOMAIN Tail(todo) = 1 .. Len(Tail(todo))
  BY <1>1
<1>3. ASSUME NEW i \in 1 .. Len(todo)
      PROVE  todo[i] \in {Head(todo)} \cup ToSet(Tail(todo))
  <2>1. CASE i = 1
    BY <1>2, <2>1
  <2>2. CASE i # 1
    <3>1. i - 1 \in 1 .. Len(Tail(todo)) /\ Tail(todo)[i - 1] = todo[i - 1 + 1] /\ i - 1 + 1 = i
      BY <1>1, <1>2, <2>2
    <3> QED
      BY <1>2, <3>1 DEF ToSet
  <2> QED
    BY <2>1, <2>2
<1>4. ASSUME NEW i \in 1 .. Len(Tail(todo)) PROVE Tail(todo)[i] \in ToSet(todo)
  <2>1. i + 1 \in 1 .. Len(todo)
    BY <1>1, <1>2
  <2> QED
    BY <1>1, <1>2, <2>1 DEF ToSet
<1>5. Head(todo) \in ToSet(todo)
  BY <1>2 DEF ToSet
<1>6. ToSet(Tail(todo)) \subseteq ToSet(todo)
  BY <1>2, <1>4 DEF ToSet
<1>7. ToSet(todo) \subseteq {Head(todo)} \cup ToSet(Tail(todo))
  <2>1. ASSUME NEW x \in ToSet(todo) PROVE x \in {Head(todo)} \cup ToSet(Tail(todo))
    <3>1. PICK i \in 1 .. Len(todo) : x = todo[i]
      BY <1>2 DEF ToSet
    <3> QED
      BY <1>3, <3>1
  <2> QED
    BY <2>1
<1> QED
  BY <1>1, <1>5, <1>6, <1>7 DEF Section

(* Nothing has been read at the start.                                     *)
LEMMA ReadInit == Init => ReadInv
<1> SUFFICES ASSUME Init, op = "export_library" PROVE ReadTypes /\ WholeInv /\ NothingLost
  BY DEF ReadInv
<1>1. /\ app \in Apps /\ pc = "section" /\ remote = Collection /\ answer = NoAnswer
      /\ offset = 0 /\ pages = 0 /\ values = << >> /\ todo = Sections
      /\ snapshot = [s \in ToSet(Sections) |-> << >>] /\ inserted = 0 /\ removed = 0
  BY Operations DEF Init
<1>2. remote \in [ToSet(Sections) -> Seq(Ids)]
  <2>1. Collection = [s \in ToSet(Sections) |-> Collection[s]]
    BY ListsAssumption
  <2> QED
    BY <1>1, <2>1, SectionIds
<1>3. ReadTypes
  <2>1. << >> \in Seq(Ids) /\ answer.page = << >>
    BY <1>1 DEF NoAnswer
  <2>2. snapshot \in [ToSet(Sections) -> Seq(Ids)]
    BY <1>1, <2>1
  <2>3. 0 = 0 * PageSize
    BY ClientAssumption
  <2>4. Sections \in Seq(ToSet(Sections))
    BY ListsAssumption
  <2> QED
    BY <1>1, <1>2, <2>1, <2>2, <2>3, <2>4 DEF ReadTypes, Reading
<1>4. ~Reading /\ ~AtPage /\ Closed = {}
  BY <1>1 DEF Reading, AtPage, Closed
<1> QED
  BY <1>1, <1>3, <1>4 DEF WholeInv, NothingLost

(* What a section shows depends on its content alone.                      *)
LEMMA ViewKept ==
  ASSUME UNCHANGED <<app, remote>>
  PROVE  \A s : (Pageable(s)' <=> Pageable(s)) /\ Visible(s)' = Visible(s)
BY DEF Pageable, Blocks, PageAt, Visible, Mt

(* A page of a section is a page of its content.                           *)
LEMMA PageAtIs == \A s, m : PageAt(s, m) = PageOf(remote[s], m)
BY DEF PageAt, PageOf

(* An answer brings the page at the offset, or none.                       *)
LEMMA AnswerReads ==
  ASSUME op = "export_library", ReadInv, Answer
  PROVE  ReadInv'
<1>1. /\ ReadTypes /\ pc = "send" /\ pc' = "answered" /\ Reading /\ Reading'
      /\ UNCHANGED <<app, op, remote, todo, pages, offset, values, snapshot,
                     incomplete, inserted, removed>>
  BY DEF Answer, ReadInv, Reading, paging, export, others
<1>2. Section \in ToSet(Sections) /\ Section' = Section /\ Closed' = Closed
  BY <1>1, TodoIs DEF ReadTypes, Section, Closed
<1> DEFINE r == remote[Section]
           page == PageOf(r, offset)
<1>3. r \in Seq(Ids) /\ offset \in Nat /\ values \in Seq(Ids)
  BY <1>1, <1>2 DEF ReadTypes
<1>4. page \in Seq(Ids)
  BY <1>3, SeenGrows
<1>5. /\ answer'.page \in Seq(Ids)
      /\ answer'.kind = "done" => answer'.page = page
  <2>1. op \notin Writes
    BY Operations
  <2>2. CASE answer' = [NoAnswer EXCEPT !.kind = "done", !.page = PageAt(Section, offset)]
    <3>1. answer'.page = PageAt(Section, offset)
      BY <2>2 DEF NoAnswer
    <3> QED
      BY <1>4, <3>1, PageAtIs
  <2>3. CASE answer' = [NoAnswer EXCEPT !.kind = "missing"]
    BY <2>3 DEF NoAnswer
  <2>4. ASSUME NEW kind \in Kinds, NEW after,
               answer' = [kind |-> kind, after |-> after, page |-> << >>]
        PROVE  answer'.page = << >> /\ answer'.kind # "done"
    BY <2>4 DEF Kinds
  <2>5. << >> \in Seq(Ids)
    OBVIOUS
  <2> HIDE DEF page, r
  <2>6. \/ answer' = [NoAnswer EXCEPT !.kind = "done", !.page = PageAt(Section, offset)]
        \/ answer' = [NoAnswer EXCEPT !.kind = "missing"]
        \/ \E kind \in Kinds : \E after :
             answer' = [kind |-> kind, after |-> after, page |-> << >>]
    BY <2>1 DEF Answer
  <2>7. CASE \E kind \in Kinds : \E after :
               answer' = [kind |-> kind, after |-> after, page |-> << >>]
    BY <2>4, <2>5, <2>7
  <2> QED
    BY <2>2, <2>3, <2>6, <2>7
<1> HIDE DEF page
<1>6. ReadTypes'
  BY <1>1, <1>5 DEF ReadTypes
<1>7. WholeInv'
  <2>1. SUFFICES ASSUME inserted = 0, removed = 0
        PROVE  /\ values' = Seen(remote[Section], offset)'
               /\ AtPage' => answer'.page = PageOf(remote[Section], offset)'
               /\ \A s \in Closed' : Pageable(s)' => snapshot'[s] = Visible(s)'
    BY <1>1 DEF WholeInv
  <2>2. WholeInv
    BY DEF ReadInv
  <2>3. Seen(remote[Section], offset)' = Seen(r, offset)
    BY <1>1, <1>2 DEF Seen
  <2>4. PageOf(remote[Section], offset)' = page
    BY <1>1, <1>2 DEF PageOf, page
  <2>5. AtPage' => answer'.kind = "done"
    BY DEF AtPage
  <2>6. \A s \in Closed : Pageable(s) => snapshot[s] = Visible(s)
    BY <2>1, <2>2 DEF WholeInv
  <2>7. values = Seen(r, offset)
    BY <1>1, <2>1, <2>2 DEF WholeInv
  <2>8. \A s \in Closed' : Pageable(s)' => snapshot'[s] = Visible(s)'
    BY <1>1, <1>2, <2>6, ViewKept
  <2> QED
    BY <1>1, <1>5, <2>3, <2>4, <2>5, <2>7, <2>8
<1>8. NothingLost'
  <2>1. SUFFICES ASSUME removed = 0
        PROVE  /\ \A s \in ToSet(Sections) : ToSet(Collection[s]) \subseteq ToSet(remote[s])'
               /\ Clear(remote[Section])' =>
                    Covered(remote[Section], Section, offset, values)'
               /\ AtPage' /\ Clear(remote[Section])' =>
                    /\ Covered(remote[Section], Section, offset + PageSize, Collected)'
                    /\ Len(answer'.page) < PageSize =>
                         ToSet(Collection[Section])' \subseteq ToSet(Collected)'
               /\ \A s \in Closed' :
                    Clear(remote[s])' => ToSet(Collection[s]) \subseteq ToSet(snapshot[s])'
    BY <1>1 DEF NothingLost
  <2>2. /\ \A s \in ToSet(Sections) : ToSet(Collection[s]) \subseteq ToSet(remote[s])
        /\ Clear(r) => Covered(r, Section, offset, values)
        /\ \A s \in Closed :
             Clear(remote[s]) => ToSet(Collection[s]) \subseteq ToSet(snapshot[s])
    BY <1>1, <2>1 DEF ReadInv, NothingLost
  <2>3. ASSUME Clear(r)
        PROVE  /\ Covered(r, Section, offset + PageSize, values \o page)
               /\ Len(page) < PageSize =>
                    ToSet(Collection[Section]) \subseteq ToSet(values \o page)
    <3>1. /\ Covered(r, Section, offset, values)
          /\ ToSet(Collection[Section]) \subseteq ToSet(r)
      BY <1>2, <2>2, <2>3
    <3> HIDE DEF r
    <3> QED
      BY <1>2, <1>3, <2>3, <3>1, PageCovers DEF page
  <2>4. ASSUME AtPage' PROVE answer'.page = page /\ Collected' = values \o page
    BY <1>1, <1>5, <2>4 DEF AtPage, Collected
  <2>5. remote'[Section'] = r
    BY <1>1, <1>2
  <2>6. Clear(remote[Section])' <=> Clear(r)
    BY <1>1, <1>2 DEF Clear
  <2>7. Covered(remote[Section], Section, offset, values)'
          <=> Covered(r, Section, offset, values)
    BY <1>1, <1>2 DEF Covered
  <2>8. ASSUME AtPage', Clear(r)
        PROVE  /\ Covered(remote[Section], Section, offset + PageSize, Collected)'
               /\ Len(answer'.page) < PageSize =>
                    ToSet(Collection[Section])' \subseteq ToSet(Collected)'
    <3>1. Covered(remote'[Section'], Section', offset' + PageSize, Collected')
      BY <1>1, <1>2, <2>3, <2>4, <2>5, <2>8
    <3>2. Len(answer'.page) < PageSize =>
            ToSet(Collection[Section]) \subseteq ToSet(Collected')
      BY <2>3, <2>4, <2>8
    <3>3. ToSet(Collection[Section])' = ToSet(Collection[Section])
      BY <1>2 DEF ToSet
    <3>4. ToSet(Collected)' = ToSet(Collected')
      BY DEF ToSet
    <3> QED
      BY <3>1, <3>2, <3>3, <3>4 DEF Covered
  <2>9. \A s : (Clear(remote[s])' <=> Clear(remote[s])) /\ ToSet(remote[s])' = ToSet(remote[s])
               /\ ToSet(snapshot[s])' = ToSet(snapshot[s])
    BY <1>1 DEF Clear, ToSet
  <2> QED
    BY <1>2, <2>2, <2>6, <2>7, <2>8, <2>9
<1> QED
  BY <1>6, <1>7, <1>8 DEF ReadInv

(* A step that asks for a page of the same section keeps what is known of  *)
(* the sections behind it.                                                 *)
LEMMA ReadOn ==
  ASSUME op = "export_library", ReadInv, ReadTypes', pc' # "answered",
         UNCHANGED <<app, op, remote, todo, snapshot, incomplete, inserted, removed>>,
         pc' = "send" =>
           /\ inserted = 0 /\ removed = 0 => values' = Seen(remote[Section], offset')
           /\ removed = 0 /\ Clear(remote[Section]) =>
                Covered(remote[Section], Section, offset', values')
  PROVE  ReadInv'
<1>1. Closed' = Closed /\ ~AtPage' /\ Section' = Section /\ (Reading' => pc' = "send")
  BY DEF Closed, AtPage, Section, Reading
<1>2. WholeInv'
  <2>1. SUFFICES ASSUME inserted = 0, removed = 0
        PROVE  /\ pc' = "send" => values' = Seen(remote[Section], offset)'
               /\ \A s \in Closed' : Pageable(s)' => snapshot'[s] = Visible(s)'
    BY <1>1 DEF WholeInv
  <2>2. \A s \in Closed : Pageable(s) => snapshot[s] = Visible(s)
    BY <2>1 DEF ReadInv, WholeInv
  <2>3. Seen(remote[Section], offset)' = Seen(remote[Section], offset')
    BY <1>1 DEF Seen
  <2> QED
    BY <1>1, <2>1, <2>2, <2>3, ViewKept
<1>3. NothingLost'
  <2>1. SUFFICES ASSUME removed = 0
        PROVE  /\ \A s \in ToSet(Sections) : ToSet(Collection[s]) \subseteq ToSet(remote[s])'
               /\ pc' = "send" /\ Clear(remote[Section])' =>
                    Covered(remote[Section], Section, offset, values)'
               /\ \A s \in Closed' :
                    Clear(remote[s])' => ToSet(Collection[s]) \subseteq ToSet(snapshot[s])'
    BY <1>1 DEF NothingLost
  <2>2. /\ \A s \in ToSet(Sections) : ToSet(Collection[s]) \subseteq ToSet(remote[s])
        /\ \A s \in Closed :
             Clear(remote[s]) => ToSet(Collection[s]) \subseteq ToSet(snapshot[s])
    BY <2>1 DEF ReadInv, NothingLost
  <2>3. \A s : (Clear(remote[s])' <=> Clear(remote[s])) /\ ToSet(remote[s])' = ToSet(remote[s])
               /\ ToSet(snapshot[s])' = ToSet(snapshot[s])
    BY DEF Clear, ToSet
  <2>4. Covered(remote[Section], Section, offset, values)'
          <=> Covered(remote[Section], Section, offset', values')
    BY <1>1 DEF Covered, ToSet
  <2>5. Clear(remote[Section])' <=> Clear(remote[Section])
    BY <1>1 DEF Clear, ToSet
  <2> QED
    BY <1>1, <2>1, <2>2, <2>3, <2>4, <2>5
<1> QED
  BY <1>2, <1>3 DEF ReadInv

(* A section is closed by its reading or as incomplete.                    *)
LEMMA ReadClose ==
  ASSUME op = "export_library", ReadInv, ReadTypes', todo # << >>, pc' = "section",
         UNCHANGED <<app, op, remote, inserted, removed>>, todo' = Tail(todo),
         NEW v,
         \/ snapshot' = snapshot /\ incomplete' = incomplete \cup {Section}
         \/ /\ snapshot' = [snapshot EXCEPT ![Section] = v] /\ incomplete' = incomplete
            /\ inserted = 0 /\ removed = 0 /\ Pageable(Section) => v = Visible(Section)
            /\ removed = 0 /\ Clear(remote[Section]) =>
                 ToSet(Collection[Section]) \subseteq ToSet(v)
  PROVE  ReadInv'
<1>1. /\ Section \in ToSet(Sections)
      /\ ToSet(todo) = {Section} \cup ToSet(todo')
      /\ ReadTypes /\ ~AtPage' /\ ~Reading'
  BY TodoIs DEF ReadInv, ReadTypes, AtPage, Reading
<1>2. ASSUME NEW s \in Closed'
      PROVE  \/ s \in Closed /\ snapshot'[s] = snapshot[s]
             \/ s = Section /\ snapshot'[s] = v /\ s \in ToSet(Sections)
                /\ (inserted = 0 /\ removed = 0 /\ Pageable(Section) => v = Visible(Section))
                /\ (removed = 0 /\ Clear(remote[Section]) =>
                      ToSet(Collection[Section]) \subseteq ToSet(v))
  <2>1. s \in ToSet(Sections) /\ s \notin incomplete' /\ s \notin ToSet(todo')
    <3>1. ToSet(todo)' = ToSet(todo')
      BY DEF ToSet
    <3> QED
      BY <3>1 DEF Closed
  <2>2. CASE s = Section
    <3>1. DOMAIN snapshot = ToSet(Sections)
      BY <1>1 DEF ReadTypes
    <3> QED
      BY <2>1, <2>2, <3>1
  <2>3. CASE s # Section
    <3>1. s \in Closed
      BY <1>1, <2>1, <2>3 DEF Closed
    <3>2. snapshot'[s] = snapshot[s]
      BY <2>1, <2>3, <1>1 DEF ReadTypes
    <3> QED
      BY <3>1, <3>2
  <2> QED
    BY <2>2, <2>3
<1>3. WholeInv'
  <2>1. SUFFICES ASSUME inserted = 0, removed = 0
        PROVE  \A s \in Closed' : Pageable(s)' => snapshot'[s] = Visible(s)'
    BY <1>1 DEF WholeInv
  <2>2. \A s \in Closed : Pageable(s) => snapshot[s] = Visible(s)
    BY <2>1 DEF ReadInv, WholeInv
  <2> QED
    BY <1>2, <2>1, <2>2, ViewKept
<1>4. NothingLost'
  <2>1. SUFFICES ASSUME removed = 0
        PROVE  /\ \A s \in ToSet(Sections) : ToSet(Collection[s]) \subseteq ToSet(remote[s])'
               /\ \A s \in Closed' :
                    Clear(remote[s])' => ToSet(Collection[s]) \subseteq ToSet(snapshot[s])'
    BY <1>1 DEF NothingLost
  <2>2. /\ \A s \in ToSet(Sections) : ToSet(Collection[s]) \subseteq ToSet(remote[s])
        /\ \A s \in Closed :
             Clear(remote[s]) => ToSet(Collection[s]) \subseteq ToSet(snapshot[s])
    BY <2>1 DEF ReadInv, NothingLost
  <2>3. \A s : (Clear(remote[s])' <=> Clear(remote[s])) /\ ToSet(remote[s])' = ToSet(remote[s])
    BY DEF Clear, ToSet
  <2>4. ASSUME NEW s \in Closed', Clear(remote[s])
        PROVE  ToSet(Collection[s]) \subseteq ToSet(snapshot[s])'
    <3>1. ToSet(snapshot[s])' = ToSet(snapshot'[s])
      BY DEF ToSet
    <3> QED
      BY <1>2, <2>1, <2>2, <2>4, <3>1
  <2> QED
    BY <2>2, <2>3, <2>4
<1> QED
  BY <1>3, <1>4 DEF ReadInv

(* A repetition asks for the same page.                                    *)
LEMMA RetryReads ==
  ASSUME op = "export_library", ReadInv, Retry
  PROVE  ReadInv'
<1>1. /\ ReadTypes /\ pc = "answered" /\ Reading /\ pc' = "send" /\ answer' = NoAnswer
      /\ UNCHANGED <<app, op, remote, todo, pages, offset, values, snapshot,
                     incomplete, inserted, removed>>
  BY DEF Retry, ReadInv, Reading, paging, export, others
<1>2. ReadTypes'
  <2>1. answer'.page = << >> /\ << >> \in Seq(Ids)
    BY <1>1 DEF NoAnswer
  <2> QED
    BY <1>1, <2>1 DEF ReadTypes, Reading
<1>3. /\ inserted = 0 /\ removed = 0 => values = Seen(remote[Section], offset)
      /\ removed = 0 /\ Clear(remote[Section]) =>
           Covered(remote[Section], Section, offset, values)
  BY <1>1 DEF ReadInv, WholeInv, NothingLost
<1> QED
  BY <1>1, <1>2, <1>3, ReadOn

(* A section is opened with nothing read.                                  *)
LEMMA OpenReads ==
  ASSUME op = "export_library", ReadInv, OpenSection
  PROVE  ReadInv'
<1>1. /\ ReadTypes /\ pc' = IF todo = << >> THEN "done" ELSE "send"
      /\ answer' = NoAnswer /\ offset' = 0 /\ pages' = 0 /\ values' = << >>
      /\ UNCHANGED <<app, op, remote, todo, snapshot, incomplete, inserted, removed>>
  BY DEF OpenSection, NewRequest, ReadInv, export, others
<1>2. ReadTypes'
  <2>1. answer'.page = << >> /\ << >> \in Seq(Ids) /\ 0 = 0 * PageSize
    BY <1>1, ClientAssumption DEF NoAnswer
  <2> QED
    BY <1>1, <2>1 DEF ReadTypes, Reading
<1>3. ASSUME todo # << >>
      PROVE  /\ Seen(remote[Section], 0) = << >>
             /\ Covered(remote[Section], Section, 0, << >>)
  <2>1. remote[Section] \in Seq(Ids)
    BY <1>1, <1>3, TodoIs DEF ReadTypes
  <2>2. Covered(remote[Section], Section, 0, << >>)
    BY <2>1 DEF Covered
  <2> QED
    BY <2>1, <2>2, SeenEnds
<1> QED
  BY <1>1, <1>2, <1>3, ReadOn

(* The next page is asked for behind the one that was read.                *)
LEMMA NextReads ==
  ASSUME op = "export_library", ReadInv, NextPage
  PROVE  ReadInv'
<1>1. /\ ReadTypes /\ AtPage /\ pc = "answered" /\ Reading /\ pc' = "send"
      /\ answer' = NoAnswer /\ values' = Collected /\ pages' = pages + 1
      /\ offset' = offset + PageSize
      /\ UNCHANGED <<app, op, remote, todo, snapshot, incomplete, inserted, removed>>
  BY DEF NextPage, NewRequest, AtPage, ReadInv, Reading, export, others
<1>2. /\ values \in Seq(Ids) /\ answer.page \in Seq(Ids) /\ Collected \in Seq(Ids)
      /\ offset \in Nat /\ PageSize \in Nat /\ pages \in Nat /\ offset = pages * PageSize
  BY <1>1, ElementsOfBoth, ClientAssumption DEF ReadTypes, Collected
<1>3. ReadTypes'
  <2>1. answer'.page = << >> /\ << >> \in Seq(Ids)
    BY <1>1 DEF NoAnswer
  <2>2. offset' \in Nat /\ pages' \in Nat /\ offset' = pages' * PageSize
    BY <1>1, <1>2
  <2> QED
    BY <1>1, <1>2, <2>1, <2>2 DEF ReadTypes, Reading
<1>4. ASSUME inserted = 0, removed = 0
      PROVE  values' = Seen(remote[Section], offset')
  <2>1. values = Seen(remote[Section], offset)
        /\ answer.page = PageOf(remote[Section], offset)
    BY <1>1, <1>4 DEF ReadInv, WholeInv
  <2>2. remote[Section] \in Seq(Ids)
    BY <1>1, TodoIs DEF ReadTypes
  <2> QED
    BY <1>1, <1>2, <2>1, <2>2, SeenGrows DEF Collected
<1>5. ASSUME removed = 0, Clear(remote[Section])
      PROVE  Covered(remote[Section], Section, offset', values')
  BY <1>1, <1>5 DEF ReadInv, NothingLost
<1> QED
  BY <1>1, <1>3, <1>4, <1>5, ReadOn

(* The loop that has come to an end has read the section.                  *)
LEMMA EndReads ==
  ASSUME op = "export_library", ReadInv, SectionRead
  PROVE  ReadInv'
<1>1. /\ ReadTypes /\ AtPage /\ pc = "answered" /\ Reading /\ Ends /\ pc' = "section"
      /\ answer' = NoAnswer /\ values' = Collected
      /\ todo' = Tail(todo) /\ incomplete' = incomplete
      /\ snapshot' = [snapshot EXCEPT ![Section] = Collected]
      /\ UNCHANGED <<app, op, remote, pages, offset, inserted, removed>>
  BY DEF SectionRead, CloseSection, NewRequest, AtPage, ReadInv, Reading, others
<1>2. /\ values \in Seq(Ids) /\ answer.page \in Seq(Ids) /\ Collected \in Seq(Ids)
      /\ offset \in Nat /\ PageSize \in Nat \ {0} /\ pages \in Nat
      /\ offset = pages * PageSize /\ todo # << >> /\ Section \in ToSet(Sections)
      /\ Tail(todo) \in Seq(ToSet(Sections))
  BY <1>1, ElementsOfBoth, TodoIs, ClientAssumption DEF ReadTypes, Collected
<1>3. ReadTypes'
  <2>1. answer'.page = << >> /\ << >> \in Seq(Ids)
    BY <1>1 DEF NoAnswer
  <2> QED
    BY <1>1, <1>2, <2>1 DEF ReadTypes, Reading
<1> DEFINE r == remote[Section]
<1>4. r \in Seq(Ids) /\ Len(r) \in Nat
  BY <1>1, <1>2 DEF ReadTypes
<1>5. Len(answer.page) < PageSize
  <2>1. CASE answer.page = << >>
    BY <1>2, <2>1
  <2> QED
    BY <1>1, <2>1 DEF Ends
<1>6. ASSUME inserted = 0, removed = 0, Pageable(Section)
      PROVE  Collected = Visible(Section)
  <2>1. values = Seen(r, offset) /\ answer.page = PageOf(r, offset)
    BY <1>1, <1>6 DEF ReadInv, WholeInv
  <2>2. Collected = Seen(r, offset + PageSize)
    <3> HIDE DEF r
    <3>1. Seen(r, offset + PageSize) = Seen(r, offset) \o PageOf(r, offset)
      BY <1>2, <1>4, SeenGrows
    <3> QED
      BY <2>1, <3>1 DEF Collected
  <2>3. ASSUME offset < Len(r) PROVE offset \in Blocks(Section)
    <3>1. pages <= offset
      <4>1. \A p \in Nat, q \in Nat \ {0} : p <= p * q
        OBVIOUS
      <4> QED
        BY <1>2, <4>1
    <3> HIDE DEF r
    <3>2. pages \in 0 .. Len(r)
      BY <1>2, <1>4, <2>3, <3>1
    <3> USE DEF r
    <3> QED
      BY <1>2, <2>3, <3>2 DEF Blocks
  <2>4. answer.page = PageAt(Section, offset)
    BY <2>1, PageAtIs
  <2>5. ~(offset + PageSize < Len(r))
    <3>1. SUFFICES ASSUME offset + PageSize < Len(r) PROVE FALSE
      OBVIOUS
    <3>2. offset < Len(r)
      BY <1>2, <1>4, <3>1
    <3>3. CASE Mt
      BY <1>1, <1>6, <2>3, <2>4, <3>2, <3>3 DEF Pageable, Ends
    <3>4. CASE ~Mt
      <4>1. Len(PageAt(Section, offset)) = PageSize
        BY <1>6, <2>3, <3>1, <3>2, <3>4 DEF Pageable
      <4> QED
        BY <1>2, <1>5, <2>4, <4>1
    <3> QED
      BY <3>3, <3>4
  <2> HIDE DEF r
  <2>6. offset + PageSize \in Nat /\ offset + PageSize >= Len(r)
    BY <1>2, <1>4, <2>5
  <2>7. Seen(r, offset + PageSize) = Sublist(r, ToSet(r) \ Hidden)
    BY <1>4, <2>6, SeenEnds
  <2> QED
    BY <2>2, <2>7 DEF Visible, r
<1>7. ASSUME removed = 0, Clear(remote[Section])
      PROVE  ToSet(Collection[Section]) \subseteq ToSet(Collected)
  BY <1>1, <1>5, <1>7 DEF ReadInv, NothingLost
<1>8. /\ snapshot' = [snapshot EXCEPT ![Section] = Collected] /\ incomplete' = incomplete
      /\ inserted = 0 /\ removed = 0 /\ Pageable(Section) => Collected = Visible(Section)
      /\ removed = 0 /\ Clear(remote[Section]) =>
           ToSet(Collection[Section]) \subseteq ToSet(Collected)
  BY <1>1, <1>6, <1>7
<1> DEFINE v == Collected
<1> HIDE DEF v
<1>9. /\ snapshot' = [snapshot EXCEPT ![Section] = v] /\ incomplete' = incomplete
      /\ inserted = 0 /\ removed = 0 /\ Pageable(Section) => v = Visible(Section)
      /\ removed = 0 /\ Clear(remote[Section]) =>
           ToSet(Collection[Section]) \subseteq ToSet(v)
  BY <1>8 DEF v
<1> QED
  BY <1>1, <1>2, <1>3, <1>9, ReadClose

(* A section that is given up is incomplete.                               *)
LEMMA GivenUpReads ==
  ASSUME op = "export_library", ReadInv, SectionRefused \/ SectionFails
  PROVE  ReadInv'
<1>1. /\ ReadTypes /\ pc = "answered" /\ Reading /\ pc' = "section"
      /\ answer' = NoAnswer /\ todo' = Tail(todo)
      /\ incomplete' = incomplete \cup {Section} /\ snapshot' = snapshot
      /\ UNCHANGED <<app, op, remote, pages, offset, values, inserted, removed>>
  BY DEF SectionRefused, SectionFails, CloseSection, NewRequest, AtPage, ReadInv,
         Reading, paging, others
<1>2. todo # << >> /\ Tail(todo) \in Seq(ToSet(Sections))
  BY <1>1, TodoIs DEF ReadTypes
<1>3. ReadTypes'
  <2>1. answer'.page = << >> /\ << >> \in Seq(Ids)
    BY <1>1 DEF NoAnswer
  <2> QED
    BY <1>1, <1>2, <2>1 DEF ReadTypes, Reading
<1> QED
  BY <1>1, <1>2, <1>3, ReadClose


(* A list without one of its items is a list of the same things.           *)
LEMMA RemovalType ==
  ASSUME NEW r \in Seq(Ids), NEW i \in DOMAIN r
  PROVE  RemoveAt(r, i) \in Seq(Ids)
<1>1. /\ Len(r) \in Nat /\ i \in 1 .. Len(r)
      /\ \A j \in 1 .. Len(r) : r[j] \in Ids
  OBVIOUS
<1>2. SubSeq(r, 1, i - 1) \in Seq(Ids)
  <2>1. i - 1 \in Int /\ 1 \in Int /\ \A j \in 1 .. i - 1 : r[j] \in Ids
    BY <1>1
  <2> QED
    BY ONLY <2>1, SubSeqProperties
<1>3. SubSeq(r, i + 1, Len(r)) \in Seq(Ids)
  <2>1. i + 1 \in Int /\ Len(r) \in Int /\ \A j \in i + 1 .. Len(r) : r[j] \in Ids
    BY <1>1
  <2> QED
    BY ONLY <2>1, SubSeqProperties
<1> QED
  BY <1>2, <1>3 DEF RemoveAt

(* Another client adds in front, or removes.                               *)
LEMMA OthersRead ==
  ASSUME op = "export_library", ReadInv, OtherClient
  PROVE  ReadInv'
<1>1. /\ ReadTypes
      /\ UNCHANGED <<app, op, pc, answer, todo, pages, offset, values, snapshot, incomplete>>
      /\ Section' = Section /\ (Reading' <=> Reading) /\ (AtPage' <=> AtPage)
      /\ Closed' = Closed /\ Collected' = Collected
  BY DEF OtherClient, ReadInv, request, paging, export, Section, Reading, AtPage,
         Closed, Collected
<1>2. ASSUME NEW s \in ToSet(Sections), NEW i \in DOMAIN remote[s],
             remote' = [remote EXCEPT ![s] = RemoveAt(@, i)],
             removed' = removed + 1, inserted' = inserted
      PROVE  ReadInv'
  <2>1. remote[s] \in Seq(Ids) /\ RemoveAt(remote[s], i) \in Seq(Ids)
    BY <1>1, RemovalType DEF ReadTypes
  <2>2. ReadTypes'
    BY <1>1, <1>2, <2>1 DEF ReadTypes
  <2>3. removed' # 0
    BY <1>1, <1>2 DEF ReadTypes
  <2> QED
    BY <2>2, <2>3 DEF ReadInv, WholeInv, NothingLost
<1>3. ASSUME NEW s \in ToSet(Sections), NEW id \in NewIds \ ToSet(remote[s]),
             remote' = [remote EXCEPT ![s] = <<id>> \o @],
             inserted' = inserted + 1, removed' = removed
      PROVE  ReadInv'
  <2>1. remote[s] \in Seq(Ids) /\ id \in Ids /\ <<id>> \o remote[s] \in Seq(Ids)
    <3>1. remote[s] \in Seq(Ids) /\ id \in Ids
      BY <1>1, <1>3 DEF ReadTypes, Ids
    <3>2. <<id>> \in Seq(Ids)
      BY <3>1
    <3> QED
      BY <3>1, <3>2, ElementsOfBoth
  <2>2. ReadTypes'
    BY <1>1, <1>3, <2>1 DEF ReadTypes
  <2>3. WholeInv'
    BY <1>1, <1>3 DEF ReadTypes, WholeInv
  <2>4. NothingLost'
    <3>1. SUFFICES ASSUME removed = 0 PROVE NothingLost'
      BY <1>3 DEF NothingLost
    <3>2. ASSUME NEW t \in ToSet(Sections)
          PROVE  ToSet(Collection[t]) \subseteq ToSet(remote[t])
      BY <3>1 DEF ReadInv, NothingLost
    <3>3. ASSUME NEW t \in ToSet(Sections)
          PROVE  /\ ToSet(remote[t]) \subseteq ToSet(remote'[t])
                 /\ \A m \in Nat : \A v :
                      Covered(remote[t], t, m, v) => Covered(remote'[t], t, m, v)
      <4>1. CASE t = s
        <5>1. id \notin ToSet(Collection[s])
          BY <1>3, <3>2
        <5>2. remote'[t] = <<id>> \o remote[s]
          BY <1>1, <1>3, <4>1 DEF ReadTypes
        <5>3. ToSet(<<id>> \o remote[s]) = ToSet(remote[s]) \cup {id}
          BY <2>1, <5>1, InsertionKeeps
        <5>4. \A m \in Nat : \A v :
                Covered(remote[s], s, m, v) => Covered(<<id>> \o remote[s], s, m, v)
          BY <2>1, <5>1, InsertionKeeps
        <5> QED
          BY <4>1, <5>2, <5>3, <5>4
      <4>2. CASE t # s
        <5>1. remote'[t] = remote[t]
          BY <1>1, <1>3, <4>2 DEF ReadTypes
        <5> QED
          BY <5>1
      <4> QED
        BY <4>1, <4>2
    <3>4. ASSUME NEW t \in ToSet(Sections), Clear(remote'[t]) PROVE Clear(remote[t])
      BY <3>3, <3>4 DEF Clear
    <3>5. Reading => Section \in ToSet(Sections)
      BY <1>1, TodoIs DEF ReadTypes
    <3>6. \A t : ToSet(remote[t])' = ToSet(remote'[t])
                 /\ (Clear(remote[t])' <=> Clear(remote'[t]))
                 /\ ToSet(snapshot[t])' = ToSet(snapshot[t])
                 /\ ToSet(Collection[t])' = ToSet(Collection[t])
      BY <1>1 DEF Clear, ToSet
    <3>7. \A t \in ToSet(Sections) : ToSet(Collection[t]) \subseteq ToSet(remote'[t])
      BY <3>2, <3>3
    <3>8. ASSUME Reading, Clear(remote'[Section])
          PROVE  Covered(remote'[Section], Section, offset, values)
      <4>1. Covered(remote[Section], Section, offset, values)
        BY <3>1, <3>4, <3>5, <3>8 DEF ReadInv, NothingLost
      <4> QED
        BY <1>1, <3>3, <3>5, <3>8, <4>1 DEF ReadTypes
    <3>9. ASSUME AtPage, Clear(remote'[Section])
          PROVE  /\ Covered(remote'[Section], Section, offset + PageSize, Collected)
                 /\ Len(answer.page) < PageSize =>
                      ToSet(Collection[Section]) \subseteq ToSet(Collected)
      <4>1. Reading /\ Clear(remote[Section])
        BY <3>4, <3>5, <3>9 DEF AtPage, Reading
      <4>2. /\ Covered(remote[Section], Section, offset + PageSize, Collected)
            /\ Len(answer.page) < PageSize =>
                 ToSet(Collection[Section]) \subseteq ToSet(Collected)
        BY <3>1, <3>9, <4>1 DEF ReadInv, NothingLost
      <4>3. offset + PageSize \in Nat
        BY <1>1, ClientAssumption DEF ReadTypes
      <4> QED
        BY <3>3, <3>5, <4>1, <4>2, <4>3
    <3>10. ASSUME NEW t \in Closed, Clear(remote'[t])
           PROVE  ToSet(Collection[t]) \subseteq ToSet(snapshot[t])
      <4>1. t \in ToSet(Sections)
        BY DEF Closed
      <4> QED
        BY <3>1, <3>4, <3>10, <4>1 DEF ReadInv, NothingLost
    <3>11. remote'[Section'] = remote'[Section] /\ ToSet(Collected)' = ToSet(Collected)
           /\ ToSet(Collection[Section])' = ToSet(Collection[Section])
           /\ (Clear(remote[Section])' <=> Clear(remote'[Section]))
      BY <1>1 DEF ToSet, Clear
    <3>12. /\ Covered(remote[Section], Section, offset, values)'
                <=> Covered(remote'[Section], Section, offset, values)
           /\ Covered(remote[Section], Section, offset + PageSize, Collected)'
                <=> Covered(remote'[Section], Section, offset + PageSize, Collected)
      BY <1>1 DEF Covered, ToSet
    <3> QED
      BY <1>1, <3>6, <3>7, <3>8, <3>9, <3>10, <3>11, <3>12 DEF NothingLost
  <2> QED
    BY <2>2, <2>3, <2>4 DEF ReadInv
<1> QED
  BY <1>2, <1>3 DEF OtherClient

(* Every step keeps what the reading relies on; the operation never        *)
(* changes, and a write reads nothing.                                     *)
LEMMA ReadStep == ReadInv /\ [Next]_vars => ReadInv'
<1> SUFFICES ASSUME ReadInv, [Next]_vars PROVE ReadInv'
  OBVIOUS
<1>1. op' = op
  BY DEF Next, Step, Answer, Retry, Written, WriteRefused, WriteFails, Finish,
         AdapterRaises, OpenSection, SectionRead, SectionRefused, NextPage,
         SectionFails, OtherClient, vars
<1>2. CASE op # "export_library"
  BY <1>1, <1>2 DEF ReadInv
<1>3. CASE op = "export_library"
  <2>1. op \notin Writes
    BY <1>3, Operations
  <2>2. CASE Answer
    BY <1>3, <2>2, AnswerReads
  <2>3. CASE Retry
    BY <1>3, <2>3, RetryReads
  <2>4. CASE Written \/ WriteRefused \/ WriteFails \/ AdapterRaises
    BY <1>3, <2>1, <2>4 DEF Written, WriteRefused, WriteFails, AdapterRaises,
                            ReadInv, ReadTypes
  <2>5. CASE OpenSection
    BY <1>3, <2>5, OpenReads
  <2>6. CASE SectionRead
    BY <1>3, <2>6, EndReads
  <2>7. CASE SectionRefused \/ SectionFails
    BY <1>3, <2>7, GivenUpReads
  <2>8. CASE NextPage
    BY <1>3, <2>8, NextReads
  <2>9. CASE OtherClient
    BY <1>3, <2>9, OthersRead
  <2>10. CASE UNCHANGED vars
    <3>1. ReadTypes' /\ WholeInv' /\ NothingLost'
      <4> USE <1>3, <2>10 DEF vars, request, paging, export, others
      <4>1. ReadTypes /\ WholeInv /\ NothingLost
        BY DEF ReadInv
      <4>2. ReadTypes'
        BY <4>1 DEF ReadTypes, Reading
      <4>3. /\ (Reading' <=> Reading) /\ (AtPage' <=> AtPage) /\ Closed' = Closed
            /\ Section' = Section /\ Collected' = Collected
        BY DEF Reading, AtPage, Closed, Section, Collected
      <4>4. WholeInv'
        <5>1. Seen(remote[Section], offset)' = Seen(remote[Section], offset)
              /\ PageOf(remote[Section], offset)' = PageOf(remote[Section], offset)
          BY <4>3 DEF Seen, PageOf
        <5> QED
          BY <4>1, <4>3, <5>1, ViewKept DEF WholeInv
      <4>5. NothingLost'
        <5>1. \A s : /\ Clear(remote[s])' <=> Clear(remote[s])
                     /\ ToSet(remote[s])' = ToSet(remote[s])
                     /\ ToSet(snapshot[s])' = ToSet(snapshot[s])
                     /\ ToSet(Collection[s])' = ToSet(Collection[s])
          BY DEF Clear, ToSet
        <5>2. /\ Clear(remote[Section])' <=> Clear(remote[Section])
              /\ ToSet(Collection[Section])' = ToSet(Collection[Section])
              /\ ToSet(Collected)' = ToSet(Collected)
              /\ Covered(remote[Section], Section, offset, values)'
                   <=> Covered(remote[Section], Section, offset, values)
              /\ Covered(remote[Section], Section, offset + PageSize, Collected)'
                   <=> Covered(remote[Section], Section, offset + PageSize, Collected)
          BY <4>3 DEF Clear, Covered, ToSet
        <5> QED
          BY <4>1, <4>3, <5>1, <5>2 DEF NothingLost
      <4> QED
        BY <4>2, <4>4, <4>5
    <3> QED
      BY <3>1 DEF ReadInv
  <2> QED
    BY <2>2, <2>3, <2>4, <2>5, <2>6, <2>7, <2>8, <2>9, <2>10 DEF Next, Step
<1> QED
  BY <1>2, <1>3

(* An export that has ended reports as read only sections that it has in   *)
(* full, in order and once when nothing changed meanwhile, and otherwise   *)
(* with every item that was there before, unless another client removed    *)
(* something (pagination.py, _paginate_offset and export_library).         *)
THEOREM ReadsLoseNothing == Spec => []ReadLosesNothing
<1>1. ReadInv => ReadLosesNothing
  <2>1. SUFFICES ASSUME ReadInv, pc = "done", op = "export_library", removed = 0,
                        NEW s \in ToSet(Sections) \ incomplete
                 PROVE  /\ inserted = 0 /\ Pageable(s) => snapshot[s] = Visible(s)
                        /\ ToSet(remote[s]) \cap Hidden = {} =>
                             ToSet(Collection[s]) \subseteq ToSet(snapshot[s])
    BY DEF ReadLosesNothing
  <2>2. todo = << >> /\ WholeInv /\ NothingLost
    BY <2>1 DEF ReadInv, ReadTypes
  <2>3. s \in Closed
    BY <2>2 DEF Closed, ToSet
  <2> QED
    BY <2>1, <2>2, <2>3 DEF WholeInv, NothingLost, Clear
<1> QED
  BY ReadInit, ReadStep, <1>1, PTL DEF Spec

(***************************************************************************)
(* How long it waits                                                       *)
(***************************************************************************)
(* The counters of the retry loop, and where a delay can come from.        *)
WaitInv ==
  /\ attempt \in Nat \ {0} /\ waited \in Nat
  /\ answer.after = {} \/ \E x \in RetryAfters : answer.after = {x}

(* The doubling has a value for every attempt.                             *)
LEMMA DoubledType == \A i \in 0 .. MaxAttempts : Doubled[i] \in Nat
<1> DEFINE Value(f, i) == IF i = 0 THEN InitialBackoff ELSE 2 * f[i - 1]
           Solves(f, m) == f = [i \in 0 .. m |-> Value(f, i)]
           Good == {m \in Nat : \E f : Solves(f, m)}
<1>0. MaxAttempts \in Nat /\ InitialBackoff \in Nat
  BY ClientAssumption
<1>1. 0 \in Good
  <2>1. Solves([i \in 0 .. 0 |-> InitialBackoff], 0)
    OBVIOUS
  <2> QED
    BY <2>1
<1>2. ASSUME NEW m \in Nat, m \in Good PROVE m + 1 \in Good
  <2>1. PICK f : Solves(f, m)
    BY <1>2
  <2> DEFINE g == [i \in 0 .. m + 1 |-> IF i <= m THEN f[i] ELSE Value(f, m + 1)]
  <2>2. \A i \in 0 .. m + 1 : g[i] = Value(g, i)
    <3>1. SUFFICES ASSUME NEW i \in 0 .. m + 1 PROVE g[i] = Value(g, i)
      OBVIOUS
    <3>2. i # 0 => i - 1 \in 0 .. m /\ g[i - 1] = f[i - 1]
      OBVIOUS
    <3>3. Value(g, i) = Value(f, i)
      BY <3>2
    <3>4. CASE i = m + 1
      BY <3>3, <3>4
    <3>5. CASE i # m + 1
      <4>1. i \in 0 .. m /\ g[i] = f[i]
        BY <3>5
      <4>2. f[i] = Value(f, i)
        <5> HIDE DEF g
        <5> QED BY <2>1, <4>1
      <4> QED
        BY <4>1, <4>2, <3>3
    <3> QED
      BY <3>4, <3>5
  <2>3. g = [i \in 0 .. m + 1 |-> g[i]]
    OBVIOUS
  <2>4. Solves(g, m + 1)
    <3> HIDE DEF g
    <3> QED BY <2>2, <2>3
  <2>5. \E h : Solves(h, m + 1)
    <3> HIDE DEF g, Solves
    <3> QED BY <2>4
  <2> QED
    BY <2>5
<1>3. MaxAttempts \in Good
  <2> HIDE DEF Good
  <2> QED BY <1>0, <1>1, <1>2, Induction
<1>4. Solves(Doubled, MaxAttempts)
  <2>1. Doubled = CHOOSE f : Solves(f, MaxAttempts)
    BY DEF Doubled
  <2> QED
    BY <1>3, <2>1
<1>5. \A i \in 0 .. MaxAttempts : Doubled[i] = Value(Doubled, i)
  BY <1>4
<1> DEFINE Typed == {i \in Nat : i <= MaxAttempts => Doubled[i] \in Nat}
<1>6. 0 \in Typed
  BY <1>0, <1>5
<1>7. ASSUME NEW i \in Nat, i \in Typed PROVE i + 1 \in Typed
  <2>1. SUFFICES ASSUME i + 1 <= MaxAttempts PROVE Doubled[i + 1] \in Nat
    OBVIOUS
  <2>2. i + 1 \in 0 .. MaxAttempts /\ i + 1 # 0 /\ i + 1 - 1 = i /\ i <= MaxAttempts
    BY <1>0, <2>1
  <2>3. Doubled[i + 1] = 2 * Doubled[i]
    BY <1>5, <2>2
  <2>4. Doubled[i] \in Nat
    BY <1>7, <2>2
  <2> QED
    BY <2>3, <2>4
<1>8. Nat \subseteq Typed
  <2> HIDE DEF Typed
  <2> QED BY <1>6, <1>7, Induction
<1> QED
  BY <1>8

(* A finite set of numbers that is not empty has a largest one.            *)
LEMMA LargestElement ==
  ASSUME NEW S, S \subseteq Nat, IsFiniteSet(S), S # {}
  PROVE  Max(S) \in S /\ \A y \in S : y <= Max(S)
<1> DEFINE Large(T) == \E x \in T : \A y \in T : x >= y
           Good == {k \in Nat : \A T \in SUBSET Nat :
                      IsFiniteSet(T) /\ Cardinality(T) = k /\ T # {} => Large(T)}
<1>1. 0 \in Good
  BY FS_EmptySet
<1>2. ASSUME NEW k \in Nat, k \in Good PROVE k + 1 \in Good
  <2>1. SUFFICES ASSUME NEW T \in SUBSET Nat, IsFiniteSet(T), Cardinality(T) = k + 1
                 PROVE  Large(T)
    OBVIOUS
  <2>0. T # {}
    <3>1. k + 1 # 0
      OBVIOUS
    <3> QED
      BY <2>1, <3>1, FS_EmptySet
  <2>2. PICK x : x \in T
    BY <2>0
  <2> DEFINE U == T \ {x}
  <2>3. IsFiniteSet(U) /\ Cardinality(U) = k /\ U \in SUBSET Nat
    <3>1. IsFiniteSet(U)
          /\ Cardinality(U) = IF x \in T THEN Cardinality(T) - 1 ELSE Cardinality(T)
      BY <2>1, FS_RemoveElement
    <3>2. k + 1 - 1 = k
      OBVIOUS
    <3> QED
      BY <2>1, <2>2, <3>1, <3>2
  <2>4. CASE U = {}
    BY <2>1, <2>2, <2>4
  <2>5. CASE U # {}
    <3>1. PICK y \in U : \A z \in U : y >= z
      BY <1>2, <2>3, <2>5
    <3>2. CASE x >= y
      BY <2>1, <2>2, <3>1, <3>2
    <3>3. CASE ~(x >= y)
      <4>1. y \in T /\ \A z \in T : y >= z
        BY <2>1, <2>2, <3>1, <3>3
      <4> QED
        BY <4>1
    <3> QED
      BY <3>2, <3>3
  <2> QED
    BY <2>4, <2>5
<1>3. Nat \subseteq Good
  <2> HIDE DEF Good
  <2> QED BY <1>1, <1>2, Induction
<1>4. Large(S)
  <2>1. Cardinality(S) \in Nat
    BY FS_CardinalityType
  <2> QED
    BY <1>3, <2>1
<1> QED
  BY <1>4 DEF Max

(* A delay is at most the bound, and what the server asked for at least.   *)
LEMMA DelayBounds ==
  ASSUME NEW delay \in Delays, attempt \in Nat \ {0}, attempt < MaxAttempts, WaitInv
  PROVE  /\ delay \in Nat
         /\ Mt => delay <= MaxBackoff
         /\ ~Mt => /\ delay <= Max(RetryAfters \cup {(MaxBackoff * (100 + Jitter)) \div 100})
                   /\ \A x \in answer.after : delay >= x
<1> DEFINE top == (MaxBackoff * (100 + Jitter)) \div 100
           bounds == RetryAfters \cup {top}
           base == Least(Doubled[attempt - 1], MaxBackoff)
<1>1. /\ MaxBackoff \in Nat /\ Jitter \in Nat /\ Jitter <= 100 /\ MaxAttempts \in Nat
      /\ RetryAfters \subseteq Nat /\ IsFiniteSet(RetryAfters)
  BY ClientAssumption, ListsAssumption
<1>2. \A i, j \in Nat : i * j \in Nat /\ \A k \in Nat : i <= k => i * j <= k * j
  OBVIOUS
<1>3. \A i \in Nat : i \div 100 \in Nat /\ (\A k \in Nat : i <= k => i \div 100 <= k \div 100)
                     /\ (i * 100) \div 100 = i
  OBVIOUS
<1>4. top \in Nat
  BY <1>1, <1>2, <1>3
<1> HIDE DEF top
<1>5. bounds \subseteq Nat /\ IsFiniteSet(bounds) /\ top \in bounds
  BY <1>1, <1>4, FS_AddElement
<1> HIDE DEF bounds
<1>6. Max(bounds) \in Nat /\ \A x \in bounds : x <= Max(bounds)
  BY <1>5, LargestElement
<1>7. CASE answer.after # {}
  <2>1. PICK x \in RetryAfters : answer.after = {x}
    BY <1>7 DEF WaitInv
  <2>2. delay = IF Mt THEN Least(x, MaxBackoff) ELSE x
    BY <1>7, <2>1 DEF Delays
  <2>3. x \in Nat /\ x \in bounds
    BY <1>1, <2>1 DEF bounds
  <2>4. delay \in Nat /\ (Mt => delay <= MaxBackoff)
    BY <1>1, <2>2, <2>3 DEF Least
  <2>5. ~Mt => delay <= Max(bounds) /\ \A y \in answer.after : delay >= y
    BY <1>6, <2>1, <2>2, <2>3
  <2> QED
    BY <2>4, <2>5 DEF bounds, top
<1>8. CASE answer.after = {}
  <2>1. base \in Nat /\ base <= MaxBackoff
    <3>1. attempt - 1 \in 0 .. MaxAttempts
      BY <1>1
    <3>2. Doubled[attempt - 1] \in Nat
      BY <3>1, DoubledType
    <3> QED
      BY <1>1, <3>2 DEF Least
  <2>2. IF Mt THEN delay = base
        ELSE delay \in {base, (base * (100 - Jitter)) \div 100,
                        (base * (100 + Jitter)) \div 100}
    BY <1>8 DEF Delays
  <2> HIDE DEF base
  <2>3. base \in Nat /\ base <= top
        /\ (base * (100 - Jitter)) \div 100 \in Nat
        /\ (base * (100 - Jitter)) \div 100 <= top
        /\ (base * (100 + Jitter)) \div 100 \in Nat
        /\ (base * (100 + Jitter)) \div 100 <= top
    <3>1. 100 - Jitter \in Nat /\ 100 + Jitter \in Nat
          /\ 100 - Jitter <= 100 + Jitter /\ 100 <= 100 + Jitter
      BY <1>1
    <3> DEFINE low == base * (100 - Jitter)
               high == base * (100 + Jitter)
               most == MaxBackoff * (100 + Jitter)
    <3>2. low \in Nat /\ high \in Nat /\ most \in Nat /\ base * 100 \in Nat
      BY <1>1, <1>2, <2>1, <3>1
    <3>3. high <= most
      BY <1>1, <1>2, <2>1, <3>1
    <3>4. low <= high /\ base * 100 <= high
      <4>1. \A i, j \in Nat : \A k \in Nat : j <= k => i * j <= i * k
        OBVIOUS
      <4> QED
        BY <2>1, <3>1, <4>1
    <3>5. top = most \div 100
      BY DEF top
    <3>6. (base * 100) \div 100 = base
      BY <1>3, <2>1
    <3> HIDE DEF low, high, most
    <3>7. base * 100 <= most /\ low <= most
      BY <3>2, <3>3, <3>4
    <3>8. /\ low \div 100 \in Nat /\ low \div 100 <= top
          /\ high \div 100 \in Nat /\ high \div 100 <= top
      BY <1>3, <3>2, <3>3, <3>5, <3>7
    <3>9. (base * 100) \div 100 <= top
      BY <1>3, <3>2, <3>5, <3>7
    <3> QED
      BY <2>1, <3>6, <3>8, <3>9 DEF low, high
  <2>4. top <= Max(bounds)
    BY <1>5, <1>6
  <2>5. delay \in Nat /\ (Mt => delay <= MaxBackoff) /\ (~Mt => delay <= Max(bounds))
    <3>1. CASE Mt
      BY <2>1, <2>2, <3>1
    <3>2. CASE ~Mt
      <4>1. delay \in Nat /\ delay <= top
        BY <2>2, <2>3, <3>2
      <4> QED
        BY <1>4, <1>6, <2>4, <3>2, <4>1
    <3> QED
      BY <3>1, <3>2
  <2> QED
    BY <1>8, <2>5 DEF bounds, top
<1> QED
  BY <1>7, <1>8

(* The counters and the answers of every step.                             *)
LEMMA WaitStep == WaitInv /\ [Next]_vars => WaitInv'
<1> SUFFICES ASSUME WaitInv, [Next]_vars PROVE WaitInv'
  OBVIOUS
<1> USE DEF request, paging, export, others
<1>1. CASE Answer
  <2>1. attempt' = attempt /\ waited' = waited
    BY <1>1 DEF Answer
  <2>2. answer'.after = {} \/ \E x \in RetryAfters : answer'.after = {x}
    <3>1. ASSUME NEW kind, NEW page, answer' = [NoAnswer EXCEPT !.kind = kind, !.page = page]
          PROVE  answer'.after = {}
      BY <3>1 DEF NoAnswer
    <3>2. ASSUME NEW kind, answer' = [NoAnswer EXCEPT !.kind = kind]
          PROVE  answer'.after = {}
      BY <3>2 DEF NoAnswer
    <3>3. ASSUME NEW kind, NEW after \in {{}} \cup {{x} : x \in RetryAfters},
                 answer' = [kind |-> kind, after |-> after, page |-> << >>]
          PROVE  answer'.after = {} \/ \E x \in RetryAfters : answer'.after = {x}
      BY <3>3
    <3> QED
      BY <1>1, <3>1, <3>2, <3>3 DEF Answer
  <2> QED
    BY <2>1, <2>2 DEF WaitInv
<1>2. CASE Retry
  <2>1. PICK delay \in Delays : waited' = waited + delay
    BY <1>2 DEF Retry
  <2>2. attempt < MaxAttempts /\ attempt' = attempt + 1 /\ answer' = NoAnswer
    BY <1>2 DEF Retry, CanRetry
  <2>3. delay \in Nat
    BY <2>2, DelayBounds DEF WaitInv
  <2> QED
    BY <2>1, <2>2, <2>3 DEF WaitInv, NoAnswer
<1>3. CASE OpenSection \/ SectionRead \/ SectionRefused \/ NextPage \/ SectionFails
  <2>1. attempt' = 1 /\ waited' = 0 /\ answer' = NoAnswer
    BY <1>3 DEF OpenSection, SectionRead, SectionRefused, NextPage, SectionFails,
                CloseSection, NewRequest
  <2> QED
    BY <2>1 DEF WaitInv, NoAnswer
<1>4. CASE \/ Written \/ WriteRefused \/ WriteFails \/ AdapterRaises
           \/ OtherClient \/ UNCHANGED vars
  <2>1. UNCHANGED request
    BY <1>4 DEF Written, WriteRefused, WriteFails, Finish, AdapterRaises,
                OtherClient, vars
  <2> QED
    BY <2>1 DEF WaitInv
<1> QED
  BY <1>1, <1>2, <1>3, <1>4 DEF Next, Step

(* Every wait between two attempts is bounded, by the longest back-off or, *)
(* for tidal_manager, by what the server asks for, and is never shorter    *)
(* than that (http.py _backoff_seconds, retry.py 149-157).                 *)
THEOREM EveryWaitIsBounded == Spec => WaitsBounded
<1>1. Init => WaitInv
  BY DEF Init, WaitInv, NoAnswer
<1> DEFINE Bounded ==
      waited' > waited =>
        LET wait == waited' - waited
            bound == IF Mt THEN MaxBackoff
                     ELSE Max(RetryAfters \cup {(MaxBackoff * (100 + Jitter)) \div 100})
        IN wait <= bound /\ (~Mt => \A x \in answer.after : wait >= x)
<1>2. WaitInv /\ [Next]_vars => Bounded
  <2>1. SUFFICES ASSUME WaitInv, [Next]_vars, waited' > waited PROVE Bounded
    OBVIOUS
  <2>2. waited \in Nat
    BY <2>1 DEF WaitInv
  <2>3. Retry
    <3>1. CASE waited' = waited
      BY <2>1, <2>2, <3>1
    <3>2. CASE waited' = 0
      BY <2>1, <2>2, <3>2
    <3>3. Retry \/ waited' = waited \/ waited' = 0
      BY <2>1 DEF Next, Step, vars, request, Answer, Written, WriteRefused, WriteFails,
                  Finish, AdapterRaises, OpenSection, SectionRead, SectionRefused, NextPage,
                  SectionFails, CloseSection, NewRequest, OtherClient
    <3> QED
      BY <3>1, <3>2, <3>3
  <2>4. PICK delay \in Delays : waited' = waited + delay
    BY <2>3 DEF Retry
  <2>5. attempt \in Nat \ {0} /\ attempt < MaxAttempts
    BY <2>1, <2>3 DEF Retry, CanRetry, WaitInv
  <2>6. /\ delay \in Nat
        /\ Mt => delay <= MaxBackoff
        /\ ~Mt => /\ delay <= Max(RetryAfters \cup {(MaxBackoff * (100 + Jitter)) \div 100})
                  /\ \A x \in answer.after : delay >= x
    BY <2>1, <2>4, <2>5, DelayBounds
  <2>7. waited' - waited = delay
    BY <2>2, <2>4, <2>6
  <2> QED
    BY <2>6, <2>7
<1> QED
  BY <1>1, <1>2, WaitStep, PTL DEF Spec, WaitsBounded
=============================================================================
