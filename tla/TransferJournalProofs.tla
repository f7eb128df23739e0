----------------------- MODULE TransferJournalProofs -----------------------
(***************************************************************************)
(* Proofs about TransferJournal, for any keys, any compaction interval and *)
(* any number of stops: what load makes of the two files, and that they    *)
(* implement the one durable value of CheckpointStore.                     *)
(***************************************************************************)
EXTENDS TransferJournal, SublistProofs

(* The reading of a journal beside a document q.                           *)
Base(q) == [state |-> q.state, seq |-> q.seq, ok |-> TRUE]
Reading(q, lines) == FoldLeft(Read, Base(q), lines)

(* The recursion by which FoldLeft reads the first n lines.                *)
Solves(q, lines, n, g) ==
  g = [s \in SUBSET (1 .. n) |->
         IF s = {} THEN Base(q) ELSE Read(g[s \ {Max(s)}], lines[Max(s)])]

(* The greatest of the first numbers.                                      *)
LEMMA MaxOfInterval ==
  ASSUME NEW n \in Nat
  PROVE  /\ 1 .. (n + 1) # {} /\ 1 .. (n + 1) \in SUBSET (1 .. (n + 1))
         /\ Max(1 .. (n + 1)) = n + 1
         /\ (1 .. (n + 1)) \ {n + 1} = 1 .. n
         /\ \A s \in SUBSET (1 .. (n + 1)) : n + 1 \in s => Max(s) = n + 1
<1>1. ASSUME NEW s \in SUBSET (1 .. (n + 1)), n + 1 \in s PROVE Max(s) = n + 1
  <2>1. \A y \in s : n + 1 >= y
    OBVIOUS
  <2>2. \A x \in s : (\A y \in s : x >= y) => x = n + 1
    BY <1>1
  <2> QED
    BY <1>1, <2>1, <2>2 DEF Max
<1>2. n + 1 \in 1 .. (n + 1) /\ (1 .. (n + 1)) \ {n + 1} = 1 .. n
  OBVIOUS
<1> QED
  BY <1>1, <1>2

(* The recursion has a solution.                                           *)
LEMMA ReadingSolved ==
  ASSUME NEW q, NEW lines, NEW n \in Nat
  PROVE  \E g : Solves(q, lines, n, g)
<1> DEFINE Good == {m \in Nat : \E g : Solves(q, lines, m, g)}
<1>1. 0 \in Good
  <2> DEFINE g == [s \in SUBSET (1 .. 0) |-> Base(q)]
  <2>1. \A s \in SUBSET (1 .. 0) : s = {}
    OBVIOUS
  <2>2. Solves(q, lines, 0, g)
    BY <2>1 DEF Solves
  <2> QED
    BY <2>2
<1>2. ASSUME NEW m \in Nat, m \in Good PROVE m + 1 \in Good
  <2>1. PICK g : Solves(q, lines, m, g)
    BY <1>2
  <2> DEFINE h == [s \in SUBSET (1 .. (m + 1)) |->
                     IF m + 1 \in s THEN Read(g[s \ {m + 1}], lines[m + 1]) ELSE g[s]]
  <2>2. ASSUME NEW s \in SUBSET (1 .. (m + 1))
        PROVE  h[s] = IF s = {} THEN Base(q) ELSE Read(h[s \ {Max(s)}], lines[Max(s)])
    <3>1. CASE m + 1 \in s
      <4>1. Max(s) = m + 1
        BY <3>1, MaxOfInterval
      <4>2. s \ {m + 1} \in SUBSET (1 .. (m + 1)) /\ m + 1 \notin s \ {m + 1}
        OBVIOUS
      <4>3. h[s \ {m + 1}] = g[s \ {m + 1}]
        BY <4>2
      <4>4. h[s] = Read(g[s \ {m + 1}], lines[m + 1])
        BY <3>1
      <4> HIDE DEF h
      <4> QED
        BY <3>1, <4>1, <4>3, <4>4
    <3>2. CASE m + 1 \notin s
      <4>1. s \in SUBSET (1 .. m)
        BY <3>2
      <4>2. h[s] = g[s]
        BY <3>2
      <4>3. g[s] = IF s = {} THEN Base(q) ELSE Read(g[s \ {Max(s)}], lines[Max(s)])
        BY <2>1, <4>1 DEF Solves
      <4>4. s \ {Max(s)} \in SUBSET (1 .. (m + 1)) /\ m + 1 \notin s \ {Max(s)}
        BY <3>2
      <4>5. h[s \ {Max(s)}] = g[s \ {Max(s)}]
        BY <4>4
      <4> HIDE DEF h
      <4> QED
        BY <4>2, <4>3, <4>5
    <3> QED
      BY <3>1, <3>2
  <2>3. h = [s \in SUBSET (1 .. (m + 1)) |-> h[s]]
    OBVIOUS
  <2>4. Solves(q, lines, m + 1, h)
    <3> HIDE DEF h
    <3> QED
      BY <2>2, <2>3 DEF Solves
  <2>5. \E f : Solves(q, lines, m + 1, f)
    <3> HIDE DEF h
    <3> QED
      BY <2>4
  <2> QED
    BY <2>5
<1> QED
  <2> HIDE DEF Good
  <2>1. n \in Good
    BY <1>1, <1>2, Induction
  <2> QED
    BY <2>1 DEF Good

(* Solutions agree on what they read of the same lines.                    *)
LEMMA ReadingUnique ==
  ASSUME NEW q, NEW lines, NEW more, NEW n \in Nat, NEW m \in Nat, n <= m,
         \A i \in 1 .. n : more[i] = lines[i],
         NEW g, Solves(q, lines, n, g), NEW h, Solves(q, more, m, h)
  PROVE  g[1 .. n] = h[1 .. n]
<1> DEFINE Same == {k \in Nat : k <= n => g[1 .. k] = h[1 .. k]}
<1>1. 0 \in Same
  <2>1. {} \in SUBSET (1 .. n) /\ {} \in SUBSET (1 .. m) /\ 1 .. 0 = {}
    OBVIOUS
  <2>2. g[{}] = Base(q) /\ h[{}] = Base(q)
    BY <2>1 DEF Solves
  <2> QED
    BY <2>1, <2>2
<1>2. ASSUME NEW k \in Nat, k \in Same PROVE k + 1 \in Same
  <2>1. CASE k + 1 <= n
    <3>1. 1 .. (k + 1) \in SUBSET (1 .. n) /\ 1 .. (k + 1) \in SUBSET (1 .. m)
          /\ 1 .. (k + 1) # {} /\ k + 1 \in 1 .. n
      BY <2>1
    <3>2. /\ Max(1 .. (k + 1)) = k + 1
          /\ (1 .. (k + 1)) \ {k + 1} = 1 .. k
      BY MaxOfInterval
    <3>3. g[1 .. (k + 1)] = Read(g[1 .. k], lines[k + 1])
      <4>1. g[1 .. (k + 1)] = Read(g[(1 .. (k + 1)) \ {Max(1 .. (k + 1))}],
                                   lines[Max(1 .. (k + 1))])
        BY <3>1 DEF Solves
      <4> QED
        BY <3>2, <4>1
    <3>4. h[1 .. (k + 1)] = Read(h[1 .. k], more[k + 1])
      <4>1. h[1 .. (k + 1)] = Read(h[(1 .. (k + 1)) \ {Max(1 .. (k + 1))}],
                                   more[Max(1 .. (k + 1))])
        BY <3>1 DEF Solves
      <4> QED
        BY <3>2, <4>1
    <3>5. g[1 .. k] = h[1 .. k]
      BY <1>2, <2>1
    <3> QED
      BY <3>1, <3>3, <3>4, <3>5
  <2> QED
    BY <2>1
<1> QED
  <2> HIDE DEF Same
  <2>1. n \in Same
    BY <1>1, <1>2, Induction
  <2> QED
    BY <2>1 DEF Same

(* Reading is the last value of the recursion.                             *)
LEMMA ReadingUnfolds ==
  ASSUME NEW q, NEW T, NEW lines \in Seq(T)
  PROVE  \E g : /\ Solves(q, lines, Len(lines), g)
                /\ Reading(q, lines) = g[1 .. Len(lines)]
<1> DEFINE g == CHOOSE f : Solves(q, lines, Len(lines), f)
<1>1. Len(lines) \in Nat /\ DOMAIN lines = 1 .. Len(lines)
  OBVIOUS
<1>2. Solves(q, lines, Len(lines), g)
  BY <1>1, ReadingSolved
<1>3. Reading(q, lines) = g[1 .. Len(lines)]
  BY <1>1 DEF Reading, FoldLeft, MapThenFoldSet, Solves
<1> QED
  BY <1>2, <1>3

(* load reads the lines one after another (state.py:351-372).              *)
LEMMA ReadingNext ==
  ASSUME NEW q, NEW T, NEW lines \in Seq(T), NEW line \in T
  PROVE  Reading(q, Append(lines, line)) = Read(Reading(q, lines), line)
<1> DEFINE n == Len(lines)
           more == Append(lines, line)
<1>0. n \in Nat
  OBVIOUS
<1>1. /\ more \in Seq(T) /\ Len(more) = n + 1
      /\ \A i \in 1 .. n : more[i] = lines[i]
      /\ more[n + 1] = line
  OBVIOUS
<1> HIDE DEF n, more
<1>2. PICK g : Solves(q, lines, n, g) /\ Reading(q, lines) = g[1 .. n]
  BY ReadingUnfolds DEF n
<1>3. PICK h : Solves(q, more, n + 1, h) /\ Reading(q, more) = h[1 .. (n + 1)]
  BY <1>0, <1>1, ReadingUnfolds
<1>4. g[1 .. n] = h[1 .. n]
  BY <1>0, <1>1, <1>2, <1>3, ReadingUnique
<1>5. h[1 .. (n + 1)] = Read(h[1 .. n], more[n + 1])
  <2>1. h[1 .. (n + 1)] = Read(h[(1 .. (n + 1)) \ {Max(1 .. (n + 1))}],
                               more[Max(1 .. (n + 1))])
    BY <1>0, <1>3, MaxOfInterval DEF Solves
  <2> QED
    BY <1>0, <2>1, MaxOfInterval
<1> QED
  BY <1>1, <1>2, <1>3, <1>4, <1>5 DEF more

(* A document without a journal is read as it is.                          *)
LEMMA ReadingNothing ==
  ASSUME NEW q
  PROVE  Reading(q, << >>) = Base(q)
<1>1. << >> \in Seq({}) /\ Len(<< >>) = 0
  OBVIOUS
<1>2. PICK g : Solves(q, << >>, 0, g) /\ Reading(q, << >>) = g[1 .. 0]
  BY <1>1, ReadingUnfolds
<1>3. 1 .. 0 = {} /\ {} \in SUBSET (1 .. 0)
  OBVIOUS
<1> QED
  BY <1>2, <1>3 DEF Solves

(***************************************************************************)
(* The inductive invariant                                                 *)
(***************************************************************************)
Partial == UNION {[D -> 0 .. MaxValue] : D \in SUBSET Keys}
Kinds   == {"event", "open", "torn", "garbage"}
Lines   == [kind : Kinds, seq : Nat, changes : Partial]

Working == {"run", "save", "advance", "compact", "unlink", "remember"}

TypeInv ==
  /\ doc \in {None} \cup Documents /\ journal \in Seq(Lines)
  /\ mem \in {None} \cup States /\ known \in States /\ seq \in Nat
  /\ pc \in Working \cup {"off", "menu", "clear"} /\ stopping \in BOOLEAN

(* Only the last line can lack its newline.                                *)
ShapeOf(lines) ==
  \A i \in 1 .. Len(lines) :
    lines[i].kind \in {"torn", "open"} => i = Len(lines)

Spoilt(lines) == \E i \in 1 .. Len(lines) : lines[i].kind = "garbage"

(* What the process holds and what is on the disk, where it is.            *)
Place ==
  /\ pc \in {"off", "menu"} => mem = None
  /\ pc \in Working => mem \in States
  /\ pc \in Working \ {"save"} => doc # None
  /\ pc = "clear" => doc = None
  /\ pc = "save" /\ doc = None => journal = << >>
  /\ pc = "unlink" => doc = [state |-> mem, seq |-> seq]
  /\ pc = "run" => ~stopping

(* What a reading gives, compared with what the process holds.             *)
Gives(r, state, n) == r.state = state /\ r.seq = n

(* What the process remembers of the files is enough to bring them up to   *)
(* its state: it differs from them in nothing that it has not marked since.*)
Covers(r, state, n, told) ==
  /\ r.seq = n
  /\ \A k \in Keys : r.state[k] \in {state[k], told[k]}
  /\ \A k \in Keys : state[k] = 0 => r.state[k] = 0

(* A reading r fits a process that is at a step of save with this state,   *)
(* number and memory of the files.                                         *)
Fits(r, at, state, n, told, ending) ==
  /\ r.ok
  /\ at = "run" => Gives(r, told, n) /\ Covers(r, state, n, told)
  /\ at = "save" =>
       Covers(r, state, n, told) \/ (ending /\ Gives(r, state, n + 1))
  /\ at = "advance" => Gives(r, state, n + 1)
  /\ at \in {"compact", "unlink", "remember"} => Gives(r, state, n)

Agreement ==
  doc # None /\ ~Spoilt(journal) =>
    Fits(Reading(doc, journal), pc, mem, seq, known, stopping)

IInv == TypeInv /\ ShapeOf(journal) /\ Place /\ Agreement

(***************************************************************************)
(* What a journal gives, whatever it holds                                 *)
(***************************************************************************)
Results == [state : States, seq : Nat, ok : BOOLEAN]

(* A sequence is empty or an element appended to a sequence.               *)
LEMMA FrontAndLast ==
  ASSUME NEW T, NEW s \in Seq(T), s # << >>
  PROVE  /\ Front(s) \in Seq(T) /\ Last(s) \in T
         /\ Len(s) \in Nat \ {0} /\ Len(Front(s)) = Len(s) - 1
         /\ \A i \in 1 .. Len(s) - 1 : Front(s)[i] = s[i]
         /\ Last(s) = s[Len(s)]
         /\ s = Append(Front(s), Last(s))
<1>1. Len(s) \in Nat \ {0}
  OBVIOUS
<1>2. /\ SubSeq(s, 1, Len(s) - 1) \in Seq(T)
      /\ Len(SubSeq(s, 1, Len(s) - 1)) = Len(s) - 1
      /\ \A i \in 1 .. Len(s) - 1 : SubSeq(s, 1, Len(s) - 1)[i] = s[i]
  <2> DEFINE n == Len(s) - 1
  <2>1. n \in Int /\ n >= 0 /\ 1 \in Int /\ \A i \in 1 .. n : s[i] \in T
    BY <1>1
  <2> HIDE DEF n
  <2>2. /\ SubSeq(s, 1, n) \in Seq(T)
        /\ Len(SubSeq(s, 1, n)) = IF 1 <= n THEN n - 1 + 1 ELSE 0
        /\ \A i \in 1 .. n - 1 + 1 : SubSeq(s, 1, n)[i] = s[1 + i - 1]
    BY ONLY <2>1, SubSeqProperties
  <2>3. Len(SubSeq(s, 1, n)) = n
    BY <2>1, <2>2
  <2>4. \A i \in 1 .. n : SubSeq(s, 1, n)[i] = s[i]
    <3>1. \A i \in 1 .. n : 1 + i - 1 = i /\ i \in 1 .. n - 1 + 1
      BY <2>1
    <3> QED
      BY <2>2, <3>1
  <2> QED
    BY <2>2, <2>3, <2>4 DEF n
<1>3. s[Len(s)] \in T
  BY <1>1
<1>4. s = Append(SubSeq(s, 1, Len(s) - 1), s[Len(s)])
  BY <1>1, <1>2, <1>3
<1> QED
  BY <1>1, <1>2, <1>3, <1>4 DEF Front, Last

(* A line that is read leaves a state.                                     *)
LEMMA ReadTyped ==
  ASSUME NEW acc \in Results, NEW line \in Lines
  PROVE  Read(acc, line) \in Results
<1>1. ASSUME NEW k \in Keys
      PROVE  (IF k \in DOMAIN line.changes THEN line.changes[k] ELSE acc.state[k])
               \in 0 .. MaxValue
  <2>1. acc.state[k] \in 0 .. MaxValue
    BY DEF Results, States
  <2>2. PICK D \in SUBSET Keys : line.changes \in [D -> 0 .. MaxValue]
    BY DEF Lines, Partial
  <2> QED
    BY <2>1, <2>2
<1>2. Applied(acc.state, line.changes) \in States
  BY <1>1 DEF Applied, States
<1>3. acc.seq \in Nat /\ line.seq \in Nat /\ acc.state \in States /\ acc.ok \in BOOLEAN
  BY DEF Results, Lines
<1>4. [acc EXCEPT !.ok = FALSE] \in Results
  BY DEF Results
<1>5. [acc EXCEPT !.state = Applied(@, line.changes), !.seq = line.seq] \in Results
  BY <1>2, <1>3 DEF Results
<1> QED
  BY <1>4, <1>5 DEF Read

(* So does every journal.                                                  *)
LEMMA ReadingTyped ==
  ASSUME NEW q \in Documents, NEW lines \in Seq(Lines)
  PROVE  Reading(q, lines) \in Results
<1> DEFINE P == {s \in Seq(Lines) : Reading(q, s) \in Results}
<1>1. << >> \in P
  <2>1. Base(q) \in Results
    BY DEF Base, Results, Documents
  <2>2. << >> \in Seq(Lines)
    OBVIOUS
  <2> QED
    BY <2>1, <2>2, ReadingNothing
<1>2. ASSUME NEW s \in Seq(Lines), s \in P, NEW e \in Lines PROVE Append(s, e) \in P
  <2>1. Append(s, e) \in Seq(Lines)
    OBVIOUS
  <2>2. Reading(q, Append(s, e)) = Read(Reading(q, s), e)
    BY ReadingNext
  <2> QED
    BY <1>2, <2>1, <2>2, ReadTyped
<1> QED
  <2> HIDE DEF P
  <2>1. Seq(Lines) \subseteq P
    BY <1>1, <1>2, SequenceInduction
  <2> QED
    BY <2>1 DEF P

(* A line that records a change carries a number; the others are skipped   *)
(* or refused.                                                             *)
Below(lines, n) ==
  \A i \in 1 .. Len(lines) : lines[i].kind \in {"event", "open"} => lines[i].seq <= n

(* One more line: what is spoilt, and what is numbered below.              *)
LEMMA OneMoreLine ==
  ASSUME NEW s \in Seq(Lines), NEW e \in Lines
  PROVE  /\ Spoilt(Append(s, e)) <=> Spoilt(s) \/ e.kind = "garbage"
         /\ \A n : Below(Append(s, e), n)
                     <=> Below(s, n) /\ (e.kind \in {"event", "open"} => e.seq <= n)
<1>1. /\ Len(s) \in Nat /\ Len(Append(s, e)) = Len(s) + 1
      /\ \A i \in 1 .. Len(s) : Append(s, e)[i] = s[i]
      /\ Append(s, e)[Len(s) + 1] = e
  OBVIOUS
<1> DEFINE more == Append(s, e)
<1> HIDE DEF more
<1>2. /\ Len(s) \in Nat /\ Len(more) = Len(s) + 1
      /\ \A i \in 1 .. Len(s) : more[i] = s[i]
      /\ more[Len(s) + 1] = e
  BY <1>1 DEF more
<1>3. Spoilt(more) <=> Spoilt(s) \/ e.kind = "garbage"
  BY <1>2 DEF Spoilt
<1>4. ASSUME NEW n
      PROVE Below(more, n)
                     <=> Below(s, n) /\ (e.kind \in {"event", "open"} => e.seq <= n)
  BY <1>2 DEF Below
<1> QED
  BY <1>3, <1>4 DEF more

(* A reading that is not refused met no spoilt line, and has reached the   *)
(* number of every line.                                                   *)
LEMMA ReadingSound ==
  ASSUME NEW q \in Documents, NEW lines \in Seq(Lines), Reading(q, lines).ok
  PROVE  ~Spoilt(lines) /\ Below(lines, Reading(q, lines).seq)
<1> DEFINE P == {s \in Seq(Lines) :
                   Reading(q, s).ok => ~Spoilt(s) /\ Below(s, Reading(q, s).seq)}
<1>1. << >> \in P
  BY DEF Spoilt, Below
<1>2. ASSUME NEW s \in Seq(Lines), s \in P, NEW e \in Lines PROVE Append(s, e) \in P
  <2> DEFINE r == Reading(q, s)
  <2>1. Append(s, e) \in Seq(Lines)
    OBVIOUS
  <2>2. Reading(q, Append(s, e)) = Read(r, e)
    BY ReadingNext
  <2>3. r \in Results
    BY ReadingTyped
  <2>4. SUFFICES ASSUME Read(r, e).ok
                 PROVE  ~Spoilt(Append(s, e)) /\ Below(Append(s, e), Read(r, e).seq)
    BY <2>1, <2>2
  <2> HIDE DEF r
  <2>5. r.ok /\ e.kind # "garbage"
    BY <2>3, <2>4 DEF Read, Results
  <2>6. ~Spoilt(s) /\ Below(s, r.seq)
    BY <1>2, <2>5 DEF r
  <2>7. /\ r.seq \in Nat /\ e.seq \in Nat /\ Read(r, e).seq \in Nat /\ r.seq <= Read(r, e).seq
        /\ e.kind \in {"event", "open"} => e.seq <= Read(r, e).seq
    BY <2>3, <2>5, <2>4 DEF Read, Results, Lines
  <2>8. Below(s, Read(r, e).seq)
    <3>1. ASSUME NEW i \in 1 .. Len(s) PROVE s[i].seq \in Nat
      <4>1. s[i] \in Lines
        OBVIOUS
      <4> QED
        BY <4>1 DEF Lines
    <3> QED
      BY <2>6, <2>7, <3>1 DEF Below
  <2> QED
    BY <2>5, <2>6, <2>7, <2>8, OneMoreLine
<1> QED
  <2> HIDE DEF P
  <2>1. Seq(Lines) \subseteq P
    BY <1>1, <1>2, SequenceInduction
  <2> QED
    BY <2>1 DEF P

(* Lines that the document already holds are skipped (state.py:358-360).   *)
LEMMA ReadingSkips ==
  ASSUME NEW q \in Documents, NEW lines \in Seq(Lines),
         ~Spoilt(lines), Below(lines, q.seq)
  PROVE  Reading(q, lines) = Base(q)
<1> DEFINE P == {s \in Seq(Lines) :
                   ~Spoilt(s) /\ Below(s, q.seq) => Reading(q, s) = Base(q)}
<1>1. << >> \in P
  BY ReadingNothing
<1>2. ASSUME NEW s \in Seq(Lines), s \in P, NEW e \in Lines PROVE Append(s, e) \in P
  <2>1. Append(s, e) \in Seq(Lines)
    OBVIOUS
  <2>2. Reading(q, Append(s, e)) = Read(Reading(q, s), e)
    BY ReadingNext
  <2>3. SUFFICES ASSUME ~Spoilt(Append(s, e)), Below(Append(s, e), q.seq)
                 PROVE  Read(Reading(q, s), e) = Base(q)
    BY <2>1, <2>2
  <2>4. /\ ~Spoilt(s) /\ Below(s, q.seq) /\ e.kind # "garbage"
        /\ e.kind \in {"event", "open"} => e.seq <= q.seq
    BY <2>3, OneMoreLine
  <2>5. Reading(q, s) = Base(q) /\ Base(q).seq = q.seq
    BY <1>2, <2>4 DEF Base
  <2> QED
    BY <2>4, <2>5 DEF Read, Lines, Kinds
<1> QED
  <2> HIDE DEF P
  <2>1. Seq(Lines) \subseteq P
    BY <1>1, <1>2, SequenceInduction
  <2> QED
    BY <2>1 DEF P

(* The last line is read last.                                             *)
LEMMA ReadingFront ==
  ASSUME NEW q, NEW T, NEW lines \in Seq(T), lines # << >>
  PROVE  Reading(q, lines) = Read(Reading(q, Front(lines)), Last(lines))
<1> DEFINE f == Front(lines)
           l == Last(lines)
<1>1. f \in Seq(T) /\ l \in T /\ lines = Append(f, l)
  BY FrontAndLast
<1> HIDE DEF f, l
<1>2. Reading(q, Append(f, l)) = Read(Reading(q, f), l)
  BY <1>1, ReadingNext
<1> QED
  BY <1>1, <1>2 DEF f, l

(***************************************************************************)
(* Appending to the journal                                                *)
(***************************************************************************)
(* A line is cut when the journal ends without a newline; no other line    *)
(* can be.                                                                 *)
Cut(lines)   == lines # << >> /\ Last(lines).kind \in {"torn", "open"}
Plain(lines) == \A i \in 1 .. Len(lines) : lines[i].kind \notin {"torn", "open"}

(* Before a line that may be cut there are none that are.                  *)
LEMMA ShapeKept ==
  ASSUME NEW lines \in Seq(Lines), ShapeOf(lines)
  PROVE  /\ ~Cut(lines) => Plain(lines)
         /\ lines # << >> => Plain(Front(lines))
<1>1. CASE lines = << >>
  <2>1. Len(lines) = 0
    BY <1>1
  <2> QED
    BY <1>1, <2>1 DEF Plain
<1>2. CASE lines # << >>
  <2>1. /\ Len(lines) \in Nat \ {0} /\ Len(Front(lines)) = Len(lines) - 1
        /\ \A i \in 1 .. Len(lines) - 1 : Front(lines)[i] = lines[i]
        /\ Last(lines) = lines[Len(lines)]
    BY <1>2, FrontAndLast
  <2>2. Plain(Front(lines))
    BY <2>1 DEF Plain, ShapeOf
  <2>3. ~Cut(lines) => Plain(lines)
    BY <1>2, <2>1 DEF Plain, ShapeOf, Cut
  <2> QED
    BY <2>2, <2>3
<1> QED
  BY <1>1, <1>2

(* A line is appended to lines that are not cut.                           *)
LEMMA ShapeAppend ==
  ASSUME NEW lines \in Seq(Lines), Plain(lines), NEW e \in Lines
  PROVE  ShapeOf(Append(lines, e))
<1> DEFINE more == Append(lines, e)
<1>1. /\ Len(lines) \in Nat /\ Len(more) = Len(lines) + 1
      /\ \A i \in 1 .. Len(lines) : more[i] = lines[i]
  OBVIOUS
<1> HIDE DEF more
<1>2. ShapeOf(more)
  BY <1>1 DEF ShapeOf, Plain
<1> QED
  BY <1>2 DEF more

(* What the last line of a journal is read as when it is cut.              *)
LEMMA CutLast ==
  ASSUME NEW lines \in Seq(Lines), Cut(lines)
  PROVE  /\ Front(lines) \in Seq(Lines)
         /\ Spoilt(lines) <=> Spoilt(Front(lines))
         /\ \A e \in Lines : e.kind = "torn" =>
              (Spoilt(Append(Front(lines), e)) <=> Spoilt(lines))
<1>1. /\ lines # << >> /\ Last(lines).kind # "garbage"
  BY DEF Cut
<1>2. /\ Front(lines) \in Seq(Lines) /\ Last(lines) \in Lines
      /\ lines = Append(Front(lines), Last(lines))
  BY <1>1, FrontAndLast
<1>3. Spoilt(lines) <=> Spoilt(Front(lines))
  <2> DEFINE f == Front(lines)
             l == Last(lines)
  <2>1. f \in Seq(Lines) /\ l \in Lines /\ lines = Append(f, l) /\ l.kind # "garbage"
    BY <1>1, <1>2
  <2> HIDE DEF f, l
  <2>2. Spoilt(Append(f, l)) <=> Spoilt(f)
    BY <2>1, OneMoreLine
  <2> QED
    BY <2>1, <2>2 DEF f
<1> QED
  BY <1>2, <1>3, OneMoreLine

(* The lines that are written.                                             *)
LEMMA LinesTyped ==
  ASSUME mem \in States, seq \in Nat
  PROVE  /\ \A kind \in {"event", "open"} : Line(kind) \in Lines
         /\ Torn \in Lines /\ Garbage \in Lines
<1>1. Changes \in Partial
  <2> DEFINE new == {k \in Keys : mem[k] # 0 /\ mem[k] # known[k]}
  <2>1. new \in SUBSET Keys
    OBVIOUS
  <2>2. \A k \in new : mem[k] \in 0 .. MaxValue
    BY DEF States
  <2>3. [k \in new |-> mem[k]] \in [new -> 0 .. MaxValue]
    BY <2>2
  <2>4. Changes = [k \in new |-> mem[k]]
    BY DEF Changes
  <2> HIDE DEF new
  <2> QED
    BY <2>1, <2>3, <2>4 DEF Partial
<1>2. [k \in {} |-> 0] \in Partial
  <2>1. [k \in {} |-> 0] \in [{} -> 0 .. MaxValue] /\ {} \in SUBSET Keys
    OBVIOUS
  <2> QED
    BY <2>1 DEF Partial
<1>3. seq + 1 \in Nat
  OBVIOUS
<1> QED
  BY <1>1, <1>2, <1>3 DEF Line, Torn, Garbage, Unread, Lines, Kinds

(* The journal after an append.                                            *)
LEMMA AppendedIs ==
  ASSUME mem \in States, seq \in Nat, journal \in Seq(Lines), ShapeOf(journal),
         NEW kind \in {"event", "torn", "open"}
  PROVE  /\ Appended(kind) \in Seq(Lines) /\ ShapeOf(Appended(kind))
         /\ Cut(journal) /\ kind = "event" => Spoilt(Appended(kind))
         /\ ~(Cut(journal) /\ kind = "event") =>
              (Spoilt(Appended(kind)) <=> Spoilt(journal))
<1> DEFINE e == IF Cut(journal) THEN IF kind = "event" THEN Garbage ELSE Torn
                ELSE IF kind = "torn" THEN Torn ELSE Line(kind)
           lines == IF Cut(journal) THEN Front(journal) ELSE journal
<1>1. Appended(kind) = Append(lines, e)
  BY DEF Appended, Cut
<1>2. e \in Lines
  BY LinesTyped
<1>3. lines \in Seq(Lines) /\ Plain(lines)
  BY CutLast, ShapeKept DEF Cut
<1>4. Append(lines, e) \in Seq(Lines) /\ ShapeOf(Append(lines, e))
  <2> HIDE DEF lines, e
  <2> QED
    BY <1>2, <1>3, ShapeAppend
<1>5. /\ Cut(journal) /\ kind = "event" => e.kind = "garbage"
      /\ ~(Cut(journal) /\ kind = "event") => e.kind # "garbage"
  BY DEF Garbage, Torn, Unread, Line
<1>6. Spoilt(lines) <=> Spoilt(journal)
  BY CutLast
<1> HIDE DEF lines, e
<1>7. Spoilt(Append(lines, e)) <=> Spoilt(lines) \/ e.kind = "garbage"
  BY <1>2, <1>3, OneMoreLine
<1> QED
  BY <1>1, <1>4, <1>5, <1>6, <1>7

(* A line with the changes brings what is on the disk up to the state of   *)
(* the process, and is skipped when they are there already: an interrupted *)
(* save is repeated under the same number (state.py:358-372, 395-430).     *)
LEMMA LineBringsUp ==
  ASSUME NEW r \in Results, r.ok, mem \in States, known \in States, seq \in Nat,
         Covers(r, mem, seq, known) \/ Gives(r, mem, seq + 1), NEW kind \in {"event", "open"}
  PROVE  Read(r, Line(kind)).ok /\ Gives(Read(r, Line(kind)), mem, seq + 1)
<1>1. /\ Line(kind).kind = kind /\ Line(kind).seq = seq + 1
      /\ Line(kind).changes = Changes
  BY DEF Line
<1>2. CASE Gives(r, mem, seq + 1)
  BY <1>1, <1>2 DEF Read, Gives
<1>3. CASE Covers(r, mem, seq, known)
  <2>1. r.seq = seq
    BY <1>3 DEF Covers
  <2> DEFINE new == {k \in Keys : mem[k] # 0 /\ mem[k] # known[k]}
  <2>2. Changes = [k \in new |-> mem[k]]
    BY DEF Changes
  <2>3. DOMAIN Changes = new /\ \A k \in new : Changes[k] = mem[k]
    BY <2>2
  <2>4. ASSUME NEW k \in Keys
        PROVE  (IF k \in DOMAIN Changes THEN Changes[k] ELSE r.state[k]) = mem[k]
    <3>1. /\ r.state[k] \in {mem[k], known[k]}
          /\ mem[k] = 0 => r.state[k] = 0
      BY <1>3 DEF Covers
    <3> QED
      BY <2>3, <3>1
  <2>5. Applied(r.state, Changes) = mem
    <3>1. Applied(r.state, Changes) = [k \in Keys |-> mem[k]]
      BY <2>4 DEF Applied
    <3> QED
      BY <3>1 DEF States
  <2>6. Read(r, Line(kind)) = [r EXCEPT !.state = Applied(@, Changes), !.seq = seq + 1]
    BY <1>1, <2>1 DEF Read
  <2> QED
    BY <2>5, <2>6 DEF Gives, Results
<1> QED
  BY <1>2, <1>3

(* What a new process reads after an append that was not cut itself, or    *)
(* was and replaces nothing.                                               *)
LEMMA AppendedReads ==
  ASSUME mem \in States, known \in States, seq \in Nat, doc \in Documents,
         journal \in Seq(Lines), Reading(doc, journal).ok,
         Covers(Reading(doc, journal), mem, seq, known)
           \/ Gives(Reading(doc, journal), mem, seq + 1),
         ~Cut(journal), NEW kind \in {"event", "open"}
  PROVE  /\ Reading(doc, Appended(kind)).ok
         /\ Gives(Reading(doc, Appended(kind)), mem, seq + 1)
<1>1. Appended(kind) = Append(journal, Line(kind))
  BY DEF Appended, Cut
<1>2. Line(kind) \in Lines
  BY LinesTyped
<1>3. Reading(doc, Appended(kind)) = Read(Reading(doc, journal), Line(kind))
  BY <1>1, <1>2, ReadingNext
<1> QED
  BY <1>3, ReadingTyped, LineBringsUp

(* A text that is cut short is not read, and takes a last line without a   *)
(* newline with it: what is left is what the lines before it give, which   *)
(* is what the last save that returned has left.                           *)
LEMMA TornReads ==
  ASSUME mem \in States, seq \in Nat, doc \in Documents,
         journal \in Seq(Lines), Reading(doc, journal).ok,
         NEW kind \in {"torn", "open"}, Cut(journal) \/ kind = "torn"
  PROVE  /\ Reading(doc, Appended(kind)).ok
         /\ Reading(doc, Appended(kind)) = Reading(doc, Whole(journal))
<1>1. Torn \in Lines
  BY LinesTyped
<1>2. CASE Cut(journal)
  <2>1. /\ Front(journal) \in Seq(Lines)
        /\ Reading(doc, journal) = Read(Reading(doc, Front(journal)), Last(journal))
    BY <1>2, CutLast, ReadingFront DEF Cut
  <2>2. Appended(kind) = Append(Front(journal), Torn)
    BY <1>2 DEF Appended, Cut
  <2>3. Reading(doc, Appended(kind)) = Reading(doc, Front(journal))
    <3>1. Reading(doc, Appended(kind)) = Read(Reading(doc, Front(journal)), Torn)
      BY <1>1, <2>1, <2>2, ReadingNext
    <3> QED
      BY <3>1 DEF Read, Torn, Unread
  <2>4. Reading(doc, Whole(journal)) = Reading(doc, Front(journal))
    <3>1. CASE Last(journal).kind = "open"
      BY <1>2, <3>1 DEF Whole, Cut
    <3>2. CASE Last(journal).kind = "torn"
      BY <1>2, <2>1, <3>2 DEF Whole, Cut, Read
    <3> QED
      BY <1>2, <3>1, <3>2 DEF Cut
  <2>5. Reading(doc, Front(journal)).ok
    <3>1. Reading(doc, Front(journal)) \in Results
      BY <2>1, ReadingTyped
    <3> QED
      BY <2>1, <3>1 DEF Read, Results
  <2> QED
    BY <2>3, <2>4, <2>5
<1>3. CASE ~Cut(journal)
  <2>1. Appended(kind) = Append(journal, Torn) /\ Whole(journal) = journal
    BY <1>3 DEF Appended, Cut, Whole
  <2>2. Reading(doc, Appended(kind)) = Read(Reading(doc, journal), Torn)
    BY <1>1, <2>1, ReadingNext
  <2> QED
    BY <2>1, <2>2 DEF Read, Torn, Unread
<1> QED
  BY <1>2, <1>3

(***************************************************************************)
(* The invariant holds                                                     *)
(***************************************************************************)
LEMMA InitHolds == Init => IInv
<1> SUFFICES ASSUME Init PROVE IInv
  OBVIOUS
<1>1. Empty \in States
  <2>1. 0 \in 0 .. MaxValue
    BY JournalAssumption
  <2> QED
    BY <2>1 DEF Empty, States
<1>2. TypeInv
  <2>1. << >> \in Seq(Lines)
    OBVIOUS
  <2> QED
    BY <1>1, <2>1 DEF Init, TypeInv
<1>3. Len(journal) = 0
  BY DEF Init
<1> QED
  BY <1>2, <1>3 DEF Init, IInv, ShapeOf, Place, Agreement, Working

(* What is on the disk when the process does something else.               *)
LEMMA FilesKept ==
  ASSUME IInv, UNCHANGED files
  PROVE  /\ ShapeOf(journal') /\ doc' = doc /\ journal' = journal
         /\ Spoilt(journal') <=> Spoilt(journal)
         /\ Reading(doc', journal') = Reading(doc, journal)
         /\ doc # None => doc \in Documents /\ Reading(doc, journal) \in Results
BY ReadingTyped DEF IInv, TypeInv, files

(* A new process knows exactly what it has read.                           *)
LEMMA ResumeHolds ==
  ASSUME IInv, Resume PROVE IInv'
<1> DEFINE r == Reading(doc, journal)
<1>1. /\ doc # None /\ Readable /\ pc = "off" /\ pc' = "save"
      /\ mem' = Loaded.state /\ seq' = Loaded.seq /\ known' = Loaded.state
      /\ stopping' = stopping /\ UNCHANGED files
  BY DEF Resume, Remembers
<1>2. doc \in Documents /\ journal \in Seq(Lines) /\ Loaded = r /\ r \in Results
  BY <1>1, ReadingTyped DEF IInv, TypeInv, Loaded, LoadFrom, Reading, Base
<1> HIDE DEF r
<1>3. mem' = r.state /\ seq' = r.seq /\ known' = r.state /\ r.ok
  BY <1>1, <1>2 DEF Readable
<1>4. r.state \in States /\ r.seq \in Nat
  BY <1>2 DEF Results
<1>5. TypeInv'
  BY <1>1, <1>3, <1>4, FilesKept DEF IInv, TypeInv, Working
<1>6. Place'
  BY <1>1, <1>3, <1>4, FilesKept DEF Place, Working
<1>7. Agreement'
  <2>1. Reading(doc', journal') = r
    BY <1>1, FilesKept DEF r
  <2>2. Fits(r, pc', mem', seq', known', stopping')
    BY <1>1, <1>3 DEF Fits, Covers, Gives
  <2> QED
    BY <2>1, <2>2 DEF Agreement
<1> QED
  BY <1>1, <1>5, <1>6, <1>7, FilesKept DEF IInv

(* Steps between transfers, and the ends of a process.                     *)
LEMMA IdleHolds ==
  ASSUME IInv, UNCHANGED files, pc' \in {"off", "menu"},
         mem' = None, seq' \in Nat, known' \in States, stopping' \in BOOLEAN
  PROVE  IInv'
<1>1. TypeInv' /\ Place'
  BY FilesKept DEF IInv, TypeInv, Place, Working
<1>2. Agreement'
  BY FilesKept DEF IInv, Agreement, Fits
<1> QED
  BY <1>1, <1>2, FilesKept DEF IInv

(* Declining, leaving and dying write nothing.                             *)
LEMMA RestHolds ==
  ASSUME IInv, Decline \/ Exit \/ Leave \/ Crash
  PROVE  IInv'
<1>1. UNCHANGED files
  BY DEF Decline, Exit, Leave, Crash, Die
<1>2. Empty \in States
  <2>1. 0 \in 0 .. MaxValue
    BY JournalAssumption
  <2> QED
    BY <2>1 DEF Empty, States
<1>3. known' \in States
  <2>1. CASE Decline /\ doc # None
    <3>1. Loaded = Reading(doc, journal) /\ Reading(doc, journal).state \in States
      BY <1>1, <2>1, FilesKept DEF Loaded, LoadFrom, Reading, Base, Results
    <3> QED
      BY <2>1, <3>1 DEF Decline, Remembers, IInv, TypeInv
  <2> QED
    BY <1>2, <2>1 DEF Decline, Exit, Leave, Crash, Die, Remembers, IInv, TypeInv
<1>4. pc' \in {"off", "menu"} /\ mem' = None /\ seq' \in Nat
  BY DEF Decline, Exit, Leave, Crash, Die, IInv, TypeInv, Place
<1>5. stopping' = stopping \/ stopping' = FALSE
  BY DEF Decline, Exit, Leave, Crash, Die
<1> QED
  BY <1>1, <1>3, <1>4, <1>5, IdleHolds DEF IInv, TypeInv

(* A transfer begins where there is nothing on the disk.                   *)
LEMMA StartHolds ==
  ASSUME ~Overlaps, IInv, Start PROVE IInv'
<1>1. Empty \in States
  <2>1. 0 \in 0 .. MaxValue
    BY JournalAssumption
  <2> QED
    BY <2>1 DEF Empty, States
<1>2. doc = None /\ journal = << >> /\ UNCHANGED files /\ pc' = "save"
      /\ mem' = Empty /\ seq' = 0 /\ known' = known /\ stopping' = stopping
  BY DEF Start
<1>3. TypeInv' /\ Place' /\ Agreement'
  BY <1>1, <1>2, FilesKept DEF IInv, TypeInv, Place, Agreement, Working
<1> QED
  BY <1>2, <1>3, FilesKept DEF IInv

(* A transfer never forgets a key, so what it has not marked since is what *)
(* the files hold.                                                         *)
LEMMA MarkHolds ==
  ASSUME IInv, Mark PROVE IInv'
<1>1. PICK k \in Keys, v \in 1 .. MaxValue : mem' = [mem EXCEPT ![k] = v]
  BY DEF Mark
<1>2. UNCHANGED files /\ seq' = seq /\ known' = known /\ pc' = pc /\ pc = "run"
      /\ stopping' = stopping
  BY DEF Mark
<1>3. mem \in States
  BY <1>2 DEF IInv, Place, Working
<1>4. v \in 0 .. MaxValue /\ v # 0
  OBVIOUS
<1>5. mem' \in States
  BY <1>1, <1>3, <1>4 DEF States
<1>6. TypeInv' /\ Place'
  BY <1>2, <1>3, <1>5, FilesKept DEF IInv, TypeInv, Place, Working
<1>7. Agreement'
  <2> DEFINE r == Reading(doc, journal)
  <2>1. SUFFICES ASSUME doc # None, ~Spoilt(journal)
                 PROVE  Fits(r, pc', mem', seq', known', stopping')
    BY <1>2, FilesKept DEF Agreement
  <2>2. Fits(r, pc, mem, seq, known, stopping)
    BY <2>1 DEF IInv, Agreement
  <2> HIDE DEF r
  <2>3. r.ok /\ r.state = known /\ r.seq = seq
        /\ \A j \in Keys : mem[j] = 0 => r.state[j] = 0
    BY <1>2, <2>2 DEF Fits, Covers, Gives
  <2>4. \A j \in Keys : mem'[j] = 0 => mem[j] = 0
    BY <1>1, <1>3, <1>4 DEF States
  <2> QED
    BY <1>2, <2>3, <2>4 DEF Fits, Covers, Gives
<1> QED
  BY <1>2, <1>6, <1>7, FilesKept DEF IInv

(***************************************************************************)
(* The steps of a save                                                     *)
(***************************************************************************)
(* Steps that write nothing and leave the process at work.                 *)
LEMMA SaveHolds ==
  ASSUME IInv, Save \/ Advance \/ Interrupt PROVE IInv'
<1>1. /\ UNCHANGED files /\ mem' = mem /\ known' = known
      /\ pc \in Working /\ pc' \in Working \ {"run", "unlink"}
      /\ seq' \in Nat /\ mem \in States
      /\ pc = "save" => pc' = "save"
      /\ doc = None => pc = "save"
  BY DEF Save, Advance, Interrupt, IInv, TypeInv, Place, Working
<1>2. stopping' = stopping \/ stopping' = TRUE
  BY DEF Save, Advance, Interrupt
<1>3. TypeInv'
  BY <1>1, <1>2, FilesKept DEF IInv, TypeInv
<1>4. Place'
  BY <1>1, FilesKept DEF IInv, Place, Working
<1>5. Agreement'
  <2> DEFINE r == Reading(doc, journal)
  <2>1. SUFFICES ASSUME doc # None, ~Spoilt(journal)
                 PROVE  Fits(r, pc', mem', seq', known', stopping')
    BY <1>1, FilesKept DEF Agreement
  <2>2. Fits(r, pc, mem, seq, known, stopping)
    BY <2>1 DEF IInv, Agreement
  <2>3. r \in Results /\ mem \in States /\ known \in States /\ seq \in Nat
    BY <1>1, <2>1, FilesKept DEF IInv, TypeInv
  <2> HIDE DEF r
  <2>4. CASE Save
    BY <2>2, <2>4 DEF Fits, Covers, Gives, Save
  <2>5. CASE Advance
    BY <2>2, <2>5 DEF Fits, Gives, Advance
  <2>6. CASE Interrupt
    <3>1. /\ pc' = "save" /\ seq' = seq /\ stopping' = TRUE /\ ~stopping
          /\ pc \in Working
      BY <2>6 DEF Interrupt, Working
    <3>2. Gives(r, mem, seq) => Covers(r, mem, seq, known)
      BY DEF Gives, Covers
    <3>3. Covers(r, mem, seq, known) \/ Gives(r, mem, seq + 1)
      BY <2>2, <3>1, <3>2 DEF Fits, Working
    <3> QED
      BY <1>1, <2>2, <3>1, <3>3 DEF Fits
  <2> QED
    BY <2>4, <2>5, <2>6
<1> QED
  BY <1>1, <1>3, <1>4, <1>5, FilesKept DEF IInv

(* Once the document says the state, no line that is left is read.         *)
LEMMA NewDocument ==
  ASSUME mem \in States, seq \in Nat, journal \in Seq(Lines),
         ~Spoilt(journal), Below(journal, seq)
  PROVE  LET q == [state |-> mem, seq |-> seq]
         IN  /\ q \in Documents
             /\ Reading(q, journal).ok /\ Gives(Reading(q, journal), mem, seq)
<1> DEFINE q == [state |-> mem, seq |-> seq]
<1>1. q \in Documents /\ q.seq = seq /\ q.state = mem
  BY DEF Documents
<1> HIDE DEF q
<1>2. Reading(q, journal) = Base(q)
  BY <1>1, ReadingSkips
<1>3. Reading(q, journal).ok /\ Gives(Reading(q, journal), mem, seq)
  BY <1>1, <1>2 DEF Base, Gives
<1> QED
  BY <1>1, <1>3 DEF q

(* There is no line in a journal that is not there.                        *)
LEMMA NoLines ==
  /\ << >> \in Seq(Lines) /\ ~Spoilt(<< >>) /\ \A n : Below(<< >>, n)
  /\ ShapeOf(<< >>)
<1>1. Len(<< >>) = 0 /\ << >> \in Seq(Lines)
  OBVIOUS
<1> QED
  BY <1>1 DEF Spoilt, Below, ShapeOf

(* A complete document replaces the old one.                               *)
LEMMA WriteHolds ==
  ASSUME IInv, SaveFirst \/ Compact PROVE IInv'
<1>1. /\ doc' = [state |-> mem, seq |-> seq] /\ journal' = journal
      /\ mem' = mem /\ seq' = seq /\ known' = known /\ stopping' = stopping
      /\ pc' \in {"remember", "unlink"} /\ mem \in States
      /\ pc \in {"save", "compact"}
  BY DEF SaveFirst, Compact, WriteDocument, IInv, Place, Working
<1>2. [state |-> mem, seq |-> seq] \in Documents
  BY <1>1 DEF IInv, TypeInv, Documents
<1>3. TypeInv'
  BY <1>1, <1>2 DEF IInv, TypeInv, Working
<1>4. Place'
  <2>1. doc' # None
    BY <1>1, <1>2, NoneAssumption
  <2>2. mem' \in States /\ pc' \in {"remember", "unlink"}
        /\ doc' = [state |-> mem', seq |-> seq']
    BY <1>1
  <2> QED
    BY <2>1, <2>2 DEF Place, Working
<1>5. Agreement'
  <2>1. SUFFICES ASSUME ~Spoilt(journal)
                 PROVE  Fits(Reading([state |-> mem, seq |-> seq], journal),
                             pc', mem', seq', known', stopping')
    BY <1>1 DEF Agreement
  <2>2. journal \in Seq(Lines) /\ seq \in Nat
    BY DEF IInv, TypeInv
  <2>3. Below(journal, seq)
    <3>1. CASE SaveFirst
      BY <3>1, NoLines DEF SaveFirst, IInv, Place
    <3>2. CASE Compact
      <4>1. doc # None /\ doc \in Documents /\ pc = "compact"
        BY <3>2 DEF IInv, TypeInv, Place, Compact, Working
      <4>2. Reading(doc, journal).ok /\ Reading(doc, journal).seq = seq
        BY <2>1, <4>1 DEF IInv, Agreement, Fits, Gives
      <4> QED
        BY <2>2, <4>1, <4>2, ReadingSound
    <3> QED
      BY <3>1, <3>2
  <2> DEFINE r == Reading([state |-> mem, seq |-> seq], journal)
  <2>4. r.ok /\ Gives(r, mem, seq)
    BY <1>1, <2>1, <2>2, <2>3, NewDocument
  <2> HIDE DEF r
  <2>5. Fits(r, pc', mem', seq', known', stopping')
    BY <1>1, <2>4 DEF Fits
  <2> QED
    BY <2>5 DEF r
<1> QED
  BY <1>1, <1>3, <1>4, <1>5 DEF IInv

(* The journal goes after the document that says what it said.             *)
LEMMA UnlinkHolds ==
  ASSUME IInv, UnlinkJournal PROVE IInv'
<1>1. /\ doc' = doc /\ journal' = << >> /\ pc = "unlink" /\ pc' = "remember"
      /\ mem' = mem /\ seq' = seq /\ known' = known /\ stopping' = stopping
  BY DEF UnlinkJournal
<1>2. /\ mem \in States /\ seq \in Nat /\ doc # None
      /\ doc = [state |-> mem, seq |-> seq] /\ doc \in Documents
  BY <1>1 DEF IInv, TypeInv, Place, Working
<1>3. TypeInv' /\ Place' /\ ShapeOf(journal')
  BY <1>1, <1>2, NoLines DEF IInv, TypeInv, Place, Working
<1>4. Agreement'
  <2>1. Reading(doc', journal') = Base(doc)
    BY <1>1, ReadingNothing
  <2>2. Base(doc).ok /\ Gives(Base(doc), mem, seq)
    BY <1>2 DEF Base, Gives
  <2>3. Fits(Base(doc), pc', mem', seq', known', stopping')
    BY <1>1, <2>2 DEF Fits
  <2> QED
    BY <2>1, <2>3 DEF Agreement
<1> QED
  BY <1>3, <1>4 DEF IInv

(* A save that returns leaves what was saved as what is remembered.        *)
LEMMA RememberHolds ==
  ASSUME IInv, Remember PROVE IInv'
<1>0. UNCHANGED files /\ pc = "remember" /\ mem \in States /\ doc # None
  BY DEF Remember, IInv, Place, Working
<1>1. CASE stopping
  <2>1. Empty \in States
    <3>1. 0 \in 0 .. MaxValue
      BY JournalAssumption
    <3> QED
      BY <3>1 DEF Empty, States
  <2>2. known' = Empty /\ stopping' = FALSE /\ mem' = None /\ seq' = 0 /\ pc' = "off"
    BY <1>1 DEF Remember, Remembers
  <2> QED
    BY <1>0, <2>1, <2>2, IdleHolds
<1>2. CASE ~stopping
  <2>1. known' = mem /\ pc' = "run" /\ mem' = mem /\ seq' = seq /\ stopping' = stopping
    BY <1>2 DEF Remember, Remembers
  <2>2. TypeInv' /\ Place'
    BY <1>0, <1>2, <2>1, FilesKept DEF IInv, TypeInv, Place, Working
  <2>3. Agreement'
    <3> DEFINE r == Reading(doc, journal)
    <3>1. SUFFICES ASSUME doc # None, ~Spoilt(journal)
                   PROVE  Fits(r, pc', mem', seq', known', stopping')
      BY <1>0, FilesKept DEF Agreement
    <3>2. Fits(r, pc, mem, seq, known, stopping)
      BY <3>1 DEF IInv, Agreement
    <3> HIDE DEF r
    <3> QED
      BY <1>0, <2>1, <3>2 DEF Fits, Gives, Covers
  <2> QED
    BY <1>0, <2>2, <2>3, FilesKept DEF IInv
<1> QED
  BY <1>1, <1>2

(* clear removes the document first: lines alone are no state.             *)
LEMMA ClearHolds ==
  ASSUME IInv, ClearDocument \/ ClearJournal PROVE IInv'
<1>1. CASE ClearDocument
  <2>1. /\ doc' = None /\ journal' = journal /\ pc' = "clear"
        /\ mem' = mem /\ seq' = seq /\ known' = known /\ stopping' = stopping
    BY <1>1 DEF ClearDocument
  <2> QED
    BY <2>1 DEF IInv, TypeInv, Place, Agreement, Working
<1>2. CASE ClearJournal
  <2>1. /\ doc' = doc /\ journal' = << >> /\ pc' = "menu" /\ doc = None
        /\ mem' = None /\ seq' = 0 /\ known' = known /\ stopping' = stopping
    BY <1>2 DEF ClearJournal, IInv, Place
  <2> QED
    BY <2>1, NoLines DEF IInv, TypeInv, Place, Agreement, Working
<1> QED
  BY <1>1, <1>2

(* A line is appended, and the journal may be spoilt by it.                *)
LEMMA AppendHolds ==
  ASSUME IInv, AppendEvent PROVE IInv'
<1>1. /\ pc = "save" /\ doc # None /\ doc' = doc /\ journal' = Appended("event")
      /\ pc' = "advance" /\ mem' = mem /\ seq' = seq /\ known' = known
      /\ stopping' = stopping
  BY DEF AppendEvent
<1>2. /\ mem \in States /\ seq \in Nat /\ known \in States /\ doc \in Documents
      /\ journal \in Seq(Lines) /\ ShapeOf(journal)
  BY <1>1 DEF IInv, TypeInv, Place, Working
<1>3. /\ journal' \in Seq(Lines) /\ ShapeOf(journal')
      /\ Spoilt(journal') <=> Spoilt(journal) \/ Cut(journal)
  <2>1. /\ Appended("event") \in Seq(Lines) /\ ShapeOf(Appended("event"))
        /\ Cut(journal) => Spoilt(Appended("event"))
        /\ ~Cut(journal) => (Spoilt(Appended("event")) <=> Spoilt(journal))
    BY <1>2, AppendedIs
  <2>2. Cut(journal) \/ ~Cut(journal)
    OBVIOUS
  <2> QED
    BY <1>1, <2>1
<1>4. TypeInv' /\ Place'
  BY <1>1, <1>2, <1>3 DEF IInv, TypeInv, Place, Working
<1>5. Agreement'
  <2>1. SUFFICES ASSUME ~Spoilt(journal), ~Cut(journal)
                 PROVE  Fits(Reading(doc, journal'), pc', mem', seq', known', stopping')
    BY <1>1, <1>3 DEF Agreement
  <2>2. Fits(Reading(doc, journal), pc, mem, seq, known, stopping)
    BY <1>1, <2>1 DEF IInv, Agreement
  <2>3. /\ Reading(doc, journal).ok
        /\ \/ Covers(Reading(doc, journal), mem, seq, known)
           \/ Gives(Reading(doc, journal), mem, seq + 1)
    BY <1>1, <2>2 DEF Fits
  <2>4. Reading(doc, journal').ok /\ Gives(Reading(doc, journal'), mem, seq + 1)
    BY <1>1, <1>2, <2>1, <2>3, AppendedReads
  <2> QED
    BY <1>1, <2>4 DEF Fits
<1> QED
  BY <1>3, <1>4, <1>5 DEF IInv

(* The operating system stops in the middle of an append.                  *)
LEMMA TearHolds ==
  ASSUME IInv, TearAppend PROVE IInv'
<1>1. PICK kind \in {"torn", "open"} : journal' = Appended(kind)
  BY DEF TearAppend
<1>2. /\ pc = "save" /\ doc # None /\ doc' = doc /\ pc' = "off" /\ mem' = None
      /\ seq' = 0 /\ known' = Empty /\ stopping' = FALSE
  BY DEF TearAppend, Die
<1>3. /\ mem \in States /\ seq \in Nat /\ known \in States /\ doc \in Documents
      /\ journal \in Seq(Lines) /\ ShapeOf(journal)
  BY <1>2 DEF IInv, TypeInv, Place, Working
<1>4. /\ journal' \in Seq(Lines) /\ ShapeOf(journal')
      /\ Spoilt(journal') <=> Spoilt(journal)
  BY <1>1, <1>3, AppendedIs
<1>5. Empty \in States
  <2>1. 0 \in 0 .. MaxValue
    BY JournalAssumption
  <2> QED
    BY <2>1 DEF Empty, States
<1>6. TypeInv' /\ Place'
  BY <1>2, <1>3, <1>4, <1>5 DEF TypeInv, Place, Working
<1>7. Agreement'
  <2>1. SUFFICES ASSUME ~Spoilt(journal)
                 PROVE  Fits(Reading(doc, journal'), pc', mem', seq', known', stopping')
    BY <1>2, <1>4 DEF Agreement
  <2>2. Fits(Reading(doc, journal), pc, mem, seq, known, stopping)
    BY <1>2, <2>1 DEF IInv, Agreement
  <2>3. /\ Reading(doc, journal).ok
        /\ \/ Covers(Reading(doc, journal), mem, seq, known)
           \/ Gives(Reading(doc, journal), mem, seq + 1)
    BY <1>2, <2>2 DEF Fits
  <2>4. Reading(doc, journal').ok
    <3>1. CASE Cut(journal) \/ kind = "torn"
      BY <1>1, <1>3, <2>3, <3>1, TornReads
    <3>2. CASE ~Cut(journal) /\ kind = "open"
      BY <1>1, <1>3, <2>3, <3>2, AppendedReads
    <3> QED
      BY <3>1, <3>2
  <2> QED
    BY <1>2, <2>4 DEF Fits
<1> QED
  BY <1>4, <1>6, <1>7 DEF IInv

(* No step leaves the invariant.                                           *)
LEMMA StepHolds ==
  ASSUME ~Overlaps, IInv, [Next]_vars PROVE IInv'
<1>1. CASE Next
  BY <1>1, ResumeHolds, RestHolds, StartHolds, MarkHolds, SaveHolds, WriteHolds,
     UnlinkHolds, RememberHolds, ClearHolds, AppendHolds, TearHolds DEF Next
<1>2. CASE UNCHANGED vars
  <2>1. /\ UNCHANGED files /\ mem' = mem /\ seq' = seq /\ known' = known
        /\ pc' = pc /\ stopping' = stopping
    BY <1>2 DEF vars
  <2> QED
    BY <2>1, FilesKept DEF IInv, TypeInv, Place, Agreement
<1> QED
  BY <1>1, <1>2

(* The invariant holds throughout.                                         *)
LEMMA InvariantHolds ==
  ASSUME ~Overlaps
  PROVE  Spec => []IInv
<1>1. IInv /\ [Next]_vars => IInv'
  BY StepHolds
<1> QED
  BY <1>1, InitHolds, PTL DEF Spec

(* A reading is refused only when a line is spoilt.                        *)
LEMMA RefusedWhenSpoilt ==
  ASSUME IInv, doc # None
  PROVE  /\ Reading(doc, journal).ok <=> ~Spoilt(journal)
         /\ \A lines : LoadFrom(lines) = Reading(doc, lines)
<1>1. doc \in Documents /\ journal \in Seq(Lines)
  BY DEF IInv, TypeInv
<1>2. Reading(doc, journal).ok => ~Spoilt(journal)
  BY <1>1, ReadingSound
<1>3. ~Spoilt(journal) => Reading(doc, journal).ok
  BY DEF IInv, Agreement, Fits
<1> QED
  BY <1>2, <1>3 DEF LoadFrom, Reading, Base

(* When no transfer is begun beside the files of another one, what save()  *)
(* has stored is what load() gives, and load() refuses the files only when *)
(* an append was made after one that never finished (state.py:342-387).    *)
THEOREM SavedIsReadBack ==
  ASSUME ~Overlaps
  PROVE  Spec => []ReadsBackSaved
<1>1. ASSUME IInv PROVE ReadsBackSaved
  <2>1. CASE doc = None
    BY <2>1 DEF ReadsBackSaved, Readable
  <2>2. CASE doc # None /\ Spoilt(journal)
    <3>1. ~Loaded.ok
      BY <1>1, <2>2, RefusedWhenSpoilt DEF Loaded
    <3>2. DOMAIN journal = 1 .. Len(journal)
      BY <1>1 DEF IInv, TypeInv
    <3>3. \E i \in DOMAIN journal : journal[i].kind = "garbage"
      BY <2>2, <3>2 DEF Spoilt
    <3> QED
      BY <2>2, <3>1, <3>3 DEF ReadsBackSaved, Readable
  <2>3. CASE doc # None /\ ~Spoilt(journal)
    <3>1. Loaded = Reading(doc, journal) /\ Reading(doc, journal).ok
      BY <1>1, <2>3, RefusedWhenSpoilt DEF Loaded
    <3>2. pc = "run" => Gives(Reading(doc, journal), known, seq)
      BY <1>1, <2>3 DEF IInv, Agreement, Fits
    <3> QED
      BY <3>1, <3>2 DEF ReadsBackSaved, Readable, Gives
  <2> QED
    BY <2>1, <2>2, <2>3
<1> QED
  BY <1>1, InvariantHolds, PTL

(***************************************************************************)
(* The two files implement one durable value                               *)
(***************************************************************************)
(* The value of a document with a journal.                                 *)
ValueOf(d, lines) ==
  IF d = None \/ ~Reading(d, lines).ok THEN None ELSE Reading(d, lines).state

(* The abstract value before and after a step.                             *)
LEMMA SeenNow ==
  /\ Durable = ValueOf(doc, journal) /\ Sure = ValueOf(doc, Whole(journal))
  /\ Readable <=> doc = None \/ Reading(doc, journal).ok
BY DEF Durable, Sure, ReadFrom, Readable, Loaded, LoadFrom, ValueOf, Reading, Base

(* The same after a step.                                                  *)
LEMMA SeenNext ==
  /\ Durable' = ValueOf(doc', journal') /\ Sure' = ValueOf(doc', Whole(journal'))
  /\ Readable' <=> doc' = None \/ Reading(doc', journal').ok
BY DEF Durable, Sure, ReadFrom, Readable, Loaded, LoadFrom, ValueOf, Reading, Base

(* A step that leaves the files alone leaves the value alone.              *)
LEMMA ValueStays ==
  ASSUME UNCHANGED files
  PROVE  UNCHANGED Stored!stored
BY SeenNow, SeenNext DEF files, Stored!stored

(* A spoilt journal is refused, with or without its last line.             *)
LEMMA SpoiltIsRefused ==
  ASSUME NEW d \in Documents, NEW lines \in Seq(Lines), Spoilt(lines)
  PROVE  ValueOf(d, lines) = None /\ ValueOf(d, Whole(lines)) = None
         /\ ~Reading(d, lines).ok
<1>1. ~Reading(d, lines).ok
  BY ReadingSound
<1>2. CASE Cut(lines)
  <2>1. Front(lines) \in Seq(Lines) /\ Spoilt(Front(lines))
    BY <1>2, CutLast
  <2>2. ~Reading(d, Front(lines)).ok
    BY <2>1, ReadingSound
  <2> QED
    BY <1>1, <2>2 DEF Whole, ValueOf
<1>3. CASE ~Cut(lines)
  BY <1>1, <1>3 DEF Whole, Cut, ValueOf
<1> QED
  BY <1>1, <1>2, <1>3

(* A process that stores its state leaves that state as the value.         *)
LEMMA StoresState ==
  ASSUME mem \in States, mem' = mem,
         doc' # None, Reading(doc', journal').ok, Reading(doc', journal').state = mem,
         Whole(journal') = journal' \/ ValueOf(doc', Whole(journal')) = mem
  PROVE  Stored!Store
<1>1. ValueOf(doc', journal') = mem /\ ValueOf(doc', Whole(journal')) = mem
  BY DEF ValueOf
<1> QED
  BY <1>1, SeenNext DEF Stored!Store

(* Resuming takes the stored value for the state.                          *)
LEMMA ResumeImplements ==
  ASSUME IInv, Resume PROVE Stored!Resume
<1>1. /\ UNCHANGED files /\ mem = None /\ doc # None /\ Readable
      /\ mem' = Loaded.state
  BY DEF Resume, IInv, Place
<1>2. Loaded = Reading(doc, journal) /\ Reading(doc, journal) \in Results
  BY <1>1, FilesKept DEF Loaded, LoadFrom, Reading, Base
<1>3. Loaded.ok /\ Loaded.state \in States
  BY <1>1, <1>2 DEF Readable, Results
<1>4. Durable = Loaded.state
  BY <1>1, <1>2, <1>3, SeenNow DEF ValueOf
<1>5. Durable # None
  BY <1>3, <1>4, NoneAssumption
<1> QED
  BY <1>1, <1>4, <1>5, ValueStays DEF Stored!Resume

(* Steps that leave the files alone begin, change or stop a transfer, or   *)
(* are not seen.                                                           *)
LEMMA QuietImplements ==
  ASSUME IInv, Decline \/ Exit \/ Start \/ Mark \/ Save \/ Advance \/ Remember
               \/ Leave \/ Interrupt \/ Crash, IInv'
  PROVE  [Stored!Next]_Stored!vars
<1>1. UNCHANGED files
  BY DEF Decline, Exit, Start, Mark, Save, Advance, Remember, Leave, Interrupt,
         Crash, Die
<1>2. UNCHANGED Stored!stored
  BY <1>1, ValueStays
<1>3. CASE Start
  <2>1. mem = None /\ mem' = Empty
    BY <1>3 DEF Start, IInv, Place
  <2> QED
    BY <1>2, <2>1 DEF Stored!Next, Stored!Begin
<1>4. CASE Mark
  <2>1. mem \in States /\ mem' \in States
    BY <1>4 DEF Mark, IInv, Place, Working
  <2> QED
    BY <1>2, <2>1 DEF Stored!Next, Stored!Change
<1>5. CASE mem' = None
  BY <1>2, <1>5 DEF Stored!Next, Stored!Stop
<1>6. CASE mem' = mem
  BY <1>2, <1>6 DEF Stored!vars
<1>7. Start \/ Mark \/ mem' = None \/ mem' = mem
  BY DEF Decline, Exit, Save, Advance, Remember, Leave, Interrupt, Crash, Die
<1> QED
  BY <1>3, <1>4, <1>5, <1>6, <1>7

(* A new document stores the state, unless a spoilt journal still hides it.*)
LEMMA WriteImplements ==
  ASSUME IInv, SaveFirst \/ Compact, IInv'
  PROVE  [Stored!Next]_Stored!vars
<1>1. /\ doc' = [state |-> mem, seq |-> seq] /\ journal' = journal /\ mem' = mem
      /\ mem \in States /\ doc' # None /\ journal \in Seq(Lines)
      /\ pc' \in {"remember", "unlink"} /\ seq' = seq
  BY DEF SaveFirst, Compact, WriteDocument, IInv, Place, Working, TypeInv
<1>2. doc' \in Documents
  BY <1>1 DEF IInv, TypeInv
<1>3. CASE Spoilt(journal)
  <2>1. doc # None /\ doc \in Documents
    BY <1>3, NoLines DEF IInv, TypeInv, Place, SaveFirst, Compact, Working
  <2>2. /\ ValueOf(doc, journal) = None /\ ValueOf(doc, Whole(journal)) = None
        /\ ~Reading(doc, journal).ok
    BY <1>1, <1>3, <2>1, SpoiltIsRefused
  <2>3. /\ ValueOf(doc', journal') = None /\ ValueOf(doc', Whole(journal')) = None
        /\ ~Reading(doc', journal').ok
    BY <1>1, <1>2, <1>3, SpoiltIsRefused
  <2>4. UNCHANGED Stored!stored
    BY <1>1, <2>1, <2>2, <2>3, SeenNow, SeenNext DEF Stored!stored
  <2> QED
    BY <1>1, <2>4 DEF Stored!vars
<1>4. CASE ~Spoilt(journal)
  <2>1. Fits(Reading(doc', journal'), pc', mem', seq', known', stopping')
    BY <1>1, <1>4 DEF IInv, Agreement
  <2>2. /\ Reading(doc', journal').ok /\ Gives(Reading(doc', journal'), mem, seq)
    BY <1>1, <2>1 DEF Fits
  <2>3. Reading(doc', journal').state = mem /\ Reading(doc', journal').seq = seq
    BY <2>2 DEF Gives
  <2>4. Below(journal', seq)
    BY <1>1, <1>2, <2>2, <2>3, ReadingSound
  <2>5. ValueOf(doc', Whole(journal')) = mem
    <3>1. CASE Whole(journal') = journal'
      BY <1>1, <2>2, <2>3, <3>1 DEF ValueOf
    <3>2. CASE Whole(journal') # journal'
      <4> DEFINE front == Front(journal')
      <4>1. Whole(journal') = front /\ Cut(journal')
        BY <3>2 DEF Whole, Cut
      <4>2. front \in Seq(Lines) /\ ~Spoilt(front)
        BY <1>1, <1>4, <4>1, CutLast
      <4>3. Below(front, seq)
        BY <1>1, <2>4, <4>1, FrontAndLast DEF Below, Cut
      <4>4. doc'.seq = seq /\ doc'.state = mem
        BY <1>1
      <4> HIDE DEF front
      <4>5. Reading(doc', front) = Base(doc')
        BY <1>2, <4>2, <4>3, <4>4, ReadingSkips
      <4> QED
        BY <1>1, <4>1, <4>4, <4>5 DEF ValueOf, Base
    <3> QED
      BY <3>1, <3>2
  <2> QED
    BY <1>1, <2>2, <2>3, <2>5, StoresState DEF Stored!Next
<1> QED
  BY <1>3, <1>4

(* Without its journal the document alone is the value.                    *)
LEMMA UnlinkImplements ==
  ASSUME IInv, UnlinkJournal, IInv'
  PROVE  Stored!Store
<1>1. /\ journal' = << >> /\ mem' = mem /\ mem \in States /\ doc' # None
      /\ pc' = "remember"
  BY DEF UnlinkJournal, IInv, Place, Working
<1>2. Fits(Reading(doc', journal'), pc', mem', seq', known', stopping')
  BY <1>1, NoLines DEF IInv, Agreement
<1>3. Reading(doc', journal').ok /\ Reading(doc', journal').state = mem
  BY <1>1, <1>2 DEF Fits, Gives
<1> QED
  BY <1>1, <1>3, StoresState DEF Whole

(* Clearing forgets the value with the document.                           *)
LEMMA ClearImplements ==
  ASSUME IInv, ClearDocument \/ ClearJournal
  PROVE  Stored!Clear \/ Stored!Stop
<1>1. CASE ClearDocument
  <2>1. doc' = None /\ mem' = mem
    BY <1>1 DEF ClearDocument
  <2> QED
    BY <2>1, SeenNext DEF Stored!Clear, ValueOf
<1>2. CASE ClearJournal
  <2>1. doc = None /\ doc' = None /\ mem' = None
    BY <1>2 DEF ClearJournal, IInv, Place
  <2> QED
    BY <2>1, SeenNow, SeenNext DEF Stored!Stop, Stored!stored, ValueOf
<1> QED
  BY <1>1, <1>2

(* An append stores the state, unless it follows a line that never ended:  *)
(* then nobody reads the journal again.                                    *)
LEMMA AppendImplements ==
  ASSUME IInv, AppendEvent, IInv'
  PROVE  [Stored!Next]_Stored!vars
<1>1. /\ pc = "save" /\ doc # None /\ doc' = doc /\ journal' = Appended("event")
      /\ pc' = "advance" /\ mem' = mem /\ doc \in Documents
      /\ mem \in States /\ seq \in Nat /\ journal \in Seq(Lines) /\ ShapeOf(journal)
      /\ journal' \in Seq(Lines)
  BY DEF AppendEvent, IInv, TypeInv, Place, Working
<1>2. CASE Spoilt(journal')
  <2>1. /\ ValueOf(doc', journal') = None /\ ValueOf(doc', Whole(journal')) = None
        /\ ~Reading(doc', journal').ok
    BY <1>1, <1>2, SpoiltIsRefused
  <2>2. Stored!Ruin
    BY <1>1, <2>1, SeenNext DEF Stored!Ruin
  <2> QED
    BY <2>2 DEF Stored!Next
<1>3. CASE ~Spoilt(journal')
  <2>1. Fits(Reading(doc', journal'), pc', mem', seq', known', stopping')
    BY <1>1, <1>3 DEF IInv, Agreement
  <2>2. Reading(doc', journal').ok /\ Reading(doc', journal').state = mem
    BY <1>1, <2>1 DEF Fits, Gives
  <2>3. ~Cut(journal)
    BY <1>1, <1>3, AppendedIs
  <2>4. Whole(journal') = journal'
    <3> DEFINE e == Line("event")
               more == Append(journal, e)
    <3>1. journal' = more /\ e \in Lines /\ e.kind = "event"
      BY <1>1, <2>3, LinesTyped DEF Appended, Cut, Line
    <3>2. more[Len(more)] = e
      <4>1. Len(more) = Len(journal) + 1 /\ more[Len(journal) + 1] = e
        BY <1>1
      <4> QED
        BY <4>1
    <3> HIDE DEF e, more
    <3>3. Last(more).kind # "open"
      BY <3>1, <3>2 DEF Last
    <3> QED
      BY <3>1, <3>3 DEF Whole
  <2> QED
    BY <1>1, <2>2, <2>4, StoresState DEF Stored!Next
<1> QED
  BY <1>2, <1>3

(* What is left of a journal without the line that was just appended.      *)
LEMMA FrontOfAppend ==
  ASSUME NEW T, NEW s \in Seq(T), NEW e \in T
  PROVE  /\ Append(s, e) # << >> /\ Last(Append(s, e)) = e
         /\ Front(Append(s, e)) = s
<1> DEFINE more == Append(s, e)
<1>1. more \in Seq(T) /\ Len(more) = Len(s) + 1 /\ Len(s) \in Nat
      /\ more[Len(s) + 1] = e /\ \A i \in 1 .. Len(s) : more[i] = s[i]
  OBVIOUS
<1> HIDE DEF more
<1>2. more # << >>
  BY <1>1
<1>3. /\ Front(more) \in Seq(T) /\ Len(Front(more)) = Len(s)
      /\ \A i \in 1 .. Len(s) : Front(more)[i] = s[i]
      /\ Last(more) = e
  BY <1>1, <1>2, FrontAndLast
<1>4. Front(more) = s
  BY <1>3, SeqEqual
<1> QED
  BY <1>2, <1>3, <1>4 DEF more

(* An append that is cut short leaves the old value or the new one; one    *)
(* that follows a line without a newline undoes it.                        *)
LEMMA TearImplements ==
  ASSUME IInv, TearAppend, IInv'
  PROVE  Stored!Next
<1>1. PICK kind \in {"torn", "open"} : journal' = Appended(kind)
  BY DEF TearAppend
<1>2. /\ pc = "save" /\ doc # None /\ doc' = doc /\ mem' = None /\ doc \in Documents
      /\ mem \in States /\ seq \in Nat /\ known \in States
      /\ journal \in Seq(Lines) /\ ShapeOf(journal)
      /\ journal' \in Seq(Lines)
  BY DEF TearAppend, Die, IInv, TypeInv, Place, Working
<1>3. Spoilt(journal') <=> Spoilt(journal)
  BY <1>1, <1>2, AppendedIs
<1>4. CASE Spoilt(journal)
  <2>1. /\ ValueOf(doc, journal) = None /\ ValueOf(doc, Whole(journal)) = None
        /\ ~Reading(doc, journal).ok
    BY <1>2, <1>4, SpoiltIsRefused
  <2>2. /\ ValueOf(doc', journal') = None /\ ValueOf(doc', Whole(journal')) = None
        /\ ~Reading(doc', journal').ok
    BY <1>2, <1>3, <1>4, SpoiltIsRefused
  <2>3. Stored!Stop
    BY <1>2, <2>1, <2>2, SeenNow, SeenNext DEF Stored!Stop, Stored!stored
  <2> QED
    BY <2>3 DEF Stored!Next
<1>5. CASE ~Spoilt(journal)
  <2>1. Fits(Reading(doc, journal), pc, mem, seq, known, stopping)
    BY <1>2, <1>5 DEF IInv, Agreement
  <2>2. /\ Reading(doc, journal).ok
        /\ \/ Covers(Reading(doc, journal), mem, seq, known)
           \/ Gives(Reading(doc, journal), mem, seq + 1)
    BY <1>2, <2>1 DEF Fits
  <2>3. CASE Cut(journal) \/ kind = "torn"
    <3>1. /\ Reading(doc, journal').ok
          /\ Reading(doc, journal') = Reading(doc, Whole(journal))
      BY <1>1, <1>2, <2>2, <2>3, TornReads
    <3>2. Whole(journal') = journal'
      <4> DEFINE lines == IF Cut(journal) THEN Front(journal) ELSE journal
      <4>1. journal' = Append(lines, Torn) /\ lines \in Seq(Lines) /\ Torn \in Lines
        BY <1>1, <1>2, <2>3, CutLast, LinesTyped DEF Appended, Cut
      <4> HIDE DEF lines
      <4>2. Last(Append(lines, Torn)) = Torn
        BY <4>1, FrontOfAppend
      <4>3. Last(journal').kind # "open"
        BY <4>1, <4>2 DEF Torn, Unread
      <4> QED
        BY <4>3 DEF Whole
    <3>3. /\ ValueOf(doc', journal') = ValueOf(doc, Whole(journal))
          /\ ValueOf(doc', Whole(journal')) = ValueOf(doc, Whole(journal))
      BY <1>2, <3>1, <3>2 DEF ValueOf
    <3>4. Stored!StopStoring
      BY <1>2, <2>2, <3>1, <3>3, SeenNow, SeenNext DEF Stored!StopStoring
    <3> QED
      BY <3>4 DEF Stored!Next
  <2>4. CASE ~Cut(journal) /\ kind = "open"
    <3>1. Reading(doc, journal').ok /\ Gives(Reading(doc, journal'), mem, seq + 1)
      BY <1>1, <1>2, <2>2, <2>4, AppendedReads
    <3>2. journal' = Append(journal, Line("open")) /\ Line("open") \in Lines
      BY <1>1, <1>2, <2>4, LinesTyped DEF Appended, Cut
    <3>3. Whole(journal') = journal
      <4>1. /\ Append(journal, Line("open")) # << >>
            /\ Last(Append(journal, Line("open"))) = Line("open")
            /\ Front(Append(journal, Line("open"))) = journal
        BY <1>2, <3>2, FrontOfAppend
      <4>2. Line("open").kind = "open"
        BY DEF Line
      <4> QED
        BY <3>2, <4>1, <4>2 DEF Whole
    <3>4. Whole(journal) = journal
      BY <2>4 DEF Whole, Cut
    <3>5. /\ ValueOf(doc', journal') = mem
          /\ ValueOf(doc', Whole(journal')) = ValueOf(doc, Whole(journal))
      BY <1>2, <3>1, <3>3, <3>4 DEF ValueOf, Gives
    <3>6. Stored!StopStoring
      BY <1>2, <2>2, <3>1, <3>5, SeenNow, SeenNext DEF Stored!StopStoring
    <3> QED
      BY <3>6 DEF Stored!Next
  <2> QED
    BY <2>3, <2>4
<1> QED
  BY <1>4, <1>5

(* When no transfer is begun beside the files of another one, the document *)
(* and the journal are one durable value: whatever step a process stops    *)
(* in, the next one finds what was last stored, or the value that was      *)
(* being stored, or is told that it cannot be read (state.py:342-430).     *)
THEOREM FilesAreOneValue ==
  ASSUME ~Overlaps
  PROVE  Spec => StoresOneValue
<1>1. Init => Stored!Init
  <2> SUFFICES ASSUME Init PROVE Stored!Init
    OBVIOUS
  <2>1. doc = None /\ mem = None
    BY DEF Init
  <2> QED
    BY <2>1, SeenNow DEF Stored!Init, ValueOf
<1>2. ASSUME IInv, [Next]_vars, IInv' PROVE [Stored!Next]_Stored!vars
  <2>1. CASE Resume
    BY <1>2, <2>1, ResumeImplements DEF Stored!Next
  <2>2. CASE Decline \/ Exit \/ Start \/ Mark \/ Save \/ Advance \/ Remember
             \/ Leave \/ Interrupt \/ Crash
    BY <1>2, <2>2, QuietImplements
  <2>3. CASE SaveFirst \/ Compact
    BY <1>2, <2>3, WriteImplements
  <2>4. CASE UnlinkJournal
    BY <1>2, <2>4, UnlinkImplements DEF Stored!Next
  <2>5. CASE ClearDocument \/ ClearJournal
    BY <1>2, <2>5, ClearImplements DEF Stored!Next
  <2>6. CASE AppendEvent
    BY <1>2, <2>6, AppendImplements
  <2>7. CASE TearAppend
    BY <1>2, <2>7, TearImplements
  <2>8. CASE UNCHANGED vars
    <3>1. UNCHANGED files /\ mem' = mem
      BY <2>8 DEF vars
    <3>2. UNCHANGED Stored!stored
      BY <3>1, ValueStays
    <3> QED
      BY <3>1, <3>2 DEF Stored!vars
  <2> QED
    BY <1>2, <2>1, <2>2, <2>3, <2>4, <2>5, <2>6, <2>7, <2>8 DEF Next
<1>3. Spec => []IInv
  BY InvariantHolds
<1> QED
  BY <1>1, <1>2, <1>3, PTL DEF Spec, StoresOneValue, Stored!Spec
=============================================================================
