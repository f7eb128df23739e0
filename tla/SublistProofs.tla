---------------------------- MODULE SublistProofs ----------------------------
(***************************************************************************)
(* What a sublist holds: lemmas about the operator the models use where    *)
(* the programs filter a list.  Facts about every list are proved by       *)
(* induction on its length: the set of the lengths for which they hold     *)
(* contains 0 and the successor of each of its members (Induction), and so *)
(* all of Nat.                                                             *)
(***************************************************************************)
EXTENDS Sublists, Integers, SequenceTheorems, WellFoundedInduction, TLAPS

(* A set of naturals that is not empty has a least element.                *)
LEMMA LeastElement ==
  ASSUME NEW T, T \subseteq Nat, T # {}
  PROVE  \E x \in T : \A y \in T : x <= y
<1>1. IsWellFoundedOn(OpToRel(<, Nat), Nat)
  BY NatLessThanWellFounded
<1>2. PICK x \in T : \A y \in T : <<y, x>> \notin OpToRel(<, Nat)
  BY <1>1, WFMin
<1>3. x \in Nat /\ \A y \in T : y \in Nat /\ ~(y < x)
  BY <1>2 DEF OpToRel
<1> QED
  BY <1>3

(* A set that holds 0 and the successor of each of its naturals holds all  *)
(* of them: induction, with a set in the place of a predicate.             *)
LEMMA Induction ==
  ASSUME NEW S, 0 \in S, \A n \in Nat : n \in S => n + 1 \in S
  PROVE  Nat \subseteq S
<1>1. SUFFICES ASSUME Nat \ S # {} PROVE FALSE
  OBVIOUS
<1>2. PICK x \in Nat \ S : \A y \in Nat \ S : x <= y
  BY <1>1, LeastElement
<1>3. x # 0 /\ x - 1 \in Nat /\ x - 1 \in S
  BY <1>2
<1> QED
  BY <1>2, <1>3

(* The recursion of Sublist, one step: what the first n elements leave.    *)
Kept(s, S, f, n) ==
  IF n = 0 THEN << >>
  ELSE IF s[n] \in S THEN Append(f[n - 1], s[n])
  ELSE f[n - 1]

(* The recursion has a solution, and Sublist is its last value.            *)
LEMMA SublistUnfolds ==
  ASSUME NEW s, Len(s) \in Nat, NEW S
  PROVE  \E f : /\ f = [n \in 0 .. Len(s) |-> Kept(s, S, f, n)]
                /\ Sublist(s, S) = f[Len(s)]
<1> DEFINE Solves(f, m) == f = [n \in 0 .. m |-> Kept(s, S, f, n)]
           Good == {m \in Nat : \E f : Solves(f, m)}
<1>1. 0 \in Good
  <2>1. Solves([n \in 0 .. 0 |-> << >>], 0)
    BY DEF Kept
  <2> QED
    BY <2>1
<1>2. ASSUME NEW m \in Nat, m \in Good PROVE m + 1 \in Good
  <2>1. PICK f : Solves(f, m)
    BY <1>2
  <2> DEFINE g == [n \in 0 .. m + 1 |->
                     IF n <= m THEN f[n] ELSE Kept(s, S, f, m + 1)]
  <2>2. \A n \in 0 .. m + 1 : g[n] = Kept(s, S, g, n)
    <3>1. SUFFICES ASSUME NEW n \in 0 .. m + 1 PROVE g[n] = Kept(s, S, g, n)
      OBVIOUS
    <3>2. n # 0 => n - 1 \in 0 .. m /\ g[n - 1] = f[n - 1]
      OBVIOUS
    <3>3. Kept(s, S, g, n) = Kept(s, S, f, n)
      BY <3>2 DEF Kept
    <3>4. CASE n = m + 1
      BY <3>3, <3>4
    <3>5. CASE n # m + 1
      <4>1. n \in 0 .. m /\ g[n] = f[n]
        BY <3>5
      <4>2. f[n] = Kept(s, S, f, n)
        <5> HIDE DEF g
        <5> QED BY <2>1, <4>1
      <4> QED
        BY <4>1, <4>2, <3>3
    <3> QED
      BY <3>4, <3>5
  <2>3. g = [n \in 0 .. m + 1 |-> g[n]]
    OBVIOUS
  <2>4. Solves(g, m + 1)
    <3> HIDE DEF g
    <3> QED BY <2>2, <2>3
  <2>5. \E h : Solves(h, m + 1)
    <3> HIDE DEF g, Solves
    <3> QED BY <2>4
  <2> QED
    BY <2>5
<1>3. Len(s) \in Good
  <2> HIDE DEF Good
  <2> QED BY <1>1, <1>2, Induction
<1> DEFINE kept == CHOOSE f : Solves(f, Len(s))
<1>4. Solves(kept, Len(s))
  BY <1>3
<1>5. Sublist(s, S) = kept[Len(s)]
  BY DEF Sublist, Kept
<1> QED
  BY <1>4, <1>5

(* The places of a sublist: each of its elements stands in s at a place of *)
(* its own, in the same order, and no element of S is left out.            *)
Places(t, s, S, n, at) ==
  /\ at \in [1 .. Len(t) -> 1 .. n]
  /\ \A k \in 1 .. Len(t) : t[k] = s[at[k]] /\ t[k] \in S
  /\ \A j, k \in 1 .. Len(t) : j <= k => at[j] + (k - j) <= at[k]
  /\ \A m \in 1 .. n : s[m] \in S => \E k \in 1 .. Len(t) : at[k] = m

(* One more element of s that belongs to S takes one more place.           *)
LEMMA PlacesAppend ==
  ASSUME NEW T, NEW t \in Seq(T), NEW s \in Seq(T), NEW S, NEW n \in Nat, NEW at,
         Places(t, s, S, n, at), s[n + 1] \in S, s[n + 1] \in T
  PROVE  \E to : Places(Append(t, s[n + 1]), s, S, n + 1, to)
<1> DEFINE u == Append(t, s[n + 1])
           to == [k \in 1 .. Len(t) + 1 |-> IF k <= Len(t) THEN at[k] ELSE n + 1]
<1>1. /\ Len(t) \in Nat /\ Len(u) = Len(t) + 1
      /\ \A k \in 1 .. Len(t) : u[k] = t[k]
      /\ u[Len(t) + 1] = s[n + 1]
  OBVIOUS
<1> HIDE DEF u
<1>a. \A k \in 1 .. Len(t) : at[k] \in 1 .. n
  BY DEF Places
<1>b. \A k \in 1 .. Len(t) : to[k] = at[k]
  BY <1>1
<1>c. to[Len(t) + 1] = n + 1
  BY <1>1
<1>d. DOMAIN to = 1 .. Len(u) /\ to = [k \in 1 .. Len(u) |-> to[k]]
  BY <1>1
<1> HIDE DEF to
<1>2. /\ \A k \in 1 .. Len(t) : to[k] = at[k] /\ at[k] \in 1 .. n
      /\ to[Len(t) + 1] = n + 1
  BY <1>a, <1>b, <1>c
<1>e. \A k \in 1 .. Len(u) : to[k] \in 1 .. n + 1
  BY <1>1, <1>2
<1>3. to \in [1 .. Len(u) -> 1 .. n + 1]
  BY <1>d, <1>e
<1>4. \A k \in 1 .. Len(u) : u[k] = s[to[k]] /\ u[k] \in S
  <2>1. \A k \in 1 .. Len(t) : u[k] = s[to[k]] /\ u[k] \in S
    BY <1>1, <1>2 DEF Places
  <2> QED
    BY <2>1, <1>1, <1>2
<1>5. ASSUME NEW j \in 1 .. Len(u), NEW k \in 1 .. Len(u), j <= k
      PROVE  to[j] + (k - j) <= to[k]
  <2>1. CASE k <= Len(t)
    BY <1>1, <1>2, <1>5, <2>1 DEF Places
  <2>2. CASE k = Len(t) + 1 /\ j = Len(t) + 1
    BY <1>1, <1>2, <2>2
  <2>3. CASE k = Len(t) + 1 /\ j <= Len(t)
    <3>1. at[j] + (Len(t) - j) <= at[Len(t)]
      BY <1>1, <2>3 DEF Places
    <3>2. at[Len(t)] \in 1 .. n /\ at[j] \in 1 .. n
      BY <1>1, <1>2, <2>3
    <3> QED
      BY <3>1, <3>2, <1>1, <1>2, <2>3
  <2> QED
    BY <2>1, <2>2, <2>3, <1>1, <1>5
<1>6. ASSUME NEW m \in 1 .. n + 1, s[m] \in S
      PROVE  \E k \in 1 .. Len(u) : to[k] = m
  <2>1. CASE m = n + 1
    BY <1>1, <1>2, <2>1
  <2>2. CASE m # n + 1
    <3>1. PICK k \in 1 .. Len(t) : at[k] = m
      BY <1>6, <2>2 DEF Places
    <3> QED
      BY <3>1, <1>1, <1>2
  <2> QED
    BY <2>1, <2>2
<1>7. Places(u, s, S, n + 1, to)
  BY <1>3, <1>4, <1>5, <1>6 DEF Places
<1> QED
  BY <1>7 DEF u

(* An element of s that does not belong to S takes none.                   *)
LEMMA PlacesSkip ==
  ASSUME NEW T, NEW t \in Seq(T), NEW s, NEW S, NEW n \in Nat, NEW at,
         Places(t, s, S, n, at), s[n + 1] \notin S
  PROVE  Places(t, s, S, n + 1, at)
<1>1. at \in [1 .. Len(t) -> 1 .. n + 1]
  <2>1. at \in [1 .. Len(t) -> 1 .. n] /\ 1 .. n \subseteq 1 .. n + 1
    BY DEF Places
  <2> QED
    BY <2>1
<1>2. ASSUME NEW m \in 1 .. n + 1, s[m] \in S PROVE \E k \in 1 .. Len(t) : at[k] = m
  <2>1. m \in 1 .. n
    BY <1>2
  <2> QED
    BY <1>2, <2>1 DEF Places
<1>3. /\ \A k \in 1 .. Len(t) : t[k] = s[at[k]] /\ t[k] \in S
      /\ \A j, k \in 1 .. Len(t) : j <= k => at[j] + (k - j) <= at[k]
  BY DEF Places
<1> QED
  BY <1>1, <1>2, <1>3 DEF Places

(* A sublist is a list of elements of s, and it has its places in s.       *)
LEMMA SublistPlaces ==
  ASSUME NEW T, NEW s \in Seq(T), NEW S
  PROVE  /\ Sublist(s, S) \in Seq(T)
         /\ \E at : Places(Sublist(s, S), s, S, Len(s), at)
<1>1. PICK f : /\ f = [n \in 0 .. Len(s) |-> Kept(s, S, f, n)]
               /\ Sublist(s, S) = f[Len(s)]
  BY SublistUnfolds
<1> DEFINE Good == {n \in Nat : n <= Len(s) =>
                      f[n] \in Seq(T) /\ \E at : Places(f[n], s, S, n, at)}
<1>2. 0 \in Good
  <2>1. f[0] = << >>
    BY <1>1 DEF Kept
  <2>2. Places(<< >>, s, S, 0, << >>)
    BY DEF Places
  <2>3. f[0] \in Seq(T) /\ \E at : Places(f[0], s, S, 0, at)
    BY <2>1, <2>2
  <2> QED
    BY <2>3
<1>3. ASSUME NEW n \in Nat, n \in Good PROVE n + 1 \in Good
  <2>1. SUFFICES ASSUME n + 1 <= Len(s)
        PROVE  f[n + 1] \in Seq(T) /\ \E at : Places(f[n + 1], s, S, n + 1, at)
    OBVIOUS
  <2>2. f[n] \in Seq(T)
    BY <1>3, <2>1
  <2>3. PICK at : Places(f[n], s, S, n, at)
    BY <1>3, <2>1
  <2>4. f[n + 1] = IF s[n + 1] \in S THEN Append(f[n], s[n + 1]) ELSE f[n]
    <3>1. n + 1 \in 0 .. Len(s) /\ n + 1 # 0 /\ (n + 1) - 1 = n
      BY <2>1
    <3>2. f[n + 1] = Kept(s, S, f, n + 1)
      BY <1>1, <3>1
    <3> QED
      BY <3>1, <3>2 DEF Kept
  <2>5. s[n + 1] \in T
    BY <2>1
  <2>6. CASE s[n + 1] \in S
    <3>1. \E to : Places(Append(f[n], s[n + 1]), s, S, n + 1, to)
      BY <2>2, <2>3, <2>5, <2>6, PlacesAppend
    <3>2. f[n + 1] = Append(f[n], s[n + 1]) /\ f[n + 1] \in Seq(T)
      BY <2>2, <2>4, <2>5, <2>6
    <3> QED
      BY <3>1, <3>2
  <2>7. CASE s[n + 1] \notin S
    <3>1. Places(f[n], s, S, n + 1, at)
      BY <2>2, <2>3, <2>7, PlacesSkip
    <3> QED
      BY <3>1, <2>2, <2>4, <2>7
  <2> QED
    BY <2>6, <2>7
<1>4. Len(s) \in Good
  <2> HIDE DEF Good
  <2> QED BY <1>2, <1>3, Induction
<1> QED
  BY <1>1, <1>4

(* What a sublist holds: the elements of s that belong to S, all of them.  *)
LEMMA SublistHolds ==
  ASSUME NEW T, NEW s \in Seq(T), NEW S
  PROVE  /\ Len(Sublist(s, S)) \in Nat
         /\ \A k \in 1 .. Len(Sublist(s, S)) :
              Sublist(s, S)[k] \in S /\ \E m \in 1 .. Len(s) : Sublist(s, S)[k] = s[m]
         /\ \A m \in 1 .. Len(s) :
              s[m] \in S => \E k \in 1 .. Len(Sublist(s, S)) : Sublist(s, S)[k] = s[m]
<1> DEFINE t == Sublist(s, S)
<1>1. t \in Seq(T)
  BY SublistPlaces
<1>2. PICK at : Places(t, s, S, Len(s), at)
  BY SublistPlaces
<1> HIDE DEF t
<1>3. \A k \in 1 .. Len(t) : at[k] \in 1 .. Len(s) /\ t[k] = s[at[k]] /\ t[k] \in S
  BY <1>2 DEF Places
<1>4. ASSUME NEW m \in 1 .. Len(s), s[m] \in S
      PROVE  \E k \in 1 .. Len(t) : t[k] = s[m]
  <2>1. PICK k \in 1 .. Len(t) : at[k] = m
    BY <1>2, <1>4 DEF Places
  <2> QED
    BY <2>1, <1>3
<1>5. Len(t) \in Nat
  BY <1>1
<1>6. \A k \in 1 .. Len(t) : t[k] \in S /\ \E m \in 1 .. Len(s) : t[k] = s[m]
  BY <1>3
<1> QED
  BY <1>4, <1>5, <1>6 DEF t

(* What holds of the empty list and of every extension of a list it holds  *)
(* of, holds of every list.                                                *)
LEMMA SequenceInduction ==
  ASSUME NEW T, NEW P, << >> \in P,
         \A s \in Seq(T) : s \in P => \A e \in T : Append(s, e) \in P
  PROVE  Seq(T) \subseteq P
<1> DEFINE Good == {n \in Nat : \A s \in Seq(T) : Len(s) = n => s \in P}
<1>1. 0 \in Good
  <2>1. \A s \in Seq(T) : Len(s) = 0 => s = << >>
    OBVIOUS
  <2> QED
    BY <2>1
<1>2. ASSUME NEW n \in Nat, n \in Good PROVE n + 1 \in Good
  <2>1. ASSUME NEW s \in Seq(T), Len(s) = n + 1 PROVE s \in P
    <3> DEFINE t == SubSeq(s, 1, n)
    <3>1. /\ 1 \in Int /\ n \in Int /\ \A i \in 1 .. n : s[i] \in T
          /\ (1 <= n => n - 1 + 1 = n) /\ (~(1 <= n) => n = 0) /\ n - 1 + 1 = n
      BY <2>1
    <3>2. /\ t \in Seq(T)
          /\ Len(t) = IF 1 <= n THEN n - 1 + 1 ELSE 0
          /\ \A i \in 1 .. n - 1 + 1 : t[i] = s[1 + i - 1]
      BY <3>1, SubSeqProperties
    <3> HIDE DEF t
    <3>3. Len(t) = n /\ \A i \in 1 .. n : t[i] = s[i]
      BY <3>1, <3>2
    <3>4. s[n + 1] \in T /\ s = Append(t, s[n + 1])
      BY <2>1, <3>2, <3>3
    <3>5. t \in P
      BY <1>2, <3>2, <3>3
    <3> QED
      BY <3>2, <3>4, <3>5
  <2>2. n + 1 \in Nat
    OBVIOUS
  <2> QED
    BY <2>1, <2>2
<1>3. Nat \subseteq Good
  <2> HIDE DEF Good
  <2> QED
    BY <1>1, <1>2, Induction
<1> QED
  BY <1>3

(* Nothing is left of the empty list.                                      *)
LEMMA SublistOfEmpty ==
  ASSUME NEW S
  PROVE  Sublist(<< >>, S) = << >>
<1>1. Len(<< >>) = 0
  OBVIOUS
<1>2. PICK f : /\ f = [n \in 0 .. Len(<< >>) |-> Kept(<< >>, S, f, n)]
               /\ Sublist(<< >>, S) = f[Len(<< >>)]
  BY <1>1, SublistUnfolds
<1> QED
  BY <1>1, <1>2 DEF Kept

(* One more element is kept or left out.                                   *)
LEMMA SublistOfAppend ==
  ASSUME NEW T, NEW s \in Seq(T), NEW e \in T, NEW S
  PROVE  Sublist(Append(s, e), S)
           = IF e \in S THEN Append(Sublist(s, S), e) ELSE Sublist(s, S)
<1> DEFINE u == Append(s, e)
<1>1. /\ Len(s) \in Nat /\ Len(u) = Len(s) + 1 /\ u[Len(s) + 1] = e
      /\ \A i \in 1 .. Len(s) : u[i] = s[i]
  OBVIOUS
<1> HIDE DEF u
<1>2. PICK f : /\ f = [n \in 0 .. Len(s) |-> Kept(s, S, f, n)]
               /\ Sublist(s, S) = f[Len(s)]
  BY <1>1, SublistUnfolds
<1>3. PICK g : /\ g = [n \in 0 .. Len(u) |-> Kept(u, S, g, n)]
               /\ Sublist(u, S) = g[Len(u)]
  BY <1>1, SublistUnfolds
<1> DEFINE Good == {n \in Nat : n <= Len(s) => g[n] = f[n]}
<1>4. 0 \in Good
  <2>1. f[0] = << >> /\ g[0] = << >>
    BY <1>1, <1>2, <1>3 DEF Kept
  <2> QED
    BY <2>1
<1>5. ASSUME NEW n \in Nat, n \in Good PROVE n + 1 \in Good
  <2>1. SUFFICES ASSUME n + 1 <= Len(s) PROVE g[n + 1] = f[n + 1]
    OBVIOUS
  <2>2. /\ n + 1 \in 0 .. Len(s) /\ n + 1 \in 0 .. Len(u) /\ n + 1 # 0
        /\ n + 1 \in 1 .. Len(s) /\ (n + 1) - 1 = n
    BY <1>1, <2>1
  <2>3. f[n + 1] = Kept(s, S, f, n + 1) /\ g[n + 1] = Kept(u, S, g, n + 1)
    BY <1>2, <1>3, <2>2
  <2>4. g[n] = f[n] /\ u[n + 1] = s[n + 1]
    BY <1>1, <1>5, <2>1, <2>2
  <2> QED
    BY <2>2, <2>3, <2>4 DEF Kept
<1>6. Len(s) \in Good
  <2> HIDE DEF Good
  <2> QED
    BY <1>1, <1>4, <1>5, Induction
<1>7. g[Len(s)] = f[Len(s)]
  BY <1>6
<1>8. g[Len(u)] = IF e \in S THEN Append(g[Len(s)], e) ELSE g[Len(s)]
  <2>1. Len(u) \in 0 .. Len(u) /\ Len(u) # 0 /\ Len(u) - 1 = Len(s) /\ u[Len(u)] = e
    BY <1>1
  <2>2. g[Len(u)] = Kept(u, S, g, Len(u))
    BY <1>3, <2>1
  <2> QED
    BY <2>1, <2>2 DEF Kept
<1> QED
  BY <1>2, <1>3, <1>7, <1>8 DEF u

(* What is left of two lists, one after the other.                         *)
LEMMA SublistOfConcat ==
  ASSUME NEW T, NEW s \in Seq(T), NEW t \in Seq(T), NEW S
  PROVE  Sublist(s \o t, S) = Sublist(s, S) \o Sublist(t, S)
<1> DEFINE P == {v \in Seq(T) : Sublist(s \o v, S) = Sublist(s, S) \o Sublist(v, S)}
<1>1. << >> \in P
  <2>1. Sublist(s, S) \in Seq(T) /\ << >> \in Seq(T)
    BY SublistPlaces
  <2>2. s \o << >> = s /\ Sublist(s, S) \o << >> = Sublist(s, S)
    BY <2>1, ConcatEmptySeq
  <2> QED
    BY <2>1, <2>2, SublistOfEmpty
<1>2. ASSUME NEW v \in Seq(T), v \in P, NEW e \in T PROVE Append(v, e) \in P
  <2>1. s \o v \in Seq(T) /\ Append(v, e) \in Seq(T)
    BY ConcatProperties
  <2>2. s \o Append(v, e) = Append(s \o v, e)
    BY <2>1, AppendIsConcat, ConcatAssociative
  <2>3. Sublist(s, S) \in Seq(T) /\ Sublist(v, S) \in Seq(T)
    BY SublistPlaces
  <2>4. Sublist(s, S) \o Append(Sublist(v, S), e) = Append(Sublist(s, S) \o Sublist(v, S), e)
    <3> DEFINE a == Sublist(s, S)
               b == Sublist(v, S)
    <3> HIDE DEF a, b
    <3>1. a \in Seq(T) /\ b \in Seq(T) /\ a \o b \in Seq(T) /\ <<e>> \in Seq(T)
      BY <2>3, ConcatProperties DEF a, b
    <3>2. a \o Append(b, e) = Append(a \o b, e)
      BY <3>1, AppendIsConcat, ConcatAssociative
    <3> QED
      BY <3>2 DEF a, b
  <2>5. Sublist(s \o v, S) = Sublist(s, S) \o Sublist(v, S)
    BY <1>2
  <2>6. Sublist(Append(s \o v, e), S)
          = IF e \in S THEN Append(Sublist(s \o v, S), e) ELSE Sublist(s \o v, S)
    BY <2>1, SublistOfAppend
  <2>7. Sublist(Append(v, e), S)
          = IF e \in S THEN Append(Sublist(v, S), e) ELSE Sublist(v, S)
    BY SublistOfAppend
  <2> QED
    BY <2>1, <2>2, <2>4, <2>5, <2>6, <2>7
<1>3. Seq(T) \subseteq P
  <2> HIDE DEF P
  <2> QED
    BY <1>1, <1>2, SequenceInduction
<1> QED
  BY <1>3

(* A list of elements of S is left as it is.                               *)
LEMMA SublistOfAll ==
  ASSUME NEW T, NEW s \in Seq(T), NEW S, \A i \in 1 .. Len(s) : s[i] \in S
  PROVE  Sublist(s, S) = s
<1> DEFINE P == {v \in Seq(T) : (\A i \in 1 .. Len(v) : v[i] \in S) => Sublist(v, S) = v}
<1>1. << >> \in P
  BY SublistOfEmpty
<1>2. ASSUME NEW v \in Seq(T), v \in P, NEW e \in T PROVE Append(v, e) \in P
  <2>1. SUFFICES ASSUME \A i \in 1 .. Len(Append(v, e)) : Append(v, e)[i] \in S
                 PROVE  Sublist(Append(v, e), S) = Append(v, e)
    <3>1. Append(v, e) \in Seq(T)
      BY AppendProperties
    <3> QED
      BY <3>1
  <2>2. e \in S /\ \A i \in 1 .. Len(v) : v[i] \in S
    <3> DEFINE u == Append(v, e)
    <3>1. /\ Len(v) \in Nat /\ Len(u) = Len(v) + 1 /\ u[Len(v) + 1] = e
          /\ \A i \in 1 .. Len(v) : u[i] = v[i]
      OBVIOUS
    <3>2. \A i \in 1 .. Len(u) : u[i] \in S
      BY <2>1
    <3> HIDE DEF u
    <3> QED
      BY <3>1, <3>2
  <2> QED
    BY <1>2, <2>2, SublistOfAppend
<1>3. Seq(T) \subseteq P
  <2> HIDE DEF P
  <2> QED
    BY <1>1, <1>2, SequenceInduction
<1> QED
  BY <1>3
=============================================================================
