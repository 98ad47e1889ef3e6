------------------------------ MODULE AvfsProofs ------------------------------
(***************************************************************************)
(* The theorems of Avfs, for every size of the storage and of the table    *)
(* and any paths, buffers and sizes: the bitmap, the tree, rm -r, and the  *)
(* refinement of FileStore.  What a path leads to is defined by a          *)
(* recursive function of the table; the lemmas take its unfolding and      *)
(* argue by the shortest path for which a claim would fail.                *)
(***************************************************************************)
EXTENDS Avfs, FiniteSetTheorems, SequenceTheorems, WellFoundedInduction, TLAPS

-----------------------------------------------------------------------------
(* Numbers and sequences.                                                  *)

\* The least number of a kind, instead of an induction.
LEMMA Least ==
  ASSUME NEW S \in SUBSET Nat, S # {}
  PROVE  \E m \in S : \A x \in S : m <= x
<1>1. PICK m \in S : \A e \in S : ~(<<e, m>> \in OpToRel(<, Nat))
  <2>1. S \subseteq Nat
    OBVIOUS
  <2>. QED  BY <2>1, NatLessThanWellFounded, WFMin, Zenon
<1>2. ASSUME NEW x \in S PROVE m <= x
  <2>1. x \in Nat /\ m \in Nat
    OBVIOUS
  <2>2. ~(x < m)
    BY <1>1, <2>1 DEF OpToRel
  <2>. QED  BY <2>1, <2>2
<1>. QED  BY <1>2

LEMMA MinIs ==
  ASSUME NEW S \in SUBSET Nat, S # {}
  PROVE  Min(S) \in S /\ \A x \in S : Min(S) <= x
BY Least DEF Min

\* A path without its last name, and with it again.
LEMMA PathParts ==
  ASSUME NEW S, NEW p \in Seq(S), p # << >>
  PROVE  /\ Front(p) \in Seq(S) /\ Len(Front(p)) = Len(p) - 1 /\ Len(p) \in Nat \ {0}
         /\ \A k \in 1 .. Len(p) - 1 : Front(p)[k] = p[k]
         /\ Last(p) = p[Len(p)] /\ Last(p) \in S
<1>1. Len(p) \in Nat \ {0}
  BY EmptySeq
<1>2. /\ SubSeq(p, 1, Len(p) - 1) \in Seq(S) /\ Len(SubSeq(p, 1, Len(p) - 1)) = Len(p) - 1
      /\ \A k \in 1 .. Len(p) - 1 : SubSeq(p, 1, Len(p) - 1)[k] = p[k]
  <2>. DEFINE n == Len(p) - 1
              s == SubSeq(p, 1, n)
  <2>1. n \in Nat /\ \A i \in 1 .. n : p[i] \in S
    BY <1>1, ElementOfSeq
  <2>. HIDE DEF n
  <2>2. /\ s \in Seq(S) /\ Len(s) = IF 1 <= n THEN n - 1 + 1 ELSE 0
        /\ \A i \in 1 .. n - 1 + 1 : s[i] = p[1 + i - 1]
    BY <2>1, SubSeqProperties
  <2>. HIDE DEF s
  <2>3. Len(s) = n /\ \A i \in 1 .. n : s[i] = p[i]
    BY <2>1, <2>2
  <2>. QED  BY <2>2, <2>3 DEF n, s
<1>3. p[Len(p)] \in S
  BY <1>1, ElementOfSeq
<1>. QED  BY <1>1, <1>2, <1>3 DEF Front, Last

-----------------------------------------------------------------------------
(* Paths.  The operators below are those of Avfs for any table, so that    *)
(* they can be taken of the table before and after a call.                 *)

Text    == STRING \cup {"", "/"}
Entries == [used : BOOLEAN, type : {"file", "dir"}, name : Text,
            parent : Indices \cup {-1}, size : Nat, start : Nat]
Table   == [Indices -> Entries]

Named(t, parent, name) == {j \in Indices : t[j].used /\ t[j].parent = parent /\ t[j].name = name}
ChildIn(t, parent, name) ==
  IF parent = -1 \/ Named(t, parent, name) = {} THEN -1 ELSE Min(Named(t, parent, name))

Walk(t, path) ==
  CHOOSE after : after = [k \in 0 .. Len(path) |->
    IF k = 0 THEN {0} ELSE {ChildIn(t, i, path[k]) : i \in after[k - 1]}]

Found(t, path) == CHOOSE i \in Walk(t, path)[Len(path)] : TRUE

LEMMA FoundIs == \A path : /\ avfs_find_entry(path) = Found(files, path)
                           /\ avfs_find_entry(path)' = Found(files', path)
BY Zenon DEF avfs_find_entry, Found, Walk, Child, ChildIn, Named

\* The walk is what its definition says.
LEMMA WalkIs ==
  ASSUME NEW t, NEW path, Len(path) \in Nat
  PROVE  /\ Walk(t, path)[0] = {0}
         /\ \A k \in 1 .. Len(path) :
              Walk(t, path)[k] = {ChildIn(t, i, path[k]) : i \in Walk(t, path)[k - 1]}
<1>. DEFINE F(n, g) == [k \in 0 .. n |->
              IF k = 0 THEN {0} ELSE {ChildIn(t, i, path[k]) : i \in g[k - 1]}]
            Bad == {n \in Nat : ~\E g : g = F(n, g)}
<1>1. Bad = {}
  <2>. SUFFICES ASSUME Bad # {} PROVE FALSE
    OBVIOUS
  <2>1. PICK n \in Bad : \A x \in Bad : n <= x
    BY Least
  <2>2. CASE n = 0
    <3>. DEFINE g == [k \in 0 .. 0 |-> {0}]
    <3>1. g = F(0, g)
      OBVIOUS
    <3>. HIDE DEF g, F
    <3>2. \E x : x = F(n, x)
      BY <2>2, <3>1
    <3>. QED  BY <2>1, <3>2, Zenon
  <2>3. CASE n # 0
    <3>1. n - 1 \in Nat /\ n - 1 \notin Bad
      <4>1. n \in Nat
        BY <2>1
      <4>. HIDE DEF Bad
      <4>. QED  BY <2>1, <2>3, <4>1
    <3>2. PICK g : g = F(n - 1, g)
      BY <3>1
    <3>. DEFINE h == [k \in 0 .. n |->
                  IF k < n THEN g[k] ELSE {ChildIn(t, i, path[n]) : i \in g[n - 1]}]
    <3>3. ASSUME NEW k \in 0 .. n
          PROVE  h[k] = IF k = 0 THEN {0} ELSE {ChildIn(t, i, path[k]) : i \in h[k - 1]}
      <4>1. CASE k = 0
        <5>1. h[0] = g[0] /\ g[0] = {0}
          BY <2>3, <3>1, <3>2
        <5>. QED  BY <4>1, <5>1
      <4>2. CASE k # 0 /\ k < n
        <5>1. h[k] = g[k] /\ h[k - 1] = g[k - 1] /\ k \in 0 .. n - 1
          BY <4>2, <3>1
        <5>2. g[k] = {ChildIn(t, i, path[k]) : i \in g[k - 1]}
          BY <3>2, <4>2, <5>1
        <5>. QED  BY <4>2, <5>1, <5>2
      <4>3. CASE k # 0 /\ k = n
        <5>1. h[k - 1] = g[n - 1]
          BY <4>3, <3>1
        <5>2. h[k] = {ChildIn(t, i, path[n]) : i \in g[n - 1]}
          BY <4>3
        <5>. QED  BY <4>3, <5>1, <5>2
      <4>. QED  BY <4>1, <4>2, <4>3, <3>1
    <3>4. h = F(n, h)
      BY <3>3
    <3>. QED  BY <2>1, <3>4
  <2>. QED  BY <2>2, <2>3
<1>2. PICK g : g = F(Len(path), g)
  BY <1>1
<1>3. Walk(t, path) = CHOOSE a : a = F(Len(path), a)
  BY Zenon DEF Walk
<1>. HIDE DEF F
<1>4. Walk(t, path) = F(Len(path), Walk(t, path))
  BY <1>2, <1>3
<1>. DEFINE w == Walk(t, path)
<1>5. w = F(Len(path), w)
  BY <1>4
<1>. HIDE DEF w
<1>6. w[0] = {0}
  BY <1>5 DEF F
<1>7. ASSUME NEW k \in 1 .. Len(path)
      PROVE  w[k] = {ChildIn(t, i, path[k]) : i \in w[k - 1]}
  <2>1. k \in 0 .. Len(path) /\ k # 0
    OBVIOUS
  <2>2. w[k] = F(Len(path), w)[k]
    BY <1>5
  <2>3. F(Len(path), w)[k] = IF k = 0 THEN {0} ELSE {ChildIn(t, i, path[k]) : i \in w[k - 1]}
    BY <2>1 DEF F
  <2>. QED  BY <2>1, <2>2, <2>3
<1>. QED  BY <1>6, <1>7 DEF w

\* The entry reached by the first k names.
At(t, path, k) == CHOOSE i \in Walk(t, path)[k] : TRUE

LEMMA AtIs ==
  ASSUME NEW t, NEW path, Len(path) \in Nat
  PROVE  /\ At(t, path, 0) = 0 /\ Found(t, path) = At(t, path, Len(path))
         /\ \A k \in 1 .. Len(path) : At(t, path, k) = ChildIn(t, At(t, path, k - 1), path[k])
<1>. DEFINE w == Walk(t, path)
            Bad == {k \in 0 .. Len(path) : ~\E i : w[k] = {i}}
<1>1. /\ w[0] = {0}
      /\ \A k \in 1 .. Len(path) : w[k] = {ChildIn(t, i, path[k]) : i \in w[k - 1]}
  BY WalkIs
<1>. HIDE DEF w
<1>2. ASSUME NEW k \in 1 .. Len(path), NEW i, w[k - 1] = {i}
      PROVE  w[k] = {ChildIn(t, i, path[k])}
  BY <1>1, <1>2
<1>3. Bad = {}
  <2>. SUFFICES ASSUME Bad # {} PROVE FALSE
    OBVIOUS
  <2>1. Bad \in SUBSET Nat
    OBVIOUS
  <2>2. PICK k \in Bad : \A x \in Bad : k <= x
    BY <2>1, Least
  <2>3. k \in 0 .. Len(path) /\ ~\E i : w[k] = {i}
    BY <2>2
  <2>4. k # 0
    BY <1>1, <2>3
  <2>5. k - 1 \in 0 .. Len(path) /\ k \in 1 .. Len(path)
    BY <2>3, <2>4
  <2>6. k - 1 \notin Bad
    <3>. HIDE DEF Bad
    <3>. QED  BY <2>2, <2>3
  <2>7. PICK i : w[k - 1] = {i}
    BY <2>5, <2>6
  <2>. QED  BY <1>2, <2>3, <2>5, <2>7
<1>4. ASSUME NEW k \in 1 .. Len(path)
      PROVE  At(t, path, k) = ChildIn(t, At(t, path, k - 1), path[k])
  <2>1. k - 1 \in 0 .. Len(path)
    OBVIOUS
  <2>2. PICK i : w[k - 1] = {i}
    BY <1>3, <2>1
  <2>3. w[k] = {ChildIn(t, i, path[k])}
    BY <1>2, <2>2
  <2>4. \A x : (CHOOSE y \in {x} : TRUE) = x
    OBVIOUS
  <2>. QED  BY <2>2, <2>3, <2>4, Zenon DEF At, w
<1>5. At(t, path, 0) = 0
  <2>1. \A x : (CHOOSE y \in {x} : TRUE) = x
    OBVIOUS
  <2>. QED  BY <1>1, <2>1, Zenon DEF At, w
<1>6. Found(t, path) = At(t, path, Len(path))
  BY Zenon DEF Found, At
<1>. QED  BY <1>4, <1>5, <1>6

\* No name leads to the root, and a name more to a child.
LEMMA FoundRoot == ASSUME NEW t PROVE Found(t, << >>) = 0
BY AtIs

LEMMA FoundStep ==
  ASSUME NEW t, NEW S, NEW p \in Seq(S), p # << >>
  PROVE  Found(t, p) = ChildIn(t, Found(t, Front(p)), Last(p))
<1>. DEFINE n == Len(p) - 1
            Bad == {k \in 0 .. n : At(t, Front(p), k) # At(t, p, k)}
<1>1. /\ Len(Front(p)) = n /\ Len(p) = n + 1 /\ n \in Nat /\ Last(p) = p[n + 1]
      /\ \A k \in 1 .. n : Front(p)[k] = p[k]
  BY PathParts
<1>. HIDE DEF n
<1>2. /\ At(t, p, 0) = 0 /\ Found(t, p) = At(t, p, n + 1)
      /\ \A k \in 1 .. n + 1 : At(t, p, k) = ChildIn(t, At(t, p, k - 1), p[k])
  <2>1. Len(p) \in Nat
    OBVIOUS
  <2>2. /\ At(t, p, 0) = 0 /\ Found(t, p) = At(t, p, Len(p))
        /\ \A k \in 1 .. Len(p) : At(t, p, k) = ChildIn(t, At(t, p, k - 1), p[k])
    BY <2>1, AtIs, Zenon
  <2>3. Len(p) = n + 1
    BY <1>1
  <2>. QED  BY <2>2, <2>3, Zenon
<1>3. /\ At(t, Front(p), 0) = 0 /\ Found(t, Front(p)) = At(t, Front(p), n)
      /\ \A k \in 1 .. n : At(t, Front(p), k) = ChildIn(t, At(t, Front(p), k - 1), p[k])
  <2>. DEFINE q == Front(p)
  <2>1. Len(q) \in Nat /\ Len(q) = n /\ \A k \in 1 .. n : q[k] = p[k]
    BY <1>1
  <2>. HIDE DEF q
  <2>2. /\ At(t, q, 0) = 0 /\ Found(t, q) = At(t, q, Len(q))
        /\ \A k \in 1 .. Len(q) : At(t, q, k) = ChildIn(t, At(t, q, k - 1), q[k])
    BY <2>1, AtIs, Zenon
  <2>3. /\ At(t, q, 0) = 0 /\ Found(t, q) = At(t, q, n)
        /\ \A k \in 1 .. n : At(t, q, k) = ChildIn(t, At(t, q, k - 1), p[k])
    BY <2>1, <2>2, Zenon
  <2>. QED  BY <2>3 DEF q
<1>4. Bad = {}
  <2>. SUFFICES ASSUME Bad # {} PROVE FALSE
    OBVIOUS
  <2>1. Bad \in SUBSET Nat
    OBVIOUS
  <2>2. PICK k \in Bad : \A x \in Bad : k <= x
    BY <2>1, Least
  <2>3. k \in 0 .. n /\ At(t, Front(p), k) # At(t, p, k)
    BY <2>2
  <2>4. k \in 1 .. n /\ k \in 1 .. n + 1 /\ k - 1 \in 0 .. n
    BY <1>1, <1>2, <1>3, <2>3
  <2>5. k - 1 \notin Bad
    <3>. HIDE DEF Bad
    <3>. QED  BY <2>2, <2>3
  <2>6. At(t, Front(p), k - 1) = At(t, p, k - 1)
    BY <2>4, <2>5
  <2>. QED  BY <1>2, <1>3, <2>3, <2>4, <2>6
<1>5. At(t, Front(p), n) = At(t, p, n)
  BY <1>1, <1>4
<1>6. At(t, p, n + 1) = ChildIn(t, At(t, p, n), p[n + 1])
  <2>1. n + 1 \in 1 .. n + 1 /\ (n + 1) - 1 = n
    BY <1>1
  <2>. QED  BY <1>2, <2>1
<1>. QED  BY <1>1, <1>2, <1>3, <1>5, <1>6

\* What is found is in use.
InUse(t) == {i \in Indices : t[i].used}

LEMMA ChildIs ==
  ASSUME NEW t, NEW i, NEW name, ChildIn(t, i, name) # -1
  PROVE  /\ ChildIn(t, i, name) \in InUse(t) /\ i # -1
         /\ t[ChildIn(t, i, name)].parent = i /\ t[ChildIn(t, i, name)].name = name
<1>1. ChildIn(t, i, name) = Min(Named(t, i, name)) /\ Named(t, i, name) # {} /\ i # -1
  BY DEF ChildIn
<1>2. Named(t, i, name) \in SUBSET Nat
  BY AvfsConstants DEF Named, Indices
<1>3. Min(Named(t, i, name)) \in Named(t, i, name)
  BY <1>1, <1>2, MinIs
<1>. QED  BY <1>1, <1>3 DEF Named, InUse

LEMMA FoundIn ==
  ASSUME NEW t, 0 \in InUse(t), NEW S, NEW p \in Seq(S), Found(t, p) # -1
  PROVE  Found(t, p) \in InUse(t)
<1>1. CASE p = << >>
  BY <1>1, FoundRoot
<1>2. CASE p # << >>
  <2>1. Found(t, p) = ChildIn(t, Found(t, Front(p)), Last(p))
    BY <1>2, FoundStep, Zenon
  <2>2. ChildIn(t, Found(t, Front(p)), Last(p)) # -1
    BY <2>1
  <2>3. ChildIn(t, Found(t, Front(p)), Last(p)) \in InUse(t)
    BY <2>2, ChildIs
  <2>. QED  BY <2>1, <2>3
<1>. QED  BY <1>1, <1>2

-----------------------------------------------------------------------------
(* normalize_path.                                                         *)

Names == Seq(STRING)
Paths == [abs : BOOLEAN, parts : Names]

LEMMA WalkedIs ==
  ASSUME NEW at \in Names, NEW part \in STRING
  PROVE  Walked(at, part) \in Names
<1>1. CASE part = "."
  BY <1>1 DEF Walked
<1>2. CASE part # "." /\ part = ".."
  BY <1>2, PathParts DEF Walked, Names
<1>3. CASE part # "." /\ part # ".."
  BY <1>3 DEF Walked, Names
<1>. QED  BY <1>1, <1>2, <1>3

LEMMA NormalIs ==
  ASSUME NEW p \in Paths, current_dir \in Names
  PROVE  normalize_path(p) \in Names
<1>. DEFINE d == current_dir
            m == Len(p.parts)
            F(n, g) == [k \in 0 .. n |->
              IF k = 0 THEN IF p.abs THEN << >> ELSE d ELSE Walked(g[k - 1], p.parts[k])]
            Bad == {n \in 0 .. m : ~\E g : g = F(n, g) /\ \A k \in 0 .. n : g[k] \in Names}
<1>0. m \in Nat /\ << >> \in Names /\ \A k \in 1 .. m : p.parts[k] \in STRING
  BY EmptySeq, ElementOfSeq DEF Paths, Names
<1>1. normalize_path(p) = (CHOOSE g : g = F(m, g))[m]
  BY Zenon DEF normalize_path
<1>. HIDE DEF m, d
<1>2. Bad = {}
  <2>. SUFFICES ASSUME Bad # {} PROVE FALSE
    OBVIOUS
  <2>1. PICK n \in Bad : \A x \in Bad : n <= x
    <3>1. Bad \in SUBSET Nat
      BY <1>0
    <3>. QED  BY <3>1, Least
  <2>2. n \in 0 .. m
    BY <2>1
  <2>3. CASE n = 0
    <3>. DEFINE g == [k \in 0 .. 0 |-> IF p.abs THEN << >> ELSE d]
    <3>1. g = F(0, g)
      OBVIOUS
    <3>2. \A k \in 0 .. 0 : g[k] \in Names
      BY <1>0 DEF d
    <3>. HIDE DEF g, F
    <3>3. \E x : x = F(n, x) /\ \A k \in 0 .. n : x[k] \in Names
      BY <2>3, <3>1, <3>2
    <3>. QED  BY <2>1, <3>3, Zenon
  <2>4. CASE n # 0
    <3>1. n - 1 \in 0 .. m /\ n - 1 \notin Bad /\ n \in 1 .. m
      <4>. HIDE DEF Bad
      <4>. QED  BY <1>0, <2>1, <2>2, <2>4
    <3>2. PICK g : g = F(n - 1, g) /\ \A k \in 0 .. n - 1 : g[k] \in Names
      BY <3>1
    <3>. DEFINE h == [k \in 0 .. n |->
                  IF k < n THEN g[k] ELSE Walked(g[n - 1], p.parts[n])]
    <3>3. ASSUME NEW k \in 0 .. n
          PROVE  /\ h[k] = IF k = 0 THEN IF p.abs THEN << >> ELSE d
                           ELSE Walked(h[k - 1], p.parts[k])
                 /\ h[k] \in Names
      <4>1. CASE k = 0
        <5>1. h[0] = g[0] /\ g[0] = IF p.abs THEN << >> ELSE d
          BY <2>4, <3>1, <3>2
        <5>2. g[0] \in Names
          BY <3>1, <3>2
        <5>. QED  BY <4>1, <5>1, <5>2
      <4>2. CASE k # 0 /\ k < n
        <5>1. h[k] = g[k] /\ h[k - 1] = g[k - 1] /\ k \in 0 .. n - 1
          BY <4>2, <3>1
        <5>2. g[k] = Walked(g[k - 1], p.parts[k]) /\ g[k] \in Names
          BY <3>2, <4>2, <5>1
        <5>. QED  BY <4>2, <5>1, <5>2
      <4>3. CASE k # 0 /\ k = n
        <5>1. h[k - 1] = g[n - 1] /\ n - 1 \in 0 .. n - 1
          BY <4>3, <3>1
        <5>2. h[k] = Walked(g[n - 1], p.parts[n])
          BY <4>3
        <5>3. Walked(g[n - 1], p.parts[n]) \in Names
          BY <1>0, <3>1, <3>2, <5>1, WalkedIs
        <5>. QED  BY <4>3, <5>1, <5>2, <5>3
      <4>. QED  BY <4>1, <4>2, <4>3, <3>1
    <3>4. h = F(n, h) /\ \A k \in 0 .. n : h[k] \in Names
      BY <3>3
    <3>. HIDE DEF h, F
    <3>5. \E x : x = F(n, x) /\ \A k \in 0 .. n : x[k] \in Names
      BY <3>4
    <3>. QED  BY <2>1, <3>5, Zenon
  <2>. QED  BY <2>3, <2>4
<1>3. PICK g : g = F(m, g) /\ \A k \in 0 .. m : g[k] \in Names
  <2>. HIDE DEF F
  <2>1. m \in 0 .. m /\ m \notin Bad
    BY <1>0, <1>2
  <2>. QED  BY <2>1
<1>. DEFINE a == CHOOSE g1 : g1 = F(m, g1)
<1>. HIDE DEF F
<1>4. a = F(m, a)
  BY <1>3
<1>. HIDE DEF a
<1>. DEFINE Other == {k \in 0 .. m : a[k] # g[k]}
<1>5. Other = {}
  <2>. SUFFICES ASSUME Other # {} PROVE FALSE
    OBVIOUS
  <2>1. PICK k \in Other : \A x \in Other : k <= x
    <3>1. Other \in SUBSET Nat
      BY <1>0
    <3>. QED  BY <3>1, Least
  <2>2. k \in 0 .. m /\ a[k] # g[k]
    BY <2>1
  <2>3. /\ a[k] = IF k = 0 THEN IF p.abs THEN << >> ELSE d ELSE Walked(a[k - 1], p.parts[k])
        /\ g[k] = IF k = 0 THEN IF p.abs THEN << >> ELSE d ELSE Walked(g[k - 1], p.parts[k])
    <3>1. a[k] = F(m, a)[k] /\ g[k] = F(m, g)[k]
      BY <1>3, <1>4
    <3>. QED  BY <2>2, <3>1, Zenon DEF F
  <2>4. k # 0 /\ k - 1 \in 0 .. m
    BY <1>0, <2>2, <2>3
  <2>5. k - 1 \notin Other
    <3>. HIDE DEF Other
    <3>. QED  BY <1>0, <2>1, <2>2
  <2>6. a[k - 1] = g[k - 1]
    BY <2>4, <2>5
  <2>. QED  BY <2>2, <2>3, <2>4, <2>6
<1>6. a[m] = g[m] /\ g[m] \in Names
  BY <1>0, <1>3, <1>5
<1>. QED  BY <1>1, <1>6 DEF a

-----------------------------------------------------------------------------
(* Blocks and runs.                                                        *)

LEMMA Quotients ==
  ASSUME NEW x \in Nat, NEW y \in Nat, NEW b \in Nat \ {0}, x <= y
  PROVE  x \div b \in Nat /\ x \div b <= y \div b
<1>1. /\ x \div b \in Int /\ x % b \in 0 .. b - 1 /\ x = b * (x \div b) + (x % b)
      /\ y \div b \in Int /\ y % b \in 0 .. b - 1 /\ y = b * (y \div b) + (y % b)
  OBVIOUS
<1>. DEFINE q == x \div b
            r == y \div b
            s == x % b
            t == y % b
<1>2. /\ q \in Int /\ r \in Int /\ s \in 0 .. b - 1 /\ t \in 0 .. b - 1
      /\ x = b * q + s /\ y = b * r + t
  BY <1>1
<1>. HIDE DEF q, r, s, t
<1>3. q >= 0
  BY <1>2
<1>4. q <= r
  <2>. SUFFICES ASSUME r + 1 <= q PROVE FALSE
    BY <1>2
  <2>1. b * (r + 1) <= b * q
    BY <1>2
  <2>2. b * (r + 1) = b * r + b
    BY <1>2
  <2>. QED  BY <1>2, <2>1, <2>2
<1>. QED  BY <1>2, <1>3, <1>4 DEF q, r

LEMMA BlocksForIs ==
  ASSUME NEW size \in Nat, NEW more \in Nat, size <= more
  PROVE  BlocksFor(size) \in Nat \ {0} /\ BlocksFor(size) <= BlocksFor(more)
<1>. DEFINE b == AVFS_BLOCK_SIZE
            q == (size + b - 1) \div b
            r == (more + b - 1) \div b
<1>1. b \in Nat \ {0} /\ size + b - 1 \in Nat /\ more + b - 1 \in Nat
  BY AvfsConstants
<1>2. size + b - 1 <= more + b - 1
  BY <1>1
<1>3. q \in Nat /\ q <= r /\ r \in Nat
  <2>. DEFINE x == size + b - 1
              y == more + b - 1
  <2>1. x \in Nat /\ y \in Nat /\ x <= y /\ y <= y /\ b \in Nat \ {0}
    BY <1>1, <1>2
  <2>. HIDE DEF x, y, b
  <2>2. x \div b \in Nat /\ x \div b <= y \div b /\ y \div b \in Nat
    BY <2>1, Quotients
  <2>. QED  BY <2>2 DEF x, y
<1>4. /\ BlocksFor(size) = IF q = 0 THEN 1 ELSE q
      /\ BlocksFor(more) = IF r = 0 THEN 1 ELSE r
  BY DEF BlocksFor
<1>. HIDE DEF q, r
<1>. QED  BY <1>3, <1>4

\* First fit: a run of free blocks within the storage.
LEMMA FreeRun ==
  ASSUME NEW m, NEW n \in Nat \ {0}, avfs_find_free_blocks(m, n) # -1
  PROVE  /\ avfs_find_free_blocks(m, n) \in Blocks
         /\ RunAt(avfs_find_free_blocks(m, n), n) \subseteq Blocks
         /\ \A b \in RunAt(avfs_find_free_blocks(m, n), n) : ~m[b]
<1>. DEFINE S == {s \in Blocks : /\ s + n <= AVFS_NUM_BLOCKS
                                 /\ \A b \in RunAt(s, n) : ~m[b]}
            s == avfs_find_free_blocks(m, n)
<1>1. S # {} /\ s = Min(S) /\ S \in SUBSET Nat
  BY AvfsConstants DEF avfs_find_free_blocks, Blocks
<1>2. s \in S
  BY <1>1, MinIs
<1>3. RunAt(s, n) \subseteq Blocks
  BY <1>2, AvfsConstants DEF RunAt, Blocks
<1>. QED  BY <1>2, <1>3

-----------------------------------------------------------------------------
(* The bitmap and the runs.                                                *)

\* The blocks of an entry: those of a used file.
RunIn(f) == IF f.used /\ f.type = "file" THEN RunOf(f) ELSE {}

Exact(t, m) ==
  /\ \A i \in Indices : RunIn(t[i]) \subseteq Blocks
  /\ \A b \in Blocks : m[b] <=> \E i \in Indices : b \in RunIn(t[i])
  /\ \A i, j \in Indices : i # j => RunIn(t[i]) \cap RunIn(t[j]) = {}

\* One entry changes its run, to blocks that were its own or free.
Changed(t, m, i, f, t2, m2) ==
  /\ i \in Indices
  /\ t2[i] = f /\ \A j \in Indices \ {i} : t2[j] = t[j]
  /\ RunIn(f) \subseteq Blocks
  /\ \A b \in RunIn(f) : b \in RunIn(t[i]) \/ ~m[b]
  /\ \A b \in Blocks : m2[b] <=> b \in RunIn(f) \/ (b \notin RunIn(t[i]) /\ m[b])

LEMMA OneChanged ==
  ASSUME NEW t, NEW m, NEW t2, NEW m2, NEW i, NEW f,
         Exact(t, m), Changed(t, m, i, f, t2, m2)
  PROVE  Exact(t2, m2)
<1>1. \A j \in Indices : RunIn(t2[j]) \subseteq Blocks
  BY DEF Exact, Changed
<1>2. \A j, k \in Indices : j # k => RunIn(t2[j]) \cap RunIn(t2[k]) = {}
  <2>1. \A j \in Indices \ {i} : RunIn(f) \cap RunIn(t[j]) = {}
    BY DEF Exact, Changed
  <2>. QED  BY <2>1 DEF Exact, Changed
<1>3. ASSUME NEW b \in Blocks
      PROVE  m2[b] <=> \E j \in Indices : b \in RunIn(t2[j])
  <2>1. CASE b \in RunIn(f)
    BY <2>1 DEF Changed
  <2>2. CASE b \notin RunIn(f) /\ b \in RunIn(t[i])
    BY <2>2 DEF Exact, Changed
  <2>3. CASE b \notin RunIn(f) /\ b \notin RunIn(t[i])
    BY <2>3 DEF Exact, Changed
  <2>. QED  BY <2>1, <2>2, <2>3
<1>. QED  BY <1>1, <1>2, <1>3 DEF Exact

LEMMA ExactIs ==
  ASSUME \A i \in Indices : files[i].used \in BOOLEAN
  PROVE  Exact(files, block_bitmap)
           => BitmapExact /\ \A i \in UsedFiles : RunOf(files[i]) \subseteq Blocks
<1>. SUFFICES ASSUME Exact(files, block_bitmap)
              PROVE  BitmapExact /\ \A i \in UsedFiles : RunOf(files[i]) \subseteq Blocks
  OBVIOUS
<1>1. \A i \in UsedFiles : i \in Indices /\ RunIn(files[i]) = RunOf(files[i])
  BY DEF UsedFiles, RunIn
<1>2. \A b : \A i \in Indices : b \in RunIn(files[i]) => i \in UsedFiles
  BY DEF UsedFiles, RunIn
<1>3. {b \in Blocks : block_bitmap[b]} = UNION {RunOf(files[i]) : i \in UsedFiles}
  <2>1. ASSUME NEW b \in Blocks, block_bitmap[b] PROVE \E i \in UsedFiles : b \in RunOf(files[i])
    BY <1>1, <1>2, <2>1 DEF Exact
  <2>2. ASSUME NEW i \in UsedFiles, NEW b \in RunOf(files[i]) PROVE b \in Blocks /\ block_bitmap[b]
    BY <1>1, <2>2 DEF Exact
  <2>. QED  BY <2>1, <2>2
<1>4. \A i, j \in UsedFiles : i # j => RunOf(files[i]) \cap RunOf(files[j]) = {}
  BY <1>1 DEF Exact
<1>. QED  BY <1>1, <1>3, <1>4 DEF BitmapExact, Exact

-----------------------------------------------------------------------------
(* The inductive invariant, while entry 0 is the root.                     *)

Frames(T, C) == [path : Seq(T), next : Nat, count : C, force : BOOLEAN]

\* The frames of rm -r: their paths are paths.
RmOK == \E T, C : rm \in Seq(Frames(T, C))

BitmapInv ==
  /\ files \in Table /\ block_bitmap \in [Blocks -> BOOLEAN]
  /\ current_dir \in Names /\ RmOK
  /\ Exact(files, block_bitmap)

\* What a step owes to the table and the bitmap.
Keeps ==
  /\ files' \in Table /\ block_bitmap' \in [Blocks -> BOOLEAN]
  /\ Exact(files', block_bitmap')

LEMMA Unchanged ==
  ASSUME BitmapInv, UNCHANGED <<files, block_bitmap>>
  PROVE  Keeps
BY DEF BitmapInv, Keeps

\* A path leads to an entry in use, or to none.
LEMMA Reached ==
  ASSUME RootStays, NEW S, NEW path \in Seq(S)
  PROVE  /\ avfs_find_entry(path) \in Indices \cup {-1}
         /\ avfs_find_entry(path) # -1 => files[avfs_find_entry(path)].used
<1>1. 0 \in InUse(files)
  BY AvfsConstants DEF RootStays, InUse, Indices
<1>2. Found(files, path) # -1 => Found(files, path) \in InUse(files)
  BY <1>1, FoundIn
<1>. QED  BY <1>2, FoundIs DEF InUse

LEMMA EntryIs ==
  ASSUME BitmapInv, NEW i \in Indices
  PROVE  /\ files[i] \in Entries /\ files[i].used \in BOOLEAN /\ files[i].type \in {"file", "dir"}
         /\ files[i].size \in Nat /\ files[i].start \in Nat
         /\ BlocksFor(files[i].size) \in Nat \ {0}
<1>1. files[i] \in Entries
  BY DEF BitmapInv, Table
<1>2. files[i].size \in Nat
  BY <1>1 DEF Entries
<1>. QED  BY <1>1, <1>2, BlocksForIs DEF Entries

\* An entry rewritten.
LEMMA Rewritten ==
  ASSUME BitmapInv, NEW i, NEW f \in Entries,
         files' = [files EXCEPT ![i] = f],
         block_bitmap' \in [Blocks -> BOOLEAN],
         Changed(files, block_bitmap, i, f, [files EXCEPT ![i] = f], block_bitmap')
  PROVE  Keeps
<1>1. i \in Indices
  BY DEF Changed
<1>2. files' \in Table
  BY <1>1 DEF BitmapInv, Table
<1>3. Exact([files EXCEPT ![i] = f], block_bitmap')
  BY OneChanged DEF BitmapInv
<1>. QED  BY <1>2, <1>3 DEF Keeps

\* What an entry rewritten looks like.
LEMMA Other ==
  ASSUME BitmapInv, NEW i \in Indices, NEW f
  PROVE  [files EXCEPT ![i] = f][i] = f
         /\ \A j \in Indices \ {i} : [files EXCEPT ![i] = f][j] = files[j]
BY DEF BitmapInv, Table

LEMMA MarkedIs ==
  ASSUME NEW m \in [Blocks -> BOOLEAN], NEW run
  PROVE  /\ Marked(m, run, TRUE) \in [Blocks -> BOOLEAN]
         /\ Marked(m, run, FALSE) \in [Blocks -> BOOLEAN]
         /\ \A b \in Blocks : Marked(m, run, TRUE)[b] <=> b \in run \/ m[b]
         /\ \A b \in Blocks : Marked(m, run, FALSE)[b] <=> b \notin run /\ m[b]
BY DEF Marked

\* A new entry, in the first free place.
LEMMA Entered ==
  ASSUME BitmapInv, FreeEntries # {}, NEW f \in Entries, f.used, Enter(f),
         f.type = "file" => /\ RunOf(f) \subseteq Blocks
                            /\ \A b \in RunOf(f) : ~block_bitmap[b]
  PROVE  Keeps
<1>. DEFINE i == Min(FreeEntries)
<1>1. i \in Indices /\ ~files[i].used
  <2>1. FreeEntries \in SUBSET Nat
    BY DEF FreeEntries, Indices
  <2>2. i \in FreeEntries
    BY <2>1, MinIs
  <2>. QED  BY <2>2 DEF FreeEntries
<1>2. files' = [files EXCEPT ![i] = f]
  BY DEF Enter
<1>. HIDE DEF i
<1>3. RunIn(files[i]) = {} /\ RunIn(f) = IF f.type = "dir" THEN {} ELSE RunOf(f)
  BY <1>1 DEF RunIn, Entries
<1>4. block_bitmap \in [Blocks -> BOOLEAN]
  BY DEF BitmapInv
<1>5. f.type = "dir" \/ f.type = "file"
  BY DEF Entries
<1>6. /\ block_bitmap' \in [Blocks -> BOOLEAN]
      /\ \A b \in Blocks : block_bitmap'[b] <=> b \in RunIn(f) \/ block_bitmap[b]
  <2>1. CASE f.type = "dir"
    BY <1>3, <1>4, <2>1 DEF Enter
  <2>2. CASE f.type = "file"
    <3>1. block_bitmap' = Marked(block_bitmap, RunOf(f), TRUE)
      BY <2>2 DEF Enter
    <3>2. RunIn(f) = RunOf(f)
      BY <1>3, <2>2
    <3>. QED  BY <1>4, <3>1, <3>2, MarkedIs
  <2>. QED  BY <1>5, <2>1, <2>2
<1>7. Changed(files, block_bitmap, i, f, [files EXCEPT ![i] = f], block_bitmap')
  BY <1>1, <1>3, <1>5, <1>6, Other DEF Changed
<1>. QED  BY <1>2, <1>6, <1>7, Rewritten

\* The place a new entry takes in the tree.
LEMMA PlaceIs ==
  ASSUME RootStays, NEW path \in Names, ~Exists(path)
  PROVE  Last(path) \in Text /\ ParentOf(path) \in Indices \cup {-1}
<1>1. path # << >>
  <2>1. Found(files, << >>) = 0
    BY FoundRoot
  <2>2. avfs_find_entry(<< >>) = 0
    BY <2>1, FoundIs
  <2>. QED  BY <2>2 DEF Exists
<1>2. Front(path) \in Seq(STRING) /\ Last(path) \in STRING
  BY <1>1, PathParts DEF Names
<1>3. ParentOf(path) \in Indices \cup {-1}
  BY <1>2, Reached DEF ParentOf
<1>. QED  BY <1>2, <1>3 DEF Text

LEMMA NewFileIs ==
  ASSUME BitmapInv, RootStays, NEW path \in Names, NEW size \in Nat, CanCreate(path, size),
         NEW f, f = NewFile(path, size)
  PROVE  /\ f \in Entries /\ f.used
         /\ RunOf(f) \subseteq Blocks /\ \A b \in RunOf(f) : ~block_bitmap[b]
<1>. DEFINE n == BlocksFor(size)
            s == avfs_find_free_blocks(block_bitmap, n)
<1>1. n \in Nat \ {0}
  BY BlocksForIs
<1>2. s \in Blocks /\ RunAt(s, n) \subseteq Blocks /\ \A b \in RunAt(s, n) : ~block_bitmap[b]
  <2>1. s # -1
    BY DEF CanCreate
  <2>. HIDE DEF n
  <2>. QED  BY <1>1, <2>1, FreeRun
<1>3. Last(path) \in Text /\ ParentOf(path) \in Indices \cup {-1}
  BY PlaceIs DEF CanCreate
<1>4. /\ f.used /\ f.size = size /\ f.start = s
      /\ f = [used |-> TRUE, type |-> "file", name |-> Last(path), parent |-> ParentOf(path),
              size |-> size, start |-> s]
  BY DEF NewFile
<1>5. s \in Nat
  BY <1>2, AvfsConstants DEF Blocks
<1>6. RunOf(f) = RunAt(s, n)
  BY <1>4 DEF RunOf
<1>. HIDE DEF s, n
<1>7. f \in Entries
  BY <1>3, <1>4, <1>5 DEF Entries
<1>. QED  BY <1>2, <1>4, <1>6, <1>7

LEMMA CreateKeeps ==
  ASSUME BitmapInv, RootStays, NEW p \in Paths, NEW size \in Nat, avfs_create_file(p, size)
  PROVE  Keeps /\ UNCHANGED <<current_dir, rm>>
<1>. DEFINE path == normalize_path(p)
            f    == NewFile(path, size)
<1>1. path \in Names
  BY NormalIs DEF BitmapInv
<1>2. CanCreate(path, size) /\ Enter(f) /\ UNCHANGED <<current_dir, rm>> /\ FreeEntries # {}
  BY DEF avfs_create_file, CanCreate, Idle
<1>. HIDE DEF path
<1>3. f \in Entries /\ f.used /\ RunOf(f) \subseteq Blocks /\ \A b \in RunOf(f) : ~block_bitmap[b]
  BY <1>1, <1>2, NewFileIs
<1>. HIDE DEF f
<1>. QED  BY <1>2, <1>3, Entered

LEMMA SaveNewKeeps ==
  ASSUME BitmapInv, RootStays, NEW p \in Paths, NEW buf \in Seq(Nat), save_new(p, buf)
  PROVE  Keeps /\ UNCHANGED <<current_dir, rm>>
<1>. DEFINE path == normalize_path(p)
            f    == NewFile(path, Len(buf))
<1>1. path \in Names /\ Len(buf) \in Nat
  BY NormalIs DEF BitmapInv
<1>2. CanCreate(path, Len(buf)) /\ Enter(f) /\ UNCHANGED <<current_dir, rm>> /\ FreeEntries # {}
  BY DEF save_new, CanCreate, Idle
<1>. HIDE DEF path
<1>3. f \in Entries /\ f.used /\ RunOf(f) \subseteq Blocks /\ \A b \in RunOf(f) : ~block_bitmap[b]
  BY <1>1, <1>2, NewFileIs
<1>. HIDE DEF f
<1>. QED  BY <1>2, <1>3, Entered

LEMMA CreateDirKeeps ==
  ASSUME BitmapInv, RootStays, NEW p \in Paths, avfs_create_dir(p)
  PROVE  Keeps /\ UNCHANGED <<current_dir, rm>>
<1>. DEFINE path == normalize_path(p)
            f    == [Zeroed EXCEPT !.used = TRUE, !.type = "dir", !.name = Last(path),
                                   !.parent = ParentOf(path)]
<1>1. path \in Names
  BY NormalIs DEF BitmapInv
<1>2. ~Exists(path) /\ Enter(f) /\ UNCHANGED <<current_dir, rm>> /\ FreeEntries # {}
  BY DEF avfs_create_dir, Idle
<1>. HIDE DEF path
<1>3. Last(path) \in Text /\ ParentOf(path) \in Indices \cup {-1}
  BY <1>1, <1>2, PlaceIs
<1>4. f \in Entries /\ f.used /\ f.type = "dir"
  BY <1>3 DEF Entries, Zeroed
<1>. HIDE DEF f
<1>. QED  BY <1>2, <1>4, Entered

\* A file changes its place and its size.
Placed(i, start, size, f) == f = [files[i] EXCEPT !.start = start, !.size = size]

LEMMA Moves ==
  ASSUME BitmapInv, NEW i \in Indices, files[i].used, files[i].type = "file",
         NEW start \in Nat, NEW size \in Nat, NEW f,
         Placed(i, start, size, f),
         RunAt(start, BlocksFor(size)) \subseteq Blocks,
         \A b \in RunAt(start, BlocksFor(size)) : b \in RunOf(files[i]) \/ ~block_bitmap[b],
         block_bitmap' \in [Blocks -> BOOLEAN],
         \A b \in Blocks : block_bitmap'[b] <=>
            b \in RunAt(start, BlocksFor(size)) \/ (b \notin RunOf(files[i]) /\ block_bitmap[b]),
         files' = [files EXCEPT ![i] = f]
  PROVE  Keeps
<1>1. files[i] \in Entries
  BY EntryIs
<1>2. /\ f \in Entries /\ f.used /\ f.type = "file" /\ f.start = start /\ f.size = size
  BY <1>1 DEF Entries, Placed
<1>3. RunIn(f) = RunAt(start, BlocksFor(size)) /\ RunIn(files[i]) = RunOf(files[i])
  BY <1>2 DEF RunIn, RunOf
<1>4. Changed(files, block_bitmap, i, f, [files EXCEPT ![i] = f], block_bitmap')
  <2>. DEFINE t == [files EXCEPT ![i] = f]
  <2>1. t[i] = f /\ \A j \in Indices \ {i} : t[j] = files[j]
    BY Other
  <2>. HIDE DEF t
  <2>2. /\ RunIn(f) \subseteq Blocks
        /\ \A b \in RunIn(f) : b \in RunIn(files[i]) \/ ~block_bitmap[b]
        /\ \A b \in Blocks : block_bitmap'[b] <=>
              b \in RunIn(f) \/ (b \notin RunIn(files[i]) /\ block_bitmap[b])
    BY <1>3, Zenon
  <2>3. Changed(files, block_bitmap, i, f, t, block_bitmap')
    BY <2>1, <2>2, Zenon DEF Changed
  <2>. QED  BY <2>3 DEF t
<1>. QED  BY <1>2, <1>4, Rewritten

\* A file's own run is marked.
LEMMA OwnRun ==
  ASSUME BitmapInv, NEW i \in Indices, files[i].used, files[i].type = "file"
  PROVE  RunOf(files[i]) \subseteq Blocks /\ \A b \in RunOf(files[i]) : block_bitmap[b]
<1>1. RunIn(files[i]) = RunOf(files[i])
  BY DEF RunIn
<1>. QED  BY <1>1 DEF BitmapInv, Exact

\* A file found by its path.
LEMMA FileReached ==
  ASSUME BitmapInv, RootStays, NEW p \in Paths, NEW i, i = avfs_find_entry(normalize_path(p)),
         i # -1
  PROVE  i \in Indices /\ files[i].used
<1>1. normalize_path(p) \in Seq(STRING)
  BY NormalIs DEF BitmapInv, Names
<1>. QED  BY <1>1, Reached

LEMMA SaveOverKeeps ==
  ASSUME BitmapInv, RootStays, NEW p \in Paths, NEW buf \in Seq(Nat), save_over(p, buf)
  PROVE  Keeps /\ UNCHANGED <<current_dir, rm>>
<1>. DEFINE i     == avfs_find_entry(normalize_path(p))
            size  == Len(buf)
            n     == BlocksFor(size)
            start == avfs_find_free_blocks(block_bitmap, n)
            f     == [files[i] EXCEPT !.start = start, !.size = size]
<1>1. /\ i # -1 /\ files[i].type = "file" /\ start # -1
      /\ block_bitmap' = Marked(Marked(block_bitmap, RunOf(f), TRUE), RunOf(files[i]), FALSE)
      /\ files' = [files EXCEPT ![i] = f]
      /\ UNCHANGED <<current_dir, rm>>
  BY DEF save_over, Idle
<1>2. i \in Indices /\ files[i].used
  BY <1>1, FileReached
<1>3. size \in Nat /\ n \in Nat \ {0}
  BY BlocksForIs
<1>4. RunOf(files[i]) \subseteq Blocks /\ \A b \in RunOf(files[i]) : block_bitmap[b]
  BY <1>1, <1>2, OwnRun
<1>5. files[i] \in Entries
  BY <1>2, EntryIs
<1>. HIDE DEF i, size
<1>6. RunOf(f) = RunAt(start, n) /\ Placed(i, start, size, f)
  BY <1>5 DEF RunOf, Entries, Placed
<1>. HIDE DEF f, n
<1>7. start \in Nat /\ RunAt(start, n) \subseteq Blocks /\ \A b \in RunAt(start, n) : ~block_bitmap[b]
  <2>1. Blocks \subseteq Nat
    BY AvfsConstants DEF Blocks
  <2>. QED  BY <1>1, <1>3, <2>1, FreeRun
<1>. HIDE DEF start
<1>8. block_bitmap \in [Blocks -> BOOLEAN]
  BY DEF BitmapInv
<1>9. /\ block_bitmap' \in [Blocks -> BOOLEAN]
      /\ \A b \in Blocks : block_bitmap'[b] <=>
           b \in RunAt(start, n) \/ (b \notin RunOf(files[i]) /\ block_bitmap[b])
  <2>. DEFINE m == Marked(block_bitmap, RunOf(f), TRUE)
  <2>1. m \in [Blocks -> BOOLEAN] /\ \A b \in Blocks : m[b] <=> b \in RunOf(f) \/ block_bitmap[b]
    BY <1>8, MarkedIs
  <2>2. block_bitmap' = Marked(m, RunOf(files[i]), FALSE)
    BY <1>1
  <2>. HIDE DEF m
  <2>3. /\ block_bitmap' \in [Blocks -> BOOLEAN]
        /\ \A b \in Blocks : block_bitmap'[b] <=> b \notin RunOf(files[i]) /\ m[b]
    BY <2>1, <2>2 DEF Marked
  <2>. QED  BY <1>4, <1>6, <1>7, <2>1, <2>3
<1>10. Keeps
  BY <1>1, <1>2, <1>3, <1>6, <1>7, <1>9, Moves DEF n
<1>. QED  BY <1>1, <1>10

\* The run given up first.
LEMMA Relocates ==
  ASSUME BitmapInv, NEW i \in Indices, files[i].used, files[i].type = "file",
         NEW size \in Nat, NEW start, start = Relocated(files[i], size), start # -1
  PROVE  /\ start \in Nat /\ RunAt(start, BlocksFor(size)) \subseteq Blocks
         /\ \A b \in RunAt(start, BlocksFor(size)) : b \in RunOf(files[i]) \/ ~block_bitmap[b]
         /\ RelocatedBitmap(files[i], size) \in [Blocks -> BOOLEAN]
         /\ \A b \in Blocks : RelocatedBitmap(files[i], size)[b] <=>
              b \in RunAt(start, BlocksFor(size)) \/ (b \notin RunOf(files[i]) /\ block_bitmap[b])
<1>. DEFINE n == BlocksFor(size)
            r == RunOf(files[i])
            m == Marked(block_bitmap, r, FALSE)
<1>. HIDE DEF r
<1>1. n \in Nat \ {0} /\ Blocks \subseteq Nat
  BY BlocksForIs, AvfsConstants DEF Blocks
<1>2. block_bitmap \in [Blocks -> BOOLEAN]
  BY DEF BitmapInv
<1>3. m \in [Blocks -> BOOLEAN] /\ \A b \in Blocks : m[b] <=> b \notin r /\ block_bitmap[b]
  BY <1>2 DEF Marked
<1>4. start = avfs_find_free_blocks(m, n)
  BY DEF Relocated, r
<1>5. RelocatedBitmap(files[i], size) = Marked(m, RunAt(start, n), TRUE)
  BY DEF RelocatedBitmap, r
<1>. HIDE DEF m, n
<1>6. start \in Nat /\ RunAt(start, n) \subseteq Blocks /\ \A b \in RunAt(start, n) : ~m[b]
  BY <1>1, <1>4, FreeRun
<1>7. /\ Marked(m, RunAt(start, n), TRUE) \in [Blocks -> BOOLEAN]
      /\ \A b \in Blocks : Marked(m, RunAt(start, n), TRUE)[b] <=> b \in RunAt(start, n) \/ m[b]
  BY <1>3 DEF Marked
<1>8. \A b \in RunAt(start, n) : b \in r \/ ~block_bitmap[b]
  BY <1>3, <1>6
<1>. QED  BY <1>3, <1>5, <1>6, <1>7, <1>8 DEF n, r

\* Two fields of an entry assigned, as an entry rewritten.
LEMMA Assigned ==
  ASSUME BitmapInv, NEW i \in Indices, NEW start, NEW size
  PROVE  /\ [files EXCEPT ![i].start = start, ![i].size = size]
              = [files EXCEPT ![i] = [files[i] EXCEPT !.start = start, !.size = size]]
         /\ [files EXCEPT ![i].size = size]
              = [files EXCEPT ![i] = [files[i] EXCEPT !.start = files[i].start, !.size = size]]
<1>1. files \in [Indices -> Entries] /\ files[i] \in Entries
  BY EntryIs DEF BitmapInv, Table
<1>2. [files[i] EXCEPT !.start = files[i].start, !.size = size] = [files[i] EXCEPT !.size = size]
  BY <1>1 DEF Entries
<1>3. [[files[i] EXCEPT !.start = start] EXCEPT !.size = size]
        = [files[i] EXCEPT !.start = start, !.size = size]
  BY <1>1 DEF Entries
<1>. QED  BY <1>1, <1>2, <1>3

LEMMA AppendKeeps ==
  ASSUME BitmapInv, RootStays, NEW p \in Paths, NEW buf \in Seq(Nat), avfs_append_file(p, buf)
  PROVE  Keeps /\ UNCHANGED <<current_dir, rm>>
<1>. DEFINE i     == avfs_find_entry(normalize_path(p))
            size  == files[i].size + Len(buf)
            grows == BlocksFor(size) > BlocksFor(files[i].size)
            start == IF grows THEN Relocated(files[i], size) ELSE files[i].start
            f     == [files[i] EXCEPT !.start = start, !.size = size]
<1>1. /\ i # -1 /\ files[i].type = "file" /\ start # -1
      /\ block_bitmap' = IF grows THEN RelocatedBitmap(files[i], size) ELSE block_bitmap
      /\ files' = [files EXCEPT ![i].start = start, ![i].size = size]
      /\ UNCHANGED <<current_dir, rm>>
  BY DEF avfs_append_file, Idle
<1>2. i \in Indices /\ files[i].used
  BY <1>1, FileReached
<1>3. size \in Nat /\ files[i].size \in Nat /\ files[i].size <= size /\ files[i].start \in Nat
  BY <1>2, EntryIs
<1>. HIDE DEF i, size
<1>4. files' = [files EXCEPT ![i] = f]
  BY <1>1, <1>2, Assigned
<1>5. Placed(i, start, size, f)
  BY DEF Placed
<1>. HIDE DEF f
<1>6. CASE grows
  <2>1. start = Relocated(files[i], size) /\ block_bitmap' = RelocatedBitmap(files[i], size)
    BY <1>1, <1>6
  <2>. HIDE DEF start
  <2>2. /\ start \in Nat /\ RunAt(start, BlocksFor(size)) \subseteq Blocks
        /\ \A b \in RunAt(start, BlocksFor(size)) : b \in RunOf(files[i]) \/ ~block_bitmap[b]
        /\ block_bitmap' \in [Blocks -> BOOLEAN]
        /\ \A b \in Blocks : block_bitmap'[b] <=>
             b \in RunAt(start, BlocksFor(size)) \/ (b \notin RunOf(files[i]) /\ block_bitmap[b])
    BY <1>1, <1>2, <1>3, <2>1, Relocates
  <2>3. Keeps
    BY <1>1, <1>2, <1>3, <1>4, <1>5, <2>2, Moves
  <2>. QED  BY <1>1, <2>3
<1>7. CASE ~grows
  <2>1. start = files[i].start /\ block_bitmap' = block_bitmap
    BY <1>1, <1>7
  <2>2. BlocksFor(size) = BlocksFor(files[i].size)
    <3>1. /\ BlocksFor(files[i].size) \in Nat /\ BlocksFor(size) \in Nat
          /\ BlocksFor(files[i].size) <= BlocksFor(size)
      <4>. DEFINE z == files[i].size
      <4>1. z \in Nat /\ size \in Nat /\ z <= size /\ size <= size
        BY <1>3
      <4>. HIDE DEF z, grows, start
      <4>2. BlocksFor(z) \in Nat \ {0} /\ BlocksFor(z) <= BlocksFor(size)
        BY <4>1, BlocksForIs
      <4>3. BlocksFor(size) \in Nat \ {0}
        BY <4>1, BlocksForIs
      <4>. QED  BY <4>2, <4>3 DEF z
    <3>2. ~(BlocksFor(size) > BlocksFor(files[i].size))
      BY <1>7
    <3>. QED  BY <3>1, <3>2
  <2>3. RunAt(start, BlocksFor(size)) = RunOf(files[i])
    BY <2>1, <2>2 DEF RunOf
  <2>4. RunOf(files[i]) \subseteq Blocks /\ \A b \in RunOf(files[i]) : block_bitmap[b]
    BY <1>1, <1>2, OwnRun
  <2>5. block_bitmap' \in [Blocks -> BOOLEAN]
    BY <2>1 DEF BitmapInv
  <2>6. \A b \in Blocks : block_bitmap'[b] <=>
          b \in RunAt(start, BlocksFor(size)) \/ (b \notin RunOf(files[i]) /\ block_bitmap[b])
    BY <2>1, <2>3, <2>4
  <2>7. start \in Nat
    BY <1>3, <2>1
  <2>. HIDE DEF start
  <2>8. /\ RunAt(start, BlocksFor(size)) \subseteq Blocks
        /\ \A b \in RunAt(start, BlocksFor(size)) : b \in RunOf(files[i]) \/ ~block_bitmap[b]
    BY <2>3, <2>4
  <2>9. Keeps
    BY <1>1, <1>2, <1>3, <1>4, <1>5, <2>5, <2>6, <2>7, <2>8, Moves
  <2>. QED  BY <1>1, <2>9
<1>. QED  BY <1>6, <1>7

LEMMA TruncateWithinKeeps ==
  ASSUME BitmapInv, RootStays, NEW p \in Paths, NEW size \in Nat, truncate_within(p, size)
  PROVE  Keeps /\ UNCHANGED <<current_dir, rm>>
<1>. DEFINE i     == avfs_find_entry(normalize_path(p))
            start == files[i].start
            f     == [files[i] EXCEPT !.start = start, !.size = size]
            kept  == RunAt(start, BlocksFor(size))
<1>1. /\ i # -1 /\ files[i].type = "file" /\ BlocksFor(size) <= BlocksFor(files[i].size)
      /\ block_bitmap' = Marked(block_bitmap, RunOf(files[i]) \ kept, FALSE)
      /\ files' = [files EXCEPT ![i].size = size]
      /\ UNCHANGED <<current_dir, rm>>
  BY DEF truncate_within, Idle
<1>2. i \in Indices /\ files[i].used
  BY <1>1, FileReached
<1>3. files[i].size \in Nat /\ start \in Nat
  BY <1>2, EntryIs
<1>. HIDE DEF i
<1>4. files' = [files EXCEPT ![i] = f]
  BY <1>1, <1>2, Assigned
<1>5. Placed(i, start, size, f)
  BY DEF Placed
<1>. HIDE DEF f
<1>6. kept \subseteq RunOf(files[i])
  <2>1. BlocksFor(size) \in Nat /\ BlocksFor(files[i].size) \in Nat
    BY <1>3, BlocksForIs
  <2>. QED  BY <1>1, <1>3, <2>1 DEF RunOf, RunAt
<1>7. RunOf(files[i]) \subseteq Blocks /\ \A b \in RunOf(files[i]) : block_bitmap[b]
  BY <1>1, <1>2, OwnRun
<1>8. block_bitmap \in [Blocks -> BOOLEAN]
  BY DEF BitmapInv
<1>9. /\ block_bitmap' \in [Blocks -> BOOLEAN]
      /\ \A b \in Blocks : block_bitmap'[b] <=>
           b \in kept \/ (b \notin RunOf(files[i]) /\ block_bitmap[b])
  <2>. HIDE DEF kept
  <2>. QED  BY <1>1, <1>6, <1>7, <1>8 DEF Marked
<1>10. Keeps
  <2>. HIDE DEF start
  <2>. QED  BY <1>1, <1>2, <1>3, <1>4, <1>5, <1>6, <1>7, <1>9, Moves
<1>. QED  BY <1>1, <1>10

LEMMA TruncateGrowsKeeps ==
  ASSUME BitmapInv, RootStays, NEW p \in Paths, NEW size, size \in Nat, truncate_grows(p, size)
  PROVE  Keeps /\ UNCHANGED <<current_dir, rm>>
<1>. DEFINE i     == avfs_find_entry(normalize_path(p))
            stays == ExtendsInPlace(files[i], size)
            start == IF stays THEN files[i].start ELSE Relocated(files[i], size)
            f     == [files[i] EXCEPT !.start = start, !.size = size]
<1>1. /\ i # -1 /\ files[i].type = "file" /\ start # -1
      /\ BlocksFor(size) > BlocksFor(files[i].size)
      /\ block_bitmap' = IF stays THEN Marked(block_bitmap, Extension(files[i], size), TRUE)
                         ELSE RelocatedBitmap(files[i], size)
      /\ files' = [files EXCEPT ![i].start = start, ![i].size = size]
      /\ UNCHANGED <<current_dir, rm>>
  BY DEF truncate_grows, Idle
<1>2. i \in Indices /\ files[i].used
  BY <1>1, FileReached
<1>3. files[i].size \in Nat /\ files[i].start \in Nat
  BY <1>2, EntryIs
<1>. HIDE DEF i
<1>4. files' = [files EXCEPT ![i] = f]
  BY <1>1, <1>2, Assigned
<1>5. Placed(i, start, size, f)
  BY DEF Placed
<1>. HIDE DEF f
<1>6. CASE ~stays
  <2>1. start = Relocated(files[i], size) /\ block_bitmap' = RelocatedBitmap(files[i], size)
    BY <1>1, <1>6
  <2>. HIDE DEF start
  <2>0. files[i].type = "file" /\ start # -1
    BY <1>1
  <2>2. /\ start \in Nat /\ RunAt(start, BlocksFor(size)) \subseteq Blocks
        /\ \A b \in RunAt(start, BlocksFor(size)) : b \in RunOf(files[i]) \/ ~block_bitmap[b]
        /\ block_bitmap' \in [Blocks -> BOOLEAN]
        /\ \A b \in Blocks : block_bitmap'[b] <=>
             b \in RunAt(start, BlocksFor(size)) \/ (b \notin RunOf(files[i]) /\ block_bitmap[b])
    BY <1>2, <2>0, <2>1, Relocates
  <2>3. Keeps
    BY <1>1, <1>2, <1>4, <1>5, <2>2, Moves
  <2>. QED  BY <1>1, <2>3
<1>7. CASE stays
  <2>. DEFINE run == RunAt(start, BlocksFor(size))
              own == RunOf(files[i])
  <2>1. start = files[i].start
    BY <1>7
  <2>2. /\ own \subseteq run /\ Extension(files[i], size) = run \ own
    <3>1. BlocksFor(size) \in Nat /\ BlocksFor(files[i].size) \in Nat
      BY <1>3, BlocksForIs
    <3>2. own \subseteq run
      BY <1>1, <1>3, <2>1, <3>1 DEF RunOf, RunAt
    <3>3. Extension(files[i], size) = run \ own
      BY <2>1, Zenon DEF Extension
    <3>. QED  BY <3>2, <3>3
  <2>3. own \subseteq Blocks /\ \A b \in own : block_bitmap[b]
    BY <1>1, <1>2, OwnRun
  <2>4. \A b \in run \ own : b \in Blocks /\ ~block_bitmap[b]
    BY <1>7, <2>2 DEF ExtendsInPlace
  <2>5. block_bitmap' = Marked(block_bitmap, run \ own, TRUE)
    BY <1>1, <1>7, <2>2
  <2>6. block_bitmap \in [Blocks -> BOOLEAN]
    BY DEF BitmapInv
  <2>7. start \in Nat
    BY <1>3, <2>1
  <2>. HIDE DEF start, own, run
  <2>8. /\ block_bitmap' \in [Blocks -> BOOLEAN]
        /\ \A b \in Blocks : block_bitmap'[b] <=> b \in run \/ (b \notin own /\ block_bitmap[b])
    BY <2>2, <2>3, <2>4, <2>5, <2>6 DEF Marked
  <2>9. run \subseteq Blocks /\ \A b \in run : b \in own \/ ~block_bitmap[b]
    BY <2>3, <2>4
  <2>10. Keeps
    BY <1>1, <1>2, <1>4, <1>5, <2>7, <2>8, <2>9, Moves DEF run, own
  <2>. QED  BY <1>1, <2>10
<1>. QED  BY <1>6, <1>7

LEMMA RemovedKeeps ==
  ASSUME BitmapInv, NEW i \in Indices, files[i].used, NEW path, Removed(i, path)
  PROVE  Keeps /\ current_dir' = current_dir
<1>1. /\ files' = [files EXCEPT ![i] = Zeroed] /\ current_dir' = current_dir
      /\ block_bitmap' = IF files[i].type = "dir" THEN block_bitmap
                         ELSE Marked(block_bitmap, RunOf(files[i]), FALSE)
  BY DEF Removed
<1>2. Zeroed \in Entries /\ RunIn(Zeroed) = {}
  <2>1. 0 \in Indices
    BY AvfsConstants DEF Indices
  <2>. QED  BY <2>1 DEF Zeroed, Entries, RunIn, Text
<1>3. block_bitmap \in [Blocks -> BOOLEAN]
  BY DEF BitmapInv
<1>4. files[i].type \in {"file", "dir"}
  BY EntryIs
<1>5. /\ block_bitmap' \in [Blocks -> BOOLEAN]
      /\ \A b \in Blocks : block_bitmap'[b] <=> b \notin RunIn(files[i]) /\ block_bitmap[b]
  <2>1. CASE files[i].type = "dir"
    <3>1. RunIn(files[i]) = {} /\ block_bitmap' = block_bitmap
      BY <1>1, <2>1 DEF RunIn
    <3>. QED  BY <1>3, <3>1
  <2>2. CASE files[i].type = "file"
    <3>1. /\ RunIn(files[i]) = RunOf(files[i])
          /\ block_bitmap' = Marked(block_bitmap, RunOf(files[i]), FALSE)
      BY <1>1, <2>2 DEF RunIn
    <3>. QED  BY <1>3, <3>1 DEF Marked
  <2>. QED  BY <1>4, <2>1, <2>2
<1>6. Changed(files, block_bitmap, i, Zeroed, [files EXCEPT ![i] = Zeroed], block_bitmap')
  <2>1. /\ [files EXCEPT ![i] = Zeroed][i] = Zeroed
        /\ \A j \in Indices \ {i} : [files EXCEPT ![i] = Zeroed][j] = files[j]
    BY Other
  <2>. QED  BY <1>2, <1>5, <2>1 DEF Changed
<1>7. Keeps
  BY <1>1, <1>2, <1>5, <1>6, Rewritten
<1>. QED  BY <1>1, <1>7

LEMMA RemoveKeeps ==
  ASSUME BitmapInv, RootStays, NEW p \in Paths, avfs_remove_file(p)
  PROVE  Keeps /\ UNCHANGED <<current_dir, rm>>
<1>. DEFINE path == normalize_path(p)
            i    == avfs_find_entry(path)
<1>1. i # -1 /\ Removed(i, path) /\ rm' = rm
  BY DEF avfs_remove_file, Idle, Removable
<1>2. i \in Indices /\ files[i].used
  BY <1>1, FileReached
<1>. HIDE DEF i, path
<1>3. Keeps /\ current_dir' = current_dir
  BY <1>1, <1>2, RemovedKeeps
<1>. QED  BY <1>1, <1>3

-----------------------------------------------------------------------------
(* The frames of rm -r.                                                    *)

LEMMA TopFrame ==
  ASSUME RmOK, rm # << >>
  PROVE  \E T, C : /\ Frame \in Frames(T, C) /\ Tail(rm) \in Seq(Frames(T, C))
                   /\ Advanced \in Seq(Frames(T, C))
<1>1. PICK T, C : rm \in Seq(Frames(T, C))
  BY DEF RmOK
<1>2. Frame \in Frames(T, C) /\ Tail(rm) \in Seq(Frames(T, C))
  BY <1>1, HeadTailProperties DEF Frame
<1>3. [Frame EXCEPT !.next = @ + 1] \in Frames(T, C)
  <2>. DEFINE g == Frame
  <2>1. g \in Frames(T, C)
    BY <1>2
  <2>. HIDE DEF g
  <2>2. [g EXCEPT !.next = @ + 1] \in Frames(T, C)
    BY <2>1 DEF Frames
  <2>. QED  BY <2>2 DEF g
<1>4. <<[Frame EXCEPT !.next = @ + 1]>> \in Seq(Frames(T, C))
  BY <1>3
<1>5. Advanced \in Seq(Frames(T, C))
  BY <1>2, <1>4, ConcatProperties DEF Advanced
<1>. QED  BY <1>2, <1>5

\* A frame more.
LEMMA OneMoreFrame ==
  ASSUME NEW T, NEW C, NEW below \in Seq(Frames(T, C)), NEW S, NEW path \in Seq(S),
         NEW force \in BOOLEAN, Called(path, force, below)
  PROVE  RmOK' /\ UNCHANGED <<files, block_bitmap, current_dir>>
<1>. DEFINE n == Len(avfs_list_directory(avfs_find_entry(path)))
            f == [path |-> path, next |-> 1, count |-> n, force |-> force]
            F == Frames(T \cup S, C \cup {n})
<1>1. rm' = <<f>> \o below /\ UNCHANGED <<files, block_bitmap, current_dir>>
  BY DEF Called
<1>. HIDE DEF n
<1>2. path \in Seq(T \cup S)
  BY SeqMonotonic
<1>3. f \in F
  BY <1>2 DEF Frames
<1>4. Frames(T, C) \subseteq F
  <2>. SUFFICES ASSUME NEW g \in Frames(T, C) PROVE g \in F
    OBVIOUS
  <2>1. g.path \in Seq(T)
    BY DEF Frames
  <2>2. g.path \in Seq(T \cup S)
    BY <2>1, SeqMonotonic
  <2>. QED  BY <2>2 DEF Frames
<1>5. below \in Seq(F)
  BY <1>4, SeqMonotonic
<1>6. <<f>> \in Seq(F)
  BY <1>3
<1>. HIDE DEF F, f
<1>7. rm' \in Seq(F)
  BY <1>1, <1>5, <1>6, ConcatProperties
<1>8. RmOK'
  BY <1>7 DEF RmOK, F
<1>. QED  BY <1>1, <1>8

LEMMA RmStartsKeeps ==
  ASSUME BitmapInv, NEW p \in Paths, NEW force \in BOOLEAN, rm_starts(p, force)
  PROVE  BitmapInv'
<1>1. normalize_path(p) \in Seq(STRING)
  BY NormalIs DEF BitmapInv, Names
<1>2. << >> \in Seq(Frames({}, {})) /\ Called(normalize_path(p), force, << >>)
  BY EmptySeq DEF rm_starts
<1>3. RmOK' /\ UNCHANGED <<files, block_bitmap, current_dir>>
  BY <1>1, <1>2, OneMoreFrame
<1>. QED  BY <1>3 DEF BitmapInv

LEMMA RmDescendsKeeps ==
  ASSUME BitmapInv, rm_descends
  PROVE  BitmapInv'
<1>1. AtEntry /\ Called(RmPath(Frame, Entry.name), Frame.force, Advanced)
  BY DEF rm_descends
<1>2. PICK T, C : Frame \in Frames(T, C) /\ Advanced \in Seq(Frames(T, C))
  BY <1>1, TopFrame DEF BitmapInv, AtEntry
<1>. DEFINE S == T \cup {Entry.name}
<1>3. Frame.path \in Seq(T) /\ Frame.force \in BOOLEAN
  BY <1>2 DEF Frames
<1>4. Frame.path \in Seq(S) /\ Entry.name \in S
  BY <1>3, SeqMonotonic
<1>. HIDE DEF S
<1>5. RmPath(Frame, Entry.name) \in Seq(S)
  BY <1>4 DEF RmPath
<1>6. RmOK' /\ UNCHANGED <<files, block_bitmap, current_dir>>
  BY <1>1, <1>2, <1>3, <1>5, OneMoreFrame
<1>. QED  BY <1>6 DEF BitmapInv

LEMMA RmSkipsKeeps ==
  ASSUME BitmapInv, rm_skips
  PROVE  BitmapInv'
<1>1. PICK T, C : Advanced \in Seq(Frames(T, C))
  BY TopFrame DEF BitmapInv, AtEntry, rm_skips
<1>2. rm' = Advanced /\ UNCHANGED <<files, block_bitmap, current_dir>>
  BY DEF rm_skips
<1>3. rm' \in Seq(Frames(T, C))
  BY <1>1, <1>2
<1>. QED  BY <1>2, <1>3 DEF BitmapInv, RmOK

LEMMA RmRemovesKeeps ==
  ASSUME BitmapInv, RootStays, rm_removes
  PROVE  BitmapInv'
<1>. DEFINE path == RmPath(Frame, Entry.name)
            i    == avfs_find_entry(path)
<1>1. PICK T, C : Frame \in Frames(T, C) /\ Advanced \in Seq(Frames(T, C))
  BY TopFrame DEF BitmapInv, AtEntry, rm_removes
<1>2. rm' = Advanced
  BY DEF rm_removes
<1>3. rm' \in Seq(Frames(T, C))
  BY <1>1, <1>2
<1>4. RmOK'
  BY <1>3 DEF RmOK
<1>5. \/ i # -1 /\ Removed(i, path)
      \/ UNCHANGED <<files, block_bitmap, current_dir>>
  BY DEF rm_removes, Removable
<1>6. CASE i # -1 /\ Removed(i, path)
  <2>1. Frame.path \in Seq(T)
    BY <1>1 DEF Frames
  <2>. DEFINE S == T \cup {Entry.name}
  <2>2. Frame.path \in Seq(S) /\ Entry.name \in S
    BY <2>1, SeqMonotonic
  <2>. HIDE DEF S
  <2>3. path \in Seq(S)
    BY <2>2 DEF RmPath
  <2>4. i \in Indices /\ files[i].used
    BY <1>6, <2>3, Reached
  <2>. HIDE DEF i, path
  <2>5. Keeps /\ current_dir' = current_dir
    BY <1>6, <2>4, RemovedKeeps
  <2>. QED  BY <1>4, <2>5 DEF BitmapInv, Keeps
<1>7. CASE UNCHANGED <<files, block_bitmap, current_dir>>
  BY <1>4, <1>7 DEF BitmapInv
<1>. QED  BY <1>5, <1>6, <1>7

LEMMA RmFinishesKeeps ==
  ASSUME BitmapInv, RootStays, rm_finishes
  PROVE  BitmapInv'
<1>. DEFINE i == avfs_find_entry(Frame.path)
<1>1. PICK T, C : Frame \in Frames(T, C) /\ Tail(rm) \in Seq(Frames(T, C))
  BY TopFrame DEF BitmapInv, rm_finishes
<1>2. i # -1 /\ Removed(i, Frame.path) /\ rm' = Tail(rm)
  BY DEF rm_finishes, Removable
<1>3. rm' \in Seq(Frames(T, C))
  BY <1>1, <1>2
<1>4. RmOK'
  BY <1>3 DEF RmOK
<1>5. Frame.path \in Seq(T)
  BY <1>1 DEF Frames
<1>6. i \in Indices /\ files[i].used
  BY <1>2, <1>5, Reached
<1>. HIDE DEF i
<1>7. Keeps /\ current_dir' = current_dir
  BY <1>2, <1>6, RemovedKeeps
<1>. QED  BY <1>4, <1>7 DEF BitmapInv, Keeps

LEMMA RmGivesUpKeeps ==
  ASSUME BitmapInv, rm_gives_up
  PROVE  BitmapInv'
<1>1. rm' = << >> /\ UNCHANGED <<files, block_bitmap, current_dir>>
  BY DEF rm_gives_up
<1>2. rm' \in Seq(Frames({}, {}))
  BY <1>1, EmptySeq
<1>. QED  BY <1>1, <1>2 DEF BitmapInv, RmOK

-----------------------------------------------------------------------------
(* The theorem.                                                            *)

LEMMA BitmapInvInit == AvfsInit => BitmapInv
<1>. SUFFICES ASSUME AvfsInit PROVE BitmapInv
  OBVIOUS
<1>1. Root \in Entries /\ Zeroed \in Entries
  <2>1. 0 \in Indices
    BY AvfsConstants DEF Indices
  <2>. QED  BY <2>1 DEF Root, Zeroed, Entries, Text
<1>2. files \in Table /\ block_bitmap \in [Blocks -> BOOLEAN]
  BY <1>1 DEF AvfsInit, Table
<1>3. current_dir \in Names
  BY EmptySeq DEF AvfsInit, Names
<1>4. RmOK
  <2>1. rm \in Seq(Frames({}, {}))
    BY EmptySeq DEF AvfsInit
  <2>. QED  BY <2>1 DEF RmOK
<1>5. Exact(files, block_bitmap)
  <2>1. \A i \in Indices : RunIn(files[i]) = {}
    BY DEF AvfsInit, Root, Zeroed, RunIn
  <2>2. \A b \in Blocks : ~block_bitmap[b]
    BY DEF AvfsInit
  <2>. QED  BY <2>1, <2>2 DEF Exact
<1>. QED  BY <1>2, <1>3, <1>4, <1>5 DEF BitmapInv

LEMMA KeptWith ==
  ASSUME BitmapInv, Keeps, UNCHANGED <<current_dir, rm>>
  PROVE  BitmapInv'
BY DEF BitmapInv, Keeps, RmOK

LEMMA InputsAre ==
  /\ FilePaths \subseteq Paths /\ DirPaths \subseteq Paths /\ ChdirPaths \subseteq Paths
  /\ RmPaths \subseteq Paths /\ Sizes \subseteq Nat /\ Buffers \subseteq Seq(Nat)
BY AvfsConstants DEF Paths, Names

LEMMA FileCallKeeps ==
  ASSUME BitmapInv, RootStays, FileCall
  PROVE  BitmapInv'
<1>1. PICK p \in FilePaths :
        \/ \E size \in Sizes : avfs_create_file(p, size)
        \/ \E size \in Sizes : truncate_within(p, size)
        \/ \E size \in Sizes : truncate_grows(p, size)
        \/ \E buf \in Buffers : save_new(p, buf)
        \/ \E buf \in Buffers : save_over(p, buf)
        \/ \E buf \in Buffers, offset \in Sizes : avfs_write_file(p, buf, offset)
        \/ \E buf \in Buffers : avfs_append_file(p, buf)
        \/ avfs_remove_file(p)
  BY DEF FileCall
<1>2. p \in Paths /\ Sizes \subseteq Nat /\ Buffers \subseteq Seq(Nat)
  BY InputsAre
<1>3. ASSUME NEW size \in Sizes, avfs_create_file(p, size) PROVE BitmapInv'
  BY <1>2, <1>3, CreateKeeps, KeptWith
<1>4. ASSUME NEW size \in Sizes, truncate_within(p, size) PROVE BitmapInv'
  BY <1>2, <1>4, TruncateWithinKeeps, KeptWith
<1>5. ASSUME NEW size \in Sizes, truncate_grows(p, size) PROVE BitmapInv'
  BY <1>2, <1>5, TruncateGrowsKeeps, KeptWith
<1>6. ASSUME NEW buf \in Buffers, save_new(p, buf) PROVE BitmapInv'
  BY <1>2, <1>6, SaveNewKeeps, KeptWith
<1>7. ASSUME NEW buf \in Buffers, save_over(p, buf) PROVE BitmapInv'
  BY <1>2, <1>7, SaveOverKeeps, KeptWith
<1>8. ASSUME NEW buf \in Buffers, NEW offset \in Sizes, avfs_write_file(p, buf, offset)
      PROVE  BitmapInv'
  <2>1. UNCHANGED <<files, block_bitmap, current_dir, rm>>
    BY <1>8 DEF avfs_write_file, Idle
  <2>. QED  BY <2>1, Unchanged, KeptWith
<1>9. ASSUME NEW buf \in Buffers, avfs_append_file(p, buf) PROVE BitmapInv'
  BY <1>2, <1>9, AppendKeeps, KeptWith
<1>10. ASSUME avfs_remove_file(p) PROVE BitmapInv'
  BY <1>2, <1>10, RemoveKeeps, KeptWith
<1>. QED  BY <1>1, <1>3, <1>4, <1>5, <1>6, <1>7, <1>8, <1>9, <1>10

LEMMA DirCallKeeps ==
  ASSUME BitmapInv, RootStays, DirCall
  PROVE  BitmapInv'
<1>1. ASSUME NEW p \in DirPaths, avfs_create_dir(p) PROVE BitmapInv'
  BY <1>1, InputsAre, CreateDirKeeps, KeptWith
<1>2. ASSUME NEW p \in DirPaths, avfs_remove_file(p) PROVE BitmapInv'
  BY <1>2, InputsAre, RemoveKeeps, KeptWith
<1>3. ASSUME NEW p \in ChdirPaths, avfs_chdir(p) PROVE BitmapInv'
  <2>1. UNCHANGED <<files, block_bitmap, rm>> /\ current_dir' = normalize_path(p)
    BY <1>3 DEF avfs_chdir, Idle
  <2>2. current_dir' \in Names
    BY <2>1, InputsAre, NormalIs DEF BitmapInv
  <2>. QED  BY <2>1, <2>2 DEF BitmapInv, RmOK
<1>. QED  BY <1>1, <1>2, <1>3 DEF DirCall

LEMMA RmKeeps ==
  ASSUME BitmapInv, RootStays, Rm
  PROVE  BitmapInv'
<1>1. ASSUME NEW p \in RmPaths, NEW force \in BOOLEAN, rm_starts(p, force) PROVE BitmapInv'
  BY <1>1, InputsAre, RmStartsKeeps
<1>. QED  BY <1>1, RmSkipsKeeps, RmDescendsKeeps, RmRemovesKeeps, RmFinishesKeeps, RmGivesUpKeeps
          DEF Rm

LEMMA BitmapInvStep == BitmapInv /\ RootStays /\ [AvfsNext]_vars => BitmapInv'
<1>. SUFFICES ASSUME BitmapInv, RootStays, [AvfsNext]_vars PROVE BitmapInv'
  OBVIOUS
<1>1. CASE UNCHANGED vars
  BY <1>1 DEF vars, BitmapInv, RmOK
<1>2. CASE AvfsNext
  BY <1>2, FileCallKeeps, DirCallKeeps, RmKeeps DEF AvfsNext
<1>. QED  BY <1>1, <1>2

\* As long as entry 0 is the root, the bitmap marks exactly the runs of the
\* files and no two files share a block, whatever is created, saved, moved,
\* truncated and removed.
THEOREM BitmapStaysExact == AvfsSpec /\ []RootStays => []BitmapExact
<1>1. BitmapInv => BitmapExact
  BY EntryIs, ExactIs DEF BitmapInv
<1>. QED  BY <1>1, BitmapInvInit, BitmapInvStep, PTL DEF AvfsSpec

-----------------------------------------------------------------------------
(* The tree.                                                               *)

Tree(t) ==
  \A i \in Indices \ {0} : t[i].used =>
    /\ t[i].parent \in Indices
    /\ t[t[i].parent].used /\ t[t[i].parent].type = "dir"
    /\ \A j \in Indices \ {0, i} : t[j].used => ~(t[j].parent = t[i].parent /\ t[j].name = t[i].name)

\* Two tables that differ in places and sizes only.
Alike(t, t2) ==
  \A i \in Indices : /\ t2[i].used = t[i].used /\ t2[i].type = t[i].type
                     /\ t2[i].name = t[i].name /\ t2[i].parent = t[i].parent

LEMMA AlikeTree ==
  ASSUME NEW t, NEW t2, Alike(t, t2), Tree(t)
  PROVE  Tree(t2)
BY DEF Alike, Tree

LEMMA AssignedAlike ==
  ASSUME BitmapInv, NEW i \in Indices, NEW start, NEW size
  PROVE  /\ Alike(files, [files EXCEPT ![i] = [files[i] EXCEPT !.start = start, !.size = size]])
         /\ Alike(files, [files EXCEPT ![i].start = start, ![i].size = size])
         /\ Alike(files, [files EXCEPT ![i].size = size])
<1>. DEFINE f == [files[i] EXCEPT !.start = start, !.size = size]
            g == [files[i] EXCEPT !.start = files[i].start, !.size = size]
<1>1. files[i] \in Entries
  BY EntryIs
<1>2. /\ f.used = files[i].used /\ f.type = files[i].type
      /\ f.name = files[i].name /\ f.parent = files[i].parent
      /\ g.used = files[i].used /\ g.type = files[i].type
      /\ g.name = files[i].name /\ g.parent = files[i].parent
  BY <1>1 DEF Entries
<1>3. /\ [files EXCEPT ![i].start = start, ![i].size = size] = [files EXCEPT ![i] = f]
      /\ [files EXCEPT ![i].size = size] = [files EXCEPT ![i] = g]
  BY Assigned
<1>. HIDE DEF f, g
<1>4. /\ [files EXCEPT ![i] = f][i] = f /\ [files EXCEPT ![i] = g][i] = g
      /\ \A j \in Indices \ {i} : /\ [files EXCEPT ![i] = f][j] = files[j]
                                  /\ [files EXCEPT ![i] = g][j] = files[j]
  BY Other
<1>5. Alike(files, [files EXCEPT ![i] = f]) /\ Alike(files, [files EXCEPT ![i] = g])
  BY <1>2, <1>4 DEF Alike
<1>. QED  BY <1>3, <1>5 DEF f

\* The name of a path to nothing is free in the directory it names.
LEMMA NameIsFree ==
  ASSUME RootStays, NEW path \in Names, ~Exists(path), IsDir(ParentOf(path))
  PROVE  /\ ParentOf(path) \in Indices /\ files[ParentOf(path)].used
         /\ files[ParentOf(path)].type = "dir"
         /\ Named(files, ParentOf(path), Last(path)) = {}
<1>1. path # << >>
  <2>1. Found(files, << >>) = 0
    BY FoundRoot
  <2>2. avfs_find_entry(<< >>) = 0
    BY <2>1, FoundIs
  <2>. QED  BY <2>2 DEF Exists
<1>2. Front(path) \in Seq(STRING)
  BY <1>1, PathParts DEF Names
<1>3. /\ ParentOf(path) # -1 /\ ParentOf(path) \in Indices /\ files[ParentOf(path)].used
      /\ files[ParentOf(path)].type = "dir"
  BY <1>2, Reached DEF ParentOf, IsDir
<1>4. Found(files, path) = ChildIn(files, ParentOf(path), Last(path))
  <2>1. path \in Seq(STRING)
    BY DEF Names
  <2>2. Found(files, path) = ChildIn(files, Found(files, Front(path)), Last(path))
    BY <1>1, <2>1, FoundStep
  <2>. QED  BY <2>2, FoundIs DEF ParentOf
<1>5. Found(files, path) = -1
  BY FoundIs DEF Exists
<1>6. ASSUME Named(files, ParentOf(path), Last(path)) # {} PROVE FALSE
  <2>. DEFINE S == Named(files, ParentOf(path), Last(path))
  <2>1. S \in SUBSET Nat
    BY AvfsConstants DEF Named, Indices
  <2>2. -1 = Min(S)
    BY <1>3, <1>4, <1>5, <1>6 DEF ChildIn
  <2>. HIDE DEF S
  <2>3. Min(S) \in S
    BY <1>6, <2>1, MinIs DEF S
  <2>. QED  BY <2>1, <2>2, <2>3
<1>. QED  BY <1>3, <1>6

-----------------------------------------------------------------------------
(* What a path finds, before and after an entry comes or goes.             *)

Sound(t) == Tree(t) /\ t[0].used /\ t[0].parent = -1

LEMMA SameEnds ==
  ASSUME NEW S, NEW p \in Seq(S), NEW q \in Seq(S), p # << >>, q # << >>,
         Front(p) = Front(q), Last(p) = Last(q)
  PROVE  p = q
<1>1. /\ Len(Front(p)) = Len(p) - 1 /\ Len(p) \in Nat \ {0} /\ Last(p) = p[Len(p)]
      /\ \A k \in 1 .. Len(p) - 1 : Front(p)[k] = p[k]
  BY PathParts
<1>2. /\ Len(Front(q)) = Len(q) - 1 /\ Len(q) \in Nat \ {0} /\ Last(q) = q[Len(q)]
      /\ \A k \in 1 .. Len(q) - 1 : Front(q)[k] = q[k]
  BY PathParts
<1>3. Len(p) = Len(q)
  BY <1>1, <1>2
<1>4. ASSUME NEW k \in 1 .. Len(p) PROVE p[k] = q[k]
  <2>1. CASE k = Len(p)
    BY <1>1, <1>2, <1>3, <2>1
  <2>2. CASE k \in 1 .. Len(p) - 1
    BY <1>1, <1>2, <1>3, <2>2
  <2>. QED  BY <1>1, <2>1, <2>2
<1>. QED  BY <1>3, <1>4, SeqEqual

\* No name leads back to the root.
LEMMA NotRoot ==
  ASSUME NEW t, Sound(t), NEW S, NEW p \in Seq(S), p # << >>, Found(t, p) # -1
  PROVE  /\ Found(t, p) \in InUse(t) \ {0}
         /\ Found(t, Front(p)) = t[Found(t, p)].parent /\ Last(p) = t[Found(t, p)].name
         /\ Found(t, Front(p)) # -1
<1>1. Found(t, p) = ChildIn(t, Found(t, Front(p)), Last(p))
  BY FoundStep, Zenon
<1>2. ChildIn(t, Found(t, Front(p)), Last(p)) # -1
  BY <1>1
<1>3. /\ ChildIn(t, Found(t, Front(p)), Last(p)) \in InUse(t) /\ Found(t, Front(p)) # -1
      /\ t[ChildIn(t, Found(t, Front(p)), Last(p))].parent = Found(t, Front(p))
      /\ t[ChildIn(t, Found(t, Front(p)), Last(p))].name = Last(p)
  BY <1>2, ChildIs
<1>. QED  BY <1>1, <1>3 DEF Sound

\* An entry has one path.
LEMMA OnePath ==
  ASSUME NEW t, Sound(t), NEW S, NEW p \in Seq(S), NEW q \in Seq(S),
         Found(t, p) = Found(t, q), Found(t, p) # -1
  PROVE  p = q
<1>. DEFINE Twin(x, y) == Found(t, x) = Found(t, y) /\ Found(t, x) # -1 /\ x # y
            Bad == {n \in Nat : \E x, y \in Seq(S) : Len(x) = n /\ Twin(x, y)}
<1>1. Bad = {}
  <2>. SUFFICES ASSUME Bad # {} PROVE FALSE
    OBVIOUS
  <2>1. PICK n \in Bad : \A m \in Bad : n <= m
    BY Least
  <2>2. PICK x \in Seq(S), y \in Seq(S) : Len(x) = n /\ Twin(x, y)
    BY <2>1
  <2>3. CASE x = << >> \/ y = << >>
    <3>1. Found(t, << >>) = 0
      BY FoundRoot
    <3>2. x # y /\ Found(t, x) = 0 /\ Found(t, y) = 0
      BY <2>2, <2>3, <3>1
    <3>3. x # << >> \/ y # << >>
      BY <3>2
    <3>. QED  BY <3>2, <3>3, NotRoot
  <2>4. CASE x # << >> /\ y # << >>
    <3>1. /\ Found(t, Front(x)) = t[Found(t, x)].parent /\ Last(x) = t[Found(t, x)].name
          /\ Found(t, Front(x)) # -1
      BY <2>2, <2>4, NotRoot
    <3>2. /\ Found(t, Front(y)) = t[Found(t, y)].parent /\ Last(y) = t[Found(t, y)].name
          /\ Found(t, Front(y)) # -1
      BY <2>2, <2>4, NotRoot
    <3>3. Found(t, Front(x)) = Found(t, Front(y)) /\ Last(x) = Last(y)
      BY <2>2, <3>1, <3>2
    <3>4. Front(x) # Front(y)
      BY <2>2, <2>4, <3>3, SameEnds
    <3>5. /\ Front(x) \in Seq(S) /\ Front(y) \in Seq(S)
          /\ Len(Front(x)) = n - 1 /\ n \in Nat \ {0}
      BY <2>2, <2>4, PathParts
    <3>6. n - 1 \in Bad
      BY <3>1, <3>3, <3>4, <3>5
    <3>. HIDE DEF Bad
    <3>. QED  BY <2>1, <3>5, <3>6
  <2>. QED  BY <2>3, <2>4
<1>. SUFFICES ASSUME p # q PROVE FALSE
  OBVIOUS
<1>2. Twin(p, q)
  OBVIOUS
<1>3. Len(p) \in Nat
  OBVIOUS
<1>4. Len(p) \in Bad
  <2>. HIDE DEF Twin
  <2>. QED  BY <1>2, <1>3
<1>. QED  BY <1>1, <1>4

\* A table that differs in places and sizes finds the same.
LEMMA FoundAlike ==
  ASSUME NEW t, NEW t2, Alike(t, t2), NEW S, NEW p \in Seq(S)
  PROVE  Found(t2, p) = Found(t, p)
<1>. DEFINE Bad == {n \in Nat : \E x \in Seq(S) : Len(x) = n /\ Found(t2, x) # Found(t, x)}
<1>1. \A i, x : ChildIn(t2, i, x) = ChildIn(t, i, x)
  <2>1. \A i, x : Named(t2, i, x) = Named(t, i, x)
    BY DEF Named, Alike
  <2>. QED  BY <2>1, Zenon DEF ChildIn
<1>2. Bad = {}
  <2>. SUFFICES ASSUME Bad # {} PROVE FALSE
    OBVIOUS
  <2>1. PICK n \in Bad : \A m \in Bad : n <= m
    BY Least
  <2>2. PICK x \in Seq(S) : Len(x) = n /\ Found(t2, x) # Found(t, x)
    BY <2>1
  <2>3. x # << >>
    BY <2>2, FoundRoot
  <2>4. Front(x) \in Seq(S) /\ Len(Front(x)) = n - 1 /\ n \in Nat \ {0}
    BY <2>2, <2>3, PathParts
  <2>5. Found(t2, Front(x)) # Found(t, Front(x))
    <3>1. /\ Found(t2, x) = ChildIn(t2, Found(t2, Front(x)), Last(x))
          /\ Found(t, x) = ChildIn(t, Found(t, Front(x)), Last(x))
      BY <2>3, FoundStep, Zenon
    <3>. QED  BY <1>1, <2>2, <3>1, Zenon
  <2>6. n - 1 \in Bad
    BY <2>4, <2>5
  <2>. HIDE DEF Bad
  <2>. QED  BY <2>1, <2>4, <2>6
<1>3. Len(p) \in Nat
  OBVIOUS
<1>. QED  BY <1>2, <1>3

\* An entry i added at a path to nothing, below a directory.
Grown(t, t2, path, i, f) ==
  /\ path # << >> /\ i \in Indices /\ ~t[i].used /\ f.used
  /\ t2[i] = f /\ \A j \in Indices \ {i} : t2[j] = t[j]
  /\ f.parent = Found(t, Front(path)) /\ f.parent # -1 /\ f.name = Last(path)
  /\ Named(t, f.parent, f.name) = {}

LEMMA FoundGrown ==
  ASSUME NEW t, Sound(t), NEW t2, NEW S, NEW path \in Seq(S), NEW i, NEW f,
         Grown(t, t2, path, i, f), NEW p \in Seq(S)
  PROVE  Found(t2, p) = IF p = path THEN i ELSE Found(t, p)
<1>. DEFINE Good(x) == Found(t2, x) = IF x = path THEN i ELSE Found(t, x)
            Bad == {n \in Nat : \E x \in Seq(S) : Len(x) = n /\ ~Good(x)}
<1>0. Front(path) \in Seq(S) /\ Len(Front(path)) = Len(path) - 1 /\ Len(path) \in Nat \ {0}
  BY PathParts DEF Grown
<1>1. 0 \in Indices /\ i \in Indices /\ i # 0 /\ i # -1 /\ f.parent \in InUse(t) /\ f.parent # i
  <2>1. 0 \in Indices
    BY AvfsConstants DEF Indices
  <2>2. 0 \in InUse(t)
    BY <2>1 DEF InUse, Sound
  <2>3. f.parent \in InUse(t)
    BY <1>0, <2>2, FoundIn DEF Grown
  <2>4. i \in Nat
    BY DEF Grown, Indices
  <2>. QED  BY <2>1, <2>2, <2>3, <2>4 DEF InUse, Grown
<1>2. \A j \in Indices : t[j].used => t[j].parent # i
  BY <1>1 DEF Sound, Tree, Grown
<1>3. \A j, x : Named(t2, j, x) = IF j = f.parent /\ x = f.name THEN {i} ELSE Named(t, j, x)
  <2>. TAKE j, x
  <2>1. CASE j = f.parent /\ x = f.name
    BY <1>1, <2>1 DEF Named, Grown
  <2>2. CASE ~(j = f.parent /\ x = f.name)
    BY <1>1, <2>2 DEF Named, Grown
  <2>. QED  BY <2>1, <2>2
<1>4. \A x : Named(t2, i, x) = {}
  <2>1. \A x : Named(t, i, x) = {}
    BY <1>2 DEF Named
  <2>. QED  BY <1>1, <1>3, <2>1
<1>5. /\ \A x : ChildIn(t2, i, x) = -1
      /\ \A j, x : j # -1 /\ ~(j = f.parent /\ x = f.name) => ChildIn(t2, j, x) = ChildIn(t, j, x)
      /\ \A x : ChildIn(t2, -1, x) = -1 /\ ChildIn(t, -1, x) = -1
      /\ ChildIn(t2, f.parent, f.name) = i /\ ChildIn(t, f.parent, f.name) = -1
  <2>1. Min({i}) = i
    <3>1. {i} \in SUBSET Nat
      BY <1>1 DEF Indices
    <3>. QED  BY <3>1, MinIs
  <2>2. f.parent # -1 /\ Named(t, f.parent, f.name) = {}
    BY DEF Grown
  <2>. QED  BY <1>1, <1>3, <1>4, <2>1, <2>2 DEF ChildIn
<1>6. Found(t, path) = -1
  <2>1. Found(t, path) = ChildIn(t, Found(t, Front(path)), Last(path))
    BY FoundStep, Zenon DEF Grown
  <2>. QED  BY <1>5, <2>1 DEF Grown
<1>7. Bad = {}
  <2>. SUFFICES ASSUME Bad # {} PROVE FALSE
    OBVIOUS
  <2>1. PICK n \in Bad : \A m \in Bad : n <= m
    BY Least
  <2>2. PICK x \in Seq(S) : Len(x) = n /\ ~Good(x)
    BY <2>1
  <2>3. x # << >>
    BY <2>2, FoundRoot DEF Grown
  <2>4. Front(x) \in Seq(S) /\ Len(Front(x)) = n - 1 /\ n \in Nat \ {0}
    BY <2>2, <2>3, PathParts
  <2>5. Good(Front(x))
    <3>1. n - 1 \notin Bad /\ n - 1 \in Nat
      <4>. HIDE DEF Bad
      <4>. QED  BY <2>1, <2>4
    <3>. HIDE DEF Good
    <3>. QED  BY <2>4, <3>1
  <2>6. /\ Found(t2, x) = ChildIn(t2, Found(t2, Front(x)), Last(x))
        /\ Found(t, x) = ChildIn(t, Found(t, Front(x)), Last(x))
    BY <2>3, FoundStep, Zenon
  <2>7. CASE Front(x) = path
    <3>1. Found(t2, x) = -1
      BY <1>5, <2>5, <2>6, <2>7
    <3>2. Found(t, x) = -1
      BY <1>5, <1>6, <2>6, <2>7
    <3>3. x # path
      BY <1>0, <2>2, <2>4, <2>7
    <3>. QED  BY <2>2, <3>1, <3>2, <3>3
  <2>8. CASE Front(x) # path /\ Found(t, Front(x)) = f.parent /\ Last(x) = f.name
    <3>1. Front(x) = Front(path)
      BY <1>0, <2>4, <2>8, OnePath DEF Grown
    <3>2. x = path
      BY <2>3, <2>8, <3>1, SameEnds DEF Grown
    <3>3. Found(t2, x) = i
      BY <1>5, <2>5, <2>6, <2>8
    <3>. QED  BY <2>2, <3>2, <3>3
  <2>9. CASE Front(x) # path /\ ~(Found(t, Front(x)) = f.parent /\ Last(x) = f.name)
    <3>1. x # path
      BY <2>9 DEF Grown
    <3>2. Found(t2, Front(x)) = Found(t, Front(x))
      BY <2>5, <2>9
    <3>3. Found(t2, x) = Found(t, x)
      BY <1>5, <2>6, <2>9, <3>2
    <3>. QED  BY <2>2, <3>1, <3>3
  <2>. QED  BY <2>7, <2>8, <2>9
<1>8. Len(p) \in Nat /\ Len(p) \notin Bad
  BY <1>7
<1>9. Good(p)
  <2>. HIDE DEF Good
  <2>. QED  BY <1>8
<1>. QED  BY <1>9

\* An entry without children taken away.
Shrunk(t, t2, i) ==
  /\ i \in Indices /\ t[i].used /\ ~t2[i].used
  /\ \A j \in Indices \ {i} : t2[j] = t[j]
  /\ \A j \in Indices : t[j].used => t[j].parent # i

LEMMA FoundShrunk ==
  ASSUME NEW t, Sound(t), NEW t2, NEW i, Shrunk(t, t2, i), i # 0, NEW S, NEW p \in Seq(S)
  PROVE  Found(t2, p) = IF Found(t, p) = i THEN -1 ELSE Found(t, p)
<1>. DEFINE Good(x) == Found(t2, x) = IF Found(t, x) = i THEN -1 ELSE Found(t, x)
            Bad == {n \in Nat : \E x \in Seq(S) : Len(x) = n /\ ~Good(x)}
<1>1. i \in Indices /\ i # -1 /\ 0 \in Indices
  BY AvfsConstants DEF Shrunk, Indices
<1>2. \A j, x : Named(t2, j, x) = Named(t, j, x) \ {i}
  BY DEF Named, Shrunk
<1>3. \A x : Named(t, i, x) = {} /\ Named(t2, i, x) = {}
  BY <1>2 DEF Named, Shrunk
<1>4. ASSUME NEW j, NEW x, j # -1
      PROVE  ChildIn(t2, j, x) = IF ChildIn(t, j, x) = i THEN -1 ELSE ChildIn(t, j, x)
  <2>1. CASE i \in Named(t, j, x)
    <3>1. Named(t, j, x) = {i}
      <4>. SUFFICES ASSUME NEW k \in Named(t, j, x), k # i PROVE FALSE
        BY <2>1
      <4>1. k \in Indices /\ t[k].used /\ t[k].parent = j /\ t[k].name = x
        BY DEF Named
      <4>2. t[i].used /\ t[i].parent = j /\ t[i].name = x
        BY <2>1 DEF Named
      <4>3. k # 0
        BY <1>4, <4>1 DEF Sound
      <4>. QED  BY <1>1, <4>1, <4>2, <4>3 DEF Sound, Tree
    <3>2. Min({i}) = i
      <4>1. {i} \in SUBSET Nat
        BY <1>1 DEF Indices
      <4>. QED  BY <4>1, MinIs
    <3>. QED  BY <1>2, <1>4, <3>1, <3>2 DEF ChildIn
  <2>2. CASE i \notin Named(t, j, x)
    <3>1. Named(t2, j, x) = Named(t, j, x)
      BY <1>2, <2>2
    <3>2. ChildIn(t2, j, x) = ChildIn(t, j, x)
      BY <3>1, Zenon DEF ChildIn
    <3>3. ChildIn(t, j, x) # i
      <4>1. Named(t, j, x) \in SUBSET Nat
        BY DEF Named, Indices
      <4>2. Named(t, j, x) # {} => Min(Named(t, j, x)) \in Named(t, j, x)
        BY <4>1, MinIs
      <4>. QED  BY <1>1, <2>2, <4>2 DEF ChildIn
    <3>. QED  BY <3>2, <3>3
  <2>. QED  BY <2>1, <2>2
<1>5. \A x : ChildIn(t, i, x) = -1 /\ ChildIn(t2, -1, x) = -1 /\ ChildIn(t, -1, x) = -1
  BY <1>3 DEF ChildIn
<1>7. Bad = {}
  <2>. SUFFICES ASSUME Bad # {} PROVE FALSE
    OBVIOUS
  <2>1. PICK n \in Bad : \A m \in Bad : n <= m
    BY Least
  <2>2. PICK x \in Seq(S) : Len(x) = n /\ ~Good(x)
    BY <2>1
  <2>3. x # << >>
    <3>1. Found(t, << >>) = 0 /\ Found(t2, << >>) = 0
      BY FoundRoot
    <3>. QED  BY <2>2, <3>1
  <2>4. Front(x) \in Seq(S) /\ Len(Front(x)) = n - 1 /\ n \in Nat \ {0}
    BY <2>2, <2>3, PathParts
  <2>5. Good(Front(x))
    <3>1. n - 1 \notin Bad /\ n - 1 \in Nat
      <4>. HIDE DEF Bad
      <4>. QED  BY <2>1, <2>4
    <3>. HIDE DEF Good
    <3>. QED  BY <2>4, <3>1
  <2>6. /\ Found(t2, x) = ChildIn(t2, Found(t2, Front(x)), Last(x))
        /\ Found(t, x) = ChildIn(t, Found(t, Front(x)), Last(x))
    BY <2>3, FoundStep, Zenon
  <2>7. CASE Found(t, Front(x)) = i
    BY <1>1, <1>5, <2>2, <2>5, <2>6, <2>7
  <2>8. CASE Found(t, Front(x)) # i /\ Found(t, Front(x)) = -1
    BY <1>1, <1>5, <2>2, <2>5, <2>6, <2>8
  <2>9. CASE Found(t, Front(x)) # i /\ Found(t, Front(x)) # -1
    BY <1>4, <2>2, <2>5, <2>6, <2>9
  <2>. QED  BY <2>7, <2>8, <2>9
<1>8. Len(p) \in Nat /\ Len(p) \notin Bad
  BY <1>7
<1>9. Good(p)
  <2>. HIDE DEF Good
  <2>. QED  BY <1>8
<1>. QED  BY <1>9

-----------------------------------------------------------------------------
(* What a step does to the table.                                          *)

LEMMA AlikeSound ==
  ASSUME NEW t, Sound(t), NEW t2, Alike(t, t2)
  PROVE  Sound(t2)
<1>1. 0 \in Indices
  BY AvfsConstants DEF Indices
<1>2. Tree(t2)
  BY AlikeTree DEF Sound
<1>. QED  BY <1>1, <1>2 DEF Sound, Alike

LEMMA GrownSound ==
  ASSUME NEW t, Sound(t), NEW t2, NEW S, NEW path \in Seq(S), NEW i, NEW f,
         Grown(t, t2, path, i, f), t[f.parent].type = "dir"
  PROVE  Sound(t2)
<1>1. 0 \in Indices /\ 0 \in InUse(t)
  BY AvfsConstants DEF Indices, Sound, InUse
<1>2. i # 0 /\ i \in Indices /\ ~t[i].used
  BY DEF Grown, Sound
<1>3. f.parent \in Indices /\ t[f.parent].used
  <2>1. Front(path) \in Seq(S)
    BY PathParts DEF Grown
  <2>2. Found(t, Front(path)) \in InUse(t)
    BY <1>1, <2>1, FoundIn DEF Grown
  <2>. QED  BY <2>2 DEF Grown, InUse
<1>4. \A j \in Indices \ {0} : t[j].used => t[j].parent # i
  BY <1>2 DEF Sound, Tree
<1>5. \A j \in Indices : t[j].used => ~(t[j].parent = f.parent /\ t[j].name = f.name)
  BY DEF Named, Grown
<1>6. t2[i] = f /\ f.used /\ \A j \in Indices \ {i} : t2[j] = t[j]
  BY DEF Grown
<1>7. Tree(t2)
  <2>1. Tree(t) /\ i # f.parent
    BY <1>2, <1>3 DEF Sound
  <2>. QED  BY <1>2, <1>3, <1>4, <1>5, <1>6, <2>1 DEF Tree
<1>. QED  BY <1>1, <1>2, <1>6, <1>7 DEF Sound

LEMMA ShrunkSound ==
  ASSUME NEW t, Sound(t), NEW t2, NEW i, Shrunk(t, t2, i), t2[0].used
  PROVE  Sound(t2)
<1>1. 0 \in Indices /\ i # 0
  BY AvfsConstants DEF Indices, Shrunk
<1>2. Tree(t2)
  BY DEF Tree, Sound, Shrunk
<1>. QED  BY <1>1, <1>2 DEF Sound, Shrunk

\* A new entry below a directory.
LEMMA EnterGrows ==
  ASSUME BitmapInv, RootStays, NEW path \in Names, ~Exists(path), IsDir(ParentOf(path)),
         FreeEntries # {}, NEW f, f.used, f.parent = ParentOf(path), f.name = Last(path), Enter(f)
  PROVE  /\ Grown(files, files', path, Min(FreeEntries), f)
         /\ files[f.parent].type = "dir"
<1>. DEFINE i == Min(FreeEntries)
<1>1. i \in Indices /\ ~files[i].used
  <2>1. FreeEntries \in SUBSET Nat
    BY DEF FreeEntries, Indices
  <2>2. i \in FreeEntries
    BY <2>1, MinIs
  <2>. QED  BY <2>2 DEF FreeEntries
<1>2. files' = [files EXCEPT ![i] = f]
  BY DEF Enter
<1>. HIDE DEF i
<1>3. files'[i] = f /\ \A j \in Indices \ {i} : files'[j] = files[j]
  BY <1>1, <1>2, Other
<1>4. /\ ParentOf(path) \in Indices /\ files[ParentOf(path)].type = "dir"
      /\ Named(files, ParentOf(path), Last(path)) = {}
  BY NameIsFree
<1>5. path # << >>
  <2>1. Found(files, << >>) = 0
    BY FoundRoot
  <2>2. avfs_find_entry(<< >>) = 0
    BY <2>1, FoundIs
  <2>. QED  BY <2>2 DEF Exists
<1>6. ParentOf(path) = Found(files, Front(path)) /\ ParentOf(path) # -1
  BY FoundIs DEF ParentOf, IsDir
<1>7. Grown(files, files', path, i, f)
  BY <1>1, <1>3, <1>4, <1>5, <1>6 DEF Grown
<1>. QED  BY <1>4, <1>7 DEF i

\* What is removed has no entry below it.
LEMMA RemovedShrinks ==
  ASSUME BitmapInv, Sound(files), NEW i \in Indices, files[i].used, Removable(i),
         NEW path, Removed(i, path)
  PROVE  Shrunk(files, files', i)
<1>1. files' = [files EXCEPT ![i] = Zeroed]
  BY DEF Removed
<1>2. files'[i] = Zeroed /\ \A j \in Indices \ {i} : files'[j] = files[j]
  BY <1>1, Other
<1>3. ~Zeroed.used
  BY DEF Zeroed
<1>4. files[i].type \in {"file", "dir"}
  BY EntryIs
<1>5. \A j \in Indices : files[j].used => files[j].parent # i
  <2>1. CASE files[i].type = "dir"
    BY <2>1 DEF Removable, Empty
  <2>2. CASE files[i].type = "file"
    <3>1. i # -1
      BY DEF Indices
    <3>. QED  BY <2>2, <3>1 DEF Sound, Tree
  <2>. QED  BY <1>4, <2>1, <2>2
<1>. QED  BY <1>2, <1>3, <1>5 DEF Shrunk

\* Entries moved, an entry more, an entry less.
StepKind ==
  \/ Alike(files, files')
  \/ \E path \in Names : \E i, f : Grown(files, files', path, i, f) /\ files[f.parent].type = "dir"
  \/ \E i : Shrunk(files, files', i)

LEMMA KindSound ==
  ASSUME Sound(files), StepKind, RootStays'
  PROVE  Sound(files')
<1>1. files'[0].used
  BY DEF RootStays
<1>2. CASE Alike(files, files')
  BY <1>2, AlikeSound
<1>3. ASSUME NEW path \in Names, NEW i, NEW f, Grown(files, files', path, i, f),
             files[f.parent].type = "dir"
      PROVE  Sound(files')
  BY <1>3, GrownSound DEF Names
<1>4. ASSUME NEW i, Shrunk(files, files', i) PROVE Sound(files')
  BY <1>1, <1>4, ShrunkSound
<1>. QED  BY <1>2, <1>3, <1>4 DEF StepKind

\* A program creates files below directories only (avfs_create_file does not
\* ask: Avfs_known.cfg shows a file with a child).
CreatedBelowDirs ==
  \A p \in FilePaths, size \in Sizes :
    avfs_create_file(p, size) => IsDir(ParentOf(normalize_path(p)))

LEMMA NewFileKind ==
  ASSUME BitmapInv, RootStays, NEW path \in Names, NEW size,
         CanCreate(path, size), IsDir(ParentOf(path)), Enter(NewFile(path, size))
  PROVE  StepKind
<1>. DEFINE f == NewFile(path, size)
<1>1. f.used /\ f.parent = ParentOf(path) /\ f.name = Last(path)
  BY DEF NewFile
<1>2. FreeEntries # {} /\ Enter(f) /\ ~Exists(path)
  BY DEF CanCreate
<1>. HIDE DEF f
<1>. QED  BY <1>1, <1>2, EnterGrows DEF StepKind

LEMMA RemoveKind ==
  ASSUME BitmapInv, RootStays, Sound(files), NEW p \in Paths, avfs_remove_file(p)
  PROVE  StepKind
<1>. DEFINE path == normalize_path(p)
            i    == avfs_find_entry(path)
<1>1. Removable(i) /\ Removed(i, path) /\ i # -1
  BY DEF avfs_remove_file, Removable
<1>2. i \in Indices /\ files[i].used
  BY <1>1, FileReached
<1>. HIDE DEF i, path
<1>. QED  BY <1>1, <1>2, RemovedShrinks DEF StepKind

LEMMA FileCallKind ==
  ASSUME BitmapInv, RootStays, Sound(files), CreatedBelowDirs, FileCall
  PROVE  StepKind
<1>1. PICK p \in FilePaths :
        \/ \E size \in Sizes : avfs_create_file(p, size)
        \/ \E size \in Sizes : truncate_within(p, size)
        \/ \E size \in Sizes : truncate_grows(p, size)
        \/ \E buf \in Buffers : save_new(p, buf)
        \/ \E buf \in Buffers : save_over(p, buf)
        \/ \E buf \in Buffers, offset \in Sizes : avfs_write_file(p, buf, offset)
        \/ \E buf \in Buffers : avfs_append_file(p, buf)
        \/ avfs_remove_file(p)
  BY DEF FileCall
<1>. DEFINE path == normalize_path(p)
            i    == avfs_find_entry(path)
<1>2. path \in Names
  BY InputsAre, NormalIs DEF BitmapInv
<1>3. i # -1 => i \in Indices
  BY <1>2, Reached DEF Names
<1>4. ASSUME NEW size \in Sizes, avfs_create_file(p, size) PROVE StepKind
  <2>1. CanCreate(path, size) /\ Enter(NewFile(path, size)) /\ IsDir(ParentOf(path))
    BY <1>4 DEF avfs_create_file, CreatedBelowDirs
  <2>. HIDE DEF path
  <2>. QED  BY <1>2, <2>1, NewFileKind
<1>5. ASSUME NEW buf \in Buffers, save_new(p, buf) PROVE StepKind
  <2>1. CanCreate(path, Len(buf)) /\ Enter(NewFile(path, Len(buf))) /\ IsDir(ParentOf(path))
    BY <1>5 DEF save_new
  <2>. HIDE DEF path
  <2>. QED  BY <1>2, <2>1, NewFileKind
<1>6. ASSUME i # -1, NEW start, NEW size,
             \/ files' = [files EXCEPT ![i] = [files[i] EXCEPT !.start = start, !.size = size]]
             \/ files' = [files EXCEPT ![i].start = start, ![i].size = size]
             \/ files' = [files EXCEPT ![i].size = size]
      PROVE  StepKind
  <2>. HIDE DEF i
  <2>1. /\ Alike(files, [files EXCEPT ![i] = [files[i] EXCEPT !.start = start, !.size = size]])
        /\ Alike(files, [files EXCEPT ![i].start = start, ![i].size = size])
        /\ Alike(files, [files EXCEPT ![i].size = size])
    BY <1>3, <1>6, AssignedAlike
  <2>2. Alike(files, files')
    BY <1>6, <2>1, Zenon
  <2>. QED  BY <2>2 DEF StepKind
<1>7. ASSUME NEW size \in Sizes, truncate_within(p, size) PROVE StepKind
  <2>1. i # -1 /\ files' = [files EXCEPT ![i].size = size]
    BY <1>7 DEF truncate_within
  <2>. QED  BY <1>6, <2>1
<1>8. ASSUME NEW size \in Sizes, truncate_grows(p, size) PROVE StepKind
  <2>1. i # -1 /\ \E start : files' = [files EXCEPT ![i].start = start, ![i].size = size]
    BY <1>8 DEF truncate_grows
  <2>. HIDE DEF i
  <2>. QED  BY <1>6, <2>1
<1>9. ASSUME NEW buf \in Buffers, save_over(p, buf) PROVE StepKind
  <2>1. i # -1 /\ \E start, size :
          files' = [files EXCEPT ![i] = [files[i] EXCEPT !.start = start, !.size = size]]
    BY <1>9 DEF save_over
  <2>. HIDE DEF i
  <2>. QED  BY <1>6, <2>1
<1>10. ASSUME NEW buf \in Buffers, avfs_append_file(p, buf) PROVE StepKind
  <2>1. i # -1 /\ \E start, size : files' = [files EXCEPT ![i].start = start, ![i].size = size]
    BY <1>10 DEF avfs_append_file
  <2>. HIDE DEF i
  <2>. QED  BY <1>6, <2>1
<1>11. ASSUME NEW buf \in Buffers, NEW offset \in Sizes, avfs_write_file(p, buf, offset)
       PROVE  StepKind
  BY <1>11 DEF avfs_write_file, StepKind, Alike
<1>12. ASSUME avfs_remove_file(p) PROVE StepKind
  BY <1>12, InputsAre, RemoveKind
<1>. QED  BY <1>1, <1>4, <1>5, <1>7, <1>8, <1>9, <1>10, <1>11, <1>12

LEMMA DirCallKind ==
  ASSUME BitmapInv, RootStays, Sound(files), DirCall
  PROVE  StepKind
<1>1. ASSUME NEW p \in DirPaths, avfs_create_dir(p) PROVE StepKind
  <2>. DEFINE path == normalize_path(p)
              f    == [Zeroed EXCEPT !.used = TRUE, !.type = "dir", !.name = Last(path),
                                     !.parent = ParentOf(path)]
  <2>1. path \in Names
    BY InputsAre, NormalIs DEF BitmapInv
  <2>2. ~Exists(path) /\ IsDir(ParentOf(path)) /\ Enter(f) /\ FreeEntries # {}
    BY <1>1 DEF avfs_create_dir
  <2>3. f.used /\ f.name = Last(path) /\ f.parent = ParentOf(path)
    BY DEF Zeroed
  <2>. HIDE DEF path, f
  <2>. QED  BY <2>1, <2>2, <2>3, EnterGrows DEF StepKind
<1>2. ASSUME NEW p \in DirPaths, avfs_remove_file(p) PROVE StepKind
  BY <1>2, InputsAre, RemoveKind
<1>3. ASSUME NEW p \in ChdirPaths, avfs_chdir(p) PROVE StepKind
  BY <1>3 DEF avfs_chdir, StepKind, Alike
<1>. QED  BY <1>1, <1>2, <1>3 DEF DirCall

\* The removals of rm -r: the entry and its path.
LEMMA RmRemovesOne ==
  ASSUME BitmapInv, RootStays, Sound(files), rm_removes
  PROVE  \/ UNCHANGED <<files, data, call>>
         \/ \E T : /\ RmPath(Frame, Entry.name) \in Seq(T) /\ Frame.path \in Seq(T)
                   /\ Shrunk(files, files', Found(files, RmPath(Frame, Entry.name)))
                   /\ Removed(Found(files, RmPath(Frame, Entry.name)), RmPath(Frame, Entry.name))
<1>. DEFINE path == RmPath(Frame, Entry.name)
            i    == avfs_find_entry(path)
<1>1. PICK T, C : Frame \in Frames(T, C)
  BY TopFrame DEF BitmapInv, AtEntry, rm_removes
<1>2. \/ i # -1 /\ Removable(i) /\ Removed(i, path)
      \/ UNCHANGED <<files, data, call>>
  BY DEF rm_removes, Removable
<1>. DEFINE S == T \cup {Entry.name}
<1>3. Frame.path \in Seq(S) /\ Entry.name \in S
  <2>1. Frame.path \in Seq(T)
    BY <1>1 DEF Frames
  <2>. QED  BY <2>1, SeqMonotonic
<1>. HIDE DEF S
<1>4. path \in Seq(S)
  BY <1>3 DEF RmPath
<1>5. i # -1 => i \in Indices /\ files[i].used
  BY <1>4, Reached
<1>6. i = Found(files, path)
  BY FoundIs
<1>. HIDE DEF i, path
<1>7. CASE i # -1 /\ Removable(i) /\ Removed(i, path)
  <2>1. Shrunk(files, files', i)
    BY <1>5, <1>7, RemovedShrinks
  <2>. QED  BY <1>3, <1>4, <1>6, <1>7, <2>1, Zenon DEF path
<1>. QED  BY <1>2, <1>7

LEMMA RmFinishesOne ==
  ASSUME BitmapInv, RootStays, Sound(files), rm_finishes
  PROVE  \E T : /\ Frame.path \in Seq(T)
                /\ Shrunk(files, files', Found(files, Frame.path))
                /\ Removed(Found(files, Frame.path), Frame.path)
<1>. DEFINE path == Frame.path
            i == avfs_find_entry(path)
<1>1. PICK T, C : Frame \in Frames(T, C)
  BY TopFrame DEF BitmapInv, rm_finishes
<1>2. i # -1 /\ Removable(i) /\ Removed(i, path)
  BY DEF rm_finishes, Removable
<1>3. path \in Seq(T)
  BY <1>1 DEF Frames
<1>4. i \in Indices /\ files[i].used
  BY <1>2, <1>3, Reached
<1>5. i = Found(files, path)
  BY FoundIs
<1>. HIDE DEF i, path
<1>6. Shrunk(files, files', i)
  BY <1>2, <1>4, RemovedShrinks
<1>. QED  BY <1>2, <1>3, <1>5, <1>6, Zenon DEF path

LEMMA RmKind ==
  ASSUME BitmapInv, RootStays, Sound(files), Rm
  PROVE  StepKind
<1>1. CASE rm_removes
  BY <1>1, RmRemovesOne DEF StepKind, Alike
<1>2. CASE rm_finishes
  BY <1>2, RmFinishesOne DEF StepKind
<1>3. CASE ~rm_removes /\ ~rm_finishes
  <2>1. UNCHANGED files
    BY <1>3 DEF Rm, rm_starts, rm_skips, rm_descends, rm_gives_up, Called
  <2>. QED  BY <2>1 DEF StepKind, Alike
<1>. QED  BY <1>1, <1>2, <1>3

LEMMA SoundStep ==
  /\ BitmapInv /\ Sound(files) /\ RootStays /\ RootStays'
  /\ [AvfsNext]_vars /\ [CreatedBelowDirs]_vars
  => Sound(files)'
<1>. SUFFICES ASSUME BitmapInv, Sound(files), RootStays, RootStays',
                     [AvfsNext]_vars, [CreatedBelowDirs]_vars
              PROVE  Sound(files')
  BY DEF Sound, Tree
<1>1. CASE UNCHANGED vars
  BY <1>1 DEF vars
<1>2. CASE AvfsNext /\ CreatedBelowDirs
  <2>1. StepKind
    BY <1>2, FileCallKind, DirCallKind, RmKind DEF AvfsNext
  <2>. QED  BY <2>1, KindSound
<1>. QED  BY <1>1, <1>2

LEMMA SoundInit == AvfsInit => Sound(files)
<1>. SUFFICES ASSUME AvfsInit PROVE Sound(files)
  OBVIOUS
<1>1. /\ \A i \in Indices \ {0} : files[i] = Zeroed
      /\ files[0] = Root
  BY AvfsConstants DEF AvfsInit, Indices
<1>2. ~Zeroed.used /\ Root.used /\ Root.parent = -1
  BY DEF Zeroed, Root
<1>. QED  BY <1>1, <1>2 DEF Sound, Tree

-----------------------------------------------------------------------------
(* Names, without any condition: entry 0 may go and its index be taken,    *)
(* and files may be created below files.                                   *)

IsEntry(f) == {"used", "name", "parent"} \subseteq DOMAIN f

Differ(t) == \A i, j \in Indices : i # j /\ t[i].used /\ t[j].used
                                    => ~(t[i].parent = t[j].parent /\ t[i].name = t[j].name)

NamesInv ==
  /\ files = [i \in Indices |-> files[i]] /\ \A i \in Indices : IsEntry(files[i])
  /\ Differ(files) /\ current_dir \in Names

\* An entry that is used only where there was one, in its place and with its
\* name, takes no other's.
LEMMA SamePlace ==
  ASSUME NamesInv, NEW i, NEW f, files' = [files EXCEPT ![i] = f],
         i \in Indices => /\ IsEntry(f)
                          /\ f.used => /\ files[i].used
                                       /\ f.parent = files[i].parent /\ f.name = files[i].name,
         current_dir' \in Names
  PROVE  NamesInv'
<1>1. files' = [j \in Indices |-> IF j = i THEN f ELSE files[j]]
  BY DEF NamesInv
<1>2. files' = [j \in Indices |-> files'[j]] /\ \A j \in Indices : IsEntry(files'[j])
  BY <1>1 DEF NamesInv
<1>3. Differ(files')
  BY <1>1 DEF NamesInv, Differ
<1>. QED  BY <1>2, <1>3 DEF NamesInv

\* A new entry has the name of a path that led nowhere.
LEMMA NewPlace ==
  ASSUME NamesInv, NEW path \in Names, ~Exists(path), ParentOf(path) # -1,
         NEW i, NEW f, files' = [files EXCEPT ![i] = f],
         IsEntry(f), f.name = Last(path), f.parent = ParentOf(path), UNCHANGED current_dir
  PROVE  NamesInv'
<1>1. path # << >>
  <2>1. Found(files, << >>) = 0
    BY FoundRoot
  <2>. QED  BY <2>1, FoundIs DEF Exists
<1>2. ChildIn(files, f.parent, f.name) = -1
  <2>1. Found(files, path) = ChildIn(files, Found(files, Front(path)), Last(path))
    BY <1>1, FoundStep, Zenon DEF Names
  <2>. QED  BY <2>1, FoundIs DEF Exists, ParentOf
<1>3. Named(files, f.parent, f.name) = {}
  <2>. SUFFICES ASSUME Named(files, f.parent, f.name) # {} PROVE FALSE
    OBVIOUS
  <2>1. Named(files, f.parent, f.name) \in SUBSET Nat
    BY AvfsConstants DEF Named, Indices
  <2>2. Min(Named(files, f.parent, f.name)) \in Nat
    BY <2>1, MinIs
  <2>. QED  BY <1>2, <2>2 DEF ChildIn
<1>4. files' = [j \in Indices |-> IF j = i THEN f ELSE files[j]]
  BY DEF NamesInv
<1>5. files' = [j \in Indices |-> files'[j]] /\ \A j \in Indices : IsEntry(files'[j])
  BY <1>4 DEF NamesInv
<1>6. Differ(files')
  BY <1>3, <1>4 DEF NamesInv, Differ, Named
<1>. QED  BY <1>5, <1>6 DEF NamesInv

\* An entry that goes leaves its name free.
LEMMA RemovedNames ==
  ASSUME NamesInv, NEW i, NEW path, Removed(i, path)
  PROVE  NamesInv'
<1>1. IsEntry(Zeroed) /\ ~Zeroed.used
  BY DEF IsEntry, Zeroed
<1>2. files' = [files EXCEPT ![i] = Zeroed] /\ current_dir' \in Names
  BY DEF Removed, NamesInv
<1>. QED  BY <1>1, <1>2, SamePlace

\* Size and start of an entry assigned.
LEMMA AssignedNames ==
  ASSUME NamesInv, NEW i, NEW start, NEW size, UNCHANGED current_dir,
         \/ files' = [files EXCEPT ![i].start = start, ![i].size = size]
         \/ files' = [files EXCEPT ![i].size = size]
         \/ files' = [files EXCEPT ![i] = [files[i] EXCEPT !.start = start, !.size = size]]
  PROVE  NamesInv'
<1>. DEFINE f == [files[i] EXCEPT !.start = start, !.size = size]
            g == [files[i] EXCEPT !.size = size]
<1>1. ASSUME NEW h, files' = [files EXCEPT ![i] = h], h = f \/ h = g, i \in Indices
      PROVE  NamesInv'
  <2>1. IsEntry(files[i])
    BY <1>1 DEF NamesInv
  <2>2. IsEntry(h) /\ h.used = files[i].used /\ h.parent = files[i].parent
        /\ h.name = files[i].name
    <3>1. CASE h = f
      BY <2>1, <3>1 DEF IsEntry
    <3>2. CASE h = g
      BY <2>1, <3>2 DEF IsEntry
    <3>. QED  BY <1>1, <3>1, <3>2
  <2>. QED  BY <1>1, <2>2, SamePlace DEF NamesInv
<1>2. CASE i \in Indices
  <2>1. files' = [files EXCEPT ![i] = f] \/ files' = [files EXCEPT ![i] = g]
    BY <1>2 DEF NamesInv
  <2>. HIDE DEF f, g
  <2>. QED  BY <1>1, <1>2, <2>1
<1>3. CASE i \notin Indices
  <2>1. files' = files
    BY <1>3 DEF NamesInv
  <2>. QED  BY <2>1 DEF NamesInv
<1>. QED  BY <1>2, <1>3

LEMMA FileCallNames ==
  ASSUME NamesInv, FileCall
  PROVE  NamesInv'
<1>1. PICK p \in FilePaths :
        \/ \E size \in Sizes : avfs_create_file(p, size)
        \/ \E size \in Sizes : truncate_within(p, size)
        \/ \E size \in Sizes : truncate_grows(p, size)
        \/ \E buf \in Buffers : save_new(p, buf)
        \/ \E buf \in Buffers : save_over(p, buf)
        \/ \E buf \in Buffers, offset \in Sizes : avfs_write_file(p, buf, offset)
        \/ \E buf \in Buffers : avfs_append_file(p, buf)
        \/ avfs_remove_file(p)
  BY DEF FileCall
<1>. DEFINE path == normalize_path(p)
<1>2. path \in Names
  BY InputsAre, NormalIs DEF NamesInv
<1>. HIDE DEF path
<1>3. ASSUME NEW size, CanCreate(path, size), Enter(NewFile(path, size)), UNCHANGED current_dir
      PROVE  NamesInv'
  <2>1. /\ IsEntry(NewFile(path, size)) /\ NewFile(path, size).name = Last(path)
        /\ NewFile(path, size).parent = ParentOf(path)
    BY DEF IsEntry, NewFile
  <2>2. files' = [files EXCEPT ![Min(FreeEntries)] = NewFile(path, size)]
    BY <1>3 DEF Enter
  <2>3. ~Exists(path) /\ ParentOf(path) # -1
    BY <1>3 DEF CanCreate
  <2>. HIDE DEF NewFile
  <2>. QED  BY <1>2, <1>3, <2>1, <2>2, <2>3, NewPlace
<1>4. ASSUME NEW size \in Sizes, avfs_create_file(p, size) PROVE NamesInv'
  BY <1>3, <1>4 DEF avfs_create_file, path
<1>5. ASSUME NEW size \in Sizes, truncate_within(p, size) PROVE NamesInv'
  BY <1>5, AssignedNames DEF truncate_within
<1>6. ASSUME NEW size \in Sizes, truncate_grows(p, size) PROVE NamesInv'
  BY <1>6, AssignedNames DEF truncate_grows
<1>7. ASSUME NEW buf \in Buffers, save_new(p, buf) PROVE NamesInv'
  BY <1>3, <1>7 DEF save_new, path
<1>8. ASSUME NEW buf \in Buffers, save_over(p, buf) PROVE NamesInv'
  BY <1>8, AssignedNames DEF save_over
<1>9. ASSUME NEW buf \in Buffers, NEW offset \in Sizes, avfs_write_file(p, buf, offset)
      PROVE  NamesInv'
  BY <1>9 DEF avfs_write_file, NamesInv
<1>10. ASSUME NEW buf \in Buffers, avfs_append_file(p, buf) PROVE NamesInv'
  BY <1>10, AssignedNames DEF avfs_append_file
<1>11. ASSUME avfs_remove_file(p) PROVE NamesInv'
  BY <1>11, RemovedNames DEF avfs_remove_file
<1>. QED  BY <1>1, <1>4, <1>5, <1>6, <1>7, <1>8, <1>9, <1>10, <1>11

LEMMA DirCallNames ==
  ASSUME NamesInv, DirCall
  PROVE  NamesInv'
<1>1. ASSUME NEW p \in DirPaths, avfs_create_dir(p) PROVE NamesInv'
  <2>. DEFINE path == normalize_path(p)
              f == [Zeroed EXCEPT !.used = TRUE, !.type = "dir", !.name = Last(path),
                                  !.parent = ParentOf(path)]
  <2>1. path \in Names
    BY InputsAre, NormalIs DEF NamesInv
  <2>2. /\ ~Exists(path) /\ ParentOf(path) # -1
        /\ files' = [files EXCEPT ![Min(FreeEntries)] = f] /\ UNCHANGED current_dir
    <3>1. ~Exists(path) /\ IsDir(ParentOf(path)) /\ Enter(f) /\ UNCHANGED current_dir
      BY <1>1 DEF avfs_create_dir
    <3>. HIDE DEF path, f
    <3>. QED  BY <3>1 DEF Enter, IsDir
  <2>3. IsEntry(f) /\ f.name = Last(path) /\ f.parent = ParentOf(path)
    <3>. HIDE DEF path
    <3>. QED  BY DEF IsEntry, Zeroed
  <2>. HIDE DEF path, f
  <2>. QED  BY <2>1, <2>2, <2>3, NewPlace
<1>2. ASSUME NEW p \in DirPaths, avfs_remove_file(p) PROVE NamesInv'
  BY <1>2, RemovedNames DEF avfs_remove_file
<1>3. ASSUME NEW p \in ChdirPaths, avfs_chdir(p) PROVE NamesInv'
  <2>1. normalize_path(p) \in Names
    BY InputsAre, NormalIs DEF NamesInv
  <2>. QED  BY <1>3, <2>1 DEF avfs_chdir, NamesInv
<1>. QED  BY <1>1, <1>2, <1>3 DEF DirCall

LEMMA RmNames ==
  ASSUME NamesInv, Rm
  PROVE  NamesInv'
<1>1. ASSUME UNCHANGED <<files, current_dir>> PROVE NamesInv'
  BY <1>1 DEF NamesInv
<1>2. ASSUME NEW p \in RmPaths, NEW force \in BOOLEAN, rm_starts(p, force) PROVE NamesInv'
  BY <1>1, <1>2 DEF rm_starts, Called
<1>3. CASE rm_skips
  BY <1>1, <1>3 DEF rm_skips
<1>4. CASE rm_descends
  BY <1>1, <1>4 DEF rm_descends, Called
<1>5. CASE rm_removes
  BY <1>1, <1>5, RemovedNames DEF rm_removes
<1>6. CASE rm_finishes
  BY <1>6, RemovedNames DEF rm_finishes
<1>7. CASE rm_gives_up
  BY <1>1, <1>7 DEF rm_gives_up
<1>. QED  BY <1>2, <1>3, <1>4, <1>5, <1>6, <1>7 DEF Rm

LEMMA NamesInvInit == AvfsInit => NamesInv
<1>. SUFFICES ASSUME AvfsInit PROVE NamesInv
  OBVIOUS
<1>1. files = [i \in Indices |-> IF i = 0 THEN Root ELSE Zeroed] /\ current_dir = << >>
  BY DEF AvfsInit
<1>2. IsEntry(Root) /\ IsEntry(Zeroed) /\ ~Zeroed.used
  BY DEF IsEntry, Root, Zeroed
<1>3. \A i \in Indices : files[i] = IF i = 0 THEN Root ELSE Zeroed
  BY <1>1
<1>4. files = [i \in Indices |-> files[i]]
  BY <1>1
<1>5. \A i \in Indices : IsEntry(files[i])
  BY <1>2, <1>3
<1>6. Differ(files)
  <2>1. \A i \in Indices : files[i].used => i = 0
    BY <1>2, <1>3
  <2>. QED  BY <2>1 DEF Differ
<1>7. current_dir \in Names
  BY <1>1, EmptySeq DEF Names
<1>. QED  BY <1>4, <1>5, <1>6, <1>7 DEF NamesInv

\* No two entries with one parent index ever have one name, whatever is
\* created, removed and created again, the root and files below files included.
THEOREM NamesStayUnique == AvfsSpec => []NamesUnique
<1>1. NamesInv => NamesUnique
  BY DEF NamesInv, Differ, NamesUnique
<1>2. NamesInv /\ [AvfsNext]_vars => NamesInv'
  <2>. SUFFICES ASSUME NamesInv, [AvfsNext]_vars PROVE NamesInv'
    OBVIOUS
  <2>1. CASE UNCHANGED vars
    BY <2>1 DEF vars, NamesInv
  <2>2. CASE AvfsNext
    BY <2>2, FileCallNames, DirCallNames, RmNames DEF AvfsNext
  <2>. QED  BY <2>1, <2>2
<1>. QED  BY <1>1, <1>2, NamesInvInit, PTL DEF AvfsSpec

-----------------------------------------------------------------------------
(* rm -r stays inside the directory it was given.                          *)

BytesIn(d, f) == [n \in 1 .. f.size |-> d[AddressOf(f) + n - 1]]

\* The file at a path.
FileIn(t, d, path) ==
  IF Found(t, path) # -1 /\ t[Found(t, path)].type = "file"
  THEN BytesIn(d, t[Found(t, path)]) ELSE NoFile

LEMMA FileAtIs == \A k : /\ FileAt(k) = FileIn(files, data, k)
                         /\ FileAt(k)' = FileIn(files', data', k)
<1>. TAKE k
<1>1. FileAt(k) = FileIn(files, data, k)
  BY FoundIs, Zenon DEF FileAt, FileIn, Bytes, BytesIn
<1>2. FileAt(k)' = FileIn(files', data', k)
  BY FoundIs, Zenon DEF FileAt, FileIn, Bytes, BytesIn
<1>. QED  BY <1>1, <1>2

\* A removal leaves the files at other paths.
LEMMA OthersStay ==
  ASSUME NEW t, Sound(t), NEW t2, NEW S, NEW path \in Seq(S), NEW k \in Seq(S), k # path,
         Found(t, path) # 0, Shrunk(t, t2, Found(t, path)), NEW d
  PROVE  FileIn(t2, d, k) = FileIn(t, d, k)
<1>. DEFINE i == Found(t, path)
<1>1. i \in Indices /\ i # 0 /\ i # -1 /\ Shrunk(t, t2, i)
  BY DEF Shrunk, Indices
<1>2. Found(t, k) # i
  BY <1>1, OnePath
<1>. HIDE DEF i
<1>3. Found(t2, k) = Found(t, k)
  BY <1>1, <1>2, FoundShrunk
<1>4. CASE Found(t, k) = -1
  BY <1>3, <1>4, Zenon DEF FileIn
<1>5. CASE Found(t, k) # -1
  <2>1. Found(t, k) \in InUse(t)
    <3>1. 0 \in InUse(t)
      BY AvfsConstants DEF Sound, InUse, Indices
    <3>. QED  BY <1>5, <3>1, FoundIn
  <2>2. t2[Found(t, k)] = t[Found(t, k)]
    BY <1>1, <1>2, <2>1 DEF Shrunk, InUse
  <2>. QED  BY <1>3, <2>2, Zenon DEF FileIn
<1>. QED  BY <1>4, <1>5

Inside(target, T, C) == {f \in Frames(T, C) : IsPrefix(target, f.path)}

\* The frames work below the directory the first of them was given.
RmInside ==
  rm # << >> => \E T, C : RmTarget \in Seq(T) /\ rm \in Seq(Inside(RmTarget, T, C))

LEMMA PrefixOfLonger ==
  ASSUME NEW S, NEW s \in Seq(S), NEW p \in Seq(S), NEW x \in S
  PROVE  IsPrefix(s, s) /\ (IsPrefix(s, p) => IsPrefix(s, Append(p, x)))
<1>1. IsPrefix(s, s)
  BY DEF IsPrefix
<1>2. ASSUME IsPrefix(s, p) PROVE IsPrefix(s, Append(p, x))
  <2>1. /\ Len(s) \in Nat /\ Len(p) \in Nat /\ Len(s) <= Len(p)
        /\ SubSeq(s, 1, Len(s)) = SubSeq(p, 1, Len(s))
    BY <1>2 DEF IsPrefix
  <2>2. Append(p, x) \in Seq(S) /\ Len(Append(p, x)) = Len(p) + 1
    OBVIOUS
  <2>3. \A k \in 1 .. Len(p) : Append(p, x)[k] = p[k]
    OBVIOUS
  <2>. DEFINE q == Append(p, x)
              n == Len(s)
  <2>. HIDE DEF q, n
  <2>4. SubSeq(p, 1, n) \in Seq(S) /\ Len(SubSeq(p, 1, n)) = n
        /\ \A k \in 1 .. n : SubSeq(p, 1, n)[k] = p[k]
    BY <2>1 DEF n
  <2>5. SubSeq(q, 1, n) \in Seq(S) /\ Len(SubSeq(q, 1, n)) = n
        /\ \A k \in 1 .. n : SubSeq(q, 1, n)[k] = q[k]
    BY <2>1, <2>2 DEF n, q
  <2>6. \A k \in 1 .. n : SubSeq(p, 1, n)[k] = SubSeq(q, 1, n)[k]
    BY <2>1, <2>3, <2>4, <2>5 DEF q, n
  <2>7. SubSeq(p, 1, n) = SubSeq(q, 1, n)
    BY <2>4, <2>5, <2>6, SeqEqual
  <2>8. n <= Len(q)
    BY <2>1, <2>2 DEF n, q
  <2>9. SubSeq(s, 1, n) = SubSeq(q, 1, n)
    BY <2>1, <2>7 DEF n
  <2>10. Len(s) <= Len(q) /\ SubSeq(s, 1, Len(s)) = SubSeq(q, 1, Len(s))
    BY <2>8, <2>9 DEF n
  <2>11. IsPrefix(s, q)
    BY <2>10 DEF IsPrefix
  <2>. QED  BY <2>11 DEF q
<1>3. IsPrefix(s, p) => IsPrefix(s, Append(p, x))
  BY <1>2, Zenon
<1>. QED  BY <1>1, <1>3, Zenon

LEMMA TopInside ==
  ASSUME RmInside, rm # << >>
  PROVE  \E T, C : /\ RmTarget \in Seq(T)
                   /\ Frame \in Inside(RmTarget, T, C)
                   /\ Tail(rm) \in Seq(Inside(RmTarget, T, C))
                   /\ Advanced \in Seq(Inside(RmTarget, T, C))
                   /\ Advanced # << >> /\ Last(Advanced).path = RmTarget
                   /\ Tail(rm) # << >> => Last(Tail(rm)).path = RmTarget
<1>1. PICK T, C : RmTarget \in Seq(T) /\ rm \in Seq(Inside(RmTarget, T, C))
  BY DEF RmInside
<1>. DEFINE X == Inside(RmTarget, T, C)
            g == [Frame EXCEPT !.next = @ + 1]
            a == Advanced
<1>2. rm \in Seq(X) /\ Len(rm) \in Nat \ {0}
  BY <1>1, EmptySeq
<1>3. Frame \in X /\ Tail(rm) \in Seq(X) /\ Len(Tail(rm)) = Len(rm) - 1
      /\ (\A n \in 1 .. Len(Tail(rm)) : Tail(rm)[n] = rm[n + 1]) /\ Frame = rm[1]
  <2>. HIDE DEF X
  <2>1. Frame = rm[1]
    BY <1>2 DEF Frame
  <2>. QED  BY <1>2, <2>1, HeadTailProperties DEF Frame
<1>4. g \in X /\ g.path = Frame.path
  <2>. DEFINE h == Frame
  <2>1. h \in Frames(T, C) /\ IsPrefix(RmTarget, h.path)
    BY <1>3 DEF Inside
  <2>. HIDE DEF h
  <2>2. /\ [h EXCEPT !.next = @ + 1] \in Frames(T, C)
        /\ [h EXCEPT !.next = @ + 1].path = h.path
    BY <2>1 DEF Frames
  <2>. QED  BY <2>1, <2>2 DEF h, Inside
<1>. HIDE DEF X, g
<1>5. a = <<g>> \o Tail(rm) /\ <<g>> \in Seq(X) /\ Len(<<g>>) = 1 /\ <<g>>[1] = g
  BY <1>4 DEF g, Advanced
<1>. HIDE DEF a
<1>6. /\ a \in Seq(X) /\ Len(a) = Len(rm)
      /\ \A n \in 1 .. Len(rm) : a[n] = IF n <= 1 THEN g ELSE Tail(rm)[n - 1]
  <2>. DEFINE u == <<g>>
              v == Tail(rm)
  <2>1. u \in Seq(X) /\ v \in Seq(X) /\ a = u \o v /\ Len(u) = 1 /\ u[1] = g
    BY <1>3, <1>5
  <2>2. Len(v) = Len(rm) - 1
    BY <1>3
  <2>. HIDE DEF u, v
  <2>3. /\ a \in Seq(X) /\ Len(a) = Len(u) + Len(v)
        /\ \A n \in 1 .. Len(u) + Len(v) : a[n] = IF n <= Len(u) THEN u[n] ELSE v[n - Len(u)]
    BY <2>1, ConcatProperties
  <2>. QED  BY <1>2, <2>1, <2>2, <2>3 DEF v
<1>7. RmTarget = rm[Len(rm)].path
  BY DEF RmTarget, Last
<1>8. Last(a).path = RmTarget /\ a # << >>
  <2>1. Last(a) = a[Len(rm)] /\ a # << >>
    BY <1>2, <1>6, EmptySeq DEF Last
  <2>2. CASE Len(rm) = 1
    BY <1>2, <1>3, <1>4, <1>6, <1>7, <2>1, <2>2
  <2>3. CASE Len(rm) > 1
    <3>1. a[Len(rm)] = Tail(rm)[Len(rm) - 1] /\ Tail(rm)[Len(rm) - 1] = rm[Len(rm)]
      BY <1>2, <1>3, <1>6, <2>3
    <3>. QED  BY <1>7, <2>1, <3>1
  <2>4. Len(rm) = 1 \/ Len(rm) > 1
    <3>1. \A n \in Nat \ {0} : n = 1 \/ n > 1
      OBVIOUS
    <3>. QED  BY <1>2, <3>1, Zenon
  <2>. QED  BY <2>2, <2>3, <2>4, Zenon
<1>9. Tail(rm) # << >> => Last(Tail(rm)).path = RmTarget
  <2>. SUFFICES ASSUME Tail(rm) # << >> PROVE Last(Tail(rm)).path = RmTarget
    OBVIOUS
  <2>1. Len(Tail(rm)) \in Nat \ {0}
    BY <1>3, EmptySeq
  <2>2. Tail(rm)[Len(rm) - 1] = rm[Len(rm)]
    BY <1>2, <1>3, <2>1
  <2>3. Last(Tail(rm)) = Tail(rm)[Len(rm) - 1]
    BY <1>3 DEF Last
  <2>. QED  BY <1>7, <2>2, <2>3
<1>. QED  BY <1>1, <1>3, <1>6, <1>8, <1>9 DEF X, a

\* A frame more below the target, or the first frame.
LEMMA CalledInside ==
  ASSUME NEW target, NEW T, NEW C, NEW below \in Seq(Inside(target, T, C)), target \in Seq(T),
         NEW path \in Seq(T), IsPrefix(target, path), NEW force \in BOOLEAN,
         Called(path, force, below),
         below = << >> => path = target, below # << >> => Last(below).path = target
  PROVE  RmInside'
<1>. DEFINE n == Len(avfs_list_directory(avfs_find_entry(path)))
            f == [path |-> path, next |-> 1, count |-> n, force |-> force]
            D == C \cup {n}
            F == Inside(target, T, D)
<1>1. rm' = <<f>> \o below
  BY DEF Called
<1>. HIDE DEF n
<1>2. f \in F /\ f.path = path
  BY DEF Frames, Inside
<1>3. Inside(target, T, C) \subseteq F
  BY DEF Inside, Frames
<1>4. below \in Seq(F)
  BY <1>3, SeqMonotonic
<1>5. <<f>> \in Seq(F) /\ Len(<<f>>) = 1 /\ <<f>>[1] = f
  BY <1>2
<1>. HIDE DEF F, f
<1>6. /\ rm' \in Seq(F) /\ Len(rm') = 1 + Len(below) /\ Len(below) \in Nat
      /\ \A k \in 1 .. 1 + Len(below) : rm'[k] = IF k <= 1 THEN f ELSE below[k - 1]
  <2>. DEFINE u == <<f>>
  <2>1. u \in Seq(F) /\ Len(u) = 1 /\ u[1] = f /\ rm' = u \o below
    BY <1>1, <1>5
  <2>. HIDE DEF u
  <2>2. /\ u \o below \in Seq(F) /\ Len(u \o below) = Len(u) + Len(below)
        /\ \A k \in 1 .. Len(u) + Len(below) :
             (u \o below)[k] = IF k <= Len(u) THEN u[k] ELSE below[k - Len(u)]
    BY <1>4, <2>1, ConcatProperties
  <2>. QED  BY <1>4, <2>1, <2>2
<1>7. Last(rm').path = target
  <2>1. Last(rm') = rm'[1 + Len(below)]
    BY <1>6 DEF Last
  <2>2. CASE below = << >>
    <3>1. Len(below) = 0
      BY <2>2
    <3>2. rm'[1] = f
      BY <1>6, <3>1
    <3>. QED  BY <1>2, <2>1, <2>2, <3>1, <3>2
  <2>3. CASE below # << >>
    <3>1. Len(below) \in Nat \ {0}
      BY <2>3, EmptySeq
    <3>2. rm'[1 + Len(below)] = below[Len(below)]
      BY <1>6, <3>1
    <3>. QED  BY <2>1, <2>3, <3>2 DEF Last
  <2>. QED  BY <2>2, <2>3
<1>8. RmTarget' = target
  BY <1>7 DEF RmTarget
<1>9. \E U, E : target \in Seq(U) /\ rm' \in Seq(Inside(target, U, E))
  BY <1>6 DEF F
<1>. QED  BY <1>8, <1>9 DEF RmInside

\* The other calls wait while rm walks.
LEMMA CallsWait == FileCall \/ DirCall => rm = << >> /\ rm' = rm
<1>1. ASSUME NEW p, NEW x, NEW y
      PROVE  \/ avfs_create_file(p, x) \/ truncate_within(p, x) \/ truncate_grows(p, x)
             \/ save_new(p, x) \/ save_over(p, x) \/ avfs_write_file(p, x, y)
             \/ avfs_append_file(p, x)
             => Idle
  <2>1. avfs_create_file(p, x) \/ truncate_within(p, x) \/ truncate_grows(p, x) => Idle
    BY DEF avfs_create_file, truncate_within, truncate_grows
  <2>2. save_new(p, x) \/ save_over(p, x) \/ avfs_write_file(p, x, y) => Idle
    BY DEF save_new, save_over, avfs_write_file
  <2>3. avfs_append_file(p, x) => Idle
    BY DEF avfs_append_file
  <2>. QED  BY <2>1, <2>2, <2>3
<1>2. ASSUME NEW p PROVE avfs_remove_file(p) \/ avfs_create_dir(p) \/ avfs_chdir(p) => Idle
  BY DEF avfs_remove_file, avfs_create_dir, avfs_chdir
<1>3. FileCall \/ DirCall => Idle
  BY <1>1, <1>2, Zenon DEF FileCall, DirCall
<1>. QED  BY <1>3 DEF Idle

LEMMA RmInsideInit == AvfsInit => RmInside
BY DEF AvfsInit, RmInside

LEMMA RmStaysInsideStep ==
  ASSUME BitmapInv, RmInside, [AvfsNext]_vars
  PROVE  RmInside'
<1>1. CASE rm' = rm
  BY <1>1 DEF RmInside, RmTarget
<1>2. CASE rm' = << >>
  BY <1>2 DEF RmInside
<1>3. ASSUME NEW p \in RmPaths, NEW force \in BOOLEAN, rm_starts(p, force) PROVE RmInside'
  <2>. DEFINE path == normalize_path(p)
  <2>1. path \in Seq(STRING) /\ Called(path, force, << >>)
    BY <1>3, InputsAre, NormalIs DEF BitmapInv, Names, rm_starts
  <2>. HIDE DEF path
  <2>2. IsPrefix(path, path)
    BY <2>1 DEF IsPrefix
  <2>3. << >> \in Seq(Inside(path, STRING, {}))
    BY EmptySeq
  <2>. QED  BY <2>1, <2>2, <2>3, CalledInside
<1>4. CASE rm # << >> /\ rm' = Advanced
  <2>1. PICK T, C : /\ RmTarget \in Seq(T) /\ Advanced \in Seq(Inside(RmTarget, T, C))
                    /\ Last(Advanced).path = RmTarget
    BY <1>4, TopInside
  <2>2. RmTarget' = RmTarget
    BY <1>4, <2>1 DEF RmTarget
  <2>3. RmTarget' \in Seq(T) /\ rm' \in Seq(Inside(RmTarget', T, C))
    BY <1>4, <2>1, <2>2
  <2>. QED  BY <2>3 DEF RmInside
<1>5. CASE rm # << >> /\ rm' = Tail(rm)
  <2>. SUFFICES ASSUME Tail(rm) # << >> PROVE RmInside'
    BY <1>2, <1>5
  <2>1. PICK T, C : /\ RmTarget \in Seq(T) /\ Tail(rm) \in Seq(Inside(RmTarget, T, C))
                    /\ Last(Tail(rm)).path = RmTarget
    BY <1>5, TopInside
  <2>2. RmTarget' = RmTarget
    BY <1>5, <2>1 DEF RmTarget
  <2>3. RmTarget' \in Seq(T) /\ rm' \in Seq(Inside(RmTarget', T, C))
    BY <1>5, <2>1, <2>2
  <2>. QED  BY <2>3 DEF RmInside
<1>6. CASE rm_descends
  <2>. DEFINE x    == Entry.name
              path == RmPath(Frame, x)
  <2>1. rm # << >> /\ Called(path, Frame.force, Advanced)
    BY <1>6 DEF rm_descends, AtEntry
  <2>2. PICK T, C : /\ RmTarget \in Seq(T) /\ Frame \in Inside(RmTarget, T, C)
                    /\ Advanced \in Seq(Inside(RmTarget, T, C))
                    /\ Advanced # << >> /\ Last(Advanced).path = RmTarget
    BY <2>1, TopInside
  <2>. HIDE DEF x
  <2>. DEFINE U == T \cup {x}
  <2>3. /\ Frame.path \in Seq(T) /\ Frame.force \in BOOLEAN /\ IsPrefix(RmTarget, Frame.path)
    BY <2>2 DEF Inside, Frames
  <2>4. RmTarget \in Seq(U) /\ Frame.path \in Seq(U) /\ x \in U
    BY <2>2, <2>3, SeqMonotonic
  <2>5. Advanced \in Seq(Inside(RmTarget, U, C))
    <3>1. Inside(RmTarget, T, C) \subseteq Inside(RmTarget, U, C)
      <4>. SUFFICES ASSUME NEW g \in Inside(RmTarget, T, C) PROVE g \in Inside(RmTarget, U, C)
        OBVIOUS
      <4>1. g \in Frames(T, C) /\ g.path \in Seq(T) /\ IsPrefix(RmTarget, g.path)
        BY DEF Inside, Frames
      <4>2. g.path \in Seq(U)
        BY <4>1, SeqMonotonic
      <4>3. g \in Frames(U, C)
        BY <4>1, <4>2 DEF Frames
      <4>. QED  BY <4>1, <4>3 DEF Inside
    <3>. QED  BY <2>2, <3>1, SeqMonotonic
  <2>. HIDE DEF U
  <2>6. Append(Frame.path, x) \in Seq(U) /\ IsPrefix(RmTarget, Append(Frame.path, x))
    BY <2>3, <2>4, PrefixOfLonger
  <2>7. path \in Seq(U) /\ IsPrefix(RmTarget, path)
    BY <2>6, Zenon DEF RmPath
  <2>. HIDE DEF path
  <2>. QED  BY <2>1, <2>2, <2>3, <2>4, <2>5, <2>7, CalledInside
<1>7. CASE AvfsNext
  <2>1. CASE FileCall
    BY <1>1, <2>1, CallsWait
  <2>2. CASE DirCall
    BY <1>1, <2>2, CallsWait
  <2>3. CASE rm_skips \/ rm_removes
    <3>1. rm # << >> /\ rm' = Advanced
      BY <2>3 DEF rm_skips, rm_removes, AtEntry
    <3>. QED  BY <1>4, <3>1
  <2>4. CASE rm_finishes
    BY <1>5, <2>4 DEF rm_finishes
  <2>5. CASE rm_gives_up
    BY <1>2, <2>5 DEF rm_gives_up
  <2>. QED  BY <1>3, <1>6, <1>7, <2>1, <2>2, <2>3, <2>4, <2>5 DEF AvfsNext, Rm
<1>. QED  BY <1>1, <1>7 DEF vars

LEMMA KeysAre == Keys \subseteq Seq(STRING)
<1>. SUFFICES ASSUME NEW k \in Keys PROVE k \in Seq(STRING)
  OBVIOUS
<1>1. PICK p \in FilePaths : k = p.parts
  BY DEF Keys
<1>2. p \in Paths
  BY InputsAre
<1>. QED  BY <1>1, <1>2 DEF Paths, Names

\* One entry taken away, below the target.
LEMMA TakenInside ==
  ASSUME Sound(files), RootStays', NEW T, NEW path \in Seq(T), RmTarget \in Seq(T),
         IsPrefix(RmTarget, path), Shrunk(files, files', Found(files, path)), data' = data,
         NEW k \in Keys, ~IsPrefix(RmTarget, k)
  PROVE  FileAt(k)' = FileAt(k)
<1>. DEFINE U == T \cup STRING
<1>1. path \in Seq(U) /\ k \in Seq(U) /\ k # path
  BY KeysAre, SeqMonotonic
<1>2. Found(files, path) # 0
  BY DEF Shrunk, RootStays
<1>. HIDE DEF U
<1>3. FileIn(files', data, k) = FileIn(files, data, k)
  BY <1>1, <1>2, OthersStay
<1>. QED  BY <1>3, FileAtIs

LEMMA RmStep ==
  ASSUME BitmapInv, Sound(files), RmInside, RootStays, RootStays', [AvfsNext]_vars,
         rm # << >>, NEW k \in Keys, ~IsPrefix(RmTarget, k)
  PROVE  FileAt(k)' = FileAt(k)
<1>1. CASE files' = files /\ data' = data
  BY <1>1, FileAtIs
<1>2. CASE rm_removes
  <2>. DEFINE x    == Entry.name
              path == RmPath(Frame, x)
  <2>1. CASE ~UNCHANGED <<files, data>>
    <3>1. PICK T : /\ path \in Seq(T) /\ Shrunk(files, files', Found(files, path))
                   /\ Removed(Found(files, path), path)
      BY <1>2, <2>1, RmRemovesOne
    <3>2. data' = data
      BY <3>1 DEF Removed
    <3>3. PICK V, C : RmTarget \in Seq(V) /\ Frame \in Inside(RmTarget, V, C)
      BY TopInside
    <3>4. Frame.path \in Seq(V) /\ IsPrefix(RmTarget, Frame.path)
      BY <3>3 DEF Inside, Frames
    <3>. HIDE DEF x
    <3>. DEFINE U == T \cup V \cup {x}
    <3>5. path \in Seq(U) /\ RmTarget \in Seq(U) /\ Frame.path \in Seq(U) /\ x \in U
      BY <3>1, <3>3, <3>4, SeqMonotonic
    <3>. HIDE DEF U
    <3>6. IsPrefix(RmTarget, Append(Frame.path, x))
      BY <3>4, <3>5, PrefixOfLonger
    <3>7. IsPrefix(RmTarget, path)
      BY <3>6, Zenon DEF RmPath
    <3>. HIDE DEF path
    <3>. QED  BY <3>1, <3>2, <3>5, <3>7, TakenInside
  <2>. QED  BY <1>1, <2>1
<1>3. CASE rm_finishes
  <2>. DEFINE path == Frame.path
  <2>1. PICK T : /\ path \in Seq(T) /\ Shrunk(files, files', Found(files, path))
                 /\ Removed(Found(files, path), path)
    BY <1>3, RmFinishesOne
  <2>2. data' = data
    BY <2>1 DEF Removed
  <2>3. PICK V, C : RmTarget \in Seq(V) /\ Frame \in Inside(RmTarget, V, C)
    BY TopInside
  <2>4. IsPrefix(RmTarget, path)
    BY <2>3 DEF Inside
  <2>. DEFINE U == T \cup V
  <2>5. path \in Seq(U) /\ RmTarget \in Seq(U)
    BY <2>1, <2>3, SeqMonotonic
  <2>. HIDE DEF U, path
  <2>. QED  BY <2>1, <2>2, <2>4, <2>5, TakenInside
<1>4. CASE AvfsNext /\ ~rm_removes /\ ~rm_finishes
  <2>1. ~FileCall /\ ~DirCall
    BY CallsWait
  <2>2. files' = files /\ data' = data
    BY <1>4, <2>1 DEF AvfsNext, Rm, rm_starts, rm_skips, rm_descends, rm_gives_up, Called
  <2>. QED  BY <1>1, <2>2
<1>. QED  BY <1>1, <1>2, <1>3, <1>4 DEF vars

\* As long as entry 0 is the root and files are created below directories,
\* rm -r changes no file outside the directory it was given, although the
\* listing it walks is one static array that a deeper call overwrites.
THEOREM RmOnlyInside ==
  AvfsSpec /\ []RootStays /\ [][CreatedBelowDirs]_vars => RmStaysInside
<1>. DEFINE Stays == rm # << >> => \A k \in Keys : ~IsPrefix(RmTarget, k) => FileAt(k)' = FileAt(k)
<1>1. BitmapInv /\ Sound(files) /\ RmInside /\ RootStays /\ RootStays' /\ [AvfsNext]_vars
        => [Stays]_vars
  BY RmStep
<1>2. BitmapInv /\ RmInside /\ [AvfsNext]_vars => RmInside'
  BY RmStaysInsideStep
<1>. QED  BY <1>1, <1>2, BitmapInvInit, BitmapInvStep, SoundInit, SoundStep, RmInsideInit, PTL
          DEF AvfsSpec, RmStaysInside

-----------------------------------------------------------------------------
(* The refinement of FileStore.  First, where the bytes of a file lie.     *)

LEMMA Multiples ==
  ASSUME NEW a \in Nat, NEW b \in Nat, NEW m \in Nat, a <= b
  PROVE  a * m \in Nat /\ b * m \in Nat /\ a * m <= b * m
OBVIOUS

\* A file's bytes fit into its blocks.
LEMMA Fits ==
  ASSUME NEW size \in Nat
  PROVE  /\ BlocksFor(size) \in Nat \ {0}
         /\ BlocksFor(size) * AVFS_BLOCK_SIZE \in Nat
         /\ size <= BlocksFor(size) * AVFS_BLOCK_SIZE
<1>. DEFINE b == AVFS_BLOCK_SIZE
            x == size + b - 1
            q == x \div b
            r == x % b
            n == BlocksFor(size)
<1>1. b \in Nat \ {0} /\ x \in Nat
  BY AvfsConstants
<1>2. q \in Int /\ r \in 0 .. b - 1 /\ x = b * q + r
  <2>. HIDE DEF x, b
  <2>. QED  BY <1>1
<1>3. n \in Nat \ {0} /\ n = IF q = 0 THEN 1 ELSE q
  BY BlocksForIs DEF BlocksFor
<1>. HIDE DEF q, r, n
<1>4. size <= b * q
  BY <1>1, <1>2 DEF x
<1>. HIDE DEF b, x
<1>5. CASE q = 0
  <2>1. n = 1 /\ size <= 0
    BY <1>1, <1>3, <1>4, <1>5
  <2>2. n * b = b
    BY <1>1, <2>1
  <2>. QED  BY <1>1, <1>3, <2>1, <2>2 DEF n, b
<1>6. CASE q # 0
  <2>1. n * b = b * q
    BY <1>1, <1>2, <1>3, <1>6
  <2>2. n * b \in Nat
    BY <1>1, <1>3
  <2>. QED  BY <1>3, <1>4, <2>1, <2>2 DEF n, b
<1>. QED  BY <1>5, <1>6

\* Its cells, in the storage.
Address(start) == start * AVFS_BLOCK_SIZE

LEMMA Held ==
  ASSUME NEW start, start \in Nat, NEW size, size \in Nat,
         RunAt(start, BlocksFor(size)) \subseteq Blocks
  PROVE  /\ Address(start) \in Nat
         /\ \A c : c \in Int /\ Address(start) <= c /\ c < Address(start) + size => c \in Cells
<1>. DEFINE n == BlocksFor(size)
            b == AVFS_BLOCK_SIZE
            m == AVFS_NUM_BLOCKS
<1>1. b \in Nat \ {0} /\ m \in Nat \ {0} /\ n \in Nat \ {0} /\ n * b \in Nat /\ size <= n * b
  BY AvfsConstants, Fits
<1>2. start + n <= m
  <2>1. n \in Nat \ {0} /\ m \in Nat
    BY <1>1
  <2>2. RunAt(start, n) \subseteq Blocks
    OBVIOUS
  <2>. HIDE DEF n
  <2>3. start + n - 1 \in RunAt(start, n)
    BY <2>1 DEF RunAt
  <2>4. start + n - 1 \in Blocks
    BY <2>2, <2>3
  <2>. QED  BY <2>1, <2>4 DEF Blocks, m
<1>. HIDE DEF n, b, m
<1>3. /\ start * b \in Nat /\ m * b \in Nat
      /\ (start + n) * b <= m * b /\ (start + n) * b = start * b + n * b
  BY <1>1, <1>2
<1>4. Cells = 0 .. m * b - 1 /\ Address(start) = start * b
  BY DEF Cells, Address, m, b
<1>. DEFINE x == start * b
            y == m * b
            z == n * b
<1>5. x \in Nat /\ y \in Nat /\ z \in Nat /\ x + z <= y /\ size <= z
  BY <1>1, <1>3
<1>. HIDE DEF x, y, z
<1>6. \A c : c \in Int /\ x <= c /\ c < x + size => c \in 0 .. y - 1
  BY <1>5
<1>. QED  BY <1>4, <1>5, <1>6 DEF x, y

\* Files in separate runs share no cell.
LEMMA Apart ==
  ASSUME NEW s, s \in Nat, NEW z, z \in Nat, NEW s2, s2 \in Nat, NEW z2, z2 \in Nat,
         RunAt(s, BlocksFor(z)) \cap RunAt(s2, BlocksFor(z2)) = {}
  PROVE  Address(s) + z <= Address(s2) \/ Address(s2) + z2 <= Address(s)
<1>. DEFINE n == BlocksFor(z)
            n2 == BlocksFor(z2)
            b == AVFS_BLOCK_SIZE
<1>1. /\ b \in Nat \ {0} /\ n \in Nat \ {0} /\ n * b \in Nat /\ z <= n * b
      /\ n2 \in Nat \ {0} /\ n2 * b \in Nat /\ z2 <= n2 * b
  BY AvfsConstants, Fits
<1>2. s + n <= s2 \/ s2 + n2 <= s
  <2>1. n \in Nat \ {0} /\ n2 \in Nat \ {0}
    BY <1>1
  <2>2. RunAt(s, n) \cap RunAt(s2, n2) = {}
    OBVIOUS
  <2>. HIDE DEF n, n2
  <2>. SUFFICES ASSUME s2 < s + n, s < s2 + n2 PROVE FALSE
    BY <2>1
  <2>3. CASE s <= s2
    BY <2>1, <2>2, <2>3 DEF RunAt
  <2>4. CASE s2 <= s
    BY <2>1, <2>2, <2>4 DEF RunAt
  <2>. QED  BY <2>3, <2>4
<1>3. Address(s) = s * b /\ Address(s2) = s2 * b
  BY DEF Address
<1>. HIDE DEF n, n2, b
<1>4. CASE s + n <= s2
  <2>1. (s + n) * b <= s2 * b /\ (s + n) * b = s * b + n * b
    BY <1>1, <1>4
  <2>2. s * b + z <= s2 * b
    BY <1>1, <2>1
  <2>. QED  BY <1>3, <2>2
<1>5. CASE s2 + n2 <= s
  <2>1. (s2 + n2) * b <= s * b /\ (s2 + n2) * b = s2 * b + n2 * b
    BY <1>1, <1>5
  <2>2. s2 * b + z2 <= s * b
    BY <1>1, <2>1
  <2>. QED  BY <1>3, <2>2
<1>. QED  BY <1>2, <1>4, <1>5

-----------------------------------------------------------------------------
(* The bytes written and moved.                                            *)

\* The values a byte of the storage may have (those of AvfsTypeOK).
Values   == {0} \cup UNION {Range(buf) : buf \in Buffers}
Bytewise == [Cells -> Values]

LEMMA BuffersAre ==
  Buffers \subseteq Seq(Values) /\ Seq(Values) \subseteq Seq(Nat) /\ 0 \in Values
<1>1. ASSUME NEW buf \in Buffers PROVE buf \in Seq(Values)
  <2>1. buf \in Seq(Nat)
    BY InputsAre
  <2>2. \A n \in 1 .. Len(buf) : buf[n] \in Values
    BY <2>1 DEF Values, Range
  <2>3. Len(buf) \in Nat /\ buf = [n \in 1 .. Len(buf) |-> buf[n]]
    BY <2>1
  <2>4. buf \in [1 .. Len(buf) -> Values]
    BY <2>2, <2>3
  <2>. QED  BY <2>3, <2>4, SeqDef
<1>2. Values \subseteq Nat
  <2>1. ASSUME NEW buf \in Buffers PROVE Range(buf) \subseteq Nat
    <3>1. buf \in Seq(Nat)
      BY InputsAre
    <3>. QED  BY <3>1 DEF Range
  <2>. QED  BY <2>1 DEF Values
<1>3. Seq(Values) \subseteq Seq(Nat)
  BY <1>2, SeqMonotonic
<1>. QED  BY <1>1, <1>3 DEF Values

LEMMA StoredIs ==
  ASSUME NEW d \in Bytewise, NEW at, at \in Nat, NEW buf \in Seq(Values)
  PROVE  /\ Stored(d, at, buf) \in Bytewise
         /\ \A c \in Cells : c < at \/ at + Len(buf) <= c => Stored(d, at, buf)[c] = d[c]
         /\ \A n \in 1 .. Len(buf) : at + n - 1 \in Cells => Stored(d, at, buf)[at + n - 1] = buf[n]
<1>. DEFINE s == Stored(d, at, buf)
<1>1. s = [c \in Cells |-> IF c - at + 1 \in 1 .. Len(buf) THEN buf[c - at + 1] ELSE d[c]]
  BY DEF Stored
<1>. HIDE DEF s
<1>2. Len(buf) \in Nat /\ \A n \in 1 .. Len(buf) : buf[n] \in Values
  OBVIOUS
<1>3. Cells \subseteq Int
  BY DEF Cells
<1>4. ASSUME NEW c \in Cells PROVE s[c] \in Values
  <2>1. s[c] = IF c - at + 1 \in 1 .. Len(buf) THEN buf[c - at + 1] ELSE d[c]
    BY <1>1
  <2>. QED  BY <1>2, <2>1 DEF Bytewise
<1>5. s \in Bytewise
  BY <1>1, <1>4 DEF Bytewise
<1>6. ASSUME NEW c \in Cells, c < at \/ at + Len(buf) <= c PROVE s[c] = d[c]
  <2>1. c - at + 1 \notin 1 .. Len(buf)
    BY <1>2, <1>3, <1>6
  <2>. QED  BY <1>1, <2>1
<1>7. ASSUME NEW n \in 1 .. Len(buf), at + n - 1 \in Cells PROVE s[at + n - 1] = buf[n]
  <2>1. (at + n - 1) - at + 1 = n
    BY <1>2
  <2>. QED  BY <1>1, <1>7, <2>1
<1>. QED  BY <1>5, <1>6, <1>7 DEF s

\* Two places that do not overlap upwards: memcpy copies.
LEMMA MovedIs ==
  ASSUME NEW to, to \in Nat, NEW from, from \in Nat, NEW n, n \in Nat, to <= from \/ from + n <= to,
         NEW c \in Cells
  PROVE  Moved(to, from, n)[c] = data[IF c - to \in 0 .. n - 1 THEN c - to + from ELSE c]
<1>. DEFINE F(g) == [e \in Cells |->
              IF e - to \notin 0 .. n - 1 THEN e
              ELSE IF from < to /\ e - to + from >= to THEN g[e - to + from]
              ELSE e - to + from]
            D == [e \in Cells |-> IF e - to \in 0 .. n - 1 THEN e - to + from ELSE e]
<1>1. \A g : F(g) = D
  <2>. TAKE g
  <2>1. ASSUME NEW e \in Cells PROVE F(g)[e] = D[e]
    <3>1. e \in Int
      BY DEF Cells
    <3>2. CASE e - to \in 0 .. n - 1
      <4>1. ~(from < to /\ e - to + from >= to)
        BY <3>1, <3>2
      <4>2. F(g)[e] = e - to + from
        BY <3>2, <4>1
      <4>. QED  BY <3>2, <4>2
    <3>3. CASE e - to \notin 0 .. n - 1
      BY <3>3
    <3>. QED  BY <3>2, <3>3
  <2>. QED  BY <2>1
<1>. DEFINE source == CHOOSE g : g = F(g)
<1>2. Moved(to, from, n) = [e \in Cells |-> data[source[e]]]
  BY Zenon DEF Moved
<1>. HIDE DEF F, D
<1>3. \E g : g = F(g)
  BY <1>1
<1>4. source = F(source)
  BY <1>3
<1>. HIDE DEF source
<1>5. source = D
  BY <1>1, <1>4
<1>6. D[c] = IF c - to \in 0 .. n - 1 THEN c - to + from ELSE c
  BY DEF D
<1>. QED  BY <1>2, <1>5, <1>6

\* A run found after a file's own is given up starts before it, at it, or
\* after its end: first fit never starts within it.
LEMMA NoOverlap ==
  ASSUME BitmapInv, NEW i \in Indices, files[i].used, files[i].type = "file",
         NEW size, size \in Nat, NEW start, start = Relocated(files[i], size), start # -1,
         BlocksFor(files[i].size) <= BlocksFor(size)
  PROVE  start <= files[i].start \/ files[i].start + BlocksFor(files[i].size) <= start
<1>. DEFINE a  == files[i].start
            n  == BlocksFor(size)
            n0 == BlocksFor(files[i].size)
            r  == RunOf(files[i])
            m  == Marked(block_bitmap, r, FALSE)
            S  == {s \in Blocks : /\ s + n <= AVFS_NUM_BLOCKS
                                  /\ \A b \in RunAt(s, n) : ~m[b]}
<1>1. a \in Nat /\ n \in Nat \ {0} /\ n0 \in Nat \ {0} /\ n0 <= n
  BY EntryIs, BlocksForIs
<1>2. r = RunAt(a, n0) /\ r \subseteq Blocks
  BY OwnRun DEF RunOf
<1>3. \A b \in Blocks : m[b] <=> b \notin r /\ block_bitmap[b]
  <2>. HIDE DEF r
  <2>1. block_bitmap \in [Blocks -> BOOLEAN]
    BY DEF BitmapInv
  <2>. QED  BY <2>1 DEF Marked
<1>4. start = Min(S) /\ S # {} /\ S \in SUBSET Nat
  <2>1. start = avfs_find_free_blocks(m, n)
    BY DEF Relocated
  <2>2. S \in SUBSET Nat
    <3>1. Blocks \subseteq Nat
      BY AvfsConstants DEF Blocks
    <3>. QED  BY <3>1
  <2>. QED  BY <2>1, <2>2 DEF avfs_find_free_blocks
<1>5. start \in S /\ \A s \in S : start <= s
  <2>. HIDE DEF S
  <2>. QED  BY <1>4, MinIs
<1>6. start \in Nat /\ start + n <= AVFS_NUM_BLOCKS /\ \A b \in RunAt(start, n) : ~m[b]
  BY <1>4, <1>5
<1>. HIDE DEF a, n, n0, r, m
<1>. SUFFICES ASSUME a < start, start < a + n0 PROVE FALSE
  BY <1>1, <1>6 DEF a, n0
<1>7. a \in Blocks /\ a + n <= AVFS_NUM_BLOCKS
  BY <1>1, <1>6, AvfsConstants DEF Blocks
<1>8. ASSUME NEW b \in RunAt(a, n) PROVE ~m[b]
  <2>1. b \in Int /\ a <= b /\ b < a + n
    BY <1>1 DEF RunAt
  <2>2. CASE b < a + n0
    <3>1. b \in r /\ b \in Blocks
      BY <1>1, <1>2, <2>1, <2>2 DEF RunAt
    <3>. QED  BY <1>3, <3>1
  <2>3. CASE a + n0 <= b
    <3>1. b \in RunAt(start, n)
      BY <1>1, <1>6, <2>1, <2>3 DEF RunAt
    <3>. QED  BY <1>6, <3>1
  <2>. QED  BY <1>1, <2>1, <2>2, <2>3
<1>9. a \in S
  BY <1>7, <1>8
<1>. HIDE DEF S
<1>. QED  BY <1>1, <1>5, <1>6, <1>9

LEMMA BytesAre ==
  ASSUME NEW d \in Bytewise, NEW f, f.start \in Nat, f.size \in Nat, RunOf(f) \subseteq Blocks
  PROVE  /\ BytesIn(d, f) \in Seq(Values) /\ Len(BytesIn(d, f)) = f.size /\ BytesIn(d, f) # NoFile
         /\ \A n \in 1 .. f.size : /\ Address(f.start) + n - 1 \in Cells
                                   /\ BytesIn(d, f)[n] = d[Address(f.start) + n - 1]
<1>. DEFINE a == Address(f.start)
            z == f.size
            s == BytesIn(d, f)
<1>1. /\ a \in Nat /\ z \in Nat
      /\ \A c : c \in Int /\ a <= c /\ c < a + z => c \in Cells
  BY Held DEF RunOf
<1>2. s = [n \in 1 .. z |-> d[a + n - 1]]
  BY DEF BytesIn, AddressOf, Address
<1>. HIDE DEF a, z, s
<1>3. \A n \in 1 .. z : a + n - 1 \in Cells /\ d[a + n - 1] \in Values
  <2>. SUFFICES ASSUME NEW n \in 1 .. z PROVE a + n - 1 \in Cells /\ d[a + n - 1] \in Values
    OBVIOUS
  <2>1. a + n - 1 \in Cells
    BY <1>1
  <2>. QED  BY <2>1 DEF Bytewise
<1>4. s \in [1 .. z -> Values] /\ DOMAIN s = 1 .. z
  BY <1>2, <1>3
<1>5. s \in Seq(Values)
  BY <1>1, <1>4, SeqDef
<1>6. Len(s) = z
  <2>1. Len(s) \in Nat /\ DOMAIN s = 1 .. Len(s)
    BY <1>5, LenProperties
  <2>2. 1 .. Len(s) = 1 .. z
    BY <1>4, <2>1
  <2>3. \A x, y \in Nat : 1 .. x = 1 .. y => x = y
    <3>. SUFFICES ASSUME NEW x \in Nat, NEW y \in Nat, 1 .. x = 1 .. y, x < y PROVE FALSE
      OBVIOUS
    <3>1. y \in 1 .. y /\ y \notin 1 .. x
      OBVIOUS
    <3>. QED  BY <3>1
  <2>. QED  BY <1>1, <2>1, <2>2, <2>3
<1>7. s # NoFile
  BY <1>5, BuffersAre, AvfsConstants
<1>. QED  BY <1>2, <1>3, <1>5, <1>6, <1>7 DEF a, z, s

\* The old bytes, in the new place.
LEMMA RelocatedIs ==
  ASSUME BitmapInv, data \in Bytewise, NEW i \in Indices, files[i].used, files[i].type = "file",
         NEW size, size \in Nat, NEW start, start = Relocated(files[i], size), start # -1,
         BlocksFor(files[i].size) <= BlocksFor(size), files[i].size <= size
  PROVE  /\ RelocatedData(files[i], size) \in Bytewise
         /\ \A c \in Cells : c < Address(start) \/ Address(start) + files[i].size <= c
              => RelocatedData(files[i], size)[c] = data[c]
         /\ \A n \in 1 .. files[i].size : /\ Address(start) + n - 1 \in Cells
              /\ RelocatedData(files[i], size)[Address(start) + n - 1]
                   = data[Address(files[i].start) + n - 1]
<1>. DEFINE a  == files[i].start
            z  == files[i].size
            n0 == BlocksFor(z)
            b  == AVFS_BLOCK_SIZE
            m  == RelocatedData(files[i], size)
            to == Address(start)
            fr == Address(a)
<1>1. a \in Nat /\ z \in Nat /\ z <= size
  BY EntryIs
<1>2. start \in Nat /\ RunAt(start, BlocksFor(size)) \subseteq Blocks
  BY Relocates
<1>3. /\ to \in Nat
      /\ \A c : c \in Int /\ to <= c /\ c < to + size => c \in Cells
  BY <1>2, Held
<1>4. /\ fr \in Nat
      /\ \A c : c \in Int /\ fr <= c /\ c < fr + z => c \in Cells
  <2>1. RunAt(a, BlocksFor(z)) \subseteq Blocks
    BY OwnRun DEF RunOf
  <2>. HIDE DEF a, z
  <2>. QED  BY <1>1, <2>1, Held
<1>5. to <= fr \/ fr + z <= to
  <2>1. start <= a \/ a + n0 <= start
    BY NoOverlap
  <2>2. b \in Nat /\ n0 \in Nat /\ n0 * b \in Nat /\ z <= n0 * b
    BY <1>1, Fits, AvfsConstants
  <2>3. to = start * b /\ fr = a * b
    BY DEF Address
  <2>. HIDE DEF a, z, n0, b, to, fr
  <2>4. CASE start <= a
    BY <1>1, <1>2, <2>2, <2>3, <2>4, Multiples
  <2>5. CASE a + n0 <= start
    <3>1. (a + n0) * b <= start * b /\ (a + n0) * b = a * b + n0 * b
      BY <1>1, <1>2, <2>2, <2>5
    <3>. QED  BY <1>1, <1>3, <1>4, <2>2, <2>3, <3>1
  <2>. QED  BY <2>1, <2>4, <2>5
<1>6. m = Moved(to, fr, z)
  BY DEF RelocatedData, AddressOf, Address
<1>7. m = [c \in Cells |-> m[c]]
  BY <1>6 DEF Moved
<1>. HIDE DEF a, z, n0, b, m, to, fr
<1>8. ASSUME NEW c \in Cells PROVE m[c] = data[IF c - to \in 0 .. z - 1 THEN c - to + fr ELSE c]
  <2>1. z \in Nat /\ to \in Nat /\ fr \in Nat
    BY <1>1, <1>3, <1>4
  <2>2. Moved(to, fr, z)[c] = data[IF c - to \in 0 .. z - 1 THEN c - to + fr ELSE c]
    BY <1>5, <2>1, MovedIs
  <2>. QED  BY <1>6, <2>2
<1>9. Cells \subseteq Int
  BY DEF Cells
<1>10. ASSUME NEW c \in Cells PROVE m[c] \in Values
  <2>1. CASE c - to \in 0 .. z - 1
    <3>1. c - to + fr \in Cells
      BY <1>1, <1>3, <1>4, <1>9, <2>1
    <3>. QED  BY <1>8, <2>1, <3>1 DEF Bytewise
  <2>2. CASE c - to \notin 0 .. z - 1
    BY <1>8, <2>2 DEF Bytewise
  <2>. QED  BY <2>1, <2>2
<1>11. m \in Bytewise
  BY <1>7, <1>10 DEF Bytewise
<1>12. ASSUME NEW c \in Cells, c < to \/ to + z <= c PROVE m[c] = data[c]
  <2>1. c - to \notin 0 .. z - 1
    BY <1>1, <1>3, <1>9, <1>12
  <2>. QED  BY <1>8, <2>1
<1>13. ASSUME NEW n \in 1 .. z PROVE to + n - 1 \in Cells /\ m[to + n - 1] = data[fr + n - 1]
  <2>1. to + n - 1 \in Cells
    <3>1. to + n - 1 \in Int /\ to <= to + n - 1 /\ to + n - 1 < to + size
      BY <1>1, <1>3
    <3>. QED  BY <1>3, <3>1
  <2>2. (to + n - 1) - to \in 0 .. z - 1 /\ (to + n - 1) - to + fr = fr + n - 1
    BY <1>1, <1>3, <1>4
  <2>. QED  BY <1>8, <2>1, <2>2
<1>. QED  BY <1>11, <1>12, <1>13 DEF m, to, fr, z, a

-----------------------------------------------------------------------------
(* One file changes.                                                       *)

\* Entry i is, after the step, the file at a path; every other entry, and
\* every other path, is as it was.
Only(path, i) ==
  /\ i \in Indices /\ files'[i].used /\ files'[i].type = "file"
  /\ \A j \in Indices \ {i} : files'[j] = files[j]
  /\ \A k \in Seq(STRING) : Found(files', k) = IF k = path THEN i ELSE Found(files, k)
  /\ \A k \in Seq(STRING) : k # path => Found(files, k) # i

\* The step writes no byte outside that file.
Within(i) ==
  \A c \in Cells :
    c < Address(files'[i].start) \/ Address(files'[i].start) + files'[i].size <= c
      => data'[c] = data[c]

LEMMA FilesOf ==
  ASSUME NEW t \in Table, NEW m, Exact(t, m), NEW i \in Indices, t[i].used, t[i].type = "file"
  PROVE  /\ t[i].start \in Nat /\ t[i].size \in Nat
         /\ RunOf(t[i]) = RunAt(t[i].start, BlocksFor(t[i].size)) /\ RunOf(t[i]) \subseteq Blocks
         /\ RunIn(t[i]) = RunOf(t[i])
<1>1. t[i] \in Entries
  BY DEF Table
<1>2. RunIn(t[i]) = RunOf(t[i])
  BY DEF RunIn
<1>3. RunOf(t[i]) \subseteq Blocks
  BY <1>2 DEF Exact
<1>. QED  BY <1>1, <1>2, <1>3 DEF Entries, RunOf

LEMMA OthersKeep ==
  ASSUME BitmapInv, Keeps, Sound(files), data \in Bytewise, data' \in Bytewise,
         NEW path, NEW i, Only(path, i), Within(i)
  PROVE  /\ \A k \in Keys : k # path => FileAt(k)' = FileAt(k)
         /\ path \in Keys => FileAt(path)' = BytesIn(data', files'[i])
<1>1. /\ files'[i].start \in Nat /\ files'[i].size \in Nat
      /\ RunIn(files'[i]) = RunAt(files'[i].start, BlocksFor(files'[i].size))
  BY FilesOf DEF Keeps, Only
<1>2. ASSUME NEW k \in Keys, k # path PROVE FileIn(files', data', k) = FileIn(files, data, k)
  <2>. DEFINE j == Found(files, k)
  <2>1. k \in Seq(STRING)
    BY KeysAre
  <2>2. Found(files', k) = j /\ j # i
    BY <1>2, <2>1 DEF Only
  <2>3. CASE j = -1
    BY <2>2, <2>3, Zenon DEF FileIn
  <2>4. CASE j # -1 /\ files[j].type # "file"
    <3>1. j \in Indices
      BY <2>1, <2>4, FoundIn, AvfsConstants DEF Sound, InUse, Indices
    <3>. HIDE DEF j
    <3>2. files'[j].type # "file"
      BY <2>2, <2>4, <3>1 DEF Only
    <3>. QED  BY <2>2, <2>4, <3>2, Zenon DEF FileIn, j
  <2>5. CASE j # -1 /\ files[j].type = "file"
    <3>1. j \in Indices /\ files[j].used
      BY <2>1, <2>5, FoundIn, AvfsConstants DEF Sound, InUse, Indices
    <3>. HIDE DEF j
    <3>2. files'[j] = files[j]
      BY <2>2, <3>1 DEF Only
    <3>. DEFINE f == files[j]
                a == Address(f.start)
    <3>3. /\ f.start \in Nat /\ f.size \in Nat /\ RunOf(f) \subseteq Blocks
          /\ RunIn(f) = RunAt(f.start, BlocksFor(f.size))
      BY <2>5, <3>1, FilesOf DEF BitmapInv
    <3>4. RunIn(f) \cap RunIn(files'[i]) = {}
      BY <2>2, <3>1, <3>2 DEF Keeps, Exact, Only
    <3>5. /\ BytesIn(data, f) \in Seq(Values) /\ Len(BytesIn(data, f)) = f.size
          /\ \A n \in 1 .. f.size : /\ a + n - 1 \in Cells
                                    /\ BytesIn(data, f)[n] = data[a + n - 1]
      BY <3>3, BytesAre
    <3>6. /\ BytesIn(data', f) \in Seq(Values) /\ Len(BytesIn(data', f)) = f.size
          /\ \A n \in 1 .. f.size : BytesIn(data', f)[n] = data'[a + n - 1]
      BY <3>3, BytesAre
    <3>7. /\ a \in Nat /\ Address(files'[i].start) \in Nat
          /\ \/ a + f.size <= Address(files'[i].start)
             \/ Address(files'[i].start) + files'[i].size <= a
      <4>1. RunAt(f.start, BlocksFor(f.size))
              \cap RunAt(files'[i].start, BlocksFor(files'[i].size)) = {}
        BY <1>1, <3>3, <3>4
      <4>2. Address(f.start) \in Nat /\ Address(files'[i].start) \in Nat
        BY <1>1, <3>3, Multiples, AvfsConstants DEF Address
      <4>. QED  BY <1>1, <3>3, <4>1, <4>2, Apart
    <3>. HIDE DEF f, a
    <3>8. ASSUME NEW n \in 1 .. f.size PROVE data'[a + n - 1] = data[a + n - 1]
      <4>1. a + n - 1 \in Cells
        BY <3>5
      <4>2. \/ a + n - 1 < Address(files'[i].start)
            \/ Address(files'[i].start) + files'[i].size <= a + n - 1
        BY <1>1, <3>3, <3>7 DEF f
      <4>. QED  BY <4>1, <4>2 DEF Within
    <3>9. BytesIn(data', f) = BytesIn(data, f)
      <4>1. \A n \in 1 .. f.size : BytesIn(data', f)[n] = BytesIn(data, f)[n]
        BY <3>5, <3>6, <3>8
      <4>. QED  BY <3>5, <3>6, <4>1, SeqEqual
    <3>. QED  BY <2>2, <2>5, <3>2, <3>9, Zenon DEF FileIn, f, j
  <2>. QED  BY <2>3, <2>4, <2>5
<1>3. ASSUME path \in Keys PROVE FileIn(files', data', path) = BytesIn(data', files'[i])
  <2>1. Found(files', path) = i
    BY <1>3, KeysAre DEF Only
  <2>2. i # -1 /\ files'[i].type = "file"
    BY DEF Only, Indices
  <2>. QED  BY <2>1, <2>2, Zenon DEF FileIn
<1>. QED  BY <1>2, <1>3, FileAtIs

LEMMA GrownOnly ==
  ASSUME Sound(files), NEW path \in Names, NEW i, NEW f, Grown(files, files', path, i, f),
         f.type = "file"
  PROVE  Only(path, i)
<1>1. \A k \in Seq(STRING) : Found(files', k) = IF k = path THEN i ELSE Found(files, k)
  BY FoundGrown DEF Names
<1>2. \A k \in Seq(STRING) : Found(files, k) # i
  <2>. SUFFICES ASSUME NEW k \in Seq(STRING), Found(files, k) = i PROVE FALSE
    OBVIOUS
  <2>1. 0 \in InUse(files)
    BY AvfsConstants DEF Sound, InUse, Indices
  <2>2. i # -1
    BY DEF Grown, Indices
  <2>3. i \in InUse(files)
    BY <2>1, <2>2, FoundIn
  <2>. QED  BY <2>3 DEF InUse, Grown
<1>. QED  BY <1>1, <1>2 DEF Only, Grown

LEMMA AlikeOnly ==
  ASSUME Sound(files), Alike(files, files'), NEW path \in Names, NEW i \in Indices,
         i = Found(files, path), files[i].used, files[i].type = "file",
         \A j \in Indices \ {i} : files'[j] = files[j]
  PROVE  Only(path, i)
<1>1. \A k \in Seq(STRING) : Found(files', k) = Found(files, k)
  BY FoundAlike
<1>2. i # -1
  BY DEF Indices
<1>3. \A k \in Seq(STRING) : k # path => Found(files, k) # i
  BY <1>2, OnePath DEF Names
<1>4. files'[i].used /\ files'[i].type = "file"
  BY DEF Alike
<1>5. \A k \in Seq(STRING) : Found(files', k) = IF k = path THEN i ELSE Found(files, k)
  BY <1>1
<1>. QED  BY <1>3, <1>4, <1>5 DEF Only

-----------------------------------------------------------------------------
(* The refinement mapping.                                                 *)

Files == [k \in Keys |-> FileAt(k)]

\* The file a path names before the step.
LEMMA Before ==
  ASSUME BitmapInv, data \in Bytewise, NEW path \in Keys, NEW i \in Indices,
         i = Found(files, path), files[i].used, files[i].type = "file"
  PROVE  LET old == BytesIn(data, files[i])
         IN  /\ Files[path] = old /\ Store!IsFile(path)
             /\ old \in Seq(Values) /\ Len(old) = files[i].size /\ files[i].size \in Nat
             /\ \A n \in 1 .. files[i].size : /\ Address(files[i].start) + n - 1 \in Cells
                  /\ old[n] = data[Address(files[i].start) + n - 1]
<1>. DEFINE old == BytesIn(data, files[i])
<1>1. FileAt(path) = old
  <2>1. i # -1
    BY DEF Indices
  <2>. QED  BY <2>1, FileAtIs, Zenon DEF FileIn
<1>2. files[i].start \in Nat /\ files[i].size \in Nat /\ RunOf(files[i]) \subseteq Blocks
  BY FilesOf DEF BitmapInv
<1>3. /\ old \in Seq(Values) /\ Len(old) = files[i].size /\ old # NoFile
      /\ \A n \in 1 .. files[i].size : /\ Address(files[i].start) + n - 1 \in Cells
           /\ old[n] = data[Address(files[i].start) + n - 1]
  BY <1>2, BytesAre
<1>. HIDE DEF old
<1>4. Files[path] = old
  BY <1>1 DEF Files
<1>5. Store!IsFile(path)
  BY <1>3, <1>4 DEF Files, Store!IsFile
<1>. QED  BY <1>2, <1>3, <1>4, <1>5 DEF old

\* The file it names after a step that changed that file only.
LEMMA After ==
  ASSUME BitmapInv, Keeps, Sound(files), data \in Bytewise, data' \in Bytewise,
         NEW path \in Keys, NEW i, Only(path, i), Within(i)
  PROVE  LET new == BytesIn(data', files'[i])
         IN  /\ Store!Put(path, new) /\ Files'[path] = new
             /\ \A k \in Keys \ {path} : Files'[k] = Files[k]
             /\ new \in Seq(Values) /\ Len(new) = files'[i].size /\ files'[i].size \in Nat
             /\ \A n \in 1 .. files'[i].size : /\ Address(files'[i].start) + n - 1 \in Cells
                  /\ new[n] = data'[Address(files'[i].start) + n - 1]
<1>. DEFINE new == BytesIn(data', files'[i])
<1>1. FileAt(path)' = new
  BY OthersKeep
<1>2. \A k \in Keys : k # path => FileAt(k)' = FileAt(k)
  BY OthersKeep
<1>3. files'[i].start \in Nat /\ files'[i].size \in Nat /\ RunOf(files'[i]) \subseteq Blocks
  BY FilesOf DEF Keeps, Only
<1>4. /\ new \in Seq(Values) /\ Len(new) = files'[i].size
      /\ \A n \in 1 .. files'[i].size : /\ Address(files'[i].start) + n - 1 \in Cells
           /\ new[n] = data'[Address(files'[i].start) + n - 1]
  BY <1>3, BytesAre
<1>. HIDE DEF new
<1>5. Files'[path] = new /\ \A k \in Keys \ {path} : Files'[k] = Files[k]
  BY <1>1, <1>2 DEF Files
<1>6. Files' = [Files EXCEPT ![path] = new]
  BY <1>5 DEF Files
<1>7. Store!Put(path, new)
  BY <1>6 DEF Files, Store!Put
<1>. QED  BY <1>3, <1>4, <1>5, <1>7 DEF new

\* The paths calls name are those of Keys: a path given relative to the
\* current directory, or through "..", is some absolute path's other name.
CallsNameKeys == call.op \notin {"none", "dir"} => call.path \in Keys

LEMMA CreateStores ==
  ASSUME BitmapInv, RootStays, Sound(files), data \in Bytewise, CallsNameKeys', CreatedBelowDirs,
         NEW p \in FilePaths, NEW size \in Sizes, avfs_create_file(p, size)
  PROVE  data' \in Bytewise /\ Store!StoreNext
<1>. DEFINE path == normalize_path(p)
            i    == Min(FreeEntries)
            f    == NewFile(path, size)
<1>1. /\ CanCreate(path, size) /\ ~Exists(path) /\ FreeEntries # {} /\ Enter(f) /\ data' = data
      /\ call' = [op |-> "create", path |-> path, size |-> size]
      /\ IsDir(ParentOf(path))
  BY DEF avfs_create_file, CanCreate, CreatedBelowDirs
<1>2. path \in Names /\ size \in Nat
  BY InputsAre, NormalIs DEF BitmapInv
<1>3. f.used /\ f.parent = ParentOf(path) /\ f.name = Last(path) /\ f.type = "file" /\ f.size = size
  BY DEF NewFile
<1>4. Keeps
  BY InputsAre, CreateKeeps
<1>5. path \in Keys
  BY <1>1 DEF CallsNameKeys
<1>. HIDE DEF path, f, i
<1>6. Grown(files, files', path, i, f)
  BY <1>1, <1>2, <1>3, EnterGrows DEF i
<1>7. Only(path, i) /\ files'[i].size = size
  BY <1>2, <1>3, <1>6, GrownOnly DEF Grown
<1>8. Within(i) /\ data' \in Bytewise
  BY <1>1 DEF Within
<1>9. /\ Len(Files'[path]) = size
      /\ \A k \in Keys \ {path} : Files'[k] = Files[k]
  BY <1>4, <1>5, <1>7, <1>8, After
<1>10. ~Store!IsFile(path)
  <2>1. Found(files, path) = -1
    BY <1>1, FoundIs DEF Exists
  <2>2. FileAt(path) = NoFile
    BY <2>1, FileAtIs, Zenon DEF FileIn
  <2>. QED  BY <1>5, <2>2 DEF Store!IsFile
<1>11. call'.op = "create" /\ call'.size = size
       /\ call' = [op |-> "create", path |-> path, size |-> call'.size]
  BY <1>1
<1>12. Store!Create
  BY <1>5, <1>9, <1>10, <1>11 DEF Store!Create, Files
<1>. QED  BY <1>8, <1>12 DEF Store!StoreNext

Written(d, at, buf) == data' = Stored(d, at, buf)

\* A buffer stored where a file is: the file is the buffer.
LEMMA SaveStores ==
  ASSUME BitmapInv, Keeps, Sound(files), data \in Bytewise, NEW buf \in Seq(Values), CallsNameKeys',
         NEW path, NEW i, Only(path, i), files'[i].size = Len(buf),
         Written(data, Address(files'[i].start), buf),
         call' = [op |-> "save", path |-> path, buf |-> buf]
  PROVE  data' \in Bytewise /\ Store!StoreNext
<1>. DEFINE a   == Address(files'[i].start)
            new == BytesIn(data', files'[i])
<1>1. path \in Keys
  BY DEF CallsNameKeys
<1>2. a \in Nat
  <2>1. files'[i].start \in Nat
    BY FilesOf DEF Keeps, Only
  <2>. QED  BY <2>1, Multiples, AvfsConstants DEF Address
<1>. HIDE DEF a
<1>3. /\ data' \in Bytewise
      /\ \A c \in Cells : c < a \/ a + Len(buf) <= c => data'[c] = data[c]
      /\ \A n \in 1 .. Len(buf) : a + n - 1 \in Cells => data'[a + n - 1] = buf[n]
  <2>. DEFINE s == Stored(data, a, buf)
  <2>1. data' = s
    BY DEF Written, a
  <2>2. /\ s \in Bytewise
        /\ \A c \in Cells : c < a \/ a + Len(buf) <= c => s[c] = data[c]
        /\ \A n \in 1 .. Len(buf) : a + n - 1 \in Cells => s[a + n - 1] = buf[n]
    BY <1>2, StoredIs
  <2>. HIDE DEF s
  <2>. QED  BY <2>1, <2>2
<1>4. Within(i)
  BY <1>3 DEF Within, a
<1>5. /\ Store!Put(path, new)
      /\ new \in Seq(Values) /\ Len(new) = Len(buf)
      /\ \A n \in 1 .. Len(buf) : a + n - 1 \in Cells /\ new[n] = data'[a + n - 1]
  <2>1. data' \in Bytewise
    BY <1>3
  <2>2. /\ Store!Put(path, BytesIn(data', files'[i]))
        /\ BytesIn(data', files'[i]) \in Seq(Values)
        /\ Len(BytesIn(data', files'[i])) = files'[i].size
        /\ \A n \in 1 .. files'[i].size : /\ Address(files'[i].start) + n - 1 \in Cells
             /\ BytesIn(data', files'[i])[n] = data'[Address(files'[i].start) + n - 1]
    BY <1>1, <1>4, <2>1, After
  <2>. QED  BY <2>2 DEF a
<1>6. new = buf
  <2>. HIDE DEF new
  <2>1. \A n \in 1 .. Len(buf) : new[n] = buf[n]
    BY <1>3, <1>5
  <2>. QED  BY <1>5, <2>1, SeqEqual
<1>7. Store!Put(path, buf)
  BY <1>5, <1>6
<1>8. /\ call'.op = "save" /\ call'.buf = buf
      /\ call' = [op |-> "save", path |-> path, buf |-> call'.buf]
  OBVIOUS
<1>9. Store!Save
  BY <1>1, <1>7, <1>8 DEF Store!Save
<1>. QED  BY <1>3, <1>9 DEF Store!StoreNext

LEMMA SaveNewStores ==
  ASSUME BitmapInv, RootStays, Sound(files), data \in Bytewise, CallsNameKeys',
         NEW p \in FilePaths, NEW buf \in Buffers, save_new(p, buf)
  PROVE  data' \in Bytewise /\ Store!StoreNext
<1>. DEFINE path == normalize_path(p)
            i    == Min(FreeEntries)
            f    == NewFile(path, Len(buf))
<1>1. /\ CanCreate(path, Len(buf)) /\ ~Exists(path) /\ FreeEntries # {} /\ Enter(f)
      /\ call' = [op |-> "save", path |-> path, buf |-> buf]
      /\ IsDir(ParentOf(path))
      /\ data' = Stored(data, AddressOf(f), buf)
  BY DEF save_new, CanCreate
<1>2. path \in Names /\ buf \in Seq(Values)
  BY InputsAre, BuffersAre, NormalIs DEF BitmapInv
<1>3. /\ f.used /\ f.parent = ParentOf(path) /\ f.name = Last(path) /\ f.type = "file"
      /\ f.size = Len(buf)
  BY DEF NewFile
<1>4. Keeps
  BY InputsAre, SaveNewKeeps
<1>. HIDE DEF path, f, i
<1>5. Grown(files, files', path, i, f)
  BY <1>1, <1>2, <1>3, EnterGrows DEF i
<1>6. Only(path, i) /\ files'[i] = f
  BY <1>2, <1>3, <1>5, GrownOnly DEF Grown
<1>7. Written(data, Address(files'[i].start), buf) /\ files'[i].size = Len(buf)
  BY <1>1, <1>3, <1>6 DEF Address, AddressOf, Written
<1>. QED  BY <1>1, <1>2, <1>4, <1>6, <1>7, SaveStores

LEMMA SaveOverStores ==
  ASSUME BitmapInv, RootStays, Sound(files), data \in Bytewise, CallsNameKeys',
         NEW p \in FilePaths, NEW buf \in Buffers, save_over(p, buf)
  PROVE  data' \in Bytewise /\ Store!StoreNext
<1>. DEFINE path  == normalize_path(p)
            i     == avfs_find_entry(path)
            start == avfs_find_free_blocks(block_bitmap, BlocksFor(Len(buf)))
            f     == [files[i] EXCEPT !.start = start, !.size = Len(buf)]
<1>1. /\ i # -1 /\ files[i].type = "file"
      /\ data' = Stored(data, AddressOf(f), buf)
      /\ files' = [files EXCEPT ![i] = f]
      /\ call' = [op |-> "save", path |-> path, buf |-> buf]
  BY DEF save_over
<1>2. path \in Names /\ buf \in Seq(Values) /\ i = Found(files, path)
  BY InputsAre, BuffersAre, NormalIs, FoundIs DEF BitmapInv
<1>3. Keeps
  BY InputsAre, SaveOverKeeps
<1>4. i \in Indices /\ files[i].used
  BY <1>1, InputsAre, FileReached
<1>. HIDE DEF path, i, start
<1>5. /\ files[i] \in Entries /\ f.size = Len(buf)
      /\ f.used = files[i].used /\ f.type = files[i].type /\ f.name = files[i].name
      /\ f.parent = files[i].parent
  BY <1>4 DEF BitmapInv, Table, Entries
<1>. HIDE DEF f
<1>6. files'[i] = f /\ \A j \in Indices \ {i} : files'[j] = files[j]
  BY <1>1, <1>4 DEF BitmapInv, Table
<1>7. Alike(files, files')
  BY <1>4, <1>5, <1>6 DEF Alike
<1>8. Only(path, i)
  BY <1>1, <1>2, <1>4, <1>6, <1>7, AlikeOnly
<1>9. Written(data, Address(files'[i].start), buf) /\ files'[i].size = Len(buf)
  BY <1>1, <1>5, <1>6 DEF Address, AddressOf, Written
<1>. QED  BY <1>1, <1>2, <1>3, <1>8, <1>9, SaveStores

\* What a buffer written at an offset leaves of z bytes that lie at a.
WrittenAt(d, a, off, buf) == data' = Stored(d, a + off, buf)

Spans(a, z) == \A n \in 1 .. z : a + n - 1 \in Cells

Overlay(d, a, off, buf, z) ==
  /\ data' \in Bytewise
  /\ \A c \in Cells : c < a \/ a + z <= c => data'[c] = d[c]
  /\ \A n \in 1 .. z : data'[a + n - 1] =
       IF n - off \in 1 .. Len(buf) THEN buf[n - off] ELSE d[a + n - 1]

LEMMA Rewrites ==
  ASSUME NEW d \in Bytewise, NEW a, a \in Nat, NEW off, off \in Nat, NEW buf \in Seq(Values),
         WrittenAt(d, a, off, buf), NEW z, z \in Nat, off + Len(buf) <= z, Spans(a, z)
  PROVE  Overlay(d, a, off, buf, z)
<1>. DEFINE at == a + off
            s  == Stored(d, at, buf)
<1>1. data' = s
  BY DEF WrittenAt
<1>2. at \in Nat /\ at = a + off /\ Len(buf) \in Nat
  OBVIOUS
<1>. HIDE DEF at
<1>3. /\ s \in Bytewise
      /\ \A c \in Cells : c < at \/ at + Len(buf) <= c => s[c] = d[c]
      /\ \A n \in 1 .. Len(buf) : at + n - 1 \in Cells => s[at + n - 1] = buf[n]
  <2>1. at \in Nat
    BY <1>2
  <2>2. s \in Bytewise
    BY <2>1, StoredIs, Zenon
  <2>3. \A c \in Cells : c < at \/ at + Len(buf) <= c => s[c] = d[c]
    BY <2>1, StoredIs, Zenon
  <2>4. \A n \in 1 .. Len(buf) : at + n - 1 \in Cells => s[at + n - 1] = buf[n]
    BY <2>1, StoredIs, Zenon
  <2>. QED  BY <2>2, <2>3, <2>4
<1>. HIDE DEF s
<1>4. Cells \subseteq Int
  BY DEF Cells
<1>5. ASSUME NEW c \in Cells, c < a \/ a + z <= c PROVE s[c] = d[c]
  <2>1. c < at \/ at + Len(buf) <= c
    BY <1>2, <1>4, <1>5
  <2>. QED  BY <1>3, <2>1
<1>6. ASSUME NEW n \in 1 .. z
      PROVE  s[a + n - 1] = IF n - off \in 1 .. Len(buf) THEN buf[n - off] ELSE d[a + n - 1]
  <2>1. CASE n - off \in 1 .. Len(buf)
    <3>1. at + (n - off) - 1 = a + n - 1
      BY <1>2
    <3>2. s[at + (n - off) - 1] = buf[n - off]
      BY <1>3, <2>1, <3>1 DEF Spans
    <3>. QED  BY <2>1, <3>1, <3>2
  <2>2. CASE n - off \notin 1 .. Len(buf)
    <3>1. a + n - 1 < at \/ at + Len(buf) <= a + n - 1
      BY <1>2, <2>2
    <3>2. a + n - 1 \in Cells
      BY DEF Spans
    <3>. QED  BY <1>3, <2>2, <3>1, <3>2
  <2>. QED  BY <2>1, <2>2
<1>. QED  BY <1>1, <1>3, <1>5, <1>6 DEF Overlay

LEMMA WriteStores ==
  ASSUME BitmapInv, RootStays, Sound(files), data \in Bytewise, CallsNameKeys',
         NEW p \in FilePaths, NEW buf \in Buffers, NEW offset \in Sizes,
         avfs_write_file(p, buf, offset)
  PROVE  data' \in Bytewise /\ Store!StoreNext
<1>. DEFINE path == normalize_path(p)
            i    == avfs_find_entry(path)
<1>1. /\ i # -1 /\ files[i].type = "file" /\ offset + Len(buf) <= files[i].size
      /\ WrittenAt(data, AddressOf(files[i]), offset, buf) /\ files' = files
      /\ block_bitmap' = block_bitmap
      /\ call' = [op |-> "write", path |-> path, buf |-> buf, offset |-> offset]
  BY DEF avfs_write_file, WrittenAt
<1>2. /\ path \in Names /\ buf \in Seq(Values) /\ i = Found(files, path) /\ path \in Keys
      /\ offset \in Nat
  BY <1>1, InputsAre, BuffersAre, NormalIs, FoundIs DEF BitmapInv, CallsNameKeys
<1>3. i \in Indices /\ files[i].used
  BY <1>1, InputsAre, FileReached
<1>. HIDE DEF path, i
<1>4. Keeps
  BY <1>1 DEF Keeps, BitmapInv
<1>5. Only(path, i)
  <2>1. Alike(files, files') /\ \A j \in Indices \ {i} : files'[j] = files[j]
    BY <1>1 DEF Alike
  <2>. QED  BY <1>1, <1>2, <1>3, <2>1, AlikeOnly
<1>. DEFINE old == BytesIn(data, files[i])
            a   == Address(files[i].start)
            z   == files[i].size
            new == BytesIn(data', files'[i])
<1>6. /\ Files[path] = old /\ Store!IsFile(path)
      /\ old \in Seq(Values) /\ Len(old) = z /\ z \in Nat
      /\ \A n \in 1 .. z : a + n - 1 \in Cells /\ old[n] = data[a + n - 1]
  BY <1>1, <1>2, <1>3, Before
<1>7. a \in Nat
  <2>1. files[i].start \in Nat
    BY <1>3, EntryIs
  <2>. QED  BY <2>1, Multiples, AvfsConstants DEF Address
<1>8. WrittenAt(data, a, offset, buf) /\ offset + Len(buf) <= z
  BY <1>1 DEF Address, AddressOf
<1>. HIDE DEF old, a, z, new
<1>9. /\ data' \in Bytewise
      /\ \A c \in Cells : c < a \/ a + z <= c => data'[c] = data[c]
      /\ \A n \in 1 .. z : data'[a + n - 1] =
           IF n - offset \in 1 .. Len(buf) THEN buf[n - offset] ELSE data[a + n - 1]
  <2>1. buf \in Seq(Values) /\ offset \in Nat /\ z \in Nat /\ Spans(a, z)
    BY <1>2, <1>6 DEF Spans
  <2>2. Overlay(data, a, offset, buf, z)
    BY <1>7, <1>8, <2>1, Rewrites
  <2>. QED  BY <2>2 DEF Overlay
<1>10. Within(i)
  BY <1>1, <1>9 DEF Within, a, z
<1>11. /\ Store!Put(path, new) /\ new \in Seq(Values) /\ Len(new) = z
       /\ \A n \in 1 .. z : new[n] = data'[a + n - 1]
  <2>1. data' \in Bytewise
    BY <1>9
  <2>2. /\ Store!Put(path, BytesIn(data', files'[i]))
        /\ BytesIn(data', files'[i]) \in Seq(Values)
        /\ Len(BytesIn(data', files'[i])) = files'[i].size
        /\ \A n \in 1 .. files'[i].size :
             BytesIn(data', files'[i])[n] = data'[Address(files'[i].start) + n - 1]
    BY <1>2, <1>4, <1>5, <1>10, <2>1, After
  <2>. QED  BY <1>1, <2>2 DEF a, z, new
<1>. DEFINE result == [n \in 1 .. Len(old) |->
                         IF n - offset \in 1 .. Len(buf) THEN buf[n - offset] ELSE old[n]]
<1>12. new = result
  <2>1. DOMAIN new = 1 .. Len(old) /\ new = [n \in 1 .. Len(old) |-> new[n]]
    BY <1>6, <1>11
  <2>2. ASSUME NEW n \in 1 .. Len(old) PROVE new[n] = result[n]
    BY <1>6, <1>9, <1>11
  <2>. QED  BY <2>1, <2>2
<1>13. Store!Put(path, [n \in 1 .. Len(Files[path]) |->
          IF n - call'.offset \in 1 .. Len(call'.buf)
          THEN call'.buf[n - call'.offset] ELSE Files[path][n]])
  BY <1>1, <1>6, <1>11, <1>12
<1>14. /\ call'.op = "write"
       /\ call' = [op |-> "write", path |-> path, buf |-> call'.buf, offset |-> call'.offset]
  BY <1>1
<1>15. Store!Write
  BY <1>2, <1>6, <1>13, <1>14 DEF Store!Write, Files
<1>. QED  BY <1>9, <1>15 DEF Store!StoreNext

-----------------------------------------------------------------------------
(* Files that grow.                                                        *)

LEMMA Joined ==
  ASSUME NEW s \in Seq(Values), NEW t \in Seq(Values)
  PROVE  /\ s \o t \in Seq(Values) /\ Len(s \o t) = Len(s) + Len(t)
         /\ \A n \in 1 .. Len(s) : (s \o t)[n] = s[n]
         /\ \A n \in 1 .. Len(t) : (s \o t)[Len(s) + n] = t[n]
<1>1. s \o t \in Seq(Values) /\ Len(s \o t) = Len(s) + Len(t)
  BY ConcatProperties
<1>2. \A n \in 1 .. Len(s) + Len(t) : (s \o t)[n] = IF n <= Len(s) THEN s[n] ELSE t[n - Len(s)]
  BY ConcatProperties
<1>3. Len(s) \in Nat /\ Len(t) \in Nat
  OBVIOUS
<1>4. ASSUME NEW n \in 1 .. Len(t) PROVE (s \o t)[Len(s) + n] = t[n]
  <2>1. Len(s) + n \in 1 .. Len(s) + Len(t) /\ ~(Len(s) + n <= Len(s)) /\ Len(s) + n - Len(s) = n
    BY <1>3
  <2>. QED  BY <1>2, <2>1
<1>5. ASSUME NEW n \in 1 .. Len(s) PROVE (s \o t)[n] = s[n]
  BY <1>2, <1>3
<1>. QED  BY <1>1, <1>4, <1>5

\* The bytes old lie at a, and the rest of the storage is as it was.
Carried(d, a, z, old) ==
  /\ d \in Bytewise
  /\ \A c \in Cells : c < a \/ a + z <= c => d[c] = data[c]
  /\ \A n \in 1 .. z : d[a + n - 1] = old[n]

\* Bytes written after the end of a file that has been carried to its new run.
LEMMA Lengthened ==
  ASSUME BitmapInv, Keeps, Sound(files), data \in Bytewise, NEW path \in Keys, NEW i \in Indices,
         i = Found(files, path), files[i].used, files[i].type = "file", Only(path, i),
         NEW buf \in Seq(Values), files'[i].size = files[i].size + Len(buf),
         NEW d, Carried(d, Address(files'[i].start), files[i].size, BytesIn(data, files[i])),
         WrittenAt(d, Address(files'[i].start), files[i].size, buf)
  PROVE  /\ data' \in Bytewise /\ Store!IsFile(path)
         /\ Store!Put(path, Files[path] \o buf) /\ Files'[path] = Files[path] \o buf
         /\ \A k \in Keys \ {path} : Files'[k] = Files[k]
         /\ Files[path] \in Seq(Values) /\ Len(Files[path]) = files[i].size
<1>. DEFINE old == BytesIn(data, files[i])
            new == BytesIn(data', files'[i])
            a   == Address(files'[i].start)
            z   == files[i].size
            y   == files'[i].size
<1>1. /\ Files[path] = old /\ Store!IsFile(path)
      /\ old \in Seq(Values) /\ Len(old) = z /\ z \in Nat
  BY Before
<1>2. files'[i].start \in Nat /\ RunOf(files'[i]) = RunAt(files'[i].start, BlocksFor(y))
      /\ RunOf(files'[i]) \subseteq Blocks /\ y \in Nat
  BY FilesOf DEF Keeps, Only
<1>3. a \in Nat /\ Spans(a, y)
  <2>. DEFINE x == files'[i].start
  <2>1. x \in Nat /\ y \in Nat /\ RunAt(x, BlocksFor(y)) \subseteq Blocks
    BY <1>2
  <2>. HIDE DEF x, y
  <2>2. /\ Address(x) \in Nat
        /\ \A c : c \in Int /\ Address(x) <= c /\ c < Address(x) + y => c \in Cells
    BY <2>1, Held
  <2>3. Spans(Address(x), y)
    BY <2>1, <2>2 DEF Spans
  <2>. QED  BY <2>2, <2>3 DEF x
<1>4. WrittenAt(d, a, z, buf) /\ y = z + Len(buf) /\ Len(buf) \in Nat
  OBVIOUS
<1>5. /\ d \in Bytewise
      /\ \A c \in Cells : c < a \/ a + z <= c => d[c] = data[c]
      /\ \A n \in 1 .. z : d[a + n - 1] = old[n]
  BY DEF Carried
<1>. HIDE DEF old, new, a, z, y
<1>6. Overlay(d, a, z, buf, y)
  <2>1. z + Len(buf) <= y
    BY <1>1, <1>4
  <2>2. z \in Nat /\ y \in Nat /\ d \in Bytewise
    BY <1>1, <1>2, <1>5
  <2>. QED  BY <1>3, <1>4, <2>1, <2>2, Rewrites
<1>7. data' \in Bytewise
  BY <1>6 DEF Overlay
<1>8. Within(i)
  <2>1. ASSUME NEW c \in Cells, c < a \/ a + y <= c PROVE data'[c] = data[c]
    <3>1. c < a \/ a + z <= c
      <4>1. c \in Int
        BY DEF Cells
      <4>. QED  BY <1>1, <1>3, <1>4, <2>1, <4>1
    <3>2. data'[c] = d[c]
      BY <1>6, <2>1 DEF Overlay
    <3>. QED  BY <1>5, <3>1, <3>2
  <2>. QED  BY <2>1 DEF Within, a, y
<1>9. /\ Store!Put(path, new) /\ Files'[path] = new
      /\ \A k \in Keys \ {path} : Files'[k] = Files[k]
      /\ new \in Seq(Values) /\ Len(new) = y
      /\ \A n \in 1 .. y : new[n] = data'[a + n - 1]
  <2>1. /\ Store!Put(path, BytesIn(data', files'[i])) /\ Files'[path] = BytesIn(data', files'[i])
        /\ \A k \in Keys \ {path} : Files'[k] = Files[k]
        /\ BytesIn(data', files'[i]) \in Seq(Values)
        /\ Len(BytesIn(data', files'[i])) = files'[i].size
        /\ \A n \in 1 .. files'[i].size :
             BytesIn(data', files'[i])[n] = data'[Address(files'[i].start) + n - 1]
    BY <1>7, <1>8, After
  <2>. QED  BY <2>1 DEF a, y, new
<1>10. new = old \o buf
  <2>1. /\ old \o buf \in Seq(Values) /\ Len(old \o buf) = z + Len(buf)
        /\ \A n \in 1 .. z : (old \o buf)[n] = old[n]
        /\ \A n \in 1 .. Len(buf) : (old \o buf)[z + n] = buf[n]
    BY <1>1, Joined
  <2>2. ASSUME NEW n \in 1 .. y PROVE new[n] = (old \o buf)[n]
    <3>1. new[n] = IF n - z \in 1 .. Len(buf) THEN buf[n - z] ELSE d[a + n - 1]
      BY <1>6, <1>9 DEF Overlay
    <3>2. CASE n <= z
      <4>1. n \in 1 .. z /\ n - z \notin 1 .. Len(buf)
        BY <1>1, <1>2, <3>2
      <4>. QED  BY <1>5, <2>1, <3>1, <4>1
    <3>3. CASE ~(n <= z)
      <4>1. n - z \in 1 .. Len(buf) /\ z + (n - z) = n
        BY <1>1, <1>2, <1>4, <3>3
      <4>2. (old \o buf)[z + (n - z)] = buf[n - z]
        BY <2>1, <4>1
      <4>. QED  BY <3>1, <4>1, <4>2
    <3>. QED  BY <3>2, <3>3
  <2>. DEFINE l == old \o buf
  <2>3. /\ new \in Seq(Values) /\ l \in Seq(Values) /\ Len(new) = y /\ Len(l) = y
        /\ \A n \in 1 .. Len(new) : new[n] = l[n]
    BY <1>4, <1>9, <2>1, <2>2
  <2>. HIDE DEF l
  <2>4. Len(new) = Len(l)
    BY <2>3
  <2>5. new = l
    BY <2>3, <2>4, SeqEqual
  <2>. QED  BY <2>5 DEF l
<1>. QED  BY <1>1, <1>7, <1>9, <1>10 DEF z

LEMMA CarriedNowhere ==
  ASSUME BitmapInv, data \in Bytewise, NEW i \in Indices, files[i].used, files[i].type = "file"
  PROVE  Carried(data, Address(files[i].start), files[i].size, BytesIn(data, files[i]))
<1>1. files[i].start \in Nat /\ files[i].size \in Nat /\ RunOf(files[i]) \subseteq Blocks
  BY FilesOf DEF BitmapInv
<1>2. \A n \in 1 .. files[i].size :
        BytesIn(data, files[i])[n] = data[Address(files[i].start) + n - 1]
  BY <1>1, BytesAre
<1>. QED  BY <1>2 DEF Carried

LEMMA CarriedAway ==
  ASSUME BitmapInv, data \in Bytewise, NEW i \in Indices, files[i].used, files[i].type = "file",
         NEW size, size \in Nat, Relocated(files[i], size) # -1,
         BlocksFor(files[i].size) <= BlocksFor(size), files[i].size <= size
  PROVE  Carried(RelocatedData(files[i], size), Address(Relocated(files[i], size)),
                 files[i].size, BytesIn(data, files[i]))
<1>. DEFINE start == Relocated(files[i], size)
            d     == RelocatedData(files[i], size)
            old   == BytesIn(data, files[i])
            z     == files[i].size
<1>1. files[i].start \in Nat /\ files[i].size \in Nat /\ RunOf(files[i]) \subseteq Blocks
  BY FilesOf DEF BitmapInv
<1>2. \A n \in 1 .. z : old[n] = data[Address(files[i].start) + n - 1]
  BY <1>1, BytesAre
<1>3. start = Relocated(files[i], size) /\ start # -1
  OBVIOUS
<1>. HIDE DEF start
<1>4. /\ d \in Bytewise
      /\ \A c \in Cells : c < Address(start) \/ Address(start) + z <= c => d[c] = data[c]
      /\ \A n \in 1 .. z : d[Address(start) + n - 1] = data[Address(files[i].start) + n - 1]
  BY <1>3, RelocatedIs
<1>. HIDE DEF d, old, z
<1>5. Carried(d, Address(start), z, old)
  BY <1>2, <1>4 DEF Carried
<1>. QED  BY <1>5 DEF start, d, old, z

LEMMA AppendStores ==
  ASSUME BitmapInv, RootStays, Sound(files), data \in Bytewise, CallsNameKeys',
         NEW p \in FilePaths, NEW buf \in Buffers, avfs_append_file(p, buf)
  PROVE  data' \in Bytewise /\ Store!StoreNext
<1>. DEFINE path  == normalize_path(p)
            i     == avfs_find_entry(path)
            size  == files[i].size + Len(buf)
            grows == BlocksFor(size) > BlocksFor(files[i].size)
            start == IF grows THEN Relocated(files[i], size) ELSE files[i].start
            d     == IF grows THEN RelocatedData(files[i], size) ELSE data
<1>1. /\ i # -1 /\ files[i].type = "file" /\ start # -1
      /\ data' = Stored(d, start * AVFS_BLOCK_SIZE + files[i].size, buf)
      /\ files' = [files EXCEPT ![i].start = start, ![i].size = size]
      /\ call' = [op |-> "append", path |-> path, buf |-> buf]
  BY DEF avfs_append_file
<1>2. path \in Names /\ buf \in Seq(Values) /\ i = Found(files, path) /\ path \in Keys
  BY <1>1, InputsAre, BuffersAre, NormalIs, FoundIs DEF BitmapInv, CallsNameKeys
<1>3. i \in Indices /\ files[i].used
  BY <1>1, InputsAre, FileReached
<1>4. Keeps
  BY InputsAre, AppendKeeps
<1>. HIDE DEF path, i
<1>5. size \in Nat /\ files[i].size \in Nat /\ files[i].size <= size
  BY <1>2, <1>3, EntryIs
<1>6. Carried(d, Address(start), files[i].size, BytesIn(data, files[i]))
  <2>1. CASE grows
    <3>1. d = RelocatedData(files[i], size) /\ start = Relocated(files[i], size)
      BY <2>1
    <3>2. BlocksFor(files[i].size) <= BlocksFor(size)
      BY <1>5, BlocksForIs
    <3>. HIDE DEF d, start, size, grows
    <3>3. Relocated(files[i], size) # -1
      BY <1>1, <3>1
    <3>4. Carried(RelocatedData(files[i], size), Address(Relocated(files[i], size)),
                 files[i].size, BytesIn(data, files[i]))
      BY <1>1, <1>3, <1>5, <3>2, <3>3, CarriedAway
    <3>. QED  BY <3>1, <3>4
  <2>2. CASE ~grows
    <3>1. d = data /\ start = files[i].start
      BY <2>2
    <3>. HIDE DEF d, start
    <3>. QED  BY <1>1, <1>3, <3>1, CarriedNowhere
  <2>. QED  BY <2>1, <2>2
<1>. HIDE DEF start, d, grows
<1>7. Alike(files, files')
  BY <1>1, <1>3, AssignedAlike
<1>8. files'[i].start = start /\ files'[i].size = size /\ \A j \in Indices \ {i} : files'[j] = files[j]
  <2>1. files \in [Indices -> Entries] /\ files[i] \in Entries
    BY <1>3 DEF BitmapInv, Table
  <2>2. files' = [files EXCEPT ![i] = [files[i] EXCEPT !.start = start, !.size = size]]
    BY <1>1, <1>3, Assigned
  <2>. QED  BY <1>3, <2>1, <2>2 DEF Entries
<1>9. Only(path, i)
  BY <1>1, <1>2, <1>3, <1>7, <1>8, AlikeOnly
<1>10. WrittenAt(d, Address(files'[i].start), files[i].size, buf)
  BY <1>1, <1>8 DEF WrittenAt, Address
<1>11. /\ Carried(d, Address(files'[i].start), files[i].size, BytesIn(data, files[i]))
       /\ files'[i].size = files[i].size + Len(buf)
  BY <1>6, <1>8
<1>12. data' \in Bytewise /\ Store!IsFile(path) /\ Store!Put(path, Files[path] \o buf)
  BY <1>1, <1>2, <1>3, <1>4, <1>9, <1>10, <1>11, Lengthened
<1>13. /\ call'.op = "append" /\ call'.buf = buf
       /\ call' = [op |-> "append", path |-> path, buf |-> call'.buf]
  BY <1>1
<1>14. Store!Extend
  BY <1>2, <1>12, <1>13 DEF Store!Extend, Files
<1>. QED  BY <1>12, <1>14 DEF Store!StoreNext

-----------------------------------------------------------------------------
(* avfs_truncate.                                                          *)

LEMMA TruncateWithinStores ==
  ASSUME BitmapInv, RootStays, Sound(files), data \in Bytewise, CallsNameKeys',
         NEW p \in FilePaths, NEW size \in Sizes, truncate_within(p, size)
  PROVE  data' \in Bytewise /\ Store!StoreNext
<1>. DEFINE path == normalize_path(p)
            i    == avfs_find_entry(path)
<1>1. /\ i # -1 /\ files[i].type = "file" /\ data' = data
      /\ files' = [files EXCEPT ![i].size = size]
      /\ call' = [op |-> "truncate", path |-> path, size |-> size]
  BY DEF truncate_within
<1>2. path \in Names /\ size \in Nat /\ i = Found(files, path) /\ path \in Keys
  BY <1>1, InputsAre, BuffersAre, NormalIs, FoundIs DEF BitmapInv, CallsNameKeys
<1>3. i \in Indices /\ files[i].used
  BY <1>1, InputsAre, FileReached
<1>4. Keeps
  BY InputsAre, TruncateWithinKeeps
<1>. HIDE DEF path, i
<1>5. Alike(files, files')
  BY <1>1, <1>3, AssignedAlike
<1>6. /\ files'[i].start = files[i].start /\ files'[i].size = size
      /\ \A j \in Indices \ {i} : files'[j] = files[j]
  <2>1. files \in [Indices -> Entries] /\ files[i] \in Entries
    BY <1>3 DEF BitmapInv, Table
  <2>. QED  BY <1>1, <1>3, <2>1 DEF Entries
<1>7. Only(path, i)
  BY <1>1, <1>2, <1>3, <1>5, <1>6, AlikeOnly
<1>8. Within(i) /\ data' \in Bytewise
  BY <1>1 DEF Within
<1>. DEFINE old == BytesIn(data, files[i])
            new == BytesIn(data', files'[i])
            a   == Address(files[i].start)
<1>9. /\ Files[path] = old /\ Store!IsFile(path)
      /\ Len(old) = files[i].size /\ files[i].size \in Nat
      /\ \A n \in 1 .. files[i].size : old[n] = data[a + n - 1]
  BY <1>1, <1>2, <1>3, Before
<1>10. /\ Files'[path] = new /\ \A k \in Keys \ {path} : Files'[k] = Files[k]
       /\ Len(new) = size /\ \A n \in 1 .. size : new[n] = data[a + n - 1]
  <2>1. /\ Files'[path] = BytesIn(data', files'[i])
        /\ \A k \in Keys \ {path} : Files'[k] = Files[k]
        /\ Len(BytesIn(data', files'[i])) = files'[i].size
        /\ \A n \in 1 .. files'[i].size :
             BytesIn(data', files'[i])[n] = data'[Address(files'[i].start) + n - 1]
    BY <1>2, <1>4, <1>7, <1>8, After
  <2>. QED  BY <1>1, <1>6, <2>1
<1>. HIDE DEF old, new, a
<1>11. ASSUME NEW n \in 1 .. Len(old), n <= size PROVE new[n] = old[n]
  BY <1>2, <1>9, <1>10, <1>11
<1>12. /\ call'.op = "truncate" /\ call'.size = size
       /\ call' = [op |-> "truncate", path |-> path, size |-> call'.size]
  BY <1>1
<1>13. /\ Len(Files'[path]) = call'.size
       /\ \A n \in 1 .. Len(Files[path]) : n <= call'.size => Files'[path][n] = Files[path][n]
  BY <1>9, <1>10, <1>11, <1>12
<1>14. Store!Truncate
  BY <1>2, <1>9, <1>10, <1>12, <1>13 DEF Store!Truncate, Files
<1>. QED  BY <1>8, <1>14 DEF Store!StoreNext

LEMMA ZerosAre == ASSUME NEW n \in Nat PROVE Zeros(n) \in Seq(Values) /\ Len(Zeros(n)) = n
BY BuffersAre DEF Zeros

LEMMA TruncateGrowsStores ==
  ASSUME BitmapInv, RootStays, Sound(files), data \in Bytewise, CallsNameKeys',
         NEW p \in FilePaths, NEW size, size \in Sizes, truncate_grows(p, size)
  PROVE  data' \in Bytewise /\ Store!StoreNext
<1>. DEFINE path  == normalize_path(p)
            i     == avfs_find_entry(path)
            stays == ExtendsInPlace(files[i], size)
            start == IF stays THEN files[i].start ELSE Relocated(files[i], size)
            d     == IF stays THEN data ELSE RelocatedData(files[i], size)
            z     == files[i].size
            buf   == Zeros(size - z)
<1>1. /\ i # -1 /\ files[i].type = "file" /\ start # -1
      /\ BlocksFor(size) > BlocksFor(z)
      /\ data' = Stored(d, start * AVFS_BLOCK_SIZE + z, buf)
      /\ files' = [files EXCEPT ![i].start = start, ![i].size = size]
      /\ call' = [op |-> "truncate", path |-> path, size |-> size]
  BY DEF truncate_grows
<1>2. path \in Names /\ size \in Nat /\ i = Found(files, path) /\ path \in Keys
  BY <1>1, InputsAre, BuffersAre, NormalIs, FoundIs DEF BitmapInv, CallsNameKeys
<1>3. i \in Indices /\ files[i].used
  BY <1>1, InputsAre, FileReached
<1>4. Keeps
  BY InputsAre, TruncateGrowsKeeps
<1>. HIDE DEF path, i
<1>5. z \in Nat /\ z <= size /\ BlocksFor(z) <= BlocksFor(size)
  <2>1. z \in Nat
    BY <1>3, EntryIs
  <2>2. ASSUME size <= z PROVE FALSE
    <3>1. BlocksFor(size) <= BlocksFor(z) /\ BlocksFor(size) \in Nat /\ BlocksFor(z) \in Nat
      BY <1>2, <2>1, <2>2, BlocksForIs
    <3>. QED  BY <1>1, <3>1
  <2>3. z <= size
    BY <1>2, <2>1, <2>2
  <2>. QED  BY <1>2, <2>1, <2>3, BlocksForIs
<1>6. buf \in Seq(Values) /\ size = z + Len(buf)
  <2>1. size - z \in Nat
    BY <1>2, <1>5
  <2>2. buf \in Seq(Values) /\ Len(buf) = size - z
    BY <2>1, ZerosAre
  <2>. QED  BY <1>2, <1>5, <2>2
<1>7. Carried(d, Address(start), z, BytesIn(data, files[i]))
  <2>1. CASE ~stays
    <3>1. d = RelocatedData(files[i], size) /\ start = Relocated(files[i], size)
      BY <2>1
    <3>. HIDE DEF d, start, stays
    <3>2. Relocated(files[i], size) # -1
      BY <1>1, <3>1
    <3>3. Carried(RelocatedData(files[i], size), Address(Relocated(files[i], size)),
                  files[i].size, BytesIn(data, files[i]))
      BY <1>1, <1>2, <1>3, <1>5, <3>2, CarriedAway
    <3>. QED  BY <3>1, <3>3
  <2>2. CASE stays
    <3>1. d = data /\ start = files[i].start
      BY <2>2
    <3>. HIDE DEF d, start
    <3>. QED  BY <1>1, <1>3, <3>1, CarriedNowhere
  <2>. QED  BY <2>1, <2>2
<1>. HIDE DEF start, d, stays, buf
<1>8. Alike(files, files')
  BY <1>1, <1>3, AssignedAlike
<1>9. files'[i].start = start /\ files'[i].size = size /\ \A j \in Indices \ {i} : files'[j] = files[j]
  <2>1. files \in [Indices -> Entries] /\ files[i] \in Entries
    BY <1>3 DEF BitmapInv, Table
  <2>2. files' = [files EXCEPT ![i] = [files[i] EXCEPT !.start = start, !.size = size]]
    BY <1>1, <1>3, Assigned
  <2>. QED  BY <1>3, <2>1, <2>2 DEF Entries
<1>10. Only(path, i)
  BY <1>1, <1>2, <1>3, <1>8, <1>9, AlikeOnly
<1>11. WrittenAt(d, Address(files'[i].start), files[i].size, buf)
  BY <1>1, <1>9 DEF WrittenAt, Address
<1>12. /\ Carried(d, Address(files'[i].start), files[i].size, BytesIn(data, files[i]))
       /\ files'[i].size = files[i].size + Len(buf)
  BY <1>6, <1>7, <1>9
<1>13. /\ data' \in Bytewise /\ Store!IsFile(path) /\ Files'[path] = Files[path] \o buf
       /\ \A k \in Keys \ {path} : Files'[k] = Files[k]
       /\ Files[path] \in Seq(Values) /\ Len(Files[path]) = z
  BY <1>1, <1>2, <1>3, <1>4, <1>6, <1>10, <1>11, <1>12, Lengthened
<1>14. /\ call'.op = "truncate" /\ call'.size = size
       /\ call' = [op |-> "truncate", path |-> path, size |-> call'.size]
  BY <1>1
<1>15. /\ Len(Files'[path]) = call'.size
       /\ \A n \in 1 .. Len(Files[path]) : n <= call'.size => Files'[path][n] = Files[path][n]
  <2>. DEFINE old == Files[path]
  <2>1. old \in Seq(Values) /\ buf \in Seq(Values) /\ Files'[path] = old \o buf /\ Len(old) = z
    BY <1>6, <1>13
  <2>. HIDE DEF old, z
  <2>2. /\ Len(old \o buf) = Len(old) + Len(buf)
        /\ \A n \in 1 .. Len(old) : (old \o buf)[n] = old[n]
    BY <2>1, Joined
  <2>. QED  BY <1>6, <1>14, <2>1, <2>2 DEF old
<1>16. Store!Truncate
  BY <1>2, <1>13, <1>14, <1>15 DEF Store!Truncate, Files
<1>. QED  BY <1>13, <1>16 DEF Store!StoreNext

-----------------------------------------------------------------------------
(* Removal and directories.                                                *)

\* A step that names a directory, or nothing at all.
LEMMA SameFiles ==
  ASSUME \A k \in Keys : FileAt(k)' = FileAt(k)
  PROVE  Files' = Files
BY DEF Files

LEMMA RemovedStores ==
  ASSUME BitmapInv, RootStays', Sound(files), data \in Bytewise, CallsNameKeys',
         NEW T, NEW path \in Seq(T), Shrunk(files, files', Found(files, path)),
         Removed(Found(files, path), path)
  PROVE  data' \in Bytewise /\ Store!StoreNext
<1>. DEFINE i == Found(files, path)
            U == T \cup STRING
<1>1. /\ i \in Indices /\ files[i].used /\ data' = data
      /\ call' = IF files[i].type = "dir" THEN [op |-> "dir"] ELSE [op |-> "remove", path |-> path]
      /\ i # 0 /\ i # -1
  BY DEF Removed, Shrunk, RootStays, Indices
<1>2. files[i].type \in {"file", "dir"}
  BY <1>1 DEF BitmapInv, Table, Entries
<1>3. path \in Seq(U) /\ \A k \in Keys : k \in Seq(U)
  BY KeysAre, SeqMonotonic
<1>. HIDE DEF U
<1>4. ASSUME NEW k \in Keys, k # path PROVE FileAt(k)' = FileAt(k)
  <2>1. FileIn(files', data, k) = FileIn(files, data, k)
    BY <1>1, <1>3, <1>4, OthersStay
  <2>. QED  BY <1>1, <2>1, FileAtIs
<1>5. FileAt(path)' = NoFile
  <2>1. Found(files', path) = -1
    BY <1>1, FoundShrunk
  <2>2. FileIn(files', data', path) = NoFile
    BY <2>1, Zenon DEF FileIn
  <2>. QED  BY <2>2, FileAtIs
<1>6. CASE files[i].type = "dir"
  <2>1. FileAt(path) = NoFile
    <3>1. ~(Found(files, path) # -1 /\ files[Found(files, path)].type = "file")
      BY <1>6
    <3>2. FileIn(files, data, path) = NoFile
      BY <3>1, Zenon DEF FileIn
    <3>. QED  BY <3>2, FileAtIs
  <2>2. Files' = Files
    <3>1. ASSUME NEW k \in Keys PROVE FileAt(k)' = FileAt(k)
      <4>1. CASE k = path
        <5>1. FileAt(k) = NoFile
          BY <2>1, <4>1
        <5>2. FileAt(k)' = NoFile
          BY <1>5, <4>1
        <5>. QED  BY <5>1, <5>2
      <4>. QED  BY <1>4, <4>1
    <3>. QED  BY <3>1, SameFiles
  <2>3. Store!Directory
    BY <1>1, <1>6, <2>2 DEF Store!Directory, Files
  <2>. QED  BY <1>1, <2>3 DEF Store!StoreNext
<1>7. CASE files[i].type = "file"
  <2>1. call' = [op |-> "remove", path |-> path]
    BY <1>1, <1>7
  <2>2. path \in Keys
    BY <2>1 DEF CallsNameKeys
  <2>3. Store!IsFile(path)
    <3>1. i = Found(files, path)
      OBVIOUS
    <3>. HIDE DEF i
    <3>. QED  BY <1>1, <1>7, <2>2, <3>1, Before
  <2>4. Files' = [Files EXCEPT ![path] = NoFile]
    BY <1>4, <1>5, <2>2 DEF Files
  <2>5. Store!Put(path, NoFile)
    BY <2>4 DEF Store!Put, Files
  <2>6. Store!Remove
    BY <2>1, <2>2, <2>3, <2>5 DEF Store!Remove
  <2>. QED  BY <1>1, <2>6 DEF Store!StoreNext
<1>. QED  BY <1>2, <1>6, <1>7

LEMMA RemoveStores ==
  ASSUME BitmapInv, RootStays, RootStays', Sound(files), data \in Bytewise, CallsNameKeys',
         NEW p \in Paths, avfs_remove_file(p)
  PROVE  data' \in Bytewise /\ Store!StoreNext
<1>. DEFINE path == normalize_path(p)
            i    == avfs_find_entry(path)
<1>1. Removable(i) /\ Removed(i, path) /\ i # -1
  BY DEF avfs_remove_file, Removable
<1>2. i \in Indices /\ files[i].used /\ i = Found(files, path) /\ path \in Seq(STRING)
  BY <1>1, FileReached, FoundIs, NormalIs DEF BitmapInv, Names
<1>. HIDE DEF path, i
<1>3. Shrunk(files, files', i)
  BY <1>1, <1>2, RemovedShrinks
<1>4. Shrunk(files, files', Found(files, path)) /\ Removed(Found(files, path), path)
  BY <1>1, <1>2, <1>3
<1>. QED  BY <1>2, <1>4, RemovedStores

LEMMA CreateDirStores ==
  ASSUME BitmapInv, RootStays, Sound(files), data \in Bytewise, NEW p \in DirPaths,
         avfs_create_dir(p)
  PROVE  data' \in Bytewise /\ Store!StoreNext
<1>. DEFINE path == normalize_path(p)
            i    == Min(FreeEntries)
            f    == [Zeroed EXCEPT !.used = TRUE, !.type = "dir", !.name = Last(path),
                                   !.parent = ParentOf(path)]
<1>1. /\ ~Exists(path) /\ IsDir(ParentOf(path)) /\ Enter(f) /\ FreeEntries # {}
      /\ call' = [op |-> "dir"] /\ data' = data
  BY DEF avfs_create_dir
<1>2. path \in Names
  BY InputsAre, NormalIs DEF BitmapInv
<1>3. f.used /\ f.name = Last(path) /\ f.parent = ParentOf(path) /\ f.type = "dir"
  BY DEF Zeroed
<1>. HIDE DEF path, f, i
<1>4. Grown(files, files', path, i, f)
  BY <1>1, <1>2, <1>3, EnterGrows DEF i
<1>5. /\ files'[i] = f /\ i \in Indices /\ ~files[i].used
      /\ \A j \in Indices \ {i} : files'[j] = files[j]
  BY <1>4 DEF Grown
<1>6. ASSUME NEW k \in Keys PROVE FileAt(k)' = FileAt(k)
  <2>. DEFINE j == Found(files, k)
  <2>0. k \in Seq(STRING)
    BY KeysAre
  <2>1. Found(files', k) = IF k = path THEN i ELSE j
    BY <1>2, <1>4, <2>0, FoundGrown DEF Names
  <2>2. CASE k = path
    <3>1. Found(files, k) = -1
      BY <1>1, <2>2, FoundIs DEF Exists
    <3>2. FileIn(files, data, k) = NoFile
      BY <3>1, Zenon DEF FileIn
    <3>3. ~(Found(files', k) # -1 /\ files'[Found(files', k)].type = "file")
      BY <1>3, <1>5, <2>1, <2>2
    <3>4. FileIn(files', data', k) = NoFile
      BY <3>3, Zenon DEF FileIn
    <3>. QED  BY <3>2, <3>4, FileAtIs
  <2>3. CASE k # path
    <3>1. Found(files', k) = j
      BY <2>1, <2>3
    <3>2. j # -1 => files'[j] = files[j]
      <4>1. 0 \in InUse(files)
        BY AvfsConstants DEF Sound, InUse, Indices
      <4>2. j # -1 => j \in InUse(files)
        BY <2>0, <4>1, FoundIn
      <4>. QED  BY <1>5, <4>2 DEF InUse
    <3>. HIDE DEF j
    <3>3. Found(files, k) = j
      BY DEF j
    <3>4. CASE j = -1
      <4>1. FileIn(files', data', k) = NoFile /\ FileIn(files, data, k) = NoFile
        BY <3>1, <3>3, <3>4, Zenon DEF FileIn
      <4>. QED  BY <4>1, FileAtIs
    <3>5. CASE j # -1
      <4>1. FileIn(files', data', k) = FileIn(files, data, k)
        BY <1>1, <3>1, <3>2, <3>3, <3>5 DEF FileIn
      <4>. QED  BY <4>1, FileAtIs
    <3>. QED  BY <3>4, <3>5
  <2>. QED  BY <2>2, <2>3
<1>7. Files' = Files
  BY <1>6, SameFiles
<1>8. Store!Directory
  BY <1>1, <1>7 DEF Store!Directory, Files
<1>. QED  BY <1>1, <1>8 DEF Store!StoreNext

LEMMA ChdirStores ==
  ASSUME data \in Bytewise, NEW p \in ChdirPaths, avfs_chdir(p)
  PROVE  data' \in Bytewise /\ Store!StoreNext
<1>1. files' = files /\ data' = data /\ call' = [op |-> "dir"]
  BY DEF avfs_chdir
<1>2. Files' = Files
  BY <1>1, FileAtIs, SameFiles
<1>3. Store!Directory
  BY <1>1, <1>2 DEF Store!Directory, Files
<1>. QED  BY <1>1, <1>3 DEF Store!StoreNext

StepStores == data' \in Bytewise /\ (Store!StoreNext \/ UNCHANGED <<Files, call>>)

LEMMA RmStores ==
  ASSUME BitmapInv, RootStays, RootStays', Sound(files), data \in Bytewise, CallsNameKeys', Rm
  PROVE  StepStores
<1>1. CASE UNCHANGED <<files, data, call>>
  <2>1. Files' = Files
    BY <1>1, FileAtIs, SameFiles
  <2>. QED  BY <1>1, <2>1 DEF StepStores
<1>2. CASE rm_removes
  <2>. DEFINE path == RmPath(Frame, Entry.name)
  <2>1. CASE ~UNCHANGED <<files, data, call>>
    <3>1. PICK T : /\ path \in Seq(T) /\ Shrunk(files, files', Found(files, path))
                   /\ Removed(Found(files, path), path)
      BY <1>2, <2>1, RmRemovesOne
    <3>. HIDE DEF path
    <3>. QED  BY <3>1, RemovedStores DEF StepStores
  <2>. QED  BY <1>1, <2>1
<1>3. CASE rm_finishes
  <2>. DEFINE path == Frame.path
  <2>1. PICK T : /\ path \in Seq(T) /\ Shrunk(files, files', Found(files, path))
                 /\ Removed(Found(files, path), path)
    BY <1>3, RmFinishesOne
  <2>. HIDE DEF path
  <2>. QED  BY <2>1, RemovedStores DEF StepStores
<1>4. CASE ~rm_removes /\ ~rm_finishes
  <2>1. UNCHANGED <<files, data, call>>
    BY <1>4 DEF Rm, rm_starts, rm_skips, rm_descends, rm_gives_up, Called
  <2>. QED  BY <1>1, <2>1
<1>. QED  BY <1>2, <1>3, <1>4

LEMMA FileCallStores ==
  ASSUME BitmapInv, RootStays, RootStays', Sound(files), data \in Bytewise, CallsNameKeys',
         CreatedBelowDirs, FileCall
  PROVE  StepStores
<1>1. ASSUME NEW p \in FilePaths, NEW size \in Sizes,
             avfs_create_file(p, size) \/ truncate_within(p, size) \/ truncate_grows(p, size)
      PROVE  StepStores
  BY <1>1, CreateStores, TruncateWithinStores, TruncateGrowsStores DEF StepStores
<1>2. ASSUME NEW p \in FilePaths, NEW buf \in Buffers,
             save_new(p, buf) \/ save_over(p, buf) \/ avfs_append_file(p, buf)
      PROVE  StepStores
  BY <1>2, SaveNewStores, SaveOverStores, AppendStores DEF StepStores
<1>3. ASSUME NEW p \in FilePaths, NEW buf \in Buffers, NEW offset \in Sizes,
             avfs_write_file(p, buf, offset)
      PROVE  StepStores
  BY <1>3, WriteStores DEF StepStores
<1>4. ASSUME NEW p \in FilePaths, avfs_remove_file(p) PROVE StepStores
  BY <1>4, InputsAre, RemoveStores DEF StepStores
<1>. QED  BY <1>1, <1>2, <1>3, <1>4 DEF FileCall

LEMMA DirCallStores ==
  ASSUME BitmapInv, RootStays, RootStays', Sound(files), data \in Bytewise, CallsNameKeys', DirCall
  PROVE  StepStores
<1>1. ASSUME NEW p \in DirPaths, avfs_create_dir(p) \/ avfs_remove_file(p) PROVE StepStores
  BY <1>1, InputsAre, CreateDirStores, RemoveStores DEF StepStores
<1>2. ASSUME NEW p \in ChdirPaths, avfs_chdir(p) PROVE StepStores
  BY <1>2, ChdirStores DEF StepStores
<1>. QED  BY <1>1, <1>2 DEF DirCall

DataOK == data \in Bytewise

LEMMA StoreStep ==
  /\ BitmapInv /\ Sound(files) /\ RootStays /\ RootStays' /\ DataOK /\ CallsNameKeys'
  /\ [AvfsNext]_vars /\ [CreatedBelowDirs]_vars
  => DataOK' /\ [Store!StoreNext]_<<[k \in Keys |-> FileAt(k)], call>>
<1>. SUFFICES ASSUME BitmapInv, Sound(files), RootStays, RootStays', data \in Bytewise,
                     CallsNameKeys', [AvfsNext]_vars, [CreatedBelowDirs]_vars
              PROVE  StepStores
  BY DEF StepStores, Files, DataOK
<1>1. CASE UNCHANGED vars
  <2>1. files' = files /\ data' = data /\ call' = call
    BY <1>1 DEF vars
  <2>2. Files' = Files
    BY <2>1, FileAtIs, SameFiles
  <2>. QED  BY <2>1, <2>2 DEF StepStores
<1>2. CASE AvfsNext /\ CreatedBelowDirs
  BY <1>2, FileCallStores, DirCallStores, RmStores DEF AvfsNext
<1>. QED  BY <1>1, <1>2

LEMMA StoreInits == AvfsInit => DataOK /\ Store!StoreInit
<1>. SUFFICES ASSUME AvfsInit PROVE data \in Bytewise /\ Store!StoreInit
  BY DEF DataOK
<1>1. data \in Bytewise /\ call = [op |-> "none"]
  BY BuffersAre DEF AvfsInit, Bytewise
<1>2. ASSUME NEW k \in Keys PROVE FileAt(k) = NoFile
  <2>1. ~(Found(files, k) # -1 /\ files[Found(files, k)].type = "file")
    <3>1. Sound(files)
      BY SoundInit
    <3>2. 0 \in InUse(files)
      BY <3>1, AvfsConstants DEF Sound, InUse, Indices
    <3>3. Found(files, k) # -1 => Found(files, k) \in InUse(files)
      BY <3>2, KeysAre, FoundIn
    <3>4. \A j \in InUse(files) : j = 0
      BY DEF InUse, AvfsInit, Zeroed
    <3>5. files[0].type = "dir"
      BY <3>2 DEF InUse, AvfsInit, Root, Zeroed
    <3>. QED  BY <3>3, <3>4, <3>5
  <2>2. FileIn(files, data, k) = NoFile
    BY <2>1, Zenon DEF FileIn
  <2>. QED  BY <2>2, FileAtIs
<1>. QED  BY <1>1, <1>2 DEF Store!StoreInit

\* AVFS implements FileStore, for every size of the storage and of the table
\* and every buffer: each call changes the bytes of the file it names as the
\* call says, whether the file stays, moves or overlaps its old run, and those
\* of no other file.  As before entry 0 is the root and files are created below
\* directories; the paths of the store are those the calls lead to.
THEOREM AvfsImplementsFileStore ==
  AvfsSpec /\ []RootStays /\ [][CreatedBelowDirs]_vars /\ []CallsNameKeys => FileStoreSpec
BY BitmapInvInit, BitmapInvStep, SoundInit, SoundStep, StoreInits, StoreStep, PTL
   DEF AvfsSpec, FileStoreSpec, Store!StoreSpec

-----------------------------------------------------------------------------
(* The type invariant.                                                     *)

LEMMA StoredOK ==
  ASSUME NEW d \in Bytewise, NEW at, NEW buf \in Seq(Values)
  PROVE  Stored(d, at, buf) \in Bytewise
<1>1. ASSUME NEW c \in Cells
      PROVE  (IF c - at + 1 \in 1 .. Len(buf) THEN buf[c - at + 1] ELSE d[c]) \in Values
  BY DEF Bytewise
<1>. QED  BY <1>1 DEF Stored, Bytewise

LEMMA RelocatedOK ==
  ASSUME BitmapInv, RootStays, DataOK, NEW p \in FilePaths,
         NEW i, i = avfs_find_entry(normalize_path(p)), i # -1, files[i].type = "file",
         NEW size, size \in Nat, files[i].size <= size, Relocated(files[i], size) # -1
  PROVE  RelocatedData(files[i], size) \in Bytewise
<1>1. i \in Indices /\ files[i].used
  BY InputsAre, FileReached
<1>2. files[i].size \in Nat
  BY <1>1, EntryIs
<1>3. BlocksFor(files[i].size) <= BlocksFor(size)
  BY <1>2, BlocksForIs
<1>. DEFINE start == Relocated(files[i], size)
<1>4. start = Relocated(files[i], size) /\ start # -1
  OBVIOUS
<1>. HIDE DEF start
<1>. QED  BY <1>1, <1>3, <1>4, RelocatedIs DEF DataOK

LEMMA AppendData ==
  ASSUME BitmapInv, RootStays, DataOK, NEW p \in FilePaths, NEW buf \in Buffers,
         avfs_append_file(p, buf)
  PROVE  data' \in Bytewise
<1>. DEFINE i     == avfs_find_entry(normalize_path(p))
            size  == files[i].size + Len(buf)
            grows == BlocksFor(size) > BlocksFor(files[i].size)
            start == IF grows THEN Relocated(files[i], size) ELSE files[i].start
            at    == start * AVFS_BLOCK_SIZE + files[i].size
            d     == IF grows THEN RelocatedData(files[i], size) ELSE data
<1>1. /\ i # -1 /\ files[i].type = "file" /\ start # -1
      /\ data' = Stored(d, at, buf)
  BY DEF avfs_append_file
<1>2. buf \in Seq(Values) /\ Len(buf) \in Nat
  BY BuffersAre
<1>3. i \in Indices /\ files[i].used
  BY <1>1, InputsAre, FileReached
<1>4. files[i].size \in Nat
  BY <1>3, EntryIs
<1>5. size \in Nat /\ files[i].size <= size
  BY <1>2, <1>4
<1>6. CASE grows
  <2>1. d = RelocatedData(files[i], size) /\ Relocated(files[i], size) # -1
    BY <1>1, <1>6
  <2>2. i = avfs_find_entry(normalize_path(p))
    OBVIOUS
  <2>. HIDE DEF i, size, grows, start, at, d
  <2>3. d \in Bytewise
    BY <1>1, <1>5, <2>1, <2>2, RelocatedOK
  <2>. QED  BY <1>1, <1>2, <2>3, StoredOK
<1>7. CASE ~grows
  <2>1. d = data
    BY <1>7
  <2>. HIDE DEF d, at
  <2>. QED  BY <1>1, <1>2, <2>1, StoredOK DEF DataOK
<1>. QED  BY <1>6, <1>7

LEMMA TruncateGrowsData ==
  ASSUME BitmapInv, RootStays, DataOK, NEW p \in FilePaths, NEW size, size \in Sizes,
         truncate_grows(p, size)
  PROVE  data' \in Bytewise
<1>. DEFINE i     == avfs_find_entry(normalize_path(p))
            stays == ExtendsInPlace(files[i], size)
            start == IF stays THEN files[i].start ELSE Relocated(files[i], size)
            at    == start * AVFS_BLOCK_SIZE + files[i].size
            d     == IF stays THEN data ELSE RelocatedData(files[i], size)
            buf   == Zeros(size - files[i].size)
<1>1. /\ i # -1 /\ files[i].type = "file" /\ start # -1
      /\ BlocksFor(size) > BlocksFor(files[i].size)
      /\ data' = Stored(d, at, buf)
  BY DEF truncate_grows
<1>2. size \in Nat
  BY InputsAre
<1>3. i \in Indices /\ files[i].used
  BY <1>1, InputsAre, FileReached
<1>4. files[i].size \in Nat
  BY <1>3, EntryIs
<1>5. files[i].size <= size
  <2>. SUFFICES ASSUME size <= files[i].size PROVE FALSE
    BY <1>2, <1>4
  <2>1. /\ BlocksFor(size) <= BlocksFor(files[i].size)
        /\ BlocksFor(size) \in Nat /\ BlocksFor(files[i].size) \in Nat
    BY <1>2, <1>4, BlocksForIs
  <2>. QED  BY <1>1, <2>1
<1>6. buf \in Seq(Values)
  <2>1. size - files[i].size \in Nat
    BY <1>2, <1>4, <1>5
  <2>. QED  BY <2>1, ZerosAre
<1>7. CASE ~stays
  <2>1. d = RelocatedData(files[i], size) /\ Relocated(files[i], size) # -1
    BY <1>1, <1>7
  <2>2. i = avfs_find_entry(normalize_path(p))
    OBVIOUS
  <2>. HIDE DEF i, stays, start, at, d, buf
  <2>3. d \in Bytewise
    BY <1>1, <1>2, <1>5, <2>1, <2>2, RelocatedOK
  <2>. QED  BY <1>1, <1>6, <2>3, StoredOK
<1>8. CASE stays
  <2>1. d = data
    BY <1>8
  <2>. HIDE DEF d, at, buf
  <2>. QED  BY <1>1, <1>6, <2>1, StoredOK DEF DataOK
<1>. QED  BY <1>7, <1>8

LEMMA DataStep == BitmapInv /\ RootStays /\ DataOK /\ [AvfsNext]_vars => DataOK'
<1>. SUFFICES ASSUME BitmapInv, RootStays, DataOK, [AvfsNext]_vars PROVE data' \in Bytewise
  BY DEF DataOK
<1>1. CASE data' = data
  BY <1>1 DEF DataOK
<1>2. ASSUME NEW p \in FilePaths, NEW size \in Sizes,
             avfs_create_file(p, size) \/ truncate_within(p, size) \/ truncate_grows(p, size)
      PROVE  data' \in Bytewise
  BY <1>1, <1>2, TruncateGrowsData DEF avfs_create_file, truncate_within
<1>3. ASSUME NEW p \in FilePaths, NEW buf \in Buffers, NEW offset,
             \/ save_new(p, buf) \/ save_over(p, buf) \/ avfs_write_file(p, buf, offset)
      PROVE  data' \in Bytewise
  <2>1. \E at : data' = Stored(data, at, buf)
    BY <1>3, Zenon DEF save_new, save_over, avfs_write_file
  <2>2. buf \in Seq(Values)
    BY BuffersAre
  <2>. QED  BY <2>1, <2>2, StoredOK DEF DataOK
<1>4. ASSUME NEW p \in FilePaths, NEW buf \in Buffers, avfs_append_file(p, buf)
      PROVE  data' \in Bytewise
  BY <1>4, AppendData
<1>5. ASSUME NEW p, avfs_remove_file(p) \/ avfs_create_dir(p) \/ avfs_chdir(p)
      PROVE  data' \in Bytewise
  BY <1>1, <1>5 DEF avfs_remove_file, avfs_create_dir, avfs_chdir, Removed
<1>6. CASE Rm
  BY <1>1, <1>6 DEF Rm, rm_starts, rm_skips, rm_descends, rm_removes, rm_finishes, rm_gives_up,
                    Called, Removed
<1>7. CASE FileCall
  BY <1>2, <1>3, <1>4, <1>5, <1>7 DEF FileCall
<1>8. CASE DirCall
  BY <1>5, <1>8 DEF DirCall
<1>. QED  BY <1>1, <1>6, <1>7, <1>8 DEF AvfsNext, vars

\* As long as entry 0 is the root, the table, the bitmap and the storage keep
\* their types, and the run of every file lies within the storage.
THEOREM AvfsTypeCorrect == AvfsSpec /\ []RootStays => []AvfsTypeOK
<1>1. BitmapInv /\ DataOK => AvfsTypeOK
  <2>. SUFFICES ASSUME BitmapInv, DataOK PROVE AvfsTypeOK
    OBVIOUS
  <2>1. ASSUME NEW i \in Indices
        PROVE  /\ files[i].used \in BOOLEAN /\ files[i].type \in {"file", "dir"}
               /\ files[i].parent \in Indices \cup {-1} /\ files[i].size \in Nat
    BY DEF BitmapInv, Table, Entries
  <2>2. ASSUME NEW i \in UsedFiles PROVE RunOf(files[i]) \subseteq Blocks
    BY FilesOf DEF UsedFiles, BitmapInv
  <2>3. block_bitmap \in [Blocks -> BOOLEAN]
    BY DEF BitmapInv
  <2>4. data \in [Cells -> {0} \cup UNION {Range(buf) : buf \in Buffers}]
    BY DEF DataOK, Bytewise, Values
  <2>. QED  BY <2>1, <2>2, <2>3, <2>4 DEF AvfsTypeOK
<1>2. AvfsInit => DataOK
  BY StoreInits
<1>. QED  BY <1>1, <1>2, BitmapInvInit, BitmapInvStep, DataStep, PTL DEF AvfsSpec
===============================================================================
