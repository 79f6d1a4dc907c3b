--------------------------- MODULE ReadProjectsProofs ---------------------------
(***************************************************************************)
(* Theorems about the paging of ReadProjects: whatever is inserted,         *)
(* archived and revived between two pages, a walk repeats no row and loses  *)
(* none that was there all along.                                           *)
(***************************************************************************)
EXTENDS ReadProjects, FiniteSetTheorems, TLAPS

(***************************************************************************)
(*                          ORDER BY path LIMIT n                           *)
(***************************************************************************)
Below(S, p) == {q \in S : Rank[q] < Rank[p]}

Ascending(seq) == \A i, j \in DOMAIN seq : i < j => Rank[seq[i]] < Rank[seq[j]]

In(p, seq) == \E i \in DOMAIN seq : seq[i] = p

LEMMA RankFacts ==
  /\ \A p \in Paths : Rank[p] \in Nat \ {0}
  /\ \A p, q \in Paths : Rank[p] = Rank[q] => p = q
BY ReadAssumption

LEMMA BelowFacts ==
  ASSUME NEW S \in SUBSET Paths, NEW p \in S
  PROVE  /\ IsFiniteSet(S) /\ IsFiniteSet(Below(S, p)) /\ Cardinality(S) \in Nat
         /\ Cardinality(Below(S, p)) \in 0..(Cardinality(S) - 1)
<1>1. IsFiniteSet(Paths)
  BY StoreAssumption
<1>2. IsFiniteSet(S)
  BY <1>1, FS_Subset
<1>3. Below(S, p) \in SUBSET S /\ p \notin Below(S, p)
  BY RankFacts DEF Below
<1>4. IsFiniteSet(Below(S, p)) /\ Cardinality(Below(S, p)) <= Cardinality(S)
  BY <1>2, <1>3, FS_Subset
<1>5. Cardinality(Below(S, p)) # Cardinality(S)
  BY <1>2, <1>3, FS_Subset
<1>6. Cardinality(Below(S, p)) \in Nat /\ Cardinality(S) \in Nat
  BY <1>2, <1>4, FS_CardinalityType
<1> QED
  BY <1>2, <1>4, <1>5, <1>6

\* More rows are below a row that comes later.
LEMMA BelowGrows ==
  ASSUME NEW S \in SUBSET Paths, NEW p \in S, NEW q \in S
  PROVE  Rank[p] < Rank[q] <=> Cardinality(Below(S, p)) < Cardinality(Below(S, q))
<1>0. Rank[p] \in Nat /\ Rank[q] \in Nat /\ \A x \in S : Rank[x] \in Nat
  BY RankFacts
<1>1. /\ IsFiniteSet(Below(S, p)) /\ IsFiniteSet(Below(S, q))
      /\ Cardinality(Below(S, p)) \in Nat /\ Cardinality(Below(S, q)) \in Nat
  BY BelowFacts, FS_CardinalityType
<1>2. ASSUME Rank[p] < Rank[q]
      PROVE  Cardinality(Below(S, p)) < Cardinality(Below(S, q))
  <2>1. Below(S, p) \in SUBSET Below(S, q)
    BY <1>0, <1>2 DEF Below
  <2>2. p \in Below(S, q) /\ p \notin Below(S, p)
    BY <1>0, <1>2 DEF Below
  <2>3. /\ Cardinality(Below(S, p)) <= Cardinality(Below(S, q))
        /\ Cardinality(Below(S, p)) # Cardinality(Below(S, q))
    BY <1>1, <2>1, <2>2, FS_Subset
  <2> QED
    BY <1>1, <2>3
<1>3. ASSUME Rank[q] <= Rank[p]
      PROVE  Cardinality(Below(S, q)) <= Cardinality(Below(S, p))
  <2>1. Below(S, q) \in SUBSET Below(S, p)
    BY <1>0, <1>3 DEF Below
  <2> QED
    BY <1>1, <2>1, FS_Subset
<1> QED
  BY <1>0, <1>1, <1>2, <1>3

\* Every place of the order is taken, by the pigeonhole principle.
LEMMA EveryPlaceIsTaken ==
  ASSUME NEW S \in SUBSET Paths, NEW i \in 1..Cardinality(S)
  PROVE  \E p \in S : Cardinality(Below(S, p)) = i - 1
<1> DEFINE n == Cardinality(S)
           place == [p \in S |-> Cardinality(Below(S, p)) + 1]
<1>1. IsFiniteSet(S) /\ n \in Nat
  BY StoreAssumption, FS_Subset, FS_CardinalityType
<1>2. place \in [S -> 1..n]
  <2>1. \A p \in S : Cardinality(Below(S, p)) \in 0..(n - 1)
    BY BelowFacts
  <2>2. \A p \in S : Cardinality(Below(S, p)) + 1 \in 1..n
    BY <2>1, <1>1
  <2> QED
    BY <2>2
<1>3. \A p, q \in S : place[p] = place[q] => p = q
  <2> SUFFICES ASSUME NEW p \in S, NEW q \in S, place[p] = place[q] PROVE p = q
    OBVIOUS
  <2>1. Cardinality(Below(S, p)) \in Nat /\ Cardinality(Below(S, q)) \in Nat
    BY BelowFacts, <1>1
  <2>2. Cardinality(Below(S, p)) = Cardinality(Below(S, q))
    BY <2>1
  <2>3. ~(Rank[p] < Rank[q]) /\ ~(Rank[q] < Rank[p])
    BY <2>1, <2>2, BelowGrows
  <2> QED
    BY <2>3, RankFacts
<1>4. place \in Injection(S, 1..n)
  BY <1>2, <1>3 DEF Injection, IsInjective
<1>5. IsFiniteSet(1..n) /\ Cardinality(1..n) = n
  BY <1>1, FS_Interval
<1>6. place \in Surjection(S, 1..n)
  <2> HIDE DEF place
  <2> QED
    BY <1>4, <1>5, FS_Injection
<1>7. PICK p \in S : place[p] = i
  BY <1>6 DEF Surjection
<1>8. Cardinality(Below(S, p)) \in Nat
  BY BelowFacts, <1>1
<1> QED
  BY <1>7, <1>8

\* The ordered set is the set, ascending.
LEMMA OrderedFacts ==
  ASSUME NEW S \in SUBSET Paths
  PROVE  /\ Ordered(S) \in Seq(S)
         /\ Cardinality(S) \in Nat /\ Len(Ordered(S)) = Cardinality(S)
         /\ Ascending(Ordered(S))
         /\ \A p \in S : \E i \in 1..Cardinality(S) : Ordered(S)[i] = p
<1> DEFINE n == Cardinality(S)
           o == Ordered(S)
<1>0. IsFiniteSet(S) /\ n \in Nat
  BY StoreAssumption, FS_Subset, FS_CardinalityType
<1>1. ASSUME NEW i \in 1..n
      PROVE  o[i] \in S /\ Cardinality(Below(S, o[i])) = i - 1
  <2>1. \E p \in S : Cardinality(Below(S, p)) = i - 1
    BY EveryPlaceIsTaken
  <2>2. o[i] = CHOOSE p \in S : Cardinality(Below(S, p)) = i - 1
    BY DEF Ordered, Below
  <2> HIDE DEF o
  <2> QED
    BY <2>1, <2>2
<1>2. o = [i \in 1..n |-> o[i]]
  <2> DEFINE At(i) == CHOOSE p \in S : Cardinality({q \in S : Rank[q] < Rank[p]}) = i - 1
  <2>1. o = [i \in 1..n |-> At(i)]
    BY DEF Ordered
  <2> HIDE DEF o, At
  <2> QED
    BY <2>1
<1> HIDE DEF o, n
<1>3. o \in Seq(S) /\ Len(o) = n
  BY <1>0, <1>1, <1>2
<1>4. Ascending(o)
  <2> SUFFICES ASSUME NEW i \in 1..n, NEW j \in 1..n, i < j
               PROVE  Rank[o[i]] < Rank[o[j]]
    BY <1>0, <1>3 DEF Ascending
  <2>1. /\ o[i] \in S /\ Cardinality(Below(S, o[i])) = i - 1
        /\ o[j] \in S /\ Cardinality(Below(S, o[j])) = j - 1
    BY <1>1
  <2>2. i - 1 < j - 1
    BY <1>0
  <2> QED
    BY <2>1, <2>2, BelowGrows
<1>5. ASSUME NEW p \in S PROVE \E i \in 1..n : o[i] = p
  <2> DEFINE k == Cardinality(Below(S, p))
  <2>1. k \in 0..(n - 1)
    BY BelowFacts DEF n
  <2>2. k + 1 \in 1..n /\ (k + 1) - 1 = k
    BY <2>1, <1>0
  <2>3. o[k + 1] \in S /\ Cardinality(Below(S, o[k + 1])) = k
    BY <2>2, <1>1
  <2>4. ~(Rank[p] < Rank[o[k + 1]]) /\ ~(Rank[o[k + 1]] < Rank[p])
    BY <2>1, <2>3, <1>0, BelowGrows
  <2>5. o[k + 1] = p
    BY <2>3, <2>4, RankFacts
  <2> QED
    BY <2>2, <2>5
<1> QED
  BY <1>0, <1>3, <1>4, <1>5 DEF o, n

LEMMA LimitedFacts ==
  ASSUME NEW S, NEW seq \in Seq(S), NEW n \in Nat
  PROVE  /\ Limited(seq, n) \in Seq(S)
         /\ Len(Limited(seq, n)) = IF Len(seq) < n THEN Len(seq) ELSE n
         /\ \A i \in 1..Len(Limited(seq, n)) : Limited(seq, n)[i] = seq[i]
<1> DEFINE m == IF Len(seq) < n THEN Len(seq) ELSE n
<1>1. m \in Nat /\ m <= Len(seq) /\ Limited(seq, n) = SubSeq(seq, 1, m)
  BY DEF Limited
<1>2. m = IF Len(seq) < n THEN Len(seq) ELSE n
  OBVIOUS
<1> HIDE DEF m
<1>3. /\ SubSeq(seq, 1, m) \in Seq(S) /\ Len(SubSeq(seq, 1, m)) = m
      /\ \A i \in 1..m : SubSeq(seq, 1, m)[i] = seq[i]
  BY <1>1
<1> QED
  BY <1>1, <1>2, <1>3

\* A page is the beginning of what is past the token.
LEMMA PageFacts ==
  ASSUME NEW S \in SUBSET Paths, NEW fetched, NEW page,
         fetched = Limited(Ordered(S), PageSize + 1), page = Limited(fetched, PageSize)
  PROVE  /\ page \in Seq(S) /\ Len(page) <= PageSize /\ Ascending(page)
         /\ Len(fetched) \in Nat
         /\ Len(fetched) > PageSize =>
              /\ page[Len(page)] \in S
              /\ \A i \in DOMAIN page : Rank[page[i]] <= Rank[page[Len(page)]]
              /\ \A p \in S : Rank[p] <= Rank[page[Len(page)]] => In(p, page)
         /\ ~(Len(fetched) > PageSize) => \A p \in S : In(p, page)
<1> DEFINE o == Ordered(S)
           n == Cardinality(S)
<1>1. /\ o \in Seq(S) /\ n \in Nat /\ Len(o) = n /\ Ascending(o)
      /\ \A p \in S : \E i \in 1..n : o[i] = p
  BY OrderedFacts
<1>2. PageSize \in Nat /\ PageSize > 0 /\ PageSize + 1 \in Nat
  BY ReadAssumption
<1> HIDE DEF o, n
<1>3. /\ fetched \in Seq(S) /\ Len(fetched) = IF n < PageSize + 1 THEN n ELSE PageSize + 1
      /\ \A i \in 1..Len(fetched) : fetched[i] = o[i]
  BY <1>1, <1>2, LimitedFacts DEF o
<1>4. /\ page \in Seq(S)
      /\ Len(page) = IF Len(fetched) < PageSize THEN Len(fetched) ELSE PageSize
      /\ \A i \in 1..Len(page) : page[i] = fetched[i]
  BY <1>2, <1>3, LimitedFacts
<1> DEFINE m == Len(page)
<1>5. m \in Nat /\ m <= PageSize /\ m <= n /\ m <= Len(fetched) /\ Len(fetched) \in Nat
  BY <1>1, <1>2, <1>3, <1>4
<1>6. /\ Len(fetched) > PageSize => m = PageSize
      /\ ~(Len(fetched) > PageSize) => m = n
  BY <1>1, <1>2, <1>3, <1>4
<1> HIDE DEF m
<1>7. DOMAIN page = 1..m /\ DOMAIN o = 1..n /\ \A i \in 1..m : i \in 1..n /\ page[i] = o[i] /\ page[i] \in S
  <2>1. DOMAIN page = 1..m /\ DOMAIN o = 1..n
    <3>1. DOMAIN page = 1..Len(page)
      BY <1>4
    <3>2. DOMAIN o = 1..Len(o)
      BY <1>1
    <3> QED
      BY <3>1, <3>2, <1>1 DEF m
  <2>2. ASSUME NEW i \in 1..m PROVE i \in 1..n /\ page[i] = o[i] /\ page[i] \in S
    <3>1. i \in 1..Len(page) /\ i \in 1..Len(fetched) /\ i \in 1..n
      BY <1>1, <1>5 DEF m
    <3>2. page[i] = fetched[i] /\ fetched[i] = o[i]
      BY <3>1, <1>3, <1>4
    <3>3. page[i] \in S
      BY <3>1, <1>4
    <3> QED
      BY <3>1, <3>2, <3>3
  <2> QED
    BY <2>1, <2>2
<1>8. Ascending(page)
  <2>1. \A i, j \in 1..n : i < j => Rank[o[i]] < Rank[o[j]]
    BY <1>1, <1>7 DEF Ascending
  <2> SUFFICES ASSUME NEW i \in 1..m, NEW j \in 1..m, i < j
               PROVE  Rank[page[i]] < Rank[page[j]]
    BY <1>7 DEF Ascending
  <2>2. i \in 1..n /\ page[i] = o[i] /\ j \in 1..n /\ page[j] = o[j]
    BY <1>7
  <2> QED
    BY <2>1, <2>2
<1>9. ASSUME Len(fetched) > PageSize
      PROVE  /\ page[m] \in S
             /\ \A i \in DOMAIN page : Rank[page[i]] <= Rank[page[m]]
             /\ \A p \in S : Rank[p] <= Rank[page[m]] => In(p, page)
  <2>1. m \in 1..m /\ page[m] \in S
    BY <1>2, <1>5, <1>6, <1>7, <1>9
  <2>2. ASSUME NEW i \in 1..m PROVE Rank[page[i]] <= Rank[page[m]]
    <3>1. i = m \/ i < m
      BY <1>5
    <3>2. i < m => Rank[page[i]] < Rank[page[m]]
      BY <2>1, <1>7, <1>8 DEF Ascending
    <3>3. Rank[page[i]] \in Nat /\ Rank[page[m]] \in Nat
      BY <1>7, <2>1, RankFacts
    <3> QED
      BY <3>1, <3>2, <3>3
  <2>3. ASSUME NEW p \in S, Rank[p] <= Rank[page[m]] PROVE In(p, page)
    <3>1. PICK i \in 1..n : o[i] = p
      BY <1>1
    <3>2. i <= m
      <4> SUFFICES ASSUME m < i PROVE FALSE
        BY <1>5, <1>1
      <4>1. Rank[o[m]] < Rank[o[i]]
        BY <2>1, <1>1, <1>7 DEF Ascending
      <4>2. Rank[p] \in Nat /\ Rank[page[m]] \in Nat /\ o[m] = page[m]
        BY <1>7, <2>1, RankFacts
      <4> QED
        BY <4>1, <4>2, <3>1, <2>3
    <3>3. i \in DOMAIN page /\ page[i] = p
      BY <3>1, <3>2, <1>7, <1>5
    <3> QED
      BY <3>3 DEF In
  <2> QED
    BY <2>1, <2>2, <2>3, <1>7
<1>10. ASSUME ~(Len(fetched) > PageSize), NEW p \in S PROVE In(p, page)
  <2>1. PICK i \in 1..n : o[i] = p
    BY <1>1
  <2> QED
    BY <2>1, <1>6, <1>7, <1>10 DEF In
<1> QED
  BY <1>4, <1>5, <1>8, <1>9, <1>10 DEF m

(***************************************************************************)
(*                          The inductive invariant                         *)
(***************************************************************************)
\* One walk: its rows, then its page, ascend; a token is as far as they go, and
\* no row up to the token that was there all along is missing from them.
Sound(pc, page, token, more, rows, steady) ==
  /\ pc \in {"idle", "rows", "fill", "end"} /\ token \in Nat
  /\ page \in Seq(Paths) /\ rows \in Seq(Paths) /\ steady \subseteq Paths
  /\ Ascending(rows) /\ Ascending(page) /\ Len(page) <= PageSize
  /\ \A i \in DOMAIN rows, j \in DOMAIN page : Rank[rows[i]] < Rank[page[j]]
  /\ pc # "fill" => page = <<>>
  /\ pc = "idle" => rows = <<>> /\ token = 0
  /\ pc = "rows" \/ (pc = "fill" /\ more) =>
       \A i \in DOMAIN rows : Rank[rows[i]] <= token
  /\ pc = "fill" /\ more => \A i \in DOMAIN page : Rank[page[i]] <= token
  /\ \A p \in steady :
       /\ pc = "rows" /\ Rank[p] <= token => In(p, rows)
       /\ pc = "fill" /\ (more => Rank[p] <= token) => In(p, rows) \/ In(p, page)
       /\ pc = "end" => In(p, rows)

\* What a walk has seen all along is there now.
SteadyIsThere ==
  \A w \in Walks : walk_pc[w] \in {"rows", "fill"} =>
    \A p \in walk_steady[w] : Matches(project, w, p)

WalkTypes ==
  /\ walk_pc = [w \in Walks |-> walk_pc[w]]
  /\ walk_page = [w \in Walks |-> walk_page[w]]
  /\ walk_token = [w \in Walks |-> walk_token[w]]
  /\ walk_more = [w \in Walks |-> walk_more[w]]
  /\ walk_rows = [w \in Walks |-> walk_rows[w]]
  /\ walk_steady = [w \in Walks |-> walk_steady[w]]

IInv ==
  /\ WalkTypes
  /\ \A w \in Walks :
       Sound(walk_pc[w], walk_page[w], walk_token[w], walk_more[w], walk_rows[w], walk_steady[w])
  /\ SteadyIsThere

LEMMA EmptyFacts ==
  /\ <<>> \in Seq(Paths) /\ DOMAIN <<>> = {} /\ Len(<<>>) = 0 /\ Ascending(<<>>)
  /\ \A p : ~In(p, <<>>)
<1>1. <<>> \in Seq(Paths) /\ DOMAIN <<>> = {} /\ Len(<<>>) = 0
  OBVIOUS
<1> QED
  BY <1>1 DEF Ascending, In

LEMMA JoinFacts ==
  ASSUME NEW a \in Seq(Paths), NEW b \in Seq(Paths), Ascending(a), Ascending(b),
         \A i \in DOMAIN a, j \in DOMAIN b : Rank[a[i]] < Rank[b[j]]
  PROVE  /\ a \o b \in Seq(Paths) /\ Ascending(a \o b)
         /\ \A p : In(p, a \o b) <=> In(p, a) \/ In(p, b)
         /\ \A i \in DOMAIN (a \o b) : \/ i \in DOMAIN a /\ (a \o b)[i] = a[i]
                                       \/ \E j \in DOMAIN b : (a \o b)[i] = b[j]
<1> DEFINE c == a \o b
           k == Len(a)
           l == Len(b)
<1>1. /\ c \in Seq(Paths) /\ k \in Nat /\ l \in Nat
      /\ DOMAIN a = 1..k /\ DOMAIN b = 1..l /\ DOMAIN c = 1..(k + l)
      /\ \A i \in 1..k : c[i] = a[i]
      /\ \A i \in 1..l : c[k + i] = b[i]
  OBVIOUS
<1> HIDE DEF c, k, l
<1>2. ASSUME NEW i \in 1..(k + l)
      PROVE  \/ i \in 1..k /\ c[i] = a[i]
             \/ i > k /\ i - k \in 1..l /\ c[i] = b[i - k]
  <2>1. CASE i <= k
    BY <2>1, <1>1
  <2>2. CASE i > k
    <3>1. i - k \in 1..l /\ k + (i - k) = i
      BY <2>2, <1>1
    <3>2. c[k + (i - k)] = b[i - k]
      BY <3>1, <1>1
    <3> QED
      BY <2>2, <3>1, <3>2
  <2> QED
    BY <2>1, <2>2, <1>1
<1>3. Ascending(c)
  <2> SUFFICES ASSUME NEW i \in 1..(k + l), NEW j \in 1..(k + l), i < j
               PROVE  Rank[c[i]] < Rank[c[j]]
    BY <1>1 DEF Ascending
  <2>1. CASE j <= k
    <3>1. i \in 1..k /\ j \in 1..k
      BY <2>1, <1>1
    <3> QED
      BY <3>1, <1>1 DEF Ascending
  <2>2. CASE i <= k /\ j > k
    <3>1. i \in DOMAIN a /\ c[i] = a[i] /\ j - k \in DOMAIN b /\ c[j] = b[j - k]
      BY <2>2, <1>1, <1>2
    <3> QED
      BY <3>1
  <2>3. CASE i > k
    <3>1. /\ i - k \in 1..l /\ c[i] = b[i - k] /\ j - k \in 1..l /\ c[j] = b[j - k]
          /\ i - k < j - k
      BY <2>3, <1>1, <1>2
    <3>2. \A x, y \in 1..l : x < y => Rank[b[x]] < Rank[b[y]]
      BY <1>1 DEF Ascending
    <3>3. Rank[b[i - k]] < Rank[b[j - k]]
      BY <3>1, <3>2
    <3> QED
      BY <3>1, <3>3
  <2> QED
    BY <2>1, <2>2, <2>3, <1>1
<1>4. ASSUME NEW p PROVE In(p, c) <=> In(p, a) \/ In(p, b)
  <2>1. ASSUME In(p, c) PROVE In(p, a) \/ In(p, b)
    BY <2>1, <1>1, <1>2 DEF In
  <2>2. ASSUME In(p, a) PROVE In(p, c)
    <3>1. PICK i \in 1..k : a[i] = p
      BY <2>2, <1>1 DEF In
    <3>2. i \in 1..(k + l) /\ c[i] = p
      BY <3>1, <1>1
    <3> QED
      BY <3>2, <1>1 DEF In
  <2>3. ASSUME In(p, b) PROVE In(p, c)
    <3>1. PICK i \in 1..l : b[i] = p
      BY <2>3, <1>1 DEF In
    <3>2. k + i \in 1..(k + l) /\ c[k + i] = p
      BY <3>1, <1>1
    <3> QED
      BY <3>2, <1>1 DEF In
  <2> QED
    BY <2>1, <2>2, <2>3
<1>5. \A i \in DOMAIN c : \/ i \in DOMAIN a /\ c[i] = a[i]
                          \/ \E j \in DOMAIN b : c[i] = b[j]
  BY <1>1, <1>2
<1> QED
  BY <1>1, <1>3, <1>4, <1>5 DEF c

(***************************************************************************)
(*                     What a step does to one walk                         *)
(***************************************************************************)
LEMMA SoundAtStart ==
  ASSUME NEW steady \in SUBSET Paths, NEW more, NEW pc \in {"idle", "rows"}
  PROVE  Sound(pc, <<>>, 0, more, <<>>, steady)
<1>1. \A p \in steady : ~(Rank[p] <= 0)
  BY RankFacts
<1>2. PageSize \in Nat
  BY ReadAssumption
<1> DEFINE none == <<>>
<1>3. none \in Seq(Paths) /\ DOMAIN none = {} /\ Len(none) = 0 /\ Ascending(none)
  BY EmptyFacts
<1> HIDE DEF none
<1>4. Len(none) <= PageSize
  BY <1>2, <1>3
<1>5. /\ \A i \in DOMAIN none, j \in DOMAIN none : Rank[none[i]] < Rank[none[j]]
      /\ \A i \in DOMAIN none : Rank[none[i]] <= 0
  BY <1>3
<1>6. pc \in {"idle", "rows", "fill", "end"} /\ 0 \in Nat /\ pc # "fill" /\ pc # "end" /\ steady \subseteq Paths
  OBVIOUS
<1>7. none = <<>>
  BY DEF none
<1>8. Sound(pc, none, 0, more, none, steady)
  BY <1>1, <1>3, <1>4, <1>5, <1>6, <1>7 DEF Sound
<1> QED
  BY <1>8 DEF none

\* What was there from the page's token on is past it, or on the page.
LEMMA SoundWithAPage ==
  ASSUME NEW token, NEW more, NEW rows, NEW steady, NEW S \in SUBSET Paths,
         Sound("rows", <<>>, token, more, rows, steady),
         S \subseteq {p \in Paths : Rank[p] > token},
         \A p \in steady : Rank[p] > token => p \in S,
         NEW fetched, NEW page,
         fetched = Limited(Ordered(S), PageSize + 1), page = Limited(fetched, PageSize)
  PROVE  Sound("fill", page, IF Len(fetched) > PageSize THEN Rank[page[Len(page)]] ELSE 0,
               Len(fetched) > PageSize, rows, steady)
<1> DEFINE full == Len(fetched) > PageSize
           last == page[Len(page)]
           next == IF full THEN Rank[last] ELSE 0
<1>1. /\ token \in Nat /\ rows \in Seq(Paths) /\ steady \subseteq Paths /\ Ascending(rows)
      /\ \A i \in DOMAIN rows : Rank[rows[i]] <= token
      /\ \A p \in steady : Rank[p] <= token => In(p, rows)
  BY DEF Sound
<1>2. /\ page \in Seq(S) /\ Len(page) <= PageSize /\ Ascending(page)
      /\ full => /\ last \in S
                 /\ \A i \in DOMAIN page : Rank[page[i]] <= Rank[last]
                 /\ \A p \in S : Rank[p] <= Rank[last] => In(p, page)
      /\ ~full => \A p \in S : In(p, page)
  BY PageFacts
<1> HIDE DEF full, last
<1>3. page \in Seq(Paths) /\ \A j \in DOMAIN page : page[j] \in S
  BY <1>2
<1>4. \A i \in DOMAIN rows : rows[i] \in Paths
  BY <1>1
<1>5. \A p \in Paths : Rank[p] \in Nat
  BY RankFacts
<1>6. \A i \in DOMAIN rows, j \in DOMAIN page : Rank[rows[i]] < Rank[page[j]]
  BY <1>1, <1>3, <1>4, <1>5
<1>7. next \in Nat /\ (full => next = Rank[last] /\ token < next)
  BY <1>1, <1>2, <1>5
<1> HIDE DEF next
<1>8. full => /\ \A i \in DOMAIN rows : Rank[rows[i]] <= next
              /\ \A i \in DOMAIN page : Rank[page[i]] <= next
  BY <1>1, <1>2, <1>4, <1>5, <1>7
<1>9. ASSUME NEW p \in steady, full => Rank[p] <= next
      PROVE  In(p, rows) \/ In(p, page)
  <2>1. CASE Rank[p] <= token
    BY <2>1, <1>1
  <2>2. CASE Rank[p] > token
    BY <2>2, <1>2, <1>7, <1>9
  <2> QED
    BY <2>1, <2>2, <1>1, <1>5
<1>10. Sound("fill", page, next, full, rows, steady)
  BY <1>1, <1>2, <1>3, <1>6, <1>7, <1>8, <1>9 DEF Sound
<1> QED
  BY <1>10 DEF next, full, last

LEMMA SoundWhenTold ==
  ASSUME NEW page, NEW token, NEW more, NEW rows, NEW steady,
         Sound("fill", page, token, more, rows, steady)
  PROVE  Sound(IF more THEN "rows" ELSE "end", <<>>, token, FALSE, rows \o page, steady)
<1> DEFINE told == rows \o page
<1>1. /\ token \in Nat /\ page \in Seq(Paths) /\ rows \in Seq(Paths) /\ steady \subseteq Paths
      /\ Ascending(rows) /\ Ascending(page)
      /\ \A i \in DOMAIN rows, j \in DOMAIN page : Rank[rows[i]] < Rank[page[j]]
      /\ more => /\ \A i \in DOMAIN rows : Rank[rows[i]] <= token
                 /\ \A i \in DOMAIN page : Rank[page[i]] <= token
      /\ \A p \in steady : (more => Rank[p] <= token) => In(p, rows) \/ In(p, page)
  BY DEF Sound
<1>2. /\ told \in Seq(Paths) /\ Ascending(told)
      /\ \A p : In(p, told) <=> In(p, rows) \/ In(p, page)
      /\ \A i \in DOMAIN told : \/ i \in DOMAIN rows /\ told[i] = rows[i]
                                \/ \E j \in DOMAIN page : told[i] = page[j]
  BY <1>1, JoinFacts
<1> HIDE DEF told
<1>3. more => \A i \in DOMAIN told : Rank[told[i]] <= token
  BY <1>1, <1>2
<1>4. \A p \in steady : (more => Rank[p] <= token) => In(p, told)
  BY <1>1, <1>2
<1>5. PageSize \in Nat
  BY ReadAssumption
<1>6. CASE more
  <2>1. Sound("rows", <<>>, token, FALSE, told, steady)
    BY <1>1, <1>2, <1>3, <1>4, <1>5, <1>6, EmptyFacts DEF Sound
  <2> QED
    BY <1>6, <2>1 DEF told
<1>7. CASE ~more
  <2>1. Sound("end", <<>>, token, FALSE, told, steady)
    BY <1>1, <1>2, <1>4, <1>5, <1>7, EmptyFacts DEF Sound
  <2> QED
    BY <1>7, <2>1 DEF told
<1> QED
  BY <1>6, <1>7

LEMMA SoundWithLess ==
  ASSUME NEW pc, NEW page, NEW token, NEW more, NEW rows, NEW steady,
         Sound(pc, page, token, more, rows, steady), NEW fewer \in SUBSET steady
  PROVE  Sound(pc, page, token, more, rows, fewer)
BY DEF Sound

(***************************************************************************)
(*                                 The steps                                *)
(***************************************************************************)
SoundWalk(w) ==
  Sound(walk_pc[w], walk_page[w], walk_token[w], walk_more[w], walk_rows[w], walk_steady[w])

SteadyAt(w) ==
  walk_pc[w] \in {"rows", "fill"} => \A p \in walk_steady[w] : Matches(project, w, p)

LEMMA InitHolds == ReadInit => IInv
<1> SUFFICES ASSUME ReadInit PROVE IInv
  OBVIOUS
<1>1. WalkTypes
  BY DEF ReadInit, WalkTypes
<1>2. ASSUME NEW w \in Walks PROVE SoundWalk(w) /\ walk_pc[w] = "idle"
  <2>1. /\ walk_pc[w] = "idle" /\ walk_page[w] = <<>> /\ walk_token[w] = 0
        /\ walk_more[w] = FALSE /\ walk_rows[w] = <<>> /\ walk_steady[w] = {}
    BY DEF ReadInit
  <2>2. Sound("idle", <<>>, 0, FALSE, <<>>, {})
    BY SoundAtStart
  <2> QED
    BY <2>1, <2>2 DEF SoundWalk
<1> QED
  BY <1>1, <1>2 DEF IInv, SteadyIsThere, SoundWalk

\* A read of one walk leaves the others, and the tables, alone.
LEMMA OtherWalksStand ==
  ASSUME NEW w \in Walks, NEW v \in Walks, v # w, WalkTypes,
         BeginWalk(w) \/ SelectPage(w) \/ FillPage(w)
  PROVE  /\ walk_pc'[v] = walk_pc[v] /\ walk_page'[v] = walk_page[v]
         /\ walk_token'[v] = walk_token[v] /\ walk_more'[v] = walk_more[v]
         /\ walk_rows'[v] = walk_rows[v] /\ walk_steady'[v] = walk_steady[v]
<1> USE DEF WalkTypes
<1>1. CASE BeginWalk(w)
  BY <1>1 DEF BeginWalk
<1>2. CASE SelectPage(w)
  BY <1>2 DEF SelectPage
<1>3. CASE FillPage(w)
  BY <1>3 DEF FillPage
<1> QED
  BY <1>1, <1>2, <1>3

LEMMA ReadsKeepTypes ==
  ASSUME NEW w \in Walks, WalkTypes, BeginWalk(w) \/ SelectPage(w) \/ FillPage(w)
  PROVE  /\ WalkTypes'
         /\ UNCHANGED <<project, walk_status, walk_under>>
<1> USE DEF WalkTypes, walk_filter, vars
<1>1. CASE BeginWalk(w)
  BY <1>1 DEF BeginWalk
<1>2. CASE SelectPage(w)
  BY <1>2 DEF SelectPage
<1>3. CASE FillPage(w)
  BY <1>3 DEF FillPage
<1> QED
  BY <1>1, <1>2, <1>3

LEMMA BeginIsSound ==
  ASSUME NEW w \in Walks, IInv, BeginWalk(w)
  PROVE  SoundWalk(w)' /\ SteadyAt(w)'
<1>1. UNCHANGED <<project, walk_status, walk_under>>
  BY ReadsKeepTypes DEF IInv
<1>2. /\ walk_pc[w] = "idle" /\ walk_pc'[w] = "rows"
      /\ walk_steady'[w] = {p \in Paths : Matches(project, w, p)}
      /\ walk_page'[w] = walk_page[w] /\ walk_token'[w] = walk_token[w]
      /\ walk_more'[w] = walk_more[w] /\ walk_rows'[w] = walk_rows[w]
  BY DEF IInv, WalkTypes, BeginWalk
<1>3. walk_page[w] = <<>> /\ walk_rows[w] = <<>> /\ walk_token[w] = 0
  <2>1. Sound(walk_pc[w], walk_page[w], walk_token[w], walk_more[w], walk_rows[w], walk_steady[w])
    BY DEF IInv
  <2> QED
    BY <2>1, <1>2 DEF Sound
<1>4. Sound("rows", <<>>, 0, walk_more[w], <<>>, {p \in Paths : Matches(project, w, p)})
  BY SoundAtStart
<1>5. SoundWalk(w)'
  BY <1>2, <1>3, <1>4 DEF SoundWalk
<1>6. SteadyAt(w)'
  BY <1>1, <1>2 DEF SteadyAt, Matches
<1> QED
  BY <1>5, <1>6

LEMMA SelectIsSound ==
  ASSUME NEW w \in Walks, IInv, SelectPage(w)
  PROVE  SoundWalk(w)' /\ SteadyAt(w)'
<1> DEFINE S == Past(project, w)
           fetched == Limited(Ordered(S), PageSize + 1)
           page == Limited(fetched, PageSize)
           next == IF Len(fetched) > PageSize THEN Rank[page[Len(page)]] ELSE 0
<1>1. UNCHANGED <<project, walk_status, walk_under>>
  BY ReadsKeepTypes DEF IInv
<1>2. /\ walk_pc[w] = "rows" /\ walk_pc'[w] = "fill" /\ walk_steady'[w] = walk_steady[w]
      /\ walk_page'[w] = page /\ walk_token'[w] = next /\ walk_rows'[w] = walk_rows[w]
  <2> HIDE DEF S, fetched, page, next
  <2>1. /\ walk_pc[w] = "rows"
        /\ walk_page' = [walk_page EXCEPT ![w] = page]
        /\ walk_token' = [walk_token EXCEPT ![w] = next]
        /\ walk_pc' = [walk_pc EXCEPT ![w] = "fill"]
        /\ walk_rows' = walk_rows /\ walk_steady' = walk_steady
    BY Zenon DEF SelectPage, S, fetched, page, next
  <2> QED
    BY <2>1 DEF IInv, WalkTypes
<1>3. walk_more'[w] = (Len(fetched) > PageSize)
  <2> DEFINE full == Len(fetched) > PageSize
  <2>1. walk_more' = [walk_more EXCEPT ![w] = full]
    BY Zenon DEF SelectPage
  <2>2. w \in DOMAIN walk_more
    BY DEF IInv, WalkTypes
  <2> HIDE DEF full
  <2> QED
    BY <2>1, <2>2, Zenon DEF full
<1>4. /\ Sound("rows", <<>>, walk_token[w], walk_more[w], walk_rows[w], walk_steady[w])
      /\ walk_steady[w] \subseteq Paths
  <2>1. Sound(walk_pc[w], walk_page[w], walk_token[w], walk_more[w], walk_rows[w], walk_steady[w])
    BY DEF IInv
  <2> QED
    BY <2>1, <1>2 DEF Sound
<1>5. \A p \in walk_steady[w] : Matches(project, w, p)
  BY <1>2 DEF IInv, SteadyIsThere
<1>6. /\ S \in SUBSET Paths /\ S \subseteq {p \in Paths : Rank[p] > walk_token[w]}
      /\ \A p \in walk_steady[w] : Rank[p] > walk_token[w] => p \in S
  BY <1>4, <1>5 DEF Past
<1>7. Sound("fill", page, next, Len(fetched) > PageSize, walk_rows[w], walk_steady[w])
  <2> HIDE DEF S
  <2> QED
    BY <1>4, <1>6, SoundWithAPage
<1> HIDE DEF S, fetched, page, next
<1>8. SoundWalk(w)'
  BY <1>2, <1>3, <1>7, Zenon DEF SoundWalk
<1>9. SteadyAt(w)'
  BY <1>1, <1>2, <1>5 DEF SteadyAt, Matches
<1> QED
  BY <1>8, <1>9

LEMMA FillIsSound ==
  ASSUME NEW w \in Walks, IInv, FillPage(w)
  PROVE  SoundWalk(w)' /\ SteadyAt(w)'
<1> DEFINE told == walk_rows[w] \o walk_page[w]
           next == IF walk_more[w] THEN "rows" ELSE "end"
<1>1. UNCHANGED <<project, walk_status, walk_under>>
  BY ReadsKeepTypes DEF IInv
<1>2. /\ walk_pc[w] = "fill" /\ walk_pc'[w] = next /\ walk_steady'[w] = walk_steady[w]
      /\ walk_page'[w] = <<>> /\ walk_token'[w] = walk_token[w] /\ walk_rows'[w] = told
  <2> HIDE DEF told, next
  <2>1. /\ walk_pc[w] = "fill"
        /\ walk_page' = [walk_page EXCEPT ![w] = <<>>]
        /\ walk_rows' = [walk_rows EXCEPT ![w] = told]
        /\ walk_pc' = [walk_pc EXCEPT ![w] = next]
        /\ walk_token' = walk_token /\ walk_steady' = walk_steady
    BY DEF FillPage, told, next
  <2> QED
    BY <2>1 DEF IInv, WalkTypes
<1>3. walk_more'[w] = FALSE
  BY Zenon DEF IInv, WalkTypes, FillPage
<1>4. Sound("fill", walk_page[w], walk_token[w], walk_more[w], walk_rows[w], walk_steady[w])
  <2>1. Sound(walk_pc[w], walk_page[w], walk_token[w], walk_more[w], walk_rows[w], walk_steady[w])
    BY DEF IInv
  <2> QED
    BY <2>1, <1>2
<1>5. Sound(next, <<>>, walk_token[w], FALSE, told, walk_steady[w])
  BY <1>4, SoundWhenTold
<1> HIDE DEF told, next
<1>6. SoundWalk(w)'
  BY <1>2, <1>3, <1>5, Zenon DEF SoundWalk
<1>7. SteadyAt(w)'
  BY <1>1, <1>2 DEF IInv, SteadyIsThere, SteadyAt, Matches
<1> QED
  BY <1>6, <1>7

\* A writer takes from a walk's history what no longer matches.
LEMMA WritesAreSound ==
  ASSUME NEW w \in Walks, IInv, Written
  PROVE  SoundWalk(w)' /\ SteadyAt(w)'
<1>1. /\ walk_pc' = walk_pc /\ walk_page' = walk_page /\ walk_token' = walk_token
      /\ walk_more' = walk_more /\ walk_rows' = walk_rows
      /\ walk_status' = walk_status /\ walk_under' = walk_under
      /\ walk_steady'[w] = IF walk_pc[w] \in {"rows", "fill"}
                             THEN {p \in walk_steady[w] : Matches(project', w, p)}
                             ELSE walk_steady[w]
  BY DEF Written, walk_filter
<1>2. walk_steady'[w] \in SUBSET walk_steady[w]
  BY <1>1
<1>3. Sound(walk_pc[w], walk_page[w], walk_token[w], walk_more[w], walk_rows[w], walk_steady[w])
  BY DEF IInv
<1>4. Sound(walk_pc[w], walk_page[w], walk_token[w], walk_more[w], walk_rows[w], walk_steady'[w])
  BY <1>2, <1>3, SoundWithLess
<1>5. SoundWalk(w)'
  BY <1>1, <1>4, Zenon DEF SoundWalk
<1>6. SteadyAt(w)'
  BY <1>1 DEF SteadyAt, Matches
<1> QED
  BY <1>5, <1>6

LEMMA StepKeepsIInv == IInv /\ [ReadNext]_read_vars => IInv'
<1> SUFFICES ASSUME IInv, [ReadNext]_read_vars PROVE IInv'
  OBVIOUS
<1> SUFFICES WalkTypes' /\ \A v \in Walks : SoundWalk(v)' /\ SteadyAt(v)'
  BY DEF IInv, SteadyIsThere, SoundWalk, SteadyAt
<1>1. CASE UNCHANGED <<walk_vars, project>>
  BY <1>1 DEF IInv, WalkTypes, SteadyIsThere, SoundWalk, SteadyAt, Matches, walk_vars, walk_filter
<1>2. CASE Written
  <2>1. WalkTypes'
    BY <1>2 DEF IInv, WalkTypes, Written
  <2> QED
    BY <1>2, <2>1, WritesAreSound
<1>3. ASSUME NEW w \in Walks, BeginWalk(w) \/ SelectPage(w) \/ FillPage(w)
      PROVE  WalkTypes' /\ \A v \in Walks : SoundWalk(v)' /\ SteadyAt(v)'
  <2>1. WalkTypes' /\ UNCHANGED <<project, walk_status, walk_under>>
    BY <1>3, ReadsKeepTypes DEF IInv
  <2>2. ASSUME NEW v \in Walks, v # w PROVE SoundWalk(v)' /\ SteadyAt(v)'
    <3>1. /\ walk_pc'[v] = walk_pc[v] /\ walk_page'[v] = walk_page[v]
          /\ walk_token'[v] = walk_token[v] /\ walk_more'[v] = walk_more[v]
          /\ walk_rows'[v] = walk_rows[v] /\ walk_steady'[v] = walk_steady[v]
      BY <1>3, <2>2, OtherWalksStand DEF IInv
    <3>2. SoundWalk(v) /\ SteadyAt(v)
      BY DEF IInv, SoundWalk, SteadyAt, SteadyIsThere
    <3>3. SoundWalk(v)'
      BY <3>1, <3>2, Zenon DEF SoundWalk
    <3>4. SteadyAt(v)'
      BY <2>1, <3>1, <3>2 DEF SteadyAt, Matches
    <3> QED
      BY <3>3, <3>4
  <2>3. SoundWalk(w)' /\ SteadyAt(w)'
    BY <1>3, BeginIsSound, SelectIsSound, FillIsSound
  <2> QED
    BY <2>1, <2>2, <2>3
<1>4. ASSUME NEW g \in Gets, SelectProject(g) \/ SelectAliases(g) \/ SelectGrants(g)
      PROVE  UNCHANGED <<walk_vars, project>>
  BY <1>4 DEF SelectProject, SelectAliases, SelectGrants, vars
<1>5. CASE UNCHANGED read_vars
  <2>1. UNCHANGED <<walk_vars, project>>
    BY <1>5 DEF read_vars, vars
  <2> QED
    BY <2>1, <1>1
<1> QED
  BY <1>1, <1>2, <1>3, <1>4, <1>5 DEF ReadNext

\* The inductive invariant of the walks.
THEOREM Invariance == ReadSpec => []IInv
<1> QED
  BY InitHolds, StepKeepsIInv, PTL DEF ReadSpec

\* WalksTellEachRowOnce, for every set of paths, order, page size, filter and mix of
\* writers: no page boundary repeats a row or loses one that matched all along
\* (read.rs, list).
THEOREM WalksAreComplete == ReadSpec => []WalksTellEachRowOnce
<1>1. IInv => WalksTellEachRowOnce
  <2> SUFFICES ASSUME IInv, NEW w \in Walks
               PROVE  /\ Len(walk_page[w]) <= PageSize
                      /\ Ascending(walk_rows[w])
                      /\ walk_pc[w] = "end" => \A p \in walk_steady[w] : In(p, walk_rows[w])
    BY DEF WalksTellEachRowOnce, Ascending, In
  <2>1. Sound(walk_pc[w], walk_page[w], walk_token[w], walk_more[w], walk_rows[w], walk_steady[w])
    BY DEF IInv
  <2> QED
    BY <2>1 DEF Sound
<1> QED
  BY <1>1, Invariance, PTL

=============================================================================
