------------------------------- MODULE PathProofs -------------------------------
(***************************************************************************)
(* Theorems about Paths, for every string over Chars, and about Resolve, for *)
(* every store, with the inductions over strings they need.                 *)
(***************************************************************************)
EXTENDS PathLaws, Resolve, Requests, WellFoundedInduction, FiniteSetTheorems, TLAPS

Strings == Seq(Chars)

(***************************************************************************)
(*                                Induction                                 *)
(***************************************************************************)
\* Every set of naturals has a least element.
LEMMA LeastNumber ==
  ASSUME NEW S \in SUBSET Nat, S # {}
  PROVE  \E n \in S : \A m \in S : n <= m
<1> DEFINE R == {ss \in Nat \X Nat : ss[1] < ss[2]}
<1>1. IsWellFoundedOn(R, Nat)
  <2>1. OpToRel(<, Nat) = R
    BY Zenon DEF OpToRel
  <2> QED
    BY <2>1, NatLessThanWellFounded, Zenon
<1>2. \A x, y \in Nat : <<y, x>> \in R <=> y < x
  OBVIOUS
<1> HIDE DEF R
<1>3. PICK x \in S : \A y \in S : ~(<<y, x>> \in R)
  BY <1>1, WFMin
<1>4. x \in Nat /\ \A y \in S : y \in Nat /\ ~(y < x)
  BY <1>2, <1>3
<1> QED
  BY <1>4

\* A bounded one has a greatest.
LEMMA GreatestNumber ==
  ASSUME NEW S \in SUBSET Nat, S # {}, NEW k \in Nat, \A n \in S : n <= k
  PROVE  \E n \in S : \A m \in S : m <= n
<1> DEFINE T == {n \in Nat : \A m \in S : m <= n}
<1>1. k \in T
  OBVIOUS
<1>2. PICK n \in T : \A m \in T : n <= m
  BY <1>1, LeastNumber
<1>3. n \in S
  <2> SUFFICES ASSUME n \notin S PROVE FALSE
    OBVIOUS
  <2>1. PICK a \in S : TRUE
    OBVIOUS
  <2>2. n > 0 /\ n - 1 \in Nat
    BY <2>1, <1>2
  <2>3. \A m \in S : m <= n - 1
    BY <1>2
  <2>4. n - 1 \in T
    BY <2>2, <2>3
  <2> QED
    BY <1>2, <2>4
<1> QED
  BY <1>2, <1>3

\* Strong induction, over a set.
LEMMA Induction ==
  ASSUME NEW S \in SUBSET Nat,
         \A n \in Nat : (\A m \in Nat : m < n => m \in S) => n \in S
  PROVE  S = Nat
<1> SUFFICES ASSUME Nat \ S # {} PROVE FALSE
  OBVIOUS
<1>1. PICK n \in Nat \ S : \A m \in Nat \ S : n <= m
  BY LeastNumber
<1>2. \A m \in Nat : m < n => m \in S
  BY <1>1
<1> QED
  BY <1>1, <1>2

(***************************************************************************)
(*                                Strings                                   *)
(***************************************************************************)
LEMMA StringFacts ==
  ASSUME NEW s \in Strings
  PROVE  /\ Len(s) \in Nat /\ DOMAIN s = 1..Len(s)
         /\ \A i \in 1..Len(s) : s[i] \in Chars
         /\ Slashes(s) = {i \in 1..Len(s) : s[i] = "/"}
         /\ Slashes(s) \subseteq Nat
BY DEF Strings, Slashes

LEMMA WiderSeq ==
  ASSUME NEW S, NEW T, S \subseteq T, NEW s \in Seq(S)
  PROVE  s \in Seq(T) /\ DOMAIN s = 1..Len(s) /\ \A i \in 1..Len(s) : s[i] \in S
OBVIOUS

LEMMA SlashIsAString == "/" \in Chars /\ <<"/">> \in Seq(Chars)
<1>1. "/" \in Chars
  BY PathAssumption
<1> QED
  BY <1>1

LEMMA ConcatFacts ==
  ASSUME NEW s \in Strings, NEW t \in Strings
  PROVE  /\ s \o t \in Strings /\ Len(s \o t) = Len(s) + Len(t)
         /\ \A i \in 1..Len(s) : (s \o t)[i] = s[i]
         /\ \A i \in 1..Len(t) : (s \o t)[Len(s) + i] = t[i]
BY DEF Strings

LEMMA StringsAreEqual ==
  ASSUME NEW s \in Strings, NEW t \in Strings,
         Len(s) = Len(t), \A i \in 1..Len(s) : s[i] = t[i]
  PROVE  s = t
BY DEF Strings

\* The first n characters.
LEMMA PrefixFacts ==
  ASSUME NEW s \in Strings, NEW n \in 0..Len(s)
  PROVE  /\ SubSeq(s, 1, n) \in Strings
         /\ Len(SubSeq(s, 1, n)) = n
         /\ \A i \in 1..n : SubSeq(s, 1, n)[i] = s[i]
         /\ Slashes(SubSeq(s, 1, n)) = {i \in Slashes(s) : i <= n}
<1> DEFINE t == SubSeq(s, 1, n)
<1>1. t \in Strings /\ Len(t) = n /\ \A i \in 1..n : t[i] = s[i]
  BY DEF Strings
<1> HIDE DEF t
<1>2. Slashes(t) = {i \in Slashes(s) : i <= n}
  BY <1>1, StringFacts
<1> QED
  BY <1>1, <1>2 DEF t

LEMMA FirstSlashFacts ==
  ASSUME NEW s \in Strings, Slashes(s) # {}
  PROVE  /\ FirstSlash(s) \in Slashes(s)
         /\ \A j \in Slashes(s) : FirstSlash(s) <= j
<1>1. \E i \in Slashes(s) : \A j \in Slashes(s) : i <= j
  BY StringFacts, LeastNumber
<1> QED
  BY <1>1 DEF FirstSlash

LEMMA LastSlashFacts ==
  ASSUME NEW s \in Strings, Slashes(s) # {}
  PROVE  /\ LastSlash(s) \in Slashes(s)
         /\ \A j \in Slashes(s) : j <= LastSlash(s)
<1>1. Slashes(s) \subseteq Nat /\ \A i \in Slashes(s) : i <= Len(s)
  BY StringFacts
<1>2. \E i \in Slashes(s) : \A j \in Slashes(s) : j <= i
  BY <1>1, StringFacts, GreatestNumber
<1> QED
  BY <1>2 DEF LastSlash

(***************************************************************************)
(*                               Spellings                                  *)
(***************************************************************************)
LEMMA LowerFacts ==
  ASSUME NEW c \in Chars
  PROVE  /\ Lower[c] \in Chars
         /\ Lower[Lower[c]] = Lower[c]
         /\ Lower[c] = "/" <=> c = "/"
BY PathAssumption

LEMMA FoldFacts ==
  ASSUME NEW s \in Strings
  PROVE  /\ Fold(s) \in Strings
         /\ Len(Fold(s)) = Len(s)
         /\ \A i \in 1..Len(s) : Fold(s)[i] = Lower[s[i]]
BY StringFacts, LowerFacts DEF Fold, Strings

\* Two strings have one key if they agree, case aside, character by character.
LEMMA KeyFacts ==
  ASSUME NEW s \in Strings, NEW t \in Strings
  PROVE  SameKey(s, t) <=>
           Len(s) = Len(t) /\ \A i \in 1..Len(s) : Lower[s[i]] = Lower[t[i]]
<1>1. ASSUME SameKey(s, t)
      PROVE  Len(s) = Len(t) /\ \A i \in 1..Len(s) : Lower[s[i]] = Lower[t[i]]
  BY <1>1, FoldFacts DEF SameKey
<1>2. ASSUME Len(s) = Len(t), \A i \in 1..Len(s) : Lower[s[i]] = Lower[t[i]]
      PROVE  SameKey(s, t)
  <2>1. Fold(s) \in Strings /\ Fold(t) \in Strings /\ Len(Fold(s)) = Len(Fold(t))
    BY <1>2, FoldFacts
  <2>2. \A i \in 1..Len(Fold(s)) : Fold(s)[i] = Fold(t)[i]
    BY <1>2, FoldFacts
  <2> QED
    BY <2>1, <2>2, StringsAreEqual DEF SameKey
<1> QED
  BY <1>1, <1>2

LEMMA SameKeyIsAnEquivalence ==
  /\ \A s : SameKey(s, s)
  /\ \A s, t : SameKey(s, t) => SameKey(t, s)
  /\ \A s, t, u : SameKey(s, t) /\ SameKey(t, u) => SameKey(s, u)
BY DEF SameKey

LEMMA KeysHaveTheSameSlashes ==
  ASSUME NEW s \in Strings, NEW t \in Strings, SameKey(s, t)
  PROVE  /\ Slashes(s) = Slashes(t)
         /\ Slashes(s) # {} => FirstSlash(s) = FirstSlash(t)
<1>1. Len(s) = Len(t) /\ \A i \in 1..Len(s) : Lower[s[i]] = Lower[t[i]]
  BY KeyFacts
<1>2. \A i \in 1..Len(s) : s[i] = "/" <=> t[i] = "/"
  BY <1>1, StringFacts, LowerFacts
<1>3. Slashes(s) = Slashes(t)
  BY <1>1, <1>2, StringFacts
<1>4. ASSUME Slashes(s) # {} PROVE FirstSlash(s) = FirstSlash(t)
  BY <1>3, <1>4, FirstSlashFacts, StringFacts
<1> QED
  BY <1>3, <1>4

\* The first n characters of two spellings are two spellings.
LEMMA KeysHaveTheSamePrefixes ==
  ASSUME NEW s \in Strings, NEW t \in Strings, SameKey(s, t), NEW n \in 0..Len(s)
  PROVE  n \in 0..Len(t) /\ SameKey(SubSeq(s, 1, n), SubSeq(t, 1, n))
<1>1. Len(s) = Len(t) /\ \A i \in 1..Len(s) : Lower[s[i]] = Lower[t[i]]
  BY KeyFacts
<1> DEFINE a == SubSeq(s, 1, n)
           b == SubSeq(t, 1, n)
<1>2. /\ a \in Strings /\ Len(a) = n /\ \A i \in 1..n : a[i] = s[i]
      /\ b \in Strings /\ Len(b) = n /\ \A i \in 1..n : b[i] = t[i]
  BY <1>1, PrefixFacts
<1> HIDE DEF a, b
<1>3. \A i \in 1..n : Lower[a[i]] = Lower[b[i]]
  BY <1>1, <1>2, StringFacts
<1>4. SameKey(a, b)
  BY <1>2, <1>3, KeyFacts
<1> QED
  BY <1>1, <1>4 DEF a, b

LEMMA UpperFacts ==
  ASSUME NEW c \in Chars, Lower[c] = c
  PROVE  Upper(c) \in Chars /\ Lower[Upper(c)] = c
<1>1. CASE \E d \in Chars \ {c} : Lower[d] = c
  <2>1. Upper(c) = CHOOSE d \in Chars \ {c} : Lower[d] = c
    BY <1>1 DEF Upper
  <2> QED
    BY <1>1, <2>1
<1>2. CASE ~\E d \in Chars \ {c} : Lower[d] = c
  BY <1>2 DEF Upper
<1> QED
  BY <1>1, <1>2

LEMMA SpellingFacts ==
  ASSUME NEW s \in Strings, NEW t \in Spellings(s)
  PROVE  t \in Strings /\ SameKey(t, s)
<1>1. PICK up \in SUBSET DOMAIN s :
        t = [i \in DOMAIN s |-> IF i \in up THEN Upper(Lower[s[i]]) ELSE Lower[s[i]]]
  BY DEF Spellings
<1>2. \A i \in 1..Len(s) :
        /\ Lower[s[i]] \in Chars /\ Lower[Lower[s[i]]] = Lower[s[i]]
        /\ Upper(Lower[s[i]]) \in Chars /\ Lower[Upper(Lower[s[i]])] = Lower[s[i]]
  BY StringFacts, LowerFacts, UpperFacts
<1>3. /\ DOMAIN s = 1..Len(s) /\ Len(s) \in Nat
      /\ \A i \in 1..Len(s) : t[i] \in Chars /\ Lower[t[i]] = Lower[s[i]]
  BY <1>1, <1>2, StringFacts
<1>4. t \in [1..Len(s) -> Chars]
  BY <1>1, <1>3
<1>5. t \in Strings /\ Len(t) = Len(s)
  BY <1>3, <1>4 DEF Strings
<1> QED
  BY <1>3, <1>5, KeyFacts

(***************************************************************************)
(*                          Classes and ownership                           *)
(***************************************************************************)
LEMMA ReservedFacts ==
  /\ ReservedRoot \in Strings
  /\ \A i \in 1..Len(ReservedRoot) :
       ReservedRoot[i] # "/" /\ Lower[ReservedRoot[i]] = ReservedRoot[i]
<1> DEFINE S == SegmentChars \ {"_", "."}
<1>1. /\ ReservedRoot \in Seq(S) /\ S \subseteq Chars
      /\ "/" \notin S
  BY PathAssumption
<1>2. \A i \in DOMAIN ReservedRoot : Lower[ReservedRoot[i]] = ReservedRoot[i]
  BY PathAssumption
<1> HIDE DEF S
<1>3. /\ ReservedRoot \in Strings /\ DOMAIN ReservedRoot = 1..Len(ReservedRoot)
      /\ \A i \in 1..Len(ReservedRoot) : ReservedRoot[i] \in S
  BY <1>1, WiderSeq DEF Strings
<1> QED
  BY <1>1, <1>2, <1>3

\* A path is private if its first slash ends the reserved segment.
LEMMA ClassFacts ==
  ASSUME NEW s \in Strings
  PROVE  IsPrivateClass(s) <=>
           /\ Slashes(s) # {} /\ FirstSlash(s) = Len(ReservedRoot) + 1
           /\ \A i \in 1..Len(ReservedRoot) : Lower[s[i]] = ReservedRoot[i]
<1>1. CASE Slashes(s) = {}
  BY <1>1 DEF IsPrivateClass
<1>2. CASE Slashes(s) # {}
  <2> DEFINE n == FirstSlash(s) - 1
             r == SubSeq(s, 1, n)
  <2>1. n \in 0..Len(s) /\ n + 1 = FirstSlash(s)
    BY <1>2, FirstSlashFacts, StringFacts
  <2>2. r \in Strings /\ Len(r) = n /\ \A i \in 1..n : r[i] = s[i]
    BY <2>1, PrefixFacts
  <2>3. IsPrivateClass(s) <=> SameKey(r, ReservedRoot)
    BY <1>2 DEF IsPrivateClass
  <2>4. SameKey(r, ReservedRoot) <=>
          n = Len(ReservedRoot) /\ \A i \in 1..n : Lower[r[i]] = Lower[ReservedRoot[i]]
    <3> HIDE DEF r, n
    <3> QED
      BY <2>2, ReservedFacts, KeyFacts
  <2>5. n = Len(ReservedRoot) =>
          ((\A i \in 1..n : Lower[r[i]] = Lower[ReservedRoot[i]])
             <=> (\A i \in 1..Len(ReservedRoot) : Lower[s[i]] = ReservedRoot[i]))
    <3> HIDE DEF r, n
    <3> QED
      BY <2>2, ReservedFacts
  <2>6. n = Len(ReservedRoot) <=> FirstSlash(s) = Len(ReservedRoot) + 1
    <3>1. Len(ReservedRoot) \in Nat /\ FirstSlash(s) \in Nat
      BY <1>2, ReservedFacts, StringFacts, FirstSlashFacts
    <3> QED
      BY <3>1
  <2> HIDE DEF r, n
  <2> QED
    BY <1>2, <2>3, <2>4, <2>5, <2>6
<1> QED
  BY <1>1, <1>2

LEMMA KeysHaveOneClass ==
  ASSUME NEW s \in Strings, NEW t \in Strings, SameKey(s, t)
  PROVE  IsPrivateClass(s) <=> IsPrivateClass(t)
<1>1. Slashes(s) = Slashes(t) /\ (Slashes(s) # {} => FirstSlash(s) = FirstSlash(t))
  BY KeysHaveTheSameSlashes
<1>2. Len(s) = Len(t) /\ \A i \in 1..Len(s) : Lower[s[i]] = Lower[t[i]]
  BY KeyFacts
<1>3. Len(s) \in Nat /\ Len(ReservedRoot) \in Nat
  BY StringFacts, ReservedFacts
<1>4. Slashes(s) # {} => FirstSlash(s) \in 1..Len(s)
  BY FirstSlashFacts, StringFacts
<1>5. (Slashes(s) # {} /\ FirstSlash(s) = Len(ReservedRoot) + 1)
        => \A i \in 1..Len(ReservedRoot) : Lower[s[i]] = Lower[t[i]]
  BY <1>2, <1>3, <1>4
<1> QED
  BY <1>1, <1>5, ClassFacts

\* local/<seg>
OwnRoot(seg) == ReservedRoot \o <<"/">> \o seg

LEMMA OwnRootFacts ==
  ASSUME NEW seg \in Strings
  PROVE  /\ OwnRoot(seg) \in Strings
         /\ Len(OwnRoot(seg)) = Len(ReservedRoot) + 1 + Len(seg)
         /\ \A i \in 1..Len(ReservedRoot) : OwnRoot(seg)[i] = ReservedRoot[i]
         /\ OwnRoot(seg)[Len(ReservedRoot) + 1] = "/"
         /\ \A i \in 1..Len(seg) : OwnRoot(seg)[Len(ReservedRoot) + 1 + i] = seg[i]
<1> DEFINE a == ReservedRoot \o <<"/">>
<1>1. ReservedRoot \in Seq(Chars) /\ <<"/">> \in Seq(Chars) /\ seg \in Seq(Chars)
  BY ReservedFacts, SlashIsAString DEF Strings
<1>2. /\ a \in Seq(Chars) /\ Len(a) = Len(ReservedRoot) + 1
      /\ \A i \in 1..Len(ReservedRoot) : a[i] = ReservedRoot[i]
      /\ a[Len(ReservedRoot) + 1] = "/"
  BY <1>1
<1> HIDE DEF a
<1> DEFINE own == a \o seg
<1>3. /\ own \in Strings /\ Len(own) = Len(a) + Len(seg)
      /\ \A i \in 1..Len(a) : own[i] = a[i]
      /\ \A i \in 1..Len(seg) : own[Len(a) + i] = seg[i]
  BY <1>1, <1>2, ConcatFacts DEF Strings
<1>4. OwnRoot(seg) = own
  BY DEF OwnRoot, a
<1> HIDE DEF own
<1>5. Len(ReservedRoot) \in Nat
  BY ReservedFacts, StringFacts
<1> QED
  BY <1>2, <1>3, <1>4, <1>5

\* Under a root: its characters, then a slash or nothing.
LEMMA UnderOwnRootFacts ==
  ASSUME NEW s \in Strings, NEW seg \in Strings
  PROVE  IsUnderOwnRoot(s, seg) <=>
           /\ Len(s) >= Len(OwnRoot(seg))
           /\ \A i \in 1..Len(OwnRoot(seg)) : s[i] = OwnRoot(seg)[i]
           /\ Len(s) > Len(OwnRoot(seg)) => s[Len(OwnRoot(seg)) + 1] = "/"
<1> DEFINE own == OwnRoot(seg)
           n == Len(own)
<1>1. own \in Strings /\ n \in Nat /\ Len(s) \in Nat
  BY OwnRootFacts, StringFacts
<1>2. IsUnderOwnRoot(s, seg) <=> (s = own \/ (Len(s) > n /\ SubSeq(s, 1, n + 1) = own \o <<"/">>))
  BY DEF IsUnderOwnRoot, OwnRoot
<1> DEFINE beneath == own \o <<"/">>
           t == SubSeq(s, 1, n + 1)
<1> HIDE DEF own, n
<1>3. /\ beneath \in Strings /\ Len(beneath) = n + 1 /\ beneath[n + 1] = "/"
      /\ \A i \in 1..n : beneath[i] = own[i]
  <2>1. own \in Seq(Chars) /\ <<"/">> \in Seq(Chars)
    BY <1>1, SlashIsAString DEF Strings
  <2> QED
    BY <2>1, <1>1 DEF Strings, n
<1>4. Len(s) > n => t \in Strings /\ Len(t) = n + 1 /\ \A i \in 1..(n + 1) : t[i] = s[i]
  BY <1>1, PrefixFacts
<1>5. Len(s) > n =>
        (t = beneath <=> ((\A i \in 1..n : s[i] = own[i]) /\ s[n + 1] = "/"))
  <2> SUFFICES ASSUME Len(s) > n
               PROVE  t = beneath <=> ((\A i \in 1..n : s[i] = own[i]) /\ s[n + 1] = "/")
    OBVIOUS
  <2>1. t = beneath => ((\A i \in 1..n : s[i] = own[i]) /\ s[n + 1] = "/")
    <3> HIDE DEF t, beneath
    <3> QED
      BY <1>1, <1>3, <1>4
  <2>2. ((\A i \in 1..n : s[i] = own[i]) /\ s[n + 1] = "/") => t = beneath
    <3> HIDE DEF t, beneath
    <3> QED
      BY <1>1, <1>3, <1>4, StringsAreEqual
  <2> QED
    BY <2>1, <2>2
<1>6. s = own <=> (Len(s) = n /\ \A i \in 1..n : s[i] = own[i])
  BY <1>1, StringsAreEqual DEF n
<1> QED
  BY <1>1, <1>2, <1>5, <1>6 DEF n, own

LEMMA AccountFacts ==
  ASSUME NEW u \in Users
  PROVE  /\ Account[u] \in Strings
         /\ \A i \in 1..Len(Account[u]) :
              Account[u][i] # "/" /\ Lower[Account[u][i]] = Account[u][i]
<1>1. Account[u] \in Seq(SegmentChars) /\ SegmentChars \subseteq Chars /\ "/" \notin SegmentChars
  BY PathAssumption
<1>2. \A i \in DOMAIN Account[u] : Lower[Account[u][i]] = Account[u][i]
  BY PathAssumption
<1> DEFINE seg == Account[u]
<1> HIDE DEF seg
<1>3. seg \in Seq(Chars) /\ DOMAIN seg = 1..Len(seg) /\ \A i \in 1..Len(seg) : seg[i] \in SegmentChars
  BY <1>1, WiderSeq DEF seg
<1> QED
  BY <1>1, <1>2, <1>3 DEF seg, Strings

\* No key is under the roots of two accounts: the slash after the shorter segment
\* would lie inside the longer one.
LEMMA KeysHaveOneAccount ==
  ASSUME NEW s \in Strings, NEW t \in Strings, SameKey(s, t),
         NEW u \in Users, NEW v \in Users,
         IsUnderOwnRoot(s, Account[u]), IsUnderOwnRoot(t, Account[v]),
         Len(Account[u]) <= Len(Account[v])
  PROVE  u = v
<1> DEFINE a == Account[u]
           b == Account[v]
           r == Len(ReservedRoot) + 1
           o == OwnRoot(a)
           q == OwnRoot(b)
<1>1. /\ a \in Strings /\ \A i \in 1..Len(a) : a[i] # "/" /\ Lower[a[i]] = a[i]
      /\ b \in Strings /\ \A i \in 1..Len(b) : b[i] # "/" /\ Lower[b[i]] = b[i]
  BY AccountFacts
<1>2. Len(a) <= Len(b) /\ Len(a) \in Nat /\ Len(b) \in Nat /\ r \in Nat
  BY <1>1, ReservedFacts, StringFacts
<1>3. Len(s) \in Nat /\ Len(s) = Len(t) /\ \A i \in 1..Len(s) : Lower[s[i]] = Lower[t[i]]
  BY KeyFacts, StringFacts
<1> HIDE DEF a, b
<1>4. /\ Len(o) = r + Len(a) /\ Len(q) = r + Len(b)
      /\ \A i \in 1..Len(a) : o[r + i] = a[i]
      /\ \A i \in 1..Len(b) : q[r + i] = b[i]
  BY <1>1, OwnRootFacts
<1>5. /\ Len(s) >= Len(o) /\ \A i \in 1..Len(o) : s[i] = o[i]
      /\ Len(s) > Len(o) => s[Len(o) + 1] = "/"
  BY <1>1, UnderOwnRootFacts DEF a
<1>6. Len(t) >= Len(q) /\ \A i \in 1..Len(q) : t[i] = q[i]
  BY <1>1, UnderOwnRootFacts DEF b
<1> HIDE DEF r, o, q
<1>7. Len(a) = Len(b)
  <2> SUFFICES ASSUME Len(a) < Len(b) PROVE FALSE
    BY <1>2
  <2> DEFINE k == Len(a) + 1
  <2>1. k \in 1..Len(b) /\ r + k \in 1..Len(q) /\ r + k = Len(o) + 1 /\ r + k \in 1..Len(s)
    BY <1>2, <1>3, <1>4, <1>6
  <2>2. s[r + k] = "/"
    BY <2>1, <1>2, <1>3, <1>5
  <2>3. t[r + k] = b[k]
    BY <2>1, <1>4, <1>6
  <2>4. Lower[s[r + k]] = Lower[t[r + k]]
    BY <2>1, <1>3
  <2> HIDE DEF k
  <2>5. Lower["/"] = "/"
    BY SlashIsAString, LowerFacts
  <2> QED
    BY <2>1, <2>2, <2>3, <2>4, <2>5, <1>1
<1>8. \A i \in 1..Len(a) : a[i] = b[i]
  <2> SUFFICES ASSUME NEW i \in 1..Len(a) PROVE a[i] = b[i]
    OBVIOUS
  <2>1. r + i \in 1..Len(o) /\ r + i \in 1..Len(q) /\ r + i \in 1..Len(s) /\ i \in 1..Len(b)
    BY <1>2, <1>3, <1>4, <1>5, <1>7
  <2>2. s[r + i] = a[i] /\ t[r + i] = b[i]
    BY <2>1, <1>4, <1>5, <1>6
  <2> QED
    BY <2>1, <2>2, <1>1, <1>3
<1>9. a = b
  BY <1>1, <1>7, <1>8, StringsAreEqual
<1> QED
  BY <1>9, PathAssumption DEF a, b

\* OneWriterPerKey, for every string: a key of the store has one writer at most, the
\* declaration or one account, in all its spellings together (sync.rs, row;
\* register.rs, Class::of).
THEOREM KeysHaveOneWriter ==
  ASSUME name \in Strings
  PROVE  OneWriterPerKey
<1> DEFINE admitted == {a \in Writers \X Spellings(name) : Admits(a[1], a[2])}
<1> SUFFICES ASSUME NEW a \in admitted, NEW b \in admitted PROVE a[1] = b[1]
  BY DEF OneWriterPerKey
<1>1. /\ a[1] \in Writers /\ a[2] \in Spellings(name) /\ Admits(a[1], a[2])
      /\ b[1] \in Writers /\ b[2] \in Spellings(name) /\ Admits(b[1], b[2])
  OBVIOUS
<1> DEFINE u == a[1]
           v == b[1]
           s == a[2]
           t == b[2]
<1> HIDE DEF u, v, s, t
<1>2. s \in Strings /\ t \in Strings /\ SameKey(s, t) /\ SameKey(t, s)
  BY <1>1, SpellingFacts, SameKeyIsAnEquivalence DEF s, t
<1>3. u \in Users \cup {"sync"} /\ v \in Users \cup {"sync"} /\ Admits(u, s) /\ Admits(v, t)
  BY <1>1 DEF u, v, s, t, Writers
<1>4. IsPrivateClass(s) <=> IsPrivateClass(t)
  BY <1>2, KeysHaveOneClass
<1>5. /\ u = "sync" => ~IsPrivateClass(s)
      /\ u # "sync" => u \in Users /\ IsPrivateClass(s) /\ IsUnderOwnRoot(s, Account[u])
  BY <1>3 DEF Admits, SyncAdmits, RegisterAdmits
<1>6. /\ v = "sync" => ~IsPrivateClass(t)
      /\ v # "sync" => v \in Users /\ IsPrivateClass(t) /\ IsUnderOwnRoot(t, Account[v])
  BY <1>3 DEF Admits, SyncAdmits, RegisterAdmits
<1>7. ASSUME u # "sync", v # "sync" PROVE u = v
  <2>1. Len(Account[u]) \in Nat /\ Len(Account[v]) \in Nat
    BY <1>5, <1>6, <1>7, AccountFacts, StringFacts
  <2>2. CASE Len(Account[u]) <= Len(Account[v])
    BY <2>2, <1>2, <1>5, <1>6, <1>7, KeysHaveOneAccount
  <2>3. CASE Len(Account[v]) <= Len(Account[u])
    BY <2>3, <1>2, <1>5, <1>6, <1>7, KeysHaveOneAccount
  <2> QED
    BY <2>1, <2>2, <2>3
<1>8. u = v
  BY <1>4, <1>5, <1>6, <1>7
<1> QED
  BY <1>8 DEF u, v

(***************************************************************************)
(*                              The ancestors                               *)
(***************************************************************************)
Prefix(s, n) == SubSeq(s, 1, n)

\* What Ancestors does with one string, the rest of the chain being f's.
ChainFrom(s, f, n) ==
  IF Slashes(Prefix(s, n)) = {} THEN <<Prefix(s, n)>>
  ELSE <<Prefix(s, n)>> \o f[LastSlash(Prefix(s, n)) - 1]

IsChain(s, f, k) == f = [n \in 0..k |-> ChainFrom(s, f, n)]

\* A cut is at the last slash, and shortens the string.
LEMMA CutFacts ==
  ASSUME NEW s \in Strings, NEW n \in 0..Len(s), Slashes(Prefix(s, n)) # {}
  PROVE  /\ LastSlash(Prefix(s, n)) \in Slashes(s)
         /\ LastSlash(Prefix(s, n)) \in 1..n
         /\ \A i \in Slashes(s) : i <= n => i <= LastSlash(Prefix(s, n))
<1> DEFINE t == Prefix(s, n)
<1>1. t \in Strings /\ Slashes(t) = {i \in Slashes(s) : i <= n}
  BY PrefixFacts DEF Prefix
<1>2. LastSlash(t) \in Slashes(t) /\ \A i \in Slashes(t) : i <= LastSlash(t)
  BY <1>1, LastSlashFacts
<1>3. \A i \in Slashes(s) : i \in 1..Len(s)
  BY StringFacts
<1> HIDE DEF t
<1> QED
  BY <1>1, <1>2, <1>3 DEF t

\* The recursion is well founded, so the function it describes exists.
LEMMA ChainsExist ==
  ASSUME NEW s \in Strings
  PROVE  \A k \in 0..Len(s) : \E f : IsChain(s, f, k)
<1> DEFINE G == {k \in Nat : k <= Len(s) => \E f : IsChain(s, f, k)}
<1>0. Len(s) \in Nat
  BY StringFacts
<1>1. ASSUME NEW k \in Nat, \A m \in Nat : m < k => m \in G
      PROVE  k \in G
  <2> SUFFICES ASSUME k <= Len(s) PROVE \E f : IsChain(s, f, k)
    OBVIOUS
  <2>1. CASE k = 0
    <3> DEFINE f == [n \in 0..0 |-> <<Prefix(s, 0)>>]
    <3>1. \A n \in 0..0 : n = 0 /\ Slashes(Prefix(s, n)) = {}
      <4>1. Slashes(Prefix(s, 0)) = {i \in Slashes(s) : i <= 0}
        BY <1>0, PrefixFacts DEF Prefix
      <4>2. \A i \in Slashes(s) : i \in 1..Len(s)
        BY StringFacts
      <4>3. Slashes(Prefix(s, 0)) = {}
        BY <4>1, <4>2, <1>0
      <4> QED
        BY <4>3
    <3>2. \A n \in 0..0 : f[n] = ChainFrom(s, f, n)
      BY <3>1 DEF ChainFrom
    <3>3. f = [n \in 0..0 |-> ChainFrom(s, f, n)]
      <4> DEFINE g == [n \in 0..0 |-> ChainFrom(s, f, n)]
      <4>1. \A n \in 0..0 : f[n] = g[n]
        BY <3>2
      <4>2. f = [n \in 0..0 |-> f[n]] /\ g = [n \in 0..0 |-> g[n]]
        OBVIOUS
      <4> HIDE DEF f, g
      <4>3. f = g
        BY <4>1, <4>2
      <4> QED
        BY <4>3 DEF g
    <3> HIDE DEF f
    <3> QED
      BY <2>1, <3>3 DEF IsChain
  <2>2. CASE k > 0
    <3>1. k - 1 \in Nat /\ k - 1 < k /\ k - 1 <= Len(s)
      BY <2>2, <1>0
    <3>2. PICK h : IsChain(s, h, k - 1)
      BY <3>1, <1>1
    <3>3. \A n \in 0..(k - 1) : h[n] = ChainFrom(s, h, n)
      <4>1. h = [n \in 0..(k - 1) |-> ChainFrom(s, h, n)]
        BY <3>2 DEF IsChain
      <4> DEFINE g == [n \in 0..(k - 1) |-> ChainFrom(s, h, n)]
      <4>2. \A n \in 0..(k - 1) : g[n] = ChainFrom(s, h, n)
        OBVIOUS
      <4> HIDE DEF g
      <4>3. h = g
        BY <4>1 DEF g
      <4> QED
        BY <4>2, <4>3
    <3> DEFINE f == [n \in 0..k |-> ChainFrom(s, h, n)]
    <3>4. \A n \in 0..(k - 1) : f[n] = h[n]
      BY <3>3, <3>1
    <3>5. \A n \in 0..k : ChainFrom(s, f, n) = ChainFrom(s, h, n)
      <4> SUFFICES ASSUME NEW n \in 0..k PROVE ChainFrom(s, f, n) = ChainFrom(s, h, n)
        OBVIOUS
      <4> HIDE DEF f
      <4>1. CASE Slashes(Prefix(s, n)) = {}
        BY <4>1 DEF ChainFrom
      <4>2. CASE Slashes(Prefix(s, n)) # {}
        <5>1. n \in 0..Len(s)
          BY <1>0
        <5>2. LastSlash(Prefix(s, n)) \in 1..n
          BY <5>1, <4>2, CutFacts
        <5>3. LastSlash(Prefix(s, n)) - 1 \in 0..(k - 1)
          BY <5>2, <2>2
        <5>4. f[LastSlash(Prefix(s, n)) - 1] = h[LastSlash(Prefix(s, n)) - 1]
          BY <5>3, <3>4
        <5> QED
          BY <4>2, <5>4 DEF ChainFrom
      <4> QED
        BY <4>1, <4>2
    <3>6. f = [n \in 0..k |-> ChainFrom(s, f, n)]
      <4> DEFINE g == [n \in 0..k |-> ChainFrom(s, f, n)]
      <4>1. \A n \in 0..k : f[n] = ChainFrom(s, h, n)
        OBVIOUS
      <4>2. f = [n \in 0..k |-> f[n]] /\ g = [n \in 0..k |-> g[n]]
        OBVIOUS
      <4>3. \A n \in 0..k : g[n] = ChainFrom(s, f, n)
        OBVIOUS
      <4> HIDE DEF f, g
      <4>4. \A n \in 0..k : f[n] = g[n]
        BY <4>1, <4>3, <3>5
      <4>5. f = g
        BY <4>2, <4>4
      <4> QED
        BY <4>5 DEF g
    <3> HIDE DEF f
    <3> QED
      BY <3>6 DEF IsChain
  <2> QED
    BY <2>1, <2>2
<1> HIDE DEF G
<1>2. G = Nat
  <2>1. G \in SUBSET Nat
    BY DEF G
  <2> QED
    BY <2>1, <1>1, Induction
<1> QED
  BY <1>0, <1>2 DEF G

LEMMA AncestorsAreAChain ==
  ASSUME NEW s \in Strings
  PROVE  \E f : /\ Ancestors(s) = f[Len(s)]
                /\ \A n \in 0..Len(s) : f[n] = ChainFrom(s, f, n)
<1> DEFINE f == CHOOSE g : IsChain(s, g, Len(s))
<1>1. Len(s) \in 0..Len(s) /\ Len(s) \in Nat
  BY StringFacts
<1>2. IsChain(s, f, Len(s))
  BY <1>1, ChainsExist
<1>3. Ancestors(s) = f[Len(s)]
  BY DEF Ancestors, IsChain, ChainFrom, Prefix
<1> HIDE DEF f
<1>4. \A n \in 0..Len(s) : f[n] = ChainFrom(s, f, n)
  <2> DEFINE g == [n \in 0..Len(s) |-> ChainFrom(s, f, n)]
  <2>1. \A n \in 0..Len(s) : g[n] = ChainFrom(s, f, n)
    OBVIOUS
  <2> HIDE DEF g
  <2>2. f = g
    BY <1>2 DEF IsChain, g
  <2> QED
    BY <2>1, <2>2
<1> QED
  BY <1>3, <1>4

\* What the first n characters of s and the cuts in them are.
Cuts(s, n) == {Prefix(s, n)} \cup {Prefix(s, i - 1) : i \in {j \in Slashes(s) : j <= n}}

Members(c) == {c[i] : i \in DOMAIN c}

LongestFirst(c) == \A i, j \in DOMAIN c : i < j => Len(c[i]) > Len(c[j])

LEMMA CutsAreShorter ==
  ASSUME NEW s \in Strings, NEW n \in 0..Len(s), NEW p \in Cuts(s, n)
  PROVE  p \in Strings /\ Len(p) \in 0..n
<1>1. Len(s) \in Nat /\ \A i \in Slashes(s) : i \in 1..Len(s)
  BY StringFacts
<1>2. CASE p = Prefix(s, n)
  BY <1>1, <1>2, PrefixFacts DEF Prefix
<1>3. ASSUME NEW i \in {j \in Slashes(s) : j <= n}, p = Prefix(s, i - 1)
      PROVE  p \in Strings /\ Len(p) \in 0..n
  <2>1. i - 1 \in 0..Len(s) /\ i - 1 \in 0..n
    BY <1>1
  <2> QED
    BY <1>3, <2>1, PrefixFacts DEF Prefix
<1> QED
  BY <1>2, <1>3 DEF Cuts

\* Cutting at the last slash leaves the same cuts but the whole.
LEMMA CutsOfACut ==
  ASSUME NEW s \in Strings, NEW n \in 0..Len(s), Slashes(Prefix(s, n)) # {}
  PROVE  Cuts(s, n) = {Prefix(s, n)} \cup Cuts(s, LastSlash(Prefix(s, n)) - 1)
<1> DEFINE k == LastSlash(Prefix(s, n))
<1>1. k \in Slashes(s) /\ k \in 1..n /\ \A i \in Slashes(s) : i <= n => i <= k
  BY CutFacts
<1>2. n \in Nat /\ \A i \in Slashes(s) : i \in Nat
  BY StringFacts
<1> HIDE DEF k
<1>3. {j \in Slashes(s) : j <= n} = {k} \cup {j \in Slashes(s) : j <= k - 1}
  <2>1. \A j \in Slashes(s) : j <= n <=> (j = k \/ j <= k - 1)
    BY <1>1, <1>2
  <2> QED
    BY <2>1, <1>1
<1>4. {Prefix(s, i - 1) : i \in {k} \cup {j \in Slashes(s) : j <= k - 1}}
        = {Prefix(s, k - 1)} \cup {Prefix(s, i - 1) : i \in {j \in Slashes(s) : j <= k - 1}}
  OBVIOUS
<1> QED
  BY <1>3, <1>4 DEF Cuts, k

LEMMA ConsFacts ==
  ASSUME NEW p \in Strings, NEW c \in Seq(Strings)
  PROVE  /\ <<p>> \o c \in Seq(Strings)
         /\ DOMAIN (<<p>> \o c) = 1..(Len(c) + 1)
         /\ (<<p>> \o c)[1] = p
         /\ \A i \in 1..Len(c) : (<<p>> \o c)[i + 1] = c[i]
OBVIOUS

\* The chain is the whole and its cuts, the longest first.
LEMMA ChainsWalkTheCuts ==
  ASSUME NEW s \in Strings, NEW f, \A n \in 0..Len(s) : f[n] = ChainFrom(s, f, n)
  PROVE  \A n \in 0..Len(s) :
           f[n] \in Seq(Strings) /\ Members(f[n]) = Cuts(s, n) /\ LongestFirst(f[n])
<1> DEFINE P(n) == f[n] \in Seq(Strings) /\ Members(f[n]) = Cuts(s, n) /\ LongestFirst(f[n])
           G == {n \in Nat : n <= Len(s) => P(n)}
<1>0. Len(s) \in Nat
  BY StringFacts
<1>1. ASSUME NEW n \in Nat, \A m \in Nat : m < n => m \in G
      PROVE  n \in G
  <2> SUFFICES ASSUME n <= Len(s) PROVE P(n)
    OBVIOUS
  <2>1. n \in 0..Len(s) /\ f[n] = ChainFrom(s, f, n)
    BY <1>0
  <2>2. Prefix(s, n) \in Strings /\ Len(Prefix(s, n)) = n
    BY <2>1, PrefixFacts DEF Prefix
  <2>3. CASE Slashes(Prefix(s, n)) = {}
    <3>1. f[n] = <<Prefix(s, n)>>
      BY <2>1, <2>3 DEF ChainFrom
    <3>2. {j \in Slashes(s) : j <= n} = {}
      BY <2>1, <2>3, PrefixFacts DEF Prefix
    <3>3. Cuts(s, n) = {Prefix(s, n)}
      BY <3>2 DEF Cuts
    <3> DEFINE p == Prefix(s, n)
    <3> HIDE DEF p
    <3>4. <<p>> \in Seq(Strings) /\ Members(<<p>>) = {p} /\ LongestFirst(<<p>>)
      BY <2>2 DEF Members, LongestFirst, p
    <3> QED
      BY <3>1, <3>3, <3>4 DEF p
  <2>4. CASE Slashes(Prefix(s, n)) # {}
    <3> DEFINE k == LastSlash(Prefix(s, n)) - 1
               p == Prefix(s, n)
               c == f[k]
    <3>1. f[n] = <<p>> \o c
      BY <2>1, <2>4 DEF ChainFrom
    <3>2. k \in 0..(n - 1) /\ k \in Nat /\ k < n /\ k \in 0..Len(s)
      BY <1>0, <2>1, <2>4, CutFacts
    <3>3. c \in Seq(Strings) /\ Members(c) = Cuts(s, k) /\ LongestFirst(c)
      <4>1. k \in G
        BY <3>2, <1>1
      <4> QED
        BY <4>1, <3>2
    <3>4. Cuts(s, n) = {p} \cup Cuts(s, k)
      BY <2>1, <2>4, CutsOfACut
    <3>5. \A q \in Cuts(s, k) : Len(q) \in 0..k
      BY <3>2, CutsAreShorter
    <3>6. p \in Strings /\ Len(p) = n
      BY <2>2
    <3> HIDE DEF k, p, c
    <3> DEFINE d == <<p>> \o c
    <3>7. /\ d \in Seq(Strings) /\ DOMAIN d = 1..(Len(c) + 1) /\ d[1] = p
          /\ \A i \in 1..Len(c) : d[i + 1] = c[i]
      BY <3>3, <3>6, ConsFacts
    <3>8. Len(c) \in Nat /\ DOMAIN c = 1..Len(c) /\ \A i \in 1..Len(c) : c[i] \in Cuts(s, k)
      BY <3>3 DEF Members
    <3> HIDE DEF d
    <3>9. \A i \in DOMAIN d : i = 1 \/ (i - 1 \in 1..Len(c) /\ d[i] = c[i - 1])
      <4> SUFFICES ASSUME NEW i \in DOMAIN d, i # 1
                   PROVE  i - 1 \in 1..Len(c) /\ d[i] = c[i - 1]
        OBVIOUS
      <4>1. i - 1 \in 1..Len(c) /\ (i - 1) + 1 = i
        BY <3>7, <3>8
      <4> QED
        BY <4>1, <3>7
    <3>10. Members(d) = {p} \cup Members(c)
      <4>1. \A i \in DOMAIN d : d[i] \in {p} \cup Members(c)
        BY <3>7, <3>8, <3>9 DEF Members
      <4>2. p \in Members(d)
        <5>1. 1 \in DOMAIN d
          BY <3>7, <3>8
        <5> QED
          BY <5>1, <3>7 DEF Members
      <4>3. \A i \in DOMAIN c : c[i] \in Members(d)
        <5> SUFFICES ASSUME NEW i \in DOMAIN c PROVE c[i] \in Members(d)
          OBVIOUS
        <5>1. i + 1 \in DOMAIN d /\ d[i + 1] = c[i]
          BY <3>7, <3>8
        <5> QED
          BY <5>1 DEF Members
      <4> QED
        BY <4>1, <4>2, <4>3 DEF Members
    <3>11. LongestFirst(d)
      <4> SUFFICES ASSUME NEW i \in DOMAIN d, NEW j \in DOMAIN d, i < j
                   PROVE  Len(d[i]) > Len(d[j])
        BY DEF LongestFirst
      <4>1. j - 1 \in 1..Len(c) /\ d[j] = c[j - 1] /\ i \in Nat /\ j \in Nat
        BY <3>7, <3>8, <3>9
      <4>2. Len(d[j]) \in 0..k
        BY <4>1, <3>5, <3>8
      <4>3. CASE i = 1
        BY <4>2, <4>3, <3>2, <3>6, <3>7
      <4>4. CASE i # 1
        <5>1. i - 1 \in 1..Len(c) /\ d[i] = c[i - 1] /\ i - 1 < j - 1
          BY <4>1, <4>4, <3>9
        <5> QED
          BY <5>1, <4>1, <3>3, <3>8 DEF LongestFirst
      <4> QED
        BY <4>3, <4>4
    <3> QED
      BY <3>1, <3>3, <3>4, <3>7, <3>10, <3>11 DEF d
  <2> QED
    BY <2>3, <2>4
<1> HIDE DEF G
<1>2. G = Nat
  <2>1. G \in SUBSET Nat
    BY DEF G
  <2> QED
    BY <2>1, <1>1, Induction
<1> QED
  BY <1>0, <1>2 DEF G

LEMMA AncestorFacts ==
  ASSUME NEW s \in Strings
  PROVE  /\ Ancestors(s) \in Seq(Strings)
         /\ Members(Ancestors(s)) = Above(s)
         /\ LongestFirst(Ancestors(s))
<1>1. PICK f : Ancestors(s) = f[Len(s)] /\ \A n \in 0..Len(s) : f[n] = ChainFrom(s, f, n)
  BY AncestorsAreAChain
<1>2. Len(s) \in 0..Len(s) /\ Len(s) \in Nat /\ \A i \in Slashes(s) : i \in 1..Len(s)
  BY StringFacts
<1>3. /\ f[Len(s)] \in Seq(Strings) /\ Members(f[Len(s)]) = Cuts(s, Len(s))
      /\ LongestFirst(f[Len(s)])
  BY <1>1, <1>2, ChainsWalkTheCuts
<1>4. Prefix(s, Len(s)) = s
  BY DEF Prefix, Strings
<1>5. {j \in Slashes(s) : j <= Len(s)} = Slashes(s)
  BY <1>2
<1>6. Cuts(s, Len(s)) = Above(s)
  BY <1>4, <1>5 DEF Cuts, Above, Prefix
<1> QED
  BY <1>1, <1>3, <1>6

(***************************************************************************)
(*                               The grammar                                *)
(***************************************************************************)
\* What lies between two ends.
Between(s, i, j) == SubSeq(s, i + 1, j - 1)

Ends(s) == Slashes(s) \cup {0, Len(s) + 1}

AreNeighbours(s, i, j) ==
  i \in Ends(s) /\ j \in Ends(s) /\ i < j /\ ~\E k \in Ends(s) : i < k /\ k < j

LEMMA BetweenFacts ==
  ASSUME NEW s \in Strings, NEW i \in 0..Len(s), NEW j \in 1..(Len(s) + 1), i < j
  PROVE  /\ Between(s, i, j) \in Strings
         /\ Len(Between(s, i, j)) = j - i - 1
         /\ \A k \in 1..(j - i - 1) : Between(s, i, j)[k] = s[i + k]
<1>1. Len(s) \in Nat /\ \A k \in 1..Len(s) : s[k] \in Chars
  BY StringFacts
<1>2. \A k \in (i + 1)..(j - 1) : s[k] \in Chars
  BY <1>1
<1>3. /\ SubSeq(s, i + 1, j - 1) \in Seq(Chars)
      /\ Len(SubSeq(s, i + 1, j - 1)) = j - i - 1
  BY <1>1 DEF Strings
<1>4. \A k \in 1..(j - i - 1) : SubSeq(s, i + 1, j - 1)[k] = s[i + k]
  BY <1>1 DEF Strings
<1> QED
  BY <1>3, <1>4 DEF Between, Strings

LEMMA EndFacts ==
  ASSUME NEW s \in Strings, NEW i, NEW j, AreNeighbours(s, i, j)
  PROVE  i \in 0..Len(s) /\ j \in 1..(Len(s) + 1) /\ i < j
BY StringFacts DEF AreNeighbours, Ends

\* A path is a string of legal segments.
LEMMA PathFacts ==
  ASSUME NEW s \in Strings
  PROVE  IsPath(s) <=>
           /\ Len(s) <= MaxLen
           /\ \A i, j \in Ends(s) : AreNeighbours(s, i, j) => SegmentIsLegal(Between(s, i, j))
<1>1. Segments(s) = {SubSeq(s, e[1] + 1, e[2] - 1) :
                       e \in {e \in Ends(s) \X Ends(s) :
                                e[1] < e[2] /\ ~\E k \in Ends(s) : e[1] < k /\ k < e[2]}}
  BY DEF Segments, Ends
<1>2. ASSUME NEW i \in Ends(s), NEW j \in Ends(s), AreNeighbours(s, i, j)
      PROVE  Between(s, i, j) \in Segments(s)
  <2> DEFINE e == <<i, j>>
  <2>1. e \in Ends(s) \X Ends(s) /\ e[1] = i /\ e[2] = j
    OBVIOUS
  <2>2. e[1] < e[2] /\ ~\E k \in Ends(s) : e[1] < k /\ k < e[2]
    BY <2>1, <1>2 DEF AreNeighbours
  <2>3. Between(s, i, j) = SubSeq(s, e[1] + 1, e[2] - 1)
    BY <2>1 DEF Between
  <2> HIDE DEF e
  <2> QED
    BY <1>1, <2>1, <2>2, <2>3
<1>3. ASSUME NEW seg \in Segments(s)
      PROVE  \E i, j \in Ends(s) : AreNeighbours(s, i, j) /\ seg = Between(s, i, j)
  BY <1>1 DEF AreNeighbours, Between
<1> QED
  BY <1>2, <1>3 DEF IsPath

\* Spellings of a segment are legal together.
LEMMA LegalSpellings ==
  ASSUME NEW a \in Strings, NEW b \in Strings, SameKey(a, b), SegmentIsLegal(a)
  PROVE  SegmentIsLegal(b)
<1>1. /\ Len(a) = Len(b) /\ \A i \in 1..Len(a) : Lower[a[i]] = Lower[b[i]]
      /\ Len(a) \in Nat /\ DOMAIN a = 1..Len(a) /\ DOMAIN b = 1..Len(a)
      /\ \A i \in 1..Len(a) : a[i] \in Chars /\ b[i] \in Chars
  BY KeyFacts, StringFacts
<1>2. \A c, d \in Chars : Lower[c] = Lower[d] =>
        (c \in SegmentChars <=> d \in SegmentChars) /\ (c = "." <=> d = ".")
  BY PathAssumption
<1>3. \A i \in 1..Len(a) :
        (a[i] \in SegmentChars <=> b[i] \in SegmentChars) /\ (a[i] = "." <=> b[i] = ".")
  BY <1>1, <1>2
<1>4. <<>> \in Strings /\ <<".">> \in Strings /\ <<".", ".">> \in Strings
  <2>1. "." \in Chars
    BY PathAssumption
  <2> QED
    BY <2>1 DEF Strings
<1>5. b = <<>> => a = <<>>
  <2>1. b = <<>> => Len(a) = Len(<<>>) /\ Len(<<>>) = 0
    BY <1>1
  <2> QED
    BY <2>1, <1>4, StringsAreEqual
<1>6. b = <<".">> => a = <<".">>
  <2> SUFFICES ASSUME b = <<".">> PROVE a = <<".">>
    OBVIOUS
  <2>1. Len(a) = 1 /\ Len(<<".">>) = 1 /\ b[1] = "." /\ <<".">>[1] = "."
    BY <1>1
  <2>2. \A i \in 1..Len(a) : a[i] = <<".">>[i]
    BY <2>1, <1>3
  <2> QED
    BY <2>1, <2>2, <1>4, StringsAreEqual
<1>7. b = <<".", ".">> => a = <<".", ".">>
  <2> SUFFICES ASSUME b = <<".", ".">> PROVE a = <<".", ".">>
    OBVIOUS
  <2>1. /\ Len(a) = 2 /\ Len(<<".", ".">>) = 2 /\ b[1] = "." /\ b[2] = "."
        /\ <<".", ".">>[1] = "." /\ <<".", ".">>[2] = "."
    BY <1>1
  <2>2. a[1] = "." /\ a[2] = "."
    BY <2>1, <1>3
  <2>3. \A i \in 1..Len(a) : a[i] = <<".", ".">>[i]
    BY <2>1, <2>2
  <2> QED
    BY <2>1, <2>3, <1>4, StringsAreEqual
<1> QED
  BY <1>1, <1>3, <1>5, <1>6, <1>7 DEF SegmentIsLegal

LEMMA PathSpellings ==
  ASSUME NEW s \in Strings, NEW t \in Strings, SameKey(s, t), IsPath(s)
  PROVE  IsPath(t)
<1>1. /\ Len(s) = Len(t) /\ Len(s) \in Nat
      /\ \A i \in 1..Len(s) : Lower[s[i]] = Lower[t[i]]
  BY KeyFacts, StringFacts
<1>2. Ends(s) = Ends(t)
  BY <1>1, KeysHaveTheSameSlashes DEF Ends
<1>3. ASSUME NEW i \in Ends(t), NEW j \in Ends(t), AreNeighbours(t, i, j)
      PROVE  SegmentIsLegal(Between(t, i, j))
  <2>1. AreNeighbours(s, i, j) /\ i \in Ends(s) /\ j \in Ends(s)
    BY <1>2, <1>3 DEF AreNeighbours
  <2>2. SegmentIsLegal(Between(s, i, j))
    BY <2>1, PathFacts
  <2>3. i \in 0..Len(s) /\ j \in 1..(Len(s) + 1) /\ i < j
    BY <2>1, EndFacts
  <2> DEFINE a == Between(s, i, j)
             b == Between(t, i, j)
             n == j - i - 1
  <2>4. /\ a \in Strings /\ Len(a) = n /\ \A k \in 1..n : a[k] = s[i + k]
        /\ b \in Strings /\ Len(b) = n /\ \A k \in 1..n : b[k] = t[i + k]
    <3>1. i \in 0..Len(t) /\ j \in 1..(Len(t) + 1)
      BY <2>3, <1>1
    <3>2. a \in Strings /\ Len(a) = n /\ \A k \in 1..n : a[k] = s[i + k]
      BY <2>3, BetweenFacts
    <3>3. b \in Strings /\ Len(b) = n /\ \A k \in 1..n : b[k] = t[i + k]
      BY <2>3, <3>1, BetweenFacts
    <3> QED
      BY <3>2, <3>3
  <2>5. \A k \in 1..n : i + k \in 1..Len(s)
    BY <2>3, <1>1
  <2> HIDE DEF a, b, n
  <2>6. \A k \in 1..n : Lower[a[k]] = Lower[b[k]]
    BY <2>4, <2>5, <1>1
  <2>7. SameKey(a, b)
    BY <2>4, <2>6, KeyFacts
  <2> QED
    BY <2>2, <2>4, <2>7, LegalSpellings DEF a, b
<1> QED
  BY <1>1, <1>3, PathFacts

\* What is left of a path cut at a slash is a path.
LEMMA CutsArePaths ==
  ASSUME NEW s \in Strings, IsPath(s), NEW k \in Slashes(s)
  PROVE  IsPath(SubSeq(s, 1, k - 1))
<1> DEFINE t == SubSeq(s, 1, k - 1)
<1>1. /\ k \in 1..Len(s) /\ k - 1 \in 0..Len(s) /\ Len(s) \in Nat
      /\ \A i \in Slashes(s) : i \in 1..Len(s)
  BY StringFacts
<1>2. /\ t \in Strings /\ Len(t) = k - 1 /\ \A i \in 1..(k - 1) : t[i] = s[i]
      /\ Slashes(t) = {i \in Slashes(s) : i <= k - 1}
  BY <1>1, PrefixFacts
<1> HIDE DEF t
<1>3. Len(t) <= MaxLen
  <2>1. Len(s) <= MaxLen /\ MaxLen \in Nat
    BY PathFacts, PathAssumption
  <2> QED
    BY <2>1, <1>1, <1>2
<1>4. \A i : i \in Ends(t) <=> (i \in Ends(s) /\ i <= k)
  <2>1. \A i \in Ends(t) : i \in Ends(s) /\ i <= k
    BY <1>1, <1>2 DEF Ends
  <2>2. \A i \in Ends(s) : i <= k => i \in Ends(t)
    BY <1>1, <1>2 DEF Ends
  <2> QED
    BY <2>1, <2>2
<1>5. ASSUME NEW i \in Ends(t), NEW j \in Ends(t), AreNeighbours(t, i, j)
      PROVE  SegmentIsLegal(Between(t, i, j))
  <2>1. i \in 0..Len(t) /\ j \in 1..(Len(t) + 1) /\ i < j
    BY <1>2, <1>5, EndFacts
  <2>2. i \in Ends(s) /\ j \in Ends(s) /\ j <= k
    BY <1>4
  <2>3. AreNeighbours(s, i, j)
    <3> SUFFICES ASSUME NEW m \in Ends(s), i < m, m < j PROVE FALSE
      BY <2>1, <2>2 DEF AreNeighbours
    <3>1. m \in Nat
      BY <1>1 DEF Ends
    <3>2. m <= k
      BY <3>1, <2>1, <2>2, <1>1
    <3> QED
      BY <3>2, <1>4, <1>5 DEF AreNeighbours
  <2>4. SegmentIsLegal(Between(s, i, j))
    BY <2>2, <2>3, PathFacts
  <2> DEFINE a == Between(s, i, j)
             b == Between(t, i, j)
             n == j - i - 1
  <2>5. i \in 0..Len(s) /\ j \in 1..(Len(s) + 1)
    BY <2>1, <1>1, <1>2
  <2>6. /\ a \in Strings /\ Len(a) = n /\ \A m \in 1..n : a[m] = s[i + m]
        /\ b \in Strings /\ Len(b) = n /\ \A m \in 1..n : b[m] = t[i + m]
    BY <2>1, <2>5, <1>2, BetweenFacts
  <2>7. \A m \in 1..n : i + m \in 1..(k - 1)
    BY <2>1, <1>1, <1>2
  <2> HIDE DEF a, b, n
  <2>8. \A m \in 1..n : a[m] = b[m]
    BY <2>6, <2>7, <1>2
  <2>9. a = b
    BY <2>6, <2>8, StringsAreEqual
  <2> QED
    BY <2>4, <2>9 DEF a, b
<1>6. IsPath(t)
  BY <1>2, <1>3, <1>5, PathFacts
<1> QED
  BY <1>6 DEF t

\* WalksTheAncestors, for every string: what resolve walks is the path and its
\* ancestors, all of them and nothing else, the deepest first (path.rs, ancestors).
THEOREM ChainsAreTheAncestors ==
  ASSUME name \in Strings
  PROVE  WalksTheAncestors
<1> DEFINE chain == Ancestors(name)
<1>1. chain \in Seq(Strings) /\ Members(chain) = Above(name) /\ LongestFirst(chain)
  BY AncestorFacts
<1>2. ASSUME IsPath(name), NEW i \in DOMAIN chain
      PROVE  IsPath(chain[i])
  <2>1. chain[i] \in Above(name)
    BY <1>1 DEF Members
  <2> QED
    BY <2>1, <1>2, CutsArePaths DEF Above
<1>3. {chain[i] : i \in DOMAIN chain} = Above(name)
  BY <1>1 DEF Members
<1>4. \A i, j \in DOMAIN chain : i < j => Len(chain[i]) > Len(chain[j])
  BY <1>1 DEF LongestFirst
<1> HIDE DEF chain
<1> QED
  BY <1>2, <1>3, <1>4 DEF WalksTheAncestors, chain

\* What is above a string: its beginnings that end before a slash, and itself.
LEMMA AboveFacts ==
  ASSUME NEW c \in Strings, NEW a
  PROVE  a \in Above(c) <=>
           \E k \in 0..Len(c) : a = SubSeq(c, 1, k) /\ (k = Len(c) \/ k + 1 \in Slashes(c))
<1>1. Len(c) \in Nat /\ \A i \in Slashes(c) : i \in 1..Len(c)
  BY StringFacts
<1>2. SubSeq(c, 1, Len(c)) = c
  BY DEF Strings
<1>3. ASSUME a \in Above(c)
      PROVE  \E k \in 0..Len(c) : a = SubSeq(c, 1, k) /\ (k = Len(c) \/ k + 1 \in Slashes(c))
  <2>1. CASE a = c
    <3>1. a = SubSeq(c, 1, Len(c)) /\ Len(c) \in 0..Len(c)
      BY <2>1, <1>1, <1>2
    <3> DEFINE n == Len(c)
    <3>2. n \in 0..Len(c) /\ a = SubSeq(c, 1, n) /\ n = Len(c)
      BY <3>1
    <3> QED
      BY <3>2
  <2>2. ASSUME NEW i \in Slashes(c), a = SubSeq(c, 1, i - 1)
        PROVE  \E k \in 0..Len(c) : a = SubSeq(c, 1, k) /\ (k = Len(c) \/ k + 1 \in Slashes(c))
    <3>1. i - 1 \in 0..Len(c) /\ (i - 1) + 1 = i
      BY <1>1
    <3> QED
      BY <2>2, <3>1
  <2> QED
    BY <1>3, <2>1, <2>2 DEF Above
<1>4. ASSUME NEW k \in 0..Len(c), a = SubSeq(c, 1, k), k = Len(c) \/ k + 1 \in Slashes(c)
      PROVE  a \in Above(c)
  <2>1. CASE k = Len(c)
    BY <2>1, <1>2, <1>4 DEF Above
  <2>2. CASE k + 1 \in Slashes(c)
    <3>1. (k + 1) - 1 = k
      BY <1>1
    <3> QED
      BY <2>2, <3>1, <1>4 DEF Above
  <2> QED
    BY <2>1, <2>2, <1>4
<1> QED
  BY <1>3, <1>4

LEMMA AboveIsShorter ==
  ASSUME NEW c \in Strings, NEW a \in Above(c)
  PROVE  a \in Strings /\ Len(a) \in 0..Len(c) /\ (Len(a) = Len(c) => a = c)
<1>1. PICK k \in 0..Len(c) : a = SubSeq(c, 1, k)
  BY AboveFacts
<1>2. a \in Strings /\ Len(a) = k
  BY <1>1, PrefixFacts
<1>3. SubSeq(c, 1, Len(c)) = c
  BY DEF Strings
<1> QED
  BY <1>1, <1>2, <1>3

(***************************************************************************)
(*                                  LIKE                                    *)
(***************************************************************************)
Literally(s, rest, c) == {j \in 1..Len(s) : Lower[s[j]] = Lower[c] /\ j + 1 \in rest}

\* What Like does with one character of the pattern, the rest being f's.
PlacesFrom(s, p, f, i) ==
  IF i > Len(p) THEN {Len(s) + 1}
  ELSE LET rest == f[IF p[i] = "\\" THEN i + 2 ELSE i + 1]
       IN  CASE p[i] = "\\" -> Literally(s, rest, p[i + 1])
             [] p[i] = "%" -> {j \in 1..(Len(s) + 1) : \E k \in rest : j <= k}
             [] p[i] = "_" -> {j \in 1..Len(s) : j + 1 \in rest}
             [] OTHER -> Literally(s, rest, p[i])

IsTable(s, p, f) == f = [i \in 1..(Len(p) + 1) |-> PlacesFrom(s, p, f, i)]

\* A place depends on later ones only.
LEMMA PlacesLookAhead ==
  ASSUME NEW s, NEW p, Len(p) \in Nat, p[Len(p)] # "\\", NEW f, NEW g, NEW i \in 1..(Len(p) + 1),
         \A k \in 1..(Len(p) + 1) : k > i => f[k] = g[k]
  PROVE  PlacesFrom(s, p, f, i) = PlacesFrom(s, p, g, i)
<1>1. CASE i > Len(p)
  BY <1>1 DEF PlacesFrom
<1>2. CASE i <= Len(p)
  <2> DEFINE k == IF p[i] = "\\" THEN i + 2 ELSE i + 1
  <2>1. i < Len(p) \/ p[i] # "\\"
    BY <1>2
  <2>2. k \in 1..(Len(p) + 1) /\ k > i
    BY <1>2, <2>1
  <2>3. f[k] = g[k]
    BY <2>2
  <2> QED
    BY <1>2, <2>3 DEF PlacesFrom
<1> QED
  BY <1>1, <1>2

LEMMA TablesExist ==
  ASSUME NEW s, NEW p, Len(p) \in Nat, p[Len(p)] # "\\"
  PROVE  \E f : IsTable(s, p, f)
<1> DEFINE K == Len(p) + 1
           IsFilled(f, n) == /\ f = [i \in 1..K |-> f[i]]
                             /\ \A i \in 1..K : i > K - n => f[i] = PlacesFrom(s, p, f, i)
           G == {n \in Nat : \E f : IsFilled(f, n)}
<1>0. K \in Nat /\ K > 0
  OBVIOUS
<1>1. ASSUME NEW n \in Nat, \A m \in Nat : m < n => m \in G
      PROVE  n \in G
  <2>1. CASE n = 0
    <3> DEFINE f == [i \in 1..K |-> {}]
    <3>1. f = [i \in 1..K |-> f[i]] /\ \A i \in 1..K : ~(i > K - n)
      BY <2>1, <1>0
    <3> HIDE DEF f, K
    <3>2. IsFilled(f, n)
      BY <3>1
    <3> QED
      BY <3>2
  <2>2. CASE n > 0
    <3>1. n - 1 \in Nat /\ n - 1 \in G
      BY <2>2, <1>1
    <3>2. PICK h : IsFilled(h, n - 1)
      BY <3>1
    <3> DEFINE f == [i \in 1..K |-> IF i = K - n + 1 THEN PlacesFrom(s, p, h, i) ELSE h[i]]
    <3>3. f = [i \in 1..K |-> f[i]]
      OBVIOUS
    <3>4. \A i \in 1..K : i > K - n + 1 => f[i] = h[i]
      BY <1>0
    <3>5. ASSUME NEW i \in 1..K, i > K - n PROVE f[i] = PlacesFrom(s, p, f, i)
      <4>1. \A k \in 1..K : k > i => f[k] = h[k]
        BY <3>4, <3>5, <1>0
      <4>2. f[i] = PlacesFrom(s, p, h, i)
        <5>1. CASE i = K - n + 1
          BY <5>1
        <5>2. CASE i # K - n + 1
          <6>1. i > K - (n - 1) /\ f[i] = h[i]
            BY <5>2, <3>5, <1>0
          <6> HIDE DEF f
          <6> QED
            BY <6>1, <3>2
        <5> QED
          BY <5>1, <5>2
      <4> HIDE DEF f
      <4>3. PlacesFrom(s, p, f, i) = PlacesFrom(s, p, h, i)
        BY <4>1, PlacesLookAhead
      <4> QED
        BY <4>2, <4>3
    <3> HIDE DEF f, K
    <3>6. IsFilled(f, n)
      BY <3>3, <3>5
    <3> QED
      BY <3>6
  <2> QED
    BY <2>1, <2>2
<1>2. G = Nat
  <2>1. G \in SUBSET Nat
    OBVIOUS
  <2> HIDE DEF G
  <2> QED
    BY <2>1, <1>1, Induction
<1>3. PICK f : IsFilled(f, K)
  BY <1>0, <1>2
<1>4. \A i \in 1..K : f[i] = PlacesFrom(s, p, f, i)
  BY <1>0, <1>3
<1>5. f = [i \in 1..K |-> PlacesFrom(s, p, f, i)]
  <2> DEFINE g == [i \in 1..K |-> PlacesFrom(s, p, f, i)]
  <2>1. g = [i \in 1..K |-> g[i]] /\ \A i \in 1..K : g[i] = PlacesFrom(s, p, f, i)
    OBVIOUS
  <2> HIDE DEF g
  <2>2. \A i \in 1..K : f[i] = g[i]
    BY <2>1, <1>4
  <2>3. f = g
    BY <2>1, <2>2, <1>3
  <2> QED
    BY <2>3 DEF g
<1> QED
  BY <1>5 DEF IsTable

LEMMA LikeIsATable ==
  ASSUME NEW s, NEW p, Len(p) \in Nat, p[Len(p)] # "\\"
  PROVE  \E f : /\ Like(s, p) <=> 1 \in f[1]
                /\ \A i \in 1..(Len(p) + 1) : f[i] = PlacesFrom(s, p, f, i)
<1> DEFINE f == CHOOSE g : IsTable(s, p, g)
<1>1. IsTable(s, p, f)
  BY TablesExist
<1>2. Like(s, p) <=> 1 \in f[1]
  BY DEF Like, IsTable, PlacesFrom, Literally
<1> HIDE DEF f
<1>3. \A i \in 1..(Len(p) + 1) : f[i] = PlacesFrom(s, p, f, i)
  <2> DEFINE g == [i \in 1..(Len(p) + 1) |-> PlacesFrom(s, p, f, i)]
  <2>1. \A i \in 1..(Len(p) + 1) : g[i] = PlacesFrom(s, p, f, i)
    OBVIOUS
  <2> HIDE DEF g
  <2>2. f = g
    BY <1>1 DEF IsTable, g
  <2> QED
    BY <2>1, <2>2
<1> QED
  BY <1>2, <1>3

\* The pattern q spells out u, each metacharacter escaped, then /%; pos[k] is where
\* its k-th character stands.
Spells(q, u, pos) ==
  /\ pos \in [0..Len(u) -> Nat] /\ pos[0] = 0
  /\ \A k \in 0..Len(u) : pos[k] <= pos[Len(u)]
  /\ \A k \in 1..Len(u) :
       /\ q[pos[k]] = u[k]
       /\ \/ u[k] \in Wild /\ pos[k] = pos[k - 1] + 2 /\ q[pos[k] - 1] = "\\"
          \/ u[k] \notin Wild /\ pos[k] = pos[k - 1] + 1
  /\ Len(q) = pos[Len(u)] + 2
  /\ q[pos[Len(u)] + 1] = "/" /\ q[pos[Len(u)] + 2] = "%"

\* Such a pattern matches what lies beneath u, and nothing else.
LEMMA PatternsMatchBeneath ==
  ASSUME NEW s \in Strings, NEW u \in Strings, NEW q, NEW pos, Spells(q, u, pos)
  PROVE  Like(s, q) <=>
           /\ Len(s) > Len(u)
           /\ \A k \in 1..Len(u) : Lower[s[k]] = Lower[u[k]]
           /\ s[Len(u) + 1] = "/"
<1> DEFINE n == Len(u)
           L == Len(s)
<1>1. n \in Nat /\ L \in Nat
  BY StringFacts
<1> HIDE DEF n, L
<1>2. /\ pos \in [0..n -> Nat] /\ pos[0] = 0
      /\ \A k \in 0..n : pos[k] <= pos[n]
      /\ \A k \in 1..n :
           /\ q[pos[k]] = u[k]
           /\ \/ u[k] \in Wild /\ pos[k] = pos[k - 1] + 2 /\ q[pos[k] - 1] = "\\"
              \/ u[k] \notin Wild /\ pos[k] = pos[k - 1] + 1
      /\ Len(q) = pos[n] + 2
      /\ q[pos[n] + 1] = "/" /\ q[pos[n] + 2] = "%"
  BY DEF Spells, n
<1>3. pos[n] \in Nat /\ Len(q) \in Nat /\ q[Len(q)] # "\\" /\ \A k \in 0..n : pos[k] \in Nat
  BY <1>1, <1>2
<1>4. PICK f : /\ Like(s, q) <=> 1 \in f[1]
               /\ \A i \in 1..(Len(q) + 1) : f[i] = PlacesFrom(s, q, f, i)
  BY <1>3, LikeIsATable
<1> DEFINE Rest(k) == f[pos[k] + 1]
           E(k) == /\ k <= L /\ k + 1 \in Rest(k)
                   /\ \A t \in 1..k : Lower[s[t]] = Lower[u[t]]
\* Up to the k-th character, the pattern asks for u's characters.
<1>5. ASSUME NEW k \in 1..n PROVE Rest(k - 1) = Literally(s, Rest(k), u[k])
  <2> DEFINE i == pos[k - 1] + 1
  <2>1. /\ k - 1 \in 0..n /\ k \in 0..n /\ pos[k - 1] \in Nat /\ pos[k] \in Nat /\ pos[k] <= pos[n]
        /\ q[pos[k]] = u[k]
        /\ \/ u[k] \in Wild /\ pos[k] = pos[k - 1] + 2 /\ q[pos[k] - 1] = "\\"
           \/ u[k] \notin Wild /\ pos[k] = pos[k - 1] + 1
    BY <1>1, <1>2
  <2>2. i \in 1..Len(q) /\ i \in 1..(Len(q) + 1) /\ ~(i > Len(q))
    <3>1. i \in Nat /\ i >= 1 /\ i <= pos[k]
      BY <2>1
    <3>2. pos[k] \in Nat /\ pos[n] \in Nat /\ pos[k] <= pos[n]
      BY <2>1, <1>3
    <3>3. Len(q) = pos[n] + 2
      BY <1>2
    <3> HIDE DEF i
    <3> QED
      BY <3>1, <3>2, <3>3
  <2>3. f[i] = PlacesFrom(s, q, f, i)
    BY <2>2, <1>4
  <2>4. CASE u[k] \in Wild /\ pos[k] = pos[k - 1] + 2 /\ q[pos[k] - 1] = "\\"
    <3>1. pos[k] - 1 = i /\ pos[k] = i + 1 /\ pos[k] + 1 = i + 2
      BY <2>1, <2>4
    <3>2. q[i] = "\\" /\ q[i + 1] = u[k]
      BY <2>1, <2>4, <3>1
    <3> HIDE DEF i
    <3>3. PlacesFrom(s, q, f, i) = Literally(s, f[i + 2], q[i + 1])
      BY <2>2, <3>2 DEF PlacesFrom
    <3> QED
      BY <2>3, <3>1, <3>2, <3>3 DEF i
  <2>5. CASE u[k] \notin Wild /\ pos[k] = pos[k - 1] + 1
    <3>1. pos[k] = i
      BY <2>5
    <3>2. q[i] = u[k] /\ q[i] # "\\" /\ q[i] # "%" /\ q[i] # "_"
      BY <2>1, <2>5, <3>1 DEF Wild
    <3> HIDE DEF i
    <3>3. PlacesFrom(s, q, f, i) = Literally(s, f[i + 1], q[i])
      BY <2>2, <3>2 DEF PlacesFrom
    <3> QED
      BY <2>3, <3>1, <3>2, <3>3 DEF i
  <2> QED
    BY <2>1, <2>4, <2>5
<1>6. ASSUME NEW k \in 1..n PROVE E(k - 1) <=> E(k)
  <2>1. k \in Nat /\ k - 1 \in Nat /\ (k - 1) + 1 = k
    OBVIOUS
  <2>2. k \in Rest(k - 1) <=> (k \in 1..L /\ Lower[s[k]] = Lower[u[k]] /\ k + 1 \in Rest(k))
    BY <1>5 DEF Literally, L
  <2> HIDE DEF Rest
  <2>3. (\A t \in 1..k : Lower[s[t]] = Lower[u[t]])
          <=> ((\A t \in 1..(k - 1) : Lower[s[t]] = Lower[u[t]]) /\ Lower[s[k]] = Lower[u[k]])
    <3>1. \A t : t \in 1..k <=> (t \in 1..(k - 1) \/ t = k)
      BY <2>1
    <3> QED
      BY <3>1
  <2>4. k \in 1..L <=> k <= L
    BY <2>1, <1>1
  <2>5. k <= L => k - 1 <= L
    BY <2>1, <1>1
  <2> QED
    BY <2>1, <2>2, <2>3, <2>4, <2>5
<1>7. E(0) <=> E(n)
  <2> DEFINE G == {k \in Nat : k <= n => (E(0) <=> E(k))}
  <2>1. ASSUME NEW k \in Nat, \A m \in Nat : m < k => m \in G PROVE k \in G
    <3> HIDE DEF E
    <3>1. CASE k = 0
      BY <3>1
    <3>2. CASE k > 0
      <4>1. k - 1 \in Nat /\ k - 1 < k
        BY <3>2
      <4>2. k - 1 \in G
        BY <4>1, <2>1
      <4>3. k <= n => (E(k - 1) <=> E(k)) /\ k - 1 <= n
        BY <3>2, <1>6, <1>1
      <4> QED
        BY <4>2, <4>3
    <3> QED
      BY <3>1, <3>2
  <2>2. G \in SUBSET Nat
    OBVIOUS
  <2> HIDE DEF G
  <2>3. G = Nat
    BY <2>1, <2>2, Induction
  <2> HIDE DEF E
  <2> QED
    BY <2>3, <1>1 DEF G
<1>8. E(0) <=> 1 \in f[1]
  <2>1. pos[0] + 1 = 1 /\ 0 + 1 = 1 /\ 0 <= L
    BY <1>1, <1>2
  <2>2. \A t \in 1..0 : Lower[s[t]] = Lower[u[t]]
    OBVIOUS
  <2> QED
    BY <2>1, <2>2
\* After u it asks for a slash, and for anything.
<1>9. n + 1 \in Rest(n) <=> (n + 1 \in 1..L /\ Lower[s[n + 1]] = Lower["/"])
  <2> DEFINE i == pos[n] + 1
  <2>1. /\ i \in 1..Len(q) /\ i + 1 = Len(q) /\ i + 2 = Len(q) + 1
        /\ i \in 1..(Len(q) + 1) /\ i + 1 \in 1..(Len(q) + 1) /\ i + 2 \in 1..(Len(q) + 1)
        /\ q[i] = "/" /\ q[i + 1] = "%"
    <3> DEFINE p == pos[n]
               l == Len(q)
    <3>1. p \in Nat /\ l = p + 2 /\ i = p + 1
      BY <1>2, <1>3
    <3>2. q[p + 1] = "/" /\ q[p + 2] = "%"
      BY <1>2
    <3> HIDE DEF i, p, l
    <3>3. i + 1 = p + 2
      BY <3>1
    <3>4. /\ i \in 1..l /\ i + 1 = l /\ i + 2 = l + 1
          /\ i \in 1..(l + 1) /\ i + 1 \in 1..(l + 1) /\ i + 2 \in 1..(l + 1)
      BY <3>1
    <3>5. q[i] = "/" /\ q[i + 1] = "%"
      BY <3>1, <3>2, <3>3
    <3> QED
      BY <3>4, <3>5 DEF l
  <2> HIDE DEF i
  <2>2. f[i + 2] = {L + 1}
    <3> DEFINE m == i + 2
    <3>1. f[m] = PlacesFrom(s, q, f, m)
      BY <2>1, <1>4
    <3>2. m > Len(q)
      BY <2>1, <1>3
    <3> HIDE DEF m
    <3>3. PlacesFrom(s, q, f, m) = {Len(s) + 1}
      BY <3>2 DEF PlacesFrom
    <3> QED
      BY <3>1, <3>3 DEF m, L
  <2>3. f[i + 1] = {j \in 1..(L + 1) : \E k \in f[i + 2] : j <= k}
    <3>1. f[i + 1] = PlacesFrom(s, q, f, i + 1)
      BY <2>1, <1>4
    <3> DEFINE m == i + 1
    <3>2. ~(m > Len(q)) /\ q[m] = "%" /\ m + 1 = i + 2
      BY <2>1, <1>3
    <3> HIDE DEF m
    <3>3. PlacesFrom(s, q, f, m) = {j \in 1..(Len(s) + 1) : \E k \in f[m + 1] : j <= k}
      BY <3>2 DEF PlacesFrom
    <3> QED
      BY <3>1, <3>2, <3>3 DEF m, L
  <2>4. f[i] = Literally(s, f[i + 1], "/")
    <3>1. f[i] = PlacesFrom(s, q, f, i) /\ ~(i > Len(q))
      BY <2>1, <1>3, <1>4
    <3> QED
      BY <3>1, <2>1 DEF PlacesFrom
  <2>5. n + 1 \in f[i] <=> (n + 1 \in 1..L /\ Lower[s[n + 1]] = Lower["/"] /\ n + 2 \in f[i + 1])
    <3>1. (n + 1) + 1 = n + 2
      BY <1>1
    <3> QED
      BY <2>4, <3>1 DEF Literally, L
  <2>6. n + 1 \in 1..L => n + 2 \in f[i + 1]
    BY <2>2, <2>3, <1>1
  <2> QED
    BY <2>5, <2>6 DEF i
<1>10. n + 1 \in 1..L => (Lower[s[n + 1]] = Lower["/"] <=> s[n + 1] = "/")
  <2>1. Lower["/"] = "/"
    BY SlashIsAString, LowerFacts
  <2> QED
    BY <2>1, StringFacts, LowerFacts DEF L
<1>11. n + 1 \in 1..L <=> L > n
  BY <1>1
<1>12. E(n) <=> (L > n /\ (\A k \in 1..n : Lower[s[k]] = Lower[u[k]]) /\ s[n + 1] = "/")
  <2>1. L > n => n <= L
    BY <1>1
  <2> HIDE DEF Rest
  <2> QED
    BY <2>1, <1>9, <1>10, <1>11
<1> HIDE DEF E
<1> QED
  BY <1>4, <1>7, <1>8, <1>12 DEF n, L

\* The engine's pattern of the private class matches the private paths.
LEMMA ClassIsAPattern ==
  ASSUME NEW s \in Strings
  PROVE  IsPrivateClass(s) <=> Like(s, ReservedRoot \o <<"/", "%">>)
<1> DEFINE u == ReservedRoot
           q == ReservedRoot \o <<"/", "%">>
           n == Len(ReservedRoot)
           pos == [k \in 0..n |-> k]
<1>1. /\ u \in Strings /\ n \in Nat
      /\ \A k \in 1..n : u[k] # "/" /\ Lower[u[k]] = u[k] /\ u[k] \notin Wild
  <2> DEFINE S == SegmentChars \ {"_", "."}
  <2>1. u \in Seq(S) /\ S \cap Wild = {}
    BY PathAssumption DEF Wild
  <2> HIDE DEF S
  <2>2. \A k \in 1..n : u[k] \in S
    BY <2>1, WiderSeq
  <2> QED
    BY <2>1, <2>2, ReservedFacts, StringFacts
<1>2. /\ Len(q) = n + 2 /\ q[n + 1] = "/" /\ q[n + 2] = "%"
      /\ \A k \in 1..n : q[k] = u[k]
  <2>1. u \in Seq(Chars)
    BY <1>1 DEF Strings
  <2> QED
    BY <2>1
<1> HIDE DEF q
<1>3. Spells(q, u, pos)
  <2>1. pos \in [0..n -> Nat] /\ \A k \in 0..n : pos[k] = k
    BY <1>1
  <2>2. 0 \in 0..n /\ n \in 0..n /\ \A k \in 1..n : k \in 0..n /\ k - 1 \in 0..n /\ k = (k - 1) + 1
    BY <1>1
  <2>3. pos[0] = 0 /\ pos[n] = n /\ \A k \in 1..n : pos[k] = k /\ pos[k - 1] = k - 1
    BY <2>1, <2>2
  <2> HIDE DEF pos
  <2>4. \A k \in 0..n : pos[k] <= pos[n]
    BY <2>1, <2>3
  <2>5. \A k \in 1..n : q[pos[k]] = u[k] /\ u[k] \notin Wild /\ pos[k] = pos[k - 1] + 1
    BY <2>2, <2>3, <1>1, <1>2
  <2> HIDE DEF u
  <2> QED
    BY <2>1, <2>3, <2>4, <2>5, <1>2 DEF Spells, u
<1>4. Like(s, q) <=>
        /\ Len(s) > n
        /\ \A k \in 1..n : Lower[s[k]] = Lower[u[k]]
        /\ s[n + 1] = "/"
  BY <1>1, <1>3, PatternsMatchBeneath
<1> HIDE DEF pos
<1>5. Len(s) \in Nat /\ Slashes(s) = {i \in 1..Len(s) : s[i] = "/"}
  BY StringFacts
<1>6. ASSUME Like(s, q) PROVE IsPrivateClass(s)
  <2>1. n + 1 \in Slashes(s)
    BY <1>1, <1>4, <1>5, <1>6
  <2>2. \A k \in 1..n : Lower[s[k]] = u[k]
    BY <1>1, <1>4, <1>6
  <2>3. \A k \in 1..n : k \notin Slashes(s)
    BY <2>2, <1>1, <1>5, LowerFacts, SlashIsAString
  <2>4. FirstSlash(s) \in Slashes(s) /\ FirstSlash(s) <= n + 1
    BY <2>1, FirstSlashFacts
  <2>5. FirstSlash(s) = n + 1
    BY <2>3, <2>4, <1>1, <1>5
  <2> QED
    BY <2>1, <2>2, <2>5, ClassFacts
<1>7. ASSUME IsPrivateClass(s) PROVE Like(s, q)
  <2>1. /\ Slashes(s) # {} /\ FirstSlash(s) = n + 1
        /\ \A k \in 1..n : Lower[s[k]] = u[k]
    BY <1>7, ClassFacts
  <2>2. n + 1 \in 1..Len(s) /\ s[n + 1] = "/"
    BY <2>1, <1>5, FirstSlashFacts
  <2>3. \A k \in 1..n : Lower[s[k]] = Lower[u[k]]
    BY <2>1, <1>1
  <2> QED
    BY <2>2, <2>3, <1>1, <1>4, <1>5
<1> QED
  BY <1>6, <1>7 DEF q

\* ClassIsTheEngines, for every string: the class path.rs reads off a path is the one
\* the engine's CHECK reads off the row (ck_project_class_path).
THEOREM ClassesAreTheEngines ==
  ASSUME name \in Strings
  PROVE  ClassIsTheEngines
BY ClassIsAPattern DEF ClassIsTheEngines

(***************************************************************************)
(*                             What list lists                              *)
(***************************************************************************)
\* What LikeEscape does with one more character, the ones before being f's.
EscapeFrom(s, f, n) ==
  IF n = 0 THEN <<>>
  ELSE f[n - 1] \o (IF s[n] \in Wild THEN <<"\\">> ELSE <<>>) \o <<s[n]>>

IsEscape(s, f, k) == f = [n \in 0..k |-> EscapeFrom(s, f, n)]

\* The recursion is well founded, so the function it describes exists.
LEMMA EscapesExist ==
  ASSUME NEW s \in Strings
  PROVE  \A k \in Nat : \E f : IsEscape(s, f, k)
<1> DEFINE G == {k \in Nat : \E f : IsEscape(s, f, k)}
<1>1. ASSUME NEW k \in Nat, \A m \in Nat : m < k => m \in G
      PROVE  k \in G
  <2>1. CASE k = 0
    <3> DEFINE f == [n \in 0..0 |-> <<>>]
    <3>1. f = [n \in 0..0 |-> EscapeFrom(s, f, n)]
      <4> DEFINE g == [n \in 0..0 |-> EscapeFrom(s, f, n)]
      <4>1. \A n \in 0..0 : f[n] = <<>> /\ n = 0
        OBVIOUS
      <4>2. f = [n \in 0..0 |-> f[n]] /\ g = [n \in 0..0 |-> g[n]]
        OBVIOUS
      <4>3. \A n \in 0..0 : g[n] = EscapeFrom(s, f, n)
        OBVIOUS
      <4> HIDE DEF f, g
      <4>4. \A n \in 0..0 : f[n] = g[n]
        BY <4>1, <4>3 DEF EscapeFrom
      <4>5. f = g
        BY <4>2, <4>4
      <4> QED
        BY <4>5 DEF g
    <3> HIDE DEF f
    <3> QED
      BY <2>1, <3>1 DEF IsEscape
  <2>2. CASE k > 0
    <3>1. k - 1 \in Nat /\ k - 1 < k
      BY <2>2
    <3>2. PICK h : IsEscape(s, h, k - 1)
      BY <3>1, <1>1
    <3>3. \A n \in 0..(k - 1) : h[n] = EscapeFrom(s, h, n)
      <4> DEFINE g == [n \in 0..(k - 1) |-> EscapeFrom(s, h, n)]
      <4>1. \A n \in 0..(k - 1) : g[n] = EscapeFrom(s, h, n)
        OBVIOUS
      <4> HIDE DEF g
      <4>2. h = g
        BY <3>2 DEF IsEscape, g
      <4> QED
        BY <4>1, <4>2
    <3> DEFINE f == [n \in 0..k |-> EscapeFrom(s, h, n)]
    <3>4. \A n \in 0..(k - 1) : f[n] = h[n]
      BY <3>3, <3>1
    <3>5. \A n \in 0..k : f[n] = EscapeFrom(s, h, n)
      OBVIOUS
    <3>6. \A n \in 0..k : f[n] = EscapeFrom(s, f, n)
      <4> HIDE DEF f
      <4>1. \A n \in 0..k : n = 0 \/ n - 1 \in 0..(k - 1)
        BY <2>2
      <4> QED
        BY <4>1, <3>4, <3>5 DEF EscapeFrom
    <3>7. f = [n \in 0..k |-> EscapeFrom(s, f, n)]
      <4> DEFINE g == [n \in 0..k |-> EscapeFrom(s, f, n)]
      <4>1. f = [n \in 0..k |-> f[n]] /\ g = [n \in 0..k |-> g[n]]
        OBVIOUS
      <4>2. \A n \in 0..k : g[n] = EscapeFrom(s, f, n)
        OBVIOUS
      <4> HIDE DEF f, g
      <4>3. f = g
        <5>1. \A n \in 0..k : f[n] = g[n]
          BY <4>2, <3>6
        <5> QED
          BY <5>1, <4>1
      <4> QED
        BY <4>3 DEF g
    <3> HIDE DEF f
    <3> QED
      BY <3>7 DEF IsEscape
  <2> QED
    BY <2>1, <2>2
<1> HIDE DEF G
<1>2. G = Nat
  <2>1. G \in SUBSET Nat
    BY DEF G
  <2> QED
    BY <2>1, <1>1, Induction
<1> QED
  BY <1>2 DEF G

LEMMA EscapesAreBuilt ==
  ASSUME NEW s \in Strings
  PROVE  \E f : /\ LikeEscape(s) = f[Len(s)]
                /\ \A n \in 0..Len(s) : f[n] = EscapeFrom(s, f, n)
<1> DEFINE f == CHOOSE g : IsEscape(s, g, Len(s))
<1>1. Len(s) \in Nat
  BY StringFacts
<1>2. IsEscape(s, f, Len(s))
  BY <1>1, EscapesExist
<1>3. LikeEscape(s) = f[Len(s)]
  BY DEF LikeEscape, IsEscape, EscapeFrom
<1> HIDE DEF f
<1>4. \A n \in 0..Len(s) : f[n] = EscapeFrom(s, f, n)
  <2> DEFINE g == [n \in 0..Len(s) |-> EscapeFrom(s, f, n)]
  <2>1. \A n \in 0..Len(s) : g[n] = EscapeFrom(s, f, n)
    OBVIOUS
  <2> HIDE DEF g
  <2>2. f = g
    BY <1>2 DEF IsEscape, g
  <2> QED
    BY <2>1, <2>2
<1> QED
  BY <1>3, <1>4

Escaped == Chars \cup {"\\"}

\* One more character adds itself at the end, after a backslash if it is wild.
Extends(w, v, c) ==
  /\ w \in Seq(Escaped)
  /\ \A i \in 1..Len(v) : w[i] = v[i]
  /\ Len(w) > Len(v) /\ w[Len(w)] = c
  /\ \/ c \in Wild /\ Len(w) = Len(v) + 2 /\ w[Len(w) - 1] = "\\"
     \/ c \notin Wild /\ Len(w) = Len(v) + 1

LEMMA EscapesExtend ==
  ASSUME NEW v \in Seq(Escaped), NEW c \in Chars
  PROVE  Extends(v \o (IF c \in Wild THEN <<"\\">> ELSE <<>>) \o <<c>>, v, c)
<1>1. c \in Escaped /\ "\\" \in Escaped
  BY DEF Escaped
<1>2. CASE c \in Wild
  <2> DEFINE w == v \o <<"\\">> \o <<c>>
  <2>1. /\ w \in Seq(Escaped) /\ Len(w) = Len(v) + 2
        /\ w[Len(v) + 1] = "\\" /\ w[Len(v) + 2] = c
        /\ \A i \in 1..Len(v) : w[i] = v[i]
    BY <1>1
  <2>2. Len(v) \in Nat
    OBVIOUS
  <2> HIDE DEF w
  <2>3. Len(w) - 1 = Len(v) + 1 /\ Len(w) > Len(v)
    BY <2>1, <2>2
  <2>4. Extends(w, v, c)
    BY <1>2, <2>1, <2>3 DEF Extends
  <2> QED
    BY <1>2, <2>4 DEF w
<1>3. CASE c \notin Wild
  <2> DEFINE w == v \o <<>> \o <<c>>
  <2>1. /\ w \in Seq(Escaped) /\ Len(w) = Len(v) + 1 /\ w[Len(v) + 1] = c
        /\ \A i \in 1..Len(v) : w[i] = v[i]
    BY <1>1
  <2>2. Len(v) \in Nat
    OBVIOUS
  <2> HIDE DEF w
  <2>3. Extends(w, v, c)
    BY <1>3, <2>1, <2>2 DEF Extends
  <2> QED
    BY <1>3, <2>3 DEF w
<1> QED
  BY <1>2, <1>3

\* So the escape of a beginning is a beginning of the escape.
LEMMA EscapesGrow ==
  ASSUME NEW s \in Strings, NEW f, \A n \in 0..Len(s) : f[n] = EscapeFrom(s, f, n)
  PROVE  /\ f[0] = <<>>
         /\ \A n \in 0..Len(s) : f[n] \in Seq(Escaped)
         /\ \A n \in 1..Len(s) : Extends(f[n], f[n - 1], s[n])
<1>0. Len(s) \in Nat /\ 0 \in 0..Len(s)
  BY StringFacts
<1>1. f[0] = <<>>
  BY <1>0 DEF EscapeFrom
<1>2. ASSUME NEW n \in 1..Len(s), f[n - 1] \in Seq(Escaped)
      PROVE  Extends(f[n], f[n - 1], s[n])
  <2>1. n \in 0..Len(s) /\ n # 0 /\ s[n] \in Chars
    BY <1>0, StringFacts
  <2>2. f[n] = f[n - 1] \o (IF s[n] \in Wild THEN <<"\\">> ELSE <<>>) \o <<s[n]>>
    BY <2>1 DEF EscapeFrom
  <2> QED
    BY <1>2, <2>1, <2>2, EscapesExtend
<1>3. \A n \in 0..Len(s) : f[n] \in Seq(Escaped)
  <2> DEFINE G == {n \in Nat : n <= Len(s) => f[n] \in Seq(Escaped)}
  <2>1. ASSUME NEW k \in Nat, \A m \in Nat : m < k => m \in G PROVE k \in G
    <3>1. CASE k = 0
      <4>1. <<>> \in Seq(Escaped)
        OBVIOUS
      <4> QED
        BY <3>1, <4>1, <1>1
    <3>2. CASE k > 0 /\ k <= Len(s)
      <4>1. k - 1 \in Nat /\ k - 1 < k /\ k - 1 <= Len(s) /\ k \in 1..Len(s)
        BY <3>2, <1>0
      <4>2. f[k - 1] \in Seq(Escaped)
        BY <4>1, <2>1
      <4> QED
        BY <4>1, <4>2, <1>2 DEF Extends
    <3> QED
      BY <3>1, <3>2
  <2>2. G \in SUBSET Nat
    OBVIOUS
  <2> HIDE DEF G
  <2>3. G = Nat
    BY <2>1, <2>2, Induction
  <2> QED
    BY <2>3, <1>0 DEF G
<1>4. \A n \in 1..Len(s) : Extends(f[n], f[n - 1], s[n])
  BY <1>0, <1>2, <1>3
<1> QED
  BY <1>1, <1>3, <1>4

LEMMA EscapesBegin ==
  ASSUME NEW s \in Strings, NEW f,
         \A n \in 0..Len(s) : f[n] \in Seq(Escaped),
         \A n \in 1..Len(s) : Extends(f[n], f[n - 1], s[n]),
         NEW k \in 0..Len(s), NEW m \in k..Len(s)
  PROVE  Len(f[k]) <= Len(f[m]) /\ \A i \in 1..Len(f[k]) : f[m][i] = f[k][i]
<1>0. Len(s) \in Nat
  BY StringFacts
<1> DEFINE Begins(n) == Len(f[k]) <= Len(f[n]) /\ \A i \in 1..Len(f[k]) : f[n][i] = f[k][i]
           G == {n \in Nat : n \in k..Len(s) => Begins(n)}
<1>1. ASSUME NEW n \in Nat, \A l \in Nat : l < n => l \in G PROVE n \in G
  <2>1. CASE n = k
    <3>1. Len(f[k]) \in Nat
      OBVIOUS
    <3> QED
      BY <2>1, <3>1
  <2>2. CASE n > k /\ n <= Len(s)
    <3>1. n - 1 \in Nat /\ n - 1 < n /\ n - 1 \in k..Len(s) /\ n \in 1..Len(s) /\ n - 1 \in 0..Len(s)
      BY <2>2, <1>0
    <3>2. Begins(n - 1)
      BY <3>1, <1>1
    <3>3. Extends(f[n], f[n - 1], s[n])
      BY <3>1
    <3>4. Len(f[k]) \in Nat /\ Len(f[n - 1]) \in Nat /\ Len(f[n]) \in Nat
      <4>1. n \in 0..Len(s)
        BY <3>1, <1>0
      <4> QED
        BY <4>1, <3>1
    <3> DEFINE v == f[n - 1]
               w == f[n]
               z == f[k]
    <3>5. /\ Len(z) \in Nat /\ Len(v) \in Nat /\ Len(w) \in Nat
          /\ Len(w) > Len(v) /\ Len(z) <= Len(v)
          /\ \A i \in 1..Len(v) : w[i] = v[i]
          /\ \A i \in 1..Len(z) : v[i] = z[i]
      BY <3>2, <3>3, <3>4 DEF Extends
    <3> HIDE DEF v, w, z
    <3>6. Len(z) <= Len(w) /\ \A i \in 1..Len(z) : w[i] = z[i]
      BY <3>5
    <3> QED
      BY <3>6 DEF v, w, z
  <2> HIDE DEF Begins
  <2> QED
    BY <2>1, <2>2
<1>2. G \in SUBSET Nat
  OBVIOUS
<1> HIDE DEF G
<1>3. G = Nat
  BY <1>1, <1>2, Induction
<1>4. m \in Nat /\ m \in G
  BY <1>3, <1>0
<1> HIDE DEF Begins
<1>5. Begins(m)
  BY <1>4 DEF G
<1> QED
  BY <1>5 DEF Begins

\* Subtree's pattern spells out the name it is made from.
LEMMA SubtreesSpell ==
  ASSUME NEW s \in Strings
  PROVE  \E pos : Spells(Subtree(s), s, pos)
<1> DEFINE n == Len(s)
<1>1. PICK f : LikeEscape(s) = f[n] /\ \A k \in 0..n : f[k] = EscapeFrom(s, f, k)
  BY EscapesAreBuilt
<1>2. n \in Nat
  BY StringFacts
<1>3. /\ f[0] = <<>>
      /\ \A k \in 0..n : f[k] \in Seq(Escaped)
      /\ \A k \in 1..n : Extends(f[k], f[k - 1], s[k])
  BY <1>1, EscapesGrow
<1>4. \A k \in 0..n : \A m \in k..n :
        Len(f[k]) <= Len(f[m]) /\ \A i \in 1..Len(f[k]) : f[m][i] = f[k][i]
  BY <1>3, EscapesBegin
<1> DEFINE q == Subtree(s)
           w == f[n]
           pos == [k \in 0..n |-> Len(f[k])]
<1>5. w \in Seq(Escaped) /\ q = w \o <<"/", "%">>
  <2>1. n \in 0..n
    BY <1>2
  <2> QED
    BY <1>1, <1>3, <2>1 DEF Subtree
<1>6. /\ Len(q) = Len(w) + 2 /\ q[Len(w) + 1] = "/" /\ q[Len(w) + 2] = "%"
      /\ \A i \in 1..Len(w) : q[i] = w[i]
  <2> HIDE DEF q, w
  <2>1. w \in Seq(Escaped \cup {"/", "%"})
    BY <1>5
  <2> QED
    BY <1>5, <2>1
<1> HIDE DEF q
<1>7. \A k \in 0..n : /\ pos[k] = Len(f[k]) /\ Len(f[k]) \in Nat /\ Len(f[k]) <= Len(w)
                      /\ \A i \in 1..Len(f[k]) : q[i] = f[k][i]
  <2> SUFFICES ASSUME NEW k \in 0..n
               PROVE  /\ pos[k] = Len(f[k]) /\ Len(f[k]) \in Nat /\ Len(f[k]) <= Len(w)
                      /\ \A i \in 1..Len(f[k]) : q[i] = f[k][i]
    OBVIOUS
  <2>1. n \in k..n /\ n \in 0..n
    BY <1>2
  <2>2. Len(f[k]) <= Len(w) /\ \A i \in 1..Len(f[k]) : w[i] = f[k][i]
    BY <2>1, <1>4
  <2>3. Len(f[k]) \in Nat /\ Len(w) \in Nat
    BY <2>1, <1>3
  <2> DEFINE v == f[k]
  <2>4. pos[k] = Len(v)
    OBVIOUS
  <2>5. /\ Len(v) <= Len(w) /\ Len(v) \in Nat /\ Len(w) \in Nat
        /\ \A i \in 1..Len(v) : w[i] = v[i]
    BY <2>2, <2>3
  <2> HIDE DEF v, w, pos
  <2>6. \A i \in 1..Len(v) : q[i] = v[i]
    BY <2>5, <1>6
  <2> QED
    BY <2>4, <2>5, <2>6 DEF v
<1>8. pos \in [0..n -> Nat] /\ 0 \in 0..n /\ n \in 0..n
  BY <1>2, <1>7
<1>9. pos[0] = 0 /\ pos[n] = Len(w)
  BY <1>3, <1>7, <1>8
<1> HIDE DEF pos
<1>10. ASSUME NEW k \in 1..n
       PROVE  /\ q[pos[k]] = s[k]
              /\ \/ s[k] \in Wild /\ pos[k] = pos[k - 1] + 2 /\ q[pos[k] - 1] = "\\"
                 \/ s[k] \notin Wild /\ pos[k] = pos[k - 1] + 1
  <2>1. k \in 0..n /\ k - 1 \in 0..n
    BY <1>2
  <2> DEFINE v == f[k]
             z == f[k - 1]
  <2>2. Extends(v, z, s[k])
    BY <1>3
  <2>3. /\ pos[k] = Len(v) /\ pos[k - 1] = Len(z) /\ Len(v) \in Nat /\ Len(z) \in Nat
        /\ \A i \in 1..Len(v) : q[i] = v[i]
    BY <2>1, <1>7
  <2> HIDE DEF v, z
  <2>4. Len(v) > Len(z)
    BY <2>2 DEF Extends
  <2>5. q[Len(v)] = v[Len(v)]
    <3>1. Len(v) \in 1..Len(v)
      BY <2>3, <2>4
    <3> QED
      BY <3>1, <2>3
  <2>6. Len(v) = Len(z) + 2 => q[Len(v) - 1] = v[Len(v) - 1]
    <3>1. Len(v) = Len(z) + 2 => Len(v) - 1 \in 1..Len(v)
      BY <2>3
    <3> QED
      BY <3>1, <2>3
  <2> QED
    BY <2>2, <2>3, <2>5, <2>6 DEF Extends
<1> HIDE DEF w
<1>11. \A k \in 0..n : pos[k] <= pos[n]
  BY <1>7, <1>9
<1>12. Len(q) = pos[n] + 2 /\ q[pos[n] + 1] = "/" /\ q[pos[n] + 2] = "%"
  BY <1>6, <1>9
<1>13. Spells(q, s, pos)
  BY <1>8, <1>9, <1>10, <1>11, <1>12 DEF Spells
<1> QED
  BY <1>13 DEF q

\* ListsTheSubtree, for every string: list answers the project it is asked about and
\* its descendants, whatever metacharacters the two names contain and however they
\* are spelled (sql.rs, subtree and like_escape).
THEOREM ListsAreSubtrees ==
  ASSUME name \in Strings
  PROVE  ListsTheSubtree
<1> SUFFICES ASSUME NEW under \in Unders
             PROVE  Listed(name, under) <=> \E a \in Above(name) : SameKey(a, under)
  BY DEF ListsTheSubtree
<1>1. under \in Strings
  BY TypingAssumption DEF Strings
<1> DEFINE n == Len(under)
<1>2. PICK pos : Spells(Subtree(under), under, pos)
  BY <1>1, SubtreesSpell
<1>3. Like(name, Subtree(under)) <=>
        /\ Len(name) > n
        /\ \A k \in 1..n : Lower[name[k]] = Lower[under[k]]
        /\ name[n + 1] = "/"
  BY <1>1, <1>2, PatternsMatchBeneath
<1>4. /\ Len(name) \in Nat /\ n \in Nat
      /\ Slashes(name) = {i \in 1..Len(name) : name[i] = "/"}
  BY <1>1, StringFacts
<1>5. ASSUME NEW k \in 0..Len(name)
      PROVE  SameKey(SubSeq(name, 1, k), under) <=>
               k = n /\ \A i \in 1..k : Lower[name[i]] = Lower[under[i]]
  <2> DEFINE a == SubSeq(name, 1, k)
  <2>1. a \in Strings /\ Len(a) = k /\ \A i \in 1..k : a[i] = name[i]
    BY PrefixFacts
  <2> HIDE DEF a
  <2>2. SameKey(a, under) <=> k = n /\ \A i \in 1..k : Lower[a[i]] = Lower[under[i]]
    BY <1>1, <2>1, KeyFacts
  <2>3. (\A i \in 1..k : Lower[a[i]] = Lower[under[i]])
          <=> (\A i \in 1..k : Lower[name[i]] = Lower[under[i]])
    BY <2>1
  <2> QED
    BY <2>2, <2>3 DEF a
<1> HIDE DEF n
<1>6. ASSUME SameKey(name, under) PROVE \E a \in Above(name) : SameKey(a, under)
  BY <1>6 DEF Above
<1>7. ASSUME Like(name, Subtree(under)) PROVE \E a \in Above(name) : SameKey(a, under)
  <2>1. n \in 0..Len(name) /\ n + 1 \in Slashes(name)
    BY <1>3, <1>4, <1>7
  <2>2. SameKey(SubSeq(name, 1, n), under)
    BY <1>3, <1>5, <1>7, <2>1
  <2>3. SubSeq(name, 1, n) \in Above(name)
    BY <2>1, AboveFacts
  <2> QED
    BY <2>2, <2>3
<1>8. ASSUME NEW a \in Above(name), SameKey(a, under) PROVE Listed(name, under)
  <2>1. PICK k \in 0..Len(name) :
          a = SubSeq(name, 1, k) /\ (k = Len(name) \/ k + 1 \in Slashes(name))
    BY AboveFacts
  <2>2. CASE k = Len(name)
    <3>1. a = name
      BY <2>1, <2>2 DEF Strings
    <3> QED
      BY <1>8, <3>1 DEF Listed
  <2>3. CASE k + 1 \in Slashes(name)
    <3>1. k = n /\ \A i \in 1..k : Lower[name[i]] = Lower[under[i]]
      BY <1>5, <1>8, <2>1
    <3>2. Like(name, Subtree(under))
      BY <1>3, <1>4, <2>3, <3>1
    <3> QED
      BY <3>2 DEF Listed
  <2> QED
    BY <2>1, <2>2, <2>3
<1> QED
  BY <1>6, <1>7, <1>8 DEF Listed

(***************************************************************************)
(*                             ResolveProject                               *)
(***************************************************************************)
LEMMA ChainFacts ==
  ASSUME NEW c \in Strings
  PROVE  Chain(c) = {a \in Above(c) : ~IsReservedRoot(a)}
BY AncestorFacts DEF Chain, Members

\* Spellings of a string have spellings of the same strings above them.
LEMMA AboveSpellings ==
  ASSUME NEW s \in Strings, NEW t \in Strings, SameKey(s, t), NEW a \in Above(s)
  PROVE  \E b \in Above(t) : SameKey(a, b)
<1>1. PICK k \in 0..Len(s) : a = SubSeq(s, 1, k) /\ (k = Len(s) \/ k + 1 \in Slashes(s))
  BY AboveFacts
<1>2. Len(s) = Len(t) /\ Slashes(s) = Slashes(t)
  BY KeyFacts, KeysHaveTheSameSlashes
<1>3. SubSeq(t, 1, k) \in Above(t)
  BY <1>1, <1>2, AboveFacts
<1>4. SameKey(a, SubSeq(t, 1, k))
  BY <1>1, KeysHaveTheSamePrefixes
<1> QED
  BY <1>3, <1>4

LEMMA ChainSpellings ==
  ASSUME NEW s \in Strings, NEW t \in Strings, SameKey(s, t), NEW a \in Chain(s)
  PROVE  \E b \in Chain(t) : SameKey(a, b)
<1>1. a \in Above(s) /\ ~IsReservedRoot(a)
  BY ChainFacts
<1>2. PICK b \in Above(t) : SameKey(a, b)
  BY <1>1, AboveSpellings
<1>3. ~IsReservedRoot(b)
  BY <1>1, <1>2 DEF IsReservedRoot, SameKey
<1> QED
  BY <1>2, <1>3, ChainFacts

\* A former path leads to a live one, in the same account.
FormerPathsLead == \A f \in former : \E r \in rows : r.path = f.path

FormerPathsStayHome ==
  \A f \in former, u \in Users :
    IsUnderOwnRoot(Fold(f.alias), Account[u]) => IsUnderOwnRoot(Fold(f.path), Account[u])

\* The last answer is the one the store as it is gives.
AnswerIsCurrent == answer = None \/ \E c \in Asked : answer = AnswerTo(c)

IInv == TypeOK /\ FormerPathsLead /\ FormerPathsStayHome /\ AnswerIsCurrent

\* What one found row says: the project of a name of the chain.
LEMMA FoundFacts ==
  ASSUME TypeOK, NEW c \in Strings, NEW x \in AncestorRows(Chain(c))
  PROVE  /\ x.matched \in Strings /\ x.row \in rows /\ x.via_alias \in {0, 1}
         /\ Len(x.matched) \in 0..Len(c)
         /\ \E a \in Chain(c) : SameKey(x.matched, a)
         /\ \/ x.via_alias = 0 /\ x.row.path = x.matched
            \/ \E f \in former : f.alias = x.matched /\ f.path = x.row.path
<1>1. /\ \A r \in rows : r.path \in Strings
      /\ \A f \in former : f.alias \in Strings /\ f.path \in Strings
  BY DEF TypeOK, Strings
<1>2. /\ x.matched \in Strings /\ x.row \in rows /\ x.via_alias \in {0, 1}
      /\ \E a \in Chain(c) : SameKey(x.matched, a)
      /\ \/ x.via_alias = 0 /\ x.row.path = x.matched
         \/ \E f \in former : f.alias = x.matched /\ f.path = x.row.path
  <2>1. CASE \E r \in rows : /\ x = [matched |-> r.path, row |-> r, via_alias |-> 0]
                             /\ \E a \in Chain(c) : SameKey(r.path, a)
    BY <2>1, <1>1
  <2>2. CASE \E f \in former, r \in rows :
               /\ x = [matched |-> f.alias, row |-> r, via_alias |-> 1]
               /\ r.path = f.path /\ \E a \in Chain(c) : SameKey(f.alias, a)
    BY <2>2, <1>1
  <2> QED
    BY <2>1, <2>2 DEF AncestorRows
<1>3. PICK a \in Chain(c) : SameKey(x.matched, a)
  BY <1>2
<1>4. a \in Strings /\ Len(a) \in 0..Len(c)
  BY ChainFacts, AboveIsShorter
<1>5. Len(x.matched) = Len(a)
  BY <1>2, <1>3, <1>4, KeyFacts
<1> QED
  BY <1>2, <1>4, <1>5

\* Every name of the chain that is taken is found.
LEMMA TakenIsFound ==
  ASSUME FormerPathsLead, NEW c, NEW a \in Chain(c), Taken(a)
  PROVE  \E x \in AncestorRows(Chain(c)) : SameKey(x.matched, a)
<1>1. CASE \E r \in rows : SameKey(r.path, a)
  <2>1. PICK r \in rows : SameKey(r.path, a)
    BY <1>1
  <2> DEFINE x == [matched |-> r.path, row |-> r, via_alias |-> 0]
  <2>2. x \in AncestorRows(Chain(c))
    BY <2>1 DEF AncestorRows
  <2>3. SameKey(x.matched, a)
    BY <2>1
  <2> QED
    BY <2>2, <2>3
<1>2. CASE \E f \in former : SameKey(f.alias, a)
  <2>1. PICK f \in former : SameKey(f.alias, a)
    BY <1>2
  <2>2. PICK r \in rows : r.path = f.path
    BY DEF FormerPathsLead
  <2> DEFINE x == [matched |-> f.alias, row |-> r, via_alias |-> 1]
             p == <<f, r>>
  <2>3. p \in {q \in former \X rows : q[2].path = q[1].path /\
                 \E b \in Chain(c) : SameKey(q[1].alias, b)}
    BY <2>1, <2>2
  <2>4. x = [matched |-> p[1].alias, row |-> p[2], via_alias |-> 1]
    OBVIOUS
  <2> HIDE DEF p
  <2>5. x \in AncestorRows(Chain(c))
    BY <2>3, <2>4 DEF AncestorRows
  <2>6. SameKey(x.matched, a)
    BY <2>1
  <2> QED
    BY <2>5, <2>6
<1> QED
  BY <1>1, <1>2 DEF Taken

\* max_by_key has something to choose: the lengths are bounded.
LEMMA BestFacts ==
  ASSUME TypeOK, NEW c \in Strings, AncestorRows(Chain(c)) # {}
  PROVE  LET found == AncestorRows(Chain(c)) IN
         Best(found) \in found /\ \A y \in found : Len(y.matched) <= Len(Best(found).matched)
<1> DEFINE found == AncestorRows(Chain(c))
           Weight(x) == 2 * (Len(c) - Len(x.matched)) + x.via_alias
           weights == {Weight(x) : x \in found}
           Precedes(x, y) == \/ Len(y.matched) < Len(x.matched)
                             \/ Len(y.matched) = Len(x.matched) /\ y.via_alias >= x.via_alias
<1>1. Len(c) \in Nat
  BY StringFacts
<1>2. \A x \in found : Len(x.matched) \in 0..Len(c) /\ x.via_alias \in {0, 1}
  BY FoundFacts
<1>3. found # {}
  OBVIOUS
<1> HIDE DEF found
<1>4. weights \in SUBSET Nat /\ weights # {}
  BY <1>1, <1>2, <1>3
<1>5. PICK w \in weights : \A v \in weights : w <= v
  <2> HIDE DEF weights
  <2> QED
    BY <1>4, LeastNumber
<1>6. PICK x \in found : w = Weight(x)
  OBVIOUS
<1>7. ASSUME NEW y \in found PROVE Precedes(x, y)
  <2>1. Weight(x) <= Weight(y)
    BY <1>5, <1>6
  <2>2. /\ Len(x.matched) \in 0..Len(c) /\ x.via_alias \in {0, 1}
        /\ Len(y.matched) \in 0..Len(c) /\ y.via_alias \in {0, 1}
    BY <1>2
  <2> QED
    BY <2>1, <2>2, <1>1
<1>8. \E z \in found : \A y \in found : Precedes(z, y)
  BY <1>7
<1>9. Best(found) \in found /\ \A y \in found : Precedes(Best(found), y)
  BY <1>8 DEF Best
<1>10. ASSUME NEW y \in found PROVE Len(y.matched) <= Len(Best(found).matched)
  <2>1. Len(y.matched) \in Nat /\ Len(Best(found).matched) \in Nat
    BY <1>1, <1>2, <1>9
  <2>2. Precedes(Best(found), y)
    BY <1>9
  <2> QED
    BY <2>1, <2>2
<1> QED
  BY <1>9, <1>10 DEF found

\* What each answer says.
LEMMA AnswerFacts ==
  ASSUME NEW c
  PROVE  LET found == AncestorRows(Chain(c)) IN
         /\ AnswerTo(c).says \in {"invalid_argument", "internal", "not_found", "ok"}
         /\ AnswerTo(c).asked = c
         /\ AnswerTo(c).says = "not_found" => ~Refused(c) /\ found = {}
         /\ AnswerTo(c).says = "ok" =>
              /\ ~Refused(c) /\ found # {}
              /\ AnswerTo(c).row = Best(found).row
              /\ AnswerTo(c).exact = Exact(Best(found), c)
<1> DEFINE found == AncestorRows(Chain(c))
<1> HIDE DEF found
<1>1. AnswerTo(c) =
        IF Refused(c) THEN [says |-> "invalid_argument", asked |-> c]
        ELSE IF Chain(c) = {} THEN [says |-> "internal", asked |-> c]
        ELSE IF found = {} THEN [says |-> "not_found", asked |-> c]
        ELSE [says |-> "ok", asked |-> c, row |-> Best(found).row, exact |-> Exact(Best(found), c),
              via_alias |-> Exact(Best(found), c) /\ Best(found).via_alias = 1]
  BY DEF AnswerTo, found
<1> QED
  BY <1>1 DEF found

LEMMA AnswersStandWithTheStore ==
  ASSUME UNCHANGED <<rows, former>>, NEW c
  PROVE  AnswerTo(c)' = AnswerTo(c)
BY DEF AnswerTo, AncestorRows, Best, Exact

LEMMA InitKeepsIInv == Init => IInv
<1> SUFFICES ASSUME Init PROVE IInv
  OBVIOUS
<1>1. PICK s \in Legacy : rows = s.rows /\ former = s.former
  BY DEF Init
<1>2. answer = None
  BY DEF Init
<1>3. TypeOK
  BY <1>1, <1>2, ResolveAssumption DEF TypeOK, None
<1>4. FormerPathsLead /\ FormerPathsStayHome
  BY <1>1, ResolveAssumption DEF FormerPathsLead, FormerPathsStayHome
<1> QED
  BY <1>2, <1>3, <1>4 DEF IInv, AnswerIsCurrent

LEMMA RegisterKeepsIInv ==
  ASSUME IInv, NEW u \in Users, NEW p \in Names, Register(u, p)
  PROVE  IInv'
<1> DEFINE new == [path |-> p, status |-> "active"]
<1>1. /\ ~Taken(p) /\ rows' = rows \cup {new} /\ answer' = None /\ former' = former
  BY DEF Register
<1>2. p \in Seq(Chars)
  BY ResolveAssumption
<1>3. /\ rows \subseteq [path : Seq(Chars), status : {"active", "archived"}]
      /\ former \subseteq [alias : Seq(Chars), path : Seq(Chars)]
      /\ \A r, q \in rows : SameKey(r.path, q.path) => r = q
      /\ \A f \in former, r \in rows : ~SameKey(f.alias, r.path)
  BY DEF IInv, TypeOK
<1>4. new \in [path : Seq(Chars), status : {"active", "archived"}] /\ new.path = p
  BY <1>2
<1> HIDE DEF new
<1>5. \A r \in rows : ~SameKey(r.path, new.path) /\ ~SameKey(new.path, r.path)
  BY <1>1, <1>4, SameKeyIsAnEquivalence DEF Taken
<1>6. \A f \in former : ~SameKey(f.alias, new.path)
  BY <1>1, <1>4 DEF Taken
<1>7. \A r, q \in rows' : SameKey(r.path, q.path) => r = q
  BY <1>1, <1>3, <1>5
<1>8. \A f \in former', r \in rows' : ~SameKey(f.alias, r.path)
  BY <1>1, <1>3, <1>6
<1>9. TypeOK'
  BY <1>1, <1>3, <1>4, <1>7, <1>8 DEF TypeOK, None
<1>10. FormerPathsLead' /\ FormerPathsStayHome'
  BY <1>1 DEF IInv, FormerPathsLead, FormerPathsStayHome
<1> QED
  BY <1>1, <1>9, <1>10 DEF IInv, AnswerIsCurrent, None

\* A declaration takes no key that a private row or a former path has.
LEMMA SyncKeepsIInv ==
  ASSUME IInv, NEW D \in SUBSET {p \in Names : SyncAdmits(p)}, Sync(D)
  PROVE  IInv'
<1> DEFINE org == {r \in rows : ~IsPrivateClass(r.path)}
           Kept(r) == \E p \in D : SameKey(p, r.path)
           fresh == {p \in D : ~\E r \in org : SameKey(p, r.path)}
           Settled(r) == [r EXCEPT !.status = IF Kept(r) THEN "active" ELSE "archived"]
           new == {[path |-> p, status |-> "active"] : p \in fresh}
           T == [path : Seq(Chars), status : {"active", "archived"}]
<1>1. /\ IsDeclaration(D) /\ \A f \in former : \A p \in D : ~SameKey(p, f.alias)
      /\ rows' = (rows \ org) \cup {Settled(r) : r \in org} \cup new
      /\ answer' = None /\ former' = former
  BY DEF Sync
<1>2. D \subseteq Seq(Chars) /\ \A p \in D : ~IsPrivateClass(p)
  BY ResolveAssumption DEF SyncAdmits
<1>3. /\ rows \subseteq T
      /\ former \subseteq [alias : Seq(Chars), path : Seq(Chars)]
      /\ \A r, q \in rows : SameKey(r.path, q.path) => r = q
      /\ \A f \in former, r \in rows : ~SameKey(f.alias, r.path)
  BY DEF IInv, TypeOK
<1>4. \A r \in rows : Settled(r) \in T /\ Settled(r).path = r.path
  BY <1>3
<1>5. \A q \in new : q \in T /\ q.path \in fresh /\ q = [path |-> q.path, status |-> "active"]
  BY <1>2
<1>6. fresh \subseteq D
  OBVIOUS
<1>7. \A p \in fresh : \A r \in rows : ~SameKey(p, r.path)
  <2> SUFFICES ASSUME NEW p \in fresh, NEW r \in rows, SameKey(p, r.path) PROVE FALSE
    OBVIOUS
  <2>1. p \in Strings /\ r.path \in Strings /\ ~IsPrivateClass(p)
    BY <1>2, <1>3, <1>6 DEF Strings
  <2>2. r \in org
    BY <2>1, KeysHaveOneClass
  <2> QED
    BY <2>2
\* Every row of the new store has its key from an old row, or from a fresh path.
<1>8. \A r \in rows' : /\ r \in T
                       /\ \/ \E o \in rows : /\ r.path = o.path
                                             /\ r = (IF o \in org THEN Settled(o) ELSE o)
                          \/ r.path \in fresh /\ r = [path |-> r.path, status |-> "active"]
  <2> SUFFICES ASSUME NEW r \in rows'
               PROVE  /\ r \in T
                      /\ \/ \E o \in rows : /\ r.path = o.path
                                            /\ r = (IF o \in org THEN Settled(o) ELSE o)
                         \/ r.path \in fresh /\ r = [path |-> r.path, status |-> "active"]
    OBVIOUS
  <2>1. CASE r \in rows \ org
    BY <2>1, <1>3
  <2>2. CASE r \in {Settled(o) : o \in org}
    <3>1. PICK o \in org : r = Settled(o)
      BY <2>2
    <3>2. o \in rows
      OBVIOUS
    <3> HIDE DEF org, Settled
    <3> QED
      BY <3>1, <3>2, <1>4
  <2>3. CASE r \in new
    BY <2>3, <1>5
  <2> HIDE DEF org, Settled, new
  <2> QED
    BY <2>1, <2>2, <2>3, <1>1
<1> HIDE DEF org, Declared, fresh, Settled, new, T
<1>9. \A r, q \in rows' : SameKey(r.path, q.path) => r = q
  <2> SUFFICES ASSUME NEW r \in rows', NEW q \in rows', SameKey(r.path, q.path) PROVE r = q
    OBVIOUS
  <2>1. SameKey(q.path, r.path)
    BY SameKeyIsAnEquivalence
  <2>2. CASE (\E o \in rows : r.path = o.path /\ r = (IF o \in org THEN Settled(o) ELSE o))
              /\ (\E o \in rows : q.path = o.path /\ q = (IF o \in org THEN Settled(o) ELSE o))
    BY <2>2, <1>3
  <2>3. CASE r.path \in fresh /\ r = [path |-> r.path, status |-> "active"]
    <3>1. ~\E o \in rows : q.path = o.path
      BY <2>3, <1>7
    <3>2. q.path \in fresh /\ q = [path |-> q.path, status |-> "active"]
      BY <3>1, <1>8
    <3>3. r.path = q.path
      BY <2>3, <3>2, <1>1, <1>6 DEF IsDeclaration
    <3> QED
      BY <2>3, <3>2, <3>3
  <2>4. CASE q.path \in fresh /\ q = [path |-> q.path, status |-> "active"]
    <3>1. ~\E o \in rows : r.path = o.path
      BY <2>1, <2>4, <1>7
    <3>2. r.path \in fresh /\ r = [path |-> r.path, status |-> "active"]
      BY <3>1, <1>8
    <3>3. r.path = q.path
      BY <2>4, <3>2, <1>1, <1>6 DEF IsDeclaration
    <3> QED
      BY <2>4, <3>2, <3>3
  <2> QED
    BY <2>2, <2>3, <2>4, <1>8
<1>10. \A f \in former', r \in rows' : ~SameKey(f.alias, r.path)
  <2> SUFFICES ASSUME NEW f \in former, NEW r \in rows' PROVE ~SameKey(f.alias, r.path)
    BY <1>1
  <2>1. CASE \E o \in rows : r.path = o.path
    BY <2>1, <1>3
  <2>2. CASE r.path \in fresh
    BY <2>2, <1>1, <1>6, SameKeyIsAnEquivalence
  <2> QED
    BY <2>1, <2>2, <1>8
<1>11. TypeOK'
  BY <1>1, <1>3, <1>8, <1>9, <1>10 DEF TypeOK, None, T
<1>12. \A o \in rows : \E r \in rows' : r.path = o.path
  <2> SUFFICES ASSUME NEW o \in rows PROVE \E r \in rows' : r.path = o.path
    OBVIOUS
  <2>1. CASE o \in org
    BY <2>1, <1>1, <1>4
  <2>2. CASE o \notin org
    BY <2>2, <1>1
  <2> QED
    BY <2>1, <2>2
<1>13. FormerPathsLead' /\ FormerPathsStayHome'
  BY <1>1, <1>12 DEF IInv, FormerPathsLead, FormerPathsStayHome
<1> QED
  BY <1>1, <1>11, <1>13 DEF IInv, AnswerIsCurrent, None

LEMMA ResolveKeepsIInv ==
  ASSUME IInv, NEW c \in Asked, Resolve(c)
  PROVE  IInv'
<1>1. answer' = AnswerTo(c) /\ rows' = rows /\ former' = former
  BY DEF Resolve
<1>2. answer'.says \in {"nothing", "invalid_argument", "internal", "not_found", "ok"}
  BY <1>1, AnswerFacts
<1>3. TypeOK'
  BY <1>1, <1>2 DEF IInv, TypeOK
<1>4. FormerPathsLead' /\ FormerPathsStayHome'
  BY <1>1 DEF IInv, FormerPathsLead, FormerPathsStayHome
<1>5. AnswerTo(c)' = AnswerTo(c)
  BY <1>1, AnswersStandWithTheStore
<1>6. answer' = AnswerTo(c)'
  BY <1>1, <1>5
<1>7. AnswerIsCurrent'
  BY <1>6 DEF AnswerIsCurrent
<1> QED
  BY <1>3, <1>4, <1>7 DEF IInv

LEMMA StutterKeepsIInv == IInv /\ UNCHANGED vars => IInv'
<1> SUFFICES ASSUME IInv, UNCHANGED vars PROVE IInv'
  OBVIOUS
<1>1. rows' = rows /\ former' = former /\ answer' = answer
  BY DEF vars
<1>2. TypeOK' /\ FormerPathsLead' /\ FormerPathsStayHome'
  BY <1>1 DEF IInv, TypeOK, FormerPathsLead, FormerPathsStayHome
<1>3. ASSUME NEW c \in Asked, answer = AnswerTo(c) PROVE AnswerIsCurrent'
  <2>1. AnswerTo(c)' = AnswerTo(c)
    BY <1>1, AnswersStandWithTheStore
  <2>2. answer' = AnswerTo(c)'
    BY <1>1, <1>3, <2>1
  <2> QED
    BY <2>2 DEF AnswerIsCurrent
<1>4. answer = None => AnswerIsCurrent'
  BY <1>1 DEF AnswerIsCurrent, None
<1> QED
  BY <1>2, <1>3, <1>4 DEF IInv, AnswerIsCurrent

LEMMA Invariance == Spec => []IInv
<1>1. ASSUME IInv, [Next]_vars PROVE IInv'
  <2>1. ASSUME Next PROVE IInv'
    BY <1>1, <2>1, RegisterKeepsIInv, SyncKeepsIInv, ResolveKeepsIInv DEF Next
  <2> QED
    BY <1>1, <2>1, StutterKeepsIInv
<1> QED
  BY <1>1, InitKeepsIInv, PTL DEF Spec

\* Spellings of one string are asked about the same rows.
LEMMA AnswersOfSpellings ==
  ASSUME NEW s \in Strings, NEW t \in Strings, SameKey(s, t)
  PROVE  AnswerTo(t) = [AnswerTo(s) EXCEPT !.asked = t]
<1>1. SameKey(t, s)
  BY SameKeyIsAnEquivalence
<1>2. Refused(s) <=> Refused(t)
  <2>1. IsPath(s) <=> IsPath(t)
    BY <1>1, PathSpellings
  <2>2. IsReservedRoot(s) <=> IsReservedRoot(t)
    BY DEF IsReservedRoot, SameKey
  <2> QED
    BY <2>1, <2>2 DEF Refused
<1>3. Chain(s) = {} <=> Chain(t) = {}
  BY <1>1, ChainSpellings
<1>4. \A p : (\E a \in Chain(s) : SameKey(p, a)) <=> (\E a \in Chain(t) : SameKey(p, a))
  <2> SUFFICES ASSUME NEW p
               PROVE  (\E a \in Chain(s) : SameKey(p, a)) <=> (\E a \in Chain(t) : SameKey(p, a))
    OBVIOUS
  <2>1. ASSUME NEW a \in Chain(s), SameKey(p, a) PROVE \E b \in Chain(t) : SameKey(p, b)
    BY <2>1, ChainSpellings, SameKeyIsAnEquivalence
  <2>2. ASSUME NEW a \in Chain(t), SameKey(p, a) PROVE \E b \in Chain(s) : SameKey(p, b)
    BY <2>2, <1>1, ChainSpellings, SameKeyIsAnEquivalence
  <2> QED
    BY <2>1, <2>2
<1>5. AncestorRows(Chain(s)) = AncestorRows(Chain(t))
  <2> DEFINE InS(p) == \E a \in Chain(s) : SameKey(p, a)
             InT(p) == \E a \in Chain(t) : SameKey(p, a)
  <2>1. \A p : InS(p) <=> InT(p)
    BY <1>4
  <2>2. /\ AncestorRows(Chain(s)) =
             {[matched |-> r.path, row |-> r, via_alias |-> 0] : r \in {q \in rows : InS(q.path)}}
               \cup {[matched |-> p[1].alias, row |-> p[2], via_alias |-> 1] :
                       p \in {q \in former \X rows : q[2].path = q[1].path /\ InS(q[1].alias)}}
        /\ AncestorRows(Chain(t)) =
             {[matched |-> r.path, row |-> r, via_alias |-> 0] : r \in {q \in rows : InT(q.path)}}
               \cup {[matched |-> p[1].alias, row |-> p[2], via_alias |-> 1] :
                       p \in {q \in former \X rows : q[2].path = q[1].path /\ InT(q[1].alias)}}
    BY DEF AncestorRows
  <2> HIDE DEF InS, InT
  <2>3. {q \in rows : InS(q.path)} = {q \in rows : InT(q.path)}
    BY <2>1
  <2>4. {q \in former \X rows : q[2].path = q[1].path /\ InS(q[1].alias)}
          = {q \in former \X rows : q[2].path = q[1].path /\ InT(q[1].alias)}
    BY <2>1
  <2> QED
    BY <2>2, <2>3, <2>4
<1> DEFINE found == AncestorRows(Chain(s))
<1>6. Exact(Best(found), s) <=> Exact(Best(found), t)
  BY DEF Exact, SameKey
<1>7. /\ AnswerTo(s) =
           IF Refused(s) THEN [says |-> "invalid_argument", asked |-> s]
           ELSE IF Chain(s) = {} THEN [says |-> "internal", asked |-> s]
           ELSE IF found = {} THEN [says |-> "not_found", asked |-> s]
           ELSE [says |-> "ok", asked |-> s, row |-> Best(found).row,
                 exact |-> Exact(Best(found), s),
                 via_alias |-> Exact(Best(found), s) /\ Best(found).via_alias = 1]
      /\ AnswerTo(t) =
           IF Refused(t) THEN [says |-> "invalid_argument", asked |-> t]
           ELSE IF Chain(t) = {} THEN [says |-> "internal", asked |-> t]
           ELSE IF found = {} THEN [says |-> "not_found", asked |-> t]
           ELSE [says |-> "ok", asked |-> t, row |-> Best(found).row,
                 exact |-> Exact(Best(found), t),
                 via_alias |-> Exact(Best(found), t) /\ Best(found).via_alias = 1]
  BY <1>5 DEF AnswerTo
<1> DEFINE e == Exact(Best(found), s)
           v == e /\ Best(found).via_alias = 1
           r == Best(found).row
<1>8. e = Exact(Best(found), t) /\ v = (Exact(Best(found), t) /\ Best(found).via_alias = 1)
  <2>1. e = (Fold(Best(found).matched) = Fold(s)) /\ Fold(s) = Fold(t)
    BY DEF Exact, SameKey
  <2> QED
    BY <2>1 DEF Exact, SameKey
<1> HIDE DEF e, v, r, found
<1>9. CASE Refused(s)
  BY <1>2, <1>7, <1>9
<1>10. CASE ~Refused(s) /\ Chain(s) = {}
  BY <1>2, <1>3, <1>7, <1>10
<1>11. CASE ~Refused(s) /\ Chain(s) # {} /\ found = {}
  BY <1>2, <1>3, <1>7, <1>11
<1>12. CASE ~Refused(s) /\ Chain(s) # {} /\ found # {}
  <2>1. AnswerTo(s) = [says |-> "ok", asked |-> s, row |-> r, exact |-> e, via_alias |-> v]
    BY <1>7, <1>12 DEF e, v, r
  <2>2. AnswerTo(t) = [says |-> "ok", asked |-> t, row |-> r, exact |-> e, via_alias |-> v]
    BY <1>2, <1>3, <1>7, <1>8, <1>12 DEF r
  <2> QED
    BY <2>1, <2>2
<1> QED
  BY <1>9, <1>10, <1>11, <1>12

\* The best row found is the project of the longest taken name above the candidate.
LEMMA BestIsNearest ==
  ASSUME IInv, NEW c \in Strings, ~Refused(c), AncestorRows(Chain(c)) # {}
  PROVE  LET best == Best(AncestorRows(Chain(c))) IN
         \E a \in NamesAbove(c) :
           /\ \A b \in NamesAbove(c) : Len(b) <= Len(a)
           /\ SameKey(best.matched, a) /\ a \in Strings
           /\ best.row \in rows
           /\ \/ best.row.path = best.matched
              \/ \E f \in former : f.alias = best.matched /\ f.path = best.row.path
<1> DEFINE found == AncestorRows(Chain(c))
           best == Best(found)
<1>1. TypeOK /\ FormerPathsLead
  BY DEF IInv
<1>2. best \in found /\ \A y \in found : Len(y.matched) <= Len(best.matched)
  BY <1>1, BestFacts
<1>3. /\ best.matched \in Strings /\ best.row \in rows
      /\ \/ best.row.path = best.matched
         \/ \E f \in former : f.alias = best.matched /\ f.path = best.row.path
  BY <1>1, <1>2, FoundFacts
<1>4. PICK a \in Chain(c) : SameKey(best.matched, a)
  BY <1>1, <1>2, FoundFacts
<1>5. \A b : b \in NamesAbove(c) <=> b \in Chain(c) /\ Taken(b)
  BY ChainFacts DEF NamesAbove
<1>6. Taken(a)
  BY <1>3, <1>4 DEF Taken
<1>7. a \in Strings /\ Len(best.matched) = Len(a)
  <2>1. a \in Strings
    BY ChainFacts, AboveIsShorter
  <2> QED
    BY <2>1, <1>3, <1>4, KeyFacts
<1>8. ASSUME NEW b \in NamesAbove(c) PROVE Len(b) <= Len(a)
  <2>1. b \in Chain(c) /\ Taken(b)
    BY <1>5
  <2>2. PICK y \in found : SameKey(y.matched, b)
    BY <1>1, <2>1, TakenIsFound
  <2>3. y.matched \in Strings /\ b \in Strings
    BY <1>1, <2>1, FoundFacts, ChainFacts, AboveIsShorter
  <2>4. Len(y.matched) = Len(b)
    BY <2>2, <2>3, KeyFacts
  <2> QED
    BY <1>2, <1>7, <2>4
<1> HIDE DEF best, found
<1> QED
  BY <1>3, <1>4, <1>5, <1>6, <1>7, <1>8 DEF best, found

LEMMA NothingFoundNothingTaken ==
  ASSUME IInv, NEW c \in Strings, AncestorRows(Chain(c)) = {}
  PROVE  NamesAbove(c) = {}
<1>1. FormerPathsLead
  BY DEF IInv
<1> QED
  BY <1>1, TakenIsFound, ChainFacts DEF NamesAbove

\* TypeOK: the store keeps one project to a key, live or former, under every
\* interleaving of declarations and registrations (schema.rs, uq_project_path).
THEOREM TypeCorrect == Spec => []TypeOK
<1>1. IInv => TypeOK
  BY DEF IInv
<1> QED
  BY <1>1, Invariance, PTL

\* NearestNameWins, for every store, alphabet and candidate (read.rs, resolve).
THEOREM NearestWins == Spec => []NearestNameWins
<1>1. ASSUME IInv PROVE NearestNameWins
  <2> SUFFICES ASSUME NEW c \in Asked, answer = AnswerTo(c), Answered PROVE NearestNameWins
    BY <1>1 DEF NearestNameWins, IInv, AnswerIsCurrent, Answered, None
  <2> DEFINE found == AncestorRows(Chain(c))
             best == Best(found)
  <2>1. c \in Strings
    BY ResolveAssumption DEF Strings
  <2>2. /\ answer.asked = c /\ answer.says \in {"ok", "not_found"}
        /\ answer.says = "not_found" => found = {}
        /\ answer.says = "ok" =>
             ~Refused(c) /\ found # {} /\ answer.row = best.row /\ answer.exact = Exact(best, c)
    BY AnswerFacts DEF Answered
  <2>3. CASE answer.says = "not_found"
    <3>1. NamesAbove(c) = {}
      BY <1>1, <2>1, <2>2, <2>3, NothingFoundNothingTaken
    <3> QED
      BY <2>2, <2>3, <3>1 DEF NearestNameWins
  <2>4. CASE answer.says = "ok"
    <3>1. PICK a \in NamesAbove(c) :
            /\ \A b \in NamesAbove(c) : Len(b) <= Len(a)
            /\ SameKey(best.matched, a)
            /\ \/ best.row.path = best.matched
               \/ \E f \in former : f.alias = best.matched /\ f.path = best.row.path
      BY <1>1, <2>1, <2>2, <2>4, BestIsNearest
    <3>2. answer.exact <=> SameKey(a, answer.asked)
      BY <2>2, <2>4, <3>1 DEF Exact, SameKey
    <3>3. SameKey(answer.row.path, a)
            \/ \E f \in former : SameKey(f.alias, a) /\ f.path = answer.row.path
      BY <2>2, <2>4, <3>1
    <3> HIDE DEF best, found
    <3> QED
      BY <2>2, <2>4, <3>1, <3>2, <3>3 DEF NearestNameWins
  <2> QED
    BY <2>2, <2>3, <2>4
<1> QED
  BY <1>1, Invariance, PTL

\* SpellingsAgree, for every store: the three folds of resolve leave no spelling of a
\* key a different answer (read.rs, resolve).
THEOREM SpellingsAreTold == Spec => []SpellingsAgree
<1>1. ASSUME IInv PROVE SpellingsAgree
  <2> SUFFICES ASSUME NEW c \in Asked, answer = AnswerTo(c), NEW s \in Spellings(answer.asked)
               PROVE  AnswerTo(s) = [answer EXCEPT !.asked = s]
    BY <1>1 DEF SpellingsAgree, IInv, AnswerIsCurrent
  <2>1. c \in Strings
    BY ResolveAssumption DEF Strings
  <2>2. answer.asked = c
    BY AnswerFacts
  <2>3. s \in Strings /\ SameKey(c, s)
    BY <2>1, <2>2, SpellingFacts, SameKeyIsAnEquivalence
  <2> QED
    BY <2>1, <2>3, AnswersOfSpellings
<1> QED
  BY <1>1, Invariance, PTL

\* NoticeIsNoDeadEnd, for every store: what resolve says is not registered is free to
\* register (read.rs, exact).
THEOREM NoticesLeadSomewhere == Spec => []NoticeIsNoDeadEnd
<1>1. ASSUME IInv PROVE NoticeIsNoDeadEnd
  <2> SUFFICES ASSUME NEW c \in Asked, answer = AnswerTo(c), Answered,
                      ~(answer.says = "ok" /\ answer.exact), Taken(answer.asked)
               PROVE  FALSE
    BY <1>1 DEF NoticeIsNoDeadEnd, IInv, AnswerIsCurrent, Answered, None
  <2> DEFINE found == AncestorRows(Chain(c))
             best == Best(found)
  <2>1. c \in Strings
    BY ResolveAssumption DEF Strings
  <2>2. /\ answer.asked = c /\ answer.says \in {"ok", "not_found"}
        /\ answer.says = "not_found" => ~Refused(c) /\ found = {}
        /\ answer.says = "ok" =>
             ~Refused(c) /\ found # {} /\ answer.exact = Exact(best, c)
    BY AnswerFacts DEF Answered
  <2>3. c \in NamesAbove(c)
    BY <2>2 DEF NamesAbove, Above, Refused
  <2>4. answer.says = "ok"
    BY <1>1, <2>1, <2>2, <2>3, NothingFoundNothingTaken
  <2>5. PICK a \in NamesAbove(c) :
          (\A b \in NamesAbove(c) : Len(b) <= Len(a)) /\ SameKey(best.matched, a)
    BY <1>1, <2>1, <2>2, <2>4, BestIsNearest
  <2>6. a = c
    <3>1. a \in Above(c) /\ Len(c) <= Len(a)
      BY <2>3, <2>5 DEF NamesAbove
    <3> QED
      BY <3>1, <2>1, AboveIsShorter, StringFacts
  <2> QED
    BY <2>2, <2>4, <2>5, <2>6 DEF Exact
<1> QED
  BY <1>1, Invariance, PTL

\* What is above a path of an account and is not the reserved segment is the
\* account's too.
LEMMA AboveStaysHome ==
  ASSUME NEW u \in Users, NEW c \in Strings, IsUnderOwnRoot(Fold(c), Account[u]),
         NEW a \in Above(c), ~IsReservedRoot(a)
  PROVE  IsUnderOwnRoot(Fold(a), Account[u])
<1> DEFINE seg == Account[u]
           own == OwnRoot(seg)
           r == Len(ReservedRoot) + 1
           n == Len(own)
           f == Fold(c)
           g == Fold(a)
<1>1. PICK k \in 0..Len(c) : a = SubSeq(c, 1, k) /\ (k = Len(c) \/ k + 1 \in Slashes(c))
  BY AboveFacts
<1>2. a \in Strings /\ Len(a) = k /\ \A i \in 1..k : a[i] = c[i]
  BY <1>1, PrefixFacts
<1>3. /\ f \in Strings /\ Len(f) = Len(c) /\ \A i \in 1..Len(c) : f[i] = Lower[c[i]]
      /\ g \in Strings /\ Len(g) = Len(a) /\ \A i \in 1..Len(a) : g[i] = Lower[a[i]]
  BY <1>2, FoldFacts
<1>4. seg \in Strings /\ \A i \in 1..Len(seg) : seg[i] # "/"
  BY AccountFacts
<1>5. Len(seg) \in Nat /\ r \in Nat /\ r >= 1 /\ k \in Nat /\ Len(c) \in Nat
  BY <1>4, ReservedFacts, StringFacts
<1> HIDE DEF seg
<1>6. /\ own \in Strings /\ n = r + Len(seg)
      /\ \A i \in 1..(r - 1) : own[i] = ReservedRoot[i]
      /\ own[r] = "/"
      /\ \A i \in 1..Len(seg) : own[r + i] = seg[i]
  <2>1. r - 1 = Len(ReservedRoot)
    BY ReservedFacts, StringFacts
  <2> HIDE DEF own
  <2> QED
    BY <2>1, <1>4, OwnRootFacts DEF own
<1>7. /\ Len(f) >= n /\ \A i \in 1..n : f[i] = own[i]
      /\ Len(f) > n => f[n + 1] = "/"
  BY <1>3, <1>4, UnderOwnRootFacts DEF seg
<1> HIDE DEF own, r, n, f, g
<1>8. \A i \in 1..k : g[i] = f[i]
  <2> SUFFICES ASSUME NEW i \in 1..k PROVE g[i] = f[i]
    OBVIOUS
  <2>1. i \in 1..Len(c) /\ i \in 1..Len(a)
    BY <1>1, <1>2, <1>5
  <2> QED
    BY <2>1, <1>2, <1>3
<1>9. k >= n
  <2> SUFFICES ASSUME k < n PROVE FALSE
    BY <1>5, <1>6
  <2>1. k + 1 \in Slashes(c) /\ k + 1 \in 1..n /\ k + 1 \in 1..Len(c)
    BY <1>1, <1>3, <1>5, <1>6, <1>7
  <2>2. c[k + 1] = "/"
    BY <2>1, StringFacts
  <2>3. own[k + 1] = "/"
    <3>1. Lower["/"] = "/"
      BY SlashIsAString, LowerFacts
    <3> QED
      BY <2>1, <2>2, <3>1, <1>3, <1>7
  <2>4. k + 1 = r
    <3>1. CASE k + 1 < r
      <4>1. k + 1 \in 1..(r - 1) /\ k + 1 \in 1..Len(ReservedRoot)
        BY <3>1, <1>5 DEF r
      <4> QED
        BY <4>1, <2>3, <1>6, ReservedFacts
    <3>2. CASE k + 1 > r
      <4> DEFINE j == k + 1 - r
      <4>1. j \in 1..Len(seg) /\ r + j = k + 1
        BY <3>2, <2>1, <1>5, <1>6
      <4> HIDE DEF j
      <4> QED
        BY <4>1, <2>3, <1>4, <1>6
    <3> QED
      BY <3>1, <3>2, <1>5
  <2>5. k = Len(ReservedRoot)
    BY <2>4, <1>5, ReservedFacts, StringFacts DEF r
  <2>6. \A i \in 1..k : Lower[a[i]] = Lower[ReservedRoot[i]]
    <3> SUFFICES ASSUME NEW i \in 1..k PROVE Lower[a[i]] = Lower[ReservedRoot[i]]
      OBVIOUS
    <3>1. i \in 1..(r - 1) /\ i \in 1..n /\ i \in 1..Len(ReservedRoot)
      <4>1. i \in Nat /\ 1 <= i /\ i <= k /\ k + 1 <= n /\ n \in Nat
        BY <2>1, <1>5, <1>6
      <4> QED
        BY <4>1, <2>4, <2>5, <1>5
    <3>2. g[i] = ReservedRoot[i]
      BY <3>1, <1>6, <1>7, <1>8
    <3> QED
      BY <3>1, <3>2, <1>2, <1>3, ReservedFacts
  <2>7. SameKey(a, ReservedRoot)
    BY <2>5, <2>6, <1>2, KeyFacts, ReservedFacts
  <2> QED
    BY <2>7 DEF IsReservedRoot
<1>10. \A i \in 1..n : g[i] = own[i]
  BY <1>5, <1>6, <1>7, <1>8, <1>9
<1>11. Len(g) > n => g[n + 1] = "/"
  <2> SUFFICES ASSUME Len(g) > n PROVE g[n + 1] = "/"
    OBVIOUS
  <2>1. n + 1 \in 1..k /\ Len(f) > n
    BY <1>1, <1>2, <1>3, <1>5, <1>6
  <2> QED
    BY <2>1, <1>7, <1>8
<1>12. Len(g) >= n
  BY <1>2, <1>3, <1>9
<1>13. IsUnderOwnRoot(g, seg)
  BY <1>3, <1>4, <1>10, <1>11, <1>12, UnderOwnRootFacts DEF n, own
<1> QED
  BY <1>13 DEF g, seg

\* PrivatePathsStayPrivate, for every store, one with a project or a former path at
\* the reserved segment included (read.rs, the chain filter).
THEOREM PrivateStaysPrivate == Spec => []PrivatePathsStayPrivate
<1>1. ASSUME IInv PROVE PrivatePathsStayPrivate
  <2> SUFFICES ASSUME NEW c \in Asked, answer = AnswerTo(c), answer.says = "ok", NEW u \in Users,
                      IsUnderOwnRoot(Fold(answer.asked), Account[u])
               PROVE  IsUnderOwnRoot(Fold(answer.row.path), Account[u])
    BY <1>1 DEF PrivatePathsStayPrivate, IInv, AnswerIsCurrent, None
  <2> DEFINE found == AncestorRows(Chain(c))
             best == Best(found)
  <2>1. c \in Strings
    BY ResolveAssumption DEF Strings
  <2>2. answer.asked = c /\ ~Refused(c) /\ found # {} /\ answer.row = best.row
    BY AnswerFacts
  <2>3. PICK a \in NamesAbove(c) :
          /\ SameKey(best.matched, a)
          /\ \/ best.row.path = best.matched
             \/ \E f \in former : f.alias = best.matched /\ f.path = best.row.path
    BY <1>1, <2>1, <2>2, BestIsNearest
  <2>4. IsUnderOwnRoot(Fold(a), Account[u])
    BY <2>1, <2>2, AboveStaysHome DEF NamesAbove
  <2>5. Fold(best.matched) = Fold(a)
    BY <2>3 DEF SameKey
  <2>6. IsUnderOwnRoot(Fold(best.matched), Account[u])
    BY <2>4, <2>5
  <2> HIDE DEF best, found
  <2>7. CASE best.row.path = best.matched
    BY <2>2, <2>6, <2>7
  <2>8. CASE \E f \in former : f.alias = best.matched /\ f.path = best.row.path
    BY <1>1, <2>2, <2>6, <2>8 DEF IInv, FormerPathsStayHome
  <2> QED
    BY <2>3, <2>7, <2>8
<1> QED
  BY <1>1, Invariance, PTL


(***************************************************************************)
(*                                 Requests                                 *)
(***************************************************************************)
LEMMA FoldIsAKey ==
  ASSUME NEW s \in Strings
  PROVE  Fold(s) \in Strings /\ SameKey(Fold(s), s)
<1>1. Fold(s) \in Strings /\ Len(Fold(s)) = Len(s) /\ \A i \in 1..Len(s) : Fold(s)[i] = Lower[s[i]]
  BY FoldFacts
<1>2. \A i \in 1..Len(s) : Lower[Lower[s[i]]] = Lower[s[i]]
  BY StringFacts, LowerFacts
<1> QED
  BY <1>1, <1>2, KeyFacts

\* The root of a path's key is the key of its root.
LEMMA RootsOfKeys ==
  ASSUME NEW s \in Strings
  PROVE  /\ IsRoot(Fold(s)) <=> IsRoot(s)
         /\ RootOf(Fold(s)) = Fold(RootOf(s))
<1> DEFINE t == Fold(s)
<1>1. t \in Strings /\ SameKey(t, s)
  BY FoldIsAKey
<1>2. Slashes(t) = Slashes(s) /\ (Slashes(s) # {} => FirstSlash(t) = FirstSlash(s))
  BY <1>1, KeysHaveTheSameSlashes DEF t
<1>3. CASE Slashes(s) = {}
  BY <1>2, <1>3 DEF IsRoot, RootOf
<1>4. CASE Slashes(s) # {}
  <2> DEFINE n == FirstSlash(s) - 1
             a == SubSeq(s, 1, n)
             b == SubSeq(t, 1, n)
  <2>1. n \in 0..Len(s) /\ n \in 0..Len(t)
    BY <1>1, <1>2, <1>4, FirstSlashFacts, StringFacts, KeyFacts
  <2>2. /\ a \in Strings /\ Len(a) = n /\ \A i \in 1..n : a[i] = s[i]
        /\ b \in Strings /\ Len(b) = n /\ \A i \in 1..n : b[i] = t[i]
    <3>1. a \in Strings /\ Len(a) = n /\ \A i \in 1..n : a[i] = s[i]
      BY <2>1, PrefixFacts
    <3>2. b \in Strings /\ Len(b) = n /\ \A i \in 1..n : b[i] = t[i]
      BY <2>1, <1>1, PrefixFacts
    <3> QED
      BY <3>1, <3>2
  <2>3. RootOf(s) = a /\ RootOf(t) = b
    BY <1>2, <1>4 DEF IsRoot, RootOf
  <2>4. \A i \in 1..n : t[i] = Lower[s[i]]
    BY <2>1, FoldFacts
  <2> HIDE DEF n, a, b, t
  <2>5. Fold(a) \in Strings /\ Len(Fold(a)) = n /\ \A i \in 1..n : Fold(a)[i] = Lower[a[i]]
    BY <2>2, FoldFacts
  <2>6. b = Fold(a)
    BY <2>2, <2>4, <2>5, StringsAreEqual
  <2> QED
    BY <2>3, <2>6, <1>2 DEF IsRoot, t
<1> QED
  BY <1>3, <1>4

\* Of a legal set of grants, one is a team's.
LEMMA LevelFacts ==
  ASSUME NEW grants, GrantsAreLegal(grants)
  PROVE  /\ \A t : LevelOf(grants, t) \in {0, 1, 2}
         /\ \A g \in Elements(grants) : LevelOf(grants, g.team) = g.level
<1>1. /\ \A g \in Elements(grants) : g.level \in {1, 2}
      /\ \A g, h \in Elements(grants) : g.team = h.team => g = h
  BY DEF GrantsAreLegal, Elements
<1>2. ASSUME NEW t PROVE LevelOf(grants, t) \in {0, 1, 2}
  BY <1>1 DEF LevelOf
<1>3. ASSUME NEW g \in Elements(grants) PROVE LevelOf(grants, g.team) = g.level
  <2> DEFINE given == {h \in Elements(grants) : h.team = g.team}
  <2>1. given = {g}
    BY <1>1
  <2>2. LevelOf(grants, g.team) = IF given = {} THEN 0 ELSE (CHOOSE h \in given : TRUE).level
    BY DEF LevelOf
  <2> QED
    BY <2>1, <2>2
<1> QED
  BY <1>2, <1>3

LEMMA AppendType ==
  ASSUME NEW S, NEW seq \in Seq(S), NEW e \in S
  PROVE  Append(seq, e) \in Seq(S)
OBVIOUS

RequestTypes ==
  /\ roots \in Seq(DeclaredRows) /\ projects \in Seq(DeclaredRows)
  /\ registration \in Registrations \cup {NoRegistration}
  /\ paths \in Seq(Flushed)

LEMMA RequestsAreTyped == AskSpec => []RequestTypes
<1>1. NothingAsked => RequestTypes
  BY DEF NothingAsked, RequestTypes
<1>2. RequestTypes /\ [Ask]_request_vars => RequestTypes'
  <2> SUFFICES ASSUME RequestTypes, [Ask]_request_vars PROVE RequestTypes'
    OBVIOUS
  <2>1. CASE Declare
    <3>1. PICK d \in DeclaredRows :
            \/ Len(roots) < MaxEntries /\ roots' = Append(roots, d) /\ UNCHANGED projects
            \/ Len(projects) < MaxEntries /\ projects' = Append(projects, d) /\ UNCHANGED roots
      BY <2>1 DEF Declare
    <3>2. paths' = paths /\ registration' = registration
      BY <2>1 DEF Declare
    <3>3. roots' \in Seq(DeclaredRows) /\ projects' \in Seq(DeclaredRows)
      BY <3>1, AppendType, Zenon DEF RequestTypes
    <3> QED
      BY <3>2, <3>3 DEF RequestTypes
  <2>2. CASE Offer
    BY <2>2 DEF Offer, RequestTypes
  <2>3. CASE AskToRegister
    BY <2>3 DEF AskToRegister, RequestTypes
  <2>4. CASE UNCHANGED request_vars
    BY <2>4 DEF request_vars, RequestTypes
  <2> QED
    BY <2>1, <2>2, <2>3, <2>4 DEF Ask
<1> QED
  BY <1>1, <1>2, PTL DEF AskSpec

\* Every row of a declaration is a row of one of its two lists.
LEMMA RowFacts ==
  ASSUME RequestTypes
  PROVE  /\ Rows \in Seq(DeclaredRows) /\ DOMAIN Rows = 1..Len(Rows) /\ Len(Rows) \in Nat
         /\ Elements(Rows) = Elements(roots) \cup Elements(projects)
         /\ \A d \in Elements(Rows) : d \in DeclaredRows /\ d.path \in Strings
<1>1. /\ roots \in Seq(DeclaredRows) /\ projects \in Seq(DeclaredRows)
      /\ \A d \in DeclaredRows : d.path \in Strings
  BY RequestAssumption DEF RequestTypes, Strings
<1>2. /\ Rows \in Seq(DeclaredRows) /\ DOMAIN Rows = 1..Len(Rows) /\ Len(Rows) \in Nat
      /\ Len(Rows) = Len(roots) + Len(projects)
      /\ \A i \in 1..Len(roots) : Rows[i] = roots[i]
      /\ \A i \in 1..Len(projects) : Rows[Len(roots) + i] = projects[i]
      /\ DOMAIN roots = 1..Len(roots) /\ DOMAIN projects = 1..Len(projects)
      /\ Len(roots) \in Nat /\ Len(projects) \in Nat
  BY <1>1 DEF Rows
<1>3. \A d \in Elements(Rows) : d \in Elements(roots) \cup Elements(projects)
  <2> SUFFICES ASSUME NEW i \in 1..Len(Rows)
               PROVE  Rows[i] \in Elements(roots) \cup Elements(projects)
    BY <1>2 DEF Elements
  <2>1. CASE i <= Len(roots)
    BY <2>1, <1>2 DEF Elements
  <2>2. CASE i > Len(roots)
    <3>1. i - Len(roots) \in 1..Len(projects) /\ i = Len(roots) + (i - Len(roots))
      BY <2>2, <1>2
    <3> QED
      BY <3>1, <1>2 DEF Elements
  <2> QED
    BY <2>1, <2>2, <1>2
<1>4. \A d \in Elements(roots) : d \in Elements(Rows)
  BY <1>2 DEF Elements
<1>5. \A d \in Elements(projects) : d \in Elements(Rows)
  <2> SUFFICES ASSUME NEW i \in 1..Len(projects) PROVE projects[i] \in Elements(Rows)
    BY <1>2 DEF Elements
  <2>1. Len(roots) + i \in 1..Len(Rows)
    BY <1>2
  <2> QED
    BY <2>1, <1>2 DEF Elements
<1>6. Elements(Rows) = Elements(roots) \cup Elements(projects)
  BY <1>3, <1>4, <1>5
<1>7. \A d \in Elements(Rows) : d \in DeclaredRows
  BY <1>2 DEF Elements
<1> QED
  BY <1>1, <1>2, <1>6, <1>7


\* Each key of an admitted declaration is one row's, so that row is what is kept of it.
LEMMA OneRowPerDeclaredKey ==
  ASSUME RequestTypes, NoDuplicates, NEW d \in Elements(Rows)
  PROVE  Rows[RowAt(Fold(d.path))] = d
<1>1. PICK i \in DOMAIN Rows : Rows[i] = d
  BY DEF Elements
<1>2. DOMAIN Rows \subseteq Nat
  BY RowFacts
<1> DEFINE key == Fold(d.path)
           IsLast(k) == /\ Fold(Rows[k].path) = key
                        /\ \A j \in DOMAIN Rows : Fold(Rows[j].path) = key => j <= k
<1>3. \A j \in DOMAIN Rows : Fold(Rows[j].path) = key => j = i
  BY <1>1 DEF NoDuplicates, SameKey
<1>4. IsLast(i)
  BY <1>1, <1>2, <1>3
<1>5. RowAt(key) = CHOOSE k \in DOMAIN Rows : IsLast(k)
  BY DEF RowAt
<1> HIDE DEF key
<1>6. RowAt(key) \in DOMAIN Rows /\ IsLast(RowAt(key))
  <2> HIDE DEF IsLast
  <2> QED
    BY <1>4, <1>5
<1>7. RowAt(key) = i
  BY <1>3, <1>6
<1> QED
  BY <1>1, <1>7 DEF key

\* An admitted row is legal, its key one of the store's.
LEMMA AdmittedRowFacts ==
  ASSUME RequestTypes, Admitted, NEW d \in Elements(Rows)
  PROVE  /\ d \in DeclaredRows /\ d.path \in Strings /\ RowIsLegal(d)
         /\ Fold(d.path) \in Keys /\ RootOf(Fold(d.path)) \in Keys
<1>1. /\ d \in DeclaredRows /\ d.path \in Strings
      /\ d \in Elements(roots) \cup Elements(projects)
  BY RowFacts
<1>2. RowIsLegal(d)
  BY <1>1 DEF Admitted
<1>3. IsPath(d.path)
  BY <1>2 DEF RowIsLegal, SyncAdmits
<1> QED
  BY <1>1, <1>2, <1>3 DEF Keys

\* Every row of a declaration has its root's row in it.
LEMMA RootsAreDeclared ==
  ASSUME RequestTypes, Admitted, NEW d \in Elements(Rows)
  PROVE  \E r \in Elements(Rows) : RootOf(Fold(d.path)) = Fold(r.path)
<1>1. /\ d.path \in Strings /\ Elements(Rows) = Elements(roots) \cup Elements(projects)
  BY RowFacts
<1>2. RootOf(Fold(d.path)) = Fold(RootOf(d.path))
  BY <1>1, RootsOfKeys
<1>3. CASE d \in Elements(roots)
  BY <1>1, <1>2, <1>3 DEF Admitted, RootOf
<1>4. CASE d \in Elements(projects)
  BY <1>1, <1>2, <1>4 DEF Admitted, IsUnderARoot, SameKey
<1> QED
  BY <1>1, <1>3, <1>4

LEMMA DeclarationsStand ==
  ASSUME RequestTypes, Admitted
  PROVE  DeclarationStands
<1> DEFINE names == {Fold(d.path) : d \in Elements(Rows)}
           content == [k \in Keys |-> IF k \in names THEN Content(Rows[RowAt(k)])
                                      ELSE Content(CHOOSE d \in DeclaredRows : TRUE)]
           level == [k \in Keys |-> [t \in TeamIds |->
                       IF k \in names THEN LevelOf(Rows[RowAt(k)].grants, t) ELSE 0]]
<1>1. Declared = [names |-> names, content |-> content, level |-> level,
                  allow_mass_archive |-> FALSE, allow_mass_revoke |-> FALSE]
  BY DEF Declared
<1>2. \A d \in Elements(Rows) :
        /\ d \in DeclaredRows /\ d.path \in Strings /\ RowIsLegal(d)
        /\ Fold(d.path) \in Keys /\ RootOf(Fold(d.path)) \in Keys
        /\ Rows[RowAt(Fold(d.path))] = d
  BY AdmittedRowFacts, OneRowPerDeclaredKey DEF Admitted
<1>3. names \subseteq Keys /\ \A k \in names : \E d \in Elements(Rows) : k = Fold(d.path) /\ Rows[RowAt(k)] = d
  BY <1>2
<1>4. DeclaredRows # {} /\ Elements(Rows) # {}
  <2>1. Elements(roots) # {}
    <3>1. roots \in Seq(DeclaredRows) /\ roots # <<>>
      BY DEF Admitted, RequestTypes
    <3> QED
      BY <3>1 DEF Elements
  <2> QED
    BY <2>1, <1>2, RowFacts
<1>5. content \in [Keys -> {Content(d) : d \in DeclaredRows}]
  <2>1. (CHOOSE d \in DeclaredRows : TRUE) \in DeclaredRows
    BY <1>4
  <2> HIDE DEF names
  <2> QED
    BY <2>1, <1>2, <1>3
<1>6. level \in [Keys -> [TeamIds -> {0, 1, 2}]]
  <2>1. ASSUME NEW k \in names, NEW t PROVE LevelOf(Rows[RowAt(k)].grants, t) \in {0, 1, 2}
    BY <1>2, <1>3, LevelFacts DEF RowIsLegal
  <2> HIDE DEF names
  <2> QED
    BY <2>1
<1>7. Declared \in Store!Declaration
  <2>1. Store!Declaration = [names : SUBSET Keys, content : [Keys -> {Content(d) : d \in DeclaredRows}],
                             level : [Keys -> [TeamIds -> {1, 2} \cup {0}]],
                             allow_mass_archive : BOOLEAN, allow_mass_revoke : BOOLEAN]
    BY DEF Store!Declaration, Store!Grade, Store!NoGrant
  <2>2. {1, 2} \cup {0} = {0, 1, 2}
    OBVIOUS
  <2> HIDE DEF names, content, level
  <2> QED
    BY <1>1, <1>3, <1>5, <1>6, <2>1, <2>2
<1>8. Store!Admissible(Declared)
  <2>1. Declared.names = names /\ Declared.level = level
    BY <1>1
  <2>2. names # {}
    BY <1>4
  <2>3. \A p \in names : [k \in Keys |-> RootOf(k)][p] \in names
    BY <1>3, RootsAreDeclared
  <2>4. \A p \in Keys \ names : \A t \in TeamIds : level[p][t] = 0
    OBVIOUS
  <2> HIDE DEF names, level
  <2> QED
    BY <2>1, <2>2, <2>3, <2>4 DEF Store!Admissible, Store!NoGrant
<1>9. ASSUME NEW d \in Elements(Rows)
      PROVE  /\ ProjectChecks(DeclaredRow(d))
             /\ Declared.content[Fold(d.path)] = Content(d)
             /\ \A g \in Elements(d.grants) : Declared.level[Fold(d.path)][g.team] = g.level
  <2>1. /\ SyncAdmits(d.path) /\ d.source_repo = "given" /\ GrantsAreLegal(d.grants)
        /\ d.path \in Strings
    BY <1>2 DEF RowIsLegal
  <2>2. ~Like(d.path, ReservedRoot \o <<"/", "%">>)
    BY <2>1, ClassIsAPattern DEF SyncAdmits
  <2>3. ProjectChecks(DeclaredRow(d))
    BY <2>1, <2>2 DEF ProjectChecks, DeclaredRow, Null
  <2>4. Fold(d.path) \in names /\ Fold(d.path) \in Keys
    BY <1>2
  <2>5. Declared.content[Fold(d.path)] = Content(d)
    <3> HIDE DEF names
    <3> QED
      BY <1>1, <1>2, <2>4
  <2>6. ASSUME NEW g \in Elements(d.grants)
        PROVE  Declared.level[Fold(d.path)][g.team] = g.level
    <3>1. g.team \in TeamIds /\ LevelOf(d.grants, g.team) = g.level
      BY <2>1, LevelFacts DEF GrantsAreLegal
    <3> HIDE DEF names
    <3> QED
      BY <1>1, <1>2, <2>4, <3>1
  <2> QED
    BY <2>3, <2>5, <2>6
<1> QED
  BY <1>7, <1>8, <1>9 DEF DeclarationStands

\* The owner of a registered path is read off its key.
LEMMA RegistrationsStand ==
  ASSUME RequestTypes, RegistrationAdmitted
  PROVE  RegistrationStands
<1> DEFINE s == registration.path
           u == registration.user
<1>1. /\ u \in Users /\ RegisterAdmits(s, u) /\ s \in Strings
  BY RequestAssumption DEF RequestTypes, RegistrationAdmitted, NoRegistration, Strings
<1>2. IsPrivateClass(s) /\ IsUnderOwnRoot(s, Account[u])
  BY <1>1 DEF RegisterAdmits
<1>3. ProjectChecks(RegisteredRow)
  <2>1. Like(s, ReservedRoot \o <<"/", "%">>)
    BY <1>1, <1>2, ClassIsAPattern
  <2>2. u # Null
    BY <1>1, RequestAssumption
  <2> HIDE DEF s, u
  <2>3. RegisteredRow = [path |-> s, source_repo |-> Null, owner_user_id |-> u]
    BY DEF RegisteredRow, s, u
  <2> QED
    BY <2>1, <2>2, <2>3 DEF ProjectChecks
<1> HIDE DEF s, u
<1> DEFINE t == Fold(s)
<1>4. t \in Strings /\ SameKey(t, s) /\ SameKey(s, t)
  BY <1>1, FoldIsAKey, SameKeyIsAnEquivalence
<1>5. IsUnderOwnRoot(t, Account[u])
  <2> DEFINE own == OwnRoot(Account[u])
  <2>1. /\ Account[u] \in Strings
        /\ \A i \in 1..Len(Account[u]) : Lower[Account[u][i]] = Account[u][i]
    BY <1>1, AccountFacts
  <2>2. /\ Len(s) >= Len(own) /\ \A i \in 1..Len(own) : s[i] = own[i]
        /\ Len(s) > Len(own) => s[Len(own) + 1] = "/"
    BY <1>1, <1>2, <2>1, UnderOwnRootFacts
  <2>3. /\ Len(t) = Len(s) /\ \A i \in 1..Len(s) : t[i] = Lower[s[i]]
        /\ Len(s) \in Nat /\ Len(own) \in Nat
    BY <1>1, <2>1, FoldFacts, OwnRootFacts, StringFacts
  <2>4. \A i \in 1..Len(own) : Lower[own[i]] = own[i]
    <3> DEFINE n == Len(ReservedRoot)
               a == Account[u]
    <3>1. /\ n \in Nat /\ Len(a) \in Nat /\ Len(own) = n + 1 + Len(a)
          /\ \A i \in 1..n : own[i] = ReservedRoot[i]
          /\ own[n + 1] = "/"
          /\ \A i \in 1..Len(a) : own[n + 1 + i] = a[i]
      BY <2>1, OwnRootFacts, ReservedFacts, StringFacts
    <3> HIDE DEF n, own, a
    <3> SUFFICES ASSUME NEW i \in 1..Len(own) PROVE Lower[own[i]] = own[i]
      OBVIOUS
    <3>2. CASE i \in 1..n
      BY <3>1, <3>2, ReservedFacts DEF n
    <3>3. CASE i = n + 1
      BY <3>1, <3>3, LowerFacts, SlashIsAString
    <3>4. CASE i > n + 1
      <4> DEFINE k == i - (n + 1)
      <4>1. k \in 1..Len(a) /\ i = n + 1 + k
        BY <3>1, <3>4
      <4> HIDE DEF k
      <4>2. own[i] = a[k]
        BY <4>1, <3>1
      <4> QED
        BY <4>1, <4>2, <2>1 DEF a
    <3> QED
      BY <3>1, <3>2, <3>3, <3>4
  <2>5. Len(s) > Len(own) => t[Len(own) + 1] = "/"
    BY <2>2, <2>3, LowerFacts, SlashIsAString
  <2>6. \A i \in 1..Len(own) : t[i] = own[i]
    BY <2>2, <2>3, <2>4
  <2> HIDE DEF t, own
  <2>7. Len(t) >= Len(own) /\ (Len(t) > Len(own) => t[Len(own) + 1] = "/")
    BY <2>2, <2>3, <2>5
  <2> QED
    BY <2>1, <2>6, <2>7, <1>4, UnderOwnRootFacts DEF own
<1>6. ASSUME NEW v \in Users, IsUnderOwnRoot(t, Account[v]) PROVE v = u
  <2>1. Len(Account[u]) \in Nat /\ Len(Account[v]) \in Nat
    BY <1>1, AccountFacts, StringFacts
  <2> HIDE DEF t
  <2>2. CASE Len(Account[u]) <= Len(Account[v])
    BY <2>2, <1>1, <1>2, <1>4, <1>6, KeysHaveOneAccount
  <2>3. CASE Len(Account[v]) <= Len(Account[u])
    BY <2>3, <1>1, <1>2, <1>4, <1>6, KeysHaveOneAccount
  <2> QED
    BY <2>1, <2>2, <2>3
<1>7. RegisteredRow.path = s /\ RegisteredRow.owner_user_id = u
  BY DEF RegisteredRow, s, u
<1> QED
  BY <1>3, <1>5, <1>6, <1>7 DEF RegistrationStands

\* AdmittedIsAdmissible: what the writing verbs let through is what the transactions
\* are written for and what the tables' CHECKs take, whatever is asked (sync.rs,
\* validate; register.rs, Class::of).
THEOREM RequestsAreAdmissible == AskSpec => []AdmittedIsAdmissible
<1>1. RequestTypes => AdmittedIsAdmissible
  <2>1. RequestTypes => DeclarationStands
    BY DeclarationsStand DEF DeclarationStands
  <2>2. RequestTypes => RegistrationStands
    BY RegistrationsStand DEF RegistrationStands
  <2> QED
    BY <2>1, <2>2 DEF AdmittedIsAdmissible
<1> QED
  BY <1>1, RequestsAreTyped, PTL


(***************************************************************************)
(*                            Names of a flush                              *)
(***************************************************************************)
\* A finite set in an order: up[i] are the elements at or before i.
IsAnOrder(S, up) ==
  /\ IsFiniteSet(S) /\ up \in [S -> SUBSET S]
  /\ \A i, j \in S : i \in up[j] \/ j \in up[i]
  /\ \A i, j \in S : i \in up[j] /\ j \in up[i] => i = j
  /\ \A i, j \in S : i \in up[j] => up[i] \subseteq up[j]

LEMMA PlacesFacts ==
  ASSUME NEW m \in Nat
  PROVE  IsFiniteSet(1..m) /\ Cardinality(1..m) = m
BY FS_Interval

\* Counting what is at or before an element numbers the set without a gap.
LEMMA PlacesAreTaken ==
  ASSUME NEW S, NEW up, IsAnOrder(S, up)
  PROVE  /\ Cardinality(S) \in Nat
         /\ \A i \in S : Cardinality(up[i]) \in 1..Cardinality(S)
         /\ \A i, j \in S : Cardinality(up[i]) <= Cardinality(up[j]) => i \in up[j]
         /\ \A n \in 1..Cardinality(S) : \E i \in S : Cardinality(up[i]) = n
<1> DEFINE m == Cardinality(S)
           place == [i \in S |-> Cardinality(up[i])]
<1>1. m \in Nat /\ IsFiniteSet(S)
  BY FS_CardinalityType DEF IsAnOrder
<1>2. ASSUME NEW i \in S
      PROVE  /\ i \in up[i] /\ up[i] \in SUBSET S /\ IsFiniteSet(up[i])
             /\ Cardinality(up[i]) \in 1..m
  <2>1. i \in up[i] /\ up[i] \in SUBSET S
    BY DEF IsAnOrder
  <2>2. IsFiniteSet(up[i]) /\ Cardinality(up[i]) <= m
    BY <1>1, <2>1, FS_Subset
  <2>3. Cardinality(up[i]) \in Nat /\ Cardinality(up[i]) # 0
    BY <2>1, <2>2, FS_CardinalityType, FS_EmptySet
  <2> QED
    BY <1>1, <2>1, <2>2, <2>3
<1>3. ASSUME NEW i \in S, NEW j \in S, i \notin up[j]
      PROVE  Cardinality(up[j]) < Cardinality(up[i])
  <2>1. j \in up[i] /\ up[j] \in SUBSET up[i]
    BY <1>3 DEF IsAnOrder
  <2>2. up[j] # up[i]
    BY <1>2, <1>3
  <2>3. Cardinality(up[j]) <= Cardinality(up[i]) /\ Cardinality(up[j]) # Cardinality(up[i])
    BY <1>2, <2>1, <2>2, FS_Subset
  <2>4. Cardinality(up[i]) \in Nat /\ Cardinality(up[j]) \in Nat
    BY <1>2
  <2> QED
    BY <2>3, <2>4
<1>4. ASSUME NEW i \in S, NEW j \in S, Cardinality(up[i]) <= Cardinality(up[j])
      PROVE  i \in up[j]
  <2>1. Cardinality(up[i]) \in Nat /\ Cardinality(up[j]) \in Nat
    BY <1>2
  <2> QED
    BY <1>3, <1>4, <2>1
<1>5. place \in [S -> 1..m] /\ \A i \in S : place[i] = Cardinality(up[i])
  BY <1>2
<1> HIDE DEF place
<1>6. \A i, j \in S : place[i] = place[j] => i = j
  <2> SUFFICES ASSUME NEW i \in S, NEW j \in S, place[i] = place[j] PROVE i = j
    OBVIOUS
  <2>1. Cardinality(up[i]) <= Cardinality(up[j]) /\ Cardinality(up[j]) <= Cardinality(up[i])
    BY <1>2, <1>5
  <2> QED
    BY <1>4, <2>1 DEF IsAnOrder
<1>7. place \in Injection(S, 1..m)
  BY <1>5, <1>6 DEF Injection, IsInjective
<1>8. IsFiniteSet(1..m) /\ Cardinality(1..m) = m
  BY <1>1, PlacesFacts
<1>9. place \in Surjection(S, 1..m)
  BY <1>7, <1>8, FS_Injection
<1>10. \A n \in 1..m : \E i \in S : Cardinality(up[i]) = n
  BY <1>5, <1>9 DEF Surjection
<1> QED
  BY <1>1, <1>2, <1>4, <1>10

\* s comes before t where they first differ.
IsSmallerAt(s, t, n) ==
  \/ n = Len(s) /\ n < Len(t)
  \/ n < Len(s) /\ n < Len(t) /\ Code[s[n + 1]] < Code[t[n + 1]]

LEMMA BeforeFacts ==
  ASSUME NEW s \in Strings, NEW t \in Strings
  PROVE  Before(s, t) <=>
           \E n \in Nat : /\ n <= Len(s) /\ n <= Len(t)
                          /\ \A i \in 1..n : s[i] = t[i]
                          /\ IsSmallerAt(s, t, n)
<1>1. Len(s) \in Nat /\ Len(t) \in Nat
  BY StringFacts
<1> QED
  BY <1>1 DEF Before, IsSmallerAt

\* Byte order is a strict order of the strings.
LEMMA ByteOrder ==
  /\ \A s \in Strings : ~Before(s, s)
  /\ \A s, t \in Strings : Before(s, t) \/ Before(t, s) \/ s = t
  /\ \A s, t, u \in Strings : Before(s, t) /\ Before(t, u) => Before(s, u)
<1>0. /\ \A c \in Chars : Code[c] \in Nat
      /\ \A c, d \in Chars : Code[c] = Code[d] => c = d
  BY RequestAssumption
<1>1. ASSUME NEW s \in Strings PROVE ~Before(s, s)
  <2> SUFFICES ASSUME NEW n \in Nat, IsSmallerAt(s, s, n) PROVE FALSE
    BY BeforeFacts
  <2>1. Len(s) \in Nat /\ (n < Len(s) => Code[s[n + 1]] \in Nat)
    BY <1>0, StringFacts
  <2> QED
    BY <2>1 DEF IsSmallerAt
<1>2. ASSUME NEW s \in Strings, NEW t \in Strings
      PROVE  Before(s, t) \/ Before(t, s) \/ s = t
  <2> DEFINE D == {i \in Nat : i \in 1..Len(s) /\ i \in 1..Len(t) /\ s[i] # t[i]}
  <2>1. Len(s) \in Nat /\ Len(t) \in Nat
    BY StringFacts
  <2>2. CASE D = {}
    <3>1. \A i \in Nat : i \in 1..Len(s) /\ i \in 1..Len(t) => s[i] = t[i]
      BY <2>2
    <3>2. CASE Len(s) < Len(t)
      <4>1. IsSmallerAt(s, t, Len(s)) /\ \A i \in 1..Len(s) : s[i] = t[i]
        BY <2>1, <3>1, <3>2 DEF IsSmallerAt
      <4> QED
        BY <2>1, <3>2, <4>1, BeforeFacts
    <3>3. CASE Len(t) < Len(s)
      <4>1. IsSmallerAt(t, s, Len(t)) /\ \A i \in 1..Len(t) : t[i] = s[i]
        BY <2>1, <3>1, <3>3 DEF IsSmallerAt
      <4> QED
        BY <2>1, <3>3, <4>1, BeforeFacts
    <3>4. CASE Len(s) = Len(t)
      BY <2>1, <3>1, <3>4, StringsAreEqual
    <3> QED
      BY <2>1, <3>2, <3>3, <3>4
  <2>3. CASE D # {}
    <3>1. PICK k \in D : \A i \in D : k <= i
      BY <2>3, LeastNumber
    <3> DEFINE n == k - 1
    <3>2. /\ k \in 1..Len(s) /\ k \in 1..Len(t) /\ s[k] # t[k]
          /\ n \in Nat /\ n < Len(s) /\ n < Len(t) /\ n + 1 = k
      BY <2>1, <3>1
    <3>3. \A i \in 1..n : s[i] = t[i]
      <4> SUFFICES ASSUME NEW i \in 1..n, s[i] # t[i] PROVE FALSE
        OBVIOUS
      <4>1. i \in Nat /\ i \in 1..Len(s) /\ i \in 1..Len(t) /\ ~(k <= i)
        BY <2>1, <3>2
      <4> QED
        BY <3>1, <4>1
    <3>4. s[k] \in Chars /\ t[k] \in Chars
      BY <3>2, StringFacts
    <3>5. /\ Code[s[k]] \in Nat /\ Code[t[k]] \in Nat
          /\ Code[s[k]] < Code[t[k]] \/ Code[t[k]] < Code[s[k]]
      BY <1>0, <3>2, <3>4
    <3>6. IsSmallerAt(s, t, n) \/ IsSmallerAt(t, s, n)
      <4> HIDE DEF n
      <4> QED
        BY <3>2, <3>5 DEF IsSmallerAt
    <3> HIDE DEF n
    <3>7. n <= Len(s) /\ n <= Len(t) /\ \A i \in 1..n : t[i] = s[i]
      BY <2>1, <3>2, <3>3
    <3> QED
      BY <3>2, <3>3, <3>6, <3>7, BeforeFacts
  <2> QED
    BY <2>2, <2>3
<1>3. ASSUME NEW s \in Strings, NEW t \in Strings, NEW u \in Strings, Before(s, t), Before(t, u)
      PROVE  Before(s, u)
  <2>1. PICK n \in Nat : /\ n <= Len(s) /\ n <= Len(t) /\ \A i \in 1..n : s[i] = t[i]
                         /\ IsSmallerAt(s, t, n)
    BY <1>3, BeforeFacts
  <2>2. PICK m \in Nat : /\ m <= Len(t) /\ m <= Len(u) /\ \A i \in 1..m : t[i] = u[i]
                         /\ IsSmallerAt(t, u, m)
    BY <1>3, BeforeFacts
  <2>3. Len(s) \in Nat /\ Len(t) \in Nat /\ Len(u) \in Nat
    BY StringFacts
  <2>4. CASE n < m
    <3>1. n + 1 \in 1..m /\ n <= Len(u) /\ n < Len(u) /\ \A i \in 1..n : s[i] = u[i]
      BY <2>1, <2>2, <2>3, <2>4
    <3>2. t[n + 1] = u[n + 1]
      BY <2>2, <3>1
    <3>3. IsSmallerAt(s, u, n)
      BY <2>1, <3>1, <3>2 DEF IsSmallerAt
    <3> QED
      BY <2>1, <3>1, <3>3, BeforeFacts
  <2>5. CASE m < n
    <3>1. m + 1 \in 1..n /\ m <= Len(s) /\ m < Len(s) /\ m < Len(t) /\ \A i \in 1..m : s[i] = u[i]
      BY <2>1, <2>2, <2>3, <2>5
    <3>2. s[m + 1] = t[m + 1]
      BY <2>1, <3>1
    <3>3. IsSmallerAt(s, u, m)
      BY <2>2, <2>3, <3>1, <3>2 DEF IsSmallerAt
    <3> QED
      BY <2>2, <3>1, <3>3, BeforeFacts
  <2>6. CASE n = m
    <3>1. \A i \in 1..n : s[i] = u[i]
      BY <2>1, <2>2, <2>6
    <3>2. /\ n < Len(s) => Code[s[n + 1]] \in Nat
          /\ n < Len(t) => Code[t[n + 1]] \in Nat
          /\ n < Len(u) => Code[u[n + 1]] \in Nat
      BY <1>0, StringFacts
    <3>3. IsSmallerAt(s, u, n)
      BY <2>1, <2>2, <2>3, <2>6, <3>2 DEF IsSmallerAt
    <3> QED
      BY <2>1, <2>2, <2>6, <3>1, <3>3, BeforeFacts
  <2> QED
    BY <2>4, <2>5, <2>6
<1> QED
  BY <1>1, <1>2, <1>3


\* The key of s is not after the key of t.
KeyUpTo(s, t) == Before(Fold(s), Fold(t)) \/ SameKey(s, t)

LEMMA KeyOrder ==
  /\ \A s, t \in Strings : KeyUpTo(s, t) \/ KeyUpTo(t, s)
  /\ \A s, t \in Strings : KeyUpTo(s, t) /\ KeyUpTo(t, s) => SameKey(s, t)
  /\ \A s, t, u \in Strings : KeyUpTo(s, t) /\ KeyUpTo(t, u) => KeyUpTo(s, u)
<1>1. \A s \in Strings : Fold(s) \in Strings
  BY FoldFacts
<1> QED
  BY <1>1, ByteOrder, Zenon DEF KeyUpTo, SameKey

\* sort_by_key sorts: the names are all there, keys ascend.
LEMMA SortedFacts ==
  ASSUME NEW names \in Seq(Strings)
  PROVE  /\ Sorted(names) \in Seq(Strings) /\ Len(Sorted(names)) = Len(names)
         /\ Elements(Sorted(names)) = Elements(names)
         /\ \A n, m \in DOMAIN Sorted(names) :
              n <= m => KeyUpTo(Sorted(names)[n], Sorted(names)[m])
<1> DEFINE D == 1..Len(names)
           Upto(i) == {j \in DOMAIN names : \/ Before(Fold(names[j]), Fold(names[i]))
                                            \/ SameKey(names[j], names[i]) /\ j <= i}
           up == [i \in D |-> Upto(i)]
           At(n) == CHOOSE i \in DOMAIN names : Cardinality(Upto(i)) = n
           t == Sorted(names)
<1>1. Len(names) \in Nat /\ DOMAIN names = D /\ \A i \in D : names[i] \in Strings
  OBVIOUS
<1>2. t = [n \in D |-> names[At(n)]]
  BY <1>1 DEF Sorted
<1>3. \A i, j \in D : j \in Upto(i) <=> \/ Before(Fold(names[j]), Fold(names[i]))
                                        \/ SameKey(names[j], names[i]) /\ j <= i
  BY <1>1
<1>4. up \in [D -> SUBSET D] /\ \A i \in D : up[i] = Upto(i)
  BY <1>1
<1> HIDE DEF Upto, up, At, t
<1>5. \A i, j \in D : j \in Upto(i) => KeyUpTo(names[j], names[i])
  BY <1>3 DEF KeyUpTo
<1>6. IsAnOrder(D, up)
  <2> DEFINE L(s, u) == Before(Fold(s), Fold(u))
  <2>1. \A s \in Strings : Fold(s) \in Strings
    BY FoldFacts
  <2>2. /\ \A s, u \in Strings : L(s, u) \/ L(u, s) \/ SameKey(s, u)
        /\ \A s, u \in Strings : ~(L(s, u) /\ L(u, s)) /\ ~(L(s, u) /\ SameKey(s, u)) /\ ~(L(s, u) /\ SameKey(u, s))
        /\ \A s, u, v \in Strings : L(s, u) /\ L(u, v) => L(s, v)
        /\ \A s, u, v \in Strings : L(s, u) /\ SameKey(u, v) => L(s, v)
        /\ \A s, u, v \in Strings : SameKey(s, u) /\ L(u, v) => L(s, v)
    BY <2>1, ByteOrder, Zenon DEF SameKey
  <2> HIDE DEF L
  <2>3. \A i, j \in D : j \in Upto(i) <=> L(names[j], names[i]) \/ (SameKey(names[j], names[i]) /\ j <= i)
    BY <1>3 DEF L
  <2>4. IsFiniteSet(D)
    BY <1>1, PlacesFacts, Zenon
  <2>5. ASSUME NEW i \in D, NEW j \in D PROVE i \in up[j] \/ j \in up[i]
    <3>1. i <= j \/ j <= i
      BY <1>1
    <3> HIDE DEF D
    <3> QED
      BY <3>1, <1>1, <1>4, <2>2, <2>3, SameKeyIsAnEquivalence
  <2>6. \A i, j \in D : i \in up[j] /\ j \in up[i] => i = j
    BY <1>1, <1>4, <2>2, <2>3
  <2>7. ASSUME NEW i \in D, NEW j \in D, NEW k \in D, i \in up[j], k \in up[i] PROVE k \in up[j]
    <3>1. /\ L(names[i], names[j]) \/ (SameKey(names[i], names[j]) /\ i <= j)
          /\ L(names[k], names[i]) \/ (SameKey(names[k], names[i]) /\ k <= i)
      BY <2>7, <1>4, <2>3
    <3>2. L(names[k], names[j]) \/ (SameKey(names[k], names[j]) /\ k <= j)
      BY <3>1, <1>1, <2>2, SameKeyIsAnEquivalence
    <3> QED
      BY <3>2, <1>4, <2>3
  <2>8. \A i, j \in D : i \in up[j] => up[i] \subseteq up[j]
    BY <2>7, <1>4
  <2> QED
    BY <1>4, <2>4, <2>5, <2>6, <2>8 DEF IsAnOrder
<1>7. 1..Cardinality(D) = D
  BY <1>1, PlacesFacts, Zenon
<1>8. /\ \A n \in D : \E i \in D : Cardinality(Upto(i)) = n
      /\ \A i \in D : Cardinality(Upto(i)) \in D
      /\ \A i, j \in D : Cardinality(Upto(i)) <= Cardinality(Upto(j)) => i \in Upto(j)
  <2>1. /\ \A n \in 1..Cardinality(D) : \E i \in D : Cardinality(up[i]) = n
        /\ \A i \in D : Cardinality(up[i]) \in 1..Cardinality(D)
        /\ \A i, j \in D : Cardinality(up[i]) <= Cardinality(up[j]) => i \in up[j]
    BY <1>6, PlacesAreTaken
  <2> HIDE DEF D
  <2> QED
    BY <1>4, <1>7, <2>1
<1>9. ASSUME NEW n \in D PROVE At(n) \in D /\ Cardinality(Upto(At(n))) = n
  BY <1>1, <1>8 DEF At
<1>10. t \in Seq(Strings) /\ Len(t) = Len(names) /\ DOMAIN t = D
  <2>1. \A n \in D : names[At(n)] \in Strings
    BY <1>1, <1>9
  <2> QED
    BY <1>1, <1>2, <2>1
<1>11. ASSUME NEW n \in D, NEW m \in D, n <= m PROVE KeyUpTo(t[n], t[m])
  <2>1. At(n) \in Upto(At(m))
    BY <1>8, <1>9, <1>11
  <2> QED
    BY <1>2, <1>5, <1>9, <2>1
<1>12. \A p \in Elements(t) : p \in Elements(names)
  BY <1>1, <1>2, <1>9, <1>10 DEF Elements
<1>13. ASSUME NEW i \in D PROVE names[i] \in Elements(t)
  <2> DEFINE n == Cardinality(Upto(i))
  <2>1. n \in D /\ At(n) \in D /\ Cardinality(Upto(At(n))) = n
    BY <1>8, <1>9
  <2>2. n <= n
    BY <2>1, <1>1
  <2>3. At(n) \in Upto(i) /\ i \in Upto(At(n))
    <3> HIDE DEF D
    <3> QED
      BY <1>8, <2>1, <2>2
  <2> HIDE DEF n
  <2>4. At(n) = i
    BY <1>4, <1>6, <2>1, <2>3 DEF IsAnOrder
  <2> QED
    BY <1>2, <1>10, <2>1, <2>4 DEF Elements
<1>14. Elements(t) = Elements(names)
  BY <1>1, <1>12, <1>13 DEF Elements
<1> QED
  BY <1>10, <1>11, <1>14 DEF t

\* Of sorted names, dedup_by leaves one of each key.
LEMMA DedupFacts ==
  ASSUME NEW t \in Seq(Strings),
         \A n, m \in DOMAIN t : n <= m => KeyUpTo(t[n], t[m])
  PROVE  /\ \A p \in Elements(t) : \E q \in Elements(Dedup(t)) : SameKey(p, q)
         /\ Elements(Dedup(t)) \subseteq Elements(t)
         /\ \A i, j \in DOMAIN Dedup(t) : SameKey(Dedup(t)[i], Dedup(t)[j]) => i = j
<1> DEFINE D == 1..Len(t)
           kept == {i \in DOMAIN t : i = 1 \/ ~SameKey(t[i - 1], t[i])}
           Upto(i) == {j \in kept : j <= i}
           up == [i \in kept |-> Upto(i)]
           At(n) == CHOOSE i \in kept : Cardinality(Upto(i)) = n
           c == Cardinality(kept)
           d == Dedup(t)
<1>1. Len(t) \in Nat /\ DOMAIN t = D /\ \A i \in D : t[i] \in Strings
  OBVIOUS
<1>2. d = [n \in 1..c |-> t[At(n)]]
  BY DEF Dedup
<1>3. kept \subseteq D /\ \A i \in D : i \in kept <=> i = 1 \/ ~SameKey(t[i - 1], t[i])
  BY <1>1
<1> HIDE DEF kept, d
<1>4. up \in [kept -> SUBSET kept] /\ \A i \in kept : up[i] = Upto(i)
  OBVIOUS
<1>5. \A i, j \in kept : j \in Upto(i) <=> j <= i
  OBVIOUS
<1> HIDE DEF Upto, up, At
<1>6. IsFiniteSet(kept) /\ \A i \in kept : i \in Nat
  <2>1. IsFiniteSet(D) /\ kept \in SUBSET D /\ \A i \in D : i \in Nat
    BY <1>1, <1>3, PlacesFacts
  <2> HIDE DEF D
  <2>2. IsFiniteSet(kept)
    BY <2>1, FS_Subset
  <2> QED
    BY <2>1, <2>2
<1>7. IsAnOrder(kept, up)
  BY <1>4, <1>5, <1>6 DEF IsAnOrder
<1>8. /\ c \in Nat
      /\ \A n \in 1..c : \E i \in kept : Cardinality(Upto(i)) = n
      /\ \A i \in kept : Cardinality(Upto(i)) \in 1..c
      /\ \A i, j \in kept : Cardinality(Upto(i)) <= Cardinality(Upto(j)) => i <= j
  BY <1>4, <1>5, <1>7, PlacesAreTaken
<1> HIDE DEF c
<1>9. ASSUME NEW n \in 1..c PROVE At(n) \in kept /\ Cardinality(Upto(At(n))) = n
  BY <1>8 DEF At
<1>10. DOMAIN d = 1..c
  BY <1>2
<1>11. \A p \in Elements(d) : p \in Elements(t)
  BY <1>1, <1>2, <1>3, <1>9, <1>10 DEF Elements
<1>12. ASSUME NEW i \in kept PROVE t[i] \in Elements(d)
  <2> DEFINE n == Cardinality(Upto(i))
  <2>1. n \in 1..c /\ At(n) \in kept /\ Cardinality(Upto(At(n))) = n
    BY <1>8, <1>9
  <2>2. n \in Nat
    BY <2>1, <1>8
  <2> HIDE DEF n
  <2>3. At(n) <= i /\ i <= At(n)
    BY <1>8, <2>1, <2>2 DEF n
  <2>4. At(n) = i
    BY <1>6, <2>1, <2>3
  <2> QED
    BY <1>2, <1>10, <2>1, <2>4 DEF Elements
\* The first name of a key is kept.
<1>13. ASSUME NEW i \in D PROVE \E q \in Elements(d) : SameKey(t[i], q)
  <2> DEFINE E == {j \in Nat : j \in D /\ SameKey(t[i], t[j])}
  <2>1. i \in E
    BY <1>1, SameKeyIsAnEquivalence
  <2>2. PICK j \in E : \A k \in E : j <= k
    BY <2>1, LeastNumber
  <2>3. j \in D /\ SameKey(t[i], t[j]) /\ j \in Nat
    BY <2>2
  <2>4. j \in kept
    <3> SUFFICES ASSUME j # 1, SameKey(t[j - 1], t[j]) PROVE FALSE
      BY <1>3, <2>3
    <3>1. j - 1 \in Nat /\ j - 1 \in D /\ ~(j <= j - 1)
      BY <1>1, <2>3
    <3>2. SameKey(t[i], t[j - 1])
      BY <2>3, SameKeyIsAnEquivalence
    <3> HIDE DEF E
    <3>3. j - 1 \in E
      BY <3>1, <3>2 DEF E
    <3> QED
      BY <2>2, <3>1, <3>3
  <2> QED
    BY <1>12, <2>3, <2>4
\* Between two names of one key there are only names of that key.
<1>14. ASSUME NEW i \in kept, NEW j \in kept, i < j, SameKey(t[i], t[j]) PROVE FALSE
  <2>1. /\ i \in D /\ j \in D /\ i \in Nat /\ j \in Nat
        /\ j - 1 \in D /\ i <= j - 1 /\ j - 1 <= j /\ j # 1
    BY <1>1, <1>3, <1>6, <1>14
  <2> DEFINE k == j - 1
  <2>2. k \in D /\ KeyUpTo(t[i], t[k]) /\ KeyUpTo(t[k], t[j])
    BY <1>1, <2>1
  <2> HIDE DEF k
  <2>3. KeyUpTo(t[k], t[i])
    BY <2>2, <1>14 DEF KeyUpTo, SameKey
  <2>4. SameKey(t[k], t[i])
    BY <1>1, <2>1, <2>2, <2>3, KeyOrder
  <2>5. SameKey(t[k], t[j])
    BY <2>4, <1>14, SameKeyIsAnEquivalence
  <2> QED
    BY <1>3, <2>1, <2>5 DEF k
<1>15. ASSUME NEW n \in 1..c, NEW m \in 1..c, SameKey(d[n], d[m]) PROVE n = m
  <2>1. At(n) \in kept /\ At(m) \in kept /\ d[n] = t[At(n)] /\ d[m] = t[At(m)]
    BY <1>2, <1>9
  <2>2. At(n) \in Nat /\ At(m) \in Nat /\ SameKey(t[At(n)], t[At(m)]) /\ SameKey(t[At(m)], t[At(n)])
    BY <1>6, <1>15, <2>1, SameKeyIsAnEquivalence
  <2>3. At(n) = At(m)
    BY <1>14, <2>1, <2>2
  <2> QED
    BY <1>9, <2>3
<1>16. \A p \in Elements(t) : \E q \in Elements(d) : SameKey(p, q)
  BY <1>1, <1>13 DEF Elements
<1> QED
  BY <1>10, <1>11, <1>15, <1>16 DEF d


\* FlushNamesAreCounted, for every flush: one that is admitted writes no NULL, and the
\* names that are left of it, one of each key, name what the flush named (touch.rs,
\* deduplicated).
THEOREM FlushesAreCounted == AskSpec => []FlushNamesAreCounted
<1>1. RequestTypes => FlushNamesAreCounted
  <2> SUFFICES ASSUME RequestTypes, TouchAdmitted
               PROVE  LET names == Deduplicated(paths) IN
                      /\ [names |-> {Fold(p) : p \in Elements(names)}, seen_at |-> FromUnixtime(seen_at)]
                           \in Store!FlushRequest
                      /\ {Fold(p) : p \in Elements(names)} = {Fold(p) : p \in Elements(paths)}
                      /\ \A i, j \in DOMAIN names : SameKey(names[i], names[j]) => i = j
    BY DEF FlushNamesAreCounted
  <2> DEFINE t == Sorted(paths)
             names == Deduplicated(paths)
             keys == {Fold(p) : p \in Elements(names)}
  <2>1. /\ paths \in Seq(Strings) /\ Flushed \subseteq Strings
        /\ \A p \in Elements(paths) : p \in Flushed /\ IsPath(p)
    BY RequestAssumption DEF RequestTypes, TouchAdmitted, Elements, Strings
  <2>2. Elements(paths) # {}
    <3>1. Len(paths) \in 1..MaxTouch /\ MaxTouch \in Nat
      BY RequestAssumption DEF TouchAdmitted
    <3>2. 1 \in DOMAIN paths
      BY <2>1, <3>1
    <3> QED
      BY <3>2 DEF Elements
  <2>3. /\ t \in Seq(Strings) /\ Elements(t) = Elements(paths)
        /\ \A n, m \in DOMAIN t : n <= m => KeyUpTo(t[n], t[m])
    BY <2>1, SortedFacts
  <2> HIDE DEF t
  <2>4. /\ \A p \in Elements(t) : \E q \in Elements(Dedup(t)) : SameKey(p, q)
        /\ Elements(Dedup(t)) \subseteq Elements(t)
        /\ \A i, j \in DOMAIN Dedup(t) : SameKey(Dedup(t)[i], Dedup(t)[j]) => i = j
    BY <2>3, DedupFacts
  <2>5. names = Dedup(t)
    BY DEF Deduplicated, t
  <2> HIDE DEF names
  <2>6. keys = {Fold(p) : p \in Elements(paths)}
    <3>1. \A p \in Elements(paths) : \E q \in Elements(names) : Fold(p) = Fold(q)
      BY <2>3, <2>4, <2>5 DEF SameKey
    <3>2. Elements(names) \subseteq Elements(paths)
      BY <2>3, <2>4, <2>5
    <3> QED
      BY <3>1, <3>2
  <2>7. keys \in (SUBSET Keys) \ {{}}
    <3>1. \A p \in Elements(paths) : Fold(p) \in Keys
      BY <2>1 DEF Keys
    <3>2. keys \subseteq Keys /\ keys # {}
      BY <2>2, <2>6, <3>1
    <3> QED
      BY <3>2
  <2>8. FromUnixtime(seen_at) \in Nat \ {0}
    <3>1. seen_at \in 1..MaxSeen /\ MaxSeen \in Nat
      BY RequestAssumption DEF TouchAdmitted
    <3> QED
      BY <3>1 DEF FromUnixtime
  <2>9. Store!FlushRequest = [names : (SUBSET Keys) \ {{}}, seen_at : Nat \ {0}]
    BY DEF Store!FlushRequest
  <2> HIDE DEF keys
  <2>10. [names |-> keys, seen_at |-> FromUnixtime(seen_at)] \in Store!FlushRequest
    BY <2>7, <2>8, <2>9
  <2>11. \A i, j \in DOMAIN names : SameKey(names[i], names[j]) => i = j
    BY <2>4, <2>5
  <2> QED
    BY <2>6, <2>10, <2>11 DEF keys, names
<1> QED
  BY <1>1, RequestsAreTyped, PTL

=============================================================================
