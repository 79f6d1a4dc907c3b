---------------------------------- MODULE Paths ----------------------------------
(***************************************************************************)
(* What a project path is (src/src/path.rs), who may write at one, and what *)
(* a LIKE pattern of sql.rs matches.  A path is a sequence of characters;   *)
(* the grammar is this service's subject, so the characters matter here.    *)
(***************************************************************************)
EXTENDS Naturals, Sequences

CONSTANTS
  Chars,         \* every character considered
  SegmentChars,  \* those a segment may contain: ASCII letters, digits . _ -
  Lower,         \* ASCII lower case of a character
  ReservedRoot,  \* "local", in lower case
  MaxLen,        \* the width of project.path
  Users,         \* accounts
  Account        \* Account[u]: the segment u owns, a lower-case uuid

\* Case changes letters only.  An account's segment is one legal segment in
\* lower case, and nobody else's; the reserved one is letters.
ASSUME PathAssumption ==
  /\ {"/", "."} \subseteq Chars
  /\ SegmentChars \subseteq Chars \ {"/", "\\", "%"}
  /\ Lower \in [Chars -> Chars]
  /\ \A c \in Chars :
       /\ Lower[Lower[c]] = Lower[c]
       /\ Lower[c] = "/" <=> c = "/"
       /\ Lower[c] = "." <=> c = "."
       /\ Lower[c] \in SegmentChars <=> c \in SegmentChars
  /\ ReservedRoot \in Seq(SegmentChars \ {"_", "."})
  /\ \A i \in DOMAIN ReservedRoot : Lower[ReservedRoot[i]] = ReservedRoot[i]
  /\ MaxLen \in Nat
  /\ Account \in [Users -> Seq(SegmentChars)]
  /\ \A u \in Users : \A i \in DOMAIN Account[u] : Lower[Account[u][i]] = Account[u][i]
  /\ \A u, v \in Users : Account[u] = Account[v] => u = v

Fold(s) == [i \in DOMAIN s |-> Lower[s[i]]]

\* eq_ignore_ascii_case, and the engine's = under utf8mb4_general_ci.
SameKey(s, t) == Fold(s) = Fold(t)

(***************************************************************************)
(*                                Grammar                                   *)
(***************************************************************************)
Slashes(s) == {i \in DOMAIN s : s[i] = "/"}

\* split('/'): what lies between two neighbouring slashes or ends.
Segments(s) ==
  LET ends == Slashes(s) \cup {0, Len(s) + 1} IN
  {SubSeq(s, e[1] + 1, e[2] - 1) : e \in
     {e \in ends \X ends : e[1] < e[2] /\ ~\E k \in ends : e[1] < k /\ k < e[2]}}

SegmentIsLegal(seg) ==
  /\ seg \notin {<<>>, <<".">>, <<".", ".">>}
  /\ \A i \in DOMAIN seg : seg[i] \in SegmentChars

\* `validate` refuses everything else.
IsPath(s) == Len(s) <= MaxLen /\ \A seg \in Segments(s) : SegmentIsLegal(seg)

\* refuse_reserved_root refuses it: the bare segment, in any spelling.
IsReservedRoot(s) == SameKey(s, ReservedRoot)

FirstSlash(s) == CHOOSE i \in Slashes(s) : \A j \in Slashes(s) : i <= j
LastSlash(s) == CHOOSE i \in Slashes(s) : \A j \in Slashes(s) : j <= i

\* Mutant: the first segment is compared byte by byte.
IsPrivateClassBytes(s) ==
  Slashes(s) # {} /\ SubSeq(s, 1, FirstSlash(s) - 1) = ReservedRoot

\* Mutant: a prefix, not a segment.
IsPrivatePrefix(s) ==
  Len(s) > Len(ReservedRoot) /\ SameKey(SubSeq(s, 1, Len(ReservedRoot)), ReservedRoot)

\* split_once('/'): the first segment of several is the reserved one.
IsPrivateClass(s) ==
  Slashes(s) # {} /\ SameKey(SubSeq(s, 1, FirstSlash(s) - 1), ReservedRoot)

\* local/<seg> or anything beneath it, byte for byte.
IsUnderOwnRoot(s, seg) ==
  LET own == ReservedRoot \o <<"/">> \o seg IN
  s = own \/ (Len(s) > Len(own) /\ SubSeq(s, 1, Len(own) + 1) = own \o <<"/">>)

\* Mutant: every string prefix.
AllPrefixes(s) == [i \in 1..Len(s) |-> SubSeq(s, 1, Len(s) + 1 - i)]

\* The path and every ancestor of it, deepest first: cut at the last slash
\* while there is one.
Ancestors(s) ==
  LET chain[n \in 0..Len(s)] ==
        LET rest == SubSeq(s, 1, n) IN
        IF Slashes(rest) = {} THEN <<rest>>
        ELSE <<rest>> \o chain[LastSlash(rest) - 1]
  IN  chain[Len(s)]

(***************************************************************************)
(*          Ancestry and spelling, as the properties speak of them          *)
(***************************************************************************)
\* The reference for Ancestors: s itself, and s up to each of its slashes.
Above(s) == {s} \cup {SubSeq(s, 1, i - 1) : i \in Slashes(s)}

\* Every spelling of a string whose letters come in two cases.
Upper(c) == IF \E d \in Chars \ {c} : Lower[d] = c
              THEN CHOOSE d \in Chars \ {c} : Lower[d] = c ELSE c
Spellings(s) ==
  {[i \in DOMAIN s |-> IF i \in up THEN Upper(Lower[s[i]]) ELSE Lower[s[i]]] :
     up \in SUBSET DOMAIN s}

(***************************************************************************)
(*                           Who may write where                            *)
(***************************************************************************)
\* A declared row (sync.rs, row): an organisation path.
SyncAdmits(s) == IsPath(s) /\ ~IsReservedRoot(s) /\ ~IsPrivateClass(s)

\* A registration (register.rs, Class::of): under the caller's own root.
RegisterAdmits(s, u) ==
  IsPath(s) /\ ~IsReservedRoot(s) /\ IsPrivateClass(s) /\ IsUnderOwnRoot(s, Account[u])

(***************************************************************************)
(*                                 LIKE                                     *)
(***************************************************************************)
Wild == {"\\", "%", "_"}

\* Mutant: the value goes into the pattern as it is.
LikeUnescaped(s) == s

\* like_escape: a backslash before each metacharacter.
LikeEscape(s) ==
  LET out[n \in 0..Len(s)] ==
        IF n = 0 THEN <<>>
        ELSE out[n - 1] \o (IF s[n] \in Wild THEN <<"\\">> ELSE <<>>) \o <<s[n]>>
  IN  out[Len(s)]

\* sql::subtree: everything strictly beneath a path.
Subtree(s) == LikeEscape(s) \o <<"/", "%">>

\* The engine's s LIKE pattern ESCAPE '\', case folded: from[i] are the places
\* of s from which the pattern, from its i-th character on, matches to the end.
Like(s, pattern) ==
  LET from[i \in 1..(Len(pattern) + 1)] ==
        IF i > Len(pattern) THEN {Len(s) + 1}
        ELSE LET rest == from[IF pattern[i] = "\\" THEN i + 2 ELSE i + 1]
                 Literally(c) == {j \in 1..Len(s) : Lower[s[j]] = Lower[c] /\ j + 1 \in rest}
             IN  CASE pattern[i] = "\\" -> Literally(pattern[i + 1])
                   [] pattern[i] = "%" -> {j \in 1..(Len(s) + 1) : \E k \in rest : j <= k}
                   [] pattern[i] = "_" -> {j \in 1..Len(s) : j + 1 \in rest}
                   [] OTHER -> Literally(pattern[i])
  IN  1 \in from[1]

\* The rows list selects under a path: the named one and its subtree.
Listed(s, under) == SameKey(s, under) \/ Like(s, Subtree(under))
=============================================================================
