-------------------------------- MODULE PathLaws --------------------------------
(***************************************************************************)
(* What the operators of Paths owe each other, as invariants of a caller    *)
(* that types a path character by character, so that TLC meets every string *)
(* over Chars up to TypedLen.                                               *)
(***************************************************************************)
EXTENDS Paths

CONSTANTS
  TypedLen,  \* bound: the longest string typed
  Typed,     \* the characters typed
  Unders     \* strings a caller may list under

ASSUME TypingAssumption == Typed \subseteq Chars /\ Unders \subseteq Seq(Chars)

VARIABLE name

NothingTyped == name = <<>>

Type ==
  /\ Len(name) < TypedLen
  /\ \E c \in Typed : name' = Append(name, c)

Writers == Users \cup {"sync"}
Admits(w, s) == IF w = "sync" THEN SyncAdmits(s) ELSE RegisterAdmits(s, w)

\* resolve walks the path and its ancestors, all of them and nothing else,
\* deepest first: acme/team is none of acme/teamx/svc (path.rs, ancestors).
WalksTheAncestors ==
  IsPath(name) =>
    LET chain == Ancestors(name) IN
    /\ {chain[i] : i \in DOMAIN chain} = Above(name)
    /\ \A i, j \in DOMAIN chain : i < j => Len(chain[i]) > Len(chain[j])
    /\ \A i \in DOMAIN chain : IsPath(chain[i])

\* list answers the project it is asked about and its descendants, whatever
\* metacharacters the two names contain and however they are spelled (sql.rs).
ListsTheSubtree ==
  IsPath(name) =>
    \A under \in Unders : IsPath(under) =>
      (Listed(name, under) <=> \E a \in Above(name) : SameKey(a, under))

\* The class path.rs reads off a path is the one the engine's CHECK reads off
\* the row, path LIKE 'local/%' (ck_project_class_path): no insert is refused as
\* a class mismatch, which a caller would see as INTERNAL.
ClassIsTheEngines ==
  IsPath(name) => (IsPrivateClass(name) <=> Like(name, ReservedRoot \o <<"/", "%">>))

\* A key of the store has one writer at most, in all its spellings together:
\* the declaration or one account (ADR-0936, ADR-0954).
OneWriterPerKey ==
  LET admitted == {a \in Writers \X Spellings(name) : Admits(a[1], a[2])} IN
  \A a, b \in admitted : a[1] = b[1]
=============================================================================
