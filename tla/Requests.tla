-------------------------------- MODULE Requests --------------------------------
(***************************************************************************)
(* What the writing verbs admit before they open a transaction: the whole   *)
(* declaration of SyncProjects (sync.rs, grants.rs), a flush's names and    *)
(* time (touch.rs), one registration (register.rs).  A caller puts a        *)
(* request together; what the checks let through must be what ProjectStore  *)
(* takes a declaration and a flush to be, and rows that the engine takes:   *)
(* the transactions are written for nothing else.                           *)
(***************************************************************************)
EXTENDS Paths, Integers, FiniteSets

CONSTANTS
  DeclaredRows,  \* rows a caller may declare, under roots or under projects
  TeamIds,       \* well-formed team ids
  MaxEntries,    \* bound: roots, and projects, of one declaration
  Registrations, \* what a caller may ask to register, by an account or not
  Flushed,       \* names a flush may offer
  MaxTouch,      \* MAX_TOUCH
  SeenAts,       \* seconds a flush may carry
  MaxSeen,       \* the last second a TIMESTAMP holds
  Code           \* Code[c]: the order of characters, as bytes compare

Null == "NULL"

ASSUME RequestAssumption ==
  /\ \A d \in DeclaredRows : d.path \in Seq(Chars)
  /\ \A r \in Registrations : r.path \in Seq(Chars)
  /\ Null \notin Users
  /\ Flushed \subseteq Seq(Chars)
  /\ {MaxEntries, MaxTouch, MaxSeen} \subseteq Nat \ {0}
  /\ SeenAts \subseteq Int
  /\ Code \in [Chars -> Nat]
  /\ \A c, d \in Chars : Code[c] = Code[d] => c = d

VARIABLES
  roots, projects,  \* SyncProjectsRequest: two lists of DeclaredProject
  paths, seen_at,   \* TouchProjectsRequest; 0 is no time yet
  registration      \* RegisterProjectRequest and the user of its Scope

request_vars == <<roots, projects, paths, seen_at, registration>>

NoRegistration == [path |-> <<>>, user |-> Null, source_repo |-> "empty", display_name |-> "short"]
NothingAsked ==
  roots = <<>> /\ projects = <<>> /\ paths = <<>> /\ seen_at = 0 /\ registration = NoRegistration

\* The caller's side: one more entry.
Declare ==
  /\ paths = <<>> /\ registration = NoRegistration
  /\ \E d \in DeclaredRows :
       \/ Len(roots) < MaxEntries /\ roots' = Append(roots, d) /\ UNCHANGED projects
       \/ Len(projects) < MaxEntries /\ projects' = Append(projects, d) /\ UNCHANGED roots
  /\ UNCHANGED <<paths, seen_at, registration>>

Offer ==
  /\ roots = <<>> /\ projects = <<>> /\ registration = NoRegistration
  /\ Len(paths) <= MaxTouch
  /\ \E p \in Flushed : paths' = Append(paths, p)
  /\ IF paths = <<>> THEN seen_at' \in SeenAts ELSE UNCHANGED seen_at
  /\ UNCHANGED <<roots, projects, registration>>

AskToRegister ==
  /\ NothingAsked
  /\ registration' \in Registrations
  /\ UNCHANGED <<roots, projects, paths, seen_at>>

Ask == Declare \/ Offer \/ AskToRegister
AskSpec == NothingAsked /\ [][Ask]_request_vars

(***************************************************************************)
(*                              SyncProjects                                *)
(***************************************************************************)
Elements(seq) == {seq[i] : i \in DOMAIN seq}
IsRoot(p) == Slashes(p) = {}
RootOf(p) == IF IsRoot(p) THEN p ELSE SubSeq(p, 1, FirstSlash(p) - 1)

\* grants::validate.
GrantsAreLegal(grants) ==
  /\ \A g \in Elements(grants) : g.level \in {1, 2} /\ g.team \in TeamIds
  /\ \A i, j \in DOMAIN grants : grants[i].team = grants[j].team => i = j

\* row: grammar, class, the repository, the two widths, the grants.
RowIsLegal(d) ==
  /\ SyncAdmits(d.path)
  /\ d.source_repo = "given"
  /\ d.display_name # "too_wide"
  /\ GrantsAreLegal(d.grants)

\* A project sits strictly beneath a declared root, in any spelling of it.
IsUnderARoot(p) == ~IsRoot(p) /\ \E r \in Elements(roots) : SameKey(r.path, RootOf(p))

Rows == roots \o projects

\* Mutant: duplicates are found as they are spelled.
NoDuplicatesAsSpelled == \A i, j \in DOMAIN Rows : Rows[i].path = Rows[j].path => i = j

\* refuse_duplicates, across roots and projects alike.
NoDuplicates == \A i, j \in DOMAIN Rows : SameKey(Rows[i].path, Rows[j].path) => i = j

\* validate.
Admitted ==
  /\ roots # <<>>
  /\ \A r \in Elements(roots) : RowIsLegal(r) /\ IsRoot(r.path)
  /\ \A p \in Elements(projects) : RowIsLegal(p) /\ IsUnderARoot(p.path)
  /\ NoDuplicates

\* What apply is given: a key, a content and grants for each row, written in
\* order; of two rows with one key the later would stay.
RowAt(key) == CHOOSE i \in DOMAIN Rows :
  Fold(Rows[i].path) = key /\ \A j \in DOMAIN Rows : Fold(Rows[j].path) = key => j <= i
Content(d) == <<d.display_name, d.source_repo>>
LevelOf(grants, team) ==
  LET given == {g \in Elements(grants) : g.team = team} IN
  IF given = {} THEN 0 ELSE (CHOOSE g \in given : TRUE).level

(***************************************************************************)
(*                              TouchProjects                               *)
(***************************************************************************)
\* FROM_UNIXTIME: NULL, here 0, for what a TIMESTAMP cannot hold.
FromUnixtime(seconds) == IF seconds \in 1..MaxSeen THEN seconds ELSE 0

TouchAdmitted ==
  /\ seen_at \in 1..MaxSeen
  /\ Len(paths) \in 1..MaxTouch
  /\ \A p \in Elements(paths) : IsPath(p)

\* s before t, byte by byte.
Before(s, t) ==
  \E n \in 0..Len(s) :
    /\ n <= Len(t)
    /\ \A i \in 1..n : s[i] = t[i]
    /\ \/ n = Len(s) /\ n < Len(t)
       \/ n < Len(s) /\ n < Len(t) /\ Code[s[n + 1]] < Code[t[n + 1]]

\* dedup_by: of neighbours with one key the first stays.
Dedup(seq) ==
  LET kept == {i \in DOMAIN seq : i = 1 \/ ~SameKey(seq[i - 1], seq[i])} IN
  [n \in 1..Cardinality(kept) |->
     seq[CHOOSE i \in kept : Cardinality({j \in kept : j <= i}) = n]]

\* Mutant: sorted as spelled, so that two spellings need not be neighbours.
SortedAsSpelled(names) ==
  LET upto(i) == {j \in DOMAIN names : \/ Before(names[j], names[i])
                                       \/ names[j] = names[i] /\ j <= i}
  IN  [n \in DOMAIN names |-> names[CHOOSE i \in DOMAIN names : Cardinality(upto(i)) = n]]

\* sort_by_key, which is stable: a name's place counts the names with a smaller
\* key, and those with its own that were offered no later.
Sorted(names) ==
  LET upto(i) == {j \in DOMAIN names : \/ Before(Fold(names[j]), Fold(names[i]))
                                       \/ SameKey(names[j], names[i]) /\ j <= i}
  IN  [n \in DOMAIN names |-> names[CHOOSE i \in DOMAIN names : Cardinality(upto(i)) = n]]

Deduplicated(names) == Dedup(Sorted(names))

(***************************************************************************)
(*                             RegisterProject                              *)
(***************************************************************************)
\* register and Class::of; a user id that is no account owns no segment.
RegistrationAdmitted ==
  /\ registration.user \in Users
  /\ RegisterAdmits(registration.path, registration.user)
  /\ registration.source_repo = "empty"
  /\ registration.display_name # "too_wide"

\* The columns the two INSERTs bind, as far as the constraints look at them.
RegisteredRow ==
  [path |-> registration.path, source_repo |-> Null, owner_user_id |-> registration.user]
DeclaredRow(d) == [path |-> d.path, source_repo |-> d.source_repo, owner_user_id |-> Null]

\* ck_project_class and ck_project_class_path, under the column's collation.
ProjectChecks(row) ==
  /\ (row.source_repo # Null) # (row.owner_user_id # Null)
  /\ (row.owner_user_id # Null) <=> Like(row.path, ReservedRoot \o <<"/", "%">>)

(***************************************************************************)
(*                                Properties                                *)
(***************************************************************************)
Keys == LET legal == {Fold(p) : p \in {q \in {d.path : d \in DeclaredRows} \cup Flushed : IsPath(q)}}
        IN  legal \cup {RootOf(k) : k \in legal}

Store == INSTANCE ProjectStore WITH
  Paths <- Keys, Root <- [k \in Keys |-> RootOf(k)], Aliases <- {}, AliasOf <- <<>>,
  Contents <- {Content(d) : d \in DeclaredRows}, Teams <- TeamIds, Levels <- {1, 2},
  NoRow <- "no row"

\* The declaration a request stands for; flags are the caller's.
Declared ==
  LET names == {Fold(d.path) : d \in Elements(Rows)} IN
  [names   |-> names,
   content |-> [k \in Keys |-> IF k \in names THEN Content(Rows[RowAt(k)])
                               ELSE Content(CHOOSE d \in DeclaredRows : TRUE)],
   level   |-> [k \in Keys |-> [t \in TeamIds |->
                  IF k \in names THEN LevelOf(Rows[RowAt(k)].grants, t) ELSE 0]],
   allow_mass_archive |-> FALSE, allow_mass_revoke |-> FALSE]

DeclarationStands ==
  Admitted =>
    /\ Declared \in Store!Declaration /\ Store!Admissible(Declared)
    /\ \A d \in Elements(Rows) :
         /\ ProjectChecks(DeclaredRow(d))
         /\ Declared.content[Fold(d.path)] = Content(d)
         /\ \A g \in Elements(d.grants) : Declared.level[Fold(d.path)][g.team] = g.level

RegistrationStands ==
  RegistrationAdmitted =>
    /\ ProjectChecks(RegisteredRow)
    /\ \A u \in Users :
         IsUnderOwnRoot(Fold(RegisteredRow.path), Account[u]) <=> u = RegisteredRow.owner_user_id

\* A declaration that passes every check is one the transaction is written for
\* (InputAssumption of SyncProjects), and says of each key what each row that has
\* it says: no row or grant is lost to another spelling of it (sync.rs, validate).
\* No admitted row of either writer breaks a CHECK, which a caller would be told as
\* INTERNAL, and the owner of a registered one can be read off its path in any
\* spelling (register.rs, Class::of).
AdmittedIsAdmissible == DeclarationStands /\ RegistrationStands

\* A flush that passes every check never writes NULL over a time, and offers each
\* key once: the number its warning compares with COUNT( * ) is the number of
\* rows its names can match (touch.rs, deduplicated).
FlushNamesAreCounted ==
  TouchAdmitted =>
    LET names == Deduplicated(paths) IN
    /\ [names |-> {Fold(p) : p \in Elements(names)}, seen_at |-> FromUnixtime(seen_at)]
         \in Store!FlushRequest
    /\ {Fold(p) : p \in Elements(names)} = {Fold(p) : p \in Elements(paths)}
    /\ \A i, j \in DOMAIN names : SameKey(names[i], names[j]) => i = j
=============================================================================
