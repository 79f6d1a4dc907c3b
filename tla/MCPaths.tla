-------------------------------- MODULE MCPaths ---------------------------------
(***************************************************************************)
(* The instance of PathLaws, Resolve and Requests that TLC checks: a caller *)
(* types a string, asks a store for one of a few, or puts a request         *)
(* together.  Segments are short and the reserved root is one letter, so    *)
(* that private paths of two accounts fit.                                  *)
(***************************************************************************)
EXTENDS PathLaws, Resolve, Requests

AllChars == {"a", "b", "A", "l", "L", "_", ".", "/", " "}
LegalChars == AllChars \ {"/", " "}
LowerCase == [c \in AllChars |-> CASE c = "L" -> "l" [] c = "A" -> "a" [] OTHER -> c]
Local == <<"l">>
Owned == [u \in Users |-> IF u = "u1" THEN <<"a">> ELSE <<"b">>]

Offered == {<<"a">>, <<"A">>, <<"a", "/", "b">>, <<"A", "/", "b", "/", "a">>, <<"a", "b">>, <<"l">>,
            <<"l", "/", "a">>, <<"L", "/", "a">>, <<"l", "/", "b">>, <<"l", "/", "a", "/", "b">>}
Candidates == Offered \cup
           {<<"L">>, <<"A", "/", "b">>, <<"a", "/", "b", "/", "l">>, <<"L", "/", "a", "/", "b">>,
            <<"l", "/", "b", "/", "a">>, <<"a", "b", "/", "a">>, <<"b">>, <<"a", "/">>}

At(p) == [path |-> p, status |-> "active"]
Renamed(a, p) == [rows |-> {At(p)}, former |-> {[alias |-> a, path |-> p]}]
Found ==
  {[rows |-> {}, former |-> {}],
   [rows |-> {At(<<"l">>)}, former |-> {}],
   [rows |-> {At(<<"L">>)}, former |-> {}],
   Renamed(<<"L">>, <<"b">>), Renamed(<<"l">>, <<"b">>),
   Renamed(<<"a">>, <<"b">>), Renamed(<<"A", "/", "b">>, <<"b">>),
   Renamed(<<"a", "b">>, <<"a", "/", "b">>), Renamed(<<"l", "/", "a">>, <<"l", "/", "a", "/", "b">>)}

Letters == {"a", "b", "l", "L", "_", "/", " "}
ShortPaths == {s \in UNION {[1..n -> Letters] : n \in 1..3} : IsPath(s)}

\* "/" is before the letters and "_" between the two cases, as in ASCII.
Ascii == [c \in AllChars |->
  CASE c = " " -> 32 [] c = "." -> 46 [] c = "/" -> 47 [] c = "A" -> 65 [] c = "L" -> 76
    [] c = "_" -> 95 [] c = "a" -> 97 [] c = "b" -> 98 [] OTHER -> 108]

Entry(p, grants) == [path |-> p, source_repo |-> "given", display_name |-> "short", grants |-> grants]
Grant(team, level) == [team |-> team, level |-> level]
SentRows ==
  {Entry(<<"a">>, <<Grant("t1", 1)>>), Entry(<<"A">>, <<>>),
   Entry(<<"a", "/", "b">>, <<Grant("t1", 2), Grant("t2", 1)>>),
   [Entry(<<"A", "/", "b">>, <<>>) EXCEPT !.display_name = "other"],
   Entry(<<"b", "/", "a">>, <<>>), Entry(<<"l">>, <<>>), Entry(<<"L", "/", "a">>, <<>>),
   Entry(<<"a", "/">>, <<>>), Entry(<<"b">>, <<Grant("t1", 1), Grant("t1", 2)>>),
   Entry(<<"b">>, <<Grant("t2", 0)>>), Entry(<<"b">>, <<Grant("not a team", 1)>>),
   [Entry(<<"b">>, <<>>) EXCEPT !.source_repo = "empty"],
   [Entry(<<"b">>, <<>>) EXCEPT !.display_name = "too_wide"]}
SentNames == {<<"a">>, <<"A">>, <<"_">>, <<"A", "/", "b">>, <<"a", "/", "b">>, <<"/">>}
Seconds == {0, 1, 2, 3}
Sent == [path : Candidates, user : Users \cup {"not an account"}, source_repo : {"empty", "given"},
         display_name : {"short", "too_wide"}]

Nothing == NothingTyped /\ Init /\ NothingAsked
Idle == rows = {} /\ answer = None
TypeOrAsk ==
  \/ Idle /\ NothingAsked /\ Type /\ UNCHANGED <<vars, request_vars>>
  \/ name = <<>> /\ NothingAsked /\ Next /\ UNCHANGED <<name, request_vars>>
  \/ name = <<>> /\ Idle /\ Ask /\ UNCHANGED <<name, vars>>
TypeOrAskSpec == Nothing /\ [][TypeOrAsk]_<<vars, name, request_vars>>
=================================================================================
