--------------------------------- MODULE MCPool ---------------------------------
(***************************************************************************)
(* The instance of Pool that TLC checks.                                    *)
(***************************************************************************)
EXTENDS Pool

\* Spent, inside the margin, the longest that the deadline bounds, the shortest
\* that the ceiling bounds, and none.
SomeBudgets == {1, Margin + 1, Ceiling + Margin - 1, Ceiling + Margin, NoDeadline}
=============================================================================
