------------------------------ MODULE MCSyncCalls ------------------------------
(* Three calls of four, for TLC: two syncs beside the late flush, or one sync *)
(* beside both flushes.                                                       *)
EXTENDS MCSyncProjects

CONSTANTS s1, s2, f1, f2

Early == [names |-> {api, web}, seen_at |-> 1]
Late  == [names |-> {old, web}, seen_at |-> 3]

\* Each declaration once before and once after another.
DeclarationPairs == {<<Full, Changed>>, <<Changed, Purge>>, <<Purge, Full>>}

\* Beginning a call is not fair, so a call left out takes nothing from CallsEnd.
FewCalls ==
  /\ Init
  /\ flush = (f1 :> Early) @@ (f2 :> Late)
  /\ <<declared[s1], declared[s2]>> \in DeclarationPairs
  /\ [][Next /\ (pc[s2] = "idle" \/ fpc[f1] = "idle")']_vars
  /\ Fairness
=============================================================================
