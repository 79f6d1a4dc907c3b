-------------------------- MODULE MCRegisterProject -------------------------
(* Retries of a key, a rival without it, and a key used twice, for TLC. *)
EXTENDS RegisterProject

CONSTANTS p1, p2, old, k1, k2, n1, n2, r1, r2, r3

OneCall ==
  {[path |-> p1, name |-> n1, key |-> k1],     \* the request, and its retries
   [path |-> p2, name |-> n1, key |-> k1],     \* its key on another path
   [path |-> p1, name |-> n2, key |-> k2],     \* its path under another key
   [path |-> p1, name |-> n1, key |-> NoKey],  \* its path without a key
   [path |-> old, name |-> n1, key |-> k1]}    \* its key on a former path
\* Calls differ in their requests only, so their order does not matter: one
\* assignment stands for its permutations.
Rank(r) ==
  IF r.path = old THEN 1 ELSE IF r.path = p2 THEN 2
  ELSE IF r.key = k1 THEN 3 ELSE IF r.key = k2 THEN 4 ELSE 5
MCRequests ==
  {f \in [Calls -> OneCall] : Rank(f[r1]) <= Rank(f[r2]) /\ Rank(f[r2]) <= Rank(f[r3])}
MCOldClaims ==
  {[k \in Keys |-> NoClaim],
   [k \in Keys |-> IF k = k2
                   THEN [rpc |-> "ArchiveProject", payload |-> [path |-> p1, name |-> n1], id |-> NoCall]
                   ELSE NoClaim]}
=============================================================================
