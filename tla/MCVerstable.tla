---------------------------- MODULE MCVerstable ------------------------------
(* Small instances of Verstable for TLC.                                   *)
EXTENDS Verstable, TLC

CONSTANTS k1, k2, k3, k4, k5, v1, v2

(* Three keys share the home bucket 1 and two the home bucket 2, where the *)
(* first chain is displaced to, of a table of 4 or 8 buckets; two of the   *)
(* three share a fragment.                                                 *)
MCHash == (k1 :> 1) @@ (k2 :> 17) @@ (k3 :> 25) @@ (k4 :> 2) @@ (k5 :> 18)

MCPairs == {<<k1, v1>>, <<k1, v2>>, <<k2, v1>>, <<k3, v2>>, <<k4, v1>>, <<k5, v2>>}

(* No chain reaches the limit, but malloc may fail; or chains of at most   *)
(* three keys, and memory for every table that is needed.                  *)
MCPlatforms == {[limit |-> 31, mallocs |-> {0, 1}],
                [limit |-> 3, mallocs |-> {4}]}
=============================================================================
