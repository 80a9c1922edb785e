--------------------------- MODULE MCSearchProviders ---------------------------
(* Two searches for TLC: page 1 with fallback, page 2 of the same query from   *)
(* all providers, which reads the cursor that the first one leaves.            *)
EXTENDS SearchProviders

CONSTANTS a, b

MCMode == [s \in Searches |-> IF s = a THEN "google" ELSE "all"]
MCPage == [s \in Searches |-> IF s = a THEN 1 ELSE 2]

=============================================================================
