--------------------------- MODULE MCRedditQueue ---------------------------
(* Small instances of the Reddit request queue for TLC. *)
EXTENDS RedditQueue, TLC

\* Requests are interchangeable, and so are processor tasks.
Symmetry == Permutations(Items) \cup Permutations(Procs)

=============================================================================
