---------------------------- MODULE MCOAuthStore ----------------------------
(* Small instances of the OAuth store for TLC. *)
EXTENDS OAuthStore, TLC

\* Generated identifiers are interchangeable.
Symmetry == Permutations(Clients) \cup Permutations(Codes) \cup Permutations(Tokens)

=============================================================================
