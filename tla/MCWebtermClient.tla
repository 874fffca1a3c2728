-------------------------- MODULE MCWebtermClient ---------------------------
(* Small instances of WebtermClient for TLC. *)
EXTENDS WebtermClient, TLC

\* Calls are interchangeable, and so are commands and symbols.
Symmetry ==
    Permutations(Requests) \union Permutations(Subscribers)
        \union Permutations(Commands) \union Permutations(Symbols)

=============================================================================
