--------------------------- MODULE MCGameMatching ---------------------------
(* Constants of GameMatching for TLC: a game, an edition of it that counts *)
(* as the same game, and one that does not.                                *)
EXTENDS GameMatching, TLC

CONSTANTS s1, s2, o1, plain, edition, other

SimilarTitles == {<<plain, edition>>, <<edition, plain>>}
ProviderNames == s1 :> {plain} @@ s2 :> {plain, edition} @@ o1 :> {plain}
GalaxyReleases == {{}, {s1}, {s1, s2}}

MatchingSymmetry == Permutations(Worker)

=============================================================================
