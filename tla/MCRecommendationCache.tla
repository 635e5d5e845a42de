----------------------- MODULE MCRecommendationCache -----------------------
(***************************************************************************)
(* Instances of RecommendationCache for TLC.                               *)
(***************************************************************************)
EXTENDS RecommendationCache, TLC

(* Requests, sessions and keys are interchangeable; processes only when    *)
(* neither SomeProcess nor SomeKey tells them apart, so they are left out. *)
ClientSymmetry == Permutations(Client) \cup Permutations(Session)

(* No action reads copy except to update it, so runs whose properties do   *)
(* not mention it may identify states that differ only there.              *)
WithoutCopies ==
  <<committed, dbRev, cacheVars, writer, pc, req, crashes, lostBumps, covers,
    told>>

=============================================================================
