---------------------------- MODULE MCOwnerships ----------------------------
(***************************************************************************)
(* Instances of Ownerships for TLC.                                        *)
(***************************************************************************)
EXTENDS Ownerships, TLC

(* Workers and accounts are interchangeable.                               *)
OwnershipSymmetry == Permutations(Worker) \cup Permutations(Account)

=============================================================================
