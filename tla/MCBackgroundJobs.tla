-------------------------- MODULE MCBackgroundJobs --------------------------
(***************************************************************************)
(* An instance of BackgroundJobs for TLC: two Playnite uploads of one      *)
(* participant beside a metadata sync and a full Steam sync, on two        *)
(* threads.  Of these imports one is at work at a time, so that a thread   *)
(* is left for the sync whose lock it waits for.                           *)
(***************************************************************************)
EXTENDS BackgroundJobs, TLC

CONSTANTS i1, i2, p1

MCImport == {i1, i2}
MCOwner  == (i1 :> p1) @@ (i2 :> p1)
MCKind   == (i1 :> "playnite") @@ (i2 :> "playnite")

=============================================================================
