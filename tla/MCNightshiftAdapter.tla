------------------------ MODULE MCNightshiftAdapter ------------------------
(* Instances of NightshiftAdapter for TLC.                                 *)
EXTENDS NightshiftAdapter, TLC

(* Occurrences are interchangeable; no liveness is checked with this.      *)
KeeperSymmetry == Permutations(Keepers)
=============================================================================
