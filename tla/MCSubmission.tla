--------------------------- MODULE MCSubmission ---------------------------
(* Instances of Submission for TLC.                                        *)
EXTENDS Submission, TLC

(* Identities are only compared with each other.                           *)
Renamings == Permutations(Id) \cup Permutations(Campaign)
=============================================================================
