-------------------------- MODULE MCBackgroundJobs --------------------------
(* Small instances of BackgroundJobs.                                      *)
EXTENDS BackgroundJobs, TLC

\* The identities of the Runs that the host admits are interchangeable.
Alike == Permutations(NextTurn)
=============================================================================
