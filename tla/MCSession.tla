----------------------------- MODULE MCSession -----------------------------
(***************************************************************************)
(* Instances of Session for TLC: a coinbase job and a direct-mid job, two  *)
(* targets, and digests of which only 0 solves a block.                    *)
(***************************************************************************)
EXTENDS SessionProperties

CONSTANTS coinbase, direct

BothJobs == {coinbase, direct}
OnlyDirect == {direct}
MCTargets == {1, 2}
MCDigests == 0 .. 2
MCNetworkTarget(job) == 0
=============================================================================
