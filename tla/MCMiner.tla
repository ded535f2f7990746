------------------------------ MODULE MCMiner ------------------------------
(***************************************************************************)
(* Instances of Miner for TLC.                                             *)
(***************************************************************************)
EXTENDS MinerProperties

(* Two headers solved by different nonces under the loose target, the      *)
(* first with a candidate that is no solution; nothing solves the tight    *)
(* one.                                                                    *)
TwoHeaders == {1, 2}
MCTargets == {0, 2}
MCDigest(h, n) == IF h = 1 THEN 2 * n + 1 ELSE 4 - 2 * n
MCPrefix(x) == x \div 2

(* One header, solved by nonce 0 alone.                                    *)
OneHeader == {1}
OneTarget == {1}
OneDigest(h, n) == n + 1
=============================================================================
