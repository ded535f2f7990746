--------------------------- MODULE MCOpenClBatch ---------------------------
(***************************************************************************)
(* An instance of OpenClBatch for TLC.  Three jobs: two of one header, of  *)
(* which one has the harder target, and one of another header whose batch  *)
(* overflows the buffer.                                                   *)
(***************************************************************************)
EXTENDS OpenClProperties

CONSTANTS easy, hard, other

MCJobs == {easy, hard, other}
MCHeaders == {0, 1}
MCHeader(j) == IF j = other THEN 1 ELSE 0
MCTarget(j) == IF j = hard THEN 0 ELSE 1

(* Nonces 0 to 3 of header 0 give 1, 2, 0, 2; those of header 1 at most 1, *)
(* but for nonce 3.                                                        *)
MCPrefix(header, nonce) ==
  IF header = 0 THEN <<1, 2, 0, 2>>[nonce + 1] ELSE <<0, 1, 1, 2>>[nonce + 1]
=============================================================================
