--------------------------- MODULE MCTuningCache ---------------------------
(***************************************************************************)
(* An instance of TuningCache for TLC: a device where everything works and *)
(* one where the legacy kernel compiles but does not pass validation.      *)
(***************************************************************************)
EXTENDS TuningProperties, TLC

CONSTANTS p1, p2, good, odd, legacy, fast

MCProcesses == {p1, p2}
MCSymmetry == Permutations(MCProcesses)
MCDevices == {good, odd}
MCSelections == {legacy, fast}
MCRequests == {MCSelections, {fast}}
MCFallback(request) == IF legacy \in request THEN legacy ELSE fast
MCCompiles(device) == MCSelections
MCBuilds(device) == MCSelections
MCWorks(device) == IF device = good THEN MCSelections ELSE {fast}
=============================================================================
