------------------------------ MODULE MCXxlJob ------------------------------
(* Two jobs, each with a handler of its own, and two or three requests.         *)
EXTENDS XxlJob, TLC
CONSTANTS r1, r2, r3, j1, j2, h1, h2

TwoRuns     == {r1, r2}
ThreeRuns   == {r1, r2, r3}
MCHandlers  == {h1, h2}
MCJobs      == {j1, j2}
OwnHandlers == (j1 :> h1) @@ (j2 :> h2)
MCSymmetry  == Permutations(ThreeRuns)
=============================================================================
