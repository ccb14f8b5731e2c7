--------------------------- MODULE MCCspicePlugin ---------------------------
(***************************************************************************)
(* Instances of CspicePlugin for TLC: Mars by its own number 499 and by    *)
(* that of its barycenter 4, Earth, which is 399 to both, and an asteroid; *)
(* a DE kernel, a kernel of Mars and a kernel of the asteroid.             *)
(***************************************************************************)
EXTENDS CspicePlugin, TLC

CONSTANTS de, mars, ceres

MCTarget == {4, 399, 499, 2001}
MCPlanet == {399, 499}
MCDexxx  == [t \in {399, 499} |-> IF t = 499 THEN 4 ELSE t]
MCKernel == {de, mars, ceres}
MCTwoKernels == {de, mars}
MCCovers == [k \in Kernel |-> CASE k = de -> {4, 399} [] k = mars -> {499} [] k = ceres -> {2001}]

Threads == Permutations(Proc)

=============================================================================
