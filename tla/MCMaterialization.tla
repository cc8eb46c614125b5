--------------------------- MODULE MCMaterialization ---------------------------
(***************************************************************************)
(* The instance of Materialization for TLC: three events, two processes.   *)
(***************************************************************************)
EXTENDS Materialization, TLC

CONSTANTS p1, p2

\* With windows of two units and a late interval of one, the three events fall
\* into three windows, or the last two into one; the first may come within the
\* late interval of the second, or outside it.
MCTimestamps == {<<1, 2, 4>>, <<1, 4, 5>>}
Symmetry == Permutations({p1, p2})
=============================================================================
