---------------------------- MODULE MCCoapServer ----------------------------
(* A bridge with one OnOff and one level cluster for TLC. *)
EXTENDS CoapServer, TLC

CONSTANTS r1, r2, r3, u1, u2, m1, level, state, mode, dim

MCEntryCluster == (u1 :> OnOff) @@ (u2 :> AnyCluster) @@ (m1 :> level)

MCClusterOf == (state :> OnOff) @@ (mode :> OnOff) @@ (dim :> level)
MCCommandOf == (mode :> "On")

\* The requests are interchangeable: no property names one of them.
RequestSymmetry == Permutations(Requests)
=============================================================================
