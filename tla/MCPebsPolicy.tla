---------------------------- MODULE MCPebsPolicy ----------------------------
(* PebsPolicy for TLC: one DRAM frame and a few NVM frames, so that every   *)
(* promotion needs a demotion.                                             *)
EXTENDS PebsPolicy, TLC

\* Structures of one tier, and addresses of one kind, are interchangeable;
\* the order of the free lists is quantified over in Init.
Symmetry == Permutations(DramFrames) \cup Permutations(NvmFrames)
            \cup Permutations(Sampled) \cup Permutations(Vas \ Sampled)

\* Behaviours in which the addresses that are not sampled are mapped
\* whenever a pass begins, so that DRAM is never idle.
ColdMapped == pol.pc # "sleep" => \A v \in Vas \ Sampled : pages[v] # NULL

\* Behaviours whose last call leaves at most one address mapped: three mmaps
\* in a row, or mmaps and munmaps that use a frame and an address again.
FewMapped == calls = MaxCalls => Cardinality({v \in Vas : vm[v] # NULL}) <= 1
=============================================================================
