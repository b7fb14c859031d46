---------------------------- MODULE MCOrchestrator ----------------------------
(* Two MP servers and two orchestrator processes on a region of two units.  *)
EXTENDS Orchestrator, TLC

OneUnit == [s \in Shapes |-> 1]
SingleWrites == {[k \in {j} |-> s] : j \in Keys, s \in Shapes}
SingleReads == {{k} : k \in Keys}

\* Every property is an invariant and nothing tells clients or pids apart.
Symmetry == Permutations(Clients) \cup Permutations(Procs)
=============================================================================
