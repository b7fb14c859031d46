------------------------------ MODULE MCLookup ------------------------------
(* Two servers with full attention only, or one server with a sliding     *)
(* window besides.                                                         *)
EXTENDS Lookup

CONSTANTS a, b, full, slide

FullOnly == [g \in {full, slide} |-> -1]
Sliding  == [g \in {full, slide} |-> IF g = slide THEN 1 ELSE -1]

AllFaults == {"refused", "lost", "timeout", "health", "load"}

\* What a server finds: with two servers, one finds more or less than the other.
Found(s, servers) ==
  IF s = b THEN {1} ELSE IF b \in servers THEN {0, NumChunks} ELSE 0 .. NumChunks

Deployment(servers, windows, replay, whole, faults) ==
  [servers |-> servers, window |-> windows, replay |-> replay, whole |-> whole,
   faults |-> faults, found |-> [s \in Servers |-> Found(s, servers)]]

Faulty    == {Deployment({a}, Sliding, FALSE, FALSE, AllFaults)}
Two       == {Deployment({a, b}, FullOnly, FALSE, TRUE, {})}
Failed    == {Deployment({a}, FullOnly, FALSE, TRUE, {"failed", "lost", "load"})}
Supported == Faulty \cup Two \cup Failed
Replay    == {Deployment({a}, FullOnly, TRUE, TRUE, {})}
Mismatch  == {Deployment({a, b}, Sliding, FALSE, TRUE, {})}
=============================================================================
