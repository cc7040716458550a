------------------------------ MODULE MCUpload ------------------------------
(* Instances of Upload for TLC: the upload_*.cfg files. *)
EXTENDS Upload

CONSTANTS a, ab, x, c1, c2

MCNames    == {a, ab}
MCPrefixed == {<<a, a>>, <<ab, ab>>, <<a, ab>>}
File(n, c) == [name |-> n, content |-> c]
MCFiles    == {File(a, x), File(ab, x)}
MCJobs     == {[c \in Clients |-> IF c = c1 THEN File(a, x) ELSE f] : f \in MCFiles}
=============================================================================
