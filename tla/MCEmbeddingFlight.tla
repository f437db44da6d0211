------------------------- MODULE MCEmbeddingFlight -------------------------
(* Instances of EmbeddingFlight for TLC: as many locks as requests, since a *)
(* request refers to at most one, and a cache smaller than the set of keys. *)
EXTENDS EmbeddingFlight, TLC

Alike == Permutations(Requests) \cup Permutations(Locks) \cup Permutations(Keys)

=============================================================================
