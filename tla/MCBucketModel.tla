--------------------------- MODULE MCBucketModel ---------------------------
(* Small instances for BucketModel: two buckets in each skew. *)
EXTENDS BucketModel, TLC

Symmetry == Permutations(Ball1) \cup Permutations(Ball0)
             \cup Permutations(Skew0) \cup Permutations(Skew1)
=============================================================================
