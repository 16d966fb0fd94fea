------------------------- MODULE MCPublishPipeline -------------------------
(* Instances of PublishPipeline for TLC: two platform packages and their    *)
(* launcher, which is the first entry of the manifest.                      *)
EXTENDS PublishPipeline, TLC

CONSTANTS r1, r2, c1, c2, z1, z2, launcher, linux, darwin

ManifestOrder == [p \in Packages |->
  CASE p = launcher -> 1 [] p = linux -> 2 [] p = darwin -> 3]

Symmetry == Permutations(Runners) \union Permutations(Compressors)
=============================================================================
