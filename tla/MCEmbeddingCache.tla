-------------------------- MODULE MCEmbeddingCache --------------------------
(***************************************************************************)
(* Instances of EmbeddingCache for TLC.                                    *)
(***************************************************************************)
EXTENDS EmbeddingCache, TLC

CONSTANTS t1, t2, t3, s1, s2, s3, s4

ThreeThreads == {t1, t2, t3}
FourSignatures == {s1, s2, s3, s4}
MCSymmetry == Permutations(ThreeThreads) \cup Permutations(FourSignatures)
============================================================================
