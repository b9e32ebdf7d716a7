-------------------------- MODULE MCRegistryStore --------------------------
EXTENDS RegistryImages, TLC
CONSTANTS b1, b2, m1
MCLayersOf(m) == Blobs
Sym == Permutations(Clients) \cup Permutations(Images)
============================================================================
