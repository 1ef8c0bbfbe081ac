----------------------------- MODULE MCPlatform ------------------------------
EXTENDS Platform, TLC

PlatformSymmetry == Permutations(KeyThreads) \cup Permutations(EmbedThreads) \cup Permutations(Keys)
==============================================================================
