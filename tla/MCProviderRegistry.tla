-------------------------- MODULE MCProviderRegistry --------------------------
EXTENDS ProviderRegistry
CONSTANTS t1, t2, a1, a2, a3, s1, s2
=============================================================================
