------------------------------- MODULE MCVault -------------------------------
\* Small instances of Vault.
EXTENDS Vault, TLC

Symmetry == Permutations(Requests) \cup Permutations(Ciphers)
=============================================================================
