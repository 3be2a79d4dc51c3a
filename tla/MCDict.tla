------------------------------- MODULE MCDict -------------------------------
\* Small instances of the hash table for TLC; the keys are their own hashes.
EXTENDS Dict
=============================================================================
