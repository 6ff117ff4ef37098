---- MODULE MCRevocation ----
EXTENDS Revocation, TLC
WorkersAlike == Permutations(Worker)
====
