---- MODULE MCWebLogin ----
EXTENDS WebLogin, TLC
Alike == Permutations(Browser) \cup Permutations(Mail)
====
