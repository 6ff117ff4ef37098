---- MODULE MCRateLimiter ----
EXTENDS RateLimiter, TLC
CallersAlike == Permutations(Caller)
====
