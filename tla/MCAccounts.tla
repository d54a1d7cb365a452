----------------------------- MODULE MCAccounts -----------------------------
EXTENDS Accounts, TLC

CONSTANTS s1, t1, t2, n1, p1, p2, broker, carrier, f1, f2

Alike == Permutations(Stamps) \cup Permutations(Passwords) \cup Permutations(Profiles)
=============================================================================
