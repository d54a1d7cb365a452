-------------------------- MODULE MCSnapshotCache --------------------------
(* Values for checking SnapshotCache with TLC. *)
EXTENDS SnapshotCache, TLC

CONSTANTS u1, u2, bad

(* Two numbers the service knows, and the id of a user, which is none. *)
Asked == {u1, u2, bad}
Accepted == {u1, u2}
Same == Permutations(Accepted)
=============================================================================
