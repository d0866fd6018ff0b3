--------------------------- MODULE MCAuthSessions ---------------------------
(* Two requests of one user over two sessions.  The requests run the same    *)
(* code, so they may be exchanged.                                           *)
EXTENDS AuthSessions, TLC

CONSTANTS w1, w2, s1, s2, t1, t2, t3

Symmetry == Permutations(Requests)
=============================================================================
