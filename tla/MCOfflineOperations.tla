------------------------ MODULE MCOfflineOperations ------------------------
(* Small instances of OfflineOperations for TLC.                           *)
EXTENDS OfflineOperationsProofs, TLC

CONSTANTS a, b, c, r1, r2, r3, bad, d1, lic1, lic2, w1, w2, t1, t2

Env(o, s, r, l, k, deps) ==
    [op |-> o, device |-> d1, sequence |-> s, request |-> r, license |-> l,
     clock |-> k, creation |-> "inside", dependsOn |-> deps]

\* An operation, the same operation with another request, and a second
\* operation that reuses its local sequence and was created outside its
\* license's validity.
ReplayEnvelopes ==
    { Env(a, 1, r1, lic1, "trusted", {}), Env(a, 1, r2, lic1, "trusted", {}),
      [Env(b, 1, r3, lic1, "trusted", {}) EXCEPT !.creation = "outside"] }

\* A dependent, its prerequisite in two versions, one of which closes a cycle.
DependencyEnvelopes ==
    { Env(a, 1, r1, lic1, "trusted", {}), Env(a, 1, r1, lic1, "trusted", {b}),
      Env(b, 2, r2, lic1, "trusted", {a}) }

\* A prerequisite recorded after a suspected clock rollback, the same operation
\* with a license that does not verify, and a dependent whose request the
\* domain finds invalid.
Unsigned == Env(a, 1, r2, lic2, "trusted", {})
UnsignedOnly == {Unsigned}
RecoveryEnvelopes ==
    { Env(a, 1, r1, lic1, "clock_rollback_suspected", {}), Unsigned,
      Env(b, 2, bad, lic1, "trusted", {a}) }

\* A dependent of one applied and one never received operation.
MissingEnvelopes ==
    { Env(a, 1, r1, lic1, "trusted", {}), Env(c, 3, r3, lic1, "trusted", {a, b}) }

WorkerSymmetry == Permutations(Workers)
=============================================================================
