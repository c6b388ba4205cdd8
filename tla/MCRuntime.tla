------------------------------ MODULE MCRuntime ------------------------------
(* Instances of Runtime for TLC. *)
EXTENDS Runtime, TLC

CONSTANTS t1, q1, q2, c1, e1

OneRunner == {t1}
Requests2 == {q1, q2}
Probe == {q1}
OneCoro == {c1}
OneEmission == {e1}
MixedPolicies == <<"Async", "Async", "Sync">>
=============================================================================
