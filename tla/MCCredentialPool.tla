-------------------------- MODULE MCCredentialPool --------------------------
(* A small instance of CredentialPool for TLC. *)
EXTENDS CredentialPool, TLC

CONSTANTS c1, c2, o1, r1

Credentials == {c1, c2}
Operators == {o1}
Requests == {r1}
Priorities == {0, 1}

Symmetry == Permutations(Credentials)
=============================================================================
