------------------------ MODULE MCCredentialRegistry ------------------------
(* Small instances of CredentialRegistry for TLC. *)
EXTENDS CredentialRegistry, TLC, FiniteSets

CONSTANTS s1, s2, t1, t2, boot

BothSecrets == {s1, s2}
OneKey == {s2}
NoKey == {}
BothThreads == {t1, t2}
OneThread == {t1}

Symmetric == Permutations(BothThreads)

\* At most one kind of slip in a behaviour.
OneKindOfSlip == Cardinality(slips) <= 1
=============================================================================
