---------------------------- MODULE PrefixCache ----------------------------
(* prefix_cache_read of kiro/cache_sim.rs, with fingerprints of one token each. *)
EXTENDS Naturals, Sequences

\* How far two sequences of fingerprints agree from their beginning.
CommonPrefix(p, q) ==
    LET short == IF Len(p) < Len(q) THEN Len(p) ELSE Len(q)
    IN  CHOOSE n \in 0 .. short :
            /\ \A i \in 1 .. n : p[i] = q[i]
            /\ n < short => p[n + 1] # q[n + 1]
=============================================================================
