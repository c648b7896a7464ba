----------------------------- MODULE MCSessions -----------------------------
(* Instances of Sessions for TLC. *)
EXTENDS Sessions, FiniteSets, TLC

\* Workers, devices, tokens, stamps, passwords and secrets are interchangeable.
Symmetry == Permutations(Workers) \cup Permutations(Devices)
            \cup Permutations(Tokens) \cup Permutations(Stamps)
            \cup Permutations(Passwords) \cup Permutations(Secrets)

\* Bound: with a second factor, one stamp and two refresh tokens; without it all.
InPlay ==
  spent \cap Secrets # {} =>
    /\ Cardinality(spent \cap Stamps) = 1
    /\ Cardinality({t \in Tokens : tokens[t] # Unused}) < 3
=============================================================================
