--------------------------- MODULE MCAuthRequests ---------------------------
(* Instances of AuthRequests for TLC. *)
EXTENDS AuthRequests, TLC

\* Every set of ids is interchangeable.
Symmetry == Permutations(Workers) \cup Permutations(Handlers)
            \cup Permutations(Devices) \cup Permutations(Tokens)
            \cup Permutations(Stamps) \cup Permutations(Requests)

\* The instances of Sessions explore refresh tokens past their expiry; here
\* one may expire only while no route is being served, and nothing is explored
\* from a state where that is not so.
ExpiryIsQuiet ==
  expired = {} \/ /\ \A w \in Workers : flight[w] = Idle
                  /\ \A h \in Handlers : serving[h] = NoService
=============================================================================
