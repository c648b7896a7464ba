--------------------------- MODULE MCAttachments ---------------------------
(* Instances of Attachments for TLC. *)
EXTENDS Attachments, TLC

CONSTANT Large   \* the attachments of two units; the others have one
SizeOf == [a \in Attachments |-> IF a \in Large THEN 2 ELSE 1]

Symmetry == Permutations(Workers) \cup Permutations(Ciphers)
            \cup Permutations(Large) \cup Permutations(Attachments \ Large)

\* The only failure is that of the mark: no other step fails or is cut short.
OnlyTheMarkFails ==
  \A w \in Workers :
    /\ ~PutFails(w)
    /\ Abandon(w) => serving[w].op = "upload" /\ serving[w].at = "check"
=============================================================================
