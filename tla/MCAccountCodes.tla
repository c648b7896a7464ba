---------------------------- MODULE MCAccountCodes ----------------------------
(* Instances of AccountCodes for TLC. *)
EXTENDS AccountCodes, TLC

\* Addresses and requests are interchangeable.
Symmetry == Permutations(Addresses) \cup Permutations(Requests)

Purpose(q) ==
  CASE q.op \in {"email_change", "change"} -> "email_change"
    [] q.op \in {"email_verify", "verify"} -> "email_verify"
    [] q.op \in {"account_delete", "delete"} -> "account_delete"
    [] OTHER -> "challenge"

Drawn == {codes[t] : t \in Ids} \ {NoCode, Deleted}
InUse == {c.purpose : c \in Drawn} \cup
         (IF challenge = NoChallenge THEN {} ELSE {"challenge"})
Targets == {c.target : c \in Drawn} \ {Null}

\* A change of the address that is committed beside the use of a code or of a
\* challenge.
ChangesBeside(q, other) == q.op = "change" /\ other.op \in {"verify", "prove"}

\* Bounds.  A purged account and the last session are the end: what such a step
\* reaches is checked and left.  Codes for any two purposes, or a code and a
\* challenge, are outstanding together while the account changes its address and
\* its credentials; then none has expired, of two for one purpose at most one
\* has.  Sessions that end by themselves touch the challenge only, other accounts
\* the codes for a change only.  A third address is one that only a request
\* names.  Requests that are served together are for one purpose, or one of them
\* changes the address the other vouches for, and then nothing has expired yet.
InPlay ==
  /\ account.state # "purged" /\ account.session < MaxSession
  /\ account.stamp = account.session \/ \A t \in Ids : codes[t] = NoCode
  /\ Cardinality({account.email} \cup taken \cup Targets) < 3
  /\ taken = {} \/ InUse \subseteq {"email_change"}
  /\ Cardinality(expired) < 2
  /\ Cardinality(InUse) = 2 => expired = {}
  /\ \A r, s \in Requests : r # s /\ Idle \notin {requests[r], requests[s]} =>
       /\ expired = {}
       /\ \/ InUse \cup {Purpose(requests[r])} = {Purpose(requests[s])}
          \/ ChangesBeside(requests[r], requests[s])
          \/ ChangesBeside(requests[s], requests[r])
=============================================================================
