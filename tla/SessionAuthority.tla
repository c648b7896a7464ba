-------------------------- MODULE SessionAuthority --------------------------
(***************************************************************************)
(* What the login sessions of an account promise, without tokens, requests *)
(* or batches.  An account has an epoch.  A device is in at most one       *)
(* session; a session is opened once, under the epoch of that moment, and  *)
(* a claim is issued only for an open session under the present epoch.     *)
(* When the epoch changes every session closes.                            *)
(***************************************************************************)
CONSTANTS Devices, Sessions, Epochs, None

VARIABLES epoch,      \* the present epoch of the account
          suspended,  \* TRUE while nobody may be logged in
          used,       \* every epoch so far
          open,       \* the session each device is in, or None
          begun,      \* sessions opened so far
          issued      \* claims signed so far

vars == <<epoch, suspended, used, open, begun, issued>>

Claim(d, s, e) == [device |-> d, session |-> s, epoch |-> e]

Init ==
  /\ epoch \in Epochs
  /\ used = {epoch}
  /\ suspended = FALSE
  /\ open = [d \in Devices |-> None]
  /\ begun = {}
  /\ issued = {}

Open(d, s) ==
  /\ ~suspended
  /\ s \notin begun
  /\ open' = [open EXCEPT ![d] = s]
  /\ begun' = begun \cup {s}
  /\ issued' = issued \cup {Claim(d, s, epoch)}
  /\ UNCHANGED <<epoch, suspended, used>>

Renew(d) ==
  /\ ~suspended
  /\ open[d] # None
  /\ issued' = issued \cup {Claim(d, open[d], epoch)}
  /\ UNCHANGED <<epoch, suspended, used, open, begun>>

Close(D) ==
  /\ open' = [d \in Devices |-> IF d \in D THEN None ELSE open[d]]
  /\ UNCHANGED <<epoch, suspended, used, begun, issued>>

\* New credentials, suspension and restoration.
NewEpoch(e) ==
  /\ e \notin used
  /\ epoch' = e
  /\ used' = used \cup {e}
  /\ suspended' \in BOOLEAN
  /\ open' = [d \in Devices |-> None]
  /\ UNCHANGED <<begun, issued>>

Next ==
  \/ \E d \in Devices, s \in Sessions : Open(d, s)
  \/ \E d \in Devices : Renew(d)
  \/ \E D \in SUBSET Devices : Close(D)
  \/ \E e \in Epochs : NewEpoch(e)

Spec == Init /\ [][Next]_vars
=============================================================================
