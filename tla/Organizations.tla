--------------------------- MODULE Organizations ---------------------------
(***************************************************************************)
(* One organization in D1: its members and their roles, the collections    *)
(* granted to members and to groups, the policy that requires a second     *)
(* factor, and the revisions that tell clients when to sync; with what the *)
(* accounts of its members do meanwhile.                                   *)
(*                                                                         *)
(* Every route changes the tables in one batch, and decides within it      *)
(* whether its actor may: a route is one step.  What it brings along from  *)
(* before the batch is what the client asked for and the time it read; a   *)
(* request takes any time, and workers have clocks of their own, so that   *)
(* time is any time.                                                       *)
(*                                                                         *)
(* An address is invited once (UNIQUE (organization_id, email)) and is     *)
(* accepted by the account of that address: rows are known by the account. *)
(***************************************************************************)
EXTENDS Naturals

CONSTANTS Users,         \* addresses, with or without an account
          Groups, Collections,   \* ids
          LastTime,      \* bound on the times read
          LastBatch      \* bound on the batches that change the organization

ASSUME BoundsAreNatural == LastTime \in Nat /\ LastBatch \in Nat

VARIABLES users,        \* each account, its factor, its revision
          members,      \* the membership row of each address
          groups,       \* each group, its members and its collections
          collections,  \* the collections that exist
          policy,       \* two-factor login is required
          revision,     \* of the organization
          batches       \* that changed it, for the bound

vars == <<users, members, groups, collections, policy, revision, batches>>

-----------------------------------------------------------------------------
(* The tables *)

Times     == 1 .. LastTime
Later(r, s) == IF r < s THEN s ELSE r

\* verified: a live session of the account shows a code of its factor.
Account == [state : {"unregistered", "enabled", "disabled", "purged"},
            enrolled : BOOLEAN, verified : BOOLEAN, rev : Nat]

\* bound: user_id is set; key and token are the nullable columns of these names.
Row == [status : {"none", "invited", "accepted", "confirmed", "revoked"},
        type : {"owner", "admin", "user"},
        bound : BOOLEAN, key : BOOLEAN, token : BOOLEAN,
        grants : SUBSET Collections]
NoRow == [status |-> "none", type |-> "user", bound |-> FALSE,
          key |-> FALSE, token |-> FALSE, grants |-> {}]

Group   == [exists : BOOLEAN, users : SUBSET Users,
            collections : SUBSET Collections]
NoGroup == [exists |-> FALSE, users |-> {}, collections |-> {}]

Enabled(u)   == users[u].state = "enabled"
Present(u)   == members[u].status \in {"invited", "accepted", "confirmed"}
Confirmed(u) == members[u].status = "confirmed"
Owner(u)     == Confirmed(u) /\ members[u].type = "owner"
Admin(u)     == Confirmed(u) /\ members[u].type = "admin"

\* The collections a confirmed member reaches, of its own and through groups.
Reach(u) ==
  IF Confirmed(u)
    THEN members[u].grants
           \cup UNION {groups[g].collections : g \in {h \in Groups : u \in groups[h].users}}
    ELSE {}

\* The revision the client of an account polls.
Polled(u) == IF Confirmed(u) THEN Later(users[u].rev, revision) ELSE users[u].rev

-----------------------------------------------------------------------------
(* Who may *)

\* The account has a session, and one the policy lets through.
Acts(u) == Enabled(u) /\ (policy => users[u].verified)

\* Whose account keeps the organization administered while the others leave.
Holds(u) == Owner(u) /\ Enabled(u) /\ (policy => users[u].enrolled)
\* Slip: any other owner will do.
AnotherOwner(u) == \E o \in Users \ {u} : Owner(o)

EnabledOwner(u) == \E o \in Users \ {u} : Holds(o)
LastConfirmedOwner(u) == Owner(u) /\ ~EnabledOwner(u)

MayManage(a, type) == Acts(a) /\ (Owner(a) \/ (Admin(a) /\ type = "user"))
MayManageGroups(a) == Acts(a) /\ (Owner(a) \/ Admin(a))

-----------------------------------------------------------------------------
(* What every batch of members, groups and the policy ends with: the          *)
(* organization and the accounts concerned get revisions after all they had.  *)

Counted == batches < LastBatch /\ batches' = batches + 1

Commit(concerned, now) ==
  /\ Counted
  /\ revision' = Later(revision, now) + 1
  /\ users' = [u \in Users |->
                 IF u \in concerned
                   THEN [users[u] EXCEPT !.rev = Later(@, revision') + 1]
                   ELSE users[u]]

Bound(S) == {u \in S : members[u].bound}

-----------------------------------------------------------------------------
(* Members *)

InviteMembers(a, invited, type, grants, now) ==
  /\ MayManage(a, type)
  /\ invited # {} /\ grants \subseteq collections
  /\ \A u \in invited : members[u].status = "none" /\ users[u].state # "purged"
  /\ members' = [u \in Users |->
                   IF u \in invited
                     THEN [NoRow EXCEPT !.status = "invited", !.type = type,
                                        !.token = TRUE, !.grants = grants]
                     ELSE members[u]]
  /\ Commit({}, now)
  /\ UNCHANGED <<groups, collections, policy>>

\* The account of the invited address answers with the link of the mail.
AcceptInvite(u, now) ==
  /\ Acts(u)
  /\ members[u].status = "invited" /\ members[u].token
  /\ members' = [members EXCEPT ![u].status = "accepted", ![u].bound = TRUE,
                                ![u].token = FALSE]
  /\ Commit({u}, now)
  /\ UNCHANGED <<groups, collections, policy>>

ConfirmMember(a, u, now) ==
  /\ MayManage(a, members[u].type)
  /\ members[u].status = "accepted" /\ ~members[u].key
  /\ Enabled(u) /\ (policy => users[u].enrolled)
  /\ members' = [members EXCEPT ![u].status = "confirmed", ![u].key = TRUE]
  /\ Commit(Bound({u}), now)
  /\ UNCHANGED <<groups, collections, policy>>

MayUpdate(a, u, type) ==
  /\ Present(u)
  /\ MayManage(a, members[u].type)
  /\ type # "user" => Owner(a)
  /\ Owner(u) /\ type # "owner" => EnabledOwner(u)

UpdateMember(a, u, type, grants, now) ==
  /\ MayUpdate(a, u, type)
  /\ grants \subseteq collections
  /\ members' = [members EXCEPT ![u].type = type, ![u].grants = grants]
  /\ Commit(Bound({u}), now)
  /\ UNCHANGED <<groups, collections, policy>>

MayLeave(a, u) == MayManage(a, members[u].type) /\ (Owner(u) => EnabledOwner(u))

\* Slip: the links of a member are left to a cascade that only a deletion has.
WithLinks(u) == groups

WithoutMember(u) ==
  [g \in Groups |-> [groups[g] EXCEPT !.users = @ \ {u}]]

RevokeMember(a, u, now) ==
  /\ Present(u) /\ MayLeave(a, u)
  /\ members' = [members EXCEPT ![u].status = "revoked", ![u].key = FALSE,
                                ![u].token = FALSE, ![u].grants = {}]
  /\ groups' = WithoutMember(u)
  /\ Commit(Bound({u}), now)
  /\ UNCHANGED <<collections, policy>>

RemoveMember(a, u, now) ==
  /\ members[u].status # "none" /\ MayLeave(a, u)
  /\ members' = [members EXCEPT ![u] = NoRow]
  /\ groups' = WithoutMember(u)
  /\ Commit(Bound({u}), now)
  /\ UNCHANGED <<collections, policy>>

ReinviteMember(a, u, now) ==
  /\ MayManage(a, members[u].type)
  /\ members[u].status = "invited"
  /\ members' = [members EXCEPT ![u].bound = FALSE, ![u].key = FALSE,
                                ![u].token = TRUE]
  /\ Commit({}, now)
  /\ UNCHANGED <<groups, collections, policy>>

-----------------------------------------------------------------------------
(* Groups: an admin links only members of type user, and touches only groups *)
(* that hold no others.                                                      *)

ValidRequestedAccess(a, linked, granted) ==
  /\ granted \subseteq collections
  /\ \A u \in linked : /\ Present(u)
                       /\ members[u].bound => Enabled(u)
                       /\ Owner(a) \/ members[u].type = "user"

\* Slip: whom the group already has is not looked at.
AnyCurrentMembers(a, g) == TRUE

AdminCurrentMembers(a, g) ==
  Owner(a) \/ \A u \in groups[g].users : members[u].type = "user"

\* Slip: only those who get the group are told.
NewlyLinked(g, linked) == Bound(linked)

\* The accounts of the members a group had and of those it gets.
Affected(g, linked) == Bound(groups[g].users \cup linked)

PutGroup(a, g, linked, granted, now) ==   \* create and update
  /\ MayManageGroups(a)
  /\ AdminCurrentMembers(a, g)
  /\ ValidRequestedAccess(a, linked, granted)
  /\ groups' = [groups EXCEPT ![g] = [exists |-> TRUE, users |-> linked,
                                      collections |-> granted]]
  /\ Commit(Affected(g, linked), now)
  /\ UNCHANGED <<members, collections, policy>>

DeleteGroup(a, g, now) ==
  /\ groups[g].exists
  /\ MayManageGroups(a) /\ AdminCurrentMembers(a, g)
  /\ groups' = [groups EXCEPT ![g] = NoGroup]
  /\ Commit(Affected(g, {}), now)
  /\ UNCHANGED <<members, collections, policy>>

RemoveGroupMember(a, g, u, now) ==
  /\ u \in groups[g].users
  /\ MayManageGroups(a) /\ AdminCurrentMembers(a, g)
  /\ groups' = [groups EXCEPT ![g].users = @ \ {u}]
  /\ Commit(Affected(g, {}), now)
  /\ UNCHANGED <<members, collections, policy>>

-----------------------------------------------------------------------------
(* The policy.  The revision it has itself, which the organization's follows, *)
(* is left out.                                                               *)

UpdatePolicy(a, enabled, now) ==
  /\ Owner(a) /\ Enabled(a)
  /\ users[a].verified \/ (~enabled /\ ~policy)
  /\ policy' = enabled
  /\ Commit(Bound(Users), now)
  /\ UNCHANGED <<members, groups, collections>>

-----------------------------------------------------------------------------
(* Collections, by owners who reach them.  These batches set the revision of *)
(* the organization to the time of the request.                              *)

Stamp(now) == Counted /\ revision' = now /\ UNCHANGED <<users, policy>>

CreateCollection(a, c, now) ==
  /\ Owner(a) /\ Acts(a)
  /\ c \notin collections
  /\ collections' = collections \cup {c}
  /\ members' = [members EXCEPT ![a].grants = @ \cup {c}]
  /\ Stamp(now)
  /\ UNCHANGED groups

UpdateCollection(a, c, now) ==
  /\ Owner(a) /\ Acts(a) /\ c \in Reach(a)
  /\ Stamp(now)
  /\ UNCHANGED <<members, groups, collections>>

DeleteCollections(a, deleted, now) ==
  /\ Owner(a) /\ Acts(a)
  /\ deleted # {} /\ deleted \subseteq Reach(a)
  /\ collections' = collections \ deleted
  /\ members' = [u \in Users |-> [members[u] EXCEPT !.grants = @ \ deleted]]
  /\ groups' = [g \in Groups |-> [groups[g] EXCEPT !.collections = @ \ deleted]]
  /\ Stamp(now)

-----------------------------------------------------------------------------
(* Accounts *)

Store(u, account) ==
  /\ users' = [users EXCEPT ![u] = account]
  /\ UNCHANGED <<members, groups, collections, policy, revision, batches>>

CreateInvitedAccount(u, now) ==
  /\ users[u].state = "unregistered"
  /\ members[u].status = "invited" /\ members[u].token /\ ~members[u].bound
  /\ Store(u, [users[u] EXCEPT !.state = "enabled", !.rev = now])

\* A login or a step-up that shows a code, or the end of setting the factor up.
ShowFactor(u) ==
  /\ Enabled(u)
  /\ Store(u, [users[u] EXCEPT !.enrolled = TRUE, !.verified = TRUE])

\* The sessions that had shown a code end, or their factor is replaced elsewhere.
EndAssurance(u) == Store(u, [users[u] EXCEPT !.verified = FALSE])

LastEnrolledOwnerCanRemoveTotp(u) == policy => ~LastConfirmedOwner(u)

DisableTotp(u, now) ==
  /\ Enabled(u) /\ users[u].enrolled
  /\ LastEnrolledOwnerCanRemoveTotp(u)
  /\ Store(u, [users[u] EXCEPT !.enrolled = FALSE, !.verified = FALSE,
                                  !.rev = now])

BeginRecoverableAccountDeletion(u, now) ==
  /\ Enabled(u) /\ ~LastConfirmedOwner(u)
  /\ Store(u, [users[u] EXCEPT !.state = "disabled", !.verified = FALSE,
                                  !.rev = now])

RecoverAccountDeletion(u, now) ==
  /\ users[u].state = "disabled"
  /\ Store(u, [users[u] EXCEPT !.state = "enabled", !.rev = now])

\* The purge takes the account out of the groups and the key out of its row,
\* and leaves the row with its status and grants.  An address that no row of the
\* account holds is free again.
FinalizeAccountPurge(u, now) ==
  /\ users[u].state = "disabled" /\ ~LastConfirmedOwner(u)
  /\ users' = [users EXCEPT ![u] =
       [state |-> IF members[u].bound THEN "purged" ELSE "unregistered",
        enrolled |-> FALSE, verified |-> FALSE, rev |-> now]]
  /\ IF members[u].bound
       THEN /\ members' = [members EXCEPT ![u].key = FALSE]
            /\ groups' = WithoutMember(u)
       ELSE UNCHANGED <<members, groups>>
  /\ UNCHANGED <<collections, policy, revision, batches>>

-----------------------------------------------------------------------------
(* An organization whose members have settled, as its founder's is at first. *)
Settled(roster, registered, enrolled) ==
  /\ \E u \in Users : roster[u] = "owner"
  /\ \A u \in Users \ registered : roster[u] = "none"
  /\ enrolled \subseteq registered
  /\ users = [u \in Users |->
                [state |-> IF u \in registered THEN "enabled" ELSE "unregistered",
                 enrolled |-> u \in enrolled, verified |-> FALSE, rev |-> 0]]
  /\ members = [u \in Users |->
                  IF roster[u] = "none" THEN NoRow
                  ELSE [status |-> "confirmed", type |-> roster[u],
                        bound |-> TRUE, key |-> TRUE, token |-> FALSE,
                        grants |-> IF roster[u] = "owner" THEN Collections ELSE {}]]
  /\ groups \in [Groups -> {NoGroup} \cup
       [exists : {TRUE}, users : SUBSET {u \in Users : roster[u] # "none"},
        collections : {Collections}]]

Init ==
  /\ \E roster \in [Users -> {"none", "owner", "admin", "user"}],
        registered \in SUBSET Users, enrolled \in SUBSET Users :
       Settled(roster, registered, enrolled)
  /\ collections = Collections
  /\ policy = FALSE /\ revision = 0 /\ batches = 0

\* The routes of members, groups and the policy, of one actor.
Administers(a) ==
  \E now \in Times :
    \/ \E invited \in SUBSET Users, type \in {"owner", "admin", "user"},
          grants \in SUBSET collections : InviteMembers(a, invited, type, grants, now)
    \/ AcceptInvite(a, now)
    \/ \E u \in Users :
         \/ ConfirmMember(a, u, now)
         \/ \E type \in {"owner", "admin", "user"}, grants \in SUBSET collections :
              UpdateMember(a, u, type, grants, now)
         \/ RevokeMember(a, u, now)
         \/ RemoveMember(a, u, now)
         \/ ReinviteMember(a, u, now)
    \/ \E g \in Groups :
         \/ \E linked \in SUBSET Users, granted \in SUBSET collections :
              PutGroup(a, g, linked, granted, now)
         \/ DeleteGroup(a, g, now)
         \/ \E u \in Users : RemoveGroupMember(a, g, u, now)
    \/ \E enabled \in BOOLEAN : UpdatePolicy(a, enabled, now)

WritesCollections(a) ==
  \E now \in Times :
    \/ \E c \in Collections : CreateCollection(a, c, now) \/ UpdateCollection(a, c, now)
    \/ \E deleted \in SUBSET collections : DeleteCollections(a, deleted, now)

AccountStep(u) ==
  \/ ShowFactor(u) \/ EndAssurance(u)
  \/ \E now \in Times :
       \/ CreateInvitedAccount(u, now) \/ DisableTotp(u, now)
       \/ BeginRecoverableAccountDeletion(u, now)
       \/ RecoverAccountDeletion(u, now) \/ FinalizeAccountPurge(u, now)

Next == \E u \in Users : Administers(u) \/ WritesCollections(u) \/ AccountStep(u)

Spec == Init /\ [][Next]_vars

-----------------------------------------------------------------------------
(* Properties *)

\* The tables have their shapes; only rows of an account are accepted or
\* confirmed, and only an enrolled factor is verified.
TypeOK ==
  /\ users \in [Users -> Account]
  /\ members \in [Users -> Row]
  /\ groups \in [Groups -> Group]
  /\ collections \in SUBSET Collections
  /\ policy \in BOOLEAN /\ revision \in Nat
  /\ \A u \in Users :
       /\ members[u].status \in {"accepted", "confirmed"} =>
            members[u].bound /\ users[u].state # "unregistered"
       /\ users[u].verified => Enabled(u) /\ users[u].enrolled

\* The organization always has an owner with an enabled account, and with an
\* enrolled factor while one is required: whatever the owners, the policy, their
\* factors and the deletions of their accounts do at the same time, the guards of
\* the five repositories leave one who can log in and administer.
AnOwnerRemains == \E u \in Users : Holds(u)

\* Who was revoked holds nothing to come back with: no key, no invitation, no
\* grant and no group, and a key is held by confirmed members only.  Nor does a
\* deleted collection or a member that left linger in a group.
OffboardedHoldNothing ==
  \A u \in Users :
    /\ members[u].key => Confirmed(u) /\ users[u].state # "purged"
    /\ ~Present(u) => /\ ~members[u].token /\ members[u].grants = {}
                      /\ \A g \in Groups : u \notin groups[g].users
    /\ members[u].grants \subseteq collections

\* What an admin must leave alone: what an owner or an admin is and reaches, and
\* who is one.
Raised(u) == members[u].status # "none" /\ members[u].type # "user"
Disturbed(u) ==
  \/ Raised(u) /\ (members'[u] # members[u] \/ Reach(u)' # Reach(u))
  \/ ~Raised(u) /\ Raised(u)'

\* Nothing an admin does changes what an owner or an admin is or reaches, or makes
\* an owner or an admin of anyone, although admins and owners work on the same
\* groups and promote and demote the members of each other's groups.
AdminsStayBelow ==
  [][(\E u \in Users : Disturbed(u)) =>
       \A a \in Users : Admin(a) => ~Administers(a)]_vars

\* What a sync shows an account of the organization.
Access(u) == IF Confirmed(u) THEN <<members[u].type, Reach(u), policy>> ELSE <<>>
Noticed(u) == Polled(u)' > Polled(u)

\* A change of members, groups or the policy that changes what an account may see
\* raises the revision its client polls, also when the account is no longer a
\* member afterwards and the revision of the organization stops counting for it.
AccessChangesAreNoticed ==
  [][\A u \in Users : Enabled(u) /\ Access(u)' # Access(u) =>
       Noticed(u) \/ \E a \in Users : WritesCollections(a)]_vars

=============================================================================
