------------------------- MODULE OrganizationsProofs -------------------------
(***************************************************************************)
(* Organizations for every number of members, groups, collections, times   *)
(* and batches: the shapes of the tables, that an owner remains, and that  *)
(* who left holds nothing.                                                 *)
(***************************************************************************)
EXTENDS Organizations, TLAPS

USE DEF Times

\* What a batch of members, groups or the policy does to the accounts: it gives
\* some of them a later revision and nothing else.
SameButRev(u) ==
  /\ users'[u].state = users[u].state
  /\ users'[u].enrolled = users[u].enrolled
  /\ users'[u].verified = users[u].verified

LEMMA TimesAreNatural == Times \subseteq Nat
  BY BoundsAreNatural

LEMMA CommitsOnlyRaise ==
  ASSUME TypeOK, NEW S, NEW now \in Times, Commit(S, now)
  PROVE  /\ revision' \in Nat /\ revision' > revision
         /\ users' \in [Users -> Account]
         /\ \A u \in Users : SameButRev(u)
         /\ \A u \in Users : u \notin S => users'[u] = users[u]
         /\ \A u \in Users : u \in S =>
              users'[u].rev > users[u].rev /\ users'[u].rev > revision'
<1>1. now \in Nat /\ revision \in Nat
  BY BoundsAreNatural DEF TypeOK
<1>2. revision' \in Nat /\ revision' > revision
  BY <1>1 DEF Commit, Later
<1>3. \A u \in Users : users[u] \in Account
  BY DEF TypeOK
<1>4. \A u \in Users :
        users'[u] = IF u \in S THEN [users[u] EXCEPT !.rev = Later(@, revision') + 1]
                    ELSE users[u]
  BY DEF Commit
<1>5. \A u \in Users : Later(users[u].rev, revision') + 1 \in Nat
  BY <1>2, <1>3 DEF Later, Account
<1>6. \A u \in Users : u \in S =>
        /\ users'[u] \in Account /\ SameButRev(u)
        /\ users'[u].rev = Later(users[u].rev, revision') + 1
  BY <1>3, <1>4, <1>5 DEF Account, SameButRev
<1>7. \A u \in Users : u \notin S => users'[u] = users[u]
  BY <1>4
<1>8. \A u \in Users : users'[u] \in Account /\ SameButRev(u)
  BY <1>3, <1>6, <1>7 DEF SameButRev
<1>9. users' = [u \in Users |-> users'[u]]
  BY DEF Commit
<1>10. users' \in [Users -> Account]
  BY <1>8, <1>9
<1>11. \A u \in Users : u \in S =>
         users'[u].rev > users[u].rev /\ users'[u].rev > revision'
  BY <1>2, <1>3, <1>6 DEF Later, Account
<1> QED
  BY <1>2, <1>7, <1>8, <1>10, <1>11

-----------------------------------------------------------------------------
(* Shapes *)

LEMMA CommitTypes ==
  ASSUME TypeOK, NEW S, NEW now \in Times, Commit(S, now),
         members' \in [Users -> Row], groups' \in [Groups -> Group],
         collections' = collections, policy' \in BOOLEAN,
         \A u \in Users : members'[u].status \in {"accepted", "confirmed"} =>
           members'[u].bound /\ users[u].state # "unregistered"
  PROVE  TypeOK'
<1>1. /\ revision' \in Nat /\ users' \in [Users -> Account]
      /\ \A u \in Users : SameButRev(u)
  BY CommitsOnlyRaise
<1> QED
  BY <1>1 DEF TypeOK, SameButRev, Enabled

LEMMA WithoutMemberType ==
  ASSUME TypeOK, NEW u \in Users
  PROVE  WithoutMember(u) \in [Groups -> Group]
<1>1. \A g \in Groups : groups[g] \in Group
  BY DEF TypeOK
<1>2. \A g \in Groups : [groups[g] EXCEPT !.users = @ \ {u}] \in Group
  BY <1>1 DEF Group
<1> QED
  BY <1>2 DEF WithoutMember

LEMMA RowTypes ==
  /\ NoRow \in Row /\ NoGroup \in Group
  /\ \A type \in {"owner", "admin", "user"}, grants \in SUBSET Collections :
       [NoRow EXCEPT !.status = "invited", !.type = type,
                     !.token = TRUE, !.grants = grants] \in Row
  BY DEF NoRow, Row, NoGroup, Group

LEMMA MembersType ==
  ASSUME TypeOK, NEW a \in Users, NEW now \in Times
  PROVE  /\ \A invited \in SUBSET Users, type \in {"owner", "admin", "user"},
              grants \in SUBSET collections :
              InviteMembers(a, invited, type, grants, now) => TypeOK'
         /\ AcceptInvite(a, now) => TypeOK'
         /\ \A u \in Users :
              /\ ConfirmMember(a, u, now) => TypeOK'
              /\ \A type \in {"owner", "admin", "user"}, grants \in SUBSET collections :
                   UpdateMember(a, u, type, grants, now) => TypeOK'
              /\ RevokeMember(a, u, now) => TypeOK'
              /\ RemoveMember(a, u, now) => TypeOK'
              /\ ReinviteMember(a, u, now) => TypeOK'
<1>1. /\ \A u \in Users : members[u] \in Row
      /\ members \in [Users -> Row] /\ groups \in [Groups -> Group]
      /\ collections \in SUBSET Collections /\ policy \in BOOLEAN
      /\ \A u \in Users : members[u].status \in {"accepted", "confirmed"} =>
           members[u].bound /\ users[u].state # "unregistered"
  BY DEF TypeOK
<1>2. ASSUME NEW invited \in SUBSET Users, NEW type \in {"owner", "admin", "user"},
             NEW grants \in SUBSET collections,
             InviteMembers(a, invited, type, grants, now)
      PROVE  TypeOK'
  <2> DEFINE row == [NoRow EXCEPT !.status = "invited", !.type = type,
                                  !.token = TRUE, !.grants = grants]
  <2>1. row \in Row /\ row.status = "invited"
    BY <1>1, RowTypes DEF NoRow
  <2>2. members' = [u \in Users |-> IF u \in invited THEN row ELSE members[u]]
    BY <1>2 DEF InviteMembers
  <2> HIDE DEF row
  <2>3. members' \in [Users -> Row]
    BY <1>1, <2>1, <2>2
  <2>4. \A u \in Users : members'[u].status \in {"accepted", "confirmed"} =>
          members'[u].bound /\ users[u].state # "unregistered"
    BY <1>1, <2>1, <2>2
  <2> QED
    BY <1>1, <1>2, <2>3, <2>4, CommitTypes DEF InviteMembers
<1>3. ASSUME AcceptInvite(a, now) PROVE TypeOK'
  <2>1. members' \in [Users -> Row]
    BY <1>1, <1>3 DEF AcceptInvite, Row
  <2>2. \A u \in Users : members'[u].status \in {"accepted", "confirmed"} =>
          members'[u].bound /\ users[u].state # "unregistered"
    BY <1>1, <1>3 DEF AcceptInvite, Acts, Enabled, Row
  <2> QED
    BY <1>1, <1>3, <2>1, <2>2, CommitTypes DEF AcceptInvite
<1>4. ASSUME NEW u \in Users, ConfirmMember(a, u, now) PROVE TypeOK'
  <2>1. members' \in [Users -> Row]
    BY <1>1, <1>4 DEF ConfirmMember, Row
  <2>2. \A v \in Users : members'[v].status \in {"accepted", "confirmed"} =>
          members'[v].bound /\ users[v].state # "unregistered"
    BY <1>1, <1>4 DEF ConfirmMember, Row
  <2> QED
    BY <1>1, <1>4, <2>1, <2>2, CommitTypes DEF ConfirmMember
<1>5. ASSUME NEW u \in Users, NEW type \in {"owner", "admin", "user"},
             NEW grants \in SUBSET collections, UpdateMember(a, u, type, grants, now)
      PROVE  TypeOK'
  <2>1. members' \in [Users -> Row]
    <3>1. members[u] \in Row /\ grants \in SUBSET Collections
      BY <1>1
    <3>2. [members[u] EXCEPT !.type = type, !.grants = grants] \in Row
      BY <3>1 DEF Row
    <3>3. members' = [members EXCEPT ![u] = [@ EXCEPT !.type = type, !.grants = grants]]
      BY <1>1, <1>5 DEF UpdateMember
    <3> QED
      BY <1>1, <3>2, <3>3
  <2>2. \A v \in Users : members'[v].status \in {"accepted", "confirmed"} =>
          members'[v].bound /\ users[v].state # "unregistered"
    BY <1>1, <1>5 DEF UpdateMember, Row
  <2> QED
    BY <1>1, <1>5, <2>1, <2>2, CommitTypes DEF UpdateMember
<1>6. ASSUME NEW u \in Users, RevokeMember(a, u, now) PROVE TypeOK'
  <2>1. members' \in [Users -> Row]
    <3>1. members[u] \in Row
      BY <1>1
    <3>2. [members[u] EXCEPT !.status = "revoked", !.key = FALSE,
                             !.token = FALSE, !.grants = {}] \in Row
      BY <3>1 DEF Row
    <3>3. members' = [members EXCEPT ![u] =
            [@ EXCEPT !.status = "revoked", !.key = FALSE, !.token = FALSE, !.grants = {}]]
      BY <1>1, <1>6 DEF RevokeMember
    <3> QED
      BY <1>1, <3>2, <3>3
  <2>2. \A v \in Users : members'[v].status \in {"accepted", "confirmed"} =>
          members'[v].bound /\ users[v].state # "unregistered"
    BY <1>1, <1>6 DEF RevokeMember, Row
  <2> QED
    BY <1>1, <1>6, <2>1, <2>2, CommitTypes, WithoutMemberType DEF RevokeMember
<1>7. ASSUME NEW u \in Users, RemoveMember(a, u, now) PROVE TypeOK'
  <2>1. members' \in [Users -> Row]
    BY <1>1, <1>7, RowTypes DEF RemoveMember
  <2>2. \A v \in Users : members'[v].status \in {"accepted", "confirmed"} =>
          members'[v].bound /\ users[v].state # "unregistered"
    BY <1>1, <1>7 DEF RemoveMember, NoRow
  <2> QED
    BY <1>1, <1>7, <2>1, <2>2, CommitTypes, WithoutMemberType DEF RemoveMember
<1>8. ASSUME NEW u \in Users, ReinviteMember(a, u, now) PROVE TypeOK'
  <2>1. members' \in [Users -> Row]
    <3>1. members[u] \in Row
      BY <1>1
    <3>2. [members[u] EXCEPT !.bound = FALSE, !.key = FALSE, !.token = TRUE] \in Row
      BY <3>1 DEF Row
    <3>3. members' = [members EXCEPT ![u] =
            [@ EXCEPT !.bound = FALSE, !.key = FALSE, !.token = TRUE]]
      BY <1>1, <1>8 DEF ReinviteMember
    <3> QED
      BY <1>1, <3>2, <3>3
  <2>2. \A v \in Users : members'[v].status \in {"accepted", "confirmed"} =>
          members'[v].bound /\ users[v].state # "unregistered"
    BY <1>1, <1>8 DEF ReinviteMember, Row
  <2> QED
    BY <1>1, <1>8, <2>1, <2>2, CommitTypes DEF ReinviteMember
<1> QED
  BY <1>2, <1>3, <1>4, <1>5, <1>6, <1>7, <1>8

LEMMA GroupsType ==
  ASSUME TypeOK, NEW a \in Users, NEW now \in Times, NEW g \in Groups
  PROVE  /\ \A linked \in SUBSET Users, granted \in SUBSET collections :
              PutGroup(a, g, linked, granted, now) => TypeOK'
         /\ DeleteGroup(a, g, now) => TypeOK'
         /\ \A u \in Users : RemoveGroupMember(a, g, u, now) => TypeOK'
<1>1. /\ members \in [Users -> Row] /\ groups \in [Groups -> Group]
      /\ groups[g] \in Group
      /\ collections \in SUBSET Collections /\ policy \in BOOLEAN
      /\ \A u \in Users : members[u].status \in {"accepted", "confirmed"} =>
           members[u].bound /\ users[u].state # "unregistered"
  BY DEF TypeOK
<1>2. ASSUME NEW S, Commit(S, now), groups' \in [Groups -> Group],
             UNCHANGED <<members, collections, policy>>
      PROVE  TypeOK'
  BY <1>1, <1>2, CommitTypes
<1>3. ASSUME NEW linked \in SUBSET Users, NEW granted \in SUBSET collections,
             PutGroup(a, g, linked, granted, now)
      PROVE  TypeOK'
  <2>1. groups' \in [Groups -> Group]
    BY <1>1, <1>3 DEF PutGroup, Group
  <2> QED
    BY <1>2, <1>3, <2>1 DEF PutGroup
<1>4. ASSUME DeleteGroup(a, g, now) PROVE TypeOK'
  BY <1>1, <1>2, <1>4, RowTypes DEF DeleteGroup
<1>5. ASSUME NEW u \in Users, RemoveGroupMember(a, g, u, now) PROVE TypeOK'
  <2>1. groups' \in [Groups -> Group]
    BY <1>1, <1>5 DEF RemoveGroupMember, Group
  <2> QED
    BY <1>2, <1>5, <2>1 DEF RemoveGroupMember
<1> QED
  BY <1>3, <1>4, <1>5

LEMMA PolicyType ==
  ASSUME TypeOK, NEW a \in Users, NEW now \in Times, NEW enabled \in BOOLEAN,
         UpdatePolicy(a, enabled, now)
  PROVE  TypeOK'
<1>1. members \in [Users -> Row] /\ groups \in [Groups -> Group]
  BY DEF TypeOK
<1>2. \A u \in Users : members[u].status \in {"accepted", "confirmed"} =>
        members[u].bound /\ users[u].state # "unregistered"
  BY DEF TypeOK
<1> QED
  BY <1>1, <1>2, CommitTypes DEF UpdatePolicy

LEMMA CollectionsType ==
  ASSUME TypeOK, NEW a \in Users, WritesCollections(a)
  PROVE  TypeOK'
<1>1. /\ members \in [Users -> Row] /\ groups \in [Groups -> Group]
      /\ \A u \in Users : members[u] \in Row
      /\ \A g \in Groups : groups[g] \in Group
      /\ collections \in SUBSET Collections
  BY DEF TypeOK
<1>2. ASSUME NEW now \in Times, Stamp(now), members' \in [Users -> Row],
             groups' \in [Groups -> Group], collections' \in SUBSET Collections,
             \A u \in Users : /\ members'[u].status = members[u].status
                              /\ members'[u].bound = members[u].bound
      PROVE  TypeOK'
  <2>1. now \in Nat
    BY BoundsAreNatural
  <2> QED
    BY <1>2, <2>1 DEF Stamp, TypeOK, Enabled
<1>3. ASSUME NEW now \in Times, NEW c \in Collections, CreateCollection(a, c, now)
      PROVE  TypeOK'
  <2>1. /\ members' = [members EXCEPT ![a].grants = @ \cup {c}]
        /\ collections' = collections \cup {c} /\ groups' = groups /\ Stamp(now)
    BY <1>3 DEF CreateCollection
  <2>2. members' \in [Users -> Row]
    BY <1>1, <2>1 DEF Row
  <2>3. \A u \in Users : /\ members'[u].status = members[u].status
                         /\ members'[u].bound = members[u].bound
    BY <1>1, <2>1 DEF Row
  <2> QED
    BY <1>1, <1>2, <2>1, <2>2, <2>3
<1>4. ASSUME NEW now \in Times, NEW c \in Collections, UpdateCollection(a, c, now)
      PROVE  TypeOK'
  BY <1>1, <1>2, <1>4 DEF UpdateCollection
<1>5. ASSUME NEW now \in Times, NEW deleted \in SUBSET collections,
             DeleteCollections(a, deleted, now)
      PROVE  TypeOK'
  <2>1. /\ members' = [u \in Users |-> [members[u] EXCEPT !.grants = @ \ deleted]]
        /\ groups' = [g \in Groups |-> [groups[g] EXCEPT !.collections = @ \ deleted]]
        /\ collections' = collections \ deleted /\ Stamp(now)
    BY <1>5 DEF DeleteCollections
  <2>2. \A u \in Users : [members[u] EXCEPT !.grants = @ \ deleted] \in Row
    BY <1>1 DEF Row
  <2>3. \A g \in Groups : [groups[g] EXCEPT !.collections = @ \ deleted] \in Group
    BY <1>1 DEF Group
  <2>4. members' \in [Users -> Row] /\ groups' \in [Groups -> Group]
    BY <2>1, <2>2, <2>3
  <2>5. \A u \in Users : /\ members'[u].status = members[u].status
                         /\ members'[u].bound = members[u].bound
    BY <1>1, <2>1 DEF Row
  <2> QED
    BY <1>1, <1>2, <2>1, <2>4, <2>5
<1> QED
  BY <1>3, <1>4, <1>5 DEF WritesCollections

\* Only a purge changes members or groups of all that an account does.
LEMMA AccountTypes ==
  ASSUME TypeOK, NEW u \in Users, NEW account \in Account, Store(u, account),
         users[u].state = "unregistered" \/ account.state # "unregistered",
         account.verified => account.state = "enabled" /\ account.enrolled
  PROVE  TypeOK'
<1>1. users' = [users EXCEPT ![u] = account]
  BY DEF Store
<1>2. users' \in [Users -> Account]
  BY <1>1 DEF TypeOK
<1>3. \A v \in Users : users'[v] = IF v = u THEN account ELSE users[v]
  BY <1>1 DEF TypeOK
<1>4. \A v \in Users : users'[v].state = "unregistered" => users[v].state = "unregistered"
  BY <1>3
<1>5. \A v \in Users : users'[v].verified =>
        users'[v].state = "enabled" /\ users'[v].enrolled
  BY <1>3 DEF TypeOK, Enabled
<1> QED
  BY <1>2, <1>4, <1>5 DEF TypeOK, Store, Enabled

LEMMA AccountStepsType ==
  ASSUME TypeOK, NEW u \in Users, AccountStep(u)
  PROVE  TypeOK'
<1>1. /\ users \in [Users -> Account] /\ users[u] \in Account
      /\ users[u].verified => users[u].state = "enabled" /\ users[u].enrolled
  BY DEF TypeOK, Enabled
<1>2. \A now \in Times : now \in Nat
  BY TimesAreNatural
<1>3. CASE ShowFactor(u)
  <2>1. [users[u] EXCEPT !.enrolled = TRUE, !.verified = TRUE] \in Account
    BY <1>1 DEF Account
  <2>2. users[u].state = "enabled"
    BY <1>3 DEF ShowFactor, Enabled
  <2> QED
    BY <1>1, <1>3, <2>1, <2>2, AccountTypes DEF ShowFactor, Account
<1>4. CASE EndAssurance(u)
  <2>1. [users[u] EXCEPT !.verified = FALSE] \in Account
    BY <1>1 DEF Account
  <2> QED
    BY <1>1, <1>4, <2>1, AccountTypes DEF EndAssurance, Account
<1>5. ASSUME NEW now \in Times, CreateInvitedAccount(u, now) PROVE TypeOK'
  <2>1. [users[u] EXCEPT !.state = "enabled", !.rev = now] \in Account
    BY <1>1, <1>2 DEF Account
  <2>2. users[u].state = "unregistered"
    BY <1>5 DEF CreateInvitedAccount
  <2> QED
    BY <1>1, <1>5, <2>1, <2>2, AccountTypes DEF CreateInvitedAccount, Account
<1>6. ASSUME NEW now \in Times, DisableTotp(u, now) PROVE TypeOK'
  <2>1. [users[u] EXCEPT !.enrolled = FALSE, !.verified = FALSE, !.rev = now]
          \in Account
    BY <1>1, <1>2 DEF Account
  <2> QED
    BY <1>1, <1>6, <2>1, AccountTypes DEF DisableTotp, Account
<1>7. ASSUME NEW now \in Times, BeginRecoverableAccountDeletion(u, now) PROVE TypeOK'
  <2>1. [users[u] EXCEPT !.state = "disabled", !.verified = FALSE, !.rev = now]
          \in Account
    BY <1>1, <1>2 DEF Account
  <2> QED
    BY <1>1, <1>7, <2>1, AccountTypes DEF BeginRecoverableAccountDeletion, Account
<1>8. ASSUME NEW now \in Times, RecoverAccountDeletion(u, now) PROVE TypeOK'
  <2>1. [users[u] EXCEPT !.state = "enabled", !.rev = now] \in Account
    BY <1>1, <1>2 DEF Account
  <2>2. users[u].state = "disabled" /\ ~users[u].verified
    BY <1>1, <1>8 DEF RecoverAccountDeletion, Account
  <2> QED
    BY <1>1, <1>8, <2>1, <2>2, AccountTypes DEF RecoverAccountDeletion, Account
<1>9. ASSUME NEW now \in Times, FinalizeAccountPurge(u, now) PROVE TypeOK'
  <2> DEFINE gone == [state |-> IF members[u].bound THEN "purged" ELSE "unregistered",
                      enrolled |-> FALSE, verified |-> FALSE, rev |-> now]
  <2>1. gone \in Account /\ ~gone.verified
    BY <1>2 DEF Account
  <2>2. gone.state = "unregistered" => ~members[u].bound
    OBVIOUS
  <2>3. users' = [users EXCEPT ![u] = gone]
    BY <1>9 DEF FinalizeAccountPurge
  <2> HIDE DEF gone
  <2>4. users' \in [Users -> Account]
    BY <1>1, <2>1, <2>3
  <2>5. \A v \in Users : users'[v] = IF v = u THEN gone ELSE users[v]
    BY <1>1, <2>3
  <2>6. \A v \in Users : members[v] \in Row
    BY DEF TypeOK
  <2>7. CASE members[u].bound
    <3>1. members' = [members EXCEPT ![u].key = FALSE] /\ groups' = WithoutMember(u)
      BY <1>9, <2>7 DEF FinalizeAccountPurge
    <3>2. members' \in [Users -> Row] /\ groups' \in [Groups -> Group]
      BY <3>1, WithoutMemberType DEF TypeOK, Row
    <3>3. \A v \in Users : /\ members'[v].status = members[v].status
                           /\ members'[v].bound = members[v].bound
      BY <3>1, <2>6 DEF TypeOK, Row
    <3>4. \A v \in Users : users'[v].state = "unregistered" =>
            users[v].state = "unregistered"
      BY <2>2, <2>5, <2>7
    <3> QED
      BY <1>9, <2>1, <2>4, <2>5, <3>2, <3>3, <3>4 DEF FinalizeAccountPurge, TypeOK, Enabled
  <2>8. CASE ~members[u].bound
    <3>1. members' = members /\ groups' = groups
      BY <1>9, <2>8 DEF FinalizeAccountPurge
    <3> QED
      BY <1>9, <2>1, <2>4, <2>5, <2>8, <3>1 DEF FinalizeAccountPurge, TypeOK, Enabled
  <2> QED
    BY <2>7, <2>8
<1> QED
  BY <1>3, <1>4, <1>5, <1>6, <1>7, <1>8, <1>9 DEF AccountStep

LEMMA AdministersType ==
  ASSUME TypeOK, NEW a \in Users, Administers(a)
  PROVE  TypeOK'
  BY MembersType, GroupsType, PolicyType DEF Administers

LEMMA SettledTables ==
  ASSUME NEW roster \in [Users -> {"none", "owner", "admin", "user"}],
         NEW registered \in SUBSET Users, NEW enrolled \in SUBSET Users,
         Settled(roster, registered, enrolled)
  PROVE  /\ users \in [Users -> Account] /\ members \in [Users -> Row]
         /\ groups \in [Groups -> Group]
         /\ \A u \in Users :
              /\ ~users[u].verified
              /\ members[u].status \in {"accepted", "confirmed"} =>
                   members[u].bound /\ users[u].state = "enabled"
<1>1. \A u \in Users :
        users[u] = [state |-> IF u \in registered THEN "enabled" ELSE "unregistered",
                    enrolled |-> u \in enrolled, verified |-> FALSE, rev |-> 0]
  BY DEF Settled
<1>2. \A u \in Users :
        members[u] = IF roster[u] = "none" THEN NoRow
                     ELSE [status |-> "confirmed", type |-> roster[u],
                           bound |-> TRUE, key |-> TRUE, token |-> FALSE,
                           grants |-> IF roster[u] = "owner" THEN Collections ELSE {}]
  BY DEF Settled
<1>3. \A u \in Users : users[u] \in Account
  <2>1. \A e \in BOOLEAN, s \in {"enabled", "unregistered"} :
          [state |-> s, enrolled |-> e, verified |-> FALSE, rev |-> 0] \in Account
    BY DEF Account
  <2>2. \A u \in Users : (u \in enrolled) \in BOOLEAN
    OBVIOUS
  <2>3. \A u \in Users :
          (IF u \in registered THEN "enabled" ELSE "unregistered")
            \in {"enabled", "unregistered"}
    OBVIOUS
  <2> QED
    BY <1>1, <2>1, <2>2, <2>3
<1>4. \A u \in Users : members[u] \in Row
  <2>1. ASSUME NEW t \in {"owner", "admin", "user"}, NEW G \in SUBSET Collections
        PROVE  [status |-> "confirmed", type |-> t, bound |-> TRUE, key |-> TRUE,
                token |-> FALSE, grants |-> G] \in Row
    BY DEF Row
  <2>2. ASSUME NEW u \in Users, roster[u] # "none" PROVE members[u] \in Row
    <3>1. roster[u] \in {"owner", "admin", "user"}
      BY <2>2
    <3>2. (IF roster[u] = "owner" THEN Collections ELSE {}) \in SUBSET Collections
      OBVIOUS
    <3>3. members[u] = [status |-> "confirmed", type |-> roster[u], bound |-> TRUE,
                        key |-> TRUE, token |-> FALSE,
                        grants |-> IF roster[u] = "owner" THEN Collections ELSE {}]
      BY <1>2, <2>2
    <3> QED
      BY <2>1, <3>1, <3>2, <3>3
  <2> QED
    BY <1>2, <2>2, RowTypes
<1>5. /\ users = [u \in Users |-> users[u]]
      /\ members = [u \in Users |-> members[u]]
  BY DEF Settled
<1>6. users \in [Users -> Account] /\ members \in [Users -> Row]
  BY <1>3, <1>4, <1>5
<1>7. groups \in [Groups -> Group]
  <2>1. {NoGroup} \cup
          [exists : {TRUE}, users : SUBSET {u \in Users : roster[u] # "none"},
           collections : {Collections}] \subseteq Group
    BY RowTypes DEF Group
  <2>2. groups \in [Groups -> {NoGroup} \cup
          [exists : {TRUE}, users : SUBSET {u \in Users : roster[u] # "none"},
           collections : {Collections}]]
    BY DEF Settled
  <2> QED
    BY <2>1, <2>2
<1>8. \A u \in Users : roster[u] # "none" => u \in registered
  BY DEF Settled
<1>9. \A u \in Users : members[u].status \in {"accepted", "confirmed"} =>
        members[u].bound /\ users[u].state = "enabled"
  <2>1. ASSUME NEW u \in Users, roster[u] = "none" PROVE members[u].status = "none"
    <3>1. members[u] = NoRow
      BY <1>2, <2>1
    <3> QED
      BY <3>1 DEF NoRow
  <2>2. ASSUME NEW u \in Users, roster[u] # "none" PROVE members[u].bound
    <3>1. members[u] = [status |-> "confirmed", type |-> roster[u], bound |-> TRUE,
                        key |-> TRUE, token |-> FALSE,
                        grants |-> IF roster[u] = "owner" THEN Collections ELSE {}]
      BY <1>2, <2>2
    <3> QED
      BY <3>1
  <2>3. ASSUME NEW u \in Users, u \in registered PROVE users[u].state = "enabled"
    <3>1. users[u] = [state |-> IF u \in registered THEN "enabled" ELSE "unregistered",
                      enrolled |-> u \in enrolled, verified |-> FALSE, rev |-> 0]
      BY <1>1
    <3>2. users[u].state = IF u \in registered THEN "enabled" ELSE "unregistered"
      BY <3>1
    <3> QED
      BY <2>3, <3>2
  <2> QED
    BY <1>8, <2>1, <2>2, <2>3
<1> QED
  BY <1>1, <1>6, <1>7, <1>9

LEMMA InitType == Init => TypeOK
<1> SUFFICES ASSUME Init PROVE TypeOK
  OBVIOUS
<1>1. PICK roster \in [Users -> {"none", "owner", "admin", "user"}],
           registered \in SUBSET Users, enrolled \in SUBSET Users :
             Settled(roster, registered, enrolled)
  BY DEF Init
<1> QED
  BY <1>1, SettledTables DEF Init, TypeOK

LEMMA StepType == TypeOK /\ [Next]_vars => TypeOK'
<1>1. TypeOK /\ UNCHANGED vars => TypeOK'
  BY DEF TypeOK, vars, Enabled
<1> QED
  BY <1>1, AdministersType, CollectionsType, AccountStepsType DEF Next

\* The tables keep their shapes, and only rows of an account are accepted or
\* confirmed, and only an enrolled factor of an enabled account is verified.
THEOREM TypeCorrect == Spec => []TypeOK
  BY InitType, StepType, PTL DEF Spec

-----------------------------------------------------------------------------
(* An owner remains *)

\* Whoever holds the organization goes on while its row and account stay as they
\* are and no policy is added.
LEMMA HoldsOn ==
  ASSUME NEW o \in Users, Holds(o), policy' => policy,
         users'[o].state = users[o].state, users'[o].enrolled = users[o].enrolled,
         members'[o].status = members[o].status, members'[o].type = members[o].type
  PROVE  AnOwnerRemains'
<1>1. Holds(o)'
  BY DEF Holds, Owner, Confirmed, Enabled
<1> QED
  BY <1>1 DEF AnOwnerRemains

LEMMA CommitHoldsOn ==
  ASSUME TypeOK, NEW S, NEW now \in Times, Commit(S, now),
         NEW o \in Users, Holds(o), policy' => policy,
         members'[o].status = members[o].status, members'[o].type = members[o].type
  PROVE  AnOwnerRemains'
<1>1. SameButRev(o)
  BY CommitsOnlyRaise
<1> QED
  BY <1>1, HoldsOn DEF SameButRev

\* When one member changes, one who holds the organization is another or keeps it.
LEMMA OthersHoldOn ==
  ASSUME TypeOK, AnOwnerRemains, NEW S, NEW now \in Times, Commit(S, now),
         policy' = policy, NEW u \in Users,
         \A v \in Users \ {u} : members'[v] = members[v],
         EnabledOwner(u) \/ ~Owner(u)
  PROVE  AnOwnerRemains'
<1>1. \E o \in Users \ {u} : Holds(o)
  BY DEF EnabledOwner, AnOwnerRemains, Holds
<1> QED
  BY <1>1, CommitHoldsOn

LEMMA MembersLeaveAnOwner ==
  ASSUME TypeOK, AnOwnerRemains, NEW a \in Users, NEW now \in Times
  PROVE  /\ \A invited \in SUBSET Users, type \in {"owner", "admin", "user"},
              grants \in SUBSET collections :
              InviteMembers(a, invited, type, grants, now) => AnOwnerRemains'
         /\ AcceptInvite(a, now) => AnOwnerRemains'
         /\ \A u \in Users :
              /\ ConfirmMember(a, u, now) => AnOwnerRemains'
              /\ \A type \in {"owner", "admin", "user"}, grants \in SUBSET collections :
                   UpdateMember(a, u, type, grants, now) => AnOwnerRemains'
              /\ RevokeMember(a, u, now) => AnOwnerRemains'
              /\ RemoveMember(a, u, now) => AnOwnerRemains'
              /\ ReinviteMember(a, u, now) => AnOwnerRemains'
<1>1. members \in [Users -> Row]
  BY DEF TypeOK
<1>2. ASSUME NEW invited \in SUBSET Users, NEW type \in {"owner", "admin", "user"},
             NEW grants \in SUBSET collections,
             InviteMembers(a, invited, type, grants, now)
      PROVE  AnOwnerRemains'
  <2>1. PICK o \in Users : Holds(o)
    BY DEF AnOwnerRemains
  <2>2. o \notin invited
    BY <1>2, <2>1 DEF InviteMembers, Holds, Owner, Confirmed
  <2>3. members'[o] = members[o]
    BY <1>2, <2>2 DEF InviteMembers
  <2> QED
    BY <1>2, <2>1, <2>3, CommitHoldsOn DEF InviteMembers
<1>3. ASSUME AcceptInvite(a, now) PROVE AnOwnerRemains'
  <2>1. ~Owner(a)
    BY <1>3 DEF AcceptInvite, Owner, Confirmed
  <2>2. \A v \in Users \ {a} : members'[v] = members[v]
    BY <1>1, <1>3 DEF AcceptInvite
  <2> QED
    BY <1>3, <2>1, <2>2, OthersHoldOn DEF AcceptInvite
<1>4. ASSUME NEW u \in Users, ConfirmMember(a, u, now) PROVE AnOwnerRemains'
  <2>1. ~Owner(u)
    BY <1>4 DEF ConfirmMember, Owner, Confirmed
  <2>2. \A v \in Users \ {u} : members'[v] = members[v]
    BY <1>1, <1>4 DEF ConfirmMember
  <2> QED
    BY <1>4, <2>1, <2>2, OthersHoldOn DEF ConfirmMember
<1>5. ASSUME NEW u \in Users, NEW type \in {"owner", "admin", "user"},
             NEW grants \in SUBSET collections, UpdateMember(a, u, type, grants, now)
      PROVE  AnOwnerRemains'
  <2>1. \A v \in Users \ {u} : members'[v] = members[v]
    BY <1>1, <1>5 DEF UpdateMember
  <2>2. CASE Holds(u) /\ type = "owner"
    <3>1. members'[u].status = members[u].status /\ members'[u].type = "owner"
      BY <1>1, <1>5, <2>2 DEF UpdateMember, Row
    <3>2. members[u].type = "owner"
      BY <2>2 DEF Holds, Owner
    <3> QED
      BY <1>5, <2>2, <3>1, <3>2, CommitHoldsOn DEF UpdateMember
  <2>3. CASE Owner(u) /\ type # "owner"
    <3>1. EnabledOwner(u)
      BY <1>5, <2>3 DEF UpdateMember, MayUpdate
    <3> QED
      BY <1>5, <2>1, <3>1, OthersHoldOn DEF UpdateMember
  <2>4. CASE ~Holds(u)
    <3>1. PICK o \in Users : Holds(o)
      BY DEF AnOwnerRemains
    <3>2. members'[o] = members[o]
      BY <2>1, <2>4, <3>1
    <3> QED
      BY <1>5, <3>1, <3>2, CommitHoldsOn DEF UpdateMember
  <2> QED
    BY <2>2, <2>3, <2>4 DEF Holds
<1>6. ASSUME NEW u \in Users, RevokeMember(a, u, now) PROVE AnOwnerRemains'
  <2>1. \A v \in Users \ {u} : members'[v] = members[v]
    BY <1>1, <1>6 DEF RevokeMember
  <2>2. EnabledOwner(u) \/ ~Owner(u)
    BY <1>6 DEF RevokeMember, MayLeave
  <2> QED
    BY <1>6, <2>1, <2>2, OthersHoldOn DEF RevokeMember
<1>7. ASSUME NEW u \in Users, RemoveMember(a, u, now) PROVE AnOwnerRemains'
  <2>1. \A v \in Users \ {u} : members'[v] = members[v]
    BY <1>1, <1>7 DEF RemoveMember
  <2>2. EnabledOwner(u) \/ ~Owner(u)
    BY <1>7 DEF RemoveMember, MayLeave
  <2> QED
    BY <1>7, <2>1, <2>2, OthersHoldOn DEF RemoveMember
<1>8. ASSUME NEW u \in Users, ReinviteMember(a, u, now) PROVE AnOwnerRemains'
  <2>1. ~Owner(u)
    BY <1>8 DEF ReinviteMember, Owner, Confirmed
  <2>2. \A v \in Users \ {u} : members'[v] = members[v]
    BY <1>1, <1>8 DEF ReinviteMember
  <2> QED
    BY <1>8, <2>1, <2>2, OthersHoldOn DEF ReinviteMember
<1> QED
  BY <1>2, <1>3, <1>4, <1>5, <1>6, <1>7, <1>8

\* Turning the policy on takes an owner whose session shows a factor: it is the
\* one who remains when nobody else has enrolled one.
LEMMA PolicyLeavesAnOwner ==
  ASSUME TypeOK, AnOwnerRemains, NEW a \in Users, NEW now \in Times,
         NEW enabled \in BOOLEAN, UpdatePolicy(a, enabled, now)
  PROVE  AnOwnerRemains'
<1>1. /\ Owner(a) /\ Enabled(a) /\ policy' = enabled /\ members' = members
      /\ Commit(Bound(Users), now)
  BY DEF UpdatePolicy
<1>2. CASE enabled
  <2>1. users[a].verified
    BY <1>2 DEF UpdatePolicy
  <2>2. users[a].enrolled /\ SameButRev(a)
    BY <1>1, <2>1, CommitsOnlyRaise DEF TypeOK
  <2>3. Holds(a)'
    BY <1>1, <2>2 DEF Holds, Owner, Confirmed, Enabled, SameButRev
  <2> QED
    BY <2>3 DEF AnOwnerRemains
<1>3. CASE ~enabled
  <2>1. PICK o \in Users : Holds(o)
    BY DEF AnOwnerRemains
  <2> QED
    BY <1>1, <1>3, <2>1, CommitHoldsOn
<1> QED
  BY <1>2, <1>3

LEMMA GroupsLeaveAnOwner ==
  ASSUME TypeOK, AnOwnerRemains, NEW S, NEW now \in Times, Commit(S, now),
         UNCHANGED <<members, policy>>
  PROVE  AnOwnerRemains'
  BY CommitHoldsOn DEF AnOwnerRemains

LEMMA AdministersLeavesAnOwner ==
  ASSUME TypeOK, AnOwnerRemains, NEW a \in Users, Administers(a)
  PROVE  AnOwnerRemains'
<1>1. ASSUME NEW now \in Times, NEW g \in Groups, NEW linked \in SUBSET Users,
             NEW granted \in SUBSET collections, PutGroup(a, g, linked, granted, now)
      PROVE  AnOwnerRemains'
  BY <1>1, GroupsLeaveAnOwner DEF PutGroup
<1>2. ASSUME NEW now \in Times, NEW g \in Groups, DeleteGroup(a, g, now)
      PROVE  AnOwnerRemains'
  BY <1>2, GroupsLeaveAnOwner DEF DeleteGroup
<1>3. ASSUME NEW now \in Times, NEW g \in Groups, NEW u \in Users,
             RemoveGroupMember(a, g, u, now)
      PROVE  AnOwnerRemains'
  BY <1>3, GroupsLeaveAnOwner DEF RemoveGroupMember
<1> QED
  BY <1>1, <1>2, <1>3, MembersLeaveAnOwner, PolicyLeavesAnOwner DEF Administers

LEMMA CollectionsLeaveAnOwner ==
  ASSUME TypeOK, AnOwnerRemains, NEW a \in Users, WritesCollections(a)
  PROVE  AnOwnerRemains'
<1>1. members \in [Users -> Row] /\ \A u \in Users : members[u] \in Row
  BY DEF TypeOK
<1>2. PICK o \in Users : Holds(o)
  BY DEF AnOwnerRemains
<1>3. ASSUME NEW now \in Times, Stamp(now),
             members'[o].status = members[o].status, members'[o].type = members[o].type
      PROVE  AnOwnerRemains'
  BY <1>2, <1>3, HoldsOn DEF Stamp
<1>4. ASSUME NEW now \in Times, NEW c \in Collections, CreateCollection(a, c, now)
      PROVE  AnOwnerRemains'
  <2>1. members'[o].status = members[o].status /\ members'[o].type = members[o].type
    BY <1>1, <1>4 DEF CreateCollection, Row
  <2> QED
    BY <1>3, <1>4, <2>1 DEF CreateCollection
<1>5. ASSUME NEW now \in Times, NEW c \in Collections, UpdateCollection(a, c, now)
      PROVE  AnOwnerRemains'
  BY <1>3, <1>5 DEF UpdateCollection
<1>6. ASSUME NEW now \in Times, NEW deleted \in SUBSET collections,
             DeleteCollections(a, deleted, now)
      PROVE  AnOwnerRemains'
  <2>1. members'[o] = [members[o] EXCEPT !.grants = @ \ deleted]
    BY <1>6 DEF DeleteCollections
  <2>2. members'[o].status = members[o].status /\ members'[o].type = members[o].type
    BY <1>1, <2>1 DEF Row
  <2> QED
    BY <1>3, <1>6, <2>2 DEF DeleteCollections
<1> QED
  BY <1>4, <1>5, <1>6 DEF WritesCollections

LEMMA AccountsLeaveAnOwner ==
  ASSUME TypeOK, AnOwnerRemains, NEW u \in Users, AccountStep(u)
  PROVE  AnOwnerRemains'
<1>1. /\ users \in [Users -> Account] /\ \A v \in Users : users[v] \in Account
      /\ members \in [Users -> Row] /\ \A v \in Users : members[v] \in Row
  BY DEF TypeOK
<1>2. ASSUME NEW account, Store(u, account), NEW o \in Users \ {u}, Holds(o)
      PROVE  AnOwnerRemains'
  BY <1>1, <1>2, HoldsOn DEF Store
<1>3. ASSUME NEW account, Store(u, account), ~Holds(u)
      PROVE  AnOwnerRemains'
  BY <1>2, <1>3 DEF AnOwnerRemains
<1>4. ASSUME NEW account, Store(u, account), Holds(u),
             account.state = users[u].state,
             ~policy \/ account.enrolled = users[u].enrolled \/ account.enrolled
      PROVE  AnOwnerRemains'
  <2>1. users'[u] = account /\ members' = members /\ policy' = policy
    BY <1>1, <1>4 DEF Store
  <2>2. Holds(u)'
    BY <1>4, <2>1 DEF Holds, Owner, Confirmed, Enabled
  <2> QED
    BY <2>2 DEF AnOwnerRemains
<1>5. CASE ShowFactor(u)
  <2> DEFINE account == [users[u] EXCEPT !.enrolled = TRUE, !.verified = TRUE]
  <2>1. account.state = users[u].state /\ account.enrolled
    BY <1>1 DEF Account
  <2>2. Store(u, account)
    BY <1>5 DEF ShowFactor
  <2> QED
    BY <1>3, <1>4, <2>1, <2>2
<1>6. CASE EndAssurance(u)
  <2> DEFINE account == [users[u] EXCEPT !.verified = FALSE]
  <2>1. account.state = users[u].state /\ account.enrolled = users[u].enrolled
    BY <1>1 DEF Account
  <2>2. Store(u, account)
    BY <1>6 DEF EndAssurance
  <2> QED
    BY <1>3, <1>4, <2>1, <2>2
<1>7. ASSUME NEW now \in Times, CreateInvitedAccount(u, now) PROVE AnOwnerRemains'
  <2>1. ~Holds(u)
    BY <1>7 DEF CreateInvitedAccount, Holds, Enabled
  <2> QED
    BY <1>3, <1>7, <2>1 DEF CreateInvitedAccount
<1>8. ASSUME NEW now \in Times, DisableTotp(u, now) PROVE AnOwnerRemains'
  <2> DEFINE account == [users[u] EXCEPT !.enrolled = FALSE, !.verified = FALSE,
                                         !.rev = now]
  <2>1. account.state = users[u].state
    BY <1>1 DEF Account
  <2>2. Store(u, account) /\ (policy => ~LastConfirmedOwner(u))
    BY <1>8 DEF DisableTotp, LastEnrolledOwnerCanRemoveTotp
  <2> HIDE DEF account
  <2>3. CASE ~policy
    BY <1>3, <1>4, <2>1, <2>2, <2>3
  <2>4. CASE policy /\ Holds(u)
    <3>1. \E o \in Users \ {u} : Holds(o)
      BY <2>2, <2>4 DEF LastConfirmedOwner, EnabledOwner, Holds
    <3> QED
      BY <1>2, <2>2, <3>1
  <2> QED
    BY <1>3, <2>2, <2>3, <2>4
<1>9. ASSUME NEW now \in Times, BeginRecoverableAccountDeletion(u, now)
      PROVE  AnOwnerRemains'
  <2>1. PICK account : Store(u, account)
    BY <1>9 DEF BeginRecoverableAccountDeletion
  <2>2. Holds(u) => \E o \in Users \ {u} : Holds(o)
    BY <1>9 DEF BeginRecoverableAccountDeletion, LastConfirmedOwner, EnabledOwner, Holds
  <2> QED
    BY <1>2, <1>3, <2>1, <2>2
<1>10. ASSUME NEW now \in Times, RecoverAccountDeletion(u, now) PROVE AnOwnerRemains'
  <2>1. ~Holds(u)
    BY <1>10 DEF RecoverAccountDeletion, Holds, Enabled
  <2> QED
    BY <1>3, <1>10, <2>1 DEF RecoverAccountDeletion
<1>11. ASSUME NEW now \in Times, FinalizeAccountPurge(u, now) PROVE AnOwnerRemains'
  <2>1. PICK o \in Users : Holds(o)
    BY DEF AnOwnerRemains
  <2>2. o # u
    BY <1>11, <2>1 DEF FinalizeAccountPurge, Holds, Enabled
  <2>3. users'[o] = users[o] /\ policy' = policy
    BY <1>1, <1>11, <2>2 DEF FinalizeAccountPurge
  <2>4. members'[o] = members[o]
    BY <1>1, <1>11, <2>2 DEF FinalizeAccountPurge
  <2> QED
    BY <2>1, <2>3, <2>4, HoldsOn
<1> QED
  BY <1>5, <1>6, <1>7, <1>8, <1>9, <1>10, <1>11 DEF AccountStep

LEMMA InitHasAnOwner == Init => AnOwnerRemains
<1> SUFFICES ASSUME Init PROVE AnOwnerRemains
  OBVIOUS
<1>1. PICK roster \in [Users -> {"none", "owner", "admin", "user"}],
           registered \in SUBSET Users, enrolled \in SUBSET Users :
             Settled(roster, registered, enrolled)
  BY DEF Init
<1>2. PICK o \in Users : roster[o] = "owner"
  BY <1>1 DEF Settled
<1>3. o \in registered
  BY <1>1, <1>2 DEF Settled
<1>4. users[o] = [state |-> IF o \in registered THEN "enabled" ELSE "unregistered",
                  enrolled |-> o \in enrolled, verified |-> FALSE, rev |-> 0]
  BY <1>1 DEF Settled
<1>5. members[o] = [status |-> "confirmed", type |-> roster[o], bound |-> TRUE,
                    key |-> TRUE, token |-> FALSE, grants |-> Collections]
  BY <1>1, <1>2 DEF Settled
<1>6. Owner(o)
  BY <1>2, <1>5 DEF Owner, Confirmed
<1>7. Enabled(o)
  <2>1. users[o].state = IF o \in registered THEN "enabled" ELSE "unregistered"
    BY <1>4
  <2> QED
    BY <1>3, <2>1 DEF Enabled
<1> QED
  BY <1>6, <1>7 DEF AnOwnerRemains, Holds, Init

\* Whatever owners, admins, the policy, factors and deletions of accounts do, an
\* owner with an enabled account, and a factor while one is required, remains.
THEOREM OwnerRemains == Spec => []AnOwnerRemains
<1>1. TypeOK /\ AnOwnerRemains /\ [Next]_vars => AnOwnerRemains'
  <2>1. AnOwnerRemains /\ UNCHANGED vars => AnOwnerRemains'
    BY DEF AnOwnerRemains, vars, Holds, Owner, Confirmed, Enabled
  <2> QED
    BY <2>1, AdministersLeavesAnOwner, CollectionsLeaveAnOwner, AccountsLeaveAnOwner
       DEF Next
<1> QED
  BY <1>1, InitHasAnOwner, TypeCorrect, PTL DEF Spec

-----------------------------------------------------------------------------
(* Who left holds nothing *)

HeldByMembersOnly(u) ==
  /\ members[u].key => Confirmed(u) /\ users[u].state # "purged"
  /\ ~Present(u) => /\ ~members[u].token /\ members[u].grants = {}
                    /\ \A g \in Groups : u \notin groups[g].users
  /\ members[u].grants \subseteq collections

LEMMA Offboarding == OffboardedHoldNothing <=> \A u \in Users : HeldByMembersOnly(u)
  BY DEF OffboardedHoldNothing, HeldByMembersOnly

\* Who is not touched: a row that stays, of an account that is not purged, in no
\* group it was not in unless it is a member.
LEMMA Untouched ==
  ASSUME NEW u \in Users, HeldByMembersOnly(u), members'[u] = members[u],
         users'[u].state = users[u].state \/ users'[u].state # "purged",
         \A g \in Groups : u \in groups'[g].users => u \in groups[g].users \/ Present(u),
         collections' = collections
  PROVE  HeldByMembersOnly(u)'
  BY DEF HeldByMembersOnly, Confirmed, Present

LEMMA UntouchedByCommit ==
  ASSUME TypeOK, NEW S, NEW now \in Times, Commit(S, now),
         NEW u \in Users, HeldByMembersOnly(u), members'[u] = members[u],
         \A g \in Groups : u \in groups'[g].users => u \in groups[g].users \/ Present(u),
         collections' = collections
  PROVE  HeldByMembersOnly(u)'
<1>1. SameButRev(u)
  BY CommitsOnlyRaise
<1> QED
  BY <1>1, Untouched DEF SameButRev

LEMMA WithoutMemberShrinks ==
  ASSUME TypeOK, NEW u \in Users, groups' = WithoutMember(u), NEW g \in Groups
  PROVE  /\ groups'[g].users = groups[g].users \ {u}
         /\ groups'[g].collections = groups[g].collections
<1>1. groups[g] \in Group
  BY DEF TypeOK
<1>2. groups'[g] = [groups[g] EXCEPT !.users = @ \ {u}]
  BY DEF WithoutMember
<1> QED
  BY <1>1, <1>2 DEF Group

LEMMA MembersOffboard ==
  ASSUME TypeOK, OffboardedHoldNothing, NEW a \in Users, NEW now \in Times
  PROVE  /\ \A invited \in SUBSET Users, type \in {"owner", "admin", "user"},
              grants \in SUBSET collections :
              InviteMembers(a, invited, type, grants, now) => OffboardedHoldNothing'
         /\ AcceptInvite(a, now) => OffboardedHoldNothing'
         /\ \A u \in Users :
              /\ ConfirmMember(a, u, now) => OffboardedHoldNothing'
              /\ \A type \in {"owner", "admin", "user"}, grants \in SUBSET collections :
                   UpdateMember(a, u, type, grants, now) => OffboardedHoldNothing'
              /\ RevokeMember(a, u, now) => OffboardedHoldNothing'
              /\ RemoveMember(a, u, now) => OffboardedHoldNothing'
              /\ ReinviteMember(a, u, now) => OffboardedHoldNothing'
<1>1. /\ members \in [Users -> Row] /\ \A u \in Users : members[u] \in Row
      /\ \A u \in Users : HeldByMembersOnly(u)
  BY Offboarding DEF TypeOK
<1>2. OffboardedHoldNothing' <=> \A u \in Users : HeldByMembersOnly(u)'
  BY DEF OffboardedHoldNothing, HeldByMembersOnly
<1>3. ASSUME NEW S, Commit(S, now), groups' = groups, collections' = collections,
             NEW u \in Users, \A v \in Users \ {u} : members'[v] = members[v],
             HeldByMembersOnly(u)'
      PROVE  OffboardedHoldNothing'
  BY <1>1, <1>2, <1>3, UntouchedByCommit
<1>4. ASSUME NEW S, Commit(S, now), collections' = collections,
             NEW u \in Users, groups' = WithoutMember(u),
             \A v \in Users \ {u} : members'[v] = members[v],
             ~members'[u].key, ~members'[u].token, members'[u].grants = {}
      PROVE  OffboardedHoldNothing'
  <2>1. \A g \in Groups : groups'[g].users = groups[g].users \ {u}
    BY <1>4, WithoutMemberShrinks
  <2>2. \A v \in Users \ {u} : HeldByMembersOnly(v)'
    BY <1>1, <1>4, <2>1, UntouchedByCommit
  <2>3. HeldByMembersOnly(u)'
    BY <1>4, <2>1 DEF HeldByMembersOnly
  <2> QED
    BY <1>2, <2>2, <2>3
<1>5. ASSUME NEW invited \in SUBSET Users, NEW type \in {"owner", "admin", "user"},
             NEW grants \in SUBSET collections,
             InviteMembers(a, invited, type, grants, now)
      PROVE  OffboardedHoldNothing'
  <2> DEFINE row == [NoRow EXCEPT !.status = "invited", !.type = type,
                                  !.token = TRUE, !.grants = grants]
  <2>1. row.status = "invited" /\ ~row.key /\ row.grants = grants
    BY DEF NoRow
  <2>2. \A u \in Users : members'[u] = IF u \in invited THEN row ELSE members[u]
    BY <1>5 DEF InviteMembers
  <2> HIDE DEF row
  <2>3. collections' = collections /\ groups' = groups /\ Commit({}, now)
    BY <1>5 DEF InviteMembers
  <2>4. \A u \in Users \ invited : HeldByMembersOnly(u)'
    BY <1>1, <2>2, <2>3, UntouchedByCommit
  <2>5. \A u \in invited : HeldByMembersOnly(u)'
    BY <2>1, <2>2, <2>3 DEF HeldByMembersOnly, Present
  <2> QED
    BY <1>2, <2>4, <2>5
<1>6. ASSUME AcceptInvite(a, now) PROVE OffboardedHoldNothing'
  <2>1. /\ members'[a].status = "accepted" /\ members'[a].key = members[a].key
        /\ members'[a].grants = members[a].grants
        /\ \A v \in Users \ {a} : members'[v] = members[v]
    BY <1>1, <1>6 DEF AcceptInvite, Row
  <2>2. ~members[a].key
    BY <1>1, <1>6 DEF AcceptInvite, HeldByMembersOnly, Confirmed
  <2>3. HeldByMembersOnly(a)'
    BY <1>1, <1>6, <2>1, <2>2 DEF AcceptInvite, HeldByMembersOnly, Present
  <2> QED
    BY <1>3, <1>6, <2>1, <2>3 DEF AcceptInvite
<1>7. ASSUME NEW u \in Users, ConfirmMember(a, u, now) PROVE OffboardedHoldNothing'
  <2>1. /\ members'[u].status = "confirmed" /\ members'[u].grants = members[u].grants
        /\ \A v \in Users \ {u} : members'[v] = members[v]
    BY <1>1, <1>7 DEF ConfirmMember, Row
  <2>2. Commit(Bound({u}), now) /\ collections' = collections /\ groups' = groups
    BY <1>7 DEF ConfirmMember
  <2>3. SameButRev(u)
    BY <2>2, CommitsOnlyRaise
  <2>4. users'[u].state # "purged"
    BY <1>7, <2>3 DEF ConfirmMember, Enabled, SameButRev
  <2>5. HeldByMembersOnly(u)'
    BY <1>1, <2>1, <2>2, <2>4 DEF HeldByMembersOnly, Present, Confirmed
  <2> QED
    BY <1>3, <2>1, <2>2, <2>5
<1>8. ASSUME NEW u \in Users, NEW type \in {"owner", "admin", "user"},
             NEW grants \in SUBSET collections, UpdateMember(a, u, type, grants, now)
      PROVE  OffboardedHoldNothing'
  <2>1. /\ members'[u].status = members[u].status /\ members'[u].key = members[u].key
        /\ members'[u].grants = grants
        /\ \A v \in Users \ {u} : members'[v] = members[v]
    BY <1>1, <1>8 DEF UpdateMember, Row
  <2>2. /\ Commit(Bound({u}), now) /\ collections' = collections /\ groups' = groups
        /\ Present(u)
    BY <1>8 DEF UpdateMember, MayUpdate
  <2>3. SameButRev(u)
    BY <2>2, CommitsOnlyRaise
  <2>4. HeldByMembersOnly(u)'
    BY <1>1, <2>1, <2>2, <2>3 DEF HeldByMembersOnly, Present, Confirmed, SameButRev
  <2> QED
    BY <1>3, <2>1, <2>2, <2>4
<1>9. ASSUME NEW u \in Users, RevokeMember(a, u, now) PROVE OffboardedHoldNothing'
  <2>1. /\ ~members'[u].key /\ ~members'[u].token /\ members'[u].grants = {}
        /\ \A v \in Users \ {u} : members'[v] = members[v]
    BY <1>1, <1>9 DEF RevokeMember, Row
  <2> QED
    BY <1>4, <1>9, <2>1 DEF RevokeMember
<1>10. ASSUME NEW u \in Users, RemoveMember(a, u, now) PROVE OffboardedHoldNothing'
  <2>1. members'[u] = NoRow /\ \A v \in Users \ {u} : members'[v] = members[v]
    BY <1>1, <1>10 DEF RemoveMember
  <2>2. ~NoRow.key /\ ~NoRow.token /\ NoRow.grants = {}
    BY DEF NoRow
  <2> QED
    BY <1>4, <1>10, <2>1, <2>2 DEF RemoveMember
<1>11. ASSUME NEW u \in Users, ReinviteMember(a, u, now) PROVE OffboardedHoldNothing'
  <2>1. /\ members'[u].status = members[u].status /\ ~members'[u].key
        /\ members'[u].grants = members[u].grants
        /\ \A v \in Users \ {u} : members'[v] = members[v]
    BY <1>1, <1>11 DEF ReinviteMember, Row
  <2>2. HeldByMembersOnly(u)'
    BY <1>1, <1>11, <2>1 DEF ReinviteMember, HeldByMembersOnly, Present
  <2> QED
    BY <1>3, <1>11, <2>1, <2>2 DEF ReinviteMember
<1> QED
  BY <1>5, <1>6, <1>7, <1>8, <1>9, <1>10, <1>11

LEMMA AdministersOffboards ==
  ASSUME TypeOK, OffboardedHoldNothing, NEW a \in Users, Administers(a)
  PROVE  OffboardedHoldNothing'
<1>1. /\ groups \in [Groups -> Group] /\ \A g \in Groups : groups[g] \in Group
      /\ \A u \in Users : HeldByMembersOnly(u)
  BY Offboarding DEF TypeOK
<1>2. OffboardedHoldNothing' <=> \A u \in Users : HeldByMembersOnly(u)'
  BY DEF OffboardedHoldNothing, HeldByMembersOnly
<1>3. ASSUME NEW S, NEW now \in Times, Commit(S, now),
             UNCHANGED <<members, collections>>,
             \A u \in Users, g \in Groups :
               u \in groups'[g].users => u \in groups[g].users \/ Present(u)
      PROVE  OffboardedHoldNothing'
  BY <1>1, <1>2, <1>3, UntouchedByCommit
<1>4. ASSUME NEW now \in Times, NEW g \in Groups, NEW linked \in SUBSET Users,
             NEW granted \in SUBSET collections, PutGroup(a, g, linked, granted, now)
      PROVE  OffboardedHoldNothing'
  <2>1. \A h \in Groups : groups'[h].users = IF h = g THEN linked ELSE groups[h].users
    BY <1>1, <1>4 DEF PutGroup, Group
  <2>2. \A u \in linked : Present(u)
    BY <1>4 DEF PutGroup, ValidRequestedAccess
  <2> QED
    BY <1>3, <1>4, <2>1, <2>2 DEF PutGroup
<1>5. ASSUME NEW now \in Times, NEW g \in Groups, DeleteGroup(a, g, now)
      PROVE  OffboardedHoldNothing'
  <2>1. \A h \in Groups : groups'[h].users \subseteq groups[h].users
    BY <1>1, <1>5 DEF DeleteGroup, NoGroup
  <2> QED
    BY <1>3, <1>5, <2>1 DEF DeleteGroup
<1>6. ASSUME NEW now \in Times, NEW g \in Groups, NEW u \in Users,
             RemoveGroupMember(a, g, u, now)
      PROVE  OffboardedHoldNothing'
  <2>1. \A h \in Groups : groups'[h].users \subseteq groups[h].users
    BY <1>1, <1>6 DEF RemoveGroupMember, Group
  <2> QED
    BY <1>3, <1>6, <2>1 DEF RemoveGroupMember
<1>7. ASSUME NEW now \in Times, NEW enabled \in BOOLEAN, UpdatePolicy(a, enabled, now)
      PROVE  OffboardedHoldNothing'
  BY <1>3, <1>7 DEF UpdatePolicy
<1> QED
  BY <1>4, <1>5, <1>6, <1>7, MembersOffboard DEF Administers

LEMMA CollectionsOffboard ==
  ASSUME TypeOK, OffboardedHoldNothing, NEW a \in Users, WritesCollections(a)
  PROVE  OffboardedHoldNothing'
<1>1. /\ members \in [Users -> Row] /\ \A u \in Users : members[u] \in Row
      /\ \A g \in Groups : groups[g] \in Group
      /\ \A u \in Users : HeldByMembersOnly(u)
  BY Offboarding DEF TypeOK
<1>2. OffboardedHoldNothing' <=> \A u \in Users : HeldByMembersOnly(u)'
  BY DEF OffboardedHoldNothing, HeldByMembersOnly
<1>3. ASSUME NEW now \in Times, NEW c \in Collections, CreateCollection(a, c, now)
      PROVE  OffboardedHoldNothing'
  <2>1. /\ members'[a].status = members[a].status /\ members'[a].key = members[a].key
        /\ members'[a].grants = members[a].grants \cup {c}
        /\ \A v \in Users \ {a} : members'[v] = members[v]
    BY <1>1, <1>3 DEF CreateCollection, Row
  <2>2. /\ users' = users /\ groups' = groups /\ collections' = collections \cup {c}
        /\ Confirmed(a)
    BY <1>3 DEF CreateCollection, Stamp, Owner
  <2>3. HeldByMembersOnly(a)'
    BY <1>1, <2>1, <2>2 DEF HeldByMembersOnly, Confirmed, Present
  <2>4. \A v \in Users \ {a} : HeldByMembersOnly(v)'
    BY <1>1, <2>1, <2>2 DEF HeldByMembersOnly, Confirmed, Present
  <2> QED
    BY <1>2, <2>3, <2>4
<1>4. ASSUME NEW now \in Times, NEW c \in Collections, UpdateCollection(a, c, now)
      PROVE  OffboardedHoldNothing'
  BY <1>1, <1>2, <1>4 DEF UpdateCollection, Stamp, HeldByMembersOnly, Confirmed, Present
<1>5. ASSUME NEW now \in Times, NEW deleted \in SUBSET collections,
             DeleteCollections(a, deleted, now)
      PROVE  OffboardedHoldNothing'
  <2>1. \A u \in Users : members'[u] = [members[u] EXCEPT !.grants = @ \ deleted]
    BY <1>5 DEF DeleteCollections
  <2>2. \A u \in Users :
          /\ members'[u].status = members[u].status /\ members'[u].key = members[u].key
          /\ members'[u].token = members[u].token
          /\ members'[u].grants = members[u].grants \ deleted
    BY <1>1, <2>1 DEF Row
  <2>3. \A g \in Groups :
          groups'[g] = [groups[g] EXCEPT !.collections = @ \ deleted]
    BY <1>5 DEF DeleteCollections
  <2>4. \A g \in Groups : groups'[g].users = groups[g].users
    BY <1>1, <2>3 DEF Group
  <2>5. users' = users /\ collections' = collections \ deleted
    BY <1>5 DEF DeleteCollections, Stamp
  <2>6. \A u \in Users : HeldByMembersOnly(u)'
    BY <1>1, <2>2, <2>4, <2>5 DEF HeldByMembersOnly, Confirmed, Present
  <2> QED
    BY <1>2, <2>6
<1> QED
  BY <1>3, <1>4, <1>5 DEF WritesCollections

LEMMA AccountsOffboard ==
  ASSUME TypeOK, OffboardedHoldNothing, NEW u \in Users, AccountStep(u)
  PROVE  OffboardedHoldNothing'
<1>1. /\ users \in [Users -> Account] /\ \A v \in Users : users[v] \in Account
      /\ members \in [Users -> Row] /\ \A v \in Users : members[v] \in Row
      /\ \A v \in Users : HeldByMembersOnly(v)
      /\ \A v \in Users : members[v].status \in {"accepted", "confirmed"} => members[v].bound
  BY Offboarding DEF TypeOK
<1>2. OffboardedHoldNothing' <=> \A v \in Users : HeldByMembersOnly(v)'
  BY DEF OffboardedHoldNothing, HeldByMembersOnly
<1>3. ASSUME NEW account, Store(u, account),
             account.state = users[u].state \/ account.state # "purged"
      PROVE  OffboardedHoldNothing'
  <2>1. \A v \in Users : users'[v] = IF v = u THEN account ELSE users[v]
    BY <1>1, <1>3 DEF Store
  <2>2. \A v \in Users : HeldByMembersOnly(v)'
    BY <1>1, <1>3, <2>1, Untouched DEF Store
  <2> QED
    BY <1>2, <2>2
<1>4. CASE ShowFactor(u)
  <2>1. [users[u] EXCEPT !.enrolled = TRUE, !.verified = TRUE].state = users[u].state
    BY <1>1 DEF Account
  <2> QED
    BY <1>3, <1>4, <2>1 DEF ShowFactor
<1>5. CASE EndAssurance(u)
  <2>1. [users[u] EXCEPT !.verified = FALSE].state = users[u].state
    BY <1>1 DEF Account
  <2> QED
    BY <1>3, <1>5, <2>1 DEF EndAssurance
<1>6. ASSUME NEW now \in Times, CreateInvitedAccount(u, now)
      PROVE  OffboardedHoldNothing'
  <2>1. [users[u] EXCEPT !.state = "enabled", !.rev = now].state = "enabled"
    BY <1>1 DEF Account
  <2> QED
    BY <1>3, <1>6, <2>1 DEF CreateInvitedAccount
<1>7. ASSUME NEW now \in Times, DisableTotp(u, now) PROVE OffboardedHoldNothing'
  <2>1. [users[u] EXCEPT !.enrolled = FALSE, !.verified = FALSE, !.rev = now].state
          = users[u].state
    BY <1>1 DEF Account
  <2> QED
    BY <1>3, <1>7, <2>1 DEF DisableTotp
<1>8. ASSUME NEW now \in Times, BeginRecoverableAccountDeletion(u, now)
      PROVE  OffboardedHoldNothing'
  <2>1. [users[u] EXCEPT !.state = "disabled", !.verified = FALSE, !.rev = now].state
          = "disabled"
    BY <1>1 DEF Account
  <2> QED
    BY <1>3, <1>8, <2>1 DEF BeginRecoverableAccountDeletion
<1>9. ASSUME NEW now \in Times, RecoverAccountDeletion(u, now)
      PROVE  OffboardedHoldNothing'
  <2>1. [users[u] EXCEPT !.state = "enabled", !.rev = now].state = "enabled"
    BY <1>1 DEF Account
  <2> QED
    BY <1>3, <1>9, <2>1 DEF RecoverAccountDeletion
<1>10. ASSUME NEW now \in Times, FinalizeAccountPurge(u, now)
       PROVE  OffboardedHoldNothing'
  <2>1. collections' = collections /\ \A v \in Users \ {u} : users'[v] = users[v]
    BY <1>1, <1>10 DEF FinalizeAccountPurge
  <2>2. CASE members[u].bound
    <3>1. members' = [members EXCEPT ![u].key = FALSE] /\ groups' = WithoutMember(u)
      BY <1>10, <2>2 DEF FinalizeAccountPurge
    <3>2. \A g \in Groups : groups'[g].users = groups[g].users \ {u}
      BY <3>1, WithoutMemberShrinks
    <3>3. \A v \in Users \ {u} : members'[v] = members[v]
      BY <1>1, <3>1
    <3>4. /\ members'[u].status = members[u].status /\ ~members'[u].key
          /\ members'[u].token = members[u].token
          /\ members'[u].grants = members[u].grants
      BY <1>1, <3>1 DEF Row
    <3>5. \A v \in Users \ {u} : HeldByMembersOnly(v)'
      BY <1>1, <2>1, <3>2, <3>3, Untouched
    <3>6. HeldByMembersOnly(u)'
      BY <1>1, <2>1, <3>2, <3>4 DEF HeldByMembersOnly, Present
    <3> QED
      BY <1>2, <3>5, <3>6
  <2>3. CASE ~members[u].bound
    <3>1. members' = members /\ groups' = groups
      BY <1>10, <2>3 DEF FinalizeAccountPurge
    <3>2. ~members[u].key
      BY <1>1, <2>3 DEF HeldByMembersOnly, Confirmed
    <3>3. \A v \in Users \ {u} : HeldByMembersOnly(v)'
      BY <1>1, <2>1, <3>1, Untouched
    <3>4. HeldByMembersOnly(u)'
      BY <1>1, <2>1, <3>1, <3>2 DEF HeldByMembersOnly, Present
    <3> QED
      BY <1>2, <3>3, <3>4
  <2> QED
    BY <2>2, <2>3
<1> QED
  BY <1>4, <1>5, <1>6, <1>7, <1>8, <1>9, <1>10 DEF AccountStep

LEMMA InitOffboarded == Init => OffboardedHoldNothing
<1> SUFFICES ASSUME Init PROVE OffboardedHoldNothing
  OBVIOUS
<1>1. PICK roster \in [Users -> {"none", "owner", "admin", "user"}],
           registered \in SUBSET Users, enrolled \in SUBSET Users :
             Settled(roster, registered, enrolled)
  BY DEF Init
<1>2. \A u \in Users : members[u].status \in {"accepted", "confirmed"} =>
        users[u].state = "enabled"
  BY <1>1, SettledTables
<1>3. ASSUME NEW u \in Users, roster[u] = "none" PROVE HeldByMembersOnly(u)
  <2>1. members[u] = NoRow
    BY <1>1, <1>3 DEF Settled
  <2>2. \A g \in Groups : u \notin groups[g].users
    <3> TAKE g \in Groups
    <3>1. groups[g] \in {NoGroup} \cup
            [exists : {TRUE}, users : SUBSET {v \in Users : roster[v] # "none"},
             collections : {Collections}]
      BY <1>1 DEF Settled
    <3>2. NoGroup.users = {}
      BY DEF NoGroup
    <3>3. \A h \in [exists : {TRUE}, users : SUBSET {v \in Users : roster[v] # "none"},
                    collections : {Collections}] :
            h.users \in SUBSET {v \in Users : roster[v] # "none"}
      OBVIOUS
    <3> QED
      BY <1>3, <3>1, <3>2, <3>3
  <2> QED
    BY <2>1, <2>2 DEF HeldByMembersOnly, NoRow, Present
<1>4. ASSUME NEW u \in Users, roster[u] # "none" PROVE HeldByMembersOnly(u)
  <2>1. members[u] = [status |-> "confirmed", type |-> roster[u], bound |-> TRUE,
                      key |-> TRUE, token |-> FALSE,
                      grants |-> IF roster[u] = "owner" THEN Collections ELSE {}]
    BY <1>1, <1>4 DEF Settled
  <2>2. members[u].status = "confirmed" /\ members[u].grants \subseteq Collections
    BY <2>1
  <2>3. users[u].state = "enabled" /\ collections = Collections
    BY <1>2, <2>2 DEF Init
  <2> QED
    BY <2>2, <2>3 DEF HeldByMembersOnly, Present, Confirmed
<1> QED
  BY <1>3, <1>4, Offboarding

\* Who was revoked, removed or purged keeps no key, invitation, grant or group,
\* and nothing points at a collection that was deleted.
THEOREM OffboardingHolds == Spec => []OffboardedHoldNothing
<1>1. TypeOK /\ OffboardedHoldNothing /\ [Next]_vars => OffboardedHoldNothing'
  <2>1. OffboardedHoldNothing /\ UNCHANGED vars => OffboardedHoldNothing'
    BY DEF OffboardedHoldNothing, vars, Confirmed, Present
  <2> QED
    BY <2>1, AdministersOffboards, CollectionsOffboard, AccountsOffboard DEF Next
<1> QED
  BY <1>1, InitOffboarded, TypeCorrect, PTL DEF Spec

-----------------------------------------------------------------------------
(* Admins stay below *)

\* What a member reaches stays while its row does and it keeps its groups and
\* these their collections.
LEMMA ReachStays ==
  ASSUME NEW u \in Users, members'[u].status = members[u].status,
         members'[u].grants = members[u].grants,
         \A g \in Groups : u \in groups'[g].users <=> u \in groups[g].users,
         \A g \in Groups : u \in groups[g].users =>
           groups'[g].collections = groups[g].collections
  PROVE  Reach(u)' = Reach(u)
<1>1. UNION {groups'[g].collections : g \in {h \in Groups : u \in groups'[h].users}}
        = UNION {groups[g].collections : g \in {h \in Groups : u \in groups[h].users}}
  OBVIOUS
<1> QED
  BY <1>1 DEF Reach, Confirmed

LEMMA Undisturbed ==
  ASSUME NEW u \in Users, members'[u] = members[u],
         Raised(u) =>
           /\ \A g \in Groups : u \in groups'[g].users <=> u \in groups[g].users
           /\ \A g \in Groups : u \in groups[g].users =>
                groups'[g].collections = groups[g].collections
  PROVE  ~Disturbed(u)
<1>1. Raised(u) => Reach(u)' = Reach(u)
  BY ReachStays
<1> QED
  BY <1>1 DEF Disturbed, Raised

LEMMA AdminsTouchUsersOnly ==
  ASSUME TypeOK, NEW a \in Users, Admin(a), Administers(a), NEW v \in Users
  PROVE  ~Disturbed(v)
<1>1. /\ members \in [Users -> Row] /\ \A u \in Users : members[u] \in Row
      /\ groups \in [Groups -> Group] /\ \A g \in Groups : groups[g] \in Group
      /\ ~Owner(a) /\ Confirmed(a)
  BY DEF TypeOK, Admin, Owner
<1>2. \A type : MayManage(a, type) => type = "user"
  BY <1>1 DEF MayManage
\* A step of one row, of type user before and after, that at most leaves groups.
<1>3. ASSUME NEW u \in Users, members[u].type = "user", members'[u].type = "user",
             \A w \in Users \ {u} : members'[w] = members[w],
             groups' = groups \/ groups' = WithoutMember(u)
      PROVE  ~Disturbed(v)
  <2>1. CASE v = u
    BY <1>3, <2>1 DEF Disturbed, Raised
  <2>2. CASE v # u
    <3>1. \A g \in Groups : /\ v \in groups'[g].users <=> v \in groups[g].users
                            /\ groups'[g].collections = groups[g].collections
      BY <1>3, <2>2, WithoutMemberShrinks
    <3> QED
      BY <1>3, <2>2, <3>1, Undisturbed
  <2> QED
    BY <2>1, <2>2
<1>4. ASSUME NEW now \in Times, NEW invited \in SUBSET Users,
             NEW type \in {"owner", "admin", "user"}, NEW grants \in SUBSET collections,
             InviteMembers(a, invited, type, grants, now)
      PROVE  ~Disturbed(v)
  <2>1. type = "user" /\ groups' = groups
    BY <1>2, <1>4 DEF InviteMembers
  <2>2. CASE v \in invited
    <3> DEFINE row == [NoRow EXCEPT !.status = "invited", !.type = type,
                                    !.token = TRUE, !.grants = grants]
    <3>1. row.type = "user"
      BY <2>1 DEF NoRow
    <3>2. members'[v] = row
      BY <1>4, <2>2 DEF InviteMembers
    <3>3. members[v].status = "none"
      BY <1>4, <2>2 DEF InviteMembers
    <3> QED
      BY <3>1, <3>2, <3>3 DEF Disturbed, Raised
  <2>3. CASE v \notin invited
    <3>1. members'[v] = members[v]
      BY <1>4, <2>3 DEF InviteMembers
    <3> QED
      BY <2>1, <3>1, Undisturbed
  <2> QED
    BY <2>2, <2>3
<1>5. ASSUME NEW now \in Times, AcceptInvite(a, now) PROVE ~Disturbed(v)
  BY <1>1, <1>5 DEF AcceptInvite, Confirmed
<1>6. ASSUME NEW now \in Times, NEW u \in Users, ConfirmMember(a, u, now)
      PROVE  ~Disturbed(v)
  <2>1. members[u].type = "user"
    BY <1>2, <1>6 DEF ConfirmMember
  <2>2. /\ members'[u].type = members[u].type /\ groups' = groups
        /\ \A w \in Users \ {u} : members'[w] = members[w]
    BY <1>1, <1>6 DEF ConfirmMember, Row
  <2> QED
    BY <1>3, <2>1, <2>2
<1>7. ASSUME NEW now \in Times, NEW u \in Users,
             NEW type \in {"owner", "admin", "user"}, NEW grants \in SUBSET collections,
             UpdateMember(a, u, type, grants, now)
      PROVE  ~Disturbed(v)
  <2>1. members[u].type = "user" /\ type = "user"
    BY <1>1, <1>2, <1>7 DEF UpdateMember, MayUpdate
  <2>2. /\ members'[u].type = type /\ groups' = groups
        /\ \A w \in Users \ {u} : members'[w] = members[w]
    BY <1>1, <1>7 DEF UpdateMember, Row
  <2> QED
    BY <1>3, <2>1, <2>2
<1>8. ASSUME NEW now \in Times, NEW u \in Users, RevokeMember(a, u, now)
      PROVE  ~Disturbed(v)
  <2>1. members[u].type = "user"
    BY <1>2, <1>8 DEF RevokeMember, MayLeave
  <2>2. /\ members'[u].type = members[u].type /\ groups' = WithoutMember(u)
        /\ \A w \in Users \ {u} : members'[w] = members[w]
    BY <1>1, <1>8 DEF RevokeMember, Row
  <2> QED
    BY <1>3, <2>1, <2>2
<1>9. ASSUME NEW now \in Times, NEW u \in Users, RemoveMember(a, u, now)
      PROVE  ~Disturbed(v)
  <2>1. members[u].type = "user"
    BY <1>2, <1>9 DEF RemoveMember, MayLeave
  <2>2. /\ members'[u].type = "user" /\ groups' = WithoutMember(u)
        /\ \A w \in Users \ {u} : members'[w] = members[w]
    BY <1>1, <1>9 DEF RemoveMember, NoRow
  <2> QED
    BY <1>3, <2>1, <2>2
<1>10. ASSUME NEW now \in Times, NEW u \in Users, ReinviteMember(a, u, now)
       PROVE  ~Disturbed(v)
  <2>1. members[u].type = "user"
    BY <1>2, <1>10 DEF ReinviteMember
  <2>2. /\ members'[u].type = members[u].type /\ groups' = groups
        /\ \A w \in Users \ {u} : members'[w] = members[w]
    BY <1>1, <1>10 DEF ReinviteMember, Row
  <2> QED
    BY <1>3, <2>1, <2>2
\* A step of one group, whose members are of type user before and after.
<1>11. ASSUME NEW g \in Groups, AdminCurrentMembers(a, g), members' = members,
              \A h \in Groups \ {g} : groups'[h] = groups[h],
              \A u \in groups'[g].users : members[u].type = "user"
       PROVE  ~Disturbed(v)
  <2>1. \A u \in groups[g].users : members[u].type = "user"
    BY <1>1, <1>11 DEF AdminCurrentMembers
  <2>2. Raised(v) => v \notin groups[g].users /\ v \notin groups'[g].users
    BY <1>11, <2>1 DEF Raised
  <2> QED
    BY <1>11, <2>2, Undisturbed
<1>12. ASSUME NEW now \in Times, NEW g \in Groups, NEW linked \in SUBSET Users,
              NEW granted \in SUBSET collections, PutGroup(a, g, linked, granted, now)
       PROVE  ~Disturbed(v)
  <2>1. /\ groups'[g].users = linked
        /\ \A h \in Groups \ {g} : groups'[h] = groups[h]
    BY <1>1, <1>12 DEF PutGroup, Group
  <2>2. \A u \in linked : members[u].type = "user"
    BY <1>1, <1>12 DEF PutGroup, ValidRequestedAccess
  <2> QED
    BY <1>11, <1>12, <2>1, <2>2 DEF PutGroup
<1>13. ASSUME NEW now \in Times, NEW g \in Groups, DeleteGroup(a, g, now)
       PROVE  ~Disturbed(v)
  <2>1. /\ groups'[g].users = {}
        /\ \A h \in Groups \ {g} : groups'[h] = groups[h]
    BY <1>1, <1>13 DEF DeleteGroup, NoGroup
  <2> QED
    BY <1>11, <1>13, <2>1 DEF DeleteGroup
<1>14. ASSUME NEW now \in Times, NEW g \in Groups, NEW u \in Users,
              RemoveGroupMember(a, g, u, now)
       PROVE  ~Disturbed(v)
  <2>1. /\ groups'[g].users = groups[g].users \ {u}
        /\ \A h \in Groups \ {g} : groups'[h] = groups[h]
    BY <1>1, <1>14 DEF RemoveGroupMember, Group
  <2>2. \A w \in groups[g].users : members[w].type = "user"
    BY <1>1, <1>14 DEF RemoveGroupMember, AdminCurrentMembers
  <2> QED
    BY <1>11, <1>14, <2>1, <2>2 DEF RemoveGroupMember
<1>15. ASSUME NEW now \in Times, NEW enabled \in BOOLEAN, UpdatePolicy(a, enabled, now)
       PROVE  FALSE
  BY <1>1, <1>15 DEF UpdatePolicy
<1> QED
  BY <1>4, <1>5, <1>6, <1>7, <1>8, <1>9, <1>10, <1>12, <1>13, <1>14, <1>15
  DEF Administers

\* Nothing an admin does touches what an owner or an admin is or reaches, or makes
\* one of anyone.
THEOREM AdminsBelow == Spec => AdminsStayBelow
<1>1. TypeOK /\ [Next]_vars =>
        [(\E u \in Users : Disturbed(u)) =>
           \A a \in Users : Admin(a) => ~Administers(a)]_vars
  BY AdminsTouchUsersOnly
<1> QED
  BY <1>1, TypeCorrect, PTL DEF Spec, AdminsStayBelow

-----------------------------------------------------------------------------
(* Changes of access are noticed *)

LEMMA CommitNotices ==
  ASSUME TypeOK, NEW S, NEW now \in Times, Commit(S, now), NEW u \in Users, u \in S
  PROVE  Noticed(u)
<1>1. /\ users'[u].rev > users[u].rev /\ users'[u].rev > revision'
      /\ revision' > revision /\ users' \in [Users -> Account] /\ revision' \in Nat
  BY CommitsOnlyRaise
<1>2. users[u].rev \in Nat /\ users'[u].rev \in Nat /\ revision \in Nat
  BY <1>1 DEF TypeOK, Account
<1>3. Polled(u) = users[u].rev \/ Polled(u) = revision
  BY DEF Polled, Later
<1>4. Polled(u)' = users'[u].rev
  <2>1. Polled(u)' = IF Confirmed(u)' THEN Later(users'[u].rev, revision')
                     ELSE users'[u].rev
    BY DEF Polled
  <2>2. Later(users'[u].rev, revision') = users'[u].rev
    BY <1>1, <1>2 DEF Later
  <2> QED
    BY <2>1, <2>2
<1> QED
  BY <1>1, <1>2, <1>3, <1>4 DEF Noticed

\* Who is no confirmed member before and after has the same access, none.
LEMMA OutsidersHaveNone ==
  ASSUME NEW u \in Users, ~Confirmed(u), members'[u].status # "confirmed"
  PROVE  Access(u)' = Access(u)
  BY DEF Access, Confirmed

LEMMA AccessStays ==
  ASSUME NEW u \in Users, members'[u] = members[u], policy' = policy,
         \A g \in Groups : u \in groups'[g].users <=> u \in groups[g].users,
         \A g \in Groups : u \in groups[g].users =>
           groups'[g].collections = groups[g].collections
  PROVE  Access(u)' = Access(u)
<1>1. Reach(u)' = Reach(u)
  BY ReachStays
<1> QED
  BY <1>1 DEF Access, Confirmed

LEMMA AdministersNotices ==
  ASSUME TypeOK, NEW a \in Users, Administers(a), NEW u \in Users
  PROVE  Noticed(u) \/ Access(u)' = Access(u)
<1>1. /\ members \in [Users -> Row] /\ \A v \in Users : members[v] \in Row
      /\ groups \in [Groups -> Group] /\ \A g \in Groups : groups[g] \in Group
      /\ \A v \in Users : members[v].status \in {"accepted", "confirmed"} => members[v].bound
  BY DEF TypeOK
<1>2. Confirmed(u) => members[u].bound
  BY <1>1 DEF Confirmed
\* A step of one row: its account is concerned, or it is no member's.
<1>3. ASSUME NEW v \in Users, NEW S, NEW now \in Times, Commit(S, now),
             v \in S \/ (~Confirmed(v) /\ members'[v].status # "confirmed"),
             \A w \in Users \ {v} : members'[w] = members[w], policy' = policy,
             groups' = groups \/ groups' = WithoutMember(v)
      PROVE  Noticed(u) \/ Access(u)' = Access(u)
  <2>1. CASE u = v
    BY <1>3, <2>1, CommitNotices, OutsidersHaveNone
  <2>2. CASE u # v
    <3>1. \A g \in Groups : /\ u \in groups'[g].users <=> u \in groups[g].users
                            /\ groups'[g].collections = groups[g].collections
      BY <1>3, <2>2, WithoutMemberShrinks
    <3> QED
      BY <1>3, <2>2, <3>1, AccessStays
  <2> QED
    BY <2>1, <2>2
<1>4. ASSUME NEW now \in Times, NEW invited \in SUBSET Users,
             NEW type \in {"owner", "admin", "user"}, NEW grants \in SUBSET collections,
             InviteMembers(a, invited, type, grants, now)
      PROVE  Access(u)' = Access(u)
  <2>1. CASE u \in invited
    <3> DEFINE row == [NoRow EXCEPT !.status = "invited", !.type = type,
                                    !.token = TRUE, !.grants = grants]
    <3>1. row.status = "invited"
      BY DEF NoRow
    <3>2. members'[u] = row /\ members[u].status = "none"
      BY <1>4, <2>1 DEF InviteMembers
    <3> QED
      BY <3>1, <3>2, OutsidersHaveNone DEF Confirmed
  <2>2. CASE u \notin invited
    BY <1>4, <2>2, AccessStays DEF InviteMembers
  <2> QED
    BY <2>1, <2>2
<1>5. ASSUME NEW now \in Times, AcceptInvite(a, now)
      PROVE  Noticed(u) \/ Access(u)' = Access(u)
  <2>1. \A w \in Users \ {a} : members'[w] = members[w]
    BY <1>1, <1>5 DEF AcceptInvite
  <2> QED
    BY <1>3, <1>5, <2>1 DEF AcceptInvite
<1>6. ASSUME NEW now \in Times, NEW v \in Users, ConfirmMember(a, v, now)
      PROVE  Noticed(u) \/ Access(u)' = Access(u)
  <2>1. \A w \in Users \ {v} : members'[w] = members[w]
    BY <1>1, <1>6 DEF ConfirmMember
  <2>2. v \in Bound({v})
    BY <1>1, <1>6 DEF ConfirmMember, Bound
  <2> QED
    BY <1>3, <1>6, <2>1, <2>2 DEF ConfirmMember
<1>7. ASSUME NEW now \in Times, NEW v \in Users,
             NEW type \in {"owner", "admin", "user"}, NEW grants \in SUBSET collections,
             UpdateMember(a, v, type, grants, now)
      PROVE  Noticed(u) \/ Access(u)' = Access(u)
  <2>1. /\ members'[v].status = members[v].status
        /\ \A w \in Users \ {v} : members'[w] = members[w]
    BY <1>1, <1>7 DEF UpdateMember, Row
  <2>2. v \in Bound({v}) \/ ~Confirmed(v)
    BY <1>1 DEF Bound, Confirmed
  <2> QED
    BY <1>3, <1>7, <2>1, <2>2 DEF UpdateMember, Confirmed
<1>8. ASSUME NEW now \in Times, NEW v \in Users, RevokeMember(a, v, now)
      PROVE  Noticed(u) \/ Access(u)' = Access(u)
  <2>1. /\ members'[v].status = "revoked"
        /\ \A w \in Users \ {v} : members'[w] = members[w]
    BY <1>1, <1>8 DEF RevokeMember, Row
  <2>2. v \in Bound({v}) \/ ~Confirmed(v)
    BY <1>1 DEF Bound, Confirmed
  <2> QED
    BY <1>3, <1>8, <2>1, <2>2 DEF RevokeMember
<1>9. ASSUME NEW now \in Times, NEW v \in Users, RemoveMember(a, v, now)
      PROVE  Noticed(u) \/ Access(u)' = Access(u)
  <2>1. /\ members'[v].status = "none"
        /\ \A w \in Users \ {v} : members'[w] = members[w]
    BY <1>1, <1>9 DEF RemoveMember, NoRow
  <2>2. v \in Bound({v}) \/ ~Confirmed(v)
    BY <1>1 DEF Bound, Confirmed
  <2> QED
    BY <1>3, <1>9, <2>1, <2>2 DEF RemoveMember
<1>10. ASSUME NEW now \in Times, NEW v \in Users, ReinviteMember(a, v, now)
       PROVE  Noticed(u) \/ Access(u)' = Access(u)
  <2>1. /\ members'[v].status = members[v].status
        /\ \A w \in Users \ {v} : members'[w] = members[w]
    BY <1>1, <1>10 DEF ReinviteMember, Row
  <2> QED
    BY <1>3, <1>10, <2>1 DEF ReinviteMember, Confirmed
\* A step of one group: whom it has or gets, and may see what it leads to, is told.
<1>11. ASSUME NEW now \in Times, NEW g \in Groups, NEW linked \in SUBSET Users,
              Commit(Affected(g, linked), now), members' = members, policy' = policy,
              \A h \in Groups \ {g} : groups'[h] = groups[h],
              groups'[g].users \subseteq groups[g].users \cup linked
       PROVE  Noticed(u) \/ Access(u)' = Access(u)
  <2>1. CASE ~Confirmed(u)
    BY <1>11, <2>1, OutsidersHaveNone DEF Confirmed
  <2>2. CASE Confirmed(u) /\ u \in groups[g].users \cup linked
    <3>1. u \in Affected(g, linked)
      BY <1>2, <2>2 DEF Affected, Bound
    <3> QED
      BY <1>11, <3>1, CommitNotices
  <2>3. CASE u \notin groups[g].users \cup linked
    <3>1. \A h \in Groups : /\ u \in groups'[h].users <=> u \in groups[h].users
                            /\ u \in groups[h].users =>
                                 groups'[h].collections = groups[h].collections
      BY <1>11, <2>3
    <3> QED
      BY <1>11, <3>1, AccessStays
  <2> QED
    BY <2>1, <2>2, <2>3
<1>12. ASSUME NEW now \in Times, NEW g \in Groups, NEW linked \in SUBSET Users,
              NEW granted \in SUBSET collections, PutGroup(a, g, linked, granted, now)
       PROVE  Noticed(u) \/ Access(u)' = Access(u)
  <2>1. /\ groups'[g].users = linked
        /\ \A h \in Groups \ {g} : groups'[h] = groups[h]
    BY <1>1, <1>12 DEF PutGroup, Group
  <2> QED
    BY <1>11, <1>12, <2>1 DEF PutGroup
<1>13. ASSUME NEW now \in Times, NEW g \in Groups, DeleteGroup(a, g, now)
       PROVE  Noticed(u) \/ Access(u)' = Access(u)
  <2>1. /\ groups'[g].users = {}
        /\ \A h \in Groups \ {g} : groups'[h] = groups[h]
    BY <1>1, <1>13 DEF DeleteGroup, NoGroup
  <2> QED
    BY <1>11, <1>13, <2>1 DEF DeleteGroup
<1>14. ASSUME NEW now \in Times, NEW g \in Groups, NEW v \in Users,
              RemoveGroupMember(a, g, v, now)
       PROVE  Noticed(u) \/ Access(u)' = Access(u)
  <2>1. /\ groups'[g].users = groups[g].users \ {v}
        /\ \A h \in Groups \ {g} : groups'[h] = groups[h]
    BY <1>1, <1>14 DEF RemoveGroupMember, Group
  <2> QED
    BY <1>11, <1>14, <2>1 DEF RemoveGroupMember
<1>15. ASSUME NEW now \in Times, NEW enabled \in BOOLEAN, UpdatePolicy(a, enabled, now)
       PROVE  Noticed(u) \/ Access(u)' = Access(u)
  <2>1. members' = members /\ Commit(Bound(Users), now)
    BY <1>15 DEF UpdatePolicy
  <2>2. CASE Confirmed(u)
    <3>1. u \in Bound(Users)
      BY <1>2, <2>2 DEF Bound
    <3> QED
      BY <2>1, <3>1, CommitNotices
  <2>3. CASE ~Confirmed(u)
    BY <2>1, <2>3, OutsidersHaveNone DEF Confirmed
  <2> QED
    BY <2>2, <2>3
<1> QED
  BY <1>4, <1>5, <1>6, <1>7, <1>8, <1>9, <1>10, <1>12, <1>13, <1>14, <1>15
  DEF Administers

LEMMA AccountStepsKeepAccess ==
  ASSUME TypeOK, NEW v \in Users, AccountStep(v), NEW u \in Users, Enabled(u)
  PROVE  Access(u)' = Access(u)
<1>1. members \in [Users -> Row]
  BY DEF TypeOK
<1>2. ASSUME NEW account, Store(v, account) PROVE Access(u)' = Access(u)
  BY <1>2, AccessStays DEF Store
<1>3. ASSUME NEW now \in Times, FinalizeAccountPurge(v, now)
      PROVE  Access(u)' = Access(u)
  <2>1. u # v
    BY <1>3 DEF FinalizeAccountPurge, Enabled
  <2>2. members'[u] = members[u] /\ policy' = policy
    BY <1>1, <1>3, <2>1 DEF FinalizeAccountPurge
  <2>3. groups' = groups \/ groups' = WithoutMember(v)
    BY <1>3 DEF FinalizeAccountPurge
  <2>4. \A g \in Groups : /\ u \in groups'[g].users <=> u \in groups[g].users
                          /\ groups'[g].collections = groups[g].collections
    BY <2>1, <2>3, WithoutMemberShrinks
  <2> QED
    BY <2>2, <2>4, AccessStays
<1> QED
  BY <1>2, <1>3 DEF AccountStep, ShowFactor, EndAssurance, CreateInvitedAccount,
     DisableTotp, BeginRecoverableAccountDeletion, RecoverAccountDeletion

\* A change of members, groups or the policy that changes what an account may see
\* is noticed by its next poll.
THEOREM AccessChangesNoticed == Spec => AccessChangesAreNoticed
<1>1. TypeOK /\ [Next]_vars =>
        [\A u \in Users : Enabled(u) /\ Access(u)' # Access(u) =>
           Noticed(u) \/ \E a \in Users : WritesCollections(a)]_vars
  BY AdministersNotices, AccountStepsKeepAccess DEF Next
<1> QED
  BY <1>1, TypeCorrect, PTL DEF Spec, AccessChangesAreNoticed

=============================================================================
