--------------------------- MODULE WorkspaceTeam ---------------------------
(***************************************************************************)
(* The team of one workspace: its members with their roles, the pending    *)
(* invitations, and the organization hooks of apps/web/lib/auth.ts.        *)
(*                                                                         *)
(* The identity library keeps the rows.  It checks who calls, runs a hook  *)
(* that reads what the limit is about, and writes when the hook returns.   *)
(* Nothing is locked between the reads and the write.                      *)
(***************************************************************************)
EXTENDS Integers, FiniteSets

CONSTANTS
  Users,        \* people who are or may become members
  Plans,        \* what paidPlanForSubscription can answer
  SeatLimit,    \* the team_members entitlement of a plan
  TeamCalls,    \* concurrent calls that change the team
  NoUser,       \* an unused call names nobody
  MaxTeamCalls  \* bound on the calls that change the team

ASSUME UsersAssumption == NoUser \notin Users /\ IsFiniteSet(Users)
ASSUME SeatsAssumption == SeatLimit \in [Plans -> Nat]
ASSUME TeamBoundAssumption == MaxTeamCalls \in Nat

VARIABLES
  plan,          \* the paid plan the subscription row stands for
  plansHeld,     \* the plans it has stood for so far (history)
  role,          \* member rows: the role of a user, "none" without a row
  invited,       \* pending unexpired invitations of a user
  team,          \* the calls in flight
  teamStarted,   \* calls started so far
  seatsRaced,    \* seats given by a call that another one had overtaken (history)
  ownerRaced     \* an owner was taken away by such a call (history)

teamRows == << plan, plansHeld, role, invited >>
teamVars == << teamRows, team, teamStarted, seatsRaced, ownerRaced >>

Roles == {"member", "admin", "owner"}
Members == {u \in Users : role[u] # "none"}
Owners == {u \in Users : role[u] = "owner"}

\* What a call read has not been read yet.
Unread == -1
Readings == Nat \cup {Unread}

\* Idle calls, and what a call carries from its reads to its write.
NoCall == [op |-> "idle", user |-> NoUser, next |-> "none", was |-> "none",
           limit |-> Unread, members |-> Unread, pending |-> Unread,
           owners |-> Unread, overtaken |-> FALSE]

TeamInit ==
  /\ plan \in Plans
  /\ plansHeld = {plan}
  /\ role \in [Users -> Roles \cup {"none"}]
  /\ Owners # {}
  /\ Cardinality(Members) <= SeatLimit[plan]
  /\ invited = [u \in Users |-> 0]
  /\ team = [c \in TeamCalls |-> NoCall]
  /\ teamStarted = 0
  /\ seatsRaced = 0
  /\ ownerRaced = FALSE

\* getOrganizationSeatUsage: pendingInvitations
Invitations == UNION {{u} \X (1 .. invited[u]) : u \in Users}
Pending == Cardinality(Invitations)

(***************************************************************************)
(* Calls.  The actor's role is read when the call starts: members manage   *)
(* nobody, admins neither touch an owner nor make one.                     *)
(***************************************************************************)
MayManage(actor, target, next) ==
  \/ role[actor] = "owner"
  \/ /\ role[actor] = "admin"
     /\ "owner" \notin {target, next}

Start(c, call) ==
  /\ team[c].op = "idle"
  /\ teamStarted < MaxTeamCalls
  /\ team' = [team EXCEPT ![c] = call]
  /\ teamStarted' = teamStarted + 1
  /\ UNCHANGED << teamRows, seatsRaced, ownerRaced >>

\* inviteMember: for somebody who is no member and has no pending invitation
StartInvite(c, u) ==
  /\ role[u] = "none"
  /\ invited[u] = 0
  /\ \E a \in Users : MayManage(a, "none", "member")
  /\ Start(c, [NoCall EXCEPT !.op = "invite", !.user = u])

\* acceptInvitation with the role the invitation names; the library may run
\* beforeAddMember ("accept") or go straight to the write ("join")
StartAccept(c, u) ==
  /\ role[u] = "none"
  /\ invited[u] > 0
  /\ \E op \in {"accept", "join"}, r \in Roles \ {"owner"} :
       Start(c, [NoCall EXCEPT !.op = op, !.user = u, !.next = r])

\* updateMemberRole, and removeMember as the change to "none"; the library
\* loads the row before it calls the hook
StartChange(c, u) ==
  /\ role[u] # "none"
  /\ \E a \in Users, next \in Roles \cup {"none"} :
       /\ next # role[u]
       /\ MayManage(a, role[u], next)
       /\ Start(c, [NoCall EXCEPT !.op = "change", !.user = u,
                                  !.next = next, !.was = role[u]])

(***************************************************************************)
(* The reads of the hooks.  Promise.all sends those of the seat limit      *)
(* together: they are answered in any order.                               *)
(***************************************************************************)
Read(c) ==
  UNCHANGED << teamRows, teamStarted, seatsRaced, ownerRaced >>

\* teamSeatLimit
ReadSeatLimit(c) ==
  /\ team[c].op \in {"invite", "accept"}
  /\ team[c].limit = Unread
  /\ team' = [team EXCEPT ![c].limit = SeatLimit[plan]]
  /\ Read(c)

\* getOrganizationSeatUsage: the count of the member rows
CountMembers(c) ==
  /\ team[c].op \in {"invite", "accept"}
  /\ team[c].members = Unread
  /\ team' = [team EXCEPT ![c].members = Cardinality(Members)]
  /\ Read(c)

\* getOrganizationSeatUsage: the count of the pending invitations
CountPending(c) ==
  /\ team[c].op \in {"invite", "accept"}
  /\ team[c].pending = Unread
  /\ team' = [team EXCEPT ![c].pending = Pending]
  /\ Read(c)

\* countOrganizationOwners
CountOwners(c) ==
  /\ team[c].op = "change"
  /\ team[c].owners = Unread
  /\ team' = [team EXCEPT ![c].owners = Cardinality(Owners)]
  /\ Read(c)

(***************************************************************************)
(* The decisions and the writes.                                           *)
(***************************************************************************)
\* Mutant: pending invitations take no seats.
InvitationRefusedToMembers(call) == call.members >= call.limit

InvitationRefused(call) == call.members + call.pending >= call.limit
MemberRefused(call) == call.members >= call.limit

\* wouldRemoveLastOwner
WouldRemoveLastOwner(call) ==
  /\ call.was = "owner"
  /\ call.next # "owner"
  /\ call.owners <= 1

HookDone(c) ==
  CASE team[c].op = "change" -> team[c].owners # Unread
    [] team[c].op = "join"   -> TRUE
    [] OTHER -> Unread \notin {team[c].limit, team[c].members, team[c].pending}

\* The write of c happens between the reads and the write of these calls.
Overtaken(c, ops) ==
  {d \in TeamCalls \ {c} : /\ team[d].op \in ops
                           /\ {team[d].members, team[d].pending, team[d].owners} # {Unread}}

Finish(c, ops) ==
  [d \in TeamCalls |->
     IF d = c THEN NoCall
     ELSE IF d \in Overtaken(c, ops) THEN [team[d] EXCEPT !.overtaken = TRUE]
     ELSE team[d]]

\* The hook throws FORBIDDEN, or a second acceptance meets member_org_user_uidx.
Refuse(c) ==
  /\ team[c].op # "idle"
  /\ HookDone(c)
  /\ \/ team[c].op = "invite" /\ InvitationRefused(team[c])
     \/ team[c].op = "accept" /\ MemberRefused(team[c])
     \/ team[c].op \in {"accept", "join"} /\ role[team[c].user] # "none"
     \/ team[c].op = "change" /\ WouldRemoveLastOwner(team[c])
  /\ team' = [team EXCEPT ![c] = NoCall]
  /\ Read(c)

Count(raced) == seatsRaced' = seatsRaced + (IF raced THEN 1 ELSE 0)

CreateInvitation(c) ==
  /\ team[c].op = "invite"
  /\ HookDone(c)
  /\ ~InvitationRefused(team[c])
  /\ invited' = [invited EXCEPT ![team[c].user] = @ + 1]
  /\ team' = Finish(c, {"invite", "accept"})
  /\ Count(team[c].overtaken)
  /\ UNCHANGED << plan, plansHeld, role, teamStarted, ownerRaced >>

\* Mutant: the invitation is taken although it may have lapsed.
AddMemberTwice(c) ==
  LET u == team[c].user IN
  /\ team[c].op \in {"accept", "join"}
  /\ HookDone(c)
  /\ role[u] = "none"
  /\ role' = [role EXCEPT ![u] = team[c].next]
  /\ invited' = [invited EXCEPT ![u] = @ - 1]
  /\ team' = Finish(c, {"invite", "accept"})
  /\ UNCHANGED << plan, plansHeld, teamStarted, seatsRaced, ownerRaced >>

\* The invitation becomes a member row.  One that lapsed since the call had
\* started gave its seat back: the row takes a seat nobody counted.
AddMember(c) ==
  LET u == team[c].user IN
  /\ team[c].op \in {"accept", "join"}
  /\ HookDone(c)
  /\ team[c].op = "accept" => ~MemberRefused(team[c])
  /\ role[u] = "none"
  /\ role' = [role EXCEPT ![u] = team[c].next]
  /\ invited' = [invited EXCEPT ![u] = IF @ > 0 THEN @ - 1 ELSE 0]
  /\ team' = Finish(c, {"invite", "accept"})
  /\ Count(invited[u] = 0)
  /\ UNCHANGED << plan, plansHeld, teamStarted, ownerRaced >>

\* A removed row takes the other changes of the same row with it: they update
\* by its id.
ChangeMember(c) ==
  LET u == team[c].user
      gone(d) == /\ team[c].next = "none"
                 /\ team[d].op = "change" /\ team[d].user = u
  IN
  /\ team[c].op = "change"
  /\ HookDone(c)
  /\ ~WouldRemoveLastOwner(team[c])
  /\ role' = [role EXCEPT ![u] = team[c].next]
  /\ team' = [d \in TeamCalls |->
                IF gone(d) THEN NoCall ELSE Finish(c, {"change"})[d]]
  /\ ownerRaced' = (ownerRaced \/ /\ team[c].overtaken \/ team[c].was # role[u]
                                  /\ role[u] = "owner"
                                  /\ team[c].next # "owner")
  /\ UNCHANGED << plan, plansHeld, invited, teamStarted, seatsRaced >>

(***************************************************************************)
(* The environment: 48 hours pass over an invitation, the webhook handler  *)
(* of the payment provider writes the subscription row.                    *)
(***************************************************************************)
ExpireInvitation(u) ==
  /\ invited[u] > 0
  /\ invited' = [invited EXCEPT ![u] = @ - 1]
  /\ UNCHANGED << plan, plansHeld, role, team, teamStarted, seatsRaced, ownerRaced >>

ChangePlan(p) ==
  /\ p # plan
  /\ plan' = p
  /\ plansHeld' = plansHeld \cup {p}
  /\ UNCHANGED << role, invited, team, teamStarted, seatsRaced, ownerRaced >>

TeamNext ==
  \/ \E c \in TeamCalls :
       \/ \E u \in Users : StartInvite(c, u) \/ StartAccept(c, u) \/ StartChange(c, u)
       \/ ReadSeatLimit(c)
       \/ CountMembers(c)
       \/ CountPending(c)
       \/ CountOwners(c)
       \/ Refuse(c)
       \/ CreateInvitation(c)
       \/ AddMember(c)
       \/ ChangeMember(c)
  \/ \E u \in Users : ExpireInvitation(u)
  \/ \E p \in Plans : ChangePlan(p)

Calls == [op : {"idle", "invite", "accept", "join", "change"},
          user : Users \cup {NoUser}, next : Roles \cup {"none"},
          was : Roles \cup {"none"}, limit : Readings, members : Readings,
          pending : Readings, owners : Readings, overtaken : BOOLEAN]

TeamTypeOK ==
  /\ plan \in Plans
  /\ plansHeld \subseteq Plans
  /\ plan \in plansHeld
  /\ role \in [Users -> Roles \cup {"none"}]
  /\ invited \in [Users -> Nat]
  /\ team \in [TeamCalls -> Calls]
  /\ teamStarted \in 0 .. MaxTeamCalls
  /\ seatsRaced \in Nat
  /\ ownerRaced \in BOOLEAN

(***************************************************************************)
(* Properties                                                              *)
(***************************************************************************)

(***************************************************************************)
(* A workspace has no more members and pending invitations than the best   *)
(* plan it had allows, but for the seats given by a call that another one  *)
(* had overtaken between its reads and its write: every other call of the  *)
(* hooks keeps to the limit, whatever the order its reads are answered in. *)
(***************************************************************************)
SeatExcessIsRaced ==
  \E p \in plansHeld : Cardinality(Members) + Pending <= SeatLimit[p] + seatsRaced

(***************************************************************************)
(* "A workspace must always keep at least one owner", the invariant that   *)
(* docs/identity.md:30 says the organization hooks enforce, and the        *)
(* message of enforceOwnerContinuity.  The code does not keep it: two      *)
(* owners who step down together each count the other one.                 *)
(***************************************************************************)
OwnerKept == Owners # {}

(***************************************************************************)
(* What the hooks do keep: the last owner goes only by a change that had   *)
(* counted the owners before another change was written, or that had       *)
(* loaded a role the member no longer had.  Changes that are under way     *)
(* together but read late enough never end with the last owner.            *)
(***************************************************************************)
OwnerLossIsRaced == OwnerKept \/ ownerRaced
=============================================================================
