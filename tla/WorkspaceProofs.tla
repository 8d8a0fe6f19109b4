--------------------------- MODULE WorkspaceProofs ---------------------------
(***************************************************************************)
(* Machine-checked proofs about Workspace, for any sets of users, calls,   *)
(* keys, requests, conversations and plans, any limits and any bounds.     *)
(* Each part of the workspace has an inductive invariant of its own.       *)
(***************************************************************************)
EXTENDS Workspace, FiniteSetTheorems, TLAPS

-----------------------------------------------------------------------------
(***************************************************************************)
(* API keys.                                                               *)
(***************************************************************************)

\* The lineage of a key begins with a key that has a row.
Rooted == \A k \in Keys : Known(k) => key[k].root \in Keys /\ Known(key[k].root)

\* A request that is under way for a key is for one that has a row.
CallsNameRows ==
  \A r \in KeyCalls :
    keyCall[r].op \notin {"idle", "create"} => keyCall[r].key \in Keys /\ Known(keyCall[r].key)

\* OneActiveKey without cardinalities.
ActiveIsUnique ==
  \A a, b \in Keys :
    key[a].state = "active" /\ key[b].state = "active" /\ key[a].root = key[b].root => a = b

KeyInv == KeyTypeOK /\ Rooted /\ CallsNameRows /\ ActiveIsUnique

\* The generated identifier has no row yet.
LEMMA GeneratedIsFree == Free # {} => GeneratedKey \in Keys /\ key[GeneratedKey].state = "none"
<1> SUFFICES ASSUME Free # {}
             PROVE  GeneratedKey \in Free
  BY DEF Free
<1>1. \E k \in Keys : k \in Free
  BY DEF Free
<1> QED
  BY <1>1 DEF GeneratedKey

\* Before the first key is made there is nothing to relate.
LEMMA KeyInvInit == KeyInit => KeyInv
BY KeysAssumption
DEF KeyInit, KeyInv, KeyTypeOK, Rooted, CallsNameRows, ActiveIsUnique, Rows, NoRow, NoRequest,
    Known

\* A request that begins changes no row and names one that exists.
LEMMA BeginStep ==
  ASSUME KeyInv, NEW r \in KeyCalls, NEW op, NEW k,
         Begin(r, [op |-> op, key |-> k]),
         \/ op = "create" /\ k = NoKey
         \/ op \in {"revoke", "rotate", "authenticate"} /\ k \in Keys /\ Known(k)
  PROVE  KeyInv'
<1> USE DEF Begin, KeyInv, Known
<1>1. KeyTypeOK'
  BY KeysAssumption DEF KeyTypeOK
<1>2. Rooted' /\ ActiveIsUnique'
  BY DEF Rooted, ActiveIsUnique
<1>3. CallsNameRows'
  BY DEF CallsNameRows, KeyTypeOK
<1> QED
  BY <1>1, <1>2, <1>3

\* A request moves on or ends, and the rows stay as they are or lose a key.
LEMMA QuietKeyStep ==
  ASSUME KeyInv, NEW r \in KeyCalls,
         keyCall[r].op \notin {"idle", "create"},
         \/ End(r)
         \/ \E op \in {"replace", "touch"} : keyCall' = [keyCall EXCEPT ![r].op = op],
         \/ UNCHANGED key
         \/ key' = [key EXCEPT ![keyCall[r].key].state = "revoked"],
         UNCHANGED keyStarted
  PROVE  KeyInv'
<1> USE DEF KeyInv, KeyTypeOK, Rows, Known
<1>1. keyCall[r].key \in Keys /\ key[keyCall[r].key].state # "none"
  BY DEF CallsNameRows
<1>2. keyCall' \in [KeyCalls ->
       [op : {"idle", "create", "revoke", "rotate", "replace", "authenticate", "touch"},
        key : Keys \cup {NoKey}]]
  BY DEF End, NoRequest
<1>3. KeyTypeOK'
  BY <1>1, <1>2
<1>4. \A k \in Keys : /\ key'[k].root = key[k].root
                      /\ key'[k].state = "none" <=> key[k].state = "none"
                      /\ key'[k].state = "active" => key[k].state = "active"
  BY <1>1
<1>5. Rooted' /\ ActiveIsUnique'
  BY <1>4 DEF Rooted, ActiveIsUnique
<1>6. \A s \in KeyCalls : keyCall'[s].op \notin {"idle", "create"} =>
         keyCall[s].op \notin {"idle", "create"} /\ keyCall'[s].key = keyCall[s].key
  BY DEF End, NoRequest
<1>7. CallsNameRows'
  BY <1>4, <1>6 DEF CallsNameRows
<1> QED
  BY <1>3, <1>5, <1>7

\* A created key begins a lineage nobody is in.
LEMMA CreateStep ==
  ASSUME KeyInv, NEW r \in KeyCalls, CreateKey(r)
  PROVE  KeyInv'
<1> USE DEF KeyInv, KeyTypeOK, Rows, Known
<1> DEFINE new == GeneratedKey
<1>1. new \in Keys /\ key[new].state = "none"
  BY GeneratedIsFree DEF CreateKey
<1> HIDE DEF new
<1>2. /\ key'[new] = [state |-> "active", root |-> new, expired |-> FALSE]
      /\ \A k \in Keys \ {new} : key'[k] = key[k]
      /\ key' \in [Keys -> Rows]
  BY <1>1 DEF CreateKey, NewRow, new
<1>3. keyCall' = [keyCall EXCEPT ![r] = [op |-> "idle", key |-> NoKey]]
  BY DEF CreateKey, End, NoRequest
<1>4. KeyTypeOK'
  BY <1>2, <1>3 DEF CreateKey
<1>5. Rooted'
  BY <1>1, <1>2 DEF Rooted
<1>6. ActiveIsUnique'
  BY <1>1, <1>2 DEF ActiveIsUnique, Rooted
<1>7. CallsNameRows'
  BY <1>1, <1>2, <1>3 DEF CallsNameRows
<1> QED
  BY <1>4, <1>5, <1>6, <1>7

\* A replacement comes in the same transaction that revokes the active key.
LEMMA RotateStep ==
  ASSUME KeyInv, NEW r \in KeyCalls, RotateKey(r)
  PROVE  KeyInv'
<1> USE DEF KeyInv, KeyTypeOK, Rows, Known, RotateKey
<1> DEFINE k == keyCall[r].key
           new == GeneratedKey
<1>1. k \in Keys /\ key[k].state # "none"
  BY DEF CallsNameRows
<1>2. CASE key[k].state # "active"
  BY <1>2, QuietKeyStep
<1>3. CASE key[k].state = "active"
  <2>1. new \in Keys /\ key[new].state = "none"
    BY <1>3, GeneratedIsFree
  <2> HIDE DEF new
  <2>2. PICK expired \in BOOLEAN :
          key' = [key EXCEPT ![k].state = "revoked",
                             ![new] = [state |-> "active", root |-> key[k].root,
                                       expired |-> expired]]
    <3>1. key[k].expired \in BOOLEAN
      BY <1>1
    <3>2. ReplacementExpiry(k) \subseteq BOOLEAN
      BY <3>1 DEF ReplacementExpiry
    <3> QED
      BY <1>3, <3>2 DEF NewRow, new
  <2>3. /\ key'[new] = [state |-> "active", root |-> key[k].root, expired |-> expired]
        /\ key'[k].state = "revoked" /\ key'[k].root = key[k].root
        /\ \A j \in Keys \ {new, k} : key'[j] = key[j]
        /\ key' \in [Keys -> Rows]
    <3>1. k # new
      BY <1>3, <2>1
    <3>2. key[k].root \in Keys
      BY <1>1 DEF Rooted
    <3> QED
      BY <1>1, <2>1, <2>2, <3>1, <3>2
  <2>4. keyCall' = [keyCall EXCEPT ![r] = [op |-> "idle", key |-> NoKey]]
    BY DEF End, NoRequest
  <2>5. KeyTypeOK'
    BY <2>3, <2>4
  <2>6. Rooted'
    BY <1>1, <2>1, <2>3 DEF Rooted
  <2>7. ActiveIsUnique'
    BY <1>1, <1>3, <2>1, <2>3 DEF ActiveIsUnique
  <2>8. CallsNameRows'
    BY <2>1, <2>3, <2>4 DEF CallsNameRows
  <2> QED
    BY <2>5, <2>6, <2>7, <2>8
<1> QED
  BY <1>2, <1>3

\* Every step of the routes, of a request with a key and of the time.
LEMMA KeyInvStep == KeyInv /\ [KeyNext]_keyVars => KeyInv'
<1> SUFFICES ASSUME KeyInv, [KeyNext]_keyVars
             PROVE  KeyInv'
  OBVIOUS
<1>1. ASSUME NEW r \in KeyCalls,
             BeginCreate(r) \/ \E k \in Keys : BeginRevoke(r, k) \/ BeginRotate(r, k)
                                                 \/ BeginRequest(r, k)
      PROVE  KeyInv'
  BY <1>1, BeginStep DEF BeginCreate, BeginRevoke, BeginRotate, BeginRequest
<1>2. ASSUME NEW r \in KeyCalls,
             RevokeKey(r) \/ ReadKey(r) \/ AuthenticateKey(r) \/ TouchKey(r)
      PROVE  KeyInv'
  BY <1>2, QuietKeyStep DEF RevokeKey, ReadKey, AuthenticateKey, TouchKey
<1>3. ASSUME NEW k \in Keys, ExpireKey(k)
      PROVE  KeyInv'
  <2>1. \A j \in Keys : key'[j].root = key[j].root /\ key'[j].state = key[j].state
    BY <1>3 DEF ExpireKey, KeyInv, KeyTypeOK, Rows
  <2>2. KeyTypeOK'
    BY <1>3 DEF ExpireKey, KeyInv, KeyTypeOK, Rows
  <2> QED
    BY <1>3, <2>1, <2>2 DEF ExpireKey, KeyInv, Rooted, CallsNameRows, ActiveIsUnique, Known
<1>4. CASE UNCHANGED keyVars
  BY <1>4 DEF keyVars, KeyInv, KeyTypeOK, Rooted, CallsNameRows, ActiveIsUnique, Known
<1> QED
  BY <1>1, <1>2, <1>3, <1>4, CreateStep, RotateStep DEF KeyNext

\* The rest of the workspace leaves the keys alone.
LEMMA KeyInvInvariant == Spec => []KeyInv
<1>1. Init => KeyInv
  BY KeyInvInit DEF Init
<1>2. KeyInv /\ [Next]_vars => KeyInv'
  BY KeyInvStep DEF Next, vars
<1> QED
  BY <1>1, <1>2, PTL DEF Spec

\* A set whose elements are all the same has at most one.
LEMMA AtMostOne ==
  ASSUME NEW S, \A a, b \in S : a = b
  PROVE  Cardinality(S) <= 1
<1>1. CASE S = {}
  BY <1>1, FS_EmptySet
<1>2. ASSUME NEW a \in S
      PROVE  Cardinality(S) <= 1
  <2>1. S = {a}
    BY <1>2
  <2> QED
    BY <2>1, FS_Singleton
<1> QED
  BY <1>1, <1>2

\* However the calls of the routes overlap, a lineage has at most one key that
\* is not revoked: rotateApiKeyRecord replaces a key only if it still is active.
THEOREM LineageHasOneActiveKey == Spec => []OneActiveKey
<1>1. KeyInv => OneActiveKey
  <2> SUFFICES ASSUME KeyInv, NEW root \in Keys
               PROVE  Cardinality(ActiveIn(root)) <= 1
    BY DEF OneActiveKey
  <2>1. \A a, b \in ActiveIn(root) : a = b
    BY DEF KeyInv, ActiveIsUnique, ActiveIn, Lineage
  <2> QED
    BY <2>1, AtMostOne
<1> QED
  BY <1>1, KeyInvInvariant, PTL

\* A step gives a lineage an active key only if it is new or has one already.
LEMMA RevocationStep ==
  ASSUME KeyInv, [KeyNext]_keyVars,
         NEW root \in Keys, Lineage(root) # {}, ActiveIn(root) = {}
  PROVE  ActiveIn(root)' = {}
<1> DEFINE ActiveAt(k) == key[k].root = root /\ key[k].state = "active"
<1>1. \A k \in Keys : ~ActiveAt(k)
  BY DEF ActiveIn, Lineage
<1>2. Known(root)
  BY DEF Lineage, KeyInv, Rooted, Known
<1> SUFFICES \A k \in Keys : ~ActiveAt(k)'
  BY DEF ActiveIn, Lineage
<1> USE DEF KeyInv, KeyTypeOK, Rows, Known
<1>3. CASE key' = key
  BY <1>1, <1>3
<1>4. ASSUME NEW r \in KeyCalls, CreateKey(r)
      PROVE  \A k \in Keys : ~ActiveAt(k)'
  <2>1. GeneratedKey # root
    BY <1>2, <1>4, GeneratedIsFree DEF CreateKey
  <2> QED
    BY <1>1, <1>4, <2>1 DEF CreateKey, NewRow
<1>5. ASSUME NEW r \in KeyCalls, RotateKey(r), key' # key
      PROVE  \A k \in Keys : ~ActiveAt(k)'
  <2> DEFINE old == keyCall[r].key
  <2>1. old \in Keys
    BY <1>5 DEF RotateKey, CallsNameRows
  <2>2. PICK expired : /\ key[old].state = "active"
                       /\ key' = [key EXCEPT ![old].state = "revoked",
                                             ![GeneratedKey] = NewRow(key[old].root, expired)]
    BY <1>5 DEF RotateKey
  <2>3. key[old].root # root
    BY <1>1, <2>1, <2>2
  <2>4. \A k \in Keys : key'[k].state = "active" =>
          key'[k].root = key[old].root \/ key'[k] = key[k]
    BY <2>1, <2>2 DEF NewRow
  <2> QED
    BY <1>1, <2>3, <2>4
<1>6. ASSUME NEW r \in KeyCalls, RevokeKey(r)
      PROVE  \A k \in Keys : ~ActiveAt(k)'
  BY <1>1, <1>6 DEF RevokeKey
<1>7. ASSUME NEW k \in Keys, ExpireKey(k)
      PROVE  \A j \in Keys : ~ActiveAt(j)'
  BY <1>1, <1>7 DEF ExpireKey
<1>8. ASSUME NEW r \in KeyCalls, ReadKey(r) \/ AuthenticateKey(r) \/ TouchKey(r)
      PROVE  key' = key
  BY <1>8 DEF ReadKey, AuthenticateKey, TouchKey
<1>9. ASSUME NEW r \in KeyCalls,
             BeginCreate(r) \/ \E k \in Keys : BeginRevoke(r, k) \/ BeginRotate(r, k)
                                                 \/ BeginRequest(r, k)
      PROVE  key' = key
  BY <1>9 DEF BeginCreate, BeginRevoke, BeginRotate, BeginRequest, Begin
<1> QED
  BY <1>3, <1>4, <1>5, <1>6, <1>7, <1>8, <1>9 DEF KeyNext, keyVars

\* Once every key of a lineage is revoked none of it comes to life again, not by
\* a rotation or a request that read its key before the revocation either.
THEOREM KeysStayRevoked == Spec => RevocationIsFinal
<1> DEFINE StaysRevoked == \A root \in Keys :
             (Lineage(root) # {} /\ ActiveIn(root) = {}) => ActiveIn(root)' = {}
<1>1. KeyInv /\ [Next]_vars => [StaysRevoked]_keyVars
  <2>1. [Next]_vars => [KeyNext]_keyVars
    BY DEF Next, vars
  <2> QED
    BY <2>1, RevocationStep
<1> QED
  BY <1>1, KeyInvInvariant, PTL DEF Spec, RevocationIsFinal

-----------------------------------------------------------------------------
(***************************************************************************)
(* The team.                                                               *)
(***************************************************************************)

\* What a call carries fits what it does.
CallsAreSound ==
  \A c \in TeamCalls :
    /\ team[c].op # "idle" => team[c].user \in Users
    /\ team[c].op \in {"accept", "join"} => team[c].next \in Roles \ {"owner"}
    /\ team[c].op = "change" => role[team[c].user] # "none"

\* Nobody but an overtaken call acts on a count that no longer is on the safe
\* side, and a limit is that of a plan the workspace has had.
SeatsHold(call) ==
  /\ call.limit # Unread => \E p \in plansHeld : call.limit = SeatLimit[p]
  /\ call.members # Unread /\ ~call.overtaken => Cardinality(Members) <= call.members
  /\ call.pending # Unread /\ ~call.overtaken => Pending <= call.pending

OwnersHold(call) ==
  call.owners # Unread /\ ~call.overtaken => call.owners = Cardinality(Owners)

ReadingsHold ==
  \A c \in TeamCalls :
    /\ team[c].op \in {"invite", "accept"} => SeatsHold(team[c])
    /\ team[c].op = "change" => OwnersHold(team[c])

TeamInv ==
  /\ TeamTypeOK
  /\ IsFiniteSet(Invitations)
  /\ CallsAreSound
  /\ ReadingsHold
  /\ SeatExcessIsRaced
  /\ OwnerLossIsRaced

\* The members and the owners are some of the users.
LEMMA MembersAreFinite ==
  /\ IsFiniteSet(Members) /\ Cardinality(Members) \in Nat
  /\ IsFiniteSet(Owners) /\ Cardinality(Owners) \in Nat
<1>1. Members \in SUBSET Users /\ Owners \in SUBSET Users
  BY DEF Members, Owners
<1> QED
  BY <1>1, UsersAssumption, FS_Subset, FS_CardinalityType

\* So they are after a step.
LEMMA MembersStayFinite ==
  /\ IsFiniteSet(Members') /\ Cardinality(Members') \in Nat
  /\ IsFiniteSet(Owners') /\ Cardinality(Owners') \in Nat
<1>1. Members' \in SUBSET Users /\ Owners' \in SUBSET Users
  BY DEF Members, Owners
<1> QED
  BY <1>1, UsersAssumption, FS_Subset, FS_CardinalityType

\* One element of Invitations for each pending invitation.
LEMMA InvitationsAreNumbered ==
  \A u, n : << u, n >> \in Invitations <=> u \in Users /\ n \in 1 .. invited[u]
BY DEF Invitations

\* An invitation more is an element more.
LEMMA OneInvitationMore ==
  ASSUME invited \in [Users -> Nat], IsFiniteSet(Invitations), NEW u \in Users,
         invited' = [invited EXCEPT ![u] = @ + 1]
  PROVE  IsFiniteSet(Invitations') /\ Pending' = Pending + 1
<1> DEFINE new == << u, invited[u] + 1 >>
<1>1. new \notin Invitations
  BY InvitationsAreNumbered
<1>2. Invitations' = Invitations \cup {new}
  BY DEF Invitations
<1> QED
  BY <1>1, <1>2, FS_AddElement DEF Pending

\* An invitation less is an element less.
LEMMA OneInvitationLess ==
  ASSUME invited \in [Users -> Nat], IsFiniteSet(Invitations), NEW u \in Users,
         invited[u] > 0, invited' = [invited EXCEPT ![u] = @ - 1]
  PROVE  IsFiniteSet(Invitations') /\ Pending' = Pending - 1
<1> DEFINE last == << u, invited[u] >>
<1>1. last \in Invitations
  BY InvitationsAreNumbered
<1>2. Invitations' = Invitations \ {last}
  <2>1. \A v \in Users, n \in Nat : n \in 1 .. invited'[v] <=>
          n \in 1 .. invited[v] /\ ~(v = u /\ n = invited[u])
    OBVIOUS
  <2>2. \A x : x \in Invitations <=> \E v \in Users : \E n \in 1 .. invited[v] : x = << v, n >>
    BY DEF Invitations
  <2>3. \A x : x \in Invitations' <=> \E v \in Users : \E n \in 1 .. invited[v]' : x = << v, n >>
    BY DEF Invitations
  <2> QED
    BY <2>1, <2>2, <2>3
<1> QED
  BY <1>1, <1>2, FS_RemoveElement DEF Pending

\* A workspace begins with an owner and within the seats of its plan.
LEMMA TeamInvInit == TeamInit => TeamInv
<1> SUFFICES ASSUME TeamInit
             PROVE  TeamInv
  OBVIOUS
<1>1. TeamTypeOK
  <2>1. NoCall \in Calls
    BY DEF NoCall, Calls, Readings, Unread
  <2>2. team \in [TeamCalls -> Calls] /\ invited \in [Users -> Nat]
    BY <2>1 DEF TeamInit
  <2>3. 0 \in 0 .. MaxTeamCalls
    BY TeamBoundAssumption
  <2> QED
    BY <2>2, <2>3 DEF TeamInit, TeamTypeOK
<1>2. Invitations = {}
  BY DEF TeamInit, Invitations
<1>3. IsFiniteSet(Invitations) /\ Pending = 0
  BY <1>2, FS_EmptySet DEF Pending
<1>4. CallsAreSound /\ ReadingsHold
  BY DEF TeamInit, CallsAreSound, ReadingsHold, NoCall
<1>5. SeatExcessIsRaced
  <2>1. SeatLimit[plan] \in Nat /\ Cardinality(Members) \in Nat
    BY MembersAreFinite, SeatsAssumption DEF TeamInit
  <2> QED
    BY <1>3, <2>1 DEF TeamInit, SeatExcessIsRaced
<1>6. OwnerLossIsRaced
  BY DEF TeamInit, OwnerLossIsRaced, OwnerKept
<1> QED
  BY <1>1, <1>3, <1>4, <1>5, <1>6 DEF TeamInv

\* What is said of the rows alone survives a step that leaves them alone.
LEMMA RowsKept ==
  ASSUME TeamInv, UNCHANGED << role, invited, seatsRaced, ownerRaced >>,
         plansHeld \subseteq plansHeld'
  PROVE  /\ Members' = Members /\ Owners' = Owners /\ Pending' = Pending
         /\ IsFiniteSet(Invitations') /\ SeatExcessIsRaced' /\ OwnerLossIsRaced'
<1>1. Members' = Members /\ Owners' = Owners /\ Invitations' = Invitations
  BY DEF Members, Owners, Invitations
<1> QED
  BY <1>1 DEF TeamInv, Pending, SeatExcessIsRaced, OwnerLossIsRaced, OwnerKept

\* A call that starts has read nothing.
LEMMA StartStep ==
  ASSUME TeamInv, NEW c \in TeamCalls, NEW call \in Calls, Start(c, call),
         call.user \in Users,
         {call.limit, call.members, call.pending, call.owners} = {Unread},
         call.op \in {"accept", "join"} => call.next \in Roles \ {"owner"},
         call.op = "change" => role[call.user] # "none"
  PROVE  TeamInv'
<1>1. Members' = Members /\ Owners' = Owners /\ Pending' = Pending
      /\ IsFiniteSet(Invitations') /\ SeatExcessIsRaced' /\ OwnerLossIsRaced'
  BY RowsKept DEF Start, teamRows
<1>2. TeamTypeOK'
  <2>1. teamStarted' \in 0 .. MaxTeamCalls
    BY TeamBoundAssumption DEF Start, TeamInv, TeamTypeOK
  <2>2. team' \in [TeamCalls -> Calls]
    BY DEF Start, TeamInv, TeamTypeOK
  <2> QED
    BY <2>1, <2>2 DEF Start, teamRows, TeamInv, TeamTypeOK
<1>3. team' = [team EXCEPT ![c] = call] /\ team \in [TeamCalls -> Calls]
  BY DEF Start, TeamInv, TeamTypeOK
<1>4. CallsAreSound'
  BY <1>3 DEF Start, teamRows, TeamInv, CallsAreSound
<1>5. ReadingsHold'
  BY <1>1, <1>3 DEF Start, teamRows, TeamInv, ReadingsHold, SeatsHold, OwnersHold
<1> QED
  BY <1>1, <1>2, <1>4, <1>5 DEF TeamInv

\* A count that is read is right at the moment.
LEMMA ReadStep ==
  ASSUME TeamInv, NEW c \in TeamCalls,
         \/ ReadSeatLimit(c) \/ CountMembers(c) \/ CountPending(c) \/ CountOwners(c)
         \/ Refuse(c)
  PROVE  TeamInv'
<1> USE DEF ReadSeatLimit, CountMembers, CountPending, CountOwners, Refuse
<1>1. UNCHANGED << teamRows, teamStarted, seatsRaced, ownerRaced >>
  BY DEF Read
<1>2. Members' = Members /\ Owners' = Owners /\ Pending' = Pending
      /\ IsFiniteSet(Invitations') /\ SeatExcessIsRaced' /\ OwnerLossIsRaced'
  BY <1>1, RowsKept DEF teamRows
<1>3. /\ SeatLimit[plan] \in Nat /\ plan \in plansHeld
      /\ Cardinality(Members) \in Nat /\ Cardinality(Owners) \in Nat /\ Pending \in Nat
  BY SeatsAssumption, MembersAreFinite, FS_CardinalityType DEF TeamInv, TeamTypeOK, Pending
<1>4. team \in [TeamCalls -> Calls] /\ Unread \notin Nat
  BY DEF TeamInv, TeamTypeOK, Unread
<1>5. PICK call :
        /\ team' = [team EXCEPT ![c] = call]
        /\ \/ /\ team[c].op \in {"invite", "accept"}
              /\ call = [team[c] EXCEPT !.limit = SeatLimit[plan]]
           \/ /\ team[c].op \in {"invite", "accept"}
              /\ call = [team[c] EXCEPT !.members = Cardinality(Members)]
           \/ /\ team[c].op \in {"invite", "accept"}
              /\ call = [team[c] EXCEPT !.pending = Pending]
           \/ /\ team[c].op = "change"
              /\ call = [team[c] EXCEPT !.owners = Cardinality(Owners)]
           \/ call = NoCall
  BY <1>4
<1>6. call \in Calls
  <2>1. team[c] \in Calls /\ Nat \subseteq Readings
    BY <1>4 DEF Readings
  <2>2. NoCall \in Calls
    BY DEF NoCall, Calls, Readings, Unread
  <2> QED
    BY <1>3, <1>5, <2>1, <2>2 DEF Calls
<1>7. TeamTypeOK'
  <2>1. team' \in [TeamCalls -> Calls]
    BY <1>4, <1>5, <1>6
  <2> QED
    BY <1>1, <2>1 DEF teamRows, TeamInv, TeamTypeOK
<1>8. CallsAreSound'
  BY <1>1, <1>4, <1>5, <1>6 DEF teamRows, TeamInv, CallsAreSound, Calls, NoCall
<1>9. ReadingsHold'
  <2> SUFFICES /\ call.op \in {"invite", "accept"} => SeatsHold(call)'
               /\ call.op = "change" => OwnersHold(call)'
    BY <1>1, <1>2, <1>4, <1>5 DEF teamRows, TeamInv, ReadingsHold, SeatsHold, OwnersHold
  <2>1. /\ team[c].op \in {"invite", "accept"} => SeatsHold(team[c])
        /\ team[c].op = "change" => OwnersHold(team[c])
    BY DEF TeamInv, ReadingsHold
  <2> QED
    BY <1>1, <1>2, <1>3, <1>4, <1>5, <2>1 DEF teamRows, SeatsHold, OwnersHold, Calls, NoCall
<1> QED
  BY <1>2, <1>7, <1>8, <1>9 DEF TeamInv

\* A write ends its call and marks the calls that have read before it.
LEMMA FinishedCalls ==
  ASSUME team \in [TeamCalls -> Calls], NEW c \in TeamCalls, NEW ops
  PROVE  /\ Finish(c, ops) \in [TeamCalls -> Calls]
         /\ Finish(c, ops)[c] = NoCall
         /\ \A d \in TeamCalls \ {c} :
              LET e == Finish(c, ops)[d]
              IN  /\ e.op = team[d].op /\ e.user = team[d].user /\ e.next = team[d].next
                  /\ e.was = team[d].was /\ e.limit = team[d].limit
                  /\ e.members = team[d].members /\ e.pending = team[d].pending
                  /\ e.owners = team[d].owners
                  /\ ~e.overtaken => ~team[d].overtaken
                  /\ team[d].op \in ops /\ ~e.overtaken =>
                       /\ team[d].members = Unread /\ team[d].pending = Unread
                       /\ team[d].owners = Unread
<1>1. NoCall \in Calls
  BY DEF NoCall, Calls, Readings, Unread
<1>2. \A d \in TeamCalls : [team[d] EXCEPT !.overtaken = TRUE] \in Calls
  BY DEF Calls
<1>3. Finish(c, ops) \in [TeamCalls -> Calls]
  BY <1>1, <1>2 DEF Finish
<1>4. Finish(c, ops)[c] = NoCall
  BY DEF Finish
<1>5. ASSUME NEW d \in TeamCalls \ {c}
      PROVE  \/ /\ Finish(c, ops)[d] = [team[d] EXCEPT !.overtaken = TRUE]
             \/ /\ Finish(c, ops)[d] = team[d]
                /\ team[d].op \in ops =>
                     /\ team[d].members = Unread /\ team[d].pending = Unread
                     /\ team[d].owners = Unread
  BY DEF Finish, Overtaken
<1>6. \A d \in TeamCalls : team[d] \in Calls
  OBVIOUS
<1> QED
  BY <1>3, <1>4, <1>5, <1>6 DEF Calls

\* A call that has read before a write keeps readings that are on the safe side,
\* or it is overtaken.
LEMMA OtherReadings ==
  ASSUME TeamInv, NEW c \in TeamCalls, NEW d \in TeamCalls \ {c}, NEW ops,
         team'[d] = Finish(c, ops)[d], plansHeld' = plansHeld,
         \/ ops = {"invite", "accept"} /\ Owners' = Owners
         \/ /\ ops = {"change"} /\ Pending' = Pending
            /\ Cardinality(Members') <= Cardinality(Members)
  PROVE  /\ team'[d].op \in {"invite", "accept"} => SeatsHold(team[d])'
         /\ team'[d].op = "change" => OwnersHold(team[d])'
<1>1. team \in [TeamCalls -> Calls]
  BY DEF TeamInv, TeamTypeOK
<1> DEFINE e == team'[d]
<1>2. /\ e.op = team[d].op /\ e.limit = team[d].limit /\ e.members = team[d].members
      /\ e.pending = team[d].pending /\ e.owners = team[d].owners
      /\ ~e.overtaken => ~team[d].overtaken
      /\ team[d].op \in ops /\ ~e.overtaken =>
           team[d].members = Unread /\ team[d].pending = Unread /\ team[d].owners = Unread
  BY <1>1, FinishedCalls
<1>3. /\ team[d].op \in {"invite", "accept"} => SeatsHold(team[d])
      /\ team[d].op = "change" => OwnersHold(team[d])
  BY DEF TeamInv, ReadingsHold
<1>4. /\ Cardinality(Members') \in Nat /\ Cardinality(Members) \in Nat
      /\ team[d].members \in Readings
  BY <1>1, MembersAreFinite, MembersStayFinite DEF Calls
<1>5. ASSUME e.op \in {"invite", "accept"}
      PROVE  SeatsHold(team[d])'
  <2>1. CASE ops = {"invite", "accept"}
    BY <1>2, <1>3, <1>5, <2>1 DEF SeatsHold
  <2>2. CASE /\ Pending' = Pending /\ Cardinality(Members') <= Cardinality(Members)
    BY <1>2, <1>3, <1>4, <1>5, <2>2 DEF SeatsHold, Readings, Unread
  <2> QED
    BY <2>1, <2>2
<1>6. ASSUME e.op = "change"
      PROVE  OwnersHold(team[d])'
  <2>1. CASE ops = {"change"}
    BY <1>2, <1>6, <2>1 DEF OwnersHold
  <2>2. CASE Owners' = Owners
    BY <1>2, <1>3, <1>6, <2>2 DEF OwnersHold
  <2> QED
    BY <2>1, <2>2
<1> QED
  BY <1>5, <1>6

\* A seat that is given after a refused limit, or by an overtaken call.
LEMMA CreateInvitationStep ==
  ASSUME TeamInv, NEW c \in TeamCalls, CreateInvitation(c)
  PROVE  TeamInv'
<1> USE DEF CreateInvitation
<1> DEFINE u == team[c].user
<1>1. /\ team \in [TeamCalls -> Calls] /\ team[c].op = "invite" /\ u \in Users
      /\ invited \in [Users -> Nat] /\ seatsRaced \in Nat
  BY DEF TeamInv, TeamTypeOK, CallsAreSound
<1>2. IsFiniteSet(Invitations') /\ Pending' = Pending + 1 /\ Pending \in Nat
  BY <1>1, OneInvitationMore, FS_CardinalityType DEF TeamInv, Pending
<1>3. Members' = Members /\ Owners' = Owners
  BY DEF Members, Owners
<1>4. TeamTypeOK'
  BY <1>1, FinishedCalls DEF TeamInv, TeamTypeOK, Count
<1>5. CallsAreSound'
  BY <1>1, FinishedCalls DEF TeamInv, CallsAreSound, NoCall
<1>6. ReadingsHold'
  <2> SUFFICES ASSUME NEW d \in TeamCalls \ {c}
               PROVE  /\ team'[d].op \in {"invite", "accept"} => SeatsHold(team[d])'
                      /\ team'[d].op = "change" => OwnersHold(team[d])'
    BY <1>1, FinishedCalls DEF ReadingsHold, NoCall
  <2> QED
    BY <1>3, OtherReadings
<1>7. SeatExcessIsRaced'
  <2>1. Cardinality(Members) \in Nat /\ plansHeld \subseteq Plans
    BY MembersAreFinite DEF TeamInv, TeamTypeOK
  <2>2. \A p \in plansHeld : SeatLimit[p] \in Nat
    BY <2>1, SeatsAssumption
  <2>3. CASE team[c].overtaken
    BY <1>1, <1>2, <1>3, <2>1, <2>2, <2>3 DEF TeamInv, SeatExcessIsRaced, Count
  <2>4. CASE ~team[c].overtaken
    <3>1. /\ team[c].limit # Unread /\ team[c].members # Unread /\ team[c].pending # Unread
          /\ {team[c].members, team[c].pending, team[c].limit} \subseteq Readings
      BY <1>1 DEF HookDone, Calls
    <3>2. team[c].members + team[c].pending < team[c].limit
      BY <3>1 DEF InvitationRefused, Readings
    <3>3. /\ Cardinality(Members) <= team[c].members
          /\ Pending <= team[c].pending
          /\ \E p \in plansHeld : team[c].limit = SeatLimit[p]
      BY <1>1, <2>4, <3>1 DEF TeamInv, ReadingsHold, SeatsHold
    <3>4. PICK p \in plansHeld : Cardinality(Members) + Pending < SeatLimit[p]
      BY <1>2, <2>1, <3>1, <3>2, <3>3 DEF Readings
    <3>5. Cardinality(Members') + Pending' <= SeatLimit[p] + seatsRaced'
      BY <1>1, <1>2, <1>3, <2>1, <2>2, <2>4, <3>4 DEF Count
    <3> QED
      BY <3>4, <3>5 DEF SeatExcessIsRaced
  <2> QED
    BY <1>1, <2>3, <2>4
<1>8. OwnerLossIsRaced'
  BY <1>3 DEF TeamInv, OwnerLossIsRaced, OwnerKept
<1> QED
  BY <1>2, <1>4, <1>5, <1>6, <1>7, <1>8 DEF TeamInv

\* A member row takes the seat of its invitation, or one that counts as raced.
LEMMA AddMemberStep ==
  ASSUME TeamInv, NEW c \in TeamCalls, AddMember(c)
  PROVE  TeamInv'
<1> USE DEF AddMember
<1> DEFINE u == team[c].user
<1>1. /\ team \in [TeamCalls -> Calls] /\ team[c].op \in {"accept", "join"} /\ u \in Users
      /\ team[c].next \in Roles \ {"owner"} /\ "none" \notin Roles
      /\ invited \in [Users -> Nat] /\ seatsRaced \in Nat
      /\ role \in [Users -> Roles \cup {"none"}] /\ role[u] = "none"
  BY DEF TeamInv, TeamTypeOK, CallsAreSound, Roles
<1>2. Members' = Members \cup {u} /\ u \notin Members /\ Owners' = Owners
  BY <1>1 DEF Members, Owners
<1>3. /\ Cardinality(Members') = Cardinality(Members) + 1
      /\ Cardinality(Members) \in Nat
  BY <1>2, MembersAreFinite, FS_AddElement
<1>4. /\ IsFiniteSet(Invitations') /\ Pending \in Nat
      /\ Pending' = IF invited[u] > 0 THEN Pending - 1 ELSE Pending
  <2>1. CASE invited[u] > 0
    BY <1>1, <2>1, OneInvitationLess, FS_CardinalityType DEF TeamInv, Pending
  <2>2. CASE ~(invited[u] > 0)
    <3>1. invited' = invited
      BY <1>1, <2>2
    <3>2. Invitations' = Invitations
      BY <3>1 DEF Invitations
    <3> QED
      BY <2>2, <3>2, FS_CardinalityType DEF TeamInv, Pending
  <2> QED
    BY <2>1, <2>2
<1>5. TeamTypeOK'
  <2>1. invited' \in [Users -> Nat]
    BY <1>1
  <2>2. role' \in [Users -> Roles \cup {"none"}]
    BY <1>1
  <2>3. team' \in [TeamCalls -> Calls]
    BY <1>1, FinishedCalls
  <2> QED
    BY <1>1, <2>1, <2>2, <2>3 DEF TeamInv, TeamTypeOK, Count
<1>6. CallsAreSound'
  BY <1>1, FinishedCalls DEF TeamInv, CallsAreSound, NoCall
<1>7. ReadingsHold'
  <2> SUFFICES ASSUME NEW d \in TeamCalls \ {c}
               PROVE  /\ team'[d].op \in {"invite", "accept"} => SeatsHold(team[d])'
                      /\ team'[d].op = "change" => OwnersHold(team[d])'
    BY <1>1, FinishedCalls DEF ReadingsHold, NoCall
  <2> QED
    BY <1>2, OtherReadings
<1>8. SeatExcessIsRaced'
  <2>1. PICK p \in plansHeld : Cardinality(Members) + Pending <= SeatLimit[p] + seatsRaced
    BY DEF TeamInv, SeatExcessIsRaced
  <2>2. SeatLimit[p] \in Nat
    BY <2>1, SeatsAssumption DEF TeamInv, TeamTypeOK
  <2>3. Cardinality(Members') + Pending' <= SeatLimit[p] + seatsRaced'
    BY <1>1, <1>3, <1>4, <2>1, <2>2 DEF Count
  <2> QED
    BY <2>1, <2>3 DEF SeatExcessIsRaced
<1>9. OwnerLossIsRaced'
  BY <1>2 DEF TeamInv, OwnerLossIsRaced, OwnerKept
<1> QED
  BY <1>4, <1>5, <1>6, <1>7, <1>8, <1>9 DEF TeamInv

\* Taking one away from several leaves some.
LEMMA TwoAreMoreThanOne ==
  ASSUME NEW S, IsFiniteSet(S), Cardinality(S) > 1, NEW x
  PROVE  S \ {x} # {}
<1> SUFFICES ASSUME S \subseteq {x}
             PROVE  FALSE
  OBVIOUS
<1>1. S = {} \/ S = {x}
  OBVIOUS
<1>2. Cardinality(S) = 0 \/ Cardinality(S) = 1
  BY <1>1, FS_EmptySet, FS_Singleton
<1> QED
  BY <1>2

\* The last owner goes only by a change that was overtaken.
LEMMA ChangeMemberStep ==
  ASSUME TeamInv, NEW c \in TeamCalls, ChangeMember(c)
  PROVE  TeamInv'
<1> USE DEF ChangeMember
<1> DEFINE u == team[c].user
           gone(d) == team[c].next = "none" /\ team[d].op = "change" /\ team[d].user = u
<1>1. /\ team \in [TeamCalls -> Calls] /\ team[c].op = "change" /\ u \in Users
      /\ team[c] \in Calls /\ team[c].next \in Roles \cup {"none"} /\ "none" \notin Roles
      /\ role \in [Users -> Roles \cup {"none"}] /\ role[u] # "none"
      /\ seatsRaced \in Nat
  BY DEF TeamInv, TeamTypeOK, CallsAreSound, Roles, Calls
<1>2. team' = [d \in TeamCalls |-> IF gone(d) THEN NoCall ELSE Finish(c, {"change"})[d]]
  OBVIOUS
<1>3. /\ team' \in [TeamCalls -> Calls] /\ team'[c] = NoCall
      /\ \A d \in TeamCalls \ {c} : \/ team'[d] = NoCall
                                    \/ ~gone(d) /\ team'[d] = Finish(c, {"change"})[d]
  BY <1>1, <1>2, FinishedCalls
<1>4. Members' \in SUBSET Members
  BY <1>1 DEF Members
<1>5. /\ Cardinality(Members') <= Cardinality(Members)
      /\ Cardinality(Members') \in Nat /\ Cardinality(Members) \in Nat
  BY <1>4, MembersAreFinite, MembersStayFinite, FS_Subset
<1>6. Invitations' = Invitations /\ Pending' = Pending
  BY DEF Invitations, Pending
<1>7. IsFiniteSet(Invitations') /\ Pending \in Nat
  BY <1>6, FS_CardinalityType DEF TeamInv, Pending
<1>8. TeamTypeOK'
  BY <1>1, <1>3 DEF TeamInv, TeamTypeOK
<1>9. CallsAreSound'
  <2> SUFFICES ASSUME NEW d \in TeamCalls \ {c}, ~gone(d),
                      team'[d] = Finish(c, {"change"})[d]
               PROVE  /\ team'[d].op # "idle" => team'[d].user \in Users
                      /\ team'[d].op \in {"accept", "join"} =>
                           team'[d].next \in Roles \ {"owner"}
                      /\ team'[d].op = "change" => role'[team'[d].user] # "none"
    BY <1>3 DEF CallsAreSound, NoCall
  <2> QED
    BY <1>1, FinishedCalls DEF TeamInv, CallsAreSound
<1>10. ReadingsHold'
  <2> SUFFICES ASSUME NEW d \in TeamCalls \ {c}, team'[d] = Finish(c, {"change"})[d]
               PROVE  /\ team'[d].op \in {"invite", "accept"} => SeatsHold(team[d])'
                      /\ team'[d].op = "change" => OwnersHold(team[d])'
    BY <1>3 DEF ReadingsHold, NoCall
  <2> QED
    BY <1>5, <1>6, OtherReadings
<1>11. SeatExcessIsRaced'
  <2>1. PICK p \in plansHeld : Cardinality(Members) + Pending <= SeatLimit[p] + seatsRaced
    BY DEF TeamInv, SeatExcessIsRaced
  <2>2. SeatLimit[p] \in Nat
    BY <2>1, SeatsAssumption DEF TeamInv, TeamTypeOK
  <2>3. Cardinality(Members') + Pending' <= SeatLimit[p] + seatsRaced'
    BY <1>1, <1>5, <1>6, <1>7, <2>1, <2>2
  <2> QED
    BY <2>1, <2>3 DEF SeatExcessIsRaced
<1>12. OwnerLossIsRaced'
  <2>1. CASE ownerRaced'
    BY <2>1 DEF OwnerLossIsRaced, OwnerKept
  <2>2. CASE ~ownerRaced' /\ ~(role[u] = "owner" /\ team[c].next # "owner")
    <3>1. Owners \subseteq Owners' /\ Owners # {}
      BY <1>1, <2>2 DEF TeamInv, OwnerLossIsRaced, OwnerKept, Owners
    <3> QED
      BY <3>1 DEF OwnerLossIsRaced, OwnerKept
  <2>3. CASE ~ownerRaced' /\ role[u] = "owner" /\ team[c].next # "owner"
    <3>1. ~team[c].overtaken /\ team[c].was = "owner"
      BY <2>3
    <3>2. team[c].owners \in Nat /\ team[c].owners > 1
      BY <1>1, <2>3, <3>1 DEF HookDone, WouldRemoveLastOwner, Calls, Readings, Unread
    <3>3. Cardinality(Owners) > 1
      BY <1>1, <3>1, <3>2 DEF TeamInv, ReadingsHold, OwnersHold, Unread
    <3>4. Owners' = Owners \ {u}
      BY <1>1, <2>3 DEF Owners
    <3>5. Owners' # {}
      BY <3>3, <3>4, MembersAreFinite, TwoAreMoreThanOne
    <3> QED
      BY <3>5 DEF OwnerLossIsRaced, OwnerKept
  <2> QED
    BY <2>1, <2>2, <2>3
<1> QED
  BY <1>7, <1>8, <1>9, <1>10, <1>11, <1>12 DEF TeamInv

\* Every call about the team, every lapse of an invitation and change of plan.
LEMMA TeamInvStep == TeamInv /\ [TeamNext]_teamVars => TeamInv'
<1> SUFFICES ASSUME TeamInv, [TeamNext]_teamVars
             PROVE  TeamInv'
  OBVIOUS
<1>1. ASSUME NEW c \in TeamCalls, NEW u \in Users,
             StartInvite(c, u) \/ StartAccept(c, u) \/ StartChange(c, u)
      PROVE  TeamInv'
  <2>1. CASE StartInvite(c, u)
    <3> DEFINE call == [NoCall EXCEPT !.op = "invite", !.user = u]
    <3>1. /\ call \in Calls /\ call.op = "invite" /\ call.user \in Users
          /\ {call.limit, call.members, call.pending, call.owners} = {Unread}
      BY DEF NoCall, Calls, Readings, Unread
    <3>2. Start(c, call)
      BY <2>1 DEF StartInvite
    <3> HIDE DEF call
    <3> QED
      BY <3>1, <3>2, StartStep
  <2>2. CASE StartAccept(c, u)
    <3>1. PICK op \in {"accept", "join"}, r \in Roles \ {"owner"} :
            Start(c, [NoCall EXCEPT !.op = op, !.user = u, !.next = r])
      BY <2>2 DEF StartAccept
    <3> DEFINE call == [NoCall EXCEPT !.op = op, !.user = u, !.next = r]
    <3>2. /\ call \in Calls /\ call.op = op /\ call.user \in Users /\ call.next = r
          /\ {call.limit, call.members, call.pending, call.owners} = {Unread}
      BY <3>1 DEF NoCall, Calls, Readings, Unread
    <3>3. Start(c, call)
      BY <3>1
    <3> HIDE DEF call
    <3> QED
      BY <3>2, <3>3, StartStep
  <2>3. CASE StartChange(c, u)
    <3>1. PICK next \in Roles \cup {"none"} :
            Start(c, [NoCall EXCEPT !.op = "change", !.user = u,
                                    !.next = next, !.was = role[u]])
      BY <2>3 DEF StartChange
    <3> DEFINE call == [NoCall EXCEPT !.op = "change", !.user = u,
                                      !.next = next, !.was = role[u]]
    <3>2. role[u] \in Roles \cup {"none"} /\ role[u] # "none"
      BY <2>3 DEF StartChange, TeamInv, TeamTypeOK
    <3>3. /\ call \in Calls /\ call.op = "change" /\ call.user = u
          /\ {call.limit, call.members, call.pending, call.owners} = {Unread}
      BY <3>1, <3>2 DEF NoCall, Calls, Readings, Unread
    <3>4. Start(c, call)
      BY <3>1
    <3> HIDE DEF call
    <3> QED
      BY <3>2, <3>3, <3>4, StartStep
  <2> QED
    BY <1>1, <2>1, <2>2, <2>3
<1>2. ASSUME NEW u \in Users, ExpireInvitation(u)
      PROVE  TeamInv'
  <2> USE DEF ExpireInvitation
  <2>1. /\ invited \in [Users -> Nat] /\ invited[u] > 0 /\ seatsRaced \in Nat
        /\ invited' = [invited EXCEPT ![u] = @ - 1]
    BY <1>2 DEF TeamInv, TeamTypeOK
  <2>2. IsFiniteSet(Invitations') /\ Pending' = Pending - 1
    BY <2>1, OneInvitationLess DEF TeamInv
  <2>3. Pending \in Nat /\ Pending' \in Nat
    BY <2>2, FS_CardinalityType DEF TeamInv, Pending
  <2>4. Members' = Members /\ Owners' = Owners /\ Cardinality(Members) \in Nat
    BY <1>2, MembersAreFinite DEF Members, Owners
  <2>5. TeamTypeOK'
    BY <1>2, <2>1 DEF TeamInv, TeamTypeOK
  <2>6. CallsAreSound' /\ OwnerLossIsRaced'
    BY <1>2, <2>4 DEF TeamInv, CallsAreSound, OwnerLossIsRaced, OwnerKept
  <2>7. ReadingsHold'
    <3> SUFFICES ASSUME NEW d \in TeamCalls
                 PROVE  /\ team[d].op \in {"invite", "accept"} => SeatsHold(team[d])'
                        /\ team[d].op = "change" => OwnersHold(team[d])'
      BY <1>2 DEF ReadingsHold
    <3>1. team[d].pending \in Readings
      BY DEF TeamInv, TeamTypeOK, Calls
    <3> QED
      BY <1>2, <2>2, <2>3, <2>4, <3>1
      DEF TeamInv, ReadingsHold, SeatsHold, OwnersHold, Readings, Unread
  <2>8. SeatExcessIsRaced'
    <3>1. PICK p \in plansHeld : Cardinality(Members) + Pending <= SeatLimit[p] + seatsRaced
      BY DEF TeamInv, SeatExcessIsRaced
    <3>2. SeatLimit[p] \in Nat
      BY <3>1, SeatsAssumption DEF TeamInv, TeamTypeOK
    <3> QED
      BY <1>2, <2>1, <2>2, <2>3, <2>4, <3>1, <3>2 DEF SeatExcessIsRaced
  <2> QED
    BY <2>2, <2>5, <2>6, <2>7, <2>8 DEF TeamInv
<1>3. ASSUME NEW p \in Plans, ChangePlan(p)
      PROVE  TeamInv'
  <2> USE <1>3 DEF ChangePlan
  <2>1. Members' = Members /\ Owners' = Owners /\ Pending' = Pending
        /\ IsFiniteSet(Invitations') /\ SeatExcessIsRaced' /\ OwnerLossIsRaced'
    BY RowsKept
  <2>2. TeamTypeOK'
    BY DEF TeamInv, TeamTypeOK
  <2>3. CallsAreSound'
    BY DEF TeamInv, CallsAreSound
  <2>4. ReadingsHold'
    BY <2>1 DEF TeamInv, ReadingsHold, SeatsHold, OwnersHold
  <2> QED
    BY <2>1, <2>2, <2>3, <2>4 DEF TeamInv
<1>4. CASE UNCHANGED teamVars
  <2> USE <1>4 DEF teamVars, teamRows
  <2>1. Members' = Members /\ Owners' = Owners /\ Pending' = Pending
        /\ IsFiniteSet(Invitations') /\ SeatExcessIsRaced' /\ OwnerLossIsRaced'
    BY RowsKept
  <2> QED
    BY <2>1
    DEF TeamInv, TeamTypeOK, CallsAreSound, ReadingsHold, SeatsHold, OwnersHold
<1> QED
  BY <1>1, <1>2, <1>3, <1>4, ReadStep, CreateInvitationStep, AddMemberStep, ChangeMemberStep
  DEF TeamNext

\* The keys and the chat leave the team alone.
LEMMA TeamInvInvariant == Spec => []TeamInv
<1>1. Init => TeamInv
  BY TeamInvInit DEF Init
<1>2. TeamInv /\ [Next]_vars => TeamInv'
  BY TeamInvStep DEF Next, vars
<1> QED
  BY <1>1, <1>2, PTL DEF Spec

\* Members and pending invitations exceed the seats of the best plan the workspace
\* had by no more than the calls of the seat hooks that another call overtook.
THEOREM SeatsExceedOnlyByRaces == Spec => []SeatExcessIsRaced
<1>1. TeamInv => SeatExcessIsRaced
  BY DEF TeamInv
<1> QED
  BY <1>1, TeamInvInvariant, PTL

\* An owner is left unless a change of the last one was overtaken by another
\* change between countOrganizationOwners and its write.
THEOREM OwnerKeptUnlessRaced == Spec => []OwnerLossIsRaced
<1>1. TeamInv => OwnerLossIsRaced
  BY DEF TeamInv
<1> QED
  BY <1>1, TeamInvInvariant, PTL

-----------------------------------------------------------------------------
(***************************************************************************)
(* The AI requests.                                                        *)
(***************************************************************************)

\* A request is counted by the quota and not before, and its limit is that of a
\* plan the workspace has had.
CountedByQuota ==
  \A q \in Requests :
    /\ request[q].step \in {"new", "admitted", "limited", "queued"} => usageAt[q] = Never
    /\ request[q].step \in {"counted", "asked", "answered"} => usageAt[q] # Never
    /\ request[q].step \in {"limited", "queued"} =>
         \E p \in plansHeld : request[q].limit = RequestLimit[p]

\* Where a request has got to tells what its conversation holds of it.
WritingHolds ==
  \A q \in Requests :
    LET x == request[q].conv
    IN  /\ x # NoConversation => conversation[x] # "none"
        /\ request[q].step \in {"asked", "answered"} =>
             x # NoConversation /\ (Exists(x) => << q, "user" >> \in messages[x])
        /\ request[q].step = "answered" /\ Exists(x) =>
             << q, "assistant" >> \in messages[x]

AiInv == AiTypeOK /\ CountedByQuota /\ WritingHolds /\ QuotaHolds /\ ConversationsAreWhole

\* What the chat needs to know of the subscription row.
PlansKnown == plan \in plansHeld /\ plansHeld \subseteq Plans

\* A time before the end of a month is in this month or in an earlier one.
LEMMA MonthsAreOrdered ==
  ASSUME NEW t \in Nat, NEW n \in Nat, n <= MonthStart(t) + Month - 1
  PROVE  MonthStart(n) <= MonthStart(t)
<1>1. Month \in Nat \ {0}
  BY TimeAssumption
<1>2. ASSUME NEW a \in Nat
      PROVE  a % Month \in 0 .. Month - 1 /\ a \div Month \in Int
             /\ a = Month * (a \div Month) + (a % Month)
  BY <1>1
<1>3. n \div Month <= t \div Month
  <2> SUFFICES ASSUME n \div Month > t \div Month
               PROVE  FALSE
    BY <1>2
  <2>1. Month * (n \div Month) >= Month * (t \div Month) + Month
    BY <1>1, <1>2
  <2> QED
    BY <1>1, <1>2, <2>1 DEF MonthStart
<1>4. Month * (n \div Month) <= Month * (t \div Month)
  BY <1>1, <1>2, <1>3
<1> QED
  BY <1>1, <1>2, <1>4 DEF MonthStart

\* Before the first request nothing is counted and nothing is written.
LEMMA AiInvInit == AiInit /\ PlansKnown => AiInv
<1> SUFFICES ASSUME AiInit, PlansKnown
             PROVE  AiInv
  OBVIOUS
<1>1. AiTypeOK
  <2>1. request \in [Requests -> ChatStates]
    BY TimeAssumption DEF AiInit, Unasked, Steps, ChatStates
  <2> QED
    BY <2>1, TimeAssumption, ConversationsAssumption DEF AiInit, AiTypeOK
<1>2. CountedByQuota /\ WritingHolds
  BY DEF AiInit, Unasked, CountedByQuota, WritingHolds
<1>3. QuotaHolds
  <2>1. \A from, to : CountedIn(from, to) = 0
    <3>1. Counted = {}
      BY DEF AiInit, Counted
    <3> QED
      BY <3>1, FS_EmptySet DEF CountedIn
  <2>2. \E p \in plansHeld : 0 <= RequestLimit[p]
    BY LimitsAssumption DEF PlansKnown
  <2> QED
    BY <2>1, <2>2, LimitsAssumption DEF QuotaHolds
<1>4. ConversationsAreWhole
  BY DEF AiInit, ConversationsAreWhole
<1> QED
  BY <1>1, <1>2, <1>3, <1>4 DEF AiInv

\* The quota speaks of the usage rows and of the plans alone.
LEMMA QuotaKept ==
  ASSUME QuotaHolds, usageAt' = usageAt, plansHeld \subseteq plansHeld'
  PROVE  QuotaHolds'
BY DEF QuotaHolds, CountedIn, Counted

\* A request moves on without writing, perhaps with what it has read.
LEMMA AdmissionStep ==
  ASSUME AiInv, PlansKnown, NEW q \in Requests,
         StartChat(q) \/ ReadRequestLimit(q) \/ ReadClock(q) \/ AnswerNothing(q),
         UNCHANGED plansHeld
  PROVE  AiInv'
<1> USE DEF AiInv
<1>1. UNCHANGED << clock, usageAt, conversations, edits >>
  BY DEF StartChat, ReadRequestLimit, ReadClock, AnswerNothing
<1>2. RequestLimit[plan] \in Nat
  BY LimitsAssumption DEF PlansKnown
<1> DEFINE old == request[q]
           new == request'[q]
<1>3. request \in [Requests -> ChatStates] /\ clock \in 0 .. MaxTime
  BY DEF AiTypeOK
<1> DEFINE Advanced ==
             /\ \A s \in Requests \ {q} : request'[s] = request[s]
             /\ request' \in [Requests -> ChatStates]
             /\ \/ /\ old.step = "new" /\ new.step \in {"admitted", "refused"}
                   /\ new.conv = old.conv
                        \/ (new.conv \in Conversations /\ conversation[new.conv] # "none")
                \/ /\ old.step = "admitted" /\ new.step = "limited"
                   /\ new.limit = RequestLimit[plan] /\ new.conv = old.conv
                \/ old.step = "admitted" /\ new.step = "refused" /\ new.conv = old.conv
                \/ /\ old.step = "limited" /\ new.step = "queued"
                   /\ new.limit = old.limit /\ new.conv = old.conv
                \/ old.step = "asked" /\ new.step = "empty" /\ new.conv = old.conv
<1>4. Advanced
  <2> USE DEF ChatStates, Steps, UnderWay, AsStep
  <2>1. CASE StartChat(q)
    <3>1. CASE AsStep(q, "admitted")
      BY <1>3, <2>1, <3>1 DEF StartChat
    <3>2. ASSUME NEW x \in Conversations, conversation[x] # "none",
                 NEW step \in {"admitted", "refused"},
                 request' = [request EXCEPT ![q].step = step, ![q].conv = x]
          PROVE  Advanced
      BY <1>3, <2>1, <3>2 DEF StartChat
    <3> QED
      BY <2>1, <3>1, <3>2 DEF StartChat
  <2>2. CASE ReadRequestLimit(q)
    BY <1>2, <1>3, <2>2 DEF ReadRequestLimit
  <2>3. CASE ReadClock(q)
    BY <1>3, <2>3 DEF ReadClock
  <2>4. CASE AnswerNothing(q)
    BY <1>3, <2>4 DEF AnswerNothing
  <2> QED
    BY <2>1, <2>2, <2>3, <2>4
<1>5. AiTypeOK'
  BY <1>1, <1>4 DEF AiTypeOK, conversations
<1>6. CountedByQuota'
  BY <1>1, <1>4 DEF CountedByQuota, PlansKnown
<1>7. WritingHolds'
  BY <1>1, <1>4 DEF WritingHolds, conversations, Exists
<1>8. QuotaHolds'
  BY <1>1, QuotaKept
<1>9. ConversationsAreWhole'
  BY <1>1 DEF ConversationsAreWhole, conversations, Exists, Counted
<1> QED
  BY <1>5, <1>6, <1>7, <1>8, <1>9

\* What a window counts after a step is a number.
LEMMA CountIsANumber ==
  \A from, to : CountedIn(from, to)' \in Nat
<1> TAKE from, to
<1> DEFINE S == {r \in Requests : usageAt'[r] # Never /\ usageAt'[r] \in from .. to}
<1>1. S \in SUBSET Requests /\ CountedIn(from, to)' = Cardinality(S)
  BY DEF CountedIn, Counted
<1> HIDE DEF S
<1> QED
  BY <1>1, RequestsAssumption, FS_Subset, FS_CardinalityType

\* An element adds at most one.
LEMMA OneMore ==
  ASSUME NEW S, IsFiniteSet(S), NEW x
  PROVE  /\ IsFiniteSet(S \cup {x})
         /\ Cardinality(S \cup {x}) \in Nat
         /\ Cardinality(S \cup {x}) <= Cardinality(S) + 1
<1>1. Cardinality(S) \in Nat
  BY FS_CardinalityType
<1>2. /\ IsFiniteSet(S \cup {x})
      /\ Cardinality(S \cup {x}) = IF x \in S THEN Cardinality(S) ELSE Cardinality(S) + 1
  BY FS_AddElement
<1> QED
  BY <1>1, <1>2

\* A row more in the sets of rows that the windows count.
LEMMA OneRowMore ==
  ASSUME NEW q \in Requests, NEW now \in Nat, usageAt \in [Requests -> 0 .. MaxTime \cup {Never}],
         usageAt[q] = Never, usageAt' = [usageAt EXCEPT ![q] = now],
         NEW from \in Int, NEW to \in Int, NEW since \in Int
  PROVE  /\ CountedIn(from, to) \in Nat
         /\ now \in from .. to /\ since <= from =>
              CountedIn(from, to)' <= UsedSince(since) + 1 /\ UsedSince(since) \in Nat
         /\ now \notin from .. to => CountedIn(from, to)' = CountedIn(from, to)
<1> DEFINE S == {r \in Counted : usageAt[r] \in from .. to}
           T == {r \in Counted : usageAt[r] >= since}
<1>1. S \in SUBSET Requests /\ T \in SUBSET Requests
  BY DEF Counted
<1>2. IsFiniteSet(S) /\ IsFiniteSet(T) /\ Cardinality(S) \in Nat /\ Cardinality(T) \in Nat
  BY <1>1, RequestsAssumption, FS_Subset, FS_CardinalityType
<1>3. CountedIn(from, to) = Cardinality(S) /\ CountedIn(from, to)' = Cardinality(S')
      /\ UsedSince(since) = Cardinality(T)
  BY DEF CountedIn, UsedSince
<1>4. ASSUME now \notin from .. to
      PROVE  S' = S
  BY <1>4 DEF Counted, Never
<1>5. ASSUME now \in from .. to, since <= from
      PROVE  Cardinality(S') <= Cardinality(T) + 1
  <2>1. S' \in SUBSET (T \cup {q})
    BY <1>5 DEF Counted, Never
  <2>2. IsFiniteSet(T \cup {q}) /\ Cardinality(T \cup {q}) <= Cardinality(T) + 1
        /\ Cardinality(T \cup {q}) \in Nat
    BY <1>2, OneMore
  <2>3. Cardinality(S') <= Cardinality(T \cup {q}) /\ Cardinality(S') \in Nat
    BY <2>1, <2>2, FS_Subset, FS_CardinalityType
  <2> QED
    BY <1>2, <2>2, <2>3
<1> QED
  BY <1>2, <1>3, <1>4, <1>5

\* Under the lock a request is counted only within both windows of its time.
LEMMA ConsumeStep ==
  ASSUME AiInv, PlansKnown, NEW q \in Requests, ConsumeAiRequestQuota(q), UNCHANGED plansHeld
  PROVE  AiInv'
<1> USE DEF AiInv
<1> DEFINE now == request[q].now
<1>1. /\ request \in [Requests -> ChatStates] /\ request[q] \in ChatStates
      /\ now \in Nat /\ now \in 0 .. MaxTime /\ request[q].step = "queued"
      /\ usageAt \in [Requests -> 0 .. MaxTime \cup {Never}]
      /\ usageAt[q] = Never /\ Never \notin Nat
  BY DEF AiTypeOK, CountedByQuota, ChatStates, ConsumeAiRequestQuota, Never
<1>2. PICK step \in {"counted", "refused"} :
        /\ request' = [request EXCEPT ![q].step = step]
        /\ \/ step = "counted" /\ WithinQuota(q) /\ usageAt' = [usageAt EXCEPT ![q] = now]
           \/ step = "refused" /\ usageAt' = usageAt
  BY DEF ConsumeAiRequestQuota, AsStep
<1>3. UNCHANGED << clock, conversation, messages, generations, edits >>
  BY DEF ConsumeAiRequestQuota, conversations
<1>4. AiTypeOK'
  <2>1. request' \in [Requests -> ChatStates]
    BY <1>1, <1>2 DEF ChatStates, Steps, UnderWay
  <2>2. usageAt' \in [Requests -> 0 .. MaxTime \cup {Never}]
    BY <1>1, <1>2
  <2> QED
    BY <1>3, <2>1, <2>2 DEF AiTypeOK
<1>5. \A r \in Requests : /\ request'[r].conv = request[r].conv
                          /\ request'[r].limit = request[r].limit
                          /\ r # q => request'[r] = request[r] /\ usageAt'[r] = usageAt[r]
  BY <1>1, <1>2 DEF ChatStates
<1>6. request'[q].step = step /\ (step = "counted" => usageAt'[q] = now)
  BY <1>1, <1>2 DEF ChatStates
<1>7. CountedByQuota'
  BY <1>1, <1>2, <1>5, <1>6 DEF CountedByQuota
<1>8. WritingHolds'
  BY <1>2, <1>3, <1>5, <1>6 DEF WritingHolds, Exists
<1>9. ConversationsAreWhole'
  BY <1>1, <1>3, <1>5 DEF ConversationsAreWhole, Exists, Counted
<1>10. ASSUME step = "counted"
       PROVE  QuotaHolds'
  <2>1. /\ usageAt' = [usageAt EXCEPT ![q] = now]
        /\ UsedSince(MonthStart(now)) < request[q].limit
        /\ UsedSince(now - Minute) < PerMinute
    BY <1>2, <1>10 DEF WithinQuota
  <2>2. PerMinute \in Nat /\ Minute \in Nat /\ Month \in Nat \ {0}
    BY LimitsAssumption, TimeAssumption
  <2>3. ASSUME NEW t \in 0 .. MaxTime
        PROVE  CountedIn(t - Minute, t)' <= PerMinute
    <3>1. CASE now \in t - Minute .. t
      <4>1. /\ t - Minute \in Int /\ t \in Int /\ now - Minute \in Int
            /\ now - Minute <= t - Minute
        BY <1>1, <2>2, <3>1
      <4>2. CountedIn(t - Minute, t)' <= UsedSince(now - Minute) + 1
            /\ UsedSince(now - Minute) \in Nat
        BY <1>1, <2>1, <3>1, <4>1, OneRowMore
      <4>3. CountedIn(t - Minute, t)' \in Int
        BY <4>1, CountIsANumber
      <4> QED
        BY <2>1, <2>2, <4>2, <4>3
    <3>2. CASE now \notin t - Minute .. t
      <4>1. t - Minute \in Int /\ t \in Int
        BY <2>2
      <4>2. CountedIn(t - Minute, t)' = CountedIn(t - Minute, t)
        BY <1>1, <2>1, <3>2, <4>1, OneRowMore
      <4> QED
        BY <4>2 DEF QuotaHolds
    <3> QED
      BY <3>1, <3>2
  <2>4. ASSUME NEW t \in 0 .. MaxTime
        PROVE  \E p \in plansHeld :
                 CountedIn(MonthStart(t), MonthStart(t) + Month - 1)' <= RequestLimit[p]
    <3> DEFINE first == MonthStart(t)
               last == MonthStart(t) + Month - 1
    <3>1. first \in Int /\ last \in Int /\ MonthStart(now) \in Int
      BY <1>1, <2>2 DEF MonthStart
    <3>2. CASE now \in first .. last
      <4>1. MonthStart(now) <= first
        BY <1>1, <3>2, MonthsAreOrdered
      <4>2. CountedIn(first, last)' <= UsedSince(MonthStart(now)) + 1
            /\ UsedSince(MonthStart(now)) \in Nat
        BY <1>1, <2>1, <3>1, <3>2, <4>1, OneRowMore
      <4>3. PICK p \in plansHeld : request[q].limit = RequestLimit[p]
        BY <1>1 DEF CountedByQuota
      <4>4. CountedIn(first, last)' \in Int /\ RequestLimit[p] \in Int
        BY <3>1, <4>3, CountIsANumber, LimitsAssumption DEF PlansKnown
      <4> QED
        BY <2>1, <4>2, <4>3, <4>4
    <3>3. CASE now \notin first .. last
      <4>1. CountedIn(first, last)' = CountedIn(first, last)
        BY <1>1, <2>1, <3>1, <3>3, OneRowMore
      <4> QED
        BY <4>1 DEF QuotaHolds
    <3> QED
      BY <3>2, <3>3
  <2> QED
    BY <2>3, <2>4 DEF QuotaHolds
<1>11. QuotaHolds'
  BY <1>2, <1>10, QuotaKept
<1> QED
  BY <1>4, <1>7, <1>8, <1>9, <1>11

\* A conversation that is opened holds nothing yet.
LEMMA CreateConversationStep ==
  ASSUME AiInv, NEW q \in Requests, CreateConversation(q), UNCHANGED plansHeld
  PROVE  AiInv'
<1> USE DEF AiInv
<1>1. PICK new \in Conversations :
        /\ conversation[new] = "none"
        /\ conversation' = [conversation EXCEPT ![new] = "open"]
        /\ request' = [request EXCEPT ![q].conv = new]
  BY DEF CreateConversation
<1>2. /\ UNCHANGED << clock, usageAt, messages, generations, edits >>
      /\ request[q].step = "counted"
      /\ request \in [Requests -> ChatStates]
      /\ conversation \in [Conversations -> {"none", "open", "archived", "deleted"}]
  BY DEF CreateConversation, AiTypeOK
<1>3. \A r \in Requests : /\ request'[r].step = request[r].step
                          /\ request'[r].limit = request[r].limit
                          /\ r # q => request'[r].conv = request[r].conv
  BY <1>1, <1>2 DEF ChatStates
<1>4. request'[q].conv = new
  BY <1>1, <1>2 DEF ChatStates
<1>5. \A x \in Conversations : x # new => conversation'[x] = conversation[x]
  BY <1>1, <1>2
<1>6. AiTypeOK'
  <2>1. request' \in [Requests -> ChatStates]
    BY <1>1, <1>2 DEF ChatStates
  <2> QED
    BY <1>1, <1>2, <2>1 DEF AiTypeOK
<1>7. CountedByQuota'
  BY <1>2, <1>3 DEF CountedByQuota
<1>8. WritingHolds'
  <2>1. conversation'[new] = "open"
    BY <1>1, <1>2
  <2>2. \A r \in Requests : request[r].conv \in Conversations \cup {NoConversation}
    BY <1>2 DEF ChatStates
  <2> QED
    BY <1>1, <1>2, <1>3, <1>4, <1>5, <2>1, <2>2 DEF WritingHolds, Exists
<1>9. QuotaHolds'
  BY <1>2, QuotaKept
<1>10. ConversationsAreWhole'
  BY <1>1, <1>2, <1>5 DEF ConversationsAreWhole, Exists, Counted
<1> QED
  BY <1>6, <1>7, <1>8, <1>9, <1>10

\* A question, an answer or a generation is written where its conversation still
\* exists, after what it belongs to.
LEMMA WriteStep ==
  ASSUME AiInv, NEW q \in Requests, Ask(q) \/ Answer(q) \/ RecordAiGeneration(q),
         UNCHANGED plansHeld
  PROVE  AiInv'
<1> USE DEF AiInv
<1> DEFINE x == request[q].conv
<1>1. /\ request \in [Requests -> ChatStates] /\ x \in Conversations \cup {NoConversation}
      /\ messages \in [Conversations -> SUBSET (Requests \X {"user", "assistant"})]
      /\ generations \in [Conversations -> SUBSET Requests]
      /\ UNCHANGED << clock, usageAt, conversation, edits >>
  BY DEF AiTypeOK, ChatStates, Ask, Answer, RecordAiGeneration, CreateMessage
<1>2. x \in Conversations /\ request[q].step \in {"counted", "asked", "answered"}
  BY <1>1 DEF Ask, Answer, RecordAiGeneration, CreateMessage, WritingHolds
<1>3. usageAt[q] # Never
  BY <1>2 DEF CountedByQuota
<1>4. PICK step \in {"asked", "answered", "recorded", "failed"} :
        /\ request' = [request EXCEPT ![q].step = step]
        /\ \/ /\ step = "asked" /\ Exists(x) /\ UNCHANGED generations
              /\ messages' = [messages EXCEPT ![x] = @ \cup {<< q, "user" >>}]
           \/ /\ step = "answered" /\ request[q].step = "asked" /\ Exists(x)
              /\ messages' = [messages EXCEPT ![x] = @ \cup {<< q, "assistant" >>}]
              /\ UNCHANGED generations
           \/ /\ step = "recorded" /\ request[q].step = "answered" /\ Exists(x)
              /\ generations' = [generations EXCEPT ![x] = @ \cup {q}] /\ UNCHANGED messages
           \/ step = "failed" /\ UNCHANGED << messages, generations >>
  BY DEF Ask, Answer, RecordAiGeneration, CreateMessage, AsStep
<1>5. /\ \A r \in Requests : /\ request'[r].conv = request[r].conv
                             /\ request'[r].limit = request[r].limit
                             /\ r # q => request'[r].step = request[r].step
      /\ request'[q].step = step
  BY <1>1, <1>4 DEF ChatStates
<1>6. AiTypeOK'
  <2>1. request' \in [Requests -> ChatStates]
    BY <1>1, <1>4 DEF ChatStates, Steps, UnderWay
  <2>2. messages' \in [Conversations -> SUBSET (Requests \X {"user", "assistant"})]
    BY <1>1, <1>4
  <2>3. generations' \in [Conversations -> SUBSET Requests]
    BY <1>1, <1>4
  <2> QED
    BY <1>1, <2>1, <2>2, <2>3 DEF AiTypeOK
<1>7. CountedByQuota'
  BY <1>1, <1>3, <1>5 DEF CountedByQuota
<1>8. \A y \in Conversations : messages[y] \subseteq messages'[y]
  BY <1>1, <1>4
<1>9. WritingHolds'
  <2>1. /\ step \in {"asked", "answered"} => << q, "user" >> \in messages'[x]
        /\ step = "answered" => << q, "assistant" >> \in messages'[x]
    BY <1>1, <1>2, <1>4, <1>8 DEF WritingHolds
  <2>2. x # NoConversation
    BY <1>2, ConversationsAssumption
  <2>3. \A r \in Requests : request[r].conv \in Conversations \cup {NoConversation}
    BY <1>1 DEF ChatStates
  <2>4. ASSUME NEW r \in Requests \ {q}
        PROVE  /\ request'[r].conv # NoConversation => conversation'[request'[r].conv] # "none"
               /\ request'[r].step \in {"asked", "answered"} =>
                    /\ request'[r].conv # NoConversation
                    /\ Exists(request[r].conv)' => << r, "user" >> \in messages'[request[r].conv]
               /\ request'[r].step = "answered" /\ Exists(request[r].conv)' =>
                    << r, "assistant" >> \in messages'[request[r].conv]
    BY <1>1, <1>5, <1>8, <2>3 DEF WritingHolds, Exists
  <2> QED
    BY <1>1, <1>5, <2>1, <2>2, <2>4 DEF WritingHolds, Exists
<1>10. QuotaHolds'
  BY <1>1, QuotaKept
<1>11. ConversationsAreWhole'
  <2>1. ASSUME NEW y \in Conversations, ~Exists(y)
        PROVE  messages'[y] = {} /\ generations'[y] = {}
    BY <1>1, <1>4, <2>1 DEF ConversationsAreWhole
  <2>2. ASSUME NEW y \in Conversations, NEW r \in Requests, << r, "assistant" >> \in messages'[y]
        PROVE  << r, "user" >> \in messages'[y]
    <3>1. CASE << r, "assistant" >> \in messages[y]
      BY <1>8, <3>1 DEF ConversationsAreWhole
    <3>2. CASE << r, "assistant" >> \notin messages[y]
      <4>1. r = q /\ y = x /\ request[q].step = "asked" /\ Exists(x)
        BY <1>1, <1>4, <2>2, <3>2
      <4> QED
        BY <1>8, <4>1 DEF WritingHolds
    <3> QED
      BY <3>1, <3>2
  <2>3. ASSUME NEW y \in Conversations, NEW r \in Requests, r \in generations'[y]
        PROVE  << r, "assistant" >> \in messages'[y] /\ usageAt[r] # Never
    <3>1. CASE r \in generations[y]
      BY <1>8, <3>1 DEF ConversationsAreWhole, Counted
    <3>2. CASE r \notin generations[y]
      <4>1. r = q /\ y = x /\ request[q].step = "answered" /\ Exists(x)
        BY <1>1, <1>4, <2>3, <3>2
      <4> QED
        BY <1>3, <1>8, <4>1 DEF WritingHolds
    <3> QED
      BY <3>1, <3>2
  <2> QED
    BY <1>1, <2>1, <2>2, <2>3 DEF ConversationsAreWhole, Exists, Counted
<1> QED
  BY <1>6, <1>7, <1>9, <1>10, <1>11

\* What is archived keeps its rows, what is deleted loses them all.
LEMMA EditStep ==
  ASSUME AiInv, NEW x \in Conversations, PatchConversation(x) \/ DeleteRequest(x),
         UNCHANGED plansHeld
  PROVE  AiInv'
<1> USE DEF AiInv
<1>1. /\ UNCHANGED << clock, request, usageAt >> /\ Exists(x)
      /\ edits' \in 0 .. MaxEdits
      /\ conversation \in [Conversations -> {"none", "open", "archived", "deleted"}]
      /\ messages \in [Conversations -> SUBSET (Requests \X {"user", "assistant"})]
      /\ generations \in [Conversations -> SUBSET Requests]
  BY ConversationsAssumption
  DEF PatchConversation, DeleteRequest, SetConversationArchived, DeleteConversation, Edit,
      AiTypeOK
<1>2. PICK state \in {"open", "archived", "deleted"} :
        /\ conversation' = [conversation EXCEPT ![x] = state]
        /\ \/ state # "deleted" /\ UNCHANGED << messages, generations >>
           \/ /\ state = "deleted"
              /\ messages' = [messages EXCEPT ![x] = {}]
              /\ generations' = [generations EXCEPT ![x] = {}]
  BY <1>1 DEF PatchConversation, DeleteRequest, SetConversationArchived, DeleteConversation
<1>3. /\ conversation'[x] = state
      /\ \A y \in Conversations \ {x} : /\ conversation'[y] = conversation[y]
                                        /\ messages'[y] = messages[y]
                                        /\ generations'[y] = generations[y]
      /\ state = "deleted" => messages'[x] = {} /\ generations'[x] = {}
      /\ state # "deleted" => messages'[x] = messages[x] /\ generations'[x] = generations[x]
  BY <1>1, <1>2
<1>4. AiTypeOK'
  BY <1>1, <1>2 DEF AiTypeOK
<1>5. CountedByQuota'
  BY <1>1 DEF CountedByQuota
<1>6. WritingHolds'
  <2>1. \A r \in Requests : request[r].conv \in Conversations \cup {NoConversation}
    BY DEF AiTypeOK, ChatStates
  <2> QED
    BY <1>1, <1>3, <2>1 DEF WritingHolds, Exists
<1>7. QuotaHolds'
  BY <1>1, QuotaKept
<1>8. ConversationsAreWhole'
  BY <1>1, <1>3 DEF ConversationsAreWhole, Exists, Counted
<1> QED
  BY <1>4, <1>5, <1>6, <1>7, <1>8

\* The plan changes, time passes, or nothing of the chat changes.
LEMMA AiQuietStep ==
  ASSUME AiInv, Tick \/ UNCHANGED aiVars, plansHeld \subseteq plansHeld'
  PROVE  AiInv'
<1> USE DEF AiInv
<1>1. UNCHANGED << request, usageAt, conversation, messages, generations, edits >>
  BY DEF Tick, aiVars, conversations
<1>2. AiTypeOK'
  <2>1. clock' \in 0 .. MaxTime
    BY TimeAssumption DEF Tick, aiVars, AiTypeOK
  <2> QED
    BY <1>1, <2>1 DEF AiTypeOK
<1>3. CountedByQuota' /\ WritingHolds' /\ ConversationsAreWhole'
  BY <1>1 DEF CountedByQuota, WritingHolds, ConversationsAreWhole, Exists, Counted
<1>4. QuotaHolds'
  BY <1>1, QuotaKept
<1> QED
  BY <1>2, <1>3, <1>4

\* Every step of the chat, with the team's steps in between.
LEMMA AiInvInvariant == Spec => []AiInv
<1>1. TeamInv => PlansKnown
  BY DEF TeamInv, TeamTypeOK, PlansKnown
<1>2. Init => AiInv
  BY <1>1, AiInvInit, TeamInvInit DEF Init
<1>3. ASSUME AiInv, TeamInv, [Next]_vars
      PROVE  AiInv'
  <2>1. CASE AiNext /\ UNCHANGED << teamVars, keyVars >>
    <3>1. UNCHANGED plansHeld
      BY <2>1 DEF teamVars, teamRows
    <3> QED
      BY <1>1, <1>3, <2>1, <3>1, AdmissionStep, ConsumeStep, CreateConversationStep, WriteStep,
         EditStep, AiQuietStep
      DEF AiNext
  <2>2. CASE TeamNext /\ UNCHANGED << keyVars, aiVars >>
    <3>1. plansHeld \subseteq plansHeld'
      BY <2>2
      DEF TeamNext, StartInvite, StartAccept, StartChange, Start, ReadSeatLimit, CountMembers,
          CountPending, CountOwners, Refuse, Read, CreateInvitation, AddMember, ChangeMember,
          ExpireInvitation, ChangePlan, teamRows
    <3> QED
      BY <1>3, <2>2, <3>1, AiQuietStep
  <2>3. CASE UNCHANGED << teamVars, aiVars >>
    BY <1>3, <2>3, AiQuietStep DEF teamVars, teamRows
  <2> QED
    BY <1>3, <2>1, <2>2, <2>3 DEF Next, vars
<1> QED
  BY <1>2, <1>3, TeamInvInvariant, PTL DEF Spec

\* No month and no minute holds more requests than the limits allow, although
\* each request is counted at a time it read before it had the lock.
THEOREM QuotaIsKept == Spec => []QuotaHolds
<1>1. AiInv => QuotaHolds
  BY DEF AiInv
<1> QED
  BY <1>1, AiInvInvariant, PTL

\* A conversation has the question of each of its answers, and what was deleted
\* stays empty, whatever a request that is under way still writes.
THEOREM ConversationsStayWhole == Spec => []ConversationsAreWhole
<1>1. AiInv => ConversationsAreWhole
  BY DEF AiInv
<1> QED
  BY <1>1, AiInvInvariant, PTL

\* Every variable of the workspace keeps its type.
THEOREM WorkspaceTypeCorrect == Spec => []TypeOK
<1>1. TeamInv /\ KeyInv /\ AiInv => TypeOK
  BY DEF TeamInv, KeyInv, AiInv, TypeOK
<1> QED
  BY <1>1, TeamInvInvariant, KeyInvInvariant, AiInvInvariant, PTL
=============================================================================
