-------------------------- MODULE BackofficeUsers --------------------------
(***************************************************************************)
(* The users who administer a client (src/backoffice-user): their          *)
(* creation, removal, password resets, logins, and the check of the token  *)
(* that each of their requests carries.  A login compares hashes between   *)
(* reading the row and signing the token; a removal is two writes; a token *)
(* is never revoked, but every request looks its user up again.            *)
(*                                                                         *)
(* An internal user (src/internal-user) has a token of another kind, may   *)
(* do the same for any client, and is never removed.                       *)
(***************************************************************************)
EXTENDS Naturals, Sequences, FiniteSets

CONSTANTS
  UserClient,        \* clients
  Email, Password,
  LoginAttempt,      \* logins
  GuardedCall,       \* requests that carry a token
  MaxUsers, MaxUserFaults

ASSUME UserBoundsAssumption == MaxUsers \in Nat /\ MaxUserFaults \in Nat
ASSUME UserValuesAssumption == UserClient # {} /\ Email # {} /\ Password # {}

VARIABLES
  users,         \* backoffice_users, deleted rows included; the index is the id
  attempts,      \* each login: what it was given, the row it found
  tokens,        \* ids of the users that tokens were signed for
  guarded,       \* each request
  creating,      \* the creation under way
  removing,      \* the removal under way
  resetting,     \* the password reset under way
  gone,          \* users whose removal has been answered with success
  userFaults

userVars == <<users, attempts, tokens, guarded, creating, removing, resetting, gone,
              userFaults>>

StatusEnum == {"ACTIVE", "INACTIVE"}
UserId == 1 .. MaxUsers
NoUser == 0
InternalUser == 0  \* in the place of an acting user

User == [email : Email, clientId : UserClient, password : Password, status : StatusEnum,
         deleted : BOOLEAN]
Ids == DOMAIN users

\* after: the users that were gone when the attempt or request arrived.
IdleAttempt == [step |-> "idle", user |-> NoUser, valid |-> FALSE, after |-> {}]
IdleGuarded == [step |-> "idle", user |-> NoUser, after |-> {}]

UserTypeOK ==
  /\ users \in Seq(User) /\ Len(users) <= MaxUsers
  /\ attempts \in [LoginAttempt -> [step : {"idle", "compare", "granted", "refused"},
                                    user : UserId \cup {NoUser}, valid : BOOLEAN,
                                    after : SUBSET UserId]]
  /\ tokens \in SUBSET Ids
  /\ guarded \in [GuardedCall -> [step : {"idle", "guard", "accepted", "refused"},
                                  user : UserId \cup {NoUser}, after : SUBSET UserId]]
  /\ creating \in [step : {"idle", "hash"}, email : Email, clientId : UserClient,
                   password : Password]
  /\ removing \in [step : {"idle", "inactive"}, user : UserId \cup {NoUser}]
  /\ resetting \in [step : {"idle", "hash"}, user : UserId \cup {NoUser},
                    password : Password]
  /\ gone \in SUBSET Ids
  /\ userFaults \in 0 .. MaxUserFaults

NoCreation == [step |-> "idle", email |-> CHOOSE e \in Email : TRUE,
               clientId |-> CHOOSE c \in UserClient : TRUE,
               password |-> CHOOSE p \in Password : TRUE]
NoRemoval == [step |-> "idle", user |-> NoUser]
NoReset == [step |-> "idle", user |-> NoUser, password |-> CHOOSE p \in Password : TRUE]

UserInit ==
  /\ users = <<>>
  /\ attempts = [a \in LoginAttempt |-> IdleAttempt]
  /\ tokens = {}
  /\ guarded = [g \in GuardedCall |-> IdleGuarded]
  /\ creating = NoCreation
  /\ removing = NoRemoval
  /\ resetting = NoReset
  /\ gone = {}
  /\ userFaults = 0

\* TypeORM's findOne leaves deleted rows out; the unique index does not.
FindByEmailAndClientId(email, clientId) ==
  {id \in Ids : users[id].email = email /\ users[id].clientId = clientId /\ ~users[id].deleted}
DuplicateUser(email, clientId) ==
  \E id \in Ids : users[id].email = email /\ users[id].clientId = clientId

-----------------------------------------------------------------------------
(* create: two hashes are computed between the check and the insert. *)

CheckNewUser ==
  /\ creating.step = "idle"
  /\ Len(users) < MaxUsers
  /\ \E email \in Email, clientId \in UserClient, password \in Password :
       /\ FindByEmailAndClientId(email, clientId) = {}
       /\ creating' = [step |-> "hash", email |-> email, clientId |-> clientId,
                       password |-> password]
  /\ UNCHANGED <<users, attempts, tokens, guarded, removing, resetting, gone, userFaults>>

InsertUser ==
  /\ creating.step = "hash"
  /\ users' = IF DuplicateUser(creating.email, creating.clientId) THEN users
              ELSE Append(users, [email |-> creating.email, clientId |-> creating.clientId,
                                  password |-> creating.password, status |-> "ACTIVE",
                                  deleted |-> FALSE])
  /\ creating' = NoCreation
  /\ UNCHANGED <<attempts, tokens, guarded, removing, resetting, gone, userFaults>>

-----------------------------------------------------------------------------
(* remove: INACTIVE first, the deletion mark second.  resolveClientId: a     *)
(* backoffice user acts within its own client, an internal one in any.       *)

MayRemove(actor, id) ==
  \/ actor = InternalUser
  \/ /\ actor \in tokens
     /\ ~users[actor].deleted
     /\ users[actor].clientId = users[id].clientId

Deactivate(actor, id) ==
  /\ removing.step = "idle"
  /\ MayRemove(actor, id)
  /\ users' = [users EXCEPT ![id].status = "INACTIVE"]
  /\ removing' = [step |-> "inactive", user |-> id]
  /\ UNCHANGED <<attempts, tokens, guarded, creating, resetting, gone, userFaults>>

ForgetToDelete ==  \* variant: the removal ends with the status
  /\ removing.step = "inactive"
  /\ gone' = gone \cup {removing.user}
  /\ removing' = NoRemoval
  /\ UNCHANGED <<users, attempts, tokens, guarded, creating, resetting, userFaults>>

SoftDelete ==
  /\ removing.step = "inactive"
  /\ users' = [users EXCEPT ![removing.user].deleted = TRUE]
  /\ gone' = gone \cup {removing.user}
  /\ removing' = NoRemoval
  /\ UNCHANGED <<attempts, tokens, guarded, creating, resetting, userFaults>>

\* The second write fails, or the process dies: no success is answered, and the
\* user is left INACTIVE with tokens that are still accepted.
RemovalFails ==
  /\ userFaults < MaxUserFaults
  /\ userFaults' = userFaults + 1
  /\ removing.step = "inactive"
  /\ removing' = NoRemoval
  /\ UNCHANGED <<users, attempts, tokens, guarded, creating, resetting, gone>>

-----------------------------------------------------------------------------
(* resetPassword: an unknown user is answered like a known one. *)

CheckSecretAnswer ==
  /\ resetting.step = "idle"
  /\ \E id \in Ids, password \in Password :
       /\ ~users[id].deleted
       /\ resetting' = [step |-> "hash", user |-> id, password |-> password]
  /\ UNCHANGED <<users, attempts, tokens, guarded, creating, removing, gone, userFaults>>

UpdatePassword ==
  /\ resetting.step = "hash"
  /\ users' = [users EXCEPT ![resetting.user].password = resetting.password]
  /\ resetting' = NoReset
  /\ UNCHANGED <<attempts, tokens, guarded, creating, removing, gone, userFaults>>

-----------------------------------------------------------------------------
(* login. *)

StartAttempt(a) ==
  /\ attempts[a].step = "idle"
  /\ \E email \in Email, clientId \in UserClient, password \in Password :
       LET found == FindByEmailAndClientId(email, clientId)
       IN  \/ /\ \A id \in found : users[id].status # "ACTIVE"   \* nobody, or inactive
              /\ attempts' = [attempts EXCEPT ![a].step = "refused"]
           \/ \E id \in found :
                /\ users[id].status = "ACTIVE"
                /\ attempts' = [attempts EXCEPT
                     ![a] = [step |-> "compare", user |-> id, after |-> gone,
                             valid |-> users[id].password = password]]
  /\ UNCHANGED <<users, tokens, guarded, creating, removing, resetting, gone, userFaults>>

CompareAndSign(a) ==
  /\ attempts[a].step = "compare"
  /\ attempts' = [attempts EXCEPT ![a].step =
                    IF attempts[a].valid THEN "granted" ELSE "refused"]
  /\ tokens' = IF attempts[a].valid THEN tokens \cup {attempts[a].user} ELSE tokens
  /\ UNCHANGED <<users, guarded, creating, removing, resetting, gone, userFaults>>

-----------------------------------------------------------------------------
(* A request with a token: BackofficeOrInternalGuard, BackofficeJwtStrategy. *)

RequestArrives(g) ==
  /\ guarded[g].step = "idle"
  /\ \E user \in tokens :
       guarded' = [guarded EXCEPT ![g] = [step |-> "guard", user |-> user, after |-> gone]]
  /\ UNCHANGED <<users, attempts, tokens, creating, removing, resetting, gone, userFaults>>

ValidateToken(g) ==
  /\ guarded[g].step = "guard"
  /\ guarded' = [guarded EXCEPT ![g].step =
                   IF users[guarded[g].user].deleted THEN "refused" ELSE "accepted"]
  /\ UNCHANGED <<users, attempts, tokens, creating, removing, resetting, gone, userFaults>>

UserNext ==
  \/ CheckNewUser \/ InsertUser
  \/ \E id \in Ids : \E actor \in Ids \cup {InternalUser} : Deactivate(actor, id)
  \/ SoftDelete \/ RemovalFails
  \/ CheckSecretAnswer \/ UpdatePassword
  \/ \E a \in LoginAttempt : StartAttempt(a) \/ CompareAndSign(a)
  \/ \E g \in GuardedCall : RequestArrives(g) \/ ValidateToken(g)

UserSpec == UserInit /\ [][UserNext]_userVars

-----------------------------------------------------------------------------
(* Correctness. *)

\* Once the removal of a user has been answered, no login of theirs that starts is
\* granted and no request of theirs that arrives is accepted, whatever token a
\* login got that was under way meanwhile, and however the password is reset or
\* the user created again.
RemovedUsersStayOut ==
  /\ \A a \in LoginAttempt :
       attempts[a].step = "granted" => attempts[a].user \notin attempts[a].after
  /\ \A g \in GuardedCall :
       guarded[g].step = "accepted" => guarded[g].user \notin guarded[g].after
=============================================================================
