------------------------- MODULE ClientPermissions -------------------------
(***************************************************************************)
(* What one API client may do, and the three Redis entries that remember   *)
(* it (permissions/services/permission.service.ts, role.service.ts and     *)
(* common/redis/cache.service.ts):                                         *)
(*   "direct"     the permissions granted to the client itself             *)
(*   "roles"      the permissions of the client's roles                    *)
(*   "effective"  their union, filled from the other two entries           *)
(* A permission check reads through the entries, step by step; an          *)
(* administrator's operation is the sequence of the calls it makes: it     *)
(* deletes the entries BEFORE it writes, and role operations do not delete *)
(* any.  Checks and operations interleave, Redis calls and writes fail,    *)
(* the process dies.                                                       *)
(*                                                                         *)
(* Over HTTP come UpdateClientPermissions (with a client's creation and    *)
(* update), UpdateRolePermissions and DeletePermission; the services offer *)
(* the others, but no endpoint calls them yet.  A role that a client has   *)
(* cannot be deleted.                                                      *)
(*                                                                         *)
(* Time passes in ticks, a fraction of the entries' time to live, and only *)
(* between checks and operations, which take milliseconds of its 30        *)
(* minutes.  Permissions are not renamed.                                  *)
(***************************************************************************)
EXTENDS Naturals, Sequences

CONSTANTS
  Permission,    \* permission names
  ScopeLists,    \* the lists of scopes a client or role may be given
  TimeToLive,    \* of a cache entry, in ticks
  MaxChanges,    \* bounds the administrator's operations
  MaxPermissionFaults

ASSUME ScopeListsAssumption == ScopeLists \subseteq SUBSET Permission
ASSUME TimeToLiveAssumption == TimeToLive \in Nat \ {0}
ASSUME ChangesAssumption == MaxChanges \in Nat /\ MaxPermissionFaults \in Nat

VARIABLES
  known,        \* names in the permission table
  grants,       \* client_permission rows of the client
  hasRole,      \* its client_role row
  roleGrants,   \* role_permission rows of that role
  cache,
  inquiry,      \* a permission check that missed "effective"
  program,      \* the calls the administrator's operation still makes
  quiet,        \* ticks since the last such call, up to two lifetimes
  clean,        \* no check overlapped an operation, no deletion of an entry was
                \* omitted or failed
  changes, permissionFaults

permissionVars == <<known, grants, hasRole, roleGrants, cache, inquiry, program, quiet,
                    clean, changes, permissionFaults>>
rowVars == <<known, grants, hasRole, roleGrants>>

Key == {"effective", "direct", "roles"}
CacheEntry == [held : BOOLEAN, names : SUBSET Permission, age : 0 .. TimeToLive - 1]
NoEntry == [held |-> FALSE, names |-> {}, age |-> 0]
FreshEntry(names) == [held |-> TRUE, names |-> names, age |-> 0]

Fill == [step : {"look", "read", "set", "done"}, names : SUBSET Permission]
NewFill == [step |-> "look", names |-> {}]
NoInquiry == [busy |-> FALSE, direct |-> NewFill, roles |-> NewFill]

\* The calls operations are made of.
Delete(key) == [do |-> "del", key |-> key, names |-> {}]
Call(do, names) == [do |-> do, key |-> "effective", names |-> names]
Calls == [do : {"del", "clear", "validate", "assign", "insert", "remove", "addRole",
                "dropRole", "retain", "extend"},
          key : Key, names : SUBSET Permission]

PermissionTypeOK ==
  /\ known \in SUBSET Permission
  /\ grants \in SUBSET known
  /\ hasRole \in BOOLEAN
  /\ roleGrants \in SUBSET known
  /\ cache \in [Key -> CacheEntry]
  /\ inquiry \in [busy : BOOLEAN, direct : Fill, roles : Fill]
  /\ program \in Seq(Calls)
  /\ quiet \in 0 .. 2 * TimeToLive
  /\ clean \in BOOLEAN
  /\ changes \in 0 .. MaxChanges
  /\ permissionFaults \in 0 .. MaxPermissionFaults

PermissionInit ==
  /\ known = Permission
  /\ grants \in ScopeLists
  /\ hasRole \in BOOLEAN
  /\ roleGrants \in ScopeLists
  /\ cache = [k \in Key |-> NoEntry]
  /\ inquiry = NoInquiry
  /\ program = <<>>
  /\ quiet = 0
  /\ clean = TRUE
  /\ changes = 0
  /\ permissionFaults = 0

\* What the rows say of each entry.
Rows(key) ==
  LET ofRole == IF hasRole THEN roleGrants ELSE {}
  IN  CASE key = "direct" -> grants
        [] key = "roles" -> ofRole
        [] key = "effective" -> grants \cup ofRole

-----------------------------------------------------------------------------
(* A check: clientHasPermission and getClientEffectivePermissions. *)

\* A hit changes nothing; getClientDirectPermissions and getClientRoles then
\* run side by side.
StartInquiry ==
  /\ ~inquiry.busy
  /\ ~cache["effective"].held
  /\ inquiry' = [NoInquiry EXCEPT !.busy = TRUE]
  /\ clean' = (clean /\ program = <<>>)
  /\ UNCHANGED <<rowVars, cache, program, quiet, changes, permissionFaults>>

LookUp(key) ==
  /\ inquiry.busy
  /\ inquiry[key].step = "look"
  /\ inquiry' = [inquiry EXCEPT ![key] =
                   IF cache[key].held THEN [step |-> "done", names |-> cache[key].names]
                   ELSE [step |-> "read", names |-> {}]]
  /\ UNCHANGED <<rowVars, cache, program, quiet, clean, changes, permissionFaults>>

ReadRows(key) ==
  /\ inquiry.busy
  /\ inquiry[key].step = "read"
  /\ inquiry' = [inquiry EXCEPT ![key] = [step |-> "set", names |-> Rows(key)]]
  /\ UNCHANGED <<rowVars, cache, program, quiet, clean, changes, permissionFaults>>

StoreFill(key) ==
  /\ inquiry.busy
  /\ inquiry[key].step = "set"
  /\ cache' = [cache EXCEPT ![key] = FreshEntry(inquiry[key].names)]
  /\ inquiry' = [inquiry EXCEPT ![key].step = "done"]
  /\ UNCHANGED <<rowVars, program, quiet, clean, changes, permissionFaults>>

EndInquiry ==
  /\ inquiry.busy
  /\ inquiry["direct"].step = "done"
  /\ inquiry["roles"].step = "done"
  /\ cache' = [cache EXCEPT !["effective"] =
                 FreshEntry(inquiry["direct"].names \cup inquiry["roles"].names)]
  /\ inquiry' = NoInquiry
  /\ UNCHANGED <<rowVars, program, quiet, clean, changes, permissionFaults>>

\* A failing get counts as a miss, a failing set as done; a failing query, or a
\* crash, ends the check.
InquiryFault ==
  /\ permissionFaults < MaxPermissionFaults
  /\ permissionFaults' = permissionFaults + 1
  /\ inquiry.busy
  /\ \/ \E key \in {"direct", "roles"} :
          \/ /\ inquiry[key].step = "look"
             /\ inquiry' = [inquiry EXCEPT ![key].step = "read"]
          \/ /\ inquiry[key].step = "set"
             /\ inquiry' = [inquiry EXCEPT ![key].step = "done"]
     \/ inquiry' = NoInquiry
  /\ UNCHANGED <<rowVars, cache, program, quiet, clean, changes>>

-----------------------------------------------------------------------------
(* The administrator's operations. *)

InvalidateAllButEffective == <<Delete("direct"), Delete("roles")>>  \* variant
InvalidateClientCache == <<Delete("effective"), Delete("direct"), Delete("roles")>>

\* One operation at a time.
Begin ==
  /\ program = <<>>
  /\ changes < MaxChanges
  /\ changes' = changes + 1
  /\ UNCHANGED <<rowVars, cache, inquiry, quiet, clean, permissionFaults>>

AssignPermissionsToClient(names) == <<Call("validate", names), Call("assign", names)>>

UpdateClientPermissions(names) ==
  /\ Begin
  /\ program' = InvalidateClientCache \o <<Call("clear", {})>>
                  \o AssignPermissionsToClient(names)

RemovePermissionFromClient(name) ==
  /\ Begin
  /\ program' = Append(InvalidateClientCache, Call("remove", {name}))

AssignRoleToClient ==
  /\ ~hasRole
  /\ Begin
  /\ program' = Append(InvalidateClientCache, Call("addRole", {}))
RemoveRoleFromClient ==
  /\ hasRole
  /\ Begin
  /\ program' = Append(InvalidateClientCache, Call("dropRole", {}))

\* updateRolePermissions: findPermissions refuses names that do not exist.
UpdateRolePermissions(names) ==
  /\ names \subseteq known
  /\ Begin
  /\ program' = <<Call("retain", names), Call("extend", names)>>

MayDeleteAny(name) == name \in known  \* variant: no foreign key
MayDelete(name) == name \in known \ grants

\* One row; its role_permission rows go with it, a client_permission row forbids it.
DeletePermission(name) ==
  /\ program = <<>>
  /\ changes < MaxChanges
  /\ changes' = changes + 1
  /\ MayDelete(name)
  /\ known' = known \ {name}
  /\ roleGrants' = roleGrants \ {name}
  /\ quiet' = 0
  /\ clean' = FALSE
  /\ UNCHANGED <<grants, hasRole, cache, inquiry, program, permissionFaults>>

Operation ==
  \/ \E names \in ScopeLists : UpdateClientPermissions(names) \/ UpdateRolePermissions(names)
  \/ \E name \in Permission : RemovePermissionFromClient(name) \/ DeletePermission(name)
  \/ AssignRoleToClient \/ RemoveRoleFromClient

(* Their calls, one after another. *)

TheCall == Head(program)
Next1 == Tail(program)

\* assignPermissionsToClient goes through its list and deletes the entries again
\* before each insert.
DeleteEntry ==
  /\ TheCall.do = "del"
  /\ cache' = [cache EXCEPT ![TheCall.key] = NoEntry]
  /\ program' = Next1
  /\ clean' = (clean /\ ~inquiry.busy)
  /\ UNCHANGED rowVars

ValidateAndAssign ==
  /\ \/ /\ TheCall.do = "validate"
        /\ program' = IF TheCall.names \subseteq known THEN Next1 ELSE <<>>
     \/ /\ TheCall.do = "assign"
        /\ \/ TheCall.names = {} /\ program' = Next1
           \/ \E name \in TheCall.names :
                program' = InvalidateClientCache
                             \o <<Call("insert", {name}),
                                  Call("assign", TheCall.names \ {name})>>
  /\ clean' = (clean /\ ~inquiry.busy)
  /\ UNCHANGED <<rowVars, cache>>

WriteGrants ==
  /\ \/ TheCall.do = "clear" /\ grants' = {}
     \/ TheCall.do = "insert" /\ grants' = grants \cup (TheCall.names \cap known)
     \/ TheCall.do = "remove" /\ grants' = grants \ TheCall.names
  /\ program' = Next1
  /\ clean' = (clean /\ ~inquiry.busy)
  /\ UNCHANGED <<known, hasRole, roleGrants, cache>>

WriteClientRole ==
  /\ TheCall.do \in {"addRole", "dropRole"}
  /\ hasRole' = (TheCall.do = "addRole")
  /\ program' = Next1
  /\ clean' = (clean /\ ~inquiry.busy)
  /\ UNCHANGED <<known, grants, roleGrants, cache>>

\* No entry of any client is deleted.
WriteRoleGrants ==
  /\ \/ TheCall.do = "retain" /\ roleGrants' = roleGrants \cap TheCall.names
     \/ TheCall.do = "extend" /\ roleGrants' = roleGrants \cup (TheCall.names \cap known)
  /\ program' = Next1
  /\ clean' = FALSE
  /\ UNCHANGED <<known, grants, hasRole, cache>>

MakeCall ==
  /\ program # <<>>
  /\ DeleteEntry \/ ValidateAndAssign \/ WriteGrants \/ WriteClientRole \/ WriteRoleGrants
  /\ quiet' = 0
  /\ UNCHANGED <<inquiry, changes, permissionFaults>>

\* A failing deletion is swallowed; any other failure, or a crash, ends the operation.
CallFails ==
  /\ permissionFaults < MaxPermissionFaults
  /\ permissionFaults' = permissionFaults + 1
  /\ program # <<>>
  /\ \/ TheCall.do = "del" /\ program' = Next1 /\ clean' = FALSE
     \/ program' = <<>> /\ UNCHANGED clean
  /\ UNCHANGED <<rowVars, cache, inquiry, quiet, changes>>

-----------------------------------------------------------------------------
(* Time. *)

OlderIfTimed(entry) ==  \* variant: "direct" is set without a time to live
  IF entry.held /\ entry.age + 1 < TimeToLive THEN [entry EXCEPT !.age = @ + 1]
  ELSE IF entry = cache["direct"] THEN entry ELSE NoEntry
Older(entry) ==
  IF entry.held /\ entry.age + 1 < TimeToLive THEN [entry EXCEPT !.age = @ + 1] ELSE NoEntry

Tick ==
  /\ ~inquiry.busy
  /\ program = <<>>
  /\ cache' = [k \in Key |-> Older(cache[k])]
  /\ quiet' = IF quiet < 2 * TimeToLive THEN quiet + 1 ELSE quiet
  /\ cache' # cache \/ quiet' # quiet
  /\ UNCHANGED <<rowVars, inquiry, program, clean, changes, permissionFaults>>

PermissionNext ==
  \/ StartInquiry \/ EndInquiry \/ InquiryFault
  \/ \E key \in {"direct", "roles"} : LookUp(key) \/ ReadRows(key) \/ StoreFill(key)
  \/ Operation \/ MakeCall \/ CallFails
  \/ Tick

PermissionSpec == PermissionInit /\ [][PermissionNext]_permissionVars

-----------------------------------------------------------------------------
(* Correctness. *)

Current(key) == cache[key].held => cache[key].names = Rows(key)

\* A check may fill an entry with rows read before a write whose deletions it has
\* outrun, and role changes delete nothing; but that is the only way to an entry
\* that is out of date: between operations that no check overlapped, every entry
\* says what the rows say, wherever an operation stopped half-way.
OutOfDateOnlyByOverlap ==
  clean /\ program = <<>> => \A key \in Key : Current(key)

\* The "effective" entry may be filled from another entry in the last tick of its
\* life, so what was revoked can be granted for longer than one time to live; but
\* never for more than two, whatever overlapped, failed or was not deleted.
OutOfDateForTwoLifetimes ==
  quiet = 2 * TimeToLive => \A key \in Key : Current(key)
=============================================================================
