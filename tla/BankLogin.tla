----------------------------- MODULE BankLogin -----------------------------
(***************************************************************************)
(* Logins of bank users, and what they store (hiperbanco-auth.service.ts,  *)
(* helpers/bank-login.helper.ts, the onboarding and account services,      *)
(* provider-session.service.ts), and the payment requests made with the    *)
(* sessions they open (guards/provider-auth.guard.ts).                     *)
(*                                                                         *)
(* A bank login is answered with the user's accounts; each is looked up by *)
(* its external id and the API client, updated or inserted, and the first  *)
(* becomes the session's account.  Look-up and save are separate awaits;   *)
(* unique indexes make the loser of a race fail.  One bank user suffices:  *)
(* rows of different users are never compared.  The row's key stands for   *)
(* its generated id.                                                       *)
(***************************************************************************)
EXTENDS Naturals, Sequences

CONSTANTS
  Client,          \* API clients
  BankAccount,     \* the user's accounts, by external id
  AccountLists,    \* the lists a login may be answered with
  Login,           \* login requests
  Payment,         \* payment requests
  MaxLoginFaults

ASSUME AccountListsAssumption == AccountLists \subseteq Seq(BankAccount)
ASSUME MaxLoginFaultsAssumption == MaxLoginFaults \in Nat

VARIABLES
  onboarded,     \* the clients with an onboarding row of the user
  accounts,      \* the account table
  bankLogins,
  sessions,      \* the session a login opened
  payments,      \* the client and account a payment is made for
  loginFaults

loginVars == <<onboarded, accounts, bankLogins, sessions, payments, loginFaults>>

AccountStatus == {"ACTIVE", "INACTIVE", "BLOCKED"}
AccountId == [external : BankAccount, client : Client]
AccountRow == [status : AccountStatus, onboarded : BOOLEAN]
Nobody == "none"
NoAccount == [external |-> Nobody, client |-> Nobody]

LoginStep == {"idle", "ask", "findUser", "saveUser", "find", "save", "session",
              "done", "refused", "failed"}
IdleLogin(c) ==
  [step |-> "idle", client |-> c, user |-> FALSE, list |-> <<>>, known |-> FALSE,
   saved |-> <<>>, alone |-> TRUE]
NoSession == [open |-> FALSE, client |-> Nobody, account |-> NoAccount, loginType |-> "none"]
NoPayment == [client |-> Nobody, account |-> NoAccount]

InProgress(l) == bankLogins[l].step \notin {"idle", "done", "refused", "failed"}

LoginTypeOK ==
  /\ onboarded \in SUBSET Client
  /\ DOMAIN accounts \subseteq AccountId
  /\ \A id \in DOMAIN accounts : accounts[id] \in AccountRow
  /\ \A l \in Login :
       /\ bankLogins[l].step \in LoginStep
       /\ bankLogins[l].client \in Client
       /\ bankLogins[l].list \in Seq([external : BankAccount, status : AccountStatus])
       /\ bankLogins[l].saved \in Seq(AccountId)
       /\ {bankLogins[l].user, bankLogins[l].known, bankLogins[l].alone} \subseteq BOOLEAN
  /\ \A l \in Login : sessions[l].open => sessions[l].client \in Client
  /\ loginFaults \in 0 .. MaxLoginFaults

LoginInit ==
  /\ onboarded = {}
  /\ accounts = <<>>
  /\ bankLogins \in {[l \in Login |-> IdleLogin(f[l])] : f \in [Login -> Client]}
  /\ sessions = [l \in Login |-> NoSession]
  /\ payments = [p \in Payment |-> NoPayment]
  /\ loginFaults = 0

-----------------------------------------------------------------------------
(* What the provider answers. *)

\* A status the API does not know is taken for ACTIVE.
ParseAccountStatus(status) == IF status \in AccountStatus THEN status ELSE "ACTIVE"

StartLogin(l) ==
  /\ bankLogins[l].step = "idle"
  /\ LET rivals == {k \in Login : InProgress(k) /\ bankLogins[k].client = bankLogins[l].client}
     IN  bankLogins' = [k \in Login |->
           IF k = l THEN [bankLogins[l] EXCEPT !.step = "ask", !.alone = (rivals = {})]
           ELSE IF k \in rivals THEN [bankLogins[k] EXCEPT !.alone = FALSE]
           ELSE bankLogins[k]]
  /\ UNCHANGED <<onboarded, accounts, sessions, payments, loginFaults>>

\* An answer without a user id leaves no onboarding, one without user data lists
\* no accounts either.
ProviderAnswers(l) ==
  /\ bankLogins[l].step = "ask"
  /\ \E list \in AccountLists, status \in AccountStatus \cup {"CLOSED"}, user \in BOOLEAN :
       bankLogins' = [bankLogins EXCEPT ![l].step = IF user THEN "findUser" ELSE "find",
                                ![l].user = user,
                                ![l].list = [i \in DOMAIN list |->
                                               [external |-> list[i],
                                                status |-> ParseAccountStatus(status)]]]
  /\ UNCHANGED <<onboarded, accounts, sessions, payments, loginFaults>>

ProviderRefuses(l) ==
  /\ bankLogins[l].step = "ask"
  /\ bankLogins' = [bankLogins EXCEPT ![l].step = "refused"]
  /\ UNCHANGED <<onboarded, accounts, sessions, payments, loginFaults>>

-----------------------------------------------------------------------------
(* persistOnboarding, persistAccounts: findOne, then save. *)

FindOnboarding(l) ==
  /\ bankLogins[l].step = "findUser"
  /\ bankLogins' = [bankLogins EXCEPT ![l].step = "saveUser",
                              ![l].known = bankLogins[l].client \in onboarded]
  /\ UNCHANGED <<onboarded, accounts, sessions, payments, loginFaults>>

\* The row to be inserted exists by now: the unique index refuses it.
DuplicateKey(l, exists) == ~bankLogins[l].known /\ exists

SaveOnboarding(l) ==
  /\ bankLogins[l].step = "saveUser"
  /\ IF DuplicateKey(l, bankLogins[l].client \in onboarded)
     THEN /\ bankLogins' = [bankLogins EXCEPT ![l].step = "failed"]
          /\ UNCHANGED onboarded
     ELSE /\ bankLogins' = [bankLogins EXCEPT ![l].step = "find"]
          /\ onboarded' = onboarded \cup {bankLogins[l].client}
  /\ UNCHANGED <<accounts, sessions, payments, loginFaults>>

AnyRowOf(l, external) ==  \* variant: the row is looked up without the client
  LET found == {id \in DOMAIN accounts : id.external = external}
  IN  IF found # {} THEN CHOOSE id \in found : TRUE
      ELSE [external |-> external, client |-> bankLogins[l].client]
RowOf(l, external) == [external |-> external, client |-> bankLogins[l].client]

FindNothing(l) ==  \* variant: every account is taken for new
  /\ bankLogins[l].step = "find"
  /\ bankLogins[l].list # <<>>
  /\ bankLogins' = [bankLogins EXCEPT ![l].step = "save", ![l].known = FALSE]
  /\ UNCHANGED <<onboarded, accounts, sessions, payments, loginFaults>>

FindAccount(l) ==
  /\ bankLogins[l].step = "find"
  /\ bankLogins[l].list # <<>>
  /\ bankLogins' = [bankLogins EXCEPT ![l].step = "save",
                              ![l].known = RowOf(l, Head(bankLogins[l].list).external)
                                             \in DOMAIN accounts]
  /\ UNCHANGED <<onboarded, accounts, sessions, payments, loginFaults>>

SaveAccount(l) ==
  /\ bankLogins[l].step = "save"
  /\ LET account == Head(bankLogins[l].list)
         id == RowOf(l, account.external)
         exists == id \in DOMAIN accounts
     IN  IF DuplicateKey(l, exists)
         THEN /\ bankLogins' = [bankLogins EXCEPT ![l].step = "failed"]
              /\ UNCHANGED accounts
         ELSE /\ bankLogins' = [bankLogins EXCEPT ![l].step = "find",
                                          ![l].list = Tail(@),
                                          ![l].saved = Append(@, id)]
              /\ accounts' = [row \in DOMAIN accounts \cup {id} |->
                               IF row # id THEN accounts[row]
                               ELSE [status |-> account.status,
                                     onboarded |-> \/ bankLogins[l].user
                                                   \/ exists /\ accounts[id].onboarded]]
  /\ UNCHANGED <<onboarded, sessions, payments, loginFaults>>

-----------------------------------------------------------------------------
(* The session, and payments made with it. *)

\* getPrimaryAccount: a login without accounts is refused, its rows stay.
NoPrimaryAccount(l) ==
  /\ bankLogins[l].step = "find"
  /\ bankLogins[l].list = <<>>
  /\ bankLogins[l].saved = <<>>
  /\ bankLogins' = [bankLogins EXCEPT ![l].step = "refused"]
  /\ UNCHANGED <<onboarded, accounts, sessions, payments, loginFaults>>

CreateSession(l) ==
  /\ bankLogins[l].step = "find"
  /\ bankLogins[l].list = <<>>
  /\ bankLogins[l].saved # <<>>
  /\ sessions' = [sessions EXCEPT ![l] = [open |-> TRUE, client |-> bankLogins[l].client,
                                          account |-> Head(bankLogins[l].saved),
                                          loginType |-> "BANK"]]
  /\ bankLogins' = [bankLogins EXCEPT ![l].step = "done"]
  /\ UNCHANGED <<onboarded, accounts, payments, loginFaults>>

\* loginBackoffice: a session of the client of the stored credentials, with no account.
BackofficeLogin(l, c) ==
  /\ bankLogins[l].step = "idle"
  /\ sessions' = [sessions EXCEPT ![l] = [open |-> TRUE, client |-> c,
                                          account |-> NoAccount,
                                          loginType |-> "BACKOFFICE"]]
  /\ bankLogins' = [bankLogins EXCEPT ![l].step = "done"]
  /\ UNCHANGED <<onboarded, accounts, payments, loginFaults>>

SessionTtlEnds(l) ==
  /\ sessions[l].open
  /\ sessions' = [sessions EXCEPT ![l] = NoSession]
  /\ UNCHANGED <<onboarded, accounts, bankLogins, payments, loginFaults>>

\* ProviderAuthGuard under RequireLoginType(BANK); the payment is the session's.
MakePayment(p, l) ==
  /\ sessions[l].open
  /\ sessions[l].loginType = "BANK"
  /\ payments[p] = NoPayment
  /\ payments' = [payments EXCEPT ![p] = [client |-> sessions[l].client,
                                          account |-> sessions[l].account]]
  /\ UNCHANGED <<onboarded, accounts, bankLogins, sessions, loginFaults>>

LogInBank(l) ==
  \/ ProviderAnswers(l) \/ ProviderRefuses(l)
  \/ FindOnboarding(l) \/ SaveOnboarding(l) \/ FindAccount(l) \/ SaveAccount(l)
  \/ NoPrimaryAccount(l) \/ CreateSession(l)

\* A query or Redis fails, or the process dies; what was saved stays.
LoginFault(l) ==
  /\ loginFaults < MaxLoginFaults
  /\ loginFaults' = loginFaults + 1
  /\ InProgress(l)
  /\ bankLogins' = [bankLogins EXCEPT ![l].step = "failed"]
  /\ UNCHANGED <<onboarded, accounts, sessions, payments>>

LoginNext ==
  \/ \E l \in Login :
       \/ StartLogin(l) \/ LogInBank(l) \/ LoginFault(l) \/ SessionTtlEnds(l)
       \/ \E c \in Client : BackofficeLogin(l, c)
       \/ \E p \in Payment : MakePayment(p, l)

LoginSpec == LoginInit /\ [][LoginNext]_loginVars

-----------------------------------------------------------------------------
(* Correctness. *)

\* A payment is made for an account row of its own client, saved by then, although
\* one bank user's accounts are shared by the clients and the accounts of two
\* logins are saved at the same time.
PaymentsActForTheirClient ==
  \A p \in Payment :
    payments[p] # NoPayment =>
      /\ payments[p].account \in DOMAIN accounts
      /\ payments[p].account.client = payments[p].client

\* The provider having agreed, a login fails only if something broke or another
\* login of the same client ran at the same time: what a login that failed
\* half-way left behind never makes a later one fail.
LoginFailsOnlyByOverlap ==
  \A l \in Login : bankLogins[l].step = "failed" => ~bankLogins[l].alone \/ loginFaults > 0
=============================================================================
