------------------------------ MODULE Accounts ------------------------------
(***************************************************************************)
(* Users of the dashboard: UserStore (SQLite: users, settings, secrets),   *)
(* AccountStore (two tables behind REST requests) and the handlers that    *)
(* log a user in and change what is theirs.  Handlers run in threads; the  *)
(* store's lock makes one statement atomic, a handler is several.          *)
(***************************************************************************)
EXTENDS Naturals, FiniteSets

CONSTANTS
    AThread, Login, Admins,  \* threads, logins, DASHBOARD_ADMINS
    Pref, SecretName,        \* keys of the settings, names of secrets
    SlugTries,               \* slugs tried for one login (10)
    MaxAct,                  \* bound: requests made and lost in all
    Ttl,                     \* time to live of an account's secret; 0: none
    KeyIsSet,                \* WEBUI_ENCRYPTION_KEY is in the environment
    RequestsFail             \* requests to the account tables may fail

ASSUME AccountAssumption ==
    /\ IsFiniteSet(AThread) /\ IsFiniteSet(Login)
    /\ SlugTries \in Nat \ {0} /\ MaxAct \in Nat

VARIABLES
    users,     \* role of each login, "none" before the first visit
    prefs,     \* settings: the keys that were set
    vault,     \* secrets of users: the key they were encrypted with, 0 when there is none
    shared,    \* secrets of an account: "none" or what is left of their time
    accts,     \* rows of accounts: <<login, slug>>, and of account_members
    member,
    th,        \* what each thread does, and what it read
    key, acts  \* the store's key; requests so far

acctVars == <<users, prefs, vault, shared, accts, member, th, key, acts>>

Idle == [at |-> "idle", who |-> "nobody", read |-> {}, arg |-> {}, slug |-> 1]
Slug == 1..SlugTries
Human == {"admin", "user"}

AccountsTypeOK ==
    /\ \A l \in Login : users[l] \in Human \cup {"none"} /\ prefs[l] \subseteq Pref
    /\ accts \subseteq Login \X Slug /\ \A l \in Login : member[l] \subseteq accts
    /\ \A n \in SecretName : shared[n].left \in 0..Ttl

AccountsInit ==
    /\ users = [l \in Login |-> "none"] /\ prefs = [l \in Login |-> {}]
    /\ vault = [l \in Login |-> [n \in SecretName |-> 0]]
    /\ shared = [n \in SecretName |-> [there |-> FALSE, ends |-> FALSE, left |-> 0]]
    /\ accts = {} /\ member = [l \in Login |-> {}]
    /\ th = [t \in AThread |-> Idle]
    /\ key = 1 /\ acts = 0

\* A thread takes a request.
Begin(t, at, who) ==
    /\ th[t].at = "idle" /\ acts < MaxAct /\ acts' = acts + 1
    /\ th' = [th EXCEPT ![t] = [Idle EXCEPT !.at = at, !.who = who]]

Goto(t, at) == th' = [th EXCEPT ![t].at = at]

-----------------------------------------------------------------------------
(* Users and their settings.                                               *)

\* Mutant: administrators are not counted as users.
MutIsFirstHuman == \A l \in Login : users[l] # "user"

\* The count is taken under the lock that also covers the insert.
IsFirstHuman == \A l \in Login : users[l] \notin Human

WithUser(l) ==
    [users EXCEPT ![l] = IF @ # "none" THEN @
                         ELSE IF IsFirstHuman \/ l \in Admins THEN "admin" ELSE "user"]

\* GET /api/users/me provisions a user that the store does not know.
GetMe(t, l) ==
    /\ Begin(t, "idle", "nobody") /\ users' = WithUser(l)
    /\ UNCHANGED <<prefs, vault, shared, accts, member, key>>

\* update_settings reads the row and merges outside the lock.
ReadSettings(t, l) ==
    /\ Begin(t, "settings", l) /\ users[l] # "none"
    /\ UNCHANGED <<users, prefs, vault, shared, accts, member, key>>

MergeSettings(t) ==
    /\ th[t].at = "settings"
    /\ \E p \in Pref :
         th' = [th EXCEPT ![t].at = "write", ![t].read = prefs[th[t].who] \cup {p}, ![t].arg = {p}]
    /\ UNCHANGED <<users, prefs, vault, shared, accts, member, key, acts>>

WriteSettings(t) ==
    /\ th[t].at = "write"
    /\ prefs' = [prefs EXCEPT ![th[t].who] = th[t].read]
    /\ th' = [th EXCEPT ![t] = Idle]
    /\ UNCHANGED <<users, vault, shared, accts, member, key, acts>>

-----------------------------------------------------------------------------
(* Secrets.                                                                *)

\* A user is provisioned first; the value is encrypted with the store's key.
CreateSecret(t, l, n) ==
    /\ Begin(t, "idle", "nobody") /\ users' = WithUser(l)
    /\ vault' = [vault EXCEPT ![l][n] = key]
    /\ UNCHANGED <<prefs, shared, accts, member, key>>

DeleteSecret(t, l, n) ==
    /\ Begin(t, "idle", "nobody") /\ users[l] # "none" /\ vault[l][n] # 0
    /\ vault' = [vault EXCEPT ![l][n] = 0]
    /\ UNCHANGED <<users, prefs, shared, accts, member, key>>

\* A new value replaces the expiry as well; ttl_minutes of 0 or less is none.
CreateSharedSecret(t, n) ==
    /\ Begin(t, "idle", "nobody")
    /\ \E ttl \in {0, Ttl} : shared' = [shared EXCEPT ![n] = [there |-> TRUE, ends |-> ttl > 0, left |-> ttl]]
    /\ UNCHANGED <<users, prefs, vault, accts, member, key>>

DeleteSharedSecret(t, n) ==
    /\ Begin(t, "idle", "nobody") /\ shared[n].there
    /\ shared' = [shared EXCEPT ![n] = [there |-> FALSE, ends |-> FALSE, left |-> 0]]
    /\ UNCHANGED <<users, prefs, vault, accts, member, key>>

\* What list_account_secret_names shows.
Listed == {n \in SecretName : shared[n].there /\ (shared[n].ends => shared[n].left > 0)}

PurgeExpired(t) ==
    /\ Begin(t, "idle", "nobody")
    /\ shared' = [n \in SecretName |-> IF shared[n].ends /\ shared[n].left = 0
                                       THEN [there |-> FALSE, ends |-> FALSE, left |-> 0] ELSE shared[n]]
    /\ UNCHANGED <<users, prefs, vault, accts, member, key>>

-----------------------------------------------------------------------------
(* Logging in.                                                             *)

\* The callback exchanges the code, checks the organisation, sends the
\* cookie, and then provisions; a login that is refused changes nothing.
AuthCallback(t, l) ==
    /\ Begin(t, "ensure", l) /\ users' = WithUser(l)
    /\ UNCHANGED <<prefs, vault, shared, accts, member, key>>

\* _handle_list_accounts makes up for an account that is missing.
ListAccounts(t, l) ==
    /\ th[t].at = "idle" /\ acts < MaxAct /\ acts' = acts + 1
    /\ th' = [th EXCEPT ![t] = [Idle EXCEPT !.at = "ensure", !.who = l, !.arg = {"list"}]]
    /\ UNCHANGED <<users, prefs, vault, shared, accts, member, key>>

\* A request fails, or its answer comes too late; MaxAct bounds these, too.
RequestLost == RequestsFail /\ acts < MaxAct /\ acts' = acts + 1

\* _ensure_personal_account: nothing to do for a member of any account.
GetUserAccounts(t) ==
    /\ th[t].at = "ensure"
    /\ \/ Goto(t, IF member[th[t].who] = {} THEN "create" ELSE "token") /\ UNCHANGED acts
       \/ RequestLost /\ Goto(t, "token")
    /\ UNCHANGED <<users, prefs, vault, shared, accts, member, key>>

\* The next slug after a failure, ten in all.
NextSlug(t) ==
    th' = IF th[t].slug + 1 \in Slug THEN [th EXCEPT ![t].slug = @ + 1, ![t].at = "create"]
          ELSE [th EXCEPT ![t].at = "token"]

\* Mutant: a slug that is taken ends the attempts.
MutPostAccount(t) ==
    LET a == <<th[t].who, th[t].slug>>
    IN /\ th[t].at = "create"
       /\ IF a \in accts THEN Goto(t, "token") /\ UNCHANGED accts
          ELSE Goto(t, "member") /\ accts' = accts \cup {a}
       /\ UNCHANGED <<users, prefs, vault, shared, member, key, acts>>

\* The first request of create_account: slugs are unique.
PostAccount(t) ==
    LET a == <<th[t].who, th[t].slug>>
    IN /\ th[t].at = "create"
       /\ \/ a \notin accts /\ Goto(t, "member") /\ accts' = accts \cup {a} /\ UNCHANGED acts
          \/ a \in accts /\ NextSlug(t) /\ UNCHANGED <<accts, acts>>
          \/ RequestLost /\ NextSlug(t) /\ accts' \in {accts, accts \cup {a}}
       /\ UNCHANGED <<users, prefs, vault, shared, member, key>>

\* The second one: when it fails the account stays without a member, and the
\* caller goes on with another slug.
PostOwner(t) ==
    /\ th[t].at = "member"
    /\ LET joined == [member EXCEPT ![th[t].who] = @ \cup {<<th[t].who, th[t].slug>>}]
       IN  \/ member' = joined /\ Goto(t, "token") /\ UNCHANGED acts
           \/ RequestLost /\ NextSlug(t) /\ member' \in {member, joined}
    /\ UNCHANGED <<users, prefs, vault, shared, accts, key>>

\* The callback ends with the access token among the user's secrets.
StoreToken(t) ==
    /\ th[t].at = "token" /\ th' = [th EXCEPT ![t] = Idle]
    /\ IF th[t].arg = {} THEN \E n \in SecretName : vault' = [vault EXCEPT ![th[t].who][n] = key]
       ELSE UNCHANGED vault
    /\ UNCHANGED <<users, prefs, shared, accts, member, key, acts>>

\* An account made by hand has one slug, and is not tried again.
CreateAccount(t, l) ==
    /\ th[t].at = "idle" /\ acts < MaxAct /\ acts' = acts + 1
    /\ th' = [th EXCEPT ![t] = [Idle EXCEPT !.at = "create", !.who = l, !.arg = {"by_hand"},
                                           !.slug = SlugTries]]
    /\ UNCHANGED <<users, prefs, vault, shared, accts, member, key>>

\* Members are invited and removed; their roles are left out.
InviteMember(t, l, a) ==
    /\ Begin(t, "idle", "nobody") /\ a \in accts /\ a \notin member[l]
    /\ member' = [member EXCEPT ![l] = @ \cup {a}]
    /\ UNCHANGED <<users, prefs, vault, shared, accts, key>>

RemoveMember(t, l, a) ==
    /\ Begin(t, "idle", "nobody") /\ a \in member[l]
    /\ member' = [member EXCEPT ![l] = @ \ {a}]
    /\ UNCHANGED <<users, prefs, vault, shared, accts, key>>

\* The server restarts: requests are lost, and so is a key made at start.
RestartServer ==
    /\ acts < MaxAct /\ acts' = acts + 1
    /\ th' = [t \in AThread |-> Idle] /\ key' = IF KeyIsSet THEN key ELSE key + 1
    /\ UNCHANGED <<users, prefs, vault, shared, accts, member>>

SecretsAge ==
    /\ \E n \in SecretName : shared[n].left > 0
    /\ shared' = [n \in SecretName |-> [shared[n] EXCEPT !.left = IF @ > 0 THEN @ - 1 ELSE 0]]
    /\ UNCHANGED <<users, prefs, vault, accts, member, th, key, acts>>

AccountsNext ==
    \/ \E t \in AThread :
         \/ \E l \in Login :
              \/ GetMe(t, l) \/ ReadSettings(t, l) \/ AuthCallback(t, l) \/ ListAccounts(t, l)
              \/ CreateAccount(t, l)
              \/ \E n \in SecretName : CreateSecret(t, l, n) \/ DeleteSecret(t, l, n)
              \/ \E a \in accts : InviteMember(t, l, a) \/ RemoveMember(t, l, a)
         \/ \E n \in SecretName : CreateSharedSecret(t, n) \/ DeleteSharedSecret(t, n)
         \/ MergeSettings(t) \/ WriteSettings(t) \/ PurgeExpired(t)
         \/ GetUserAccounts(t) \/ PostAccount(t) \/ PostOwner(t) \/ StoreToken(t)
    \/ RestartServer \/ SecretsAge

AccountsSpec == AccountsInit /\ [][AccountsNext]_acctVars

-----------------------------------------------------------------------------
(* Properties.                                                             *)

\* The first person to come is an administrator, and apart from the logins
\* that are named in the configuration nobody else becomes one.
OneFirstAdmin ==
    LET people == {l \in Login : users[l] \in Human}
    IN people # {} => Cardinality({l \in people \ Admins : users[l] = "admin"}) <= 1
                      /\ \E l \in people : users[l] = "admin"

\* A login that has got past the creation of its account is a member of one,
\* however many of its requests raced for the same slugs or failed between the
\* account and its owner, as long as there are more slugs than such mishaps.
LoginHasAccount ==
    [][\A t \in AThread : th[t].at \in {"create", "member"} /\ th'[t].at = "token"
                      /\ th[t].arg # {"by_hand"} => member'[th[t].who] # {}]_acctVars
=============================================================================
