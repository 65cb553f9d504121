------------------------------ MODULE Accounts ------------------------------
(***************************************************************************)
(* Accounts and sessions of the web application: the table of users, the   *)
(* tokens in the browsers, the table of revoked tokens, and the requests   *)
(* that work on them.  Handlers run in a pool of threads, and each SQL     *)
(* statement is a transaction of its own, so that other requests come      *)
(* between the statements of one.                                          *)
(*                                                                         *)
(* Users are numbered by AUTOINCREMENT and never deleted, so the table is  *)
(* a sequence; a token's jti is unique, and here its number.  What a       *)
(* request takes from its body is chosen where it is first used.  Requests *)
(* that are refused and change nothing leave no trace here, as the audit   *)
(* log is left out.                                                        *)
(***************************************************************************)
EXTENDS Integers, Sequences, FiniteSets

CONSTANTS
    Names, Passwords,
    AdminName, DefaultPassword,     \* of the first administrator
    Migrated,                       \* the users table that was copied from the old version
    Requests,                       \* threads that serve requests
    TTL,                            \* session_timeout_minutes
    MaxUsers, MaxTokens, MaxTime    \* bounds

Roles == {"admin", "user"}

\* A hash is the password that it matches, and whether it has the old version's format.
Users == [name : Names, pw : Passwords, legacy : BOOLEAN, role : Roles, active : BOOLEAN]

ASSUME AccountsAssumption ==
    /\ AdminName \in Names /\ DefaultPassword \in Passwords
    /\ Migrated \in Seq(Users)
    /\ \A m, n \in DOMAIN Migrated : Migrated[m].name = Migrated[n].name => m = n
    /\ TTL \in Nat \ {0}
    /\ MaxUsers \in Nat /\ MaxTokens \in Nat /\ MaxTime \in Nat

VARIABLES
    users,      \* the users table
    tokens,     \* all tokens issued: user, role and exp
    revoked,    \* the revoked_jti table
    now,        \* the clock
    web,        \* "down", "starting" or "up"
    req,        \* what each thread is doing
    \* history, for the properties
    loggedOut,  \* tokens whose logout was answered
    lastSet,    \* the password last given to each user
    overtaken,  \* users whose password was set while a login was about to store its own hash
    leaving     \* threads whose login began before its user was deactivated

vars == <<users, tokens, revoked, now, web, req, loggedOut, lastSet, overtaken, leaving>>

Idle == [at |-> "idle"]

\* A login between its SELECT and the token, a request with an accepted token, a change of
\* password after the check of the old one, and a new user before the INSERT.
LoginStates == [at : {"rehash", "issue"}, user : Nat, role : Roles, pw : Passwords, legacy : BOOLEAN]
ReqStates ==
    {Idle} \cup LoginStates
        \cup [at : {"granted"}, token : Nat]
        \cup [at : {"change"}, user : Nat]
        \cup [at : {"insert"}, name : Names]

TypeOK ==
    /\ users \in Seq(Users)
    /\ tokens \in Seq([user : Nat, role : Roles, exp : Nat])
    /\ \A t \in DOMAIN tokens : tokens[t].user \in DOMAIN users
    /\ revoked \subseteq DOMAIN tokens /\ loggedOut \subseteq DOMAIN tokens
    /\ now \in Nat
    /\ web \in {"down", "starting", "up"}
    /\ req \in [Requests -> ReqStates]
    /\ lastSet \in Seq(Passwords) /\ Len(lastSet) = Len(users)
    /\ overtaken \subseteq DOMAIN users
    /\ leaving \subseteq Requests

Init ==
    /\ users \in {<<>>, Migrated}
    /\ tokens = <<>> /\ revoked = {}
    /\ now = 0 /\ web = "down"
    /\ req = [r \in Requests |-> Idle]
    /\ loggedOut = {} /\ lastSet = [n \in DOMAIN users |-> users[n].pw]
    /\ overtaken = {} /\ leaving = {}

-----------------------------------------------------------------------------
(* Start and stop of the web application *)

Active(n) == users[n].active
SomebodyActive == \E n \in DOMAIN users : Active(n)
Taken(x) == \E n \in DOMAIN users : users[n].name = x

AddUser(x, pw, role) ==
    /\ users' = Append(users, [name |-> x, pw |-> pw, legacy |-> FALSE, role |-> role, active |-> TRUE])
    /\ lastSet' = Append(lastSet, pw)

EnsureDefaultAdmin ==
    /\ web = "down" /\ web' = "starting"
    /\ IF SomebodyActive THEN UNCHANGED <<users, lastSet>>
       ELSE ~Taken(AdminName) /\ AddUser(AdminName, DefaultPassword, "admin")
    /\ UNCHANGED <<tokens, revoked, now, req, loggedOut, overtaken, leaving>>

\* The name is UNIQUE also among users that are not active; systemd tries again.
StartRefused ==
    /\ web = "down" /\ ~SomebodyActive /\ Taken(AdminName)
    /\ UNCHANGED vars

\* Mutant: a revocation is dropped although its token still counts.
PurgedEarly == {t \in revoked : tokens[t].exp <= now + 1}

\* DELETE FROM revoked_jti WHERE exp_ts < now
Purged == {t \in revoked : tokens[t].exp < now}

PurgeExpiredJti ==
    /\ web = "starting" /\ web' = "up"
    /\ revoked' = revoked \ Purged
    /\ UNCHANGED <<users, tokens, now, req, loggedOut, lastSet, overtaken, leaving>>

Stop ==
    /\ web # "down" /\ web' = "down"
    /\ req' = [r \in Requests |-> Idle]
    /\ leaving' = {}
    /\ UNCHANGED <<users, tokens, revoked, now, loggedOut, lastSet, overtaken>>

Tick ==
    /\ now < MaxTime /\ now' = now + 1
    /\ UNCHANGED <<users, tokens, revoked, web, req, loggedOut, lastSet, overtaken, leaving>>

-----------------------------------------------------------------------------
(* login *)

At(r, place) == web = "up" /\ req[r].at = place
Goes(r, state) == req' = [req EXCEPT ![r] = state]
LoggingIn(r) == req[r].at \in {"rehash", "issue"}

\* Mutant: every login stores the hash anew.
RehashAlways(u) == TRUE

\* verify_password asks for a new hash if the stored one has the old format.
NeedsRehash(u) == u.legacy

\* Mutant: the user may have been deactivated.
FoundInactive(u) == TRUE

\* SELECT ... AND active=1
Found(u) == u.active

Login(r, n, pw) ==
    /\ At(r, "idle")
    /\ Len(tokens) + Cardinality({q \in Requests : LoggingIn(q)}) < MaxTokens
    /\ Found(users[n]) /\ users[n].pw = pw
    /\ Goes(r, [at |-> IF NeedsRehash(users[n]) THEN "rehash" ELSE "issue", user |-> n,
                role |-> users[n].role, pw |-> pw, legacy |-> users[n].legacy])
    /\ UNCHANGED <<users, tokens, revoked, now, web, loggedOut, lastSet, overtaken, leaving>>

Rehash(r) ==
    /\ At(r, "rehash")
    /\ users' = [users EXCEPT ![req[r].user].pw = req[r].pw, ![req[r].user].legacy = FALSE]
    /\ Goes(r, [req[r] EXCEPT !.at = "issue"])
    /\ UNCHANGED <<tokens, revoked, now, web, loggedOut, lastSet, overtaken, leaving>>

NewToken(q) == [user |-> q.user, role |-> q.role, exp |-> now + TTL]

Issue(r) ==
    /\ At(r, "issue")
    /\ tokens' = Append(tokens, NewToken(req[r]))
    /\ Goes(r, Idle)
    /\ leaving' = leaving \ {r}
    /\ UNCHANGED <<users, revoked, now, web, loggedOut, lastSet, overtaken>>

-----------------------------------------------------------------------------
(* get_current_user, and the handlers behind it *)

\* exp in the future, and not revoked
Accepted(t) == now < tokens[t].exp /\ t \notin revoked

Authenticate(r, t) ==
    /\ At(r, "idle")
    /\ Accepted(t)
    /\ Goes(r, [at |-> "granted", token |-> t])
    /\ UNCHANGED <<users, tokens, revoked, now, web, loggedOut, lastSet, overtaken, leaving>>

\* The token is decoded once more, and may have expired since.
Logout(r) ==
    LET t == req[r].token IN
    /\ At(r, "granted")
    /\ revoked' = revoked \cup IF now < tokens[t].exp THEN {t} ELSE {}
    /\ loggedOut' = loggedOut \cup {t}
    /\ Goes(r, Idle)
    /\ UNCHANGED <<users, tokens, now, web, lastSet, overtaken, leaving>>

\* A login that read an old hash will store its own password over this one.
Overtakes(n) == \E q \in Requests : req[q].at = "rehash" /\ req[q].user = n /\ req[q].legacy

SetPassword(n, pw) ==
    /\ users' = [users EXCEPT ![n].pw = pw, ![n].legacy = FALSE]
    /\ lastSet' = [lastSet EXCEPT ![n] = pw]
    /\ overtaken' = IF Overtakes(n) THEN overtaken \cup {n} ELSE overtaken

CheckOldPassword(r, pw) ==
    LET n == tokens[req[r].token].user IN
    /\ At(r, "granted")
    /\ users[n].pw = pw
    /\ Goes(r, [at |-> "change", user |-> n])
    /\ UNCHANGED <<users, tokens, revoked, now, web, loggedOut, lastSet, overtaken, leaving>>

ChangePassword(r, pw) ==
    /\ At(r, "change")
    /\ SetPassword(req[r].user, pw)
    /\ Goes(r, Idle)
    /\ UNCHANGED <<tokens, revoked, now, web, loggedOut, leaving>>

-----------------------------------------------------------------------------
(* The handlers behind require_admin *)

\* The role is the token's.
AdminAt(r) == At(r, "granted") /\ tokens[req[r].token].role = "admin"

CheckNewName(r, x) ==
    /\ AdminAt(r)
    /\ ~\E n \in DOMAIN users : users[n].name = x /\ Active(n)
    /\ Goes(r, [at |-> "insert", name |-> x])
    /\ UNCHANGED <<users, tokens, revoked, now, web, loggedOut, lastSet, overtaken, leaving>>

CreateUser(r, pw, role) ==
    /\ At(r, "insert")
    /\ Goes(r, Idle)
    /\ IF Taken(req[r].name) THEN UNCHANGED <<users, lastSet>>
       ELSE Len(users) < MaxUsers /\ AddUser(req[r].name, pw, role)
    /\ UNCHANGED <<tokens, revoked, now, web, loggedOut, overtaken, leaving>>

\* Mutant: an administrator may deactivate the account he uses.
AnyTarget(r, n) == TRUE

OtherTarget(r, n) == n # tokens[req[r].token].user

DeactivateUser(r, n) ==
    /\ AdminAt(r)
    /\ OtherTarget(r, n)
    /\ users' = [users EXCEPT ![n].active = FALSE]
    /\ leaving' = leaving \cup {q \in Requests : LoggingIn(q) /\ req[q].user = n}
    /\ Goes(r, Idle)
    /\ UNCHANGED <<tokens, revoked, now, web, loggedOut, lastSet, overtaken>>

UpdateUserRole(r, n, role) ==
    /\ AdminAt(r)
    /\ users' = [users EXCEPT ![n].role = role]
    /\ Goes(r, Idle)
    /\ UNCHANGED <<tokens, revoked, now, web, loggedOut, lastSet, overtaken, leaving>>

ResetPassword(r, n, pw) ==
    /\ AdminAt(r)
    /\ SetPassword(n, pw)
    /\ Goes(r, Idle)
    /\ UNCHANGED <<tokens, revoked, now, web, loggedOut, leaving>>

-----------------------------------------------------------------------------

AnyUser(r) ==
    \/ Rehash(r) \/ Issue(r) \/ Logout(r)
    \/ \E t \in DOMAIN tokens : Authenticate(r, t)
    \/ \E pw \in Passwords : CheckOldPassword(r, pw) \/ ChangePassword(r, pw)
    \/ \E n \in DOMAIN users, pw \in Passwords : Login(r, n, pw)

AnyAdmin(r) ==
    \/ \E x \in Names : CheckNewName(r, x)
    \/ \E pw \in Passwords, role \in Roles : CreateUser(r, pw, role)
    \/ \E n \in DOMAIN users, role \in Roles : UpdateUserRole(r, n, role)
    \/ \E n \in DOMAIN users : DeactivateUser(r, n)
    \/ \E n \in DOMAIN users, pw \in Passwords : ResetPassword(r, n, pw)

Next ==
    \/ EnsureDefaultAdmin \/ StartRefused \/ PurgeExpiredJti \/ Stop \/ Tick
    \/ \E r \in Requests : AnyUser(r) \/ AnyAdmin(r)

Spec == Init /\ [][Next]_vars

-----------------------------------------------------------------------------
(* Properties *)

\* API.md on logout: a token that was logged out is never accepted again, over the purge of
\* the revocation at a restart and at the very second of its expiry.
LoggedOutRefused == \A t \in loggedOut : ~Accepted(t)

\* The password that opens an account is the one last set by its user or an administrator,
\* unless a login that had read an old hash was about to store its own then.
PasswordIsLastSet == \A n \in DOMAIN users \ overtaken : users[n].pw = lastSet[n]

\* Deactivation ends logins: only one that had read the row before gets its token.
DeactivatedLogsInNoMore ==
    \A r \in Requests \ leaving : LoggingIn(r) => Active(req[r].user)

\* deactivate_user refuses the own account as a protection against lock-out.  It protects as
\* far as the token tells the truth: the last active administrator goes only by a change of
\* role, or by the hand of somebody who is no longer one himself.
Administers(n) == Active(n) /\ users[n].role = "admin"
SomebodyAdministers == \E n \in DOMAIN users : Administers(n)

LastAdminGone == SomebodyAdministers /\ ~SomebodyAdministers'

LockoutExplained ==
    [][LastAdminGone =>
          \E r \in Requests :
             /\ AdminAt(r)
             /\ \/ \E n \in DOMAIN users : users'[n].role # users[n].role
                \/ ~Administers(tokens[req[r].token].user)]_vars

-----------------------------------------------------------------------------
(* The inductive invariant *)

\* Requests speak of users and tokens that exist.
Refers(r) ==
    /\ LoggingIn(r) \/ req[r].at = "change" => req[r].user \in DOMAIN users
    /\ req[r].at = "granted" => req[r].token \in DOMAIN tokens

RefersInv == \A r \in Requests : Refers(r)

\* Only a login that read an old hash stores one, and unless it was overtaken, of the same password.
RehashInv ==
    \A r \in Requests : req[r].at = "rehash" =>
       /\ req[r].legacy
       /\ req[r].user \in overtaken \/ req[r].pw = lastSet[req[r].user]

\* All that holds between two statements of the requests, strong enough to carry itself on.
AccountsIInv ==
    /\ TypeOK /\ RefersInv /\ RehashInv
    /\ LoggedOutRefused /\ PasswordIsLastSet /\ DeactivatedLogsInNoMore
=============================================================================
