--------------------------- MODULE AccountsProofs ---------------------------
(***************************************************************************)
(* Proofs about Accounts: its inductive invariant, the safety properties   *)
(* that it carries, and how the last administrator can go.                 *)
(***************************************************************************)
EXTENDS Accounts, SequenceTheorems, TLAPS

-----------------------------------------------------------------------------
(* What the steps do to requests and users *)

LEMMA GoesFacts ==
    ASSUME req \in [Requests -> ReqStates], NEW r \in Requests, NEW s \in ReqStates, Goes(r, s)
    PROVE  /\ req' \in [Requests -> ReqStates]
           /\ req'[r] = s
           /\ \A q \in Requests \ {r} : req'[q] = req[q]
BY DEF Goes

LEMMA LoginStateFacts ==
    ASSUME NEW s \in ReqStates, s.at \in {"rehash", "issue"}
    PROVE  /\ s \in LoginStates
           /\ [s EXCEPT !.at = "issue"] \in LoginStates
           /\ [s EXCEPT !.at = "issue"].at = "issue"
           /\ [s EXCEPT !.at = "issue"].user = s.user
<1>1. s \in LoginStates
  BY DEF ReqStates, LoginStates, Idle
<1> QED
  BY <1>1 DEF LoginStates

\* A step that keeps the rows in their places keeps what the requests speak of.
Keeps ==
    /\ users' \in Seq(Users) /\ lastSet' \in Seq(Passwords)
    /\ Len(lastSet') = Len(users')
    /\ DOMAIN users \subseteq DOMAIN users'

LEMMA AddUserFacts ==
    ASSUME TypeOK, NEW x \in Names, NEW pw \in Passwords, NEW role \in Roles,
           AddUser(x, pw, role)
    PROVE  /\ Keeps
           /\ DOMAIN users' = DOMAIN users \cup {Len(users) + 1}
           /\ users'[Len(users) + 1].pw = pw
           /\ lastSet'[Len(users) + 1] = pw
           /\ \A n \in DOMAIN users : users'[n] = users[n] /\ lastSet'[n] = lastSet[n]
<1> DEFINE u == [name |-> x, pw |-> pw, legacy |-> FALSE, role |-> role, active |-> TRUE]
<1>1. u \in Users /\ users \in Seq(Users) /\ lastSet \in Seq(Passwords) /\ Len(lastSet) = Len(users)
  BY DEF Users, TypeOK
<1>2. users' = Append(users, u) /\ lastSet' = Append(lastSet, pw)
  BY DEF AddUser
<1>3. u.pw = pw
  OBVIOUS
<1> HIDE DEF u
<1>4. DOMAIN users = 1 .. Len(users) /\ DOMAIN lastSet = 1 .. Len(users) /\ Len(users) \in Nat
  BY <1>1, LenProperties
<1>5. users' \in Seq(Users) /\ Len(users') = Len(users) + 1 /\ users'[Len(users) + 1] = u
      /\ \A n \in 1 .. Len(users) : users'[n] = users[n]
  BY <1>1, <1>2, AppendProperties
<1>6. lastSet' \in Seq(Passwords) /\ Len(lastSet') = Len(users) + 1 /\ lastSet'[Len(users) + 1] = pw
      /\ \A n \in 1 .. Len(users) : lastSet'[n] = lastSet[n]
  BY <1>1, <1>2, AppendProperties
<1>7. DOMAIN users' = 1 .. Len(users) + 1
  BY <1>5, LenProperties
<1> QED
  BY <1>3, <1>4, <1>5, <1>6, <1>7 DEF Keeps

LEMMA UpdateKeeps ==
    ASSUME TypeOK, NEW n \in DOMAIN users, NEW u \in Users,
           users' = [users EXCEPT ![n] = u],
           lastSet' \in Seq(Passwords), Len(lastSet') = Len(lastSet)
    PROVE  Keeps /\ DOMAIN users' = DOMAIN users
<1>1. users \in Seq(Users) /\ Len(lastSet) = Len(users)
  BY DEF TypeOK
<1>2. users' \in Seq(Users) /\ Len(users') = Len(users) /\ DOMAIN users' = DOMAIN users
  BY <1>1, ExceptSeq
<1> QED
  BY <1>1, <1>2 DEF Keeps

LEMMA SetPasswordFacts ==
    ASSUME TypeOK, NEW n \in DOMAIN users, NEW pw \in Passwords, SetPassword(n, pw)
    PROVE  /\ Keeps /\ DOMAIN users' = DOMAIN users
           /\ users'[n].pw = pw /\ lastSet'[n] = pw
           /\ users'[n].active = users[n].active /\ users'[n].role = users[n].role
           /\ \A m \in DOMAIN users \ {n} : users'[m] = users[m] /\ lastSet'[m] = lastSet[m]
           /\ overtaken' \subseteq DOMAIN users
<1> DEFINE u == [users[n] EXCEPT !.pw = pw, !.legacy = FALSE]
<1>1. users \in Seq(Users) /\ lastSet \in Seq(Passwords) /\ Len(lastSet) = Len(users)
      /\ overtaken \subseteq DOMAIN users
  BY DEF TypeOK
<1>2. DOMAIN users = 1 .. Len(users) /\ DOMAIN lastSet = 1 .. Len(users)
  BY <1>1, LenProperties
<1>3. users[n] \in Users
  BY <1>1, ElementOfSeq, <1>2
<1>4. u \in Users /\ u.pw = pw /\ u.active = users[n].active /\ u.role = users[n].role
  BY <1>3 DEF Users
<1>5. users' = [users EXCEPT ![n] = u]
  BY <1>1, <1>2 DEF SetPassword
<1>6. lastSet' = [lastSet EXCEPT ![n] = pw]
  BY DEF SetPassword
<1> HIDE DEF u
<1>7. lastSet' \in Seq(Passwords) /\ Len(lastSet') = Len(lastSet)
  BY <1>1, <1>2, <1>6, ExceptSeq
<1>8. Keeps /\ DOMAIN users' = DOMAIN users
  BY <1>4, <1>5, <1>7, UpdateKeeps
<1>9. users'[n] = u /\ \A m \in DOMAIN users \ {n} : users'[m] = users[m]
  BY <1>1, <1>2, <1>5
<1>10. lastSet'[n] = pw /\ \A m \in DOMAIN users \ {n} : lastSet'[m] = lastSet[m]
  BY <1>1, <1>2, <1>6
<1>11. overtaken' \subseteq DOMAIN users
  BY <1>1 DEF SetPassword
<1> QED
  BY <1>4, <1>8, <1>9, <1>10, <1>11

LEMMA RehashFacts ==
    ASSUME TypeOK, RefersInv, NEW r \in Requests, Rehash(r)
    PROVE  /\ req[r] \in LoginStates /\ req[r].user \in DOMAIN users
           /\ Keeps /\ DOMAIN users' = DOMAIN users
           /\ users'[req[r].user].pw = req[r].pw
           /\ users'[req[r].user].active = users[req[r].user].active
           /\ users'[req[r].user].role = users[req[r].user].role
           /\ \A m \in DOMAIN users \ {req[r].user} : users'[m] = users[m]
           /\ req' \in [Requests -> ReqStates]
           /\ req'[r].at = "issue" /\ req'[r].user = req[r].user
           /\ \A q \in Requests \ {r} : req'[q] = req[q]
<1> DEFINE n == req[r].user
           pw == req[r].pw
           u == [users[n] EXCEPT !.pw = pw, !.legacy = FALSE]
           s == [req[r] EXCEPT !.at = "issue"]
<1>1. /\ users \in Seq(Users) /\ lastSet \in Seq(Passwords)
      /\ lastSet' = lastSet /\ Len(lastSet) = Len(users)
      /\ req \in [Requests -> ReqStates] /\ req[r].at = "rehash"
  BY DEF TypeOK, Rehash, At
<1>2. req[r] \in LoginStates /\ s \in LoginStates /\ s.at = "issue" /\ s.user = n
  BY <1>1, LoginStateFacts
<1>3. n \in DOMAIN users /\ pw \in Passwords
  BY <1>1, <1>2 DEF RefersInv, Refers, LoggingIn, LoginStates
<1>4. DOMAIN users = 1 .. Len(users)
  BY <1>1, LenProperties
<1>5. users[n] \in Users
  BY <1>1, <1>3, <1>4, ElementOfSeq
<1>6. u \in Users /\ u.pw = pw /\ u.active = users[n].active /\ u.role = users[n].role
  BY <1>3, <1>5 DEF Users
<1>7. users' = [users EXCEPT ![n] = u]
  BY <1>1, <1>3, <1>4 DEF Rehash
<1>8. Goes(r, s) /\ s \in ReqStates
  BY <1>2 DEF Rehash, ReqStates
<1> HIDE DEF s, u
<1>9. req' \in [Requests -> ReqStates] /\ req'[r] = s /\ \A q \in Requests \ {r} : req'[q] = req[q]
  BY <1>1, <1>8, GoesFacts
<1>10. Keeps /\ DOMAIN users' = DOMAIN users
  BY <1>1, <1>3, <1>6, <1>7, UpdateKeeps
<1>11. users'[n] = u /\ \A m \in DOMAIN users \ {n} : users'[m] = users[m]
  BY <1>1, <1>3, <1>4, <1>7
<1> QED
  BY <1>2, <1>3, <1>6, <1>9, <1>10, <1>11

LEMMA DeactivateFacts ==
    ASSUME TypeOK, NEW r \in Requests, NEW n \in DOMAIN users, DeactivateUser(r, n)
    PROVE  /\ Keeps /\ DOMAIN users' = DOMAIN users
           /\ users'[n].pw = users[n].pw /\ users'[n].role = users[n].role
           /\ \A m \in DOMAIN users \ {n} : users'[m] = users[m]
<1> DEFINE u == [users[n] EXCEPT !.active = FALSE]
<1>1. users \in Seq(Users) /\ lastSet \in Seq(Passwords) /\ lastSet' = lastSet
  BY DEF TypeOK, DeactivateUser
<1>2. DOMAIN users = 1 .. Len(users)
  BY <1>1, LenProperties
<1>3. users[n] \in Users
  BY <1>1, <1>2, ElementOfSeq
<1>4. u \in Users /\ u.pw = users[n].pw /\ u.role = users[n].role
  BY <1>3 DEF Users
<1>5. users' = [users EXCEPT ![n] = u]
  BY <1>1, <1>2 DEF DeactivateUser
<1> HIDE DEF u
<1>6. Keeps /\ DOMAIN users' = DOMAIN users
  BY <1>1, <1>4, <1>5, UpdateKeeps
<1>7. users'[n] = u /\ \A m \in DOMAIN users \ {n} : users'[m] = users[m]
  BY <1>1, <1>2, <1>5
<1> QED
  BY <1>4, <1>6, <1>7

LEMMA UpdateRoleFacts ==
    ASSUME TypeOK, NEW r \in Requests, NEW n \in DOMAIN users, NEW role \in Roles,
           UpdateUserRole(r, n, role)
    PROVE  /\ Keeps /\ DOMAIN users' = DOMAIN users
           /\ users'[n].pw = users[n].pw /\ users'[n].active = users[n].active
           /\ \A m \in DOMAIN users \ {n} : users'[m] = users[m]
<1> DEFINE u == [users[n] EXCEPT !.role = role]
<1>1. users \in Seq(Users) /\ lastSet \in Seq(Passwords) /\ lastSet' = lastSet
  BY DEF TypeOK, UpdateUserRole
<1>2. DOMAIN users = 1 .. Len(users)
  BY <1>1, LenProperties
<1>3. users[n] \in Users
  BY <1>1, <1>2, ElementOfSeq
<1>4. u \in Users /\ u.pw = users[n].pw /\ u.active = users[n].active
  BY <1>3 DEF Users
<1>5. users' = [users EXCEPT ![n] = u]
  BY <1>1, <1>2 DEF UpdateUserRole
<1> HIDE DEF u
<1>6. Keeps /\ DOMAIN users' = DOMAIN users
  BY <1>1, <1>4, <1>5, UpdateKeeps
<1>7. users'[n] = u /\ \A m \in DOMAIN users \ {n} : users'[m] = users[m]
  BY <1>1, <1>2, <1>5
<1> QED
  BY <1>4, <1>6, <1>7

-----------------------------------------------------------------------------
(* Types, and what the requests speak of *)

LEMMA StillTyped ==
    ASSUME TypeOK, Keeps, tokens' = tokens,
           revoked' \subseteq DOMAIN tokens, loggedOut' \subseteq DOMAIN tokens,
           now' \in Nat, web' \in {"down", "starting", "up"},
           req' \in [Requests -> ReqStates],
           overtaken' \subseteq DOMAIN users, leaving' \subseteq Requests
    PROVE  TypeOK'
BY DEF TypeOK, Keeps

LEMMA StillRefers ==
    ASSUME RefersInv, DOMAIN users \subseteq DOMAIN users', DOMAIN tokens \subseteq DOMAIN tokens',
           \A q \in Requests : req'[q] = req[q] \/ Refers(q)'
    PROVE  RefersInv'
BY DEF RefersInv, Refers, LoggingIn

LEMMA SameUsersKeep ==
    ASSUME TypeOK, UNCHANGED <<users, lastSet>>
    PROVE  Keeps
BY DEF TypeOK, Keeps

LEMMA IdleFacts ==
    /\ Idle \in ReqStates
    /\ Idle.at = "idle"
BY DEF Idle, ReqStates

\* A step of request r that leaves it idle and issues no token.
LEMMA DoneTyped ==
    ASSUME TypeOK, RefersInv, Keeps, tokens' = tokens,
           NEW r \in Requests, Goes(r, Idle),
           revoked' \subseteq DOMAIN tokens, loggedOut' \subseteq DOMAIN tokens,
           UNCHANGED <<now, web>>,
           overtaken' \subseteq DOMAIN users, leaving' \subseteq Requests
    PROVE  TypeOK' /\ RefersInv'
<1>1. /\ req' \in [Requests -> ReqStates]
      /\ req'[r] = Idle
      /\ \A q \in Requests \ {r} : req'[q] = req[q]
  BY IdleFacts, GoesFacts DEF TypeOK
<1>2. TypeOK'
  <2>1. now' \in Nat /\ web' \in {"down", "starting", "up"}
    BY DEF TypeOK
  <2> QED
    BY <1>1, <2>1, StillTyped
<1>3. \A q \in Requests : req'[q] = req[q] \/ Refers(q)'
  BY <1>1, IdleFacts DEF Refers, LoggingIn
<1>4. RefersInv'
  BY <1>3, StillRefers DEF Keeps
<1> QED
  BY <1>2, <1>4

\* A step of request r that changes only what it does next.
LEMMA MovedTyped ==
    ASSUME TypeOK, RefersInv, NEW r \in Requests, NEW s \in ReqStates, Goes(r, s),
           UNCHANGED <<users, tokens, revoked, now, web, loggedOut, lastSet, overtaken, leaving>>,
           s.at \in {"rehash", "issue", "change"} => s.user \in DOMAIN users,
           s.at = "granted" => s.token \in DOMAIN tokens
    PROVE  TypeOK' /\ RefersInv'
<1>1. /\ req' \in [Requests -> ReqStates]
      /\ req'[r] = s
      /\ \A q \in Requests \ {r} : req'[q] = req[q]
  BY GoesFacts DEF TypeOK
<1>2. TypeOK'
  BY <1>1 DEF TypeOK
<1>3. \A q \in Requests : req'[q] = req[q] \/ Refers(q)'
  BY <1>1 DEF Refers, LoggingIn
<1>4. RefersInv'
  BY <1>3, StillRefers
<1> QED
  BY <1>2, <1>4

LEMMA WebTypes ==
    ASSUME TypeOK, RefersInv, EnsureDefaultAdmin \/ PurgeExpiredJti \/ Stop \/ Tick
    PROVE  TypeOK' /\ RefersInv'
<1>1. CASE EnsureDefaultAdmin
  <2>1. Keeps
    <3>1. CASE SomebodyActive
      BY <1>1, <3>1, SameUsersKeep DEF EnsureDefaultAdmin
    <3>2. CASE ~SomebodyActive
      BY <1>1, <3>2, AddUserFacts, AccountsAssumption
         DEF EnsureDefaultAdmin, AccountsAssumption, Roles
    <3> QED
      BY <3>1, <3>2
  <2>2. UNCHANGED <<tokens, revoked, now, req, loggedOut, overtaken, leaving>> /\ web' = "starting"
    BY <1>1 DEF EnsureDefaultAdmin
  <2>3. TypeOK'
    BY <2>1, <2>2 DEF TypeOK, Keeps
  <2>4. RefersInv'
    BY <2>1, <2>2, StillRefers DEF Keeps
  <2> QED
    BY <2>3, <2>4
<1>2. CASE PurgeExpiredJti
  <2>1. TypeOK'
    BY <1>2 DEF TypeOK, PurgeExpiredJti
  <2>2. RefersInv'
    BY <1>2, StillRefers DEF PurgeExpiredJti
  <2> QED
    BY <2>1, <2>2
<1>3. CASE Stop
  <2>1. TypeOK'
    BY <1>3, IdleFacts DEF TypeOK, Stop
  <2>2. \A q \in Requests : Refers(q)'
    BY <1>3, IdleFacts DEF Stop, Refers, LoggingIn
  <2> QED
    BY <2>1, <2>2 DEF RefersInv
<1>4. CASE Tick
  <2>1. TypeOK'
    BY <1>4 DEF TypeOK, Tick
  <2>2. RefersInv'
    BY <1>4, StillRefers DEF Tick
  <2> QED
    BY <2>1, <2>2
<1> QED
  BY <1>1, <1>2, <1>3, <1>4

LEMMA UserTypes ==
    ASSUME TypeOK, RefersInv, NEW r \in Requests, AnyUser(r)
    PROVE  TypeOK' /\ RefersInv'
<1> USE DEF TypeOK
<1>1. CASE Rehash(r)
  <2>1. /\ Keeps /\ DOMAIN users' = DOMAIN users
        /\ req[r].user \in DOMAIN users
        /\ req' \in [Requests -> ReqStates]
        /\ req'[r].at = "issue" /\ req'[r].user = req[r].user
        /\ \A q \in Requests \ {r} : req'[q] = req[q]
    BY <1>1, RehashFacts
  <2>2. UNCHANGED <<tokens, revoked, now, web, loggedOut, lastSet, overtaken, leaving>>
    BY <1>1 DEF Rehash
  <2>3. TypeOK'
    BY <2>1, <2>2, StillTyped
  <2>4. \A q \in Requests : req'[q] = req[q] \/ Refers(q)'
    BY <2>1 DEF Refers, LoggingIn
  <2>5. RefersInv'
    BY <2>1, <2>2, <2>4, StillRefers
  <2> QED
    BY <2>3, <2>5
<1>2. CASE Issue(r)
  <2>1. req[r] \in LoginStates /\ req[r].user \in DOMAIN users /\ users \in Seq(Users)
    BY <1>2, LoginStateFacts DEF Issue, At, RefersInv, Refers, LoggingIn
  <2>2. NewToken(req[r]) \in [user : Nat, role : Roles, exp : Nat]
        /\ NewToken(req[r]).user \in DOMAIN users
    BY <2>1, AccountsAssumption DEF NewToken, LoginStates, AccountsAssumption
  <2>3. tokens' = Append(tokens, NewToken(req[r]))
    BY <1>2 DEF Issue
  <2>4. /\ tokens' \in Seq([user : Nat, role : Roles, exp : Nat])
        /\ DOMAIN tokens \subseteq DOMAIN tokens'
        /\ \A t \in DOMAIN tokens' : tokens'[t].user \in DOMAIN users
    <3> HIDE DEF NewToken
    <3>1. /\ tokens' \in Seq([user : Nat, role : Roles, exp : Nat])
          /\ Len(tokens') = Len(tokens) + 1
          /\ tokens'[Len(tokens) + 1] = NewToken(req[r])
          /\ \A t \in 1 .. Len(tokens) : tokens'[t] = tokens[t]
      BY <2>2, <2>3, AppendProperties
    <3>2. DOMAIN tokens = 1 .. Len(tokens) /\ Len(tokens) \in Nat
          /\ DOMAIN tokens' = 1 .. Len(tokens) + 1
      BY <3>1, LenProperties
    <3>3. \A t \in DOMAIN tokens : tokens[t].user \in DOMAIN users
      OBVIOUS
    <3>4. ASSUME NEW t \in DOMAIN tokens' PROVE tokens'[t].user \in DOMAIN users
      <4>1. CASE t \in DOMAIN tokens
        BY <3>1, <3>2, <3>3, <4>1
      <4>2. CASE t = Len(tokens) + 1
        BY <2>2, <3>1, <4>2
      <4> QED
        BY <3>2, <3>4, <4>1, <4>2
    <3> HIDE DEF TypeOK
    <3>5. DOMAIN tokens \subseteq DOMAIN tokens'
      BY <3>2
    <3> QED
      BY <3>1, <3>4, <3>5
  <2>5. /\ req' \in [Requests -> ReqStates]
        /\ req'[r] = Idle
        /\ \A q \in Requests \ {r} : req'[q] = req[q]
    BY <1>2, IdleFacts, GoesFacts DEF Issue
  <2>6. UNCHANGED <<users, revoked, now, web, loggedOut, lastSet, overtaken>>
        /\ leaving' \subseteq Requests
    BY <1>2 DEF Issue
  <2>7. TypeOK'
    BY <2>4, <2>5, <2>6
  <2>8. \A q \in Requests : req'[q] = req[q] \/ Refers(q)'
    BY <2>5, IdleFacts DEF Refers, LoggingIn
  <2>9. RefersInv'
    BY <2>4, <2>6, <2>8, StillRefers
  <2> QED
    BY <2>7, <2>9
<1>3. CASE Logout(r)
  <2>1. req[r].token \in DOMAIN tokens
    BY <1>3 DEF Logout, At, RefersInv, Refers
  <2>2. revoked' \subseteq DOMAIN tokens /\ loggedOut' \subseteq DOMAIN tokens
    BY <1>3, <2>1 DEF Logout
  <2>3. UNCHANGED <<users, tokens, now, web, lastSet, overtaken, leaving>> /\ Goes(r, Idle)
    BY <1>3 DEF Logout
  <2>4. Keeps
    BY <2>3, SameUsersKeep
  <2>5. overtaken' \subseteq DOMAIN users /\ leaving' \subseteq Requests
    BY <2>3
  <2> QED
    BY <2>2, <2>3, <2>4, <2>5, DoneTyped
<1>4. ASSUME NEW t \in DOMAIN tokens, Authenticate(r, t)
      PROVE  TypeOK' /\ RefersInv'
  <2> DEFINE s == [at |-> "granted", token |-> t]
  <2>1. s \in ReqStates /\ s.at = "granted" /\ s.token = t
    BY <1>4, LenProperties DEF ReqStates
  <2>2. Goes(r, s)
        /\ UNCHANGED <<users, tokens, revoked, now, web, loggedOut, lastSet, overtaken, leaving>>
    BY <1>4 DEF Authenticate
  <2> HIDE DEF s
  <2> QED
    BY <1>4, <2>1, <2>2, MovedTyped
<1>5. ASSUME NEW pw \in Passwords, CheckOldPassword(r, pw)
      PROVE  TypeOK' /\ RefersInv'
  <2> DEFINE n == tokens[req[r].token].user
             s == [at |-> "change", user |-> n]
  <2>1. req[r].token \in DOMAIN tokens
    BY <1>5 DEF CheckOldPassword, At, RefersInv, Refers
  <2>2. n \in DOMAIN users /\ n \in Nat
    BY <2>1, LenProperties
  <2>3. s \in ReqStates /\ s.at = "change" /\ s.user = n
    BY <2>2 DEF ReqStates
  <2>4. Goes(r, s)
        /\ UNCHANGED <<users, tokens, revoked, now, web, loggedOut, lastSet, overtaken, leaving>>
    BY <1>5 DEF CheckOldPassword
  <2> HIDE DEF s
  <2> QED
    BY <2>2, <2>3, <2>4, MovedTyped
<1>6. ASSUME NEW pw \in Passwords, ChangePassword(r, pw)
      PROVE  TypeOK' /\ RefersInv'
  <2>1. req[r].user \in DOMAIN users
    BY <1>6 DEF ChangePassword, At, RefersInv, Refers
  <2>2. SetPassword(req[r].user, pw) /\ Goes(r, Idle)
        /\ UNCHANGED <<tokens, revoked, now, web, loggedOut, leaving>>
    BY <1>6 DEF ChangePassword
  <2>3. Keeps /\ overtaken' \subseteq DOMAIN users
    BY <2>1, <2>2, SetPasswordFacts
  <2> QED
    BY <2>2, <2>3, DoneTyped
<1>7. ASSUME NEW n \in DOMAIN users, NEW pw \in Passwords, Login(r, n, pw)
      PROVE  TypeOK' /\ RefersInv'
  <2> DEFINE s == [at |-> IF NeedsRehash(users[n]) THEN "rehash" ELSE "issue", user |-> n,
                   role |-> users[n].role, pw |-> pw, legacy |-> users[n].legacy]
  <2>1. n \in Nat /\ users[n] \in Users
    BY <1>7, LenProperties, ElementOfSeq
  <2>2. s \in ReqStates /\ s.at \in {"rehash", "issue"} /\ s.user = n
    BY <1>7, <2>1 DEF ReqStates, LoginStates, Users
  <2>3. Goes(r, s)
        /\ UNCHANGED <<users, tokens, revoked, now, web, loggedOut, lastSet, overtaken, leaving>>
    BY <1>7 DEF Login
  <2> HIDE DEF s
  <2> QED
    BY <1>7, <2>2, <2>3, MovedTyped
<1> HIDE DEF TypeOK
<1>8. CASE \E t \in DOMAIN tokens : Authenticate(r, t)
  BY <1>4, <1>8
<1>9. CASE \E pw \in Passwords : CheckOldPassword(r, pw) \/ ChangePassword(r, pw)
  BY <1>5, <1>6, <1>9
<1>10. CASE \E n \in DOMAIN users, pw \in Passwords : Login(r, n, pw)
  BY <1>7, <1>10
<1> QED
  BY <1>1, <1>2, <1>3, <1>8, <1>9, <1>10 DEF AnyUser

LEMMA NewNameFacts ==
    ASSUME TypeOK, NEW r \in Requests, NEW pw, NEW role, CreateUser(r, pw, role)
    PROVE  req[r].name \in Names
<1>1. req[r] \in ReqStates
  BY DEF TypeOK
<1>2. req[r].at = "insert"
  BY DEF CreateUser, At
<1>3. req[r] \notin LoginStates
  BY <1>2 DEF LoginStates
<1>4. req[r] # Idle
  BY <1>2, IdleFacts
<1>5. req[r] \in [at : {"granted"}, token : Nat] \cup [at : {"change"}, user : Nat]
                \cup [at : {"insert"}, name : Names]
  BY <1>1, <1>3, <1>4 DEF ReqStates
<1> QED
  BY <1>2, <1>5

LEMMA AdminTypes ==
    ASSUME TypeOK, RefersInv, NEW r \in Requests, AnyAdmin(r)
    PROVE  TypeOK' /\ RefersInv'
<1> USE DEF TypeOK
<1>1. ASSUME NEW x \in Names, CheckNewName(r, x)
      PROVE  TypeOK' /\ RefersInv'
  <2> DEFINE s == [at |-> "insert", name |-> x]
  <2>1. s \in ReqStates /\ s.at = "insert"
    BY <1>1 DEF ReqStates
  <2>2. Goes(r, s)
        /\ UNCHANGED <<users, tokens, revoked, now, web, loggedOut, lastSet, overtaken, leaving>>
    BY <1>1 DEF CheckNewName
  <2> HIDE DEF s
  <2> QED
    BY <2>1, <2>2, MovedTyped
<1>2. ASSUME NEW pw \in Passwords, NEW role \in Roles, CreateUser(r, pw, role)
      PROVE  TypeOK' /\ RefersInv'
  <2>1. req[r].name \in Names
    BY <1>2, NewNameFacts
  <2>2. Keeps
    <3>1. CASE Taken(req[r].name)
      BY <1>2, <3>1, SameUsersKeep DEF CreateUser
    <3>2. CASE ~Taken(req[r].name)
      BY <1>2, <2>1, <3>2, AddUserFacts DEF CreateUser
    <3> QED
      BY <3>1, <3>2
  <2>3. UNCHANGED <<tokens, revoked, now, web, loggedOut, overtaken, leaving>> /\ Goes(r, Idle)
    BY <1>2 DEF CreateUser
  <2> QED
    BY <2>2, <2>3, DoneTyped
<1>3. ASSUME NEW n \in DOMAIN users, NEW role \in Roles, UpdateUserRole(r, n, role)
      PROVE  TypeOK' /\ RefersInv'
  <2>1. UNCHANGED <<tokens, revoked, now, web, loggedOut, lastSet, overtaken, leaving>>
        /\ Goes(r, Idle)
    BY <1>3 DEF UpdateUserRole
  <2> QED
    BY <1>3, <2>1, UpdateRoleFacts, DoneTyped
<1>4. ASSUME NEW n \in DOMAIN users, DeactivateUser(r, n)
      PROVE  TypeOK' /\ RefersInv'
  <2>1. UNCHANGED <<tokens, revoked, now, web, loggedOut, lastSet, overtaken>>
        /\ Goes(r, Idle) /\ leaving' \subseteq Requests
    BY <1>4 DEF DeactivateUser
  <2> QED
    BY <1>4, <2>1, DeactivateFacts, DoneTyped
<1>5. ASSUME NEW n \in DOMAIN users, NEW pw \in Passwords, ResetPassword(r, n, pw)
      PROVE  TypeOK' /\ RefersInv'
  <2>1. SetPassword(n, pw) /\ Goes(r, Idle)
        /\ UNCHANGED <<tokens, revoked, now, web, loggedOut, leaving>>
    BY <1>5 DEF ResetPassword
  <2>2. Keeps /\ overtaken' \subseteq DOMAIN users
    BY <1>5, <2>1, SetPasswordFacts
  <2> QED
    BY <2>1, <2>2, DoneTyped
<1> HIDE DEF TypeOK
<1> QED
  BY <1>1, <1>2, <1>3, <1>4, <1>5 DEF AnyAdmin

LEMMA TypesKept ==
    ASSUME TypeOK, RefersInv, [Next]_vars
    PROVE  TypeOK' /\ RefersInv'
<1>1. CASE UNCHANGED vars
  <2>1. TypeOK'
    BY <1>1 DEF TypeOK, vars
  <2>2. RefersInv'
    BY <1>1, StillRefers DEF vars
  <2> QED
    BY <2>1, <2>2
<1>2. CASE Next
  BY <1>1, <1>2, WebTypes, UserTypes, AdminTypes DEF Next, StartRefused
<1> QED
  BY <1>1, <1>2

-----------------------------------------------------------------------------
(* Revocation *)

LEMMA SessionFrame ==
    ASSUME [Next]_vars
    PROVE  \/ UNCHANGED <<tokens, revoked, now, loggedOut>>
           \/ PurgeExpiredJti \/ Tick
           \/ \E r \in Requests : Issue(r) \/ Logout(r)
BY DEF Next, vars, EnsureDefaultAdmin, StartRefused, Stop, AnyUser, AnyAdmin, Rehash, Authenticate,
       CheckOldPassword, ChangePassword, Login, CheckNewName, CreateUser, UpdateUserRole,
       DeactivateUser, ResetPassword

LEMMA TokenFacts ==
    ASSUME TypeOK, NEW t \in loggedOut
    PROVE  t \in DOMAIN tokens /\ now \in Nat /\ tokens[t].exp \in Nat
<1> DEFINE T == [user : Nat, role : Roles, exp : Nat]
<1>1. tokens \in Seq(T) /\ t \in DOMAIN tokens /\ now \in Nat
  BY DEF TypeOK
<1>2. tokens[t] \in T
  BY <1>1, ElementOfSeq, LenProperties
<1> QED
  BY <1>1, <1>2

LEMMA RefusalKept ==
    ASSUME TypeOK, RefersInv, LoggedOutRefused, [Next]_vars
    PROVE  LoggedOutRefused'
<1>1. CASE UNCHANGED <<tokens, revoked, now, loggedOut>>
  BY <1>1 DEF LoggedOutRefused, Accepted
<1>2. CASE PurgeExpiredJti
  <2> SUFFICES ASSUME NEW t \in loggedOut
               PROVE  ~Accepted(t)'
    BY <1>2 DEF LoggedOutRefused, PurgeExpiredJti
  <2>1. t \in DOMAIN tokens /\ now \in Nat /\ tokens[t].exp \in Nat
    BY TokenFacts
  <2> QED
    BY <1>2, <2>1 DEF LoggedOutRefused, Accepted, PurgeExpiredJti, Purged
<1>3. CASE Tick
  <2> SUFFICES ASSUME NEW t \in loggedOut
               PROVE  ~Accepted(t)'
    BY <1>3 DEF LoggedOutRefused, Tick
  <2>1. t \in DOMAIN tokens /\ now \in Nat /\ tokens[t].exp \in Nat
    BY TokenFacts
  <2> QED
    BY <1>3, <2>1 DEF LoggedOutRefused, Accepted, Tick
<1>4. ASSUME NEW r \in Requests, Issue(r)
      PROVE  LoggedOutRefused'
  <2> DEFINE u == NewToken(req[r])
  <2>1. tokens' = Append(tokens, u) /\ UNCHANGED <<revoked, now, loggedOut>>
    BY <1>4 DEF Issue
  <2> HIDE DEF u
  <2>2. \A t \in DOMAIN tokens : tokens'[t] = tokens[t]
    BY <2>1, AppendProperties, LenProperties DEF TypeOK
  <2>3. loggedOut \subseteq DOMAIN tokens
    BY DEF TypeOK
  <2> QED
    BY <2>1, <2>2, <2>3 DEF LoggedOutRefused, Accepted
<1>5. ASSUME NEW r \in Requests, Logout(r)
      PROVE  LoggedOutRefused'
  BY <1>5 DEF LoggedOutRefused, Accepted, Logout
<1> QED
  BY <1>1, <1>2, <1>3, <1>4, <1>5, SessionFrame

-----------------------------------------------------------------------------
(* Passwords *)

\* No request comes to be about to store a hash.
NoNewRehash == \A q \in Requests : req'[q] = req[q] \/ req'[q].at # "rehash"

LEMMA MovesAreNoRehash ==
    ASSUME TypeOK, NEW r \in Requests,
           \/ Issue(r) \/ Logout(r)
           \/ \E t \in DOMAIN tokens : Authenticate(r, t)
           \/ \E pw \in Passwords : CheckOldPassword(r, pw)
           \/ \E x \in Names : CheckNewName(r, x)
    PROVE  NoNewRehash /\ UNCHANGED <<users, lastSet, overtaken>>
<1>1. UNCHANGED <<users, lastSet, overtaken>>
  BY DEF Issue, Logout, Authenticate, CheckOldPassword, CheckNewName
<1>2. ASSUME Issue(r) \/ Logout(r)
      PROVE  NoNewRehash
  BY <1>2, IdleFacts DEF Issue, Logout, Goes, NoNewRehash, TypeOK
<1>3. ASSUME NEW t \in DOMAIN tokens, Authenticate(r, t)
      PROVE  NoNewRehash
  BY <1>3 DEF Authenticate, Goes, NoNewRehash, TypeOK
<1>4. ASSUME NEW pw \in Passwords, CheckOldPassword(r, pw)
      PROVE  NoNewRehash
  BY <1>4 DEF CheckOldPassword, Goes, NoNewRehash, TypeOK
<1>5. ASSUME NEW x \in Names, CheckNewName(r, x)
      PROVE  NoNewRehash
  BY <1>5 DEF CheckNewName, Goes, NoNewRehash, TypeOK
<1> QED
  BY <1>1, <1>2, <1>3, <1>4, <1>5

LEMMA PasswordFrame ==
    ASSUME TypeOK, [Next]_vars
    PROVE  \/ NoNewRehash /\ UNCHANGED <<users, lastSet, overtaken>>
           \/ EnsureDefaultAdmin
           \/ \E r \in Requests :
                 \/ Rehash(r)
                 \/ \E pw \in Passwords : ChangePassword(r, pw)
                 \/ \E n \in DOMAIN users, pw \in Passwords : Login(r, n, pw)
                 \/ \E pw \in Passwords, role \in Roles : CreateUser(r, pw, role)
                 \/ \E n \in DOMAIN users, role \in Roles : UpdateUserRole(r, n, role)
                 \/ \E n \in DOMAIN users : DeactivateUser(r, n)
                 \/ \E n \in DOMAIN users, pw \in Passwords : ResetPassword(r, n, pw)
<1>1. Stop => NoNewRehash /\ UNCHANGED <<users, lastSet, overtaken>>
  BY IdleFacts DEF Stop, NoNewRehash
<1>2. StartRefused \/ PurgeExpiredJti \/ Tick \/ UNCHANGED vars =>
         NoNewRehash /\ UNCHANGED <<users, lastSet, overtaken>>
  BY DEF StartRefused, PurgeExpiredJti, Tick, vars, NoNewRehash
<1> QED
  BY <1>1, <1>2, MovesAreNoRehash DEF Next, AnyUser, AnyAdmin

PasswordInv == RehashInv /\ PasswordIsLastSet

\* A login about to store its hash goes on as before if its user's password stays, or is overtaken.
LEMMA StillRehashes ==
    ASSUME TypeOK, RefersInv, RehashInv, NoNewRehash,
           overtaken \subseteq overtaken',
           \A n \in DOMAIN users \ overtaken' : lastSet'[n] = lastSet[n]
    PROVE  RehashInv'
BY DEF RehashInv, RefersInv, Refers, LoggingIn, NoNewRehash

LEMMA SetPasswordKeeps ==
    ASSUME TypeOK, RefersInv, PasswordInv, NEW r \in Requests, NEW n \in DOMAIN users,
           NEW pw \in Passwords, SetPassword(n, pw), Goes(r, Idle)
    PROVE  PasswordInv'
<1>1. /\ DOMAIN users' = DOMAIN users
      /\ users'[n].pw = pw /\ lastSet'[n] = pw
      /\ \A m \in DOMAIN users \ {n} : users'[m] = users[m] /\ lastSet'[m] = lastSet[m]
  BY SetPasswordFacts
<1>2. /\ req'[r] = Idle
      /\ \A q \in Requests \ {r} : req'[q] = req[q]
  BY IdleFacts, GoesFacts DEF TypeOK
<1>3. overtaken \subseteq overtaken'
  BY DEF SetPassword
<1>4. ASSUME NEW q \in Requests, req'[q].at = "rehash"
      PROVE  req'[q].legacy /\ (req'[q].user \in overtaken' \/ req'[q].pw = lastSet'[req'[q].user])
  <2>1. req'[q] = req[q] /\ req[q].at = "rehash"
    BY <1>2, <1>4, IdleFacts
  <2>2. req[q].user \in DOMAIN users /\ req[q].legacy
        /\ (req[q].user \in overtaken \/ req[q].pw = lastSet[req[q].user])
    BY <2>1 DEF PasswordInv, RehashInv, RefersInv, Refers, LoggingIn
  <2>3. CASE req[q].user = n
    BY <2>1, <2>2, <2>3 DEF SetPassword, Overtakes
  <2>4. CASE req[q].user # n
    BY <1>1, <1>3, <2>1, <2>2, <2>4
  <2> QED
    BY <2>3, <2>4
<1>5. PasswordIsLastSet'
  BY <1>1, <1>3 DEF PasswordInv, PasswordIsLastSet
<1> QED
  BY <1>4, <1>5 DEF PasswordInv, RehashInv

\* No password changes but with its lastSet, and rows may be added.
LEMMA StillLastSet ==
    ASSUME TypeOK, RefersInv, PasswordInv, NoNewRehash, overtaken' = overtaken,
           DOMAIN users \subseteq DOMAIN users',
           \A n \in DOMAIN users : users'[n].pw = users[n].pw /\ lastSet'[n] = lastSet[n],
           \A n \in DOMAIN users' \ DOMAIN users : users'[n].pw = lastSet'[n]
    PROVE  PasswordInv'
<1>1. RehashInv'
  BY StillRehashes DEF PasswordInv
<1>2. PasswordIsLastSet'
  BY DEF PasswordInv, PasswordIsLastSet
<1> QED
  BY <1>1, <1>2 DEF PasswordInv

LEMMA DoneIsNoRehash ==
    ASSUME TypeOK, NEW r \in Requests, Goes(r, Idle)
    PROVE  NoNewRehash
BY IdleFacts DEF Goes, NoNewRehash, TypeOK

LEMMA AddUserKeepsPasswords ==
    ASSUME TypeOK, RefersInv, PasswordInv, NoNewRehash, overtaken' = overtaken,
           NEW x \in Names, NEW pw \in Passwords, NEW role \in Roles, AddUser(x, pw, role)
    PROVE  PasswordInv'
<1>1. /\ DOMAIN users' = DOMAIN users \cup {Len(users) + 1}
      /\ users'[Len(users) + 1].pw = pw
      /\ lastSet'[Len(users) + 1] = pw
      /\ \A n \in DOMAIN users : users'[n] = users[n] /\ lastSet'[n] = lastSet[n]
  BY AddUserFacts
<1>2. DOMAIN users \subseteq DOMAIN users'
  BY <1>1
<1>3. \A n \in DOMAIN users : users'[n].pw = users[n].pw /\ lastSet'[n] = lastSet[n]
  BY <1>1
<1>4. \A n \in DOMAIN users' \ DOMAIN users : users'[n].pw = lastSet'[n]
  BY <1>1
<1> QED
  BY <1>2, <1>3, <1>4, StillLastSet

LEMMA PasswordsKept ==
    ASSUME TypeOK, RefersInv, PasswordInv, [Next]_vars
    PROVE  PasswordInv'
<1>1. CASE NoNewRehash /\ UNCHANGED <<users, lastSet, overtaken>>
  BY <1>1, StillLastSet
<1>2. CASE EnsureDefaultAdmin
  <2>1. NoNewRehash /\ overtaken' = overtaken
    BY <1>2 DEF EnsureDefaultAdmin, NoNewRehash
  <2>2. CASE SomebodyActive
    BY <1>2, <2>1, <2>2, StillLastSet DEF EnsureDefaultAdmin
  <2>3. CASE ~SomebodyActive
    BY <1>2, <2>1, <2>3, AddUserKeepsPasswords, AccountsAssumption
       DEF EnsureDefaultAdmin, AccountsAssumption, Roles
  <2> QED
    BY <2>2, <2>3
<1>3. ASSUME NEW r \in Requests, Rehash(r)
      PROVE  PasswordInv'
  <2> DEFINE n == req[r].user
  <2>1. /\ n \in DOMAIN users /\ DOMAIN users' = DOMAIN users
        /\ users'[n].pw = req[r].pw
        /\ \A m \in DOMAIN users \ {n} : users'[m] = users[m]
        /\ req'[r].at = "issue"
        /\ \A q \in Requests \ {r} : req'[q] = req[q]
    BY <1>3, RehashFacts
  <2>2. UNCHANGED <<lastSet, overtaken>> /\ req[r].at = "rehash"
    BY <1>3 DEF Rehash, At
  <2>3. n \in overtaken \/ req[r].pw = lastSet[n]
    BY <2>2 DEF PasswordInv, RehashInv
  <2>4. NoNewRehash
    BY <2>1 DEF NoNewRehash
  <2>5. RehashInv'
    BY <2>2, <2>4, StillRehashes DEF PasswordInv
  <2>6. PasswordIsLastSet'
    BY <2>1, <2>2, <2>3 DEF PasswordInv, PasswordIsLastSet
  <2> QED
    BY <2>5, <2>6 DEF PasswordInv
<1>4. ASSUME NEW r \in Requests, NEW pw \in Passwords, ChangePassword(r, pw)
      PROVE  PasswordInv'
  <2>1. req[r].user \in DOMAIN users
    BY <1>4 DEF ChangePassword, At, RefersInv, Refers
  <2> QED
    BY <1>4, <2>1, SetPasswordKeeps DEF ChangePassword
<1>5. ASSUME NEW r \in Requests, NEW n \in DOMAIN users, NEW pw \in Passwords, Login(r, n, pw)
      PROVE  PasswordInv'
  <2> DEFINE s == [at |-> IF NeedsRehash(users[n]) THEN "rehash" ELSE "issue", user |-> n,
                   role |-> users[n].role, pw |-> pw, legacy |-> users[n].legacy]
  <2>1. Goes(r, s) /\ users[n].pw = pw /\ UNCHANGED <<users, lastSet, overtaken>>
    BY <1>5 DEF Login
  <2>2. s.at = "rehash" => s.legacy
    BY DEF NeedsRehash
  <2>3. s.user = n /\ s.pw = pw
    OBVIOUS
  <2> HIDE DEF s
  <2>4. req'[r] = s /\ \A q \in Requests \ {r} : req'[q] = req[q]
    BY <2>1 DEF Goes, TypeOK
  <2>5. n \in overtaken \/ pw = lastSet[n]
    BY <1>5, <2>1 DEF PasswordInv, PasswordIsLastSet
  <2>6. ASSUME NEW q \in Requests, req'[q].at = "rehash"
        PROVE  req'[q].legacy /\ (req'[q].user \in overtaken' \/ req'[q].pw = lastSet'[req'[q].user])
    <3>1. CASE q = r
      BY <2>1, <2>2, <2>3, <2>4, <2>5, <2>6, <3>1
    <3>2. CASE q # r
      <4>1. req'[q] = req[q] /\ req[q].at = "rehash"
        BY <2>4, <2>6, <3>2
      <4>2. req[q].legacy /\ (req[q].user \in overtaken \/ req[q].pw = lastSet[req[q].user])
        BY <4>1 DEF PasswordInv, RehashInv
      <4> QED
        BY <2>1, <4>1, <4>2
    <3> QED
      BY <3>1, <3>2
  <2>7. PasswordIsLastSet'
    BY <2>1 DEF PasswordInv, PasswordIsLastSet
  <2> QED
    BY <2>6, <2>7 DEF PasswordInv, RehashInv
<1>6. ASSUME NEW r \in Requests, NEW pw \in Passwords, NEW role \in Roles, CreateUser(r, pw, role)
      PROVE  PasswordInv'
  <2>1. NoNewRehash /\ overtaken' = overtaken
    BY <1>6, DoneIsNoRehash DEF CreateUser
  <2>2. req[r].name \in Names
    BY <1>6, NewNameFacts
  <2>3. CASE Taken(req[r].name)
    BY <1>6, <2>1, <2>3, StillLastSet DEF CreateUser
  <2>4. CASE ~Taken(req[r].name)
    BY <1>6, <2>1, <2>2, <2>4, AddUserKeepsPasswords DEF CreateUser
  <2> QED
    BY <2>3, <2>4
<1>7. ASSUME NEW r \in Requests, NEW n \in DOMAIN users, NEW role \in Roles,
             UpdateUserRole(r, n, role)
      PROVE  PasswordInv'
  <2>1. NoNewRehash /\ UNCHANGED <<lastSet, overtaken>>
    BY <1>7, DoneIsNoRehash DEF UpdateUserRole
  <2>2. DOMAIN users' = DOMAIN users /\ \A m \in DOMAIN users : users'[m].pw = users[m].pw
    BY <1>7, UpdateRoleFacts
  <2> QED
    BY <2>1, <2>2, StillLastSet
<1>8. ASSUME NEW r \in Requests, NEW n \in DOMAIN users, DeactivateUser(r, n)
      PROVE  PasswordInv'
  <2>1. NoNewRehash /\ UNCHANGED <<lastSet, overtaken>>
    BY <1>8, DoneIsNoRehash DEF DeactivateUser
  <2>2. DOMAIN users' = DOMAIN users /\ \A m \in DOMAIN users : users'[m].pw = users[m].pw
    BY <1>8, DeactivateFacts
  <2> QED
    BY <2>1, <2>2, StillLastSet
<1>9. ASSUME NEW r \in Requests, NEW n \in DOMAIN users, NEW pw \in Passwords, ResetPassword(r, n, pw)
      PROVE  PasswordInv'
  BY <1>9, SetPasswordKeeps DEF ResetPassword
<1> QED
  BY <1>1, <1>2, <1>3, <1>4, <1>5, <1>6, <1>7, <1>8, <1>9, PasswordFrame

-----------------------------------------------------------------------------
(* Deactivation *)

\* No login begins, and nobody is deactivated.
LEMMA LoginsGoOn ==
    ASSUME TypeOK, RefersInv, DeactivatedLogsInNoMore, leaving' = leaving,
           \A q \in Requests : req'[q] = req[q] \/ ~LoggingIn(q)',
           \A n \in DOMAIN users : users[n].active => users'[n].active
    PROVE  DeactivatedLogsInNoMore'
<1> SUFFICES ASSUME NEW q \in Requests \ leaving, LoggingIn(q)'
             PROVE  Active(req[q].user)' /\ req'[q] = req[q]
  BY DEF DeactivatedLogsInNoMore
<1>1. req'[q] = req[q]
  OBVIOUS
<1>2. LoggingIn(q) /\ req[q].user \in DOMAIN users
  BY <1>1 DEF LoggingIn, RefersInv, Refers
<1> QED
  BY <1>1, <1>2 DEF DeactivatedLogsInNoMore, Active

LEMMA DoneIsNoLogin ==
    ASSUME TypeOK, NEW r \in Requests, Goes(r, Idle)
    PROVE  \A q \in Requests : req'[q] = req[q] \/ ~LoggingIn(q)'
BY IdleFacts DEF Goes, TypeOK, LoggingIn

LEMMA WebDeactivation ==
    ASSUME TypeOK, RefersInv, DeactivatedLogsInNoMore,
           EnsureDefaultAdmin \/ StartRefused \/ PurgeExpiredJti \/ Stop \/ Tick \/ UNCHANGED vars
    PROVE  DeactivatedLogsInNoMore'
<1>1. CASE EnsureDefaultAdmin
  <2>1. UNCHANGED <<req, leaving>>
    BY <1>1 DEF EnsureDefaultAdmin
  <2>2. \A n \in DOMAIN users : users'[n] = users[n]
    <3>1. CASE SomebodyActive
      BY <1>1, <3>1 DEF EnsureDefaultAdmin
    <3>2. CASE ~SomebodyActive
      BY <1>1, <3>2, AddUserFacts, AccountsAssumption
         DEF EnsureDefaultAdmin, AccountsAssumption, Roles
    <3> QED
      BY <3>1, <3>2
  <2> QED
    BY <2>1, <2>2, LoginsGoOn
<1>2. CASE StartRefused \/ PurgeExpiredJti \/ Tick \/ UNCHANGED vars
  <2>1. UNCHANGED <<users, req, leaving>>
    BY <1>2 DEF StartRefused, PurgeExpiredJti, Tick, vars
  <2> QED
    BY <2>1, LoginsGoOn
<1>3. CASE Stop
  BY <1>3, IdleFacts DEF Stop, DeactivatedLogsInNoMore, LoggingIn
<1> QED
  BY <1>1, <1>2, <1>3

LEMMA UserDeactivation ==
    ASSUME TypeOK, RefersInv, DeactivatedLogsInNoMore, NEW r \in Requests, AnyUser(r)
    PROVE  DeactivatedLogsInNoMore'
<1>1. CASE Rehash(r)
  <2>1. /\ req[r].user \in DOMAIN users
        /\ users'[req[r].user].active = users[req[r].user].active
        /\ \A m \in DOMAIN users \ {req[r].user} : users'[m] = users[m]
        /\ req'[r].user = req[r].user
        /\ \A q \in Requests \ {r} : req'[q] = req[q]
    BY <1>1, RehashFacts
  <2>2. leaving' = leaving /\ LoggingIn(r)
    BY <1>1 DEF Rehash, At, LoggingIn
  <2>3. ASSUME NEW q \in Requests \ leaving, LoggingIn(q)'
        PROVE  Active(req[q].user)' /\ req'[q].user = req[q].user
    <3>1. LoggingIn(q) /\ req'[q].user = req[q].user
      BY <2>1, <2>2, <2>3 DEF LoggingIn
    <3>2. req[q].user \in DOMAIN users /\ users[req[q].user].active
      BY <3>1 DEF RefersInv, Refers, DeactivatedLogsInNoMore, Active
    <3>3. req'[q].user = req[q].user /\ users'[req[q].user].active
      BY <2>1, <3>1, <3>2
    <3> QED
      BY <2>1, <3>1, <3>2, <3>3 DEF Active
  <2> QED
    BY <2>2, <2>3 DEF DeactivatedLogsInNoMore, Active
<1>2. CASE Issue(r)
  <2>1. users' = users /\ leaving' = leaving \ {r}
        /\ req'[r] = Idle /\ \A q \in Requests \ {r} : req'[q] = req[q]
    BY <1>2 DEF Issue, Goes, TypeOK
  <2> QED
    BY <2>1, IdleFacts DEF DeactivatedLogsInNoMore, LoggingIn, Active
<1>3. CASE Logout(r)
  BY <1>3, DoneIsNoLogin, LoginsGoOn DEF Logout
<1>4. ASSUME NEW t \in DOMAIN tokens, Authenticate(r, t)
      PROVE  DeactivatedLogsInNoMore'
  <2>1. \A q \in Requests : req'[q] = req[q] \/ ~LoggingIn(q)'
    BY <1>4 DEF Authenticate, Goes, LoggingIn, TypeOK
  <2> QED
    BY <1>4, <2>1, LoginsGoOn DEF Authenticate
<1>5. ASSUME NEW pw \in Passwords, CheckOldPassword(r, pw)
      PROVE  DeactivatedLogsInNoMore'
  <2>1. \A q \in Requests : req'[q] = req[q] \/ ~LoggingIn(q)'
    BY <1>5 DEF CheckOldPassword, Goes, LoggingIn, TypeOK
  <2> QED
    BY <1>5, <2>1, LoginsGoOn DEF CheckOldPassword
<1>6. ASSUME NEW pw \in Passwords, ChangePassword(r, pw)
      PROVE  DeactivatedLogsInNoMore'
  <2>1. req[r].user \in DOMAIN users
    BY <1>6 DEF ChangePassword, At, RefersInv, Refers
  <2>2. \A n \in DOMAIN users : users'[n].active = users[n].active
    BY <1>6, <2>1, SetPasswordFacts DEF ChangePassword
  <2>3. leaving' = leaving /\ Goes(r, Idle)
    BY <1>6 DEF ChangePassword
  <2> QED
    BY <2>2, <2>3, DoneIsNoLogin, LoginsGoOn
<1>7. ASSUME NEW n \in DOMAIN users, NEW pw \in Passwords, Login(r, n, pw)
      PROVE  DeactivatedLogsInNoMore'
  <2>1. /\ users' = users /\ leaving' = leaving /\ users[n].active
        /\ req'[r].user = n /\ \A q \in Requests \ {r} : req'[q] = req[q]
    BY <1>7 DEF Login, Found, Goes, TypeOK
  <2> QED
    BY <2>1 DEF DeactivatedLogsInNoMore, LoggingIn, Active
<1>8. CASE \E t \in DOMAIN tokens : Authenticate(r, t)
  BY <1>4, <1>8
<1>9. CASE \E pw \in Passwords : CheckOldPassword(r, pw) \/ ChangePassword(r, pw)
  BY <1>5, <1>6, <1>9
<1>10. CASE \E n \in DOMAIN users, pw \in Passwords : Login(r, n, pw)
  BY <1>7, <1>10
<1> QED
  BY <1>1, <1>2, <1>3, <1>8, <1>9, <1>10 DEF AnyUser

LEMMA AdminDeactivation ==
    ASSUME TypeOK, RefersInv, DeactivatedLogsInNoMore, NEW r \in Requests, AnyAdmin(r)
    PROVE  DeactivatedLogsInNoMore'
<1>1. ASSUME NEW x \in Names, CheckNewName(r, x)
      PROVE  DeactivatedLogsInNoMore'
  <2>1. \A q \in Requests : req'[q] = req[q] \/ ~LoggingIn(q)'
    BY <1>1 DEF CheckNewName, Goes, LoggingIn, TypeOK
  <2> QED
    BY <1>1, <2>1, LoginsGoOn DEF CheckNewName
<1>2. ASSUME NEW pw \in Passwords, NEW role \in Roles, CreateUser(r, pw, role)
      PROVE  DeactivatedLogsInNoMore'
  <2>1. leaving' = leaving /\ Goes(r, Idle)
    BY <1>2 DEF CreateUser
  <2>2. req[r].name \in Names
    BY <1>2, NewNameFacts
  <2>3. \A n \in DOMAIN users : users'[n] = users[n]
    <3>1. CASE Taken(req[r].name)
      BY <1>2, <3>1 DEF CreateUser
    <3>2. CASE ~Taken(req[r].name)
      BY <1>2, <2>2, <3>2, AddUserFacts DEF CreateUser
    <3> QED
      BY <3>1, <3>2
  <2> QED
    BY <2>1, <2>3, DoneIsNoLogin, LoginsGoOn
<1>3. ASSUME NEW n \in DOMAIN users, NEW role \in Roles, UpdateUserRole(r, n, role)
      PROVE  DeactivatedLogsInNoMore'
  <2>1. leaving' = leaving /\ Goes(r, Idle)
    BY <1>3 DEF UpdateUserRole
  <2>2. \A m \in DOMAIN users : users'[m].active = users[m].active
    BY <1>3, UpdateRoleFacts
  <2> QED
    BY <2>1, <2>2, DoneIsNoLogin, LoginsGoOn
<1>4. ASSUME NEW n \in DOMAIN users, DeactivateUser(r, n)
      PROVE  DeactivatedLogsInNoMore'
  <2>1. \A m \in DOMAIN users \ {n} : users'[m] = users[m]
    BY <1>4, DeactivateFacts
  <2>2. leaving' = leaving \cup {q \in Requests : LoggingIn(q) /\ req[q].user = n}
        /\ Goes(r, Idle)
    BY <1>4 DEF DeactivateUser
  <2>3. ASSUME NEW q \in Requests, q \notin leaving', LoggingIn(q)'
        PROVE  users'[req'[q].user].active
    <3>1. req'[q] = req[q]
      BY <2>2, <2>3, DoneIsNoLogin
    <3>2. LoggingIn(q) /\ req[q].user \in DOMAIN users
      BY <2>3, <3>1 DEF LoggingIn, RefersInv, Refers
    <3>3. q \notin leaving /\ req[q].user # n
      BY <2>2, <2>3, <3>2
    <3>4. users[req[q].user].active
      BY <3>2, <3>3 DEF DeactivatedLogsInNoMore, Active
    <3> QED
      BY <2>1, <3>1, <3>2, <3>3, <3>4
  <2> QED
    BY <2>3 DEF DeactivatedLogsInNoMore, Active
<1>5. ASSUME NEW n \in DOMAIN users, NEW pw \in Passwords, ResetPassword(r, n, pw)
      PROVE  DeactivatedLogsInNoMore'
  <2>1. leaving' = leaving /\ Goes(r, Idle)
    BY <1>5 DEF ResetPassword
  <2>2. \A m \in DOMAIN users : users'[m].active = users[m].active
    BY <1>5, SetPasswordFacts DEF ResetPassword
  <2> QED
    BY <2>1, <2>2, DoneIsNoLogin, LoginsGoOn
<1> QED
  BY <1>1, <1>2, <1>3, <1>4, <1>5 DEF AnyAdmin

-----------------------------------------------------------------------------
(* The last administrator *)

\* Nobody is deactivated or changes his role.
Stay ==
    /\ DOMAIN users \subseteq DOMAIN users'
    /\ \A n \in DOMAIN users :
          users'[n].active = users[n].active /\ users'[n].role = users[n].role

LEMMA AdministratorsStay ==
    ASSUME Stay
    PROVE  ~LastAdminGone
BY DEF Stay, LastAdminGone, SomebodyAdministers, Administers, Active

LEMMA RowsStay ==
    ASSUME TypeOK, RefersInv,
           \/ EnsureDefaultAdmin \/ StartRefused \/ PurgeExpiredJti \/ Stop \/ Tick
           \/ \E r \in Requests :
                 \/ AnyUser(r)
                 \/ \E x \in Names : CheckNewName(r, x)
                 \/ \E pw \in Passwords, role \in Roles : CreateUser(r, pw, role)
                 \/ \E n \in DOMAIN users, pw \in Passwords : ResetPassword(r, n, pw)
    PROVE  Stay
<1>0. ASSUME users' = users PROVE Stay
  BY <1>0 DEF Stay
<1>1. ASSUME NEW x \in Names, NEW pw \in Passwords, NEW role \in Roles, AddUser(x, pw, role)
      PROVE  Stay
  <2>1. DOMAIN users \subseteq DOMAIN users' /\ \A n \in DOMAIN users : users'[n] = users[n]
    BY <1>1, AddUserFacts DEF Keeps
  <2> QED
    BY <2>1 DEF Stay
<1>2. ASSUME NEW n \in DOMAIN users, NEW pw \in Passwords, SetPassword(n, pw)
      PROVE  Stay
  <2>1. /\ DOMAIN users' = DOMAIN users
        /\ users'[n].active = users[n].active /\ users'[n].role = users[n].role
        /\ \A m \in DOMAIN users \ {n} : users'[m] = users[m]
    BY <1>2, SetPasswordFacts
  <2> QED
    BY <2>1 DEF Stay
<1>3. ASSUME NEW r \in Requests, Rehash(r)
      PROVE  Stay
  <2> DEFINE n == req[r].user
  <2>1. /\ DOMAIN users' = DOMAIN users
        /\ users'[n].active = users[n].active /\ users'[n].role = users[n].role
        /\ \A m \in DOMAIN users \ {n} : users'[m] = users[m]
    BY <1>3, RehashFacts
  <2> QED
    BY <2>1 DEF Stay
<1>4. CASE EnsureDefaultAdmin
  <2>1. CASE SomebodyActive
    BY <1>0, <1>4, <2>1 DEF EnsureDefaultAdmin
  <2>2. CASE ~SomebodyActive
    <3>1. AddUser(AdminName, DefaultPassword, "admin")
      BY <1>4, <2>2 DEF EnsureDefaultAdmin
    <3>2. AdminName \in Names /\ DefaultPassword \in Passwords /\ "admin" \in Roles
      BY AccountsAssumption DEF AccountsAssumption, Roles
    <3> QED
      BY <1>1, <3>1, <3>2
  <2> QED
    BY <2>1, <2>2
<1>5. CASE StartRefused \/ PurgeExpiredJti \/ Stop \/ Tick
  BY <1>0, <1>5 DEF StartRefused, PurgeExpiredJti, Stop, Tick, vars
<1>6. ASSUME NEW r \in Requests, AnyUser(r)
      PROVE  Stay
  <2>1. CASE Rehash(r)
    BY <1>3, <2>1
  <2>2. ASSUME NEW pw \in Passwords, ChangePassword(r, pw)
        PROVE  Stay
    <3>1. req[r].user \in DOMAIN users /\ SetPassword(req[r].user, pw)
      BY <2>2 DEF ChangePassword, At, RefersInv, Refers
    <3> QED
      BY <1>2, <3>1
  <2>3. CASE users' = users
    BY <1>0, <2>3
  <2> QED
    BY <1>6, <2>1, <2>2, <2>3 DEF AnyUser, Issue, Logout, Authenticate, CheckOldPassword, Login
<1>7. ASSUME NEW r \in Requests, NEW x \in Names, CheckNewName(r, x)
      PROVE  Stay
  BY <1>0, <1>7 DEF CheckNewName
<1>8. ASSUME NEW r \in Requests, NEW pw \in Passwords, NEW role \in Roles, CreateUser(r, pw, role)
      PROVE  Stay
  <2>1. req[r].name \in Names
    BY <1>8, NewNameFacts
  <2>2. CASE Taken(req[r].name)
    BY <1>0, <1>8, <2>2 DEF CreateUser
  <2>3. CASE ~Taken(req[r].name)
    <3>1. AddUser(req[r].name, pw, role)
      BY <1>8, <2>3 DEF CreateUser
    <3> QED
      BY <1>1, <2>1, <3>1
  <2> QED
    BY <2>2, <2>3
<1>9. ASSUME NEW r \in Requests, NEW n \in DOMAIN users, NEW pw \in Passwords, ResetPassword(r, n, pw)
      PROVE  Stay
  BY <1>2, <1>9 DEF ResetPassword
<1>10. ASSUME NEW r \in Requests,
              \/ AnyUser(r)
              \/ \E x \in Names : CheckNewName(r, x)
              \/ \E pw \in Passwords, role \in Roles : CreateUser(r, pw, role)
              \/ \E n \in DOMAIN users, pw \in Passwords : ResetPassword(r, n, pw)
       PROVE  Stay
  BY <1>6, <1>7, <1>8, <1>9, <1>10
<1> QED
  BY <1>4, <1>5, <1>10

LEMMA LockoutStep ==
    ASSUME TypeOK, RefersInv, [Next]_vars, LastAdminGone
    PROVE  \E r \in Requests :
              /\ AdminAt(r)
              /\ \/ \E n \in DOMAIN users : users'[n].role # users[n].role
                 \/ ~Administers(tokens[req[r].token].user)
<1>1. ASSUME UNCHANGED vars PROVE FALSE
  BY <1>1, AdministratorsStay DEF vars, Stay
<1>2. PICK r \in Requests :
         \/ \E n \in DOMAIN users, role \in Roles : UpdateUserRole(r, n, role)
         \/ \E n \in DOMAIN users : DeactivateUser(r, n)
  BY <1>1, RowsStay, AdministratorsStay DEF Next, AnyAdmin
<1>3. ASSUME NEW n \in DOMAIN users, NEW role \in Roles, UpdateUserRole(r, n, role)
      PROVE  AdminAt(r) /\ \E m \in DOMAIN users : users'[m].role # users[m].role
  <2>1. /\ DOMAIN users' = DOMAIN users
        /\ \A m \in DOMAIN users : users'[m].active = users[m].active
    BY <1>3, UpdateRoleFacts
  <2> QED
    BY <1>3, <2>1, AdministratorsStay DEF UpdateUserRole, Stay
<1>4. ASSUME NEW n \in DOMAIN users, DeactivateUser(r, n)
      PROVE  AdminAt(r) /\ ~Administers(tokens[req[r].token].user)
  <2> DEFINE m == tokens[req[r].token].user
  <2>1. AdminAt(r) /\ m # n
    BY <1>4 DEF DeactivateUser, OtherTarget
  <2>2. m \in DOMAIN users
    BY <2>1 DEF AdminAt, At, RefersInv, Refers, TypeOK
  <2>3. DOMAIN users' = DOMAIN users /\ users'[m] = users[m]
    BY <1>4, <2>1, <2>2, DeactivateFacts
  <2>4. ~Administers(m)
    BY <2>2, <2>3 DEF LastAdminGone, SomebodyAdministers, Administers, Active
  <2> QED
    BY <2>1, <2>4
<1> QED
  BY <1>2, <1>3, <1>4

-----------------------------------------------------------------------------
(* Theorems *)

LEMMA AccountsInit ==
    ASSUME Init
    PROVE  AccountsIInv
<1>1. users \in Seq(Users)
  BY AccountsAssumption DEF Init, AccountsAssumption
<1>2. DOMAIN users = 1 .. Len(users) /\ Len(users) \in Nat
  BY <1>1, LenProperties
<1>3. \A n \in 1 .. Len(users) : users[n].pw \in Passwords
  <2> TAKE n \in 1 .. Len(users)
  <2>1. users[n] \in Users
    BY <1>1, <1>2, ElementOfSeq
  <2> QED
    BY <2>1 DEF Users
<1>4. lastSet = [n \in 1 .. Len(users) |-> users[n].pw]
  BY <1>2 DEF Init
<1>5. lastSet \in [1 .. Len(users) -> Passwords]
  BY <1>3, <1>4
<1>6. lastSet \in Seq(Passwords) /\ Len(lastSet) = Len(users)
  BY <1>2, <1>5, SeqDef, LenProperties
<1>7. TypeOK
  BY <1>1, <1>6, IdleFacts DEF Init, TypeOK
<1>8. RefersInv /\ RehashInv /\ DeactivatedLogsInNoMore
  BY IdleFacts DEF Init, RefersInv, Refers, RehashInv, DeactivatedLogsInNoMore, LoggingIn
<1>9. LoggedOutRefused /\ PasswordIsLastSet
  BY <1>2, <1>4 DEF Init, LoggedOutRefused, PasswordIsLastSet
<1> QED
  BY <1>7, <1>8, <1>9 DEF AccountsIInv

LEMMA AccountsStep ==
    ASSUME AccountsIInv, [Next]_vars
    PROVE  AccountsIInv'
<1> USE DEF AccountsIInv
<1>1. TypeOK' /\ RefersInv'
  BY TypesKept
<1>2. LoggedOutRefused'
  BY RefusalKept
<1>3. RehashInv' /\ PasswordIsLastSet'
  BY PasswordsKept DEF PasswordInv
<1>4. DeactivatedLogsInNoMore'
  BY WebDeactivation, UserDeactivation, AdminDeactivation DEF Next
<1> QED
  BY <1>1, <1>2, <1>3, <1>4

\* The invariant holds between any two statements of any number of requests, with stops and
\* restarts of the web application at every place.
THEOREM AccountsInvariantHolds == Spec => []AccountsIInv
<1>1. Init => AccountsIInv
  BY AccountsInit
<1>2. AccountsIInv /\ [Next]_vars => AccountsIInv'
  BY AccountsStep
<1> QED
  BY <1>1, <1>2, PTL DEF Spec

\* Types: rows, tokens and what the requests carry.
THEOREM AccountsTypeCorrect == Spec => []TypeOK
<1>1. AccountsIInv => TypeOK
  BY DEF AccountsIInv
<1> QED
  BY <1>1, AccountsInvariantHolds, PTL

\* A token that was logged out is refused for ever, whatever is purged when.
THEOREM LoggedOutIsRefused == Spec => []LoggedOutRefused
<1>1. AccountsIInv => LoggedOutRefused
  BY DEF AccountsIInv
<1> QED
  BY <1>1, AccountsInvariantHolds, PTL

\* An account opens with the password last set, unless a login that had read an old hash
\* overtook the change.
THEOREM PasswordsAreLastSet == Spec => []PasswordIsLastSet
<1>1. AccountsIInv => PasswordIsLastSet
  BY DEF AccountsIInv
<1> QED
  BY <1>1, AccountsInvariantHolds, PTL

\* Only logins that began before a deactivation complete after it.
THEOREM DeactivationEndsLogins == Spec => []DeactivatedLogsInNoMore
<1>1. AccountsIInv => DeactivatedLogsInNoMore
  BY DEF AccountsIInv
<1> QED
  BY <1>1, AccountsInvariantHolds, PTL

\* The last administrator goes only by a change of role, or by the hand of one whose token has
\* outlived his rights.
THEOREM LockoutIsExplained == Spec => LockoutExplained
<1>1. AccountsIInv /\ [Next]_vars =>
         [LastAdminGone =>
             \E r \in Requests :
                /\ AdminAt(r)
                /\ \/ \E n \in DOMAIN users : users'[n].role # users[n].role
                   \/ ~Administers(tokens[req[r].token].user)]_vars
  BY LockoutStep DEF AccountsIInv
<1> QED
  BY <1>1, AccountsInvariantHolds, PTL DEF Spec, LockoutExplained
=============================================================================
