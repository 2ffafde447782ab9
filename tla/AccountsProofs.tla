--------------------------- MODULE AccountsProofs ---------------------------
(***************************************************************************)
(* For any users, browsers, requests and bounds, whatever requests cross   *)
(* or stop: every account keeps a password of its own.                     *)
(*                                                                         *)
(* It is not inductive: that a new row belongs to nobody else needs every  *)
(* open row to have been numbered, and a change only closes the row it has *)
(* read because it opens another in the same commit (Inv).                 *)
(*                                                                         *)
(* With one request at a time, that a change of password ends the sessions *)
(* and that failures lock: AloneInv adds that what the request has read is *)
(* still true, and that what is owed to revocation is owed by a request    *)
(* under way.                                                              *)
(*                                                                         *)
(* Customers, in their own part at the end: while addresses stay, what a   *)
(* push has looked up is still its customer's when it links (LinksOK), so  *)
(* that no link is refused, no session is rolled back and no row of the    *)
(* log is lost. One at a time, a session reads the copies the table has    *)
(* (TurnsOK), and the copies Henrri has are all in the table or held by    *)
(* the push under way (CopiesOK).                                          *)
(***************************************************************************)
EXTENDS Accounts, Customers, TLAPS, FiniteSetTheorems, SequenceTheorems

AccountsOK(us) == us \in [Users -> Row]

PasswordsOK(us, op, n) ==
    /\ n \in 0 .. MaxPasswords
    /\ op \in [Users -> SUBSET (1 .. n)]
    /\ \A u \in Users : us[u].known => op[u] # {}
    /\ \A u \in Users : \A v \in Users \ {u} : op[u] \cap op[v] = {}

SessionsOK(ss, co) ==
    /\ ss \in Seq(Session) /\ Len(ss) <= MaxSessions
    /\ co \in [Browsers -> 0 .. Len(ss)]

RequestsOK(q) == q \in [Requests -> RequestRow]

Inv ==
    /\ AccountsOK(users)
    /\ PasswordsOK(users, open, passwords)
    /\ SessionsOK(sessions, cookie)
    /\ RequestsOK(request)
    /\ alone \in BOOLEAN

\* The bounds are numbers.
LEMMA BoundsAreNumbers == MaxPasswords \in Nat /\ MaxSessions \in Nat /\ MaxFailures \in Nat
BY AccountsAssumption

-----------------------------------------------------------------------------
(* The requests.                                                           *)

\* No request under way.
LEMMA IdleIsRequest == Idle \in RequestRow
BY DEF RequestRow

\* A request that is at a step has the fields of that step.
LEMMA AtStep ==
    ASSUME RequestsOK(request), NEW r \in Requests
    PROVE  /\ request[r] # Idle => request[r].user \in Users /\ request[r].seen \in Row
                                   /\ request[r].browser \in Browsers
           /\ request[r].step \in {"reset", "fail", "open", "locked", "change", "revoke"} =>
                 request[r].password \in PasswordRow /\ request[r] # Idle
           /\ request[r].step \in {"lock", "active"} => request[r] # Idle
BY DEF RequestsOK, RequestRow, Idle

\* A request that goes on to its next step keeps the rest.
LEMMA GoesOn ==
    ASSUME RequestsOK(request), NEW r \in Requests,
           request[r].step \in {"reset", "fail", "open", "locked", "change", "revoke"},
           NEW step \in {"reset", "fail", "open", "locked", "change", "revoke"},
           request' = Goes(r, step)
    PROVE  RequestsOK(request')
<1> DEFINE x == [request[r] EXCEPT !.step = step]
<1>1. request[r] \in [step : {"reset", "fail", "open", "locked", "change", "revoke"}, user : Users,
                      browser : Browsers, seen : Row, password : PasswordRow]
    BY DEF RequestsOK, RequestRow, Idle
<1>2. x \in [step : {"reset", "fail", "open", "locked", "change", "revoke"}, user : Users,
             browser : Browsers, seen : Row, password : PasswordRow]
    BY <1>1
<1>3. request' = [request EXCEPT ![r] = x]
    BY DEF Goes
<1> QED
    BY <1>2, <1>3 DEF RequestsOK, RequestRow

\* A request ends.
LEMMA Ends ==
    ASSUME RequestsOK(request), NEW r \in Requests, request' = Done(r)
    PROVE  RequestsOK(request')
BY IdleIsRequest DEF RequestsOK, Done

\* A request begins.
LEMMA Begins ==
    ASSUME RequestsOK(request), AccountsOK(users), NEW r \in Requests, NEW u \in Users,
           NEW b \in Browsers, NEW step, NEW p,
           \/ step \in {"reset", "fail", "change"} /\ p \in PasswordRow
           \/ step \in {"lock", "active"} /\ p = 0,
           request' = [request EXCEPT ![r] = Request(step, u, b, p)]
    PROVE  RequestsOK(request')
<1>1. users[u] \in Row
    BY DEF AccountsOK
<1>2. Request(step, u, b, p) \in RequestRow
    BY <1>1 DEF Request, RequestRow
<1> QED
    BY <1>2 DEF RequestsOK

-----------------------------------------------------------------------------
(* The accounts.                                                           *)

\* An open row is a password row.
LEMMA OpenIsPassword ==
    ASSUME Inv, NEW u \in Users, NEW p \in open[u]
    PROVE  p \in PasswordRow
BY BoundsAreNumbers DEF Inv, PasswordsOK, PasswordRow

\* Accounts that keep their names keep their passwords.
LEMMA SameNames ==
    ASSUME Inv, NEW u \in Users, NEW row \in Row, row.known = users[u].known,
           users' = [users EXCEPT ![u] = row], UNCHANGED <<open, passwords>>
    PROVE  AccountsOK(users') /\ PasswordsOK(users', open', passwords')
<1>1. \A v \in Users : users'[v].known = users[v].known
    BY DEF Inv, AccountsOK
<1> QED
    BY <1>1 DEF Inv, AccountsOK, PasswordsOK

\* A new row of one account, which may close others of it.
LEMMA NewPassword ==
    ASSUME Inv, NEW u \in Users, NEW kept \in SUBSET open[u],
           passwords < MaxPasswords, passwords' = passwords + 1,
           open' = [open EXCEPT ![u] = kept \union {passwords + 1}],
           \A v \in Users \ {u} : users'[v].known = users[v].known
    PROVE  PasswordsOK(users', open', passwords')
<1>1. /\ passwords \in 0 .. MaxPasswords /\ open \in [Users -> SUBSET (1 .. passwords)]
      /\ \A v \in Users : users[v].known => open[v] # {}
      /\ \A v \in Users : \A w \in Users \ {v} : open[v] \cap open[w] = {}
    BY DEF Inv, PasswordsOK
<1>2. passwords' \in 0 .. MaxPasswords
    BY <1>1, BoundsAreNumbers
<1>3. /\ open'[u] = kept \union {passwords + 1}
      /\ \A v \in Users \ {u} : open'[v] = open[v]
    BY <1>1
<1>4. \A v \in Users : passwords + 1 \notin open[v]
    BY <1>1
<1>5. open' \in [Users -> SUBSET (1 .. passwords')]
  <2>1. 1 .. passwords \subseteq 1 .. passwords' /\ passwords + 1 \in 1 .. passwords'
      BY <1>1
  <2> QED
      BY <1>1, <2>1
<1>6. \A v \in Users : users'[v].known => open'[v] # {}
    BY <1>1, <1>3
<1>7. \A v \in Users : \A w \in Users \ {v} : open'[v] \cap open'[w] = {}
    BY <1>1, <1>3, <1>4
<1> QED
    BY <1>2, <1>5, <1>6, <1>7 DEF PasswordsOK

\* The sessions of an account may end, with their number.
LEMMA RevokedOK ==
    ASSUME Inv, NEW u
    PROVE  Revoked(u) \in Seq(Session) /\ Len(Revoked(u)) = Len(sessions)
<1>1. sessions \in Seq(Session)
    BY DEF Inv, SessionsOK
<1>2. \A s \in 1 .. Len(sessions) :
         [sessions[s] EXCEPT !.over = @ \/ sessions[s].user = u] \in Session
  <2> TAKE s \in 1 .. Len(sessions)
  <2>1. sessions[s] \in Session
      BY <1>1
  <2>2. (sessions[s].over \/ sessions[s].user = u) \in BOOLEAN
      OBVIOUS
  <2> QED
      BY <2>1, <2>2 DEF Session
<1> DEFINE f == [s \in 1 .. Len(sessions) |->
                   [sessions[s] EXCEPT !.over = @ \/ sessions[s].user = u]]
<1>3. f = Revoked(u)
    BY <1>1 DEF Revoked
<1>4. f \in [1 .. Len(sessions) -> Session]
    BY <1>2
<1>5. Len(sessions) \in Nat
    BY <1>1
<1>6. f \in Seq(Session) /\ Len(f) = Len(sessions)
    BY <1>4, <1>5
<1> QED
    BY <1>3, <1>6

-----------------------------------------------------------------------------

\* Inv holds at first.
LEMMA InitInv == Init => Inv
<1> SUFFICES ASSUME Init PROVE Inv
    OBVIOUS
<1>1. PICK number \in [First -> 1 .. Cardinality(First)] :
        /\ \A u, v \in First : number[u] = number[v] => u = v
        /\ open = [u \in Users |-> IF u \in First THEN {number[u]} ELSE {}]
    BY DEF Init
<1>2. Cardinality(First) \in Nat /\ Cardinality(First) <= MaxPasswords
    BY AccountsAssumption, FS_CardinalityType
<1>3. AccountsOK(users)
    BY DEF Init, AccountsOK, Row, NewRow, NoRow
<1>4. \A u \in Users : users[u].known <=> u \in First
    BY DEF Init, NewRow, NoRow
<1>5. PasswordsOK(users, open, passwords)
  <2>1. passwords = Cardinality(First)
      BY DEF Init
  <2>2. passwords \in 0 .. MaxPasswords
      BY <1>2, <2>1, BoundsAreNumbers
  <2>3. \A u \in First : number[u] \in 1 .. passwords
      BY <2>1
  <2>4. open \in [Users -> SUBSET (1 .. passwords)]
      BY <1>1, <2>3
  <2>5. \A u \in Users : users[u].known => open[u] # {}
      BY <1>1, <1>4
  <2>6. \A u \in Users : \A v \in Users \ {u} : open[u] \cap open[v] = {}
      BY <1>1
  <2> QED
      BY <2>2, <2>4, <2>5, <2>6 DEF PasswordsOK
<1>6. SessionsOK(sessions, cookie)
    BY BoundsAreNumbers DEF Init, SessionsOK
<1>7. RequestsOK(request)
    BY IdleIsRequest DEF Init, RequestsOK
<1> QED
    BY <1>3, <1>5, <1>6, <1>7 DEF Inv, Init

\* Cookies name sessions, also after one is opened.
LEMMA CookiesOK ==
    ASSUME Inv, sessions' \in Seq(Session), Len(sessions') <= MaxSessions,
           Len(sessions) <= Len(sessions'),
           NEW b \in Browsers, NEW c \in 0 .. Len(sessions'),
           cookie' = [cookie EXCEPT ![b] = c] \/ cookie' = cookie
    PROVE  SessionsOK(sessions', cookie')
<1>1. Len(sessions) \in Nat /\ Len(sessions') \in Nat
    BY DEF Inv, SessionsOK
<1>2. 0 .. Len(sessions) \subseteq 0 .. Len(sessions')
    BY <1>1
<1> QED
    BY <1>2 DEF Inv, SessionsOK

\* Every step keeps Inv.
LEMMA StepInv == Inv /\ [Next]_vars => Inv'
<1> SUFFICES ASSUME Inv, [Next]_vars PROVE Inv'
    OBVIOUS
<1>type. /\ AccountsOK(users) /\ PasswordsOK(users, open, passwords)
         /\ SessionsOK(sessions, cookie) /\ RequestsOK(request)
         /\ users \in [Users -> Row] /\ open \in [Users -> SUBSET (1 .. passwords)]
         /\ sessions \in Seq(Session) /\ cookie \in [Browsers -> 0 .. Len(sessions)]
         /\ request \in [Requests -> RequestRow] /\ Len(sessions) \in Nat
         /\ Len(sessions) <= MaxSessions
         /\ alone' \in BOOLEAN
    BY DEF Inv, Next, vars, AccountsOK, PasswordsOK, SessionsOK, RequestsOK
<1>1. ASSUME NEW r \in Requests, NEW b \in Browsers, NEW u \in Users, BeginLogin(r, b, u)
      PROVE  Inv'
  <2>1. PICK right \in BOOLEAN, p \in open[u] :
          request' = [request EXCEPT ![r] = Request(IF right THEN "reset" ELSE "fail", u, b, p)]
      BY <1>1 DEF BeginLogin
  <2>2. p \in PasswordRow
      BY OpenIsPassword
  <2>3. RequestsOK(request')
      BY <1>type, <2>1, <2>2, Begins
  <2> QED
      BY <1>1, <1>type, <2>3 DEF BeginLogin, Inv
<1>2. ASSUME NEW r \in Requests, CommitReset(r)
      PROVE  Inv'
  <2> DEFINE u == request[r].user
             row == [users[u] EXCEPT !.failed = IF request[r].seen.failed = 0 THEN @ ELSE 0]
  <2>1. u \in Users /\ request[r].step = "reset"
      BY <1>2, <1>type, AtStep DEF CommitReset, At
  <2>2. users[u] \in Row
      BY <1>type, <2>1
  <2>3. row \in Row /\ row.known = users[u].known
      BY <2>2 DEF Row
  <2>4. users' = [users EXCEPT ![u] = row]
      BY <1>2 DEF CommitReset
  <2>5. AccountsOK(users') /\ PasswordsOK(users', open', passwords')
      BY <1>2, <2>1, <2>3, <2>4, SameNames DEF CommitReset
  <2>6. RequestsOK(request')
      BY <1>2, <1>type, <2>1, GoesOn DEF CommitReset
  <2> QED
      BY <1>2, <1>type, <2>5, <2>6 DEF CommitReset, Inv
<1>3. ASSUME NEW r \in Requests, OpenSession(r)
      PROVE  Inv'
  <2> DEFINE s == NewSession(request[r].user, request[r].password)
  <2>1. request[r].step = "open"
      BY <1>3 DEF OpenSession, At
  <2>2. /\ request[r].user \in Users /\ request[r].password \in PasswordRow
        /\ request[r].browser \in Browsers
      BY <1>type, <2>1, AtStep
  <2>3. s \in Session
      BY <2>2 DEF NewSession, Session
  <2>4. sessions' = Append(sessions, s) /\ Len(sessions) < MaxSessions
      BY <1>3 DEF OpenSession
  <2>5. /\ sessions' \in Seq(Session) /\ Len(sessions') = Len(sessions) + 1
        /\ Len(sessions') <= MaxSessions
      BY <1>type, <2>3, <2>4, BoundsAreNumbers
  <2>6. Len(sessions) + 1 \in 0 .. Len(sessions') /\ Len(sessions) <= Len(sessions')
      BY <1>type, <2>5
  <2>7. SessionsOK(sessions', cookie')
      BY <1>3, <2>2, <2>5, <2>6, CookiesOK DEF OpenSession
  <2>8. RequestsOK(request')
      BY <1>3, <1>type, Ends DEF OpenSession
  <2> QED
      BY <1>3, <1>type, <2>7, <2>8 DEF OpenSession, Inv
<1>4. ASSUME NEW r \in Requests, CommitFail(r)
      PROVE  Inv'
  <2> DEFINE u == request[r].user
             n == request[r].seen.failed + 1
             row == [users[u] EXCEPT !.failed = n, !.locked = users[u].locked \/ n >= MaxFailures]
  <2>1. u \in Users /\ request[r].seen \in Row /\ request[r].step = "fail"
      BY <1>4, <1>type, AtStep DEF CommitFail, At
  <2>2. users[u] \in Row /\ n \in Nat
      BY <1>type, <2>1 DEF Row
  <2>3. (users[u].locked \/ n >= MaxFailures) \in BOOLEAN
      OBVIOUS
  <2>4. row \in Row /\ row.known = users[u].known
    <3> HIDE DEF n
    <3> QED BY <2>2, <2>3 DEF Row
  <2>5. users' = [users EXCEPT ![u] = row]
      BY <1>4, <1>type, <2>1 DEF CommitFail
  <2>6. AccountsOK(users') /\ PasswordsOK(users', open', passwords')
      BY <1>4, <2>1, <2>4, <2>5, SameNames DEF CommitFail
  <2>7. RequestsOK(request')
      BY <1>4, <1>type, <2>1, GoesOn DEF CommitFail
  <2> QED
      BY <1>4, <1>type, <2>6, <2>7 DEF CommitFail, Inv
<1>5. ASSUME NEW r \in Requests, RevokeIfLocked(r)
      PROVE  Inv'
  <2>1. sessions' \in Seq(Session) /\ Len(sessions') = Len(sessions)
      BY <1>5, <1>type, RevokedOK DEF RevokeIfLocked
  <2>2. SessionsOK(sessions', cookie')
      BY <1>5, <1>type, <2>1 DEF RevokeIfLocked, SessionsOK
  <2>3. RequestsOK(request')
      BY <1>5, <1>type, Ends DEF RevokeIfLocked
  <2> QED
      BY <1>5, <1>type, <2>2, <2>3 DEF RevokeIfLocked, Inv
<1>6. ASSUME NEW b \in Browsers, TurnAway(b)
      PROVE  Inv'
  <2>1. 0 \in 0 .. Len(sessions)
      BY <1>type
  <2>2. SessionsOK(sessions', cookie')
      BY <1>6, <1>type, <2>1 DEF TurnAway, SessionsOK
  <2> QED
      BY <1>6, <1>type, <2>2 DEF TurnAway, Inv
<1>7. ASSUME NEW b \in Browsers, Logout(b)
      PROVE  Inv'
  <2> DEFINE c == cookie[b]
             s == [sessions[c] EXCEPT !.over = TRUE]
  <2>1. c \in 1 .. Len(sessions)
      BY <1>7, <1>type DEF Logout, Valid
  <2>1a. sessions[c] \in Session
      BY <1>type, <2>1
  <2>2. s \in Session
      BY <2>1a, Zenon DEF Session
  <2>3. sessions' = [sessions EXCEPT ![c] = s]
      BY <1>7 DEF Logout
  <2>4. sessions' \in Seq(Session) /\ Len(sessions') = Len(sessions)
      BY <1>type, <2>1, <2>2, <2>3
  <2>5. cookie' = [cookie EXCEPT ![b] = 0] /\ 0 \in 0 .. Len(sessions)
      BY <1>7, <1>type DEF Logout
  <2>6. SessionsOK(sessions', cookie')
      BY <1>type, <2>4, <2>5 DEF SessionsOK
  <2> QED
      BY <1>7, <1>type, <2>6 DEF Logout, Inv
<1>8. ASSUME NEW c \in DOMAIN sessions, RunOut(c)
      PROVE  Inv'
  <2> DEFINE s == [sessions[c] EXCEPT !.late = TRUE]
  <2>1. c \in 1 .. Len(sessions)
      BY <1>type
  <2>1a. sessions[c] \in Session
      BY <1>type, <2>1
  <2>2. s \in Session
      BY <2>1a, Zenon DEF Session
  <2>3. sessions' = [sessions EXCEPT ![c] = s]
      BY <1>8 DEF RunOut
  <2>4. sessions' \in Seq(Session) /\ Len(sessions') = Len(sessions)
      BY <1>type, <2>1, <2>2, <2>3
  <2>5. SessionsOK(sessions', cookie')
      BY <1>8, <1>type, <2>4 DEF RunOut, SessionsOK
  <2> QED
      BY <1>8, <1>type, <2>5 DEF RunOut, Inv
<1>9. ASSUME NEW r \in Requests, NEW b \in Browsers, NEW u \in Users, BeginChange(r, b, u)
      PROVE  Inv'
  <2>1. PICK p \in open[u] : request' = [request EXCEPT ![r] = Request("change", u, b, p)]
      BY <1>9 DEF BeginChange
  <2>2. RequestsOK(request')
      BY <1>type, <2>1, OpenIsPassword, Begins
  <2> QED
      BY <1>9, <1>type, <2>2 DEF BeginChange, Inv
<1>10. ASSUME NEW r \in Requests, CommitChange(r)
       PROVE  Inv'
  <2> DEFINE u == request[r].user
             kept == open[u] \ {request[r].password}
  <2>1. u \in Users /\ request[r].step = "change"
      BY <1>10, <1>type, AtStep DEF CommitChange, At
  <2>2. /\ open' = [open EXCEPT ![u] = kept \union {passwords + 1}]
        /\ passwords < MaxPasswords /\ passwords' = passwords + 1
      BY <1>10 DEF CommitChange
  <2>3. PasswordsOK(users', open', passwords')
    <3>1. kept \in SUBSET open[u] /\ users' = users
        BY <1>10 DEF CommitChange
    <3>2. \A v \in Users \ {u} : users'[v].known = users[v].known
        BY <3>1
    <3> HIDE DEF u, kept
    <3> QED
        BY <2>1, <2>2, <3>1, <3>2, NewPassword
  <2>4. RequestsOK(request')
      BY <1>10, <1>type, <2>1, GoesOn DEF CommitChange
  <2> QED
      BY <1>10, <1>type, <2>3, <2>4 DEF CommitChange, Inv
<1>11. ASSUME NEW r \in Requests, RevokeAll(r)
       PROVE  Inv'
  <2> DEFINE b == request[r].browser
  <2>1. b \in Browsers
      BY <1>11, <1>type, AtStep DEF RevokeAll, At
  <2>2. sessions' \in Seq(Session) /\ Len(sessions') = Len(sessions)
      BY <1>11, RevokedOK DEF RevokeAll
  <2>3. cookie' = cookie \/ cookie' = [cookie EXCEPT ![b] = 0]
      BY <1>11 DEF RevokeAll
  <2>4. 0 \in 0 .. Len(sessions)
      BY <1>type
  <2>5. SessionsOK(sessions', cookie')
      BY <1>type, <2>1, <2>2, <2>3, <2>4 DEF SessionsOK
  <2>6. RequestsOK(request')
      BY <1>11, <1>type, Ends DEF RevokeAll
  <2> QED
      BY <1>11, <1>type, <2>5, <2>6 DEF RevokeAll, Inv
<1>12. ASSUME NEW r \in Requests, NEW b \in Browsers, NEW u \in Users, Modify(r, b, u)
       PROVE  Inv'
  <2>1. PICK admin \in BOOLEAN, p \in open[u] :
          /\ users' = [users EXCEPT ![u].admin = admin]
          /\ \/ request' = request
             \/ request' = [request EXCEPT ![r] = Request("change", u, b, p)]
      BY <1>12 DEF Modify
  <2> DEFINE row == [users[u] EXCEPT !.admin = admin]
  <2>2. row \in Row /\ row.known = users[u].known
      BY <1>type DEF Row
  <2>3. users' = [users EXCEPT ![u] = row]
      BY <2>1
  <2>4. AccountsOK(users') /\ PasswordsOK(users', open', passwords')
      BY <1>12, <2>2, <2>3, SameNames DEF Modify
  <2>5. RequestsOK(request')
      BY <1>type, <2>1, OpenIsPassword, Begins
  <2> QED
      BY <1>12, <1>type, <2>4, <2>5 DEF Modify, Inv
<1>13. ASSUME NEW b \in Browsers, NEW u \in Users, CreateUser(b, u)
       PROVE  Inv'
  <2>1. PICK admin \in BOOLEAN : users' = [users EXCEPT ![u] = NewRow(admin)]
      BY <1>13 DEF CreateUser
  <2>2. AccountsOK(users')
      BY <1>type, <2>1 DEF AccountsOK, NewRow, Row
  <2>3. \A v \in Users \ {u} : users'[v].known = users[v].known
      BY <1>type, <2>1
  <2>4. open' = [open EXCEPT ![u] = {} \union {passwords + 1}]
      BY <1>13 DEF CreateUser
  <2>5. PasswordsOK(users', open', passwords')
    <3>1. {} \in SUBSET open[u] /\ passwords < MaxPasswords /\ passwords' = passwords + 1
        BY <1>13 DEF CreateUser
    <3> QED
        BY <2>3, <2>4, <3>1, NewPassword
  <2> QED
      BY <1>13, <1>type, <2>2, <2>5 DEF CreateUser, Inv
<1>14. ASSUME NEW r \in Requests, NEW b \in Browsers, NEW u \in Users, BeginToggle(r, b, u)
       PROVE  Inv'
  <2>1. PICK step \in {"lock", "active"} :
          request' = [request EXCEPT ![r] = Request(step, u, b, 0)]
      BY <1>14 DEF BeginToggle
  <2>2. RequestsOK(request')
      BY <1>type, <2>1, Begins
  <2> QED
      BY <1>14, <1>type, <2>2 DEF BeginToggle, Inv
<1>15. ASSUME NEW r \in Requests, ToggleLock(r)
       PROVE  Inv'
  <2> DEFINE u == request[r].user
             seen == request[r].seen
             row == [users[u] EXCEPT !.locked = ~seen.locked,
                                     !.failed = IF seen.locked /\ seen.failed # 0 THEN 0
                                               ELSE users[u].failed]
  <2>1. u \in Users /\ seen \in Row
      BY <1>15, <1>type, AtStep DEF ToggleLock, At
  <2>2. row \in Row /\ row.known = users[u].known
      BY <1>type, <2>1 DEF Row
  <2>3. users' = [users EXCEPT ![u] = row]
      BY <1>15, <1>type, <2>1 DEF ToggleLock
  <2>4. AccountsOK(users') /\ PasswordsOK(users', open', passwords')
      BY <1>15, <2>1, <2>2, <2>3, SameNames DEF ToggleLock
  <2>5. RequestsOK(request')
      BY <1>15, <1>type, Ends DEF ToggleLock
  <2> QED
      BY <1>15, <1>type, <2>4, <2>5 DEF ToggleLock, Inv
<1>16. ASSUME NEW r \in Requests, ToggleActive(r)
       PROVE  Inv'
  <2> DEFINE u == request[r].user
             row == [users[u] EXCEPT !.active = ~request[r].seen.active]
  <2>1. u \in Users
      BY <1>16, <1>type, AtStep DEF ToggleActive, At
  <2>2. row \in Row /\ row.known = users[u].known
      BY <1>type, <2>1 DEF Row
  <2>3. users' = [users EXCEPT ![u] = row]
      BY <1>16 DEF ToggleActive
  <2>4. AccountsOK(users') /\ PasswordsOK(users', open', passwords')
      BY <1>16, <2>1, <2>2, <2>3, SameNames DEF ToggleActive
  <2>5. RequestsOK(request')
      BY <1>16, <1>type, Ends DEF ToggleActive
  <2> QED
      BY <1>16, <1>type, <2>4, <2>5 DEF ToggleActive, Inv
<1>17. ASSUME NEW r \in Requests, Stop(r)
       PROVE  Inv'
  <2>1. RequestsOK(request')
      BY <1>17, <1>type, Ends DEF Stop
  <2> QED
      BY <1>17, <1>type, <2>1 DEF Stop, Inv
<1>18. CASE UNCHANGED vars
    BY <1>type, <1>18 DEF vars, Inv
<1> QED
    BY <1>1, <1>2, <1>3, <1>4, <1>5, <1>6, <1>7, <1>8, <1>9, <1>10, <1>11, <1>12, <1>13,
       <1>14, <1>15, <1>16, <1>17, <1>18 DEF Next

-----------------------------------------------------------------------------

\* The types, and rows that are numbered, open for one account at most and for
\* every known one: app_back/v1/user.py, whatever crosses or stops.
THEOREM Inductive == Spec => []Inv
<1>1. Init => Inv
    BY InitInv
<1>2. Inv /\ [Next]_vars => Inv'
    BY StepInv
<1> QED
    BY <1>1, <1>2, PTL DEF Spec

\* The tables, the cookies and the requests have their declared shapes.
THEOREM TypeCorrect == Spec => []TypeOK
<1>1. Inv => TypeOK
  <2> SUFFICES ASSUME Inv PROVE TypeOK
      OBVIOUS
  <2>1. passwords \in 0 .. MaxPasswords /\ open \in [Users -> SUBSET (1 .. passwords)]
      BY DEF Inv, PasswordsOK
  <2>2. 1 .. passwords \subseteq PasswordRow
      BY <2>1, BoundsAreNumbers DEF PasswordRow
  <2>3. open \in [Users -> SUBSET PasswordRow]
      BY <2>1, <2>2
  <2> QED
      BY <2>1, <2>3 DEF Inv, AccountsOK, SessionsOK, RequestsOK, TypeOK
<1> QED
    BY <1>1, Inductive, PTL

\* Whatever requests cross or stop, every account keeps a password, and no
\* password is that of two accounts (UsersRepository.new_password).
THEOREM PasswordsSafe == Spec => []EveryoneKeepsAPassword
<1>1. Inv => EveryoneKeepsAPassword
    BY DEF Inv, AccountsOK, PasswordsOK, EveryoneKeepsAPassword, Known
<1> QED
    BY <1>1, Inductive, PTL

-----------------------------------------------------------------------------
(* One request at a time.                                                  *)

Doing(step, u) == \E r \in Requests : request[r].step = step /\ request[r].user = u

\* What a request under way knows of its account is still true.
Fresh(q, us, op) ==
    /\ us[q.user].known
    /\ q.step \in {"reset", "fail", "open", "change"} => op[q.user] = {q.password}
    /\ q.step \in {"reset", "fail", "lock", "active"} => q.seen = us[q.user]
    /\ q.step = "open" => us[q.user].failed = 0

\* A session follows the password, or is about to be revoked.
SessionOK(s) ==
    /\ users[s.user].known
    /\ s.over \/ s.by \in open[s.user] \/ Doing("revoke", s.user)

\* Too many failures lock, and the sessions are over or about to be.
LockOK(u) ==
    users[u].known /\ users[u].failed >= MaxFailures =>
      /\ users[u].locked
      /\ Doing("locked", u) \/ \A s \in DOMAIN sessions : sessions[s].user = u => sessions[s].over

Exclusive == \A r, q \in Requests : r # q /\ request[r] # Idle => request[q] = Idle
OneOpen == \A u \in Users : users[u].known => \E p \in open[u] : open[u] = {p}
AllFresh == \A r \in Requests : request[r] # Idle => Fresh(request[r], users, open)
SessionsFollow == \A s \in DOMAIN sessions : SessionOK(sessions[s])
LocksHold == \A u \in Users : LockOK(u)

AloneBody == Exclusive /\ OneOpen /\ AllFresh /\ SessionsFollow /\ LocksHold
AloneInv == alone => AloneBody

\* The request x of r is the only one.
Only(r, x) == request' = [q \in Requests |-> IF q = r THEN x ELSE Idle]

\* An only request excludes the others; what is done is what it does.
LEMMA OnlyOne ==
    ASSUME NEW r \in Requests, NEW x, Only(r, x)
    PROVE  /\ Exclusive'
           /\ \A step, u : step # "idle" => (Doing(step, u)' <=> x.step = step /\ x.user = u)
           /\ Fresh(x, users', open') \/ x = Idle => AllFresh'
<1>1. request'[r] = x /\ \A q \in Requests : q # r => request'[q] = Idle
  BY DEF Only
<1>2. Exclusive'
  BY <1>1 DEF Exclusive
<1>3. ASSUME NEW step, NEW u, step # "idle"
      PROVE  Doing(step, u)' <=> x.step = step /\ x.user = u
  BY <1>1, <1>3 DEF Doing, Idle
<1>4. ASSUME Fresh(x, users', open') \/ x = Idle PROVE AllFresh'
  <2> SUFFICES ASSUME NEW q \in Requests, request'[q] # Idle PROVE Fresh(request'[q], users', open')
    BY DEF AllFresh
  <2>1. q = r
    BY <1>1
  <2>2. request'[q] = x /\ x # Idle
    BY <1>1, <2>1
  <2> QED
    BY <1>4, <2>2
<1> QED
  BY <1>2, <1>3, <1>4

\* A request that begins is the only one, and nothing was being done.
LEMMA Begun ==
    ASSUME Inv, alone, NEW r \in Requests, NEW x, Starts(r), request' = [request EXCEPT ![r] = x]
    PROVE  Only(r, x) /\ \A step, u : step # "idle" => ~Doing(step, u)
<1>1. \A q \in Requests : request[q] = Idle
  BY DEF Starts, Resting, Inv, RequestsOK
<1>2. Only(r, x)
  BY <1>1 DEF Only, Inv, RequestsOK
<1>3. \A step, u : step # "idle" => ~Doing(step, u)
  BY <1>1 DEF Doing, Idle
<1> QED
  BY <1>2, <1>3

\* A request that goes on or ends is the only one.
LEMMA Continued ==
    ASSUME Inv, Exclusive, NEW r \in Requests, request[r] # Idle
    PROVE  /\ request' = Done(r) => Only(r, Idle)
           /\ \A step : request' = Goes(r, step) => Only(r, [request[r] EXCEPT !.step = step])
<1>1. \A q \in Requests : q # r => request[q] = Idle
  BY DEF Exclusive
<1>2. request' = Done(r) => Only(r, Idle)
  BY <1>1 DEF Only, Done, Inv, RequestsOK
<1>3. ASSUME NEW step, request' = Goes(r, step)
      PROVE  Only(r, [request[r] EXCEPT !.step = step])
  <2> DEFINE x == [request[r] EXCEPT !.step = step]
  <2>1. request' = [request EXCEPT ![r] = x]
    BY <1>3 DEF Goes
  <2> HIDE DEF x
  <2>2. Only(r, x)
    BY <1>1, <2>1 DEF Only, Inv, RequestsOK
  <2> QED
    BY <2>2 DEF x
<1> QED
  BY <1>2, <1>3

\* What is done now is what the request r does.
LEMMA DoneBy ==
    ASSUME Inv, Exclusive, NEW r \in Requests, request[r] # Idle, NEW step, NEW u, step # "idle"
    PROVE  Doing(step, u) <=> request[r].step = step /\ request[r].user = u
BY DEF Exclusive, Doing, Idle

\* The session rows.
LEMMA SessionRows ==
    ASSUME Inv
    PROVE  /\ sessions \in Seq(Session) /\ Len(sessions) \in Nat
           /\ DOMAIN sessions = 1 .. Len(sessions)
           /\ \A s \in DOMAIN sessions : sessions[s] \in Session /\ sessions[s].user \in Users
<1>1. sessions \in Seq(Session) /\ Len(sessions) \in Nat /\ DOMAIN sessions = 1 .. Len(sessions)
  BY DEF Inv, SessionsOK
<1>2. \A s \in DOMAIN sessions : sessions[s] \in Session
  BY <1>1
<1>3. \A s \in DOMAIN sessions : sessions[s].user \in Users
  BY <1>2 DEF Session
<1> QED
  BY <1>1, <1>2, <1>3

\* Sessions that end, or not, with everything else as it was.
LEMMA SessionsEnd ==
    ASSUME AloneBody, UNCHANGED <<users, open, request>>, DOMAIN sessions' = DOMAIN sessions,
           \A s \in DOMAIN sessions : /\ sessions'[s].user = sessions[s].user
                                      /\ sessions'[s].by = sessions[s].by
                                      /\ sessions[s].over => sessions'[s].over
    PROVE  AloneBody'
<1>1. \A step, u : Doing(step, u)' <=> Doing(step, u)
  BY DEF Doing
<1>2. Exclusive' /\ OneOpen' /\ AllFresh'
  BY DEF AloneBody, Exclusive, OneOpen, AllFresh, Fresh
<1>3. SessionsFollow'
  <2> SUFFICES ASSUME NEW s \in DOMAIN sessions' PROVE SessionOK(sessions[s])'
    BY DEF SessionsFollow
  <2>1. SessionOK(sessions[s])
    BY DEF AloneBody, SessionsFollow
  <2> QED
    BY <1>1, <2>1 DEF SessionOK
<1>4. LocksHold'
  <2> SUFFICES ASSUME NEW u \in Users PROVE LockOK(u)'
    BY DEF LocksHold
  <2>1. LockOK(u)
    BY DEF AloneBody, LocksHold
  <2> QED
    BY <1>1, <2>1 DEF LockOK
<1> QED
  BY <1>2, <1>3, <1>4 DEF AloneBody

\* Nothing was being done, and the rows keep their names, failures and locks.
LEMMA AfterRest ==
    ASSUME Inv, AloneBody, UNCHANGED <<open, sessions>>, Exclusive', AllFresh',
           \A step, u : step # "idle" => ~Doing(step, u),
           \A u \in Users : /\ users'[u].known = users[u].known
                  /\ users'[u].failed = users[u].failed
                  /\ users'[u].locked = users[u].locked
    PROVE  AloneBody'
<1>1. OneOpen'
  BY DEF AloneBody, OneOpen
<1>2. SessionsFollow'
  <2> SUFFICES ASSUME NEW s \in DOMAIN sessions' PROVE SessionOK(sessions[s])'
    BY DEF SessionsFollow
  <2>1. SessionOK(sessions[s]) /\ sessions[s].user \in Users
    BY SessionRows DEF AloneBody, SessionsFollow
  <2> QED
    BY <2>1 DEF SessionOK
<1>3. LocksHold'
  <2> SUFFICES ASSUME NEW u \in Users PROVE LockOK(u)'
    BY DEF LocksHold
  <2>1. LockOK(u)
    BY DEF AloneBody, LocksHold
  <2> QED
    BY <2>1 DEF LockOK
<1> QED
  BY <1>1, <1>2, <1>3 DEF AloneBody

\* A request that begins with what it reads.
LEMMA BeginAlone ==
    ASSUME Inv, AloneBody, alone, NEW r \in Requests, NEW x, Starts(r),
           request' = [request EXCEPT ![r] = x], Fresh(x, users', open'),
           UNCHANGED <<open, sessions>>,
           \A u \in Users : /\ users'[u].known = users[u].known
                  /\ users'[u].failed = users[u].failed
                  /\ users'[u].locked = users[u].locked
    PROVE  AloneBody'
<1>1. Only(r, x) /\ \A step, u : step # "idle" => ~Doing(step, u)
  BY Begun
<1>2. Exclusive' /\ AllFresh'
  BY <1>1, OnlyOne
<1> QED
  BY <1>1, <1>2, AfterRest

\* A known account has one open row.
LEMMA TheOpenRow ==
    ASSUME AloneBody, NEW u \in Users, users[u].known, NEW p \in open[u]
    PROVE  open[u] = {p}
BY DEF AloneBody, OneOpen

\* Logins, changes and toggles begin.
LEMMA BeginsAlone ==
    ASSUME Inv, AloneBody, alone, NEW r \in Requests, NEW b \in Browsers, NEW u \in Users,
           BeginLogin(r, b, u) \/ BeginChange(r, b, u) \/ Modify(r, b, u) \/ BeginToggle(r, b, u)
    PROVE  AloneBody'
<1> USE DEF Request
<1>1. CASE BeginLogin(r, b, u)
  <2>1. PICK right \in BOOLEAN, p \in open[u] :
          request' = [request EXCEPT ![r] = Request(IF right THEN "reset" ELSE "fail", u, b, p)]
    BY <1>1 DEF BeginLogin
  <2> DEFINE x == Request(IF right THEN "reset" ELSE "fail", u, b, p)
  <2>2. open[u] = {p} /\ users[u].known /\ Starts(r) /\ UNCHANGED <<users, open, sessions>>
    BY <1>1, TheOpenRow DEF BeginLogin
  <2>3. Fresh(x, users', open') /\ request' = [request EXCEPT ![r] = x]
    BY <2>1, <2>2 DEF Fresh
  <2> HIDE DEF x
  <2> QED
    BY <2>2, <2>3, BeginAlone
<1>2. CASE BeginChange(r, b, u)
  <2>1. PICK p \in open[u] : request' = [request EXCEPT ![r] = Request("change", u, b, p)]
    BY <1>2 DEF BeginChange
  <2> DEFINE x == Request("change", u, b, p)
  <2>2. open[u] = {p} /\ users[u].known /\ Starts(r) /\ UNCHANGED <<users, open, sessions>>
    BY <1>2, TheOpenRow DEF BeginChange
  <2>3. Fresh(x, users', open') /\ request' = [request EXCEPT ![r] = x]
    BY <2>1, <2>2 DEF Fresh
  <2> HIDE DEF x
  <2> QED
    BY <2>2, <2>3, BeginAlone
<1>3. CASE BeginToggle(r, b, u)
  <2>1. PICK step \in {"lock", "active"} :
          request' = [request EXCEPT ![r] = Request(step, u, b, 0)]
    BY <1>3 DEF BeginToggle
  <2> DEFINE x == Request(step, u, b, 0)
  <2>2. users[u].known /\ Starts(r) /\ UNCHANGED <<users, open, sessions>>
    BY <1>3 DEF BeginToggle
  <2>3. Fresh(x, users', open') /\ request' = [request EXCEPT ![r] = x]
    BY <2>1, <2>2 DEF Fresh
  <2> HIDE DEF x
  <2> QED
    BY <2>2, <2>3, BeginAlone
<1>4. CASE Modify(r, b, u)
  <2>1. PICK admin \in BOOLEAN, p \in open[u] :
          /\ users' = [users EXCEPT ![u].admin = admin]
          /\ \/ request' = request
             \/ request' = [request EXCEPT ![r] = Request("change", u, b, p)]
    BY <1>4 DEF Modify
  <2>2. users \in [Users -> Row] /\ users[u] \in Row
    BY DEF Inv, AccountsOK
  <2>3. users' = [users EXCEPT ![u] = [users[u] EXCEPT !.admin = admin]]
    BY <2>1
  <2>4. \A v \in Users : /\ users'[v].known = users[v].known
               /\ users'[v].failed = users[v].failed
               /\ users'[v].locked = users[v].locked
    <3> DEFINE row == [users[u] EXCEPT !.admin = admin]
    <3>1. row.known = users[u].known /\ row.failed = users[u].failed
          /\ row.locked = users[u].locked
      BY <2>2 DEF Row
    <3>2. users'[u] = row /\ \A v \in Users \ {u} : users'[v] = users[v]
      BY <2>2, <2>3
    <3> HIDE DEF row
    <3> QED
      BY <3>1, <3>2
  <2>5. /\ open[u] = {p} /\ users[u].known /\ Starts(r) /\ UNCHANGED <<open, sessions>>
    BY <1>4, TheOpenRow DEF Modify
  <2>6. CASE request' = request
    <3>1. \A q \in Requests : request[q] = Idle
      BY <2>5 DEF Starts, Resting, Inv, RequestsOK
    <3>2. \A step, v : step # "idle" => ~Doing(step, v)
      BY <3>1 DEF Doing, Idle
    <3>3. Exclusive' /\ AllFresh'
      BY <2>6, <3>1 DEF Exclusive, AllFresh
    <3> QED
      BY <2>4, <2>5, <3>2, <3>3, AfterRest
  <2>7. CASE request' = [request EXCEPT ![r] = Request("change", u, b, p)]
    <3> DEFINE x == Request("change", u, b, p)
    <3>1. Fresh(x, users', open')
      BY <2>4, <2>5 DEF Fresh
    <3>2. request' = [request EXCEPT ![r] = x]
      BY <2>7
    <3> HIDE DEF x
    <3> QED
      BY <2>4, <2>5, <3>1, <3>2, BeginAlone
  <2> QED
    BY <2>1, <2>6, <2>7
<1> QED
  BY <1>1, <1>2, <1>3, <1>4

\* The account of a request under way, as the request has read it.
LEMMA UnderWay ==
    ASSUME Inv, AloneBody, NEW r \in Requests, request[r] # Idle
    PROVE  /\ request[r].user \in Users /\ users[request[r].user] \in Row
           /\ Fresh(request[r], users, open)
           /\ \A step, u : step # "idle" =>
                (Doing(step, u) <=> request[r].step = step /\ request[r].user = u)
           /\ request' = Done(r) => Only(r, Idle)
           /\ \A step : request' = Goes(r, step) => Only(r, [request[r] EXCEPT !.step = step])
<1>1. request[r].user \in Users
  BY AtStep DEF Inv
<1>2. users[request[r].user] \in Row
  BY <1>1 DEF Inv, AccountsOK
<1>3. Fresh(request[r], users, open)
  BY DEF AloneBody, AllFresh
<1>4. \A step, u : step # "idle" =>
        (Doing(step, u) <=> request[r].step = step /\ request[r].user = u)
  BY DoneBy DEF AloneBody
<1>5. /\ request' = Done(r) => Only(r, Idle)
      /\ \A step : request' = Goes(r, step) => Only(r, [request[r] EXCEPT !.step = step])
  BY Continued DEF AloneBody
<1> QED
  BY <1>1, <1>2, <1>3, <1>4, <1>5

\* A request that ends: nothing is being done any more.
LEMMA EndsAlone ==
    ASSUME NEW r \in Requests, Only(r, Idle)
    PROVE  Exclusive' /\ AllFresh' /\ \A step, u : step # "idle" => ~Doing(step, u)'
<1>1. /\ Exclusive' /\ AllFresh'
      /\ \A step, u : step # "idle" => (Doing(step, u)' <=> Idle.step = step /\ Idle.user = u)
  BY OnlyOne
<1> QED
  BY <1>1 DEF Idle

\* The row of one account is written; nothing was left to revoke.
LEMMA RowWritten ==
    ASSUME Inv, AloneBody, NEW u \in Users, UNCHANGED <<open, sessions>>, Exclusive', AllFresh',
           \A v \in Users : ~Doing("revoke", v) /\ ~Doing("locked", v),
           users'[u].known = users[u].known, \A v \in Users \ {u} : users'[v] = users[v],
           LockOK(u)'
    PROVE  AloneBody'
<1>1. OneOpen'
  BY DEF AloneBody, OneOpen
<1>2. SessionsFollow'
  <2> SUFFICES ASSUME NEW s \in DOMAIN sessions' PROVE SessionOK(sessions[s])'
    BY DEF SessionsFollow
  <2>1. SessionOK(sessions[s]) /\ sessions[s].user \in Users /\ sessions'[s] = sessions[s]
    BY SessionRows DEF AloneBody, SessionsFollow
  <2> QED
    BY <2>1 DEF SessionOK
<1>3. LocksHold'
  <2> SUFFICES ASSUME NEW v \in Users, v # u PROVE LockOK(v)'
    BY DEF LocksHold
  <2>1. LockOK(v)
    BY DEF AloneBody, LocksHold
  <2> QED
    BY <2>1 DEF LockOK
<1> QED
  BY <1>1, <1>2, <1>3 DEF AloneBody

\* The steps of a request that goes on have the same fields.
LEMMA SameFields ==
    ASSUME Inv, NEW r \in Requests, NEW step,
           request[r].step \in {"reset", "fail", "open", "locked", "change", "revoke"}
    PROVE  LET x == [request[r] EXCEPT !.step = step] IN
           x.step = step /\ x.user = request[r].user /\ x.password = request[r].password
<1>1. request[r] \in [step : {"reset", "fail", "open", "locked", "change", "revoke"}, user : Users,
                      browser : Browsers, seen : Row, password : PasswordRow]
  BY DEF Inv, RequestsOK, RequestRow, Idle
<1> QED
  BY <1>1

\* The failures are forgotten.
LEMMA ResetAlone ==
    ASSUME Inv, AloneBody, NEW r \in Requests, CommitReset(r)
    PROVE  AloneBody'
<1>0. PICK u : u = request[r].user
  OBVIOUS
<1> DEFINE q == request[r]
           x == [q EXCEPT !.step = "open"]
<1>1. /\ q.user = u /\ q.step = "reset" /\ q # Idle /\ request' = Goes(r, "open")
      /\ users' = [users EXCEPT ![u].failed = IF q.seen.failed = 0 THEN @ ELSE 0]
      /\ UNCHANGED <<open, sessions>>
  BY <1>0 DEF CommitReset, At, Idle
<1>2. /\ u \in Users /\ users[u] \in Row /\ Fresh(q, users, open) /\ Only(r, x)
      /\ \A v : ~Doing("revoke", v) /\ ~Doing("locked", v)
  BY <1>1, UnderWay
<1>3. users \in [Users -> Row]
  BY DEF Inv, AccountsOK
<1>4. q.seen = users[u] /\ users[u].known /\ open[u] = {q.password}
  BY <1>1, <1>2 DEF Fresh
<1>5. /\ users'[u] = [users[u] EXCEPT !.failed = 0]
      /\ \A v \in Users \ {u} : users'[v] = users[v]
  BY <1>1, <1>2, <1>3, <1>4 DEF Row
<1>6. users'[u].known = users[u].known /\ users'[u].failed = 0
  BY <1>2, <1>5 DEF Row
<1>7. x.step = "open" /\ x.user = u /\ x.password = q.password
  BY <1>1, SameFields
<1>8. Fresh(x, users', open')
  BY <1>1, <1>4, <1>6, <1>7 DEF Fresh
<1>9. LockOK(u)'
  BY <1>6, BoundsAreNumbers, AccountsAssumption DEF LockOK
<1> HIDE DEF q, x
<1>10. Exclusive' /\ AllFresh'
  BY <1>2, <1>8, OnlyOne
<1> QED
  BY <1>1, <1>2, <1>5, <1>6, <1>9, <1>10, RowWritten

\* A failure is counted, the last one locks.
LEMMA FailAlone ==
    ASSUME Inv, AloneBody, NEW r \in Requests, CommitFail(r)
    PROVE  AloneBody'
<1>0. PICK u : u = request[r].user
  OBVIOUS
<1> DEFINE q == request[r]
           n == q.seen.failed + 1
           row == [users[u] EXCEPT !.failed = n, !.locked = users[u].locked \/ n >= MaxFailures]
           x == [q EXCEPT !.step = "locked"]
<1>1. /\ q.user = u /\ q.step = "fail" /\ q # Idle /\ request' = Goes(r, "locked")
      /\ UNCHANGED <<open, sessions>>
  BY <1>0 DEF CommitFail, At, Idle
<1>2. /\ u \in Users /\ users[u] \in Row /\ Fresh(q, users, open) /\ Only(r, x)
      /\ \A v : ~Doing("revoke", v) /\ ~Doing("locked", v)
  BY <1>1, UnderWay
<1>3. users \in [Users -> Row]
  BY DEF Inv, AccountsOK
<1>4. q.seen = users[u] /\ users[u].known
  BY <1>1, <1>2 DEF Fresh
<1>5. users'[u] = row /\ \A v \in Users \ {u} : users'[v] = users[v]
  BY <1>1, <1>2, <1>3 DEF CommitFail
<1>6. /\ users'[u].known = users[u].known
      /\ users'[u].failed >= MaxFailures => users'[u].locked
  <2> HIDE DEF n
  <2> QED
    BY <1>2, <1>5 DEF Row
<1>7. x.step = "locked" /\ x.user = u
  BY <1>1, SameFields
<1>8. Fresh(x, users', open')
  BY <1>4, <1>6, <1>7 DEF Fresh
<1> HIDE DEF q, x, n, row
<1>9. /\ Exclusive' /\ AllFresh'
      /\ \A step, v : step # "idle" => (Doing(step, v)' <=> x.step = step /\ x.user = v)
  BY <1>2, <1>8, OnlyOne
<1>10. LockOK(u)'
  <2>1. Doing("locked", u)'
    BY <1>7, <1>9
  <2> QED
    BY <1>6, <2>1 DEF LockOK
<1> QED
  BY <1>1, <1>2, <1>5, <1>6, <1>9, <1>10, RowWritten

\* An account is locked, or unlocked and forgiven; or it is (de)activated.
LEMMA ToggleAlone ==
    ASSUME Inv, AloneBody, NEW r \in Requests, ToggleLock(r) \/ ToggleActive(r)
    PROVE  AloneBody'
<1>0. PICK u : u = request[r].user
  OBVIOUS
<1> DEFINE q == request[r]
           row == [users[u] EXCEPT !.locked = ~q.seen.locked,
                                   !.failed = IF q.seen.locked /\ q.seen.failed # 0 THEN 0
                                             ELSE users[u].failed]
           other == [users[u] EXCEPT !.active = ~q.seen.active]
<1>1. /\ q.user = u /\ q.step \in {"lock", "active"} /\ q # Idle /\ request' = Done(r)
      /\ UNCHANGED <<open, sessions>>
  BY <1>0 DEF ToggleLock, ToggleActive, At, Idle
<1>2. /\ u \in Users /\ users[u] \in Row /\ Fresh(q, users, open) /\ Only(r, Idle)
      /\ \A v : ~Doing("revoke", v) /\ ~Doing("locked", v)
  BY <1>1, UnderWay
<1>3. users \in [Users -> Row]
  BY DEF Inv, AccountsOK
<1>4. q.seen = users[u] /\ users[u].known
  BY <1>1, <1>2 DEF Fresh
<1>5. LockOK(u)
  BY <1>2 DEF AloneBody, LocksHold
<1>6. Exclusive' /\ AllFresh' /\ \A v : ~Doing("locked", v)'
  BY <1>2, EndsAlone
<1>7. /\ users'[u].known = users[u].known /\ \A v \in Users \ {u} : users'[v] = users[v]
      /\ users'[u].failed >= MaxFailures =>
           /\ users[u].failed >= MaxFailures
           /\ users[u].locked => users'[u].locked
  <2>1. CASE ToggleLock(r)
    <3>1. users'[u] = row /\ \A v \in Users \ {u} : users'[v] = users[v]
      BY <1>1, <1>2, <1>3, <2>1 DEF ToggleLock
    <3>2. /\ row.known = users[u].known /\ row.locked = ~users[u].locked
          /\ row.failed = IF users[u].locked /\ users[u].failed # 0 THEN 0 ELSE users[u].failed
      BY <1>2, <1>4 DEF Row
    <3>3. users[u].failed \in Nat
      BY <1>2 DEF Row
    <3> HIDE DEF row, q
    <3> QED
      BY <3>1, <3>2, <3>3, BoundsAreNumbers, AccountsAssumption
  <2>2. CASE ToggleActive(r)
    <3>1. users'[u] = other /\ \A v \in Users \ {u} : users'[v] = users[v]
      BY <1>1, <1>2, <1>3, <2>2 DEF ToggleActive
    <3>2. /\ other.known = users[u].known /\ other.locked = users[u].locked
          /\ other.failed = users[u].failed
      BY <1>2 DEF Row
    <3> HIDE DEF other, q
    <3> QED
      BY <3>1, <3>2
  <2> QED
    BY <2>1, <2>2
<1>8. LockOK(u)'
  BY <1>1, <1>2, <1>4, <1>5, <1>7 DEF LockOK
<1> HIDE DEF q
<1> QED
  BY <1>1, <1>2, <1>6, <1>7, <1>8, RowWritten

\* The session of a login follows the password that was given.
LEMMA OpenAlone ==
    ASSUME Inv, AloneBody, NEW r \in Requests, OpenSession(r)
    PROVE  AloneBody'
<1>0. PICK u : u = request[r].user
  OBVIOUS
<1> DEFINE q == request[r]
           new == NewSession(u, q.password)
<1>1. /\ q.user = u /\ q.step = "open" /\ q # Idle /\ request' = Done(r)
      /\ UNCHANGED <<users, open>> /\ sessions' = Append(sessions, new)
  BY <1>0 DEF OpenSession, At, Idle
<1>2. /\ u \in Users /\ users[u] \in Row /\ Fresh(q, users, open) /\ Only(r, Idle)
      /\ \A v : ~Doing("revoke", v) /\ ~Doing("locked", v)
  BY <1>1, UnderWay
<1>3. users[u].known /\ users[u].failed = 0 /\ q.password \in open[u]
  BY <1>1, <1>2 DEF Fresh
<1>4. Exclusive' /\ AllFresh'
  BY <1>2, EndsAlone
<1>5. new.user = u /\ new.by = q.password
  BY DEF NewSession
<1> HIDE DEF new, q
<1>6. /\ DOMAIN sessions' = DOMAIN sessions \union {Len(sessions) + 1}
      /\ sessions'[Len(sessions) + 1] = new
      /\ \A s \in DOMAIN sessions : sessions'[s] = sessions[s]
  BY <1>1, SessionRows
<1>7. OneOpen'
  BY <1>1 DEF AloneBody, OneOpen
<1>8. SessionsFollow'
  <2> SUFFICES ASSUME NEW s \in DOMAIN sessions' PROVE SessionOK(sessions[s])'
    BY DEF SessionsFollow
  <2>1. CASE s \in DOMAIN sessions
    <3>1. SessionOK(sessions[s]) /\ sessions'[s] = sessions[s]
      BY <1>6, <2>1 DEF AloneBody, SessionsFollow
    <3> QED
      BY <1>1, <1>2, <3>1 DEF SessionOK
  <2>2. CASE s = Len(sessions) + 1
    BY <1>1, <1>3, <1>5, <1>6, <2>2 DEF SessionOK
  <2> QED
    BY <1>6, <2>1, <2>2
<1>9. LocksHold'
  <2> SUFFICES ASSUME NEW v \in Users PROVE LockOK(v)'
    BY DEF LocksHold
  <2>1. CASE v = u
    BY <1>1, <1>3, <2>1, BoundsAreNumbers, AccountsAssumption DEF LockOK
  <2>2. CASE v # u
    <3>1. LockOK(v)
      BY DEF AloneBody, LocksHold
    <3> QED
      BY <1>1, <1>2, <1>5, <1>6, <2>2, <3>1 DEF LockOK
  <2> QED
    BY <2>1, <2>2
<1> QED
  BY <1>4, <1>7, <1>8, <1>9 DEF AloneBody

\* The sessions of an account are over, and only they change.
LEMMA RevokedRows ==
    ASSUME Inv, NEW u
    PROVE  /\ DOMAIN Revoked(u) = DOMAIN sessions
           /\ \A s \in DOMAIN sessions :
                /\ Revoked(u)[s].user = sessions[s].user /\ Revoked(u)[s].by = sessions[s].by
                /\ sessions[s].over \/ sessions[s].user = u => Revoked(u)[s].over
                /\ sessions[s].user # u => Revoked(u)[s].over = sessions[s].over
<1> DEFINE row(s) == [sessions[s] EXCEPT !.over = @ \/ sessions[s].user = u]
<1>1. DOMAIN Revoked(u) = DOMAIN sessions /\ \A s \in DOMAIN sessions : Revoked(u)[s] = row(s)
  BY DEF Revoked
<1>2. ASSUME NEW s \in DOMAIN sessions
      PROVE  /\ row(s).user = sessions[s].user /\ row(s).by = sessions[s].by
             /\ row(s).over = (sessions[s].over \/ sessions[s].user = u)
  BY SessionRows DEF Session
<1>3. \A s \in DOMAIN sessions : sessions[s].over \in BOOLEAN
  BY SessionRows DEF Session
<1> HIDE DEF row
<1> QED
  BY <1>1, <1>2, <1>3

\* The sessions of the account a request works for end with the request.
LEMMA RevokeAlone ==
    ASSUME Inv, AloneBody, NEW r \in Requests, RevokeAll(r) \/ RevokeIfLocked(r)
    PROVE  AloneBody'
<1>0. PICK u : u = request[r].user
  OBVIOUS
<1> DEFINE q == request[r]
<1>1. /\ q.user = u /\ q # Idle /\ request' = Done(r) /\ UNCHANGED <<users, open>>
      /\ \/ q.step = "revoke" /\ sessions' = Revoked(u)
         \/ q.step = "locked" /\ sessions' = IF users[u].locked THEN Revoked(u) ELSE sessions
  BY <1>0 DEF RevokeAll, RevokeIfLocked, At, Idle
<1>2. /\ u \in Users /\ Only(r, Idle)
      /\ \A step, v : step # "idle" => (Doing(step, v) <=> q.step = step /\ q.user = v)
  BY <1>1, UnderWay
<1>3. Exclusive' /\ AllFresh'
  BY <1>2, EndsAlone
<1> HIDE DEF q
<1>4. OneOpen'
  BY <1>1 DEF AloneBody, OneOpen
<1>5. /\ DOMAIN sessions' = DOMAIN sessions
      /\ \A s \in DOMAIN sessions :
           /\ sessions'[s].user = sessions[s].user /\ sessions'[s].by = sessions[s].by
           /\ sessions[s].over => sessions'[s].over
           /\ sessions[s].user = u /\ (q.step = "revoke" \/ users[u].locked) => sessions'[s].over
  BY <1>1, RevokedRows
<1>6. SessionsFollow'
  <2> SUFFICES ASSUME NEW s \in DOMAIN sessions' PROVE SessionOK(sessions[s])'
    BY DEF SessionsFollow
  <2>1. SessionOK(sessions[s]) /\ s \in DOMAIN sessions
    BY <1>5 DEF AloneBody, SessionsFollow
  <2>2. Doing("revoke", sessions[s].user) => sessions'[s].over
    BY <1>1, <1>2, <1>5, <2>1
  <2> QED
    BY <1>1, <1>5, <2>1, <2>2 DEF SessionOK
<1>7. LocksHold'
  <2> SUFFICES ASSUME NEW v \in Users PROVE LockOK(v)'
    BY DEF LocksHold
  <2>1. LockOK(v)
    BY DEF AloneBody, LocksHold
  <2>2. Doing("locked", v) => v = u /\ q.step = "locked"
    BY <1>1, <1>2
  <2>3. ASSUME users'[v].known, users'[v].failed >= MaxFailures
        PROVE  /\ users'[v].locked
               /\ \A s \in DOMAIN sessions' : sessions'[s].user = v => sessions'[s].over
    <3>1. /\ users[v].locked
          /\ Doing("locked", v) \/ \A s \in DOMAIN sessions : sessions[s].user = v => sessions[s].over
      BY <1>1, <2>1, <2>3 DEF LockOK
    <3>2. CASE Doing("locked", v)
      BY <1>1, <1>5, <2>2, <3>1, <3>2
    <3>3. CASE \A s \in DOMAIN sessions : sessions[s].user = v => sessions[s].over
      BY <1>1, <1>5, <3>1, <3>3
    <3> QED
      BY <3>1, <3>2, <3>3
  <2> QED
    BY <2>3 DEF LockOK
<1> QED
  BY <1>3, <1>4, <1>6, <1>7 DEF AloneBody

\* A new password: the sessions of the old one are about to be revoked.
LEMMA ChangeAlone ==
    ASSUME Inv, AloneBody, NEW r \in Requests, CommitChange(r)
    PROVE  AloneBody'
<1>0. PICK u : u = request[r].user
  OBVIOUS
<1> DEFINE q == request[r]
           x == [q EXCEPT !.step = "revoke"]
<1>1. /\ q.user = u /\ q.step = "change" /\ q # Idle /\ request' = Goes(r, "revoke")
      /\ UNCHANGED <<users, sessions>>
      /\ open' = [open EXCEPT ![u] = (open[u] \ {q.password}) \union {passwords + 1}]
  BY <1>0 DEF CommitChange, At, Idle
<1>2. /\ u \in Users /\ Fresh(q, users, open) /\ Only(r, x)
      /\ \A v : ~Doing("revoke", v) /\ ~Doing("locked", v)
  BY <1>1, UnderWay
<1>3. open[u] = {q.password} /\ users[u].known
  BY <1>1, <1>2 DEF Fresh
<1>4. x.step = "revoke" /\ x.user = u
  BY <1>1, SameFields
<1>5. Fresh(x, users', open')
  BY <1>1, <1>3, <1>4 DEF Fresh
<1> HIDE DEF q, x
<1>6. /\ Exclusive' /\ AllFresh'
      /\ \A step, v : step # "idle" => (Doing(step, v)' <=> x.step = step /\ x.user = v)
  BY <1>2, <1>5, OnlyOne
<1>7. open'[u] = {passwords + 1} /\ \A v \in Users \ {u} : open'[v] = open[v]
  BY <1>1, <1>2, <1>3 DEF Inv, PasswordsOK
<1>8. OneOpen'
  <2> SUFFICES ASSUME NEW v \in Users, users'[v].known
               PROVE  \E p \in open'[v] : open'[v] = {p}
    BY DEF OneOpen
  <2>1. CASE v = u
    BY <1>7, <2>1
  <2>2. CASE v # u
    BY <1>1, <1>7, <2>2 DEF AloneBody, OneOpen
  <2> QED
    BY <2>1, <2>2
<1>9. SessionsFollow'
  <2> SUFFICES ASSUME NEW s \in DOMAIN sessions' PROVE SessionOK(sessions[s])'
    BY DEF SessionsFollow
  <2>1. /\ SessionOK(sessions[s]) /\ sessions'[s] = sessions[s] /\ s \in DOMAIN sessions
        /\ sessions[s].user \in Users
    BY <1>1, SessionRows DEF AloneBody, SessionsFollow
  <2>2. Doing("revoke", u)'
    BY <1>4, <1>6
  <2>3. CASE sessions[s].user = u
    BY <1>1, <1>3, <2>1, <2>2, <2>3 DEF SessionOK
  <2>4. CASE sessions[s].user # u
    BY <1>1, <1>2, <1>7, <2>1, <2>4 DEF SessionOK
  <2> QED
    BY <2>3, <2>4
<1>10. LocksHold'
  <2> SUFFICES ASSUME NEW v \in Users PROVE LockOK(v)'
    BY DEF LocksHold
  <2>1. LockOK(v)
    BY DEF AloneBody, LocksHold
  <2> QED
    BY <1>1, <1>2, <2>1 DEF LockOK
<1> QED
  BY <1>6, <1>8, <1>9, <1>10 DEF AloneBody

\* A new account has one row and no session.
LEMMA CreateAlone ==
    ASSUME Inv, AloneBody, NEW b \in Browsers, NEW u \in Users, CreateUser(b, u)
    PROVE  AloneBody'
<1>1. /\ ~users[u].known /\ UNCHANGED <<sessions, request>>
      /\ open' = [open EXCEPT ![u] = {passwords + 1}]
      /\ \E admin \in BOOLEAN : users' = [users EXCEPT ![u] = NewRow(admin)]
  BY DEF CreateUser
<1>2. /\ users'[u].known /\ users'[u].failed = 0 /\ \A v \in Users \ {u} : users'[v] = users[v]
  BY <1>1 DEF Inv, AccountsOK, NewRow
<1>3. open'[u] = {passwords + 1} /\ \A v \in Users \ {u} : open'[v] = open[v]
  BY <1>1 DEF Inv, PasswordsOK
<1>4. \A step, v : Doing(step, v)' <=> Doing(step, v)
  BY <1>1 DEF Doing
<1>5. Exclusive'
  BY <1>1 DEF AloneBody, Exclusive
<1>6. OneOpen'
  <2> SUFFICES ASSUME NEW v \in Users, users'[v].known
               PROVE  \E p \in open'[v] : open'[v] = {p}
    BY DEF OneOpen
  <2>1. CASE v = u
    BY <1>3, <2>1
  <2>2. CASE v # u
    BY <1>2, <1>3, <2>2 DEF AloneBody, OneOpen
  <2> QED
    BY <2>1, <2>2
<1>7. AllFresh'
  <2> SUFFICES ASSUME NEW r \in Requests, request'[r] # Idle
               PROVE  Fresh(request'[r], users', open')
    BY DEF AllFresh
  <2>1. /\ Fresh(request[r], users, open) /\ request'[r] = request[r]
        /\ request[r].user \in Users
    BY <1>1, UnderWay
  <2>2. request[r].user # u
    BY <1>1, <2>1 DEF Fresh
  <2> QED
    BY <1>2, <1>3, <2>1, <2>2 DEF Fresh
<1>8. \A s \in DOMAIN sessions :
        sessions[s].user # u /\ sessions[s].user \in Users /\ SessionOK(sessions[s])
  BY <1>1, SessionRows DEF AloneBody, SessionsFollow, SessionOK
<1>9. SessionsFollow'
  <2> SUFFICES ASSUME NEW s \in DOMAIN sessions' PROVE SessionOK(sessions[s])'
    BY DEF SessionsFollow
  <2>1. /\ SessionOK(sessions[s]) /\ sessions'[s] = sessions[s]
        /\ sessions[s].user # u /\ sessions[s].user \in Users
    BY <1>1, <1>8
  <2> QED
    BY <1>2, <1>3, <1>4, <2>1 DEF SessionOK
<1>10. LocksHold'
  <2> SUFFICES ASSUME NEW v \in Users PROVE LockOK(v)'
    BY DEF LocksHold
  <2>1. CASE v = u
    BY <1>2, <2>1, BoundsAreNumbers, AccountsAssumption DEF LockOK
  <2>2. CASE v # u
    <3>1. LockOK(v)
      BY DEF AloneBody, LocksHold
    <3> QED
      BY <1>1, <1>2, <1>4, <2>2, <3>1 DEF LockOK
  <2> QED
    BY <2>1, <2>2
<1> QED
  BY <1>5, <1>6, <1>7, <1>9, <1>10 DEF AloneBody

\* At first nothing is under way, every account has one row and no failure.
LEMMA AloneInit == Init => AloneBody
<1> SUFFICES ASSUME Init PROVE AloneBody
  OBVIOUS
<1>1. sessions = <<>> /\ \A r \in Requests : request[r] = Idle
  BY DEF Init
<1>2. Exclusive /\ AllFresh /\ SessionsFollow
  BY <1>1 DEF Exclusive, AllFresh, SessionsFollow
<1>3. \A u \in Users : /\ users[u].known => u \in First
                        /\ users[u].failed = 0
  BY DEF Init, NewRow, NoRow
<1>4. OneOpen
  BY <1>3 DEF Init, OneOpen
<1>5. LocksHold
  BY <1>3, BoundsAreNumbers, AccountsAssumption DEF LocksHold, LockOK
<1> QED
  BY <1>2, <1>4, <1>5 DEF AloneBody

\* Every step keeps AloneInv.
LEMMA AloneStep == Inv /\ AloneInv /\ [Next]_vars => AloneInv'
<1> SUFFICES ASSUME Inv, AloneBody, alone, [Next]_vars PROVE AloneBody'
  <2>1. CASE Next
    BY <2>1, Zenon DEF Next, AloneInv
  <2>2. CASE UNCHANGED vars
    BY <2>2 DEF vars, AloneInv
  <2> QED
    BY <2>1, <2>2
<1>1. ASSUME NEW r \in Requests,
             \/ CommitReset(r) \/ OpenSession(r) \/ CommitFail(r) \/ RevokeIfLocked(r)
             \/ CommitChange(r) \/ RevokeAll(r) \/ ToggleLock(r) \/ ToggleActive(r) \/ Stop(r)
      PROVE  AloneBody'
  BY <1>1, ResetAlone, OpenAlone, FailAlone, RevokeAlone, ChangeAlone, ToggleAlone DEF Stop
<1>2. ASSUME NEW r \in Requests, NEW b \in Browsers, NEW u \in Users,
             BeginLogin(r, b, u) \/ BeginChange(r, b, u) \/ Modify(r, b, u) \/ BeginToggle(r, b, u)
      PROVE  AloneBody'
  BY <1>2, BeginsAlone
<1>3. ASSUME NEW b \in Browsers, NEW u \in Users, CreateUser(b, u) PROVE AloneBody'
  BY <1>3, CreateAlone
<1>4. ASSUME NEW b \in Browsers, TurnAway(b) PROVE AloneBody'
  BY <1>4, SessionsEnd DEF TurnAway
<1>5. ASSUME NEW b \in Browsers, Logout(b) PROVE AloneBody'
  <2>1. /\ UNCHANGED <<users, open, request>>
        /\ sessions' = [sessions EXCEPT ![cookie[b]] = [sessions[cookie[b]] EXCEPT !.over = TRUE]]
    BY <1>5 DEF Logout
  <2>2. \A s \in DOMAIN sessions :
          LET x == [sessions[s] EXCEPT !.over = TRUE] IN
          x.user = sessions[s].user /\ x.by = sessions[s].by /\ x.over
    BY SessionRows DEF Session
  <2>3. \A s \in DOMAIN sessions : /\ sessions'[s].user = sessions[s].user
                                   /\ sessions'[s].by = sessions[s].by
                                   /\ sessions[s].over => sessions'[s].over
    BY <2>1, <2>2
  <2> QED
    BY <2>1, <2>3, SessionsEnd
<1>6. ASSUME NEW c \in DOMAIN sessions, RunOut(c) PROVE AloneBody'
  <2>1. /\ UNCHANGED <<users, open, request>>
        /\ sessions' = [sessions EXCEPT ![c] = [sessions[c] EXCEPT !.late = TRUE]]
    BY <1>6 DEF RunOut
  <2>2. LET x == [sessions[c] EXCEPT !.late = TRUE] IN
        x.user = sessions[c].user /\ x.by = sessions[c].by /\ x.over = sessions[c].over
    BY SessionRows DEF Session
  <2>3. \A s \in DOMAIN sessions : /\ sessions'[s].user = sessions[s].user
                                   /\ sessions'[s].by = sessions[s].by
                                   /\ sessions[s].over => sessions'[s].over
    BY <2>1, <2>2
  <2> QED
    BY <2>1, <2>3, SessionsEnd
<1>7. CASE UNCHANGED vars
  BY <1>7, SessionsEnd DEF vars
<1> QED
  BY <1>1, <1>2, <1>3, <1>4, <1>5, <1>6, <1>7 DEF Next

\* With one request at a time, what a request has read stays true until it
\* ends, and the sessions it leaves behind are revoked before another begins.
THEOREM AloneInductive == Spec => []AloneInv
<1>1. Init => AloneInv
  BY AloneInit DEF AloneInv
<1> QED
  BY <1>1, AloneStep, Inductive, PTL DEF Spec

\* With one request at a time an account has one password, and once a change of
\* it is over no session opened with the old one is valid.
THEOREM SessionsSafe == Spec => []SessionsFollowPassword
<1>1. Inv /\ AloneInv => SessionsFollowPassword
  <2> SUFFICES ASSUME Inv, AloneBody, alone
               PROVE  /\ OnePassword
                      /\ Resting => \A s \in DOMAIN sessions : PasswordFollowed(s)
    BY DEF AloneInv, SessionsFollowPassword
  <2>1. OnePassword
    <3> SUFFICES ASSUME NEW u \in Users, users[u].known PROVE Cardinality(open[u]) = 1
      BY DEF OnePassword, Known, Inv, AccountsOK
    <3>1. \E p \in open[u] : open[u] = {p}
      BY DEF AloneBody, OneOpen
    <3> QED
      BY <3>1, FS_Singleton
  <2>2. ASSUME Resting, NEW s \in DOMAIN sessions PROVE PasswordFollowed(s)
    <3>1. \A r \in Requests : request[r] = Idle
      BY <2>2 DEF Resting, Inv, RequestsOK
    <3>2. SessionOK(sessions[s])
      BY DEF AloneBody, SessionsFollow
    <3> QED
      BY <3>1, <3>2 DEF SessionOK, Doing, Idle, PasswordFollowed
  <2> QED
    BY <2>1, <2>2
<1> QED
  BY <1>1, Inductive, AloneInductive, PTL

\* With one request at a time, the third failure locks until someone unlocks,
\* and no session outlives the lock.
THEOREM FailuresSafe == Spec => []FailuresLock
<1>1. Inv /\ AloneInv => FailuresLock
  <2> SUFFICES ASSUME Inv, AloneBody, Resting, NEW u \in Users, users[u].known,
                      users[u].failed >= MaxFailures
               PROVE  /\ users[u].locked
                      /\ \A s \in DOMAIN sessions : sessions[s].user = u => sessions[s].over
    BY DEF AloneInv, FailuresLock, Known, Inv, AccountsOK
  <2>1. \A r \in Requests : request[r] = Idle
    BY DEF Resting, Inv, RequestsOK
  <2>2. LockOK(u)
    BY DEF AloneBody, LocksHold
  <2> QED
    BY <2>1, <2>2 DEF LockOK, Doing, Idle
<1> QED
  BY <1>1, Inductive, AloneInductive, PTL

-----------------------------------------------------------------------------
(* The customers.                                                          *)

CustomerRow == [active : BOOLEAN, account : Nat, copy : Nat, home : BOOLEAN]

MailFields == {"customer", "name", "active"}
PushFields == {"at", "todo", "c", "found", "seen", "ids", "rows", "lost", "n"}
ImportFields == {"at", "todo", "failed"}

TablesOK ==
    /\ customers \in Seq(CustomerRow) /\ accounts \in Seq(Mails) /\ copies \in Seq(Nat)
    /\ \A c \in DOMAIN customers : customers[c].account \in 0 .. Len(accounts)
    /\ \A m \in DOMAIN mails :
         /\ m \in Mails
         /\ DOMAIN mails[m] = MailFields

\* A push, when there are n customers and k accounts.
PushRow(r, n, k) ==
    /\ DOMAIN r = PushFields
    /\ r.todo \subseteq 1 .. n
    /\ r.at \in {"look", "post", "link", "henrri"} => r.c \in 1 .. n
    /\ r.at = "post" => r.found \in Mails
    /\ r.at = "link" => r.found \in 1 .. k
    /\ DOMAIN r.ids \subseteq 1 .. n /\ \A c \in DOMAIN r.ids : r.ids[c] \in Nat \ {0}
    /\ DOMAIN r.seen \subseteq 1 .. n /\ \A c \in DOMAIN r.seen : r.seen[c] \in Nat
    /\ r.at \in {"idle", "done"} => r.ids = <<>> /\ r.seen = <<>> /\ r.rows = {}

PushesOK ==
    /\ DOMAIN push = Syncers
    /\ push = [p \in Syncers |-> push[p]]
    /\ \A p \in Syncers : PushRow(push[p], Len(customers), Len(accounts))

ImportOK ==
    /\ DOMAIN import = ImportFields
    /\ import.todo \subseteq DOMAIN accounts
    /\ import.at = "idle" => import.todo = {}

Owned(m, c) == m \in DOMAIN mails /\ mails[m].customer = c

\* While addresses stay, what a push has looked up is still its customer's.
LookedUp(r) ==
    /\ r.at = "post" => Owned(r.found, r.c)
    /\ r.at = "link" => Owned(accounts[r.found], r.c)
    /\ r.lost = {}

LinksOK ==
    stays =>
      /\ \A c \in DOMAIN customers :
           customers[c].account # 0 => Owned(accounts[customers[c].account], c)
      /\ \A p \in Syncers : LookedUp(push[p])

\* What a push has loaded and not changed is what the table has.
SeenOK(r) == \A c \in DOMAIN r.seen \ DOMAIN r.ids : r.seen[c] = customers[c].copy

\* In a calm behaviour there is one push at most, none during an import, and the
\* copies it has loaded are those of the table.
TurnsOK ==
    calm =>
      /\ \A p, q \in Syncers : push[p].at # "idle" /\ push[q].at # "idle" => p = q
      /\ import.at # "idle" => \A p \in Syncers : push[p].at = "idle"
      /\ \A p \in Syncers : SeenOK(push[p])

\* The table knows the copy of the customer c, or will after the commit of a push.
Kept(c) ==
    /\ c \in DOMAIN customers
    /\ customers[c].copy # 0 \/ \E p \in Syncers : c \in DOMAIN push[p].ids

CopiesOK ==
    stays /\ calm =>
      /\ \A i \in DOMAIN copies : Kept(copies[i])
      /\ \A i, j \in DOMAIN copies : copies[i] = copies[j] => i = j

CustomersInv ==
    /\ stays \in BOOLEAN /\ calm \in BOOLEAN
    /\ TablesOK
    /\ PushesOK
    /\ ImportOK
    /\ LinksOK
    /\ TurnsOK
    /\ CopiesOK

\* The empty tuple is a function of nothing.
LEMMA EmptyTuple == DOMAIN <<>> = {}
OBVIOUS

\* At first there is nobody, and no push.
LEMMA CustomersInitInv == CustomersInit => CustomersInv
<1> SUFFICES ASSUME CustomersInit
             PROVE  CustomersInv
    OBVIOUS
<1>1. TablesOK
    BY EmptyTuple DEF CustomersInit, TablesOK
<1>2. \A p \in Syncers : push[p] = NoPush(0)
    BY DEF CustomersInit
<1>3. PushesOK
  <2>1. DOMAIN push = Syncers /\ push = [p \in Syncers |-> push[p]]
      BY DEF CustomersInit
  <2>2. PushRow(NoPush(0), 0, 0)
      BY EmptyTuple DEF PushRow, PushFields, NoPush
  <2>3. Len(customers) = 0 /\ Len(accounts) = 0
      BY DEF CustomersInit
  <2> QED
      BY <1>2, <2>1, <2>2, <2>3 DEF PushesOK
<1>4. ImportOK /\ import.at = "idle"
    BY DEF CustomersInit, ImportOK, ImportFields, Rest
<1>5. /\ LinksOK
      /\ \A p \in Syncers : push[p].at = "idle" /\ push[p].seen = <<>>
    BY <1>2, EmptyTuple DEF CustomersInit, LinksOK, LookedUp, NoPush
<1>6. TurnsOK
    BY <1>4, <1>5, EmptyTuple DEF TurnsOK, SeenOK
<1>7. CopiesOK
    BY EmptyTuple DEF CustomersInit, CopiesOK
<1> QED
    BY <1>1, <1>3, <1>4, <1>5, <1>6, <1>7 DEF CustomersInv, CustomersInit

\* A push keeps its shape when the tables grow.
LEMMA PushRowGrows ==
    ASSUME NEW r, NEW n \in Nat, NEW k \in Nat, NEW n2 \in Nat, NEW k2 \in Nat,
           n <= n2, k <= k2, PushRow(r, n, k)
    PROVE  PushRow(r, n2, k2)
<1>1. 1 .. n \subseteq 1 .. n2 /\ 1 .. k \subseteq 1 .. k2
    OBVIOUS
<1> QED
    BY <1>1 DEF PushRow

\* Nobody else works during a push in a calm behaviour.
LEMMA QuietIdles ==
    ASSUME CustomersInv, Quiet, calm
    PROVE  /\ import.at = "idle"
           /\ \A p \in Syncers : push[p].at = "idle" /\ DOMAIN push[p].seen = {}
BY EmptyTuple DEF CustomersInv, Quiet, PushesOK, PushRow

\* The users, the shop and the import add customers, addresses and accounts, and
\* change neither a link nor a copy.
LEMMA TablesGrow ==
    ASSUME CustomersInv, UNCHANGED <<stays, calm, push, copies>>,
           customers' \in Seq(CustomerRow), accounts' \in Seq(Mails), ImportOK',
           Len(customers) <= Len(customers'), Len(accounts) <= Len(accounts'),
           \A c \in DOMAIN customers :
             customers'[c].account = customers[c].account /\ customers'[c].copy = customers[c].copy,
           stays => \A a \in DOMAIN accounts : accounts'[a] = accounts[a],
           \A m \in DOMAIN mails' :
             /\ m \in Mails
             /\ DOMAIN mails'[m] = MailFields,
           stays => \A m \in DOMAIN mails :
             m \in DOMAIN mails' /\ mails'[m].customer = mails[m].customer,
           \A c \in DOMAIN customers' \ DOMAIN customers :
             LET a == customers'[c].account IN
             /\ a \in 0 .. Len(accounts')
             /\ a # 0 => accounts'[a] \in DOMAIN mails' /\ mails'[accounts'[a]].customer = c,
           calm => \A p \in Syncers : push[p].at = "idle"
    PROVE  CustomersInv'
<1>1. /\ Len(customers) \in Nat /\ Len(customers') \in Nat
      /\ Len(accounts) \in Nat /\ Len(accounts') \in Nat
      /\ DOMAIN customers = 1 .. Len(customers) /\ DOMAIN customers' = 1 .. Len(customers')
      /\ DOMAIN accounts = 1 .. Len(accounts) /\ DOMAIN accounts' = 1 .. Len(accounts')
    BY DEF CustomersInv, TablesOK
<1>2. ASSUME NEW c \in DOMAIN customers
      PROVE  /\ c \in DOMAIN customers'
             /\ customers[c].account \in 0 .. Len(accounts)
             /\ customers[c].account \in 0 .. Len(accounts')
             /\ customers[c].account # 0 => customers[c].account \in DOMAIN accounts
    BY <1>1 DEF CustomersInv, TablesOK
<1>3. TablesOK'
  <2>1. ASSUME NEW c \in DOMAIN customers'
        PROVE  customers'[c].account \in 0 .. Len(accounts')
      BY <1>2
  <2> QED
      BY <2>1 DEF CustomersInv, TablesOK
<1>4. PushesOK'
  <2>1. ASSUME NEW p \in Syncers
        PROVE  PushRow(push[p], Len(customers'), Len(accounts'))
      BY <1>1, PushRowGrows DEF CustomersInv, PushesOK
  <2> QED
      BY <2>1 DEF CustomersInv, PushesOK
<1>5. LinksOK'
  <2> SUFFICES ASSUME stays
               PROVE  /\ \A c \in DOMAIN customers' :
                           customers'[c].account # 0 => Owned(accounts[customers[c].account], c)'
                      /\ \A p \in Syncers : LookedUp(push[p])'
      BY DEF LinksOK
  <2>1. ASSUME NEW m, NEW c, Owned(m, c)
        PROVE  m \in DOMAIN mails' /\ mails'[m].customer = c
      BY <2>1 DEF Owned
  <2>2. ASSUME NEW c \in DOMAIN customers', customers'[c].account # 0
        PROVE  Owned(accounts[customers[c].account], c)'
    <3>1. CASE c \in DOMAIN customers
      <4>1. Owned(accounts[customers[c].account], c)
          BY <2>2, <3>1 DEF CustomersInv, LinksOK
      <4>2. accounts'[customers'[c].account] = accounts[customers[c].account]
          BY <1>2, <2>2, <3>1
      <4> QED
          BY <2>1, <4>1, <4>2 DEF Owned
    <3>2. CASE c \notin DOMAIN customers
        BY <2>2, <3>2 DEF Owned
    <3> QED
        BY <3>1, <3>2
  <2>3. ASSUME NEW p \in Syncers
        PROVE  LookedUp(push[p])'
    <3>1. LookedUp(push[p]) /\ PushRow(push[p], Len(customers), Len(accounts))
        BY DEF CustomersInv, LinksOK, PushesOK
    <3>2. push[p].at = "link" => accounts'[push[p].found] = accounts[push[p].found]
        BY <1>1, <3>1 DEF PushRow
    <3> QED
        BY <2>1, <3>1, <3>2 DEF LookedUp, Owned
  <2> QED
      BY <2>2, <2>3
<1>6. TurnsOK'
  <2>1. \A p \in Syncers : push[p].at = "idle" => DOMAIN push[p].seen = {}
      BY EmptyTuple DEF CustomersInv, PushesOK, PushRow
  <2> QED
      BY <2>1 DEF TurnsOK, SeenOK
<1>7. CopiesOK'
  <2>1. \A c : Kept(c) => Kept(c)'
      BY <1>2 DEF Kept
  <2> QED
      BY <2>1 DEF CustomersInv, CopiesOK
<1> QED
    BY <1>3, <1>4, <1>5, <1>6, <1>7 DEF CustomersInv

\* The numbers of the rows and the shape of what is read, once and for all.
LEMMA Rows ==
    ASSUME CustomersInv
    PROVE  /\ Len(customers) \in Nat /\ DOMAIN customers = 1 .. Len(customers)
           /\ Len(accounts) \in Nat /\ DOMAIN accounts = 1 .. Len(accounts)
           /\ Len(copies) \in Nat /\ DOMAIN copies = 1 .. Len(copies)
           /\ customers \in Seq(CustomerRow) /\ accounts \in Seq(Mails) /\ copies \in Seq(Nat)
           /\ \A c \in DOMAIN customers : customers[c] \in CustomerRow
           /\ \A m \in DOMAIN mails :
                /\ m \in Mails
                /\ DOMAIN mails[m] = MailFields
BY DEF CustomersInv, TablesOK

\* One element more.
LEMMA Appended ==
    ASSUME NEW S, NEW s \in Seq(S), NEW e \in S, NEW t, t = Append(s, e)
    PROVE  /\ t \in Seq(S) /\ Len(t) = Len(s) + 1 /\ t[Len(t)] = e
           /\ DOMAIN t = 1 .. Len(t) /\ DOMAIN t \ DOMAIN s = {Len(t)}
           /\ \A i \in DOMAIN s : t[i] = s[i]
<1>1. t \in Seq(S) /\ Len(t) = Len(s) + 1 /\ Len(s) \in Nat
    BY AppendProperties
<1>2. DOMAIN s = 1 .. Len(s) /\ DOMAIN t = 1 .. Len(t)
    BY <1>1
<1>3. t[Len(s) + 1] = e /\ \A i \in 1 .. Len(s) : t[i] = s[i]
    BY AppendProperties
<1> QED
    BY <1>1, <1>2, <1>3

\* A customer typed in has no link.
LEMMA CreateCustomerInv ==
    ASSUME CustomersInv, UNCHANGED <<stays, calm>>, CreateCustomer
    PROVE  CustomersInv'
<1> DEFINE e == Customer(0, FALSE)
<1>1. customers' = Append(customers, e)
    BY DEF CreateCustomer
<1>2. e \in CustomerRow /\ e.account = 0
    BY DEF Customer, CustomerRow
<1> HIDE DEF e
<1>3. /\ customers' \in Seq(CustomerRow) /\ Len(customers') = Len(customers) + 1
      /\ DOMAIN customers' \ DOMAIN customers = {Len(customers')}
      /\ customers'[Len(customers')].account = 0
      /\ \A c \in DOMAIN customers : customers'[c] = customers[c]
    BY <1>1, <1>2, Rows, Appended
<1>4. UNCHANGED <<mails, accounts, copies, push, import>> /\ ImportOK' /\ Quiet
    BY DEF CreateCustomer, CustomersInv, ImportOK
<1> QED
    BY <1>3, <1>4, Rows, QuietIdles, TablesGrow

\* A customer is changed, save its link and its copy.
LEMMA CustomerChanges ==
    ASSUME CustomersInv, UNCHANGED <<stays, calm, mails, accounts, copies, push, import>>,
           NEW c \in DOMAIN customers, Quiet, NEW r \in CustomerRow,
           customers' = [customers EXCEPT ![c] = r],
           r.account = customers[c].account, r.copy = customers[c].copy
    PROVE  CustomersInv'
<1>1. /\ customers' \in Seq(CustomerRow) /\ Len(customers') = Len(customers)
      /\ \A d \in DOMAIN customers : customers'[d] = IF d = c THEN r ELSE customers[d]
    BY Rows
<1>2. ImportOK'
    BY DEF CustomersInv, ImportOK
<1>3. DOMAIN customers' = DOMAIN customers
    BY <1>1, Rows
<1> QED
    BY <1>1, <1>2, <1>3, Rows, QuietIdles, TablesGrow

\* A customer that becomes active or not keeps its link and its copy.
LEMMA SetActiveInv ==
    ASSUME CustomersInv, UNCHANGED <<stays, calm>>, NEW c \in DOMAIN customers, SetActive(c)
    PROVE  CustomersInv'
<1> DEFINE r == [customers[c] EXCEPT !.active = ~@]
<1>1. customers[c] \in CustomerRow
    BY Rows
<1>2. r \in CustomerRow /\ r.account = customers[c].account /\ r.copy = customers[c].copy
    BY <1>1 DEF CustomerRow
<1>3. customers' = [customers EXCEPT ![c] = r] /\ Quiet
    BY DEF SetActive
<1>4. UNCHANGED <<mails, accounts, copies, push, import>>
    BY DEF SetActive
<1> HIDE DEF r
<1> QED
    BY <1>2, <1>3, <1>4, CustomerChanges

\* An address at home touches neither the link nor the copy.
LEMMA SetHomeInv ==
    ASSUME CustomersInv, UNCHANGED <<stays, calm>>, NEW c \in DOMAIN customers, SetHome(c)
    PROVE  CustomersInv'
<1> DEFINE r == [customers[c] EXCEPT !.home = ~@]
<1>1. customers[c] \in CustomerRow
    BY Rows
<1>2. r \in CustomerRow /\ r.account = customers[c].account /\ r.copy = customers[c].copy
    BY <1>1 DEF CustomerRow
<1>3. customers' = [customers EXCEPT ![c] = r] /\ Quiet
    BY DEF SetHome
<1>4. UNCHANGED <<mails, accounts, copies, push, import>>
    BY DEF SetHome
<1> HIDE DEF r
<1> QED
    BY <1>2, <1>3, <1>4, CustomerChanges

\* The addresses of the ERP change; none passes to another customer while they stay.
LEMMA MailsChange ==
    ASSUME CustomersInv, Quiet,
           UNCHANGED <<stays, calm, customers, accounts, copies, push, import>>,
           \A m \in DOMAIN mails' :
             /\ m \in Mails
             /\ DOMAIN mails'[m] = MailFields,
           stays => \A m \in DOMAIN mails :
             m \in DOMAIN mails' /\ mails'[m].customer = mails[m].customer
    PROVE  CustomersInv'
<1>1. ImportOK'
    BY DEF CustomersInv, ImportOK
<1> QED
    BY <1>1, Rows, QuietIdles, TablesGrow

\* A new address was nobody's.
LEMMA AddMailInv ==
    ASSUME CustomersInv, UNCHANGED <<stays, calm>>, NEW c \in DOMAIN customers,
           NEW m \in Mails, NEW name \in Names, AddMail(c, m, name)
    PROVE  CustomersInv'
<1>1. /\ UNCHANGED <<customers, accounts, copies, push, import>> /\ Quiet
      /\ m \notin DOMAIN mails /\ mails' = With(mails, m, Mail(c, name))
    BY DEF AddMail
<1>2. /\ DOMAIN mails' = DOMAIN mails \union {m} /\ mails'[m] = Mail(c, name)
      /\ \A x \in DOMAIN mails : mails'[x] = mails[x]
    BY <1>1 DEF With
<1>3. \A x \in DOMAIN mails' :
        /\ x \in Mails
        /\ DOMAIN mails'[x] = MailFields
    BY <1>2, Rows DEF Mail, MailFields
<1> QED
    BY <1>1, <1>2, <1>3, MailsChange

\* An address that is renamed or deactivated keeps its customer; it is replaced only
\* when addresses do not stay.
LEMMA UpdateMailInv ==
    ASSUME CustomersInv, UNCHANGED <<stays, calm>>, NEW m \in DOMAIN mails,
           NEW new \in Mails, NEW name \in Names, NEW active \in BOOLEAN,
           UpdateMail(m, new, name, active)
    PROVE  CustomersInv'
<1> DEFINE r == [mails[m] EXCEPT !.name = name, !.active = active]
<1>1. /\ UNCHANGED <<customers, accounts, copies, push, import>> /\ Quiet
      /\ new # m => ~stays
      /\ mails' = With([x \in DOMAIN mails \ {m} |-> mails[x]], new, r)
    BY DEF UpdateMail
<1>2. DOMAIN mails[m] = MailFields
    BY Rows
<1>3. DOMAIN r = MailFields /\ r.customer = mails[m].customer
    BY <1>2 DEF MailFields
<1> HIDE DEF r
<1>4. /\ DOMAIN mails' = (DOMAIN mails \ {m}) \union {new} /\ mails'[new] = r
      /\ \A x \in DOMAIN mails \ {m} : x # new => mails'[x] = mails[x]
    BY <1>1 DEF With
<1>5. \A x \in DOMAIN mails' :
        /\ x \in Mails
        /\ DOMAIN mails'[x] = MailFields
    BY <1>3, <1>4, Rows
<1>6. stays => \A x \in DOMAIN mails :
        x \in DOMAIN mails' /\ mails'[x].customer = mails[x].customer
    BY <1>1, <1>3, <1>4
<1> QED
    BY <1>1, <1>5, <1>6, MailsChange

\* A telephone number is no address.
LEMMA UpdatePhoneInv ==
    ASSUME CustomersInv, UNCHANGED <<stays, calm>>, UpdatePhone
    PROVE  CustomersInv'
<1>1. UNCHANGED <<customers, mails, accounts, copies, push, import>> /\ Quiet
    BY DEF UpdatePhone
<1> QED
    BY <1>1, Rows, MailsChange

\* The accounts of the shop change; none changes its address while they stay.
LEMMA AccountsChange ==
    ASSUME CustomersInv, Quiet,
           UNCHANGED <<stays, calm, customers, mails, copies, push, import>>,
           accounts' \in Seq(Mails), Len(accounts) <= Len(accounts'),
           stays => \A a \in DOMAIN accounts : accounts'[a] = accounts[a]
    PROVE  CustomersInv'
<1>1. DOMAIN accounts \subseteq DOMAIN accounts'
    BY Rows
<1>2. ImportOK'
    BY <1>1 DEF CustomersInv, ImportOK
<1> QED
    BY <1>2, Rows, QuietIdles, TablesGrow

\* A new account of the shop belongs to no customer yet.
LEMMA RegisterInv ==
    ASSUME CustomersInv, UNCHANGED <<stays, calm>>, NEW m \in Mails, Register(m)
    PROVE  CustomersInv'
<1>1. /\ UNCHANGED <<customers, mails, copies, push, import>> /\ Quiet
      /\ accounts' = Append(accounts, m)
    BY DEF Register
<1>2. /\ accounts' \in Seq(Mails) /\ Len(accounts) <= Len(accounts')
      /\ \A a \in DOMAIN accounts : accounts'[a] = accounts[a]
    BY <1>1, Rows
<1> QED
    BY <1>1, <1>2, AccountsChange

\* An account changes its address only when addresses do not stay.
LEMMA ChangeAddressInv ==
    ASSUME CustomersInv, UNCHANGED <<stays, calm>>, NEW a \in DOMAIN accounts,
           NEW m \in Mails, ChangeAddress(a, m)
    PROVE  CustomersInv'
<1>1. /\ UNCHANGED <<customers, mails, copies, push, import>> /\ Quiet /\ ~stays
      /\ accounts' = [accounts EXCEPT ![a] = m]
    BY DEF ChangeAddress
<1>2. accounts' \in Seq(Mails) /\ Len(accounts) <= Len(accounts')
    BY <1>1, Rows
<1> QED
    BY <1>1, <1>2, AccountsChange

\* An import begins when nobody works, in a calm behaviour.
LEMMA BeginImportInv ==
    ASSUME CustomersInv, UNCHANGED <<stays, calm>>, NEW ordered \in SUBSET DOMAIN accounts,
           BeginImport(ordered)
    PROVE  CustomersInv'
<1>1. /\ UNCHANGED <<customers, mails, accounts, copies, push>> /\ Quiet
      /\ import' = [at |-> "batch", todo |-> {a \in ordered : ~HasCustomer(a)}, failed |-> {}]
    BY DEF BeginImport
<1>2. ImportOK'
    BY <1>1 DEF ImportOK, ImportFields
<1> QED
    BY <1>1, <1>2, Rows, QuietIdles, TablesGrow

\* An import ends.
LEMMA EndImportInv ==
    ASSUME CustomersInv, UNCHANGED <<stays, calm>>, EndImport
    PROVE  CustomersInv'
<1>1. UNCHANGED <<customers, mails, accounts, copies, push>> /\ import' = Rest
    BY DEF EndImport
<1>2. ImportOK'
    BY <1>1 DEF ImportOK, ImportFields, Rest
<1>3. calm => \A p \in Syncers : push[p].at = "idle"
    BY DEF EndImport, CustomersInv, TurnsOK
<1> QED
    BY <1>1, <1>2, <1>3, Rows, TablesGrow

\* The account an import links has the address of the new customer, which no one had.
LEMMA ImportOneInv ==
    ASSUME CustomersInv, UNCHANGED <<stays, calm>>, NEW a \in import.todo,
           NEW inBatch \in BOOLEAN, ImportOne(a, inBatch)
    PROVE  CustomersInv'
<1>1. UNCHANGED <<accounts, copies, push>>
    BY DEF ImportOne
<1>2. /\ DOMAIN import = ImportFields
      /\ import.todo \subseteq DOMAIN accounts /\ import.at # "idle"
    BY DEF CustomersInv, ImportOK
<1>3. calm => \A p \in Syncers : push[p].at = "idle"
    BY <1>2 DEF CustomersInv, TurnsOK
<1>4. ImportOK'
  <2>1. CASE Creatable(a)
    <3>1. import' = [import EXCEPT !.at = IF inBatch THEN @ ELSE "single", !.todo = @ \ {a}]
        BY <2>1 DEF ImportOne
    <3> QED
        BY <1>1, <1>2, <3>1 DEF ImportOK, ImportFields
  <2>2. CASE ~Creatable(a) /\ inBatch
    <3>1. import' = [import EXCEPT !.todo = {}, !.failed = @ \union import.todo]
        BY <2>2 DEF ImportOne
    <3> QED
        BY <1>1, <1>2, <3>1 DEF ImportOK, ImportFields
  <2>3. CASE ~Creatable(a) /\ ~inBatch
    <3>1. import' = [import EXCEPT !.at = "single", !.todo = @ \ {a},
                                   !.failed = @ \union {a}]
        BY <2>3 DEF ImportOne
    <3> QED
        BY <1>1, <1>2, <3>1 DEF ImportOK, ImportFields
  <2> QED
      BY <2>1, <2>2, <2>3
<1>5. CASE ~Creatable(a)
  <2>1. UNCHANGED <<customers, mails>>
      BY <1>5 DEF ImportOne
  <2> QED
      BY <2>1, <1>1, <1>3, <1>4, Rows, TablesGrow
<1>6. CASE Creatable(a)
  <2> DEFINE n == Len(customers) + 1
             m == accounts[a]
             e == Customer(a, TRUE)
  <2>1. /\ customers' = Append(customers, e)
        /\ mails' = With(mails, m, Mail(Len(customers'), "WooCommerce"))
        /\ m \notin DOMAIN mails
      BY <1>6 DEF ImportOne, CreateFromWoo, Imported, Creatable
  <2>2. a \in 1 .. Len(accounts) /\ m \in Mails
      BY <1>2, Rows
  <2>3. e \in CustomerRow /\ e.account = a
      BY <2>2, Rows DEF Customer, CustomerRow
  <2> HIDE DEF n, m, e
  <2>4. /\ customers' \in Seq(CustomerRow) /\ Len(customers') = n
        /\ DOMAIN customers' \ DOMAIN customers = {n}
        /\ customers'[n].account = a
        /\ \A c \in DOMAIN customers : customers'[c] = customers[c]
      BY <2>1, <2>3, Rows, Appended DEF n
  <2>5. /\ DOMAIN mails' = DOMAIN mails \union {m}
        /\ mails'[m] = [customer |-> n, name |-> "WooCommerce", active |-> TRUE]
        /\ \A x \in DOMAIN mails : mails'[x] = mails[x]
      BY <2>1, <2>4 DEF With, Mail
  <2>6. \A x \in DOMAIN mails' :
          /\ x \in Mails
          /\ DOMAIN mails'[x] = MailFields
      BY <2>2, <2>5, Rows DEF MailFields
  <2>7. ASSUME NEW c \in DOMAIN customers' \ DOMAIN customers
        PROVE  LET b == customers'[c].account IN
               /\ b \in 0 .. Len(accounts')
               /\ b # 0 => accounts'[b] \in DOMAIN mails' /\ mails'[accounts'[b]].customer = c
    <3>1. c = n /\ customers'[c].account = a
        BY <2>4
    <3>2. accounts'[a] = m /\ mails'[m].customer = n /\ m \in DOMAIN mails'
        BY <1>1, <2>5 DEF m
    <3>3. a \in 0 .. Len(accounts')
        BY <1>1, <2>2
    <3> QED
        BY <3>1, <3>2, <3>3
  <2>8. /\ \A x \in DOMAIN mails : x \in DOMAIN mails' /\ mails'[x].customer = mails[x].customer
        /\ \A c \in DOMAIN customers :
             customers'[c].account = customers[c].account /\ customers'[c].copy = customers[c].copy
      BY <2>4, <2>5
  <2>9. Len(customers) <= Len(customers') /\ Len(accounts) <= Len(accounts')
      BY <1>1, <2>4, Rows DEF n
  <2> QED
      BY <2>4, <2>6, <2>7, <2>8, <2>9, <1>1, <1>3, <1>4, Rows, TablesGrow
<1> QED
    BY <1>5, <1>6

\* A push makes one step: the others are where they were, and none is under way in a
\* calm behaviour.
LEMMA PushMoves ==
    ASSUME CustomersInv, UNCHANGED <<stays, calm, mails, import>>,
           NEW p \in Syncers, NEW r, push' = [push EXCEPT ![p] = r],
           push[p].at # "idle" \/ Quiet,
           TablesOK', Len(customers') = Len(customers), Len(accounts) <= Len(accounts'),
           \A a \in DOMAIN accounts : accounts'[a] = accounts[a],
           PushRow(r, Len(customers'), Len(accounts')),
           stays => \A c \in DOMAIN customers :
             customers'[c].account = customers[c].account
               \/ Owned(accounts'[customers'[c].account], c),
           stays => LookedUp(r)',
           calm => SeenOK(r)',
           CopiesOK'
    PROVE  CustomersInv'
<1>1. /\ Len(accounts') \in Nat /\ DOMAIN accounts' = 1 .. Len(accounts')
      /\ DOMAIN customers' = DOMAIN customers /\ DOMAIN customers' = 1 .. Len(customers')
    BY Rows DEF TablesOK
<1>2. /\ DOMAIN push' = Syncers /\ push'[p] = r
      /\ \A q \in Syncers \ {p} : push'[q] = push[q]
    BY DEF CustomersInv, PushesOK
<1>3. PushesOK'
  <2>1. push' = [q \in Syncers |-> push'[q]]
      BY DEF CustomersInv, PushesOK
  <2>2. ASSUME NEW q \in Syncers
        PROVE  PushRow(push'[q], Len(customers'), Len(accounts'))
    <3>1. CASE q = p
        BY <1>2, <3>1
    <3>2. CASE q # p
        BY <1>1, <1>2, <3>2, Rows, PushRowGrows DEF CustomersInv, PushesOK
    <3> QED
        BY <3>1, <3>2
  <2> QED
      BY <1>2, <2>1, <2>2 DEF PushesOK
<1>4. ImportOK'
    BY <1>1, Rows DEF CustomersInv, ImportOK
<1>5. \A m, c : Owned(m, c)' <=> m \in DOMAIN mails /\ mails[m].customer = c
    BY DEF Owned
<1>6. LinksOK'
  <2> SUFFICES ASSUME stays
               PROVE  /\ \A c \in DOMAIN customers' :
                           customers'[c].account # 0 => Owned(accounts[customers[c].account], c)'
                      /\ \A q \in Syncers : LookedUp(push[q])'
      BY DEF LinksOK
  <2>1. ASSUME NEW c \in DOMAIN customers', customers'[c].account # 0
        PROVE  Owned(accounts[customers[c].account], c)'
    <3>1. CASE Owned(accounts'[customers'[c].account], c)
        BY <3>1 DEF Owned
    <3>2. CASE customers'[c].account = customers[c].account
      <4>1. customers[c].account \in DOMAIN accounts
          BY <1>1, <2>1, <3>2, Rows DEF CustomersInv, TablesOK
      <4>2. Owned(accounts[customers[c].account], c)
          BY <1>1, <2>1, <3>2 DEF CustomersInv, LinksOK
      <4> QED
          BY <3>2, <4>1, <4>2 DEF Owned
    <3> QED
        BY <1>1, <2>1, <3>1, <3>2
  <2>2. ASSUME NEW q \in Syncers
        PROVE  LookedUp(push[q])'
    <3>1. CASE q = p
        BY <1>2, <3>1 DEF LookedUp, Owned
    <3>2. CASE q # p
      <4>1. LookedUp(push[q]) /\ PushRow(push[q], Len(customers), Len(accounts))
          BY DEF CustomersInv, LinksOK, PushesOK
      <4>2. push[q].at = "link" => accounts'[push[q].found] = accounts[push[q].found]
          BY <4>1, Rows DEF PushRow
      <4> QED
          BY <1>2, <3>2, <4>1, <4>2 DEF LookedUp, Owned
    <3> QED
        BY <3>1, <3>2
  <2> QED
      BY <2>1, <2>2
<1>7. TurnsOK'
  <2> SUFFICES ASSUME calm
               PROVE  /\ \A q, s \in Syncers :
                           push'[q].at # "idle" /\ push'[s].at # "idle" => q = s
                      /\ import'.at = "idle"
                      /\ \A q \in Syncers : SeenOK(push[q])'
      BY DEF TurnsOK
  <2>1. import.at = "idle" /\ \A q \in Syncers \ {p} : push[q].at = "idle"
    <3>1. CASE push[p].at # "idle"
        BY <3>1 DEF CustomersInv, TurnsOK
    <3>2. CASE Quiet
        BY <3>2, QuietIdles
    <3> QED
        BY <3>1, <3>2
  <2>2. ASSUME NEW q \in Syncers \ {p}
        PROVE  push'[q].at = "idle" /\ SeenOK(push[q])'
    <3>1. push'[q] = push[q] /\ push[q].at = "idle"
        BY <1>2, <2>1
    <3>2. DOMAIN push[q].seen = {}
        BY <3>1, EmptyTuple DEF CustomersInv, PushesOK, PushRow
    <3> QED
        BY <3>1, <3>2 DEF SeenOK
  <2>3. SeenOK(push[p])'
      BY <1>2 DEF SeenOK
  <2> QED
      BY <2>1, <2>2, <2>3
<1> QED
    BY <1>3, <1>4, <1>6, <1>7 DEF CustomersInv

\* No copy is forgotten: what the push knew it still knows, or has written.
LEMMA CopiesStay ==
    ASSUME CustomersInv, UNCHANGED <<stays, calm, copies>>,
           NEW p \in Syncers, NEW r, push' = [push EXCEPT ![p] = r],
           DOMAIN customers' = DOMAIN customers,
           \A c \in DOMAIN customers : customers[c].copy # 0 => customers'[c].copy # 0,
           stays /\ calm => \A c \in DOMAIN push[p].ids :
             c \in DOMAIN r.ids \/ customers'[c].copy # 0
    PROVE  CopiesOK'
<1>1. /\ push'[p] = r /\ \A q \in Syncers \ {p} : push'[q] = push[q]
    BY DEF CustomersInv, PushesOK
<1>2. ASSUME stays, calm, NEW c, Kept(c)
      PROVE  Kept(c)'
  <2>1. CASE customers[c].copy # 0
      BY <1>2, <2>1 DEF Kept
  <2>2. CASE \E q \in Syncers : c \in DOMAIN push[q].ids
    <3>1. PICK q \in Syncers : c \in DOMAIN push[q].ids
        BY <2>2
    <3>2. customers'[c].copy # 0 \/ c \in DOMAIN push'[q].ids
        BY <1>1, <1>2, <3>1
    <3> QED
        BY <1>2, <3>2 DEF Kept
  <2> QED
      BY <1>2, <2>1, <2>2 DEF Kept
<1> QED
    BY <1>2 DEF CustomersInv, CopiesOK

\* A step of a push that changes no table.
LEMMA PushOnly ==
    ASSUME CustomersInv, UNCHANGED <<stays, calm, customers, mails, accounts, copies, import>>,
           NEW p \in Syncers, NEW r, push' = [push EXCEPT ![p] = r],
           push[p].at # "idle" \/ Quiet,
           PushRow(r, Len(customers), Len(accounts)),
           stays => LookedUp(r),
           calm => SeenOK(r),
           stays /\ calm => DOMAIN push[p].ids \subseteq DOMAIN r.ids
    PROVE  CustomersInv'
<1>1. CopiesOK'
    BY CopiesStay
<1>2. TablesOK'
    BY DEF CustomersInv, TablesOK
<1>3. stays => LookedUp(r)'
    BY DEF LookedUp, Owned
<1>4. calm => SeenOK(r)'
    BY DEF SeenOK
<1>5. /\ PushRow(r, Len(customers'), Len(accounts'))
      /\ Len(customers') = Len(customers) /\ Len(accounts) <= Len(accounts')
      /\ \A a \in DOMAIN accounts : accounts'[a] = accounts[a]
      /\ \A c \in DOMAIN customers : customers'[c].account = customers[c].account
    BY Rows
<1> QED
    BY <1>1, <1>2, <1>3, <1>4, <1>5, PushMoves

\* What the session reads of a copy is a number, that of the table in a calm behaviour
\* unless the session has changed it.
LEMMA CopyRead ==
    ASSUME CustomersInv, NEW p \in Syncers, NEW c \in DOMAIN customers
    PROVE  /\ CopySeen(p, c) \in Nat
           /\ calm /\ c \notin DOMAIN push[p].ids => CopySeen(p, c) = customers[c].copy
           /\ c \in DOMAIN push[p].ids => CopySeen(p, c) # 0
<1>1. PushRow(push[p], Len(customers), Len(accounts))
    BY DEF CustomersInv, PushesOK
<1>2. customers[c].copy \in Nat
    BY Rows DEF CustomerRow
<1>3. calm => SeenOK(push[p])
    BY DEF CustomersInv, TurnsOK
<1> QED
    BY <1>1, <1>2, <1>3 DEF CopySeen, PushRow, SeenOK

\* A push loads the copies the table has.
LEMMA BeginPushInv ==
    ASSUME CustomersInv, UNCHANGED <<stays, calm>>, NEW p \in Syncers, BeginPush(p)
    PROVE  CustomersInv'
<1>1. /\ UNCHANGED <<customers, mails, accounts, copies, import>> /\ Quiet
      /\ push[p].at = "idle"
    BY DEF BeginPush
<1>2. PICK todo \in IF p \in Tabs THEN {{c} : c \in DOMAIN customers} ELSE {Active} :
        push' = [push EXCEPT ![p] = [NoPush(@.n + 1) EXCEPT
                   !.at = "next", !.todo = todo, !.seen = [c \in todo |-> customers[c].copy]]]
    BY DEF BeginPush
<1> DEFINE r == [NoPush(push[p].n + 1) EXCEPT
                   !.at = "next", !.todo = todo, !.seen = [c \in todo |-> customers[c].copy]]
<1>3. push' = [push EXCEPT ![p] = r]
    BY <1>2
<1>4. todo \subseteq DOMAIN customers
    BY <1>2 DEF Active
<1>5. /\ DOMAIN r = PushFields /\ r.at = "next" /\ r.todo = todo /\ r.lost = {}
      /\ DOMAIN r.seen = todo /\ DOMAIN r.ids = {}
      /\ \A c \in todo : r.seen[c] = customers[c].copy
    BY EmptyTuple DEF NoPush, PushFields
<1> HIDE DEF r
<1>6. \A c \in DOMAIN customers : customers[c].copy \in Nat
    BY Rows DEF CustomerRow
<1>7. PushRow(r, Len(customers), Len(accounts))
    BY <1>4, <1>5, <1>6, Rows DEF PushRow
<1>8. LookedUp(r) /\ SeenOK(r)
    BY <1>5 DEF LookedUp, SeenOK
<1>9. DOMAIN push[p].ids \subseteq DOMAIN r.ids
    BY <1>1, EmptyTuple DEF CustomersInv, PushesOK, PushRow
<1> QED
    BY <1>1, <1>3, <1>7, <1>8, <1>9, PushOnly

\* The row of a push and what the invariant says of it.
LEMMA PushOf ==
    ASSUME CustomersInv, NEW p \in Syncers
    PROVE  /\ PushRow(push[p], Len(customers), Len(accounts))
           /\ stays => LookedUp(push[p])
           /\ calm => SeenOK(push[p])
           /\ DOMAIN push[p].ids \subseteq DOMAIN customers
BY Rows DEF CustomersInv, PushesOK, LinksOK, TurnsOK, PushRow

\* A result told to the caller keeps what the session holds.
LEMMA ToldKeeps ==
    ASSUME NEW r, NEW n \in Nat, NEW k \in Nat, PushRow(r, n, k), r.c \in 1 .. n,
           NEW target \in {"shop", "henrri"}
    PROVE  LET t == Told(r, target) IN
           /\ PushRow(t, n, k)
           /\ t.at = IF target = "shop" THEN "henrri" ELSE "next"
           /\ t.ids = r.ids /\ t.seen = r.seen /\ t.lost = r.lost /\ t.c = r.c
<1> DEFINE t == Told(r, target)
<1>1. DOMAIN r = PushFields
    BY DEF PushRow
<1>2. /\ DOMAIN t = PushFields
      /\ t.at = IF target = "shop" THEN "henrri" ELSE "next"
      /\ t.todo = r.todo /\ t.c = r.c /\ t.ids = r.ids /\ t.seen = r.seen /\ t.lost = r.lost
    BY <1>1 DEF Told, PushFields
<1>3. t.at \notin {"post", "link", "idle", "done"}
    BY <1>2
<1> HIDE DEF t
<1>4. PushRow(t, n, k)
    BY <1>2, <1>3 DEF PushRow
<1> QED
    BY <1>2, <1>4 DEF t

\* A result told in a step that changes no table.
LEMMA ToldOnly ==
    ASSUME CustomersInv, UNCHANGED <<stays, calm, customers, mails, accounts, copies, import>>,
           NEW p \in Syncers, push[p].at \in {"look", "post", "link", "henrri"},
           NEW target \in {"shop", "henrri"},
           push' = [push EXCEPT ![p] = Told(push[p], target)]
    PROVE  CustomersInv'
<1> DEFINE t == Told(push[p], target)
<1>1. PushRow(push[p], Len(customers), Len(accounts)) /\ push[p].c \in 1 .. Len(customers)
    BY PushOf DEF PushRow
<1>2. /\ PushRow(t, Len(customers), Len(accounts))
      /\ t.at = IF target = "shop" THEN "henrri" ELSE "next"
      /\ t.ids = push[p].ids /\ t.seen = push[p].seen /\ t.lost = push[p].lost
    BY <1>1, ToldKeeps, Rows
<1>3. push' = [push EXCEPT ![p] = t]
    OBVIOUS
<1> HIDE DEF t
<1>4. /\ stays => LookedUp(t)
      /\ calm => SeenOK(t)
    BY <1>2, PushOf DEF LookedUp, SeenOK
<1> QED
    BY <1>2, <1>3, <1>4, PushOnly

\* The next customer of a push is loaded.
LEMMA NextCustomerInv ==
    ASSUME CustomersInv, UNCHANGED <<stays, calm>>, NEW p \in Syncers, NextCustomer(p)
    PROVE  CustomersInv'
<1>1. /\ UNCHANGED <<customers, mails, accounts, copies, import>>
      /\ push[p].at = "next"
    BY DEF NextCustomer
<1>2. PICK c \in push[p].todo :
        push' = [push EXCEPT ![p].at = "look", ![p].c = c, ![p].todo = @ \ {c},
                             ![p].seen = With(@, c, CopySeen(p, c))]
    BY DEF NextCustomer
<1> DEFINE v == CopySeen(p, c)
           s == With(push[p].seen, c, v)
           r == [push[p] EXCEPT !.at = "look", !.c = c, !.todo = @ \ {c}, !.seen = s]
<1>3. push' = [push EXCEPT ![p] = r]
    BY <1>2
<1>4. PushRow(push[p], Len(customers), Len(accounts)) /\ c \in 1 .. Len(customers)
    BY PushOf DEF PushRow
<1>5. /\ v \in Nat
      /\ calm /\ c \notin DOMAIN push[p].ids => v = customers[c].copy
    BY <1>4, CopyRead, Rows
<1> HIDE DEF v
<1>6. /\ DOMAIN s = DOMAIN push[p].seen \union {c} /\ s[c] = v
      /\ \A y \in DOMAIN push[p].seen : y # c => s[y] = push[p].seen[y]
    BY DEF With
<1> HIDE DEF s
<1>7. /\ DOMAIN r = PushFields /\ r.at = "look" /\ r.c = c /\ r.todo \subseteq push[p].todo
      /\ r.seen = s /\ r.ids = push[p].ids /\ r.lost = push[p].lost
    BY <1>4 DEF PushRow, PushFields
<1> HIDE DEF r
<1>8. PushRow(r, Len(customers), Len(accounts))
    BY <1>4, <1>5, <1>6, <1>7 DEF PushRow
<1>9. /\ stays => LookedUp(r)
      /\ calm => SeenOK(r)
    BY <1>5, <1>6, <1>7, PushOf DEF LookedUp, SeenOK
<1> QED
    BY <1>1, <1>3, <1>7, <1>8, <1>9, PushOnly

\* The account a push looks up, or the address it is about to register, is one of its
\* customer.
LEMMA LookUpInv ==
    ASSUME CustomersInv, UNCHANGED <<stays, calm>>, NEW p \in Syncers, LookUp(p)
    PROVE  CustomersInv'
<1> DEFINE r == push[p]
<1>1. /\ UNCHANGED <<customers, mails, accounts, copies, import>>
      /\ r.at = "look"
    BY DEF LookUp
<1>2. PushRow(r, Len(customers), Len(accounts))
    BY PushOf
<1>3. CASE push' = [push EXCEPT ![p] = Told(r, "shop")]
    BY <1>1, <1>3, ToldOnly
<1>4. ASSUME NEW m \in ShopMails(r.c),
             push' = [push EXCEPT ![p] =
                 IF Taken(m)
                 THEN [r EXCEPT !.at = "link", !.found = AccountOf(m)]
                 ELSE [r EXCEPT !.at = "post", !.found = m]]
      PROVE  CustomersInv'
  <2>1. m \in DOMAIN mails /\ mails[m].customer = r.c /\ m \in Mails
      BY <1>4, Rows DEF ShopMails, Named, OwnMails
  <2>2. CASE Taken(m)
    <3> DEFINE a == AccountOf(m)
               t == [r EXCEPT !.at = "link", !.found = a]
    <3>1. a \in DOMAIN accounts /\ accounts[a] = m
        BY <2>2 DEF Taken, AccountOf
    <3>2. push' = [push EXCEPT ![p] = t]
        BY <1>4, <2>2
    <3> HIDE DEF a
    <3>3. /\ DOMAIN t = PushFields /\ t.at = "link" /\ t.found = a /\ t.c = r.c
          /\ t.todo = r.todo /\ t.seen = r.seen /\ t.ids = r.ids /\ t.lost = r.lost
        BY <1>2 DEF PushRow, PushFields
    <3> HIDE DEF t
    <3>4. PushRow(t, Len(customers), Len(accounts))
        BY <1>1, <1>2, <3>1, <3>3, Rows DEF PushRow
    <3>5. /\ stays => LookedUp(t)
          /\ calm => SeenOK(t)
        BY <2>1, <3>1, <3>3, PushOf DEF LookedUp, Owned, SeenOK
    <3> QED
        BY <1>1, <3>2, <3>3, <3>4, <3>5, PushOnly
  <2>3. CASE ~Taken(m)
    <3> DEFINE t == [r EXCEPT !.at = "post", !.found = m]
    <3>2. push' = [push EXCEPT ![p] = t]
        BY <1>4, <2>3
    <3>3. /\ DOMAIN t = PushFields /\ t.at = "post" /\ t.found = m /\ t.c = r.c
          /\ t.todo = r.todo /\ t.seen = r.seen /\ t.ids = r.ids /\ t.lost = r.lost
        BY <1>2 DEF PushRow, PushFields
    <3> HIDE DEF t
    <3>4. PushRow(t, Len(customers), Len(accounts))
        BY <1>1, <1>2, <2>1, <3>3 DEF PushRow
    <3>5. /\ stays => LookedUp(t)
          /\ calm => SeenOK(t)
        BY <2>1, <3>3, PushOf DEF LookedUp, Owned, SeenOK
    <3> QED
        BY <1>1, <3>2, <3>3, <3>4, <3>5, PushOnly
  <2> QED
      BY <2>2, <2>3
<1> QED
    BY <1>3, <1>4 DEF LookUp, Failed

\* The account a push registers has the address of its customer.
LEMMA PostInv ==
    ASSUME CustomersInv, UNCHANGED <<stays, calm>>, NEW p \in Syncers, Post(p)
    PROVE  CustomersInv'
<1> DEFINE r == push[p]
<1>1. /\ UNCHANGED <<customers, mails, copies, import>>
      /\ r.at = "post"
    BY DEF Post
<1>2. PushRow(r, Len(customers), Len(accounts)) /\ r.found \in Mails /\ r.c \in 1 .. Len(customers)
    BY <1>1, PushOf DEF PushRow
<1>3. CASE push' = [push EXCEPT ![p] = Told(r, "shop")] /\ UNCHANGED accounts
    BY <1>1, <1>3, ToldOnly
<1>4. ASSUME accounts' = Append(accounts, r.found),
             NEW t, push' = [push EXCEPT ![p] = t],
             DOMAIN t = PushFields, t.ids = r.ids, t.seen = r.seen, t.lost = r.lost, t.c = r.c,
             t.todo = r.todo,
             \/ t.at = "henrri"
             \/ t.at = "link" /\ t.found = Len(accounts')
      PROVE  CustomersInv'
  <2>1. /\ accounts' \in Seq(Mails) /\ Len(accounts') = Len(accounts) + 1
        /\ accounts'[Len(accounts')] = r.found
        /\ \A a \in DOMAIN accounts : accounts'[a] = accounts[a]
      BY <1>2, <1>4, Rows, Appended
  <2>2. TablesOK'
      BY <1>1, <2>1, Rows DEF CustomersInv, TablesOK
  <2>3. PushRow(t, Len(customers'), Len(accounts'))
      BY <1>1, <1>2, <1>4, <2>1, Rows DEF PushRow
  <2>4. stays => Owned(r.found, r.c) /\ r.lost = {}
      BY <1>1, PushOf DEF LookedUp
  <2>5. stays => LookedUp(t)'
      BY <1>1, <1>4, <2>1, <2>4 DEF LookedUp, Owned
  <2>6. calm => SeenOK(t)'
      BY <1>1, <1>4, PushOf DEF SeenOK
  <2>7. CopiesOK'
      BY <1>1, <1>4, CopiesStay
  <2>8. /\ Len(customers') = Len(customers) /\ Len(accounts) <= Len(accounts')
        /\ \A c \in DOMAIN customers : customers'[c].account = customers[c].account
        /\ push[p].at # "idle"
      BY <1>1, <2>1, Rows
  <2> QED
      BY <1>1, <1>4, <2>1, <2>2, <2>3, <2>5, <2>6, <2>7, <2>8, PushMoves
<1>5. CASE /\ accounts' = Append(accounts, r.found)
           /\ push' = [push EXCEPT ![p].at = "link", ![p].found = Len(accounts')]
  <2> DEFINE k == Len(accounts')
             t == [r EXCEPT !.at = "link", !.found = k]
  <2>1. push' = [push EXCEPT ![p] = t]
      BY <1>5
  <2> HIDE DEF k
  <2>2. /\ DOMAIN t = PushFields /\ t.at = "link" /\ t.found = k /\ t.c = r.c
        /\ t.todo = r.todo /\ t.seen = r.seen /\ t.ids = r.ids /\ t.lost = r.lost
      BY <1>2 DEF PushRow, PushFields
  <2> HIDE DEF t
  <2> QED
      BY <1>4, <1>5, <2>1, <2>2 DEF k
<1>6. CASE /\ accounts' = Append(accounts, r.found)
           /\ push' = [push EXCEPT ![p] = Told(r, "shop")]
  <2> DEFINE t == Told(r, "shop")
  <2>1. push' = [push EXCEPT ![p] = t]
      BY <1>6
  <2>2. /\ DOMAIN t = PushFields /\ t.at = "henrri" /\ t.c = r.c
        /\ t.todo = r.todo /\ t.seen = r.seen /\ t.ids = r.ids /\ t.lost = r.lost
      BY <1>2 DEF PushRow, PushFields, Told
  <2> HIDE DEF t
  <2> QED
      BY <1>4, <1>6, <2>1, <2>2
<1> QED
    BY <1>3, <1>5, <1>6 DEF Post, Failed

\* A commit writes the copies the session holds and touches nothing else.
LEMMA WrittenRows ==
    ASSUME CustomersInv, NEW p \in Syncers
    PROVE  /\ Written(p) \in Seq(CustomerRow) /\ Len(Written(p)) = Len(customers)
           /\ DOMAIN Written(p) = DOMAIN customers
           /\ \A c \in DOMAIN customers :
                /\ Written(p)[c] \in CustomerRow
                /\ Written(p)[c].account = customers[c].account
                /\ Written(p)[c].copy = IF c \in DOMAIN push[p].ids THEN push[p].ids[c]
                                        ELSE customers[c].copy
                /\ customers[c].copy # 0 => Written(p)[c].copy # 0
                /\ c \in DOMAIN push[p].ids => Written(p)[c].copy # 0
<1>1. \A c \in DOMAIN push[p].ids : push[p].ids[c] \in Nat \ {0}
    BY PushOf DEF PushRow
<1>2. \A c \in DOMAIN customers : customers[c] \in CustomerRow
    BY Rows
<1>3. ASSUME NEW c \in DOMAIN customers
      PROVE  /\ Written(p)[c] \in CustomerRow
             /\ Written(p)[c].account = customers[c].account
             /\ Written(p)[c].copy = IF c \in DOMAIN push[p].ids THEN push[p].ids[c]
                                     ELSE customers[c].copy
  <2> DEFINE i == push[p].ids[c]
  <2>1. customers[c] \in CustomerRow
      BY <1>2
  <2>2. CASE c \in DOMAIN push[p].ids
    <3>1. Written(p)[c] = [customers[c] EXCEPT !.copy = i] /\ i \in Nat
        BY <1>1, <2>2 DEF Written
    <3> HIDE DEF i
    <3>2. /\ Written(p)[c] \in CustomerRow /\ Written(p)[c].copy = i
          /\ Written(p)[c].account = customers[c].account
        BY <2>1, <3>1 DEF CustomerRow
    <3> QED
        BY <2>2, <3>2 DEF i
  <2>3. CASE c \notin DOMAIN push[p].ids
      BY <2>1, <2>3 DEF Written
  <2> QED
      BY <2>2, <2>3
<1>4. DOMAIN Written(p) = 1 .. Len(customers) /\ Len(customers) \in Nat
    BY Rows DEF Written
<1>5. Written(p) \in [1 .. Len(customers) -> CustomerRow]
  <2>1. Written(p) = [c \in DOMAIN customers |-> Written(p)[c]]
      BY DEF Written
  <2> QED
      BY <1>3, <1>4, <2>1, Rows
<1>6. Written(p) \in Seq(CustomerRow) /\ Len(Written(p)) = Len(customers)
    BY <1>4, <1>5
<1> QED
    BY <1>1, <1>3, <1>4, <1>6, Rows

\* While addresses stay no other customer can have the account that a push has found:
\* the link is never refused.
LEMMA LinkInv ==
    ASSUME CustomersInv, UNCHANGED <<stays, calm>>, NEW p \in Syncers, Link(p)
    PROVE  CustomersInv'
<1> DEFINE r == push[p]
<1>1. /\ UNCHANGED <<mails, accounts, copies, import>>
      /\ r.at = "link"
    BY DEF Link
<1>2. /\ PushRow(r, Len(customers), Len(accounts)) /\ r.c \in DOMAIN customers
      /\ r.found \in DOMAIN accounts /\ r.found \in 1 .. Len(accounts)
    BY <1>1, PushOf, Rows DEF PushRow
<1>3. stays => Owned(accounts[r.found], r.c) /\ r.lost = {}
    BY <1>1, PushOf DEF LookedUp
<1>4. CASE \E c \in DOMAIN customers \ {r.c} : customers[c].account = r.found
  <2>1. PICK c \in DOMAIN customers \ {r.c} : customers[c].account = r.found
      BY <1>4
  <2>2. ~stays
    <3> SUFFICES ASSUME stays
                 PROVE  FALSE
        BY DEF CustomersInv
    <3>1. Owned(accounts[r.found], c)
        BY <1>2, <2>1 DEF CustomersInv, LinksOK
    <3> QED
        BY <1>3, <2>1, <3>1 DEF Owned
  <2> DEFINE t == Told(RolledBack(r), "shop")
  <2>3. UNCHANGED customers /\ push' = [push EXCEPT ![p] = t]
      BY <1>4 DEF Link, Failed
  <2>4. /\ DOMAIN t = PushFields /\ t.at = "henrri" /\ t.c = r.c /\ t.todo = r.todo
        /\ t.seen = <<>> /\ t.ids = <<>>
      BY <1>2 DEF PushRow, PushFields, Told, RolledBack, Committed
  <2> HIDE DEF t
  <2>5. PushRow(t, Len(customers), Len(accounts))
      BY <1>2, <2>4, EmptyTuple DEF PushRow
  <2>6. SeenOK(t)
      BY <2>4, EmptyTuple DEF SeenOK
  <2> QED
      BY <1>1, <2>2, <2>3, <2>5, <2>6, PushOnly
<1>5. CASE ~ \E c \in DOMAIN customers \ {r.c} : customers[c].account = r.found
  <2> DEFINE w == Written(p)
  <2>0. PICK t : t = Told(Committed(r), "shop")
      OBVIOUS
  <2>1. customers' = [w EXCEPT ![r.c].account = r.found] /\ push' = [push EXCEPT ![p] = t]
      BY <1>5, <2>0 DEF Link
  <2>2. /\ DOMAIN t = PushFields /\ t.at = "henrri" /\ t.c = r.c /\ t.todo = r.todo
        /\ t.seen = <<>> /\ t.ids = <<>> /\ t.lost = r.lost
      BY <1>2, <2>0 DEF PushRow, PushFields, Told, Committed
  <2>3. /\ w \in Seq(CustomerRow) /\ Len(w) = Len(customers) /\ DOMAIN w = DOMAIN customers
        /\ \A c \in DOMAIN customers :
             /\ w[c] \in CustomerRow
             /\ w[c].account = customers[c].account
             /\ customers[c].copy # 0 => w[c].copy # 0
             /\ c \in DOMAIN push[p].ids => w[c].copy # 0
      BY WrittenRows
  <2> HIDE DEF w
  <2> DEFINE l == [w[r.c] EXCEPT !.account = r.found]
  <2>4. l \in CustomerRow /\ l.account = r.found /\ l.copy = w[r.c].copy
    <3>1. w[r.c] \in CustomerRow /\ r.found \in Nat
        BY <1>2, <2>3
    <3> QED
        BY <3>1 DEF CustomerRow
  <2>5. customers' = [w EXCEPT ![r.c] = l]
      BY <2>1
  <2> HIDE DEF l
  <2>6. /\ customers' \in Seq(CustomerRow) /\ Len(customers') = Len(customers)
        /\ DOMAIN customers' = DOMAIN customers
        /\ \A c \in DOMAIN customers : customers'[c] = IF c = r.c THEN l ELSE w[c]
      BY <1>2, <2>3, <2>4, <2>5
  <2>7. ASSUME NEW c \in DOMAIN customers
        PROVE  /\ customers'[c].account \in 0 .. Len(accounts)
               /\ c # r.c => customers'[c].account = customers[c].account
               /\ customers[c].copy # 0 => customers'[c].copy # 0
               /\ c \in DOMAIN push[p].ids => customers'[c].copy # 0
    <3>1. CASE c = r.c
        BY <1>2, <2>3, <2>4, <2>6, <3>1
    <3>2. CASE c # r.c
        BY <2>3, <2>6, <3>2 DEF CustomersInv, TablesOK
    <3> QED
        BY <3>1, <3>2
  <2>8. TablesOK'
      BY <1>1, <2>6, <2>7, Rows DEF CustomersInv, TablesOK
  <2>9. PushRow(t, Len(customers'), Len(accounts'))
      BY <1>1, <1>2, <2>2, <2>6, EmptyTuple DEF PushRow
  <2>10. ASSUME stays, NEW c \in DOMAIN customers
         PROVE  \/ customers'[c].account = customers[c].account
                \/ Owned(accounts'[customers'[c].account], c)
    <3>1. CASE c = r.c
        BY <1>1, <1>3, <2>4, <2>6, <2>10, <3>1
    <3> QED
        BY <2>7, <3>1
  <2>11. stays => LookedUp(t)'
      BY <1>3, <2>2 DEF LookedUp
  <2>12. SeenOK(t)'
      BY <2>2, EmptyTuple DEF SeenOK
  <2>13. CopiesOK'
      BY <1>1, <2>1, <2>6, <2>7, PushOf, CopiesStay
  <2>14. Len(accounts) <= Len(accounts') /\ \A a \in DOMAIN accounts : accounts'[a] = accounts[a]
      BY <1>1, Rows
  <2> QED
      BY <1>1, <2>1, <2>6, <2>8, <2>9, <2>10, <2>11, <2>12, <2>13, <2>14, PushMoves
<1> QED
    BY <1>4, <1>5

\* At its end a push writes all that its session holds.
LEMMA EndPushInv ==
    ASSUME CustomersInv, UNCHANGED <<stays, calm>>, NEW p \in Syncers, EndPush(p)
    PROVE  CustomersInv'
<1> DEFINE r == push[p]
           w == Written(p)
<1>0. PICK t : t = [Committed(r) EXCEPT !.at = "done", !.c = 0]
    OBVIOUS
<1>1. /\ UNCHANGED <<mails, accounts, copies, import>>
      /\ r.at = "next" /\ r.todo = {} /\ customers' = w /\ push' = [push EXCEPT ![p] = t]
    BY <1>0 DEF EndPush
<1>2. PushRow(r, Len(customers), Len(accounts))
    BY PushOf
<1>3. /\ DOMAIN t = PushFields /\ t.at = "done" /\ t.todo = r.todo /\ t.rows = {}
      /\ t.seen = <<>> /\ t.ids = <<>> /\ t.lost = r.lost
    BY <1>0, <1>2 DEF PushRow, PushFields, Committed
<1>4. /\ w \in Seq(CustomerRow) /\ Len(w) = Len(customers) /\ DOMAIN w = DOMAIN customers
      /\ \A c \in DOMAIN customers :
           /\ w[c].account = customers[c].account
           /\ customers[c].copy # 0 => w[c].copy # 0
           /\ c \in DOMAIN push[p].ids => w[c].copy # 0
    BY WrittenRows
<1> HIDE DEF w
<1>5. TablesOK'
    BY <1>1, <1>4, Rows DEF CustomersInv, TablesOK
<1>6. PushRow(t, Len(customers'), Len(accounts'))
    BY <1>1, <1>2, <1>3, <1>4, EmptyTuple DEF PushRow
<1>7. stays => LookedUp(t)'
    BY <1>3, PushOf DEF LookedUp
<1>8. SeenOK(t)'
    BY <1>3, EmptyTuple DEF SeenOK
<1>9. CopiesOK'
    BY <1>1, <1>4, PushOf, CopiesStay
<1>10. /\ Len(accounts) <= Len(accounts') /\ \A a \in DOMAIN accounts : accounts'[a] = accounts[a]
       /\ Len(customers') = Len(customers) /\ push[p].at # "idle"
       /\ \A c \in DOMAIN customers : customers'[c].account = customers[c].account
    BY <1>1, <1>4, Rows
<1> QED
    BY <1>1, <1>5, <1>6, <1>7, <1>8, <1>9, <1>10, PushMoves

\* A push that has ended holds nothing; one that dies loses what it holds, which no
\* calm behaviour does.
LEMMA LeaveInv ==
    ASSUME CustomersInv, UNCHANGED <<stays, calm>>, NEW p \in Syncers, Leave(p)
    PROVE  CustomersInv'
<1> DEFINE t == NoPush(push[p].n)
<1>1. /\ UNCHANGED <<customers, mails, accounts, copies, import>>
      /\ push' = [push EXCEPT ![p] = t]
      /\ push[p].at = "done" \/ (~calm /\ push[p].at # "idle")
    BY DEF Leave
<1>2. /\ DOMAIN t = PushFields /\ t.at = "idle" /\ t.todo = {} /\ t.rows = {}
      /\ t.seen = <<>> /\ t.ids = <<>> /\ t.lost = {}
    BY DEF NoPush, PushFields
<1> HIDE DEF t
<1>3. PushRow(t, Len(customers), Len(accounts))
    BY <1>2, EmptyTuple DEF PushRow
<1>4. LookedUp(t) /\ SeenOK(t)
    BY <1>2, EmptyTuple DEF LookedUp, SeenOK
<1>5. stays /\ calm => DOMAIN push[p].ids \subseteq DOMAIN t.ids
  <2>1. push[p].at = "done" => DOMAIN push[p].ids = {}
      BY EmptyTuple, PushOf DEF PushRow
  <2> QED
      BY <1>1, <2>1
<1> QED
    BY <1>1, <1>3, <1>4, <1>5, PushOnly

\* A push creates a copy when neither the table nor its session knows one: then there
\* is none, in a calm behaviour.
LEMMA UpsertInv ==
    ASSUME CustomersInv, UNCHANGED <<stays, calm>>, NEW p \in Syncers, Upsert(p)
    PROVE  CustomersInv'
<1> DEFINE r == push[p]
           known == CopySeen(p, r.c)
<1>1. /\ UNCHANGED <<customers, mails, accounts, import>>
      /\ r.at = "henrri"
    BY DEF Upsert
<1>2. PushRow(r, Len(customers), Len(accounts)) /\ r.c \in DOMAIN customers
    BY <1>1, PushOf, Rows DEF PushRow
<1>3. /\ known \in Nat
      /\ calm /\ r.c \notin DOMAIN r.ids => known = customers[r.c].copy
      /\ r.c \in DOMAIN r.ids => known # 0
    BY <1>2, CopyRead
<1> HIDE DEF known
\* The session notes the identifier id.
<1>4. ASSUME NEW id \in Nat \ {0}, NEW t, t = Told([r EXCEPT !.ids = With(@, r.c, id)], "henrri")
      PROVE  /\ PushRow(t, Len(customers), Len(accounts)) /\ t.at # "idle"
             /\ stays => LookedUp(t)
             /\ calm => SeenOK(t)
             /\ DOMAIN t.ids = DOMAIN r.ids \union {r.c}
  <2> DEFINE s == With(r.ids, r.c, id)
  <2>1. /\ DOMAIN s = DOMAIN r.ids \union {r.c} /\ s[r.c] = id
        /\ \A y \in DOMAIN r.ids : y # r.c => s[y] = r.ids[y]
      BY DEF With
  <2>2. t = Told([r EXCEPT !.ids = s], "henrri")
      BY <1>4
  <2> HIDE DEF s
  <2>3. /\ DOMAIN t = PushFields /\ t.at = "next" /\ t.ids = s
        /\ t.todo = r.todo /\ t.seen = r.seen /\ t.lost = r.lost
      BY <1>2, <2>2 DEF PushRow, PushFields, Told
  <2>4. PushRow(t, Len(customers), Len(accounts))
      BY <1>2, <1>4, <2>1, <2>3, Rows DEF PushRow
  <2>5. /\ stays => LookedUp(t)
        /\ calm => SeenOK(t)
      BY <2>1, <2>3, PushOf DEF LookedUp, SeenOK
  <2> QED
      BY <2>1, <2>3, <2>4, <2>5
<1>5. CASE /\ push' = [push EXCEPT ![p] = Failed([r EXCEPT !.seen = With(@, r.c, known)], "henrri")]
           /\ UNCHANGED copies
  <2> DEFINE s == With(r.seen, r.c, known)
             t == Told([r EXCEPT !.seen = s], "henrri")
  <2>1. /\ DOMAIN s = DOMAIN r.seen \union {r.c} /\ s[r.c] = known
        /\ \A y \in DOMAIN r.seen : y # r.c => s[y] = r.seen[y]
      BY DEF With
  <2>2. push' = [push EXCEPT ![p] = t]
      BY <1>5 DEF Failed
  <2> HIDE DEF s
  <2>3. /\ DOMAIN t = PushFields /\ t.at = "next" /\ t.ids = r.ids
        /\ t.todo = r.todo /\ t.seen = s /\ t.lost = r.lost
      BY <1>2 DEF PushRow, PushFields, Told
  <2> HIDE DEF t
  <2>4. PushRow(t, Len(customers), Len(accounts))
      BY <1>2, <1>3, <2>1, <2>3, Rows DEF PushRow
  <2>5. /\ stays => LookedUp(t)
        /\ calm => SeenOK(t)
      BY <1>3, <2>1, <2>3, PushOf DEF LookedUp, SeenOK
  <2> QED
      BY <1>1, <1>5, <2>2, <2>3, <2>4, <2>5, PushOnly
<1>6. CASE /\ known # 0 /\ UNCHANGED copies
           /\ push' = [push EXCEPT ![p] = Told([r EXCEPT !.ids = With(@, r.c, known)], "henrri")]
  <2> DEFINE t == Told([r EXCEPT !.ids = With(@, r.c, known)], "henrri")
  <2>1. push' = [push EXCEPT ![p] = t]
      BY <1>6
  <2>2. known \in Nat \ {0}
      BY <1>3, <1>6
  <2>3. /\ PushRow(t, Len(customers), Len(accounts))
        /\ stays => LookedUp(t)
        /\ calm => SeenOK(t)
        /\ DOMAIN t.ids = DOMAIN r.ids \union {r.c}
      BY <1>4, <2>2
  <2> HIDE DEF t
  <2> QED
      BY <1>1, <1>6, <2>1, <2>3, PushOnly
\* A copy more: its customer had none, unless the behaviour is not calm.
<1>7. ASSUME known = 0, copies' = Append(copies, r.c), NEW t, push' = [push EXCEPT ![p] = t],
             PushRow(t, Len(customers), Len(accounts)), t.at # "idle",
             stays => LookedUp(t), calm => SeenOK(t),
             calm => DOMAIN t.ids = DOMAIN r.ids \union {r.c}
      PROVE  CustomersInv'
  <2>1. /\ copies' \in Seq(Nat) /\ Len(copies') = Len(copies) + 1
        /\ copies'[Len(copies')] = r.c /\ DOMAIN copies' \ DOMAIN copies = {Len(copies')}
        /\ \A i \in DOMAIN copies : copies'[i] = copies[i]
      BY <1>2, <1>7, Rows, Appended
  <2>2. TablesOK'
      BY <1>1, <2>1, Rows DEF CustomersInv, TablesOK
  <2>3. CopiesOK'
    <3> SUFFICES ASSUME stays, calm
                 PROVE  /\ \A i \in DOMAIN copies' : Kept(copies[i])'
                        /\ \A i, j \in DOMAIN copies' : copies'[i] = copies'[j] => i = j
        BY DEF CopiesOK
    <3>1. push'[p] = t /\ \A q \in Syncers \ {p} : push'[q] = push[q]
        BY <1>7 DEF CustomersInv, PushesOK
    <3>2. ASSUME NEW c, Kept(c)
          PROVE  /\ c \in DOMAIN customers'
                 /\ customers'[c].copy # 0 \/ \E q \in Syncers : c \in DOMAIN push'[q].ids
      <4>1. CASE customers[c].copy # 0
          BY <1>1, <3>2, <4>1 DEF Kept
      <4>2. CASE \E q \in Syncers : c \in DOMAIN push[q].ids
        <5>1. PICK q \in Syncers : c \in DOMAIN push[q].ids
            BY <4>2
        <5>2. c \in DOMAIN push'[q].ids
            BY <1>7, <3>1, <5>1
        <5> QED
            BY <1>1, <3>2, <5>2 DEF Kept
      <4> QED
          BY <3>2, <4>1, <4>2 DEF Kept
    <3>3. r.c \in DOMAIN push'[p].ids /\ r.c \in DOMAIN customers'
        BY <1>1, <1>2, <1>7, <3>1
    <3>4. ~Kept(r.c)
      <4>1. r.c \notin DOMAIN r.ids /\ customers[r.c].copy = 0
          BY <1>3, <1>7
      <4>2. ASSUME NEW q \in Syncers \ {p}
            PROVE  DOMAIN push[q].ids = {}
        <5>1. push[q].at = "idle"
            BY <1>1 DEF CustomersInv, TurnsOK
        <5> QED
            BY <5>1, EmptyTuple DEF CustomersInv, PushesOK, PushRow
      <4> QED
          BY <4>1, <4>2 DEF Kept
    <3>5. \A i \in DOMAIN copies : Kept(copies[i]) /\ copies[i] # r.c
        BY <3>4 DEF CustomersInv, CopiesOK
    <3>6. ASSUME NEW i \in DOMAIN copies'
          PROVE  Kept(copies[i])'
      <4>1. CASE i \in DOMAIN copies
          BY <2>1, <3>2, <3>5, <4>1 DEF Kept
      <4>2. CASE i = Len(copies')
          BY <2>1, <3>3, <4>2 DEF Kept
      <4> QED
          BY <2>1, <4>1, <4>2
    <3>7. ASSUME NEW i \in DOMAIN copies', NEW j \in DOMAIN copies', copies'[i] = copies'[j]
          PROVE  i = j
        BY <2>1, <3>5, <3>7 DEF CustomersInv, CopiesOK
    <3> QED
        BY <3>6, <3>7
  <2>4. PushRow(t, Len(customers'), Len(accounts'))
      BY <1>1, <1>7
  <2>5. /\ stays => LookedUp(t)'
        /\ calm => SeenOK(t)'
      BY <1>1, <1>7 DEF LookedUp, Owned, SeenOK
  <2>6. /\ Len(customers') = Len(customers) /\ Len(accounts) <= Len(accounts')
        /\ \A a \in DOMAIN accounts : accounts'[a] = accounts[a]
        /\ \A c \in DOMAIN customers : customers'[c].account = customers[c].account
        /\ push[p].at # "idle"
      BY <1>1, Rows
  <2> QED
      BY <1>1, <1>7, <2>2, <2>3, <2>4, <2>5, <2>6, PushMoves
<1>8. CASE /\ known = 0 /\ copies' = Append(copies, r.c)
           /\ push' = [push EXCEPT ![p] =
                         Told([r EXCEPT !.ids = With(@, r.c, Len(copies'))], "henrri")]
  <2> DEFINE k == Len(copies')
             t == Told([r EXCEPT !.ids = With(@, r.c, k)], "henrri")
  <2>1. push' = [push EXCEPT ![p] = t]
      BY <1>8
  <2>2. k \in Nat \ {0}
    <3>1. copies' \in Seq(Nat) /\ k = Len(copies) + 1
        BY <1>2, <1>8, Rows, Appended
    <3> QED
        BY <3>1, Rows
  <2> HIDE DEF k
  <2>3. /\ PushRow(t, Len(customers), Len(accounts)) /\ t.at # "idle"
        /\ stays => LookedUp(t)
        /\ calm => SeenOK(t)
        /\ DOMAIN t.ids = DOMAIN r.ids \union {r.c}
      BY <1>4, <2>2
  <2> HIDE DEF t
  <2> QED
      BY <1>7, <1>8, <2>1, <2>3
<1>9. CASE /\ ~calm /\ known = 0 /\ copies' = Append(copies, r.c)
           /\ push' = [push EXCEPT ![p] = Told(r, "henrri")]
  <2> DEFINE t == Told(r, "henrri")
  <2>1. push' = [push EXCEPT ![p] = t]
      BY <1>9
  <2>2. r.c \in 1 .. Len(customers)
      BY <1>2, Rows
  <2>3. PushRow(t, Len(customers), Len(accounts)) /\ t.at = "next" /\ t.lost = r.lost
      BY <1>2, <2>2, Rows, ToldKeeps
  <2> HIDE DEF t
  <2>4. stays => LookedUp(t)
      BY <2>3, PushOf DEF LookedUp
  <2> QED
      BY <1>7, <1>9, <2>1, <2>3, <2>4
<1> QED
    BY <1>5, <1>6, <1>8, <1>9 DEF Upsert, Failed, known

\* Every step keeps the invariant.
LEMMA CustomersNextInv == CustomersInv /\ [CustomersNext]_customerVars => CustomersInv'
<1> SUFFICES ASSUME CustomersInv, [CustomersNext]_customerVars
             PROVE  CustomersInv'
    OBVIOUS
<1>1. ASSUME UNCHANGED <<stays, calm>>, UserRequest
      PROVE  CustomersInv'
    BY <1>1, CreateCustomerInv, UpdatePhoneInv, SetActiveInv, SetHomeInv, AddMailInv,
       UpdateMailInv DEF UserRequest
<1>2. ASSUME UNCHANGED <<stays, calm>>, Shop
      PROVE  CustomersInv'
    BY <1>2, RegisterInv, ChangeAddressInv DEF Shop
<1>3. ASSUME UNCHANGED <<stays, calm>>, Import
      PROVE  CustomersInv'
    BY <1>3, BeginImportInv, ImportOneInv, EndImportInv DEF Import
<1>4. ASSUME UNCHANGED <<stays, calm>>, NEW p \in Syncers, Push(p)
      PROVE  CustomersInv'
    BY <1>4, BeginPushInv, NextCustomerInv, LookUpInv, PostInv, LinkInv, UpsertInv,
       EndPushInv, LeaveInv DEF Push
<1>5. CASE UNCHANGED customerVars
    BY <1>5 DEF customerVars, CustomersInv, TablesOK, PushesOK, PushRow, ImportOK, LinksOK,
                LookedUp, Owned, TurnsOK, SeenOK, CopiesOK, Kept
<1> QED
    BY <1>1, <1>2, <1>3, <1>4, <1>5 DEF CustomersNext

\* The invariant of the customers holds in every reachable state.
THEOREM CustomersInductive == CustomersSpec => []CustomersInv
BY CustomersInitInv, CustomersNextInv, PTL DEF CustomersSpec

\* While no address passes, a customer is only ever linked to the account that has
\* one of its own addresses, whatever pushes and imports cross and wherever they die.
THEOREM LinksFollowMails == CustomersSpec => []LinkedByMail
<1>1. CustomersInv => LinkedByMail
    BY DEF CustomersInv, LinksOK, Owned, LinkedByMail
<1> QED
    BY <1>1, CustomersInductive, PTL

\* While no address passes and one works at a time, Henrri never has two copies of
\* one customer.
THEOREM CopiesAreUnique == CustomersSpec => []OneCopy
<1>1. CustomersInv => OneCopy
    BY DEF CustomersInv, CopiesOK, OneCopy
<1> QED
    BY <1>1, CustomersInductive, PTL

\* While no address passes, a push that has ended has written every result it told:
\* no rollback takes one from the log, whatever crosses or is lost.
THEOREM PushesAreLogged == CustomersSpec => []ResultsAreLogged
<1>1. CustomersInv => ResultsAreLogged
    BY DEF CustomersInv, PushesOK, PushRow, LinksOK, LookedUp, ResultsAreLogged
<1> QED
    BY <1>1, CustomersInductive, PTL
=============================================================================
