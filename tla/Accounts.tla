------------------------------ MODULE Accounts ------------------------------
(***************************************************************************)
(* The user accounts: logins, sessions, passwords, locks                   *)
(* (app_back/v1/user.py, db_models/repositories/user.py and                *)
(* user_session.py) and the pages that call them                           *)
(* (app_front/blueprints/user, app_front/blueprints/admin).                *)
(*                                                                         *)
(* The API runs in several processes. A request reads the rows it needs,   *)
(* then commits up to two transactions that write only the columns it has  *)
(* changed, whatever they have become in between. Each request below       *)
(* begins with its reads; a commit is a step; a process may stop between   *)
(* two of them.                                                            *)
(*                                                                         *)
(* The check of the session that precedes each page is one step with the   *)
(* reads of the page. A password is named by the row that stores it, and   *)
(* admin stands for the permissions "1" and "9".                           *)
(*                                                                         *)
(* A behaviour is alone when no request begins before the last one is over *)
(* and no process stops: it keeps what crossing requests may break.        *)
(***************************************************************************)
EXTENDS Integers, Sequences, FiniteSets

CONSTANTS
    Users,        \* the names an account may have
    First,        \* the administrators the deployment has created
    Browsers,     \* the browsers, one cookie each
    Requests,     \* bound: the requests under way at a time
    MaxPasswords, \* bound: the password rows
    MaxSessions,  \* bound: the session rows
    MaxFailures   \* the third failure locks the account

ASSUME AccountsAssumption ==
    /\ First \subseteq Users /\ IsFiniteSet(First) /\ Cardinality(First) <= MaxPasswords
    /\ {MaxPasswords, MaxSessions} \subseteq Nat /\ MaxFailures \in Nat \ {0}

VARIABLES
    users,     \* the table users, by name
    open,      \* the password rows of each user without an end date
    passwords, \* how many password rows there are
    sessions,  \* the table user_sessions
    cookie,    \* the session a browser names, 0 when it names none
    request,   \* the requests under way
    alone      \* one request at a time, no process stops

vars == <<users, open, passwords, sessions, cookie, request, alone>>

Row == [known : BOOLEAN, active : BOOLEAN, locked : BOOLEAN,
        failed : Nat, admin : BOOLEAN]
NoRow == [known |-> FALSE, active |-> FALSE, locked |-> FALSE, failed |-> 0, admin |-> FALSE]
NewRow(admin) ==
    [known |-> TRUE, active |-> TRUE, locked |-> FALSE, failed |-> 0, admin |-> admin]
PasswordRow == 1 .. MaxPasswords
\* by is the password given at the login; over: revoked; late: out of time.
Session == [user : Users, by : PasswordRow, over : BOOLEAN, late : BOOLEAN]
NewSession(u, p) == [user |-> u, by |-> p, over |-> FALSE, late |-> FALSE]

\* seen and password are what the request has read and will write from.
Idle == [step |-> "idle"]
Request(step, u, b, p) ==
    [step |-> step, user |-> u, browser |-> b, seen |-> users[u], password |-> p]

Init ==
    \E number \in {f \in [First -> 1 .. Cardinality(First)] :
                     \A u, v \in First : f[u] = f[v] => u = v} :
        /\ users = [u \in Users |-> IF u \in First THEN NewRow(TRUE) ELSE NoRow]
        /\ open = [u \in Users |-> IF u \in First THEN {number[u]} ELSE {}]
        /\ passwords = Cardinality(First)
        /\ sessions = <<>>
        /\ cookie = [b \in Browsers |-> 0]
        /\ request = [r \in Requests |-> Idle]
        /\ alone \in BOOLEAN

Admitted(u) == users[u].active /\ ~users[u].locked
Valid(s) == s # 0 /\ ~sessions[s].over /\ ~sessions[s].late /\ Admitted(sessions[s].user)
Actor(b) == sessions[cookie[b]].user
IsAdmin(b) == Valid(cookie[b]) /\ users[Actor(b)].admin
At(r, step) == request[r].step = step
Resting == \A r \in DOMAIN request : request[r] = Idle
Starts(r) == At(r, "idle") /\ (alone => Resting)
Goes(r, step) == [request EXCEPT ![r].step = step]
Done(r) == [request EXCEPT ![r] = Idle]

-----------------------------------------------------------------------------
(* Logging in.                                                             *)

\* The password is compared with the first row without an end date; the rows
\* come in no order. An unknown name, a locked or an inactive account is told
\* so and nothing is written.
BeginLogin(r, b, u) ==
    /\ Starts(r)
    /\ users[u].known /\ Admitted(u)
    /\ \E right \in BOOLEAN, p \in open[u] :
         request' = [request EXCEPT ![r] = Request(IF right THEN "reset" ELSE "fail", u, b, p)]
    /\ UNCHANGED <<users, open, passwords, sessions, cookie>>

CommitReset(r) ==
    /\ At(r, "reset")
    /\ users' = [users EXCEPT ![request[r].user].failed =
                    IF request[r].seen.failed = 0 THEN @ ELSE 0]
    /\ request' = Goes(r, "open")
    /\ UNCHANGED <<open, passwords, sessions, cookie>>

\* The page replaces the cookie of the browser; the session it named stays.
OpenSession(r) ==
    /\ At(r, "open")
    /\ Len(sessions) < MaxSessions
    /\ sessions' = Append(sessions, NewSession(request[r].user, request[r].password))
    /\ cookie' = [cookie EXCEPT ![request[r].browser] = Len(sessions) + 1]
    /\ request' = Done(r)
    /\ UNCHANGED <<users, open, passwords>>

\* Mutant: the fourth failure locks.
MutCommitFail(r) ==
    LET u == request[r].user
        n == request[r].seen.failed + 1
    IN
    /\ At(r, "fail")
    /\ users' = [users EXCEPT ![u].failed = n, ![u].locked = @ \/ n > MaxFailures]
    /\ request' = Goes(r, "locked")
    /\ UNCHANGED <<open, passwords, sessions, cookie>>

CommitFail(r) ==
    LET u == request[r].user
        n == request[r].seen.failed + 1
    IN
    /\ At(r, "fail")
    /\ users' = [users EXCEPT ![u].failed = n, ![u].locked = @ \/ n >= MaxFailures]
    /\ request' = Goes(r, "locked")
    /\ UNCHANGED <<open, passwords, sessions, cookie>>

Revoked(u) == [s \in DOMAIN sessions |->
                 [sessions[s] EXCEPT !.over = @ \/ sessions[s].user = u]]

\* The account is read again after the commit.
RevokeIfLocked(r) ==
    /\ At(r, "locked")
    /\ sessions' = IF users[request[r].user].locked THEN Revoked(request[r].user) ELSE sessions
    /\ request' = Done(r)
    /\ UNCHANGED <<users, open, passwords, cookie>>

-----------------------------------------------------------------------------
(* Sessions.                                                               *)

\* A page asked with a session that is no longer valid clears the cookie.
TurnAway(b) ==
    /\ cookie[b] # 0 /\ ~Valid(cookie[b])
    /\ cookie' = [cookie EXCEPT ![b] = 0]
    /\ UNCHANGED <<users, open, passwords, sessions, request>>

Logout(b) ==
    /\ Valid(cookie[b])
    /\ sessions' = [sessions EXCEPT ![cookie[b]].over = TRUE]
    /\ cookie' = [cookie EXCEPT ![b] = 0]
    /\ UNCHANGED <<users, open, passwords, request>>

\* Eight hours have passed, or thirty minutes without a page.
RunOut(s) ==
    /\ ~sessions[s].late
    /\ sessions' = [sessions EXCEPT ![s].late = TRUE]
    /\ UNCHANGED <<users, open, passwords, cookie, request>>

-----------------------------------------------------------------------------
(* Changing a password.                                                    *)

\* Users change their own with the old one, administrators change anyone's.
BeginChange(r, b, u) ==
    /\ Starts(r)
    /\ Valid(cookie[b]) /\ users[u].known
    /\ Actor(b) = u \/ IsAdmin(b)
    /\ \E p \in open[u] :
         request' = [request EXCEPT ![r] = Request("change", u, b, p)]
    /\ UNCHANGED <<users, open, passwords, sessions, cookie>>

\* Mutant: the new row ends with the one read before.
MutCommitChange(r) ==
    /\ At(r, "change")
    /\ passwords < MaxPasswords
    /\ passwords' = passwords + 1
    /\ open' = [open EXCEPT ![request[r].user] = @ \ {request[r].password}]
    /\ request' = Goes(r, "revoke")
    /\ UNCHANGED <<users, sessions, cookie>>

\* The row read before ends now, a new one begins.
CommitChange(r) ==
    /\ At(r, "change")
    /\ passwords < MaxPasswords
    /\ passwords' = passwords + 1
    /\ open' = [open EXCEPT ![request[r].user] =
                   (@ \ {request[r].password}) \union {passwords + 1}]
    /\ request' = Goes(r, "revoke")
    /\ UNCHANGED <<users, sessions, cookie>>

\* Mutant: the page forgets its own session, the others stay.
MutRevokeAll(r) ==
    /\ At(r, "revoke")
    /\ cookie' = [cookie EXCEPT ![request[r].browser] = 0]
    /\ request' = Done(r)
    /\ UNCHANGED <<users, open, passwords, sessions>>

\* All sessions of the user end. The profile page then clears the cookie, also
\* of an administrator who changed someone else's; the window of the
\* administration does not.
RevokeAll(r) ==
    /\ At(r, "revoke")
    /\ sessions' = Revoked(request[r].user)
    /\ cookie' \in {cookie, [cookie EXCEPT ![request[r].browser] = 0]}
    /\ request' = Done(r)
    /\ UNCHANGED <<users, open, passwords>>

-----------------------------------------------------------------------------
(* Administration.                                                         *)

\* The window of a user commits the permissions first, then changes the
\* password if one was typed.
Modify(r, b, u) ==
    /\ Starts(r)
    /\ IsAdmin(b) /\ users[u].known
    /\ \E admin \in BOOLEAN, p \in open[u] :
         /\ users' = [users EXCEPT ![u].admin = admin]
         /\ \/ request' = request
            \/ /\ Actor(b) # u
               /\ request' = [request EXCEPT ![r] = Request("change", u, b, p)]
    /\ UNCHANGED <<open, passwords, sessions, cookie>>

\* A name that is taken is refused.
CreateUser(b, u) ==
    /\ IsAdmin(b) /\ ~users[u].known
    /\ passwords < MaxPasswords
    /\ \E admin \in BOOLEAN : users' = [users EXCEPT ![u] = NewRow(admin)]
    /\ passwords' = passwords + 1
    /\ open' = [open EXCEPT ![u] = {passwords + 1}]
    /\ UNCHANGED <<sessions, cookie, request>>

BeginToggle(r, b, u) ==
    /\ Starts(r)
    /\ IsAdmin(b) /\ users[u].known
    /\ \E step \in {"lock", "active"} :
         request' = [request EXCEPT ![r] = Request(step, u, b, 0)]
    /\ UNCHANGED <<users, open, passwords, sessions, cookie>>

\* What was read is reversed. Unlocking forgets the failures that were read.
ToggleLock(r) ==
    LET u == request[r].user
        seen == request[r].seen
    IN
    /\ At(r, "lock")
    /\ users' = [users EXCEPT ![u].locked = ~seen.locked,
                              ![u].failed = IF seen.locked /\ seen.failed # 0 THEN 0 ELSE @]
    /\ request' = Done(r)
    /\ UNCHANGED <<open, passwords, sessions, cookie>>

ToggleActive(r) ==
    /\ At(r, "active")
    /\ users' = [users EXCEPT ![request[r].user].active = ~request[r].seen.active]
    /\ request' = Done(r)
    /\ UNCHANGED <<open, passwords, sessions, cookie>>

\* The process stops; what it has committed stays.
Stop(r) ==
    /\ ~alone
    /\ request[r] # Idle
    /\ request' = Done(r)
    /\ UNCHANGED <<users, open, passwords, sessions, cookie>>

-----------------------------------------------------------------------------

Next ==
    /\ UNCHANGED alone
    /\ \/ \E r \in Requests :
            \/ CommitReset(r) \/ OpenSession(r) \/ CommitFail(r) \/ RevokeIfLocked(r)
            \/ CommitChange(r) \/ RevokeAll(r) \/ ToggleLock(r) \/ ToggleActive(r) \/ Stop(r)
            \/ \E b \in Browsers, u \in Users :
                 BeginLogin(r, b, u) \/ BeginChange(r, b, u) \/ Modify(r, b, u) \/ BeginToggle(r, b, u)
       \/ \E b \in Browsers : TurnAway(b) \/ Logout(b) \/ \E u \in Users : CreateUser(b, u)
       \/ \E s \in DOMAIN sessions : RunOut(s)

Spec == Init /\ [][Next]_vars

-----------------------------------------------------------------------------

Known == {u \in DOMAIN users : users[u].known}

RequestRow ==
    {Idle}
    \union [step : {"reset", "fail", "open", "locked", "change", "revoke"}, user : Users,
            browser : Browsers, seen : Row, password : PasswordRow]
    \union [step : {"lock", "active"}, user : Users, browser : Browsers, seen : Row,
            password : {0}]

TypeOK ==
    /\ users \in [Users -> Row]
    /\ open \in [Users -> SUBSET PasswordRow]
    /\ passwords \in 0 .. MaxPasswords
    /\ sessions \in Seq(Session) /\ Len(sessions) <= MaxSessions
    /\ cookie \in [Browsers -> 0 .. Len(sessions)]
    /\ request \in [Requests -> RequestRow]
    /\ alone \in BOOLEAN

\* Whatever requests cross or stop, every account keeps a password, and no
\* password is that of two accounts: two changes at a time both close the row
\* they read and both add one (UsersRepository.new_password).
EveryoneKeepsAPassword ==
    \A u \in Known : open[u] # {} /\ \A v \in Known \ {u} : open[u] \cap open[v] = {}

OnePassword == \A u \in Known : Cardinality(open[u]) = 1
PasswordFollowed(s) == sessions[s].over \/ sessions[s].by \in open[sessions[s].user]

\* With one request at a time an account has one password (validate_password
\* takes the first row that is open), and once a change of it is over, no
\* session opened with the old one is still valid, whatever the administrators
\* did meanwhile.
SessionsFollowPassword ==
    alone => /\ OnePassword
             /\ Resting => \A s \in DOMAIN sessions : PasswordFollowed(s)

\* With one request at a time, after the third failure in a row the account
\* stays locked until it is unlocked, and then starts from zero; no session
\* outlives the lock.
FailuresLock ==
    alone /\ Resting => \A u \in Known : users[u].failed >= MaxFailures =>
        /\ users[u].locked
        /\ \A s \in DOMAIN sessions : sessions[s].user = u => sessions[s].over
=============================================================================
