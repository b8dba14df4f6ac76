------------------------------ MODULE AuthService ------------------------------
(***************************************************************************)
(* The Auth service (services/auth/internal): accounts, sessions and the   *)
(* device registry in one database at READ COMMITTED, used by concurrent   *)
(* requests.  A login verifies the password in a transaction but writes    *)
(* its session through a second connection (Issue uses t.store, not tx);   *)
(* a refresh reads the session and rotates it with two statements; the     *)
(* deletion of an account removes everything by foreign-key cascades.      *)
(*                                                                         *)
(* Row locks are modelled where a transaction holds them over several      *)
(* statements: the credential row a login has rehashed, the account row a  *)
(* deletion has locked, the device row a revocation has updated.  A token  *)
(* that has expired is refused as one of a revoked session is: "revoked"   *)
(* stands for both.                                                        *)
(***************************************************************************)
EXTENDS FiniteSets, Functions

CONSTANTS
    User, Device,
    Request,         \* the requests of a run, each made once
    Op, Subject,     \* Op[r]: what r asks for; Subject[r]: the account it is about
    Target,          \* Target[r]: the device of a request about one
    Existing,        \* the accounts there are at the start,
    Earlier,         \* and the logins that were answered before
    None

Operation == {"register", "login", "refresh", "delete me",
              "register device", "revoke device", "revoke session"}

ASSUME AuthAssumption ==
    /\ Op \in [Request -> Operation]
    /\ Subject \in [Request -> User]
    /\ Target \in [Request -> Device]
    /\ Existing \subseteq User
    /\ None \notin Request
    /\ \A r \in Earlier : r \in Request /\ Op[r] = "login" /\ Subject[r] \in Existing
    \* A registration takes a new user id.
    /\ \A r \in Request : Op[r] = "register" =>
         /\ Subject[r] \notin Existing
         /\ \A x \in Request \ {r} : Op[x] = "register" => Subject[x] # Subject[r]
    \* A device registration takes a new device id.
    /\ \A r, x \in Request :
         Op[r] = "register device" /\ Op[x] = "register device" /\ Target[r] = Target[x] => r = x

VARIABLES
    users,       \* rows of users (and of password_credentials)
    outdated,    \* users whose credential will be rehashed at the next login
    sessions,    \* rows of sessions, named by the request that created them
    devices,     \* rows of devices
    calls,       \* calls[r]: the handler of request r
    tokens       \* the tokens answered to clients

vars == <<users, outdated, sessions, devices, calls, tokens>>

\* A refresh id is named by the request that drew it.
Session == [user : User, refresh : Request, revoked : BOOLEAN]
DeviceRow == [user : User, revoked : BOOLEAN]
Token == [session : Request, refresh : Request]

Stage == {"new", "verified", "rehashing", "issuing", "committing", "rotating",
          "cascading", "revoking", "revoking again", "answered", "failed"}
Final == {"answered", "failed"}
Call == [stage : Stage, session : Request \cup {None}, rehashed : BOOLEAN]

\* What a request that creates a session gives it, and answers.
NewSession(r) == [user |-> Subject[r], refresh |-> r, revoked |-> FALSE]
NewToken(s, r) == [session |-> s, refresh |-> r]

Init ==
    /\ users = Existing
    /\ outdated \in SUBSET Existing
    /\ sessions = [r \in Earlier |-> NewSession(r)]
    /\ devices = [d \in {} |-> d]
    /\ calls = [r \in Request |-> IF r \in Earlier
                  THEN [stage |-> "answered", session |-> r, rehashed |-> FALSE]
                  ELSE [stage |-> "new", session |-> None, rehashed |-> FALSE]]
    /\ tokens = {NewToken(r, r) : r \in Earlier}

At(r, op, stage) == Op[r] = op /\ calls[r].stage = stage
Goto(r, stage) == calls' = [calls EXCEPT ![r].stage = stage]

Insert(table, key, row) == [x \in DOMAIN table \cup {key} |-> IF x = key THEN row ELSE table[x]]

\* Locks held over several statements.
CredentialLocked(u) ==
    \E r \in Request : /\ Op[r] = "login" /\ Subject[r] = u /\ calls[r].rehashed
                       /\ calls[r].stage \in {"issuing", "committing"}
UserLocked(u) == \E r \in Request : At(r, "delete me", "cascading") /\ Subject[r] = u
DeviceLocked(d) == \E r \in Request : At(r, "revoke device", "revoking again") /\ Target[r] = d

\* VerifyAccess of the token of session s, without and with a device id.
Valid(s) == s \in DOMAIN sessions /\ ~sessions[s].revoked
Active(d) == d \in DOMAIN devices /\ ~devices[d].revoked
DeviceAuthorized(s, d) == Valid(s) /\ Active(d) /\ devices[d].user = sessions[s].user

\* Tokens the client of request r may hold.
Held(r) == {t \in tokens : Subject[t.session] = Subject[r]}

-----------------------------------------------------------------------------
(* Registration and login.                                                 *)

\* Register commits the account; its session is written after that.
Register(r) ==
    /\ At(r, "register", "new")
    /\ users' = users \cup {Subject[r]}
    /\ Goto(r, "issuing")
    /\ UNCHANGED <<outdated, sessions, devices, tokens>>

\* Mutant of Rehash: another connection may have the credential row too, and
\* a rehash inserts a credential where the account is gone.
RehashUnchecked(r) ==
    /\ At(r, "login", "rehashing")
    /\ calls' = [calls EXCEPT ![r] = [@ EXCEPT !.stage = "issuing", !.rehashed = TRUE]]
    /\ outdated' = outdated \cup {Subject[r]}
    /\ UNCHANGED <<users, sessions, devices, tokens>>

\* Login up to the verdict on the password, which is right here.
LoadUser(r) ==
    /\ At(r, "login", "new")
    /\ Goto(r, CASE Subject[r] \notin users -> "failed"
                 [] Subject[r] \in outdated -> "rehashing"
                 [] OTHER -> "issuing")
    /\ UNCHANGED <<users, outdated, sessions, devices, tokens>>

\* UpsertPassword of the transparent rehash waits for the credential row and,
\* where a deletion has taken it away, fails on the foreign key.
Rehash(r) ==
    /\ At(r, "login", "rehashing")
    /\ ~CredentialLocked(Subject[r])
    /\ calls' = [calls EXCEPT ![r] =
         IF Subject[r] \in users THEN [@ EXCEPT !.stage = "issuing", !.rehashed = TRUE]
                                 ELSE [@ EXCEPT !.stage = "failed"]]
    /\ UNCHANGED <<users, outdated, sessions, devices, tokens>>

\* Mutant of Issue: the sessions table has no foreign key.
IssueUnchecked(r) ==
    /\ At(r, "register", "issuing") \/ At(r, "login", "issuing")
    /\ sessions' = Insert(sessions, r, NewSession(r))
    /\ calls' = [calls EXCEPT ![r] =
         [@ EXCEPT !.stage = IF Op[r] = "login" THEN "committing" ELSE "answered", !.session = r]]
    /\ tokens' = IF Op[r] = "login" THEN tokens ELSE tokens \cup {NewToken(r, r)}
    /\ UNCHANGED <<users, outdated, devices>>

\* Issue commits the session by itself.  Its INSERT waits for a deletion that
\* has locked the account, and fails where the account is gone.
Issue(r) ==
    /\ At(r, "register", "issuing") \/ At(r, "login", "issuing")
    /\ ~UserLocked(Subject[r])
    /\ IF Subject[r] \in users
       THEN /\ sessions' = Insert(sessions, r, NewSession(r))
            /\ calls' = [calls EXCEPT ![r] =
                 [@ EXCEPT !.stage = IF Op[r] = "login" THEN "committing" ELSE "answered",
                           !.session = r]]
            /\ tokens' = IF Op[r] = "login" THEN tokens ELSE tokens \cup {NewToken(r, r)}
       ELSE Goto(r, "failed") /\ UNCHANGED <<sessions, tokens>>
    /\ UNCHANGED <<users, outdated, devices>>

\* The transaction of the login commits and the tokens are answered.
CommitLogin(r) ==
    /\ At(r, "login", "committing")
    /\ outdated' = IF calls[r].rehashed THEN outdated \ {Subject[r]} ELSE outdated
    /\ Goto(r, "answered")
    /\ tokens' = tokens \cup {NewToken(r, r)}
    /\ UNCHANGED <<users, sessions, devices>>

-----------------------------------------------------------------------------
(* Refresh, and the end of a session.                                      *)

\* GetByRefreshID and the check of the state of the session.
ReadSession(r) ==
    /\ At(r, "refresh", "new")
    /\ \E t \in Held(r) :
         IF Valid(t.session) /\ sessions[t.session].refresh = t.refresh
         THEN calls' = [calls EXCEPT ![r] = [@ EXCEPT !.stage = "rotating",
                                                      !.session = t.session]]
         ELSE Goto(r, "failed")
    /\ UNCHANGED <<users, outdated, sessions, devices, tokens>>

\* Mutant of Rotate: the row that was read is saved as a whole.
RotateSaves(r) ==
    /\ At(r, "refresh", "rotating")
    /\ LET s == calls[r].session IN
         /\ sessions' = IF s \in DOMAIN sessions
                        THEN [sessions EXCEPT ![s] = [@ EXCEPT !.refresh = r, !.revoked = FALSE]]
                        ELSE sessions
         /\ tokens' = tokens \cup {NewToken(s, r)}
    /\ Goto(r, "answered")
    /\ UNCHANGED <<users, outdated, devices>>

\* Rotate changes the row if it is still there and not revoked, whatever its
\* refresh id is by now; the tokens are answered even if it changed nothing.
Rotate(r) ==
    /\ At(r, "refresh", "rotating")
    /\ LET s == calls[r].session IN
         /\ sessions' = IF Valid(s) THEN [sessions EXCEPT ![s] = [@ EXCEPT !.refresh = r]]
                                    ELSE sessions
         /\ tokens' = tokens \cup {NewToken(s, r)}
    /\ Goto(r, "answered")
    /\ UNCHANGED <<users, outdated, devices>>

\* TokenService.RevokeSession, and a session that expires.
RevokeSession(r) ==
    /\ At(r, "revoke session", "new")
    /\ \E s \in DOMAIN sessions :
         /\ sessions[s].user = Subject[r]
         /\ sessions' = [sessions EXCEPT ![s] = [@ EXCEPT !.revoked = TRUE]]
    /\ Goto(r, "answered")
    /\ UNCHANGED <<users, outdated, devices, tokens>>

-----------------------------------------------------------------------------
(* The device registry.                                                    *)

\* requireToken of the handlers; a revocation names its device to it.
RequireToken(r) ==
    /\ calls[r].stage = "new"
    /\ Op[r] \in {"delete me", "register device", "revoke device"}
    /\ \E t \in Held(r) :
         LET ok == IF Op[r] = "revoke device" THEN DeviceAuthorized(t.session, Target[r])
                                              ELSE Valid(t.session)
         IN  calls' = [calls EXCEPT ![r] =
                         [@ EXCEPT !.stage = IF ok THEN "verified" ELSE "failed",
                                   !.session = t.session]]
    /\ UNCHANGED <<users, outdated, sessions, devices, tokens>>

RegisterDevice(r) ==
    /\ At(r, "register device", "verified")
    /\ ~UserLocked(Subject[r])
    /\ IF Subject[r] \in users
       THEN /\ devices' = Insert(devices, Target[r], [user |-> Subject[r], revoked |-> FALSE])
            /\ Goto(r, "answered")
       ELSE Goto(r, "failed") /\ UNCHANGED devices
    /\ UNCHANGED <<users, outdated, sessions, tokens>>

\* Revoke reads the device; not there is ErrDeviceNotFound, revoked is
\* ErrDeviceRevoked.
GetDevice(r) ==
    /\ At(r, "revoke device", "verified")
    /\ Goto(r, IF Active(Target[r]) THEN "revoking" ELSE "failed")
    /\ UNCHANGED <<users, outdated, sessions, devices, tokens>>

\* The first UPDATE of the transaction locks the row it changes.
UpdateDevice(r) ==
    /\ At(r, "revoke device", "revoking")
    /\ ~DeviceLocked(Target[r])
    /\ Goto(r, IF Active(Target[r]) THEN "revoking again" ELSE "failed")
    /\ UNCHANGED <<users, outdated, sessions, devices, tokens>>

\* The second UPDATE finds no row that is not revoked: ErrRecordNotFound, and
\* the transaction is rolled back.
UpdateDeviceAgain(r) ==
    /\ At(r, "revoke device", "revoking again")
    /\ Goto(r, "failed")
    /\ UNCHANGED <<users, outdated, sessions, devices, tokens>>

-----------------------------------------------------------------------------
(* Deletion of an account.                                                 *)

\* DELETE FROM users locks the account; a second one waits, and finds nothing.
LockUser(r) ==
    /\ At(r, "delete me", "verified")
    /\ ~UserLocked(Subject[r])
    /\ Goto(r, IF Subject[r] \in users THEN "cascading" ELSE "answered")
    /\ UNCHANGED <<users, outdated, sessions, devices, tokens>>

\* The cascades wait for the rows other transactions have locked.
CascadeBlocked(u) ==
    \/ CredentialLocked(u)
    \/ \E d \in DOMAIN devices : devices[d].user = u /\ DeviceLocked(d)

DeleteUserData(r) ==
    /\ At(r, "delete me", "cascading")
    /\ ~CascadeBlocked(Subject[r])
    /\ users' = users \ {Subject[r]}
    /\ outdated' = outdated \ {Subject[r]}
    /\ sessions' = Restrict(sessions, {s \in DOMAIN sessions : sessions[s].user # Subject[r]})
    /\ devices' = Restrict(devices, {d \in DOMAIN devices : devices[d].user # Subject[r]})
    /\ Goto(r, "answered")
    /\ UNCHANGED tokens

\* Mutant of Cancel: a request that waits for a lock is not interrupted.
CancelUnlessWaiting(r) ==
    /\ calls[r].stage \notin Final \cup {"new", "issuing", "cascading"}
    /\ Goto(r, "failed")
    /\ UNCHANGED <<users, outdated, sessions, devices, tokens>>

\* The caller gives up: the context of the request ends, with it the statement
\* that waits, and the transaction is rolled back.
Cancel(r) ==
    /\ calls[r].stage \notin Final \cup {"new"}
    /\ Goto(r, "failed")
    /\ UNCHANGED <<users, outdated, sessions, devices, tokens>>

-----------------------------------------------------------------------------

Handle(r) ==
    \/ LoadUser(r) \/ Rehash(r) \/ Issue(r) \/ CommitLogin(r)
    \/ ReadSession(r) \/ Rotate(r)
    \/ RequireToken(r) \/ RegisterDevice(r)
    \/ GetDevice(r) \/ UpdateDevice(r) \/ UpdateDeviceAgain(r)
    \/ LockUser(r) \/ DeleteUserData(r)

Next == \E r \in Request : Register(r) \/ RevokeSession(r) \/ Handle(r) \/ Cancel(r)

Spec == Init /\ [][Next]_vars

\* A handler goes on, or the gateway gives the request up after its timeout.
Fairness == \A r \in Request : WF_vars(Handle(r) \/ Cancel(r))

FairSpec == Spec /\ Fairness

-----------------------------------------------------------------------------
(* Properties.                                                             *)

TypeOK ==
    /\ users \subseteq User
    /\ outdated \subseteq users
    /\ DOMAIN sessions \subseteq Request
    /\ \A s \in DOMAIN sessions : sessions[s] \in Session
    /\ DOMAIN devices \subseteq Device
    /\ \A d \in DOMAIN devices : devices[d] \in DeviceRow
    /\ calls \in [Request -> Call]
    /\ tokens \subseteq Token

\* Whatever was under way when an account was deleted, nothing of it is left
\* or comes back: no session that a token could use, and no device.
DeletedIsGone ==
    /\ \A s \in DOMAIN sessions : sessions[s].user \in users
    /\ \A d \in DOMAIN devices : devices[d].user \in users

\* A session that was revoked is never rotated or used again, though a refresh
\* may have read it before.
RevokedStaysDead ==
    [][\A s \in DOMAIN sessions :
         sessions[s].revoked /\ s \in DOMAIN sessions' => sessions'[s] = sessions[s]]_vars

\* The revocation of a device that is registered and active, if it is carried
\* out to its end, revokes it.
RevokeRevokes ==
    [][\A r \in Request : UpdateDeviceAgain(r) => ~Active(Target[r])']_vars

\* Every request that was taken up is answered or given up in the end,
\* although logins and deletions of an account may wait for each other.
EveryoneAnswered == <>[](\A r \in Request : calls[r].stage \in Final \cup {"new"})
===============================================================================
