--------------------------- MODULE AuthService_proofs ---------------------------
(***************************************************************************)
(* The safety properties of the Auth service, for any number of accounts,  *)
(* devices and requests.                                                   *)
(***************************************************************************)
EXTENDS AuthService, TLAPS

\* A session is in the table only after its request has written it, so that
\* no write of a session finds one there.
IssuedOnce ==
    \A s \in DOMAIN sessions :
        Op[s] \in {"register", "login"} /\ calls[s].stage \in {"committing", "answered", "failed"}

\* A request that rotates a session knows which.
RotatesASession == \A r \in Request : calls[r].stage = "rotating" => calls[r].session \in Request

(***************************************************************************)
(* DeletedIsGone is inductive with the types.  RevokedStaysDead needs      *)
(* IssuedOnce: a session written twice would come back to life.            *)
(***************************************************************************)
IInv == TypeOK /\ DeletedIsGone /\ IssuedOnce /\ RotatesASession

\* What an action may do to a session that it leaves in the table.
DeadStay ==
    \A s \in DOMAIN sessions :
        sessions[s].revoked /\ s \in DOMAIN sessions' => sessions'[s] = sessions[s]

LEMMA IInvInit == Init => IInv
<1> SUFFICES ASSUME Init PROVE IInv
  OBVIOUS
<1>1. DOMAIN sessions \subseteq Request /\ \A s \in DOMAIN sessions : sessions[s] \in Session
  BY AuthAssumption DEF Init, NewSession, Session
<1>2. calls \in [Request -> Call]
  BY AuthAssumption DEF Init, Call, Stage
<1>3. tokens \subseteq Token
  <2> SUFFICES ASSUME NEW t \in tokens PROVE t \in Token
    OBVIOUS
  <2>1. PICK r \in Earlier : t = NewToken(r, r)
    BY DEF Init
  <2> QED BY <2>1, AuthAssumption DEF NewToken, Token
<1>4. TypeOK
  BY <1>1, <1>2, <1>3, AuthAssumption DEF Init, TypeOK, DeviceRow
<1>5. DeletedIsGone
  BY AuthAssumption DEF Init, DeletedIsGone, NewSession
<1>6. IssuedOnce /\ RotatesASession
  BY AuthAssumption DEF Init, IssuedOnce, RotatesASession
<1> QED BY <1>4, <1>5, <1>6 DEF IInv

\* Goto changes the stage of one call.
LEMMA GotoCalls ==
  ASSUME TypeOK, NEW r \in Request, NEW st \in Stage, Goto(r, st)
  PROVE  /\ calls' \in [Request -> Call]
         /\ calls'[r].stage = st
         /\ \A x \in Request \ {r} : calls'[x] = calls[x]
<1>1. calls \in [Request -> Call]
  BY DEF TypeOK
<1>2. [calls[r] EXCEPT !.stage = st] \in Call /\ [calls[r] EXCEPT !.stage = st].stage = st
  BY <1>1 DEF Call
<1>3. calls' = [calls EXCEPT ![r] = [calls[r] EXCEPT !.stage = st]]
  BY DEF Goto
<1> QED BY <1>1, <1>2, <1>3

\* A call that only moves on: not back before the write of its session, and
\* to a rotation only of a session.
LEMMA Moves ==
  ASSUME IInv, NEW r \in Request, NEW c \in Call, calls' = [calls EXCEPT ![r] = c],
         c.stage = "rotating" => c.session \in Request,
         r \in DOMAIN sessions => c.stage \in {"committing", "answered", "failed"},
         UNCHANGED <<users, outdated, sessions, devices, tokens>>
  PROVE  IInv' /\ DeadStay
<1>1. TypeOK'
  BY DEF IInv, TypeOK
<1>2. DeletedIsGone'
  BY DEF IInv, DeletedIsGone
<1>3. IssuedOnce'
  BY DEF IInv, IssuedOnce, TypeOK
<1>4. RotatesASession'
  BY DEF IInv, RotatesASession, TypeOK
<1>5. DeadStay
  BY DEF DeadStay
<1> QED BY <1>1, <1>2, <1>3, <1>4, <1>5 DEF IInv

\* Goto is such a move.
LEMMA GotoMoves ==
  ASSUME IInv, NEW r \in Request, NEW st \in Stage \ {"rotating"}, Goto(r, st),
         r \in DOMAIN sessions => st \in {"committing", "answered", "failed"},
         UNCHANGED <<users, outdated, sessions, devices, tokens>>
  PROVE  IInv' /\ DeadStay
<1> DEFINE c == [calls[r] EXCEPT !.stage = st]
<1>1. calls[r] \in Call
  BY DEF IInv, TypeOK
<1>2. c \in Call /\ c.stage = st
  BY <1>1 DEF Call
<1>3. calls' = [calls EXCEPT ![r] = c]
  BY DEF Goto
<1> HIDE DEF c
<1> QED BY <1>2, <1>3, Moves

LEMMA IInvStep == IInv /\ [Next]_vars => IInv' /\ [DeadStay]_vars
<1> SUFFICES ASSUME IInv, [Next]_vars PROVE IInv' /\ [DeadStay]_vars
  OBVIOUS
<1>1. ASSUME NEW r \in Request, Register(r) PROVE IInv' /\ DeadStay
  <2>0. /\ calls' \in [Request -> Call]
        /\ calls'[r].stage = "issuing"
        /\ \A x \in Request \ {r} : calls'[x] = calls[x]
    <3>1. Goto(r, "issuing") /\ TypeOK
      BY <1>1 DEF Register, IInv
    <3> QED BY <3>1, GotoCalls DEF Stage
  <2>1. r \notin DOMAIN sessions /\ calls[r] \in Call
    BY <1>1 DEF IInv, IssuedOnce, TypeOK, Register, At
  <2>2. calls' \in [Request -> Call] /\ users' \subseteq User
    BY <1>1, <2>1, AuthAssumption, <2>0, ZenonT(40) DEF Register, IInv, TypeOK
  <2>3. TypeOK'
    BY <1>1, <2>2 DEF Register, IInv, TypeOK
  <2>4. DeletedIsGone' /\ DeadStay
    BY <1>1 DEF Register, IInv, DeletedIsGone, DeadStay
  <2>5. IssuedOnce' /\ RotatesASession'
    BY <1>1, <2>1, <2>0 DEF Register, IInv, IssuedOnce, RotatesASession, TypeOK
  <2> QED BY <2>3, <2>4, <2>5 DEF IInv
<1>2. ASSUME NEW r \in Request, LoadUser(r) PROVE IInv' /\ DeadStay
  <2>1. r \notin DOMAIN sessions
    BY <1>2 DEF IInv, IssuedOnce, LoadUser, At
  <2>2. CASE Subject[r] \notin users
    BY <1>2, <2>1, <2>2, GotoMoves DEF LoadUser, Stage
  <2>3. CASE Subject[r] \in users /\ Subject[r] \in outdated
    BY <1>2, <2>1, <2>3, GotoMoves DEF LoadUser, Stage
  <2>4. CASE Subject[r] \in users /\ Subject[r] \notin outdated
    BY <1>2, <2>1, <2>4, GotoMoves DEF LoadUser, Stage
  <2> QED BY <2>2, <2>3, <2>4
<1>3. ASSUME NEW r \in Request, Rehash(r) PROVE IInv' /\ DeadStay
  <2> DEFINE c == IF Subject[r] \in users
                  THEN [calls[r] EXCEPT !.stage = "issuing", !.rehashed = TRUE]
                  ELSE [calls[r] EXCEPT !.stage = "failed"]
  <2>1. r \notin DOMAIN sessions /\ calls[r] \in Call
    BY <1>3 DEF IInv, IssuedOnce, TypeOK, Rehash, At
  <2>2. c \in Call /\ c.stage # "rotating"
    BY <2>1 DEF Call, Stage
  <2>3. calls' = [calls EXCEPT ![r] = c]
    BY <1>3 DEF Rehash
  <2> HIDE DEF c
  <2> QED BY <1>3, <2>1, <2>2, <2>3, Moves DEF Rehash
<1>4. ASSUME NEW r \in Request, Issue(r) PROVE IInv' /\ DeadStay
  <2>1. r \notin DOMAIN sessions /\ calls[r] \in Call /\ Op[r] \in {"register", "login"}
    BY <1>4 DEF IInv, IssuedOnce, TypeOK, Issue, At
  <2>2. CASE Subject[r] \notin users
    BY <1>4, <2>1, <2>2, GotoMoves DEF Issue, Stage
  <2>3. CASE Subject[r] \in users
    <3> DEFINE c == [calls[r] EXCEPT
                       !.stage = IF Op[r] = "login" THEN "committing" ELSE "answered",
                       !.session = r]
    <3>1. c \in Call /\ c.stage \in {"committing", "answered"}
      BY <2>1 DEF Call, Stage
    <3>2. /\ calls' = [calls EXCEPT ![r] = c]
          /\ sessions' = Insert(sessions, r, NewSession(r))
          /\ UNCHANGED <<users, outdated, devices>>
      BY <1>4, <2>3 DEF Issue
    <3> HIDE DEF c
    <3>3. /\ DOMAIN sessions' = DOMAIN sessions \cup {r}
          /\ sessions'[r] = NewSession(r)
          /\ \A s \in DOMAIN sessions : sessions'[s] = sessions[s]
      BY <2>1, <3>2 DEF Insert
    <3>4. NewSession(r) \in Session /\ NewSession(r).user \in users
      BY <2>3, AuthAssumption DEF NewSession, Session
    <3>5. tokens' \subseteq Token
      BY <1>4, <2>3 DEF Issue, IInv, TypeOK, NewToken, Token
    <3>6. calls' \in [Request -> Call]
      BY <3>1, <3>2 DEF IInv, TypeOK
    <3>7. TypeOK'
      BY <3>2, <3>3, <3>4, <3>5, <3>6 DEF IInv, TypeOK
    <3>8. DeletedIsGone' /\ DeadStay
      BY <3>2, <3>3, <3>4 DEF IInv, DeletedIsGone, DeadStay
    <3>9. IssuedOnce' /\ RotatesASession'
      BY <2>1, <3>1, <3>2, <3>3 DEF IInv, IssuedOnce, RotatesASession, TypeOK
    <3> QED BY <3>7, <3>8, <3>9 DEF IInv
  <2> QED BY <2>2, <2>3
<1>5. ASSUME NEW r \in Request, CommitLogin(r) PROVE IInv' /\ DeadStay
  <2>0. /\ calls' \in [Request -> Call]
        /\ calls'[r].stage = "answered"
        /\ \A x \in Request \ {r} : calls'[x] = calls[x]
    <3>1. Goto(r, "answered") /\ TypeOK
      BY <1>5 DEF CommitLogin, IInv
    <3> QED BY <3>1, GotoCalls DEF Stage
  <2>1. calls' \in [Request -> Call]
    BY <1>5, <2>0 DEF CommitLogin, IInv
  <2>2. outdated' \subseteq users /\ tokens' \subseteq Token
    BY <1>5 DEF CommitLogin, IInv, TypeOK, NewToken, Token
  <2>3. TypeOK'
    BY <1>5, <2>1, <2>2 DEF CommitLogin, IInv, TypeOK
  <2>4. DeletedIsGone' /\ DeadStay
    BY <1>5 DEF CommitLogin, IInv, DeletedIsGone, DeadStay
  <2>5. IssuedOnce' /\ RotatesASession'
    BY <1>5, <2>0 DEF CommitLogin, IInv, IssuedOnce, RotatesASession, TypeOK
  <2> QED BY <2>3, <2>4, <2>5 DEF IInv
<1>6. ASSUME NEW r \in Request, ReadSession(r) PROVE IInv' /\ DeadStay
  <2>1. r \notin DOMAIN sessions /\ calls[r] \in Call
    BY <1>6 DEF IInv, IssuedOnce, TypeOK, ReadSession, At
  <2>2. PICK t \in Held(r) :
          IF Valid(t.session) /\ sessions[t.session].refresh = t.refresh
          THEN calls' = [calls EXCEPT ![r] = [@ EXCEPT !.stage = "rotating",
                                                       !.session = t.session]]
          ELSE Goto(r, "failed")
    BY <1>6 DEF ReadSession
  <2>3. t.session \in Request
    BY DEF Held, IInv, TypeOK, Token
  <2>4. CASE Goto(r, "failed")
    BY <1>6, <2>1, <2>4, GotoMoves DEF ReadSession, Stage
  <2>5. CASE calls' = [calls EXCEPT ![r] = [@ EXCEPT !.stage = "rotating",
                                                     !.session = t.session]]
    <3> DEFINE c == [calls[r] EXCEPT !.stage = "rotating", !.session = t.session]
    <3>1. c \in Call /\ c.session \in Request
      BY <2>1, <2>3 DEF Call, Stage
    <3>2. calls' = [calls EXCEPT ![r] = c]
      BY <2>5
    <3> HIDE DEF c
    <3> QED BY <1>6, <2>1, <3>1, <3>2, Moves DEF ReadSession
  <2> QED BY <2>2, <2>4, <2>5
<1>7. ASSUME NEW r \in Request, Rotate(r) PROVE IInv' /\ DeadStay
  <2>0. /\ calls' \in [Request -> Call]
        /\ calls'[r].stage = "answered"
        /\ \A x \in Request \ {r} : calls'[x] = calls[x]
    <3>1. Goto(r, "answered") /\ TypeOK
      BY <1>7 DEF Rotate, IInv
    <3> QED BY <3>1, GotoCalls DEF Stage
  <2> DEFINE s == calls[r].session
  <2>1. s \in Request
    BY <1>7 DEF Rotate, At, IInv, RotatesASession
  <2>2. /\ DOMAIN sessions' = DOMAIN sessions
        /\ \A x \in DOMAIN sessions : /\ sessions'[x] \in Session
                                      /\ sessions'[x].user = sessions[x].user
                                      /\ sessions[x].revoked => sessions'[x] = sessions[x]
    <3>1. CASE Valid(s)
      <4> DEFINE row == [sessions[s] EXCEPT !.refresh = r]
      <4>1. sessions' = [sessions EXCEPT ![s] = row]
        BY <1>7, <3>1 DEF Rotate
      <4>2. \A x \in DOMAIN sessions : sessions[x] \in Session
        BY DEF IInv, TypeOK
      <4>3. s \in DOMAIN sessions /\ ~sessions[s].revoked
        BY <3>1 DEF Valid
      <4>4. row \in Session /\ row.user = sessions[s].user
        BY <4>2, <4>3 DEF Session
      <4> HIDE DEF row, s
      <4> QED BY <4>1, <4>2, <4>3, <4>4
    <3>2. CASE ~Valid(s)
      BY <1>7, <3>2 DEF Rotate, IInv, TypeOK
    <3> QED BY <3>1, <3>2
  <2>3. calls' \in [Request -> Call] /\ tokens' \subseteq Token
    BY <1>7, <2>1, <2>0 DEF Rotate, IInv, TypeOK, NewToken, Token
  <2>4. TypeOK'
    BY <1>7, <2>2, <2>3 DEF Rotate, IInv, TypeOK
  <2>5. DeletedIsGone' /\ DeadStay
    BY <1>7, <2>2 DEF Rotate, IInv, DeletedIsGone, DeadStay
  <2>6. IssuedOnce' /\ RotatesASession'
    BY <1>7, <2>2, <2>0 DEF Rotate, IInv, IssuedOnce, RotatesASession, TypeOK
  <2> QED BY <2>4, <2>5, <2>6 DEF IInv
<1>8. ASSUME NEW r \in Request, RevokeSession(r) PROVE IInv' /\ DeadStay
  <2>0. /\ calls' \in [Request -> Call]
        /\ calls'[r].stage = "answered"
        /\ \A x \in Request \ {r} : calls'[x] = calls[x]
    <3>1. Goto(r, "answered") /\ TypeOK
      BY <1>8 DEF RevokeSession, IInv
    <3> QED BY <3>1, GotoCalls DEF Stage
  <2>1. /\ DOMAIN sessions' = DOMAIN sessions
        /\ \A x \in DOMAIN sessions : /\ sessions'[x] \in Session
                                      /\ sessions'[x].user = sessions[x].user
                                      /\ sessions[x].revoked => sessions'[x] = sessions[x]
    <3>1. PICK s \in DOMAIN sessions :
            sessions' = [sessions EXCEPT ![s] = [@ EXCEPT !.revoked = TRUE]]
      BY <1>8 DEF RevokeSession
    <3> DEFINE row == [sessions[s] EXCEPT !.revoked = TRUE]
    <3>2. \A x \in DOMAIN sessions : sessions[x] \in Session
      BY DEF IInv, TypeOK
    <3>3. sessions' = [sessions EXCEPT ![s] = row]
      BY <3>1
    <3>4. row \in Session /\ row.user = sessions[s].user
      BY <3>2 DEF Session
    <3>5. sessions[s].revoked => row = sessions[s]
      BY <3>2 DEF Session
    <3> HIDE DEF row
    <3> QED BY <3>2, <3>3, <3>4, <3>5
  <2>2. calls' \in [Request -> Call]
    BY <1>8, <2>0 DEF RevokeSession, IInv
  <2>3. TypeOK'
    BY <1>8, <2>1, <2>2 DEF RevokeSession, IInv, TypeOK
  <2>4. DeletedIsGone' /\ DeadStay
    BY <1>8, <2>1 DEF RevokeSession, IInv, DeletedIsGone, DeadStay
  <2>5. IssuedOnce' /\ RotatesASession'
    BY <1>8, <2>1, <2>0 DEF RevokeSession, IInv, IssuedOnce, RotatesASession, TypeOK
  <2> QED BY <2>3, <2>4, <2>5 DEF IInv
<1>9. ASSUME NEW r \in Request, RequireToken(r) PROVE IInv' /\ DeadStay
  <2>1. r \notin DOMAIN sessions /\ calls[r] \in Call
    BY <1>9 DEF IInv, IssuedOnce, TypeOK, RequireToken
  <2>2. PICK t \in Held(r), st \in {"verified", "failed"} :
          calls' = [calls EXCEPT ![r] = [@ EXCEPT !.stage = st, !.session = t.session]]
    BY <1>9 DEF RequireToken
  <2> DEFINE c == [calls[r] EXCEPT !.stage = st, !.session = t.session]
  <2>3. t.session \in Request
    BY DEF Held, IInv, TypeOK, Token
  <2>4. c \in Call /\ c.stage # "rotating"
    BY <2>1, <2>3 DEF Call, Stage
  <2>5. calls' = [calls EXCEPT ![r] = c]
    BY <2>2
  <2> HIDE DEF c
  <2> QED BY <1>9, <2>1, <2>4, <2>5, Moves DEF RequireToken
<1>10. ASSUME NEW r \in Request, RegisterDevice(r) PROVE IInv' /\ DeadStay
  <2>1. CASE Subject[r] \notin users
    BY <1>10, <2>1, GotoMoves DEF RegisterDevice, Stage
  <2>2. CASE Subject[r] \in users
    <3> DEFINE row == [user |-> Subject[r], revoked |-> FALSE]
    <3>1. devices' = Insert(devices, Target[r], row) /\ Goto(r, "answered")
      BY <1>10, <2>2 DEF RegisterDevice
    <3>2. row \in DeviceRow /\ row.user \in users /\ Target[r] \in Device
      BY <2>2, AuthAssumption DEF DeviceRow
    <3> HIDE DEF row
    <3>3. /\ DOMAIN devices' = DOMAIN devices \cup {Target[r]}
          /\ \A d \in DOMAIN devices' :
               devices'[d] = row \/ (d \in DOMAIN devices /\ devices'[d] = devices[d])
      BY <3>1 DEF Insert
    <3>4. /\ calls' \in [Request -> Call]
          /\ calls'[r].stage = "answered"
          /\ \A x \in Request \ {r} : calls'[x] = calls[x]
      BY <3>1, GotoCalls DEF IInv, Stage
    <3>5. TypeOK'
      BY <1>10, <3>2, <3>3, <3>4 DEF RegisterDevice, IInv, TypeOK
    <3>6. DeletedIsGone' /\ DeadStay
      BY <1>10, <3>2, <3>3 DEF RegisterDevice, IInv, DeletedIsGone, DeadStay
    <3>7. IssuedOnce' /\ RotatesASession'
      BY <1>10, <3>4 DEF RegisterDevice, IInv, IssuedOnce, RotatesASession, TypeOK
    <3> QED BY <3>5, <3>6, <3>7 DEF IInv
  <2> QED BY <2>1, <2>2
<1>11. ASSUME NEW r \in Request, GetDevice(r) PROVE IInv' /\ DeadStay
  <2>1. r \notin DOMAIN sessions
    BY <1>11 DEF IInv, IssuedOnce, GetDevice, At
  <2> QED BY <1>11, <2>1, GotoMoves DEF GetDevice, Stage
<1>12. ASSUME NEW r \in Request, UpdateDevice(r) PROVE IInv' /\ DeadStay
  <2>1. r \notin DOMAIN sessions
    BY <1>12 DEF IInv, IssuedOnce, UpdateDevice, At
  <2> QED BY <1>12, <2>1, GotoMoves DEF UpdateDevice, Stage
<1>13. ASSUME NEW r \in Request, UpdateDeviceAgain(r) PROVE IInv' /\ DeadStay
  BY <1>13, GotoMoves DEF UpdateDeviceAgain, Stage
<1>14. ASSUME NEW r \in Request, LockUser(r) PROVE IInv' /\ DeadStay
  <2>1. r \notin DOMAIN sessions
    BY <1>14 DEF IInv, IssuedOnce, LockUser, At
  <2> QED BY <1>14, <2>1, GotoMoves DEF LockUser, Stage
<1>15. ASSUME NEW r \in Request, DeleteUserData(r) PROVE IInv' /\ DeadStay
  <2>0. /\ calls' \in [Request -> Call]
        /\ calls'[r].stage = "answered"
        /\ \A x \in Request \ {r} : calls'[x] = calls[x]
    <3>1. Goto(r, "answered") /\ TypeOK
      BY <1>15 DEF DeleteUserData, IInv
    <3> QED BY <3>1, GotoCalls DEF Stage
  <2>1. /\ DOMAIN sessions' = {s \in DOMAIN sessions : sessions[s].user # Subject[r]}
        /\ \A s \in DOMAIN sessions' : sessions'[s] = sessions[s]
        /\ DOMAIN devices' = {d \in DOMAIN devices : devices[d].user # Subject[r]}
        /\ \A d \in DOMAIN devices' : devices'[d] = devices[d]
    BY <1>15 DEF DeleteUserData, Restrict
  <2>2. calls' \in [Request -> Call]
    BY <1>15, <2>0 DEF DeleteUserData, IInv
  <2>3. TypeOK'
    BY <1>15, <2>1, <2>2 DEF DeleteUserData, IInv, TypeOK
  <2>4. DeletedIsGone' /\ DeadStay
    BY <1>15, <2>1 DEF DeleteUserData, IInv, DeletedIsGone, DeadStay
  <2>5. IssuedOnce' /\ RotatesASession'
    BY <1>15, <2>1, <2>0 DEF DeleteUserData, IInv, IssuedOnce, RotatesASession, TypeOK
  <2> QED BY <2>3, <2>4, <2>5 DEF IInv
<1>16. ASSUME NEW r \in Request, Cancel(r) PROVE IInv' /\ DeadStay
  BY <1>16, GotoMoves DEF Cancel, Stage
<1>17. CASE UNCHANGED vars
  BY <1>17 DEF vars, IInv, TypeOK, DeletedIsGone, IssuedOnce, RotatesASession
<1> QED
  BY <1>1, <1>2, <1>3, <1>4, <1>5, <1>6, <1>7, <1>8, <1>9, <1>10, <1>11,
     <1>12, <1>13, <1>14, <1>15, <1>16, <1>17 DEF Next, Handle

LEMMA IInvHolds == Spec => []IInv
BY IInvInit, IInvStep, PTL DEF Spec

\* Type correctness; every credential belongs to an account.
THEOREM Typing == Spec => []TypeOK
BY IInvHolds, PTL DEF IInv

\* Whatever a deletion of an account raced, nothing of the account is left
\* (Issue, Register, DeleteUserData).
THEOREM Gone == Spec => []DeletedIsGone
BY IInvHolds, PTL DEF IInv

\* A refresh never brings a revoked session back to life (Refresh).
THEOREM Dead == Spec => RevokedStaysDead
BY IInvHolds, IInvStep, PTL DEF Spec, RevokedStaysDead, DeadStay
===============================================================================
