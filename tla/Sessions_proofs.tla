-------------------------- MODULE Sessions_proofs --------------------------
(***************************************************************************)
(* Proofs about Sessions, for any sets of users and requests.              *)
(***************************************************************************)
EXTENDS Sessions, TLAPS

(* A session is minted by the last step of its request.                    *)
MintInv ==
  \A r \in Requests :
    /\ session[r].user = request[r].user
    /\ session[r].state # "absent" => request[r].pc = "done"
    /\ session[r].known => session[r].state # "absent"

(* A refresh works on a session that exists, of its own user.              *)
FromInv ==
  \A r \in Requests :
    request[r].pc \in {"lookup", "rotate", "reuse"} =>
      /\ request[r].from \in Requests
      /\ session[request[r].from].state # "absent"
      /\ session[request[r].from].user = request[r].user

(* A request that presented a revoked token is on its way to a refusal.    *)
StaleInv ==
  \A r \in Requests :
    request[r].stale =>
      /\ request[r].pc \in {"lookup", "reuse", "done"}
      /\ session[r].state = "absent"
      /\ request[r].pc = "lookup" => session[request[r].from].state = "revoked"

(* The old password of u is still to be signed out, or it is known why not.*)
Pending(u) ==
  excused[u] \/ \E r \in Requests : request[r].user = u /\ request[r].pc = "signout"

(* The same for the requests that have read old state and not yet minted.  *)
InFlightInv == \A u \in Users : Overtaken(u) => Pending(u)

IInv ==
  /\ TypeOK
  /\ MintInv
  /\ FromInv
  /\ StaleInv
  /\ InFlightInv
  /\ OldPasswordSignedOut

------------------------------------------------------------------------------
LEMMA InitInv == Init => IInv
<1> SUFFICES ASSUME Init PROVE IInv
  OBVIOUS
<1>1. TypeOK
  <2>1. request \in [Requests -> Request]
    BY DEF Init, Request, Stages
  <2>2. \A r \in Requests : request[r].user \in Users
    BY <2>1 DEF Request
  <2>3. session \in [Requests -> Session]
    BY <2>2 DEF Init, Session
  <2> QED BY <2>1, <2>3 DEF Init, TypeOK
<1>2. \A r \in Requests :
        /\ request[r].pc = "idle" /\ request[r].stale = FALSE
        /\ session[r].user = request[r].user
        /\ session[r].state = "absent" /\ session[r].known = FALSE
  BY DEF Init
<1>3. MintInv /\ FromInv /\ StaleInv
  BY <1>2 DEF MintInv, FromInv, StaleInv
<1>4. InFlightInv /\ OldPasswordSignedOut
  BY <1>2 DEF InFlightInv, Overtaken, OldPasswordSignedOut
<1> QED BY <1>1, <1>3, <1>4 DEF IInv

(* Moving on changes the stage of one request.                             *)
LEMMA GotoStage ==
  ASSUME TypeOK, NEW r \in Requests, NEW stage \in Stages, Goto(r, stage)
  PROVE  /\ request' \in [Requests -> Request]
         /\ request'[r].pc = stage
         /\ request'[r].user = request[r].user /\ request'[r].from = request[r].from
         /\ request'[r].login = request[r].login /\ request'[r].stale = request[r].stale
         /\ \A x \in Requests \ {r} : request'[x] = request[x]
<1> DEFINE rec == [request[r] EXCEPT !.pc = stage]
<1>1. /\ rec \in Request
      /\ rec.pc = stage /\ rec.user = request[r].user /\ rec.from = request[r].from
      /\ rec.login = request[r].login /\ rec.stale = request[r].stale
  BY DEF TypeOK, Request
<1>2. request' = [request EXCEPT ![r] = rec]
  BY DEF Goto
<1> HIDE DEF rec
<1> QED BY <1>1, <1>2 DEF TypeOK

(* Writing revoked_at on some documents: what a revoking step does.        *)
Revokes(S) ==
  /\ session' \in [Requests -> Session]
  /\ \A t \in Requests : /\ session'[t].user = session[t].user
                         /\ session'[t].known = session[t].known
                         /\ session'[t].login = session[t].login
                         /\ t \in S => session'[t].state = "revoked"
                         /\ t \notin S => session'[t] = session[t]

Live(u) == {t \in Requests : session[t].user = u /\ session[t].state = "live"}

LEMMA RevokeAllRevokes ==
  ASSUME TypeOK, NEW u \in Users, RevokeAll(u)
  PROVE  Revokes(Live(u))
<1>1. \A t \in Requests : LET rec == [session[t] EXCEPT !.state = "revoked"] IN
        /\ rec \in Session /\ rec.user = session[t].user /\ rec.known = session[t].known
        /\ rec.login = session[t].login /\ rec.state = "revoked"
  BY DEF TypeOK, Session
<1> QED BY <1>1 DEF RevokeAll, Revokes, Live, TypeOK

LEMMA RevokeOneRevokes ==
  ASSUME TypeOK, NEW t \in Requests,
         session' = [session EXCEPT ![t].state = "revoked"]
  PROVE  Revokes({t})
<1> DEFINE rec == [session[t] EXCEPT !.state = "revoked"]
<1>1. /\ rec \in Session /\ rec.user = session[t].user /\ rec.known = session[t].known
      /\ rec.login = session[t].login /\ rec.state = "revoked"
  BY DEF TypeOK, Session
<1>2. session' = [session EXCEPT ![t] = rec]
  OBVIOUS
<1> HIDE DEF rec
<1> QED BY <1>1, <1>2 DEF Revokes, TypeOK

LEMMA RevokeNoneRevokes == ASSUME TypeOK, UNCHANGED session PROVE Revokes({})
BY DEF Revokes, TypeOK

(* A step that revokes existing sessions and moves one request on, without *)
(* starting a mint and without ending a sign-out, preserves the invariant. *)
LEMMA RevokeStepInv ==
  ASSUME IInv, NEW r \in Requests, NEW S, Revokes(S),
         \A t \in S : session[t].state # "absent",
         NEW stage \in {"mint", "reuse", "done"}, Goto(r, stage),
         request[r].pc # "signout", request[r].pc # "done",
         stage = "mint" => request[r].pc = "rotate",
         stage = "reuse" => request[r].pc = "lookup",
         UNCHANGED <<password, excused>>
  PROVE  IInv'
<1> USE DEF IInv
<1>1. /\ request'[r].pc = stage /\ request' \in [Requests -> Request]
      /\ request'[r].user = request[r].user /\ request'[r].from = request[r].from
      /\ request'[r].login = request[r].login /\ request'[r].stale = request[r].stale
      /\ \A x \in Requests \ {r} : request'[x] = request[x]
  BY GotoStage DEF Stages
<1>2. /\ session' \in [Requests -> Session]
      /\ \A t \in Requests : /\ session'[t].user = session[t].user
                             /\ session'[t].known = session[t].known
                             /\ session'[t].login = session[t].login
                             /\ t \in S => session'[t].state = "revoked"
                             /\ t \notin S => session'[t] = session[t]
  BY DEF Revokes
<1>3. TypeOK'
  BY <1>1, <1>2 DEF TypeOK
<1>4. MintInv'
  BY <1>1, <1>2 DEF MintInv
<1>5. FromInv'
  BY <1>1, <1>2 DEF FromInv
<1>6. StaleInv'
  BY <1>1, <1>2 DEF StaleInv, FromInv, MintInv
<1>7. \A u \in Users : Pending(u) => Pending(u)'
  BY <1>1 DEF Pending
<1>8. InFlightInv'
  BY <1>1, <1>7 DEF InFlightInv, Overtaken
<1>9. OldPasswordSignedOut'
  BY <1>1, <1>2, <1>7 DEF OldPasswordSignedOut, Pending, TypeOK, Session
<1> QED BY <1>3, <1>4, <1>5, <1>6, <1>8, <1>9
------------------------------------------------------------------------------
LEMMA LoginInv == ASSUME IInv, NEW r \in Requests, Login(r) PROVE IInv'
<1> USE DEF IInv
<1> DEFINE rec == [request[r] EXCEPT !.pc = "mint", !.login = password[request[r].user]]
<1>1. /\ rec \in Request /\ rec.pc = "mint" /\ rec.user = request[r].user
      /\ rec.from = request[r].from /\ rec.login = password[request[r].user]
      /\ rec.stale = request[r].stale
  BY DEF TypeOK, Request, Stages
<1>2. /\ request' = [request EXCEPT ![r] = rec] /\ request[r].pc = "idle"
      /\ UNCHANGED <<password, session, excused>>
  BY DEF Login
<1> HIDE DEF rec
<1>3. TypeOK'
  BY <1>1, <1>2 DEF TypeOK
<1>4. MintInv' /\ FromInv'
  BY <1>1, <1>2 DEF MintInv, FromInv, TypeOK
<1>5. StaleInv'
  BY <1>1, <1>2 DEF StaleInv, TypeOK
<1>6. \A u \in Users : Pending(u) => Pending(u)'
  BY <1>1, <1>2 DEF Pending, TypeOK
<1>7. InFlightInv'
  <2>1. password[request[r].user] \in Nat
    BY DEF TypeOK, Request
  <2> QED BY <1>1, <1>2, <1>6, <2>1 DEF InFlightInv, Overtaken, TypeOK
<1>8. OldPasswordSignedOut'
  BY <1>1, <1>2, <1>6 DEF OldPasswordSignedOut, Pending, TypeOK, Session
<1> QED BY <1>3, <1>4, <1>5, <1>7, <1>8

LEMMA MintStepInv == ASSUME IInv, NEW r \in Requests, Mint(r) PROVE IInv'
<1> USE DEF IInv
<1>1. /\ request[r].pc = "mint" /\ UNCHANGED <<password, excused>>
      /\ request'[r].pc = "done" /\ request' \in [Requests -> Request]
      /\ request'[r].user = request[r].user /\ request'[r].stale = request[r].stale
      /\ request'[r].from = request[r].from
      /\ \A x \in Requests \ {r} : request'[x] = request[x]
  BY GotoStage DEF Mint, Stages
<1>2. /\ session' \in [Requests -> Session]
      /\ \A x \in Requests \ {r} : session'[x] = session[x]
      /\ session'[r].user = request[r].user
      /\ \/ session'[r] = session[r]
         \/ session'[r].state = "live" /\ session'[r].login = request[r].login
  <2>1. \A answered \in BOOLEAN :
          [state |-> "live", user |-> request[r].user, expired |-> FALSE,
           known |-> answered, login |-> request[r].login] \in Session
    BY DEF TypeOK, Session, Request
  <2>2. session[r].user = request[r].user
    BY DEF MintInv
  <2> QED BY <2>1, <2>2 DEF Mint, TypeOK
<1>3. session[r].state = "absent" /\ ~request[r].stale
  BY <1>1 DEF MintInv, StaleInv, TypeOK, Session
<1>4. TypeOK'
  BY <1>1, <1>2 DEF TypeOK
<1>5. MintInv'
  BY <1>1, <1>2, <1>3 DEF MintInv
<1>6. FromInv' /\ StaleInv'
  BY <1>1, <1>2, <1>3 DEF FromInv, StaleInv
<1>7. \A u \in Users : Pending(u) => Pending(u)'
  BY <1>1 DEF Pending
<1>8. InFlightInv'
  BY <1>1, <1>7 DEF InFlightInv, Overtaken
<1>9. OldPasswordSignedOut'
  <2>1. ASSUME NEW t \in Requests, NEW u \in Users, session'[t].user = u,
               session'[t].state = "live", session'[t].login < password[u]
        PROVE  Pending(u)
    <3>1. CASE session'[t] = session[t]
      BY <2>1, <3>1 DEF OldPasswordSignedOut, Pending
    <3>2. CASE session'[t] # session[t]
      <4>1. t = r /\ session'[t].login = request[r].login /\ u = request[r].user
        BY <1>2, <2>1, <3>2
      <4>2. Overtaken(u)
        BY <1>1, <2>1, <4>1 DEF Overtaken
      <4> QED BY <4>2 DEF InFlightInv
    <3> QED BY <3>1, <3>2
  <2>2. \A t \in Requests : session'[t].user \in Users
    BY <1>2 DEF Session
  <2> QED BY <1>1, <1>7, <2>1, <2>2 DEF OldPasswordSignedOut, Pending
<1> QED BY <1>4, <1>5, <1>6, <1>8, <1>9

LEMMA RefreshArriveInv == ASSUME IInv, NEW r \in Requests, RefreshArrive(r) PROVE IInv'
<1> USE DEF IInv
<1>1. PICK t \in Requests :
        /\ session[t].known /\ session[t].user = request[r].user
        /\ request' = [request EXCEPT ![r] =
                         [@ EXCEPT !.pc = "lookup", !.from = t,
                                   !.stale = (session[t].state = "revoked")]]
  BY DEF RefreshArrive
<1> DEFINE rec == [request[r] EXCEPT !.pc = "lookup", !.from = t,
                                     !.stale = (session[t].state = "revoked")]
<1>2. /\ rec \in Request /\ rec.pc = "lookup" /\ rec.user = request[r].user
      /\ rec.from = t /\ rec.stale = (session[t].state = "revoked")
  BY DEF TypeOK, Request, Stages
<1>3. /\ request' = [request EXCEPT ![r] = rec] /\ request[r].pc = "idle"
      /\ UNCHANGED <<password, session, excused>>
  BY <1>1 DEF RefreshArrive
<1> HIDE DEF rec
<1>4. TypeOK'
  BY <1>2, <1>3 DEF TypeOK
<1>5. MintInv' /\ FromInv'
  BY <1>1, <1>2, <1>3 DEF MintInv, FromInv, TypeOK
<1>6. StaleInv'
  BY <1>2, <1>3 DEF StaleInv, MintInv, TypeOK
<1>7. \A u \in Users : Pending(u) => Pending(u)'
  BY <1>2, <1>3 DEF Pending, TypeOK
<1>8. InFlightInv'
  BY <1>2, <1>3, <1>7 DEF InFlightInv, Overtaken, TypeOK
<1>9. OldPasswordSignedOut'
  BY <1>2, <1>3, <1>7 DEF OldPasswordSignedOut, Pending, TypeOK, Session
<1> QED BY <1>4, <1>5, <1>6, <1>8, <1>9

(* A refresh goes on only with a live session, which is not out of date    *)
(* unless a sign-out is pending.                                           *)
LEMMA RefreshLookupInv == ASSUME IInv, NEW r \in Requests, RefreshLookup(r) PROVE IInv'
<1> USE DEF IInv
<1> DEFINE old == session[request[r].from]
<1>0. request[r].pc = "lookup" /\ UNCHANGED <<password, session, excused>>
  BY DEF RefreshLookup
<1>1. ASSUME NEW stage \in {"reuse", "done"}, Goto(r, stage) PROVE IInv'
  BY <1>0, <1>1, RevokeNoneRevokes, RevokeStepInv
<1>2. CASE /\ old.state = "live"
           /\ request' = [request EXCEPT ![r] = [@ EXCEPT !.pc = "rotate", !.login = old.login]]
  <2> DEFINE rec == [request[r] EXCEPT !.pc = "rotate", !.login = old.login]
  <2>0. request[r].from \in Requests /\ old \in Session /\ old.user = request[r].user
    BY <1>0 DEF FromInv, TypeOK
  <2>1. /\ rec \in Request /\ rec.pc = "rotate" /\ rec.user = request[r].user
        /\ rec.from = request[r].from /\ rec.stale = request[r].stale
        /\ rec.login = old.login
    BY <2>0 DEF TypeOK, Request, Stages, Session
  <2>2. request' = [request EXCEPT ![r] = rec]
    BY <1>2
  <2> HIDE DEF rec
  <2>3. TypeOK'
    BY <1>0, <2>1, <2>2 DEF TypeOK
  <2>4. MintInv' /\ FromInv'
    BY <1>0, <2>1, <2>2 DEF MintInv, FromInv, TypeOK
  <2>5. ~request[r].stale
    BY <1>0, <1>2 DEF StaleInv
  <2>6. StaleInv'
    BY <1>0, <2>1, <2>2, <2>5 DEF StaleInv, TypeOK
  <2>7. \A u \in Users : Pending(u) => Pending(u)'
    BY <1>0, <2>1, <2>2 DEF Pending, TypeOK
  <2>8. InFlightInv'
    <3>1. ASSUME NEW u \in Users, Overtaken(u)' PROVE Pending(u)
      <4>1. PICK x \in Requests : /\ request'[x].user = u
                                  /\ request'[x].pc \in {"rotate", "mint"}
                                  /\ request'[x].login < password[u]
        BY <1>0, <3>1 DEF Overtaken
      <4>2. CASE x = r
        <5>1. old.login < password[old.user] /\ old.user = u
          BY <2>0, <2>1, <2>2, <4>1, <4>2 DEF TypeOK
        <5> QED BY <1>2, <2>0, <5>1 DEF OldPasswordSignedOut, Pending
      <4>3. CASE x # r
        BY <2>2, <4>1, <4>3 DEF InFlightInv, Overtaken, TypeOK
      <4> QED BY <4>2, <4>3
    <3> QED BY <2>7, <3>1 DEF InFlightInv
  <2>9. OldPasswordSignedOut'
    BY <1>0, <2>1, <2>2, <2>7 DEF OldPasswordSignedOut, Pending, TypeOK, Session
  <2> QED BY <2>3, <2>4, <2>6, <2>8, <2>9
<1> QED BY <1>1, <1>2 DEF RefreshLookup
LEMMA RevokingInv ==
  ASSUME IInv, NEW r \in Requests,
         RefreshRotate(r) \/ RefreshReuse(r) \/ Logout(r) \/ RevokeSession(r)
  PROVE  IInv'
<1> USE DEF IInv
<1>1. request[r].user \in Users
  BY DEF TypeOK, Request
<1>2. CASE RefreshRotate(r)
  <2>1. request[r].from \in Requests /\ session[request[r].from].state # "absent"
    BY <1>2 DEF RefreshRotate, FromInv
  <2>2. Revokes({request[r].from}) \/ Revokes({})
    BY <1>2, <2>1, RevokeOneRevokes, RevokeNoneRevokes DEF RefreshRotate
  <2> QED BY <1>2, <2>1, <2>2, RevokeStepInv DEF RefreshRotate
<1>3. CASE RefreshReuse(r) \/ Logout(r)
  <2>1. Revokes(Live(request[r].user)) \/ Revokes({})
    BY <1>1, <1>3, RevokeAllRevokes, RevokeNoneRevokes DEF RefreshReuse, Logout
  <2>2. \A t \in Live(request[r].user) : session[t].state # "absent"
    BY DEF Live
  <2> QED BY <1>3, <2>1, <2>2, RevokeStepInv DEF RefreshReuse, Logout
<1>4. CASE RevokeSession(r)
  <2>1. \/ Revokes({})
        \/ \E t \in Requests : session[t].state = "live" /\ Revokes({t})
    BY <1>4, RevokeOneRevokes, RevokeNoneRevokes DEF RevokeSession
  <2> QED BY <1>4, <2>1, RevokeStepInv DEF RevokeSession
<1> QED BY <1>2, <1>3, <1>4

LEMMA ChangeStartInv == ASSUME IInv, NEW r \in Requests, ChangeStart(r) PROVE IInv'
<1> USE DEF IInv
<1>1. /\ request[r].pc = "idle" /\ UNCHANGED <<password, session, excused>>
      /\ request'[r].pc = "change" /\ request' \in [Requests -> Request]
      /\ request'[r].user = request[r].user /\ request'[r].stale = request[r].stale
      /\ \A x \in Requests \ {r} : request'[x] = request[x]
  BY GotoStage DEF ChangeStart, Stages
<1>2. TypeOK' /\ MintInv' /\ FromInv' /\ StaleInv'
  BY <1>1 DEF TypeOK, MintInv, FromInv, StaleInv
<1>3. \A u \in Users : Pending(u) => Pending(u)'
  BY <1>1 DEF Pending
<1>4. InFlightInv'
  BY <1>1, <1>3 DEF InFlightInv, Overtaken
<1>5. OldPasswordSignedOut'
  BY <1>1, <1>3 DEF OldPasswordSignedOut, Pending, TypeOK, Session
<1> QED BY <1>2, <1>4, <1>5

(* Writing a hash makes older sessions and requests out of date, and       *)
(* leaves their user's sign-out pending.                                   *)
LEMMA ChangeWriteInv == ASSUME IInv, NEW r \in Requests, ChangeWrite(r) PROVE IInv'
<1> USE DEF IInv
<1>0. PICK v \in Users : v = request[r].user
  BY DEF TypeOK, Request
<1>1. /\ request[r].pc = "change" /\ UNCHANGED session
      /\ request'[r].pc \in {"signout", "done"} /\ request' \in [Requests -> Request]
      /\ request'[r].user = v /\ request'[r].stale = request[r].stale
      /\ \A x \in Requests \ {r} : request'[x] = request[x]
  BY <1>0, GotoStage DEF ChangeWrite, Stages
<1>2. /\ password' \in [Users -> Nat] /\ excused' \in [Users -> BOOLEAN]
      /\ \A u \in Users : excused[u] => excused'[u]
      /\ \A u \in Users \ {v} : password'[u] = password[u]
      /\ password' = password \/ request'[r].pc = "signout" \/ excused'[v]
  <2>1. Goto(r, "signout") => request'[r].pc = "signout"
    BY GotoStage DEF Stages
  <2>2. password' = [password EXCEPT ![v] = @ + 1] => password' \in [Users -> Nat]
    BY <1>0 DEF TypeOK
  <2>3. \/ password' = [password EXCEPT ![v] = @ + 1] /\ Goto(r, "signout") /\ excused' = excused
        \/ password' = [password EXCEPT ![v] = @ + 1] /\ excused' = [excused EXCEPT ![v] = TRUE]
        \/ password' = password /\ excused' = excused
    BY <1>0 DEF ChangeWrite
  <2> QED BY <1>0, <2>1, <2>2, <2>3 DEF TypeOK
<1>3. TypeOK' /\ MintInv' /\ FromInv' /\ StaleInv'
  <2>1. TypeOK'
    BY <1>1, <1>2 DEF TypeOK
  <2>2. MintInv' /\ FromInv'
    BY <1>0, <1>1 DEF MintInv, FromInv
  <2>3. StaleInv'
    BY <1>0, <1>1 DEF StaleInv
  <2> QED BY <2>1, <2>2, <2>3
<1>4. \A u \in Users : Pending(u) => Pending(u)'
  BY <1>1, <1>2 DEF Pending
<1>5. password' # password => Pending(v)'
  BY <1>1, <1>2 DEF Pending
<1>6. \A u \in Users : u # v \/ password' = password => password'[u] = password[u]
  BY <1>2
<1>7. InFlightInv'
  <2>1. ASSUME NEW u \in Users, Overtaken(u)' PROVE Pending(u)'
    <3>1. CASE u = v /\ password' # password
      BY <1>5, <3>1
    <3>2. CASE u # v \/ password' = password
      BY <1>1, <1>4, <1>6, <2>1, <3>2 DEF InFlightInv, Overtaken
    <3> QED BY <3>1, <3>2
  <2> QED BY <2>1 DEF InFlightInv
<1>8. OldPasswordSignedOut'
  <2>1. ASSUME NEW t \in Requests, NEW u \in Users, session[t].user = u,
               session[t].state = "live", session[t].login < password'[u]
        PROVE  Pending(u)'
    <3>1. CASE u = v /\ password' # password
      BY <1>5, <3>1
    <3>2. CASE u # v \/ password' = password
      BY <1>4, <1>6, <2>1, <3>2 DEF OldPasswordSignedOut, Pending
    <3> QED BY <3>1, <3>2
  <2>2. \A t \in Requests : session[t].user \in Users
    BY DEF TypeOK, Session
  <2> QED BY <1>1, <2>1, <2>2 DEF OldPasswordSignedOut, Pending
<1> QED BY <1>3, <1>7, <1>8

(* The sign-out revokes every session of the user that exists; what it     *)
(* cannot reach is a mint in flight, and then it is recorded.              *)
LEMMA ChangeSignOutInv == ASSUME IInv, NEW r \in Requests, ChangeSignOut(r) PROVE IInv'
<1> USE DEF IInv
<1>0. PICK v \in Users : v = request[r].user
  BY DEF TypeOK, Request
<1>1. /\ request[r].pc = "signout" /\ UNCHANGED password
      /\ request'[r].pc = "done" /\ request' \in [Requests -> Request]
      /\ request'[r].user = v /\ request'[r].stale = request[r].stale
      /\ \A x \in Requests \ {r} : request'[x] = request[x]
  BY <1>0, GotoStage DEF ChangeSignOut, Stages
<1>2. \/ Revokes(Live(v)) /\ excused' = [excused EXCEPT ![v] = @ \/ Overtaken(v)]
      \/ Revokes({}) /\ excused' = [excused EXCEPT ![v] = TRUE]
  BY <1>0, RevokeAllRevokes, RevokeNoneRevokes DEF ChangeSignOut
<1>3. PICK S : /\ Revokes(S) /\ S \subseteq Live(v)
               /\ excused'[v] \/ S = Live(v)
  BY <1>0, <1>2 DEF TypeOK
<1>4. /\ session' \in [Requests -> Session]
      /\ \A t \in Requests : /\ session'[t].user = session[t].user
                             /\ session'[t].known = session[t].known
                             /\ session'[t].login = session[t].login
                             /\ t \in S => session'[t].state = "revoked" /\ session[t].state = "live"
                             /\ t \notin S => session'[t] = session[t]
  BY <1>3 DEF Revokes, Live
<1>5. /\ excused' \in [Users -> BOOLEAN]
      /\ \A u \in Users : excused[u] => excused'[u]
      /\ Overtaken(v) => excused'[v]
  <2>1. Overtaken(v) \in BOOLEAN
    BY DEF Overtaken
  <2> QED BY <1>0, <1>2, <2>1 DEF TypeOK
<1>6. TypeOK' /\ MintInv' /\ FromInv' /\ StaleInv'
  <2>1. TypeOK'
    BY <1>1, <1>4, <1>5 DEF TypeOK
  <2>2. MintInv' /\ FromInv'
    BY <1>0, <1>1, <1>4 DEF MintInv, FromInv
  <2>3. StaleInv'
    BY <1>0, <1>1, <1>4 DEF StaleInv, FromInv
  <2> QED BY <2>1, <2>2, <2>3
<1>7. \A u \in Users \ {v} : Pending(u) => Pending(u)'
  BY <1>0, <1>1, <1>5 DEF Pending
<1>8. InFlightInv'
  BY <1>1, <1>5, <1>7 DEF InFlightInv, Overtaken, Pending
<1>9. OldPasswordSignedOut'
  <2>1. ASSUME NEW t \in Requests, session'[t].state = "live", session[t].user = v
        PROVE  excused'[v]
    BY <1>3, <1>4, <2>1 DEF Live
  <2>2. ASSUME NEW t \in Requests, NEW u \in Users \ {v}, session[t].user = u,
               session'[t].state = "live", session[t].login < password[u]
        PROVE  Pending(u)'
    BY <1>4, <1>7, <2>2 DEF OldPasswordSignedOut, Pending
  <2>3. \A t \in Requests : session[t].user \in Users
    BY DEF TypeOK, Session
  <2> QED BY <1>1, <1>4, <2>1, <2>2, <2>3 DEF OldPasswordSignedOut, Pending
<1> QED BY <1>6, <1>8, <1>9

LEMMA ExpireInv == ASSUME IInv, NEW t \in Requests, Expire(t) PROVE IInv'
<1> USE DEF IInv
<1> DEFINE rec == [session[t] EXCEPT !.expired = TRUE]
<1>1. /\ rec \in Session /\ rec.user = session[t].user /\ rec.state = session[t].state
      /\ rec.known = session[t].known /\ rec.login = session[t].login
  BY DEF TypeOK, Session
<1>2. session' = [session EXCEPT ![t] = rec] /\ UNCHANGED <<password, request, excused>>
  BY DEF Expire
<1> HIDE DEF rec
<1>3. /\ session' \in [Requests -> Session]
      /\ \A x \in Requests :
           /\ session'[x].user = session[x].user /\ session'[x].state = session[x].state
           /\ session'[x].known = session[x].known /\ session'[x].login = session[x].login
  BY <1>1, <1>2 DEF TypeOK
<1> HIDE <1>1
<1>4. TypeOK' /\ MintInv'
  BY <1>2, <1>3 DEF TypeOK, MintInv
<1>5. FromInv' /\ StaleInv' /\ InFlightInv' /\ OldPasswordSignedOut'
  BY <1>2, <1>3 DEF FromInv, StaleInv, InFlightInv, Overtaken, Pending, OldPasswordSignedOut
<1> QED BY <1>4, <1>5

LEMMA NextInv == IInv /\ [Next]_vars => IInv'
<1> SUFFICES ASSUME IInv, [Next]_vars PROVE IInv'
  OBVIOUS
<1>1. CASE Next
  BY <1>1, LoginInv, MintStepInv, RefreshArriveInv, RefreshLookupInv, RevokingInv,
     ChangeStartInv, ChangeWriteInv, ChangeSignOutInv, ExpireInv
     DEF Next, RefreshStep, ChangeStep
<1>2. CASE UNCHANGED vars
  BY <1>2 DEF vars, IInv, TypeOK, MintInv, FromInv, StaleInv, InFlightInv, Overtaken,
     Pending, OldPasswordSignedOut
<1> QED BY <1>1, <1>2

LEMMA Invariance == Spec => []IInv
<1> QED BY InitInv, NextInv, PTL DEF Spec

(* The state is well typed, for any users and requests.                    *)
THEOREM TypeCorrect == Spec => []TypeOK
<1>1. IInv => TypeOK
  BY DEF IInv
<1> QED BY <1>1, Invariance, PTL

(* A refresh that arrives with a revoked token gets no session, whatever   *)
(* runs beside it.                                                         *)
THEOREM RevokedTokenMintsNothingHolds == Spec => []RevokedTokenMintsNothing
<1>1. IInv => RevokedTokenMintsNothing
  BY DEF IInv, StaleInv, RevokedTokenMintsNothing
<1> QED BY <1>1, Invariance, PTL

(* A password change leaves no session of an older password behind, except *)
(* for the named reasons.                                                  *)
THEOREM OldPasswordSignedOutHolds == Spec => []OldPasswordSignedOut
<1>1. IInv => OldPasswordSignedOut
  BY DEF IInv
<1> QED BY <1>1, Invariance, PTL

(* A step of one request touches the sessions of that request's user.      *)
OwnStep(x) ==
  /\ \A r \in Requests \ {x} : request'[r] = request[r]
  /\ \A t \in Requests : session[t].user # request[x].user => session'[t] = session[t]

LEMMA RequestOwnStep ==
  ASSUME IInv, NEW x \in Requests,
         \/ Login(x) \/ Mint(x) \/ RefreshStep(x) \/ Logout(x) \/ RevokeSession(x)
         \/ ChangeStep(x)
  PROVE  OwnStep(x)
<1> USE DEF IInv
<1>1. \A r \in Requests \ {x} : request'[r] = request[r]
  BY DEF Login, Mint, RefreshStep, RefreshArrive, RefreshLookup, RefreshRotate, RefreshReuse,
     Logout, RevokeSession, ChangeStep, ChangeStart, ChangeWrite, ChangeSignOut, Goto, TypeOK
<1>2. ASSUME NEW t \in Requests, session[t].user # request[x].user
      PROVE  session'[t] = session[t]
  <2>1. CASE Mint(x)
    BY <1>2, <2>1 DEF Mint, MintInv, TypeOK
  <2>2. CASE RefreshRotate(x)
    BY <1>2, <2>2 DEF RefreshRotate, FromInv, TypeOK
  <2>3. CASE RefreshReuse(x) \/ Logout(x) \/ ChangeSignOut(x)
    BY <1>2, <2>3 DEF RefreshReuse, Logout, ChangeSignOut, RevokeAll, TypeOK
  <2>4. CASE RevokeSession(x)
    BY <1>2, <2>4 DEF RevokeSession, TypeOK
  <2>5. CASE \/ Login(x) \/ RefreshArrive(x) \/ RefreshLookup(x)
             \/ ChangeStart(x) \/ ChangeWrite(x)
    BY <2>5 DEF Login, RefreshArrive, RefreshLookup, ChangeStart, ChangeWrite
  <2> QED BY <2>1, <2>2, <2>3, <2>4, <2>5 DEF RefreshStep, ChangeStep
<1> QED BY <1>1, <1>2 DEF OwnStep

(* No request changes a session of another user.                           *)
THEOREM OwnSessionsOnlyHolds == Spec => OwnSessionsOnly
<1> DEFINE Own == \A r, t \in Requests :
                    request'[r] # request[r] /\ request[r].user # session[t].user
                    => session'[t] = session[t]
<1>1. ASSUME IInv, Next PROVE Own
  <2>1. CASE \E x \in Requests : Expire(x)
    BY <2>1 DEF Expire
  <2>2. CASE \E x \in Requests : OwnStep(x)
    BY <2>2 DEF OwnStep
  <2> QED BY <1>1, <2>1, <2>2, RequestOwnStep DEF Next
<1>2. IInv /\ [Next]_vars => [Own]_vars
  BY <1>1
<1> QED BY <1>2, Invariance, PTL DEF Spec, OwnSessionsOnly
==============================================================================
