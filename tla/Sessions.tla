------------------------------ MODULE Sessions ------------------------------
(***************************************************************************)
(* Sessions (internal/auth: jwt.go, sessions.go, password.go and the       *)
(* handlers that call them).  A session is a document of refresh_tokens;   *)
(* it is minted by a login or by rotating an older session, and revoked by *)
(* rotation, logout, session deletion, detected reuse and password change. *)
(* Requests run concurrently and every database write is a step of its     *)
(* own.  A database call may fail, and a failed write may still have been  *)
(* applied.                                                                *)
(*                                                                         *)
(* A session is named by the request that minted it: its 32 random bytes   *)
(* are taken never to repeat.  A password is the number of times the hash  *)
(* was replaced.                                                           *)
(***************************************************************************)
EXTENDS Integers

CONSTANTS
  Users,
  Requests,      \* HTTP requests on sessions and passwords; bounds their number
  None           \* no session

ASSUME SessionsAssumption == None \notin Requests

VARIABLES
  password,      \* password[u]: which password_hash the user has
  session,       \* session[r]: the refresh token that request r minted
  request,       \* request[r]: the state of request r
  excused        \* history: excused[u]: a sign-out of u failed, or a request
                 \* holding an older password was in flight when it ran

vars == <<password, session, request, excused>>

Session == [state   : {"absent", "live", "revoked"},
            user    : Users,
            expired : BOOLEAN,
            known   : BOOLEAN,    \* its token string reached the client
            login   : Nat]        \* history: the password it descends from

Stages == {"idle",
           "lookup", "rotate", "reuse",    \* RefreshAccessToken
           "mint",                         \* GenerateTokenPair
           "change", "signout",            \* ChangePassword, ResetPassword
           "done"}

Request == [pc    : Stages,
            user  : Users,
            from  : Requests \cup {None},  \* the refresh token presented
            login : Nat,                   \* history: password of the session to mint
            stale : BOOLEAN]               \* history: token revoked on arrival

TypeOK ==
  /\ password \in [Users -> Nat]
  /\ session \in [Requests -> Session]
  /\ request \in [Requests -> Request]
  /\ excused \in [Users -> BOOLEAN]

------------------------------------------------------------------------------
(* Every document of the user that has no revoked_at gets one. *)
RevokeAll(u) ==
  session' = [t \in Requests |->
                IF session[t].user = u /\ session[t].state = "live"
                  THEN [session[t] EXCEPT !.state = "revoked"]
                  ELSE session[t]]

Goto(r, stage) == request' = [request EXCEPT ![r].pc = stage]

(* Routes behind Authenticate: the caller was given an access token, or    *)
(* the MFA login token of a login that waits for its code: they are signed *)
(* alike, and ValidateAccessToken does not tell them apart.                *)
LoggedIn(u) ==
  \E t \in Requests : \/ session[t].known /\ session[t].user = u
                      \/ request[t].pc = "mint" /\ request[t].user = u

------------------------------------------------------------------------------
(* Login.  Authenticate compares the password with the hash it read; the   *)
(* session is inserted later (for MFA users, by a later request).          *)
Login(r) ==
  /\ request[r].pc = "idle"
  /\ request' = [request EXCEPT ![r] =
                   [@ EXCEPT !.pc = "mint", !.login = password[request[r].user]]]
  /\ UNCHANGED <<password, session, excused>>

(* GenerateTokenPair inserts the session, or fails. *)
Mint(r) ==
  /\ request[r].pc = "mint"
  /\ \/ \E answered \in BOOLEAN :
          session' = [session EXCEPT ![r] =
                        [state |-> "live", user |-> request[r].user, expired |-> FALSE,
                         known |-> answered, login |-> request[r].login]]
     \/ UNCHANGED session
  /\ Goto(r, "done")
  /\ UNCHANGED <<password, excused>>

------------------------------------------------------------------------------
(* RefreshAccessToken. *)

RefreshArrive(r) ==
  /\ request[r].pc = "idle"
  /\ \E t \in Requests :
       /\ session[t].known
       /\ session[t].user = request[r].user
       /\ request' = [request EXCEPT ![r] =
                        [@ EXCEPT !.pc = "lookup", !.from = t,
                                  !.stale = (session[t].state = "revoked")]]
  /\ UNCHANGED <<password, session, excused>>

(* Mutation: revoked_at is not looked at. *)
RefreshLookup_RevokedAccepted(r) ==
  LET old == session[request[r].from] IN
  /\ request[r].pc = "lookup"
  /\ \/ old.expired /\ Goto(r, "done")
     \/ /\ ~old.expired
        /\ request' = [request EXCEPT ![r] = [@ EXCEPT !.pc = "rotate", !.login = old.login]]
  /\ UNCHANGED <<password, session, excused>>

(* The document is read; a revoked token counts as reuse, an expired one is *)
(* refused, and so is any token when the query fails.                       *)
RefreshLookup(r) ==
  LET old == session[request[r].from] IN
  /\ request[r].pc = "lookup"
  /\ \/ Goto(r, "done")
     \/ old.state = "revoked" /\ Goto(r, "reuse")
     \/ /\ old.state = "live"
        /\ ~old.expired
        /\ request' = [request EXCEPT ![r] = [@ EXCEPT !.pc = "rotate", !.login = old.login]]
  /\ UNCHANGED <<password, session, excused>>

(* The old token is revoked unconditionally and an error is only logged;   *)
(* then the user is read, which may fail.                                  *)
RefreshRotate(r) ==
  /\ request[r].pc = "rotate"
  /\ \/ session' = [session EXCEPT ![request[r].from].state = "revoked"]
     \/ UNCHANGED session
  /\ \E stage \in {"mint", "done"} : Goto(r, stage)
  /\ UNCHANGED <<password, excused>>

(* A revoked token was presented: all sessions of its user are revoked; an *)
(* error is ignored.                                                       *)
RefreshReuse(r) ==
  /\ request[r].pc = "reuse"
  /\ RevokeAll(request[r].user) \/ UNCHANGED session
  /\ Goto(r, "done")
  /\ UNCHANGED <<password, excused>>

------------------------------------------------------------------------------
(* Logout ignores an error of the update. *)
Logout(r) ==
  /\ request[r].pc = "idle"
  /\ LoggedIn(request[r].user)
  /\ RevokeAll(request[r].user) \/ UNCHANGED session
  /\ Goto(r, "done")
  /\ UNCHANGED <<password, excused>>

(* Mutation: the filter does not name the user. *)
RevokeSession_AnyUser(r) ==
  /\ request[r].pc = "idle"
  /\ LoggedIn(request[r].user)
  /\ \E t \in Requests :
       /\ session[t].state = "live"
       /\ session' = [session EXCEPT ![t].state = "revoked"]
  /\ Goto(r, "done")
  /\ UNCHANGED <<password, excused>>

(* DELETE /sessions/{session_id}: one conditional update, filtered by id,  *)
(* user and revoked_at; any id may be asked for.                           *)
RevokeSession(r) ==
  /\ request[r].pc = "idle"
  /\ LoggedIn(request[r].user)
  /\ \/ \E t \in Requests :
          /\ session[t].user = request[r].user
          /\ session[t].state = "live"
          /\ session' = [session EXCEPT ![t].state = "revoked"]
     \/ UNCHANGED session                      \* not found, or an error
  /\ Goto(r, "done")
  /\ UNCHANGED <<password, excused>>

------------------------------------------------------------------------------
(* ChangePassword after its check of the current password, ResetPassword   *)
(* after its reset code was marked used: new hash, then sign-out.          *)
ChangeStart(r) ==
  /\ request[r].pc = "idle"
  /\ Goto(r, "change")
  /\ UNCHANGED <<password, session, excused>>

(* Mutation: the request ends without the sign-out. *)
ChangeWrite_NoSignOut(r) ==
  /\ request[r].pc = "change"
  /\ password' = [password EXCEPT ![request[r].user] = @ + 1]
  /\ Goto(r, "done")
  /\ UNCHANGED <<session, excused>>

(* The new hash is written: the request goes on to the sign-out, or, when  *)
(* the write reports an error, stops there whether or not it was applied.  *)
ChangeWrite(r) ==
  LET u == request[r].user IN
  /\ request[r].pc = "change"
  /\ \/ /\ password' = [password EXCEPT ![u] = @ + 1]
        /\ \/ Goto(r, "signout") /\ UNCHANGED excused
           \/ Goto(r, "done") /\ excused' = [excused EXCEPT ![u] = TRUE]
     \/ /\ Goto(r, "done")
        /\ UNCHANGED <<password, excused>>
  /\ UNCHANGED session

(* History: a request of u that will mint for an older password. *)
Overtaken(u) ==
  \E r \in Requests : /\ request[r].user = u
                      /\ request[r].pc \in {"rotate", "mint"}
                      /\ request[r].login < password[u]

(* All sessions of the user are revoked; an error is only logged. *)
ChangeSignOut(r) ==
  LET u == request[r].user IN
  /\ request[r].pc = "signout"
  /\ \/ /\ RevokeAll(u)
        /\ excused' = [excused EXCEPT ![u] = @ \/ Overtaken(u)]
     \/ /\ excused' = [excused EXCEPT ![u] = TRUE]
        /\ UNCHANGED session
  /\ Goto(r, "done")
  /\ UNCHANGED password

------------------------------------------------------------------------------
(* Seven days pass for a session. *)
Expire(t) ==
  /\ session[t].state # "absent"
  /\ ~session[t].expired
  /\ session' = [session EXCEPT ![t].expired = TRUE]
  /\ UNCHANGED <<password, request, excused>>

Init ==
  /\ password = [u \in Users |-> 0]
  /\ \E owner \in [Requests -> Users] :
       request = [r \in Requests |-> [pc |-> "idle", user |-> owner[r], from |-> None,
                                     login |-> 0, stale |-> FALSE]]
  /\ session = [r \in Requests |-> [state |-> "absent", user |-> request[r].user,
                                    expired |-> FALSE, known |-> FALSE, login |-> 0]]
  /\ excused = [u \in Users |-> FALSE]

RefreshStep(r) ==
  RefreshArrive(r) \/ RefreshLookup(r) \/ RefreshRotate(r) \/ RefreshReuse(r)

ChangeStep(r) == ChangeStart(r) \/ ChangeWrite(r) \/ ChangeSignOut(r)

Next ==
  \E r \in Requests :
    \/ Login(r) \/ Mint(r) \/ RefreshStep(r)
    \/ Logout(r) \/ RevokeSession(r)
    \/ ChangeStep(r)
    \/ Expire(r)

Spec == Init /\ [][Next]_vars

------------------------------------------------------------------------------
(* Properties. *)

(* A refresh token that was already revoked when a refresh request arrived *)
(* never yields a session to that request, however the request interleaves *)
(* with logins, rotations and sign-outs (jwt.go:114-147).                  *)
RevokedTokenMintsNothing ==
  \A r \in Requests : request[r].stale => session[r].state = "absent"

(* After a password change every live session descends from the new        *)
(* password, unless a sign-out is still to run, one failed, or a login or  *)
(* refresh that had read the old state was in flight when it ran           *)
(* (password.go:38-49, 128-139 with jwt.go:74-147 and service.go:160-177). *)
OldPasswordSignedOut ==
  \A t \in Requests :
    LET u == session[t].user IN
    /\ session[t].state = "live"
    /\ session[t].login < password[u]
    => excused[u] \/ \E r \in Requests : request[r].user = u /\ request[r].pc = "signout"

(* A session changes state only by a request of its own user or by the     *)
(* passing of time: no user signs another one out (sessions.go:58-73,      *)
(* jwt.go:158-168).                                                        *)
OwnSessionsOnly ==
  [][\A r, t \in Requests :
       request'[r] # request[r] /\ request[r].user # session[t].user
       => session'[t] = session[t]]_vars
==============================================================================
