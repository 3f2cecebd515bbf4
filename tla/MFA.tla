-------------------------------- MODULE MFA --------------------------------
(***************************************************************************)
(* The second factor of one account (internal/auth: mfa.go, the MFA        *)
(* handlers and the branch of HandleLogin).  A login of staff, or of a     *)
(* driver who enabled MFA, ends in an MFA login token that is exchanged    *)
(* for a session with a TOTP code; the factor is enabled and disabled by   *)
(* requests that read the user and write it later, unconditionally.  The   *)
(* account of an officer or administrator may still have to be created by  *)
(* the acceptance of an invitation, which answers a session at once.       *)
(* Requests run concurrently, every database call is a step, and a failed  *)
(* write may still have been applied.                                      *)
(*                                                                         *)
(* A code is named by the secret it was computed from, and fits no other.  *)
(* The account is active and the password presented is right.  Access      *)
(* tokens and MFA login tokens are signed with one key and told apart by   *)
(* neither validator: either kind is the bearer of these requests.         *)
(***************************************************************************)
CONSTANTS
  Requests,       \* HTTP requests; bounds their number
  Secrets,        \* TOTP secrets; ConfirmMFA takes the client's
  None            \* no secret, no code

ASSUME MFAAssumption == None \notin Secrets

VARIABLES
  staff,          \* IsMFARequired(user.Role)
  exists,         \* the account is there
  founder,        \* history: the acceptance that created it, None if it was there
  enabled,        \* mfa_enabled
  secret,         \* mfa_secret
  token,          \* a token was answered to the client
  request         \* request[r]: the state of request r

vars == <<staff, exists, founder, enabled, secret, token, request>>

Stages == {"idle",
           "reload",                       \* HandleLogin
           "mint",                         \* the same, HandleMFAVerify, HandleAcceptInvite
           "validate",                     \* HandleMFAVerify
           "confirm", "store",             \* ConfirmMFA
           "disable", "recheck", "clear",  \* DisableMFA
           "done"}

Request == [pc      : Stages,
            code    : Secrets \cup {None},            \* the code presented
            during  : SUBSET (Secrets \cup {None}),   \* history: the factors the account
                                                      \* had since the request arrived
            session : BOOLEAN]                        \* it minted a session

TypeOK ==
  /\ staff \in BOOLEAN /\ exists \in BOOLEAN
  /\ founder \in Requests \cup {None}
  /\ enabled \in BOOLEAN /\ token \in BOOLEAN
  /\ secret \in Secrets \cup {None}
  /\ request \in [Requests -> Request]

------------------------------------------------------------------------------
Goto(r, stage) == request' = [request EXCEPT ![r].pc = stage]

(* The factor of the account, None while MFA is disabled. *)
Factor == IF enabled THEN secret ELSE None

Enter(r, stage, code) ==
  /\ request[r].pc = "idle"
  /\ request' = [request EXCEPT ![r] =
                   [@ EXCEPT !.pc = stage, !.code = code, !.during = {Factor}]]

(* A request on the account, once it is there. *)
Arrive(r, stage, code) ==
  /\ exists
  /\ Enter(r, stage, code)
  /\ UNCHANGED <<staff, exists, founder, enabled, secret, token>>

(* A write of the factor: the requests under way see the account change. *)
Write(r, on, s) ==
  /\ enabled' = on
  /\ secret' = s
  /\ request' = [x \in Requests |->
                   [request[x] EXCEPT
                      !.pc = IF x = r THEN "done" ELSE @,
                      !.during = IF request[x].pc \in {"idle", "done"} THEN @
                                 ELSE @ \cup {IF on THEN s ELSE None}]]

------------------------------------------------------------------------------
(* HandleAcceptInvite has created the account and goes on to a session, or *)
(* it failed, before the insertion or with its answer lost.                *)
AcceptInvite(r) ==
  /\ ~exists
  /\ \/ Enter(r, "mint", None) /\ exists' = TRUE /\ founder' = r
     \/ Enter(r, "done", None) /\ exists' \in BOOLEAN /\ UNCHANGED founder
  /\ UNCHANGED <<staff, enabled, secret, token>>

(* Login: the password was right; the user is read again. *)
Login(r) == Arrive(r, "reload", None)

(* Mutation: only the role asks for a second factor. *)
FactorNeeded_ByRole == staff

FactorNeeded == staff \/ enabled

(* GenerateMFALoginToken: the login is to be continued by Verify. *)
Challenge(r) == Goto(r, "done") /\ token' = TRUE

LoginReload(r) ==
  /\ request[r].pc = "reload"
  /\ \/ Goto(r, "done") /\ UNCHANGED token
     \/ FactorNeeded /\ Challenge(r)
     \/ ~FactorNeeded /\ Goto(r, "mint") /\ UNCHANGED token
  /\ UNCHANGED <<staff, exists, founder, enabled, secret>>

(* GenerateTokenPair inserts the session; its answer may be lost. *)
Mint(r) ==
  /\ request[r].pc = "mint"
  /\ \/ /\ request' = [request EXCEPT ![r] = [@ EXCEPT !.pc = "done", !.session = TRUE]]
        /\ token' \in {token, TRUE}
     \/ Goto(r, "done") /\ UNCHANGED token
  /\ UNCHANGED <<staff, exists, founder, enabled, secret>>

(* ValidateMFALoginToken, ValidateAccessToken: any token passes either. *)
Bearer == token

(* HandleMFAVerify. *)
Verify(r) == Bearer /\ \E code \in Secrets : Arrive(r, "validate", code)

(* ValidateMFACode reads the user; then the user is read once more, without *)
(* another look at the factor.                                             *)
CodeFits(r) == enabled /\ secret # None /\ request[r].code = secret

VerifyCode(r) ==
  /\ request[r].pc = "validate"
  /\ Goto(r, "done") \/ (CodeFits(r) /\ Goto(r, "mint"))
  /\ UNCHANGED <<staff, exists, founder, enabled, secret, token>>

------------------------------------------------------------------------------
(* Enabling: HandleMFASetup answers a fresh secret and stores nothing;     *)
(* ConfirmMFA stores the secret the client sends with a code of it.        *)
Setup(r) == Bearer /\ Arrive(r, "done", None)

Confirm(r) == Bearer /\ \E s \in Secrets : Arrive(r, "confirm", s)

(* Mutation: a factor that is enabled is not looked at. *)
ConfirmRead_AnyState(r) ==
  /\ request[r].pc = "confirm"
  /\ \E stage \in {"store", "done"} : Goto(r, stage)
  /\ UNCHANGED <<staff, exists, founder, enabled, secret, token>>

ConfirmRead(r) ==
  /\ request[r].pc = "confirm"
  /\ Goto(r, "done") \/ (~enabled /\ Goto(r, "store"))
  /\ UNCHANGED <<staff, exists, founder, enabled, secret, token>>

ConfirmStore(r) ==
  /\ request[r].pc = "store"
  /\ \/ Write(r, TRUE, request[r].code)
     \/ Goto(r, "done") /\ UNCHANGED <<enabled, secret>>
  /\ UNCHANGED <<staff, exists, founder, token>>

------------------------------------------------------------------------------
(* Disabling: the user is read for the password, and again for the code.   *)
Disable(r) == Bearer /\ \E code \in Secrets : Arrive(r, "disable", code)

DisableRead(r) ==
  /\ request[r].pc = "disable"
  /\ Goto(r, "done") \/ (enabled /\ Goto(r, "recheck"))
  /\ UNCHANGED <<staff, exists, founder, enabled, secret, token>>

(* Mutation: the code is not compared. *)
DisableCode_Unchecked(r) ==
  /\ request[r].pc = "recheck"
  /\ Goto(r, "done") \/ (enabled /\ Goto(r, "clear"))
  /\ UNCHANGED <<staff, exists, founder, enabled, secret, token>>

DisableCode(r) ==
  /\ request[r].pc = "recheck"
  /\ Goto(r, "done") \/ (CodeFits(r) /\ Goto(r, "clear"))
  /\ UNCHANGED <<staff, exists, founder, enabled, secret, token>>

(* Mutation: the secret is blanked, not unset. *)
DisableClear_Blank(r) ==
  /\ request[r].pc = "clear"
  /\ Write(r, FALSE, "blank")
  /\ UNCHANGED <<staff, exists, founder, token>>

DisableClear(r) ==
  /\ request[r].pc = "clear"
  /\ \/ Write(r, FALSE, None)
     \/ Goto(r, "done") /\ UNCHANGED <<enabled, secret>>
  /\ UNCHANGED <<staff, exists, founder, token>>

------------------------------------------------------------------------------
Init ==
  /\ staff \in BOOLEAN
  /\ exists \in {~staff, TRUE}    \* only staff are invited
  /\ token \in {FALSE, exists}    \* of an earlier login
  /\ founder = None
  /\ enabled = FALSE
  /\ secret = None
  /\ request = [r \in Requests |-> [pc |-> "idle", code |-> None, during |-> {},
                                    session |-> FALSE]]

LoginStep(r) ==
  \/ AcceptInvite(r)
  \/ Login(r) \/ LoginReload(r)
  \/ Verify(r) \/ VerifyCode(r)
  \/ Mint(r)

FactorStep(r) ==
  \/ Setup(r) \/ Confirm(r) \/ ConfirmRead(r) \/ ConfirmStore(r)
  \/ Disable(r) \/ DisableRead(r) \/ DisableCode(r) \/ DisableClear(r)

Next == \E r \in Requests : LoginStep(r) \/ FactorStep(r)

Spec == Init /\ [][Next]_vars

------------------------------------------------------------------------------
(* Properties. *)

(* A session was minted for a code of the factor the account had while the *)
(* request ran, or without a code: for a driver, whose account had no      *)
(* factor at some moment of the request (handler.go:229-248, handler_ext.  *)
(* go:122-142), and for staff once, by the acceptance of the invitation    *)
(* that created the account (handler.go:397-408), though "multi-factor     *)
(* authentication is required" for the role (errors.go:57, mfa.go:146).    *)
(* No login of staff, however it interleaves with enabling and disabling,  *)
(* is another.                                                             *)
SessionHadFactor ==
  \A r \in Requests :
    request[r].session =>
      \/ request[r].code # None /\ request[r].code \in request[r].during
      \/ /\ request[r].code = None /\ None \in request[r].during
         /\ staff => r = founder

(* A factor that is enabled is replaced only by a confirmation that ran    *)
(* while there was none: two of them racing, never a later one             *)
(* (mfa.go:64-82).                                                         *)
SecretReplacedOnlyByRace ==
  [][enabled /\ enabled' /\ secret' # secret
     => \E r \in Requests : /\ request[r].pc = "store"
                            /\ {None, secret} \subseteq request[r].during]_vars

(* A factor is disabled only by a request with a code of the factor, or of *)
(* one that was replaced while the request ran (mfa.go:115-141).           *)
DisabledOnlyWithItsCode ==
  [][enabled /\ ~enabled'
     => \E r \in Requests : /\ request[r].pc = "clear"
                            /\ request[r].code \in request[r].during
                            /\ secret \in request[r].during]_vars
==============================================================================
