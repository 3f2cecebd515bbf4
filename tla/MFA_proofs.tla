----------------------------- MODULE MFA_proofs -----------------------------
(***************************************************************************)
(* Proofs about MFA, for any sets of requests and secrets.                 *)
(***************************************************************************)
EXTENDS MFA, TLAPS

(* What a request has established by the stage it has reached.             *)
Justified(r, q) ==
  /\ q.pc = "mint" \/ q.session =>
       \/ q.code # None /\ q.code \in q.during
       \/ q.code = None /\ (staff => r = founder) /\ None \in q.during
  /\ q.session => q.pc = "done"
  /\ q.pc = "reload" => q.code = None
  /\ q.pc = "validate" => q.code # None
  /\ q.pc \in {"confirm", "store"} => q.code # None
  /\ q.pc = "store" => None \in q.during
  /\ q.pc = "clear" => q.code \in q.during
  /\ q.pc \notin {"idle", "done"} => Factor \in q.during

StageInv == \A r \in Requests : Justified(r, request[r])

(* The secret is there exactly while MFA is enabled.                       *)
FactorInv == enabled <=> secret # None

(* Before the account is there it has no factor, no session and no request *)
(* under way.                                                              *)
AbsentInv ==
  ~exists => /\ ~enabled
             /\ \A r \in Requests : request[r].pc \in {"idle", "done"} /\ ~request[r].session

IInv == TypeOK /\ FactorInv /\ AbsentInv /\ StageInv

------------------------------------------------------------------------------
LEMMA InitInv == Init => IInv
<1> SUFFICES ASSUME Init PROVE IInv
  OBVIOUS
<1>1. \A r \in Requests : /\ request[r].pc = "idle" /\ request[r].code = None
                          /\ request[r].during = {} /\ request[r].session = FALSE
  BY DEF Init
<1>2. request \in [Requests -> Request]
  BY DEF Init, Request, Stages
<1>3. TypeOK /\ FactorInv
  <2>1. staff \in BOOLEAN /\ exists \in BOOLEAN /\ token \in BOOLEAN
    BY DEF Init
  <2> QED BY <1>2, <2>1 DEF Init, TypeOK, FactorInv
<1>4. StageInv /\ AbsentInv
  BY <1>1 DEF StageInv, Justified, AbsentInv, Init
<1> QED BY <1>3, <1>4 DEF IInv

(* A step of one request of an account that is there, and leaves  *)
(* the factor alone.                                                       *)
LEMMA OneRequest ==
  ASSUME IInv, exists, NEW r \in Requests, NEW q \in Request,
         request' = [request EXCEPT ![r] = q],
         UNCHANGED <<staff, exists, founder, enabled, secret>>, token' \in BOOLEAN,
         Justified(r, q)
  PROVE  IInv'
<1>1. /\ request' \in [Requests -> Request] /\ request'[r] = q
      /\ \A x \in Requests \ {r} : request'[x] = request[x]
  BY DEF IInv, TypeOK
<1>2. TypeOK' /\ FactorInv'
  BY <1>1 DEF IInv, TypeOK, FactorInv
<1>3. StageInv'
  BY <1>1 DEF IInv, StageInv, Justified, Factor
<1>4. AbsentInv'
  BY DEF AbsentInv
<1> QED BY <1>2, <1>3, <1>4 DEF IInv

LEMMA GotoInv ==
  ASSUME IInv, NEW r \in Requests, NEW stage \in Stages, Goto(r, stage),
         UNCHANGED <<staff, exists, founder, enabled, secret>>, token' \in BOOLEAN,
         request[r].pc \notin {"idle", "done"},
         stage = "done" \/ Justified(r, [request[r] EXCEPT !.pc = stage])
  PROVE  IInv'
<1> DEFINE q == [request[r] EXCEPT !.pc = stage]
<1>1. /\ q \in Request /\ q.pc = stage /\ q.code = request[r].code
      /\ q.during = request[r].during /\ q.session = request[r].session
  BY DEF IInv, TypeOK, Request
<1>2. request' = [request EXCEPT ![r] = q]
  BY DEF Goto
<1>3. Justified(r, q)
  <2>1. CASE stage = "done"
    <3> HIDE DEF q
    <3> QED BY <1>1, <2>1 DEF IInv, StageInv, Justified
  <2> QED BY <2>1
<1>4. exists
  BY DEF IInv, AbsentInv
<1> HIDE DEF q
<1> QED BY <1>1, <1>2, <1>3, <1>4, OneRequest

(* The acceptance that creates the account finds no session and no request *)
(* of it, so it is the first.                                              *)
LEMMA AcceptInviteInv ==
  ASSUME IInv, NEW r \in Requests, AcceptInvite(r) PROVE IInv'
<1>1. /\ Factor = None /\ ~enabled /\ UNCHANGED <<staff, enabled, secret, token>>
      /\ \A x \in Requests : request[x].pc \in {"idle", "done"} /\ ~request[x].session
  BY DEF AcceptInvite, IInv, AbsentInv, Factor
<1>2. PICK stage \in {"mint", "done"} :
        /\ Enter(r, stage, None) /\ exists' \in BOOLEAN
        /\ \/ stage = "mint" /\ exists' = TRUE /\ founder' = r
           \/ stage = "done" /\ founder' = founder
  BY DEF AcceptInvite
<1> DEFINE q == [request[r] EXCEPT !.pc = stage, !.code = None, !.during = {Factor}]
<1>3. /\ q \in Request /\ q.pc = stage /\ q.code = None
      /\ q.during = {None} /\ ~q.session
  BY <1>1 DEF IInv, TypeOK, Request, Stages
<1>4. request' = [request EXCEPT ![r] = q]
  BY <1>2 DEF Enter
<1> HIDE DEF q
<1>5. /\ request' \in [Requests -> Request] /\ request'[r] = q
      /\ \A x \in Requests \ {r} : request'[x] = request[x]
  BY <1>3, <1>4 DEF IInv, TypeOK
<1>6. TypeOK' /\ FactorInv'
  <2>1. founder' \in Requests \cup {None}
    BY <1>2 DEF IInv, TypeOK
  <2> QED BY <1>1, <1>2, <1>5, <2>1 DEF IInv, TypeOK, FactorInv
<1>7. StageInv'
  <2>1. Justified(r, request[r])'
    BY <1>1, <1>2, <1>3, <1>5 DEF Justified, Factor
  <2>2. ASSUME NEW x \in Requests \ {r} PROVE Justified(x, request[x])'
    BY <1>1, <1>5 DEF Justified, IInv, StageInv
  <2> QED BY <2>1, <2>2 DEF StageInv
<1>8. AbsentInv'
  BY <1>1, <1>2, <1>3, <1>5 DEF AbsentInv
<1> QED BY <1>6, <1>7, <1>8 DEF IInv

LEMMA ArriveInv ==
  ASSUME IInv, NEW r \in Requests, NEW code \in Secrets \cup {None},
         NEW stage \in {"reload", "validate", "confirm", "disable", "done"},
         Arrive(r, stage, code),
         stage = "reload" => code = None,
         stage \in {"validate", "confirm"} => code # None
  PROVE  IInv'
<1> DEFINE q == [request[r] EXCEPT !.pc = stage, !.code = code, !.during = {Factor}]
<1>1. Factor \in Secrets \cup {None}
  BY DEF Factor, IInv, TypeOK
<1>2. /\ q \in Request /\ q.pc = stage /\ q.code = code
      /\ q.during = {Factor} /\ q.session = request[r].session
  BY <1>1 DEF IInv, TypeOK, Request, Stages
<1>3. /\ request' = [request EXCEPT ![r] = q] /\ exists
      /\ UNCHANGED <<staff, exists, founder, enabled, secret, token>>
  BY DEF Arrive, Enter
<1>4. ~q.session
  BY <1>2 DEF Arrive, Enter, IInv, StageInv, Justified
<1>5. Justified(r, q)
  <2> HIDE DEF q
  <2> QED BY <1>2, <1>4 DEF Justified
<1> HIDE DEF q
<1> QED BY <1>2, <1>3, <1>5, OneRequest DEF IInv, TypeOK

(* Writing the factor: every request under way has the new one in its      *)
(* history, and the writer is done.                                        *)
LEMMA WriteInv ==
  ASSUME IInv, NEW r \in Requests, NEW on \in BOOLEAN, NEW s \in Secrets \cup {None},
         Write(r, on, s), on <=> s # None, UNCHANGED <<staff, exists, founder, token>>,
         request[r].pc \in {"store", "clear"}
  PROVE  IInv'
<1>1. enabled' = on /\ secret' = s /\ Factor' = s
  BY DEF Write, Factor
<1>2. \A x \in Requests :
        LET q == [request[x] EXCEPT
                    !.pc = IF x = r THEN "done" ELSE @,
                    !.during = IF request[x].pc \in {"idle", "done"} THEN @
                               ELSE @ \cup {IF on THEN s ELSE None}]
        IN  /\ q \in Request
            /\ q.pc = IF x = r THEN "done" ELSE request[x].pc
            /\ q.during = IF request[x].pc \in {"idle", "done"} THEN request[x].during
                          ELSE request[x].during \cup {s}
            /\ q.code = request[x].code /\ q.session = request[x].session
  BY DEF IInv, TypeOK, Request, Stages
<1>3. request' \in [Requests -> Request]
  BY <1>2 DEF Write
<1>4. \A x \in Requests :
        /\ request'[x].pc = IF x = r THEN "done" ELSE request[x].pc
        /\ request'[x].during = IF request[x].pc \in {"idle", "done"} THEN request[x].during
                                ELSE request[x].during \cup {s}
        /\ request'[x].code = request[x].code /\ request'[x].session = request[x].session
  BY <1>2 DEF Write
<1>5. TypeOK' /\ FactorInv'
  BY <1>1, <1>3 DEF IInv, TypeOK, FactorInv
<1>6. StageInv'
  <2> SUFFICES ASSUME NEW x \in Requests PROVE Justified(x, request[x])'
    BY DEF StageInv
  <2>1. Justified(x, request[x])
    BY DEF IInv, StageInv
  <2>2. CASE x = r
    BY <1>1, <1>4, <2>1, <2>2 DEF Justified
  <2>3. CASE x # r
    BY <1>1, <1>4, <2>1, <2>3 DEF Justified
  <2> QED BY <2>2, <2>3
<1>7. AbsentInv'
  BY DEF IInv, AbsentInv
<1> QED BY <1>5, <1>6, <1>7 DEF IInv

(* Starting a request, and the steps that only move it on.                 *)
LEMMA LoginStepInv ==
  ASSUME IInv, NEW r \in Requests, LoginStep(r) PROVE IInv'
<1>1. CASE Login(r)
  BY <1>1, ArriveInv DEF Login
<1>2. CASE Verify(r)
  BY <1>2, ArriveInv, MFAAssumption DEF Verify
<1>3. CASE LoginReload(r)
  <2>1. PICK stage \in {"done", "mint"} :
          /\ Goto(r, stage) /\ (stage = "mint" => ~FactorNeeded)
          /\ request[r].pc = "reload" /\ UNCHANGED <<staff, exists, founder, enabled, secret>>
          /\ token' \in BOOLEAN
    BY <1>3 DEF LoginReload, Challenge, IInv, TypeOK
  <2> DEFINE q == [request[r] EXCEPT !.pc = stage]
  <2>2. /\ q.pc = stage /\ q.code = request[r].code
        /\ q.during = request[r].during /\ q.session = request[r].session
    BY DEF IInv, TypeOK, Request
  <2>3. stage = "mint" => Justified(r, q)
    <3> HIDE DEF q
    <3> QED BY <2>1, <2>2 DEF Justified, IInv, StageInv, FactorNeeded, Factor
  <2> QED BY <2>1, <2>3, GotoInv DEF Stages
<1>4. CASE VerifyCode(r)
  <2>1. PICK stage \in {"done", "mint"} :
          /\ Goto(r, stage) /\ (stage = "mint" => CodeFits(r))
          /\ request[r].pc = "validate"
          /\ UNCHANGED <<staff, exists, founder, enabled, secret, token>>
    BY <1>4 DEF VerifyCode
  <2> DEFINE q == [request[r] EXCEPT !.pc = stage]
  <2>2. /\ q.pc = stage /\ q.code = request[r].code
        /\ q.during = request[r].during /\ q.session = request[r].session
    BY DEF IInv, TypeOK, Request
  <2>3. stage = "mint" => Justified(r, q)
    <3> HIDE DEF q
    <3> QED BY <2>1, <2>2 DEF Justified, IInv, StageInv, CodeFits, Factor
  <2> QED BY <2>1, <2>3, GotoInv DEF Stages, IInv, TypeOK
<1>5. CASE Mint(r)
  <2>1. /\ request[r].pc = "mint" /\ token' \in BOOLEAN
        /\ UNCHANGED <<staff, exists, founder, enabled, secret>>
    BY <1>5 DEF Mint, IInv, TypeOK
  <2>2. CASE Goto(r, "done")
    BY <2>1, <2>2, GotoInv DEF Stages
  <2>3. CASE ~Goto(r, "done")
    <3> DEFINE q == [request[r] EXCEPT !.pc = "done", !.session = TRUE]
    <3>1. /\ q \in Request /\ q.pc = "done" /\ q.code = request[r].code
          /\ q.during = request[r].during /\ q.session = TRUE
      BY DEF IInv, TypeOK, Request, Stages
    <3>2. request' = [request EXCEPT ![r] = q]
      BY <1>5, <2>3 DEF Mint
    <3> HIDE DEF q
    <3>3. Justified(r, q)
      BY <2>1, <3>1 DEF Justified, IInv, StageInv
    <3>4. exists
      BY <2>1 DEF IInv, AbsentInv
    <3> QED BY <2>1, <3>1, <3>2, <3>3, <3>4, OneRequest
  <2> QED BY <2>2, <2>3
<1> QED BY <1>1, <1>2, <1>3, <1>4, <1>5, AcceptInviteInv DEF LoginStep

LEMMA ConfirmStepInv ==
  ASSUME IInv, NEW r \in Requests,
         Setup(r) \/ Confirm(r) \/ ConfirmRead(r) \/ ConfirmStore(r)
  PROVE  IInv'
<1>1. CASE Setup(r)
  BY <1>1, ArriveInv DEF Setup
<1>2. CASE Confirm(r)
  BY <1>2, ArriveInv, MFAAssumption DEF Confirm
<1>3. CASE ConfirmRead(r)
  <2>1. PICK stage \in {"done", "store"} :
          /\ Goto(r, stage) /\ (stage = "store" => ~enabled)
          /\ request[r].pc = "confirm"
          /\ UNCHANGED <<staff, exists, founder, enabled, secret, token>>
    BY <1>3 DEF ConfirmRead
  <2> DEFINE q == [request[r] EXCEPT !.pc = stage]
  <2>2. /\ q.pc = stage /\ q.code = request[r].code
        /\ q.during = request[r].during /\ q.session = request[r].session
    BY DEF IInv, TypeOK, Request
  <2>3. stage = "store" => Justified(r, q)
    <3> HIDE DEF q
    <3> QED BY <2>1, <2>2 DEF Justified, IInv, StageInv, Factor
  <2> QED BY <2>1, <2>3, GotoInv DEF Stages, IInv, TypeOK
<1>4. CASE ConfirmStore(r)
  <2>1. /\ request[r].pc = "store" /\ request[r].code \in Secrets
        /\ UNCHANGED <<staff, exists, founder, token>>
    BY <1>4 DEF ConfirmStore, IInv, StageInv, Justified, TypeOK, Request
  <2>2. CASE Write(r, TRUE, request[r].code)
    BY <2>1, <2>2, WriteInv, MFAAssumption
  <2>3. CASE Goto(r, "done") /\ UNCHANGED <<enabled, secret>>
    BY <2>1, <2>3, GotoInv DEF Stages, IInv, TypeOK
  <2> QED BY <1>4, <2>2, <2>3 DEF ConfirmStore
<1> QED BY <1>1, <1>2, <1>3, <1>4

LEMMA DisableStepInv ==
  ASSUME IInv, NEW r \in Requests,
         Disable(r) \/ DisableRead(r) \/ DisableCode(r) \/ DisableClear(r)
  PROVE  IInv'
<1>1. CASE Disable(r)
  BY <1>1, ArriveInv DEF Disable
<1>2. CASE DisableRead(r)
  <2>1. PICK stage \in {"done", "recheck"} :
          /\ Goto(r, stage) /\ request[r].pc = "disable"
          /\ UNCHANGED <<staff, exists, founder, enabled, secret, token>>
    BY <1>2 DEF DisableRead
  <2> DEFINE q == [request[r] EXCEPT !.pc = stage]
  <2>2. /\ q.pc = stage /\ q.code = request[r].code
        /\ q.during = request[r].during /\ q.session = request[r].session
    BY DEF IInv, TypeOK, Request
  <2>3. stage = "recheck" => Justified(r, q)
    <3> HIDE DEF q
    <3> QED BY <2>1, <2>2 DEF Justified, IInv, StageInv
  <2> QED BY <2>1, <2>3, GotoInv DEF Stages, IInv, TypeOK
<1>3. CASE DisableCode(r)
  <2>1. PICK stage \in {"done", "clear"} :
          /\ Goto(r, stage) /\ (stage = "clear" => CodeFits(r)) /\ request[r].pc = "recheck"
          /\ UNCHANGED <<staff, exists, founder, enabled, secret, token>>
    BY <1>3 DEF DisableCode
  <2> DEFINE q == [request[r] EXCEPT !.pc = stage]
  <2>2. /\ q.pc = stage /\ q.code = request[r].code
        /\ q.during = request[r].during /\ q.session = request[r].session
    BY DEF IInv, TypeOK, Request
  <2>3. stage = "clear" => Justified(r, q)
    <3> HIDE DEF q
    <3> QED BY <2>1, <2>2 DEF Justified, IInv, StageInv, CodeFits, Factor
  <2> QED BY <2>1, <2>3, GotoInv DEF Stages, IInv, TypeOK
<1>4. CASE DisableClear(r)
  <2>1. request[r].pc = "clear" /\ UNCHANGED <<staff, exists, founder, token>>
    BY <1>4 DEF DisableClear
  <2>2. CASE Write(r, FALSE, None)
    BY <2>1, <2>2, WriteInv
  <2>3. CASE Goto(r, "done") /\ UNCHANGED <<enabled, secret>>
    BY <2>1, <2>3, GotoInv DEF Stages, IInv, TypeOK
  <2> QED BY <1>4, <2>2, <2>3 DEF DisableClear
<1> QED BY <1>1, <1>2, <1>3, <1>4

LEMMA NextInv == IInv /\ [Next]_vars => IInv'
<1>1. ASSUME IInv, UNCHANGED vars PROVE IInv'
  BY <1>1 DEF vars, IInv, TypeOK, FactorInv, AbsentInv, StageInv, Justified, Factor
<1>2. ASSUME IInv, NEW r \in Requests, LoginStep(r) \/ FactorStep(r) PROVE IInv'
  BY <1>2, LoginStepInv, ConfirmStepInv, DisableStepInv DEF FactorStep
<1> QED BY <1>1, <1>2 DEF Next

LEMMA Invariance == Spec => []IInv
<1> QED BY InitInv, NextInv, PTL DEF Spec

------------------------------------------------------------------------------
(* The state is well typed, for any requests and secrets.                  *)
THEOREM TypeCorrect == Spec => []TypeOK
<1>1. IInv => TypeOK
  BY DEF IInv
<1> QED BY <1>1, Invariance, PTL

(* Every session was minted for a factor the account had, or for its       *)
(* absence, while the request ran; for staff without one only by the       *)
(* acceptance that created the account.                                    *)
THEOREM SessionHadFactorHolds == Spec => []SessionHadFactor
<1>1. IInv => SessionHadFactor
  BY DEF IInv, StageInv, Justified, SessionHadFactor
<1> QED BY <1>1, Invariance, PTL

(* Only a confirmation leaves another secret enabled.                      *)
LEMMA SecretWriter ==
  ASSUME NEW r \in Requests, LoginStep(r) \/ FactorStep(r), enabled', secret' # secret
  PROVE  request[r].pc = "store"
<1>1. CASE LoginStep(r)
  BY <1>1 DEF LoginStep, AcceptInvite, Login, LoginReload, Challenge, Verify, VerifyCode,
              Mint, Arrive
<1>2. CASE Setup(r) \/ Confirm(r) \/ ConfirmRead(r) \/ Disable(r) \/ DisableRead(r)
             \/ DisableCode(r)
  BY <1>2 DEF Setup, Confirm, ConfirmRead, Disable, DisableRead, DisableCode, Arrive
<1>3. CASE ConfirmStore(r)
  BY <1>3 DEF ConfirmStore
<1>4. CASE DisableClear(r)
  <2>1. CASE Write(r, FALSE, None)
    BY <2>1 DEF Write
  <2> QED BY <1>4, <2>1 DEF DisableClear
<1> QED BY <1>1, <1>2, <1>3, <1>4 DEF FactorStep

(* Only the last step of DisableMFA disables the factor.                   *)
LEMMA DisableWriter ==
  ASSUME NEW r \in Requests, LoginStep(r) \/ FactorStep(r), enabled, ~enabled'
  PROVE  request[r].pc = "clear"
<1>1. CASE LoginStep(r)
  BY <1>1 DEF LoginStep, AcceptInvite, Login, LoginReload, Challenge, Verify, VerifyCode,
              Mint, Arrive
<1>2. CASE Setup(r) \/ Confirm(r) \/ ConfirmRead(r) \/ Disable(r) \/ DisableRead(r)
             \/ DisableCode(r)
  BY <1>2 DEF Setup, Confirm, ConfirmRead, Disable, DisableRead, DisableCode, Arrive
<1>3. CASE ConfirmStore(r)
  <2>1. CASE Write(r, TRUE, request[r].code)
    BY <2>1 DEF Write
  <2> QED BY <1>3, <2>1 DEF ConfirmStore
<1>4. CASE DisableClear(r)
  BY <1>4 DEF DisableClear
<1> QED BY <1>1, <1>2, <1>3, <1>4 DEF FactorStep

(* Only a confirmation that ran while there was no factor replaces one.    *)
THEOREM SecretReplacedOnlyByRaceHolds == Spec => SecretReplacedOnlyByRace
<1> DEFINE Replaced == enabled /\ enabled' /\ secret' # secret
                       => \E r \in Requests : /\ request[r].pc = "store"
                                              /\ {None, secret} \subseteq request[r].during
<1>1. ASSUME IInv, Next PROVE Replaced
  <2> SUFFICES ASSUME enabled, enabled', secret' # secret
               PROVE  \E r \in Requests : /\ request[r].pc = "store"
                                          /\ {None, secret} \subseteq request[r].during
    OBVIOUS
  <2>1. PICK r \in Requests : LoginStep(r) \/ FactorStep(r)
    BY <1>1 DEF Next
  <2>2. request[r].pc = "store"
    BY <2>1, SecretWriter
  <2> QED BY <1>1, <2>2 DEF IInv, StageInv, Justified, Factor
<1>2. IInv /\ [Next]_vars => [Replaced]_vars
  BY <1>1
<1> QED BY <1>2, Invariance, PTL DEF Spec, SecretReplacedOnlyByRace

(* A factor is disabled with a code of it, or of one it replaced meanwhile.*)
THEOREM DisabledOnlyWithItsCodeHolds == Spec => DisabledOnlyWithItsCode
<1> DEFINE Disabled == enabled /\ ~enabled'
                       => \E r \in Requests : /\ request[r].pc = "clear"
                                              /\ request[r].code \in request[r].during
                                              /\ secret \in request[r].during
<1>1. ASSUME IInv, Next PROVE Disabled
  <2> SUFFICES ASSUME enabled, ~enabled'
               PROVE  \E r \in Requests : /\ request[r].pc = "clear"
                                          /\ request[r].code \in request[r].during
                                          /\ secret \in request[r].during
    OBVIOUS
  <2>1. PICK r \in Requests : LoginStep(r) \/ FactorStep(r)
    BY <1>1 DEF Next
  <2>2. request[r].pc = "clear"
    BY <2>1, DisableWriter
  <2> QED BY <1>1, <2>2 DEF IInv, StageInv, Justified, Factor
<1>2. IInv /\ [Next]_vars => [Disabled]_vars
  BY <1>1
<1> QED BY <1>2, Invariance, PTL DEF Spec, DisabledOnlyWithItsCode
==============================================================================
