---------------------------- MODULE QRCredentials ----------------------------
(***************************************************************************)
(* The rotating QR credential (internal/qrcredentials).  A driver's        *)
(* request refreshes the token of the driver's credential; an officer's    *)
(* request verifies the token it scanned and consumes it.  Requests run    *)
(* concurrently and meet only in MongoDB: collection qr_active_tokens      *)
(* holds one document, the slot, per credential.  Every database call is   *)
(* an action of its own, so requests interleave between their calls.       *)
(*                                                                         *)
(* A token is named by the refresh request that signed it: its random      *)
(* nonce is taken never to repeat, and the HMAC binds nonce, credential    *)
(* and issue time together, so a string that is not such a token is Forged.*)
(***************************************************************************)
EXTENDS Integers

CONSTANTS
  Credentials,   \* drivers' credential ids
  Refreshes,     \* POST /api/v1/qr/refresh requests; bounds their number
  Scans,         \* POST /api/v1/verification/scan requests; bounds their number
  Second,        \* clock ticks in a second
  TTL,           \* TokenTTL, in seconds
  MaxNow,        \* bound on the clock
  None,          \* no token
  Forged         \* any string that is not a token this server signed

ASSUME QRAssumption ==
  /\ Second \in Nat \ {0}
  /\ TTL \in Nat
  /\ MaxNow \in Nat
  /\ None \notin Refreshes
  /\ Forged \notin Refreshes

VARIABLES
  now,           \* wall clock, in ticks
  refresh,       \* refresh[r]: the state of refresh request r
  slot,          \* slot[c]: document of credential c in qr_active_tokens
  scan,          \* scan[s]: the state of scan request s
  stored,        \* history: refreshes whose upsert was applied
  spent          \* history: spent[r]: scans that consumed r's upsert

vars == <<now, refresh, slot, scan, stored, spent>>

Tokens == Refreshes \cup {Forged}

Outcomes == {"none", "verified", "expired", "invalid", "notActive", "used",
             "failed"}

NoSlot == [nonce |-> None, consumed |-> FALSE]

RefreshRequest == [pc       : {"idle", "signed", "returned", "failed"},
                   cred     : Credentials,
                   issuedAt : 0..MaxNow]

Slot == [nonce : Refreshes \cup {None}, consumed : BOOLEAN]

ScanRequest == [pc       : {"idle", "checked", "matched", "done"},
                token    : Tokens,
                at       : 0..MaxNow,   \* when the request was checked
                stale    : BOOLEAN,     \* history: token dead on arrival
                outcome  : Outcomes]

TypeOK ==
  /\ now \in 0..MaxNow
  /\ refresh \in [Refreshes -> RefreshRequest]
  /\ slot \in [Credentials -> Slot]
  /\ scan \in [Scans -> ScanRequest]
  /\ stored \subseteq Refreshes
  /\ spent \in [Refreshes -> SUBSET Scans]

------------------------------------------------------------------------------
(* Tokens. *)

CredOf(t) == refresh[t].cred

(* A driver can only show a token that the server returned. *)
Shown == {r \in Refreshes : refresh[r].pc = "returned"}

(* The token carries its issue time as whole Unix seconds. *)
WholeSeconds(t) == (t \div Second) * Second

(* Mutation: whole seconds compared with whole seconds. *)
Expired_WholeSeconds(t) ==
  WholeSeconds(now) > WholeSeconds(refresh[t].issuedAt) + TTL * Second

Expired(t) == now > WholeSeconds(refresh[t].issuedAt) + TTL * Second

FromFuture(t) == now < WholeSeconds(refresh[t].issuedAt)

(* History: another upsert has replaced the one that stored t. *)
Replaced(t) == t \in stored /\ slot[CredOf(t)].nonce # t

(* History: t was verified or replaced, no later scan may accept it. *)
Dead(t) ==
  t \in Refreshes /\ (\/ Replaced(t)
                      \/ \E s \in Scans : scan[s].token = t /\ scan[s].outcome = "verified")

------------------------------------------------------------------------------
(* Refresh requests. *)

(* Mutation: the token carries its expiry where its issue time belongs. *)
RefreshSign_ExpiryForIssue(r) ==
  /\ refresh[r].pc = "idle"
  /\ refresh' = [refresh EXCEPT ![r] = [@ EXCEPT !.pc = "signed",
                                               !.issuedAt = now + TTL * Second]]
  /\ UNCHANGED <<now, slot, scan, stored, spent>>

(* Nonce, issue time and signature, before the database is called. *)
RefreshSign(r) ==
  /\ refresh[r].pc = "idle"
  /\ refresh' = [refresh EXCEPT ![r] = [@ EXCEPT !.pc = "signed", !.issuedAt = now]]
  /\ UNCHANGED <<now, slot, scan, stored, spent>>

(* The upsert: new nonce, consumed_at unset.  The write may be applied and *)
(* still be reported as failed; the driver then never sees the token.      *)
RefreshUpsert(r) ==
  /\ refresh[r].pc = "signed"
  /\ slot' = [slot EXCEPT ![CredOf(r)] = [nonce |-> r, consumed |-> FALSE]]
  /\ stored' = stored \cup {r}
  /\ \E answer \in {"returned", "failed"} :
       refresh' = [refresh EXCEPT ![r].pc = answer]
  /\ UNCHANGED <<now, scan, spent>>

(* Mutation: the token is returned although the upsert was not applied. *)
RefreshFail_ReturnsToken(r) ==
  /\ refresh[r].pc = "signed"
  /\ refresh' = [refresh EXCEPT ![r].pc = "returned"]
  /\ UNCHANGED <<now, slot, scan, stored, spent>>

(* The upsert is not applied. *)
RefreshFail(r) ==
  /\ refresh[r].pc = "signed"
  /\ refresh' = [refresh EXCEPT ![r].pc = "failed"]
  /\ UNCHANGED <<now, slot, scan, stored, spent>>

------------------------------------------------------------------------------
(* Scan requests. *)

Arrival(t, pc, outcome) ==
  [pc |-> pc, token |-> t, at |-> now, stale |-> Dead(t), outcome |-> outcome]

Answer(s, outcome) ==
  scan' = [scan EXCEPT ![s] = [@ EXCEPT !.pc = "done", !.outcome = outcome]]

(* VerifyToken steps 1 and 2, refused: signature, expiry, issue time. *)
VerifyReject(s) ==
  /\ scan[s].pc = "idle"
  /\ \/ scan' = [scan EXCEPT ![s] = Arrival(Forged, "done", "invalid")]
     \/ \E t \in Shown :
          /\ Expired(t)
          /\ scan' = [scan EXCEPT ![s] = Arrival(t, "done", "expired")]
     \/ \E t \in Shown :
          /\ ~Expired(t)
          /\ FromFuture(t)
          /\ scan' = [scan EXCEPT ![s] = Arrival(t, "done", "invalid")]
  /\ UNCHANGED <<now, refresh, slot, stored, spent>>

(* VerifyToken steps 1 and 2, passed. *)
VerifyDecode(s) ==
  /\ scan[s].pc = "idle"
  /\ \E t \in Shown :
       /\ ~Expired(t)
       /\ ~FromFuture(t)
       /\ scan' = [scan EXCEPT ![s] = Arrival(t, "checked", "none")]
  /\ UNCHANGED <<now, refresh, slot, stored, spent>>

(* Mutation: the comparison with the active nonce is dropped. *)
VerifyRead_AnyNonce(s) ==
  LET active == slot[CredOf(scan[s].token)] IN
  /\ scan[s].pc = "checked"
  /\ \/ active.consumed /\ Answer(s, "used")
     \/ ~active.consumed /\ scan' = [scan EXCEPT ![s].pc = "matched"]
  /\ UNCHANGED <<now, refresh, slot, stored, spent>>

(* FindOne on the slot, then steps 3 and 4 on the document it returned. *)
VerifyRead(s) ==
  LET token  == scan[s].token
      active == slot[CredOf(token)] IN
  /\ scan[s].pc = "checked"
  /\ \/ Answer(s, "failed")                       \* the query fails
     \/ active.nonce = None /\ Answer(s, "notActive")
     \/ active.nonce # None /\ active.consumed /\ Answer(s, "used")
     \/ /\ active.nonce \notin {None, token}
        /\ ~active.consumed
        /\ Answer(s, "notActive")
     \/ /\ active.nonce = token
        /\ ~active.consumed
        /\ scan' = [scan EXCEPT ![s].pc = "matched"]
  /\ UNCHANGED <<now, refresh, slot, stored, spent>>

(* Mutation: the update no longer requires consumed_at to be absent. *)
VerifyConsume_Unconditional(s) ==
  LET c == CredOf(scan[s].token) IN
  /\ scan[s].pc = "matched"
  /\ slot' = [slot EXCEPT ![c].consumed = TRUE]
  /\ spent' = [spent EXCEPT ![slot[c].nonce] = @ \cup {s}]
  /\ Answer(s, "verified")
  /\ UNCHANGED <<now, refresh, stored>>

(* Mutation: the update's MatchedCount is not looked at. *)
VerifyConsume_IgnoresMatchedCount(s) ==
  LET c == CredOf(scan[s].token) IN
  /\ scan[s].pc = "matched"
  /\ slot' = [slot EXCEPT ![c].consumed = TRUE]
  /\ spent' = IF slot[c].consumed THEN spent
              ELSE [spent EXCEPT ![slot[c].nonce] = @ \cup {s}]
  /\ Answer(s, "verified")
  /\ UNCHANGED <<now, refresh, stored>>

(* UpdateOne on {credential_id, consumed_at absent}.  The filter does not  *)
(* name the nonce: it takes whatever unconsumed upsert the slot holds now. *)
VerifyConsume(s) ==
  LET c == CredOf(scan[s].token) IN
  /\ scan[s].pc = "matched"
  /\ \/ /\ ~slot[c].consumed
        /\ slot' = [slot EXCEPT ![c].consumed = TRUE]
        /\ spent' = [spent EXCEPT ![slot[c].nonce] = @ \cup {s}]
        /\ \E outcome \in {"verified", "failed"} : Answer(s, outcome)
     \/ /\ slot[c].consumed
        /\ Answer(s, "used")
        /\ UNCHANGED <<slot, spent>>
     \/ /\ Answer(s, "failed")                    \* the update is not applied
        /\ UNCHANGED <<slot, spent>>
  /\ UNCHANGED <<now, refresh, stored>>

------------------------------------------------------------------------------
(* The environment. *)

(* The wall clock advances, or is set back by a clock correction. *)
Tick ==
  /\ \/ now < MaxNow /\ now' = now + 1
     \/ now > 0 /\ now' = now - 1
  /\ UNCHANGED <<refresh, slot, scan, stored, spent>>

------------------------------------------------------------------------------
(* Each refresh request is made by one driver, whose id its JWT carries. *)
Init ==
  /\ now = 0
  /\ refresh \in [Refreshes -> [pc : {"idle"}, cred : Credentials, issuedAt : {0}]]
  /\ slot = [c \in Credentials |-> NoSlot]
  /\ scan = [s \in Scans |-> [pc |-> "idle", token |-> Forged, at |-> 0,
                              stale |-> FALSE, outcome |-> "none"]]
  /\ stored = {}
  /\ spent = [r \in Refreshes |-> {}]

RefreshStep(r) == RefreshSign(r) \/ RefreshUpsert(r) \/ RefreshFail(r)

ScanStep(s) ==
  VerifyReject(s) \/ VerifyDecode(s) \/ VerifyRead(s) \/ VerifyConsume(s)

Next ==
  \/ \E r \in Refreshes : RefreshStep(r)
  \/ \E s \in Scans : ScanStep(s)
  \/ Tick

Spec == Init /\ [][Next]_vars

------------------------------------------------------------------------------
(* Properties. *)

(* One upsert pays for at most one scan: two scans never both consume the  *)
(* slot between the same two refreshes, whatever they read before          *)
(* (VerifyToken's conditional update, service.go:197-207).                 *)
OneScanPerUpsert ==
  \A r \in Refreshes : \A s1, s2 \in spent[r] : s1 = s2

(* A token that another scan has verified, or that a newer refresh has     *)
(* replaced, before a scan request arrives is never verified by it: single *)
(* use and "only one token is active at a time" hold between requests that *)
(* do not overlap (service.go:164-207).                                    *)
StaleTokenRefused ==
  \A s \in Scans : scan[s].stale => scan[s].outcome # "verified"

(* Every refusal after decoding has the cause it reports: "used" means     *)
(* that another scan of the same credential consumed an upsert,            *)
(* "notActive" that another refresh of the credential was stored after the *)
(* token (service.go:164-207).                                             *)
RefusalHasCause ==
  \A s \in Scans :
    LET token == scan[s].token IN
    /\ scan[s].outcome = "used" =>
         \E r \in stored : CredOf(r) = CredOf(token) /\ spent[r] \ {s} # {}
    /\ scan[s].outcome = "notActive" =>
         \E r \in stored \ {token} : CredOf(r) = CredOf(token)

(* A token passes the time check only within TTL of its issue, and is      *)
(* refused as expired only when it is older than TTL less the fraction of  *)
(* a second that encodeTime drops (service.go:151-162, 242-259).           *)
ExpiryWindow ==
  \A s \in Scans :
    LET issued == refresh[scan[s].token].issuedAt IN
    scan[s].token # Forged =>
      /\ scan[s].pc \in {"checked", "matched"} \/ scan[s].outcome = "verified"
           => scan[s].at <= issued + TTL * Second
      /\ scan[s].outcome = "expired"
           => scan[s].at > issued + TTL * Second - Second

(* The credential as its users see it: a permit per refresh, spent by the  *)
(* scan that passes.                                                       *)
Permit == [c \in Credentials |-> slot[c].nonce # None /\ ~slot[c].consumed]

Passed == [c \in Credentials |->
             {s \in Scans : /\ scan[s].outcome = "verified"
                            /\ CredOf(scan[s].token) = c}]

Permits == INSTANCE VerificationPermits WITH permit <- Permit, passed <- Passed

(* Refreshes and scans implement VerificationPermits: no scan passes       *)
(* without spending the permit of its own credential, and a permit comes   *)
(* only from a refresh (service.go:77-217).                                *)
ImplementsPermits == Permits!Spec

(* "Mark nonce as consumed (first successful scan wins)"                   *)
(* (service.go:195): no two scans verify the same token.                   *)
FirstScanWins ==
  \A s1, s2 \in Scans :
    /\ scan[s1].outcome = "verified"
    /\ scan[s2].outcome = "verified"
    /\ scan[s1].token = scan[s2].token
    => s1 = s2
==============================================================================
