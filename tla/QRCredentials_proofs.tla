------------------------ MODULE QRCredentials_proofs ------------------------
(***************************************************************************)
(* Proofs about QRCredentials, for any sets of drivers and requests, any   *)
(* clock resolution and any TTL.                                           *)
(***************************************************************************)
EXTENDS QRCredentials, TLAPS

(* A token that no scan may still be granted: replaced, or consumed.       *)
Gone(t) ==
  t \in stored /\ (slot[CredOf(t)].nonce # t \/ slot[CredOf(t)].consumed)

(* A refresh is stored by its own request, and what was returned is stored.*)
StoredInv ==
  \A r \in Refreshes :
    /\ refresh[r].pc \in {"idle", "signed"} => r \notin stored
    /\ refresh[r].pc = "returned" => r \in stored
    /\ r \in stored => slot[CredOf(r)].nonce # None

(* The slot holds a stored refresh of its own credential. *)
SlotInv ==
  \A c \in Credentials :
    /\ slot[c].nonce # None => slot[c].nonce \in stored /\ CredOf(slot[c].nonce) = c
    /\ slot[c].consumed => slot[c].nonce # None

(* An upsert is consumed exactly when some scan has been charged for it. *)
SpentInv ==
  /\ \A r \in Refreshes : spent[r] # {} => r \in stored
  /\ \A c \in Credentials :
       slot[c].nonce # None => (slot[c].consumed <=> spent[slot[c].nonce] # {})
  /\ \A r \in Refreshes, s \in Scans : s \in spent[r] => scan[s].pc = "done"

(* What a scan knows of its token at each stage. *)
ScanInv ==
  \A s \in Scans :
    /\ scan[s].pc # "done" => scan[s].outcome = "none"
    /\ scan[s].token \in stored \cup {Forged}
    /\ scan[s].pc \in {"checked", "matched"} \/ scan[s].outcome \in {"verified", "used", "notActive"}
         => scan[s].token \in stored
    /\ scan[s].outcome = "verified" => Gone(scan[s].token)
    /\ scan[s].pc = "checked" /\ scan[s].stale => Gone(scan[s].token)
    /\ scan[s].pc = "matched" => ~scan[s].stale

IInv ==
  /\ TypeOK
  /\ StoredInv
  /\ SlotInv
  /\ SpentInv
  /\ OneScanPerUpsert
  /\ ScanInv
  /\ StaleTokenRefused

------------------------------------------------------------------------------
LEMMA InitType == Init => TypeOK
BY QRAssumption
   DEF Init, TypeOK, NoSlot, Tokens, Outcomes, RefreshRequest, Slot, ScanRequest

(* Answering a scan changes the stage and the outcome of that scan only.   *)
LEMMA AnswerScan ==
  ASSUME TypeOK, NEW s \in Scans, NEW o \in Outcomes, Answer(s, o)
  PROVE  /\ scan' \in [Scans -> ScanRequest]
         /\ scan'[s].pc = "done" /\ scan'[s].outcome = o
         /\ scan'[s].token = scan[s].token /\ scan'[s].at = scan[s].at
         /\ scan'[s].stale = scan[s].stale
         /\ \A x \in Scans \ {s} : scan'[x] = scan[x]
<1> DEFINE rec == [scan[s] EXCEPT !.pc = "done", !.outcome = o]
<1>1. scan[s] \in ScanRequest
  BY DEF TypeOK
<1>2. /\ rec \in ScanRequest
      /\ rec.pc = "done" /\ rec.outcome = o /\ rec.token = scan[s].token
      /\ rec.at = scan[s].at /\ rec.stale = scan[s].stale
  BY <1>1 DEF ScanRequest
<1>3. scan' = [scan EXCEPT ![s] = rec]
  BY DEF Answer
<1> HIDE DEF rec
<1> QED BY <1>2, <1>3 DEF TypeOK

(* A scan that arrives records its token, its time and the token's state.  *)
LEMMA ArrivalType ==
  ASSUME TypeOK, NEW t \in Tokens,
         NEW pc \in {"checked", "done"}, NEW o \in Outcomes
  PROVE  Arrival(t, pc, o) \in ScanRequest
<1>1. Dead(t) \in BOOLEAN
  BY DEF Dead
<1> QED BY <1>1 DEF Arrival, ScanRequest, TypeOK

LEMMA NextType == TypeOK /\ [Next]_vars => TypeOK'
<1> SUFFICES ASSUME TypeOK, [Next]_vars PROVE TypeOK'
  OBVIOUS
<1> USE QRAssumption
<1>1. ASSUME NEW r \in Refreshes, RefreshStep(r) PROVE TypeOK'
  <2>0. refresh[r] \in RefreshRequest /\ now \in 0..MaxNow
    BY DEF TypeOK
  <2>1. CASE RefreshSign(r)
    <3>1. [refresh[r] EXCEPT !.pc = "signed", !.issuedAt = now] \in RefreshRequest
      BY <2>0 DEF RefreshRequest
    <3> QED BY <2>1, <3>1 DEF RefreshSign, TypeOK
  <2>2. CASE RefreshUpsert(r)
    <3>1. \A a \in {"returned", "failed"} : [refresh[r] EXCEPT !.pc = a] \in RefreshRequest
      BY <2>0 DEF RefreshRequest
    <3>2. [nonce |-> r, consumed |-> FALSE] \in Slot
      BY DEF Slot
    <3> QED BY <2>2, <3>1, <3>2 DEF RefreshUpsert, CredOf, TypeOK
  <2>3. CASE RefreshFail(r)
    <3>1. [refresh[r] EXCEPT !.pc = "failed"] \in RefreshRequest
      BY <2>0 DEF RefreshRequest
    <3> QED BY <2>3, <3>1 DEF RefreshFail, TypeOK
  <2> QED BY <1>1, <2>1, <2>2, <2>3 DEF RefreshStep
<1>2. ASSUME NEW s \in Scans, ScanStep(s) PROVE TypeOK'
  <2>1. CASE VerifyReject(s)
    <3>1. \A t \in Tokens, o \in Outcomes : Arrival(t, "done", o) \in ScanRequest
      BY ArrivalType
    <3>2. scan' \in [Scans -> ScanRequest]
      BY <2>1, <3>1 DEF VerifyReject, Shown, Tokens, Outcomes, TypeOK
    <3> QED BY <2>1, <3>2 DEF VerifyReject, TypeOK
  <2>2. CASE VerifyDecode(s)
    <3>1. \A t \in Tokens : Arrival(t, "checked", "none") \in ScanRequest
      BY ArrivalType DEF Outcomes
    <3>2. scan' \in [Scans -> ScanRequest]
      BY <2>2, <3>1 DEF VerifyDecode, Shown, Tokens, TypeOK
    <3> QED BY <2>2, <3>2 DEF VerifyDecode, TypeOK
  <2>3. CASE VerifyRead(s)
    <3>1. [scan[s] EXCEPT !.pc = "matched"] \in ScanRequest
      BY DEF TypeOK, ScanRequest
    <3>2. scan' \in [Scans -> ScanRequest]
      BY <2>3, <3>1, AnswerScan DEF VerifyRead, Outcomes, TypeOK
    <3> QED BY <2>3, <3>2 DEF VerifyRead, TypeOK
  <2>4. CASE VerifyConsume(s)
    <3>1. scan' \in [Scans -> ScanRequest]
      BY <2>4, AnswerScan DEF VerifyConsume, Outcomes
    <3>2. slot' \in [Credentials -> Slot]
      <4>1. \A c \in Credentials : [slot[c] EXCEPT !.consumed = TRUE] \in Slot
        BY DEF TypeOK, Slot
      <4> QED BY <2>4, <4>1 DEF VerifyConsume, TypeOK
    <3>3. spent' \in [Refreshes -> SUBSET Scans]
      BY <2>4 DEF VerifyConsume, TypeOK
    <3> QED BY <2>4, <3>1, <3>2, <3>3 DEF VerifyConsume, TypeOK
  <2> QED BY <1>2, <2>1, <2>2, <2>3, <2>4 DEF ScanStep
<1>3. ASSUME Tick PROVE TypeOK'
  BY <1>3 DEF Tick, TypeOK
<1>4. ASSUME UNCHANGED vars PROVE TypeOK'
  BY <1>4 DEF vars, TypeOK
<1> QED BY <1>1, <1>2, <1>3, <1>4 DEF Next

(* The state is well typed, for every value of the constants.              *)
THEOREM TypeCorrect == Spec => []TypeOK
<1> QED BY InitType, NextType, PTL DEF Spec

------------------------------------------------------------------------------
LEMMA InitInv == Init => IInv
<1> SUFFICES ASSUME Init PROVE IInv
  OBVIOUS
<1>1. TypeOK
  BY InitType
<1>2. StoredInv /\ SlotInv /\ SpentInv /\ OneScanPerUpsert /\ ScanInv /\ StaleTokenRefused
  BY QRAssumption DEF Init, NoSlot, StoredInv, SlotInv, SpentInv, OneScanPerUpsert,
     ScanInv, StaleTokenRefused, CredOf
<1> QED BY <1>1, <1>2 DEF IInv

(* Signing and failing touch nothing but the request itself.               *)
LEMMA SignOrFailInv ==
  ASSUME IInv, TypeOK', NEW r \in Refreshes, RefreshSign(r) \/ RefreshFail(r)
  PROVE  IInv'
<1> USE DEF IInv, TypeOK, RefreshRequest
<1>1. /\ UNCHANGED <<slot, scan, stored, spent>>
      /\ \A x \in Refreshes : refresh'[x].cred = refresh[x].cred
      /\ \A x \in Refreshes \ {r} : refresh'[x].pc = refresh[x].pc
      /\ refresh[r].pc \in {"idle", "signed"}
      /\ refresh'[r].pc \in {"signed", "failed"}
  <2>1. CASE RefreshSign(r)
    <3> DEFINE rec == [refresh[r] EXCEPT !.pc = "signed", !.issuedAt = now]
    <3>1. rec.pc = "signed" /\ rec.cred = refresh[r].cred
      OBVIOUS
    <3>2. refresh' = [refresh EXCEPT ![r] = rec]
      BY <2>1 DEF RefreshSign
    <3> HIDE DEF rec
    <3> QED BY <2>1, <3>1, <3>2 DEF RefreshSign
  <2>2. CASE RefreshFail(r)
    BY <2>2 DEF RefreshFail
  <2> QED BY <2>1, <2>2
<1>2. StoredInv'
  BY <1>1 DEF StoredInv, CredOf
<1>3. SlotInv'
  BY <1>1 DEF SlotInv, CredOf, Slot
<1>4. SpentInv' /\ OneScanPerUpsert' /\ StaleTokenRefused'
  BY <1>1 DEF SpentInv, OneScanPerUpsert, StaleTokenRefused
<1>5. ScanInv'
  BY <1>1 DEF ScanInv, Gone, CredOf
<1> QED BY <1>2, <1>3, <1>4, <1>5

(* An upsert replaces whatever the slot held; nothing it stored before is  *)
(* ever stored again, so what was gone stays gone.                         *)
LEMMA UpsertInv ==
  ASSUME IInv, TypeOK', NEW r \in Refreshes, RefreshUpsert(r)
  PROVE  IInv'
<1> USE DEF IInv, TypeOK
<1> DEFINE c == CredOf(r)
<1>0. c \in Credentials
  BY DEF CredOf, RefreshRequest
<1>1. /\ UNCHANGED <<scan, spent>>
      /\ \A x \in Refreshes : refresh'[x].cred = refresh[x].cred
      /\ \A x \in Refreshes \ {r} : refresh'[x].pc = refresh[x].pc
      /\ refresh[r].pc = "signed"
      /\ refresh'[r].pc \in {"returned", "failed"}
  BY DEF RefreshUpsert, RefreshRequest
<1>2. /\ slot'[c].nonce = r /\ slot'[c].consumed = FALSE
      /\ \A x \in Credentials \ {c} : slot'[x] = slot[x]
      /\ stored' = stored \cup {r}
  BY <1>0 DEF RefreshUpsert
<1>3. r \notin stored /\ spent[r] = {}
  BY <1>1 DEF StoredInv, SpentInv
<1>4. \A x \in Refreshes : CredOf(x)' = CredOf(x) /\ CredOf(x) \in Credentials
  BY <1>1 DEF CredOf, RefreshRequest
<1> HIDE DEF c
<1>5. \A t \in stored : Gone(t) => Gone(t)'
  BY <1>2, <1>3, <1>4 DEF Gone, c
<1>6. StoredInv'
  BY <1>0, <1>1, <1>2, <1>4, QRAssumption DEF StoredInv, c
<1>7. SlotInv'
  BY <1>0, <1>1, <1>2, <1>4, QRAssumption DEF SlotInv, c, Slot
<1>8. SpentInv' /\ OneScanPerUpsert' /\ StaleTokenRefused'
  <2>1. ASSUME NEW x \in Credentials, slot'[x].nonce # None
        PROVE  slot'[x].consumed <=> spent'[slot'[x].nonce] # {}
    <3>1. CASE x = c
      BY <1>1, <1>2, <1>3, <3>1
    <3>2. CASE x # c
      BY <1>1, <1>2, <2>1, <3>2 DEF SpentInv
    <3> QED BY <3>1, <3>2
  <2>2. \A x \in Refreshes : spent'[x] # {} => x \in stored'
    BY <1>1, <1>2 DEF SpentInv
  <2> QED BY <2>1, <2>2, <1>1 DEF SpentInv, OneScanPerUpsert, StaleTokenRefused
<1>9. ScanInv'
  BY <1>1, <1>2, <1>5 DEF ScanInv, Gone
<1> QED BY <1>6, <1>7, <1>8, <1>9

(* A request that arrives knows a dead token for what it is.               *)
LEMMA ArrivalInv ==
  ASSUME IInv, TypeOK', NEW s \in Scans, VerifyReject(s) \/ VerifyDecode(s)
  PROVE  IInv'
<1> USE DEF IInv, TypeOK
<1>1. /\ UNCHANGED <<refresh, slot, stored, spent>>
      /\ \A x \in Scans \ {s} : scan'[x] = scan[x]
      /\ scan[s].pc = "idle"
  BY DEF VerifyReject, VerifyDecode
<1>2. \/ /\ scan'[s].pc = "done" /\ scan'[s].outcome \in {"invalid", "expired"}
         /\ scan'[s].token \in Shown \cup {Forged}
      \/ /\ scan'[s].pc = "checked" /\ scan'[s].outcome = "none"
         /\ scan'[s].token \in Shown
         /\ scan'[s].stale = Dead(scan'[s].token)
  BY DEF VerifyReject, VerifyDecode, Arrival
<1>3. \A t \in Refreshes : Dead(t) /\ t \in stored => Gone(t)
  BY DEF Dead, Replaced, Gone, ScanInv
<1>4. Shown \subseteq stored
  BY DEF Shown, StoredInv
<1>5. \A t : Gone(t)' <=> Gone(t)
  BY <1>1 DEF Gone, CredOf
<1>6. StoredInv' /\ SlotInv' /\ OneScanPerUpsert'
  BY <1>1 DEF StoredInv, SlotInv, OneScanPerUpsert, CredOf
<1>7. SpentInv'
  BY <1>1 DEF SpentInv
<1>8. ScanInv'
  BY <1>1, <1>2, <1>3, <1>4, <1>5 DEF ScanInv, Shown
<1>9. StaleTokenRefused'
  BY <1>1, <1>2 DEF StaleTokenRefused
<1> QED BY <1>6, <1>7, <1>8, <1>9

(* A matched scan has seen its token unconsumed in the slot.               *)
LEMMA ReadInv ==
  ASSUME IInv, TypeOK', NEW s \in Scans, VerifyRead(s)
  PROVE  IInv'
<1> USE DEF IInv
<1>1. /\ UNCHANGED <<refresh, slot, stored, spent>>
      /\ scan[s].pc = "checked"
  BY DEF VerifyRead
<1>2. /\ \A x \in Scans \ {s} : scan'[x] = scan[x]
      /\ scan'[s].token = scan[s].token /\ scan'[s].stale = scan[s].stale
      /\ \/ scan'[s].pc = "done" /\ scan'[s].outcome \in {"failed", "notActive", "used"}
         \/ /\ scan'[s].pc = "matched" /\ scan'[s].outcome = scan[s].outcome
            /\ slot[CredOf(scan[s].token)].nonce = scan[s].token
            /\ ~slot[CredOf(scan[s].token)].consumed
  <2>1. CASE scan' = [scan EXCEPT ![s].pc = "matched"]
             /\ slot[CredOf(scan[s].token)].nonce = scan[s].token
             /\ ~slot[CredOf(scan[s].token)].consumed
    BY <2>1 DEF TypeOK, ScanRequest
  <2>2. ASSUME NEW o \in {"failed", "notActive", "used"}, Answer(s, o)
        PROVE  <1>2!1
    BY <2>2, AnswerScan DEF Outcomes
  <2> QED BY <2>1, <2>2, AnswerScan DEF VerifyRead, Outcomes
<1>3. \A t : Gone(t)' <=> Gone(t)
  BY <1>1 DEF Gone, CredOf
<1>4. StoredInv' /\ SlotInv' /\ OneScanPerUpsert'
  BY <1>1 DEF StoredInv, SlotInv, OneScanPerUpsert, CredOf
<1>5. SpentInv'
  BY <1>1, <1>2 DEF SpentInv
<1>6. ScanInv'
  BY <1>1, <1>2, <1>3 DEF ScanInv, Gone
<1>7. StaleTokenRefused'
  BY <1>1, <1>2 DEF StaleTokenRefused
<1> QED BY <1>4, <1>5, <1>6, <1>7

(* The conditional update charges one scan, and only an unconsumed upsert. *)
LEMMA ConsumeInv ==
  ASSUME IInv, TypeOK', NEW s \in Scans, VerifyConsume(s)
  PROVE  IInv'
<1> USE DEF IInv
<1> DEFINE t == scan[s].token
           c == CredOf(t)
           g == slot[c].nonce
<1>1. /\ UNCHANGED <<refresh, stored>>
      /\ scan[s].pc = "matched" /\ t \in stored /\ ~scan[s].stale
      /\ t \in Refreshes /\ c \in Credentials
      /\ g \in stored /\ g \in Refreshes /\ CredOf(g) = c
  BY DEF VerifyConsume, ScanInv, StoredInv, SlotInv, TypeOK, CredOf, RefreshRequest
<1>2. /\ \A x \in Scans \ {s} : scan'[x] = scan[x]
      /\ scan'[s].token = t /\ scan'[s].stale = scan[s].stale
      /\ scan'[s].pc = "done"
      /\ scan'[s].outcome \in {"verified", "failed", "used"}
  BY AnswerScan DEF VerifyConsume, Outcomes
<1>3. CASE UNCHANGED <<slot, spent>> /\ scan'[s].outcome # "verified"
  <2>1. \A x : Gone(x)' <=> Gone(x)
    BY <1>1, <1>3 DEF Gone, CredOf
  <2>2. StoredInv' /\ SlotInv' /\ OneScanPerUpsert'
    BY <1>1, <1>3 DEF StoredInv, SlotInv, OneScanPerUpsert, CredOf
  <2>3. SpentInv'
    BY <1>1, <1>2, <1>3 DEF SpentInv
  <2>4. ScanInv' /\ StaleTokenRefused'
    BY <1>1, <1>2, <1>3, <2>1 DEF ScanInv, StaleTokenRefused
  <2> QED BY <2>2, <2>3, <2>4
<1>4. CASE /\ ~slot[c].consumed
           /\ slot' = [slot EXCEPT ![c].consumed = TRUE]
           /\ spent' = [spent EXCEPT ![g] = @ \cup {s}]
  <2>1. /\ slot'[c].nonce = g /\ slot'[c].consumed = TRUE
        /\ \A x \in Credentials \ {c} : slot'[x] = slot[x]
    BY <1>1, <1>4 DEF TypeOK, Slot
  <2>2. spent[g] = {} /\ spent'[g] = {s} /\ \A x \in Refreshes \ {g} : spent'[x] = spent[x]
    BY <1>1, <1>4, QRAssumption DEF SpentInv, TypeOK
  <2>3. \A x \in Refreshes : CredOf(x)' = CredOf(x) /\ CredOf(x) \in Credentials
    BY <1>1 DEF CredOf, TypeOK, RefreshRequest
  <2> HIDE DEF t, c, g
  <2>4. \A x \in stored : Gone(x) => Gone(x)'
    BY <1>1, <2>1, <2>3 DEF Gone, g, TypeOK
  <2>5. \A x \in stored : CredOf(x) = c => Gone(x)'
    BY <1>1, <2>1, <2>3 DEF Gone, TypeOK
  <2>6. StoredInv'
    BY <1>1, <2>1, <2>3 DEF StoredInv, g
  <2>7. SlotInv'
    <3>1. \A x \in Credentials : slot'[x].nonce = slot[x].nonce
      BY <2>1 DEF g
    <3>2. \A x \in Credentials : slot[x].nonce # None => slot[x].nonce \in Refreshes
      BY DEF TypeOK, Slot
    <3>3. slot'[c].nonce # None
      BY <1>1, <2>1, QRAssumption
    <3> QED BY <1>1, <2>1, <2>3, <3>1, <3>2, <3>3 DEF SlotInv
  <2>8. OneScanPerUpsert'
    BY <2>2 DEF OneScanPerUpsert
  <2>9. SpentInv'
    <3>1. \A r \in Refreshes : spent'[r] # {} => r \in stored'
      BY <1>1, <2>2 DEF SpentInv
    <3>2. ASSUME NEW x \in Credentials, slot'[x].nonce # None
          PROVE  slot'[x].consumed <=> spent'[slot'[x].nonce] # {}
      <4>1. CASE x = c
        BY <4>1, <2>1, <2>2
      <4>2. CASE x # c
        <5>1. slot'[x] = slot[x] /\ slot[x].nonce \in Refreshes /\ slot[x].nonce # g
          BY <4>2, <3>2, <2>1, <1>1 DEF SlotInv, TypeOK
        <5> QED BY <5>1, <3>2, <2>2 DEF SpentInv
      <4> QED BY <4>1, <4>2
    <3>3. \A r \in Refreshes, x \in Scans : x \in spent'[r] => scan'[x].pc = "done"
      BY <1>2, <2>2 DEF SpentInv
    <3> QED BY <3>1, <3>2, <3>3 DEF SpentInv
  <2>10. ScanInv' /\ StaleTokenRefused'
    BY <1>1, <1>2, <2>4, <2>5 DEF ScanInv, StaleTokenRefused, Gone, t, c
  <2> QED BY <2>6, <2>7, <2>8, <2>9, <2>10
<1> QED BY <1>3, <1>4, AnswerScan DEF VerifyConsume, Outcomes

LEMMA NextInv == IInv /\ [Next]_vars => IInv'
<1> SUFFICES ASSUME IInv, [Next]_vars PROVE IInv'
  OBVIOUS
<1>0. TypeOK'
  BY NextType DEF IInv
<1>1. ASSUME NEW r \in Refreshes, RefreshStep(r) PROVE IInv'
  BY <1>0, <1>1, SignOrFailInv, UpsertInv DEF RefreshStep
<1>2. ASSUME NEW s \in Scans, ScanStep(s) PROVE IInv'
  BY <1>0, <1>2, ArrivalInv, ReadInv, ConsumeInv DEF ScanStep
<1>3. ASSUME UNCHANGED <<refresh, slot, scan, stored, spent>> PROVE IInv'
  BY <1>0, <1>3 DEF IInv, StoredInv, SlotInv, SpentInv, OneScanPerUpsert, ScanInv,
     StaleTokenRefused, Gone, CredOf
<1> QED BY <1>1, <1>2, <1>3 DEF Next, Tick, vars

LEMMA Invariance == Spec => []IInv
<1> QED BY InitInv, NextInv, PTL DEF Spec

(* Whatever the interleaving of refreshes and scans, at most one scan      *)
(* consumes what one refresh stored.                                       *)
THEOREM OneScanPerUpsertHolds == Spec => []OneScanPerUpsert
<1>1. IInv => OneScanPerUpsert
  BY DEF IInv
<1> QED BY <1>1, Invariance, PTL

(* A token verified or replaced before a scan arrives is not verified by   *)
(* that scan, for any number of concurrent requests.                       *)
THEOREM StaleTokenRefusedHolds == Spec => []StaleTokenRefused
<1>1. IInv => StaleTokenRefused
  BY DEF IInv
<1> QED BY <1>1, Invariance, PTL
------------------------------------------------------------------------------
(* What has happened stays recorded: no step takes back an upsert, a       *)
(* charge or an answer.                                                    *)
LEMMA StepHistory ==
  ASSUME IInv, [Next]_vars
  PROVE  /\ stored \subseteq stored'
         /\ \A r \in Refreshes : spent[r] \subseteq spent'[r]
         /\ \A r \in Refreshes : refresh'[r].cred = refresh[r].cred
         /\ \A r \in stored : refresh'[r] = refresh[r]
         /\ \A s \in Scans : scan[s].pc = "done" => scan'[s] = scan[s]
<1> USE DEF IInv
<1>1. ASSUME NEW r \in Refreshes, RefreshStep(r)
      PROVE  /\ stored \subseteq stored' /\ UNCHANGED <<scan, spent>>
             /\ \A x \in Refreshes : refresh'[x].cred = refresh[x].cred
             /\ \A x \in stored : refresh'[x] = refresh[x]
  <2>0. r \notin stored
    BY <1>1 DEF RefreshStep, RefreshSign, RefreshUpsert, RefreshFail, StoredInv
  <2>1. CASE RefreshSign(r)
    <3> DEFINE rec == [refresh[r] EXCEPT !.pc = "signed", !.issuedAt = now]
    <3>1. rec.cred = refresh[r].cred
      BY DEF TypeOK, RefreshRequest
    <3>2. refresh' = [refresh EXCEPT ![r] = rec]
      BY <2>1 DEF RefreshSign
    <3> HIDE DEF rec
    <3> QED BY <2>0, <2>1, <3>1, <3>2 DEF RefreshSign, TypeOK
  <2>2. CASE RefreshUpsert(r) \/ RefreshFail(r)
    BY <2>0, <2>2 DEF RefreshUpsert, RefreshFail, TypeOK, RefreshRequest
  <2> QED BY <1>1, <2>1, <2>2 DEF RefreshStep
<1>2. ASSUME NEW s \in Scans, ScanStep(s)
      PROVE  /\ UNCHANGED <<refresh, stored>>
             /\ \A r \in Refreshes : spent[r] \subseteq spent'[r]
             /\ \A x \in Scans : scan[x].pc = "done" => scan'[x] = scan[x]
  <2>1. CASE VerifyReject(s) \/ VerifyDecode(s)
    BY <2>1 DEF VerifyReject, VerifyDecode, TypeOK
  <2>2. CASE VerifyRead(s)
    BY <2>2, AnswerScan DEF VerifyRead, Outcomes, TypeOK
  <2>3. CASE VerifyConsume(s)
    BY <2>3, AnswerScan DEF VerifyConsume, Outcomes, TypeOK
  <2> QED BY <1>2, <2>1, <2>2, <2>3 DEF ScanStep
<1>3. ASSUME UNCHANGED <<refresh, slot, scan, stored, spent>>
      PROVE  /\ UNCHANGED <<stored, spent, refresh, scan>>
  BY <1>3
<1> QED BY <1>1, <1>2, <1>3 DEF Next, Tick, vars

(* A scan's record changes only by that scan's own step.                   *)
LEMMA ScanChange ==
  ASSUME TypeOK, [Next]_vars, NEW x \in Scans, scan'[x] # scan[x]
  PROVE  ScanStep(x) /\ UNCHANGED <<now, refresh, stored>>
<1>1. \E s \in Scans : ScanStep(s)
  BY DEF Next, Tick, vars, RefreshStep, RefreshSign, RefreshUpsert, RefreshFail
<1>2. PICK s \in Scans : ScanStep(s)
  BY <1>1
<1>3. \A y \in Scans \ {s} : scan'[y] = scan[y]
  BY <1>2, AnswerScan
     DEF ScanStep, VerifyReject, VerifyDecode, VerifyRead, VerifyConsume, Outcomes, TypeOK
<1> QED
  BY <1>2, <1>3 DEF ScanStep, VerifyReject, VerifyDecode, VerifyRead, VerifyConsume

(* A scan that finds the slot consumed was not the one that consumed it.   *)
LEMMA ConsumedByAnother ==
  ASSUME IInv, NEW s \in Scans, scan[s].pc # "done",
         NEW c \in Credentials, slot[c].consumed
  PROVE  \E r \in stored : CredOf(r) = c /\ spent[r] \ {s} # {}
<1>1. slot[c].nonce \in stored /\ CredOf(slot[c].nonce) = c
  BY DEF IInv, SlotInv
<1>2. spent[slot[c].nonce] # {} /\ s \notin spent[slot[c].nonce]
  BY <1>1 DEF IInv, SlotInv, SpentInv, TypeOK
<1> QED BY <1>1, <1>2

LEMMA NextRefusal == IInv /\ RefusalHasCause /\ [Next]_vars => RefusalHasCause'
<1> SUFFICES ASSUME IInv, RefusalHasCause, [Next]_vars, NEW x \in Scans
             PROVE  /\ scan'[x].outcome = "used" =>
                         \E r \in stored' : /\ CredOf(r)' = (CredOf(scan[x].token))'
                                            /\ spent'[r] \ {x} # {}
                    /\ scan'[x].outcome = "notActive" =>
                         \E r \in stored' \ {scan'[x].token} :
                            CredOf(r)' = (CredOf(scan[x].token))'
  BY DEF RefusalHasCause
<1> USE DEF IInv
<1>1. CASE scan'[x] = scan[x] /\ scan[x].outcome \notin {"used", "notActive"}
  BY <1>1
<1>2. CASE scan'[x] = scan[x] /\ scan[x].outcome \in {"used", "notActive"}
  <2>1. scan[x].pc = "done" /\ scan[x].token \in stored
    BY <1>2 DEF ScanInv
  <2>2. ASSUME scan[x].outcome = "used"
        PROVE  \E r \in stored' : CredOf(r)' = (CredOf(scan[x].token))' /\ spent'[r] \ {x} # {}
    <3>1. PICK r \in stored : CredOf(r) = CredOf(scan[x].token) /\ spent[r] \ {x} # {}
      BY <2>2 DEF RefusalHasCause
    <3> QED BY <1>2, <2>1, <3>1, StepHistory DEF CredOf, TypeOK
  <2>3. ASSUME scan[x].outcome = "notActive"
        PROVE  \E r \in stored' \ {scan'[x].token} : CredOf(r)' = (CredOf(scan[x].token))'
    <3>1. PICK r \in stored \ {scan[x].token} : CredOf(r) = CredOf(scan[x].token)
      BY <2>3 DEF RefusalHasCause
    <3> QED BY <1>2, <2>1, <3>1, StepHistory DEF CredOf, TypeOK
  <2> QED BY <1>2, <2>2, <2>3
<1>3. CASE scan'[x] # scan[x]
  <2>1. UNCHANGED <<refresh, stored>> /\ ScanStep(x)
    BY <1>3, ScanChange
  <2>2. \A r \in Refreshes : CredOf(r)' = CredOf(r) /\ CredOf(r) \in Credentials
    BY <2>1 DEF CredOf, TypeOK, RefreshRequest
  <2>3. CASE VerifyReject(x) \/ VerifyDecode(x)
    <3>1. scan'[x].outcome \in {"none", "invalid", "expired"}
      BY <2>3 DEF VerifyReject, VerifyDecode, Arrival, TypeOK
    <3> QED BY <3>1
  <2>4. CASE VerifyRead(x)
    <3>1. scan[x].pc = "checked" /\ scan[x].token \in stored /\ spent' = spent
      BY <2>4 DEF VerifyRead, ScanInv
    <3>2. scan'[x].token = scan[x].token
      BY <2>4, AnswerScan DEF VerifyRead, Outcomes, TypeOK, ScanRequest
    <3>3. CASE slot[CredOf(scan[x].token)].consumed /\ Answer(x, "used")
      <4>1. scan'[x].outcome = "used"
        BY <3>3, AnswerScan DEF Outcomes
      <4>2. PICK r \in stored : CredOf(r) = CredOf(scan[x].token) /\ spent[r] \ {x} # {}
        BY <2>2, <3>1, <3>3, ConsumedByAnother DEF TypeOK
      <4> QED BY <2>1, <2>2, <3>1, <3>2, <4>1, <4>2 DEF CredOf, TypeOK
    <3>4. CASE Answer(x, "notActive") /\ slot[CredOf(scan[x].token)].nonce # scan[x].token
      <4>1. scan'[x].outcome = "notActive"
        BY <3>4, AnswerScan DEF Outcomes
      <4>2. /\ slot[CredOf(scan[x].token)].nonce \in stored \ {scan[x].token}
            /\ CredOf(slot[CredOf(scan[x].token)].nonce) = CredOf(scan[x].token)
        BY <2>2, <3>1, <3>4 DEF StoredInv, SlotInv, TypeOK
      <4> QED BY <2>1, <2>2, <3>1, <3>2, <4>1, <4>2 DEF CredOf, TypeOK
    <3>5. CASE Answer(x, "failed")
      <4>1. scan'[x].outcome = "failed"
        BY <3>5, AnswerScan DEF Outcomes
      <4> QED BY <4>1
    <3>6. CASE scan' = [scan EXCEPT ![x].pc = "matched"]
      <4>1. scan'[x].outcome = "none"
        BY <3>1, <3>6 DEF ScanInv, TypeOK, ScanRequest
      <4> QED BY <4>1
    <3>7. slot[CredOf(scan[x].token)].nonce = None => scan[x].token # None
      BY <3>1, QRAssumption DEF TypeOK
    <3> QED BY <2>4, <3>3, <3>4, <3>5, <3>6, <3>7 DEF VerifyRead
  <2>5. CASE VerifyConsume(x)
    <3>1. scan[x].pc = "matched" /\ scan[x].token \in stored
      BY <2>5 DEF VerifyConsume, ScanInv
    <3>2. /\ scan'[x].token = scan[x].token
          /\ scan'[x].outcome \in {"verified", "failed", "used"}
      BY <2>5, AnswerScan DEF VerifyConsume, Outcomes
    <3>3. CASE scan'[x].outcome = "used"
      <4>1. slot[CredOf(scan[x].token)].consumed /\ spent' = spent
        BY <2>5, <3>3, AnswerScan DEF VerifyConsume, Outcomes
      <4>2. PICK r \in stored : CredOf(r) = CredOf(scan[x].token) /\ spent[r] \ {x} # {}
        BY <2>2, <3>1, <4>1, ConsumedByAnother DEF TypeOK
      <4> QED BY <2>1, <2>2, <3>1, <3>2, <3>3, <4>1, <4>2 DEF CredOf, TypeOK
    <3> QED BY <3>2, <3>3
  <2> QED BY <2>1, <2>3, <2>4, <2>5 DEF ScanStep
<1> QED BY <1>1, <1>2, <1>3

(* No scan is refused as used, or as no longer active, unless another scan *)
(* or another refresh of the same credential caused it.                    *)
THEOREM RefusalHasCauseHolds == Spec => []RefusalHasCause
<1>1. Init => RefusalHasCause
  BY DEF Init, RefusalHasCause
<1> QED BY <1>1, NextRefusal, Invariance, PTL DEF Spec
------------------------------------------------------------------------------
(* Refinement. *)

LEMMA PermitInit == Init => Permits!Init
<1> SUFFICES ASSUME Init PROVE Permits!Init
  OBVIOUS
<1>1. Permit = [c \in Credentials |-> FALSE]
  <2>1. \A c \in Credentials : slot[c].nonce = None
    BY DEF Init, NoSlot
  <2> QED BY <2>1 DEF Permit
<1>2. Passed = [c \in Credentials |-> {}]
  BY DEF Init, Passed
<1> QED BY <1>1, <1>2 DEF Permits!Init

(* A step that adds no upsert, consumes nothing and verifies nothing does  *)
(* not show.                                                               *)
LEMMA PermitStutter ==
  ASSUME UNCHANGED slot,
         \A s \in Scans : /\ scan'[s].outcome = "verified" <=> scan[s].outcome = "verified"
                          /\ scan[s].outcome = "verified" => CredOf(scan[s].token)' = CredOf(scan[s].token)
  PROVE  UNCHANGED <<Permit, Passed>>
<1>1. UNCHANGED Permit
  BY DEF Permit
<1>2. \A c \in Credentials : Passed[c]' = Passed[c]
  BY DEF Passed
<1>3. UNCHANGED Passed
  BY <1>2 DEF Passed
<1> QED BY <1>1, <1>3

LEMMA PermitStep == IInv /\ IInv' /\ [Next]_vars => [Permits!Next]_<<Permit, Passed>>
<1> SUFFICES ASSUME IInv, IInv', [Next]_vars PROVE [Permits!Next]_<<Permit, Passed>>
  OBVIOUS
<1> USE DEF IInv
<1>1. ASSUME NEW r \in Refreshes, RefreshSign(r) \/ RefreshFail(r)
      PROVE  UNCHANGED <<Permit, Passed>>
  BY <1>1, StepHistory, PermitStutter DEF RefreshSign, RefreshFail, CredOf, ScanInv
<1>2. ASSUME NEW r \in Refreshes, RefreshUpsert(r)
      PROVE  Permits!Grant(CredOf(r)) /\ CredOf(r) \in Credentials
  <2>1. CredOf(r) \in Credentials
    BY DEF CredOf, TypeOK, RefreshRequest
  <2>2. Permit' = [Permit EXCEPT ![CredOf(r)] = TRUE]
    <3>1. /\ slot'[CredOf(r)].nonce = r /\ ~slot'[CredOf(r)].consumed
          /\ \A x \in Credentials \ {CredOf(r)} : slot'[x] = slot[x]
      BY <1>2, <2>1 DEF RefreshUpsert, TypeOK
    <3> QED BY <2>1, <3>1, QRAssumption DEF Permit
  <2>3. UNCHANGED Passed
    <3>1. \A s \in Scans : scan[s].outcome = "verified" =>
             CredOf(scan[s].token)' = CredOf(scan[s].token)
      BY <1>2, StepHistory DEF CredOf, ScanInv, RefreshUpsert, TypeOK
    <3>2. \A c \in Credentials : Passed[c]' = Passed[c]
      BY <1>2, <3>1 DEF Passed, RefreshUpsert
    <3> QED BY <3>2 DEF Passed
  <2> QED BY <2>1, <2>2, <2>3 DEF Permits!Grant
<1>3. ASSUME NEW s \in Scans, VerifyReject(s) \/ VerifyDecode(s) \/ VerifyRead(s)
      PROVE  UNCHANGED <<Permit, Passed>>
  <2>1. UNCHANGED <<refresh, slot>> /\ scan[s].outcome = "none"
    BY <1>3 DEF VerifyReject, VerifyDecode, VerifyRead, ScanInv
  <2>2. scan'[s].outcome # "verified" /\ \A x \in Scans \ {s} : scan'[x] = scan[x]
    <3>1. CASE VerifyReject(s) \/ VerifyDecode(s)
      BY <3>1 DEF VerifyReject, VerifyDecode, Arrival, TypeOK
    <3>2. CASE scan' = [scan EXCEPT ![s].pc = "matched"]
      BY <2>1, <3>2 DEF TypeOK, ScanRequest
    <3> QED BY <1>3, <3>1, <3>2, AnswerScan DEF VerifyRead, Outcomes
  <2> QED BY <2>1, <2>2, PermitStutter DEF CredOf
<1>4. ASSUME NEW s \in Scans, VerifyConsume(s)
      PROVE  [Permits!Next]_<<Permit, Passed>>
  <2> DEFINE t == scan[s].token
             c == CredOf(t)
  <2>1. /\ UNCHANGED refresh /\ scan[s].outcome = "none"
        /\ t \in stored /\ c \in Credentials /\ slot[c].nonce # None
    BY <1>4 DEF VerifyConsume, ScanInv, StoredInv, TypeOK, CredOf, RefreshRequest
  <2>2. /\ \A x \in Scans \ {s} : scan'[x] = scan[x]
        /\ scan'[s].token = t
    BY <1>4, AnswerScan DEF VerifyConsume, Outcomes
  <2>3. CASE UNCHANGED slot /\ scan'[s].outcome # "verified"
    BY <2>1, <2>2, <2>3, PermitStutter DEF CredOf
  <2>4. CASE ~slot[c].consumed /\ slot' = [slot EXCEPT ![c].consumed = TRUE]
    <3>1. Permit[c] /\ Permit' = [Permit EXCEPT ![c] = FALSE]
      <4>1. /\ slot'[c].consumed
            /\ \A x \in Credentials \ {c} : slot'[x] = slot[x]
        BY <2>1, <2>4 DEF TypeOK, Slot
      <4> QED BY <2>1, <2>4, <4>1 DEF Permit
    <3>2. CASE scan'[s].outcome = "verified"
      <4>1. \A x \in Scans : CredOf(scan[x].token)' = CredOf(scan[x].token)
        BY <2>1, <2>2 DEF CredOf
      <4>2. \A x \in Credentials : Passed[x]' = IF x = c THEN Passed[x] \cup {s} ELSE Passed[x]
        BY <2>1, <2>2, <3>2, <4>1 DEF Passed
      <4>3. Passed' = [Passed EXCEPT ![c] = @ \cup {s}]
        BY <2>1, <4>2 DEF Passed
      <4> QED BY <2>1, <3>1, <4>3 DEF Permits!Next, Permits!Spend
    <3>3. CASE scan'[s].outcome # "verified"
      <4>1. \A x \in Credentials : Passed[x]' = Passed[x]
        BY <2>1, <2>2, <3>3 DEF Passed, CredOf
      <4>2. UNCHANGED Passed
        BY <4>1 DEF Passed
      <4> QED BY <2>1, <3>1, <4>2 DEF Permits!Next, Permits!Spend
    <3> QED BY <3>2, <3>3
  <2> QED BY <1>4, <2>3, <2>4, AnswerScan DEF VerifyConsume, Outcomes
<1>5. ASSUME UNCHANGED <<refresh, slot, scan, stored, spent>>
      PROVE  UNCHANGED <<Permit, Passed>>
  BY <1>5, PermitStutter DEF CredOf
<1>6. ASSUME NEW r \in Refreshes, RefreshStep(r) PROVE [Permits!Next]_<<Permit, Passed>>
  BY <1>1, <1>2, <1>6 DEF RefreshStep, Permits!Next
<1>7. ASSUME NEW s \in Scans, ScanStep(s) PROVE [Permits!Next]_<<Permit, Passed>>
  BY <1>3, <1>4, <1>7 DEF ScanStep
<1> QED BY <1>5, <1>6, <1>7 DEF Next, Tick, vars

(* The concurrent, fallible handlers implement the permit specification.   *)
THEOREM ImplementsPermitsHolds == Spec => ImplementsPermits
<1>1. IInv /\ IInv' /\ [Next]_vars => [Permits!Next]_Permits!vars
  BY PermitStep DEF Permits!vars
<1> QED BY <1>1, PermitInit, Invariance, PTL DEF Spec, ImplementsPermits, Permits!Spec
------------------------------------------------------------------------------
(* Time. *)

(* Dropping the fraction of a second moves a time back by less than one.   *)
LEMMA WholeSecondsBounds ==
  ASSUME NEW t \in Nat
  PROVE  /\ WholeSeconds(t) \in Nat
         /\ WholeSeconds(t) <= t
         /\ t < WholeSeconds(t) + Second
<1> DEFINE q == t \div Second
<1>1. Second \in Nat /\ Second > 0
  BY QRAssumption
<1>2. t = Second * q + (t % Second) /\ q \in Int /\ t % Second \in 0..(Second - 1)
  BY <1>1
<1>3. q >= 0
  BY <1>1
<1> HIDE DEF q
<1>4. q * Second = Second * q /\ Second * q \in Nat
  BY <1>1, <1>2, <1>3
<1> QED BY <1>1, <1>2, <1>4 DEF WholeSeconds, q
LEMMA NextExpiry == IInv /\ ExpiryWindow /\ [Next]_vars => ExpiryWindow'
<1> SUFFICES ASSUME IInv, ExpiryWindow, [Next]_vars, NEW x \in Scans,
                    scan'[x].token # Forged
             PROVE  /\ scan'[x].pc \in {"checked", "matched"} \/ scan'[x].outcome = "verified"
                         => scan'[x].at <= refresh'[scan'[x].token].issuedAt + TTL * Second
                    /\ scan'[x].outcome = "expired"
                         => scan'[x].at > refresh'[scan'[x].token].issuedAt + TTL * Second - Second
  BY DEF ExpiryWindow
<1> USE DEF IInv
<1>0. TTL * Second \in Nat /\ Second \in Nat
  BY QRAssumption
<1>1. CASE scan'[x] = scan[x]
  <2>1. scan[x].token \in stored
    BY <1>1 DEF ScanInv
  <2>2. refresh'[scan[x].token] = refresh[scan[x].token]
    BY <2>1, StepHistory
  <2> QED BY <1>1, <2>2 DEF ExpiryWindow
<1>2. CASE scan'[x] # scan[x]
  <2>1. UNCHANGED <<refresh, stored, now>> /\ ScanStep(x)
    BY <1>2, ScanChange
  <2>2. CASE VerifyReject(x) \/ VerifyDecode(x)
    <3> DEFINE t == scan'[x].token
    <3>1. /\ t \in Shown /\ scan'[x].at = now
          /\ \/ scan'[x].pc = "checked" /\ scan'[x].outcome = "none" /\ ~Expired(t)
             \/ scan'[x].pc = "done" /\ scan'[x].outcome = "expired" /\ Expired(t)
             \/ scan'[x].pc = "done" /\ scan'[x].outcome = "invalid"
      BY <2>2 DEF VerifyReject, VerifyDecode, Arrival, TypeOK
    <3>2. refresh[t].issuedAt \in Nat /\ now \in Nat
      BY <3>1 DEF Shown, TypeOK, RefreshRequest
    <3>3. /\ WholeSeconds(refresh[t].issuedAt) \in Nat
          /\ WholeSeconds(refresh[t].issuedAt) <= refresh[t].issuedAt
          /\ refresh[t].issuedAt < WholeSeconds(refresh[t].issuedAt) + Second
      BY <3>2, WholeSecondsBounds
    <3>4. refresh'[t] = refresh[t]
      BY <2>1
    <3> HIDE DEF t
    <3>5. ~Expired(t) => now <= refresh[t].issuedAt + TTL * Second
      BY <1>0, <3>2, <3>3 DEF Expired
    <3>6. Expired(t) => now > refresh[t].issuedAt + TTL * Second - Second
      BY <1>0, <3>2, <3>3 DEF Expired
    <3> QED BY <3>1, <3>4, <3>5, <3>6 DEF t
  <2>3. CASE VerifyRead(x) \/ VerifyConsume(x)
    <3>1. /\ scan[x].pc \in {"checked", "matched"}
          /\ scan'[x].token = scan[x].token /\ scan'[x].at = scan[x].at
          /\ scan'[x].outcome # "expired"
      <4>1. CASE scan' = [scan EXCEPT ![x].pc = "matched"] /\ scan[x].pc = "checked"
        BY <4>1 DEF TypeOK, ScanRequest, ScanInv
      <4> QED BY <2>3, <4>1, AnswerScan DEF VerifyRead, VerifyConsume, Outcomes
    <3> QED BY <2>1, <3>1 DEF ExpiryWindow
  <2> QED BY <2>1, <2>2, <2>3 DEF ScanStep
<1> QED BY <1>1, <1>2

(* For every TTL and clock resolution: a token passes the time check only  *)
(* within TTL of its issue, and expires at most a second early.            *)
THEOREM ExpiryWindowHolds == Spec => []ExpiryWindow
<1>1. Init => ExpiryWindow
  BY DEF Init, ExpiryWindow
<1> QED BY <1>1, NextExpiry, Invariance, PTL DEF Spec
==============================================================================
