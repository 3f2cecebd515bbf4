------------------------- MODULE PhoneCodes_proofs -------------------------
(***************************************************************************)
(* Proofs about PhoneCodes, for any finite set of requests and any limits. *)
(***************************************************************************)
EXTENDS PhoneCodes, FiniteSetTheorems, TLAPS

(* A guess works on a code that was inserted; a request that has not       *)
(* inserted yet has no code, and nobody has guessed at it.                 *)
FoundInv ==
  \A r \in Requests :
    request[r].pc \in {"guess", "mark"} =>
      request[r].found \in Requests /\ code[request[r].found].state # "absent"

AbsentInv ==
  \A r \in Requests :
    /\ request[r].pc \in {"idle", "delete", "insert"} => code[r].state = "absent"
    /\ code[r].state = "absent" => tally[r].evaluated = 0

Guessers(d) == {r \in Requests : request[r].pc = "guess" /\ request[r].found = d}

(* The guesses at a code, those under way included.                        *)
Counted(d) ==
  /\ tally[d].active = Cardinality(Guessers(d))
  /\ tally[d].active <= tally[d].peak
  /\ IF tally[d].peak = 0
       THEN tally[d].evaluated = 0
       ELSE tally[d].evaluated + tally[d].active < MaxAttempts + tally[d].peak + tally[d].lost
  /\ d \in Stored => tally[d].evaluated <= code[d].attempts + tally[d].lost

TallyInv == \A d \in Requests : Counted(d)

(* Sends one after the other: one live code at most, none before an insert. *)
CleanInv ==
  ~messy =>
    /\ \A x, y \in Requests : request[x].pc = "insert" /\ request[y].pc = "insert" => x = y
    /\ (\E x \in Requests : request[x].pc = "insert") => Live = {}
    /\ \A d, e \in Live : d = e

IInv ==
  /\ TypeOK
  /\ FoundInv
  /\ AbsentInv
  /\ TallyInv
  /\ CleanInv
  /\ LimitCountsVerified

------------------------------------------------------------------------------
LEMMA GuessersFinite ==
  ASSUME NEW d
  PROVE  IsFiniteSet(Guessers(d)) /\ Cardinality(Guessers(d)) \in Nat
<1>1. Guessers(d) \in SUBSET Requests
  BY DEF Guessers
<1>2. IsFiniteSet(Guessers(d))
  BY <1>1, FS_Subset, PhoneCodesAssumption
<1> QED BY <1>2, FS_CardinalityType

LEMMA InitInv == Init => IInv
<1> SUFFICES ASSUME Init PROVE IInv
  OBVIOUS
<1>1. \A r \in Requests :
        /\ code[r].state = "absent"
        /\ request[r].pc = "idle" /\ request[r].answer = "none"
        /\ tally[r].active = 0 /\ tally[r].peak = 0 /\ tally[r].evaluated = 0
  BY DEF Init
<1>2. TypeOK
  BY DEF Init, TypeOK, Code, Request, Stages, Tally
<1>3. FoundInv /\ AbsentInv /\ LimitCountsVerified
  BY <1>1 DEF FoundInv, AbsentInv, LimitCountsVerified
<1>4. CleanInv
  BY <1>1 DEF CleanInv, Live
<1>5. TallyInv
  <2> SUFFICES ASSUME NEW d \in Requests PROVE Counted(d)
    BY DEF TallyInv
  <2>1. Guessers(d) = {}
    BY <1>1 DEF Guessers
  <2>2. Cardinality(Guessers(d)) = 0
    BY <2>1, FS_EmptySet
  <2>3. d \notin Stored
    BY <1>1 DEF Stored, Live, Verified
  <2> QED BY <1>1, <2>2, <2>3 DEF Counted
<1> QED BY <1>2, <1>3, <1>4, <1>5 DEF IInv

(* One request moves on.                                                   *)
Moves(r, q) ==
  /\ q \in Request
  /\ request' \in [Requests -> Request]
  /\ request'[r] = q
  /\ \A x \in Requests \ {r} : request'[x] = request[x]

LEMMA OneRequest ==
  ASSUME TypeOK, NEW r \in Requests, NEW q \in Request,
         request' = [request EXCEPT ![r] = q]
  PROVE  Moves(r, q)
BY DEF Moves, TypeOK

LEMMA GotoMoves ==
  ASSUME TypeOK, NEW r \in Requests, NEW stage \in Stages, Goto(r, stage)
  PROVE  \E q \in Request :
           /\ Moves(r, q)
           /\ q.pc = stage /\ q.found = request[r].found /\ q.answer = request[r].answer
<1> DEFINE rec == [request[r] EXCEPT !.pc = stage]
<1>1. /\ rec \in Request
      /\ rec.pc = stage /\ rec.found = request[r].found /\ rec.answer = request[r].answer
  BY DEF TypeOK, Request
<1>2. request' = [request EXCEPT ![r] = rec]
  BY DEF Goto
<1> HIDE DEF rec
<1> QED BY <1>1, <1>2, OneRequest

LEMMA FinishMoves ==
  ASSUME TypeOK, NEW r \in Requests, NEW answer \in {"limited", "ok"}, Finish(r, answer)
  PROVE  \E q \in Request : Moves(r, q) /\ q.pc = "done" /\ q.answer = answer
<1> DEFINE rec == [request[r] EXCEPT !.pc = "done", !.answer = answer]
<1>1. rec \in Request /\ rec.pc = "done" /\ rec.answer = answer
  BY DEF TypeOK, Request, Stages
<1>2. request' = [request EXCEPT ![r] = rec]
  BY DEF Finish
<1> HIDE DEF rec
<1> QED BY <1>1, <1>2, OneRequest

------------------------------------------------------------------------------
(* A step that is no guess: the tallies keep what they say of the codes.   *)
Quiet(r, q) ==
  /\ request[r].pc # "guess"
  /\ q.pc \in {"delete", "insert", "done"}
  /\ q.pc \in {"delete", "insert"} => code'[r].state = "absent"
  /\ \A d \in Requests :
       \/ /\ code'[d].state = "absent" <=> code[d].state = "absent"
          /\ d \in Stored' => d \in Stored /\ code'[d].attempts = code[d].attempts
       \/ code[d].state = "absent" /\ d = r
  /\ UNCHANGED tally

LEMMA QuietTally ==
  ASSUME IInv, NEW r \in Requests, NEW q, Moves(r, q), Quiet(r, q),
         code' \in [Requests -> Code]
  PROVE  FoundInv' /\ AbsentInv' /\ TallyInv'
<1> USE DEF IInv
<1>1. \A x \in Requests : request'[x] # request[x] => x = r /\ request'[x] = q
  BY DEF Moves
<1>2. FoundInv'
  BY <1>1 DEF FoundInv, Quiet
<1>3. AbsentInv'
  <2> SUFFICES ASSUME NEW x \in Requests
               PROVE  /\ request'[x].pc \in {"idle", "delete", "insert"}
                            => code'[x].state = "absent"
                      /\ code'[x].state = "absent" => tally'[x].evaluated = 0
    BY DEF AbsentInv
  <2>1. code'[x].state = "absent" => tally'[x].evaluated = 0
    BY DEF AbsentInv, Quiet
  <2>2. CASE x = r
    BY <2>1, <2>2 DEF Moves, Quiet
  <2>3. CASE x # r
    BY <1>1, <2>1, <2>3 DEF AbsentInv, Quiet
  <2> QED BY <2>2, <2>3
<1>4. TallyInv'
  <2> SUFFICES ASSUME NEW d \in Requests PROVE Counted(d)'
    BY DEF TallyInv
  <2>1. Guessers(d)' = Guessers(d)
    BY <1>1 DEF Guessers, Quiet
  <2>2. Counted(d) /\ tally'[d] = tally[d] /\ tally[d] \in Tally /\ code'[d] \in Code
    BY DEF TallyInv, Quiet, TypeOK
  <2>3. d \in Stored' => tally'[d].evaluated <= code'[d].attempts + tally'[d].lost
    <3>1. CASE d \in Stored' => d \in Stored /\ code'[d].attempts = code[d].attempts
      BY <2>2, <3>1 DEF Counted
    <3>2. CASE code[d].state = "absent"
      BY <2>2, <3>2 DEF AbsentInv, Tally, Code
    <3> QED BY <3>1, <3>2 DEF Quiet
  <2> QED BY <2>1, <2>2, <2>3 DEF Counted
<1> QED BY <1>2, <1>3, <1>4

(* A step after which no code is live, and no insert due, that was not.    *)
LEMMA CleanKept ==
  ASSUME CleanInv, NEW r \in Requests, NEW q, Moves(r, q), q.pc # "insert",
         Live' \subseteq Live, messy => messy'
  PROVE  CleanInv'
<1>1. \A x \in Requests : request'[x].pc = "insert" => request[x].pc = "insert"
  BY DEF Moves
<1> QED BY <1>1 DEF CleanInv

(* Verified codes stay, so that a refusal keeps its cause.                 *)
LEMMA LimitKept ==
  ASSUME IInv, NEW r \in Requests, NEW q, Moves(r, q),
         q.answer = "limited" => request[r].answer = "limited",
         Verified \subseteq Verified', messy => messy'
  PROVE  LimitCountsVerified'
<1> SUFFICES ASSUME \E x \in Requests : request'[x].answer = "limited", ~messy'
             PROVE  Cardinality(Verified') + 1 >= ResendLimit
  BY DEF LimitCountsVerified
<1>1. Cardinality(Verified) + 1 >= ResendLimit
  BY DEF IInv, LimitCountsVerified, Moves
<1>2. Verified' \in SUBSET Requests /\ Verified \in SUBSET Verified'
  BY DEF Verified
<1>3. IsFiniteSet(Verified')
  BY <1>2, FS_Subset, PhoneCodesAssumption
<1>4. IsFiniteSet(Verified) /\ Cardinality(Verified) <= Cardinality(Verified')
  BY <1>2, <1>3, FS_Subset
<1>5. Cardinality(Verified) \in Nat /\ Cardinality(Verified') \in Nat
  BY <1>3, <1>4, FS_CardinalityType
<1> QED BY <1>1, <1>4, <1>5, PhoneCodesAssumption

------------------------------------------------------------------------------
LEMMA StutterInv == IInv /\ UNCHANGED vars => IInv'
<1> SUFFICES ASSUME IInv, UNCHANGED vars PROVE IInv'
  OBVIOUS
<1> QED BY DEF vars, IInv, TypeOK, FoundInv, AbsentInv, TallyInv, Counted, Guessers, CleanInv,
               Live, Verified, Stored, LimitCountsVerified

(* Of a set of codes at most one is live.                                  *)
LEMMA OneLive ==
  ASSUME \A d, e \in Live : d = e, NEW recent \in SUBSET Stored
  PROVE  Cardinality(recent) <= Cardinality(Verified) + 1
<1>1. IsFiniteSet(Verified) /\ Cardinality(Verified) \in Nat
  BY PhoneCodesAssumption, FS_Subset, FS_CardinalityType DEF Verified
<1>2. CASE Live = {}
  <2>1. recent \in SUBSET Verified
    BY <1>2 DEF Stored
  <2>2. IsFiniteSet(recent) /\ Cardinality(recent) <= Cardinality(Verified)
    BY <1>1, <2>1, FS_Subset
  <2>3. Cardinality(recent) \in Nat
    BY <2>2, FS_CardinalityType
  <2> QED BY <1>1, <2>2, <2>3
<1>3. CASE Live # {}
  <2>1. PICK d \in Live : TRUE
    BY <1>3
  <2>2. recent \in SUBSET (Verified \cup {d})
    BY <2>1 DEF Stored
  <2>3. /\ IsFiniteSet(Verified \cup {d})
        /\ Cardinality(Verified \cup {d}) <= Cardinality(Verified) + 1
        /\ Cardinality(Verified \cup {d}) \in Nat
    BY <1>1, FS_AddElement
  <2>4. IsFiniteSet(recent) /\ Cardinality(recent) <= Cardinality(Verified \cup {d})
    BY <2>2, <2>3, FS_Subset
  <2>5. Cardinality(recent) \in Nat
    BY <2>4, FS_CardinalityType
  <2> QED BY <1>1, <2>3, <2>4, <2>5
<1> QED BY <1>2, <1>3

LEMMA SendCheckInv ==
  ASSUME IInv, NEW r \in Requests, SendCheck(r)
  PROVE  IInv'
<1> USE DEF IInv
<1>1. request[r].pc = "idle" /\ UNCHANGED <<code, stamp, tally, messy>>
  BY DEF SendCheck
<1>2. PICK q \in Request :
        /\ Moves(r, q)
        /\ q.pc \in {"delete", "done"}
        /\ \/ q.answer = request[r].answer
           \/ q.answer = "limited" /\ \E recent \in SUBSET Stored : Cardinality(recent) >= ResendLimit
  <2>1. CASE \E recent \in SUBSET Stored :
               Cardinality(recent) >= ResendLimit /\ Finish(r, "limited")
    BY <2>1, FinishMoves
  <2>2. CASE Goto(r, "delete") \/ Goto(r, "done")
    BY <2>2, GotoMoves DEF Stages
  <2> QED BY <2>1, <2>2 DEF SendCheck
<1>3. Live' = Live /\ Verified' = Verified /\ Stored' = Stored
  BY <1>1 DEF Live, Verified, Stored
<1>4. TypeOK'
  BY <1>1, <1>2 DEF TypeOK, Moves
<1>5. Quiet(r, q)
  BY <1>1, <1>2, <1>3 DEF Quiet, AbsentInv
<1>6. FoundInv' /\ AbsentInv' /\ TallyInv'
  BY <1>2, <1>4, <1>5, QuietTally DEF TypeOK
<1>7. CleanInv'
  BY <1>1, <1>2, <1>3, CleanKept
<1>8. LimitCountsVerified'
  <2>1. CASE q.answer = "limited" => request[r].answer = "limited"
    BY <1>1, <1>2, <1>3, <2>1, LimitKept
  <2>2. CASE \E recent \in SUBSET Stored : Cardinality(recent) >= ResendLimit
    <3> SUFFICES ASSUME ~messy PROVE Cardinality(Verified) + 1 >= ResendLimit
      BY <1>1, <1>3 DEF LimitCountsVerified
    <3>1. PICK recent \in SUBSET Stored : Cardinality(recent) >= ResendLimit
      BY <2>2
    <3>2. Cardinality(recent) <= Cardinality(Verified) + 1
      BY OneLive DEF CleanInv
    <3>3. /\ Stored \in SUBSET Requests /\ Verified \in SUBSET Requests
      BY DEF Stored, Live, Verified
    <3>4. Cardinality(recent) \in Nat /\ Cardinality(Verified) \in Nat
      BY <3>3, PhoneCodesAssumption, FS_Subset, FS_CardinalityType
    <3> QED BY <3>1, <3>2, <3>4, PhoneCodesAssumption
  <2> QED BY <1>2, <2>1, <2>2
<1> QED BY <1>4, <1>6, <1>7, <1>8

LEMMA SendDeleteInv ==
  ASSUME IInv, NEW r \in Requests, SendDelete(r)
  PROVE  IInv'
<1> USE DEF IInv
<1> DEFINE q == [request[r] EXCEPT !.pc = "insert", !.created = stamp']
<1>1. /\ request[r].pc = "delete"
      /\ UNCHANGED tally
      /\ stamp' \in Nat
      /\ request' = [request EXCEPT ![r] = q]
  BY DEF SendDelete, TypeOK
<1>2. /\ q \in Request
      /\ q.pc = "insert" /\ q.answer = request[r].answer
  BY <1>1 DEF TypeOK, Request, Stages
<1> HIDE DEF q
<1>3. Moves(r, q)
  BY <1>1, <1>2, OneRequest
<1>4. /\ code' \in [Requests -> Code]
      /\ messy' \in BOOLEAN
      /\ messy => messy'
      /\ \A d \in Requests :
           \/ code'[d] = code[d]
           \/ /\ code[d].state = "live" /\ code'[d].state = "deleted"
              /\ code'[d].attempts = code[d].attempts
  BY DEF SendDelete, TypeOK, Code, Live
<1>5. /\ Stored' \subseteq Stored
      /\ Verified' = Verified
      /\ \A d \in Stored' : code'[d].attempts = code[d].attempts
      /\ \A d \in Requests : code'[d].state = "absent" <=> code[d].state = "absent"
  BY <1>4 DEF Stored, Live, Verified
<1>6. TypeOK'
  BY <1>1, <1>3, <1>4 DEF TypeOK, Moves
<1>7. Quiet(r, q)
  BY <1>1, <1>2, <1>5 DEF Quiet, AbsentInv
<1>8. FoundInv' /\ AbsentInv' /\ TallyInv'
  BY <1>3, <1>4, <1>7, QuietTally
<1>9. CleanInv'
  <2> SUFFICES ASSUME ~messy'
               PROVE  /\ \A x, y \in Requests :
                           request'[x].pc = "insert" /\ request'[y].pc = "insert" => x = y
                      /\ Live' = {}
    BY DEF CleanInv
  <2>1. /\ ~\E x \in Requests : request[x].pc = "insert"
        /\ code' = [d \in Requests |->
                      IF d \in Live THEN [code[d] EXCEPT !.state = "deleted"] ELSE code[d]]
    BY DEF SendDelete
  <2>2. \A d \in Requests : code'[d].state # "live"
    BY <2>1 DEF Live, TypeOK, Code
  <2> QED BY <1>3, <2>1, <2>2 DEF Live, Moves
<1>10. LimitCountsVerified'
  BY <1>2, <1>3, <1>4, <1>5, LimitKept
<1> QED BY <1>6, <1>8, <1>9, <1>10

LEMMA SendInsertInv ==
  ASSUME IInv, NEW r \in Requests, SendInsert(r)
  PROVE  IInv'
<1> USE DEF IInv
<1>1. request[r].pc = "insert" /\ UNCHANGED <<stamp, tally, messy>> /\ code[r].state = "absent"
  BY DEF SendInsert, AbsentInv
<1>2. PICK q \in Request : Moves(r, q) /\ q.pc = "done" /\ q.answer = request[r].answer
  BY GotoMoves DEF SendInsert, Stages
<1>3. /\ code' \in [Requests -> Code]
      /\ \A d \in Requests \ {r} : code'[d] = code[d]
  <2>1. request[r].created \in Nat
    BY DEF TypeOK, Request
  <2>2. [state |-> "live", created |-> request[r].created, expired |-> FALSE, attempts |-> 0]
          \in Code
    BY <2>1 DEF Code
  <2> QED BY <2>2 DEF SendInsert, TypeOK
<1>4. TypeOK'
  BY <1>1, <1>2, <1>3 DEF TypeOK, Moves
<1>5. \A d \in Requests \ {r} : d \in Stored' => d \in Stored
  BY <1>3 DEF Stored, Live, Verified
<1>6. Quiet(r, q)
  BY <1>1, <1>2, <1>3, <1>5 DEF Quiet
<1>7. FoundInv' /\ AbsentInv' /\ TallyInv'
  BY <1>2, <1>3, <1>6, QuietTally
<1>8. CleanInv'
  <2> SUFFICES ASSUME ~messy
               PROVE  /\ ~\E x \in Requests : request'[x].pc = "insert"
                      /\ \A d, e \in Live' : d = e
    BY <1>1 DEF CleanInv
  <2>1. Live' \subseteq {r}
    BY <1>1, <1>3 DEF CleanInv, Live
  <2> QED BY <1>1, <1>2, <2>1 DEF CleanInv, Moves
<1>9. LimitCountsVerified'
  <2>1. Verified \subseteq Verified'
    BY <1>1, <1>3 DEF Verified
  <2> QED BY <1>1, <1>2, <2>1, LimitKept
<1> QED BY <1>4, <1>7, <1>8, <1>9

(* The user reads: a guess enters.                                         *)
LEMMA EnterInv ==
  ASSUME IInv, NEW r \in Requests, NEW d \in Live,
         request[r].pc = "idle", code[d].attempts < MaxAttempts,
         request' = [request EXCEPT ![r] =
                       [@ EXCEPT !.pc = "guess", !.found = d, !.seen = code[d].attempts]],
         Enter(d), UNCHANGED <<code, stamp, messy>>
  PROVE  IInv'
<1> USE DEF IInv
<1> DEFINE q == [request[r] EXCEPT !.pc = "guess", !.found = d, !.seen = code[d].attempts]
           n == tally[d].active + 1
           p == IF n > tally[d].peak THEN n ELSE tally[d].peak
           t == [tally[d] EXCEPT !.active = n, !.peak = p]
<1>1. d \in Requests /\ code[d] \in Code /\ tally[d] \in Tally
  BY DEF Live, TypeOK
<1>2. /\ q \in Request
      /\ q.pc = "guess" /\ q.found = d /\ q.answer = request[r].answer
  BY <1>1 DEF TypeOK, Request, Stages, Code
<1>3. /\ t \in Tally
      /\ t.active = tally[d].active + 1
      /\ t.peak \in Nat /\ t.peak >= t.active /\ t.peak >= tally[d].peak
      /\ t.evaluated = tally[d].evaluated /\ t.lost = tally[d].lost
  <2>1. n \in Nat /\ p \in Nat /\ p >= n /\ p >= tally[d].peak
    BY <1>1 DEF Tally
  <2>2. n = tally[d].active + 1
    OBVIOUS
  <2> HIDE DEF n, p
  <2> QED BY <1>1, <2>1, <2>2 DEF Tally
<1>4. request' = [request EXCEPT ![r] = q] /\ tally' = [tally EXCEPT ![d] = t]
  <2>1. request' = [request EXCEPT ![r] = q]
    OBVIOUS
  <2>2. tally' = [tally EXCEPT ![d] = t]
    BY <1>1 DEF Enter, Tally, TypeOK
  <2> QED BY <2>1, <2>2
<1> HIDE DEF q, n, p, t
<1>5. Moves(r, q)
  BY <1>2, <1>4, OneRequest
<1>6. /\ tally' \in [Requests -> Tally]
      /\ tally'[d] = t
      /\ \A x \in Requests \ {d} : tally'[x] = tally[x]
  BY <1>1, <1>3, <1>4 DEF TypeOK
<1>7. Live' = Live /\ Verified' = Verified /\ Stored' = Stored
  BY DEF Live, Verified, Stored
<1>8. TypeOK' /\ FoundInv'
  BY <1>1, <1>2, <1>5, <1>6 DEF TypeOK, FoundInv, Moves, Live
<1>9. AbsentInv'
  BY <1>1, <1>2, <1>3, <1>5, <1>6 DEF AbsentInv, Moves
<1>10. TallyInv'
  <2> SUFFICES ASSUME NEW x \in Requests PROVE Counted(x)'
    BY DEF TallyInv
  <2>1. Counted(x)
    BY DEF TallyInv
  <2>2. CASE x # d
    <3>1. Guessers(x)' = Guessers(x)
      BY <1>2, <1>5, <2>2 DEF Guessers, Moves
    <3> QED BY <1>6, <1>7, <2>1, <2>2, <3>1 DEF Counted
  <2>3. CASE x = d
    <3>1. Guessers(d)' = Guessers(d) \cup {r} /\ r \notin Guessers(d)
      BY <1>2, <1>5 DEF Guessers, Moves
    <3>2. Cardinality(Guessers(d)') = Cardinality(Guessers(d)) + 1
      BY <3>1, FS_AddElement, GuessersFinite
    <3>3. /\ tally[d].active = Cardinality(Guessers(d))
          /\ tally[d].evaluated <= code[d].attempts + tally[d].lost
      BY <2>1, <2>3 DEF Counted, Stored
    <3>4. /\ tally[d].active \in Nat /\ tally[d].evaluated \in Nat /\ tally[d].lost \in Nat
          /\ code[d].attempts \in Nat
      BY <1>1 DEF Tally, Code
    <3>5. /\ t.active = Cardinality(Guessers(d)')
          /\ t.active <= t.peak
          /\ t.peak # 0
          /\ t.evaluated + t.active < MaxAttempts + t.peak + t.lost
          /\ t.evaluated <= code[d].attempts + t.lost
      BY <1>3, <3>2, <3>3, <3>4, PhoneCodesAssumption
    <3> QED BY <1>6, <1>7, <2>3, <3>5 DEF Counted
  <2> QED BY <2>2, <2>3
<1>11. CleanInv'
  BY <1>2, <1>5, <1>7, CleanKept
<1>12. LimitCountsVerified'
  BY <1>2, <1>5, <1>7, LimitKept
<1> QED BY <1>8, <1>9, <1>10, <1>11, <1>12

LEMMA VerifyReadInv ==
  ASSUME IInv, NEW r \in Requests, VerifyRead(r)
  PROVE  IInv'
<1> USE DEF IInv
<1>1. request[r].pc = "idle" /\ UNCHANGED <<code, stamp, messy>>
  BY DEF VerifyRead
<1>2. CASE Goto(r, "done") /\ UNCHANGED tally
  <2>1. PICK q \in Request : Moves(r, q) /\ q.pc = "done" /\ q.answer = request[r].answer
    BY <1>2, GotoMoves DEF Stages
  <2>2. Live' = Live /\ Verified' = Verified /\ Stored' = Stored
    BY <1>1 DEF Live, Verified, Stored
  <2>3. TypeOK'
    BY <1>1, <1>2, <2>1 DEF TypeOK, Moves
  <2>4. Quiet(r, q)
    BY <1>1, <1>2, <2>1, <2>2 DEF Quiet
  <2>5. FoundInv' /\ AbsentInv' /\ TallyInv'
    BY <2>1, <2>3, <2>4, QuietTally DEF TypeOK
  <2>6. CleanInv' /\ LimitCountsVerified'
    BY <1>1, <2>1, <2>2, CleanKept, LimitKept
  <2> QED BY <2>3, <2>5, <2>6
<1>3. CASE \E d \in Live :
             /\ code[d].attempts < MaxAttempts
             /\ request' = [request EXCEPT ![r] =
                              [@ EXCEPT !.pc = "guess", !.found = d, !.seen = code[d].attempts]]
             /\ Enter(d)
  BY <1>1, <1>3, EnterInv
<1> QED BY <1>2, <1>3 DEF VerifyRead

LEMMA VerifyCountInv ==
  ASSUME IInv, NEW r \in Requests, VerifyCount(r)
  PROVE  IInv'
<1> USE DEF IInv
<1>1. request[r].pc = "guess" /\ UNCHANGED <<stamp, messy>>
  BY DEF VerifyCount
<1>d. PICK d \in Requests : d = request[r].found
  BY <1>1 DEF FoundInv
<1>2. code[d].state # "absent" /\ code[d] \in Code /\ tally[d] \in Tally
  BY <1>1, <1>d DEF FoundInv, TypeOK
<1>3. PICK counted \in BOOLEAN :
        /\ code' = [code EXCEPT ![d].attempts =
                      IF counted /\ d \in Stored THEN Incremented(r, @) ELSE @]
        /\ tally' = [tally EXCEPT ![d].active = @ - 1, ![d].evaluated = @ + 1,
                                  ![d].lost = IF counted THEN @ ELSE @ + 1]
  BY <1>d DEF VerifyCount
<1>4. PICK q \in Request :
        /\ Moves(r, q)
        /\ q.pc \in {"mark", "done"} /\ q.found = d /\ q.answer = request[r].answer
  BY <1>d, GotoMoves DEF VerifyCount, Stages
<1>5. /\ r \in Guessers(d)
      /\ tally[d].active = Cardinality(Guessers(d))
      /\ tally[d].active \in Nat /\ tally[d].active >= 1
  <2>1. r \in Guessers(d)
    BY <1>1, <1>d DEF Guessers
  <2>2. tally[d].active = Cardinality(Guessers(d))
    BY <1>2 DEF TallyInv, Counted
  <2>3. IsFiniteSet(Guessers(d)) /\ Cardinality(Guessers(d)) \in Nat
    BY GuessersFinite
  <2>4. Cardinality(Guessers(d)) # 0
    BY <2>1, <2>3, FS_EmptySet
  <2> QED BY <2>1, <2>2, <2>3, <2>4
<1> DEFINE lost == IF counted THEN tally[d].lost ELSE tally[d].lost + 1
           attempts == IF counted /\ d \in Stored THEN code[d].attempts + 1
                                                 ELSE code[d].attempts
           t == [tally[d] EXCEPT !.active = @ - 1, !.evaluated = @ + 1, !.lost = lost]
           c == [code[d] EXCEPT !.attempts = attempts]
<1>6. /\ t \in Tally
      /\ t.active = tally[d].active - 1 /\ t.evaluated = tally[d].evaluated + 1
      /\ t.peak = tally[d].peak
      /\ t.lost = lost
  <2>1. lost \in Nat
    BY <1>2 DEF Tally
  <2> HIDE DEF lost
  <2>2. /\ tally[d].active - 1 \in Nat
        /\ tally[d].evaluated + 1 \in Nat
    BY <1>2, <1>5 DEF Tally
  <2> QED BY <1>2, <2>1, <2>2 DEF Tally
<1>7. /\ c \in Code
      /\ c.state = code[d].state
      /\ c.attempts = attempts
  <2>1. attempts \in Nat
    BY <1>2 DEF Code
  <2> HIDE DEF attempts
  <2> QED BY <1>2, <2>1 DEF Code
<1>8. code' = [code EXCEPT ![d] = c] /\ tally' = [tally EXCEPT ![d] = t]
  <2>1. code' = [code EXCEPT ![d] = c]
    BY <1>3 DEF Incremented
  <2>2. tally' = [tally EXCEPT ![d] = t]
    BY <1>2, <1>3 DEF Tally, TypeOK
  <2> QED BY <2>1, <2>2
<1> HIDE DEF t, c
<1>9. /\ tally' \in [Requests -> Tally]
      /\ tally'[d] = t
      /\ \A x \in Requests \ {d} : tally'[x] = tally[x]
      /\ code' \in [Requests -> Code]
      /\ code'[d] = c
      /\ \A x \in Requests \ {d} : code'[x] = code[x]
  BY <1>2, <1>6, <1>7, <1>8 DEF TypeOK
<1>10. /\ \A x \in Requests : code'[x].state = code[x].state
       /\ Live' = Live /\ Verified' = Verified /\ Stored' = Stored
  <2>1. \A x \in Requests : code'[x].state = code[x].state
    BY <1>7, <1>9
  <2> QED BY <2>1 DEF Live, Verified, Stored
<1>11. TypeOK'
  BY <1>1, <1>4, <1>9 DEF TypeOK, Moves
<1>12. FoundInv'
  BY <1>1, <1>2, <1>4, <1>10 DEF FoundInv, Moves
<1>13. AbsentInv'
  BY <1>1, <1>2, <1>4, <1>9, <1>10 DEF AbsentInv, Moves
<1>14. TallyInv'
  <2> SUFFICES ASSUME NEW x \in Requests PROVE Counted(x)'
    BY DEF TallyInv
  <2>1. Counted(x)
    BY DEF TallyInv
  <2>2. CASE x # d
    <3>1. Guessers(x)' = Guessers(x)
      BY <1>1, <1>d, <1>4, <2>2 DEF Guessers, Moves
    <3> QED BY <1>9, <1>10, <2>1, <2>2, <3>1 DEF Counted
  <2>3. CASE x = d
    <3>1. Guessers(d)' = Guessers(d) \ {r}
      BY <1>4 DEF Guessers, Moves
    <3>2. Cardinality(Guessers(d)') = Cardinality(Guessers(d)) - 1
      BY <1>5, <3>1, FS_RemoveElement, GuessersFinite
    <3>3. /\ tally[d].active <= tally[d].peak
          /\ tally[d].peak # 0 =>
               tally[d].evaluated + tally[d].active < MaxAttempts + tally[d].peak + tally[d].lost
          /\ d \in Stored => tally[d].evaluated <= code[d].attempts + tally[d].lost
      BY <2>1, <2>3 DEF Counted
    <3>4. /\ tally[d].active \in Nat /\ tally[d].evaluated \in Nat /\ tally[d].lost \in Nat
          /\ tally[d].peak \in Nat /\ code[d].attempts \in Nat
      BY <1>2 DEF Tally, Code
    <3>5. /\ t.active = Cardinality(Guessers(d)')
          /\ t.active <= t.peak
          /\ t.peak # 0
          /\ t.evaluated + t.active < MaxAttempts + t.peak + t.lost
      BY <1>5, <1>6, <3>2, <3>3, <3>4, PhoneCodesAssumption
    <3>6. d \in Stored => t.evaluated <= c.attempts + t.lost
      BY <1>6, <1>7, <3>3, <3>4
    <3>7. (tally[d].active = Cardinality(Guessers(d)))'
      BY <1>9, <3>5
    <3> QED BY <1>9, <1>10, <2>3, <3>5, <3>6, <3>7 DEF Counted
  <2> QED BY <2>2, <2>3
<1>15. CleanInv' /\ LimitCountsVerified'
  BY <1>1, <1>4, <1>10, CleanKept, LimitKept
<1> QED BY <1>11, <1>12, <1>13, <1>14, <1>15

LEMMA VerifyMarkInv ==
  ASSUME IInv, NEW r \in Requests, VerifyMark(r)
  PROVE  IInv'
<1> USE DEF IInv
<1> DEFINE d == request[r].found
<1>1. request[r].pc = "mark" /\ UNCHANGED <<stamp, tally, messy>>
  BY DEF VerifyMark
<1>2. d \in Requests /\ code[d].state # "absent" /\ code[d] \in Code
  BY <1>1 DEF FoundInv, TypeOK
<1>3. PICK q \in Request :
        Moves(r, q) /\ q.pc = "done" /\ (q.answer = "limited" => request[r].answer = "limited")
  <2>1. CASE Finish(r, "ok")
    BY <2>1, FinishMoves
  <2>2. CASE Goto(r, "done")
    BY <2>2, GotoMoves DEF Stages
  <2> QED BY <2>1, <2>2 DEF VerifyMark
<1>4. /\ code' \in [Requests -> Code]
      /\ \A x \in Requests : code'[x].attempts = code[x].attempts
      /\ \A x \in Requests :
           code'[x].state = code[x].state \/ (x \in Stored /\ code'[x].state = "verified")
  <2>1. CASE UNCHANGED code
    BY <2>1 DEF TypeOK
  <2>2. CASE code' = [code EXCEPT ![d].state = IF d \in Stored THEN "verified" ELSE @]
    <3> DEFINE c == [code[d] EXCEPT !.state = IF d \in Stored THEN "verified" ELSE @]
    <3>1. /\ c \in Code /\ c.attempts = code[d].attempts
          /\ c.state = code[d].state \/ (d \in Stored /\ c.state = "verified")
      BY <1>2 DEF Code
    <3>2. code' = [code EXCEPT ![d] = c]
      BY <2>2
    <3> HIDE DEF c, d
    <3> QED BY <1>2, <3>1, <3>2 DEF TypeOK
  <2> QED BY <2>1, <2>2 DEF VerifyMark
<1> HIDE DEF d
<1>5. /\ Live' \subseteq Live /\ Verified \subseteq Verified' /\ Stored' \subseteq Stored
      /\ \A x \in Requests : code'[x].state = "absent" <=> code[x].state = "absent"
  BY <1>4 DEF Live, Verified, Stored
<1>6. TypeOK'
  BY <1>1, <1>3, <1>4 DEF TypeOK, Moves
<1>7. Quiet(r, q)
  BY <1>1, <1>3, <1>4, <1>5 DEF Quiet
<1>8. FoundInv' /\ AbsentInv' /\ TallyInv'
  BY <1>3, <1>4, <1>7, QuietTally
<1>9. CleanInv' /\ LimitCountsVerified'
  BY <1>1, <1>3, <1>5, CleanKept, LimitKept
<1> QED BY <1>6, <1>8, <1>9

LEMMA ExpireInv ==
  ASSUME IInv, NEW d \in Requests, Expire(d)
  PROVE  IInv'
<1> USE DEF IInv
<1>1. UNCHANGED <<request, stamp, tally, messy>>
  BY DEF Expire
<1>2. /\ code' \in [Requests -> Code]
      /\ \A x \in Requests : code'[x].state = code[x].state /\ code'[x].attempts = code[x].attempts
  BY DEF Expire, TypeOK, Code
<1>3. Live' = Live /\ Verified' = Verified /\ Stored' = Stored
  BY <1>2 DEF Live, Verified, Stored
<1>4. \A x \in Requests : Guessers(x)' = Guessers(x)
  BY <1>1 DEF Guessers
<1>5. TypeOK' /\ FoundInv' /\ AbsentInv' /\ CleanInv' /\ LimitCountsVerified'
  BY <1>1, <1>2, <1>3 DEF TypeOK, FoundInv, AbsentInv, CleanInv, LimitCountsVerified
<1>6. TallyInv'
  BY <1>1, <1>2, <1>3, <1>4 DEF TallyInv, Counted
<1> QED BY <1>5, <1>6

LEMMA NextInv == IInv /\ [Next]_vars => IInv'
<1> SUFFICES ASSUME IInv, [Next]_vars PROVE IInv'
  OBVIOUS
<1>1. CASE UNCHANGED vars
  BY <1>1, StutterInv
<1>2. CASE Next
  <2>1. PICK r \in Requests : SendStep(r) \/ VerifyStep(r) \/ Expire(r)
    BY <1>2 DEF Next
  <2>2. CASE SendStep(r)
    BY <2>2, SendCheckInv, SendDeleteInv, SendInsertInv DEF SendStep
  <2>3. CASE VerifyStep(r)
    BY <2>3, VerifyReadInv, VerifyCountInv, VerifyMarkInv DEF VerifyStep
  <2>4. CASE Expire(r)
    BY <2>4, ExpireInv
  <2> QED BY <2>1, <2>2, <2>3, <2>4
<1> QED BY <1>1, <1>2

LEMMA Invariance == Spec => []IInv
BY InitInv, NextInv, PTL DEF Spec

------------------------------------------------------------------------------
(* PhoneCodes keeps its types.                                             *)
THEOREM TypeCorrect == Spec => []TypeOK
<1>1. IInv => TypeOK
  BY DEF IInv
<1> QED BY <1>1, Invariance, PTL

(* However many guesses interleave, a code is compared at most as often as *)
(* the limit, the overlap and the lost increments allow.                   *)
THEOREM GuessBoundHolds == Spec => []GuessBound
<1>1. IInv => GuessBound
  <2> SUFFICES ASSUME IInv, NEW d \in Requests, tally[d].evaluated > 0
               PROVE  tally[d].evaluated < MaxAttempts + tally[d].peak + tally[d].lost
    BY DEF GuessBound
  <2>1. tally[d] \in Tally /\ Counted(d)
    BY DEF IInv, TypeOK, TallyInv
  <2>2. tally[d].peak # 0
    BY <2>1 DEF Counted, Tally
  <2>3. tally[d].evaluated + tally[d].active < MaxAttempts + tally[d].peak + tally[d].lost
    BY <2>1, <2>2 DEF Counted
  <2> QED BY <2>1, <2>3, PhoneCodesAssumption DEF Tally
<1> QED BY <1>1, Invariance, PTL

(* Whatever the limit, sends one after the other are refused only to a     *)
(* user who has verified all but one of the codes it counts.               *)
THEOREM LimitCountsVerifiedHolds == Spec => []LimitCountsVerified
<1>1. IInv => LimitCountsVerified
  BY DEF IInv
<1> QED BY <1>1, Invariance, PTL

=============================================================================
