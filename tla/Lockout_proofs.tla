--------------------------- MODULE Lockout_proofs ---------------------------
(***************************************************************************)
(* Proofs about Lockout, for any logins, limits and clock bound.           *)
(***************************************************************************)
EXTENDS Lockout, TLAPS

(* A counter, stored or read, that was not carried over a right password   *)
(* never exceeds the wrong passwords in a row so far.                      *)
CounterInv ==
  /\ carried \/ failed <= failures
  /\ \A a \in Attempts :
       attempt[a].pc = "checked" => attempt[a].carried \/ attempt[a].seen <= failures

(* A login that is past the gate saw no lock that is still running, unless *)
(* the lock was written after it had read the user.                        *)
GateInv ==
  \A a \in Attempts :
    attempt[a].pc = "checked" => attempt[a].locks < locks \/ (attempt[a].locks = locks /\ ~Locked)

(* The stored counter covers the failures since the last reset, unless one *)
(* was missed; and a counter at the limit was written with the lock.       *)
CoverInv ==
  /\ missed \/ failures <= failed
  /\ failed >= MaxAttempts => lockedUntil # 0

IInv == TypeOK /\ CounterInv /\ GateInv /\ CoverInv

LEMMA InitInv == Init => IInv
<1> SUFFICES ASSUME Init PROVE IInv
  OBVIOUS
<1>1. TypeOK
  <2>1. attempt \in [Attempts -> Attempt]
    BY DEF Init, Attempt
  <2>2. missed \in BOOLEAN /\ carried \in BOOLEAN
    BY DEF Init
  <2> QED BY <2>1, <2>2 DEF Init, TypeOK
<1>2. CounterInv /\ GateInv
  BY DEF Init, CounterInv, GateInv
<1>3. CoverInv
  BY LockoutAssumption DEF Init, CoverInv
<1> QED BY <1>1, <1>2, <1>3 DEF IInv

(* Answering ends one login and leaves the others alone.                   *)
LEMMA AnswerEnds ==
  ASSUME TypeOK, NEW a \in Attempts,
         NEW answer \in {"ok", "invalid", "locked", "internal"}, Answer(a, answer)
  PROVE  /\ attempt' \in [Attempts -> Attempt]
         /\ attempt'[a].pc = "done"
         /\ \A x \in Attempts \ {a} : attempt'[x] = attempt[x]
<1> DEFINE rec == [attempt[a] EXCEPT !.pc = "done", !.answer = answer]
<1>1. rec \in Attempt /\ rec.pc = "done"
  BY DEF TypeOK, Attempt
<1>2. attempt' = [attempt EXCEPT ![a] = rec]
  BY DEF Answer
<1> HIDE DEF rec
<1> QED BY <1>1, <1>2 DEF TypeOK

(* A right password ends one login, and leaves of the others all but       *)
(* whether the counter they read is carried over it.                       *)
LEMMA EndRowEnds ==
  ASSUME TypeOK, NEW a \in Attempts, NEW answer \in {"ok", "internal"}, EndRow(a, answer)
  PROVE  /\ attempt' \in [Attempts -> Attempt]
         /\ attempt'[a].pc = "done"
         /\ \A x \in Attempts \ {a} :
              /\ attempt'[x].pc = attempt[x].pc
              /\ attempt'[x].seen = attempt[x].seen
              /\ attempt'[x].locks = attempt[x].locks
              /\ attempt[x].pc = "checked" /\ attempt[x].seen # 0 => attempt'[x].carried
<1> DEFINE rec(x) == IF x = a THEN [attempt[x] EXCEPT !.pc = "done", !.answer = answer]
                     ELSE IF attempt[x].pc = "checked"
                       THEN [attempt[x] EXCEPT !.carried = @ \/ attempt[x].seen # 0]
                     ELSE attempt[x]
<1>1. rec(a) \in Attempt /\ rec(a).pc = "done"
  BY DEF TypeOK, Attempt
<1>2. ASSUME NEW x \in Attempts \ {a}
      PROVE  /\ rec(x) \in Attempt
             /\ rec(x).pc = attempt[x].pc
             /\ rec(x).seen = attempt[x].seen
             /\ rec(x).locks = attempt[x].locks
             /\ attempt[x].pc = "checked" /\ attempt[x].seen # 0 => rec(x).carried
  BY DEF TypeOK, Attempt
<1>3. attempt' = [x \in Attempts |-> rec(x)]
  BY DEF EndRow
<1> HIDE DEF rec
<1> QED BY <1>1, <1>2, <1>3

LEMMA ReadUserInv == ASSUME IInv, NEW a \in Attempts, ReadUser(a) PROVE IInv'
<1> USE DEF IInv
<1>1. UNCHANGED <<now, failed, lockedUntil, failures, carried, locks, missed>>
  BY DEF ReadUser
<1>0. CoverInv'
  BY <1>1 DEF CoverInv
<1>2. ASSUME NEW answer \in {"locked", "internal"}, Answer(a, answer) PROVE IInv'
  <2>1. /\ attempt' \in [Attempts -> Attempt] /\ attempt'[a].pc = "done"
        /\ \A x \in Attempts \ {a} : attempt'[x] = attempt[x]
    BY <1>2, AnswerEnds
  <2>2. TypeOK'
    BY <1>1, <2>1 DEF TypeOK
  <2>3. CounterInv' /\ GateInv'
    BY <1>1, <2>1 DEF CounterInv, GateInv, Locked
  <2> QED BY <1>0, <2>2, <2>3
<1>3. CASE ~Locked /\ PassGate(a)
  <2> DEFINE rec == [attempt[a] EXCEPT !.pc = "checked", !.seen = failed,
                                       !.carried = carried, !.locks = locks]
  <2>1. /\ rec \in Attempt /\ rec.pc = "checked" /\ rec.seen = failed
        /\ rec.carried = carried /\ rec.locks = locks
    BY DEF TypeOK, Attempt
  <2>2. attempt' = [attempt EXCEPT ![a] = rec]
    BY <1>3 DEF PassGate
  <2> HIDE DEF rec
  <2>3. /\ attempt' \in [Attempts -> Attempt] /\ attempt'[a] = rec
        /\ \A x \in Attempts \ {a} : attempt'[x] = attempt[x]
    BY <2>1, <2>2 DEF TypeOK
  <2>4. TypeOK'
    BY <1>1, <2>3 DEF TypeOK
  <2>5. CounterInv'
    BY <1>1, <2>1, <2>3 DEF CounterInv
  <2>6. GateInv'
    BY <1>1, <1>3, <2>1, <2>3 DEF GateInv, Locked
  <2> QED BY <1>0, <2>4, <2>5, <2>6
<1> QED BY <1>2, <1>3 DEF ReadUser

LEMMA WrongPasswordInv == ASSUME IInv, NEW a \in Attempts, WrongPassword(a) PROVE IInv'
<1> USE DEF IInv
<1>1. /\ attempt' \in [Attempts -> Attempt] /\ attempt'[a].pc = "done"
      /\ \A x \in Attempts \ {a} : attempt'[x] = attempt[x]
  BY AnswerEnds DEF WrongPassword
<1>2. /\ attempt[a].pc = "checked" /\ attempt[a].seen \in Nat
      /\ attempt[a].carried \in BOOLEAN /\ (attempt[a].carried \/ attempt[a].seen <= failures)
      /\ failures' = failures + 1 /\ UNCHANGED now
  BY DEF WrongPassword, CounterInv, TypeOK, Attempt
<1>3. \/ /\ failed' = attempt[a].seen + 1 /\ missed' = (missed \/ attempt[a].seen < failed)
         /\ carried' = attempt[a].carried
         /\ \/ /\ failed' >= MaxAttempts
               /\ lockedUntil' = now + LockFor /\ locks' = locks + 1
            \/ failed' < MaxAttempts /\ UNCHANGED <<lockedUntil, locks>>
      \/ missed' = TRUE /\ UNCHANGED <<failed, lockedUntil, carried, locks>>
  BY <1>2, LockoutAssumption DEF WrongPassword
<1>4. TypeOK'
  <2>1. missed' \in BOOLEAN /\ carried' \in BOOLEAN
    BY <1>1, <1>2, <1>3, LockoutAssumption DEF TypeOK
  <2>2. failed' \in Nat /\ lockedUntil' \in Nat /\ locks' \in Nat
    BY <1>1, <1>2, <1>3, LockoutAssumption DEF TypeOK
  <2> QED BY <1>1, <1>2, <2>1, <2>2 DEF TypeOK
<1>5. CounterInv'
  BY <1>1, <1>2, <1>3 DEF CounterInv, TypeOK, Attempt
<1>7. GateInv'
  BY <1>1, <1>2, <1>3 DEF GateInv, Locked, TypeOK, Attempt
<1>8. CoverInv'
  <2>1. failed' >= MaxAttempts => lockedUntil' # 0
    BY <1>2, <1>3, LockoutAssumption DEF CoverInv, TypeOK
  <2>2. missed' \/ failures' <= failed'
    <3>1. CASE missed'
      BY <3>1
    <3>2. CASE ~missed'
      <4>1. ~missed /\ ~(attempt[a].seen < failed) /\ failed' = attempt[a].seen + 1
        BY <1>3, <3>2
      <4> QED BY <1>2, <4>1 DEF CoverInv, TypeOK
    <3> QED BY <3>1, <3>2
  <2> QED BY <2>1, <2>2 DEF CoverInv
<1> QED BY <1>4, <1>5, <1>7, <1>8

LEMMA RightPasswordInv == ASSUME IInv, NEW a \in Attempts, RightPassword(a) PROVE IInv'
<1> USE DEF IInv
<1>1. /\ attempt' \in [Attempts -> Attempt] /\ attempt'[a].pc = "done"
      /\ \A x \in Attempts \ {a} :
           /\ attempt'[x].pc = attempt[x].pc
           /\ attempt'[x].seen = attempt[x].seen
           /\ attempt'[x].locks = attempt[x].locks
           /\ attempt[x].pc = "checked" /\ attempt[x].seen # 0 => attempt'[x].carried
  BY EndRowEnds DEF RightPassword
<1>2. /\ failures' = 0 /\ missed' = FALSE /\ UNCHANGED <<now, locks>>
      /\ \/ failed' = 0 /\ lockedUntil' = 0 /\ carried' = FALSE
         \/ carried' = (failed # 0) /\ UNCHANGED <<failed, lockedUntil>>
  BY DEF RightPassword
<1>3. TypeOK'
  <2>1. missed' \in BOOLEAN /\ carried' \in BOOLEAN
    BY <1>1, <1>2 DEF TypeOK
  <2>2. failed' \in Nat /\ lockedUntil' \in Nat /\ locks' \in Nat
    BY <1>1, <1>2 DEF TypeOK
  <2> QED BY <1>1, <1>2, <2>1, <2>2 DEF TypeOK
<1>4. CounterInv'
  <2>1. carried' \/ failed' <= failures'
    <3>1. CASE failed' = 0
      BY <1>2, <3>1
    <3>2. CASE failed' # 0
      BY <1>2, <3>2
    <3> QED BY <3>1, <3>2
  <2>2. ASSUME NEW x \in Attempts, attempt'[x].pc = "checked"
        PROVE  attempt'[x].carried \/ attempt'[x].seen <= failures'
    BY <1>1, <1>2, <2>2 DEF TypeOK, Attempt
  <2> QED BY <2>1, <2>2 DEF CounterInv
<1>5. GateInv'
  BY <1>1, <1>2 DEF GateInv, Locked, TypeOK
<1>6. CoverInv'
  BY <1>2, LockoutAssumption DEF CoverInv, TypeOK
<1> QED BY <1>3, <1>4, <1>5, <1>6

LEMMA NextInv == IInv /\ [Next]_vars => IInv'
<1> SUFFICES ASSUME IInv, [Next]_vars PROVE IInv'
  OBVIOUS
<1>1. CASE Tick
  <2>1. TypeOK'
    BY <1>1 DEF IInv, TypeOK, Tick
  <2>2. CounterInv' /\ GateInv' /\ CoverInv'
    BY <1>1 DEF IInv, TypeOK, Tick, CounterInv, GateInv, Locked, CoverInv
  <2> QED BY <2>1, <2>2 DEF IInv
<1>2. ASSUME NEW a \in Attempts, LoginStep(a) PROVE IInv'
  BY <1>2, ReadUserInv, WrongPasswordInv, RightPasswordInv DEF LoginStep
<1>3. CASE UNCHANGED vars
  BY <1>3 DEF vars, IInv, TypeOK, CounterInv, GateInv, Locked, CoverInv
<1> QED BY <1>1, <1>2, <1>3 DEF Next

LEMMA Invariance == Spec => []IInv
<1> QED BY InitInv, NextInv, PTL DEF Spec

(* The state is well typed, for any logins and limits.                     *)
THEOREM TypeCorrect == Spec => []TypeOK
<1>1. IInv => TypeOK
  BY DEF IInv
<1> QED BY <1>1, Invariance, PTL

(* A lock is written after MaxAttempts wrong passwords in a row, or from a *)
(* counter carried over a right one.                                       *)
THEOREM LockedOnlyAfterARowHolds == Spec => LockedOnlyAfterARow
<1> DEFINE AfterARow == locks' # locks => failures' >= MaxAttempts \/ carried'
<1>1. ASSUME IInv, Next PROVE AfterARow
  <2> SUFFICES ASSUME locks' # locks PROVE failures' >= MaxAttempts \/ carried'
    OBVIOUS
  <2>1. PICK a \in Attempts : WrongPassword(a)
    BY <1>1 DEF Next, Tick, LoginStep, ReadUser, RightPassword
  <2>2. /\ attempt[a].pc = "checked" /\ attempt[a].seen \in Nat /\ failures \in Nat
        /\ carried' = attempt[a].carried /\ failures' = failures + 1
        /\ attempt[a].seen + 1 >= MaxAttempts
    BY <1>1, <2>1 DEF WrongPassword, IInv, TypeOK, Attempt
  <2>3. attempt[a].carried \/ attempt[a].seen <= failures
    BY <1>1, <2>2 DEF IInv, CounterInv
  <2> QED BY <2>2, <2>3, LockoutAssumption
<1>2. IInv /\ [Next]_vars => [AfterARow]_vars
  BY <1>1
<1> QED BY <1>2, Invariance, PTL DEF Spec, LockedOnlyAfterARow

(* MaxAttempts failures that were all counted leave the account locked.    *)
THEOREM LockedUnlessMissedHolds == Spec => []LockedUnlessMissed
<1>1. IInv => LockedUnlessMissed
  BY LockoutAssumption DEF IInv, TypeOK, CoverInv, LockedUnlessMissed
<1> QED BY <1>1, Invariance, PTL

(* Only a login that was past the gate before it can lift a running lock.  *)
THEOREM LiftedOnlyByEarlierLoginHolds == Spec => LiftedOnlyByEarlierLogin
<1> DEFINE Lifted == Locked /\ lockedUntil' = 0
                     => \E a \in Attempts : /\ attempt[a].pc = "checked"
                                            /\ attempt'[a].pc = "done"
                                            /\ attempt[a].right
                                            /\ attempt[a].locks < locks
<1>1. ASSUME IInv, Next PROVE Lifted
  <2> SUFFICES ASSUME Locked, lockedUntil' = 0
               PROVE  \E a \in Attempts : /\ attempt[a].pc = "checked"
                                          /\ attempt'[a].pc = "done"
                                          /\ attempt[a].right
                                          /\ attempt[a].locks < locks
    OBVIOUS
  <2>1. lockedUntil # 0 /\ now \in Nat /\ lockedUntil \in Nat
    BY <1>1 DEF Locked, IInv, TypeOK
  <2>2. PICK a \in Attempts : WrongPassword(a) \/ RightPassword(a)
    BY <1>1, <2>1 DEF Next, Tick, LoginStep, ReadUser
  <2>3. ~WrongPassword(a)
    BY <2>1, LockoutAssumption DEF WrongPassword
  <2>4. RightPassword(a)
    BY <2>2, <2>3
  <2>5. attempt'[a].pc = "done"
    BY <1>1, <2>4, EndRowEnds DEF RightPassword, IInv
  <2> QED BY <1>1, <2>4, <2>5 DEF RightPassword, IInv, GateInv
<1>2. IInv /\ [Next]_vars => [Lifted]_vars
  BY <1>1
<1> QED BY <1>2, Invariance, PTL DEF Spec, LiftedOnlyByEarlierLogin
==============================================================================
