----------------------------- MODULE PhoneCodes -----------------------------
(***************************************************************************)
(* Codes sent by SMS (internal/auth: otp.go and its two handlers), of one  *)
(* user and one purpose.  Sending counts the codes of the last minutes,    *)
(* deletes the unverified ones and inserts a new one; verifying reads the  *)
(* newest code, counts the attempt and compares.  Requests run             *)
(* concurrently, every database call is a step, and a failed write may     *)
(* still have been applied.  A code's digits only matter in the            *)
(* comparison, whose result is chosen there.                               *)
(***************************************************************************)
EXTENDS Integers, FiniteSets

CONSTANTS
  Requests,        \* HTTP requests; bounds their number
  MaxAttempts,     \* otpMaxAttempts
  ResendLimit,     \* otpResendLimit
  None

ASSUME PhoneCodesAssumption ==
  /\ MaxAttempts \in Nat \ {0}
  /\ ResendLimit \in Nat \ {0}
  /\ IsFiniteSet(Requests) /\ None \notin Requests

VARIABLES
  code,            \* code[r]: the document of phone_otps that r inserted
  request,         \* request[r]: the state of request r
  stamp,           \* the last created_at given
  tally,           \* history: tally[d]: the guesses at code d
  messy            \* history: a deletion failed or overlapped with another send

vars == <<code, request, stamp, tally, messy>>

Code == [state    : {"absent", "live", "verified", "deleted"},
         created  : Nat,
         expired  : BOOLEAN,
         attempts : Nat]

Tally == [active    : Nat,     \* guesses that have read the code, not yet counted
          peak      : Nat,     \* the most there were at a time
          evaluated : Nat,     \* guesses compared with the code
          lost      : Nat]     \* of these, increments that failed

Stages == {"idle", "delete", "insert", "guess", "mark", "done"}

Request == [pc      : Stages,
            created : Nat,                  \* of the code to insert
            found   : Requests \cup {None}, \* the code read
            seen    : Nat,                  \* its attempts
            answer  : {"none", "limited", "ok"}]   \* none: not yet, or a failure

TypeOK ==
  /\ code \in [Requests -> Code]
  /\ request \in [Requests -> Request]
  /\ stamp \in Nat
  /\ tally \in [Requests -> Tally]
  /\ messy \in BOOLEAN

------------------------------------------------------------------------------
Goto(r, stage) == request' = [request EXCEPT ![r].pc = stage]

Finish(r, answer) ==
  request' = [request EXCEPT ![r] = [@ EXCEPT !.pc = "done", !.answer = answer]]

Live == {d \in Requests : code[d].state = "live"}

Verified == {d \in Requests : code[d].state = "verified"}

Stored == Live \cup Verified

------------------------------------------------------------------------------
(* HandleSendOTP: CheckPhoneOTPRateLimit, then GeneratePhoneOTP. *)

(* The codes of the last fifteen minutes are counted; the query may fail.  *)
SendCheck(r) ==
  /\ request[r].pc = "idle"
  /\ \/ \E recent \in SUBSET Stored :
          IF Cardinality(recent) >= ResendLimit THEN Finish(r, "limited") ELSE Goto(r, "delete")
     \/ Goto(r, "done")
  /\ UNCHANGED <<code, stamp, tally, messy>>

(* Mutation: old codes stay. *)
SendDelete_KeepsOld(r) ==
  /\ request[r].pc = "delete"
  /\ messy' = (messy \/ \E x \in Requests : request[x].pc = "insert")
  /\ Goto(r, "insert")
  /\ UNCHANGED <<code, stamp, tally>>

(* The unverified codes are deleted, an error is only logged; the new one  *)
(* is stamped, perhaps with the time of another.                           *)
SendDelete(r) ==
  /\ request[r].pc = "delete"
  /\ \/ /\ code' = [d \in Requests |->
                      IF d \in Live THEN [code[d] EXCEPT !.state = "deleted"] ELSE code[d]]
        /\ messy' = (messy \/ \E x \in Requests : request[x].pc = "insert")
     \/ messy' = TRUE /\ UNCHANGED code
  /\ stamp' \in {stamp, stamp + 1}
  /\ request' = [request EXCEPT ![r] = [@ EXCEPT !.pc = "insert", !.created = stamp']]
  /\ UNCHANGED tally

(* Mutation: attempts are counted down from the limit. *)
SendInsert_CountsDown(r) ==
  /\ request[r].pc = "insert"
  /\ code' = [code EXCEPT ![r] = [state |-> "live", created |-> request[r].created,
                                  expired |-> FALSE, attempts |-> 0 - MaxAttempts]]
  /\ Goto(r, "done")
  /\ UNCHANGED <<stamp, tally, messy>>

SendInsert(r) ==
  /\ request[r].pc = "insert"
  /\ \/ code' = [code EXCEPT ![r] = [state |-> "live", created |-> request[r].created,
                                     expired |-> FALSE, attempts |-> 0]]
     \/ UNCHANGED code
  /\ Goto(r, "done")
  /\ UNCHANGED <<stamp, tally, messy>>

------------------------------------------------------------------------------
(* HandleVerifyOTP: VerifyPhoneOTP. *)

(* History: one more guess is between its read and its count. *)
Enter(d) ==
  LET n == tally[d].active + 1 IN
  tally' = [tally EXCEPT ![d].active = n, ![d].peak = IF n > @ THEN n ELSE @]

(* The code created last is read: it must be live, not expired, and below  *)
(* the limit of attempts.                                                  *)
VerifyRead(r) ==
  /\ request[r].pc = "idle"
  /\ \/ Goto(r, "done") /\ UNCHANGED tally         \* refused, or the query failed
     \/ \E d \in Live :
          /\ \A x \in Stored : code[x].created <= code[d].created
          /\ ~code[d].expired
          /\ code[d].attempts < MaxAttempts
          /\ request' = [request EXCEPT ![r] =
                           [@ EXCEPT !.pc = "guess", !.found = d, !.seen = code[d].attempts]]
          /\ Enter(d)
  /\ UNCHANGED <<code, stamp, messy>>

(* Mutation: the counter is written from the value read. *)
Incremented_FromRead(r, attempts) == request[r].seen + 1

Incremented(r, attempts) == attempts + 1

(* The attempt is counted, by an update that matches nothing if the code   *)
(* is gone and whose error is only logged; then the codes are compared.    *)
VerifyCount(r) ==
  LET d == request[r].found IN
  /\ request[r].pc = "guess"
  /\ \E counted \in BOOLEAN :
       /\ code' = [code EXCEPT ![d].attempts =
                     IF counted /\ d \in Stored THEN Incremented(r, @) ELSE @]
       /\ tally' = [tally EXCEPT ![d].active = @ - 1, ![d].evaluated = @ + 1,
                                 ![d].lost = IF counted THEN @ ELSE @ + 1]
  /\ \E stage \in {"mark", "done"} : Goto(r, stage)
  /\ UNCHANGED <<stamp, messy>>

(* The code is marked by id, unconditionally; an error is answered. *)
VerifyMark(r) ==
  LET d == request[r].found IN
  /\ request[r].pc = "mark"
  /\ \/ /\ code' = [code EXCEPT ![d].state = IF d \in Stored THEN "verified" ELSE @]
        /\ Finish(r, "ok") \/ Goto(r, "done")
     \/ UNCHANGED code /\ Goto(r, "done")
  /\ UNCHANGED <<stamp, tally, messy>>

------------------------------------------------------------------------------
(* Five minutes pass for a code. *)
Expire(d) ==
  /\ code[d].state = "live"
  /\ ~code[d].expired
  /\ code' = [code EXCEPT ![d].expired = TRUE]
  /\ UNCHANGED <<request, stamp, tally, messy>>

Init ==
  /\ code = [r \in Requests |-> [state |-> "absent", created |-> 0, expired |-> FALSE,
                                 attempts |-> 0]]
  /\ request = [r \in Requests |-> [pc |-> "idle", created |-> 0, found |-> None, seen |-> 0,
                                    answer |-> "none"]]
  /\ stamp = 0
  /\ tally = [r \in Requests |-> [active |-> 0, peak |-> 0, evaluated |-> 0, lost |-> 0]]
  /\ messy = FALSE

SendStep(r) == SendCheck(r) \/ SendDelete(r) \/ SendInsert(r)

VerifyStep(r) == VerifyRead(r) \/ VerifyCount(r) \/ VerifyMark(r)

Next == \E r \in Requests : SendStep(r) \/ VerifyStep(r) \/ Expire(r)

Spec == Init /\ [][Next]_vars

------------------------------------------------------------------------------
(* Properties. *)

(* Attempts are compared with the limit before they are counted, so that   *)
(* concurrent guesses pass together: a code can be guessed as often as the *)
(* limit says plus once for each further guess that was under way at the   *)
(* same time, and for each increment that failed, and no more, however the *)
(* guesses interleave with each other and with new codes (otp.go:86-96).   *)
GuessBound ==
  \A d \in Requests :
    tally[d].evaluated > 0
      => tally[d].evaluated < MaxAttempts + tally[d].peak + tally[d].lost

(* Codes sent one after the other replace each other, so that the resend   *)
(* limit refuses only a user who has verified all but one of the codes it  *)
(* counts, unless sends overlapped or a deletion failed                    *)
(* (otp.go:36-38, 109-121).                                                *)
LimitCountsVerified ==
  (\E r \in Requests : request[r].answer = "limited") /\ ~messy
    => Cardinality(Verified) + 1 >= ResendLimit
==============================================================================
