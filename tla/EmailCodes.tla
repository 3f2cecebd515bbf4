----------------------------- MODULE EmailCodes -----------------------------
(***************************************************************************)
(* Six-digit codes sent by email (internal/auth: email_verify.go,          *)
(* password.go and their handlers).  A verification code makes the account *)
(* verified, a reset code sets a password; each kind has a collection with *)
(* a unique index on the code's hash, shared by all users, and a code is   *)
(* looked up by its value alone.  A new code deletes the unused codes of   *)
(* its user and kind, so that values come back.  Requests run concurrently,*)
(* every database call is a step, and a failed write may still have been   *)
(* applied.  What a password reset does to sessions is in Sessions.        *)
(*                                                                         *)
(* A document is named by the request that inserted it; its user and kind  *)
(* are the request's.                                                      *)
(***************************************************************************)
EXTENDS Integers, FiniteSets

CONSTANTS
  Users,
  Codes,          \* values a code can have; bounds their number
  Requests,       \* HTTP requests; bounds their number
  ResendLimit,    \* verification codes in an hour
  None

ASSUME EmailCodesAssumption ==
  /\ ResendLimit \in Nat /\ ResendLimit >= 2
  /\ IsFiniteSet(Requests) /\ None \notin Requests

VARIABLES
  account,        \* account[u]
  code,           \* code[r]: the document that request r inserted
  request,        \* request[r]: the state of request r
  messy           \* history: messy[u]: a deletion of verification codes of u
                  \* failed or overlapped with another generation

vars == <<account, code, request, messy>>

Kinds == {"verify", "reset"}

Code == [state   : {"absent", "live", "spent", "deleted"},   \* spent: verified_at, used_at
         value   : Codes,
         expired : BOOLEAN,
         sent    : BOOLEAN]      \* the email was delivered

Stages == {"idle",
           "count", "delete", "insert",      \* a code is generated
           "lookup", "mark", "apply",        \* a code is presented
           "done"}

Request == [pc     : Stages,
            kind   : Kinds,
            user   : Users,                  \* of the code to generate
            value  : Codes,                  \* presented
            holds  : Requests \cup {None},   \* the email it comes from, None for a guess
            stale  : BOOLEAN,                \* history: that code was no longer live
            found  : Requests \cup {None},   \* the document the lookup returned
            answer : {"none", "limited", "lost", "ok"}]

TypeOK ==
  /\ account \in [Users -> {"absent", "unverified", "verified"}]
  /\ code \in [Requests -> Code]
  /\ request \in [Requests -> Request]
  /\ messy \in [Users -> BOOLEAN]

------------------------------------------------------------------------------
Goto(r, stage) == request' = [request EXCEPT ![r].pc = stage]

Finish(r, answer) ==
  request' = [request EXCEPT ![r] = [@ EXCEPT !.pc = "done", !.answer = answer]]

Begin(r, stage, kind, u) ==
  /\ request[r].pc = "idle"
  /\ request' = [request EXCEPT ![r] = [@ EXCEPT !.pc = stage, !.kind = kind, !.user = u]]

(* The documents of a kind that are stored, and those of one user. *)
Stored(kind) == {d \in Requests : request[d].kind = kind /\ code[d].state \in {"live", "spent"}}

StoredOf(kind, u) == {d \in Stored(kind) : request[d].user = u}

------------------------------------------------------------------------------
(* Generating a code. *)

(* Registration inserts the account and sends its first code. *)
Register(r) ==
  \E u \in Users :
    /\ account[u] = "absent"
    /\ account' = [account EXCEPT ![u] = "unverified"]
    /\ Begin(r, "delete", "verify", u)
    /\ UNCHANGED <<code, messy>>

(* Both resend handlers read the user and go on if it is unverified. *)
Resend(r) ==
  \E u \in Users :
    /\ account[u] = "unverified"
    /\ Begin(r, "count", "verify", u)
    /\ UNCHANGED <<account, code, messy>>

(* Documents of the last hour count, used or not; the query may fail. *)
ResendCount(r) ==
  /\ request[r].pc = "count"
  /\ \/ \E recent \in SUBSET StoredOf("verify", request[r].user) :
          IF Cardinality(recent) >= ResendLimit THEN Finish(r, "limited") ELSE Goto(r, "delete")
     \/ Goto(r, "done")
  /\ UNCHANGED <<account, code, messy>>

(* ForgotPassword reads the user by address. *)
Forgot(r) ==
  \E u \in Users :
    /\ account[u] # "absent"
    /\ Begin(r, "delete", "reset", u)
    /\ UNCHANGED <<account, code, messy>>

Unused(r) == {d \in StoredOf(request[r].kind, request[r].user) : code[d].state = "live"}

(* History: another generation for the user is past its own deletion. *)
Overlaps(r) ==
  \E x \in Requests \ {r} : /\ request[x].pc = "insert"
                            /\ request[x].kind = request[r].kind
                            /\ request[x].user = request[r].user

(* Mutation: old codes stay. *)
GenerateDelete_KeepsOld(r) ==
  /\ request[r].pc = "delete"
  /\ messy' = [messy EXCEPT ![request[r].user] = @ \/ Overlaps(r)]
  /\ Goto(r, "insert")
  /\ UNCHANGED <<account, code>>

(* The unused codes of the user are deleted, an error is only logged; for  *)
(* a verification code the user is read first, which may fail.             *)
GenerateDelete(r) ==
  /\ request[r].pc = "delete"
  /\ \/ /\ code' = [d \in Requests |->
                      IF d \in Unused(r) THEN [code[d] EXCEPT !.state = "deleted"] ELSE code[d]]
        /\ messy' = [messy EXCEPT ![request[r].user] = @ \/ Overlaps(r)]
        /\ Goto(r, "insert")
     \/ /\ messy' = [messy EXCEPT ![request[r].user] = TRUE]
        /\ Goto(r, "insert")
        /\ UNCHANGED code
     \/ /\ request[r].kind = "verify"
        /\ Goto(r, "done")
        /\ UNCHANGED <<code, messy>>
  /\ UNCHANGED account

(* Mutation: the index names the user too. *)
Insertable_PerUser(kind, u, value) == \A d \in StoredOf(kind, u) : code[d].value # value

(* The unique index on token_hash. *)
Insertable(kind, u, value) == \A d \in Stored(kind) : code[d].value # value

(* The insert fails on a value that is stored, or for another reason; after *)
(* a reported error or a failed delivery the code is stored but not sent.  *)
GenerateInsert(r) ==
  /\ request[r].pc = "insert"
  /\ \/ \E value \in Codes, sent \in BOOLEAN :
          /\ Insertable(request[r].kind, request[r].user, value)
          /\ code' = [code EXCEPT ![r] = [state |-> "live", value |-> value,
                                          expired |-> FALSE, sent |-> sent]]
     \/ UNCHANGED code
  /\ Goto(r, "done")
  /\ UNCHANGED <<account, messy>>

------------------------------------------------------------------------------
(* Presenting a code. *)

(* A client types the code of an email, or a guess. *)
Arrive(r, holds, value) ==
  /\ request[r].pc = "idle"
  /\ \E kind \in Kinds :
       /\ holds # None => /\ code[holds].sent /\ request[holds].kind = kind
                          /\ code[holds].value = value
       /\ request' = [request EXCEPT ![r] =
            [@ EXCEPT !.pc = "lookup", !.kind = kind, !.value = value, !.holds = holds,
                      !.stale = (holds # None /\ code[holds].state # "live")]]
  /\ UNCHANGED <<account, code, messy>>

(* Mutation: verified_at, used_at are not looked at. *)
Lookup_SpentAccepted(r) ==
  /\ request[r].pc = "lookup"
  /\ \/ Goto(r, "done")
     \/ \E d \in Stored(request[r].kind) :
          /\ code[d].value = request[r].value
          /\ ~code[d].expired
          /\ request' = [request EXCEPT ![r] = [@ EXCEPT !.pc = "mark", !.found = d]]
  /\ UNCHANGED <<account, code, messy>>

(* The document with that value, whoever it was sent to; refused when there *)
(* is none, when it is used or expired, and when the query fails.          *)
Lookup(r) ==
  /\ request[r].pc = "lookup"
  /\ \/ Goto(r, "done")
     \/ \E d \in Stored(request[r].kind) :
          /\ code[d].value = request[r].value
          /\ code[d].state = "live"
          /\ ~code[d].expired
          /\ request' = [request EXCEPT ![r] = [@ EXCEPT !.pc = "mark", !.found = d]]
  /\ UNCHANGED <<account, code, messy>>

(* The update by id, which matches nothing if the document is gone. *)
SetSpent(d) ==
  code' = [code EXCEPT ![d].state = IF @ = "deleted" THEN @ ELSE "spent"]

(* Mutation: the expiry is looked at after the mark. *)
Mark_ExpiryAfter(r) ==
  LET d == request[r].found IN
  /\ request[r].pc = "mark"
  /\ SetSpent(d)
  /\ Goto(r, IF code[d].expired THEN "done" ELSE "apply")
  /\ UNCHANGED <<account, messy>>

(* The code is marked unconditionally; an error, applied or not, ends the  *)
(* request.                                                                *)
Mark(r) ==
  LET d == request[r].found IN
  /\ request[r].pc = "mark"
  /\ \/ SetSpent(d) /\ Goto(r, "apply")
     \/ SetSpent(d) /\ Finish(r, "lost")
     \/ UNCHANGED code /\ Finish(r, "lost")
  /\ UNCHANGED <<account, messy>>

(* Mutation: the state written is that of a reset. *)
Updated_Reset(r) == account' = [account EXCEPT ![request[request[r].found].user] = "reset"]

(* The user of the document is verified, or gets the new password. *)
Updated(r) ==
  IF request[r].kind = "verify"
    THEN account' = [account EXCEPT ![request[request[r].found].user] = "verified"]
    ELSE UNCHANGED account

Apply(r) ==
  /\ request[r].pc = "apply"
  /\ \/ Updated(r) /\ \E answer \in {"ok", "lost"} : Finish(r, answer)
     \/ UNCHANGED account /\ Finish(r, "lost")
  /\ UNCHANGED <<code, messy>>

------------------------------------------------------------------------------
(* An hour, or a day, passes for a code. *)
Expire(d) ==
  /\ code[d].state = "live"
  /\ ~code[d].expired
  /\ code' = [code EXCEPT ![d].expired = TRUE]
  /\ UNCHANGED <<account, request, messy>>

Init ==
  /\ account = [u \in Users |-> "absent"]
  /\ \E v \in Codes, u \in Users :
       /\ code = [r \in Requests |-> [state |-> "absent", value |-> v,
                                      expired |-> FALSE, sent |-> FALSE]]
       /\ request = [r \in Requests |-> [pc |-> "idle", kind |-> "verify", user |-> u,
                                         value |-> v, holds |-> None, stale |-> FALSE,
                                         found |-> None, answer |-> "none"]]
  /\ messy = [u \in Users |-> FALSE]

GenerateStep(r) ==
  Register(r) \/ Resend(r) \/ ResendCount(r) \/ Forgot(r)
    \/ GenerateDelete(r) \/ GenerateInsert(r)

PresentStep(r) ==
  \/ \E value \in Codes, holds \in Requests \cup {None} : Arrive(r, holds, value)
  \/ Lookup(r) \/ Mark(r) \/ Apply(r)

Next == \E r \in Requests : GenerateStep(r) \/ PresentStep(r) \/ Expire(r)

Spec == Init /\ [][Next]_vars

------------------------------------------------------------------------------
(* Properties. *)

(* A code that was used or replaced before it is presented does nothing by *)
(* itself: the presentation can only hit a later code that has the same    *)
(* value (email_verify.go:71-81, password.go:101-111).                     *)
StaleCodeRefused ==
  \A r \in Requests :
    request[r].stale => request[r].found # request[r].holds

(* While the document of an emailed code is stored, its value finds no     *)
(* other document, of this user or another: a client verifies or resets    *)
(* somebody else's account only with a code that was deleted since         *)
(* (mongo.go:68-74, email_verify.go:32-37, 71, password.go:61-66, 101).    *)
OtherCodeNeedsDeletion ==
  \A r \in Requests :
    request[r].holds # None /\ request[r].found \notin {None, request[r].holds}
      => code[request[r].holds].state = "deleted"

(* A used code has done its work, is about to, or was lost to a database   *)
(* error: marking first loses nothing else (email_verify.go:86-96,         *)
(* password.go:122-135).                                                   *)
SpentCodeTookEffect ==
  \A d \in Requests :
    code[d].state = "spent" =>
      \E r \in Requests :
        /\ request[r].found = d
        /\ request[r].pc = "apply" \/ request[r].answer \in {"ok", "lost"}

(* The resend limit counts documents that every generation deletes: a      *)
(* client that asks again and again, one request after the other, is never *)
(* refused; it takes generations that overlap, a deletion that failed, or  *)
(* used codes, all but one of those counted (email_verify.go:31-37,        *)
(* 102-114).                                                               *)
LimitNeedsOverlap ==
  \A r \in Requests :
    request[r].answer = "limited" =>
      \/ messy[request[r].user]
      \/ Cardinality({d \in StoredOf("verify", request[r].user) : code[d].state = "spent"}) + 1
           >= ResendLimit
==============================================================================
