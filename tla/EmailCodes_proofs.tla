------------------------- MODULE EmailCodes_proofs -------------------------
(***************************************************************************)
(* Codes sent by email, for any users, values, limit and finite set of     *)
(* requests: what a code that is no longer live can do, when a code hits   *)
(* another one's document, what became of a used code, and when a resend   *)
(* is refused.  The invariant says what a request knows of the document it *)
(* holds the email of and of the one it found, and that generations one    *)
(* after the other keep one live verification code.                        *)
(***************************************************************************)
EXTENDS EmailCodes, FiniteSetTheorems, TLAPS

(* A document is inserted by a request that is then done; until then there *)
(* is none.                                                                *)
DocsInv ==
  \A d \in Requests :
    /\ code[d].state # "absent" => request[d].pc = "done"
    /\ code[d].state = "absent" => ~code[d].sent

(* The unique index: a stored value is the value of one document.          *)
UniqueInv ==
  \A d, e \in Requests :
    /\ request[d].kind = request[e].kind /\ code[d].value = code[e].value
    /\ code[d].state \in {"live", "spent"} /\ code[e].state \in {"live", "spent"}
    => d = e

(* What a request knows of the document it holds the email of, and of the  *)
(* one it has found.                                                       *)
Held(q) ==
  /\ code[q.holds].state # "absent"
  /\ request[q.holds].kind = q.kind
  /\ code[q.holds].value = q.value
  /\ q.stale => code[q.holds].state # "live"
  /\ q.found \notin {None, q.holds} => code[q.holds].state = "deleted"

Linked(q) ==
  /\ q.pc \in {"idle", "count", "delete", "insert"} => q.holds = None
  /\ q.pc \in {"idle", "count", "delete", "insert", "lookup"} => q.found = None
  /\ q.pc \in {"mark", "apply"} => q.found # None
  /\ q.pc # "done" => q.answer = "none"
  /\ q.stale => q.holds \notin {None, q.found}
  /\ q.holds # None => Held(q)
  /\ q.found # None => code[q.found].state # "absent"

LinkInv == \A r \in Requests : Linked(request[r])

LiveOf(u) ==
  {d \in Requests : /\ request[d].kind = "verify" /\ request[d].user = u
                    /\ code[d].state = "live"}

Inserting(u) ==
  {d \in Requests : /\ request[d].kind = "verify" /\ request[d].user = u
                    /\ request[d].pc = "insert"}

(* Generations one after the other keep one live verification code.        *)
OneLiveInv ==
  \A u \in Users : ~messy[u] =>
    \A d, e \in LiveOf(u) \cup Inserting(u) : d = e

SpentOf(u) ==
  {d \in Requests : /\ request[d].kind = "verify" /\ request[d].user = u
                    /\ code[d].state = "spent"}

Works(q, d) == q.found = d /\ (q.pc = "apply" \/ q.answer \in {"ok", "lost"})

SpentInv == \A d \in Requests : code[d].state = "spent" =>
  \E r \in Requests : Works(request[r], d)

LimitOK(q) == messy[q.user] \/ Cardinality(SpentOf(q.user)) + 1 >= ResendLimit

LimitInv == \A r \in Requests : request[r].answer = "limited" => LimitOK(request[r])

IInv == TypeOK /\ DocsInv /\ UniqueInv /\ LinkInv /\ OneLiveInv /\ SpentInv /\ LimitInv

(* What becomes of a document once it is inserted. *)
Ages(c, d) ==
  /\ d.value = c.value /\ d.sent = c.sent
  /\ d.state = c.state \/ (c.state = "live" /\ d.state \in {"spent", "deleted"})

LEMMA InitInv == Init => IInv
<1> SUFFICES ASSUME Init PROVE IInv
  OBVIOUS
<1>1. PICK v \in Codes, u \in Users :
        /\ code = [r \in Requests |-> [state |-> "absent", value |-> v,
                                       expired |-> FALSE, sent |-> FALSE]]
        /\ request = [r \in Requests |-> [pc |-> "idle", kind |-> "verify", user |-> u,
                                          value |-> v, holds |-> None, stale |-> FALSE,
                                          found |-> None, answer |-> "none"]]
  BY DEF Init
<1>2. TypeOK
  BY <1>1 DEF Init, TypeOK, Code, Request, Stages, Kinds
<1>3. DocsInv /\ UniqueInv /\ LinkInv
  BY <1>1 DEF DocsInv, UniqueInv, LinkInv, Linked
<1>4. OneLiveInv /\ SpentInv /\ LimitInv
  BY <1>1 DEF OneLiveInv, LiveOf, Inserting, SpentInv, LimitInv
<1> QED BY <1>2, <1>3, <1>4 DEF IInv

(* Used codes stay used, so a limit that was right stays so.               *)
LEMMA SpentCounts ==
  ASSUME TypeOK, NEW u \in Users, NEW S \in SUBSET Requests, SpentOf(u) \subseteq S
  PROVE  Cardinality(SpentOf(u)) + 1 >= ResendLimit => Cardinality(S) + 1 >= ResendLimit
<1>1. IsFiniteSet(S) /\ IsFiniteSet(SpentOf(u))
  BY EmailCodesAssumption, FS_Subset DEF SpentOf
<1>2. /\ Cardinality(S) \in Nat /\ Cardinality(SpentOf(u)) \in Nat
      /\ Cardinality(SpentOf(u)) <= Cardinality(S)
  BY <1>1, FS_CardinalityType, FS_Subset
<1> QED BY <1>2, EmailCodesAssumption

(* A limit is right for a request it is right of, later too.               *)
LEMMA LimitKept ==
  ASSUME TypeOK, TypeOK', NEW q \in Request, LimitOK(q),
         \A u \in Users : messy[u] => messy'[u],
         \A u \in Users : SpentOf(u) \subseteq SpentOf(u)'
  PROVE  LimitOK(q)'
<1>1. q.user \in Users
  BY DEF Request
<1>2. SpentOf(q.user)' \in SUBSET Requests /\ SpentOf(q.user) \subseteq SpentOf(q.user)'
  BY <1>1 DEF SpentOf
<1> QED BY <1>1, <1>2, SpentCounts DEF LimitOK

(* A step of request r that inserts no document.                           *)
LEMMA StepInv ==
  ASSUME IInv, NEW r \in Requests, NEW q \in Request,
         request[r].pc # "done",
         request' = [request EXCEPT ![r] = q],
         account' \in [Users -> {"absent", "unverified", "verified"}],
         code' \in [Requests -> Code],
         messy' \in [Users -> BOOLEAN],
         \A d \in Requests : Ages(code[d], code'[d]),
         \A u \in Users : messy[u] => messy'[u],
         Linked(q),
         \A d \in Requests :
           code'[d].state = "spent" /\ code[d].state # "spent" => Works(q, d),
         request[r].pc = "apply" => q.found = request[r].found /\ q.answer \in {"ok", "lost"},
         q.pc = "insert" =>
           \/ messy'[q.user] \/ q.kind # "verify"
           \/ LiveOf(q.user)' \cup Inserting(q.user)' \subseteq {r},
         q.answer = "limited" => LimitOK(q)
  PROVE  IInv'
<1>1. /\ request'[r] = q
      /\ \A x \in Requests \ {r} : request'[x] = request[x]
      /\ TypeOK'
  BY DEF IInv, TypeOK
<1>2. \A d \in Requests : code[d].state # "absent" \/ code'[d].state # "absent" =>
        d # r /\ code[d].state # "absent" /\ request'[d] = request[d] /\ code'[d].state # "absent"
  BY <1>1 DEF IInv, DocsInv, Ages
<1>3. DocsInv'
  BY <1>2 DEF IInv, DocsInv, Ages
<1>4. UniqueInv'
  BY <1>2 DEF IInv, UniqueInv, Ages
<1>5. ASSUME NEW p \in Request, Linked(p) PROVE Linked(p)'
  <2>1. ASSUME p.holds # None, Held(p) PROVE Held(p)'
    <3>1. p.holds \in Requests /\ code[p.holds].state # "absent"
      BY <2>1 DEF Request, Held
    <3> QED BY <1>2, <2>1, <3>1 DEF Held, Ages
  <2>2. ASSUME p.found # None, code[p.found].state # "absent"
        PROVE  code'[p.found].state # "absent"
    BY <1>2, <2>2 DEF Request
  <2> QED BY <1>5, <2>1, <2>2 DEF Linked
<1>6. LinkInv'
  BY <1>1, <1>5 DEF IInv, LinkInv, TypeOK
<1>7. OneLiveInv'
  <2> SUFFICES ASSUME NEW u \in Users, ~messy'[u],
                      NEW d \in LiveOf(u)' \cup Inserting(u)',
                      NEW e \in LiveOf(u)' \cup Inserting(u)'
               PROVE  d = e
    BY DEF OneLiveInv
  <2>1. ~messy[u]
    OBVIOUS
  <2>2. LiveOf(u)' \subseteq LiveOf(u)
    BY <1>2 DEF LiveOf, Ages
  <2>3. CASE q.pc = "insert" /\ q.user = u /\ q.kind = "verify"
    BY <2>3
  <2>4. CASE ~(q.pc = "insert" /\ q.user = u /\ q.kind = "verify")
    <3>1. Inserting(u)' \subseteq Inserting(u)
      BY <1>1, <2>4 DEF Inserting
    <3> QED BY <2>1, <2>2, <3>1 DEF IInv, OneLiveInv
  <2> QED BY <2>3, <2>4
<1>8. SpentInv'
  <2> SUFFICES ASSUME NEW d \in Requests, code'[d].state = "spent"
               PROVE  \E x \in Requests : Works(request'[x], d)
    BY DEF SpentInv, Works
  <2>1. CASE code[d].state # "spent"
    BY <1>1, <2>1
  <2>2. CASE code[d].state = "spent"
    <3>1. PICK x \in Requests : Works(request[x], d)
      BY <2>2 DEF IInv, SpentInv
    <3>2. CASE x = r
      <4>1. request[r].pc = "apply"
        BY <3>1, <3>2 DEF Works, IInv, LinkInv, Linked
      <4> QED BY <1>1, <3>1, <3>2, <4>1 DEF Works
    <3>3. CASE x # r
      BY <1>1, <3>1, <3>3
    <3> QED BY <3>2, <3>3
  <2> QED BY <2>1, <2>2
<1>9. LimitInv'
  <2>1. \A u \in Users : SpentOf(u) \subseteq SpentOf(u)'
    BY <1>2 DEF SpentOf, Ages
  <2>2. ASSUME NEW p \in Request, LimitOK(p) PROVE LimitOK(p)'
    BY <1>1, <2>1, <2>2, LimitKept DEF IInv
  <2> QED BY <1>1, <2>2 DEF IInv, LimitInv, TypeOK
<1> QED BY <1>1, <1>3, <1>4, <1>6, <1>7, <1>8, <1>9 DEF IInv

(* Such a step that leaves the documents alone and generates none.         *)
LEMMA QuietInv ==
  ASSUME IInv, NEW r \in Requests, NEW q \in Request,
         request[r].pc \notin {"apply", "done"},
         request' = [request EXCEPT ![r] = q],
         account' \in [Users -> {"absent", "unverified", "verified"}],
         UNCHANGED <<code, messy>>,
         Linked(q),
         q.pc # "insert",
         q.answer = "limited" => LimitOK(q)
  PROVE  IInv'
<1>1. code \in [Requests -> Code] /\ messy \in [Users -> BOOLEAN]
  BY DEF IInv, TypeOK
<1>2. \A d \in Requests : Ages(code[d], code'[d])
  BY DEF Ages
<1>3. \A u \in Users : messy[u] => messy'[u]
  OBVIOUS
<1> QED BY <1>1, <1>2, <1>3, StepInv

(* What is known of a request before it steps.                             *)
LEMMA Known ==
  ASSUME IInv, NEW r \in Requests
  PROVE  request[r] \in Request /\ Linked(request[r]) /\ code[r] \in Code
BY DEF IInv, TypeOK, LinkInv

LEMMA BeginInv ==
  ASSUME IInv, NEW r \in Requests, NEW stage \in {"count", "delete"}, NEW kind \in Kinds,
         NEW u \in Users, Begin(r, stage, kind, u),
         account' \in [Users -> {"absent", "unverified", "verified"}],
         UNCHANGED <<code, messy>>
  PROVE  IInv'
<1> DEFINE q == [request[r] EXCEPT !.pc = stage, !.kind = kind, !.user = u]
<1>1. request[r] \in Request /\ Linked(request[r]) /\ request[r].pc = "idle"
  BY Known DEF Begin
<1>2. q \in Request /\ q.pc = stage /\ q.answer = "none" /\ Linked(q)
  BY <1>1 DEF Request, Stages, Linked
<1>3. request' = [request EXCEPT ![r] = q]
  BY DEF Begin
<1> HIDE DEF q
<1> QED BY <1>1, <1>2, <1>3, QuietInv

LEMMA RegisterInv == ASSUME IInv, NEW r \in Requests, Register(r) PROVE IInv'
<1>1. PICK u \in Users : /\ account' = [account EXCEPT ![u] = "unverified"]
                         /\ Begin(r, "delete", "verify", u)
                         /\ UNCHANGED <<code, messy>>
  BY DEF Register
<1>2. account' \in [Users -> {"absent", "unverified", "verified"}]
  BY <1>1 DEF IInv, TypeOK
<1> QED BY <1>1, <1>2, BeginInv DEF Kinds

LEMMA AskInv == ASSUME IInv, NEW r \in Requests, Resend(r) \/ Forgot(r) PROVE IInv'
<1>1. account' \in [Users -> {"absent", "unverified", "verified"}] /\ UNCHANGED <<code, messy>>
  BY DEF IInv, TypeOK, Resend, Forgot
<1>2. CASE Resend(r)
  BY <1>1, <1>2, BeginInv DEF Resend, Kinds
<1>3. CASE Forgot(r)
  BY <1>1, <1>3, BeginInv DEF Forgot, Kinds
<1> QED BY <1>2, <1>3

(* The documents counted are used ones and at most one live one.           *)
LEMMA Counted ==
  ASSUME IInv, NEW u \in Users, NEW recent \in SUBSET StoredOf("verify", u),
         Cardinality(recent) >= ResendLimit
  PROVE  messy[u] \/ Cardinality(SpentOf(u)) + 1 >= ResendLimit
<1> SUFFICES ASSUME ~messy[u] PROVE Cardinality(SpentOf(u)) + 1 >= ResendLimit
  OBVIOUS
<1>1. recent \subseteq SpentOf(u) \cup LiveOf(u)
  BY DEF StoredOf, Stored, SpentOf, LiveOf
<1>2. \A d, e \in LiveOf(u) : d = e
  BY DEF IInv, OneLiveInv
<1>3. IsFiniteSet(SpentOf(u)) /\ Cardinality(SpentOf(u)) \in Nat
  BY EmailCodesAssumption, FS_Subset, FS_CardinalityType DEF SpentOf
<1>4. CASE LiveOf(u) = {}
  <2>1. Cardinality(recent) <= Cardinality(SpentOf(u)) /\ Cardinality(recent) \in Nat
    BY <1>1, <1>3, <1>4, FS_Subset, FS_CardinalityType
  <2> QED BY <1>3, <2>1, EmailCodesAssumption
<1>5. ASSUME NEW live \in LiveOf(u) PROVE Cardinality(SpentOf(u)) + 1 >= ResendLimit
  <2> DEFINE S == SpentOf(u) \cup {live}
  <2>1. recent \subseteq S
    BY <1>1, <1>2, <1>5
  <2>2. live \notin SpentOf(u)
    BY <1>5 DEF LiveOf, SpentOf
  <2>3. IsFiniteSet(S) /\ Cardinality(S) = Cardinality(SpentOf(u)) + 1
    BY <1>3, <2>2, FS_AddElement
  <2>4. Cardinality(recent) <= Cardinality(S) /\ Cardinality(recent) \in Nat
    BY <2>1, <2>3, FS_Subset, FS_CardinalityType
  <2> QED BY <1>3, <2>3, <2>4, EmailCodesAssumption
<1> QED BY <1>4, <1>5

LEMMA ResendCountInv == ASSUME IInv, NEW r \in Requests, ResendCount(r) PROVE IInv'
<1> DEFINE p == request[r]
<1>1. /\ p \in Request /\ Linked(p) /\ p.pc = "count"
      /\ account' \in [Users -> {"absent", "unverified", "verified"}]
      /\ UNCHANGED <<code, messy>>
  BY Known DEF ResendCount, IInv, TypeOK
<1>2. ASSUME NEW recent \in SUBSET StoredOf("verify", p.user),
             Cardinality(recent) >= ResendLimit, Finish(r, "limited")
      PROVE  IInv'
  <2> DEFINE q == [p EXCEPT !.pc = "done", !.answer = "limited"]
  <2>1. q \in Request /\ q.pc = "done" /\ q.user = p.user /\ p.user \in Users
    BY <1>1 DEF Request, Stages
  <2>2. Linked(q)
    BY <1>1 DEF Request, Linked
  <2>3. request' = [request EXCEPT ![r] = q]
    BY <1>2 DEF Finish
  <2> HIDE DEF q, p
  <2>4. LimitOK(q)
    BY <1>2, <2>1, Counted DEF LimitOK
  <2>5. p = request[r]
    BY DEF p
  <2>6. request[r].pc = "count"
    BY <1>1, <2>5
  <2> QED BY <1>1, <2>1, <2>2, <2>3, <2>4, <2>6, QuietInv
<1>3. ASSUME NEW stage \in {"delete", "done"}, Goto(r, stage) PROVE IInv'
  <2> DEFINE q == [p EXCEPT !.pc = stage]
  <2>1. q \in Request /\ q.pc = stage /\ q.answer = "none" /\ Linked(q)
    BY <1>1 DEF Request, Stages, Linked
  <2>2. request' = [request EXCEPT ![r] = q]
    BY <1>3 DEF Goto, IInv, TypeOK
  <2> HIDE DEF q
  <2> QED BY <1>1, <2>1, <2>2, QuietInv
<1> QED BY <1>2, <1>3 DEF ResendCount

LEMMA GenerateDeleteInv == ASSUME IInv, NEW r \in Requests, GenerateDelete(r) PROVE IInv'
<1>1. /\ request[r] \in Request /\ Linked(request[r]) /\ request[r].pc = "delete"
      /\ account' \in [Users -> {"absent", "unverified", "verified"}]
  BY Known DEF GenerateDelete, IInv, TypeOK
<1>u. PICK u \in Users : u = request[r].user
  BY <1>1 DEF Request
<1>q. PICK q : q = [request[r] EXCEPT !.pc = "insert"]
  OBVIOUS
<1>2. /\ q \in Request /\ Linked(q)
      /\ q.pc = "insert" /\ q.user = u /\ q.kind = request[r].kind /\ q.answer = "none"
  BY <1>1, <1>u, <1>q DEF Request, Stages, Linked
<1>3. Goto(r, "insert") => request' = [request EXCEPT ![r] = q]
  BY <1>q DEF Goto, IInv, TypeOK
<1>4. ASSUME code' = [d \in Requests |->
                IF d \in Unused(r) THEN [code[d] EXCEPT !.state = "deleted"] ELSE code[d]],
             messy' = [messy EXCEPT ![request[r].user] = @ \/ Overlaps(r)],
             Goto(r, "insert")
      PROVE  IInv'
  <2>1. \A d \in Requests : code[d] \in Code
    BY DEF IInv, TypeOK
  <2>2. ASSUME NEW d \in Requests PROVE code'[d] \in Code /\ Ages(code[d], code'[d])
    <3>1. CASE d \in Unused(r)
      <4>1. code[d].state = "live" /\ code'[d] = [code[d] EXCEPT !.state = "deleted"]
        BY <1>4, <3>1 DEF Unused
      <4> QED BY <2>1, <4>1 DEF Code, Ages
    <3>2. CASE d \notin Unused(r)
      BY <1>4, <2>1, <3>2 DEF Ages
    <3> QED BY <3>1, <3>2
  <2>3. code' \in [Requests -> Code]
    BY <1>4, <2>2
  <2>4. \A d \in Requests : code'[d].state = "spent" => code[d].state = "spent"
    BY <1>4, <2>1 DEF Code
  <2>5. messy \in [Users -> BOOLEAN]
    BY DEF IInv, TypeOK
  <2>6. messy' = [messy EXCEPT ![u] = messy[u] \/ Overlaps(r)]
    BY <1>4, <1>u
  <2>7. Overlaps(r) \in BOOLEAN
    BY DEF Overlaps
  <2>8. messy' \in [Users -> BOOLEAN] /\ \A x \in Users : messy[x] => messy'[x]
    BY <2>5, <2>6, <2>7
  <2>9. messy'[u] <=> messy[u] \/ Overlaps(r)
    BY <2>5, <2>6
  <2>10. ASSUME q.kind = "verify", ~Overlaps(r)
         PROVE  LiveOf(u)' \cup Inserting(u)' \subseteq {r}
    <3>1. /\ \A x \in Requests \ {r} : request'[x] = request[x]
          /\ request[r].kind = "verify"
      BY <1>2, <1>3, <1>4, <2>10 DEF IInv, TypeOK
    <3>2. ASSUME NEW d \in Requests \ {r}, request[d].kind = "verify", request[d].user = u
          PROVE  code'[d].state # "live"
      <4>1. CASE d \in Unused(r)
        <5>1. code'[d] = [code[d] EXCEPT !.state = "deleted"]
          BY <1>4, <4>1
        <5> QED BY <2>1, <5>1 DEF Code
      <4>2. CASE d \notin Unused(r)
        <5>1. code'[d] = code[d]
          BY <1>4, <4>2
        <5> QED BY <1>u, <3>1, <3>2, <4>2, <5>1 DEF Unused, StoredOf, Stored
      <4> QED BY <4>1, <4>2
    <3>3. \A d \in Requests \ {r} :
            ~(request[d].pc = "insert" /\ request[d].kind = "verify" /\ request[d].user = u)
      BY <1>u, <2>10, <3>1 DEF Overlaps
    <3> QED BY <3>1, <3>2, <3>3 DEF LiveOf, Inserting
  <2> QED BY <1>1, <1>2, <1>3, <1>4, <2>2, <2>3, <2>4, <2>8, <2>9, <2>10, StepInv
<1>5. ASSUME messy' = [messy EXCEPT ![request[r].user] = TRUE], Goto(r, "insert"), UNCHANGED code
      PROVE  IInv'
  <2>1. messy \in [Users -> BOOLEAN] /\ code \in [Requests -> Code]
    BY DEF IInv, TypeOK
  <2>2. /\ messy' \in [Users -> BOOLEAN] /\ \A x \in Users : messy[x] => messy'[x]
        /\ messy'[u]
    BY <1>5, <1>u, <2>1
  <2>3. \A d \in Requests : Ages(code[d], code'[d])
    BY <1>5 DEF Ages
  <2> QED BY <1>1, <1>2, <1>3, <1>5, <2>1, <2>2, <2>3, StepInv
<1>6. ASSUME Goto(r, "done"), UNCHANGED <<code, messy>> PROVE IInv'
  <2> DEFINE p == [request[r] EXCEPT !.pc = "done"]
  <2>1. p \in Request /\ p.pc = "done" /\ p.answer = "none" /\ Linked(p)
    BY <1>1 DEF Request, Stages, Linked
  <2>2. request' = [request EXCEPT ![r] = p]
    BY <1>6 DEF Goto, IInv, TypeOK
  <2> HIDE DEF p
  <2> QED BY <1>1, <1>6, <2>1, <2>2, QuietInv
<1> QED BY <1>4, <1>5, <1>6 DEF GenerateDelete

(* A new document has a value no stored one of its kind has, and takes the *)
(* place of its request's pending insert.                                  *)
LEMMA GenerateInsertInv == ASSUME IInv, NEW r \in Requests, GenerateInsert(r) PROVE IInv'
<1>1. /\ request[r] \in Request /\ Linked(request[r]) /\ request[r].pc = "insert"
      /\ account' \in [Users -> {"absent", "unverified", "verified"}]
      /\ UNCHANGED messy
      /\ Goto(r, "done")
  BY Known DEF GenerateInsert, IInv, TypeOK
<1>q. PICK q : q = [request[r] EXCEPT !.pc = "done"]
  OBVIOUS
<1>2. /\ q \in Request /\ Linked(q)
      /\ q.pc = "done" /\ q.answer = "none"
      /\ q.kind = request[r].kind /\ q.user = request[r].user
  BY <1>1, <1>q DEF Request, Stages, Linked
<1>3. request' = [request EXCEPT ![r] = q]
  BY <1>1, <1>q DEF Goto, IInv, TypeOK
<1>4. CASE UNCHANGED code
  BY <1>1, <1>2, <1>3, <1>4, QuietInv
<1>5. ASSUME NEW value \in Codes, NEW sent \in BOOLEAN,
             Insertable(request[r].kind, request[r].user, value),
             code' = [code EXCEPT ![r] = [state |-> "live", value |-> value,
                                          expired |-> FALSE, sent |-> sent]]
      PROVE  IInv'
  <2>1. /\ code[r].state = "absent"
        /\ code' \in [Requests -> Code]
        /\ code'[r].state = "live" /\ code'[r].value = value
        /\ \A d \in Requests \ {r} : code'[d] = code[d]
    BY <1>1, <1>5 DEF IInv, TypeOK, DocsInv, Code
  <2>2. /\ request'[r] = q
        /\ \A x \in Requests \ {r} : request'[x] = request[x]
        /\ TypeOK'
    BY <1>1, <1>2, <1>3, <2>1 DEF IInv, TypeOK
  <2>3. DocsInv'
    BY <1>2, <2>1, <2>2 DEF IInv, DocsInv
  <2>4. UniqueInv'
    <3>1. \A d \in Requests \ {r} :
            request'[d].kind = request'[r].kind /\ code'[d].state \in {"live", "spent"}
              => code'[d].value # value
      BY <1>2, <1>5, <2>1, <2>2 DEF Insertable, Stored
    <3>2. \A d, e \in Requests \ {r} :
            /\ request'[d].kind = request'[e].kind /\ code'[d].value = code'[e].value
            /\ code'[d].state \in {"live", "spent"} /\ code'[e].state \in {"live", "spent"}
            => d = e
      BY <2>1, <2>2 DEF IInv, UniqueInv
    <3> QED BY <2>1, <3>1, <3>2 DEF UniqueInv
  <2>5. ASSUME NEW p \in Request, Linked(p) PROVE Linked(p)'
    <3>1. ASSUME p.holds # None, Held(p) PROVE Held(p)'
      <4>1. p.holds \in Requests \ {r}
        BY <2>1, <3>1 DEF Request, Held
      <4> QED BY <2>1, <2>2, <3>1, <4>1 DEF Held
    <3>2. ASSUME p.found # None, code[p.found].state # "absent"
          PROVE  code'[p.found].state # "absent"
      BY <2>1, <3>2 DEF Request
    <3> QED BY <2>5, <3>1, <3>2 DEF Linked
  <2>6. LinkInv'
    BY <1>2, <2>2, <2>5 DEF IInv, LinkInv, TypeOK
  <2>7. OneLiveInv'
    <3>1. ASSUME NEW u \in Users
          PROVE  LiveOf(u)' \cup Inserting(u)' \subseteq LiveOf(u) \cup Inserting(u)
      BY <1>1, <1>2, <2>1, <2>2 DEF LiveOf, Inserting
    <3> QED BY <1>1, <3>1 DEF IInv, OneLiveInv
  <2>8. SpentInv'
    <3> SUFFICES ASSUME NEW d \in Requests, code'[d].state = "spent"
                 PROVE  \E x \in Requests : Works(request'[x], d)
      BY DEF SpentInv, Works
    <3>1. code[d].state = "spent"
      BY <2>1
    <3>2. PICK x \in Requests : Works(request[x], d)
      BY <3>1 DEF IInv, SpentInv
    <3>3. x # r
      BY <1>1, <3>2 DEF Works, Linked
    <3> QED BY <2>2, <3>2, <3>3
  <2>9. LimitInv'
    <3>1. \A u \in Users : SpentOf(u) \subseteq SpentOf(u)'
      BY <2>1, <2>2 DEF SpentOf
    <3>2. \A u \in Users : messy[u] => messy'[u]
      BY <1>1
    <3>3. ASSUME NEW p \in Request, LimitOK(p) PROVE LimitOK(p)'
      BY <2>2, <3>1, <3>2, <3>3, LimitKept DEF IInv
    <3> QED BY <1>2, <2>2, <3>3 DEF IInv, LimitInv, TypeOK
  <2> QED BY <2>2, <2>3, <2>4, <2>6, <2>7, <2>8, <2>9 DEF IInv
<1> QED BY <1>4, <1>5 DEF GenerateInsert

LEMMA ArriveInv ==
  ASSUME IInv, NEW r \in Requests, NEW value \in Codes, NEW holds \in Requests \cup {None},
         Arrive(r, holds, value)
  PROVE  IInv'
<1> DEFINE stale == holds # None /\ code[holds].state # "live"
<1>1. /\ request[r] \in Request /\ Linked(request[r]) /\ request[r].pc = "idle"
      /\ account' \in [Users -> {"absent", "unverified", "verified"}]
      /\ UNCHANGED <<code, messy>>
  BY Known DEF Arrive, IInv, TypeOK
<1>2. PICK kind \in Kinds :
        /\ holds # None => /\ code[holds].sent /\ request[holds].kind = kind
                           /\ code[holds].value = value
        /\ request' = [request EXCEPT ![r] =
             [request[r] EXCEPT !.pc = "lookup", !.kind = kind, !.value = value,
                                !.holds = holds, !.stale = stale]]
  BY DEF Arrive
<1> DEFINE q == [request[r] EXCEPT !.pc = "lookup", !.kind = kind, !.value = value,
                                   !.holds = holds, !.stale = stale]
<1>3. stale \in BOOLEAN
  OBVIOUS
<1>4. stale <=> holds # None /\ code[holds].state # "live"
  OBVIOUS
<1> HIDE DEF stale
<1>5. /\ q \in Request /\ q.pc = "lookup" /\ q.kind = kind /\ q.value = value
      /\ q.holds = holds /\ q.stale = stale
      /\ q.found = None /\ q.answer = "none"
  BY <1>1, <1>3 DEF Request, Stages, Linked
<1>6. request' = [request EXCEPT ![r] = q]
  BY <1>2
<1> HIDE DEF q
<1>7. holds # None => Held(q)
  <2> SUFFICES ASSUME holds # None PROVE Held(q)
    OBVIOUS
  <2>1. code[holds].sent /\ holds \in Requests
    BY <1>2
  <2>2. code[holds].state # "absent"
    BY <2>1 DEF IInv, DocsInv
  <2> QED BY <1>2, <1>4, <1>5, <2>2 DEF Held
<1>8. Linked(q)
  BY <1>4, <1>5, <1>7 DEF Linked
<1> QED BY <1>1, <1>5, <1>6, <1>8, QuietInv

(* What is found is live, and by the index the only stored document with   *)
(* its value: if it is not the one held, that one was deleted.             *)
LEMMA LookupInv == ASSUME IInv, NEW r \in Requests, Lookup(r) PROVE IInv'
<1> DEFINE p == request[r]
<1>1. /\ request[r] \in Request /\ Linked(request[r]) /\ request[r].pc = "lookup"
      /\ account' \in [Users -> {"absent", "unverified", "verified"}]
      /\ UNCHANGED <<code, messy>>
  BY Known DEF Lookup, IInv, TypeOK
<1>2. CASE Goto(r, "done")
  <2> DEFINE q == [request[r] EXCEPT !.pc = "done"]
  <2>1. q \in Request /\ q.pc = "done" /\ q.answer = "none"
    BY <1>1 DEF Request, Stages, Linked
  <2>2. Linked(q)
    BY <1>1 DEF Request, Linked, Held
  <2>3. request' = [request EXCEPT ![r] = q]
    BY <1>2 DEF Goto, IInv, TypeOK
  <2> HIDE DEF q
  <2> QED BY <1>1, <2>1, <2>2, <2>3, QuietInv
<1>3. ASSUME NEW d \in Stored(p.kind), code[d].value = p.value, code[d].state = "live",
             request' = [request EXCEPT ![r] = [@ EXCEPT !.pc = "mark", !.found = d]]
      PROVE  IInv'
  <2> DEFINE q == [request[r] EXCEPT !.pc = "mark", !.found = d]
  <2>1. /\ d \in Requests /\ request[d].kind = p.kind
        /\ d # None
    BY EmailCodesAssumption DEF Stored
  <2>2. /\ q \in Request /\ q.pc = "mark" /\ q.answer = "none" /\ q.found = d
        /\ q.holds = p.holds /\ q.kind = p.kind /\ q.value = p.value /\ q.stale = p.stale
    BY <1>1, <2>1 DEF Request, Stages, Linked
  <2>3. request' = [request EXCEPT ![r] = q]
    BY <1>3
  <2> HIDE DEF q
  <2>4. ASSUME p.holds # None
        PROVE  Held(q) /\ (p.stale => p.holds # d)
    <3>1. Held(p) /\ p.holds \in Requests
      BY <1>1, <2>4 DEF Linked, Request
    <3>2. p.stale => p.holds # d
      BY <1>3, <3>1 DEF Held
    <3>3. p.holds # d => code[p.holds].state \notin {"live", "spent"}
      BY <1>3, <2>1, <3>1 DEF IInv, UniqueInv, Held
    <3>4. code[p.holds].state \in {"absent", "live", "spent", "deleted"}
      BY <3>1 DEF IInv, TypeOK, Code
    <3>5. d # p.holds => code[p.holds].state = "deleted"
      BY <3>1, <3>3, <3>4 DEF Held
    <3> QED BY <2>2, <3>1, <3>2, <3>5 DEF Held
  <2>5. Linked(q)
    BY <1>1, <1>3, <2>1, <2>2, <2>4 DEF Linked
  <2> QED BY <1>1, <2>2, <2>3, <2>5, QuietInv
<1> QED BY <1>2, <1>3 DEF Lookup

LEMMA MarkInv == ASSUME IInv, NEW r \in Requests, Mark(r) PROVE IInv'
<1>d. PICK d : d = request[r].found
  OBVIOUS
<1>1. /\ request[r] \in Request /\ Linked(request[r]) /\ request[r].pc = "mark"
      /\ account' \in [Users -> {"absent", "unverified", "verified"}]
      /\ UNCHANGED messy
  BY Known DEF Mark, IInv, TypeOK
<1>2. d \in Requests /\ code[d].state # "absent" /\ code \in [Requests -> Code]
  BY <1>1, <1>d DEF Linked, Request, IInv, TypeOK
<1>3. ASSUME NEW pc \in {"apply", "done"}, NEW answer \in {"none", "lost"},
             pc = "apply" <=> answer = "none",
             request' = [request EXCEPT ![r] = [request[r] EXCEPT !.pc = pc, !.answer = answer]],
             SetSpent(d) \/ (UNCHANGED code /\ pc = "done")
      PROVE  IInv'
  <2>q. PICK q : q = [request[r] EXCEPT !.pc = pc, !.answer = answer]
    OBVIOUS
  <2>1. /\ q \in Request /\ q.pc = pc /\ q.answer = answer /\ q.found = d
        /\ q.holds = request[r].holds /\ q.kind = request[r].kind
        /\ q.value = request[r].value /\ q.stale = request[r].stale
    BY <1>1, <1>d, <2>q DEF Request, Stages
  <2>2. Linked(q)
    BY <1>1, <1>2, <1>3, <1>d, <2>1, EmailCodesAssumption DEF Linked, Held
  <2>3. Works(q, d)
    BY <1>3, <2>1 DEF Works
  <2>4. /\ code' \in [Requests -> Code]
        /\ \A x \in Requests : Ages(code[x], code'[x])
        /\ \A x \in Requests : code'[x].state = "spent" /\ code[x].state # "spent" => x = d
    <3>1. CASE UNCHANGED code
      BY <1>2, <3>1 DEF Ages
    <3>2. CASE SetSpent(d)
      <4>1. code' = [code EXCEPT ![d] = [code[d] EXCEPT !.state =
                       IF code[d].state = "deleted" THEN "deleted" ELSE "spent"]]
        BY <1>2, <3>2 DEF SetSpent
      <4> DEFINE c == [code[d] EXCEPT !.state =
                         IF code[d].state = "deleted" THEN "deleted" ELSE "spent"]
      <4>2. c \in Code /\ Ages(code[d], c)
        BY <1>2 DEF Code, Ages
      <4>3. code' = [code EXCEPT ![d] = c]
        BY <4>1
      <4> HIDE DEF c
      <4>4. code'[d] = c /\ \A x \in Requests \ {d} : code'[x] = code[x]
        BY <1>2, <4>3
      <4> QED BY <1>2, <4>2, <4>3, <4>4 DEF Ages
    <3> QED BY <1>3, <3>1, <3>2
  <2>5. \A x \in Requests :
          code'[x].state = "spent" /\ code[x].state # "spent" => Works(q, x)
    BY <2>3, <2>4
  <2>6. request' = [request EXCEPT ![r] = q]
    BY <1>3, <2>q
  <2>7. messy' \in [Users -> BOOLEAN] /\ \A u \in Users : messy[u] => messy'[u]
    BY <1>1 DEF IInv, TypeOK
  <2>8. q.pc # "insert" /\ q.answer # "limited"
    BY <2>1
  <2> QED BY <1>1, <2>1, <2>2, <2>4, <2>5, <2>6, <2>7, <2>8, StepInv
<1>4. CASE SetSpent(d) /\ Goto(r, "apply")
  <2>1. request' = [request EXCEPT ![r] = [request[r] EXCEPT !.pc = "apply", !.answer = "none"]]
    <3>1. request' = [request EXCEPT ![r] = [request[r] EXCEPT !.pc = "apply"]]
      BY <1>4 DEF Goto, IInv, TypeOK
    <3>2. request[r].answer = "none"
      BY <1>1 DEF Linked
    <3>3. [request[r] EXCEPT !.pc = "apply", !.answer = "none"]
            = [request[r] EXCEPT !.pc = "apply"]
      BY <1>1, <3>2 DEF Request
    <3> QED BY <3>1, <3>3
  <2> QED BY <1>3, <1>4, <2>1
<1>5. CASE (SetSpent(d) \/ UNCHANGED code) /\ Finish(r, "lost")
  <2>1. request' = [request EXCEPT ![r] = [request[r] EXCEPT !.pc = "done", !.answer = "lost"]]
    BY <1>5 DEF Finish
  <2> QED BY <1>3, <1>5, <2>1
<1> QED BY <1>d, <1>4, <1>5 DEF Mark

LEMMA ApplyInv == ASSUME IInv, NEW r \in Requests, Apply(r) PROVE IInv'
<1>1. /\ request[r] \in Request /\ Linked(request[r]) /\ request[r].pc = "apply"
      /\ UNCHANGED <<code, messy>>
  BY Known DEF Apply
<1>2. account' \in [Users -> {"absent", "unverified", "verified"}]
  <2>1. account \in [Users -> {"absent", "unverified", "verified"}]
    BY DEF IInv, TypeOK
  <2> QED BY <2>1 DEF Apply, Updated
<1>3. PICK answer \in {"ok", "lost"} : Finish(r, answer)
  BY DEF Apply
<1>q. PICK q : q = [request[r] EXCEPT !.pc = "done", !.answer = answer]
  OBVIOUS
<1>4. /\ q \in Request /\ q.pc = "done" /\ q.answer = answer /\ q.found = request[r].found
      /\ q.holds = request[r].holds /\ q.kind = request[r].kind
      /\ q.value = request[r].value /\ q.stale = request[r].stale
  BY <1>1, <1>q DEF Request, Stages
<1>5. Linked(q)
  BY <1>1, <1>4 DEF Linked, Held
<1>6. request' = [request EXCEPT ![r] = q]
  BY <1>3, <1>q DEF Finish
<1>7. /\ code' \in [Requests -> Code] /\ messy' \in [Users -> BOOLEAN]
      /\ \A u \in Users : messy[u] => messy'[u]
      /\ \A d \in Requests : Ages(code[d], code'[d])
      /\ \A d \in Requests : code'[d].state = "spent" => code[d].state = "spent"
  BY <1>1 DEF IInv, TypeOK, Ages
<1> QED BY <1>1, <1>2, <1>4, <1>5, <1>6, <1>7, StepInv

LEMMA ExpireInv == ASSUME IInv, NEW d \in Requests, Expire(d) PROVE IInv'
<1>1. code \in [Requests -> Code] /\ UNCHANGED <<account, request, messy>>
  BY DEF Expire, IInv, TypeOK
<1>2. code' = [code EXCEPT ![d] = [code[d] EXCEPT !.expired = TRUE]]
  BY <1>1 DEF Expire
<1>3. [code[d] EXCEPT !.expired = TRUE] \in Code
  BY <1>1 DEF Code
<1>4. \A x \in Requests : /\ code'[x].state = code[x].state /\ code'[x].value = code[x].value
                          /\ code'[x].sent = code[x].sent
  BY <1>1, <1>2 DEF Code
<1>5. TypeOK'
  BY <1>1, <1>2, <1>3 DEF IInv, TypeOK
<1>6. DocsInv' /\ UniqueInv'
  BY <1>1, <1>4 DEF IInv, DocsInv, UniqueInv
<1>7. ASSUME NEW q \in Request, Linked(q) PROVE Linked(q)'
  <2>1. q.holds # None => q.holds \in Requests
    BY DEF Request
  <2>2. q.found # None => q.found \in Requests
    BY DEF Request
  <2> QED BY <1>1, <1>4, <1>7, <2>1, <2>2 DEF Linked, Held
<1>8. LinkInv'
  BY <1>1, <1>7 DEF IInv, LinkInv, TypeOK
<1>9. \A u \in Users : LiveOf(u)' = LiveOf(u) /\ Inserting(u)' = Inserting(u)
                         /\ SpentOf(u)' = SpentOf(u)
  BY <1>1, <1>4 DEF LiveOf, Inserting, SpentOf
<1>10. OneLiveInv'
  BY <1>1, <1>9 DEF IInv, OneLiveInv
<1>11. SpentInv'
  BY <1>1, <1>4 DEF IInv, SpentInv, Works
<1>12. LimitInv'
  <2>1. \A r \in Requests : request[r].user \in Users
    BY DEF IInv, TypeOK, Request
  <2> QED BY <1>1, <1>9, <2>1 DEF IInv, LimitInv, LimitOK
<1> QED BY <1>5, <1>6, <1>8, <1>10, <1>11, <1>12 DEF IInv

LEMMA NextInv == IInv /\ [Next]_vars => IInv'
<1> SUFFICES ASSUME IInv, [Next]_vars PROVE IInv'
  OBVIOUS
<1>1. ASSUME NEW r \in Requests, GenerateStep(r) PROVE IInv'
  BY <1>1, RegisterInv, AskInv, ResendCountInv, GenerateDeleteInv, GenerateInsertInv
     DEF GenerateStep
<1>2. ASSUME NEW r \in Requests, PresentStep(r) PROVE IInv'
  BY <1>2, ArriveInv, LookupInv, MarkInv, ApplyInv DEF PresentStep
<1>3. CASE UNCHANGED vars
  BY <1>3 DEF vars, IInv, TypeOK, DocsInv, UniqueInv, LinkInv, Linked, Held, OneLiveInv,
              LiveOf, Inserting, SpentInv, Works, LimitInv, LimitOK, SpentOf
<1> QED BY <1>1, <1>2, <1>3, ExpireInv DEF Next

LEMMA Invariance == Spec => []IInv
BY InitInv, NextInv, PTL DEF Spec

(* The types, for any users, codes and requests.                           *)
THEOREM TypeCorrect == Spec => []TypeOK
<1>1. IInv => TypeOK
  BY DEF IInv
<1> QED BY <1>1, Invariance, PTL

(* A code used or replaced before it is presented is not the one the       *)
(* lookup returns (email_verify.go and password.go, the lookups).          *)
THEOREM StaleCodeRefusedHolds == Spec => []StaleCodeRefused
<1>1. IInv => StaleCodeRefused
  BY DEF IInv, LinkInv, Linked, StaleCodeRefused
<1> QED BY <1>1, Invariance, PTL

(* A code that was sent finds another document only once its own is        *)
(* deleted, for the index admits a value once (mongo.go, EnsureIndexes).   *)
THEOREM OtherCodeNeedsDeletionHolds == Spec => []OtherCodeNeedsDeletion
<1>1. IInv => OtherCodeNeedsDeletion
  BY DEF IInv, LinkInv, Linked, Held, OtherCodeNeedsDeletion
<1> QED BY <1>1, Invariance, PTL

(* A used code took effect, is about to, or was lost to a database error   *)
(* (email_verify.go and password.go: the mark comes before the effect).    *)
THEOREM SpentCodeTookEffectHolds == Spec => []SpentCodeTookEffect
<1>1. IInv => SpentCodeTookEffect
  BY DEF IInv, SpentInv, Works, SpentCodeTookEffect
<1> QED BY <1>1, Invariance, PTL

(* A resend is refused only after deletions that failed or overlapped, or  *)
(* with as many used codes as the limit but one (email_verify.go, the      *)
(* count of the resend limit).                                             *)
THEOREM LimitNeedsOverlapHolds == Spec => []LimitNeedsOverlap
<1>1. ASSUME IInv, NEW r \in Requests, request[r].answer = "limited"
      PROVE  \/ messy[request[r].user]
             \/ Cardinality({d \in StoredOf("verify", request[r].user) :
                               code[d].state = "spent"}) + 1 >= ResendLimit
  <2>1. {d \in StoredOf("verify", request[r].user) : code[d].state = "spent"}
          = SpentOf(request[r].user)
    BY DEF StoredOf, Stored, SpentOf
  <2> QED BY <1>1, <2>1 DEF IInv, LimitInv, LimitOK
<1>2. IInv => LimitNeedsOverlap
  BY <1>1 DEF LimitNeedsOverlap
<1> QED BY <1>2, Invariance, PTL
============================================================================
