-------------------------- MODULE Accounts_proofs --------------------------
(***************************************************************************)
(* Proofs about Accounts, for any sets of addresses and requests.          *)
(***************************************************************************)
EXTENDS Accounts, TLAPS

(* A request past the read of an invitation works on one that exists, for  *)
(* its role and its address; the account comes after the mark.             *)
FlightInv ==
  \A r \in Requests :
    /\ request[r].pc = "idle" => invite[r].state = "absent" /\ request[r].invite = None
    /\ request[r].pc = "mark" => request[r].invite # None
    /\ request[r].invite # None =>
         /\ invite[request[r].invite].state # "absent"
         /\ invite[request[r].invite].role = request[r].role
         /\ invite[request[r].invite].email \in {request[r].email, None}
    /\ request[r].pc = "create" /\ request[r].invite # None
         => invite[request[r].invite].state = "accepted"
    /\ request[r].why # "none" => request[r].pc = "done"

(* An account is what its request asked for.                               *)
AccountInv ==
  \A r \in Requests :
    account[r].present =>
      /\ request[r].pc = "done"
      /\ account[r].email = request[r].email
      /\ account[r].role = request[r].role
      /\ request[r].invite # None => invite[request[r].invite].state = "accepted"

(* The requests that hold the acceptance of an invitation: one at most.    *)
Holds(r, i) ==
  request[r].invite = i /\ (request[r].pc = "create" \/ account[r].present)

OneHolder ==
  \A r, s, i \in Requests : Holds(r, i) /\ Holds(s, i) => r = s

OpenInv ==
  \A r, i \in Requests : Holds(r, i) => invite[i].state = "accepted"

(* Without an invitation there are drivers and super administrators.       *)
RoleInv ==
  \A r \in Requests :
    /\ request[r].invite = None
    /\ request[r].pc = "create" \/ account[r].present
    => request[r].role \in {"DRIVER", "SUPER_ADMIN"}

InviterInv ==
  \A i \in Requests :
    invite[i].state # "absent" =>
      invite[i].by \in Requests /\ HasRole(invite[i].by, Inviters)

RootInv ==
  (\E a \in Requests : account[a].present /\ account[a].role # "DRIVER")
    => \E s \in Requests : account[s].present /\ account[s].role = "SUPER_ADMIN"

IInv ==
  /\ TypeOK
  /\ FlightInv
  /\ AccountInv
  /\ OneHolder
  /\ OpenInv
  /\ RoleInv
  /\ InviterInv
  /\ RootInv
  /\ LostInvitationHasCause

------------------------------------------------------------------------------
LEMMA InitInv == Init => IInv
<1> SUFFICES ASSUME Init PROVE IInv
  OBVIOUS
<1>1. TypeOK
  BY DEF Init, TypeOK, Account, Invite, Request, Roles, InvitedRoles
<1>2. \A r \in Requests :
        /\ account[r].present = FALSE /\ invite[r].state = "absent"
        /\ request[r].pc = "idle" /\ request[r].invite = None /\ request[r].why = "none"
  BY DEF Init
<1>3. FlightInv /\ AccountInv /\ RoleInv /\ InviterInv /\ RootInv
  BY <1>2, AccountsAssumption DEF FlightInv, AccountInv, RoleInv, InviterInv, RootInv
<1>4. OneHolder /\ OpenInv /\ LostInvitationHasCause
  BY <1>2, AccountsAssumption DEF OneHolder, OpenInv, Holds, LostInvitationHasCause
<1> QED BY <1>1, <1>3, <1>4 DEF IInv

(* One request moves on.                                                   *)
Moves(r, q) ==
  /\ q \in Request
  /\ request' \in [Requests -> Request]
  /\ request'[r] = q
  /\ \A x \in Requests \ {r} : request'[x] = request[x]

LEMMA OneRequest ==
  ASSUME TypeOK, NEW r \in Requests, NEW q \in Request,
         request' = [request EXCEPT ![r] = q]
  PROVE  Moves(r, q)
BY DEF Moves, TypeOK

LEMMA DoneMoves ==
  ASSUME TypeOK, NEW r \in Requests, Done(r)
  PROVE  \E q \in Request :
           /\ Moves(r, q)
           /\ q.pc = "done" /\ q.email = request[r].email /\ q.role = request[r].role
           /\ q.invite = request[r].invite /\ q.why = request[r].why
<1> DEFINE rec == [request[r] EXCEPT !.pc = "done"]
<1>1. /\ rec \in Request
      /\ rec.pc = "done" /\ rec.email = request[r].email /\ rec.role = request[r].role
      /\ rec.invite = request[r].invite /\ rec.why = request[r].why
  BY DEF TypeOK, Request
<1>2. request' = [request EXCEPT ![r] = rec]
  BY DEF Done
<1> HIDE DEF rec
<1> QED BY <1>1, <1>2, OneRequest

LEMMA FailMoves ==
  ASSUME TypeOK, NEW r \in Requests, NEW why \in {"error", "taken", "password", "stopped"},
         Fail(r, why)
  PROVE  \E q \in Request :
           /\ Moves(r, q)
           /\ q.pc = "done" /\ q.email = request[r].email /\ q.role = request[r].role
           /\ q.invite = request[r].invite /\ q.long = request[r].long /\ q.why = why
<1> DEFINE rec == [request[r] EXCEPT !.pc = "done", !.why = why]
<1>1. /\ rec \in Request
      /\ rec.pc = "done" /\ rec.email = request[r].email /\ rec.role = request[r].role
      /\ rec.invite = request[r].invite /\ rec.long = request[r].long /\ rec.why = why
  BY DEF TypeOK, Request
<1>2. request' = [request EXCEPT ![r] = rec]
  BY DEF Fail
<1> HIDE DEF rec
<1> QED BY <1>1, <1>2, OneRequest

------------------------------------------------------------------------------
(* A request that ends without touching a document.                        *)
LEMMA EndInv ==
  ASSUME IInv, NEW r \in Requests, request[r].pc \in {"idle", "mark"},
         NEW q \in Request, Moves(r, q), UNCHANGED <<account, invite>>,
         q.pc = "done", q.email = request[r].email, q.role = request[r].role,
         q.invite = request[r].invite
  PROVE  IInv'
<1> USE DEF IInv, Moves
<1>1. TypeOK' /\ FlightInv' /\ AccountInv' /\ RoleInv'
  BY DEF TypeOK, FlightInv, AccountInv, RoleInv
<1>2. OneHolder' /\ OpenInv' /\ InviterInv' /\ RootInv'
  BY DEF OneHolder, OpenInv, Holds, InviterInv, RootInv, HasRole
<1>3. LostInvitationHasCause'
  BY DEF LostInvitationHasCause, Taken, AccountInv, FlightInv
<1> QED BY <1>1, <1>2, <1>3

LEMMA EnterInv ==
  ASSUME IInv, NEW r \in Requests, NEW role \in {"DRIVER", "SUPER_ADMIN"}, Enter(r, role)
  PROVE  IInv'
<1> USE DEF IInv
<1>1. PICK e \in Emails, long \in BOOLEAN :
        \/ Done(r)
        \/ request' = [request EXCEPT ![r] = [@ EXCEPT !.pc = "create", !.email = e,
                                                       !.role = role, !.long = long]]
  BY DEF Enter
<1>2. request[r].pc = "idle" /\ UNCHANGED <<account, invite>>
  BY DEF Enter
<1>3. CASE Done(r)
  BY <1>2, <1>3, DoneMoves, EndInv
<1>4. CASE ~Done(r)
  <2> DEFINE q == [request[r] EXCEPT !.pc = "create", !.email = e, !.role = role,
                                     !.long = long]
  <2>1. /\ q \in Request /\ q.pc = "create" /\ q.email = e /\ q.role = role
        /\ q.invite = request[r].invite /\ q.why = request[r].why
    BY DEF TypeOK, Request, Roles
  <2>2. request' = [request EXCEPT ![r] = q]
    BY <1>1, <1>4
  <2> HIDE DEF q
  <2>3. Moves(r, q)
    BY <2>1, <2>2, OneRequest
  <2>4. q.invite = None /\ q.why = "none" /\ ~account[r].present
    BY <1>2, <2>1 DEF FlightInv, AccountInv, TypeOK, Request
  <2> USE DEF Moves
  <2>5. TypeOK' /\ FlightInv' /\ AccountInv' /\ RoleInv'
    BY <1>2, <2>1, <2>3, <2>4 DEF TypeOK, FlightInv, AccountInv, RoleInv
  <2>6. OneHolder' /\ OpenInv' /\ InviterInv' /\ RootInv'
    BY <1>2, <2>1, <2>3, <2>4, AccountsAssumption
       DEF OneHolder, OpenInv, Holds, InviterInv, RootInv, HasRole
  <2>7. LostInvitationHasCause'
    BY <1>2, <2>1, <2>3, <2>4 DEF LostInvitationHasCause, Taken, AccountInv, FlightInv
  <2> QED BY <2>5, <2>6, <2>7
<1> QED BY <1>3, <1>4

LEMMA CreateInviteInv ==
  ASSUME IInv, NEW r \in Requests, CreateInvite(r) PROVE IInv'
<1> USE DEF IInv
<1>1. request[r].pc = "idle" /\ Done(r) /\ UNCHANGED account
  BY DEF CreateInvite, GenerateInvite
<1>2. PICK a \in Requests :
        /\ HasRole(a, Inviters)
        /\ \/ \E role \in InvitableRoles, e \in Emails \cup {None} :
                invite' = [invite EXCEPT ![r] = [state |-> "open", role |-> role, email |-> e,
                                                 expired |-> FALSE, by |-> a]]
           \/ UNCHANGED invite
  BY DEF CreateInvite, GenerateInvite
<1>3. PICK q \in Request :
        /\ Moves(r, q)
        /\ q.pc = "done" /\ q.email = request[r].email /\ q.role = request[r].role
        /\ q.invite = request[r].invite /\ q.why = request[r].why
  BY <1>1, DoneMoves
<1>4. CASE UNCHANGED invite
  BY <1>1, <1>3, <1>4, EndInv
<1>5. CASE ~UNCHANGED invite
  <2>1. PICK role \in InvitableRoles, e \in Emails \cup {None} :
          invite' = [invite EXCEPT ![r] = [state |-> "open", role |-> role, email |-> e,
                                           expired |-> FALSE, by |-> a]]
    BY <1>2, <1>5
  <2>2. /\ invite' \in [Requests -> Invite]
        /\ invite'[r].state = "open" /\ invite'[r].by = a
        /\ \A x \in Requests \ {r} : invite'[x] = invite[x]
    BY <2>1 DEF TypeOK, Invite, InvitableRoles
  <2>3. invite[r].state = "absent" /\ q.invite = None /\ q.why = "none" /\ ~account[r].present
    BY <1>1, <1>3 DEF FlightInv, AccountInv, TypeOK, Request
  <2>4. \A x \in Requests : request[x].invite # r
    BY <2>3, AccountsAssumption DEF FlightInv
  <2> USE DEF Moves
  <2>5. TypeOK' /\ FlightInv'
    BY <1>1, <1>3, <2>2, <2>3, <2>4 DEF TypeOK, FlightInv, Request
  <2>9. AccountInv' /\ RoleInv'
    <3>1. AccountInv'
      <4> SUFFICES ASSUME NEW x \in Requests, account[x].present
                   PROVE  /\ request'[x].pc = "done"
                          /\ account[x].email = request'[x].email
                          /\ account[x].role = request'[x].role
                          /\ request'[x].invite # None
                               => invite'[request'[x].invite].state = "accepted"
        BY <1>1 DEF AccountInv
      <4>1. x # r /\ request'[x] = request[x]
        BY <1>3, <2>3
      <4>2. request[x].invite = None \/ request[x].invite \in Requests \ {r}
        BY <2>4 DEF TypeOK, Request
      <4> QED BY <2>2, <4>1, <4>2 DEF AccountInv
    <3>2. RoleInv'
      BY <1>1, <1>3, <2>2, <2>3, <2>4 DEF RoleInv
    <3> QED BY <3>1, <3>2
  <2>6. OneHolder' /\ OpenInv' /\ RootInv'
    BY <1>1, <1>3, <2>2, <2>3, <2>4, AccountsAssumption DEF OneHolder, OpenInv, Holds, RootInv
  <2>7. InviterInv'
    BY <1>1, <1>2, <2>2 DEF InviterInv, HasRole
  <2>8. LostInvitationHasCause'
    BY <1>1, <1>3, <2>2, <2>3, AccountsAssumption
       DEF LostInvitationHasCause, Taken, AccountInv, FlightInv
  <2> QED BY <2>5, <2>6, <2>7, <2>8, <2>9
<1> QED BY <1>4, <1>5

LEMMA ExpireInv == ASSUME IInv, NEW i \in Requests, Expire(i) PROVE IInv'
<1> USE DEF IInv
<1> DEFINE rec == [invite[i] EXCEPT !.expired = TRUE]
<1>1. /\ rec \in Invite /\ rec.state = invite[i].state /\ rec.role = invite[i].role
      /\ rec.email = invite[i].email /\ rec.by = invite[i].by
  BY DEF TypeOK, Invite
<1>2. invite' = [invite EXCEPT ![i] = rec] /\ UNCHANGED <<account, request>>
  BY DEF Expire
<1> HIDE DEF rec
<1>3. /\ invite' \in [Requests -> Invite]
      /\ \A x \in Requests : /\ invite'[x].state = invite[x].state
                             /\ invite'[x].role = invite[x].role
                             /\ invite'[x].email = invite[x].email
                             /\ invite'[x].by = invite[x].by
  BY <1>1, <1>2 DEF TypeOK
<1>4. TypeOK' /\ FlightInv' /\ AccountInv' /\ RoleInv'
  BY <1>2, <1>3 DEF TypeOK, FlightInv, AccountInv, RoleInv, Request
<1>5. OneHolder' /\ OpenInv' /\ InviterInv' /\ RootInv'
  BY <1>2, <1>3 DEF OneHolder, OpenInv, Holds, InviterInv, RootInv, HasRole
<1>6. LostInvitationHasCause'
  BY <1>2, <1>3 DEF LostInvitationHasCause, Taken
<1> QED BY <1>4, <1>5, <1>6

LEMMA AcceptReadInv == ASSUME IInv, NEW r \in Requests, AcceptRead(r) PROVE IInv'
<1> USE DEF IInv
<1>1. request[r].pc = "idle" /\ UNCHANGED <<account, invite>>
  BY DEF AcceptRead
<1>2. CASE Done(r)
  BY <1>1, <1>2, DoneMoves, EndInv
<1>3. CASE ~Done(r)
  <2>1. PICK i \in Requests, e \in Emails, long \in BOOLEAN :
          /\ invite[i].state = "open" /\ invite[i].email \in {e, None}
          /\ request' = [request EXCEPT ![r] =
                           [@ EXCEPT !.pc = "mark", !.invite = i, !.email = e,
                                     !.role = invite[i].role, !.long = long]]
    BY <1>3 DEF AcceptRead
  <2> DEFINE q == [request[r] EXCEPT !.pc = "mark", !.invite = i, !.email = e,
                                     !.role = invite[i].role, !.long = long]
  <2>2. /\ q \in Request /\ q.pc = "mark" /\ q.email = e /\ q.role = invite[i].role
        /\ q.invite = i /\ q.why = request[r].why
    <3>1. request[r] \in Request /\ invite[i].role \in Roles
      BY DEF TypeOK, Invite, InvitedRoles, Roles
    <3>2. i \in Requests /\ e \in Emails /\ long \in BOOLEAN
      OBVIOUS
    <3> QED BY <3>1, <3>2 DEF Request
  <2>3. request' = [request EXCEPT ![r] = q]
    BY <2>1
  <2> HIDE DEF q
  <2>4. Moves(r, q)
    BY <2>2, <2>3, OneRequest
  <2>5. q.why = "none" /\ ~account[r].present /\ request[r].invite = None /\ i # None
    BY <1>1, <2>2, AccountsAssumption DEF FlightInv, AccountInv, TypeOK, Request
  <2> USE DEF Moves
  <2>6. TypeOK' /\ FlightInv' /\ AccountInv' /\ RoleInv'
    BY <1>1, <2>1, <2>2, <2>4, <2>5 DEF TypeOK, FlightInv, AccountInv, RoleInv
  <2>7. OneHolder' /\ OpenInv' /\ InviterInv' /\ RootInv'
    BY <1>1, <2>1, <2>2, <2>4, <2>5 DEF OneHolder, OpenInv, Holds, InviterInv, RootInv, HasRole
  <2>8. LostInvitationHasCause'
    BY <1>1, <2>1, <2>2, <2>4, <2>5, AccountsAssumption
       DEF LostInvitationHasCause, Taken
  <2> QED BY <2>6, <2>7, <2>8
<1> QED BY <1>2, <1>3

LEMMA AcceptMarkInv == ASSUME IInv, NEW r \in Requests, AcceptMark(r) PROVE IInv'
<1> USE DEF IInv
<1>1. PICK i \in Requests : i = request[r].invite
  BY DEF AcceptMark, FlightInv, TypeOK, Request
<1>2. request[r].pc = "mark" /\ UNCHANGED account
  BY DEF AcceptMark
<1>3. CASE UNCHANGED invite
  <2>1. CASE Done(r)
    BY <1>2, <1>3, <2>1, DoneMoves, EndInv
  <2>2. CASE Fail(r, "error")
    BY <1>2, <1>3, <2>2, FailMoves, EndInv
  <2>3. ~(invite[i].state = "open" /\ MarkAccepted(i))
    BY <1>3 DEF MarkAccepted, TypeOK, Invite
  <2> QED BY <1>1, <2>1, <2>2, <2>3 DEF AcceptMark
<1>4. CASE ~UNCHANGED invite
  <2>1. /\ invite[i].state = "open" /\ MarkAccepted(i)
        /\ request' = [request EXCEPT ![r].pc = "create"] \/ Fail(r, "error")
    BY <1>1, <1>4 DEF AcceptMark
  <2> DEFINE rec == [invite[i] EXCEPT !.state = "accepted"]
  <2>2. /\ rec \in Invite /\ rec.state = "accepted" /\ rec.role = invite[i].role
        /\ rec.email = invite[i].email /\ rec.by = invite[i].by
    BY DEF TypeOK, Invite
  <2>3. invite' = [invite EXCEPT ![i] = rec]
    BY <2>1 DEF MarkAccepted
  <2> HIDE DEF rec
  <2>4. /\ invite' \in [Requests -> Invite] /\ invite'[i].state = "accepted"
        /\ \A x \in Requests : /\ invite'[x].role = invite[x].role
                               /\ invite'[x].email = invite[x].email
                               /\ invite'[x].by = invite[x].by
        /\ \A x \in Requests \ {i} : invite'[x].state = invite[x].state
    BY <2>2, <2>3 DEF TypeOK
  <2>5. PICK q \in Request :
          /\ Moves(r, q)
          /\ \/ q.pc = "create" /\ q.why = request[r].why
             \/ q.pc = "done" /\ q.why = "error"
          /\ q.email = request[r].email /\ q.role = request[r].role
          /\ q.invite = i
    <3>1. CASE Fail(r, "error")
      BY <1>1, <3>1, FailMoves
    <3>2. CASE request' = [request EXCEPT ![r].pc = "create"]
      <4> DEFINE p == [request[r] EXCEPT !.pc = "create"]
      <4>1. /\ p \in Request /\ p.pc = "create" /\ p.email = request[r].email
            /\ p.role = request[r].role /\ p.invite = request[r].invite
            /\ p.why = request[r].why
        BY DEF TypeOK, Request
      <4>2. request' = [request EXCEPT ![r] = p]
        BY <3>2
      <4> HIDE DEF p
      <4>3. Moves(r, p)
        BY <4>1, <4>2, OneRequest
      <4> QED BY <1>1, <4>1, <4>3
    <3> QED BY <2>1, <3>1, <3>2
  <2>6. ~account[r].present /\ request[r].why = "none" /\ i # None
    BY <1>1, <1>2, AccountsAssumption DEF AccountInv, FlightInv, TypeOK, Request
  <2>7. \A x \in Requests : ~Holds(x, i)
    BY <2>1 DEF OpenInv
  <2> USE DEF Moves
  <2>8. TypeOK' /\ FlightInv'
    BY <1>1, <1>2, <2>1, <2>4, <2>5, <2>6 DEF TypeOK, FlightInv, Request
  <2>9. AccountInv' /\ RoleInv'
    <3>1. AccountInv'
      <4> SUFFICES ASSUME NEW x \in Requests, account[x].present
                   PROVE  /\ request'[x].pc = "done"
                          /\ account[x].email = request'[x].email
                          /\ account[x].role = request'[x].role
                          /\ request'[x].invite # None
                               => invite'[request'[x].invite].state = "accepted"
        BY <1>2 DEF AccountInv
      <4>1. x # r /\ request'[x] = request[x]
        BY <2>5, <2>6
      <4>2. request[x].invite = None \/ request[x].invite \in Requests
        BY DEF TypeOK, Request
      <4> QED BY <2>4, <4>1, <4>2 DEF AccountInv
    <3>2. RoleInv'
      BY <1>1, <1>2, <2>5, <2>6 DEF RoleInv
    <3> QED BY <3>1, <3>2
  <2>10. OneHolder'
    BY <1>1, <1>2, <2>1, <2>4, <2>5, <2>6, <2>7 DEF OneHolder, Holds
  <2>11. OpenInv' /\ InviterInv' /\ RootInv'
    BY <1>1, <1>2, <2>1, <2>4, <2>5, <2>6, <2>7 DEF OpenInv, Holds, InviterInv, RootInv, HasRole
  <2>12. LostInvitationHasCause'
    <3> SUFFICES ASSUME NEW k \in Requests, invite'[k].state = "accepted"
                 PROVE  \E s \in Requests :
                          /\ request'[s].invite = k
                          /\ \/ request'[s].pc = "create"
                             \/ account'[s].present
                             \/ request'[s].why \in {"error", "stopped"}
                             \/ request'[s].why = "password" /\ request'[s].long
                             \/ /\ request'[s].why = "taken"
                                /\ \E a \in Requests : /\ account'[a].present
                                                       /\ account'[a].email = request'[s].email
      BY DEF LostInvitationHasCause, Taken
    <3>1. CASE k = i
      BY <2>5, <3>1
    <3>2. CASE k # i
      <4>1. PICK s \in Requests :
              /\ request[s].invite = k
              /\ \/ request[s].pc = "create"
                 \/ account[s].present
                 \/ request[s].why \in {"error", "stopped"}
                 \/ request[s].why = "password" /\ request[s].long
                 \/ request[s].why = "taken" /\ Taken(request[s].email)
        BY <2>4, <3>2 DEF LostInvitationHasCause
      <4>2. s # r
        BY <1>1, <3>2, <4>1
      <4>3. request'[s] = request[s] /\ account' = account
        BY <1>2, <2>5, <4>2
      <4> QED BY <4>1, <4>3 DEF Taken
    <3> QED BY <3>1, <3>2
  <2> QED BY <2>8, <2>9, <2>10, <2>11, <2>12
<1> QED BY <1>3, <1>4

(* A request under way fails, and says why.                                *)
LEMMA FailInv ==
  ASSUME IInv, NEW r \in Requests, request[r].pc \in {"mark", "create"},
         UNCHANGED <<account, invite>>,
         NEW why \in {"error", "taken", "password", "stopped"}, Fail(r, why),
         why = "taken" => Taken(request[r].email),
         why = "password" => request[r].long
  PROVE  IInv'
<1> USE DEF IInv
<1>1. request[r].why = "none" /\ ~account[r].present
  BY DEF FlightInv, AccountInv, TypeOK, Request
<1>2. PICK q \in Request :
        /\ Moves(r, q)
        /\ q.pc = "done" /\ q.email = request[r].email /\ q.role = request[r].role
        /\ q.invite = request[r].invite /\ q.long = request[r].long /\ q.why = why
  BY FailMoves
<1> USE DEF Moves
<1>3. TypeOK' /\ FlightInv'
  BY <1>1, <1>2 DEF TypeOK, FlightInv
<1>4. AccountInv' /\ RoleInv'
  BY <1>1, <1>2 DEF AccountInv, RoleInv
<1>5. OneHolder' /\ OpenInv' /\ InviterInv' /\ RootInv'
  BY <1>1, <1>2 DEF OneHolder, OpenInv, Holds, InviterInv, RootInv, HasRole
<1>6. LostInvitationHasCause'
  BY <1>1, <1>2 DEF LostInvitationHasCause, Taken
<1> QED BY <1>3, <1>4, <1>5, <1>6

(* The account is inserted.                                                *)
LEMMA CreateUserInv == ASSUME IInv, NEW r \in Requests, CreateUser(r) PROVE IInv'
<1> USE DEF IInv
<1>1. request[r].pc = "create" /\ UNCHANGED invite /\ request[r].why = "none"
      /\ ~account[r].present
  BY DEF CreateUser, FlightInv, AccountInv, TypeOK, Request
<1>2. request[r].invite = None \/ request[r].invite \in Requests
  BY DEF TypeOK, Request
<1>3. CASE UNCHANGED account
  <2>1. PICK why \in {"error", "taken", "password"} :
          /\ Fail(r, why)
          /\ why = "taken" => Taken(request[r].email)
          /\ why = "password" => request[r].long
    <3>1. ~InsertUser(r)
      BY <1>1, <1>3 DEF InsertUser, TypeOK, Account
    <3> QED BY <3>1 DEF CreateUser, Hashable
  <2> QED BY <1>1, <1>3, <2>1, FailInv
<1>4. CASE ~UNCHANGED account
  <2> DEFINE doc == [present |-> TRUE, email |-> request[r].email, role |-> request[r].role]
  <2>1. ~Taken(request[r].email) /\ account' = [account EXCEPT ![r] = doc] /\ Done(r)
    BY <1>4 DEF CreateUser, InsertUser
  <2>2. /\ doc \in Account /\ doc.present = TRUE /\ doc.email = request[r].email
        /\ doc.role = request[r].role
    BY DEF TypeOK, Request, Account
  <2> HIDE DEF doc
  <2>3. /\ account' \in [Requests -> Account] /\ account'[r] = doc
        /\ \A x \in Requests \ {r} : account'[x] = account[x]
    BY <2>1, <2>2 DEF TypeOK
  <2>4. PICK q \in Request :
          /\ Moves(r, q)
          /\ q.pc = "done" /\ q.email = request[r].email /\ q.role = request[r].role
          /\ q.invite = request[r].invite /\ q.why = request[r].why
    BY <2>1, DoneMoves
  <2> USE DEF Moves
  <2>5. TypeOK' /\ FlightInv'
    BY <1>1, <2>3, <2>4 DEF TypeOK, FlightInv
  <2>6. AccountInv' /\ RoleInv'
    BY <1>1, <2>2, <2>3, <2>4 DEF AccountInv, RoleInv, FlightInv
  <2>7. \A x, i \in Requests : Holds(x, i)' => Holds(x, i)
    BY <1>1, <2>3, <2>4 DEF Holds
  <2>8. OneHolder' /\ OpenInv' 
    BY <1>1, <2>7 DEF OneHolder, OpenInv
  <2>9. InviterInv'
    BY <1>1, <2>2, <2>3 DEF InviterInv, HasRole, AccountInv
  <2>10. RootInv'
    <3>1. CASE \E s \in Requests : account[s].present /\ account[s].role = "SUPER_ADMIN"
      <4>1. PICK s \in Requests : account[s].present /\ account[s].role = "SUPER_ADMIN"
        BY <3>1
      <4>2. account'[s] = account[s]
        BY <1>1, <2>3, <4>1
      <4> QED BY <4>1, <4>2 DEF RootInv
    <3>2. CASE ~\E s \in Requests : account[s].present /\ account[s].role = "SUPER_ADMIN"
      <4>1. \A a \in Requests : account[a].present => account[a].role = "DRIVER"
        BY <3>2 DEF RootInv
      <4>2. \A i \in Requests : invite[i].state = "absent"
        BY <4>1 DEF InviterInv, HasRole, Inviters
      <4>3. request[r].invite = None
        BY <1>2, <4>2 DEF FlightInv
      <4>4. request[r].role \in {"DRIVER", "SUPER_ADMIN"}
        BY <1>1, <4>3 DEF RoleInv
      <4> QED BY <2>2, <2>3, <4>1, <4>4 DEF RootInv
    <3> QED BY <3>1, <3>2
  <2>11. LostInvitationHasCause'
    <3> SUFFICES ASSUME NEW k \in Requests, invite[k].state = "accepted"
                 PROVE  \E s \in Requests :
                          /\ request'[s].invite = k
                          /\ \/ request'[s].pc = "create"
                             \/ account'[s].present
                             \/ request'[s].why \in {"error", "stopped"}
                             \/ request'[s].why = "password" /\ request'[s].long
                             \/ /\ request'[s].why = "taken"
                                /\ \E a \in Requests : /\ account'[a].present
                                                       /\ account'[a].email = request'[s].email
      BY <1>1 DEF LostInvitationHasCause, Taken
    <3>1. PICK s \in Requests :
            /\ request[s].invite = k
            /\ \/ request[s].pc = "create"
               \/ account[s].present
               \/ request[s].why \in {"error", "stopped"}
               \/ request[s].why = "password" /\ request[s].long
               \/ request[s].why = "taken" /\ Taken(request[s].email)
      BY DEF LostInvitationHasCause
    <3>2. CASE s = r
      BY <2>2, <2>3, <2>4, <3>1, <3>2
    <3>3. CASE s # r
      <4>1. request'[s] = request[s] /\ account'[s] = account[s]
        BY <2>3, <2>4, <3>3
      <4>2. \A a \in Requests : account[a].present => account'[a] = account[a]
        BY <1>1, <2>3
      <4> QED BY <3>1, <4>1, <4>2 DEF Taken
    <3> QED BY <3>2, <3>3
  <2> QED BY <2>5, <2>6, <2>8, <2>9, <2>10, <2>11
<1> QED BY <1>3, <1>4

LEMMA NextInv == IInv /\ [Next]_vars => IInv'
<1> SUFFICES ASSUME IInv, [Next]_vars PROVE IInv'
  OBVIOUS
<1>1. CASE UNCHANGED vars
  <2>1. TypeOK' /\ FlightInv' /\ AccountInv' /\ RoleInv' /\ InviterInv' /\ RootInv'
    BY <1>1 DEF vars, IInv, TypeOK, FlightInv, AccountInv, RoleInv, InviterInv, RootInv, HasRole
  <2>2. OneHolder' /\ OpenInv' /\ LostInvitationHasCause'
    BY <1>1 DEF vars, IInv, OneHolder, OpenInv, Holds, LostInvitationHasCause, Taken
  <2> QED BY <2>1, <2>2 DEF IInv
<1>2. CASE Next
  BY <1>2, EnterInv, CreateInviteInv, ExpireInv, AcceptReadInv, AcceptMarkInv, CreateUserInv,
     FailInv DEF Next, AcceptStep, Register, Bootstrap, Stop
<1> QED BY <1>1, <1>2

LEMMA Invariance == Spec => []IInv
<1> QED BY InitInv, NextInv, PTL DEF Spec

------------------------------------------------------------------------------
(* The state is well typed, for any addresses and requests.                *)
THEOREM TypeCorrect == Spec => []TypeOK
<1>1. IInv => TypeOK
  BY DEF IInv
<1> QED BY <1>1, Invariance, PTL

(* No invitation makes two accounts, for any number of acceptances at once.*)
THEOREM OneAccountPerInvitationHolds == Spec => []OneAccountPerInvitation
<1>1. IInv => OneAccountPerInvitation
  <2> SUFFICES ASSUME IInv, NEW a \in Requests, NEW b \in Requests,
                      account[a].present, account[b].present,
                      request[a].invite = request[b].invite, request[a].invite # None
               PROVE  a = b
    BY DEF OneAccountPerInvitation
  <2>1. request[a].invite \in Requests
    BY DEF IInv, TypeOK, Request
  <2> QED BY <2>1 DEF IInv, OneHolder, Holds
<1> QED BY <1>1, Invariance, PTL

(* Staff was invited by an administrator, and some super administrator was *)
(* bootstrapped first.                                                     *)
THEOREM StaffInvitedHolds == Spec => []StaffInvited
<1>1. IInv => StaffInvited
  <2> SUFFICES ASSUME IInv, NEW a \in Requests, account[a].present, account[a].role # "DRIVER",
                      account[a].role # "SUPER_ADMIN"
               PROVE  \E i \in Requests : /\ invite[i].state = "accepted"
                                          /\ invite[i].role = account[a].role
                                          /\ invite[i].email \in {None, account[a].email}
                                          /\ invite[i].by \in Requests
                                          /\ account[invite[i].by].present
                                          /\ account[invite[i].by].role \in Inviters
    BY DEF StaffInvited, IInv, RootInv
  <2>1. request[a].invite \in Requests
    BY DEF IInv, TypeOK, Request, RoleInv, AccountInv
  <2>2. /\ invite[request[a].invite].state = "accepted"
        /\ invite[request[a].invite].role = account[a].role
        /\ invite[request[a].invite].email \in {None, account[a].email}
    BY <2>1, AccountsAssumption DEF IInv, AccountInv, FlightInv
  <2> QED BY <2>1, <2>2 DEF IInv, InviterInv, HasRole
<1> QED BY <1>1, Invariance, PTL

(* Every spent invitation without an account has a cause.                  *)
THEOREM LostInvitationHasCauseHolds == Spec => []LostInvitationHasCause
<1>1. IInv => LostInvitationHasCause
  BY DEF IInv
<1> QED BY <1>1, Invariance, PTL

------------------------------------------------------------------------------
(* Refinement.                                                             *)

LEMMA AbstractInit == Init => Abstract!Init
<1> SUFFICES ASSUME Init PROVE Members = {} /\ GrantOf = [g \in Requests |->
                                 [state |-> "none", role |-> "OFFICER", email |-> None]]
  BY DEF Abstract!Init
<1>1. \A r \in Requests : account[r].present = FALSE
  BY DEF Init
<1>2. \A i \in Requests : GrantState(i) = "none" /\ invite[i].role = "OFFICER"
                          /\ invite[i].email = None
  BY DEF Init, GrantState
<1> QED BY <1>1, <1>2 DEF Members, GrantOf

(* Grants that keep their state, role and address are the same grants.     *)
LEMMA SameGrants ==
  ASSUME \A i \in Requests : /\ GrantState(i)' = GrantState(i)
                             /\ invite'[i].role = invite[i].role
                             /\ invite'[i].email = invite[i].email
  PROVE  GrantOf' = GrantOf
BY DEF GrantOf

(* One grant closes.                                                       *)
LEMMA ClosesGrant ==
  ASSUME NEW i \in Requests, GrantState(i)' = "closed",
         \A k \in Requests : /\ k # i => GrantState(k)' = GrantState(k)
                             /\ invite'[k].role = invite[k].role
                             /\ invite'[k].email = invite[k].email
  PROVE  GrantOf' = [GrantOf EXCEPT ![i].state = "closed"]
<1>1. GrantOf[i] = [state |-> GrantState(i), role |-> invite[i].role, email |-> invite[i].email]
  BY DEF GrantOf
<1>2. [GrantOf[i] EXCEPT !.state = "closed"]
        = [state |-> "closed", role |-> invite[i].role, email |-> invite[i].email]
  BY <1>1
<1>3. GrantOf' = [k \in Requests |-> [state |-> GrantState(k)', role |-> invite'[k].role,
                                      email |-> invite'[k].email]]
  BY DEF GrantOf
<1>4. [GrantOf EXCEPT ![i].state = "closed"]
        = [k \in Requests |-> IF k = i THEN [GrantOf[i] EXCEPT !.state = "closed"] ELSE GrantOf[k]]
  BY DEF GrantOf
<1>5. \A k \in Requests \ {i} :
        GrantOf[k] = [state |-> GrantState(k), role |-> invite[k].role, email |-> invite[k].email]
  BY DEF GrantOf
<1> QED BY <1>2, <1>3, <1>4, <1>5

(* Steps that insert no account and mark no invitation but their own.      *)
LEMMA QuietStep ==
  ASSUME IInv, NEW r \in Requests,
         Expire(r) \/ AcceptRead(r) \/ \E role \in {"DRIVER", "SUPER_ADMIN"} : Enter(r, role)
  PROVE  UNCHANGED Abstract!vars
<1>1. UNCHANGED account /\ Members' = Members
  <2>1. UNCHANGED account
    BY DEF Expire, AcceptRead, Enter
  <2> QED BY <2>1 DEF Members
<1>2. \A i \in Requests : /\ invite'[i].role = invite[i].role
                          /\ invite'[i].email = invite[i].email
                          /\ invite'[i].state = invite[i].state
  <2>1. CASE Expire(r)
    BY <2>1 DEF Expire, IInv, TypeOK, Invite
  <2>2. CASE ~Expire(r)
    BY <2>2 DEF AcceptRead, Enter
  <2> QED BY <2>1, <2>2
<1>3. \A x, i \in Requests :
        (request'[x].pc = "create" /\ request'[x].invite = i)
          <=> (request[x].pc = "create" /\ request[x].invite = i)
  <2>1. CASE Expire(r)
    BY <2>1 DEF Expire
  <2>2. CASE Done(r) /\ request[r].pc = "idle"
    <3>1. PICK q \in Request : Moves(r, q) /\ q.pc = "done"
      BY <2>2, DoneMoves DEF IInv
    <3> QED BY <2>2, <3>1 DEF Moves
  <2>3. CASE \E e \in Emails, role \in Roles, long \in BOOLEAN :
               /\ request[r].pc = "idle"
               /\ request' = [request EXCEPT ![r] = [@ EXCEPT !.pc = "create", !.email = e,
                                                              !.role = role, !.long = long]]
    <3>1. PICK e \in Emails, role \in Roles, long \in BOOLEAN :
               /\ request[r].pc = "idle"
               /\ request' = [request EXCEPT ![r] = [@ EXCEPT !.pc = "create", !.email = e,
                                                              !.role = role, !.long = long]]
      BY <2>3
    <3>2. request'[r].invite = None
      BY <3>1 DEF IInv, TypeOK, Request, FlightInv
    <3> QED BY <3>1, <3>2, AccountsAssumption DEF IInv, TypeOK, Request
  <2>4. CASE AcceptRead(r)
    <3>1. PICK i \in Requests, e \in Emails, long \in BOOLEAN :
            \/ Done(r)
            \/ request' = [request EXCEPT ![r] =
                             [@ EXCEPT !.pc = "mark", !.invite = i, !.email = e,
                                       !.role = invite[i].role, !.long = long]]
      BY <2>4 DEF AcceptRead
    <3>2. request[r].pc = "idle"
      BY <2>4 DEF AcceptRead
    <3>3. CASE Done(r)
      BY <2>2, <3>2, <3>3
    <3>4. CASE ~Done(r)
      <4>1. request' = [request EXCEPT ![r] =
                           [@ EXCEPT !.pc = "mark", !.invite = i, !.email = e,
                                     !.role = invite[i].role, !.long = long]]
        BY <3>1, <3>4
      <4>2. request'[r].pc = "mark" /\ \A x \in Requests \ {r} : request'[x] = request[x]
        BY <4>1 DEF IInv, TypeOK, Request
      <4> QED BY <3>2, <4>2
    <3> QED BY <3>3, <3>4
  <2>5. CASE \E role \in {"DRIVER", "SUPER_ADMIN"} : Enter(r, role)
    BY <2>2, <2>3, <2>5 DEF Enter, Roles
  <2> QED BY <2>1, <2>4, <2>5
<1>4. \A i \in Requests : GrantState(i)' = GrantState(i)
  BY <1>2, <1>3 DEF GrantState
<1> QED BY <1>1, <1>2, <1>4, SameGrants DEF Abstract!vars

LEMMA CreateInviteStep ==
  ASSUME IInv, NEW r \in Requests, CreateInvite(r)
  PROVE  [Abstract!Next]_Abstract!vars
<1>1. UNCHANGED account /\ Members' = Members /\ request[r].pc = "idle"
  BY DEF CreateInvite, Members
<1>2. PICK q \in Request : Moves(r, q) /\ q.pc = "done"
  BY DoneMoves DEF CreateInvite, IInv
<1>3. \A x, i \in Requests :
        (request'[x].pc = "create" /\ request'[x].invite = i)
          <=> (request[x].pc = "create" /\ request[x].invite = i)
  BY <1>1, <1>2 DEF Moves
<1>4. PICK a \in Requests :
        /\ HasRole(a, Inviters)
        /\ \/ \E role \in InvitableRoles, e \in Emails \cup {None} :
                invite' = [invite EXCEPT ![r] = [state |-> "open", role |-> role, email |-> e,
                                                 expired |-> FALSE, by |-> a]]
           \/ UNCHANGED invite
  BY DEF CreateInvite, GenerateInvite
<1>5. CASE UNCHANGED invite
  <2>1. \A i \in Requests : GrantState(i)' = GrantState(i)
    BY <1>3, <1>5 DEF GrantState
  <2> QED BY <1>1, <1>5, <2>1, SameGrants DEF Abstract!vars
<1>6. CASE ~UNCHANGED invite
  <2>1. PICK role \in InvitableRoles, e \in Emails \cup {None} :
          invite' = [invite EXCEPT ![r] = [state |-> "open", role |-> role, email |-> e,
                                           expired |-> FALSE, by |-> a]]
    BY <1>4, <1>6
  <2>2. /\ invite'[r].state = "open" /\ invite'[r].role = role /\ invite'[r].email = e
        /\ \A x \in Requests \ {r} : invite'[x] = invite[x]
    BY <2>1 DEF IInv, TypeOK
  <2>3. GrantState(r) = "none"
    BY <1>1 DEF IInv, FlightInv, GrantState
  <2>4. GrantState(r)' = "open" /\ \A x \in Requests \ {r} : GrantState(x)' = GrantState(x)
    BY <1>3, <2>2 DEF GrantState
  <2>5. GrantOf[r].state = "none"
    BY <2>3 DEF GrantOf
  <2>6. GrantOf' = [GrantOf EXCEPT ![r] = [state |-> "open", role |-> role, email |-> e]]
    <3>1. GrantOf' = [k \in Requests |-> [state |-> GrantState(k)', role |-> invite'[k].role,
                                          email |-> invite'[k].email]]
      BY DEF GrantOf
    <3>2. \A k \in Requests : GrantOf[k] = [state |-> GrantState(k), role |-> invite[k].role,
                                            email |-> invite[k].email]
      BY DEF GrantOf
    <3>3. [GrantOf EXCEPT ![r] = [state |-> "open", role |-> role, email |-> e]]
            = [k \in Requests |-> IF k = r THEN [state |-> "open", role |-> role, email |-> e]
                                          ELSE GrantOf[k]]
      BY DEF GrantOf
    <3> QED BY <2>2, <2>4, <3>1, <3>2, <3>3
  <2>7. \E m \in Members : m[2] \in {"ADMIN", "SUPER_ADMIN"}
    <3>1. <<account[a].email, account[a].role>> \in Members
      BY <1>4 DEF Members, HasRole
    <3> QED BY <1>4, <3>1 DEF HasRole, Inviters
  <2>8. Abstract!Issue(r, role, e)
    BY <1>1, <2>5, <2>6, <2>7 DEF Abstract!Issue
  <2> QED BY <2>8 DEF Abstract!Next, InvitableRoles, InvitedRoles
<1> QED BY <1>5, <1>6

(* Marking makes the request the holder: the grant stays open; with an     *)
(* error reported it is lost.                                              *)
LEMMA AcceptMarkStep ==
  ASSUME IInv, NEW r \in Requests, AcceptMark(r)
  PROVE  [Abstract!Next]_Abstract!vars
<1>1. UNCHANGED account /\ Members' = Members /\ request[r].pc = "mark"
  BY DEF AcceptMark, Members
<1>2. PICK i \in Requests : i = request[r].invite
  BY DEF AcceptMark, IInv, FlightInv, TypeOK, Request
<1>3. ASSUME Done(r) \/ Fail(r, "error")
      PROVE  \A x, k \in Requests :
               (request'[x].pc = "create" /\ request'[x].invite = k)
                 <=> (request[x].pc = "create" /\ request[x].invite = k)
  <2>1. PICK q \in Request : Moves(r, q) /\ q.pc = "done"
    BY <1>3, DoneMoves, FailMoves DEF IInv
  <2> QED BY <1>1, <2>1 DEF Moves
<1>4. CASE UNCHANGED invite
  <2>1. Done(r) \/ Fail(r, "error")
    <3>1. ~(invite[i].state = "open" /\ MarkAccepted(i))
      BY <1>4 DEF MarkAccepted, IInv, TypeOK, Invite
    <3> QED BY <1>2, <3>1 DEF AcceptMark
  <2>2. \A k \in Requests : GrantState(k)' = GrantState(k)
    BY <1>3, <1>4, <2>1 DEF GrantState
  <2> QED BY <1>1, <1>4, <2>2, SameGrants DEF Abstract!vars
<1>5. CASE ~UNCHANGED invite
  <2>1. /\ invite[i].state = "open" /\ MarkAccepted(i)
        /\ request' = [request EXCEPT ![r].pc = "create"] \/ Fail(r, "error")
    BY <1>2, <1>5 DEF AcceptMark
  <2>2. /\ invite'[i].state = "accepted"
        /\ \A x \in Requests : /\ invite'[x].role = invite[x].role
                               /\ invite'[x].email = invite[x].email
        /\ \A x \in Requests \ {i} : invite'[x].state = invite[x].state
    <3> DEFINE rec == [invite[i] EXCEPT !.state = "accepted"]
    <3>1. rec.state = "accepted" /\ rec.role = invite[i].role /\ rec.email = invite[i].email
      BY DEF IInv, TypeOK, Invite
    <3>2. invite' = [invite EXCEPT ![i] = rec]
      BY <2>1 DEF MarkAccepted
    <3> HIDE DEF rec
    <3> QED BY <3>1, <3>2 DEF IInv, TypeOK
  <2>3. GrantState(i) = "open"
    BY <2>1 DEF GrantState
  <2>4. CASE request' = [request EXCEPT ![r].pc = "create"]
    <3>1. /\ request'[r].pc = "create" /\ request'[r].invite = i
          /\ \A x \in Requests \ {r} : request'[x] = request[x]
      BY <1>2, <2>4 DEF IInv, TypeOK, Request
    <3>2. GrantState(i)' = GrantState(i)
      BY <2>2, <2>3, <3>1 DEF GrantState
    <3>3. \A k \in Requests \ {i} : GrantState(k)' = GrantState(k)
      BY <1>1, <1>2, <2>2, <3>1 DEF GrantState
    <3> QED BY <1>1, <2>2, <3>2, <3>3, SameGrants DEF Abstract!vars
  <2>5. CASE Fail(r, "error")
    <3>1. \A x \in Requests : ~(request[x].pc = "create" /\ request[x].invite = i)
      BY <2>1 DEF IInv, OpenInv, Holds
    <3>2. GrantState(i)' = "closed"
      BY <1>3, <2>2, <2>5, <3>1 DEF GrantState
    <3>3. \A k \in Requests \ {i} : GrantState(k)' = GrantState(k)
      BY <1>3, <2>2, <2>5 DEF GrantState
    <3>4. GrantOf' = [GrantOf EXCEPT ![i].state = "closed"]
      BY <2>2, <3>2, <3>3, ClosesGrant
    <3>5. Abstract!Close(i)
      BY <1>1, <2>3, <3>4 DEF Abstract!Close, GrantOf
    <3> QED BY <3>5 DEF Abstract!Next
  <2> QED BY <2>1, <2>4, <2>5
<1> QED BY <1>4, <1>5

(* The insert enrols or redeems; without it an invitation is lost, as it   *)
(* is when the process stops before it.                                    *)
LEMMA CreateUserStep ==
  ASSUME IInv, NEW r \in Requests, CreateUser(r) \/ (Stop(r) /\ request[r].pc = "create")
  PROVE  [Abstract!Next]_Abstract!vars
<1>1. request[r].pc = "create" /\ UNCHANGED invite /\ ~account[r].present
  BY DEF CreateUser, Stop, IInv, AccountInv
<1>2. PICK q \in Request : Moves(r, q) /\ q.pc = "done"
  BY DoneMoves, FailMoves DEF CreateUser, InsertUser, Stop, IInv
<1>3. \A x \in Requests \ {r} : request'[x] = request[x]
  BY <1>2 DEF Moves
<1>4. \A k \in Requests : k # request[r].invite => GrantState(k)' = GrantState(k)
  BY <1>1, <1>2, <1>3 DEF GrantState, Moves
<1>5. CASE request[r].invite = None
  <2>1. GrantOf' = GrantOf
    BY <1>1, <1>4, <1>5, AccountsAssumption, SameGrants
  <2>2. CASE UNCHANGED account
    BY <2>1, <2>2 DEF Abstract!vars, Members
  <2>3. CASE ~UNCHANGED account
    <3>1. /\ ~Taken(request[r].email)
          /\ account' = [account EXCEPT ![r] = [present |-> TRUE, email |-> request[r].email,
                                                role |-> request[r].role]]
      BY <2>3 DEF CreateUser, InsertUser, Stop
    <3>2. Members' = Members \cup {<<request[r].email, request[r].role>>}
      <4>1. /\ account'[r].present = TRUE /\ account'[r].email = request[r].email
            /\ account'[r].role = request[r].role
            /\ \A x \in Requests \ {r} : account'[x] = account[x]
        BY <3>1 DEF IInv, TypeOK
      <4> QED BY <1>1, <4>1 DEF Members
    <3>3. Abstract!Free(request[r].email)
      BY <3>1 DEF Taken, Members, Abstract!Free
    <3>4. request[r].role \in {"DRIVER", "SUPER_ADMIN"} /\ request[r].email \in Emails
      BY <1>1, <1>5 DEF IInv, RoleInv, TypeOK, Request
    <3> QED BY <2>1, <3>2, <3>3, <3>4 DEF Abstract!Next, Abstract!Enrol
  <2> QED BY <2>2, <2>3
<1>6. CASE request[r].invite # None
  <2>1. PICK i \in Requests : i = request[r].invite
    BY <1>6 DEF IInv, TypeOK, Request
  <2>2. /\ invite[i].state = "accepted" /\ invite[i].role = request[r].role
        /\ invite[i].email \in {request[r].email, None}
    BY <1>1, <1>6, <2>1 DEF IInv, FlightInv
  <2>3. GrantState(i) = "open"
    BY <1>1, <2>1, <2>2 DEF GrantState
  <2>4. GrantState(i)' = "closed"
    <3>1. \A x \in Requests : ~(request'[x].pc = "create" /\ request'[x].invite = i)
      BY <1>1, <1>2, <2>1 DEF Moves, IInv, OneHolder, Holds
    <3> QED BY <1>1, <2>2, <3>1 DEF GrantState
  <2>5. GrantOf' = [GrantOf EXCEPT ![i].state = "closed"]
    BY <1>1, <1>4, <2>1, <2>4, ClosesGrant
  <2>6. /\ GrantOf[i].state = "open" /\ GrantOf[i].role = request[r].role
        /\ GrantOf[i].email \in {request[r].email, None}
    BY <2>2, <2>3 DEF GrantOf
  <2>7. CASE UNCHANGED account
    <3>1. Members' = Members
      BY <2>7 DEF Members
    <3>2. Abstract!Close(i)
      BY <2>5, <2>6, <3>1 DEF Abstract!Close
    <3> QED BY <3>2 DEF Abstract!Next
  <2>8. CASE ~UNCHANGED account
    <3>1. /\ ~Taken(request[r].email)
          /\ account' = [account EXCEPT ![r] = [present |-> TRUE, email |-> request[r].email,
                                                role |-> request[r].role]]
      BY <2>8 DEF CreateUser, InsertUser, Stop
    <3>2. Members' = Members \cup {<<request[r].email, request[r].role>>}
      <4>1. /\ account'[r].present = TRUE /\ account'[r].email = request[r].email
            /\ account'[r].role = request[r].role
            /\ \A x \in Requests \ {r} : account'[x] = account[x]
        BY <3>1 DEF IInv, TypeOK
      <4> QED BY <1>1, <4>1 DEF Members
    <3>3. Abstract!Free(request[r].email)
      BY <3>1 DEF Taken, Members, Abstract!Free
    <3>4. request[r].email \in Emails
      BY DEF IInv, TypeOK, Request
    <3>5. Abstract!Redeem(i, request[r].email)
      BY <2>5, <2>6, <3>2, <3>3 DEF Abstract!Redeem
    <3> QED BY <3>4, <3>5 DEF Abstract!Next
  <2> QED BY <2>7, <2>8
<1> QED BY <1>5, <1>6

(* A stop before the mark costs nothing.                                   *)
LEMMA StopBeforeMark ==
  ASSUME IInv, NEW r \in Requests, Stop(r), request[r].pc = "mark"
  PROVE  UNCHANGED Abstract!vars
<1>1. UNCHANGED <<account, invite>> /\ Members' = Members
  BY DEF Stop, Members
<1>2. PICK q \in Request : Moves(r, q) /\ q.pc = "done"
  BY FailMoves DEF Stop, IInv
<1>3. \A i \in Requests : GrantState(i)' = GrantState(i)
  BY <1>1, <1>2 DEF GrantState, Moves
<1> QED BY <1>1, <1>3, SameGrants DEF Abstract!vars

LEMMA AbstractStep == IInv /\ [Next]_vars => [Abstract!Next]_Abstract!vars
<1> SUFFICES ASSUME IInv, [Next]_vars PROVE [Abstract!Next]_Abstract!vars
  OBVIOUS
<1>1. CASE UNCHANGED vars
  BY <1>1 DEF vars, Abstract!vars, Members, GrantOf, GrantState
<1>2. CASE Next
  BY <1>2, QuietStep, CreateInviteStep, AcceptMarkStep, CreateUserStep, StopBeforeMark
     DEF Next, AcceptStep, Register, Bootstrap, Stop
<1> QED BY <1>1, <1>2

(* The concurrent, fallible handlers implement the directory of members.   *)
THEOREM ImplementsDirectoryHolds == Spec => ImplementsDirectory
<1> QED BY AbstractInit, AbstractStep, Invariance, PTL
           DEF Spec, ImplementsDirectory, Abstract!Spec
==============================================================================
