------------------------------ MODULE Accounts ------------------------------
(***************************************************************************)
(* How accounts come to be (internal/auth: service.go, invite.go, the      *)
(* handlers of registration and invitations; cmd/bootstrap).  Anyone may   *)
(* register as a driver; the bootstrap command creates super               *)
(* administrators; officers and administrators accept an invitation, whose *)
(* document is marked before the account is inserted.  Requests run        *)
(* concurrently, every database write is a step of its own, a failed write *)
(* may still have been applied, and the process may stop between two.      *)
(*                                                                         *)
(* An invitation and an account are named by the request that inserted     *)
(* them: the 32 random bytes of an invitation are taken never to repeat.   *)
(* One whose answer was lost is left out: only its hash is stored, nobody  *)
(* can present it.                                                         *)
(* Accounts of staff are inserted as verified, so that the later calls of  *)
(* MarkEmailVerified change nothing; EmailCodes models the verification of *)
(* drivers, Sessions the tokens.                                           *)
(***************************************************************************)
CONSTANTS
  Emails,
  Requests,      \* HTTP requests and bootstrap runs; bounds their number
  None           \* no invitation; an invitation for any address

ASSUME AccountsAssumption == None \notin Requests /\ None \notin Emails

VARIABLES
  account,       \* account[r]: the document of users that request r inserted
  invite,        \* invite[r]: the document of invite_tokens that r inserted
  request        \* request[r]: the state of request r

vars == <<account, invite, request>>

Roles == {"DRIVER", "OFFICER", "ADMIN", "SUPER_ADMIN"}
InvitedRoles == {"OFFICER", "ADMIN"}
Inviters == {"ADMIN", "SUPER_ADMIN"}

Account == [present : BOOLEAN, email : Emails, role : Roles]

Invite == [state   : {"absent", "open", "accepted"},
           role    : InvitedRoles,
           email   : Emails \cup {None},
           expired : BOOLEAN,
           by      : Requests \cup {None}]  \* the account that made it

Request == [pc     : {"idle", "mark", "create", "done"},
            email  : Emails,
            role   : Roles,                 \* of the account to insert
            invite : Requests \cup {None},  \* the invitation presented
            long   : BOOLEAN,               \* the password has more than 72 bytes
            why    : {"none", "error", "taken", "password", "stopped"}]
                                            \* history: why no account

TypeOK ==
  /\ account \in [Requests -> Account]
  /\ invite \in [Requests -> Invite]
  /\ request \in [Requests -> Request]

------------------------------------------------------------------------------
Taken(e) == \E a \in Requests : account[a].present /\ account[a].email = e

Done(r) == request' = [request EXCEPT ![r].pc = "done"]

Fail(r, why) == request' = [request EXCEPT ![r] = [@ EXCEPT !.pc = "done", !.why = why]]

(* An account with the address is looked for; an error of the query reads  *)
(* as none.  Of the password only a length of at least 8 is asked.         *)
Enter(r, role) ==
  /\ request[r].pc = "idle"
  /\ \E e \in Emails :
       \/ Taken(e) /\ Done(r)
       \/ \E long \in BOOLEAN :
            request' = [request EXCEPT ![r] = [@ EXCEPT !.pc = "create", !.email = e,
                                                        !.role = role, !.long = long]]
  /\ UNCHANGED <<account, invite>>

(* HandleRegister: anybody. *)
Register(r) == Enter(r, "DRIVER")

(* The bootstrap command, run on the server. *)
Bootstrap(r) == Enter(r, "SUPER_ADMIN")

(* Mutation: the route asks for no role. *)
HasRole_AnyRole(a, roles) == account[a].present

(* RequireRole: the access token carries the role of an account.           *)
HasRole(a, roles) == account[a].present /\ account[a].role \in roles

(* Mutation: the role asked for is not checked. *)
InvitableRoles_Any == Roles

InvitableRoles == InvitedRoles

GenerateInvite(r, a) ==
  \/ \E role \in InvitableRoles, e \in Emails \cup {None} :
       invite' = [invite EXCEPT ![r] = [state |-> "open", role |-> role, email |-> e,
                                        expired |-> FALSE, by |-> a]]
  \/ UNCHANGED invite       \* an error

(* HandleCreateInvite, called with the token of account a. *)
CreateInvite(r) ==
  /\ request[r].pc = "idle"
  /\ \E a \in Requests : HasRole(a, Inviters) /\ GenerateInvite(r, a)
  /\ Done(r)
  /\ UNCHANGED account

(* A day passes for an invitation; once it is accepted nobody asks. *)
Expire(i) ==
  /\ invite[i].state = "open"
  /\ ~invite[i].expired
  /\ invite' = [invite EXCEPT ![i].expired = TRUE]
  /\ UNCHANGED <<account, request>>

(* ValidateInvite and the comparison of the address. *)
AcceptRead(r) ==
  /\ request[r].pc = "idle"
  /\ \E i \in Requests, e \in Emails, long \in BOOLEAN :
       /\ invite[i].state # "absent"
       /\ \/ Done(r)         \* the query failed, or the invitation is refused
          \/ /\ invite[i].state = "open"
             /\ ~invite[i].expired
             /\ invite[i].email \in {e, None}
             /\ request' = [request EXCEPT ![r] =
                              [@ EXCEPT !.pc = "mark", !.invite = i, !.email = e,
                                        !.role = invite[i].role, !.long = long]]
  /\ UNCHANGED <<account, invite>>

MarkAccepted(i) == invite' = [invite EXCEPT ![i].state = "accepted"]

(* Mutation: the update does not ask that accepted_at is missing. *)
AcceptMark_Unconditional(r) ==
  /\ request[r].pc = "mark"
  /\ MarkAccepted(request[r].invite)
  /\ request' = [request EXCEPT ![r].pc = "create"]
  /\ UNCHANGED account

(* Mutation: the expiry is looked at after the mark. *)
AcceptMark_ExpiryAfter(r) ==
  LET i == request[r].invite IN
  /\ request[r].pc = "mark"
  /\ invite[i].state = "open"
  /\ MarkAccepted(i)
  /\ request' = [request EXCEPT ![r].pc = IF invite[i].expired THEN "done" ELSE "create"]
  /\ UNCHANGED account

(* One update, filtered by the absence of accepted_at; on an error the     *)
(* request ends, applied or not.                                           *)
AcceptMark(r) ==
  LET i == request[r].invite IN
  /\ request[r].pc = "mark"
  /\ \/ /\ invite[i].state = "open"
        /\ MarkAccepted(i)
        /\ \/ request' = [request EXCEPT ![r].pc = "create"]
           \/ Fail(r, "error")
     \/ invite[i].state # "open" /\ Done(r) /\ UNCHANGED invite
     \/ Fail(r, "error") /\ UNCHANGED invite
  /\ UNCHANGED account

InsertUser(r) ==
  /\ account' = [account EXCEPT ![r] = [present |-> TRUE, email |-> request[r].email,
                                        role |-> request[r].role]]
  /\ Done(r)

(* HashPassword: bcrypt refuses more than 72 bytes. *)
Hashable(r) == ~request[r].long

(* Mutation: the unique index is on another field. *)
CreateUser_NoIndex(r) ==
  /\ request[r].pc = "create"
  /\ Hashable(r)
  /\ InsertUser(r)
  /\ UNCHANGED invite

(* CreateUser hashes the password and inserts under the unique index on    *)
(* email.  An applied insert whose error was reported answers as failed.   *)
(* What follows - the verification email, MarkEmailVerified, the token     *)
(* pair - leaves accounts and invitations alone.                           *)
CreateUser(r) ==
  /\ request[r].pc = "create"
  /\ \/ ~Hashable(r) /\ Fail(r, "password") /\ UNCHANGED account
     \/ Hashable(r) /\ ~Taken(request[r].email) /\ InsertUser(r)
     \/ Hashable(r) /\ Taken(request[r].email) /\ Fail(r, "taken") /\ UNCHANGED account
     \/ Hashable(r) /\ Fail(r, "error") /\ UNCHANGED account
  /\ UNCHANGED invite

(* The process stops, and the request with it. *)
Stop(r) ==
  /\ request[r].pc \in {"mark", "create"}
  /\ Fail(r, "stopped")
  /\ UNCHANGED <<account, invite>>

------------------------------------------------------------------------------
Init ==
  /\ \E e \in Emails :
       /\ account = [r \in Requests |-> [present |-> FALSE, email |-> e, role |-> "DRIVER"]]
       /\ request = [r \in Requests |-> [pc |-> "idle", email |-> e, role |-> "DRIVER",
                                         invite |-> None, long |-> FALSE,
                                         why |-> "none"]]
  /\ invite = [r \in Requests |-> [state |-> "absent", role |-> "OFFICER", email |-> None,
                                   expired |-> FALSE, by |-> None]]

AcceptStep(r) == AcceptRead(r) \/ AcceptMark(r)

Next ==
  \E r \in Requests :
    \/ Register(r) \/ Bootstrap(r)
    \/ CreateInvite(r)
    \/ Expire(r)
    \/ AcceptStep(r)
    \/ CreateUser(r)
    \/ Stop(r)

Spec == Init /\ [][Next]_vars

------------------------------------------------------------------------------
(* Properties. *)

(* No invitation makes two accounts, whatever requests present it at once  *)
(* (invite.go:90-117).                                                     *)
OneAccountPerInvitation ==
  \A a, b \in Requests :
    /\ account[a].present /\ account[b].present
    /\ request[a].invite = request[b].invite
    /\ request[a].invite # None
    => a = b

(* Every officer and administrator was invited to that role, at that       *)
(* address or at any, by an administrator; and where there is staff, there *)
(* is a super administrator, whom nobody invites (handler.go:52-57,        *)
(* 366-384, invite.go:34-36, 95-97, 112).                                  *)
StaffInvited ==
  \A a \in Requests :
    account[a].present /\ account[a].role # "DRIVER" =>
      /\ \E s \in Requests : account[s].present /\ account[s].role = "SUPER_ADMIN"
      /\ account[a].role # "SUPER_ADMIN" =>
           \E i \in Requests : /\ invite[i].state = "accepted"
                               /\ invite[i].role = account[a].role
                               /\ invite[i].email \in {None, account[a].email}
                               /\ invite[i].by \in Requests
                               /\ account[invite[i].by].present
                               /\ account[invite[i].by].role \in Inviters

(* An accepted invitation without an account is about to get one, or was   *)
(* lost after the mark: to a database error, to a stop of the process, to  *)
(* another account with the address its holder gave, or to a password that *)
(* passes the length asked for and that bcrypt then refuses (invite.go:    *)
(* 99-115, handler.go:394, service.go:71-75, 101-105).  It is not lost to  *)
(* its own expiry, another address or role, or a second acceptance.        *)
LostInvitationHasCause ==
  \A i \in Requests :
    invite[i].state = "accepted" =>
      \E r \in Requests :
        /\ request[r].invite = i
        /\ \/ request[r].pc = "create"
           \/ account[r].present
           \/ request[r].why \in {"error", "stopped"}
           \/ request[r].why = "password" /\ request[r].long
           \/ request[r].why = "taken" /\ Taken(request[r].email)

(* The abstract directory: an accepted invitation stays redeemable while   *)
(* the request that marked it has still to insert the account.             *)
Members == {<<account[a].email, account[a].role>> : a \in {b \in Requests : account[b].present}}

GrantState(i) ==
  IF invite[i].state = "absent" THEN "none"
  ELSE IF \/ invite[i].state = "open"
          \/ \E r \in Requests : request[r].pc = "create" /\ request[r].invite = i
       THEN "open" ELSE "closed"

GrantOf == [i \in Requests |-> [state |-> GrantState(i), role |-> invite[i].role,
                                email |-> invite[i].email]]

Abstract == INSTANCE Directory WITH Grants <- Requests, Anyone <- None,
                                    members <- Members, grant <- GrantOf

(* Registration, bootstrap and invitations implement Directory: one        *)
(* account per address, staff only by redeeming a grant of an              *)
(* administrator, each grant once (service.go:69-106, handler.go:163-203,  *)
(* 366-409, invite.go:34-121, cmd/bootstrap/main.go:50-61).                *)
ImplementsDirectory == Abstract!Spec
==============================================================================
