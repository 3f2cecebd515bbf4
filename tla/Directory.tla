------------------------------ MODULE Directory ------------------------------
(***************************************************************************)
(* Who may have an account, without requests, documents or errors: anyone  *)
(* not yet a member enrols as a driver, the installation enrols super      *)
(* administrators, and every other role is a grant of an administrator     *)
(* that one new member redeems once.  Accounts implements this             *)
(* specification.                                                          *)
(***************************************************************************)
CONSTANTS Emails, Grants, Anyone

VARIABLES members,   \* pairs <<email, role>>
          grant      \* grant[g]: an invitation and whether it can be redeemed

vars == <<members, grant>>

Init ==
  /\ members = {}
  /\ grant = [g \in Grants |-> [state |-> "none", role |-> "OFFICER", email |-> Anyone]]

Free(e) == \A m \in members : m[1] # e

Enrol(e, role) ==
  /\ Free(e)
  /\ members' = members \cup {<<e, role>>}
  /\ UNCHANGED grant

Issue(g, role, e) ==
  /\ grant[g].state = "none"
  /\ \E m \in members : m[2] \in {"ADMIN", "SUPER_ADMIN"}
  /\ grant' = [grant EXCEPT ![g] = [state |-> "open", role |-> role, email |-> e]]
  /\ UNCHANGED members

Redeem(g, e) ==
  /\ grant[g].state = "open"
  /\ grant[g].email \in {e, Anyone}
  /\ Free(e)
  /\ members' = members \cup {<<e, grant[g].role>>}
  /\ grant' = [grant EXCEPT ![g].state = "closed"]

(* An invitation may be spent without making a member. *)
Close(g) ==
  /\ grant[g].state = "open"
  /\ grant' = [grant EXCEPT ![g].state = "closed"]
  /\ UNCHANGED members

Next ==
  \/ \E e \in Emails, role \in {"DRIVER", "SUPER_ADMIN"} : Enrol(e, role)
  \/ \E g \in Grants, role \in {"OFFICER", "ADMIN"}, e \in Emails \cup {Anyone} :
       Issue(g, role, e)
  \/ \E g \in Grants, e \in Emails : Redeem(g, e)
  \/ \E g \in Grants : Close(g)

Spec == Init /\ [][Next]_vars
==============================================================================
