------------------------- MODULE VerificationPermits -------------------------
(***************************************************************************)
(* What the rotating QR credential promises, without tokens, nonces or     *)
(* requests: refreshing a credential grants one verification permit (and   *)
(* replaces an unspent one), and an officer's scan passes only by spending *)
(* the permit.  QRCredentials implements this specification.               *)
(***************************************************************************)
CONSTANTS Credentials,   \* drivers
          Scans          \* officers' scan requests

VARIABLES permit,        \* permit[c]: credential c has an unspent permit
          passed         \* passed[c]: the scans answered "verified" for c

vars == <<permit, passed>>

Init ==
  /\ permit = [c \in Credentials |-> FALSE]
  /\ passed = [c \in Credentials |-> {}]

Grant(c) ==
  /\ permit' = [permit EXCEPT ![c] = TRUE]
  /\ UNCHANGED passed

(* The scan passes, or its answer is lost after the permit was taken. *)
Spend(c) ==
  /\ permit[c]
  /\ permit' = [permit EXCEPT ![c] = FALSE]
  /\ \/ \E s \in Scans : passed' = [passed EXCEPT ![c] = @ \cup {s}]
     \/ UNCHANGED passed

Next == \E c \in Credentials : Grant(c) \/ Spend(c)

Spec == Init /\ [][Next]_vars
==============================================================================
