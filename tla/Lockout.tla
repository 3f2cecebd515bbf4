------------------------------ MODULE Lockout ------------------------------
(***************************************************************************)
(* The failed-login counter and the lock of one account (internal/auth:    *)
(* service.go, Authenticate and incrementFailedLoginAttempts).  A login    *)
(* reads the user, compares a bcrypt hash, which takes a while, and writes *)
(* back a counter computed from what it had read.  Logins run concurrently.*)
(* The user is active and verified, so only the lock gates it.  The clock  *)
(* never goes back.                                                        *)
(***************************************************************************)
EXTENDS Integers

CONSTANTS
  Attempts,       \* login requests; bounds their number
  MaxAttempts,    \* maxAttempts
  LockFor,        \* lockDuration, in ticks
  MaxNow          \* bound on the clock

ASSUME LockoutAssumption ==
  /\ MaxAttempts \in Nat \ {0}
  /\ LockFor \in Nat \ {0}
  /\ MaxNow \in Nat

VARIABLES
  now,
  failed,         \* failed_login_attempts
  lockedUntil,    \* locked_until, 0 when unset
  attempt,        \* attempt[a]: the state of login a
  failures,       \* history: wrong passwords in a row, since the last right one
  carried,        \* history: the stored counter counts failures from before the last
                  \* right password, its reset lost or overwritten from an older read
  locks,          \* history: locks written
  missed          \* history: since the last right password a wrong one was not counted,
                  \* its update lost or computed from a counter that had grown since

vars == <<now, failed, lockedUntil, attempt, failures, carried, locks, missed>>

Attempt == [pc      : {"idle", "checked", "done"},
            right   : BOOLEAN,    \* the password is the account's
            seen    : Nat,        \* FailedLoginAttempts of the user it read
            carried : BOOLEAN,    \* history: carried, of the counter it read
            locks   : Nat,        \* history: locks when it read the user
            answer  : {"none", "ok", "invalid", "locked", "internal"}]

TypeOK ==
  /\ now \in Nat
  /\ failed \in Nat
  /\ lockedUntil \in Nat
  /\ attempt \in [Attempts -> Attempt]
  /\ failures \in Nat /\ locks \in Nat
  /\ carried \in BOOLEAN /\ missed \in BOOLEAN

------------------------------------------------------------------------------
Locked == now < lockedUntil

Answer(a, answer) ==
  attempt' = [attempt EXCEPT ![a] = [@ EXCEPT !.pc = "done", !.answer = answer]]

PassGate(a) ==
  attempt' = [attempt EXCEPT ![a] =
                [@ EXCEPT !.pc = "checked", !.seen = failed, !.carried = carried,
                          !.locks = locks]]

(* Mutation: the lock does not gate the login. *)
ReadUser_LockIgnored(a) ==
  /\ attempt[a].pc = "idle"
  /\ PassGate(a)
  /\ UNCHANGED <<now, failed, lockedUntil, failures, carried, locks, missed>>

(* The user is read, and the lock looked at once. *)
ReadUser(a) ==
  /\ attempt[a].pc = "idle"
  /\ \/ Answer(a, "internal")
     \/ Locked /\ Answer(a, "locked")
     \/ ~Locked /\ PassGate(a)
  /\ UNCHANGED <<now, failed, lockedUntil, failures, carried, locks, missed>>

(* Mutation: the lock is written one failure late. *)
WrongPassword_LocksLate(a) ==
  /\ attempt[a].pc = "checked"
  /\ ~attempt[a].right
  /\ Answer(a, "invalid")
  /\ failures' = failures + 1
  /\ failed' = attempt[a].seen + 1
  /\ carried' = attempt[a].carried
  /\ missed' = (missed \/ attempt[a].seen < failed)
  /\ IF attempt[a].seen >= MaxAttempts
       THEN lockedUntil' = now + LockFor /\ locks' = locks + 1
       ELSE UNCHANGED <<lockedUntil, locks>>
  /\ UNCHANGED now

(* incrementFailedLoginAttempts: one update with the new counter and, from *)
(* MaxAttempts on, the lock; its error is only logged.                     *)
WrongPassword(a) ==
  LET newAttempts == attempt[a].seen + 1 IN
  /\ attempt[a].pc = "checked"
  /\ ~attempt[a].right
  /\ Answer(a, "invalid")
  /\ failures' = failures + 1
  /\ \/ /\ failed' = newAttempts
        /\ IF newAttempts >= MaxAttempts
             THEN lockedUntil' = now + LockFor /\ locks' = locks + 1
             ELSE UNCHANGED <<lockedUntil, locks>>
        /\ carried' = attempt[a].carried
        /\ missed' = (missed \/ attempt[a].seen < failed)
     \/ missed' = TRUE /\ UNCHANGED <<failed, lockedUntil, carried, locks>>
  /\ UNCHANGED now

(* The login ends, and a failure the others have read is now of an earlier *)
(* row.                                                                    *)
EndRow(a, answer) ==
  attempt' = [x \in Attempts |->
                IF x = a THEN [attempt[x] EXCEPT !.pc = "done", !.answer = answer]
                ELSE IF attempt[x].pc = "checked"
                  THEN [attempt[x] EXCEPT !.carried = @ \/ attempt[x].seen # 0]
                ELSE attempt[x]]

(* Mutation: the lock is cleared and the counter kept. *)
RightPassword_KeepsCounter(a) ==
  /\ attempt[a].pc = "checked"
  /\ attempt[a].right
  /\ EndRow(a, "ok")
  /\ failures' = 0
  /\ missed' = FALSE /\ carried' = FALSE
  /\ lockedUntil' = 0
  /\ UNCHANGED <<now, failed, locks>>

(* The counter and the lock are cleared, an error is only logged; then the *)
(* user is read again, which may fail.                                     *)
RightPassword(a) ==
  /\ attempt[a].pc = "checked"
  /\ attempt[a].right
  /\ \E answer \in {"ok", "internal"} : EndRow(a, answer)
  /\ failures' = 0
  /\ missed' = FALSE
  /\ \/ failed' = 0 /\ lockedUntil' = 0 /\ carried' = FALSE
     \/ carried' = (failed # 0) /\ UNCHANGED <<failed, lockedUntil>>
  /\ UNCHANGED <<now, locks>>

Tick ==
  /\ now < MaxNow
  /\ now' = now + 1
  /\ UNCHANGED <<failed, lockedUntil, attempt, failures, carried, locks, missed>>

Init ==
  /\ now = 0
  /\ failed = 0
  /\ lockedUntil = 0
  /\ \E right \in [Attempts -> BOOLEAN] :
       attempt = [a \in Attempts |-> [pc |-> "idle", right |-> right[a], seen |-> 0,
                                      carried |-> FALSE, locks |-> 0, answer |-> "none"]]
  /\ failures = 0 /\ locks = 0
  /\ carried = FALSE /\ missed = FALSE

LoginStep(a) == ReadUser(a) \/ WrongPassword(a) \/ RightPassword(a)

Next == Tick \/ \E a \in Attempts : LoginStep(a)

Spec == Init /\ [][Next]_vars

------------------------------------------------------------------------------
(* Properties. *)

(* "Locks the account after 5 consecutive failures" (service.go:180): a    *)
(* lock is written after MaxAttempts wrong passwords in a row, with no     *)
(* right one in between, and after fewer only if the counter was carried   *)
(* over a right password: its reset failed, which is only logged           *)
(* (service.go:168-174), or a login that had read the user before it wrote *)
(* its own counter after it (service.go:182-202).                          *)
LockedOnlyAfterARow ==
  [][locks' # locks => failures' >= MaxAttempts \/ carried']_vars

(* A lock that has not run out is lifted only by a login with the right    *)
(* password that had read the user before that lock was written: one that  *)
(* arrives later is refused (service.go:150-152, 166-174).                 *)
LiftedOnlyByEarlierLogin ==
  [][Locked /\ lockedUntil' = 0
     => \E a \in Attempts : /\ attempt[a].pc = "checked"
                            /\ attempt'[a].pc = "done"
                            /\ attempt[a].right
                            /\ attempt[a].locks < locks]_vars

(* MaxAttempts wrong passwords with no success in between leave the        *)
(* account locked, unless one of them was not counted: its update failed,  *)
(* or wrote a counter from a read that another failure had overtaken       *)
(* (service.go:160-203).                                                   *)
LockedUnlessMissed ==
  failures >= MaxAttempts /\ ~missed => lockedUntil # 0
==============================================================================
