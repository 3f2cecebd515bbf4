---------------------------- MODULE EventListener ----------------------------
(***************************************************************************)
(* The goroutine that follows the LicenseRegistry's events                 *)
(* (internal/chain/listener.go, with the cursor of service.go).  A poll    *)
(* fetches the logs after the stored cursor, handles them one by one,      *)
(* passing over those whose handling fails, and stores the block of the    *)
(* last one.  The process may stop and start again between two calls.      *)
(* Around it, the chain grows (no reorganisations) and the issuance of     *)
(* licences stores documents.                                              *)
(***************************************************************************)
EXTENDS Integers, LicenseLeaves

CONSTANT MaxBlock     \* bound on the chain's height

ASSUME EventListenerAssumption ==
  /\ MaxBlock \in Nat
  /\ Leaves \subseteq Nat        \* in the order of their logs

VARIABLES
  block, events,  \* the chain: height, LicenseIssued events
  listener,       \* the polling goroutine
  cursor,         \* chain_event_sync, the document "LicenseRegistry"
  delivered,      \* history: events given to handleLicenseIssued
  handled         \* history: events it returned nil for

listenerVars == <<block, events, leaves, listener, cursor, delivered, handled>>

Event == [block : Nat, leaf : Leaves]

Listener == [pc : {"waiting", "handling"}, batch : SUBSET Event, last : Nat]

ListenerTypeOK ==
  /\ block \in Nat
  /\ events \subseteq Event
  /\ leaves \subseteq Document
  /\ listener \in Listener
  /\ cursor \in [lastblock : {Missing}, last_block : Nat]
  /\ delivered \subseteq Event
  /\ handled \subseteq Event

ListenerInit ==
  /\ block = 0 /\ events = {}
  /\ leaves = {}
  /\ listener = [pc |-> "waiting", batch |-> {}, last |-> 0]
  /\ cursor = [lastblock |-> Missing, last_block |-> 0]
  /\ delivered = {} /\ handled = {}

------------------------------------------------------------------------------
(* The contract emits LicenseIssued once per leaf. *)
NewBlock ==
  \E emitted \in SUBSET (Leaves \ {e.leaf : e \in events}) :
    /\ block < MaxBlock
    /\ block' = block + 1
    /\ events' = events \cup {[block |-> block + 1, leaf |-> leaf] : leaf \in emitted}
    /\ UNCHANGED <<leaves, listener, cursor, delivered, handled>>

(* IssueLicense stores a document, before or after the event. *)
Issue(leaf) ==
  /\ Insertable(LeafDocument(leaf))
  /\ leaves' = leaves \cup {LeafDocument(leaf)}
  /\ UNCHANGED <<block, events, listener, cursor, delivered, handled>>

------------------------------------------------------------------------------
(* Mutation: the block after the cursor is passed over. *)
FirstBlock_Skipped(lastBlock) == lastBlock + 2

FirstBlock(lastBlock) == lastBlock + 1

(* last_block is written and lastblock read. *)
LastSyncedBlock == IF cursor.lastblock = Missing THEN 0 ELSE cursor.lastblock

Logs == {e \in events : e.block >= FirstBlock(LastSyncedBlock)}

(* Logs come in the order of their blocks, so the last has the highest. *)
Poll ==
  \E last \in {e.block : e \in Logs} :
    /\ listener.pc = "waiting"
    /\ \A e \in Logs : e.block <= last
    /\ listener' = [pc |-> "handling", batch |-> Logs, last |-> last]
    /\ UNCHANGED <<block, events, leaves, cursor, delivered, handled>>

Matches(d, e) == d.keccak256_leaf = e.leaf /\ d.synced_at = Missing

Confirm(e) ==
  leaves' = {IF Matches(d, e) THEN [d EXCEPT !.synced_at = "set"] ELSE d : d \in leaves}

(* The next log, by block and within a block. *)
Take(e) ==
  /\ listener.pc = "handling"
  /\ e \in listener.batch
  /\ \A f \in listener.batch :
       e.block < f.block \/ (e.block = f.block /\ e.leaf <= f.leaf)
  /\ listener' = [listener EXCEPT !.batch = @ \ {e}]
  /\ delivered' = delivered \cup {e}
  /\ UNCHANGED <<block, events, cursor>>

Handle(e) ==
  /\ Take(e)
  /\ Confirm(e)
  /\ handled' = handled \cup {e}

(* The update reports an error, done or not: logged, on to the next log. *)
HandleFails(e) ==
  /\ Take(e)
  /\ Confirm(e) \/ UNCHANGED leaves
  /\ UNCHANGED handled

(* Mutation: a failed handling ends the poll, as a return would, and the   *)
(* cursor moves on.                                                        *)
SyncCursor_Early ==
  /\ listener.pc = "handling"
  /\ listener' = [pc |-> "waiting", batch |-> {}, last |-> 0]
  /\ cursor' = [cursor EXCEPT !.last_block = listener.last]
  /\ UNCHANGED <<block, events, leaves, delivered, handled>>

(* All logs were handled or passed over; storing the cursor may fail. *)
SyncCursor ==
  /\ listener.pc = "handling"
  /\ listener.batch = {}
  /\ listener' = [pc |-> "waiting", batch |-> {}, last |-> 0]
  /\ \/ cursor' = [cursor EXCEPT !.last_block = listener.last]
     \/ UNCHANGED cursor
  /\ UNCHANGED <<block, events, leaves, delivered, handled>>

(* Mutation: starting sets the cursor as if for the first time. *)
ListenerRestart_ResetsCursor ==
  /\ listener' = [pc |-> "waiting", batch |-> {}, last |-> 0]
  /\ cursor' = [lastblock |-> Missing, last_block |-> 0]
  /\ UNCHANGED <<block, events, leaves, delivered, handled>>

(* The process stops and starts again. *)
ListenerRestart ==
  /\ listener' = [pc |-> "waiting", batch |-> {}, last |-> 0]
  /\ UNCHANGED <<block, events, leaves, cursor, delivered, handled>>

HandleNext == \E e \in listener.batch : Handle(e) \/ HandleFails(e)

ListenerNext ==
  \/ NewBlock
  \/ \E leaf \in Leaves : Issue(leaf)
  \/ Poll
  \/ HandleNext
  \/ SyncCursor
  \/ ListenerRestart

ListenerSpec == ListenerInit /\ [][ListenerNext]_listenerVars

PossibleEvents == [block : 1 .. MaxBlock, leaf : Leaves]

(* The ticker polls again and again and the goroutine takes its next step; *)
(* the database is there infinitely often.  Nothing is assumed of the      *)
(* chain, of issuance or of how often the process stops.                   *)
ListenerFairSpec ==
  /\ ListenerSpec
  /\ WF_listenerVars(Poll) /\ WF_listenerVars(HandleNext) /\ WF_listenerVars(SyncCursor)
  /\ \A e \in PossibleEvents : SF_listenerVars(Handle(e))

------------------------------------------------------------------------------
(* Every event up to the stored cursor has been given to the handler, even *)
(* if the process stopped between fetching, handling and storing, or an    *)
(* event was passed over.                                                  *)
CursorCovers ==
  \A e \in events : e.block <= cursor.last_block => e \in delivered

(* The stored cursor never goes back, though every poll fetches anew. *)
CursorMonotone ==
  [][cursor'.last_block >= cursor.last_block]_listenerVars

(* Every event is in the end handled without an error, though one whose    *)
(* handling fails is passed over and the process may stop at any point.    *)
EventsHandled ==
  \A e \in PossibleEvents : e \in events ~> e \in handled
==============================================================================
