--------------------------- MODULE LicenseIssuance ---------------------------
(***************************************************************************)
(* Issuing licences (internal/chain/service.go, IssueLicense).  A request  *)
(* asks the chain whether the leaf is issued, reads a nonce, sends a       *)
(* transaction, then stores a document and inserts the leaf into the       *)
(* shadow tree; errors of these two are only logged.  Requests interleave  *)
(* at every call, and the process may stop and start again between two.    *)
(*                                                                         *)
(* The chain is external: the node keeps pending transactions in nonce     *)
(* order and drops none, a transaction may take the place of a pending one *)
(* of its nonce, and the contract issues a leaf once.  What the event      *)
(* listener does with the documents is in module EventListener.            *)
(***************************************************************************)
EXTENDS Sequences, ShadowTree, LicenseLeaves

VARIABLES
  request,        \* request[r]: the state of one issuance
  pool, mined,    \* the node: transactions pending and included, by nonce
  issued          \* the contract: leaves issued

vars == <<request, leaves, pool, mined, issued, treeVars>>

------------------------------------------------------------------------------
Request == [pc     : {"idle", "checked", "priced", "sent", "inserting", "done", "dead"},
            leaf   : Leaves,
            nonce  : Nat,
            sent   : BOOLEAN,      \* history: the node took its transaction
            lost   : BOOLEAN,      \* history: and its reply was lost
            dbDown : BOOLEAN,      \* history: the database failed its insert
            answer : {"none", "created", "failed"}]

TypeOK ==
  /\ request \in [Requests -> Request]
  /\ leaves \subseteq Document
  /\ pool \in Seq(Requests) /\ mined \in Seq(Requests)
  /\ issued \subseteq Leaves
  /\ TreeTypeOK

Init ==
  /\ \E leaf \in [Requests -> Leaves] :
       request = [r \in Requests |->
         [pc |-> "idle", leaf |-> leaf[r], nonce |-> 0,
          sent |-> FALSE, lost |-> FALSE, dbDown |-> FALSE, answer |-> "none"]]
  /\ leaves = {}
  /\ pool = <<>> /\ mined = <<>> /\ issued = {}
  /\ TreeInit

------------------------------------------------------------------------------
Answer(r, answer) ==
  request' = [request EXCEPT ![r].pc = "done", ![r].answer = answer]

(* isLeafIssued asks the contract, at the latest block. *)
isLeafIssued(leaf) == leaf \in issued

CheckIssued(r) ==
  /\ request[r].pc = "idle"
  /\ IF isLeafIssued(request[r].leaf)
       THEN Answer(r, "failed")
       ELSE request' = [request EXCEPT ![r].pc = "checked"]
  /\ UNCHANGED <<leaves, pool, mined, issued, treeVars>>

PendingNonce(r) ==
  /\ request[r].pc = "checked"
  /\ request' = [request EXCEPT ![r].pc = "priced", ![r].nonce = Len(mined) + Len(pool)]
  /\ UNCHANGED <<leaves, pool, mined, issued, treeVars>>

(* The node takes the transaction: as the next one, or, if the gas price   *)
(* suggested for it is enough, instead of the pending one of that nonce.   *)
Accept(r) ==
  LET place == request[r].nonce - Len(mined) + 1 IN
  \/ /\ place = Len(pool) + 1
     /\ pool' = Append(pool, r)
  \/ /\ place \in DOMAIN pool
     /\ pool' = [pool EXCEPT ![place] = r]

Send(r) ==
  /\ request[r].pc = "priced"
  /\ Accept(r)
  /\ \/ request' = [request EXCEPT ![r].pc = "sent", ![r].sent = TRUE]
     \/ request' = [request EXCEPT ![r].pc = "done", ![r].answer = "failed",
                                   ![r].sent = TRUE, ![r].lost = TRUE]
  /\ UNCHANGED <<leaves, mined, issued, treeVars>>

(* Mutation: a refused transaction is logged like the errors after it. *)
ChainError_Logged(r) ==
  /\ request[r].pc \in {"idle", "checked", "priced"}
  /\ IF request[r].pc = "priced"
       THEN request' = [request EXCEPT ![r].pc = "sent"]
       ELSE Answer(r, "failed")
  /\ UNCHANGED <<leaves, pool, mined, issued, treeVars>>

(* The chain cannot be asked, or the node refuses the transaction. *)
ChainError(r) ==
  /\ request[r].pc \in {"idle", "checked", "priced"}
  /\ Answer(r, "failed")
  /\ UNCHANGED <<leaves, pool, mined, issued, treeVars>>

(* Mutation: an insert that fails ends the request with an error. *)
StoreLeaf_ErrorReturned(r) ==
  LET doc == LeafDocument(request[r].leaf) IN
  /\ request[r].pc = "sent"
  /\ IF Insertable(doc)
       THEN /\ leaves' = leaves \cup {doc}
            /\ request' = [request EXCEPT ![r].pc = "inserting"]
            /\ BeginInsertion(r, request[r].leaf)
       ELSE Answer(r, "failed") /\ UNCHANGED <<leaves, treeVars>>
  /\ UNCHANGED <<pool, mined, issued>>

(* An insert that fails, for want of the database or on the index, is      *)
(* logged; the tree insertion starts either way.                           *)
StoreLeaf(r) ==
  LET doc == LeafDocument(request[r].leaf) IN
  /\ request[r].pc = "sent"
  /\ \E dbDown \in BOOLEAN :
       /\ leaves' = IF ~dbDown /\ Insertable(doc) THEN leaves \cup {doc} ELSE leaves
       /\ request' = [request EXCEPT ![r].pc = "inserting", ![r].dbDown = dbDown]
  /\ BeginInsertion(r, request[r].leaf)
  /\ UNCHANGED <<pool, mined, issued>>

InsertLeaf(r) ==
  /\ request[r].pc = "inserting"
  /\ InsertionStep(r)
  /\ UNCHANGED <<request, leaves, pool, mined, issued>>

Reply(r) ==
  /\ request[r].pc = "inserting"
  /\ ~Running(r)
  /\ Answer(r, "created")
  /\ UNCHANGED <<leaves, pool, mined, issued, treeVars>>

(* The transactions the node knows of, by nonce. *)
Chain == mined \o pool

(* The chain includes the next transaction, which may revert. *)
Mine ==
  /\ pool # <<>>
  /\ pool' = Tail(pool)
  /\ mined' = Append(mined, Head(pool))
  /\ issued' \in {issued, issued \cup {request[Head(pool)].leaf}}
  /\ UNCHANGED <<request, leaves, treeVars>>

(* The process stops and starts again. *)
Restart ==
  /\ request' = [r \in Requests |->
       IF request[r].pc \in {"idle", "done"} THEN request[r]
       ELSE [request[r] EXCEPT !.pc = "dead"]]
  /\ IF \E r \in Requests : Running(r) THEN StopInsertions ELSE UNCHANGED treeVars
  /\ UNCHANGED <<leaves, pool, mined, issued>>

IssueStep(r) ==
  \/ CheckIssued(r) \/ PendingNonce(r) \/ Send(r) \/ ChainError(r)
  \/ StoreLeaf(r) \/ InsertLeaf(r) \/ Reply(r)

Next ==
  \/ \E r \in Requests : IssueStep(r)
  \/ Mine
  \/ Restart

Spec == Init /\ [][Next]_vars

------------------------------------------------------------------------------
(* Once the node has taken a transaction and said so, no later failure     *)
(* turns the answer into a failure, and no request is answered "created"   *)
(* whose transaction the node did not take.                                *)
SentIsCreated ==
  \A r \in Requests : request[r].pc = "done" =>
    (request[r].answer = "created" <=> request[r].sent /\ ~request[r].lost)

(* What the backend records of licences was sent: every document stored is *)
(* of a licence whose transaction the node took and acknowledged, and the  *)
(* root of the shadow tree commits to no other leaves, whatever else       *)
(* failed, overlapped or stopped (service.go:136-170).                     *)
Acknowledged == {r \in Requests : request[r].sent /\ ~request[r].lost}

RecordedWasSent ==
  /\ \A d \in leaves : \E r \in Acknowledged : d = LeafDocument(request[r].leaf)
  /\ state.root = ZeroRoot
       \/ \E I \in SUBSET Acknowledged : I \subseteq Begun /\ state.root = RootOf(I)

(* "IssueLicense issues a new license on-chain and stores the dual-hash"   *)
(* (service.go:94): the licence of every issuance answered as created,     *)
(* the database being up, has its document.                                *)
EveryLicenceStored ==
  \A r \in Requests :
    request[r].answer = "created" /\ ~request[r].dbDown
      => LeafDocument(request[r].leaf) \in leaves

(* A nonce for which a licence was answered as created is used: by its     *)
(* transaction, or by the one of an issuance that read the same nonce and  *)
(* took its place (service.go:115-145).                                    *)
CreatedOrReplaced ==
  \A r \in Requests : request[r].answer = "created" =>
    \E k \in DOMAIN Chain : /\ request[Chain[k]].sent
                            /\ request[Chain[k]].nonce = request[r].nonce
==============================================================================
