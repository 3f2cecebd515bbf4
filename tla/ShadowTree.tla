----------------------------- MODULE ShadowTree -----------------------------
(***************************************************************************)
(* The shadow Merkle tree of issued licences (internal/chain/service.go,   *)
(* insertIntoShadowTree and GetShadowTreeSiblings).  An insertion is a row *)
(* of database calls, each a step here, and nothing keeps two insertions   *)
(* apart.  A hash is the term it was computed from: a leaf, or the pair of *)
(* its children.                                                           *)
(*                                                                         *)
(* Documents are read by the names the driver gives the fields of the Go   *)
(* structs, lower case without underscores, and written by hand under      *)
(* others: next_index is stored and never read back.                       *)
(***************************************************************************)
EXTENDS Integers, LicenseRecords

CONSTANTS
  Requests,       \* issuances, each calls insertIntoShadowTree; bounds them
  TreeDepth,
  ZeroLeaf,       \* zeros[0], no leaf hashes to it
  ZeroRoot        \* the 32 zero bytes stored at start-up

ASSUME ShadowTreeAssumption ==
  /\ TreeDepth \in Nat \ {0}
  /\ ZeroLeaf \notin Leaves

VARIABLES
  node,           \* shadow_merkle_nodes: hash by <<level, position>>
  state,          \* shadow_merkle_state, the document "default"
  insertion,      \* insertion[i]: the state of call i
  disturbed       \* history: insertions overlapped, or one failed

tree == <<node, state>>
treeVars == <<node, state, insertion, disturbed>>

------------------------------------------------------------------------------
(* mimcHash and computeNodeHash: both are keccak of the two children. *)
Hash(left, right) == <<left, right>>

zeros[level \in 0 .. TreeDepth] ==
  IF level = 0 THEN ZeroLeaf ELSE Hash(zeros[level - 1], zeros[level - 1])

(* 1 << level: shifting right by level divides by it. *)
weight[level \in 0 .. TreeDepth] == IF level = 0 THEN 1 ELSE 2 * weight[level - 1]

Bit(index, level) == (index \div weight[level]) % 2

SiblingPos_Own(index, level) == index    \* mutation: no bit is changed

(* The position looked up for the sibling is the leaf's index with one bit *)
(* changed; it is not shifted down to the level it is looked up at.        *)
SiblingPos(index, level) ==
  IF Bit(index, level) = 0 THEN index + weight[level] ELSE index - weight[level]

Parent(index, level, current, sibling) ==
  IF Bit(index, level) = 0 THEN Hash(current, sibling) ELSE Hash(sibling, current)

Stored(level, position) ==
  IF <<level, position>> \in DOMAIN node THEN node[<<level, position>>] ELSE zeros[level]

GetShadowTreeSiblings(index) ==
  [level \in 0 .. TreeDepth - 1 |-> Stored(level, SiblingPos(index, level))]

(* The hashes that a leaf and its siblings add up to, and their root. *)
Path(leaf, index, siblings) ==
  LET climb[level \in 0 .. TreeDepth] ==
        IF level = 0 THEN leaf
        ELSE Parent(index, level - 1, climb[level - 1], siblings[level - 1])
  IN climb

PathRoot(leaf, index, siblings) == Path(leaf, index, siblings)[TreeDepth]

(* Mutation: the last leaf written, not the next one. *)
NextIndex_Last == (IF state.nextindex = Missing THEN 0 ELSE state.nextindex) - 1

NextIndex == IF state.nextindex = Missing THEN 0 ELSE state.nextindex

------------------------------------------------------------------------------
Running(i) == insertion[i].pc \notin {"idle", "done", "failed"}

Stages == {"idle", "start", "leaf", "sibling", "parent", "finish", "done", "failed"}

(* Every node of the tree is a term over the leaves; what hashes the       *)
(* fields hold is left to the properties.                                  *)
TreeTypeOK ==
  /\ DOMAIN node \subseteq (0 .. TreeDepth) \X Nat
  /\ DOMAIN state = {"root", "nextindex", "next_index"}
  /\ state.next_index \in Nat
  /\ \A i \in Requests :
       /\ DOMAIN insertion[i] = {"pc", "leaf", "index", "level", "current", "sibling"}
       /\ insertion[i].pc \in Stages
       /\ insertion[i].leaf \in Leaves \cup {Missing}
       /\ insertion[i].index \in Nat
       /\ insertion[i].level \in 0 .. TreeDepth
  /\ disturbed \in BOOLEAN

TreeInit ==
  /\ node = [key \in {} |-> Missing]
  /\ state = [root |-> ZeroRoot, nextindex |-> Missing, next_index |-> 0]
  /\ insertion = [i \in Requests |->
       [pc |-> "idle", leaf |-> Missing, index |-> 0, level |-> 0,
        current |-> Missing, sibling |-> Missing]]
  /\ disturbed = FALSE

Goto(i, pc) == insertion' = [insertion EXCEPT ![i].pc = pc]

Upsert(key, hash) ==
  node' = [k \in DOMAIN node \cup {key} |-> IF k = key THEN hash ELSE node[k]]

(* The issuance of a licence calls insertIntoShadowTree. *)
BeginInsertion(i, leaf) ==
  /\ insertion[i].pc = "idle"
  /\ insertion' = [insertion EXCEPT ![i].pc = "start", ![i].leaf = leaf]
  /\ disturbed' = (disturbed \/ \E j \in Requests : Running(j))
  /\ UNCHANGED tree

ReadState(i) ==
  /\ insertion[i].pc = "start"
  /\ insertion' = [insertion EXCEPT ![i].pc = "leaf", ![i].index = NextIndex]
  /\ UNCHANGED <<tree, disturbed>>

PutLeaf(i) ==
  /\ insertion[i].pc = "leaf"
  /\ Upsert(<<0, insertion[i].index>>, insertion[i].leaf)
  /\ UNCHANGED state

WriteLeaf(i) ==
  /\ PutLeaf(i)
  /\ insertion' = [insertion EXCEPT ![i].pc = "sibling", ![i].current = insertion[i].leaf]
  /\ UNCHANGED disturbed

(* Any error of the lookup counts as an absent node. *)
ReadSibling(i) ==
  LET level == insertion[i].level IN
  /\ insertion[i].pc = "sibling"
  /\ \E sibling \in {Stored(level, SiblingPos(insertion[i].index, level)), zeros[level]} :
       insertion' = [insertion EXCEPT ![i].pc = "parent", ![i].sibling = sibling]
  /\ UNCHANGED <<tree, disturbed>>

ParentHash_Swapped(i) ==                 \* mutation: the children change places
  Hash(insertion[i].sibling, insertion[i].current)

ParentHash(i) ==
  Parent(insertion[i].index, insertion[i].level, insertion[i].current, insertion[i].sibling)

PutParent(i) ==
  LET level == insertion[i].level + 1 IN
  /\ insertion[i].pc = "parent"
  /\ Upsert(<<level, insertion[i].index \div weight[level]>>, ParentHash(i))
  /\ UNCHANGED state

WriteParent(i) ==
  LET level == insertion[i].level + 1 IN
  /\ PutParent(i)
  /\ insertion' = [insertion EXCEPT
       ![i].pc = IF level = TreeDepth THEN "finish" ELSE "sibling",
       ![i].level = level,
       ![i].current = ParentHash(i)]
  /\ UNCHANGED disturbed

PutState(i) ==
  /\ insertion[i].pc = "finish"
  /\ state' = [state EXCEPT !.root = insertion[i].current,
                            !.next_index = insertion[i].index + 1]
  /\ UNCHANGED node

WriteState(i) ==
  /\ PutState(i)
  /\ Goto(i, "done")
  /\ UNCHANGED disturbed

(* A call reports an error and the insertion stops where it is; a write    *)
(* that reports one may have been done.                                    *)
FailInsertion(i) ==
  /\ insertion[i].pc \in {"start", "leaf", "parent", "finish"}
  /\ \/ UNCHANGED tree
     \/ PutLeaf(i)
     \/ PutParent(i)
     \/ PutState(i)
  /\ Goto(i, "failed")
  /\ disturbed' = TRUE

(* The process stops, and with it every insertion under way. *)
StopInsertions ==
  /\ \E i \in Requests : Running(i)
  /\ insertion' = [i \in Requests |->
       IF Running(i) THEN [insertion[i] EXCEPT !.pc = "failed"] ELSE insertion[i]]
  /\ disturbed' = TRUE
  /\ UNCHANGED tree

InsertionStep(i) ==
  \/ ReadState(i) \/ WriteLeaf(i) \/ ReadSibling(i) \/ WriteParent(i) \/ WriteState(i)
  \/ FailInsertion(i)

TreeNext ==
  \/ \E i \in Requests :
       \/ \E leaf \in Leaves : BeginInsertion(i, leaf)
       \/ InsertionStep(i)
  \/ StopInsertions

TreeSpec == TreeInit /\ [][TreeNext]_treeVars

------------------------------------------------------------------------------
(* Properties. *)

(* The rows of a whole tree over a bottom row of leaves, and its root. *)
ParentRow(level, below) ==
  [p \in 0 .. weight[TreeDepth - level] - 1 |-> Hash(below[2 * p], below[2 * p + 1])]

Rows(bottom) ==
  LET row[level \in 0 .. TreeDepth] ==
        IF level = 0 THEN bottom ELSE ParentRow(level, row[level - 1])
  IN row

MerkleRoot(bottom) == Rows(bottom)[TreeDepth][0]

(* The tree of the leaves of some insertions, each at the index it read. *)
Bottom(I) ==
  [p \in 0 .. weight[TreeDepth] - 1 |->
     IF \E i \in I : insertion[i].index = p
       THEN insertion[CHOOSE i \in I : insertion[i].index = p].leaf
       ELSE ZeroLeaf]

RootOf(I) == MerkleRoot(Bottom(I))

Begun == {i \in Requests : insertion[i].pc # "idle"}

(* Whatever insertions overlap, whatever lookup fails and wherever one     *)
(* stops, the stored root is the start-up value or the root of a tree with *)
(* the leaves of some insertions and zeros elsewhere: no root hashes nodes *)
(* of different states of the tree (service.go:311-388).                   *)
RootIsOfOneTree ==
  state.root = ZeroRoot \/ \E I \in SUBSET Begun : state.root = RootOf(I)

(* As long as no insertion met another or failed, the path that            *)
(* GetShadowTreeSiblings would serve for a stored leaf - nothing calls it  *)
(* yet - adds up to the stored root whenever no insertion is under way     *)
(* (service.go:287-308).                                                   *)
ServedPathProves ==
  ~disturbed /\ (\A i \in Requests : ~Running(i)) =>
    \A key \in DOMAIN node :
      key[1] = 0 => PathRoot(node[key], key[2], GetShadowTreeSiblings(key[2])) = state.root

(* "insertIntoShadowTree adds a new leaf to the shadow Merkle tree"        *)
(* (service.go:310): as long as no insertion met another or failed, every  *)
(* leaf inserted is in the tree.                                           *)
EveryLeafAdded ==
  ~disturbed =>
    \A i \in Requests : insertion[i].pc = "done" =>
      \E key \in DOMAIN node : key[1] = 0 /\ node[key] = insertion[i].leaf

=============================================================================
