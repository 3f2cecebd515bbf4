---------------------------- MODULE Chain_proofs ----------------------------
(***************************************************************************)
(* The chain side of the backend (internal/chain), for any requests,       *)
(* licences, depth of the tree and height of the chain.                    *)
(*                                                                         *)
(*   - The shadow tree: its types, that its root is that of one tree of    *)
(*     inserted leaves, and that a served path proves as long as           *)
(*     insertions neither meet nor fail.                                   *)
(*   - Issuance: "created" is said of those transactions, and no others,   *)
(*     that the node took and acknowledged; the nonce of an answer is      *)
(*     used; every behaviour is, at the tree, one of ShadowTree; and so    *)
(*     the documents and the root are of licences that were sent.          *)
(*   - The event listener: its types, what its cursor covers, and that it  *)
(*     never goes back.                                                    *)
(***************************************************************************)
EXTENDS LicenseIssuance, EventListener, WellFoundedInduction, TLAPS

(***************************************************************************)
(* Recursion over the levels.  A function defined by recursion satisfies   *)
(* its equation because a function that does exists; that one exists, and  *)
(* what holds at every level, is shown by induction.  The induction is     *)
(* stated over sets, from the least element of a set of numbers.           *)
(***************************************************************************)
LEMMA LeastNat ==
  ASSUME NEW T \in SUBSET Nat, T # {}
  PROVE  \E x \in T : \A y \in T : x <= y
<1> DEFINE R == OpToRel(<, Nat)
<1>1. \A x, y \in Nat : y < x => <<y, x>> \in R
  BY DEF OpToRel
<1>2. IsWellFoundedOn(R, Nat)
  BY NatLessThanWellFounded
<1> HIDE DEF R
<1>3. PICK x \in T : \A y \in T : ~ (<<y, x>> \in R)
  BY <1>2, WFMin
<1>4. \A y \in T : ~(y < x)
  BY <1>1, <1>3
<1>5. \A y \in T : y \in Nat /\ x \in Nat
  OBVIOUS
<1> QED BY <1>4, <1>5

LEMMA SetInduction ==
  ASSUME NEW S, 0 \in S, \A n \in Nat : n \in S => n + 1 \in S
  PROVE  Nat \subseteq S
<1> SUFFICES ASSUME Nat \ S # {} PROVE FALSE
  OBVIOUS
<1>1. PICK x \in Nat \ S : \A y \in Nat \ S : x <= y
  BY LeastNat
<1>2. x # 0 /\ x - 1 \in Nat
  BY <1>1
<1>3. x - 1 \in S
  BY <1>1, <1>2
<1>4. (x - 1) + 1 \in S
  BY <1>2, <1>3
<1> QED BY <1>1, <1>2, <1>4

(* The hash of an empty subtree is that of two empty subtrees.             *)
LEMMA ZerosDef ==
  /\ zeros[0] = ZeroLeaf
  /\ \A l \in 1 .. TreeDepth : zeros[l] = Hash(zeros[l - 1], zeros[l - 1])
<1> DEFINE Up(f, n) == /\ f[0] = ZeroLeaf
                       /\ \A l \in 1 .. n : f[l] = Hash(f[l - 1], f[l - 1])
           S == {n \in Nat : \E f : Up(f, n)}
<1>1. 0 \in S
  <2> DEFINE f == [l \in 0 .. 0 |-> ZeroLeaf]
  <2>1. Up(f, 0)
    OBVIOUS
  <2> QED BY <2>1
<1>2. ASSUME NEW n \in Nat, n \in S PROVE n + 1 \in S
  <2>1. PICK f : Up(f, n)
    BY <1>2
  <2> DEFINE g == [l \in 0 .. n + 1 |-> IF l = n + 1 THEN Hash(f[n], f[n]) ELSE f[l]]
  <2>2. g[0] = ZeroLeaf
    BY <2>1
  <2>3. ASSUME NEW l \in 1 .. n + 1 PROVE g[l] = Hash(g[l - 1], g[l - 1])
    <3>1. g[l - 1] = f[l - 1]
      OBVIOUS
    <3>2. CASE l = n + 1
      BY <3>1, <3>2
    <3>3. CASE l # n + 1
      BY <2>1, <3>1, <3>3
    <3> QED BY <3>2, <3>3
  <2> HIDE DEF g
  <2>4. Up(g, n + 1)
    BY <2>2, <2>3
  <2>5. n + 1 \in Nat
    OBVIOUS
  <2> QED BY <2>4, <2>5, Zenon
<1> HIDE DEF S
<1>3. TreeDepth \in S
  BY <1>1, <1>2, SetInduction, ShadowTreeAssumption
<1>4. PICK f : Up(f, TreeDepth)
  BY <1>3 DEF S
<1> DEFINE Rec(h) == h = [level \in 0 .. TreeDepth |->
                            IF level = 0 THEN ZeroLeaf
                            ELSE Hash(h[level - 1], h[level - 1])]
           g == [l \in 0 .. TreeDepth |-> f[l]]
<1>5. Rec(g)
  <2>1. \A l \in 0 .. TreeDepth :
          g[l] = IF l = 0 THEN ZeroLeaf ELSE Hash(g[l - 1], g[l - 1])
    BY <1>4, ShadowTreeAssumption
  <2>2. g = [l \in 0 .. TreeDepth |-> g[l]]
    OBVIOUS
  <2> HIDE DEF g
  <2> QED BY <2>1, <2>2, Zenon
<1> HIDE DEF g
<1>6. zeros = CHOOSE h : Rec(h)
  BY Zenon DEF zeros
<1>7. Rec(zeros)
  BY <1>5, <1>6, Zenon
<1> HIDE DEF Rec
<1> QED BY <1>7, ShadowTreeAssumption DEF Rec

LEMMA WeightDef ==
  /\ weight[0] = 1
  /\ \A l \in 1 .. TreeDepth : weight[l] = 2 * weight[l - 1]
<1> DEFINE Up(f, n) == f[0] = 1 /\ \A l \in 1 .. n : f[l] = 2 * f[l - 1]
           S == {n \in Nat : \E f : Up(f, n)}
<1>1. 0 \in S
  <2> DEFINE f == [l \in 0 .. 0 |-> 1]
  <2>1. Up(f, 0)
    OBVIOUS
  <2> QED BY <2>1
<1>2. ASSUME NEW n \in Nat, n \in S PROVE n + 1 \in S
  <2>1. PICK f : Up(f, n)
    BY <1>2
  <2> DEFINE g == [l \in 0 .. n + 1 |-> IF l = n + 1 THEN 2 * f[n] ELSE f[l]]
  <2>2. g[0] = 1
    BY <2>1
  <2>3. ASSUME NEW l \in 1 .. n + 1 PROVE g[l] = 2 * g[l - 1]
    <3>1. g[l - 1] = f[l - 1]
      OBVIOUS
    <3>2. CASE l = n + 1
      BY <3>1, <3>2
    <3>3. CASE l # n + 1
      BY <2>1, <3>1, <3>3
    <3> QED BY <3>2, <3>3
  <2> HIDE DEF g
  <2>4. Up(g, n + 1)
    BY <2>2, <2>3
  <2>5. n + 1 \in Nat
    OBVIOUS
  <2> QED BY <2>4, <2>5, Zenon
<1> HIDE DEF S
<1>3. TreeDepth \in S
  BY <1>1, <1>2, SetInduction, ShadowTreeAssumption
<1>4. PICK f : Up(f, TreeDepth)
  BY <1>3 DEF S
<1> DEFINE Rec(h) == h = [level \in 0 .. TreeDepth |->
                            IF level = 0 THEN 1 ELSE 2 * h[level - 1]]
           g == [l \in 0 .. TreeDepth |-> f[l]]
<1>5. Rec(g)
  <2>1. \A l \in 0 .. TreeDepth : g[l] = IF l = 0 THEN 1 ELSE 2 * g[l - 1]
    BY <1>4, ShadowTreeAssumption
  <2>2. g = [l \in 0 .. TreeDepth |-> g[l]]
    OBVIOUS
  <2> HIDE DEF g
  <2> QED BY <2>1, <2>2, Zenon
<1> HIDE DEF g
<1>6. weight = CHOOSE h : Rec(h)
  BY Zenon DEF weight
<1>7. Rec(weight)
  BY <1>5, <1>6, Zenon
<1> HIDE DEF Rec
<1> QED BY <1>7, ShadowTreeAssumption DEF Rec

LEMMA PathDef ==
  ASSUME NEW leaf, NEW index, NEW siblings
  PROVE  LET path == Path(leaf, index, siblings) IN
         /\ path[0] = leaf
         /\ \A l \in 1 .. TreeDepth :
              path[l] = Parent(index, l - 1, path[l - 1], siblings[l - 1])
<1> DEFINE Up(f, n) == /\ f[0] = leaf
                       /\ \A l \in 1 .. n :
                            f[l] = Parent(index, l - 1, f[l - 1], siblings[l - 1])
           S == {n \in Nat : \E f : Up(f, n)}
<1>1. 0 \in S
  <2> DEFINE f == [l \in 0 .. 0 |-> leaf]
  <2>1. Up(f, 0)
    OBVIOUS
  <2> QED BY <2>1
<1>2. ASSUME NEW n \in Nat, n \in S PROVE n + 1 \in S
  <2>1. PICK f : Up(f, n)
    BY <1>2
  <2> DEFINE g == [l \in 0 .. n + 1 |->
                     IF l = n + 1 THEN Parent(index, n, f[n], siblings[n]) ELSE f[l]]
  <2>2. g[0] = leaf
    BY <2>1
  <2>3. ASSUME NEW l \in 1 .. n + 1
        PROVE  g[l] = Parent(index, l - 1, g[l - 1], siblings[l - 1])
    <3>1. g[l - 1] = f[l - 1]
      OBVIOUS
    <3>2. CASE l = n + 1
      <4>1. l - 1 = n
        BY <3>2
      <4>2. g[l] = Parent(index, n, f[n], siblings[n])
        BY <3>2
      <4> HIDE DEF g
      <4> QED BY <3>1, <4>1, <4>2
    <3>3. CASE l # n + 1
      <4>1. g[l] = f[l] /\ l \in 1 .. n
        BY <3>3
      <4> HIDE DEF g
      <4> QED BY <2>1, <3>1, <4>1
    <3> QED BY <3>2, <3>3
  <2> HIDE DEF g
  <2>4. Up(g, n + 1)
    BY <2>2, <2>3
  <2>5. n + 1 \in Nat
    OBVIOUS
  <2> QED BY <2>4, <2>5, Zenon
<1> HIDE DEF S
<1>3. TreeDepth \in S
  BY <1>1, <1>2, SetInduction, ShadowTreeAssumption
<1>4. PICK f : Up(f, TreeDepth)
  BY <1>3 DEF S
<1> DEFINE Rec(h) == h = [level \in 0 .. TreeDepth |->
                            IF level = 0 THEN leaf
                            ELSE Parent(index, level - 1, h[level - 1], siblings[level - 1])]
           g == [l \in 0 .. TreeDepth |-> f[l]]
<1>5. Rec(g)
  <2>1. \A l \in 0 .. TreeDepth :
          g[l] = IF l = 0 THEN leaf
                 ELSE Parent(index, l - 1, g[l - 1], siblings[l - 1])
    BY <1>4, ShadowTreeAssumption
  <2>2. g = [l \in 0 .. TreeDepth |-> g[l]]
    OBVIOUS
  <2> HIDE DEF g
  <2> QED BY <2>1, <2>2, Zenon
<1> HIDE DEF g
<1> DEFINE path == Path(leaf, index, siblings)
<1>6. path = CHOOSE h : Rec(h)
  BY Zenon DEF Path
<1>7. Rec(path)
  BY <1>5, <1>6, Zenon
<1> HIDE DEF path
<1>8. \A l \in 0 .. TreeDepth :
        path[l] = IF l = 0 THEN leaf
                  ELSE Parent(index, l - 1, path[l - 1], siblings[l - 1])
  BY <1>7, Zenon
<1> HIDE DEF Rec
<1>9. /\ path[0] = leaf
      /\ \A l \in 1 .. TreeDepth :
           path[l] = Parent(index, l - 1, path[l - 1], siblings[l - 1])
  BY <1>8, ShadowTreeAssumption
<1> QED BY <1>9 DEF path

LEMMA RowsDef ==
  ASSUME NEW bottom
  PROVE  LET rows == Rows(bottom) IN
         /\ rows[0] = bottom
         /\ \A l \in 1 .. TreeDepth :
              rows[l] = ParentRow(l, rows[l - 1])
<1> DEFINE Up(f, n) == /\ f[0] = bottom
                       /\ \A l \in 1 .. n :
                            f[l] = ParentRow(l, f[l - 1])
           S == {n \in Nat : \E f : Up(f, n)}
<1>1. 0 \in S
  <2> DEFINE f == [l \in 0 .. 0 |-> bottom]
  <2>1. Up(f, 0)
    OBVIOUS
  <2> QED BY <2>1
<1>2. ASSUME NEW n \in Nat, n \in S PROVE n + 1 \in S
  <2>1. PICK f : Up(f, n)
    BY <1>2
  <2> DEFINE g == [l \in 0 .. n + 1 |->
                     IF l = n + 1 THEN ParentRow(n + 1, f[n]) ELSE f[l]]
  <2>2. g[0] = bottom
    BY <2>1
  <2>3. ASSUME NEW l \in 1 .. n + 1
        PROVE  g[l] = ParentRow(l, g[l - 1])
    <3>1. g[l - 1] = f[l - 1]
      OBVIOUS
    <3>2. CASE l = n + 1
      <4>1. l - 1 = n
        BY <3>2
      <4>2. g[l] = ParentRow(n + 1, f[n])
        BY <3>2
      <4> HIDE DEF g
      <4> QED BY <3>1, <4>1, <4>2
    <3>3. CASE l # n + 1
      <4>1. g[l] = f[l] /\ l \in 1 .. n
        BY <3>3
      <4> HIDE DEF g
      <4> QED BY <2>1, <3>1, <4>1
    <3> QED BY <3>2, <3>3
  <2> HIDE DEF g
  <2>4. Up(g, n + 1)
    BY <2>2, <2>3
  <2>5. n + 1 \in Nat
    OBVIOUS
  <2> QED BY <2>4, <2>5, Zenon
<1> HIDE DEF S
<1>3. TreeDepth \in S
  BY <1>1, <1>2, SetInduction, ShadowTreeAssumption
<1>4. PICK f : Up(f, TreeDepth)
  BY <1>3 DEF S
<1> DEFINE Rec(h) == h = [level \in 0 .. TreeDepth |->
                            IF level = 0 THEN bottom
                            ELSE ParentRow(level, h[level - 1])]
           g == [l \in 0 .. TreeDepth |-> f[l]]
<1>5. Rec(g)
  <2>1. \A l \in 0 .. TreeDepth :
          g[l] = IF l = 0 THEN bottom
                 ELSE ParentRow(l, g[l - 1])
    BY <1>4, ShadowTreeAssumption
  <2>2. g = [l \in 0 .. TreeDepth |-> g[l]]
    OBVIOUS
  <2> HIDE DEF g
  <2> QED BY <2>1, <2>2, Zenon
<1> HIDE DEF g
<1> DEFINE rows == Rows(bottom)
<1>6. rows = CHOOSE h : Rec(h)
  BY Zenon DEF Rows
<1>7. Rec(rows)
  BY <1>5, <1>6, Zenon
<1> HIDE DEF rows
<1>8. \A l \in 0 .. TreeDepth :
        rows[l] = IF l = 0 THEN bottom
                  ELSE ParentRow(l, rows[l - 1])
  BY <1>7, Zenon
<1> HIDE DEF Rec
<1>9. /\ rows[0] = bottom
      /\ \A l \in 1 .. TreeDepth :
           rows[l] = ParentRow(l, rows[l - 1])
  BY <1>8, ShadowTreeAssumption
<1> QED BY <1>9 DEF rows

(* Shifts of the index 0: its bits are 0, and its ancestors are at 0.      *)
LEMMA WeightPositive == \A l \in 0 .. TreeDepth : weight[l] \in Nat \ {0}
<1> DEFINE S == {n \in Nat : n \in 0 .. TreeDepth => weight[n] \in Nat \ {0}}
<1>1. 0 \in S
  BY WeightDef
<1>2. ASSUME NEW n \in Nat, n \in S PROVE n + 1 \in S
  <2> SUFFICES ASSUME n + 1 \in 0 .. TreeDepth PROVE weight[n + 1] \in Nat \ {0}
    OBVIOUS
  <2>1. n \in 0 .. TreeDepth /\ n + 1 \in 1 .. TreeDepth
    BY ShadowTreeAssumption
  <2>2. weight[n] \in Nat \ {0}
    BY <1>2, <2>1
  <2>3. weight[n + 1] = 2 * weight[n]
    BY <2>1, WeightDef
  <2> QED BY <2>2, <2>3
<1> HIDE DEF S
<1>3. Nat \subseteq S
  BY <1>1, <1>2, SetInduction
<1> QED BY <1>3, ShadowTreeAssumption DEF S

LEMMA IndexZero ==
  ASSUME NEW level \in 0 .. TreeDepth
  PROVE  /\ 0 \div weight[level] = 0
         /\ Bit(0, level) = 0
         /\ SiblingPos(0, level) = weight[level]
<1>1. weight[level] \in Nat \ {0}
  BY WeightPositive
<1>2. 0 \div weight[level] = 0
  BY <1>1
<1>3. Bit(0, level) = 0
  BY <1>2 DEF Bit
<1> QED BY <1>1, <1>2, <1>3 DEF SiblingPos

------------------------------------------------------------------------------
(* The shadow tree.  Every insertion works at index 0, so that each sibling*)
(* it reads is empty and each hash it holds is one of its own leaf's path. *)
Empty == [level \in 0 .. TreeDepth - 1 |-> zeros[level]]

Climb(leaf) == Path(leaf, 0, Empty)

LEMMA ClimbDef ==
  ASSUME NEW leaf
  PROVE  /\ Climb(leaf)[0] = leaf
         /\ \A l \in 0 .. TreeDepth - 1 :
              Climb(leaf)[l + 1] = Hash(Climb(leaf)[l], zeros[l])
<1> DEFINE path == Path(leaf, 0, Empty)
<1>1. /\ path[0] = leaf
      /\ \A l \in 1 .. TreeDepth :
           path[l] = Parent(0, l - 1, path[l - 1], Empty[l - 1])
  BY PathDef
<1> HIDE DEF path
<1>2. ASSUME NEW l \in 0 .. TreeDepth - 1
      PROVE  path[l + 1] = Hash(path[l], zeros[l])
  <2>1. l + 1 \in 1 .. TreeDepth /\ (l + 1) - 1 = l /\ l \in 0 .. TreeDepth
    BY ShadowTreeAssumption
  <2>2. path[l + 1] = Parent(0, l, path[l], Empty[l])
    BY <1>1, <2>1
  <2>3. Empty[l] = zeros[l]
    BY DEF Empty
  <2>4. Bit(0, l) = 0
    BY <2>1, IndexZero
  <2> QED BY <2>2, <2>3, <2>4 DEF Parent
<1> QED BY <1>1, <1>2 DEF Climb, path

Hashes ==
  {Missing} \cup {zeros[l] : l \in 0 .. TreeDepth}
    \cup {Climb(leaf)[l] : leaf \in Leaves, l \in 0 .. TreeDepth}

Call == [pc      : Stages,
         leaf    : Leaves \cup {Missing},
         index   : {0},
         level   : 0 .. TreeDepth,
         current : Hashes,
         sibling : Hashes]

(* What an insertion holds at each place.                                  *)
CallOK(c) ==
  /\ c.pc # "idle" => c.leaf \in Leaves
  /\ c.pc \in {"idle", "start", "leaf"} => c.level = 0
  /\ c.pc \in {"sibling", "parent"} => c.level < TreeDepth
  /\ c.pc = "finish" => c.level = TreeDepth
  /\ c.pc \in {"sibling", "parent", "finish"} => c.current = Climb(c.leaf)[c.level]
  /\ c.pc = "parent" => c.sibling = zeros[c.level]

CallsInv ==
  /\ insertion \in [Requests -> Call]
  /\ \A i \in Requests : CallOK(insertion[i])

(* Nodes are stored at position 0 of their level only; next_index is never *)
(* read back.                                                              *)
StoreInv ==
  /\ DOMAIN node \subseteq (0 .. TreeDepth) \X {0}
  /\ DOMAIN state = {"root", "nextindex", "next_index"}
  /\ state.nextindex = Missing
  /\ state.next_index \in Nat
  /\ disturbed \in BOOLEAN

RootInv ==
  \/ state.root = ZeroRoot
  \/ \E i \in Requests :
       insertion[i].pc # "idle" /\ state.root = Climb(insertion[i].leaf)[TreeDepth]

Climbing(i) == insertion[i].pc \in {"sibling", "parent", "finish"}

(* Insertions one after the other: the leaf stored is that of the one under*)
(* way, or the one the root was computed from.                             *)
SerialInv ==
  ~disturbed =>
    /\ \A i, j \in Requests : Running(i) /\ Running(j) => i = j
    /\ \A i \in Requests : insertion[i].pc # "failed"
    /\ \A i \in Requests : Climbing(i) =>
         <<0, 0>> \in DOMAIN node /\ node[<<0, 0>>] = insertion[i].leaf
    /\ <<0, 0>> \in DOMAIN node /\ (\A i \in Requests : ~Climbing(i))
         => state.root = Climb(node[<<0, 0>>])[TreeDepth]

TreeInv == CallsInv /\ StoreInv /\ RootInv /\ SerialInv

LEMMA HashesIn ==
  /\ Missing \in Hashes
  /\ \A l \in 0 .. TreeDepth : zeros[l] \in Hashes
  /\ \A leaf \in Leaves, l \in 0 .. TreeDepth : Climb(leaf)[l] \in Hashes
BY DEF Hashes

LEMMA TreeInitInv == TreeInit => TreeInv
<1> SUFFICES ASSUME TreeInit PROVE TreeInv
  OBVIOUS
<1> DEFINE c == [pc |-> "idle", leaf |-> Missing, index |-> 0, level |-> 0,
                 current |-> Missing, sibling |-> Missing]
<1>1. c \in Call /\ CallOK(c)
  BY HashesIn, ShadowTreeAssumption DEF Call, CallOK, Stages
<1>2. insertion = [i \in Requests |-> c]
  BY DEF TreeInit
<1>3. c.pc = "idle"
  OBVIOUS
<1> HIDE DEF c
<1>4. CallsInv /\ \A i \in Requests : insertion[i].pc = "idle"
  BY <1>1, <1>2, <1>3 DEF CallsInv
<1>5. StoreInv /\ RootInv
  BY DEF TreeInit, StoreInv, RootInv
<1>6. SerialInv
  BY <1>4 DEF SerialInv, Climbing, Running, TreeInit
<1> QED BY <1>4, <1>5, <1>6 DEF TreeInv

(* One insertion goes on from one right state to another, on its own leaf. *)
Goes(i, c) ==
  /\ insertion' = [insertion EXCEPT ![i] = c]
  /\ c \in Call /\ CallOK(c)
  /\ c.pc # "idle"
  /\ insertion[i].pc # "idle" => c.leaf = insertion[i].leaf

LEMMA GoesCalls ==
  ASSUME CallsInv, NEW i \in Requests, NEW c, Goes(i, c)
  PROVE  /\ CallsInv'
         /\ insertion'[i] = c
         /\ \A x \in Requests \ {i} : insertion'[x] = insertion[x]
<1>1. /\ insertion'[i] = c
      /\ \A x \in Requests \ {i} : insertion'[x] = insertion[x]
      /\ insertion' \in [Requests -> Call]
  BY DEF Goes, CallsInv
<1> QED BY <1>1 DEF Goes, CallsInv

(* The root of an insertion stays that of its leaf.                        *)
LEMMA GoesRoot ==
  ASSUME CallsInv, RootInv, NEW i \in Requests, NEW c, Goes(i, c), state'.root = state.root
  PROVE  RootInv'
<1>1. CASE state.root = ZeroRoot
  BY <1>1 DEF RootInv
<1>2. ASSUME NEW x \in Requests, insertion[x].pc # "idle",
             state.root = Climb(insertion[x].leaf)[TreeDepth]
      PROVE  RootInv'
  <2>1. insertion'[x].pc # "idle" /\ insertion'[x].leaf = insertion[x].leaf
    BY <1>2, GoesCalls DEF Goes
  <2> QED BY <1>2, <2>1 DEF RootInv
<1> QED BY <1>1, <1>2 DEF RootInv

(* Steps that neither store the leaf nor the root.                         *)
LEMMA GoesSerial ==
  ASSUME TreeInv, NEW i \in Requests, NEW c, Goes(i, c),
         Running(i) \/ disturbed', c.pc # "failed" \/ disturbed',
         disturbed => disturbed',
         Climbing(i) <=> c.pc \in {"sibling", "parent", "finish"},
         state'.root = state.root,
         <<0, 0>> \in DOMAIN node' <=> <<0, 0>> \in DOMAIN node,
         <<0, 0>> \in DOMAIN node => node'[<<0, 0>>] = node[<<0, 0>>]
  PROVE  SerialInv'
<1> SUFFICES ASSUME ~disturbed' PROVE SerialInv'
  BY DEF SerialInv
<1>1. /\ insertion'[i] = c
      /\ \A x \in Requests \ {i} : insertion'[x] = insertion[x]
  BY GoesCalls DEF TreeInv
<1>2. /\ \A x \in Requests : Running(x)' => Running(x)
      /\ \A x \in Requests : Climbing(x)' <=> Climbing(x)
      /\ \A x \in Requests : Climbing(x) => insertion'[x].leaf = insertion[x].leaf
      /\ \A x \in Requests : insertion'[x].pc # "failed"
  BY <1>1 DEF TreeInv, SerialInv, Climbing, Running, Goes
<1> QED BY <1>2 DEF TreeInv, SerialInv

LEMMA BeginInv ==
  ASSUME TreeInv, NEW i \in Requests, NEW leaf \in Leaves, BeginInsertion(i, leaf)
  PROVE  TreeInv'
<1> USE DEF TreeInv
<1> DEFINE c == [insertion[i] EXCEPT !.pc = "start", !.leaf = leaf]
<1>1. /\ insertion[i].pc = "idle"
      /\ insertion[i] \in Call /\ CallOK(insertion[i])
      /\ UNCHANGED <<node, state>>
  BY DEF CallsInv, BeginInsertion, tree
<1>2. c \in Call /\ CallOK(c) /\ c.pc = "start" /\ c.leaf = leaf
  BY <1>1 DEF Call, CallOK, Stages
<1>3. insertion' = [insertion EXCEPT ![i] = c]
  BY DEF BeginInsertion, CallsInv, Call
<1> HIDE DEF c
<1>4. Goes(i, c)
  BY <1>1, <1>2, <1>3 DEF Goes
<1>5. CallsInv' /\ RootInv'
  BY <1>1, <1>4, GoesCalls, GoesRoot
<1>6. disturbed' = (disturbed \/ \E j \in Requests : Running(j))
  BY DEF BeginInsertion
<1>7. StoreInv'
  BY <1>1, <1>6 DEF StoreInv
<1>8. SerialInv'
  <2> SUFFICES ASSUME ~disturbed, \A j \in Requests : ~Running(j) PROVE SerialInv'
    BY <1>6 DEF SerialInv
  <2>1. insertion'[i] = c /\ \A x \in Requests \ {i} : insertion'[x] = insertion[x]
    BY <1>4, GoesCalls
  <2>2. /\ \A x \in Requests : Running(x)' => x = i
        /\ \A x \in Requests : ~Climbing(x)' /\ ~Climbing(x)
        /\ \A x \in Requests : insertion'[x].pc # "failed"
    BY <1>1, <1>2, <2>1 DEF SerialInv, Climbing, Running
  <2> QED BY <1>1, <2>2 DEF SerialInv
<1> QED BY <1>5, <1>7, <1>8

LEMMA ReadStateInv ==
  ASSUME TreeInv, NEW i \in Requests, ReadState(i)
  PROVE  TreeInv'
<1> USE DEF TreeInv
<1> DEFINE c == [insertion[i] EXCEPT !.pc = "leaf", !.index = 0]
<1>1. /\ insertion[i].pc = "start"
      /\ insertion[i] \in Call /\ CallOK(insertion[i])
      /\ UNCHANGED <<node, state, disturbed>>
  BY DEF CallsInv, ReadState, tree
<1>2. c \in Call /\ CallOK(c) /\ c.pc = "leaf" /\ c.leaf = insertion[i].leaf
  BY <1>1 DEF Call, CallOK, Stages
<1>3. NextIndex = 0
  BY DEF StoreInv, NextIndex
<1>4. insertion' = [insertion EXCEPT ![i] = c]
  BY <1>3 DEF ReadState, CallsInv, Call
<1> HIDE DEF c
<1>5. Goes(i, c)
  BY <1>1, <1>2, <1>4 DEF Goes
<1>6. CallsInv' /\ RootInv' /\ StoreInv'
  BY <1>1, <1>5, GoesCalls, GoesRoot DEF StoreInv
<1>7. SerialInv'
  BY <1>1, <1>2, <1>5, GoesSerial DEF Climbing, Running
<1> QED BY <1>6, <1>7

(* What the three writes do.                                               *)
LEMMA PutLeafStores ==
  ASSUME TreeInv, NEW i \in Requests, PutLeaf(i)
  PROVE  /\ insertion[i].pc = "leaf"
         /\ UNCHANGED state
         /\ DOMAIN node' \subseteq (0 .. TreeDepth) \X {0}
         /\ <<0, 0>> \in DOMAIN node' /\ node'[<<0, 0>>] = insertion[i].leaf
<1>1. insertion[i].index = 0
  BY DEF TreeInv, CallsInv, Call
<1>2. node' = [k \in DOMAIN node \cup {<<0, 0>>} |->
                 IF k = <<0, 0>> THEN insertion[i].leaf ELSE node[k]]
  BY <1>1 DEF PutLeaf, Upsert
<1>3. <<0, 0>> \in (0 .. TreeDepth) \X {0}
  BY ShadowTreeAssumption
<1> QED BY <1>2, <1>3 DEF PutLeaf, TreeInv, StoreInv

LEMMA PutParentStores ==
  ASSUME TreeInv, NEW i \in Requests, PutParent(i)
  PROVE  /\ insertion[i].pc = "parent"
         /\ UNCHANGED state
         /\ DOMAIN node' \subseteq (0 .. TreeDepth) \X {0}
         /\ <<0, 0>> \in DOMAIN node' <=> <<0, 0>> \in DOMAIN node
         /\ <<0, 0>> \in DOMAIN node => node'[<<0, 0>>] = node[<<0, 0>>]
<1> DEFINE level == insertion[i].level + 1
<1>1. insertion[i].pc = "parent" /\ insertion[i].index = 0 /\ level \in 1 .. TreeDepth
  <2>1. insertion[i] \in Call /\ CallOK(insertion[i]) /\ insertion[i].pc = "parent"
    BY DEF TreeInv, CallsInv, PutParent
  <2>2. insertion[i].level \in 0 .. TreeDepth /\ insertion[i].level < TreeDepth
    BY <2>1 DEF Call, CallOK
  <2> QED BY <2>1, <2>2, ShadowTreeAssumption DEF Call
<1>2. 0 \div weight[level] = 0
  BY <1>1, IndexZero
<1>3. node' = [k \in DOMAIN node \cup {<<level, 0>>} |->
                 IF k = <<level, 0>> THEN ParentHash(i) ELSE node[k]]
  BY <1>1, <1>2 DEF PutParent, Upsert
<1> HIDE DEF level
<1>4. <<level, 0>> \in (0 .. TreeDepth) \X {0} /\ <<level, 0>> # <<0, 0>>
  BY <1>1
<1>5. DOMAIN node' = DOMAIN node \cup {<<level, 0>>}
  BY <1>3
<1>6. <<0, 0>> \in DOMAIN node => node'[<<0, 0>>] = node[<<0, 0>>]
  BY <1>3, <1>4
<1> QED BY <1>1, <1>4, <1>5, <1>6 DEF PutParent, TreeInv, StoreInv

LEMMA WriteLeafInv ==
  ASSUME TreeInv, NEW i \in Requests, WriteLeaf(i)
  PROVE  TreeInv'
<1> USE DEF TreeInv
<1> DEFINE c == [insertion[i] EXCEPT !.pc = "sibling", !.current = insertion[i].leaf]
<1>1. /\ insertion[i].pc = "leaf"
      /\ insertion[i] \in Call /\ CallOK(insertion[i])
      /\ UNCHANGED <<state, disturbed>>
      /\ DOMAIN node' \subseteq (0 .. TreeDepth) \X {0}
      /\ <<0, 0>> \in DOMAIN node' /\ node'[<<0, 0>>] = insertion[i].leaf
  BY PutLeafStores DEF CallsInv, WriteLeaf
<1>2. c \in Call /\ CallOK(c) /\ c.pc = "sibling" /\ c.leaf = insertion[i].leaf
  <2>1. insertion[i].leaf \in Leaves /\ insertion[i].level = 0
    BY <1>1 DEF CallOK
  <2>2. Climb(insertion[i].leaf)[0] = insertion[i].leaf /\ insertion[i].leaf \in Hashes
    BY <2>1, ClimbDef, HashesIn, ShadowTreeAssumption
  <2>3. c \in Call
    BY <1>1, <2>2 DEF Call, Stages
  <2>4. CallOK(c)
    BY <1>1, <2>1, <2>2, ShadowTreeAssumption DEF Call, CallOK
  <2> QED BY <1>1, <2>3, <2>4 DEF Call
<1>3. insertion' = [insertion EXCEPT ![i] = c]
  BY DEF WriteLeaf, CallsInv, Call
<1> HIDE DEF c
<1>4. Goes(i, c)
  BY <1>1, <1>2, <1>3 DEF Goes
<1>5. CallsInv' /\ RootInv' /\ StoreInv'
  BY <1>1, <1>4, GoesCalls, GoesRoot DEF StoreInv
<1>6. SerialInv'
  <2> SUFFICES ASSUME ~disturbed PROVE SerialInv'
    BY <1>1 DEF SerialInv
  <2>1. insertion'[i] = c /\ \A x \in Requests \ {i} : insertion'[x] = insertion[x]
    BY <1>4, GoesCalls
  <2>2. \A x \in Requests \ {i} : ~Running(x) /\ ~Running(x)' /\ ~Climbing(x)'
    BY <1>1, <2>1 DEF SerialInv, Climbing, Running
  <2>3. \A x \in Requests : insertion'[x].pc # "failed"
    BY <1>2, <2>1 DEF SerialInv
  <2>4. Climbing(i)' /\ insertion'[i].leaf = insertion[i].leaf
    BY <1>2, <2>1 DEF Climbing
  <2> QED BY <1>1, <2>2, <2>3, <2>4 DEF SerialInv
<1> QED BY <1>5, <1>6

(* The sibling read is empty: nothing is stored beside position 0.         *)
LEMMA SiblingEmpty ==
  ASSUME StoreInv, NEW level \in 0 .. TreeDepth
  PROVE  Stored(level, SiblingPos(0, level)) = zeros[level]
<1>1. weight[level] \in Nat \ {0} /\ Bit(0, level) = 0
  BY WeightPositive, IndexZero
<1>2. SiblingPos(0, level) # 0
  BY <1>1 DEF SiblingPos
<1>3. <<level, SiblingPos(0, level)>> \notin DOMAIN node
  BY <1>2 DEF StoreInv
<1> QED BY <1>3 DEF Stored

LEMMA ReadSiblingInv ==
  ASSUME TreeInv, NEW i \in Requests, ReadSibling(i)
  PROVE  TreeInv'
<1> USE DEF TreeInv
<1> DEFINE level == insertion[i].level
           c == [insertion[i] EXCEPT !.pc = "parent", !.sibling = zeros[level]]
<1>1. /\ insertion[i].pc = "sibling"
      /\ insertion[i] \in Call /\ CallOK(insertion[i])
      /\ UNCHANGED <<node, state, disturbed>>
  BY DEF CallsInv, ReadSibling, tree
<1>2. level \in 0 .. TreeDepth /\ insertion[i].index = 0
  BY <1>1 DEF Call
<1>3. Stored(level, SiblingPos(insertion[i].index, level)) = zeros[level]
  BY <1>2, SiblingEmpty
<1>4. insertion' = [insertion EXCEPT ![i].pc = "parent", ![i].sibling = zeros[level]]
  BY <1>3 DEF ReadSibling
<1>5. insertion' = [insertion EXCEPT ![i] = c]
  BY <1>4 DEF CallsInv, Call
<1>6. c \in Call /\ CallOK(c) /\ c.pc = "parent" /\ c.leaf = insertion[i].leaf
  BY <1>1, <1>2, HashesIn DEF Call, CallOK, Stages
<1> HIDE DEF c
<1>7. Goes(i, c)
  BY <1>1, <1>5, <1>6 DEF Goes
<1>8. CallsInv' /\ RootInv' /\ StoreInv'
  BY <1>1, <1>7, GoesCalls, GoesRoot DEF StoreInv
<1>9. SerialInv'
  BY <1>1, <1>6, <1>7, GoesSerial DEF Climbing, Running
<1> QED BY <1>8, <1>9

LEMMA WriteParentInv ==
  ASSUME TreeInv, NEW i \in Requests, WriteParent(i)
  PROVE  TreeInv'
<1> USE DEF TreeInv
<1> DEFINE level == insertion[i].level
           pc == IF level + 1 = TreeDepth THEN "finish" ELSE "sibling"
           c == [insertion[i] EXCEPT !.pc = pc, !.level = level + 1,
                                     !.current = Climb(insertion[i].leaf)[level + 1]]
<1>1. /\ insertion[i].pc = "parent"
      /\ insertion[i] \in Call /\ CallOK(insertion[i])
      /\ UNCHANGED <<state, disturbed>>
      /\ DOMAIN node' \subseteq (0 .. TreeDepth) \X {0}
      /\ <<0, 0>> \in DOMAIN node' <=> <<0, 0>> \in DOMAIN node
      /\ <<0, 0>> \in DOMAIN node => node'[<<0, 0>>] = node[<<0, 0>>]
  BY PutParentStores DEF CallsInv, WriteParent
<1>2. /\ level \in 0 .. TreeDepth - 1 /\ level \in 0 .. TreeDepth
      /\ level + 1 \in 0 .. TreeDepth
      /\ insertion[i].index = 0 /\ insertion[i].leaf \in Leaves
  <2>1. level \in 0 .. TreeDepth /\ insertion[i].index = 0
    BY <1>1 DEF Call
  <2>2. level < TreeDepth /\ insertion[i].leaf \in Leaves
    BY <1>1 DEF CallOK
  <2> QED BY <2>1, <2>2, ShadowTreeAssumption
<1>3. ParentHash(i) = Climb(insertion[i].leaf)[level + 1]
  <2>1. /\ insertion[i].current = Climb(insertion[i].leaf)[level]
        /\ insertion[i].sibling = zeros[level]
    BY <1>1 DEF CallOK
  <2>2. Bit(0, level) = 0
    BY <1>2, IndexZero
  <2> QED BY <1>2, <2>1, <2>2, ClimbDef DEF ParentHash, Parent
<1>4. insertion' = [insertion EXCEPT ![i].pc = pc, ![i].level = level + 1,
                                     ![i].current = Climb(insertion[i].leaf)[level + 1]]
  BY <1>3 DEF WriteParent
<1>5. insertion' = [insertion EXCEPT ![i] = c]
  BY <1>4 DEF CallsInv, Call
<1>6. pc \in Stages /\ Climb(insertion[i].leaf)[level + 1] \in Hashes
  BY <1>2, HashesIn DEF Stages
<1>7. c \in Call
  BY <1>1, <1>2, <1>6 DEF Call
<1>8. /\ c.pc = pc /\ c.level = level + 1 /\ c.leaf = insertion[i].leaf
      /\ c.current = Climb(insertion[i].leaf)[level + 1]
  BY <1>1 DEF Call
<1> HIDE DEF c
<1>9. CallOK(c)
  <2>1. \/ pc = "finish" /\ level + 1 = TreeDepth
        \/ pc = "sibling" /\ level + 1 < TreeDepth
    BY <1>2, ShadowTreeAssumption
  <2> HIDE DEF pc, level
  <2>2. c.level = level + 1 /\ c.leaf \in Leaves
    BY <1>2, <1>8
  <2> QED BY <1>8, <2>1, <2>2 DEF CallOK
<1>10. Goes(i, c)
  BY <1>1, <1>5, <1>7, <1>8, <1>9 DEF Goes
<1>11. CallsInv' /\ RootInv' /\ StoreInv'
  BY <1>1, <1>10, GoesCalls, GoesRoot DEF StoreInv
<1>12. SerialInv'
  BY <1>1, <1>8, <1>10, GoesSerial DEF Climbing, Running
<1> QED BY <1>11, <1>12

(* The state is stored with the root of the insertion's own leaf.          *)
LEMMA PutStateStores ==
  ASSUME TreeInv, NEW i \in Requests, PutState(i)
  PROVE  /\ insertion[i].pc = "finish"
         /\ UNCHANGED node
         /\ state'.root = Climb(insertion[i].leaf)[TreeDepth]
         /\ DOMAIN state' = {"root", "nextindex", "next_index"}
         /\ state'.nextindex = Missing /\ state'.next_index \in Nat
<1>1. insertion[i].pc = "finish" /\ insertion[i] \in Call /\ CallOK(insertion[i])
  BY DEF TreeInv, CallsInv, PutState
<1>2. /\ insertion[i].index = 0
      /\ insertion[i].current = Climb(insertion[i].leaf)[TreeDepth]
  BY <1>1 DEF Call, CallOK
<1>3. state' = [state EXCEPT !.root = Climb(insertion[i].leaf)[TreeDepth], !.next_index = 1]
  BY <1>2 DEF PutState
<1>4. /\ state'.root = Climb(insertion[i].leaf)[TreeDepth]
      /\ DOMAIN state' = {"root", "nextindex", "next_index"}
      /\ state'.nextindex = Missing /\ state'.next_index \in Nat
  <2>1. DOMAIN state = {"root", "nextindex", "next_index"} /\ state.nextindex = Missing
    BY DEF TreeInv, StoreInv
  <2> QED BY <1>3, <2>1
<1> QED BY <1>1, <1>4 DEF PutState

LEMMA WriteStateInv ==
  ASSUME TreeInv, NEW i \in Requests, WriteState(i)
  PROVE  TreeInv'
<1> USE DEF TreeInv
<1> DEFINE c == [insertion[i] EXCEPT !.pc = "done"]
<1>1. /\ insertion[i].pc = "finish"
      /\ insertion[i] \in Call /\ CallOK(insertion[i])
      /\ UNCHANGED <<node, disturbed>>
      /\ state'.root = Climb(insertion[i].leaf)[TreeDepth]
      /\ DOMAIN state' = {"root", "nextindex", "next_index"}
      /\ state'.nextindex = Missing /\ state'.next_index \in Nat
  BY PutStateStores DEF CallsInv, WriteState
<1>2. c \in Call /\ CallOK(c) /\ c.pc = "done" /\ c.leaf = insertion[i].leaf
  BY <1>1 DEF Call, CallOK, Stages
<1>3. insertion' = [insertion EXCEPT ![i] = c]
  BY DEF WriteState, Goto, CallsInv, Call
<1> HIDE DEF c
<1>4. Goes(i, c)
  BY <1>1, <1>2, <1>3 DEF Goes
<1>5. insertion'[i] = c /\ \A x \in Requests \ {i} : insertion'[x] = insertion[x]
  BY <1>4, GoesCalls
<1>6. CallsInv' /\ StoreInv'
  BY <1>1, <1>4, GoesCalls DEF StoreInv
<1>7. RootInv'
  BY <1>1, <1>2, <1>5 DEF RootInv
<1>8. SerialInv'
  <2> SUFFICES ASSUME ~disturbed PROVE SerialInv'
    BY <1>1 DEF SerialInv
  <2>1. /\ \A x \in Requests : Running(x)' => Running(x)
        /\ \A x \in Requests : ~Climbing(x)'
        /\ \A x \in Requests : insertion'[x].pc # "failed"
    BY <1>1, <1>2, <1>5 DEF SerialInv, Climbing, Running
  <2>2. <<0, 0>> \in DOMAIN node /\ node[<<0, 0>>] = insertion[i].leaf
    BY <1>1 DEF SerialInv, Climbing
  <2> QED BY <1>1, <2>1, <2>2 DEF SerialInv
<1> QED BY <1>6, <1>7, <1>8

LEMMA FailInv ==
  ASSUME TreeInv, NEW i \in Requests, FailInsertion(i)
  PROVE  TreeInv'
<1> USE DEF TreeInv
<1> DEFINE c == [insertion[i] EXCEPT !.pc = "failed"]
<1>1. /\ insertion[i].pc # "idle"
      /\ insertion[i] \in Call /\ CallOK(insertion[i])
      /\ disturbed' = TRUE
  BY DEF CallsInv, FailInsertion
<1>2. c \in Call /\ CallOK(c) /\ c.pc = "failed" /\ c.leaf = insertion[i].leaf
  BY <1>1 DEF Call, CallOK, Stages
<1>3. insertion' = [insertion EXCEPT ![i] = c]
  BY DEF FailInsertion, Goto, CallsInv, Call
<1> HIDE DEF c
<1>4. Goes(i, c)
  BY <1>1, <1>2, <1>3 DEF Goes
<1>5. CallsInv' /\ SerialInv'
  BY <1>1, <1>4, GoesCalls DEF SerialInv
<1>6. CASE UNCHANGED tree \/ PutLeaf(i) \/ PutParent(i)
  <2>1. DOMAIN node' \subseteq (0 .. TreeDepth) \X {0} /\ UNCHANGED state
    BY <1>6, PutLeafStores, PutParentStores DEF tree, StoreInv
  <2> QED BY <1>1, <1>4, <1>5, <2>1, GoesRoot DEF StoreInv
<1>7. CASE PutState(i)
  <2>1. insertion'[i] = c
    BY <1>4, GoesCalls
  <2>2. RootInv'
    BY <1>2, <1>7, <2>1, PutStateStores DEF RootInv
  <2>3. StoreInv'
    BY <1>1, <1>7, PutStateStores DEF StoreInv
  <2> QED BY <1>5, <2>2, <2>3
<1> QED BY <1>6, <1>7 DEF FailInsertion

LEMMA StopInv ==
  ASSUME TreeInv, StopInsertions
  PROVE  TreeInv'
<1> USE DEF TreeInv
<1>1. disturbed' = TRUE /\ UNCHANGED <<node, state>>
  BY DEF StopInsertions, tree
<1> DEFINE stopped(i) == IF Running(i) THEN [insertion[i] EXCEPT !.pc = "failed"]
                         ELSE insertion[i]
<1>2. insertion' = [i \in Requests |-> stopped(i)]
  BY DEF StopInsertions
<1>3. ASSUME NEW i \in Requests
      PROVE  /\ stopped(i) \in Call /\ CallOK(stopped(i))
             /\ stopped(i).leaf = insertion[i].leaf
             /\ insertion[i].pc # "idle" => stopped(i).pc # "idle"
  <2>1. insertion[i] \in Call /\ CallOK(insertion[i])
    BY DEF CallsInv
  <2>2. CASE Running(i)
    BY <2>1, <2>2 DEF Call, CallOK, Stages, Running
  <2>3. CASE ~Running(i)
    BY <2>1, <2>3
  <2> QED BY <2>2, <2>3
<1> HIDE DEF stopped
<1>4. CallsInv' /\ RootInv'
  BY <1>1, <1>2, <1>3 DEF CallsInv, RootInv
<1>5. StoreInv' /\ SerialInv'
  BY <1>1 DEF StoreInv, SerialInv
<1> QED BY <1>4, <1>5

LEMMA TreeStep ==
  ASSUME TreeInv, [TreeNext]_treeVars
  PROVE  TreeInv'
<1>1. ASSUME NEW i \in Requests, InsertionStep(i) PROVE TreeInv'
  BY <1>1, ReadStateInv, WriteLeafInv, ReadSiblingInv, WriteParentInv, WriteStateInv, FailInv
     DEF InsertionStep
<1>2. CASE UNCHANGED treeVars
  <2>1. UNCHANGED <<node, state, insertion, disturbed>>
    BY <1>2 DEF treeVars
  <2> QED BY <2>1 DEF TreeInv, CallsInv, StoreInv, RootInv, SerialInv, Climbing, Running
<1> QED BY <1>1, <1>2, BeginInv, StopInv DEF TreeNext

LEMMA TreeInvariance == TreeSpec => []TreeInv
BY TreeInitInv, TreeStep, PTL DEF TreeSpec

LEMMA TreeTyped == TreeInv => TreeTypeOK
<1> SUFFICES ASSUME TreeInv PROVE TreeTypeOK
  OBVIOUS
<1>1. ASSUME NEW i \in Requests
      PROVE  /\ DOMAIN insertion[i] = {"pc", "leaf", "index", "level", "current", "sibling"}
             /\ insertion[i].pc \in Stages
             /\ insertion[i].leaf \in Leaves \cup {Missing}
             /\ insertion[i].index \in Nat
             /\ insertion[i].level \in 0 .. TreeDepth
  <2>1. insertion[i] \in Call
    BY DEF TreeInv, CallsInv
  <2> QED BY <2>1 DEF Call
<1> QED BY <1>1 DEF TreeInv, StoreInv, TreeTypeOK

(* Every insertion reads index 0, and its tree has that one leaf: level by *)
(* level, its hash climbs at position 0 beside empty subtrees.             *)
LEMMA RootOfOne ==
  ASSUME CallsInv, NEW i \in Requests
  PROVE  RootOf({i}) = Climb(insertion[i].leaf)[TreeDepth]
<1> DEFINE leaf == insertion[i].leaf
           bottom == Bottom({i})
           rows == Rows(bottom)
           At(l, p) == rows[l][p] = IF p = 0 THEN Climb(leaf)[l] ELSE zeros[l]
           S == {n \in Nat : n \in 0 .. TreeDepth =>
                   \A p \in 0 .. weight[TreeDepth - n] - 1 : At(n, p)}
<1>1. insertion[i].index = 0
  BY DEF CallsInv, Call
<1>2. \A p \in 0 .. weight[TreeDepth] - 1 : bottom[p] = IF p = 0 THEN leaf ELSE ZeroLeaf
  BY <1>1 DEF Bottom
<1> HIDE DEF leaf, bottom
<1>3. /\ rows[0] = bottom
      /\ \A l \in 1 .. TreeDepth : rows[l] = ParentRow(l, rows[l - 1])
  BY RowsDef
<1> HIDE DEF rows
<1>4. 0 \in S
  BY <1>2, <1>3, ClimbDef, ZerosDef, ShadowTreeAssumption
<1>5. ASSUME NEW n \in Nat, n \in S PROVE n + 1 \in S
  <2> SUFFICES ASSUME n + 1 \in 0 .. TreeDepth,
                      NEW p \in 0 .. weight[TreeDepth - (n + 1)] - 1
               PROVE  At(n + 1, p)
    OBVIOUS
  <2>1. /\ n \in 0 .. TreeDepth - 1 /\ n \in 0 .. TreeDepth
        /\ n + 1 \in 1 .. TreeDepth
        /\ TreeDepth - (n + 1) \in 0 .. TreeDepth
        /\ TreeDepth - n \in 1 .. TreeDepth
        /\ (TreeDepth - n) - 1 = TreeDepth - (n + 1)
        /\ (n + 1) - 1 = n
    BY ShadowTreeAssumption
  <2>2. weight[TreeDepth - n] = 2 * weight[TreeDepth - (n + 1)]
    BY <2>1, WeightDef
  <2>3. weight[TreeDepth - (n + 1)] \in Nat
    BY <2>1, WeightPositive
  <2>4. /\ 2 * p \in 0 .. weight[TreeDepth - n] - 1
        /\ 2 * p + 1 \in 0 .. weight[TreeDepth - n] - 1
        /\ 2 * p + 1 # 0 /\ (2 * p = 0 <=> p = 0)
    BY <2>2, <2>3
  <2>5. At(n, 2 * p) /\ At(n, 2 * p + 1)
    <3>1. \A q \in 0 .. weight[TreeDepth - n] - 1 : At(n, q)
      BY <1>5, <2>1
    <3> HIDE DEF At
    <3> QED BY <2>4, <3>1
  <2>6. rows[n + 1] = ParentRow(n + 1, rows[n])
    BY <1>3, <2>1
  <2>7. rows[n + 1][p] = Hash(rows[n][2 * p], rows[n][2 * p + 1])
    BY <2>6 DEF ParentRow
  <2>8. rows[n][2 * p + 1] = zeros[n]
    BY <2>4, <2>5
  <2>9. CASE p = 0
    <3>1. rows[n][2 * p] = Climb(leaf)[n]
      BY <2>4, <2>5, <2>9
    <3>2. Climb(leaf)[n + 1] = Hash(Climb(leaf)[n], zeros[n])
      BY <2>1, ClimbDef
    <3> QED BY <2>7, <2>8, <2>9, <3>1, <3>2
  <2>10. CASE p # 0
    <3>1. rows[n][2 * p] = zeros[n]
      BY <2>4, <2>5, <2>10
    <3>2. zeros[n + 1] = Hash(zeros[n], zeros[n])
      BY <2>1, ZerosDef
    <3> QED BY <2>7, <2>8, <2>10, <3>1, <3>2
  <2> QED BY <2>9, <2>10
<1>6. TreeDepth \in S
  <2> HIDE DEF S
  <2> QED BY <1>4, <1>5, SetInduction, ShadowTreeAssumption
<1>7. rows[TreeDepth][0] = Climb(leaf)[TreeDepth]
  BY <1>6, WeightDef, ShadowTreeAssumption
<1> QED BY <1>7 DEF RootOf, MerkleRoot, rows, bottom, leaf

LEMMA TreeCommits == TreeInv => RootIsOfOneTree
<1> SUFFICES ASSUME TreeInv, state.root # ZeroRoot
             PROVE  \E I \in SUBSET Begun : state.root = RootOf(I)
  BY DEF RootIsOfOneTree
<1>1. PICK i \in Requests :
        insertion[i].pc # "idle" /\ state.root = Climb(insertion[i].leaf)[TreeDepth]
  BY DEF TreeInv, RootInv
<1>2. {i} \in SUBSET Begun
  BY <1>1 DEF Begun
<1>3. state.root = RootOf({i})
  BY <1>1, RootOfOne DEF TreeInv
<1> QED BY <1>2, <1>3

(* Every node served as a sibling of index 0 is empty.                     *)
LEMMA TreeProves == TreeInv => ServedPathProves
<1> SUFFICES ASSUME TreeInv, ~disturbed, \A i \in Requests : ~Running(i),
                    NEW key \in DOMAIN node, key[1] = 0
             PROVE  PathRoot(node[key], key[2], GetShadowTreeSiblings(key[2]))
                      = state.root
  BY DEF ServedPathProves
<1>1. key = <<0, 0>>
  BY DEF TreeInv, StoreInv
<1>2. ASSUME NEW level \in 0 .. TreeDepth - 1
      PROVE  Stored(level, SiblingPos(0, level)) = zeros[level]
  BY SiblingEmpty, ShadowTreeAssumption DEF TreeInv
<1>3. GetShadowTreeSiblings(0) = Empty
  BY <1>2 DEF GetShadowTreeSiblings, Empty
<1>4. state.root = Climb(node[<<0, 0>>])[TreeDepth]
  BY <1>1 DEF TreeInv, SerialInv, Climbing, Running
<1> QED BY <1>1, <1>3, <1>4 DEF PathRoot, Climb

(* The types of the shadow tree (service.go, insertIntoShadowTree).        *)
THEOREM TreeTypeCorrect == TreeSpec => []TreeTypeOK
BY TreeInvariance, TreeTyped, PTL

(* Whatever insertions overlap and wherever one stops, the stored root is  *)
(* the start-up value or that of one tree of inserted leaves, at any depth *)
(* (service.go, insertIntoShadowTree).                                     *)
THEOREM RootIsOfOneTreeHolds == TreeSpec => []RootIsOfOneTree
BY TreeInvariance, TreeCommits, PTL

(* Insertions that neither meet nor fail leave a stored leaf whose served  *)
(* path adds up to the stored root (service.go, GetShadowTreeSiblings).    *)
THEOREM ServedPathProvesHolds == TreeSpec => []ServedPathProves
BY TreeInvariance, TreeProves, PTL

------------------------------------------------------------------------------
(* What is typed here of the state: the requests and the node's pool. *)
RequestsOK ==
  /\ request \in [Requests -> Request]
  /\ pool \in Seq(Requests) /\ mined \in Seq(Requests)

(* A request knows of its transaction what its place in the handler says. *)
Phase(q) ==
  /\ q.pc \in {"idle", "checked", "priced"} => ~q.sent /\ ~q.lost
  /\ q.pc \in {"sent", "inserting"} => q.sent /\ ~q.lost
  /\ q.pc = "done" => (q.answer = "created" <=> q.sent /\ ~q.lost)

PhaseInv == \A r \in Requests : Phase(request[r])

IInv == RequestsOK /\ PhaseInv

LEMMA InitInv == Init => IInv
<1> SUFFICES ASSUME Init PROVE IInv
  OBVIOUS
<1>1. PICK leaf \in [Requests -> Leaves] :
        request = [r \in Requests |->
          [pc |-> "idle", leaf |-> leaf[r], nonce |-> 0,
           sent |-> FALSE, lost |-> FALSE, dbDown |-> FALSE, answer |-> "none"]]
  BY DEF Init
<1>2. pool \in Seq(Requests) /\ mined \in Seq(Requests)
  BY DEF Init
<1>3. RequestsOK
  BY <1>1, <1>2 DEF RequestsOK, Request
<1>4. PhaseInv
  BY <1>1 DEF PhaseInv, Phase
<1> QED BY <1>3, <1>4 DEF IInv

(* A step that replaces one request by one in a right phase. *)
LEMMA OneRequest ==
  ASSUME IInv, NEW r \in Requests, NEW q \in Request, Phase(q),
         request' = [request EXCEPT ![r] = q],
         pool' \in Seq(Requests), UNCHANGED mined
  PROVE  IInv'
<1>1. RequestsOK'
  BY DEF IInv, RequestsOK
<1>2. PhaseInv'
  BY DEF IInv, RequestsOK, PhaseInv
<1> QED BY <1>1, <1>2 DEF IInv

LEMMA IssueStepInv == ASSUME IInv, NEW r \in Requests, IssueStep(r) PROVE IInv'
<1> DEFINE q == request[r]
<1>1. q \in Request /\ Phase(q) /\ pool \in Seq(Requests) /\ mined \in Seq(Requests)
  BY DEF IInv, RequestsOK, PhaseInv
<1>2. ASSUME Answer(r, "failed"), q.pc \in {"idle", "checked", "priced"},
             UNCHANGED <<pool, mined>>
      PROVE  IInv'
  <2>1. [q EXCEPT !.pc = "done", !.answer = "failed"] \in Request
    BY <1>1 DEF Request
  <2>2. Phase([q EXCEPT !.pc = "done", !.answer = "failed"])
    BY <1>1, <1>2 DEF Phase, Request
  <2>3. request' = [request EXCEPT ![r] = [q EXCEPT !.pc = "done", !.answer = "failed"]]
    BY <1>2 DEF Answer, IInv, RequestsOK
  <2> QED BY <1>1, <1>2, <2>1, <2>2, <2>3, OneRequest
<1>3. CASE CheckIssued(r)
  <2>1. CASE Answer(r, "failed")
    BY <1>2, <1>3, <2>1 DEF CheckIssued
  <2>2. CASE request' = [request EXCEPT ![r].pc = "checked"]
    <3>1. [q EXCEPT !.pc = "checked"] \in Request
      BY <1>1 DEF Request
    <3>2. Phase([q EXCEPT !.pc = "checked"])
      BY <1>1, <1>3 DEF Phase, Request, CheckIssued
    <3> QED BY <1>1, <1>3, <2>2, <3>1, <3>2, OneRequest DEF CheckIssued
  <2> QED BY <1>3, <2>1, <2>2 DEF CheckIssued
<1>4. CASE PendingNonce(r)
  <2> DEFINE n == Len(mined) + Len(pool)
  <2> DEFINE p == [q EXCEPT !.pc = "priced", !.nonce = n]
  <2>1. p \in Request
    <3>1. n \in Nat
      BY <1>1
    <3> HIDE DEF n
    <3> QED BY <1>1, <3>1 DEF Request
  <2>2. Phase(p)
    BY <1>1, <1>4 DEF Phase, Request, PendingNonce
  <2>3. request' = [request EXCEPT ![r] = p]
    BY <1>4 DEF PendingNonce, IInv, RequestsOK
  <2> QED BY <1>1, <1>4, <2>1, <2>2, <2>3, OneRequest DEF PendingNonce
<1>5. CASE Send(r)
  <2>1. pool' \in Seq(Requests)
    <3>1. CASE pool' = Append(pool, r)
      BY <1>1, <3>1
    <3>2. ASSUME NEW place \in DOMAIN pool, pool' = [pool EXCEPT ![place] = r]
          PROVE  pool' \in Seq(Requests)
      BY <1>1, <3>2
    <3> QED BY <1>5, <3>1, <3>2 DEF Send, Accept
  <2>2. CASE request' = [request EXCEPT ![r].pc = "sent", ![r].sent = TRUE]
    <3> DEFINE p == [q EXCEPT !.pc = "sent", !.sent = TRUE]
    <3>1. p \in Request
      BY <1>1 DEF Request
    <3>2. Phase(p)
      BY <1>1, <1>5 DEF Phase, Request, Send
    <3>3. request' = [request EXCEPT ![r] = p]
      BY <2>2 DEF IInv, RequestsOK
    <3> QED BY <1>5, <2>1, <3>1, <3>2, <3>3, OneRequest DEF Send
  <2>3. CASE request' = [request EXCEPT ![r].pc = "done", ![r].answer = "failed",
                                        ![r].sent = TRUE, ![r].lost = TRUE]
    <3> DEFINE p == [q EXCEPT !.pc = "done", !.answer = "failed", !.sent = TRUE, !.lost = TRUE]
    <3>1. p \in Request
      BY <1>1 DEF Request
    <3>2. Phase(p)
      BY <1>1 DEF Phase, Request
    <3>3. request' = [request EXCEPT ![r] = p]
      BY <2>3 DEF IInv, RequestsOK
    <3> QED BY <1>5, <2>1, <3>1, <3>2, <3>3, OneRequest DEF Send
  <2> QED BY <1>5, <2>2, <2>3 DEF Send
<1>6. CASE ChainError(r)
  BY <1>2, <1>6 DEF ChainError
<1>7. CASE StoreLeaf(r)
  <2>1. PICK dbDown \in BOOLEAN :
          request' = [request EXCEPT ![r].pc = "inserting", ![r].dbDown = dbDown]
    BY <1>7 DEF StoreLeaf
  <2> DEFINE p == [q EXCEPT !.pc = "inserting", !.dbDown = dbDown]
  <2>2. p \in Request
    BY <1>1 DEF Request
  <2>3. Phase(p)
    BY <1>1, <1>7 DEF Phase, Request, StoreLeaf
  <2>4. request' = [request EXCEPT ![r] = p]
    BY <2>1 DEF IInv, RequestsOK
  <2> QED BY <1>1, <1>7, <2>2, <2>3, <2>4, OneRequest DEF StoreLeaf
<1>8. CASE InsertLeaf(r)
  BY <1>8 DEF InsertLeaf, IInv, RequestsOK, PhaseInv
<1>9. CASE Reply(r)
  <2> DEFINE p == [q EXCEPT !.pc = "done", !.answer = "created"]
  <2>1. p \in Request
    BY <1>1 DEF Request
  <2>2. Phase(p)
    BY <1>1, <1>9 DEF Phase, Request, Reply
  <2>3. request' = [request EXCEPT ![r] = p]
    BY <1>9 DEF Reply, Answer, IInv, RequestsOK
  <2> QED BY <1>1, <1>9, <2>1, <2>2, <2>3, OneRequest DEF Reply
<1> QED BY <1>3, <1>4, <1>5, <1>6, <1>7, <1>8, <1>9 DEF IssueStep

(* A block takes the head of the pool; requests do not see it. *)
LEMMA MineInv == ASSUME IInv, Mine PROVE IInv'
<1>1. pool \in Seq(Requests) /\ mined \in Seq(Requests) /\ pool # <<>>
  BY DEF IInv, RequestsOK, Mine
<1>2. Tail(pool) \in Seq(Requests) /\ Append(mined, Head(pool)) \in Seq(Requests)
  BY <1>1
<1> QED BY <1>2 DEF Mine, IInv, RequestsOK, PhaseInv

(* A request that is cut off is never answered. *)
LEMMA RestartInv == ASSUME IInv, Restart PROVE IInv'
<1>1. \A r \in Requests : request'[r] = IF request[r].pc \in {"idle", "done"} THEN request[r]
                                       ELSE [request[r] EXCEPT !.pc = "dead"]
  BY DEF Restart
<1>2. \A r \in Requests : request[r] \in Request /\ Phase(request[r])
  BY DEF IInv, RequestsOK, PhaseInv
<1>3. \A r \in Requests : request'[r] \in Request
  BY <1>1, <1>2 DEF Request
<1>4. ASSUME NEW r \in Requests PROVE Phase(request'[r])
  <2>1. CASE request[r].pc \in {"idle", "done"}
    BY <1>1, <1>2, <2>1
  <2>2. CASE request[r].pc \notin {"idle", "done"}
    <3>1. Phase([request[r] EXCEPT !.pc = "dead"])
      BY <1>2 DEF Phase, Request
    <3> QED BY <1>1, <2>2, <3>1
  <2> QED BY <2>1, <2>2
<1>5. RequestsOK'
  BY <1>3 DEF Restart, IInv, RequestsOK
<1> QED BY <1>4, <1>5 DEF IInv, PhaseInv

LEMMA NextInv == IInv /\ [Next]_vars => IInv'
<1> SUFFICES ASSUME IInv, [Next]_vars PROVE IInv'
  OBVIOUS
<1>1. ASSUME NEW r \in Requests, IssueStep(r) PROVE IInv'
  BY <1>1, IssueStepInv
<1>2. CASE Mine
  BY <1>2, MineInv
<1>3. CASE Restart
  BY <1>3, RestartInv
<1>4. CASE UNCHANGED vars
  BY <1>4 DEF vars, IInv, RequestsOK, PhaseInv
<1> QED BY <1>1, <1>2, <1>3, <1>4 DEF Next

LEMMA Invariance == Spec => []IInv
<1> QED BY InitInv, NextInv, PTL DEF Spec

(* Once the node has taken a transaction and said so, no failure of the    *)
(* database, the tree or another request makes the answer a failure; and   *)
(* no request is answered "created" otherwise.                             *)
THEOREM SentIsCreatedHolds == Spec => []SentIsCreated
<1>1. IInv => SentIsCreated
  BY DEF IInv, PhaseInv, Phase, SentIsCreated
<1> QED BY <1>1, Invariance, PTL

------------------------------------------------------------------------------
(* The chain.  The k-th transaction the node knows of used nonce k - 1, and*)
(* no transaction it took lies beyond the last.                            *)
ChainInv ==
  /\ \A k \in 1 .. Len(Chain) : request[Chain[k]].sent /\ request[Chain[k]].nonce = k - 1
  /\ \A r \in Requests : request[r].sent => request[r].nonce + 1 \in 1 .. Len(Chain)
  /\ \A r \in Requests : request[r].answer = "created" => request[r].sent

(* What taking a transaction does to the chain.                            *)
LEMMA AcceptExtends ==
  ASSUME IInv, NEW r \in Requests, Accept(r), UNCHANGED mined
  PROVE  /\ Len(Chain') \in {Len(Chain), Len(Chain) + 1}
         /\ request[r].nonce + 1 \in 1 .. Len(Chain')
         /\ \A k \in 1 .. Len(Chain') :
              Chain'[k] = IF k = request[r].nonce + 1 THEN r ELSE Chain[k]
         /\ Len(Chain') = Len(Chain) + 1 => request[r].nonce = Len(Chain)
<1> DEFINE n == request[r].nonce
<1>1. pool \in Seq(Requests) /\ mined \in Seq(Requests) /\ n \in Nat
  BY DEF IInv, RequestsOK, Request
<1>2. CASE n - Len(mined) + 1 = Len(pool) + 1 /\ pool' = Append(pool, r)
  <2>1. Len(Chain) = Len(mined) + Len(pool) /\ Len(Chain') = Len(Chain) + 1
    BY <1>1, <1>2 DEF Chain
  <2>2. n = Len(Chain)
    BY <1>1, <1>2, <2>1
  <2>3. ASSUME NEW k \in 1 .. Len(Chain')
        PROVE  Chain'[k] = IF k = n + 1 THEN r ELSE Chain[k]
    BY <1>1, <1>2, <2>1, <2>2, <2>3 DEF Chain
  <2> QED BY <1>1, <2>1, <2>2, <2>3
<1>3. CASE n - Len(mined) + 1 \in DOMAIN pool /\ pool' = [pool EXCEPT ![n - Len(mined) + 1] = r]
  <2>1. pool' \in Seq(Requests) /\ Len(pool') = Len(pool)
    BY <1>1, <1>3
  <2>2. Len(Chain) = Len(mined) + Len(pool) /\ Len(Chain') = Len(Chain)
    BY <1>1, <2>1 DEF Chain
  <2>3. n + 1 \in 1 .. Len(Chain)
    BY <1>1, <1>3, <2>2
  <2>4. ASSUME NEW k \in 1 .. Len(Chain')
        PROVE  Chain'[k] = IF k = n + 1 THEN r ELSE Chain[k]
    BY <1>1, <1>3, <2>1, <2>2, <2>3, <2>4 DEF Chain
  <2> QED BY <1>1, <2>2, <2>3, <2>4
<1> QED BY <1>2, <1>3 DEF Accept

(* Including the next transaction moves none of them.                      *)
LEMMA MineKeepsChain == ASSUME IInv, Mine PROVE Chain' = Chain
<1>1. pool \in Seq(Requests) /\ mined \in Seq(Requests) /\ pool # <<>>
  BY DEF IInv, RequestsOK, Mine
<1>2. pool' = Tail(pool) /\ mined' = Append(mined, Head(pool))
  BY DEF Mine
<1> QED BY <1>1, <1>2 DEF Chain

(* A step after which the chain is as it was, and no request in it differs.*)
LEMMA SameChain ==
  ASSUME IInv, ChainInv, Chain' = Chain,
         \A r \in Requests : /\ request'[r].sent = request[r].sent
                             /\ request[r].sent => request'[r].nonce = request[r].nonce
                             /\ request'[r].answer = "created" => request[r].sent
  PROVE  ChainInv'
<1>1. Chain \in Seq(Requests)
  BY DEF IInv, RequestsOK, Chain
<1>2. \A k \in 1 .. Len(Chain) : Chain[k] \in Requests
  BY <1>1
<1> HIDE DEF Chain
<1> QED BY <1>2 DEF ChainInv

LEMMA ChainNext == IInv /\ ChainInv /\ [Next]_vars => ChainInv'
<1> SUFFICES ASSUME IInv, ChainInv, [Next]_vars PROVE ChainInv'
  OBVIOUS
<1>1. request \in [Requests -> Request] /\ \A r \in Requests : Phase(request[r])
  BY DEF IInv, RequestsOK, PhaseInv
<1>2. ASSUME NEW r \in Requests, IssueStep(r), ~Send(r) PROVE ChainInv'
  <2>1. Chain' = Chain
    BY <1>2 DEF IssueStep, CheckIssued, PendingNonce, StoreLeaf, ChainError, InsertLeaf, Reply,
                Chain
  <2>2. \A x \in Requests \ {r} : request'[x] = request[x]
    BY <1>1, <1>2 DEF IssueStep, CheckIssued, PendingNonce, StoreLeaf, ChainError, InsertLeaf,
                      Reply, Answer
  <2>3. /\ request'[r].sent = request[r].sent
        /\ request[r].sent => request'[r].nonce = request[r].nonce
        /\ request'[r].answer = "created" => request[r].sent
    <3>1. CASE CheckIssued(r) \/ ChainError(r)
      BY <1>1, <3>1 DEF CheckIssued, ChainError, Answer, Request, ChainInv
    <3>2. CASE PendingNonce(r)
      BY <1>1, <3>2 DEF PendingNonce, Request, Phase, ChainInv
    <3>3. CASE StoreLeaf(r)
      BY <1>1, <3>3 DEF StoreLeaf, Request, ChainInv
    <3>4. CASE InsertLeaf(r)
      BY <3>4 DEF InsertLeaf, ChainInv
    <3>5. CASE Reply(r)
      BY <1>1, <3>5 DEF Reply, Answer, Request, Phase
    <3> QED BY <1>2, <3>1, <3>2, <3>3, <3>4, <3>5 DEF IssueStep
  <2>4. \A x \in Requests : request[x].answer = "created" => request[x].sent
    BY DEF ChainInv
  <2> QED BY <2>1, <2>2, <2>3, <2>4, SameChain
<1>3. ASSUME NEW r \in Requests, Send(r) PROVE ChainInv'
  <2>1. /\ Len(Chain') \in {Len(Chain), Len(Chain) + 1}
        /\ request[r].nonce + 1 \in 1 .. Len(Chain')
        /\ \A k \in 1 .. Len(Chain') :
             Chain'[k] = IF k = request[r].nonce + 1 THEN r ELSE Chain[k]
        /\ Len(Chain') = Len(Chain) + 1 => request[r].nonce = Len(Chain)
    BY <1>3, AcceptExtends DEF Send
  <2>2. /\ request'[r].sent /\ request'[r].nonce = request[r].nonce
        /\ request'[r].answer # "created"
    <3>1. request[r].answer # "created"
      BY <1>1, <1>3 DEF ChainInv, Send, Phase
    <3> QED BY <1>1, <1>3, <3>1 DEF Send, Request
  <2>3. \A x \in Requests \ {r} : request'[x] = request[x]
    BY <1>1, <1>3 DEF Send
  <2>4. Chain \in Seq(Requests) /\ Len(Chain) \in Nat
        /\ \A k \in 1 .. Len(Chain) : Chain[k] \in Requests
    BY DEF IInv, RequestsOK, Chain
  <2>5. request[r].nonce \in Nat /\ ~request[r].sent
    BY <1>1, <1>3 DEF Request, Send, Phase
  <2> HIDE DEF Chain
  <2>6. ASSUME NEW k \in 1 .. Len(Chain')
        PROVE  request'[Chain'[k]].sent /\ request'[Chain'[k]].nonce = k - 1
    <3>1. CASE k = request[r].nonce + 1
      BY <2>1, <2>2, <2>5, <3>1
    <3>2. CASE k # request[r].nonce + 1
      <4>1. k \in 1 .. Len(Chain) /\ Chain'[k] = Chain[k]
        BY <2>1, <2>4, <3>2
      <4>2. Chain[k] \in Requests \ {r}
        BY <2>4, <2>5, <4>1 DEF ChainInv
      <4> QED BY <2>3, <4>1, <4>2 DEF ChainInv
    <3> QED BY <3>1, <3>2
  <2>7. ASSUME NEW x \in Requests, request'[x].sent
        PROVE  request'[x].nonce + 1 \in 1 .. Len(Chain')
    <3>1. CASE x = r
      BY <2>1, <2>2, <3>1
    <3>2. CASE x # r
      <4>1. request[x].nonce + 1 \in 1 .. Len(Chain) /\ request'[x] = request[x]
        BY <2>3, <2>7, <3>2 DEF ChainInv
      <4>2. request[x].nonce \in Nat
        BY <1>1 DEF Request
      <4> QED BY <2>1, <2>4, <4>1, <4>2
    <3> QED BY <3>1, <3>2
  <2>8. \A x \in Requests : request'[x].answer = "created" => request'[x].sent
    BY <2>2, <2>3 DEF ChainInv
  <2> QED BY <2>6, <2>7, <2>8 DEF ChainInv
<1>4. CASE Mine
  <2>1. Chain' = Chain
    BY <1>4, MineKeepsChain
  <2> QED BY <1>4, <2>1, SameChain DEF Mine, ChainInv
<1>5. CASE Restart
  <2>1. \A r \in Requests : request'[r] = IF request[r].pc \in {"idle", "done"} THEN request[r]
                                          ELSE [request[r] EXCEPT !.pc = "dead"]
    BY <1>5 DEF Restart
  <2>2. Chain' = Chain
    BY <1>5 DEF Restart, Chain
  <2>3. ASSUME NEW r \in Requests
        PROVE  /\ request'[r].sent = request[r].sent
               /\ request'[r].nonce = request[r].nonce
               /\ request'[r].answer = request[r].answer
    BY <1>1, <2>1 DEF Request
  <2> QED BY <2>2, <2>3, SameChain DEF ChainInv
<1>6. CASE UNCHANGED vars
  <2>1. Chain' = Chain
    BY <1>6 DEF vars, Chain
  <2> QED BY <1>6, <2>1, SameChain DEF vars, ChainInv
<1> QED BY <1>2, <1>3, <1>4, <1>5, <1>6 DEF Next

LEMMA ChainInit == Init => ChainInv
<1> SUFFICES ASSUME Init PROVE ChainInv
  OBVIOUS
<1>1. PICK leaf \in [Requests -> Leaves] :
        request = [r \in Requests |->
          [pc |-> "idle", leaf |-> leaf[r], nonce |-> 0,
           sent |-> FALSE, lost |-> FALSE, dbDown |-> FALSE, answer |-> "none"]]
  BY DEF Init
<1>2. Len(Chain) = 0
  BY DEF Init, Chain
<1> QED BY <1>1, <1>2 DEF ChainInv

(* The nonce of a licence answered as created is used, by its transaction  *)
(* or by one that took its place.                                          *)
THEOREM CreatedOrReplacedHolds == Spec => []CreatedOrReplaced
<1>1. Spec => [](IInv /\ ChainInv)
  BY Invariance, ChainInit, ChainNext, PTL DEF Spec
<1>2. IInv /\ ChainInv => CreatedOrReplaced
  <2> SUFFICES ASSUME IInv, ChainInv, NEW r \in Requests, request[r].answer = "created"
               PROVE  \E k \in DOMAIN Chain : /\ request[Chain[k]].sent
                                              /\ request[Chain[k]].nonce = request[r].nonce
    BY DEF CreatedOrReplaced
  <2>1. Chain \in Seq(Requests) /\ request[r].nonce \in Nat
    BY DEF IInv, RequestsOK, Request, Chain
  <2>2. DOMAIN Chain = 1 .. Len(Chain)
    BY <2>1
  <2>3. request[r].nonce + 1 \in DOMAIN Chain
    BY <2>2 DEF ChainInv
  <2>4. /\ request[Chain[request[r].nonce + 1]].sent
        /\ request[Chain[request[r].nonce + 1]].nonce = request[r].nonce
    BY <2>1, <2>2, <2>3 DEF ChainInv
  <2> QED BY <2>3, <2>4
<1> QED BY <1>1, <1>2, PTL

------------------------------------------------------------------------------
(* Issuance drives the shadow tree as ShadowTree says it may be driven.    *)
LEMMA TreeNextOfNext == IInv /\ [Next]_vars => [TreeNext]_treeVars
<1> SUFFICES ASSUME IInv, [Next]_vars PROVE [TreeNext]_treeVars
  OBVIOUS
<1>1. ASSUME UNCHANGED treeVars PROVE UNCHANGED treeVars
  BY <1>1 DEF treeVars, treeVars
<1>2. ASSUME NEW r \in Requests, IssueStep(r) PROVE [TreeNext]_treeVars
  <2>1. CASE StoreLeaf(r)
    <3>1. request[r].leaf \in Leaves
      BY DEF IInv, RequestsOK, Request
    <3> QED BY <2>1, <3>1 DEF StoreLeaf, TreeNext
  <2>2. CASE InsertLeaf(r)
    BY <2>2 DEF InsertLeaf, TreeNext
  <2>3. CASE CheckIssued(r) \/ PendingNonce(r) \/ Send(r) \/ ChainError(r) \/ Reply(r)
    BY <1>1, <2>3 DEF CheckIssued, PendingNonce, Send, ChainError, Reply
  <2> QED BY <1>2, <2>1, <2>2, <2>3 DEF IssueStep
<1>3. CASE Mine
  BY <1>1, <1>3 DEF Mine
<1>4. CASE Restart
  BY <1>1, <1>4 DEF Restart, TreeNext
<1>5. CASE UNCHANGED vars
  BY <1>1, <1>5 DEF vars
<1> QED BY <1>2, <1>3, <1>4, <1>5 DEF Next

(* Every behaviour of issuance is, seen at the tree, one of ShadowTree     *)
(* (service.go, IssueLicense calling insertIntoShadowTree).                *)
THEOREM ImplementsShadowTree == Spec => TreeSpec
<1>1. Init => TreeInit
  BY DEF Init
<1> QED BY <1>1, Invariance, TreeNextOfNext, PTL DEF Spec, TreeSpec

(* An insertion is that of a request whose transaction the node took and   *)
(* acknowledged, and it brings that request's leaf.                        *)
LinkInv ==
  \A r \in Requests :
    /\ request[r].pc \in {"idle", "checked", "priced", "sent"} => insertion[r].pc = "idle"
    /\ insertion[r].pc # "idle" =>
         /\ request[r].sent /\ ~request[r].lost
         /\ insertion[r].leaf = request[r].leaf

LEMMA LinkInit == Init => LinkInv
<1> SUFFICES ASSUME Init, NEW r \in Requests PROVE insertion[r].pc = "idle"
  BY DEF LinkInv
<1> QED BY DEF Init, TreeInit

(* A step that does not touch the tree and keeps what is linked.           *)
LEMMA LinkKept ==
  ASSUME LinkInv, UNCHANGED insertion,
         \A r \in Requests :
           /\ request'[r].pc \in {"idle", "checked", "priced", "sent"}
                => request[r].pc \in {"idle", "checked", "priced", "sent"}
           /\ request[r].sent /\ ~request[r].lost
                => request'[r].sent /\ ~request'[r].lost
           /\ request'[r].leaf = request[r].leaf
  PROVE  LinkInv'
BY DEF LinkInv

(* What a step does to a request, whatever it does.                        *)
LEMMA RequestGoesOn ==
  ASSUME IInv, Next, NEW r \in Requests
  PROVE  /\ request'[r].pc \in {"idle", "checked", "priced", "sent"}
              => request[r].pc \in {"idle", "checked", "priced", "sent"}
         /\ request[r].sent /\ ~request[r].lost
              => request'[r].sent /\ ~request'[r].lost
         /\ request'[r].leaf = request[r].leaf
<1>1. request \in [Requests -> Request]
  BY DEF IInv, RequestsOK
<1>2. ASSUME NEW x \in Requests, IssueStep(x)
      PROVE  /\ request'[r].pc \in {"idle", "checked", "priced", "sent"}
                  => request[r].pc \in {"idle", "checked", "priced", "sent"}
             /\ request[r].sent /\ ~request[r].lost
                  => request'[r].sent /\ ~request'[r].lost
             /\ request'[r].leaf = request[r].leaf
  <2>1. CASE CheckIssued(x) \/ ChainError(x)
    BY <1>1, <2>1 DEF CheckIssued, ChainError, Answer, Request
  <2>2. CASE PendingNonce(x)
    BY <1>1, <2>2 DEF PendingNonce, Request
  <2>3. CASE Send(x)
    <3>1. ~request[x].sent
      BY <2>3 DEF IInv, PhaseInv, Phase, Send
    <3> QED BY <1>1, <2>3, <3>1 DEF Send, Request
  <2>4. CASE StoreLeaf(x)
    BY <1>1, <2>4 DEF StoreLeaf, Request
  <2>5. CASE InsertLeaf(x)
    BY <2>5 DEF InsertLeaf
  <2>6. CASE Reply(x)
    BY <1>1, <2>6 DEF Reply, Answer, Request
  <2> QED BY <1>2, <2>1, <2>2, <2>3, <2>4, <2>5, <2>6 DEF IssueStep
<1>3. CASE Mine
  BY <1>3 DEF Mine
<1>4. CASE Restart
  <2>1. request'[r] = IF request[r].pc \in {"idle", "done"} THEN request[r]
                      ELSE [request[r] EXCEPT !.pc = "dead"]
    BY <1>4 DEF Restart
  <2> QED BY <1>1, <2>1 DEF Request
<1> QED BY <1>2, <1>3, <1>4 DEF Next

LEMMA LinkNext == IInv /\ TreeInv /\ LinkInv /\ [Next]_vars => LinkInv'
<1> SUFFICES ASSUME IInv, TreeInv, LinkInv, [Next]_vars PROVE LinkInv'
  OBVIOUS
<1>1. insertion \in [Requests -> Call] /\ request \in [Requests -> Request]
  BY DEF TreeInv, CallsInv, IInv, RequestsOK
<1>2. ASSUME Next, UNCHANGED insertion PROVE LinkInv'
  BY <1>2, LinkKept, RequestGoesOn
<1>3. ASSUME NEW r \in Requests, StoreLeaf(r) PROVE LinkInv'
  <2>1. insertion' = [insertion EXCEPT ![r].pc = "start", ![r].leaf = request[r].leaf]
    BY <1>3 DEF StoreLeaf, BeginInsertion
  <2>2. insertion'[r].leaf = request[r].leaf
    BY <1>1, <2>1 DEF Call
  <2>3. \A x \in Requests \ {r} : insertion'[x] = insertion[x] /\ request'[x] = request[x]
    BY <1>1, <1>3, <2>1 DEF StoreLeaf
  <2>4. /\ request'[r].pc = "inserting" /\ request'[r].leaf = request[r].leaf
        /\ request'[r].sent /\ ~request'[r].lost
    <3>1. Phase(request[r]) /\ request[r].pc = "sent"
      BY <1>3 DEF IInv, PhaseInv, StoreLeaf
    <3> QED BY <1>1, <1>3, <3>1 DEF StoreLeaf, Request, Phase
  <2> QED BY <2>2, <2>3, <2>4 DEF LinkInv
<1>4. ASSUME NEW r \in Requests, InsertLeaf(r) PROVE LinkInv'
  <2>1. /\ request[r].pc = "inserting" /\ UNCHANGED request
        /\ InsertionStep(r)
    BY <1>4 DEF InsertLeaf
  <2>2. insertion[r].pc # "idle"
    BY <2>1
    DEF InsertionStep, ReadState, WriteLeaf, PutLeaf, ReadSibling,
        WriteParent, PutParent, WriteState, PutState, FailInsertion
  <2>3. \A x \in Requests \ {r} : insertion'[x] = insertion[x]
    BY <1>1, <2>1
    DEF InsertionStep, ReadState, WriteLeaf, ReadSibling,
        WriteParent, WriteState, FailInsertion, Goto
  <2>4. insertion'[r].leaf = insertion[r].leaf
    <3>1. CASE ReadState(r)
      BY <1>1, <3>1 DEF ReadState, Call
    <3>2. CASE WriteLeaf(r)
      BY <1>1, <3>2 DEF WriteLeaf, Call
    <3>3. CASE ReadSibling(r)
      BY <1>1, <3>3 DEF ReadSibling, Call
    <3>4. CASE WriteParent(r)
      BY <1>1, <3>4 DEF WriteParent, Call
    <3>5. CASE WriteState(r) \/ FailInsertion(r)
      BY <1>1, <3>5 DEF WriteState, FailInsertion, Goto, Call
    <3> QED BY <2>1, <3>1, <3>2, <3>3, <3>4, <3>5 DEF InsertionStep
  <2> QED BY <2>1, <2>2, <2>3, <2>4 DEF LinkInv
<1>5. ASSUME NEW r \in Requests, IssueStep(r), ~StoreLeaf(r), ~InsertLeaf(r)
      PROVE  LinkInv'
  <2>1. UNCHANGED insertion
    BY <1>5 DEF IssueStep, CheckIssued, PendingNonce, Send, ChainError, Reply, treeVars
  <2> QED BY <1>2, <1>5, <2>1 DEF Next
<1>6. CASE Mine
  BY <1>2, <1>6 DEF Next, Mine, treeVars
<1>7. CASE Restart
  <2>1. CASE UNCHANGED insertion
    BY <1>2, <1>7, <2>1 DEF Next
  <2>2. CASE StopInsertions
    <3>1. ASSUME NEW r \in Requests
          PROVE  /\ insertion'[r].pc = "idle" <=> insertion[r].pc = "idle"
                 /\ insertion'[r].leaf = insertion[r].leaf
      BY <1>1, <2>2 DEF StopInsertions, Running, Call
    <3>2. \A r \in Requests :
            /\ request'[r].pc \in {"idle", "checked", "priced", "sent"}
                 => request[r].pc \in {"idle", "checked", "priced", "sent"}
            /\ request[r].sent /\ ~request[r].lost
                 => request'[r].sent /\ ~request'[r].lost
            /\ request'[r].leaf = request[r].leaf
      BY <1>7, RequestGoesOn DEF Next
    <3> QED BY <3>1, <3>2 DEF LinkInv
  <2> QED BY <1>7, <2>1, <2>2 DEF Restart, treeVars
<1>8. CASE UNCHANGED vars
  BY <1>8 DEF vars, treeVars, LinkInv
<1> QED BY <1>3, <1>4, <1>5, <1>6, <1>7, <1>8 DEF Next

LEMMA LinkInvariance == Spec => [](IInv /\ TreeInv /\ LinkInv)
<1>1. Spec => []TreeInv
  BY ImplementsShadowTree, TreeInvariance, PTL
<1> QED BY <1>1, Invariance, LinkInit, LinkNext, PTL DEF Spec

(* A stored document is that of a request whose transaction the node took  *)
(* and acknowledged.                                                       *)
DocumentInv ==
  /\ leaves \subseteq Document
  /\ \A d \in leaves : \E r \in Requests :
       /\ request[r].sent /\ ~request[r].lost
       /\ d = LeafDocument(request[r].leaf)

LEMMA DocumentInit == Init => DocumentInv
BY DEF Init, DocumentInv

LEMMA DocumentNext == IInv /\ DocumentInv /\ [Next]_vars => DocumentInv'
<1> SUFFICES ASSUME IInv, DocumentInv, [Next]_vars PROVE DocumentInv'
  OBVIOUS
<1>1. request \in [Requests -> Request]
  BY DEF IInv, RequestsOK
<1>2. ASSUME Next, NEW r \in Requests, request[r].sent, ~request[r].lost
      PROVE  /\ request'[r].sent /\ ~request'[r].lost
             /\ request'[r].leaf = request[r].leaf
  BY <1>2, RequestGoesOn
<1>3. ASSUME Next, UNCHANGED leaves PROVE DocumentInv'
  BY <1>2, <1>3 DEF DocumentInv
<1>4. ASSUME NEW r \in Requests, StoreLeaf(r) PROVE DocumentInv'
  <2> DEFINE doc == LeafDocument(request[r].leaf)
  <2>1. leaves' \subseteq leaves \cup {doc}
    BY <1>4 DEF StoreLeaf
  <2>2. doc \in Document
    BY <1>1 DEF LeafDocument, Document, Request
  <2>3. request[r].sent /\ ~request[r].lost
    BY <1>4 DEF IInv, PhaseInv, Phase, StoreLeaf
  <2>4. Next
    BY <1>4 DEF Next, IssueStep
  <2> HIDE DEF doc
  <2>5. \E x \in Requests : /\ request'[x].sent /\ ~request'[x].lost
                            /\ doc = LeafDocument(request'[x].leaf)
    BY <1>2, <2>3, <2>4 DEF doc
  <2>6. \A d \in leaves : \E x \in Requests :
          /\ request'[x].sent /\ ~request'[x].lost
          /\ d = LeafDocument(request'[x].leaf)
    BY <1>2, <2>4 DEF DocumentInv
  <2> QED BY <2>1, <2>2, <2>5, <2>6 DEF DocumentInv
<1>5. ASSUME Next, \A r \in Requests : ~StoreLeaf(r) PROVE UNCHANGED leaves
  BY <1>5 DEF Next, IssueStep, CheckIssued, PendingNonce, Send, ChainError, InsertLeaf,
              Reply, Mine, Restart
<1>6. CASE UNCHANGED vars
  BY <1>6 DEF vars, DocumentInv
<1> QED BY <1>3, <1>4, <1>5, <1>6

(* What is recorded of licences was sent: the documents, and the leaves    *)
(* the root of the shadow tree commits to, are of licences whose           *)
(* transaction the node took and acknowledged (service.go, IssueLicense).  *)
THEOREM RecordedWasSentHolds == Spec => []RecordedWasSent
<1>1. ASSUME TreeInv, LinkInv, DocumentInv PROVE RecordedWasSent
  <2>1. \A d \in leaves : \E r \in Acknowledged : d = LeafDocument(request[r].leaf)
    BY <1>1 DEF DocumentInv, Acknowledged
  <2>2. ASSUME state.root # ZeroRoot
        PROVE  \E I \in SUBSET Acknowledged : I \subseteq Begun /\ state.root = RootOf(I)
    <3>1. PICK i \in Requests :
            insertion[i].pc # "idle" /\ state.root = Climb(insertion[i].leaf)[TreeDepth]
      BY <1>1, <2>2 DEF TreeInv, RootInv
    <3>2. {i} \in SUBSET Acknowledged /\ {i} \subseteq Begun
      BY <1>1, <3>1 DEF LinkInv, Acknowledged, Begun
    <3>3. state.root = RootOf({i})
      BY <1>1, <3>1, RootOfOne DEF TreeInv
    <3> QED BY <3>2, <3>3
  <2> QED BY <2>1, <2>2 DEF RecordedWasSent
<1>2. Spec => []DocumentInv
  BY Invariance, DocumentInit, DocumentNext, PTL DEF Spec
<1> QED BY <1>1, <1>2, LinkInvariance, PTL

(* The contract issues the leaf of a request the chain includes.           *)
IssuedInv == issued \subseteq Leaves

LEMMA IssuedNext == IInv /\ IssuedInv /\ [Next]_vars => IssuedInv'
<1> SUFFICES ASSUME IInv, IssuedInv, [Next]_vars PROVE IssuedInv'
  OBVIOUS
<1> USE DEF IssuedInv
<1>1. CASE Mine
  <2>1. pool \in Seq(Requests) /\ pool # <<>>
    BY <1>1 DEF IInv, RequestsOK, Mine
  <2>2. Head(pool) \in Requests
    BY <2>1
  <2>3. request[Head(pool)].leaf \in Leaves
    BY <2>2 DEF IInv, RequestsOK, Request
  <2> QED BY <1>1, <2>3 DEF Mine
<1>2. CASE ~Mine
  BY <1>2 DEF Next, IssueStep, CheckIssued, PendingNonce, Send, ChainError, StoreLeaf,
              InsertLeaf, Reply, Restart, vars
<1> QED BY <1>1, <1>2

(* The types of issuance, its chain and its shadow tree.                   *)
THEOREM TypeCorrect == Spec => []TypeOK
<1>1. Init => IssuedInv
  BY DEF Init, IssuedInv
<1>2. Spec => []IssuedInv
  BY <1>1, Invariance, IssuedNext, PTL DEF Spec
<1>3. Spec => []DocumentInv
  BY Invariance, DocumentInit, DocumentNext, PTL DEF Spec
<1>4. IInv /\ TreeInv /\ DocumentInv /\ IssuedInv => TypeOK
  BY TreeTyped DEF IInv, RequestsOK, DocumentInv, IssuedInv, TypeOK
<1> QED BY <1>2, <1>3, <1>4, LinkInvariance, PTL

------------------------------------------------------------------------------
(* The event listener. *)

(* The cursor is the start, or the block of an event; events lie in blocks *)
(* of the chain.                                                           *)
CursorInv ==
  /\ \A e \in events : 1 <= e.block /\ e.block <= block
  /\ \/ cursor.last_block = 0
     \/ \E e \in events : e.block = cursor.last_block

(* While a batch is handled, every event up to its last block has been     *)
(* delivered or waits in the batch, and the cursor is not ahead of it.     *)
BatchInv ==
  listener.pc = "handling" =>
    /\ listener.batch \subseteq events
    /\ \E e \in events : e.block = listener.last
    /\ \A e \in events : e.block <= listener.last => e \in delivered \cup listener.batch
    /\ cursor.last_block <= listener.last

ListenerInv == ListenerTypeOK /\ CursorInv /\ BatchInv /\ CursorCovers

(* Missing stands for no value of the cursor, so a poll starts at block 1. *)
LEMMA AllLogs == ASSUME ListenerTypeOK, CursorInv PROVE Logs = events
<1>1. LastSyncedBlock = 0
  BY DEF ListenerTypeOK, LastSyncedBlock
<1>2. \A e \in events : e.block \in Nat /\ e.block >= 1
  BY DEF ListenerTypeOK, Event, CursorInv
<1> QED BY <1>1, <1>2 DEF Logs, FirstBlock

LEMMA ListenerInitInv == ListenerInit => ListenerInv
<1> SUFFICES ASSUME ListenerInit PROVE ListenerInv
  OBVIOUS
<1>1. ListenerTypeOK
  BY DEF ListenerInit, ListenerTypeOK, Listener
<1>2. CursorInv /\ BatchInv /\ CursorCovers
  BY DEF ListenerInit, CursorInv, BatchInv, CursorCovers
<1> QED BY <1>1, <1>2 DEF ListenerInv

(* A new block lies beyond the cursor and beyond any batch. *)
LEMMA NewBlockInv == ASSUME ListenerInv, NewBlock PROVE ListenerInv'
<1>1. PICK emitted \in SUBSET (Leaves \ {e.leaf : e \in events}) :
        /\ block' = block + 1
        /\ events' = events \cup {[block |-> block + 1, leaf |-> leaf] : leaf \in emitted}
        /\ UNCHANGED <<leaves, listener, cursor, delivered, handled>>
  BY DEF NewBlock
<1>2. \A e \in events' : e \in events \/ (e \in Event /\ e.block = block + 1)
  BY <1>1 DEF ListenerInv, ListenerTypeOK, Event
<1>3. ListenerTypeOK'
  BY <1>1, <1>2 DEF ListenerInv, ListenerTypeOK
<1>4. /\ block \in Nat
      /\ cursor.last_block \in Nat /\ listener.last \in Nat
      /\ \A e \in events : e.block \in Nat
  BY DEF ListenerInv, ListenerTypeOK, Event, Listener
<1>5. cursor.last_block <= block
  BY <1>4 DEF ListenerInv, CursorInv
<1>6. listener.pc = "handling" => listener.last <= block
  BY <1>4 DEF ListenerInv, BatchInv, CursorInv
<1>7. CursorInv'
  BY <1>1, <1>2, <1>4 DEF ListenerInv, CursorInv
<1>8. BatchInv'
  BY <1>1, <1>2, <1>4, <1>6 DEF ListenerInv, BatchInv
<1>9. CursorCovers'
  BY <1>1, <1>2, <1>4, <1>5 DEF ListenerInv, CursorCovers
<1> QED BY <1>3, <1>7, <1>8, <1>9 DEF ListenerInv

LEMMA DocumentStoredInv ==
  ASSUME ListenerInv, NEW leaf \in Leaves, Issue(leaf)
  PROVE  ListenerInv'
<1>1. ListenerTypeOK'
  BY DEF Issue, LeafDocument, ListenerInv, ListenerTypeOK,
         Document
<1>2. CursorInv' /\ BatchInv' /\ CursorCovers'
  BY DEF Issue, ListenerInv, CursorInv, BatchInv, CursorCovers
<1> QED BY <1>1, <1>2 DEF ListenerInv

(* The batch is every event there is, and its last block the highest. *)
LEMMA PollInv == ASSUME ListenerInv, Poll PROVE ListenerInv'
<1>1. PICK last \in {e.block : e \in events} :
        /\ \A e \in events : e.block <= last
        /\ listener' = [pc |-> "handling", batch |-> events, last |-> last]
        /\ UNCHANGED <<block, events, leaves, cursor, delivered, handled>>
  BY AllLogs DEF Poll, ListenerInv
<1>2. last \in Nat /\ cursor.last_block \in Nat
  BY DEF ListenerInv, ListenerTypeOK, Event
<1>3. ListenerTypeOK'
  BY <1>1, <1>2 DEF ListenerInv, ListenerTypeOK, Listener
<1>4. cursor.last_block <= last
  BY <1>1, <1>2 DEF ListenerInv, CursorInv, ListenerTypeOK, Event
<1>5. BatchInv'
  BY <1>1, <1>4 DEF BatchInv
<1>6. CursorInv' /\ CursorCovers'
  BY <1>1 DEF ListenerInv, CursorInv, CursorCovers
<1> QED BY <1>3, <1>5, <1>6 DEF ListenerInv

LEMMA ConfirmType ==
  ASSUME ListenerTypeOK, NEW e, Confirm(e)
  PROVE  leaves' \subseteq Document
BY DEF ListenerTypeOK, Confirm, Document

(* A delivered event leaves the batch; nothing else is at stake. *)
LEMMA HandleInv ==
  ASSUME ListenerInv, NEW e \in listener.batch,
         Handle(e) \/ HandleFails(e)
  PROVE  ListenerInv'
<1>1. Take(e)
  BY DEF Handle, HandleFails
<1>2. leaves' \subseteq Document
  BY ConfirmType DEF Handle, HandleFails, ListenerInv, ListenerTypeOK
<1>3. e \in Event
  BY DEF ListenerInv, ListenerTypeOK, Listener
<1>4. handled' \subseteq Event
  BY <1>3 DEF Handle, HandleFails, ListenerInv, ListenerTypeOK
<1>5. listener' \in Listener /\ delivered' \subseteq Event
  BY <1>1, <1>3 DEF Take, ListenerInv, ListenerTypeOK, Listener
<1>6. ListenerTypeOK'
  BY <1>1, <1>2, <1>4, <1>5 DEF Take, ListenerInv, ListenerTypeOK
<1>7. /\ listener'.pc = "handling" /\ listener.pc = "handling"
      /\ listener'.batch = listener.batch \ {e} /\ listener'.last = listener.last
  BY <1>1 DEF Take, ListenerInv, ListenerTypeOK, Listener
<1>8. CursorInv' /\ CursorCovers'
  BY <1>1 DEF Take, ListenerInv, CursorInv, CursorCovers
<1>9. BatchInv'
  BY <1>1, <1>7 DEF Take, ListenerInv, BatchInv
<1> QED BY <1>6, <1>8, <1>9 DEF ListenerInv

(* The batch is empty: every event up to its last block is delivered. *)
LEMMA SyncCursorInv ==
  ASSUME ListenerInv, SyncCursor
  PROVE  ListenerInv' /\ cursor'.last_block >= cursor.last_block
<1>1. /\ listener.pc = "handling" /\ listener.batch = {}
      /\ listener.last \in Nat /\ cursor.last_block \in Nat
  BY DEF SyncCursor, ListenerInv, ListenerTypeOK, Listener
<1>2. /\ listener' = [pc |-> "waiting", batch |-> {}, last |-> 0]
      /\ UNCHANGED <<block, events, leaves, delivered, handled>>
  BY DEF SyncCursor
<1>3. cursor' \in [lastblock : {Missing}, last_block : Nat]
  BY <1>1 DEF SyncCursor, ListenerInv, ListenerTypeOK
<1>4. ListenerTypeOK'
  BY <1>2, <1>3 DEF ListenerInv, ListenerTypeOK, Listener
<1>5. cursor'.last_block \in {listener.last, cursor.last_block}
  BY DEF SyncCursor, ListenerInv, ListenerTypeOK
<1>6. CursorInv'
  BY <1>1, <1>2, <1>5 DEF ListenerInv, CursorInv, BatchInv
<1>7. CursorCovers'
  BY <1>1, <1>2, <1>5 DEF ListenerInv, CursorCovers, BatchInv
<1>8. BatchInv'
  BY <1>2 DEF BatchInv
<1>9. cursor'.last_block >= cursor.last_block
  BY <1>1, <1>5 DEF ListenerInv, BatchInv
<1> QED BY <1>4, <1>6, <1>7, <1>8, <1>9 DEF ListenerInv

LEMMA ListenerRestartInv == ASSUME ListenerInv, ListenerRestart PROVE ListenerInv'
<1>1. ListenerTypeOK'
  BY DEF ListenerRestart, ListenerInv, ListenerTypeOK, Listener
<1>2. CursorInv' /\ BatchInv' /\ CursorCovers'
  BY DEF ListenerRestart, ListenerInv, CursorInv, BatchInv, CursorCovers
<1> QED BY <1>1, <1>2 DEF ListenerInv

LEMMA ListenerNextInv == ListenerInv /\ [ListenerNext]_listenerVars => ListenerInv'
<1> SUFFICES ASSUME ListenerInv, [ListenerNext]_listenerVars PROVE ListenerInv'
  OBVIOUS
<1>1. CASE NewBlock
  BY <1>1, NewBlockInv
<1>2. ASSUME NEW leaf \in Leaves, Issue(leaf) PROVE ListenerInv'
  BY <1>2, DocumentStoredInv
<1>3. CASE Poll
  BY <1>3, PollInv
<1>4. CASE HandleNext
  BY <1>4, HandleInv DEF HandleNext
<1>5. CASE SyncCursor
  BY <1>5, SyncCursorInv
<1>6. CASE ListenerRestart
  BY <1>6, ListenerRestartInv
<1>7. CASE UNCHANGED listenerVars
  BY <1>7 DEF listenerVars, ListenerInv, ListenerTypeOK, CursorInv, BatchInv,
              CursorCovers
<1> QED BY <1>1, <1>2, <1>3, <1>4, <1>5, <1>6, <1>7 DEF ListenerNext

LEMMA ListenerInvariance == ListenerSpec => []ListenerInv
<1> QED BY ListenerInitInv, ListenerNextInv, PTL DEF ListenerSpec

(* The state is well typed, whatever the chain's height.                   *)
THEOREM ListenerTypeCorrect == ListenerSpec => []ListenerTypeOK
<1>1. ListenerInv => ListenerTypeOK
  BY DEF ListenerInv
<1> QED BY <1>1, ListenerInvariance, PTL

(* Whatever is passed over and wherever the process stops, every event up  *)
(* to the stored cursor has been given to the handler.                     *)
THEOREM CursorCoversHolds == ListenerSpec => []CursorCovers
<1>1. ListenerInv => CursorCovers
  BY DEF ListenerInv
<1> QED BY <1>1, ListenerInvariance, PTL

(* The stored cursor never goes back.                                      *)
THEOREM CursorMonotoneHolds == ListenerSpec => CursorMonotone
<1> DEFINE Forward == cursor'.last_block >= cursor.last_block
<1>1. ASSUME ListenerInv, ListenerNext PROVE Forward
  <2>1. CASE SyncCursor
    BY <1>1, <2>1, SyncCursorInv
  <2>2. CASE ~SyncCursor
    <3>1. UNCHANGED cursor
      BY <1>1, <2>2
      DEF ListenerNext, NewBlock, Issue, Poll,
          HandleNext, Handle, HandleFails, Take,
          ListenerRestart
    <3> QED BY <1>1, <3>1 DEF ListenerInv, ListenerTypeOK
  <2> QED BY <2>1, <2>2
<1>2. ListenerInv /\ [ListenerNext]_listenerVars => [Forward]_listenerVars
  BY <1>1
<1> QED BY <1>2, ListenerInvariance, PTL DEF ListenerSpec, CursorMonotone
=============================================================================
