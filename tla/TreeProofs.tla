----------------------------- MODULE TreeProofs -----------------------------
(***************************************************************************)
(* Proofs about the hashes and the eligibility tree, for lists, trees and  *)
(* paths of any size: the bytes hashed are unambiguous, every leaf's path  *)
(* walks to the root and no other pair has one, and the loops of           *)
(* testnet_claims_run.sh build and print that tree.                        *)
(***************************************************************************)
EXTENDS TreeData, HashInputs, ClaimCircuit, DataLemmas

(* Two strings of one length in front: the cut between them is certain.    *)
LEMMA ConcatInjective ==
    ASSUME NEW s \in Seq(Byte), NEW t \in Seq(Byte), NEW u \in Seq(Byte), NEW w \in Seq(Byte),
           Len(s) = Len(u), s \o t = u \o w
    PROVE  s = u /\ t = w
<1>0. Len(s) \in Nat /\ Len(t) \in Nat /\ Len(w) \in Nat
  BY LenProperties
<1>1. Len(t) = Len(w)
  <2>1. Len(s \o t) = Len(s) + Len(t) /\ Len(u \o w) = Len(u) + Len(w)
    BY ConcatProperties
  <2> QED
    BY <1>0, <2>1
<1>2. \A i \in 1 .. Len(s) + Len(t) :
        (IF i <= Len(s) THEN s[i] ELSE t[i - Len(s)]) = (IF i <= Len(s) THEN u[i] ELSE w[i - Len(s)])
  <2>1. \A i \in 1 .. Len(s) + Len(t) :
          (s \o t)[i] = IF i <= Len(s) THEN s[i] ELSE t[i - Len(s)]
    BY ConcatProperties, Zenon
  <2>2. \A i \in 1 .. Len(u) + Len(w) :
          (u \o w)[i] = IF i <= Len(u) THEN u[i] ELSE w[i - Len(u)]
    BY ConcatProperties, Zenon
  <2> QED
    BY <1>1, <2>1, <2>2, Zenon
<1>3. ASSUME NEW i \in 1 .. Len(s) PROVE s[i] = u[i]
  <2>1. i \in 1 .. Len(s) + Len(t) /\ i <= Len(s)
    BY <1>0
  <2> QED
    BY <1>2, <2>1, Zenon
<1>4. ASSUME NEW i \in 1 .. Len(t) PROVE t[i] = w[i]
  <2>1. PICK k \in Nat : k = Len(s) + i
    BY <1>0
  <2>2. k \in 1 .. Len(s) + Len(t) /\ ~(k <= Len(s)) /\ k - Len(s) = i
    BY <1>0, <2>1
  <2> QED
    BY <1>2, <2>2, Zenon
<1>5. s = u
  BY <1>3, SeqEqual
<1>6. t = w
  BY <1>1, <1>4, SeqEqual
<1> QED
  BY <1>5, <1>6

LEMMA JoinedLength ==
    ASSUME NEW k \in Nat, NEW j \in Nat, NEW s \in Bytes(k), NEW t \in Bytes(j)
    PROVE  s \o t \in Bytes(k + j)
<1>1. s \in Seq(Byte) /\ t \in Seq(Byte) /\ Len(s) = k /\ Len(t) = j
  BY DEF Bytes
<1>2. s \o t \in Seq(Byte) /\ Len(s \o t) = Len(s) + Len(t)
  BY <1>1, ConcatProperties
<1> QED
  BY <1>1, <1>2 DEF Bytes

LEMMA TagByte ==
    ASSUME NEW n \in Byte
    PROVE  <<n>> \in Bytes(1)
BY DEF Bytes

LEMMA TaggedLength ==
    ASSUME NEW n \in Byte, NEW k \in Nat, NEW j \in Nat, NEW a \in Bytes(k), NEW v \in Bytes(j)
    PROVE  <<n>> \o a \o v \in Bytes(1 + k + j)
<1>1. <<n>> \o a \in Bytes(1 + k)
  BY TagByte, JoinedLength
<1> QED
  BY <1>1, JoinedLength

LEMMA TaggedPair ==
    ASSUME NEW n \in Byte, NEW k \in Nat, NEW j \in Nat
    PROVE  \A a, b \in Bytes(k) : \A v, w \in Bytes(j) :
             <<n>> \o a \o v = <<n>> \o b \o w => a = b /\ v = w
<1> SUFFICES ASSUME NEW a \in Bytes(k), NEW b \in Bytes(k), NEW v \in Bytes(j), NEW w \in Bytes(j),
                    <<n>> \o a \o v = <<n>> \o b \o w
             PROVE  a = b /\ v = w
  OBVIOUS
<1>1. <<n>> \o a \in Bytes(1 + k) /\ <<n>> \o b \in Bytes(1 + k)
  BY TagByte, JoinedLength
<1>2. <<n>> \o a = <<n>> \o b /\ v = w
  BY <1>1, ConcatInjective DEF Bytes
<1>3. a = b
  BY <1>2, TagByte, ConcatInjective DEF Bytes
<1> QED
  BY <1>2, <1>3

LEMMA Tags == 0 \in Byte /\ 1 \in Byte
BY DEF Byte

LEMMA Widths == Id = Bytes(32) /\ Amount = Bytes(16) /\ 32 \in Nat /\ 16 \in Nat
BY DEF Id, Amount

(* A leaf, a node or a nullifier determines what it was made of: nobody    *)
(* finds a second account, amount, pair of children or distribution with   *)
(* the same bytes.                                                         *)
THEOREM InputsAreUnambiguous ==
    ASSUME NEW a \in Id, NEW b \in Id, NEW c \in Id, NEW d \in Id,
           NEW v \in Amount, NEW w \in Amount
    PROVE  /\ LeafInput(a, v) = LeafInput(b, w) => a = b /\ v = w
           /\ NodeInput(a, c) = NodeInput(b, d) => a = b /\ c = d
           /\ NullifierInput(a, c) = NullifierInput(b, d) => a = b /\ c = d
<1>1. ASSUME LeafInput(a, v) = LeafInput(b, w) PROVE a = b /\ v = w
  <2>1. PICK n \in Byte, k \in Nat, j \in Nat : n = 0 /\ k = 32 /\ j = 16
    BY Tags
  <2>2. a \in Bytes(k) /\ b \in Bytes(k) /\ v \in Bytes(j) /\ w \in Bytes(j)
    BY <2>1, Widths
  <2>3. \A s, t \in Bytes(k) : \A x, y \in Bytes(j) :
          <<n>> \o s \o x = <<n>> \o t \o y => s = t /\ x = y
    BY TaggedPair
  <2>4. <<n>> \o a \o v = <<n>> \o b \o w
    BY <1>1, <2>1, Zenon DEF LeafInput
  <2> QED
    BY <2>2, <2>3, <2>4, Zenon
<1>2. ASSUME NodeInput(a, c) = NodeInput(b, d) PROVE a = b /\ c = d
  <2>1. PICK n \in Byte, k \in Nat, j \in Nat : n = 1 /\ k = 32 /\ j = 32
    BY Tags
  <2>2. a \in Bytes(k) /\ b \in Bytes(k) /\ c \in Bytes(j) /\ d \in Bytes(j)
    BY <2>1, Widths
  <2>3. \A s, t \in Bytes(k) : \A x, y \in Bytes(j) :
          <<n>> \o s \o x = <<n>> \o t \o y => s = t /\ x = y
    BY TaggedPair
  <2>4. <<n>> \o a \o c = <<n>> \o b \o d
    BY <1>2, <2>1, Zenon DEF NodeInput
  <2> QED
    BY <2>2, <2>3, <2>4, Zenon
<1>3. NullifierInput(a, c) = NullifierInput(b, d) => a = b /\ c = d
  BY ConcatInjective DEF NullifierInput, Id, Bytes
<1> QED
  BY <1>1, <1>2, <1>3

(* No two kinds share an input: a leaf cannot be passed off as a node, nor *)
(* either as a nullifier.  A note is hashed as it is and may have any      *)
(* length: it is no input of theirs unless it has exactly that input's.    *)
(* (One of 64 bytes can be an account followed by a distributor; note      *)
(* hashes are compared with note hashes only, airdrop/src/lib.rs:84.)      *)
THEOREM KindsAreSeparate ==
    ASSUME NEW a \in Id, NEW b \in Id, NEW c \in Id, NEW d \in Id, NEW e \in Id,
           NEW v \in Amount, NEW note \in Seq(Byte)
    PROVE  /\ LeafInput(a, v) # NodeInput(b, c) /\ LeafInput(a, v) # NullifierInput(d, e)
           /\ NodeInput(b, c) # NullifierInput(d, e)
           /\ note = LeafInput(a, v) => Len(note) = 49
           /\ note = NodeInput(b, c) => Len(note) = 65
           /\ note = NullifierInput(d, e) => Len(note) = 64
<1>1. LeafInput(a, v) \in Bytes(1 + 32 + 16)
  BY Tags, Widths, TaggedLength DEF LeafInput
<1>2. NodeInput(b, c) \in Bytes(1 + 32 + 32)
  BY Tags, Widths, TaggedLength DEF NodeInput
<1>3. NullifierInput(d, e) \in Bytes(32 + 32)
  BY Widths, JoinedLength DEF NullifierInput
<1>4. /\ Len(LeafInput(a, v)) = 49 /\ Len(NodeInput(b, c)) = 65
      /\ Len(NullifierInput(d, e)) = 64
  BY <1>1, <1>2, <1>3 DEF Bytes
<1>5. /\ Len(LeafInput(a, v)) # Len(NodeInput(b, c))
      /\ Len(LeafInput(a, v)) # Len(NullifierInput(d, e))
      /\ Len(NodeInput(b, c)) # Len(NullifierInput(d, e))
  BY <1>4
<1> QED
  BY <1>4, <1>5, Zenon

(* The copies "must match the guest circuit exactly" (sdk/src/lib.rs:53).  *)
THEOREM CopiesAgree ==
    ASSUME NEW a \in Id, NEW b \in Id, NEW v \in Amount
    PROVE  /\ GuestLeafInput(a, v) = LeafInput(a, v)
           /\ ProverLeafInput(a, v) = LeafInput(a, v)
           /\ SdkLeafInput(a, v) = LeafInput(a, v)
           /\ GuestNodeInput(a, b) = NodeInput(a, b)
           /\ SdkNodeInput(a, b) = NodeInput(a, b)
           /\ GuestNullifierInput(a, b) = NullifierInput(a, b)
<1>1. Append(<<>>, 0) = <<0>> /\ Append(<<>>, 1) = <<1>> /\ <<>> \o a = a
  BY EmptySeq DEF Id, Bytes
<1> QED
  BY <1>1 DEF GuestLeafInput, ProverLeafInput, SdkLeafInput, GuestNodeInput, SdkNodeInput,
              GuestNullifierInput, LeafInput, NodeInput, NullifierInput

-----------------------------------------------------------------------------
(* Of finitely many places, the last.                                      *)
LEMMA MaxIsThere ==
    ASSUME NEW n \in Nat, NEW s \in SUBSET (1 .. n), s # {}
    PROVE  Max(s) \in s /\ \A y \in s : y <= Max(s)
<1> DEFINE T == {k \in Nat : \E x \in s : k = n - x}
<1>1. T # {}
  <2>1. PICK x \in s : TRUE
    OBVIOUS
  <2>2. n - x \in T
    OBVIOUS
  <2> QED
    BY <2>2
<1>2. PICK k \in T : \A j \in T : k <= j
  <2> HIDE DEF T
  <2>1. T \in SUBSET Nat
    BY DEF T
  <2> QED
    BY <1>1, <2>1, LeastNumber
<1>3. PICK x \in s : k = n - x
  BY <1>2
<1>4. \A y \in s : x >= y
  <2>1. ASSUME NEW y \in s PROVE x >= y
    <3>1. n - y \in T
      OBVIOUS
    <3>2. n - x <= n - y
      BY <1>2, <1>3, <3>1
    <3> QED
      BY <3>2
  <2> QED
    BY <2>1
<1>5. Max(s) \in s /\ \A y \in s : Max(s) >= y
  BY <1>4, Zenon DEF Max
<1> QED
  BY <1>5

-----------------------------------------------------------------------------
(* One step of a walk, and the fold that makes them.                       *)
Up(at, sibling) ==
    [ node  |-> IF at.index % 2 = 0 THEN NodeHash(at.node, sibling)
                                    ELSE NodeHash(sibling, at.node),
      index |-> at.index \div 2 ]

Start(leaf, leaf_index) == [node |-> leaf, index |-> leaf_index]

Climb(leaf, leaf_index, path) ==
    CHOOSE climb : climb = [s \in SUBSET DOMAIN path |->
        IF s = {} THEN Start(leaf, leaf_index)
        ELSE LET x == Max(s) IN Up(climb[s \ {x}], path[x])]

LEMMA WalkIsClimb ==
    ASSUME NEW leaf, NEW leaf_index, NEW path
    PROVE  MerkleWalk(leaf, leaf_index, path) = Climb(leaf, leaf_index, path)[DOMAIN path].node
BY DEF MerkleWalk, FoldLeft, MapThenFoldSet, Climb, Up, Start

ClimbUpTo(leaf, leaf_index, path, n, g) ==
    g = [s \in SubsetsUpTo(DOMAIN path, n) |->
            IF s = {} THEN Start(leaf, leaf_index) ELSE Up(g[s \ {Max(s)}], path[Max(s)])]

LEMMA ClimbsExist ==
    ASSUME NEW leaf, NEW leaf_index, NEW path, NEW m \in Nat, DOMAIN path = 1 .. m,
           NEW n \in Nat
    PROVE  \E g : ClimbUpTo(leaf, leaf_index, path, n, g)
<1> DEFINE T == {k \in Nat : ~ \E g : ClimbUpTo(leaf, leaf_index, path, k, g)}
<1>0. IsFiniteSet(1 .. m)
  BY FS_Interval
<1>1. 0 \notin T
  <2> DEFINE g == [s \in SubsetsUpTo(DOMAIN path, 0) |-> Start(leaf, leaf_index)]
  <2>1. \A s \in SubsetsUpTo(DOMAIN path, 0) : s = {}
    BY <1>0, FS_Subset, FS_EmptySet, FS_CardinalityType DEF SubsetsUpTo
  <2>2. ClimbUpTo(leaf, leaf_index, path, 0, g)
    BY <2>1 DEF ClimbUpTo
  <2> QED
    BY <2>2
<1>2. ASSUME NEW k \in Nat, k + 1 \in T PROVE k \in T
  <2> SUFFICES ASSUME NEW g, ClimbUpTo(leaf, leaf_index, path, k, g) PROVE FALSE
    OBVIOUS
  <2> DEFINE h == [s \in SubsetsUpTo(DOMAIN path, k + 1) |->
                     IF s = {} THEN Start(leaf, leaf_index) ELSE Up(g[s \ {Max(s)}], path[Max(s)])]
  <2>1. ASSUME NEW s \in SubsetsUpTo(DOMAIN path, k + 1), s # {}
        PROVE  s \ {Max(s)} \in SubsetsUpTo(DOMAIN path, k)
    <3>1. Max(s) \in s
      BY <2>1, MaxIsThere DEF SubsetsUpTo
    <3>2. s \in SUBSET DOMAIN path /\ Cardinality(s) <= k + 1 /\ IsFiniteSet(s)
      BY <1>0, FS_Subset DEF SubsetsUpTo
    <3>3. /\ Cardinality(s) \in Nat /\ Cardinality(s \ {Max(s)}) \in Nat
          /\ Cardinality(s) = Cardinality(s \ {Max(s)}) + 1
      BY <3>1, <3>2, SmallerByOne, Zenon
    <3> HIDE DEF T, h
    <3>4. Cardinality(s \ {Max(s)}) <= k
      BY <3>2, <3>3
    <3> QED
      BY <3>2, <3>4 DEF SubsetsUpTo
  <2>2. \A s \in SubsetsUpTo(DOMAIN path, k) : h[s] = g[s]
    <3>1. SubsetsUpTo(DOMAIN path, k) \subseteq SubsetsUpTo(DOMAIN path, k + 1)
      BY <1>0, FS_Subset, FS_CardinalityType DEF SubsetsUpTo
    <3> QED
      BY <3>1 DEF ClimbUpTo
  <2>3. ClimbUpTo(leaf, leaf_index, path, k + 1, h)
    BY <2>1, <2>2 DEF ClimbUpTo
  <2> QED
    BY <2>3, <1>2
<1>3. T = {}
  <2> HIDE DEF T
  <2> QED
    BY <1>1, <1>2, NoLeastFailure DEF T
<1> QED
  BY <1>3

(* A walk, step by step: the node and the index after k siblings.          *)
Walked(leaf, leaf_index, path, at) ==
    /\ at[0] = Start(leaf, leaf_index)
    /\ \A k \in DOMAIN path : at[k] = Up(at[k - 1], path[k])

LEMMA WalkStepByStep ==
    ASSUME NEW leaf, NEW leaf_index, NEW path, NEW m \in Nat, DOMAIN path = 1 .. m
    PROVE  \E at : /\ Walked(leaf, leaf_index, path, at)
                   /\ MerkleWalk(leaf, leaf_index, path) = at[m].node
<1> DEFINE c == Climb(leaf, leaf_index, path)
           at == [k \in 0 .. m |-> c[1 .. k]]
<1>0. IsFiniteSet(1 .. m) /\ Cardinality(1 .. m) = m
  BY FS_Interval
<1>1. PICK g : ClimbUpTo(leaf, leaf_index, path, m, g)
  BY ClimbsExist
<1>2. SubsetsUpTo(DOMAIN path, m) = SUBSET DOMAIN path
  BY <1>0, FS_Subset DEF SubsetsUpTo
<1>3. c = [s \in SUBSET DOMAIN path |->
             IF s = {} THEN Start(leaf, leaf_index)
             ELSE LET x == Max(s) IN Up(c[s \ {x}], path[x])]
  <2>1. g = [s \in SUBSET DOMAIN path |->
             IF s = {} THEN Start(leaf, leaf_index)
             ELSE LET x == Max(s) IN Up(g[s \ {x}], path[x])]
    BY <1>1, <1>2 DEF ClimbUpTo
  <2> QED
    BY <2>1 DEF Climb
<1> HIDE DEF c
<1>4. at[0] = Start(leaf, leaf_index)
  <2>1. 1 .. 0 = {}
    OBVIOUS
  <2>2. c[{}] = Start(leaf, leaf_index)
    BY <1>3
  <2>3. at[0] = c[1 .. 0]
    OBVIOUS
  <2> QED
    BY <2>1, <2>2, <2>3
<1>5. ASSUME NEW k \in 1 .. m PROVE at[k] = Up(at[k - 1], path[k])
  <2>1. 1 .. k \in SUBSET (1 .. m) /\ k \in 1 .. k /\ k \in Nat
    OBVIOUS
  <2>2. Max(1 .. k) = k
    <3>1. 1 .. k # {}
      BY <2>1
    <3>2. Max(1 .. k) \in 1 .. k /\ k <= Max(1 .. k)
      BY <2>1, <3>1, MaxIsThere
    <3> QED
      BY <3>2
  <2>3. (1 .. k) \ {k} = 1 .. k - 1
    OBVIOUS
  <2>4. c[1 .. k] = Up(c[(1 .. k) \ {k}], path[k])
    <3>1. 1 .. k # {}
      BY <2>1
    <3> QED
      BY <1>3, <2>1, <2>2, <3>1
  <2>5. at[k] = c[1 .. k] /\ at[k - 1] = c[1 .. k - 1]
    OBVIOUS
  <2> QED
    BY <2>3, <2>4, <2>5, Zenon
<1>6. MerkleWalk(leaf, leaf_index, path) = at[m].node
  BY WalkIsClimb DEF c
<1>7. Walked(leaf, leaf_index, path, at)
  BY <1>4, <1>5 DEF Walked
<1> QED
  BY <1>6, <1>7

-----------------------------------------------------------------------------
(* The tree, level by level.                                               *)
TreeUpTo(entries, depth, n, g) ==
    g = [k \in 0 .. n |-> [ i \in 0 .. 2^(depth - k) - 1 |->
              IF k = 0 THEN Leaf(entries, i) ELSE NodeHash(g[k - 1][2 * i], g[k - 1][2 * i + 1]) ]]

LEMMA TreesExist ==
    ASSUME NEW l, NEW depth \in Nat, NEW n \in Nat
    PROVE  \E g : TreeUpTo(l, depth, n, g)
<1> DEFINE T == {k \in Nat : ~ \E g : TreeUpTo(l, depth, k, g)}
<1>1. 0 \notin T
  <2> DEFINE g == [k \in 0 .. 0 |-> [i \in 0 .. 2^(depth - k) - 1 |-> Leaf(l, i)]]
  <2>1. TreeUpTo(l, depth, 0, g)
    BY DEF TreeUpTo
  <2> QED
    BY <2>1
<1>2. ASSUME NEW m \in Nat, m + 1 \in T PROVE m \in T
  <2> SUFFICES ASSUME NEW g, TreeUpTo(l, depth, m, g) PROVE FALSE
    OBVIOUS
  <2> DEFINE h == [k \in 0 .. m + 1 |-> [ i \in 0 .. 2^(depth - k) - 1 |->
              IF k = 0 THEN Leaf(l, i) ELSE NodeHash(g[k - 1][2 * i], g[k - 1][2 * i + 1]) ]]
  <2>1. ASSUME NEW k \in 0 .. m PROVE h[k] = g[k]
    <3>1. k \in 0 .. m + 1
      OBVIOUS
    <3> QED
      BY <3>1 DEF TreeUpTo
  <2>2. \A k \in 0 .. m + 1 : k # 0 => k - 1 \in 0 .. m
    OBVIOUS
  <2>3. \A k \in 0 .. m + 1 : k # 0 => h[k - 1] = g[k - 1]
    BY <2>1, <2>2
  <2>4. TreeUpTo(l, depth, m + 1, h)
    BY <2>3 DEF TreeUpTo
  <2> QED
    BY <2>4, <1>2
<1>3. T = {}
  <2> HIDE DEF T
  <2> QED
    BY <1>1, <1>2, NoLeastFailure DEF T
<1> QED
  BY <1>3

LEMMA TreeLevels ==
    ASSUME NEW l, NEW depth \in Nat
    PROVE  /\ Tree(l, depth)[0] = [i \in 0 .. 2^depth - 1 |-> Leaf(l, i)]
           /\ \A k \in 1 .. depth : Tree(l, depth)[k] =
                 [i \in 0 .. 2^(depth - k) - 1 |->
                    NodeHash(Tree(l, depth)[k - 1][2 * i], Tree(l, depth)[k - 1][2 * i + 1])]
<1>1. PICK g : TreeUpTo(l, depth, depth, g)
  BY TreesExist
<1> DEFINE t == Tree(l, depth)
<1>2. t = [k \in 0 .. depth |-> [ i \in 0 .. 2^(depth - k) - 1 |->
              IF k = 0 THEN Leaf(l, i) ELSE NodeHash(t[k - 1][2 * i], t[k - 1][2 * i + 1]) ]]
  BY <1>1 DEF TreeUpTo, Tree
<1> HIDE DEF t
<1>3. t[0] = [i \in 0 .. 2^depth - 1 |-> Leaf(l, i)]
  <2>1. 0 \in 0 .. depth /\ depth - 0 = depth
    OBVIOUS
  <2> QED
    BY <1>2, <2>1
<1>4. ASSUME NEW k \in 1 .. depth
      PROVE  t[k] = [i \in 0 .. 2^(depth - k) - 1 |->
                       NodeHash(t[k - 1][2 * i], t[k - 1][2 * i + 1])]
  <2>1. k \in 0 .. depth /\ k # 0
    OBVIOUS
  <2> QED
    BY <1>2, <2>1
<1> QED
  BY <1>3, <1>4 DEF t

LEMMA TreeNodes ==
    ASSUME NEW entries, NEW depth \in Nat
    PROVE  /\ \A i \in 0 .. 2^depth - 1 : Tree(entries, depth)[0][i] = Leaf(entries, i)
           /\ \A k \in Nat : k + 1 <= depth =>
                 \A i \in 0 .. 2^(depth - (k + 1)) - 1 :
                    Tree(entries, depth)[k + 1][i] =
                       NodeHash(Tree(entries, depth)[k][2 * i], Tree(entries, depth)[k][2 * i + 1])
<1> DEFINE t == Tree(entries, depth)
<1>1. /\ t[0] = [i \in 0 .. 2^depth - 1 |-> Leaf(entries, i)]
      /\ \A k \in 1 .. depth : t[k] = [i \in 0 .. 2^(depth - k) - 1 |->
                                       NodeHash(t[k - 1][2 * i], t[k - 1][2 * i + 1])]
  BY TreeLevels
<1> HIDE DEF t
<1>2. ASSUME NEW k \in Nat, k + 1 <= depth, NEW i \in 0 .. 2^(depth - (k + 1)) - 1
      PROVE  t[k + 1][i] = NodeHash(t[k][2 * i], t[k][2 * i + 1])
  <2>1. PICK j \in 1 .. depth : j = k + 1 /\ j - 1 = k
    BY <1>2
  <2>2. t[j][i] = NodeHash(t[j - 1][2 * i], t[j - 1][2 * i + 1])
    BY <1>1, <2>1
  <2> QED
    BY <2>1, <2>2
<1>3. \A i \in 0 .. 2^depth - 1 : t[0][i] = Leaf(entries, i)
  BY <1>1
<1> QED
  BY <1>2, <1>3 DEF t

LEMMA WalkStep ==
    ASSUME NEW leaf, NEW leaf_index, NEW path, NEW at, Walked(leaf, leaf_index, path, at),
           NEW k \in Nat, k + 1 \in DOMAIN path
    PROVE  at[k + 1] = Up(at[k], path[k + 1])
<1>1. at[k + 1] = Up(at[(k + 1) - 1], path[k + 1])
  BY DEF Walked
<1>2. (k + 1) - 1 = k
  OBVIOUS
<1> QED
  BY <1>1, <1>2

LEMMA PathSibling ==
    ASSUME NEW entries, NEW depth \in Nat, NEW i, NEW k \in Nat, k + 1 <= depth
    PROVE  Path(entries, depth, i)[k + 1] = Tree(entries, depth)[k][Sibling(i \div 2^k)]
<1>1. k + 1 \in 1 .. depth /\ (k + 1) - 1 = k
  OBVIOUS
<1> QED
  BY <1>1 DEF Path

LEMMA TwoOrMore ==
    ASSUME NEW n \in Nat
    PROVE  2^n \in Nat \ {0} /\ 2^(n + 1) = 2 * 2^n
BY PowerIsNumber, PowerDoubles

(* The ancestor of a leaf, level by level.                                 *)
LEMMA Ancestors ==
    ASSUME NEW i \in Nat, NEW k \in Nat
    PROVE  /\ i \div 2^k \in Nat
           /\ i \div 2^(k + 1) = (i \div 2^k) \div 2
           /\ i \div 2^0 = i
<1>1. 2^k \in Nat \ {0} /\ 2^(k + 1) = 2 * 2^k
  BY TwoOrMore
<1>2. i \div 2^k \in Nat /\ (i \div 2^k) \div 2 = i \div (2 * 2^k)
  BY <1>1, HalfOfQuotient
<1>3. i \div 2^(k + 1) = (i \div 2^k) \div 2
  BY <1>1, <1>2, Zenon
<1>4. 2^0 = 1
  OBVIOUS
<1>5. i \div 1 = i
  OBVIOUS
<1> QED
  BY <1>2, <1>3, <1>4, <1>5, Zenon

LEMMA AncestorsFit ==
    ASSUME NEW depth \in Nat, NEW i \in 0 .. 2^depth - 1, NEW k \in 0 .. depth
    PROVE  i \div 2^k \in 0 .. 2^(depth - k) - 1
<1>0. i \in Nat
  BY TwoOrMore
<1> DEFINE T == {j \in Nat : j <= depth /\ ~ (i \div 2^j < 2^(depth - j))}
<1>1. 0 \notin T
  <2>1. i \div 2^0 = i /\ i < 2^depth
    BY <1>0, Ancestors, TwoOrMore
  <2>2. depth - 0 = depth
    OBVIOUS
  <2> QED
    BY <2>1, <2>2
<1>2. ASSUME NEW j \in Nat, j + 1 \in T PROVE j \in T
  <2> SUFFICES ASSUME i \div 2^j < 2^(depth - j) PROVE FALSE
    BY <1>2
  <2>1. j + 1 <= depth /\ ~ (i \div 2^(j + 1) < 2^(depth - (j + 1)))
    BY <1>2
  <2>2. PICK e \in Nat : depth - (j + 1) = e /\ depth - j = e + 1
    BY <2>1
  <2>3. 2^(depth - j) = 2 * 2^e /\ 2^e \in Nat
    BY <2>2, TwoOrMore
  <2>4. i \div 2^(j + 1) = (i \div 2^j) \div 2 /\ i \div 2^j \in Nat
    BY <1>0, Ancestors
  <2> DEFINE q == i \div 2^j
             p == 2^e
  <2>5. q \in Nat /\ p \in Nat /\ q < 2 * p
    BY <2>3, <2>4
  <2>6. ~ (q \div 2 < p)
    BY <2>1, <2>2, <2>4
  <2> HIDE DEF q, p
  <2> QED
    BY <2>5, <2>6
<1>3. T = {}
  <2> HIDE DEF T
  <2> QED
    BY <1>1, <1>2, NoLeastFailure DEF T
<1>4. i \div 2^k \in Nat /\ i \div 2^k < 2^(depth - k) /\ 2^(depth - k) \in Nat
  <2>1. k \in Nat /\ k <= depth /\ depth - k \in Nat
    OBVIOUS
  <2> QED
    BY <1>0, <1>3, <2>1, Ancestors, TwoOrMore
<1> QED
  BY <1>4

(* Every path of the tree walks from its leaf to the root.                 *)
THEOREM PathsProve ==
    ASSUME NEW entries, NEW depth \in Nat, NEW i \in 0 .. 2^depth - 1
    PROVE  MerkleWalk(Leaf(entries, i), i, Path(entries, depth, i)) = Root(entries, depth)
<1> DEFINE t == Tree(entries, depth)
           path == Path(entries, depth, i)
<1>0. i \in Nat
  BY TwoOrMore
<1>1. DOMAIN path = 1 .. depth
  BY DEF Path
<1>2. PICK at : /\ Walked(Leaf(entries, i), i, path, at)
                /\ MerkleWalk(Leaf(entries, i), i, path) = at[depth].node
  BY <1>1, WalkStepByStep
<1> DEFINE T == {k \in Nat : k <= depth /\
                    ~ (at[k].node = t[k][i \div 2^k] /\ at[k].index = i \div 2^k)}
<1>3. 0 \notin T
  <2>1. at[0].node = Leaf(entries, i) /\ at[0].index = i
    BY <1>2 DEF Walked, Start
  <2>2. t[0][i] = Leaf(entries, i)
    BY TreeNodes
  <2>3. i \div 2^0 = i
    BY <1>0, Ancestors
  <2> QED
    BY <2>1, <2>2, <2>3
<1>4. ASSUME NEW k \in Nat, k + 1 \in T PROVE k \in T
  <2> DEFINE q == i \div 2^k
             p == i \div 2^(k + 1)
  <2> SUFFICES ASSUME at[k].node = t[k][q], at[k].index = q PROVE FALSE
    BY <1>4
  <2>1. k + 1 \in 1 .. depth /\ k \in 0 .. depth /\ k + 1 \in 0 .. depth
    BY <1>4
  <2>2. q \in Nat /\ p = q \div 2 /\ p \in 0 .. 2^(depth - (k + 1)) - 1
    BY <1>0, <2>1, Ancestors, AncestorsFit
  <2>3. path[k + 1] = t[k][Sibling(q)]
    BY <2>1, PathSibling
  <2>4. at[k + 1] = Up(at[k], t[k][Sibling(q)])
    BY <1>1, <1>2, <2>1, <2>3, WalkStep
  <2>5. t[k + 1][p] = NodeHash(t[k][2 * p], t[k][2 * p + 1])
    <3>1. PICK x \in 0 .. 2^(depth - (k + 1)) - 1 : x = p
      BY <2>2
    <3>2. k + 1 <= depth
      BY <2>1
    <3>3. t[k + 1][x] = NodeHash(t[k][2 * x], t[k][2 * x + 1])
      BY <3>2, TreeNodes
    <3> QED
      BY <3>1, <3>3, Zenon
  <2> HIDE DEF q, p, t, path, T
  <2>6. at[k + 1].index = p
    BY <2>2, <2>4 DEF Up
  <2>9. ~ (at[k + 1].node = t[k + 1][p])
    BY <1>4, <2>6 DEF T, p
  <2>7. CASE q % 2 = 0
    <3>1. 2 * p = q /\ 2 * p + 1 = q + 1
      BY <2>2, <2>7
    <3>2. Sibling(q) = q + 1
      BY <2>7 DEF Sibling
    <3> QED
      BY <2>4, <2>5, <2>7, <2>9, <3>1, <3>2 DEF Up
  <2>8. CASE q % 2 # 0
    <3>1. 2 * p = q - 1 /\ 2 * p + 1 = q
      BY <2>2, <2>8
    <3>2. Sibling(q) = q - 1
      BY <2>8 DEF Sibling
    <3> QED
      BY <2>4, <2>5, <2>8, <2>9, <3>1, <3>2 DEF Up
  <2> QED
    BY <2>7, <2>8
<1>5. T = {}
  <2> HIDE DEF T
  <2> QED
    BY <1>3, <1>4, NoLeastFailure DEF T
<1>6. at[depth].node = t[depth][i \div 2^depth]
  BY <1>5
<1>7. i \div 2^depth = 0
  <2>1. i \div 2^depth \in 0 .. 2^(depth - depth) - 1
    BY AncestorsFit
  <2>2. depth - depth = 0 /\ 2^0 = 1
    OBVIOUS
  <2> QED
    BY <2>1, <2>2
<1> QED
  BY <1>2, <1>6, <1>7 DEF Root

-----------------------------------------------------------------------------
(* No hash of a leaf is the hash of a node.                                *)
LEMMA LeavesAreNoNodes ==
    ASSUME NEW a, NEW v, NEW left, NEW right
    PROVE  LeafHash(a, v) # NodeHash(left, right)
<1>1. LeafHash(a, v)[1] = 0 /\ NodeHash(left, right)[1] = 1
  BY DEF LeafHash, NodeHash
<1> QED
  BY <1>1

LEMMA NodesDetermineChildren ==
    \A a, b, c, d : NodeHash(a, b) = NodeHash(c, d) => a = c /\ b = d
BY DEF NodeHash

LEMMA UpIsNode ==
    ASSUME NEW at, NEW sibling
    PROVE  \/ Up(at, sibling).node = NodeHash(at.node, sibling)
           \/ Up(at, sibling).node = NodeHash(sibling, at.node)
BY DEF Up

(* One level down: what hashed up to a node of a level above the leaves is *)
(* one of its two children.                                                *)
LEMMA OneLevelDown ==
    ASSUME NEW entries, NEW depth \in Nat, NEW k \in Nat, NEW j \in Nat, k + (j + 1) = depth,
           NEW at, NEW sibling,
           NEW i \in 0 .. 2^j - 1, Up(at, sibling).node = Tree(entries, depth)[k + 1][i]
    PROVE  \E h \in 0 .. 2^(j + 1) - 1 : at.node = Tree(entries, depth)[k][h]
<1> DEFINE t == Tree(entries, depth)
<1>1. k + 1 <= depth /\ depth - (k + 1) = j
  OBVIOUS
<1>2. t[k + 1][i] = NodeHash(t[k][2 * i], t[k][2 * i + 1])
  <2>1. \A e \in 0 .. 2^(depth - (k + 1)) - 1 :
           t[k + 1][e] = NodeHash(t[k][2 * e], t[k][2 * e + 1])
    BY <1>1, TreeNodes
  <2>2. i \in 0 .. 2^(depth - (k + 1)) - 1
    BY <1>1
  <2> QED
    BY <2>1, <2>2, Zenon
<1>3. at.node = t[k][2 * i] \/ at.node = t[k][2 * i + 1]
  <2> HIDE DEF t
  <2>1. \/ NodeHash(at.node, sibling) = NodeHash(t[k][2 * i], t[k][2 * i + 1])
        \/ NodeHash(sibling, at.node) = NodeHash(t[k][2 * i], t[k][2 * i + 1])
    BY <1>2, UpIsNode, Zenon DEF t
  <2> DEFINE c == t[k][2 * i]
             d == t[k][2 * i + 1]
  <2> HIDE DEF c, d
  <2>2. NodeHash(at.node, sibling) = NodeHash(c, d) => at.node = c
    BY NodesDetermineChildren, Zenon
  <2>3. NodeHash(sibling, at.node) = NodeHash(c, d) => at.node = d
    BY NodesDetermineChildren, Zenon
  <2> QED
    BY <2>1, <2>2, <2>3, Zenon DEF c, d
<1>4. 2 * i \in 0 .. 2^(j + 1) - 1 /\ 2 * i + 1 \in 0 .. 2^(j + 1) - 1
  BY TwoOrMore
<1> QED
  BY <1>3, <1>4

(* Whatever index and path a pair comes with, of whatever length: if it    *)
(* walks up to the root, the list has the pair.                            *)
THEOREM NothingElseProves ==
    ASSUME NEW entries, IsSequence(entries), Len(entries) # 0, NEW depth \in Nat,
           NEW path, NEW m \in Nat, DOMAIN path = 1 .. m, NEW x, NEW a, NEW v,
           MerkleWalk(LeafHash(a, v), x, path) = Root(entries, depth)
    PROVE  <<a, v>> \in Pairs(entries)
<1> DEFINE t == Tree(entries, depth)
<1>1. PICK at : /\ Walked(LeafHash(a, v), x, path, at)
                /\ at[m].node = t[depth][0]
  <2>1. PICK at : /\ Walked(LeafHash(a, v), x, path, at)
                  /\ MerkleWalk(LeafHash(a, v), x, path) = at[m].node
    BY WalkStepByStep
  <2> QED
    BY <2>1, Zenon DEF Root
<1>a. ASSUME NEW k \in Nat, k + 1 \in 1 .. m
      PROVE  /\ at[k + 1] = Up(at[k], path[k + 1])
             /\ \E left, right : at[k + 1].node = NodeHash(left, right)
  <2>1. at[k + 1] = Up(at[k], path[k + 1])
    <3>1. Walked(LeafHash(a, v), x, path, at) /\ k + 1 \in DOMAIN path
      BY <1>1, <1>a, Zenon
    <3> QED
      BY <3>1, WalkStep
  <2>2. \/ Up(at[k], path[k + 1]).node = NodeHash(at[k].node, path[k + 1])
        \/ Up(at[k], path[k + 1]).node = NodeHash(path[k + 1], at[k].node)
    BY UpIsNode, Zenon
  <2> QED
    BY <2>1, <2>2, Zenon
<1> DEFINE InTree(j) == \E i \in 0 .. 2^j - 1 : at[m - j].node = t[depth - j][i]
           T == {j \in Nat : j <= m /\ j <= depth /\ ~ InTree(j)}
<1>2. 0 \notin T
  <2>1. m - 0 = m /\ depth - 0 = depth /\ 0 \in 0 .. 2^0 - 1
    BY TwoOrMore
  <2> HIDE DEF t
  <2> QED
    BY <1>1, <2>1
<1>3. ASSUME NEW j \in Nat, j + 1 \in T PROVE j \in T
  <2> SUFFICES ASSUME NEW i \in 0 .. 2^j - 1, at[m - j].node = t[depth - j][i] PROVE FALSE
    BY <1>3
  <2>1. PICK n \in Nat, k \in Nat : n + 1 = m - j /\ k + 1 = depth - j
    <3>1. j + 1 <= m /\ j + 1 <= depth
      BY <1>3
    <3>2. m - (j + 1) \in Nat /\ depth - (j + 1) \in Nat
      BY <3>1
    <3>3. (m - (j + 1)) + 1 = m - j /\ (depth - (j + 1)) + 1 = depth - j
      OBVIOUS
    <3> QED
      BY <3>2, <3>3
  <2>2. n = m - (j + 1) /\ k = depth - (j + 1) /\ n + 1 \in 1 .. m /\ k + (j + 1) = depth
    BY <2>1
  <2>3. at[n + 1] = Up(at[n], path[n + 1])
    BY <1>a, <2>2
  <2>4. Up(at[n], path[n + 1]).node = t[k + 1][i]
    BY <2>1, <2>3, Zenon
  <2>5. \E h \in 0 .. 2^(j + 1) - 1 : at[n].node = t[k][h]
    BY <2>2, <2>4, OneLevelDown
  <2>6. InTree(j + 1)
    BY <2>2, <2>5, Zenon
  <2> QED
    BY <1>3, <2>6, Zenon
<1>4. T = {}
  <2> HIDE DEF T
  <2> QED
    BY <1>2, <1>3, NoLeastFailure DEF T
<1>5. m = depth
  <2>1. CASE m < depth
    <3>1. InTree(m) /\ m - m = 0
      BY <1>4, <2>1
    <3>2. PICK i \in 0 .. 2^m - 1 : at[0].node = t[depth - m][i]
      BY <3>1, Zenon
    <3>3. PICK k \in Nat : k + 1 = depth - m /\ k + 1 <= depth /\ m = depth - (k + 1)
      BY <2>1
    <3>4. t[k + 1][i] = NodeHash(t[k][2 * i], t[k][2 * i + 1])
      <4>1. \A e \in 0 .. 2^(depth - (k + 1)) - 1 :
               t[k + 1][e] = NodeHash(t[k][2 * e], t[k][2 * e + 1])
        BY <3>3, TreeNodes
      <4>2. i \in 0 .. 2^(depth - (k + 1)) - 1
        BY <3>3
      <4> QED
        BY <4>1, <4>2, Zenon
    <3>5. at[0].node = LeafHash(a, v)
      BY <1>1 DEF Walked, Start
    <3>6. LeafHash(a, v) = NodeHash(t[k][2 * i], t[k][2 * i + 1])
      BY <3>2, <3>3, <3>4, <3>5, Zenon
    <3> QED
      BY <3>6, LeavesAreNoNodes, Zenon
  <2>2. CASE m > depth
    <3>1. InTree(depth) /\ depth - depth = 0
      BY <1>4, <2>2
    <3>2. PICK i \in 0 .. 2^depth - 1 : at[m - depth].node = t[0][i]
      BY <3>1, Zenon
    <3>3. t[0][i] = Leaf(entries, i)
      BY TreeNodes
    <3>4. PICK n \in Nat : n + 1 = m - depth /\ n + 1 \in 1 .. m
      BY <2>2
    <3>6. \E left, right : at[n + 1].node = NodeHash(left, right)
      BY <1>a, <3>4
    <3>7. \E b, w : Leaf(entries, i) = LeafHash(b, w)
      BY Zenon DEF Leaf
    <3>8. at[n + 1].node = Leaf(entries, i)
      BY <3>2, <3>3, <3>4, Zenon
    <3> QED
      BY <3>6, <3>7, <3>8, LeavesAreNoNodes, Zenon
  <2> QED
    BY <2>1, <2>2
<1>6. PICK i \in 0 .. 2^depth - 1 : LeafHash(a, v) = Leaf(entries, i)
  <2>0. depth \notin T
    BY <1>4, Zenon
  <2>1. InTree(depth) /\ depth - depth = 0 /\ m - depth = 0
    <3>1. depth <= m /\ depth <= depth /\ depth - depth = 0 /\ m - depth = 0
      BY <1>5
    <3> QED
      BY <2>0, <3>1, Zenon
  <2>2. PICK i \in 0 .. 2^depth - 1 : at[0].node = t[0][i]
    BY <2>1, Zenon
  <2>3. at[0].node = LeafHash(a, v)
    BY <1>1 DEF Walked, Start
  <2>4. t[0][i] = Leaf(entries, i)
    BY TreeNodes
  <2> QED
    BY <2>2, <2>3, <2>4, Zenon
<1>7. PICK e \in DOMAIN entries : Leaf(entries, i) = LeafHash(entries[e].account_id, entries[e].allocation)
  <2>1. Len(entries) \in Nat /\ DOMAIN entries = 1 .. Len(entries)
    BY SequenceShape
  <2>2. i \in Nat
    BY TwoOrMore
  <2>3. (IF i < Len(entries) THEN i + 1 ELSE Len(entries)) \in DOMAIN entries
    BY <2>1, <2>2
  <2> QED
    BY <2>3, Zenon DEF Leaf
<1>8. a = entries[e].account_id /\ v = entries[e].allocation
  <2>1. LeafHash(a, v) = LeafHash(entries[e].account_id, entries[e].allocation)
    BY <1>6, <1>7, Zenon
  <2> QED
    BY <2>1 DEF LeafHash
<1> QED
  BY <1>8 DEF Pairs

LEMMA LeafOfEntry ==
    ASSUME NEW s, Len(s) \in Nat, NEW i \in 1 .. Len(s)
    PROVE  Leaf(s, i - 1) = LeafHash(s[i].account_id, s[i].allocation)
<1>1. (IF i - 1 < Len(s) THEN (i - 1) + 1 ELSE Len(s)) = i
  OBVIOUS
<1> QED
  BY <1>1, Zenon DEF Leaf

(* What AirdropChain assumes of its trees (MerkleAssumption), shown of the *)
(* ones EligibilityTree defines: the claim circuit accepts every listed    *)
(* pair with its path, and no request for any other pair.                  *)
THEOREM CircuitAcceptsTheList ==
    ASSUME NEW entries, IsSequence(entries), Len(entries) # 0, NEW depth \in Nat, NEW request
    PROVE  /\ \A i \in 1 .. Len(entries) :
                 /\ i <= 2^depth
                 /\ request.account_id = entries[i].account_id
                 /\ request.allocation = entries[i].allocation
                 /\ request.leaf_index = i - 1
                 /\ request.merkle_path = Path(entries, depth, i - 1)
                 => ProvesInclusion(request, Root(entries, depth))
           /\ /\ IsSequence(request.merkle_path)
              /\ ProvesInclusion(request, Root(entries, depth))
              => <<request.account_id, request.allocation>> \in Pairs(entries)
<1>1. ASSUME NEW i \in 1 .. Len(entries), i <= 2^depth,
             request.account_id = entries[i].account_id,
             request.allocation = entries[i].allocation,
             request.leaf_index = i - 1,
             request.merkle_path = Path(entries, depth, i - 1)
      PROVE  ProvesInclusion(request, Root(entries, depth))
  <2>1. i - 1 \in 0 .. 2^depth - 1 /\ Len(entries) \in Nat
    BY <1>1, SequenceShape, TwoOrMore
  <2>2. Leaf(entries, i - 1) = LeafHash(entries[i].account_id, entries[i].allocation)
    BY <2>1, LeafOfEntry
  <2>3. MerkleWalk(Leaf(entries, i - 1), i - 1, Path(entries, depth, i - 1)) = Root(entries, depth)
    BY <2>1, PathsProve
  <2> QED
    BY <1>1, <2>2, <2>3, Zenon DEF ProvesInclusion
<1>2. ASSUME IsSequence(request.merkle_path), ProvesInclusion(request, Root(entries, depth))
      PROVE  <<request.account_id, request.allocation>> \in Pairs(entries)
  <2> DEFINE path == request.merkle_path
  <2>1. Len(path) \in Nat /\ DOMAIN path = 1 .. Len(path)
    BY <1>2, SequenceShape
  <2>2. MerkleWalk(LeafHash(request.account_id, request.allocation), request.leaf_index, path)
          = Root(entries, depth)
    BY <1>2 DEF ProvesInclusion
  <2> HIDE DEF path
  <2> QED
    BY <2>1, <2>2, NothingElseProves
<1> QED
  BY <1>1, <1>2

-----------------------------------------------------------------------------
(* The script's loops.  Their invariant, clause by clause: what is kept,   *)
(* what the leaves are, how a level comes of the one below, what each      *)
(* stage has reached, and what has been printed.                           *)
Kept ==
    /\ list \in Lists
    /\ IsSequence(levels) /\ Len(levels) # 0
    /\ \A k \in 1 .. Len(levels) : IsSequence(levels[k])
    /\ IsSequence(lines)

LeavesOfList ==
    /\ Len(list) <= Len(levels[1])
    /\ Len(levels[1]) = Len(list) \/ Len(levels[1]) <= Width
    /\ \A i \in 1 .. Len(levels[1]) : levels[1][i] = Leaf(list, i - 1)

Halves(below, above) ==
    /\ Len(below) = 2 * Len(above)
    /\ \A i \in 1 .. Len(above) : above[i] = NodeHash(below[2 * i - 1], below[2 * i])

LevelsHalve == \A k \in 1 .. Len(levels) - 1 : Halves(levels[k], levels[k + 1])

Staged ==
    /\ pc = "pad" => Len(levels) = 1
    /\ pc \in {"hash", "print", "done"} =>
          /\ Len(levels[1]) >= Width
          /\ Len(list) <= Width => \E e \in Nat : Len(Top) = 2^e
    /\ pc \in {"print", "done"} => Len(Top) = 1
    /\ pc = "failed" => list = <<>> \/ Len(list) > Width

LineOf(i) ==
    [ leaf_index |-> i - 1, account_id |-> list[i].account_id, allocation |-> list[i].allocation,
      merkle_path |-> PathFromLevels(i - 1) ]

LinesPrinted ==
    /\ pc \notin {"print", "done"} => lines = <<>>
    /\ Len(lines) <= Len(list)
    /\ \A i \in 1 .. Len(lines) : lines[i] = LineOf(i)

TInv == Kept /\ LeavesOfList /\ LevelsHalve /\ Staged /\ LinesPrinted

LEMMA SequenceOfOne ==
    ASSUME NEW x
    PROVE  IsSequence(<<x>>) /\ Len(<<x>>) = 1 /\ <<x>>[1] = x
<1>1. <<x>> \in Seq({x}) /\ Len(<<x>>) = 1 /\ <<x>>[1] = x
  OBVIOUS
<1>2. <<x>> \in Seq(Range(<<x>>))
  BY <1>1, SeqOfRange
<1> QED
  BY <1>1, <1>2 DEF IsSequence

LEMMA ListsAreSequences ==
    ASSUME Kept
    PROVE  /\ Len(list) \in Nat /\ DOMAIN list = 1 .. Len(list)
           /\ Len(levels) \in Nat \ {0} /\ DOMAIN levels = 1 .. Len(levels)
           /\ \A k \in 1 .. Len(levels) :
                Len(levels[k]) \in Nat /\ DOMAIN levels[k] = 1 .. Len(levels[k])
           /\ Len(Top) \in Nat /\ DOMAIN Top = 1 .. Len(Top) /\ IsSequence(Top)
           /\ Len(lines) \in Nat /\ DOMAIN lines = 1 .. Len(lines)
<1>1. IsSequence(list)
  BY ListsAssumption DEF Kept, IsSequence
<1>2. Len(levels) \in Nat \ {0} /\ DOMAIN levels = 1 .. Len(levels)
  BY SequenceShape DEF Kept
<1>3. \A k \in 1 .. Len(levels) :
        Len(levels[k]) \in Nat /\ DOMAIN levels[k] = 1 .. Len(levels[k])
  BY SequenceShape DEF Kept
<1>4. IsSequence(Top)
  BY <1>2 DEF Kept, Top
<1> QED
  BY <1>1, <1>2, <1>3, <1>4, SequenceShape DEF Kept

LEMMA WidthIsNumber == Width \in Nat \ {0}
<1>1. PICK n \in 0 .. Width : Width = 2^n
  BY TreeWidthAssumption
<1> QED
  BY <1>1, TwoOrMore

LEMMA TreeInit ==
    ASSUME Init
    PROVE  TInv
<1> DEFINE leaves == [i \in DOMAIN list |-> LeafHash(list[i].account_id, list[i].allocation)]
<1>1. IsSequence(list) /\ Len(list) \in Nat /\ DOMAIN list = 1 .. Len(list)
  <2>1. IsSequence(list)
    BY ListsAssumption DEF Init, IsSequence
  <2> QED
    BY <2>1, SequenceShape
<1>2. IsSequence(leaves) /\ Len(leaves) = Len(list)
  <2>1. DOMAIN leaves = 1 .. Len(list) /\ leaves = [i \in 1 .. Len(list) |-> leaves[i]]
    BY <1>1
  <2> HIDE DEF leaves
  <2> QED
    BY <1>1, <2>1, SequenceFromFunction
<1>3. \A i \in 1 .. Len(list) : leaves[i] = Leaf(list, i - 1)
  <2> SUFFICES ASSUME NEW i \in 1 .. Len(list) PROVE leaves[i] = Leaf(list, i - 1)
    OBVIOUS
  <2>1. Leaf(list, i - 1) = LeafHash(list[i].account_id, list[i].allocation)
    BY <1>1, LeafOfEntry
  <2>2. leaves[i] = LeafHash(list[i].account_id, list[i].allocation)
    BY <1>1
  <2> QED
    BY <2>1, <2>2, Zenon
<1>4. levels = <<leaves>> /\ IsSequence(<<leaves>>) /\ Len(<<leaves>>) = 1 /\ <<leaves>>[1] = leaves
  BY SequenceOfOne DEF Init
<1> HIDE DEF leaves
<1>5. IsSequence(lines) /\ Len(lines) = 0
  <2>1. lines \in Seq({}) /\ Len(lines) = 0
    BY DEF Init
  <2> QED
    BY <2>1, SeqOfRange DEF IsSequence
<1>6. Kept
  <2>1. \A k \in 1 .. Len(levels) : IsSequence(levels[k])
    BY <1>2, <1>4
  <2> QED
    BY <1>4, <1>5, <2>1 DEF Kept, Init
<1>7. LeavesOfList
  BY <1>1, <1>2, <1>3, <1>4 DEF LeavesOfList
<1>8. LevelsHalve
  BY <1>4 DEF LevelsHalve
<1>9. Staged
  BY <1>4 DEF Staged, Init
<1>10. LinesPrinted
  BY <1>1, <1>5 DEF LinesPrinted, Init
<1> QED
  BY <1>6, <1>7, <1>8, <1>9, <1>10 DEF TInv

(* A step that leaves the levels alone keeps what is said of them.         *)
LEMMA LevelsAlone ==
    ASSUME TInv, UNCHANGED <<list, levels>>, IsSequence(lines')
    PROVE  Kept' /\ LeavesOfList' /\ LevelsHalve'
BY DEF TInv, Kept, LeavesOfList, LevelsHalve

LEMMA LinesAlone ==
    ASSUME TInv, UNCHANGED <<list, levels, lines>>,
           pc' \notin {"print", "done"} => pc \notin {"print", "done"}
    PROVE  LinesPrinted'
BY DEF TInv, LinesPrinted, LineOf, PathFromLevels

LEMMA PadKeeps ==
    ASSUME TInv, Pad
    PROVE  TInv'
<1> DEFINE n == Len(levels[1])
           padded == Append(levels[1], levels[1][n])
<1>0. Kept /\ LeavesOfList /\ Staged /\ LinesPrinted
  BY DEF TInv
<1>1. /\ Len(list) \in Nat /\ n \in Nat /\ Len(levels) = 1 /\ Top = levels[1]
      /\ IsSequence(levels[1]) /\ n < Width /\ levels[1] # <<>>
  <2>1. Len(levels) = 1 /\ Top = levels[1]
    BY <1>0 DEF Staged, Pad, Top
  <2> QED
    BY <1>0, <2>1, ListsAreSequences, Zenon DEF Pad
<1>2. n # 0
  BY <1>1, EmptySeq DEF IsSequence
<1>3. levels' = <<padded>> /\ list' = list /\ lines' = lines /\ pc' = pc /\ pc = "pad"
  BY <1>1 DEF Pad, Last
<1>4. /\ IsSequence(padded) /\ Len(padded) = n + 1
      /\ \A i \in 1 .. n : padded[i] = levels[1][i]
      /\ padded[n + 1] = levels[1][n]
  BY <1>1, SequenceLonger
<1>5. IsSequence(levels') /\ Len(levels') = 1 /\ levels'[1] = padded
  BY <1>3, SequenceOfOne
<1>6. Leaf(list, n) = levels[1][n]
  <2>1. Len(list) <= n /\ levels[1][n] = Leaf(list, n - 1)
    BY <1>0, <1>1, <1>2 DEF LeavesOfList
  <2>2. (IF n - 1 < Len(list) THEN (n - 1) + 1 ELSE Len(list))
          = (IF n < Len(list) THEN n + 1 ELSE Len(list))
    BY <1>1, <2>1
  <2> QED
    BY <2>1, <2>2, Zenon DEF Leaf
<1>7. \A i \in 1 .. n + 1 : padded[i] = Leaf(list, i - 1)
  <2> SUFFICES ASSUME NEW i \in 1 .. n + 1 PROVE padded[i] = Leaf(list, i - 1)
    OBVIOUS
  <2>1. CASE i \in 1 .. n
    BY <1>0, <1>4, <2>1 DEF LeavesOfList
  <2>2. CASE i = n + 1
    <3>1. i - 1 = n
      BY <1>1, <2>2
    <3> QED
      BY <1>4, <1>6, <2>2, <3>1, Zenon
  <2> QED
    BY <1>1, <2>1, <2>2
<1> HIDE DEF padded, n
<1>8. Kept'
  BY <1>0, <1>3, <1>4, <1>5 DEF Kept
<1>9. LeavesOfList'
  <2>1. Len(list) <= n
    BY <1>0 DEF LeavesOfList, n
  <2>2. Len(list) <= n + 1 /\ n + 1 <= Width
    BY <1>1, <2>1, WidthIsNumber
  <2> QED
    BY <1>3, <1>4, <1>5, <1>7, <2>2 DEF LeavesOfList
<1>10. LevelsHalve'
  BY <1>5 DEF LevelsHalve
<1>11. Staged'
  BY <1>3, <1>5 DEF Staged
<1>12. LinesPrinted'
  <2>1. lines = <<>> /\ Len(lines) = 0
    BY <1>0, <1>3 DEF LinesPrinted
  <2> QED
    BY <1>1, <1>3, <2>1 DEF LinesPrinted
<1> QED
  BY <1>8, <1>9, <1>10, <1>11, <1>12 DEF TInv

LEMMA HashLevelKeeps ==
    ASSUME TInv, HashLevel
    PROVE  TInv'
<1> DEFINE n == Len(levels)
           half == Len(Top) \div 2
           above == [i \in 1 .. half |-> NodeHash(Top[2 * i - 1], Top[2 * i])]
<1>0. Kept /\ LeavesOfList /\ LevelsHalve /\ Staged /\ LinesPrinted
  BY DEF TInv
<1>1. /\ n \in Nat \ {0} /\ Top = levels[n] /\ Len(Top) \in Nat
      /\ Len(Top) > 1 /\ Len(Top) = 2 * half /\ half \in Nat
  <2>1. n \in Nat \ {0} /\ Len(Top) \in Nat
    BY <1>0, ListsAreSequences
  <2>2. Len(Top) > 1 /\ Len(Top) % 2 = 0
    BY DEF HashLevel
  <2>3. Len(Top) = 2 * half /\ half \in Nat
    BY <2>1, <2>2
  <2>4. Top = levels[n]
    BY DEF Top
  <2> HIDE DEF half, n, above
  <2> QED
    BY <2>1, <2>2, <2>3, <2>4
<1>2. levels' = Append(levels, above) /\ list' = list /\ lines' = lines /\ pc' = pc /\ pc = "hash"
  BY DEF HashLevel
<1>3. /\ IsSequence(above) /\ Len(above) = half
      /\ \A i \in 1 .. half : above[i] = NodeHash(Top[2 * i - 1], Top[2 * i])
  <2>1. DOMAIN above = 1 .. half /\ above = [i \in 1 .. half |-> above[i]]
    OBVIOUS
  <2>2. \A i \in 1 .. half : above[i] = NodeHash(Top[2 * i - 1], Top[2 * i])
    OBVIOUS
  <2> HIDE DEF above
  <2> QED
    BY <1>1, <2>1, <2>2, SequenceFromFunction
<1> HIDE DEF above, half, n
<1>4. /\ IsSequence(levels') /\ Len(levels') = n + 1
      /\ \A i \in 1 .. n : levels'[i] = levels[i]
      /\ levels'[n + 1] = above
  BY <1>0, <1>2, SequenceLonger DEF Kept, n
<1>5. Kept'
  <2>1. \A k \in 1 .. Len(levels') : IsSequence(levels'[k])
    <3> SUFFICES ASSUME NEW k \in 1 .. n + 1 PROVE IsSequence(levels'[k])
      BY <1>4
    <3>1. CASE k \in 1 .. n
      BY <1>0, <1>4, <3>1 DEF Kept, n
    <3>2. CASE k = n + 1
      BY <1>3, <1>4, <3>2
    <3> QED
      BY <1>1, <3>1, <3>2
  <2> QED
    BY <1>0, <1>1, <1>2, <1>4, <2>1 DEF Kept
<1>6. LeavesOfList'
  <2>1. levels'[1] = levels[1]
    BY <1>1, <1>4
  <2> QED
    BY <1>0, <1>2, <2>1 DEF LeavesOfList
<1>7. LevelsHalve'
  <2> SUFFICES ASSUME NEW k \in 1 .. n PROVE Halves(levels'[k], levels'[k + 1])
    BY <1>1, <1>4 DEF LevelsHalve, Halves
  <2>1. CASE k = n
    <3>1. Halves(Top, above)
      BY <1>1, <1>3 DEF Halves
    <3>2. levels'[k] = Top /\ levels'[k + 1] = above
      BY <1>1, <1>4, <2>1
    <3> QED
      BY <3>1, <3>2, Zenon
  <2>2. CASE k # n
    <3>1. k \in 1 .. n - 1 /\ k \in 1 .. n /\ k + 1 \in 1 .. n
      BY <1>1, <2>2
    <3>2. Halves(levels[k], levels[k + 1])
      BY <1>0, <3>1 DEF LevelsHalve, n
    <3>3. levels'[k] = levels[k] /\ levels'[k + 1] = levels[k + 1]
      BY <1>4, <3>1
    <3> QED
      BY <3>2, <3>3, Zenon
  <2> QED
    BY <2>1, <2>2
<1>8. Staged'
  <2>1. Len(levels'[1]) >= Width
    <3>1. levels'[1] = levels[1] /\ Len(levels[1]) >= Width
      BY <1>0, <1>1, <1>2, <1>4 DEF Staged
    <3> QED
      BY <3>1, Zenon
  <2>2. ASSUME Len(list') <= Width PROVE \E e \in Nat : Len(Top') = 2^e
    <3>1. PICK e \in Nat : Len(Top) = 2^e
      BY <1>0, <1>2, <2>2 DEF Staged
    <3>2. e # 0
      <4> SUFFICES ASSUME e = 0 PROVE FALSE
        OBVIOUS
      <4>1. 2^0 = 1
        OBVIOUS
      <4>2. Len(Top) = 1
        BY <3>1, <4>1, Zenon
      <4>3. ~ (1 > 1)
        OBVIOUS
      <4>4. Len(Top) > 1
        BY <1>1, Zenon
      <4> QED
        BY <4>2, <4>3, <4>4, Zenon
    <3>3. PICK f \in Nat : e = f + 1
      BY <3>2
    <3>4. 2^e = 2 * 2^f /\ 2^f \in Nat
      BY <3>3, TwoOrMore
    <3>5. half = 2^f
      <4> DEFINE power == 2^f
      <4>1. 2 * half = 2 * power /\ power \in Nat
        BY <1>1, <3>1, <3>4
      <4> HIDE DEF power
      <4>2. half = power
        BY <1>1, <4>1
      <4> QED
        BY <4>2 DEF power
    <3>6. Top' = above
      <4>1. Top' = levels'[Len(levels')]
        BY DEF Top
      <4> QED
        BY <1>4, <4>1, Zenon
    <3> QED
      BY <1>3, <3>5, <3>6, Zenon
  <2> QED
    BY <1>2, <2>1, <2>2 DEF Staged
<1>9. LinesPrinted'
  <2>1. lines = <<>> /\ Len(lines) = 0
    BY <1>0, <1>2 DEF LinesPrinted
  <2>2. Len(list) \in Nat
    BY <1>0, ListsAreSequences
  <2> QED
    BY <1>2, <2>1, <2>2 DEF LinesPrinted
<1> QED
  BY <1>5, <1>6, <1>7, <1>8, <1>9 DEF TInv

LEMMA PadNothingKeeps ==
    ASSUME TInv, PadNothing
    PROVE  TInv'
<1>1. Kept /\ LeavesOfList /\ Staged /\ LinesPrinted
  BY DEF TInv
<1>2. pc = "pad" /\ pc' = "failed" /\ UNCHANGED <<list, levels, lines>> /\ Top = <<>>
  BY DEF PadNothing, Fail
<1>3. Kept' /\ LeavesOfList' /\ LevelsHalve'
  BY <1>1, <1>2, LevelsAlone DEF Kept
<1>4. list = <<>>
  <2>1. Len(levels[1]) = 0
    <3>1. levels[1] = <<>>
      BY <1>1, <1>2 DEF Staged, Top
    <3> QED
      BY <3>1, EmptySeq
  <2>2. Len(list) = 0
    BY <1>1, <2>1, ListsAreSequences DEF LeavesOfList
  <2>3. IsSequence(list)
    BY <1>1, ListsAssumption DEF Kept, IsSequence
  <2> QED
    BY <2>2, <2>3, EmptySeq DEF IsSequence
<1>5. Staged'
  BY <1>2, <1>4 DEF Staged
<1>6. LinesPrinted'
  BY <1>2, LinesAlone
<1> QED
  BY <1>3, <1>5, <1>6 DEF TInv

LEMMA PaddedKeeps ==
    ASSUME TInv, Padded
    PROVE  TInv'
<1>1. Kept /\ LeavesOfList /\ Staged /\ LinesPrinted
  BY DEF TInv
<1>2. /\ pc = "pad" /\ pc' = "hash" /\ UNCHANGED <<list, levels, lines>>
      /\ Len(Top) >= Width /\ Top = levels[1] /\ Top' = Top
  BY <1>1 DEF Padded, Staged, Top
<1>3. Kept' /\ LeavesOfList' /\ LevelsHalve'
  BY <1>1, <1>2, LevelsAlone DEF Kept
<1>4. ASSUME Len(list) <= Width PROVE \E e \in Nat : Len(Top) = 2^e
  <2>1. Len(Top) = Width
    <3>1. Len(list) \in Nat /\ Len(Top) \in Nat
      BY <1>1, ListsAreSequences
    <3>2. Len(Top) = Len(list) \/ Len(Top) <= Width
      BY <1>1, <1>2 DEF LeavesOfList
    <3> QED
      BY <1>2, <1>4, <3>1, <3>2, WidthIsNumber
  <2>2. PICK n \in 0 .. Width : Width = 2^n
    BY TreeWidthAssumption
  <2>3. n \in Nat
    BY WidthIsNumber
  <2> QED
    BY <2>1, <2>2, <2>3
<1>5. Staged'
  BY <1>2, <1>4 DEF Staged
<1>6. LinesPrinted'
  BY <1>2, LinesAlone
<1> QED
  BY <1>3, <1>5, <1>6 DEF TInv

LEMMA HashOddLevelKeeps ==
    ASSUME TInv, HashOddLevel
    PROVE  TInv'
<1>1. Kept /\ LeavesOfList /\ Staged /\ LinesPrinted
  BY DEF TInv
<1>2. /\ pc = "hash" /\ pc' = "failed" /\ UNCHANGED <<list, levels, lines>>
      /\ Len(Top) > 1 /\ Len(Top) % 2 = 1
  BY DEF HashOddLevel, Fail
<1>3. Kept' /\ LeavesOfList' /\ LevelsHalve'
  BY <1>1, <1>2, LevelsAlone DEF Kept
<1>4. Len(list) > Width
  <2> SUFFICES ASSUME Len(list) <= Width PROVE FALSE
    BY <1>1, ListsAreSequences, WidthIsNumber
  <2>1. PICK e \in Nat : Len(Top) = 2^e
    BY <1>1, <1>2 DEF Staged
  <2>2. CASE e = 0
    <3>1. 2^0 = 1
      OBVIOUS
    <3> QED
      BY <1>2, <2>1, <2>2, <3>1
  <2>3. CASE e # 0
    <3>1. PICK f \in Nat : e = f + 1
      BY <2>3
    <3> DEFINE power == 2^f
    <3>2. Len(Top) = 2 * power /\ power \in Nat
      BY <2>1, <3>1, TwoOrMore
    <3> HIDE DEF power
    <3> QED
      BY <1>2, <3>2
  <2> QED
    BY <2>2, <2>3
<1>5. Staged'
  BY <1>2, <1>4 DEF Staged
<1>6. LinesPrinted'
  BY <1>2, LinesAlone
<1> QED
  BY <1>3, <1>5, <1>6 DEF TInv

LEMMA RootFoundKeeps ==
    ASSUME TInv, RootFound
    PROVE  TInv'
<1>1. Kept /\ LeavesOfList /\ Staged /\ LinesPrinted
  BY DEF TInv
<1>2. /\ pc = "hash" /\ pc' = "print" /\ UNCHANGED <<list, levels, lines>>
      /\ Len(Top) = 1 /\ Top' = Top
  BY DEF RootFound, Top
<1>3. Kept' /\ LeavesOfList' /\ LevelsHalve'
  BY <1>1, <1>2, LevelsAlone DEF Kept
<1>4. Staged'
  BY <1>1, <1>2 DEF Staged
<1>5. LinesPrinted'
  BY <1>2, LinesAlone
<1> QED
  BY <1>3, <1>4, <1>5 DEF TInv

LEMMA PrintLineKeeps ==
    ASSUME TInv, PrintLine
    PROVE  TInv'
<1> DEFINE n == Len(lines)
<1>1. Kept /\ LeavesOfList /\ Staged /\ LinesPrinted
  BY DEF TInv
<1>2. /\ pc = "print" /\ pc' = pc /\ UNCHANGED <<list, levels>> /\ Top' = Top
      /\ n \in Nat /\ Len(list) \in Nat /\ n < Len(list)
  BY <1>1, ListsAreSequences DEF PrintLine, Top
<1>3. lines' = Append(lines, LineOf(n + 1))
  <2>1. (n + 1) - 1 = n
    BY <1>2
  <2>2. LineOf(n + 1) = [ leaf_index  |-> n,
                          account_id  |-> list[n + 1].account_id,
                          allocation  |-> list[n + 1].allocation,
                          merkle_path |-> PathFromLevels(n) ]
    BY <2>1, Zenon DEF LineOf
  <2> QED
    BY <2>2, Zenon DEF PrintLine
<1>4. /\ IsSequence(lines') /\ Len(lines') = n + 1
      /\ \A i \in 1 .. n : lines'[i] = lines[i]
      /\ lines'[n + 1] = LineOf(n + 1)
  BY <1>1, <1>3, SequenceLonger DEF Kept
<1>5. Kept' /\ LeavesOfList' /\ LevelsHalve'
  BY <1>2, <1>4, LevelsAlone
<1>6. Staged'
  BY <1>1, <1>2 DEF Staged
<1>7. LinesPrinted'
  <2>1. \A i \in 1 .. n + 1 : lines'[i] = LineOf(i)
    <3> SUFFICES ASSUME NEW i \in 1 .. n + 1 PROVE lines'[i] = LineOf(i)
      OBVIOUS
    <3>1. CASE i = n + 1
      BY <1>4, <3>1
    <3>2. CASE i # n + 1
      <4>1. i \in 1 .. n
        BY <1>2, <3>2
      <4> QED
        BY <1>1, <1>4, <4>1 DEF LinesPrinted
    <3> QED
      BY <3>1, <3>2
  <2>2. \A i \in 1 .. n + 1 : (LineOf(i))' = LineOf(i)
    BY <1>2 DEF LineOf, PathFromLevels
  <2> HIDE DEF n
  <2>3. n + 1 <= Len(list)
    BY <1>2
  <2> QED
    BY <1>2, <1>4, <2>1, <2>2, <2>3 DEF LinesPrinted
<1> QED
  BY <1>5, <1>6, <1>7 DEF TInv

LEMMA FinishKeeps ==
    ASSUME TInv, Finish
    PROVE  TInv'
<1>1. Kept /\ LeavesOfList /\ Staged /\ LinesPrinted
  BY DEF TInv
<1>2. pc = "print" /\ pc' = "done" /\ UNCHANGED <<list, levels, lines>> /\ Top' = Top
  BY DEF Finish, Top
<1>3. Kept' /\ LeavesOfList' /\ LevelsHalve'
  BY <1>1, <1>2, LevelsAlone DEF Kept
<1>4. Staged'
  BY <1>1, <1>2 DEF Staged
<1>5. LinesPrinted'
  BY <1>2, LinesAlone
<1> QED
  BY <1>3, <1>4, <1>5 DEF TInv

LEMMA StutterKeeps ==
    ASSUME TInv, UNCHANGED vars
    PROVE  TInv'
BY DEF TInv, vars, Kept, LeavesOfList, LevelsHalve, Staged, LinesPrinted, Top, LineOf, PathFromLevels

THEOREM TInvHolds == Spec => []TInv
<1>1. Init => TInv
  BY TreeInit
<1>2. TInv /\ [Next]_vars => TInv'
  BY PadKeeps, PadNothingKeeps, PaddedKeeps, HashLevelKeeps, HashOddLevelKeeps, RootFoundKeeps,
     PrintLineKeeps, FinishKeeps, StutterKeeps DEF Next, Ended
<1> QED
  BY <1>1, <1>2, PTL DEF Spec

(* The script fails only on an empty list and on one that is longer than   *)
(* the padded tree is wide.                                                *)
THEOREM ScriptFailsOnlyOnMisfits == Spec => []FailsOnlyOnMisfits
<1>1. TInv => FailsOnlyOnMisfits
  BY DEF TInv, Staged, FailsOnlyOnMisfits
<1> QED
  BY <1>1, TInvHolds, PTL

-----------------------------------------------------------------------------
(* Once the root is found, the levels are those of the reference tree.     *)
Built == TInv /\ pc \in {"print", "done"}

Depth == Len(levels) - 1

LEMMA BuiltShape ==
    ASSUME Built
    PROVE  /\ Depth \in Nat /\ Len(levels) = Depth + 1
           /\ \A k \in 0 .. Depth : Len(levels[k + 1]) \in Nat
           /\ Len(levels[Depth + 1]) = 1 /\ Top = levels[Depth + 1]
           /\ \A k \in 1 .. Depth : Halves(levels[k], levels[k + 1])
<1>1. /\ Len(levels) \in Nat \ {0} /\ Len(Top) = 1 /\ Top = levels[Len(levels)]
      /\ \A k \in 1 .. Len(levels) : Len(levels[k]) \in Nat
  BY ListsAreSequences, Zenon DEF Built, TInv, Staged, Top
<1>2. \A k \in 1 .. Len(levels) - 1 : Halves(levels[k], levels[k + 1])
  BY DEF Built, TInv, LevelsHalve
<1>3. Depth \in Nat /\ Len(levels) = Depth + 1 /\ Len(levels) - 1 = Depth
  BY <1>1 DEF Depth
<1>4. \A k \in 0 .. Depth : k + 1 \in 1 .. Len(levels)
  BY <1>3
<1> QED
  BY <1>1, <1>2, <1>3, <1>4, Zenon

LEMMA LevelLengths ==
    ASSUME Built, NEW k \in 0 .. Depth
    PROVE  Len(levels[k + 1]) = 2^(Depth - k)
<1> DEFINE T == {j \in Nat : j <= Depth /\ Len(levels[Depth - j + 1]) # 2^j}
<1>0. Depth \in Nat
  BY BuiltShape
<1>1. 0 \notin T
  <2>1. Depth - 0 + 1 = Depth + 1 /\ 2^0 = 1
    BY <1>0
  <2>2. Len(levels[Depth + 1]) = 1
    BY BuiltShape
  <2> QED
    BY <2>1, <2>2
<1>2. ASSUME NEW j \in Nat, j + 1 \in T PROVE j \in T
  <2> SUFFICES ASSUME Len(levels[Depth - j + 1]) = 2^j PROVE FALSE
    BY <1>0, <1>2
  <2>1. PICK n \in 1 .. Depth : n = Depth - j /\ n = Depth - (j + 1) + 1
    <3>1. j + 1 <= Depth
      BY <1>2
    <3> QED
      BY <1>0, <3>1
  <2>2. Halves(levels[n], levels[n + 1])
    BY BuiltShape
  <2>3. Len(levels[n]) = 2 * Len(levels[n + 1])
    BY <2>2 DEF Halves
  <2>4. Len(levels[n + 1]) = 2^j /\ 2^(j + 1) = 2 * 2^j
    BY <2>1, TwoOrMore
  <2>5. Len(levels[n]) = 2^(j + 1)
    BY <2>3, <2>4, Zenon
  <2> QED
    BY <1>2, <2>1, <2>5
<1>3. T = {}
  <2> HIDE DEF T
  <2> QED
    BY <1>1, <1>2, NoLeastFailure DEF T
<1>4. Depth - k \in Nat /\ Depth - k <= Depth /\ Depth - (Depth - k) + 1 = k + 1
  BY <1>0
<1> QED
  BY <1>3, <1>4

LEMMA LevelsOfTree ==
    ASSUME Built, NEW k \in 0 .. Depth, NEW i \in 0 .. 2^(Depth - k) - 1
    PROVE  levels[k + 1][i + 1] = Tree(list, Depth)[k][i]
<1> DEFINE t == Tree(list, Depth)
           Same(j) == \A h \in 0 .. 2^(Depth - j) - 1 : levels[j + 1][h + 1] = t[j][h]
           T == {j \in Nat : j <= Depth /\ ~ Same(j)}
<1>0. Depth \in Nat
  BY BuiltShape
<1>1. 0 \notin T
  <2> SUFFICES ASSUME NEW h \in 0 .. 2^(Depth - 0) - 1 PROVE levels[0 + 1][h + 1] = t[0][h]
    OBVIOUS
  <2>1. Depth - 0 = Depth /\ 0 + 1 = 1 /\ 0 \in 0 .. Depth
    BY <1>0
  <2>2. 2^Depth \in Nat
    BY <1>0, TwoOrMore
  <2>3. Len(levels[1]) = 2^Depth
    <3>1. Len(levels[0 + 1]) = 2^(Depth - 0)
      BY <2>1, LevelLengths
    <3> QED
      BY <2>1, <3>1
  <2>4. h + 1 \in 1 .. Len(levels[1]) /\ (h + 1) - 1 = h /\ h \in 0 .. 2^Depth - 1
    BY <2>1, <2>2, <2>3
  <2>5. levels[1][h + 1] = Leaf(list, (h + 1) - 1)
    BY <2>4 DEF Built, TInv, LeavesOfList
  <2>6. \A e \in 0 .. 2^Depth - 1 : t[0][e] = Leaf(list, e)
    BY <1>0, TreeNodes
  <2> QED
    BY <2>1, <2>4, <2>5, <2>6, Zenon
<1>2. ASSUME NEW j \in Nat, j + 1 \in T PROVE j \in T
  <2> SUFFICES ASSUME Same(j), j + 1 <= Depth PROVE Same(j + 1)
    BY <1>0, <1>2
  <2> SUFFICES ASSUME NEW h \in 0 .. 2^(Depth - (j + 1)) - 1
               PROVE  levels[(j + 1) + 1][h + 1] = t[j + 1][h]
    OBVIOUS
  <2>1. PICK e \in Nat : e = Depth - (j + 1) /\ Depth - j = e + 1
    BY <1>0
  <2>2. j + 1 \in 1 .. Depth /\ j + 1 \in 0 .. Depth
    BY <1>0
  <2>3. /\ Halves(levels[j + 1], levels[(j + 1) + 1])
        /\ Len(levels[(j + 1) + 1]) = 2^(Depth - (j + 1))
    BY <2>2, BuiltShape, LevelLengths
  <2>4. 2^e \in Nat /\ 2^(e + 1) = 2 * 2^e
    BY TwoOrMore
  <2>5. h \in Nat /\ h < 2^e
    BY <2>1, <2>4
  <2> DEFINE p == 2^e
  <2>6. h + 1 \in 1 .. p /\ 2 * h \in 0 .. 2 * p - 1 /\ 2 * h + 1 \in 0 .. 2 * p - 1
        /\ 2 * (h + 1) - 1 = 2 * h + 1 /\ 2 * (h + 1) = (2 * h + 1) + 1
    BY <2>4, <2>5
  <2>7. levels[(j + 1) + 1][h + 1] =
           NodeHash(levels[j + 1][2 * (h + 1) - 1], levels[j + 1][2 * (h + 1)])
    <3>1. h + 1 \in 1 .. Len(levels[(j + 1) + 1])
      BY <2>1, <2>3, <2>6
    <3> QED
      BY <2>3, <3>1, Zenon DEF Halves
  <2>8. levels[j + 1][(2 * h) + 1] = t[j][2 * h] /\ levels[j + 1][(2 * h + 1) + 1] = t[j][2 * h + 1]
    <3>1. 2^(Depth - j) = 2 * p
      BY <2>1, <2>4
    <3>2. 2 * h \in 0 .. 2^(Depth - j) - 1 /\ 2 * h + 1 \in 0 .. 2^(Depth - j) - 1
      BY <2>6, <3>1, Zenon
    <3> QED
      BY <3>2
  <2>9. t[j + 1][h] = NodeHash(t[j][2 * h], t[j][2 * h + 1])
    <3>1. \A x \in 0 .. 2^(Depth - (j + 1)) - 1 : t[j + 1][x] = NodeHash(t[j][2 * x], t[j][2 * x + 1])
      BY <1>0, TreeNodes
    <3> QED
      BY <3>1
  <2> QED
    BY <2>6, <2>7, <2>8, <2>9, Zenon
<1>3. T = {}
  <2> HIDE DEF T
  <2> QED
    BY <1>1, <1>2, NoLeastFailure DEF T
<1>4. Same(k)
  BY <1>0, <1>3
<1> QED
  BY <1>4

(* The path printed with line i is the path of leaf i - 1.                 *)
LEMMA PrintedPath ==
    ASSUME Built, NEW i \in 1 .. Len(lines)
    PROVE  /\ lines[i].merkle_path = Path(list, Depth, i - 1)
           /\ i - 1 \in 0 .. 2^Depth - 1
           /\ i \in 1 .. Len(list) /\ Len(list) \in Nat
<1>1. /\ Kept /\ LeavesOfList /\ LinesPrinted
  BY DEF Built, TInv
<1>2. Depth \in Nat /\ Len(levels) = Depth + 1 /\ Len(levels) - 1 = Depth
  BY BuiltShape
<1>3. Len(levels[1]) = 2^Depth /\ 2^Depth \in Nat
  <2>1. 0 \in 0 .. Depth /\ 0 + 1 = 1 /\ Depth - 0 = Depth
    BY <1>2
  <2>2. Len(levels[0 + 1]) = 2^(Depth - 0)
    BY <2>1, LevelLengths
  <2> QED
    BY <1>2, <2>1, <2>2, TwoOrMore
<1>4. Len(list) \in Nat /\ Len(list) <= 2^Depth /\ Len(lines) \in Nat /\ Len(lines) <= Len(list)
  BY <1>1, <1>3, ListsAreSequences DEF LeavesOfList, LinesPrinted
<1>5. i \in 1 .. Len(list) /\ i - 1 \in 0 .. 2^Depth - 1
  <2> DEFINE p == 2^Depth
  <2>1. p \in Nat /\ Len(list) <= p
    BY <1>3, <1>4
  <2> HIDE DEF p
  <2>2. i \in 1 .. Len(list) /\ i - 1 \in 0 .. p - 1
    BY <1>4, <2>1
  <2> QED
    BY <2>2 DEF p
<1>6. lines[i].merkle_path = PathFromLevels(i - 1)
  <2>1. lines[i] = LineOf(i)
    BY <1>1 DEF LinesPrinted
  <2>2. LineOf(i).merkle_path = PathFromLevels(i - 1)
    BY DEF LineOf
  <2> QED
    BY <2>1, <2>2, Zenon
<1>7. ASSUME NEW k \in 1 .. Depth
      PROVE  levels[k][Sibling((i - 1) \div 2^(k - 1)) + 1] =
               Tree(list, Depth)[k - 1][Sibling((i - 1) \div 2^(k - 1))]
  <2>1. PICK j \in 0 .. Depth : j = k - 1 /\ j + 1 = k
    BY <1>2
  <2> DEFINE q == (i - 1) \div 2^j
             p == 2^(Depth - j)
  <2>2. q \in 0 .. p - 1
    BY <1>2, <1>5, AncestorsFit
  <2>3. PICK e \in Nat : p = 2 * e
    <3>1. PICK f \in Nat : Depth - j = f + 1
      <4>1. Depth - k \in Nat /\ Depth - j = (Depth - k) + 1
        BY <1>2, <2>1
      <4> QED
        BY <4>1
    <3>2. 2^(f + 1) = 2 * 2^f /\ 2^f \in Nat
      BY TwoOrMore
    <3> QED
      BY <3>1, <3>2
  <2> HIDE DEF q, p
  <2>4. Sibling(q) \in 0 .. p - 1
    BY <2>2, <2>3 DEF Sibling
  <2>5. levels[j + 1][Sibling(q) + 1] = Tree(list, Depth)[j][Sibling(q)]
    BY <2>4, LevelsOfTree DEF p
  <2> QED
    BY <2>1, <2>5, Zenon DEF q
<1>8. PathFromLevels(i - 1) = Path(list, Depth, i - 1)
  BY <1>2, <1>7 DEF PathFromLevels, Path
<1> QED
  BY <1>4, <1>5, <1>6, <1>8, Zenon

LEMMA BuiltRoot ==
    ASSUME Built
    PROVE  RootOf = Root(list, Depth) /\ Len(levels[1]) = 2^Depth
<1>1. /\ Depth \in Nat /\ Top = levels[Depth + 1] /\ Depth \in 0 .. Depth
      /\ 0 \in 0 .. Depth /\ 0 + 1 = 1 /\ Depth - 0 = Depth /\ Depth - Depth = 0
  BY BuiltShape
<1>2. Len(levels[0 + 1]) = 2^(Depth - 0)
  BY <1>1, LevelLengths
<1>3. 0 \in 0 .. 2^(Depth - Depth) - 1
  BY <1>1, TwoOrMore
<1>4. levels[Depth + 1][0 + 1] = Tree(list, Depth)[Depth][0]
  BY <1>1, <1>3, LevelsOfTree
<1>5. levels[Depth + 1][1] = Root(list, Depth)
  BY <1>1, <1>4, Zenon DEF Root
<1>6. Len(levels[1]) = 2^Depth
  BY <1>1, <1>2
<1> QED
  BY <1>1, <1>5, <1>6, Zenon DEF RootOf

(* Whatever the list: the tree the script builds and prints is the one     *)
(* that EligibilityTree defines.                                           *)
THEOREM ScriptBuildsTheTree == Spec => []AgreesWithReference
<1>1. ASSUME TInv, pc \in {"print", "done"} PROVE AgreesWithReference
  <2>1. Built
    BY <1>1 DEF Built
  <2>2. \A i \in DOMAIN lines : lines[i].merkle_path = Path(list, Depth, i - 1)
    <3>1. DOMAIN lines = 1 .. Len(lines)
      BY <1>1, ListsAreSequences DEF TInv
    <3> QED
      BY <2>1, <3>1, PrintedPath
  <2>3. RootOf = Root(list, Depth) /\ Len(levels[1]) = 2^Depth
    BY <2>1, BuiltRoot
  <2> QED
    BY <2>2, <2>3 DEF AgreesWithReference, Depth
<1>2. TInv => AgreesWithReference
  BY <1>1 DEF AgreesWithReference
<1> QED
  BY <1>2, TInvHolds, PTL

LEMMA PrintedWhenBuilt ==
    ASSUME TInv, NEW i \in DOMAIN lines
    PROVE  Built /\ i \in 1 .. Len(lines) /\ lines[i] = LineOf(i)
<1>1. DOMAIN lines = 1 .. Len(lines)
  BY ListsAreSequences DEF TInv
<1>2. lines # <<>>
  BY <1>1
<1> QED
  BY <1>1, <1>2 DEF TInv, LinesPrinted, Built

(* Every line the script prints is one the claim circuit accepts.          *)
THEOREM ScriptPathsProve == Spec => []PrintedPathsProve
<1>1. ASSUME TInv PROVE PrintedPathsProve
  <2> SUFFICES ASSUME NEW i \in DOMAIN lines PROVE Walk(lines[i]) = RootOf
    BY DEF PrintedPathsProve
  <2>1. Built /\ i \in 1 .. Len(lines) /\ lines[i] = LineOf(i)
    BY <1>1, PrintedWhenBuilt
  <2>2. /\ lines[i].merkle_path = Path(list, Depth, i - 1)
        /\ i - 1 \in 0 .. 2^Depth - 1
        /\ i \in 1 .. Len(list) /\ Len(list) \in Nat /\ Depth \in Nat
        /\ RootOf = Root(list, Depth)
    BY <2>1, PrintedPath, BuiltShape, BuiltRoot
  <2>3. Leaf(list, i - 1) = LeafHash(list[i].account_id, list[i].allocation)
    BY <2>2, LeafOfEntry
  <2>4. /\ lines[i].account_id = list[i].account_id /\ lines[i].allocation = list[i].allocation
        /\ lines[i].leaf_index = i - 1
    BY <2>1 DEF LineOf
  <2>5. Walk(lines[i]) = MerkleWalk(Leaf(list, i - 1), i - 1, Path(list, Depth, i - 1))
    BY <2>2, <2>3, <2>4, Zenon DEF Walk
  <2>6. MerkleWalk(Leaf(list, i - 1), i - 1, Path(list, Depth, i - 1)) = Root(list, Depth)
    BY <2>2, PathsProve
  <2> QED
    BY <2>2, <2>5, <2>6, Zenon
<1> QED
  BY <1>1, TInvHolds, PTL

(* No path the script prints proves a pair that the list does not have, of *)
(* accounts and amounts that it has.                                       *)
THEOREM ScriptPathsProveNothingElse == Spec => []PrintedPathsProveNothingElse
<1>1. ASSUME TInv PROVE PrintedPathsProveNothingElse
  <2> SUFFICES ASSUME NEW i \in DOMAIN lines, NEW a, NEW v, NEW x,
                      Walk([lines[i] EXCEPT !.account_id = a, !.allocation = v, !.leaf_index = x])
                        = RootOf
               PROVE  <<a, v>> \in Pairs(list)
    BY DEF PrintedPathsProveNothingElse
  <2>1. Built /\ i \in 1 .. Len(lines) /\ lines[i] = LineOf(i)
    BY <1>1, PrintedWhenBuilt
  <2> DEFINE path == Path(list, Depth, i - 1)
             line == [lines[i] EXCEPT !.account_id = a, !.allocation = v, !.leaf_index = x]
  <2>2. lines[i].merkle_path = path /\ RootOf = Root(list, Depth) /\ Depth \in Nat
        /\ i \in 1 .. Len(list) /\ Len(list) \in Nat
    BY <2>1, PrintedPath, BuiltShape, BuiltRoot
  <2>3. line.account_id = a /\ line.allocation = v /\ line.leaf_index = x
        /\ line.merkle_path = lines[i].merkle_path
    BY <2>1 DEF LineOf
  <2>4. MerkleWalk(LeafHash(a, v), x, path) = Root(list, Depth)
    BY <2>2, <2>3, Zenon DEF Walk
  <2>5. DOMAIN path = 1 .. Depth
    BY DEF Path
  <2>6. IsSequence(list) /\ Len(list) # 0
    <3>1. IsSequence(list)
      BY <1>1, ListsAssumption DEF TInv, Kept, IsSequence
    <3> QED
      BY <2>2, <3>1
  <2> HIDE DEF path
  <2> QED
    BY <2>2, <2>4, <2>5, <2>6, NothingElseProves
<1> QED
  BY <1>1, TInvHolds, PTL
=============================================================================
