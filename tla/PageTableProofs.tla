--------------------------- MODULE PageTableProofs -----------------------------
(***************************************************************************)
(* Proof that the page table is right for any number of frames, any number *)
(* of entries in a node and any targets: its nodes form a tree of exactly  *)
(* the frames it owns, and it is a partial map from pages to targets.      *)
(***************************************************************************)
EXTENDS PageTable, TLAPS

-------------------------------------------------------------------------------
(* The tree with root r in the memory m, made of the frames F.             *)

Memories == [Frame -> [Index -> Frame \cup Target \cup {empty}]]

(* The nodes that have nodes below them.                                   *)
Inner(m, r) == {r} \cup ({m[r][i] : i \in Index} \ {empty})

Tree(m, r, F) ==
  /\ r \in F
  /\ \A n \in Inner(m, r), i \in Index : m[n][i] # empty => m[n][i] \in F /\ m[n][i] # r
  /\ \A n, k \in Inner(m, r), i, j \in Index :
        m[n][i] = m[k][j] /\ m[n][i] # empty => n = k /\ i = j
  /\ \A f \in F : f = r \/ \E n \in Inner(m, r), i \in Index : m[n][i] = f

(* What the walk to a leaf entry finds.                                    *)
Leaf2(m, r, v) == m[m[r][v[1]]][v[2]]
Reaches(m, r, v) == m[r][v[1]] # empty /\ Leaf2(m, r, v) # empty
Lookup(m, r, v) == IF Reaches(m, r, v) THEN m[Leaf2(m, r, v)][v[3]] ELSE empty

BelowIn(m, n) == {m[n][i] : i \in Index} \ {empty}
Level2In(m, r) == UNION {BelowIn(m, n) : n \in {r}}
Level3In(m, r) == UNION {BelowIn(m, n) : n \in Level2In(m, r)}

(* The invariant speaks of levels, the proofs of inner nodes.              *)
LEMMA Levels ==
  ASSUME NEW m, NEW r, NEW F \in SUBSET Frame
  PROVE  (/\ F = {r} \cup Level2In(m, r) \cup Level3In(m, r)
          /\ r \notin Level2In(m, r) \cup Level3In(m, r)
          /\ Level2In(m, r) \cap Level3In(m, r) = {}
          /\ \A n, k \in {r} \cup Level2In(m, r) : \A i, j \in Index :
                m[n][i] = m[k][j] /\ is_valid(m[n][i]) => n = k /\ i = j)
         <=> Tree(m, r, F)
<1>1. Level2In(m, r) = BelowIn(m, r)
  BY DEF Level2In
<1>2. Inner(m, r) = {r} \cup Level2In(m, r)
  BY <1>1 DEF Inner, BelowIn
<1>3. \A x : x \in Level2In(m, r) <=> x # empty /\ \E i \in Index : m[r][i] = x
  BY <1>1 DEF BelowIn
<1>4. \A x : x \in Level3In(m, r)
         <=> x # empty /\ \E n \in Level2In(m, r) : \E i \in Index : m[n][i] = x
  BY DEF Level3In, BelowIn
<1> DEFINE L2 == Level2In(m, r)
           L3 == Level3In(m, r)
<1> HIDE DEF L2, L3
<1>5. ASSUME F = {r} \cup L2 \cup L3, r \notin L2 \cup L3, L2 \cap L3 = {},
             \A n, k \in {r} \cup L2 : \A i, j \in Index :
                m[n][i] = m[k][j] /\ is_valid(m[n][i]) => n = k /\ i = j
      PROVE  Tree(m, r, F)
  <2>1. \A n \in {r} \cup L2, i \in Index : m[n][i] # empty => m[n][i] \in L2 \cup L3
    BY <1>3, <1>4 DEF L2, L3
  <2>2. \A f \in L2 \cup L3 : \E n \in {r} \cup L2, i \in Index : m[n][i] = f
    BY <1>3, <1>4 DEF L2, L3
  <2>3. Inner(m, r) = {r} \cup L2
    BY <1>2 DEF L2
  <2> QED BY <1>5, <2>1, <2>2, <2>3 DEF Tree, is_valid
<1>6. ASSUME Tree(m, r, F)
      PROVE  /\ F = {r} \cup L2 \cup L3
             /\ r \notin L2 \cup L3
             /\ L2 \cap L3 = {}
             /\ \A n, k \in {r} \cup L2 : \A i, j \in Index :
                   m[n][i] = m[k][j] /\ is_valid(m[n][i]) => n = k /\ i = j
  <2>1. Inner(m, r) = {r} \cup L2
    BY <1>2 DEF L2
  <2>2. \A x : x \in L2 <=> x # empty /\ \E i \in Index : m[r][i] = x
    BY <1>3 DEF L2
  <2>3. \A x : x \in L3 <=> x # empty /\ \E n \in L2 : \E i \in Index : m[n][i] = x
    BY <1>4 DEF L2, L3
  <2>4. r \notin L2 \cup L3 /\ L2 \cup L3 \subseteq F
    BY <1>6, <2>1, <2>2, <2>3 DEF Tree
  <2>5. F \subseteq {r} \cup L2 \cup L3
    <3> SUFFICES ASSUME NEW f \in F PROVE f \in {r} \cup L2 \cup L3
      OBVIOUS
    <3>1. f # empty
      BY PageTableAssumption DEF empty
    <3> QED BY <1>6, <2>1, <2>2, <2>3, <3>1 DEF Tree
  <2>6. ASSUME NEW f \in L2, f \in L3 PROVE FALSE
    <3>1. PICK i \in Index : m[r][i] = f
      BY <2>2
    <3>2. PICK n \in L2, j \in Index : m[n][j] = f
      BY <2>3, <2>6
    <3>3. n # r /\ f # empty
      BY <2>2, <2>4
    <3> QED BY <1>6, <2>1, <3>1, <3>2, <3>3 DEF Tree
  <2>7. F = {r} \cup L2 \cup L3
    BY <1>6, <2>4, <2>5 DEF Tree
  <2>8. \A n, k \in {r} \cup L2 : \A i, j \in Index :
          m[n][i] = m[k][j] /\ is_valid(m[n][i]) => n = k /\ i = j
    BY <1>6, <2>1 DEF Tree, is_valid
  <2> QED BY <2>4, <2>6, <2>7, <2>8
<1> QED BY <1>5, <1>6 DEF L2, L3


(* The invariant of the module, as a statement about a memory, a root and  *)
(* a set of nodes.                                                         *)
LEMMA TreeNow ==
  ASSUME TypeOK, root_ppn # NoFrame
  PROVE  NodesFormATree <=> Tree(mem, root_ppn, frames)
<1>1. Level2 = Level2In(mem, root_ppn)
  BY DEF Level2, Level1, Below, Level2In, BelowIn
<1>2. Level3 = Level3In(mem, root_ppn)
  BY <1>1 DEF Level3, Below, Level3In, BelowIn
<1>3. frames \in SUBSET Frame
  BY DEF TypeOK
<1> QED BY <1>1, <1>2, <1>3, Levels DEF NodesFormATree, Level1

LEMMA TreeThen ==
  ASSUME TypeOK', root_ppn' # NoFrame => Tree(mem', root_ppn', frames')
  PROVE  NodesFormATree'
<1> SUFFICES ASSUME root_ppn' # NoFrame, Tree(mem', root_ppn', frames') PROVE NodesFormATree'
  BY DEF NodesFormATree
<1>1. Level2' = Level2In(mem', root_ppn')
  BY DEF Level2, Level1, Below, Level2In, BelowIn
<1>2. Level3' = Level3In(mem', root_ppn')
  BY <1>1 DEF Level3, Below, Level3In, BelowIn
<1>3. frames' \in SUBSET Frame
  BY DEF TypeOK
<1> QED BY <1>1, <1>2, <1>3, Levels DEF NodesFormATree, Level1

(* The nodes an inner entry can stand in: the root and the nodes the root  *)
(* leads to.                                                               *)
LEMMA InnerNodes ==
  ASSUME NEW m, NEW r, NEW n
  PROVE  n \in Inner(m, r) <=> n = r \/ (n # empty /\ \E i \in Index : m[r][i] = n)
BY DEF Inner

(* The nodes on the way to a leaf entry: an inner node, then a node with   *)
(* leaf entries, which is no inner node.                                   *)
LEMMA Path ==
  ASSUME NEW m \in Memories, NEW r, NEW F \in SUBSET Frame, Tree(m, r, F),
         NEW v \in Vpn, Reaches(m, r, v)
  PROVE  /\ m[r][v[1]] \in Inner(m, r) /\ m[r][v[1]] # r
         /\ Leaf2(m, r, v) \in F /\ Leaf2(m, r, v) \notin Inner(m, r)
<1>1. v[1] \in Index /\ v[2] \in Index
  BY DEF Vpn
<1>2. m[r][v[1]] \in Inner(m, r) /\ m[r][v[1]] # r /\ r \in Inner(m, r)
  BY <1>1, InnerNodes DEF Reaches, Tree
<1>3. Leaf2(m, r, v) \in F /\ Leaf2(m, r, v) # r
  BY <1>1, <1>2 DEF Leaf2, Reaches, Tree
<1>4. \A i \in Index : Leaf2(m, r, v) # m[r][i]
  BY <1>1, <1>2 DEF Leaf2, Reaches, Tree
<1> QED BY <1>2, <1>3, <1>4, InnerNodes

(* Writing anything but inner nodes keeps the tree.                        *)
LEMMA SameTree ==
  ASSUME NEW m \in Memories, NEW r, NEW F, Tree(m, r, F), NEW m2,
         \A n \in Inner(m, r) : m2[n] = m[n]
  PROVE  Tree(m2, r, F) /\ Inner(m2, r) = Inner(m, r)
<1>1. r \in Inner(m, r)
  BY DEF Inner
<1>2. m2[r] = m[r]
  BY <1>1
<1>3. Inner(m2, r) = Inner(m, r)
  BY <1>2 DEF Inner
<1> QED BY <1>3 DEF Tree

(* Two pages share a node with leaf entries only if they share the path.   *)
LEMMA SamePath ==
  ASSUME NEW m \in Memories, NEW r, NEW F \in SUBSET Frame, Tree(m, r, F),
         NEW u \in Vpn, Reaches(m, r, u), NEW v \in Vpn, Reaches(m, r, v),
         Leaf2(m, r, u) = Leaf2(m, r, v)
  PROVE  u[1] = v[1] /\ u[2] = v[2]
<1>1. /\ u[1] \in Index /\ u[2] \in Index /\ v[1] \in Index /\ v[2] \in Index
  BY DEF Vpn
<1>2. m[r][u[1]] \in Inner(m, r) /\ m[r][v[1]] \in Inner(m, r) /\ r \in Inner(m, r)
  BY Path, InnerNodes
<1>3. m[r][u[1]] = m[r][v[1]] /\ u[2] = v[2]
  BY <1>1, <1>2, SMTT(30) DEF Tree, Leaf2, Reaches
<1> QED BY <1>1, <1>2, <1>3 DEF Tree, Reaches

(* Writing a leaf entry changes what is found for its page only.           *)
LeafWritten(m, r, F, v, t, m2) ==
  /\ m2 \in Memories /\ Tree(m2, r, F)
  /\ \A u \in Vpn : Lookup(m2, r, u) = IF u = v THEN t ELSE Lookup(m, r, u)

(* Writing the entry of one page changes the translation of that page and  *)
(* of no other, and keeps the tree.                                        *)
LEMMA LeafWrite ==
  ASSUME NEW m \in Memories, NEW r, NEW F \in SUBSET Frame, Tree(m, r, F),
         NEW v \in Vpn, Reaches(m, r, v), NEW t \in Target \cup {empty},
         NEW m2, m2 = [m EXCEPT ![Leaf2(m, r, v)][v[3]] = t]
  PROVE  LeafWritten(m, r, F, v, t, m2)
<1> DEFINE e == Leaf2(m, r, v)
<1>1. e \in Frame /\ e \notin Inner(m, r) /\ v[3] \in Index
  BY Path DEF Vpn
<1> HIDE DEF e
<1>2. m2 = [m EXCEPT ![e][v[3]] = t]
  BY DEF e
<1>3. m2 \in Memories
  <2> DEFINE Node == [Index -> Frame \cup Target \cup {empty}]
             row == [m[e] EXCEPT ![v[3]] = t]
  <2>1. row \in Node /\ m \in [Frame -> Node]
    BY <1>1 DEF Memories
  <2>2. m2 = [m EXCEPT ![e] = row]
    BY <1>2
  <2> HIDE DEF Node, row
  <2>3. m2 \in [Frame -> Node]
    BY <1>1, <2>1, <2>2
  <2> QED BY <2>3 DEF Node, Memories
<1>4. /\ \A n \in Frame \ {e} : m2[n] = m[n]
      /\ m2[e][v[3]] = t /\ \A i \in Index \ {v[3]} : m2[e][i] = m[e][i]
  BY <1>1, <1>2 DEF Memories
<1>5. Inner(m, r) \subseteq Frame
  BY InnerNodes DEF Tree
<1>6. \A n \in Inner(m, r) : m2[n] = m[n]
  BY <1>1, <1>4, <1>5
<1>7. Tree(m2, r, F) /\ Inner(m2, r) = Inner(m, r) /\ r \in Inner(m, r)
  BY <1>6, SameTree, InnerNodes
<1>8. ASSUME NEW u \in Vpn
      PROVE  Lookup(m2, r, u) = IF u = v THEN t ELSE Lookup(m, r, u)
  <2>1. u[1] \in Index /\ u[2] \in Index /\ u[3] \in Index
    BY DEF Vpn
  <2>2. m2[r][u[1]] = m[r][u[1]]
    BY <1>6, <1>7
  <2>3. m[r][u[1]] # empty => m[r][u[1]] \in Inner(m, r)
    BY <2>1, InnerNodes
  <2>4. m[r][u[1]] # empty => Leaf2(m2, r, u) = Leaf2(m, r, u)
    BY <1>6, <2>2, <2>3 DEF Leaf2
  <2>5. Reaches(m2, r, u) <=> Reaches(m, r, u)
    BY <2>2, <2>4 DEF Reaches
  <2>6. CASE u = v
    BY <1>4, <2>4, <2>5, <2>6 DEF Lookup, Reaches, e
  <2>7. CASE u # v /\ ~Reaches(m, r, u)
    BY <2>5, <2>7 DEF Lookup
  <2>8. CASE u # v /\ Reaches(m, r, u)
    <3>1. Leaf2(m, r, u) \in Frame /\ Leaf2(m2, r, u) = Leaf2(m, r, u)
      BY <2>4, <2>8, Path DEF Reaches
    <3>2. Leaf2(m, r, u) = e => u[3] # v[3]
      <4> SUFFICES ASSUME Leaf2(m, r, u) = e, u[3] = v[3] PROVE FALSE
        OBVIOUS
      <4>1. u[1] = v[1] /\ u[2] = v[2]
        BY <2>8, SamePath DEF e
      <4> QED BY <2>8, <4>1 DEF Vpn
    <3>3. m2[Leaf2(m, r, u)][u[3]] = m[Leaf2(m, r, u)][u[3]]
      BY <1>4, <2>1, <3>1, <3>2
    <3> QED BY <2>5, <2>8, <3>1, <3>3 DEF Lookup
  <2> QED BY <2>6, <2>7, <2>8
<1> QED BY <1>3, <1>7, <1>8 DEF LeafWritten


(* A new empty node f at entry i of the inner node n.                      *)
Grown(m, m2, F, n, i, f) ==
  /\ m2[n][i] = f /\ \A j \in Index : m2[f][j] = empty
  /\ \A k \in F, j \in Index : k # n \/ j # i => m2[k][j] = m[k][j]

GrowsTo(m, r, F, n, f, m2) ==
  /\ Tree(m2, r, F \cup {f}) /\ n \in Inner(m2, r)
  /\ \A j \in Index : m[r][j] # empty => m2[r][j] = m[r][j]
  /\ \A v \in Vpn : Lookup(m2, r, v) = Lookup(m, r, v)

(* A zeroed frame from outside the table, hung into an empty entry, keeps  *)
(* the tree and every translation.                                         *)
LEMMA GrowTree ==
  ASSUME NEW m \in Memories, NEW r, NEW F \in SUBSET Frame, Tree(m, r, F),
         NEW n \in Inner(m, r), NEW i \in Index, m[n][i] = empty,
         NEW f \in Frame \ F, NEW m2 \in Memories, Grown(m, m2, F, n, i, f)
  PROVE  GrowsTo(m, r, F, n, f, m2)
<1>1. Inner(m, r) \subseteq F /\ r \in Inner(m, r) /\ f # empty
  BY InnerNodes, PageTableAssumption DEF Tree, empty
<1>2. n \in Frame /\ n # f /\ n \in F
  BY <1>1
<1>3. m2[n][i] = f /\ \A j \in Index : m2[f][j] = empty
  BY DEF Grown
<1>4. ASSUME NEW k \in F, NEW j \in Index
      PROVE  m2[k][j] = IF k = n /\ j = i THEN f ELSE m[k][j]
  <2>1. CASE k = n /\ j = i
    BY <1>3, <2>1
  <2>2. CASE k # n \/ j # i
    BY <2>2 DEF Grown
  <2> QED BY <2>1, <2>2
<1>5. Inner(m2, r) = Inner(m, r) \cup (IF n = r THEN {f} ELSE {})
  <2>1. \A x : x \in Inner(m2, r) <=> x = r \/ (x # empty /\ \E j \in Index : m2[r][j] = x)
    BY DEF Inner
  <2>2. \A x : x \in Inner(m, r) <=> x = r \/ (x # empty /\ \E j \in Index : m[r][j] = x)
    BY DEF Inner
  <2>3. \A j \in Index : m2[r][j] = IF r = n /\ j = i THEN f ELSE m[r][j]
    BY <1>1, <1>4
  <2>4. ASSUME NEW x PROVE x \in Inner(m2, r) <=> x \in Inner(m, r) \/ (n = r /\ x = f)
    <3>1. CASE n # r
      <4>1. \A j \in Index : m2[r][j] = m[r][j]
        BY <2>3, <3>1
      <4> QED BY <2>1, <2>2, <3>1, <4>1
    <3>2. CASE n = r
      <4>1. m2[r][i] = f /\ m[r][i] = empty /\ \A j \in Index \ {i} : m2[r][j] = m[r][j]
        BY <2>3, <3>2
      <4>2. f # empty
        BY <1>1
      <4>3. (\E j \in Index : m2[r][j] = x) <=> (x = f \/ \E j \in Index \ {i} : m[r][j] = x)
        BY <4>1
      <4>4. x # empty => ((\E j \in Index : m[r][j] = x) <=> (\E j \in Index \ {i} : m[r][j] = x))
        BY <4>1
      <4> QED BY <2>1, <2>2, <3>2, <4>2, <4>3, <4>4
    <3> QED BY <3>1, <3>2
  <2> QED BY <2>4
<1>6. \A k \in Inner(m2, r) : k \in Inner(m, r) \/ k = f
  BY <1>5
<1>7. ASSUME NEW k \in Inner(m2, r), NEW j \in Index, m2[k][j] # empty
       PROVE  /\ k \in Inner(m, r)
              /\ m2[k][j] = IF k = n /\ j = i THEN f ELSE m[k][j]
  BY <1>1, <1>3, <1>4, <1>6, <1>7
<1>8. Tree(m2, r, F \cup {f})
  <2>1. \A k \in Inner(m2, r), j \in Index :
          m2[k][j] # empty => m2[k][j] \in F \cup {f} /\ m2[k][j] # r
    BY <1>1, <1>7 DEF Tree
  <2>2. \A k, l \in Inner(m2, r), j, h \in Index :
          m2[k][j] = m2[l][h] /\ m2[k][j] # empty => k = l /\ j = h
    <3> SUFFICES ASSUME NEW k \in Inner(m2, r), NEW l \in Inner(m2, r),
                        NEW j \in Index, NEW h \in Index,
                        m2[k][j] = m2[l][h], m2[k][j] # empty
                 PROVE  k = l /\ j = h
      OBVIOUS
    <3>1. /\ k \in Inner(m, r) /\ m2[k][j] = IF k = n /\ j = i THEN f ELSE m[k][j]
          /\ l \in Inner(m, r) /\ m2[l][h] = IF l = n /\ h = i THEN f ELSE m[l][h]
      BY <1>7
    <3>2. \A x \in Inner(m, r), y \in Index : m[x][y] # f
      BY <1>1 DEF Tree
    <3>3. CASE k = n /\ j = i
      BY <3>1, <3>2, <3>3
    <3>4. CASE l = n /\ h = i
      BY <3>1, <3>2, <3>4
    <3>5. CASE ~(k = n /\ j = i) /\ ~(l = n /\ h = i)
      <4>1. m[k][j] = m[l][h] /\ m[k][j] # empty
        BY <3>1, <3>5
      <4> QED BY <3>1, <4>1 DEF Tree
    <3> QED BY <3>3, <3>4, <3>5
  <2>3. ASSUME NEW x \in F \cup {f}
        PROVE  x = r \/ \E k \in Inner(m2, r), j \in Index : m2[k][j] = x
    <3>1. CASE x = f
      BY <1>3, <1>5, <3>1
    <3>2. CASE x \in F /\ x # r
      <4>1. PICK k \in Inner(m, r), j \in Index : m[k][j] = x
        BY <3>2 DEF Tree
      <4>2. x # empty /\ k \in F /\ k \in Inner(m2, r)
        BY <1>1, <1>5, <3>2, <4>1, PageTableAssumption DEF empty
      <4>3. m2[k][j] = x
        BY <1>4, <4>1, <4>2
      <4> QED BY <4>2, <4>3
    <3> QED BY <3>1, <3>2
  <2>4. r \in F \cup {f}
    BY DEF Tree
  <2> QED BY <2>1, <2>2, <2>3, <2>4 DEF Tree
<1>9. \A j \in Index : m[r][j] # empty => m2[r][j] = m[r][j]
  BY <1>1, <1>4
<1>10. ASSUME NEW v \in Vpn PROVE Lookup(m2, r, v) = Lookup(m, r, v)
  <2>1. v[1] \in Index /\ v[2] \in Index /\ v[3] \in Index
    BY DEF Vpn
  <2>2. m2[r][v[1]] = IF r = n /\ v[1] = i THEN f ELSE m[r][v[1]]
    BY <1>1, <1>4, <2>1
  <2>3. CASE r = n /\ v[1] = i
    <3>1. m[r][v[1]] = empty /\ m2[m2[r][v[1]]][v[2]] = empty
      BY <1>3, <2>1, <2>2, <2>3
    <3> QED BY <3>1 DEF Lookup, Reaches, Leaf2
  <2>4. CASE ~(r = n /\ v[1] = i) /\ m[r][v[1]] = empty
    BY <2>2, <2>4 DEF Lookup, Reaches
  <2>5. CASE ~(r = n /\ v[1] = i) /\ m[r][v[1]] # empty
    <3> DEFINE e == m[r][v[1]]
    <3>1. m2[r][v[1]] = e /\ e \in Inner(m, r) /\ e # empty
      BY <2>1, <2>2, <2>5, InnerNodes
    <3> HIDE DEF e
    <3>2. m2[e][v[2]] = IF e = n /\ v[2] = i THEN f ELSE m[e][v[2]]
      BY <1>1, <1>4, <2>1, <3>1
    <3>3. /\ Leaf2(m2, r, v) = m2[e][v[2]] /\ Leaf2(m, r, v) = m[e][v[2]]
          /\ Reaches(m2, r, v) <=> m2[e][v[2]] # empty
          /\ Reaches(m, r, v) <=> m[e][v[2]] # empty
      BY <3>1 DEF e, Reaches, Leaf2
    <3>4. CASE e = n /\ v[2] = i
      <4>1. m2[e][v[2]] = f /\ m[e][v[2]] = empty
        BY <3>2, <3>4
      <4> QED BY <1>1, <1>3, <2>1, <3>3, <4>1 DEF Lookup
    <3>5. CASE ~(e = n /\ v[2] = i) /\ m[e][v[2]] = empty
      BY <3>2, <3>3, <3>5 DEF Lookup
    <3>6. CASE ~(e = n /\ v[2] = i) /\ m[e][v[2]] # empty
      <4> DEFINE d == m[e][v[2]]
      <4>1. d \in F /\ d \notin Inner(m, r)
        <5>1. Reaches(m, r, v)
          BY <3>3, <3>6
        <5> QED BY <3>3, <5>1, Path
      <4>2. m2[e][v[2]] = d
        BY <3>2, <3>6
      <4> HIDE DEF d
      <4>3. m2[d][v[3]] = m[d][v[3]]
        BY <1>4, <2>1, <4>1
      <4> QED BY <3>3, <3>6, <4>2, <4>3 DEF Lookup, d
    <3> QED BY <3>4, <3>5, <3>6
  <2> QED BY <2>3, <2>4, <2>5
<1>11. n \in Inner(m2, r)
  BY <1>5
<1> QED BY <1>8, <1>9, <1>10, <1>11 DEF GrowsTo

(* find_pte_create's new node is such a frame, whatever was in it.         *)
LEMMA Grow ==
  ASSUME NEW m \in Memories, NEW r, NEW F \in SUBSET Frame, Tree(m, r, F),
         NEW n \in Inner(m, r), NEW i \in Index, m[n][i] = empty,
         NEW f \in Frame \ F
  PROVE  LET m2 == [FrameTracker_new(m, f) EXCEPT ![n][i] = f]
         IN m2 \in Memories /\ m2[n][i] = f /\ GrowsTo(m, r, F, n, f, m2)
<1> DEFINE Node == [Index -> Frame \cup Target \cup {empty}]
           row == [m[n] EXCEPT ![i] = f]
           m1 == [m EXCEPT ![f] = ZeroPage]
           m2 == [FrameTracker_new(m, f) EXCEPT ![n][i] = f]
<1>1. n \in Frame /\ n # f
  BY InnerNodes DEF Tree
<1>2. row \in Node /\ m \in [Frame -> Node] /\ ZeroPage \in Node
  BY <1>1 DEF Memories, ZeroPage
<1>3. row[i] = f /\ \A j \in Index \ {i} : row[j] = m[n][j]
  BY <1>1 DEF Memories
<1>4. m2 = [m1 EXCEPT ![n] = row]
  BY <1>1 DEF FrameTracker_new, Memories
<1> HIDE DEF Node, row, m2
<1>5. /\ m2 \in [Frame -> Node] /\ m2[n] = row /\ m2[f] = ZeroPage
      /\ \A k \in Frame \ {n, f} : m2[k] = m[k]
  BY <1>1, <1>2, <1>4
<1>6. m2 \in Memories
  BY <1>5 DEF Memories, Node
<1>7. m2[n][i] = f /\ \A j \in Index : m2[f][j] = empty
  BY <1>3, <1>5 DEF ZeroPage
<1>8. \A k \in F, j \in Index : k # n \/ j # i => m2[k][j] = m[k][j]
  <2> SUFFICES ASSUME NEW k \in F, NEW j \in Index, k # n \/ j # i PROVE m2[k][j] = m[k][j]
    OBVIOUS
  <2>1. CASE k = n
    BY <1>3, <1>5, <2>1
  <2>2. CASE k # n
    BY <1>5, <2>2
  <2> QED BY <2>1, <2>2
<1>9. Grown(m, m2, F, n, i, f)
  BY <1>7, <1>8 DEF Grown
<1>10. GrowsTo(m, r, F, n, f, m2)
  BY <1>6, <1>9, GrowTree
<1> QED BY <1>6, <1>7, <1>10 DEF m2

-------------------------------------------------------------------------------
(* The walk of find_pte_create.                                            *)

Walk(m, n, N) == [mem |-> m, ppn |-> n, new |-> N, failed |-> FALSE]

(* The walk has reached node n with the memory m and the new nodes N: the  *)
(* tree has grown by N and still finds the same for every page.            *)
Walked(m, n, N) ==
  /\ m \in Memories /\ N \in SUBSET Free
  /\ Tree(m, root_ppn, frames \cup N)
  /\ \A v \in Vpn : Lookup(m, root_ppn, v) = Lookup(mem, root_ppn, v)

(* The walk has run out of frames: what it has linked is part of the tree. *)
Stuck(w) == w.failed /\ Walked(w.mem, w.ppn, w.new)

(* One level of find_pte_create: it runs out of frames, or arrives at a    *)
(* node of a tree that translates as before.                               *)
LEMMA Descend ==
  ASSUME TypeOK, NEW m, NEW n \in Inner(m, root_ppn), NEW N, Walked(m, n, N),
         NEW i \in Index, NEW f \in frame_alloc(Free \ N)
  PROVE  LET x == descend(Walk(m, n, N), i, f)
         IN Stuck(x) \/ \E m2, N2 : /\ x = Walk(m2, m2[n][i], N2)
                                   /\ Walked(m2, m2[n][i], N2)
                                   /\ m2[n][i] # empty /\ n \in Inner(m2, root_ppn)
                                   /\ \A j \in Index : m[root_ppn][j] # empty =>
                                         m2[root_ppn][j] = m[root_ppn][j]
<1> DEFINE w == Walk(m, n, N)
           x == descend(w, i, f)
<1>1. w.mem = m /\ w.ppn = n /\ w.new = N /\ w.failed = FALSE
  BY DEF Walk
<1>2. CASE m[n][i] # empty
  <2>1. x = Walk(m, m[n][i], N)
    BY <1>1, <1>2 DEF descend, is_valid, Walk
  <2>2. Walked(m, m[n][i], N)
    BY DEF Walked
  <2> QED BY <1>2, <2>1, <2>2
<1>3. CASE m[n][i] = empty /\ f = NoFrame
  <2>1. x = [w EXCEPT !.failed = TRUE]
    BY <1>1, <1>3 DEF descend, is_valid
  <2>2. x.failed /\ x.mem = m /\ x.ppn = n /\ x.new = N
    BY <2>1 DEF Walk
  <2> QED BY <2>2 DEF Stuck
<1>4. CASE m[n][i] = empty /\ f # NoFrame
  <2> DEFINE F == frames \cup N
             m2 == [FrameTracker_new(m, f) EXCEPT ![n][i] = f]
  <2>1. x = Walk(m2, f, N \cup {f})
    BY <1>1, <1>4 DEF descend, is_valid, Walk
  <2>2. f \in Free \ N /\ f \in Frame \ F /\ F \in SUBSET Frame /\ m \in Memories
        /\ Tree(m, root_ppn, F)
    BY <1>4 DEF frame_alloc, Free, Walked, TypeOK
  <2>3. F \cup {f} = frames \cup (N \cup {f}) /\ N \cup {f} \in SUBSET Free
    BY <2>2 DEF Walked
  <2> HIDE DEF F, m2
  <2>4. m2 \in Memories /\ m2[n][i] = f /\ GrowsTo(m, root_ppn, F, n, f, m2)
    BY <1>4, <2>2, Grow DEF m2
  <2>5. Walked(m2, f, N \cup {f})
    BY <2>3, <2>4 DEF Walked, GrowsTo
  <2>6. f # empty /\ n \in Inner(m2, root_ppn)
        /\ \A j \in Index : m[root_ppn][j] # empty => m2[root_ppn][j] = m[root_ppn][j]
    BY <1>4, <2>4 DEF GrowsTo, empty
  <2> QED BY <2>1, <2>4, <2>5, <2>6
<1> QED BY <1>2, <1>3, <1>4

(* A walk that does not run out of frames ends at the node of vpn's leaf   *)
(* entry.                                                                  *)
LEMMA FindPteCreate ==
  ASSUME NodesFormATree, root_ppn # NoFrame, NEW vpn \in Vpn, NEW w \in find_pte_create(vpn)
  PROVE  Stuck(w) \/ \E m2, N2 : /\ w = Walk(m2, Leaf2(m2, root_ppn, vpn), N2)
                                 /\ Walked(m2, w.ppn, N2)
                                 /\ Reaches(m2, root_ppn, vpn)
<1> DEFINE start == Walk(mem, root_ppn, {})
           r == root_ppn
<1>1. vpn[1] \in Index /\ vpn[2] \in Index
  BY DEF Vpn
<1>2. TypeOK
  BY DEF NodesFormATree
<1>3. PICK f1 \in frame_alloc(Free) :
        \E f2 \in frame_alloc(Free \ descend(start, vpn[1], f1).new) :
           w = descend(descend(start, vpn[1], f1), vpn[2], f2)
  <2> DEFINE first == {descend(start, vpn[1], f) : f \in frame_alloc(Free)}
             rest(x) == {descend(x, vpn[2], f) : f \in frame_alloc(Free \ x.new)}
  <2>1. find_pte_create(vpn) = UNION {rest(x) : x \in first}
    BY DEF find_pte_create, Walk
  <2> HIDE DEF start, rest
  <2>2. PICK x \in first : w \in rest(x)
    BY <2>1
  <2>3. PICK f2 \in frame_alloc(Free \ x.new) : w = descend(x, vpn[2], f2)
    BY <2>2 DEF rest
  <2>4. PICK f1 \in frame_alloc(Free) : x = descend(start, vpn[1], f1)
    BY <2>2
  <2> QED BY <2>3, <2>4
<1> DEFINE w1 == descend(start, vpn[1], f1)
<1>4. PICK f2 \in frame_alloc(Free \ w1.new) : w = descend(w1, vpn[2], f2)
  BY <1>3
<1>5. Walked(mem, r, {}) /\ r \in Inner(mem, r) /\ f1 \in frame_alloc(Free \ {})
  <2>1. Tree(mem, r, frames \cup {})
    BY <1>2, TreeNow
  <2>2. mem \in Memories
    BY <1>2 DEF TypeOK, Memories
  <2> QED BY <2>1, <2>2 DEF Walked, Inner
<1>6. Stuck(w1) \/ \E m1, N1 : /\ w1 = Walk(m1, m1[r][vpn[1]], N1)
                               /\ Walked(m1, m1[r][vpn[1]], N1) /\ m1[r][vpn[1]] # empty
  BY <1>1, <1>2, <1>5, Descend
<1> HIDE DEF w1
<1>7. CASE Stuck(w1)
  <2>1. w = w1
    BY <1>4, <1>7 DEF descend, Stuck
  <2> QED BY <1>7, <2>1
<1>8. ASSUME NEW m1, NEW N1, w1 = Walk(m1, m1[r][vpn[1]], N1),
             Walked(m1, m1[r][vpn[1]], N1), m1[r][vpn[1]] # empty
      PROVE  Stuck(w) \/ \E m2, N2 : /\ w = Walk(m2, Leaf2(m2, r, vpn), N2)
                                     /\ Walked(m2, w.ppn, N2) /\ Reaches(m2, r, vpn)
  <2> DEFINE n == m1[r][vpn[1]]
  <2>1. n \in Inner(m1, r)
    BY <1>1, <1>8, InnerNodes
  <2>2. f2 \in frame_alloc(Free \ N1)
    BY <1>8 DEF Walk
  <2>3. w = descend(Walk(m1, n, N1), vpn[2], f2) /\ Walked(m1, n, N1) /\ n # empty
    BY <1>4, <1>8
  <2> HIDE DEF n
  <2>4. Stuck(w) \/ \E m2, N2 : /\ w = Walk(m2, m2[n][vpn[2]], N2)
                                /\ Walked(m2, m2[n][vpn[2]], N2)
                                /\ m2[n][vpn[2]] # empty
                                /\ \A j \in Index : m1[r][j] # empty => m2[r][j] = m1[r][j]
    BY <1>1, <1>2, <2>1, <2>2, <2>3, Descend
  <2>5. ASSUME NEW m2, NEW N2, w = Walk(m2, m2[n][vpn[2]], N2),
               Walked(m2, m2[n][vpn[2]], N2), m2[n][vpn[2]] # empty,
               \A j \in Index : m1[r][j] # empty => m2[r][j] = m1[r][j]
        PROVE  /\ w = Walk(m2, Leaf2(m2, r, vpn), N2)
               /\ Walked(m2, w.ppn, N2) /\ Reaches(m2, r, vpn)
    <3>1. m2[r][vpn[1]] = n
      BY <1>1, <2>3, <2>5 DEF n
    <3>2. w.ppn = m2[n][vpn[2]]
      BY <2>5 DEF Walk
    <3> QED BY <2>3, <2>5, <3>1, <3>2 DEF Leaf2, Reaches
  <2> QED BY <2>4, <2>5
<1> QED BY <1>6, <1>7, <1>8


-------------------------------------------------------------------------------
(* The invariant and the map, step by step.                                *)

Entry == [v \in Vpn |-> IF root_ppn = NoFrame \/ translate(v) = <<>>
                        THEN empty ELSE translate(v)[1]]

(* translate answers None for the pages that the walk does not reach, and  *)
(* what the lookup finds for the others.                                   *)
LEMMA Translate ==
  ASSUME NEW v \in Vpn
  PROVE  /\ Reaches(mem, root_ppn, v) =>
              /\ find_pte(v) = Leaf2(mem, root_ppn, v)
              /\ translate(v) = <<Lookup(mem, root_ppn, v)>>
         /\ ~Reaches(mem, root_ppn, v) =>
              translate(v) = <<>> /\ Lookup(mem, root_ppn, v) = empty
<1>1. CASE Reaches(mem, root_ppn, v)
  <2>1. find_pte(v) = Leaf2(mem, root_ppn, v) /\ find_pte(v) # NoFrame
    BY <1>1 DEF find_pte, Reaches, Leaf2, is_valid, empty
  <2> QED BY <1>1, <2>1 DEF translate, Lookup
<1>2. CASE ~Reaches(mem, root_ppn, v)
  <2>1. find_pte(v) = NoFrame
    BY <1>2 DEF find_pte, Reaches, Leaf2, is_valid, empty
  <2> QED BY <1>2, <2>1 DEF translate, Lookup
<1> QED BY <1>1, <1>2

LEMMA TranslateThen ==
  ASSUME NEW v \in Vpn
  PROVE  /\ Reaches(mem', root_ppn', v) => translate(v)' = <<Lookup(mem', root_ppn', v)>>
         /\ ~Reaches(mem', root_ppn', v) =>
              translate(v)' = <<>> /\ Lookup(mem', root_ppn', v) = empty
<1>1. CASE Reaches(mem', root_ppn', v)
  <2>1. find_pte(v)' = Leaf2(mem', root_ppn', v) /\ find_pte(v)' # NoFrame
    BY <1>1 DEF find_pte, Reaches, Leaf2, is_valid, empty
  <2> QED BY <1>1, <2>1 DEF translate, Lookup
<1>2. CASE ~Reaches(mem', root_ppn', v)
  <2>1. find_pte(v)' = NoFrame
    BY <1>2 DEF find_pte, Reaches, Leaf2, is_valid, empty
  <2> QED BY <1>2, <2>1 DEF translate, Lookup
<1> QED BY <1>1, <1>2

(* The entries, as three look-ups each.                                    *)
LEMMA EntryNow ==
  ASSUME NodesFormATree, root_ppn # NoFrame
  PROVE  Entry = [v \in Vpn |-> Lookup(mem, root_ppn, v)]
<1> SUFFICES ASSUME NEW v \in Vpn
             PROVE  (IF translate(v) = <<>> THEN empty ELSE translate(v)[1])
                       = Lookup(mem, root_ppn, v)
  BY DEF Entry
<1> QED BY Translate

LEMMA EntryThen ==
  ASSUME root_ppn' # NoFrame
  PROVE  Entry' = [v \in Vpn |-> Lookup(mem', root_ppn', v)]
<1> SUFFICES ASSUME NEW v \in Vpn
             PROVE  (IF translate(v)' = <<>> THEN empty ELSE translate(v)'[1])
                       = Lookup(mem', root_ppn', v)
  BY DEF Entry
<1> QED BY TranslateThen

(* A panic changes nothing else.                                           *)
LEMMA PanicKeeps ==
  ASSUME NodesFormATree, NEW why, Panic(why),
         why \in {"out of frames", "unwrap of None", "vpn is invalid before unmapping"}
  PROVE  NodesFormATree' /\ Entry' = Entry /\ panic' = why
<1>1. UNCHANGED <<mem, root_ppn, frames, others>> /\ panic' = why
  BY DEF Panic
<1>2. TypeOK'
  BY <1>1 DEF NodesFormATree, TypeOK
<1>3. NodesFormATree'
  BY <1>1, <1>2, TreeNow, TreeThen DEF NodesFormATree
<1>4. Entry' = Entry
  BY <1>1 DEF Entry, translate, find_pte
<1> QED BY <1>1, <1>3, <1>4

(* What a step has to do: keep the tree and act on the map.                *)
Holds == NodesFormATree' /\ [Mapping!Next]_<<Entry, panic>>

(* Memory that runs out is a panic of both.                                *)
LEMMA OutOfMemoryStep ==
  ASSUME NodesFormATree, Panic("out of frames")
  PROVE  Holds
<1>1. NodesFormATree' /\ Entry' = Entry /\ panic' = "out of frames"
  BY PanicKeeps
<1>2. Mapping!OutOfMemory
  BY <1>1 DEF Mapping!OutOfMemory, Entry
<1> QED BY <1>1, <1>2 DEF Holds, Mapping!Next

LEMMA newStep ==
  ASSUME NodesFormATree, new
  PROVE  Holds
<1>1. PICK f \in frame_alloc(Free) :
        IF f = NoFrame THEN Panic("out of frames")
        ELSE /\ root_ppn' = f
             /\ frames' = {f}
             /\ mem' = FrameTracker_new(mem, f)
             /\ UNCHANGED <<others, panic>>
  BY DEF new
<1>2. CASE f = NoFrame
  BY <1>1, <1>2, OutOfMemoryStep
<1>3. CASE f # NoFrame
  <2>1. root_ppn' = f /\ frames' = {f} /\ mem' = [mem EXCEPT ![f] = ZeroPage]
        /\ UNCHANGED <<others, panic>> /\ f \in Free /\ f \in Frame
    BY <1>1, <1>3 DEF FrameTracker_new, frame_alloc, Free
  <2>2. TypeOK'
    <3>1. mem' \in [Frame -> [Index -> Frame \cup Target \cup {empty}]]
      <4> DEFINE Node == [Index -> Frame \cup Target \cup {empty}]
      <4>1. ZeroPage \in Node /\ mem \in [Frame -> Node]
        BY DEF ZeroPage, NodesFormATree, TypeOK
      <4> HIDE DEF Node
      <4>2. mem' \in [Frame -> Node]
        BY <2>1, <4>1
      <4> QED BY <4>2 DEF Node
    <3> QED BY <2>1, <3>1 DEF NodesFormATree, TypeOK, Free
  <2>3. \A i \in Index : mem'[f][i] = empty
    BY <2>1 DEF ZeroPage, NodesFormATree, TypeOK
  <2>4. Inner(mem', f) = {f}
    BY <2>3 DEF Inner
  <2>5. Tree(mem', f, {f})
    BY <2>3, <2>4 DEF Tree
  <2>6. NodesFormATree'
    BY <2>1, <2>2, <2>5, TreeThen
  <2>7. \A v \in Vpn : Lookup(mem', f, v) = empty
    BY <2>3 DEF Lookup, Reaches, Vpn
  <2>8. Entry' = [v \in Vpn |-> empty]
    BY <1>3, <2>1, <2>7, EntryThen
  <2>9. Entry = [v \in Vpn |-> empty]
    BY DEF Entry, new
  <2> QED BY <2>1, <2>6, <2>8, <2>9 DEF Holds
<1> QED BY <1>2, <1>3

LEMMA dropStep ==
  ASSUME NodesFormATree, drop
  PROVE  Holds
<1>1. root_ppn' = NoFrame /\ frames' = {} /\ UNCHANGED <<mem, others, panic>>
  BY DEF drop
<1>2. TypeOK'
  BY <1>1 DEF NodesFormATree, TypeOK
<1>3. NodesFormATree'
  BY <1>1, <1>2 DEF NodesFormATree
<1>4. Entry' = [v \in Vpn |-> empty]
  BY <1>1 DEF Entry
<1>5. Mapping!Clear
  BY <1>1, <1>4 DEF Mapping!Clear, Entry
<1> QED BY <1>3, <1>5 DEF Holds, Mapping!Next

(* Frames that are not nodes may change.                                   *)
LEMMA OthersStep ==
  ASSUME NodesFormATree, TypeOK', UNCHANGED <<root_ppn, frames, panic>>,
         \A n \in frames : mem'[n] = mem[n]
  PROVE  Holds
<1>1. CASE root_ppn = NoFrame
  <2>1. NodesFormATree'
    BY <1>1 DEF NodesFormATree
  <2>2. Entry' = Entry
    BY <1>1 DEF Entry
  <2> QED BY <2>1, <2>2 DEF Holds
<1>2. CASE root_ppn # NoFrame
  <2> DEFINE r == root_ppn
  <2>1. Tree(mem, r, frames) /\ mem \in Memories /\ frames \in SUBSET Frame
    BY <1>2, TreeNow DEF NodesFormATree, TypeOK, Memories
  <2>2. r \in Inner(mem, r) /\ Inner(mem, r) \subseteq frames
    BY <2>1, InnerNodes DEF Tree
  <2>3. Tree(mem', r, frames)
    BY <2>1, <2>2, SameTree
  <2>4. NodesFormATree'
    BY <2>3, TreeThen
  <2>5. ASSUME NEW v \in Vpn PROVE Lookup(mem', r, v) = Lookup(mem, r, v)
    <3>1. v[1] \in Index /\ v[2] \in Index
      BY DEF Vpn
    <3>2. mem'[r] = mem[r]
      BY <2>2
    <3>3. mem[r][v[1]] # empty => mem[r][v[1]] \in Inner(mem, r)
      BY <3>1, InnerNodes
    <3>4. mem[r][v[1]] # empty => Leaf2(mem', r, v) = Leaf2(mem, r, v)
      BY <2>2, <3>2, <3>3 DEF Leaf2
    <3>5. Reaches(mem', r, v) <=> Reaches(mem, r, v)
      BY <3>2, <3>4 DEF Reaches
    <3>6. Reaches(mem, r, v) => Leaf2(mem, r, v) \in frames
      BY <2>1, Path
    <3> QED BY <3>4, <3>5, <3>6 DEF Lookup, Reaches
  <2>6. Entry' = Entry
    BY <1>2, <2>5, EntryNow, EntryThen
  <2> QED BY <2>4, <2>6 DEF Holds
<1> QED BY <1>1, <1>2

LEMMA other_allocStep ==
  ASSUME NodesFormATree, NEW f \in Frame, other_alloc(f)
  PROVE  Holds
<1>1. /\ f \in Free /\ others' = others \cup {f} /\ UNCHANGED <<root_ppn, frames, panic>>
      /\ mem' = [[mem EXCEPT ![f] = ZeroPage] EXCEPT ![f] = Garbage(f)]
  BY DEF other_alloc, FrameTracker_new
<1> DEFINE Node == [Index -> Frame \cup Target \cup {empty}]
<1>2. Garbage(f) \in Node /\ ZeroPage \in Node /\ mem \in [Frame -> Node]
  BY DEF Garbage, ZeroPage, NodesFormATree, TypeOK
<1> HIDE DEF Node
<1>3. mem' \in [Frame -> Node] /\ \A n \in Frame \ {f} : mem'[n] = mem[n]
  BY <1>1, <1>2
<1>4. TypeOK'
  BY <1>1, <1>3 DEF NodesFormATree, TypeOK, Free, Node
<1>5. \A n \in frames : mem'[n] = mem[n]
  BY <1>1, <1>3 DEF NodesFormATree, TypeOK, Free
<1> QED BY <1>1, <1>4, <1>5, OthersStep

LEMMA other_dropStep ==
  ASSUME NodesFormATree, NEW f \in Frame, other_drop(f)
  PROVE  Holds
<1>1. others' = others \ {f} /\ UNCHANGED <<mem, root_ppn, frames, panic>>
  BY DEF other_drop
<1>2. TypeOK'
  BY <1>1 DEF NodesFormATree, TypeOK
<1> QED BY <1>1, <1>2, OthersStep

(* A leaf entry is written in a tree that may have grown by new nodes N.   *)
LEMMA WriteStep ==
  ASSUME NodesFormATree, root_ppn # NoFrame, NEW v \in Vpn, NEW t \in Target \cup {empty},
         NEW m, NEW n, NEW N, Walked(m, n, N), Reaches(m, root_ppn, v),
         mem' = [m EXCEPT ![Leaf2(m, root_ppn, v)][v[3]] = t],
         frames' = frames \cup N, UNCHANGED <<root_ppn, others, panic>>
  PROVE  NodesFormATree' /\ Entry' = [Entry EXCEPT ![v] = t]
<1> DEFINE r == root_ppn
           F == frames \cup N
           m2 == [m EXCEPT ![Leaf2(m, r, v)][v[3]] = t]
<1>1. m \in Memories /\ F \in SUBSET Frame /\ Tree(m, r, F) /\ N \subseteq Free
  BY DEF Walked, NodesFormATree, TypeOK, Free
<1>2. /\ m2 \in Memories /\ Tree(m2, r, F)
      /\ \A u \in Vpn : Lookup(m2, r, u) = IF u = v THEN t ELSE Lookup(m, r, u)
  <2>1. LeafWritten(m, r, F, v, t, m2)
    BY <1>1, LeafWrite
  <2> QED BY <2>1 DEF LeafWritten
<1>3. mem' = m2 /\ frames' = F
  OBVIOUS
<1> HIDE DEF m2, F
<1>4. TypeOK'
  <2>1. mem' \in [Frame -> [Index -> Frame \cup Target \cup {empty}]]
    BY <1>2, <1>3 DEF Memories
  <2>2. frames' \subseteq Frame /\ others' \subseteq Frame \ frames'
    BY <1>1 DEF NodesFormATree, TypeOK, Free, F
  <2> QED BY <2>1, <2>2 DEF NodesFormATree, TypeOK
<1>5. NodesFormATree'
  BY <1>2, <1>3, <1>4, TreeThen
<1>6. \A u \in Vpn : Lookup(mem', r, u) = IF u = v THEN t ELSE Lookup(mem, r, u)
  BY <1>2, <1>3 DEF Walked
<1>7. Entry = [u \in Vpn |-> Lookup(mem, r, u)] /\ Entry' = [u \in Vpn |-> Lookup(mem', r, u)]
  BY EntryNow, EntryThen
<1>8. Entry' = [Entry EXCEPT ![v] = t]
  BY <1>6, <1>7
<1> QED BY <1>5, <1>8

(* A walk that ends in a panic leaves a tree that has grown by new nodes N *)
(* and translates as before.                                               *)
LEMMA WalkStep ==
  ASSUME NodesFormATree, root_ppn # NoFrame, NEW m, NEW n, NEW N, Walked(m, n, N),
         mem' = m, frames' = frames \cup N, UNCHANGED <<root_ppn, others>>,
         panic' \in {"out of frames", "vpn is mapped before mapping"}
  PROVE  NodesFormATree' /\ Entry' = Entry
<1>1. TypeOK'
  <2>1. mem' \in [Frame -> [Index -> Frame \cup Target \cup {empty}]]
    BY DEF Walked, Memories
  <2>2. frames' \subseteq Frame /\ others' \subseteq Frame \ frames'
    BY DEF Walked, NodesFormATree, TypeOK, Free
  <2> QED BY <2>1, <2>2 DEF NodesFormATree, TypeOK
<1>2. NodesFormATree'
  BY <1>1, TreeThen DEF Walked
<1>3. \A v \in Vpn : Lookup(mem', root_ppn', v) = Lookup(mem, root_ppn, v)
  BY DEF Walked
<1> QED BY <1>2, <1>3, EntryNow, EntryThen

LEMMA mapStep ==
  ASSUME NodesFormATree, NEW v \in Vpn, NEW t \in Target, map(v, t)
  PROVE  Holds
<1> DEFINE r == root_ppn
<1>1. root_ppn # NoFrame
  BY DEF map
<1>2. PICK w \in find_pte_create(v) :
        /\ frames' = frames \cup w.new
        /\ IF w.failed THEN mem' = w.mem /\ panic' = "out of frames"
           ELSE IF is_valid(w.mem[w.ppn][v[3]])
           THEN mem' = w.mem /\ panic' = "vpn is mapped before mapping"
           ELSE mem' = [w.mem EXCEPT ![w.ppn][v[3]] = t] /\ UNCHANGED panic
        /\ UNCHANGED <<root_ppn, others>>
  BY DEF map
<1>3. CASE Stuck(w)
  <2>1. mem' = w.mem /\ panic' = "out of frames"
    BY <1>2, <1>3 DEF Stuck
  <2>2. NodesFormATree' /\ Entry' = Entry
    BY <1>1, <1>2, <1>3, <2>1, WalkStep DEF Stuck
  <2>3. Mapping!OutOfMemory
    BY <2>1, <2>2 DEF Mapping!OutOfMemory, Entry
  <2> QED BY <2>2, <2>3 DEF Holds, Mapping!Next
<1>4. ASSUME NEW m, NEW N, w = Walk(m, Leaf2(m, r, v), N), Walked(m, w.ppn, N), Reaches(m, r, v)
      PROVE  Holds
  <2>1. w.mem = m /\ w.ppn = Leaf2(m, r, v) /\ w.new = N /\ ~w.failed
    BY <1>4 DEF Walk
  <2>2. w.mem[w.ppn][v[3]] = Lookup(mem, r, v)
    BY <1>4, <2>1 DEF Walked, Lookup
  <2>3. Entry[v] = Lookup(mem, r, v)
    BY <1>1, EntryNow
  <2>4. CASE Entry[v] # empty
    <3>1. mem' = m /\ panic' = "vpn is mapped before mapping"
      BY <1>2, <2>1, <2>2, <2>3, <2>4 DEF is_valid
    <3>2. NodesFormATree' /\ Entry' = Entry
      BY <1>1, <1>2, <1>4, <2>1, <3>1, WalkStep
    <3>3. Mapping!MapPanics(v)
      BY <2>4, <3>1, <3>2 DEF Mapping!MapPanics, Entry
    <3> QED BY <3>2, <3>3 DEF Holds, Mapping!Next
  <2>5. CASE Entry[v] = empty
    <3>1. /\ mem' = [m EXCEPT ![Leaf2(m, r, v)][v[3]] = t]
          /\ frames' = frames \cup N
          /\ UNCHANGED <<root_ppn, others, panic>>
      BY <1>2, <2>1, <2>2, <2>3, <2>5 DEF is_valid
    <3>2. NodesFormATree' /\ Entry' = [Entry EXCEPT ![v] = t]
      BY <1>1, <1>4, <3>1, WriteStep
    <3>3. Mapping!Map(v, t)
      BY <2>5, <3>1, <3>2 DEF Mapping!Map, Entry
    <3> QED BY <3>2, <3>3 DEF Holds, Mapping!Next
  <2> QED BY <2>4, <2>5
<1> QED BY <1>1, <1>3, <1>4, FindPteCreate

LEMMA unmapStep ==
  ASSUME NodesFormATree, NEW v \in Vpn, unmap(v)
  PROVE  Holds
<1> DEFINE r == root_ppn
<1>1. root_ppn # NoFrame /\ Entry[v] = Lookup(mem, r, v)
  BY EntryNow DEF unmap
<1>2. CASE Entry[v] = empty
  <2>1. PICK why \in {"unwrap of None", "vpn is invalid before unmapping"} : Panic(why)
    <3>1. CASE Reaches(mem, r, v)
      <4>1. translate(v) = <<empty>>
        BY <1>1, <1>2, <3>1, Translate
      <4>2. translate(v) # <<>> /\ ~is_valid(translate(v)[1])
        BY <4>1 DEF is_valid
      <4> QED BY <4>2 DEF unmap
    <3>2. CASE ~Reaches(mem, r, v)
      <4>1. translate(v) = <<>>
        BY <3>2, Translate
      <4> QED BY <4>1 DEF unmap
    <3> QED BY <3>1, <3>2
  <2>2. NodesFormATree' /\ Entry' = Entry /\ panic' = why
    BY <2>1, PanicKeeps
  <2>3. Mapping!UnmapPanics(v)
    BY <1>2, <2>1, <2>2 DEF Mapping!UnmapPanics, Entry
  <2> QED BY <2>2, <2>3 DEF Holds, Mapping!Next
<1>3. CASE Entry[v] # empty
  <2>1. Reaches(mem, r, v) /\ find_pte(v) = Leaf2(mem, r, v)
        /\ translate(v) # <<>> /\ is_valid(translate(v)[1])
    BY <1>1, <1>3, Translate DEF is_valid
  <2>2. /\ mem' = [mem EXCEPT ![Leaf2(mem, r, v)][v[3]] = empty]
        /\ frames' = frames \cup {} /\ UNCHANGED <<root_ppn, others, panic>>
    BY <2>1 DEF unmap
  <2>3. Walked(mem, r, {})
    <3>1. Tree(mem, r, frames \cup {}) /\ mem \in Memories
      BY <1>1, TreeNow DEF NodesFormATree, TypeOK, Memories
    <3> QED BY <3>1 DEF Walked
  <2>4. NodesFormATree' /\ Entry' = [Entry EXCEPT ![v] = empty]
    BY <1>1, <2>1, <2>2, <2>3, WriteStep
  <2>5. Mapping!Unmap(v)
    BY <1>3, <2>2, <2>4 DEF Mapping!Unmap, Entry
  <2> QED BY <2>4, <2>5 DEF Holds, Mapping!Next
<1> QED BY <1>2, <1>3

LEMMA NextStep ==
  ASSUME NodesFormATree, [Next]_vars
  PROVE  Holds
<1>1. CASE UNCHANGED vars
  <2>1. UNCHANGED <<mem, root_ppn, frames, others, panic>>
    BY <1>1 DEF vars
  <2>2. TypeOK'
    BY <2>1 DEF NodesFormATree, TypeOK
  <2> QED BY <2>1, <2>2, OthersStep
<1> QED
  BY <1>1, newStep, dropStep, mapStep, unmapStep, other_allocStep, other_dropStep
     DEF Next, shutdown

-------------------------------------------------------------------------------
(* The theorems.                                                           *)

(* The nodes of the table form a tree of exactly the frames it owns, also  *)
(* when a frame it takes over still holds what its last owner wrote.       *)
THEOREM TreeOfNodes == Spec => []NodesFormATree
<1>1. Init => NodesFormATree
  BY DEF Init, NodesFormATree, TypeOK, Garbage
<1>2. NodesFormATree /\ [Next]_vars => NodesFormATree'
  BY NextStep DEF Holds
<1> QED BY <1>1, <1>2, PTL DEF Spec

(* map, unmap and translate are those of a partial map: what was mapped is *)
(* found, what was not is not, and the calls that panic are the ones that  *)
(* map a page twice or unmap one that is not mapped.                       *)
THEOREM MappingRefinement == Spec => MappingSpec
<1>1. Init => Mapping!Init
  BY DEF Init, Mapping!Init
<1>2. NodesFormATree /\ [Next]_vars => [Mapping!Next]_<<Entry, panic>>
  BY NextStep DEF Holds
<1>3. NodesFormATree /\ [Next]_vars => [Mapping!Next]_(Mapping!vars)
  BY <1>2 DEF Entry, Mapping!vars
<1> QED BY <1>1, <1>3, TreeOfNodes, PTL DEF Spec, MappingSpec, Mapping!Spec
===============================================================================
