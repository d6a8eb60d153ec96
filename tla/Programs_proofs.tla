---------------------------- MODULE Programs_proofs ----------------------------
(* Proofs about the sequential programs, for every number and size of their    *)
(* inputs.                                                                     *)
EXTENDS Programs, Powers, FiniteSetTheorems, SequenceTheorems, WellFoundedInduction, TLAPS

-----------------------------------------------------------------------------
(* SortedList.                                                               *)

ListNodes == 1 .. MaxLinks
Links == 0 .. MaxLinks

\* The types, and a node that malloc has handed out holds the number it was made for.
ListType ==
    /\ MaxLinks \in Nat /\ List!INT_MIN \in Int
    /\ used \in 0 .. MaxLinks
    /\ val \in [ListNodes -> Int] /\ next \in [ListNodes -> Links]
    /\ head \in Links /\ new_node \in Links /\ marker \in Links /\ temp \in Links
    /\ num \in Int /\ max \in Int
    /\ added \in Seq(Int) /\ Len(added) = used
    /\ \A node \in 1 .. used : val[node] = added[node] /\ val[node] >= List!INT_MIN
    /\ listPc = "add" => used < MaxLinks
    /\ listPc \in {"add", "advance"} => num >= List!INT_MIN

\* The first m nodes in the order in which the list holds them.
IsList(order, m) ==
    /\ order \in [1 .. m -> 1 .. m]
    /\ \A a, b \in 1 .. m : order[a] = order[b] => a = b
    /\ \A node \in 1 .. m : \E a \in 1 .. m : order[a] = node
    /\ head = IF m = 0 THEN 0 ELSE order[1]
    /\ \A a \in 1 .. m : next[order[a]] = IF a = m THEN 0 ELSE order[a + 1]
    /\ \A a \in 1 .. m - 1 : val[order[a]] =< val[order[a + 1]]

\* The list is one of all nodes.
Listed == \E order : IsList(order, used)

\* While add_link looks for the place of the new node, the others are a list, and its
\* next is the one it comes after.
Placing ==
    /\ used > 1 /\ new_node = used /\ val[used] = num
    /\ \E order : /\ IsList(order, used - 1)
                  /\ \E a \in 1 .. used - 1 :
                        /\ next[used] = order[a] /\ val[order[a]] =< num
                        /\ marker = IF a = used - 1 THEN 0 ELSE order[a + 1]

\* And is_sorted has met no number larger than the one it is at.
ListInv ==
    /\ listPc \in {"call", "add", "check"} => Listed
    /\ listPc = "advance" => Placing
    /\ listPc = "check" => temp = 0 \/ (temp \in 1 .. used /\ val[temp] >= max)
    /\ passed

\* INT_MIN is a number.
LEMMA MinInt == List!INT_MIN \in Int /\ MaxLinks \in Nat
<1>1. Bits - 1 \in Nat /\ MaxLinks \in Nat
  BY InstancesAssumption DEF List!Assumptions
<1>2. 2 ^ (Bits - 1) \in Int
  BY <1>1
<1> QED BY <1>1, <1>2 DEF List!INT_MIN

\* A new node holds its number, and the others hold theirs.
LEMMA NewNodeFacts ==
    ASSUME ListType, listPc = "add", NEW rest \in Links, List!NewNode(rest)
    PROVE  /\ used + 1 \in ListNodes /\ used' = used + 1 /\ used' \in 0 .. MaxLinks
           /\ val' \in [ListNodes -> Int] /\ next' \in [ListNodes -> Links]
           /\ val'[used + 1] = num /\ next'[used + 1] = rest
           /\ \A node \in 1 .. used : val'[node] = val[node] /\ next'[node] = next[node]
           /\ added' \in Seq(Int) /\ Len(added') = used'
           /\ \A node \in 1 .. used' : val'[node] = added'[node] /\ val'[node] >= List!INT_MIN
<1>1. /\ used + 1 \in ListNodes /\ used' = used + 1 /\ used' \in 0 .. MaxLinks
      /\ val' = [val EXCEPT ![used + 1] = num] /\ next' = [next EXCEPT ![used + 1] = rest]
      /\ added' = Append(added, num)
  BY DEF List!NewNode, ListType, ListNodes
<1>2. /\ val' \in [ListNodes -> Int] /\ next' \in [ListNodes -> Links]
      /\ val'[used + 1] = num /\ next'[used + 1] = rest
      /\ \A node \in 1 .. used : val'[node] = val[node] /\ next'[node] = next[node]
  <2>1. \A node \in 1 .. used : node \in ListNodes /\ node # used + 1
    BY DEF ListType, ListNodes
  <2> QED BY <1>1, <2>1 DEF ListType
<1>3. /\ added' \in Seq(Int) /\ Len(added') = used' /\ added'[used + 1] = num
      /\ \A node \in 1 .. used : added'[node] = added[node]
  BY <1>1 DEF ListType
<1>4. \A node \in 1 .. used' : node \in 1 .. used \/ node = used + 1
  BY <1>1 DEF ListType
<1>5. \A node \in 1 .. used' : val'[node] = added'[node] /\ val'[node] >= List!INT_MIN
  BY <1>2, <1>3, <1>4 DEF ListType
<1> QED BY <1>1, <1>2, <1>3, <1>5

LEMMA ListTypeInit == List!Init => ListType
<1> SUFFICES ASSUME List!Init PROVE ListType
  OBVIOUS
<1>1. List!INT_MIN \in Int /\ MaxLinks \in Nat
  BY MinInt
<1>2. val \in [ListNodes -> Int] /\ next \in [ListNodes -> Links]
  BY <1>1 DEF List!Init, List!Nodes, List!NULL, ListNodes, Links
<1>3. used = 0 /\ added = <<>> /\ added \in Seq(Int) /\ Len(added) = 0
  BY DEF List!Init
<1> QED BY <1>1, <1>2, <1>3 DEF List!Init, List!NULL, ListType, Links

LEMMA ListTypeKept == ASSUME ListType, ListInv, [List!Next]_listVars PROVE ListType'
<1>1. CASE UNCHANGED listVars
  BY <1>1 DEF listVars, ListType, List!INT_MIN
<1>2. CASE List!Call
  <2>1. num' \in Int /\ num' >= List!INT_MIN
    BY <1>2 DEF List!Call, List!Ints, ListType
  <2> QED BY <1>2, <2>1 DEF List!Call, List!heap, List!checkVars, ListType, List!INT_MIN
<1>3. CASE List!NoMemory
  BY <1>3 DEF List!NoMemory, List!heap, List!checkVars, ListType, List!INT_MIN
<1>4. CASE List!AddFirst \/ List!AddFront \/ List!AddInside
  <2>1. PICK rest \in Links : listPc = "add" /\ List!NewNode(rest)
    BY <1>4 DEF List!AddFirst, List!AddFront, List!AddInside, List!NULL, ListType, Links
  <2>2. /\ used + 1 \in Links /\ used' \in 0 .. MaxLinks
        /\ val' \in [ListNodes -> Int] /\ next' \in [ListNodes -> Links]
        /\ added' \in Seq(Int) /\ Len(added') = used'
        /\ \A node \in 1 .. used' : val'[node] = added'[node] /\ val'[node] >= List!INT_MIN
    BY <2>1, NewNodeFacts DEF ListNodes, Links
  <2>3. head \in Links /\ head # 0 => next[head] \in Links
    BY DEF ListType, ListNodes, Links
  <2>4. num \in Int /\ num >= List!INT_MIN /\ num' = num /\ List!INT_MIN' = List!INT_MIN
    BY <1>4, <2>1 DEF ListType, List!AddFirst, List!AddFront, List!AddInside, List!INT_MIN
  <2>5. head' \in Links /\ new_node' \in Links /\ marker' \in Links /\ temp' \in Links /\ max' \in Int
        /\ listPc' \in {"check", "advance"}
    BY <1>4, <2>2, <2>3 DEF List!AddFirst, List!AddFront, List!AddInside, List!Return,
                            List!checkVars, List!NULL, ListType
  <2> QED BY <2>2, <2>4, <2>5 DEF ListType
<1>5. CASE List!Advance
  <2>1. new_node \in ListNodes /\ marker \in Links /\ next[marker] \in Links
    BY <1>5 DEF List!Advance, List!NULL, ListType, ListInv, Listed, Placing, ListNodes, Links
  <2> QED BY <1>5, <2>1 DEF List!Advance, List!checkVars, ListType, List!INT_MIN
<1>6. CASE List!LinkIn
  <2>1. next' \in [ListNodes -> Links]
    <3>1. new_node \in Links /\ marker \in Links
      BY DEF ListType
    <3> QED BY <1>6, <3>1 DEF List!LinkIn, ListType
  <2> QED BY <1>6, <2>1 DEF List!LinkIn, List!Return, ListType, List!INT_MIN
<1>7. CASE List!CheckNode
  <2>1. temp \in ListNodes
    BY <1>7 DEF List!CheckNode, List!NULL, ListType, ListNodes, Links
  <2>2. val[temp] \in Int /\ next[temp] \in Links
    BY <2>1 DEF ListType
  <2> QED BY <1>7, <2>2 DEF List!CheckNode, List!heap, ListType, List!INT_MIN
<1>8. CASE List!CheckEnd \/ List!CheckFails
  BY <1>8 DEF List!CheckEnd, List!CheckFails, List!heap, List!checkVars, ListType, List!INT_MIN
<1> QED BY <1>1, <1>2, <1>3, <1>4, <1>5, <1>6, <1>7, <1>8 DEF List!Next

-----------------------------------------------------------------------------
(* The list and its order.                                                   *)

\* A list that no step has touched.
LEMMA ListSame ==
    ASSUME NEW m \in Nat, m =< MaxLinks, NEW order, IsList(order, m), head' = head,
           \A node \in 1 .. m : val'[node] = val[node] /\ next'[node] = next[node]
    PROVE  IsList(order, m)'
<1>1. \A a \in 1 .. m : order[a] \in 1 .. m
  BY DEF IsList
<1>2. \A a \in 1 .. m - 1 : a \in 1 .. m /\ a + 1 \in 1 .. m
  OBVIOUS
<1>3. \A a \in 1 .. m : next'[order[a]] = IF a = m THEN 0 ELSE order[a + 1]
  BY <1>1 DEF IsList
<1>4. \A a \in 1 .. m - 1 : val'[order[a]] =< val'[order[a + 1]]
  BY <1>1, <1>2 DEF IsList
<1> QED BY <1>3, <1>4 DEF IsList

\* Node m + 1, put in after place q (0 is the front), makes a list of one node more.
LEMMA ListInsert ==
    ASSUME NEW m \in Nat, NEW order, IsList(order, m), NEW q \in 0 .. m,
           head' = IF q = 0 THEN m + 1 ELSE head,
           \A node \in 1 .. m : /\ val'[node] = val[node] /\ val[node] \in Int
                                /\ q = 0 \/ node # order[q] => next'[node] = next[node],
           val'[m + 1] \in Int,
           q # 0 => next'[order[q]] = m + 1 /\ val[order[q]] =< val'[m + 1],
           next'[m + 1] = IF q = m THEN 0 ELSE order[q + 1],
           q # m => val'[m + 1] =< val[order[q + 1]]
    PROVE  \E o : IsList(o, m + 1)'
<1> DEFINE o == [a \in 1 .. m + 1 |->
                    IF a =< q THEN order[a] ELSE IF a = q + 1 THEN m + 1 ELSE order[a - 1]]
<1>1. /\ \A a \in 1 .. m : order[a] \in 1 .. m
      /\ \A a, b \in 1 .. m : order[a] = order[b] => a = b
      /\ \A node \in 1 .. m : \E a \in 1 .. m : order[a] = node
  BY DEF IsList
<1>2. /\ \A a \in 1 .. q : a \in 1 .. m /\ a \in 1 .. m + 1 /\ o[a] = order[a]
      /\ q + 1 \in 1 .. m + 1 /\ o[q + 1] = m + 1
      /\ \A a \in q + 2 .. m + 1 : a - 1 \in 1 .. m /\ a \in 1 .. m + 1 /\ o[a] = order[a - 1]
      /\ \A a \in 1 .. m + 1 : a \in 1 .. q \/ a = q + 1 \/ a \in q + 2 .. m + 1
  OBVIOUS
<1>3. o \in [1 .. m + 1 -> 1 .. m + 1]
  <2>1. \A a \in 1 .. m : order[a] \in 1 .. m + 1
    BY <1>1
  <2>2. m + 1 \in 1 .. m + 1
    OBVIOUS
  <2>3. \A a \in 1 .. m + 1 : o[a] \in 1 .. m + 1
    <3> HIDE DEF o
    <3> QED BY <1>2, <2>1, <2>2
  <2> QED BY <2>1
<1> HIDE DEF o
<1>4. ASSUME NEW a \in 1 .. m + 1, NEW b \in 1 .. m + 1, o[a] = o[b]
      PROVE  a = b
  <2>1. \A c \in 1 .. m : order[c] # m + 1
    BY <1>1
  <2>2. CASE a \in 1 .. q
    <3>1. CASE b \in 1 .. q
      BY <1>1, <1>2, <1>4, <2>2, <3>1
    <3>2. CASE b = q + 1
      BY <1>2, <1>4, <2>1, <2>2, <3>2
    <3>3. CASE b \in q + 2 .. m + 1
      <4>1. a = b - 1
        BY <1>1, <1>2, <1>4, <2>2, <3>3
      <4> QED BY <2>2, <3>3, <4>1
    <3> QED BY <1>2, <3>1, <3>2, <3>3
  <2>3. CASE a = q + 1
    BY <1>1, <1>2, <1>4, <2>1, <2>3
  <2>4. CASE a \in q + 2 .. m + 1
    <3>1. CASE b \in 1 .. q
      <4>1. a - 1 = b
        BY <1>1, <1>2, <1>4, <2>4, <3>1
      <4> QED BY <2>4, <3>1, <4>1
    <3>2. CASE b = q + 1
      BY <1>2, <1>4, <2>1, <2>4, <3>2
    <3>3. CASE b \in q + 2 .. m + 1
      <4>1. a - 1 = b - 1
        BY <1>1, <1>2, <1>4, <2>4, <3>3
      <4> QED BY <2>4, <3>3, <4>1
    <3> QED BY <1>2, <3>1, <3>2, <3>3
  <2> QED BY <1>2, <2>2, <2>3, <2>4
<1>5. ASSUME NEW node \in 1 .. m + 1
      PROVE  \E a \in 1 .. m + 1 : o[a] = node
  <2>1. CASE node = m + 1
    BY <1>2, <2>1
  <2>2. CASE node \in 1 .. m
    <3>1. PICK a \in 1 .. m : order[a] = node
      BY <1>1, <2>2
    <3>2. CASE a =< q
      BY <1>2, <3>1, <3>2
    <3>3. CASE a > q
      <4>1. a + 1 \in q + 2 .. m + 1 /\ (a + 1) - 1 = a
        BY <3>3
      <4> QED BY <1>2, <3>1, <4>1
    <3> QED BY <3>2, <3>3
  <2> QED BY <2>1, <2>2
<1>6. head' = o[1]
  <2>1. CASE q = 0
    BY <1>2, <2>1
  <2>2. CASE q # 0
    BY <1>2, <2>2 DEF IsList
  <2> QED BY <2>1, <2>2
<1>7. \A a \in 1 .. m : next[order[a]] = IF a = m THEN 0 ELSE order[a + 1]
  BY DEF IsList
<1>8. ASSUME NEW a \in 1 .. m + 1
      PROVE  next'[o[a]] = IF a = m + 1 THEN 0 ELSE o[a + 1]
  <2>1. CASE a = q + 1
    <3>1. CASE q = m
      BY <1>2, <2>1, <3>1
    <3>2. CASE q # m
      <4>1. q + 2 \in q + 2 .. m + 1 /\ (q + 2) - 1 = q + 1
        BY <3>2
      <4> QED BY <1>2, <2>1, <3>2, <4>1
    <3> QED BY <3>1, <3>2
  <2>2. CASE a = q
    BY <1>2, <2>2
  <2>3. CASE a < q
    <3>1. a \in 1 .. q /\ a + 1 \in 1 .. q /\ q \in 1 .. m
      BY <2>3
    <3>2. order[a] # order[q] /\ order[a] \in 1 .. m
      BY <1>1, <2>3, <3>1
    <3> QED BY <1>2, <1>7, <2>3, <3>1, <3>2
  <2>4. CASE a > q + 1
    <3>1. a \in q + 2 .. m + 1 /\ a - 1 \in 1 .. m /\ a - 1 # q /\ (a - 1) + 1 = a
      BY <2>4
    <3>2. order[a - 1] \in 1 .. m /\ (q = 0 \/ order[a - 1] # order[q])
      BY <1>1, <3>1
    <3>3. next'[order[a - 1]] = IF a - 1 = m THEN 0 ELSE order[a]
      BY <1>7, <3>1, <3>2
    <3>4. a # m + 1 => a + 1 \in q + 2 .. m + 1 /\ (a + 1) - 1 = a
      BY <3>1
    <3> QED BY <1>2, <3>1, <3>3, <3>4
  <2> QED BY <2>1, <2>2, <2>3, <2>4
<1>9. \A a \in 1 .. m - 1 : val[order[a]] =< val[order[a + 1]]
  BY DEF IsList
<1>10. ASSUME NEW a \in 1 .. m
       PROVE  val'[o[a]] =< val'[o[a + 1]]
  <2>1. CASE a = q + 1
    <3>1. q + 2 \in q + 2 .. m + 1 /\ (q + 2) - 1 = q + 1 /\ q # m /\ q + 1 \in 1 .. m
      BY <2>1
    <3> QED BY <1>1, <1>2, <2>1, <3>1
  <2>2. CASE a = q
    BY <1>1, <1>2, <2>2
  <2>3. CASE a < q
    <3>1. a \in 1 .. q /\ a + 1 \in 1 .. q /\ a \in 1 .. m - 1 /\ a + 1 \in 1 .. m
      BY <2>3
    <3>2. val'[order[a]] = val[order[a]] /\ val'[order[a + 1]] = val[order[a + 1]]
      BY <1>1, <3>1
    <3> QED BY <1>2, <1>9, <3>1, <3>2
  <2>4. CASE a > q + 1
    <3>1. /\ a \in q + 2 .. m + 1 /\ a + 1 \in q + 2 .. m + 1 /\ (a + 1) - 1 = a
          /\ a - 1 \in 1 .. m - 1 /\ (a - 1) + 1 = a /\ a - 1 \in 1 .. m
      BY <2>4
    <3>2. val'[order[a - 1]] = val[order[a - 1]] /\ val'[order[a]] = val[order[a]]
      BY <1>1, <3>1
    <3>3. val[order[a - 1]] =< val[order[a]]
      BY <1>9, <3>1
    <3>4. o[a] = order[a - 1] /\ o[a + 1] = order[a]
      BY <1>2, <3>1
    <3> QED BY <3>2, <3>3, <3>4
  <2> QED BY <2>1, <2>2, <2>3, <2>4
<1>11. IsList(o, m + 1)'
  <2>1. (m + 1) - 1 = m /\ m + 1 # 0
    OBVIOUS
  <2>2. \A a \in 1 .. (m + 1) - 1 : val'[o[a]] =< val'[o[a + 1]]
    BY <1>10, <2>1
  <2> QED BY <1>3, <1>4, <1>5, <1>6, <1>8, <2>1, <2>2 DEF IsList
<1> QED BY <1>11

\* In a list a node's number is not larger than that of the node it links to.
LEMMA ListEdges ==
    ASSUME NEW m \in Nat, NEW order, IsList(order, m), NEW node \in 1 .. m, next[node] # 0
    PROVE  next[node] \in 1 .. m /\ val[node] =< val[next[node]]
<1>1. PICK a \in 1 .. m : order[a] = node
  BY DEF IsList
<1>2. a # m /\ next[node] = order[a + 1]
  BY <1>1 DEF IsList
<1>3. a \in 1 .. m - 1 /\ a + 1 \in 1 .. m
  BY <1>2
<1>4. order[a + 1] \in 1 .. m /\ val[order[a]] =< val[order[a + 1]]
  BY <1>3 DEF IsList
<1> QED BY <1>1, <1>2, <1>4

LEMMA ListInit == List!Init => ListInv
<1> SUFFICES ASSUME List!Init PROVE ListInv
  OBVIOUS
<1>1. IsList([a \in 1 .. 0 |-> 0], 0)
  <2>1. head = 0 /\ \A a \in 1 .. 0 : FALSE
    BY DEF List!Init, List!NULL
  <2>2. \A a \in 1 .. 0 - 1 : FALSE
    OBVIOUS
  <2> QED BY <2>1, <2>2 DEF IsList
<1> QED BY <1>1 DEF List!Init, ListInv, Listed, Placing

\* The new list is returned, and is_sorted starts at its head.
LEMMA ListReturned ==
    ASSUME ListType', listPc' = "check", used' # 0, \E order : IsList(order, used)',
           temp' = head', max' = List!INT_MIN, passed'
    PROVE  ListInv'
<1>1. PICK order : IsList(order, used)'
  OBVIOUS
<1>2. used' \in 0 .. MaxLinks /\ used' \in Nat
  BY DEF ListType
<1>3. 1 \in 1 .. used' /\ head' = order[1] /\ order[1] \in 1 .. used'
  BY <1>1, <1>2 DEF IsList
<1>4. temp' \in 1 .. used' /\ val'[temp'] >= max'
  BY <1>3 DEF ListType
<1> QED BY <1>1, <1>4 DEF ListInv, Listed, Placing

\* add_link puts the new node at the front, or is left with the place to look for.
LEMMA ListFront ==
    ASSUME ListType, ListType', ListInv, List!AddFirst \/ List!AddFront
    PROVE  ListInv'
<1>1. PICK order : IsList(order, used)
  BY DEF ListInv, Listed, Placing, List!AddFirst, List!AddFront
<1>2. used \in Nat /\ (head = 0 <=> used = 0)
  BY <1>1 DEF IsList, ListType
<1>3. PICK rest \in Links :
         /\ listPc = "add" /\ List!NewNode(rest) /\ rest = head
         /\ head # 0 => num < val[head]
  BY DEF List!AddFirst, List!AddFront, List!NULL, ListType
<1>4. /\ used' = used + 1 /\ val'[used + 1] = num /\ next'[used + 1] = rest
      /\ \A node \in 1 .. used : val'[node] = val[node] /\ next'[node] = next[node]
  BY <1>3, NewNodeFacts
<1>5. \A node \in 1 .. used : val[node] \in Int
  BY DEF ListType, ListNodes
<1>6. /\ head' = used + 1 /\ temp' = head' /\ max' = List!INT_MIN /\ passed' = passed
      /\ listPc' = "check"
  BY DEF List!AddFirst, List!AddFront, List!Return
<1>7. \E o : IsList(o, used)'
  <2>1. num \in Int /\ 0 \in 0 .. used
    BY <1>2 DEF ListType
  <2>2. used # 0 => head = order[1] /\ order[1] \in 1 .. used
    BY <1>1, <1>2 DEF IsList
  <2>3. used = 0 => head = 0
    BY <1>2
  <2>4. used # 0 => num =< val[order[0 + 1]]
    BY <1>2, <1>3, <1>5, <2>1, <2>2
  <2>5. next'[used + 1] = IF 0 = used THEN 0 ELSE order[0 + 1]
    BY <1>3, <1>4, <2>2, <2>3
  <2>6. PICK m \in Nat : m = used
    BY <1>2
  <2>7. \E o : IsList(o, m + 1)'
    BY <1>1, <1>4, <1>5, <1>6, <2>1, <2>4, <2>5, <2>6, ListInsert
  <2>8. m + 1 = used'
    BY <1>4, <2>6
  <2> QED BY <2>7, <2>8 DEF IsList
<1>8. passed' /\ used' # 0
  BY <1>2, <1>4, <1>6 DEF ListInv, Listed, Placing
<1> QED BY <1>6, <1>7, <1>8, ListReturned

LEMMA ListInside ==
    ASSUME ListType, ListInv, List!AddInside
    PROVE  ListInv'
<1>1. /\ listPc = "add" /\ List!NewNode(head) /\ head # 0 /\ num >= val[head]
      /\ new_node' = used + 1 /\ marker' = next[head] /\ listPc' = "advance"
      /\ UNCHANGED <<head, num, passed>>
  BY DEF List!AddInside, List!NULL, List!checkVars
<1>2. PICK order : IsList(order, used)
  BY <1>1 DEF ListInv, Listed, Placing
<1>3. head \in Links /\ used \in Nat /\ used =< MaxLinks
  BY DEF ListType, Links
<1>4. /\ used' = used + 1 /\ val'[used + 1] = num /\ next'[used + 1] = head
      /\ \A node \in 1 .. used : val'[node] = val[node] /\ next'[node] = next[node]
  BY <1>1, <1>3, NewNodeFacts
<1>5. used # 0 /\ 1 \in 1 .. used /\ head = order[1] /\ head \in 1 .. used
  BY <1>1, <1>2, <1>3 DEF IsList
<1>6. marker' = IF 1 = used THEN 0 ELSE order[1 + 1]
  BY <1>1, <1>2, <1>5 DEF IsList
<1>7. PICK m \in Nat : m = used
  BY <1>3
<1>8. IsList(order, m)' /\ m = used' - 1
  BY <1>1, <1>2, <1>3, <1>4, <1>7, ListSame
<1>9. /\ IsList(order, used - 1)'
      /\ 1 \in 1 .. used' - 1 /\ next'[used'] = order[1] /\ val'[order[1]] =< num'
      /\ marker' = IF 1 = used' - 1 THEN 0 ELSE order[1 + 1]
  <2>1. IsList(order, used - 1)'
    BY <1>8 DEF IsList
  <2>2. val'[order[1]] =< num'
    <3>1. val[order[1]] \in Int /\ num \in Int
      BY <1>3, <1>5 DEF ListType, ListNodes
    <3> QED BY <1>1, <1>4, <1>5, <3>1
  <2> QED BY <1>1, <1>4, <1>5, <1>6, <1>7, <1>8, <2>1, <2>2
<1>10. used' > 1 /\ new_node' = used' /\ val'[used'] = num' /\ passed'
  BY <1>1, <1>3, <1>4, <1>5 DEF ListInv, Listed, Placing
<1> QED BY <1>1, <1>9, <1>10 DEF ListInv, Listed, Placing

\* What add_link knows while it looks for the place of the new node: the others are the
\* list order, and it comes after the one at place a.
Looking(order, m, a) ==
    /\ m + 1 = used /\ new_node = used /\ used \in ListNodes /\ IsList(order, m)
    /\ \A node \in 1 .. m : node \in ListNodes /\ node # used /\ val[node] \in Int
    /\ \A b \in 1 .. m : order[b] \in 1 .. m
    /\ next[used] = order[a] /\ val[order[a]] =< num /\ val[used] = num
    /\ marker = IF a = m THEN 0 ELSE order[a + 1]

LEMMA AdvanceFacts ==
    ASSUME ListType, ListInv, listPc = "advance"
    PROVE  \E order : \E m \in Nat : \E a \in 1 .. m : Looking(order, m, a)
<1>1. PICK m \in Nat : m + 1 = used /\ m = used - 1
  <2>1. used > 1 /\ used \in Nat
    BY DEF ListInv, Listed, Placing, ListType
  <2> QED BY <2>1
<1>2. PICK order : /\ IsList(order, m)
                   /\ \E a \in 1 .. m :
                         /\ next[used] = order[a] /\ val[order[a]] =< num
                         /\ marker = IF a = m THEN 0 ELSE order[a + 1]
  BY <1>1 DEF ListInv, Listed, Placing
<1>3. PICK a \in 1 .. m : /\ next[used] = order[a] /\ val[order[a]] =< num
                          /\ marker = IF a = m THEN 0 ELSE order[a + 1]
  BY <1>2
<1>4. used \in ListNodes
  BY <1>1 DEF ListType, ListNodes
<1>5. \A node \in 1 .. m : node \in ListNodes /\ node # used /\ val[node] \in Int
  BY <1>1 DEF ListType, ListNodes
<1>6. \A b \in 1 .. m : order[b] \in 1 .. m
  BY <1>2 DEF IsList
<1>7. new_node = used /\ val[used] = num
  BY DEF ListInv, Listed, Placing
<1>8. Looking(order, m, a)
  BY <1>1, <1>2, <1>4, <1>5, <1>6, <1>7, <1>3 DEF Looking
<1> QED BY <1>8

LEMMA ListAdvance ==
    ASSUME ListType, ListInv, List!Advance
    PROVE  ListInv'
<1>1. /\ listPc = "advance" /\ marker # 0 /\ val[marker] < num
      /\ next' = [next EXCEPT ![new_node] = marker] /\ marker' = next[marker]
      /\ UNCHANGED <<val, used, head, num, new_node, passed, listPc>>
  BY DEF List!Advance, List!NULL, List!checkVars
<1>2. PICK order : \E m \in Nat : \E a \in 1 .. m : Looking(order, m, a)
  BY <1>1, AdvanceFacts
<1>3. PICK m \in Nat : \E a \in 1 .. m : Looking(order, m, a)
  BY <1>2
<1>4. PICK a \in 1 .. m : Looking(order, m, a)
  BY <1>3
<1>5. a # m /\ marker = order[a + 1]
  BY <1>1, <1>4 DEF Looking
<1>6. PICK b \in 1 .. m : b = a + 1
  BY <1>5
<1>7. /\ next'[used] = order[b]
      /\ \A node \in 1 .. m : val'[node] = val[node] /\ next'[node] = next[node]
  BY <1>1, <1>4, <1>5, <1>6 DEF ListType, Looking
<1>8. IsList(order, m)'
  <2>1. m =< MaxLinks /\ head' = head /\ IsList(order, m)
    BY <1>1, <1>4 DEF ListNodes, Looking
  <2> QED BY <1>7, <2>1, ListSame
<1>9. marker' = IF b = m THEN 0 ELSE order[b + 1]
  BY <1>1, <1>4, <1>5, <1>6 DEF IsList, Looking
<1>10. val'[order[b]] =< num'
  <2>1. val[order[b]] \in Int /\ num \in Int
    BY <1>4 DEF ListType, Looking
  <2> QED BY <1>1, <1>5, <1>6, <2>1
<1>11. m = used' - 1 /\ used' > 1 /\ new_node' = used' /\ val'[used'] = num' /\ passed'
  <2>1. used > 1 /\ used \in Nat /\ passed
    BY <1>1 DEF ListInv, Listed, Placing, ListType
  <2> QED BY <1>1, <1>4, <2>1 DEF Looking
<1>12. IsList(order, used - 1)'
  BY <1>8, <1>11 DEF IsList
<1>13. /\ b \in 1 .. used' - 1 /\ next'[used'] = order[b]
       /\ marker' = IF b = used' - 1 THEN 0 ELSE order[b + 1]
  BY <1>1, <1>6, <1>7, <1>9, <1>11
<1> QED BY <1>1, <1>10, <1>11, <1>12, <1>13 DEF ListInv, Listed, Placing

LEMMA ListLinkIn ==
    ASSUME ListType, ListType', ListInv, List!LinkIn
    PROVE  ListInv'
<1>1. /\ listPc = "advance" /\ ~(marker # 0 /\ val[marker] < num)
      /\ next' = [next EXCEPT ![next[new_node]] = new_node, ![new_node] = marker]
      /\ UNCHANGED <<val, used, head, num, new_node, passed>>
      /\ listPc' = "check" /\ temp' = head' /\ max' = List!INT_MIN
  BY DEF List!LinkIn, List!Return, List!NULL
<1>2. PICK order : \E m \in Nat : \E a \in 1 .. m : Looking(order, m, a)
  BY <1>1, AdvanceFacts
<1>3. PICK m \in Nat : \E a \in 1 .. m : Looking(order, m, a)
  BY <1>2
<1>4. PICK a \in 1 .. m : Looking(order, m, a)
  BY <1>3
<1>5. /\ next'[used] = marker /\ next'[order[a]] = used
      /\ \A node \in 1 .. m : node # order[a] => next'[node] = next[node]
  <2>1. next \in [ListNodes -> Links] /\ order[a] \in 1 .. m
    BY <1>4 DEF ListType, Looking
  <2>2. next' = [next EXCEPT ![order[a]] = used, ![used] = marker]
    BY <1>1, <1>4 DEF Looking
  <2> QED BY <1>4, <2>1, <2>2 DEF Looking
<1>6. num \in Int /\ a \in 0 .. m /\ a # 0
  BY DEF ListType
<1>7. a # m => num =< val[order[a + 1]]
  <2>1. SUFFICES ASSUME a # m PROVE num =< val[order[a + 1]]
    OBVIOUS
  <2>2. marker = order[a + 1] /\ order[a + 1] \in 1 .. m
    BY <1>4, <2>1 DEF Looking
  <2>3. val[order[a + 1]] \in Int /\ marker # 0
    BY <1>4, <2>2 DEF Looking
  <2> QED BY <1>1, <1>6, <2>2, <2>3
<1>8. \E o : IsList(o, m + 1)'
  <2>1. head' = IF a = 0 THEN m + 1 ELSE head
    BY <1>1, <1>6
  <2>2. \A node \in 1 .. m : /\ val'[node] = val[node] /\ val[node] \in Int
                             /\ a = 0 \/ node # order[a] => next'[node] = next[node]
    BY <1>1, <1>4, <1>5, <1>6 DEF Looking
  <2>3. val'[m + 1] = num /\ IsList(order, m) /\ val[order[a]] =< num
    BY <1>1, <1>4 DEF Looking
  <2>4. next'[order[a]] = m + 1 /\ next'[m + 1] = IF a = m THEN 0 ELSE order[a + 1]
    BY <1>4, <1>5 DEF Looking
  <2> QED BY <1>6, <1>7, <2>1, <2>2, <2>3, <2>4, ListInsert
<1>9. m + 1 = used' /\ used' # 0
  BY <1>1, <1>4 DEF Looking
<1>10. \E o : IsList(o, used)'
  BY <1>8, <1>9 DEF IsList
<1>11. passed'
  BY <1>1 DEF ListInv, Listed, Placing
<1> QED BY <1>1, <1>9, <1>10, <1>11, ListReturned

\* is_sorted goes on from node to node and finds no fault.
LEMMA ListCheck ==
    ASSUME ListType, ListInv, List!CheckNode \/ List!CheckEnd \/ List!CheckFails
    PROVE  ListInv'
<1>1. PICK order : IsList(order, used)
  BY DEF ListInv, Listed, Placing, List!CheckNode, List!CheckEnd, List!CheckFails
<1>2. UNCHANGED <<val, next, used, head>> /\ listPc = "check" /\ used \in Nat
  BY DEF List!CheckNode, List!CheckEnd, List!CheckFails, List!heap, ListType
<1>3. IsList(order, used)'
  BY <1>1, <1>2 DEF IsList
<1>4. temp # 0 => temp \in 1 .. used /\ val[temp] >= max
  BY <1>2 DEF ListInv, Listed, Placing
<1>5. temp = 0 \/ (val[temp] \in Int /\ max \in Int)
  BY <1>2, <1>4 DEF ListType, ListNodes
<1>6. ~List!CheckFails
  BY <1>4, <1>5 DEF List!CheckFails, List!NULL
<1>7. CASE List!CheckNode
  <2>1. temp \in 1 .. used /\ max' = val[temp] /\ temp' = next[temp] /\ listPc' = "check"
        /\ passed' = passed
    BY <1>2, <1>4, <1>7 DEF List!CheckNode, List!NULL
  <2>2. next[temp] # 0 => next[temp] \in 1 .. used /\ val[temp] =< val[next[temp]]
    BY <1>1, <1>2, <2>1, ListEdges
  <2>3. next[temp] # 0 => val[next[temp]] \in Int /\ val[temp] \in Int
    BY <2>1, <2>2 DEF ListType, ListNodes
  <2> QED BY <1>2, <1>3, <2>1, <2>2, <2>3 DEF ListInv, Listed, Placing
<1>8. CASE List!CheckEnd
  BY <1>2, <1>3, <1>8 DEF List!CheckEnd, List!checkVars, ListInv, Listed, Placing
<1> QED BY <1>6, <1>7, <1>8

LEMMA ListKept == ASSUME ListType, ListInv, [List!Next]_listVars PROVE ListType' /\ ListInv'
<1>1. ListType'
  BY ListTypeKept
<1>2. CASE UNCHANGED listVars \/ List!Call \/ List!NoMemory
  <2>1. /\ UNCHANGED <<val, next, used, head, new_node, marker, temp, max, passed>>
        /\ \/ num' = num /\ listPc' = listPc
           \/ listPc = "call" /\ listPc' = "add"
           \/ listPc = "add" /\ listPc' = "crashed"
    BY <1>2 DEF listVars, List!Call, List!NoMemory, List!heap, List!checkVars
  <2>2. ASSUME NEW order, NEW m, IsList(order, m)
        PROVE  IsList(order, m)'
    BY <2>1, <2>2 DEF IsList
  <2>3. ASSUME NEW m, NEW order, m = used, IsList(order, m)
        PROVE  \E o : IsList(o, used)'
    <3>1. IsList(order, m)' /\ m = used'
      BY <2>1, <2>2, <2>3
    <3>2. IsList(order, used)'
      BY <3>1 DEF IsList
    <3> QED BY <3>2
  <2>4. Listed => Listed'
    BY <2>3 DEF Listed
  <2>5. CASE listPc' # listPc
    <3>1. Listed'
      BY <2>1, <2>4, <2>5 DEF ListInv
    <3>2. passed' /\ listPc' # "advance" /\ listPc' # "check"
      BY <2>1, <2>5 DEF ListInv
    <3> QED BY <1>1, <3>1, <3>2 DEF ListInv
  <2>6. CASE listPc' = listPc /\ num' = num
    <3>1. listPc' \in {"call", "add", "check"} => Listed'
      BY <2>4, <2>6 DEF ListInv
    <3>2. ASSUME listPc' = "advance"
          PROVE  Placing'
      <4>1. /\ used > 1 /\ new_node = used /\ val[used] = num
            /\ \E order : /\ IsList(order, used - 1)
                          /\ \E a \in 1 .. used - 1 :
                                /\ next[used] = order[a] /\ val[order[a]] =< num
                                /\ marker = IF a = used - 1 THEN 0 ELSE order[a + 1]
        BY <2>6, <3>2 DEF ListInv, Placing
      <4>2. PICK order :
               /\ IsList(order, used - 1)
               /\ \E a \in 1 .. used - 1 :
                     /\ next[used] = order[a] /\ val[order[a]] =< num
                     /\ marker = IF a = used - 1 THEN 0 ELSE order[a + 1]
        BY <4>1
      <4>3. IsList(order, used - 1)'
        BY <2>1, <4>2 DEF IsList
      <4> QED BY <2>1, <2>6, <4>1, <4>2, <4>3 DEF Placing
    <3>3. listPc' = "check" => temp' = 0 \/ (temp' \in 1 .. used' /\ val'[temp'] >= max')
      BY <2>1, <2>6 DEF ListInv
    <3>4. passed'
      BY <2>1 DEF ListInv
    <3> QED BY <1>1, <3>1, <3>2, <3>3, <3>4 DEF ListInv
  <2> QED BY <2>1, <2>5, <2>6
<1> QED BY <1>1, <1>2, ListFront, ListInside, ListAdvance, ListLinkIn, ListCheck
        DEF List!Next

-----------------------------------------------------------------------------
(* The list is checked and complete after every call.                        *)

\* What the walk along the list satisfies, and only the walk.
IsWalk(w) ==
    w = [a \in 0 .. used |-> IF a = 0 THEN head
                             ELSE IF w[a - 1] = 0 THEN 0 ELSE next[w[a - 1]]]

\* Every set of natural numbers that is not empty has a least element.
LEMMA LeastNat ==
    ASSUME NEW T \in SUBSET Nat, T # {}
    PROVE  \E x \in T : \A y \in T : x =< y
<1>1. \A y, x \in Nat : y < x => <<y, x>> \in OpToRel(<, Nat)
  BY Zenon DEF OpToRel
<1>2. PICK R : /\ IsWellFoundedOn(R, Nat)
               /\ \A y, x \in Nat : y < x => <<y, x>> \in R
  BY <1>1, NatLessThanWellFounded
<1>3. T \subseteq Nat /\ IsWellFoundedOn(R, Nat)
  BY <1>2
<1>4. \E x \in T : \A y \in T : ~ (<<y, x>> \in R)
  BY <1>3, WFMin
<1>5. PICK x \in T : \A y \in T : ~ (<<y, x>> \in R)
  BY <1>4
<1>6. \A y \in T : ~ (y < x)
  BY <1>2, <1>3, <1>5
<1> QED BY <1>3, <1>6

LEMMA WalkUnique ==
    ASSUME used \in Nat, NEW w, IsWalk(w)
    PROVE  List!Walk = w
<1>1. IsWalk(List!Walk)
  <2>1. List!Walk = CHOOSE f : IsWalk(f)
    BY DEF List!Walk, IsWalk, List!NULL
  <2> QED BY <2>1
<1>2. \A a \in 0 .. used : List!Walk[a] = w[a]
  <2> DEFINE T == {a \in 0 .. used : List!Walk[a] # w[a]}
  <2>1. SUFFICES ASSUME T # {} PROVE FALSE
    OBVIOUS
  <2>2. PICK a \in T : \A b \in T : a =< b
    <3>1. T \in SUBSET Nat
      OBVIOUS
    <3> QED BY <2>1, <3>1, LeastNat
  <2>3. CASE a = 0
    BY <1>1, <2>2, <2>3 DEF IsWalk
  <2>4. CASE a # 0
    <3>1. a \in 0 .. used /\ a - 1 \in 0 .. used /\ a - 1 \notin T
      BY <2>2, <2>4
    <3>2. List!Walk[a - 1] = w[a - 1]
      BY <3>1
    <3>3. List!Walk[a] = IF List!Walk[a - 1] = 0 THEN 0 ELSE next[List!Walk[a - 1]]
      BY <1>1, <2>4, <3>1 DEF IsWalk
    <3>4. w[a] = IF w[a - 1] = 0 THEN 0 ELSE next[w[a - 1]]
      BY <2>4, <3>1 DEF IsWalk
    <3> QED BY <2>2, <3>2, <3>3, <3>4
  <2> QED BY <2>3, <2>4
<1> QED BY <1>1, <1>2 DEF IsWalk

\* The walk along a list visits its nodes in order.
LEMMA WalkList ==
    ASSUME ListType, NEW order, IsList(order, used)
    PROVE  /\ \A a \in 1 .. used : List!Walk[a - 1] = order[a]
           /\ List!Walk[used] = 0
<1> DEFINE w == [a \in 0 .. used |-> IF a < used THEN order[a + 1] ELSE 0]
<1>1. used \in Nat /\ used =< MaxLinks /\ MaxLinks \in Nat
  BY DEF ListType
<1>2. \A a \in 1 .. used : order[a] \in 1 .. used /\ order[a] # 0
  <2>1. \A a \in 1 .. used : order[a] \in 1 .. used
    BY DEF IsList
  <2> QED BY <1>1, <2>1
<1>3. ASSUME NEW a \in 0 .. used
      PROVE  w[a] = IF a = 0 THEN head ELSE IF w[a - 1] = 0 THEN 0 ELSE next[w[a - 1]]
  <2>1. CASE a = 0
    <3>1. used = 0 => head = 0
      BY DEF IsList
    <3>2. used # 0 => head = order[1]
      BY DEF IsList
    <3>3. w[0] = IF used = 0 THEN 0 ELSE order[1]
      BY <1>1
    <3> QED BY <2>1, <3>1, <3>2, <3>3
  <2>2. CASE a # 0
    <3>1. a \in 1 .. used /\ a - 1 \in 0 .. used /\ a - 1 < used /\ (a - 1) + 1 = a
      BY <1>1, <2>2
    <3>2. w[a - 1] = order[a]
      BY <3>1
    <3>3. next[order[a]] = IF a = used THEN 0 ELSE order[a + 1]
      BY <3>1 DEF IsList
    <3>4. w[a] = IF a = used THEN 0 ELSE order[a + 1]
      BY <1>1, <3>1
    <3> QED BY <1>2, <2>2, <3>1, <3>2, <3>3, <3>4
  <2> QED BY <2>1, <2>2
<1>4. IsWalk(w)
  BY <1>3 DEF IsWalk
<1>5. List!Walk = w
  BY <1>1, <1>4, WalkUnique
<1>6. \A a \in 1 .. used : a - 1 \in 0 .. used /\ a - 1 < used /\ (a - 1) + 1 = a
  BY <1>1
<1> QED BY <1>1, <1>5, <1>6

LEMMA WalkComplete == ListType /\ ListInv => KeepsAll
<1> SUFFICES ASSUME ListType, ListInv, listPc \in {"check", "call"} PROVE KeepsAll
  BY DEF KeepsAll, List!KeepsAll
<1>1. PICK order : IsList(order, used)
  BY DEF ListInv, Listed
<1>2. \A a \in 1 .. used : List!Walk[a - 1] = order[a]
  BY <1>1, WalkList
<1>3. List!Walk[used] = 0
  BY <1>1, WalkList
<1>4. used \in Nat
  BY DEF ListType
<1>5. {List!Walk[a] : a \in 0 .. used - 1} = 1 .. used
  <2>1. ASSUME NEW a \in 0 .. used - 1
        PROVE  List!Walk[a] \in 1 .. used
    <3>1. a + 1 \in 1 .. used /\ (a + 1) - 1 = a
      BY <1>4
    <3>2. List!Walk[a] = order[a + 1]
      BY <1>2, <3>1
    <3> QED BY <1>1, <3>1, <3>2 DEF IsList
  <2>2. ASSUME NEW node \in 1 .. used
        PROVE  \E a \in 0 .. used - 1 : List!Walk[a] = node
    <3>1. PICK b \in 1 .. used : order[b] = node
      BY <1>1 DEF IsList
    <3>2. b - 1 \in 0 .. used - 1
      BY <1>4
    <3> QED BY <1>2, <3>1, <3>2
  <2> QED BY <2>1, <2>2
<1>6. ASSUME NEW a \in 1 .. used - 1
      PROVE  val[List!Walk[a - 1]] =< val[List!Walk[a]]
  <2>1. a \in 1 .. used /\ a + 1 \in 1 .. used /\ (a + 1) - 1 = a
    BY <1>4
  <2>2. List!Walk[a - 1] = order[a] /\ List!Walk[a] = order[a + 1]
    BY <1>2, <2>1
  <2> QED BY <1>1, <2>2 DEF IsList
<1>7. Len(added) = used /\ \A node \in 1 .. used : val[node] = added[node]
  BY DEF ListType
<1> QED BY <1>3, <1>5, <1>6, <1>7 DEF KeepsAll, List!KeepsAll, List!NULL

LEMMA ListInvariant == Spec => [](ListType /\ ListInv)
<1>1. Init => ListType /\ ListInv
  BY ListTypeInit, ListInit DEF Init
<1>2. ListType /\ ListInv /\ [Next]_vars => (ListType /\ ListInv)'
  <2> SUFFICES ASSUME ListType, ListInv, [Next]_vars PROVE ListType' /\ ListInv'
    OBVIOUS
  <2>1. [List!Next]_listVars
    BY DEF Next, vars
  <2> QED BY <2>1, ListKept
<1> QED BY <1>1, <1>2, PTL DEF Spec

\* assignment1/sorted_ll.c: whatever numbers are added, is_sorted finds no fault with
\* the list of any of the test cases.
THEOREM ListAlwaysSorted == Spec => []AssertsPass
<1>1. ListInv => AssertsPass
  BY DEF ListInv, AssertsPass, List!AssertsPass
<1> QED BY <1>1, ListInvariant, PTL

\* assignment1/sorted_ll.c: add_link loses no node and no number: after each call the
\* list visits every node that was made, in order, and ends.
THEOREM ListKeepsAll == Spec => []KeepsAll
<1> QED BY WalkComplete, ListInvariant, PTL

-----------------------------------------------------------------------------
(* DrawMe.                                                                   *)

LetterSet == {Draw!Letters[place] : place \in 1 .. 6}

\* The list is linked when name_list is done.  Unless a write was short or an unlink
\* failed, the file between the calls of draw_me is all there or not there.  Unless the
\* write failed, the one descriptor is open only while it is written to.
DrawInv ==
    /\ Len(Draw!Letters) = 6 /\ elements \in Seq(LetterSet) /\ Len(elements) =< 6
    /\ link \in [1 .. 6 -> 0 .. 6]
    /\ drawPc \notin {"malloc", "crashed"} =>
          Len(elements) = 6 /\ \A place \in 1 .. 6 : link[place] = (place + 1) % 7
    /\ ~spoiled =>
          /\ drawPc \in {"malloc", "crashed", "open", "returned"} => file \in {"none", "all"}
          /\ drawPc = "close" => file = "all"
    /\ drawPc \in {"malloc", "open"} => drawFiles = 0
    /\ ~failed => drawFiles = IF drawPc \in {"write", "close"} THEN 1 ELSE 0

LEMMA DrawInit == Draw!Init => DrawInv
<1> SUFFICES ASSUME Draw!Init PROVE DrawInv
  OBVIOUS
<1>1. Len(Draw!Letters) = 6
  BY DEF Draw!Letters
<1>2. elements \in Seq(LetterSet) /\ Len(elements) = 0
  BY DEF Draw!Init
<1> QED BY <1>1, <1>2 DEF Draw!Init, DrawInv

LEMMA DrawKept == ASSUME DrawInv, [Draw!Next]_drawVars PROVE DrawInv'
<1>1. CASE UNCHANGED drawVars
  BY <1>1 DEF drawVars, DrawInv, Draw!Letters, LetterSet
<1>2. CASE Draw!Malloc
  <2>1. Draw!Letters[Len(elements) + 1] \in LetterSet
    <3>1. Len(elements) + 1 \in 1 .. 6
      BY <1>2 DEF Draw!Malloc, DrawInv
    <3> QED BY <3>1 DEF LetterSet
  <2>2. elements' \in Seq(LetterSet) /\ Len(elements') =< 6
    BY <1>2, <2>1 DEF Draw!Malloc, DrawInv
  <2> QED BY <1>2, <2>2 DEF Draw!Malloc, Draw!fileVars, DrawInv, Draw!Letters, LetterSet
<1>3. CASE Draw!SetLinks
  <2>1. link' = [place \in 1 .. 6 |-> (place + 1) % 7] /\ Len(elements) = 6
    BY <1>3 DEF Draw!SetLinks, DrawInv
  <2>2. link' \in [1 .. 6 -> 0 .. 6] /\ \A place \in 1 .. 6 : link'[place] = (place + 1) % 7
    BY <2>1
  <2> QED BY <1>3, <2>1, <2>2 DEF Draw!SetLinks, Draw!fileVars, DrawInv, Draw!Letters, LetterSet
<1>4. CASE Draw!Open
  BY <1>4 DEF Draw!Open, Draw!listVars, DrawInv, Draw!Letters, LetterSet
<1>5. CASE Draw!Write
  BY <1>5 DEF Draw!Write, Draw!listVars, DrawInv, Draw!Letters, LetterSet
<1>6. CASE Draw!Close
  <2>1. /\ drawPc = "close" /\ drawPc' \in {"returned", "unlink"}
        /\ drawPc' = "returned" => file' = file
        /\ UNCHANGED <<elements, link, spoiled, failed>> /\ drawFiles' = drawFiles - 1
    BY <1>6 DEF Draw!Close, Draw!listVars
  <2> QED BY <2>1 DEF DrawInv, Draw!Letters, LetterSet
<1>7. CASE Draw!Unlink
  BY <1>7 DEF Draw!Unlink, Draw!listVars, DrawInv, Draw!Letters, LetterSet
<1>8. CASE Draw!Restart
  <2>1. link' \in [1 .. 6 -> 0 .. 6] /\ elements' \in Seq(LetterSet) /\ Len(elements') = 0
    BY <1>8 DEF Draw!Restart, DrawInv
  <2> QED BY <1>8, <2>1 DEF Draw!Restart, DrawInv, Draw!Letters, LetterSet
<1> QED BY <1>1, <1>2, <1>3, <1>4, <1>5, <1>6, <1>7, <1>8 DEF Draw!Next

\* assignment1/assign1.c: name_list returns a list of all its elements, and draw_me
\* leaves all of the file or nothing, however often it is run and whichever of its
\* calls fail, unless a write is short or an unlink fails; and it returns with the file
\* closed, unless the write has failed.
THEOREM DrawLeavesNoTrash == Spec => []NoTrash
<1>1. Init => DrawInv
  BY DrawInit DEF Init
<1>2. DrawInv /\ [Next]_vars => DrawInv'
  <2>1. [Next]_vars => [Draw!Next]_drawVars
    BY DEF Next, vars
  <2> QED BY <2>1, DrawKept
<1>3. DrawInv => NoTrash
  <2> SUFFICES ASSUME DrawInv PROVE NoTrash
    OBVIOUS
  <2>1. ASSUME drawPc \notin {"malloc", "crashed"}, NEW place \in DOMAIN elements
        PROVE  place = 1 \/ \E other \in DOMAIN elements : link[other] = place
    <3>1. place \in 1 .. 6 /\ DOMAIN elements = 1 .. 6
      BY <2>1 DEF DrawInv
    <3>2. place # 1 => place - 1 \in 1 .. 6 /\ link[place - 1] = place
      BY <2>1, <3>1 DEF DrawInv
    <3> QED BY <3>1, <3>2
  <2> QED BY <2>1 DEF DrawInv, NoTrash, Draw!NoTrash
<1> QED BY <1>1, <1>2, <1>3, PTL DEF Spec

-----------------------------------------------------------------------------
(* ChecksumLoop.                                                             *)

\* The files before f that can be opened, as far as they go.
OpenableBefore(f) == {g \in Sum!Entries : g < f /\ Sum!Openable(g)}

Done == {f \in Sum!Regular : f < n}

\* Where the loop is, and of which files there are lines.
SumType ==
    /\ numFiles \in Nat /\ MaxOpen \in Nat /\ n \in 0 .. numFiles
    /\ sumPc \in {"next", "open", "size", "read", "error", "crashed", "exited"}
    /\ sumPc \in {"open", "size", "read"} => n \in Sum!Regular
    /\ sumPc = "exited" => n = numFiles
    /\ sumPc = "error" => n < numFiles
    /\ printed \in [Done -> Int]

\* No file that was opened is closed: they are as many as can be opened of those
\* before, up to the limit.  The lines printed so far are right.
SumInv ==
    /\ sumPc \in {"next", "open"} =>
          sumFiles = IF Cardinality(OpenableBefore(n)) < MaxOpen
                     THEN Cardinality(OpenableBefore(n)) ELSE MaxOpen
    /\ sumPc \in {"size", "read"} =>
          /\ Sum!Openable(n) /\ Cardinality(OpenableBefore(n)) < MaxOpen
          /\ sumFiles = Cardinality(OpenableBefore(n)) + 1
    /\ sumPc = "read" => Sum!FileLength(n) # "zero"
    /\ \A f \in Done : printed[f] \in Sum!Answers(f)

\* One file more before: it counts if it can be opened.
LEMMA OneMore ==
    ASSUME NEW f \in Nat, f \in Sum!Entries, numFiles \in Nat
    PROVE  /\ Cardinality(OpenableBefore(f)) \in Nat
           /\ Cardinality(OpenableBefore(f + 1)) =
                 Cardinality(OpenableBefore(f)) + (IF Sum!Openable(f) THEN 1 ELSE 0)
<1>1. IsFiniteSet(OpenableBefore(f))
  <2>1. OpenableBefore(f) \subseteq 0 .. numFiles
    BY DEF OpenableBefore, Sum!Entries
  <2>2. IsFiniteSet(0 .. numFiles)
    BY FS_Interval
  <2> QED BY <2>1, <2>2, FS_Subset
<1>2. Cardinality(OpenableBefore(f)) \in Nat /\ f \notin OpenableBefore(f)
  BY <1>1, FS_CardinalityType DEF OpenableBefore
<1>3. CASE Sum!Openable(f)
  <2>1. OpenableBefore(f + 1) = OpenableBefore(f) \cup {f}
    BY <1>3 DEF OpenableBefore, Sum!Entries
  <2> QED BY <1>1, <1>2, <1>3, <2>1, FS_AddElement
<1>4. CASE ~Sum!Openable(f)
  <2>1. OpenableBefore(f + 1) = OpenableBefore(f)
    BY <1>4 DEF OpenableBefore, Sum!Entries
  <2> QED BY <1>2, <1>4, <2>1
<1> QED BY <1>2, <1>3, <1>4

\* The descriptors are counted.
LEMMA ExhaustedFacts ==
    ASSUME NEW f
    PROVE  Sum!Exhausted(f) <=> Cardinality(OpenableBefore(f)) >= MaxOpen
BY Zenon DEF Sum!Exhausted, OpenableBefore, Sum!Cardinality, Cardinality

\* What may be printed of a file, by what becomes of it.
LEMMA AnswersFacts ==
    ASSUME NEW f \in Nat, numFiles \in Nat, entry[f] \in Sum!Kinds
    PROVE  /\ entry[f] = "noaccess" \/ Sum!Exhausted(f) => Sum!AccessError \in Sum!Answers(f)
           /\ entry[f] # "noaccess" /\ Sum!FileLength(f) = "zero" => 0 \in Sum!Answers(f)
           /\ Sum!Openable(f) /\ Sum!FileLength(f) # "zero" =>
                 Sum!BufferCrc(f) \in Sum!Answers(f)
           /\ Sum!BufferCrc(f) \in Int
<1>1. entry[f] = "noaccess" \/ Sum!Exhausted(f) => Sum!AccessError \in Sum!Answers(f)
  BY DEF Sum!Answers, Sum!Required
<1>2. entry[f] # "noaccess" /\ Sum!FileLength(f) = "zero" => 0 \in Sum!Answers(f)
  BY DEF Sum!Answers, Sum!Required, Sum!FileLength, Sum!Crc
<1>3. Sum!Openable(f) /\ Sum!FileLength(f) # "zero" => Sum!BufferCrc(f) \in Sum!Answers(f)
  BY DEF Sum!Answers, Sum!Required, Sum!FileLength, Sum!BufferCrc, Sum!Openable
<1>4. Sum!BufferCrc(f) \in Int
  BY DEF Sum!BufferCrc, Sum!Prefix, Sum!Garbage, Sum!Crc
<1> QED BY <1>1, <1>2, <1>3, <1>4

\* A line is printed of file n, and the loop goes on to the next.
LEMMA PrintedLine ==
    ASSUME SumType, SumInv, n \in Sum!Regular, n' = n + 1,
           NEW answer \in Int, answer \in Sum!Answers(n), Sum!PrintLine(answer)
    PROVE  /\ printed' \in [Done' -> Int]
           /\ \A f \in Done' : printed'[f] \in Sum!Answers(f)
<1>1. n \notin Done /\ DOMAIN printed = Done
  BY DEF SumType, Done
<1>2. Done' = Done \cup {n}
  <2>1. \A f \in Sum!Regular : f \in Nat /\ (f < n + 1 <=> f < n \/ f = n)
    BY DEF Sum!Regular, Sum!Entries, SumType
  <2> QED BY <2>1 DEF Done
<1>3. printed' = [f \in Done' |-> IF f = n THEN answer ELSE printed[f]]
  BY <1>1, <1>2 DEF Sum!PrintLine
<1> QED BY <1>2, <1>3 DEF SumType, SumInv

LEMMA SumInit == Sum!Init => SumType /\ SumInv
<1> SUFFICES ASSUME Sum!Init PROVE SumType /\ SumInv
  OBVIOUS
<1>1. numFiles \in Nat /\ MaxOpen \in Nat
  BY InstancesAssumption DEF Sum!Assumptions
<1>2. n = 0 /\ sumFiles = 0 /\ sumPc = "next" /\ printed = <<>>
  BY DEF Sum!Init
<1>3. Done = {} /\ OpenableBefore(n) = {}
  BY <1>1, <1>2 DEF Done, OpenableBefore, Sum!Regular, Sum!Entries
<1>4. printed \in [Done -> Int] /\ Cardinality(OpenableBefore(n)) = 0
  BY <1>2, <1>3, FS_EmptySet
<1> QED BY <1>1, <1>2, <1>3, <1>4 DEF SumType, SumInv

LEMMA SumKept == ASSUME SumType, SumInv, [Sum!Next]_sumVars PROVE SumType' /\ SumInv'
<1>1. /\ n \in Sum!Entries => /\ Cardinality(OpenableBefore(n)) \in Nat
                             /\ Cardinality(OpenableBefore(n + 1)) =
                                   Cardinality(OpenableBefore(n)) + (IF Sum!Openable(n) THEN 1 ELSE 0)
      /\ n \in 0 .. numFiles /\ numFiles \in Nat /\ MaxOpen \in Nat
      /\ n < numFiles => n \in Sum!Entries /\ n + 1 \in 0 .. numFiles
  BY OneMore DEF SumType, Sum!Entries
<1>2. n \in Sum!Regular => n \in Sum!Entries /\ n < numFiles
  BY <1>1 DEF Sum!Regular, Sum!Entries
<1>2a. n \in Sum!Regular => n \in Nat /\ numFiles \in Nat /\ entry[n] \in Sum!Kinds
  BY <1>1, <1>2, InstancesAssumption DEF Sum!Assumptions
<1>3. CASE UNCHANGED sumVars
  BY <1>3 DEF sumVars, SumType, SumInv, Done, OpenableBefore
<1>4. CASE Sum!Skip
  <2>1. n < numFiles /\ n \notin Sum!Regular /\ n' = n + 1 /\ sumPc = "next"
        /\ UNCHANGED <<sumFiles, printed, sumPc>>
    BY <1>4 DEF Sum!Skip
  <2>2. Done' = Done
    <3>1. \A f \in Sum!Regular : f \in Nat /\ f # n
      BY <2>1 DEF Sum!Regular, Sum!Entries
    <3> QED BY <1>1, <2>1, <3>1 DEF Done
  <2>3. ~Sum!Openable(n)
    BY <1>1, <2>1 DEF Sum!Openable, Sum!Regular
  <2>4. Cardinality(OpenableBefore(n)') = Cardinality(OpenableBefore(n))
    BY <1>1, <2>1, <2>3 DEF OpenableBefore
  <2> QED BY <1>1, <2>1, <2>2, <2>4 DEF SumType, SumInv
<1>5. CASE Sum!Name
  <2>1. /\ n < numFiles /\ n \in Sum!Regular /\ sumPc = "next"
        /\ sumPc' \in {"open", "error"} /\ UNCHANGED <<n, sumFiles, printed>>
    BY <1>5 DEF Sum!Name
  <2> QED BY <2>1 DEF SumType, SumInv, Done, OpenableBefore
<1>6. CASE Sum!Open
  <2>1. n \in Sum!Regular /\ sumPc = "open"
    BY <1>6 DEF Sum!Open, SumType
  <2>2. CASE entry[n] = "noaccess" \/ sumFiles >= MaxOpen
    <3>1. /\ Sum!PrintLine(Sum!AccessError) /\ n' = n + 1 /\ sumPc' = "next"
          /\ sumFiles' = sumFiles
      BY <1>6, <2>2 DEF Sum!Open
    <3>2. ~Sum!Openable(n) \/ Cardinality(OpenableBefore(n)) >= MaxOpen
      BY <1>1, <1>2, <2>1, <2>2 DEF SumInv, Sum!Openable
    <3>3. Sum!AccessError \in Int /\ Sum!AccessError \in Sum!Answers(n)
      <4>1. entry[n] = "noaccess" \/ Sum!Exhausted(n)
        BY <2>1, <3>2, ExhaustedFacts DEF Sum!Openable, Sum!Regular
      <4> QED BY <1>2a, <2>1, <4>1, AnswersFacts DEF Sum!AccessError
    <3>4. printed' \in [Done' -> Int] /\ \A f \in Done' : printed'[f] \in Sum!Answers(f)
      BY <2>1, <3>1, <3>3, PrintedLine
    <3>5. /\ Cardinality(OpenableBefore(n)') =
                Cardinality(OpenableBefore(n)) + (IF Sum!Openable(n) THEN 1 ELSE 0)
      BY <1>1, <1>2, <2>1, <3>1 DEF OpenableBefore
    <3>6. sumFiles' = IF Cardinality(OpenableBefore(n)') < MaxOpen
                      THEN Cardinality(OpenableBefore(n)') ELSE MaxOpen
      BY <1>1, <1>2, <2>1, <3>1, <3>2, <3>5 DEF SumInv
    <3> QED BY <1>1, <1>2, <2>1, <3>1, <3>4, <3>6 DEF SumType, SumInv
  <2>3. CASE ~(entry[n] = "noaccess" \/ sumFiles >= MaxOpen)
    <3>1. sumFiles' = sumFiles + 1 /\ sumPc' = "size" /\ UNCHANGED <<n, printed>>
      BY <1>6, <2>3 DEF Sum!Open
    <3>2. Sum!Openable(n)
      BY <2>1, <2>3 DEF Sum!Openable, Sum!Regular
    <3>3. Cardinality(OpenableBefore(n)) < MaxOpen /\ sumFiles = Cardinality(OpenableBefore(n))
      BY <1>1, <1>2, <2>1, <2>3 DEF SumInv
    <3> QED BY <2>1, <3>1, <3>2, <3>3 DEF SumType, SumInv, Done, OpenableBefore
  <2> QED BY <2>2, <2>3
<1>7. ASSUME n \in Sum!Regular, n' = n + 1, sumPc \in {"size", "read"}, sumPc' = "next", sumFiles' = sumFiles,
             NEW answer \in Int, answer \in Sum!Answers(n), Sum!PrintLine(answer)
      PROVE  SumType' /\ SumInv'
  <2>1. printed' \in [Done' -> Int] /\ \A f \in Done' : printed'[f] \in Sum!Answers(f)
    BY <1>7, PrintedLine
  <2>2. Cardinality(OpenableBefore(n)') = Cardinality(OpenableBefore(n)) + 1
    BY <1>1, <1>2, <1>7 DEF SumInv, OpenableBefore
  <2>3. sumFiles' = IF Cardinality(OpenableBefore(n)') < MaxOpen
                    THEN Cardinality(OpenableBefore(n)') ELSE MaxOpen
    BY <1>1, <1>2, <1>7, <2>2 DEF SumInv
  <2> QED BY <1>1, <1>2, <1>7, <2>1, <2>3 DEF SumType, SumInv
<1>9. CASE Sum!Size
  <2>1. n \in Sum!Regular /\ sumPc = "size" /\ sumFiles' = sumFiles
    BY <1>9 DEF Sum!Size, SumType
  <2>2. CASE Sum!FileLength(n) = "zero"
    <3>1. 0 \in Sum!Answers(n)
      BY <1>2a, <2>1, <2>2, AnswersFacts DEF SumInv, Sum!Openable
    <3> QED BY <1>7, <1>9, <2>1, <2>2, <3>1 DEF Sum!Size
  <2>3. CASE Sum!FileLength(n) # "zero"
    <3>1. sumPc' = "read" /\ UNCHANGED <<n, printed>>
      BY <1>9, <2>3 DEF Sum!Size
    <3> QED BY <2>1, <2>3, <3>1 DEF SumType, SumInv, Done, OpenableBefore
  <2> QED BY <2>2, <2>3
<1>10. CASE Sum!Sum
  <2>1. n \in Sum!Regular /\ sumPc = "read" /\ sumFiles' = sumFiles /\ Sum!FileLength(n) # "zero"
    BY <1>10 DEF Sum!Sum, SumType, SumInv
  <2>2. CASE n' = n + 1 /\ sumPc' = "next" /\ Sum!PrintLine(Sum!BufferCrc(n))
    <3>1. Sum!BufferCrc(n) \in Int /\ Sum!BufferCrc(n) \in Sum!Answers(n)
      BY <1>2a, <2>1, AnswersFacts DEF SumInv
    <3> QED BY <1>7, <2>1, <2>2, <3>1
  <2>3. CASE sumPc' \in {"error", "crashed"} /\ UNCHANGED <<n, printed>>
    BY <1>1, <1>2, <2>1, <2>3 DEF SumType, SumInv, Done, OpenableBefore
  <2> QED BY <1>10, <2>2, <2>3 DEF Sum!Sum
<1>11. CASE Sum!Release
  <2>1. n = numFiles /\ sumPc' \in {"exited", "crashed"} /\ UNCHANGED <<n, sumFiles, printed>>
    BY <1>11 DEF Sum!Release
  <2> QED BY <2>1 DEF SumType, SumInv, Done, OpenableBefore
<1> QED BY <1>3, <1>4, <1>5, <1>6, <1>9, <1>10, <1>11 DEF Sum!Next

\* assignment4/problem_2.c: the loop prints what ChecksumReport allows: each regular
\* file is worked on once, in turn, and one report comes out, after the last, with
\* an answer of Answers(f) in the place of each file f.
THEOREM LoopReports == Spec => SumReport
<1> DEFINE finished == {f \in Sum!Regular : f < n}
           report == IF n = numFiles /\ sumPc # "next" THEN printed ELSE <<>>
<1>1. Init => Sum!SumOf!Init
  <2> SUFFICES ASSUME Init PROVE Sum!SumOf!Init
    OBVIOUS
  <2>1. n = 0 /\ sumPc = "next"
    BY DEF Init, Sum!Init
  <2>2. finished = {}
    BY <2>1 DEF Sum!Regular, Sum!Entries
  <2> QED BY <2>1, <2>2 DEF Sum!SumOf!Init
<1>2. SumType /\ SumInv /\ [Next]_vars => [Sum!SumOf!Next]_<<finished, report>>
  <2> SUFFICES ASSUME SumType, SumInv, [Next]_vars
               PROVE  Sum!SumOf!Next \/ UNCHANGED <<finished, report>>
    OBVIOUS
  <2>1. [Sum!Next]_sumVars
    BY DEF Next, vars
  <2>2. n \in 0 .. numFiles /\ numFiles \in Nat
    BY DEF SumType
  <2>3. \A f \in Sum!Regular : f \in Nat /\ f < numFiles
    BY <2>2 DEF Sum!Regular, Sum!Entries
  <2>4. CASE n < numFiles /\ n' = n
    BY <2>2, <2>4
  <2>5. CASE Sum!Skip
    <3>1. n' = n + 1 /\ sumPc = "next" /\ sumPc' = "next" /\ n \notin Sum!Regular
      BY <2>5 DEF Sum!Skip
    <3>2. finished' = finished
      <4>1. \A f \in Sum!Regular : f < n + 1 <=> f < n
        BY <2>2, <2>3, <3>1
      <4> QED BY <3>1, <4>1
    <3> QED BY <3>1, <3>2
  <2>6. CASE n' = n + 1 /\ sumPc' = "next" /\ n \in Sum!Regular
    <3>1. n < numFiles /\ report = <<>> /\ report' = <<>>
      BY <2>2, <2>3, <2>6
    <3>2. n \notin finished /\ finished' = finished \cup {n}
      <4>1. \A f \in Sum!Regular : f < n + 1 <=> f < n \/ f = n
        BY <2>2, <2>3
      <4>2. finished' = {f \in Sum!Regular : f < n + 1}
        BY <2>6
      <4>3. ~(n < n)
        BY <2>2
      <4> QED BY <2>6, <4>1, <4>2, <4>3
    <3> QED BY <2>6, <3>1, <3>2 DEF Sum!SumOf!Next, Sum!SumOf!Finish
  <2>7. CASE Sum!Release
    <3>1. n = numFiles /\ sumPc = "next" /\ sumPc' # "next" /\ n' = n /\ printed' = printed
      BY <2>7 DEF Sum!Release
    <3>2. finished = Sum!Regular /\ Done = Sum!Regular
      BY <2>3, <3>1 DEF Done
    <3>3. printed \in [Sum!Regular -> UNION {Sum!Answers(f) : f \in Sum!Regular}]
          /\ \A f \in Sum!Regular : printed[f] \in Sum!Answers(f)
      BY <3>2 DEF SumType, SumInv
    <3>4. report' = printed /\ finished' = finished
      BY <3>1
    <3> QED BY <3>2, <3>3, <3>4 DEF Sum!SumOf!Next, Sum!SumOf!Report
  <2>8. CASE UNCHANGED sumVars
    BY <2>8 DEF sumVars
  <2>9. CASE Sum!Name
    BY <2>4, <2>9 DEF Sum!Name
  <2>10. CASE Sum!Open \/ Sum!Size \/ Sum!Sum
    <3>1. n \in Sum!Regular /\ (n' = n \/ (n' = n + 1 /\ sumPc' = "next"))
      BY <2>10 DEF Sum!Open, Sum!Size, Sum!Sum, SumType
    <3> QED BY <2>3, <2>4, <2>6, <3>1
  <2> QED BY <2>1, <2>5, <2>7, <2>8, <2>9, <2>10 DEF Sum!Next
<1>3. Init => SumType /\ SumInv
  BY SumInit DEF Init
<1>4. SumType /\ SumInv /\ [Next]_vars => (SumType /\ SumInv)'
  <2>1. [Next]_vars => [Sum!Next]_sumVars
    BY DEF Next, vars
  <2> QED BY <2>1, SumKept
<1> QED BY <1>1, <1>2, <1>3, <1>4, PTL DEF Spec, SumReport, Sum!SumReport, Sum!SumOf!Spec

\* The files have lengths that an int can hold and do not change, or cannot be opened,
\* and there are descriptors for all of them.
OrdinaryEntries ==
    \A f \in Sum!Entries :
        entry[f] \in {"good", "empty", "noaccess", "other"} /\ ~Sum!Exhausted(f)

\* Of such a directory the loop prints nothing but the checksum of each file, and that
\* the others cannot be accessed: problem_2.c:5 and 11.
THEOREM RequiredLinesTheorem == ASSUME OrdinaryEntries PROVE Spec => []Sum!RequiredLines
<1>1. Init => SumType /\ SumInv
  BY SumInit DEF Init
<1>2. SumType /\ SumInv /\ [Next]_vars => (SumType /\ SumInv)'
  <2>1. [Next]_vars => [Sum!Next]_sumVars
    BY DEF Next, vars
  <2> QED BY <2>1, SumKept
<1>3. SumType /\ SumInv => Sum!RequiredLines
  <2> SUFFICES ASSUME SumType, SumInv, NEW f \in DOMAIN printed
               PROVE  printed[f] = Sum!Required(f)
    BY DEF Sum!RequiredLines
  <2>1. f \in Done /\ f \in Sum!Entries /\ printed[f] \in Sum!Answers(f)
    BY DEF SumType, SumInv, Done, Sum!Regular
  <2>2. Sum!Answers(f) = {Sum!Required(f)}
    BY <2>1, OrdinaryEntries DEF OrdinaryEntries, Sum!Answers
  <2> QED BY <2>1, <2>2
<1> QED BY <1>1, <1>2, <1>3, PTL DEF Spec

-----------------------------------------------------------------------------
(* Powers, and division with a remainder.                                    *)

\* The quotient and the remainder.
LEMMA DivMod ==
    ASSUME NEW w \in Nat, w > 0, NEW v \in Nat
    PROVE  /\ v \div w \in Nat /\ v % w \in 0 .. w - 1
           /\ w * (v \div w) + (v % w) = v
<1>1. v \div w \in Int /\ v % w \in 0 .. w - 1
  OBVIOUS
<1>2. v % w = v - w * (v \div w)
  OBVIOUS
<1>3. ASSUME NEW q \in Int, NEW r \in 0 .. w - 1, v = w * q + r
      PROVE  q >= 0
  BY <1>3
<1>4. PICK q \in Int, r \in 0 .. w - 1 : q = v \div w /\ r = v % w
  BY <1>1
<1>5. w * q \in Int /\ v = w * q + r
  BY <1>2, <1>4
<1>6. q \in Nat
  BY <1>3, <1>5
<1> QED BY <1>4, <1>5, <1>6

\* They are the only ones.
LEMMA DivModOnly ==
    ASSUME NEW w \in Nat, w > 0, NEW q \in Nat, NEW r \in 0 .. w - 1
    PROVE  (w * q + r) \div w = q /\ (w * q + r) % w = r
<1>1. (w * q + r) \div w = q
  OBVIOUS
<1>2. (w * q + r) % w = r
  OBVIOUS
<1> QED BY <1>1, <1>2

\* A value in base b: its part at place w and above, one digit taken off.
LEMMA DivDiv ==
    ASSUME NEW w \in Nat, w > 0, NEW b \in Nat, b > 0, NEW v \in Nat
    PROVE  v \div (b * w) = (v \div w) \div b
<1>1. PICK q \in Nat, r \in 0 .. w - 1 : q = v \div w /\ w * q + r = v
  BY DivMod
<1>2. PICK x \in Nat, d \in 0 .. b - 1 : x = q \div b /\ b * x + d = q
  BY DivMod
<1>3. w * d + r \in 0 .. b * w - 1
  <2>1. w * d \in Nat /\ w * (b - 1 - d) >= 0
    OBVIOUS
  <2>2. w * (b - 1 - d) = b * w - w - w * d
    OBVIOUS
  <2> QED BY <2>1, <2>2
<1>4. b * w \in Nat /\ b * w > 0
  OBVIOUS
<1>5. v = (b * w) * x + (w * d + r)
  <2>1. w * (b * x + d) = (b * w) * x + w * d
    OBVIOUS
  <2> QED BY <1>1, <1>2, <2>1
<1>6. v \div (b * w) = x
  BY <1>3, <1>4, <1>5, DivModOnly
<1> QED BY <1>1, <1>2, <1>6

\* A recursion over 0 .. m, each value from the one before, has a solution.
LEMMA Recursion ==
    ASSUME NEW m \in Nat, NEW c \in Int, NEW A \in [1 .. m -> Int], NEW B \in [1 .. m -> Int]
    PROVE  \E f \in [0 .. m -> Int] :
              f[0] = c /\ \A a \in 1 .. m : f[a] = A[a] * f[a - 1] + B[a]
<1> DEFINE Solves(f, l) ==
             /\ f \in [0 .. l -> Int] /\ f[0] = c
             /\ \A a \in 1 .. l : f[a] = A[a] * f[a - 1] + B[a]
           Bad == {l \in 0 .. m : ~ \E f : Solves(f, l)}
<1>1. \A l \in 0 .. m : l \in Bad <=> ~ \E f : Solves(f, l)
  OBVIOUS
<1>2. Bad \in SUBSET (0 .. m)
  OBVIOUS
<1> HIDE DEF Bad
<1>3. ASSUME Bad # {} PROVE FALSE
  <2>1. PICK l \in Bad : \A other \in Bad : l =< other
    <3>1. Bad \in SUBSET Nat
      BY <1>2
    <3> QED BY <1>3, <3>1, LeastNat
  <2>2. CASE l = 0
    <3>1. Solves([a \in 0 .. 0 |-> c], 0)
      OBVIOUS
    <3> QED BY <1>1, <1>2, <2>1, <2>2, <3>1
  <2>3. CASE l # 0
    <3>1. l - 1 \in 0 .. m /\ l - 1 \notin Bad /\ l \in 1 .. m
      BY <1>2, <2>1, <2>3
    <3>2. PICK f : Solves(f, l - 1)
      BY <1>1, <3>1
    <3> DEFINE g == [a \in 0 .. l |-> IF a = l THEN A[l] * f[l - 1] + B[l] ELSE f[a]]
    <3>3. g \in [0 .. l -> Int] /\ g[0] = c
      <4>1. f[l - 1] \in Int /\ A[l] \in Int /\ B[l] \in Int
        BY <3>1, <3>2
      <4>2. A[l] * f[l - 1] + B[l] \in Int
        BY <4>1
      <4>3. \A a \in 0 .. l : a # l => a \in 0 .. l - 1
        BY <3>1
      <4> QED BY <3>1, <3>2, <4>2, <4>3
    <3>4. \A a \in 1 .. l : g[a] = A[a] * g[a - 1] + B[a]
      <4>1. \A a \in 1 .. l : /\ a \in 0 .. l /\ a - 1 \in 0 .. l /\ a - 1 # l
                              /\ a # l => a \in 1 .. l - 1
        BY <3>1
      <4> QED BY <3>2, <4>1
    <3>5. Solves(g, l)
      BY <3>3, <3>4
    <3> QED BY <1>1, <1>2, <2>1, <3>5
  <2> QED BY <2>2, <2>3
<1>4. m \notin Bad /\ m \in 0 .. m
  BY <1>3
<1>5. \E f : Solves(f, m)
  BY <1>1, <1>4
<1>6. PICK f : Solves(f, m)
  BY <1>5
<1> QED BY <1>6

IsProduct(f, b, m) == f = [a \in 0 .. m |-> IF a = 0 THEN 1 ELSE b * f[a - 1]]

\* A power is the last of a chain of products.
LEMMA PowerChain ==
    ASSUME NEW b \in Nat, NEW m \in Nat
    PROVE  \E f \in [0 .. m -> Int] : IsProduct(f, b, m) /\ Power(b, m) = f[m]
<1>1. \E f : IsProduct(f, b, m)
  <2> DEFINE A == [a \in 1 .. m |-> b]
             B == [a \in 1 .. m |-> 0]
  <2>1. A \in [1 .. m -> Int] /\ B \in [1 .. m -> Int]
    OBVIOUS
  <2>2. \A a \in 1 .. m : A[a] = b /\ B[a] = 0
    OBVIOUS
  <2> HIDE DEF A, B
  <2>3. PICK f \in [0 .. m -> Int] : f[0] = 1 /\ \A a \in 1 .. m : f[a] = A[a] * f[a - 1] + B[a]
    <3>1. 1 \in Int
      OBVIOUS
    <3>2. PICK c \in Int : c = 1
      BY <3>1
    <3>3. \E f \in [0 .. m -> Int] : f[0] = c /\ \A a \in 1 .. m : f[a] = A[a] * f[a - 1] + B[a]
      BY <2>1, Recursion, Zenon
    <3> QED BY <3>2, <3>3
  <2>4. ASSUME NEW a \in 0 .. m
        PROVE  f[a] = IF a = 0 THEN 1 ELSE b * f[a - 1]
    <3>1. a # 0 => a \in 1 .. m /\ f[a - 1] \in Int
      BY <2>3
    <3>2. a # 0 => f[a] = b * f[a - 1] + 0
      BY <2>3, <2>2, <3>1
    <3>3. a = 0 => f[a] = 1
      BY <2>3
    <3> QED BY <3>1, <3>2, <3>3
  <2> QED BY <2>3, <2>4 DEF IsProduct
<1> DEFINE f == CHOOSE f : IsProduct(f, b, m)
<1>2. IsProduct(f, b, m)
  BY <1>1
<1>3. Power(b, m) = f[m]
  BY DEF Power, IsProduct
<1> HIDE DEF f
<1>4. f \in [0 .. m -> Int]
  <2> DEFINE Bad == {a \in 0 .. m : f[a] \notin Int}
  <2>1. SUFFICES ASSUME Bad # {} PROVE FALSE
    BY <1>2 DEF IsProduct
  <2>2. PICK a \in Bad : \A other \in Bad : a =< other
    <3>1. Bad \in SUBSET Nat
      OBVIOUS
    <3> QED BY <2>1, <3>1, LeastNat
  <2>3. CASE a = 0
    BY <1>2, <2>2, <2>3 DEF IsProduct
  <2>4. CASE a # 0
    <3>1. a - 1 \in 0 .. m /\ a - 1 \notin Bad
      BY <2>2, <2>4
    <3>2. f[a] = b * f[a - 1] /\ f[a - 1] \in Int
      BY <1>2, <2>4, <3>1 DEF IsProduct
    <3> QED BY <2>2, <3>2
  <2> QED BY <2>3, <2>4
<1> QED BY <1>2, <1>3, <1>4

\* What Power computes.
LEMMA PowerFacts ==
    ASSUME NEW b \in Nat, NEW m \in Nat
    PROVE  /\ Power(b, 0) = 1 /\ Power(b, m + 1) = b * Power(b, m)
           /\ Power(b, m) \in Nat /\ (b > 0 => Power(b, m) > 0)
<1>1. PICK f \in [0 .. m -> Int] : IsProduct(f, b, m) /\ Power(b, m) = f[m]
  BY PowerChain
<1>2. PICK g \in [0 .. m + 1 -> Int] : IsProduct(g, b, m + 1) /\ Power(b, m + 1) = g[m + 1]
  <2>1. m + 1 \in Nat
    OBVIOUS
  <2> QED BY <2>1, PowerChain
<1>3. PICK h \in [0 .. 0 -> Int] : IsProduct(h, b, 0) /\ Power(b, 0) = h[0]
  <2>1. 0 \in Nat
    OBVIOUS
  <2> QED BY <2>1, PowerChain
<1>4. Power(b, 0) = 1
  BY <1>3 DEF IsProduct
<1>5. \A a \in 0 .. m : f[a] = g[a] /\ f[a] >= 0 /\ (b > 0 => f[a] > 0)
  <2> DEFINE Bad == {a \in 0 .. m : ~(f[a] = g[a] /\ f[a] >= 0 /\ (b > 0 => f[a] > 0))}
  <2>1. SUFFICES ASSUME Bad # {} PROVE FALSE
    OBVIOUS
  <2>2. PICK a \in Bad : \A other \in Bad : a =< other
    <3>1. Bad \in SUBSET Nat
      OBVIOUS
    <3> QED BY <2>1, <3>1, LeastNat
  <2>3. CASE a = 0
    <3>1. f[0] = 1 /\ g[0] = 1
      BY <1>1, <1>2 DEF IsProduct
    <3> QED BY <2>2, <2>3, <3>1
  <2>4. CASE a # 0
    <3>1. a \in 0 .. m /\ a - 1 \in 0 .. m /\ a - 1 \notin Bad
      BY <2>2, <2>4
    <3>2. f[a] = b * f[a - 1]
      BY <1>1, <2>4, <3>1 DEF IsProduct
    <3>3. g[a] = b * g[a - 1]
      BY <1>2, <2>4, <3>1 DEF IsProduct
    <3>4. f[a - 1] = g[a - 1] /\ f[a - 1] \in Int /\ f[a - 1] >= 0 /\ (b > 0 => f[a - 1] > 0)
      BY <3>1
    <3>5. b * f[a - 1] >= 0 /\ (b > 0 => b * f[a - 1] > 0)
      BY <3>4
    <3> QED BY <2>2, <3>2, <3>3, <3>4, <3>5
  <2> QED BY <2>3, <2>4
<1>6. g[m + 1] = b * g[m]
  <2>1. m + 1 \in 0 .. m + 1 /\ m + 1 # 0 /\ (m + 1) - 1 = m
    OBVIOUS
  <2> QED BY <1>2, <2>1 DEF IsProduct
<1>7. m \in 0 .. m
  OBVIOUS
<1> QED BY <1>1, <1>2, <1>4, <1>5, <1>6, <1>7

\* Induction up to m.
LEMMA UpTo ==
    ASSUME NEW m \in Nat, NEW S, 0 \in S, \A a \in 1 .. m : a - 1 \in S => a \in S
    PROVE  \A a \in 0 .. m : a \in S
<1> DEFINE Bad == {a \in 0 .. m : a \notin S}
<1>1. SUFFICES ASSUME Bad # {} PROVE FALSE
  OBVIOUS
<1>2. PICK a \in Bad : \A other \in Bad : a =< other
  <2>1. Bad \in SUBSET Nat
    OBVIOUS
  <2> QED BY <1>1, <2>1, LeastNat
<1>3. a \in 1 .. m /\ a - 1 \in 0 .. m /\ a - 1 \notin Bad
  BY <1>2
<1> QED BY <1>2, <1>3

\* Both modules take Power from Powers.
LEMMA SamePower ==
    \A b, m : Sort!Power(b, m) = Power(b, m) /\ Conv!Power(b, m) = Power(b, m)
  BY Zenon DEF Sort!Power, Conv!Power, Power

-----------------------------------------------------------------------------
(* SelectionSort: the digits that are put together come apart again.         *)

IsLower(f, d) ==
    f = [a \in 0 .. Places |-> IF a = 0 THEN 0 ELSE f[a - 1] + d[a - 1] * Power(Base, a - 1)]

LEMMA BaseFacts == Base \in Nat /\ Base > 0 /\ Places \in Nat /\ Places > 0
  BY InstancesAssumption DEF Sort!Assumptions

\* The value that is put together, as the sum of its lowest digits.
LEMMA LowerChain ==
    ASSUME NEW d \in [Sort!Indices -> Sort!DigitValues]
    PROVE  \E f \in [0 .. Places -> Int] :
              /\ f[0] = 0 /\ \A a \in 1 .. Places : f[a] = f[a - 1] + d[a - 1] * Power(Base, a - 1)
              /\ Sort!Joined(d) = f[Places]
<1>1. PICK f \in [0 .. Places -> Int] :
         f[0] = 0 /\ \A a \in 1 .. Places : f[a] = f[a - 1] + d[a - 1] * Power(Base, a - 1)
  <2> DEFINE A == [a \in 1 .. Places |-> 1]
             B == [a \in 1 .. Places |-> d[a - 1] * Power(Base, a - 1)]
  <2>1. \A a \in 1 .. Places : d[a - 1] * Power(Base, a - 1) \in Int
    <3>1. ASSUME NEW a \in 1 .. Places
          PROVE  d[a - 1] \in Int /\ Power(Base, a - 1) \in Int
      <4>1. a - 1 \in Nat /\ a - 1 \in Sort!Indices
        BY BaseFacts DEF Sort!Indices
      <4>2. Power(Base, a - 1) \in Nat
        BY <4>1, BaseFacts, PowerFacts
      <4>3. d[a - 1] \in Int
        BY <4>1, BaseFacts DEF Sort!DigitValues
      <4> QED BY <4>2, <4>3
    <3> QED BY <3>1
  <2>2. A \in [1 .. Places -> Int] /\ B \in [1 .. Places -> Int]
    BY <2>1
  <2>3. \A a \in 1 .. Places : A[a] = 1 /\ B[a] = d[a - 1] * Power(Base, a - 1)
    OBVIOUS
  <2> HIDE DEF A, B
  <2>4. PICK f \in [0 .. Places -> Int] :
           f[0] = 0 /\ \A a \in 1 .. Places : f[a] = A[a] * f[a - 1] + B[a]
    <3>1. PICK c \in Int : c = 0
      OBVIOUS
    <3>2. \E f \in [0 .. Places -> Int] :
             f[0] = c /\ \A a \in 1 .. Places : f[a] = A[a] * f[a - 1] + B[a]
      <4>1. Places \in Nat
        BY BaseFacts
      <4> QED BY <2>2, <4>1, Recursion, Zenon
    <3> QED BY <3>1, <3>2
  <2>5. ASSUME NEW a \in 1 .. Places
        PROVE  f[a] = f[a - 1] + d[a - 1] * Power(Base, a - 1)
    <3>1. f[a - 1] \in Int /\ d[a - 1] * Power(Base, a - 1) \in Int
      BY <2>1, <2>4, BaseFacts
    <3>2. f[a] = 1 * f[a - 1] + d[a - 1] * Power(Base, a - 1)
      BY <2>3, <2>4
    <3> QED BY <3>1, <3>2
  <2> QED BY <2>4, <2>5
<1>2. IsLower(f, d)
  <2>1. \A a \in 0 .. Places : a = 0 \/ a \in 1 .. Places
    BY BaseFacts
  <2> QED BY <1>1, <2>1 DEF IsLower
<1> DEFINE g == CHOOSE g : IsLower(g, d)
<1>3. IsLower(g, d)
  BY <1>2
<1>4. Sort!Joined(d) = g[Places]
  BY SamePower DEF Sort!Joined, IsLower
<1> HIDE DEF g
<1>5. \A a \in 0 .. Places : g[a] = f[a]
  <2> DEFINE S == {a \in 0 .. Places : g[a] = f[a]}
  <2>1. 0 \in S
    BY <1>1, <1>3, BaseFacts DEF IsLower
  <2>2. ASSUME NEW a \in 1 .. Places, a - 1 \in S
        PROVE  a \in S
    <3>1. a \in 0 .. Places /\ a # 0
      BY BaseFacts
    <3>2. g[a] = g[a - 1] + d[a - 1] * Power(Base, a - 1)
      BY <1>3, <3>1 DEF IsLower
    <3> QED BY <1>1, <2>2, <3>1, <3>2
  <2> HIDE DEF S
  <2>3. \A a \in 0 .. Places : a \in S
    BY <2>1, <2>2, BaseFacts, UpTo
  <2> QED BY <2>3 DEF S
<1>6. Sort!Joined(d) = f[Places]
  BY <1>4, <1>5, BaseFacts
<1> QED BY <1>1, <1>6

LEMMA JoinedDigits ==
    ASSUME NEW d \in [Sort!Indices -> Sort!DigitValues], NEW p \in Sort!Indices
    PROVE  Sort!DigitOf(Sort!Joined(d), p) = d[p]
<1>1. PICK f \in [0 .. Places -> Int] :
         /\ f[0] = 0 /\ \A a \in 1 .. Places : f[a] = f[a - 1] + d[a - 1] * Power(Base, a - 1)
         /\ Sort!Joined(d) = f[Places]
  BY LowerChain
<1>2. \A a \in 0 .. Places - 1 : d[a] \in 0 .. Base - 1
  BY DEF Sort!Indices, Sort!DigitValues
<1>3. PICK g \in [0 .. Places -> Int] :
         g[0] = 0 /\ \A a \in 1 .. Places : g[a] = Base * g[a - 1] + d[Places - a]
  <2> DEFINE A == [a \in 1 .. Places |-> Base]
             B == [a \in 1 .. Places |-> d[Places - a]]
  <2>1. \A a \in 1 .. Places : Places - a \in 0 .. Places - 1 /\ d[Places - a] \in Int
    BY <1>2, BaseFacts
  <2>2. A \in [1 .. Places -> Int] /\ B \in [1 .. Places -> Int]
    BY <2>1, BaseFacts
  <2>3. \A a \in 1 .. Places : A[a] = Base /\ B[a] = d[Places - a]
    OBVIOUS
  <2> HIDE DEF A, B
  <2>4. PICK c \in Int : c = 0
    OBVIOUS
  <2>5. \E g \in [0 .. Places -> Int] :
           g[0] = c /\ \A a \in 1 .. Places : g[a] = A[a] * g[a - 1] + B[a]
    <3>1. Places \in Nat
      BY BaseFacts
    <3> QED BY <2>2, <3>1, Recursion, Zenon
  <2> QED BY <2>3, <2>4, <2>5
<1>4. \A a \in 0 .. Places : /\ Power(Base, a) \in Nat /\ Power(Base, a) > 0
                             /\ Power(Base, a + 1) = Base * Power(Base, a) /\ Power(Base, 0) = 1
  <2> SUFFICES ASSUME NEW a \in 0 .. Places
               PROVE  /\ Power(Base, a) \in Nat /\ Power(Base, a) > 0
                      /\ Power(Base, a + 1) = Base * Power(Base, a) /\ Power(Base, 0) = 1
    OBVIOUS
  <2>1. a \in Nat /\ Base \in Nat /\ Base > 0
    BY BaseFacts
  <2> QED BY <2>1, PowerFacts
<1>5. \A a \in 0 .. Places : f[a] \in 0 .. Power(Base, a) - 1
  <2> DEFINE S == {a \in 0 .. Places : f[a] \in 0 .. Power(Base, a) - 1}
  <2>1. 0 \in S
    <3>1. 0 \in 0 .. Places
      BY BaseFacts
    <3>2. Power(Base, 0) = 1 /\ f[0] = 0
      BY <1>1, <1>4, <3>1
    <3> QED BY <3>1, <3>2
  <2>2. ASSUME NEW a \in 1 .. Places, a - 1 \in S
        PROVE  a \in S
    <3>1. a - 1 \in 0 .. Places /\ a - 1 \in 0 .. Places - 1 /\ a \in 0 .. Places /\ (a - 1) + 1 = a
      BY BaseFacts
    <3>2. PICK w \in Nat : w = Power(Base, a - 1) /\ w > 0 /\ Power(Base, a) = Base * w
      BY <1>4, <3>1
    <3>3. PICK x \in 0 .. Base - 1 : x = d[a - 1]
      BY <1>2, <3>1
    <3>4. f[a - 1] \in 0 .. w - 1 /\ f[a] = f[a - 1] + x * w
      BY <1>1, <2>2, <3>2, <3>3
    <3>5. PICK y \in Nat : y = (Base - 1) - x
      BY BaseFacts
    <3>6. PICK l \in Nat, h \in Nat : l = x * w /\ h = y * w
      BY <3>2
    <3>7. Base * w = l + h + w
      <4>1. Base = x + y + 1
        BY <3>5, BaseFacts
      <4>2. (x + y + 1) * w = x * w + y * w + w
        OBVIOUS
      <4> QED BY <3>6, <4>1, <4>2
    <3>8. f[a] \in 0 .. Base * w - 1
      <4>1. PICK z \in 0 .. w - 1 : z = f[a - 1]
        BY <3>4
      <4>2. f[a] = z + l
        BY <3>4, <3>6, <4>1
      <4>3. z + l \in 0 .. (l + h + w) - 1
        OBVIOUS
      <4> QED BY <3>7, <4>2, <4>3
    <3> QED BY <3>1, <3>2, <3>8
  <2> HIDE DEF S
  <2>3. \A a \in 0 .. Places : a \in S
    BY <2>1, <2>2, BaseFacts, UpTo
  <2> QED BY <2>3 DEF S
<1>6. \A a \in 0 .. Places : g[a] \in Nat
  <2> DEFINE S == {a \in 0 .. Places : g[a] \in Nat}
  <2>1. 0 \in S
    BY <1>3, BaseFacts
  <2>2. ASSUME NEW a \in 1 .. Places, a - 1 \in S
        PROVE  a \in S
    <3>1. a \in 0 .. Places /\ d[Places - a] \in Nat
      BY <1>2, BaseFacts
    <3>2. PICK x \in Nat : x = g[a - 1]
      BY <2>2
    <3>3. Base * x \in Nat /\ g[a] = Base * x + d[Places - a]
      BY <1>3, <3>2, BaseFacts
    <3> QED BY <3>1, <3>3
  <2> HIDE DEF S
  <2>3. \A a \in 0 .. Places : a \in S
    BY <2>1, <2>2, BaseFacts, UpTo
  <2> QED BY <2>3 DEF S
<1>7. \A a \in 0 .. Places : f[Places] = f[Places - a] + Power(Base, Places - a) * g[a]
  <2> DEFINE S == {a \in 0 .. Places : f[Places] = f[Places - a] + Power(Base, Places - a) * g[a]}
  <2>1. 0 \in S
    <3>1. f[Places] \in Int /\ Power(Base, Places) \in Nat /\ Places - 0 = Places /\ 0 \in 0 .. Places
      BY <1>4, BaseFacts
    <3> QED BY <1>3, <3>1
  <2>2. ASSUME NEW a \in 1 .. Places, a - 1 \in S
        PROVE  a \in S
    <3>1. PICK q \in 0 .. Places - 1 : q = Places - a /\ q + 1 = Places - (a - 1) /\ (q + 1) - 1 = q
      BY BaseFacts
    <3>2. q + 1 \in 1 .. Places /\ q \in 0 .. Places /\ a \in 0 .. Places /\ a - 1 \in 0 .. Places
      BY BaseFacts
    <3>3. PICK w \in Nat : w = Power(Base, q) /\ Power(Base, q + 1) = Base * w
      BY <1>4, <3>2
    <3>4. PICK x \in Nat : x = d[q]
      BY <1>2, BaseFacts
    <3>5. PICK y \in Nat : y = g[a - 1]
      BY <1>6, <3>2
    <3>6. g[a] = Base * y + x /\ f[q + 1] = f[q] + x * w
      BY <1>1, <1>3, <3>1, <3>2, <3>3, <3>4, <3>5
    <3>7. f[Places] = f[q + 1] + (Base * w) * y
      BY <2>2, <3>1, <3>3, <3>5
    <3>8. f[q] \in Int /\ f[Places] \in Int
      BY <3>2, BaseFacts
    <3>9. x * w + (Base * w) * y = w * (Base * y + x)
      BY BaseFacts
    <3>10. f[Places] = f[q] + w * (Base * y + x)
      <4>1. x * w \in Int /\ (Base * w) * y \in Int
        BY BaseFacts
      <4> QED BY <3>6, <3>7, <3>8, <3>9, <4>1
    <3> QED BY <3>1, <3>2, <3>3, <3>6, <3>10
  <2> HIDE DEF S
  <2>3. \A a \in 0 .. Places : a \in S
    BY <2>1, <2>2, BaseFacts, UpTo
  <2> QED BY <2>3 DEF S
<1>8. PICK a \in 1 .. Places : p = Places - a
  <2>1. Places - p \in 1 .. Places /\ p = Places - (Places - p)
    BY BaseFacts DEF Sort!Indices
  <2> QED BY <2>1
<1>9. p \in 0 .. Places /\ a \in 0 .. Places /\ a - 1 \in 0 .. Places /\ d[p] \in 0 .. Base - 1
  BY <1>2, BaseFacts DEF Sort!Indices
<1>10. PICK w \in Nat : w = Power(Base, p) /\ w > 0 /\ f[p] \in 0 .. w - 1
  BY <1>4, <1>5, <1>9
<1>11. PICK x \in Nat, y \in Nat : x = g[a] /\ y = g[a - 1]
  BY <1>6, <1>9
<1>12. x = Base * y + d[p]
  BY <1>3, <1>8, <1>11
<1>13. f[Places] = w * x + f[p]
  <2>1. f[Places] = f[p] + w * x
    BY <1>7, <1>8, <1>9, <1>10, <1>11
  <2>2. f[p] \in Int /\ w * x \in Int
    BY <1>10
  <2> QED BY <2>1, <2>2
<1>14. f[Places] \div w = x
  BY <1>10, <1>13, DivModOnly
<1>15. x % Base = d[p]
  BY <1>9, <1>12, BaseFacts, DivModOnly
<1> QED BY <1>1, <1>10, <1>14, <1>15, SamePower DEF Sort!DigitOf

-----------------------------------------------------------------------------
(* SelectionSort: the digits are sorted, and stay the same.                  *)

Holding(d, b) == {a \in Sort!Indices : d[a] = b}

\* The first i digits are in order and none of the others is smaller; min is the place
\* of the smallest of those looked at.  Each digit is there as often as in arg.
SortInv ==
    /\ arg \in Nat /\ sortPc \in {"split", "outer", "inner", "done"}
    /\ sortPc = "split" => i = 0
    /\ sortPc # "split" =>
          /\ digits \in [Sort!Indices -> Sort!DigitValues] /\ i \in 0 .. Places
          /\ \A b : Cardinality(Holding(digits, b)) = Sort!HowOften(arg, b)
          /\ \A a, b \in Sort!Indices : a < i /\ a < b => digits[a] =< digits[b]
    /\ sortPc = "inner" =>
          /\ i < Places /\ min \in i .. Places - 1 /\ j \in i + 1 .. Places
          /\ \A a \in i .. j - 1 : digits[min] =< digits[a]
    /\ sortPc = "done" => i = Places /\ result = Sort!Joined(digits)

\* The digits of an argument are digits.
LEMMA DigitRange ==
    ASSUME NEW v \in Nat, NEW p \in Sort!Indices
    PROVE  Sort!DigitOf(v, p) \in Sort!DigitValues
<1>1. p \in Nat
  BY BaseFacts DEF Sort!Indices
<1>2. PICK w \in Nat : w = Power(Base, p) /\ w > 0
  BY <1>1, BaseFacts, PowerFacts
<1>3. v \div w \in Nat
  BY <1>2, DivMod
<1>4. (v \div w) % Base \in 0 .. Base - 1
  BY <1>3, BaseFacts, DivMod
<1> QED BY <1>2, <1>4, SamePower DEF Sort!DigitOf, Sort!DigitValues

\* Swapping two digits changes how often none of them is there.
LEMMA SwapKeeps ==
    ASSUME NEW d \in [Sort!Indices -> Sort!DigitValues], NEW p \in Sort!Indices,
           NEW q \in Sort!Indices, NEW e, e[p] = d[q], e[q] = d[p],
           \A a \in Sort!Indices : a # p /\ a # q => e[a] = d[a],
           NEW b
    PROVE  Cardinality(Holding(e, b)) = Cardinality(Holding(d, b))
<1>1. /\ e[p] = d[q] /\ e[q] = d[p]
      /\ \A a \in Sort!Indices : a # p /\ a # q => e[a] = d[a]
  OBVIOUS
<1>2. IsFiniteSet(Holding(d, b)) /\ Cardinality(Holding(d, b)) \in Nat
  <2>1. Holding(d, b) \subseteq 0 .. Places - 1
    BY DEF Holding, Sort!Indices
  <2>2. IsFiniteSet(0 .. Places - 1)
    BY BaseFacts, FS_Interval
  <2> QED BY <2>1, <2>2, FS_Subset, FS_CardinalityType
<1>3. CASE (d[p] = b <=> d[q] = b)
  <2>1. Holding(e, b) = Holding(d, b)
    BY <1>1, <1>3 DEF Holding
  <2> QED BY <2>1
<1>4. ASSUME NEW x \in Sort!Indices, NEW y \in Sort!Indices, d[x] = b, d[y] # b,
             {x, y} = {p, q}
      PROVE  Cardinality(Holding(e, b)) = Cardinality(Holding(d, b))
  <2> DEFINE rest == Holding(d, b) \ {x}
  <2>1. e[x] # b /\ e[y] = b /\ x # y
    BY <1>1, <1>4
  <2>2. Holding(e, b) = rest \cup {y} /\ Holding(d, b) = rest \cup {x}
    BY <1>1, <1>4, <2>1 DEF Holding
  <2>3. IsFiniteSet(rest) /\ y \notin rest /\ x \notin rest
    BY <1>2, <1>4, FS_Subset DEF Holding
  <2> HIDE DEF rest
  <2>4. Cardinality(rest \cup {x}) = Cardinality(rest) + 1
    BY <2>3, FS_AddElement
  <2>5. Cardinality(rest \cup {y}) = Cardinality(rest) + 1
    BY <2>3, FS_AddElement
  <2> QED BY <2>2, <2>4, <2>5
<1>5. CASE d[p] = b /\ d[q] # b
  BY <1>4, <1>5
<1>6. CASE d[p] # b /\ d[q] = b
  BY <1>4, <1>6
<1> QED BY <1>3, <1>5, <1>6

LEMMA SameCardinality == \A S : Sort!Cardinality(S) = Cardinality(S)
  BY Zenon DEF Sort!Cardinality, Cardinality

LEMMA SortKept == ASSUME SortInv, [Sort!Next]_sortVars PROVE SortInv'
<1>1. Places \in Nat /\ Places > 0
  BY BaseFacts
<1>2. CASE UNCHANGED sortVars
  BY <1>2 DEF sortVars, SortInv, Holding, Sort!HowOften, Sort!Joined
<1>3. CASE Sort!Split
  <2>1. /\ sortPc = "split" /\ sortPc' = "outer" /\ i = 0 /\ i' = 0 /\ arg' = arg
        /\ digits' = [p \in Sort!Indices |-> Sort!DigitOf(arg, p)]
    BY <1>3 DEF Sort!Split, SortInv
  <2>2. digits' \in [Sort!Indices -> Sort!DigitValues]
    BY <2>1, DigitRange DEF SortInv
  <2>3. ASSUME NEW b
        PROVE  Cardinality(Holding(digits', b)) = Sort!HowOften(arg', b)
    <3>1. Holding(digits', b) = {p \in Sort!Indices : Sort!DigitOf(arg, p) = b}
      BY <2>1 DEF Holding
    <3> QED BY <2>1, <3>1, SameCardinality DEF Sort!HowOften
  <2>4. \A a \in Sort!Indices : ~(a < i')
    BY <2>1 DEF Sort!Indices
  <2> QED BY <1>1, <2>1, <2>2, <2>3, <2>4 DEF SortInv
<1>4. CASE Sort!Outer
  <2>1. /\ sortPc = "outer" /\ sortPc' = "inner" /\ i < Places /\ min' = i /\ j' = i + 1
        /\ UNCHANGED <<arg, digits, i>>
    BY <1>4 DEF Sort!Outer
  <2>2. digits[i] =< digits[i] /\ i \in 0 .. Places
    <3>1. digits[i] \in Int
      BY <1>1, <2>1 DEF SortInv, Sort!Indices, Sort!DigitValues
    <3> QED BY <2>1, <3>1 DEF SortInv
  <2>3. \A a \in i .. (i + 1) - 1 : a = i
    BY <2>2
  <2>4. \A b : Cardinality(Holding(digits', b)) = Sort!HowOften(arg', b)
    BY <2>1 DEF SortInv
  <2>5. /\ i' < Places /\ min' \in i' .. Places - 1 /\ j' \in i' + 1 .. Places
        /\ \A a \in i' .. j' - 1 : digits'[min'] =< digits'[a]
    BY <1>1, <2>1, <2>2, <2>3
  <2> QED BY <2>1, <2>4, <2>5 DEF SortInv
<1>5. CASE Sort!Inner
  <2>1. /\ sortPc = "inner" /\ sortPc' = "inner" /\ j < Places /\ j' = j + 1
        /\ min' = IF digits[j] < digits[min] THEN j ELSE min
        /\ UNCHANGED <<arg, digits, i>>
    BY <1>5 DEF Sort!Inner
  <2>2. /\ i \in Nat /\ j \in i + 1 .. Places - 1 /\ min \in i .. Places - 1
        /\ \A a \in i .. Places - 1 : digits[a] \in Int
    BY <1>1, <2>1 DEF SortInv, Sort!Indices, Sort!DigitValues
  <2>3. min' \in i .. Places - 1 /\ j + 1 \in i + 1 .. Places /\ j \in i .. Places - 1
    BY <1>1, <2>1, <2>2
  <2>4. \A a \in i .. (j + 1) - 1 : a \in i .. Places - 1 /\ (a = j \/ a \in i .. j - 1)
    BY <1>1, <2>2
  <2>5. ASSUME NEW a \in i .. (j + 1) - 1
        PROVE  digits[min'] =< digits[a]
    <3>1. a # j => digits[min] =< digits[a]
      BY <2>1, <2>4 DEF SortInv
    <3>2. digits[a] \in Int /\ digits[j] \in Int /\ digits[min] \in Int
      BY <2>2, <2>3, <2>4
    <3> QED BY <2>1, <3>1, <3>2
  <2> QED BY <2>1, <2>3, <2>5 DEF SortInv, Holding, Sort!HowOften
<1>6. CASE Sort!Swap
  <2>1. /\ sortPc = "inner" /\ sortPc' = "outer" /\ j = Places /\ i' = i + 1 /\ arg' = arg
        /\ digits' = [digits EXCEPT ![i] = digits[min], ![min] = digits[i]]
    BY <1>6 DEF Sort!Swap
  <2>2. /\ i \in 0 .. Places /\ i < Places /\ min \in i .. Places - 1
        /\ \A a \in i .. Places - 1 : digits[min] =< digits[a]
        /\ digits \in [Sort!Indices -> Sort!DigitValues]
    BY <2>1 DEF SortInv
  <2>3. i \in Sort!Indices /\ min \in Sort!Indices /\ i + 1 \in 0 .. Places
    BY <1>1, <2>2 DEF Sort!Indices
  <2>4. /\ digits' \in [Sort!Indices -> Sort!DigitValues]
        /\ digits'[i] = digits[min] /\ digits'[min] = digits[i]
        /\ \A a \in Sort!Indices : a # i /\ a # min => digits'[a] = digits[a]
    BY <2>1, <2>2, <2>3
  <2>5. ASSUME NEW b
        PROVE  Cardinality(Holding(digits', b)) = Sort!HowOften(arg', b)
    <3>1. Cardinality(Holding(digits', b)) = Cardinality(Holding(digits, b))
      BY <2>2, <2>3, <2>4, SwapKeeps
    <3> QED BY <2>1, <3>1 DEF SortInv
  <2>6. ASSUME NEW a \in Sort!Indices, NEW b \in Sort!Indices, a < i + 1, a < b
        PROVE  digits'[a] =< digits'[b]
    <3>1. /\ a \in Int /\ b \in Int /\ i \in Int /\ min \in Int /\ i =< min
          /\ digits[a] \in Int /\ digits[b] \in Int /\ digits[i] \in Int /\ digits[min] \in Int
      BY <1>1, <2>2, <2>3 DEF Sort!Indices, Sort!DigitValues
    <3>2. CASE a = i
      <4>1. b \in i .. Places - 1
        BY <2>6, <3>1, <3>2 DEF Sort!Indices
      <4>2. i \in i .. Places - 1 /\ b # i
        BY <1>1, <2>2, <2>6, <3>1, <3>2
      <4>3. digits[min] =< digits[b] /\ digits[min] =< digits[i]
        BY <2>2, <4>1, <4>2
      <4> QED BY <2>4, <3>2, <4>2, <4>3
    <3>3. CASE a # i
      <4>1. a < i /\ a # min /\ digits'[a] = digits[a]
        BY <2>4, <2>6, <3>1, <3>3
      <4>2. digits[a] =< digits[b] /\ digits[a] =< digits[i] /\ digits[a] =< digits[min]
        BY <2>1, <2>3, <2>6, <3>1, <4>1 DEF SortInv
      <4> QED BY <2>4, <4>1, <4>2
    <3> QED BY <3>2, <3>3
  <2> QED BY <2>1, <2>3, <2>4, <2>5, <2>6 DEF SortInv
<1>7. CASE Sort!Join
  <2>1. /\ sortPc = "outer" /\ sortPc' = "done" /\ i = Places /\ result' = Sort!Joined(digits)
        /\ UNCHANGED <<arg, digits, i>>
    BY <1>7 DEF Sort!Join
  <2>2. result' = Sort!Joined(digits')
    BY <2>1
  <2> QED BY <2>1, <2>2 DEF SortInv, Holding, Sort!HowOften
<1> QED BY <1>2, <1>3, <1>4, <1>5, <1>6, <1>7 DEF Sort!Next

\* assignment1/assign1.c: byte_sort and nibble_sort, for every size of an unsigned long
\* and of a digit and for every argument, return the digits of the argument, each as
\* often as it is there, and in order.
THEOREM DigitsSorted == Spec => []SortsDigits
<1>1. Init => SortInv
  <2> SUFFICES ASSUME Init PROVE SortInv
    OBVIOUS
  <2>1. arg \in Nat
    <3>1. Sort!ULong \subseteq Nat
      <4>1. Power(Base, Places) \in Nat
        BY BaseFacts, PowerFacts
      <4> QED BY <4>1, SamePower DEF Sort!ULong
    <3> QED BY <3>1 DEF Init, Only
  <2> QED BY <2>1 DEF Init, Sort!Init, SortInv
<1>2. SortInv /\ [Next]_vars => SortInv'
  <2>1. [Next]_vars => [Sort!Next]_sortVars
    BY DEF Next, vars
  <2> QED BY <2>1, SortKept
<1>3. SortInv => SortsDigits
  <2> SUFFICES ASSUME SortInv, sortPc = "done" PROVE SortsDigits
    BY DEF SortsDigits, Sort!SortsDigits
  <2>1. \A p \in Sort!Indices : Sort!DigitOf(result, p) = digits[p]
    BY JoinedDigits DEF SortInv
  <2>2. Sort!is_sorted(result)
    <3>1. ASSUME NEW p \in 0 .. Places - 2
          PROVE  ~(Sort!DigitOf(result, p + 1) < Sort!DigitOf(result, p))
      <4>1. p \in Sort!Indices /\ p + 1 \in Sort!Indices /\ p < Places /\ p < p + 1
        BY BaseFacts DEF Sort!Indices
      <4>2. digits[p] =< digits[p + 1] /\ digits[p] \in Int /\ digits[p + 1] \in Int
        BY <4>1 DEF SortInv, Sort!DigitValues
      <4> QED BY <2>1, <4>1, <4>2
    <3> QED BY <3>1 DEF Sort!is_sorted
  <2>3. ASSUME NEW b
        PROVE  Sort!HowOften(result, b) = Sort!HowOften(arg, b)
    <3>1. {p \in Sort!Indices : Sort!DigitOf(result, p) = b} = Holding(digits, b)
      BY <2>1 DEF Holding
    <3>2. Sort!HowOften(result, b) = Cardinality(Holding(digits, b))
      BY <3>1, SameCardinality DEF Sort!HowOften
    <3> QED BY <3>2 DEF SortInv
  <2> QED BY <2>2, <2>3 DEF SortsDigits, Sort!SortsDigits
<1> QED BY <1>1, <1>2, <1>3, PTL DEF Spec

-----------------------------------------------------------------------------
(* Convert: the bits of a value, and its digits in the bases 8 and 16.       *)

BitOf(v, b) == (v \div Power(2, b)) % 2

\* One bit is taken off a value.
LEMMA OneBit ==
    ASSUME NEW v \in Nat, NEW b \in Nat
    PROVE  /\ v \div Power(2, b) \in Nat /\ BitOf(v, b) \in 0 .. 1
           /\ v \div Power(2, b) = 2 * (v \div Power(2, b + 1)) + BitOf(v, b)
<1>1. PICK w \in Nat : w = Power(2, b) /\ w > 0 /\ Power(2, b + 1) = 2 * w
  <2>1. 2 \in Nat /\ 2 > 0
    OBVIOUS
  <2> QED BY <2>1, PowerFacts
<1>2. v \div (2 * w) = (v \div w) \div 2
  BY <1>1, DivDiv
<1>3. PICK x \in Nat : x = v \div w
  BY <1>1, DivMod
<1>4. x % 2 \in 0 .. 1 /\ 2 * (x \div 2) + (x % 2) = x
  BY DivMod
<1> QED BY <1>1, <1>2, <1>3, <1>4 DEF BitOf

\* A value from place b on, as its lowest bits and the rest.
LEMMA FourBitsOff ==
    ASSUME NEW v \in Nat, NEW b \in Nat
    PROVE  \E y, z \in Nat :
              /\ v \div Power(2, b) = 16 * y + (8 * BitOf(v, b + 3) + 4 * BitOf(v, b + 2)
                                                + 2 * BitOf(v, b + 1) + BitOf(v, b))
              /\ v \div Power(2, b) = 8 * z + (4 * BitOf(v, b + 2) + 2 * BitOf(v, b + 1) + BitOf(v, b))
              /\ \A a \in {b, b + 1, b + 2, b + 3} : BitOf(v, a) \in 0 .. 1
<1>1. b \in Nat /\ b + 1 \in Nat /\ b + 2 \in Nat /\ b + 3 \in Nat
  OBVIOUS
<1>2. /\ v \div Power(2, b) \in Nat /\ BitOf(v, b) \in 0 .. 1
      /\ v \div Power(2, b) = 2 * (v \div Power(2, b + 1)) + BitOf(v, b)
  BY OneBit
<1>3. /\ v \div Power(2, b + 1) \in Nat /\ BitOf(v, b + 1) \in 0 .. 1
      /\ v \div Power(2, b + 1) = 2 * (v \div Power(2, b + 2)) + BitOf(v, b + 1)
  <2>1. (b + 1) + 1 = b + 2
    OBVIOUS
  <2> QED BY <1>1, <2>1, OneBit
<1>4. /\ v \div Power(2, b + 2) \in Nat /\ BitOf(v, b + 2) \in 0 .. 1
      /\ v \div Power(2, b + 2) = 2 * (v \div Power(2, b + 3)) + BitOf(v, b + 2)
  <2>1. (b + 2) + 1 = b + 3
    OBVIOUS
  <2> QED BY <1>1, <2>1, OneBit
<1>5. /\ v \div Power(2, b + 3) \in Nat /\ BitOf(v, b + 3) \in 0 .. 1
      /\ v \div Power(2, b + 3) = 2 * (v \div Power(2, b + 4)) + BitOf(v, b + 3)
      /\ v \div Power(2, b + 4) \in Nat
  <2>1. (b + 3) + 1 = b + 4 /\ b + 4 \in Nat
    OBVIOUS
  <2> QED BY <1>1, <2>1, OneBit
<1>6. PICK y \in Nat, z \in Nat : y = v \div Power(2, b + 4) /\ z = v \div Power(2, b + 3)
  BY <1>5
<1>7. PICK x0 \in Nat, x1 \in Nat, x2 \in Nat :
         x0 = v \div Power(2, b) /\ x1 = v \div Power(2, b + 1) /\ x2 = v \div Power(2, b + 2)
  BY <1>2, <1>3, <1>4
<1>8. PICK b0 \in 0 .. 1, b1 \in 0 .. 1, b2 \in 0 .. 1, b3 \in 0 .. 1 :
         b0 = BitOf(v, b) /\ b1 = BitOf(v, b + 1) /\ b2 = BitOf(v, b + 2) /\ b3 = BitOf(v, b + 3)
  BY <1>2, <1>3, <1>4, <1>5
<1>9. x0 = 2 * x1 + b0 /\ x1 = 2 * x2 + b1 /\ x2 = 2 * z + b2 /\ z = 2 * y + b3
  BY <1>2, <1>3, <1>4, <1>5, <1>6, <1>7, <1>8
<1>10. x0 = 16 * y + (8 * b3 + 4 * b2 + 2 * b1 + b0) /\ x0 = 8 * z + (4 * b2 + 2 * b1 + b0)
  BY <1>9
<1> QED BY <1>6, <1>7, <1>8, <1>10

\* The places of the bases 8 and 16 are places of base 2.
LEMMA PowersOfTwo ==
    ASSUME NEW m \in Nat
    PROVE  Power(16, m) = Power(2, 4 * m) /\ Power(8, m) = Power(2, 3 * m)
<1> DEFINE S == {a \in 0 .. m : Power(16, a) = Power(2, 4 * a) /\ Power(8, a) = Power(2, 3 * a)}
<1>1. 0 \in S
  <2>1. 0 \in Nat /\ 4 * 0 = 0 /\ 3 * 0 = 0 /\ 0 \in 0 .. m
    OBVIOUS
  <2>2. Power(16, 0) = 1 /\ Power(2, 0) = 1 /\ Power(8, 0) = 1
    BY <2>1, PowerFacts
  <2> QED BY <2>1, <2>2
<1>2. ASSUME NEW a \in 1 .. m, a - 1 \in S
      PROVE  a \in S
  <2>1. PICK e \in Nat : e = a - 1 /\ a = e + 1
    <3>1. a - 1 \in Nat /\ a = (a - 1) + 1
      OBVIOUS
    <3> QED BY <3>1
  <2>2. Power(16, e) = Power(2, 4 * e) /\ Power(8, e) = Power(2, 3 * e)
    BY <1>2, <2>1
  <2>3. Power(16, e + 1) = 16 * Power(16, e) /\ Power(8, e + 1) = 8 * Power(8, e)
    BY PowerFacts
  <2>4. ASSUME NEW c \in Nat
        PROVE  /\ Power(2, c + 3) = 8 * Power(2, c) /\ Power(2, c + 4) = 16 * Power(2, c)
    <3>1. PICK w \in Nat : w = Power(2, c) /\ Power(2, c + 1) = 2 * w
      BY PowerFacts
    <3>2. c + 1 \in Nat /\ c + 2 \in Nat /\ c + 3 \in Nat
          /\ (c + 1) + 1 = c + 2 /\ (c + 2) + 1 = c + 3 /\ (c + 3) + 1 = c + 4
      OBVIOUS
    <3>3. Power(2, c + 2) = 2 * Power(2, c + 1)
      BY <3>2, PowerFacts
    <3>4. Power(2, c + 3) = 2 * Power(2, c + 2)
      BY <3>2, PowerFacts
    <3>5. Power(2, c + 4) = 2 * Power(2, c + 3)
      BY <3>2, PowerFacts
    <3> QED BY <3>1, <3>3, <3>4, <3>5
  <2>5. Power(2, 4 * e + 4) = 16 * Power(2, 4 * e) /\ Power(2, 3 * e + 3) = 8 * Power(2, 3 * e)
    <3>1. 4 * e \in Nat /\ 3 * e \in Nat
      OBVIOUS
    <3> QED BY <2>4, <3>1
  <2>6. 4 * a = 4 * e + 4 /\ 3 * a = 3 * e + 3
    BY <2>1
  <2>7. Power(16, a) = Power(2, 4 * a) /\ Power(8, a) = Power(2, 3 * a)
    BY <2>1, <2>2, <2>3, <2>5, <2>6
  <2> QED BY <2>7
<1> HIDE DEF S
<1>3. \A a \in 0 .. m : a \in S
  BY <1>1, <1>2, UpTo
<1>4. m \in S
  BY <1>3
<1> QED BY <1>4 DEF S

\* A nibble, and an octal digit, by their bits.
LEMMA DigitsByBits ==
    ASSUME NEW v \in Nat, NEW p \in Nat
    PROVE  /\ (v \div Power(16, p)) % 16 =
                 8 * BitOf(v, 4 * p + 3) + 4 * BitOf(v, 4 * p + 2) + 2 * BitOf(v, 4 * p + 1)
                    + BitOf(v, 4 * p)
           /\ (v \div Power(8, p)) % 8 =
                 4 * BitOf(v, 3 * p + 2) + 2 * BitOf(v, 3 * p + 1) + BitOf(v, 3 * p)
<1>1. 4 * p \in Nat /\ 3 * p \in Nat
  OBVIOUS
<1>2. ASSUME NEW c \in Nat
      PROVE  /\ (v \div Power(2, c)) % 16 =
                   8 * BitOf(v, c + 3) + 4 * BitOf(v, c + 2) + 2 * BitOf(v, c + 1) + BitOf(v, c)
             /\ (v \div Power(2, c)) % 8 = 4 * BitOf(v, c + 2) + 2 * BitOf(v, c + 1) + BitOf(v, c)
  <2>1. PICK y \in Nat, z \in Nat :
           /\ v \div Power(2, c) = 16 * y + (8 * BitOf(v, c + 3) + 4 * BitOf(v, c + 2)
                                             + 2 * BitOf(v, c + 1) + BitOf(v, c))
           /\ v \div Power(2, c) = 8 * z + (4 * BitOf(v, c + 2) + 2 * BitOf(v, c + 1) + BitOf(v, c))
           /\ \A a \in {c, c + 1, c + 2, c + 3} : BitOf(v, a) \in 0 .. 1
    BY FourBitsOff
  <2>2. PICK b0 \in 0 .. 1, b1 \in 0 .. 1, b2 \in 0 .. 1, b3 \in 0 .. 1 :
           /\ b0 = BitOf(v, c) /\ b1 = BitOf(v, c + 1)
           /\ b2 = BitOf(v, c + 2) /\ b3 = BitOf(v, c + 3)
    BY <2>1
  <2>3. 8 * b3 + 4 * b2 + 2 * b1 + b0 \in 0 .. 16 - 1 /\ 4 * b2 + 2 * b1 + b0 \in 0 .. 8 - 1
    OBVIOUS
  <2>4. (16 * y + (8 * b3 + 4 * b2 + 2 * b1 + b0)) % 16 = 8 * b3 + 4 * b2 + 2 * b1 + b0
    BY <2>3, DivModOnly
  <2>5. (8 * z + (4 * b2 + 2 * b1 + b0)) % 8 = 4 * b2 + 2 * b1 + b0
    BY <2>3, DivModOnly
  <2> QED BY <2>1, <2>2, <2>4, <2>5
<1> QED BY <1>1, <1>2, PowersOfTwo

\* The bits of a nibble are bits of the value.
LEMMA BitsOfNibble ==
    ASSUME NEW v \in Nat, NEW p \in Nat, NEW r \in 0 .. 3
    PROVE  Conv!Bit((v \div Power(16, p)) % 16, r) = BitOf(v, 4 * p + r)
<1>1. 4 * p \in Nat /\ 4 * p + 0 = 4 * p
  OBVIOUS
<1>2. PICK b0 \in 0 .. 1, b1 \in 0 .. 1, b2 \in 0 .. 1, b3 \in 0 .. 1 :
         /\ b0 = BitOf(v, 4 * p) /\ b1 = BitOf(v, 4 * p + 1)
         /\ b2 = BitOf(v, 4 * p + 2) /\ b3 = BitOf(v, 4 * p + 3)
  <2>1. /\ BitOf(v, 4 * p) \in 0 .. 1 /\ BitOf(v, 4 * p + 1) \in 0 .. 1
        /\ BitOf(v, 4 * p + 2) \in 0 .. 1 /\ BitOf(v, 4 * p + 3) \in 0 .. 1
    <3>1. 4 * p + 1 \in Nat /\ 4 * p + 2 \in Nat /\ 4 * p + 3 \in Nat
      OBVIOUS
    <3> QED BY <1>1, <3>1, OneBit
  <2> QED BY <2>1
<1>3. PICK x \in Nat : x = (v \div Power(16, p)) % 16 /\ x = 8 * b3 + 4 * b2 + 2 * b1 + b0
  <2>1. (v \div Power(16, p)) % 16 = 8 * b3 + 4 * b2 + 2 * b1 + b0
    BY <1>2, DigitsByBits
  <2>2. 8 * b3 + 4 * b2 + 2 * b1 + b0 \in Nat
    OBVIOUS
  <2> QED BY <2>1, <2>2
<1>4. Power(2, 0) = 1 /\ Power(2, 1) = 2 /\ Power(2, 2) = 4 /\ Power(2, 3) = 8
  <2>1. 0 + 1 = 1 /\ 1 + 1 = 2 /\ 2 + 1 = 3
    OBVIOUS
  <2>2. Power(2, 0) = 1 /\ Power(2, 0 + 1) = 2 * Power(2, 0)
    BY PowerFacts
  <2>3. Power(2, 1 + 1) = 2 * Power(2, 1)
    BY PowerFacts
  <2>4. Power(2, 2 + 1) = 2 * Power(2, 2)
    BY PowerFacts
  <2> QED BY <2>1, <2>2, <2>3, <2>4
<1>5. CASE r = 0
  <2>1. PICK y \in Nat : y = 4 * b3 + 2 * b2 + b1
    OBVIOUS
  <2>2. (1 * x + 0) \div 1 = x /\ 1 * x + 0 = x
    BY DivModOnly
  <2>3. (2 * y + b0) % 2 = b0
    BY DivModOnly
  <2>4. (x \div 1) % 2 = b0
    BY <1>3, <2>1, <2>2, <2>3
  <2> QED BY <1>1, <1>2, <1>3, <1>4, <1>5, <2>4, SamePower DEF Conv!Bit
<1>6. CASE r = 1
  <2>1. PICK y \in Nat, z \in Nat : z = 2 * b3 + b2 /\ y = 2 * z + b1 /\ x = 2 * y + b0
    BY <1>3
  <2>2. (2 * y + b0) \div 2 = y
    BY DivModOnly
  <2>3. (2 * z + b1) % 2 = b1
    BY DivModOnly
  <2>4. (x \div 2) % 2 = b1
    BY <2>1, <2>2, <2>3
  <2> QED BY <1>2, <1>3, <1>4, <1>6, <2>4, SamePower DEF Conv!Bit
<1>7. CASE r = 2
  <2>1. PICK y \in Nat, l \in 0 .. 4 - 1 : l = 2 * b1 + b0 /\ y = 2 * b3 + b2 /\ x = 4 * y + l
    BY <1>3
  <2>2. (4 * y + l) \div 4 = y
    BY DivModOnly
  <2>3. (2 * b3 + b2) % 2 = b2
    BY DivModOnly
  <2>4. (x \div 4) % 2 = b2
    BY <2>1, <2>2, <2>3
  <2> QED BY <1>2, <1>3, <1>4, <1>7, <2>4, SamePower DEF Conv!Bit
<1>8. CASE r = 3
  <2>1. PICK l \in 0 .. 8 - 1 : l = 4 * b2 + 2 * b1 + b0 /\ x = 8 * b3 + l
    BY <1>3
  <2>2. (8 * b3 + l) \div 8 = b3
    BY DivModOnly
  <2>3. (2 * 0 + b3) % 2 = b3 /\ 2 * 0 + b3 = b3
    BY DivModOnly
  <2>4. (x \div 8) % 2 = b3
    BY <2>1, <2>2, <2>3
  <2> QED BY <1>2, <1>3, <1>4, <1>8, <2>4, SamePower DEF Conv!Bit
<1> QED BY <1>5, <1>6, <1>7, <1>8

\* A value has no bit at a place that is too high for it.
LEMMA NoBit ==
    ASSUME NEW v \in Nat, NEW b \in Nat, v < Power(2, b)
    PROVE  BitOf(v, b) = 0 /\ BitOf(v, b + 1) = 0
<1>1. PICK w \in Nat : w = Power(2, b) /\ w > 0 /\ Power(2, b + 1) = 2 * w
  <2>1. 2 \in Nat /\ 2 > 0
    OBVIOUS
  <2> QED BY <2>1, PowerFacts
<1>2. v \in 0 .. w - 1 /\ v \in 0 .. 2 * w - 1 /\ 2 * w \in Nat /\ 2 * w > 0
  BY <1>1
<1>3. (w * 0 + v) \div w = 0 /\ w * 0 + v = v
  BY <1>1, <1>2, DivModOnly
<1>4. ((2 * w) * 0 + v) \div (2 * w) = 0 /\ (2 * w) * 0 + v = v
  BY <1>2, DivModOnly
<1>5. (2 * 0 + 0) % 2 = 0 /\ 2 * 0 + 0 = 0
  BY DivModOnly
<1> QED BY <1>1, <1>3, <1>4, <1>5 DEF BitOf

-----------------------------------------------------------------------------
(* Convert: what has been printed.                                           *)

Octals == (4 * Nibbles + 2) \div 3      \* how many octal digits there are

\* What belongs at place p of the line in a mode.
CharAt(m, p) ==
    Conv!Code((value \div Power(Conv!BaseOf[m], Conv!Width[m] - p)) % Conv!BaseOf[m])

\* The first len characters are out, and they are right.
Written(len) ==
    /\ out \in Seq(Int) /\ Len(out) = len
    /\ \A p \in 1 .. len : out[p] = CharAt(mode, p)

PerNibble == IF mode = "HEX" THEN 1 ELSE 4

\* The array of bits is filled from the top, nibble by nibble, and read from the top,
\* three bits for a character; the other modes print a nibble at a time.
ConvInv ==
    /\ value \in Nat /\ value < Power(16, Nibbles) /\ mode \in Conv!Modes \cup {"other"}
    /\ convertPc \in {"switch", "fill", "group", "print", "done"}
    /\ DOMAIN binary = 0 .. 4 * Nibbles + 1
    /\ convertPc = "switch" => out = <<>>
    /\ convertPc \in {"fill", "print"} =>
          /\ k \in -1 .. Nibbles - 1
          /\ \A q \in 0 .. Nibbles - 1 : nibbles[q] = (value \div Power(16, q)) % 16
    /\ convertPc = "fill" =>
          /\ mode = "OCT" /\ Written(0)
          /\ \A b \in 0 .. 4 * Nibbles - 1 : b \div 4 > k => binary[b] = 48 + BitOf(value, b)
    /\ convertPc = "group" =>
          /\ mode = "OCT"
          /\ \E g \in 0 .. Octals : k = 3 * g - 1 /\ Written(Octals - g)
          /\ \A b \in 0 .. 4 * Nibbles + 1 : binary[b] = 48 + BitOf(value, b)
    /\ convertPc = "print" =>
          mode \in {"BIN", "HEX"} /\ Written(PerNibble * (Nibbles - 1 - k))
    /\ convertPc = "done" => Conv!ConvertRight

\* The bits and the two that are added come out in threes.
LEMMA NibblesFacts ==
    /\ Nibbles \in Nat /\ Nibbles > 0
    /\ Octals \in Nat /\ 3 * Octals = 4 * Nibbles + 2
<1>1. Nibbles \in Nat /\ Nibbles > 0 /\ Nibbles % 3 = 1
  BY InstancesAssumption DEF Conv!Assumptions
<1>2. PICK h \in Nat : 3 * h + 1 = Nibbles
  BY <1>1, DivMod
<1>3. (3 * (4 * h + 2) + 0) \div 3 = 4 * h + 2
  BY DivModOnly
<1>4. 4 * Nibbles + 2 = 3 * (4 * h + 2) + 0
  BY <1>2
<1> QED BY <1>1, <1>3, <1>4 DEF Octals

\* The characters of each mode, by bits and by nibbles.
LEMMA CharFacts ==
    ASSUME value \in Nat, NEW e \in Nat
    PROVE  /\ e < Octals => CharAt("OCT", Octals - e) =
                 48 + 4 * BitOf(value, 3 * e + 2) + 2 * BitOf(value, 3 * e + 1) + BitOf(value, 3 * e)
           /\ e < Nibbles => CharAt("HEX", Nibbles - e) =
                 Conv!HexDigit((value \div Power(16, e)) % 16)
           /\ e < 4 * Nibbles => CharAt("BIN", 4 * Nibbles - e) = 48 + BitOf(value, e)
<1>1. /\ Conv!BaseOf["OCT"] = 8 /\ Conv!BaseOf["HEX"] = 16 /\ Conv!BaseOf["BIN"] = 2
      /\ Conv!Width["OCT"] = Octals /\ Conv!Width["HEX"] = Nibbles
      /\ Conv!Width["BIN"] = 4 * Nibbles
  BY DEF Conv!BaseOf, Conv!Width, Octals
<1>2. /\ Octals - (Octals - e) = e /\ Nibbles - (Nibbles - e) = e
      /\ 4 * Nibbles - (4 * Nibbles - e) = e
  BY NibblesFacts
<1>3. CharAt("OCT", Octals - e) = Conv!Code((value \div Power(8, e)) % 8)
  BY <1>1, <1>2 DEF CharAt
<1>4. CharAt("HEX", Nibbles - e) = Conv!Code((value \div Power(16, e)) % 16)
  BY <1>1, <1>2 DEF CharAt
<1>5. CharAt("BIN", 4 * Nibbles - e) = Conv!Code(BitOf(value, e))
  BY <1>1, <1>2 DEF CharAt, BitOf
<1>6. PICK b0 \in 0 .. 1, b1 \in 0 .. 1, b2 \in 0 .. 1 :
         b0 = BitOf(value, 3 * e) /\ b1 = BitOf(value, 3 * e + 1) /\ b2 = BitOf(value, 3 * e + 2)
  <2>1. 3 * e \in Nat /\ 3 * e + 1 \in Nat /\ 3 * e + 2 \in Nat
    OBVIOUS
  <2> QED BY <2>1, OneBit
<1>7. Conv!Code(4 * b2 + 2 * b1 + b0) = 48 + 4 * b2 + 2 * b1 + b0
  BY DEF Conv!Code
<1>8. (value \div Power(8, e)) % 8 = 4 * b2 + 2 * b1 + b0
  BY <1>6, DigitsByBits
<1>9. (value \div Power(16, e)) % 16 \in 0 .. 15
  <2>1. Power(16, e) \in Nat /\ Power(16, e) > 0
    <3>1. 16 \in Nat /\ 16 > 0
      OBVIOUS
    <3> QED BY <3>1, PowerFacts
  <2>2. value \div Power(16, e) \in Nat
    BY <2>1, DivMod
  <2>3. (value \div Power(16, e)) % 16 \in 0 .. 16 - 1
    BY <2>2, DivMod
  <2> QED BY <2>3
<1>10. Conv!Code((value \div Power(16, e)) % 16) = Conv!HexDigit((value \div Power(16, e)) % 16)
  <2>1. \A d \in 0 .. 15 : Conv!Code(d) = Conv!HexDigit(d)
    BY DEF Conv!Code, Conv!HexDigit
  <2> QED BY <1>9, <2>1
<1>11. Conv!Code(BitOf(value, e)) = 48 + BitOf(value, e)
  <2>1. \A d \in 0 .. 1 : Conv!Code(d) = 48 + d
    BY DEF Conv!Code
  <2> QED BY <2>1, OneBit
<1> QED BY <1>3, <1>4, <1>5, <1>6, <1>7, <1>8, <1>10, <1>11

\* A character is put behind the others.
LEMMA AppendsOne ==
    ASSUME NEW s \in Seq(Int), NEW c \in Int
    PROVE  Append(s, c) = s \o <<c>>
<1>1. s \o <<c>> \in Seq(Int) /\ Append(s, c) \in Seq(Int)
  OBVIOUS
<1>2. Len(s \o <<c>>) = Len(s) + 1 /\ Len(Append(s, c)) = Len(s) + 1
  OBVIOUS
<1>3. \A p \in 1 .. Len(s) + 1 : (s \o <<c>>)[p] = Append(s, c)[p]
  OBVIOUS
<1> QED BY <1>1, <1>2, <1>3

\* Four numbers are a sequence.
LEMMA FourInARow ==
    ASSUME NEW f \in [1 .. 4 -> Int]
    PROVE  f \in Seq(Int) /\ Len(f) = 4
<1>1. f = <<f[1], f[2], f[3], f[4]>>
  OBVIOUS
<1>2. /\ <<f[1], f[2], f[3], f[4]>> \in Seq(Int)
      /\ Len(<<f[1], f[2], f[3], f[4]>>) = 4
  OBVIOUS
<1> QED BY <1>1, <1>2

\* The next character is the right one.
LEMMA CharGrows ==
    ASSUME NEW len \in Nat, Written(len), NEW c \in Int, c = CharAt(mode, len + 1),
           out' = Append(out, c), UNCHANGED <<mode, value>>
    PROVE  Written(len + 1)'
<1>1. out \in Seq(Int) /\ Len(out) = len
  BY DEF Written
<1>2. out' \in Seq(Int) /\ Len(out') = len + 1
  BY <1>1
<1>3. ASSUME NEW p \in 1 .. len + 1
      PROVE  out'[p] = CharAt(mode, p)
  <2>1. CASE p = len + 1
    BY <1>1, <2>1
  <2>2. CASE p \in 1 .. len
    <3>1. out'[p] = out[p]
      BY <1>1, <2>2
    <3> QED BY <2>2, <3>1 DEF Written
  <2>3. p = len + 1 \/ p \in 1 .. len
    OBVIOUS
  <2> QED BY <2>1, <2>2, <2>3
<1> QED BY <1>2, <1>3 DEF Written, CharAt

\* A nibble has four bits.
LEMMA NibbleRange ==
    ASSUME NEW v \in Nat, NEW q \in Nat
    PROVE  (v \div Power(16, q)) % 16 \in 0 .. 15
<1>1. Power(16, q) \in Nat /\ Power(16, q) > 0
  <2>1. 16 \in Nat /\ 16 > 0
    OBVIOUS
  <2> QED BY <2>1, PowerFacts
<1>2. v \div Power(16, q) \in Nat
  BY <1>1, DivMod
<1>3. (v \div Power(16, q)) % 16 \in 0 .. 16 - 1
  BY <1>2, DivMod
<1> QED BY <1>3

\* The line is complete.
LEMMA LineEnds ==
    ASSUME mode \in Conv!Modes, Written(Conv!Width[mode]), Conv!Width[mode] \in Nat,
           out' = Append(out, Conv!Newline), UNCHANGED <<mode, value>>
    PROVE  Conv!ConvertRight'
<1>1. out = [p \in 1 .. Conv!Width[mode] |-> CharAt(mode, p)]
  BY DEF Written
<1>2. out' = out \o <<Conv!Newline>>
  <2>1. PICK s \in Seq(Int) : s = out
    BY DEF Written
  <2>2. Append(s, 10) = s \o <<10>>
    BY AppendsOne
  <2> QED BY <2>1, <2>2 DEF Conv!Newline
<1>3. Conv!Numeral(value, mode) =
         [p \in 1 .. Conv!Width[mode] |-> CharAt(mode, p)] \o <<Conv!Newline>>
  BY SamePower DEF Conv!Numeral, CharAt
<1>4. out' = Conv!Numeral(value', mode')
  BY <1>1, <1>2, <1>3
<1> QED BY <1>4 DEF Conv!ConvertRight

\* Nothing has been printed at first.
LEMMA ConvBegins == ASSUME Init PROVE ConvInv
<1>1. Inputs \subseteq Nat /\ \A v \in Inputs : v < Power(16, Nibbles)
  <2>1. Inputs \subseteq 0 .. Power(16, Nibbles) - 1
    BY InstancesAssumption, SamePower DEF Conv!Assumptions
  <2>2. Power(16, Nibbles) \in Nat
    <3>1. 16 \in Nat
      OBVIOUS
    <3> QED BY <3>1, NibblesFacts, PowerFacts
  <2> QED BY <2>1, <2>2
<1>2. value \in Inputs
  BY InstancesAssumption DEF Init, Only
<1> QED BY <1>1, <1>2 DEF Init, Conv!Init, ConvInv

\* A nibble's four bits are where its value has them.
LEMMA FillKept == ASSUME ConvInv, Conv!Fill PROVE ConvInv'
<1>1. /\ convertPc = "fill" /\ convertPc' = "fill" /\ k >= 0 /\ k' = k - 1
      /\ UNCHANGED <<mode, value, nibbles, out>>
      /\ binary' = [b \in DOMAIN binary |->
                      IF b \div 4 = k THEN 48 + Conv!Bit(nibbles[k], b % 4) ELSE binary[b]]
  BY DEF Conv!Fill, Conv!Zero
<1>2. k \in 0 .. Nibbles - 1 /\ nibbles[k] = (value \div Power(16, k)) % 16
  BY <1>1, NibblesFacts DEF ConvInv
<1>3. ASSUME NEW b \in 0 .. 4 * Nibbles - 1, b \div 4 > k - 1
      PROVE  binary'[b] = 48 + BitOf(value, b)
  <2>1. b \in 0 .. 4 * Nibbles + 1 /\ b \in DOMAIN binary
    BY NibblesFacts DEF ConvInv
  <2>2. b \div 4 \in Nat /\ b % 4 \in 0 .. 3 /\ 4 * (b \div 4) + (b % 4) = b
    BY NibblesFacts
  <2>3. CASE b \div 4 = k
    <3>1. binary'[b] = 48 + Conv!Bit(nibbles[k], b % 4)
      BY <1>1, <2>1, <2>3
    <3>2. Conv!Bit((value \div Power(16, k)) % 16, b % 4) = BitOf(value, 4 * k + (b % 4))
      <4>1. value \in Nat /\ k \in Nat
        BY <1>2 DEF ConvInv
      <4> QED BY <2>2, <4>1, BitsOfNibble
    <3>3. 4 * k + (b % 4) = b
      BY <2>2, <2>3
    <3> QED BY <1>2, <3>1, <3>2, <3>3
  <2>4. CASE b \div 4 > k
    BY <1>1, <1>2, <2>1, <2>4 DEF ConvInv
  <2> QED BY <1>2, <1>3, <2>2, <2>3, <2>4
<1>4. Written(0)'
  BY <1>1 DEF ConvInv, Written, CharAt
<1>5. DOMAIN binary' = 0 .. 4 * Nibbles + 1
  BY <1>1 DEF ConvInv
<1>6. k' \in -1 .. Nibbles - 1
  BY <1>1, <1>2, NibblesFacts
<1> QED BY <1>1, <1>3, <1>4, <1>5, <1>6 DEF ConvInv, BitOf

\* The two that are added stand for bits that the value has not.
LEMMA PadKept == ASSUME ConvInv, Conv!Pad PROVE ConvInv'
<1>1. /\ convertPc = "fill" /\ convertPc' = "group" /\ k < 0 /\ k' = 4 * Nibbles + 1
      /\ UNCHANGED <<mode, value, nibbles, out>>
      /\ binary' = [binary EXCEPT ![4 * Nibbles] = 48, ![4 * Nibbles + 1] = 48]
  BY DEF Conv!Pad, Conv!Zero
<1>2. k = -1
  BY <1>1, NibblesFacts DEF ConvInv
<1>3. BitOf(value, 4 * Nibbles) = 0 /\ BitOf(value, 4 * Nibbles + 1) = 0
  <2>1. Power(16, Nibbles) = Power(2, 4 * Nibbles) /\ 4 * Nibbles \in Nat
    BY NibblesFacts, PowersOfTwo
  <2> QED BY <2>1, NoBit DEF ConvInv
<1>4. ASSUME NEW b \in 0 .. 4 * Nibbles + 1
      PROVE  binary'[b] = 48 + BitOf(value, b)
  <2>1. CASE b \in 0 .. 4 * Nibbles - 1
    <3>1. b \div 4 > k
      BY <1>2, <2>1, NibblesFacts
    <3>2. binary[b] = 48 + BitOf(value, b)
      BY <1>1, <2>1, <3>1 DEF ConvInv
    <3> QED BY <1>1, <2>1, <3>2, NibblesFacts DEF ConvInv
  <2>2. CASE b \in {4 * Nibbles, 4 * Nibbles + 1}
    BY <1>1, <1>3, <2>2, NibblesFacts DEF ConvInv
  <2> QED BY <2>1, <2>2, NibblesFacts
<1>5. Octals \in 0 .. Octals /\ k' = 3 * Octals - 1 /\ Octals - Octals = 0
  BY <1>1, NibblesFacts
<1>6. Written(0)'
  BY <1>1 DEF ConvInv, Written, CharAt
<1>7. (\E g \in 0 .. Octals : k = 3 * g - 1 /\ Written(Octals - g))'
  BY <1>5, <1>6 DEF Octals
<1>8. DOMAIN binary' = 0 .. 4 * Nibbles + 1
  BY <1>1 DEF ConvInv
<1> QED BY <1>1, <1>4, <1>7, <1>8 DEF ConvInv, BitOf

\* Three bits make an octal digit.
LEMMA GroupKept == ASSUME ConvInv, Conv!Group PROVE ConvInv'
<1>1. /\ convertPc = "group" /\ k >= 0 /\ k' = k - 3
      /\ UNCHANGED <<mode, value, nibbles, binary>> /\ mode = "OCT" /\ value \in Nat
  BY DEF Conv!Group, ConvInv
<1>2. PICK g \in 0 .. Octals : k = 3 * g - 1 /\ Written(Octals - g)
  BY <1>1 DEF ConvInv
<1>3. PICK e \in Nat : e = g - 1 /\ e < Octals /\ k = 3 * e + 2
  BY <1>1, <1>2, NibblesFacts
<1>4. PICK b0 \in 0 .. 1, b1 \in 0 .. 1, b2 \in 0 .. 1 :
         b0 = BitOf(value, 3 * e) /\ b1 = BitOf(value, 3 * e + 1) /\ b2 = BitOf(value, 3 * e + 2)
  <2>1. 3 * e \in Nat /\ 3 * e + 1 \in Nat /\ 3 * e + 2 \in Nat
    OBVIOUS
  <2> QED BY <1>1, <2>1, OneBit
<1>5. binary[k] = 48 + b2 /\ binary[k - 1] = 48 + b1 /\ binary[k - 2] = 48 + b0
  <2>1. /\ 3 * e \in 0 .. 4 * Nibbles + 1 /\ 3 * e + 1 \in 0 .. 4 * Nibbles + 1
        /\ 3 * e + 2 \in 0 .. 4 * Nibbles + 1
    BY <1>3, NibblesFacts
  <2>2. k - 1 = 3 * e + 1 /\ k - 2 = 3 * e
    BY <1>3
  <2> QED BY <1>1, <1>3, <1>4, <2>1, <2>2 DEF ConvInv
<1>6. PICK c \in Int : c = 48 + 4 * b2 + 2 * b1 + b0
  OBVIOUS
<1>7. out' = Append(out, c) /\ convertPc' = "group"
  <2> DEFINE three == <<binary[k], binary[k - 1], binary[k - 2]>>
  <2>1. three[1] = 48 + b2 /\ three[2] = 48 + b1 /\ three[3] = 48 + b0
    BY <1>5
  <2>2. IF \A q \in 1 .. 3 : three[q] - 48 \in {0, 1}
        THEN /\ out' = Append(out, 48 + 4 * (three[1] - 48) + 2 * (three[2] - 48) + (three[3] - 48))
             /\ UNCHANGED convertPc
        ELSE convertPc' = "done" /\ UNCHANGED out
    BY DEF Conv!Group, Conv!Zero
  <2> HIDE DEF three
  <2>3. \A q \in 1 .. 3 : three[q] - 48 \in {0, 1}
    BY <2>1
  <2>4. 48 + 4 * (three[1] - 48) + 2 * (three[2] - 48) + (three[3] - 48) = c
    BY <1>6, <2>1
  <2> QED BY <1>1, <2>2, <2>3, <2>4
<1>8. PICK len \in Nat : len = Octals - g /\ len + 1 = Octals - e
  BY <1>3, NibblesFacts
<1>9. c = CharAt(mode, len + 1)
  BY <1>1, <1>3, <1>4, <1>6, <1>8, CharFacts
<1>10. Written(len + 1)'
  BY <1>1, <1>2, <1>7, <1>8, <1>9, CharGrows
<1>11. e \in 0 .. Octals /\ k' = 3 * e - 1 /\ len + 1 = Octals - e
  BY <1>1, <1>3, <1>8, NibblesFacts
<1>12. (\E h \in 0 .. Octals : k = 3 * h - 1 /\ Written(Octals - h))'
  BY <1>10, <1>11 DEF Octals
<1> QED BY <1>1, <1>7, <1>12 DEF ConvInv, BitOf

\* A nibble is a hexadecimal digit or four bits.
LEMMA PrintKept == ASSUME ConvInv, Conv!PrintNibble PROVE ConvInv'
<1>1. /\ convertPc = "print" /\ convertPc' = "print" /\ k >= 0 /\ k' = k - 1
      /\ UNCHANGED <<mode, value, nibbles, binary>>
      /\ mode \in {"BIN", "HEX"} /\ value \in Nat
      /\ out' = out \o IF mode = "HEX" THEN <<Conv!HexDigit(nibbles[k])>>
                                       ELSE Conv!FourBits(nibbles[k])
  BY DEF Conv!PrintNibble, ConvInv
<1>2. k \in 0 .. Nibbles - 1 /\ nibbles[k] = (value \div Power(16, k)) % 16 /\ k < Nibbles
  BY <1>1, NibblesFacts DEF ConvInv
<1>3. out \in Seq(Int) /\ Written(PerNibble * (Nibbles - 1 - k))
  BY <1>1 DEF ConvInv, Written
<1>4. Written(PerNibble * (Nibbles - 1 - k))'
  <2>1. CASE mode = "HEX"
    <3>1. PICK len \in Nat : len = Nibbles - 1 - k
      BY <1>2, NibblesFacts
    <3>2. 1 * len = len /\ len + 1 = Nibbles - k /\ Nibbles - 1 - k' = len + 1
      BY <1>1, <1>2, <3>1, NibblesFacts
    <3>3. Written(len)
      BY <1>3, <2>1, <3>1, <3>2 DEF PerNibble
    <3>4. PICK c \in Int : c = Conv!HexDigit(nibbles[k])
      <4>1. nibbles[k] \in Int
        BY <1>1, <1>2, NibbleRange
      <4> QED BY <4>1 DEF Conv!HexDigit
    <3>5. c = CharAt(mode, len + 1)
      BY <1>1, <1>2, <2>1, <3>2, <3>4, CharFacts
    <3>6. out' = Append(out, c)
      BY <1>1, <1>3, <2>1, <3>4, AppendsOne
    <3>7. Written(len + 1)'
      BY <1>1, <3>3, <3>5, <3>6, CharGrows
    <3>8. PerNibble' = 1 /\ 1 * (len + 1) = len + 1
      BY <1>1, <2>1 DEF PerNibble
    <3> QED BY <3>2, <3>7, <3>8
  <2>2. CASE mode = "BIN"
    <3>1. PICK len \in Nat : len = 4 * (Nibbles - 1 - k)
      BY <1>2, NibblesFacts
    <3>2. len + 4 = 4 * (Nibbles - 1 - k') /\ len + 4 = 4 * Nibbles - 4 * k
      BY <1>1, <1>2, <3>1, NibblesFacts
    <3>3. Written(len)
      BY <1>3, <2>2, <3>1 DEF PerNibble
    <3>4. PICK four \in Seq(Int) : four = Conv!FourBits(nibbles[k]) /\ Len(four) = 4
      <4>1. \A q \in 1 .. 4 : Conv!Bit(nibbles[k], 4 - q) \in Int
        <5>1. nibbles[k] \in Int
          BY <1>1, <1>2, NibbleRange
        <5>2. \A q \in 1 .. 4 : Power(2, 4 - q) \in Nat /\ Power(2, 4 - q) > 0
          <6>1. 2 \in Nat /\ 2 > 0 /\ \A q \in 1 .. 4 : 4 - q \in Nat
            OBVIOUS
          <6> QED BY <6>1, PowerFacts
        <5> QED BY <5>1, <5>2, SamePower DEF Conv!Bit
      <4>2. Conv!FourBits(nibbles[k]) \in [1 .. 4 -> Int]
        BY <4>1 DEF Conv!FourBits, Conv!Zero
      <4> QED BY <4>2, FourInARow
    <3>5. ASSUME NEW q \in 1 .. 4
          PROVE  four[q] = CharAt(mode, len + q)
      <4>1. PICK r \in 0 .. 3 : r = 4 - q
        OBVIOUS
      <4>2. four[q] = 48 + Conv!Bit(nibbles[k], r)
        BY <3>4, <4>1 DEF Conv!FourBits, Conv!Zero
      <4>3. Conv!Bit(nibbles[k], r) = BitOf(value, 4 * k + r)
        <5>1. k \in Nat
          BY <1>2
        <5>2. Conv!Bit((value \div Power(16, k)) % 16, r) = BitOf(value, 4 * k + r)
          BY <1>1, <5>1, BitsOfNibble
        <5> QED BY <1>2, <5>2
      <4>4. PICK e \in Nat : e = 4 * k + r /\ e < 4 * Nibbles /\ 4 * Nibbles - e = len + q
        BY <1>2, <3>2, <4>1, NibblesFacts
      <4>5. CharAt("BIN", 4 * Nibbles - e) = 48 + BitOf(value, e)
        BY <1>1, <4>4, CharFacts
      <4> QED BY <2>2, <4>2, <4>3, <4>4, <4>5
    <3>6. out' = out \o four
      BY <1>1, <2>2, <3>4
    <3>7. out' \in Seq(Int) /\ Len(out') = len + 4
      <4>1. Len(out) = len
        BY <3>3 DEF Written
      <4>2. out \o four \in Seq(Int) /\ Len(out \o four) = Len(out) + Len(four)
        BY <1>3, <3>4, ConcatProperties
      <4> QED BY <3>4, <3>6, <4>1, <4>2
    <3>8. ASSUME NEW p \in 1 .. len + 4
          PROVE  out'[p] = CharAt(mode, p)
      <4>1. CASE p \in 1 .. len
        <5>1. out'[p] = out[p]
          <6>1. Len(out) = len
            BY <3>3 DEF Written
          <6> QED BY <1>3, <3>4, <3>6, <4>1, <6>1
        <5> QED BY <3>3, <4>1, <5>1 DEF Written
      <4>2. CASE p \in len + 1 .. len + 4
        <5>1. PICK q \in 1 .. 4 : p = len + q
          <6>1. p - len \in 1 .. 4 /\ p = len + (p - len)
            BY <4>2
          <6> QED BY <6>1
        <5>2. out'[p] = four[q]
          BY <1>3, <3>3, <3>4, <3>6, <5>1 DEF Written
        <5> QED BY <3>5, <5>1, <5>2
      <4> QED BY <4>1, <4>2
    <3>9. Written(len + 4)'
      BY <1>1, <3>7, <3>8 DEF Written, CharAt
    <3>10. PerNibble' = 4
      BY <1>1, <2>2 DEF PerNibble
    <3> QED BY <3>2, <3>9, <3>10
  <2> QED BY <1>1, <2>1, <2>2
<1>5. k' \in -1 .. Nibbles - 1
  BY <1>1, <1>2, NibblesFacts
<1> QED BY <1>1, <1>4, <1>5 DEF ConvInv

LEMMA ConvKept == ASSUME ConvInv, [Conv!Next]_convertVars PROVE ConvInv'
<1>1. CASE UNCHANGED convertVars
  BY <1>1 DEF convertVars, ConvInv, Written, CharAt, BitOf, PerNibble, Octals, Conv!ConvertRight,
              Conv!Numeral
<1>2. CASE Conv!Switch
  <2>1. convertPc = "switch" /\ out = <<>> /\ UNCHANGED <<mode, value, binary, out>>
    BY <1>2 DEF Conv!Switch, ConvInv
  <2>2. CASE mode \in Conv!Modes
    <3>1. /\ nibbles' = [q \in 0 .. Nibbles - 1 |-> (value \div Power(16, q)) % 16]
          /\ k' = Nibbles - 1
          /\ convertPc' = IF mode = "OCT" THEN "fill" ELSE "print"
      BY <1>2, <2>2, SamePower DEF Conv!Switch
    <3>2. Written(0)' /\ k' \in -1 .. Nibbles - 1
      BY <2>1, <3>1, NibblesFacts DEF Written
    <3>3. PerNibble' * (Nibbles - 1 - k') = 0
      BY <3>1, NibblesFacts DEF PerNibble
    <3>4. \A b \in 0 .. 4 * Nibbles - 1 : ~(b \div 4 > k')
      BY <3>1, NibblesFacts
    <3> QED BY <2>1, <2>2, <3>1, <3>2, <3>3, <3>4 DEF ConvInv, Conv!Modes
  <2>3. CASE mode \notin Conv!Modes
    BY <1>2, <2>1, <2>3 DEF Conv!Switch, ConvInv, Conv!ConvertRight
  <2> QED BY <2>2, <2>3
<1>3. CASE Conv!Fill
  BY <1>3, FillKept
<1>4. CASE Conv!Pad
  BY <1>4, PadKept
<1>5. CASE Conv!Group
  BY <1>5, GroupKept
<1>6. CASE Conv!PrintNibble
  BY <1>6, PrintKept
<1>7. CASE Conv!EndLine
  <2>1. /\ convertPc \in {"group", "print"} /\ convertPc' = "done" /\ k < 0
        /\ out' = Append(out, Conv!Newline) /\ UNCHANGED <<mode, value, nibbles, binary, k>>
    BY <1>7 DEF Conv!EndLine
  <2>2. mode \in Conv!Modes /\ Conv!Width[mode] \in Nat /\ Written(Conv!Width[mode])
    <3>1. CASE convertPc = "group"
      <4>1. PICK g \in 0 .. Octals : k = 3 * g - 1 /\ Written(Octals - g)
        BY <3>1 DEF ConvInv
      <4>2. Octals - g = Octals /\ mode = "OCT"
        BY <2>1, <3>1, <4>1, NibblesFacts DEF ConvInv
      <4> QED BY <4>1, <4>2, NibblesFacts DEF Conv!Width, Conv!Modes, Octals
    <3>2. CASE convertPc = "print"
      <4>1. k = -1 /\ Nibbles - 1 - k = Nibbles /\ 1 * Nibbles = Nibbles /\ 4 * Nibbles \in Nat
        BY <2>1, <3>2, NibblesFacts DEF ConvInv
      <4> QED BY <3>2, <4>1, NibblesFacts DEF ConvInv, PerNibble, Conv!Width, Conv!Modes
    <3> QED BY <2>1, <3>1, <3>2
  <2>3. Conv!ConvertRight'
    BY <2>1, <2>2, LineEnds
  <2> QED BY <2>1, <2>3 DEF ConvInv
<1> QED BY <1>1, <1>2, <1>3, <1>4, <1>5, <1>6, <1>7 DEF Conv!Next

\* When convert returns it has printed the value in the base of its mode, with all
\* leading zeros and a newline, and nothing for a mode it does not know.
THEOREM ConversionRight == Spec => []ConvertRight
<1>1. Init => ConvInv
  BY ConvBegins
<1>2. ConvInv /\ [Next]_vars => ConvInv'
  <2>1. [Next]_vars => [Conv!Next]_convertVars
    BY DEF Next, vars
  <2> QED BY <2>1, ConvKept
<1>3. ConvInv => ConvertRight
  BY DEF ConvInv, ConvertRight, Conv!ConvertRight
<1> QED BY <1>1, <1>2, <1>3, PTL DEF Spec
=============================================================================
