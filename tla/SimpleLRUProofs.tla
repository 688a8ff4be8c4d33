-------------------------- MODULE SimpleLRUProofs ---------------------------
(***************************************************************************)
(* The safety of SimpleLRU, for every set of keys, values and addresses    *)
(* and every cache size.  The inductive invariant IInv says that some      *)
(* sequence s walks the list through all allocated nodes; each lemma below *)
(* gives the walk, and the space taken along it, after one helper of the   *)
(* code has relinked the list.  The walk is also what the entries of the   *)
(* abstract cache are read from: the second half of the module shows that  *)
(* SimpleLRU implements LRUCache, and through it Storage.                  *)
(***************************************************************************)
EXTENDS LRURefinement, SequenceLemmas, FiniteSetTheorems, TLAPS

USE LengthsAssumption, NullAssumption, SizeAssumption

(* The allocated nodes are finitely many, so Count is a number.            *)
LEMMA CountType ==
  ASSUME live \in SUBSET Addr
  PROVE  IsFiniteSet(live) /\ Count \in Nat /\ (Count = 0 <=> live = {})
BY AddrAssumption, FS_Subset, FS_CardinalityType, FS_EmptySet DEF Count

(* The size of a node is a number.                                         *)
LEMMA NodeSizeType ==
  ASSUME NodesFilled, NEW a \in live
  PROVE  NodeSize(a) \in Nat
BY DEF NodesFilled, NodeSize, PairSize

(* What the walk says in the calls' states: the ends and the tail.         *)
Listed(s, c) ==
  /\ s \in [1..Count -> live] /\ c \in [0..Count -> 0..MaxSize]
  /\ Walk(s)
  /\ tail = IF Count = 0 THEN Null ELSE s[Count]
  /\ PrefixSizes(s, c)

(* Outside the destructor the invariant provides a walk and its sizes.     *)
LEMMA ListedExists ==
  ASSUME IInv, pc \notin {"destroy", "destroyed"}
  PROVE  \E s, c : Listed(s, c)
BY DEF IInv, ChainAndSpace, TailAt, Listed

(* Conversely a walk and its sizes make the certificate of the next state. *)
LEMMA ListedSuffices ==
  ASSUME NEW s, NEW c, Listed(s, c)', pc' \notin {"destroy", "destroyed"}
  PROVE  ChainAndSpace'
BY DEF ChainAndSpace, TailAt, Listed

(* A walk and its sizes, spelled out.                                      *)
LEMMA ListedFacts ==
  ASSUME NEW s, NEW c, Listed(s, c), live \in SUBSET Addr, NodesFilled
  PROVE  /\ Count \in Nat
         /\ \A i \in 1..Count : s[i] \in live /\ s[i] \in Addr /\ s[i] # Null
         /\ \A i, j \in 1..Count : s[i] = s[j] => i = j
         /\ \A a \in live : \E i \in 1..Count : s[i] = a
         /\ \A i \in 1..Count : i < Count => next[s[i]] = s[i + 1]
         /\ Count > 0 => next[s[Count]] = Null /\ tail = s[Count]
         /\ \A i \in 1..Count : i > 1 => prev[s[i]] = s[i - 1]
         /\ Count > 0 => prev[s[1]] = Null /\ head = s[1]
         /\ Count = 0 => head = Null /\ tail = Null
         /\ c[0] = 0 /\ c[Count] + free = MaxSize
         /\ \A i \in 0..Count : c[i] \in 0..MaxSize
         /\ \A i \in 1..Count : c[i] = c[i - 1] + NodeSize(s[i])
         /\ \A i, j \in 0..Count : i <= j => c[i] <= c[j]
         /\ \A a \in live : NodeSize(a) \in Nat
<1>1. Count \in Nat /\ Null \notin live /\ (\A a \in live : NodeSize(a) \in Nat)
  BY CountType, NodeSizeType
<1>2. \A i \in 1..Count : s[i] \in live /\ s[i] \in Addr /\ s[i] # Null
  BY <1>1 DEF Listed
<1>3. ASSUME NEW i \in 1..Count
      PROVE  /\ i < Count => next[s[i]] = s[i + 1]
             /\ i > 1 => prev[s[i]] = s[i - 1]
  <2>1. /\ next[s[i]] = IF i = Count THEN Null ELSE s[i + 1]
        /\ prev[s[i]] = IF i = 1 THEN Null ELSE s[i - 1]
    BY DEF Listed, Walk
  <2> QED BY <2>1, <1>1
<1>7. /\ \A i, j \in 1..Count : s[i] = s[j] => i = j
      /\ \A a \in live : \E i \in 1..Count : s[i] = a
  BY DEF Listed, Walk
<1>4. /\ Count > 0 => next[s[Count]] = Null /\ tail = s[Count]
      /\ Count > 0 => prev[s[1]] = Null /\ head = s[1]
      /\ Count = 0 => head = Null /\ tail = Null
  BY <1>1 DEF Listed, Walk
<1>5. \A i \in 0..Count : c[i] \in 0..MaxSize
  BY DEF Listed
<1>6. /\ c[0] = 0 /\ c[Count] + free = MaxSize
      /\ \A i \in 1..Count : c[i] = c[i - 1] + NodeSize(s[i])
      /\ \A i, j \in 0..Count : i <= j => c[i] <= c[j]
  BY DEF Listed, PrefixSizes
<1> QED BY <1>1, <1>2, <1>3, <1>4, <1>5, <1>6, <1>7

(* What becomes of a sequence of length n when its i-th element moves to   *)
(* the front, when that element leaves, and when a comes before all.       *)
Forward(s, i, n) ==
  [j \in 1..n |-> IF j = 1 THEN s[i] ELSE IF j <= i THEN s[j - 1] ELSE s[j]]
Closed(s, i, n) == [j \in 1..(n - 1) |-> IF j < i THEN s[j] ELSE s[j + 1]]
Prepended(s, a, n) == [j \in 1..(n + 1) |-> IF j = 1 THEN a ELSE s[j - 1]]

(* MoveToHead puts the node found in front of the walk, and keeps the      *)
(* order of the others.                                                    *)
LEMMA MoveToHeadListed ==
  ASSUME TypeOK, NodesFilled, NEW s, NEW c, Listed(s, c),
         \A a \in live : index[key[a]] = a,
         NEW k \in Key, index[k] \in live, key[index[k]] = k,
         MoveToHead(k), UNCHANGED <<nodes, free>>
  PROVE  /\ \E s2, c2 :
              /\ Listed(s2, c2)'
              /\ \E i \in 1..Count : s[i] = index[k] /\ s2 = Forward(s, i, Count)
         /\ head' = index[k]
<1> DEFINE n == Count
           r == index[k]
<1>1. n \in Nat /\ n # 0 /\ live \in SUBSET Addr /\ Null \notin live
  BY CountType DEF TypeOK
<1>2. PICK i \in 1..n : s[i] = r
  BY DEF Listed, Walk
<1>3. live' = live /\ Count' = n /\ key' = key /\ value' = value /\ free' = free
  BY DEF nodes, Count
<1>s. \A j \in 1..n : s[j] \in live /\ s[j] \in Addr /\ s[j] # Null
  BY <1>1, ListedFacts
<1>i. \A j, l \in 1..n : s[j] = s[l] => j = l
  BY <1>1, ListedFacts
<1>n. (\A j \in 1..n : j < n => next[s[j]] = s[j + 1]) /\ next[s[n]] = Null
  BY <1>1, ListedFacts
<1>p. (\A j \in 1..n : j > 1 => prev[s[j]] = s[j - 1]) /\ prev[s[1]] = Null
  BY <1>1, ListedFacts
<1>c. /\ c[0] = 0 /\ c[n] + free = MaxSize
      /\ \A j \in 0..n : c[j] \in 0..MaxSize
      /\ \A j \in 1..n : c[j] = c[j - 1] + NodeSize(s[j])
      /\ \A j, l \in 0..n : j <= l => c[j] <= c[l]
  BY <1>1, ListedFacts
<1>4. head = s[1] /\ s[1] \in live /\ tail = s[n]
  BY <1>1, ListedFacts
<1>5. CASE key[head] = k
  <2>1. head = r /\ head' = head /\ tail' = tail /\ next' = next /\ prev' = prev
    BY <1>5, <1>4 DEF MoveToHead, list
  <2>2. Listed(s, c)'
    BY <2>1, <1>3, <1>1 DEF Listed, Walk, PrefixSizes, NodeSize
  <2>3. i = 1 /\ s = [j \in 1..n |-> s[j]]
    <3>1. 1 \in 1..n /\ s[1] = s[i]
      BY <2>1, <1>1, <1>2, <1>4
    <3>2. i = 1
      BY <3>1, <1>2, <1>i
    <3>3. s = [j \in 1..n |-> s[j]]
      BY DEF Listed
    <3> QED BY <3>2, <3>3
  <2>4. s = Forward(s, i, n)
    BY <2>3, <1>1 DEF Forward
  <2> QED BY <2>1, <2>2, <2>4, <1>2
<1>6. CASE key[head] # k
  <2> DEFINE p == s[i - 1]
             nn == IF i = n THEN Null ELSE s[i + 1]
  <2>0. PICK s2, c2 :
          /\ s2 = [j \in 1..n |-> IF j = 1 THEN s[i]
                                  ELSE IF j <= i THEN s[j - 1] ELSE s[j]]
          /\ c2 = [j \in 0..n |-> IF j = 0 THEN 0
                                  ELSE IF j <= i THEN c[j - 1] + NodeSize(r)
                                  ELSE c[j]]
    OBVIOUS
  <2>1. i \in 2..n /\ i - 1 \in 1..n
    BY <1>6, <1>2, <1>4, <1>1
  <2>2. prev[r] = p /\ next[r] = nn /\ p \in live /\ p # r /\ p # Null
    BY <2>1, <1>2, <1>1, <1>4, <1>s, <1>i, <1>n, <1>p
  <2>3. i # n => /\ nn = s[i + 1] /\ nn \in live /\ nn \in Addr /\ nn # Null
                 /\ nn # r /\ nn # p /\ nn # head /\ i + 1 \in 1..n
    BY <2>1, <1>2, <1>1, <1>4, <1>s, <1>i
  <2>4. p # head => prev[p] # Null
    BY <2>1, <1>2, <1>1, <1>4, <1>s, <1>i, <1>p
  <2>5. head # r /\ r \in Addr /\ head \in Addr /\ r # Null
    BY <1>6, <1>1, <1>4
  <2>6. /\ head' = r
        /\ tail' = IF i = n THEN p ELSE tail
        /\ next' = [next EXCEPT ![p] = nn, ![r] = head]
    BY <1>6, <2>2, <2>3, <1>1 DEF MoveToHead
  <2>7. /\ prev'[r] = Null /\ prev'[head] = r
        /\ i # n => prev'[nn] = p
        /\ \A a \in Addr \ {r, head, nn} : prev'[a] = prev[a]
    <3> DEFINE prev1 == IF nn # Null THEN [prev EXCEPT ![nn] = p] ELSE prev
               prev2 == [prev1 EXCEPT ![head] = r]
    <3>1. prev1 \in [Addr -> PtrOrNull] /\ prev2 \in [Addr -> PtrOrNull]
      BY <2>2, <2>3, <2>5, <1>1 DEF TypeOK, PtrOrNull
    <3>2. prev2[p] # Null
      BY <3>1, <2>2, <2>3, <2>4, <2>5, <1>1 DEF TypeOK
    <3>3. prev' = [prev2 EXCEPT ![r] = Null]
      BY <1>6, <2>2, <3>2 DEF MoveToHead
    <3>4. /\ prev2[head] = r
          /\ i # n => prev2[nn] = p
          /\ \A a \in Addr \ {head, nn} : prev2[a] = prev[a]
      <4>1. CASE i = n
        BY <4>1, <2>5, <1>1 DEF TypeOK
      <4>2. CASE i # n
        BY <4>2, <2>3, <2>5, <1>1 DEF TypeOK
      <4> QED BY <4>1, <4>2
    <3> HIDE DEF prev2
    <3> QED BY <3>1, <3>3, <3>4, <2>3, <2>5
  <2>8. s2 \in [1..n -> live] /\ s2[1] = r /\ s2[2] = head
    BY <2>0, <2>1, <1>1, <1>2, <1>4, <1>s
  <2>9. /\ \A j \in 2..i : s2[j] = s[j - 1]
        /\ \A j \in (i + 1)..n : s2[j] = s[j]
    BY <2>0, <2>1, <1>1
  <2>10. NodeSize(r) \in Nat /\ c[i] = c[i - 1] + NodeSize(r)
    BY <2>1, <1>1, <1>2, <1>s, <1>c, NodeSizeType
  <2>11. /\ c2[0] = 0
         /\ \A j \in 1..i : c2[j] = c[j - 1] + NodeSize(r)
         /\ \A j \in i..n : c2[j] = c[j]
    <3>1. c2[0] = 0 /\ c2[i] = c[i - 1] + NodeSize(r)
      BY <2>0, <2>1, <1>1
    <3>2. \A j \in 1..i : c2[j] = c[j - 1] + NodeSize(r)
      BY <2>0, <2>1, <1>1
    <3>3. \A j \in (i + 1)..n : c2[j] = c[j]
      BY <2>0, <2>1, <1>1
    <3> QED BY <3>1, <3>2, <3>3, <2>1, <2>10, <1>1
  <2>12. c2 \in [0..n -> 0..MaxSize]
    <3>1. \A j \in 0..n : j <= i - 1 => c[j] + NodeSize(r) \in 0..MaxSize
      BY <2>10, <2>1, <1>1, <1>2, <1>c
    <3>2. ASSUME NEW j \in 0..n PROVE c2[j] \in 0..MaxSize
      <4>1. CASE j = 0
        BY <4>1, <2>11, <1>1, <1>c
      <4>2. CASE j \in 1..i
        <5>1. j - 1 \in 0..n /\ j - 1 <= i - 1
          BY <4>2, <2>1, <1>1
        <5>2. c2[j] = c[j - 1] + NodeSize(r)
          BY <4>2, <2>11
        <5> QED BY <5>1, <5>2, <3>1
      <4>3. CASE j \in (i + 1)..n
        <5>1. c2[j] = c[j]
          BY <4>3, <2>1, <2>11, <1>1
        <5> QED BY <5>1, <1>c
      <4>4. j = 0 \/ j \in 1..i \/ j \in (i + 1)..n
        BY <2>1, <1>1
      <4> QED BY <4>1, <4>2, <4>3, <4>4
    <3>3. c2 = [j \in 0..n |-> c2[j]]
      BY <2>0
    <3> QED BY <3>2, <3>3
  <2>13. \A j, l \in 1..n : s2[j] = s2[l] => j = l
    <3> DEFINE q(j) == IF j = 1 THEN i ELSE IF j <= i THEN j - 1 ELSE j
    <3>1. \A j \in 1..n : q(j) \in 1..n /\ s2[j] = s[q(j)]
      BY <2>0, <2>1, <1>1
    <3>2. \A j, l \in 1..n : q(j) = q(l) => j = l
      BY <2>1, <1>1
    <3> HIDE DEF q
    <3> QED BY <3>1, <3>2, <1>i
  <2>14. ASSUME NEW a \in live PROVE \E j \in 1..n : s2[j] = a
    <3>1. PICK l \in 1..n : s[l] = a
      BY DEF Listed, Walk
    <3>2. CASE l = i
      BY <3>1, <3>2, <2>1, <2>8, <1>1, <1>2
    <3>3. CASE l < i
      <4>1. l + 1 \in 1..n /\ s2[l + 1] = a
        BY <3>1, <3>3, <2>1, <2>9, <1>1
      <4> QED BY <4>1
    <3>4. CASE l > i
      BY <3>1, <3>4, <2>1, <2>9, <1>1
    <3> QED BY <3>2, <3>3, <3>4, <1>1
  <2>15. ASSUME NEW j \in 1..n
         PROVE  next'[s2[j]] = IF j = n THEN Null ELSE s2[j + 1]
    <3>1. next'[r] = head /\ next'[p] = nn
      BY <2>6, <2>2, <2>5, <1>1 DEF TypeOK
    <3>2. \A a \in Addr \ {r, p} : next'[a] = next[a]
      BY <2>6 DEF TypeOK
    <3>3. CASE j = 1
      BY <3>1, <3>3, <2>8, <2>1, <1>1
    <3>4. CASE j = i
      BY <3>1, <3>4, <2>1, <2>9, <1>1
    <3>5. CASE j > 1 /\ j < i
      <4>1. s2[j] = s[j - 1] /\ s2[j + 1] = s[j] /\ j - 1 \in 1..n
        BY <3>5, <2>1, <2>9, <1>1
      <4>2. s[j - 1] \in Addr \ {r, p} /\ next[s[j - 1]] = s[j]
        BY <4>1, <3>5, <2>1, <1>1, <1>2, <1>s, <1>i, <1>n
      <4> QED BY <4>1, <4>2, <3>2, <3>5, <2>1, <1>1
    <3>6. CASE j > i
      <4>1. s2[j] = s[j] /\ (j # n => s2[j + 1] = s[j + 1])
        BY <3>6, <2>1, <2>9, <1>1
      <4>2. s[j] \in Addr \ {r, p}
        BY <3>6, <2>1, <1>1, <1>2, <1>s, <1>i
      <4>3. next[s[j]] = IF j = n THEN Null ELSE s[j + 1]
        BY <1>1, <1>n
      <4> QED BY <4>1, <4>2, <4>3, <3>2
    <3> QED BY <3>3, <3>4, <3>5, <3>6, <1>1
  <2>16. ASSUME NEW j \in 1..n
         PROVE  prev'[s2[j]] = IF j = 1 THEN Null ELSE s2[j - 1]
    <3>1. CASE j = 1
      BY <3>1, <2>7, <2>8
    <3>2. CASE j = 2
      BY <3>2, <2>7, <2>8
    <3>3. CASE j > 2 /\ j <= i
      <4>1. s2[j] = s[j - 1] /\ s2[j - 1] = s[j - 2] /\ j - 1 \in 1..n /\ j - 1 # 1
        BY <3>3, <2>1, <2>9, <1>1
      <4>2. s[j - 1] \in Addr \ {r, head, nn} /\ prev[s[j - 1]] = s[j - 2]
        BY <4>1, <3>3, <2>1, <1>1, <1>2, <1>4, <1>s, <1>i, <1>p
      <4> QED BY <4>1, <4>2, <2>7, <3>3
    <3>4. CASE j = i + 1 /\ j # 2
      <4>1. s2[j] = nn /\ s2[j - 1] = p /\ i # n
        BY <3>4, <2>1, <2>3, <2>9, <1>1
      <4> QED BY <4>1, <3>4, <2>1, <2>7
    <3>5. CASE j > i + 1
      <4>1. s2[j] = s[j] /\ s2[j - 1] = s[j - 1] /\ j - 1 \in 1..n
        BY <3>5, <2>1, <2>9, <1>1
      <4>2. s[j] \in Addr \ {r, head, nn} /\ prev[s[j]] = s[j - 1]
        BY <3>5, <2>1, <1>1, <1>2, <1>4, <1>s, <1>i, <1>p
      <4> QED BY <4>1, <4>2, <2>7, <3>5, <2>1
    <3> QED BY <3>1, <3>2, <3>3, <3>4, <3>5, <2>1, <1>1
  <2>17. Walk(s2)'
    <3>1. head' = IF Count' = 0 THEN Null ELSE s2[1]
      BY <2>6, <2>8, <1>3, <1>1
    <3>2. \A j \in 1..Count' :
            /\ next'[s2[j]] = IF j = Count' THEN Null ELSE s2[j + 1]
            /\ prev'[s2[j]] = IF j = 1 THEN Null ELSE s2[j - 1]
      BY <2>15, <2>16, <1>3
    <3>3. \A a \in live' : \E j \in 1..Count' : s2[j] = a
      BY <2>14, <1>3
    <3>4. \A j, l \in 1..Count' : s2[j] = s2[l] => j = l
      BY <2>13, <1>3
    <3> QED BY <3>1, <3>2, <3>3, <3>4 DEF Walk
  <2>18. tail' = s2[n]
    BY <2>6, <2>1, <2>9, <1>1, <1>2, <1>4
  <2>19. ASSUME NEW j \in 1..n PROVE c2[j] = c2[j - 1] + NodeSize(s2[j])
    <3>1. CASE j = 1
      BY <3>1, <2>1, <2>8, <2>10, <2>11, <1>1, <1>c
    <3>2. CASE j > 1 /\ j <= i
      <4>1. /\ c2[j] = c[j - 1] + NodeSize(r) /\ c2[j - 1] = c[j - 2] + NodeSize(r)
            /\ s2[j] = s[j - 1] /\ j - 1 \in 1..n /\ j - 2 \in 0..n
        BY <3>2, <2>1, <2>9, <2>11, <1>1
      <4>2. c[j - 1] = c[j - 2] + NodeSize(s[j - 1]) /\ c[j - 2] \in Nat
        BY <4>1, <1>c, <1>1
      <4>3. NodeSize(s[j - 1]) \in Nat
        BY <4>1, <1>s, NodeSizeType
      <4> QED BY <4>1, <4>2, <4>3, <2>10
    <3>3. CASE j > i
      BY <3>3, <2>1, <2>9, <2>11, <1>1, <1>c
    <3> QED BY <3>1, <3>2, <3>3, <2>1, <1>1
  <2>20. ASSUME NEW j \in 0..n, NEW l \in 0..n, j <= l PROVE c2[j] <= c2[l]
    <3>1. c2[j] \in Nat /\ c2[l] \in Nat /\ c[i] \in Nat
      <4>1. 0..MaxSize \subseteq Nat /\ i \in 0..n
        BY <2>1, <1>1
      <4> QED BY <4>1, <2>12, <1>c
    <3>2. CASE j = 0
      BY <3>1, <3>2, <2>11
    <3>3. CASE j > 0 /\ l <= i
      <4>1. c2[j] = c[j - 1] + NodeSize(r) /\ c2[l] = c[l - 1] + NodeSize(r)
        BY <3>3, <2>20, <2>1, <2>11, <1>1
      <4>2. c[j - 1] <= c[l - 1] /\ c[j - 1] \in Nat /\ c[l - 1] \in Nat
        BY <3>3, <2>20, <2>1, <1>1, <1>c
      <4> QED BY <4>1, <4>2, <2>10
    <3>4. CASE j > 0 /\ j <= i /\ l > i
      <4>1. c2[j] = c[j - 1] + NodeSize(r) /\ c[j - 1] <= c[i - 1]
            /\ c[j - 1] \in Nat /\ c[i - 1] \in Nat
        BY <3>4, <2>1, <2>11, <1>1, <1>c
      <4>2. c2[l] = c[l] /\ c[i] <= c[l]
        BY <3>4, <2>1, <2>11, <1>1, <1>c
      <4> QED BY <4>1, <4>2, <2>10, <3>1
    <3>5. CASE j > i
      BY <3>5, <2>20, <2>1, <2>11, <1>1, <1>c
    <3> QED BY <3>2, <3>3, <3>4, <3>5, <2>1, <1>1
  <2>21. PrefixSizes(s2, c2)'
    <3>1. \A j \in 1..n : NodeSize(s2[j])' = NodeSize(s2[j])
      BY <1>3 DEF NodeSize
    <3>2. c2[n] + free' = MaxSize
      BY <2>1, <2>11, <1>1, <1>3, <1>c
    <3> QED BY <3>1, <3>2, <2>11, <2>19, <2>20, <1>3 DEF PrefixSizes
  <2>22. Listed(s2, c2)'
    BY <2>8, <2>12, <2>17, <2>18, <2>21, <1>1, <1>3 DEF Listed
  <2>23. s2 = Forward(s, i, n)
    BY <2>0 DEF Forward
  <2> QED BY <2>6, <2>22, <2>23, <1>2
<1> QED BY <1>5, <1>6

(* Delete closes the gap its node leaves in the walk, and gives its space  *)
(* back without overflow.                                                  *)
LEMMA DeleteNodeListed ==
  ASSUME TypeOK, NodesFilled, NEW s, NEW c, Listed(s, c),
         NEW k \in Key, index[k] \in live, DeleteNode(k)
  PROVE  /\ \E s2, c2 :
              /\ Listed(s2, c2)'
              /\ \E i \in 1..Count : s[i] = index[k] /\ s2 = Closed(s, i, Count)
         /\ free' = free + NodeSize(index[k]) /\ free' \in 0..MaxSize
<1> DEFINE n == Count
           r == index[k]
<1>1. n \in Nat /\ n # 0 /\ live \in SUBSET Addr /\ Null \notin live
  BY CountType DEF TypeOK
<1>2. PICK i \in 1..n : s[i] = r
  BY DEF Listed, Walk
<1>s. \A j \in 1..n : s[j] \in live /\ s[j] \in Addr /\ s[j] # Null
  BY <1>1, ListedFacts
<1>i. \A j, l \in 1..n : s[j] = s[l] => j = l
  BY <1>1, ListedFacts
<1>n. (\A j \in 1..n : j < n => next[s[j]] = s[j + 1]) /\ next[s[n]] = Null
  BY <1>1, ListedFacts
<1>p. (\A j \in 1..n : j > 1 => prev[s[j]] = s[j - 1]) /\ prev[s[1]] = Null
  BY <1>1, ListedFacts
<1>c. /\ c[0] = 0 /\ c[n] + free = MaxSize
      /\ \A j \in 0..n : c[j] \in 0..MaxSize
      /\ \A j \in 1..n : c[j] = c[j - 1] + NodeSize(s[j])
      /\ \A j, l \in 0..n : j <= l => c[j] <= c[l]
  BY <1>1, ListedFacts
<1>4. head = s[1] /\ s[1] \in live /\ tail = s[n]
  BY <1>1, ListedFacts
<1>5. /\ live' = live \ {r}
      /\ key' = [key EXCEPT ![r] = Null] /\ value' = [value EXCEPT ![r] = Null]
  BY DEF DeleteNode
<1>6. Count' = n - 1 /\ n - 1 \in Nat
  <2>1. IsFiniteSet(live) /\ r \in live
    BY <1>1, CountType
  <2>2. Cardinality(live \ {r}) = Cardinality(live) - 1
    BY <2>1, FS_RemoveElement
  <2> QED BY <2>2, <1>1, <1>5 DEF Count
<1>7. NodeSize(r) \in Nat /\ c[i] = c[i - 1] + NodeSize(r) /\ c[i - 1] \in Nat
  BY <1>1, <1>2, <1>c, NodeSizeType
<1>8. \A j \in i..n : c[j] >= NodeSize(r) /\ c[j] \in 0..MaxSize
  BY <1>1, <1>2, <1>7, <1>c
<1>9. free' = free + NodeSize(r) /\ free' \in 0..MaxSize
  <2>1. free + NodeSize(r) \in 0..MaxSize
    BY <1>1, <1>2, <1>7, <1>8, <1>c DEF TypeOK
  <2> QED BY <2>1 DEF DeleteNode, SizeTPlus
<1> DEFINE p == IF i = 1 THEN Null ELSE s[i - 1]
           nn == IF i = n THEN Null ELSE s[i + 1]
<1>10. prev[r] = p /\ next[r] = nn
  <2>1. prev[r] = p
    BY <1>1, <1>2, <1>p
  <2>2. next[r] = nn
    BY <1>1, <1>2, <1>n
  <2> QED BY <2>1, <2>2
<1>11. /\ i # 1 => p = s[i - 1] /\ i - 1 \in 1..n /\ p # Null
       /\ i # n => nn = s[i + 1] /\ i + 1 \in 1..n /\ nn # Null
  BY <1>1, <1>2, <1>s
<1>12. /\ head' = IF i = 1 THEN nn ELSE head
       /\ tail' = IF i = n THEN p ELSE tail
  BY <1>10, <1>11 DEF DeleteNode
<1>13. /\ next' = [a \in Addr |-> IF a = r THEN Null
                                  ELSE IF a = p THEN nn ELSE next[a]]
       /\ prev' = [a \in Addr |-> IF a = r THEN Null
                                  ELSE IF a = nn THEN p ELSE prev[a]]
  BY <1>10 DEF DeleteNode
<1> HIDE DEF p, nn
<1>14. PICK s2, c2 :
         /\ s2 = [j \in 1..(n - 1) |-> IF j < i THEN s[j] ELSE s[j + 1]]
         /\ c2 = [j \in 0..(n - 1) |-> IF j < i THEN c[j]
                                       ELSE c[j + 1] - NodeSize(r)]
  OBVIOUS
<1>15. /\ \A j \in 1..(n - 1) : j < i => s2[j] = s[j]
       /\ \A j \in 1..(n - 1) : j >= i => s2[j] = s[j + 1] /\ j + 1 \in 1..n
  BY <1>14, <1>1, <1>2
<1>16. s2 \in [1..(n - 1) -> live']
  <2>1. \A j \in 1..n : j # i => s[j] \in live'
    BY <1>2, <1>5, <1>s, <1>i
  <2>2. ASSUME NEW j \in 1..(n - 1) PROVE s2[j] \in live'
    BY <2>1, <1>15, <1>1, <1>2
  <2> QED BY <2>2, <1>14
<1>17. \A j, l \in 1..(n - 1) : s2[j] = s2[l] => j = l
  <2> DEFINE q(j) == IF j < i THEN j ELSE j + 1
  <2>1. \A j \in 1..(n - 1) : q(j) \in 1..n /\ s2[j] = s[q(j)]
    BY <1>14, <1>1, <1>2
  <2>2. \A j, l \in 1..(n - 1) : q(j) = q(l) => j = l
    BY <1>1, <1>2
  <2> HIDE DEF q
  <2> QED BY <2>1, <2>2, <1>i
<1>18. ASSUME NEW a \in live' PROVE \E j \in 1..(n - 1) : s2[j] = a
  <2>1. PICK l \in 1..n : s[l] = a
    BY <1>5 DEF Listed, Walk
  <2>2. l # i
    BY <2>1, <1>2, <1>5
  <2>3. CASE l < i
    <3>1. l \in 1..(n - 1) /\ s2[l] = a
      BY <2>1, <2>3, <1>1, <1>2, <1>15
    <3> QED BY <3>1
  <2>4. CASE l > i
    <3>1. l - 1 \in 1..(n - 1) /\ s2[l - 1] = a
      BY <2>1, <2>4, <1>1, <1>2, <1>15
    <3> QED BY <3>1
  <2> QED BY <2>2, <2>3, <2>4, <1>1, <1>2
<1>19. ASSUME NEW j \in 1..(n - 1)
       PROVE  next'[s2[j]] = IF j = n - 1 THEN Null ELSE s2[j + 1]
  <2>1. CASE j = i - 1
    <3>1. s2[j] = p /\ p # r /\ p \in Addr /\ (j # n - 1 => s2[j + 1] = nn)
      BY <2>1, <1>1, <1>2, <1>11, <1>15, <1>s, <1>i
    <3>2. j = n - 1 => nn = Null
      BY <2>1, <1>1, <1>2 DEF nn
    <3> QED BY <3>1, <3>2, <1>13
  <2>2. CASE j < i - 1
    <3>1. s2[j] = s[j] /\ s2[j + 1] = s[j + 1] /\ j \in 1..n /\ j # n - 1 /\ j < n
      BY <2>2, <1>1, <1>2, <1>15
    <3>2. s[j] # r /\ s[j] # p /\ s[j] \in Addr
      BY <3>1, <2>2, <1>1, <1>2, <1>11, <1>s, <1>i
    <3> QED BY <3>1, <3>2, <1>13, <1>n
  <2>3. CASE j >= i
    <3>1. s2[j] = s[j + 1] /\ (j # n - 1 => s2[j + 1] = s[j + 2]) /\ j + 1 \in 1..n
      BY <2>3, <1>1, <1>2, <1>15
    <3>2. s[j + 1] # r /\ s[j + 1] # p /\ s[j + 1] \in Addr
      BY <3>1, <2>3, <1>1, <1>2, <1>11, <1>s, <1>i DEF p
    <3>3. next[s[j + 1]] = IF j = n - 1 THEN Null ELSE s[j + 2]
      BY <3>1, <1>1, <1>n
    <3> QED BY <3>1, <3>2, <3>3, <1>13
  <2> QED BY <2>1, <2>2, <2>3, <1>1, <1>2
<1>20. ASSUME NEW j \in 1..(n - 1)
       PROVE  prev'[s2[j]] = IF j = 1 THEN Null ELSE s2[j - 1]
  <2>1. CASE j = i
    <3>1. s2[j] = nn /\ nn # r /\ nn \in Addr /\ (j # 1 => s2[j - 1] = p)
      BY <2>1, <1>1, <1>2, <1>11, <1>15, <1>s, <1>i
    <3>2. j = 1 => p = Null
      BY <2>1 DEF p
    <3> QED BY <3>1, <3>2, <1>13
  <2>2. CASE j < i
    <3>1. s2[j] = s[j] /\ (j # 1 => s2[j - 1] = s[j - 1]) /\ j \in 1..n
      BY <2>2, <1>1, <1>2, <1>15
    <3>2. s[j] # r /\ s[j] # nn /\ s[j] \in Addr
      BY <3>1, <2>2, <1>1, <1>2, <1>11, <1>s, <1>i DEF nn
    <3>3. prev[s[j]] = IF j = 1 THEN Null ELSE s[j - 1]
      BY <3>1, <1>1, <1>p
    <3> QED BY <3>1, <3>2, <3>3, <1>13
  <2>3. CASE j > i
    <3>1. s2[j] = s[j + 1] /\ s2[j - 1] = s[j] /\ j + 1 \in 1..n /\ j # 1
      BY <2>3, <1>1, <1>2, <1>15
    <3>2. s[j + 1] # r /\ s[j + 1] # nn /\ s[j + 1] \in Addr
      BY <3>1, <2>3, <1>1, <1>2, <1>11, <1>s, <1>i DEF nn
    <3>3. prev[s[j + 1]] = s[j]
      BY <3>1, <2>3, <1>1, <1>2, <1>p
    <3> QED BY <3>1, <3>2, <3>3, <1>13
  <2> QED BY <2>1, <2>2, <2>3, <1>1, <1>2
<1>21. Walk(s2)'
  <2>1. head' = IF Count' = 0 THEN Null ELSE s2[1]
    BY <1>1, <1>2, <1>4, <1>6, <1>11, <1>12, <1>15 DEF nn
  <2>2. \A j \in 1..Count' :
          /\ next'[s2[j]] = IF j = Count' THEN Null ELSE s2[j + 1]
          /\ prev'[s2[j]] = IF j = 1 THEN Null ELSE s2[j - 1]
    BY <1>6, <1>19, <1>20
  <2>3. \A a \in live' : \E j \in 1..Count' : s2[j] = a
    BY <1>6, <1>18
  <2>4. \A j, l \in 1..Count' : s2[j] = s2[l] => j = l
    BY <1>6, <1>17
  <2> QED BY <2>1, <2>2, <2>3, <2>4 DEF Walk
<1>22. tail' = IF Count' = 0 THEN Null ELSE s2[Count']
  BY <1>1, <1>2, <1>4, <1>6, <1>11, <1>12, <1>15 DEF p
<1>23. c2 \in [0..(n - 1) -> 0..MaxSize]
  <2>1. ASSUME NEW j \in 0..(n - 1)
        PROVE  (IF j < i THEN c[j] ELSE c[j + 1] - NodeSize(r)) \in 0..MaxSize
    <3>1. CASE j < i
      BY <3>1, <1>1, <1>c
    <3>2. CASE j >= i
      <4>1. c[j + 1] >= NodeSize(r) /\ c[j + 1] \in 0..MaxSize
        BY <3>2, <1>1, <1>2, <1>8
      <4> QED BY <4>1, <3>2, <1>7, <1>2, <1>1
    <3> QED BY <3>1, <3>2, <1>1, <1>2
  <2> QED BY <2>1, <1>14
<1>24. /\ \A j \in 0..(n - 1) : j < i => c2[j] = c[j]
       /\ \A j \in 0..(n - 1) : j >= i - 1 => c2[j] = c[j + 1] - NodeSize(r)
  <2>1. /\ \A j \in 0..(n - 1) : j < i => c2[j] = c[j]
        /\ \A j \in 0..(n - 1) : j >= i => c2[j] = c[j + 1] - NodeSize(r)
    BY <1>14, <1>1, <1>2
  <2>2. c2[i - 1] = c[i] - NodeSize(r)
    BY <2>1, <1>1, <1>2, <1>7
  <2> QED BY <2>1, <2>2, <1>1, <1>2
<1>25. ASSUME NEW j \in 1..(n - 1) PROVE c2[j] = c2[j - 1] + NodeSize(s2[j])'
  <2>1. NodeSize(s2[j])' = NodeSize(s2[j])
    <3>1. s2[j] \in Addr /\ s2[j] # r
      BY <1>16, <1>5, <1>1
    <3> QED BY <3>1, <1>5 DEF NodeSize, TypeOK
  <2>2. CASE j < i
    BY <2>1, <2>2, <1>1, <1>2, <1>15, <1>24, <1>c
  <2>3. CASE j >= i
    <3>1. c2[j] = c[j + 1] - NodeSize(r) /\ c2[j - 1] = c[j] - NodeSize(r)
      BY <2>3, <1>1, <1>2, <1>24
    <3>2. c[j + 1] = c[j] + NodeSize(s2[j]) /\ c[j] \in Nat
      BY <2>3, <1>1, <1>2, <1>15, <1>c
    <3>3. NodeSize(s2[j]) \in Nat
      BY <1>16, <1>5, NodeSizeType
    <3> QED BY <2>1, <3>1, <3>2, <3>3, <1>7
  <2> QED BY <2>2, <2>3, <1>1, <1>2
<1>26. ASSUME NEW j \in 0..(n - 1), NEW l \in 0..(n - 1), j <= l
       PROVE  c2[j] <= c2[l]
  <2>1. CASE l < i
    BY <2>1, <1>26, <1>1, <1>2, <1>24, <1>c
  <2>2. CASE j < i /\ l >= i
    <3>1. c2[j] = c[j] /\ c[j] <= c[i - 1] /\ c[j] \in Nat
      BY <2>2, <1>1, <1>2, <1>24, <1>c
    <3>2. c2[l] = c[l + 1] - NodeSize(r) /\ c[i] <= c[l + 1] /\ c[l + 1] \in Nat
      BY <2>2, <1>1, <1>2, <1>24, <1>c
    <3> QED BY <3>1, <3>2, <1>7
  <2>3. CASE j >= i
    <3>1. c2[l] = c[l + 1] - NodeSize(r) /\ c2[j] = c[j + 1] - NodeSize(r)
      BY <2>3, <1>26, <1>1, <1>2, <1>24
    <3>2. c[j + 1] <= c[l + 1] /\ c[l + 1] \in Nat /\ c[j + 1] \in Nat
      BY <2>3, <1>26, <1>1, <1>2, <1>c
    <3> QED BY <3>1, <3>2, <1>7
  <2> QED BY <2>1, <2>2, <2>3, <1>1, <1>2
<1>27. PrefixSizes(s2, c2)'
  <2>1. c2[0] = 0 /\ c2[Count'] + free' = MaxSize
    <3>1. c2[0] = 0
      BY <1>1, <1>2, <1>24, <1>c
    <3>2. c2[n - 1] = c[n] - NodeSize(r) /\ c[n] \in Nat
      BY <1>1, <1>2, <1>24, <1>c
    <3> QED BY <3>1, <3>2, <1>1, <1>6, <1>7, <1>9, <1>c DEF TypeOK
  <2> QED BY <2>1, <1>6, <1>25, <1>26 DEF PrefixSizes
<1>28. Listed(s2, c2)'
  BY <1>6, <1>16, <1>21, <1>22, <1>23, <1>27 DEF Listed
<1>29. s2 = Closed(s, i, n)
  BY <1>14 DEF Closed
<1> QED BY <1>2, <1>9, <1>28, <1>29

(* PutInHead prepends the new node to the walk.                            *)
LEMMA InsertNodeListed ==
  ASSUME TypeOK, NodesFilled, CallInProgress, NEW s, NEW c, Listed(s, c),
         InsertNode
  PROVE  /\ \E s2, c2 : Listed(s2, c2)' /\ s2 = Prepended(s, head', Count)
         /\ free' \in 0..MaxSize
<1> DEFINE n == Count
<1>1. n \in Nat /\ live \in SUBSET Addr /\ Null \notin live /\ Null \notin Addr
  BY CountType DEF TypeOK
<1>2. PICK a \in Addr \ live :
        /\ live' = live \cup {a}
        /\ key' = [key EXCEPT ![a] = call.key]
        /\ value' = [value EXCEPT ![a] = call.value]
        /\ head' = a
        /\ tail' = IF head = Null THEN a ELSE tail
        /\ next' = [next EXCEPT ![a] = head]
        /\ prev' = [x \in Addr |-> IF x = a THEN Null
                                   ELSE IF x = head THEN a ELSE prev[x]]
  BY DEF InsertNode
<1>s. \A j \in 1..n : s[j] \in live /\ s[j] \in Addr /\ s[j] # Null
  BY <1>1, ListedFacts
<1>i. \A j, l \in 1..n : s[j] = s[l] => j = l
  BY <1>1, ListedFacts
<1>n. /\ \A j \in 1..n : j < n => next[s[j]] = s[j + 1]
      /\ n > 0 => next[s[n]] = Null /\ tail = s[n]
  BY <1>1, ListedFacts
<1>p. /\ \A j \in 1..n : j > 1 => prev[s[j]] = s[j - 1]
      /\ n > 0 => head = s[1]
      /\ n = 0 => head = Null
  BY <1>1, ListedFacts
<1>c. /\ c[0] = 0 /\ c[n] + free = MaxSize
      /\ \A j \in 0..n : c[j] \in 0..MaxSize
      /\ \A j \in 1..n : c[j] = c[j - 1] + NodeSize(s[j])
      /\ \A j, l \in 0..n : j <= l => c[j] <= c[l]
  BY <1>1, ListedFacts
<1>3. need \in Nat /\ need <= free /\ need = PairSize(call.key, call.value)
  <2>1. call.key \in Key /\ call.value \in Value /\ need = PairSize(call.key, call.value)
    BY DEF InsertNode, CallInProgress
  <2>2. need \in Nat
    BY <2>1 DEF PairSize
  <2>3. ~(free < need)
    BY <2>2 DEF InsertNode, NoRoom, AsSizeT
  <2> QED BY <2>1, <2>2, <2>3 DEF TypeOK
<1>4. free' = free - need /\ free' \in 0..MaxSize
  <2>1. free' = SizeTMinus(free, need)
    BY DEF InsertNode
  <2> QED BY <2>1, <1>3 DEF SizeTMinus, TypeOK
<1>5. Count' = n + 1
  <2>1. IsFiniteSet(live) /\ a \notin live
    BY <1>1, <1>2, CountType
  <2>2. Cardinality(live \cup {a}) = Cardinality(live) + 1
    BY <2>1, FS_AddElement
  <2> QED BY <2>2, <1>2 DEF Count
<1>6. NodeSize(a)' = need /\ \A x \in live : NodeSize(x)' = NodeSize(x)
  BY <1>1, <1>2, <1>3 DEF NodeSize, TypeOK
<1>7. PICK s2, c2 :
        /\ s2 = [j \in 1..(n + 1) |-> IF j = 1 THEN a ELSE s[j - 1]]
        /\ c2 = [j \in 0..(n + 1) |-> IF j = 0 THEN 0 ELSE c[j - 1] + need]
  OBVIOUS
<1>8. /\ s2[1] = a
      /\ \A j \in 2..(n + 1) : s2[j] = s[j - 1] /\ j - 1 \in 1..n
      /\ \A j \in 1..(n + 1) : s2[j] \in live'
      /\ s2 \in [1..(n + 1) -> live']
  <2>1. s2[1] = a
    BY <1>1, <1>7
  <2>2. \A j \in 2..(n + 1) : s2[j] = s[j - 1] /\ j - 1 \in 1..n
    BY <1>1, <1>7
  <2>3. \A j \in 1..(n + 1) : s2[j] \in live'
    BY <2>1, <2>2, <1>1, <1>2, <1>s
  <2> QED BY <2>1, <2>2, <2>3, <1>7
<1>9. \A j, l \in 1..(n + 1) : s2[j] = s2[l] => j = l
  <2> SUFFICES ASSUME NEW j \in 1..(n + 1), NEW l \in 1..(n + 1), s2[j] = s2[l]
               PROVE  j = l
    OBVIOUS
  <2>1. CASE j = 1 \/ l = 1
    <3>1. \A m \in 2..(n + 1) : s2[m] \in live
      BY <1>1, <1>8, <1>s
    <3> QED BY <2>1, <3>1, <1>1, <1>2, <1>8
  <2>2. CASE j # 1 /\ l # 1
    <3>1. j - 1 \in 1..n /\ l - 1 \in 1..n /\ s[j - 1] = s[l - 1]
      BY <2>2, <1>1, <1>8
    <3>2. j - 1 = l - 1
      BY <3>1, <1>i
    <3> QED BY <3>2, <1>1
  <2> QED BY <2>1, <2>2
<1>10. ASSUME NEW x \in live' PROVE \E j \in 1..(n + 1) : s2[j] = x
  <2>1. CASE x = a
    BY <2>1, <1>1, <1>8
  <2>2. CASE x \in live
    <3>1. PICK l \in 1..n : s[l] = x
      BY <2>2 DEF Listed, Walk
    <3>2. l + 1 \in 1..(n + 1) /\ s2[l + 1] = x
      BY <3>1, <1>1, <1>8
    <3> QED BY <3>2
  <2> QED BY <2>1, <2>2, <1>2
<1>11. ASSUME NEW j \in 1..(n + 1)
       PROVE  /\ next'[s2[j]] = IF j = n + 1 THEN Null ELSE s2[j + 1]
              /\ prev'[s2[j]] = IF j = 1 THEN Null ELSE s2[j - 1]
  <2>1. next'[a] = head /\ \A x \in live : next'[x] = next[x]
    BY <1>1, <1>2 DEF TypeOK
  <2>2. /\ prev'[a] = Null
        /\ n > 0 => prev'[s[1]] = a
        /\ \A x \in live : x # head => prev'[x] = prev[x]
    BY <1>1, <1>2, <1>s, <1>p
  <2>3. CASE j = 1
    <3>1. j = n + 1 => head = Null
      BY <2>3, <1>1, <1>p
    <3>2. j # n + 1 => s2[j + 1] = s[1] /\ head = s[1]
      BY <2>3, <1>1, <1>8, <1>p
    <3> QED BY <3>1, <3>2, <2>1, <2>2, <2>3, <1>8
  <2>4. CASE j = 2
    <3>1. s2[j] = s[1] /\ s2[j - 1] = a /\ s[1] \in live /\ n > 0
      BY <2>4, <1>1, <1>8, <1>s
    <3>2. next[s[1]] = IF j = n + 1 THEN Null ELSE s[2]
      BY <3>1, <2>4, <1>1, <1>n
    <3>3. j # n + 1 => s2[j + 1] = s[2]
      BY <2>4, <1>1, <1>8
    <3> QED BY <3>1, <3>2, <3>3, <2>1, <2>2, <2>4
  <2>5. CASE j > 2
    <3>1. s2[j] = s[j - 1] /\ s2[j - 1] = s[j - 2] /\ j - 1 \in 1..n /\ j - 1 # 1
      BY <2>5, <1>1, <1>8
    <3>2. j # n + 1 => s2[j + 1] = s[j]
      BY <2>5, <1>1, <1>8
    <3>3. s[j - 1] \in live /\ s[j - 1] # head
      BY <3>1, <1>1, <1>s, <1>i, <1>p
    <3>4. next[s[j - 1]] = IF j = n + 1 THEN Null ELSE s[j]
      BY <3>1, <1>1, <1>n
    <3>5. prev[s[j - 1]] = s[j - 2]
      BY <3>1, <1>1, <1>p
    <3> QED BY <3>1, <3>2, <3>3, <3>4, <3>5, <2>1, <2>2, <2>5
  <2> QED BY <2>3, <2>4, <2>5, <1>1
<1>12. Walk(s2)'
  <2>1. head' = IF Count' = 0 THEN Null ELSE s2[1]
    BY <1>1, <1>2, <1>5, <1>8
  <2> QED BY <2>1, <1>5, <1>9, <1>10, <1>11 DEF Walk
<1>13. tail' = IF Count' = 0 THEN Null ELSE s2[Count']
  <2>1. CASE n = 0
    BY <2>1, <1>2, <1>5, <1>8, <1>p
  <2>2. CASE n > 0
    <3>1. tail' = s[n] /\ s2[n + 1] = s[n]
      BY <2>2, <1>1, <1>2, <1>8, <1>n, <1>p, <1>s
    <3> QED BY <3>1, <1>1, <1>5
  <2> QED BY <2>1, <2>2, <1>1
<1>14. \A j \in 0..n : c[j] + need \in 0..MaxSize /\ c[j] \in Nat
  <2>1. \A j \in 0..n : c[j] <= c[n] /\ c[j] \in Nat
    BY <1>1, <1>c
  <2> QED BY <2>1, <1>1, <1>3, <1>c DEF TypeOK
<1>15. /\ c2[0] = 0
       /\ \A j \in 1..(n + 1) : c2[j] = c[j - 1] + need /\ j - 1 \in 0..n
       /\ c2 \in [0..(n + 1) -> 0..MaxSize]
  <2>1. c2[0] = 0
    BY <1>1, <1>7
  <2>2. \A j \in 1..(n + 1) : c2[j] = c[j - 1] + need /\ j - 1 \in 0..n
    BY <1>1, <1>7
  <2>3. ASSUME NEW j \in 0..(n + 1) PROVE c2[j] \in 0..MaxSize
    <3>1. CASE j = 0
      BY <2>1, <3>1
    <3>2. CASE j # 0
      BY <2>2, <3>2, <1>1, <1>14
    <3> QED BY <3>1, <3>2
  <2> QED BY <2>1, <2>2, <2>3, <1>7
<1>16. ASSUME NEW j \in 1..(n + 1) PROVE c2[j] = c2[j - 1] + NodeSize(s2[j])'
  <2>1. CASE j = 1
    BY <2>1, <1>1, <1>3, <1>6, <1>8, <1>15, <1>c
  <2>2. CASE j > 1
    <3>1. /\ c2[j] = c[j - 1] + need /\ c2[j - 1] = c[j - 2] + need
          /\ s2[j] = s[j - 1] /\ j - 1 \in 1..n /\ j - 2 \in 0..n
      BY <2>2, <1>1, <1>8, <1>15
    <3>2. NodeSize(s2[j])' = NodeSize(s[j - 1]) /\ NodeSize(s[j - 1]) \in Nat
      BY <3>1, <1>6, <1>s, NodeSizeType
    <3>3. c[j - 1] = c[j - 2] + NodeSize(s[j - 1]) /\ c[j - 2] \in Nat
      BY <3>1, <1>1, <1>14, <1>c
    <3> QED BY <3>1, <3>2, <3>3, <1>3
  <2> QED BY <2>1, <2>2, <1>1
<1>17. ASSUME NEW j \in 0..(n + 1), NEW l \in 0..(n + 1), j <= l
       PROVE  c2[j] <= c2[l]
  <2>1. CASE j = 0
    BY <2>1, <1>1, <1>15
  <2>2. CASE j > 0
    <3>1. c2[j] = c[j - 1] + need /\ c2[l] = c[l - 1] + need
      BY <2>2, <1>17, <1>1, <1>15
    <3>2. c[j - 1] <= c[l - 1] /\ c[j - 1] \in Nat /\ c[l - 1] \in Nat
      BY <2>2, <1>17, <1>1, <1>14, <1>c
    <3> QED BY <3>1, <3>2, <1>3
  <2> QED BY <2>1, <2>2, <1>1
<1>18. PrefixSizes(s2, c2)'
  <2>1. c2[Count'] + free' = MaxSize
    <3>1. c2[n + 1] = c[n] + need /\ c[n] \in Nat
      BY <1>1, <1>14, <1>15
    <3> QED BY <3>1, <1>3, <1>4, <1>5, <1>c DEF TypeOK
  <2> QED BY <2>1, <1>5, <1>15, <1>16, <1>17 DEF PrefixSizes
<1>19. Listed(s2, c2)'
  BY <1>5, <1>8, <1>12, <1>13, <1>15, <1>18 DEF Listed
<1>20. s2 = Prepended(s, head', n)
  BY <1>2, <1>7 DEF Prepended
<1> QED BY <1>4, <1>19, <1>20

(* An update changes the size of the first node of the walk only, by as    *)
(* much as it changes the free space.  A shrinking one never gets here.    *)
LEMMA UpdateNodeListed ==
  ASSUME TypeOK, NodesFilled, CallInProgress, NEW s, NEW c, Listed(s, c),
         UpdateNode
  PROVE  /\ \E c2 : Listed(s, c2)'
         /\ free' \in 0..MaxSize
         /\ need >= 0
<1> DEFINE n == Count
<1>1. n \in Nat /\ live \in SUBSET Addr /\ Null \notin live
  BY CountType DEF TypeOK
<1>2. need \in 0..MaxSize /\ need <= free
  <2>1. ~(free < AsSizeT(need))
    BY DEF UpdateNode, NoRoom
  <2> QED BY <2>1 DEF AsSizeT, TypeOK
<1>3. /\ it \in live /\ it = head
      /\ call.key \in Key /\ call.value \in Value /\ key[it] = call.key
      /\ need = PairSize(call.key, call.value) - NodeSize(it)
  BY <1>2 DEF UpdateNode, CallInProgress
<1>s. \A j \in 1..n : s[j] \in live
  BY <1>1, ListedFacts
<1>i. \A j, l \in 1..n : s[j] = s[l] => j = l
  BY <1>1, ListedFacts
<1>h. n > 0 /\ it = s[1]
  BY <1>1, <1>3, ListedFacts
<1>c. /\ c[0] = 0 /\ c[n] + free = MaxSize
      /\ \A j \in 0..n : c[j] \in 0..MaxSize
      /\ \A j \in 1..n : c[j] = c[j - 1] + NodeSize(s[j])
      /\ \A j, l \in 0..n : j <= l => c[j] <= c[l]
  BY <1>1, ListedFacts
<1>4. free' = free - need /\ free' \in 0..MaxSize
  <2>1. free' = SizeTMinus(free, AsSizeT(need))
    BY DEF UpdateNode
  <2> QED BY <2>1, <1>2 DEF AsSizeT, SizeTMinus, TypeOK
<1>5. /\ head' = head /\ tail' = tail /\ next' = next /\ prev' = prev
      /\ live' = live /\ key' = key /\ Count' = n
      /\ value' = [value EXCEPT ![it] = call.value]
  BY DEF UpdateNode, list, Count
<1>6. /\ NodeSize(s[1])' = NodeSize(s[1]) + need
      /\ \A x \in live : x # s[1] => NodeSize(x)' = NodeSize(x)
  <2>1. /\ value'[s[1]] = call.value
        /\ \A x \in live : x # s[1] => value'[x] = value[x]
    BY <1>1, <1>3, <1>5, <1>h DEF TypeOK
  <2>2. NodeSize(s[1])' = PairSize(call.key, call.value)
    BY <2>1, <1>3, <1>5, <1>h DEF NodeSize
  <2>3. NodeSize(s[1]) \in Nat /\ PairSize(call.key, call.value) \in Nat
    BY <1>3, <1>h, NodeSizeType DEF PairSize
  <2> QED BY <2>1, <2>2, <2>3, <1>3, <1>5, <1>h DEF NodeSize
<1>7. PICK c2 : c2 = [j \in 0..n |-> IF j = 0 THEN 0 ELSE c[j] + need]
  OBVIOUS
<1>8. \A j \in 0..n : c[j] \in Nat /\ c[j] <= c[n] /\ c[j] + need \in 0..MaxSize
  <2>1. \A j \in 0..n : c[j] \in Nat /\ c[j] <= c[n]
    BY <1>1, <1>c
  <2> QED BY <2>1, <1>1, <1>2, <1>c DEF TypeOK
<1>9. /\ c2[0] = 0
      /\ \A j \in 1..n : c2[j] = c[j] + need
      /\ c2 \in [0..n -> 0..MaxSize]
  <2>1. c2[0] = 0 /\ \A j \in 1..n : c2[j] = c[j] + need
    BY <1>1, <1>7
  <2>2. ASSUME NEW j \in 0..n PROVE c2[j] \in 0..MaxSize
    <3>1. CASE j = 0
      BY <2>1, <3>1
    <3>2. CASE j # 0
      BY <2>1, <3>2, <1>1, <1>8
    <3> QED BY <3>1, <3>2
  <2> QED BY <2>1, <2>2, <1>7
<1>10. ASSUME NEW j \in 1..n PROVE c2[j] = c2[j - 1] + NodeSize(s[j])'
  <2>1. c[j] = c[j - 1] + NodeSize(s[j]) /\ NodeSize(s[j]) \in Nat
    BY <1>c, <1>s, NodeSizeType
  <2>2. CASE j = 1
    BY <2>1, <2>2, <1>1, <1>2, <1>6, <1>9, <1>h, <1>c
  <2>3. CASE j > 1
    <3>1. c2[j] = c[j] + need /\ c2[j - 1] = c[j - 1] + need /\ c[j - 1] \in Nat
      BY <2>3, <1>1, <1>8, <1>9
    <3>2. NodeSize(s[j])' = NodeSize(s[j])
      BY <2>3, <1>1, <1>6, <1>h, <1>s, <1>i
    <3> QED BY <2>1, <3>1, <3>2, <1>2
  <2> QED BY <2>2, <2>3, <1>1
<1>11. ASSUME NEW j \in 0..n, NEW l \in 0..n, j <= l PROVE c2[j] <= c2[l]
  <2>1. CASE j = 0
    <3>1. c2[l] \in 0..MaxSize
      BY <1>9
    <3> QED BY <2>1, <3>1, <1>9
  <2>2. CASE j > 0
    <3>1. c2[j] = c[j] + need /\ c2[l] = c[l] + need
      BY <2>2, <1>11, <1>1, <1>9
    <3>2. c[j] <= c[l] /\ c[j] \in Nat /\ c[l] \in Nat
      BY <1>11, <1>8, <1>c
    <3> QED BY <3>1, <3>2, <1>2
  <2> QED BY <2>1, <2>2, <1>1
<1>12. PrefixSizes(s, c2)'
  <2>1. c2[n] + free' = MaxSize
    <3>1. c2[n] = c[n] + need /\ c[n] \in Nat
      BY <1>1, <1>8, <1>9, <1>h
    <3> QED BY <3>1, <1>2, <1>4, <1>c DEF TypeOK
  <2> QED BY <2>1, <1>5, <1>9, <1>10, <1>11 DEF PrefixSizes
<1>13. s \in [1..n -> live] /\ Walk(s) /\ tail = IF n = 0 THEN Null ELSE s[n]
  BY DEF Listed
<1>14. Walk(s)'
  BY <1>5, <1>13 DEF Walk
<1>15. Listed(s, c2)'
  BY <1>5, <1>9, <1>12, <1>13, <1>14 DEF Listed
<1> QED BY <1>2, <1>4, <1>15

-----------------------------------------------------------------------------
(* The destructor takes nodes off the end of the walk.                     *)
LEMMA DestroyStepChain ==
  ASSUME IInv, DestroyStep
  PROVE  ChainAndSpace' /\ live' \subseteq live
<1> DEFINE n == Count
<1>1. PICK s \in [1..n -> live] : Walk(s) /\ TailAt(s)
  BY DEF IInv, ChainAndSpace
<1>2. /\ n \in Nat /\ live \in SUBSET Addr /\ Null \notin live
      /\ next \in [Addr -> PtrOrNull] /\ prev \in [Addr -> PtrOrNull]
      /\ n = 0 <=> live = {}
  BY CountType DEF IInv, TypeOK
<1>3. pc = "destroy" /\ pc' = "destroy" /\ tail # Null /\ head' = head
  BY DEF DestroyStep
<1>4. /\ next' = [next EXCEPT ![tail] = Null]
      /\ tail' = prev[tail]
  BY DEF DestroyStep
<1>5. n > 0 /\ (tail = s[n] \/ (n > 1 /\ tail = s[n - 1]))
  BY <1>1, <1>2, <1>3 DEF TailAt
<1>6. /\ \A j \in 1..n : s[j] \in live /\ s[j] # Null /\ s[j] \in Addr
      /\ \A j \in 1..n : next[s[j]] = IF j = n THEN Null ELSE s[j + 1]
      /\ \A j \in 1..n : prev[s[j]] = IF j = 1 THEN Null ELSE s[j - 1]
      /\ \A j, l \in 1..n : s[j] = s[l] => j = l
      /\ head = s[1]
  BY <1>1, <1>2, <1>5 DEF Walk
<1>7. CASE tail = s[n]
  <2>1. next[tail] = Null
    BY <1>2, <1>5, <1>6, <1>7
  <2>2. prev' = prev /\ live' = live /\ next' = next /\ Count' = n
    BY <2>1, <1>2, <1>4, <1>5, <1>6, <1>7 DEF DestroyStep, Count
  <2>3. Walk(s)'
    BY <2>2, <1>1, <1>3 DEF Walk
  <2>4. TailAt(s)'
    BY <2>2, <1>2, <1>3, <1>4, <1>5, <1>6, <1>7 DEF TailAt
  <2> QED BY <2>2, <2>3, <2>4, <1>3 DEF ChainAndSpace
<1>8. CASE tail # s[n]
  <2>1. n > 1 /\ tail = s[n - 1] /\ n - 1 \in 1..n
    BY <1>2, <1>5, <1>8
  <2>2. next[tail] = s[n] /\ s[n] # Null
    BY <2>1, <1>2, <1>6
  <2>3. live' = live \ {s[n]} /\ prev' = [prev EXCEPT ![s[n]] = Null]
    BY <2>2 DEF DestroyStep, FreeNode
  <2>4. Count' = n - 1
    <3>1. IsFiniteSet(live) /\ s[n] \in live
      BY <1>2, <1>5, <1>6, CountType
    <3>2. Cardinality(live \ {s[n]}) = Cardinality(live) - 1
      BY <3>1, FS_RemoveElement
    <3> QED BY <3>2, <2>3 DEF Count
  <2>5. PICK s2 : s2 = [j \in 1..(n - 1) |-> s[j]]
    OBVIOUS
  <2>6. /\ \A j \in 1..(n - 1) : s2[j] = s[j] /\ s[j] \in live' /\ s[j] # s[n]
                                 /\ j \in 1..n
        /\ s2 \in [1..(n - 1) -> live']
    <3>1. ASSUME NEW j \in 1..(n - 1)
          PROVE  s2[j] = s[j] /\ s[j] \in live' /\ s[j] # s[n] /\ j \in 1..n
      BY <2>1, <2>3, <2>5, <1>2, <1>6
    <3> QED BY <3>1, <2>5
  <2>7. ASSUME NEW a \in live' PROVE \E j \in 1..(n - 1) : s2[j] = a
    <3>1. PICK j \in 1..n : s[j] = a
      BY <2>3, <1>1 DEF Walk
    <3>2. j # n
      BY <3>1, <2>3
    <3> QED BY <3>1, <3>2, <2>6, <1>2
  <2>8. ASSUME NEW j \in 1..(n - 1)
        PROVE  /\ next'[s2[j]] = IF j = n - 1 THEN Null ELSE s2[j + 1]
               /\ prev'[s2[j]] = IF j = 1 THEN Null ELSE s2[j - 1]
    <3>1. s2[j] = s[j] /\ s[j] \in Addr /\ s[j] # s[n] /\ j \in 1..n
      BY <2>6, <1>6
    <3>2. prev'[s[j]] = prev[s[j]]
      BY <3>1, <2>3, <1>2
    <3>3. prev'[s2[j]] = IF j = 1 THEN Null ELSE s2[j - 1]
      BY <3>1, <3>2, <2>6, <1>2, <1>6
    <3>4. CASE j = n - 1
      BY <3>1, <3>3, <3>4, <2>1, <1>2, <1>4
    <3>5. CASE j # n - 1
      <4>1. s[j] # tail
        BY <3>1, <3>5, <2>1, <1>6
      <4>2. next'[s[j]] = s[j + 1] /\ s2[j + 1] = s[j + 1]
        BY <4>1, <3>1, <3>5, <2>6, <1>2, <1>4, <1>6
      <4> QED BY <4>2, <3>1, <3>3, <3>5
    <3> QED BY <3>4, <3>5
  <2>9. Walk(s2)'
    <3>1. head' = IF Count' = 0 THEN Null ELSE s2[1]
      BY <2>1, <2>4, <2>6, <1>2, <1>3, <1>6
    <3>2. \A j, l \in 1..(n - 1) : s2[j] = s2[l] => j = l
      BY <2>6, <1>6
    <3> QED BY <3>1, <3>2, <2>4, <2>7, <2>8 DEF Walk
  <2>10. TailAt(s2)'
    <3>1. tail' = IF n - 1 <= 1 THEN Null ELSE s2[n - 2]
      BY <2>1, <2>6, <1>2, <1>4, <1>6
    <3>2. (n - 1) - 1 = n - 2
      BY <1>2
    <3> QED BY <3>1, <3>2, <2>4, <1>3 DEF TailAt
  <2> QED BY <2>3, <2>4, <2>6, <2>9, <2>10, <1>3 DEF ChainAndSpace
<1> QED BY <1>7, <1>8

(* When the destructor's walk has passed the head, the last node is freed. *)
LEMMA DestroyFinishChain ==
  ASSUME IInv, DestroyFinish
  PROVE  ChainAndSpace' /\ live' = {}
<1> DEFINE n == Count
<1>1. PICK s \in [1..n -> live] : Walk(s) /\ TailAt(s)
  BY DEF IInv, ChainAndSpace
<1>2. n \in Nat /\ live \in SUBSET Addr /\ Null \notin live /\ (n = 0 <=> live = {})
  BY CountType DEF IInv, TypeOK
<1>3. pc = "destroy" /\ pc' = "destroyed" /\ tail = Null /\ head' = Null /\ tail' = tail
  BY DEF DestroyFinish
<1>4. n <= 1
  <2>1. \A j \in 1..n : s[j] # Null
    BY <1>1, <1>2
  <2>2. n > 1 => n \in 1..n /\ n - 1 \in 1..n
    BY <1>2
  <2> QED BY <2>1, <2>2, <1>1, <1>2, <1>3 DEF TailAt
<1>5. live' = {}
  <2>1. CASE n = 0
    BY <2>1, <1>1, <1>2 DEF DestroyFinish, Walk
  <2>2. CASE n = 1
    <3>1. head = s[1] /\ head # Null /\ \A a \in live : a = head
      BY <2>2, <1>1, <1>2 DEF Walk
    <3>2. live' = live \ {head}
      BY <3>1 DEF DestroyFinish, FreeNode
    <3> QED BY <3>1, <3>2
  <2> QED BY <2>1, <2>2, <1>2, <1>4
<1>6. Count' = 0
  BY <1>5, FS_EmptySet DEF Count
<1>7. PICK s2 : s2 = [j \in 1..0 |-> Null]
  OBVIOUS
<1>8. s2 \in [1..0 -> {}]
  BY <1>7
<1>9. Walk(s2)' /\ TailAt(s2)'
  BY <1>3, <1>5, <1>6 DEF Walk, TailAt
<1> QED BY <1>3, <1>5, <1>6, <1>8, <1>9 DEF ChainAndSpace

-----------------------------------------------------------------------------
(* The constructor establishes the invariant.                              *)
LEMMA InitIInv == Init => IInv
<1> SUFFICES ASSUME Init PROVE IInv
  OBVIOUS
<1>1. TypeOK
  BY DEF Init, TypeOK, Op, Pc, PtrOrNull
<1>2. Count = 0
  BY FS_EmptySet DEF Init, Count
<1>3. ChainAndSpace
  <2>1. PICK s, c : s = [j \in 1..0 |-> Null] /\ c = [j \in 0..0 |-> 0]
    OBVIOUS
  <2>2. s \in [1..0 -> {}] /\ c \in [0..0 -> 0..MaxSize] /\ c[0] = 0
    BY <2>1
  <2>3. Walk(s) /\ TailAt(s)
    BY <1>2 DEF Init, Walk, TailAt
  <2>4. PrefixSizes(s, c)
    BY <2>2, <1>2 DEF Init, PrefixSizes
  <2> QED BY <2>2, <2>3, <2>4, <1>2 DEF Init, ChainAndSpace
<1>4. NodesFilled /\ IndexMatchesList /\ CallInProgress
  BY DEF Init, NodesFilled, IndexMatchesList, CallInProgress
<1> QED BY <1>1, <1>3, <1>4 DEF IInv

(* A step that leaves the store alone only has the call to account for.    *)
LEMMA StoreUnchanged ==
  ASSUME IInv, UNCHANGED store,
         pc \notin {"destroy", "destroyed"}, pc' \notin {"destroy", "destroyed"}
  PROVE  ChainAndSpace' /\ NodesFilled' /\ IndexMatchesList'
<1>1. /\ head' = head /\ tail' = tail /\ next' = next /\ prev' = prev
      /\ key' = key /\ value' = value /\ live' = live /\ index' = index
      /\ free' = free
  BY DEF store, list, nodes
<1>2. PICK s, c : Listed(s, c)
  BY ListedExists
<1>3. Listed(s, c)'
  BY <1>1, <1>2 DEF Listed, Walk, PrefixSizes, NodeSize, Count
<1>4. ChainAndSpace'
  BY <1>3, ListedSuffices
<1>5. NodesFilled' /\ IndexMatchesList'
  BY <1>1 DEF IInv, NodesFilled, IndexMatchesList
<1> QED BY <1>4, <1>5

(* A key in the index has its node; a call with arguments is well typed.   *)
LEMMA IndexedNode ==
  ASSUME IInv, pc \notin {"destroy", "destroyed"},
         NEW k \in Key, index[k] # Null
  PROVE  /\ index[k] \in live /\ index[k] \in Addr /\ key[index[k]] = k
         /\ \A a \in live : index[key[a]] = a
BY DEF IInv, IndexMatchesList, TypeOK

(* MoveToHead keeps the pointers typed.                                    *)
LEMMA MoveToHeadType ==
  ASSUME IInv, pc = "idle", NEW k \in Key, index[k] # Null, MoveToHead(k),
         UNCHANGED <<nodes, free>>, pc' \notin {"destroy", "destroyed"}
  PROVE  /\ head' = index[k]
         /\ head' \in PtrOrNull /\ tail' \in PtrOrNull
         /\ next' \in [Addr -> PtrOrNull] /\ prev' \in [Addr -> PtrOrNull]
         /\ ChainAndSpace' /\ NodesFilled' /\ IndexMatchesList'
<1>1. PICK s, c : Listed(s, c)
  BY ListedExists
<1>2. /\ index[k] \in live /\ key[index[k]] = k /\ index[k] \in Addr
      /\ \A a \in live : index[key[a]] = a
  BY IndexedNode
<1>3. TypeOK /\ NodesFilled
  BY DEF IInv
<1>4. PICK s2, c2 : Listed(s2, c2)'
  BY <1>1, <1>2, <1>3, MoveToHeadListed
<1>5. head' = index[k]
  BY <1>1, <1>2, <1>3, MoveToHeadListed
<1>6. ChainAndSpace'
  BY <1>4, ListedSuffices
<1>7. NodesFilled' /\ IndexMatchesList'
  BY <1>2 DEF IInv, NodesFilled, IndexMatchesList, nodes
<1>8. /\ head \in PtrOrNull /\ tail \in PtrOrNull
      /\ next \in [Addr -> PtrOrNull] /\ prev \in [Addr -> PtrOrNull]
  BY <1>3 DEF TypeOK
<1>9. /\ head' \in PtrOrNull /\ tail' \in PtrOrNull
      /\ next' \in [Addr -> PtrOrNull] /\ prev' \in [Addr -> PtrOrNull]
  <2>1. next[index[k]] \in PtrOrNull /\ prev[index[k]] \in PtrOrNull
        /\ index[k] \in PtrOrNull
    BY <1>2, <1>8 DEF PtrOrNull
  <2>2. CASE key[head] = k
    BY <2>2, <1>8 DEF MoveToHead, list
  <2>3. CASE key[head] # k
    <3> DEFINE r == index[k]
               p == prev[r]
               n == next[r]
               prev1 == IF n # Null THEN [prev EXCEPT ![n] = p] ELSE prev
               prev2 == [prev1 EXCEPT ![head] = r]
               prev3 == IF prev2[p] = Null THEN [prev2 EXCEPT ![p] = r] ELSE prev2
    <3>1. prev1 \in [Addr -> PtrOrNull]
      BY <2>1, <1>8
    <3>2. prev2 \in [Addr -> PtrOrNull]
      BY <3>1, <2>1
    <3>3. prev3 \in [Addr -> PtrOrNull]
      BY <3>2, <2>1
    <3>4. prev' = [prev3 EXCEPT ![r] = Null]
      BY <2>3 DEF MoveToHead
    <3>5. prev' \in [Addr -> PtrOrNull]
      BY <3>3, <3>4 DEF PtrOrNull
    <3>6. head' = r /\ tail' = (IF n # Null THEN tail ELSE p)
          /\ next' = [next EXCEPT ![p] = n, ![r] = head]
      BY <2>3 DEF MoveToHead
    <3> QED BY <3>5, <3>6, <2>1, <1>8
  <2> QED BY <2>2, <2>3
<1> QED BY <1>5, <1>6, <1>7, <1>9

(* Delete keeps the pointers typed and the index exact.                    *)
LEMMA DeleteNodeType ==
  ASSUME IInv, pc \notin {"destroy", "destroyed"},
         NEW k \in Key, index[k] # Null, DeleteNode(k),
         pc' \notin {"destroy", "destroyed"}
  PROVE  /\ head' \in PtrOrNull /\ tail' \in PtrOrNull
         /\ next' \in [Addr -> PtrOrNull] /\ prev' \in [Addr -> PtrOrNull]
         /\ key' \in [Addr -> Key \cup {Null}]
         /\ value' \in [Addr -> Value \cup {Null}]
         /\ live' \in SUBSET Addr
         /\ index' \in [Key -> PtrOrNull]
         /\ free' \in 0..MaxSize
         /\ ChainAndSpace' /\ NodesFilled' /\ IndexMatchesList'
<1>1. PICK s, c : Listed(s, c)
  BY ListedExists
<1>2. /\ index[k] \in live /\ key[index[k]] = k /\ index[k] \in Addr
      /\ \A a \in live : index[key[a]] = a
  BY IndexedNode
<1>3. TypeOK /\ NodesFilled
  BY DEF IInv
<1>4. free' \in 0..MaxSize /\ \E s2, c2 : Listed(s2, c2)'
  BY <1>1, <1>2, <1>3, DeleteNodeListed
<1>5. ChainAndSpace'
  BY <1>4, ListedSuffices
<1>6. /\ index' = [index EXCEPT ![k] = Null]
      /\ live' = live \ {index[k]}
      /\ key' = [key EXCEPT ![index[k]] = Null]
      /\ value' = [value EXCEPT ![index[k]] = Null]
  BY DEF DeleteNode
<1>7. /\ key' \in [Addr -> Key \cup {Null}] /\ value' \in [Addr -> Value \cup {Null}]
      /\ live' \in SUBSET Addr /\ index' \in [Key -> PtrOrNull]
  BY <1>3, <1>6 DEF TypeOK, PtrOrNull
<1>8. /\ head' \in PtrOrNull /\ tail' \in PtrOrNull
      /\ next' \in [Addr -> PtrOrNull] /\ prev' \in [Addr -> PtrOrNull]
  <2>1. next[index[k]] \in PtrOrNull /\ prev[index[k]] \in PtrOrNull
    BY <1>2, <1>3 DEF TypeOK
  <2> QED BY <2>1, <1>3 DEF TypeOK, DeleteNode, PtrOrNull
<1>9. \A a \in live' : a # index[k] /\ a \in live /\ key'[a] = key[a]
                       /\ value'[a] = value[a]
  BY <1>3, <1>6 DEF TypeOK
<1>10. NodesFilled'
  BY <1>3, <1>9 DEF NodesFilled
<1>11. IndexMatchesList'
  <2>1. ASSUME NEW a \in live' PROVE index'[key'[a]] = a
    <3>1. key[a] \in Key /\ key[a] # k /\ index[key[a]] = a
      BY <1>2, <1>3, <1>9 DEF NodesFilled
    <3> QED BY <3>1, <1>3, <1>6, <1>9 DEF TypeOK
  <2>2. ASSUME NEW l \in Key, index'[l] # Null
        PROVE  index'[l] \in live' /\ key'[index'[l]] = l
    <3>1. l # k /\ index'[l] = index[l]
      BY <2>2, <1>3, <1>6 DEF TypeOK
    <3>2. index[l] \in live /\ key[index[l]] = l
      BY <3>1, <2>2, IndexedNode
    <3>3. index[l] # index[k]
      BY <3>1, <3>2, <1>2
    <3> QED BY <3>1, <3>2, <3>3, <1>6, <1>9
  <2> QED BY <2>1, <2>2 DEF IndexMatchesList
<1> QED BY <1>4, <1>5, <1>7, <1>8, <1>10, <1>11

-----------------------------------------------------------------------------
(* The part of the type invariant that a call's bookkeeping touches.       *)
CallTyped ==
  /\ pc \in Pc
  /\ call \in [op : Op, key : Key \cup {Null}, value : Value \cup {Null}]
  /\ it \in PtrOrNull
  /\ need \in (-MaxSize)..MaxSize
  /\ ok \in BOOLEAN /\ out \in Value \cup {Null}

(* A call that returns at once has nothing more to account for.            *)
LEMMA ReturnCall ==
  ASSUME NEW b \in BOOLEAN, NEW x \in Value \cup {Null}, Return(b, x),
         call' \in [op : Op, key : Key \cup {Null}, value : Value \cup {Null}]
  PROVE  CallTyped' /\ CallInProgress' /\ pc' = "idle"
BY DEF Return, CallTyped, CallInProgress, Pc, PtrOrNull

(* Put and PutIfAbsent of a new key.                                       *)
LEMMA PutInHeadIInv ==
  ASSUME IInv, pc = "idle", NEW k \in Key, NEW v \in Value, NEW o \in Op,
         index[k] = Null, Called(o, k, v), PutInHead(k, v)
  PROVE  IInv'
<1>1. call' = [op |-> o, key |-> k, value |-> v] /\ UNCHANGED store
  BY DEF Called, PutInHead
<1>2. call' \in [op : Op, key : Key \cup {Null}, value : Value \cup {Null}]
  BY <1>1
<1>3. CallTyped' /\ CallInProgress' /\ pc' \notin {"destroy", "destroyed"}
  <2>1. CASE TooLarge(k, v)
    BY <2>1, <1>2, ReturnCall DEF PutInHead
  <2>2. CASE ~TooLarge(k, v)
    <3>1. /\ pc' = "insert" /\ it' = Null /\ need' = PairSize(k, v)
          /\ ok' = ok /\ out' = out
      BY <2>2 DEF PutInHead
    <3>2. PairSize(k, v) \in 0..MaxSize
      BY <2>2 DEF TooLarge, PairSize
    <3>3. index' = index
      BY <1>1 DEF store, nodes
    <3>4. CallTyped'
      BY <3>1, <3>2, <1>2 DEF IInv, TypeOK, CallTyped, Pc, PtrOrNull
    <3>5. CallInProgress'
      BY <3>1, <3>3, <2>2, <1>1 DEF CallInProgress, TooLarge, PairSize
    <3> QED BY <3>1, <3>4, <3>5
  <2> QED BY <2>1, <2>2
<1>4. TypeOK'
  BY <1>1, <1>3 DEF IInv, TypeOK, CallTyped, store, list, nodes
<1> QED BY <1>1, <1>3, <1>4, StoreUnchanged DEF IInv

(* A call that returns at once and touches nothing.                        *)
LEMMA ReturnIInv ==
  ASSUME IInv, pc \notin {"destroy", "destroyed"}, UNCHANGED store,
         NEW b \in BOOLEAN, NEW x \in Value \cup {Null}, Return(b, x),
         call' \in [op : Op, key : Key \cup {Null}, value : Value \cup {Null}]
  PROVE  IInv'
<1>1. CallTyped' /\ CallInProgress' /\ pc' = "idle"
  BY ReturnCall
<1>2. TypeOK'
  BY <1>1 DEF IInv, TypeOK, CallTyped, store, list, nodes
<1> QED BY <1>1, <1>2, StoreUnchanged DEF IInv

(* Put and Set of a stored key, up to the eviction loop.                   *)
LEMMA UpdateStoredIInv ==
  ASSUME IInv, pc = "idle", NEW k \in Key, NEW v \in Value, NEW o \in Op,
         index[k] # Null, Called(o, k, v), UpdateStored(k, v)
  PROVE  IInv'
<1>1. /\ call' = [op |-> o, key |-> k, value |-> v]
      /\ MoveToHead(k) /\ UNCHANGED <<nodes, free>>
  BY DEF Called, UpdateStored
<1>2. call' \in [op : Op, key : Key \cup {Null}, value : Value \cup {Null}]
  BY <1>1
<1>3. /\ index[k] \in live /\ key[index[k]] = k /\ index[k] \in Addr
  BY IndexedNode
<1>4. pc' \notin {"destroy", "destroyed"}
  BY DEF UpdateStored, Return
<1>5. /\ head' = index[k]
      /\ head' \in PtrOrNull /\ tail' \in PtrOrNull
      /\ next' \in [Addr -> PtrOrNull] /\ prev' \in [Addr -> PtrOrNull]
      /\ ChainAndSpace' /\ NodesFilled' /\ IndexMatchesList'
  BY <1>1, <1>4, MoveToHeadType
<1>6. CallTyped' /\ CallInProgress'
  <2>1. CASE TooLarge(k, v)
    BY <2>1, <1>2, ReturnCall DEF UpdateStored
  <2>2. CASE ~TooLarge(k, v)
    <3>1. /\ pc' = "update" /\ it' = index[k]
          /\ need' = PairSize(k, v) - NodeSize(index[k])
          /\ ok' = ok /\ out' = out
      BY <2>2 DEF UpdateStored
    <3>2. PairSize(k, v) \in 0..MaxSize
      BY <2>2 DEF TooLarge, PairSize
    <3>3. NodeSize(index[k]) \in 0..MaxSize
      <4>1. PICK s, c : Listed(s, c)
        BY ListedExists
      <4>2. PICK i \in 1..Count : s[i] = index[k]
        BY <4>1, <1>3 DEF Listed, Walk
      <4>3. live \in SUBSET Addr /\ NodesFilled
        BY DEF IInv, TypeOK
      <4>4. Count \in Nat /\ c[i] = c[i - 1] + NodeSize(s[i])
            /\ NodeSize(s[i]) \in Nat /\ c[i] \in 0..MaxSize /\ c[i - 1] \in 0..MaxSize
        <5>1. Count \in Nat
          BY <4>3, CountType
        <5>2. i \in 0..Count /\ i - 1 \in 0..Count
          BY <5>1
        <5>3. c[i] = c[i - 1] + NodeSize(s[i])
          BY <4>1, <4>3, ListedFacts
        <5>4. c[i] \in 0..MaxSize /\ c[i - 1] \in 0..MaxSize
          BY <5>2, <4>1, <4>3, ListedFacts
        <5> QED BY <5>1, <5>3, <5>4, <4>2, <4>3, <1>3, NodeSizeType
      <4> QED BY <4>2, <4>4
    <3>4. /\ live' = live /\ key' = key /\ value' = value
      BY <1>1 DEF nodes
    <3>5. CallTyped'
      BY <3>1, <3>2, <3>3, <1>2, <1>3 DEF IInv, TypeOK, CallTyped, Pc, PtrOrNull
    <3>6. need' = PairSize(call'.key, call'.value) - NodeSize(it)'
      BY <3>1, <3>4, <1>1 DEF NodeSize
    <3>7. /\ pc' = "update" /\ it' \in live' /\ it' = head' /\ key'[it'] = call'.key
          /\ call'.key \in Key /\ call'.value \in Value
          /\ ~TooLarge(call'.key, call'.value)
      BY <3>1, <3>4, <2>2, <1>1, <1>3, <1>5
    <3>8. CallInProgress'
      BY <3>6, <3>7 DEF CallInProgress, TooLarge, PairSize
    <3> QED BY <3>5, <3>8
  <2> QED BY <2>1, <2>2
<1>7. TypeOK'
  BY <1>1, <1>5, <1>6 DEF IInv, TypeOK, CallTyped, nodes
<1> QED BY <1>5, <1>6, <1>7 DEF IInv

-----------------------------------------------------------------------------
(* The invariant keeps the eviction loops away from the node they need:    *)
(* when the list is empty, or holds that node only, all the other space is *)
(* free, and a pair that fits the cache fits in it.                        *)
LEMMA IInvEvictionSafe == IInv => EvictionSafe
<1> SUFFICES ASSUME IInv PROVE EvictionSafe
  OBVIOUS
<1>1. ASSUME pc = "insert", NoRoom, tail = Null PROVE FALSE
  <2>1. PICK s, c : Listed(s, c)
    BY <1>1, ListedExists
  <2>2. Count = 0 /\ free = MaxSize
    <3>1. live \in SUBSET Addr /\ NodesFilled /\ free \in 0..MaxSize
      BY DEF IInv, TypeOK
    <3>2. Count = 0
      BY <3>1, <2>1, <1>1, ListedFacts
    <3> QED BY <3>1, <3>2, <2>1, ListedFacts
  <2>3. need \in 0..MaxSize
    BY <1>1 DEF IInv, CallInProgress, TooLarge, PairSize
  <2> QED BY <2>2, <2>3, <1>1 DEF NoRoom, AsSizeT
<1>2. ASSUME pc = "update", need >= 0
      PROVE  /\ it \in live /\ it = head /\ key[it] = call.key
             /\ NoRoom => tail \notin {Null, it}
  <2>1. /\ it \in live /\ it = head /\ key[it] = call.key
        /\ PairSize(call.key, call.value) \in 0..MaxSize
        /\ need = PairSize(call.key, call.value) - NodeSize(it)
    BY <1>2 DEF IInv, CallInProgress, TooLarge, PairSize
  <2>2. PICK s, c : Listed(s, c)
    BY <1>2, ListedExists
  <2>3. live \in SUBSET Addr /\ NodesFilled /\ free \in 0..MaxSize /\ Null \notin live
    BY DEF IInv, TypeOK
  <2>4. Count \in Nat /\ Count # 0
    BY <2>1, <2>3, CountType
  <2>5. tail = s[Count] /\ it = s[1] /\ tail \in live
    <3>1. tail = s[Count] /\ it = s[1]
      BY <2>1, <2>2, <2>3, <2>4, ListedFacts
    <3> QED BY <3>1, <2>2, <2>4 DEF Listed
  <2>6. ASSUME NoRoom, tail = it PROVE FALSE
    <3>1. Count = 1
      <4>1. \A i, j \in 1..Count : s[i] = s[j] => i = j
        BY <2>2 DEF Listed, Walk
      <4>2. 1 \in 1..Count /\ Count \in 1..Count
        BY <2>4
      <4> QED BY <4>1, <4>2, <2>5, <2>6
    <3>2. c[0] = 0 /\ c[1] = c[0] + NodeSize(s[1]) /\ c[1] + free = MaxSize
      BY <3>1, <2>2 DEF Listed, PrefixSizes
    <3>3. NodeSize(it) \in Nat
      BY <2>1, <2>3, NodeSizeType
    <3>4. need <= free
      BY <3>2, <3>3, <2>1, <2>3, <2>5
    <3>5. need \in Int /\ ~(need < 0) /\ free < need
      <4>1. need \in Int
        BY DEF IInv, TypeOK
      <4>2. ~(need < 0)
        BY <4>1, <1>2
      <4>3. free < AsSizeT(need)
        BY <2>6 DEF NoRoom
      <4> QED BY <4>1, <4>2, <4>3 DEF AsSizeT
    <3> QED BY <3>4, <3>5, <2>3
  <2> QED BY <2>1, <2>3, <2>5, <2>6
<1> QED BY <1>1, <1>2 DEF EvictionSafe

(* One turn of an eviction loop.                                           *)
LEMMA EvictTailIInv ==
  ASSUME IInv, EvictTail
  PROVE  IInv'
<1>1. /\ pc \in {"insert", "update"} /\ NoRoom /\ tail # Null
      /\ DeleteNode(key[tail])
      /\ pc' = pc /\ call' = call /\ it' = it /\ need' = need
      /\ ok' = ok /\ out' = out
  BY DEF EvictTail, Evicting
<1>2. PICK s, c : Listed(s, c)
  BY <1>1, ListedExists
<1>3. live \in SUBSET Addr /\ NodesFilled /\ Null \notin live /\ TypeOK
  BY DEF IInv, TypeOK
<1>4. Count > 0 /\ Count \in Nat /\ tail = s[Count] /\ tail \in live
  BY <1>1, <1>2, <1>3, ListedFacts
<1>5. key[tail] \in Key /\ index[key[tail]] = tail
  BY <1>1, <1>3, <1>4 DEF IInv, IndexMatchesList, NodesFilled
<1>6. /\ head' \in PtrOrNull /\ tail' \in PtrOrNull
      /\ next' \in [Addr -> PtrOrNull] /\ prev' \in [Addr -> PtrOrNull]
      /\ key' \in [Addr -> Key \cup {Null}]
      /\ value' \in [Addr -> Value \cup {Null}]
      /\ live' \in SUBSET Addr
      /\ index' \in [Key -> PtrOrNull]
      /\ free' \in 0..MaxSize
      /\ ChainAndSpace' /\ NodesFilled' /\ IndexMatchesList'
  BY <1>1, <1>5, DeleteNodeType
<1>7. /\ index' = [index EXCEPT ![key[tail]] = Null]
      /\ live' = live \ {tail}
      /\ key' = [key EXCEPT ![tail] = Null]
      /\ value' = [value EXCEPT ![tail] = Null]
      /\ head' = IF prev[tail] # Null THEN head ELSE next[tail]
  BY <1>1, <1>5 DEF DeleteNode
<1>8. TypeOK'
  BY <1>1, <1>3, <1>6 DEF TypeOK
<1>9. CASE pc = "insert"
  <2>1. index[call.key] = Null /\ call.key \in Key
    BY <1>9 DEF IInv, CallInProgress
  <2>2. index'[call.key] = Null
    BY <2>1, <1>3, <1>7 DEF TypeOK
  <2> QED BY <2>2, <1>1, <1>6, <1>8, <1>9
          DEF IInv, CallInProgress, TooLarge, PairSize
<1>10. CASE pc = "update" /\ need >= 0
  <2>1. it \in live /\ it = head /\ key[it] = call.key /\ tail # it
    BY <1>1, <1>10, IInvEvictionSafe DEF EvictionSafe
  <2>2. prev[tail] # Null
    <3>1. head = s[1] /\ Count # 1
      BY <2>1, <1>2, <1>3, <1>4, ListedFacts
    <3>2. prev[s[Count]] = s[Count - 1] /\ s[Count - 1] \in live
      <4>1. Count \in 1..Count /\ Count - 1 \in 1..Count
        BY <3>1, <1>4
      <4>2. prev[s[Count]] = IF Count = 1 THEN Null ELSE s[Count - 1]
        BY <4>1, <1>2 DEF Listed, Walk
      <4> QED BY <4>1, <4>2, <3>1, <1>2 DEF Listed
    <3> QED BY <3>2, <1>3, <1>4
  <2>3. head' = head /\ it \in live' /\ key'[it] = key[it] /\ value'[it] = value[it]
    BY <2>1, <2>2, <1>3, <1>7 DEF TypeOK
  <2>4. NodeSize(it)' = NodeSize(it)
    BY <2>3, <1>1 DEF NodeSize
  <2>5. /\ call.key \in Key /\ call.value \in Value /\ ~TooLarge(call.key, call.value)
        /\ need = PairSize(call.key, call.value) - NodeSize(it)
    BY <1>10 DEF IInv, CallInProgress
  <2>6. CallInProgress'
    BY <2>1, <2>3, <2>4, <2>5, <1>1, <1>10 DEF CallInProgress, TooLarge, PairSize
  <2> QED BY <2>6, <1>6, <1>8 DEF IInv
<1>11. CASE pc = "update" /\ ~(need >= 0)
  <2>1. /\ call.key \in Key /\ call.value \in Value /\ ~TooLarge(call.key, call.value)
    BY <1>11 DEF IInv, CallInProgress
  <2>2. CallInProgress'
    BY <2>1, <1>1, <1>11 DEF CallInProgress, TooLarge, PairSize
  <2> QED BY <2>2, <1>6, <1>8 DEF IInv
<1> QED BY <1>1, <1>9, <1>10, <1>11

(* The end of an insertion.                                                *)
LEMMA InsertNodeIInv ==
  ASSUME IInv, InsertNode
  PROVE  IInv'
<1>1. pc = "insert" /\ Return(TRUE, Null) /\ call' = call
  BY DEF InsertNode
<1>2. TypeOK /\ NodesFilled /\ CallInProgress
  BY DEF IInv
<1>3. CallTyped' /\ CallInProgress' /\ pc' = "idle"
  <2>1. call' \in [op : Op, key : Key \cup {Null}, value : Value \cup {Null}]
    BY <1>1, <1>2 DEF TypeOK
  <2> QED BY <2>1, <1>1, ReturnCall
<1>4. PICK s, c : Listed(s, c)
  BY <1>1, ListedExists
<1>5. free' \in 0..MaxSize /\ \E s2, c2 : Listed(s2, c2)'
  BY <1>2, <1>4, InsertNodeListed
<1>6. ChainAndSpace'
  BY <1>3, <1>5, ListedSuffices
<1>7. call.key \in Key /\ call.value \in Value /\ index[call.key] = Null
  BY <1>1, <1>2 DEF CallInProgress
<1>8. PICK a \in Addr \ live :
        /\ live' = live \cup {a}
        /\ key' = [key EXCEPT ![a] = call.key]
        /\ value' = [value EXCEPT ![a] = call.value]
        /\ index' = [index EXCEPT ![call.key] = a]
        /\ head' = a
        /\ tail' = IF head = Null THEN a ELSE tail
        /\ next' = [next EXCEPT ![a] = head]
        /\ prev' = [x \in Addr |-> IF x = a THEN Null
                                   ELSE IF x = head THEN a ELSE prev[x]]
  BY DEF InsertNode
<1>9. TypeOK'
  <2>1. /\ head' \in PtrOrNull /\ tail' \in PtrOrNull
        /\ next' \in [Addr -> PtrOrNull] /\ prev' \in [Addr -> PtrOrNull]
    BY <1>2, <1>8 DEF TypeOK, PtrOrNull
  <2>2. /\ key' \in [Addr -> Key \cup {Null}] /\ value' \in [Addr -> Value \cup {Null}]
        /\ live' \in SUBSET Addr /\ index' \in [Key -> PtrOrNull]
    BY <1>2, <1>7, <1>8 DEF TypeOK, PtrOrNull
  <2> QED BY <2>1, <2>2, <1>3, <1>5 DEF TypeOK, CallTyped
<1>10. /\ key'[a] = call.key /\ value'[a] = call.value
       /\ \A x \in live : x # a /\ key'[x] = key[x] /\ value'[x] = value[x]
  BY <1>2, <1>8 DEF TypeOK
<1>11. NodesFilled'
  BY <1>2, <1>7, <1>8, <1>10 DEF NodesFilled
<1>12. IndexMatchesList'
  <2>1. \A x \in live : index[key[x]] = x /\ key[x] \in Key /\ x # Null
    BY <1>1, <1>2 DEF IInv, IndexMatchesList, NodesFilled, TypeOK
  <2>2. ASSUME NEW x \in live' PROVE index'[key'[x]] = x
    <3>1. CASE x = a
      BY <3>1, <1>2, <1>7, <1>8, <1>10 DEF TypeOK
    <3>2. CASE x \in live
      <4>1. key[x] # call.key
        BY <3>2, <2>1, <1>7
      <4> QED BY <4>1, <3>2, <2>1, <1>2, <1>8, <1>10 DEF TypeOK
    <3> QED BY <3>1, <3>2, <1>8
  <2>3. ASSUME NEW l \in Key, index'[l] # Null
        PROVE  index'[l] \in live' /\ key'[index'[l]] = l
    <3>1. CASE l = call.key
      BY <3>1, <1>2, <1>7, <1>8, <1>10 DEF TypeOK
    <3>2. CASE l # call.key
      <4>1. index'[l] = index[l]
        BY <3>2, <1>2, <1>8 DEF TypeOK
      <4>2. index[l] \in live /\ key[index[l]] = l
        BY <4>1, <2>3, <1>1, IndexedNode
      <4> QED BY <4>1, <4>2, <1>8, <1>10
    <3> QED BY <3>1, <3>2
  <2> QED BY <2>2, <2>3, <1>3 DEF IndexMatchesList
<1> QED BY <1>3, <1>6, <1>9, <1>11, <1>12 DEF IInv

(* The end of an update.                                                   *)
LEMMA UpdateNodeIInv ==
  ASSUME IInv, UpdateNode
  PROVE  IInv'
<1>1. /\ pc = "update" /\ Return(TRUE, Null) /\ call' = call
      /\ head' = head /\ tail' = tail /\ next' = next /\ prev' = prev
      /\ key' = key /\ live' = live /\ index' = index
      /\ value' = [value EXCEPT ![it] = call.value]
  BY DEF UpdateNode, list
<1>2. TypeOK /\ NodesFilled /\ CallInProgress
  BY DEF IInv
<1>3. CallTyped' /\ CallInProgress' /\ pc' = "idle"
  <2>1. call' \in [op : Op, key : Key \cup {Null}, value : Value \cup {Null}]
    BY <1>1, <1>2 DEF TypeOK
  <2> QED BY <2>1, <1>1, ReturnCall
<1>4. PICK s, c : Listed(s, c)
  BY <1>1, ListedExists
<1>5. free' \in 0..MaxSize /\ \E c2 : Listed(s, c2)'
  BY <1>2, <1>4, UpdateNodeListed
<1>6. ChainAndSpace'
  BY <1>3, <1>5, ListedSuffices
<1>7. call.value \in Value
  BY <1>1, <1>2 DEF CallInProgress
<1>8. TypeOK'
  BY <1>1, <1>2, <1>3, <1>5, <1>7 DEF TypeOK, CallTyped
<1>9. NodesFilled' /\ IndexMatchesList'
  <2>1. NodesFilled'
    BY <1>1, <1>2, <1>7 DEF NodesFilled, TypeOK
  <2>2. IndexMatchesList'
    BY <1>1, <1>3 DEF IInv, IndexMatchesList
  <2> QED BY <2>1, <2>2
<1> QED BY <1>3, <1>6, <1>8, <1>9 DEF IInv

(* The steps of the destructor.                                            *)
LEMMA DestructorIInv ==
  ASSUME IInv, DestroyStart \/ DestroyStep \/ DestroyFinish
  PROVE  IInv'
<1>1. CASE DestroyStart
  <2>1. /\ pc = "idle" /\ pc' = "destroy"
        /\ head' = head /\ tail' = tail /\ next' = next /\ prev' = prev
        /\ key' = key /\ value' = value /\ live' = live /\ free' = free
        /\ index' = [k \in Key |-> Null]
        /\ call' = call /\ it' = it /\ need' = need /\ ok' = ok /\ out' = out
    BY <1>1 DEF DestroyStart, list
  <2>2. TypeOK'
    BY <2>1 DEF IInv, TypeOK, Pc, PtrOrNull
  <2>3. ChainAndSpace'
    <3>1. PICK s, c : Listed(s, c)
      BY <2>1, ListedExists
    <3>2. s \in [1..Count' -> live'] /\ Walk(s)' /\ TailAt(s)'
      BY <3>1, <2>1 DEF Listed, Walk, TailAt, Count
    <3> QED BY <3>2, <2>1 DEF ChainAndSpace
  <2>4. NodesFilled' /\ IndexMatchesList' /\ CallInProgress'
    BY <2>1 DEF IInv, NodesFilled, IndexMatchesList, CallInProgress
  <2> QED BY <2>2, <2>3, <2>4 DEF IInv
<1>2. CASE DestroyStep
  <2>1. /\ pc = "destroy" /\ pc' = "destroy" /\ tail # Null
        /\ head' = head /\ index' = index /\ free' = free
        /\ call' = call /\ it' = it /\ need' = need /\ ok' = ok /\ out' = out
        /\ next' = [next EXCEPT ![tail] = Null] /\ tail' = prev[tail]
    BY <1>2 DEF DestroyStep
  <2>2. /\ key' \in [Addr -> Key \cup {Null}] /\ value' \in [Addr -> Value \cup {Null}]
        /\ prev' \in [Addr -> PtrOrNull]
    <3>1. CASE next[tail] = Null
      BY <1>2, <3>1 DEF DestroyStep, IInv, TypeOK
    <3>2. CASE next[tail] # Null
      BY <1>2, <3>2 DEF DestroyStep, FreeNode, IInv, TypeOK, PtrOrNull
    <3> QED BY <3>1, <3>2
  <2>3. ChainAndSpace' /\ live' \subseteq live
    BY <1>2, DestroyStepChain
  <2>4. TypeOK'
    <3>1. tail' \in PtrOrNull /\ next' \in [Addr -> PtrOrNull]
      BY <2>1 DEF IInv, TypeOK, PtrOrNull
    <3> QED BY <3>1, <2>1, <2>2, <2>3 DEF IInv, TypeOK
  <2>5. NodesFilled'
    <3>1. \A a \in live' : key'[a] = key[a] /\ value'[a] = value[a]
      <4>1. CASE next[tail] = Null
        BY <1>2, <4>1 DEF DestroyStep
      <4>2. CASE next[tail] # Null
        BY <1>2, <4>2, <2>3 DEF DestroyStep, FreeNode, IInv, TypeOK
      <4> QED BY <4>1, <4>2
    <3> QED BY <3>1, <2>3 DEF IInv, NodesFilled
  <2>6. IndexMatchesList' /\ CallInProgress'
    BY <2>1 DEF IInv, IndexMatchesList, CallInProgress
  <2> QED BY <2>3, <2>4, <2>5, <2>6 DEF IInv
<1>3. CASE DestroyFinish
  <2>1. /\ pc' = "destroyed" /\ head' = Null /\ tail' = tail /\ next' = next
        /\ prev' = prev /\ index' = index /\ free' = free
        /\ call' = call /\ it' = it /\ need' = need /\ ok' = ok /\ out' = out
    BY <1>3 DEF DestroyFinish
  <2>2. ChainAndSpace' /\ live' = {}
    BY <1>3, DestroyFinishChain
  <2>3. /\ key' \in [Addr -> Key \cup {Null}] /\ value' \in [Addr -> Value \cup {Null}]
    BY <1>3 DEF DestroyFinish, FreeNode, IInv, TypeOK
  <2>4. TypeOK'
    BY <2>1, <2>2, <2>3 DEF IInv, TypeOK, Pc, PtrOrNull
  <2>5. NodesFilled' /\ IndexMatchesList' /\ CallInProgress'
    BY <2>1, <2>2, <1>3
       DEF DestroyFinish, IInv, NodesFilled, IndexMatchesList, CallInProgress
  <2> QED BY <2>2, <2>4, <2>5 DEF IInv
<1> QED BY <1>1, <1>2, <1>3

(* Every step preserves the invariant.                                     *)
LEMMA NextIInv == IInv /\ [Next]_vars => IInv'
<1> SUFFICES ASSUME IInv, [Next]_vars PROVE IInv'
  OBVIOUS
<1>1. ASSUME NEW k \in Key, NEW v \in Value, Put(k, v) PROVE IInv'
  <2>1. pc = "idle" /\ Called("Put", k, v) /\ "Put" \in Op
    BY <1>1 DEF Put, Op
  <2>2. CASE index[k] = Null
    BY <1>1, <2>1, <2>2, PutInHeadIInv DEF Put
  <2>3. CASE index[k] # Null
    BY <1>1, <2>1, <2>3, UpdateStoredIInv DEF Put
  <2> QED BY <2>2, <2>3
<1>2. ASSUME NEW k \in Key, NEW v \in Value, PutIfAbsent(k, v) PROVE IInv'
  <2>1. pc = "idle" /\ Called("PutIfAbsent", k, v) /\ "PutIfAbsent" \in Op
    BY <1>2 DEF PutIfAbsent, Op
  <2>2. CASE index[k] = Null
    BY <1>2, <2>1, <2>2, PutInHeadIInv DEF PutIfAbsent
  <2>3. CASE index[k] # Null
    <3>1. call' \in [op : Op, key : Key \cup {Null}, value : Value \cup {Null}]
      BY <2>1 DEF Called
    <3> QED BY <1>2, <2>1, <2>3, <3>1, ReturnIInv DEF PutIfAbsent
  <2> QED BY <2>2, <2>3
<1>3. ASSUME NEW k \in Key, NEW v \in Value, Set(k, v) PROVE IInv'
  <2>1. pc = "idle" /\ Called("Set", k, v) /\ "Set" \in Op
    BY <1>3 DEF Set, Op
  <2>2. CASE index[k] = Null
    <3>1. call' \in [op : Op, key : Key \cup {Null}, value : Value \cup {Null}]
      BY <2>1 DEF Called
    <3> QED BY <1>3, <2>1, <2>2, <3>1, ReturnIInv DEF Set
  <2>3. CASE index[k] # Null
    BY <1>3, <2>1, <2>3, UpdateStoredIInv DEF Set
  <2> QED BY <2>2, <2>3
<1>4. ASSUME NEW k \in Key, Delete(k) PROVE IInv'
  <2>1. pc = "idle" /\ call' = [op |-> "Delete", key |-> k, value |-> Null]
    BY <1>4 DEF Delete, Called
  <2>2. call' \in [op : Op, key : Key \cup {Null}, value : Value \cup {Null}]
    BY <2>1 DEF Op
  <2>3. CASE index[k] = Null
    BY <1>4, <2>1, <2>2, <2>3, ReturnIInv DEF Delete
  <2>4. CASE index[k] # Null
    <3>1. Return(TRUE, Null) /\ DeleteNode(k)
      BY <1>4, <2>4 DEF Delete
    <3>2. CallTyped' /\ CallInProgress' /\ pc' = "idle"
      BY <3>1, <2>2, ReturnCall
    <3>3. /\ head' \in PtrOrNull /\ tail' \in PtrOrNull
          /\ next' \in [Addr -> PtrOrNull] /\ prev' \in [Addr -> PtrOrNull]
          /\ key' \in [Addr -> Key \cup {Null}]
          /\ value' \in [Addr -> Value \cup {Null}]
          /\ live' \in SUBSET Addr
          /\ index' \in [Key -> PtrOrNull]
          /\ free' \in 0..MaxSize
          /\ ChainAndSpace' /\ NodesFilled' /\ IndexMatchesList'
      BY <3>1, <3>2, <2>1, <2>4, DeleteNodeType
    <3>4. TypeOK'
      BY <3>2, <3>3 DEF TypeOK, CallTyped
    <3> QED BY <3>2, <3>3, <3>4 DEF IInv
  <2> QED BY <2>3, <2>4
<1>5. ASSUME NEW k \in Key, Get(k) PROVE IInv'
  <2>1. pc = "idle" /\ call' = [op |-> "Get", key |-> k, value |-> Null]
    BY <1>5 DEF Get, Called
  <2>2. call' \in [op : Op, key : Key \cup {Null}, value : Value \cup {Null}]
    BY <2>1 DEF Op
  <2>3. CASE index[k] = Null
    BY <1>5, <2>1, <2>2, <2>3, ReturnIInv DEF Get
  <2>4. CASE index[k] # Null
    <3>1. /\ Return(TRUE, value[index[k]]) /\ MoveToHead(k)
          /\ UNCHANGED <<nodes, free>>
      BY <1>5, <2>4 DEF Get
    <3>2. value[index[k]] \in Value \cup {Null}
      <4>1. index[k] \in live
        BY <2>1, <2>4, IndexedNode
      <4> QED BY <4>1 DEF IInv, NodesFilled
    <3>3. CallTyped' /\ CallInProgress' /\ pc' = "idle"
      <4>1. PICK x \in Value \cup {Null} : x = value[index[k]]
        BY <3>2
      <4>2. Return(TRUE, x)
        BY <3>1, <4>1
      <4> QED BY <4>2, <2>2, ReturnCall
    <3>4. /\ head' \in PtrOrNull /\ tail' \in PtrOrNull
          /\ next' \in [Addr -> PtrOrNull] /\ prev' \in [Addr -> PtrOrNull]
          /\ ChainAndSpace' /\ NodesFilled' /\ IndexMatchesList'
      BY <3>1, <3>3, <2>1, <2>4, MoveToHeadType
    <3>5. TypeOK'
      BY <3>1, <3>3, <3>4 DEF IInv, TypeOK, CallTyped, nodes
    <3> QED BY <3>3, <3>4, <3>5 DEF IInv
  <2> QED BY <2>3, <2>4
<1>6. CASE EvictTail
  BY <1>6, EvictTailIInv
<1>7. CASE EvictFromEmpty
  <2>1. /\ pc \in {"insert", "update"} /\ pc' = "undefined" /\ UNCHANGED store
        /\ call' = call /\ it' = it /\ need' = need /\ ok' = ok /\ out' = out
    BY <1>7 DEF EvictFromEmpty, Evicting
  <2>2. TypeOK'
    BY <2>1 DEF IInv, TypeOK, Pc, store, list, nodes
  <2>3. CallInProgress'
    BY <2>1 DEF CallInProgress
  <2> QED BY <2>1, <2>2, <2>3, StoreUnchanged DEF IInv
<1>8. CASE InsertNode
  BY <1>8, InsertNodeIInv
<1>9. CASE UpdateNode
  BY <1>9, UpdateNodeIInv
<1>10. CASE DestroyStart \/ DestroyStep \/ DestroyFinish
  BY <1>10, DestructorIInv
<1>11. CASE UNCHANGED vars
  <2>1. /\ head' = head /\ tail' = tail /\ next' = next /\ prev' = prev
        /\ key' = key /\ value' = value /\ live' = live /\ index' = index
        /\ free' = free /\ pc' = pc /\ call' = call /\ it' = it /\ need' = need
        /\ ok' = ok /\ out' = out
    BY <1>11 DEF vars, store, list, nodes
  <2>2. TypeOK'
    BY <2>1 DEF IInv, TypeOK
  <2>3. ChainAndSpace'
    <3>1. /\ Count' = Count
          /\ \A s : Walk(s)' <=> Walk(s)
          /\ \A s : TailAt(s)' <=> TailAt(s)
          /\ \A s, c : PrefixSizes(s, c)' <=> PrefixSizes(s, c)
      BY <2>1 DEF Count, Walk, TailAt, PrefixSizes, NodeSize
    <3> QED BY <2>1, <3>1 DEF IInv, ChainAndSpace
  <2>4. NodesFilled' /\ IndexMatchesList' /\ CallInProgress'
    BY <2>1 DEF IInv, NodesFilled, IndexMatchesList, CallInProgress, NodeSize
  <2> QED BY <2>2, <2>3, <2>4 DEF IInv
<1> QED BY <1>1, <1>2, <1>3, <1>4, <1>5, <1>6, <1>7, <1>8, <1>9, <1>10, <1>11
        DEF Next, Call, Continue, Destructor, Undefined, Destroyed

(* The inductive invariant holds throughout.                               *)
THEOREM Inductive == Spec => []IInv
BY InitIInv, NextIInv, PTL DEF Spec

(* Types, and the free-space counter never wraps: _free_size stays within  *)
(* 0.._max_size whatever sequence of calls the cache serves.               *)
THEOREM TypeCorrect == Spec => []TypeOK
<1>1. IInv => TypeOK
  BY DEF IInv
<1> QED BY <1>1, Inductive, PTL

(* The list is one chain through all the allocated nodes, and the space    *)
(* accounting is exact, for every cache size and every set of keys.        *)
THEOREM ChainAndSpaceCorrect == Spec => []ChainAndSpace
<1>1. IInv => ChainAndSpace
  BY DEF IInv
<1> QED BY <1>1, Inductive, PTL

(* The eviction loops of insertions and of updates that do not shrink a    *)
(* value stop before they have evicted too much.                           *)
THEOREM EvictionCorrect == Spec => []EvictionSafe
BY IInvEvictionSafe, Inductive, PTL

-----------------------------------------------------------------------------
(* A walk through all the nodes rules out dangling, leaked and doubly      *)
(* owned ones.                                                             *)
LEMMA IInvMemorySafe == IInv => PointersLive /\ UniqueOwner
<1> SUFFICES ASSUME IInv PROVE PointersLive /\ UniqueOwner
  OBVIOUS
<1> DEFINE n == Count
<1>1. PICK s \in [1..n -> live] : Walk(s) /\ TailAt(s)
  BY DEF IInv, ChainAndSpace
<1>2. n \in Nat /\ live \in SUBSET Addr /\ Null \notin live
  BY CountType DEF IInv, TypeOK
<1>3. /\ \A j \in 1..n : s[j] \in live
      /\ \A a \in live : \E j \in 1..n : s[j] = a
      /\ \A j, l \in 1..n : s[j] = s[l] => j = l
      /\ head = IF n = 0 THEN Null ELSE s[1]
  BY <1>1 DEF Walk
<1>4. ASSUME NEW j \in 1..n
      PROVE  /\ next[s[j]] = IF j = n THEN Null ELSE s[j + 1]
             /\ prev[s[j]] = IF j = 1 THEN Null ELSE s[j - 1]
             /\ j # n => j + 1 \in 1..n
             /\ j # 1 => j - 1 \in 1..n
  BY <1>1, <1>2 DEF Walk
<1>5. PointersLive
  <2>1. {head, tail} \subseteq live \cup {Null}
    <3>1. head \in live \cup {Null}
      BY <1>2, <1>3
    <3>2. n # 0 => n \in 1..n
      BY <1>2
    <3>3. ~(n <= 1) => n - 1 \in 1..n
      BY <1>2
    <3>4. tail \in live \cup {Null}
      BY <3>2, <3>3, <1>1, <1>3 DEF TailAt
    <3> QED BY <3>1, <3>4
  <2>2. ASSUME NEW a \in live PROVE {next[a], prev[a]} \subseteq live \cup {Null}
    <3>1. PICK j \in 1..n : s[j] = a
      BY <1>3
    <3>2. next[s[j]] \in live \cup {Null}
      BY <1>3, <1>4
    <3>3. prev[s[j]] \in live \cup {Null}
      BY <1>3, <1>4
    <3> QED BY <3>1, <3>2, <3>3
  <2>3. \A k \in Key : index[k] \in live \cup {Null}
    <3>1. CASE pc \notin {"destroy", "destroyed"}
      BY <3>1, IndexedNode
    <3>2. CASE pc \in {"destroy", "destroyed"}
      BY <3>2 DEF IInv, IndexMatchesList
    <3> QED BY <3>1, <3>2
  <2> QED BY <2>1, <2>2, <2>3 DEF PointersLive
<1>6. UniqueOwner
  <2> SUFFICES ASSUME NEW a \in live PROVE \E o \in PtrOrNull : Owners(a) = {o}
    BY DEF UniqueOwner
  <2>1. PICK j \in 1..n : s[j] = a
    BY <1>3
  <2>2. ASSUME NEW b \in live, next[b] = a
        PROVE  j # 1 /\ b = s[j - 1]
    <3>1. PICK l \in 1..n : s[l] = b
      BY <1>3
    <3>2. l # n /\ s[l + 1] = s[j] /\ l + 1 \in 1..n
      BY <3>1, <2>1, <2>2, <1>2, <1>4
    <3>3. l + 1 = j
      BY <3>2, <1>3
    <3> QED BY <3>1, <3>3, <1>2
  <2>3. CASE j = 1
    <3>1. head = a
      BY <2>1, <2>3, <1>2, <1>3
    <3>2. Owners(a) = {Null}
      BY <3>1, <2>2, <2>3 DEF Owners
    <3> QED BY <3>2 DEF PtrOrNull
  <2>4. CASE j # 1
    <3>1. j - 1 \in 1..n /\ s[j - 1] \in live /\ next[s[j - 1]] = a
      <4>1. j - 1 \in 1..n /\ j - 1 # n /\ (j - 1) + 1 = j
        BY <2>4, <1>2
      <4> QED BY <4>1, <2>1, <1>3, <1>4
    <3>2. head # a
      BY <2>1, <2>4, <1>2, <1>3
    <3>3. Owners(a) = {s[j - 1]}
      BY <3>1, <3>2, <2>2, <2>4 DEF Owners
    <3> QED BY <3>1, <3>3, <1>2 DEF PtrOrNull
  <2> QED BY <2>3, <2>4
<1> QED BY <1>5, <1>6

(* A walk gives each node's neighbours, and tells how far the destructor   *)
(* has come.                                                               *)
LEMMA IInvLinks == IInv => BackLinks /\ DestructorFlat
<1> SUFFICES ASSUME IInv PROVE BackLinks /\ DestructorFlat
  OBVIOUS
<1> DEFINE n == Count
<1>1. PICK s \in [1..n -> live] : Walk(s) /\ TailAt(s)
  BY DEF IInv, ChainAndSpace
<1>2. n \in Nat /\ Null \notin live /\ (n = 0 <=> live = {})
  BY CountType, FS_Subset, FS_EmptySet, AddrAssumption, NullAssumption
  DEF IInv, TypeOK, Count
<1>3. /\ \A j \in 1..n : s[j] \in live /\ s[j] # Null
      /\ \A a \in live : \E j \in 1..n : s[j] = a
      /\ \A j, l \in 1..n : s[j] = s[l] => j = l
      /\ head = IF n = 0 THEN Null ELSE s[1]
  BY <1>1, <1>2 DEF Walk
<1>4. ASSUME NEW j \in 1..n
      PROVE  /\ next[s[j]] = IF j = n THEN Null ELSE s[j + 1]
             /\ prev[s[j]] = IF j = 1 THEN Null ELSE s[j - 1]
             /\ 1 \in 1..n /\ n \in 1..n /\ n # 0
             /\ j # n => j + 1 \in 1..n /\ j + 1 # 1 /\ (j + 1) - 1 = j
             /\ j # 1 => j - 1 \in 1..n /\ j - 1 # n /\ (j - 1) + 1 = j
  <2>1. /\ next[s[j]] = IF j = n THEN Null ELSE s[j + 1]
        /\ prev[s[j]] = IF j = 1 THEN Null ELSE s[j - 1]
    BY <1>1 DEF Walk
  <2>2. /\ 1 \in 1..n /\ n \in 1..n /\ n # 0
        /\ j # n => j + 1 \in 1..n /\ j + 1 # 1 /\ (j + 1) - 1 = j
        /\ j # 1 => j - 1 \in 1..n /\ j - 1 # n /\ (j - 1) + 1 = j
    <3> HIDE DEF n
    <3> QED BY <1>2
  <2> QED BY <2>1, <2>2
<1>5. n # 0 => 1 \in 1..n /\ n \in 1..n
  BY <1>2
<1>6. BackLinks
  <2> SUFFICES ASSUME pc # "destroy" PROVE BackLinks
    BY DEF BackLinks
  <2>1. tail = IF n = 0 THEN Null ELSE s[n]
    BY <1>1 DEF TailAt
  <2>2. ASSUME NEW a \in live
        PROVE  /\ prev[a] = Null <=> head = a
               /\ next[a] = Null <=> tail = a
               /\ next[a] # Null => prev[next[a]] = a
    <3>1. PICK j \in 1..n : s[j] = a
      BY <1>3
    <3>2. prev[a] = Null <=> j = 1
      BY <3>1, <1>3, <1>4
    <3>3. next[a] = Null <=> j = n
      BY <3>1, <1>3, <1>4
    <3>4. head = a <=> j = 1
      BY <3>1, <1>3, <1>4
    <3>5. tail = a <=> j = n
      BY <3>1, <2>1, <1>3, <1>4
    <3>6. next[a] # Null => prev[next[a]] = a
      BY <3>1, <3>3, <1>4
    <3> QED BY <3>2, <3>3, <3>4, <3>5, <3>6
  <2>3. (head = Null <=> live = {}) /\ (tail = Null <=> live = {})
    BY <2>1, <1>2, <1>3, <1>5
  <2> QED BY <2>2, <2>3 DEF BackLinks
<1>7. DestructorFlat
  <2>1. pc = "destroyed" => live = {}
    BY DEF IInv, CallInProgress
  <2>2. ASSUME pc = "destroy", n # 0
        PROVE  \/ tail = s[n] /\ tail # Null /\ next[tail] = Null
               \/ n = 1 /\ tail = Null /\ head = s[1] /\ next[head] = Null
               \/ n - 1 \in 1..n /\ tail = s[n - 1] /\ tail # Null
                  /\ next[tail] = s[n] /\ next[s[n]] = Null
    <3>1. n \in 1..n /\ next[s[n]] = Null /\ s[n] # Null
      BY <2>2, <1>3, <1>4, <1>5
    <3>2. CASE n = 1
      BY <2>2, <3>1, <3>2, <1>1, <1>3 DEF TailAt
    <3>3. CASE n # 1
      <4>1. ~(n <= 1) /\ n - 1 \in 1..n /\ n - 1 # n /\ (n - 1) + 1 = n
        BY <2>2, <3>3, <1>2
      <4>2. next[s[n - 1]] = s[n] /\ s[n - 1] # Null
        BY <4>1, <1>3, <1>4
      <4> QED BY <2>2, <3>1, <4>1, <4>2, <1>1 DEF TailAt
    <3> QED BY <3>2, <3>3
  <2>3. ASSUME pc = "destroy", n = 0 PROVE tail = Null /\ head = Null
    BY <2>3, <1>1, <1>3 DEF TailAt
  <2> QED BY <2>1, <2>2, <2>3 DEF DestructorFlat
<1> QED BY <1>6, <1>7

(* The list is sound, whatever the sequence of calls and for every storage:*)
(* no pointer dangles, every node has exactly one owner, back pointers and *)
(* _lru_tail mirror the owning ones, and the index matches the list.       *)
THEOREM ListCorrect == Spec => []ListSound
<1>1. IInv => ListSound
  BY IInvMemorySafe, IInvLinks DEF IInv, ListSound
<1> QED BY <1>1, Inductive, PTL

(* The destructor never frees a node that owns another one, and leaves     *)
(* nothing behind (SimpleLRU.h:22-30).                                     *)
THEOREM DestructorCorrect == Spec => []DestructorFlat
BY IInvLinks, Inductive, PTL

-----------------------------------------------------------------------------
(* The abstract cache: sequences of entries and the sizes of their first   *)
(* elements.                                                               *)
EntryType == [key : Key, value : Value]

Sizes(c, g) ==
  /\ g[0] = 0
  /\ \A i \in 1..Len(c) : g[i] = g[i - 1] + Pure!EntrySize(c[i])

LEMMA IsSequence ==
  ASSUME NEW A, NEW n \in Nat, NEW f \in [1..n -> A]
  PROVE  f \in Seq(A) /\ Len(f) = n
<1>1. f \in Seq(A)
  BY ElementOfSeq
<1>2. DOMAIN f = 1..n /\ Len(f) \in Nat /\ DOMAIN f = 1..Len(f)
  BY <1>1, LenProperties
<1> QED BY <1>1, <1>2

LEMMA EntrySizeType == \A e \in EntryType : Pure!EntrySize(e) \in Nat
BY DEF EntryType, Pure!EntrySize

(* The recursive function in the definition of TotalSize.                  *)
IsSum(f, c) ==
  f = [n \in 0..Len(c) |-> IF n = 0 THEN 0 ELSE f[n - 1] + Pure!EntrySize(c[n])]

LEMMA SizesExist ==
  ASSUME NEW c \in Seq(EntryType)
  PROVE  \E g \in [0..Len(c) -> Nat] : Sizes(c, g) /\ IsSum(g, c)
<1> DEFINE m == Len(c)
           h == [i \in 1..m |-> [x \in Nat |-> x + Pure!EntrySize(c[i])]]
<1>1. m \in Nat /\ \A i \in 1..m : c[i] \in EntryType /\ Pure!EntrySize(c[i]) \in Nat
  BY LenProperties, EntrySizeType
<1>2. h \in [1..m -> [Nat -> Nat]] /\ \A i \in 1..m, x \in Nat : h[i][x] = x + Pure!EntrySize(c[i])
  BY <1>1
<1>3. PICK g : Recurs(g, Nat, 0, m, h)
  <2> HIDE DEF m, h
  <2>1. 0 \in Nat /\ m \in Nat /\ h \in [1..m -> [Nat -> Nat]]
    BY <1>1, <1>2
  <2> QED BY <2>1, Recursion
<1> HIDE DEF h
<1>4. g \in [0..m -> Nat] /\ g[0] = 0
  BY <1>3 DEF Recurs
<1>5. ASSUME NEW i \in 1..m PROVE g[i] = g[i - 1] + Pure!EntrySize(c[i])
  <2>1. i - 1 \in 0..m
    BY <1>1
  <2>2. g[i - 1] \in Nat /\ g[i] = h[i][g[i - 1]]
    BY <1>3, <2>1 DEF Recurs
  <2> QED BY <1>2, <2>2
<1>6. Sizes(c, g)
  BY <1>4, <1>5 DEF Sizes
<1>7. ASSUME NEW i \in 0..m
      PROVE  g[i] = IF i = 0 THEN 0 ELSE g[i - 1] + Pure!EntrySize(c[i])
  <2>1. CASE i = 0
    BY <1>4, <2>1
  <2>2. CASE i # 0
    BY <1>1, <1>5, <2>2
  <2> QED BY <2>1, <2>2
<1>8. IsSum(g, c)
  <2>1. g = [i \in 0..m |-> g[i]]
    BY <1>4
  <2> QED BY <1>7, <2>1 DEF IsSum
<1> QED BY <1>4, <1>6, <1>8

(* The sizes are determined by the sequence.                               *)
LEMMA SizesUnique ==
  ASSUME NEW c \in Seq(EntryType), NEW g, Sizes(c, g), NEW f, Sizes(c, f)
  PROVE  \A i \in 0..Len(c) : f[i] = g[i]
<1>1. Len(c) \in Nat
  BY LenProperties
<1> DEFINE S == {i \in Nat : i \in 0..Len(c) => f[i] = g[i]}
<1>2. 0 \in S
  BY DEF Sizes
<1>3. ASSUME NEW i \in Nat, i \in S PROVE i + 1 \in S
  <2>1. SUFFICES ASSUME i + 1 \in 0..Len(c) PROVE f[i + 1] = g[i + 1]
    OBVIOUS
  <2>2. i \in 0..Len(c) /\ i + 1 \in 1..Len(c) /\ (i + 1) - 1 = i
    BY <1>1, <2>1
  <2>3. f[i] = g[i]
    BY <1>3, <2>2
  <2>4. /\ f[i + 1] = f[(i + 1) - 1] + Pure!EntrySize(c[i + 1])
        /\ g[i + 1] = g[(i + 1) - 1] + Pure!EntrySize(c[i + 1])
    BY <2>2 DEF Sizes
  <2> QED BY <2>2, <2>3, <2>4
<1>4. Nat \subseteq S
  <2> HIDE DEF S
  <2> QED BY <1>2, <1>3, Induction
<1> QED BY <1>1, <1>4

LEMMA SizesTyped ==
  ASSUME NEW c \in Seq(EntryType), NEW g, Sizes(c, g)
  PROVE  /\ Pure!TotalSize(c) = g[Len(c)]
         /\ \A i \in 0..Len(c) : g[i] \in Nat
<1>1. Len(c) \in Nat
  BY LenProperties
<1>2. PICK f \in [0..Len(c) -> Nat] : Sizes(c, f) /\ IsSum(f, c)
  BY SizesExist
<1> DEFINE v == CHOOSE sum : IsSum(sum, c)
<1>3. IsSum(v, c)
  BY <1>2
<1>4. Pure!TotalSize(c) = v[Len(c)]
  BY DEF Pure!TotalSize, IsSum
<1> HIDE DEF v
<1>5. Sizes(c, v)
  <2>1. \A n \in 0..Len(c) : v[n] = IF n = 0 THEN 0 ELSE v[n - 1] + Pure!EntrySize(c[n])
    BY <1>3 DEF IsSum
  <2> QED BY <1>1, <2>1 DEF Sizes
<1>6. v[Len(c)] = g[Len(c)]
  BY <1>1, <1>5, SizesUnique
<1>7. \A i \in 0..Len(c) : g[i] = f[i]
  BY <1>2, SizesUnique
<1> QED BY <1>4, <1>6, <1>7

LEMMA SizesGrow ==
  ASSUME NEW c \in Seq(EntryType), NEW g, Sizes(c, g),
         NEW i \in 0..Len(c), NEW j \in 0..Len(c), i <= j
  PROVE  g[i] <= g[j]
<1>1. Len(c) \in Nat /\ \A k \in 0..Len(c) : g[k] \in Nat
  BY LenProperties, SizesTyped
<1> DEFINE S == {k \in Nat : k \in i..Len(c) => g[i] <= g[k]}
<1>2. 0 \in S
  BY <1>1
<1>3. ASSUME NEW k \in Nat, k \in S PROVE k + 1 \in S
  <2>1. SUFFICES ASSUME k + 1 \in i..Len(c) PROVE g[i] <= g[k + 1]
    OBVIOUS
  <2>2. k + 1 \in 0..Len(c) /\ g[i] \in Nat
    BY <1>1, <2>1
  <2>3. CASE k + 1 = i
    BY <1>1, <2>2, <2>3
  <2>4. CASE k + 1 # i
    <3>1. k \in i..Len(c) /\ k \in 0..Len(c) /\ k + 1 \in 1..Len(c) /\ (k + 1) - 1 = k
      BY <1>1, <2>1, <2>4
    <3>2. g[i] <= g[k] /\ g[k] \in Nat
      BY <1>1, <1>3, <3>1
    <3>3. g[k + 1] = g[(k + 1) - 1] + Pure!EntrySize(c[k + 1])
      BY <3>1 DEF Sizes
    <3>4. Pure!EntrySize(c[k + 1]) \in Nat
      BY <3>1, LenProperties, EntrySizeType
    <3> QED BY <2>2, <3>1, <3>2, <3>3, <3>4
  <2> QED BY <2>3, <2>4
<1>4. Nat \subseteq S
  <2> HIDE DEF S
  <2> QED BY <1>2, <1>3, Induction
<1>5. j \in Nat /\ j \in i..Len(c)
  BY <1>1
<1> QED BY <1>4, <1>5

LEMMA PrefixSize ==
  ASSUME NEW c \in Seq(EntryType), NEW g, Sizes(c, g), NEW m \in 0..Len(c)
  PROVE  Pure!TotalSize(SubSeq(c, 1, m)) = g[m]
<1> DEFINE d == SubSeq(c, 1, m)
<1>1. d \in Seq(EntryType) /\ Len(d) = m /\ \A i \in 1..m : d[i] = c[i]
  BY Halves DEF Pre
<1>2. Len(c) \in Nat
  BY LenProperties
<1> HIDE DEF d
<1>3. Sizes(d, g)
  <2>1. ASSUME NEW i \in 1..m PROVE g[i] = g[i - 1] + Pure!EntrySize(d[i])
    <3>1. i \in 1..Len(c)
      BY <1>2
    <3>2. g[i] = g[i - 1] + Pure!EntrySize(c[i])
      BY <3>1 DEF Sizes
    <3>3. d[i] = c[i]
      BY <1>1
    <3> QED BY <3>2, <3>3
  <2>2. g[0] = 0
    BY DEF Sizes
  <2> QED BY <1>1, <2>1, <2>2 DEF Sizes
<1>4. Pure!TotalSize(d) = g[Len(d)]
  BY <1>1, <1>3, SizesTyped
<1> QED BY <1>1, <1>4 DEF d

(* Fit keeps the longest prefix that fits.                                 *)
LEMMA FitIs ==
  ASSUME NEW c \in Seq(EntryType), NEW g, Sizes(c, g), NEW m \in 0..Len(c),
         NEW n \in Nat, g[m] <= n, m < Len(c) => g[m + 1] > n
  PROVE  Pure!Fit(c, n) = SubSeq(c, 1, m)
<1>1. Len(c) \in Nat /\ \A k \in 0..Len(c) : g[k] \in Nat
  BY LenProperties, SizesTyped
<1> DEFINE S == {l \in 0..Len(c) : Pure!TotalSize(SubSeq(c, 1, l)) <= n}
<1>2. m \in S
  BY PrefixSize
<1>3. ASSUME NEW l \in S PROVE l <= m
  <2>1. l \in 0..Len(c) /\ g[l] <= n
    BY PrefixSize
  <2>2. SUFFICES ASSUME l > m PROVE FALSE
    BY <1>1, <2>1
  <2>3. m + 1 \in 0..Len(c) /\ m + 1 <= l /\ m < Len(c)
    BY <1>1, <2>1, <2>2
  <2>4. g[m + 1] <= g[l]
    BY <2>1, <2>3, SizesGrow
  <2> QED BY <1>1, <2>1, <2>3, <2>4
<1>4. S \subseteq Int
  BY <1>1
<1> HIDE DEF S
<1>5. Pure!Fit(c, n) = SubSeq(c, 1, CHOOSE x \in S : \A y \in S : x >= y)
  BY DEF Pure!Fit, S, Pure!Max
<1>6. \A x \in S : (\A y \in S : x >= y) => x = m
  BY <1>2, <1>3, <1>4
<1>7. \A y \in S : m >= y
  BY <1>2, <1>3, <1>4
<1>8. (CHOOSE x \in S : \A y \in S : x >= y) = m
  BY <1>2, <1>6, <1>7
<1> QED BY <1>5, <1>8

(* There is such a prefix.                                                 *)
LEMMA FitExists ==
  ASSUME NEW c \in Seq(EntryType), NEW g, Sizes(c, g), NEW n \in Nat
  PROVE  \E m \in 0..Len(c) :
           /\ g[m] <= n /\ (m < Len(c) => g[m + 1] > n)
           /\ Pure!Fit(c, n) = SubSeq(c, 1, m)
<1>1. Len(c) \in Nat /\ (\A k \in 0..Len(c) : g[k] \in Nat) /\ g[0] = 0
  BY LenProperties, SizesTyped DEF Sizes
<1> DEFINE T == {l \in 0..Len(c) : g[Len(c) - l] <= n}
<1>2. Len(c) \in T /\ T \subseteq Nat
  BY <1>1
<1>3. PICK x \in T : \A y \in T : x <= y
  <2> HIDE DEF T
  <2> QED BY <1>2, LeastNumber
<1> DEFINE m == Len(c) - x
<1>4. m \in 0..Len(c) /\ g[m] <= n
  BY <1>1
<1>5. ASSUME m < Len(c) PROVE g[m + 1] > n
  <2>1. x - 1 \in 0..Len(c) /\ Len(c) - (x - 1) = m + 1 /\ m + 1 \in 0..Len(c)
    BY <1>1, <1>5
  <2>2. x - 1 \notin T
    <3> HIDE DEF T
    <3>1. x \in Nat
      BY <1>2
    <3> QED BY <1>3, <3>1
  <2> QED BY <1>1, <2>1, <2>2
<1> HIDE DEF m
<1>6. Pure!Fit(c, n) = SubSeq(c, 1, m)
  BY <1>4, <1>5, FitIs
<1> QED BY <1>4, <1>5, <1>6

LEMMA FitAll ==
  ASSUME NEW c \in Seq(EntryType), NEW n \in Nat, Pure!TotalSize(c) <= n
  PROVE  Pure!Fit(c, n) = c
<1>1. PICK g : Sizes(c, g)
  BY SizesExist
<1>2. Len(c) \in Nat /\ g[Len(c)] <= n
  BY <1>1, SizesTyped, LenProperties
<1>3. Pure!Fit(c, n) = SubSeq(c, 1, Len(c))
  BY <1>1, <1>2, FitIs
<1> QED BY <1>3, SubSeqFull

(* What does not fit as a whole may as well lose its last element first.   *)
LEMMA FitDropsLast ==
  ASSUME NEW c \in Seq(EntryType), NEW n \in Nat, Pure!TotalSize(c) > n
  PROVE  /\ Len(c) \in Nat \ {0}
         /\ Pure!Fit(SubSeq(c, 1, Len(c) - 1), n) = Pure!Fit(c, n)
<1>1. PICK g : Sizes(c, g)
  BY SizesExist
<1>2. /\ Len(c) \in Nat /\ g[Len(c)] > n /\ g[0] = 0
      /\ \A k \in 0..Len(c) : g[k] \in Nat
  BY <1>1, SizesTyped, LenProperties DEF Sizes
<1>3. PICK m \in 0..Len(c) :
        /\ g[m] <= n /\ (m < Len(c) => g[m + 1] > n)
        /\ Pure!Fit(c, n) = SubSeq(c, 1, m)
  BY <1>1, FitExists
<1>4. m < Len(c) /\ m \in 0..(Len(c) - 1) /\ Len(c) # 0 /\ Len(c) - 1 \in 0..Len(c)
  BY <1>2, <1>3
<1> DEFINE p == Len(c) - 1
           d == SubSeq(c, 1, p)
<1>5. d \in Seq(EntryType) /\ Len(d) = p /\ \A i \in 1..p : d[i] = c[i]
  <2>1. p \in 0..Len(c)
    BY <1>4
  <2> HIDE DEF p
  <2> QED BY <2>1, Halves DEF Pre
<1> HIDE DEF d
<1>6. Sizes(d, g)
  BY <1>1, <1>2, <1>5 DEF Sizes
<1>7. Pure!Fit(d, n) = SubSeq(d, 1, m)
  BY <1>3, <1>4, <1>5, <1>6, FitIs
<1>8. SubSeq(d, 1, m) = SubSeq(c, 1, m)
  <2>1. /\ SubSeq(d, 1, m) \in Seq(EntryType) /\ Len(SubSeq(d, 1, m)) = m
        /\ \A i \in 1..m : SubSeq(d, 1, m)[i] = d[i]
    BY <1>4, <1>5, Halves DEF Pre
  <2>2. /\ SubSeq(c, 1, m) \in Seq(EntryType) /\ Len(SubSeq(c, 1, m)) = m
        /\ \A i \in 1..m : SubSeq(c, 1, m)[i] = c[i]
    BY Halves DEF Pre
  <2>3. \A i \in 1..m : d[i] = c[i]
    BY <1>2, <1>4, <1>5
  <2> QED BY <2>1, <2>2, <2>3, SeqEqual
<1> QED BY <1>2, <1>3, <1>4, <1>7, <1>8 DEF d

-----------------------------------------------------------------------------
(* The operations of the abstract cache, on caches with one entry per key. *)
Distinct(c) == \A i, j \in 1..Len(c) : c[i].key = c[j].key => i = j

LEMMA PlaceIs ==
  ASSUME NEW c \in Seq(EntryType), Distinct(c), NEW i \in 1..Len(c)
  PROVE  Pure!Has(c, c[i].key) /\ Pure!Place(c, c[i].key) = i
BY DEF Distinct, Pure!Has, Pure!Place

LEMMA ClosedSeq ==
  ASSUME NEW A, NEW c \in Seq(A), NEW i \in 1..Len(c)
  PROVE  /\ Closed(c, i, Len(c)) \in Seq(A)
         /\ Len(Closed(c, i, Len(c))) = Len(c) - 1
         /\ \A j \in 1..(Len(c) - 1) :
              Closed(c, i, Len(c))[j] = IF j < i THEN c[j] ELSE c[j + 1]
<1>1. Len(c) \in Nat /\ Len(c) - 1 \in Nat /\ \A j \in 1..Len(c) : c[j] \in A
  BY LenProperties
<1>2. Closed(c, i, Len(c)) \in [1..(Len(c) - 1) -> A]
  BY <1>1 DEF Closed
<1> QED BY <1>1, <1>2, IsSequence DEF Closed

LEMMA PrependedSeq ==
  ASSUME NEW A, NEW c \in Seq(A), NEW e \in A
  PROVE  /\ <<e>> \o c = Prepended(c, e, Len(c))
         /\ Prepended(c, e, Len(c)) \in Seq(A)
         /\ Len(Prepended(c, e, Len(c))) = Len(c) + 1
<1>1. Len(c) \in Nat /\ Len(c) + 1 \in Nat /\ \A j \in 1..Len(c) : c[j] \in A
  BY LenProperties
<1>2. Prepended(c, e, Len(c)) \in [1..(Len(c) + 1) -> A]
  BY <1>1 DEF Prepended
<1>3. /\ Prepended(c, e, Len(c)) \in Seq(A)
      /\ Len(Prepended(c, e, Len(c))) = Len(c) + 1
  BY <1>1, <1>2, IsSequence
<1>4. <<e>> \in Seq(A) /\ Len(<<e>>) = 1 /\ <<e>>[1] = e
  OBVIOUS
<1>5. /\ <<e>> \o c \in Seq(A) /\ Len(<<e>> \o c) = Len(c) + 1
      /\ \A j \in 1..(Len(c) + 1) : (<<e>> \o c)[j] = IF j <= 1 THEN <<e>>[j] ELSE c[j - 1]
  BY <1>1, <1>4, ConcatProperties
<1>6. \A j \in 1..(Len(c) + 1) : (<<e>> \o c)[j] = Prepended(c, e, Len(c))[j]
  BY <1>1, <1>4, <1>5 DEF Prepended
<1> QED BY <1>3, <1>5, <1>6, SeqEqual

LEMMA WithoutIs ==
  ASSUME NEW c \in Seq(EntryType), Distinct(c), NEW i \in 1..Len(c)
  PROVE  Pure!Without(c, c[i].key) = Closed(c, i, Len(c))
<1>1. Len(c) \in Nat /\ i - 1 \in 0..Len(c) /\ i \in 0..Len(c)
  BY LenProperties
<1>2. Pure!Without(c, c[i].key) = Pre(c, i - 1) \o Post(c, i)
  BY PlaceIs DEF Pure!Without, Pure!RemoveAt, Pre, Post
<1>3. /\ Pre(c, i - 1) \in Seq(EntryType) /\ Len(Pre(c, i - 1)) = i - 1
      /\ \A j \in 1..(i - 1) : Pre(c, i - 1)[j] = c[j]
      /\ Post(c, i) \in Seq(EntryType) /\ Len(Post(c, i)) = Len(c) - i
      /\ \A j \in 1..(Len(c) - i) : Post(c, i)[j] = c[i + j]
  <2> DEFINE p == i - 1
  <2>1. Pre(c, p) \in Seq(EntryType) /\ Len(Pre(c, p)) = p /\ \A j \in 1..p : Pre(c, p)[j] = c[j]
    <3>1. p \in 0..Len(c)
      BY <1>1
    <3> HIDE DEF p
    <3> QED BY <3>1, Halves
  <2> QED BY <1>1, <2>1, LastPart
<1> DEFINE x == Pre(c, i - 1)
           y == Post(c, i)
<1>4. /\ x \o y \in Seq(EntryType) /\ Len(x \o y) = Len(x) + Len(y)
      /\ \A j \in 1..(Len(x) + Len(y)) :
           (x \o y)[j] = IF j <= Len(x) THEN x[j] ELSE y[j - Len(x)]
  <2>1. x \in Seq(EntryType) /\ y \in Seq(EntryType)
    BY <1>3
  <2> HIDE DEF x, y
  <2> QED BY <2>1, ConcatProperties
<1>5. ASSUME NEW j \in 1..(Len(c) - 1) PROVE (x \o y)[j] = IF j < i THEN c[j] ELSE c[j + 1]
  <2> HIDE DEF x, y
  <2>1. CASE j < i
    <3>1. j \in 1..(i - 1)
      BY <1>1, <2>1
    <3>2. (x \o y)[j] = x[j]
      <4>1. Len(x) = i - 1 /\ Len(y) = Len(c) - i
        BY <1>3 DEF x, y
      <4>2. j \in 1..(Len(x) + Len(y)) /\ j <= Len(x)
        BY <1>1, <2>1, <4>1
      <4> QED BY <1>4, <4>2
    <3>3. x[j] = c[j]
      BY <1>3, <3>1 DEF x
    <3> QED BY <2>1, <3>2, <3>3
  <2>2. CASE j >= i
    <3>1. j - (i - 1) \in 1..(Len(c) - i) /\ i + (j - (i - 1)) = j + 1
      BY <1>1, <2>2
    <3>2. (x \o y)[j] = y[j - (i - 1)]
      <4>1. Len(x) = i - 1 /\ Len(y) = Len(c) - i
        BY <1>3 DEF x, y
      <4>2. j \in 1..(Len(x) + Len(y)) /\ ~(j <= Len(x))
        BY <1>1, <2>2, <4>1
      <4> QED BY <1>4, <4>1, <4>2
    <3> QED BY <1>1, <1>3, <2>2, <3>1, <3>2 DEF y
  <2>3. j < i \/ j >= i
    BY <1>1
  <2> QED BY <2>1, <2>2, <2>3
<1>6. Len(x \o y) = Len(c) - 1
  <2> HIDE DEF x, y
  <2>1. Len(x) = i - 1 /\ Len(y) = Len(c) - i
    BY <1>3 DEF x, y
  <2>2. Len(x \o y) = Len(x) + Len(y)
    BY <1>4
  <2>3. i \in Int /\ Len(c) \in Int
    BY <1>1
  <2> QED BY <2>1, <2>2, <2>3
<1>7. /\ Closed(c, i, Len(c)) \in Seq(EntryType)
      /\ Len(Closed(c, i, Len(c))) = Len(c) - 1
      /\ \A j \in 1..(Len(c) - 1) :
           Closed(c, i, Len(c))[j] = IF j < i THEN c[j] ELSE c[j + 1]
  BY ClosedSeq
<1> HIDE DEF x, y
<1>8. x \o y = Closed(c, i, Len(c))
  BY <1>4, <1>5, <1>6, <1>7, SeqEqual
<1> QED BY <1>2, <1>8 DEF x, y

LEMMA TouchIs ==
  ASSUME NEW c \in Seq(EntryType), Distinct(c), NEW i \in 1..Len(c)
  PROVE  Pure!Touch(c, c[i].key) = Forward(c, i, Len(c))
<1> DEFINE d == Closed(c, i, Len(c))
           n == Len(c)
<1>1. n \in Nat /\ n - 1 \in Nat /\ (n - 1) + 1 = n /\ c[i] \in EntryType
  BY LenProperties
<1>2. Pure!Touch(c, c[i].key) = <<c[i]>> \o d
  BY PlaceIs, WithoutIs DEF Pure!Touch, Pure!EntryOf
<1>3. d \in Seq(EntryType) /\ Len(d) = n - 1
  BY ClosedSeq
<1>4. <<c[i]>> \o d = Prepended(d, c[i], n - 1)
  BY <1>1, <1>3, PrependedSeq
<1>5. Prepended(d, c[i], n - 1) = [j \in 1..n |-> IF j = 1 THEN c[i] ELSE d[j - 1]]
  BY <1>1 DEF Prepended
<1>6. ASSUME NEW j \in 1..n
      PROVE  (IF j = 1 THEN c[i] ELSE d[j - 1]) =
             IF j = 1 THEN c[i] ELSE IF j <= i THEN c[j - 1] ELSE c[j]
  <2>1. CASE j = 1
    BY <2>1
  <2>2. CASE j # 1
    <3>1. j - 1 \in 1..(n - 1) /\ (j - 1) + 1 = j
      BY <1>1, <2>2
    <3>2. d[j - 1] = IF j - 1 < i THEN c[j - 1] ELSE c[j]
      BY <3>1, ClosedSeq
    <3> QED BY <1>1, <2>2, <3>2
  <2> QED BY <2>1, <2>2
<1>7. Forward(c, i, n) = [j \in 1..n |-> IF j = 1 THEN c[i] ELSE d[j - 1]]
  <2> HIDE DEF d
  <2> QED BY <1>6 DEF Forward
<1> QED BY <1>2, <1>4, <1>5, <1>7

-----------------------------------------------------------------------------
(* The entries of the list, read along any walk through it.                *)
IsOrder(f) == f = [i \in 1..Count |-> IF i = 1 THEN head ELSE next[f[i - 1]]]

LEMMA OrderUnique ==
  ASSUME Count \in Nat, NEW f, IsOrder(f), NEW s, IsOrder(s)
  PROVE  f = s
<1> DEFINE S == {i \in Nat : i \in 1..Count => f[i] = s[i]}
<1>1. \A i \in 1..Count : /\ f[i] = IF i = 1 THEN head ELSE next[f[i - 1]]
                          /\ s[i] = IF i = 1 THEN head ELSE next[s[i - 1]]
  BY DEF IsOrder
<1>2. 0 \in S
  OBVIOUS
<1>3. ASSUME NEW i \in Nat, i \in S PROVE i + 1 \in S
  <2>1. SUFFICES ASSUME i + 1 \in 1..Count PROVE f[i + 1] = s[i + 1]
    OBVIOUS
  <2>2. CASE i = 0
    BY <1>1, <2>1, <2>2
  <2>3. CASE i # 0
    <3>1. i \in 1..Count /\ (i + 1) - 1 = i /\ i + 1 # 1
      BY <2>1, <2>3
    <3> QED BY <1>1, <1>3, <2>1, <3>1
  <2> QED BY <2>2, <2>3
<1>4. Nat \subseteq S
  <2> HIDE DEF S
  <2> QED BY <1>2, <1>3, Induction
<1>5. \A i \in 1..Count : f[i] = s[i]
  BY <1>4
<1>6. f = [i \in 1..Count |-> f[i]] /\ s = [i \in 1..Count |-> s[i]]
  BY DEF IsOrder
<1> QED BY <1>5, <1>6

CountIsNat == Count \in Nat

LEMMA CountTyped == TypeOK => CountIsNat
BY CountType DEF TypeOK, CountIsNat

LEMMA CountTypedNext == TypeOK' => CountIsNat'
BY CountTyped, PTL

EntriesRead ==
  \A s, c : Listed(s, c) =>
    Entries = [i \in 1..Count |-> [key |-> key[s[i]], value |-> value[s[i]]]]

LEMMA EntriesAre == TypeOK => EntriesRead
<1> SUFFICES ASSUME TypeOK, NEW s, NEW c, Listed(s, c)
             PROVE  Entries = [i \in 1..Count |-> [key |-> key[s[i]], value |-> value[s[i]]]]
  BY DEF EntriesRead
<1>1. Count \in Nat
  BY CountType DEF TypeOK
<1>2. IsOrder(s)
  <2>1. s = [i \in 1..Count |-> s[i]]
    BY DEF Listed
  <2>2. ASSUME NEW i \in 1..Count PROVE s[i] = IF i = 1 THEN head ELSE next[s[i - 1]]
    <3>1. CASE i = 1
      BY <1>1, <3>1 DEF Listed, Walk
    <3>2. CASE i # 1
      <4>1. i - 1 \in 1..Count /\ i - 1 # Count /\ (i - 1) + 1 = i
        BY <1>1, <3>2
      <4>2. next[s[i - 1]] = IF i - 1 = Count THEN Null ELSE s[(i - 1) + 1]
        BY <4>1 DEF Listed, Walk
      <4> QED BY <3>2, <4>1, <4>2
    <3> QED BY <3>1, <3>2
  <2> QED BY <2>1, <2>2 DEF IsOrder
<1> DEFINE f == CHOOSE node : IsOrder(node)
<1>3. IsOrder(f)
  BY <1>2
<1>4. f = s
  <2> HIDE DEF f
  <2> QED BY <1>1, <1>2, <1>3, OrderUnique
<1>5. Entries = [i \in 1..Count |-> [key |-> key[f[i]], value |-> value[f[i]]]]
  BY DEF Entries, IsOrder
<1> HIDE DEF f
<1> QED BY <1>4, <1>5

LEMMA EntriesAreNext == TypeOK' => EntriesRead'
BY EntriesAre, PTL

(* Calls is where a call is made or in progress: the list is whole.        *)
Calls == pc \notin {"destroy", "destroyed"}

(* The entries form a cache with one entry per key, as large as the space  *)
(* that is not free.                                                       *)
LEMMA EntriesFacts ==
  ASSUME IInv, Calls, NEW s, NEW c, Listed(s, c)
  PROVE  /\ Entries \in Seq(EntryType) /\ Len(Entries) = Count /\ Distinct(Entries)
         /\ \A i \in 1..Count : Entries[i] = [key |-> key[s[i]], value |-> value[s[i]]]
         /\ Sizes(Entries, c)
         /\ Pure!TotalSize(Entries) = MaxSize - free
<1>1. TypeOK /\ NodesFilled /\ live \in SUBSET Addr
  BY DEF IInv, TypeOK
<1>2. /\ Count \in Nat
      /\ \A i \in 1..Count : s[i] \in live /\ s[i] \in Addr /\ s[i] # Null
      /\ \A i, j \in 1..Count : s[i] = s[j] => i = j
      /\ c[0] = 0 /\ c[Count] + free = MaxSize
      /\ \A i \in 0..Count : c[i] \in 0..MaxSize
      /\ \A i \in 1..Count : c[i] = c[i - 1] + NodeSize(s[i])
  BY <1>1, ListedFacts
<1>3. Entries = [i \in 1..Count |-> [key |-> key[s[i]], value |-> value[s[i]]]]
  BY <1>1, EntriesAre DEF EntriesRead
<1>4. \A i \in 1..Count : key[s[i]] \in Key /\ value[s[i]] \in Value /\ index[key[s[i]]] = s[i]
  BY <1>1, <1>2 DEF NodesFilled, IInv, IndexMatchesList, Calls
<1>5. Entries \in [1..Count -> EntryType]
  BY <1>3, <1>4 DEF EntryType
<1>6. Entries \in Seq(EntryType) /\ Len(Entries) = Count
  BY <1>2, <1>5, IsSequence
<1>7. \A i \in 1..Count : Entries[i] = [key |-> key[s[i]], value |-> value[s[i]]]
  BY <1>3
<1>k. ASSUME NEW i \in 1..Count
      PROVE  Entries[i].key = key[s[i]] /\ Entries[i].value = value[s[i]]
  <2>1. Entries[i] = [key |-> key[s[i]], value |-> value[s[i]]]
    BY <1>7
  <2> QED BY <2>1
<1>8. Distinct(Entries)
  <2> SUFFICES ASSUME NEW i \in 1..Count, NEW j \in 1..Count, Entries[i].key = Entries[j].key
               PROVE  i = j
    BY <1>6 DEF Distinct
  <2>1. key[s[i]] = key[s[j]]
    BY <1>k
  <2>2. s[i] = s[j]
    BY <1>4, <2>1
  <2> QED BY <1>2, <2>2
<1>9. \A i \in 1..Count : Pure!EntrySize(Entries[i]) = NodeSize(s[i])
  BY <1>k DEF Pure!EntrySize, NodeSize, PairSize
<1>10. Sizes(Entries, c)
  BY <1>2, <1>6, <1>9 DEF Sizes
<1>11. Pure!TotalSize(Entries) = c[Count]
  BY <1>6, <1>10, SizesTyped
<1>12. c[Count] = MaxSize - free
  <2>1. free \in Int /\ c[Count] \in Int
    BY <1>1, <1>2 DEF TypeOK
  <2> QED BY <1>2, <2>1
<1> QED BY <1>6, <1>7, <1>8, <1>10, <1>11, <1>12

(* The cache has k as its i-th entry.                                      *)
FoundAt(k, i) ==
  /\ Entries[i] = [key |-> k, value |-> value[index[k]]] /\ Entries[i].key = k
  /\ Pure!Has(Entries, k) /\ Pure!EntryOf(Entries, k).value = value[index[k]]
  /\ Pure!Touch(Entries, k) = Forward(Entries, i, Count)
  /\ Pure!Without(Entries, k) = Closed(Entries, i, Count)

(* The index finds what the cache has.                                     *)
LEMMA FoundEntry ==
  ASSUME IInv, Calls, NEW k \in Key, index[k] # Null, NEW s, NEW c, Listed(s, c),
         NEW i \in 1..Count, s[i] = index[k]
  PROVE  FoundAt(k, i)
<1>1. key[index[k]] = k
  BY DEF IInv, IndexMatchesList, Calls
<1>2. /\ Entries \in Seq(EntryType) /\ Len(Entries) = Count /\ Distinct(Entries)
      /\ Entries[i] = [key |-> key[s[i]], value |-> value[s[i]]]
  BY EntriesFacts
<1>3. Entries[i].key = k /\ Entries[i].value = value[index[k]]
  BY <1>1, <1>2
<1>4. Pure!Has(Entries, k) /\ Pure!Place(Entries, k) = i
  BY <1>2, <1>3, PlaceIs
<1>5. Pure!EntryOf(Entries, k) = Entries[i]
  BY <1>4 DEF Pure!EntryOf
<1>6. Pure!Touch(Entries, k) = Forward(Entries, i, Count)
  BY <1>2, <1>3, TouchIs
<1>7. Pure!Without(Entries, k) = Closed(Entries, i, Count)
  BY <1>2, <1>3, WithoutIs
<1> QED BY <1>1, <1>2, <1>3, <1>4, <1>5, <1>6, <1>7 DEF FoundAt

LEMMA AbsentEntry ==
  ASSUME IInv, Calls, NEW k \in Key, index[k] = Null
  PROVE  /\ ~Pure!Has(Entries, k) /\ Pure!Without(Entries, k) = Entries
         /\ Pure!Touch(Entries, k) = Entries
<1>1. PICK s, c : Listed(s, c)
  BY ListedExists DEF Calls
<1>2. /\ Len(Entries) = Count
      /\ \A i \in 1..Count : Entries[i] = [key |-> key[s[i]], value |-> value[s[i]]]
  BY <1>1, EntriesFacts
<1>3. \A i \in 1..Count : index[key[s[i]]] = s[i] /\ s[i] # Null
  <2>1. \A i \in 1..Count : s[i] \in live
    BY <1>1 DEF Listed
  <2>2. \A a \in live : index[key[a]] = a /\ a # Null
    BY DEF IInv, IndexMatchesList, Calls, TypeOK
  <2> QED BY <2>1, <2>2
<1>4. ~Pure!Has(Entries, k)
  BY <1>2, <1>3 DEF Pure!Has
<1> QED BY <1>4 DEF Pure!Without, Pure!Touch

-----------------------------------------------------------------------------
(* What the helpers of the code do to the entries.                         *)
LEMMA EntriesUnchanged ==
  ASSUME UNCHANGED store
  PROVE  Entries' = Entries
BY DEF store, list, nodes, Entries, Count

LEMMA MoveEntries ==
  ASSUME IInv, TypeOK', Calls, NEW k \in Key, index[k] # Null,
         MoveToHead(k), UNCHANGED <<nodes, free>>
  PROVE  /\ Entries' = Pure!Touch(Entries, k)
         /\ Pure!Has(Entries, k) /\ Pure!EntryOf(Entries, k).value = value[index[k]]
         /\ Pure!Without(Entries', k) = Pure!Without(Entries, k)
<1>1. PICK s, c : Listed(s, c)
  BY ListedExists DEF Calls
<1>2. /\ index[k] \in live /\ key[index[k]] = k
      /\ \A a \in live : index[key[a]] = a
  BY DEF IInv, IndexMatchesList, Calls
<1>3. PICK s2, c2, i :
        /\ Listed(s2, c2)' /\ i \in 1..Count /\ s[i] = index[k]
        /\ s2 = Forward(s, i, Count)
  <2>1. TypeOK /\ NodesFilled
    BY DEF IInv
  <2> QED BY <1>1, <1>2, <2>1, MoveToHeadListed
<1>4. Count' = Count /\ key' = key /\ value' = value
  BY DEF nodes, Count
<1>5. Entries' = [j \in 1..Count |-> [key |-> key[s2[j]], value |-> value[s2[j]]]]
  BY <1>3, <1>4, EntriesAreNext DEF EntriesRead
<1> DEFINE n == Count
           e == Entries
<1>6. /\ e \in Seq(EntryType) /\ Len(e) = n /\ Distinct(e) /\ n \in Nat
      /\ \A j \in 1..n : e[j] = [key |-> key[s[j]], value |-> value[s[j]]]
  BY <1>1, EntriesFacts, LenProperties
<1>7. /\ e[i].key = k /\ Pure!Has(e, k) /\ Pure!EntryOf(e, k).value = value[index[k]]
      /\ Pure!Touch(e, k) = Forward(e, i, n)
      /\ Pure!Without(e, k) = Closed(e, i, n)
  <2>1. i \in 1..Count /\ s[i] = index[k]
    BY <1>3
  <2> HIDE DEF e, n
  <2>2. FoundAt(k, i)
    BY <1>1, <2>1, FoundEntry
  <2> QED BY <2>2 DEF e, n, FoundAt
<1>8. ASSUME NEW j \in 1..n
      PROVE  [key |-> key[s2[j]], value |-> value[s2[j]]] =
             IF j = 1 THEN e[i] ELSE IF j <= i THEN e[j - 1] ELSE e[j]
  <2>1. s2[j] = IF j = 1 THEN s[i] ELSE IF j <= i THEN s[j - 1] ELSE s[j]
    BY <1>3 DEF Forward
  <2>2. CASE j = 1
    BY <1>3, <1>6, <2>1, <2>2
  <2>3. CASE j # 1 /\ j <= i
    <3>1. j - 1 \in 1..n
      BY <1>3, <1>6, <2>3
    <3> QED BY <1>6, <2>1, <2>3, <3>1
  <2>4. CASE j # 1 /\ ~(j <= i)
    BY <1>6, <2>1, <2>4
  <2> QED BY <2>2, <2>3, <2>4
<1> HIDE DEF e
<1>9. Entries' = Forward(e, i, n)
  BY <1>5, <1>8 DEF Forward
<1>10. Pure!Without(Entries', k) = Closed(e, i, n)
  <2> DEFINE f == Forward(e, i, n)
  <2>1. \A j \in 1..n : e[j] \in EntryType
    BY <1>6, LenProperties
  <2>2. /\ f \in [1..n -> EntryType] /\ 1 \in 1..n
        /\ \A j \in 1..n : f[j] = IF j = 1 THEN e[i] ELSE IF j <= i THEN e[j - 1] ELSE e[j]
    <3>1. ASSUME NEW j \in 1..n
          PROVE  (IF j = 1 THEN e[i] ELSE IF j <= i THEN e[j - 1] ELSE e[j]) \in EntryType
      BY <1>3, <1>6, <2>1
    <3> QED BY <3>1, <1>3, <1>6 DEF Forward
  <2> HIDE DEF f
  <2>3. f \in Seq(EntryType) /\ Len(f) = n
    BY <1>6, <2>2, IsSequence
  <2>4. Distinct(f)
    <3> DEFINE q(j) == IF j = 1 THEN i ELSE IF j <= i THEN j - 1 ELSE j
    <3>1. \A j \in 1..n : q(j) \in 1..n /\ f[j] = e[q(j)]
      BY <1>3, <1>6, <2>2
    <3>2. \A j, l \in 1..n : q(j) = q(l) => j = l
      BY <1>3, <1>6
    <3>3. \A j, l \in 1..n : e[j].key = e[l].key => j = l
      BY <1>6 DEF Distinct
    <3> HIDE DEF q
    <3>4. \A j, l \in 1..n : f[j].key = f[l].key => j = l
      BY <3>1, <3>2, <3>3
    <3> QED BY <2>3, <3>4 DEF Distinct
  <2>5. f[1].key = k
    BY <1>7, <2>2
  <2>6. Pure!Without(f, k) = Closed(f, 1, n)
    BY <2>2, <2>3, <2>4, <2>5, WithoutIs
  <2>7. ASSUME NEW j \in 1..(n - 1)
        PROVE  (IF j < 1 THEN f[j] ELSE f[j + 1]) = IF j < i THEN e[j] ELSE e[j + 1]
    <3>1. j + 1 \in 1..n /\ (j + 1) - 1 = j /\ j + 1 # 1 /\ ~(j < 1)
      BY <1>6
    <3>2. f[j + 1] = IF j + 1 <= i THEN e[j] ELSE e[j + 1]
      BY <2>2, <3>1
    <3>3. j + 1 <= i <=> j < i
      BY <1>3, <1>6
    <3> QED BY <3>1, <3>2, <3>3
  <2>8. Closed(f, 1, n) = Closed(e, i, n)
    BY <2>7 DEF Closed
  <2> QED BY <1>9, <2>6, <2>8 DEF f
<1> QED BY <1>7, <1>9, <1>10 DEF e

LEMMA DeleteEntries ==
  ASSUME IInv, TypeOK', Calls, NEW k \in Key, index[k] # Null, DeleteNode(k),
         NEW s, NEW c, Listed(s, c)
  PROVE  /\ Pure!Has(Entries, k) /\ Entries' = Pure!Without(Entries, k)
         /\ \E i \in 1..Count : s[i] = index[k] /\ Entries' = Closed(Entries, i, Count)
<1>2. index[k] \in live /\ key[index[k]] = k
  BY DEF IInv, IndexMatchesList, Calls
<1>3. PICK s2, c2, i :
        /\ Listed(s2, c2)' /\ i \in 1..Count /\ s[i] = index[k]
        /\ s2 = Closed(s, i, Count)
  <2>1. TypeOK /\ NodesFilled
    BY DEF IInv
  <2> QED BY <1>2, <2>1, DeleteNodeListed
<1> DEFINE n == Count
           e == Entries
<1>6. /\ e \in Seq(EntryType) /\ Len(e) = n /\ Distinct(e) /\ n \in Nat
      /\ \A j \in 1..n : e[j] = [key |-> key[s[j]], value |-> value[s[j]]]
  BY EntriesFacts, LenProperties
<1>4. Count' = n - 1
  <2>1. DOMAIN s2 = 1..Count' /\ DOMAIN s2 = 1..(n - 1)
    BY <1>3 DEF Listed, Closed
  <2>2. Count' \in Nat
    BY CountTypedNext DEF CountIsNat
  <2> QED BY <1>3, <1>6, <2>1, <2>2
<1>5. Entries' = [j \in 1..(n - 1) |-> [key |-> key'[s2[j]], value |-> value'[s2[j]]]]
  BY <1>3, <1>4, EntriesAreNext DEF EntriesRead
<1>7. Pure!Has(e, k) /\ Pure!Without(e, k) = Closed(e, i, n)
  <2>1. i \in 1..Count /\ s[i] = index[k]
    BY <1>3
  <2> HIDE DEF e, n
  <2>2. FoundAt(k, i)
    BY <2>1, FoundEntry
  <2> QED BY <2>2 DEF e, n, FoundAt
<1>8. ASSUME NEW j \in 1..(n - 1)
      PROVE  [key |-> key'[s2[j]], value |-> value'[s2[j]]] = IF j < i THEN e[j] ELSE e[j + 1]
  <2>1. s2[j] = IF j < i THEN s[j] ELSE s[j + 1]
    BY <1>3 DEF Closed
  <2>2. /\ j \in 1..n /\ j + 1 \in 1..n /\ (j < i => j # i) /\ (~(j < i) => j + 1 # i)
    BY <1>3, <1>6
  <2>3. /\ \A l, m \in 1..n : s[l] = s[m] => l = m
        /\ \A l \in 1..n : s[l] \in Addr
    <3>1. TypeOK /\ NodesFilled
      BY DEF IInv
    <3> QED BY <3>1, ListedFacts DEF TypeOK
  <2>4. \A a \in Addr : a # index[k] => key'[a] = key[a] /\ value'[a] = value[a]
    BY DEF DeleteNode, IInv, TypeOK
  <2>5. CASE j < i
    <3>1. s2[j] = s[j] /\ s[j] \in Addr /\ s[j] # index[k]
      BY <1>3, <2>1, <2>2, <2>3, <2>5
    <3>2. key'[s[j]] = key[s[j]] /\ value'[s[j]] = value[s[j]]
      BY <2>4, <3>1
    <3>3. e[j] = [key |-> key[s[j]], value |-> value[s[j]]]
      BY <1>6, <2>2
    <3> HIDE DEF e
    <3> QED BY <2>5, <3>1, <3>2, <3>3
  <2>6. CASE ~(j < i)
    <3>1. s2[j] = s[j + 1] /\ s[j + 1] \in Addr /\ s[j + 1] # index[k]
      BY <1>3, <2>1, <2>2, <2>3, <2>6
    <3>2. key'[s[j + 1]] = key[s[j + 1]] /\ value'[s[j + 1]] = value[s[j + 1]]
      BY <2>4, <3>1
    <3>3. e[j + 1] = [key |-> key[s[j + 1]], value |-> value[s[j + 1]]]
      BY <1>6, <2>2
    <3> HIDE DEF e
    <3> QED BY <2>6, <3>1, <3>2, <3>3
  <2> QED BY <2>5, <2>6
<1> HIDE DEF e
<1>9. Entries' = Closed(e, i, n)
  BY <1>5, <1>8 DEF Closed
<1> QED BY <1>3, <1>7, <1>9 DEF e

(* Without its first entry a cache is smaller by the size of that entry.   *)
LEMMA WithoutFirst ==
  ASSUME NEW c \in Seq(EntryType), Len(c) # 0
  PROVE  Pure!TotalSize(Closed(c, 1, Len(c))) = Pure!TotalSize(c) - Pure!EntrySize(c[1])
<1> DEFINE n == Len(c)
           d == Closed(c, 1, n)
<1>1. n \in Nat /\ 1 \in 1..n /\ n - 1 \in Nat
  BY LenProperties
<1>2. PICK g : Sizes(c, g)
  BY SizesExist
<1>3. /\ \A i \in 0..n : g[i] \in Nat
      /\ Pure!TotalSize(c) = g[n]
  BY <1>2, SizesTyped
<1>4. g[1] = Pure!EntrySize(c[1])
  <2>1. g[0] = 0 /\ g[1] = g[1 - 1] + Pure!EntrySize(c[1])
    BY <1>1, <1>2 DEF Sizes
  <2>2. Pure!EntrySize(c[1]) \in Nat
    BY <1>1, LenProperties, EntrySizeType
  <2> QED BY <2>1, <2>2
<1>5. /\ d \in Seq(EntryType) /\ Len(d) = n - 1
      /\ \A j \in 1..(n - 1) : d[j] = c[j + 1]
  <2>1. /\ d \in Seq(EntryType) /\ Len(d) = n - 1
        /\ \A j \in 1..(n - 1) : d[j] = IF j < 1 THEN c[j] ELSE c[j + 1]
    BY <1>1, ClosedSeq
  <2> QED BY <1>1, <2>1
<1> DEFINE h == [j \in 0..(n - 1) |-> g[j + 1] - g[1]]
<1> HIDE DEF d
<1>6. Sizes(d, h)
  <2>1. h[0] = 0
    BY <1>1, <1>3
  <2>2. ASSUME NEW j \in 1..(n - 1) PROVE h[j] = h[j - 1] + Pure!EntrySize(d[j])
    <3>1. /\ j \in 0..(n - 1) /\ j - 1 \in 0..(n - 1) /\ (j - 1) + 1 = j
          /\ j + 1 \in 1..n /\ (j + 1) - 1 = j
      BY <1>1
    <3>2. h[j] = g[j + 1] - g[1] /\ h[j - 1] = g[j] - g[1]
      BY <3>1
    <3>3. g[j + 1] = g[j] + Pure!EntrySize(c[j + 1])
      BY <1>2, <3>1 DEF Sizes
    <3>4. g[j] \in Nat /\ g[1] \in Nat /\ Pure!EntrySize(c[j + 1]) \in Nat
      <4>1. j \in 0..n /\ 1 \in 0..n /\ c[j + 1] \in EntryType
        BY <1>1, <3>1, LenProperties
      <4> QED BY <1>3, <4>1, EntrySizeType
    <3> HIDE DEF h
    <3> QED BY <1>5, <3>2, <3>3, <3>4
  <2> HIDE DEF h
  <2> QED BY <1>5, <2>1, <2>2 DEF Sizes
<1>7. Pure!TotalSize(d) = h[n - 1]
  <2> HIDE DEF h
  <2> QED BY <1>5, <1>6, SizesTyped
<1>8. h[n - 1] = g[n] - g[1]
  BY <1>1
<1> QED BY <1>3, <1>4, <1>7, <1>8 DEF d

(* What a call in progress leaves untouched, once it has made room: the    *)
(* entries under other keys.                                               *)
Rest == Pure!Without(Entries, call.key)
Room == MaxSize - PairSize(call.key, call.value)

(* While a call evicts, the space it still needs is what Rest takes too    *)
(* much.                                                                   *)
CallRest ==
  InCall /\ need >= 0 =>
    /\ Len(Entries) = Count /\ Entries \in Seq(EntryType)
    /\ call.key \in Key /\ call.value \in Value
    /\ Room \in Nat /\ ~Pure!TooLarge(call.key, call.value)
    /\ Rest \in Seq(EntryType)
    /\ pc = "insert" => Rest = Entries
    /\ pc = "update" => Count # 0 /\ Rest = Closed(Entries, 1, Count)
    /\ Pure!TotalSize(Rest) = (Room + need) - free

LEMMA CallRestHolds == IInv => CallRest
<1> SUFFICES ASSUME IInv, InCall, need >= 0
             PROVE  /\ Len(Entries) = Count /\ Entries \in Seq(EntryType)
                    /\ call.key \in Key /\ call.value \in Value
                    /\ Room \in Nat /\ ~Pure!TooLarge(call.key, call.value)
                    /\ Rest \in Seq(EntryType)
                    /\ pc = "insert" => Rest = Entries
                    /\ pc = "update" => Count # 0 /\ Rest = Closed(Entries, 1, Count)
                    /\ Pure!TotalSize(Rest) = (Room + need) - free
  BY DEF CallRest
<1>1. Calls
  BY DEF InCall, Calls
<1>2. /\ call.key \in Key /\ call.value \in Value /\ ~TooLarge(call.key, call.value)
      /\ pc = "insert" =>
           index[call.key] = Null /\ need = PairSize(call.key, call.value)
      /\ pc = "update" =>
           /\ it \in live /\ it = head /\ key[it] = call.key
           /\ need = PairSize(call.key, call.value) - NodeSize(it)
  BY DEF IInv, CallInProgress, InCall
<1>3. PairSize(call.key, call.value) \in Nat /\ MaxSize \in Nat /\ free \in Nat
  BY <1>2 DEF PairSize, IInv, TypeOK
<1>4. Room \in Nat /\ ~Pure!TooLarge(call.key, call.value)
  BY <1>2, <1>3 DEF Room, TooLarge, Pure!TooLarge, PairSize
<1>5. PICK s, c : Listed(s, c)
  BY <1>1, ListedExists DEF Calls
<1>6. /\ Entries \in Seq(EntryType) /\ Len(Entries) = Count /\ Distinct(Entries)
      /\ \A i \in 1..Count : Entries[i] = [key |-> key[s[i]], value |-> value[s[i]]]
      /\ Pure!TotalSize(Entries) = MaxSize - free
  BY <1>1, <1>5, EntriesFacts
<1>7. CASE pc = "insert"
  <2>1. Rest = Entries
    BY <1>1, <1>2, <1>7, AbsentEntry DEF Rest
  <2>2. Room + need = MaxSize
    BY <1>2, <1>3, <1>7 DEF Room
  <2> QED BY <1>2, <1>4, <1>6, <1>7, <2>1, <2>2
<1>8. CASE pc = "update"
  <2>1. Count \in Nat /\ Count # 0 /\ s[1] = it /\ 1 \in 1..Count
    <3>1. /\ Count \in Nat /\ (Count = 0 => head = Null) /\ (Count > 0 => head = s[1])
          /\ Null \notin live
      <4>1. live \in SUBSET Addr /\ NodesFilled
        BY DEF IInv, TypeOK
      <4> QED BY <1>5, <4>1, ListedFacts
    <3> QED BY <1>2, <1>8, <3>1
  <2>2. Entries[1].key = call.key /\ Pure!EntrySize(Entries[1]) = NodeSize(it)
    <3>1. Entries[1] = [key |-> key[it], value |-> value[it]]
      BY <1>6, <2>1
    <3> QED BY <1>2, <1>8, <3>1 DEF Pure!EntrySize, NodeSize, PairSize
  <2>3. Rest = Closed(Entries, 1, Count)
    BY <1>6, <2>1, <2>2, WithoutIs DEF Rest
  <2>4. Rest \in Seq(EntryType)
    BY <1>6, <2>1, <2>3, ClosedSeq
  <2>5. Pure!TotalSize(Rest) = (MaxSize - free) - NodeSize(it)
    BY <1>6, <2>1, <2>2, <2>3, WithoutFirst
  <2>6. NodeSize(it) \in Nat
    BY <1>2, <1>8, NodeSizeType DEF IInv
  <2>7. Room + need = MaxSize - NodeSize(it)
    BY <1>2, <1>3, <1>8, <2>6 DEF Room
  <2> QED BY <1>2, <1>3, <1>4, <1>6, <1>8, <2>1, <2>3, <2>4, <2>5, <2>6, <2>7
<1> QED BY <1>7, <1>8 DEF InCall

LEMMA CallRestNext == IInv' => CallRest'
BY CallRestHolds, PTL

(* So the entry at the tail is one that Store drops.                       *)
StoredByCall == Pure!Store(Entries, call.key, call.value)

StoreForm ==
  ~Pure!TooLarge(call.key, call.value) =>
    StoredByCall = <<Pure!Entry(call.key, call.value)>> \o Pure!Fit(Rest, Room)

LEMMA StoreIs == StoreForm
BY DEF StoreForm, StoredByCall, Pure!Store, Rest, Room, PairSize, Pure!Entry,
       Pure!EntrySize

LEMMA StoreIsNext == StoreForm'
BY StoreIs, PTL

(* Taking an entry from the end of a cache.                                *)
LEMMA ClosedLast ==
  ASSUME NEW c \in Seq(EntryType), Len(c) # 0
  PROVE  Closed(c, Len(c), Len(c)) = SubSeq(c, 1, Len(c) - 1)
<1> DEFINE n == Len(c)
           p == n - 1
<1>1. n \in Nat /\ n \in 1..n /\ p \in 0..n
  BY LenProperties
<1>2. /\ SubSeq(c, 1, p) \in Seq(EntryType) /\ Len(SubSeq(c, 1, p)) = p
      /\ \A j \in 1..p : SubSeq(c, 1, p)[j] = c[j]
  <2> HIDE DEF p
  <2> QED BY <1>1, Halves DEF Pre
<1>3. /\ Closed(c, n, n) \in Seq(EntryType) /\ Len(Closed(c, n, n)) = p
      /\ \A j \in 1..p : Closed(c, n, n)[j] = IF j < n THEN c[j] ELSE c[j + 1]
  BY <1>1, ClosedSeq
<1>4. \A j \in 1..p : Closed(c, n, n)[j] = c[j]
  BY <1>1, <1>3
<1> HIDE DEF p
<1>5. Closed(c, n, n) = SubSeq(c, 1, p)
  BY <1>2, <1>3, <1>4, SeqEqual
<1> QED BY <1>5 DEF p

LEMMA ClosedTwice ==
  ASSUME NEW c \in Seq(EntryType), Len(c) > 1
  PROVE  /\ Len(Closed(c, 1, Len(c))) = Len(c) - 1
         /\ Closed(SubSeq(c, 1, Len(c) - 1), 1, Len(c) - 1) =
              SubSeq(Closed(c, 1, Len(c)), 1, (Len(c) - 1) - 1)
<1> DEFINE n == Len(c)
           a == SubSeq(c, 1, n - 1)
           b == Closed(c, 1, n)
           m == n - 2
<1>1. n \in Nat /\ 1 \in 1..n /\ n - 1 \in 0..n /\ m \in Nat /\ (n - 1) - 1 = m /\ n - 1 # 0
  <2>1. n \in Nat /\ n > 1
    BY LenProperties
  <2> HIDE DEF n
  <2> QED BY <2>1
<1>2. /\ a \in Seq(EntryType) /\ Len(a) = n - 1
      /\ \A j \in 1..(n - 1) : a[j] = c[j]
  <2> DEFINE p == n - 1
  <2>1. p \in 0..n
    BY <1>1
  <2> HIDE DEF p
  <2>2. /\ SubSeq(c, 1, p) \in Seq(EntryType) /\ Len(SubSeq(c, 1, p)) = p
        /\ \A j \in 1..p : SubSeq(c, 1, p)[j] = c[j]
    BY <2>1, Halves DEF Pre
  <2> QED BY <2>2 DEF p
<1>3. /\ b \in Seq(EntryType) /\ Len(b) = n - 1
      /\ \A j \in 1..(n - 1) : b[j] = IF j < 1 THEN c[j] ELSE c[j + 1]
  BY <1>1, ClosedSeq
<1> HIDE DEF a, b
<1>4. /\ SubSeq(b, 1, m) \in Seq(EntryType) /\ Len(SubSeq(b, 1, m)) = m
      /\ \A j \in 1..m : SubSeq(b, 1, m)[j] = b[j]
  <2>1. m \in 0..Len(b)
    <3>1. Len(b) = n - 1
      BY <1>3
    <3>2. m \in 0..(n - 1)
      BY <1>1
    <3> QED BY <3>1, <3>2
  <2> HIDE DEF m
  <2> QED BY <1>3, <2>1, Halves DEF Pre
<1>5. /\ Closed(a, 1, n - 1) \in Seq(EntryType) /\ Len(Closed(a, 1, n - 1)) = m
      /\ \A j \in 1..m : Closed(a, 1, n - 1)[j] = IF j < 1 THEN a[j] ELSE a[j + 1]
  <2>1. 1 \in 1..Len(a) /\ a \in Seq(EntryType)
    BY <1>1, <1>2
  <2>2. Len(a) = n - 1 /\ Len(a) - 1 = m
    BY <1>1, <1>2
  <2> HIDE DEF n, m
  <2>3. /\ Closed(a, 1, Len(a)) \in Seq(EntryType) /\ Len(Closed(a, 1, Len(a))) = Len(a) - 1
        /\ \A j \in 1..(Len(a) - 1) :
             Closed(a, 1, Len(a))[j] = IF j < 1 THEN a[j] ELSE a[j + 1]
    BY <2>1, ClosedSeq
  <2>4. Closed(a, 1, Len(a)) = Closed(a, 1, n - 1)
    BY <2>2
  <2>5. /\ Closed(a, 1, n - 1) \in Seq(EntryType) /\ Len(Closed(a, 1, n - 1)) = m
        /\ \A j \in 1..m : Closed(a, 1, Len(a))[j] = IF j < 1 THEN a[j] ELSE a[j + 1]
    BY <2>2, <2>3, <2>4
  <2> QED BY <2>4, <2>5
<1>6. ASSUME NEW j \in 1..m PROVE Closed(a, 1, n - 1)[j] = SubSeq(b, 1, m)[j]
  <2>1. j \in 1..(n - 1) /\ j + 1 \in 1..(n - 1) /\ ~(j < 1)
    BY <1>1
  <2>2. Closed(a, 1, n - 1)[j] = a[j + 1]
    BY <1>5, <2>1
  <2>3. SubSeq(b, 1, m)[j] = c[j + 1]
    BY <1>3, <1>4, <2>1
  <2> QED BY <1>2, <2>1, <2>2, <2>3
<1>7. Closed(a, 1, n - 1) = SubSeq(b, 1, m)
  <2> HIDE DEF m
  <2> QED BY <1>4, <1>5, <1>6, SeqEqual
<1> QED BY <1>1, <1>3, <1>7 DEF a, b

(* A turn of the eviction loop does not change what the call will leave.   *)
LEMMA EvictEntries ==
  ASSUME IInv, IInv', EvictTail, need >= 0
  PROVE  StoredByCall' = StoredByCall
<1>1. /\ InCall /\ InCall' /\ need' = need /\ call' = call /\ pc' = pc /\ Calls
      /\ free < need /\ tail # Null /\ DeleteNode(key[tail])
  <2>1. need \in Int /\ ~(need < 0)
    BY DEF IInv, TypeOK
  <2>2. free < need
    BY <2>1 DEF EvictTail, Evicting, NoRoom, AsSizeT
  <2> QED BY <2>2 DEF EvictTail, Evicting, InCall, Calls
<1>2. PICK s, c : Listed(s, c)
  BY <1>1, ListedExists DEF Calls
<1> DEFINE n == Count
           e == Entries
           k == key[tail]
<1>3. n \in Nat /\ n # 0 /\ tail = s[n] /\ tail \in live
  <2>1. /\ Count \in Nat /\ (Count = 0 => tail = Null) /\ (Count > 0 => tail = s[Count])
        /\ \A i \in 1..Count : s[i] \in live
    <3>1. live \in SUBSET Addr /\ NodesFilled
      BY DEF IInv, TypeOK
    <3> QED BY <1>2, <3>1, ListedFacts
  <2> QED BY <1>1, <2>1
<1>4. k \in Key /\ index[k] = tail
  BY <1>1, <1>3 DEF IInv, NodesFilled, IndexMatchesList, Calls
<1>5. Entries' = Closed(e, n, n)
  <2>1. PICK i \in 1..Count : s[i] = index[k] /\ Entries' = Closed(Entries, i, Count)
    <3>1. TypeOK' /\ index[k] # Null
      BY <1>1, <1>4 DEF IInv
    <3> HIDE DEF k
    <3> QED BY <1>1, <1>2, <1>4, <3>1, DeleteEntries DEF k
  <2>2. i = n
    <3>1. \A x, y \in 1..n : s[x] = s[y] => x = y
      BY <1>2 DEF Listed, Walk
    <3> QED BY <1>3, <1>4, <2>1, <3>1
  <2> QED BY <2>1, <2>2
<1>6. CallRest /\ CallRest' /\ StoreForm /\ StoreForm'
  BY CallRestHolds, CallRestNext, StoreIs, StoreIsNext
<1>7. /\ Len(e) = n /\ e \in Seq(EntryType)
      /\ call.key \in Key /\ call.value \in Value
      /\ Room \in Nat /\ ~Pure!TooLarge(call.key, call.value)
      /\ Rest \in Seq(EntryType)
      /\ pc = "insert" => Rest = e
      /\ pc = "update" => Rest = Closed(e, 1, n)
      /\ Pure!TotalSize(Rest) = (Room + need) - free
  BY <1>1, <1>6 DEF CallRest
<1>8. /\ Len(Entries') = Count'
      /\ ~Pure!TooLarge(call.key, call.value)
      /\ pc = "insert" => Rest' = Entries'
      /\ pc = "update" => Rest' = Closed(Entries', 1, Count')
  BY <1>1, <1>6 DEF CallRest
<1>9. Entries' = SubSeq(e, 1, n - 1) /\ Count' = n - 1
  <2>1. Len(Closed(e, n, n)) = n - 1 /\ Closed(e, n, n) = SubSeq(e, 1, n - 1)
    <3>1. Len(e) \in 1..Len(e)
      BY <1>3, <1>7
    <3> QED BY <1>3, <1>7, <3>1, ClosedLast, ClosedSeq
  <2> QED BY <1>5, <1>8, <2>1
<1>10. Rest' = SubSeq(Rest, 1, Len(Rest) - 1)
  <2>1. CASE pc = "insert"
    BY <1>7, <1>8, <1>9, <2>1
  <2>2. CASE pc = "update"
    <3>1. n > 1
      <4>1. it \in live /\ it = head /\ tail # it
        <5>1. NoRoom
          BY DEF EvictTail, Evicting
        <5> QED BY <1>1, <2>2, <5>1, IInvEvictionSafe DEF EvictionSafe
      <4>2. head = s[1]
        <5>1. live \in SUBSET Addr /\ NodesFilled
          BY DEF IInv, TypeOK
        <5> QED BY <1>2, <1>3, <5>1, ListedFacts
      <4> QED BY <1>3, <4>1, <4>2
    <3>2. Len(Closed(e, 1, n)) = n - 1 /\
          Closed(SubSeq(e, 1, n - 1), 1, n - 1) = SubSeq(Closed(e, 1, n), 1, (n - 1) - 1)
      BY <1>7, <3>1, ClosedTwice
    <3>3. Rest' = Closed(Entries', 1, Count') /\ Rest = Closed(e, 1, n)
      BY <1>7, <1>8, <2>2
    <3> HIDE DEF e, n
    <3> QED BY <1>9, <3>2, <3>3
  <2> QED BY <1>1, <2>1, <2>2 DEF InCall
<1>11. Pure!TotalSize(Rest) > Room
  <2>1. free \in Int /\ need \in Int /\ Room \in Int
    BY <1>7 DEF IInv, TypeOK
  <2> QED BY <1>1, <1>7, <2>1
<1>12. Pure!Fit(Rest', Room) = Pure!Fit(Rest, Room)
  BY <1>7, <1>10, <1>11, FitDropsLast
<1>13. Room' = Room
  BY <1>1 DEF Room, PairSize
<1>14. /\ StoredByCall = <<Pure!Entry(call.key, call.value)>> \o Pure!Fit(Rest, Room)
       /\ StoredByCall' = <<Pure!Entry(call.key, call.value)>> \o Pure!Fit(Rest', Room)
  BY <1>1, <1>6, <1>7, <1>13 DEF StoreForm
<1> QED BY <1>12, <1>14

(* Once there is room, Store drops nothing more.                           *)
LEMMA StoreFits ==
  ASSUME IInv, InCall, need >= 0, ~NoRoom
  PROVE  StoredByCall = <<Pure!Entry(call.key, call.value)>> \o Rest
<1>1. CallRest /\ StoreForm
  BY CallRestHolds, StoreIs
<1>2. /\ Room \in Nat /\ ~Pure!TooLarge(call.key, call.value)
      /\ Rest \in Seq(EntryType)
      /\ Pure!TotalSize(Rest) = (Room + need) - free
  BY <1>1 DEF CallRest
<1>3. need \in Int /\ free \in Int /\ need <= free
  BY DEF IInv, TypeOK, NoRoom, AsSizeT
<1>4. Pure!TotalSize(Rest) <= Room
  BY <1>2, <1>3
<1>5. Pure!Fit(Rest, Room) = Rest
  BY <1>2, <1>4, FitAll
<1> QED BY <1>1, <1>2, <1>5 DEF StoreForm

LEMMA InsertEntries ==
  ASSUME IInv, IInv', InsertNode
  PROVE  Entries' = StoredByCall
<1> DEFINE n == Count
           e == Entries
           x == Pure!Entry(call.key, call.value)
<1>1. /\ InCall /\ Calls /\ ~NoRoom /\ pc = "insert"
      /\ need = PairSize(call.key, call.value) /\ need >= 0
      /\ call.key \in Key /\ call.value \in Value
  <2>1. /\ InCall /\ Calls /\ ~NoRoom /\ pc = "insert"
        /\ need = PairSize(call.key, call.value)
        /\ call.key \in Key /\ call.value \in Value
    BY DEF InsertNode, InCall, Calls, IInv, CallInProgress
  <2>2. PairSize(call.key, call.value) \in Nat
    BY <2>1 DEF PairSize
  <2> QED BY <2>1, <2>2
<1>2. PICK s, c : Listed(s, c)
  BY <1>1, ListedExists DEF Calls
<1>3. PICK s2, c2 : Listed(s2, c2)' /\ s2 = Prepended(s, head', n)
  BY <1>2, InsertNodeListed DEF IInv
<1>4. n \in Nat /\ live \in SUBSET Addr /\ \A i \in 1..n : s[i] \in live /\ s[i] \in Addr
  <2>1. live \in SUBSET Addr /\ NodesFilled
    BY DEF IInv, TypeOK
  <2> QED BY <1>2, <2>1, ListedFacts
<1>5. CallRest
  BY CallRestHolds
<1>6. Len(e) = n /\ e \in Seq(EntryType) /\ Rest = e
  BY <1>1, <1>5 DEF CallRest
<1>7. x \in EntryType
  BY <1>1 DEF EntryType, Pure!Entry
<1>8. \A j \in 1..n : e[j] = [key |-> key[s[j]], value |-> value[s[j]]]
  BY <1>1, <1>2, EntriesFacts
<1>9. <<x>> \o e = Prepended(e, x, n)
  BY <1>6, <1>7, PrependedSeq
<1>10. Count' = n + 1
  <2>1. DOMAIN s2 = 1..Count' /\ DOMAIN s2 = 1..(n + 1)
    BY <1>3 DEF Listed, Prepended
  <2>2. Count' \in Nat
    BY CountTypedNext DEF CountIsNat, IInv
  <2> QED BY <1>4, <2>1, <2>2
<1>11. Entries' = [j \in 1..(n + 1) |-> [key |-> key'[s2[j]], value |-> value'[s2[j]]]]
  <2>1. TypeOK'
    BY DEF IInv
  <2> QED BY <1>3, <1>10, <2>1, EntriesAreNext DEF EntriesRead
<1>12. /\ head' \in Addr \ live
       /\ key' = [key EXCEPT ![head'] = call.key]
       /\ value' = [value EXCEPT ![head'] = call.value]
       /\ key \in [Addr -> Key \cup {Null}] /\ value \in [Addr -> Value \cup {Null}]
  BY DEF InsertNode, IInv, TypeOK
<1>13. ASSUME NEW j \in 1..(n + 1)
       PROVE  [key |-> key'[s2[j]], value |-> value'[s2[j]]] = IF j = 1 THEN x ELSE e[j - 1]
  <2>1. s2[j] = IF j = 1 THEN head' ELSE s[j - 1]
    BY <1>3 DEF Prepended
  <2>2. CASE j = 1
    BY <1>12, <2>1, <2>2 DEF Pure!Entry
  <2>3. CASE j # 1
    <3>1. j - 1 \in 1..n
      BY <1>4, <2>3
    <3>2. s[j - 1] \in Addr /\ s[j - 1] # head'
      BY <1>4, <1>12, <3>1
    <3>3. key'[s[j - 1]] = key[s[j - 1]] /\ value'[s[j - 1]] = value[s[j - 1]]
      BY <1>12, <3>2
    <3> QED BY <1>8, <2>1, <2>3, <3>1, <3>3
  <2> QED BY <2>2, <2>3
<1> HIDE DEF e, x
<1>14. Entries' = Prepended(e, x, n)
  BY <1>11, <1>13 DEF Prepended
<1>15. StoredByCall = <<x>> \o e
  BY <1>1, <1>6, StoreFits DEF x
<1> QED BY <1>9, <1>14, <1>15

LEMMA UpdateEntries ==
  ASSUME IInv, IInv', UpdateNode
  PROVE  Entries' = StoredByCall
<1> DEFINE n == Count
           e == Entries
           x == Pure!Entry(call.key, call.value)
           d == Closed(e, 1, n)
<1>1. InCall /\ Calls /\ ~NoRoom /\ pc = "update"
  BY DEF UpdateNode, InCall, Calls
<1>2. PICK s, c : Listed(s, c)
  BY <1>1, ListedExists DEF Calls
<1>3. need >= 0 /\ \E c2 : Listed(s, c2)'
  BY <1>2, UpdateNodeListed DEF IInv
<1>4. PICK c2 : Listed(s, c2)'
  BY <1>3
<1>5. CallRest
  BY CallRestHolds
<1>6. /\ Len(e) = n /\ e \in Seq(EntryType) /\ n # 0 /\ Rest = d
      /\ call.key \in Key /\ call.value \in Value
  BY <1>1, <1>3, <1>5 DEF CallRest
<1>7. /\ n \in Nat /\ 1 \in 1..n /\ head = s[1]
      /\ \A i \in 1..n : s[i] \in Addr
      /\ \A i, j \in 1..n : s[i] = s[j] => i = j
  <2>1. live \in SUBSET Addr /\ NodesFilled
    BY DEF IInv, TypeOK
  <2>2. /\ Count \in Nat /\ (Count > 0 => head = s[1])
        /\ \A i \in 1..Count : s[i] \in Addr
        /\ \A i, j \in 1..Count : s[i] = s[j] => i = j
    BY <1>2, <2>1, ListedFacts
  <2>3. Count > 0 /\ 1 \in 1..Count
    BY <1>6, <2>2
  <2> QED BY <2>2, <2>3
<1>8. it = s[1] /\ key[it] = call.key
  BY <1>1, <1>3, <1>7 DEF IInv, CallInProgress
<1>9. \A j \in 1..n : e[j] = [key |-> key[s[j]], value |-> value[s[j]]]
  BY <1>1, <1>2, EntriesFacts
<1>10. /\ Count' = n /\ key' = key /\ value' = [value EXCEPT ![it] = call.value]
       /\ value \in [Addr -> Value \cup {Null}]
  BY DEF UpdateNode, Count, IInv, TypeOK
<1>11. Entries' = [j \in 1..n |-> [key |-> key[s[j]], value |-> value'[s[j]]]]
  <2>1. TypeOK'
    BY DEF IInv
  <2> QED BY <1>4, <1>10, <2>1, EntriesAreNext DEF EntriesRead
<1>12. x \in EntryType
  BY <1>6 DEF EntryType, Pure!Entry
<1>13. /\ d \in Seq(EntryType) /\ Len(d) = n - 1
       /\ \A j \in 1..(n - 1) : d[j] = IF j < 1 THEN e[j] ELSE e[j + 1]
  <2>1. e \in Seq(EntryType) /\ 1 \in 1..Len(e) /\ Len(e) = n
    BY <1>6, <1>7
  <2> HIDE DEF e, n
  <2>2. /\ Closed(e, 1, Len(e)) \in Seq(EntryType)
        /\ Len(Closed(e, 1, Len(e))) = Len(e) - 1
        /\ \A j \in 1..(Len(e) - 1) :
             Closed(e, 1, Len(e))[j] = IF j < 1 THEN e[j] ELSE e[j + 1]
    BY <2>1, ClosedSeq
  <2> QED BY <2>1, <2>2
<1> HIDE DEF d
<1>14. <<x>> \o d = Prepended(d, x, n - 1)
  BY <1>12, <1>13, PrependedSeq
<1>15. ASSUME NEW j \in 1..n
       PROVE  [key |-> key[s[j]], value |-> value'[s[j]]] = IF j = 1 THEN x ELSE d[j - 1]
  <2>1. CASE j = 1
    <3>1. value'[s[1]] = call.value
      BY <1>7, <1>8, <1>10
    <3> QED BY <1>8, <2>1, <3>1 DEF Pure!Entry
  <2>2. CASE j # 1
    <3>1. j - 1 \in 1..(n - 1) /\ (j - 1) + 1 = j /\ ~(j - 1 < 1)
      BY <1>7, <2>2
    <3>2. s[j] # it
      BY <1>7, <1>8, <2>2
    <3>3. value'[s[j]] = value[s[j]]
      BY <1>7, <1>10, <3>2
    <3>4. d[j - 1] = e[j]
      BY <1>13, <3>1
    <3> QED BY <1>9, <2>2, <3>3, <3>4
  <2> QED BY <2>1, <2>2
<1>16. Prepended(d, x, n - 1) = [j \in 1..n |-> IF j = 1 THEN x ELSE d[j - 1]]
  <2>1. (n - 1) + 1 = n
    BY <1>7
  <2> QED BY <2>1 DEF Prepended
<1> HIDE DEF e, x
<1>17. Entries' = Prepended(d, x, n - 1)
  BY <1>11, <1>15, <1>16
<1>18. StoredByCall = <<x>> \o d
  BY <1>1, <1>3, <1>6, StoreFits DEF x
<1> QED BY <1>14, <1>17, <1>18

-----------------------------------------------------------------------------
(* SimpleLRU implements LRUCache.                                          *)

(* The operators of the abstract module, as the mapping instantiates them, *)
(* are those the lemmas above are about.                                   *)
LEMMA SameOperators ==
  ASSUME NEW c, NEW k, NEW v
  PROVE  /\ LRU!Has(c, k) = Pure!Has(c, k)
         /\ LRU!EntryOf(c, k) = Pure!EntryOf(c, k)
         /\ LRU!Without(c, k) = Pure!Without(c, k)
         /\ LRU!TooLarge(k, v) = Pure!TooLarge(k, v)
         /\ LRU!Touch(c, k) = Pure!Touch(c, k)
         /\ LRU!Store(c, k, v) = Pure!Store(c, k, v)
<1>1. LRU!Has(c, k) = Pure!Has(c, k)
  BY DEF LRU!Has, Pure!Has
<1>2. LRU!EntryOf(c, k) = Pure!EntryOf(c, k)
  BY DEF LRU!EntryOf, Pure!EntryOf, LRU!Place, Pure!Place
<1>3. LRU!Without(c, k) = Pure!Without(c, k)
  BY <1>1 DEF LRU!Without, Pure!Without, LRU!RemoveAt, Pure!RemoveAt, LRU!Place, Pure!Place
<1>4. LRU!TooLarge(k, v) = Pure!TooLarge(k, v)
  BY DEF LRU!TooLarge, Pure!TooLarge
<1>5. LRU!Touch(c, k) = Pure!Touch(c, k)
  BY <1>1, <1>2, <1>3 DEF LRU!Touch, Pure!Touch
<1>6. \A d : LRU!TotalSize(d) = Pure!TotalSize(d)
  BY DEF LRU!TotalSize, Pure!TotalSize, LRU!EntrySize, Pure!EntrySize
<1>7. \A d, n : LRU!Fit(d, n) = Pure!Fit(d, n)
  BY <1>6 DEF LRU!Fit, Pure!Fit, LRU!Max, Pure!Max
<1>8. LRU!Store(c, k, v) = Pure!Store(c, k, v)
  BY <1>3, <1>4, <1>5, <1>7
     DEF LRU!Store, Pure!Store, LRU!Entry, Pure!Entry, LRU!EntrySize, Pure!EntrySize
<1> QED BY <1>1, <1>2, <1>3, <1>4, <1>5, <1>8

(* The abstract cache: what the call in progress will leave.               *)
View == AbstractCache = IF InCall THEN StoredByCall ELSE Entries

LEMMA ViewIs == View
<1>1. AbstractCache = CacheOf(Entries)
  BY DEF AbstractCache, The
<1> QED BY <1>1 DEF View, CacheOf, StoredByCall

LEMMA ViewIsNext == View'
BY ViewIs, PTL

(* What the abstract step of a call that stores (k, v) does to its result. *)
Stores(k, v) ==
  /\ AbstractCache' = Pure!Store(AbstractCache, k, v)
  /\ Result' = ~Pure!TooLarge(k, v) /\ Output' = Null

LEMMA IdleView ==
  ASSUME IInv, pc = "idle"
  PROVE  AbstractCache = Entries /\ Calls
BY ViewIs DEF View, InCall, Calls

LEMMA IdleViewNext ==
  ASSUME pc' = "idle"
  PROVE  AbstractCache' = Entries' /\ Result' = ok' /\ Output' = out'
BY ViewIsNext DEF View, InCall, Result, Output

LEMMA SameTooLarge ==
  ASSUME NEW k, NEW v
  PROVE  TooLarge(k, v) <=> Pure!TooLarge(k, v)
BY DEF TooLarge, Pure!TooLarge, PairSize

LEMMA PutInHeadStores ==
  ASSUME IInv, pc = "idle", NEW k \in Key, NEW v \in Value, index[k] = Null,
         PutInHead(k, v), call'.key = k, call'.value = v
  PROVE  ~Pure!Has(AbstractCache, k) /\ Stores(k, v)
<1>1. AbstractCache = Entries /\ Calls
  BY IdleView
<1>2. ~Pure!Has(Entries, k) /\ Pure!Touch(Entries, k) = Entries
  BY <1>1, AbsentEntry
<1>3. Entries' = Entries
  BY EntriesUnchanged DEF PutInHead
<1>4. CASE TooLarge(k, v)
  <2>1. Pure!TooLarge(k, v) /\ Pure!Store(Entries, k, v) = Entries
    BY <1>2, <1>4, SameTooLarge DEF Pure!Store
  <2>2. pc' = "idle" /\ ok' = FALSE /\ out' = Null
    BY <1>4 DEF PutInHead, Return
  <2> QED BY <1>1, <1>2, <1>3, <2>1, <2>2, IdleViewNext DEF Stores
<1>5. CASE ~TooLarge(k, v)
  <2>1. InCall' /\ ~Pure!TooLarge(k, v)
    BY <1>5, SameTooLarge DEF PutInHead, InCall
  <2>2. AbstractCache' = Pure!Store(Entries, k, v)
    BY <1>3, <2>1, ViewIsNext DEF View, StoredByCall
  <2> QED BY <1>1, <1>2, <2>1, <2>2 DEF Stores, Result, Output
<1> QED BY <1>4, <1>5

LEMMA UpdateStoredStores ==
  ASSUME IInv, IInv', pc = "idle", NEW k \in Key, NEW v \in Value, index[k] # Null,
         UpdateStored(k, v), call'.key = k, call'.value = v
  PROVE  Pure!Has(AbstractCache, k) /\ Stores(k, v)
<1>1. AbstractCache = Entries /\ Calls
  BY IdleView
<1>2. /\ Entries' = Pure!Touch(Entries, k) /\ Pure!Has(Entries, k)
      /\ Pure!Without(Entries', k) = Pure!Without(Entries, k)
  <2>1. TypeOK' /\ MoveToHead(k) /\ UNCHANGED <<nodes, free>>
    BY DEF IInv, UpdateStored
  <2> QED BY <1>1, <2>1, MoveEntries
<1>3. CASE TooLarge(k, v)
  <2>1. Pure!TooLarge(k, v) /\ Pure!Store(Entries, k, v) = Entries'
    BY <1>2, <1>3, SameTooLarge DEF Pure!Store
  <2>2. pc' = "idle" /\ ok' = FALSE /\ out' = Null
    BY <1>3 DEF UpdateStored, Return
  <2> QED BY <1>1, <1>2, <2>1, <2>2, IdleViewNext DEF Stores
<1>4. CASE ~TooLarge(k, v)
  <2>1. InCall' /\ ~Pure!TooLarge(k, v)
    BY <1>4, SameTooLarge DEF UpdateStored, InCall
  <2>2. AbstractCache' = Pure!Store(Entries', k, v)
    BY <2>1, ViewIsNext DEF View, StoredByCall
  <2>3. Pure!Store(Entries', k, v) = Pure!Store(Entries, k, v)
    BY <1>2, <2>1 DEF Pure!Store
  <2> QED BY <1>1, <1>2, <2>1, <2>2, <2>3 DEF Stores, Result, Output
<1> QED BY <1>3, <1>4

(* A call that fails at once, or only looks.                               *)
LEMMA NothingStored ==
  ASSUME IInv, pc = "idle", UNCHANGED store, pc' = "idle"
  PROVE  AbstractCache' = AbstractCache /\ Result' = ok' /\ Output' = out'
BY IdleView, IdleViewNext, EntriesUnchanged

LEMMA FoundByIndex ==
  ASSUME IInv, pc = "idle", NEW k \in Key
  PROVE  /\ Pure!Has(AbstractCache, k) <=> index[k] # Null
         /\ index[k] # Null => Pure!EntryOf(AbstractCache, k).value = value[index[k]]
<1>1. AbstractCache = Entries /\ Calls
  BY IdleView
<1>2. CASE index[k] = Null
  BY <1>1, <1>2, AbsentEntry
<1>3. CASE index[k] # Null
  <2>1. PICK s, c : Listed(s, c)
    BY <1>1, ListedExists DEF Calls
  <2>2. index[k] \in live
    BY <1>1, <1>3 DEF IInv, IndexMatchesList, Calls
  <2>3. PICK i \in 1..Count : s[i] = index[k]
    BY <2>1, <2>2 DEF Listed, Walk
  <2>4. FoundAt(k, i)
    BY <1>1, <1>3, <2>1, <2>3, FoundEntry
  <2> QED BY <1>1, <1>3, <2>4 DEF FoundAt
<1> QED BY <1>2, <1>3

LEMMA CallStep ==
  ASSUME IInv, IInv', Call
  PROVE  LRU!Next
<1>1. PICK k \in Key :
        \/ \E v \in Value : Put(k, v) \/ PutIfAbsent(k, v) \/ Set(k, v)
        \/ Delete(k)
        \/ Get(k)
  BY DEF Call
<1>2. ASSUME NEW v \in Value, Put(k, v) PROVE LRU!Put(k, v)
  <2>1. pc = "idle" /\ call' = [op |-> "Put", key |-> k, value |-> v]
    BY <1>2 DEF Put, Called
  <2>2. call'.key = k /\ call'.value = v
    BY <2>1
  <2>3. Stores(k, v)
    BY <1>2, <2>1, <2>2, PutInHeadStores, UpdateStoredStores DEF Put
  <2> QED BY <2>1, <2>3, SameOperators DEF Stores, LRU!Put, LRU!Called
<1>3. ASSUME NEW v \in Value, PutIfAbsent(k, v) PROVE LRU!PutIfAbsent(k, v)
  <2>1. pc = "idle" /\ call' = [op |-> "PutIfAbsent", key |-> k, value |-> v]
    BY <1>3 DEF PutIfAbsent, Called
  <2>2. call'.key = k /\ call'.value = v
    BY <2>1
  <2>3. CASE index[k] = Null
    <3>1. ~Pure!Has(AbstractCache, k) /\ Stores(k, v)
      BY <1>3, <2>1, <2>2, <2>3, PutInHeadStores DEF PutIfAbsent
    <3> QED BY <2>1, <3>1, SameOperators DEF Stores, LRU!PutIfAbsent, LRU!Called
  <2>4. CASE index[k] # Null
    <3>1. UNCHANGED store /\ pc' = "idle" /\ ok' = FALSE /\ out' = Null
      BY <1>3, <2>4 DEF PutIfAbsent, Return
    <3>2. Pure!Has(AbstractCache, k)
      BY <2>1, <2>4, FoundByIndex
    <3> QED BY <2>1, <3>1, <3>2, NothingStored, SameOperators
            DEF LRU!PutIfAbsent, LRU!Called
  <2> QED BY <2>3, <2>4
<1>4. ASSUME NEW v \in Value, Set(k, v) PROVE LRU!Set(k, v)
  <2>1. pc = "idle" /\ call' = [op |-> "Set", key |-> k, value |-> v]
    BY <1>4 DEF Set, Called
  <2>2. call'.key = k /\ call'.value = v
    BY <2>1
  <2>3. CASE index[k] # Null
    <3>1. Pure!Has(AbstractCache, k) /\ Stores(k, v)
      BY <1>4, <2>1, <2>2, <2>3, UpdateStoredStores DEF Set
    <3> QED BY <2>1, <3>1, SameOperators DEF Stores, LRU!Set, LRU!Called
  <2>4. CASE index[k] = Null
    <3>1. UNCHANGED store /\ pc' = "idle" /\ ok' = FALSE /\ out' = Null
      BY <1>4, <2>4 DEF Set, Return
    <3>2. ~Pure!Has(AbstractCache, k)
      BY <2>1, <2>4, FoundByIndex
    <3> QED BY <2>1, <3>1, <3>2, NothingStored, SameOperators DEF LRU!Set, LRU!Called
  <2> QED BY <2>3, <2>4
<1>5. ASSUME Delete(k) PROVE LRU!Delete(k)
  <2>1. pc = "idle" /\ call' = [op |-> "Delete", key |-> k, value |-> Null]
    BY <1>5 DEF Delete, Called
  <2>2. AbstractCache = Entries /\ Calls
    BY <2>1, IdleView
  <2>3. CASE index[k] = Null
    <3>1. UNCHANGED store /\ pc' = "idle" /\ ok' = FALSE /\ out' = Null
      BY <1>5, <2>3 DEF Delete, Return
    <3>2. ~Pure!Has(AbstractCache, k) /\ Pure!Without(AbstractCache, k) = AbstractCache
      BY <2>2, <2>3, AbsentEntry
    <3>3. AbstractCache' = AbstractCache /\ Result' = FALSE /\ Output' = Null
      BY <2>1, <3>1, NothingStored
    <3>4. LRU!Has(AbstractCache, k) = FALSE /\ LRU!Without(AbstractCache, k) = AbstractCache
      BY <3>2, SameOperators
    <3> QED BY <2>1, <3>3, <3>4 DEF LRU!Delete, LRU!Called
  <2>4. CASE index[k] # Null
    <3>1. DeleteNode(k) /\ pc' = "idle" /\ ok' = TRUE /\ out' = Null /\ TypeOK'
      BY <1>5, <2>4 DEF Delete, Return, IInv
    <3>2. PICK s, c : Listed(s, c)
      BY <2>2, ListedExists DEF Calls
    <3>3. Pure!Has(Entries, k) /\ Entries' = Pure!Without(Entries, k)
      BY <2>2, <2>4, <3>1, <3>2, DeleteEntries
    <3> QED BY <2>1, <2>2, <3>1, <3>3, IdleViewNext, SameOperators
            DEF LRU!Delete, LRU!Called
  <2> QED BY <2>3, <2>4
<1>6. ASSUME Get(k) PROVE LRU!Get(k)
  <2>1. pc = "idle" /\ call' = [op |-> "Get", key |-> k, value |-> Null]
    BY <1>6 DEF Get, Called
  <2>2. AbstractCache = Entries /\ Calls
    BY <2>1, IdleView
  <2>3. CASE index[k] = Null
    <3>1. UNCHANGED store /\ pc' = "idle" /\ ok' = FALSE /\ out' = Null
      BY <1>6, <2>3 DEF Get, Return
    <3>2. ~Pure!Has(AbstractCache, k) /\ Pure!Touch(AbstractCache, k) = AbstractCache
      BY <2>2, <2>3, AbsentEntry
    <3>3. AbstractCache' = AbstractCache /\ Result' = FALSE /\ Output' = Null
      BY <2>1, <3>1, NothingStored
    <3>4. LRU!Has(AbstractCache, k) = FALSE /\ LRU!Touch(AbstractCache, k) = AbstractCache
      BY <3>2, SameOperators
    <3> QED BY <2>1, <3>3, <3>4 DEF LRU!Get, LRU!Called
  <2>4. CASE index[k] # Null
    <3>1. /\ MoveToHead(k) /\ UNCHANGED <<nodes, free>> /\ TypeOK'
          /\ pc' = "idle" /\ ok' = TRUE /\ out' = value[index[k]]
      BY <1>6, <2>4 DEF Get, Return, IInv
    <3>2. /\ Entries' = Pure!Touch(Entries, k) /\ Pure!Has(Entries, k)
          /\ Pure!EntryOf(Entries, k).value = value[index[k]]
      BY <2>2, <2>4, <3>1, MoveEntries
    <3> QED BY <2>1, <2>2, <3>1, <3>2, IdleViewNext, SameOperators
            DEF LRU!Get, LRU!Called
  <2> QED BY <2>3, <2>4
<1> QED BY <1>1, <1>2, <1>3, <1>4, <1>5, <1>6 DEF LRU!Next

(* The steps a call takes by itself are invisible.                         *)
LEMMA ContinueStep ==
  ASSUME IInv, IInv', Continue
  PROVE  Over' \/ UNCHANGED LRU!vars
<1>1. CASE EvictTail
  <2>1. /\ InCall /\ InCall' /\ call' = call /\ need' = need /\ pc' = pc
        /\ need \in Int
    BY <1>1 DEF EvictTail, Evicting, InCall, IInv, TypeOK
  <2>2. CASE need >= 0
    <3>1. StoredByCall' = StoredByCall
      BY <1>1, <2>2, EvictEntries
    <3>2. AbstractCache' = AbstractCache
      BY <2>1, <3>1, ViewIs, ViewIsNext DEF View
    <3> QED BY <2>1, <3>2 DEF LRU!vars, Result, Output
  <2>3. CASE need < 0
    <3>1. pc = "update"
      <4>1. CASE pc = "insert"
        <5>1. need \in Nat
          BY <4>1 DEF IInv, CallInProgress, PairSize
        <5> QED BY <2>3, <5>1
      <4> QED BY <2>1, <4>1 DEF InCall
    <3> QED BY <2>1, <2>3, <3>1 DEF Over, Shrinking
  <2> QED BY <2>1, <2>2, <2>3
<1>2. CASE EvictFromEmpty
  <2>1. /\ pc \in {"insert", "update"} /\ NoRoom /\ tail = Null
        /\ pc' = "undefined" /\ need' = need /\ need \in Int
    BY <1>2 DEF EvictFromEmpty, Evicting, IInv, TypeOK
  <2>2. pc = "update" /\ need < 0
    BY <2>1, IInvEvictionSafe DEF EvictionSafe
  <2> QED BY <2>1, <2>2 DEF Over, Shrinking
<1>3. ASSUME InsertNode \/ UpdateNode PROVE UNCHANGED LRU!vars
  <2>1. /\ InCall /\ pc' = "idle" /\ ok' = TRUE /\ out' = Null /\ call' = call
    BY <1>3 DEF InsertNode, UpdateNode, Return, InCall
  <2>2. AbstractCache = StoredByCall
    BY <2>1, ViewIs DEF View
  <2>3. AbstractCache' = StoredByCall /\ Result' = TRUE /\ Output' = Null
    BY <1>3, <2>1, InsertEntries, UpdateEntries, IdleViewNext
  <2>4. Result = TRUE /\ Output = Null
    BY <2>1 DEF Result, Output
  <2> QED BY <2>1, <2>2, <2>3, <2>4 DEF LRU!vars
<1> QED BY <1>1, <1>2, <1>3 DEF Continue

LEMMA SameView ==
  ASSUME UNCHANGED vars
  PROVE  UNCHANGED LRU!vars
<1>1. UNCHANGED <<store, pc, call, ok, out>>
  BY DEF vars
<1>2. Entries' = Entries /\ InCall' = InCall
  BY <1>1, EntriesUnchanged DEF InCall
<1>3. AbstractCache' = AbstractCache
  BY <1>1, <1>2, ViewIs, ViewIsNext DEF View, StoredByCall
<1> QED BY <1>1, <1>2, <1>3 DEF LRU!vars, Result, Output

LEMMA DestructorOver ==
  ASSUME Destructor
  PROVE  Over'
BY DEF Destructor, DestroyStart, DestroyStep, DestroyFinish, Destroyed, Over, vars

LEMMA LRUStep ==
  ASSUME IInv, IInv', [Next]_vars
  PROVE  Over' \/ LRU!Next \/ UNCHANGED LRU!vars
BY SameView, DestructorOver, CallStep, ContinueStep DEF Next, Undefined

LEMMA LRUInit ==
  ASSUME Init
  PROVE  LRU!Init
<1>1. IInv /\ pc = "idle" /\ Calls /\ live = {}
  BY InitIInv DEF Init, Calls
<1>2. Count = 0
  BY <1>1, CountType
<1>3. Entries = <<>>
  <2>1. Entries \in [1..0 -> {}]
    <3>1. 1..0 = {}
      OBVIOUS
    <3> QED BY <1>2, <3>1 DEF Entries
  <2> QED BY <2>1, IsSequence, SeqEqual
<1>4. AbstractCache = <<>>
  BY <1>1, <1>3, IdleView
<1> QED BY <1>1, <1>4 DEF LRU!Init, Init, Result, Output, InCall

(* `SimpleLRU' is the LRU cache that Storage.h promises, for any keys,     *)
(* values, lengths and size: every call returns what LRUCache says and     *)
(* leaves exactly the entries it says, in its order, however many turns    *)
(* its eviction loop takes (SimpleLRU.cpp:10-126) - until a stored value   *)
(* is shrunk or the storage destroyed.                                     *)
THEOREM ImplementsLRUCorrect == Spec => ImplementsLRU
<1>1. Init => LRU!Init
  BY LRUInit
<1>2. IInv /\ IInv' /\ [Next]_vars => [Over' \/ LRU!Next]_(LRU!vars)
  BY LRUStep
<1> QED BY <1>1, <1>2, Inductive, PTL DEF Spec, ImplementsLRU

-----------------------------------------------------------------------------
(* SimpleLRU implements Storage: a cache as a map from keys to values.     *)
LEMMA MapIs ==
  ASSUME NEW c \in Seq(EntryType), Distinct(c)
  PROVE  /\ AsMap(c) = [k \in Key |-> AsMap(c)[k]]
         /\ \A i \in 1..Len(c) :
              /\ c[i].key \in Key /\ c[i].value # Null
              /\ AsMap(c)[c[i].key] = c[i].value
         /\ \A k \in Key : AsMap(c)[k] = Null <=> ~Pure!Has(c, k)
<1>1. ASSUME NEW i \in 1..Len(c)
      PROVE  /\ c[i].key \in Key /\ c[i].value # Null
             /\ AsMap(c)[c[i].key] = c[i].value
  <2>1. c[i] \in EntryType
    BY LenProperties
  <2>2. c[i].key \in Key /\ c[i].value # Null
    BY <2>1 DEF EntryType
  <2>3. Pure!Has(c, c[i].key) /\ Pure!EntryOf(c, c[i].key) = c[i]
    BY PlaceIs DEF Pure!EntryOf
  <2> QED BY <2>2, <2>3 DEF AsMap
<1>2. ASSUME NEW k \in Key PROVE AsMap(c)[k] = Null <=> ~Pure!Has(c, k)
  <2>1. ASSUME Pure!Has(c, k) PROVE AsMap(c)[k] # Null
    <3>1. PICK i \in 1..Len(c) : c[i].key = k
      BY <2>1 DEF Pure!Has
    <3> QED BY <1>1, <3>1
  <2> QED BY <2>1 DEF AsMap
<1>3. AsMap(c) = [k \in Key |-> AsMap(c)[k]]
  BY DEF AsMap
<1> QED BY <1>1, <1>2, <1>3

(* The bytes the first i entries take, as a set.                           *)
Block(c, i) == {c[i].key} \X (1..Pure!EntrySize(c[i]))
Blocks(c, n) == UNION {Block(c, i) : i \in 1..n}

LEMMA BlockSize ==
  ASSUME NEW c \in Seq(EntryType), NEW i \in 1..Len(c)
  PROVE  IsFiniteSet(Block(c, i)) /\ Cardinality(Block(c, i)) = Pure!EntrySize(c[i])
<1> DEFINE m == Pure!EntrySize(c[i])
           a == {c[i].key}
           b == 1..m
<1>1. m \in Nat
  BY LenProperties, EntrySizeType
<1>2. IsFiniteSet(a) /\ Cardinality(a) = 1
  BY FS_Singleton
<1> HIDE DEF m
<1>3. IsFiniteSet(b) /\ Cardinality(b) = m
  <2>1. IsFiniteSet(1..m) /\ Cardinality(1..m) = IF 1 > m THEN 0 ELSE (m - 1) + 1
    BY <1>1, FS_Interval
  <2> QED BY <1>1, <2>1
<1> HIDE DEF a, b
<1>4. IsFiniteSet(a \X b) /\ Cardinality(a \X b) = Cardinality(a) * Cardinality(b)
  BY <1>2, <1>3, FS_Product
<1>5. Cardinality(a \X b) = m
  BY <1>1, <1>2, <1>3, <1>4
<1> QED BY <1>4, <1>5 DEF Block, a, b, m

LEMMA IntervalStep ==
  ASSUME NEW i \in Nat
  PROVE  \A j : j \in 1..(i + 1) <=> j \in 1..i \/ j = i + 1
OBVIOUS

LEMMA DisjointUnion ==
  ASSUME NEW a, IsFiniteSet(a), NEW b, IsFiniteSet(b), a \cap b = {}
  PROVE  /\ IsFiniteSet(a \cup b)
         /\ Cardinality(a \cup b) = Cardinality(a) + Cardinality(b)
<1>1. Cardinality(a \cup b) = Cardinality(a) + Cardinality(b) - Cardinality(a \cap b)
  BY FS_Union
<1>2. Cardinality(a \cap b) = 0
  BY FS_EmptySet
<1>3. Cardinality(a) \in Nat /\ Cardinality(b) \in Nat /\ IsFiniteSet(a \cup b)
  BY FS_CardinalityType, FS_Union
<1> QED BY <1>1, <1>2, <1>3

LEMMA BlocksSize ==
  ASSUME NEW c \in Seq(EntryType), Distinct(c)
  PROVE  Cardinality(Blocks(c, Len(c))) = Pure!TotalSize(c)
<1>1. PICK g : Sizes(c, g)
  BY SizesExist
<1>2. /\ Len(c) \in Nat /\ Pure!TotalSize(c) = g[Len(c)] /\ g[0] = 0
      /\ \A i \in 0..Len(c) : g[i] \in Nat
  BY <1>1, SizesTyped, LenProperties DEF Sizes
<1> DEFINE S == {i \in Nat : i \in 0..Len(c) =>
                   IsFiniteSet(Blocks(c, i)) /\ Cardinality(Blocks(c, i)) = g[i]}
<1>3. 0 \in S
  <2>1. Blocks(c, 0) = {}
    <3>1. 1..0 = {}
      OBVIOUS
    <3> QED BY <3>1 DEF Blocks
  <2> QED BY <1>2, <2>1, FS_EmptySet
<1>4. ASSUME NEW i \in Nat, i \in S PROVE i + 1 \in S
  <2>1. SUFFICES ASSUME i + 1 \in 0..Len(c)
                 PROVE  /\ IsFiniteSet(Blocks(c, i + 1))
                        /\ Cardinality(Blocks(c, i + 1)) = g[i + 1]
    OBVIOUS
  <2>2. i \in 0..Len(c) /\ i + 1 \in 1..Len(c) /\ (i + 1) - 1 = i
    BY <1>2, <2>1
  <2>3. IsFiniteSet(Blocks(c, i)) /\ Cardinality(Blocks(c, i)) = g[i]
    BY <1>4, <2>2
  <2> DEFINE a == Blocks(c, i)
             b == Block(c, i + 1)
  <2>4. Blocks(c, i + 1) = a \cup b
    <3>1. \A j : j \in 1..(i + 1) <=> j \in 1..i \/ j = i + 1
      <4> HIDE DEF S
      <4> QED BY IntervalStep
    <3> QED BY <3>1 DEF Blocks
  <2>5. a \cap b = {}
    <3>1. ASSUME NEW x, x \in a, x \in b PROVE FALSE
      <4>1. PICK j \in 1..i : x \in Block(c, j)
        BY <3>1 DEF Blocks
      <4>2. x[1] = c[j].key /\ x[1] = c[i + 1].key
        BY <3>1, <4>1 DEF Block
      <4>3. j \in 1..Len(c) /\ j # i + 1
        BY <1>2, <2>2
      <4> QED BY <2>2, <4>2, <4>3 DEF Distinct
    <3> QED BY <3>1
  <2>6. IsFiniteSet(b) /\ Cardinality(b) = Pure!EntrySize(c[i + 1])
    BY <2>2, BlockSize
  <2>7. g[i + 1] = g[i] + Pure!EntrySize(c[i + 1])
    BY <1>1, <2>2 DEF Sizes
  <2>8. Pure!EntrySize(c[i + 1]) \in Nat /\ g[i] \in Nat
    BY <1>2, <2>2, LenProperties, EntrySizeType
  <2> HIDE DEF a, b
  <2>9. /\ IsFiniteSet(a \cup b)
        /\ Cardinality(a \cup b) = Cardinality(a) + Cardinality(b)
    <3>1. IsFiniteSet(a) /\ IsFiniteSet(b)
      BY <2>3, <2>6 DEF a
    <3> QED BY <2>5, <3>1, DisjointUnion
  <2>10. Cardinality(a) = g[i]
    BY <2>3 DEF a
  <2> QED BY <2>4, <2>6, <2>7, <2>9, <2>10
<1>5. Nat \subseteq S
  <2> HIDE DEF S
  <2> QED BY <1>3, <1>4, Induction
<1> QED BY <1>2, <1>5

LEMMA SameCardinality ==
  ASSUME NEW S
  PROVE  Contract!Cardinality(S) = Cardinality(S)
BY DEF Contract!Cardinality, Cardinality

(* A cache takes as many bytes as the map it stands for.                   *)
LEMMA UsedIs ==
  ASSUME NEW c \in Seq(EntryType), Distinct(c)
  PROVE  Contract!Used(AsMap(c)) = Pure!TotalSize(c)
<1> DEFINE m == AsMap(c)
           B == {{k} \X (1..Contract!PairSize(k, m[k])) : k \in Contract!Stored(m)}
           D == {Block(c, i) : i \in 1..Len(c)}
<1>1. ASSUME NEW i \in 1..Len(c)
      PROVE  /\ c[i].key \in Contract!Stored(m)
             /\ {c[i].key} \X (1..Contract!PairSize(c[i].key, m[c[i].key])) = Block(c, i)
  <2>1. c[i].key \in Key /\ c[i].value # Null /\ m[c[i].key] = c[i].value
    BY MapIs
  <2> HIDE DEF m
  <2> QED BY <2>1 DEF Contract!Stored, Contract!PairSize, LenOf, Block, Pure!EntrySize
<1>2. ASSUME NEW k \in Contract!Stored(m) PROVE \E i \in 1..Len(c) : c[i].key = k
  <2>1. k \in Key /\ m[k] # Null
    BY DEF Contract!Stored
  <2>2. Pure!Has(c, k)
    BY <2>1, MapIs
  <2> QED BY <2>2 DEF Pure!Has
<1> HIDE DEF m
<1>3. ASSUME NEW x \in B PROVE x \in D
  <2>1. PICK k \in Contract!Stored(m) : x = {k} \X (1..Contract!PairSize(k, m[k]))
    OBVIOUS
  <2>2. PICK i \in 1..Len(c) : c[i].key = k
    BY <1>2
  <2>3. x = Block(c, i)
    BY <1>1, <2>1, <2>2
  <2> QED BY <2>3
<1>4. ASSUME NEW x \in D PROVE x \in B
  <2>1. PICK i \in 1..Len(c) : x = Block(c, i)
    OBVIOUS
  <2>2. /\ c[i].key \in Contract!Stored(m)
        /\ {c[i].key} \X (1..Contract!PairSize(c[i].key, m[c[i].key])) = Block(c, i)
    BY <1>1
  <2> QED BY <2>1, <2>2
<1>5. B = D
  <2> HIDE DEF B, D
  <2> QED BY <1>3, <1>4
<1>6. Contract!Used(m) = Cardinality(UNION B)
  <2>1. Contract!Used(m) = Contract!Cardinality(UNION B)
    BY DEF Contract!Used
  <2> HIDE DEF B
  <2> QED BY <2>1, SameCardinality
<1>7. Blocks(c, Len(c)) = UNION D
  BY DEF Blocks
<1> HIDE DEF B, D
<1> QED BY <1>5, <1>6, <1>7, BlocksSize DEF m

(* What the operations on a cache do to the map.                           *)
LEMMA TouchMap ==
  ASSUME NEW c \in Seq(EntryType), Distinct(c), NEW k \in Key
  PROVE  AsMap(Pure!Touch(c, k)) = AsMap(c)
<1>1. CASE ~Pure!Has(c, k)
  BY <1>1 DEF Pure!Touch
<1>2. CASE Pure!Has(c, k)
  <2> DEFINE n == Len(c)
  <2>1. PICK i \in 1..n : c[i].key = k
    BY <1>2 DEF Pure!Has
  <2> DEFINE f == Forward(c, i, n)
             q(j) == IF j = 1 THEN i ELSE IF j <= i THEN j - 1 ELSE j
             r(j) == IF j = i THEN 1 ELSE IF j < i THEN j + 1 ELSE j
  <2>2. Pure!Touch(c, k) = f
    BY <2>1, TouchIs
  <2>3. n \in Nat /\ 1 \in 1..n /\ \A j \in 1..n : c[j] \in EntryType
    BY <2>1, LenProperties
  <2>4. f \in [1..n -> EntryType] /\ \A j \in 1..n : q(j) \in 1..n /\ f[j] = c[q(j)]
    <3>1. ASSUME NEW j \in 1..n
          PROVE  /\ q(j) \in 1..n
                 /\ (IF j = 1 THEN c[i] ELSE IF j <= i THEN c[j - 1] ELSE c[j]) = c[q(j)]
      BY <2>3
    <3> HIDE DEF q
    <3> QED BY <2>3, <3>1 DEF Forward
  <2>5. \A j \in 1..n : r(j) \in 1..n /\ q(r(j)) = j
    BY <2>3
  <2>6. \A j, l \in 1..n : q(j) = q(l) => j = l
    BY <2>3
  <2> HIDE DEF f, q, r
  <2>7. f \in Seq(EntryType) /\ Len(f) = n
    BY <2>3, <2>4, IsSequence
  <2>8. Distinct(f)
    <3> SUFFICES ASSUME NEW j \in 1..n, NEW l \in 1..n, f[j].key = f[l].key
                 PROVE  j = l
      BY <2>7 DEF Distinct
    <3>1. q(j) \in 1..n /\ q(l) \in 1..n /\ c[q(j)].key = c[q(l)].key
      BY <2>4
    <3>2. q(j) = q(l)
      BY <3>1 DEF Distinct
    <3> QED BY <2>6, <3>2
  <2>9. ASSUME NEW x \in Key PROVE AsMap(f)[x] = AsMap(c)[x]
    <3>1. CASE Pure!Has(c, x)
      <4>1. PICK j \in 1..n : c[j].key = x
        BY <3>1 DEF Pure!Has
      <4>2. r(j) \in 1..Len(f) /\ f[r(j)] = c[j]
        BY <2>4, <2>5, <2>7
      <4>3. AsMap(f)[f[r(j)].key] = f[r(j)].value
        BY <2>7, <2>8, <4>2, MapIs
      <4> QED BY <4>1, <4>2, <4>3, MapIs
    <3>2. CASE ~Pure!Has(c, x)
      <4>1. ~Pure!Has(f, x)
        BY <2>4, <2>7, <3>2 DEF Pure!Has
      <4> QED BY <2>7, <2>8, <3>2, <4>1, MapIs
    <3> QED BY <3>1, <3>2
  <2>10. AsMap(f) = AsMap(c)
    <3>1. AsMap(f) = [x \in Key |-> AsMap(f)[x]] /\ AsMap(c) = [x \in Key |-> AsMap(c)[x]]
      BY <2>7, <2>8, MapIs
    <3> QED BY <2>9, <3>1
  <2> QED BY <2>2, <2>10
<1> QED BY <1>1, <1>2

LEMMA WithoutMap ==
  ASSUME NEW c \in Seq(EntryType), Distinct(c), NEW k \in Key
  PROVE  /\ Pure!Without(c, k) \in Seq(EntryType) /\ Distinct(Pure!Without(c, k))
         /\ ~Pure!Has(Pure!Without(c, k), k)
         /\ AsMap(Pure!Without(c, k)) = [AsMap(c) EXCEPT ![k] = Null]
<1>1. CASE ~Pure!Has(c, k)
  <2>1. Pure!Without(c, k) = c
    BY <1>1 DEF Pure!Without
  <2>2. AsMap(c) = [x \in Key |-> AsMap(c)[x]] /\ AsMap(c)[k] = Null
    BY <1>1, MapIs
  <2>3. AsMap(c) = [AsMap(c) EXCEPT ![k] = Null]
    <3> DEFINE m == AsMap(c)
    <3> HIDE DEF m
    <3>1. m = [x \in Key |-> m[x]] /\ m[k] = Null => m = [m EXCEPT ![k] = Null]
      OBVIOUS
    <3> QED BY <2>2, <3>1 DEF m
  <2> QED BY <1>1, <2>1, <2>3
<1>2. CASE Pure!Has(c, k)
  <2> DEFINE n == Len(c)
  <2>1. PICK i \in 1..n : c[i].key = k
    BY <1>2 DEF Pure!Has
  <2> DEFINE f == Closed(c, i, n)
             q(j) == IF j < i THEN j ELSE j + 1
             r(j) == IF j < i THEN j ELSE j - 1
  <2>2. Pure!Without(c, k) = f
    BY <2>1, WithoutIs
  <2>3. n \in Nat /\ n - 1 \in Nat
    BY <2>1, LenProperties
  <2>4. /\ f \in Seq(EntryType) /\ Len(f) = n - 1
        /\ \A j \in 1..(n - 1) : f[j] = IF j < i THEN c[j] ELSE c[j + 1]
    BY ClosedSeq
  <2> HIDE DEF f
  <2>5. \A j \in 1..(n - 1) : q(j) \in 1..n /\ q(j) # i /\ f[j] = c[q(j)]
    BY <2>3, <2>4
  <2>6. \A j \in 1..n : j # i => r(j) \in 1..(n - 1) /\ q(r(j)) = j
    BY <2>3
  <2>7. \A j, l \in 1..(n - 1) : q(j) = q(l) => j = l
    BY <2>3
  <2> HIDE DEF q, r
  <2>8. Distinct(f)
    <3>1. ASSUME NEW j \in 1..(n - 1), NEW l \in 1..(n - 1), f[j].key = f[l].key
          PROVE  j = l
      <4>1. /\ q(j) \in 1..n /\ f[j] = c[q(j)]
            /\ q(l) \in 1..n /\ f[l] = c[q(l)]
        BY <2>5
      <4>2. c[q(j)].key = c[q(l)].key
        BY <3>1, <4>1
      <4>3. q(j) = q(l)
        BY <4>1, <4>2 DEF Distinct
      <4> QED BY <2>7, <4>3
    <3>2. Len(f) = n - 1
      BY <2>4
    <3> HIDE DEF n
    <3> QED BY <3>1, <3>2 DEF Distinct
  <2>9. ~Pure!Has(f, k)
    <3>1. ASSUME NEW j \in 1..(n - 1), f[j].key = k PROVE FALSE
      BY <2>1, <2>5, <3>1 DEF Distinct
    <3> QED BY <2>4, <3>1 DEF Pure!Has
  <2>10. ASSUME NEW x \in Key, x # k PROVE AsMap(f)[x] = AsMap(c)[x]
    <3>1. CASE Pure!Has(c, x)
      <4>1. PICK j \in 1..n : c[j].key = x
        BY <3>1 DEF Pure!Has
      <4>2. r(j) \in 1..Len(f) /\ f[r(j)] = c[j]
        BY <2>1, <2>4, <2>5, <2>6, <2>10, <4>1
      <4>3. AsMap(f)[f[r(j)].key] = f[r(j)].value
        BY <2>4, <2>8, <4>2, MapIs
      <4> QED BY <4>1, <4>2, <4>3, MapIs
    <3>2. CASE ~Pure!Has(c, x)
      <4>1. ~Pure!Has(f, x)
        BY <2>4, <2>5, <3>2 DEF Pure!Has
      <4> QED BY <2>4, <2>8, <3>2, <4>1, MapIs
    <3> QED BY <3>1, <3>2
  <2>11. AsMap(f)[k] = Null
    BY <2>4, <2>8, <2>9, MapIs
  <2>12. AsMap(f) = [AsMap(c) EXCEPT ![k] = Null]
    <3> DEFINE m == AsMap(c)
               p == AsMap(f)
    <3>1. p = [x \in Key |-> p[x]] /\ m = [x \in Key |-> m[x]]
      BY <2>4, <2>8, MapIs
    <3>2. \A x \in Key : x # k => p[x] = m[x]
      BY <2>10
    <3>3. p[k] = Null
      BY <2>11
    <3> HIDE DEF m, p
    <3>4. p = [m EXCEPT ![k] = Null]
      BY <3>1, <3>2, <3>3
    <3> QED BY <3>4 DEF m, p
  <2> QED BY <2>2, <2>4, <2>8, <2>9, <2>12
<1> QED BY <1>1, <1>2

(* A new entry in front, for a key that the cache has not.                 *)
LEMMA PrependMap ==
  ASSUME NEW d \in Seq(EntryType), Distinct(d), NEW e \in EntryType,
         ~Pure!Has(d, e.key)
  PROVE  /\ <<e>> \o d \in Seq(EntryType) /\ Distinct(<<e>> \o d)
         /\ AsMap(<<e>> \o d) = [AsMap(d) EXCEPT ![e.key] = e.value]
         /\ Pure!TotalSize(<<e>> \o d) = Pure!EntrySize(e) + Pure!TotalSize(d)
<1> DEFINE n == Len(d)
           f == <<e>> \o d
<1>1. n \in Nat /\ e.key \in Key
  BY LenProperties DEF EntryType
<1>2. /\ f \in Seq(EntryType) /\ Len(f) = n + 1
      /\ \A j \in 1..(n + 1) : f[j] = IF j = 1 THEN e ELSE d[j - 1]
  BY PrependedSeq DEF Prepended
<1> HIDE DEF f
<1>3. f[1] = e /\ \A j \in 1..n : j + 1 \in 1..(n + 1) /\ f[j + 1] = d[j]
  BY <1>1, <1>2
<1>4. Distinct(f)
  <2> SUFFICES ASSUME NEW i \in 1..(n + 1), NEW j \in 1..(n + 1), f[i].key = f[j].key
               PROVE  i = j
    BY <1>2 DEF Distinct
  <2>1. \A l \in 1..(n + 1) : l # 1 => l - 1 \in 1..n /\ f[l] = d[l - 1]
    BY <1>1, <1>2
  <2>2. \A l \in 1..n : d[l].key # e.key
    BY DEF Pure!Has
  <2>3. CASE i = 1 \/ j = 1
    BY <1>3, <2>1, <2>2, <2>3
  <2>4. CASE i # 1 /\ j # 1
    <3>1. /\ i - 1 \in 1..n /\ j - 1 \in 1..n
          /\ d[i - 1].key = d[j - 1].key
      BY <2>1, <2>4
    <3>2. i - 1 = j - 1
      BY <3>1 DEF Distinct
    <3> QED BY <1>1, <3>2
  <2> QED BY <2>3, <2>4
<1>5. f \in Seq(EntryType) /\ Len(f) # 0 /\ Closed(f, 1, Len(f)) = d
  <2>1. Len(f) # 0 /\ 1 \in 1..Len(f) /\ Len(f) - 1 = n
    BY <1>1, <1>2
  <2>2. /\ Closed(f, 1, Len(f)) \in Seq(EntryType)
        /\ Len(Closed(f, 1, Len(f))) = Len(f) - 1
        /\ \A j \in 1..(Len(f) - 1) :
             Closed(f, 1, Len(f))[j] = IF j < 1 THEN f[j] ELSE f[j + 1]
    BY <1>2, <2>1, ClosedSeq
  <2>3. \A j \in 1..n : Closed(f, 1, Len(f))[j] = d[j]
    BY <1>1, <1>3, <2>1, <2>2
  <2> DEFINE x == Closed(f, 1, Len(f))
  <2>4. x \in Seq(EntryType) /\ Len(x) = Len(d) /\ \A j \in 1..Len(d) : x[j] = d[j]
    BY <2>1, <2>2, <2>3
  <2> HIDE DEF x
  <2>5. x = d
    BY <2>4, SeqEqual
  <2> QED BY <1>2, <2>1, <2>5 DEF x
<1>6. Pure!TotalSize(f) = Pure!EntrySize(e) + Pure!TotalSize(d)
  <2>1. Pure!TotalSize(d) = Pure!TotalSize(f) - Pure!EntrySize(e)
    BY <1>3, <1>5, WithoutFirst
  <2>2. Pure!EntrySize(e) \in Nat /\ Pure!TotalSize(f) \in Nat
    <3>1. PICK g : Sizes(f, g)
      BY <1>2, SizesExist
    <3>2. Len(f) \in 0..Len(f)
      BY <1>1, <1>2
    <3>3. Pure!TotalSize(f) = g[Len(f)] /\ g[Len(f)] \in Nat
      BY <1>2, <3>1, <3>2, SizesTyped
    <3> QED BY <3>3, EntrySizeType
  <2> QED BY <2>1, <2>2
<1>7. Pure!Without(f, e.key) = d
  <2>1. 1 \in 1..Len(f) /\ f[1].key = e.key
    BY <1>1, <1>2, <1>3
  <2> QED BY <1>4, <1>5, <2>1, WithoutIs
<1>8. AsMap(f) = [AsMap(d) EXCEPT ![e.key] = e.value]
  <2> DEFINE m == AsMap(d)
             p == AsMap(f)
  <2>1. p = [x \in Key |-> p[x]] /\ m = [x \in Key |-> m[x]]
    BY <1>2, <1>4, MapIs
  <2>2. m = [p EXCEPT ![e.key] = Null]
    BY <1>1, <1>4, <1>5, <1>7, WithoutMap
  <2>3. p[e.key] = e.value
    <3>1. 1 \in 1..Len(f) /\ f[1] = e
      BY <1>1, <1>2, <1>3
    <3> QED BY <1>4, <1>5, <3>1, MapIs
  <2> HIDE DEF m, p
  <2>4. p = [m EXCEPT ![e.key] = e.value]
    <3>1. \A x \in Key : x # e.key => p[x] = m[x]
      BY <2>1, <2>2
    <3> QED BY <2>1, <2>3, <3>1
  <2> QED BY <2>4 DEF m, p
<1> QED BY <1>2, <1>4, <1>6, <1>8 DEF f

(* The keys that are lost when only the first m entries are kept.          *)
Dropped(c, m) == {c[j].key : j \in (m + 1)..Len(c)}

LEMMA PrefixMap ==
  ASSUME NEW c \in Seq(EntryType), Distinct(c), NEW m \in 0..Len(c)
  PROVE  /\ SubSeq(c, 1, m) \in Seq(EntryType) /\ Distinct(SubSeq(c, 1, m))
         /\ \A x : Pure!Has(SubSeq(c, 1, m), x) => Pure!Has(c, x)
         /\ \A x \in Key : AsMap(SubSeq(c, 1, m))[x] =
                             IF x \in Dropped(c, m) THEN Null ELSE AsMap(c)[x]
<1> DEFINE n == Len(c)
           p == SubSeq(c, 1, m)
<1>1. n \in Nat /\ m \in Nat /\ m <= n
  BY LenProperties
<1>2. p \in Seq(EntryType) /\ Len(p) = m /\ \A j \in 1..m : p[j] = c[j]
  BY Halves DEF Pre
<1> HIDE DEF p
<1>3. \A j \in 1..m : j \in 1..n
  BY <1>1
<1>4. Distinct(p)
  BY <1>2, <1>3 DEF Distinct
<1>5. \A x : Pure!Has(p, x) => Pure!Has(c, x)
  BY <1>2, <1>3 DEF Pure!Has
<1>6. ASSUME NEW x \in Key
      PROVE  AsMap(p)[x] = IF x \in Dropped(c, m) THEN Null ELSE AsMap(c)[x]
  <2>1. CASE x \in Dropped(c, m)
    <3>1. PICK j \in (m + 1)..n : c[j].key = x
      BY <2>1 DEF Dropped
    <3>2. ~Pure!Has(p, x)
      <4>1. ASSUME NEW i \in 1..m, p[i].key = x PROVE FALSE
        <5>1. i \in 1..n /\ j \in 1..n /\ i # j /\ c[i].key = c[j].key
          BY <1>1, <1>2, <3>1, <4>1
        <5> QED BY <5>1 DEF Distinct
      <4> QED BY <1>2, <4>1 DEF Pure!Has
    <3> QED BY <1>2, <1>4, <2>1, <3>2, MapIs
  <2>2. CASE x \notin Dropped(c, m) /\ Pure!Has(c, x)
    <3>1. PICK j \in 1..n : c[j].key = x
      BY <2>2 DEF Pure!Has
    <3>2. j \in 1..m
      BY <1>1, <2>2, <3>1 DEF Dropped
    <3>3. j \in 1..Len(p) /\ p[j] = c[j]
      BY <1>2, <3>2
    <3>4. AsMap(p)[p[j].key] = p[j].value
      BY <1>2, <1>4, <3>3, MapIs
    <3>5. AsMap(c)[c[j].key] = c[j].value
      BY MapIs
    <3> QED BY <2>2, <3>1, <3>3, <3>4, <3>5
  <2>3. CASE x \notin Dropped(c, m) /\ ~Pure!Has(c, x)
    <3>1. AsMap(p)[x] = Null
      BY <1>2, <1>4, <1>5, <2>3, MapIs
    <3>2. AsMap(c)[x] = Null
      BY <2>3, MapIs
    <3> QED BY <2>3, <3>1, <3>2
  <2> QED BY <2>1, <2>2, <2>3
<1> QED BY <1>2, <1>4, <1>5, <1>6 DEF p

(* Storing a pair in the cache is one of the ways Storage lets the map     *)
(* change: what is evicted are other keys, and only when there is no room. *)
LEMMA StoreMap ==
  ASSUME NEW c \in Seq(EntryType), Distinct(c), NEW k \in Key, NEW v \in Value,
         ~Pure!TooLarge(k, v)
  PROVE  AsMap(Pure!Store(c, k, v)) \in Contract!Storing(AsMap(c), k, v)
<1> DEFINE e == Pure!Entry(k, v)
           s == Pure!EntrySize(e)
           room == MaxSize - s
           d == Pure!Without(c, k)
<1>1. e \in EntryType /\ e.key = k /\ e.value = v /\ s = KLen[k] + VLen[v]
  BY DEF EntryType, Pure!Entry, Pure!EntrySize
<1>2. s \in Nat /\ room \in Nat
  <2>1. KLen[k] + VLen[v] \in Nat /\ ~(KLen[k] + VLen[v] > MaxSize)
    BY DEF Pure!TooLarge
  <2> HIDE DEF s
  <2> QED BY <1>1, <2>1
<1>3. Pure!Store(c, k, v) = <<e>> \o Pure!Fit(d, room)
  BY DEF Pure!Store
<1> HIDE DEF e, s, d
<1>4. /\ d \in Seq(EntryType) /\ Distinct(d) /\ ~Pure!Has(d, k)
      /\ AsMap(d) = [AsMap(c) EXCEPT ![k] = Null]
  BY WithoutMap DEF d
<1>5. PICK g : Sizes(d, g)
  BY <1>4, SizesExist
<1> HIDE DEF room
<1>6. PICK m \in 0..Len(d) : g[m] <= room /\ Pure!Fit(d, room) = SubSeq(d, 1, m)
  BY <1>2, <1>4, <1>5, FitExists
<1> DEFINE p == SubSeq(d, 1, m)
           M == AsMap(c)
           E == Dropped(d, m)
           R(X) == Contract!Replacing(M, X, k, v)
<1>7. M = [x \in Key |-> M[x]]
  BY MapIs
<1>8. /\ p \in Seq(EntryType) /\ Distinct(p) /\ ~Pure!Has(p, k)
      /\ \A x \in Key : AsMap(p)[x] = IF x \in E THEN Null ELSE AsMap(d)[x]
  BY <1>4, PrefixMap
<1>9. Pure!TotalSize(p) = g[m] /\ g[m] \in Nat
  BY <1>4, <1>5, PrefixSize, SizesTyped
<1> HIDE DEF p, M, E
<1>10. /\ <<e>> \o p \in Seq(EntryType) /\ Distinct(<<e>> \o p)
       /\ AsMap(<<e>> \o p) = [AsMap(p) EXCEPT ![k] = v]
       /\ Pure!TotalSize(<<e>> \o p) = s + g[m]
  BY <1>1, <1>8, <1>9, PrependMap DEF s
<1>11. /\ <<e>> \o d \in Seq(EntryType) /\ Distinct(<<e>> \o d)
       /\ AsMap(<<e>> \o d) = [AsMap(d) EXCEPT ![k] = v]
       /\ Pure!TotalSize(<<e>> \o d) = s + Pure!TotalSize(d)
  BY <1>1, <1>4, PrependMap DEF s
<1>12. AsMap(<<e>> \o p) = R(E)
  <2>1. AsMap(p) = [x \in Key |-> AsMap(p)[x]]
    BY <1>8, MapIs
  <2>2. AsMap(d) = [M EXCEPT ![k] = Null]
    BY <1>4 DEF M
  <2> DEFINE P == AsMap(p)
             D == AsMap(d)
  <2>3. /\ P = [x \in Key |-> P[x]] /\ D = [M EXCEPT ![k] = Null]
        /\ \A x \in Key : P[x] = IF x \in E THEN Null ELSE D[x]
    BY <1>8, <2>1, <2>2
  <2> HIDE DEF P, D
  <2>4. [P EXCEPT ![k] = v] =
          [x \in Key |-> IF x = k THEN v ELSE IF x \in E THEN Null ELSE M[x]]
    BY <1>7, <2>3
  <2> QED BY <1>10, <2>4 DEF P, Contract!Replacing
<1>13. AsMap(<<e>> \o d) = R({})
  <2>1. AsMap(d) = [M EXCEPT ![k] = Null]
    BY <1>4 DEF M
  <2>2. [[M EXCEPT ![k] = Null] EXCEPT ![k] = v] =
          [x \in Key |-> IF x = k THEN v ELSE IF x \in {} THEN Null ELSE M[x]]
    BY <1>7
  <2> QED BY <1>11, <2>1, <2>2 DEF Contract!Replacing
<1>14. Contract!Used(R(E)) <= MaxSize
  <2>1. Contract!Used(R(E)) = s + g[m]
    BY <1>10, <1>12, UsedIs
  <2>2. s + g[m] <= MaxSize
    BY <1>2, <1>6, <1>9 DEF room
  <2> QED BY <2>1, <2>2
<1>15. E \in SUBSET (Contract!Stored(M) \ {k})
  <2> SUFFICES ASSUME NEW j \in (m + 1)..Len(d)
               PROVE  d[j].key \in Contract!Stored(M) /\ d[j].key # k
    BY DEF E, Dropped
  <2>1. j \in 1..Len(d)
    <3>1. Len(d) \in Nat
      BY <1>4, LenProperties
    <3>2. m \in 0..Len(d)
      OBVIOUS
    <3> QED BY <3>1, <3>2
  <2>2. d[j].key \in Key /\ AsMap(d)[d[j].key] # Null
    <3>1. d \in Seq(EntryType) /\ Distinct(d)
      BY <1>4
    <3>2. d[j].value # Null /\ d[j].key \in Key /\ AsMap(d)[d[j].key] = d[j].value
      BY <2>1, <3>1, MapIs
    <3> QED BY <3>2
  <2>3. d[j].key # k
    BY <1>4, <2>1 DEF Pure!Has
  <2>4. M[d[j].key] # Null
    <3>1. AsMap(d) = [M EXCEPT ![k] = Null]
      BY <1>4 DEF M
    <3> QED BY <1>7, <2>2, <2>3, <3>1
  <2> QED BY <2>2, <2>3, <2>4 DEF Contract!Stored
<1>16. CASE Contract!Used(R({})) <= MaxSize
  <2>1. Pure!TotalSize(d) <= room
    <3>1. s + Pure!TotalSize(d) <= MaxSize
      BY <1>11, <1>13, <1>16, UsedIs
    <3>2. Pure!TotalSize(d) \in Nat
      <4>1. Len(d) \in 0..Len(d)
        BY <1>4, LenProperties
      <4>2. Pure!TotalSize(d) = g[Len(d)] /\ g[Len(d)] \in Nat
        BY <1>4, <1>5, <4>1, SizesTyped
      <4> QED BY <4>2
    <3> QED BY <1>2, <3>1, <3>2 DEF room
  <2>2. Pure!Fit(d, room) = d
    BY <1>2, <1>4, <2>1, FitAll
  <2>3. AsMap(Pure!Store(c, k, v)) = R({})
    BY <1>3, <1>13, <2>2
  <2>4. Contract!Evicted(M, k, v) = {{}}
    BY <1>16 DEF Contract!Evicted
  <2> QED BY <2>3, <2>4 DEF Contract!Storing, M
<1>17. CASE ~(Contract!Used(R({})) <= MaxSize)
  <2>1. AsMap(Pure!Store(c, k, v)) = R(E)
    BY <1>3, <1>6, <1>12 DEF p
  <2>2. E \in Contract!Evicted(M, k, v)
    BY <1>14, <1>15, <1>17 DEF Contract!Evicted
  <2> QED BY <2>1, <2>2 DEF Contract!Storing, M
<1> QED BY <1>16, <1>17

MapView == AbstractMap = AsMap(AbstractCache)

LEMMA MapViewIs == MapView
BY DEF MapView, AbstractMap, The

LEMMA MapViewIsNext == MapView'
BY MapViewIs, PTL

(* Each step of the LRU cache is one that the storage allows.              *)
LEMMA StorageCall ==
  ASSUME IInv, pc = "idle", LRU!Next
  PROVE  Contract!Next
<1> DEFINE c == AbstractCache
           m == AbstractMap
<1>1. c \in Seq(EntryType) /\ Distinct(c)
  <2>1. PICK s, z : Listed(s, z)
    BY IdleView, ListedExists DEF Calls
  <2> QED BY <2>1, IdleView, EntriesFacts
<1>2. m = AsMap(c) /\ AbstractMap' = AsMap(AbstractCache')
  BY MapViewIs, MapViewIsNext DEF MapView
<1> HIDE DEF c, m
<1>3. /\ \A k \in Key : m[k] = Null <=> ~Pure!Has(c, k)
      /\ m = [k \in Key |-> m[k]]
  BY <1>1, <1>2, MapIs
<1>4. ASSUME NEW k \in Key, Pure!Has(c, k) PROVE m[k] = Pure!EntryOf(c, k).value
  BY <1>2, <1>4 DEF AsMap
<1>5. ASSUME NEW k, NEW v PROVE Contract!TooLarge(k, v) <=> Pure!TooLarge(k, v)
  BY DEF Contract!TooLarge, Contract!PairSize, LenOf, Pure!TooLarge
<1>6. ASSUME NEW k \in Key, NEW v \in Value, AbstractCache' = Pure!Store(c, k, v),
             Result' = ~Pure!TooLarge(k, v)
      PROVE  Contract!Stores(k, v)
  <2>1. CASE Pure!TooLarge(k, v)
    <3>1. AbstractMap' = m
      BY <1>1, <1>2, <1>6, <2>1, TouchMap DEF Pure!Store
    <3> QED BY <1>5, <1>6, <2>1, <3>1 DEF Contract!Stores, m
  <2>2. CASE ~Pure!TooLarge(k, v)
    <3>1. AbstractMap' \in Contract!Storing(m, k, v)
      BY <1>1, <1>2, <1>6, <2>2, StoreMap
    <3> QED BY <1>5, <1>6, <2>2, <3>1 DEF Contract!Stores, m
  <2> QED BY <2>1, <2>2
<1>7. ASSUME AbstractCache' = c, Result' = FALSE PROVE Contract!Refuses
  BY <1>2, <1>7 DEF Contract!Refuses, m
<1>8. PICK k \in Key :
        \/ \E v \in Value : LRU!Put(k, v) \/ LRU!PutIfAbsent(k, v) \/ LRU!Set(k, v)
        \/ LRU!Delete(k)
        \/ LRU!Get(k)
  BY DEF LRU!Next
<1>9. ASSUME NEW v \in Value, LRU!Put(k, v) PROVE Contract!Put(k, v)
  <2>1. Contract!Stores(k, v)
    BY <1>6, <1>9, SameOperators DEF LRU!Put, c
  <2> QED BY <1>9, <2>1 DEF LRU!Put, LRU!Called, Contract!Put, Contract!Called
<1>10. ASSUME NEW v \in Value, LRU!PutIfAbsent(k, v) PROVE Contract!PutIfAbsent(k, v)
  <2>1. CASE Pure!Has(c, k)
    <3>1. AbstractCache' = c /\ Result' = FALSE
      BY <1>10, <2>1, SameOperators DEF LRU!PutIfAbsent, c
    <3>2. Contract!Refuses /\ m[k] # Null
      BY <1>3, <1>7, <2>1, <3>1
    <3> QED BY <1>10, <3>2
            DEF LRU!PutIfAbsent, LRU!Called, Contract!PutIfAbsent, Contract!Called, m
  <2>2. CASE ~Pure!Has(c, k)
    <3>1. AbstractCache' = Pure!Store(c, k, v) /\ Result' = ~Pure!TooLarge(k, v)
      BY <1>10, <2>2, SameOperators DEF LRU!PutIfAbsent, c
    <3>2. Contract!Stores(k, v) /\ m[k] = Null
      BY <1>3, <1>6, <2>2, <3>1
    <3> QED BY <1>10, <3>2
            DEF LRU!PutIfAbsent, LRU!Called, Contract!PutIfAbsent, Contract!Called, m
  <2> QED BY <2>1, <2>2
<1>11. ASSUME NEW v \in Value, LRU!Set(k, v) PROVE Contract!Set(k, v)
  <2>1. CASE Pure!Has(c, k)
    <3>1. AbstractCache' = Pure!Store(c, k, v) /\ Result' = ~Pure!TooLarge(k, v)
      BY <1>11, <2>1, SameOperators DEF LRU!Set, c
    <3>2. Contract!Stores(k, v) /\ m[k] # Null
      BY <1>3, <1>6, <2>1, <3>1
    <3> QED BY <1>11, <3>2 DEF LRU!Set, LRU!Called, Contract!Set, Contract!Called, m
  <2>2. CASE ~Pure!Has(c, k)
    <3>1. AbstractCache' = c /\ Result' = FALSE
      BY <1>11, <2>2, SameOperators DEF LRU!Set, c
    <3>2. Contract!Refuses /\ m[k] = Null
      BY <1>3, <1>7, <2>2, <3>1
    <3> QED BY <1>11, <3>2 DEF LRU!Set, LRU!Called, Contract!Set, Contract!Called, m
  <2> QED BY <2>1, <2>2
<1>12. ASSUME LRU!Delete(k) PROVE Contract!Delete(k)
  <2>1. AbstractCache' = Pure!Without(c, k) /\ Result' = Pure!Has(c, k)
    BY <1>12, SameOperators DEF LRU!Delete, c
  <2>2. AbstractMap' = [m EXCEPT ![k] = Null]
    BY <1>1, <1>2, <2>1, WithoutMap
  <2>3. Result' = (m[k] # Null)
    BY <1>3, <2>1 DEF Pure!Has
  <2> QED BY <1>12, <2>2, <2>3
          DEF LRU!Delete, LRU!Called, Contract!Delete, Contract!Called, m
<1>13. ASSUME LRU!Get(k) PROVE Contract!Get(k)
  <2>1. /\ AbstractCache' = Pure!Touch(c, k) /\ Result' = Pure!Has(c, k)
        /\ Output' = IF Pure!Has(c, k) THEN Pure!EntryOf(c, k).value ELSE Null
    BY <1>13, SameOperators DEF LRU!Get, c
  <2>2. AbstractMap' = m
    BY <1>1, <1>2, <2>1, TouchMap
  <2>3. Result' = (m[k] # Null)
    BY <1>3, <2>1 DEF Pure!Has
  <2>4. Output' = m[k]
    BY <1>3, <1>4, <2>1
  <2> QED BY <1>13, <2>2, <2>3, <2>4
          DEF LRU!Get, LRU!Called, Contract!Get, Contract!Called, m
<1> QED BY <1>8, <1>9, <1>10, <1>11, <1>12, <1>13 DEF Contract!Next

LEMMA StorageStep ==
  ASSUME IInv, IInv', [Next]_vars
  PROVE  Over' \/ Contract!Next \/ UNCHANGED Contract!vars
<1>1. CASE Call
  <2>1. pc = "idle"
    BY <1>1 DEF Call, Put, PutIfAbsent, Set, Delete, Get
  <2> QED BY <1>1, <2>1, CallStep, StorageCall
<1>2. CASE ~Call
  <2>1. Over' \/ UNCHANGED LRU!vars
    <3>1. CASE UNCHANGED vars
      BY <3>1, SameView
    <3>2. CASE Destructor
      BY <3>2, DestructorOver
    <3>3. CASE Continue
      BY <3>3, ContinueStep
    <3> QED BY <1>2, <3>1, <3>2, <3>3 DEF Next, Undefined
  <2>2. ASSUME UNCHANGED LRU!vars PROVE UNCHANGED Contract!vars
    BY <2>2, MapViewIs, MapViewIsNext DEF LRU!vars, Contract!vars, MapView
  <2> QED BY <2>1, <2>2
<1> QED BY <1>1, <1>2

LEMMA StorageInit ==
  ASSUME Init
  PROVE  Contract!Init
<1>1. /\ AbstractCache = <<>> /\ Result = TRUE /\ Output = Null
      /\ call = [op |-> "ctor", key |-> Null, value |-> Null]
  BY LRUInit DEF LRU!Init
<1>2. \A k : ~Pure!Has(<<>>, k)
  <2>1. Len(<<>>) = 0 /\ 1..0 = {}
    OBVIOUS
  <2> QED BY <2>1 DEF Pure!Has
<1>3. AbstractMap = [k \in Key |-> Null]
  BY <1>1, <1>2, MapViewIs DEF MapView, AsMap
<1> QED BY <1>1, <1>3 DEF Contract!Init

(* SimpleLRU keeps the promise of Storage.h, for any keys, values, lengths *)
(* and size: a stored pair is found under its key with the last value that *)
(* was stored, no other entry changes, entries are evicted only when there *)
(* is no room for all, and each result tells the caller the truth - until  *)
(* a stored value is shrunk or the storage destroyed.                      *)
THEOREM ImplementsStorageCorrect == Spec => ImplementsStorage
<1>1. Init => Contract!Init
  BY StorageInit
<1>2. IInv /\ IInv' /\ [Next]_vars => [Over' \/ Contract!Next]_(Contract!vars)
  BY StorageStep
<1> QED BY <1>1, <1>2, Inductive, PTL DEF Spec, ImplementsStorage
=============================================================================
