---------------------------- MODULE SymtabProofs ----------------------------
(***************************************************************************)
(* What is proved of the symbol table, for every set of keys and values,   *)
(* every hash function, every number of chains and every bound:            *)
(*                                                                         *)
(*   TableSafe             a well-typed table, at most one bucket per key  *)
(*   UndoListComplete      the undo list leads back to the empty table     *)
(*   SymtabImplementsScopedEnv   the refinement of ScopedEnv               *)
(*                                                                         *)
(* The argument: ChainsOK makes the bucket a lookup finds the only one of  *)
(* its key (OwnerIsUnique).  ValueAt(b, n) is decided by the oldest entry  *)
(* for b above n, so pushing an entry that saves b's value, and popping    *)
(* one while restoring it, both keep it (PushKeepsValue, PopKeepsValue);   *)
(* hence no step changes an environment that the remaining list remembers  *)
(* (InsertEnv, EnterEnv, PopEnv), which is what the refinement needs.      *)
(***************************************************************************)
EXTENDS SymtabRefinement, Minima, SequenceTheorems

(* Adding elements above it does not change the least element of a set. *)
LEMMA MinStable ==
  ASSUME NEW S \in SUBSET Nat, NEW T \in SUBSET Nat, S # {}, S \subseteq T,
         \A t \in T \ S : \A s \in S : s < t
  PROVE  Min(T) = Min(S)
<1> DEFINE s == Min(S)
<1> DEFINE t == Min(T)
<1>1. s \in S /\ \A n \in S : s <= n
  BY MinIsLeast
<1>2. t \in T /\ \A n \in T : t <= n
  BY MinIsLeast
<1> HIDE DEF s, t
<1>3. s \in Nat /\ t \in Nat /\ t <= s
  BY <1>1, <1>2
<1>4. t \in S
  <2>1. ~(s < t)
    BY <1>3
  <2>2. QED
    BY <2>1, <1>1, <1>2
<1>5. s <= t
  BY <1>1, <1>4
<1>6. s = t
  BY <1>3, <1>5
<1>7. QED
  BY <1>6 DEF s, t

(* The bucket that symtab_insert and symtab_lookup find for a key. *)
Owner(k) == tab_lookup(chain[Hash[k]], k)

LookupOK ==
  \A k \in Keys :
    IF Owner(k) = 0
      THEN \A d \in DOMAIN heap : heap[d].key # k
      ELSE Owner(k) \in DOMAIN heap /\ heap[Owner(k)].key = k

LEMMA LookupCorrect == TypeOK /\ ChainsOK => LookupOK
<1> SUFFICES ASSUME TypeOK, ChainsOK, NEW k \in Keys
             PROVE  IF Owner(k) = 0
                      THEN \A d \in DOMAIN heap : heap[d].key # k
                      ELSE Owner(k) \in DOMAIN heap /\ heap[Owner(k)].key = k
  BY DEF LookupOK
<1> DEFINE c == chain[Hash[k]]
<1> DEFINE H == Hits(c, k)
<1>1. Hash[k] \in Chains /\ c \in Seq(1 .. Len(heap)) /\ DOMAIN c = 1 .. Len(c) /\ Len(c) \in Nat
  BY HashAssumption DEF TypeOK, Chains
<1>2. DOMAIN heap = 1 .. Len(heap) /\ Len(heap) \in Nat
  BY DEF TypeOK
<1>3. \A i \in DOMAIN c : c[i] \in DOMAIN heap /\ c[i] # 0
  BY <1>1, <1>2
<1>4. CASE H = {}
  <2>1. Owner(k) = 0
    BY <1>4 DEF Owner, tab_lookup
  <2>2. ASSUME NEW d \in DOMAIN heap, heap[d].key = k
        PROVE  FALSE
    <3>1. PICK i \in DOMAIN c : c[i] = d
      BY <2>2 DEF ChainsOK
    <3>2. i \in H
      BY <3>1, <2>2 DEF Hits
    <3>3. QED
      BY <3>2, <1>4
  <2>3. QED
    BY <2>1, <2>2
<1>5. CASE H # {}
  <2>1. H \in SUBSET Nat
    BY <1>1 DEF Hits
  <2> DEFINE m == Min(H)
  <2>3. m \in H
    BY <2>1, <1>5, MinIsLeast
  <2>4. Owner(k) = c[m]
    BY <1>5 DEF Owner, tab_lookup
  <2>5. m \in DOMAIN c /\ heap[c[m]].key = k
    BY <2>3 DEF Hits
  <2>6. QED
    BY <2>4, <2>5, <1>3
<1>6. QED
  BY <1>4, <1>5

LEMMA LookupCorrectNext == TypeOK' /\ ChainsOK' => LookupOK'
  BY LookupCorrect, PTL

-----------------------------------------------------------------------------
(* The part of the inductive invariant that is about the table alone.      *)
TableInv == TypeOK /\ ChainsOK /\ UndoOK

LEMMA InitTable == Init => TableInv
<1> SUFFICES ASSUME Init PROVE TableInv
  OBVIOUS
<1>1. heap \in Seq(Bucket) /\ undo \in Seq(Undo) /\ Len(heap) = 0
  BY DEF Init
<1>2. chain \in [Chains -> Seq(1 .. Len(heap))]
  BY DEF Init
<1>3. \A h \in Chains : DOMAIN chain[h] = {}
  BY DEF Init
<1>4. DOMAIN heap = {} /\ DOMAIN undo = {}
  BY DEF Init
<1>5. QED
  BY <1>1, <1>2, <1>3, <1>4 DEF TableInv, TypeOK, ChainsOK, UndoOK, Init

(* Overwriting one value keeps every bucket's key, so the chains stay as   *)
(* they are.                                                               *)
LEMMA WriteTable ==
  ASSUME TableInv,
         NEW b \in DOMAIN heap, NEW v \in Vals \union {NULL},
         heap' = [heap EXCEPT ![b].val = v],
         chain' = chain
  PROVE  /\ heap' \in Seq(Bucket)
         /\ Len(heap') = Len(heap)
         /\ DOMAIN heap' = DOMAIN heap
         /\ \A d \in DOMAIN heap : heap'[d].key = heap[d].key
         /\ \A d \in DOMAIN heap : heap'[d].val = IF d = b THEN v ELSE heap[d].val
         /\ chain' \in [Chains -> Seq(1 .. Len(heap'))]
         /\ ChainsOK'
<1>1. heap \in Seq(Bucket) /\ DOMAIN heap = 1 .. Len(heap) /\ Len(heap) \in Nat
  BY DEF TableInv, TypeOK
<1>2. heap[b] \in Bucket
  BY <1>1
<1> DEFINE r == [heap[b] EXCEPT !.val = v]
<1>3. heap' = [heap EXCEPT ![b] = r]
  OBVIOUS
<1>4. r \in Bucket /\ r.key = heap[b].key /\ r.val = v
  BY <1>2 DEF Bucket
<1> HIDE DEF r
<1>5. heap' \in Seq(Bucket) /\ Len(heap') = Len(heap) /\ DOMAIN heap' = DOMAIN heap
  BY <1>1, <1>3, <1>4
<1>6. \A d \in DOMAIN heap : heap'[d].key = heap[d].key
  BY <1>1, <1>3, <1>4
<1>7. \A d \in DOMAIN heap : heap'[d].val = IF d = b THEN v ELSE heap[d].val
  BY <1>1, <1>3, <1>4
<1>8. chain' \in [Chains -> Seq(1 .. Len(heap'))]
  BY <1>5 DEF TableInv, TypeOK
<1>9. \A h \in Chains : \A i \in DOMAIN chain[h] : chain[h][i] \in DOMAIN heap
  BY <1>1 DEF TableInv, TypeOK
<1>10. ChainsOK'
  <2>1. \A d, e \in DOMAIN heap' : heap'[d].key = heap'[e].key => d = e
    BY <1>5, <1>6 DEF TableInv, ChainsOK
  <2>2. \A h \in Chains : \A i \in DOMAIN chain'[h] : Hash[heap'[chain'[h][i]].key] = h
    BY <1>6, <1>9 DEF TableInv, ChainsOK
  <2>3. \A h \in Chains : \A i, j \in DOMAIN chain'[h] :
          chain'[h][i] = chain'[h][j] => i = j
    BY DEF TableInv, ChainsOK
  <2>4. \A d \in DOMAIN heap' :
          \E i \in DOMAIN chain'[Hash[heap'[d].key]] :
            chain'[Hash[heap'[d].key]][i] = d
    <3>1. \A d \in DOMAIN heap :
            \E i \in DOMAIN chain[Hash[heap[d].key]] :
              chain[Hash[heap[d].key]][i] = d
      BY DEF TableInv, ChainsOK
    <3> QED BY <1>5, <1>6, <3>1
  <2>5. QED
    BY <2>1, <2>2, <2>3, <2>4 DEF ChainsOK
<1>11. QED
  BY <1>5, <1>6, <1>7, <1>8, <1>10

(* A new bucket at the head of its chain. *)
LEMMA AddTable ==
  ASSUME TableInv, NEW k \in Keys, NEW v \in Vals \union {NULL},
         AddBucket(k, v)
  PROVE  /\ heap' \in Seq(Bucket)
         /\ Len(heap') = Len(heap) + 1
         /\ \A d \in DOMAIN heap : d \in DOMAIN heap' /\ heap'[d] = heap[d]
         /\ heap'[Len(heap) + 1] = [key |-> k, val |-> v]
         /\ chain' \in [Chains -> Seq(1 .. Len(heap'))]
         /\ ChainsOK'
         /\ \A d \in DOMAIN heap : heap[d].key # k
<1> DEFINE b == Len(heap) + 1
<1>1. heap \in Seq(Bucket) /\ DOMAIN heap = 1 .. Len(heap) /\ Len(heap) \in Nat
  BY DEF TableInv, TypeOK
<1>2. [key |-> k, val |-> v] \in Bucket
  BY DEF Bucket
<1>3. heap' = Append(heap, [key |-> k, val |-> v])
  BY DEF AddBucket
<1>4. /\ heap' \in Seq(Bucket)
      /\ Len(heap') = b
      /\ DOMAIN heap' = 1 .. b
      /\ \A d \in DOMAIN heap : d \in DOMAIN heap' /\ heap'[d] = heap[d]
      /\ heap'[b] = [key |-> k, val |-> v]
  BY <1>1, <1>2, <1>3
<1> DEFINE c == chain[Hash[k]]
<1>5. Hash[k] \in Chains
  BY HashAssumption DEF Chains
<1>6. /\ c \in Seq(1 .. Len(heap)) /\ Len(c) \in Nat /\ DOMAIN c = 1 .. Len(c)
      /\ chain' = [chain EXCEPT ![Hash[k]] = <<b>> \o c]
  BY <1>5 DEF AddBucket, TableInv, TypeOK
<1>7. \A h \in Chains : chain[h] \in Seq(1 .. Len(heap')) /\ chain[h] \in Seq(1 .. Len(heap))
  <2>1. 1 .. Len(heap) \subseteq 1 .. Len(heap')
    BY <1>1, <1>4
  <2>2. \A h \in Chains : chain[h] \in Seq(1 .. Len(heap))
    BY DEF TableInv, TypeOK
  <2>3. \A h \in Chains : chain[h] \in Seq(1 .. Len(heap'))
    BY <2>1, <2>2, SeqMonotonic
  <2>4. QED
    BY <2>2, <2>3
<1> DEFINE n == <<b>> \o c
<1>8. /\ n \in Seq(1 .. Len(heap'))
      /\ Len(n) = Len(c) + 1
      /\ DOMAIN n = 1 .. Len(c) + 1
      /\ n[1] = b
      /\ \A i \in DOMAIN n : i # 1 => i - 1 \in DOMAIN c /\ n[i] = c[i - 1]
      /\ \A i \in DOMAIN c : i + 1 \in DOMAIN n /\ n[i + 1] = c[i]
  <2>1. b \in 1 .. Len(heap') /\ c \in Seq(1 .. Len(heap'))
    BY <1>1, <1>4, <1>5, <1>7
  <2>2. <<b>> \in Seq(1 .. Len(heap')) /\ Len(<<b>>) = 1 /\ <<b>>[1] = b
    BY <2>1
  <2>3. n \in Seq(1 .. Len(heap')) /\ Len(n) = Len(c) + 1 /\ DOMAIN n = 1 .. Len(c) + 1
    BY <2>1, <2>2, <1>6
  <2>4. \A i \in 1 .. 1 + Len(c) : n[i] = IF i <= 1 THEN <<b>>[i] ELSE c[i - 1]
    BY <2>1, <2>2, ConcatProperties
  <2> HIDE DEF n, c
  <2>5. n[1] = b
    BY <2>2, <2>4, <1>6
  <2>6. Len(c) \in Nat /\ DOMAIN c = 1 .. Len(c)
    BY <1>6
  <2>7. ASSUME NEW i \in DOMAIN n, i # 1
        PROVE  i - 1 \in DOMAIN c /\ n[i] = c[i - 1]
    <3>1. i \in 1 .. 1 + Len(c) /\ ~(i <= 1) /\ i - 1 \in 1 .. Len(c)
      BY <2>3, <2>6, <2>7
    <3>2. QED
      BY <3>1, <2>4, <2>6
  <2>9. ASSUME NEW i \in DOMAIN c
        PROVE  i + 1 \in DOMAIN n /\ n[i + 1] = c[i]
    <3>1. i \in Nat /\ i + 1 \in 1 .. 1 + Len(c) /\ ~(i + 1 <= 1) /\ (i + 1) - 1 = i
      BY <2>6
    <3>2. n[i + 1] = c[(i + 1) - 1]
      BY <3>1, <2>4
    <3>3. i + 1 \in DOMAIN n
      BY <2>3, <2>6
    <3>4. QED
      BY <3>1, <3>2, <3>3
  <2>8. QED
    BY <2>3, <2>5, <2>7, <2>9
<1>9. \A h \in Chains : chain'[h] = IF h = Hash[k] THEN n ELSE chain[h]
  BY <1>5, <1>6 DEF TableInv, TypeOK
<1>10. chain' \in [Chains -> Seq(1 .. Len(heap'))]
  BY <1>5, <1>6, <1>7, <1>8 DEF TableInv, TypeOK
<1>11. \A d \in DOMAIN heap : heap[d].key # k
  BY LookupCorrect DEF TableInv, LookupOK, Owner, AddBucket
<1>12. \A h \in Chains : \A i \in DOMAIN chain[h] : chain[h][i] \in DOMAIN heap
  BY <1>1 DEF TableInv, TypeOK
<1> HIDE DEF n, c
<1>13. ChainsOK'
  <2>1. \A d, e \in DOMAIN heap' : heap'[d].key = heap'[e].key => d = e
    <3>1. \A d \in DOMAIN heap' : d # b => d \in DOMAIN heap
      BY <1>1, <1>4
    <3>2. QED
      BY <3>1, <1>4, <1>11 DEF TableInv, ChainsOK
  <2>2. ASSUME NEW h \in Chains, NEW i \in DOMAIN chain'[h]
        PROVE  Hash[heap'[chain'[h][i]].key] = h
    <3>1. CASE h = Hash[k] /\ i = 1
      BY <3>1, <1>4, <1>8, <1>9
    <3>2. CASE h = Hash[k] /\ i # 1
      <4>1. chain'[h][i] = c[i - 1] /\ i - 1 \in DOMAIN c
        BY <3>2, <1>8, <1>9
      <4>2. Hash[heap[c[i - 1]].key] = h /\ c[i - 1] \in DOMAIN heap
        BY <4>1, <3>2, <1>5, <1>12 DEF TableInv, ChainsOK, c
      <4>3. QED
        BY <4>1, <4>2, <1>4
    <3>3. CASE h # Hash[k]
      BY <3>3, <1>4, <1>9, <1>12 DEF TableInv, ChainsOK
    <3>4. QED
      BY <3>1, <3>2, <3>3
  <2>3. ASSUME NEW h \in Chains, NEW i \in DOMAIN chain'[h], NEW j \in DOMAIN chain'[h],
               chain'[h][i] = chain'[h][j]
        PROVE  i = j
    <3>1. CASE h = Hash[k]
      <4>1. \A l \in DOMAIN n : l # 1 => n[l] # b
        <5>1. \A l \in DOMAIN c : c[l] \in DOMAIN heap
          BY <1>5, <1>12 DEF c
        <5>2. b \notin DOMAIN heap
          BY <1>1
        <5> HIDE DEF b
        <5>3. QED
          BY <5>1, <5>2, <1>8
      <4>2. CASE i = 1 \/ j = 1
        <5>1. i \in DOMAIN n /\ j \in DOMAIN n /\ n[i] = n[j]
          BY <3>1, <2>3, <1>9
        <5>2. n[1] = b
          BY <1>8
        <5> HIDE DEF b
        <5>3. QED
          BY <4>1, <4>2, <5>1, <5>2
      <4>3. CASE i # 1 /\ j # 1
        <5>1. i - 1 \in DOMAIN c /\ j - 1 \in DOMAIN c /\ c[i - 1] = c[j - 1]
          BY <4>3, <3>1, <2>3, <1>8, <1>9
        <5>2. i - 1 = j - 1
          BY <5>1, <1>5 DEF TableInv, ChainsOK, c
        <5>3. i \in Nat /\ j \in Nat
          BY <3>1, <1>6, <1>8, <1>9
        <5>4. QED
          BY <5>2, <5>3
      <4>4. QED
        BY <4>2, <4>3
    <3>2. CASE h # Hash[k]
      BY <3>2, <2>3, <1>9 DEF TableInv, ChainsOK
    <3>3. QED
      BY <3>1, <3>2
  <2>4. ASSUME NEW d \in DOMAIN heap'
        PROVE  \E i \in DOMAIN chain'[Hash[heap'[d].key]] :
                 chain'[Hash[heap'[d].key]][i] = d
    <3>1. CASE d = b
      <4>1. heap'[d].key = k
        BY <3>1, <1>4
      <4>2. chain'[Hash[k]] = n /\ 1 \in DOMAIN n /\ n[1] = d
        <5>1. 1 \in DOMAIN n /\ n[1] = b
          BY <1>6, <1>8
        <5>2. QED
          BY <5>1, <3>1, <1>5, <1>9
      <4>3. QED
        BY <4>1, <4>2
    <3>2. CASE d # b
      <4>1. d \in DOMAIN heap /\ heap'[d] = heap[d]
        BY <3>2, <1>1, <1>4
      <4> DEFINE g == Hash[heap[d].key]
      <4>2. g \in Chains
        <5>1. heap[d] \in Bucket
          BY <4>1, <1>1
        <5>2. heap[d].key \in Keys
          BY <5>1 DEF Bucket
        <5>3. QED
          BY <5>2, HashAssumption DEF Chains
      <4>3. PICK i \in DOMAIN chain[g] : chain[g][i] = d
        BY <4>1 DEF TableInv, ChainsOK
      <4> HIDE DEF g
      <4>4. CASE g = Hash[k]
        <5>1. i \in DOMAIN c /\ c[i] = d
          BY <4>3, <4>4 DEF c
        <5>2. i + 1 \in DOMAIN n /\ n[i + 1] = d
          BY <5>1, <1>8
        <5>3. chain'[g] = n
          BY <4>4, <4>2, <1>9
        <5>4. Hash[heap'[d].key] = g
          BY <4>1 DEF g
        <5>5. QED
          BY <5>2, <5>3, <5>4
      <4>5. CASE g # Hash[k]
        <5>1. chain'[g] = chain[g]
          BY <4>5, <4>2, <1>9
        <5>2. Hash[heap'[d].key] = g
          BY <4>1 DEF g
        <5>3. QED
          BY <4>3, <5>1, <5>2
      <4>6. QED
        BY <4>4, <4>5
    <3>3. QED
      BY <3>1, <3>2
  <2>5. QED
    BY <2>1, <2>2, <2>3, <2>4 DEF ChainsOK
<1>14. QED
  BY <1>4, <1>10, <1>11, <1>13

LEMMA UndoPush ==
  ASSUME TableInv, NEW e \in Undo, undo' = Append(undo, e)
  PROVE  /\ undo' \in Seq(Undo)
         /\ Len(undo') = Len(undo) + 1
         /\ DOMAIN undo' = 1 .. Len(undo) + 1
         /\ undo'[Len(undo) + 1] = e
         /\ \A i \in DOMAIN undo : undo'[i] = undo[i]
BY DEF TableInv, TypeOK

LEMMA UndoPop ==
  ASSUME TableInv, undo # <<>>, undo' = Popped
  PROVE  /\ undo' \in Seq(Undo)
         /\ Len(undo) \in Nat \ {0}
         /\ Len(undo') = Len(undo) - 1
         /\ DOMAIN undo' = 1 .. Len(undo) - 1
         /\ \A i \in DOMAIN undo' : undo'[i] = undo[i]
<1>1. undo \in Seq(Undo) /\ Len(undo) \in Nat \ {0} /\ DOMAIN undo = 1 .. Len(undo)
  BY DEF TableInv, TypeOK
<1>2. \A i \in 1 .. Len(undo) - 1 : undo[i] \in Undo
  BY <1>1
<1>3. undo' \in Seq(Undo)
  BY <1>1 DEF Popped
<1>4. Len(undo') = Len(undo) - 1 /\ DOMAIN undo' = 1 .. Len(undo) - 1
  BY <1>1 DEF Popped
<1>5. \A i \in 1 .. Len(undo) - 1 : undo'[i] = undo[i]
  BY <1>1 DEF Popped
<1>6. QED
  BY <1>1, <1>3, <1>4, <1>5

LEMMA TopOK ==
  ASSUME TableInv, undo # <<>>
  PROVE  /\ Top \in Undo
         /\ Top.oldval \in Vals \union {NULL}
         /\ ~Top.is_mark => Top.bucket \in DOMAIN heap
<1>1. undo \in Seq(Undo) /\ Len(undo) \in DOMAIN undo
  BY DEF TableInv, TypeOK
<1>2. Top \in Undo
  BY <1>1 DEF Top
<1>3. Top.oldval \in Vals \union {NULL}
  BY <1>2 DEF Undo
<1>4. ~Top.is_mark => Top.bucket \in DOMAIN heap
  BY <1>1 DEF Top, TableInv, UndoOK
<1>5. QED
  BY <1>2, <1>3, <1>4

LEMMA TableStep == TableInv /\ [Next]_vars => TableInv'
<1> SUFFICES ASSUME TableInv, [Next]_vars
             PROVE  TableInv'
  OBVIOUS
<1>0. /\ heap \in Seq(Bucket) /\ DOMAIN heap = 1 .. Len(heap) /\ Len(heap) \in Nat
      /\ undo \in Seq(Undo) /\ DOMAIN undo = 1 .. Len(undo) /\ Len(undo) \in Nat
  BY DEF TableInv, TypeOK
<1>1. ASSUME NEW k \in Keys, NEW v \in Vals \union {NULL},
             symtab_insert(k, v), Overwrite(k, v)
      PROVE  TableInv'
  <2> DEFINE b == Owner(k)
  <2>1. b \in DOMAIN heap
    BY <1>1, LookupCorrect DEF TableInv, LookupOK, Overwrite, Owner
  <2>2. heap' = [heap EXCEPT ![b].val = v] /\ chain' = chain
    BY <1>1 DEF Overwrite, Owner
  <2>3. undo' = Append(undo, Saving(b, heap[b].val))
    BY <1>1 DEF Overwrite, Owner
  <2> HIDE DEF b
  <2>4. Saving(b, heap[b].val) \in Undo
    <3>1. heap[b] \in Bucket /\ b \in Nat
      BY <2>1, <1>0
    <3>2. heap[b].val \in Vals \union {NULL}
      BY <3>1 DEF Bucket
    <3>3. QED
      BY <3>1, <3>2 DEF Saving, Undo
  <2>5. /\ heap' \in Seq(Bucket) /\ chain' \in [Chains -> Seq(1 .. Len(heap'))]
        /\ ChainsOK' /\ DOMAIN heap' = DOMAIN heap
    BY <2>1, <2>2, WriteTable
  <2>6. /\ undo' \in Seq(Undo)
        /\ DOMAIN undo' = 1 .. Len(undo) + 1
        /\ undo'[Len(undo) + 1] = Saving(b, heap[b].val)
        /\ \A i \in DOMAIN undo : undo'[i] = undo[i]
    BY <2>3, <2>4, UndoPush
  <2>7. TypeOK'
    BY <1>1, <2>5, <2>6 DEF TypeOK, TableInv, symtab_insert
  <2>8. UndoOK'
    <3> SUFFICES ASSUME NEW i \in DOMAIN undo'
                 PROVE  undo'[i].is_mark \/ undo'[i].bucket \in DOMAIN heap'
      BY DEF UndoOK
    <3>1. CASE i = Len(undo) + 1
      BY <3>1, <2>1, <2>5, <2>6 DEF Saving
    <3>2. CASE i # Len(undo) + 1
      BY <3>2, <2>5, <2>6, <1>0 DEF TableInv, UndoOK
    <3>3. QED
      BY <3>1, <3>2
  <2>9. QED
    BY <2>5, <2>7, <2>8 DEF TableInv
<1>2. ASSUME NEW k \in Keys, NEW v \in Vals \union {NULL},
             symtab_insert(k, v), AddBucket(k, v)
      PROVE  TableInv'
  <2> DEFINE b == Len(heap) + 1
  <2>1. undo' = Append(undo, Saving(b, NULL))
    BY <1>2 DEF AddBucket
  <2>2. Saving(b, NULL) \in Undo
    BY <1>0 DEF Saving, Undo
  <2>3. /\ heap' \in Seq(Bucket) /\ chain' \in [Chains -> Seq(1 .. Len(heap'))]
        /\ ChainsOK' /\ DOMAIN heap \subseteq DOMAIN heap' /\ Len(heap') = b
    BY <1>2, AddTable
  <2>4. b \in DOMAIN heap'
    BY <2>3, <1>0
  <2>5. /\ undo' \in Seq(Undo)
        /\ DOMAIN undo' = 1 .. Len(undo) + 1
        /\ undo'[Len(undo) + 1] = Saving(b, NULL)
        /\ \A i \in DOMAIN undo : undo'[i] = undo[i]
    BY <2>1, <2>2, UndoPush
  <2> HIDE DEF b
  <2>6. TypeOK'
    BY <1>2, <2>3, <2>5 DEF TypeOK, TableInv, symtab_insert
  <2>7. UndoOK'
    <3> SUFFICES ASSUME NEW i \in DOMAIN undo'
                 PROVE  undo'[i].is_mark \/ undo'[i].bucket \in DOMAIN heap'
      BY DEF UndoOK
    <3>1. CASE i = Len(undo) + 1
      BY <3>1, <2>4, <2>5 DEF Saving
    <3>2. CASE i # Len(undo) + 1
      <4>1. i \in DOMAIN undo /\ undo'[i] = undo[i]
        BY <3>2, <2>5, <1>0
      <4>2. undo[i].is_mark \/ undo[i].bucket \in DOMAIN heap
        BY <4>1 DEF TableInv, UndoOK
      <4> QED BY <4>1, <4>2, <2>3
    <3>3. QED
      BY <3>1, <3>2
  <2>8. QED
    BY <2>3, <2>6, <2>7 DEF TableInv
<1>3. CASE symtab_enter_scope
  <2>1. Mark \in Undo /\ Mark.is_mark
    BY DEF Mark, Undo
  <2>2. /\ undo' \in Seq(Undo)
        /\ DOMAIN undo' = 1 .. Len(undo) + 1
        /\ undo'[Len(undo) + 1] = Mark
        /\ \A i \in DOMAIN undo : undo'[i] = undo[i]
    BY <1>3, <2>1, UndoPush DEF symtab_enter_scope
  <2>3. heap' = heap /\ chain' = chain /\ pc' = pc
    BY <1>3 DEF symtab_enter_scope
  <2>4. TypeOK' /\ ChainsOK'
    BY <2>2, <2>3 DEF TypeOK, ChainsOK, TableInv
  <2>5. UndoOK'
    BY <2>1, <2>2, <2>3, <1>0 DEF TableInv, UndoOK
  <2>6. QED
    BY <2>4, <2>5 DEF TableInv
<1>4. CASE BeginExit
  BY <1>4 DEF BeginExit, TableInv, TypeOK, ChainsOK, UndoOK
<1>5. CASE UndoStep
  <2>1. undo # <<>> /\ undo' = Popped /\ ~Top.is_mark
    BY <1>5 DEF UndoStep
  <2>2. /\ undo' \in Seq(Undo)
        /\ DOMAIN undo' = 1 .. Len(undo) - 1
        /\ Len(undo) \in Nat \ {0}
        /\ \A i \in DOMAIN undo' : undo'[i] = undo[i]
    BY <2>1, UndoPop
  <2>3. Top \in Undo /\ Top.bucket \in DOMAIN heap
    BY <2>1, TopOK
  <2>4. Top.oldval \in Vals \union {NULL}
    BY <2>1, TopOK
  <2>5. heap' = [heap EXCEPT ![Top.bucket].val = Top.oldval] /\ chain' = chain /\ pc' = pc
    BY <1>5 DEF UndoStep
  <2>6. /\ heap' \in Seq(Bucket) /\ chain' \in [Chains -> Seq(1 .. Len(heap'))]
        /\ ChainsOK' /\ DOMAIN heap' = DOMAIN heap
    BY <2>3, <2>4, <2>5, WriteTable
  <2>7. TypeOK'
    BY <2>2, <2>5, <2>6 DEF TypeOK, TableInv
  <2>8. UndoOK'
    BY <2>2, <2>6, <1>0 DEF TableInv, UndoOK
  <2>9. QED
    BY <2>6, <2>7, <2>8 DEF TableInv
<1>6. CASE EndExit
  <2>1. heap' = heap /\ chain' = chain /\ pc' = "idle"
    BY <1>6 DEF EndExit
  <2>2. CASE undo # <<>> /\ undo' = Popped
    <3>1. /\ undo' \in Seq(Undo)
          /\ DOMAIN undo' = 1 .. Len(undo) - 1
          /\ \A i \in DOMAIN undo' : undo'[i] = undo[i]
      BY <2>2, UndoPop
    <3>2. TypeOK' /\ ChainsOK'
      BY <2>1, <3>1 DEF TypeOK, ChainsOK, TableInv
    <3>3. UndoOK'
      BY <2>1, <3>1, <1>0 DEF UndoOK, TableInv
    <3>4. QED
      BY <3>2, <3>3 DEF TableInv
  <2>3. CASE undo' = undo
    BY <2>1, <2>3 DEF TableInv, TypeOK, ChainsOK, UndoOK
  <2>4. QED
    BY <1>6, <2>2, <2>3 DEF EndExit
<1>7. CASE UNCHANGED vars
  BY <1>7 DEF vars, TableInv, TypeOK, ChainsOK, UndoOK
<1>8. QED
  BY <1>1, <1>2, <1>3, <1>4, <1>5, <1>6, <1>7
  DEF Next, symtab_insert, symtab_exit_scope

(* Every reachable table is well typed, and no two of its buckets have the *)
(* same key, however insertions, overwrites, scopes and undoing interleave *)
(* (symtab_insert, symtab_exit_scope).                                     *)
THEOREM TableSafe == Spec => [](TypeOK /\ ChainsOK /\ UndoOK)
<1>1. Init => TableInv
  BY InitTable
<1>2. TableInv /\ [Next]_vars => TableInv'
  BY TableStep
<1>3. QED
  BY <1>1, <1>2, PTL DEF Spec, TableInv

(* symtab.c's chains, buckets and undo list keep their types.              *)
THEOREM TableTyped == Spec => []TypeOK
BY TableSafe, PTL

-----------------------------------------------------------------------------
(* What the undo list remembers.                                           *)

LEMMA EntriesInDomain ==
  ASSUME TableInv, NEW b, NEW n \in Nat
  PROVE  /\ Entries(b, n) \in SUBSET Nat
         /\ Entries(b, n) \subseteq DOMAIN undo
BY DEF Entries, TableInv, TypeOK

(* Pushing an entry e that is either for another bucket, or saves the value *)
(* its bucket has, keeps what every bucket is worth at every earlier point. *)
LEMMA PushKeepsValue ==
  ASSUME TableInv, NEW e \in Undo, undo' = Append(undo, e),
         NEW b \in DOMAIN heap, NEW n \in 0 .. Len(undo),
         heap[b].val = IF ~e.is_mark /\ e.bucket = b THEN e.oldval ELSE heap'[b].val
  PROVE  ValueAt(b, n)' = ValueAt(b, n)
<1> DEFINE last == Len(undo) + 1
<1> DEFINE new == IF ~e.is_mark /\ e.bucket = b THEN {last} ELSE {}
<1>1. /\ DOMAIN undo = 1 .. Len(undo) /\ Len(undo) \in Nat
      /\ Len(undo') = Len(undo) + 1
      /\ undo'[last] = e
      /\ \A i \in DOMAIN undo : undo'[i] = undo[i]
  BY UndoPush DEF TableInv, TypeOK
<1>2. Entries(b, n)' = Entries(b, n) \union new
  <2>1. \A j \in n + 1 .. Len(undo) : j \in DOMAIN undo /\ j < last
    BY <1>1
  <2>2. n + 1 .. Len(undo') = (n + 1 .. Len(undo)) \union {last}
    BY <1>1
  <2>3. ASSUME NEW j \in Entries(b, n)'
        PROVE  j \in Entries(b, n) \union new
    <3>1. CASE j = last
      BY <3>1, <2>3, <1>1 DEF Entries
    <3>2. CASE j # last
      <4>1. j \in n + 1 .. Len(undo)
        BY <3>2, <2>2, <2>3 DEF Entries
      <4>2. QED
        BY <4>1, <2>1, <2>3, <1>1 DEF Entries
    <3>3. QED
      BY <3>1, <3>2
  <2>4. ASSUME NEW j \in Entries(b, n) \union new
        PROVE  j \in Entries(b, n)'
    <3>1. CASE j \in Entries(b, n)
      BY <3>1, <2>1, <2>2, <1>1 DEF Entries
    <3>2. CASE j \in new
      BY <3>2, <2>2, <1>1 DEF Entries
    <3>3. QED
      BY <3>1, <3>2, <2>4
  <2>5. QED
    BY <2>3, <2>4
<1>3. /\ Entries(b, n) \in SUBSET Nat
      /\ \A j \in Entries(b, n) : j \in DOMAIN undo /\ j < last
  BY <1>1, EntriesInDomain
<1>4. last \in Nat /\ new \subseteq {last} /\ Entries(b, n)' \in SUBSET Nat
  BY <1>1, <1>2, <1>3
<1>5. CASE Entries(b, n) # {}
  <2>1. Min(Entries(b, n)') = Min(Entries(b, n))
    <3> DEFINE T == Entries(b, n)'
    <3>1. Entries(b, n) \subseteq T /\ \A t \in T \ Entries(b, n) : t = last
      BY <1>2, <1>4
    <3>2. T \in SUBSET Nat
      BY <1>4
    <3> HIDE DEF T
    <3>3. Min(T) = Min(Entries(b, n))
      BY <3>1, <3>2, <1>3, <1>5, MinStable
    <3>4. QED
      BY <3>3 DEF T
  <2>2. Min(Entries(b, n)) \in Entries(b, n)
    BY <1>3, <1>5, MinIsLeast
  <2>3. undo'[Min(Entries(b, n))] = undo[Min(Entries(b, n))]
    BY <2>2, <1>1, <1>3
  <2>4. Entries(b, n)' # {}
    BY <1>2, <1>5
  <2>5. QED
    BY <2>1, <2>3, <2>4, <1>5 DEF ValueAt
<1>6. CASE Entries(b, n) = {} /\ new # {}
  <2>1. Entries(b, n)' = {last} /\ ~e.is_mark /\ e.bucket = b
    BY <1>2, <1>6
  <2>2. Min({last}) = last
    BY <1>4, MinIsLeast
  <2>3. ValueAt(b, n)' = e.oldval
    BY <2>1, <2>2, <1>1 DEF ValueAt
  <2>4. QED
    BY <2>1, <2>3, <1>6 DEF ValueAt
<1>7. CASE Entries(b, n) = {} /\ new = {}
  <2>1. Entries(b, n)' = {} /\ heap[b].val = heap'[b].val
    BY <1>2, <1>7
  <2>2. QED
    BY <2>1, <1>7 DEF ValueAt
<1>8. QED
  BY <1>5, <1>6, <1>7

(* Undoing the top entry keeps what every bucket is worth at every point   *)
(* that is left.                                                           *)
LEMMA PopKeepsValue ==
  ASSUME TableInv, undo # <<>>, undo' = Popped,
         NEW b \in DOMAIN heap, NEW n \in 0 .. Len(undo) - 1,
         heap'[b].val = IF ~Top.is_mark /\ Top.bucket = b THEN Top.oldval ELSE heap[b].val
  PROVE  ValueAt(b, n)' = ValueAt(b, n)
<1> DEFINE last == Len(undo)
<1> DEFINE old == IF ~Top.is_mark /\ Top.bucket = b THEN {last} ELSE {}
<1>1. /\ DOMAIN undo = 1 .. last /\ last \in Nat \ {0}
      /\ Len(undo') = last - 1
      /\ undo[last] = Top
      /\ \A i \in 1 .. last - 1 : undo'[i] = undo[i]
  BY UndoPop DEF TableInv, TypeOK, Top
<1> HIDE DEF last
<1>2. n + 1 .. last = (n + 1 .. last - 1) \union {last}
  BY <1>1 DEF last
<1>3. Entries(b, n) = {j \in n + 1 .. last : ~undo[j].is_mark /\ undo[j].bucket = b}
  BY DEF Entries, last
<1>4. Entries(b, n)' = {j \in n + 1 .. last - 1 : ~undo'[j].is_mark /\ undo'[j].bucket = b}
  BY <1>1 DEF Entries
<1>5. \A j \in n + 1 .. last - 1 : j \in 1 .. last - 1 /\ j < last
  BY <1>1
<1>6. Entries(b, n) = Entries(b, n)' \union old
  BY <1>1, <1>2, <1>3, <1>4, <1>5
<1>7. /\ Entries(b, n)' \in SUBSET Nat
      /\ Entries(b, n) \in SUBSET Nat
      /\ \A j \in Entries(b, n)' : j \in 1 .. last - 1 /\ j < last
  BY <1>1, <1>3, <1>4, <1>5
<1>8. CASE Entries(b, n)' # {}
  <2> DEFINE T == Entries(b, n)'
  <2>1. T \in SUBSET Nat /\ T # {} /\ T \subseteq Entries(b, n)
        /\ \A t \in Entries(b, n) \ T : \A s \in T : s < t
    BY <1>6, <1>7, <1>8
  <2>2. Entries(b, n) \in SUBSET Nat
    BY <1>7
  <2> HIDE DEF T
  <2>3. Min(T) = Min(Entries(b, n)) /\ Min(T) \in T
    BY <2>1, <2>2, MinStable, MinIsLeast
  <2>4. undo'[Min(T)] = undo[Min(T)]
    BY <2>3, <1>1, <1>7 DEF T
  <2>5. Entries(b, n) # {}
    BY <2>1
  <2>6. ValueAt(b, n)' = undo'[Min(T)].oldval
    BY <1>8 DEF ValueAt, T
  <2>7. QED
    BY <2>3, <2>4, <2>5, <2>6 DEF ValueAt
<1>9. CASE Entries(b, n)' = {} /\ old # {}
  <2>1. Entries(b, n) = {last} /\ heap'[b].val = Top.oldval
    BY <1>6, <1>9
  <2>2. Min({last}) = last
    <3>1. {last} \in SUBSET Nat /\ {last} # {}
      BY <1>1
    <3>2. Min({last}) \in {last}
      BY <3>1, MinIsLeast
    <3> QED BY <3>2
  <2>3. ValueAt(b, n) = Top.oldval
    BY <2>1, <2>2, <1>1 DEF ValueAt
  <2>4. QED
    BY <2>1, <2>3, <1>9 DEF ValueAt
<1>10. CASE Entries(b, n)' = {} /\ old = {}
  <2>1. Entries(b, n) = {} /\ heap'[b].val = heap[b].val
    BY <1>6, <1>10
  <2>2. QED
    BY <2>1, <1>10 DEF ValueAt
<1>11. QED
  BY <1>8, <1>9, <1>10

-----------------------------------------------------------------------------
(* The environments the undo list remembers.                               *)

(* The bucket of a key is the one bucket that has the key.                 *)
OwnerUnique ==
  /\ \A k \in Keys : Owner(k) \in Nat
  /\ \A k \in Keys, b \in Nat :
       b = Owner(k) <=> IF b = 0 THEN \A d \in DOMAIN heap : heap[d].key # k
                                 ELSE b \in DOMAIN heap /\ heap[b].key = k

LEMMA OwnerIsUnique == TableInv => OwnerUnique
<1> SUFFICES ASSUME TableInv PROVE OwnerUnique
  OBVIOUS
<1>1. DOMAIN heap \subseteq Nat \ {0}
  BY DEF TableInv, TypeOK
<1>2. LookupOK
  BY LookupCorrect DEF TableInv
<1>3. \A k \in Keys : Owner(k) \in Nat
  BY <1>1, <1>2 DEF LookupOK
<1>4. ASSUME NEW k \in Keys, NEW b \in Nat
      PROVE  b = Owner(k) <=> IF b = 0 THEN \A d \in DOMAIN heap : heap[d].key # k
                                       ELSE b \in DOMAIN heap /\ heap[b].key = k
  BY <1>1, <1>2 DEF LookupOK, TableInv, ChainsOK
<1>5. QED
  BY <1>3, <1>4 DEF OwnerUnique

LEMMA OwnerIsUniqueNext == TableInv' => OwnerUnique'
  BY OwnerIsUnique, PTL

EnvRead ==
  \A k \in Keys, n \in Nat, b \in Nat :
    b = Owner(k) => EnvAt(n)[k] = IF b = 0 THEN NULL ELSE ValueAt(b, n)

LEMMA EnvAtReads == EnvRead
  BY DEF EnvRead, EnvAt, Owner

LEMMA EnvAtReadsNext == EnvRead'
  BY EnvAtReads, PTL

(* At the top of the undo list the environment is the one lookups read.    *)
TopIsCurrent == EnvAt(Len(undo)) = [k \in Keys |-> symtab_lookup(k)]

LEMMA EnvAtTopState == TableInv => TopIsCurrent
<1> SUFFICES ASSUME TableInv PROVE TopIsCurrent
  OBVIOUS
<1>1. \A b : Entries(b, Len(undo)) = {}
  BY DEF Entries, TableInv, TypeOK
<1>2. QED
  BY <1>1 DEF TopIsCurrent, EnvAt, ValueAt, symtab_lookup

LEMMA EnvAtTopStateNext == TableInv' => TopIsCurrent'
  BY EnvAtTopState, PTL

LEMMA EnvAtTop ==
  ASSUME TableInv
  PROVE  EnvAt(Len(undo)) = [k \in Keys |-> symtab_lookup(k)]
BY EnvAtTopState DEF TopIsCurrent

LEMMA EnvAtTopNext ==
  ASSUME TableInv'
  PROVE  EnvAt(Len(undo))' = [k \in Keys |-> symtab_lookup(k)]'
BY EnvAtTopStateNext DEF TopIsCurrent

(* symtab_insert changes the environment of its key at the top of the undo *)
(* list, and nothing of what the list remembers below.                     *)
LEMMA InsertEnv ==
  ASSUME TableInv, TableInv', NEW k \in Keys, NEW v \in Vals \union {NULL},
         symtab_insert(k, v)
  PROVE  /\ \A n \in 0 .. Len(undo) : EnvAt(n)' = EnvAt(n)
         /\ Len(undo') = Len(undo) + 1
         /\ [q \in Keys |-> symtab_lookup(q)]' =
              [[q \in Keys |-> symtab_lookup(q)] EXCEPT ![k] = v]
<1>0. /\ heap \in Seq(Bucket) /\ DOMAIN heap = 1 .. Len(heap) /\ Len(heap) \in Nat
      /\ Len(undo) \in Nat /\ DOMAIN undo = 1 .. Len(undo)
  BY DEF TableInv, TypeOK
<1>1. OwnerUnique /\ OwnerUnique' /\ EnvRead /\ EnvRead'
  BY OwnerIsUnique, OwnerIsUniqueNext, EnvAtReads, EnvAtReadsNext
<1>2. CASE Overwrite(k, v)
  <2> DEFINE b == Owner(k)
  <2>1. b \in DOMAIN heap /\ heap[b].key = k
    BY <1>1, <1>2, <1>0 DEF OwnerUnique, Overwrite, Owner
  <2>2. /\ heap' = [heap EXCEPT ![b].val = v] /\ chain' = chain
        /\ undo' = Append(undo, Saving(b, heap[b].val))
    BY <1>2 DEF Overwrite, Owner
  <2> HIDE DEF b
  <2>3. /\ DOMAIN heap' = DOMAIN heap
        /\ \A d \in DOMAIN heap : heap'[d].key = heap[d].key
        /\ \A d \in DOMAIN heap : heap'[d].val = IF d = b THEN v ELSE heap[d].val
    BY <2>1, <2>2, WriteTable
  <2>4. \A q \in Keys : Owner(q)' = Owner(q)
    BY <2>3, <1>1 DEF OwnerUnique
  <2>5. Saving(b, heap[b].val) \in Undo
    <3>1. heap[b] \in Bucket /\ b \in Nat
      BY <2>1, <1>0
    <3>2. heap[b].val \in Vals \union {NULL}
      BY <3>1 DEF Bucket
    <3>3. QED
      BY <3>1, <3>2 DEF Saving, Undo
  <2>6. \A d \in DOMAIN heap :
          heap[d].val = IF ~Saving(b, heap[b].val).is_mark /\ Saving(b, heap[b].val).bucket = d
                          THEN Saving(b, heap[b].val).oldval ELSE heap'[d].val
    BY <2>3 DEF Saving
  <2>7. \A d \in DOMAIN heap, n \in 0 .. Len(undo) : ValueAt(d, n)' = ValueAt(d, n)
    BY <2>2, <2>5, <2>6, PushKeepsValue
  <2>8. ASSUME NEW n \in 0 .. Len(undo)
        PROVE  EnvAt(n)' = EnvAt(n)
    <3>1. ASSUME NEW q \in Keys
          PROVE  EnvAt(n)'[q] = EnvAt(n)[q]
      <4> DEFINE d == Owner(q)
      <4>1. d \in Nat /\ Owner(q)' = d /\ (d # 0 => d \in DOMAIN heap) /\ n \in Nat
        BY <2>4, <1>0, <1>1 DEF OwnerUnique
      <4>2. EnvAt(n)[q] = IF d = 0 THEN NULL ELSE ValueAt(d, n)
        BY <4>1, <1>1 DEF EnvRead
      <4>3. PICK e \in Nat : e = d
        BY <4>1
      <4>4. EnvAt(n)'[q] = IF e = 0 THEN NULL ELSE ValueAt(e, n)'
        BY <4>1, <4>3, <1>1 DEF EnvRead
      <4>5. e # 0 => ValueAt(e, n)' = ValueAt(e, n)
        BY <4>1, <4>3, <2>7
      <4>6. QED
        BY <4>2, <4>3, <4>4, <4>5
    <3>2. QED
      BY <3>1 DEF EnvAt
  <2>9. [q \in Keys |-> symtab_lookup(q)]' =
          [[q \in Keys |-> symtab_lookup(q)] EXCEPT ![k] = v]
    <3>1. ASSUME NEW q \in Keys
          PROVE  symtab_lookup(q)' = IF q = k THEN v ELSE symtab_lookup(q)
      <4>1. symtab_lookup(q) = IF Owner(q) = 0 THEN NULL ELSE heap[Owner(q)].val
        BY DEF symtab_lookup, Owner
      <4>2. symtab_lookup(q)' = IF Owner(q)' = 0 THEN NULL ELSE heap'[Owner(q)'].val
        BY DEF symtab_lookup, Owner
      <4>3. Owner(q)' = Owner(q) /\ (Owner(q) # 0 => Owner(q) \in DOMAIN heap)
            /\ (q = k <=> Owner(q) = b) /\ b # 0
        BY <2>1, <2>4, <1>0, <1>1 DEF OwnerUnique, b
      <4>4. QED
        BY <4>1, <4>2, <4>3, <2>3
    <3>2. QED
      BY <3>1
  <2>10. Len(undo') = Len(undo) + 1
    BY <2>2, <2>5, UndoPush
  <2>11. QED
    BY <2>8, <2>9, <2>10, <1>0
<1>3. CASE AddBucket(k, v)
  <2>0. PICK b \in Nat : b = Len(heap) + 1
    BY <1>0
  <2>1. /\ \A d \in DOMAIN heap : d \in DOMAIN heap' /\ heap'[d] = heap[d]
        /\ heap'[b] = [key |-> k, val |-> v]
        /\ \A d \in DOMAIN heap : heap[d].key # k
        /\ heap' \in Seq(Bucket) /\ Len(heap') = b
    BY <1>3, <2>0, AddTable
  <2>2. undo' = Append(undo, Saving(b, NULL)) /\ Saving(b, NULL) \in Undo
    BY <1>3, <2>0 DEF AddBucket, Saving, Undo
  <2>3. b \in DOMAIN heap' /\ b \notin DOMAIN heap /\ b \in Nat \ {0}
    BY <2>0, <2>1, <1>0
  <2>4. \A q \in Keys : Owner(q)' = IF q = k THEN b ELSE Owner(q)
    <3>1. Owner(k)' = b
      BY <2>1, <2>3, <1>1 DEF OwnerUnique
    <3>2. ASSUME NEW q \in Keys, q # k
          PROVE  Owner(q)' = Owner(q)
      <4>1. CASE Owner(q) # 0
        BY <4>1, <2>1, <1>1 DEF OwnerUnique
      <4>2. CASE Owner(q) = 0
        <5>1. \A d \in DOMAIN heap : heap[d].key # q
          BY <4>2, <1>1 DEF OwnerUnique
        <5>2. \A d \in DOMAIN heap' : d = b \/ d \in DOMAIN heap
          BY <2>0, <2>1, <1>0
        <5>3. \A d \in DOMAIN heap' : heap'[d].key # q
          BY <5>1, <5>2, <2>1, <3>2
        <5>4. QED
          BY <5>3, <4>2, <1>1 DEF OwnerUnique
      <4>3. QED
        BY <4>1, <4>2
    <3>3. QED
      BY <3>1, <3>2
  <2>5. \A d \in DOMAIN heap :
          heap[d].val = IF ~Saving(b, NULL).is_mark /\ Saving(b, NULL).bucket = d
                          THEN Saving(b, NULL).oldval ELSE heap'[d].val
    BY <2>1, <2>3 DEF Saving
  <2>6. \A d \in DOMAIN heap, n \in 0 .. Len(undo) : ValueAt(d, n)' = ValueAt(d, n)
    BY <2>2, <2>5, PushKeepsValue
  <2>7. \A n \in 0 .. Len(undo) : ValueAt(b, n)' = NULL
    <3> SUFFICES ASSUME NEW n \in 0 .. Len(undo)
                 PROVE  ValueAt(b, n)' = NULL
      OBVIOUS
    <3>0. PICK last \in Nat : last = Len(undo) + 1
      BY <1>0
    <3>1. /\ Len(undo') = last /\ undo'[last] = Saving(b, NULL)
          /\ \A i \in DOMAIN undo : undo'[i] = undo[i]
      BY <3>0, <2>2, UndoPush
    <3>2. \A i \in DOMAIN undo : undo[i].is_mark \/ undo[i].bucket # b
      BY <2>3 DEF TableInv, UndoOK
    <3>3. last \in Nat /\ n + 1 .. last = (n + 1 .. Len(undo)) \union {last}
          /\ n + 1 .. Len(undo) \subseteq DOMAIN undo
      BY <3>0, <1>0
    <3>4. Entries(b, n)' = {last}
      <4>1. Entries(b, n)' = {j \in n + 1 .. last : ~undo'[j].is_mark /\ undo'[j].bucket = b}
        BY <3>1 DEF Entries
      <4>2. ~undo'[last].is_mark /\ undo'[last].bucket = b
        BY <3>1 DEF Saving
      <4>3. \A j \in n + 1 .. Len(undo) : undo'[j].is_mark \/ undo'[j].bucket # b
        BY <3>1, <3>2, <3>3
      <4>4. QED
        BY <4>1, <4>2, <4>3, <3>3
    <3>5. Min({last}) = last
      BY <3>3, MinIsLeast
    <3>6. QED
      BY <3>1, <3>4, <3>5 DEF ValueAt, Saving
  <2>8. ASSUME NEW n \in 0 .. Len(undo)
        PROVE  EnvAt(n)' = EnvAt(n)
    <3>1. ASSUME NEW q \in Keys
          PROVE  EnvAt(n)'[q] = EnvAt(n)[q]
      <4>1. n \in Nat
        BY <1>0
      <4>2. CASE q = k
        <5>1. Owner(q) = 0 /\ Owner(q)' = b
          BY <4>2, <2>1, <2>4, <1>1 DEF OwnerUnique
        <5>2. EnvAt(n)[q] = NULL
          BY <5>1, <4>1, <1>1 DEF EnvRead
        <5>3. EnvAt(n)'[q] = IF b = 0 THEN NULL ELSE ValueAt(b, n)'
          BY <5>1, <4>1, <1>1 DEF EnvRead
        <5>4. QED
          BY <5>2, <5>3, <2>7
      <4>3. CASE q # k
        <5> DEFINE d == Owner(q)
        <5>1. d \in Nat /\ Owner(q)' = d /\ (d # 0 => d \in DOMAIN heap)
          BY <4>3, <2>4, <1>1 DEF OwnerUnique
        <5>2. EnvAt(n)[q] = IF d = 0 THEN NULL ELSE ValueAt(d, n)
          BY <5>1, <4>1, <1>1 DEF EnvRead
        <5>3. PICK e \in Nat : e = d
          BY <5>1
        <5>4. EnvAt(n)'[q] = IF e = 0 THEN NULL ELSE ValueAt(e, n)'
          BY <5>1, <5>3, <4>1, <1>1 DEF EnvRead
        <5>5. e # 0 => ValueAt(e, n)' = ValueAt(e, n)
          BY <5>1, <5>3, <2>6
        <5>6. QED
          BY <5>2, <5>3, <5>4, <5>5
      <4>4. QED
        BY <4>2, <4>3
    <3>2. QED
      BY <3>1 DEF EnvAt
  <2>9. [q \in Keys |-> symtab_lookup(q)]' =
          [[q \in Keys |-> symtab_lookup(q)] EXCEPT ![k] = v]
    <3>1. ASSUME NEW q \in Keys
          PROVE  symtab_lookup(q)' = IF q = k THEN v ELSE symtab_lookup(q)
      <4>1. symtab_lookup(q) = IF Owner(q) = 0 THEN NULL ELSE heap[Owner(q)].val
        BY DEF symtab_lookup, Owner
      <4>2. symtab_lookup(q)' = IF Owner(q)' = 0 THEN NULL ELSE heap'[Owner(q)'].val
        BY DEF symtab_lookup, Owner
      <4>3. Owner(q) # 0 => Owner(q) \in DOMAIN heap
        BY <1>1 DEF OwnerUnique
      <4>4. QED
        BY <4>1, <4>2, <4>3, <2>1, <2>3, <2>4
    <3>2. QED
      BY <3>1
  <2>10. Len(undo') = Len(undo) + 1
    BY <2>2, UndoPush
  <2>11. QED
    BY <2>8, <2>9, <2>10, <1>0
<1>4. QED
  BY <1>2, <1>3 DEF symtab_insert

(* Pushing a mark changes no environment, remembered or current.           *)
LEMMA EnterEnv ==
  ASSUME TableInv, TableInv', symtab_enter_scope
  PROVE  /\ \A n \in 0 .. Len(undo) : EnvAt(n)' = EnvAt(n)
         /\ Len(undo') = Len(undo) + 1
         /\ [q \in Keys |-> symtab_lookup(q)]' = [q \in Keys |-> symtab_lookup(q)]
<1>1. OwnerUnique /\ OwnerUnique' /\ EnvRead /\ EnvRead'
  BY OwnerIsUnique, OwnerIsUniqueNext, EnvAtReads, EnvAtReadsNext
<1>2. heap' = heap /\ chain' = chain /\ undo' = Append(undo, Mark)
  BY DEF symtab_enter_scope
<1>3. Mark \in Undo /\ Mark.is_mark
  BY DEF Mark, Undo
<1>4. \A d \in DOMAIN heap, n \in 0 .. Len(undo) : ValueAt(d, n)' = ValueAt(d, n)
  BY <1>2, <1>3, PushKeepsValue
<1>5. \A q \in Keys : Owner(q)' = Owner(q) /\ symtab_lookup(q)' = symtab_lookup(q)
  BY <1>2 DEF Owner, tab_lookup, Hits, symtab_lookup
<1>6. Len(undo) \in Nat /\ Len(undo') = Len(undo) + 1
  BY <1>2, <1>3, UndoPush DEF TableInv, TypeOK
<1>7. ASSUME NEW n \in 0 .. Len(undo), NEW q \in Keys
      PROVE  EnvAt(n)'[q] = EnvAt(n)[q]
  <2>1. PICK e \in Nat : e = Owner(q) /\ (e # 0 => e \in DOMAIN heap)
    BY <1>1 DEF OwnerUnique
  <2>2. n \in Nat /\ e = Owner(q)'
    BY <2>1, <1>5, <1>6
  <2>3. EnvAt(n)[q] = IF e = 0 THEN NULL ELSE ValueAt(e, n)
    BY <2>1, <2>2, <1>1 DEF EnvRead
  <2>4. EnvAt(n)'[q] = IF e = 0 THEN NULL ELSE ValueAt(e, n)'
    BY <2>2, <1>1 DEF EnvRead
  <2>5. QED
    BY <2>1, <2>3, <2>4, <1>4
<1>8. \A n \in 0 .. Len(undo) : EnvAt(n)' = EnvAt(n)
  BY <1>7 DEF EnvAt
<1>9. QED
  BY <1>5, <1>6, <1>8

(* Popping an entry, with its bucket restored, changes no environment that *)
(* the remaining list remembers.                                           *)
LEMMA PopEnv ==
  ASSUME TableInv, TableInv', UndoStep \/ EndExit, undo # <<>>, undo' = Popped
  PROVE  \A n \in 0 .. Len(undo) - 1 : EnvAt(n)' = EnvAt(n)
<1>0. Len(undo) \in Nat \ {0} /\ DOMAIN undo = 1 .. Len(undo) /\ undo \in Seq(Undo)
  BY UndoPop DEF TableInv, TypeOK
<1>1. OwnerUnique /\ OwnerUnique' /\ EnvRead /\ EnvRead'
  BY OwnerIsUnique, OwnerIsUniqueNext, EnvAtReads, EnvAtReadsNext
<1>2. \A d \in DOMAIN heap :
        heap'[d].val = IF ~Top.is_mark /\ Top.bucket = d THEN Top.oldval ELSE heap[d].val
  <2>1. CASE UndoStep
    <3>1. ~Top.is_mark /\ heap' = [heap EXCEPT ![Top.bucket].val = Top.oldval] /\ chain' = chain
      BY <2>1 DEF UndoStep
    <3>2. Top.bucket \in DOMAIN heap
      BY <3>1, TopOK
    <3>3. Top.oldval \in Vals \union {NULL}
      BY TopOK
    <3>4. \A d \in DOMAIN heap : heap'[d].val = IF d = Top.bucket THEN Top.oldval ELSE heap[d].val
      BY <3>1, <3>2, <3>3, WriteTable
    <3>5. QED
      BY <3>1, <3>4
  <2>2. CASE EndExit
    <3>1. heap' = heap /\ Top.is_mark
      BY <2>2, <1>0 DEF EndExit
    <3>2. QED
      BY <3>1
  <2>3. QED
    BY <2>1, <2>2
<1>3. \A d \in DOMAIN heap, n \in 0 .. Len(undo) - 1 : ValueAt(d, n)' = ValueAt(d, n)
  BY <1>2, PopKeepsValue
<1>4. \A q \in Keys : Owner(q)' = Owner(q)
  <2>1. CASE UndoStep
    <3>1. ~Top.is_mark /\ heap' = [heap EXCEPT ![Top.bucket].val = Top.oldval] /\ chain' = chain
      BY <2>1 DEF UndoStep
    <3>2. Top.bucket \in DOMAIN heap
      BY <3>1, TopOK
    <3>3. Top.oldval \in Vals \union {NULL}
      BY TopOK
    <3>4. DOMAIN heap' = DOMAIN heap /\ \A d \in DOMAIN heap : heap'[d].key = heap[d].key
      BY <3>1, <3>2, <3>3, WriteTable
    <3>5. QED
      BY <3>4, <1>1 DEF OwnerUnique
  <2>2. CASE EndExit
    BY <2>2 DEF EndExit, Owner, tab_lookup, Hits
  <2>3. QED
    BY <2>1, <2>2
<1>5. ASSUME NEW n \in 0 .. Len(undo) - 1, NEW q \in Keys
      PROVE  EnvAt(n)'[q] = EnvAt(n)[q]
  <2>1. PICK e \in Nat : e = Owner(q) /\ (e # 0 => e \in DOMAIN heap)
    BY <1>1 DEF OwnerUnique
  <2>2. n \in Nat /\ e = Owner(q)'
    BY <2>1, <1>4, <1>0
  <2>3. EnvAt(n)[q] = IF e = 0 THEN NULL ELSE ValueAt(e, n)
    BY <2>1, <2>2, <1>1 DEF EnvRead
  <2>4. EnvAt(n)'[q] = IF e = 0 THEN NULL ELSE ValueAt(e, n)'
    BY <2>2, <1>1 DEF EnvRead
  <2>5. QED
    BY <2>1, <2>3, <2>4, <1>3
<1>6. QED
  BY <1>5 DEF EnvAt

-----------------------------------------------------------------------------
(* The inductive invariant.  The history variable lists the marks, and the *)
(* whole undo list takes the table back to an empty environment.           *)
IInv == TableInv /\ UndoComplete /\ MarksOK

LEMMA SameEnv ==
  ASSUME UNCHANGED <<heap, chain, undo>>, NEW n
  PROVE  EnvAt(n)' = EnvAt(n)
<1>1. \A k : tab_lookup(chain[Hash[k]], k)' = tab_lookup(chain[Hash[k]], k)
  BY DEF tab_lookup, Hits
<1>2. \A b : Entries(b, n)' = Entries(b, n)
  BY DEF Entries
<1>3. \A b : ValueAt(b, n)' = ValueAt(b, n)
  BY <1>2 DEF ValueAt
<1>4. QED
  BY <1>1, <1>3 DEF EnvAt

LEMMA UndoCompleteStep ==
  ASSUME TableInv, TableInv', UndoComplete, [Next]_vars
  PROVE  UndoComplete'
<1>0. Len(undo) \in Nat /\ 0 \in 0 .. Len(undo)
  BY DEF TableInv, TypeOK
<1>1. CASE \E k \in Keys, v \in Vals \union {NULL} : symtab_insert(k, v)
  BY <1>0, <1>1, InsertEnv DEF UndoComplete
<1>2. CASE symtab_enter_scope
  BY <1>0, <1>2, EnterEnv DEF UndoComplete
<1>3. CASE (UndoStep \/ EndExit) /\ undo # <<>> /\ undo' = Popped
  <2>1. 0 \in 0 .. Len(undo) - 1
    BY <1>3, UndoPop
  <2>2. QED
    BY <1>3, <2>1, PopEnv DEF UndoComplete
<1>4. CASE UNCHANGED <<heap, chain, undo>>
  BY <1>4, SameEnv DEF UndoComplete
<1>5. QED
  BY <1>1, <1>2, <1>3, <1>4
  DEF Next, vars, symtab_exit_scope, BeginExit, UndoStep, EndExit

LEMMA InitUndoComplete == Init => UndoComplete
<1> SUFFICES ASSUME Init PROVE UndoComplete
  OBVIOUS
<1>1. \A h \in Chains : DOMAIN chain[h] = {}
  BY DEF Init
<1>2. \A k \in Keys : tab_lookup(chain[Hash[k]], k) = 0
  BY <1>1, HashAssumption DEF tab_lookup, Hits, Chains
<1>3. QED
  BY <1>2 DEF UndoComplete, EnvAt

LEMMA InitInv == HInit => IInv
<1> SUFFICES ASSUME HInit PROVE IInv
  OBVIOUS
<1>1. TableInv
  BY InitTable DEF HInit
<1>2. UndoComplete
  BY InitUndoComplete DEF HInit
<1>3. MarksOK
  BY DEF HInit, Init, MarksOK
<1>4. QED
  BY <1>1, <1>2, <1>3 DEF IInv

(* The marks listed are below the top of the undo list; the last of them is *)
(* the innermost.                                                          *)
LEMMA MarksFacts ==
  ASSUME TableInv, MarksOK
  PROVE  /\ marks \in Seq(Nat \ {0}) /\ Len(marks) \in Nat /\ DOMAIN marks = 1 .. Len(marks)
         /\ Len(undo) \in Nat /\ DOMAIN undo = 1 .. Len(undo)
         /\ \A i \in DOMAIN marks : marks[i] \in 1 .. Len(undo)
         /\ marks # <<>> => Len(marks) \in DOMAIN marks
         /\ undo # <<>> /\ Top.is_mark => marks # <<>> /\ marks[Len(marks)] = Len(undo)
         /\ undo # <<>> /\ ~Top.is_mark =>
              \A i \in DOMAIN marks : marks[i] \in 1 .. Len(undo) - 1
<1>1. marks \in Seq(Nat \ {0}) /\ Len(marks) \in Nat /\ DOMAIN marks = 1 .. Len(marks)
  BY DEF MarksOK
<1>2. undo \in Seq(Undo) /\ Len(undo) \in Nat /\ DOMAIN undo = 1 .. Len(undo)
  BY DEF TableInv, TypeOK
<1>3. \A i \in DOMAIN marks : marks[i] \in 1 .. Len(undo)
  BY <1>2 DEF MarksOK
<1>4. marks # <<>> => Len(marks) \in DOMAIN marks
  BY <1>1
<1>5. ASSUME undo # <<>>, Top.is_mark
      PROVE  marks # <<>> /\ marks[Len(marks)] = Len(undo)
  <2>1. Len(undo) \in DOMAIN undo /\ undo[Len(undo)].is_mark
    BY <1>2, <1>5 DEF Top
  <2>2. PICK i \in DOMAIN marks : marks[i] = Len(undo)
    BY <2>1 DEF MarksOK
  <2>3. marks # <<>>
    BY <2>2, <1>1
  <2>4. i = Len(marks)
    <3>1. CASE i < Len(marks)
      <4>1. marks[i] < marks[Len(marks)] /\ marks[Len(marks)] \in 1 .. Len(undo)
        BY <3>1, <2>3, <1>3, <1>4 DEF MarksOK
      <4>2. QED
        BY <4>1, <2>2, <1>2
    <3>2. QED
      BY <3>1, <1>1
  <2>5. QED
    BY <2>2, <2>3, <2>4
<1>6. ASSUME undo # <<>>, ~Top.is_mark, NEW i \in DOMAIN marks
      PROVE  marks[i] \in 1 .. Len(undo) - 1
  <2>1. marks[i] # Len(undo)
    BY <1>6 DEF MarksOK, Top
  <2>2. QED
    BY <2>1, <1>2, <1>3
<1>7. QED
  BY <1>1, <1>2, <1>3, <1>4, <1>5, <1>6

(* The marks that remain when the innermost is popped.                     *)
LEMMA MarksPop ==
  ASSUME TableInv, MarksOK, marks # <<>>, marks' = SubSeq(marks, 1, Len(marks) - 1)
  PROVE  /\ marks' \in Seq(Nat \ {0})
         /\ Len(marks') = Len(marks) - 1
         /\ DOMAIN marks' = 1 .. Len(marks) - 1
         /\ \A i \in 1 .. Len(marks) - 1 : marks'[i] = marks[i] /\ i \in DOMAIN marks
                                           /\ marks[i] < marks[Len(marks)]
<1>1. marks \in Seq(Nat \ {0}) /\ Len(marks) \in Nat \ {0} /\ DOMAIN marks = 1 .. Len(marks)
  BY MarksFacts
<1>2. \A i \in 1 .. Len(marks) - 1 : marks[i] \in Nat \ {0} /\ i \in DOMAIN marks /\ i < Len(marks)
  BY <1>1
<1>3. marks' \in Seq(Nat \ {0}) /\ Len(marks') = Len(marks) - 1
      /\ \A i \in 1 .. Len(marks) - 1 : marks'[i] = marks[i]
  BY <1>1, <1>2
<1>4. DOMAIN marks' = 1 .. Len(marks) - 1
  BY <1>1, <1>3
<1>5. Len(marks) \in DOMAIN marks
  BY <1>1
<1>6. QED
  BY <1>2, <1>3, <1>4, <1>5 DEF MarksOK

LEMMA MarksStep ==
  ASSUME TableInv, MarksOK, [HNext]_hvars
  PROVE  MarksOK'
<1>0. /\ marks \in Seq(Nat \ {0}) /\ Len(marks) \in Nat /\ DOMAIN marks = 1 .. Len(marks)
      /\ Len(undo) \in Nat /\ DOMAIN undo = 1 .. Len(undo)
      /\ \A i \in DOMAIN marks : marks[i] \in 1 .. Len(undo)
  BY MarksFacts
<1>1. ASSUME NEW k \in Keys, NEW v \in Vals \union {NULL}, HInsert(k, v)
      PROVE  MarksOK'
  <2>1. PICK e \in Undo : undo' = Append(undo, e) /\ ~e.is_mark
    <3>1. CASE Overwrite(k, v)
      <4> DEFINE b == Owner(k)
      <4>1. b \in DOMAIN heap /\ undo' = Append(undo, Saving(b, heap[b].val))
        BY <3>1, OwnerIsUnique DEF OwnerUnique, Overwrite, Owner
      <4>2. heap \in Seq(Bucket)
        BY DEF TableInv, TypeOK
      <4>3. heap[b] \in Bucket /\ b \in Nat
        BY <4>1, <4>2
      <4>4. heap[b].val \in Vals \union {NULL}
        BY <4>3 DEF Bucket
      <4> HIDE DEF b
      <4>5. Saving(b, heap[b].val) \in Undo /\ ~Saving(b, heap[b].val).is_mark
        BY <4>3, <4>4 DEF Saving, Undo
      <4>6. QED
        BY <4>1, <4>5
    <3>2. CASE AddBucket(k, v)
      <4>1. undo' = Append(undo, Saving(Len(heap) + 1, NULL)) /\ Len(heap) \in Nat
        BY <3>2 DEF AddBucket, TableInv, TypeOK
      <4>2. Saving(Len(heap) + 1, NULL) \in Undo /\ ~Saving(Len(heap) + 1, NULL).is_mark
        BY <4>1 DEF Saving, Undo
      <4>3. QED
        BY <4>1, <4>2
    <3>3. QED
      BY <1>1, <3>1, <3>2 DEF HInsert, symtab_insert
  <2>2. /\ DOMAIN undo' = 1 .. Len(undo) + 1
        /\ undo'[Len(undo) + 1] = e
        /\ \A i \in DOMAIN undo : undo'[i] = undo[i]
    BY <2>1, UndoPush
  <2>3. marks' = marks
    BY <1>1 DEF HInsert
  <2>4. \A p \in DOMAIN undo' : undo'[p].is_mark => p \in DOMAIN undo /\ undo[p].is_mark
    BY <2>1, <2>2, <1>0
  <2>5. \A i \in DOMAIN marks : marks[i] \in DOMAIN undo' /\ undo'[marks[i]].is_mark
    BY <2>2, <1>0 DEF MarksOK
  <2>6. QED
    BY <2>3, <2>4, <2>5 DEF MarksOK
<1>2. CASE HEnter
  <2>1. marks' = Append(marks, Len(undo) + 1) /\ undo' = Append(undo, Mark) /\ Mark \in Undo /\ Mark.is_mark
    BY <1>2 DEF HEnter, symtab_enter_scope, Mark, Undo
  <2>2. /\ DOMAIN undo' = 1 .. Len(undo) + 1
        /\ undo'[Len(undo) + 1] = Mark
        /\ \A i \in DOMAIN undo : undo'[i] = undo[i]
    BY <2>1, UndoPush
  <2>3. /\ marks' \in Seq(Nat \ {0}) /\ DOMAIN marks' = 1 .. Len(marks) + 1
        /\ marks'[Len(marks) + 1] = Len(undo) + 1
        /\ \A i \in DOMAIN marks : i \in DOMAIN marks' /\ marks'[i] = marks[i]
    BY <2>1, <1>0
  <2>4. \A i \in DOMAIN marks' : marks'[i] \in DOMAIN undo' /\ undo'[marks'[i]].is_mark
    <3> SUFFICES ASSUME NEW i \in DOMAIN marks'
                 PROVE  marks'[i] \in DOMAIN undo' /\ undo'[marks'[i]].is_mark
      OBVIOUS
    <3>1. CASE i = Len(marks) + 1
      BY <3>1, <2>1, <2>2, <2>3, <1>0
    <3>2. CASE i # Len(marks) + 1
      <4>1. i \in DOMAIN marks /\ marks'[i] = marks[i] /\ marks[i] \in DOMAIN undo
        BY <3>2, <2>3, <1>0
      <4>2. QED
        BY <4>1, <2>2, <1>0 DEF MarksOK
    <3>3. QED
      BY <3>1, <3>2
  <2>5. \A i, j \in DOMAIN marks' : i < j => marks'[i] < marks'[j]
    <3> SUFFICES ASSUME NEW i \in DOMAIN marks', NEW j \in DOMAIN marks', i < j
                 PROVE  marks'[i] < marks'[j]
      OBVIOUS
    <3>1. i \in DOMAIN marks /\ marks'[i] = marks[i] /\ marks[i] \in 1 .. Len(undo)
      BY <2>3, <1>0
    <3>2. CASE j = Len(marks) + 1
      BY <3>1, <3>2, <2>3, <1>0
    <3>3. CASE j # Len(marks) + 1
      <4>1. j \in DOMAIN marks /\ marks'[j] = marks[j]
        BY <3>3, <2>3, <1>0
      <4>2. QED
        BY <4>1, <3>1 DEF MarksOK
    <3>4. QED
      BY <3>2, <3>3
  <2>6. \A p \in DOMAIN undo' : undo'[p].is_mark => \E i \in DOMAIN marks' : marks'[i] = p
    <3> SUFFICES ASSUME NEW p \in DOMAIN undo', undo'[p].is_mark
                 PROVE  \E i \in DOMAIN marks' : marks'[i] = p
      OBVIOUS
    <3>1. CASE p = Len(undo) + 1
      BY <3>1, <2>3, <1>0
    <3>2. CASE p # Len(undo) + 1
      <4>1. p \in DOMAIN undo /\ undo[p].is_mark
        BY <3>2, <2>2, <1>0
      <4>2. QED
        BY <4>1, <2>3 DEF MarksOK
    <3>3. QED
      BY <3>1, <3>2
  <2>7. QED
    BY <2>3, <2>4, <2>5, <2>6 DEF MarksOK
<1>3. CASE HUndo
  <2>1. undo # <<>> /\ undo' = Popped /\ ~Top.is_mark /\ marks' = marks
    BY <1>3 DEF HUndo, UndoStep
  <2>2. /\ DOMAIN undo' = 1 .. Len(undo) - 1
        /\ \A i \in DOMAIN undo' : undo'[i] = undo[i] /\ i \in DOMAIN undo
    BY <2>1, <1>0, UndoPop
  <2>3. \A i \in DOMAIN marks : marks[i] \in DOMAIN undo'
    BY <2>1, <2>2, MarksFacts
  <2>4. QED
    BY <2>1, <2>2, <2>3 DEF MarksOK
<1>4. CASE HEnd /\ undo # <<>>
  <2>1. Top.is_mark /\ undo' = Popped /\ marks' = SubSeq(marks, 1, Len(marks) - 1)
    BY <1>4 DEF HEnd, EndExit
  <2>2. marks # <<>> /\ marks[Len(marks)] = Len(undo)
    BY <2>1, <1>4, MarksFacts
  <2>3. /\ DOMAIN undo' = 1 .. Len(undo) - 1
        /\ \A i \in DOMAIN undo' : undo'[i] = undo[i] /\ i \in DOMAIN undo /\ i # Len(undo)
    BY <2>1, <1>0, <1>4, UndoPop
  <2>4. /\ marks' \in Seq(Nat \ {0}) /\ DOMAIN marks' = 1 .. Len(marks) - 1
        /\ \A i \in 1 .. Len(marks) - 1 : marks'[i] = marks[i] /\ i \in DOMAIN marks
                                          /\ marks[i] < marks[Len(marks)]
    BY <2>1, <2>2, MarksPop
  <2>5. \A i \in DOMAIN marks' : marks'[i] \in DOMAIN undo' /\ undo'[marks'[i]].is_mark
    <3> SUFFICES ASSUME NEW i \in DOMAIN marks'
                 PROVE  marks'[i] \in DOMAIN undo' /\ undo'[marks'[i]].is_mark
      OBVIOUS
    <3>1. marks'[i] = marks[i] /\ i \in DOMAIN marks /\ marks[i] < Len(undo)
      BY <2>2, <2>4
    <3>2. marks[i] \in 1 .. Len(undo)
      BY <3>1, <1>0
    <3>3. marks[i] \in DOMAIN undo'
      BY <3>1, <3>2, <2>3, <1>0
    <3>4. QED
      BY <3>1, <3>3, <2>3 DEF MarksOK
  <2>6. \A p \in DOMAIN undo' : undo'[p].is_mark => \E i \in DOMAIN marks' : marks'[i] = p
    <3> SUFFICES ASSUME NEW p \in DOMAIN undo', undo'[p].is_mark
                 PROVE  \E i \in DOMAIN marks' : marks'[i] = p
      OBVIOUS
    <3>1. PICK i \in DOMAIN marks : marks[i] = p
      BY <2>3 DEF MarksOK
    <3>2. i # Len(marks)
      BY <3>1, <2>2, <2>3
    <3>3. i \in 1 .. Len(marks) - 1
      BY <3>2, <1>0
    <3>4. QED
      BY <3>1, <3>3, <2>4
  <2>7. \A i, j \in DOMAIN marks' : i < j => marks'[i] < marks'[j]
    BY <2>4 DEF MarksOK
  <2>8. QED
    BY <2>4, <2>5, <2>6, <2>7 DEF MarksOK
<1>5. CASE UNCHANGED <<undo, marks>>
  BY <1>5 DEF MarksOK
<1>6. QED
  BY <1>1, <1>2, <1>3, <1>4, <1>5
  DEF HNext, hvars, HBegin, BeginExit, HEnd, EndExit

LEMMA HNextIsNext == [HNext]_hvars => [Next]_vars
BY DEF HNext, hvars, Next, vars, HInsert, HEnter, HBegin, HUndo, HEnd, symtab_exit_scope

LEMMA IInvStep == IInv /\ [HNext]_hvars => IInv'
<1> SUFFICES ASSUME IInv, [HNext]_hvars PROVE IInv'
  OBVIOUS
<1>1. [Next]_vars
  BY HNextIsNext
<1>2. TableInv'
  BY <1>1, TableStep DEF IInv
<1>3. UndoComplete'
  BY <1>1, <1>2, UndoCompleteStep DEF IInv
<1>4. MarksOK'
  BY MarksStep DEF IInv
<1>5. QED
  BY <1>2, <1>3, <1>4 DEF IInv

(* A symbol table never loses a binding it must give back, nor keeps one   *)
(* it must take away: popping the whole undo list always leads back to the *)
(* empty environment (symtab_insert's two branches, symtab_exit_scope).    *)
THEOREM UndoListComplete == Spec => []UndoComplete
<1>1. Init => TableInv /\ UndoComplete
  BY InitTable, InitUndoComplete
<1>2. TableInv /\ UndoComplete /\ [Next]_vars => (TableInv /\ UndoComplete)'
  BY TableStep, UndoCompleteStep
<1>3. QED
  BY <1>1, <1>2, PTL DEF Spec

-----------------------------------------------------------------------------
(* The refinement, step by step.                                           *)

LEMMA InitRefines == HInit => Env!EnvInit
<1> SUFFICES ASSUME HInit PROVE Env!EnvInit
  OBVIOUS
<1>1. UndoComplete
  BY InitInv DEF IInv
<1>2. pc = "idle" /\ undo = <<>> /\ marks = <<>>
  BY DEF HInit, Init
<1>3. curBar = [k \in Keys |-> NULL]
  BY <1>1, <1>2 DEF curBar, UndoComplete
<1>4. savedBar = <<>>
  BY <1>2 DEF savedBar, OpenScopes
<1>5. QED
  BY <1>3, <1>4 DEF Env!EnvInit, Env!EmptyEnv

(* A step after which the marks of the open scopes are where they were,    *)
(* and which changes none of the environments at or below position n,     *)
(* keeps the abstract stack.                                               *)
LEMMA SavedKept ==
  ASSUME NEW m \in Nat, NEW n \in Nat,
         \A j \in 0 .. n : EnvAt(j)' = EnvAt(j),
         \A i \in 1 .. m : marks'[i] = marks[i] /\ marks[i] \in 0 .. n
  PROVE  [i \in 1 .. m |-> EnvAt(marks[i])]' = [i \in 1 .. m |-> EnvAt(marks[i])]
<1>1. ASSUME NEW i \in 1 .. m
      PROVE  EnvAt(marks[i])' = EnvAt(marks[i])
  <2>1. PICK j \in 0 .. n : j = marks[i] /\ j = marks'[i]
    OBVIOUS
  <2>2. EnvAt(j)' = EnvAt(j)
    OBVIOUS
  <2>3. EnvAt(marks[i])' = EnvAt(j)'
    BY <2>1
  <2>4. QED
    BY <2>1, <2>2, <2>3
<1>2. QED
  BY <1>1

LEMMA InsertRefines ==
  ASSUME IInv, IInv', NEW k \in Keys, NEW v \in Vals \union {NULL}, HInsert(k, v)
  PROVE  Env!Bind(k, v)
<1>1. symtab_insert(k, v) /\ marks' = marks /\ pc = "idle" /\ pc' = "idle"
  BY DEF HInsert, symtab_insert
<1>2. TableInv /\ TableInv' /\ MarksOK
  BY DEF IInv
<1>3. /\ \A n \in 0 .. Len(undo) : EnvAt(n)' = EnvAt(n)
      /\ [q \in Keys |-> symtab_lookup(q)]' = [[q \in Keys |-> symtab_lookup(q)] EXCEPT ![k] = v]
  BY <1>1, <1>2, InsertEnv
<1>4. curBar' = [curBar EXCEPT ![k] = v]
  <2>1. curBar = [q \in Keys |-> symtab_lookup(q)]
    BY <1>1, <1>2, EnvAtTop DEF curBar
  <2>2. curBar' = [q \in Keys |-> symtab_lookup(q)]'
    BY <1>1, <1>2, EnvAtTopNext DEF curBar
  <2>3. QED
    BY <2>1, <2>2, <1>3
<1>5. savedBar' = savedBar
  <2>1. PICK m \in Nat : m = Len(marks)
    BY <1>2, MarksFacts
  <2>2. PICK n \in Nat : n = Len(undo)
    BY <1>2, MarksFacts
  <2>3. \A i \in 1 .. m : marks'[i] = marks[i] /\ marks[i] \in 0 .. n
    BY <1>1, <1>2, <2>1, <2>2, MarksFacts
  <2>4. [i \in 1 .. m |-> EnvAt(marks[i])]' = [i \in 1 .. m |-> EnvAt(marks[i])]
    BY <1>3, <2>2, <2>3, SavedKept
  <2>5. OpenScopes = m /\ OpenScopes' = m
    BY <1>1, <2>1 DEF OpenScopes
  <2>6. QED
    BY <2>4, <2>5 DEF savedBar
<1>6. QED
  BY <1>4, <1>5 DEF Env!Bind

LEMMA EnterRefines ==
  ASSUME IInv, IInv', HEnter
  PROVE  Env!Enter
<1>1. symtab_enter_scope /\ marks' = Append(marks, Len(undo) + 1) /\ pc = "idle" /\ pc' = "idle"
  BY DEF HEnter, symtab_enter_scope
<1>2. TableInv /\ TableInv' /\ MarksOK
  BY DEF IInv
<1>3. /\ \A n \in 0 .. Len(undo) : EnvAt(n)' = EnvAt(n)
      /\ Len(undo') = Len(undo) + 1
      /\ [q \in Keys |-> symtab_lookup(q)]' = [q \in Keys |-> symtab_lookup(q)]
  BY <1>1, <1>2, EnterEnv
<1>4. curBar = [q \in Keys |-> symtab_lookup(q)]
  BY <1>1, <1>2, EnvAtTop DEF curBar
<1>5. EnvAt(Len(undo))' = [q \in Keys |-> symtab_lookup(q)]' /\ curBar' = EnvAt(Len(undo))'
  BY <1>1, <1>2, EnvAtTopNext DEF curBar
<1>6. curBar' = curBar
  BY <1>3, <1>4, <1>5
<1>7. PICK m \in Nat : m = Len(marks)
  BY <1>2, MarksFacts
<1>8. PICK n \in Nat : n = Len(undo)
  BY <1>2, MarksFacts
<1>9. /\ Len(marks') = m + 1
      /\ marks'[m + 1] = n + 1
      /\ \A i \in 1 .. m : marks'[i] = marks[i] /\ marks[i] \in 0 .. n
  BY <1>1, <1>2, <1>7, <1>8, MarksFacts
<1>10. [i \in 1 .. m |-> EnvAt(marks[i])]' = [i \in 1 .. m |-> EnvAt(marks[i])]
  BY <1>3, <1>8, <1>9, SavedKept
<1>11. savedBar = [i \in 1 .. m |-> EnvAt(marks[i])]
  BY <1>1, <1>7 DEF savedBar, OpenScopes
<1>12. savedBar' = [i \in 1 .. m + 1 |-> EnvAt(marks[i])]'
  BY <1>1, <1>9 DEF savedBar, OpenScopes
<1>13. EnvAt(marks[m + 1])' = curBar
  <2>1. EnvAt(marks[m + 1])' = EnvAt(Len(undo))'
    BY <1>3, <1>8, <1>9
  <2>2. QED
    BY <2>1, <1>5, <1>6
<1>14. savedBar' = Append(savedBar, curBar)
  BY <1>10, <1>11, <1>12, <1>13
<1>15. QED
  BY <1>6, <1>14 DEF Env!Enter

LEMMA BeginRefines ==
  ASSUME IInv, IInv', HBegin
  PROVE  Env!Leave
<1>1. BeginExit /\ UNCHANGED <<heap, chain, undo, marks>> /\ pc = "idle" /\ pc' = "exit"
  BY DEF HBegin, BeginExit
<1>2. TableInv /\ MarksOK /\ UndoComplete
  BY DEF IInv
<1>3. PICK m \in Nat : m = Len(marks)
  BY <1>2, MarksFacts
<1>4. PICK n \in Nat : n = Len(undo)
  BY <1>2, MarksFacts
<1>5. \A j : EnvAt(j)' = EnvAt(j)
  BY <1>1, SameEnv
<1>6. \A i \in 1 .. m : marks'[i] = marks[i] /\ marks[i] \in 0 .. n
  BY <1>1, <1>2, <1>3, <1>4, MarksFacts
<1>7. savedBar = [i \in 1 .. m |-> EnvAt(marks[i])]
  BY <1>1, <1>3 DEF savedBar, OpenScopes
<1>8. CASE marks = <<>>
  <2>1. savedBar = <<>> /\ savedBar' = <<>> /\ m = 0
    BY <1>1, <1>3, <1>7, <1>8 DEF savedBar, OpenScopes
  <2>2. curBar' = EnvAt(0)'
    BY <1>1, <1>8 DEF curBar, Bottom
  <2>3. curBar' = Env!EmptyEnv
    BY <2>2, <1>2, <1>5 DEF UndoComplete, Env!EmptyEnv
  <2>4. QED
    BY <2>1, <2>3 DEF Env!Leave
<1>9. CASE marks # <<>>
  <2>1. m \in Nat \ {0} /\ m - 1 \in Nat /\ m \in 1 .. m
    BY <1>2, <1>3, <1>9, MarksFacts
  <2>2. savedBar' = [i \in 1 .. m - 1 |-> EnvAt(marks[i])]'
    BY <1>1, <1>3, <1>9 DEF savedBar, OpenScopes
  <2>3. \A i \in 1 .. m - 1 : i \in 1 .. m
    BY <2>1
  <2>4. \A i \in 1 .. m - 1 : marks'[i] = marks[i] /\ marks[i] \in 0 .. n
    BY <2>3, <1>6
  <2>5. [i \in 1 .. m - 1 |-> EnvAt(marks[i])]' = [i \in 1 .. m - 1 |-> EnvAt(marks[i])]
    BY <2>1, <2>4, <1>5, SavedKept
  <2>6. savedBar' = SubSeq(savedBar, 1, Len(savedBar) - 1)
    BY <2>1, <2>2, <2>3, <2>5, <1>7
  <2>7. curBar' = EnvAt(marks[m])'
    BY <1>1, <1>3, <1>9 DEF curBar, Bottom
  <2>8. PICK j \in 0 .. n : j = marks[m] /\ j = marks'[m]
    BY <2>1, <1>6
  <2>9. EnvAt(marks[m])' = EnvAt(j)' /\ EnvAt(j)' = EnvAt(j) /\ EnvAt(marks[m]) = EnvAt(j)
    BY <2>8, <1>5
  <2>10. savedBar # <<>> /\ Len(savedBar) = m /\ savedBar[m] = EnvAt(marks[m])
    BY <2>1, <1>7
  <2>11. curBar' = savedBar[Len(savedBar)]
    BY <2>7, <2>9, <2>10
  <2>12. QED
    BY <2>6, <2>10, <2>11 DEF Env!Leave
<1>10. QED
  BY <1>8, <1>9

LEMMA UndoStutters ==
  ASSUME IInv, IInv', HUndo
  PROVE  curBar' = curBar /\ savedBar' = savedBar
<1>1. /\ UndoStep /\ marks' = marks /\ pc = "exit" /\ pc' = "exit"
      /\ undo # <<>> /\ ~Top.is_mark /\ undo' = Popped
  BY DEF HUndo, UndoStep
<1>2. TableInv /\ TableInv' /\ MarksOK
  BY DEF IInv
<1>3. PICK m \in Nat : m = Len(marks)
  BY <1>2, MarksFacts
<1>4. PICK n \in Nat : n = Len(undo) - 1
  BY <1>1, <1>2, UndoPop
<1>5. \A j \in 0 .. n : EnvAt(j)' = EnvAt(j)
  BY <1>1, <1>2, <1>4, PopEnv
<1>6. \A i \in 1 .. m : marks'[i] = marks[i] /\ marks[i] \in 0 .. n
  BY <1>1, <1>2, <1>3, <1>4, MarksFacts
<1>7. PICK o \in Nat : o = OpenScopes /\ o = OpenScopes' /\ o <= m
  <2>1. marks # <<>> => m > 0
    BY <1>2, <1>3, MarksFacts
  <2>2. OpenScopes = (IF marks # <<>> THEN m - 1 ELSE m) /\ OpenScopes' = OpenScopes
    BY <1>1, <1>3 DEF OpenScopes
  <2> QED BY <2>1, <2>2
<1>8. \A i \in 1 .. o : marks'[i] = marks[i] /\ marks[i] \in 0 .. n
  BY <1>3, <1>6, <1>7
<1>9. [i \in 1 .. o |-> EnvAt(marks[i])]' = [i \in 1 .. o |-> EnvAt(marks[i])]
  BY <1>4, <1>5, <1>8, SavedKept
<1>10. savedBar' = savedBar
  BY <1>7, <1>9 DEF savedBar
<1>11. PICK j \in 0 .. n : j = Bottom /\ j = Bottom'
  <2>1. CASE marks = <<>>
    BY <2>1, <1>1, <1>4 DEF Bottom
  <2>2. CASE marks # <<>>
    <3>1. m \in 1 .. m
      BY <2>2, <1>2, <1>3, MarksFacts
    <3>2. QED
      BY <3>1, <2>2, <1>1, <1>3, <1>6 DEF Bottom
  <2>3. QED
    BY <2>1, <2>2
<1>12. EnvAt(Bottom)' = EnvAt(j)' /\ EnvAt(j)' = EnvAt(j) /\ EnvAt(j) = EnvAt(Bottom)
  BY <1>5, <1>11
<1>13. curBar' = curBar
  BY <1>1, <1>12 DEF curBar
<1>14. QED
  BY <1>10, <1>13

LEMMA EndStutters ==
  ASSUME IInv, IInv', HEnd
  PROVE  curBar' = curBar /\ savedBar' = savedBar
<1>1. EndExit /\ pc = "exit" /\ pc' = "idle" /\ heap' = heap /\ chain' = chain
  BY DEF HEnd, EndExit
<1>2. TableInv /\ TableInv' /\ MarksOK
  BY DEF IInv
<1>3. \A q \in Keys : symtab_lookup(q)' = symtab_lookup(q)
  BY <1>1 DEF symtab_lookup, tab_lookup, Hits
<1>4. curBar' = [q \in Keys |-> symtab_lookup(q)]
  <2>1. curBar' = [q \in Keys |-> symtab_lookup(q)]'
    BY <1>1, <1>2, EnvAtTopNext DEF curBar
  <2>2. QED
    BY <2>1, <1>3
<1>5. CASE undo = <<>>
  <2>1. marks = <<>> /\ marks' = marks
    <3>1. marks' = marks
      BY <1>5 DEF HEnd
    <3>2. DOMAIN undo = {}
      BY <1>5
    <3>3. Len(marks) \notin DOMAIN marks
      BY <3>2 DEF MarksOK, IInv
    <3>4. QED
      BY <3>1, <3>3, <1>2, MarksFacts
  <2>2. savedBar = <<>> /\ savedBar' = <<>>
    BY <2>1 DEF savedBar, OpenScopes
  <2>3. curBar = EnvAt(Len(undo))
    BY <1>1, <1>5, <2>1 DEF curBar, Bottom
  <2>4. QED
    BY <2>2, <2>3, <1>2, <1>4, EnvAtTop
<1>6. CASE undo # <<>>
  <2>1. Top.is_mark /\ undo' = Popped /\ marks' = SubSeq(marks, 1, Len(marks) - 1)
    BY <1>1, <1>6 DEF HEnd, EndExit
  <2>2. marks # <<>> /\ marks[Len(marks)] = Len(undo)
    BY <2>1, <1>2, <1>6, MarksFacts
  <2>3. curBar = EnvAt(Len(undo))
    BY <2>2, <1>1 DEF curBar, Bottom
  <2>4. curBar' = curBar
    BY <2>3, <1>2, <1>4, EnvAtTop
  <2>5. PICK m \in Nat : m = Len(marks) - 1
    <3>1. Len(marks) \in 1 .. Len(marks) /\ Len(marks) \in Nat
      BY <2>2, <1>2, MarksFacts
    <3>2. QED
      BY <3>1
  <2>6. PICK n \in Nat : n = Len(undo) - 1
    BY <2>1, <1>2, <1>6, UndoPop
  <2>7. \A j \in 0 .. n : EnvAt(j)' = EnvAt(j)
    BY <2>1, <2>6, <1>1, <1>2, <1>6, PopEnv
  <2>8. /\ Len(marks') = m
        /\ \A i \in 1 .. m : marks'[i] = marks[i] /\ i \in DOMAIN marks
                             /\ marks[i] < Len(undo)
    BY <2>1, <2>2, <2>5, <1>2, MarksPop
  <2>9. \A i \in 1 .. m : marks'[i] = marks[i] /\ marks[i] \in 0 .. n
    BY <2>6, <2>8, <1>2, MarksFacts
  <2>10. [i \in 1 .. m |-> EnvAt(marks[i])]' = [i \in 1 .. m |-> EnvAt(marks[i])]
    BY <2>7, <2>9, SavedKept
  <2>11. OpenScopes = m /\ OpenScopes' = m
    BY <2>2, <2>5, <2>8, <1>1 DEF OpenScopes
  <2>12. QED
    BY <2>4, <2>10, <2>11 DEF savedBar
<1>7. QED
  BY <1>5, <1>6

LEMMA StepRefines == IInv /\ IInv' /\ [HNext]_hvars => [Env!EnvNext]_(Env!envVars)
<1> SUFFICES ASSUME IInv, IInv', [HNext]_hvars
             PROVE  [Env!EnvNext]_(Env!envVars)
  OBVIOUS
<1>1. ASSUME NEW k \in Keys, NEW v \in Vals \union {NULL}, HInsert(k, v)
      PROVE  Env!EnvNext
  BY <1>1, InsertRefines DEF Env!EnvNext
<1>2. CASE HEnter
  BY <1>2, EnterRefines DEF Env!EnvNext
<1>3. CASE HBegin
  BY <1>3, BeginRefines DEF Env!EnvNext
<1>4. CASE HUndo
  BY <1>4, UndoStutters DEF Env!envVars
<1>5. CASE HEnd
  BY <1>5, EndStutters DEF Env!envVars
<1>6. CASE UNCHANGED hvars
  <2>1. UNCHANGED <<heap, chain, undo>> /\ marks' = marks /\ pc' = pc
    BY <1>6 DEF hvars
  <2>2. PICK n \in Nat : n = Len(undo)
    BY MarksFacts DEF IInv
  <2>3. \A j : EnvAt(j)' = EnvAt(j)
    BY <2>1, SameEnv
  <2>4. PICK o \in Nat : o = OpenScopes /\ o = OpenScopes' /\ o <= Len(marks)
    <3>1. Len(marks) \in Nat /\ (marks # <<>> => Len(marks) \in 1 .. Len(marks))
      BY MarksFacts DEF IInv
    <3>2. OpenScopes \in Nat /\ OpenScopes <= Len(marks)
      BY <3>1 DEF OpenScopes
    <3>3. OpenScopes' = OpenScopes
      BY <2>1 DEF OpenScopes
    <3>4. QED
      BY <3>2, <3>3
  <2>5. \A i \in 1 .. o : marks'[i] = marks[i] /\ marks[i] \in 0 .. n
    BY <2>1, <2>2, <2>4, MarksFacts DEF IInv
  <2>6. savedBar' = savedBar
    BY <2>2, <2>3, <2>4, <2>5, SavedKept DEF savedBar
  <2>7. PICK j : j = Bottom /\ j = Bottom'
    BY <2>1 DEF Bottom
  <2>8. EnvAt(Bottom)' = EnvAt(Bottom)
    BY <2>3, <2>7
  <2>9. EnvAt(Len(undo))' = EnvAt(Len(undo))
    BY <2>1, <2>2, <2>3
  <2>10. curBar' = curBar
    BY <2>1, <2>8, <2>9 DEF curBar
  <2>11. QED
    BY <2>6, <2>10 DEF Env!envVars
<1>7. QED
  BY <1>1, <1>2, <1>3, <1>4, <1>5, <1>6 DEF HNext

LEMMA LookupIsCur == IInv => LookupReadsEnv
<1> SUFFICES ASSUME IInv, pc = "idle", NEW k \in Keys
             PROVE  symtab_lookup(k) = curBar[k]
  BY DEF LookupReadsEnv
<1>1. curBar = [q \in Keys |-> symtab_lookup(q)]
  BY EnvAtTop DEF curBar, IInv
<1>2. QED
  BY <1>1

(* Between calls a client's lookups read the abstract environment, so the  *)
(* refinement below is about what semant.c, trans.c and the other clients  *)
(* see (symtab_lookup).                                                    *)
THEOREM LookupsReadTheEnvironment == HSpec => []LookupReadsEnv
<1>1. HInit => IInv
  BY InitInv
<1>2. IInv /\ [HNext]_hvars => IInv'
  BY IInvStep
<1>3. IInv => LookupReadsEnv
  BY LookupIsCur
<1>4. QED
  BY <1>1, <1>2, <1>3, PTL DEF HSpec

(* The symbol table implements nested scopes, for every set of keys and    *)
(* values, every hash function and every number of chains: leaving a scope *)
(* gives back the environment it was entered with (symtab.c, whole file).  *)
THEOREM SymtabImplementsScopedEnv == HSpec => ImplementsScopedEnv
<1>1. HInit => IInv
  BY InitInv
<1>2. IInv /\ [HNext]_hvars => IInv'
  BY IInvStep
<1>3. HInit => Env!EnvInit
  BY InitRefines
<1>4. IInv /\ IInv' /\ [HNext]_hvars => [Env!EnvNext]_(Env!envVars)
  BY StepRefines
<1>5. QED
  BY <1>1, <1>2, <1>3, <1>4, PTL DEF HSpec, ImplementsScopedEnv, Env!EnvSpec
=============================================================================
