---------------------------- MODULE TracesProofs ----------------------------
(***************************************************************************)
(* canon.c's schedule, for every statement list, in three parts.           *)
(*                                                                         *)
(* Every block is scheduled once: basic_blocks cuts blocks that begin with *)
(* their only label, all of them different, so that an entry of            *)
(* trace_schedule's table stands for one block, and a NULL in it for one   *)
(* that is in the result already.                                          *)
(*                                                                         *)
(* The schedule runs as the list does: the blocks are the list, piece by   *)
(* piece, and the result is the blocks, so that every place of the one has *)
(* a place of the other, from which an execution lands at the same.        *)
(*                                                                         *)
(* The false branch falls through: as long as a conditional jump has not   *)
(* been placed, no trace can have come to a block that only it leads to.   *)
(***************************************************************************)
EXTENDS Traces, Minima, SequenceTheorems

AllLabels == Labels \union {Start, Done}

(* The list that basic_blocks cuts. *)
Cuttable(s) ==
  /\ s \in Seq(Stmt) /\ s # <<>>
  /\ IsLabel(s[1])
  /\ \A i \in DOMAIN s : IsLabel(s[i]) => s[i].id # Done
  /\ \A i, j \in DOMAIN s : IsLabel(s[i]) /\ s[i] = s[j] => i = j
  /\ \A i \in DOMAIN s : IsJump(s[i]) /\ i < Len(s) => IsLabel(s[i + 1])

(* x stands in s from i on. *)
StandsAt(x, s, i) ==
  /\ i \in DOMAIN s
  /\ i + Len(x) - 1 \in DOMAIN s
  /\ \A k \in DOMAIN x : s[i + k - 1] = x[k]

LEMMA LabelsAreTheirIds ==
  \A s \in Stmt : IsLabel(s) => s = Label(s.id) /\ s.id \in AllLabels
BY DEF Stmt, IsLabel, Label, Jump, AllLabels

LEMMA JumpsGoToLabels ==
  \A s \in Stmt : s.kind \in {"JUMP", "CJUMP"} =>
    /\ s.dests[1] \in AllLabels
    /\ s.kind = "CJUMP" => s.dests[2] \in AllLabels
BY DEF Stmt, Label, Jump, AllLabels

LEMMA PartOfList ==
  ASSUME NEW s \in Seq(Stmt), NEW i \in DOMAIN s, NEW e \in i .. Len(s)
  PROVE  /\ SubSeq(s, i, e) \in Seq(Stmt) /\ Len(SubSeq(s, i, e)) = e - i + 1
         /\ \A k \in 1 .. e - i + 1 : SubSeq(s, i, e)[k] = s[i + k - 1]
<1>1. i \in Int /\ e \in Int /\ i <= e
  OBVIOUS
<1>2. \A j \in i .. e : s[j] \in Stmt
  OBVIOUS
<1> QED
  BY <1>1, <1>2, SubSeqProperties

LEMMA StandsIsSubSeq ==
  ASSUME NEW s \in Seq(Stmt), NEW x \in Seq(Stmt), x # <<>>, NEW i \in DOMAIN s
  PROVE  StandsAt(x, s, i) <=>
           i + Len(x) - 1 \in DOMAIN s /\ SubSeq(s, i, i + Len(x) - 1) = x
<1> DEFINE e == i + Len(x) - 1
<1>1. i \in Int /\ e \in Int /\ Len(x) \in Nat \ {0} /\ DOMAIN s = 1 .. Len(s)
      /\ DOMAIN x = 1 .. Len(x) /\ Len(s) \in Nat
  BY EmptySeq, LenProperties
<1>2. ASSUME e \in DOMAIN s
      PROVE  /\ SubSeq(s, i, e) \in Seq(Stmt)
             /\ Len(SubSeq(s, i, e)) = Len(x)
             /\ \A k \in 1 .. Len(x) : SubSeq(s, i, e)[k] = s[i + k - 1]
  <2>1. e - i + 1 = Len(x) /\ i <= e
    BY <1>1
  <2>2. e \in i .. Len(s)
    BY <1>1, <1>2, <2>1
  <2> QED
    BY <2>1, <2>2, PartOfList
<1>3. ASSUME StandsAt(x, s, i) PROVE e \in DOMAIN s /\ SubSeq(s, i, e) = x
  <2>1. e \in DOMAIN s /\ \A k \in 1 .. Len(x) : SubSeq(s, i, e)[k] = x[k]
    BY <1>1, <1>2, <1>3 DEF StandsAt
  <2> QED
    BY <1>2, <2>1, SeqEqual
<1>4. ASSUME e \in DOMAIN s, SubSeq(s, i, e) = x PROVE StandsAt(x, s, i)
  BY <1>1, <1>2, <1>4 DEF StandsAt
<1> QED
  BY <1>3, <1>4

LEMMA StartCuttable ==
  ASSUME NEW s, WellFormed(s)
  PROVE  Cuttable(WithStart(s))
<1> USE LabelsAssumption
<1>1. s \in Seq(Stmt)
  BY DEF WellFormed
<1>2. \A i \in DOMAIN s : IsLabel(s[i]) => s[i].id \in Labels
  BY DEF WellFormed, LabelsOf
<1>3. CASE s = <<>> \/ ~IsLabel(s[1])
  <2> DEFINE t == <<Label(Start)>> \o s
  <2>1. Label(Start) \in Stmt /\ IsLabel(Label(Start)) /\ Label(Start).id = Start
    BY DEF Stmt, Label, IsLabel
  <2>2. t \in Seq(Stmt) /\ t # <<>> /\ Len(t) = Len(s) + 1 /\ t[1] = Label(Start)
        /\ \A i \in 2 .. Len(t) : i - 1 \in DOMAIN s /\ t[i] = s[i - 1]
    BY <1>1, <2>1
  <2>3. \A i \in DOMAIN t : i = 1 \/ (i \in 2 .. Len(t) /\ i - 1 \in DOMAIN s)
    BY <2>2
  <2> HIDE DEF t
  <2>4. \A i \in DOMAIN t : IsLabel(t[i]) => t[i].id # Done
    BY <1>2, <2>1, <2>2, <2>3
  <2>5. ASSUME NEW i \in DOMAIN t, NEW j \in DOMAIN t, IsLabel(t[i]), t[i] = t[j]
        PROVE  i = j
    <3>1. CASE i = 1 /\ j # 1
      BY <1>2, <2>1, <2>2, <2>3, <2>5, <3>1
    <3>2. CASE i # 1 /\ j = 1
      BY <1>2, <2>1, <2>2, <2>3, <2>5, <3>2
    <3>3. CASE i # 1 /\ j # 1
      <4>1. i - 1 \in DOMAIN s /\ j - 1 \in DOMAIN s /\ s[i - 1] = s[j - 1]
            /\ IsLabel(s[i - 1])
        BY <2>2, <2>3, <2>5, <3>3
      <4>2. i - 1 = j - 1
        BY <4>1 DEF WellFormed
      <4> QED
        BY <2>2, <4>2
    <3> QED
      BY <3>1, <3>2, <3>3
  <2>6. ASSUME NEW i \in DOMAIN t, IsJump(t[i]), i < Len(t)
        PROVE  IsLabel(t[i + 1])
    <3>1. i # 1
      BY <2>1, <2>2, <2>6 DEF IsJump, Label
    <3>2. i - 1 \in DOMAIN s /\ IsJump(s[i - 1]) /\ i - 1 < Len(s)
          /\ t[i + 1] = s[i] /\ (i - 1) + 1 = i
      BY <1>1, <2>2, <2>3, <2>6, <3>1
    <3> QED
      BY <3>2 DEF WellFormed
  <2> QED
    BY <1>3, <2>1, <2>2, <2>4, <2>5, <2>6 DEF Cuttable, WithStart, t
<1>4. CASE s # <<>> /\ IsLabel(s[1])
  BY <1>1, <1>2, <1>4 DEF Cuttable, WithStart, WellFormed
<1> QED
  BY <1>3, <1>4
-----------------------------------------------------------------------------
(* A block of the list: a label, statements that are none, and a jump. *)
Shaped(x) ==
  /\ x \in Seq(Stmt) /\ x # <<>>
  /\ IsLabel(x[1])
  /\ \A k \in DOMAIN x : k > 1 => ~IsLabel(x[k])
  /\ IsJump(x[Len(x)])

LEMMA BlockEnds ==
  ASSUME Cuttable(input), NEW i \in DOMAIN input, IsLabel(input[i])
  PROVE  LET e == BlockEnd(i)
         IN  /\ e \in i .. Len(input)
             /\ \A k \in i + 1 .. e : ~IsLabel(input[k])
             /\ e < Len(input) => IsLabel(input[e + 1])
<1> DEFINE E == {j \in i .. Len(input) :
                   \/ j = Len(input)
                   \/ j > i /\ IsJump(input[j])
                   \/ IsLabel(input[j + 1])}
<1>1. i \in Nat /\ Len(input) \in Nat /\ DOMAIN input = 1 .. Len(input) /\ i <= Len(input)
  BY DEF Cuttable
<1>2. E \in SUBSET Nat /\ Len(input) \in E
  BY <1>1
<1> DEFINE e == BlockEnd(i)
<1>3. e = Min(E)
  BY DEF BlockEnd
<1>4. e \in E /\ \A j \in E : e <= j
  BY <1>2, <1>3, MinIsLeast
<1>5. e \in i .. Len(input)
  BY <1>4
<1>6. e = Len(input) \/ IsJump(input[e]) \/ IsLabel(input[e + 1])
  BY <1>4
<1>7. \A j \in i .. Len(input) : IsLabel(input[j + 1]) => e <= j
  BY <1>4
<1> HIDE DEF E, e
<1>8. i \in Nat /\ e \in Nat /\ Len(input) \in Nat /\ i >= 1 /\ i <= e /\ e <= Len(input)
  BY <1>1, <1>5
<1>9. ASSUME NEW k \in i + 1 .. e PROVE ~IsLabel(input[k])
  <2>1. k - 1 \in i .. Len(input) /\ ~(e <= k - 1) /\ (k - 1) + 1 = k
    BY <1>8
  <2> QED
    BY <1>7, <2>1
<1>10. ASSUME e < Len(input) PROVE IsLabel(input[e + 1])
  <2>1. e \in 1 .. Len(input)
    BY <1>8
  <2>2. e \in DOMAIN input
    BY <1>1, <2>1
  <2>3. e # Len(input)
    BY <1>8, <1>10
  <2> QED
    BY <1>6, <1>10, <2>2, <2>3 DEF Cuttable
<1> QED
  BY <1>5, <1>9, <1>10 DEF e

LEMMA BlockShaped ==
  ASSUME Cuttable(input), NEW i \in DOMAIN input, IsLabel(input[i])
  PROVE  LET x == Block(i, BlockEnd(i))
         IN  Shaped(x) /\ x[1] = input[i]
<1> DEFINE e == BlockEnd(i)
<1> DEFINE body == SubSeq(input, i, e)
<1> DEFINE x == Block(i, e)
<1>1. /\ e \in i .. Len(input)
      /\ \A k \in i + 1 .. e : ~IsLabel(input[k])
      /\ e < Len(input) => IsLabel(input[e + 1])
  BY BlockEnds
<1> HIDE DEF e
<1>2. i \in Nat /\ e \in Nat /\ Len(input) \in Nat /\ i >= 1 /\ i <= e /\ e <= Len(input)
  BY <1>1 DEF Cuttable
<1>3. i \in Nat /\ e \in Nat /\ Len(input) \in Nat /\ i >= 1 /\ i <= e
      /\ DOMAIN input = 1 .. Len(input)
      /\ \A k \in i .. e : input[k] \in Stmt
  BY <1>1 DEF Cuttable
<1>4. /\ body \in Seq(Stmt) /\ Len(body) = e - i + 1 /\ body # <<>>
      /\ \A k \in 1 .. e - i + 1 : body[k] = input[i + k - 1]
  <2>1. body \in Seq(Stmt) /\ Len(body) = e - i + 1
        /\ \A k \in 1 .. e - i + 1 : body[k] = input[i + k - 1]
    BY <1>3, SubSeqProperties
  <2> QED
    BY <1>3, <2>1, EmptySeq
<1> HIDE DEF body
<1>5. body[1] = input[i] /\ IsLabel(body[1])
  <2>1. 1 \in 1 .. e - i + 1 /\ i + 1 - 1 = i
    BY <1>3
  <2> QED
    BY <1>4, <2>1
<1>6. \A k \in 2 .. Len(body) : ~IsLabel(body[k])
  <2> SUFFICES ASSUME NEW k \in 2 .. Len(body) PROVE ~IsLabel(body[k])
    OBVIOUS
  <2>1. body[k] = input[i + k - 1] /\ i + k - 1 \in i + 1 .. e
    BY <1>3, <1>4
  <2> QED
    BY <1>1, <2>1
<1>7. CASE e > i /\ IsJump(input[e])
  <2>1. x = body
    BY <1>7 DEF Block, body, e
  <2>2. x[Len(x)] = input[e]
    BY <1>3, <1>4, <2>1
  <2> QED
    BY <1>4, <1>5, <1>6, <1>7, <2>1, <2>2 DEF Shaped, e
<1>8. CASE ~(e > i /\ IsJump(input[e]))
  <2> DEFINE l == IF e = Len(input) THEN Done ELSE input[e + 1].id
  <2>1. l \in AllLabels
    <3>1. CASE e = Len(input)
      BY <3>1 DEF AllLabels
    <3>2. CASE e # Len(input)
      <4>1. e < Len(input) /\ e + 1 \in 1 .. Len(input)
        BY <1>2, <3>2
      <4>2. e + 1 \in DOMAIN input
        BY <1>3, <4>1
      <4>3. input[e + 1] \in Stmt
        BY <4>2 DEF Cuttable
      <4> QED
        BY <1>1, <3>2, <4>1, <4>3, LabelsAreTheirIds
    <3> QED
      BY <3>1, <3>2
  <2>2. x = Append(body, Jump(l))
    BY <1>8 DEF Block, body, e
  <2> HIDE DEF l
  <2>3. Jump(l) \in Stmt /\ IsJump(Jump(l)) /\ ~IsLabel(Jump(l))
    BY <2>1 DEF Stmt, AllLabels, Jump, IsJump, IsLabel
  <2>4. x \in Seq(Stmt) /\ Len(x) = Len(body) + 1 /\ x[Len(x)] = Jump(l)
        /\ \A k \in 1 .. Len(body) : x[k] = body[k]
    BY <1>4, <2>2, <2>3
  <2>5. Len(body) >= 1 /\ Len(body) \in Nat
    BY <1>3, <1>4
  <2>6. \A k \in DOMAIN x : k > 1 => ~IsLabel(x[k])
    BY <1>6, <2>3, <2>4, <2>5
  <2> QED
    BY <1>5, <2>3, <2>4, <2>5, <2>6 DEF Shaped, e
<1> QED
  BY <1>7, <1>8
-----------------------------------------------------------------------------
(* The blocks: shaped, and each begins with a label of the list before the *)
(* place that is reached, which is its own.                                *)
Cut ==
  /\ Cuttable(input)
  /\ cur \in 1 .. Len(input) + 1
  /\ cur \in DOMAIN input => IsLabel(input[cur])
  /\ blocks \in Seq(Seq(Stmt) \ {<<>>})
  /\ \A n \in DOMAIN blocks :
       /\ Shaped(blocks[n])
       /\ \E i \in 1 .. cur - 1 : i \in DOMAIN input /\ input[i] = blocks[n][1]
  /\ \A m, n \in DOMAIN blocks : LabelOf(m) = LabelOf(n) => m = n

(* The table and the cursors. *)
Table ==
  /\ tab \in [AllLabels -> 0 .. Len(blocks)]
  /\ b \in 1 .. Len(blocks) + 1
  /\ trace \in 0 .. Len(blocks)
  /\ \A l \in AllLabels : tab[l] # 0 => LabelOf(tab[l]) = l
  /\ trace # 0 => tab[LabelOf(trace)] # 0
  /\ \A n \in DOMAIN blocks : n < b => tab[LabelOf(n)] = 0 \/ n = trace
  /\ pc = "done" => b = Len(blocks) + 1 /\ trace = 0

(* The result: whole blocks, the ones that the table has lost. *)
Scheduled ==
  /\ result \in Seq(Stmt)
  /\ \A n \in DOMAIN blocks :
       tab[LabelOf(n)] = 0 => \E i \in DOMAIN result : StandsAt(blocks[n], result, i)
  /\ \A i \in DOMAIN result : IsLabel(result[i]) =>
       \/ \E n \in DOMAIN blocks : tab[LabelOf(n)] = 0 /\ LabelOf(n) = result[i].id
       \/ pc = "done" /\ result[i].id = Done
  /\ \A i, j \in DOMAIN result : IsLabel(result[i]) /\ result[i] = result[j] => i = j

Inv ==
  /\ pc \in {"cut", "place", "done"}
  /\ Cut
  /\ pc = "cut" =>
       tab = [l \in AllLabels |-> 0] /\ b = 1 /\ trace = 0 /\ result = <<>>
  /\ pc # "cut" => Table /\ Scheduled

LEMMA BlocksTyped ==
  ASSUME Cut
  PROVE  /\ Len(blocks) \in Nat /\ DOMAIN blocks = 1 .. Len(blocks)
         /\ \A n \in DOMAIN blocks :
              /\ blocks[n] \in Seq(Stmt) /\ blocks[n] # <<>>
              /\ Len(blocks[n]) \in Nat \ {0} /\ DOMAIN blocks[n] = 1 .. Len(blocks[n])
              /\ blocks[n][1] = Label(LabelOf(n)) /\ LabelOf(n) \in AllLabels
              /\ LabelOf(n) # Done
<1>1. Len(blocks) \in Nat /\ DOMAIN blocks = 1 .. Len(blocks)
  BY DEF Cut
<1>2. SUFFICES ASSUME NEW n \in DOMAIN blocks
               PROVE  /\ blocks[n] \in Seq(Stmt) /\ blocks[n] # <<>>
                      /\ Len(blocks[n]) \in Nat \ {0}
                      /\ DOMAIN blocks[n] = 1 .. Len(blocks[n])
                      /\ blocks[n][1] = Label(LabelOf(n)) /\ LabelOf(n) \in AllLabels
                      /\ LabelOf(n) # Done
  BY <1>1
<1>3. blocks[n] \in Seq(Stmt) /\ blocks[n] # <<>> /\ IsLabel(blocks[n][1])
  BY DEF Cut, Shaped
<1>4. Len(blocks[n]) \in Nat \ {0} /\ DOMAIN blocks[n] = 1 .. Len(blocks[n])
  BY <1>3, EmptySeq, LenProperties
<1>5. blocks[n][1] \in Stmt
  BY <1>3, <1>4
<1>6. PICK i \in DOMAIN input : input[i] = blocks[n][1]
  BY DEF Cut
<1>7. blocks[n][1].id # Done
  BY <1>3, <1>6 DEF Cut, Cuttable
<1> QED
  BY <1>3, <1>4, <1>5, <1>7, LabelsAreTheirIds DEF LabelOf

LEMMA InitInv == Init => Inv
<1> SUFFICES ASSUME Init PROVE Inv
  OBVIOUS
<1>1. PICK s \in Inputs : input = WithStart(s)
  BY DEF Init
<1>2. Cuttable(input)
  BY <1>1, InputsAssumption, StartCuttable
<1>3. cur = 1 /\ IsLabel(input[cur]) /\ Len(input) \in Nat
  BY <1>2 DEF Init, Cuttable
<1>4. Cut
  <2>1. blocks = <<>> /\ blocks \in Seq(Seq(Stmt) \ {<<>>}) /\ DOMAIN blocks = {}
    BY DEF Init
  <2> QED
    BY <1>2, <1>3, <2>1 DEF Cut
<1> QED
  BY <1>4 DEF Init, Inv, AllLabels

LEMMA CutStep ==
  ASSUME Inv, CutBlock
  PROVE  Inv'
<1> DEFINE e == BlockEnd(cur)
<1> DEFINE x == Block(cur, e)
<1>1. pc = "cut" /\ Cut /\ cur <= Len(input) /\ blocks' = Append(blocks, x) /\ cur' = e + 1
      /\ UNCHANGED <<input, tab, b, trace, result, pc>>
  BY DEF Inv, CutBlock
<1>2. cur \in DOMAIN input /\ IsLabel(input[cur]) /\ Cuttable(input) /\ Len(input) \in Nat
      /\ DOMAIN input = 1 .. Len(input)
  BY <1>1 DEF Cut, Cuttable
<1>3. Shaped(x) /\ x[1] = input[cur]
  BY <1>2, BlockShaped
<1>4. e \in cur .. Len(input) /\ (e < Len(input) => IsLabel(input[e + 1]))
  BY <1>2, BlockEnds
<1> HIDE DEF x, e
<1>5. cur' \in 1 .. Len(input) + 1 /\ cur < cur' /\ cur \in Nat /\ cur' \in Nat
  BY <1>1, <1>2, <1>4
<1>6. cur' \in DOMAIN input => IsLabel(input[cur'])
  BY <1>1, <1>2, <1>4, <1>5
<1>7. /\ Len(blocks) \in Nat
      /\ blocks' \in Seq(Seq(Stmt) \ {<<>>})
      /\ DOMAIN blocks' = 1 .. Len(blocks) + 1
      /\ blocks'[Len(blocks) + 1] = x
      /\ DOMAIN blocks = 1 .. Len(blocks)
      /\ \A n \in DOMAIN blocks : blocks'[n] = blocks[n]
  BY <1>1, <1>3 DEF Cut, Shaped
<1>8. ASSUME NEW n \in DOMAIN blocks'
      PROVE  /\ Shaped(blocks'[n])
             /\ \E i \in 1 .. cur' - 1 : i \in DOMAIN input /\ input[i] = blocks'[n][1]
  <2>1. CASE n = Len(blocks) + 1
    <3>1. cur \in 1 .. cur' - 1
      BY <1>2, <1>5
    <3> QED
      BY <1>2, <1>3, <1>7, <2>1, <3>1
  <2>2. CASE n # Len(blocks) + 1
    <3>1. n \in DOMAIN blocks /\ blocks'[n] = blocks[n]
      BY <1>7, <2>2
    <3>2. PICK i \in 1 .. cur - 1 : i \in DOMAIN input /\ input[i] = blocks[n][1]
      BY <1>1, <3>1 DEF Cut
    <3>3. i \in 1 .. cur' - 1 /\ Shaped(blocks[n])
      BY <1>1, <1>5, <3>1 DEF Cut
    <3> QED
      BY <3>1, <3>2, <3>3
  <2> QED
    BY <2>1, <2>2
<1>9. ASSUME NEW n \in DOMAIN blocks, blocks[n][1].id = x[1].id PROVE FALSE
  <2>1. PICK i \in 1 .. cur - 1 : i \in DOMAIN input /\ input[i] = blocks[n][1]
    BY <1>1 DEF Cut
  <2>2. input[i] \in Stmt /\ input[cur] \in Stmt /\ IsLabel(input[i])
    BY <1>1, <1>2, <2>1 DEF Cut, Cuttable, Shaped
  <2>3. input[i] = input[cur]
    BY <1>2, <1>3, <1>9, <2>1, <2>2, LabelsAreTheirIds
  <2>4. i = cur
    BY <1>2, <2>1, <2>2, <2>3 DEF Cuttable
  <2> QED
    BY <1>5, <2>4
<1>10. ASSUME NEW m \in DOMAIN blocks', NEW n \in DOMAIN blocks',
              blocks'[m][1].id = blocks'[n][1].id
       PROVE  m = n
  <2>1. \A k \in DOMAIN blocks' : k = Len(blocks) + 1 \/ k \in DOMAIN blocks
    BY <1>7
  <2>2. CASE m = Len(blocks) + 1
    BY <1>7, <1>9, <1>10, <2>1, <2>2
  <2>3. CASE n = Len(blocks) + 1
    BY <1>7, <1>9, <1>10, <2>1, <2>3
  <2>4. CASE m \in DOMAIN blocks /\ n \in DOMAIN blocks
    <3>1. blocks'[m] = blocks[m] /\ blocks'[n] = blocks[n]
      BY <1>7, <2>4 DEF Cut
    <3> QED
      BY <1>1, <1>10, <2>4, <3>1 DEF Cut, LabelOf
  <2> QED
    BY <2>1, <2>2, <2>3, <2>4
<1>11. Cut'
  BY <1>1, <1>2, <1>5, <1>6, <1>7, <1>8, <1>10 DEF Cut, LabelOf
<1> QED
  BY <1>1, <1>11 DEF Inv

LEMMA FillStep ==
  ASSUME Inv, FillTable
  PROVE  Inv'
<1> DEFINE entered(l) == {0} \union {n \in DOMAIN blocks : LabelOf(n) = l}
<1>1. pc = "cut" /\ Cut /\ tab = [l \in AllLabels |-> 0] /\ b = 1 /\ trace = 0 /\ result = <<>>
      /\ tab' = [l \in DOMAIN tab |-> Max(entered(l))]
      /\ pc' = "place" /\ UNCHANGED <<input, cur, blocks, b, trace, result>>
  BY DEF Inv, FillTable
<1>2. Len(blocks) \in Nat /\ DOMAIN blocks = 1 .. Len(blocks)
      /\ \A n \in DOMAIN blocks : LabelOf(n) \in AllLabels
  BY <1>1, BlocksTyped
<1>3. ASSUME NEW l
      PROVE  /\ Max(entered(l)) \in entered(l)
             /\ \A n \in DOMAIN blocks : LabelOf(n) = l => Max(entered(l)) = n
  <2>1. CASE \E n \in DOMAIN blocks : LabelOf(n) = l
    <3>1. PICK n \in DOMAIN blocks : LabelOf(n) = l
      BY <2>1
    <3>2. \A m \in DOMAIN blocks : LabelOf(m) = l => m = n
      BY <1>1, <3>1 DEF Cut
    <3>3. entered(l) = {0, n} /\ n \in Nat /\ n > 0
      BY <1>2, <3>1, <3>2
    <3>4. Max(entered(l)) = n
      BY <3>3 DEF Max
    <3> QED
      BY <3>2, <3>3, <3>4
  <2>2. CASE ~\E n \in DOMAIN blocks : LabelOf(n) = l
    <3>1. entered(l) = {0}
      BY <2>2
    <3>2. Max({0}) = 0
      BY DEF Max
    <3> QED
      BY <2>2, <3>1, <3>2
  <2> QED
    BY <2>1, <2>2
<1>4. DOMAIN tab = AllLabels
  BY <1>1
<1>5. \A l \in AllLabels : tab'[l] \in entered(l)
  BY <1>1, <1>3, <1>4
<1>6. \A n \in DOMAIN blocks : tab'[LabelOf(n)] = n
  <2> SUFFICES ASSUME NEW n \in DOMAIN blocks PROVE tab'[LabelOf(n)] = n
    OBVIOUS
  <2>1. tab'[LabelOf(n)] = Max(entered(LabelOf(n)))
    BY <1>1, <1>2, <1>4
  <2> QED
    BY <1>3, <2>1
<1>7. Cut'
  BY <1>1 DEF Cut, LabelOf
<1>8. Table'
  <2>1. tab' \in [AllLabels -> 0 .. Len(blocks)]
    BY <1>1, <1>2, <1>4, <1>5
  <2>2. \A l \in AllLabels : tab'[l] # 0 => LabelOf(tab'[l]) = l
    BY <1>5
  <2> QED
    BY <1>1, <1>2, <2>1, <2>2 DEF Table, LabelOf
<1>9. Scheduled'
  <2>1. \A n \in DOMAIN blocks : tab'[LabelOf(n)] # 0
    BY <1>2, <1>6
  <2>2. result' = <<>> /\ result' \in Seq(Stmt) /\ DOMAIN result' = {}
    BY <1>1
  <2> QED
    BY <1>1, <2>1, <2>2 DEF Scheduled, LabelOf
<1> QED
  BY <1>1, <1>7, <1>8, <1>9 DEF Inv

(* Where a block is not in the table, its label is gone, and the other way *)
(* round: the entry of a label is 0 or the one block that begins with it.  *)
LEMMA EntryIsTheBlock ==
  ASSUME Cut, Table, NEW n \in DOMAIN blocks, tab[LabelOf(n)] # 0
  PROVE  tab[LabelOf(n)] = n
<1>1. LabelOf(n) \in AllLabels /\ DOMAIN blocks = 1 .. Len(blocks) /\ Len(blocks) \in Nat
  BY BlocksTyped
<1>2. tab[LabelOf(n)] \in DOMAIN blocks /\ LabelOf(tab[LabelOf(n)]) = LabelOf(n)
  BY <1>1 DEF Table
<1> QED
  BY <1>2 DEF Cut

LEMMA PickStep ==
  ASSUME Inv, PickTrace
  PROVE  Inv'
<1>1. pc = "place" /\ Cut /\ Table /\ Scheduled
      /\ trace = 0 /\ b <= Len(blocks) /\ b' = b + 1
      /\ trace' = (IF tab[LabelOf(b)] = 0 THEN 0 ELSE b)
      /\ UNCHANGED <<input, cur, blocks, tab, result, pc>>
  BY DEF Inv, PickTrace
<1>2. Len(blocks) \in Nat
  BY <1>1, BlocksTyped
<1>3. b \in 1 .. Len(blocks) /\ b' \in 1 .. Len(blocks) + 1
  BY <1>1, <1>2 DEF Table
<1>4. trace' \in 0 .. Len(blocks) /\ (trace' # 0 => trace' = b /\ tab[LabelOf(trace')] # 0)
  BY <1>1, <1>2, <1>3
<1>5. Cut' /\ Scheduled'
  BY <1>1 DEF Cut, Scheduled, LabelOf
<1>6. \A n \in DOMAIN blocks : n < b' => tab[LabelOf(n)] = 0 \/ n = trace'
  <2> SUFFICES ASSUME NEW n \in DOMAIN blocks, n < b'
               PROVE  tab[LabelOf(n)] = 0 \/ n = trace'
    OBVIOUS
  <2>1. n \in 1 .. Len(blocks)
    BY <1>1, BlocksTyped
  <2>2. CASE n = b
    BY <1>1, <2>2
  <2>3. CASE n # b
    <3>1. n < b
      BY <1>1, <1>3, <2>1, <2>3
    <3> QED
      BY <1>1, <2>1, <3>1 DEF Table
  <2> QED
    BY <2>2, <2>3
<1>7. Table'
  BY <1>1, <1>3, <1>4, <1>6 DEF Table, LabelOf
<1> QED
  BY <1>1, <1>5, <1>7 DEF Inv

LEMMA DoneStep ==
  ASSUME Inv, AppendDone
  PROVE  Inv'
<1>1. pc = "place" /\ Cut /\ Table /\ Scheduled
      /\ trace = 0 /\ b > Len(blocks)
      /\ result' = Append(result, Label(Done)) /\ pc' = "done"
      /\ UNCHANGED <<input, cur, blocks, tab, b, trace>>
  BY DEF Inv, AppendDone
<1>2. Label(Done) \in Stmt /\ Label(Done).id = Done /\ IsLabel(Label(Done))
  BY DEF Stmt, Label, IsLabel
<1>3. result \in Seq(Stmt) /\ Len(result) \in Nat /\ DOMAIN result = 1 .. Len(result)
  BY <1>1 DEF Scheduled
<1>4. /\ result' \in Seq(Stmt)
      /\ DOMAIN result' = 1 .. Len(result) + 1
      /\ result'[Len(result) + 1] = Label(Done)
      /\ \A i \in DOMAIN result : i \in DOMAIN result' /\ result'[i] = result[i]
  BY <1>1, <1>2, <1>3
<1>5. \A i \in DOMAIN result' : i = Len(result) + 1 \/ i \in DOMAIN result
  BY <1>3, <1>4
<1>6. \A i \in DOMAIN result : IsLabel(result[i]) => result[i].id # Done
  BY <1>1, BlocksTyped DEF Scheduled
<1>7. Cut' /\ Table'
  <2>1. b = Len(blocks) + 1 /\ trace = 0
    BY <1>1, BlocksTyped DEF Table
  <2> QED
    BY <1>1, <2>1 DEF Cut, Table, LabelOf
<1>8. Scheduled'
  <2>1. ASSUME NEW n \in DOMAIN blocks, tab[LabelOf(n)] = 0
        PROVE  \E i \in DOMAIN result' : StandsAt(blocks[n], result', i)
    <3>1. PICK i \in DOMAIN result : StandsAt(blocks[n], result, i)
      BY <1>1, <2>1 DEF Scheduled
    <3>2. \A k \in DOMAIN blocks[n] : i + k - 1 \in DOMAIN result
      <4>1. Len(blocks[n]) \in Nat /\ DOMAIN blocks[n] = 1 .. Len(blocks[n])
        BY <1>1, BlocksTyped
      <4>2. i \in 1 .. Len(result) /\ i + Len(blocks[n]) - 1 \in 1 .. Len(result)
        BY <1>3, <3>1 DEF StandsAt
      <4>3. \A k \in 1 .. Len(blocks[n]) : i + k - 1 \in 1 .. Len(result)
        BY <1>3, <4>1, <4>2
      <4> QED
        BY <1>3, <4>1, <4>3
    <3> QED
      BY <1>4, <3>1, <3>2 DEF StandsAt
  <2>2. \A i \in DOMAIN result' : IsLabel(result'[i]) =>
          \/ \E n \in DOMAIN blocks : tab[LabelOf(n)] = 0 /\ LabelOf(n) = result'[i].id
          \/ result'[i].id = Done
    BY <1>1, <1>2, <1>4, <1>5 DEF Scheduled
  <2>3. ASSUME NEW i \in DOMAIN result', NEW j \in DOMAIN result',
               IsLabel(result'[i]), result'[i] = result'[j]
        PROVE  i = j
    <3>1. CASE i \in DOMAIN result /\ j \in DOMAIN result
      BY <1>1, <1>4, <2>3, <3>1 DEF Scheduled
    <3> QED
      BY <1>2, <1>4, <1>5, <1>6, <2>3, <3>1
  <2> QED
    BY <1>1, <1>4, <2>1, <2>2, <2>3 DEF Scheduled, LabelOf
<1> QED
  BY <1>1, <1>7, <1>8 DEF Inv

LEMMA PlaceStep ==
  ASSUME Inv, PlaceBlock
  PROVE  Inv'
<1> DEFINE t == trace
<1> DEFINE x == blocks[t]
<1> DEFINE last == x[Len(x)]
<1>1. pc = "place" /\ Cut /\ Table /\ Scheduled /\ t # 0
      /\ tab' = [tab EXCEPT ![LabelOf(t)] = 0]
      /\ result' = result \o x
      /\ trace' = Follow(last, tab')
      /\ UNCHANGED <<input, cur, blocks, b, pc>>
  BY DEF Inv, PlaceBlock
<1>2. /\ t \in DOMAIN blocks /\ LabelOf(t) \in AllLabels /\ tab[LabelOf(t)] # 0
      /\ x \in Seq(Stmt) /\ Len(x) \in Nat \ {0} /\ DOMAIN x = 1 .. Len(x)
      /\ x[1] = Label(LabelOf(t))
      /\ Len(blocks) \in Nat /\ DOMAIN blocks = 1 .. Len(blocks)
      /\ tab \in [AllLabels -> 0 .. Len(blocks)]
  <2>1. t \in 1 .. Len(blocks) /\ tab[LabelOf(t)] # 0
        /\ tab \in [AllLabels -> 0 .. Len(blocks)]
    BY <1>1, BlocksTyped DEF Table
  <2> QED
    BY <1>1, <2>1, BlocksTyped
<1>3. last \in Stmt /\ IsJump(last) /\ (\A k \in DOMAIN x : k > 1 => ~IsLabel(x[k]))
  <2>1. Shaped(x)
    BY <1>1, <1>2 DEF Cut
  <2>2. Len(x) \in DOMAIN x
    BY <1>2
  <2> QED
    BY <1>2, <2>1, <2>2 DEF Shaped
<1> HIDE DEF last
<1>4. /\ tab' \in [AllLabels -> 0 .. Len(blocks)]
      /\ tab'[LabelOf(t)] = 0
      /\ \A l \in AllLabels : l # LabelOf(t) => tab'[l] = tab[l]
  BY <1>1, <1>2
<1>5. \E l \in AllLabels : trace' = tab'[l]
  <2>1. last.kind = "JUMP" \/ last.kind = "CJUMP"
    BY <1>3 DEF IsJump
  <2>2. CASE last.kind = "JUMP"
    BY <1>1, <1>3, <2>2, JumpsGoToLabels DEF Follow
  <2>3. CASE last.kind = "CJUMP"
    BY <1>1, <1>3, <2>3, JumpsGoToLabels DEF Follow
  <2> QED
    BY <2>1, <2>2, <2>3
<1>6. Cut'
  BY <1>1 DEF Cut, LabelOf
<1>7. Table'
  <2>1. \A l \in AllLabels : tab'[l] # 0 => LabelOf(tab'[l]) = l
    BY <1>1, <1>4 DEF Table
  <2>2. trace' \in 0 .. Len(blocks) /\ (trace' # 0 => tab'[LabelOf(trace')] # 0)
    BY <1>4, <1>5, <2>1
  <2>3. \A n \in DOMAIN blocks : n < b => tab'[LabelOf(n)] = 0
    BY <1>1, <1>4, BlocksTyped DEF Table
  <2> QED
    BY <1>1, <1>4, <2>1, <2>2, <2>3 DEF Table, LabelOf
<1>8. /\ result \in Seq(Stmt) /\ Len(result) \in Nat /\ DOMAIN result = 1 .. Len(result)
      /\ result' \in Seq(Stmt) /\ Len(result') = Len(result) + Len(x)
      /\ DOMAIN result' = 1 .. Len(result) + Len(x)
      /\ \A i \in 1 .. Len(result) : result'[i] = result[i]
      /\ \A k \in 1 .. Len(x) : result'[Len(result) + k] = x[k]
  <2>1. result \in Seq(Stmt)
    BY <1>1 DEF Scheduled
  <2> QED
    BY <1>1, <1>2, <2>1
<1>9. ASSUME NEW i \in DOMAIN result'
      PROVE  \/ i \in DOMAIN result
             \/ \E k \in DOMAIN x : i = Len(result) + k /\ result'[i] = x[k]
  <2>1. CASE i <= Len(result)
    BY <1>8, <2>1
  <2>2. CASE i > Len(result)
    <3>1. i - Len(result) \in 1 .. Len(x) /\ i = Len(result) + (i - Len(result))
      BY <1>2, <1>8, <2>2
    <3> QED
      BY <1>2, <1>8, <3>1
  <2> QED
    BY <1>8, <2>1, <2>2
<1>10. ASSUME NEW i \in DOMAIN result', i \notin DOMAIN result, IsLabel(result'[i])
       PROVE  i = Len(result) + 1 /\ result'[i] = x[1]
  <2>1. PICK k \in DOMAIN x : i = Len(result) + k /\ result'[i] = x[k]
    BY <1>9, <1>10
  <2>2. k = 1
    BY <1>2, <1>3, <1>10, <2>1
  <2> QED
    BY <2>1, <2>2
<1>11. ASSUME NEW i \in DOMAIN result, IsLabel(result[i]) PROVE result[i] # x[1]
  <2>1. PICK n \in DOMAIN blocks : tab[LabelOf(n)] = 0 /\ LabelOf(n) = result[i].id
    BY <1>1, <1>11 DEF Scheduled
  <2>2. x[1].id = LabelOf(t)
    BY <1>2 DEF Label
  <2> QED
    BY <1>2, <2>1, <2>2
<1>12. ASSUME NEW n \in DOMAIN blocks, tab'[LabelOf(n)] = 0
       PROVE  \E i \in DOMAIN result' : StandsAt(blocks[n], result', i)
  <2>1. CASE n = t
    <3> DEFINE i == Len(result) + 1
    <3>1. i \in DOMAIN result' /\ i + Len(x) - 1 \in DOMAIN result'
      BY <1>2, <1>8
    <3>2. ASSUME NEW k \in DOMAIN x PROVE result'[i + k - 1] = x[k]
      <4>1. i + k - 1 = Len(result) + k
        BY <1>2, <1>8
      <4> QED
        BY <1>2, <1>8, <4>1
    <3> QED
      BY <2>1, <3>1, <3>2 DEF StandsAt
  <2>2. CASE n # t
    <3>1. LabelOf(n) # LabelOf(t) /\ LabelOf(n) \in AllLabels
      BY <1>1, <1>2, <2>2, BlocksTyped DEF Cut
    <3>2. tab[LabelOf(n)] = 0
      BY <1>4, <1>12, <3>1
    <3>3. PICK i \in DOMAIN result : StandsAt(blocks[n], result, i)
      BY <1>1, <3>2 DEF Scheduled
    <3>4. Len(blocks[n]) \in Nat /\ DOMAIN blocks[n] = 1 .. Len(blocks[n])
      BY <1>1, BlocksTyped
    <3>5. i \in 1 .. Len(result) /\ i + Len(blocks[n]) - 1 \in 1 .. Len(result)
      BY <1>8, <3>3 DEF StandsAt
    <3>6. \A k \in 1 .. Len(blocks[n]) : i + k - 1 \in 1 .. Len(result)
      BY <1>8, <3>4, <3>5
    <3>7. i \in DOMAIN result' /\ i + Len(blocks[n]) - 1 \in DOMAIN result'
      <4>1. \A j \in 1 .. Len(result) : j \in 1 .. Len(result) + Len(x)
        BY <1>2, <1>8
      <4> QED
        BY <1>8, <3>5, <4>1
    <3> QED
      BY <1>8, <3>3, <3>4, <3>6, <3>7 DEF StandsAt
  <2> QED
    BY <2>1, <2>2
<1>13. ASSUME NEW i \in DOMAIN result', IsLabel(result'[i])
       PROVE  \E n \in DOMAIN blocks : tab'[LabelOf(n)] = 0 /\ LabelOf(n) = result'[i].id
  <2>1. CASE i \in DOMAIN result
    <3>1. result'[i] = result[i]
      BY <1>8, <2>1
    <3>2. PICK n \in DOMAIN blocks : tab[LabelOf(n)] = 0 /\ LabelOf(n) = result[i].id
      BY <1>1, <1>13, <2>1, <3>1 DEF Scheduled
    <3>3. tab'[LabelOf(n)] = 0
      BY <1>1, <1>2, <1>4, <3>2, BlocksTyped
    <3> QED
      BY <3>1, <3>2, <3>3
  <2>2. CASE i \notin DOMAIN result
    <3>1. result'[i].id = LabelOf(t)
      BY <1>2, <1>10, <1>13, <2>2 DEF Label
    <3> QED
      BY <1>2, <1>4, <3>1
  <2> QED
    BY <2>1, <2>2
<1>14. ASSUME NEW i \in DOMAIN result', NEW j \in DOMAIN result',
              IsLabel(result'[i]), result'[i] = result'[j]
       PROVE  i = j
  <2>1. CASE i \in DOMAIN result /\ j \in DOMAIN result
    BY <1>1, <1>8, <1>14, <2>1 DEF Scheduled
  <2>2. CASE i \notin DOMAIN result /\ j \notin DOMAIN result
    BY <1>10, <1>14, <2>2
  <2>3. CASE i \in DOMAIN result /\ j \notin DOMAIN result
    BY <1>8, <1>10, <1>11, <1>14, <2>3
  <2>4. CASE i \notin DOMAIN result /\ j \in DOMAIN result
    BY <1>8, <1>10, <1>11, <1>14, <2>4
  <2> QED
    BY <2>1, <2>2, <2>3, <2>4
<1>15. Scheduled'
  <2>1. blocks' = blocks /\ result' \in Seq(Stmt)
    BY <1>1, <1>8
  <2> HIDE DEF x, t
  <2> QED
    BY <1>12, <1>13, <1>14, <2>1 DEF Scheduled, LabelOf
<1> QED
  BY <1>1, <1>6, <1>7, <1>15 DEF Inv

LEMMA StepInv == Inv /\ [Next]_vars => Inv'
<1>1. ASSUME Inv, UNCHANGED vars PROVE Inv'
  BY <1>1 DEF vars, Inv, Cut, Table, Scheduled, LabelOf
<1> QED
  BY <1>1, CutStep, FillStep, PickStep, PlaceStep, DoneStep DEF Next
-----------------------------------------------------------------------------
LEMMA OnceByInv == Inv => PlacedOnce
<1> SUFFICES ASSUME Inv PROVE PlacedOnce
  OBVIOUS
<1>1. CASE pc = "cut"
  <2>1. result = <<>> /\ DOMAIN result = {}
    BY <1>1 DEF Inv
  <2> QED
    BY <1>1, <2>1 DEF PlacedOnce
<1>2. CASE pc # "cut"
  <2>1. Cut /\ Table /\ Scheduled
    BY <1>2 DEF Inv
  <2>2. result \in Seq(Stmt)
    BY <2>1 DEF Scheduled
  <2>3. ASSUME NEW n \in DOMAIN blocks
        PROVE  tab[LabelOf(n)] = 0 <=>
                 \E i \in DOMAIN result : StandsAt(blocks[n], result, i)
    <3>1. ASSUME NEW i \in DOMAIN result, StandsAt(blocks[n], result, i)
          PROVE  tab[LabelOf(n)] = 0
      <4>1. /\ Len(blocks[n]) \in Nat \ {0} /\ DOMAIN blocks[n] = 1 .. Len(blocks[n])
            /\ blocks[n][1] = Label(LabelOf(n)) /\ LabelOf(n) # Done
        BY <2>1, BlocksTyped
      <4>2. 1 \in DOMAIN blocks[n] /\ i + 1 - 1 = i
        BY <2>2, <4>1
      <4>3. result[i] = Label(LabelOf(n))
        BY <3>1, <4>1, <4>2 DEF StandsAt
      <4>4. IsLabel(result[i]) /\ result[i].id = LabelOf(n)
        BY <4>3 DEF Label, IsLabel
      <4> QED
        BY <2>1, <4>1, <4>4 DEF Scheduled, Cut
    <3> QED
      BY <2>1, <3>1 DEF Scheduled
  <2>4. \A n \in DOMAIN blocks : blocks[n] \in Seq(Stmt) /\ blocks[n] # <<>>
    BY <2>1, BlocksTyped
  <2> QED
    BY <2>1, <2>2, <2>3, <2>4, StandsIsSubSeq DEF PlacedOnce, Scheduled
<1> QED
  BY <1>1, <1>2

(* For every statement list that trans.c and linearize can hand over, and  *)
(* whatever traces run into each other: no label is emitted twice, and a   *)
(* block is in the result, whole, exactly when the table has lost its      *)
(* label (basic_blocks, trace_schedule).                                   *)
THEOREM BlocksPlacedOnce == Spec => []PlacedOnce
<1>1. QED
  BY InitInv, StepInv, OnceByInv, PTL DEF Spec

(* A block once placed is not placed again, whichever jumps lead to it. *)
LEMMA PlacingGetsOn ==
  ASSUME Inv, PlaceBlock
  PROVE  Unplaced' \subseteq Unplaced /\ Unplaced' # Unplaced /\ b' >= b
<1>1. pc = "place" /\ Cut /\ Table /\ trace # 0
      /\ tab' = [tab EXCEPT ![LabelOf(trace)] = 0] /\ b' = b
  BY DEF Inv, PlaceBlock
<1>2. trace \in DOMAIN blocks /\ tab[LabelOf(trace)] # 0
      /\ tab \in [AllLabels -> 0 .. Len(blocks)] /\ b \in 1 .. Len(blocks) + 1
      /\ Len(blocks) \in Nat
  BY <1>1, BlocksTyped DEF Table
<1>3. LabelOf(trace) \in AllLabels
  BY <1>1, <1>2, BlocksTyped
<1>4. /\ DOMAIN tab' = AllLabels /\ DOMAIN tab = AllLabels /\ tab'[LabelOf(trace)] = 0
      /\ \A l \in AllLabels : l # LabelOf(trace) => tab'[l] = tab[l]
  BY <1>1, <1>2, <1>3
<1>5. LabelOf(trace) \in Unplaced /\ LabelOf(trace) \notin Unplaced'
  BY <1>2, <1>3, <1>4 DEF Unplaced
<1>6. Unplaced' \subseteq Unplaced
  BY <1>4 DEF Unplaced
<1>7. b' >= b
  BY <1>1, <1>2
<1> QED
  BY <1>5, <1>6, <1>7

(* Both loops of canon.c get on, for every statement list: a step cuts     *)
(* more of it, places a block for good or skips one (GetsOn), so that no   *)
(* circle of jumps keeps trace_schedule going.                             *)
THEOREM TracesGetOn == Spec => GetsOn
<1> DEFINE Step ==
      \/ pc = "cut" /\ pc' = "cut" /\ cur' > cur
      \/ pc = "cut" /\ pc' = "place"
      \/ pc = "place" /\ pc' = "done"
      \/ /\ pc = "place" /\ pc' = "place"
         /\ Unplaced' \subseteq Unplaced /\ b' >= b
         /\ Unplaced' # Unplaced \/ b' > b
<1>1. Inv /\ [Next]_vars => [Step]_vars
  <2> SUFFICES ASSUME Inv, Next PROVE Step
    OBVIOUS
  <2>1. CASE CutBlock
    <3>1. pc = "cut" /\ pc' = "cut" /\ cur' = BlockEnd(cur) + 1 /\ cur <= Len(input) /\ Cut
      BY <2>1 DEF CutBlock, Inv
    <3>2. Len(input) \in Nat /\ cur \in 1 .. Len(input)
      BY <3>1 DEF Cut, Cuttable
    <3>3. Cuttable(input) /\ cur \in DOMAIN input /\ IsLabel(input[cur])
      BY <3>1, <3>2 DEF Cut, Cuttable
    <3>4. BlockEnd(cur) \in cur .. Len(input)
      BY <3>3, BlockEnds
    <3> QED
      BY <3>1, <3>2, <3>4
  <2>2. CASE FillTable
    BY <2>2 DEF FillTable
  <2>3. CASE PickTrace
    <3>1. pc = "place" /\ pc' = "place" /\ b' = b + 1 /\ tab' = tab
      BY <2>3 DEF PickTrace
    <3>2. b \in Nat
      BY <3>1, BlocksTyped DEF Inv, Table
    <3>3. b' > b /\ b' >= b
      BY <3>1, <3>2
    <3> QED
      BY <3>1, <3>3 DEF Unplaced
  <2>4. CASE PlaceBlock
    <3>1. pc = "place" /\ pc' = "place"
      BY <2>4 DEF PlaceBlock
    <3> QED
      BY <2>4, <3>1, PlacingGetsOn
  <2>5. CASE AppendDone
    BY <2>5 DEF AppendDone
  <2> QED
    BY <2>1, <2>2, <2>3, <2>4, <2>5 DEF Next
<1>2. Spec => []Inv
  BY InitInv, StepInv, PTL DEF Spec
<1> QED
  BY <1>1, <1>2, PTL DEF Spec, GetsOn

(* The cursors of both functions stay in their lists and the table in the  *)
(* blocks, for every statement list.                                       *)
THEOREM TracesTyped == Spec => []TypeOK
<1>1. Inv => TypeOK
  <2> SUFFICES ASSUME Inv PROVE TypeOK
    OBVIOUS
  <2>1. input \in Seq(Stmt) /\ input # <<>> /\ cur \in 1 .. Len(input) + 1
        /\ blocks \in Seq(Seq(Stmt) \ {<<>>}) /\ Len(blocks) \in Nat
    BY BlocksTyped DEF Inv, Cut, Cuttable
  <2>2. CASE pc = "cut"
    BY <2>1, <2>2 DEF Inv, TypeOK, AllLabels
  <2>3. CASE pc # "cut"
    BY <2>1, <2>3 DEF Inv, TypeOK, Table, Scheduled, AllLabels
  <2> QED
    BY <2>2, <2>3
<1>2. QED
  BY <1>1, InitInv, StepInv, PTL DEF Spec

(* When trace_schedule returns, every block that basic_blocks cut stands   *)
(* in its result.                                                          *)
NoneLost ==
  pc = "done" => \A n \in DOMAIN blocks : \E i \in DOMAIN result : StandsAt(blocks[n], result, i)

(* The outer loop of trace_schedule leaves no block behind it: one that it *)
(* skips was placed by an earlier trace.                                   *)
THEOREM NoBlockIsLost == Spec => []NoneLost
<1>1. Inv => NoneLost
  <2> SUFFICES ASSUME Inv, pc = "done", NEW n \in DOMAIN blocks
               PROVE  \E i \in DOMAIN result : StandsAt(blocks[n], result, i)
    BY DEF NoneLost
  <2>1. Cut /\ Table /\ Scheduled
    BY DEF Inv
  <2>2. n < b /\ n # trace
    BY <2>1, BlocksTyped DEF Table
  <2> QED
    BY <2>1, <2>2 DEF Table, Scheduled
<1>2. QED
  BY <1>1, InitInv, StepInv, PTL DEF Spec
-----------------------------------------------------------------------------
(* Where an execution lands, without the count of steps: at a position it  *)
(* passes, where it lands from the position after it; elsewhere, there.    *)
Positions(s) == 0 .. Len(s) + 1

Passed(s) == {p \in DOMAIN s : s[p] # Label(Done) /\ s[p].kind \notin {"PLAIN", "CJUMP"}}

Past(s, p) == IF IsLabel(s[p]) THEN p + 1 ELSE Position(s, s[p].dests[1])

Here(s, p) == IF p \notin DOMAIN s \/ s[p] = Label(Done) THEN 0 ELSE s[p].id

Round(s, G) ==
  [p \in Positions(s) |-> IF p \in Passed(s) THEN G[Past(s, p)] ELSE Here(s, p)]

Nowhere(s) == [p \in Positions(s) |-> Stuck]

(* G says of every position where it lands. *)
Obeys(s, G) ==
  \A p \in Positions(s) : G[p] = IF p \in Passed(s) THEN G[Past(s, p)] ELSE Here(s, p)

LEMMA PositionIs ==
  ASSUME NEW s \in Seq(Stmt), NEW l
  PROVE  /\ Position(s, l) \in Positions(s)
         /\ \A i \in DOMAIN s : s[i] = Label(l) =>
              Position(s, l) \in DOMAIN s /\ s[Position(s, l)] = Label(l)
<1>1. Len(s) \in Nat /\ DOMAIN s = 1 .. Len(s)
  OBVIOUS
<1>2. CASE Label(l) \in {s[i] : i \in DOMAIN s}
  <2>1. \E i \in DOMAIN s : s[i] = Label(l)
    BY <1>2
  <2>2. Position(s, l) = CHOOSE i \in DOMAIN s : s[i] = Label(l)
    BY <1>2 DEF Position
  <2>3. Position(s, l) \in DOMAIN s /\ s[Position(s, l)] = Label(l)
    BY <2>1, <2>2
  <2> QED
    BY <1>1, <2>3 DEF Positions
<1>3. CASE Label(l) \notin {s[i] : i \in DOMAIN s}
  <2>1. Position(s, l) = 0
    BY <1>3 DEF Position
  <2> QED
    BY <1>1, <1>3, <2>1 DEF Positions
<1> QED
  BY <1>2, <1>3

LEMMA RoundTyped ==
  ASSUME NEW s \in Seq(Stmt)
  PROVE  /\ \A p \in Passed(s) : Past(s, p) \in Positions(s)
         /\ \A p \in Positions(s) : p \notin Passed(s) => Here(s, p) \in Nat
         /\ \A G \in [Positions(s) -> Int] : Round(s, G) \in [Positions(s) -> Int]
         /\ Passed(s) \subseteq Positions(s)
<1>1. Len(s) \in Nat /\ DOMAIN s = 1 .. Len(s) /\ \A p \in DOMAIN s : s[p] \in Stmt
  OBVIOUS
<1>2. \A p \in Passed(s) : Past(s, p) \in Positions(s)
  BY <1>1, PositionIs DEF Passed, Past, Positions
<1>3. \A p \in Positions(s) : p \notin Passed(s) => Here(s, p) \in Nat
  <2> SUFFICES ASSUME NEW p \in DOMAIN s, s[p].kind \in {"PLAIN", "CJUMP"}
               PROVE  s[p].id \in Nat
    BY DEF Passed, Here
  <2>1. s[p] \in Stmt
    BY <1>1
  <2> QED
    BY <2>1 DEF Stmt, Label, Jump
<1>4. Passed(s) \subseteq Positions(s)
  BY <1>1 DEF Passed, Positions
<1> QED
  BY <1>2, <1>3, <1>4 DEF Round

(* Land, as the iteration it is. *)
LEMMA LandIterates ==
  ASSUME NEW s \in Seq(Stmt)
  PROVE  \E f \in [0 .. Len(s) + 1 -> [Positions(s) -> Int]] :
           /\ Land(s) = f[Len(s) + 1]
           /\ f[0] = Round(s, Nowhere(s))
           /\ \A k \in 1 .. Len(s) + 1 : f[k] = Round(s, f[k - 1])
<1> DEFINE N == Len(s)
<1> DEFINE V == [Positions(s) -> Int]
<1> DEFINE step == [G \in V |-> Round(s, G)]
<1> DEFINE Def(f, k) ==
      [p \in 0 .. Len(s) + 1 |->
         IF p \notin DOMAIN s \/ s[p] = Label(Done) THEN 0
         ELSE IF s[p].kind \in {"PLAIN", "CJUMP"} THEN s[p].id
         ELSE IF k = 0 THEN Stuck
         ELSE IF IsLabel(s[p]) THEN f[k - 1][p + 1]
         ELSE f[k - 1][Position(s, s[p].dests[1])]]
<1>1. N \in Nat /\ DOMAIN s = 1 .. N
  OBVIOUS
<1>2. ASSUME NEW f PROVE Def(f, 0) = Round(s, Nowhere(s))
  <2>1. \A p \in Passed(s) : Nowhere(s)[Past(s, p)] = Stuck
    BY RoundTyped DEF Nowhere
  <2> QED
    BY <2>1 DEF Round, Positions, Passed, Here
<1>3. ASSUME NEW f, NEW k \in 1 .. N + 1 PROVE Def(f, k) = Round(s, f[k - 1])
  BY <1>1 DEF Round, Positions, Passed, Here, Past
<1>4. Round(s, Nowhere(s)) \in V /\ step \in [V -> V]
  <2>1. Nowhere(s) \in V
    BY DEF Nowhere, Stuck
  <2> QED
    BY <2>1, RoundTyped
<1>5. \E f \in [0 .. N + 1 -> V] :
        f[0] = Round(s, Nowhere(s)) /\ \A k \in 1 .. N + 1 : f[k] = step[f[k - 1]]
  <2> DEFINE M == N + 1
  <2> DEFINE first == Round(s, Nowhere(s))
  <2>1. M \in Nat /\ first \in V /\ step \in [V -> V]
    BY <1>1, <1>4
  <2> HIDE DEF M, first, step, V
  <2>2. \E f : Iterates(f, M, V, first, step)
    BY <2>1, IterationExists
  <2> QED
    BY <2>2 DEF M, first, Iterates
<1>6. PICK f \in [0 .. N + 1 -> V] :
        f[0] = Round(s, Nowhere(s)) /\ \A k \in 1 .. N + 1 : f[k] = step[f[k - 1]]
  BY <1>5
<1>7. f = [k \in 0 .. N + 1 |-> Def(f, k)]
  <2>1. ASSUME NEW k \in 1 .. N + 1 PROVE f[k] = Def(f, k)
    <3>1. k - 1 \in 0 .. N + 1
      BY <1>1
    <3>2. f[k - 1] \in V /\ f[k] = Round(s, f[k - 1])
      BY <1>6, <3>1
    <3> QED
      BY <1>3, <3>2
  <2>2. f[0] = Def(f, 0)
    BY <1>2, <1>6
  <2> HIDE DEF Def
  <2>3. \A k \in 0 .. N + 1 : f[k] = Def(f, k)
    BY <1>1, <2>1, <2>2
  <2> QED
    BY <1>6, <2>3
<1> DEFINE land == CHOOSE g : g = [k \in 0 .. N + 1 |-> Def(g, k)]
<1>8. land = [k \in 0 .. N + 1 |-> Def(land, k)]
  BY <1>7
<1>9. Land(s) = land[N + 1]
  BY DEF Land
<1> HIDE DEF land, Def
<1>10. land[0] = Round(s, Nowhere(s)) /\ \A k \in 1 .. N + 1 : land[k] = Round(s, land[k - 1])
  <2>1. \A k \in 0 .. N + 1 : land[k] = Def(land, k)
    BY <1>8
  <2>2. land[0] = Def(land, 0) /\ \A k \in 1 .. N + 1 : land[k] = Def(land, k)
    BY <1>1, <2>1
  <2> QED
    BY <1>2, <1>3, <2>2
<1>11. land \in [0 .. N + 1 -> V]
  <2> DEFINE T == {k \in 0 .. N + 1 : land[k] \in V}
  <2>1. 0 \in T
    BY <1>1, <1>4, <1>10
  <2>2. ASSUME NEW k \in 0 .. (N + 1) - 1, k \in T PROVE k + 1 \in T
    <3>1. k + 1 \in 1 .. N + 1 /\ (k + 1) - 1 = k
      BY <1>1
    <3>2. land[k + 1] = Round(s, land[k])
      BY <1>10, <3>1
    <3> QED
      BY <1>1, <2>2, <3>1, <3>2, RoundTyped
  <2> HIDE DEF T
  <2>3. 0 .. N + 1 \subseteq T
    <3>1. N + 1 \in Nat
      BY <1>1
    <3> QED
      BY <2>1, <2>2, <3>1, UpTo
  <2>4. \A k \in 0 .. N + 1 : land[k] \in V
    BY <2>3 DEF T
  <2>5. land = [k \in 0 .. N + 1 |-> land[k]]
    BY <1>8
  <2> QED
    BY <2>4, <2>5
<1> QED
  BY <1>9, <1>10, <1>11
(* An execution that lands, lands where every G that obeys says.           *)
LEMMA LandIsLeast ==
  ASSUME NEW s \in Seq(Stmt), NEW G, Obeys(s, G)
  PROVE  \A p \in Positions(s) : Land(s)[p] # Stuck => G[p] = Land(s)[p]
<1> DEFINE N == Len(s)
<1>1. PICK f \in [0 .. N + 1 -> [Positions(s) -> Int]] :
        /\ Land(s) = f[N + 1]
        /\ f[0] = Round(s, Nowhere(s))
        /\ \A k \in 1 .. N + 1 : f[k] = Round(s, f[k - 1])
  BY LandIterates
<1> DEFINE T == {k \in 0 .. N + 1 : \A p \in Positions(s) : f[k][p] # Stuck => G[p] = f[k][p]}
<1>2. 0 \in T
  <2>1. ASSUME NEW p \in Positions(s), f[0][p] # Stuck PROVE G[p] = f[0][p]
    <3>1. p \notin Passed(s)
      <4> SUFFICES ASSUME p \in Passed(s) PROVE FALSE
        OBVIOUS
      <4>1. Past(s, p) \in Positions(s)
        BY RoundTyped
      <4>2. f[0][p] = Nowhere(s)[Past(s, p)]
        BY <1>1 DEF Round
      <4> QED
        BY <2>1, <4>1, <4>2 DEF Nowhere
    <3> QED
      BY <1>1, <3>1 DEF Round, Obeys
  <2> QED
    BY <2>1
<1>3. ASSUME NEW k \in 0 .. (N + 1) - 1, k \in T PROVE k + 1 \in T
  <2>1. k + 1 \in 1 .. N + 1 /\ (k + 1) - 1 = k /\ k + 1 \in 0 .. N + 1
    OBVIOUS
  <2>2. f[k + 1] = Round(s, f[k])
    BY <1>1, <2>1
  <2>3. ASSUME NEW p \in Positions(s), f[k + 1][p] # Stuck PROVE G[p] = f[k + 1][p]
    <3>1. CASE p \in Passed(s)
      <4>1. Past(s, p) \in Positions(s) /\ f[k + 1][p] = f[k][Past(s, p)]
        BY <2>2, <3>1, RoundTyped DEF Round
      <4>2. G[Past(s, p)] = f[k][Past(s, p)]
        BY <1>3, <2>3, <4>1
      <4> QED
        BY <3>1, <4>1, <4>2 DEF Obeys
    <3>2. CASE p \notin Passed(s)
      BY <2>2, <3>2 DEF Round, Obeys
    <3> QED
      BY <3>1, <3>2
  <2> QED
    BY <2>1, <2>3
<1> HIDE DEF T
<1>4. 0 .. N + 1 \subseteq T
  <2>1. N + 1 \in Nat
    OBVIOUS
  <2> QED
    BY <1>2, <1>3, <2>1, UpTo
<1>5. N + 1 \in T
  BY <1>4
<1> QED
  BY <1>1, <1>5 DEF T

(* Landing obeys: the bound on the count of labels and jumps passed is no  *)
(* bound, because a position is passed once or again and again.            *)
LEMMA LandObeys ==
  ASSUME NEW s \in Seq(Stmt)
  PROVE  Obeys(s, Land(s))
<1> DEFINE N == Len(s)
<1>1. PICK f \in [0 .. N + 1 -> [Positions(s) -> Int]] :
        /\ Land(s) = f[N + 1]
        /\ f[0] = Round(s, Nowhere(s))
        /\ \A k \in 1 .. N + 1 : f[k] = Round(s, f[k - 1])
  BY LandIterates
<1>2. N \in Nat /\ DOMAIN s = 1 .. N
  OBVIOUS
<1>3. \A p \in Passed(s) : Past(s, p) \in Positions(s) /\ p \in Positions(s)
  BY RoundTyped
<1>4. ASSUME NEW p \in Positions(s), p \notin Passed(s), NEW k \in 0 .. N + 1
      PROVE  f[k][p] = Here(s, p) /\ f[k][p] # Stuck
  <2>1. f[k][p] = Here(s, p)
    <3>1. CASE k = 0
      BY <1>1, <1>4, <3>1 DEF Round
    <3>2. CASE k # 0
      <4>1. k \in 1 .. N + 1
        BY <3>2
      <4>2. f[k] = Round(s, f[k - 1])
        BY <1>1, <4>1
      <4> QED
        BY <1>4, <4>2 DEF Round
    <3> QED
      BY <3>1, <3>2
  <2>2. Here(s, p) \in Nat
    BY <1>4, RoundTyped
  <2> QED
    BY <2>1, <2>2 DEF Stuck
<1>5. ASSUME NEW p \in Passed(s), NEW k \in 0 .. N
      PROVE  f[k + 1][p] = f[k][Past(s, p)]
  <2>1. k + 1 \in 1 .. N + 1 /\ (k + 1) - 1 = k
    OBVIOUS
  <2>2. f[k + 1] = Round(s, f[k])
    BY <1>1, <2>1
  <2> QED
    BY <1>3, <2>2 DEF Round
<1>6. \A p \in Passed(s) : f[0][p] = Stuck
  BY <1>1, <1>3 DEF Round, Nowhere
<1> DEFINE X == [k \in 0 .. N + 1 |-> {p \in Passed(s) : f[k][p] # Stuck}]
<1>7. \A k \in 0 .. N : X[k] \subseteq X[k + 1] /\ \A p \in X[k] : f[k + 1][p] = f[k][p]
  <2> DEFINE T == {k \in 0 .. N : \A p \in Passed(s) : f[k][p] # Stuck => f[k + 1][p] = f[k][p]}
  <2>1. 0 \in T
    BY <1>2, <1>6
  <2>2. ASSUME NEW k \in 0 .. N - 1, k \in T PROVE k + 1 \in T
    <3>1. k \in 0 .. N /\ k + 1 \in 0 .. N /\ k \in 0 .. N + 1 /\ k + 1 \in 0 .. N + 1
      BY <1>2
    <3>2. ASSUME NEW p \in Passed(s), f[k + 1][p] # Stuck PROVE f[(k + 1) + 1][p] = f[k + 1][p]
      <4>1. f[k + 1][p] = f[k][Past(s, p)] /\ f[(k + 1) + 1][p] = f[k + 1][Past(s, p)]
            /\ Past(s, p) \in Positions(s)
        BY <1>3, <1>5, <3>1
      <4>2. CASE Past(s, p) \in Passed(s)
        BY <2>2, <3>2, <4>1, <4>2
      <4>3. CASE Past(s, p) \notin Passed(s)
        BY <1>4, <3>1, <4>1, <4>3
      <4> QED
        BY <4>2, <4>3
    <3> QED
      BY <3>1, <3>2
  <2> HIDE DEF T
  <2>3. 0 .. N \subseteq T
    BY <1>2, <2>1, <2>2, UpTo
  <2>4. ASSUME NEW k \in 0 .. N
        PROVE  X[k] \subseteq X[k + 1] /\ \A p \in X[k] : f[k + 1][p] = f[k][p]
    <3>1. k \in T
      BY <2>3
    <3>2. k \in 0 .. N + 1 /\ k + 1 \in 0 .. N + 1
      BY <1>2
    <3> QED
      BY <3>1, <3>2 DEF T
  <2> QED
    BY <2>4
<1>8. ASSUME NEW k \in 0 .. N - 1, X[k] = X[k + 1] PROVE X[k + 1] = X[k + 2]
  <2>1. k \in 0 .. N /\ k + 1 \in 0 .. N /\ k \in 0 .. N + 1 /\ k + 1 \in 0 .. N + 1
        /\ k + 2 \in 0 .. N + 1 /\ (k + 1) + 1 = k + 2
    BY <1>2
  <2>2. ASSUME NEW p \in X[k + 2] PROVE p \in X[k + 1]
    <3>1. p \in Passed(s) /\ f[k + 2][p] # Stuck
      BY <2>1, <2>2
    <3>2. f[k + 2][p] = f[k + 1][Past(s, p)] /\ f[k + 1][p] = f[k][Past(s, p)]
          /\ Past(s, p) \in Positions(s)
      BY <1>3, <1>5, <2>1, <3>1
    <3>3. CASE Past(s, p) \in Passed(s)
      <4>1. Past(s, p) \in X[k + 1]
        BY <2>1, <3>1, <3>2, <3>3
      <4>2. f[k][Past(s, p)] # Stuck
        BY <1>8, <2>1, <4>1
      <4> QED
        BY <2>1, <3>1, <3>2, <4>2
    <3>4. CASE Past(s, p) \notin Passed(s)
      BY <1>4, <2>1, <3>1, <3>2, <3>4
    <3> QED
      BY <3>3, <3>4
  <2>3. X[k + 1] \subseteq X[k + 2]
    BY <1>7, <2>1
  <2> QED
    BY <2>2, <2>3
<1>9. X[N] = X[N + 1]
  <2>1. IsFiniteSet(Passed(s)) /\ Cardinality(Passed(s)) <= N
    <3>1. IsFiniteSet(1 .. N) /\ Cardinality(1 .. N) = N
      <4>1. 1 \in Int /\ N \in Int /\ (1 > N => N = 0) /\ (~(1 > N) => N - 1 + 1 = N)
        BY <1>2
      <4> QED
        BY <4>1, FS_Interval
    <3>2. Passed(s) \in SUBSET (1 .. N)
      BY <1>2 DEF Passed
    <3> QED
      BY <3>1, <3>2, FS_Subset
  <2>2. \A k \in 0 .. N + 1 : X[k] \subseteq Passed(s)
    OBVIOUS
  <2>3. \A k \in 0 .. N : X[k] \subseteq X[k + 1]
    BY <1>7
  <2> HIDE DEF X, N
  <2> QED
    BY <1>2, <1>8, <2>1, <2>2, <2>3, Saturates
<1>10. \A p \in Positions(s) : f[N][p] = f[N + 1][p]
  <2> SUFFICES ASSUME NEW p \in Positions(s) PROVE f[N][p] = f[N + 1][p]
    OBVIOUS
  <2>1. N \in 0 .. N /\ N \in 0 .. N + 1 /\ N + 1 \in 0 .. N + 1
    BY <1>2
  <2>2. CASE p \notin Passed(s)
    BY <1>4, <2>1, <2>2
  <2>3. CASE p \in X[N]
    BY <1>7, <2>1, <2>3
  <2>4. CASE p \in Passed(s) /\ p \notin X[N]
    BY <1>9, <2>1, <2>4
  <2> QED
    BY <2>2, <2>3, <2>4
<1>11. \A p \in Passed(s) : f[N + 1][p] = f[N + 1][Past(s, p)]
  BY <1>2, <1>3, <1>5, <1>10
<1>12. N + 1 \in 0 .. N + 1
  BY <1>2
<1> QED
  BY <1>1, <1>4, <1>11, <1>12 DEF Obeys
-----------------------------------------------------------------------------
(* r is s in another order: to says where a statement of s stands in r,    *)
(* from says for every place of r where in s an execution is that comes to *)
(* it.  What r has besides is jumps to where s goes on.                    *)
Goals(s) == \A p \in DOMAIN s : \A d \in DOMAIN s[p].dests : s[p].dests[d] \in LabelsOf(s)

Rescheduled(s, r, to, from) ==
  /\ to \in [DOMAIN s -> DOMAIN r] /\ from \in [DOMAIN r -> 1 .. Len(s) + 1]
  /\ Len(r) \in DOMAIN r /\ r[Len(r)] = Label(Done) /\ from[Len(r)] = Len(s) + 1
  /\ \A i, j \in DOMAIN r : IsLabel(r[i]) /\ r[i] = r[j] => i = j
  /\ \A p \in DOMAIN s :
       /\ s[p] # Label(Done) /\ r[to[p]] = s[p] /\ from[to[p]] = p
       /\ ~IsJump(s[p]) => to[p] + 1 \in DOMAIN r /\ from[to[p] + 1] = p + 1
  /\ \A q \in DOMAIN r :
       \/ q = Len(r)
       \/ from[q] \in DOMAIN s /\ to[from[q]] = q
       \/ from[q] \in DOMAIN s /\ IsLabel(s[from[q]]) /\ r[q] = Jump(s[from[q]].id)
       \/ from[q] = Len(s) + 1 /\ r[q] = Jump(Done)

LEMMA KindsApart ==
  ASSUME NEW s \in Stmt
  PROVE  /\ IsLabel(s) \/ s.kind = "JUMP" \/ s.kind \in {"PLAIN", "CJUMP"}
         /\ s.kind \in {"PLAIN", "CJUMP"} => s.id \in Nat
         /\ s.kind = "JUMP" => 1 \in DOMAIN s.dests
         /\ s.kind = "CJUMP" => 1 \in DOMAIN s.dests /\ 2 \in DOMAIN s.dests
BY DEF Stmt, IsLabel, Label, Jump

(* A label of s stands in r where to says, and from leads back. *)
LEMMA LabelsMoved ==
  ASSUME NEW s \in Seq(Stmt), NEW r \in Seq(Stmt), NEW to, NEW from, Rescheduled(s, r, to, from),
         NEW l \in LabelsOf(s)
  PROVE  /\ Position(s, l) \in DOMAIN s
         /\ Position(r, l) = to[Position(s, l)]
         /\ from[Position(r, l)] = Position(s, l)
<1>1. PICK i \in DOMAIN s : IsLabel(s[i]) /\ s[i].id = l
  BY DEF LabelsOf
<1>2. s[i] \in Stmt
  OBVIOUS
<1>3. s[i] = Label(l)
  BY <1>1, <1>2, LabelsAreTheirIds
<1>4. Position(s, l) \in DOMAIN s /\ s[Position(s, l)] = Label(l)
  BY <1>3, PositionIs
<1>5. to[Position(s, l)] \in DOMAIN r /\ r[to[Position(s, l)]] = Label(l)
      /\ from[to[Position(s, l)]] = Position(s, l)
  BY <1>4 DEF Rescheduled
<1>6. Position(r, l) \in DOMAIN r /\ r[Position(r, l)] = Label(l)
  BY <1>5, PositionIs
<1>7. IsLabel(Label(l))
  BY DEF Label, IsLabel
<1>8. Position(r, l) = to[Position(s, l)]
  BY <1>5, <1>6, <1>7 DEF Rescheduled
<1> QED
  BY <1>4, <1>5, <1>8

LEMMA DoneIsLast ==
  ASSUME NEW s \in Seq(Stmt), NEW r \in Seq(Stmt), NEW to, NEW from, Rescheduled(s, r, to, from)
  PROVE  Position(r, Done) = Len(r)
<1>1. Len(r) \in DOMAIN r /\ r[Len(r)] = Label(Done) /\ IsLabel(Label(Done))
  BY DEF Rescheduled, Label, IsLabel
<1>2. Position(r, Done) \in DOMAIN r /\ r[Position(r, Done)] = Label(Done)
  BY <1>1, PositionIs
<1> QED
  BY <1>1, <1>2 DEF Rescheduled

(* What a place of r is. *)
LEMMA PlacesOf ==
  ASSUME NEW s \in Seq(Stmt), NEW r \in Seq(Stmt), NEW to, NEW from,
         Rescheduled(s, r, to, from), NEW q \in DOMAIN r, q # Len(r)
  PROVE  \/ from[q] \in DOMAIN s /\ to[from[q]] = q /\ r[q] = s[from[q]] /\ r[q] # Label(Done)
         \/ /\ r[q].kind = "JUMP"
            /\ \/ /\ from[q] \in DOMAIN s /\ r[q].dests[1] \in LabelsOf(s)
                  /\ Position(s, r[q].dests[1]) = from[q] /\ Position(r, r[q].dests[1]) = to[from[q]]
               \/ from[q] = Len(s) + 1 /\ Position(r, r[q].dests[1]) = Len(r)
<1>1. CASE from[q] \in DOMAIN s /\ to[from[q]] = q
  BY <1>1 DEF Rescheduled
<1>2. CASE from[q] \in DOMAIN s /\ IsLabel(s[from[q]]) /\ r[q] = Jump(s[from[q]].id)
  <2> DEFINE p == from[q]
  <2> DEFINE l == s[p].id
  <2>1. r[q].kind = "JUMP" /\ r[q].dests[1] = l /\ l \in LabelsOf(s)
    BY <1>2 DEF Jump, LabelsOf
  <2>2. Position(r, l) = to[Position(s, l)] /\ from[Position(r, l)] = Position(s, l)
        /\ Position(s, l) \in DOMAIN s
    BY <2>1, LabelsMoved
  <2>3. s[p] = Label(l)
    <3>1. s[p] \in Stmt
      BY <1>2
    <3> QED
      BY <1>2, <3>1, LabelsAreTheirIds
  <2>4. s[Position(s, l)] = Label(l) /\ IsLabel(Label(l))
    BY <1>2, <2>3, PositionIs DEF Label, IsLabel
  <2>5. r[to[p]] = r[to[Position(s, l)]] /\ to[p] \in DOMAIN r /\ to[Position(s, l)] \in DOMAIN r
        /\ IsLabel(r[to[p]]) /\ from[to[p]] = p
    BY <1>2, <2>2, <2>3, <2>4 DEF Rescheduled
  <2>6. to[p] = to[Position(s, l)]
    BY <2>5 DEF Rescheduled
  <2> QED
    BY <1>2, <2>1, <2>2, <2>5, <2>6
<1>3. CASE from[q] = Len(s) + 1 /\ r[q] = Jump(Done)
  BY <1>3, DoneIsLast DEF Jump
<1> QED
  BY <1>1, <1>2, <1>3 DEF Rescheduled

(* r lands where s does, because what is said of one obeys in the other.   *)
LEMMA SameLanding ==
  ASSUME NEW s \in Seq(Stmt), NEW r \in Seq(Stmt), NEW to, NEW from,
         Rescheduled(s, r, to, from), Goals(s)
  PROVE  \A q \in DOMAIN r : Land(r)[q] = Land(s)[from[q]]
<1> DEFINE N == Len(s)
<1> DEFINE M == Len(r)
<1> DEFINE B == Land(s)
<1> DEFINE A == Land(r)
<1> HIDE DEF A, B
<1>1. N \in Nat /\ M \in Nat /\ DOMAIN s = 1 .. N /\ DOMAIN r = 1 .. M
      /\ (\A p \in DOMAIN s : s[p] \in Stmt) /\ (\A q \in DOMAIN r : r[q] \in Stmt)
  OBVIOUS
<1>2. Obeys(s, B) /\ Obeys(r, A)
  BY LandObeys DEF A, B
<1>3. /\ to \in [DOMAIN s -> DOMAIN r] /\ from \in [DOMAIN r -> 1 .. N + 1]
      /\ M \in DOMAIN r /\ r[M] = Label(Done) /\ from[M] = N + 1
      /\ \A p \in DOMAIN s :
           /\ s[p] # Label(Done) /\ r[to[p]] = s[p] /\ from[to[p]] = p
           /\ ~IsJump(s[p]) => to[p] + 1 \in DOMAIN r /\ from[to[p] + 1] = p + 1
  BY DEF Rescheduled
<1>4. \A l \in LabelsOf(s) : /\ Position(s, l) \in DOMAIN s
                             /\ Position(r, l) = to[Position(s, l)]
                             /\ from[Position(r, l)] = Position(s, l)
  BY LabelsMoved
<1>5. \A p \in Positions(s) : B[p] = IF p \in Passed(s) THEN B[Past(s, p)] ELSE Here(s, p)
  BY <1>2 DEF Obeys
<1>6. \A q \in Positions(r) : A[q] = IF q \in Passed(r) THEN A[Past(r, q)] ELSE Here(r, q)
  BY <1>2 DEF Obeys
<1>7. B[N + 1] = 0 /\ A[M] = 0 /\ A[0] = 0 /\ A[M + 1] = 0
  <2>1. N + 1 \in Positions(s) /\ N + 1 \notin DOMAIN s /\ M \in Positions(r)
        /\ 0 \in Positions(r) /\ 0 \notin DOMAIN r /\ M + 1 \in Positions(r) /\ M + 1 \notin DOMAIN r
    BY <1>1 DEF Positions
  <2> QED
    BY <1>3, <1>5, <1>6, <2>1 DEF Passed, Here
(* Both obey at a statement that an execution stops at, ... *)
<1>8. ASSUME NEW p \in DOMAIN s, s[p].kind \in {"PLAIN", "CJUMP"}
      PROVE  B[p] = s[p].id /\ A[to[p]] = s[p].id
  <2>1. p \in Positions(s) /\ to[p] \in Positions(r) /\ to[p] \in DOMAIN r
    BY <1>1, <1>3 DEF Positions
  <2>2. r[to[p]] = s[p] /\ s[p] # Label(Done)
    BY <1>3
  <2> QED
    BY <1>5, <1>6, <1>8, <2>1, <2>2 DEF Passed, Here
(* ... at a label, ... *)
<1>9. ASSUME NEW p \in DOMAIN s, IsLabel(s[p])
      PROVE  B[p] = B[p + 1] /\ A[to[p]] = A[to[p] + 1]
  <2>1. p \in Positions(s) /\ to[p] \in Positions(r) /\ to[p] \in DOMAIN r
    BY <1>1, <1>3 DEF Positions
  <2>2. r[to[p]] = s[p] /\ s[p] # Label(Done) /\ s[p].kind \notin {"PLAIN", "CJUMP"}
    BY <1>3, <1>9 DEF IsLabel
  <2> QED
    BY <1>5, <1>6, <1>9, <2>1, <2>2 DEF Passed, Past
(* ... and at a jump. *)
<1>10. ASSUME NEW p \in DOMAIN s, s[p].kind = "JUMP"
       PROVE  /\ s[p].dests[1] \in LabelsOf(s)
              /\ B[p] = B[Position(s, s[p].dests[1])]
              /\ A[to[p]] = A[to[Position(s, s[p].dests[1])]]
  <2>1. p \in Positions(s) /\ to[p] \in Positions(r) /\ to[p] \in DOMAIN r
    BY <1>1, <1>3 DEF Positions
  <2>2. s[p].dests[1] \in LabelsOf(s)
    BY <1>1, <1>10, KindsApart DEF Goals
  <2>3. r[to[p]] = s[p] /\ s[p] # Label(Done) /\ ~IsLabel(s[p])
        /\ s[p].kind \notin {"PLAIN", "CJUMP"}
    BY <1>3, <1>10 DEF IsLabel
  <2>4. Past(s, p) = Position(s, s[p].dests[1]) /\ Past(r, to[p]) = Position(r, s[p].dests[1])
    BY <2>3 DEF Past
  <2>5. p \in Passed(s) /\ to[p] \in Passed(r)
    BY <2>1, <2>3 DEF Passed
  <2>6. Position(r, s[p].dests[1]) = to[Position(s, s[p].dests[1])]
    BY <1>4, <2>2
  <2> QED
    BY <1>5, <1>6, <2>1, <2>2, <2>4, <2>5, <2>6
(* A jump that r has besides. *)
<1>11. ASSUME NEW q \in DOMAIN r, q # M,
              ~(from[q] \in DOMAIN s /\ to[from[q]] = q /\ r[q] = s[from[q]] /\ r[q] # Label(Done))
       PROVE  /\ q \in Passed(r)
              /\ \/ from[q] \in DOMAIN s /\ Past(r, q) = to[from[q]]
                 \/ from[q] = N + 1 /\ Past(r, q) = M
  <2>1. /\ r[q].kind = "JUMP"
        /\ \/ from[q] \in DOMAIN s /\ Position(r, r[q].dests[1]) = to[from[q]]
           \/ from[q] = N + 1 /\ Position(r, r[q].dests[1]) = M
    BY <1>11, PlacesOf
  <2>2. ~IsLabel(r[q]) /\ r[q] # Label(Done) /\ r[q].kind \notin {"PLAIN", "CJUMP"}
    BY <2>1 DEF IsLabel, Label
  <2> QED
    BY <2>1, <2>2 DEF Passed, Past
<1>12. ASSUME NEW q \in DOMAIN r PROVE A[q] # Stuck => B[from[q]] = A[q]
  <2> DEFINE G == [k \in Positions(r) |-> IF k \in DOMAIN r THEN B[from[k]] ELSE 0]
  <2>1. \A k \in DOMAIN r : k \in Positions(r)
    BY <1>1 DEF Positions
  <2>2. \A k \in DOMAIN r : G[k] = B[from[k]]
    BY <2>1
  <2>3. ASSUME NEW k \in Positions(r)
        PROVE  G[k] = IF k \in Passed(r) THEN G[Past(r, k)] ELSE Here(r, k)
    <3>1. CASE k \notin DOMAIN r
      BY <3>1 DEF Passed, Here
    <3>2. CASE k = M
      BY <1>3, <1>7, <2>2, <3>2 DEF Passed, Here
    <3>3. CASE /\ k \in DOMAIN r /\ k # M
               /\ from[k] \in DOMAIN s /\ to[from[k]] = k /\ r[k] = s[from[k]] /\ r[k] # Label(Done)
      <4> DEFINE p == from[k]
      <4>1. p \in DOMAIN s /\ to[p] = k /\ r[k] = s[p] /\ G[k] = B[p] /\ s[p] \in Stmt
        BY <1>1, <2>2, <3>3
      <4> HIDE DEF p, G
      <4>2. CASE s[p].kind \in {"PLAIN", "CJUMP"}
        BY <1>8, <3>3, <4>1, <4>2 DEF Passed, Here
      <4>3. CASE IsLabel(s[p])
        <5>1. k + 1 \in DOMAIN r /\ from[k + 1] = p + 1
          BY <1>3, <4>1, <4>3 DEF IsJump, IsLabel
        <5>2. k \in Passed(r) /\ Past(r, k) = k + 1
          BY <3>3, <4>1, <4>3 DEF Passed, Past, IsLabel
        <5>3. G[k + 1] = B[p + 1]
          BY <2>2, <5>1
        <5> QED
          BY <1>9, <4>1, <4>3, <5>2, <5>3
      <4>4. CASE s[p].kind = "JUMP"
        <5> DEFINE l == s[p].dests[1]
        <5>1. l \in LabelsOf(s) /\ B[p] = B[Position(s, l)]
          BY <1>10, <4>1, <4>4
        <5>2. k \in Passed(r) /\ Past(r, k) = Position(r, l)
          BY <3>3, <4>1, <4>4 DEF Passed, Past, IsLabel
        <5>3. Position(r, l) \in DOMAIN r /\ from[Position(r, l)] = Position(s, l)
          BY <1>3, <1>4, <5>1
        <5>4. G[Position(r, l)] = B[Position(s, l)]
          BY <2>2, <5>3
        <5> QED
          BY <4>1, <5>1, <5>2, <5>4
      <4> QED
        BY <4>1, <4>2, <4>3, <4>4, KindsApart
    <3>4. CASE /\ k \in DOMAIN r /\ k # M
               /\ ~(from[k] \in DOMAIN s /\ to[from[k]] = k /\ r[k] = s[from[k]] /\ r[k] # Label(Done))
      <4>1. k \in Passed(r) /\ \/ from[k] \in DOMAIN s /\ Past(r, k) = to[from[k]]
                               \/ from[k] = N + 1 /\ Past(r, k) = M
        BY <1>11, <3>4
      <4> HIDE DEF G
      <4>2. CASE from[k] \in DOMAIN s /\ Past(r, k) = to[from[k]]
        <5>1. to[from[k]] \in DOMAIN r /\ from[to[from[k]]] = from[k]
          BY <1>3, <4>2
        <5> QED
          BY <2>2, <3>4, <4>1, <4>2, <5>1
      <4>3. CASE from[k] = N + 1 /\ Past(r, k) = M
        BY <1>3, <2>2, <3>4, <4>1, <4>3
      <4> QED
        BY <4>1, <4>2, <4>3
    <3> QED
      BY <3>1, <3>2, <3>3, <3>4
  <2> HIDE DEF G
  <2>4. Obeys(r, G)
    BY <2>3 DEF Obeys
  <2>5. \A k \in Positions(r) : A[k] # Stuck => G[k] = A[k]
    BY <2>4, LandIsLeast DEF A
  <2> QED
    BY <2>1, <2>2, <2>5
<1>13. ASSUME NEW p \in DOMAIN s PROVE B[p] # Stuck => A[to[p]] = B[p]
  <2> DEFINE G == [k \in Positions(s) |-> IF k \in DOMAIN s THEN A[to[k]] ELSE 0]
  <2>1. \A k \in DOMAIN s : k \in Positions(s) /\ k + 1 \in Positions(s)
    BY <1>1 DEF Positions
  <2>2. \A k \in DOMAIN s : G[k] = A[to[k]]
    BY <2>1
  <2>3. ASSUME NEW k \in Positions(s)
        PROVE  G[k] = IF k \in Passed(s) THEN G[Past(s, k)] ELSE Here(s, k)
    <3>1. CASE k \notin DOMAIN s
      BY <3>1 DEF Passed, Here
    <3>2. CASE k \in DOMAIN s
      <4>1. G[k] = A[to[k]] /\ s[k] \in Stmt /\ s[k] # Label(Done)
        BY <1>1, <1>3, <2>2, <3>2
      <4>2. CASE s[k].kind \in {"PLAIN", "CJUMP"}
        BY <1>8, <3>2, <4>1, <4>2 DEF Passed, Here
      <4>3. CASE s[k].kind = "JUMP"
        <5> DEFINE l == s[k].dests[1]
        <5>1. l \in LabelsOf(s) /\ A[to[k]] = A[to[Position(s, l)]]
          BY <1>10, <3>2, <4>3
        <5>2. k \in Passed(s) /\ Past(s, k) = Position(s, l)
          BY <3>2, <4>1, <4>3 DEF Passed, Past, IsLabel
        <5>3. G[Position(s, l)] = A[to[Position(s, l)]]
          BY <1>4, <2>2, <5>1
        <5> HIDE DEF G
        <5> QED
          BY <4>1, <5>1, <5>2, <5>3
      <4>4. CASE IsLabel(s[k])
        <5> DEFINE q == to[k] + 1
        <5>1. q \in DOMAIN r /\ from[q] = k + 1
          BY <1>3, <3>2, <4>4 DEF IsJump, IsLabel
        <5>2. k \in Passed(s) /\ Past(s, k) = k + 1 /\ A[to[k]] = A[q]
          BY <1>9, <3>2, <4>1, <4>4 DEF Passed, Past, IsLabel
        <5> HIDE DEF q
        <5>3. CASE q = M
          <6>1. k + 1 = N + 1 /\ k + 1 \notin DOMAIN s
            BY <1>1, <1>3, <5>1, <5>3
          <6>2. G[k + 1] = 0
            BY <2>1, <3>2, <6>1
          <6> QED
            BY <1>7, <4>1, <5>2, <5>3, <6>2
        <5>4. CASE q # M /\ from[q] \in DOMAIN s /\ to[from[q]] = q
          <6>1. G[k + 1] = A[q]
            BY <2>2, <5>1, <5>4
          <6> QED
            BY <4>1, <5>2, <6>1
        <5>5. CASE q # M /\ ~(from[q] \in DOMAIN s /\ to[from[q]] = q)
          <6>1. q \in Passed(r) /\ \/ from[q] \in DOMAIN s /\ Past(r, q) = to[from[q]]
                                   \/ from[q] = N + 1 /\ Past(r, q) = M
            BY <1>11, <5>1, <5>5
          <6>2. q \in Positions(r)
            BY <1>1, <5>1 DEF Positions
          <6>3. A[q] = A[Past(r, q)]
            BY <1>6, <6>1, <6>2
          <6>4. G[k + 1] = A[q]
            <7>1. CASE from[q] \in DOMAIN s /\ Past(r, q) = to[from[q]]
              BY <2>2, <5>1, <6>3, <7>1
            <7>2. CASE from[q] = N + 1 /\ Past(r, q) = M
              <8>1. k + 1 \notin DOMAIN s /\ k + 1 \in Positions(s)
                BY <1>1, <2>1, <3>2, <5>1, <7>2
              <8>2. G[k + 1] = 0
                BY <8>1
              <8> QED
                BY <1>7, <6>3, <7>2, <8>2
            <7> QED
              BY <6>1, <7>1, <7>2
          <6> QED
            BY <4>1, <5>2, <6>4
        <5> QED
          BY <5>3, <5>4, <5>5
      <4> QED
        BY <4>1, <4>2, <4>3, <4>4, KindsApart
    <3> QED
      BY <3>1, <3>2
  <2> HIDE DEF G
  <2>4. Obeys(s, G)
    BY <2>3 DEF Obeys
  <2>5. \A k \in Positions(s) : B[k] # Stuck => G[k] = B[k]
    BY <2>4, LandIsLeast DEF B
  <2> QED
    BY <2>1, <2>2, <2>5
<1>14. ASSUME NEW q \in DOMAIN r PROVE A[q] = B[from[q]]
  <2>1. CASE q = M
    BY <1>3, <1>7, <2>1
  <2>2. CASE q # M /\ from[q] \in DOMAIN s /\ to[from[q]] = q
    BY <1>12, <1>13, <2>2
  <2>3. CASE q # M /\ ~(from[q] \in DOMAIN s /\ to[from[q]] = q)
    <3>1. q \in Passed(r) /\ \/ from[q] \in DOMAIN s /\ Past(r, q) = to[from[q]]
                             \/ from[q] = N + 1 /\ Past(r, q) = M
      BY <1>11, <2>3
    <3>2. q \in Positions(r)
      BY <1>1 DEF Positions
    <3>3. A[q] = A[Past(r, q)]
      BY <1>6, <3>1, <3>2
    <3>4. CASE from[q] \in DOMAIN s /\ Past(r, q) = to[from[q]]
      BY <1>12, <1>13, <3>3, <3>4
    <3>5. CASE from[q] = N + 1 /\ Past(r, q) = M
      BY <1>7, <3>3, <3>5
    <3> QED
      BY <3>1, <3>4, <3>5
  <2> QED
    BY <2>1, <2>2, <2>3
<1> QED
  BY <1>14 DEF A, B
-----------------------------------------------------------------------------
(* Where block n begins and ends in the list that it was cut from, and     *)
(* where it begins in the result.                                          *)
St(n) == Position(input, LabelOf(n))
En(n) == BlockEnd(St(n))
At(n) == Position(result, LabelOf(n))

(* Goals of jumps are there, and statements with an identity differ. *)
Distinct(s) ==
  \A i, j \in DOMAIN s : s[i].kind \in {"PLAIN", "CJUMP"} /\ s[i] = s[j] => i = j

(* The blocks are the list, piece by piece, up to the place that is        *)
(* reached: what no block took is not behind it.                           *)
Pieces ==
  /\ Goals(input) /\ Distinct(input)
  /\ \A n \in DOMAIN blocks :
       /\ St(n) \in DOMAIN input /\ En(n) < cur
       /\ blocks[n] = Block(St(n), En(n))
  /\ \A p \in DOMAIN input : p < cur => \E n \in DOMAIN blocks : p \in St(n) .. En(n)
  /\ blocks = <<>> => cur = 1
  /\ blocks # <<>> => St(1) = 1
  /\ pc # "cut" => cur = Len(input) + 1

(* The result is placed blocks and nothing else, the first one in front.   *)
Made ==
  /\ \A q \in DOMAIN result :
       \/ pc = "done" /\ q = Len(result)
       \/ \E n \in DOMAIN blocks : \E k \in DOMAIN blocks[n] :
            tab[LabelOf(n)] = 0 /\ StandsAt(blocks[n], result, q - k + 1)
  /\ pc = "done" => result # <<>> /\ result[Len(result)] = Label(Done)
  /\ result = <<>> => pc = "place" /\ (trace = 1 \/ (trace = 0 /\ b = 1))
  /\ result # <<>> => blocks # <<>> /\ result[1] = blocks[1][1]

Rebuilt == Inv /\ Pieces /\ (pc # "cut" => Made)

LEMMA StartGoals ==
  ASSUME NEW s \in Inputs
  PROVE  Goals(WithStart(s)) /\ Distinct(WithStart(s))
<1>1. WellFormed(s) /\ s \in Seq(Stmt)
  BY InputsAssumption DEF WellFormed
<1>2. Goals(s)
  <2> SUFFICES ASSUME NEW p \in DOMAIN s, NEW d \in DOMAIN s[p].dests
               PROVE  s[p].dests[d] \in LabelsOf(s)
    BY DEF Goals
  <2>1. CASE IsJump(s[p])
    BY <1>1, <2>1 DEF WellFormed
  <2>2. CASE ~IsJump(s[p])
    <3>1. s[p] \in Stmt
      BY <1>1
    <3>2. s[p].dests = <<>>
      BY <2>2, <3>1 DEF Stmt, IsJump, Label, Jump
    <3> QED
      BY <3>2
  <2> QED
    BY <2>1, <2>2
<1>3. Distinct(s)
  BY IdentitiesAssumption DEF Distinct
<1>4. CASE s = <<>> \/ ~IsLabel(s[1])
  <2> DEFINE t == <<Label(Start)>> \o s
  <2>1. t[1] = Label(Start) /\ Len(t) = Len(s) + 1 /\ DOMAIN t = 1 .. Len(s) + 1
        /\ \A i \in DOMAIN s : i + 1 \in DOMAIN t /\ t[i + 1] = s[i]
    BY <1>1
  <2>2. WithStart(s) = t
    BY <1>4 DEF WithStart
  <2> HIDE DEF t
  <2>3. \A i \in DOMAIN t : i = 1 \/ (i - 1 \in DOMAIN s /\ t[i] = s[i - 1])
    <3> SUFFICES ASSUME NEW i \in DOMAIN t, i # 1 PROVE i - 1 \in DOMAIN s /\ t[i] = s[i - 1]
      OBVIOUS
    <3>1. i - 1 \in 1 .. Len(s) /\ (i - 1) + 1 = i /\ DOMAIN s = 1 .. Len(s)
      BY <1>1, <2>1
    <3> QED
      BY <2>1, <3>1
  <2>4. LabelsOf(s) \subseteq LabelsOf(t)
    BY <2>1 DEF LabelsOf
  <2>5. t[1].dests = <<>> /\ t[1].kind = "LABEL"
    BY <2>1 DEF Label
  <2>6. Goals(t)
    <3> SUFFICES ASSUME NEW p \in DOMAIN t, NEW d \in DOMAIN t[p].dests
                 PROVE  t[p].dests[d] \in LabelsOf(t)
      BY DEF Goals
    <3>1. p # 1
      BY <2>5
    <3> QED
      BY <1>2, <2>3, <2>4, <3>1 DEF Goals
  <2>7. Distinct(t)
    <3> SUFFICES ASSUME NEW i \in DOMAIN t, NEW j \in DOMAIN t,
                        t[i].kind \in {"PLAIN", "CJUMP"}, t[i] = t[j]
                 PROVE  i = j
      BY DEF Distinct
    <3>1. i # 1 /\ j # 1
      BY <2>5
    <3>2. i - 1 = j - 1
      BY <1>3, <2>3, <3>1 DEF Distinct
    <3> QED
      BY <2>1, <3>2
  <2> QED
    BY <2>2, <2>6, <2>7
<1> QED
  BY <1>2, <1>3, <1>4 DEF WithStart

(* What stands in a block: its piece of the list, and a jump to what comes *)
(* after it, unless the piece ends in a jump.                              *)
LEMMA BlockIs ==
  ASSUME Cuttable(input), NEW i \in DOMAIN input, IsLabel(input[i])
  PROVE  LET e == BlockEnd(i)
             x == Block(i, e)
         IN  /\ e \in i .. Len(input)
             /\ \A k \in 1 .. e - i + 1 : k \in DOMAIN x /\ x[k] = input[i + k - 1]
             /\ \/ IsJump(input[e]) /\ Len(x) = e - i + 1
                \/ /\ ~IsJump(input[e]) /\ Len(x) = e - i + 2
                   /\ \/ e = Len(input) /\ x[Len(x)] = Jump(Done)
                      \/ /\ e + 1 \in DOMAIN input /\ IsLabel(input[e + 1])
                         /\ x[Len(x)] = Jump(input[e + 1].id)
<1> DEFINE e == BlockEnd(i)
<1> DEFINE body == SubSeq(input, i, e)
<1> DEFINE x == Block(i, e)
<1>1. e \in i .. Len(input) /\ (e < Len(input) => IsLabel(input[e + 1]))
  BY BlockEnds
<1>2. x = IF e > i /\ IsJump(input[e]) THEN body
          ELSE Append(body, Jump(IF e = Len(input) THEN Done ELSE input[e + 1].id))
  BY DEF Block
<1> HIDE DEF e, x
<1>3. i \in Nat /\ e \in Nat /\ Len(input) \in Nat /\ i >= 1 /\ i <= e /\ e <= Len(input)
      /\ input \in Seq(Stmt) /\ DOMAIN input = 1 .. Len(input)
  BY <1>1 DEF Cuttable
<1>4. body \in Seq(Stmt) /\ Len(body) = e - i + 1
      /\ \A k \in 1 .. e - i + 1 : body[k] = input[i + k - 1]
  BY <1>1, <1>3, PartOfList
<1> HIDE DEF body
<1>5. ~IsJump(input[i])
  BY DEF IsJump, IsLabel
<1>6. CASE IsJump(input[e])
  <2>1. e > i
    BY <1>3, <1>5, <1>6
  <2>2. x = body
    BY <1>2, <1>6, <2>1
  <2> QED
    BY <1>1, <1>3, <1>4, <1>6, <2>2 DEF e, x
<1>7. CASE ~IsJump(input[e])
  <2> DEFINE l == IF e = Len(input) THEN Done ELSE input[e + 1].id
  <2>1. x = Append(body, Jump(l))
    BY <1>2, <1>7
  <2> HIDE DEF l
  <2>2. Len(x) = e - i + 2 /\ x[Len(x)] = Jump(l)
        /\ \A k \in 1 .. e - i + 1 : k \in DOMAIN x /\ x[k] = input[i + k - 1]
    BY <1>3, <1>4, <2>1
  <2>3. \/ e = Len(input) /\ l = Done
        \/ e + 1 \in DOMAIN input /\ IsLabel(input[e + 1]) /\ l = input[e + 1].id
    <3>1. CASE e = Len(input)
      BY <3>1 DEF l
    <3>2. CASE e # Len(input)
      <4> DEFINE m == Len(input)
      <4>1. e \in Nat /\ m \in Nat /\ e <= m /\ e # m
        BY <1>3, <3>2
      <4>2. e < m /\ e + 1 \in 1 .. m
        <5> HIDE DEF m
        <5> QED
          BY <4>1
      <4> QED
        BY <1>1, <1>3, <3>2, <4>2 DEF l
    <3> QED
      BY <3>1, <3>2
  <2> QED
    BY <1>1, <1>7, <2>2, <2>3 DEF e, x
<1> QED
  BY <1>6, <1>7

LEMMA InitRebuilt == Init => Rebuilt
<1> SUFFICES ASSUME Init PROVE Rebuilt
  OBVIOUS
<1>1. PICK s \in Inputs : input = WithStart(s)
  BY DEF Init
<1>2. Goals(input) /\ Distinct(input)
  BY <1>1, StartGoals
<1>3. blocks = <<>> /\ DOMAIN blocks = {} /\ cur = 1 /\ pc = "cut"
  BY DEF Init
<1>4. \A p \in DOMAIN input : ~(p < cur)
  <2>1. Cuttable(input)
    BY InitInv DEF Inv, Cut
  <2> QED
    BY <1>3, <2>1 DEF Cuttable
<1> QED
  BY <1>2, <1>3, <1>4, InitInv DEF Rebuilt, Pieces

(* A block begins where its label stands. *)
LEMMA Begins ==
  ASSUME Cut, Pieces, NEW n \in DOMAIN blocks
  PROVE  /\ St(n) \in DOMAIN input /\ input[St(n)] = Label(LabelOf(n)) /\ IsLabel(input[St(n)])
         /\ En(n) \in St(n) .. Len(input)
         /\ \A p \in St(n) + 1 .. En(n) : ~IsLabel(input[p])
<1>1. St(n) \in DOMAIN input /\ Cuttable(input) /\ blocks[n][1] = Label(LabelOf(n))
  BY BlocksTyped DEF Pieces, Cut
<1>2. PICK i \in DOMAIN input : input[i] = Label(LabelOf(n))
  BY <1>1 DEF Cut
<1>3. input \in Seq(Stmt)
  BY <1>1 DEF Cuttable
<1>4. input[St(n)] = Label(LabelOf(n))
  BY <1>2, <1>3, PositionIs DEF St
<1>5. IsLabel(input[St(n)])
  BY <1>4 DEF IsLabel, Label
<1> QED
  BY <1>1, <1>4, <1>5, BlockEnds DEF En

LEMMA CutRebuilds ==
  ASSUME Rebuilt, CutBlock
  PROVE  Rebuilt'
<1> DEFINE e == BlockEnd(cur)
<1> DEFINE x == Block(cur, e)
<1>1. /\ Inv /\ Inv' /\ Cut /\ Pieces /\ pc = "cut" /\ cur <= Len(input)
      /\ blocks' = Append(blocks, x) /\ cur' = e + 1
      /\ UNCHANGED <<input, tab, b, trace, result, pc>>
  BY CutStep DEF Rebuilt, Inv, CutBlock
<1>2. cur \in DOMAIN input /\ IsLabel(input[cur]) /\ Cuttable(input) /\ Len(input) \in Nat
      /\ DOMAIN input = 1 .. Len(input) /\ input \in Seq(Stmt)
  BY <1>1 DEF Cut, Cuttable
<1>3. e \in cur .. Len(input)
  BY <1>2, BlockEnds
<1>4. x[1] = input[cur] /\ Shaped(x)
  BY <1>2, BlockShaped
<1>5. e \in Nat /\ cur \in Nat /\ cur < cur'
  BY <1>1, <1>2, <1>3
<1>. PICK N : N = Len(blocks) + 1
  OBVIOUS
<1>6. /\ N = Len(blocks) + 1 /\ DOMAIN blocks' = 1 .. N /\ DOMAIN blocks = 1 .. Len(blocks) /\ Len(blocks) \in Nat
      /\ blocks'[N] = x /\ \A n \in DOMAIN blocks : n \in DOMAIN blocks' /\ blocks'[n] = blocks[n]
  BY <1>1, <1>4 DEF Cut, Shaped
<1>7. \A n \in DOMAIN blocks' : n = N \/ n \in DOMAIN blocks
  BY <1>6
<1>8. input' = input
  BY <1>1
<1>9. \A n \in DOMAIN blocks : St(n)' = St(n) /\ En(n)' = En(n)
  BY <1>1, <1>6 DEF St, En, LabelOf, BlockEnd
<1>10. Position(input, input[cur].id) = cur
  <2>1. input[cur] \in Stmt
    BY <1>2
  <2>2. input[cur] = Label(input[cur].id)
    BY <1>2, <2>1, LabelsAreTheirIds
  <2> DEFINE i == Position(input, input[cur].id)
  <2>3. i \in DOMAIN input /\ input[i] = input[cur]
    BY <1>2, <2>2, PositionIs
  <2> QED
    BY <1>2, <2>3 DEF Cuttable
<1> HIDE DEF e, x
<1>11. St(N)' = cur /\ En(N)' = e
  <2>1. St(N)' = cur
    BY <1>1, <1>4, <1>6, <1>10 DEF St, LabelOf
  <2> QED
    BY <1>8, <2>1 DEF e, En, BlockEnd
<1>12. ASSUME NEW n \in DOMAIN blocks'
       PROVE  /\ St(n)' \in DOMAIN input' /\ En(n)' < cur'
              /\ blocks'[n] = Block(St(n), En(n))'
  <2>2. CASE n = N
    <3>1. Block(St(n), En(n))' = Block(cur, e)
      BY <1>8, <1>11, <2>2 DEF Block
    <3> QED
      BY <1>1, <1>2, <1>5, <1>6, <1>11, <2>2, <3>1 DEF x
  <2>3. CASE n \in DOMAIN blocks
    <3>1. St(n) \in DOMAIN input /\ En(n) < cur /\ blocks[n] = Block(St(n), En(n))
      BY <1>1, <2>3 DEF Pieces
    <3>2. En(n) \in Int
      BY <1>1, <2>3, Begins
    <3>3. Block(St(n), En(n))' = Block(St(n), En(n))
      BY <1>8, <1>9, <2>3 DEF Block
    <3> QED
      BY <1>1, <1>5, <1>6, <1>9, <2>3, <3>1, <3>2, <3>3
  <2> QED
    BY <1>7, <2>2, <2>3
<1>13. ASSUME NEW p \in DOMAIN input, p < cur' PROVE \E n \in DOMAIN blocks' : p \in St(n)' .. En(n)'
  <2>1. CASE p < cur
    <3>1. PICK n \in DOMAIN blocks : p \in St(n) .. En(n)
      BY <1>1, <2>1 DEF Pieces
    <3> QED
      BY <1>6, <1>9, <3>1
  <2>2. CASE ~(p < cur)
    <3>1. p \in cur .. e
      BY <1>1, <1>2, <1>3, <1>5, <1>13, <2>2
    <3> QED
      BY <1>6, <1>11, <3>1
  <2> QED
    BY <2>1, <2>2
<1>14. St(1)' = 1
  <2>1. CASE blocks = <<>>
    <3>1. cur = 1 /\ N = 1
      BY <1>1, <1>6, <2>1 DEF Pieces
    <3> QED
      BY <1>11, <3>1
  <2>2. CASE blocks # <<>>
    <3>1. 1 \in DOMAIN blocks
      BY <1>1, <1>6, <2>2, EmptySeq DEF Cut
    <3> QED
      BY <1>1, <1>9, <2>2, <3>1 DEF Pieces
  <2> QED
    BY <2>1, <2>2
<1>15. blocks' # <<>>
  BY <1>6
<1>16. Pieces'
  BY <1>1, <1>12, <1>13, <1>14, <1>15 DEF Pieces, Goals, Distinct
<1> QED
  BY <1>1, <1>16 DEF Rebuilt

(* What has not been touched keeps the pieces. *)
LEMMA PiecesStay ==
  ASSUME Pieces, UNCHANGED <<input, cur, blocks>>, pc # "cut" \/ pc' = "cut" \/ cur > Len(input), Cut
  PROVE  Pieces'
<1>1. \A n : St(n)' = St(n) /\ En(n)' = En(n)
  BY DEF St, En, LabelOf, BlockEnd
<1>2. \A n : Block(St(n), En(n))' = Block(St(n), En(n))
  BY <1>1 DEF Block
<1>3. cur > Len(input) => cur = Len(input) + 1
  BY DEF Cut, Cuttable
<1> QED
  BY <1>1, <1>2, <1>3 DEF Pieces, Goals, Distinct

(* What stands in a list stands in one that begins with it. *)
LEMMA StaysStanding ==
  ASSUME NEW x \in Seq(Stmt), NEW s \in Seq(Stmt), NEW t \in Seq(Stmt), Len(s) <= Len(t),
         \A i \in DOMAIN s : t[i] = s[i], NEW i \in Int, StandsAt(x, s, i)
  PROVE  StandsAt(x, t, i)
<1>1. DOMAIN s = 1 .. Len(s) /\ DOMAIN t = 1 .. Len(t) /\ DOMAIN x = 1 .. Len(x)
      /\ Len(s) \in Nat /\ Len(t) \in Nat /\ Len(x) \in Nat
  OBVIOUS
<1>2. i \in 1 .. Len(s) /\ i + Len(x) - 1 \in 1 .. Len(s)
  BY <1>1 DEF StandsAt
<1>3. \A k \in 1 .. Len(x) : i + k - 1 \in 1 .. Len(s)
  BY <1>1, <1>2
<1>4. i \in 1 .. Len(t) /\ i + Len(x) - 1 \in 1 .. Len(t)
  BY <1>1, <1>2
<1> QED
  BY <1>1, <1>3, <1>4 DEF StandsAt

LEMMA FillRebuilds ==
  ASSUME Rebuilt, FillTable
  PROVE  Rebuilt'
<1>1. Inv /\ Inv' /\ Cut /\ Pieces /\ pc = "cut" /\ cur > Len(input)
      /\ b = 1 /\ trace = 0 /\ result = <<>>
      /\ pc' = "place" /\ UNCHANGED <<input, cur, blocks, b, trace, result>>
  BY FillStep DEF Rebuilt, Inv, FillTable
<1>2. Pieces'
  BY <1>1, PiecesStay
<1>3. DOMAIN result' = {} /\ result' = <<>>
  BY <1>1
<1>4. Made'
  BY <1>1, <1>3 DEF Made
<1> QED
  BY <1>1, <1>2, <1>4 DEF Rebuilt

LEMMA PickRebuilds ==
  ASSUME Rebuilt, PickTrace
  PROVE  Rebuilt'
<1>1. Inv /\ Inv' /\ Cut /\ Table /\ Scheduled /\ Pieces /\ Made /\ pc = "place"
      /\ trace = 0 /\ b <= Len(blocks)
      /\ trace' = (IF tab[LabelOf(b)] = 0 THEN 0 ELSE b)
      /\ UNCHANGED <<input, cur, blocks, tab, result, pc>>
  BY PickStep DEF Rebuilt, Inv, PickTrace
<1>2. Pieces'
  BY <1>1, PiecesStay
<1>3. ASSUME result = <<>> PROVE trace' = 1
  <2>1. b = 1 /\ b \in DOMAIN blocks
    BY <1>1, <1>3, BlocksTyped DEF Made, Table
  <2>2. DOMAIN result = {}
    BY <1>3
  <2>3. tab[LabelOf(b)] # 0
    BY <1>1, <2>1, <2>2 DEF Scheduled
  <2> QED
    BY <1>1, <2>1, <2>3
<1>4. Made'
  <2>1. result' = <<>> => pc' = "place" /\ (trace' = 1 \/ (trace' = 0 /\ b' = 1))
    BY <1>1, <1>3
  <2>2. result' # <<>> => blocks' # <<>> /\ result'[1] = blocks'[1][1]
    BY <1>1 DEF Made
  <2>3. \A q \in DOMAIN result' : \E n \in DOMAIN blocks' : \E k \in DOMAIN blocks'[n] :
          tab'[LabelOf(n)'] = 0 /\ StandsAt(blocks'[n], result', q - k + 1)
    BY <1>1 DEF Made, LabelOf
  <2> QED
    BY <1>1, <2>1, <2>2, <2>3 DEF Made
<1> QED
  BY <1>1, <1>2, <1>4 DEF Rebuilt

LEMMA PlaceRebuilds ==
  ASSUME Rebuilt, PlaceBlock
  PROVE  Rebuilt'
<1> DEFINE x == blocks[trace]
<1>1. Inv /\ Inv' /\ Cut /\ Table /\ Scheduled /\ Scheduled' /\ Pieces /\ Made /\ pc = "place"
      /\ trace # 0 /\ tab' = [tab EXCEPT ![LabelOf(trace)] = 0]
      /\ result' = result \o x
      /\ UNCHANGED <<input, cur, blocks, b, pc>>
  BY PlaceStep DEF Rebuilt, Inv, PlaceBlock
<1>2. Pieces'
  BY <1>1, PiecesStay
<1>3. /\ trace \in DOMAIN blocks /\ LabelOf(trace) \in AllLabels
      /\ x \in Seq(Stmt) /\ Len(x) \in Nat \ {0} /\ DOMAIN x = 1 .. Len(x)
      /\ tab \in [AllLabels -> 0 .. Len(blocks)]
      /\ DOMAIN blocks = 1 .. Len(blocks) /\ Len(blocks) \in Nat
  <2>1. trace \in 1 .. Len(blocks) /\ tab \in [AllLabels -> 0 .. Len(blocks)]
    BY <1>1, BlocksTyped DEF Table
  <2> QED
    BY <1>1, <2>1, BlocksTyped
<1>4. tab'[LabelOf(trace)] = 0
      /\ \A n \in DOMAIN blocks : tab[LabelOf(n)] = 0 => tab'[LabelOf(n)] = 0
  BY <1>1, <1>3, BlocksTyped
<1>5. /\ result \in Seq(Stmt) /\ result' \in Seq(Stmt) /\ Len(result) \in Nat
      /\ Len(result') = Len(result) + Len(x)
      /\ DOMAIN result' = 1 .. Len(result) + Len(x) /\ DOMAIN result = 1 .. Len(result)
      /\ \A i \in 1 .. Len(result) : result'[i] = result[i]
      /\ \A k \in 1 .. Len(x) : result'[Len(result) + k] = x[k]
  <2>1. result \in Seq(Stmt)
    BY <1>1 DEF Scheduled
  <2> QED
    BY <1>1, <1>3, <2>1
<1>6. StandsAt(x, result', Len(result) + 1)
  <2> PICK i : i = Len(result) + 1
    OBVIOUS
  <2> HIDE DEF x
  <2>1. \A k \in 1 .. Len(x) : i + k - 1 = Len(result) + k
    BY <1>3, <1>5
  <2>2. i \in DOMAIN result' /\ i + Len(x) - 1 \in DOMAIN result'
    BY <1>3, <1>5
  <2> QED
    BY <1>3, <1>5, <2>1, <2>2 DEF StandsAt
<1>7. ASSUME NEW q \in DOMAIN result'
      PROVE  \E n \in DOMAIN blocks : \E k \in DOMAIN blocks[n] :
               tab'[LabelOf(n)] = 0 /\ StandsAt(blocks[n], result', q - k + 1)
  <2>1. CASE q \in DOMAIN result
    <3>0. PICK n \in DOMAIN blocks : \E k \in DOMAIN blocks[n] :
            tab[LabelOf(n)] = 0 /\ StandsAt(blocks[n], result, q - k + 1)
      BY <1>1, <2>1 DEF Made
    <3>1. PICK k \in DOMAIN blocks[n] :
            tab[LabelOf(n)] = 0 /\ StandsAt(blocks[n], result, q - k + 1)
      BY <3>0
    <3>2. blocks[n] \in Seq(Stmt) /\ q - k + 1 \in Int
      BY <1>1, <1>5, BlocksTyped
    <3>3. Len(result) <= Len(result') /\ \A i \in DOMAIN result : result'[i] = result[i]
      BY <1>3, <1>5
    <3> HIDE DEF x
    <3>4. StandsAt(blocks[n], result', q - k + 1)
      BY <1>5, <3>1, <3>2, <3>3, StaysStanding
    <3> QED
      BY <1>4, <3>1, <3>4
  <2>2. CASE q \notin DOMAIN result
    <3>1. q - Len(result) \in DOMAIN x /\ q - (q - Len(result)) + 1 = Len(result) + 1
      BY <1>3, <1>5, <2>2
    <3> QED
      BY <1>3, <1>4, <1>6, <3>1
  <2> QED
    BY <2>1, <2>2
<1>8. result' # <<>> /\ blocks # <<>> /\ result'[1] = blocks[1][1]
  <2>1. CASE result = <<>>
    <3>1. trace = 1 /\ Len(result) = 0 /\ 1 \in 1 .. Len(x)
      BY <1>1, <1>3, <2>1 DEF Made
    <3> QED
      BY <1>3, <1>5, <3>1
  <2>2. CASE result # <<>>
    <3>1. 1 \in 1 .. Len(result)
      BY <1>5, <2>2, EmptySeq
    <3> QED
      BY <1>1, <1>5, <2>2, <3>1 DEF Made
  <2> QED
    BY <2>1, <2>2
<1>9. Made'
  <2> HIDE DEF x
  <2> QED
    BY <1>1, <1>7, <1>8 DEF Made, LabelOf
<1> QED
  BY <1>1, <1>2, <1>9 DEF Rebuilt

LEMMA DoneRebuilds ==
  ASSUME Rebuilt, AppendDone
  PROVE  Rebuilt'
<1>1. Inv /\ Inv' /\ Cut /\ Table /\ Scheduled /\ Scheduled' /\ Pieces /\ Made /\ pc = "place"
      /\ trace = 0 /\ b > Len(blocks)
      /\ result' = Append(result, Label(Done)) /\ pc' = "done"
      /\ UNCHANGED <<input, cur, blocks, tab, b, trace>>
  BY DoneStep DEF Rebuilt, Inv, AppendDone
<1>2. Pieces'
  BY <1>1, PiecesStay
<1>3. /\ result \in Seq(Stmt) /\ result' \in Seq(Stmt) /\ Len(result) \in Nat
      /\ Len(result') = Len(result) + 1 /\ result' # <<>>
      /\ DOMAIN result' = 1 .. Len(result) + 1 /\ DOMAIN result = 1 .. Len(result)
      /\ \A i \in DOMAIN result : result'[i] = result[i]
      /\ result'[Len(result) + 1] = Label(Done)
  <2>1. result \in Seq(Stmt) /\ result' \in Seq(Stmt)
    BY <1>1 DEF Scheduled
  <2> QED
    BY <1>1, <2>1
<1>4. result # <<>>
  <2>1. blocks # <<>>
    <3>1. cur = Len(input) + 1 /\ Len(input) \in Nat \ {0}
      BY <1>1, EmptySeq, LenProperties DEF Pieces, Cut, Cuttable
    <3> QED
      BY <1>1, <3>1 DEF Pieces
  <2>2. 1 \in DOMAIN blocks /\ 1 < b
    <3>1. Len(blocks) \in Nat \ {0} /\ DOMAIN blocks = 1 .. Len(blocks) /\ b \in Nat
      BY <1>1, <2>1, EmptySeq, BlocksTyped DEF Cut, Table
    <3> QED
      BY <1>1, <3>1
  <2>3. tab[LabelOf(1)] = 0
    BY <1>1, <2>2 DEF Table
  <2>4. DOMAIN result # {}
    BY <1>1, <2>2, <2>3 DEF Scheduled
  <2> QED
    BY <2>4
<1>5. result'[1] = blocks[1][1] /\ blocks # <<>>
  <2>1. 1 \in DOMAIN result
    BY <1>3, <1>4, EmptySeq
  <2> QED
    BY <1>1, <1>3, <1>4, <2>1 DEF Made
<1>6. ASSUME NEW q \in DOMAIN result', q # Len(result')
      PROVE  \E n \in DOMAIN blocks : \E k \in DOMAIN blocks[n] :
               tab[LabelOf(n)] = 0 /\ StandsAt(blocks[n], result', q - k + 1)
  <2>1. q \in DOMAIN result
    BY <1>3, <1>6
  <2>0. PICK n \in DOMAIN blocks : \E k \in DOMAIN blocks[n] :
          tab[LabelOf(n)] = 0 /\ StandsAt(blocks[n], result, q - k + 1)
    BY <1>1, <2>1 DEF Made
  <2>2. PICK k \in DOMAIN blocks[n] :
          tab[LabelOf(n)] = 0 /\ StandsAt(blocks[n], result, q - k + 1)
    BY <2>0
  <2>3. blocks[n] \in Seq(Stmt) /\ q - k + 1 \in Int /\ Len(result) <= Len(result')
    BY <1>1, <1>3, BlocksTyped
  <2>4. StandsAt(blocks[n], result', q - k + 1)
    BY <1>3, <2>2, <2>3, StaysStanding
  <2> QED
    BY <2>2, <2>4
<1>7. Made'
  BY <1>1, <1>3, <1>5, <1>6 DEF Made, LabelOf
<1> QED
  BY <1>1, <1>2, <1>7 DEF Rebuilt

LEMMA StepRebuilds == Rebuilt /\ [Next]_vars => Rebuilt'
<1>1. ASSUME Rebuilt, UNCHANGED vars PROVE Rebuilt'
  <2>1. Inv' /\ Inv /\ Cut /\ Pieces
    BY <1>1, StepInv DEF Rebuilt, Inv
  <2>2. Pieces'
    BY <1>1, <2>1, PiecesStay DEF vars, Pieces
  <2>3. pc # "cut" => Made'
    BY <1>1 DEF Rebuilt, Made, vars, LabelOf
  <2> QED
    BY <1>1, <2>1, <2>2, <2>3 DEF Rebuilt, vars
<1> QED
  BY <1>1, CutRebuilds, FillRebuilds, PickRebuilds, PlaceRebuilds, DoneRebuilds DEF Next
-----------------------------------------------------------------------------
(* Where block n ends in the result. *)
EndsAt(n) == At(n) + Len(blocks[n]) - 1

(* The block that a statement came from, and the one that it came into.    *)
PieceOf(p) == CHOOSE n \in DOMAIN blocks : p \in St(n) .. En(n)
PlaceOf(q) == CHOOSE n \in DOMAIN blocks : q \in At(n) .. EndsAt(n)

Moved == [p \in DOMAIN input |-> At(PieceOf(p)) + p - St(PieceOf(p))]
CameFrom ==
  [q \in DOMAIN result |->
     IF q = Len(result) THEN Len(input) + 1 ELSE St(PlaceOf(q)) + q - At(PlaceOf(q))]

(* A block that is placed stands where its label stands, with the piece of *)
(* the list that it was cut from and the jump that it was given.           *)
LEMMA BlockStands ==
  ASSUME Rebuilt, pc = "done", NEW n \in DOMAIN blocks
  PROVE  /\ At(n) \in DOMAIN result /\ EndsAt(n) \in DOMAIN result /\ At(n) <= EndsAt(n)
         /\ result[At(n)] = Label(LabelOf(n))
         /\ \A q \in At(n) + 1 .. EndsAt(n) : ~IsLabel(result[q])
         /\ St(n) \in DOMAIN input /\ En(n) \in DOMAIN input /\ St(n) <= En(n)
         /\ \A p \in St(n) .. En(n) : result[At(n) + p - St(n)] = input[p]
         /\ \/ IsJump(input[En(n)]) /\ EndsAt(n) = At(n) + En(n) - St(n)
            \/ /\ ~IsJump(input[En(n)]) /\ EndsAt(n) = At(n) + En(n) - St(n) + 1
               /\ \/ En(n) = Len(input) /\ result[EndsAt(n)] = Jump(Done)
                  \/ /\ En(n) + 1 \in DOMAIN input /\ IsLabel(input[En(n) + 1])
                     /\ result[EndsAt(n)] = Jump(input[En(n) + 1].id)
<1> DEFINE x == blocks[n]
<1>1. Inv /\ Cut /\ Table /\ Scheduled /\ Pieces /\ result \in Seq(Stmt)
      /\ input \in Seq(Stmt) /\ Cuttable(input)
  BY DEF Rebuilt, Inv, Scheduled, Cut, Cuttable
<1>2. /\ x \in Seq(Stmt) /\ Len(x) \in Nat \ {0} /\ DOMAIN x = 1 .. Len(x)
      /\ x[1] = Label(LabelOf(n)) /\ IsLabel(x[1])
  BY <1>1, BlocksTyped DEF Label, IsLabel
<1>3. tab[LabelOf(n)] = 0
  BY <1>1, BlocksTyped DEF Table
<1>4. PICK i \in DOMAIN result : StandsAt(x, result, i)
  BY <1>1, <1>3 DEF Scheduled
<1>5. DOMAIN result = 1 .. Len(result) /\ Len(result) \in Nat /\ i \in Nat
      /\ DOMAIN input = 1 .. Len(input) /\ Len(input) \in Nat
  BY <1>1
<1>6. result[i] = x[1]
  <2>1. i + 1 - 1 = i /\ 1 \in DOMAIN x
    BY <1>2, <1>5
  <2> QED
    BY <1>4, <2>1 DEF StandsAt
<1>7. At(n) = i
  <2>1. At(n) \in DOMAIN result /\ result[At(n)] = Label(LabelOf(n))
    BY <1>1, <1>2, <1>6, PositionIs DEF At
  <2> QED
    BY <1>1, <1>2, <1>6, <2>1 DEF Scheduled
<1>8. EndsAt(n) = i + Len(x) - 1 /\ EndsAt(n) \in DOMAIN result
      /\ \A k \in 1 .. Len(x) : result[i + k - 1] = x[k]
  BY <1>2, <1>4, <1>7 DEF StandsAt, EndsAt
<1>9. /\ St(n) \in DOMAIN input /\ IsLabel(input[St(n)]) /\ x = Block(St(n), En(n))
      /\ En(n) \in St(n) .. Len(input)
  BY <1>1, Begins DEF Pieces
<1>10. /\ \A k \in 1 .. En(n) - St(n) + 1 : k \in DOMAIN x /\ x[k] = input[St(n) + k - 1]
       /\ \/ IsJump(input[En(n)]) /\ Len(x) = En(n) - St(n) + 1
          \/ /\ ~IsJump(input[En(n)]) /\ Len(x) = En(n) - St(n) + 2
             /\ \/ En(n) = Len(input) /\ x[Len(x)] = Jump(Done)
                \/ /\ En(n) + 1 \in DOMAIN input /\ IsLabel(input[En(n) + 1])
                   /\ x[Len(x)] = Jump(input[En(n) + 1].id)
  BY <1>1, <1>9, BlockIs DEF En
<1>11. \A k \in DOMAIN x : k > 1 => ~IsLabel(x[k])
  BY <1>1 DEF Cut, Shaped
<1> HIDE DEF x
<1>12. St(n) \in Nat /\ En(n) \in Nat /\ St(n) <= En(n) /\ EndsAt(n) \in Nat /\ At(n) \in Nat
       /\ En(n) <= Len(input) /\ 1 <= St(n)
  BY <1>5, <1>7, <1>8, <1>9
<1>13. ASSUME NEW q \in At(n) + 1 .. EndsAt(n) PROVE ~IsLabel(result[q])
  <2>1. q - i + 1 \in 1 .. Len(x) /\ q - i + 1 > 1 /\ i + (q - i + 1) - 1 = q
    BY <1>2, <1>5, <1>7, <1>8
  <2> QED
    BY <1>2, <1>8, <1>11, <2>1
<1>14. ASSUME NEW p \in St(n) .. En(n) PROVE result[At(n) + p - St(n)] = input[p]
  <2>1. p - St(n) + 1 \in 1 .. En(n) - St(n) + 1 /\ St(n) + (p - St(n) + 1) - 1 = p
        /\ i + (p - St(n) + 1) - 1 = At(n) + p - St(n)
    BY <1>5, <1>7, <1>12, SMTT(20)
  <2>2. x[p - St(n) + 1] = input[p] /\ p - St(n) + 1 \in 1 .. Len(x)
    BY <1>2, <1>10, <2>1
  <2> QED
    BY <1>8, <2>1, <2>2
<1>15. result[EndsAt(n)] = x[Len(x)]
  BY <1>2, <1>8
<1>16. \/ Len(x) = En(n) - St(n) + 1 /\ EndsAt(n) = At(n) + En(n) - St(n)
       \/ Len(x) = En(n) - St(n) + 2 /\ EndsAt(n) = At(n) + En(n) - St(n) + 1
  <2>1. Len(x) = En(n) - St(n) + 1 \/ Len(x) = En(n) - St(n) + 2
    BY <1>10
  <2>2. EndsAt(n) = At(n) + Len(x) - 1 /\ At(n) \in Nat /\ En(n) \in Nat /\ St(n) \in Nat
    BY <1>7, <1>8, <1>12
  <2> QED
    BY <2>1, <2>2
<1>17. (Len(x) = En(n) - St(n) + 1) # (Len(x) = En(n) - St(n) + 2)
  BY <1>10, <1>12
<1>18. En(n) \in DOMAIN input /\ At(n) <= EndsAt(n)
  BY <1>2, <1>5, <1>7, <1>8, <1>12
<1>19. At(n) \in DOMAIN result /\ result[At(n)] = Label(LabelOf(n))
  BY <1>2, <1>4, <1>6, <1>7
<1> QED
  BY <1>8, <1>9, <1>10, <1>12, <1>13, <1>14, <1>15, <1>16, <1>17, <1>18, <1>19

(* No statement is in two blocks, before or after. *)
LEMMA OnePiece ==
  ASSUME Rebuilt, pc = "done", NEW m \in DOMAIN blocks, NEW n \in DOMAIN blocks, NEW p \in Int
  PROVE  /\ p \in St(m) .. En(m) /\ p \in St(n) .. En(n) => m = n
         /\ p \in At(m) .. EndsAt(m) /\ p \in At(n) .. EndsAt(n) => m = n
         /\ p \in At(m) .. EndsAt(m) => p # Len(result) /\ p \in DOMAIN result
<1>1. Inv /\ Cut /\ Scheduled /\ Pieces /\ result \in Seq(Stmt) /\ input \in Seq(Stmt)
  BY DEF Rebuilt, Inv, Scheduled, Cut, Cuttable
<1>2. DOMAIN result = 1 .. Len(result) /\ Len(result) \in Nat
      /\ DOMAIN input = 1 .. Len(input) /\ Len(input) \in Nat
  BY <1>1
<1>3. \A k \in DOMAIN blocks :
        /\ St(k) \in DOMAIN input /\ En(k) \in DOMAIN input
        /\ input[St(k)] = Label(LabelOf(k)) /\ IsLabel(input[St(k)])
        /\ \A j \in St(k) + 1 .. En(k) : ~IsLabel(input[j])
  BY <1>1, Begins, BlockStands
<1>4. \A k \in DOMAIN blocks :
        /\ At(k) \in DOMAIN result /\ EndsAt(k) \in DOMAIN result
        /\ result[At(k)] = Label(LabelOf(k)) /\ IsLabel(result[At(k)])
        /\ \A j \in At(k) + 1 .. EndsAt(k) : ~IsLabel(result[j])
  BY BlockStands DEF Label, IsLabel
<1>5. \A k, l \in DOMAIN blocks : LabelOf(k) = LabelOf(l) => k = l
  BY <1>1 DEF Cut
<1>6. \A k \in DOMAIN blocks : LabelOf(k) # Done
  BY <1>1, BlocksTyped
<1>7. \A k, l : Label(k) = Label(l) => k = l
  BY DEF Label
<1>8. ASSUME NEW k \in DOMAIN blocks, NEW l \in DOMAIN blocks,
             p \in St(k) .. En(k), p \in St(l) .. En(l), St(k) < St(l)
      PROVE  FALSE
  <2>1. St(l) \in St(k) + 1 .. En(k)
    BY <1>2, <1>3, <1>8
  <2> QED
    BY <1>3, <2>1
<1>9. ASSUME NEW k \in DOMAIN blocks, NEW l \in DOMAIN blocks,
             p \in At(k) .. EndsAt(k), p \in At(l) .. EndsAt(l), At(k) < At(l)
      PROVE  FALSE
  <2>1. At(l) \in At(k) + 1 .. EndsAt(k)
    BY <1>2, <1>4, <1>9
  <2> QED
    BY <1>4, <2>1
<1>10. ASSUME p \in St(m) .. En(m), p \in St(n) .. En(n) PROVE m = n
  <2>1. St(m) \in Int /\ St(n) \in Int
    BY <1>2, <1>3
  <2>2. St(m) = St(n)
    BY <1>8, <1>10, <2>1
  <2> QED
    BY <1>3, <1>5, <1>7, <2>2
<1>11. ASSUME p \in At(m) .. EndsAt(m), p \in At(n) .. EndsAt(n) PROVE m = n
  <2>1. At(m) \in Int /\ At(n) \in Int
    BY <1>2, <1>4
  <2>2. At(m) = At(n)
    BY <1>9, <1>11, <2>1
  <2> QED
    BY <1>4, <1>5, <1>7, <2>2
<1>12. ASSUME p \in At(m) .. EndsAt(m) PROVE p # Len(result) /\ p \in DOMAIN result
  <2>1. p \in DOMAIN result
    BY <1>2, <1>4, <1>12
  <2>2. result[Len(result)] = Label(Done)
    BY DEF Rebuilt, Made
  <2>3. result[p] # Label(Done)
    <3>1. CASE p = At(m)
      BY <1>4, <1>6, <1>7, <3>1
    <3>2. CASE p # At(m)
      <4>1. p \in At(m) + 1 .. EndsAt(m)
        BY <1>2, <1>4, <1>12, <3>2
      <4>2. ~IsLabel(result[p])
        BY <1>4, <4>1
      <4> QED
        BY <4>2 DEF Label, IsLabel
    <3> QED
      BY <3>1, <3>2
  <2> QED
    BY <2>1, <2>2, <2>3
<1> QED
  BY <1>10, <1>11, <1>12

(* The schedule is the list in another order, from the same statement on. *)
LEMMA IsRescheduled ==
  ASSUME Rebuilt, pc = "done"
  PROVE  /\ Rescheduled(input, result, Moved, CameFrom)
         /\ 1 \in DOMAIN input /\ 1 \in DOMAIN result /\ CameFrom[1] = 1
<1>1. Inv /\ Cut /\ Scheduled /\ Pieces /\ Made /\ result \in Seq(Stmt) /\ input \in Seq(Stmt)
      /\ Cuttable(input)
  BY DEF Rebuilt, Inv, Scheduled, Cut, Cuttable
<1> DEFINE N == Len(input)
<1> DEFINE M == Len(result)
<1>2. DOMAIN result = 1 .. M /\ M \in Nat /\ DOMAIN input = 1 .. N /\ N \in Nat \ {0}
      /\ \A p \in DOMAIN input : input[p] \in Stmt
  BY <1>1, EmptySeq, LenProperties DEF Cuttable
<1>3. M \in DOMAIN result /\ result[M] = Label(Done)
  BY <1>1, <1>2, EmptySeq DEF Made
<1> HIDE DEF N, M
(* Every statement is in one block, ... *)
<1>4. ASSUME NEW p \in DOMAIN input
      PROVE  PieceOf(p) \in DOMAIN blocks /\ p \in St(PieceOf(p)) .. En(PieceOf(p))
  <2>1. p < cur
    BY <1>1, <1>2 DEF Pieces, N
  <2>2. \E n \in DOMAIN blocks : p \in St(n) .. En(n)
    BY <1>1, <2>1 DEF Pieces
  <2> QED
    BY <2>2 DEF PieceOf
(* ... and every place but the last one. *)
<1>5. ASSUME NEW q \in DOMAIN result, q # M
      PROVE  PlaceOf(q) \in DOMAIN blocks /\ q \in At(PlaceOf(q)) .. EndsAt(PlaceOf(q))
  <2>1. PICK n \in DOMAIN blocks : \E k \in DOMAIN blocks[n] :
          StandsAt(blocks[n], result, q - k + 1)
    BY <1>1, <1>5 DEF Made, M
  <2>2. PICK k \in DOMAIN blocks[n] : StandsAt(blocks[n], result, q - k + 1)
    BY <2>1
  <2>3. Len(blocks[n]) \in Nat \ {0} /\ DOMAIN blocks[n] = 1 .. Len(blocks[n])
        /\ blocks[n][1] = Label(LabelOf(n))
    BY <1>1, BlocksTyped
  <2>4. q - k + 1 \in DOMAIN result /\ result[q - k + 1] = Label(LabelOf(n))
    <3>1. (q - k + 1) + 1 - 1 = q - k + 1 /\ 1 \in DOMAIN blocks[n]
      BY <1>2, <2>3
    <3> QED
      BY <2>2, <2>3, <3>1 DEF StandsAt
  <2>5. At(n) \in DOMAIN result /\ result[At(n)] = Label(LabelOf(n)) /\ IsLabel(Label(LabelOf(n)))
    BY BlockStands DEF Label, IsLabel
  <2>6. At(n) = q - k + 1
    BY <1>1, <2>4, <2>5 DEF Scheduled
  <2>7. q \in At(n) .. EndsAt(n)
    BY <1>2, <2>3, <2>6 DEF EndsAt
  <2> QED
    BY <2>7 DEF PlaceOf
(* In a block both keep the distance from its label. *)
<1>6. ASSUME NEW n \in DOMAIN blocks, NEW p \in St(n) .. En(n)
      PROVE  p \in DOMAIN input /\ Moved[p] = At(n) + p - St(n)
  <2>1. p \in DOMAIN input
    BY <1>2, BlockStands
  <2>2. PieceOf(p) = n
    BY <1>2, <1>4, <2>1, OnePiece
  <2> QED
    BY <2>1, <2>2 DEF Moved
<1>7. ASSUME NEW n \in DOMAIN blocks, NEW q \in At(n) .. EndsAt(n)
      PROVE  q \in DOMAIN result /\ q # M /\ CameFrom[q] = St(n) + q - At(n)
  <2>1. q \in Int
    OBVIOUS
  <2>2. q \in DOMAIN result /\ q # M
    BY <2>1, OnePiece DEF M
  <2>3. PlaceOf(q) = n
    BY <1>5, <2>1, <2>2, OnePiece
  <2> QED
    BY <2>2, <2>3 DEF CameFrom, M
<1>8. ASSUME NEW p \in DOMAIN input
      PROVE  /\ Moved[p] \in DOMAIN result /\ input[p] # Label(Done)
             /\ result[Moved[p]] = input[p] /\ CameFrom[Moved[p]] = p
             /\ ~IsJump(input[p]) =>
                  Moved[p] + 1 \in DOMAIN result /\ CameFrom[Moved[p] + 1] = p + 1
  <2> PICK n \in DOMAIN blocks : p \in St(n) .. En(n)
    BY <1>4
  <2>1. /\ At(n) \in DOMAIN result /\ EndsAt(n) \in DOMAIN result
        /\ St(n) \in DOMAIN input /\ En(n) \in DOMAIN input
        /\ result[At(n) + p - St(n)] = input[p]
        /\ \/ IsJump(input[En(n)]) /\ EndsAt(n) = At(n) + En(n) - St(n)
           \/ EndsAt(n) = At(n) + En(n) - St(n) + 1
    BY BlockStands
  <2>2. At(n) \in Int /\ EndsAt(n) \in Int /\ St(n) \in Int /\ En(n) \in Int /\ p \in Int
    BY <1>2, <2>1
  <2>3. Moved[p] = At(n) + p - St(n) /\ Moved[p] \in At(n) .. EndsAt(n)
    BY <1>6, <2>1, <2>2
  <2>4. St(n) + (At(n) + p - St(n)) - At(n) = p
    BY <2>2
  <2>5. Moved[p] \in DOMAIN result /\ CameFrom[Moved[p]] = p
    BY <1>7, <2>3, <2>4
  <2>6. input[p] # Label(Done)
    BY <1>1 DEF Cuttable, Label, IsLabel
  <2>7. ASSUME ~IsJump(input[p])
        PROVE  Moved[p] + 1 \in DOMAIN result /\ CameFrom[Moved[p] + 1] = p + 1
    <3>1. p # En(n) \/ EndsAt(n) = At(n) + En(n) - St(n) + 1
      BY <2>1, <2>7
    <3>2. Moved[p] + 1 \in At(n) .. EndsAt(n)
          /\ St(n) + (Moved[p] + 1) - At(n) = p + 1
      BY <2>1, <2>2, <2>3, <3>1
    <3> QED
      BY <1>7, <3>2
  <2> QED
    BY <2>1, <2>3, <2>5, <2>6, <2>7
<1>9. ASSUME NEW q \in DOMAIN result, q # M
      PROVE  /\ CameFrom[q] \in 1 .. N + 1
             /\ \/ CameFrom[q] \in DOMAIN input /\ Moved[CameFrom[q]] = q
                \/ /\ CameFrom[q] \in DOMAIN input /\ IsLabel(input[CameFrom[q]])
                   /\ result[q] = Jump(input[CameFrom[q]].id)
                \/ CameFrom[q] = N + 1 /\ result[q] = Jump(Done)
  <2> PICK n \in DOMAIN blocks : q \in At(n) .. EndsAt(n)
    BY <1>5, <1>9
  <2>1. /\ At(n) \in DOMAIN result /\ EndsAt(n) \in DOMAIN result
        /\ St(n) \in DOMAIN input /\ En(n) \in DOMAIN input
        /\ \/ EndsAt(n) = At(n) + En(n) - St(n)
           \/ /\ EndsAt(n) = At(n) + En(n) - St(n) + 1
              /\ \/ En(n) = N /\ result[EndsAt(n)] = Jump(Done)
                 \/ /\ En(n) + 1 \in DOMAIN input /\ IsLabel(input[En(n) + 1])
                    /\ result[EndsAt(n)] = Jump(input[En(n) + 1].id)
    BY BlockStands DEF N
  <2>2. At(n) \in Int /\ EndsAt(n) \in Int /\ St(n) \in Int /\ En(n) \in Int /\ q \in Int
    BY <1>2, <2>1
  <2>3. CameFrom[q] = St(n) + q - At(n)
    BY <1>7
  <2>4. CASE CameFrom[q] \in St(n) .. En(n)
    <3>1. At(n) + (St(n) + q - At(n)) - St(n) = q
      BY <2>2
    <3>2. CameFrom[q] \in DOMAIN input /\ Moved[CameFrom[q]] = q
      BY <1>6, <2>3, <2>4, <3>1
    <3> QED
      BY <1>2, <3>2
  <2>5. CASE CameFrom[q] \notin St(n) .. En(n)
    <3>1. q = EndsAt(n) /\ EndsAt(n) = At(n) + En(n) - St(n) + 1 /\ CameFrom[q] = En(n) + 1
      BY <2>1, <2>2, <2>3, <2>5
    <3>2. \/ En(n) = N /\ result[q] = Jump(Done)
          \/ /\ En(n) + 1 \in DOMAIN input /\ IsLabel(input[En(n) + 1])
             /\ result[q] = Jump(input[En(n) + 1].id)
      BY <2>1, <2>2, <3>1
    <3> QED
      BY <1>2, <3>1, <3>2
  <2> QED
    BY <2>4, <2>5
<1>10. CameFrom[M] = N + 1
  BY <1>3 DEF CameFrom, M, N
<1>11. Moved \in [DOMAIN input -> DOMAIN result] /\ CameFrom \in [DOMAIN result -> 1 .. N + 1]
  <2>1. \A q \in DOMAIN result : CameFrom[q] \in 1 .. N + 1
    BY <1>2, <1>9, <1>10
  <2> QED
    BY <1>8, <2>1 DEF Moved, CameFrom
<1>12. \A i, j \in DOMAIN result : IsLabel(result[i]) /\ result[i] = result[j] => i = j
  BY <1>1 DEF Scheduled
<1>13. Rescheduled(input, result, Moved, CameFrom)
  BY <1>3, <1>8, <1>9, <1>10, <1>11, <1>12 DEF Rescheduled, M, N
<1>14. 1 \in DOMAIN input /\ 1 \in DOMAIN result
  BY <1>2, <1>3
<1>15. CameFrom[1] = 1
  <2>1. blocks # <<>> /\ result[1] = blocks[1][1] /\ St(1) = 1
    BY <1>1, <1>14 DEF Made, Pieces
  <2>2. 1 \in DOMAIN blocks
    BY <1>1, <2>1, EmptySeq, BlocksTyped DEF Cut
  <2>3. result[1] = Label(LabelOf(1)) /\ IsLabel(Label(LabelOf(1)))
    BY <1>1, <2>1, <2>2, BlocksTyped DEF Label, IsLabel
  <2>4. At(1) \in DOMAIN result /\ result[At(1)] = Label(LabelOf(1)) /\ At(1) <= EndsAt(1)
        /\ EndsAt(1) \in DOMAIN result
    BY <2>2, BlockStands
  <2>5. At(1) = 1
    BY <1>12, <1>14, <2>3, <2>4
  <2>6. 1 \in At(1) .. EndsAt(1)
    BY <1>2, <2>4, <2>5
  <2> QED
    BY <1>7, <2>1, <2>2, <2>5, <2>6
<1> QED
  BY <1>13, <1>14, <1>15

LEMMA SameBySchedule ==
  ASSUME Rebuilt
  PROVE  SameExecution
<1> SUFFICES ASSUME pc = "done" PROVE SameExecution
  BY DEF SameExecution
<1> DEFINE B == Land(input)
<1> DEFINE A == Land(result)
<1>1. input \in Seq(Stmt) /\ result \in Seq(Stmt) /\ Goals(input) /\ Distinct(input)
  BY DEF Rebuilt, Inv, Scheduled, Cut, Cuttable, Pieces
<1>2. Rescheduled(input, result, Moved, CameFrom) /\ 1 \in DOMAIN result /\ CameFrom[1] = 1
  BY IsRescheduled
<1>3. \A q \in DOMAIN result : A[q] = B[CameFrom[q]]
  BY <1>1, <1>2, SameLanding
<1> HIDE DEF A, B
<1>4. B[1] = A[1]
  BY <1>2, <1>3
<1>5. ASSUME NEW i \in DOMAIN input, input[i].kind \in {"PLAIN", "CJUMP"}
      PROVE  /\ Moved[i] \in DOMAIN result /\ result[Moved[i]] = input[i]
             /\ Nexts(result, A, Moved[i]) = Nexts(input, B, i)
             /\ \A k \in DOMAIN result : result[k] = result[Moved[i]] => k = Moved[i]
  <2> DEFINE j == Moved[i]
  <2>1. /\ j \in DOMAIN result /\ result[j] = input[i]
        /\ ~IsJump(input[i]) => j + 1 \in DOMAIN result /\ CameFrom[j + 1] = i + 1
        /\ CameFrom[j] = i
    BY <1>2 DEF Rescheduled
  <2> HIDE DEF j
  <2>2. Nexts(result, A, j) = Nexts(input, B, i)
    <3>1. CASE input[i].kind = "PLAIN"
      <4>1. A[j + 1] = B[i + 1]
        BY <1>3, <2>1, <3>1 DEF IsJump
      <4> QED
        BY <2>1, <3>1, <4>1 DEF Nexts
    <3>2. CASE input[i].kind = "CJUMP"
      <4>1. input[i] \in Stmt
        BY <1>1
      <4>2. input[i].dests[1] \in LabelsOf(input) /\ input[i].dests[2] \in LabelsOf(input)
        BY <1>1, <3>2, <4>1, KindsApart DEF Goals
      <4>3. ASSUME NEW l \in LabelsOf(input) PROVE A[Position(result, l)] = B[Position(input, l)]
        <5>1. Position(input, l) \in DOMAIN input /\ Position(result, l) = Moved[Position(input, l)]
              /\ CameFrom[Position(result, l)] = Position(input, l)
          BY <1>1, <1>2, LabelsMoved
        <5>2. Position(result, l) \in DOMAIN result
          BY <1>2, <5>1 DEF Rescheduled
        <5> QED
          BY <1>3, <5>1, <5>2
      <4> QED
        BY <2>1, <3>2, <4>2, <4>3 DEF Nexts
    <3> QED
      BY <1>5, <3>1, <3>2
  <2>3. ASSUME NEW k \in DOMAIN result, result[k] = result[j] PROVE k = j
    <3>1. result[k] = input[i] /\ result[k].kind \in {"PLAIN", "CJUMP"}
      BY <1>5, <2>1, <2>3
    <3>2. k # Len(result)
      BY <1>2, <3>1 DEF Rescheduled, Label
    <3>3. CameFrom[k] \in DOMAIN input /\ Moved[CameFrom[k]] = k /\ result[k] = input[CameFrom[k]]
      BY <1>1, <1>2, <3>1, <3>2, PlacesOf
    <3>4. CameFrom[k] = i
      BY <1>1, <1>5, <3>1, <3>3 DEF Distinct
    <3> QED
      BY <3>3, <3>4 DEF j
  <2> QED
    BY <2>1, <2>2, <2>3 DEF j
<1> QED
  BY <1>4, <1>5 DEF SameExecution, A, B

(* For every list that trans.c and linearize can hand over, whatever its   *)
(* loops, its empty blocks and the order in which traces run into each     *)
(* other: the schedule begins with the same statement as the list and goes *)
(* from every statement to the same ones (basic_blocks, trace_schedule).   *)
THEOREM ScheduleRunsTheSame == Spec => []SameExecution
<1>1. QED
  BY InitRebuilt, StepRebuilds, SameBySchedule, PTL DEF Spec
-----------------------------------------------------------------------------
(* R has what comes before block n, and nothing leads out of it but n. *)
Avoids(n, R) ==
  /\ R \subseteq DOMAIN blocks /\ n \notin R
  /\ 1 .. n - 1 \subseteq R
  /\ \A m \in R : Successors(m) \ {n} \subseteq R

(* As long as block n waits, the traces have not left such an R.           *)
Dominated ==
  \A n \in DOMAIN blocks : \A R \in SUBSET DOMAIN blocks :
    Avoids(n, R) /\ tab[LabelOf(n)] # 0 =>
      /\ \A m \in DOMAIN blocks : tab[LabelOf(m)] = 0 => m \in R
      /\ trace # 0 => trace \in R \union {n}

(* The false block of n, m, is outside of R.                               *)
Guards(n, m) ==
  /\ LastOf(n).kind = "CJUMP" /\ LabelOf(m) = LastOf(n).dests[2] /\ m # n
  /\ \E R \in SUBSET DOMAIN blocks : Avoids(n, R) /\ m \notin R

(* Once n is placed, m is the next block that is. *)
FallsThrough ==
  \A n, m \in DOMAIN blocks : Guards(n, m) /\ tab[LabelOf(n)] = 0 =>
    \E j \in DOMAIN result :
      /\ result[j] = LastOf(n)
      /\ \/ j = Len(result) /\ trace = m
         \/ j + 1 \in DOMAIN result /\ result[j + 1] = blocks[m][1]

Follows == Inv /\ (pc # "cut" => Dominated /\ FallsThrough)

LEMMA JumpsAnywhere ==
  \A s \in Stmt : \A d \in DOMAIN s.dests : s.dests[d] \in AllLabels
<1> SUFFICES ASSUME NEW s \in Stmt, NEW d \in DOMAIN s.dests PROVE s.dests[d] \in AllLabels
  OBVIOUS
<1>1. CASE IsLabel(s) \/ s.kind = "PLAIN"
  BY <1>1 DEF Stmt, IsLabel, Label, Jump
<1>2. CASE s.kind = "JUMP"
  BY <1>2 DEF Stmt, Label, Jump, AllLabels
<1>3. CASE s.kind = "CJUMP"
  <2>1. s.dests \in Labels \X Labels
    BY <1>3 DEF Stmt, Label, Jump
  <2> QED
    BY <2>1 DEF AllLabels
<1> QED
  BY <1>1, <1>2, <1>3, KindsApart

(* One round of trace_schedule's inner loop. *)
LEMMA Placing ==
  ASSUME Inv, PlaceBlock
  PROVE  /\ trace \in DOMAIN blocks /\ tab[LabelOf(trace)] # 0
         /\ tab'[LabelOf(trace)] = 0
         /\ \A n \in DOMAIN blocks : n # trace => tab'[LabelOf(n)] = tab[LabelOf(n)]
         /\ trace' = Follow(LastOf(trace), tab')
         /\ trace' # 0 => trace' \in Successors(trace)
         /\ Len(result) \in Nat /\ DOMAIN result = 1 .. Len(result)
         /\ Len(result') > Len(result) /\ DOMAIN result' = 1 .. Len(result') /\ Len(result') \in Nat
         /\ \A i \in DOMAIN result : result'[i] = result[i]
         /\ result'[Len(result) + 1] = blocks[trace][1]
         /\ result'[Len(result')] = LastOf(trace)
<1> DEFINE x == blocks[trace]
<1>1. Inv' /\ Cut /\ Table /\ Scheduled /\ Table' /\ pc = "place"
      /\ trace # 0 /\ tab' = [tab EXCEPT ![LabelOf(trace)] = 0]
      /\ result' = result \o x /\ trace' = Follow(x[Len(x)], tab')
      /\ UNCHANGED <<input, cur, blocks, b, pc>>
  BY PlaceStep DEF Inv, PlaceBlock
<1>2. /\ trace \in DOMAIN blocks /\ LabelOf(trace) \in AllLabels /\ tab[LabelOf(trace)] # 0
      /\ x \in Seq(Stmt) /\ Len(x) \in Nat \ {0} /\ DOMAIN x = 1 .. Len(x)
      /\ tab \in [AllLabels -> 0 .. Len(blocks)]
      /\ DOMAIN blocks = 1 .. Len(blocks) /\ Len(blocks) \in Nat
  <2>1. trace \in 1 .. Len(blocks) /\ tab \in [AllLabels -> 0 .. Len(blocks)]
        /\ tab[LabelOf(trace)] # 0
    BY <1>1, BlocksTyped DEF Table
  <2> QED
    BY <1>1, <2>1, BlocksTyped
<1>3. tab'[LabelOf(trace)] = 0
      /\ \A n \in DOMAIN blocks : n # trace => tab'[LabelOf(n)] = tab[LabelOf(n)]
  <2>1. \A n \in DOMAIN blocks : n # trace => LabelOf(n) # LabelOf(trace) /\ LabelOf(n) \in AllLabels
    BY <1>1, <1>2, BlocksTyped DEF Cut
  <2> QED
    BY <1>1, <1>2, <2>1
<1>4. result \in Seq(Stmt)
  BY <1>1 DEF Scheduled
<1>5. /\ Len(result) \in Nat /\ DOMAIN result = 1 .. Len(result)
      /\ Len(result') = Len(result) + Len(x) /\ DOMAIN result' = 1 .. Len(result')
      /\ \A i \in DOMAIN result : result'[i] = result[i]
      /\ \A k \in 1 .. Len(x) : result'[Len(result) + k] = x[k]
  BY <1>1, <1>2, <1>4
<1>6. result'[Len(result) + 1] = x[1] /\ result'[Len(result')] = x[Len(x)]
      /\ Len(result') > Len(result) /\ Len(result') \in Nat
  BY <1>2, <1>5
<1>7. x[Len(x)] = LastOf(trace)
  BY DEF LastOf
<1>8. LastOf(trace) \in Stmt /\ IsJump(LastOf(trace))
  <2>1. Len(x) \in DOMAIN x /\ Shaped(x)
    BY <1>1, <1>2 DEF Cut
  <2> QED
    BY <1>2, <1>7, <2>1 DEF Shaped
<1>9. ASSUME trace' # 0 PROVE trace' \in Successors(trace)
  <2>1. PICK d \in DOMAIN LastOf(trace).dests : trace' = tab'[LastOf(trace).dests[d]]
    <3>1. CASE LastOf(trace).kind = "JUMP"
      BY <1>1, <1>7, <1>8, <3>1, KindsApart DEF Follow
    <3>2. CASE LastOf(trace).kind = "CJUMP"
      BY <1>1, <1>7, <1>8, <3>2, KindsApart DEF Follow
    <3> QED
      BY <1>8, <3>1, <3>2 DEF IsJump
  <2>2. LastOf(trace).dests[d] \in AllLabels
    BY <1>8, JumpsAnywhere
  <2>3. trace' \in DOMAIN blocks /\ LabelOf(trace') = LastOf(trace).dests[d]
    <3>1. trace' \in 0 .. Len(blocks)
      BY <1>1, <1>2 DEF Table
    <3>2. LabelOf(trace') = LastOf(trace).dests[d]
      BY <1>1, <1>9, <2>1, <2>2 DEF Table, LabelOf
    <3> QED
      BY <1>2, <1>9, <3>1, <3>2
  <2> QED
    BY <2>3 DEF Successors
<1> QED
  BY <1>1, <1>2, <1>3, <1>5, <1>6, <1>7, <1>9

LEMMA NothingPlaced ==
  ASSUME Inv, FillTable
  PROVE  \A n \in DOMAIN blocks : tab'[LabelOf(n)] # 0
<1>1. Inv' /\ Scheduled' /\ result' = <<>> /\ DOMAIN result' = {} /\ blocks' = blocks
  <2>1. Inv' /\ pc' = "place" /\ blocks' = blocks /\ result' = result /\ result = <<>>
    BY FillStep DEF FillTable, Inv
  <2> QED
    BY <2>1 DEF Inv
<1> QED
  BY <1>1 DEF Scheduled, LabelOf

LEMMA FillFollows ==
  ASSUME Follows, FillTable
  PROVE  Follows'
<1>1. Inv' /\ blocks' = blocks /\ trace' = 0
  BY FillStep DEF Follows, FillTable, Inv
<1>2. \A n \in DOMAIN blocks : tab'[LabelOf(n)] # 0
  BY NothingPlaced DEF Follows
<1>3. Dominated' /\ FallsThrough'
  BY <1>1, <1>2 DEF Dominated, FallsThrough, LabelOf
<1> QED
  BY <1>1, <1>3 DEF Follows

(* The cut is as before when the blocks are. *)
LEMMA SameBlocks ==
  ASSUME blocks' = blocks
  PROVE  /\ \A n : LabelOf(n)' = LabelOf(n) /\ LastOf(n)' = LastOf(n)
         /\ \A n, R : Avoids(n, R)' = Avoids(n, R)
         /\ \A n, m : Guards(n, m)' = Guards(n, m)
<1>1. \A n : LabelOf(n)' = LabelOf(n) /\ LastOf(n)' = LastOf(n)
  BY DEF LabelOf, LastOf
<1>2. \A n : Successors(n)' = Successors(n)
  BY <1>1 DEF Successors
<1>3. \A n, R : Avoids(n, R)' = Avoids(n, R)
  BY <1>2 DEF Avoids
<1>4. \A n, m : Guards(n, m)' = Guards(n, m)
  BY <1>1, <1>3 DEF Guards
<1> QED
  BY <1>1, <1>3, <1>4

LEMMA PickFollows ==
  ASSUME Follows, PickTrace
  PROVE  Follows'
<1>1. Inv /\ Inv' /\ Cut /\ Table /\ Dominated /\ FallsThrough /\ pc = "place"
      /\ trace = 0 /\ b <= Len(blocks)
      /\ trace' = (IF tab[LabelOf(b)] = 0 THEN 0 ELSE b)
      /\ UNCHANGED <<input, cur, blocks, tab, result, pc>>
  BY PickStep DEF Follows, Inv, PickTrace
<1>2. b \in DOMAIN blocks /\ DOMAIN blocks = 1 .. Len(blocks) /\ Len(blocks) \in Nat
  BY <1>1, BlocksTyped DEF Table
<1>3. ASSUME NEW n \in DOMAIN blocks, NEW R \in SUBSET DOMAIN blocks,
             Avoids(n, R), tab[LabelOf(n)] # 0, trace' # 0
      PROVE  trace' \in R \union {n}
  <2>1. trace' = b
    BY <1>1, <1>3
  <2>2. ~(n < b)
    BY <1>1, <1>2, <1>3 DEF Table
  <2>3. b = n \/ b \in 1 .. n - 1
    BY <1>2, <2>2
  <2> QED
    BY <1>3, <2>1, <2>3 DEF Avoids
<1>4. Dominated'
  BY <1>1, <1>3, SameBlocks DEF Dominated
<1>5. FallsThrough'
  <2> SUFFICES ASSUME NEW n \in DOMAIN blocks, NEW m \in DOMAIN blocks,
                      Guards(n, m), tab[LabelOf(n)] = 0
               PROVE  \E j \in DOMAIN result :
                        /\ result[j] = LastOf(n)
                        /\ j + 1 \in DOMAIN result /\ result[j + 1] = blocks[m][1]
    BY <1>1, SameBlocks DEF FallsThrough
  <2>1. m # 0
    BY <1>2
  <2> QED
    BY <1>1, <2>1 DEF FallsThrough
<1> QED
  BY <1>1, <1>4, <1>5 DEF Follows

LEMMA PlaceFollows ==
  ASSUME Follows, PlaceBlock
  PROVE  Follows'
<1>1. Inv /\ Inv' /\ Cut /\ Table /\ Dominated /\ FallsThrough /\ pc = "place"
      /\ blocks' = blocks /\ pc' = "place"
  BY PlaceStep DEF Follows, Inv, PlaceBlock
<1>2. /\ trace \in DOMAIN blocks /\ tab[LabelOf(trace)] # 0 /\ tab'[LabelOf(trace)] = 0
      /\ \A n \in DOMAIN blocks : n # trace => tab'[LabelOf(n)] = tab[LabelOf(n)]
      /\ trace' = Follow(LastOf(trace), tab')
      /\ trace' # 0 => trace' \in Successors(trace)
  BY <1>1, Placing
<1>3. /\ Len(result) \in Nat /\ DOMAIN result = 1 .. Len(result)
      /\ Len(result') > Len(result) /\ DOMAIN result' = 1 .. Len(result') /\ Len(result') \in Nat
      /\ \A i \in DOMAIN result : result'[i] = result[i]
      /\ result'[Len(result) + 1] = blocks[trace][1]
      /\ result'[Len(result')] = LastOf(trace)
  BY <1>1, Placing
<1>4. ASSUME NEW n \in DOMAIN blocks, NEW R \in SUBSET DOMAIN blocks,
             Avoids(n, R), tab'[LabelOf(n)] # 0
      PROVE  /\ \A m \in DOMAIN blocks : tab'[LabelOf(m)] = 0 => m \in R
             /\ trace' # 0 => trace' \in R \union {n}
  <2>1. n # trace /\ tab[LabelOf(n)] # 0
    BY <1>2, <1>4
  <2>2. /\ \A m \in DOMAIN blocks : tab[LabelOf(m)] = 0 => m \in R
        /\ trace \in R
    <3>1. trace # 0
      BY <1>1, <1>2, BlocksTyped
    <3> QED
      BY <1>1, <1>4, <2>1, <3>1 DEF Dominated
  <2>3. Successors(trace) \ {n} \subseteq R
    BY <1>4, <2>2 DEF Avoids
  <2> QED
    BY <1>2, <2>2, <2>3
<1>5. Dominated'
  BY <1>1, <1>4, SameBlocks DEF Dominated
<1>6. ASSUME NEW n \in DOMAIN blocks, NEW m \in DOMAIN blocks,
             Guards(n, m), tab'[LabelOf(n)] = 0
      PROVE  \E j \in DOMAIN result' :
               /\ result'[j] = LastOf(n)
               /\ \/ j = Len(result') /\ trace' = m
                  \/ j + 1 \in DOMAIN result' /\ result'[j + 1] = blocks[m][1]
  <2>1. CASE n = trace
    <3>1. PICK R \in SUBSET DOMAIN blocks : Avoids(n, R) /\ m \notin R
      BY <1>6 DEF Guards
    <3>2. tab[LabelOf(m)] # 0
      BY <1>1, <1>2, <2>1, <3>1 DEF Dominated
    <3>3. tab'[LabelOf(m)] = m
      BY <1>1, <1>2, <1>6, <2>1, <3>2, EntryIsTheBlock DEF Guards
    <3>4. trace' = m
      <4>1. m # 0
        BY <1>1, BlocksTyped
      <4> QED
        BY <1>2, <1>6, <2>1, <3>3, <4>1 DEF Follow, Guards
    <3>5. Len(result') \in DOMAIN result'
      BY <1>3
    <3> QED
      BY <1>3, <2>1, <3>4, <3>5
  <2>2. CASE n # trace
    <3>1. tab[LabelOf(n)] = 0
      BY <1>2, <1>6, <2>2
    <3>2. PICK j \in DOMAIN result :
            /\ result[j] = LastOf(n)
            /\ \/ j = Len(result) /\ trace = m
               \/ j + 1 \in DOMAIN result /\ result[j + 1] = blocks[m][1]
      BY <1>1, <1>6, <3>1 DEF FallsThrough
    <3>3. j \in DOMAIN result' /\ result'[j] = LastOf(n)
      BY <1>3, <3>2
    <3>4. j + 1 \in DOMAIN result' /\ result'[j + 1] = blocks[m][1]
      BY <1>3, <3>2
    <3> QED
      BY <3>3, <3>4
  <2> QED
    BY <2>1, <2>2
<1>7. FallsThrough'
  BY <1>1, <1>6, SameBlocks DEF FallsThrough
<1> QED
  BY <1>1, <1>5, <1>7 DEF Follows

LEMMA DoneFollows ==
  ASSUME Follows, AppendDone
  PROVE  Follows'
<1>1. Inv /\ Inv' /\ Cut /\ Scheduled /\ Dominated /\ FallsThrough /\ pc = "place"
      /\ trace = 0 /\ result' = Append(result, Label(Done))
      /\ UNCHANGED <<input, cur, blocks, tab, b, trace>>
  BY DoneStep DEF Follows, Inv, AppendDone
<1>2. Dominated'
  BY <1>1, SameBlocks DEF Dominated
<1>3. result \in Seq(Stmt)
  BY <1>1 DEF Scheduled
<1>4. \A j \in DOMAIN result : j \in DOMAIN result' /\ result'[j] = result[j]
  BY <1>1, <1>3
<1>5. FallsThrough'
  <2> SUFFICES ASSUME NEW n \in DOMAIN blocks, NEW m \in DOMAIN blocks,
                      Guards(n, m), tab[LabelOf(n)] = 0
               PROVE  \E j \in DOMAIN result' :
                        /\ result'[j] = LastOf(n)
                        /\ j + 1 \in DOMAIN result' /\ result'[j + 1] = blocks[m][1]
    BY <1>1, SameBlocks DEF FallsThrough
  <2>1. m # 0
    BY <1>1, BlocksTyped
  <2>2. PICK j \in DOMAIN result :
          /\ result[j] = LastOf(n)
          /\ j + 1 \in DOMAIN result /\ result[j + 1] = blocks[m][1]
    BY <1>1, <2>1 DEF FallsThrough
  <2> QED
    BY <1>4, <2>2
<1> QED
  BY <1>1, <1>2, <1>5 DEF Follows

LEMMA StepFollows == Follows /\ [Next]_vars => Follows'
<1>1. ASSUME Follows, UNCHANGED vars PROVE Follows'
  <2>1. Inv'
    BY <1>1, StepInv DEF Follows
  <2>2. blocks' = blocks /\ UNCHANGED <<tab, trace, result, pc>>
    BY <1>1 DEF vars
  <2>3. pc # "cut" => Dominated'
    BY <1>1, <2>2, SameBlocks DEF Follows, Dominated
  <2>4. pc # "cut" => FallsThrough'
    BY <1>1, <2>2, SameBlocks DEF Follows, FallsThrough
  <2> QED
    BY <2>1, <2>2, <2>3, <2>4 DEF Follows
<1>2. ASSUME Follows, CutBlock PROVE Follows'
  BY <1>2, CutStep DEF Follows, CutBlock
<1> QED
  BY <1>1, <1>2, FillFollows, PickFollows, PlaceFollows, DoneFollows DEF Next
-----------------------------------------------------------------------------
(* One step of the search for the blocks that are reached without v. *)
Wider(v, X) == X \union (UNION {Successors(m) : m \in X} \ {v})

(* The search as the iteration that it is, one round past its end. *)
LEMMA ReachIterates ==
  ASSUME Cut, blocks # <<>>, NEW v
  PROVE  \E g \in [0 .. Len(blocks) + 1 -> SUBSET DOMAIN blocks] :
           /\ ReachedAvoiding(v) = g[Len(blocks)]
           /\ g[0] = {1} \ {v}
           /\ \A k \in 1 .. Len(blocks) + 1 : g[k] = Wider(v, g[k - 1])
<1> DEFINE N == Len(blocks)
<1> DEFINE V == SUBSET DOMAIN blocks
<1> DEFINE step == [X \in V |-> Wider(v, X)]
<1> DEFINE Def(f, n) ==
      IF n = 0 THEN {1} \ {v}
      ELSE f[n - 1] \union (UNION {Successors(m) : m \in f[n - 1]} \ {v})
<1>1. N \in Nat /\ DOMAIN blocks = 1 .. N /\ 1 \in DOMAIN blocks
  BY EmptySeq, BlocksTyped DEF Cut
<1>2. {1} \ {v} \in V /\ step \in [V -> V]
  <2>1. ASSUME NEW X \in V PROVE Wider(v, X) \in V
    BY DEF Wider, Successors
  <2> QED
    BY <1>1, <2>1
<1>3. \E g : Iterates(g, N + 1, V, {1} \ {v}, step)
  <2>1. N + 1 \in Nat
    BY <1>1
  <2> HIDE DEF N, V, step
  <2> QED
    BY <1>2, <2>1, IterationExists
<1>4. PICK g : /\ g \in [0 .. N + 1 -> V] /\ g[0] = {1} \ {v}
               /\ \A k \in 1 .. N + 1 : g[k] = step[g[k - 1]]
  BY <1>3 DEF Iterates
<1>5. \A k \in 1 .. N + 1 : g[k] = Wider(v, g[k - 1])
  <2> SUFFICES ASSUME NEW k \in 1 .. N + 1 PROVE g[k] = Wider(v, g[k - 1])
    OBVIOUS
  <2>1. k - 1 \in 0 .. N + 1
    BY <1>1
  <2>2. g[k - 1] \in V
    BY <1>4, <2>1
  <2> QED
    BY <1>4, <2>2
<1> HIDE DEF step
<1>6. ASSUME NEW f, NEW k \in 1 .. N PROVE Def(f, k) = Wider(v, f[k - 1])
  BY DEF Wider
<1> DEFINE short == [k \in 0 .. N |-> g[k]]
<1>7. short = [k \in 0 .. N |-> Def(short, k)]
  <2>1. short[0] = Def(short, 0)
    BY <1>1, <1>4
  <2>2. ASSUME NEW k \in 1 .. N PROVE short[k] = Def(short, k)
    <3>1. k \in 0 .. N /\ k - 1 \in 0 .. N /\ k \in 1 .. N + 1
      BY <1>1
    <3>2. short[k] = g[k] /\ short[k - 1] = g[k - 1]
      BY <3>1
    <3> HIDE DEF short
    <3> QED
      BY <1>5, <1>6, <3>1, <3>2, ZenonT(30)
  <2> HIDE DEF Def
  <2>3. \A k \in 0 .. N : short[k] = Def(short, k)
    <3> HIDE DEF short
    <3> QED
      BY <1>1, <2>1, <2>2
  <2> QED
    BY <2>3
<1> DEFINE reach == CHOOSE h : h = [k \in 0 .. N |-> Def(h, k)]
<1>8. reach = [k \in 0 .. N |-> Def(reach, k)]
  <2> HIDE DEF short
  <2> QED
    BY <1>7
<1>9. ReachedAvoiding(v) = reach[N]
  BY DEF ReachedAvoiding
<1> HIDE DEF reach, short
<1>10. \A k \in 0 .. N : reach[k] = g[k]
  <2> DEFINE T == {k \in 0 .. N : reach[k] = g[k]}
  <2>1. reach[0] = {1} \ {v} /\ 0 \in 0 .. N
    <3>1. 0 \in 0 .. N
      BY <1>1
    <3>2. reach[0] = Def(reach, 0)
      <4> HIDE DEF Def
      <4> QED
        BY <1>8, <3>1
    <3>3. Def(reach, 0) = {1} \ {v}
      OBVIOUS
    <3> HIDE DEF Def
    <3> QED
      BY <3>1, <3>2, <3>3
  <2>2. 0 \in T
    BY <1>4, <2>1
  <2>3. ASSUME NEW k \in 0 .. N - 1, k \in T PROVE k + 1 \in T
    <3>1. k + 1 \in 1 .. N /\ k + 1 \in 0 .. N /\ k + 1 \in 1 .. N + 1 /\ (k + 1) - 1 = k
      BY <1>1
    <3>2. reach[k + 1] = Def(reach, k + 1)
      <4> HIDE DEF Def
      <4> QED
        BY <1>8, <3>1
    <3>3. Def(reach, k + 1) = Wider(v, reach[(k + 1) - 1])
      <4> HIDE DEF Def
      <4> QED
        BY <1>6, <3>1
    <3>4. g[k + 1] = Wider(v, g[(k + 1) - 1])
      BY <1>5, <3>1
    <3> HIDE DEF Def
    <3> QED
      BY <2>3, <3>1, <3>2, <3>3, <3>4
  <2> HIDE DEF T
  <2>4. 0 .. N \subseteq T
    BY <1>1, <2>2, <2>3, UpTo
  <2> QED
    BY <2>4 DEF T
<1>11. N \in 0 .. N
  BY <1>1
<1> QED
  BY <1>4, <1>5, <1>9, <1>10, <1>11

(* The search ends with nothing more to reach: what the blocks that are    *)
(* reached jump to is reached.                                             *)
LEMMA ReachedIsClosed ==
  ASSUME Cut, blocks # <<>>, NEW v
  PROVE  LET R == ReachedAvoiding(v)
         IN  R \subseteq DOMAIN blocks /\ v \notin R
             /\ \A m \in R : Successors(m) \ {v} \subseteq R
<1> DEFINE N == Len(blocks)
           Reach(g) ==
             /\ ReachedAvoiding(v) = g[N]
             /\ g[0] = {1} \ {v}
             /\ \A k \in 1 .. N + 1 : g[k] = Wider(v, g[k - 1])
<1>1. N \in Nat /\ DOMAIN blocks = 1 .. N
  BY BlocksTyped
<1>2. PICK g \in [0 .. N + 1 -> SUBSET DOMAIN blocks] : Reach(g)
  <2>1. \E g \in [0 .. Len(blocks) + 1 -> SUBSET DOMAIN blocks] : Reach(g)
    BY ReachIterates
  <2> QED
    BY <2>1
<1>3. \A k \in 0 .. N : g[k + 1] = Wider(v, g[k])
  <2> SUFFICES ASSUME NEW k \in 0 .. N PROVE g[k + 1] = Wider(v, g[k])
    OBVIOUS
  <2>1. k + 1 \in 1 .. N + 1 /\ (k + 1) - 1 = k
    BY <1>1
  <2> QED
    BY <1>2, <2>1
<1>4. g[N] = g[N + 1]
  <2>1. IsFiniteSet(1 .. N) /\ Cardinality(1 .. N) <= N
    <3>1. 1 \in Int /\ N \in Int /\ (1 > N => N = 0) /\ (~(1 > N) => N - 1 + 1 = N)
      BY <1>1
    <3>2. IsFiniteSet(1 .. N) /\ Cardinality(1 .. N) = N
      BY <3>1, FS_Interval
    <3> QED
      BY <1>1, <3>2
  <2>2. \A k \in 0 .. N + 1 : g[k] \subseteq 1 .. N
    BY <1>1, <1>2
  <2>3. \A k \in 0 .. N : g[k] \subseteq g[k + 1]
    BY <1>3 DEF Wider
  <2>4. ASSUME NEW k \in 0 .. N - 1, g[k] = g[k + 1] PROVE g[k + 1] = g[k + 2]
    <3>1. k \in 0 .. N /\ k + 1 \in 0 .. N /\ (k + 1) + 1 = k + 2
      BY <1>1
    <3>2. g[k + 1] = Wider(v, g[k]) /\ g[k + 2] = Wider(v, g[k + 1])
      BY <1>3, <3>1
    <3> QED
      BY <2>4, <3>2
  <2> HIDE DEF N
  <2> QED
    BY <1>1, <2>1, <2>2, <2>3, <2>4, Saturates
<1>5. v \notin g[N]
  <2> DEFINE T == {k \in 0 .. N : v \notin g[k]}
  <2>1. 0 \in T
    BY <1>1, <1>2
  <2>2. ASSUME NEW k \in 0 .. N - 1, k \in T PROVE k + 1 \in T
    <3>1. k \in 0 .. N /\ k + 1 \in 0 .. N
      BY <1>1
    <3>2. g[k + 1] = Wider(v, g[k])
      BY <1>3, <3>1
    <3> QED
      BY <2>2, <3>1, <3>2 DEF Wider
  <2> HIDE DEF T
  <2>3. 0 .. N \subseteq T
    BY <1>1, <2>1, <2>2, UpTo
  <2>4. N \in 0 .. N
    BY <1>1
  <2> QED
    BY <2>3, <2>4 DEF T
<1>6. g[N] = Wider(v, g[N])
  <2>1. N \in 0 .. N
    BY <1>1
  <2> QED
    BY <1>3, <1>4, <2>1
<1>7. \A m \in g[N] : Successors(m) \ {v} \subseteq g[N]
  BY <1>6, SMTT(20) DEF Wider
<1>8. g[N] \subseteq DOMAIN blocks
  <2>1. N \in 0 .. N + 1
    BY <1>1
  <2> QED
    BY <1>2, <2>1
<1> QED
  BY <1>2, <1>5, <1>7, <1>8

LEMMA FalseByFollowing ==
  ASSUME Follows
  PROVE  FalseFollows
<1> SUFFICES ASSUME pc = "done", NEW n \in DOMAIN blocks, Structured(n)
             PROVE  \E j \in 1 .. Len(result) - 1 :
                      /\ result[j] = LastOf(n)
                      /\ result[j + 1] = Label(LastOf(n).dests[2])
  BY DEF FalseFollows
<1>1. Inv /\ Cut /\ Table /\ Scheduled /\ FallsThrough
  BY DEF Follows, Inv
<1>2. blocks # <<>>
  OBVIOUS
<1> DEFINE R == ReachedAvoiding(n)
<1>3. R \subseteq DOMAIN blocks /\ n \notin R /\ \A m \in R : Successors(m) \ {n} \subseteq R
  BY <1>1, <1>2, ReachedIsClosed
<1>4. 1 .. n - 1 \subseteq R /\ LastOf(n).kind = "CJUMP"
  BY DEF Structured
<1>5. PICK m \in DOMAIN blocks : LabelOf(m) = LastOf(n).dests[2] /\ m > n /\ m \notin R
  BY DEF Structured
<1> HIDE DEF R
<1>6. Avoids(n, R)
  BY <1>3, <1>4 DEF Avoids
<1>7. DOMAIN blocks = 1 .. Len(blocks) /\ Len(blocks) \in Nat /\ m # n /\ m # 0
  BY <1>1, <1>5, BlocksTyped
<1>8. Guards(n, m)
  BY <1>3, <1>4, <1>5, <1>6, <1>7 DEF Guards
<1>9. tab[LabelOf(n)] = 0 /\ trace = 0
  BY <1>1, BlocksTyped DEF Table
<1>10. PICK j \in DOMAIN result :
         result[j] = LastOf(n) /\ j + 1 \in DOMAIN result /\ result[j + 1] = blocks[m][1]
  BY <1>1, <1>7, <1>8, <1>9 DEF FallsThrough
<1>11. blocks[m][1] = Label(LastOf(n).dests[2])
  BY <1>1, <1>5, BlocksTyped
<1>12. j \in 1 .. Len(result) - 1
  <2>1. result \in Seq(Stmt)
    BY <1>1 DEF Scheduled
  <2>2. DOMAIN result = 1 .. Len(result) /\ Len(result) \in Nat
    BY <2>1
  <2> QED
    BY <1>10, <2>2
<1> QED
  BY <1>10, <1>11, <1>12

(* For every list: a conditional jump whose false block is reached only    *)
(* through it is followed by its false label, wherever the traces began    *)
(* (trace_schedule), so that codegen.c may let the false branch fall       *)
(* through.                                                                *)
THEOREM FalseBranchFallsThrough == Spec => []FalseFollows
<1>1. Init => Follows
  BY InitInv DEF Init, Follows
<1>2. QED
  BY <1>1, StepFollows, FalseByFollowing, PTL DEF Spec
=============================================================================
