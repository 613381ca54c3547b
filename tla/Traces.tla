------------------------------- MODULE Traces -------------------------------
(***************************************************************************)
(* basic_blocks and trace_schedule of src/src/canon/canon.c: the canonical *)
(* statement list of a function is cut into blocks, and the blocks are     *)
(* chained into traces so that a conditional jump is followed, where       *)
(* possible, by its false branch.  codegen.c relies on that: of a CJUMP it *)
(* emits the jump to the true label only and lets the false branch fall    *)
(* through.                                                                *)
(*                                                                         *)
(* The rounds of the loops are the actions.  A statement other than a      *)
(* label or a jump is PLAIN; PLAIN and CJUMP statements have an identity,  *)
(* so that one execution can be told from another.                         *)
(***************************************************************************)
EXTENDS Integers, Sequences, FiniteSetsExt

CONSTANTS
  Labels,  \* the labels of the statement lists
  Start,   \* the label basic_blocks gives a list that has none in front
  Done,    \* the label behind the last statement
  Inputs   \* the statement lists linearize returns

Label(l) == [kind |-> "LABEL", id |-> l, dests |-> <<>>]
Jump(l) == [kind |-> "JUMP", id |-> 0, dests |-> <<l>>]
CJump(n, t, f) == [kind |-> "CJUMP", id |-> n, dests |-> <<t, f>>]
Plain(n) == [kind |-> "PLAIN", id |-> n, dests |-> <<>>]

Stmt ==
  {Label(l) : l \in Labels \union {Start, Done}}
  \union {Jump(l) : l \in Labels \union {Start, Done}}
  \union [kind : {"CJUMP"}, id : Nat, dests : Labels \X Labels]
  \union [kind : {"PLAIN"}, id : Nat, dests : {<<>>}]

IsLabel(s) == s.kind = "LABEL"
IsJump(s) == s.kind \in {"JUMP", "CJUMP"}
LabelsOf(s) == {s[i].id : i \in {j \in DOMAIN s : IsLabel(s[j])}}

(***************************************************************************)
(* What trans.c and linearize produce: a label stands in one place, a jump *)
(* goes to a label of the list, and what follows a jump is a label.        *)
(***************************************************************************)
WellFormed(s) ==
  /\ s \in Seq(Stmt)
  /\ LabelsOf(s) \subseteq Labels
  /\ \A i, j \in DOMAIN s : IsLabel(s[i]) /\ s[i] = s[j] => i = j
  /\ \A i \in DOMAIN s : IsJump(s[i]) =>
       /\ \A d \in DOMAIN s[i].dests : s[i].dests[d] \in LabelsOf(s)
       /\ i < Len(s) => IsLabel(s[i + 1])

ASSUME LabelsAssumption == Start \notin Labels /\ Done \notin Labels /\ Start # Done
ASSUME InputsAssumption == \A s \in Inputs : WellFormed(s)

(* A statement with an identity is a node of its own: it stands in one     *)
(* place of the list.                                                      *)
ASSUME IdentitiesAssumption ==
  \A s \in Inputs : \A i, j \in DOMAIN s :
    s[i].kind \in {"PLAIN", "CJUMP"} /\ s[i] = s[j] => i = j

VARIABLES
  input,   \* the statement list, with a label in front
  cur,     \* basic_blocks' position in it
  blocks,  \* the blocks cut so far
  tab,     \* trace_schedule's table: the block of a label, 0 once it is placed
  b,       \* its position in the blocks
  trace,   \* the block to place next in the current trace, 0 when it ends
  result,  \* the list it returns
  pc       \* "cut" in basic_blocks, "place" in trace_schedule, "done"

vars == <<input, cur, blocks, tab, b, trace, result, pc>>

TypeOK ==
  /\ input \in Seq(Stmt) /\ input # <<>>
  /\ cur \in 1 .. Len(input) + 1
  /\ blocks \in Seq(Seq(Stmt) \ {<<>>})
  /\ tab \in [Labels \union {Start, Done} -> 0 .. Len(blocks)]
  /\ b \in 1 .. Len(blocks) + 1
  /\ trace \in 0 .. Len(blocks)
  /\ result \in Seq(Stmt)
  /\ pc \in {"cut", "place", "done"}

-----------------------------------------------------------------------------
WithStart(s) ==
  IF s = <<>> \/ ~IsLabel(s[1]) THEN <<Label(Start)>> \o s ELSE s

Init ==
  /\ input \in {WithStart(s) : s \in Inputs}
  /\ cur = 1
  /\ blocks = <<>>
  /\ tab = [l \in Labels \union {Start, Done} |-> 0]
  /\ b = 1
  /\ trace = 0
  /\ result = <<>>
  /\ pc = "cut"

(* Where the block that begins at i ends: at a jump, before a label, or    *)
(* with the list.                                                          *)
BlockEnd(i) ==
  Min({j \in i .. Len(input) :
         \/ j = Len(input)
         \/ j > i /\ IsJump(input[j])
         \/ IsLabel(input[j + 1])})

(* Faulty variant: a block that runs into the next label is left as it is. *)
BlockLeftOpen(i, e) == SubSeq(input, i, e)

(* A block that does not end in a jump gets one, to what follows it. *)
Block(i, e) ==
  LET body == SubSeq(input, i, e)
  IN  IF e > i /\ IsJump(input[e])
        THEN body
        ELSE Append(body, Jump(IF e = Len(input) THEN Done ELSE input[e + 1].id))

(* One round of basic_blocks' outer loop. *)
CutBlock ==
  /\ pc = "cut"
  /\ cur <= Len(input)
  /\ blocks' = Append(blocks, Block(cur, BlockEnd(cur)))
  /\ cur' = BlockEnd(cur) + 1
  /\ UNCHANGED <<input, tab, b, trace, result, pc>>

LabelOf(n) == blocks[n][1].id

(* trace_schedule up to its loop: every block is entered in the table, a   *)
(* later one over an earlier one with the same label.                      *)
FillTable ==
  /\ pc = "cut"
  /\ cur > Len(input)
  /\ tab' = [l \in DOMAIN tab |->
       Max({0} \union {n \in DOMAIN blocks : LabelOf(n) = l})]
  /\ pc' = "place"
  /\ UNCHANGED <<input, cur, blocks, b, trace, result>>

(* Faulty variant: a placed block is not skipped. *)
PickTraceAgain ==
  /\ pc = "place"
  /\ trace = 0
  /\ b <= Len(blocks)
  /\ trace' = IF tab[LabelOf(b)] = 0 THEN 0 ELSE b
  /\ b' = IF tab[LabelOf(b)] = 0 THEN b ELSE b + 1
  /\ UNCHANGED <<input, cur, blocks, tab, result, pc>>

(* One round of its outer loop: begin a trace, or skip a placed block. *)
PickTrace ==
  /\ pc = "place"
  /\ trace = 0
  /\ b <= Len(blocks)
  /\ trace' = IF tab[LabelOf(b)] = 0 THEN 0 ELSE b
  /\ b' = b + 1
  /\ UNCHANGED <<input, cur, blocks, tab, result, pc>>

(* Faulty variant: the true branch is preferred. *)
FollowTrueFirst(last, table) ==
  CASE last.kind = "JUMP" -> table[last.dests[1]]
    [] last.kind = "CJUMP" ->
         IF table[last.dests[1]] # 0 THEN table[last.dests[1]]
                                     ELSE table[last.dests[2]]
    [] OTHER -> 0

(* The block a trace goes on with: where a JUMP goes; of a CJUMP the false *)
(* branch, or the true one when the false one is placed already.           *)
Follow(last, table) ==
  CASE last.kind = "JUMP" -> table[last.dests[1]]
    [] last.kind = "CJUMP" ->
         IF table[last.dests[2]] # 0 THEN table[last.dests[2]]
                                     ELSE table[last.dests[1]]
    [] OTHER -> 0

(* Faulty variant: the placed block keeps its entry in the table. *)
PlaceBlockUnmarked ==
  /\ pc = "place"
  /\ trace # 0
  /\ result' = result \o blocks[trace]
  /\ trace' = Follow(blocks[trace][Len(blocks[trace])], tab)
  /\ UNCHANGED <<input, cur, blocks, tab, b, pc>>

(* One round of the inner loop. *)
PlaceBlock ==
  /\ pc = "place"
  /\ trace # 0
  /\ tab' = [tab EXCEPT ![LabelOf(trace)] = 0]
  /\ result' = result \o blocks[trace]
  /\ trace' = Follow(blocks[trace][Len(blocks[trace])], tab')
  /\ UNCHANGED <<input, cur, blocks, b, pc>>

AppendDone ==
  /\ pc = "place"
  /\ trace = 0
  /\ b > Len(blocks)
  /\ result' = Append(result, Label(Done))
  /\ pc' = "done"
  /\ UNCHANGED <<input, cur, blocks, tab, b, trace>>

Next == CutBlock \/ FillTable \/ PickTrace \/ PlaceBlock \/ AppendDone

Spec == Init /\ [][Next]_vars

(* Both functions are sequential code that runs once called. *)
FairSpec == Spec /\ WF_vars(Next)

-----------------------------------------------------------------------------
(* The table tells the placed blocks from the others, whichever traces ran *)
(* into each other: a block is in the result, whole and once, exactly when *)
(* its label's entry is NULL, and no label is ever emitted twice.          *)
PlacedOnce ==
  /\ \A i, j \in DOMAIN result : IsLabel(result[i]) /\ result[i] = result[j] => i = j
  /\ pc # "cut" => \A n \in DOMAIN blocks :
       tab[LabelOf(n)] = 0 <=>
         \E i \in DOMAIN result :
           /\ i + Len(blocks[n]) - 1 \in DOMAIN result
           /\ SubSeq(result, i, i + Len(blocks[n]) - 1) = blocks[n]

(***************************************************************************)
(* Running a list: Land(s)[n][p] is the identity of the statement reached  *)
(* from position p by passing labels and jumps, 0 when that is the end of  *)
(* the list, Stuck when it takes more than n of them.                      *)
(***************************************************************************)
Stuck == -1

Position(s, l) ==
  IF Label(l) \in {s[i] : i \in DOMAIN s}
    THEN CHOOSE i \in DOMAIN s : s[i] = Label(l)
    ELSE 0

Land(s) ==
  LET land[n \in 0 .. Len(s) + 1] ==
        [p \in 0 .. Len(s) + 1 |->
           IF p \notin DOMAIN s \/ s[p] = Label(Done) THEN 0
           ELSE IF s[p].kind \in {"PLAIN", "CJUMP"} THEN s[p].id
           ELSE IF n = 0 THEN Stuck
           ELSE IF IsLabel(s[p]) THEN land[n - 1][p + 1]
           ELSE land[n - 1][Position(s, s[p].dests[1])]]
  IN  land[Len(s) + 1]

(* The statements an execution can come to next after the one at i. *)
Nexts(s, land, i) ==
  IF s[i].kind = "CJUMP"
    THEN <<land[Position(s, s[i].dests[1])], land[Position(s, s[i].dests[2])]>>
    ELSE <<land[i + 1]>>

(* The scheduled list runs like the one it was made from: it starts with   *)
(* the same statement and goes from each statement to the same ones, so    *)
(* cutting, adding jumps and reordering lost and added nothing, whatever   *)
(* the jumps, loops and empty blocks (canon.c is the only place where      *)
(* statements change their order).                                         *)
SameExecution ==
  pc = "done" =>
    LET before == Land(input)
        after == Land(result)
    IN  /\ before[1] = after[1]
        /\ \A i \in DOMAIN input : input[i].kind \in {"PLAIN", "CJUMP"} =>
             \E j \in DOMAIN result :
               /\ result[j] = input[i]
               /\ Nexts(result, after, j) = Nexts(input, before, i)
               /\ \A k \in DOMAIN result : result[k] = result[j] => k = j

-----------------------------------------------------------------------------
(* The blocks an execution can come to without passing the block avoided. *)
LastOf(n) == blocks[n][Len(blocks[n])]
Successors(n) ==
  {m \in DOMAIN blocks : \E d \in DOMAIN LastOf(n).dests : LabelOf(m) = LastOf(n).dests[d]}

ReachedAvoiding(avoided) ==
  LET reach[n \in 0 .. Len(blocks)] ==
        IF n = 0 THEN {1} \ {avoided}
        ELSE reach[n - 1] \union (UNION {Successors(m) : m \in reach[n - 1]} \ {avoided})
  IN  reach[Len(blocks)]

(***************************************************************************)
(* The conditional jump that ends block n is structured: its false block   *)
(* comes later in the list and is reached only through it, and what comes  *)
(* before it in the list is reached without it.  trans.c's templates of    *)
(* if, while, for and | give such jumps; the second jump of a & does not   *)
(* (both have the same false label).                                       *)
(***************************************************************************)
Structured(n) ==
  /\ LastOf(n).kind = "CJUMP"
  /\ 1 .. n - 1 \subseteq ReachedAvoiding(n)
  /\ \E m \in DOMAIN blocks :
       /\ LabelOf(m) = LastOf(n).dests[2]
       /\ m > n
       /\ m \notin ReachedAvoiding(n)

(* What codegen.c needs of the list: a structured conditional jump is      *)
(* followed by its false label, wherever its traces began, so that falling *)
(* through the one jump munch_stm emits for it is taking the false branch. *)
FalseFollows ==
  pc = "done" =>
    \A n \in DOMAIN blocks : Structured(n) =>
      \E j \in 1 .. Len(result) - 1 :
        /\ result[j] = LastOf(n)
        /\ result[j + 1] = Label(LastOf(n).dests[2])

(* The labels whose blocks are not in the result yet. *)
Unplaced == {l \in DOMAIN tab : tab[l] # 0}

(* Why traces end even where the blocks jump in circles: a step cuts more  *)
(* of the list, or places a block that no step takes back, or skips one.   *)
GetsOn ==
  [][\/ pc = "cut" /\ pc' = "cut" /\ cur' > cur
     \/ pc = "cut" /\ pc' = "place"
     \/ pc = "place" /\ pc' = "done"
     \/ /\ pc = "place" /\ pc' = "place"
        /\ Unplaced' \subseteq Unplaced /\ b' >= b
        /\ Unplaced' # Unplaced \/ b' > b]_vars

(* Traces end even where the blocks jump in circles, and so does the       *)
(* schedule.                                                               *)
Terminates == <>(pc = "done")
=============================================================================
