-------------------------------- MODULE Flow --------------------------------
(***************************************************************************)
(* The flow graph of src/src/liveness/liveness.c, which cfg_build makes of *)
(* an instruction list, and the course of its passes: over the nodes in    *)
(* list order, again and again until a whole pass changes no set.  What a  *)
(* round of a pass does to the node's sets is in the modules that extend   *)
(* this one: Liveness has them as sets, LivenessBits as bitset.c's words.  *)
(*                                                                         *)
(* An instruction is what the analysis reads of it: the temporaries it     *)
(* uses and defines, the label it is, the label it jumps to, and whether   *)
(* that jump is one of codegen.c's conditional ones, which the instruction *)
(* itself does not tell.                                                   *)
(***************************************************************************)
EXTENDS Integers, Sequences

CONSTANTS
  Temps,     \* temporaries
  Labels,    \* labels
  NoLabel,   \* in the place of a label where there is none
  Programs   \* the instruction lists codegen returns

Instr ==
  [use : SUBSET Temps, def : SUBSET Temps, label : Labels \union {NoLabel},
   jump : Labels \union {NoLabel}, cond : BOOLEAN]

ASSUME NoLabelAssumption == NoLabel \notin Labels
ASSUME ProgramsAssumption == Programs \subseteq Seq(Instr) \ {<<>>}
(* A label stands in one place: codegen makes one of each LABEL statement, *)
(* and no label is in a schedule twice (Traces).                           *)
ASSUME LabelsOnceAssumption ==
  \A p \in Programs : \A i, j \in DOMAIN p :
    p[i].label = p[j].label /\ p[i].label # NoLabel => i = j

VARIABLES
  instrs,   \* the instructions; node n of the graph is instruction n
  succs,    \* the successors of a node
  n,        \* the node the pass is at
  changed,  \* whether the pass has changed a set
  pc        \* "build" in cfg_build, "pass" in liveness, "done"

Nodes == DOMAIN instrs

-----------------------------------------------------------------------------
Begin ==
  /\ instrs \in Programs
  /\ succs = [i \in Nodes |-> {}]
  /\ n = 1
  /\ changed = FALSE
  /\ pc = "build"

(* The node cfg_build's table has for a label: the last one that is it, or *)
(* none.                                                                   *)
NodesOf(l) ==
  {i \in Nodes : instrs[i].label = l /\ \A j \in Nodes : instrs[j].label = l => j <= i}

(* Faulty variant: every node also has the next one. *)
SuccessorsAlwaysNext(i) ==
  ({i + 1} \intersect Nodes)
  \union (IF instrs[i].jump # NoLabel THEN NodesOf(instrs[i].jump) ELSE {})

(* A node that jumps has the nodes it jumps to; another one the next node. *)
Successors(i) ==
  IF instrs[i].jump # NoLabel
    THEN NodesOf(instrs[i].jump)
    ELSE {i + 1} \intersect Nodes

Build ==
  /\ pc = "build"
  /\ succs' = [i \in Nodes |-> Successors(i)]
  /\ pc' = "pass"
  /\ UNCHANGED <<instrs, n, changed>>

(* One round of the pass over the nodes; difference tells whether it gives *)
(* the node another set than it has.                                       *)
Round(difference) ==
  /\ pc = "pass"
  /\ n \in Nodes
  /\ changed' = (changed \/ difference)
  /\ n' = n + 1
  /\ UNCHANGED <<instrs, succs, pc>>

(* Faulty variants: one pass only; changed is never reset. *)
EndAfterFirst ==
  /\ pc = "pass"
  /\ n \notin Nodes
  /\ pc' = "done"
  /\ UNCHANGED <<instrs, succs, n, changed>>

EndNoReset ==
  /\ pc = "pass"
  /\ n \notin Nodes
  /\ IF changed
       THEN n' = 1 /\ UNCHANGED <<changed, pc>>
       ELSE pc' = "done" /\ UNCHANGED <<n, changed>>
  /\ UNCHANGED <<instrs, succs>>

(* The end of a pass: another one, unless this one has changed nothing. *)
End ==
  /\ pc = "pass"
  /\ n \notin Nodes
  /\ IF changed
       THEN n' = 1 /\ changed' = FALSE /\ UNCHANGED pc
       ELSE pc' = "done" /\ UNCHANGED <<n, changed>>
  /\ UNCHANGED <<instrs, succs>>
=============================================================================
