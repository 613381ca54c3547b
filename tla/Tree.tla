-------------------------------- MODULE Tree --------------------------------
(***************************************************************************)
(* The intermediate trees, and the names given out while they are built.   *)
(* A statement is the sequence of the statements that its TREE_SEQ nodes   *)
(* string together, so tree_seq is \o.                                     *)
(***************************************************************************)
EXTENDS Integers, Sequences

WORD_SIZE == 8

Const(v) == [kind |-> "CONST", const |-> v]
Temp(t) == [kind |-> "TEMP", temp |-> t]
Binop(op, a, b) == [kind |-> "BINOP", op |-> op, e1 |-> a, e2 |-> b]
Mem(e) == [kind |-> "MEM", addr |-> e]
Call(f, actuals) == [kind |-> "CALL", fn |-> f, actuals |-> actuals]
Eseq(s, e) == [kind |-> "ESEQ", stm |-> s, exp |-> e]

Move(d, s) == <<[kind |-> "MOVE", dst |-> d, src |-> s]>>
Exp(e) == <<[kind |-> "EXP", exp |-> e]>>
Jump(l) == <<[kind |-> "JUMP", dest |-> l]>>
CJump(op, a, b, t, f, id) ==  \* id: which node it is
  <<[kind |-> "CJUMP", op |-> op, e1 |-> a, e2 |-> b, true_ |-> t, false_ |-> f, id |-> id]>>
Label(l) == <<[kind |-> "LABEL", label |-> l]>>

(* label_new and temp_new.  Each call of them is made for one node of the  *)
(* program, at most once for one purpose: node and purpose stand for the   *)
(* number.  Nodes are paths from the root.                                 *)
New(node, purpose) == <<node, purpose>>

(* The temporaries that are there from the start: the frame pointer, where *)
(* a function leaves its value, and the program's variable a.              *)
Fp == New(<<>>, "fp")
Rv == New(<<>>, "rv")
VarA == New(<<>>, "a")

(* The label 0 of a jump that has not been patched. *)
Hole == New(<<>>, "0")
=============================================================================
