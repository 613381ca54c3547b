------------------------------ MODULE Codegen -------------------------------
(***************************************************************************)
(* codegen.c: from the scheduled list to instructions over temporaries.    *)
(* An instruction is its text, with arg for what is printed into it (a     *)
(* constant or a function's name), the temporaries and the label that      *)
(* stand for the places in it, and which of them it is said to define and  *)
(* use.  emit, which appends, is \o.                                       *)
(***************************************************************************)
EXTENDS Tree

make_oper(assem, arg, dst, src) ==
  <<[kind |-> "OPER", assem |-> assem, arg |-> arg, dst |-> dst, src |-> src, jumps |-> <<>>]>>
make_move(assem, dst, src) ==
  <<[kind |-> "MOVE", assem |-> assem, dst |-> <<dst>>, src |-> <<src>>, jumps |-> <<>>]>>
make_label(l) == <<[kind |-> "LABEL", label |-> l, jumps |-> <<>>]>>
make_jump(assem, l) ==
  <<[kind |-> "OPER", assem |-> assem, arg |-> 0, dst |-> <<>>, src |-> <<>>, jumps |-> <<l>>]>>

(* The i-th argument register, for at most six actuals. *)
ArgReg(i) == New(<<i>>, "arg")

(* What munch_exp has emitted, and the temporary it returns. *)
Munched(code, t) == [code |-> code, temp |-> t]

Arithmetic(op) ==
  CASE op = "SUB" -> "subq" [] op = "MUL" -> "imulq" [] OTHER -> "addq"

RECURSIVE munch_exp(_, _)

MunchBinop(e, n) ==
  LET l == munch_exp(e.e1, Append(n, 1))
      r == munch_exp(e.e2, Append(n, 2))
      t == New(n, "munched")
  IN  Munched(l.code \o r.code \o make_move("movq", t, l.temp)
                \o make_oper(Arithmetic(e.op), 0, <<t>>, <<r.temp>>), t)

(* An actual goes to its register as soon as it is there. *)
RECURSIVE MunchActuals(_, _, _)
MunchActuals(actuals, n, i) ==
  IF i > Len(actuals) THEN <<>>
  ELSE LET actual == munch_exp(actuals[i], Append(n, i))
       IN  actual.code \o make_move("movq", ArgReg(i), actual.temp)
             \o MunchActuals(actuals, n, i + 1)

(* The temporary that is returned is a new one. *)
MunchCall(e, n) ==
  Munched(MunchActuals(e.actuals, n, 1)
            \o make_oper("callq", e.fn, <<Rv>>, [i \in DOMAIN e.actuals |-> ArgReg(i)]),
          New(n, "munched"))

munch_exp(e, n) ==
  LET t == New(n, "munched")
  IN  CASE e.kind = "CONST" -> Munched(make_oper("movq $", e.const, <<t>>, <<>>), t)
        [] e.kind = "TEMP"  -> Munched(<<>>, e.temp)
        [] e.kind = "MEM"   -> LET addr == munch_exp(e.addr, Append(n, 1))
                               IN  Munched(addr.code \o make_oper("load", 0, <<t>>, <<addr.temp>>), t)
        [] e.kind = "BINOP" -> MunchBinop(e, n)
        [] e.kind = "CALL"  -> MunchCall(e, n)

MunchMove(s, n) ==
  LET src == munch_exp(s.src, Append(n, 2))
  IN  IF s.dst.kind = "MEM"
        THEN LET addr == munch_exp(s.dst.addr, Append(n, 1))
             IN  addr.code \o src.code \o make_oper("store", 0, <<>>, <<src.temp, addr.temp>>)
        ELSE src.code \o make_move("movq", s.dst.temp, src.temp)

JumpIf(op) ==
  CASE op = "NE" -> "jne" [] op = "LT" -> "jl" [] op = "LE" -> "jle"
    [] op = "GT" -> "jg"  [] op = "GE" -> "jge" [] OTHER -> "je"

(* Faulty variant: the operands of the comparison are swapped. *)
MunchCJumpSwapped(s, n) ==
  LET l == munch_exp(s.e1, Append(n, 1))
      r == munch_exp(s.e2, Append(n, 2))
  IN  l.code \o r.code \o make_oper("cmpq", 0, <<>>, <<r.temp, l.temp>>)
        \o make_jump(JumpIf(s.op), s.true_)

(* Only the jump to the true label: the false one is to follow. *)
MunchCJump(s, n) ==
  LET l == munch_exp(s.e1, Append(n, 1))
      r == munch_exp(s.e2, Append(n, 2))
  IN  l.code \o r.code \o make_oper("cmpq", 0, <<>>, <<l.temp, r.temp>>)
        \o make_jump(JumpIf(s.op), s.true_)

munch_stm(s, n) ==
  CASE s.kind = "LABEL" -> make_label(s.label)
    [] s.kind = "MOVE"  -> MunchMove(s, n)
    [] s.kind = "EXP"   -> munch_exp(s.exp, n).code
    [] s.kind = "JUMP"  -> make_jump("jmp", s.dest)
    [] s.kind = "CJUMP" -> MunchCJump(s, n)

RECURSIVE CodeFrom(_, _)
CodeFrom(stmts, i) ==
  IF i > Len(stmts) THEN <<>> ELSE munch_stm(stmts[i], <<i>>) \o CodeFrom(stmts, i + 1)

codegen(stmts) == CodeFrom(stmts, 1)
=============================================================================
