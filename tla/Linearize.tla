----------------------------- MODULE Linearize ------------------------------
(***************************************************************************)
(* The first half of canon.c: taking the statements out of expressions,    *)
(* and calls into temporaries of their own.  linear, which makes a list of *)
(* the TREE_SEQ nodes, has nothing left to do here (see Tree).             *)
(***************************************************************************)
EXTENDS Tree

RECURSIVE do_stm(_, _), do_exp(_, _)

(* exp_res_t: statements to run first, and the expression that is left.    *)
Res(s, e) == [stmts |-> s, expr |-> e]

(* The operands of a node, left to right: all their statements run before  *)
(* any of the expressions that are left.                                   *)
Operands(es, n) == [i \in DOMAIN es |-> do_exp(es[i], Append(n, i))]

RECURSIVE Hoisted(_)
Hoisted(res) == IF res = <<>> THEN <<>> ELSE Head(res).stmts \o Hoisted(Tail(res))

Left(res) == [i \in DOMAIN res |-> res[i].expr]

(* Faulty variants: the call stays where it is; the statements of an ESEQ  *)
(* run after those of its expression.                                      *)
DoCallInPlace(e, n) ==
  LET res == Operands(e.actuals, n)
  IN  Res(Hoisted(res), Call(e.fn, Left(res)))

DoEseqSwapped(e, n) ==
  LET res == do_exp(e.exp, Append(n, 2))
  IN  Res(res.stmts \o do_stm(e.stm, Append(n, 1)), res.expr)

DoCall(e, n) ==
  LET res == Operands(e.actuals, n)
      t == Temp(New(n, "result"))
  IN  Res(Hoisted(res) \o Move(t, Call(e.fn, Left(res))), t)

DoEseq(e, n) ==
  LET res == do_exp(e.exp, Append(n, 2))
  IN  Res(do_stm(e.stm, Append(n, 1)) \o res.stmts, res.expr)

do_exp(e, n) ==
  CASE e.kind \in {"CONST", "TEMP"} -> Res(<<>>, e)
    [] e.kind = "BINOP" ->
         LET res == Operands(<<e.e1, e.e2>>, n)
         IN  Res(Hoisted(res), Binop(e.op, res[1].expr, res[2].expr))
    [] e.kind = "MEM" ->
         LET res == do_exp(e.addr, n)
         IN  Res(res.stmts, Mem(res.expr))
    [] e.kind = "CALL" -> DoCall(e, n)
    [] e.kind = "ESEQ" -> DoEseq(e, n)

(* One statement.  A JUMP's target is a name, in which there is nothing to *)
(* take out.                                                               *)
DoMove(s, n) ==
  IF s.dst.kind = "MEM"
    THEN LET res == Operands(<<s.dst.addr, s.src>>, n)
         IN  Hoisted(res) \o Move(Mem(res[1].expr), res[2].expr)
    ELSE LET res == do_exp(s.src, n)
         IN  res.stmts \o Move(s.dst, res.expr)

DoSimple(s, n) ==
  CASE s.kind = "CJUMP" ->
         LET res == Operands(<<s.e1, s.e2>>, n)
         IN  Hoisted(res)
               \o CJump(s.op, res[1].expr, res[2].expr, s.true_, s.false_, s.id)
    [] s.kind = "MOVE" -> DoMove(s, n)
    [] s.kind = "EXP" ->
         LET res == do_exp(s.exp, n)
         IN  res.stmts \o Exp(res.expr)
    [] OTHER -> <<s>>

RECURSIVE DoFrom(_, _, _)
DoFrom(s, n, i) ==
  IF i > Len(s) THEN <<>> ELSE DoSimple(s[i], Append(n, i)) \o DoFrom(s, n, i + 1)

do_stm(s, n) == DoFrom(s, n, 1)

linearize(s) == do_stm(s, <<>>)
=============================================================================
