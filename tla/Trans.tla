------------------------------- MODULE Trans --------------------------------
(***************************************************************************)
(* trans.c: from syntax trees to intermediate trees.  aenv gives for every *)
(* variable the tree that stands for it (frame_exp of its access; static   *)
(* links are StaticLink's, and the table's scopes Symtab's, so here it is  *)
(* a function).  A result is of one of tr_exp_t's three kinds: an          *)
(* expression, a statement, or a condition, whose jumps are still to be    *)
(* told where to go.                                                       *)
(*                                                                         *)
(* A patch list is a set of places, a place a jump and one of its two      *)
(* labels.  (In the code the lists are joined in place; a list is never    *)
(* used again after that.)  do_patch writes through pointers into a tree   *)
(* that is already built; all of its jumps lie in the condition's own      *)
(* statement.                                                              *)
(***************************************************************************)
EXTENDS Tree, FiniteSets

LOCAL INSTANCE Source

TrEx(e) == [kind |-> "EX", ex |-> e]
TrNx(s) == [kind |-> "NX", nx |-> s]
TrCx(s, t, f) == [kind |-> "CX", stm |-> s, trues |-> t, falses |-> f]

Place(id, side) == {<<id, side>>}

do_patch(s, places, l) ==
  [i \in DOMAIN s |->
     IF s[i].kind # "CJUMP" THEN s[i]
     ELSE [s[i] EXCEPT !.true_ = IF <<s[i].id, "true">> \in places THEN l ELSE @,
                       !.false_ = IF <<s[i].id, "false">> \in places THEN l ELSE @]]

(* do_patch of both lists. *)
Patched(cx, t, f) == do_patch(do_patch(cx.stm, cx.trues, t), cx.falses, f)

(* A jump that is a condition of its own. *)
Condition(op, a, b, n) ==
  TrCx(CJump(op, a, b, Hole, Hole, n), Place(n, "true"), Place(n, "false"))

un_ex(r, n) ==
  CASE r.kind = "EX" -> r.ex
    [] r.kind = "NX" -> Eseq(r.nx, Const(0))
    [] r.kind = "CX" ->
         LET t == Temp(New(n, "value"))
             true == New(n, "true")
             false == New(n, "false")
         IN  Eseq(Move(t, Const(1)) \o Patched(r, true, false) \o Label(false)
                    \o Move(t, Const(0)) \o Label(true),
                  t)

un_nx(r, n) ==
  CASE r.kind = "EX" -> Exp(r.ex)
    [] r.kind = "NX" -> r.nx
    [] r.kind = "CX" ->
         LET done == New(n, "done")
         IN  Patched(r, done, done) \o Label(done)

(* The assertion that fails for a statement: the compiler is gone, which   *)
(* is a statement of its own here.                                         *)
un_cx(r, n) ==
  CASE r.kind = "EX" -> Condition("NE", r.ex, Const(0), n)
    [] r.kind = "NX" -> TrCx(<<[kind |-> "ABORT"]>>, {}, {})
    [] r.kind = "CX" -> r

-----------------------------------------------------------------------------
(* tr_expr for the node n; its parts are the nodes below it. *)
RECURSIVE tr_expr(_, _, _)
Part(n, i) == Append(n, i)
ExOf(aenv, e, n) == un_ex(tr_expr(aenv, e, n), n)
NxOf(aenv, e, n) == un_nx(tr_expr(aenv, e, n), n)
CxOf(aenv, e, n) == un_cx(tr_expr(aenv, e, n), n)

(* Faulty variants: the false list is that of the right operand alone; the *)
(* true places go to the label between the operands.                       *)
TrAndLeftUnpatched(aenv, e, n) ==
  LET left == CxOf(aenv, e.left, Part(n, 1))
      right == CxOf(aenv, e.right, Part(n, 2))
      z == New(n, "z")
  IN  TrCx(do_patch(left.stm, left.trues, z) \o Label(z) \o right.stm,
           right.trues, right.falses)

TrOrSwapped(aenv, e, n) ==
  LET left == CxOf(aenv, e.left, Part(n, 1))
      right == CxOf(aenv, e.right, Part(n, 2))
      z == New(n, "z")
  IN  TrCx(do_patch(left.stm, left.trues, z) \o Label(z) \o right.stm,
           left.falses \union right.trues, right.falses)

TrAnd(aenv, e, n) ==
  LET left == CxOf(aenv, e.left, Part(n, 1))
      right == CxOf(aenv, e.right, Part(n, 2))
      z == New(n, "z")
  IN  TrCx(do_patch(left.stm, left.trues, z) \o Label(z) \o right.stm,
           right.trues, left.falses \union right.falses)

TrOr(aenv, e, n) ==
  LET left == CxOf(aenv, e.left, Part(n, 1))
      right == CxOf(aenv, e.right, Part(n, 2))
      z == New(n, "z")
  IN  TrCx(do_patch(left.stm, left.falses, z) \o Label(z) \o right.stm,
           left.trues \union right.trues, right.falses)

TrBinop(aenv, e, n) ==
  IF e.op = "AND" THEN TrAnd(aenv, e, n)
  ELSE IF e.op = "OR" THEN TrOr(aenv, e, n)
  ELSE LET left == ExOf(aenv, e.left, Part(n, 1))
           right == ExOf(aenv, e.right, Part(n, 2))
       IN  IF e.op \in Relops THEN Condition(e.op, left, right, n)
           ELSE TrEx(Binop(e.op, left, right))

TrCall(aenv, e, n) ==
  TrEx(Call(e.fn, [i \in DOMAIN e.args |-> ExOf(aenv, e.args[i], Part(n, i))]))

(* All expressions of a list but the last, as one statement. *)
RECURSIVE AllButLast(_, _, _, _)
AllButLast(aenv, list, n, i) ==
  IF i >= Len(list) THEN <<>>
  ELSE NxOf(aenv, list[i], Part(n, i)) \o AllButLast(aenv, list, n, i + 1)

Last(aenv, list, n) ==
  IF list = <<>> THEN Const(0) ELSE ExOf(aenv, list[Len(list)], Part(n, Len(list)))

TrSeq(aenv, e, n) ==
  IF e.list = <<>> THEN TrEx(Const(0))
  ELSE IF Len(e.list) = 1 THEN tr_expr(aenv, e.list[1], Part(n, 1))
  ELSE TrEx(Eseq(AllButLast(aenv, e.list, n, 1), Last(aenv, e.list, n)))

TrAssign(aenv, e, n) == TrNx(Move(ExOf(aenv, e.lhs, Part(n, 1)), ExOf(aenv, e.rhs, Part(n, 2))))

Offset(base, offset) == Mem(Binop("ADD", base, offset))

TrIndex(aenv, e, n) ==
  TrEx(Offset(ExOf(aenv, e.array, Part(n, 1)),
              Binop("MUL", ExOf(aenv, e.index, Part(n, 2)), Const(WORD_SIZE))))

TrField(aenv, e, n) ==
  TrEx(Offset(ExOf(aenv, e.record, Part(n, 1)), Const(FieldNumber(e.field) * WORD_SIZE)))

(* The fields in the order of the type; one that is left out becomes 0. *)
RECURSIVE TrFields(_, _, _, _, _)
TrFields(aenv, e, n, r, i) ==
  IF i > Len(Fields[e.type]) THEN <<>>
  ELSE LET written == {j \in DOMAIN e.fields : e.fields[j].name = Fields[e.type][i]}
           j == CHOOSE j \in written : \A k \in written : j <= k
           val == IF written = {} THEN Const(0) ELSE ExOf(aenv, e.fields[j].val, Part(n, j))
       IN  Move(Offset(r, Const((i - 1) * WORD_SIZE)), val) \o TrFields(aenv, e, n, r, i + 1)

TrRecord(aenv, e, n) ==
  LET r == Temp(New(n, "record"))
      alloc == Move(r, Call("malloc", <<Const(Len(Fields[e.type]) * WORD_SIZE)>>))
  IN  TrEx(Eseq(alloc \o TrFields(aenv, e, n, r, 1), r))

TrArray(aenv, e, n) ==
  TrEx(Call("init_array",
            <<ExOf(aenv, e.size, Part(n, 1)), ExOf(aenv, e.init, Part(n, 2))>>))

Insert(aenv, x, access) ==
  [y \in DOMAIN aenv \union {x} |-> IF y = x THEN access ELSE aenv[y]]

(* tr_dec for the i-th declaration, a DEC_VAR: bound after its initialiser *)
(* is translated.                                                          *)
TrVarDec(aenv, dec, n) == Move(Temp(New(n, "dec")), ExOf(aenv, dec.init, n))

RECURSIVE TrDecs(_, _, _, _)
TrDecs(aenv, decs, n, i) ==
  IF i > Len(decs) THEN [stm |-> <<>>, aenv |-> aenv]
  ELSE LET m == Part(n, -i)
           rest == TrDecs(Insert(aenv, decs[i].id, Temp(New(m, "dec"))), decs, n, i + 1)
       IN  [stm |-> TrVarDec(aenv, decs[i], m) \o rest.stm, aenv |-> rest.aenv]

TrLet(aenv, e, n) ==
  LET decs == TrDecs(aenv, e.decs, n, 1)
      stmts == decs.stm \o AllButLast(decs.aenv, e.list, n, 1)
      rv == Last(decs.aenv, e.list, n)
  IN  TrEx(IF stmts = <<>> THEN rv ELSE Eseq(stmts, rv))

TrIf1(aenv, e, n) ==
  LET t == New(n, "then")
      done == New(n, "done")
  IN  TrNx(Patched(CxOf(aenv, e.cond, Part(n, 1)), t, done)
             \o Label(t) \o NxOf(aenv, e.then, Part(n, 2)) \o Label(done))

TrIf2(aenv, e, n) ==
  LET t == New(n, "then")
      f == New(n, "else")
      d == New(n, "done")
      r == Temp(New(n, "value"))
  IN  TrEx(Eseq(
        Patched(CxOf(aenv, e.cond, Part(n, 1)), t, f)
          \o Label(t) \o Move(r, ExOf(aenv, e.then, Part(n, 2))) \o Jump(d)
          \o Label(f) \o Move(r, ExOf(aenv, e.else_, Part(n, 3))) \o Label(d),
        r))

TrWhile(aenv, e, n) ==
  LET t == New(n, "test")
      b == New(n, "body")
      d == New(n, "done")
  IN  TrNx(Label(t) \o Patched(CxOf(aenv, e.cond, Part(n, 1)), b, d)
             \o Label(b) \o NxOf(aenv, e.body, Part(n, 2)) \o Jump(t) \o Label(d))

(* The variable is bound for the bounds too. *)
TrFor(aenv, e, n) ==
  LET var == Temp(New(n, "var"))
      limit == Temp(New(n, "limit"))
      inner == Insert(aenv, e.id, var)
      t == New(n, "test")
      b == New(n, "body")
      d == New(n, "done")
  IN  TrNx(Move(var, ExOf(inner, e.init, Part(n, 1)))
             \o Move(limit, ExOf(inner, e.to, Part(n, 2)))
             \o Label(t) \o CJump("LE", var, limit, b, d, n)
             \o Label(b) \o NxOf(inner, e.body, Part(n, 3))
             \o Move(var, Binop("ADD", var, Const(1))) \o Jump(t) \o Label(d))

tr_expr(aenv, e, n) ==
  CASE e.kind = "INT"    -> TrEx(Const(e.val))
    [] e.kind = "ID"     -> TrEx(aenv[e.id])
    [] e.kind = "INDEX"  -> TrIndex(aenv, e, n)
    [] e.kind = "FIELD"  -> TrField(aenv, e, n)
    [] e.kind = "ASSIGN" -> TrAssign(aenv, e, n)
    [] e.kind = "ARRAY"  -> TrArray(aenv, e, n)
    [] e.kind = "RECORD" -> TrRecord(aenv, e, n)
    [] e.kind = "CALL"   -> TrCall(aenv, e, n)
    [] e.kind = "BINOP"  -> TrBinop(aenv, e, n)
    [] e.kind = "SEQ"    -> TrSeq(aenv, e, n)
    [] e.kind = "LET"    -> TrLet(aenv, e, n)
    [] e.kind = "IF1"    -> TrIf1(aenv, e, n)
    [] e.kind = "IF2"    -> TrIf2(aenv, e, n)
    [] e.kind = "WHILE"  -> TrWhile(aenv, e, n)
    [] e.kind = "FOR"    -> TrFor(aenv, e, n)

(* main.c: the body of _main, for the root of the program. *)
Translated(aenv, e) == Move(Temp(Rv), ExOf(aenv, e, <<>>))
=============================================================================
