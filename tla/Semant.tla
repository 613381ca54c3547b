------------------------------- MODULE Semant -------------------------------
(***************************************************************************)
(* semant.c: the walk that checks a program's types, counts its errors and *)
(* leaves the depth of the callee and the type of a record in the tree.    *)
(*                                                                         *)
(* A type is a value: nothing assigns to a semty_t once it is made, and    *)
(* what would make it cyclic is a SEMTY_NAME, which stands for whatever    *)
(* the type environment has under the name when actual_ty looks.  What     *)
(* goes wrong without an error message is kept in "stop": NULL was read,   *)
(* actual_ty goes round for ever, or a variable's entry was read as a      *)
(* function's.  Of e->ty only what trans.c reads is kept, in "notes", with *)
(* callee_depth.  The environments are functions, which module             *)
(* SymtabRefinement shows the two symbol tables to be.                     *)
(***************************************************************************)
EXTENDS Naturals, SequencesExt, TLC

IntTy == [kind |-> "INT"]
StringTy == [kind |-> "STRING"]
NilTy == [kind |-> "NIL"]
VoidTy == [kind |-> "VOID"]
Error == [kind |-> "ERROR"]      \* error_type
Null == [kind |-> "NULL"]        \* not a type: the NULL pointer
Endless == [kind |-> "ENDLESS"]  \* nor this: actual_ty does not return
NAME(x) == [kind |-> "NAME", name |-> x]

IsError(ty) == ty = Error

(* The name of no type: a declaration that gives none. *)
NoName == ""

Lookup(env, x) == IF x \in DOMAIN env THEN env[x] ELSE Null

Insert(env, x, entry) == (x :> entry) @@ env

VarEntry(ty) == [kind |-> "VAR", var |-> ty]
FuncEntry(params, ret, depth) ==
  [kind |-> "FUNC", params |-> params, ret |-> ret, depth |-> depth]

(* The walk: the two environments, current_depth, error_count, the notes,  *)
(* and how it stopped, "NO" as long as it did not.                         *)
semant_base_tenv == [int |-> IntTy, string |-> StringTy, nil |-> NilTy]

semant_base_venv ==
  LET S == StringTy  I == IntTy  F(params, ret) == FuncEntry(params, ret, 0)
  IN  [print |-> F(<<S>>, VoidTy), flush |-> F(<<>>, VoidTy), getchar |-> F(<<>>, S),
       ord |-> F(<<S>>, I), chr |-> F(<<I>>, S), size |-> F(<<S>>, I),
       not |-> F(<<I>>, I), exit |-> F(<<I>>, VoidTy), concat |-> F(<<S, S>>, S),
       substring |-> F(<<S, I, I>>, S)]

Walk0 ==
  [venv |-> semant_base_venv, tenv |-> semant_base_tenv,
   depth |-> 0, errors |-> 0, notes |-> <<>>, stop |-> "NO"]

R(ty, w) == [ty |-> ty, w |-> w]
Count(w) == [w EXCEPT !.errors = w.errors + 1]
Fail(w) == R(Error, Count(w))
Stop(why, w) == R(Null, [w EXCEPT !.stop = why])
Stopped(w) == w.stop # "NO"
Note(w, n) == [w EXCEPT !.notes = Append(w.notes, n)]

(* Reading through a pointer, or the result of an actual_ty, and then.     *)
Unread(ty) == ty.kind \in {"NULL", "ENDLESS"}

-----------------------------------------------------------------------------
(* actual_ty: with the environment unchanged it goes round for ever as     *)
(* soon as a name comes back.                                              *)
RECURSIVE ActualFrom(_, _, _)
ActualFrom(tenv, ty, seen) ==
  IF ty.kind # "NAME" THEN ty
  ELSE IF ty.name \in seen THEN Endless
  ELSE ActualFrom(tenv, Lookup(tenv, ty.name), seen \union {ty.name})

(* Faulty variant: one step only. *)
ActualOnce(tenv, ty) ==
  IF ty.kind = "NAME" THEN Lookup(tenv, ty.name) ELSE ty

actual_ty(tenv, ty) == ActualFrom(tenv, ty, {})

NilToRecord(to, from) == to.kind = "RECORD" /\ from.kind = "NIL"

(* The type of a field, NULL where there is none of the name. *)
Field(record, name) ==
  LET is == {i \in DOMAIN record : record[i].name = name}
  IN  IF is = {} THEN Null ELSE record[CHOOSE i \in is : \A j \in is : i <= j].type

trans_ty(ty, w) ==
  CASE ty.kind = "ALIAS"  -> LET res == Lookup(w.tenv, ty.of)
                             IN  IF res = Null THEN Fail(w) ELSE R(res, w)
    [] ty.kind = "ARRAY"  -> R([kind |-> "ARRAY", array |-> Lookup(w.tenv, ty.of)], w)
    [] ty.kind = "RECORD" ->
         R([kind |-> "RECORD",
            record |-> [i \in DOMAIN ty.fields |->
                          [name |-> ty.fields[i].name,
                           type |-> Lookup(w.tenv, ty.fields[i].type)]]], w)

(* Faulty variant: no placeholder for a type. *)
HeaderOfFunctionsOnly(dec, w) ==
  LET params == [i \in DOMAIN dec.args |-> Lookup(w.tenv, dec.args[i].type)]
      ret == IF dec.type = NoName THEN VoidTy ELSE Lookup(w.tenv, dec.type)
  IN  IF dec.kind = "FUNC"
        THEN [w EXCEPT !.venv = Insert(@, dec.id, FuncEntry(params, ret, w.depth + 1))]
        ELSE w

(* The first loop over a let's declarations. *)
trans_dec_header(dec, w) ==
  CASE dec.kind = "FUNC" ->
         LET params == [i \in DOMAIN dec.args |-> Lookup(w.tenv, dec.args[i].type)]
             ret == IF dec.type = NoName THEN VoidTy ELSE Lookup(w.tenv, dec.type)
         IN  [w EXCEPT !.venv = Insert(@, dec.id, FuncEntry(params, ret, w.depth + 1))]
    [] dec.kind = "TYPE" -> [w EXCEPT !.tenv = Insert(@, dec.id, NAME(dec.id))]
    [] dec.kind = "VAR"  -> w

-----------------------------------------------------------------------------
RECURSIVE trans_expr(_, _)

(* An lvalue: its type, and "note", the type the tree is given. *)
RECURSIVE trans_var(_, _)

Var(ty, note, w) == [ty |-> ty, note |-> note, w |-> w]
NoVar(r) == Var(r.ty, r.ty, r.w)

VarId(e, w) ==
  LET entry == Lookup(w.venv, e.id)
  IN  IF entry = Null \/ entry.kind # "VAR" THEN NoVar(Fail(w))
      ELSE LET ty == actual_ty(w.tenv, entry.var)
           IN  IF ty = Endless THEN NoVar(Stop("ENDLESS", w)) ELSE Var(entry.var, ty, w)

VarField(e, w) ==
  LET base == trans_var(e.record, w)
      ty == actual_ty(base.w.tenv, base.ty)
      field == Field(ty.record, e.field)
      after == Note(base.w, [of |-> "FIELD", is |-> base.note.kind])
  IN  IF Stopped(base.w) \/ IsError(ty) THEN NoVar(R(ty, base.w))
      ELSE IF Unread(ty) THEN NoVar(Stop(ty.kind, base.w))
      ELSE IF ty.kind # "RECORD" THEN NoVar(Fail(base.w))
      ELSE IF \A i \in DOMAIN ty.record : ty.record[i].name # e.field
        THEN NoVar(Fail(base.w))
      ELSE IF actual_ty(w.tenv, field) = Endless THEN NoVar(Stop("ENDLESS", base.w))
      ELSE Var(field, actual_ty(w.tenv, field), after)

VarIndex(e, w) ==
  LET base == trans_var(e.array, w)
      ty == actual_ty(base.w.tenv, base.ty)
      index == trans_expr(e.index, base.w)
  IN  IF Stopped(base.w) \/ IsError(ty) THEN NoVar(R(ty, base.w))
      ELSE IF Unread(ty) THEN NoVar(Stop(ty.kind, base.w))
      ELSE IF ty.kind # "ARRAY" THEN NoVar(Fail(base.w))
      ELSE IF Stopped(index.w) \/ IsError(index.ty) THEN NoVar(index)
      ELSE IF Unread(index.ty) THEN NoVar(Stop("NULL", index.w))
      ELSE IF index.ty.kind # "INT" THEN NoVar(Fail(index.w))
      ELSE Var(ty.array, ty.array, index.w)

trans_var(e, w) ==
  IF Stopped(w) THEN NoVar(R(Null, w))
  ELSE CASE e.kind = "ID"    -> VarId(e, w)
         [] e.kind = "FIELD" -> VarField(e, w)
         [] e.kind = "INDEX" -> VarIndex(e, w)
         [] OTHER            -> NoVar(R(Error, w))

-----------------------------------------------------------------------------
(* What an operand must be before its kind is read. *)
Ready(r, Then) ==
  IF Stopped(r.w) \/ IsError(r.ty) THEN r
  ELSE IF Unread(r.ty) THEN Stop("NULL", r.w)
  ELSE Then

(* Two of them, the kinds of both being read at once. *)
Both(l, r, Then) ==
  IF Stopped(r.w) THEN r
  ELSE IF IsError(l.ty) \/ IsError(r.ty) THEN R(Error, r.w)
  ELSE IF Unread(l.ty) \/ Unread(r.ty) THEN Stop("NULL", r.w)
  ELSE Then

Assign(e, w) ==
  LET l == trans_var(e.lhs, w)
      r == trans_expr(e.rhs, l.w)
      ok == l.ty.kind = r.ty.kind \/ NilToRecord(l.ty, r.ty)
  IN  Both(l, r, R(VoidTy, IF ok THEN r.w ELSE Count(r.w)))

(* Without an else, an if is of its then's type. *)
If(e, w) ==
  LET cond == trans_expr(e.cond, w)
      then == trans_expr(e.then, cond.w)
      else_ == trans_expr(e.else_, then.w)
      branches ==
        IF Stopped(then.w) \/ IsError(then.ty) \/ e.else_.kind = "NONE" THEN then
        ELSE IF Stopped(else_.w) THEN else_
        ELSE IF else_.ty = Null THEN R(then.ty, else_.w)
        ELSE IF then.ty = Null THEN Stop("NULL", else_.w)
        ELSE IF then.ty.kind # else_.ty.kind THEN Fail(else_.w)
        ELSE R(then.ty, else_.w)
  IN  Ready(cond, IF cond.ty.kind = "INT" THEN branches ELSE Fail(cond.w))

While(e, w) ==
  LET cond == trans_expr(e.cond, w)
      body == trans_expr(e.body, cond.w)
      loop == IF Stopped(body.w) \/ IsError(body.ty) THEN body ELSE R(VoidTy, body.w)
  IN  Ready(cond, IF cond.ty.kind = "INT" THEN loop ELSE Fail(cond.w))

(* The body is not looked at. *)
For(e, w) ==
  LET init == trans_expr(e.init, w)
      to == trans_expr(e.to, init.w)
  IN  Both(init, to, IF init.ty.kind = "INT" /\ to.ty.kind = "INT"
                       THEN R(VoidTy, to.w) ELSE Fail(to.w))

Arith(l, r) ==
  IF l.ty = Null THEN R(Error, r.w)       \* with a message, but not counted
  ELSE IF l.ty.kind # "INT" THEN Fail(r.w)
  ELSE Ready(r, IF r.ty.kind # "INT" THEN Fail(r.w) ELSE R(IntTy, r.w))

Equal(lty, rty, w) ==
  IF lty = Endless \/ rty = Endless THEN Stop("ENDLESS", w)
  ELSE IF lty = Null \/ rty = Null THEN Stop("NULL", w)
  ELSE IF lty.kind = rty.kind \/ NilToRecord(lty, rty) \/ NilToRecord(rty, lty)
    THEN R(IntTy, w)
  ELSE Fail(w)

Binop(e, w) ==
  LET l == trans_expr(e.left, w)
      r == trans_expr(e.right, l.w)
  IN  IF Stopped(r.w) THEN r
      ELSE IF IsError(l.ty) \/ IsError(r.ty) THEN R(Error, r.w)
      ELSE IF e.op = "EQ" THEN Equal(actual_ty(w.tenv, l.ty), actual_ty(w.tenv, r.ty), r.w)
      ELSE Arith(l, r)

-----------------------------------------------------------------------------
(* A list of expressions: the last one's type, whether any had an error.   *)
RECURSIVE VisitFrom(_, _, _)
VisitFrom(list, last, had_error) ==
  IF list = <<>> THEN [ty |-> last.ty, w |-> last.w, had_error |-> had_error]
  ELSE LET r == trans_expr(Head(list), last.w)
       IN  VisitFrom(Tail(list), r, had_error \/ IsError(r.ty))

Visit(list, w) == VisitFrom(list, R(Null, w), FALSE)

Seq_(e, w) ==
  LET v == Visit(e.list, w)
  IN  IF e.list = <<>> THEN R(VoidTy, w)
      ELSE R(IF v.had_error THEN Error ELSE v.ty, v.w)

(* One actual against its formal. *)
Actual(param, arg, w) ==
  LET a == trans_expr(arg, w)
      p == actual_ty(a.w.tenv, param)
  IN  IF Stopped(a.w) \/ IsError(a.ty) THEN a
      ELSE IF p = Endless THEN Stop("ENDLESS", a.w)
      ELSE IF p = Null \/ a.ty = Null THEN Stop("NULL", a.w)
      ELSE IF p.kind = a.ty.kind \/ NilToRecord(p, a.ty) THEN a
      ELSE Fail(a.w)

RECURSIVE ActualsFrom(_, _, _, _)
ActualsFrom(params, args, w, had_error) ==
  IF params = <<>> \/ args = <<>> THEN [w |-> w, had_error |-> had_error]
  ELSE LET a == Actual(Head(params), Head(args), w)
       IN  ActualsFrom(Tail(params), Tail(args), a.w, had_error \/ IsError(a.ty))

Call(e, w) ==
  LET f == Lookup(w.venv, e.id)
      actuals == ActualsFrom(f.params, e.args, w, FALSE)
      v == actuals.w
  IN  IF f = Null \/ f.kind = "VAR" THEN Fail(w)
      ELSE IF Stopped(v) THEN R(Null, v)
      ELSE IF Len(f.params) # Len(e.args) THEN Fail(v)
      ELSE IF actuals.had_error THEN R(Error, v)
      ELSE R(f.ret, Note(v, [of |-> "CALL", is |-> f.depth]))

(* One field of a record expression.  A field that the type does not have, *)
(* and nil, pass.                                                          *)
FieldValue(record, field, w) ==
  LET v == trans_expr(field.val, w)
      s == actual_ty(v.w.tenv, v.ty)
      f == actual_ty(v.w.tenv, Field(record, field.name))
  IN  IF Stopped(v.w) \/ IsError(v.ty) THEN v.w
      ELSE IF v.ty = Null THEN Stop("NULL", v.w).w
      ELSE IF v.ty = NilTy THEN v.w
      ELSE IF s = Endless THEN Stop("ENDLESS", v.w).w
      ELSE IF \A i \in DOMAIN record : record[i].name # field.name THEN v.w
      ELSE IF f = Endless THEN Stop("ENDLESS", v.w).w
      ELSE IF s = Null \/ f = Null THEN Stop("NULL", v.w).w
      ELSE IF s.kind = f.kind THEN v.w
      ELSE Count(v.w)

RECURSIVE FieldValues(_, _, _)
FieldValues(record, fields, w) ==
  IF fields = <<>> THEN w
  ELSE FieldValues(record, Tail(fields), FieldValue(record, Head(fields), w))

Record(e, w) ==
  LET t == Lookup(w.tenv, e.type)
  IN  IF t.kind # "RECORD" THEN Fail(w)
      ELSE R(t, FieldValues(t.record, e.fields, w))

Array(e, w) ==
  LET t == Lookup(w.tenv, e.type)
      size == trans_expr(e.size, w)
      init == trans_expr(e.init, size.w)
      badSize == size.ty.kind # "INT"
      badInit == init.ty.kind # t.array.kind
  IN  IF t = Null THEN Fail(w)
      ELSE IF Stopped(init.w) THEN init
      ELSE IF IsError(size.ty) \/ IsError(init.ty) THEN R(Error, init.w)
      ELSE IF t.kind # "ARRAY" THEN Fail(init.w)
      ELSE IF Null \in {size.ty, init.ty, t.array} THEN Stop("NULL", init.w)
      ELSE R(t, IF badSize /\ badInit THEN Count(Count(init.w))
                ELSE IF badSize \/ badInit THEN Count(init.w) ELSE init.w)

-----------------------------------------------------------------------------
(* The second loop over a let's declarations. *)
DecVar(dec, w) ==
  LET init == trans_expr(dec.init, w)
      declared == Lookup(w.tenv, dec.type)
      ok == declared.kind = init.ty.kind \/ NilToRecord(declared, init.ty)
      Bind(ty, v) == [v EXCEPT !.venv = Insert(@, dec.id, VarEntry(ty))]
  IN  IF Stopped(init.w) THEN init.w
      ELSE IF IsError(init.ty) THEN Bind(Error, init.w)
      ELSE IF dec.type = NoName THEN Bind(init.ty, init.w)
      ELSE IF declared = Null \/ init.ty = Null THEN Stop("NULL", init.w).w
      ELSE Bind(declared, IF ok THEN init.w ELSE Count(init.w))

RECURSIVE BindArgs(_, _, _)
BindArgs(args, params, w) ==
  IF args = <<>> THEN w
  ELSE IF params = <<>> THEN Stop("NULL", w).w
  ELSE BindArgs(Tail(args), Tail(params),
                [w EXCEPT !.venv = Insert(@, Head(args).name, VarEntry(Head(params)))])

(* Faulty variant: the depth is not given back. *)
DecFuncDepthKept(dec, w) ==
  LET entry == Lookup(w.venv, dec.id)
      inside == BindArgs(dec.args, entry.params, [w EXCEPT !.depth = w.depth + 1])
      body == trans_expr(dec.body, inside)
      after == [body.w EXCEPT !.venv = w.venv]
  IN  IF entry.kind = "VAR" THEN Stop("ENTRY", w).w
      ELSE IF Unread(body.ty) \/ IsError(body.ty) \/ body.ty.kind = entry.ret.kind
        THEN after ELSE Count(after)

(* The function is looked up again, by name. *)
DecFunc(dec, w) ==
  LET entry == Lookup(w.venv, dec.id)
      confused == entry.kind = "VAR"
      inside == BindArgs(dec.args, IF confused THEN <<>> ELSE entry.params,
                         [w EXCEPT !.depth = w.depth + 1])
      body == trans_expr(dec.body, inside)
      after == [body.w EXCEPT !.venv = w.venv, !.depth = w.depth]
      read == body.ty # Null /\ ~IsError(body.ty)   \* entry->func.ret->kind
  IN  IF confused /\ dec.args # <<>> THEN Stop("ENTRY", w).w
      ELSE IF Stopped(body.w) \/ ~read THEN after
      ELSE IF confused THEN Stop("ENTRY", after).w
      ELSE IF entry.ret = Null THEN Stop("NULL", after).w
      ELSE IF body.ty.kind # entry.ret.kind THEN Count(after)
      ELSE after

DecType(dec, w) ==
  LET r == trans_ty(dec.ty, w)
  IN  [r.w EXCEPT !.tenv = Insert(@, dec.id, r.ty)]

trans_dec(dec, w) ==
  IF Stopped(w) THEN w
  ELSE CASE dec.kind = "VAR"  -> DecVar(dec, w)
         [] dec.kind = "FUNC" -> DecFunc(dec, w)
         [] dec.kind = "TYPE" -> DecType(dec, w)

Let(e, w) ==
  LET headers == FoldLeft(LAMBDA v, dec : trans_dec_header(dec, v), w, e.decs)
      decs == FoldLeft(LAMBDA v, dec : trans_dec(dec, v), headers, e.decs)
      body == Visit(e.list, decs)
  IN  R(IF body.had_error THEN Error ELSE body.ty,
        [body.w EXCEPT !.venv = w.venv, !.tenv = w.tenv])

Expr(e, w) ==
  CASE e.kind = "INT"    -> R(IntTy, w)
    [] e.kind = "STRING" -> R(StringTy, w)
    [] e.kind = "NIL"    -> R(NilTy, w)
    [] e.kind \in {"ID", "FIELD", "INDEX"} -> trans_var(e, w)
    [] e.kind = "ASSIGN" -> Assign(e, w)
    [] e.kind = "IF"     -> If(e, w)
    [] e.kind = "WHILE"  -> While(e, w)
    [] e.kind = "FOR"    -> For(e, w)
    [] e.kind = "CALL"   -> Call(e, w)
    [] e.kind = "SEQ"    -> Seq_(e, w)
    [] e.kind = "LET"    -> Let(e, w)
    [] e.kind = "BINOP"  -> Binop(e, w)
    [] e.kind = "RECORD" -> Record(e, w)
    [] e.kind = "ARRAY"  -> Array(e, w)

trans_expr(e, w) == IF Stopped(w) THEN R(Null, w) ELSE Expr(e, w)
=============================================================================
