------------------------------- MODULE Source -------------------------------
(***************************************************************************)
(* The part of the Tiger language that is followed through the compiler:   *)
(* its syntax trees (ast.h), which of them semant.c accepts, and what they *)
(* mean.  The meaning is not in the repository; it is what the properties  *)
(* compare with.                                                           *)
(*                                                                         *)
(* Functions are two, f of an integer and p without a value; array types   *)
(* are two, of integers and of records, and the records have two integers. *)
(* A let has at least one expression in its body.                          *)
(***************************************************************************)
EXTENDS Integers, Sequences

INT(v) == [kind |-> "INT", val |-> v]
ID(x) == [kind |-> "ID", id |-> x]
CALL(f, args) == [kind |-> "CALL", fn |-> f, args |-> args]
BINOP(op, a, b) == [kind |-> "BINOP", op |-> op, left |-> a, right |-> b]
INDEX(x, i) == [kind |-> "INDEX", array |-> x, index |-> i]
FIELD(x, name) == [kind |-> "FIELD", record |-> x, field |-> name]
ASSIGN(x, e) == [kind |-> "ASSIGN", lhs |-> x, rhs |-> e]
ARRAY(type, n, e) == [kind |-> "ARRAY", type |-> type, size |-> n, init |-> e]
RECORD(fields) == [kind |-> "RECORD", type |-> "rec", fields |-> fields]
SEQ(list) == [kind |-> "SEQ", list |-> list]
IF1(c, t) == [kind |-> "IF1", cond |-> c, then |-> t]   \* without else
IF2(c, t, f) == [kind |-> "IF2", cond |-> c, then |-> t, else_ |-> f]
WHILE(c, b) == [kind |-> "WHILE", cond |-> c, body |-> b]
FOR(x, i, to, b) == [kind |-> "FOR", id |-> x, init |-> i, to |-> to, body |-> b]
VAR(x, i) == [id |-> x, init |-> i]
LET_(decs, body) == [kind |-> "LET", decs |-> decs, list |-> body]

Relops == {"EQ", "NE", "LT", "LE", "GT", "GE"}

Params == [f |-> <<"INT">>, p |-> <<>>]
Ret == [f |-> "INT", p |-> "VOID"]
Element == [ints |-> "INT", recs |-> "rec"]
Fields == [rec |-> <<"x", "y">>]   \* of integers

Kind(type) ==
  CASE type \in DOMAIN Element -> "ARRAY" [] type \in DOMAIN Fields -> "RECORD" [] OTHER -> type

-----------------------------------------------------------------------------
(* trans_expr: the type of an expression where variables have the types G, *)
(* ERROR where error_count goes up.  Types are compared by their kinds.    *)
RECURSIVE TypeOf(_, _)

TypesOf(list, G) == [i \in DOMAIN list |-> TypeOf(list[i], G)]
KindOf(e, G) == Kind(TypeOf(e, G))
KindsOf(list, G) == [i \in DOMAIN list |-> KindOf(list[i], G)]

TypeOfList(list, G) ==
  LET types == TypesOf(list, G)
  IN  IF list = <<>> THEN "VOID"
      ELSE IF \E i \in DOMAIN types : types[i] = "ERROR" THEN "ERROR"
      ELSE types[Len(types)]

(* An if without else is of its then's kind. *)
TypeOfIf1(e, G) ==
  IF TypeOf(e.cond, G) = "INT" THEN TypeOf(e.then, G) ELSE "ERROR"

TypeOfIf2(e, G) ==
  IF TypeOf(e.cond, G) = "INT" /\ KindOf(e.then, G) = KindOf(e.else_, G)
    THEN TypeOf(e.then, G)
    ELSE "ERROR"

TypeOfWhile(e, G) ==
  IF TypeOf(e.cond, G) = "INT" /\ TypeOf(e.body, G) # "ERROR" THEN "VOID" ELSE "ERROR"

(* The body is not looked at. *)
TypeOfFor(e, G) ==
  IF TypeOf(e.init, G) = "INT" /\ TypeOf(e.to, G) = "INT" THEN "VOID" ELSE "ERROR"

TypeOfBinop(e, G) ==
  LET l == KindOf(e.left, G)
      r == KindOf(e.right, G)
  IN  IF l # r \/ l = "ERROR" \/ (l # "INT" /\ e.op \notin {"EQ", "NE"}) THEN "ERROR" ELSE "INT"

TypeOfIndex(e, G) ==
  LET array == TypeOf(e.array, G)
  IN  IF array \in DOMAIN Element /\ TypeOf(e.index, G) = "INT" THEN Element[array] ELSE "ERROR"

TypeOfField(e, G) ==
  LET record == TypeOf(e.record, G)
  IN  IF record \in DOMAIN Fields /\ \E i \in DOMAIN Fields[record] : Fields[record][i] = e.field
        THEN "INT" ELSE "ERROR"

TypeOfArray(e, G) ==
  IF TypeOf(e.size, G) = "INT" /\ KindOf(e.init, G) = Kind(Element[e.type]) THEN e.type ELSE "ERROR"

(* A field that the type has not, or that is left out, is no error. *)
TypeOfRecord(e, G) ==
  IF \A i \in DOMAIN e.fields :
       LET type == KindOf(e.fields[i].val, G)
       IN  /\ type # "ERROR"
           /\ (\E j \in DOMAIN Fields[e.type] : Fields[e.type][j] = e.fields[i].name)
                => type = "INT"
    THEN e.type ELSE "ERROR"

RECURSIVE TypeOfLet(_, _, _)
TypeOfLet(decs, body, G) ==
  IF decs = <<>> THEN TypeOfList(body, G)
  ELSE LET dec == Head(decs)
           type == TypeOf(dec.init, G)
       IN  IF type = "ERROR" THEN "ERROR"
           ELSE TypeOfLet(Tail(decs), body, [x \in DOMAIN G \union {dec.id} |->
                                                IF x = dec.id THEN type ELSE G[x]])

TypeOf(e, G) ==
  CASE e.kind = "INT"    -> "INT"
    [] e.kind = "ID"     -> IF e.id \in DOMAIN G THEN G[e.id] ELSE "ERROR"
    [] e.kind = "INDEX"  -> TypeOfIndex(e, G)
    [] e.kind = "FIELD"  -> TypeOfField(e, G)
    [] e.kind = "ASSIGN" -> IF TypeOf(e.lhs, G) # "ERROR" /\ KindOf(e.rhs, G) = KindOf(e.lhs, G)
                              THEN "VOID" ELSE "ERROR"
    [] e.kind = "ARRAY"  -> TypeOfArray(e, G)
    [] e.kind = "RECORD" -> TypeOfRecord(e, G)
    [] e.kind = "CALL"   -> IF KindsOf(e.args, G) = Params[e.fn] THEN Ret[e.fn] ELSE "ERROR"
    [] e.kind = "BINOP"  -> TypeOfBinop(e, G)
    [] e.kind = "SEQ"    -> TypeOfList(e.list, G)
    [] e.kind = "LET"    -> TypeOfLet(e.decs, e.list, G)
    [] e.kind = "IF1"    -> TypeOfIf1(e, G)
    [] e.kind = "IF2"    -> TypeOfIf2(e, G)
    [] e.kind = "WHILE"  -> TypeOfWhile(e, G)
    [] e.kind = "FOR"    -> TypeOfFor(e, G)

-----------------------------------------------------------------------------
(* The meaning.  A run is a record: the values of the variables, the       *)
(* blocks that arrays and records are kept in, the calls made so far, and  *)
(* how many more rounds of loops it is followed for; at 0 nothing happens  *)
(* any more.  The i-th call returns reply[i] (0 where that *)
(* is not given) and, as a nested function may, counts the variable m up.  *)
Ref(k) == 1000 * k   \* the value of an array or record: its block's number
BlockOf(ref) == ref \div 1000

FieldNumber(name) == (CHOOSE i \in DOMAIN Fields.rec : Fields.rec[i] = name) - 1

Truth(b) == IF b THEN 1 ELSE 0

Apply(op, a, b) ==
  CASE op = "ADD" -> a + b
    [] op = "SUB" -> a - b
    [] op = "MUL" -> a * b
    [] op = "EQ" -> Truth(a = b)
    [] op = "NE" -> Truth(a # b)
    [] op = "LT" -> Truth(a < b)
    [] op = "LE" -> Truth(a <= b)
    [] op = "GT" -> Truth(a > b)
    [] op = "GE" -> Truth(a >= b)

Reply(run) ==
  LET i == Len(run.log) + 1 IN IF i \in DOMAIN run.reply THEN run.reply[i] ELSE 0

Logged(run, f, args) == [run EXCEPT !.log = Append(run.log, <<f, args>>)]

(* What an expression gives, and the run after it.  Statements give 0.     *)
RECURSIVE Mean(_, _)
Value(v, run) == [val |-> v, run |-> run]
Set(run, x, v) == [run EXCEPT !.vars[x] = v]

RECURSIVE MeanAll(_, _)
MeanAll(list, run) ==  \* val: the values of all
  IF list = <<>> THEN Value(<<>>, run)
  ELSE LET first == Mean(Head(list), run)
           rest == MeanAll(Tail(list), first.run)
       IN  Value(<<first.val>> \o rest.val, rest.run)

MeanCall(e, run) ==
  LET args == MeanAll(e.args, run)
      r == args.run
  IN  IF r.fuel = 0 THEN Value(0, r)
      ELSE Value(Reply(r), Set(Logged(r, e.fn, args.val), "m", r.vars["m"] + 1))

MeanBinop(e, run) ==
  LET l == Mean(e.left, run)
      r == Mean(e.right, l.run)
  IN  CASE e.op = "AND" -> IF l.val = 0 THEN Value(0, l.run) ELSE Value(Truth(r.val # 0), r.run)
        [] e.op = "OR" -> IF l.val # 0 THEN Value(1, l.run) ELSE Value(Truth(r.val # 0), r.run)
        [] OTHER -> Value(Apply(e.op, l.val, r.val), r.run)

(* What a variable, an element or a field is kept in: the variable, or a   *)
(* place of a block of the heap.  Outside of it nothing is defined, and    *)
(* the run is not followed any longer.                                     *)
MeanPlace(e, run) ==
  CASE e.kind = "ID"    -> Value(<<e.id>>, run)
    [] e.kind = "INDEX" -> MeanAll(<<e.array, e.index>>, run)
    [] e.kind = "FIELD" -> LET r == Mean(e.record, run)
                           IN  Value(<<r.val, FieldNumber(e.field)>>, r.run)

IsPlace(place, run) ==
  run.fuel > 0 /\ (Len(place) = 2 => place[2] \in DOMAIN run.heap[BlockOf(place[1])])

Lost(run) == Value(0, [run EXCEPT !.fuel = 0])

MeanVar(e, run) ==
  LET p == MeanPlace(e, run)
  IN  IF ~IsPlace(p.val, p.run) THEN Lost(p.run)
      ELSE Value(IF Len(p.val) = 1 THEN p.run.vars[p.val[1]]
                 ELSE p.run.heap[BlockOf(p.val[1])][p.val[2]], p.run)

MeanAssign(e, run) ==
  LET p == MeanPlace(e.lhs, run)
      r == Mean(e.rhs, p.run)
  IN  IF ~IsPlace(p.val, r.run) THEN Lost(r.run)
      ELSE Value(0, IF Len(p.val) = 1 THEN Set(r.run, p.val[1], r.val)
                    ELSE [r.run EXCEPT !.heap[BlockOf(p.val[1])][p.val[2]] = r.val])

MeanArray(e, run) ==
  LET both == MeanAll(<<e.size, e.init>>, run)
      block == [i \in 0 .. both.val[1] - 1 |-> both.val[2]]
  IN  Value(Ref(Len(both.run.heap) + 1), [both.run EXCEPT !.heap = Append(@, block)])

(* The fields are evaluated as they are written; what is left out is 0.    *)
(* The record has its number before the records that are made for it.      *)
MeanRecord(e, run) ==
  LET k == Len(run.heap) + 1
      vals == MeanAll([i \in DOMAIN e.fields |-> e.fields[i].val],
                      [run EXCEPT !.heap = Append(@, <<>>)])
      Given(name) == {i \in DOMAIN e.fields : e.fields[i].name = name}
      block == [i \in 0 .. Len(Fields[e.type]) - 1 |->
                  LET given == Given(Fields[e.type][i + 1])
                  IN  IF given = {} THEN 0 ELSE vals.val[CHOOSE j \in given : TRUE]]
  IN  Value(Ref(k), [vals.run EXCEPT !.heap[k] = block])

MeanList(list, run) ==
  IF list = <<>> THEN Value(0, run)
  ELSE LET all == MeanAll(list, run) IN Value(all.val[Len(list)], all.run)

Burn(run) == [run EXCEPT !.fuel = @ - 1]

MeanWhile(e, run) ==
  LET c == Mean(e.cond, run)
      b == Mean(e.body, c.run)
  IN  IF c.run.fuel = 0 \/ c.val = 0 THEN Value(0, c.run)
      ELSE IF b.run.fuel = 0 THEN Value(0, b.run)
      ELSE Mean(e, Burn(b.run))

RECURSIVE Rounds(_, _, _)
Rounds(e, limit, run) ==
  IF run.fuel = 0 \/ run.vars[e.id] > limit THEN run
  ELSE LET b == Mean(e.body, run).run
       IN  IF b.fuel = 0 THEN b
           ELSE Rounds(e, limit, Burn(Set(b, e.id, b.vars[e.id] + 1)))

(* The variable of a FOR is its own, and its bounds do not see it. *)
MeanFor(e, run) ==
  LET i == Mean(e.init, run)
      to == Mean(e.to, i.run)
      end == Rounds(e, to.val, Set(to.run, e.id, i.val))
  IN  Value(0, Set(end, e.id, to.run.vars[e.id]))

RECURSIVE MeanLet(_, _, _)
MeanLet(decs, body, run) ==
  IF decs = <<>> THEN MeanList(body, run)
  ELSE LET dec == Head(decs)
           i == Mean(dec.init, run)
           rest == MeanLet(Tail(decs), body, Set(i.run, dec.id, i.val))
       IN  Value(rest.val, Set(rest.run, dec.id, i.run.vars[dec.id]))

Mean(e, run) ==
  IF run.fuel = 0 THEN Value(0, run)
  ELSE
    CASE e.kind = "INT"    -> Value(e.val, run)
      [] e.kind \in {"ID", "INDEX", "FIELD"} -> MeanVar(e, run)
      [] e.kind = "ASSIGN" -> MeanAssign(e, run)
      [] e.kind = "ARRAY"  -> MeanArray(e, run)
      [] e.kind = "RECORD" -> MeanRecord(e, run)
      [] e.kind = "CALL"   -> MeanCall(e, run)
      [] e.kind = "BINOP"  -> MeanBinop(e, run)
      [] e.kind = "SEQ"    -> MeanList(e.list, run)
      [] e.kind = "LET"    -> MeanLet(e.decs, e.list, run)
      [] e.kind = "IF1"    -> LET c == Mean(e.cond, run)
                              IN  IF c.val = 0 THEN Value(0, c.run)
                                  ELSE Value(0, Mean(e.then, c.run).run)
      [] e.kind = "IF2"    -> LET c == Mean(e.cond, run)
                              IN  Mean(IF c.val = 0 THEN e.else_ ELSE e.then, c.run)
      [] e.kind = "WHILE"  -> MeanWhile(e, run)
      [] e.kind = "FOR"    -> MeanFor(e, run)
=============================================================================
