------------------------------ MODULE MCCheck ------------------------------
(***************************************************************************)
(* Programs for Check: a let of one or two types, a variable or function   *)
(* that uses them, perhaps one more, and an expression.  Most have a type  *)
(* error or one of Typing's marks; one in thirty is accepted.              *)
(***************************************************************************)
EXTENDS Check

INT == [kind |-> "INT"]
STR == [kind |-> "STRING"]
NIL == [kind |-> "NIL"]
ID(x) == [kind |-> "ID", id |-> x]
FIELD(r, f) == [kind |-> "FIELD", record |-> r, field |-> f]
INDEX(a, i) == [kind |-> "INDEX", array |-> a, index |-> i]
ASSIGN(l, r) == [kind |-> "ASSIGN", lhs |-> l, rhs |-> r]
IF_(c, t, f) == [kind |-> "IF", cond |-> c, then |-> t, else_ |-> f]
WHILE(c, b) == [kind |-> "WHILE", cond |-> c, body |-> b]
FOR(i, t) == [kind |-> "FOR", init |-> i, to |-> t]
CALL(f, args) == [kind |-> "CALL", id |-> f, args |-> args]
SEQ(list) == [kind |-> "SEQ", list |-> list]
LET_(ds, list) == [kind |-> "LET", decs |-> ds, list |-> list]
BINOP(op, l, r) == [kind |-> "BINOP", op |-> op, left |-> l, right |-> r]
RECORD(t, fields) == [kind |-> "RECORD", type |-> t, fields |-> fields]
ARRAY(t, s, i) == [kind |-> "ARRAY", type |-> t, size |-> s, init |-> i]
Val(f, e) == [name |-> f, val |-> e]

TYPE(t, ty) == [kind |-> "TYPE", id |-> t, ty |-> ty]
ALIAS(t) == [kind |-> "ALIAS", of |-> t]
ARRAYOF(t) == [kind |-> "ARRAY", of |-> t]
FIELDS(fs) == [kind |-> "RECORD", fields |-> fs]
F(f, t) == [name |-> f, type |-> t]
VAR(x, t, e) == [kind |-> "VAR", id |-> x, type |-> t, init |-> e]
FUNC(f, args, t, body) == [kind |-> "FUNC", id |-> f, args |-> args, type |-> t, body |-> body]

x == ID("x")

(* The types of the outer let: one or two, in both orders, used by each    *)
(* other or not.                                                           *)
Node == FIELDS(<<F("a", "int"), F("n", "t")>>)
Ts == {TYPE("t", ty) : ty \in {Node, ARRAYOF("int"), ARRAYOF("t")}}
Us == {TYPE("u", ty) : ty \in {FIELDS(<<F("n", "t")>>), ARRAYOF("t")}}
Renamed == TYPE("t", ALIAS("u"))
Targets == Us \union {TYPE("u", ALIAS("string")), TYPE("u", ALIAS("t"))}

TypeParts ==
  {<<>>} \union {<<t>> : t \in Ts \union {Renamed}}
    \union UNION {{<<t, u>>, <<u, t>>} : t \in Ts, u \in Us}
    \union UNION {{<<Renamed, u>>, <<u, Renamed>>} : u \in Targets}
    \union {<<TYPE("t", ALIAS("int")), TYPE("t", Node)>>}
    \union {<<FUNC("f", <<F("x", "t")>>, "int", INT), t>> : t \in Ts}

Inits ==
  { INT, NIL, CALL("f", <<INT>>), RECORD("t", <<Val("a", INT), Val("n", NIL)>>),
    ARRAY("t", INT, INT),
    LET_(<<TYPE("t", Node)>>, <<RECORD("t", <<>>)>>) }

Vars == {VAR("x", t, e) : t \in {"", "t"}, e \in Inits} \union {VAR("f", "", INT)}

Funcs ==
  {FUNC("f", <<F("x", s)>>, t, e) : s, t \in {"int", "t"}, e \in {x, CALL("f", <<x>>)}}
  \union
  { FUNC("f", <<F("x", "t")>>, "int", BINOP("EQ", x, NIL)), FUNC("f", <<>>, "", SEQ(<<>>)),
    FUNC("f", <<F("x", "t")>>, "t", FIELD(x, "n")), FUNC("x", <<>>, "", NIL),
    FUNC("f", <<F("x", "int"), F("y", "t")>>, "int", x),
    FUNC("f", <<>>, "", LET_(<<FUNC("g", <<>>, "", CALL("f", <<>>))>>, <<CALL("g", <<>>)>>)) }

More ==
  { VAR("x", "u", ARRAY("u", INT, x)),
    FUNC("f", <<F("x", "t")>>, "", SEQ(<<CALL("f", <<x>>), CALL("f", <<NIL>>)>>)) }

Exprs ==
  { x, BINOP("EQ", x, NIL), FIELD(FIELD(x, "n"), "a"), ASSIGN(FIELD(x, "n"), x), ASSIGN(x, NIL),
    FIELD(INDEX(x, INT), "n"), CALL("f", <<x>>), BINOP("ADD", CALL("f", <<INT>>), INDEX(x, INT)),
    RECORD("t", <<Val("n", x), Val("a", STR)>>), IF_(INT, NIL, x),
    SEQ(<<WHILE(x, ASSIGN(x, INT)), FOR(INT, x), IF_(BINOP("EQ", x, x), x, NONE)>>),
    LET_(<<TYPE("t", ALIAS("int")), VAR("y", "", x)>>, <<BINOP("EQ", FIELD(ID("y"), "n"), NIL)>>),
    LET_(<<VAR("x", "", STR), FUNC("g", <<F("x", "int")>>, "int", x)>>,
         <<CALL("print", <<x>>), CALL("g", <<INT>>)>>),
    BINOP("ADD", LET_(<<>>, <<>>), x), BINOP("ADD", INT, LET_(<<>>, <<>>)) }

DecLists ==
  {ts \o ds : ts \in TypeParts,
             ds \in {<<>>} \union {<<v>> : v \in Vars \union Funcs}
                     \union {<<v, m>> : v \in Vars, m \in More}}

MCPrograms == {LET_(ds, <<e>>) : ds \in DecLists, e \in Exprs}
=============================================================================
