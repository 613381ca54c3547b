----------------------------- MODULE MCPipeline -----------------------------
(***************************************************************************)
(* Programs for Pipeline: every construct over small operands, which       *)
(* themselves are of every construct, and conditions of two levels in      *)
(* every place that takes one.                                             *)
(***************************************************************************)
EXTENDS Pipeline

a == ID("a")
m == ID("m")
f(e) == CALL("f", <<e>>)
p == CALL("p", <<>>)

Atoms == {INT(1), a, m, f(a)}

(* One expression or two of each construct. *)
Exprs ==
  Atoms \union
  { BINOP("ADD", f(a), f(m)), BINOP("LT", a, f(INT(1))), BINOP("AND", f(a), m),
    BINOP("OR", m, f(INT(0))), SEQ(<<ASSIGN(a, INT(2)), a>>),
    IF2(f(a), a, f(m)), LET_(<<VAR("a", m), VAR("x", a)>>, <<p, ID("x")>>) }

Stmts ==
  { p, ASSIGN(a, f(m)), ASSIGN(m, BINOP("ADD", m, f(a))), IF1(f(a), p),
    WHILE(BINOP("AND", f(a), a), ASSIGN(a, f(m))), SEQ(<<p, ASSIGN(m, a)>>),
    FOR("x", INT(0), a, ASSIGN(m, BINOP("ADD", ID("x"), m))) }

Conditions ==
  Atoms \union {BINOP(op, c, d) : op \in {"AND", "OR", "LT"}, c, d \in Exprs}

(* Conditions inside conditions. *)
Nested ==
  {BINOP(op, BINOP(o1, f(a), c), BINOP(o2, d, f(m))) :
     op, o1, o2 \in {"AND", "OR"}, c, d \in Atoms}

Expressions ==
  {BINOP(op, d, e) : op \in {"ADD", "EQ"}, d, e \in Exprs \union Stmts}
    \union Conditions \union Nested
    \union {IF2(c, d, e) : c, d, e \in Exprs}
    \union {LET_(<<VAR("a", d), VAR("x", e)>>, <<s, BINOP("ADD", a, ID("x"))>>) :
              d, e \in Exprs, s \in Stmts}
    \union {SEQ(<<s, e>>) : s \in Stmts, e \in Exprs}
    \union {f(BINOP("ADD", d, e)) : d, e \in Exprs}

(* Without calls: semant.c does not look into these bodies (see README). *)
ForBodies ==
  { SEQ(<<ASSIGN(m, ID("x")), ASSIGN(a, BINOP("ADD", a, ID("x")))>>),
    IF1(BINOP("OR", a, BINOP("LT", m, ID("x"))), ASSIGN(m, INT(2))) }

Bodies == {p, ASSIGN(a, f(m)), IF1(f(a), p)}

Statements ==
  {IF1(c, s) : c \in Conditions \union Nested, s \in Bodies}
    \union {WHILE(c, s) : c \in Conditions \union Nested, s \in Bodies}
    \union {FOR("x", d, e, s) : d, e \in Exprs, s \in ForBodies}
    \union {FOR("a", d, e, ASSIGN(m, BINOP("ADD", m, a))) : d, e \in {INT(0), m, INT(2)}}
    \union {ASSIGN(x, e) : x \in {a, m}, e \in Conditions}

v == ID("v")
w == ID("w")
r == ID("r")
At(x, i) == INDEX(x, i)
X(e) == FIELD(e, "x")
Y(e) == FIELD(e, "y")
XY(d, e) == RECORD(<<[name |-> "x", val |-> d], [name |-> "y", val |-> e]>>)
YX(d, e) == RECORD(<<[name |-> "y", val |-> d], [name |-> "x", val |-> e]>>)

Indices == {INT(0), a, f(m), SEQ(<<ASSIGN(a, INT(1)), INT(0)>>)}

(* An array of two integers; a loop over them. *)
Arrays ==
  LET Of(d, body) == LET_(<<VAR("v", ARRAY("ints", INT(2), d))>>, body)
      sum == BINOP("ADD", At(v, INT(0)), At(v, INT(1)))
  IN  {Of(d, <<ASSIGN(At(v, i), e), BINOP("ADD", f(sum), At(v, j))>>) :
         d \in Atoms, i, j \in Indices, e \in Exprs}
        \union {Of(INT(0), <<ASSIGN(At(v, At(v, d)), e), p, sum>>) : d, e \in Exprs}
        \union {Of(d, <<WHILE(BINOP("LT", At(v, a), INT(2)),
                             ASSIGN(At(v, a), BINOP("ADD", At(v, a), INT(1)))), sum>>) : d \in Exprs}
        \union {LET_(<<VAR("v", ARRAY("ints", d, e)), VAR("a", v)>>,
                    <<f(BINOP("EQ", a, v)), At(a, INT(0))>>) : d, e \in Exprs}

(* A record and an array of two references to it; its fields in either     *)
(* order, or one of them left out.                                         *)
Records ==
  LET Of(d, body) ==
        LET_(<<VAR("r", d), VAR("w", ARRAY("recs", INT(2), r))>>, body)
      all == BINOP("ADD", X(r), BINOP("SUB", Y(r), X(At(w, INT(1)))))
  IN  {Of(XY(d, e), <<ASSIGN(Y(r), BINOP("ADD", f(Y(r)), X(r))), all>>) : d, e \in Exprs}
        \union {Of(YX(d, e), <<ASSIGN(X(At(w, i)), e), all>>) :
                  d \in {INT(0), INT(1)}, i \in Indices, e \in Exprs}
        \union {Of(RECORD(<<[name |-> "y", val |-> e]>>), <<ASSIGN(Y(At(w, i)), X(r)), all>>) :
                  i \in Indices, e \in Exprs}
        \union {Of(XY(a, m), <<ASSIGN(At(w, i), XY(d, Y(r))),
                              f(BINOP(op, At(w, INT(0)), r)), all>>) :
                  i \in Indices, d \in Exprs, op \in {"EQ", "NE"}}
        \union {Of(XY(a, X(d)), <<all>>) : d \in {r, At(w, INT(0))}}
        \union {Of(XY(c, d), <<ASSIGN(r, IF2(e, At(w, INT(0)), XY(e, m))), all>>) :
                  c, d \in Atoms, e \in Exprs}

MCPrograms == Expressions \union Statements \union Arrays \union Records
MCVariables == {"a", "m", "x", "v", "w", "r"}

(* An if without else where its then has a value. *)
ValueOfIf1 == {IF1(c, d) : c, d \in Atoms}
MCConditionPrograms ==
  {IF1(c, p) : c \in ValueOfIf1} \union {WHILE(BINOP("AND", c, d), p) : c \in ValueOfIf1, d \in Atoms}

MCReplies == {<<i, j, k>> : i, j, k \in {0, 1}}
=============================================================================
