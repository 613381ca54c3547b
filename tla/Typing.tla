------------------------------- MODULE Typing -------------------------------
(***************************************************************************)
(* What the language says of the types of a program, up to the kinds that  *)
(* semant.c distinguishes.  A name means what its declaration says it      *)
(* means, there where it is declared: a type is known by the let and the   *)
(* place of its declaration, and there are no placeholders.                *)
(*                                                                         *)
(* A judgement also says what the tree should be given ("notes"), and, as  *)
(* "marks", that the program is ILLEGAL or that semant.c is known not to   *)
(* follow.  A type has a "by" where semant.c hands out the placeholder of  *)
(* its let instead of it.  The marks:                                      *)
(*   NAMED      a placeholder is compared without being resolved, and is   *)
(*              of no other kind than a placeholder;                       *)
(*   ELSEWHERE  a placeholder is resolved where its name means another     *)
(*              type, or none any more;                                    *)
(*   UNKNOWN    a type that is used has no declaration, or is a name for   *)
(*              itself;                                                    *)
(*   ORDER      a let declares a type after a function or a variable;      *)
(*   TWICE      a let declares two functions, two types or a function and  *)
(*              a variable of one name;                                    *)
(*   EMPTY      a let has nothing between in and end;                      *)
(*   NIL        nil where semant.c does not let it pass for a record: as a *)
(*              branch, a function's body, an array's element.             *)
(* This module is not a model of the code: the properties compare with it. *)
(***************************************************************************)
EXTENDS Naturals, SequencesExt, TLC

None == ""    \* no name

Basic(kind) == [kind |-> kind]
Wrong == Basic("WRONG")     \* what is no type; nothing is said of it any more
Compound == {"RECORD", "ARRAY"}

(* A chain: the declarations of the lets around a point, the innermost     *)
(* last.                                                                   *)
Declarations(x, chain) ==
  {i \in DOMAIN Last(chain) : Last(chain)[i].kind = "TYPE" /\ Last(chain)[i].id = x}

Latest(is) == CHOOSE i \in is : \A j \in is : j <= i

(* What a type's name means, Wrong where it means nothing.                 *)
RECURSIVE MeaningFrom(_, _, _)
MeaningFrom(x, chain, seen) ==
  IF chain = <<>>
    THEN IF x = "int" THEN Basic("INT") ELSE IF x = "string" THEN Basic("STRING") ELSE Wrong
  ELSE IF Declarations(x, chain) = {} THEN MeaningFrom(x, Front(chain), {})
  ELSE LET i == Latest(Declarations(x, chain))
           ty == Last(chain)[i].ty
       IN  IF x \in seen THEN Wrong
           ELSE IF ty.kind = "ALIAS" THEN MeaningFrom(ty.of, chain, seen \union {x})
           ELSE [kind |-> ty.kind, chain |-> chain, at |-> i]

Meaning(x, chain) == MeaningFrom(x, chain, {})

Content(ty) == Last(ty.chain)[ty.at].ty

(* The placeholder semant.c has for a name when it has come to the         *)
(* declaration "at" of the innermost let, None where it has the type.      *)
End == 100
RECURSIVE Placeholder(_, _, _)
Placeholder(x, chain, at) ==
  IF chain = <<>> THEN None
  ELSE IF Declarations(x, chain) = {} THEN Placeholder(x, Front(chain), End)
  ELSE LET i == Latest(Declarations(x, chain))
           ty == Last(chain)[i].ty
       IN  IF i >= at THEN x
           ELSE IF ty.kind = "ALIAS" THEN Placeholder(ty.of, chain, i)
           ELSE None

-----------------------------------------------------------------------------
(* A judgement.                                                            *)
J(ty, by, marks, notes) == [ty |-> ty, by |-> by, marks |-> marks, notes |-> notes]
Plainly(ty, marks, notes) == J(ty, None, marks, notes)

If_(condition, mark) == IF condition THEN {mark} ELSE {}

Differ(a, b) == a # Wrong /\ b # Wrong /\ a.kind # b.kind
NilTo(a, b) == a.kind = "RECORD" /\ b.kind = "NIL"

(* Must be of a kind; and a placeholder is of no kind. *)
Needs(j, kind) ==
  If_(Differ(j.ty, Basic(kind)), "ILLEGAL") \union If_(j.by # None, "NAMED")

(* Where semant.c resolves a placeholder it must still have its meaning.   *)
Resolves(j, chain) == If_(j.by # None /\ Meaning(j.by, chain) # j.ty, "ELSEWHERE")

(* What is declared under a name: values, and where. *)
ValueOf(ty, by) == [sort |-> "VAR", ty |-> ty, by |-> by]
FunctionOf(dec, chain, depth) ==
  [sort |-> "FUNC", dec |-> dec, chain |-> chain, depth |-> depth]

Bound(G, x, v) == [G EXCEPT !.vals = (x :> v) @@ G.vals]

(* The type a declaration or an expression names. *)
Named(x, chain, at) ==
  IF x = None THEN Plainly(Basic("VOID"), {}, <<>>)
  ELSE IF Meaning(x, chain) = Wrong THEN Plainly(Wrong, {"UNKNOWN"}, <<>>)
  ELSE J(Meaning(x, chain), Placeholder(x, chain, at), {}, <<>>)

Param(fn, i) == Named(fn.dec.args[i].type, fn.chain, 0)
ResultOf(fn) == Named(fn.dec.type, fn.chain, 0)
Element(ty) == Named(Content(ty).of, ty.chain, ty.at)

FieldsNamed(ty, x) == {i \in DOMAIN Content(ty).fields : Content(ty).fields[i].name = x}
FieldOf(ty, i) == Named(Content(ty).fields[i].type, ty.chain, ty.at)

-----------------------------------------------------------------------------
RECURSIVE Typed(_, _)

Notes(j, k) == j.notes \o k.notes
Marks(j, k) == j.marks \union k.marks

(* A list: each of it, and the last one's type. *)
All(list, G) == FoldLeft(LAMBDA js, e : Append(js, Typed(e, G)), <<>>, list)
MarksOf(js) == UNION {js[i].marks : i \in DOMAIN js}
NotesOf(js) == FlattenSeq([i \in DOMAIN js |-> js[i].notes])

Block(list, G) ==
  LET js == All(list, G)
  IN  J(Last(js).ty, Last(js).by, MarksOf(js), NotesOf(js))

TypedId(e, G) ==
  IF e.id \notin DOMAIN G.vals \/ G.vals[e.id].sort # "VAR" THEN Plainly(Wrong, {"ILLEGAL"}, <<>>)
  ELSE J(G.vals[e.id].ty, G.vals[e.id].by, {}, <<>>)

TypedField(e, G) ==
  LET base == Typed(e.record, G)
      known == base.ty.kind = "RECORD" /\ FieldsNamed(base.ty, e.field) # {}
      field == FieldOf(base.ty, CHOOSE i \in FieldsNamed(base.ty, e.field) : TRUE)
      marks == base.marks \union Resolves(base, G.chain)
      (* Only of an index the tree is given the placeholder. *)
      unresolved == If_(e.record.kind = "INDEX" /\ base.by # None, "NAMED")
  IN  IF ~known THEN Plainly(Wrong, marks \union If_(base.ty # Wrong, "ILLEGAL"), base.notes)
      ELSE J(field.ty, field.by, marks \union unresolved \union field.marks,
             Append(base.notes, [of |-> "FIELD", is |-> "RECORD"]))

TypedIndex(e, G) ==
  LET base == Typed(e.array, G)
      index == Typed(e.index, G)
      element == Element(base.ty)
      marks == Marks(base, index) \union Resolves(base, G.chain) \union Needs(index, "INT")
  IN  IF base.ty.kind # "ARRAY"
        THEN Plainly(Wrong, marks \union If_(base.ty # Wrong, "ILLEGAL"), Notes(base, index))
      ELSE J(element.ty, element.by, marks \union element.marks, Notes(base, index))

(* Two that must be of a kind, where semant.c does not let nil pass for a  *)
(* record.                                                                 *)
Same(a, b) ==
  IF NilTo(a, b) \/ NilTo(b, a) THEN {"NIL"} ELSE If_(Differ(a, b), "ILLEGAL")

(* Two that must be of a kind, or nil for a record. *)
Fits(to, from) ==
  If_(Differ(to.ty, from.ty) /\ ~NilTo(to.ty, from.ty), "ILLEGAL")
    \union If_(to.by # None \/ from.by # None, "NAMED")

TypedAssign(e, G) ==
  LET l == Typed(e.lhs, G)
      r == Typed(e.rhs, G)
  IN  Plainly(Basic("VOID"), Marks(l, r) \union Fits(l, r), Notes(l, r))

TypedIf(e, G) ==
  LET c == Typed(e.cond, G)
      t == Typed(e.then, G)
      f == Typed(e.else_, G)
      marks == Marks(c, t) \union Needs(c, "INT")
      both == Same(t.ty, f.ty) \union If_(t.by # None \/ f.by # None, "NAMED")
  IN  IF e.else_.kind = "NONE" THEN J(t.ty, t.by, marks, Notes(c, t))
      ELSE J(t.ty, t.by, marks \union f.marks \union both, Notes(c, t) \o f.notes)

TypedWhile(e, G) ==
  LET c == Typed(e.cond, G)
      b == Typed(e.body, G)
  IN  Plainly(Basic("VOID"), Marks(c, b) \union Needs(c, "INT"), Notes(c, b))

(* Nothing is said of the body. *)
TypedFor(e, G) ==
  LET i == Typed(e.init, G)
      t == Typed(e.to, G)
  IN  Plainly(Basic("VOID"), Marks(i, t) \union Needs(i, "INT") \union Needs(t, "INT"), Notes(i, t))

TypedBinop(e, G) ==
  LET l == Typed(e.left, G)
      r == Typed(e.right, G)
      equal == If_(Differ(l.ty, r.ty) /\ ~NilTo(l.ty, r.ty) /\ ~NilTo(r.ty, l.ty), "ILLEGAL")
                 \union Resolves(l, G.chain) \union Resolves(r, G.chain)
      numbers == Needs(l, "INT") \union Needs(r, "INT")
      marks == IF e.op = "EQ" THEN equal ELSE numbers
  IN  Plainly(Basic("INT"), Marks(l, r) \union marks, Notes(l, r))

TypedCall(e, G) ==
  LET fn == G.vals[e.id]
      args == All(e.args, G)
      Fit(p, a) ==
        If_(Differ(p.ty, a.ty) /\ ~NilTo(p.ty, a.ty), "ILLEGAL")
          \union If_(a.by # None, "NAMED") \union Resolves(p, G.chain) \union p.marks
      fits == UNION {Fit(Param(fn, i), args[i]) : i \in DOMAIN args \intersect DOMAIN fn.dec.args}
      result == ResultOf(fn)
  IN  IF e.id \notin DOMAIN G.vals \/ fn.sort # "FUNC" THEN Plainly(Wrong, {"ILLEGAL"}, <<>>)
      ELSE J(result.ty, result.by,
             MarksOf(args) \union fits \union result.marks
               \union If_(Len(args) # Len(fn.dec.args), "ILLEGAL"),
             Append(NotesOf(args), [of |-> "CALL", is |-> fn.depth]))

(* Fields may be missing, unknown or nil. *)
TypedRecord(e, G) ==
  LET t == Named(e.type, G.chain, End)
      js == All([i \in DOMAIN e.fields |-> e.fields[i].val], G)
      Fit(i) == LET f == FieldOf(t.ty, CHOOSE k \in FieldsNamed(t.ty, e.fields[i].name) : TRUE)
                IN  If_(Differ(f.ty, js[i].ty) /\ js[i].ty.kind # "NIL", "ILLEGAL")
                      \union Resolves(f, G.chain) \union Resolves(js[i], G.chain) \union f.marks
      known == {i \in DOMAIN js : FieldsNamed(t.ty, e.fields[i].name) # {}}
      fits == UNION {Fit(i) : i \in known} \union If_(t.by # None, "NAMED")
  IN  IF t.ty.kind # "RECORD" THEN Plainly(Wrong, {"ILLEGAL"}, <<>>)
      ELSE Plainly(t.ty, MarksOf(js) \union fits, NotesOf(js))

TypedArray(e, G) ==
  LET t == Named(e.type, G.chain, End)
      s == Typed(e.size, G)
      i == Typed(e.init, G)
      element == Element(t.ty)
      fits == Same(element.ty, i.ty)
                \union If_({element.by, i.by, t.by} # {None}, "NAMED")
                \union element.marks
  IN  IF t.ty.kind # "ARRAY" THEN Plainly(Wrong, {"ILLEGAL"} \union Marks(s, i), <<>>)
      ELSE Plainly(t.ty, Marks(s, i) \union Needs(s, "INT") \union fits, Notes(s, i))

-----------------------------------------------------------------------------
(* Declarations: what is known after them (G), marks and notes. *)
D(G, marks, notes) == [G |-> G, marks |-> marks, notes |-> notes]

DeclareFunc(dec, d) ==
  LET G == d.G
      fn == FunctionOf(dec, G.chain, G.depth + 1)
      params == [i \in DOMAIN dec.args |-> Param(fn, i)]
      Arg(env, i) == Bound(env, dec.args[i].name, ValueOf(params[i].ty, params[i].by))
      inside == FoldLeft(Arg, [G EXCEPT !.depth = @ + 1], [i \in DOMAIN dec.args |-> i])
      body == Typed(dec.body, inside)
      ret == ResultOf(fn)
      returns == Same(ret.ty, body.ty) \union If_({ret.by, body.by} # {None}, "NAMED")
  IN  D(G, d.marks \union MarksOf(params) \union Marks(ret, body) \union returns,
        d.notes \o body.notes)

DeclareVar(dec, d) ==
  LET init == Typed(dec.init, d.G)
      declared == Named(dec.type, d.G.chain, End)
      v == IF dec.type = None THEN init ELSE declared
  IN  D(Bound(d.G, dec.id, ValueOf(v.ty, v.by)),
        d.marks \union init.marks
          \union IF dec.type = None THEN {} ELSE declared.marks \union Fits(declared, init),
        d.notes \o init.notes)

DeclareType(dec, d) ==
  LET wrong == dec.ty.kind = "ALIAS" /\ Meaning(dec.ty.of, d.G.chain) = Wrong
  IN  D(d.G, d.marks \union If_(wrong, "UNKNOWN"), d.notes)

Declare(d, dec) ==
  CASE dec.kind = "FUNC" -> DeclareFunc(dec, d)
    [] dec.kind = "VAR"  -> DeclareVar(dec, d)
    [] dec.kind = "TYPE" -> DeclareType(dec, d)

(* Types come first in a let, and no two functions, no function and        *)
(* variable, no two types of a let have one name.                          *)
Unordered(decs) ==
  \E i, j \in DOMAIN decs : i < j /\ decs[i].kind # "TYPE" /\ decs[j].kind = "TYPE"

Twice(decs) ==
  \E i, j \in DOMAIN decs :
    /\ i # j /\ decs[i].id = decs[j].id
    /\ decs[i].kind = decs[j].kind => decs[i].kind # "VAR"
    /\ decs[i].kind = "TYPE" <=> decs[j].kind = "TYPE"

TypedLet(e, G) ==
  LET chain == Append(G.chain, e.decs)
      Header(env, dec) ==
        IF dec.kind = "FUNC" THEN Bound(env, dec.id, FunctionOf(dec, chain, G.depth + 1)) ELSE env
      headers == FoldLeft(Header, [G EXCEPT !.chain = chain], e.decs)
      d == FoldLeft(Declare, D(headers, {}, <<>>), e.decs)
      marks == d.marks \union If_(Unordered(e.decs), "ORDER") \union If_(Twice(e.decs), "TWICE")
      body == Block(e.list, d.G)
  IN  IF e.list = <<>> THEN Plainly(Wrong, marks \union {"EMPTY"}, d.notes)
      ELSE J(body.ty, body.by, marks \union body.marks, d.notes \o body.notes)

Typed(e, G) ==
  CASE e.kind = "INT"    -> Plainly(Basic("INT"), {}, <<>>)
    [] e.kind = "STRING" -> Plainly(Basic("STRING"), {}, <<>>)
    [] e.kind = "NIL"    -> Plainly(Basic("NIL"), {}, <<>>)
    [] e.kind = "ID"     -> TypedId(e, G)
    [] e.kind = "FIELD"  -> TypedField(e, G)
    [] e.kind = "INDEX"  -> TypedIndex(e, G)
    [] e.kind = "ASSIGN" -> TypedAssign(e, G)
    [] e.kind = "IF"     -> TypedIf(e, G)
    [] e.kind = "WHILE"  -> TypedWhile(e, G)
    [] e.kind = "FOR"    -> TypedFor(e, G)
    [] e.kind = "CALL"   -> TypedCall(e, G)
    [] e.kind = "SEQ"    -> IF e.list # <<>> THEN Block(e.list, G)
                              ELSE Plainly(Basic("VOID"), {}, <<>>)
    [] e.kind = "LET"    -> TypedLet(e, G)
    [] e.kind = "BINOP"  -> TypedBinop(e, G)
    [] e.kind = "RECORD" -> TypedRecord(e, G)
    [] e.kind = "ARRAY"  -> TypedArray(e, G)

(* The functions every program may call. *)
Library ==
  LET F(f, types, type) ==
        [id |-> f, args |-> [i \in DOMAIN types |-> [name |-> None, type |-> types[i]]],
         type |-> type]
      s == "string"
      i == "int"
  IN  [print |-> F("print", <<s>>, None), flush |-> F("flush", <<>>, None),
       getchar |-> F("getchar", <<>>, s), ord |-> F("ord", <<s>>, i),
       chr |-> F("chr", <<i>>, s), size |-> F("size", <<s>>, i), not |-> F("not", <<i>>, i),
       exit |-> F("exit", <<i>>, None), concat |-> F("concat", <<s, s>>, s),
       substring |-> F("substring", <<s, i, i>>, s)]

Base ==
  [chain |-> <<>>, depth |-> 0,
   vals |-> [f \in DOMAIN Library |-> FunctionOf(Library[f], <<>>, 0)]]

Judgement(program) == Typed(program, Base)
=============================================================================
