------------------------------- MODULE Escape -------------------------------
(***************************************************************************)
(* Which variables get a place in memory.  find_escape (escape.c) walks    *)
(* the program and sets the escape flag of a variable that a nested        *)
(* function uses; tr_expr (trans.c) walks it again, puts a variable        *)
(* without the flag in a temporary of its function, and resolves every use *)
(* in an environment of its own.  A variable whose use trans.c finds in a  *)
(* nested function must therefore have been found there by escape.c, and   *)
(* the two keep their scopes differently: escape.c opens none for a FOR,   *)
(* and binds the variable of a DEC_VAR before its initialiser.             *)
(*                                                                         *)
(* Both walks visit the same constructs, here made up one by one: an       *)
(* action is a construct that both enter, leave or pass.  Their symbol     *)
(* tables are ScopedEnv, which module SymtabRefinement shows they are.     *)
(***************************************************************************)
EXTENDS Naturals, Sequences

CONSTANTS
  Names,     \* identifiers of variables
  NULL,      \* what a lookup without success returns
  Shadows,   \* the kinds of variable that may take a name either walk has
             \* bound already
  MaxVars,   \* bounds of the model: variables of the program,
  MaxOpen    \* and constructs around one of them

Kinds == {"VAR", "FOR", "PARAM"}

ASSUME ShadowsAssumption == Shadows \subseteq Kinds
ASSUME BoundsAssumption == MaxVars \in Nat /\ MaxOpen \in Nat
ASSUME NullAssumption == NULL \notin 1 .. MaxVars

VARIABLES
  open,      \* the constructs around the present point, the innermost last
  escCur, escSaved,  \* escape.c's escenv
  accCur, accSaved,  \* trans.c's aenv
  var,       \* the variables declared so far: name, depth and escape flag
  captured   \* those trans.c resolved a use in a nested function to

vars == <<open, escCur, escSaved, accCur, accSaved, var, captured>>

Esc == INSTANCE ScopedEnv
         WITH cur <- escCur, saved <- escSaved, Keys <- Names, Vals <- 1 .. MaxVars
Acc == INSTANCE ScopedEnv
         WITH cur <- accCur, saved <- accSaved, Keys <- Names, Vals <- 1 .. MaxVars

(* A construct: what comes next in it, its depth (escape.c's argument and  *)
(* the depth of trans.c's frame), and the variable it declares, or NULL.   *)
Construct ==
  [of : {"MAIN", "LET", "VAR", "FUNC", "FOR"}, next : {"DECS", "PARAMS", "EXPR"},
   depth : Nat, v : 1 .. MaxVars \union {NULL}]

TypeOK ==
  /\ open \in Seq(Construct) /\ open # <<>>
  /\ Esc!EnvTypeOK
  /\ Acc!EnvTypeOK
  /\ var \in Seq([name : Names, depth : Nat, escape : BOOLEAN])
  /\ captured \subseteq DOMAIN var

-----------------------------------------------------------------------------
(* find_escape and main: an empty environment with one scope open. *)
Init ==
  /\ open = <<[of |-> "MAIN", next |-> "EXPR", depth |-> 0, v |-> NULL]>>
  /\ escCur = Esc!EmptyEnv /\ escSaved = <<Esc!EmptyEnv>>
  /\ accCur = Acc!EmptyEnv /\ accSaved = <<Acc!EmptyEnv>>
  /\ var = <<>>
  /\ captured = {}

Inner == open[Len(open)]
At(next) == Inner.next = next

Open(of, next, depth, v) ==
  /\ Len(open) < MaxOpen
  /\ open' = Append(open, [of |-> of, next |-> next, depth |-> depth, v |-> v])

Close == open' = SubSeq(open, 1, Len(open) - 1)

GoOn(next) == open' = [open EXCEPT ![Len(open)].next = next]

(* A new variable, with its flag off. *)
Declare(x, kind, depth) ==
  /\ Len(var) < MaxVars
  /\ kind \in Shadows \/ (accCur[x] = NULL /\ escCur[x] = NULL)
  /\ var' = Append(var, [name |-> x, depth |-> depth, escape |-> FALSE])
  /\ UNCHANGED captured

New == Len(var) + 1

(* EXPR_LET: both open a scope for the declarations and the body. *)
EnterLet ==
  /\ At("EXPR")
  /\ Open("LET", "DECS", Inner.depth, NULL)
  /\ Esc!Enter /\ Acc!Enter
  /\ UNCHANGED <<var, captured>>

LetBody ==
  /\ At("DECS")
  /\ GoOn("EXPR")
  /\ UNCHANGED <<escCur, escSaved, accCur, accSaved, var, captured>>

LeaveLet ==
  /\ Inner.of = "LET" /\ At("EXPR")
  /\ Close
  /\ Esc!Leave /\ Acc!Leave
  /\ UNCHANGED <<var, captured>>

(* DEC_VAR: escape.c binds the variable before it walks the initialiser,   *)
(* trans.c after.                                                          *)
BeginVar(x) ==
  /\ At("DECS")
  /\ Declare(x, "VAR", Inner.depth)
  /\ Open("VAR", "EXPR", Inner.depth, New)
  /\ Esc!Bind(x, New)
  /\ UNCHANGED <<accCur, accSaved>>

EndVar ==
  /\ Inner.of = "VAR"
  /\ Close
  /\ Acc!Bind(var[Inner.v].name, Inner.v)
  /\ UNCHANGED <<escCur, escSaved, var, captured>>

(* DEC_FUNC: both open a scope for the parameters and the body, one deeper. *)
EnterFunc ==
  /\ At("DECS")
  /\ Open("FUNC", "PARAMS", Inner.depth + 1, NULL)
  /\ Esc!Enter /\ Acc!Enter
  /\ UNCHANGED <<var, captured>>

Param(x) ==
  /\ At("PARAMS")
  /\ Declare(x, "PARAM", Inner.depth)
  /\ Esc!Bind(x, New) /\ Acc!Bind(x, New)
  /\ UNCHANGED open

FuncBody ==
  /\ At("PARAMS")
  /\ GoOn("EXPR")
  /\ UNCHANGED <<escCur, escSaved, accCur, accSaved, var, captured>>

LeaveFunc ==
  /\ Inner.of = "FUNC" /\ At("EXPR")
  /\ Close
  /\ Esc!Leave /\ Acc!Leave
  /\ UNCHANGED <<var, captured>>

(* EXPR_FOR: trans.c opens a scope for the variable, escape.c does not. *)
BeginFor(x) ==
  /\ At("EXPR")
  /\ Declare(x, "FOR", Inner.depth)
  /\ Open("FOR", "EXPR", Inner.depth, New)
  /\ Esc!Bind(x, New)
  /\ accSaved' = Append(accSaved, accCur)
  /\ accCur' = [accCur EXCEPT ![x] = New]

EndFor ==
  /\ Inner.of = "FOR"
  /\ Close
  /\ Acc!Leave
  /\ UNCHANGED <<escCur, escSaved, var, captured>>

(* Faulty variants: a use from the next inner function does not count; a   *)
(* use in the variable's own function does.                                *)
UseTwoDeeper(x) ==
  /\ At("EXPR")
  /\ accCur[x] # NULL
  /\ LET e == escCur[x]
     IN  var' = IF e # NULL /\ var[e].depth + 1 < Inner.depth
                  THEN [var EXCEPT ![e].escape = TRUE]
                  ELSE var
  /\ captured' = IF var[accCur[x]].depth < Inner.depth
                   THEN captured \union {accCur[x]}
                   ELSE captured
  /\ UNCHANGED <<open, escCur, escSaved, accCur, accSaved>>

UseAnywhere(x) ==
  /\ At("EXPR")
  /\ accCur[x] # NULL
  /\ LET e == escCur[x]
     IN  var' = IF e # NULL THEN [var EXCEPT ![e].escape = TRUE] ELSE var
  /\ captured' = IF var[accCur[x]].depth < Inner.depth
                   THEN captured \union {accCur[x]}
                   ELSE captured
  /\ UNCHANGED <<open, escCur, escSaved, accCur, accSaved>>

(* EXPR_ID: escape.c flags the variable it finds when that is an outer     *)
(* function's; trans.c finds one, since semant.c let the program through.  *)
Use(x) ==
  /\ At("EXPR")
  /\ accCur[x] # NULL
  /\ LET e == escCur[x]
     IN  var' = IF e # NULL /\ var[e].depth < Inner.depth
                  THEN [var EXCEPT ![e].escape = TRUE]
                  ELSE var
  /\ captured' = IF var[accCur[x]].depth < Inner.depth
                   THEN captured \union {accCur[x]}
                   ELSE captured
  /\ UNCHANGED <<open, escCur, escSaved, accCur, accSaved>>

Next ==
  \/ EnterLet \/ LetBody \/ LeaveLet
  \/ EnterFunc \/ FuncBody \/ LeaveFunc
  \/ EndVar \/ EndFor
  \/ \E x \in Names : BeginVar(x) \/ Param(x) \/ BeginFor(x) \/ Use(x)

Spec == Init /\ [][Next]_vars

-----------------------------------------------------------------------------
(* A variable accessed from a nested function has escaped, or frame_exp    *)
(* would name a temporary of another function's activation (escape_expr    *)
(* EXPR_ID against tr_var; escape_test.c states it of var, param and for). *)
CapturedEscapes == \A v \in captured : var[v].escape

(* A variable accessed only in its own function has not escaped. *)
OnlyCapturedEscapes == \A v \in DOMAIN var : var[v].escape => v \in captured
=============================================================================
