----------------------------- MODULE StaticLink -----------------------------
(***************************************************************************)
(* How a running function finds the activations around it.  A nested       *)
(* function gets a static link, the frame pointer of the activation of the *)
(* function it is declared in, and keeps it at fp - 8.  trans.c compiles a *)
(* call, or the use of a variable of an outer function, into a number of   *)
(* loads along these links, the difference of two depths: one of trans.c's *)
(* frame, the other left in the tree by semant.c, which counts on a walk   *)
(* of its own (a call), or kept in the variable's access (a use).          *)
(*                                                                         *)
(* First the program is made up: both walks of it in step, function by     *)
(* function.  Then it runs: any call and any access a body may contain,    *)
(* one load per step.  Each activation also carries, as the program text   *)
(* means it, the list of activations around it (lex), which the code does  *)
(* not have.                                                               *)
(*                                                                         *)
(* codegen.c writes no entry code for functions yet: that the first actual *)
(* of a call is stored at the callee's fp - 8, the place frame_new keeps   *)
(* for it, is taken from frame_exp, which loads it there.  The built-in    *)
(* functions (depth 0, no link, no calls) and calls in the body of a FOR,  *)
(* which semant.c does not visit, are left out.                            *)
(***************************************************************************)
EXTENDS Integers, Sequences

CONSTANTS
  MaxFuncs,   \* bounds of the model: functions of the program, _main included,
  MaxActs     \* and activations at one time

ASSUME BoundsAssumption == MaxFuncs \in Nat \ {0} /\ MaxActs \in Nat \ {0}

VARIABLES
  phase,          \* "compile", then "run"
  open,           \* the functions around the present point, _main first
  func,           \* the functions entered so far
  current_depth,  \* of semant.c
  acts,           \* the activations, the running one last
  walk            \* the loads under way

vars == <<phase, open, func, current_depth, acts, walk>>

Main == 1
Funcs == 1 .. MaxFuncs

(* A function: depth of its entry in venv (env_entry_t), depth of its      *)
(* frame_t, whether its body was begun, the functions around it and itself *)
(* in the program text, and those its body may call.                       *)
Function ==
  [entry : Nat, depth : Nat, begun : BOOLEAN, path : Seq(Funcs), sees : SUBSET Funcs]

(* An activation: its function, the link at fp - 8 (0 where there is       *)
(* none), and the activations around it with itself.                       *)
Activation == [fn : Funcs, link : 0 .. MaxActs, lex : Seq(1 .. MaxActs)]

Idle == [for |-> "NOTHING", of |-> Main, ptr |-> 1, left |-> 0]

TypeOK ==
  /\ phase \in {"compile", "run"}
  /\ open \in Seq(Funcs) /\ open # <<>>
  /\ func \in Seq(Function) /\ Len(func) \in Funcs
  /\ current_depth \in Nat
  /\ acts \in Seq(Activation) /\ Len(acts) <= MaxActs
  /\ phase = "run" => acts # <<>>
  /\ walk \in [for : {"NOTHING", "CALL", "ACCESS"}, of : Funcs, ptr : 1 .. MaxActs, left : Nat]
  /\ walk.for # "NOTHING" => walk.ptr \in DOMAIN acts /\ walk.of \in DOMAIN func

-----------------------------------------------------------------------------
(* main.c: the frame of _main has depth 0. *)
Init ==
  /\ phase = "compile"
  /\ open = <<Main>>
  /\ func = <<[entry |-> 0, depth |-> 0, begun |-> TRUE, path |-> <<Main>>, sees |-> {}]>>
  /\ current_depth = 0
  /\ acts = <<>>
  /\ walk = Idle

Inner == open[Len(open)]
Nesting(f) == Len(func[f].path)
Parent(f) == func[f].path[Nesting(f) - 1]

(* semant.c enters all functions of a LET before it goes into any.  (Where *)
(* the LET ends is not modelled: it might as well end with the body it is  *)
(* in.)                                                                    *)
trans_dec_header ==
  /\ phase = "compile"
  /\ Len(func) < MaxFuncs
  /\ func' = Append(func,
       [entry |-> current_depth + 1, depth |-> 0, begun |-> FALSE,
        path |-> Append(open, Len(func) + 1), sees |-> {}])
  /\ UNCHANGED <<phase, open, current_depth, acts, walk>>

(* Both go into the body: trans_dec counts one deeper, tr_dec makes the    *)
(* frame.                                                                  *)
BeginBody(f) ==
  /\ phase = "compile"
  /\ f # Main /\ ~func[f].begun
  /\ Parent(f) = Inner
  /\ open' = Append(open, f)
  /\ current_depth' = current_depth + 1
  /\ func' = [func EXCEPT ![f].begun = TRUE, ![f].depth = func[Inner].depth + 1]
  /\ UNCHANGED <<phase, acts, walk>>

(* The functions whose entries venv has at the end of the body. *)
Visible ==
  {g \in DOMAIN func : g # Main /\ \E i \in DOMAIN open : Parent(g) = open[i]}

(* Faulty variant: the depth is not given back. *)
EndBodyDepthKept ==
  /\ phase = "compile"
  /\ Len(open) > 1
  /\ \A g \in DOMAIN func \ {Main} : Parent(g) = Inner => func[g].begun
  /\ open' = SubSeq(open, 1, Len(open) - 1)
  /\ func' = [func EXCEPT ![Inner].sees = Visible]
  /\ UNCHANGED <<phase, current_depth, acts, walk>>

EndBody ==
  /\ phase = "compile"
  /\ Len(open) > 1
  /\ \A g \in DOMAIN func \ {Main} : Parent(g) = Inner => func[g].begun
  /\ open' = SubSeq(open, 1, Len(open) - 1)
  /\ current_depth' = current_depth - 1
  /\ func' = [func EXCEPT ![Inner].sees = Visible]
  /\ UNCHANGED <<phase, acts, walk>>

(* The end of the program text; it begins to run. *)
Run ==
  /\ phase = "compile"
  /\ open = <<Main>>
  /\ \A g \in DOMAIN func : func[g].begun
  /\ phase' = "run"
  /\ func' = [func EXCEPT ![Main].sees = Visible]
  /\ acts' = <<[fn |-> Main, link |-> 0, lex |-> <<1>>]>>
  /\ UNCHANGED <<open, current_depth, walk>>

-----------------------------------------------------------------------------
Top == Len(acts)
Running == func[acts[Top].fn]

(* A loop "for (i = 0; i < hops; i++)" makes this many rounds. *)
Rounds(hops) == IF hops > 0 THEN hops ELSE 0

(* Faulty variants: the callee's own depth instead of its parent's; one    *)
(* link too few.                                                           *)
CallHopsToCallee(g) == Rounds(Running.depth - func[g].entry)
AccessHopsTooFew(h) == Rounds(Running.depth - func[h].depth - 1)

(* EXPR_CALL: from the caller's frame to that of the callee's parent. *)
CallHops(g) == Rounds(Running.depth - (func[g].entry - 1))

(* frame_exp: from the user's frame to that of the access. *)
AccessHops(h) == Rounds(Running.depth - func[h].depth)

(* The link is computed before the other actuals. *)
BeginCall(g) ==
  /\ phase = "run" /\ walk = Idle
  /\ g \in Running.sees
  /\ Top < MaxActs
  /\ walk' = [for |-> "CALL", of |-> g, ptr |-> Top, left |-> CallHops(g)]
  /\ UNCHANGED <<phase, open, func, current_depth, acts>>

(* The use of a variable in memory that function h declares. *)
BeginAccess(h) ==
  /\ phase = "run" /\ walk = Idle
  /\ \E i \in DOMAIN Running.path : Running.path[i] = h
  /\ walk' = [for |-> "ACCESS", of |-> h, ptr |-> Top, left |-> AccessHops(h)]
  /\ UNCHANGED <<phase, open, func, current_depth, acts>>

(* One load from fp - 8. *)
Hop ==
  /\ walk.left > 0
  /\ walk' = [walk EXCEPT !.ptr = acts[walk.ptr].link, !.left = walk.left - 1]
  /\ UNCHANGED <<phase, open, func, current_depth, acts>>

(* Which activation the call or the variable is one of: the caller's       *)
(* surroundings, as far in as the function that declares the name.         *)
Level == IF walk.for = "CALL" THEN Nesting(walk.of) - 1 ELSE Nesting(walk.of)
Meant == acts[Top].lex[Level]

(* The callee starts with the pointer as its link. *)
EndCall ==
  /\ walk.for = "CALL" /\ walk.left = 0
  /\ acts' = Append(acts,
       [fn |-> walk.of, link |-> walk.ptr, lex |-> Append(acts[Meant].lex, Top + 1)])
  /\ walk' = Idle
  /\ UNCHANGED <<phase, open, func, current_depth>>

EndAccess ==
  /\ walk.for = "ACCESS" /\ walk.left = 0
  /\ walk' = Idle
  /\ UNCHANGED <<phase, open, func, current_depth, acts>>

Return ==
  /\ phase = "run" /\ walk = Idle
  /\ Top > 1
  /\ acts' = SubSeq(acts, 1, Top - 1)
  /\ UNCHANGED <<phase, open, func, current_depth, walk>>

Next ==
  \/ trans_dec_header \/ EndBody \/ Run
  \/ \E f \in DOMAIN func : BeginBody(f) \/ BeginCall(f) \/ BeginAccess(f)
  \/ Hop \/ EndCall \/ EndAccess \/ Return

Spec == Init /\ [][Next]_vars

-----------------------------------------------------------------------------
(* semant.c and trans.c, counting on two walks, come to the same depth for *)
(* every function, and it is how deep the program text nests it.           *)
DepthsAgree ==
  \A f \in DOMAIN func :
    /\ func[f].entry = Nesting(f) - 1
    /\ func[f].begun => func[f].depth = Nesting(f) - 1

(* Every activation of a nested function is linked to the activation of    *)
(* the function around it in which it was called by name, not to another   *)
(* one of the same function, and that activation has not returned          *)
(* (EXPR_CALL's actuals[0]).                                               *)
LinksMeant ==
  \A a \in DOMAIN acts :
    acts[a].fn # Main =>
      LET around == acts[a].lex
      IN  /\ acts[a].link = around[Len(around) - 1]
          /\ acts[a].link < a
          /\ acts[acts[a].link].fn = Parent(acts[a].fn)

(* When the loads are done they have come to the activation whose variable *)
(* or function is meant, through any recursion of the functions between    *)
(* (EXPR_CALL, frame_exp).                                                 *)
ReachesMeant == walk.for # "NOTHING" /\ walk.left = 0 => walk.ptr = Meant
=============================================================================
