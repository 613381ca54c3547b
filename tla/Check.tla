------------------------------- MODULE Check -------------------------------
(***************************************************************************)
(* main.c's semantic analysis of a program: the base environments, the     *)
(* walk of module Semant, and what main reads of it.                       *)
(***************************************************************************)
EXTENDS Semant

CONSTANT Programs   \* the syntax trees the parser may leave

VARIABLES
  program,
  outcome    \* what the walk came to, NONE before it

vars == <<program, outcome>>

L == INSTANCE Typing

NONE == [kind |-> "NONE"]

Init ==
  /\ program \in Programs
  /\ outcome = NONE

(* semant_base_tenv, semant_base_venv, trans_expr. *)
Analyse ==
  /\ outcome = NONE
  /\ LET r == trans_expr(program, Walk0)
     IN  outcome' = [ty |-> r.ty, errors |-> r.w.errors, stop |-> r.w.stop, notes |-> r.w.notes]
  /\ UNCHANGED program

Next == Analyse

Spec == Init /\ [][Next]_vars

-----------------------------------------------------------------------------
Finished == outcome # NONE
Accepted == Finished /\ outcome.stop = "NO" /\ outcome.errors = 0
Judgement == L!Judgement(program)

(* The compiler goes on with a program exactly when the language allows    *)
(* it, and it then has the type the language gives it - where nothing is   *)
(* marked: no placeholder of a recursive or renamed type is where          *)
(* semant.c does not resolve it, types come before functions and variables *)
(* in a let, no name is declared twice in it, its body is not empty        *)
(* (trans_expr, trans_dec; the marks are explained in Typing).             *)
Verdict ==
  Finished =>
    LET j == Judgement
    IN  j.marks \subseteq {"ILLEGAL"} =>
          /\ Accepted <=> j.marks = {}
          /\ Accepted /\ j.by = L!None => outcome.ty.kind = j.ty.kind

(* Whatever errors a program has, the walk comes to its end, reads no NULL *)
(* and takes nothing for what it is not, unless a type that is used is     *)
(* unknown, a placeholder has lost its meaning, or one of the other marks  *)
(* is set (actual_ty, trans_dec's second lookup of a function's name).     *)
NeverUndefined ==
  Finished /\ outcome.stop # "NO" =>
    Judgement.marks \intersect {"UNKNOWN", "ELSEWHERE", "ORDER", "TWICE", "EMPTY"} # {}

(* What trans.c reads of the tree of an accepted program is what the       *)
(* program text means, whatever is marked: each call has the depth of the  *)
(* function it calls, and a field is taken from what is known to be a      *)
(* record (EXPR_CALL, trans_var).                                          *)
TreeAnnotated ==
  Accepted => outcome.notes = Judgement.notes
=============================================================================
