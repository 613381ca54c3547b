-------------------------- MODULE SymtabRefinement --------------------------
(***************************************************************************)
(* The symbol table implements ScopedEnv.  A history variable remembers    *)
(* where in the undo list the marks are, outermost first; it reads the     *)
(* state and never constrains it, so the table's own steps are unchanged.  *)
(*                                                                         *)
(* The refinement mapping reads the saved environments back out of the     *)
(* undo list: a scope gives back EnvAt(the position of its mark).  A call  *)
(* of symtab_exit_scope takes its abstract effect when it begins; the      *)
(* rounds of its loop, which restore one bucket each, are stuttering steps *)
(* of the abstract specification.                                          *)
(***************************************************************************)
EXTENDS Symtab

VARIABLE marks   \* the positions of the marks in undo, outermost first

hvars == <<heap, chain, undo, pc, marks>>

HInit == Init /\ marks = <<>>

HInsert(k, v) == symtab_insert(k, v) /\ UNCHANGED marks

HEnter ==
  /\ symtab_enter_scope
  /\ marks' = Append(marks, Len(undo) + 1)

HBegin == BeginExit /\ UNCHANGED marks

HUndo == UndoStep /\ UNCHANGED marks

HEnd ==
  /\ EndExit
  /\ marks' = IF undo = <<>> THEN marks ELSE SubSeq(marks, 1, Len(marks) - 1)

HNext ==
  \/ \E k \in Keys, v \in Vals \union {NULL} : HInsert(k, v)
  \/ HEnter
  \/ HBegin
  \/ HUndo
  \/ HEnd

HSpec == HInit /\ [][HNext]_hvars

(* The history variable lists exactly the marks, in order. *)
MarksOK ==
  /\ marks \in Seq(Nat \ {0})
  /\ \A i \in DOMAIN marks : marks[i] \in DOMAIN undo /\ undo[marks[i]].is_mark
  /\ \A i, j \in DOMAIN marks : i < j => marks[i] < marks[j]
  /\ \A p \in DOMAIN undo : undo[p].is_mark => \E i \in DOMAIN marks : marks[i] = p

-----------------------------------------------------------------------------
(* The length of the undo list just below the innermost mark. *)
Bottom == IF marks = <<>> THEN 0 ELSE marks[Len(marks)]

(* While symtab_exit_scope runs, its scope is already left. *)
curBar == IF pc = "exit" THEN EnvAt(Bottom) ELSE EnvAt(Len(undo))

OpenScopes ==
  IF pc = "exit" /\ marks # <<>> THEN Len(marks) - 1 ELSE Len(marks)

savedBar == [i \in 1 .. OpenScopes |-> EnvAt(marks[i])]

Env == INSTANCE ScopedEnv WITH cur <- curBar, saved <- savedBar

(* Scopes nest: whatever is inserted, overwritten and shadowed inside one, *)
(* through colliding keys and stored NULLs, leaving it gives back exactly  *)
(* the environment it was entered with (symtab_insert, symtab_exit_scope). *)
ImplementsScopedEnv == Env!EnvSpec

(* Between calls the environment of the mapping is the one a client reads  *)
(* through symtab_lookup.                                                  *)
LookupReadsEnv == pc = "idle" => \A k \in Keys : symtab_lookup(k) = curBar[k]
=============================================================================
