----------------------------- MODULE ScopedEnv -----------------------------
(***************************************************************************)
(* What a symbol table promises to the compiler phases that use one        *)
(* (semant.c, trans.c, escape.c, canon.c, liveness.c): a current           *)
(* environment, and a stack of the environments that the open scopes will  *)
(* give back.  Leaving a scope gives back exactly the environment in force *)
(* when it was entered; leaving a scope that was never entered gives back  *)
(* the environment of a fresh table.                                       *)
(*                                                                         *)
(* Nothing here says how: symtab.c keeps one mutable hash table and an     *)
(* undo list (module Symtab), and module SymtabRefinement shows that those *)
(* implement this specification.                                           *)
(***************************************************************************)
EXTENDS Naturals, Sequences

CONSTANTS
  Keys,    \* the identifiers
  Vals,    \* the non-NULL pointers a client stores
  NULL     \* the NULL pointer: stored explicitly, or what a lookup that finds
           \* no bucket returns

VARIABLES
  cur,     \* the environment a lookup reads
  saved    \* the environments the open scopes give back, outermost first

envVars == <<cur, saved>>

Envs == [Keys -> Vals \union {NULL}]

(* The environment of a fresh table. *)
EmptyEnv == [k \in Keys |-> NULL]

EnvTypeOK ==
  /\ cur \in Envs
  /\ saved \in Seq(Envs)

EnvInit ==
  /\ cur = EmptyEnv
  /\ saved = <<>>

Bind(k, v) ==
  /\ cur' = [cur EXCEPT ![k] = v]
  /\ UNCHANGED saved

Enter ==
  /\ saved' = Append(saved, cur)
  /\ UNCHANGED cur

Leave ==
  \/ /\ saved # <<>>
     /\ cur' = saved[Len(saved)]
     /\ saved' = SubSeq(saved, 1, Len(saved) - 1)
  \/ /\ saved = <<>>
     /\ cur' = EmptyEnv
     /\ UNCHANGED saved

EnvNext ==
  \/ \E k \in Keys, v \in Vals \union {NULL} : Bind(k, v)
  \/ Enter
  \/ Leave

EnvSpec == EnvInit /\ [][EnvNext]_envVars
=============================================================================
