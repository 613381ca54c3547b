------------------------------ MODULE MCTables ------------------------------
(***************************************************************************)
(* What all passes of the compiler keep their names and places in, for     *)
(* TLC: a small symbol table (three keys, two of them colliding), a few    *)
(* frames, variables and temporaries, and a few labels.  They share no     *)
(* variable, not even the two halves of temp.c, so a run goes on with one  *)
(* of them only.                                                           *)
(***************************************************************************)
EXTENDS SymtabRefinement, Frame, LabelTable, TLC

CONSTANTS k1, k2, k3, v1

MCKeys == {k1, k2, k3}
MCVals == {v1}
MCSize == 2
MCHash == (k1 :> 0) @@ (k2 :> 0) @@ (k3 :> 1)

(* A function of the program, and one that is called what label 1 is.      *)
MCNames == {<<"f">>, Numbered(1)}

(* The six argument registers behave alike; which are taken matters no     *)
(* more than how many, so runs only look at states that take the first     *)
(* ones first.                                                             *)
ArgRegsInOrder ==
  \A i \in 1 .. 5 : regs[i] # REG_TBD => regs[i - 1] # REG_TBD

MCInit == HInit /\ FrameInit /\ TableInit

MCNext ==
  \/ HNext /\ FrameInit /\ TableInit /\ UNCHANGED <<frameVars, tableVars>>
  \/ FrameNext /\ ArgRegsInOrder' /\ HInit /\ TableInit /\ UNCHANGED <<hvars, tableVars>>
  \/ TableNext /\ HInit /\ FrameInit /\ UNCHANGED <<hvars, frameVars>>

(* Of fairness only what FairSpec of Symtab has, the loop of               *)
(* symtab_exit_scope; the history variable of HNext restricts no step of   *)
(* it.                                                                     *)
MCSpec ==
  MCInit /\ [][MCNext]_<<hvars, frameVars, tableVars>> /\ WF_hvars(HUndo \/ HEnd)
=============================================================================
