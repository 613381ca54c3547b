----------------------------- MODULE MCLiveness -----------------------------
(***************************************************************************)
(* Lists of four instructions over two temporaries and two labels.  The    *)
(* temporaries are 1 and 3, which are the same bit of two words when a     *)
(* word has two.                                                           *)
(*                                                                         *)
(* The passes that run are those on words.  in and out only follow: they   *)
(* are what is on in the words, so that what Liveness says of its sets is  *)
(* checked of the words.                                                   *)
(***************************************************************************)
EXTENDS Liveness, LivenessBits

t1 == 1
t2 == 3

MCTemps == {t1, t2}
MCLabels == 1 .. 2
MCNoLabel == 0

Plain(use, def) ==
  [use |-> use, def |-> def, label |-> MCNoLabel, jump |-> MCNoLabel, cond |-> FALSE]

Kinds ==
  {Plain({}, {t1}), Plain({t1}, {}), Plain({t1, t2}, {t1}), Plain({t1}, {t2}), Plain({t2}, {})}
  \union {[Plain({}, {}) EXCEPT !.label = l] : l \in MCLabels}
  \union {[Plain({}, {}) EXCEPT !.jump = l, !.cond = c] : l \in MCLabels, c \in BOOLEAN}

(* A label stands in one place, and a jump goes to a label of the list.    *)
MCPrograms ==
  {p \in [1 .. 4 -> Kinds] :
     /\ \A i, j \in 1 .. 4 : p[i].label = p[j].label /\ p[i].label # MCNoLabel => i = j
     /\ \A i \in 1 .. 4 : p[i].jump # MCNoLabel => \E j \in 1 .. 4 : p[j].label = p[i].jump}

MCInit == BitInit /\ in = In /\ out = Out

MCNext == BitNext /\ in' = In' /\ out' = Out'

(* Sequential code: once called, it runs. *)
MCSpec == MCInit /\ [][MCNext]_<<bitVars, in, out>> /\ WF_bitVars(MCNext)
=============================================================================
