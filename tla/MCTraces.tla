------------------------------ MODULE MCTraces ------------------------------
(***************************************************************************)
(* Statement lists with three labels and every choice of jumps and fall-   *)
(* throughs between them, the second block with or without a statement, in *)
(* front of them nothing, or an unlabelled beginning.  The two labels of a *)
(* CJUMP may be the same: un_nx patches both with one.                     *)
(***************************************************************************)
EXTENDS Traces

MCLabels == 1 .. 3
MCStart == 4
MCDone == 5

Ends(n) ==
  {<<>>} \union {<<Jump(l)>> : l \in MCLabels}
  \union {<<CJump(n, t, f)>> : t \in MCLabels, f \in MCLabels}

Segment(l, bodies) == {<<Label(l)>> \o x \o y : x \in bodies, y \in Ends(10 + l)}

Prefixes ==
  {<<>>, <<Plain(9)>>, <<Jump(2)>>, <<CJump(10, 2, 3)>>, <<CJump(10, 3, 2)>>}

MCInputs ==
  {p \o x \o y \o z :
     p \in Prefixes,
     x \in Segment(1, {<<Plain(1)>>}),
     y \in Segment(2, {<<>>, <<Plain(2)>>}),
     z \in Segment(3, {<<Plain(3)>>})}
=============================================================================
