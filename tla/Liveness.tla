------------------------------ MODULE Liveness ------------------------------
(***************************************************************************)
(* cfg_build and liveness of src/src/liveness/liveness.c: the passes over  *)
(* the nodes of Flow's graph that grow their in and out sets.  The bit     *)
(* sets are sets here; LivenessBits has the same passes on their words.    *)
(***************************************************************************)
EXTENDS Flow

VARIABLES in, out   \* the in and out sets of the nodes

vars == <<instrs, succs, in, out, n, changed, pc>>

TypeOK ==
  /\ instrs \in Seq(Instr) \ {<<>>}
  /\ succs \in [Nodes -> SUBSET Nodes]
  /\ in \in [Nodes -> SUBSET Temps]
  /\ out \in [Nodes -> SUBSET Temps]
  /\ n \in 1 .. Len(instrs) + 1
  /\ changed \in BOOLEAN
  /\ pc \in {"build", "pass", "done"}

-----------------------------------------------------------------------------
Init ==
  /\ Begin
  /\ in = [i \in Nodes |-> {}]
  /\ out = [i \in Nodes |-> {}]

cfg_build == Build /\ UNCHANGED <<in, out>>

NewOut(i) == UNION {in[s] : s \in succs[i]}

NewIn(i) == instrs[i].use \union (NewOut(i) \ instrs[i].def)

Visit ==
  /\ Round(NewIn(n) # in[n] \/ NewOut(n) # out[n])
  /\ in' = [in EXCEPT ![n] = NewIn(n)]
  /\ out' = [out EXCEPT ![n] = NewOut(n)]

EndPass == End /\ UNCHANGED <<in, out>>

Next == cfg_build \/ Visit \/ EndPass

Spec == Init /\ [][Next]_vars

-----------------------------------------------------------------------------
(* in and out solve the liveness equations of the graph.                   *)
Solved == \A i \in Nodes : in[i] = NewIn(i) /\ out[i] = NewOut(i)

(* Sets that are closed under the equations from below hold every in set.  *)
Closed(F) ==
  \A i \in Nodes : instrs[i].use \union ((UNION {F[s] : s \in succs[i]}) \ instrs[i].def) \subseteq F[i]

Least ==
  \A F \in [Nodes -> SUBSET Temps] : Closed(F) => \A i \in Nodes : in[i] \subseteq F[i]

(* When the passes end (liveness breaks out of its loop), in and out are   *)
(* the least solution of the equations: one pass without a change is       *)
(* enough although the sets changed during the passes before it.           *)
LeastSolution == pc = "done" => Solved /\ Least

(***************************************************************************)
(* Liveness by its meaning: a temporary is live where some path of the     *)
(* graph leads to a use of it and passes no definition of it before.       *)
(***************************************************************************)
Paths(next) ==
  {p \in UNION {[1 .. k -> Nodes] : k \in 1 .. Len(instrs)} :
     \A i \in 1 .. Len(p) - 1 : p[i + 1] \in next[p[i]]}

LiveAt(paths, i, t) ==
  \E p \in paths :
    /\ p[1] = i
    /\ t \in instrs[p[Len(p)]].use
    /\ \A j \in 1 .. Len(p) - 1 : t \notin instrs[p[j]].def

(* When the passes end, in and out are exactly the live temporaries of the *)
(* graph, however the passes ran against the direction of its edges.       *)
ExactlyLive ==
  pc = "done" =>
    LET paths == Paths(succs)
    IN  \A i \in Nodes : \A t \in Temps :
          /\ t \in in[i] <=> LiveAt(paths, i, t)
          /\ t \in out[i] <=> \E s \in succs[i] : LiveAt(paths, s, t)

(* What the machine runs: a conditional jump may also fall through.        *)
RunSuccs ==
  [i \in Nodes |->
     {j \in Nodes :
        \/ instrs[i].jump # NoLabel /\ instrs[j].label = instrs[i].jump
        \/ (instrs[i].jump = NoLabel \/ instrs[i].cond) /\ j = i + 1}]

(* Against the code as it runs, cfg_build leaves out the fall-through of a *)
(* conditional jump (the continue after the jumps), so a temporary used    *)
(* only there is missing; but the analysis never calls a temporary live    *)
(* that is not, and misses none where no conditional jump can be reached.  *)
NeverTooMuch ==
  pc = "done" =>
    LET paths == Paths(RunSuccs)
    IN  \A i \in Nodes : \A t \in Temps :
          /\ t \in in[i] => LiveAt(paths, i, t)
          /\ LiveAt(paths, i, t) =>
               \/ t \in in[i]
               \/ \E p \in paths : p[1] = i /\ instrs[p[Len(p)]].cond

(* Why the passes end: no step of theirs takes a temporary out of a set,   *)
(* and each one adds one, or takes back changed, which only an addition    *)
(* sets again, or goes on to a later node with changed as it is.           *)
GetsOn ==
  [][\/ pc = "build" /\ pc' = "pass"
     \/ pc = "pass" /\ pc' = "done"
     \/ /\ pc' = pc
        /\ \A i \in Nodes : in[i] \subseteq in'[i] /\ out[i] \subseteq out'[i]
        /\ \/ in' # in \/ out' # out
           \/ changed /\ ~changed'
           \/ changed' = changed /\ n' > n]_vars

(* The passes end, whatever the loops of the graph. *)
Terminates == <>(pc = "done")
=============================================================================
