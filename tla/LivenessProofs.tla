--------------------------- MODULE LivenessProofs ---------------------------
(***************************************************************************)
(* The analysis of module Liveness ends with the least solution of the     *)
(* liveness equations, for every instruction list.                         *)
(*                                                                         *)
(* The sets approach the solution from below: Growing says each set is     *)
(* contained in what the equations make of the present sets, so a visit    *)
(* can only add to it; Least says no solution is ever overtaken.  Stable   *)
(* says what a pass without a change has established so far; at its end    *)
(* that is all of Solved.                                                  *)
(*                                                                         *)
(* The solution is liveness along the paths of the graph: a walk to a use  *)
(* can be cut short until it is no longer than there are nodes, and what   *)
(* is live along paths is closed under the equations.  And the graph has   *)
(* no path that the running code does not have, since a label stands once. *)
(*                                                                         *)
(* The last part shows that LivenessBits implements Liveness: every bit    *)
(* set is Words of the temporaries that are on in it, one representation   *)
(* for each set because no two temporaries share a bit and none is without *)
(* a word, so a round makes of the words what it makes of the sets.        *)
(***************************************************************************)
EXTENDS Liveness, LivenessBits, Minima, SequenceTheorems, TLAPS

Fresh ==
  pc = "build" =>
    n = 1 /\ \A i \in Nodes : in[i] = {} /\ out[i] = {} /\ succs[i] = {}

Growing == \A i \in Nodes : in[i] \subseteq NewIn(i) /\ out[i] \subseteq NewOut(i)

Stable ==
  pc = "pass" /\ ~changed =>
    \A i \in Nodes : i < n => in[i] = NewIn(i) /\ out[i] = NewOut(i)

Inv ==
  /\ TypeOK
  /\ Fresh
  /\ Growing
  /\ pc # "build" => Least
  /\ Stable
  /\ pc = "done" => Solved

-----------------------------------------------------------------------------
LEMMA NodesAreNumbers == TypeOK => Nodes = 1 .. Len(instrs) /\ Len(instrs) \in Nat
  BY DEF TypeOK, Nodes

LEMMA InitInv == Init => Inv
<1> SUFFICES ASSUME Init PROVE Inv
  OBVIOUS
<1>1. instrs \in Seq(Instr) \ {<<>>}
  BY ProgramsAssumption DEF Init, Begin
<1>2. TypeOK
  <2>1. Len(instrs) \in Nat
    BY <1>1
  <2>2. n \in 1 .. Len(instrs) + 1
    BY <2>1 DEF Init, Begin
  <2>3. QED
    BY <1>1, <2>2 DEF Init, Begin, TypeOK, Nodes
<1>3. Fresh /\ Growing /\ Stable
  BY DEF Init, Begin, Fresh, Growing, Stable, NewOut, NewIn
<1>4. QED
  BY <1>2, <1>3 DEF Init, Begin, Inv

(* The instructions use and define temporaries. *)
LEMMA InstrsTyped ==
  ASSUME TypeOK, NEW i \in Nodes
  PROVE  instrs[i] \in Instr /\ instrs[i].use \subseteq Temps /\ instrs[i].def \subseteq Temps
<1>1. instrs \in Seq(Instr) /\ i \in DOMAIN instrs
  BY DEF TypeOK, Nodes
<1>2. instrs[i] \in Instr
  BY <1>1
<1> QED
  BY <1>2 DEF Instr

(* The equations have a value for every node. *)
LEMMA NewSets ==
  ASSUME TypeOK, NEW i \in Nodes
  PROVE  NewOut(i) \subseteq Temps /\ NewIn(i) \subseteq Temps
<1>1. succs[i] \subseteq Nodes /\ \A s \in Nodes : in[s] \subseteq Temps
  BY DEF TypeOK
<1>2. NewOut(i) \subseteq Temps
  BY <1>1 DEF NewOut
<1>3. instrs[i].use \subseteq Temps
  <2>1. instrs \in Seq(Instr) /\ i \in DOMAIN instrs
    BY DEF TypeOK, Nodes
  <2>2. instrs[i] \in Instr
    BY <2>1
  <2>3. QED
    BY <2>2 DEF Instr
<1>4. QED
  BY <1>2, <1>3 DEF NewIn

LEMMA BuildStep == Inv /\ cfg_build => Inv'
<1> SUFFICES ASSUME Inv, cfg_build PROVE Inv'
  OBVIOUS
<1>1. Nodes' = Nodes /\ instrs' = instrs /\ in' = in /\ out' = out /\ n' = n
      /\ changed' = changed /\ pc = "build" /\ pc' = "pass"
      /\ succs' = [i \in Nodes |-> Successors(i)]
  BY DEF cfg_build, Build, Nodes
<1>2. \A i \in Nodes : in[i] = {} /\ out[i] = {}
  BY <1>1 DEF Inv, Fresh
<1>3. TypeOK'
  <2>1. \A i \in Nodes : Successors(i) \in SUBSET Nodes
    BY DEF Successors, NodesOf
  <2>2. succs' \in [Nodes -> SUBSET Nodes]
    BY <1>1, <2>1
  <2>3. QED
    BY <1>1, <2>2 DEF Inv, TypeOK, Nodes
<1>4. (Fresh /\ Growing)'
  BY <1>1, <1>2 DEF Fresh, Growing
<1>5. Least'
  BY <1>1, <1>2 DEF Least
<1>6. Stable'
  <2>1. Nodes = 1 .. Len(instrs) /\ Len(instrs) \in Nat /\ n = 1
    BY <1>1, NodesAreNumbers DEF Inv, Fresh
  <2>2. \A i \in Nodes : ~(i < n)
    BY <2>1
  <2>3. QED
    BY <1>1, <2>2 DEF Stable
<1>7. QED
  BY <1>1, <1>3, <1>4, <1>5, <1>6 DEF Inv

(* A visit puts one node's sets at what the equations say, which is more.  *)
LEMMA VisitStep == Inv /\ Visit => Inv' /\ \A i \in Nodes : in[i] \subseteq in'[i] /\ out[i] \subseteq out'[i]
<1> SUFFICES ASSUME Inv, Visit
             PROVE  Inv' /\ \A i \in Nodes : in[i] \subseteq in'[i] /\ out[i] \subseteq out'[i]
  OBVIOUS
<1>1. /\ Nodes' = Nodes /\ instrs' = instrs /\ succs' = succs
      /\ pc = "pass" /\ pc' = "pass" /\ n \in Nodes /\ n' = n + 1
      /\ in' = [in EXCEPT ![n] = NewIn(n)]
      /\ out' = [out EXCEPT ![n] = NewOut(n)]
      /\ changed' = (changed \/ NewIn(n) # in[n] \/ NewOut(n) # out[n])
  BY DEF Visit, Round, Nodes
<1>2. TypeOK
  BY DEF Inv
<1>3. in \in [Nodes -> SUBSET Temps] /\ out \in [Nodes -> SUBSET Temps]
      /\ succs \in [Nodes -> SUBSET Nodes]
  BY <1>2 DEF TypeOK
<1>4. Nodes = 1 .. Len(instrs) /\ Len(instrs) \in Nat
  BY <1>2, NodesAreNumbers
<1>5. \A i \in Nodes :
        /\ in'[i] = IF i = n THEN NewIn(n) ELSE in[i]
        /\ out'[i] = IF i = n THEN NewOut(n) ELSE out[i]
  <2> TAKE i \in Nodes
  <2>1. CASE i = n
    BY <2>1, <1>1, <1>3
  <2>2. CASE i # n
    BY <2>2, <1>1, <1>3
  <2>3. QED
    BY <2>1, <2>2
<1>6. \A i \in Nodes : in[i] \subseteq in'[i] /\ out[i] \subseteq out'[i]
  BY <1>1, <1>5 DEF Inv, Growing
<1>7. \A i \in Nodes : NewOut(i) \subseteq NewOut(i)'
  BY <1>1, <1>3, <1>6 DEF NewOut
<1>8. \A i \in Nodes : NewIn(i) \subseteq NewIn(i)'
  BY <1>1, <1>7 DEF NewIn
<1>9. TypeOK'
  <2>1. NewIn(n) \subseteq Temps /\ NewOut(n) \subseteq Temps
    BY <1>1, <1>2, NewSets
  <2>2. in' \in [Nodes -> SUBSET Temps] /\ out' \in [Nodes -> SUBSET Temps]
    BY <1>1, <1>3, <2>1
  <2>3. n' \in 1 .. Len(instrs) + 1
    BY <1>1, <1>4
  <2>4. changed' \in BOOLEAN
    BY <1>1, <1>2 DEF TypeOK
  <2>5. QED
    BY <1>1, <1>2, <2>2, <2>3, <2>4 DEF TypeOK, Nodes
<1>10. (Fresh /\ Growing)'
  BY <1>1, <1>5, <1>7, <1>8 DEF Inv, Fresh, Growing
<1>11. Least'
  <2> SUFFICES ASSUME NEW F \in [Nodes -> SUBSET Temps], Closed(F), NEW i \in Nodes
               PROVE  in'[i] \subseteq F[i]
    BY <1>1 DEF Least, Closed
  <2>1. \A j \in Nodes : in[j] \subseteq F[j]
    BY <1>1 DEF Inv, Least
  <2>2. NewOut(i) \subseteq UNION {F[s] : s \in succs[i]}
    BY <2>1, <1>3 DEF NewOut
  <2>3. NewIn(i) \subseteq F[i]
    BY <2>2 DEF NewIn, Closed
  <2>4. CASE i = n
    BY <2>3, <2>4, <1>5
  <2>5. CASE i # n
    BY <2>1, <2>5, <1>5
  <2>6. QED
    BY <2>4, <2>5
<1>12. Stable'
  <2> SUFFICES ASSUME ~changed', NEW i \in Nodes, i < n'
               PROVE  in'[i] = NewIn(i)' /\ out'[i] = NewOut(i)'
    BY <1>1 DEF Stable
  <2>1. ~changed /\ NewIn(n) = in[n] /\ NewOut(n) = out[n]
    BY <1>1
  <2>2. in' = in /\ out' = out
    BY <1>1, <1>3, <2>1
  <2>3. i < n \/ i = n
    BY <1>1, <1>4
  <2>4. in[i] = NewIn(i) /\ out[i] = NewOut(i)
    BY <2>1, <2>3, <1>1 DEF Inv, Stable
  <2>5. NewOut(i)' = NewOut(i) /\ NewIn(i)' = NewIn(i)
    BY <1>1, <2>2 DEF NewOut, NewIn
  <2>6. QED
    BY <2>2, <2>4, <2>5
<1>13. QED
  BY <1>1, <1>6, <1>9, <1>10, <1>11, <1>12 DEF Inv

LEMMA EndPassStep == Inv /\ EndPass => Inv'
<1> SUFFICES ASSUME Inv, EndPass PROVE Inv'
  OBVIOUS
<1>1. /\ Nodes' = Nodes /\ instrs' = instrs /\ succs' = succs /\ in' = in /\ out' = out
      /\ pc = "pass" /\ n \notin Nodes
  BY DEF EndPass, End, Nodes
<1>2. TypeOK
  BY DEF Inv
<1>3. Nodes = 1 .. Len(instrs) /\ Len(instrs) \in Nat /\ n \in 1 .. Len(instrs) + 1
  BY <1>2, NodesAreNumbers DEF TypeOK
<1>4. \A i \in Nodes : NewOut(i)' = NewOut(i) /\ NewIn(i)' = NewIn(i)
  BY <1>1 DEF NewOut, NewIn
<1>5. (Growing /\ Least)'
  BY <1>1, <1>4 DEF Inv, Growing, Least, Closed
<1>6. CASE changed
  <2>1. n' = 1 /\ changed' = FALSE /\ pc' = "pass"
    BY <1>1, <1>6 DEF EndPass, End
  <2>2. TypeOK'
    <3>1. n' \in 1 .. Len(instrs) + 1
      BY <1>3, <2>1
    <3>2. QED
      BY <1>1, <1>2, <2>1, <3>1 DEF TypeOK, Nodes
  <2>3. \A i \in Nodes : ~(i < n')
    BY <1>3, <2>1
  <2>4. Stable'
    BY <1>1, <2>3 DEF Stable
  <2>5. QED
    BY <1>5, <2>1, <2>2, <2>4 DEF Inv, Fresh
<1>7. CASE ~changed
  <2>1. n' = n /\ changed' = changed /\ pc' = "done"
    BY <1>1, <1>7 DEF EndPass, End
  <2>2. TypeOK'
    BY <1>1, <1>2, <2>1 DEF TypeOK, Nodes
  <2>3. \A i \in Nodes : i < n
    BY <1>1, <1>3
  <2>4. Solved'
    BY <1>1, <1>4, <1>7, <2>3 DEF Inv, Stable, Solved
  <2>5. QED
    BY <1>5, <2>1, <2>2, <2>4 DEF Inv, Fresh, Stable
<1>8. QED
  BY <1>6, <1>7

LEMMA NextInv == Inv /\ [Next]_vars => Inv'
<1> SUFFICES ASSUME Inv, [Next]_vars PROVE Inv'
  OBVIOUS
<1>1. CASE cfg_build
  BY <1>1, BuildStep
<1>2. CASE Visit
  BY <1>2, VisitStep
<1>3. CASE EndPass
  BY <1>3, EndPassStep
<1>4. CASE UNCHANGED vars
  <2>1. /\ Nodes' = Nodes /\ instrs' = instrs /\ succs' = succs /\ in' = in /\ out' = out
        /\ n' = n /\ changed' = changed /\ pc' = pc
    BY <1>4 DEF vars, Nodes
  <2>2. \A i : NewOut(i)' = NewOut(i) /\ NewIn(i)' = NewIn(i)
    BY <2>1 DEF NewOut, NewIn
  <2>3. TypeOK'
    BY <2>1 DEF Inv, TypeOK
  <2>4. (Fresh /\ Growing /\ Stable)'
    BY <2>1, <2>2 DEF Inv, Fresh, Growing, Stable
  <2>5. pc # "build" => Least'
    BY <2>1 DEF Inv, Least, Closed
  <2>6. pc = "done" => Solved'
    BY <2>1, <2>2 DEF Inv, Solved
  <2>7. QED
    BY <2>1, <2>3, <2>4, <2>5, <2>6 DEF Inv
<1>5. QED
  BY <1>1, <1>2, <1>3, <1>4 DEF Next

(* Every reachable state satisfies the inductive invariant. *)
THEOREM Invariance == Spec => []Inv
<1>1. QED
  BY InitInv, NextInv, PTL DEF Spec

(* The sets hold temporaries and the graph holds nodes, in every pass of   *)
(* liveness.c over every instruction list.                                 *)
THEOREM SetsTyped == Spec => []TypeOK
<1>1. Inv => TypeOK
  BY DEF Inv
<1>2. QED
  BY <1>1, Invariance, PTL

(* When the passes end, in and out are the least solution of the liveness  *)
(* equations of the graph, for every instruction list.                     *)
THEOREM EndsWithLeastSolution == Spec => []LeastSolution
<1>1. Inv => LeastSolution
  BY DEF Inv, LeastSolution
<1>2. QED
  BY <1>1, Invariance, PTL

(* A round puts nothing back: if it changes no set, changed is as it was.  *)
LEMMA RoundGetsOn ==
  ASSUME Inv, Visit
  PROVE  /\ pc = "pass" /\ pc' = pc
         /\ in' # in \/ out' # out \/ (changed' = changed /\ n' > n)
<1>1. /\ pc = "pass" /\ pc' = pc /\ n \in Nodes /\ n' = n + 1
      /\ in' = [in EXCEPT ![n] = NewIn(n)]
      /\ out' = [out EXCEPT ![n] = NewOut(n)]
      /\ changed' = (changed \/ NewIn(n) # in[n] \/ NewOut(n) # out[n])
  BY DEF Visit, Round
<1>2. in \in [Nodes -> SUBSET Temps] /\ out \in [Nodes -> SUBSET Temps] /\ changed \in BOOLEAN
  BY DEF Inv, TypeOK
<1>3. n' > n
  BY <1>1, NodesAreNumbers DEF Inv
<1>4. ASSUME in' = in, out' = out PROVE changed' = changed
  <2>1. in'[n] = NewIn(n) /\ out'[n] = NewOut(n)
    BY <1>1, <1>2
  <2>2. NewIn(n) = in[n] /\ NewOut(n) = out[n]
    BY <1>4, <2>1
  <2>3. QED
    BY <1>1, <1>2, <2>2
<1>5. QED
  BY <1>1, <1>3, <1>4

(* The passes get on, whatever the instruction list: their steps only ever *)
(* add temporaries to the sets, and a step that adds none uses up the rest *)
(* of a pass (GetsOn).  With finitely many temporaries no run of           *)
(* liveness.c's loop can be endless.                                       *)
THEOREM PassesGetOn == Spec => GetsOn
<1> DEFINE Grows == \A i \in Nodes : in[i] \subseteq in'[i] /\ out[i] \subseteq out'[i]
<1> DEFINE Step ==
      \/ pc = "build" /\ pc' = "pass"
      \/ pc = "pass" /\ pc' = "done"
      \/ /\ pc' = pc
         /\ Grows
         /\ \/ in' # in \/ out' # out
            \/ changed /\ ~changed'
            \/ changed' = changed /\ n' > n
<1>1. Inv /\ [Next]_vars => [Step]_vars
  <2> SUFFICES ASSUME Inv, Next PROVE Step
    OBVIOUS
  <2>1. CASE cfg_build
    BY <2>1 DEF cfg_build, Build
  <2>2. CASE Visit
    BY <2>2, VisitStep, RoundGetsOn
  <2>3. CASE EndPass
    BY <2>3 DEF EndPass, End
  <2>4. QED
    BY <2>1, <2>2, <2>3 DEF Next
<1>2. QED
  BY <1>1, Invariance, PTL DEF Spec, GetsOn

-----------------------------------------------------------------------------
(* Walks of k nodes, and liveness along one: the paths are those that have *)
(* no more nodes than the graph.                                           *)
Walks(next, k) == {p \in [1 .. k -> Nodes] : \A j \in 1 .. k - 1 : p[j + 1] \in next[p[j]]}

LiveAlong(p, k, i, t) ==
  /\ p[1] = i
  /\ t \in instrs[p[k]].use
  /\ \A j \in 1 .. k - 1 : t \notin instrs[p[j]].def

LiveIn(next, k, i, t) == \E p \in Walks(next, k) : LiveAlong(p, k, i, t)

LEMMA PathsAreWalks ==
  ASSUME NEW next
  PROVE  /\ \A p \in Paths(next) :
              Len(p) \in 1 .. Len(instrs) /\ p \in Walks(next, Len(p))
         /\ \A k \in 1 .. Len(instrs) : \A p \in Walks(next, k) :
              p \in Paths(next) /\ Len(p) = k
<1>1. ASSUME NEW k \in 1 .. Len(instrs), NEW p \in [1 .. k -> Nodes]
      PROVE  Len(p) = k
  <2>1. k \in Nat /\ p \in Seq(Nodes)
    BY SeqDef
  <2>2. DOMAIN p = 1 .. k /\ DOMAIN p = 1 .. Len(p) /\ Len(p) \in Nat
    BY <2>1, LenProperties
  <2> QED
    BY <2>1, <2>2
<1> QED
  BY <1>1 DEF Paths, Walks

LEMMA LiveAtIsLiveIn ==
  ASSUME NEW next, NEW i, NEW t
  PROVE  LiveAt(Paths(next), i, t) <=> \E k \in 1 .. Len(instrs) : LiveIn(next, k, i, t)
BY PathsAreWalks DEF LiveAt, LiveIn, LiveAlong

(* A walk of more nodes than the graph passes one of them twice; without   *)
(* what lies between, it is live still.                                    *)
LEMMA ShorterWalk ==
  ASSUME TypeOK, NEW next, NEW i, NEW t, LiveIn(next, Len(instrs) + 1, i, t)
  PROVE  \E k \in 1 .. Len(instrs) : LiveIn(next, k, i, t)
<1> DEFINE N == Len(instrs)
<1>1. N \in Nat /\ Nodes = 1 .. N
  BY NodesAreNumbers
<1>2. PICK p \in Walks(next, N + 1) : LiveAlong(p, N + 1, i, t)
  BY DEF LiveIn
<1>3. /\ p \in [1 .. N + 1 -> Nodes] /\ p[1] = i /\ t \in instrs[p[N + 1]].use
      /\ \A j \in 1 .. N : p[j + 1] \in next[p[j]] /\ t \notin instrs[p[j]].def
  <2>1. (N + 1) - 1 = N
    BY <1>1
  <2> QED
    BY <1>2, <2>1 DEF Walks, LiveAlong
<1>4. p \in [1 .. N + 1 -> 1 .. N]
  BY <1>1, <1>3
<1>5. PICK a, e \in 1 .. N + 1 : a < e /\ p[a] = p[e]
  BY <1>1, <1>4, Twice
<1> DEFINE k == N + 1 - (e - a)
<1> DEFINE q == [j \in 1 .. k |-> IF j <= a THEN p[j] ELSE p[j + (e - a)]]
<1>6. k \in 1 .. N /\ a <= k /\ a \in Nat /\ e \in Nat
  BY <1>1, <1>5
<1>7. \A j \in 1 .. k : j \in 1 .. N + 1 /\ (j > a => j + (e - a) \in 1 .. N + 1)
  BY <1>1, <1>5, <1>6
<1>8. q \in [1 .. k -> Nodes]
  BY <1>3, <1>7
<1>9. ASSUME NEW j \in 1 .. k - 1
      PROVE  q[j + 1] \in next[q[j]] /\ t \notin instrs[q[j]].def
  <2>1. j \in 1 .. k /\ j + 1 \in 1 .. k /\ j \in 1 .. N
    BY <1>6
  <2>2. CASE j < a
    <3>1. q[j] = p[j] /\ q[j + 1] = p[j + 1]
      BY <1>6, <2>1, <2>2
    <3> QED
      BY <1>3, <2>1, <3>1
  <2>3. CASE ~(j < a)
    <3>1. j + (e - a) \in 1 .. N /\ (j + 1) + (e - a) = (j + (e - a)) + 1
      BY <1>1, <1>5, <1>6, <2>3
    <3>2. q[j] = p[j + (e - a)]
      <4>1. CASE j = a
        <5>1. a + (e - a) = e
          BY <1>6
        <5> QED
          BY <1>5, <2>1, <4>1, <5>1
      <4>2. CASE j > a
        BY <1>6, <2>1, <4>2
      <4> QED
        BY <1>6, <2>3, <4>1, <4>2
    <3>3. q[j + 1] = p[(j + (e - a)) + 1]
      BY <1>6, <2>1, <2>3, <3>1
    <3> QED
      BY <1>3, <3>1, <3>2, <3>3
  <2> QED
    BY <2>2, <2>3
<1>10. q[1] = p[1]
  BY <1>6
<1>11. q[k] = p[N + 1]
  <2>1. CASE k = a
    <3>1. e = N + 1
      BY <1>1, <1>6, <2>1
    <3> QED
      BY <1>5, <1>6, <2>1, <3>1
  <2>2. CASE k > a
    <3>1. k + (e - a) = N + 1
      BY <1>1, <1>6
    <3> QED
      BY <1>6, <2>2, <3>1
  <2> QED
    BY <1>6, <2>1, <2>2
<1> HIDE DEF q, k
<1>12. q \in Walks(next, k) /\ LiveAlong(q, k, i, t)
  BY <1>3, <1>8, <1>9, <1>10, <1>11 DEF Walks, LiveAlong
<1> QED
  BY <1>6, <1>12 DEF LiveIn

(* What is live at a successor and not defined here is live here. *)
LEMMA LiveFromSuccessor ==
  ASSUME TypeOK, NEW next, NEW i \in Nodes, NEW s \in next[i], NEW t,
         t \notin instrs[i].def, NEW k \in 1 .. Len(instrs), LiveIn(next, k, s, t)
  PROVE  \E m \in 1 .. Len(instrs) : LiveIn(next, m, i, t)
<1>1. Len(instrs) \in Nat
  BY NodesAreNumbers
<1>2. PICK p \in Walks(next, k) : LiveAlong(p, k, s, t)
  BY DEF LiveIn
<1> DEFINE q == [j \in 1 .. k + 1 |-> IF j = 1 THEN i ELSE p[j - 1]]
<1>3. q \in [1 .. k + 1 -> Nodes]
  <2>1. \A j \in 1 .. k + 1 : j # 1 => j - 1 \in 1 .. k
    OBVIOUS
  <2> QED
    BY <1>2, <2>1 DEF Walks
<1>4. ASSUME NEW j \in 1 .. k
      PROVE  q[j + 1] \in next[q[j]] /\ t \notin instrs[q[j]].def
  <2>1. q[j + 1] = p[j] /\ j \in 1 .. k + 1
    OBVIOUS
  <2>2. CASE j = 1
    BY <1>2, <2>1, <2>2 DEF LiveAlong
  <2>3. CASE j # 1
    <3>1. j - 1 \in 1 .. k - 1 /\ (j - 1) + 1 = j /\ q[j] = p[j - 1]
      BY <2>3
    <3> QED
      BY <1>2, <2>1, <3>1 DEF Walks, LiveAlong
  <2> QED
    BY <2>2, <2>3
<1>5. q[1] = i /\ q[k + 1] = p[k]
  OBVIOUS
<1> HIDE DEF q
<1>6. (k + 1) - 1 = k
  OBVIOUS
<1>7. LiveIn(next, k + 1, i, t)
  BY <1>2, <1>3, <1>4, <1>5, <1>6 DEF LiveIn, Walks, LiveAlong
<1>8. k + 1 \in 1 .. Len(instrs) \/ k = Len(instrs)
  BY <1>1
<1> QED
  BY <1>7, <1>8, ShorterWalk

LEMMA UseIsLive ==
  ASSUME TypeOK, NEW next, NEW i \in Nodes, NEW t \in instrs[i].use
  PROVE  LiveIn(next, 1, i, t)
<1> DEFINE q == [j \in 1 .. 1 |-> i]
<1>1. q \in Walks(next, 1) /\ LiveAlong(q, 1, i, t)
  BY DEF Walks, LiveAlong
<1> QED
  BY <1>1 DEF LiveIn

(* The live temporaries are closed under the equations, so the least       *)
(* solution has no others.                                                 *)
LEMMA InIsLive ==
  ASSUME TypeOK, Least, NEW i \in Nodes, NEW t \in in[i]
  PROVE  LiveAt(Paths(succs), i, t)
<1> DEFINE F == [j \in Nodes |-> {u \in Temps : \E k \in 1 .. Len(instrs) : LiveIn(succs, k, j, u)}]
<1>1. F \in [Nodes -> SUBSET Temps]
  OBVIOUS
<1>2. Closed(F)
  <2> SUFFICES ASSUME NEW j \in Nodes,
                      NEW u \in instrs[j].use \union ((UNION {F[s] : s \in succs[j]}) \ instrs[j].def)
               PROVE  u \in F[j]
    BY DEF Closed
  <2>1. 1 \in 1 .. Len(instrs)
    <3> HIDE DEF F
    <3> QED
      BY NodesAreNumbers
  <2>2. CASE u \in instrs[j].use
    <3>1. u \in Temps
      BY <2>2, InstrsTyped
    <3> QED
      BY <2>1, <2>2, <3>1, UseIsLive
  <2>3. CASE u \notin instrs[j].use
    <3>1. PICK s \in succs[j] : u \in F[s] /\ u \notin instrs[j].def
      BY <2>3
    <3>2. s \in Nodes
      BY DEF TypeOK
    <3>3. PICK k \in 1 .. Len(instrs) : LiveIn(succs, k, s, u)
      BY <3>1, <3>2
    <3>4. \E m \in 1 .. Len(instrs) : LiveIn(succs, m, j, u)
      BY <3>1, <3>3, LiveFromSuccessor
    <3>5. u \in Temps
      BY <3>1, <3>2
    <3> QED
      BY <3>4, <3>5
  <2> QED
    BY <2>2, <2>3
<1> HIDE DEF F
<1>3. t \in F[i]
  BY <1>1, <1>2 DEF Least
<1> QED
  BY <1>3, LiveAtIsLiveIn DEF F

(* A solution has, at every node of a live walk, what is used at its end.  *)
LEMMA LiveIsIn ==
  ASSUME TypeOK, Solved, NEW k \in Nat \ {0}, NEW p \in Walks(succs, k), NEW i, NEW t,
         LiveAlong(p, k, i, t)
  PROVE  t \in in[i]
<1> DEFINE S == {j \in Nat : j \in 1 .. k /\ t \in in[p[j]]}
<1>1. \A j \in 1 .. k : p[j] \in Nodes
  BY DEF Walks
<1>2. k \in S
  <2>1. p[k] \in Nodes /\ t \in instrs[p[k]].use
    BY <1>1 DEF LiveAlong
  <2> QED
    BY <2>1 DEF Solved, NewIn
<1>3. PICK m \in S : \A j \in S : m <= j
  <2> HIDE DEF S
  <2>1. S \in SUBSET Nat
    BY DEF S
  <2> QED
    BY <1>2, <2>1, MinExists
<1>4. m = 1
  <2> SUFFICES ASSUME m # 1 PROVE FALSE
    OBVIOUS
  <2>1. m - 1 \in 1 .. k - 1 /\ (m - 1) + 1 = m /\ m - 1 \in 1 .. k /\ m - 1 \in Nat
    BY <1>3
  <2>2. p[m] \in succs[p[m - 1]] /\ t \notin instrs[p[m - 1]].def
    BY <2>1 DEF Walks, LiveAlong
  <2>3. t \in NewIn(p[m - 1])
    BY <1>3, <2>2 DEF NewIn, NewOut
  <2>4. t \in in[p[m - 1]]
    BY <1>1, <2>1, <2>3 DEF Solved
  <2>5. m - 1 \in S
    BY <2>1, <2>4
  <2> QED
    BY <1>3, <2>5
<1> QED
  BY <1>3, <1>4 DEF LiveAlong

LEMMA InExactlyLive ==
  ASSUME TypeOK, Solved, Least, NEW i \in Nodes, NEW t
  PROVE  t \in in[i] <=> LiveAt(Paths(succs), i, t)
<1>1. ASSUME LiveAt(Paths(succs), i, t) PROVE t \in in[i]
  <2>1. PICK k \in 1 .. Len(instrs) : LiveIn(succs, k, i, t)
    BY <1>1, LiveAtIsLiveIn
  <2>2. PICK p \in Walks(succs, k) : LiveAlong(p, k, i, t)
    BY <2>1 DEF LiveIn
  <2> QED
    BY <2>2, LiveIsIn
<1> QED
  BY <1>1, InIsLive

(* When liveness.c's passes end, in and out are exactly the temporaries    *)
(* that some path of the graph leads to a use of, with no definition       *)
(* before it: for every instruction list, whatever its loops, and although *)
(* the passes run against the direction of the edges.                      *)
THEOREM EndsExactlyLive == Spec => []ExactlyLive
<1>1. Inv => ExactlyLive
  <2> SUFFICES ASSUME Inv, pc = "done", NEW i \in Nodes, NEW t \in Temps
               PROVE  /\ t \in in[i] <=> LiveAt(Paths(succs), i, t)
                      /\ t \in out[i] <=> \E s \in succs[i] : LiveAt(Paths(succs), s, t)
    BY DEF ExactlyLive
  <2>1. TypeOK /\ Solved /\ Least
    BY DEF Inv
  <2>2. \A j \in Nodes : t \in in[j] <=> LiveAt(Paths(succs), j, t)
    BY <2>1, InExactlyLive
  <2>3. succs[i] \subseteq Nodes /\ out[i] = UNION {in[s] : s \in succs[i]}
    BY <2>1 DEF TypeOK, Solved, NewOut
  <2> QED
    BY <2>2, <2>3
<1>2. QED
  BY <1>1, Invariance, PTL

-----------------------------------------------------------------------------
(* cfg_build's graph is that of the instructions, from then on. *)
Graph ==
  /\ instrs \in Programs
  /\ pc # "build" => succs = [i \in Nodes |-> Successors(i)]

LEMMA GraphInvariance == Spec => []Graph
<1>1. Init => Graph
  BY DEF Init, Begin, Graph
<1>2. Graph /\ [Next]_vars => Graph'
  <2> SUFFICES ASSUME Graph, [Next]_vars PROVE Graph'
    OBVIOUS
  <2> USE DEF Graph, Nodes
  <2>1. CASE cfg_build
    <3>1. instrs' = instrs /\ succs' = [i \in Nodes |-> Successors(i)]
      BY <2>1 DEF cfg_build, Build
    <3> QED
      BY <3>1 DEF Successors, NodesOf
  <2>2. CASE Visit \/ EndPass \/ UNCHANGED vars
    <3>1. instrs' = instrs /\ succs' = succs /\ (pc' # "build" => pc # "build")
      BY <2>2 DEF Visit, Round, EndPass, End, vars
    <3> QED
      BY <3>1 DEF Successors, NodesOf
  <2> QED
    BY <2>1, <2>2 DEF Next
<1> QED
  BY <1>1, <1>2, PTL DEF Spec

(* Where a label stands once, a node's successors are those of the code as *)
(* it runs, but for what a conditional jump falls through to.              *)
LEMMA SuccessorsRun ==
  ASSUME TypeOK, Graph, pc # "build", NEW i \in Nodes
  PROVE  /\ succs[i] \subseteq RunSuccs[i]
         /\ ~instrs[i].cond => RunSuccs[i] \subseteq succs[i]
<1>1. succs[i] = Successors(i) /\ Nodes = DOMAIN instrs /\ instrs \in Programs
  BY DEF Graph, Nodes
<1>2. \A j, k \in Nodes :
        instrs[j].label = instrs[k].label /\ instrs[j].label # NoLabel => j = k
  BY <1>1, LabelsOnceAssumption
<1>3. \A j \in Nodes : j \in Int
  BY NodesAreNumbers
<1>4. CASE instrs[i].jump = NoLabel
  BY <1>1, <1>4 DEF Successors, RunSuccs
<1>5. CASE instrs[i].jump # NoLabel
  <2>1. succs[i] = NodesOf(instrs[i].jump)
    BY <1>1, <1>5 DEF Successors
  <2>2. ASSUME NEW j \in Nodes, instrs[j].label = instrs[i].jump
        PROVE  j \in NodesOf(instrs[i].jump)
    <3>1. \A k \in Nodes : instrs[k].label = instrs[i].jump => k <= j
      BY <1>2, <1>3, <1>5, <2>2
    <3> QED
      BY <2>2, <3>1 DEF NodesOf
  <2> QED
    BY <1>5, <2>1, <2>2 DEF NodesOf, RunSuccs
<1> QED
  BY <1>4, <1>5

(* The beginning of a walk is a walk. *)
LEMMA Beginning ==
  ASSUME NEW next, NEW k \in Nat, NEW p \in Walks(next, k), NEW m \in 1 .. k
  PROVE  [j \in 1 .. m |-> p[j]] \in Walks(next, m)
BY DEF Walks

(* Against the code as it runs, where a conditional jump may fall through: *)
(* the analysis calls no temporary live that is not, and misses none where *)
(* no conditional jump can be reached (liveness.c, the continue after the  *)
(* jumps in cfg_build), for every list with each label in one place.       *)
THEOREM NeverCallsTooMuchLive == Spec => []NeverTooMuch
<1>1. Inv /\ Graph => NeverTooMuch
  <2> SUFFICES ASSUME Inv, Graph, pc = "done", NEW i \in Nodes, NEW t \in Temps
               PROVE  /\ t \in in[i] => LiveAt(Paths(RunSuccs), i, t)
                      /\ LiveAt(Paths(RunSuccs), i, t) =>
                           \/ t \in in[i]
                           \/ \E p \in Paths(RunSuccs) : p[1] = i /\ instrs[p[Len(p)]].cond
    BY DEF NeverTooMuch
  <2>1. TypeOK /\ Solved /\ Least /\ pc # "build"
    BY DEF Inv
  <2>2. \A j \in Nodes : /\ succs[j] \subseteq RunSuccs[j]
                         /\ ~instrs[j].cond => RunSuccs[j] \subseteq succs[j]
    BY <2>1, SuccessorsRun
  <2>3. ASSUME t \in in[i] PROVE LiveAt(Paths(RunSuccs), i, t)
    <3>1. PICK k \in 1 .. Len(instrs) : LiveIn(succs, k, i, t)
      BY <2>1, <2>3, InIsLive, LiveAtIsLiveIn
    <3>2. PICK p \in Walks(succs, k) : LiveAlong(p, k, i, t)
      BY <3>1 DEF LiveIn
    <3>3. p \in Walks(RunSuccs, k)
      <4>1. \A j \in 1 .. k - 1 : j \in 1 .. k
        OBVIOUS
      <4> QED
        BY <2>2, <4>1 DEF Walks
    <3>4. LiveIn(RunSuccs, k, i, t)
      BY <3>2, <3>3 DEF LiveIn
    <3> QED
      BY <3>4, LiveAtIsLiveIn
  <2>4. ASSUME LiveAt(Paths(RunSuccs), i, t),
               \A p \in Paths(RunSuccs) : p[1] = i => ~instrs[p[Len(p)]].cond
        PROVE  t \in in[i]
    <3>1. PICK k \in 1 .. Len(instrs) : LiveIn(RunSuccs, k, i, t)
      BY <2>4, LiveAtIsLiveIn
    <3>2. PICK p \in Walks(RunSuccs, k) : LiveAlong(p, k, i, t)
      BY <3>1 DEF LiveIn
    <3>3. Len(instrs) \in Nat /\ k \in Nat \ {0}
      BY <2>1, NodesAreNumbers
    <3>4. ASSUME NEW m \in 1 .. k PROVE p[m] \in Nodes /\ ~instrs[p[m]].cond
      <4> DEFINE q == [j \in 1 .. m |-> p[j]]
      <4>1. q \in Walks(RunSuccs, m)
        BY <3>3, Beginning
      <4>2. m \in 1 .. Len(instrs) /\ q[1] = i /\ q[m] = p[m]
        BY <3>2, <3>3 DEF LiveAlong
      <4> HIDE DEF q
      <4>3. q \in Paths(RunSuccs) /\ Len(q) = m
        BY <4>1, <4>2, PathsAreWalks
      <4> QED
        BY <2>4, <4>2, <4>3 DEF Walks
    <3>5. p \in Walks(succs, k)
      <4>1. \A j \in 1 .. k - 1 : j \in 1 .. k
        OBVIOUS
      <4> QED
        BY <2>2, <3>4, <4>1 DEF Walks
    <3> QED
      BY <2>1, <3>2, <3>3, <3>5, LiveIsIn
  <2> QED
    BY <2>3, <2>4
<1> QED
  BY <1>1, Invariance, GraphInvariance, PTL

-----------------------------------------------------------------------------
(* The words of a set. *)
Words(T) == AddAll(bitset_new(TempCount), T)

WordNumbers == WordsFor(TempCount)

(* i \div W and i % W are the quotient and the remainder. *)
LEMMA QuotientIs ==
  ASSUME NEW i \in Nat, NEW q \in Int, NEW r \in 0 .. W - 1, i = W * q + r
  PROVE  i \div W = q /\ i % W = r
  BY WAssumption

LEMMA Division ==
  ASSUME NEW i \in Nat
  PROVE  \E q \in Nat : \E r \in 0 .. W - 1 :
           i = W * q + r /\ i \div W = q /\ i % W = r
<1> DEFINE S == {k \in Nat : i < W * (k + 1)}
<1>1. W \in Nat \ {0}
  BY WAssumption
<1>2. i \in S
  BY <1>1
<1>3. PICK q \in S : \A k \in S : q <= k
  <2> HIDE DEF S
  <2>1. S \in SUBSET Nat
    BY DEF S
  <2>2. QED
    BY <1>2, <2>1, MinExists
<1>4. q \in Nat /\ i < W * (q + 1)
  BY <1>3
<1>5. W * q <= i
  <2>1. CASE q = 0
    BY <1>1, <2>1
  <2>2. CASE q # 0
    <3>1. q - 1 \in Nat /\ q - 1 \notin S
      BY <1>3, <1>4, <2>2
    <3>2. QED
      BY <1>1, <1>4, <3>1
  <2>3. QED
    BY <2>1, <2>2
<1>6. W * (q + 1) = W * q + W /\ W * q \in Nat
  BY <1>1, <1>4
<1>7. i - W * q \in 0 .. W - 1
  BY <1>1, <1>4, <1>5, <1>6
<1>8. i = W * q + (i - W * q)
  BY <1>6
<1>9. i \div W = q /\ i % W = i - W * q
  BY <1>4, <1>7, <1>8, QuotientIs
<1>10. QED
  BY <1>4, <1>7, <1>8, <1>9

(* Every temporary has a word, because temp_count is no multiple of W.     *)
LEMMA HasWord ==
  ASSUME NEW t \in Temps
  PROVE  t \div W \in WordNumbers
<1>1. t \in Nat /\ t <= TempCount /\ TempCount \in Nat /\ W \in Nat \ {0} /\ TempCount % W # 0
  BY TempsAssumption, WAssumption
<1>2. PICK q \in Nat, r \in 0 .. W - 1 : t = W * q + r /\ t \div W = q
  BY <1>1, Division
<1>3. PICK m \in Nat, s \in 0 .. W - 1 :
        TempCount + W - 1 = W * m + s /\ (TempCount + W - 1) \div W = m
  <2>1. TempCount + W - 1 \in Nat
    BY <1>1
  <2>2. QED
    BY <2>1, Division
<1>4. q < m
  <2> SUFFICES ASSUME m <= q PROVE FALSE
    BY <1>2, <1>3
  <2>1. W * m <= W * q
    BY <1>1, <1>2, <1>3
  <2>2. TempCount = W * q + 0
    BY <2>1, <1>1, <1>2, <1>3
  <2>3. 0 \in 0 .. W - 1
    BY <1>1
  <2>4. TempCount % W = 0
    BY <1>1, <1>2, <2>2, <2>3, QuotientIs
  <2>5. QED
    BY <1>1, <2>4
<1>5. QED
  BY <1>2, <1>3, <1>4 DEF WordNumbers, WordsFor

(* No two temporaries are the same bit of the same word. *)
LEMMA OwnBit ==
  ASSUME NEW t \in Temps, NEW u \in Temps, t \div W = u \div W, t % W = u % W
  PROVE  t = u
<1>1. t \in Nat /\ u \in Nat
  BY TempsAssumption
<1>2. PICK q \in Nat, r \in 0 .. W - 1 : t = W * q + r /\ t \div W = q /\ t % W = r
  BY <1>1, Division
<1>3. PICK v \in Nat, w \in 0 .. W - 1 : u = W * v + w /\ u \div W = v /\ u % W = w
  BY <1>1, Division
<1>4. q = v /\ r = w
  BY <1>2, <1>3
<1>5. QED
  BY <1>2, <1>3, <1>4

LEMMA WordsAre ==
  ASSUME NEW T \in SUBSET Temps
  PROVE  /\ DOMAIN Words(T) = WordNumbers
         /\ \A k \in WordNumbers : Words(T)[k] = {i % W : i \in {j \in T : j \div W = k}}
  BY DEF Words, AddAll, bitset_new, WordNumbers

(* What is on in the words of a set is the set. *)
LEMMA OnInWords ==
  ASSUME NEW T \in SUBSET Temps
  PROVE  On(Words(T)) = T
<1> SUFFICES ASSUME NEW t \in Temps
             PROVE  bitset_has(Words(T), t) <=> t \in T
  BY DEF On
<1>1. t \div W \in WordNumbers
  BY HasWord
<1>2. Words(T)[t \div W] = {i % W : i \in {j \in T : j \div W = t \div W}}
  BY <1>1, WordsAre
<1>3. ASSUME t % W \in Words(T)[t \div W] PROVE t \in T
  <2>1. PICK u \in T : u \div W = t \div W /\ u % W = t % W
    BY <1>2, <1>3
  <2>2. QED
    BY <2>1, OwnBit
<1>4. QED
  BY <1>1, <1>2, <1>3 DEF bitset_has

(* Two sets of the same words are the same. *)
LEMMA OneWordsForEach ==
  ASSUME NEW A \in SUBSET Temps, NEW B \in SUBSET Temps
  PROVE  bitset_equal(Words(A), Words(B)) <=> A = B
<1>1. ASSUME bitset_equal(Words(A), Words(B)) PROVE A = B
  <2>1. \A k \in WordNumbers : Words(A)[k] = Words(B)[k]
    BY <1>1, WordsAre DEF bitset_equal, Common
  <2>2. On(Words(A)) = On(Words(B))
    BY <2>1, HasWord DEF On, bitset_has
  <2>3. QED
    BY <2>2, OnInWords
<1>2. QED
  BY <1>1 DEF bitset_equal

LEMMA UnionWords ==
  ASSUME NEW A \in SUBSET Temps, NEW B \in SUBSET Temps
  PROVE  bitset_union(Words(A), Words(B)) = Words(A \union B)
<1>1. \A k \in WordNumbers : Words(A)[k] \union Words(B)[k] = Words(A \union B)[k]
  BY WordsAre
<1>2. DOMAIN Words(A) = WordNumbers /\ DOMAIN Words(B) = WordNumbers
  BY WordsAre
<1>3. bitset_union(Words(A), Words(B)) = [k \in WordNumbers |-> Words(A)[k] \union Words(B)[k]]
  BY <1>2 DEF bitset_union, Common
<1>4. Words(A \union B) = [k \in WordNumbers |-> Words(A \union B)[k]]
  BY DEF Words, AddAll, bitset_new, WordNumbers
<1>5. QED
  BY <1>1, <1>3, <1>4

LEMMA DiffWords ==
  ASSUME NEW A \in SUBSET Temps, NEW B \in SUBSET Temps
  PROVE  bitset_diff(Words(A), Words(B)) = Words(A \ B)
<1>1. ASSUME NEW k \in WordNumbers PROVE Words(A)[k] \ Words(B)[k] = Words(A \ B)[k]
  <2>1. \A b : b \in Words(A)[k] \ Words(B)[k] => b \in Words(A \ B)[k]
    BY WordsAre
  <2>2. ASSUME NEW b \in Words(A \ B)[k] PROVE b \in Words(A)[k] \ Words(B)[k]
    <3>1. PICK i \in A \ B : i \div W = k /\ i % W = b
      BY <2>2, WordsAre
    <3>2. ~ \E j \in B : j \div W = k /\ j % W = b
      BY <3>1, OwnBit
    <3>3. QED
      BY <3>1, <3>2, WordsAre
  <2>3. QED
    BY <2>1, <2>2
<1>2. DOMAIN Words(A) = WordNumbers /\ DOMAIN Words(B) = WordNumbers
  BY WordsAre
<1>3. bitset_diff(Words(A), Words(B)) = [k \in WordNumbers |-> Words(A)[k] \ Words(B)[k]]
  BY <1>2 DEF bitset_diff, Common
<1>4. Words(A \ B) = [k \in WordNumbers |-> Words(A \ B)[k]]
  BY DEF Words, AddAll, bitset_new, WordNumbers
<1>5. QED
  BY <1>1, <1>3, <1>4

LEMMA NewIsEmpty == bitset_new(TempCount) = Words({})
  BY DEF Words, AddAll, bitset_new

LEMMA CopyWords ==
  ASSUME NEW T \in SUBSET Temps
  PROVE  bitset_copy(Words(T)) = Words(T)
  BY DEF bitset_copy, Words, AddAll

-----------------------------------------------------------------------------
(* A node has one successor at most: a label is in the table once. *)
OneSuccessor == \A i \in Nodes : \A s, r \in succs[i] : s = r

(* Every node's bit sets are the words of what is on in them. *)
InWords ==
  /\ inBits = [i \in Nodes |-> Words(In[i])]
  /\ outBits = [i \in Nodes |-> Words(Out[i])]

BitInv ==
  /\ instrs \in Seq(Instr) \ {<<>>}
  /\ succs \in [Nodes -> SUBSET Nodes]
  /\ OneSuccessor
  /\ InWords

LEMMA OnIsTemps == \A s : On(s) \in SUBSET Temps
  BY DEF On

LEMMA BitInitInv == BitInit => BitInv
<1> SUFFICES ASSUME BitInit PROVE BitInv
  OBVIOUS
<1>1. instrs \in Seq(Instr) \ {<<>>} /\ succs = [i \in Nodes |-> {}]
  BY ProgramsAssumption DEF BitInit, Begin
<1>2. \A i \in Nodes : In[i] = {} /\ Out[i] = {} /\ inBits[i] = Words({}) /\ outBits[i] = Words({})
  BY NewIsEmpty, OnInWords DEF BitInit, In, Out
<1>3. InWords
  BY <1>2, NewIsEmpty DEF BitInit, InWords
<1>4. QED
  BY <1>1, <1>3 DEF BitInv, OneSuccessor

LEMMA BuildGraph ==
  ASSUME BitInv, Build
  PROVE  succs' \in [Nodes -> SUBSET Nodes] /\ OneSuccessor'
<1>1. Nodes' = Nodes /\ succs' = [i \in Nodes |-> Successors(i)]
  BY DEF Build, Nodes
<1>2. \A i \in Nodes : i \in Int
  BY DEF BitInv, Nodes
<1>3. ASSUME NEW i \in Nodes, NEW s \in Successors(i), NEW r \in Successors(i)
      PROVE  s = r
  <2>1. CASE instrs[i].jump # NoLabel
    <3>1. s \in NodesOf(instrs[i].jump) /\ r \in NodesOf(instrs[i].jump)
      BY <1>3, <2>1 DEF Successors
    <3>2. s \in Nodes /\ r \in Nodes /\ s <= r /\ r <= s
      BY <3>1 DEF NodesOf
    <3>3. QED
      BY <1>2, <3>2
  <2>2. CASE instrs[i].jump = NoLabel
    BY <1>3, <2>2 DEF Successors
  <2>3. QED
    BY <2>1, <2>2
<1>4. \A i \in Nodes : Successors(i) \in SUBSET Nodes
  BY DEF Successors, NodesOf
<1>5. QED
  BY <1>1, <1>3, <1>4 DEF OneSuccessor

(* The words of one round are those of the sets the equations name. *)
LEMMA RoundInWords ==
  ASSUME BitInv, NEW i \in Nodes
  PROVE  /\ Sets!NewOut(i) \in SUBSET Temps /\ Sets!NewIn(i) \in SUBSET Temps
         /\ new_out(i) = Words(Sets!NewOut(i)) /\ new_in(i) = Words(Sets!NewIn(i))
<1>1. \A s \in Nodes : In[s] \in SUBSET Temps
  BY OnIsTemps DEF In
<1>2. succs[i] \subseteq Nodes /\ \A s \in Nodes : inBits[s] = Words(In[s])
  BY DEF BitInv, InWords
<1>3. instrs[i].use \in SUBSET Temps /\ instrs[i].def \in SUBSET Temps
  <2>1. instrs \in Seq(Instr) /\ i \in DOMAIN instrs
    BY DEF BitInv, Nodes
  <2>2. instrs[i] \in Instr
    BY <2>1
  <2>3. QED
    BY <2>2 DEF Instr
<1>4. Sets!NewOut(i) \in SUBSET Temps /\ Sets!NewIn(i) \in SUBSET Temps
  BY <1>1, <1>2, <1>3 DEF Sets!NewOut, Sets!NewIn
<1>5. new_out(i) = Words(Sets!NewOut(i))
  <2>1. CASE succs[i] = {}
    BY <2>1, NewIsEmpty DEF new_out, Sets!NewOut
  <2>2. CASE succs[i] # {}
    <3> DEFINE c == CHOOSE s \in succs[i] : TRUE
    <3>1. c \in succs[i]
      BY <2>2
    <3>2. new_out(i) = bitset_union(bitset_new(TempCount), inBits[c])
      BY <2>2 DEF new_out
    <3> HIDE DEF c
    <3>3. Sets!NewOut(i) = In[c] /\ c \in Nodes
      BY <1>2, <3>1 DEF BitInv, OneSuccessor, Sets!NewOut
    <3>4. bitset_union(Words({}), Words(In[c])) = Words({} \union In[c])
      BY <1>1, <3>3, UnionWords
    <3>5. QED
      BY <1>2, <3>2, <3>3, <3>4, NewIsEmpty
  <2>3. QED
    BY <2>1, <2>2
<1>6. new_in(i) = Words(Sets!NewIn(i))
  <2> DEFINE o == Sets!NewOut(i)
  <2>1. new_in(i) = bitset_union(bitset_diff(Words(o), Words(instrs[i].def)), Words(instrs[i].use))
    BY <1>4, <1>5, CopyWords DEF new_in, Words
  <2>2. bitset_diff(Words(o), Words(instrs[i].def)) = Words(o \ instrs[i].def)
    BY <1>3, <1>4, DiffWords
  <2>3. bitset_union(Words(o \ instrs[i].def), Words(instrs[i].use))
          = Words((o \ instrs[i].def) \union instrs[i].use)
    BY <1>3, <1>4, UnionWords
  <2>4. (o \ instrs[i].def) \union instrs[i].use = Sets!NewIn(i)
    BY DEF Sets!NewIn
  <2>5. QED
    BY <2>1, <2>2, <2>3, <2>4
<1>7. QED
  BY <1>4, <1>5, <1>6

(* A round on the words is a round on the sets, whether it keeps the old   *)
(* words or takes the new ones.                                            *)
LEMMA VisitImplements ==
  ASSUME BitInv, BitVisit
  PROVE  BitInv' /\ Sets!Visit
<1> DEFINE newIn == Sets!NewIn(n)
           newOut == Sets!NewOut(n)
           equal == bitset_equal(new_in(n), inBits[n]) /\ bitset_equal(new_out(n), outBits[n])
<1>1. /\ Nodes' = Nodes /\ n \in Nodes /\ UNCHANGED <<instrs, succs, pc>>
      /\ Round(~ equal)
  BY DEF BitVisit, Round, Nodes
<1>2. newIn \in SUBSET Temps /\ newOut \in SUBSET Temps
      /\ new_in(n) = Words(newIn) /\ new_out(n) = Words(newOut)
  BY <1>1, RoundInWords
<1>3. /\ inBits = [i \in Nodes |-> Words(In[i])] /\ outBits = [i \in Nodes |-> Words(Out[i])]
      /\ \A i \in Nodes : In[i] \in SUBSET Temps /\ Out[i] \in SUBSET Temps
  BY OnIsTemps DEF BitInv, InWords, In, Out
<1>4. equal <=> newIn = In[n] /\ newOut = Out[n]
  <2> HIDE DEF newIn, newOut
  <2>1. inBits[n] = Words(In[n]) /\ outBits[n] = Words(Out[n])
    BY <1>1, <1>3
  <2>2. In[n] \in SUBSET Temps /\ Out[n] \in SUBSET Temps
    BY <1>1, <1>3
  <2>3. bitset_equal(Words(newIn), Words(In[n])) <=> newIn = In[n]
    BY <1>2, <2>2, OneWordsForEach
  <2>4. bitset_equal(Words(newOut), Words(Out[n])) <=> newOut = Out[n]
    BY <1>2, <2>2, OneWordsForEach
  <2>5. QED
    BY <1>2, <2>1, <2>3, <2>4
<1>5. IF equal THEN UNCHANGED <<inBits, outBits>>
               ELSE /\ inBits' = [inBits EXCEPT ![n] = Words(newIn)]
                    /\ outBits' = [outBits EXCEPT ![n] = Words(newOut)]
  BY <1>2 DEF BitVisit
<1> HIDE DEF newIn, newOut, equal
<1>6. In' = [In EXCEPT ![n] = newIn] /\ Out' = [Out EXCEPT ![n] = newOut] /\ InWords'
  <2>1. In' = [i \in Nodes |-> On(inBits'[i])] /\ Out' = [i \in Nodes |-> On(outBits'[i])]
    BY <1>1 DEF In, Out
  <2>2. In = [i \in Nodes |-> In[i]] /\ Out = [i \in Nodes |-> Out[i]]
    BY DEF In, Out
  <2>3. CASE equal
    <3>1. inBits' = inBits /\ outBits' = outBits /\ newIn = In[n] /\ newOut = Out[n]
      BY <1>4, <1>5, <2>3
    <3>2. In' = In /\ Out' = Out
      BY <1>1, <3>1 DEF In, Out
    <3>3. QED
      BY <1>1, <1>3, <2>2, <3>1, <3>2 DEF InWords
  <2>4. CASE ~ equal
    <3>1. /\ inBits' = [i \in Nodes |-> Words(IF i = n THEN newIn ELSE In[i])]
          /\ outBits' = [i \in Nodes |-> Words(IF i = n THEN newOut ELSE Out[i])]
      BY <1>1, <1>3, <1>5, <2>4
    <3>2. \A i \in Nodes : /\ On(inBits'[i]) = IF i = n THEN newIn ELSE In[i]
                           /\ On(outBits'[i]) = IF i = n THEN newOut ELSE Out[i]
      BY <1>2, <1>3, <3>1, OnInWords
    <3>3. /\ In' = [i \in Nodes |-> IF i = n THEN newIn ELSE In[i]]
          /\ Out' = [i \in Nodes |-> IF i = n THEN newOut ELSE Out[i]]
      BY <2>1, <3>2
    <3>4. InWords'
      BY <1>1, <3>1, <3>3 DEF InWords
    <3>5. QED
      BY <1>1, <2>2, <3>3, <3>4
  <2>5. QED
    BY <2>3, <2>4
<1>7. BitInv'
  BY <1>1, <1>6 DEF BitInv, OneSuccessor
<1>8. Sets!Round(newIn # In[n] \/ newOut # Out[n])
  BY <1>1, <1>4 DEF Round, Sets!Round, Nodes, Sets!Nodes
<1>9. QED
  BY <1>6, <1>7, <1>8 DEF Sets!Visit, newIn, newOut

LEMMA BitStepImplements ==
  ASSUME BitInv, [BitNext]_bitVars
  PROVE  BitInv' /\ [Sets!Next]_Sets!vars
<1>1. CASE BitBuild
  <2>1. Build /\ UNCHANGED <<inBits, outBits>> /\ Nodes' = Nodes
    BY <1>1 DEF BitBuild, Build, Nodes
  <2>2. UNCHANGED <<In, Out>>
    BY <2>1 DEF In, Out
  <2>3. BitInv'
    <3>1. InWords'
      BY <2>1, <2>2 DEF BitInv, InWords
    <3>2. instrs' = instrs
      BY <2>1 DEF Build
    <3>3. QED
      BY <2>1, <3>1, <3>2, BuildGraph DEF BitInv
  <2>4. Sets!cfg_build
    BY <2>1, <2>2 DEF Sets!cfg_build, Sets!Build, Build, Sets!Successors, Successors, Sets!NodesOf, NodesOf,
                      Sets!Nodes, Nodes
  <2>5. QED
    BY <2>3, <2>4 DEF Sets!Next
<1>2. CASE BitVisit
  BY <1>2, VisitImplements DEF Sets!Next
<1>3. CASE BitEndPass
  <2>1. End /\ UNCHANGED <<inBits, outBits>> /\ Nodes' = Nodes /\ UNCHANGED <<instrs, succs>>
    BY <1>3 DEF BitEndPass, End, Nodes
  <2>2. UNCHANGED <<In, Out>>
    BY <2>1 DEF In, Out
  <2>3. BitInv'
    BY <2>1, <2>2 DEF BitInv, InWords, OneSuccessor
  <2>4. Sets!EndPass
    BY <2>1, <2>2 DEF Sets!EndPass, Sets!End, End, Sets!Nodes, Nodes
  <2>5. QED
    BY <2>3, <2>4 DEF Sets!Next
<1>4. CASE UNCHANGED bitVars
  <2>1. UNCHANGED <<instrs, succs, inBits, outBits, n, changed, pc>> /\ Nodes' = Nodes
    BY <1>4 DEF bitVars, Nodes
  <2>2. UNCHANGED <<In, Out>>
    BY <2>1 DEF In, Out
  <2>3. BitInv'
    BY <2>1, <2>2 DEF BitInv, InWords, OneSuccessor
  <2>4. QED
    BY <2>1, <2>2, <2>3 DEF Sets!vars
<1>5. QED
  BY <1>1, <1>2, <1>3, <1>4 DEF BitNext

(* The words of bitset.c do what the sets do: for every word size, every   *)
(* temp_count that is no multiple of it and every instruction list, the    *)
(* passes on words implement the passes on sets, no element lost, none put *)
(* in, and a change seen exactly where there is one.  So what is proved of *)
(* Spec holds of liveness.c as it runs.                                    *)
THEOREM WordsImplementSets == BitSpec => ImplementsSets
<1>1. BitInit => Sets!Init
  <2> SUFFICES ASSUME BitInit PROVE Sets!Init
    OBVIOUS
  <2>1. \A i \in Nodes : In[i] = {} /\ Out[i] = {}
    BY NewIsEmpty, OnInWords DEF BitInit, In, Out
  <2>2. In = [i \in Nodes |-> {}] /\ Out = [i \in Nodes |-> {}]
    BY <2>1 DEF In, Out
  <2>3. QED
    BY <2>2 DEF BitInit, Begin, Sets!Init, Sets!Begin, Sets!Nodes, Nodes
<1>2. BitInv /\ [BitNext]_bitVars => BitInv' /\ [Sets!Next]_Sets!vars
  BY BitStepImplements
<1>3. QED
  BY <1>1, <1>2, BitInitInv, PTL DEF BitSpec, ImplementsSets, Sets!Spec
=============================================================================
