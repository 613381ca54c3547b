-------------------------- MODULE StaticLinkProofs --------------------------
(***************************************************************************)
(* Proofs about StaticLink, for programs with any number of functions and  *)
(* any number of activations.                                              *)
(*                                                                         *)
(* The invariant says of the program that the path of a function agrees,   *)
(* entry by entry, with the paths of the functions on it; of the           *)
(* activations the same of lex; and of a walk that it stands on the        *)
(* activation as many levels above the goal as there are loads left.       *)
(***************************************************************************)
EXTENDS StaticLink, TLAPS

(* The path of f among the functions F. *)
PathOK(F, f) ==
  LET path == F[f].path
  IN  /\ Len(path) > 0
      /\ path[Len(path)] = f
      /\ f # Main <=> Len(path) > 1
      /\ \A i \in 1 .. Len(path) :
           /\ path[i] \in DOMAIN F
           /\ Len(F[path[i]].path) = i
           /\ \A j \in 1 .. i : F[path[i]].path[j] = path[j]
      /\ \A i \in 1 .. Len(path) - 1 : F[path[i]].begun

(* The depths of f. *)
DepthOK(F, f) ==
  /\ F[f].entry = Len(F[f].path) - 1
  /\ F[f].begun => F[f].depth = Len(F[f].path) - 1

(* g may be called from f: it is declared in f or in a function around f. *)
CallOK(F, f, g) ==
  /\ g \in DOMAIN F
  /\ g # Main
  /\ Len(F[g].path) - 1 <= Len(F[f].path)
  /\ F[f].path[Len(F[g].path) - 1] = F[g].path[Len(F[g].path) - 1]

(* Activation a among A. *)
ActOK(F, A, a) ==
  LET fn == A[a].fn
      lex == A[a].lex
  IN  /\ fn \in DOMAIN F
      /\ Len(lex) = Len(F[fn].path)
      /\ lex[Len(lex)] = a
      /\ fn # Main => A[a].link = lex[Len(lex) - 1]
      /\ \A i \in 1 .. Len(lex) :
           /\ lex[i] \in 1 .. a
           /\ A[lex[i]].fn = F[fn].path[i]
           /\ Len(A[lex[i]].lex) = i
           /\ \A j \in 1 .. i : A[lex[i]].lex[j] = lex[j]

FuncsOK == \A f \in DOMAIN func : PathOK(func, f) /\ DepthOK(func, f)

CallsOK == \A f \in DOMAIN func : \A g \in func[f].sees : CallOK(func, f, g)

OpenOK ==
  phase = "compile" =>
    LET inner == open[Len(open)]
    IN  /\ inner \in DOMAIN func
        /\ func[inner].begun
        /\ Len(open) = Len(func[inner].path)
        /\ \A i \in 1 .. Len(open) : open[i] = func[inner].path[i]
        /\ current_depth = Len(open) - 1
        /\ acts = <<>>
        /\ walk = Idle

RunOK == phase = "run" => \A f \in DOMAIN func : func[f].begun

ActsOK == \A a \in DOMAIN acts : ActOK(func, acts, a)

WalkOK ==
  IF walk.for = "NOTHING"
    THEN walk = Idle
    ELSE /\ phase = "run"
         /\ Level \in Nat \ {0}
         /\ Level + walk.left <= Len(acts[Len(acts)].lex)
         /\ walk.ptr = acts[Len(acts)].lex[Level + walk.left]
         /\ walk.for = "CALL" =>
              walk.of \in func[acts[Len(acts)].fn].sees /\ Len(acts) < MaxActs

IInv == TypeOK /\ FuncsOK /\ CallsOK /\ OpenOK /\ RunOK /\ ActsOK /\ WalkOK

-----------------------------------------------------------------------------
(* PathOK taken apart, and put together. *)
LEMMA PathUse ==
  ASSUME NEW F, NEW f, PathOK(F, f), NEW i \in 1 .. Len(F[f].path)
  PROVE  /\ F[f].path[i] \in DOMAIN F
         /\ Len(F[F[f].path[i]].path) = i
         /\ \A j \in 1 .. i : F[F[f].path[i]].path[j] = F[f].path[j]
BY DEF PathOK

LEMMA PathMake ==
  ASSUME NEW F, NEW f,
         Len(F[f].path) > 0, F[f].path[Len(F[f].path)] = f,
         f # Main <=> Len(F[f].path) > 1,
         \A i \in 1 .. Len(F[f].path) :
           /\ F[f].path[i] \in DOMAIN F
           /\ Len(F[F[f].path[i]].path) = i
           /\ \A j \in 1 .. i : F[F[f].path[i]].path[j] = F[f].path[j],
         \A i \in 1 .. Len(F[f].path) - 1 : F[F[f].path[i]].begun
  PROVE  PathOK(F, f)
BY DEF PathOK

LEMMA InitOK == Init => IInv
<1> SUFFICES ASSUME Init PROVE IInv
  OBVIOUS
<1> USE BoundsAssumption DEF Init, Main
<1>1. TypeOK
  BY DEF TypeOK, Funcs, Function, Activation, Idle
<1>2. FuncsOK
  <2>1. /\ DOMAIN func = {1} /\ func[1].path = <<1>> /\ Len(func[1].path) = 1
        /\ func[1].path[1] = 1 /\ func[1].entry = 0 /\ func[1].depth = 0
    OBVIOUS
  <2> HIDE DEF Init
  <2>2. PathOK(func, 1)
    <3>1. \A i \in 1 .. 1 : /\ func[1].path[i] = 1 /\ i = 1
                             /\ \A j \in 1 .. i : j = 1
      BY <2>1
    <3>2. 1 .. 1 - 1 = {}
      OBVIOUS
    <3>3. /\ Len(func[1].path) > 0 /\ func[1].path[Len(func[1].path)] = 1
          /\ 1 # Main <=> Len(func[1].path) > 1
      BY <2>1
    <3>4. \A i \in 1 .. Len(func[1].path) :
            /\ func[1].path[i] \in DOMAIN func
            /\ Len(func[func[1].path[i]].path) = i
            /\ \A j \in 1 .. i : func[func[1].path[i]].path[j] = func[1].path[j]
      BY <2>1, <3>1
    <3>5. \A i \in 1 .. Len(func[1].path) - 1 : func[func[1].path[i]].begun
      BY <2>1, <3>2
    <3> QED BY <3>3, <3>4, <3>5, PathMake, Zenon
  <2>3. DepthOK(func, 1)
    BY <2>1 DEF DepthOK
  <2> QED BY <2>1, <2>2, <2>3 DEF FuncsOK
<1>3. CallsOK /\ OpenOK /\ RunOK /\ ActsOK /\ WalkOK
  BY DEF CallsOK, OpenOK, RunOK, ActsOK, WalkOK, Idle
<1> QED BY <1>1, <1>2, <1>3 DEF IInv

(* What holds of a function still holds when others are added and none     *)
(* changes its path.                                                       *)
LEMMA PathKept ==
  ASSUME NEW m \in Nat, NEW n \in Nat, m <= n,
         NEW F \in [1 .. m -> Function], NEW G \in [1 .. n -> Function],
         \A h \in 1 .. m : G[h].path = F[h].path /\ (F[h].begun => G[h].begun),
         NEW f \in 1 .. m, PathOK(F, f)
  PROVE  PathOK(G, f)
<1>1. PICK path \in Seq(Funcs) : path = F[f].path
  BY DEF Function
<1>2. G[f].path = path /\ \A i \in 1 .. Len(path) : path[i] \in 1 .. m /\ path[i] \in 1 .. n
  <2>1. \A i \in 1 .. Len(path) : path[i] \in DOMAIN F
    BY <1>1 DEF PathOK
  <2> QED BY <1>1, <2>1
<1>3. \A i \in 1 .. Len(path) : G[path[i]].path = F[path[i]].path
  BY <1>2
<1>4. \A i \in 1 .. Len(path) - 1 : G[path[i]].begun
  <2>1. \A i \in 1 .. Len(path) - 1 : F[path[i]].begun
    BY <1>1 DEF PathOK
  <2> QED BY <1>1, <1>2, <2>1
<1>5. \A i \in 1 .. Len(path) :
        /\ Len(G[path[i]].path) = i
        /\ \A j \in 1 .. i : G[path[i]].path[j] = path[j]
  <2>1. \A i \in 1 .. Len(path) :
          /\ Len(F[path[i]].path) = i
          /\ \A j \in 1 .. i : F[path[i]].path[j] = path[j]
    BY <1>1 DEF PathOK
  <2> QED BY <1>3, <2>1
<1>6. Len(path) > 0 /\ path[Len(path)] = f /\ (f # Main <=> Len(path) > 1)
  BY <1>1 DEF PathOK
<1> QED BY <1>2, <1>4, <1>5, <1>6 DEF PathOK

LEMMA CallKept ==
  ASSUME NEW m \in Nat, NEW n \in Nat, m <= n,
         NEW F \in [1 .. m -> Function], NEW G \in [1 .. n -> Function],
         \A h \in 1 .. m : G[h].path = F[h].path,
         NEW f \in 1 .. m, NEW g, CallOK(F, f, g)
  PROVE  CallOK(G, f, g)
<1>1. g \in 1 .. m /\ g \in 1 .. n
  BY DEF CallOK
<1>2. G[f].path = F[f].path /\ G[g].path = F[g].path
  BY <1>1
<1> QED BY <1>1, <1>2 DEF CallOK

(* Two functions of which the second is declared in the first or around    *)
(* it: the paths agree up to the one that declares it.                     *)
LEMMA SharedPath ==
  ASSUME NEW m \in Nat, NEW F \in [1 .. m -> Function],
         NEW f \in 1 .. m, NEW g \in 1 .. m,
         PathOK(F, f), PathOK(F, g), CallOK(F, f, g)
  PROVE  /\ Len(F[g].path) - 1 \in 1 .. Len(F[f].path)
         /\ \A j \in 1 .. Len(F[g].path) - 1 : F[f].path[j] = F[g].path[j]
<1>1. PICK p \in Seq(Funcs), q \in Seq(Funcs) : p = F[f].path /\ q = F[g].path
  BY DEF Function
<1>2. PICK k \in Int : k = Len(q) - 1
  <2>1. Len(q) \in Nat
    BY <1>1
  <2> QED BY <2>1
<1>3. k \in 1 .. Len(p) /\ k \in 1 .. Len(q) /\ p[k] = q[k]
  <2>1. Len(q) > 1
    BY <1>1 DEF PathOK, CallOK
  <2>2. Len(q) - 1 <= Len(p) /\ p[Len(q) - 1] = q[Len(q) - 1]
    BY <1>1 DEF CallOK
  <2>3. Len(p) \in Nat /\ Len(q) \in Nat
    OBVIOUS
  <2>4. k \in 1 .. Len(p) /\ k \in 1 .. Len(q)
    BY <1>2, <2>1, <2>2, <2>3
  <2> QED BY <1>2, <2>2, <2>4
<1>4. \A j \in 1 .. k : F[p[k]].path[j] = p[j]
  BY <1>1, <1>3 DEF PathOK
<1>5. \A j \in 1 .. k : F[q[k]].path[j] = q[j]
  BY <1>1, <1>3 DEF PathOK
<1>6. \A j \in 1 .. k : p[j] = q[j]
  BY <1>3, <1>4, <1>5
<1> QED BY <1>1, <1>2, <1>3, <1>6

-----------------------------------------------------------------------------
(* The program text. *)
(* The open functions are the path of the innermost. *)
LEMMA OpenPath ==
  ASSUME IInv, phase = "compile"
  PROVE  /\ Len(open) \in Nat /\ Len(open) > 0
         /\ Inner \in DOMAIN func /\ Len(open) = Len(func[Inner].path)
         /\ \A i \in 1 .. Len(open) :
              /\ open[i] \in DOMAIN func
              /\ Len(func[open[i]].path) = i
              /\ \A j \in 1 .. i : func[open[i]].path[j] = open[j]
              /\ func[open[i]].begun
<1>1. /\ Len(open) \in Nat /\ Len(open) > 0
  BY DEF IInv, TypeOK
<1>2. PICK inner \in DOMAIN func :
        /\ inner = open[Len(open)]
        /\ func[inner].begun /\ Len(open) = Len(func[inner].path)
        /\ \A i \in 1 .. Len(open) : open[i] = func[inner].path[i]
  BY DEF IInv, OpenOK
<1>3. PathOK(func, inner)
  BY <1>2 DEF IInv, FuncsOK
<1>4. ASSUME NEW i \in 1 .. Len(open)
      PROVE  /\ open[i] \in DOMAIN func
             /\ Len(func[open[i]].path) = i
             /\ \A j \in 1 .. i : func[open[i]].path[j] = open[j]
             /\ func[open[i]].begun
  <2>1. i \in 1 .. Len(func[inner].path)
    BY <1>2
  <2>2. /\ func[inner].path[i] \in DOMAIN func
        /\ Len(func[func[inner].path[i]].path) = i
        /\ \A j \in 1 .. i : func[func[inner].path[i]].path[j] = func[inner].path[j]
    BY <1>3, <2>1, PathUse
  <2>3. open[i] = func[inner].path[i] /\ \A j \in 1 .. i : open[j] = func[inner].path[j]
    <3>1. i \in 1 .. Len(open) /\ 1 .. i \subseteq 1 .. Len(open)
      BY <1>1
    <3> QED BY <1>2, <3>1
  <2>4. i < Len(open) => func[open[i]].begun
    <3>1. \A k \in 1 .. Len(open) - 1 : func[func[inner].path[k]].begun
      BY <1>2, <1>3 DEF PathOK
    <3>2. i < Len(open) => i \in 1 .. Len(open) - 1
      BY <1>1
    <3> QED BY <2>3, <3>1, <3>2
  <2>5. i = Len(open) => func[open[i]].begun
    BY <1>2
  <2> QED BY <1>1, <2>2, <2>3, <2>4, <2>5
<1> QED BY <1>1, <1>2, <1>4 DEF Inner

LEMMA HeaderOK == IInv /\ trans_dec_header => IInv'
<1> SUFFICES ASSUME IInv, trans_dec_header PROVE IInv'
  OBVIOUS
<1> USE BoundsAssumption
<1>0. PICK m \in Nat, n \in Nat : m = Len(func) /\ n = m + 1
  BY DEF IInv, TypeOK
<1>1. func \in Seq(Function) /\ func \in [1 .. m -> Function] /\ DOMAIN func = 1 .. m
  BY <1>0 DEF IInv, TypeOK
<1>2. n \in Funcs /\ 1 .. m \subseteq Funcs
  BY <1>0 DEF trans_dec_header, Funcs
<1>3. open \in Seq(Funcs) /\ Len(open) \in Nat /\ Len(open) > 0
  BY DEF IInv, TypeOK
<1>4. /\ phase = "compile" /\ phase' = "compile" /\ open' = open
      /\ current_depth' = current_depth /\ acts' = acts /\ walk' = walk
      /\ acts = <<>> /\ walk = Idle
      /\ current_depth \in Nat /\ current_depth = Len(open) - 1
  BY DEF IInv, OpenOK, trans_dec_header, TypeOK
<1>5. PICK path \in Seq(Funcs) : path = Append(open, n)
  <2>1. Append(open, n) \in Seq(Funcs)
    BY <1>2, <1>3
  <2> QED BY <2>1
<1>6. /\ Len(path) = Len(open) + 1 /\ path[Len(path)] = n
      /\ \A i \in 1 .. Len(open) : path[i] = open[i]
  BY <1>3, <1>5
<1>7. PICK new \in Function :
        new = [entry |-> current_depth + 1, depth |-> 0, begun |-> FALSE,
               path |-> path, sees |-> {}]
  <2>1. [entry |-> current_depth + 1, depth |-> 0, begun |-> FALSE,
         path |-> path, sees |-> {}] \in Function
    BY <1>4 DEF Function
  <2> QED BY <2>1
<1>8. func' = Append(func, new)
  BY <1>0, <1>5, <1>7 DEF trans_dec_header
<1>9. /\ func' \in Seq(Function) /\ Len(func') = n /\ func' \in [1 .. n -> Function]
      /\ DOMAIN func' = 1 .. n
      /\ func'[n] = new
      /\ \A f \in 1 .. m : func'[f] = func[f]
  <2>1. func' \in Seq(Function) /\ Len(func') = n
    BY <1>0, <1>1, <1>8
  <2>2. func'[n] = new /\ \A f \in 1 .. m : func'[f] = func[f]
    BY <1>0, <1>1, <1>8
  <2> QED BY <2>1, <2>2
<1>10. TypeOK'
  BY <1>2, <1>3, <1>4, <1>9 DEF IInv, TypeOK, Idle
<1>11. \A i \in 1 .. Len(open) :
         /\ open[i] \in 1 .. m
         /\ Len(func[open[i]].path) = i
         /\ \A j \in 1 .. i : func[open[i]].path[j] = open[j]
         /\ func[open[i]].begun
  BY <1>1, <1>4, OpenPath
<1>12. PathOK(func', n) /\ DepthOK(func', n)
  <2>1. \A i \in 1 .. Len(open) : func'[path[i]] = func[open[i]]
    BY <1>6, <1>9, <1>11
  <2>2. new.path = path /\ new.entry = Len(path) - 1 /\ ~new.begun
    BY <1>3, <1>4, <1>6, <1>7
  <2>3. ASSUME NEW i \in 1 .. Len(path)
        PROVE  /\ path[i] \in 1 .. n
               /\ Len(func'[path[i]].path) = i
               /\ \A j \in 1 .. i : func'[path[i]].path[j] = path[j]
    <3>1. CASE i \in 1 .. Len(open)
      BY <3>1, <1>0, <1>3, <1>6, <1>11, <2>1
    <3>2. CASE i = Len(path)
      BY <3>2, <1>0, <1>6, <1>9, <2>2
    <3> QED BY <3>1, <3>2, <1>3, <1>6
  <2>4. \A i \in 1 .. Len(path) - 1 : func'[path[i]].begun
    BY <1>3, <1>6, <1>11, <2>1
  <2>5. Len(path) > 1 /\ n # Main
    <3>1. m > 0
      BY <1>0 DEF IInv, TypeOK, Funcs
    <3> QED BY <1>0, <1>3, <1>6, <3>1 DEF Main
  <2>6. PathOK(func', n)
    BY <1>6, <1>9, <2>2, <2>3, <2>4, <2>5 DEF PathOK
  <2> QED BY <1>9, <2>2, <2>6 DEF DepthOK
<1>13. FuncsOK'
  <2>1. \A f \in 1 .. m : PathOK(func', f)
    <3> SUFFICES ASSUME NEW f \in 1 .. m PROVE PathOK(func', f)
      OBVIOUS
    <3>1. PathOK(func, f)
      BY <1>1 DEF IInv, FuncsOK
    <3>2. \A h \in 1 .. m : func'[h].path = func[h].path /\ (func[h].begun => func'[h].begun)
      BY <1>9
    <3>3. m <= n
      BY <1>0
    <3> QED BY <1>1, <1>9, <3>1, <3>2, <3>3, PathKept
  <2>2. \A f \in 1 .. m : DepthOK(func', f)
    BY <1>1, <1>9 DEF IInv, FuncsOK, DepthOK
  <2> QED BY <1>0, <1>9, <1>12, <2>1, <2>2 DEF FuncsOK
<1>14. CallsOK'
  <2>1. ASSUME NEW f \in 1 .. m, NEW g \in func[f].sees PROVE CallOK(func', f, g)
    <3>1. CallOK(func, f, g)
      BY <1>1 DEF IInv, CallsOK
    <3>2. \A h \in 1 .. m : func'[h].path = func[h].path
      BY <1>9
    <3>3. m <= n /\ func \in [1 .. m -> Function] /\ func' \in [1 .. n -> Function]
      BY <1>0, <1>1, <1>9
    <3> QED BY <3>1, <3>2, <3>3, CallKept
  <2>2. func'[n].sees = {}
    BY <1>7, <1>9
  <2> QED BY <1>0, <1>9, <2>1, <2>2 DEF CallsOK
<1>15. OpenOK'
  BY <1>0, <1>1, <1>3, <1>4, <1>9 DEF IInv, OpenOK
<1>16. RunOK' /\ ActsOK' /\ WalkOK'
  BY <1>4 DEF RunOK, ActsOK, WalkOK, Idle
<1> QED BY <1>10, <1>13, <1>14, <1>15, <1>16 DEF IInv

(* Where a function is declared. *)
LEMMA ParentPath ==
  ASSUME IInv, NEW f \in DOMAIN func, f # Main
  PROVE  /\ Len(func[f].path) \in Nat /\ Len(func[f].path) > 1
         /\ Parent(f) = func[f].path[Len(func[f].path) - 1]
         /\ Parent(f) \in DOMAIN func
         /\ Len(func[Parent(f)].path) = Len(func[f].path) - 1
         /\ \A j \in 1 .. Len(func[f].path) - 1 : func[Parent(f)].path[j] = func[f].path[j]
<1>1. PathOK(func, f) /\ Len(func[f].path) \in Nat
  <2>1. func \in Seq(Function)
    BY DEF IInv, TypeOK
  <2>2. func[f] \in Function
    BY <2>1
  <2>3. func[f].path \in Seq(Funcs)
    BY <2>2 DEF Function
  <2>4. PathOK(func, f)
    BY DEF IInv, FuncsOK
  <2> QED BY <2>3, <2>4
<1>2. Len(func[f].path) > 1
  BY <1>1 DEF PathOK
<1>3. Parent(f) = func[f].path[Len(func[f].path) - 1]
  BY DEF Parent, Nesting
<1>4. PICK k \in 1 .. Len(func[f].path) : k = Len(func[f].path) - 1
  <2> DEFINE len == Len(func[f].path)
  <2>1. len \in Nat /\ len > 1
    BY <1>1, <1>2
  <2> HIDE DEF len
  <2>2. len - 1 \in 1 .. len
    BY <2>1
  <2> QED BY <2>2 DEF len
<1>5. /\ func[f].path[k] \in DOMAIN func
      /\ Len(func[func[f].path[k]].path) = k
      /\ \A j \in 1 .. k : func[func[f].path[k]].path[j] = func[f].path[j]
  BY <1>1, PathUse
<1> QED BY <1>1, <1>2, <1>3, <1>4, <1>5

LEMMA BeginBodyOK == ASSUME IInv, NEW f \in DOMAIN func, BeginBody(f) PROVE IInv'
<1> USE BoundsAssumption
<1>0. PICK m \in Nat : m = Len(func)
  BY DEF IInv, TypeOK
<1>1. func \in Seq(Function) /\ func \in [1 .. m -> Function] /\ DOMAIN func = 1 .. m
  BY <1>0 DEF IInv, TypeOK
<1>2. f \in Funcs /\ open \in Seq(Funcs) /\ Len(open) \in Nat /\ Len(open) > 0
  BY <1>0, <1>1 DEF IInv, TypeOK, Funcs
<1>3. /\ phase = "compile" /\ phase' = "compile" /\ acts' = acts /\ walk' = walk
      /\ acts = <<>> /\ walk = Idle
      /\ current_depth \in Nat /\ current_depth = Len(open) - 1
      /\ current_depth' = current_depth + 1
      /\ open' = Append(open, f) /\ f # Main /\ Parent(f) = Inner
  BY DEF IInv, OpenOK, BeginBody, TypeOK
<1>4. /\ Inner \in 1 .. m /\ Len(open) = Len(func[Inner].path)
      /\ open[Len(open)] = Inner /\ func[Inner].begun
      /\ \A i \in 1 .. Len(open) : open[i] = func[Inner].path[i]
  <2>1. Len(open) \in 1 .. Len(open)
    BY <1>2
  <2>2. Inner = open[Len(open)]
    BY DEF Inner
  <2> QED BY <1>1, <1>3, <2>1, <2>2, OpenPath
<1>5. /\ Len(func[f].path) = Len(open) + 1 /\ func[f].path[Len(open) + 1] = f
      /\ \A j \in 1 .. Len(open) : func[f].path[j] = open[j]
  <2>1. Len(func[Inner].path) = Len(func[f].path) - 1 /\ Len(func[f].path) \in Nat
    BY <1>3, ParentPath
  <2>2. \A j \in 1 .. Len(func[f].path) - 1 : func[Inner].path[j] = func[f].path[j]
    BY <1>3, ParentPath
  <2>3. func[f].path[Len(func[f].path)] = f
    BY DEF IInv, FuncsOK, PathOK
  <2> QED BY <1>2, <1>4, <2>1, <2>2, <2>3
<1>6. PICK d \in Nat : d = func[Inner].depth + 1
  <2>1. func[Inner] \in Function
    BY <1>1, <1>4
  <2>2. func[Inner].depth \in Nat
    BY <2>1 DEF Function
  <2> QED BY <2>2
<1>7. PICK new \in Function : new = [func[f] EXCEPT !.begun = TRUE, !.depth = d]
  <2>1. [func[f] EXCEPT !.begun = TRUE, !.depth = d] \in Function
    BY <1>1 DEF Function
  <2> QED BY <2>1
<1>8. /\ new.path = func[f].path /\ new.sees = func[f].sees /\ new.entry = func[f].entry
      /\ new.begun /\ new.depth = d
  <2>1. func[f] \in Function
    BY <1>1
  <2> QED BY <1>7, <2>1 DEF Function
<1>9. func' = [func EXCEPT ![f] = new]
  BY <1>1, <1>6, <1>7 DEF BeginBody
<1>10. /\ func' \in Seq(Function) /\ Len(func') = m /\ func' \in [1 .. m -> Function]
       /\ DOMAIN func' = 1 .. m /\ func'[f] = new
       /\ \A h \in 1 .. m : h # f => func'[h] = func[h]
  BY <1>0, <1>1, <1>9
<1>11. \A h \in 1 .. m :
         /\ func'[h].path = func[h].path /\ func'[h].sees = func[h].sees
         /\ func[h].begun => func'[h].begun
  BY <1>8, <1>10
<1>12. TypeOK'
  <2>1. open' \in Seq(Funcs) /\ open' # <<>>
    BY <1>2, <1>3
  <2> QED BY <1>0, <1>2, <1>3, <1>10, <2>1 DEF IInv, TypeOK, Idle
<1>13. FuncsOK'
  <2>1. ASSUME NEW h \in 1 .. m PROVE PathOK(func', h)
    <3>1. PathOK(func, h) /\ m <= m
      BY <1>1 DEF IInv, FuncsOK
    <3> QED BY <1>1, <1>10, <1>11, <3>1, PathKept
  <2>2. ASSUME NEW h \in 1 .. m PROVE DepthOK(func', h)
    <3>1. DepthOK(func, h) /\ DepthOK(func, Inner)
      BY <1>1, <1>4 DEF IInv, FuncsOK
    <3>2. CASE h # f
      BY <1>10, <3>1, <3>2 DEF DepthOK
    <3>3. CASE h = f
      <4>1. func[Inner].depth = Len(open) - 1
        BY <1>4, <3>1 DEF DepthOK
      <4>2. func[f].entry = Len(func[f].path) - 1
        BY <3>1, <3>3 DEF DepthOK
      <4>3. /\ func'[f].entry = func[f].entry /\ func'[f].path = func[f].path
            /\ func'[f].depth = d
        BY <1>8, <1>10
      <4>4. d = Len(func[f].path) - 1
        BY <1>2, <1>5, <1>6, <4>1
      <4> QED BY <3>3, <4>2, <4>3, <4>4 DEF DepthOK
    <3> QED BY <3>2, <3>3
  <2> QED BY <1>10, <2>1, <2>2 DEF FuncsOK
<1>14. CallsOK'
  <2>1. ASSUME NEW h \in 1 .. m, NEW g \in func'[h].sees PROVE CallOK(func', h, g)
    <3>1. CallOK(func, h, g) /\ m <= m
      BY <1>1, <1>11 DEF IInv, CallsOK
    <3>2. \A k \in 1 .. m : func'[k].path = func[k].path
      BY <1>11
    <3> QED BY <1>1, <1>10, <3>1, <3>2, CallKept
  <2> QED BY <1>10, <2>1 DEF CallsOK
<1>15. OpenOK'
  <2>1. /\ Len(open') = Len(open) + 1 /\ open'[Len(open')] = f
        /\ \A i \in 1 .. Len(open) : open'[i] = open[i]
    BY <1>2, <1>3
  <2>2. \A i \in 1 .. Len(open') : open'[i] = func[f].path[i]
    BY <1>2, <1>5, <2>1
  <2> QED BY <1>1, <1>2, <1>3, <1>5, <1>8, <1>10, <2>1, <2>2 DEF OpenOK
<1>16. RunOK' /\ ActsOK' /\ WalkOK'
  BY <1>3 DEF RunOK, ActsOK, WalkOK, Idle
<1> QED BY <1>12, <1>13, <1>14, <1>15, <1>16 DEF IInv

(* What a body sees at its end is declared in it or around it. *)
LEMMA VisibleOK ==
  ASSUME IInv, phase = "compile", NEW g \in Visible
  PROVE  CallOK(func, Inner, g)
<1>1. g \in DOMAIN func /\ g # Main
  BY DEF Visible
<1>2. PICK i \in 1 .. Len(open) : Parent(g) = open[i]
  BY DEF Visible, IInv, TypeOK
<1>3. /\ Len(func[Parent(g)].path) = i
      /\ Len(open) = Len(func[Inner].path)
      /\ Inner \in DOMAIN func /\ Len(open) \in Nat
      /\ open[i] = func[Inner].path[i]
  <2>1. /\ Len(func[open[i]].path) = i /\ Len(open) = Len(func[Inner].path)
        /\ Inner \in DOMAIN func /\ Len(open) \in Nat /\ Len(open) > 0
    BY OpenPath
  <2>2. Len(open) \in 1 .. Len(open) /\ open[Len(open)] = Inner
    BY <2>1 DEF Inner
  <2>3. \A j \in 1 .. Len(open) : func[Inner].path[j] = open[j]
    BY <2>1, <2>2, OpenPath
  <2> QED BY <1>2, <2>1, <2>3
<1>4. /\ Len(func[g].path) - 1 = i
      /\ Parent(g) = func[g].path[Len(func[g].path) - 1]
  BY <1>1, <1>3, ParentPath
<1> QED BY <1>1, <1>2, <1>3, <1>4 DEF CallOK

(* The end of a body, which leaves all but what it sees as it is. *)
SeesSet == func' = [func EXCEPT ![Inner].sees = Visible]

LEMMA SeesKept ==
  ASSUME IInv, phase = "compile", SeesSet
  PROVE  /\ func' \in Seq(Function) /\ Len(func') = Len(func) /\ DOMAIN func' = DOMAIN func
         /\ \A h \in DOMAIN func : func'[h].path = func[h].path /\ func'[h].begun = func[h].begun
         /\ FuncsOK' /\ CallsOK'
<1>0. PICK m \in Nat : m = Len(func)
  BY DEF IInv, TypeOK
<1>1. func \in Seq(Function) /\ func \in [1 .. m -> Function] /\ DOMAIN func = 1 .. m
  BY <1>0 DEF IInv, TypeOK
<1>2. PICK inner \in 1 .. m : inner = Inner
  BY <1>1, OpenPath
<1>3. 1 .. m \subseteq Funcs /\ Visible \subseteq Funcs
  <2>1. m \in 1 .. MaxFuncs
    BY <1>0 DEF IInv, TypeOK, Funcs
  <2>2. 1 .. m \subseteq Funcs
    BY <2>1, BoundsAssumption DEF Funcs
  <2>3. Visible \subseteq 1 .. m
    BY <1>1 DEF Visible
  <2> QED BY <2>2, <2>3
<1>4. PICK new \in Function : new = [func[inner] EXCEPT !.sees = Visible]
  <2>1. [func[inner] EXCEPT !.sees = Visible] \in Function
    BY <1>1, <1>3 DEF Function
  <2> QED BY <2>1
<1>5. /\ new.path = func[inner].path /\ new.sees = Visible /\ new.entry = func[inner].entry
      /\ new.begun = func[inner].begun /\ new.depth = func[inner].depth
  <2>1. func[inner] \in Function
    BY <1>1
  <2> QED BY <1>4, <2>1 DEF Function
<1>6. func' = [func EXCEPT ![inner] = new]
  BY <1>1, <1>2, <1>4 DEF SeesSet
<1>7. /\ func' \in Seq(Function) /\ Len(func') = m /\ func' \in [1 .. m -> Function]
      /\ DOMAIN func' = 1 .. m /\ func'[inner] = new
      /\ \A h \in 1 .. m : h # inner => func'[h] = func[h]
  <2>1. func' \in Seq(Function) /\ Len(func') = m
    BY <1>0, <1>1, <1>6
  <2>2. func'[inner] = new /\ \A h \in 1 .. m : h # inner => func'[h] = func[h]
    BY <1>1, <1>6
  <2> QED BY <2>1, <2>2
<1>8. \A h \in 1 .. m :
         /\ func'[h].path = func[h].path /\ func'[h].begun = func[h].begun
         /\ func'[h].entry = func[h].entry /\ func'[h].depth = func[h].depth
  BY <1>5, <1>7
<1>9. FuncsOK'
  <2>1. ASSUME NEW h \in 1 .. m PROVE PathOK(func', h)
    <3>1. PathOK(func, h)
      BY <1>1 DEF IInv, FuncsOK
    <3>2. \A k \in 1 .. m : func'[k].path = func[k].path /\ (func[k].begun => func'[k].begun)
      BY <1>8
    <3>3. m <= m
      OBVIOUS
    <3> QED BY <1>1, <1>7, <3>1, <3>2, <3>3, PathKept
  <2>2. ASSUME NEW h \in 1 .. m PROVE DepthOK(func', h)
    <3>1. DepthOK(func, h)
      BY <1>1 DEF IInv, FuncsOK
    <3> QED BY <1>8, <3>1 DEF DepthOK
  <2> QED BY <1>7, <2>1, <2>2 DEF FuncsOK
<1>10. CallsOK'
  <2>1. ASSUME NEW h \in 1 .. m, NEW g \in func'[h].sees PROVE CallOK(func', h, g)
    <3>1. CallOK(func, h, g)
      <4>1. CASE h = inner
        BY <1>2, <1>5, <1>7, <4>1, VisibleOK
      <4>2. CASE h # inner
        BY <1>1, <1>7, <4>2 DEF IInv, CallsOK
      <4> QED BY <4>1, <4>2
    <3>2. \A k \in 1 .. m : func'[k].path = func[k].path
      BY <1>8
    <3>3. m <= m
      OBVIOUS
    <3> QED BY <1>1, <1>7, <3>1, <3>2, <3>3, CallKept
  <2> QED BY <1>7, <2>1 DEF CallsOK
<1> QED BY <1>0, <1>1, <1>7, <1>8, <1>9, <1>10

LEMMA EndBodyOK == IInv /\ EndBody => IInv'
<1> SUFFICES ASSUME IInv, EndBody PROVE IInv'
  OBVIOUS
<1>1. /\ phase = "compile" /\ phase' = "compile" /\ acts' = acts /\ walk' = walk
      /\ acts = <<>> /\ walk = Idle /\ Len(open) > 1
      /\ current_depth \in Nat /\ current_depth = Len(open) - 1
      /\ current_depth' = current_depth - 1
      /\ open \in Seq(Funcs) /\ Len(open) \in Nat
      /\ open' = SubSeq(open, 1, Len(open) - 1)
      /\ SeesSet
  BY DEF IInv, OpenOK, EndBody, TypeOK, SeesSet
<1>2. /\ func' \in Seq(Function) /\ Len(func') = Len(func) /\ DOMAIN func' = DOMAIN func
      /\ \A h \in DOMAIN func : func'[h].path = func[h].path /\ func'[h].begun = func[h].begun
      /\ FuncsOK' /\ CallsOK'
  BY <1>1, SeesKept
<1>3. PICK k \in Nat : k = Len(open) - 1 /\ k \in 1 .. Len(open)
  <2>1. Len(open) - 1 \in Nat /\ Len(open) - 1 \in 1 .. Len(open)
    BY <1>1
  <2> QED BY <2>1
<1>4. /\ open' \in Seq(Funcs) /\ Len(open') = k /\ \A i \in 1 .. k : open'[i] = open[i]
  BY <1>1, <1>3
<1>5. TypeOK'
  <2>1. open' # <<>>
    BY <1>3, <1>4
  <2> QED BY <1>1, <1>2, <1>4, <2>1 DEF IInv, TypeOK, Idle
<1>6. OpenOK'
  <2>1. /\ open[k] \in DOMAIN func /\ Len(func[open[k]].path) = k
        /\ \A j \in 1 .. k : func[open[k]].path[j] = open[j]
        /\ func[open[k]].begun
    BY <1>1, <1>3, OpenPath
  <2>2. open'[Len(open')] = open[k]
    BY <1>3, <1>4
  <2>3. /\ open'[Len(open')] \in DOMAIN func' /\ func'[open'[Len(open')]].begun
        /\ Len(func'[open'[Len(open')]].path) = k
        /\ \A i \in 1 .. k : func'[open'[Len(open')]].path[i] = open[i]
    BY <1>2, <2>1, <2>2
  <2>4. current_depth' = Len(open') - 1
    BY <1>1, <1>3, <1>4
  <2> QED BY <1>1, <1>4, <2>3, <2>4 DEF OpenOK
<1>7. RunOK' /\ ActsOK' /\ WalkOK'
  BY <1>1 DEF RunOK, ActsOK, WalkOK, Idle
<1> QED BY <1>2, <1>5, <1>6, <1>7 DEF IInv

(* The end of the program text: every function has its body, and the       *)
(* activation of _main stands alone.                                       *)
LEMMA RunActionOK == IInv /\ Run => IInv'
<1> SUFFICES ASSUME IInv, Run PROVE IInv'
  OBVIOUS
<1>1. /\ phase = "compile" /\ phase' = "run" /\ open = <<Main>> /\ open' = open
      /\ current_depth' = current_depth /\ walk' = walk /\ walk = Idle
      /\ \A g \in DOMAIN func : func[g].begun
      /\ acts' = <<[fn |-> Main, link |-> 0, lex |-> <<1>>]>>
  BY DEF IInv, OpenOK, Run
<1>2. Inner = Main /\ Main \in DOMAIN func /\ Len(func[Main].path) = 1
  <2>1. Inner = Main /\ Len(open) = 1
    BY <1>1 DEF Inner
  <2> QED BY <1>1, <2>1, OpenPath
<1>3. SeesSet
  BY <1>2 DEF Run, SeesSet
<1>4. /\ func' \in Seq(Function) /\ Len(func') = Len(func) /\ DOMAIN func' = DOMAIN func
      /\ \A h \in DOMAIN func : func'[h].path = func[h].path /\ func'[h].begun = func[h].begun
      /\ FuncsOK' /\ CallsOK'
  BY <1>1, <1>3, SeesKept
<1>5. PICK act \in Activation : act = [fn |-> Main, link |-> 0, lex |-> <<1>>]
  <2>1. [fn |-> Main, link |-> 0, lex |-> <<1>>] \in Activation
    BY BoundsAssumption DEF Activation, Main, Funcs
  <2> QED BY <2>1
<1>6. acts' = <<act>>
  BY <1>1, <1>5
<1>7. /\ acts' \in Seq(Activation) /\ Len(acts') = 1 /\ acts' # <<>> /\ DOMAIN acts' = {1}
      /\ acts'[1] = act
  BY <1>6
<1>8. TypeOK'
  BY <1>1, <1>4, <1>7, BoundsAssumption DEF IInv, TypeOK, Idle
<1>9. ActOK(func', acts', 1)
  <2>1. /\ act.fn = Main /\ act.lex = <<1>> /\ Len(act.lex) = 1 /\ act.lex[1] = 1
    BY <1>5
  <2>2. func'[Main].path[1] = Main /\ Len(func'[Main].path) = 1
    BY <1>2, <1>4 DEF FuncsOK, PathOK
  <2>3. \A i \in 1 .. 1 : i = 1
    OBVIOUS
  <2>4. 1 \in 1 .. 1
    OBVIOUS
  <2> QED BY <1>2, <1>4, <1>7, <2>1, <2>2, <2>3, <2>4 DEF ActOK
<1>10. ActsOK'
  BY <1>7, <1>9 DEF ActsOK
<1>11. OpenOK' /\ RunOK' /\ WalkOK'
  BY <1>1, <1>4 DEF OpenOK, RunOK, WalkOK, Idle
<1> QED BY <1>4, <1>8, <1>10, <1>11 DEF IInv

-----------------------------------------------------------------------------
(* The run. *)
(* The running activation: as many activations around it as functions      *)
(* around its own.                                                         *)
LEMMA RunningOK ==
  ASSUME IInv, phase = "run"
  PROVE  /\ Top \in Nat /\ Top > 0 /\ Top <= MaxActs /\ Top \in DOMAIN acts
         /\ acts[Top] \in Activation /\ ActOK(func, acts, Top)
         /\ acts[Top].fn \in DOMAIN func
         /\ Nesting(acts[Top].fn) \in Nat /\ Nesting(acts[Top].fn) > 0
         /\ Len(acts[Top].lex) = Nesting(acts[Top].fn)
         /\ acts[Top].lex[Nesting(acts[Top].fn)] = Top
         /\ Running.depth = Nesting(acts[Top].fn) - 1
<1>1. Top \in Nat /\ Top > 0 /\ Top <= MaxActs /\ Top \in DOMAIN acts /\ acts[Top] \in Activation
  BY DEF IInv, TypeOK, Top
<1>2. ActOK(func, acts, Top)
  BY <1>1 DEF IInv, ActsOK
<1>3. PICK f \in DOMAIN func : f = acts[Top].fn
  BY <1>2 DEF ActOK
<1>4. PathOK(func, f) /\ DepthOK(func, f) /\ func[f].begun /\ func[f] \in Function
  BY DEF IInv, FuncsOK, RunOK, TypeOK
<1>5. Len(func[f].path) \in Nat /\ Len(func[f].path) > 0
  BY <1>4 DEF PathOK, Function
<1>6. Len(acts[Top].lex) = Len(func[f].path) /\ acts[Top].lex[Len(func[f].path)] = Top
  BY <1>2, <1>3 DEF ActOK
<1>7. Running = func[f]
  BY <1>3 DEF Running
<1>8. func[f].depth = Len(func[f].path) - 1
  BY <1>4 DEF DepthOK
<1> QED BY <1>1, <1>2, <1>3, <1>5, <1>6, <1>7, <1>8 DEF Nesting

(* All but the walk is as it was. *)
LEMMA WalkOnly ==
  ASSUME IInv, phase = "run", UNCHANGED <<phase, open, func, current_depth, acts>>,
         walk' \in [for : {"NOTHING", "CALL", "ACCESS"}, of : Funcs, ptr : 1 .. MaxActs, left : Nat],
         walk'.for # "NOTHING" => walk'.ptr \in DOMAIN acts /\ walk'.of \in DOMAIN func,
         WalkOK'
  PROVE  IInv'
<1>1. TypeOK'
  BY DEF IInv, TypeOK
<1>2. FuncsOK' /\ CallsOK' /\ ActsOK'
  BY DEF IInv, FuncsOK, CallsOK, ActsOK
<1>3. OpenOK' /\ RunOK'
  BY DEF IInv, OpenOK, RunOK
<1> QED BY <1>1, <1>2, <1>3 DEF IInv

LEMMA BeginCallOK == ASSUME IInv, NEW g \in DOMAIN func, BeginCall(g) PROVE IInv'
<1>1. /\ phase = "run" /\ g \in Running.sees /\ Top < MaxActs
      /\ UNCHANGED <<phase, open, func, current_depth, acts>>
      /\ walk' = [for |-> "CALL", of |-> g, ptr |-> Top, left |-> CallHops(g)]
  BY DEF BeginCall
<1>2. /\ Top \in Nat /\ Top > 0 /\ Top <= MaxActs /\ Top \in DOMAIN acts
      /\ acts[Top].fn \in DOMAIN func
      /\ Len(acts[Top].lex) = Nesting(acts[Top].fn)
      /\ acts[Top].lex[Nesting(acts[Top].fn)] = Top
      /\ Running.depth = Nesting(acts[Top].fn) - 1
  BY <1>1, RunningOK
<1>3. PICK n \in Nat : n = Nesting(acts[Top].fn)
  BY <1>1, RunningOK
<1>4. CallOK(func, acts[Top].fn, g)
  BY <1>1, <1>2 DEF IInv, CallsOK, Running
<1>5. PICK k \in Nat : k = Nesting(g)
  <2>1. func[g] \in Function
    BY DEF IInv, TypeOK
  <2>2. Len(func[g].path) \in Nat
    BY <2>1 DEF Function
  <2> QED BY <2>2 DEF Nesting
<1>6. k > 1 /\ k - 1 <= n /\ func[g].entry = k - 1
  <2>1. PathOK(func, g) /\ DepthOK(func, g)
    BY DEF IInv, FuncsOK
  <2>2. k > 1
    BY <1>4, <1>5, <2>1 DEF PathOK, CallOK, Nesting
  <2>3. k - 1 <= n
    BY <1>3, <1>4, <1>5 DEF CallOK, Nesting
  <2> QED BY <1>5, <2>1, <2>2, <2>3 DEF DepthOK, Nesting
<1>7. CallHops(g) = n - (k - 1) /\ CallHops(g) \in Nat
  BY <1>2, <1>3, <1>6 DEF CallHops, Rounds
<1>8. /\ walk' \in [for : {"NOTHING", "CALL", "ACCESS"}, of : Funcs, ptr : 1 .. MaxActs, left : Nat]
      /\ walk'.for = "CALL" /\ walk'.of = g /\ walk'.ptr = Top /\ walk'.left = n - (k - 1)
  <2>1. func \in Seq(Function) /\ Len(func) \in 1 .. MaxFuncs
    BY DEF IInv, TypeOK, Funcs
  <2>2. g \in Funcs
    BY <2>1, BoundsAssumption DEF Funcs
  <2>3. Top \in 1 .. MaxActs
    BY <1>2, BoundsAssumption
  <2> QED BY <1>1, <1>7, <2>2, <2>3
<1>9. Level' = k - 1
  BY <1>1, <1>5, <1>8 DEF Level, Nesting
<1>10. WalkOK'
  <2>1. walk'.for # "NOTHING" /\ phase' = "run" /\ acts' = acts /\ func' = func
    BY <1>1, <1>8
  <2>2. Level' \in Nat \ {0} /\ Level' + walk'.left = n
    BY <1>6, <1>8, <1>9
  <2>3. Len(acts[Len(acts)].lex) = n /\ acts[Len(acts)].lex[n] = walk'.ptr
    BY <1>2, <1>3, <1>8 DEF Top
  <2>4. walk'.of \in func[acts[Len(acts)].fn].sees /\ Len(acts) < MaxActs
    BY <1>1, <1>8 DEF Top, Running
  <2> QED BY <2>1, <2>2, <2>3, <2>4 DEF WalkOK
<1> QED BY <1>1, <1>2, <1>8, <1>10, WalkOnly

LEMMA BeginAccessOK == ASSUME IInv, NEW h \in DOMAIN func, BeginAccess(h) PROVE IInv'
<1>1. /\ phase = "run" /\ \E i \in DOMAIN Running.path : Running.path[i] = h
      /\ UNCHANGED <<phase, open, func, current_depth, acts>>
      /\ walk' = [for |-> "ACCESS", of |-> h, ptr |-> Top, left |-> AccessHops(h)]
  BY DEF BeginAccess
<1>2. /\ Top \in Nat /\ Top > 0 /\ Top <= MaxActs /\ Top \in DOMAIN acts
      /\ acts[Top].fn \in DOMAIN func
      /\ Len(acts[Top].lex) = Nesting(acts[Top].fn)
      /\ acts[Top].lex[Nesting(acts[Top].fn)] = Top
      /\ Running.depth = Nesting(acts[Top].fn) - 1
  BY <1>1, RunningOK
<1>3. PICK n \in Nat : n = Nesting(acts[Top].fn)
  BY <1>1, RunningOK
<1>4. PICK k \in 1 .. n : Running.path[k] = h
  <2>1. Running.path \in Seq(Funcs) /\ Len(Running.path) = n
    <3>1. func[acts[Top].fn] \in Function
      BY <1>2 DEF IInv, TypeOK
    <3> QED BY <1>3, <3>1 DEF Function, Running, Nesting
  <2> QED BY <1>1, <2>1
<1>5. Nesting(h) = k
  <2>1. PathOK(func, acts[Top].fn)
    BY <1>2 DEF IInv, FuncsOK
  <2>2. k \in 1 .. Len(func[acts[Top].fn].path) /\ func[acts[Top].fn].path[k] = h
    BY <1>3, <1>4 DEF Nesting, Running
  <2> QED BY <2>1, <2>2, PathUse DEF Nesting
<1>6. func[h].depth = k - 1
  <2>1. DepthOK(func, h) /\ func[h].begun
    BY <1>1 DEF IInv, FuncsOK, RunOK
  <2> QED BY <1>5, <2>1 DEF DepthOK, Nesting
<1>7. AccessHops(h) = n - k /\ AccessHops(h) \in Nat
  BY <1>2, <1>3, <1>4, <1>6 DEF AccessHops, Rounds
<1>8. /\ walk' \in [for : {"NOTHING", "CALL", "ACCESS"}, of : Funcs, ptr : 1 .. MaxActs, left : Nat]
      /\ walk'.for = "ACCESS" /\ walk'.of = h /\ walk'.ptr = Top /\ walk'.left = n - k
  <2>1. func \in Seq(Function) /\ Len(func) \in 1 .. MaxFuncs
    BY DEF IInv, TypeOK, Funcs
  <2>2. h \in Funcs
    BY <2>1, BoundsAssumption DEF Funcs
  <2>3. Top \in 1 .. MaxActs
    BY <1>2, BoundsAssumption
  <2> QED BY <1>1, <1>7, <2>2, <2>3
<1>9. Level' = k
  BY <1>1, <1>5, <1>8 DEF Level, Nesting
<1>10. WalkOK'
  <2>1. walk'.for # "NOTHING" /\ walk'.for # "CALL" /\ phase' = "run" /\ acts' = acts /\ func' = func
    BY <1>1, <1>8
  <2>2. Level' \in Nat \ {0} /\ Level' + walk'.left = n
    BY <1>4, <1>8, <1>9
  <2>3. Len(acts[Len(acts)].lex) = n /\ acts[Len(acts)].lex[n] = walk'.ptr
    BY <1>2, <1>3, <1>8 DEF Top
  <2> QED BY <2>1, <2>2, <2>3 DEF WalkOK
<1> QED BY <1>1, <1>2, <1>8, <1>10, WalkOnly

(* One load: the activation whose lex has p entries is linked to the one   *)
(* before it in lex.                                                       *)
LEMMA LinkStep ==
  ASSUME IInv, NEW a \in DOMAIN acts, ActOK(func, acts, a),
         NEW p \in 1 .. Len(acts[a].lex), p > 1
  PROVE  acts[acts[a].lex[p]].link = acts[a].lex[p - 1]
<1>1. PICK b : b = acts[a].lex[p]
  OBVIOUS
<1>2. a \in Nat /\ a >= 1 /\ DOMAIN acts = 1 .. Len(acts) /\ Len(acts) \in Nat /\ a <= Len(acts)
  BY DEF IInv, TypeOK
<1>3. /\ b \in 1 .. a /\ Len(acts[b].lex) = p
      /\ \A j \in 1 .. p : acts[b].lex[j] = acts[a].lex[j]
  BY <1>1 DEF ActOK
<1>4. b \in DOMAIN acts
  BY <1>2, <1>3
<1>5. ActOK(func, acts, b)
  BY <1>4 DEF IInv, ActsOK
<1>6. PICK f \in DOMAIN func : f = acts[b].fn /\ Len(func[f].path) = p
  BY <1>3, <1>5 DEF ActOK
<1>7. f # Main
  BY <1>6 DEF IInv, FuncsOK, PathOK
<1>8. acts[b].link = acts[b].lex[p - 1]
  BY <1>3, <1>5, <1>6, <1>7 DEF ActOK
<1>9. p - 1 \in 1 .. p
  <2>1. p \in Nat
    BY DEF IInv, TypeOK, Activation
  <2> QED BY <2>1
<1> QED BY <1>1, <1>3, <1>8, <1>9

LEMMA HopOK == IInv /\ Hop => IInv'
<1> SUFFICES ASSUME IInv, Hop PROVE IInv'
  OBVIOUS
<1>1. /\ walk.left > 0 /\ walk' = [walk EXCEPT !.ptr = acts[walk.ptr].link, !.left = walk.left - 1]
      /\ UNCHANGED <<phase, open, func, current_depth, acts>>
  BY DEF Hop
<1>2. walk \in [for : {"NOTHING", "CALL", "ACCESS"}, of : Funcs, ptr : 1 .. MaxActs, left : Nat]
  BY DEF IInv, TypeOK
<1>3. /\ walk.for # "NOTHING" /\ phase = "run"
      /\ walk.of \in DOMAIN func
      /\ Level \in Nat \ {0}
      /\ Level + walk.left <= Len(acts[Top].lex)
      /\ walk.ptr = acts[Top].lex[Level + walk.left]
      /\ walk.for = "CALL" => walk.of \in func[acts[Top].fn].sees /\ Len(acts) < MaxActs
  <2>1. walk.for # "NOTHING"
    BY <1>1 DEF IInv, WalkOK, Idle
  <2> QED BY <2>1 DEF IInv, TypeOK, WalkOK, Top
<1>4. /\ Top \in Nat /\ Top > 0 /\ Top <= MaxActs /\ Top \in DOMAIN acts
      /\ ActOK(func, acts, Top) /\ acts[Top] \in Activation
  BY <1>3, RunningOK
<1>5. PICK p \in Nat : p = Level + walk.left /\ p > 1
  <2>1. Level + walk.left \in Nat /\ Level + walk.left > 1
    BY <1>1, <1>2, <1>3
  <2> QED BY <2>1
<1>6. PICK lex \in Seq(1 .. MaxActs) : lex = acts[Top].lex
  BY <1>4 DEF Activation
<1>7. p \in 1 .. Len(lex) /\ p - 1 \in 1 .. Len(lex)
  BY <1>3, <1>5, <1>6
<1>8. acts[walk.ptr].link = lex[p - 1]
  BY <1>3, <1>4, <1>5, <1>6, <1>7, LinkStep
<1>9. /\ walk' \in [for : {"NOTHING", "CALL", "ACCESS"}, of : Funcs, ptr : 1 .. MaxActs, left : Nat]
      /\ walk'.for = walk.for /\ walk'.of = walk.of /\ walk'.ptr = lex[p - 1]
      /\ walk'.left = walk.left - 1
  <2>1. lex[p - 1] \in 1 .. MaxActs
    <3>1. PICK S : S = 1 .. MaxActs
      OBVIOUS
    <3>2. lex \in Seq(S)
      BY <1>6, <3>1
    <3>3. \A i \in 1 .. Len(lex) : lex[i] \in S
      BY <3>2
    <3> QED BY <1>7, <3>1, <3>3, Zenon
  <2>2. walk.left - 1 \in Nat
    BY <1>1, <1>2
  <2> QED BY <1>1, <1>2, <1>8, <2>1, <2>2
<1>10. Level' = Level
  BY <1>1, <1>9 DEF Level, Nesting
<1>11. lex[p - 1] \in DOMAIN acts
  <2>1. lex[p - 1] \in 1 .. Top
    BY <1>4, <1>6, <1>7 DEF ActOK
  <2> QED BY <1>4, <2>1 DEF IInv, TypeOK, Top
<1>12. WalkOK'
  <2>1. walk'.for # "NOTHING" /\ phase' = "run" /\ acts' = acts /\ func' = func
    BY <1>1, <1>3, <1>9
  <2>2. Level' \in Nat \ {0} /\ Level' + walk'.left = p - 1
    BY <1>2, <1>3, <1>5, <1>9, <1>10
  <2>3. acts[Len(acts)].lex = lex /\ p - 1 <= Len(lex)
    BY <1>6, <1>7 DEF Top
  <2>4. walk'.for = "CALL" => walk'.of \in func[acts[Len(acts)].fn].sees /\ Len(acts) < MaxActs
    BY <1>3, <1>9 DEF Top
  <2> QED BY <1>9, <2>1, <2>2, <2>3, <2>4 DEF WalkOK
<1> QED BY <1>1, <1>3, <1>9, <1>11, <1>12, WalkOnly

LEMMA EndAccessOK == IInv /\ EndAccess => IInv'
<1> SUFFICES ASSUME IInv, EndAccess PROVE IInv'
  OBVIOUS
<1>1. /\ walk.for # "NOTHING" /\ walk' = Idle /\ walk'.for = "NOTHING"
      /\ UNCHANGED <<phase, open, func, current_depth, acts>>
  BY DEF EndAccess, Idle
<1>2. phase = "run"
  BY <1>1 DEF IInv, WalkOK
<1>3. walk' \in [for : {"NOTHING", "CALL", "ACCESS"}, of : Funcs, ptr : 1 .. MaxActs, left : Nat]
  BY <1>1, BoundsAssumption DEF Idle, Funcs, Main
<1>4. WalkOK'
  BY <1>1 DEF WalkOK
<1> QED BY <1>1, <1>2, <1>3, <1>4, WalkOnly

(* An activation looks only at itself and the ones before it. *)
LEMMA ActKept ==
  ASSUME NEW F, NEW A, NEW B, NEW a \in Nat \ {0}, ActOK(F, A, a),
         \A b \in 1 .. a : B[b] = A[b]
  PROVE  ActOK(F, B, a)
<1>1. B[a] = A[a]
  <2>1. a \in 1 .. a
    OBVIOUS
  <2> QED BY <2>1
<1>2. \A i \in 1 .. Len(A[a].lex) : B[A[a].lex[i]] = A[A[a].lex[i]]
  BY DEF ActOK
<1>3. PICK lex, fn : lex = A[a].lex /\ fn = A[a].fn
  OBVIOUS
<1>4. /\ fn \in DOMAIN F /\ Len(lex) = Len(F[fn].path) /\ lex[Len(lex)] = a
      /\ fn # Main => A[a].link = lex[Len(lex) - 1]
  BY <1>3 DEF ActOK
<1>5. \A i \in 1 .. Len(lex) :
        /\ lex[i] \in 1 .. a
        /\ A[lex[i]].fn = F[fn].path[i]
        /\ Len(A[lex[i]].lex) = i
        /\ \A j \in 1 .. i : A[lex[i]].lex[j] = lex[j]
  BY <1>3 DEF ActOK
<1>6. B[a].lex = lex /\ B[a].fn = fn /\ B[a].link = A[a].link
  BY <1>1, <1>3
<1>7. \A i \in 1 .. Len(lex) : B[lex[i]] = A[lex[i]]
  BY <1>2, <1>3
<1>8. /\ fn \in DOMAIN F /\ Len(B[a].lex) = Len(F[fn].path)
      /\ B[a].lex[Len(B[a].lex)] = a
      /\ fn # Main => B[a].link = B[a].lex[Len(B[a].lex) - 1]
  BY <1>4, <1>6
<1>9. \A i \in 1 .. Len(B[a].lex) :
        /\ B[a].lex[i] \in 1 .. a
        /\ B[B[a].lex[i]].fn = F[fn].path[i]
        /\ Len(B[B[a].lex[i]].lex) = i
        /\ \A j \in 1 .. i : B[B[a].lex[i]].lex[j] = B[a].lex[j]
  BY <1>5, <1>6, <1>7
<1> QED BY <1>6, <1>8, <1>9 DEF ActOK

LEMMA ReturnOK == IInv /\ Return => IInv'
<1> SUFFICES ASSUME IInv, Return PROVE IInv'
  OBVIOUS
<1>1. /\ phase = "run" /\ walk = Idle /\ Top > 1 /\ acts' = SubSeq(acts, 1, Top - 1)
      /\ UNCHANGED <<phase, open, func, current_depth, walk>>
  BY DEF Return
<1>2. PICK k \in Nat : k = Len(acts) - 1 /\ k > 0 /\ k <= MaxActs
  <2>1. Len(acts) - 1 \in Nat /\ Len(acts) - 1 > 0 /\ Len(acts) - 1 <= MaxActs
    BY <1>1, BoundsAssumption DEF Top, IInv, TypeOK
  <2> QED BY <2>1
<1>3. /\ acts' \in Seq(Activation) /\ Len(acts') = k /\ acts' # <<>> /\ DOMAIN acts' = 1 .. k
      /\ \A a \in 1 .. k : acts'[a] = acts[a]
  <2>1. acts \in Seq(Activation) /\ acts' = SubSeq(acts, 1, k) /\ k <= Len(acts)
    BY <1>1, <1>2 DEF Top, IInv, TypeOK
  <2>2. acts' \in Seq(Activation) /\ Len(acts') = k
    BY <1>2, <2>1
  <2>3. \A a \in 1 .. k : acts'[a] = acts[a]
    BY <1>2, <2>1
  <2> QED BY <1>2, <2>2, <2>3
<1>4. TypeOK'
  BY <1>1, <1>2, <1>3 DEF IInv, TypeOK, Idle
<1>5. ActsOK'
  <2>1. ASSUME NEW a \in 1 .. k PROVE ActOK(func, acts', a)
    <3>1. a \in DOMAIN acts
      BY <1>2 DEF IInv, TypeOK
    <3>2. ActOK(func, acts, a)
      BY <3>1 DEF IInv, ActsOK
    <3>3. \A b \in 1 .. a : acts'[b] = acts[b]
      BY <1>2, <1>3
    <3> QED BY <3>2, <3>3, ActKept
  <2> QED BY <1>1, <1>3, <2>1 DEF ActsOK
<1>6. FuncsOK' /\ CallsOK' /\ OpenOK' /\ RunOK' /\ WalkOK'
  BY <1>1 DEF IInv, FuncsOK, CallsOK, OpenOK, RunOK, WalkOK, Idle
<1> QED BY <1>4, <1>5, <1>6 DEF IInv

(* The new activation has around it what is around the declaring function  *)
(* of the callee where the caller runs, and itself.                        *)
LEMMA EndCallOK == IInv /\ EndCall => IInv'
<1> SUFFICES ASSUME IInv, EndCall PROVE IInv'
  OBVIOUS
<1>1. /\ walk.for = "CALL" /\ walk.left = 0 /\ walk' = Idle
      /\ acts' = Append(acts, [fn |-> walk.of, link |-> walk.ptr,
                               lex |-> Append(acts[Meant].lex, Top + 1)])
      /\ UNCHANGED <<phase, open, func, current_depth>>
  BY DEF EndCall
<1>2. /\ phase = "run" /\ walk.of \in DOMAIN func
      /\ Level \in Nat \ {0} /\ Level = Nesting(walk.of) - 1
      /\ Level + walk.left <= Len(acts[Top].lex)
      /\ walk.ptr = acts[Top].lex[Level + walk.left]
      /\ walk.of \in func[acts[Top].fn].sees /\ Len(acts) < MaxActs
  <2>1. Level = Nesting(walk.of) - 1
    BY <1>1 DEF Level
  <2>2. walk.for # "NOTHING"
    BY <1>1
  <2> QED BY <1>1, <2>1, <2>2 DEF IInv, TypeOK, WalkOK, Top
<1>3. /\ Top \in Nat /\ Top > 0 /\ Top < MaxActs /\ Top \in DOMAIN acts
      /\ ActOK(func, acts, Top) /\ acts[Top] \in Activation
      /\ acts[Top].fn \in DOMAIN func
  BY <1>2, RunningOK DEF Top
<1>4. PICK L \in Nat \ {0} : L = Level
  BY <1>2
<1>5. PICK top \in Nat \ {0} : top = Top
  BY <1>3
<1>6. PICK lex \in Seq(1 .. MaxActs) : lex = acts[top].lex
  BY <1>3, <1>5 DEF Activation
<1>7. PICK f \in DOMAIN func, g \in DOMAIN func : f = acts[top].fn /\ g = walk.of
  BY <1>2, <1>3, <1>5
<1>8. L \in 1 .. Len(lex) /\ walk.ptr = lex[L] /\ Meant = lex[L]
  <2>1. L <= Len(lex) /\ walk.ptr = lex[L]
    BY <1>1, <1>2, <1>4, <1>5, <1>6
  <2> QED BY <1>4, <1>5, <1>6, <2>1 DEF Meant
<1>9. PICK b \in 1 .. top : b = lex[L]
  BY <1>3, <1>5, <1>6, <1>8 DEF ActOK
<1>10. /\ b \in DOMAIN acts /\ Len(acts[b].lex) = L
       /\ \A j \in 1 .. L : acts[b].lex[j] = lex[j]
  <2>1. b \in DOMAIN acts
    BY <1>3, <1>5, <1>9 DEF IInv, TypeOK
  <2> QED BY <1>3, <1>5, <1>6, <1>8, <1>9, <2>1 DEF ActOK
<1>11. PICK new \in Seq(1 .. MaxActs) : new = Append(acts[b].lex, top + 1)
  <2>1. acts[b].lex \in Seq(1 .. MaxActs)
    <3>1. acts[b] \in Activation
      BY <1>10 DEF IInv, TypeOK
    <3> QED BY <3>1 DEF Activation
  <2>2. top + 1 \in 1 .. MaxActs
    BY <1>3, <1>5, BoundsAssumption
  <2>3. Append(acts[b].lex, top + 1) \in Seq(1 .. MaxActs)
    BY <2>1, <2>2
  <2> QED BY <2>3
<1>12. /\ Len(new) = L + 1 /\ new[L + 1] = top + 1
       /\ \A j \in 1 .. L : new[j] = lex[j]
  <2>1. acts[b].lex \in Seq(1 .. MaxActs)
    <3>1. acts[b] \in Activation
      BY <1>10 DEF IInv, TypeOK
    <3> QED BY <3>1 DEF Activation
  <2>2. /\ Len(new) = L + 1 /\ new[L + 1] = top + 1
        /\ \A j \in 1 .. L : new[j] = acts[b].lex[j]
    BY <1>4, <1>10, <1>11, <2>1
  <2> QED BY <1>10, <2>2
<1>13. PICK act \in Activation : act = [fn |-> g, link |-> b, lex |-> new]
  <2>1. g \in Funcs /\ b \in 0 .. MaxActs
    <3>1. Len(func) \in 1 .. MaxFuncs /\ DOMAIN func = 1 .. Len(func)
      BY DEF IInv, TypeOK, Funcs
    <3> QED BY <1>3, <1>5, <3>1, BoundsAssumption DEF Funcs
  <2>2. [fn |-> g, link |-> b, lex |-> new] \in Activation
    BY <2>1 DEF Activation
  <2> QED BY <2>2
<1>14. acts' = Append(acts, act)
  BY <1>1, <1>5, <1>7, <1>8, <1>9, <1>11, <1>13
<1>15. /\ acts' \in Seq(Activation) /\ Len(acts') = top + 1 /\ DOMAIN acts' = 1 .. top + 1
       /\ acts' # <<>> /\ acts'[top + 1] = act
       /\ \A a \in 1 .. top : acts'[a] = acts[a]
  <2>1. acts \in Seq(Activation) /\ Len(acts) = top
    BY <1>5 DEF IInv, TypeOK, Top
  <2>2. acts' \in Seq(Activation) /\ Len(acts') = top + 1
    BY <1>14, <2>1
  <2>3. acts'[top + 1] = act /\ \A a \in 1 .. top : acts'[a] = acts[a]
    BY <1>14, <2>1
  <2> QED BY <2>2, <2>3
<1>16. TypeOK'
  <2>1. Len(acts') <= MaxActs
    BY <1>3, <1>5, <1>15, BoundsAssumption
  <2>2. /\ walk' \in [for : {"NOTHING", "CALL", "ACCESS"}, of : Funcs, ptr : 1 .. MaxActs, left : Nat]
        /\ walk'.for = "NOTHING"
    BY <1>1, BoundsAssumption DEF Idle, Main, Funcs
  <2> QED BY <1>1, <1>15, <2>1, <2>2 DEF IInv, TypeOK
<1>17. /\ Len(func[g].path) = L + 1 /\ func[g].path[L + 1] = g
       /\ \A i \in 1 .. L : func[g].path[i] = func[f].path[i]
  <2>1. PathOK(func, f) /\ PathOK(func, g) /\ CallOK(func, f, g)
    BY <1>2, <1>3, <1>5, <1>7 DEF IInv, FuncsOK, CallsOK
  <2>2. L = Len(func[g].path) - 1 /\ Len(func[g].path) \in Nat
    <3>1. func[g] \in Function
      BY DEF IInv, TypeOK
    <3> QED BY <1>2, <1>4, <1>7, <3>1 DEF Function, Nesting
  <2>3. Len(func[g].path) = L + 1
    BY <1>4, <2>2
  <2>4. PICK m \in Nat : func \in [1 .. m -> Function] /\ DOMAIN func = 1 .. m
    BY DEF IInv, TypeOK
  <2>5. \A j \in 1 .. L : func[f].path[j] = func[g].path[j]
    <3>1. \A j \in 1 .. Len(func[g].path) - 1 : func[f].path[j] = func[g].path[j]
      <4>1. f \in 1 .. m /\ g \in 1 .. m
        BY <2>4
      <4> QED BY <2>1, <2>4, <4>1, SharedPath, Zenon
    <3> QED BY <2>2, <3>1
  <2> QED BY <2>1, <2>3, <2>5 DEF PathOK
<1>18. ActOK(func, acts', top + 1)
  <2>1. /\ act.fn = g /\ act.link = b /\ act.lex = new
    BY <1>13
  <2>2. ASSUME NEW i \in 1 .. L + 1
        PROVE  /\ new[i] \in 1 .. top + 1
               /\ acts'[new[i]].fn = func[g].path[i]
               /\ Len(acts'[new[i]].lex) = i
               /\ \A j \in 1 .. i : acts'[new[i]].lex[j] = new[j]
    <3>1. CASE i \in 1 .. L
      <4>1. i \in 1 .. Len(lex)
        BY <1>6, <1>8, <3>1
      <4>2. /\ lex[i] \in 1 .. top /\ acts[lex[i]].fn = func[f].path[i]
            /\ Len(acts[lex[i]].lex) = i
            /\ \A j \in 1 .. i : acts[lex[i]].lex[j] = lex[j]
        BY <1>3, <1>5, <1>6, <1>7, <4>1 DEF ActOK
      <4>3. new[i] = lex[i] /\ acts'[new[i]] = acts[lex[i]] /\ \A j \in 1 .. i : new[j] = lex[j]
        BY <1>4, <1>12, <1>15, <3>1, <4>2
      <4>4. new[i] \in 1 .. top + 1
        BY <1>5, <4>2, <4>3
      <4> QED BY <1>17, <3>1, <4>2, <4>3, <4>4
    <3>2. CASE i = L + 1
      <4>1. new[i] = top + 1 /\ acts'[new[i]] = act
        BY <1>12, <1>15, <3>2
      <4>2. top + 1 \in 1 .. top + 1
        OBVIOUS
      <4> QED BY <1>12, <1>17, <2>1, <3>2, <4>1, <4>2
    <3> QED BY <1>4, <3>1, <3>2
  <2>3. b = new[L]
    BY <1>4, <1>9, <1>12
  <2>4. /\ acts'[top + 1].fn = g /\ acts'[top + 1].link = new[Len(new) - 1]
        /\ acts'[top + 1].lex = new /\ Len(new) = Len(func[g].path)
        /\ new[Len(new)] = top + 1
    BY <1>4, <1>12, <1>15, <1>17, <2>1, <2>3
  <2> QED BY <1>7, <1>12, <2>2, <2>4 DEF ActOK
<1>19. ActsOK'
  <2>1. ASSUME NEW a \in 1 .. top PROVE ActOK(func, acts', a)
    <3>1. a \in DOMAIN acts
      BY <1>5 DEF IInv, TypeOK, Top
    <3>2. ActOK(func, acts, a)
      BY <3>1 DEF IInv, ActsOK
    <3>3. \A c \in 1 .. a : acts'[c] = acts[c]
      BY <1>15
    <3> QED BY <3>2, <3>3, ActKept
  <2>2. \A a \in 1 .. top + 1 : a \in 1 .. top \/ a = top + 1
    OBVIOUS
  <2> QED BY <1>1, <1>15, <1>18, <2>1, <2>2 DEF ActsOK
<1>20. FuncsOK' /\ CallsOK' /\ OpenOK' /\ RunOK' /\ WalkOK'
  BY <1>1, <1>2 DEF IInv, FuncsOK, CallsOK, OpenOK, RunOK, WalkOK, Idle
<1> QED BY <1>16, <1>19, <1>20 DEF IInv

LEMMA StutterOK == IInv /\ UNCHANGED vars => IInv'
BY DEF vars, IInv, TypeOK, FuncsOK, CallsOK, OpenOK, RunOK, ActsOK, WalkOK, Level, Nesting

LEMMA Inductive == Spec => []IInv
<1>1. IInv /\ [Next]_vars => IInv'
  <2> SUFFICES ASSUME IInv, [Next]_vars PROVE IInv'
    OBVIOUS
  <2>1. CASE trans_dec_header
    BY <2>1, HeaderOK
  <2>2. CASE EndBody
    BY <2>2, EndBodyOK
  <2>3. CASE Run
    BY <2>3, RunActionOK
  <2>4. CASE \E f \in DOMAIN func : BeginBody(f)
    BY <2>4, BeginBodyOK
  <2>5. CASE \E f \in DOMAIN func : BeginCall(f)
    BY <2>5, BeginCallOK
  <2>6. CASE \E f \in DOMAIN func : BeginAccess(f)
    BY <2>6, BeginAccessOK
  <2>7. CASE Hop
    BY <2>7, HopOK
  <2>8. CASE EndCall
    BY <2>8, EndCallOK
  <2>9. CASE EndAccess
    BY <2>9, EndAccessOK
  <2>10. CASE Return
    BY <2>10, ReturnOK
  <2>11. CASE UNCHANGED vars
    BY <2>11, StutterOK
  <2> QED BY <2>1, <2>2, <2>3, <2>4, <2>5, <2>6, <2>7, <2>8, <2>9, <2>10, <2>11 DEF Next
<1> QED BY <1>1, InitOK, PTL DEF Spec

-----------------------------------------------------------------------------
(* The variables of both phases keep to their types: in particular no walk *)
(* follows the link of _main's activation, which has none (the loads of    *)
(* EXPR_CALL and frame_exp).                                               *)
THEOREM TypeCorrect == Spec => []TypeOK
<1>1. IInv => TypeOK
  BY DEF IInv
<1> QED BY <1>1, Inductive, PTL

(* semant.c's and trans.c's depths of a function are the same, and its     *)
(* nesting in the program text, for every program (semant.c's              *)
(* current_depth, trans.c's frame_depth).                                  *)
THEOREM DepthsAgreeAlways == Spec => []DepthsAgree
<1>1. IInv => DepthsAgree
  BY DEF IInv, FuncsOK, DepthOK, DepthsAgree, Nesting
<1> QED BY <1>1, Inductive, PTL

(* A call passes as static link the activation in which the callee was     *)
(* named, in every run of every program (EXPR_CALL of trans.c).            *)
THEOREM LinksAlwaysMeant == Spec => []LinksMeant
<1>1. IInv => LinksMeant
  <2> SUFFICES ASSUME IInv, NEW a \in DOMAIN acts, acts[a].fn # Main
               PROVE  /\ acts[a].link = acts[a].lex[Len(acts[a].lex) - 1]
                      /\ acts[a].link < a
                      /\ acts[acts[a].link].fn = Parent(acts[a].fn)
    BY DEF LinksMeant
  <2>1. ActOK(func, acts, a) /\ a \in Nat /\ acts[a] \in Activation
    BY DEF IInv, ActsOK, TypeOK
  <2>2. PICK f \in DOMAIN func : f = acts[a].fn
    BY <2>1 DEF ActOK
  <2>3. PICK lex \in Seq(1 .. MaxActs) : lex = acts[a].lex
    BY <2>1 DEF Activation
  <2>4. Len(lex) = Len(func[f].path) /\ Len(lex) > 1 /\ Parent(f) = func[f].path[Len(lex) - 1]
    BY <2>1, <2>2, <2>3, ParentPath DEF ActOK
  <2>5. PICK k \in 1 .. Len(lex) : k = Len(lex) - 1
    <3>1. Len(lex) \in Nat
      BY <2>3
    <3> QED BY <2>4, <3>1
  <2>6. /\ acts[a].link = lex[k] /\ lex[k] \in 1 .. a
        /\ acts[lex[k]].fn = func[f].path[k] /\ Len(acts[lex[k]].lex) = k
    BY <2>1, <2>2, <2>3, <2>5 DEF ActOK
  <2>7. lex[k] # a
    BY <2>3, <2>5, <2>6
  <2> QED BY <2>1, <2>2, <2>3, <2>4, <2>5, <2>6, <2>7
<1> QED BY <1>1, Inductive, PTL

(* The loads of a call or of an access end at the activation the program   *)
(* text means, in every run of every program (EXPR_CALL and frame_exp of   *)
(* trans.c).                                                               *)
THEOREM AlwaysReachesMeant == Spec => []ReachesMeant
<1>1. IInv => ReachesMeant
  <2> SUFFICES ASSUME IInv, walk.for # "NOTHING", walk.left = 0
               PROVE  walk.ptr = Meant
    BY DEF ReachesMeant
  <2>1. Level \in Nat \ {0} /\ walk.ptr = acts[Len(acts)].lex[Level + walk.left]
    BY DEF IInv, WalkOK
  <2> QED BY <2>1 DEF Meant, Top
<1> QED BY <1>1, Inductive, PTL
=============================================================================
