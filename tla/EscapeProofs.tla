---------------------------- MODULE EscapeProofs ----------------------------
(***************************************************************************)
(* Where only parameters may take a name that is bound, exactly the        *)
(* variables that nested functions use escape, in every program.           *)
(*                                                                         *)
(* Both walks must find the same variable.  trans.c's environment is       *)
(* smaller: what it has, escape.c has too (Agree).  To keep that when a    *)
(* scope is left, the same must be known of what the two have saved, and   *)
(* they have not saved the same number of environments, because escape.c   *)
(* opens no scope for a FOR.  Levels says how many each had saved at each  *)
(* construct around the present point.                                     *)
(***************************************************************************)
EXTENDS Escape, Integers, TLAPS

(* The records of var. *)
Variable == [name : Names, depth : Nat, escape : BOOLEAN]

EscScopes == {"LET", "FUNC"}
AccScopes == {"LET", "FUNC", "FOR"}

(* f[i]: the environments saved inside the i-th of the constructs s, when  *)
(* n are saved inside the last and the constructs in scopes save one.      *)
Levels(f, s, n, scopes) ==
  /\ f \in [1 .. Len(s) -> Nat]
  /\ f[1] = 1
  /\ f[Len(s)] = n
  /\ \A i \in 2 .. Len(s) : f[i] = IF s[i].of \in scopes THEN f[i - 1] + 1 ELSE f[i - 1]
  /\ \A i, j \in 1 .. Len(s) : i <= j => f[i] <= f[j]

(* What acc binds, esc binds to the same. *)
Agree(acc, esc) == \A x \in Names : acc[x] # NULL => esc[x] = acc[x]

(* escape.c's environment inside a construct that had k saved. *)
EscAt(k) == IF k = Len(escSaved) THEN escCur ELSE escSaved[k + 1]

(* Constructs: MAIN outermost, each with one of n variables where it       *)
(* declares one.                                                           *)
Nested(s, n) ==
  /\ s \in Seq(Construct) /\ s # <<>>
  /\ s[1].of = "MAIN"
  /\ \A i \in 2 .. Len(s) : s[i].of # "MAIN"
  /\ \A i \in 1 .. Len(s) :
       /\ s[i].next = "DECS" => s[i].of = "LET"
       /\ s[i].next = "PARAMS" => s[i].of = "FUNC"
       /\ s[i].of \in {"VAR", "FOR"} => s[i].v \in 1 .. n

(* The environments hold declared variables only. *)
Bound ==
  /\ Len(var) <= MaxVars
  /\ escCur \in [Names -> 1 .. Len(var) \union {NULL}]
  /\ accCur \in [Names -> 1 .. Len(var) \union {NULL}]
  /\ escSaved \in Seq([Names -> 1 .. Len(var) \union {NULL}])
  /\ accSaved \in Seq([Names -> 1 .. Len(var) \union {NULL}])

Typed == TypeOK /\ Nested(open, Len(var)) /\ Bound

(* What leaving construct c will find: acc and esc saved, escape.c's       *)
(* environment cur inside it, and the variables vs.                        *)
Ready(vs, c, acc, esc, cur) ==
  /\ c.of \in EscScopes => Agree(acc, esc)
  /\ c.of = "FOR" => Agree(acc, cur)
  /\ c.of = "VAR" => cur[vs[c.v].name] = c.v

Agreement(f, g) ==
  /\ Agree(accCur, escCur)
  /\ \A i \in 2 .. Len(open) : Ready(var, open[i], accSaved[g[i]], escSaved[f[i]], EscAt(f[i]))

Agreeing ==
  \E f, g : /\ Levels(f, open, Len(escSaved), EscScopes)
            /\ Levels(g, open, Len(accSaved), AccScopes)
            /\ Agreement(f, g)

Flags == \A v \in 1 .. Len(var) : var[v].escape <=> v \in captured

IInv == Typed /\ Agreeing /\ Flags
-----------------------------------------------------------------------------
Pushed(f, s, m) == [i \in 1 .. Len(s) + 1 |-> IF i <= Len(s) THEN f[i] ELSE m]

LEMMA LevelsPush ==
  ASSUME NEW s \in Seq(Construct), s # <<>>, NEW c \in Construct,
         NEW f, NEW n \in Nat, NEW scopes, Levels(f, s, n, scopes),
         NEW m \in Nat, m = IF c.of \in scopes THEN n + 1 ELSE n
  PROVE  Levels(Pushed(f, s, m), Append(s, c), m, scopes)
<1> DEFINE t == Append(s, c)
           h == Pushed(f, s, m)
<1>1. Len(t) = Len(s) + 1 /\ Len(s) \in Nat /\ Len(s) >= 1
  OBVIOUS
<1>2. \A i \in 1 .. Len(s) : t[i] = s[i]
  OBVIOUS
<1>3. t[Len(t)] = c
  OBVIOUS
<1>4. h \in [1 .. Len(t) -> Nat]
  BY <1>1 DEF Pushed, Levels
<1>5. h[1] = 1 /\ h[Len(t)] = m
  BY <1>1 DEF Pushed, Levels
<1>6. ASSUME NEW i \in 2 .. Len(t)
      PROVE  h[i] = IF t[i].of \in scopes THEN h[i - 1] + 1 ELSE h[i - 1]
  <2>1. CASE i = Len(t)
    BY <2>1, <1>1, <1>3 DEF Pushed, Levels
  <2>2. CASE i # Len(t)
    <3>1. i \in 2 .. Len(s) /\ i - 1 \in 1 .. Len(s)
      BY <2>2, <1>1
    <3>2. t[i] = s[i] /\ h[i] = f[i] /\ h[i - 1] = f[i - 1]
      BY <3>1, <1>1, <1>2 DEF Pushed
    <3> QED
      BY <3>1, <3>2 DEF Levels
  <2> QED
    BY <2>1, <2>2
<1>7. ASSUME NEW i \in 1 .. Len(t), NEW j \in 1 .. Len(t), i <= j
      PROVE  h[i] <= h[j]
  <2>1. m >= n
    OBVIOUS
  <2>2. CASE i = Len(t)
    <3>1. j = i
      BY <2>2, <1>7, <1>1
    <3> QED
      BY <3>1, <1>4
  <2>3. CASE i # Len(t) /\ j = Len(t)
    <3>1. i \in 1 .. Len(s) /\ h[i] = f[i] /\ h[j] = m
      BY <2>3, <1>1 DEF Pushed
    <3>2. f[i] <= f[Len(s)] /\ f[Len(s)] = n /\ f[i] \in Nat
      BY <3>1, <1>1 DEF Levels
    <3> QED
      BY <3>1, <3>2, <2>1
  <2>4. CASE j # Len(t)
    <3>1. i \in 1 .. Len(s) /\ j \in 1 .. Len(s) /\ h[i] = f[i] /\ h[j] = f[j]
      BY <2>4, <1>7, <1>1 DEF Pushed
    <3> QED
      BY <3>1, <1>7 DEF Levels
  <2> QED
    BY <2>2, <2>3, <2>4
<1> QED
  BY <1>4, <1>5, <1>6, <1>7 DEF Levels

Popped(f, s) == [i \in 1 .. Len(s) - 1 |-> f[i]]

LEMMA LevelsPop ==
  ASSUME NEW s \in Seq(Construct), Len(s) >= 2,
         NEW f, NEW n \in Nat, NEW scopes, Levels(f, s, n, scopes),
         NEW m \in Int, m = IF s[Len(s)].of \in scopes THEN n - 1 ELSE n
  PROVE  Levels(Popped(f, s), SubSeq(s, 1, Len(s) - 1), m, scopes)
<1> DEFINE t == SubSeq(s, 1, Len(s) - 1)
           h == Popped(f, s)
<1>1. Len(t) = Len(s) - 1 /\ Len(s) \in Nat
  OBVIOUS
<1>2. \A i \in 1 .. Len(t) : t[i] = s[i] /\ h[i] = f[i]
  BY <1>1 DEF Popped
<1>3. h \in [1 .. Len(t) -> Nat]
  BY <1>1 DEF Popped, Levels
<1>4. h[1] = 1
  BY <1>1, <1>2 DEF Levels
<1>5. h[Len(t)] = m
  <2>1. Len(s) \in 2 .. Len(s) /\ Len(s) - 1 \in 1 .. Len(s)
    BY <1>1
  <2>2. f[Len(s)] = IF s[Len(s)].of \in scopes THEN f[Len(s) - 1] + 1 ELSE f[Len(s) - 1]
    BY <2>1 DEF Levels
  <2>3. f[Len(s)] = n /\ f[Len(s) - 1] \in Nat
    BY <2>1 DEF Levels
  <2> QED
    BY <1>1, <1>2, <2>2, <2>3
<1>6. ASSUME NEW i \in 2 .. Len(t)
      PROVE  h[i] = IF t[i].of \in scopes THEN h[i - 1] + 1 ELSE h[i - 1]
  <2>1. i \in 2 .. Len(s) /\ i \in 1 .. Len(t) /\ i - 1 \in 1 .. Len(t)
    BY <1>1
  <2>2. t[i] = s[i] /\ h[i] = f[i] /\ h[i - 1] = f[i - 1]
    BY <2>1, <1>2
  <2> QED
    BY <2>1, <2>2 DEF Levels
<1>7. ASSUME NEW i \in 1 .. Len(t), NEW j \in 1 .. Len(t), i <= j
      PROVE  h[i] <= h[j]
  <2>1. i \in 1 .. Len(s) /\ j \in 1 .. Len(s)
    BY <1>1
  <2>2. f[i] <= f[j]
    BY <2>1, <1>7 DEF Levels
  <2> QED
    BY <2>2, <1>2
<1> QED
  BY <1>3, <1>4, <1>5, <1>6, <1>7 DEF Levels

(* What lies inside a construct that opened a scope has a higher level. *)
LEMMA LevelsRise ==
  ASSUME NEW s \in Seq(Construct), NEW f, NEW n, NEW scopes, Levels(f, s, n, scopes),
         NEW i \in 1 .. Len(s), NEW j \in 2 .. Len(s), i < j, s[j].of \in scopes
  PROVE  f[i] < f[j]
<1>1. j - 1 \in 1 .. Len(s) /\ i <= j - 1
  OBVIOUS
<1>2. f[i] <= f[j - 1] /\ f[j] = f[j - 1] + 1
  BY <1>1 DEF Levels
<1>3. f[i] \in Nat /\ f[j - 1] \in Nat
  BY <1>1 DEF Levels
<1> QED
  BY <1>2, <1>3
-----------------------------------------------------------------------------
Envs(n) == [Names -> 1 .. n \union {NULL}]

LEMMA EnvsGrow ==
  ASSUME NEW n \in Nat, NEW m \in Nat, n <= m
  PROVE  Envs(n) \subseteq Envs(m) /\ Seq(Envs(n)) \subseteq Seq(Envs(m))
<1>1. 1 .. n \union {NULL} \subseteq 1 .. m \union {NULL}
  OBVIOUS
<1>2. Envs(n) \subseteq Envs(m)
  BY <1>1 DEF Envs
<1>3. ASSUME NEW q \in Seq(Envs(n)) PROVE q \in Seq(Envs(m))
  BY <1>2
<1> QED
  BY <1>2, <1>3

LEMMA TypedInit == Init => Typed
<1> SUFFICES ASSUME Init PROVE Typed
  OBVIOUS
<1>1. open = <<[of |-> "MAIN", next |-> "EXPR", depth |-> 0, v |-> NULL]>>
  BY DEF Init
<1>2. open \in Seq(Construct) /\ open # <<>> /\ Len(open) = 1
  BY <1>1 DEF Construct
<1>3. var = <<>> /\ var \in Seq(Variable) /\ Len(var) = 0
  BY DEF Init
<1>4. Nested(open, Len(var))
  BY <1>1, <1>2, <1>3 DEF Nested
<1>5. Esc!EmptyEnv \in [Names -> 1 .. Len(var) \union {NULL}]
  BY DEF Esc!EmptyEnv
<1>6. Acc!EmptyEnv \in [Names -> 1 .. Len(var) \union {NULL}]
  BY DEF Acc!EmptyEnv
<1>7. Bound
  BY <1>3, <1>5, <1>6, BoundsAssumption DEF Bound, Init
<1>8. Esc!EnvTypeOK /\ Acc!EnvTypeOK
  BY DEF Init, Esc!EnvTypeOK, Acc!EnvTypeOK, Esc!EmptyEnv, Acc!EmptyEnv, Esc!Envs, Acc!Envs
<1> QED
  BY <1>2, <1>3, <1>4, <1>7, <1>8 DEF Typed, TypeOK, Init, Variable

(* An environment of declared variables is one of variables. *)
LEMMA BoundIsTyped == Bound /\ var \in Seq(Variable)
                        => Esc!EnvTypeOK /\ Acc!EnvTypeOK
<1> SUFFICES ASSUME Bound, var \in Seq(Variable)
             PROVE  Esc!EnvTypeOK /\ Acc!EnvTypeOK
  OBVIOUS
<1>1. Len(var) \in Nat /\ MaxVars \in Nat /\ Len(var) <= MaxVars
  BY BoundsAssumption DEF Bound
<1>2. Envs(Len(var)) \subseteq Envs(MaxVars) /\ Seq(Envs(Len(var))) \subseteq Seq(Envs(MaxVars))
  BY <1>1, EnvsGrow
<1> QED
  BY <1>2 DEF Bound, Envs, Esc!EnvTypeOK, Acc!EnvTypeOK, Esc!Envs, Acc!Envs

LEMMA NestedPush ==
  ASSUME NEW s, NEW n \in Nat, NEW m \in Nat, n <= m, Nested(s, n),
         NEW c \in Construct, c.of # "MAIN",
         c.next = "DECS" => c.of = "LET", c.next = "PARAMS" => c.of = "FUNC",
         c.of \in {"VAR", "FOR"} => c.v \in 1 .. m
  PROVE  Nested(Append(s, c), m)
<1> DEFINE t == Append(s, c)
<1>1. s \in Seq(Construct) /\ s # <<>>
  BY DEF Nested
<1>2. t \in Seq(Construct) /\ t # <<>> /\ Len(t) = Len(s) + 1 /\ Len(s) \in Nat /\ Len(s) >= 1
  BY <1>1
<1>3. \A i \in 1 .. Len(s) : t[i] = s[i]
  BY <1>1
<1>4. t[Len(t)] = c
  BY <1>1
<1>5. t[1].of = "MAIN"
  BY <1>2, <1>3 DEF Nested
<1>6. ASSUME NEW i \in 2 .. Len(t) PROVE t[i].of # "MAIN"
  <2>1. CASE i = Len(t)
    BY <2>1, <1>4
  <2>2. CASE i # Len(t)
    BY <2>2, <1>2, <1>3 DEF Nested
  <2> QED
    BY <2>1, <2>2
<1>7. ASSUME NEW i \in 1 .. Len(t)
      PROVE  /\ t[i].next = "DECS" => t[i].of = "LET"
             /\ t[i].next = "PARAMS" => t[i].of = "FUNC"
             /\ t[i].of \in {"VAR", "FOR"} => t[i].v \in 1 .. m
  <2>1. CASE i = Len(t)
    BY <2>1, <1>4
  <2>2. CASE i # Len(t)
    <3>1. i \in 1 .. Len(s) /\ t[i] = s[i]
      BY <2>2, <1>2, <1>3
    <3>2. 1 .. n \subseteq 1 .. m
      OBVIOUS
    <3> QED
      BY <3>1, <3>2 DEF Nested
  <2> QED
    BY <2>1, <2>2
<1> QED
  BY <1>2, <1>5, <1>6, <1>7 DEF Nested

LEMMA NestedPop ==
  ASSUME NEW s, NEW n, Nested(s, n), s[Len(s)].of # "MAIN"
  PROVE  Len(s) >= 2 /\ Nested(SubSeq(s, 1, Len(s) - 1), n)
<1> DEFINE t == SubSeq(s, 1, Len(s) - 1)
<1>1. s \in Seq(Construct) /\ s # <<>>
  BY DEF Nested
<1>2. Len(s) \in Nat /\ Len(s) >= 2
  BY <1>1 DEF Nested
<1>3. t \in Seq(Construct) /\ Len(t) = Len(s) - 1 /\ t # <<>>
  <2>1. t \in Seq(Construct) /\ Len(t) = Len(s) - 1
    BY <1>1, <1>2
  <2>2. Len(t) # 0 /\ Len(<< >>) = 0
    BY <2>1, <1>2
  <2>3. t # << >>
    BY <2>2, Zenon
  <2> QED
    BY <2>1, <2>3
<1>4. \A i \in 1 .. Len(t) : i \in 1 .. Len(s) /\ t[i] = s[i]
  BY <1>1, <1>2
<1>5. t[1].of = "MAIN" /\ \A i \in 2 .. Len(t) : t[i].of # "MAIN"
  <2>1. 1 \in 1 .. Len(t) /\ \A i \in 2 .. Len(t) : i \in 1 .. Len(t) /\ i \in 2 .. Len(s)
    BY <1>2, <1>3
  <2> QED
    BY <1>4, <2>1 DEF Nested
<1>6. \A i \in 1 .. Len(t) :
        /\ t[i].next = "DECS" => t[i].of = "LET"
        /\ t[i].next = "PARAMS" => t[i].of = "FUNC"
        /\ t[i].of \in {"VAR", "FOR"} => t[i].v \in 1 .. n
  BY <1>4 DEF Nested
<1> QED
  BY <1>2, <1>3, <1>5, <1>6 DEF Nested

(* Only what comes next in the innermost changes. *)
LEMMA NestedGoOn ==
  ASSUME NEW s, NEW n, Nested(s, n),
         NEW next \in {"DECS", "PARAMS", "EXPR"},
         next = "DECS" => s[Len(s)].of = "LET", next = "PARAMS" => s[Len(s)].of = "FUNC"
  PROVE  Nested([s EXCEPT ![Len(s)].next = next], n)
<1> DEFINE t == [s EXCEPT ![Len(s)].next = next]
<1>1. s \in Seq(Construct) /\ s # <<>>
  BY DEF Nested
<1>2. t \in Seq(Construct) /\ t # <<>> /\ Len(t) = Len(s) /\ Len(s) \in Nat /\ Len(s) >= 1
  <2>1. Len(s) \in Nat /\ Len(s) >= 1 /\ s[Len(s)] \in Construct
    BY <1>1
  <2>2. [s[Len(s)] EXCEPT !.next = next] \in Construct
    BY <2>1 DEF Construct
  <2>3. t = [s EXCEPT ![Len(s)] = [s[Len(s)] EXCEPT !.next = next]]
    BY <1>1
  <2>4. t \in Seq(Construct) /\ Len(t) = Len(s)
    BY <1>1, <2>1, <2>2, <2>3
  <2> QED
    BY <2>1, <2>4
<1>3. \A i \in 1 .. Len(s) : t[i].of = s[i].of /\ t[i].v = s[i].v
  BY <1>1, <1>2 DEF Construct
<1>4. \A i \in 1 .. Len(s) : t[i].next = IF i = Len(s) THEN next ELSE s[i].next
  BY <1>1, <1>2 DEF Construct
<1> QED
  BY <1>2, <1>3, <1>4 DEF Nested

LEMMA NestedGrows ==
  ASSUME NEW s, NEW n \in Nat, NEW m \in Nat, n <= m, Nested(s, n)
  PROVE  Nested(s, m)
<1>1. 1 .. n \subseteq 1 .. m
  OBVIOUS
<1> QED
  BY <1>1 DEF Nested

LEMMA DeclareOK ==
  ASSUME Typed, NEW x \in Names, NEW kind, NEW depth \in Nat, Declare(x, kind, depth)
  PROVE  /\ Len(var) \in Nat /\ Len(var') = Len(var) + 1 /\ Len(var') <= MaxVars
         /\ New \in 1 .. Len(var') /\ New \in 1 .. MaxVars
         /\ var' \in Seq(Variable) /\ captured' \subseteq DOMAIN var'
         /\ \A v \in 1 .. Len(var) : var'[v] = var[v]
         /\ var'[New].name = x /\ ~ var'[New].escape /\ New \notin captured'
<1> DEFINE w == [name |-> x, depth |-> depth, escape |-> FALSE]
<1>1. var \in Seq(Variable) /\ captured \subseteq DOMAIN var
  BY DEF Typed, TypeOK, Variable
<1>2. w \in Variable /\ var' = Append(var, w) /\ captured' = captured /\ Len(var) < MaxVars
  BY DEF Variable, Declare
<1>3. Len(var) \in Nat /\ MaxVars \in Nat
  BY <1>1, BoundsAssumption
<1>4. Len(var') = Len(var) + 1 /\ var' \in Seq(Variable) /\ var'[Len(var) + 1] = w
      /\ \A v \in 1 .. Len(var) : var'[v] = var[v]
  BY <1>1, <1>2
<1>5. captured' \subseteq 1 .. Len(var) /\ DOMAIN var' = 1 .. Len(var')
  BY <1>1, <1>2, <1>4
<1> HIDE DEF w
<1>6. Len(var') <= MaxVars /\ New \in 1 .. Len(var') /\ New \in 1 .. MaxVars
  BY <1>2, <1>3, <1>4 DEF New
<1>7. captured' \subseteq DOMAIN var' /\ New \notin captured'
  BY <1>3, <1>4, <1>5 DEF New
<1>8. w.name = x /\ ~ w.escape
  BY DEF w
<1> QED
  BY <1>3, <1>4, <1>6, <1>7, <1>8 DEF New

(* Saving an environment and giving it back keep the bounds. *)
LEMMA EnvsKept ==
  ASSUME NEW n \in Nat, NEW m \in Nat, n <= m, NEW e \in Envs(n), NEW q \in Seq(Envs(n))
  PROVE  /\ e \in Envs(m) /\ q \in Seq(Envs(m))
         /\ Append(q, e) \in Seq(Envs(m))
         /\ q # <<>> => q[Len(q)] \in Envs(m) /\ SubSeq(q, 1, Len(q) - 1) \in Seq(Envs(m))
<1>1. Envs(n) \subseteq Envs(m) /\ Seq(Envs(n)) \subseteq Seq(Envs(m))
  BY EnvsGrow
<1>2. e \in Envs(m) /\ q \in Seq(Envs(m))
  BY <1>1
<1>3. Append(q, e) \in Seq(Envs(m))
  BY <1>2
<1>4. q # <<>> => q[Len(q)] \in Envs(m) /\ SubSeq(q, 1, Len(q) - 1) \in Seq(Envs(m))
  BY <1>2
<1> QED
  BY <1>2, <1>3, <1>4

LEMMA TypedMeans ==
  ASSUME Typed
  PROVE  /\ var \in Seq(Variable) /\ Len(var) \in Nat /\ Len(var) <= MaxVars
         /\ captured \subseteq 1 .. Len(var)
         /\ open \in Seq(Construct) /\ Len(open) \in Nat /\ Len(open) >= 1
         /\ Inner \in Construct /\ Inner.depth \in Nat
         /\ escCur \in Envs(Len(var)) /\ accCur \in Envs(Len(var))
         /\ escSaved \in Seq(Envs(Len(var))) /\ accSaved \in Seq(Envs(Len(var)))
<1>1. var \in Seq(Variable) /\ captured \subseteq DOMAIN var
  BY DEF Typed, TypeOK, Variable
<1>2. Len(var) \in Nat /\ Len(var) <= MaxVars /\ captured \subseteq 1 .. Len(var)
  BY <1>1 DEF Typed, Bound
<1>3. open \in Seq(Construct) /\ Len(open) \in Nat /\ Len(open) >= 1
  BY DEF Typed, TypeOK
<1>4. Inner \in Construct
  BY <1>3 DEF Inner
<1>5. Inner.depth \in Nat
  BY <1>4 DEF Construct
<1> QED
  BY <1>1, <1>2, <1>3, <1>4, <1>5 DEF Typed, Bound, Envs

LEMMA TypedNext ==
  ASSUME var' \in Seq(Variable), Len(var') <= MaxVars, captured' \subseteq 1 .. Len(var'),
         Nested(open', Len(var')),
         escCur' \in Envs(Len(var')), escSaved' \in Seq(Envs(Len(var'))),
         accCur' \in Envs(Len(var')), accSaved' \in Seq(Envs(Len(var')))
  PROVE  Typed'
<1>1. Len(var') \in Nat /\ MaxVars \in Nat /\ DOMAIN var' = 1 .. Len(var')
  BY BoundsAssumption
<1>2. Bound'
  BY DEF Bound, Envs
<1>3. Envs(Len(var')) \subseteq Envs(MaxVars) /\ Seq(Envs(Len(var'))) \subseteq Seq(Envs(MaxVars))
  BY <1>1, EnvsGrow
<1>4. Esc!EnvTypeOK' /\ Acc!EnvTypeOK'
  BY <1>3 DEF Envs, Esc!EnvTypeOK, Acc!EnvTypeOK, Esc!Envs, Acc!Envs
<1>5. open' \in Seq(Construct) /\ open' # <<>>
  BY DEF Nested
<1> QED
  BY <1>1, <1>2, <1>4, <1>5 DEF Typed, TypeOK, Variable

(* escape.c's and trans.c's environments after a step that keeps, saves,   *)
(* gives back or binds one of m variables.                                 *)
EscChange(m) ==
  \/ UNCHANGED <<escCur, escSaved>>
  \/ Esc!Enter
  \/ Esc!Leave
  \/ \E x \in Names, v \in 1 .. m : Esc!Bind(x, v)
AccChange(m) ==
  \/ UNCHANGED <<accCur, accSaved>>
  \/ Acc!Enter
  \/ Acc!Leave
  \/ \E x \in Names, v \in 1 .. m : Acc!Bind(x, v)
  \/ \E x \in Names, v \in 1 .. m :
       accSaved' = Append(accSaved, accCur) /\ accCur' = [accCur EXCEPT ![x] = v]

LEMMA ChangesKeep ==
  ASSUME NEW n \in Nat, NEW m \in Nat, n <= m, EscChange(m), AccChange(m),
         escCur \in Envs(n), escSaved \in Seq(Envs(n)),
         accCur \in Envs(n), accSaved \in Seq(Envs(n))
  PROVE  /\ escCur' \in Envs(m) /\ escSaved' \in Seq(Envs(m))
         /\ accCur' \in Envs(m) /\ accSaved' \in Seq(Envs(m))
<1>1. Esc!EmptyEnv \in Envs(m) /\ Acc!EmptyEnv \in Envs(m)
  BY DEF Esc!EmptyEnv, Acc!EmptyEnv, Envs
<1>2. escCur' \in Envs(m) /\ escSaved' \in Seq(Envs(m))
  <2>1. /\ escCur \in Envs(m) /\ escSaved \in Seq(Envs(m))
        /\ Append(escSaved, escCur) \in Seq(Envs(m))
        /\ escSaved # <<>> => /\ escSaved[Len(escSaved)] \in Envs(m)
                              /\ SubSeq(escSaved, 1, Len(escSaved) - 1) \in Seq(Envs(m))
    BY EnvsKept
  <2> QED
    <3>1. CASE UNCHANGED <<escCur, escSaved>>
      BY <2>1, <3>1
    <3>2. CASE Esc!Enter
      BY <2>1, <3>2 DEF Esc!Enter
    <3>3. CASE Esc!Leave
      BY <1>1, <2>1, <3>3 DEF Esc!Leave
    <3>4. CASE \E x \in Names, v \in 1 .. m : Esc!Bind(x, v)
      <4>1. PICK x \in Names, v \in 1 .. m : Esc!Bind(x, v)
        BY <3>4
      <4>2. [escCur EXCEPT ![x] = v] \in Envs(m)
        BY <2>1 DEF Envs
      <4> QED
        BY <2>1, <4>1, <4>2 DEF Esc!Bind
    <3> QED
      BY <3>1, <3>2, <3>3, <3>4 DEF EscChange
<1>3. accCur' \in Envs(m) /\ accSaved' \in Seq(Envs(m))
  <2>1. /\ accCur \in Envs(m) /\ accSaved \in Seq(Envs(m))
        /\ Append(accSaved, accCur) \in Seq(Envs(m))
        /\ accSaved # <<>> => /\ accSaved[Len(accSaved)] \in Envs(m)
                              /\ SubSeq(accSaved, 1, Len(accSaved) - 1) \in Seq(Envs(m))
    BY EnvsKept
  <2> QED
    <3>1. CASE UNCHANGED <<accCur, accSaved>>
      BY <2>1, <3>1
    <3>2. CASE Acc!Enter
      BY <2>1, <3>2 DEF Acc!Enter
    <3>3. CASE Acc!Leave
      BY <1>1, <2>1, <3>3 DEF Acc!Leave
    <3>4. CASE \E x \in Names, v \in 1 .. m : Acc!Bind(x, v)
      <4>1. PICK x \in Names, v \in 1 .. m : Acc!Bind(x, v)
        BY <3>4
      <4>2. [accCur EXCEPT ![x] = v] \in Envs(m)
        BY <2>1 DEF Envs
      <4> QED
        BY <2>1, <4>1, <4>2 DEF Acc!Bind
    <3>5. CASE \E x \in Names, v \in 1 .. m :
                 accSaved' = Append(accSaved, accCur) /\ accCur' = [accCur EXCEPT ![x] = v]
      <4>1. PICK x \in Names, v \in 1 .. m :
               accSaved' = Append(accSaved, accCur) /\ accCur' = [accCur EXCEPT ![x] = v]
        BY <3>5
      <4>2. [accCur EXCEPT ![x] = v] \in Envs(m)
        BY <2>1 DEF Envs
      <4> QED
        BY <2>1, <4>1, <4>2
    <3> QED
      BY <3>1, <3>2, <3>3, <3>4, <3>5 DEF AccChange
<1> QED
  BY <1>2, <1>3
-----------------------------------------------------------------------------
(* A use marks at most the variable that escape.c finds. *)
LEMMA UseOK ==
  ASSUME Typed, NEW x \in Names, Use(x)
  PROVE  /\ var' \in Seq(Variable) /\ Len(var') = Len(var) /\ captured' \subseteq 1 .. Len(var)
         /\ accCur[x] \in 1 .. Len(var)
         /\ \A v \in 1 .. Len(var) :
              /\ var'[v].name = var[v].name /\ var'[v].depth = var[v].depth
              /\ var'[v].escape <=> var[v].escape \/ (v = escCur[x] /\ var[v].depth < Inner.depth)
         /\ \A v \in 1 .. Len(var) :
              v \in captured' <=> v \in captured \/ (v = accCur[x] /\ var[v].depth < Inner.depth)
<1>1. /\ var \in Seq(Variable) /\ Len(var) \in Nat /\ captured \subseteq 1 .. Len(var)
      /\ escCur \in Envs(Len(var)) /\ accCur \in Envs(Len(var)) /\ Len(var) <= MaxVars
  BY TypedMeans
<1>2. accCur[x] \in 1 .. Len(var) /\ escCur[x] \in 1 .. Len(var) \union {NULL}
  BY <1>1 DEF Envs, Use
<1>3. NULL \notin 1 .. Len(var)
  BY <1>1, NullAssumption, BoundsAssumption
<1>4. captured' = IF var[accCur[x]].depth < Inner.depth THEN captured \union {accCur[x]} ELSE captured
  BY DEF Use
<1>5. \A v \in 1 .. Len(var) :
        v \in captured' <=> v \in captured \/ (v = accCur[x] /\ var[v].depth < Inner.depth)
  <2> TAKE v \in 1 .. Len(var)
  <2>1. CASE var[accCur[x]].depth < Inner.depth
    <3>1. captured' = captured \union {accCur[x]}
      BY <1>4, <2>1
    <3> QED
      BY <2>1, <3>1
  <2>2. CASE ~ (var[accCur[x]].depth < Inner.depth)
    <3>1. captured' = captured
      BY <1>4, <2>2
    <3> QED
      BY <2>2, <3>1
  <2> QED
    BY <2>1, <2>2
<1>6. captured' \subseteq 1 .. Len(var)
  BY <1>1, <1>2, <1>4
<1>7. CASE escCur[x] # NULL /\ var[escCur[x]].depth < Inner.depth
  <2> DEFINE Set(w) == [w EXCEPT !.escape = TRUE]
  <2>1. var' = [var EXCEPT ![escCur[x]] = Set(var[escCur[x]])] /\ escCur[x] \in 1 .. Len(var)
    BY <1>2, <1>7 DEF Use
  <2>2. \A v \in 1 .. Len(var) : var[v] \in Variable
    BY <1>1
  <2>3. \A w \in Variable :
          Set(w) \in Variable /\ Set(w).name = w.name /\ Set(w).depth = w.depth /\ Set(w).escape
    BY DEF Variable
  <2> HIDE DEF Set
  <2>4. var' \in Seq(Variable) /\ Len(var') = Len(var)
    BY <1>1, <2>1, <2>2, <2>3
  <2>5. ASSUME NEW v \in 1 .. Len(var)
        PROVE  /\ var'[v].name = var[v].name /\ var'[v].depth = var[v].depth
               /\ var'[v].escape <=> var[v].escape \/ (v = escCur[x] /\ var[v].depth < Inner.depth)
    <3>1. CASE v = escCur[x]
      <4>1. var'[v] = Set(var[v]) /\ var[v].depth < Inner.depth
        BY <1>1, <1>7, <2>1, <3>1
      <4> QED
        BY <2>2, <2>3, <3>1, <4>1, Zenon
    <3>2. CASE v # escCur[x]
      <4>1. var'[v] = var[v]
        BY <1>1, <2>1, <3>2
      <4> QED
        BY <3>2, <4>1, Zenon
    <3> QED
      BY <3>1, <3>2
  <2> QED
    BY <1>2, <1>5, <1>6, <2>4, <2>5
<1>8. CASE ~ (escCur[x] # NULL /\ var[escCur[x]].depth < Inner.depth)
  <2>1. var' = var
    BY <1>8 DEF Use
  <2>2. ASSUME NEW v \in 1 .. Len(var)
        PROVE  /\ var'[v].name = var[v].name /\ var'[v].depth = var[v].depth
               /\ var'[v].escape <=> var[v].escape \/ (v = escCur[x] /\ var[v].depth < Inner.depth)
    <3>1. ~ (v = escCur[x] /\ var[v].depth < Inner.depth)
      BY <1>3, <1>8
    <3> QED
      BY <2>1, <3>1, Zenon
  <2> QED
    BY <1>1, <1>2, <1>5, <1>6, <2>1, <2>2
<1> QED
  BY <1>7, <1>8

(* An action that opens a construct, closes the innermost, or goes on in it. *)
LEMMA TypedStep == Typed /\ [Next]_vars => Typed'
<1> SUFFICES ASSUME Typed, [Next]_vars PROVE Typed'
  OBVIOUS
<1> DEFINE n == Len(var)
           m == Len(var')
<1> USE TypedMeans
<1>1. Nested(open, n) /\ n \in Nat /\ (Len(open) >= 1)
  BY DEF Typed
<1>2. ASSUME var' \in Seq(Variable), m <= MaxVars, n <= m, captured' \subseteq 1 .. m,
             Nested(open', m), EscChange(m), AccChange(m)
      PROVE  Typed'
  <2>1. m \in Nat
    BY <1>2
  <2>2. /\ escCur' \in Envs(m) /\ escSaved' \in Seq(Envs(m))
        /\ accCur' \in Envs(m) /\ accSaved' \in Seq(Envs(m))
    BY <1>2, <2>1, ChangesKeep
  <2> QED
    BY <1>2, <2>2, TypedNext
<1>3. ASSUME UNCHANGED <<var, captured>>
      PROVE  var' \in Seq(Variable) /\ m <= MaxVars /\ n <= m /\ captured' \subseteq 1 .. m /\ m = n
  BY <1>3
<1>4. ASSUME NEW c \in Construct, open' = Append(open, c), m \in Nat, n <= m, c.of # "MAIN",
             c.next = "DECS" => c.of = "LET", c.next = "PARAMS" => c.of = "FUNC",
             c.of \in {"VAR", "FOR"} => c.v \in 1 .. m
      PROVE  Nested(open', m)
  BY <1>1, <1>4, NestedPush
<1>5. ASSUME Close, Inner.of # "MAIN" PROVE Nested(open', n)
  BY <1>1, <1>5, NestedPop DEF Close, Inner
<1>6. ASSUME GoOn("EXPR") PROVE Nested(open', n)
  BY <1>1, <1>6, NestedGoOn DEF GoOn
<1>7. CASE EnterLet
  <2> DEFINE c == [of |-> "LET", next |-> "DECS", depth |-> Inner.depth, v |-> NULL]
  <2>1. c \in Construct /\ open' = Append(open, c)
    BY <1>7 DEF EnterLet, Open, Construct
  <2>2. UNCHANGED <<var, captured>> /\ EscChange(m) /\ AccChange(m)
    BY <1>7 DEF EnterLet, EscChange, AccChange
  <2>3. Nested(open', m)
    BY <1>1, <1>3, <1>4, <2>1, <2>2
  <2> QED
    BY <1>2, <1>3, <2>2, <2>3
<1>8. CASE LetBody
  <2>1. UNCHANGED <<var, captured>> /\ EscChange(m) /\ AccChange(m)
    BY <1>8 DEF LetBody, EscChange, AccChange
  <2> QED
    BY <1>2, <1>3, <1>6, <1>8, <2>1 DEF LetBody
<1>9. CASE LeaveLet
  <2>1. UNCHANGED <<var, captured>> /\ EscChange(m) /\ AccChange(m)
    BY <1>9 DEF LeaveLet, EscChange, AccChange
  <2> QED
    BY <1>2, <1>3, <1>5, <1>9, <2>1 DEF LeaveLet
<1>10. CASE EnterFunc
  <2> DEFINE c == [of |-> "FUNC", next |-> "PARAMS", depth |-> Inner.depth + 1, v |-> NULL]
  <2>1. c \in Construct /\ open' = Append(open, c)
    BY <1>10 DEF EnterFunc, Open, Construct
  <2>2. UNCHANGED <<var, captured>> /\ EscChange(m) /\ AccChange(m)
    BY <1>10 DEF EnterFunc, EscChange, AccChange
  <2>3. Nested(open', m)
    BY <1>1, <1>3, <1>4, <2>1, <2>2
  <2> QED
    BY <1>2, <1>3, <2>2, <2>3
<1>11. CASE FuncBody
  <2>1. UNCHANGED <<var, captured>> /\ EscChange(m) /\ AccChange(m)
    BY <1>11 DEF FuncBody, EscChange, AccChange
  <2> QED
    BY <1>2, <1>3, <1>6, <1>11, <2>1 DEF FuncBody
<1>12. CASE LeaveFunc
  <2>1. UNCHANGED <<var, captured>> /\ EscChange(m) /\ AccChange(m)
    BY <1>12 DEF LeaveFunc, EscChange, AccChange
  <2> QED
    BY <1>2, <1>3, <1>5, <1>12, <2>1 DEF LeaveFunc
<1>13. CASE EndVar
  <2>1. Inner.v \in 1 .. n
    BY <1>1, <1>13 DEF EndVar, Inner, Nested
  <2>2. var[Inner.v].name \in Names
    <3>1. var[Inner.v] \in Variable
      BY <2>1
    <3> QED
      BY <3>1 DEF Variable
  <2>3. UNCHANGED <<var, captured>> /\ EscChange(m) /\ AccChange(m)
    BY <1>13, <2>1, <2>2 DEF EndVar, EscChange, AccChange
  <2> QED
    BY <1>2, <1>3, <1>5, <1>13, <2>3 DEF EndVar
<1>14. CASE EndFor
  <2>1. UNCHANGED <<var, captured>> /\ EscChange(m) /\ AccChange(m)
    BY <1>14 DEF EndFor, EscChange, AccChange
  <2> QED
    BY <1>2, <1>3, <1>5, <1>14, <2>1 DEF EndFor
<1>15. ASSUME NEW x \in Names, BeginVar(x) PROVE Typed'
  <2> DEFINE c == [of |-> "VAR", next |-> "EXPR", depth |-> Inner.depth, v |-> New]
  <2>1. Declare(x, "VAR", Inner.depth)
    BY <1>15 DEF BeginVar
  <2>2. /\ var' \in Seq(Variable) /\ m \in Nat /\ m <= MaxVars /\ n <= m
        /\ captured' \subseteq 1 .. m /\ New \in 1 .. m /\ New \in 1 .. MaxVars
    BY <2>1, DeclareOK
  <2>3. c \in Construct /\ open' = Append(open, c)
    BY <1>15, <2>2 DEF BeginVar, Open, Construct
  <2>4. Nested(open', m)
    BY <1>4, <2>2, <2>3
  <2>5. EscChange(m) /\ AccChange(m)
    BY <1>15, <2>2 DEF BeginVar, EscChange, AccChange
  <2> QED
    BY <1>2, <2>2, <2>4, <2>5
<1>16. ASSUME NEW x \in Names, Param(x) PROVE Typed'
  <2>1. Declare(x, "PARAM", Inner.depth)
    BY <1>16 DEF Param
  <2>2. /\ var' \in Seq(Variable) /\ m \in Nat /\ m <= MaxVars /\ n <= m
        /\ captured' \subseteq 1 .. m /\ New \in 1 .. m /\ New \in 1 .. MaxVars
    BY <2>1, DeclareOK
  <2>3. Nested(open', m)
    BY <1>1, <1>16, <2>2, NestedGrows DEF Param
  <2>4. EscChange(m) /\ AccChange(m)
    BY <1>16, <2>2 DEF Param, EscChange, AccChange
  <2> QED
    BY <1>2, <2>2, <2>3, <2>4
<1>17. ASSUME NEW x \in Names, BeginFor(x) PROVE Typed'
  <2> DEFINE c == [of |-> "FOR", next |-> "EXPR", depth |-> Inner.depth, v |-> New]
  <2>1. Declare(x, "FOR", Inner.depth)
    BY <1>17 DEF BeginFor
  <2>2. /\ var' \in Seq(Variable) /\ m \in Nat /\ m <= MaxVars /\ n <= m
        /\ captured' \subseteq 1 .. m /\ New \in 1 .. m /\ New \in 1 .. MaxVars
    BY <2>1, DeclareOK
  <2>3. c \in Construct /\ open' = Append(open, c)
    BY <1>17, <2>2 DEF BeginFor, Open, Construct
  <2>4. Nested(open', m)
    BY <1>4, <2>2, <2>3
  <2>5. EscChange(m) /\ AccChange(m)
    BY <1>17, <2>2 DEF BeginFor, EscChange, AccChange
  <2> QED
    BY <1>2, <2>2, <2>4, <2>5
<1>18. ASSUME NEW x \in Names, Use(x) PROVE Typed'
  <2>1. var' \in Seq(Variable) /\ m = n /\ captured' \subseteq 1 .. m
    BY <1>18, UseOK
  <2>2. open' = open /\ EscChange(m) /\ AccChange(m)
    BY <1>18 DEF Use, EscChange, AccChange
  <2> QED
    BY <1>1, <1>2, <2>1, <2>2
<1>19. CASE UNCHANGED vars
  <2>1. UNCHANGED <<var, captured>> /\ open' = open /\ EscChange(m) /\ AccChange(m)
    BY <1>19 DEF vars, EscChange, AccChange
  <2> QED
    BY <1>1, <1>2, <1>3, <2>1
<1> QED
  BY <1>7, <1>8, <1>9, <1>10, <1>11, <1>12, <1>13, <1>14, <1>15, <1>16, <1>17, <1>18, <1>19 DEF Next
-----------------------------------------------------------------------------
LEMMA LevelsInRange ==
  ASSUME NEW s, Len(s) \in Nat, Len(s) >= 1, NEW f, NEW n, NEW scopes, Levels(f, s, n, scopes)
  PROVE  n \in Nat /\ n >= 1 /\ \A i \in 1 .. Len(s) : f[i] \in 1 .. n
<1>1. 1 \in 1 .. Len(s) /\ Len(s) \in 1 .. Len(s)
  OBVIOUS
<1>2. n \in Nat
  BY <1>1 DEF Levels
<1>3. ASSUME NEW i \in 1 .. Len(s) PROVE f[i] \in 1 .. n
  <2>1. f[1] <= f[i] /\ f[i] <= f[Len(s)] /\ f[i] \in Nat
    BY <1>1 DEF Levels
  <2> QED
    BY <2>1, <1>2 DEF Levels
<1> QED
  BY <1>1, <1>2, <1>3

(* escape.c's environments when it enters a scope, leaves one, and binds. *)
LEMMA EscAtEnter ==
  ASSUME Esc!Enter, escSaved \in Seq(Envs(Len(var)))
  PROVE  /\ Len(escSaved') = Len(escSaved) + 1 /\ escSaved'[Len(escSaved) + 1] = escCur
         /\ escCur' = escCur
         /\ \A j \in 1 .. Len(escSaved) : escSaved'[j] = escSaved[j] /\ EscAt(j)' = EscAt(j)
<1>1. escSaved' = Append(escSaved, escCur) /\ escCur' = escCur
  BY DEF Esc!Enter
<1> QED
  BY <1>1 DEF EscAt

LEMMA EscAtLeave ==
  ASSUME Esc!Leave, escSaved \in Seq(Envs(Len(var))), Len(escSaved) >= 2
  PROVE  /\ Len(escSaved') = Len(escSaved) - 1 /\ escCur' = escSaved[Len(escSaved)]
         /\ \A j \in 1 .. Len(escSaved) - 1 : escSaved'[j] = escSaved[j] /\ EscAt(j)' = EscAt(j)
<1>1. escSaved' = SubSeq(escSaved, 1, Len(escSaved) - 1) /\ escCur' = escSaved[Len(escSaved)]
  BY DEF Esc!Leave
<1>2. Len(escSaved) \in Nat /\ Len(escSaved') = Len(escSaved) - 1
      /\ \A j \in 1 .. Len(escSaved) - 1 : escSaved'[j] = escSaved[j]
  BY <1>1
<1>3. \A j \in 1 .. Len(escSaved) - 1 : EscAt(j)' = EscAt(j)
  BY <1>1, <1>2 DEF EscAt
<1> QED
  BY <1>1, <1>2, <1>3

LEMMA EscAtBind ==
  ASSUME NEW x \in Names, NEW v, Esc!Bind(x, v), escCur \in Envs(Len(var)),
         escSaved \in Seq(Envs(Len(var)))
  PROVE  /\ escSaved' = escSaved
         /\ \A y \in Names : escCur'[y] = IF y = x THEN v ELSE escCur[y]
         /\ \A j \in 1 .. Len(escSaved) - 1 : EscAt(j)' = EscAt(j)
         /\ EscAt(Len(escSaved))' = escCur'
<1>1. escSaved' = escSaved /\ escCur' = [escCur EXCEPT ![x] = v]
  BY DEF Esc!Bind
<1>2. \A y \in Names : escCur'[y] = IF y = x THEN v ELSE escCur[y]
  BY <1>1 DEF Envs
<1>3. Len(escSaved) \in Nat
  OBVIOUS
<1> QED
  BY <1>1, <1>2, <1>3 DEF EscAt

(* The same for what trans.c has saved. *)
LEMMA AccEnter ==
  ASSUME NEW e \in Envs(Len(var)), accSaved' = Append(accSaved, e),
         accSaved \in Seq(Envs(Len(var)))
  PROVE  /\ Len(accSaved') = Len(accSaved) + 1 /\ accSaved'[Len(accSaved) + 1] = e
         /\ \A j \in 1 .. Len(accSaved) : accSaved'[j] = accSaved[j]
OBVIOUS

LEMMA AccLeave ==
  ASSUME Acc!Leave, accSaved \in Seq(Envs(Len(var))), Len(accSaved) >= 2
  PROVE  /\ Len(accSaved') = Len(accSaved) - 1 /\ accCur' = accSaved[Len(accSaved)]
         /\ \A j \in 1 .. Len(accSaved) - 1 : accSaved'[j] = accSaved[j]
BY DEF Acc!Leave

(* What is ready stays so if nothing about it changes. *)
LEMMA ReadyKept ==
  ASSUME NEW vs, NEW ws, NEW c, NEW d, NEW acc, NEW esc, NEW cur, Ready(vs, c, acc, esc, cur),
         d.of = c.of, d.v = c.v, c.of = "VAR" => ws[c.v].name = vs[c.v].name
  PROVE  Ready(ws, d, acc, esc, cur)
BY DEF Ready

LEMMA AgreementInit == Init => Agreeing /\ Flags
<1> SUFFICES ASSUME Init PROVE Agreeing /\ Flags
  OBVIOUS
<1> DEFINE f == [i \in 1 .. 1 |-> 1]
<1>1. Len(open) = 1 /\ Len(escSaved) = 1 /\ Len(accSaved) = 1 /\ Len(var) = 0
  BY DEF Init
<1>2. Levels(f, open, Len(escSaved), EscScopes) /\ Levels(f, open, Len(accSaved), AccScopes)
  BY <1>1 DEF Levels
<1>3. Agree(accCur, escCur)
  BY DEF Init, Agree, Acc!EmptyEnv
<1>4. Agreement(f, f)
  BY <1>1, <1>3 DEF Agreement
<1>5. Agreeing
  BY <1>2, <1>4 DEF Agreeing
<1> QED
  BY <1>1, <1>5 DEF Flags

(* The flag of a variable is set when trans.c captures it. *)
LEMMA FlagsStep == Typed /\ Flags /\ Agree(accCur, escCur) /\ [Next]_vars => Flags'
<1> SUFFICES ASSUME Typed, Flags, Agree(accCur, escCur), [Next]_vars PROVE Flags'
  OBVIOUS
<1> USE TypedMeans
<1>1. CASE UNCHANGED <<var, captured>>
  BY <1>1 DEF Flags
<1>2. ASSUME NEW x \in Names, NEW kind, Declare(x, kind, Inner.depth) PROVE Flags'
  <2>1. /\ Len(var) \in Nat /\ Len(var') = Len(var) + 1 /\ captured' = captured
        /\ \A v \in 1 .. Len(var) : var'[v] = var[v]
        /\ ~ var'[New].escape /\ New \notin captured'
    BY <1>2, DeclareOK DEF Declare
  <2>2. ASSUME NEW v \in 1 .. Len(var') PROVE var'[v].escape <=> v \in captured'
    <3>1. CASE v = New
      BY <2>1, <3>1
    <3>2. CASE v # New
      <4>1. v \in 1 .. Len(var) /\ var'[v] = var[v]
        BY <2>1, <3>2 DEF New
      <4> QED
        BY <2>1, <4>1, Zenon DEF Flags
    <3> QED
      BY <3>1, <3>2
  <2> QED
    BY <2>2 DEF Flags
<1>3. ASSUME NEW x \in Names, Use(x) PROVE Flags'
  <2>1. accCur[x] # NULL
    BY <1>3 DEF Use
  <2>2. escCur[x] = accCur[x]
    BY <2>1 DEF Agree
  <2>3. /\ Len(var') = Len(var)
        /\ \A v \in 1 .. Len(var) :
             var'[v].escape <=> var[v].escape \/ (v = escCur[x] /\ var[v].depth < Inner.depth)
        /\ \A v \in 1 .. Len(var) :
             v \in captured' <=> v \in captured \/ (v = accCur[x] /\ var[v].depth < Inner.depth)
    BY <1>3, UseOK
  <2>4. ASSUME NEW v \in 1 .. Len(var) PROVE var'[v].escape <=> v \in captured'
    BY <2>2, <2>3, Zenon DEF Flags
  <2> QED
    BY <2>3, <2>4 DEF Flags
<1> QED
  BY <1>1, <1>2, <1>3
     DEF Next, EnterLet, LetBody, LeaveLet, BeginVar, EndVar, EnterFunc, Param, FuncBody, LeaveFunc,
         BeginFor, EndFor, vars
-----------------------------------------------------------------------------
(* The same scopes, with the constructs' kinds and variables unchanged. *)
LEMMA SameLevels ==
  ASSUME NEW s, NEW t, Len(t) = Len(s), \A i \in 1 .. Len(s) : t[i].of = s[i].of,
         NEW f, NEW n, NEW scopes, Levels(f, s, n, scopes), Len(s) \in Nat
  PROVE  Levels(f, t, n, scopes)
<1>1. \A i \in 2 .. Len(s) : t[i].of = s[i].of
  OBVIOUS
<1> QED
  BY <1>1 DEF Levels

LEMMA SameAgreement ==
  ASSUME Typed, Agreeing, UNCHANGED <<escCur, escSaved, accCur, accSaved>>,
         Len(open') = Len(open),
         \A i \in 1 .. Len(open) : open'[i].of = open[i].of /\ open'[i].v = open[i].v,
         \A v \in 1 .. Len(var) : var'[v].name = var[v].name
  PROVE  Agreeing'
<1>1. PICK f, g : /\ Levels(f, open, Len(escSaved), EscScopes)
                  /\ Levels(g, open, Len(accSaved), AccScopes)
                  /\ Agreement(f, g)
  BY DEF Agreeing
<1>2. Len(open) \in Nat
  BY TypedMeans
<1>3. Levels(f, open', Len(escSaved'), EscScopes) /\ Levels(g, open', Len(accSaved'), AccScopes)
  BY <1>1, <1>2, SameLevels
<1>4. ASSUME NEW i \in 2 .. Len(open)
      PROVE  Ready(var', open'[i], accSaved'[g[i]], escSaved'[f[i]], EscAt(f[i])')
  <2>1. i \in 1 .. Len(open) /\ open'[i].of = open[i].of /\ open'[i].v = open[i].v
    BY <1>2
  <2>2. Ready(var, open[i], accSaved[g[i]], escSaved[f[i]], EscAt(f[i]))
    BY <1>1 DEF Agreement
  <2>3. open[i].of = "VAR" => open[i].v \in 1 .. Len(var)
    BY <2>1 DEF Typed, Nested
  <2>4. EscAt(f[i])' = EscAt(f[i])
    BY DEF EscAt
  <2> QED
    BY <2>1, <2>2, <2>3, <2>4, ReadyKept
<1>5. Agreement(f, g)'
  BY <1>1, <1>4 DEF Agreement
<1> QED
  BY <1>3, <1>5 DEF Agreeing

(* A construct is opened, inside which the one or the other has saved one  *)
(* environment more.                                                       *)
LEMMA PushAgreement ==
  ASSUME Typed, NEW c \in Construct, open' = Append(open, c), NEW f, NEW g,
         Levels(f, open, Len(escSaved), EscScopes), Levels(g, open, Len(accSaved), AccScopes),
         Len(escSaved') = IF c.of \in EscScopes THEN Len(escSaved) + 1 ELSE Len(escSaved),
         Len(accSaved') = IF c.of \in AccScopes THEN Len(accSaved) + 1 ELSE Len(accSaved),
         Agree(accCur', escCur'),
         \A i \in 2 .. Len(open) :
           Ready(var', open[i], accSaved'[g[i]], escSaved'[f[i]], EscAt(f[i])'),
         Ready(var', c, accSaved'[Len(accSaved')], escSaved'[Len(escSaved')], escCur')
  PROVE  Agreeing'
<1> USE TypedMeans
<1> DEFINE n == Len(open)
<1>1. PICK k, l, m : k = Len(escSaved') /\ l = Len(accSaved') /\ m = n
  OBVIOUS
<1>2. /\ Len(escSaved) \in Nat /\ Len(accSaved) \in Nat
      /\ k \in Nat /\ l \in Nat /\ m \in Nat /\ m >= 1
  BY <1>1
<1>3. PICK ff, gg : ff = Pushed(f, open, k) /\ gg = Pushed(g, open, l)
  OBVIOUS
<1>4. Levels(ff, open', k, EscScopes) /\ Levels(gg, open', l, AccScopes)
  <2>1. open # <<>>
    BY DEF Typed, TypeOK
  <2>2. Levels(Pushed(f, open, k), Append(open, c), k, EscScopes)
    BY <1>1, <1>2, <2>1, LevelsPush
  <2>3. Levels(Pushed(g, open, l), Append(open, c), l, AccScopes)
    BY <1>1, <1>2, <2>1, LevelsPush
  <2> QED
    BY <1>3, <2>2, <2>3
<1>5. Len(open') = m + 1 /\ open'[m + 1] = c /\ \A i \in 1 .. m : open'[i] = open[i]
  BY <1>1
<1>6. ASSUME NEW i \in 2 .. m + 1
      PROVE  Ready(var', open'[i], accSaved'[gg[i]], escSaved'[ff[i]], EscAt(ff[i])')
  <2>1. CASE i = m + 1
    <3>1. ff[i] = k /\ gg[i] = l /\ open'[i] = c
      BY <1>1, <1>2, <1>3, <1>5, <2>1 DEF Pushed
    <3>2. EscAt(ff[i])' = escCur'
      BY <1>1, <3>1 DEF EscAt
    <3> QED
      BY <1>1, <3>1, <3>2
  <2>2. CASE i # m + 1
    <3>1. i \in 2 .. n /\ ff[i] = f[i] /\ gg[i] = g[i] /\ open'[i] = open[i]
      <4>1. i \in 2 .. m /\ i \in 1 .. m /\ i <= m
        BY <1>2, <2>2
      <4>2. ff = Pushed(f, open, k) /\ gg = Pushed(g, open, l) /\ m = Len(open)
        BY <1>1, <1>3
      <4>3. i \in 1 .. Len(open) + 1 /\ i <= Len(open)
        BY <1>2, <4>1, <4>2
      <4>4. ff[i] = f[i] /\ gg[i] = g[i]
        BY <4>2, <4>3 DEF Pushed
      <4> QED
        BY <1>1, <1>5, <4>1, <4>4
    <3>2. EscAt(ff[i])' = EscAt(f[i])'
      BY <3>1
    <3> QED
      BY <3>1, <3>2
  <2> QED
    BY <2>1, <2>2
<1>7. Agreement(ff, gg)'
  BY <1>5, <1>6 DEF Agreement
<1> QED
  BY <1>1, <1>4, <1>7 DEF Agreeing

(* The innermost construct is closed, what it saved given back. *)
LEMMA PopAgreement ==
  ASSUME Typed, Close, Inner.of # "MAIN", UNCHANGED var, NEW f, NEW g, Agreement(f, g),
         Levels(f, open, Len(escSaved), EscScopes), Levels(g, open, Len(accSaved), AccScopes),
         Len(escSaved') = IF Inner.of \in EscScopes THEN Len(escSaved) - 1 ELSE Len(escSaved),
         Len(accSaved') = IF Inner.of \in AccScopes THEN Len(accSaved) - 1 ELSE Len(accSaved),
         Agree(accCur', escCur'),
         \A j \in 1 .. Len(escSaved') : escSaved'[j] = escSaved[j] /\ EscAt(j)' = EscAt(j),
         \A j \in 1 .. Len(accSaved') : accSaved'[j] = accSaved[j]
  PROVE  Agreeing'
<1> USE TypedMeans
<1>1. PICK k, l, n : k = Len(escSaved') /\ l = Len(accSaved') /\ n = Len(open)
  OBVIOUS
<1>2. /\ Len(escSaved) \in Nat /\ Len(accSaved) \in Nat /\ k \in Int /\ l \in Int
      /\ n \in Nat /\ n >= 2
  BY <1>1, NestedPop DEF Typed, Inner
<1>3. PICK ff, gg : ff = Popped(f, open) /\ gg = Popped(g, open)
  OBVIOUS
<1>4. Levels(ff, open', k, EscScopes) /\ Levels(gg, open', l, AccScopes)
  <2>1. open' = SubSeq(open, 1, Len(open) - 1) /\ Inner = open[Len(open)]
    BY DEF Close, Inner
  <2>2. Levels(Popped(f, open), SubSeq(open, 1, Len(open) - 1), k, EscScopes)
    BY <1>1, <1>2, <2>1, LevelsPop
  <2>3. Levels(Popped(g, open), SubSeq(open, 1, Len(open) - 1), l, AccScopes)
    BY <1>1, <1>2, <2>1, LevelsPop
  <2> QED
    BY <1>3, <2>1, <2>2, <2>3
<1>5. Len(open') = n - 1 /\ \A i \in 1 .. n - 1 : open'[i] = open[i]
  BY <1>1, <1>2 DEF Close
<1>6. \A i \in 1 .. n - 1 : ff[i] \in 1 .. k /\ gg[i] \in 1 .. l
  <2>1. Len(open') \in Nat /\ Len(open') >= 1
    BY <1>2, <1>5
  <2>2. \A i \in 1 .. Len(open') : ff[i] \in 1 .. k
    BY <1>4, <2>1, LevelsInRange
  <2>3. \A i \in 1 .. Len(open') : gg[i] \in 1 .. l
    BY <1>4, <2>1, LevelsInRange
  <2> QED
    BY <1>5, <2>2, <2>3
<1>7. ASSUME NEW i \in 2 .. n - 1
      PROVE  Ready(var', open'[i], accSaved'[gg[i]], escSaved'[ff[i]], EscAt(ff[i])')
  <2>1. i \in 2 .. n /\ i \in 1 .. n - 1 /\ ff[i] = f[i] /\ gg[i] = g[i] /\ open'[i] = open[i]
    <3>1. i \in 2 .. n /\ i \in 1 .. n - 1 /\ i \in 1 .. Len(open) - 1
      BY <1>1, <1>2
    <3>2. ff[i] = f[i] /\ gg[i] = g[i]
      BY <1>3, <3>1 DEF Popped
    <3> QED
      BY <1>5, <3>1, <3>2
  <2>2. Ready(var, open[i], accSaved[g[i]], escSaved[f[i]], EscAt(f[i]))
    BY <1>1, <2>1 DEF Agreement
  <2>3. /\ accSaved'[gg[i]] = accSaved[g[i]] /\ escSaved'[ff[i]] = escSaved[f[i]]
        /\ EscAt(ff[i])' = EscAt(ff[i])
    BY <1>1, <1>6, <2>1
  <2>4. EscAt(ff[i]) = EscAt(f[i])
    BY <2>1
  <2> QED
    BY <2>1, <2>2, <2>3, <2>4
<1>8. Agreement(ff, gg)'
  BY <1>5, <1>7 DEF Agreement
<1> QED
  BY <1>1, <1>4, <1>8 DEF Agreeing
-----------------------------------------------------------------------------
LEMMA EnterAgreement ==
  ASSUME Typed, Agreeing, NEW c \in Construct, c.of \in EscScopes,
         open' = Append(open, c), Esc!Enter, Acc!Enter, UNCHANGED var
  PROVE  Agreeing'
<1> USE TypedMeans
<1>1. PICK f, g : /\ Levels(f, open, Len(escSaved), EscScopes)
                  /\ Levels(g, open, Len(accSaved), AccScopes)
                  /\ Agreement(f, g)
  BY DEF Agreeing
<1>2. c.of \in AccScopes
  BY DEF EscScopes, AccScopes
<1>3. \A i \in 1 .. Len(open) : f[i] \in 1 .. Len(escSaved) /\ g[i] \in 1 .. Len(accSaved)
  BY <1>1, LevelsInRange
<1>4. /\ Len(escSaved') = Len(escSaved) + 1 /\ escSaved'[Len(escSaved) + 1] = escCur
      /\ escCur' = escCur
      /\ \A j \in 1 .. Len(escSaved) : escSaved'[j] = escSaved[j] /\ EscAt(j)' = EscAt(j)
  BY EscAtEnter
<1>5. accSaved' = Append(accSaved, accCur) /\ accCur' = accCur
  BY DEF Acc!Enter
<1>6. /\ Len(accSaved') = Len(accSaved) + 1 /\ accSaved'[Len(accSaved) + 1] = accCur
      /\ \A j \in 1 .. Len(accSaved) : accSaved'[j] = accSaved[j]
  BY <1>5, AccEnter
<1>7. Agree(accCur, escCur)
  BY <1>1 DEF Agreement
<1>8. ASSUME NEW i \in 2 .. Len(open)
      PROVE  Ready(var', open[i], accSaved'[g[i]], escSaved'[f[i]], EscAt(f[i])')
  <2>1. i \in 1 .. Len(open)
    OBVIOUS
  <2>2. /\ accSaved'[g[i]] = accSaved[g[i]] /\ escSaved'[f[i]] = escSaved[f[i]]
        /\ EscAt(f[i])' = EscAt(f[i])
    BY <1>3, <1>4, <1>6, <2>1
  <2> QED
    BY <1>1, <2>2 DEF Agreement
<1>9. Ready(var', c, accSaved'[Len(accSaved')], escSaved'[Len(escSaved')], escCur')
  BY <1>4, <1>6, <1>7 DEF Ready, EscScopes
<1> QED
  BY <1>1, <1>2, <1>4, <1>5, <1>6, <1>7, <1>8, <1>9, PushAgreement

LEMMA LeaveAgreement ==
  ASSUME Typed, Agreeing, Inner.of \in EscScopes, Close, Esc!Leave, Acc!Leave, UNCHANGED var
  PROVE  Agreeing'
<1> USE TypedMeans
<1>1. PICK f, g : /\ Levels(f, open, Len(escSaved), EscScopes)
                  /\ Levels(g, open, Len(accSaved), AccScopes)
                  /\ Agreement(f, g)
  BY DEF Agreeing
<1>2. Inner.of \in AccScopes /\ Inner.of # "MAIN" /\ Inner = open[Len(open)]
  BY DEF EscScopes, AccScopes, Inner
<1>3. Len(open) \in 2 .. Len(open) /\ Len(open) - 1 \in 1 .. Len(open)
  BY <1>2, NestedPop DEF Typed
<1>4. f[Len(open)] = Len(escSaved) /\ g[Len(open)] = Len(accSaved)
  BY <1>1 DEF Levels
<1>5. Len(escSaved) >= 2 /\ Len(accSaved) >= 2
  <2>1. /\ f[Len(open)] = f[Len(open) - 1] + 1 /\ g[Len(open)] = g[Len(open) - 1] + 1
    BY <1>1, <1>2, <1>3 DEF Levels
  <2>2. f[Len(open) - 1] >= 1 /\ g[Len(open) - 1] >= 1
    BY <1>1, <1>3, LevelsInRange
  <2>3. f[Len(open) - 1] \in Nat /\ g[Len(open) - 1] \in Nat
    BY <1>1, <1>3 DEF Levels
  <2> QED
    BY <1>4, <2>1, <2>2, <2>3
<1>6. /\ Len(escSaved') = Len(escSaved) - 1 /\ escCur' = escSaved[Len(escSaved)]
      /\ \A j \in 1 .. Len(escSaved) - 1 : escSaved'[j] = escSaved[j] /\ EscAt(j)' = EscAt(j)
  BY <1>5, EscAtLeave
<1>7. /\ Len(accSaved') = Len(accSaved) - 1 /\ accCur' = accSaved[Len(accSaved)]
      /\ \A j \in 1 .. Len(accSaved) - 1 : accSaved'[j] = accSaved[j]
  BY <1>5, AccLeave
<1>8. Agree(accCur', escCur')
  <2>1. Ready(var, Inner, accSaved[Len(accSaved)], escSaved[Len(escSaved)], EscAt(Len(escSaved)))
    BY <1>1, <1>2, <1>3, <1>4 DEF Agreement
  <2> QED
    BY <1>6, <1>7, <2>1 DEF Ready
<1> QED
  BY <1>1, <1>2, <1>6, <1>7, <1>8, PopAgreement

(* trans.c leaves the scope of a FOR, escape.c has none. *)
LEMMA EndForAgreement ==
  ASSUME Typed, Agreeing, EndFor
  PROVE  Agreeing'
<1> USE TypedMeans
<1>1. PICK f, g : /\ Levels(f, open, Len(escSaved), EscScopes)
                  /\ Levels(g, open, Len(accSaved), AccScopes)
                  /\ Agreement(f, g)
  BY DEF Agreeing
<1>2. /\ Close /\ Acc!Leave /\ UNCHANGED <<escCur, escSaved, var>>
      /\ Inner.of = "FOR" /\ Inner = open[Len(open)]
  BY DEF EndFor, Inner
<1>3. Len(open) \in 2 .. Len(open) /\ Len(open) - 1 \in 1 .. Len(open)
  BY <1>2, NestedPop DEF Typed
<1>4. f[Len(open)] = Len(escSaved) /\ g[Len(open)] = Len(accSaved)
  BY <1>1 DEF Levels
<1>5. Len(accSaved) >= 2
  <2>1. g[Len(open)] = g[Len(open) - 1] + 1
    BY <1>1, <1>2, <1>3 DEF Levels, AccScopes
  <2>2. g[Len(open) - 1] >= 1
    BY <1>1, <1>3, LevelsInRange
  <2>3. g[Len(open) - 1] \in Nat
    BY <1>1, <1>3 DEF Levels
  <2> QED
    BY <1>4, <2>1, <2>2, <2>3
<1>6. /\ Len(accSaved') = Len(accSaved) - 1 /\ accCur' = accSaved[Len(accSaved)]
      /\ \A j \in 1 .. Len(accSaved) - 1 : accSaved'[j] = accSaved[j]
  BY <1>2, <1>5, AccLeave
<1>7. Agree(accCur', escCur')
  <2>1. Ready(var, Inner, accSaved[Len(accSaved)], escSaved[Len(escSaved)], EscAt(Len(escSaved)))
    BY <1>1, <1>2, <1>3, <1>4 DEF Agreement
  <2> QED
    BY <1>2, <1>6, <2>1 DEF Ready, EscAt
<1>8. \A j \in 1 .. Len(escSaved') : escSaved'[j] = escSaved[j] /\ EscAt(j)' = EscAt(j)
  BY <1>2 DEF EscAt
<1>9. Inner.of \in AccScopes /\ Inner.of \notin EscScopes
  BY <1>2 DEF AccScopes, EscScopes
<1> QED
  BY <1>1, <1>2, <1>6, <1>7, <1>8, <1>9, PopAgreement

(* trans.c binds the variable that escape.c had bound before. *)
LEMMA EndVarAgreement ==
  ASSUME Typed, Agreeing, EndVar
  PROVE  Agreeing'
<1> USE TypedMeans
<1>1. PICK f, g : /\ Levels(f, open, Len(escSaved), EscScopes)
                  /\ Levels(g, open, Len(accSaved), AccScopes)
                  /\ Agreement(f, g)
  BY DEF Agreeing
<1>2. /\ Close /\ Acc!Bind(var[Inner.v].name, Inner.v) /\ UNCHANGED <<escCur, escSaved, var>>
      /\ Inner.of = "VAR" /\ Inner = open[Len(open)]
  BY DEF EndVar, Inner
<1>3. Len(open) \in 2 .. Len(open)
  BY <1>2, NestedPop DEF Typed
<1>4. f[Len(open)] = Len(escSaved)
  BY <1>1 DEF Levels
<1>5. escCur[var[Inner.v].name] = Inner.v
  <2>1. Ready(var, Inner, accSaved[g[Len(open)]], escSaved[Len(escSaved)], EscAt(Len(escSaved)))
    BY <1>1, <1>2, <1>3, <1>4 DEF Agreement
  <2> QED
    BY <1>2, <2>1 DEF Ready, EscAt
<1>6. accCur' = [accCur EXCEPT ![var[Inner.v].name] = Inner.v] /\ accSaved' = accSaved
  BY <1>2 DEF Acc!Bind
<1>7. Agree(accCur', escCur')
  <2>1. Agree(accCur, escCur)
    BY <1>1 DEF Agreement
  <2>2. \A y \in Names :
          accCur'[y] = IF y = var[Inner.v].name THEN Inner.v ELSE accCur[y]
    BY <1>6 DEF Envs
  <2> QED
    BY <1>2, <1>5, <2>1, <2>2 DEF Agree
<1>8. \A j \in 1 .. Len(escSaved') : escSaved'[j] = escSaved[j] /\ EscAt(j)' = EscAt(j)
  BY <1>2 DEF EscAt
<1>9. Inner.of \notin AccScopes /\ Inner.of \notin EscScopes
  BY <1>2 DEF AccScopes, EscScopes
<1> QED
  BY <1>1, <1>2, <1>6, <1>7, <1>8, <1>9, PopAgreement

ParamsOnly == Shadows \subseteq {"PARAM"}

(* A variable of a let or a for gets a name nobody has bound, so that      *)
(* escape.c's binding of it disturbs no construct around it.               *)
LEMMA FreshName ==
  ASSUME ParamsOnly, Typed, Agreeing, NEW x \in Names, NEW kind \in {"VAR", "FOR"},
         Declare(x, kind, Inner.depth), Esc!Bind(x, New), NEW f, NEW g, Agreement(f, g),
         Levels(f, open, Len(escSaved), EscScopes), Levels(g, open, Len(accSaved), AccScopes),
         \A j \in 1 .. Len(accSaved) : accSaved'[j] = accSaved[j]
  PROVE  /\ accCur[x] = NULL /\ escSaved' = escSaved
         /\ \A y \in Names : escCur'[y] = IF y = x THEN New ELSE escCur[y]
         /\ \A i \in 2 .. Len(open) :
              Ready(var', open[i], accSaved'[g[i]], escSaved'[f[i]], EscAt(f[i])')
<1> USE TypedMeans
<1>1. accCur[x] = NULL /\ escCur[x] = NULL
  BY DEF ParamsOnly, Declare
<1>2. /\ escSaved' = escSaved
      /\ \A y \in Names : escCur'[y] = IF y = x THEN New ELSE escCur[y]
      /\ \A j \in 1 .. Len(escSaved) - 1 : EscAt(j)' = EscAt(j)
      /\ EscAt(Len(escSaved))' = escCur'
  BY EscAtBind
<1>3. \A v \in 1 .. Len(var) : var'[v] = var[v]
  BY DeclareOK
<1>4. \A v \in 1 .. Len(var) : v # NULL /\ var[v].name \in Names
  <2>1. \A v \in 1 .. Len(var) : var[v] \in Variable
    OBVIOUS
  <2> QED
    BY <2>1, NullAssumption, BoundsAssumption DEF Variable
<1>5. \A i \in 1 .. Len(open) : f[i] \in 1 .. Len(escSaved) /\ g[i] \in 1 .. Len(accSaved)
  BY LevelsInRange
<1>6. ASSUME NEW i \in 2 .. Len(open)
      PROVE  Ready(var', open[i], accSaved'[g[i]], escSaved'[f[i]], EscAt(f[i])')
  <2>1. i \in 1 .. Len(open) /\ Ready(var, open[i], accSaved[g[i]], escSaved[f[i]], EscAt(f[i]))
    BY DEF Agreement
  <2>2. accSaved'[g[i]] = accSaved[g[i]] /\ escSaved'[f[i]] = escSaved[f[i]]
    BY <1>2, <1>5, <2>1
  <2>3. open[i].of = "VAR" => open[i].v \in 1 .. Len(var)
    BY <2>1 DEF Typed, Nested
  <2>4. open[i].of = "VAR" => /\ open[i].v # NULL /\ var[open[i].v].name \in Names
                              /\ var'[open[i].v].name = var[open[i].v].name
    BY <1>3, <1>4, <2>3
  <2>5. CASE f[i] = Len(escSaved)
    <3>1. EscAt(f[i])' = escCur' /\ EscAt(f[i]) = escCur
      BY <1>2, <2>5 DEF EscAt
    <3>2. Ready(var, open[i], accSaved[g[i]], escSaved[f[i]], escCur)
      BY <2>1, <3>1
    <3>3. Ready(var', open[i], accSaved[g[i]], escSaved[f[i]], escCur')
      <4>1. open[i].of = "FOR" => Agree(accSaved[g[i]], escCur')
        BY <1>1, <1>2, <3>2 DEF Ready, Agree
      <4>2. open[i].of = "VAR" => escCur'[var'[open[i].v].name] = open[i].v
        BY <1>1, <1>2, <2>4, <3>2 DEF Ready
      <4> QED
        BY <3>2, <4>1, <4>2 DEF Ready
    <3> QED
      BY <2>2, <3>1, <3>3
  <2>6. CASE f[i] # Len(escSaved)
    <3>1. f[i] \in 1 .. Len(escSaved) - 1
      BY <1>5, <2>1, <2>6
    <3>2. EscAt(f[i])' = EscAt(f[i])
      BY <1>2, <3>1
    <3> QED
      BY <2>1, <2>2, <2>4, <3>2, ReadyKept
  <2> QED
    BY <2>5, <2>6
<1> QED
  BY <1>1, <1>2, <1>6

LEMMA BeginVarAgreement ==
  ASSUME ParamsOnly, Typed, Agreeing, NEW x \in Names, BeginVar(x)
  PROVE  Agreeing'
<1> USE TypedMeans
<1>1. PICK f, g : /\ Levels(f, open, Len(escSaved), EscScopes)
                  /\ Levels(g, open, Len(accSaved), AccScopes)
                  /\ Agreement(f, g)
  BY DEF Agreeing
<1> DEFINE c == [of |-> "VAR", next |-> "EXPR", depth |-> Inner.depth, v |-> New]
<1>2. /\ Declare(x, "VAR", Inner.depth) /\ Esc!Bind(x, New) /\ UNCHANGED <<accCur, accSaved>>
      /\ open' = Append(open, c)
  BY DEF BeginVar, Open
<1>3. /\ accCur[x] = NULL /\ escSaved' = escSaved
      /\ \A y \in Names : escCur'[y] = IF y = x THEN New ELSE escCur[y]
      /\ \A i \in 2 .. Len(open) :
           Ready(var', open[i], accSaved'[g[i]], escSaved'[f[i]], EscAt(f[i])')
  BY <1>1, <1>2, FreshName
<1>4. New \in 1 .. MaxVars /\ var'[New].name = x
  BY <1>2, DeclareOK
<1>5. c \in Construct /\ c.of = "VAR" /\ c.v = New
  BY <1>4 DEF Construct
<1> HIDE DEF c
<1>6. Agree(accCur', escCur')
  BY <1>1, <1>2, <1>3 DEF Agreement, Agree
<1>7. Ready(var', c, accSaved'[Len(accSaved')], escSaved'[Len(escSaved')], escCur')
  BY <1>3, <1>4, <1>5 DEF Ready, EscScopes
<1>8. c.of \notin EscScopes /\ c.of \notin AccScopes
  BY <1>5 DEF EscScopes, AccScopes
<1> QED
  BY <1>1, <1>2, <1>3, <1>5, <1>6, <1>7, <1>8, PushAgreement

LEMMA BeginForAgreement ==
  ASSUME ParamsOnly, Typed, Agreeing, NEW x \in Names, BeginFor(x)
  PROVE  Agreeing'
<1> USE TypedMeans
<1>1. PICK f, g : /\ Levels(f, open, Len(escSaved), EscScopes)
                  /\ Levels(g, open, Len(accSaved), AccScopes)
                  /\ Agreement(f, g)
  BY DEF Agreeing
<1> DEFINE c == [of |-> "FOR", next |-> "EXPR", depth |-> Inner.depth, v |-> New]
<1>2. /\ Declare(x, "FOR", Inner.depth) /\ Esc!Bind(x, New)
      /\ accSaved' = Append(accSaved, accCur) /\ accCur' = [accCur EXCEPT ![x] = New]
      /\ open' = Append(open, c)
  BY DEF BeginFor, Open
<1>3. /\ Len(accSaved') = Len(accSaved) + 1 /\ accSaved'[Len(accSaved) + 1] = accCur
      /\ \A j \in 1 .. Len(accSaved) : accSaved'[j] = accSaved[j]
  BY <1>2, AccEnter
<1>4. /\ accCur[x] = NULL /\ escSaved' = escSaved
      /\ \A y \in Names : escCur'[y] = IF y = x THEN New ELSE escCur[y]
      /\ \A i \in 2 .. Len(open) :
           Ready(var', open[i], accSaved'[g[i]], escSaved'[f[i]], EscAt(f[i])')
  BY <1>1, <1>2, <1>3, FreshName
<1>5. New \in 1 .. MaxVars
  BY <1>2, DeclareOK
<1>6. c \in Construct /\ c.of = "FOR"
  BY <1>5 DEF Construct
<1> HIDE DEF c
<1>7. \A y \in Names : accCur'[y] = IF y = x THEN New ELSE accCur[y]
  BY <1>2 DEF Envs
<1>8. Agree(accCur', escCur') /\ Agree(accCur, escCur')
  BY <1>1, <1>4, <1>7 DEF Agreement, Agree
<1>9. Ready(var', c, accSaved'[Len(accSaved')], escSaved'[Len(escSaved')], escCur')
  BY <1>3, <1>6, <1>8 DEF Ready, EscScopes
<1>10. c.of \notin EscScopes /\ c.of \in AccScopes
  BY <1>6 DEF EscScopes, AccScopes
<1> QED
  BY <1>1, <1>2, <1>3, <1>4, <1>6, <1>8, <1>9, <1>10, PushAgreement

(* A parameter is bound in a scope of its function, whatever it shadows. *)
LEMMA ParamAgreement ==
  ASSUME Typed, Agreeing, NEW x \in Names, Param(x)
  PROVE  Agreeing'
<1> USE TypedMeans
<1>1. PICK f, g : /\ Levels(f, open, Len(escSaved), EscScopes)
                  /\ Levels(g, open, Len(accSaved), AccScopes)
                  /\ Agreement(f, g)
  BY DEF Agreeing
<1>2. /\ Declare(x, "PARAM", Inner.depth) /\ Esc!Bind(x, New) /\ Acc!Bind(x, New)
      /\ open' = open /\ Inner.next = "PARAMS" /\ Inner = open[Len(open)]
  BY DEF Param, At, Inner
<1>3. Inner.of = "FUNC" /\ Len(open) >= 2
  <2>1. Len(open) \in 1 .. Len(open)
    OBVIOUS
  <2>2. Inner.of = "FUNC"
    BY <1>2, <2>1 DEF Typed, Nested
  <2> QED
    BY <1>2, <2>2, NestedPop DEF Typed
<1>4. /\ escSaved' = escSaved
      /\ \A y \in Names : escCur'[y] = IF y = x THEN New ELSE escCur[y]
      /\ \A j \in 1 .. Len(escSaved) - 1 : EscAt(j)' = EscAt(j)
  BY <1>2, EscAtBind
<1>5. accSaved' = accSaved /\ accCur' = [accCur EXCEPT ![x] = New]
  BY <1>2 DEF Acc!Bind
<1>6. \A y \in Names : accCur'[y] = IF y = x THEN New ELSE accCur[y]
  BY <1>5 DEF Envs
<1>7. Agree(accCur', escCur')
  BY <1>1, <1>4, <1>6 DEF Agreement, Agree
<1>8. \A v \in 1 .. Len(var) : var'[v] = var[v]
  BY <1>2, DeclareOK
<1>9. f[Len(open)] = Len(escSaved)
  BY <1>1 DEF Levels
<1>10. ASSUME NEW i \in 2 .. Len(open)
       PROVE  Ready(var', open[i], accSaved'[g[i]], escSaved'[f[i]], EscAt(f[i])')
  <2>1. Ready(var, open[i], accSaved[g[i]], escSaved[f[i]], EscAt(f[i]))
    BY <1>1 DEF Agreement
  <2>2. CASE i = Len(open)
    BY <1>2, <1>3, <1>4, <1>5, <2>1, <2>2 DEF Ready
  <2>3. CASE i # Len(open)
    <3>1. i \in 1 .. Len(open) /\ Len(open) \in 2 .. Len(open) /\ i < Len(open)
      BY <1>3, <2>3
    <3>2. f[i] < Len(escSaved)
      <4>1. open[Len(open)].of \in EscScopes
        BY <1>2, <1>3 DEF EscScopes
      <4>2. f[i] < f[Len(open)]
        BY <1>1, <3>1, <4>1, LevelsRise
      <4> QED
        BY <1>9, <4>2
    <3>3. f[i] \in 1 .. Len(escSaved)
      BY <1>1, <3>1, LevelsInRange
    <3>4. EscAt(f[i])' = EscAt(f[i])
      BY <1>4, <3>2, <3>3
    <3>5. open[i].of = "VAR" => open[i].v \in 1 .. Len(var)
      BY <3>1 DEF Typed, Nested
    <3>6. open[i].of = "VAR" => var'[open[i].v].name = var[open[i].v].name
      BY <1>8, <3>5
    <3> QED
      BY <1>4, <1>5, <2>1, <3>4, <3>6, ReadyKept
  <2> QED
    BY <2>2, <2>3
<1>11. Agreement(f, g)'
  BY <1>2, <1>7, <1>10 DEF Agreement
<1> QED
  BY <1>1, <1>2, <1>4, <1>5, <1>11 DEF Agreeing
-----------------------------------------------------------------------------
LEMMA AgreementStep == ParamsOnly /\ Typed /\ Agreeing /\ [Next]_vars => Agreeing'
<1> SUFFICES ASSUME ParamsOnly, Typed, Agreeing, [Next]_vars PROVE Agreeing'
  OBVIOUS
<1> USE TypedMeans
<1>1. CASE EnterLet
  <2> DEFINE c == [of |-> "LET", next |-> "DECS", depth |-> Inner.depth, v |-> NULL]
  <2>1. c \in Construct /\ c.of \in EscScopes
    BY DEF Construct, EscScopes
  <2> QED
    BY <1>1, <2>1, EnterAgreement DEF EnterLet, Open
<1>2. CASE EnterFunc
  <2> DEFINE c == [of |-> "FUNC", next |-> "PARAMS", depth |-> Inner.depth + 1, v |-> NULL]
  <2>1. c \in Construct /\ c.of \in EscScopes
    BY DEF Construct, EscScopes
  <2> QED
    BY <1>2, <2>1, EnterAgreement DEF EnterFunc, Open
<1>3. CASE LeaveLet
  BY <1>3, LeaveAgreement DEF LeaveLet, EscScopes
<1>4. CASE LeaveFunc
  BY <1>4, LeaveAgreement DEF LeaveFunc, EscScopes
<1>5. ASSUME UNCHANGED <<escCur, escSaved, accCur, accSaved, var>>, GoOn("EXPR") PROVE Agreeing'
  <2>1. Len(open') = Len(open)
        /\ \A i \in 1 .. Len(open) : open'[i].of = open[i].of /\ open'[i].v = open[i].v
    <3>1. \A i \in 1 .. Len(open) : open[i] \in Construct
      OBVIOUS
    <3> QED
      BY <1>5, <3>1 DEF GoOn, Construct
  <2> QED
    BY <1>5, <2>1, SameAgreement
<1>6. CASE LetBody
  BY <1>5, <1>6 DEF LetBody
<1>7. CASE FuncBody
  BY <1>5, <1>7 DEF FuncBody
<1>8. CASE EndVar
  BY <1>8, EndVarAgreement
<1>9. CASE EndFor
  BY <1>9, EndForAgreement
<1>10. ASSUME NEW x \in Names, BeginVar(x) PROVE Agreeing'
  BY <1>10, BeginVarAgreement
<1>11. ASSUME NEW x \in Names, Param(x) PROVE Agreeing'
  BY <1>11, ParamAgreement
<1>12. ASSUME NEW x \in Names, BeginFor(x) PROVE Agreeing'
  BY <1>12, BeginForAgreement
<1>13. ASSUME NEW x \in Names, Use(x) PROVE Agreeing'
  <2>1. UNCHANGED <<open, escCur, escSaved, accCur, accSaved>>
    BY <1>13 DEF Use
  <2>2. \A v \in 1 .. Len(var) : var'[v].name = var[v].name
    BY <1>13, UseOK
  <2> QED
    BY <2>1, <2>2, SameAgreement
<1>14. CASE UNCHANGED vars
  BY <1>14, SameAgreement DEF vars
<1> QED
  BY <1>1, <1>2, <1>3, <1>4, <1>6, <1>7, <1>8, <1>9, <1>10, <1>11, <1>12, <1>13, <1>14 DEF Next

(* Every variable has its type, every environment of either pass holds     *)
(* declared variables, and every construct is nested as the syntax has it  *)
(* (escape.c, trans.c).                                                    *)
THEOREM EscapeTyped == Spec => []TypeOK
<1>1. Init => Typed
  BY TypedInit
<1>2. Typed /\ [Next]_vars => Typed'
  BY TypedStep
<1>3. Typed => TypeOK
  BY DEF Typed
<1> QED
  BY <1>1, <1>2, <1>3, PTL DEF Spec

LEMMA Inductive == ParamsOnly => (Spec => []IInv)
<1> SUFFICES ASSUME ParamsOnly PROVE Spec => []IInv
  OBVIOUS
<1>1. Init => IInv
  BY TypedInit, AgreementInit DEF IInv
<1>2. IInv /\ [Next]_vars => IInv'
  <2>1. Agreeing => Agree(accCur, escCur)
    BY DEF Agreeing, Agreement
  <2> QED
    BY <2>1, TypedStep, AgreementStep, FlagsStep DEF IInv
<1> QED
  BY <1>1, <1>2, PTL DEF Spec

(* Where no variable of a let or a for takes a name that is bound, a       *)
(* variable that trans.c finds used in a nested function has escaped in    *)
(* escape.c, in every program (escape_expr EXPR_ID, tr_var): the two       *)
(* orders of binding and the missing scope of a FOR do no harm there.      *)
THEOREM CapturedAlwaysEscapes == ParamsOnly => (Spec => []CapturedEscapes)
<1>1. IInv => CapturedEscapes
  <2> SUFFICES ASSUME IInv, NEW v \in captured PROVE var[v].escape
    BY DEF CapturedEscapes
  <2>1. v \in 1 .. Len(var)
    BY TypedMeans DEF IInv
  <2> QED
    BY <2>1, Zenon DEF IInv, Flags
<1> QED
  BY <1>1, Inductive, PTL

(* And no other variable does: what escape.c puts in memory has to be.     *)
THEOREM OnlyCapturedEverEscapes == ParamsOnly => (Spec => []OnlyCapturedEscapes)
<1>1. IInv => OnlyCapturedEscapes
  <2> SUFFICES ASSUME IInv, NEW v \in DOMAIN var, var[v].escape PROVE v \in captured
    BY DEF OnlyCapturedEscapes
  <2>1. v \in 1 .. Len(var)
    BY TypedMeans DEF IInv
  <2> QED
    BY <2>1, Zenon DEF IInv, Flags
<1> QED
  BY <1>1, Inductive, PTL
=============================================================================
