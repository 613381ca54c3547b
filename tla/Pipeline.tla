------------------------------ MODULE Pipeline ------------------------------
(***************************************************************************)
(* main.c from the syntax tree to the instructions: semant.c accepts the   *)
(* program or the compiler gives up, trans.c makes a tree of it, canon.c a *)
(* list of statements without statements inside expressions, which it      *)
(* reorders as the steps of Traces do, and codegen.c the instructions.     *)
(* The two variables of the program are a, in a temporary, and m, in       *)
(* memory where the functions it calls reach it: the program is the body   *)
(* of a let that declares them and the functions.                          *)
(***************************************************************************)
EXTENDS Source, Trans, Linearize, Codegen, Machine

CONSTANTS
  Programs,   \* the syntax trees that are tried
  Variables,  \* their variables, "a" and "m" among them
  Replies,    \* what the calls return, a sequence for each run
  Rounds_,    \* bound of the model: rounds of loops for which a run is followed
  MaxList     \* bound of the model: the statements of a canonical list

VARIABLES
  stage,      \* "parsed", "accepted", "rejected", "translated", "linear", "assembled"
  program,
  tree,       \* the body of _main's fragment
  list,       \* the canonical list
  instrs,     \* the instructions
  input, cur, blocks, tab, b, trace, result, pc   \* those of Traces

(* The list as Traces sees it: a label is the number of its place in the   *)
(* list, and so is the identity of a statement.                            *)
Start == 0
Finish == -1
T == INSTANCE Traces WITH Labels <- 1 .. MaxList, Done <- Finish, Inputs <- {}

schedule == <<input, cur, blocks, tab, b, trace, result, pc>>
vars == <<stage, program, tree, list, instrs, schedule>>

Idle ==
  /\ input = <<>> /\ cur = 1 /\ blocks = <<>> /\ tab = <<>>
  /\ b = 1 /\ trace = 0 /\ result = <<>> /\ pc = "idle"

Init ==
  /\ stage = "parsed"
  /\ program \in Programs
  /\ tree = <<>>
  /\ list = <<>>
  /\ instrs = <<>>
  /\ Idle

Aenv == [a |-> Temp(VarA), m |-> Mem(Binop("ADD", Temp(Fp), Const(-8)))]

trans_expr ==
  /\ stage = "parsed"
  /\ stage' = IF TypeOf(program, [a |-> "INT", m |-> "INT"]) = "ERROR"
                THEN "rejected" ELSE "accepted"
  /\ UNCHANGED <<program, tree, list, instrs, schedule>>

Translate ==
  /\ stage = "accepted"
  /\ stage' = "translated"
  /\ tree' = Translated(Aenv, program)
  /\ UNCHANGED <<program, list, instrs, schedule>>

Outline(s) ==
  [i \in DOMAIN s |->
     CASE s[i].kind = "LABEL" -> T!Label(i)
       [] s[i].kind = "JUMP"  -> T!Jump(LabelAt(s, s[i].dest))
       [] s[i].kind = "CJUMP" -> T!CJump(i, LabelAt(s, s[i].true_), LabelAt(s, s[i].false_))
       [] OTHER -> T!Plain(i)]

(* linearize, and the beginning of basic_blocks. *)
Canonicalize ==
  /\ stage = "translated"
  /\ stage' = "linear"
  /\ list' = linearize(tree)
  /\ input' = T!WithStart(Outline(list'))
  /\ tab' = [l \in Finish .. MaxList |-> 0]
  /\ pc' = "cut"
  /\ UNCHANGED <<program, tree, instrs, cur, blocks, b, trace, result>>

(* basic_blocks and trace_schedule go on. *)
Schedule ==
  /\ stage = "linear"
  /\ T!Next
  /\ UNCHANGED <<stage, program, tree, list, instrs>>

(* The list that trace_schedule returns. *)
LabelOf(i) ==
  CASE i = Start -> New(<<>>, "first") [] i = Finish -> New(<<>>, "last") [] OTHER -> list[i].label

Scheduled ==
  LET Statement(o) ==
        CASE o.kind = "LABEL" -> Label(LabelOf(o.id))[1]
          [] o.kind = "JUMP"  -> Jump(LabelOf(o.dests[1]))[1]
          [] OTHER -> list[o.id]
  IN  [i \in DOMAIN result |-> Statement(result[i])]

Generate ==
  /\ stage = "linear" /\ pc = "done"
  /\ stage' = "assembled"
  /\ instrs' = codegen(Scheduled)
  /\ UNCHANGED <<program, tree, list, schedule>>

Next == trans_expr \/ Translate \/ Canonicalize \/ Schedule \/ Generate

Spec == Init /\ [][Next]_vars

-----------------------------------------------------------------------------
(* The runs of the program, of its tree and of its list. *)
Starts == [reply : Replies, a : {0, 1}]

SourceRun(start) ==
  Mean(program, [vars |-> [x \in Variables |-> IF x = "a" THEN start.a ELSE 0],
                 heap |-> <<>>, log |-> <<>>, reply |-> start.reply, fuel |-> Rounds_])

(* Jumps are counted, not rounds: a round takes several. *)
Begin(start) ==
  [temps |-> [t \in {VarA, Fp} |-> IF t = VarA THEN start.a ELSE AddressOfM + WORD_SIZE],
   mem |-> [x \in {AddressOfM} |-> 0], block |-> Ref(1), step |-> Ref(1),
   log |-> <<>>, reply |-> start.reply,
   garbage |-> 77, flags |-> <<0, 0>>, fuel |-> 10 * Rounds_]

CodeRun(code, start) == Exec(code, 1, Begin(start))

JustLinear == stage = "linear" /\ pc = "cut" /\ cur = 1

SameEnd(run, other) ==
  other.fuel > 0 /\ run.log = other.log /\ run.mem = other.mem
    /\ Read(run, VarA) = Read(other, VarA) /\ Read(run, Rv) = Read(other, Rv)

(* The memory that the blocks of a run of the program make up, and m. *)
Layout(run) ==
  LET Words(k) == {Ref(k) + i * WORD_SIZE : i \in DOMAIN run.heap[k]}
  IN  [x \in {AddressOfM} \union UNION {Words(k) : k \in DOMAIN run.heap} |->
         IF x = AddressOfM THEN run.vars["m"]
         ELSE run.heap[BlockOf(x)][(x % Ref(1)) \div WORD_SIZE]]

(* The tree of a program makes the calls that the program means, with the  *)
(* same actuals in the same order, takes the same branches, makes the same *)
(* arrays and records, and leaves the same variables, elements, fields and *)
(* value (tr_expr with its patch lists, tr_var with its addresses).        *)
TreeMeansProgram ==
  stage = "translated" =>
    \A start \in Starts :
      LET source == SourceRun(start)
          code == CodeRun(tree, start)
      IN  source.run.fuel > 0 =>
            /\ code.fuel > 0
            /\ code.log = source.run.log
            /\ code.mem = Layout(source.run) /\ Read(code, VarA) = source.run.vars["a"]
            /\ Read(code, Rv) = source.val

(* Whether canon.c may hoist as it does: what is left of an operand reads  *)
(* nothing that the statements taken out of a later operand change.        *)
OperandsCommute(es) ==
  LET res == Operands(es, <<>>)
  IN  \A i, j \in DOMAIN es : i < j => Reads(res[i].expr) \cap Changes(res[j].stmts) = {}

RECURSIVE ExprCommutes(_), Commuting(_)
AllCommute(es) == OperandsCommute(es) /\ \A i \in DOMAIN es : ExprCommutes(es[i])

ExprCommutes(e) ==
  CASE e.kind \in {"CONST", "TEMP"} -> TRUE
    [] e.kind = "BINOP" -> AllCommute(<<e.e1, e.e2>>)
    [] e.kind = "MEM"   -> ExprCommutes(e.addr)
    [] e.kind = "CALL"  -> AllCommute(e.actuals)
    [] e.kind = "ESEQ"  -> Commuting(e.stm) /\ ExprCommutes(e.exp)

Commuting(s) ==
  \A i \in DOMAIN s :
    CASE s[i].kind = "CJUMP" -> AllCommute(<<s[i].e1, s[i].e2>>)
      [] s[i].kind = "MOVE"  -> IF s[i].dst.kind = "MEM"
                                  THEN AllCommute(<<s[i].dst.addr, s[i].src>>)
                                  ELSE ExprCommutes(s[i].src)
      [] s[i].kind = "EXP"   -> ExprCommutes(s[i].exp)
      [] OTHER -> TRUE

(* The list runs as the tree does, unless an operand's statements were     *)
(* moved across an operand that reads what they change (do_exp, do_stm,    *)
(* which hoist in any case).                                               *)
ListMeansTree ==
  JustLinear /\ Commuting(tree) =>
    \A start \in Starts :
      LET run == CodeRun(tree, start)
      IN  run.fuel > 0 => SameEnd(run, CodeRun(list, start))

(* Every label that a jump of the list may take is defined in it, once: no *)
(* jump of a condition was left out of the lists that reach do_patch.      *)
JumpsDefined ==
  JustLinear =>
    LET labels == {i \in DOMAIN list : list[i].kind = "LABEL"}
        targets == {list[i].dest : i \in {j \in DOMAIN list : list[j].kind = "JUMP"}}
          \union UNION {{list[i].true_, list[i].false_} :
                          i \in {j \in DOMAIN list : list[j].kind = "CJUMP"}}
    IN  /\ targets \subseteq {list[i].label : i \in labels}
        /\ \A i, j \in labels : list[i].label = list[j].label => i = j

(* Nothing is left that codegen.c has no case for: no ESEQ, and a call     *)
(* only as the source of a move to a temporary (do_exp).                   *)
RECURSIVE Simple(_)
Simple(e) ==
  CASE e.kind \in {"CONST", "TEMP"} -> TRUE
    [] e.kind = "BINOP" -> Simple(e.e1) /\ Simple(e.e2)
    [] e.kind = "MEM"   -> Simple(e.addr)
    [] OTHER -> FALSE

SimpleSource(e) ==
  IF e.kind = "CALL" THEN \A i \in DOMAIN e.actuals : Simple(e.actuals[i]) ELSE Simple(e)

Canonical ==
  JustLinear =>
    \A i \in DOMAIN list :
      CASE list[i].kind = "CJUMP" -> Simple(list[i].e1) /\ Simple(list[i].e2)
        [] list[i].kind = "EXP"   -> Simple(list[i].exp)
        [] list[i].kind = "MOVE"  -> Simple(list[i].dst) /\ SimpleSource(list[i].src)
        [] OTHER -> TRUE

(* A program that semant.c accepts never has a statement for a condition:  *)
(* the assertion in un_cx holds.                                           *)
ConditionsHaveValues ==
  JustLinear => \A i \in DOMAIN list : list[i].kind # "ABORT"

(* Runs in which no call returns its value: codegen.c lets munch_exp       *)
(* return a temporary that nobody writes (codegen.c:122).                  *)
Valueless(start, v) ==
  [Begin(start) EXCEPT !.reply = [i \in 1 .. 50 * Rounds_ |-> v], !.garbage = v,
                       !.block = v, !.step = 0]

(* The instructions run as the canonical list does, with the calls, actual *)
(* values, branches and variables of the list: whatever order the blocks   *)
(* were given.  Two things are not so in codegen.c.  A call's value is     *)
(* garbage, so the runs compared are those of a list whose calls return    *)
(* garbage.  And the false label of a conditional jump is never jumped to, *)
(* so the lists compared are those where it follows (see FalseFollows).    *)
FalseNext ==
  \A i \in DOMAIN result : result[i].kind = "CJUMP" =>
    i < Len(result) /\ result[i + 1] = T!Label(result[i].dests[2])

InstructionsMeanList ==
  stage = "assembled" /\ FalseNext =>
    \A a \in {0, 1}, v \in {0, 1, 2} :
      LET start == Valueless([a |-> a, reply |-> <<>>], v)
          run == Exec(list, 1, start)
      IN  run.fuel > 0 => SameEnd(run, Process(instrs, 1, [start EXCEPT !.fuel = 2 * @]))
=============================================================================
