------------------------------ MODULE Machine -------------------------------
(***************************************************************************)
(* How trees run.  Operands are evaluated from left to right, statements   *)
(* in their order, a jump goes to its label in the same statement.  The    *)
(* repository has no interpreter: this is what tree.h's names mean, and    *)
(* what the properties compare with.                                       *)
(*                                                                         *)
(* A run is that of Source with temporaries in place of variables and a    *)
(* memory in place of the blocks: the variable m is in it, and what malloc *)
(* and init_array allot, which is at the addresses that Source numbers its *)
(* blocks by.  (These two functions are not in the repository.)  What was  *)
(* never written holds what the run's garbage says.                        *)
(***************************************************************************)
EXTENDS Tree

LOCAL INSTANCE Source

Read(run, t) == IF t \in DOMAIN run.temps THEN run.temps[t] ELSE run.garbage

Write(run, t, v) ==
  [run EXCEPT !.temps = [u \in DOMAIN run.temps \union {t} |->
                           IF u = t THEN v ELSE run.temps[u]]]

AddressOfM == 92   \* eight below the frame pointer

Load(run, addr) == IF addr \in DOMAIN run.mem THEN run.mem[addr] ELSE run.garbage

Store(run, addrs, v) ==
  [run EXCEPT !.mem = [x \in DOMAIN run.mem \union addrs |->
                         IF x \in addrs THEN v ELSE run.mem[x]]]

(* The run after a call, and what the call returns. *)
Allocators == {"malloc", "init_array"}

Allocated(run, fn, args) ==
  LET filled == IF fn = "malloc" THEN run
                ELSE Store(run, {run.block + i * WORD_SIZE : i \in 0 .. args[1] - 1}, args[2])
  IN  Value(run.block, [filled EXCEPT !.block = @ + run.step])

Called(run, fn, args) ==
  IF fn \in Allocators THEN Allocated(run, fn, args)
  ELSE Value(Reply(run),
             Store(Logged(run, fn, args), {AddressOfM}, Load(run, AddressOfM) + 1))

LabelAt(s, l) ==
  LET found == {i \in DOMAIN s : s[i].kind = "LABEL" /\ s[i].label = l}
  IN  IF found = {} THEN 0 ELSE CHOOSE i \in found : \A j \in found : i <= j

RECURSIVE Eval(_, _), Exec(_, _, _)

RECURSIVE EvalAll(_, _)
EvalAll(es, run) ==
  IF es = <<>> THEN Value(<<>>, run)
  ELSE LET first == Eval(Head(es), run)
           rest == EvalAll(Tail(es), first.run)
       IN  Value(<<first.val>> \o rest.val, rest.run)

EvalCall(e, run) ==
  LET args == EvalAll(e.actuals, run)
      r == args.run
  IN  IF r.fuel = 0 THEN Value(0, r) ELSE Called(r, e.fn, args.val)

Eval(e, run) ==
  CASE e.kind = "CONST" -> Value(e.const, run)
    [] e.kind = "TEMP"  -> Value(Read(run, e.temp), run)
    [] e.kind = "MEM"   -> LET addr == Eval(e.addr, run)
                           IN  Value(Load(addr.run, addr.val), addr.run)
    [] e.kind = "BINOP" -> LET vals == EvalAll(<<e.e1, e.e2>>, run)
                           IN  Value(Apply(e.op, vals.val[1], vals.val[2]), vals.run)
    [] e.kind = "CALL"  -> EvalCall(e, run)
    [] e.kind = "ESEQ"  -> Eval(e.exp, Exec(e.stm, 1, run))

(* A jump to a label that is not there ends the run without an end. *)
Goto(s, l, run) ==
  LET i == LabelAt(s, l)
  IN  IF i = 0 THEN [run EXCEPT !.fuel = 0] ELSE Exec(s, i, [run EXCEPT !.fuel = @ - 1])

Stored(s, run) ==
  IF s.dst.kind = "MEM"
    THEN LET vals == EvalAll(<<s.dst.addr, s.src>>, run)
         IN  IF vals.run.fuel = 0 THEN vals.run
             ELSE Store(vals.run, {vals.val[1]}, vals.val[2])
    ELSE LET r == Eval(s.src, run)
         IN  IF r.run.fuel = 0 THEN r.run ELSE Write(r.run, s.dst.temp, r.val)

(* Statement s from its i-th part on. *)
Exec(s, i, run) ==
  IF i > Len(s) \/ run.fuel = 0 THEN run
  ELSE
    CASE s[i].kind = "LABEL" -> Exec(s, i + 1, run)
      [] s[i].kind = "EXP"   -> Exec(s, i + 1, Eval(s[i].exp, run).run)
      [] s[i].kind = "MOVE"  -> Exec(s, i + 1, Stored(s[i], run))
      [] s[i].kind = "JUMP"  -> Goto(s, s[i].dest, run)
      [] s[i].kind = "CJUMP" ->
           LET vals == EvalAll(<<s[i].e1, s[i].e2>>, run)
           IN  IF vals.run.fuel = 0 THEN vals.run
               ELSE Goto(s, IF Apply(s[i].op, vals.val[1], vals.val[2]) = 1
                              THEN s[i].true_ ELSE s[i].false_, vals.run)

-----------------------------------------------------------------------------
(* What an expression without statements or calls reads, and what the      *)
(* statements of a list change.                                            *)
Memory == New(<<>>, "memory")

RECURSIVE Reads(_)
Reads(e) ==
  CASE e.kind = "CONST" -> {}
    [] e.kind = "TEMP"  -> {e.temp}
    [] e.kind = "MEM"   -> {Memory} \union Reads(e.addr)
    [] e.kind = "BINOP" -> Reads(e.e1) \union Reads(e.e2)
    [] e.kind = "CALL"  -> UNION {Reads(e.actuals[i]) : i \in DOMAIN e.actuals}

Changes(s) ==
  UNION {IF s[i].kind # "MOVE" THEN {}
         ELSE (IF s[i].dst.kind = "MEM" THEN {Memory} ELSE {s[i].dst.temp})
                \union (IF s[i].src.kind = "CALL" /\ s[i].src.fn \notin Allocators
                          THEN {Memory} ELSE {}) : i \in DOMAIN s}

-----------------------------------------------------------------------------
(* How instructions run, as the x86-64 processor runs their text once the  *)
(* temporaries are registers.  cmpq is read as in AT&T syntax: cmpq b, a   *)
(* and then jl jumps if a < b; codegen.c prints its second source first.   *)
RECURSIVE Process(_, _, _)

(* The label of an instruction list. *)
Address(code, l) ==
  LET found == {i \in DOMAIN code : code[i].kind = "LABEL" /\ code[i].label = l}
  IN  IF found = {} THEN 0 ELSE CHOOSE i \in found : \A j \in found : i <= j

Branch(code, l, run) ==
  LET i == Address(code, l)
  IN  IF i = 0 THEN [run EXCEPT !.fuel = 0] ELSE Process(code, i, [run EXCEPT !.fuel = @ - 1])

Compared(assem, flags) ==
  CASE assem = "jmp" -> TRUE
    [] assem = "je"  -> flags[1] = flags[2]  [] assem = "jne" -> flags[1] # flags[2]
    [] assem = "jl"  -> flags[1] < flags[2]  [] assem = "jle" -> flags[1] <= flags[2]
    [] assem = "jg"  -> flags[1] > flags[2]  [] assem = "jge" -> flags[1] >= flags[2]

(* The run after an instruction that does not jump. *)
Processed(i, run) ==
  LET S(k) == Read(run, i.src[k])
      D == Read(run, i.dst[1])
      Put(v) == Write(run, i.dst[1], v)
  IN  CASE i.kind = "LABEL"    -> run
        [] i.kind = "MOVE"     -> Put(S(1))
        [] i.assem = "movq $"  -> Put(i.arg)
        [] i.assem = "load"    -> Put(Load(run, S(1)))
        [] i.assem = "store"   -> Store(run, {S(2)}, S(1))
        [] i.assem = "addq"    -> Put(D + S(1))
        [] i.assem = "subq"    -> Put(D - S(1))
        [] i.assem = "imulq"   -> Put(D * S(1))
        [] i.assem = "cmpq"    -> [run EXCEPT !.flags = <<S(1), S(2)>>]
        [] i.assem = "callq"   ->
             LET call == Called(run, i.arg, [k \in DOMAIN i.src |-> S(k)])
             IN  Write(call.run, i.dst[1], call.val)

Process(code, i, run) ==
  IF i > Len(code) \/ run.fuel = 0 THEN run
  ELSE IF code[i].jumps # <<>> /\ Compared(code[i].assem, run.flags)
    THEN Branch(code, code[i].jumps[1], run)
  ELSE Process(code, i + 1, IF code[i].jumps = <<>> THEN Processed(code[i], run) ELSE run)
=============================================================================
