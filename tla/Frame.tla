------------------------------- MODULE Frame -------------------------------
(***************************************************************************)
(* Activation records: where src/src/frame/frame.c puts parameters and     *)
(* locals, and the temporaries src/src/temp/temp.c numbers.                *)
(*                                                                         *)
(* trans.c makes a frame per function and allocates the function's         *)
(* variables in it one by one; while an outer function is being translated *)
(* the frames of the functions nested in it come and go, and temporaries   *)
(* are drawn from the one counter for all of them.  The registers with a   *)
(* role (frame pointer, return value, the six argument registers) are      *)
(* temporaries of the same counter, drawn when first asked for.            *)
(***************************************************************************)
EXTENDS Integers, Sequences

CONSTANTS
  MaxTemps,    \* bounds of the model: temporaries drawn,
  MaxFrames,   \* frames alive,
  MaxParams,   \* parameters of a function,
  MaxAccesses  \* and variables of one frame

ASSUME BoundsAssumption ==
  /\ MaxTemps \in Nat
  /\ MaxFrames \in Nat
  /\ MaxParams \in Nat
  /\ MaxAccesses \in Nat

WORD_SIZE == 8
REG_TBD == -1            \* a register nobody asked for yet
ArgRegs == 0 .. 5

VARIABLES
  temp_count,  \* the temporaries drawn so far are 1 .. temp_count
  fp,          \* frame_fp's static variable
  rv,          \* frame_rv's
  regs,        \* frame_arg_reg's
  frames,      \* the frames, in the order of frame_new
  todo         \* parameters frame_new still has to place in the last frame

frameVars == <<temp_count, fp, rv, regs, frames, todo>>

(* An access_t: an offset from the frame pointer, or a temporary. *)
InFrame(offset, depth) == [kind |-> "FRAME", at |-> offset, depth |-> depth]
InReg(reg, depth) == [kind |-> "REG", at |-> reg, depth |-> depth]
Access == [kind : {"FRAME", "REG"}, at : Int, depth : Nat]

(* A frame_t, with the accesses of its formals (the static link first)     *)
(* followed by those frame_alloc_local returned for it.                    *)
FrameT == [depth : Nat, local_count : Nat, num_formals : Nat, accs : Seq(Access)]

FrameTypeOK ==
  /\ temp_count \in Nat
  /\ fp \in Int
  /\ rv \in Int
  /\ regs \in [ArgRegs -> Int]
  /\ frames \in Seq(FrameT)
  /\ todo \in Nat

-----------------------------------------------------------------------------
FrameInit ==
  /\ temp_count = 0
  /\ fp = REG_TBD
  /\ rv = REG_TBD
  /\ regs = [i \in ArgRegs |-> REG_TBD]
  /\ frames = <<>>
  /\ todo = 0

(* temp_new, for a client that keeps the temporary to itself. *)
temp_new ==
  /\ todo = 0
  /\ temp_count < MaxTemps
  /\ temp_count' = temp_count + 1
  /\ UNCHANGED <<fp, rv, regs, frames, todo>>

(* The offset of an escaping formal: frame_new's loop reads local_count    *)
(* and lets it grow after that.                                            *)
FormalOffset(f) == -WORD_SIZE * (frames[f].local_count + 1)

(* Faulty variant: it reads local_count before it grows, as frame_new does.*)
LocalOffsetTooEarly(f) ==
  LET local_count == frames[f].local_count IN -WORD_SIZE * local_count

(* The offset of an escaping local: frame_alloc_local lets local_count grow*)
(* first.                                                                  *)
LocalOffset(f) ==
  LET local_count == frames[f].local_count + 1 IN -WORD_SIZE * local_count

(* Faulty variant: the temporary is named before it is drawn, and not      *)
(* drawn.                                                                  *)
PlaceTempNotDrawn(f, escape, offset) ==
  /\ Len(frames[f].accs) < MaxAccesses
  /\ ~escape
  /\ temp_count < MaxTemps
  /\ frames' = [frames EXCEPT
       ![f].accs = Append(@, InReg(temp_count + 1, frames[f].depth))]
  /\ UNCHANGED <<temp_count, fp, rv, regs>>

(***************************************************************************)
(* A variable for frame f: a slot of the frame, at offset, when it         *)
(* escapes, a new temporary when it does not.                              *)
(***************************************************************************)
Place(f, escape, offset) ==
  /\ Len(frames[f].accs) < MaxAccesses
  /\ \/ /\ escape
        /\ frames' = [frames EXCEPT
             ![f].local_count = @ + 1,
             ![f].accs = Append(@, InFrame(offset, frames[f].depth))]
        /\ UNCHANGED temp_count
     \/ /\ ~escape
        /\ temp_count < MaxTemps
        /\ temp_count' = temp_count + 1
        /\ frames' = [frames EXCEPT
             ![f].accs = Append(@, InReg(temp_count + 1, frames[f].depth))]
  /\ UNCHANGED <<fp, rv, regs>>

(* Faulty variant: the static link's slot is not counted. *)
FrameNewLinkNotCounted(depth, num_params) ==
  /\ todo = 0
  /\ Len(frames) < MaxFrames
  /\ frames' = Append(frames,
       [depth |-> depth, local_count |-> 0, num_formals |-> num_params + 1,
        accs |-> IF depth > 0 THEN <<InFrame(-WORD_SIZE, depth)>> ELSE <<>>])
  /\ todo' = num_params
  /\ UNCHANGED <<temp_count, fp, rv, regs>>

(* frame_new up to its loop: a nested function's first formal is the       *)
(* static link, always in the first slot.                                  *)
frame_new(depth, num_params) ==
  /\ todo = 0
  /\ Len(frames) < MaxFrames
  /\ frames' = Append(frames,
       IF depth > 0
         THEN [depth |-> depth, local_count |-> 1, num_formals |-> num_params + 1,
               accs |-> <<InFrame(-WORD_SIZE, depth)>>]
         ELSE [depth |-> depth, local_count |-> 0, num_formals |-> num_params,
               accs |-> <<>>])
  /\ todo' = num_params
  /\ UNCHANGED <<temp_count, fp, rv, regs>>

(* One round of frame_new's loop. *)
NextFormal(escape) ==
  /\ todo > 0
  /\ todo' = todo - 1
  /\ Place(Len(frames), escape, FormalOffset(Len(frames)))

frame_alloc_local(f, escape) ==
  /\ todo = 0
  /\ Place(f, escape, LocalOffset(f))
  /\ UNCHANGED todo

(* Faulty variant: every call draws another frame pointer. *)
FrameFpDrawnAgain ==
  /\ todo = 0
  /\ temp_count < MaxTemps
  /\ temp_count' = temp_count + 1
  /\ fp' = temp_count + 1
  /\ UNCHANGED <<rv, regs, frames, todo>>

frame_fp ==
  /\ todo = 0
  /\ fp = REG_TBD
  /\ temp_count < MaxTemps
  /\ temp_count' = temp_count + 1
  /\ fp' = temp_count + 1
  /\ UNCHANGED <<rv, regs, frames, todo>>

frame_rv ==
  /\ todo = 0
  /\ rv = REG_TBD
  /\ temp_count < MaxTemps
  /\ temp_count' = temp_count + 1
  /\ rv' = temp_count + 1
  /\ UNCHANGED <<fp, regs, frames, todo>>

frame_arg_reg(i) ==
  /\ todo = 0
  /\ regs[i] = REG_TBD
  /\ temp_count < MaxTemps
  /\ temp_count' = temp_count + 1
  /\ regs' = [regs EXCEPT ![i] = temp_count + 1]
  /\ UNCHANGED <<fp, rv, frames, todo>>

(* main makes the outermost frame at depth 0, tr_dec one at a depth below  *)
(* the frame it is translating.                                            *)
Depths == {0} \union {frames[f].depth + 1 : f \in DOMAIN frames}

FrameNext ==
  \/ temp_new
  \/ \E depth \in Depths, n \in 0 .. MaxParams : frame_new(depth, n)
  \/ \E escape \in BOOLEAN : NextFormal(escape)
  \/ \E f \in DOMAIN frames, escape \in BOOLEAN : frame_alloc_local(f, escape)
  \/ frame_fp
  \/ frame_rv
  \/ \E i \in ArgRegs : frame_arg_reg(i)

FrameSpec == FrameInit /\ [][FrameNext]_frameVars

-----------------------------------------------------------------------------
AccessIds(f) == DOMAIN frames[f].accs
Acc(f, i) == frames[f].accs[i]

(* The variables of a frame live in its slots -8, -16, ..., one slot each, *)
(* and none is beyond the slots local_count says the frame has, whichever  *)
(* formals and locals escape and in whatever order (frame_new's offset is  *)
(* computed before local_count grows, frame_alloc_local's after).          *)
SlotsOK ==
  \A f \in DOMAIN frames :
    /\ \A i \in AccessIds(f) : Acc(f, i).kind = "FRAME" =>
         \E n \in 1 .. frames[f].local_count : Acc(f, i).at = -WORD_SIZE * n
    /\ \A i, j \in AccessIds(f) :
         /\ Acc(f, i).kind = "FRAME" /\ Acc(f, j).kind = "FRAME"
         /\ Acc(f, i).at = Acc(f, j).at
         => i = j

(* trans.c reaches a variable of an outer function through the word at     *)
(* fp - 8 of every frame in between (frame_exp, EXPR_CALL), so in a nested *)
(* function's frame that word is the first formal and nothing else's, and  *)
(* every access carries its frame's depth.                                 *)
LinkOK ==
  \A f \in DOMAIN frames :
    /\ frames[f].depth > 0 =>
         /\ AccessIds(f) # {}
         /\ \A i \in AccessIds(f) :
              Acc(f, i).kind = "FRAME" /\ Acc(f, i).at = -WORD_SIZE <=> i = 1
    /\ \A i \in AccessIds(f) : Acc(f, i).depth = frames[f].depth

(* A temporary that holds a variable holds no other variable of any frame, *)
(* and is none of the registers with a role; those are pairwise different. *)
Role == {fp, rv} \union {regs[i] : i \in ArgRegs}

RegsOK ==
  /\ \A f, g \in DOMAIN frames : \A i \in AccessIds(f), j \in AccessIds(g) :
       /\ Acc(f, i).kind = "REG" /\ Acc(g, j).kind = "REG"
       /\ Acc(f, i).at = Acc(g, j).at
       => f = g /\ i = j
  /\ \A f \in DOMAIN frames : \A i \in AccessIds(f) :
       Acc(f, i).kind = "REG" => Acc(f, i).at \notin Role
  /\ fp = rv => fp = REG_TBD
  /\ \A i \in ArgRegs : regs[i] \in {fp, rv} => regs[i] = REG_TBD
  /\ \A i, j \in ArgRegs : regs[i] = regs[j] => i = j \/ regs[i] = REG_TBD

(* Once a tree or an instruction names a register by its role, the role    *)
(* keeps that register (the static variables of frame_fp, frame_rv and     *)
(* frame_arg_reg), and no variable moves.                                  *)
RolesKept ==
  [][/\ fp # REG_TBD => fp' = fp
     /\ rv # REG_TBD => rv' = rv
     /\ \A i \in ArgRegs : regs[i] # REG_TBD => regs'[i] = regs[i]
     /\ \A f \in DOMAIN frames : \A i \in AccessIds(f) :
          f \in DOMAIN frames' /\ i \in DOMAIN frames'[f].accs
          /\ frames'[f].accs[i] = Acc(f, i)]_frameVars
=============================================================================
