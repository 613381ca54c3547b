---------------------------- MODULE LivenessBits ----------------------------
(***************************************************************************)
(* cfg_build and liveness of src/src/liveness/liveness.c on the words of   *)
(* bitset.c, and that they do what module Liveness does on sets.           *)
(*                                                                         *)
(* The bit sets have room for the bits below temp_count, rounded up to     *)
(* words, and temporaries are numbered from 1 up to temp_count itself: the *)
(* model is of functions whose temp_count is no multiple of the word size. *)
(***************************************************************************)
EXTENDS Flow, Bitset

CONSTANT TempCount   \* what temp_count returns

ASSUME TempsAssumption ==
  TempCount \in Nat /\ TempCount % W # 0 /\ Temps \subseteq 1 .. TempCount

VARIABLES inBits, outBits   \* the in and out sets of the nodes, as bitset.c keeps them

bitVars == <<instrs, succs, inBits, outBits, n, changed, pc>>

-----------------------------------------------------------------------------
BitInit ==
  /\ Begin
  /\ inBits = [i \in Nodes |-> bitset_new(TempCount)]
  /\ outBits = [i \in Nodes |-> bitset_new(TempCount)]

BitBuild == Build /\ UNCHANGED <<inBits, outBits>>

(* A node has one successor or none, as codegen.c gives a jump one label.  *)
new_out(i) ==
  IF succs[i] = {}
    THEN bitset_new(TempCount)
    ELSE bitset_union(bitset_new(TempCount), inBits[CHOOSE s \in succs[i] : TRUE])

(* Faulty variant: the definitions are taken out last. *)
new_in_def_last(i) ==
  bitset_diff(bitset_union(bitset_copy(new_out(i)), AddAll(bitset_new(TempCount), instrs[i].use)),
              AddAll(bitset_new(TempCount), instrs[i].def))

new_in(i) ==
  bitset_union(bitset_diff(bitset_copy(new_out(i)), AddAll(bitset_new(TempCount), instrs[i].def)),
               AddAll(bitset_new(TempCount), instrs[i].use))

(* A node gets its new sets only if one of them differs. *)
BitVisit ==
  LET equal == bitset_equal(new_in(n), inBits[n]) /\ bitset_equal(new_out(n), outBits[n])
  IN  /\ Round(~ equal)
      /\ IF equal
           THEN UNCHANGED <<inBits, outBits>>
           ELSE /\ inBits' = [inBits EXCEPT ![n] = new_in(n)]
                /\ outBits' = [outBits EXCEPT ![n] = new_out(n)]

BitEndPass == End /\ UNCHANGED <<inBits, outBits>>

BitNext == BitBuild \/ BitVisit \/ BitEndPass

BitSpec == BitInit /\ [][BitNext]_bitVars

-----------------------------------------------------------------------------
(* The temporaries that are on in a bit set. *)
On(s) == {t \in Temps : bitset_has(s, t)}

In == [i \in Nodes |-> On(inBits[i])]
Out == [i \in Nodes |-> On(outBits[i])]

Sets == INSTANCE Liveness WITH in <- In, out <- Out

(* The words do what the sets do: after every union, difference and copy   *)
(* of a pass the temporaries that are on in a node's words are the set the *)
(* equations give it, no two share a bit and none is without one, and the  *)
(* comparison word by word, which decides what is kept and whether there   *)
(* is another pass, finds a difference exactly where the sets differ.      *)
ImplementsSets == Sets!Spec
=============================================================================
