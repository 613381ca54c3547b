------------------------------- MODULE Symtab -------------------------------
(***************************************************************************)
(* The symbol table of src/src/util/symtab.c: a hash table with chaining   *)
(* whose buckets are never freed, and an undo list from which              *)
(* symtab_exit_scope takes back, newest first, every overwritten value     *)
(* down to the mark the scope's entry left.                                *)
(*                                                                         *)
(* Buckets have an identity (their index in "heap", the order of malloc),  *)
(* because undo entries point at a bucket and not at a key, and nothing    *)
(* but the code's own lookup keeps two buckets from having the same key.   *)
(* symtab_exit_scope is a loop, so it is one action per round.             *)
(***************************************************************************)
EXTENDS Naturals, Sequences, FiniteSetsExt

CONSTANTS
  Keys,     \* the identifiers
  Vals,     \* the non-NULL pointers a client stores
  NULL,     \* the NULL pointer
  Size,     \* the number of chains, symtab_new's argument
  Hash,     \* the chain of a key, the C function hash
  MaxUndo   \* bound of the model: undo entries alive at a time

ASSUME SizeAssumption == Size \in Nat \ {0}
ASSUME HashAssumption == Hash \in [Keys -> 0 .. Size - 1]
ASSUME ValsAssumption == NULL \notin Vals
ASSUME MaxUndoAssumption == MaxUndo \in Nat

VARIABLES
  heap,     \* the buckets ever allocated: their key and value
  chain,    \* for each hash value its chain of buckets, the head first
  undo,     \* tab->undo_stack, the top of the stack last
  pc        \* "idle", or "exit" while symtab_exit_scope runs

vars == <<heap, chain, undo, pc>>

Chains == 0 .. Size - 1

Bucket == [key : Keys, val : Vals \union {NULL}]

(* An undo_t: a mark points at no bucket (0) and saves no value. *)
Mark == [is_mark |-> TRUE, bucket |-> 0, oldval |-> NULL]
Saving(b, v) == [is_mark |-> FALSE, bucket |-> b, oldval |-> v]
Undo == [is_mark : BOOLEAN, bucket : Nat, oldval : Vals \union {NULL}]

TypeOK ==
  /\ heap \in Seq(Bucket)
  /\ chain \in [Chains -> Seq(1 .. Len(heap))]
  /\ undo \in Seq(Undo)
  /\ pc \in {"idle", "exit"}

(***************************************************************************)
(* tab_lookup: the first bucket of a chain that has the key, 0 when none   *)
(* has.                                                                    *)
(***************************************************************************)
Hits(c, k) == {i \in DOMAIN c : heap[c[i]].key = k}

(* Faulty variants, which the properties must reject: a lookup that stops  *)
(* at the head of the chain, and one that does not compare the key.        *)
LookupHeadOnly(c, k) ==
  IF c # <<>> /\ heap[c[1]].key = k THEN c[1] ELSE 0

LookupAnyKey(c, k) ==
  IF c = <<>> THEN 0 ELSE c[1]

tab_lookup(c, k) ==
  IF Hits(c, k) = {}
    THEN 0
    ELSE c[Min(Hits(c, k))]

symtab_lookup(k) ==
  LET b == tab_lookup(chain[Hash[k]], k)
  IN  IF b = 0 THEN NULL ELSE heap[b].val

-----------------------------------------------------------------------------
Init ==  \* symtab_new
  /\ heap = <<>>
  /\ chain = [h \in Chains |-> <<>>]
  /\ undo = <<>>
  /\ pc = "idle"

(* Faulty variant: a new bucket is not logged. *)
AddBucketUnlogged(k, v) ==
  LET b == Len(heap) + 1
  IN  /\ tab_lookup(chain[Hash[k]], k) = 0
      /\ heap' = Append(heap, [key |-> k, val |-> v])
      /\ chain' = [chain EXCEPT ![Hash[k]] = <<b>> \o @]
      /\ UNCHANGED undo

(* symtab_insert on a key that has a bucket: overwrite, and log the value. *)
Overwrite(k, v) ==
  LET b == tab_lookup(chain[Hash[k]], k)
  IN  /\ b # 0
      /\ undo' = Append(undo, Saving(b, heap[b].val))
      /\ heap' = [heap EXCEPT ![b].val = v]
      /\ UNCHANGED chain

(* symtab_insert on a key that has none: a new bucket heads its chain, and *)
(* its undo entry saves NULL.                                              *)
AddBucket(k, v) ==
  LET b == Len(heap) + 1
  IN  /\ tab_lookup(chain[Hash[k]], k) = 0
      /\ heap' = Append(heap, [key |-> k, val |-> v])
      /\ chain' = [chain EXCEPT ![Hash[k]] = <<b>> \o @]
      /\ undo' = Append(undo, Saving(b, NULL))

symtab_insert(k, v) ==
  /\ pc = "idle"
  /\ Len(undo) < MaxUndo
  /\ Overwrite(k, v) \/ AddBucket(k, v)
  /\ UNCHANGED pc

symtab_enter_scope ==
  /\ pc = "idle"
  /\ Len(undo) < MaxUndo
  /\ undo' = Append(undo, Mark)
  /\ UNCHANGED <<heap, chain, pc>>

(* The call of symtab_exit_scope. *)
BeginExit ==
  /\ pc = "idle"
  /\ pc' = "exit"
  /\ UNCHANGED <<heap, chain, undo>>

Top == undo[Len(undo)]
Popped == SubSeq(undo, 1, Len(undo) - 1)

(* Faulty variant: the entry is applied and stays on the list. *)
UndoStepWithoutPop ==
  /\ pc = "exit"
  /\ undo # <<>>
  /\ ~Top.is_mark
  /\ heap' = [heap EXCEPT ![Top.bucket].val = Top.oldval]
  /\ UNCHANGED <<chain, undo, pc>>

(* One round of its loop: give the bucket its old value and pop the entry. *)
UndoStep ==
  /\ pc = "exit"
  /\ undo # <<>>
  /\ ~Top.is_mark
  /\ heap' = [heap EXCEPT ![Top.bucket].val = Top.oldval]
  /\ undo' = Popped
  /\ UNCHANGED <<chain, pc>>

(* The loop ends at a mark, which is popped, or at the end of the list. *)
EndExit ==
  /\ pc = "exit"
  /\ \/ undo # <<>> /\ Top.is_mark /\ undo' = Popped
     \/ undo = <<>> /\ UNCHANGED undo
  /\ pc' = "idle"
  /\ UNCHANGED <<heap, chain>>

symtab_exit_scope == BeginExit \/ UndoStep \/ EndExit

Next ==
  \/ \E k \in Keys, v \in Vals \union {NULL} : symtab_insert(k, v)
  \/ symtab_enter_scope
  \/ symtab_exit_scope

Spec == Init /\ [][Next]_vars

(* The loop is sequential code: once called, it runs. *)
FairSpec == Spec /\ WF_vars(UndoStep \/ EndExit)

-----------------------------------------------------------------------------
(* Every bucket is in the chain of its key's hash, once, and in no other,  *)
(* and no two buckets have the same key: a lookup then never sees a stale  *)
(* duplicate behind a newer bucket, however the keys collide.              *)
ChainsOK ==
  /\ \A b, d \in DOMAIN heap : heap[b].key = heap[d].key => b = d
  /\ \A h \in Chains : \A i \in DOMAIN chain[h] :
       Hash[heap[chain[h][i]].key] = h
  /\ \A h \in Chains : \A i, j \in DOMAIN chain[h] :
       chain[h][i] = chain[h][j] => i = j
  /\ \A b \in DOMAIN heap :
       \E i \in DOMAIN chain[Hash[heap[b].key]] :
         chain[Hash[heap[b].key]][i] = b

(* Every undo entry that is no mark points at a bucket of the table: the   *)
(* loop of symtab_exit_scope never follows the NULL a mark carries.        *)
UndoOK ==
  \A i \in DOMAIN undo : undo[i].is_mark \/ undo[i].bucket \in DOMAIN heap

-----------------------------------------------------------------------------
(***************************************************************************)
(* The value bucket b would have after popping the undo list down to its   *)
(* first n entries: the value the oldest entry above n for b saved, or the *)
(* present value when there is none.                                       *)
(***************************************************************************)
Entries(b, n) == {j \in n + 1 .. Len(undo) : ~undo[j].is_mark /\ undo[j].bucket = b}

ValueAt(b, n) ==
  IF Entries(b, n) = {}
    THEN heap[b].val
    ELSE undo[Min(Entries(b, n))].oldval

(* The environment that popping down to the first n entries would leave. *)
EnvAt(n) ==
  [k \in Keys |->
     LET b == tab_lookup(chain[Hash[k]], k)
     IN  IF b = 0 THEN NULL ELSE ValueAt(b, n)]

(* The undo list is complete: popping all of it takes every binding back,  *)
(* whatever was inserted, overwritten or shadowed since symtab_new.        *)
UndoComplete == EnvAt(0) = [k \in Keys |-> NULL]

(* symtab_exit_scope returns, whatever the table holds. *)
ExitReturns == pc = "exit" ~> pc = "idle"
=============================================================================
