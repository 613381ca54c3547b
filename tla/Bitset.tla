------------------------------- MODULE Bitset -------------------------------
(***************************************************************************)
(* The bit sets of src/src/util/bitset.c: an array of words, a word here   *)
(* being the set of the bits that are on in it.  Element i is bit i % W of *)
(* word i \div W.  A set allotted for a capacity has as many words as hold *)
(* the bits below it, and what two sets do together they do to the words   *)
(* that both have.                                                         *)
(*                                                                         *)
(* bitset_remove has no caller.                                            *)
(***************************************************************************)
EXTENDS Integers

CONSTANT W   \* the bits of a word, 64 in the code

ASSUME WAssumption == W \in Nat \ {0}

WordsFor(capacity) == 0 .. (capacity + W - 1) \div W - 1

bitset_new(capacity) == [k \in WordsFor(capacity) |-> {}]

(* bitset_add of every element of T, one after the other. *)
AddAll(s, T) ==
  [k \in DOMAIN s |-> s[k] \union {i % W : i \in {j \in T : j \div W = k}}]

bitset_has(s, i) == i % W \in s[i \div W]

Common(a, b) == DOMAIN a \intersect DOMAIN b

bitset_union(dst, src) ==
  [k \in DOMAIN dst |-> dst[k] \union (IF k \in Common(dst, src) THEN src[k] ELSE {})]

(* Faulty variant: the words are masked, not their complement. *)
DiffUnnegated(dst, src) ==
  [k \in DOMAIN dst |-> IF k \in Common(dst, src) THEN dst[k] \intersect src[k] ELSE dst[k]]

bitset_diff(dst, src) ==
  [k \in DOMAIN dst |-> dst[k] \ (IF k \in Common(dst, src) THEN src[k] ELSE {})]

bitset_equal(a, b) == \A k \in Common(a, b) : a[k] = b[k]

bitset_copy(s) == [k \in DOMAIN s |-> s[k]]
=============================================================================
