----------------------------- MODULE LabelTable -----------------------------
(***************************************************************************)
(* The labels of src/src/temp/temp.c: numbers from one counter, and a      *)
(* table of their names that grows by doubling.  A call's or a string's    *)
(* label is given the name of the source; the others are made without one  *)
(* and named after their number when the name is first asked for.  canon.c *)
(* and liveness.c look labels up by these names.                           *)
(***************************************************************************)
EXTENDS Integers

CONSTANTS
  NoName,     \* no name yet
  Garbage,    \* what realloc leaves in the new part of the table
  Names,      \* the names of functions, in the source and outside of it
  MaxLabels   \* bound of the model: labels made

(* What sprintf prints for label l; a function may well be called so. *)
Numbered(l) == <<"L", l>>

ASSUME NamesAssumption ==
  /\ MaxLabels \in Nat
  /\ NoName # Garbage
  /\ {NoName, Garbage} \intersect (Names \union {Numbered(l) : l \in 0 .. MaxLabels}) = {}

VARIABLES
  names,        \* the table
  cap,          \* the places it has
  label_count,  \* the labels made so far are 0 .. label_count - 1
  given,        \* the name each was made with (not kept by the code)
  exited        \* realloc has failed and the compiler is gone

tableVars == <<names, cap, label_count, given, exited>>

TableInit ==
  /\ names = [l \in {} |-> NoName]
  /\ cap = 0
  /\ label_count = 0
  /\ given = [l \in {} |-> NoName]
  /\ exited = FALSE

(* Faulty variant: the table is full one label later. *)
RoomForOneMore == cap >= label_count /\ cap > 0

Room == cap > label_count

Capacity == IF Room THEN cap ELSE IF cap = 0 THEN 2 ELSE 2 * cap

label_named(name) ==
  /\ ~exited
  /\ label_count < MaxLabels
  /\ cap' = Capacity
  /\ names' = [l \in 0 .. Capacity - 1 |->
                 IF l = label_count THEN name ELSE IF l < cap THEN names[l] ELSE Garbage]
  /\ label_count' = label_count + 1
  /\ given' = [l \in 0 .. label_count |-> IF l = label_count THEN name ELSE given[l]]
  /\ UNCHANGED exited

label_new == label_named(NoName)

OutOfMemory ==
  /\ ~exited
  /\ ~Room
  /\ exited' = TRUE
  /\ UNCHANGED <<names, cap, label_count, given>>

(* What label_name returns for l, and the name it leaves in the table. *)
NameOf(l) == IF names[l] = NoName THEN Numbered(l) ELSE names[l]

label_name(l) ==
  /\ ~exited
  /\ l \in 0 .. label_count - 1
  /\ names' = [names EXCEPT ![l] = NameOf(l)]
  /\ UNCHANGED <<cap, label_count, given, exited>>

TableNext ==
  \/ label_new
  \/ \E name \in Names : label_named(name)
  \/ \E l \in 0 .. label_count - 1 : label_name(l)
  \/ OutOfMemory

TableSpec == TableInit /\ [][TableNext]_tableVars

-----------------------------------------------------------------------------
(* Through every growth of the table each label has its place and answers  *)
(* to the name it was made with; two that were made without one never      *)
(* answer to the same, so the tables that canon.c and liveness.c keep by   *)
(* name have an entry for each.  (A function named as a label is, L1 say,  *)
(* does answer to the name of label 1.)                                    *)
LabelsApart ==
  /\ 0 .. label_count - 1 \subseteq DOMAIN names
  /\ \A l \in 0 .. label_count - 1 :
       /\ given[l] # NoName => NameOf(l) = given[l]
       /\ \A k \in 0 .. label_count - 1 :
            NameOf(l) = NameOf(k) /\ l # k => given[l] # NoName \/ given[k] # NoName
=============================================================================
