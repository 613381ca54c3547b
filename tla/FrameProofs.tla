---------------------------- MODULE FrameProofs ----------------------------
(***************************************************************************)
(* What is proved of frames, for any number of frames, parameters, locals  *)
(* and temporaries: FrameSafe, that no two variables share a slot or a     *)
(* register, that the static link's word is its own, and that the          *)
(* registers with a role are nobody else's; RolesAreKept, that none of     *)
(* them ever changes.                                                      *)
(*                                                                         *)
(* RegsOK is not inductive by itself: a new temporary is fresh because all *)
(* those in use are at most temp_count (TempsOK).  SlotsOK is its own      *)
(* bound: the slots in use are at most local_count.  LinkOK needs that a   *)
(* nested frame starts with local_count 1 and never shrinks (CountOK).     *)
(*                                                                         *)
(* The last part is about the table of labels: TableInv says what each of  *)
(* its places holds, as long as the table grows.                           *)
(***************************************************************************)
EXTENDS Frame, LabelTable, SequenceTheorems, TLAPS

(* No register or access names a temporary not drawn yet.                  *)
TempsOK ==
  /\ \A f \in DOMAIN frames : \A i \in AccessIds(f) :
       Acc(f, i).kind = "REG" => Acc(f, i).at \in 1 .. temp_count
  /\ fp = REG_TBD \/ fp \in 1 .. temp_count
  /\ rv = REG_TBD \/ rv \in 1 .. temp_count
  /\ \A i \in ArgRegs : regs[i] = REG_TBD \/ regs[i] \in 1 .. temp_count

CountOK ==
  /\ \A f \in DOMAIN frames : frames[f].depth > 0 => frames[f].local_count > 0
  /\ todo > 0 => frames # <<>>

Inv == FrameTypeOK /\ SlotsOK /\ LinkOK /\ RegsOK /\ TempsOK /\ CountOK

USE DEF WORD_SIZE, REG_TBD

LEMMA InvInitially == FrameInit => Inv
<1> SUFFICES ASSUME FrameInit PROVE Inv
  OBVIOUS
<1>1. frames = <<>> /\ DOMAIN frames = {} /\ frames \in Seq(FrameT)
  BY DEF FrameInit
<1>2. FrameTypeOK
  BY <1>1 DEF FrameInit, FrameTypeOK, ArgRegs
<1>3. SlotsOK /\ LinkOK /\ TempsOK /\ CountOK /\ RegsOK
  BY <1>1 DEF FrameInit, SlotsOK, LinkOK, TempsOK, CountOK, RegsOK, ArgRegs
<1>4. QED
  BY <1>2, <1>3 DEF Inv

LEMMA FrameTypes ==
  ASSUME Inv
  PROVE  /\ frames \in Seq(FrameT) /\ DOMAIN frames = 1 .. Len(frames) /\ Len(frames) \in Nat
         /\ \A f \in DOMAIN frames :
              /\ frames[f] \in FrameT
              /\ frames[f].depth \in Nat /\ frames[f].local_count \in Nat
              /\ frames[f].accs \in Seq(Access)
              /\ Len(frames[f].accs) \in Nat
              /\ AccessIds(f) = 1 .. Len(frames[f].accs)
              /\ \A i \in AccessIds(f) : Acc(f, i) \in Access
<1>1. frames \in Seq(FrameT) /\ DOMAIN frames = 1 .. Len(frames) /\ Len(frames) \in Nat
  BY DEF Inv, FrameTypeOK
<1>2. ASSUME NEW f \in DOMAIN frames
      PROVE  /\ frames[f] \in FrameT
             /\ frames[f].depth \in Nat /\ frames[f].local_count \in Nat
             /\ frames[f].accs \in Seq(Access)
             /\ Len(frames[f].accs) \in Nat
             /\ AccessIds(f) = 1 .. Len(frames[f].accs)
             /\ \A i \in AccessIds(f) : Acc(f, i) \in Access
  <2>1. frames[f] \in FrameT
    BY <1>1
  <2>2. /\ frames[f].depth \in Nat /\ frames[f].local_count \in Nat
        /\ frames[f].accs \in Seq(Access)
    BY <2>1 DEF FrameT
  <2>3. /\ Len(frames[f].accs) \in Nat
        /\ AccessIds(f) = 1 .. Len(frames[f].accs)
        /\ \A i \in AccessIds(f) : Acc(f, i) \in Access
    BY <2>2 DEF AccessIds, Acc
  <2>4. QED
    BY <2>1, <2>2, <2>3
<1>3. QED
  BY <1>1, <1>2

(* Frame f gets one more access a, its slot count set to c.                *)
Gains(f, c, a) ==
  frames' = [frames EXCEPT ![f].local_count = c, ![f].accs = Append(@, a)]

LEMMA AppendAccess ==
  ASSUME Inv, NEW f \in DOMAIN frames, NEW a \in Access, NEW c \in Nat,
         NEW n \in Nat, n = Len(frames[f].accs) + 1,
         Gains(f, c, a)
  PROVE  /\ frames' \in Seq(FrameT)
         /\ DOMAIN frames' = DOMAIN frames
         /\ \A g \in DOMAIN frames : frames'[g].depth = frames[g].depth
         /\ \A g \in DOMAIN frames : g # f => frames'[g] = frames[g]
         /\ frames'[f].local_count = c
         /\ AccessIds(f)' = AccessIds(f) \union {n}
         /\ n \notin AccessIds(f)
         /\ n = 1 <=> AccessIds(f) = {}
         /\ frames'[f].accs[n] = a
         /\ \A i \in AccessIds(f) : frames'[f].accs[i] = frames[f].accs[i]
<1> DEFINE r == [frames[f] EXCEPT !.local_count = c, !.accs = Append(frames[f].accs, a)]
<1>1. frames \in Seq(FrameT) /\ frames[f] \in FrameT /\ DOMAIN frames = 1 .. Len(frames)
      /\ Len(frames) \in Nat
  BY FrameTypes
<1>2. frames[f].accs \in Seq(Access) /\ AccessIds(f) = 1 .. Len(frames[f].accs)
      /\ Len(frames[f].accs) \in Nat
  BY FrameTypes
<1>3. Append(frames[f].accs, a) \in Seq(Access)
  BY <1>2
<1>4. /\ r \in FrameT /\ r.depth = frames[f].depth /\ r.local_count = c
      /\ r.accs = Append(frames[f].accs, a)
  BY <1>1, <1>3 DEF FrameT
<1>5. frames' = [frames EXCEPT ![f] = r]
  BY DEF Gains
<1> HIDE DEF r
<1>6. /\ frames' \in Seq(FrameT) /\ DOMAIN frames' = DOMAIN frames
      /\ frames'[f] = r
      /\ \A g \in DOMAIN frames : g # f => frames'[g] = frames[g]
  <2>1. DOMAIN frames' = DOMAIN frames
    BY <1>5
  <2>2. frames'[f] = r
    BY <1>5
  <2>3. \A g \in DOMAIN frames : g # f => frames'[g] = frames[g]
    BY <1>5
  <2>4. frames' \in Seq(FrameT)
    <3>1. r \in FrameT
      BY <1>4
    <3>2. f \in 1 .. Len(frames)
      BY <1>1
    <3>3. [frames EXCEPT ![f] = r] \in Seq(FrameT)
      BY <1>1, <3>1, <3>2, ExceptSeq
    <3>4. QED
      BY <3>3, <1>5
  <2>5. QED
    BY <2>1, <2>2, <2>3, <2>4
<1>7. /\ AccessIds(f)' = AccessIds(f) \union {Len(frames[f].accs) + 1}
      /\ frames'[f].accs[Len(frames[f].accs) + 1] = a
      /\ \A i \in AccessIds(f) : frames'[f].accs[i] = frames[f].accs[i]
  <2>1. AccessIds(f)' = DOMAIN Append(frames[f].accs, a)
    BY <1>4, <1>6 DEF AccessIds
  <2>2. QED
    BY <2>1, <1>2, <1>4, <1>6
<1>8. \A g \in DOMAIN frames : frames'[g].depth = frames[g].depth
  BY <1>4, <1>6
<1>9. Len(frames[f].accs) + 1 \notin AccessIds(f)
      /\ (Len(frames[f].accs) + 1 = 1 <=> AccessIds(f) = {})
  <2>1. \A l \in Nat : l + 1 \notin 1 .. l /\ (l + 1 = 1 <=> 1 .. l = {})
    OBVIOUS
  <2>2. QED
    BY <2>1, <1>2
<1>10. QED
  BY <1>4, <1>6, <1>7, <1>8, <1>9

(* The two formulas for offsets give the next slot.                        *)
LEMMA NextSlot ==
  ASSUME NEW f
  PROVE  FormalOffset(f) = -WORD_SIZE * (frames[f].local_count + 1)
         /\ LocalOffset(f) = -WORD_SIZE * (frames[f].local_count + 1)
BY DEF FormalOffset, LocalOffset

LEMMA PlaceStep ==
  ASSUME Inv, NEW f \in DOMAIN frames, NEW escape \in BOOLEAN, NEW offset,
         Place(f, escape, offset), offset \in {FormalOffset(f), LocalOffset(f)},
         todo' \in Nat, todo' > 0 => todo > 0
  PROVE  Inv'
<1>0. /\ frames \in Seq(FrameT) /\ frames # <<>> /\ frames[f].depth \in Nat
      /\ frames[f].local_count \in Nat
      /\ temp_count \in Nat /\ Len(frames[f].accs) \in Nat
      /\ AccessIds(f) = 1 .. Len(frames[f].accs)
      /\ fp' = fp /\ rv' = rv /\ regs' = regs
  BY FrameTypes DEF Inv, FrameTypeOK, Place
<1>9. PICK n \in Nat : n = Len(frames[f].accs) + 1
  BY <1>0
<1>1. CASE escape
  <2>3. PICK c \in Nat : c = frames[f].local_count + 1
    BY <1>0
  <2>0. PICK a \in Access : a = InFrame(-WORD_SIZE * c, frames[f].depth)
    <3>1. -WORD_SIZE * c \in Int
      BY <2>3
    <3>2. InFrame(-WORD_SIZE * c, frames[f].depth) \in Access
      BY <3>1, <1>0 DEF InFrame, Access
    <3>3. QED
      BY <3>2
  <2>1. a.kind = "FRAME" /\ a.at = -8 * c /\ a.depth = frames[f].depth
    BY <2>0 DEF InFrame
  <2>15. offset = -WORD_SIZE * c
    BY <2>3, NextSlot
  <2>2. Gains(f, c, a) /\ temp_count' = temp_count
    BY <1>1, <1>0, <2>0, <2>3, <2>15 DEF Place, Gains
  <2>4. /\ frames' \in Seq(FrameT)
        /\ DOMAIN frames' = DOMAIN frames
        /\ \A g \in DOMAIN frames : frames'[g].depth = frames[g].depth
        /\ \A g \in DOMAIN frames : g # f => frames'[g] = frames[g]
        /\ frames'[f].local_count = c
        /\ AccessIds(f)' = AccessIds(f) \union {n}
        /\ n \notin AccessIds(f)
        /\ n = 1 <=> AccessIds(f) = {}
        /\ frames'[f].accs[n] = a
        /\ \A i \in AccessIds(f) : frames'[f].accs[i] = frames[f].accs[i]
    BY <1>9, <2>2, AppendAccess
  <2>5. \A g \in DOMAIN frames : g # f => AccessIds(g)' = AccessIds(g)
                                     /\ \A i : Acc(g, i)' = Acc(g, i)
    BY <2>4 DEF AccessIds, Acc
  <2>6. Acc(f, n)' = a /\ \A i \in AccessIds(f) : Acc(f, i)' = Acc(f, i)
    BY <2>4 DEF Acc
  <2>7. FrameTypeOK'
    BY <2>2, <2>4, <1>0 DEF Inv, FrameTypeOK
  <2>8. SlotsOK'
    <3> SUFFICES ASSUME NEW g \in DOMAIN frames
                 PROVE  /\ \A i \in AccessIds(g)' : Acc(g, i)'.kind = "FRAME" =>
                             \E m \in 1 .. frames'[g].local_count : Acc(g, i)'.at = -8 * m
                        /\ \A i, j \in AccessIds(g)' :
                             /\ Acc(g, i)'.kind = "FRAME" /\ Acc(g, j)'.kind = "FRAME"
                             /\ Acc(g, i)'.at = Acc(g, j)'.at
                             => i = j
      BY <2>4 DEF SlotsOK
    <3>1. CASE g # f
      BY <3>1, <2>4, <2>5 DEF Inv, SlotsOK
    <3>2. CASE g = f
      <4>1. \A i \in AccessIds(f) : Acc(f, i).kind = "FRAME" =>
              \E m \in 1 .. frames[f].local_count : m # c /\ m \in 1 .. c /\ Acc(f, i).at = -8 * m
        <5>1. \A m \in 1 .. frames[f].local_count : m # c /\ m \in 1 .. c
          BY <2>3, <1>0
        <5>2. QED
          BY <5>1 DEF Inv, SlotsOK
      <4>2. c \in 1 .. c
        BY <2>3, <1>0
      <4>3. \A i \in AccessIds(f) : Acc(f, i).kind = "FRAME" => Acc(f, i).at # a.at
        <5>1. \A m \in 1 .. c : m # c => -8 * m # -8 * c
          OBVIOUS
        <5>2. QED
          BY <4>1, <5>1, <2>1
      <4>4. QED
        BY <3>2, <4>1, <4>2, <4>3, <2>1, <2>4, <2>6 DEF Inv, SlotsOK
    <3>3. QED
      BY <3>1, <3>2
  <2>9. LinkOK'
    <3> SUFFICES ASSUME NEW g \in DOMAIN frames
                 PROVE  /\ frames'[g].depth > 0 =>
                             /\ AccessIds(g)' # {}
                             /\ \A i \in AccessIds(g)' :
                                  Acc(g, i)'.kind = "FRAME" /\ Acc(g, i)'.at = -8 <=> i = 1
                        /\ \A i \in AccessIds(g)' : Acc(g, i)'.depth = frames'[g].depth
      BY <2>4 DEF LinkOK
    <3>1. CASE g # f
      BY <3>1, <2>4, <2>5 DEF Inv, LinkOK
    <3>2. CASE g = f
      <4>1. frames[f].depth > 0 => AccessIds(f) # {} /\ n # 1
        BY <2>4 DEF Inv, LinkOK
      <4>2. ASSUME frames[f].depth > 0
            PROVE  a.at # -8
        <5>1. frames[f].local_count > 0
          BY <4>2 DEF Inv, CountOK
        <5>2. c > 1
          BY <5>1, <2>3, <1>0
        <5>3. -8 * c # -8
          BY <5>2
        <5>4. QED
          BY <5>3, <2>1
      <4>3. QED
        BY <3>2, <4>1, <4>2, <2>1, <2>4, <2>6 DEF Inv, LinkOK
    <3>3. QED
      BY <3>1, <3>2
  <2>10. \A g \in DOMAIN frames : \A i \in AccessIds(g)' : Acc(g, i)'.kind = "REG" =>
           i \in AccessIds(g) /\ Acc(g, i)' = Acc(g, i)
    BY <2>1, <2>4, <2>5, <2>6
  <2>11. RegsOK'
    <3>1. \A g, h \in DOMAIN frames' : \A i \in AccessIds(g)', j \in AccessIds(h)' :
            /\ Acc(g, i)'.kind = "REG" /\ Acc(h, j)'.kind = "REG"
            /\ Acc(g, i)'.at = Acc(h, j)'.at
            => g = h /\ i = j
      BY <2>4, <2>10 DEF Inv, RegsOK
    <3>2. \A g \in DOMAIN frames' : \A i \in AccessIds(g)' :
            Acc(g, i)'.kind = "REG" => Acc(g, i)'.at \notin Role'
      BY <2>4, <2>10, <1>0 DEF Inv, RegsOK, Role
    <3>3. QED
      BY <3>1, <3>2, <1>0 DEF Inv, RegsOK
  <2>12. TempsOK'
    BY <2>2, <2>4, <2>10, <1>0 DEF Inv, TempsOK
  <2>13. CountOK'
    <3>1. ASSUME NEW g \in DOMAIN frames, frames'[g].depth > 0
          PROVE  frames'[g].local_count > 0
      <4>1. CASE g = f
        <5>1. c > 0
          BY <2>3, <1>0
        <5>2. QED
          BY <4>1, <5>1, <2>4
      <4>2. CASE g # f
        BY <4>2, <3>1, <2>4 DEF Inv, CountOK
      <4>3. QED
        BY <4>1, <4>2
    <3>2. frames' # <<>>
      BY <2>4
    <3>3. QED
      BY <3>1, <3>2, <2>4 DEF CountOK
  <2>14. QED
    BY <2>7, <2>8, <2>9, <2>11, <2>12, <2>13 DEF Inv
<1>2. CASE ~escape
  <2>3. PICK c \in Nat : c = frames[f].local_count
    BY <1>0
  <2>0. PICK a \in Access : a = InReg(temp_count + 1, frames[f].depth)
    <3>1. temp_count + 1 \in Int
      BY <1>0
    <3>2. InReg(temp_count + 1, frames[f].depth) \in Access
      BY <3>1, <1>0 DEF InReg, Access
    <3>3. QED
      BY <3>2
  <2>1. a.kind = "REG" /\ a.at = temp_count + 1 /\ a.depth = frames[f].depth
    BY <2>0 DEF InReg
  <2>2. frames' = [frames EXCEPT ![f].accs = Append(@, a)] /\ temp_count' = temp_count + 1
    BY <1>2, <2>0 DEF Place
  <2>20. Gains(f, c, a)
    <3>1. frames[f] \in FrameT
      BY FrameTypes
    <3>2. [frames[f] EXCEPT !.accs = Append(frames[f].accs, a)]
            = [frames[f] EXCEPT !.local_count = c, !.accs = Append(frames[f].accs, a)]
      BY <3>1, <2>3 DEF FrameT
    <3>3. QED
      BY <3>2, <2>2 DEF Gains
  <2>4. /\ frames' \in Seq(FrameT)
        /\ DOMAIN frames' = DOMAIN frames
        /\ \A g \in DOMAIN frames : frames'[g].depth = frames[g].depth
        /\ \A g \in DOMAIN frames : g # f => frames'[g] = frames[g]
        /\ frames'[f].local_count = c
        /\ AccessIds(f)' = AccessIds(f) \union {n}
        /\ n \notin AccessIds(f)
        /\ n = 1 <=> AccessIds(f) = {}
        /\ frames'[f].accs[n] = a
        /\ \A i \in AccessIds(f) : frames'[f].accs[i] = frames[f].accs[i]
    BY <1>9, <2>20, AppendAccess
  <2>5. \A g \in DOMAIN frames : g # f => AccessIds(g)' = AccessIds(g)
                                     /\ \A i : Acc(g, i)' = Acc(g, i)
    BY <2>4 DEF AccessIds, Acc
  <2>6. Acc(f, n)' = a /\ \A i \in AccessIds(f) : Acc(f, i)' = Acc(f, i)
    BY <2>4 DEF Acc
  <2>7. FrameTypeOK'
    <3>1. temp_count' \in Nat
      BY <2>2, <1>0
    <3>2. QED
      BY <3>1, <2>4, <1>0 DEF Inv, FrameTypeOK
  <2>8. \A g \in DOMAIN frames : \A i \in AccessIds(g)' :
          \/ g = f /\ i = n /\ Acc(g, i)' = a
          \/ i \in AccessIds(g) /\ Acc(g, i)' = Acc(g, i)
    BY <2>4, <2>5, <2>6
  <2>9. SlotsOK'
    <3>1. \A g \in DOMAIN frames' : frames'[g].local_count = frames[g].local_count
      BY <2>3, <2>4
    <3>2. \A g \in DOMAIN frames' : \A i \in AccessIds(g)' : Acc(g, i)'.kind = "FRAME" =>
            i \in AccessIds(g) /\ Acc(g, i)' = Acc(g, i)
      BY <2>1, <2>4, <2>8
    <3>3. QED
      BY <3>1, <3>2, <2>4 DEF Inv, SlotsOK
  <2>10. LinkOK'
    <3> SUFFICES ASSUME NEW g \in DOMAIN frames
                 PROVE  /\ frames'[g].depth > 0 =>
                             /\ AccessIds(g)' # {}
                             /\ \A i \in AccessIds(g)' :
                                  Acc(g, i)'.kind = "FRAME" /\ Acc(g, i)'.at = -8 <=> i = 1
                        /\ \A i \in AccessIds(g)' : Acc(g, i)'.depth = frames'[g].depth
      BY <2>4 DEF LinkOK
    <3>1. CASE g # f
      BY <3>1, <2>4, <2>5 DEF Inv, LinkOK
    <3>2. CASE g = f
      <4>1. frames[f].depth > 0 => AccessIds(f) # {} /\ n # 1
        BY <2>4 DEF Inv, LinkOK
      <4>2. QED
        BY <3>2, <4>1, <2>1, <2>4, <2>6 DEF Inv, LinkOK
    <3>3. QED
      BY <3>1, <3>2
  <2>11. TempsOK'
    <3>1. \A t \in 1 .. temp_count : t \in 1 .. temp_count'
      BY <2>2, <1>0
    <3>2. temp_count + 1 \in 1 .. temp_count'
      BY <2>2, <1>0
    <3>3. /\ fp' = REG_TBD \/ fp' \in 1 .. temp_count'
          /\ rv' = REG_TBD \/ rv' \in 1 .. temp_count'
          /\ \A i \in ArgRegs : regs'[i] = REG_TBD \/ regs'[i] \in 1 .. temp_count'
      BY <3>1, <1>0 DEF Inv, TempsOK
    <3>4. \A g \in DOMAIN frames' : \A i \in AccessIds(g)' :
            Acc(g, i)'.kind = "REG" => Acc(g, i)'.at \in 1 .. temp_count'
      BY <3>1, <3>2, <2>1, <2>4, <2>8 DEF Inv, TempsOK
    <3>5. QED
      BY <3>3, <3>4 DEF TempsOK
  <2>12. RegsOK'
    <3>0. temp_count + 1 \notin 1 .. temp_count /\ temp_count + 1 # REG_TBD
      BY <1>0
    <3>1. \A g, h \in DOMAIN frames' : \A i \in AccessIds(g)', j \in AccessIds(h)' :
            /\ Acc(g, i)'.kind = "REG" /\ Acc(h, j)'.kind = "REG"
            /\ Acc(g, i)'.at = Acc(h, j)'.at
            => g = h /\ i = j
      BY <3>0, <2>1, <2>4, <2>8 DEF Inv, RegsOK, TempsOK
    <3>2. \A g \in DOMAIN frames' : \A i \in AccessIds(g)' :
            Acc(g, i)'.kind = "REG" => Acc(g, i)'.at \notin Role'
      <4>1. temp_count + 1 \notin Role'
        BY <3>0, <1>0 DEF Inv, TempsOK, Role
      <4>2. QED
        BY <4>1, <2>1, <2>4, <2>8, <1>0 DEF Inv, RegsOK, Role
    <3>3. QED
      BY <3>1, <3>2, <1>0 DEF Inv, RegsOK
  <2>13. CountOK'
    <3>1. frames' # <<>>
      BY <2>4
    <3>2. QED
      BY <3>1, <2>3, <2>4, <1>0 DEF Inv, CountOK
  <2>14. QED
    BY <2>7, <2>9, <2>10, <2>11, <2>12, <2>13 DEF Inv
<1>3. QED
  BY <1>1, <1>2

(* frame_new's first step: a frame with no access, or with the static link.*)
LEMMA NewFrameStep ==
  ASSUME Inv, NEW depth \in Nat, NEW n \in Nat, frame_new(depth, n)
  PROVE  Inv'
<1>0. /\ frames \in Seq(FrameT) /\ DOMAIN frames = 1 .. Len(frames) /\ Len(frames) \in Nat
      /\ temp_count' = temp_count /\ fp' = fp /\ rv' = rv /\ regs' = regs /\ todo' = n
  BY FrameTypes DEF frame_new
<1>1. PICK k \in Nat : k = Len(frames) + 1
  BY <1>0
<1>2. PICK r \in FrameT :
        /\ frames' = Append(frames, r)
        /\ r.depth = depth
        /\ \/ /\ depth > 0 /\ r.local_count = 1
              /\ r.accs = <<InFrame(-WORD_SIZE, depth)>>
           \/ depth = 0 /\ r.local_count = 0 /\ r.accs = <<>>
  <2>1. CASE depth > 0
    <3> DEFINE r == [depth |-> depth, local_count |-> 1, num_formals |-> n + 1,
                     accs |-> <<InFrame(-WORD_SIZE, depth)>>]
    <3>1. InFrame(-WORD_SIZE, depth) \in Access
      BY DEF InFrame, Access
    <3>2. <<InFrame(-WORD_SIZE, depth)>> \in Seq(Access)
      BY <3>1
    <3>3. r \in FrameT
      BY <3>2 DEF FrameT
    <3>4. frames' = Append(frames, r)
      BY <2>1 DEF frame_new
    <3>5. QED
      BY <2>1, <3>3, <3>4
  <2>2. CASE ~(depth > 0)
    <3> DEFINE r == [depth |-> depth, local_count |-> 0, num_formals |-> n, accs |-> <<>>]
    <3>1. r \in FrameT
      BY DEF FrameT
    <3>2. frames' = Append(frames, r)
      BY <2>2 DEF frame_new
    <3>3. depth = 0
      BY <2>2
    <3>4. QED
      BY <3>1, <3>2, <3>3
  <2>3. QED
    BY <2>1, <2>2
<1>3. /\ frames' \in Seq(FrameT) /\ frames' # <<>>
      /\ DOMAIN frames' = DOMAIN frames \union {k}
      /\ k \notin DOMAIN frames
      /\ frames'[k] = r
      /\ \A g \in DOMAIN frames : frames'[g] = frames[g]
  BY <1>0, <1>1, <1>2
<1>4. \A g \in DOMAIN frames : AccessIds(g)' = AccessIds(g) /\ \A i : Acc(g, i)' = Acc(g, i)
  BY <1>3 DEF AccessIds, Acc
<1>5. CASE depth > 0
  <2>1. AccessIds(k)' = {1} /\ Acc(k, 1)' = InFrame(-8, depth)
        /\ frames'[k].local_count = 1 /\ frames'[k].depth = depth
    BY <1>2, <1>3, <1>5 DEF AccessIds, Acc
  <2>2. Acc(k, 1)'.kind = "FRAME" /\ Acc(k, 1)'.at = -8 /\ Acc(k, 1)'.depth = depth
    BY <2>1 DEF InFrame
  <2>3. FrameTypeOK'
    BY <1>0, <1>3 DEF Inv, FrameTypeOK
  <2>4. SlotsOK'
    <3>1. 1 \in 1 .. frames'[k].local_count /\ -8 = -8 * 1
      BY <2>1
    <3>2. QED
      BY <3>1, <2>1, <2>2, <1>3, <1>4 DEF Inv, SlotsOK
  <2>5. LinkOK'
    <3> SUFFICES ASSUME NEW g \in DOMAIN frames'
                 PROVE  /\ frames'[g].depth > 0 =>
                             /\ AccessIds(g)' # {}
                             /\ \A i \in AccessIds(g)' :
                                  (Acc(g, i)'.kind = "FRAME" /\ Acc(g, i)'.at = -8) <=> i = 1
                        /\ \A i \in AccessIds(g)' : Acc(g, i)'.depth = frames'[g].depth
      BY DEF LinkOK
    <3>1. CASE g = k
      BY <3>1, <2>1, <2>2
    <3>2. CASE g \in DOMAIN frames
      <4>1. frames'[g] = frames[g] /\ AccessIds(g)' = AccessIds(g)
            /\ \A i : Acc(g, i)' = Acc(g, i)
        BY <3>2, <1>3, <1>4
      <4>2. QED
        BY <3>2, <4>1 DEF Inv, LinkOK
    <3>3. QED
      BY <3>1, <3>2, <1>3
  <2>6. \A g \in DOMAIN frames' : \A i \in AccessIds(g)' : Acc(g, i)'.kind = "REG" =>
          g \in DOMAIN frames /\ i \in AccessIds(g) /\ Acc(g, i)' = Acc(g, i)
    BY <2>1, <2>2, <1>3, <1>4
  <2>7. RegsOK'
    BY <2>6, <1>0 DEF Inv, RegsOK, Role
  <2>8. TempsOK'
    BY <2>6, <1>0 DEF Inv, TempsOK
  <2>9. CountOK'
    BY <2>1, <1>3 DEF Inv, CountOK
  <2>10. QED
    BY <2>3, <2>4, <2>5, <2>7, <2>8, <2>9 DEF Inv
<1>6. CASE depth = 0
  <2>1. AccessIds(k)' = {} /\ frames'[k].local_count = 0 /\ frames'[k].depth = 0
    BY <1>2, <1>3, <1>6 DEF AccessIds
  <2>2. FrameTypeOK'
    BY <1>0, <1>3 DEF Inv, FrameTypeOK
  <2>3. SlotsOK'
    BY <2>1, <1>3, <1>4 DEF Inv, SlotsOK
  <2>4. LinkOK'
    BY <2>1, <1>3, <1>4 DEF Inv, LinkOK
  <2>5. RegsOK'
    BY <2>1, <1>0, <1>3, <1>4 DEF Inv, RegsOK, Role
  <2>6. TempsOK'
    BY <2>1, <1>0, <1>3, <1>4 DEF Inv, TempsOK
  <2>7. CountOK'
    BY <2>1, <1>3 DEF Inv, CountOK
  <2>8. QED
    BY <2>2, <2>3, <2>4, <2>5, <2>6, <2>7 DEF Inv
<1>7. QED
  BY <1>2, <1>5, <1>6

(* A step that draws a temporary and leaves the frames alone.              *)
LEMMA DrawStep ==
  ASSUME Inv, temp_count' = temp_count + 1, frames' = frames, todo' = todo,
         fp' \in Int, rv' \in Int, regs' \in [ArgRegs -> Int],
         fp' = fp \/ fp' = temp_count + 1,
         rv' = rv \/ rv' = temp_count + 1,
         \A i \in ArgRegs : regs'[i] = regs[i] \/ regs'[i] = temp_count + 1,
         fp' # fp => rv' = rv /\ regs' = regs,
         rv' # rv => fp' = fp /\ regs' = regs,
         \A i, j \in ArgRegs : regs'[i] # regs[i] /\ regs'[j] # regs[j] => i = j,
         regs' # regs => fp' = fp /\ rv' = rv
  PROVE  Inv'
<1>0. temp_count \in Nat
  BY DEF Inv, FrameTypeOK
<1>1. /\ \A t \in 1 .. temp_count : t \in 1 .. temp_count' /\ t # temp_count + 1
      /\ temp_count + 1 \in 1 .. temp_count'
      /\ temp_count' \in Nat /\ temp_count + 1 # REG_TBD
      /\ \A t \in 1 .. temp_count : t # REG_TBD
  BY <1>0
<1>2. \A f : AccessIds(f)' = AccessIds(f) /\ \A i : Acc(f, i)' = Acc(f, i)
  BY DEF AccessIds, Acc
<1>3. FrameTypeOK'
  BY <1>1 DEF Inv, FrameTypeOK
<1>4. SlotsOK' /\ LinkOK' /\ CountOK'
  BY <1>2 DEF Inv, SlotsOK, LinkOK, CountOK
<1>5. TempsOK'
  BY <1>1, <1>2 DEF Inv, TempsOK
<1>6. RegsOK'
  <2>1. \A f, g \in DOMAIN frames' : \A i \in AccessIds(f)', j \in AccessIds(g)' :
          /\ Acc(f, i)'.kind = "REG" /\ Acc(g, j)'.kind = "REG"
          /\ Acc(f, i)'.at = Acc(g, j)'.at
          => f = g /\ i = j
    BY <1>2 DEF Inv, RegsOK
  <2>2. \A f \in DOMAIN frames' : \A i \in AccessIds(f)' :
          Acc(f, i)'.kind = "REG" => Acc(f, i)'.at \notin Role'
    <3>1. \A t \in Role' : t \in Role \/ t = temp_count + 1
      BY DEF Role
    <3>2. \A f \in DOMAIN frames : \A i \in AccessIds(f) :
            Acc(f, i).kind = "REG" => Acc(f, i).at \notin Role /\ Acc(f, i).at # temp_count + 1
      BY <1>1 DEF Inv, RegsOK, TempsOK
    <3>3. QED
      BY <3>1, <3>2, <1>2
  <2>3. fp' = rv' => fp' = REG_TBD
    BY <1>1 DEF Inv, RegsOK, TempsOK
  <2>4. \A i \in ArgRegs : regs'[i] \in {fp', rv'} => regs'[i] = REG_TBD
    BY <1>1 DEF Inv, RegsOK, TempsOK
  <2>5. \A i, j \in ArgRegs : regs'[i] = regs'[j] => i = j \/ regs'[i] = REG_TBD
    BY <1>1 DEF Inv, RegsOK, TempsOK
  <2>6. QED
    BY <2>1, <2>2, <2>3, <2>4, <2>5 DEF RegsOK
<1>7. QED
  BY <1>3, <1>4, <1>5, <1>6 DEF Inv

LEMMA FrameStep == Inv /\ [FrameNext]_frameVars => Inv'
<1> SUFFICES ASSUME Inv, [FrameNext]_frameVars PROVE Inv'
  OBVIOUS
<1>0. /\ temp_count \in Nat /\ temp_count + 1 \in Int /\ fp \in Int /\ rv \in Int
      /\ regs \in [ArgRegs -> Int] /\ todo \in Nat
      /\ DOMAIN frames = 1 .. Len(frames) /\ Len(frames) \in Nat
  BY FrameTypes DEF Inv, FrameTypeOK
<1>1. CASE temp_new
  BY <1>0, <1>1, DrawStep DEF temp_new
<1>2. ASSUME NEW depth \in Depths, NEW n \in 0 .. MaxParams, frame_new(depth, n)
      PROVE  Inv'
  <2>1. depth \in Nat /\ n \in Nat
    BY FrameTypes, BoundsAssumption DEF Depths
  <2>2. QED
    BY <1>2, <2>1, NewFrameStep
<1>3. ASSUME NEW escape \in BOOLEAN, NextFormal(escape)
      PROVE  Inv'
  <2>1. todo > 0 /\ todo' = todo - 1 /\ Place(Len(frames), escape, FormalOffset(Len(frames)))
    BY <1>3 DEF NextFormal
  <2>2. frames # <<>> /\ frames \in Seq(FrameT)
    BY <2>1 DEF Inv, CountOK, FrameTypeOK
  <2>3. Len(frames) \in DOMAIN frames /\ todo' \in Nat
    BY <2>1, <2>2, <1>0
  <2>4. QED
    BY <2>1, <2>3, PlaceStep
<1>4. ASSUME NEW f \in DOMAIN frames, NEW escape \in BOOLEAN, frame_alloc_local(f, escape)
      PROVE  Inv'
  BY <1>0, <1>4, PlaceStep DEF frame_alloc_local
<1>5. CASE frame_fp
  BY <1>0, <1>5, DrawStep DEF frame_fp
<1>6. CASE frame_rv
  BY <1>0, <1>6, DrawStep DEF frame_rv
<1>7. ASSUME NEW i \in ArgRegs, frame_arg_reg(i)
      PROVE  Inv'
  <2>1. /\ temp_count' = temp_count + 1 /\ frames' = frames /\ todo' = todo /\ fp' = fp /\ rv' = rv
        /\ regs' = [regs EXCEPT ![i] = temp_count + 1]
    BY <1>7 DEF frame_arg_reg
  <2>2. regs' \in [ArgRegs -> Int]
    BY <2>1, <1>0
  <2>3. \A j \in ArgRegs : regs'[j] = IF j = i THEN temp_count + 1 ELSE regs[j]
    BY <2>1, <1>0
  <2>4. QED
    BY <1>0, <2>1, <2>2, <2>3, DrawStep
<1>8. CASE UNCHANGED frameVars
  BY <1>8 DEF frameVars, Inv, FrameTypeOK, SlotsOK, LinkOK, RegsOK, TempsOK, CountOK, AccessIds, Acc, Role
<1>9. QED
  BY <1>1, <1>2, <1>3, <1>4, <1>5, <1>6, <1>7, <1>8 DEF FrameNext

(* No two variables share a slot of a frame or a register, the static link *)
(* has its word to itself, and no variable lives in a register with a      *)
(* role, in every program (frame_new, frame_alloc_local, temp_new).        *)
THEOREM FrameSafe == FrameSpec => [](FrameTypeOK /\ SlotsOK /\ LinkOK /\ RegsOK)
<1>1. Inv => FrameTypeOK /\ SlotsOK /\ LinkOK /\ RegsOK
  BY DEF Inv
<1>2. QED
  BY <1>1, InvInitially, FrameStep, PTL DEF FrameSpec

(* frame.c's counters, registers and frames keep their types.              *)
THEOREM FrameTyped == FrameSpec => []FrameTypeOK
BY FrameSafe, PTL

(* The word at fp - 8 is a nested function's static link and never a       *)
(* variable, for formals and locals of any number (frame_new).             *)
THEOREM LinkHasItsWord == FrameSpec => []LinkOK
BY FrameSafe, PTL

(* Temporaries with a role and temporaries of variables are different, in  *)
(* whatever order frame_fp, frame_rv, frame_arg_reg and temp_new draw them.*)
THEOREM RegistersApart == FrameSpec => []RegsOK
BY FrameSafe, PTL

-----------------------------------------------------------------------------
Kept ==
  /\ fp # REG_TBD => fp' = fp
  /\ rv # REG_TBD => rv' = rv
  /\ \A i \in ArgRegs : regs[i] # REG_TBD => regs'[i] = regs[i]
  /\ \A f \in DOMAIN frames : \A i \in AccessIds(f) :
       f \in DOMAIN frames' /\ i \in DOMAIN frames'[f].accs
       /\ frames'[f].accs[i] = Acc(f, i)

LEMMA OffsetsAreNumbers ==
  ASSUME Inv, NEW f \in DOMAIN frames
  PROVE  FormalOffset(f) \in Int /\ LocalOffset(f) \in Int
<1>1. frames[f].local_count \in Nat
  BY FrameTypes DEF Inv, FrameTypeOK
<1> QED
  BY <1>1 DEF FormalOffset, LocalOffset, WORD_SIZE

LEMMA PlaceKeeps ==
  ASSUME Inv, NEW f \in DOMAIN frames, NEW escape \in BOOLEAN, NEW offset \in Int,
         Place(f, escape, offset)
  PROVE  Kept
<1>1. /\ frames[f] \in FrameT /\ frames[f].depth \in Nat /\ frames[f].local_count \in Nat
      /\ Len(frames[f].accs) \in Nat /\ temp_count \in Nat
  BY FrameTypes DEF Inv, FrameTypeOK
<1>2. PICK n \in Nat : n = Len(frames[f].accs) + 1
  BY <1>1
<1>3. \E c \in Nat, a \in Access : Gains(f, c, a)
  <2>1. CASE escape
    <3>1. frames[f].local_count + 1 \in Nat
      BY <1>1
    <3>2. InFrame(offset, frames[f].depth) \in Access
      BY <1>1 DEF InFrame, Access
    <3>3. Gains(f, frames[f].local_count + 1, InFrame(offset, frames[f].depth))
      BY <2>1 DEF Place, Gains
    <3>4. QED
      BY <3>1, <3>2, <3>3
  <2>2. CASE ~escape
    <3> DEFINE a == InReg(temp_count + 1, frames[f].depth)
    <3>1. a \in Access
      BY <1>1 DEF InReg, Access
    <3>2. frames' = [frames EXCEPT ![f].accs = Append(@, a)]
      BY <2>2 DEF Place
    <3> HIDE DEF a
    <3>3. [frames[f] EXCEPT !.accs = Append(frames[f].accs, a)]
            = [frames[f] EXCEPT !.local_count = frames[f].local_count,
                                !.accs = Append(frames[f].accs, a)]
      BY <1>1 DEF FrameT
    <3>4. Gains(f, frames[f].local_count, a)
      BY <3>2, <3>3 DEF Gains
    <3>5. QED
      BY <3>1, <3>4, <1>1
  <2>3. QED
    BY <2>1, <2>2
<1>4. /\ DOMAIN frames' = DOMAIN frames
      /\ \A g \in DOMAIN frames : g # f => frames'[g] = frames[g]
      /\ AccessIds(f)' = AccessIds(f) \union {n}
      /\ \A i \in AccessIds(f) : frames'[f].accs[i] = frames[f].accs[i]
  BY <1>2, <1>3, AppendAccess
<1>5. ASSUME NEW g \in DOMAIN frames, NEW i \in AccessIds(g)
      PROVE  g \in DOMAIN frames' /\ i \in DOMAIN frames'[g].accs
             /\ frames'[g].accs[i] = Acc(g, i)
  BY <1>4 DEF AccessIds, Acc
<1>6. fp' = fp /\ rv' = rv /\ regs' = regs
  BY DEF Place
<1>7. QED
  BY <1>5, <1>6 DEF Kept

LEMMA StepKeeps == Inv /\ [FrameNext]_frameVars => Kept
<1> SUFFICES ASSUME Inv, [FrameNext]_frameVars PROVE Kept
  OBVIOUS
<1>0. frames \in Seq(FrameT) /\ DOMAIN frames = 1 .. Len(frames) /\ Len(frames) \in Nat
      /\ regs \in [ArgRegs -> Int] /\ todo \in Nat
  BY FrameTypes DEF Inv, FrameTypeOK
<1>1. CASE temp_new \/ frame_fp \/ frame_rv \/ UNCHANGED frameVars
  BY <1>1 DEF temp_new, frame_fp, frame_rv, frameVars, Kept, AccessIds, Acc
<1>2. ASSUME NEW depth \in Depths, NEW n \in 0 .. MaxParams, frame_new(depth, n)
      PROVE  Kept
  <2>1. fp' = fp /\ rv' = rv /\ regs' = regs
    BY <1>2 DEF frame_new
  <2>2. PICK r : frames' = Append(frames, r)
    BY <1>2 DEF frame_new
  <2>3. \A g \in DOMAIN frames : g \in DOMAIN frames' /\ frames'[g] = frames[g]
    BY <2>2, <1>0
  <2>4. QED
    BY <2>1, <2>3 DEF Kept, AccessIds, Acc
<1>3. ASSUME NEW escape \in BOOLEAN, NextFormal(escape)
      PROVE  Kept
  <2>1. todo > 0 /\ Place(Len(frames), escape, FormalOffset(Len(frames)))
    BY <1>3 DEF NextFormal
  <2>2. frames # <<>>
    BY <2>1 DEF Inv, CountOK
  <2>3. Len(frames) \in DOMAIN frames
    BY <2>2, <1>0
  <2>4. QED
    BY <2>1, <2>3, OffsetsAreNumbers, PlaceKeeps
<1>4. ASSUME NEW f \in DOMAIN frames, NEW escape \in BOOLEAN, frame_alloc_local(f, escape)
      PROVE  Kept
  BY <1>4, OffsetsAreNumbers, PlaceKeeps DEF frame_alloc_local
<1>5. ASSUME NEW i \in ArgRegs, frame_arg_reg(i)
      PROVE  Kept
  <2>1. fp' = fp /\ rv' = rv /\ frames' = frames
    BY <1>5 DEF frame_arg_reg
  <2>2. \A j \in ArgRegs : regs[j] # REG_TBD => regs'[j] = regs[j]
    BY <1>5, <1>0 DEF frame_arg_reg
  <2>3. QED
    BY <2>1, <2>2 DEF Kept, AccessIds, Acc
<1>6. QED
  BY <1>1, <1>2, <1>3, <1>4, <1>5 DEF FrameNext

(* Registers with a role, and the places of variables, never change        *)
(* (frame_fp, frame_rv and frame_arg_reg, and the access_t that trans.c    *)
(* keeps in its environment while it goes on allocating).                  *)
THEOREM RolesAreKept == FrameSpec => RolesKept
<1>1. Inv /\ [FrameNext]_frameVars => Kept
  BY StepKeeps
<1>2. QED
  BY <1>1, InvInitially, FrameStep, PTL DEF FrameSpec, RolesKept, Kept

-----------------------------------------------------------------------------
(* Every label has a place, which holds the name it was given, or none, or *)
(* its number once it was asked for.                                       *)
TableInv ==
  /\ cap \in Nat
  /\ label_count \in Nat
  /\ label_count <= cap
  /\ label_count <= MaxLabels
  /\ DOMAIN names = 0 .. cap - 1
  /\ DOMAIN given = 0 .. label_count - 1
  /\ \A l \in 0 .. label_count - 1 :
       /\ given[l] \in Names \union {NoName}
       /\ given[l] # NoName => names[l] = given[l]
       /\ given[l] = NoName => names[l] \in {NoName, Numbered(l)}

LEMMA TableStarts == TableInit => TableInv
<1> SUFFICES ASSUME TableInit PROVE TableInv
  OBVIOUS
<1>1. MaxLabels \in Nat
  BY NamesAssumption
<1>2. DOMAIN names = {} /\ DOMAIN given = {} /\ cap = 0 /\ label_count = 0
  BY DEF TableInit
<1>3. 0 .. 0 - 1 = {}
  OBVIOUS
<1>4. QED
  BY <1>1, <1>2, <1>3 DEF TableInv

LEMMA NewLabel ==
  ASSUME TableInv, NEW name \in Names \union {NoName}, label_named(name)
  PROVE  TableInv'
<1>1. /\ cap \in Nat /\ label_count \in Nat /\ label_count <= cap
      /\ label_count < MaxLabels /\ MaxLabels \in Nat
      /\ cap' = Capacity /\ label_count' = label_count + 1
  BY NamesAssumption DEF TableInv, label_named
<1>2. Capacity \in Nat /\ cap <= Capacity /\ label_count < Capacity
  BY <1>1 DEF Capacity, Room
<1>3. /\ names' = [l \in 0 .. Capacity - 1 |->
                     IF l = label_count THEN name ELSE IF l < cap THEN names[l] ELSE Garbage]
      /\ given' = [l \in 0 .. label_count |-> IF l = label_count THEN name ELSE given[l]]
  BY DEF label_named
<1>4. ASSUME NEW l \in 0 .. label_count
      PROVE  /\ given'[l] \in Names \union {NoName}
             /\ given'[l] # NoName => names'[l] = given'[l]
             /\ given'[l] = NoName => names'[l] \in {NoName, Numbered(l)}
  <2>1. l \in 0 .. Capacity - 1
    BY <1>1, <1>2
  <2>2. CASE l = label_count
    BY <1>3, <2>1, <2>2
  <2>3. CASE l # label_count
    <3>1. l \in 0 .. label_count - 1 /\ l < cap
      BY <1>1, <2>3
    <3>2. names'[l] = names[l] /\ given'[l] = given[l]
      BY <1>3, <2>1, <2>3, <3>1
    <3>3. QED
      BY <3>1, <3>2 DEF TableInv
  <2>4. QED
    BY <2>2, <2>3
<1>5. DOMAIN names' = 0 .. cap' - 1 /\ DOMAIN given' = 0 .. label_count' - 1
      /\ 0 .. label_count' - 1 = 0 .. label_count
  BY <1>1, <1>3
<1>6. cap' \in Nat /\ label_count' \in Nat /\ label_count' <= cap' /\ label_count' <= MaxLabels
  BY <1>1, <1>2
<1>7. QED
  BY <1>4, <1>5, <1>6 DEF TableInv

LEMMA NameAsked ==
  ASSUME TableInv, NEW l \in 0 .. label_count - 1, label_name(l)
  PROVE  TableInv'
<1>1. /\ names' = [names EXCEPT ![l] = NameOf(l)]
      /\ cap' = cap /\ label_count' = label_count /\ given' = given
  BY DEF label_name
<1>2. l \in DOMAIN names
  BY DEF TableInv
<1>3. ASSUME NEW k \in 0 .. label_count - 1
      PROVE  /\ given[k] # NoName => names'[k] = given[k]
             /\ given[k] = NoName => names'[k] \in {NoName, Numbered(k)}
  <2>1. CASE k = l
    <3>1. names'[l] = NameOf(l)
      BY <1>1, <1>2
    <3>2. QED
      BY <2>1, <3>1 DEF TableInv, NameOf
  <2>2. CASE k # l
    BY <1>1, <2>2 DEF TableInv
  <2>3. QED
    BY <2>1, <2>2
<1>4. QED
  BY <1>1, <1>3 DEF TableInv

LEMMA TableGoesOn == TableInv /\ [TableNext]_tableVars => TableInv'
<1> SUFFICES ASSUME TableInv, [TableNext]_tableVars PROVE TableInv'
  OBVIOUS
<1>1. CASE label_new
  BY <1>1, NewLabel DEF label_new
<1>2. ASSUME NEW name \in Names, label_named(name) PROVE TableInv'
  BY <1>2, NewLabel
<1>3. ASSUME NEW l \in 0 .. label_count - 1, label_name(l) PROVE TableInv'
  BY <1>3, NameAsked
<1>4. CASE OutOfMemory
  BY <1>4 DEF OutOfMemory, TableInv
<1>5. CASE UNCHANGED tableVars
  BY <1>5 DEF tableVars, TableInv
<1>6. QED
  BY <1>1, <1>2, <1>3, <1>4, <1>5 DEF TableNext

(* Whatever names functions have and however often the table grows, each   *)
(* label answers to its own name, and labels without one never to the same.*)
THEOREM LabelsStayApart == TableSpec => []LabelsApart
<1>1. TableInv => LabelsApart
  <2>0. TableInv => 0 .. label_count - 1 \subseteq DOMAIN names
    BY DEF TableInv
  <2> SUFFICES ASSUME TableInv, NEW l \in 0 .. label_count - 1
               PROVE  /\ given[l] # NoName => NameOf(l) = given[l]
                      /\ \A k \in 0 .. label_count - 1 :
                           NameOf(l) = NameOf(k) /\ l # k => given[l] # NoName \/ given[k] # NoName
    BY <2>0 DEF LabelsApart
  <2>2. given[l] # NoName => NameOf(l) = given[l]
    BY DEF TableInv, NameOf
  <2>3. \A k \in 0 .. label_count - 1 : given[k] = NoName => NameOf(k) = Numbered(k)
    BY DEF TableInv, NameOf
  <2>4. \A k \in 0 .. label_count - 1 : Numbered(l) = Numbered(k) => l = k
    BY DEF Numbered
  <2>5. QED
    BY <2>2, <2>3, <2>4
<1>2. QED
  BY <1>1, TableStarts, TableGoesOn, PTL DEF TableSpec
=============================================================================
