--------------------------- MODULE FrontEndProofs ---------------------------
(***************************************************************************)
(* The front end, for every text.                                          *)
(*                                                                         *)
(* The end of the text: the parser never goes on from it, and nothing that *)
(* the lexer reads behind it matters.  It takes three modules' steps: the  *)
(* NUL becomes an EOF or ERROR unless a backslash hides it (Lexer), the    *)
(* parser keeps asking for tokens while that moves from next to current    *)
(* (Parser.Deliver), and at current it asks no more (every action of       *)
(* Parser).                                                                *)
(*                                                                         *)
(* The trees: every pointer is at a node, and operators, open-ended        *)
(* constructs and else bind as they should.  The invariant says of every   *)
(* call what its function may still have to do and what it has by then     *)
(* (Waiting, Working), how tightly what it waits for must bind (Above),    *)
(* and which trees are open to the right (Colors); a call returns what its *)
(* caller may put into a node (Returns).                                   *)
(*                                                                         *)
(* The tokens: what the parser has been given and what is left of the text *)
(* in the lexer's mode (Ahead) are the tokens of the text (Divided), for   *)
(* every text that what has been read may be the beginning of (Lexed).     *)
(***************************************************************************)
EXTENDS FrontEnd, Minima, TLAPS

LastKinds == {"EOF", "ERROR"}

(* What functions have to do, and the functions' names. *)
Items ==
  Readable \union
  {"expr", "primary", "infix", "combine", "else", "declarations", "annotation", "params", "args",
   "fields", "type fields", "ty", "suffix", "field", "index", "sequence", "body", "comma",
   "semicolon", "seq semicolon", "no trailing",
   "main", "if", "while", "for", "let", "var", "func", "type", "record type", "array type",
   "call", "record", "lvalue", "assign", "array", "seq", "minus"}

(* The calls under way.  What their kids and places are does not matter    *)
(* here; any set that holds them will do.                                  *)
Frames(values) ==
  [fn : Items, todo : Seq(Items), kids : Seq(values), at : values, op : values, min : Nat]

Framed == \E values : stack \in Seq(Frames(values))

(* Calls whose values are in a set are calls whose values are in a greater *)
(* one.                                                                    *)
LEMMA FramesGrow ==
  ASSUME NEW values, NEW more, values \subseteq more
  PROVE  Seq(Frames(values)) \subseteq Seq(Frames(more))
<1>1. Seq(values) \subseteq Seq(more)
  OBVIOUS
<1>2. Frames(values) \subseteq Frames(more)
  BY <1>1 DEF Frames
<1>3. ASSUME NEW s \in Seq(Frames(values)) PROVE s \in Seq(Frames(more))
  BY <1>2
<1> QED
  BY <1>3

(* EOF and ERROR are no operators.                                         *)
LEMMA NoPowerAtTheEnd == \A t \in LastKinds : get_infix_bp(t) = 0
BY DEF get_infix_bp, LastKinds

(* get_infix_bp gives numbers.                                             *)
LEMMA PowersAreNumbers == \A t : get_infix_bp(t) \in Nat
BY DEF get_infix_bp

(* A token is read where the grammar asks for it, so never the last one.   *)
LEMMA ReadsOnlyTokens ==
  ASSUME Framed, Parse
  PROVE  want = 0 /\ (Stay \/ (Advance /\ current \notin LastKinds))
<1>1. PICK values : stack \in Seq(Frames(values))
  BY DEF Framed
<1>2. stack # <<>> /\ Top \in Frames(values)
  BY <1>1 DEF Parse, Crashed, Top
<1>3. LastKinds \cap Readable = {}
  BY DEF LastKinds, Readable, Keywords, Operators, Punctuation
<1>4. CASE Expect
  BY <1>3, <1>4 DEF Expect, Fail
<1>5. CASE Literal
  BY <1>5 DEF Literal, At, LastKinds
<1>6. CASE Infix
  <2>1. Top.min \in Nat
    BY <1>2 DEF Frames
  <2> QED
    BY <1>6, <2>1, NoPowerAtTheEnd DEF Infix, At
<1>7. CASE Comma \/ Semicolon \/ SeqSemicolon
  BY <1>7 DEF Comma, Semicolon, SeqSemicolon, Separator, At, LastKinds
<1>8. CASE Expr \/ Compound \/ NoPrimary \/ Combine
  BY <1>8 DEF Expr, Compound, NoPrimary, Combine, At
<1>9. CASE Else \/ Annotation
  BY <1>9 DEF Else, Annotation, Optional, At
<1>10. CASE NoTrailing \/ Params \/ Args \/ Sequence \/ Body \/ Fields \/ TypeFields
  BY <1>10 DEF NoTrailing, Params, Args, Sequence, Body, Fields, TypeFields, Loop, Fail,
               FailSilently, At
<1>11. CASE Declarations
  BY <1>11 DEF Declarations, Fail, At
<1>12. CASE Ty \/ Suffix \/ Field \/ Index
  BY <1>12 DEF Ty, Suffix, Field, Index, At
<1>13. CASE Crash \/ Finish \/ FinishMinus
  BY <1>13 DEF Crash, FollowsWild, Finish, FinishMinus, At
<1> QED
  BY <1>4, <1>5, <1>6, <1>7, <1>8, <1>9, <1>10, <1>11, <1>12, <1>13 DEF Parse
-----------------------------------------------------------------------------
(* The ways in which an action changes the calls under way. *)
LEMMA TopChanged ==
  ASSUME NEW values, stack \in Seq(Frames(values)), stack # <<>>,
         NEW more, NEW call \in Frames(more),
         stack' = [stack EXCEPT ![Len(stack)] = call]
  PROVE  Framed'
<1> DEFINE all == values \union more
<1>1. stack \in Seq(Frames(all)) /\ call \in Frames(all)
  <2>1. Seq(Frames(values)) \subseteq Seq(Frames(all))
    BY FramesGrow
  <2>2. Frames(more) \subseteq Frames(all)
    BY DEF Frames
  <2> QED
    BY <2>1, <2>2
<1> HIDE DEF all
<1>2. stack' \in Seq(Frames(all))
  BY <1>1
<1> QED
  BY <1>2 DEF Framed

(* The top call goes on and calls another.                                 *)
LEMMA CallPushed ==
  ASSUME NEW values, stack \in Seq(Frames(values)), stack # <<>>,
         NEW more, NEW call \in Frames(more), NEW new \in Frames(more),
         stack' = Append([stack EXCEPT ![Len(stack)] = call], new)
  PROVE  Framed'
<1> DEFINE all == values \union more
<1>1. stack \in Seq(Frames(all)) /\ call \in Frames(all) /\ new \in Frames(all)
  <2>1. Seq(Frames(values)) \subseteq Seq(Frames(all))
    BY FramesGrow
  <2>2. Frames(more) \subseteq Frames(all)
    BY DEF Frames
  <2> QED
    BY <2>1, <2>2
<1> HIDE DEF all
<1>2. stack' \in Seq(Frames(all))
  BY <1>1
<1> QED
  BY <1>2 DEF Framed

(* A call with other items to do, and with another kid. *)
LEMMA CallChanged ==
  ASSUME NEW values, NEW c \in Frames(values), NEW more, values \subseteq more
  PROVE  /\ c \in Frames(more)
         /\ \A todo \in Seq(Items) : [c EXCEPT !.todo = todo] \in Frames(more)
         /\ \A kids \in Seq(more) : [c EXCEPT !.kids = kids] \in Frames(more)
         /\ \A v \in more : Append(c.kids, v) \in Seq(more)
         /\ c.todo # <<>> => Tail(c.todo) \in Seq(Items)
<1>1. Seq(values) \subseteq Seq(more)
  OBVIOUS
<1>2. c \in Frames(more)
  BY <1>1 DEF Frames
<1>3. c.todo \in Seq(Items) /\ c.kids \in Seq(more)
  BY <1>2 DEF Frames
<1>4. \A todo \in Seq(Items) : [c EXCEPT !.todo = todo] \in Frames(more)
  BY <1>2 DEF Frames
<1>5. \A kids \in Seq(more) : [c EXCEPT !.kids = kids] \in Frames(more)
  BY <1>2 DEF Frames
<1>6. \A v \in more : Append(c.kids, v) \in Seq(more)
  <2> DEFINE kids == c.kids
  <2>1. kids \in Seq(more)
    BY <1>3
  <2> HIDE DEF kids
  <2>2. \A v \in more : Append(kids, v) \in Seq(more)
    BY <2>1
  <2> QED
    BY <2>2 DEF kids
<1>7. c.todo # <<>> => Tail(c.todo) \in Seq(Items)
  <2> DEFINE todo == c.todo
  <2>1. todo \in Seq(Items)
    BY <1>3
  <2> HIDE DEF todo
  <2>2. todo # <<>> => Tail(todo) \in Seq(Items)
    BY <2>1
  <2> QED
    BY <2>2 DEF todo
<1> QED
  BY <1>2, <1>4, <1>5, <1>6, <1>7

(* A call stays one when it is given what another returned, ...            *)
LEMMA TookFramed ==
  ASSUME NEW values, NEW c \in Frames(values), NEW v, v \in values
  PROVE  Took(c, v) \in Frames(values)
<1>1. Append(c.kids, v) \in Seq(values)
  BY CallChanged
<1>2. [c EXCEPT !.kids = Append(@, v)] \in Frames(values)
  BY <1>1 DEF Frames
<1> QED
  BY <1>2 DEF Took

(* ... and so the calls when the top one returns.                          *)
LEMMA Returned ==
  ASSUME NEW values, stack \in Seq(Frames(values)), stack # <<>>, NEW v, Return(v)
  PROVE  Framed'
<1> DEFINE all == values \union {v}
           n == Len(stack) - 1
<1>1. stack \in Seq(Frames(all))
  BY FramesGrow
<1>2. \A i \in 1 .. n : stack[i] \in Frames(all) /\ Took(stack[i], v) \in Frames(all)
  BY <1>1, TookFramed
<1> HIDE DEF all
<1>3. n \in Nat
  BY <1>1
<1>4. stack' \in Seq(Frames(all))
  BY <1>2, <1>3 DEF Return
<1> QED
  BY <1>4 DEF Framed

(* A new call.                                                             *)
LEMMA CallFramed ==
  ASSUME NEW fn \in Items, NEW todo \in Seq(Items), NEW min \in Nat
  PROVE  Call(fn, todo, min) \in Frames({Len(read) + 1, current})
BY DEF Call, Frames
-----------------------------------------------------------------------------
(* Going on with other items, reading a name or a literal, and going on    *)
(* while another function is called.                                       *)
LEMMA ThenFramed ==
  ASSUME NEW values, stack \in Seq(Frames(values)), stack # <<>>, Top.todo # <<>>,
         NEW items \in Seq(Items), Then(items)
  PROVE  Framed'
<1>1. Top \in Frames(values)
  BY DEF Top
<1>2. Tail(Top.todo) \in Seq(Items)
  BY <1>1, CallChanged
<1>3. items \o Tail(Top.todo) \in Seq(Items)
  BY <1>2
<1>4. [Top EXCEPT !.todo = items \o Tail(Top.todo)] \in Frames(values)
  BY <1>1, <1>3, CallChanged
<1>5. stack' = [stack EXCEPT ![Len(stack)] = [Top EXCEPT !.todo = items \o Tail(Top.todo)]]
  BY DEF Then, Top
<1> QED
  BY <1>4, <1>5, TopChanged

(* Going on with other items while another function is called.             *)
LEMMA ThenCallFramed ==
  ASSUME NEW values, stack \in Seq(Frames(values)), stack # <<>>, Top.todo # <<>>,
         NEW items \in Seq(Items), NEW more, NEW call \in Frames(more), ThenCall(items, call)
  PROVE  Framed'
<1> DEFINE all == values \union more
<1>1. Top \in Frames(values) /\ Top \in Frames(all) /\ call \in Frames(all)
  BY CallChanged DEF Top
<1>2. Tail(Top.todo) \in Seq(Items)
  BY <1>1, CallChanged
<1>3. items \o Tail(Top.todo) \in Seq(Items)
  BY <1>2
<1>4. [Top EXCEPT !.todo = items \o Tail(Top.todo)] \in Frames(all)
  BY <1>1, <1>3, CallChanged
<1>5. stack' = Append([stack EXCEPT ![Len(stack)] = [Top EXCEPT !.todo = items \o Tail(Top.todo)]],
                      call)
  BY DEF ThenCall, Top
<1> HIDE DEF all
<1> QED
  BY <1>1, <1>4, <1>5, CallPushed

(* The items of the top call done with, and v one of its kids. *)
LEMMA ReadFramed ==
  ASSUME NEW values, stack \in Seq(Frames(values)), stack # <<>>, Top.todo # <<>>, NEW v,
         stack' = [stack EXCEPT ![Len(stack)].todo = Tail(@),
                                ![Len(stack)].kids = Append(@, v)]
  PROVE  Framed'
<1> DEFINE all == values \union {v}
           kids == Append(Top.kids, v)
           todo == Tail(Top.todo)
<1>1. Top \in Frames(values) /\ Top \in Frames(all)
  BY CallChanged DEF Top
<1>2. todo \in Seq(Items)
  BY <1>1, CallChanged
<1>3. kids \in Seq(all)
  BY <1>1, CallChanged
<1>4. [Top EXCEPT !.todo = todo] \in Frames(all)
  BY <1>1, <1>2, CallChanged
<1>5. [[Top EXCEPT !.todo = todo] EXCEPT !.kids = kids] \in Frames(all)
  BY <1>3, <1>4, CallChanged
<1>6. stack' = [stack EXCEPT ![Len(stack)] = [[Top EXCEPT !.todo = todo] EXCEPT !.kids = kids]]
  <2>1. Len(stack) \in DOMAIN stack
    OBVIOUS
  <2> QED
    BY <1>1, <2>1 DEF Top, Frames
<1> HIDE DEF all
<1> QED
  BY <1>5, <1>6, TopChanged

(* The same with v the only one. *)
LEMMA AroundFramed ==
  ASSUME NEW values, stack \in Seq(Frames(values)), stack # <<>>, Top.todo # <<>>, NEW v,
         stack' = [stack EXCEPT ![Len(stack)].todo = Tail(@),
                                ![Len(stack)].kids = <<v>>]
  PROVE  Framed'
<1> DEFINE all == values \union {v}
           kids == <<v>>
           todo == Tail(Top.todo)
<1>1. Top \in Frames(values) /\ Top \in Frames(all)
  BY CallChanged DEF Top
<1>2. todo \in Seq(Items)
  BY <1>1, CallChanged
<1>3. kids \in Seq(all)
  OBVIOUS
<1>4. [Top EXCEPT !.todo = todo] \in Frames(all)
  BY <1>1, <1>2, CallChanged
<1>5. [[Top EXCEPT !.todo = todo] EXCEPT !.kids = kids] \in Frames(all)
  BY <1>3, <1>4, CallChanged
<1>6. stack' = [stack EXCEPT ![Len(stack)] = [[Top EXCEPT !.todo = todo] EXCEPT !.kids = kids]]
  <2>1. Len(stack) \in DOMAIN stack
    OBVIOUS
  <2> QED
    BY <1>1, <2>1 DEF Top, Frames
<1> HIDE DEF all, kids, todo
<1> QED
  BY <1>5, <1>6, TopChanged

(* Each parse function is entered with items it may have.                  *)
LEMMA CallsFramed ==
  LET frames == Frames({Len(read) + 1, current}) IN
  /\ \A bp \in Nat : parse_expr_bp(bp) \in frames
  /\ parse_if \in frames
  /\ parse_while \in frames
  /\ parse_for \in frames
  /\ parse_let \in frames
  /\ parse_vardec \in frames
  /\ parse_funcdec \in frames
  /\ parse_typedec \in frames
  /\ parse_call \in frames
  /\ parse_record \in frames
  /\ parse_lvalue \in frames
  /\ parse_seq \in frames
  /\ parse_minus \in frames
  /\ main \in frames
<1> DEFINE frames == Frames({Len(read) + 1, current})
<1>1. ASSUME NEW bp \in Nat PROVE parse_expr_bp(bp) \in frames
  <2>1. <<"primary", "infix">> \in Seq(Items)
    BY DEF Items, Readable, Keywords, Operators, Punctuation
  <2> QED
    BY <2>1, CallFramed DEF parse_expr_bp, Items
<1>2. parse_if \in frames
  <2>1. <<"IF", "expr", "THEN", "expr", "else">> \in Seq(Items)
    BY DEF Items, Readable, Keywords, Operators, Punctuation
  <2> QED
    BY <2>1, CallFramed DEF parse_if, Items
<1>3. parse_while \in frames
  <2>1. <<"WHILE", "expr", "DO", "expr">> \in Seq(Items)
    BY DEF Items, Readable, Keywords, Operators, Punctuation
  <2> QED
    BY <2>1, CallFramed DEF parse_while, Items
<1>4. parse_for \in frames
  <2>1. <<"FOR", "ID", "ASSIGN", "expr", "TO", "expr", "DO", "expr">> \in Seq(Items)
    BY DEF Items, Readable, Keywords, Operators, Punctuation
  <2> QED
    BY <2>1, CallFramed DEF parse_for, Items
<1>5. parse_let \in frames
  <2>1. <<"LET", "declarations">> \in Seq(Items)
    BY DEF Items, Readable, Keywords, Operators, Punctuation
  <2> QED
    BY <2>1, CallFramed DEF parse_let, Items
<1>6. parse_vardec \in frames
  <2>1. <<"VAR", "ID", "annotation", "ASSIGN", "expr">> \in Seq(Items)
    BY DEF Items, Readable, Keywords, Operators, Punctuation
  <2> QED
    BY <2>1, CallFramed DEF parse_vardec, Items
<1>7. parse_funcdec \in frames
  <2>1. <<"FUNCTION", "ID", "LPAREN", "params", "RPAREN", "annotation", "EQ", "expr">> \in Seq(Items)
    BY DEF Items, Readable, Keywords, Operators, Punctuation
  <2> QED
    BY <2>1, CallFramed DEF parse_funcdec, Items
<1>8. parse_typedec \in frames
  <2>1. <<"TYPE", "ID", "EQ", "ty">> \in Seq(Items)
    BY DEF Items, Readable, Keywords, Operators, Punctuation
  <2> QED
    BY <2>1, CallFramed DEF parse_typedec, Items
<1>9. parse_call \in frames
  <2>1. <<"ID", "LPAREN", "args", "RPAREN">> \in Seq(Items)
    BY DEF Items, Readable, Keywords, Operators, Punctuation
  <2> QED
    BY <2>1, CallFramed DEF parse_call, Items
<1>10. parse_record \in frames
  <2>1. <<"ID", "LBRACE", "fields", "RBRACE">> \in Seq(Items)
    BY DEF Items, Readable, Keywords, Operators, Punctuation
  <2> QED
    BY <2>1, CallFramed DEF parse_record, Items
<1>11. parse_lvalue \in frames
  <2>1. <<"ID", "suffix">> \in Seq(Items)
    BY DEF Items, Readable, Keywords, Operators, Punctuation
  <2> QED
    BY <2>1, CallFramed DEF parse_lvalue, Items
<1>12. parse_seq \in frames
  <2>1. <<"LPAREN", "sequence", "RPAREN">> \in Seq(Items)
    BY DEF Items, Readable, Keywords, Operators, Punctuation
  <2> QED
    BY <2>1, CallFramed DEF parse_seq, Items
<1>13. parse_minus \in frames
  <2>1. <<"MINUS", "primary">> \in Seq(Items)
    BY DEF Items, Readable, Keywords, Operators, Punctuation
  <2> QED
    BY <2>1, CallFramed DEF parse_minus, Items
<1>14. main \in frames
  <2>1. <<"expr">> \in Seq(Items)
    BY DEF Items, Readable, Keywords, Operators, Punctuation
  <2> QED
    BY <2>1, CallFramed DEF main, Items
<1> QED
  BY <1>1, <1>2, <1>3, <1>4, <1>5, <1>6, <1>7, <1>8, <1>9, <1>10, <1>11, <1>12, <1>13, <1>14

(* Every step of the parser leaves calls.                                  *)
LEMMA FramedStep ==
  ASSUME Framed, Parse
  PROVE  Framed'
<1>1. PICK values : stack \in Seq(Frames(values))
  BY DEF Framed
<1>2. stack # <<>> /\ Top \in Frames(values)
  BY <1>1 DEF Parse, Crashed, Top
<1>3. ASSUME NEW items \in Seq(Items), Then(items), Top.todo # <<>> PROVE Framed'
  BY <1>1, <1>2, <1>3, ThenFramed
<1>4. ASSUME NEW v, Return(v) PROVE Framed'
  BY <1>1, <1>2, <1>4, Returned
<1>5. ASSUME NEW v, Top.todo # <<>>,
             stack' = [stack EXCEPT ![Len(stack)].todo = Tail(@),
                                    ![Len(stack)].kids = Append(@, v)]
      PROVE  Framed'
  BY <1>1, <1>2, <1>5, ReadFramed
<1>6. ASSUME NEW more, NEW call \in Frames(more), stack' = [stack EXCEPT ![Len(stack)] = call]
      PROVE  Framed'
  BY <1>1, <1>2, <1>6, TopChanged
<1>7. ASSUME NEW item, At(item) PROVE Top.todo # <<>>
  BY <1>7 DEF At
<1>8. << >> \in Seq(Items)
  OBVIOUS
<1>9. CASE Expect
  <2>1. CASE current = Head(Top.todo)
    <3>1. Top.todo # <<>>
      BY <1>9 DEF Expect
    <3>2. CASE current = "ID"
      BY <1>5, <1>9, <2>1, <3>1, <3>2 DEF Expect
    <3>3. CASE current # "ID"
      <4>1. stack' = [stack EXCEPT ![Len(stack)].todo = Tail(@)]
        BY <1>9, <2>1, <3>3 DEF Expect
      <4>2. Tail(Top.todo) \in Seq(Items)
        BY <1>2, <3>1, CallChanged
      <4>3. [Top EXCEPT !.todo = Tail(Top.todo)] \in Frames(values)
        BY <1>2, <4>2, CallChanged
      <4> QED
        BY <1>6, <4>1, <4>3 DEF Top
    <3> QED
      BY <3>2, <3>3
  <2>2. CASE current # Head(Top.todo)
    BY <1>4, <1>9, <2>2 DEF Expect, Fail
  <2> QED
    BY <2>1, <2>2
<1>10. CASE Expr
  <2>1. parse_expr_bp(0) \in Frames({Len(read) + 1, current})
    BY CallsFramed
  <2> QED
    BY <1>1, <1>2, <1>7, <1>8, <1>10, <2>1, ThenCallFramed DEF Expr
<1>11. CASE Literal
  BY <1>5, <1>7, <1>11 DEF Literal
<1>12. CASE Compound
  <2>1. Chosen \in Frames({Len(read) + 1, current})
    BY CallsFramed DEF Chosen
  <2> QED
    BY <1>1, <1>2, <1>7, <1>8, <1>12, <2>1, ThenCallFramed DEF Compound
<1>13. CASE NoPrimary
  <2> DEFINE all == values \union {NULL}
             c == [Top EXCEPT !.todo = Tail(@)]
  <2>1. Top.todo # <<>> /\ stack' = [stack EXCEPT ![Len(stack)] = Took(c, NULL)]
    <3>1. Top.todo # <<>>
      BY <1>7, <1>13 DEF NoPrimary
    <3> QED
      BY <1>13, <3>1 DEF NoPrimary
  <2>2. Tail(Top.todo) \in Seq(Items)
    BY <1>2, <2>1, CallChanged
  <2>3. c \in Frames(all)
    BY <1>2, <2>2, CallChanged
  <2>4. Took(c, NULL) \in Frames(all)
    BY <2>3, TookFramed
  <2> QED
    BY <1>6, <2>1, <2>4
<1>14. CASE Infix
  <2>1. Top.todo # <<>>
    BY <1>7, <1>14 DEF Infix
  <2>2. ASSUME Return(Top.kids[1]) PROVE Framed'
    BY <1>4, <2>2
  <2>3. ASSUME NEW bp \in Nat,
               stack' = Append([stack EXCEPT ![Len(stack)] =
                                  [@ EXCEPT !.todo = <<"combine", "infix">>,
                                            !.op = current, !.at = Len(read) + 1]],
                               parse_expr_bp(bp))
        PROVE  Framed'
    <3> DEFINE all == values \union {Len(read) + 1, current}
               todo == <<"combine", "infix">>
               call == [Top EXCEPT !.todo = todo, !.op = current, !.at = Len(read) + 1]
    <3>1. todo \in Seq(Items)
      BY DEF Items, Readable, Keywords, Operators, Punctuation
    <3>2. parse_expr_bp(bp) \in Frames(all)
      <4>1. parse_expr_bp(bp) \in Frames({Len(read) + 1, current})
        BY CallsFramed
      <4> QED
        BY <4>1, CallChanged
    <3>3. Top \in Frames(all)
      BY <1>2, CallChanged
    <3>4. stack' = Append([stack EXCEPT ![Len(stack)] = call], parse_expr_bp(bp))
      BY <2>3 DEF Top
    <3> HIDE DEF todo
    <3>5. call \in Frames(all)
      BY <3>1, <3>3 DEF Frames
    <3> HIDE DEF all, call
    <3> QED
      BY <1>1, <1>2, <3>2, <3>4, <3>5, CallPushed
  <2> QED
    BY <1>14, <2>2, <2>3, PowersAreNumbers DEF Infix
<1>15. CASE Combine \/ Field
  BY <1>1, <1>2, <1>7, <1>15, AroundFramed DEF Combine, Field
<1>16. CASE Else \/ Annotation
  <2>1. <<"ELSE", "expr">> \in Seq(Items) /\ <<"COLON", "ID">> \in Seq(Items)
    BY DEF Items, Readable, Keywords, Operators, Punctuation
  <2> QED
    BY <1>3, <1>5, <1>7, <1>16, <2>1 DEF Else, Annotation, Optional
<1>17. CASE Comma \/ Semicolon \/ SeqSemicolon
  <2>1. <<"no trailing">> \in Seq(Items)
    BY DEF Items
  <2> QED
    BY <1>3, <1>7, <1>8, <1>17, <2>1 DEF Comma, Semicolon, SeqSemicolon, Separator
<1>18. CASE NoTrailing
  BY <1>3, <1>4, <1>7, <1>8, <1>18 DEF NoTrailing, Fail
<1>19. ASSUME NEW item \in Items, NEW closer, NEW items \in Seq(Items), Loop(item, closer, items)
       PROVE  Framed'
  <2>1. items \o <<item>> \in Seq(Items)
    OBVIOUS
  <2> QED
    BY <1>3, <1>7, <1>8, <1>19, <2>1 DEF Loop
<1>20. CASE Params \/ Args \/ Sequence \/ Body \/ Fields \/ TypeFields
  <2>1. {"params", "args", "sequence", "body", "fields", "type fields"} \subseteq Items
    BY DEF Items
  <2>2. /\ <<"ID", "COLON", "ID", "comma">> \in Seq(Items) /\ <<"expr", "comma">> \in Seq(Items)
        /\ <<"expr", "seq semicolon">> \in Seq(Items) /\ <<"expr", "semicolon">> \in Seq(Items)
        /\ <<"ID", "EQ", "expr", "comma">> \in Seq(Items)
    BY DEF Items, Readable, Keywords, Operators, Punctuation
  <2>3. ASSUME Fail \/ FailSilently PROVE Framed'
    BY <1>4, <2>3 DEF Fail, FailSilently
  <2>4. CASE Params
    BY <1>19, <2>1, <2>2, <2>3, <2>4 DEF Params
  <2>5. CASE Args
    BY <1>19, <2>1, <2>2, <2>3, <2>5 DEF Args
  <2>6. CASE Sequence
    BY <1>19, <2>1, <2>2, <2>3, <2>6 DEF Sequence
  <2>7. CASE Body
    BY <1>19, <2>1, <2>2, <2>3, <2>7 DEF Body
  <2>8. CASE Fields
    BY <1>19, <2>1, <2>2, <2>8 DEF Fields
  <2>9. CASE TypeFields
    BY <1>19, <2>1, <2>2, <2>9 DEF TypeFields
  <2> QED
    BY <1>20, <2>4, <2>5, <2>6, <2>7, <2>8, <2>9
<1>21. CASE Declarations
  <2>1. <<"declarations">> \in Seq(Items) /\ <<"IN", "body", "END">> \in Seq(Items)
    BY DEF Items, Readable, Keywords, Operators, Punctuation
  <2>2. Top.todo # <<>>
    BY <1>7, <1>21 DEF Declarations
  <2>3. ASSUME NEW call \in {parse_vardec, parse_funcdec, parse_typedec},
               ThenCall(<<"declarations">>, call)
        PROVE  Framed'
    BY <1>1, <1>2, <2>1, <2>2, <2>3, CallsFramed, ThenCallFramed
  <2> QED
    BY <1>3, <1>4, <1>21, <2>1, <2>2, <2>3 DEF Declarations, Fail
<1>22. ASSUME NEW more, values \subseteq more, NEW fn \in Items, NEW todo \in Seq(Items),
              NEW at \in more
       PROVE  /\ Top \in Frames(more)
              /\ [Top EXCEPT !.todo = todo] \in Frames(more)
              /\ [Top EXCEPT !.fn = fn, !.todo = todo] \in Frames(more)
              /\ [Top EXCEPT !.fn = fn, !.todo = todo, !.at = at] \in Frames(more)
  <2>1. Top \in Frames(more)
    BY <1>2, <1>22, CallChanged
  <2> QED
    BY <2>1 DEF Frames
<1>23. CASE Ty
  <2>1. /\ {"record type", "array type"} \subseteq Items
        /\ <<"LBRACE", "type fields", "RBRACE">> \in Seq(Items)
        /\ <<"ARRAY", "OF", "ID">> \in Seq(Items) /\ <<"ID">> \in Seq(Items)
    BY DEF Items, Readable, Keywords, Operators, Punctuation
  <2>2. Top.at \in values
    BY <1>2 DEF Frames
  <2> DEFINE call ==
        CASE current = "LBRACE" ->
               [Top EXCEPT !.fn = "record type", !.todo = <<"LBRACE", "type fields", "RBRACE">>]
          [] current = "ARRAY" ->
               [Top EXCEPT !.fn = "array type", !.todo = <<"ARRAY", "OF", "ID">>]
          [] OTHER -> [Top EXCEPT !.todo = <<"ID">>]
  <2>3. stack' = [stack EXCEPT ![Len(stack)] = call]
    BY <1>23 DEF Ty, Top
  <2>4. call \in Frames(values)
    BY <1>22, <2>1, <2>2
  <2> HIDE DEF call
  <2> QED
    BY <1>6, <2>3, <2>4
<1>24. CASE Suffix
  <2> DEFINE at == heap[Top.kids[1]].at
             more == values \union {at}
  <2>1. /\ "assign" \in Items /\ <<"DOT", "ID", "field", "suffix">> \in Seq(Items)
        /\ <<"LBRACKET", "expr", "RBRACKET", "index">> \in Seq(Items)
        /\ <<"ASSIGN", "expr">> \in Seq(Items)
    BY DEF Items, Readable, Keywords, Operators, Punctuation
  <2>2. values \subseteq more /\ at \in more
    OBVIOUS
  <2> DEFINE call ==
        CASE current = "DOT" -> [Top EXCEPT !.todo = <<"DOT", "ID", "field", "suffix">>]
          [] current = "LBRACKET" ->
               [Top EXCEPT !.todo = <<"LBRACKET", "expr", "RBRACKET", "index">>]
          [] current = "ASSIGN" ->
               [Top EXCEPT !.fn = "assign", !.todo = <<"ASSIGN", "expr">>, !.at = at]
          [] OTHER -> [Top EXCEPT !.todo = <<>>]
  <2>3. stack' = [stack EXCEPT ![Len(stack)] = call]
    BY <1>24 DEF Suffix, Top
  <2> HIDE DEF at, more
  <2>4. call \in Frames(more)
    BY <1>8, <1>22, <2>1, <2>2
  <2> HIDE DEF call
  <2> QED
    BY <1>6, <2>3, <2>4
<1>25. CASE Index
  <2> DEFINE e == Top.kids[1]
             kid == IF heap[e].kind = "ID" THEN e ELSE Wild
             at == heap[e].at
             around == <<Len(heap) + 1>>
             more == values \union {e, Wild, at, Len(heap) + 1}
  <2>1. /\ "array" \in Items /\ <<"OF", "expr">> \in Seq(Items) /\ <<"suffix">> \in Seq(Items)
    BY DEF Items, Readable, Keywords, Operators, Punctuation
  <2>2. values \subseteq more /\ at \in more /\ kid \in more
    OBVIOUS
  <2>3. around \in Seq(more)
    OBVIOUS
  <2>4. \/ stack' = [stack EXCEPT ![Len(stack)] =
                       [Top EXCEPT !.fn = "array", !.todo = <<"OF", "expr">>, !.at = at,
                                   !.kids[1] = kid]]
        \/ stack' = [stack EXCEPT ![Len(stack)] = [Top EXCEPT !.todo = <<"suffix">>, !.kids = around]]
    BY <1>25 DEF Index, Top
  <2> HIDE DEF kid, at, around, more
  <2>5. Top \in Frames(more) /\ Top.kids \in Seq(more)
    <3>1. Top \in Frames(more)
      BY <1>2, <2>2, CallChanged
    <3> QED
      BY <3>1 DEF Frames
  <2>6. [Top.kids EXCEPT ![1] = kid] \in Seq(more)
    <3> DEFINE kids == Top.kids
    <3>1. kids \in Seq(more)
      BY <2>5
    <3> HIDE DEF kids
    <3>2. [kids EXCEPT ![1] = kid] \in Seq(more)
      <4>1. /\ kids \in [1 .. Len(kids) -> more] /\ Len(kids) \in Nat
        BY <3>1
      <4>2. [kids EXCEPT ![1] = kid] \in [1 .. Len(kids) -> more]
        BY <2>2, <4>1
      <4> QED
        BY <4>1, <4>2
    <3> QED
      BY <3>2 DEF kids
  <2>7. [Top EXCEPT !.fn = "array", !.todo = <<"OF", "expr">>, !.at = at, !.kids[1] = kid]
          \in Frames(more)
    BY <2>1, <2>2, <2>5, <2>6 DEF Frames
  <2>8. [Top EXCEPT !.todo = <<"suffix">>, !.kids = around] \in Frames(more)
    BY <2>1, <2>3, <2>5 DEF Frames
  <2> QED
    BY <1>6, <2>4, <2>7, <2>8
<1>26. CASE Crash
  <2>1. stack' = <<>>
    BY <1>26 DEF Crash
  <2>2. stack' \in Seq(Frames(values))
    BY <2>1
  <2> QED
    BY <2>2 DEF Framed
<1>27. CASE Finish \/ FinishMinus
  BY <1>4, <1>27 DEF Finish, FinishMinus, ReturnNode
<1> QED
  BY <1>9, <1>10, <1>11, <1>12, <1>13, <1>14, <1>15, <1>16, <1>17, <1>18, <1>20, <1>21, <1>23,
     <1>24, <1>25, <1>26, <1>27 DEF Parse
-----------------------------------------------------------------------------
(* What the lexer has read is a sequence of symbols. *)
Spelt == \E symbols : seen \in Seq(symbols)

(* Behind a backslash, and only there, a NUL may pass unseen. *)
Escaping == mode = "escape" => seen # <<>> /\ seen[Len(seen)] = "\\"

(* A step of the lexer reads at most one symbol; it passes a NUL only      *)
(* while it gives the last token, or escaped; and it is behind a backslash *)
(* when the mode says so.                                                  *)
LEMMA LexReads ==
  ASSUME Spelt, L!NextToken
  PROVE  /\ seen' = seen \/ seen' = Append(seen, ch)
         /\ (seen' # seen /\ ch = "NUL") => token' \in LastKinds \/ mode = "escape"
         /\ mode' = "escape" => seen' = Append(seen, "\\")
<1>1. L!OneSymbol("NUL") = "EOF"
  BY DEF L!OneSymbol, L!Identifiers, L!KeywordOf
<1>2. \A c : L!TwoSymbols(c, "NUL") = "none"
  BY DEF L!TwoSymbols
<1>3. "NUL" \notin L!Longer /\ "escape" \notin L!Longer
  BY DEF L!Longer
<1>4. CASE L!skip_whitespace
  BY <1>4 DEF L!skip_whitespace, L!Advance, L!Go, L!Blanks
<1>5. CASE L!FirstSymbol
  BY <1>1, <1>3, <1>5 DEF L!FirstSymbol, L!Advance, L!Go, L!Give, LastKinds
<1>6. CASE L!SecondSymbol
  BY <1>2, <1>6 DEF L!SecondSymbol, L!Advance, L!Stay, L!Go, L!Give
<1>7. CASE L!InComment
  BY <1>7 DEF L!InComment, L!Advance, L!Go, L!Give, LastKinds
<1>8. CASE L!CommentCloses
  BY <1>8 DEF L!CommentCloses, L!Advance, L!Stay, L!Go
<1>9. CASE L!CommentOpens
  BY <1>9 DEF L!CommentOpens, L!Advance, L!Stay, L!Go
<1>10. CASE L!InString
  BY <1>10 DEF L!InString, L!Advance, L!Go, L!Give, LastKinds
<1>11. CASE L!Escape
  BY <1>11 DEF L!Escape, L!Advance, L!Go
<1> QED
  BY <1>4, <1>5, <1>6, <1>7, <1>8, <1>9, <1>10, <1>11 DEF L!NextToken

(* Reading another symbol. *)
LEMMA SymbolRead ==
  ASSUME Spelt, Escaping, seen' = Append(seen, ch)
  PROVE  /\ Spelt'
         /\ Escaped => Escaped'
         /\ L!Ended(seen') => L!Ended(seen) \/ ch = "NUL"
         /\ mode = "escape" /\ ch = "NUL" => Escaped'
<1>1. PICK symbols : seen \in Seq(symbols)
  BY DEF Spelt
<1>2. seen' \in Seq(symbols \union {ch})
  <2>1. seen \in Seq(symbols \union {ch})
    BY <1>1
  <2> QED
    BY <2>1
<1>3. /\ Len(seen) \in Nat /\ Len(seen') = Len(seen) + 1 /\ seen'[Len(seen) + 1] = ch
      /\ \A i \in 1 .. Len(seen) : seen'[i] = seen[i]
  BY <1>1
<1>4. Spelt'
  BY <1>2 DEF Spelt
<1>5. Escaped => Escaped'
  BY <1>3 DEF Escaped
<1>6. L!Ended(seen') => L!Ended(seen) \/ ch = "NUL"
  BY <1>1, <1>2, <1>3 DEF L!Ended
<1>7. mode = "escape" /\ ch = "NUL" => Escaped'
  <2> SUFFICES ASSUME mode = "escape", ch = "NUL" PROVE Escaped'
    OBVIOUS
  <2>1. Len(seen) \in 1 .. Len(seen) /\ seen[Len(seen)] = "\\"
    BY <1>1 DEF Escaping
  <2>2. Len(seen) + 1 \in 2 .. Len(seen') /\ seen'[Len(seen)] = "\\"
    BY <1>3, <2>1
  <2> QED
    BY <1>3, <2>2 DEF Escaped
<1> QED
  BY <1>4, <1>5, <1>6, <1>7
-----------------------------------------------------------------------------
(* Once the NUL has been read, it has hidden behind a backslash, or the    *)
(* last token is in next, where nothing more is asked for, or in current.  *)
EndSeen ==
  L!Ended(seen) => \/ Escaped
                   \/ want = 0 /\ next \in LastKinds
                   \/ current \in LastKinds /\ want \in {0, 1}

IInv == Framed /\ Spelt /\ Escaping /\ want \in 0 .. 2 /\ EndSeen

(* The invariant holds in the beginning, ...                               *)
LEMMA Starts == StartUp => IInv
<1> SUFFICES ASSUME StartUp PROVE IInv
  OBVIOUS
<1>1. stack = <<main>> /\ want = 2 /\ seen = <<>> /\ mode = "space"
  BY DEF StartUp, Init, L!Init
<1>2. Framed
  <2>1. main \in Frames({Len(read) + 1, current})
    BY CallsFramed
  <2>2. stack \in Seq(Frames({Len(read) + 1, current}))
    BY <1>1, <2>1
  <2> QED
    BY <2>2 DEF Framed
<1>3. Spelt
  <2>1. seen \in Seq({})
    BY <1>1
  <2> QED
    BY <2>1 DEF Spelt
<1>4. ~ L!Ended(seen)
  BY <1>1 DEF L!Ended
<1> QED
  BY <1>1, <1>2, <1>3, <1>4 DEF IInv, Escaping, EndSeen

(* ... a step of the lexer keeps it, ...                                   *)
LEMMA Lexes ==
  ASSUME IInv, Lex
  PROVE  IInv'
<1>1. /\ want > 0 /\ L!NextToken
      /\ IF token' = "none" THEN UNCHANGED vars ELSE Deliver(token')
  BY DEF Lex
<1>2. want \in {1, 2}
  BY <1>1 DEF IInv
<1>3. Framed'
  <2>1. stack' = stack
    BY <1>1 DEF vars, Deliver
  <2> QED
    BY <2>1 DEF IInv, Framed
<1>4. want' \in 0 .. 2
  BY <1>1, <1>2 DEF IInv, vars, Deliver
<1>5. /\ seen' = seen \/ seen' = Append(seen, ch)
      /\ (seen' # seen /\ ch = "NUL") => token' \in LastKinds \/ mode = "escape"
      /\ mode' = "escape" => seen' = Append(seen, "\\")
  BY <1>1, LexReads DEF IInv
<1>6. seen' = Append(seen, ch) =>
        /\ Spelt'
        /\ Escaped => Escaped'
        /\ L!Ended(seen') => L!Ended(seen) \/ ch = "NUL"
        /\ mode = "escape" /\ ch = "NUL" => Escaped'
  BY SymbolRead DEF IInv
<1>7. Spelt'
  BY <1>5, <1>6 DEF IInv, Spelt
<1>8. Escaped => Escaped'
  BY <1>5, <1>6 DEF Escaped
<1>9. Escaping'
  <2> SUFFICES ASSUME mode' = "escape" PROVE seen' # <<>> /\ seen'[Len(seen')] = "\\"
    BY DEF Escaping
  <2>1. PICK symbols : seen \in Seq(symbols)
    BY DEF IInv, Spelt
  <2>2. seen' = Append(seen, "\\")
    BY <1>5
  <2> QED
    BY <2>1, <2>2
<1>10. EndSeen'
  <2> SUFFICES ASSUME L!Ended(seen'), ~ Escaped'
               PROVE  (want' = 0 /\ next' \in LastKinds) \/ (current' \in LastKinds /\ want' \in {0, 1})
    BY DEF EndSeen
  <2>1. CASE L!Ended(seen)
    <3>1. current \in LastKinds /\ want = 1
      BY <1>2, <1>8, <2>1 DEF IInv, EndSeen
    <3> QED
      BY <1>1, <3>1 DEF vars, Deliver
  <2>2. CASE ~ L!Ended(seen)
    <3>1. seen' = Append(seen, ch) /\ ch = "NUL" /\ seen' # seen
      BY <1>5, <1>6, <2>2
    <3>2. token' \in LastKinds
      BY <1>5, <1>6, <3>1
    <3>3. token' # "none"
      BY <3>2 DEF LastKinds
    <3>4. Deliver(token')
      BY <1>1, <3>3
    <3> QED
      BY <1>2, <3>2, <3>4 DEF Deliver
  <2> QED
    BY <2>1, <2>2
<1> QED
  BY <1>3, <1>4, <1>7, <1>9, <1>10 DEF IInv

(* ... and a step of the parser, ...                                       *)
LEMMA Parses ==
  ASSUME IInv, Parse, UNCHANGED lexVars
  PROVE  IInv'
<1>1. want = 0 /\ (Stay \/ (Advance /\ current \notin LastKinds))
  BY ReadsOnlyTokens DEF IInv
<1>2. Framed'
  BY FramedStep DEF IInv
<1>3. UNCHANGED <<seen, mode>>
  BY DEF lexVars
<1>4. Spelt' /\ Escaping'
  BY <1>3 DEF IInv, Spelt, Escaping
<1>5. want' \in 0 .. 2
  BY <1>1 DEF Stay, Advance
<1>6. EndSeen'
  <2> SUFFICES ASSUME L!Ended(seen), ~ Escaped
               PROVE  (want' = 0 /\ next' \in LastKinds) \/ (current' \in LastKinds /\ want' \in {0, 1})
    BY <1>3 DEF EndSeen, Escaped, L!Ended
  <2>1. next \in LastKinds \/ current \in LastKinds
    BY DEF IInv, EndSeen
  <2> QED
    BY <1>1, <2>1 DEF Stay, Advance
<1> QED
  BY <1>2, <1>4, <1>5, <1>6 DEF IInv

(* ... and so any step.                                                    *)
LEMMA Runs == IInv /\ [Run \/ Finished]_frontVars => IInv'
<1> SUFFICES ASSUME IInv, [Run \/ Finished]_frontVars PROVE IInv'
  OBVIOUS
<1>1. CASE UNCHANGED frontVars
  BY <1>1 DEF frontVars, vars, lexVars, IInv, Framed, Spelt, Escaping, EndSeen, Escaped, L!Ended
<1> QED
  BY <1>1, Lexes, Parses DEF Run, Finished

(* Whatever text is compiled, and whatever lies behind it in memory, the   *)
(* lexer comes behind its end only for the token after the last, unless a  *)
(* backslash ends the text (lexer.c:45, lexer.c:81, parser.c:10).          *)
THEOREM NeverPastTheEnd == FrontEndSpec => []NotPastTheEnd
<1>1. IInv => NotPastTheEnd
  BY DEF IInv, EndSeen, NotPastTheEnd, LastKinds
<1> QED
  BY <1>1, Starts, Runs, PTL DEF FrontEndSpec

(* Nothing more of the text is read once the last token is current.        *)
NothingRead ==
  current \in LastKinds /\ want = 0 => UNCHANGED <<current, next, want, read>>

(* The last token stays: a parser that has come to it reads no more of the *)
(* text, in none of its functions (parser.c:53, 60).                       *)
THEOREM NothingIsReadBehindTheLast == FrontEndSpec => [][NothingRead]_frontVars
<1>1. IInv /\ [Run \/ Finished]_frontVars => [NothingRead]_frontVars
  <2> SUFFICES ASSUME IInv, Run \/ Finished, current \in LastKinds, want = 0
               PROVE  UNCHANGED <<current, next, want, read>>
    BY DEF NothingRead
  <2>1. CASE Lex
    BY <2>1 DEF Lex
  <2>2. CASE Parse
    BY <2>2, ReadsOnlyTokens DEF IInv, Stay
  <2>3. CASE Finished
    BY <2>3 DEF Finished, frontVars, vars
  <2> QED
    BY <2>1, <2>2, <2>3 DEF Run
<1> QED
  BY <1>1, Starts, Runs, PTL DEF FrontEndSpec
-----------------------------------------------------------------------------
(* What each function may have to do. *)
Bodies == {"while", "for", "assign", "array"}
PlainItems == Items \ {"primary", "infix", "combine", "else", "suffix", "field", "index"}

ItemsOf(fn) ==
  CASE fn = "expr" -> {"primary", "infix", "combine"}
    [] fn = "minus" -> {"MINUS", "primary"}
    [] fn = "if" -> {"IF", "THEN", "ELSE", "expr", "else"}
    [] fn \in Bodies -> Readable \union {"expr"}
    [] fn = "lvalue" -> Readable \union {"expr", "suffix", "field", "index"}
    [] OTHER -> PlainItems

Typed(c, h) ==
  /\ c.fn \in Calls /\ c.min \in Nat
  /\ c.todo \in Seq(ItemsOf(c.fn))
  /\ c.kids \in Seq(Wild .. Len(h))

(* In a heap h, a node's children are older than it. *)
Nodes(h) ==
  /\ \E nodes : h \in Seq(nodes)
  /\ \A n \in DOMAIN h :
       /\ h[n].kids \in Seq(Wild .. n - 1)
       /\ h[n].kind = "binop" => Len(h[n].kids) = 2
       /\ h[n].kind = "if" => Len(h[n].kids) = 3
       /\ h[n].kind \in OpenEnded => h[n].kids # <<>>

(* IsInfix, of any heap. *)
InfixAt(h, n) ==
  n > 0 /\ h[n].kind = "binop" /\ ~ (h[n].kids[1] > 0 /\ h[h[n].kids[1]].kind = "zero")

(* O are the open-ended nodes, E those that end in an if without else. *)
Colors(h, O, E) ==
  /\ O \subseteq DOMAIN h /\ E \subseteq DOMAIN h
  /\ \A n \in DOMAIN h :
       /\ n \in O <=> \/ h[n].kind \in OpenEnded
                      \/ h[n].kind = "binop" /\ h[n].kids[2] \in O
       /\ n \in E <=> \/ h[n].kind = "if" /\ h[n].kids[3] = NULL
                      \/ /\ h[n].kind \in OpenEnded \union {"binop"}
                         /\ h[n].kids[Len(h[n].kids)] \in E

(* Binds, of any heap; g: no error and no hole has been met. *)
BindsWell(h, g, O, E) ==
  \A n \in DOMAIN h :
    /\ InfixAt(h, n) =>
         LET l == h[n].kids[1]  r == h[n].kids[2] IN
         /\ l \notin O
         /\ InfixAt(h, l) => get_infix_bp(h[l].op) >= get_infix_bp(h[n].op)
         /\ InfixAt(h, r) => get_infix_bp(h[r].op) > get_infix_bp(h[n].op)
    /\ g /\ h[n].kind = "if" /\ h[n].kids[3] # NULL => h[n].kids[2] \notin E

(* v is what an expression has come to at the token t: if it could take in *)
(* an operator, t is none, and if it could take in an else, t is none.     *)
Operand(v, h, g, t, O, E) ==
  /\ v \in Wild .. Len(h)
  /\ v \in O => get_infix_bp(t) = 0
  /\ g => v # NULL /\ (v \in E => t # "ELSE")

(* The left operand of a call of parse_expr_bp that parses the right one. *)
Left(c, h, O) ==
  LET l == c.kids[1] IN
  /\ l \notin O /\ get_infix_bp(c.op) > c.min
  /\ InfixAt(h, l) => get_infix_bp(h[l].op) >= get_infix_bp(c.op)

Names(h) == {n \in DOMAIN h : h[n].kind \in {"ID", "field", "index"}}

(* A call that waits for another. *)
Waiting(c, h, g, O, E) ==
  /\ c.fn = "expr" =>
       \/ c.todo = <<"infix">> /\ c.kids = <<>>
       \/ c.todo = <<"combine", "infix">> /\ Len(c.kids) = 1 /\ Left(c, h, O)
  /\ c.fn = "minus" => c.todo = <<>> /\ c.kids = <<>>
  /\ c.fn = "if" =>
       \/ c.todo = <<"THEN", "expr", "else">> /\ c.kids = <<>>
       \/ c.todo = <<"else">> /\ Len(c.kids) = 1
       \/ c.todo = <<>> /\ Len(c.kids) = 2 /\ (g => c.kids[2] \notin E)
  /\ c.fn \in Bodies => c.todo = <<>> \/ c.todo[Len(c.todo)] = "expr"
  /\ c.fn = "lvalue" => c.kids # <<>> /\ c.kids[1] \in Names(h)

(* The call that goes on, at the token t. *)
WorkingExpr(c, h, g, t, O, E) ==
  \/ c.todo = <<"primary", "infix">> /\ c.kids = <<>>
  \/ /\ c.todo = <<"infix">> /\ Len(c.kids) = 1
     /\ Operand(c.kids[1], h, g, t, O, E)
     /\ InfixAt(h, c.kids[1]) =>
          /\ get_infix_bp(h[c.kids[1]].op) > c.min
          /\ get_infix_bp(t) <= get_infix_bp(h[c.kids[1]].op)
  \/ /\ c.todo = <<"combine", "infix">> /\ Len(c.kids) = 2
     /\ Left(c, h, O)
     /\ Operand(c.kids[2], h, g, t, O, E)
     /\ InfixAt(h, c.kids[2]) => get_infix_bp(h[c.kids[2]].op) > get_infix_bp(c.op)
     /\ get_infix_bp(t) <= get_infix_bp(c.op)

WorkingIf(c, h, g, t, O, E) ==
  \/ /\ c.todo \in {<<"IF", "expr", "THEN", "expr", "else">>, <<"expr", "THEN", "expr", "else">>}
     /\ c.kids = <<>>
  \/ c.todo \in {<<"THEN", "expr", "else">>, <<"expr", "else">>} /\ Len(c.kids) = 1
  \/ /\ c.todo = <<"else">> /\ Len(c.kids) = 2
     /\ get_infix_bp(t) = 0 /\ Operand(c.kids[2], h, g, t, O, E)
  \/ /\ c.todo \in {<<"ELSE", "expr">>, <<"expr">>} /\ Len(c.kids) = 2
     /\ g => c.kids[2] \notin E
  \/ /\ c.todo = <<>> /\ Len(c.kids) = 3 /\ get_infix_bp(t) = 0
     /\ g => \/ c.kids[3] = NULL /\ t # "ELSE"
             \/ /\ c.kids[3] # NULL /\ c.kids[2] \notin E
                /\ c.kids[3] \in E => t # "ELSE"

Working(c, h, g, t, O, E) ==
  /\ c.fn = "expr" => WorkingExpr(c, h, g, t, O, E)
  /\ c.fn = "minus" =>
       \/ c.todo \in {<<"MINUS", "primary">>, <<"primary">>} /\ c.kids = <<>>
       \/ c.todo = <<>> /\ Len(c.kids) = 1 /\ Operand(c.kids[1], h, g, t, O, E)
  /\ c.fn = "if" => WorkingIf(c, h, g, t, O, E)
  /\ c.fn \in Bodies =>
       \/ c.todo # <<>> /\ c.todo[Len(c.todo)] = "expr"
       \/ /\ c.todo = <<>> /\ c.kids # <<>> /\ get_infix_bp(t) = 0
          /\ Operand(c.kids[Len(c.kids)], h, g, t, O, E)
  /\ c.fn = "lvalue" =>
       \/ c.todo = <<"ID", "suffix">> /\ c.kids = <<>>
       \/ c.kids # <<>> /\ c.kids[1] \in Names(h)

(* What c waits for is d, the call above it. *)
Above(c, d) ==
  /\ c.fn = "expr" /\ c.todo = <<"combine", "infix">> =>
       d.fn = "expr" /\ d.min = get_infix_bp(c.op) + 1
  /\ c.fn \in {"if"} \union Bodies => d.fn = "expr" /\ d.min = 0
  /\ (c.fn = "expr" /\ c.todo = <<"infix">>) \/ c.fn = "minus" => d.fn # "expr"

CallsOK(s, h, g, t, O, E) ==
  /\ \A i \in DOMAIN s : Typed(s[i], h)
  /\ \A i \in 1 .. Len(s) - 1 : Waiting(s[i], h, g, O, E) /\ Above(s[i], s[i + 1])
  /\ s # <<>> => Working(s[Len(s)], h, g, t, O, E)

Good == ~ failed /\ ~ hole

World(s, h, g, t, O, E) ==
  /\ Nodes(h) /\ Colors(h, O, E) /\ BindsWell(h, g, O, E) /\ CallsOK(s, h, g, t, O, E)

Shaped == \E O, E : World(stack, heap, Good, current, O, E)

Fresh == want = 2 => Len(stack) = 1 /\ Top.fn = "main"
-----------------------------------------------------------------------------
(* h2 has the nodes of h, and they have their colors. *)
Grows(h, O, E, h2, O2, E2) ==
  /\ Len(h) <= Len(h2)
  /\ \A n \in 1 .. Len(h) : h2[n] = h[n]
  /\ \A n \in Wild .. Len(h) : (n \in O2 <=> n \in O) /\ (n \in E2 <=> n \in E)

(* A heap is a sequence.                                                   *)
LEMMA HeapIsSeq ==
  ASSUME NEW h, Nodes(h)
  PROVE  Len(h) \in Nat /\ DOMAIN h = 1 .. Len(h)
<1>1. PICK nodes : h \in Seq(nodes)
  BY DEF Nodes
<1> QED
  BY <1>1

(* What is in a short list is in the set its elements are of.              *)
LEMMA KidsAre ==
  ASSUME NEW S, NEW kids \in Seq(S)
  PROVE  /\ \A i \in 1 .. Len(kids) : kids[i] \in S
         /\ kids # <<>> => kids[1] \in S /\ kids[Len(kids)] \in S
         /\ Len(kids) = 1 => kids[1] \in S
         /\ Len(kids) = 2 => kids[1] \in S /\ kids[2] \in S
         /\ Len(kids) = 3 => kids[1] \in S /\ kids[2] \in S /\ kids[3] \in S
         /\ \A v \in S : Append(kids, v) \in Seq(S)
         /\ \A T : S \subseteq T => kids \in Seq(T)
OBVIOUS

(* Infix nodes stay what they are when others are made, ...                *)
LEMMA InfixGrows ==
  ASSUME NEW h, Nodes(h), NEW h2, NEW O, NEW E, NEW O2, NEW E2, Grows(h, O, E, h2, O2, E2),
         NEW v \in Wild .. Len(h)
  PROVE  /\ v > 0 => v \in DOMAIN h /\ h2[v] = h[v]
         /\ InfixAt(h2, v) <=> InfixAt(h, v)
<1>1. Len(h) \in Nat /\ DOMAIN h = 1 .. Len(h)
  BY HeapIsSeq
<1>2. v > 0 => v \in DOMAIN h /\ h2[v] = h[v]
  BY <1>1 DEF Grows, Wild
<1>3. CASE v > 0 /\ h[v].kind = "binop"
  <2> DEFINE l == h[v].kids[1]
  <2>1. h[v].kids \in Seq(Wild .. v - 1) /\ Len(h[v].kids) = 2
    BY <1>2, <1>3 DEF Nodes
  <2>2. l \in Wild .. v - 1
    BY <2>1, KidsAre
  <2> HIDE DEF l
  <2>3. l > 0 => h2[l] = h[l]
    BY <1>1, <1>2, <1>3, <2>2 DEF Grows, Wild
  <2> QED
    BY <1>2, <1>3, <2>3 DEF InfixAt, l
<1>4. CASE ~ (v > 0 /\ h[v].kind = "binop")
  BY <1>2, <1>4 DEF InfixAt
<1> QED
  BY <1>2, <1>3, <1>4

(* ... and so do the calls that wait.                                      *)
LEMMA WaitingGrows ==
  ASSUME NEW h, Nodes(h), NEW h2, Nodes(h2), NEW O, NEW E, NEW O2, NEW E2,
         Grows(h, O, E, h2, O2, E2),
         NEW g, NEW g2, g2 => g, NEW c, Typed(c, h), Waiting(c, h, g, O, E)
  PROVE  Typed(c, h2) /\ Waiting(c, h2, g2, O2, E2)
<1>1. Len(h) \in Nat /\ DOMAIN h = 1 .. Len(h) /\ Len(h2) \in Nat /\ DOMAIN h2 = 1 .. Len(h2)
  BY HeapIsSeq
<1>2. c.kids \in Seq(Wild .. Len(h))
  BY DEF Typed
<1>3. Typed(c, h2)
  <2>1. Wild .. Len(h) \subseteq Wild .. Len(h2)
    BY <1>1 DEF Grows, Wild
  <2>2. c.kids \in Seq(Wild .. Len(h2))
    BY <1>2, <2>1, KidsAre
  <2> QED
    BY <2>2 DEF Typed
<1>5. Len(c.kids) = 2 => c.kids[2] \in Wild .. Len(h)
  BY <1>2, KidsAre
<1>6. ASSUME c.fn = "expr", Len(c.kids) = 1, Left(c, h, O) PROVE Left(c, h2, O2)
  <2>1. c.kids[1] \in Wild .. Len(h)
    BY <1>2, <1>6, KidsAre
  <2>2. c.kids[1] \in O2 <=> c.kids[1] \in O
    BY <2>1 DEF Grows
  <2>3. /\ InfixAt(h2, c.kids[1]) <=> InfixAt(h, c.kids[1])
        /\ c.kids[1] > 0 => h2[c.kids[1]] = h[c.kids[1]]
    BY <2>1, InfixGrows
  <2> QED
    BY <1>6, <2>2, <2>3 DEF Left, InfixAt
<1>7. ASSUME Len(c.kids) = 2, g => c.kids[2] \notin E PROVE g2 => c.kids[2] \notin E2
  BY <1>5, <1>7 DEF Grows
<1>8. Names(h) \subseteq Names(h2)
  BY <1>1 DEF Names, Grows
<1>9. Waiting(c, h2, g2, O2, E2)
  BY <1>6, <1>7, <1>8 DEF Waiting
<1> QED
  BY <1>3, <1>9

(* The powers are even, so that "at least a power + 1", which is what a    *)
(* right operand is parsed with, is "more than the power".                 *)
LEMMA PowersAreEven == \A t : get_infix_bp(t) \in {0, 2, 4, 6, 8, 10}
BY DEF get_infix_bp
-----------------------------------------------------------------------------
(* What a new node must be, to be made of what is there. *)
NodeFits(node, h, g, O, E) ==
  LET l == node.kids[1]  r == node.kids[2] IN
  /\ node.kids \in Seq(Wild .. Len(h))
  /\ node.kind = "binop" => Len(node.kids) = 2
  /\ node.kind = "if" => Len(node.kids) = 3
  /\ node.kind \in OpenEnded => node.kids # <<>>
  /\ node.kind = "binop" /\ ~ (l > 0 /\ h[l].kind = "zero") =>
       /\ l \notin O
       /\ InfixAt(h, l) => get_infix_bp(h[l].op) >= get_infix_bp(node.op)
       /\ InfixAt(h, r) => get_infix_bp(h[r].op) > get_infix_bp(node.op)
  /\ g /\ node.kind = "if" /\ node.kids[3] # NULL => node.kids[2] \notin E

NodeOpen(node, O) ==
  node.kind \in OpenEnded \/ (node.kind = "binop" /\ node.kids[2] \in O)

NodeEnds(node, E) ==
  \/ node.kind = "if" /\ node.kids[3] = NULL
  \/ node.kind \in OpenEnded \union {"binop"} /\ node.kids[Len(node.kids)] \in E

Added(h, g, O, E, node, O2, E2) ==
  LET h2 == Append(h, node) IN
  /\ Nodes(h2) /\ Colors(h2, O2, E2) /\ BindsWell(h2, g, O2, E2)
  /\ Grows(h, O, E, h2, O2, E2)
  /\ Len(h) + 1 \in O2 <=> NodeOpen(node, O)
  /\ Len(h) + 1 \in E2 <=> NodeEnds(node, E)

(* A node that fits can be added: the others keep their colors, and its    *)
(* own are given by its kind and children.                                 *)
LEMMA NodeAdded ==
  ASSUME NEW h, NEW g, NEW O, NEW E, Nodes(h), Colors(h, O, E), BindsWell(h, g, O, E),
         NEW node, NodeFits(node, h, g, O, E)
  PROVE  \E O2, E2 : Added(h, g, O, E, node, O2, E2)
<1> DEFINE N == Len(h)
           h2 == Append(h, node)
           O2 == {n \in 1 .. N + 1 : n \in O \/ (n = N + 1 /\ NodeOpen(node, O))}
           E2 == {n \in 1 .. N + 1 : n \in E \/ (n = N + 1 /\ NodeEnds(node, E))}
<1>1. N \in Nat /\ DOMAIN h = 1 .. N
  BY HeapIsSeq
<1>2. PICK nodes : h \in Seq(nodes)
  BY DEF Nodes
<1>3. /\ h2 \in Seq(nodes \union {node}) /\ Len(h2) = N + 1 /\ DOMAIN h2 = 1 .. N + 1
      /\ h2[N + 1] = node /\ \A n \in 1 .. N : h2[n] = h[n]
  <2>1. h \in Seq(nodes \union {node}) /\ node \in nodes \union {node}
    BY <1>2
  <2> QED
    BY <2>1
<1>4. O \subseteq 1 .. N /\ E \subseteq 1 .. N
  BY <1>1 DEF Colors
<1> HIDE DEF h2, N
<1>5. /\ \A n \in Wild .. N : (n \in O2 <=> n \in O) /\ (n \in E2 <=> n \in E)
      /\ N + 1 \in O2 <=> NodeOpen(node, O)
      /\ N + 1 \in E2 <=> NodeEnds(node, E)
      /\ O2 \subseteq 1 .. N + 1 /\ E2 \subseteq 1 .. N + 1
  <2> DEFINE open == NodeOpen(node, O)
             ends == NodeEnds(node, E)
  <2>0. \A n : /\ n \in O2 <=> n \in 1 .. N + 1 /\ (n \in O \/ (n = N + 1 /\ open))
               /\ n \in E2 <=> n \in 1 .. N + 1 /\ (n \in E \/ (n = N + 1 /\ ends))
    BY Zenon
  <2> HIDE DEF O2, E2, open, ends
  <2>1. N \in Nat /\ N + 1 \in 1 .. N + 1 /\ N + 1 \notin 1 .. N
    BY <1>1
  <2>2. ASSUME NEW n \in Wild .. N PROVE n # N + 1 /\ (n \in 1 .. N => n \in 1 .. N + 1)
    BY <2>1 DEF Wild
  <2>3. \A n \in Wild .. N : (n \in O2 <=> n \in O) /\ (n \in E2 <=> n \in E)
    <3> SUFFICES ASSUME NEW n \in Wild .. N
                 PROVE  (n \in O2 <=> n \in O) /\ (n \in E2 <=> n \in E)
      OBVIOUS
    <3>1. n # N + 1 /\ (n \in 1 .. N => n \in 1 .. N + 1)
      BY <2>2
    <3>2. (n \in O => n \in 1 .. N) /\ (n \in E => n \in 1 .. N)
      BY <1>4
    <3> QED
      BY <2>0, <3>1, <3>2
  <2>4. N + 1 \notin O /\ N + 1 \notin E
    BY <1>4, <2>1
  <2>5. O2 \subseteq 1 .. N + 1 /\ E2 \subseteq 1 .. N + 1
    BY <2>0
  <2>6. (N + 1 \in O2 <=> open) /\ (N + 1 \in E2 <=> ends)
    BY <2>0, <2>1, <2>4
  <2> QED
    BY <2>3, <2>5, <2>6 DEF open, ends
<1> HIDE DEF O2, E2
<1>6. Grows(h, O, E, h2, O2, E2)
  BY <1>1, <1>3, <1>5 DEF Grows, N
<1>7. \A n \in 1 .. N : Wild .. n - 1 \subseteq Wild .. N
  BY <1>1 DEF Wild
<1>8. Nodes(h2)
  <2>1. ASSUME NEW n \in 1 .. N + 1
        PROVE  /\ h2[n].kids \in Seq(Wild .. n - 1)
               /\ h2[n].kind = "binop" => Len(h2[n].kids) = 2
               /\ h2[n].kind = "if" => Len(h2[n].kids) = 3
               /\ h2[n].kind \in OpenEnded => h2[n].kids # <<>>
    <3>1. CASE n \in 1 .. N
      BY <1>1, <1>3, <3>1 DEF Nodes
    <3>2. CASE n = N + 1
      <4>1. Wild .. n - 1 = Wild .. N
        BY <1>1, <3>2
      <4> QED
        BY <1>3, <3>2, <4>1 DEF NodeFits, N
    <3> QED
      BY <1>1, <3>1, <3>2
  <2> QED
    BY <1>3, <2>1 DEF Nodes
<1>9. ASSUME NEW n \in 1 .. N
      PROVE  /\ h[n].kind = "binop" =>
                  h[n].kids[1] \in Wild .. n - 1 /\ h[n].kids[2] \in Wild .. n - 1
             /\ h[n].kind = "if" => h[n].kids[2] \in Wild .. n - 1
             /\ h[n].kind \in OpenEnded \union {"binop"} => h[n].kids[Len(h[n].kids)] \in Wild .. n - 1
  BY <1>1, KidsAre DEF Nodes
<1>10. Colors(h2, O2, E2)
  <2>1. ASSUME NEW n \in 1 .. N + 1
        PROVE  /\ n \in O2 <=> \/ h2[n].kind \in OpenEnded
                               \/ h2[n].kind = "binop" /\ h2[n].kids[2] \in O2
               /\ n \in E2 <=> \/ h2[n].kind = "if" /\ h2[n].kids[3] = NULL
                               \/ /\ h2[n].kind \in OpenEnded \union {"binop"}
                                  /\ h2[n].kids[Len(h2[n].kids)] \in E2
    <3>1. CASE n \in 1 .. N
      <4>1. /\ n \in O <=> \/ h[n].kind \in OpenEnded
                           \/ h[n].kind = "binop" /\ h[n].kids[2] \in O
            /\ n \in E <=> \/ h[n].kind = "if" /\ h[n].kids[3] = NULL
                           \/ /\ h[n].kind \in OpenEnded \union {"binop"}
                              /\ h[n].kids[Len(h[n].kids)] \in E
        BY <1>1, <3>1 DEF Colors
      <4>2. n \in Wild .. N /\ h2[n] = h[n] /\ Wild .. n - 1 \subseteq Wild .. N
        BY <1>1, <1>3, <1>7, <3>1 DEF Wild
      <4>3. /\ h[n].kind = "binop" => h[n].kids[2] \in Wild .. N
            /\ h[n].kind \in OpenEnded \union {"binop"} => h[n].kids[Len(h[n].kids)] \in Wild .. N
        BY <1>9, <3>1, <4>2
      <4> QED
        BY <1>5, <4>1, <4>2, <4>3
    <3>2. CASE n = N + 1
      <4>1. /\ node.kind = "binop" => node.kids[2] \in Wild .. N
            /\ node.kind \in OpenEnded \union {"binop"} => node.kids[Len(node.kids)] \in Wild .. N
        BY KidsAre DEF NodeFits, N
      <4>2. h2[n] = node
        BY <1>3, <3>2
      <4>3. node.kind = "binop" => (node.kids[2] \in O2 <=> node.kids[2] \in O)
        BY <1>5, <4>1
      <4>4. node.kind \in OpenEnded \union {"binop"} =>
              (node.kids[Len(node.kids)] \in E2 <=> node.kids[Len(node.kids)] \in E)
        BY <1>5, <4>1
      <4>5. (n \in O2 <=> NodeOpen(node, O)) /\ (n \in E2 <=> NodeEnds(node, E))
        BY <1>5, <3>2
      <4>6. n \in O2 <=> \/ node.kind \in OpenEnded
                         \/ node.kind = "binop" /\ node.kids[2] \in O2
        BY <4>3, <4>5 DEF NodeOpen
      <4>7. n \in E2 <=> \/ node.kind = "if" /\ node.kids[3] = NULL
                         \/ /\ node.kind \in OpenEnded \union {"binop"}
                            /\ node.kids[Len(node.kids)] \in E2
        BY <4>4, <4>5 DEF NodeEnds
      <4> QED
        BY <4>2, <4>6, <4>7
    <3> QED
      BY <1>1, <3>1, <3>2
  <2> QED
    BY <1>3, <1>5, <2>1 DEF Colors
<1>11. \A v \in Wild .. N : /\ v > 0 => h2[v] = h[v]
                            /\ InfixAt(h2, v) <=> InfixAt(h, v)
  BY <1>6, InfixGrows DEF N
<1>12. BindsWell(h2, g, O2, E2)
  <2>1. ASSUME NEW n \in 1 .. N, InfixAt(h2, n)
        PROVE  LET l == h2[n].kids[1]  r == h2[n].kids[2] IN
               /\ l \notin O2
               /\ InfixAt(h2, l) => get_infix_bp(h2[l].op) >= get_infix_bp(h2[n].op)
               /\ InfixAt(h2, r) => get_infix_bp(h2[r].op) > get_infix_bp(h2[n].op)
    <3> DEFINE l == h[n].kids[1]
               r == h[n].kids[2]
    <3>1. n \in Wild .. N /\ n > 0 /\ Wild .. n - 1 \subseteq Wild .. N
      BY <1>1, <1>7 DEF Wild
    <3>2. h2[n] = h[n] /\ InfixAt(h, n)
      BY <1>11, <2>1, <3>1
    <3>3. h[n].kind = "binop"
      BY <3>2 DEF InfixAt
    <3>4. l \in Wild .. N /\ r \in Wild .. N
      BY <1>9, <3>1, <3>3
    <3>5. /\ l \notin O
          /\ InfixAt(h, l) => get_infix_bp(h[l].op) >= get_infix_bp(h[n].op)
          /\ InfixAt(h, r) => get_infix_bp(h[r].op) > get_infix_bp(h[n].op)
      BY <1>1, <3>2 DEF BindsWell
    <3> HIDE DEF l, r
    <3>6. /\ l \notin O2
          /\ InfixAt(h2, l) => InfixAt(h, l) /\ h2[l] = h[l]
          /\ InfixAt(h2, r) => InfixAt(h, r) /\ h2[r] = h[r]
      BY <1>5, <1>11, <3>4, <3>5 DEF InfixAt
    <3>7. /\ InfixAt(h2, l) => get_infix_bp(h2[l].op) >= get_infix_bp(h2[n].op)
          /\ InfixAt(h2, r) => get_infix_bp(h2[r].op) > get_infix_bp(h2[n].op)
      BY <3>2, <3>5, <3>6
    <3> QED
      BY <3>2, <3>6, <3>7 DEF l, r
  <2>2. ASSUME NEW n \in 1 .. N, g, h2[n].kind = "if", h2[n].kids[3] # NULL
        PROVE  h2[n].kids[2] \notin E2
    <3>1. h2[n] = h[n] /\ h[n].kids[2] \notin E
      BY <1>1, <1>3, <2>2 DEF BindsWell
    <3>2. h[n].kids[2] \in Wild .. N
      BY <1>7, <1>9, <2>2, <3>1
    <3> QED
      BY <1>5, <3>1, <3>2
  <2>3. ASSUME InfixAt(h2, N + 1)
        PROVE  LET l == node.kids[1]  r == node.kids[2] IN
               /\ l \notin O2
               /\ InfixAt(h2, l) => get_infix_bp(h2[l].op) >= get_infix_bp(node.op)
               /\ InfixAt(h2, r) => get_infix_bp(h2[r].op) > get_infix_bp(node.op)
    <3> DEFINE l == node.kids[1]
               r == node.kids[2]
    <3>1. node.kind = "binop" /\ ~ (l > 0 /\ h2[l].kind = "zero")
      BY <1>3, <2>3 DEF InfixAt
    <3>2. l \in Wild .. N /\ r \in Wild .. N
      BY <3>1, KidsAre DEF NodeFits, N
    <3>3. ~ (l > 0 /\ h[l].kind = "zero")
      BY <1>11, <3>1, <3>2
    <3>4. /\ l \notin O
          /\ InfixAt(h, l) => get_infix_bp(h[l].op) >= get_infix_bp(node.op)
          /\ InfixAt(h, r) => get_infix_bp(h[r].op) > get_infix_bp(node.op)
      BY <3>1, <3>3 DEF NodeFits
    <3> HIDE DEF l, r
    <3>6. /\ l \notin O2
          /\ InfixAt(h2, l) => InfixAt(h, l) /\ h2[l] = h[l]
          /\ InfixAt(h2, r) => InfixAt(h, r) /\ h2[r] = h[r]
      BY <1>5, <1>11, <3>2, <3>4 DEF InfixAt
    <3>7. /\ InfixAt(h2, l) => get_infix_bp(h2[l].op) >= get_infix_bp(node.op)
          /\ InfixAt(h2, r) => get_infix_bp(h2[r].op) > get_infix_bp(node.op)
      BY <3>4, <3>6
    <3> QED
      BY <3>6, <3>7 DEF l, r
  <2>4. ASSUME g, node.kind = "if", node.kids[3] # NULL PROVE node.kids[2] \notin E2
    <3>1. node.kids[2] \in Wild .. N /\ node.kids[2] \notin E
      BY <2>4, KidsAre DEF NodeFits, N
    <3> QED
      BY <1>5, <3>1
  <2> QED
    BY <1>1, <1>3, <2>1, <2>2, <2>3, <2>4 DEF BindsWell
<1> QED
  BY <1>5, <1>6, <1>8, <1>10, <1>12 DEF Added, N, h2
-----------------------------------------------------------------------------
(* What a call d may return to the one below it. *)
Returns(d, v, h, g, t, O, E) ==
  /\ Operand(v, h, g, t, O, E)
  /\ d.fn = "expr" =>
       /\ get_infix_bp(t) <= d.min
       /\ InfixAt(h, v) => get_infix_bp(h[v].op) > d.min
  /\ d.fn # "expr" => ~ InfixAt(h, v)

(* What a caller is after it has taken a value.                            *)
LEMMA TookIs ==
  ASSUME NEW values, NEW c \in Frames(values), NEW v
  PROVE  /\ Took(c, v).fn = c.fn /\ Took(c, v).todo = c.todo /\ Took(c, v).min = c.min
         /\ Took(c, v).op = c.op
         /\ Took(c, v).kids \in {c.kids, Append(c.kids, v)}
         /\ c.fn \notin {"seq", "call", "let"} => Took(c, v).kids = Append(c.kids, v)
BY DEF Took, Frames

(* What the children are after one more.                                   *)
LEMMA KidsAppended ==
  ASSUME NEW S, NEW kids \in Seq(S), NEW v
  PROVE  /\ kids = <<>> => Len(Append(kids, v)) = 1 /\ Append(kids, v)[1] = v
         /\ Len(kids) = 1 =>
              Len(Append(kids, v)) = 2 /\ Append(kids, v)[1] = kids[1] /\ Append(kids, v)[2] = v
         /\ Len(kids) = 2 =>
              /\ Len(Append(kids, v)) = 3 /\ Append(kids, v)[1] = kids[1]
              /\ Append(kids, v)[2] = kids[2] /\ Append(kids, v)[3] = v
         /\ Append(kids, v) # <<>> /\ Append(kids, v)[Len(Append(kids, v))] = v
         /\ kids # <<>> => Append(kids, v)[1] = kids[1]
<1>1. kids \in Seq(S \union {v})
  OBVIOUS
<1>2. /\ Len(kids) \in Nat /\ Len(Append(kids, v)) = Len(kids) + 1
      /\ Append(kids, v)[Len(kids) + 1] = v
      /\ \A i \in 1 .. Len(kids) : Append(kids, v)[i] = kids[i]
  BY <1>1
<1>9. Append(kids, v) # <<>>
  <2>1. Len(Append(kids, v)) # 0 /\ Len(<<>>) = 0
    BY <1>2
  <2> QED
    BY <2>1
<1>3. (kids = <<>> => Len(kids) = 0) /\ (kids # <<>> => 1 \in 1 .. Len(kids))
  OBVIOUS
<1>4. (Len(kids) = 1 => 1 \in 1 .. Len(kids)) /\ (Len(kids) = 2 => 1 \in 1 .. Len(kids) /\ 2 \in 1 .. Len(kids))
  OBVIOUS
<1>5. kids = <<>> => Len(Append(kids, v)) = 1 /\ Append(kids, v)[1] = v
  BY <1>2, <1>3
<1>6. Len(kids) = 1 =>
        Len(Append(kids, v)) = 2 /\ Append(kids, v)[1] = kids[1] /\ Append(kids, v)[2] = v
  BY <1>2, <1>4
<1>7. Len(kids) = 2 =>
              /\ Len(Append(kids, v)) = 3 /\ Append(kids, v)[1] = kids[1]
              /\ Append(kids, v)[2] = kids[2] /\ Append(kids, v)[3] = v
  BY <1>2, <1>4
<1>8. kids # <<>> => Append(kids, v)[1] = kids[1]
  BY <1>2, <1>3
<1> QED
  BY <1>2, <1>5, <1>6, <1>7, <1>8, <1>9

(* A call that waited for d goes on in shape with what d returned.         *)
LEMMA TookWorks ==
  ASSUME NEW values, NEW c \in Frames(values), NEW d, NEW v,
         NEW h, NEW g, NEW t, NEW O, NEW E,
         Typed(c, h), Typed(d, h), Waiting(c, h, g, O, E), Above(c, d), Returns(d, v, h, g, t, O, E)
  PROVE  /\ Typed(Took(c, v), h)
         /\ Working(Took(c, v), h, g, t, O, E)
         /\ Took(c, v).fn = c.fn /\ Took(c, v).min = c.min
<1> DEFINE n == Took(c, v)
<1>1. /\ n.fn = c.fn /\ n.todo = c.todo /\ n.min = c.min /\ n.op = c.op
      /\ n.kids \in {c.kids, Append(c.kids, v)}
      /\ c.fn \notin {"seq", "call", "let"} => n.kids = Append(c.kids, v)
  BY TookIs
<1> HIDE DEF n
<1>2. c.kids \in Seq(Wild .. Len(h)) /\ v \in Wild .. Len(h)
  BY DEF Typed, Returns, Operand
<1>3. Typed(n, h)
  <2>1. Append(c.kids, v) \in Seq(Wild .. Len(h))
    BY <1>2, KidsAre
  <2>2. n.kids \in Seq(Wild .. Len(h))
    BY <1>1, <1>2, <2>1
  <2> QED
    BY <1>1, <2>2 DEF Typed
<1> SUFFICES Working(n, h, g, t, O, E)
  BY <1>1, <1>3 DEF n
<1>4. /\ c.kids = <<>> => Len(Append(c.kids, v)) = 1 /\ Append(c.kids, v)[1] = v
      /\ Len(c.kids) = 1 =>
           /\ Len(Append(c.kids, v)) = 2 /\ Append(c.kids, v)[1] = c.kids[1]
           /\ Append(c.kids, v)[2] = v
      /\ Len(c.kids) = 2 =>
           /\ Len(Append(c.kids, v)) = 3 /\ Append(c.kids, v)[1] = c.kids[1]
           /\ Append(c.kids, v)[2] = c.kids[2] /\ Append(c.kids, v)[3] = v
      /\ Append(c.kids, v) # <<>> /\ Append(c.kids, v)[Len(Append(c.kids, v))] = v
      /\ c.kids # <<>> => Append(c.kids, v)[1] = c.kids[1]
  BY <1>2, KidsAppended
<1>5. CASE c.fn = "expr"
  <2>1. n.kids = Append(c.kids, v)
    BY <1>1, <1>5
  <2>2. CASE c.todo = <<"infix">> /\ c.kids = <<>>
    <3>1. d.fn # "expr"
      BY <1>5, <2>2 DEF Above
    <3>2. Operand(v, h, g, t, O, E) /\ ~ InfixAt(h, v)
      BY <3>1 DEF Returns
    <3>3. WorkingExpr(n, h, g, t, O, E)
      BY <1>1, <1>4, <2>1, <2>2, <3>2 DEF WorkingExpr
    <3> QED
      BY <1>1, <1>5, <3>3 DEF Working, Bodies
  <2>3. CASE c.todo = <<"combine", "infix">> /\ Len(c.kids) = 1 /\ Left(c, h, O)
    <3>1. d.fn = "expr" /\ d.min = get_infix_bp(c.op) + 1
      BY <1>5, <2>3 DEF Above
    <3>2. /\ Operand(v, h, g, t, O, E)
          /\ get_infix_bp(t) <= get_infix_bp(c.op) + 1
          /\ InfixAt(h, v) => get_infix_bp(h[v].op) > get_infix_bp(c.op) + 1
      BY <3>1 DEF Returns
    <3>3. get_infix_bp(t) <= get_infix_bp(c.op)
      BY <3>2, PowersAreEven
    <3>4. InfixAt(h, v) => get_infix_bp(h[v].op) > get_infix_bp(c.op)
      BY <3>2, PowersAreEven
    <3>5. n.kids[1] = c.kids[1] /\ n.kids[2] = v /\ Len(n.kids) = 2
      BY <1>4, <2>1, <2>3
    <3>6. Left(n, h, O)
      BY <1>1, <2>3, <3>5 DEF Left
    <3>7. WorkingExpr(n, h, g, t, O, E)
      BY <1>1, <2>3, <3>2, <3>3, <3>4, <3>5, <3>6 DEF WorkingExpr
    <3> QED
      BY <1>1, <1>5, <3>7 DEF Working, Bodies
  <2> QED
    BY <1>5, <2>2, <2>3 DEF Waiting
<1>6. CASE c.fn = "minus"
  <2>1. n.kids = Append(c.kids, v) /\ c.todo = <<>> /\ c.kids = <<>>
    BY <1>1, <1>6 DEF Waiting
  <2>2. Operand(v, h, g, t, O, E)
    BY DEF Returns
  <2> QED
    BY <1>1, <1>4, <1>6, <2>1, <2>2 DEF Working, Bodies
<1>7. CASE c.fn = "if"
  <2>1. n.kids = Append(c.kids, v) /\ d.fn = "expr" /\ d.min = 0
    BY <1>1, <1>7 DEF Above
  <2>2. Operand(v, h, g, t, O, E) /\ get_infix_bp(t) <= 0
    BY <2>1 DEF Returns
  <2>3. get_infix_bp(t) = 0
    BY <2>2, PowersAreEven
  <2> SUFFICES WorkingIf(n, h, g, t, O, E)
    BY <1>1, <1>7 DEF Working, Bodies
  <2>4. CASE c.todo = <<"THEN", "expr", "else">> /\ c.kids = <<>>
    BY <1>1, <1>4, <2>1, <2>4 DEF WorkingIf
  <2>5. CASE c.todo = <<"else">> /\ Len(c.kids) = 1
    BY <1>1, <1>4, <2>1, <2>2, <2>3, <2>5 DEF WorkingIf
  <2>6. CASE c.todo = <<>> /\ Len(c.kids) = 2 /\ (g => c.kids[2] \notin E)
    <3>1. Len(n.kids) = 3 /\ n.kids[2] = c.kids[2] /\ n.kids[3] = v
      BY <1>4, <2>1, <2>6
    <3>2. g => v # NULL /\ (v \in E => t # "ELSE")
      BY <2>2 DEF Operand
    <3> QED
      BY <1>1, <2>3, <2>6, <3>1, <3>2 DEF WorkingIf
  <2> QED
    BY <1>7, <2>4, <2>5, <2>6 DEF Waiting
<1>8. CASE c.fn \in Bodies
  <2>1. n.kids = Append(c.kids, v) /\ d.fn = "expr" /\ d.min = 0
    BY <1>1, <1>8 DEF Above, Bodies
  <2>2. Operand(v, h, g, t, O, E) /\ get_infix_bp(t) <= 0
    BY <2>1 DEF Returns
  <2>3. get_infix_bp(t) = 0
    BY <2>2, PowersAreEven
  <2>4. c.todo = <<>> \/ (c.todo # <<>> /\ c.todo[Len(c.todo)] = "expr")
    BY <1>8 DEF Waiting
  <2>5. n.kids # <<>> /\ n.kids[Len(n.kids)] = v
    BY <1>4, <2>1
  <2> QED
    BY <1>1, <1>8, <2>2, <2>3, <2>4, <2>5 DEF Working, Bodies
<1>9. CASE c.fn = "lvalue"
  <2>1. n.kids = Append(c.kids, v) /\ c.kids # <<>> /\ c.kids[1] \in Names(h)
    BY <1>1, <1>9 DEF Waiting
  <2>2. n.kids # <<>> /\ n.kids[1] \in Names(h)
    BY <1>4, <2>1
  <2> QED
    BY <1>1, <1>9, <2>2 DEF Working, Bodies
<1>10. CASE c.fn \notin {"expr", "minus", "if", "lvalue"} \union Bodies
  BY <1>1, <1>10 DEF Working
<1> QED
  BY <1>5, <1>6, <1>7, <1>8, <1>9, <1>10
-----------------------------------------------------------------------------
(* A sequence whose last element is replaced.                              *)
LEMMA EndSet ==
  ASSUME NEW S, NEW s \in Seq(S), s # <<>>, NEW c
  PROVE  /\ [s EXCEPT ![Len(s)] = c][Len(s)] = c
         /\ \A i \in 1 .. Len(s) - 1 : [s EXCEPT ![Len(s)] = c][i] = s[i]
<1>1. Len(s) \in DOMAIN s /\ \A i \in 1 .. Len(s) - 1 : i \in DOMAIN s /\ i # Len(s)
  OBVIOUS
<1> QED
  BY <1>1

(* The calls are as they should be after the top one has gone on, ... *)
LEMMA TopSet ==
  ASSUME NEW S, NEW s \in Seq(S), s # <<>>,
         NEW h, NEW g, NEW t, NEW O, NEW E, Nodes(h), CallsOK(s, h, g, t, O, E),
         NEW h2, NEW g2, NEW t2, NEW O2, NEW E2, Nodes(h2), Grows(h, O, E, h2, O2, E2), g2 => g,
         NEW c, Typed(c, h2), Working(c, h2, g2, t2, O2, E2),
         c.min = s[Len(s)].min, c.fn = "expr" <=> s[Len(s)].fn = "expr"
  PROVE  CallsOK([s EXCEPT ![Len(s)] = c], h2, g2, t2, O2, E2)
<1> DEFINE s2 == [s EXCEPT ![Len(s)] = c]
           N == Len(s)
<1>1. N \in Nat \ {0} /\ DOMAIN s = 1 .. N
  OBVIOUS
<1>2. Len(s2) = N /\ DOMAIN s2 = 1 .. N /\ s2 # <<>>
  <2>1. s2 \in Seq(S \union {c})
    <3>1. s \in Seq(S \union {c})
      OBVIOUS
    <3> QED
      BY <3>1
  <2> QED
    BY <1>1, <2>1
<1>3. s2[N] = c /\ \A i \in 1 .. N - 1 : s2[i] = s[i]
  BY EndSet
<1> HIDE DEF s2, N
<1>4. \A i \in 1 .. N - 1 : /\ Typed(s[i], h) /\ Waiting(s[i], h, g, O, E)
                            /\ Above(s[i], s[i + 1])
  BY <1>1 DEF CallsOK, N
<1>5. \A i \in 1 .. N - 1 : Typed(s[i], h2) /\ Waiting(s[i], h2, g2, O2, E2)
  BY <1>4, WaitingGrows
<1>6. \A i \in DOMAIN s2 : Typed(s2[i], h2)
  <2> SUFFICES ASSUME NEW i \in 1 .. N PROVE Typed(s2[i], h2)
    BY <1>2
  <2>1. i = N \/ i \in 1 .. N - 1
    BY <1>1
  <2> QED
    BY <1>3, <1>5, <2>1
<1>7. ASSUME NEW i \in 1 .. N - 1
      PROVE  Waiting(s2[i], h2, g2, O2, E2) /\ Above(s2[i], s2[i + 1])
  <2>1. Waiting(s2[i], h2, g2, O2, E2) /\ Above(s[i], s[i + 1]) /\ s2[i] = s[i]
    BY <1>3, <1>4, <1>5
  <2>2. CASE i + 1 = N
    <3>1. s2[i + 1] = c /\ s[i + 1] = s[N]
      BY <1>3, <2>2
    <3> QED
      BY <2>1, <3>1 DEF Above, N
  <2>3. CASE i + 1 \in 1 .. N - 1
    BY <1>3, <2>1, <2>3
  <2> QED
    BY <1>1, <2>2, <2>3
<1> QED
  BY <1>2, <1>3, <1>6, <1>7 DEF CallsOK, s2, N

(* ... after it has called another, ... *)
LEMMA TopCalls ==
  ASSUME NEW S, NEW s \in Seq(S), s # <<>>,
         NEW h, NEW g, NEW t, NEW O, NEW E, CallsOK(s, h, g, t, O, E),
         NEW c, Typed(c, h), Waiting(c, h, g, O, E),
         c.min = s[Len(s)].min, c.fn = "expr" <=> s[Len(s)].fn = "expr",
         NEW d, NEW t2, Typed(d, h), Working(d, h, g, t2, O, E), Above(c, d)
  PROVE  CallsOK(Append([s EXCEPT ![Len(s)] = c], d), h, g, t2, O, E)
<1> DEFINE s2 == Append([s EXCEPT ![Len(s)] = c], d)
           N == Len(s)
<1>1. N \in Nat \ {0} /\ DOMAIN s = 1 .. N
  OBVIOUS
<1>2. /\ Len(s2) = N + 1 /\ DOMAIN s2 = 1 .. N + 1 /\ s2 # <<>>
      /\ s2[N + 1] = d /\ s2[N] = c /\ \A i \in 1 .. N - 1 : s2[i] = s[i]
  <2> DEFINE s1 == [s EXCEPT ![Len(s)] = c]
             T == S \union {c, d}
  <2>1. s1 \in Seq(T) /\ Len(s1) = N /\ d \in T
    <3>1. s \in Seq(T)
      OBVIOUS
    <3> QED
      BY <3>1
  <2>2. s1[N] = c /\ \A i \in 1 .. N - 1 : s1[i] = s[i]
    BY EndSet
  <2> HIDE DEF s1, T, N
  <2>3. /\ Append(s1, d) \in Seq(T) /\ Len(Append(s1, d)) = N + 1
        /\ Append(s1, d)[N + 1] = d /\ \A i \in 1 .. N : Append(s1, d)[i] = s1[i]
    BY <2>1
  <2>4. \A i \in 1 .. N - 1 : i \in 1 .. N
    BY <1>1
  <2> QED
    BY <1>1, <2>2, <2>3, <2>4 DEF s1
<1> HIDE DEF s2, N
<1>3. \A i \in 1 .. N - 1 : /\ Typed(s[i], h) /\ Waiting(s[i], h, g, O, E)
                            /\ Above(s[i], s[i + 1])
  BY <1>1 DEF CallsOK, N
<1>4. \A i \in DOMAIN s2 : Typed(s2[i], h)
  <2> SUFFICES ASSUME NEW i \in 1 .. N + 1 PROVE Typed(s2[i], h)
    BY <1>2
  <2>1. i = N + 1 \/ i = N \/ i \in 1 .. N - 1
    BY <1>1
  <2> QED
    BY <1>2, <1>3, <2>1
<1>5. ASSUME NEW i \in 1 .. N
      PROVE  Waiting(s2[i], h, g, O, E) /\ Above(s2[i], s2[i + 1])
  <2>1. CASE i = N
    BY <1>2, <2>1
  <2>2. CASE i \in 1 .. N - 1 /\ i + 1 = N
    <3>1. Waiting(s[i], h, g, O, E) /\ Above(s[i], s[N]) /\ s2[i] = s[i] /\ s2[i + 1] = c
      BY <1>2, <1>3, <2>2
    <3> QED
      BY <3>1 DEF Above, N
  <2>3. CASE i \in 1 .. N - 1 /\ i + 1 \in 1 .. N - 1
    BY <1>2, <1>3, <2>3
  <2> QED
    BY <1>1, <2>1, <2>2, <2>3
<1>6. (N + 1) - 1 = N
  BY <1>1
<1> QED
  BY <1>2, <1>4, <1>5, <1>6 DEF CallsOK, s2, N

(* s2 is the calls s after the top one has returned v. *)
Popped(s, v, s2) ==
  s2 = [i \in 1 .. Len(s) - 1 |-> IF i = Len(s) - 1 THEN Took(s[i], v) ELSE s[i]]

(* ... and after it has returned. *)
LEMMA TopReturns ==
  ASSUME NEW values, NEW s \in Seq(Frames(values)), s # <<>>, NEW s2,
         NEW h, NEW g, NEW t, NEW O, NEW E, Nodes(h), CallsOK(s, h, g, t, O, E),
         NEW h2, NEW g2, NEW t2, NEW O2, NEW E2, Nodes(h2), Grows(h, O, E, h2, O2, E2), g2 => g,
         NEW v, Popped(s, v, s2), Returns(s[Len(s)], v, h2, g2, t2, O2, E2)
  PROVE  CallsOK(s2, h2, g2, t2, O2, E2)
<1> DEFINE M == Len(s) - 1
<1>1. M \in Nat /\ DOMAIN s = 1 .. M + 1 /\ Len(s) = M + 1
  OBVIOUS
<1>11. s2 = [i \in 1 .. M |-> IF i = M THEN Took(s[i], v) ELSE s[i]]
  BY DEF Popped
<1> HIDE DEF M
<1>2. Len(s2) = M /\ DOMAIN s2 = 1 .. M
  BY <1>1, <1>11
<1>3. \A i \in 1 .. M : s2[i] = IF i = M THEN Took(s[i], v) ELSE s[i]
  BY <1>11
<1>4. \A i \in 1 .. M : /\ Typed(s[i], h) /\ Waiting(s[i], h, g, O, E) /\ Above(s[i], s[i + 1])
                        /\ s[i] \in Frames(values)
  BY <1>1 DEF CallsOK, M
<1>5. \A i \in 1 .. M : Typed(s[i], h2) /\ Waiting(s[i], h2, g2, O2, E2)
  BY <1>4, WaitingGrows
<1>6. Typed(s[M + 1], h2)
  <2>1. Typed(s[M + 1], h)
    BY <1>1 DEF CallsOK
  <2>2. Wild .. Len(h) \subseteq Wild .. Len(h2)
    <3>1. Len(h) \in Nat /\ Len(h2) \in Nat /\ Len(h) <= Len(h2)
      BY HeapIsSeq DEF Grows
    <3> QED
      BY <3>1 DEF Wild
  <2>3. s[M + 1].kids \in Seq(Wild .. Len(h2))
    BY <2>1, <2>2, KidsAre DEF Typed
  <2> QED
    BY <2>1, <2>3 DEF Typed
<1>7. ASSUME M # 0
      PROVE  /\ Typed(s2[M], h2) /\ Working(s2[M], h2, g2, t2, O2, E2)
             /\ s2[M].fn = s[M].fn /\ s2[M].min = s[M].min
  <2>1. M \in 1 .. M /\ s2[M] = Took(s[M], v)
    BY <1>1, <1>3, <1>7
  <2> HIDE DEF M
  <2>2. /\ s[M] \in Frames(values) /\ Typed(s[M], h2) /\ Waiting(s[M], h2, g2, O2, E2)
        /\ Above(s[M], s[M + 1])
    BY <1>4, <1>5, <2>1
  <2> QED
    BY <1>1, <1>6, <2>1, <2>2, TookWorks
<1>8. \A i \in DOMAIN s2 : Typed(s2[i], h2)
  <2> SUFFICES ASSUME NEW i \in 1 .. M PROVE Typed(s2[i], h2)
    BY <1>2
  <2>1. (i = M /\ M # 0) \/ (i # M /\ s2[i] = s[i])
    BY <1>1, <1>3
  <2> QED
    BY <1>5, <1>7, <2>1
<1>9. ASSUME NEW i \in 1 .. M - 1
      PROVE  Waiting(s2[i], h2, g2, O2, E2) /\ Above(s2[i], s2[i + 1])
  <2>1. i \in 1 .. M /\ i + 1 \in 1 .. M /\ i # M /\ M # 0
    BY <1>1
  <2>2. Waiting(s[i], h2, g2, O2, E2) /\ Above(s[i], s[i + 1]) /\ s2[i] = s[i]
    BY <1>3, <1>4, <1>5, <2>1
  <2>3. s2[i + 1].fn = s[i + 1].fn /\ s2[i + 1].min = s[i + 1].min
    BY <1>3, <1>7, <2>1
  <2> QED
    BY <2>2, <2>3 DEF Above
<1>10. s2 # <<>> => M # 0
  BY <1>1, <1>2
<1> QED
  BY <1>2, <1>7, <1>8, <1>9, <1>10 DEF CallsOK

(* The same, of the calls under way. *)
LEMMA StackReturns ==
  ASSUME NEW values, stack \in Seq(Frames(values)), stack # <<>>,
         NEW O, NEW E, Nodes(heap), CallsOK(stack, heap, Good, current, O, E),
         NEW g2, g2 => Good, NEW O2, NEW E2, Nodes(heap'), Grows(heap, O, E, heap', O2, E2),
         NEW v, Return(v), Returns(Top, v, heap', g2, current, O2, E2)
  PROVE  CallsOK(stack', heap', g2, current, O2, E2)
<1>1. Popped(stack, v, stack')
  BY DEF Return, Popped
<1>2. Returns(stack[Len(stack)], v, heap', g2, current, O2, E2)
  BY DEF Top
<1> QED
  BY <1>1, <1>2, TopReturns
-----------------------------------------------------------------------------
(* The parser between two steps, with the colors O and E. *)
Between(O, E) ==
  /\ stack # <<>> /\ \E values : stack \in Seq(Frames(values))
  /\ World(stack, heap, Good, current, O, E)

(* A heap that stays as it is grows by nothing, ...                        *)
LEMMA GrowsNot == ASSUME NEW h, NEW O, NEW E, Nodes(h) PROVE Grows(h, O, E, h, O, E)
<1>1. Len(h) \in Nat
  BY HeapIsSeq
<1> QED
  BY <1>1 DEF Grows

(* ... and binds no worse when an error is noted.                          *)
LEMMA BindsWellStill ==
  ASSUME NEW h, NEW g, NEW g2, g2 => g, NEW O, NEW E, BindsWell(h, g, O, E)
  PROVE  BindsWell(h, g2, O, E)
BY DEF BindsWell

(* The top call goes on; ... *)
LEMMA GoesOn ==
  ASSUME NEW O, NEW E, Between(O, E), NEW c, stack' = [stack EXCEPT ![Len(stack)] = c],
         heap' = heap, Good' => Good, Typed(c, heap), Working(c, heap, Good', current', O, E),
         c.min = Top.min, c.fn = "expr" <=> Top.fn = "expr"
  PROVE  Shaped'
<1>1. PICK values : stack \in Seq(Frames(values))
  BY DEF Between
<1>2. stack # <<>> /\ World(stack, heap, Good, current, O, E) /\ Grows(heap, O, E, heap, O, E)
  BY GrowsNot DEF Between, World
<1>3. CallsOK(stack', heap, Good', current', O, E)
  BY <1>1, <1>2, TopSet DEF World, Top
<1>4. BindsWell(heap, Good', O, E)
  BY <1>2, BindsWellStill DEF World
<1> QED
  BY <1>2, <1>3, <1>4 DEF Shaped, World

(* ... it makes a node and goes on; ... *)
LEMMA GoesOnWith ==
  ASSUME NEW O, NEW E, Between(O, E), NEW c, stack' = [stack EXCEPT ![Len(stack)] = c],
         NEW node, heap' = Append(heap, node), NodeFits(node, heap, Good, O, E),
         UNCHANGED <<failed, hole>>,
         \A O2, E2 : Added(heap, Good, O, E, node, O2, E2) =>
           Typed(c, heap') /\ Working(c, heap', Good, current', O2, E2),
         c.min = Top.min, c.fn = "expr" <=> Top.fn = "expr"
  PROVE  Shaped'
<1>1. PICK values : stack \in Seq(Frames(values))
  BY DEF Between
<1>2. stack # <<>> /\ World(stack, heap, Good, current, O, E)
  BY DEF Between
<1>3. Nodes(heap) /\ Colors(heap, O, E) /\ BindsWell(heap, Good, O, E)
  BY <1>2 DEF World
<1>4. PICK O2, E2 : Added(heap, Good, O, E, node, O2, E2)
  BY <1>3, NodeAdded
<1>5. Typed(c, heap') /\ Working(c, heap', Good, current', O2, E2)
  BY <1>4
<1>6. /\ Nodes(heap') /\ Colors(heap', O2, E2) /\ BindsWell(heap', Good, O2, E2)
      /\ Grows(heap, O, E, heap', O2, E2)
  BY <1>4 DEF Added
<1>7. Good' = Good
  BY DEF Good
<1>8. CallsOK(stack', heap', Good, current', O2, E2)
  BY <1>1, <1>2, <1>3, <1>5, <1>6, TopSet DEF World, Top
<1> QED
  BY <1>6, <1>7, <1>8 DEF Shaped, World

(* ... it waits for another; ... *)
LEMMA CallsAnother ==
  ASSUME NEW O, NEW E, Between(O, E), NEW c, NEW d,
         stack' = Append([stack EXCEPT ![Len(stack)] = c], d),
         UNCHANGED <<heap, failed, hole>>,
         Typed(c, heap), Waiting(c, heap, Good, O, E), Typed(d, heap),
         Working(d, heap, Good, current', O, E), Above(c, d),
         c.min = Top.min, c.fn = "expr" <=> Top.fn = "expr"
  PROVE  Shaped'
<1>1. PICK values : stack \in Seq(Frames(values))
  BY DEF Between
<1>2. stack # <<>> /\ World(stack, heap, Good, current, O, E)
  BY DEF Between
<1>3. CallsOK(stack', heap, Good, current', O, E)
  BY <1>1, <1>2, TopCalls DEF World, Top
<1>4. Good' = Good
  BY DEF Good
<1> QED
  BY <1>2, <1>3, <1>4 DEF Shaped, World

(* ... it returns; ... *)
LEMMA ReturnsOn ==
  ASSUME NEW O, NEW E, Between(O, E), NEW v, Return(v), UNCHANGED <<heap, current>>,
         Good' => Good, Returns(Top, v, heap, Good', current, O, E)
  PROVE  Shaped'
<1>1. PICK values : stack \in Seq(Frames(values))
  BY DEF Between
<1>2. stack # <<>> /\ World(stack, heap, Good, current, O, E) /\ Grows(heap, O, E, heap, O, E)
  BY GrowsNot DEF Between, World
<1>3. CallsOK(stack', heap, Good', current, O, E)
  <2>1. Nodes(heap) /\ CallsOK(stack, heap, Good, current, O, E)
    BY <1>2 DEF World
  <2>2. /\ Nodes(heap') /\ Grows(heap, O, E, heap', O, E)
        /\ Returns(Top, v, heap', Good', current, O, E)
    BY <1>2, <2>1
  <2>3. CallsOK(stack', heap', Good', current, O, E)
    BY <1>1, <1>2, <2>1, <2>2, StackReturns
  <2> QED
    BY <2>3
<1>4. BindsWell(heap, Good', O, E)
  BY <1>2, BindsWellStill DEF World
<1> QED
  BY <1>2, <1>3, <1>4 DEF Shaped, World

(* ... it returns a node that it has made. *)
LEMMA ReturnsWith ==
  ASSUME NEW O, NEW E, Between(O, E), NEW node, ReturnNode(node),
         NodeFits(node, heap, Good, O, E), UNCHANGED <<current, failed, hole>>,
         \A O2, E2 : Added(heap, Good, O, E, node, O2, E2) =>
           Returns(Top, Len(heap) + 1, heap', Good, current, O2, E2)
  PROVE  Shaped'
<1>1. PICK values : stack \in Seq(Frames(values))
  BY DEF Between
<1>2. stack # <<>> /\ World(stack, heap, Good, current, O, E)
  BY DEF Between
<1>3. Nodes(heap) /\ Colors(heap, O, E) /\ BindsWell(heap, Good, O, E)
  BY <1>2 DEF World
<1>4. PICK O2, E2 : Added(heap, Good, O, E, node, O2, E2)
  BY <1>3, NodeAdded
<1>5. heap' = Append(heap, node) /\ Return(Len(heap) + 1)
  BY DEF ReturnNode
<1>6. /\ Nodes(heap') /\ Colors(heap', O2, E2) /\ BindsWell(heap', Good, O2, E2)
      /\ Grows(heap, O, E, heap', O2, E2) /\ Returns(Top, Len(heap) + 1, heap', Good, current, O2, E2)
  BY <1>4, <1>5 DEF Added
<1>7. Good' = Good /\ current' = current
  BY DEF Good
<1>8. CallsOK(stack', heap', Good, current, O2, E2)
  <2>1. stack # <<>> /\ Nodes(heap) /\ CallsOK(stack, heap, Good, current, O, E)
    BY <1>2 DEF World
  <2> QED
    BY <1>1, <1>5, <1>6, <2>1, StackReturns
<1> QED
  BY <1>6, <1>7, <1>8 DEF Shaped, World
-----------------------------------------------------------------------------
(* The top call, and what it becomes. *)
LEMMA TopIs ==
  ASSUME NEW O, NEW E, Between(O, E)
  PROVE  /\ \E values : Top \in Frames(values)
         /\ Typed(Top, heap) /\ Working(Top, heap, Good, current, O, E)
         /\ Nodes(heap) /\ Colors(heap, O, E)
         /\ Len(stack) \in DOMAIN stack
<1>1. PICK values : stack \in Seq(Frames(values))
  BY DEF Between
<1>2. stack # <<>> /\ Len(stack) \in DOMAIN stack
  BY <1>1 DEF Between
<1>3. Top \in Frames(values)
  BY <1>1, <1>2 DEF Top
<1> QED
  BY <1>2, <1>3 DEF Between, World, CallsOK, Top

(* c is b but for what it has to do and its kids. *)
Like(c, b, todo, kids) ==
  c.fn = b.fn /\ c.min = b.min /\ c.op = b.op /\ c.todo = todo /\ c.kids = kids

(* The top call with other items, as one that replaces it, ...             *)
LEMMA TodoChanged ==
  ASSUME NEW O, NEW E, Between(O, E), NEW todo
  PROVE  \E c : /\ [stack EXCEPT ![Len(stack)].todo = todo] = [stack EXCEPT ![Len(stack)] = c]
                /\ Like(c, Top, todo, Top.kids)
<1>1. PICK values : Top \in Frames(values)
  BY TopIs
<1> DEFINE c == [Top EXCEPT !.todo = todo]
<1>2. Like(c, Top, todo, Top.kids)
  BY <1>1 DEF Like, Frames
<1>3. [stack EXCEPT ![Len(stack)].todo = todo] = [stack EXCEPT ![Len(stack)] = c]
  BY DEF Top
<1> QED
  BY <1>2, <1>3

(* ... and with other children too.                                        *)
LEMMA TodoAndKidsChanged ==
  ASSUME NEW O, NEW E, Between(O, E), NEW todo, NEW kids
  PROVE  \E c : /\ [stack EXCEPT ![Len(stack)].todo = todo, ![Len(stack)].kids = kids]
                     = [stack EXCEPT ![Len(stack)] = c]
                /\ Like(c, Top, todo, kids)
<1>1. (\E values : Top \in Frames(values)) /\ Len(stack) \in DOMAIN stack
  BY TopIs
<1> DEFINE c == [Top EXCEPT !.todo = todo, !.kids = kids]
<1>2. Like(c, Top, todo, kids)
  BY <1>1 DEF Like, Frames
<1>3. [stack EXCEPT ![Len(stack)].todo = todo, ![Len(stack)].kids = kids]
        = [stack EXCEPT ![Len(stack)] = c]
  BY <1>1 DEF Top
<1> QED
  BY <1>2, <1>3
-----------------------------------------------------------------------------
(* Calls of which nothing is asked, and what only they may have to do. *)
PlainCalls == Calls \ ({"expr", "minus", "if", "lvalue"} \union Bodies)
PlainOnly ==
  {"annotation", "comma", "semicolon", "seq semicolon", "no trailing", "params", "args",
   "sequence", "body", "fields", "type fields", "declarations", "ty"}

(* The items of each function, ...                                         *)
LEMMA ItemsHave ==
  /\ ItemsOf("expr") = {"primary", "infix", "combine"}
  /\ ItemsOf("minus") = {"MINUS", "primary"}
  /\ ItemsOf("if") = {"IF", "THEN", "ELSE", "expr", "else"}
  /\ \A fn \in Bodies : ItemsOf(fn) = Readable \union {"expr"}
  /\ ItemsOf("lvalue") = Readable \union {"expr", "suffix", "field", "index"}
  /\ \A fn \in PlainCalls : ItemsOf(fn) = PlainItems
BY DEF ItemsOf, Bodies, PlainCalls

(* ... the kinds of functions, ...                                         *)
LEMMA CallsAre ==
  \A fn \in Calls : \/ fn \in {"expr", "minus", "if", "lvalue"} \/ fn \in Bodies
                    \/ fn \in PlainCalls
BY DEF PlainCalls

(* ... tokens are told from other items, ...                               *)
LEMMA TokensAreNoItems ==
  /\ Readable \cap {"expr", "primary", "infix", "combine", "else", "suffix", "field", "index"} = {}
  /\ Readable \cap PlainOnly = {}
  /\ {"ID", "IF", "THEN", "ELSE", "MINUS"} \subseteq Readable
BY DEF Readable, Keywords, Operators, Punctuation, PlainOnly

(* ... and which functions have an item.                                   *)
LEMMA Owners ==
  ASSUME NEW fn \in Calls, NEW item \in ItemsOf(fn)
  PROVE  /\ item = "primary" => fn \in {"expr", "minus"}
         /\ item \in {"infix", "combine"} => fn = "expr"
         /\ item = "else" => fn = "if"
         /\ item \in {"suffix", "field", "index"} => fn = "lvalue"
         /\ item = "expr" => fn \notin {"expr", "minus"}
         /\ item \in Readable => fn # "expr"
         /\ item = "ID" => fn \notin {"minus", "if"}
         /\ item \in PlainOnly => fn \in PlainCalls
<1>1. {"primary", "infix", "combine", "else", "suffix", "field", "index"} \cap PlainItems = {}
  BY DEF PlainItems
<1>2. CASE fn = "expr"
  BY <1>2, ItemsHave, TokensAreNoItems DEF PlainOnly
<1>3. CASE fn = "minus"
  BY <1>3, ItemsHave DEF PlainOnly
<1>4. CASE fn = "if"
  BY <1>4, ItemsHave DEF PlainOnly
<1>5. CASE fn = "lvalue"
  <2>1. item \in Readable \union {"expr", "suffix", "field", "index"}
    BY <1>5, ItemsHave
  <2>2. item \notin PlainOnly /\ item \notin {"primary", "infix", "combine", "else"}
    BY <2>1, TokensAreNoItems DEF PlainOnly
  <2> QED
    BY <1>5, <2>2
<1>6. CASE fn \in Bodies
  <2>1. item \in Readable \union {"expr"}
    BY <1>6, ItemsHave
  <2>2. item \notin PlainOnly
    BY <2>1, TokensAreNoItems DEF PlainOnly
  <2>3. item \notin {"primary", "infix", "combine", "else", "suffix", "field", "index"}
    BY <2>1, TokensAreNoItems
  <2>4. fn \notin {"expr", "minus", "if"}
    BY <1>6 DEF Bodies
  <2> QED
    BY <2>2, <2>3, <2>4
<1>7. CASE fn \in PlainCalls
  <2>1. item \in PlainItems
    BY <1>7, ItemsHave
  <2>2. fn \notin {"expr", "minus", "if"}
    BY <1>7 DEF PlainCalls
  <2> QED
    BY <1>1, <1>7, <2>1, <2>2
<1> QED
  BY <1>2, <1>3, <1>4, <1>5, <1>6, <1>7, CallsAre

(* The list of items after its first is done.                              *)
LEMMA TodoIs ==
  ASSUME NEW S, NEW todo \in Seq(S), todo # <<>>
  PROVE  /\ Head(todo) \in S /\ Tail(todo) \in Seq(S)
         /\ <<>> \o Tail(todo) = Tail(todo)
         /\ \A items \in Seq(S) : items \o Tail(todo) \in Seq(S)
         /\ todo[Len(todo)] = Head(todo) \/ (Tail(todo) # <<>> /\ Tail(todo)[Len(Tail(todo))] = todo[Len(todo)])
<1>1. /\ Len(todo) \in Nat \ {0} /\ Tail(todo) \in Seq(S) /\ Len(Tail(todo)) = Len(todo) - 1
      /\ Head(todo) = todo[1] /\ Head(todo) \in S
      /\ \A i \in 1 .. Len(todo) - 1 : Tail(todo)[i] = todo[i + 1]
  OBVIOUS
<1>2. CASE Len(todo) = 1
  BY <1>1, <1>2
<1>3. CASE Len(todo) # 1
  <2>1. Len(todo) - 1 \in 1 .. Len(todo) - 1 /\ (Len(todo) - 1) + 1 = Len(todo)
    BY <1>1, <1>3
  <2>2. Tail(todo)[Len(Tail(todo))] = todo[Len(todo)]
    BY <1>1, <2>1
  <2>3. Tail(todo) # <<>>
    <3>1. Len(Tail(todo)) # 0 /\ Len(<<>>) = 0
      BY <1>1, <1>3
    <3> QED
      BY <3>1
  <2> QED
    BY <1>1, <2>2, <2>3
<1> QED
  BY <1>2, <1>3

(* What is to do for short lists. *)
LEMMA Tails ==
  /\ \A a : Tail(<<a>>) = <<>> /\ Head(<<a>>) = a
  /\ \A a, b : Tail(<<a, b>>) = <<b>> /\ Head(<<a, b>>) = a
  /\ \A a, b, c : Tail(<<a, b, c>>) = <<b, c>> /\ Head(<<a, b, c>>) = a
  /\ \A a, b, c, d : Tail(<<a, b, c, d>>) = <<b, c, d>> /\ Head(<<a, b, c, d>>) = a
  /\ \A a, b, c, d, e : Tail(<<a, b, c, d, e>>) = <<b, c, d, e>> /\ Head(<<a, b, c, d, e>>) = a
OBVIOUS
-----------------------------------------------------------------------------
(* A function fails: it returns NULL, and that is noted. *)
LEMMA Fails ==
  ASSUME NEW O, NEW E, Between(O, E), Top.fn # "expr", Fail \/ FailSilently
  PROVE  Shaped'
<1>1. Return(NULL) /\ UNCHANGED <<heap, current>> /\ ~ Good'
  BY DEF Fail, FailSilently, Stay, Good
<1>2. Len(heap) \in Nat /\ NULL \notin O
  BY TopIs, HeapIsSeq DEF Colors, NULL
<1>3. Returns(Top, NULL, heap, Good', current, O, E)
  BY <1>1, <1>2 DEF Returns, Operand, InfixAt, NULL, Wild
<1> QED
  BY <1>1, <1>3, ReturnsOn

(* A call of which nothing is asked goes on with other items. *)
LEMMA PlainGoesOn ==
  ASSUME NEW O, NEW E, Between(O, E), Top.fn \in PlainCalls, NEW c,
         stack' = [stack EXCEPT ![Len(stack)] = c], UNCHANGED <<heap, failed, hole>>,
         c.fn \in PlainCalls, c.min = Top.min, c.todo \in Seq(PlainItems),
         c.kids \in Seq(Wild .. Len(heap))
  PROVE  Shaped'
<1>1. Typed(c, heap)
  BY TopIs, ItemsHave DEF Typed, PlainCalls
<1>2. Working(c, heap, Good', current', O, E)
  BY DEF Working, PlainCalls
<1>3. (c.fn = "expr" <=> Top.fn = "expr") /\ (Good' => Good)
  BY DEF PlainCalls, Good
<1> QED
  BY <1>1, <1>2, <1>3, GoesOn

(* The same when the items come in place of the one done.                  *)
LEMMA PlainThen ==
  ASSUME NEW O, NEW E, Between(O, E), Top.fn \in PlainCalls, Top.todo # <<>>,
         NEW items \in Seq(PlainItems), Then(items), UNCHANGED <<heap, failed, hole>>
  PROVE  Shaped'
<1>1. Typed(Top, heap) /\ Top.todo \in Seq(PlainItems)
  BY TopIs, ItemsHave DEF Typed
<1> DEFINE todo == items \o Tail(Top.todo)
<1>2. todo \in Seq(PlainItems)
  BY <1>1, TodoIs
<1>3. stack' = [stack EXCEPT ![Len(stack)].todo = todo]
  BY DEF Then, Top
<1> HIDE DEF todo
<1>4. PICK c : /\ stack' = [stack EXCEPT ![Len(stack)] = c]
               /\ Like(c, Top, todo, Top.kids)
  BY <1>3, TodoChanged
<1> QED
  BY <1>1, <1>2, <1>4, PlainGoesOn DEF Like, Typed
-----------------------------------------------------------------------------
(* What a call that has something to do is, by what it is.                 *)
LEMMA Acts ==
  ASSUME NEW O, NEW E, Between(O, E), Top.todo # <<>>
  PROVE  /\ Typed(Top, heap) /\ Top.fn \in Calls
         /\ Head(Top.todo) \in ItemsOf(Top.fn)
         /\ Tail(Top.todo) \in Seq(ItemsOf(Top.fn)) /\ <<>> \o Tail(Top.todo) = Tail(Top.todo)
         /\ Top.kids \in Seq(Wild .. Len(heap)) /\ Len(heap) \in Nat
<1>1. Typed(Top, heap) /\ Len(heap) \in Nat
  BY TopIs, HeapIsSeq
<1> QED
  BY <1>1, TodoIs DEF Typed

(* The last item stays the last when the first is done.                    *)
LEMMA TailEnds ==
  ASSUME NEW S, NEW todo \in Seq(S), todo # <<>>
  PROVE  \/ Tail(todo) = <<>> /\ todo[Len(todo)] = Head(todo)
         \/ Tail(todo) # <<>> /\ Tail(todo)[Len(Tail(todo))] = todo[Len(todo)]
<1>1. /\ Len(todo) \in Nat \ {0} /\ Tail(todo) \in Seq(S) /\ Len(Tail(todo)) = Len(todo) - 1
      /\ Head(todo) = todo[1]
      /\ \A i \in 1 .. Len(todo) - 1 : Tail(todo)[i] = todo[i + 1]
  OBVIOUS
<1>2. CASE Len(todo) = 1
  <2>1. Tail(todo) = <<>>
    <3>1. \A q \in Seq(S) : Len(q) = 0 => q = <<>>
      OBVIOUS
    <3>2. Tail(todo) \in Seq(S)
      BY <1>1
    <3>3. Len(Tail(todo)) = 0
      BY <1>1, <1>2
    <3> QED
      BY <3>1, <3>2, <3>3, Zenon
  <2> QED
    BY <1>1, <1>2, <2>1
<1>3. CASE Len(todo) # 1
  <2>1. Len(todo) - 1 \in 1 .. Len(todo) - 1 /\ (Len(todo) - 1) + 1 = Len(todo)
    BY <1>1, <1>3
  <2>2. Tail(todo)[Len(Tail(todo))] = todo[Len(todo)]
    BY <1>1, <2>1
  <2>3. Tail(todo) # <<>>
    <3>1. Len(Tail(todo)) # 0 /\ Len(<<>>) = 0
      BY <1>1, <1>3
    <3> QED
      BY <3>1
  <2> QED
    BY <2>2, <2>3
<1> QED
  BY <1>2, <1>3

(* A body's items end with its expression. *)
LEMMA BodyGoesOn ==
  ASSUME NEW O, NEW E, Between(O, E), Top.todo # <<>>, Top.fn \in Bodies
  PROVE  \/ Head(Top.todo) = "expr" /\ Tail(Top.todo) = <<>>
         \/ Tail(Top.todo) # <<>> /\ Tail(Top.todo)[Len(Tail(Top.todo))] = "expr"
<1>1. Top.todo[Len(Top.todo)] = "expr"
  BY TopIs DEF Working
<1>2. Top.todo \in Seq(ItemsOf(Top.fn))
  BY Acts DEF Typed
<1> QED
  BY <1>1, <1>2, TailEnds

(* expect keeps the shape: what it reads is no expression.                 *)
LEMMA ExpectShaped ==
  ASSUME NEW O, NEW E, Between(O, E), Expect
  PROVE  Shaped'
<1>1. Top.todo # <<>> /\ Head(Top.todo) \in Readable
  BY DEF Expect
<1> DEFINE item == Head(Top.todo)
           todo == Tail(Top.todo)
<1>2. /\ Typed(Top, heap) /\ Top.fn \in Calls /\ item \in ItemsOf(Top.fn)
      /\ todo \in Seq(ItemsOf(Top.fn)) /\ Top.kids \in Seq(Wild .. Len(heap)) /\ Len(heap) \in Nat
  BY <1>1, Acts
<1>3. Top.fn # "expr" /\ item \notin {"expr", "primary", "infix", "combine", "else"}
  BY <1>1, <1>2, Owners, TokensAreNoItems
<1>4. Top.fn \in Bodies => todo # <<>> /\ todo[Len(todo)] = "expr"
  BY <1>1, <1>3, BodyGoesOn
<1>5. CASE current # item
  BY <1>1, <1>3, <1>5, Fails DEF Expect
<1>6. CASE current = item /\ current = "ID"
  <2> DEFINE node == Node("ID", "ID", Len(read) + 1, <<>>)
             kids == Append(Top.kids, Len(heap) + 1)
  <2>1. heap' = Append(heap, node) /\ UNCHANGED <<failed, hole>>
        /\ stack' = [stack EXCEPT ![Len(stack)].todo = todo, ![Len(stack)].kids = kids]
    BY <1>6 DEF Expect, Top
  <2>2. NodeFits(node, heap, Good, O, E)
    BY DEF NodeFits, Node, OpenEnded
  <2> HIDE DEF todo, kids
  <2>3. PICK c : stack' = [stack EXCEPT ![Len(stack)] = c] /\ Like(c, Top, todo, kids)
    BY <2>1, TodoAndKidsChanged
  <2>4. ASSUME NEW O2, NEW E2, Added(heap, Good, O, E, node, O2, E2)
        PROVE  Typed(c, heap') /\ Working(c, heap', Good, current', O2, E2)
    <3>1. Nodes(heap') /\ Grows(heap, O, E, heap', O2, E2)
      BY <2>1, <2>4 DEF Added
    <3>2. DOMAIN heap = 1 .. Len(heap) /\ DOMAIN heap' = 1 .. Len(heap') /\ Len(heap') = Len(heap) + 1
          /\ heap'[Len(heap) + 1] = node
      <4>1. PICK nodes : heap \in Seq(nodes)
        BY TopIs DEF Nodes
      <4>2. heap \in Seq(nodes \union {node})
        BY <4>1
      <4> QED
        BY <2>1, <4>1, <4>2
    <3>3. kids \in Seq(Wild .. Len(heap'))
      <4>1. Wild .. Len(heap) \subseteq Wild .. Len(heap') /\ Len(heap) + 1 \in Wild .. Len(heap')
        BY <1>2, <3>2 DEF Wild
      <4>2. Top.kids \in Seq(Wild .. Len(heap'))
        BY <1>2, <4>1, KidsAre
      <4> QED
        BY <4>1, <4>2, KidsAre DEF kids
    <3>4. Typed(c, heap')
      BY <1>2, <2>3, <3>3 DEF Typed, Like, todo
    <3>5. Top.fn \notin {"expr", "minus", "if"}
      <4>1. "ID" \in ItemsOf(Top.fn)
        BY <1>2, <1>6
      <4> QED
        BY <1>2, <1>3, <4>1, Owners
    <3>6. CASE Top.fn = "lvalue"
      <4>1. Len(heap) + 1 \in Names(heap')
        BY <1>2, <3>2 DEF Names, Node
      <4>2. Top.kids = <<>> \/ (Top.kids # <<>> /\ Top.kids[1] \in Names(heap))
        BY <3>6, TopIs DEF Working
      <4>3. Names(heap) \subseteq Names(heap')
        BY <1>2, <3>1, <3>2 DEF Grows, Names
      <4>4. kids # <<>> /\ kids[1] \in Names(heap')
        BY <1>2, <4>1, <4>2, <4>3, KidsAppended DEF kids
      <4> QED
        BY <2>3, <3>4, <3>6, <4>4 DEF Working, Like, Bodies
    <3>7. CASE Top.fn \in Bodies
      BY <1>4, <2>3, <3>4, <3>7 DEF Working, Like, Bodies, todo
    <3>8. CASE Top.fn \in PlainCalls
      BY <2>3, <3>4, <3>8 DEF Working, Like, PlainCalls
    <3> QED
      BY <1>2, <3>5, <3>6, <3>7, <3>8, CallsAre
  <2> HIDE DEF node
  <2> QED
    BY <1>3, <2>1, <2>2, <2>3, <2>4, GoesOnWith DEF Like
<1>7. CASE current = item /\ current # "ID"
  <2>1. heap' = heap /\ UNCHANGED <<failed, hole>>
        /\ stack' = [stack EXCEPT ![Len(stack)].todo = todo]
    BY <1>7 DEF Expect, Top
  <2>2. PICK c : stack' = [stack EXCEPT ![Len(stack)] = c] /\ Like(c, Top, todo, Top.kids)
    BY <2>1, TodoChanged
  <2>3. Typed(c, heap)
    BY <1>2, <2>2 DEF Typed, Like
  <2>4. Good' = Good
    BY <2>1 DEF Good
  <2>5. Working(c, heap, Good, current', O, E)
    <3>1. CASE Top.fn = "minus"
      <4>1. Top.todo = <<"MINUS", "primary">> /\ Top.kids = <<>>
        BY <1>1, <1>3, <3>1, TopIs, Tails DEF Working
      <4> QED
        BY <2>2, <3>1, <4>1, Tails DEF Working, Like, Bodies
    <3>2. CASE Top.fn = "if"
      <4>1. WorkingIf(Top, heap, Good, current, O, E)
        BY <3>2, TopIs DEF Working
      <4>2. \/ Top.todo = <<"IF", "expr", "THEN", "expr", "else">> /\ Top.kids = <<>>
            \/ Top.todo = <<"THEN", "expr", "else">> /\ Len(Top.kids) = 1
            \/ /\ Top.todo = <<"ELSE", "expr">> /\ Len(Top.kids) = 2
               /\ Good => Top.kids[2] \notin E
        BY <1>1, <1>3, <4>1, Tails DEF WorkingIf
      <4>3. WorkingIf(c, heap, Good, current', O, E)
        <5>1. CASE Top.todo = <<"IF", "expr", "THEN", "expr", "else">> /\ Top.kids = <<>>
          BY <2>2, <5>1, Tails DEF WorkingIf, Like
        <5>2. CASE Top.todo = <<"THEN", "expr", "else">> /\ Len(Top.kids) = 1
          BY <2>2, <5>2, Tails DEF WorkingIf, Like
        <5>3. CASE /\ Top.todo = <<"ELSE", "expr">> /\ Len(Top.kids) = 2
                   /\ Good => Top.kids[2] \notin E
          BY <2>2, <2>4, <5>3, Tails DEF WorkingIf, Like
        <5> QED
          BY <4>2, <5>1, <5>2, <5>3
      <4> QED
        BY <2>2, <3>2, <4>3 DEF Working, Like, Bodies
    <3>3. CASE Top.fn = "lvalue"
      <4>1. Top.kids # <<>> /\ Top.kids[1] \in Names(heap)
        BY <1>7, <3>3, TopIs, Tails DEF Working
      <4> QED
        BY <2>2, <3>3, <4>1 DEF Working, Like, Bodies
    <3>4. CASE Top.fn \in Bodies
      BY <1>4, <2>2, <3>4 DEF Working, Like, Bodies
    <3>5. CASE Top.fn \in PlainCalls
      BY <2>2, <3>5 DEF Working, Like, PlainCalls
    <3> QED
      BY <1>2, <1>3, <3>1, <3>2, <3>3, <3>4, <3>5, CallsAre
  <2> QED
    BY <1>3, <2>1, <2>2, <2>3, <2>4, <2>5, GoesOn DEF Like
<1> QED
  BY <1>5, <1>6, <1>7
-----------------------------------------------------------------------------
(* The fields of a new call.                                               *)
LEMMA CallIs ==
  ASSUME NEW fn, NEW todo, NEW min
  PROVE  /\ Call(fn, todo, min).fn = fn /\ Call(fn, todo, min).todo = todo
         /\ Call(fn, todo, min).min = min /\ Call(fn, todo, min).kids = <<>>
BY DEF Call

(* A call of parse_expr_bp begins as it should. *)
LEMMA ExprCalled ==
  ASSUME NEW min \in Nat, NEW h, NEW g, NEW t, NEW O, NEW E
  PROVE  Typed(parse_expr_bp(min), h) /\ Working(parse_expr_bp(min), h, g, t, O, E)
         /\ parse_expr_bp(min).fn = "expr" /\ parse_expr_bp(min).min = min
<1> DEFINE d == parse_expr_bp(min)
<1>1. d.fn = "expr" /\ d.todo = <<"primary", "infix">> /\ d.min = min /\ d.kids = <<>>
  BY CallIs DEF parse_expr_bp
<1> HIDE DEF d
<1>2. Typed(d, h)
  BY <1>1, ItemsHave DEF Typed, Calls
<1>3. Working(d, h, g, t, O, E)
  BY <1>1 DEF Working, WorkingExpr, Bodies
<1> QED
  BY <1>1, <1>2, <1>3 DEF d

(* parse_expr called by another function: its caller waits for power 0.    *)
LEMMA ExprShaped ==
  ASSUME NEW O, NEW E, Between(O, E), Expr
  PROVE  Shaped'
<1>1. Top.todo # <<>> /\ Head(Top.todo) = "expr"
  BY DEF Expr, At
<1> DEFINE todo == Tail(Top.todo)
           d == parse_expr_bp(0)
<1>2. /\ Typed(Top, heap) /\ Top.fn \in Calls /\ "expr" \in ItemsOf(Top.fn)
      /\ todo \in Seq(ItemsOf(Top.fn)) /\ <<>> \o todo = todo
      /\ Top.kids \in Seq(Wild .. Len(heap))
  BY <1>1, Acts
<1>3. Top.fn \notin {"expr", "minus"}
  BY <1>2, Owners
<1>4. /\ stack' = Append([stack EXCEPT ![Len(stack)].todo = todo], d)
      /\ UNCHANGED <<heap, failed, hole, current>>
  BY <1>2 DEF Expr, ThenCall, Stay, Top
<1>5. Typed(d, heap) /\ Working(d, heap, Good, current', O, E) /\ d.fn = "expr" /\ d.min = 0
  BY ExprCalled
<1> HIDE DEF todo, d
<1>6. PICK c : /\ [stack EXCEPT ![Len(stack)].todo = todo] = [stack EXCEPT ![Len(stack)] = c]
               /\ Like(c, Top, todo, Top.kids)
  BY TodoChanged
<1>7. Typed(c, heap)
  BY <1>2, <1>6 DEF Typed, Like
<1>8. Above(c, d)
  BY <1>3, <1>5, <1>6 DEF Above, Like
<1>9. Waiting(c, heap, Good, O, E)
  <2>1. CASE Top.fn = "if"
    <3>1. WorkingIf(Top, heap, Good, current, O, E)
      BY <2>1, TopIs DEF Working
    <3>2. \/ Top.todo = <<"expr", "THEN", "expr", "else">> /\ Top.kids = <<>>
          \/ Top.todo = <<"expr", "else">> /\ Len(Top.kids) = 1
          \/ Top.todo = <<"expr">> /\ Len(Top.kids) = 2 /\ (Good => Top.kids[2] \notin E)
      BY <1>1, <3>1, Tails DEF WorkingIf
    <3>3. CASE Top.todo = <<"expr", "THEN", "expr", "else">> /\ Top.kids = <<>>
      BY <1>6, <2>1, <3>3, Tails DEF Waiting, Like, Bodies, todo
    <3>4. CASE Top.todo = <<"expr", "else">> /\ Len(Top.kids) = 1
      BY <1>6, <2>1, <3>4, Tails DEF Waiting, Like, Bodies, todo
    <3>5. CASE Top.todo = <<"expr">> /\ Len(Top.kids) = 2 /\ (Good => Top.kids[2] \notin E)
      BY <1>6, <2>1, <3>5, Tails DEF Waiting, Like, Bodies, todo
    <3> QED
      BY <3>2, <3>3, <3>4, <3>5
  <2>2. CASE Top.fn = "lvalue"
    <3>1. Top.kids # <<>> /\ Top.kids[1] \in Names(heap)
      BY <1>1, <2>2, TopIs, Tails DEF Working
    <3> QED
      BY <1>6, <2>2, <3>1 DEF Waiting, Like, Bodies
  <2>3. CASE Top.fn \in Bodies
    <3>1. todo = <<>> \/ todo[Len(todo)] = "expr"
      BY <1>1, <2>3, BodyGoesOn DEF todo
    <3> QED
      BY <1>6, <2>3, <3>1 DEF Waiting, Like, Bodies
  <2>4. CASE Top.fn \in PlainCalls
    BY <1>6, <2>4 DEF Waiting, Like, PlainCalls
  <2> QED
    BY <1>2, <1>3, <2>1, <2>2, <2>3, <2>4, CallsAre
<1> QED
  BY <1>3, <1>4, <1>5, <1>6, <1>7, <1>8, <1>9, CallsAnother DEF Like
-----------------------------------------------------------------------------
(* An expression is asked of a call of parse_expr_bp or of a minus. *)
LEMMA PrimaryAsked ==
  ASSUME NEW O, NEW E, Between(O, E), At("primary")
  PROVE  /\ Top.todo # <<>> /\ Top.kids = <<>>
         /\ \/ Top.fn = "expr" /\ Tail(Top.todo) = <<"infix">>
            \/ Top.fn = "minus" /\ Tail(Top.todo) = <<>>
         /\ Tail(Top.todo) \in Seq(ItemsOf(Top.fn)) /\ <<>> \o Tail(Top.todo) = Tail(Top.todo)
         /\ Typed(Top, heap)
<1>1. Top.todo # <<>> /\ Head(Top.todo) = "primary"
  BY DEF At
<1>2. /\ Typed(Top, heap) /\ Top.fn \in Calls /\ "primary" \in ItemsOf(Top.fn)
      /\ Tail(Top.todo) \in Seq(ItemsOf(Top.fn)) /\ <<>> \o Tail(Top.todo) = Tail(Top.todo)
  BY <1>1, Acts
<1>3. Top.fn \in {"expr", "minus"}
  BY <1>2, Owners
<1>4. CASE Top.fn = "expr"
  <2>1. WorkingExpr(Top, heap, Good, current, O, E)
    BY <1>4, TopIs DEF Working
  <2>2. Top.todo = <<"primary", "infix">> /\ Top.kids = <<>>
    BY <1>1, <2>1, Tails DEF WorkingExpr
  <2> QED
    BY <1>1, <1>2, <1>4, <2>2, Tails
<1>5. CASE Top.fn = "minus"
  <2>1. Top.todo = <<"primary">> /\ Top.kids = <<>>
    BY <1>1, <1>5, TopIs, Tails DEF Working
  <2> QED
    BY <1>1, <1>2, <1>5, <2>1, Tails
<1> QED
  BY <1>3, <1>4, <1>5

(* A call that got v for a primary goes on. *)
LEMMA PrimaryGot ==
  ASSUME NEW O, NEW E, NEW h, NEW g, NEW t, NEW b, NEW c, NEW v,
         b.fn = "expr" \/ b.fn = "minus", b.kids = <<>>,
         \/ b.fn = "expr" /\ Tail(b.todo) = <<"infix">>
         \/ b.fn = "minus" /\ Tail(b.todo) = <<>>,
         Like(c, b, Tail(b.todo), Append(b.kids, v)),
         Operand(v, h, g, t, O, E), ~ InfixAt(h, v)
  PROVE  Working(c, h, g, t, O, E)
<1>1. c.kids = Append(<<>>, v) /\ c.todo = Tail(b.todo) /\ c.fn = b.fn
  BY DEF Like
<1>2. Len(c.kids) = 1 /\ c.kids[1] = v
  <2>1. <<>> \in Seq({v})
    OBVIOUS
  <2> QED
    BY <1>1, <2>1, KidsAppended
<1>3. CASE b.fn = "expr" /\ Tail(b.todo) = <<"infix">>
  BY <1>1, <1>2, <1>3 DEF Working, WorkingExpr, Bodies
<1>4. CASE b.fn = "minus" /\ Tail(b.todo) = <<>>
  BY <1>1, <1>2, <1>4 DEF Working, Bodies
<1> QED
  BY <1>3, <1>4

(* A heap and its pointers after a node has been added. *)
LEMMA LengthAdded ==
  ASSUME NEW h, Nodes(h), NEW node
  PROVE  /\ Len(h) \in Nat /\ Len(Append(h, node)) = Len(h) + 1
         /\ Append(h, node)[Len(h) + 1] = node
         /\ DOMAIN h = 1 .. Len(h) /\ DOMAIN Append(h, node) = 1 .. Len(h) + 1
         /\ \A n \in 1 .. Len(h) : Append(h, node)[n] = h[n]
         /\ Len(h) + 1 \in Wild .. Len(h) + 1
         /\ \A kids \in Seq(Wild .. Len(h)) :
              /\ kids \in Seq(Wild .. Len(h) + 1)
              /\ Append(kids, Len(h) + 1) \in Seq(Wild .. Len(h) + 1)
<1>1. PICK nodes : h \in Seq(nodes)
  BY DEF Nodes
<1>2. h \in Seq(nodes \union {node}) /\ node \in nodes \union {node}
  BY <1>1
<1>3. /\ Len(h) \in Nat /\ Len(Append(h, node)) = Len(h) + 1
      /\ Append(h, node)[Len(h) + 1] = node
      /\ DOMAIN h = 1 .. Len(h) /\ DOMAIN Append(h, node) = 1 .. Len(h) + 1
      /\ \A n \in 1 .. Len(h) : Append(h, node)[n] = h[n]
  BY <1>2
<1>4. Wild .. Len(h) \subseteq Wild .. Len(h) + 1 /\ Len(h) + 1 \in Wild .. Len(h) + 1
  BY <1>3 DEF Wild
<1>5. \A kids \in Seq(Wild .. Len(h)) : kids \in Seq(Wild .. Len(h) + 1)
  BY <1>4, KidsAre
<1>6. \A kids \in Seq(Wild .. Len(h)) : Append(kids, Len(h) + 1) \in Seq(Wild .. Len(h) + 1)
  BY <1>4, <1>5, KidsAre
<1> QED
  BY <1>3, <1>4, <1>5, <1>6

(* The same of a heap that has grown by it. *)
LEMMA NodeIsLast ==
  ASSUME NEW h, Nodes(h), NEW node, NEW h2, h2 = Append(h, node)
  PROVE  /\ Len(h) \in Nat /\ Len(h2) = Len(h) + 1 /\ h2[Len(h) + 1] = node
         /\ DOMAIN h2 = 1 .. Len(h) + 1 /\ Len(h) + 1 \in Wild .. Len(h2)
         /\ Append(<<>>, Len(h) + 1) \in Seq(Wild .. Len(h2))
<1>1. /\ Len(h) \in Nat /\ Len(Append(h, node)) = Len(h) + 1
      /\ Append(h, node)[Len(h) + 1] = node
      /\ DOMAIN Append(h, node) = 1 .. Len(h) + 1 /\ Len(h) + 1 \in Wild .. Len(h) + 1
  BY LengthAdded
<1>2. Append(<<>>, Len(h) + 1) \in Seq(Wild .. Len(h) + 1)
  BY <1>1
<1> QED
  BY <1>1, <1>2

(* A literal is returned as an operand, or becomes the first child.        *)
LEMMA LiteralShaped ==
  ASSUME NEW O, NEW E, Between(O, E), Literal
  PROVE  Shaped'
<1> DEFINE node == Node(current, current, Len(read) + 1, <<>>)
           todo == Tail(Top.todo)
           v == Len(heap) + 1
           kids == Append(Top.kids, v)
<1>1. /\ Top.todo # <<>> /\ Top.kids = <<>>
      /\ \/ Top.fn = "expr" /\ todo = <<"infix">>
         \/ Top.fn = "minus" /\ todo = <<>>
      /\ todo \in Seq(ItemsOf(Top.fn)) /\ Typed(Top, heap)
  BY PrimaryAsked DEF Literal
<1>2. /\ heap' = Append(heap, node) /\ UNCHANGED <<failed, hole>>
      /\ stack' = [stack EXCEPT ![Len(stack)].todo = todo, ![Len(stack)].kids = kids]
      /\ current \in {"INT", "STRING", "NIL"}
  BY DEF Literal, Top
<1>3. node.kind = current /\ node.kids = <<>>
  BY DEF Node
<1> HIDE DEF todo, kids, node, v
<1>4. NodeFits(node, heap, Good, O, E)
  <2>1. node.kind \notin OpenEnded \union {"binop", "if"}
    BY <1>2, <1>3 DEF OpenEnded
  <2> QED
    BY <1>3, <2>1 DEF NodeFits
<1>5. PICK c : stack' = [stack EXCEPT ![Len(stack)] = c] /\ Like(c, Top, todo, kids)
  BY <1>2, TodoAndKidsChanged
<1>6. ASSUME NEW O2, NEW E2, Added(heap, Good, O, E, node, O2, E2)
      PROVE  Typed(c, heap') /\ Working(c, heap', Good, current', O2, E2)
  <2>1. Len(heap') = v /\ heap'[v] = node /\ kids \in Seq(Wild .. Len(heap')) /\ v \in Wild .. Len(heap')
        /\ Len(heap) \in Nat
    <3>1. Nodes(heap)
      BY TopIs
    <3>2. /\ Len(heap) \in Nat /\ Len(heap') = Len(heap) + 1 /\ heap'[Len(heap) + 1] = node
          /\ Len(heap) + 1 \in Wild .. Len(heap')
          /\ Append(<<>>, Len(heap) + 1) \in Seq(Wild .. Len(heap'))
      BY <1>2, <3>1, NodeIsLast
    <3> QED
      BY <1>1, <3>2 DEF v, kids
  <2>2. Typed(c, heap')
    BY <1>1, <1>5, <2>1 DEF Typed, Like
  <2>3. v \notin O2 /\ v \notin E2
    <3>1. ~ NodeOpen(node, O) /\ ~ NodeEnds(node, E)
      BY <1>2, <1>3 DEF NodeOpen, NodeEnds, OpenEnded
    <3> QED
      BY <1>6, <3>1 DEF Added, v
  <2>4. Operand(v, heap', Good, current', O2, E2)
    BY <2>1, <2>3 DEF Operand, NULL, v
  <2>5. ~ InfixAt(heap', v)
    BY <1>2, <1>3, <2>1 DEF InfixAt
  <2>6. Working(c, heap', Good, current', O2, E2)
    BY <1>1, <1>5, <2>4, <2>5, PrimaryGot DEF kids, todo
  <2> QED
    BY <2>2, <2>6
<1> QED
  BY <1>2, <1>4, <1>5, <1>6, GoesOnWith DEF Like

(* parse_primary finds no expression: a NULL, and a note of it.            *)
LEMMA NoPrimaryShaped ==
  ASSUME NEW O, NEW E, Between(O, E), NoPrimary
  PROVE  Shaped'
<1> DEFINE b == [Top EXCEPT !.todo = Tail(Top.todo)]
           c == Took(b, NULL)
<1>1. /\ Top.todo # <<>> /\ Top.kids = <<>>
      /\ \/ Top.fn = "expr" /\ Tail(Top.todo) = <<"infix">>
         \/ Top.fn = "minus" /\ Tail(Top.todo) = <<>>
      /\ Tail(Top.todo) \in Seq(ItemsOf(Top.fn)) /\ Typed(Top, heap)
  BY PrimaryAsked DEF NoPrimary
<1>2. /\ stack' = [stack EXCEPT ![Len(stack)] = c] /\ UNCHANGED <<heap, current>> /\ ~ Good'
  BY DEF NoPrimary, Stay, Good
<1>3. /\ c.fn = Top.fn /\ c.todo = Tail(Top.todo) /\ c.min = Top.min /\ c.op = Top.op
      /\ c.kids = Append(Top.kids, NULL)
  <2>1. PICK values : Top \in Frames(values)
    BY TopIs
  <2>2. /\ b.fn = Top.fn /\ b.todo = Tail(Top.todo) /\ b.min = Top.min /\ b.op = Top.op
        /\ b.kids = Top.kids
    BY <2>1 DEF Frames
  <2>3. c = [b EXCEPT !.kids = Append(b.kids, NULL)]
    BY <1>1, <2>2 DEF Took
  <2>4. c.fn = b.fn /\ c.todo = b.todo /\ c.min = b.min /\ c.op = b.op /\ c.kids = Append(b.kids, NULL)
    BY <2>1, <2>3 DEF Frames
  <2> QED
    BY <2>2, <2>4
<1> HIDE DEF c, b
<1>4. Len(heap) \in Nat /\ NULL \notin O
  BY TopIs, HeapIsSeq DEF Colors, NULL
<1>5. NULL \in Wild .. Len(heap)
  BY <1>4 DEF NULL, Wild
<1>6. Typed(c, heap)
  <2>1. Append(Top.kids, NULL) \in Seq(Wild .. Len(heap))
    BY <1>1, <1>5, KidsAre DEF Typed
  <2> QED
    BY <1>1, <1>3, <2>1 DEF Typed
<1>7. Working(c, heap, Good', current', O, E)
  <2>1. Operand(NULL, heap, Good', current', O, E) /\ ~ InfixAt(heap, NULL)
    BY <1>2, <1>4, <1>5 DEF Operand, InfixAt, NULL
  <2>2. Like(c, Top, Tail(Top.todo), Append(Top.kids, NULL))
    BY <1>3 DEF Like
  <2> QED
    BY <1>1, <2>1, <2>2, PrimaryGot
<1> QED
  BY <1>2, <1>3, <1>6, <1>7, GoesOn
-----------------------------------------------------------------------------
(* The function that parse_primary chooses starts in shape, ...            *)
LEMMA ChosenIs ==
  ASSUME NEW h, NEW g, NEW t, NEW O, NEW E
  PROVE  /\ Chosen.fn # "expr" /\ Typed(Chosen, h) /\ Working(Chosen, h, g, t, O, E)
<1> DEFINE d == Chosen
<1>1. /\ d.min = 0 /\ d.kids = <<>>
      /\ \/ d.fn = "if" /\ d.todo = <<"IF", "expr", "THEN", "expr", "else">>
         \/ d.fn = "while" /\ d.todo = <<"WHILE", "expr", "DO", "expr">>
         \/ d.fn = "for" /\ d.todo = <<"FOR", "ID", "ASSIGN", "expr", "TO", "expr", "DO", "expr">>
         \/ d.fn = "let" /\ d.todo = <<"LET", "declarations">>
         \/ d.fn = "seq" /\ d.todo = <<"LPAREN", "sequence", "RPAREN">>
         \/ d.fn = "minus" /\ d.todo = <<"MINUS", "primary">>
         \/ d.fn = "call" /\ d.todo = <<"ID", "LPAREN", "args", "RPAREN">>
         \/ d.fn = "record" /\ d.todo = <<"ID", "LBRACE", "fields", "RBRACE">>
         \/ d.fn = "lvalue" /\ d.todo = <<"ID", "suffix">>
  <2>1. \/ d = parse_if \/ d = parse_while \/ d = parse_for \/ d = parse_let \/ d = parse_seq
        \/ d = parse_minus \/ d = parse_call \/ d = parse_record \/ d = parse_lvalue
    BY Zenon DEF Chosen
  <2> HIDE DEF d
  <2>2. CASE d = parse_if
    BY <2>2, CallIs DEF parse_if
  <2>3. CASE d = parse_while
    BY <2>3, CallIs DEF parse_while
  <2>4. CASE d = parse_for
    BY <2>4, CallIs DEF parse_for
  <2>5. CASE d = parse_let
    BY <2>5, CallIs DEF parse_let
  <2>6. CASE d = parse_seq
    BY <2>6, CallIs DEF parse_seq
  <2>7. CASE d = parse_minus
    BY <2>7, CallIs DEF parse_minus
  <2>8. CASE d = parse_call
    BY <2>8, CallIs DEF parse_call
  <2>9. CASE d = parse_record
    BY <2>9, CallIs DEF parse_record
  <2>10. CASE d = parse_lvalue
    BY <2>10, CallIs DEF parse_lvalue
  <2> QED
    BY <2>1, <2>2, <2>3, <2>4, <2>5, <2>6, <2>7, <2>8, <2>9, <2>10
<1> HIDE DEF d
<1> SUFFICES d.fn # "expr" /\ Typed(d, h) /\ Working(d, h, g, t, O, E)
  BY DEF d
<1>2. <<>> \in Seq(Wild .. Len(h))
  OBVIOUS
<1>3. ASSUME d.fn \in Calls, d.todo \in Seq(ItemsOf(d.fn)) PROVE Typed(d, h)
  BY <1>1, <1>2, <1>3 DEF Typed
<1>4. {"while", "for"} \subseteq Bodies /\ {"let", "seq", "call", "record"} \subseteq PlainCalls
      /\ {"if", "while", "for", "let", "seq", "minus", "call", "record", "lvalue"} \subseteq Calls
  BY DEF Bodies, PlainCalls, Calls
<1>5. {"IF", "THEN", "WHILE", "DO", "FOR", "ID", "ASSIGN", "TO", "LET", "LPAREN", "RPAREN",
       "LBRACE", "RBRACE"} \subseteq Readable
  BY DEF Readable, Keywords, Operators, Punctuation
<1>6. {"LET", "LPAREN", "RPAREN", "ID", "LBRACE", "RBRACE",
       "declarations", "sequence", "args", "fields"} \subseteq PlainItems
  BY <1>5, TokensAreNoItems DEF PlainItems, Items
<1>7. CASE d.fn = "if" /\ d.todo = <<"IF", "expr", "THEN", "expr", "else">>
  <2>1. Typed(d, h)
    BY <1>3, <1>4, <1>7, ItemsHave
  <2>2. WorkingIf(d, h, g, t, O, E)
    BY <1>1, <1>7 DEF WorkingIf
  <2> QED
    BY <1>7, <2>1, <2>2 DEF Working, Bodies
<1>8. CASE d.fn = "while" /\ d.todo = <<"WHILE", "expr", "DO", "expr">>
  <2>1. d.todo \in Seq(Readable \union {"expr"}) /\ d.todo # <<>> /\ d.todo[Len(d.todo)] = "expr"
    BY <1>5, <1>8
  <2>2. Typed(d, h)
    BY <1>3, <1>4, <1>8, <2>1, ItemsHave
  <2> QED
    BY <1>8, <2>1, <2>2 DEF Working, Bodies
<1>9. CASE d.fn = "for" /\ d.todo = <<"FOR", "ID", "ASSIGN", "expr", "TO", "expr", "DO", "expr">>
  <2>1. d.todo \in Seq(Readable \union {"expr"}) /\ d.todo # <<>> /\ d.todo[Len(d.todo)] = "expr"
    BY <1>5, <1>9
  <2>2. Typed(d, h)
    BY <1>3, <1>4, <1>9, <2>1, ItemsHave
  <2> QED
    BY <1>9, <2>1, <2>2 DEF Working, Bodies
<1>10. CASE d.fn = "minus" /\ d.todo = <<"MINUS", "primary">>
  <2>1. Typed(d, h)
    BY <1>3, <1>4, <1>10, ItemsHave
  <2> QED
    BY <1>1, <1>10, <2>1 DEF Working, Bodies
<1>11. CASE d.fn = "lvalue" /\ d.todo = <<"ID", "suffix">>
  <2>1. d.todo \in Seq(Readable \union {"expr", "suffix", "field", "index"})
    BY <1>5, <1>11
  <2>2. Typed(d, h)
    BY <1>3, <1>4, <1>11, <2>1, ItemsHave
  <2> QED
    BY <1>1, <1>11, <2>2 DEF Working, Bodies
<1>12. CASE /\ d.fn \in {"let", "seq", "call", "record"}
            /\ \/ d.todo = <<"LET", "declarations">>
               \/ d.todo = <<"LPAREN", "sequence", "RPAREN">>
               \/ d.todo = <<"ID", "LPAREN", "args", "RPAREN">>
               \/ d.todo = <<"ID", "LBRACE", "fields", "RBRACE">>
  <2>1. d.todo \in Seq(PlainItems)
    <3>1. /\ <<"LET", "declarations">> \in Seq(PlainItems)
          /\ <<"LPAREN", "sequence", "RPAREN">> \in Seq(PlainItems)
          /\ <<"ID", "LPAREN", "args", "RPAREN">> \in Seq(PlainItems)
          /\ <<"ID", "LBRACE", "fields", "RBRACE">> \in Seq(PlainItems)
      BY <1>6
    <3> QED
      BY <1>12, <3>1
  <2>2. Typed(d, h)
    BY <1>3, <1>4, <1>12, <2>1, ItemsHave
  <2> QED
    BY <1>4, <1>12, <2>2 DEF Working, PlainCalls
<1> QED
  BY <1>1, <1>7, <1>8, <1>9, <1>10, <1>11, <1>12

(* ... and is called.                                                      *)
LEMMA CompoundShaped ==
  ASSUME NEW O, NEW E, Between(O, E), Compound
  PROVE  Shaped'
<1> DEFINE todo == Tail(Top.todo)
           d == Chosen
<1>1. /\ Top.todo # <<>> /\ Top.kids = <<>>
      /\ \/ Top.fn = "expr" /\ todo = <<"infix">>
         \/ Top.fn = "minus" /\ todo = <<>>
      /\ todo \in Seq(ItemsOf(Top.fn)) /\ <<>> \o todo = todo /\ Typed(Top, heap)
  BY PrimaryAsked DEF Compound
<1>2. /\ stack' = Append([stack EXCEPT ![Len(stack)].todo = todo], d)
      /\ UNCHANGED <<heap, failed, hole, current>>
  BY <1>1 DEF Compound, ThenCall, Stay, Top
<1>3. Typed(d, heap) /\ Working(d, heap, Good, current', O, E) /\ d.fn # "expr"
  BY ChosenIs
<1> HIDE DEF todo, d
<1>4. PICK c : /\ [stack EXCEPT ![Len(stack)].todo = todo] = [stack EXCEPT ![Len(stack)] = c]
               /\ Like(c, Top, todo, Top.kids)
  BY TodoChanged
<1>5. Typed(c, heap)
  BY <1>1, <1>4 DEF Typed, Like
<1>6. Above(c, d)
  BY <1>1, <1>3, <1>4 DEF Above, Like, Bodies
<1>7. Waiting(c, heap, Good, O, E)
  BY <1>1, <1>4 DEF Waiting, Like, Bodies
<1> QED
  BY <1>2, <1>3, <1>4, <1>5, <1>6, <1>7, CallsAnother DEF Like
-----------------------------------------------------------------------------
(* An operator is taken in only if it binds more tightly than min;         *)
(* otherwise what has been parsed is returned.                             *)
LEMMA InfixShaped ==
  ASSUME NEW O, NEW E, Between(O, E), Infix
  PROVE  Shaped'
<1>1. Top.todo # <<>> /\ Head(Top.todo) = "infix" /\ UNCHANGED <<failed, hole, heap>>
  BY DEF Infix, At
<1>2. /\ Typed(Top, heap) /\ Top.fn \in Calls /\ "infix" \in ItemsOf(Top.fn)
      /\ Top.kids \in Seq(Wild .. Len(heap))
  BY <1>1, Acts
<1>3. Top.fn = "expr"
  BY <1>2, Owners
<1>4. WorkingExpr(Top, heap, Good, current, O, E)
  BY <1>3, TopIs DEF Working
<1>5. /\ Len(Top.kids) = 1
      /\ Operand(Top.kids[1], heap, Good, current, O, E)
      /\ InfixAt(heap, Top.kids[1]) =>
           /\ get_infix_bp(heap[Top.kids[1]].op) > Top.min
           /\ get_infix_bp(current) <= get_infix_bp(heap[Top.kids[1]].op)
  BY <1>1, <1>4, Tails DEF WorkingExpr
<1>6. Good' = Good
  BY <1>1 DEF Good
<1>7. get_infix_bp(current) \in Nat /\ Top.min \in Nat
  BY <1>2, PowersAreEven DEF Typed
<1>8. CASE get_infix_bp(current) <= Top.min /\ Return(Top.kids[1]) /\ Stay
  <2>1. Returns(Top, Top.kids[1], heap, Good', current, O, E)
    BY <1>3, <1>5, <1>6, <1>8 DEF Returns
  <2> QED
    BY <1>1, <1>6, <1>8, <2>1, ReturnsOn DEF Stay
<1>9. CASE /\ get_infix_bp(current) > Top.min
           /\ stack' = Append([stack EXCEPT ![Len(stack)] =
                                 [@ EXCEPT !.todo = <<"combine", "infix">>,
                                           !.op = current, !.at = Len(read) + 1]],
                              parse_expr_bp(get_infix_bp(current) + 1))
  <2> DEFINE c == [Top EXCEPT !.todo = <<"combine", "infix">>,
                              !.op = current, !.at = Len(read) + 1]
             d == parse_expr_bp(get_infix_bp(current) + 1)
  <2>1. stack' = Append([stack EXCEPT ![Len(stack)] = c], d)
    BY <1>9 DEF Top
  <2>2. /\ c.fn = "expr" /\ c.min = Top.min /\ c.op = current /\ c.kids = Top.kids
        /\ c.todo = <<"combine", "infix">>
    <3>1. PICK values : Top \in Frames(values)
      BY TopIs
    <3> QED
      BY <1>3, <3>1 DEF Frames
  <2>3. Typed(d, heap) /\ Working(d, heap, Good, current', O, E) /\ d.fn = "expr"
        /\ d.min = get_infix_bp(current) + 1
    <3>1. get_infix_bp(current) + 1 \in Nat
      BY <1>7
    <3> QED
      BY <3>1, ExprCalled
  <2> HIDE DEF c, d
  <2>4. Typed(c, heap)
    <3>1. <<"combine", "infix">> \in Seq(ItemsOf("expr"))
      BY ItemsHave
    <3> QED
      BY <1>2, <1>3, <2>2, <3>1 DEF Typed
  <2>5. Left(c, heap, O)
    <3>1. Top.kids[1] \notin O
      BY <1>5, <1>7, <1>9 DEF Operand
    <3> QED
      BY <1>5, <1>7, <1>9, <2>2, <3>1, PowersAreEven DEF Left
  <2>6. Waiting(c, heap, Good, O, E)
    BY <1>5, <2>2, <2>5 DEF Waiting, Bodies
  <2>7. <<"combine", "infix">> # <<"infix">>
    OBVIOUS
  <2>8. Above(c, d)
    BY <2>2, <2>3, <2>7 DEF Above, Bodies
  <2> QED
    BY <1>1, <1>3, <2>1, <2>2, <2>3, <2>4, <2>6, <2>8, CallsAnother
<1> QED
  BY <1>8, <1>9 DEF Infix

(* The node of an operator: its children bind at least as tightly, and     *)
(* none of them is open to the right where the operator stands.            *)
LEMMA CombineShaped ==
  ASSUME NEW O, NEW E, Between(O, E), Combine
  PROVE  Shaped'
<1> DEFINE node == Node("binop", Top.op, Top.at, Top.kids)
           todo == Tail(Top.todo)
           v == Len(heap) + 1
           l == Top.kids[1]
           r == Top.kids[2]
<1>1. /\ Top.todo # <<>> /\ Head(Top.todo) = "combine" /\ UNCHANGED <<failed, hole, current>>
      /\ heap' = Append(heap, node)
      /\ stack' = [stack EXCEPT ![Len(stack)].todo = todo, ![Len(stack)].kids = <<v>>]
  BY DEF Combine, At, Stay, Top
<1>2. /\ Typed(Top, heap) /\ Top.fn \in Calls /\ "combine" \in ItemsOf(Top.fn)
      /\ todo \in Seq(ItemsOf(Top.fn)) /\ Top.kids \in Seq(Wild .. Len(heap))
  BY <1>1, Acts
<1>3. Top.fn = "expr"
  BY <1>2, Owners
<1>4. WorkingExpr(Top, heap, Good, current, O, E)
  BY <1>3, TopIs DEF Working
<1>5. /\ Top.todo = <<"combine", "infix">> /\ Len(Top.kids) = 2
      /\ Left(Top, heap, O)
      /\ Operand(r, heap, Good, current, O, E)
      /\ InfixAt(heap, r) => get_infix_bp(heap[r].op) > get_infix_bp(Top.op)
      /\ get_infix_bp(current) <= get_infix_bp(Top.op)
  BY <1>1, <1>4, Tails DEF WorkingExpr
<1>6. todo = <<"infix">>
  BY <1>5, Tails
<1>7. node.kind = "binop" /\ node.op = Top.op /\ node.kids = Top.kids
  BY DEF Node
<1> HIDE DEF node, todo, v
<1>8. NodeFits(node, heap, Good, O, E)
  BY <1>2, <1>5, <1>7 DEF NodeFits, Left, OpenEnded
<1>9. PICK c : stack' = [stack EXCEPT ![Len(stack)] = c] /\ Like(c, Top, todo, <<v>>)
  BY <1>1, TodoAndKidsChanged
<1>10. ASSUME NEW O2, NEW E2, Added(heap, Good, O, E, node, O2, E2)
       PROVE  Typed(c, heap') /\ Working(c, heap', Good, current', O2, E2)
  <2>1. Len(heap') = v /\ heap'[v] = node /\ v \in Wild .. Len(heap') /\ Len(heap) \in Nat
    BY <1>1, TopIs, LengthAdded DEF v
  <2>2. Typed(c, heap')
    BY <1>2, <1>9, <2>1 DEF Typed, Like
  <2>3. (v \in O2 <=> r \in O) /\ (v \in E2 <=> r \in E)
    <3>1. (NodeOpen(node, O) <=> r \in O) /\ (NodeEnds(node, E) <=> r \in E)
      BY <1>5, <1>7 DEF NodeOpen, NodeEnds, OpenEnded
    <3> QED
      BY <1>10, <3>1 DEF Added, v
  <2>4. Operand(v, heap', Good, current', O2, E2)
    <3>1. /\ r \in O => get_infix_bp(current) = 0
          /\ Good /\ r \in E => current # "ELSE"
      BY <1>5 DEF Operand
    <3>2. v # NULL
      BY <2>1 DEF v, NULL
    <3> QED
      BY <1>1, <2>1, <2>3, <3>1, <3>2 DEF Operand
  <2>5. InfixAt(heap', v) => /\ get_infix_bp(heap'[v].op) > Top.min
                             /\ get_infix_bp(current') <= get_infix_bp(heap'[v].op)
    BY <1>1, <1>5, <1>7, <2>1 DEF Left
  <2>6. WorkingExpr(c, heap', Good, current', O2, E2)
    <3>1. c.kids = <<v>> /\ c.todo = <<"infix">> /\ c.min = Top.min
      BY <1>6, <1>9 DEF Like
    <3>2. Len(c.kids) = 1 /\ c.kids[1] = v
      BY <3>1
    <3> QED
      BY <2>4, <2>5, <3>1, <3>2 DEF WorkingExpr
  <2> QED
    BY <1>3, <1>9, <2>2, <2>6 DEF Working, Like, Bodies
<1> QED
  BY <1>1, <1>8, <1>9, <1>10, GoesOnWith DEF Like

(* The else is taken in by the if whose branch has just ended, or it has   *)
(* none.                                                                   *)
LEMMA ElseShaped ==
  ASSUME NEW O, NEW E, Between(O, E), Else
  PROVE  Shaped'
<1> DEFINE todo == <<"ELSE", "expr">> \o Tail(Top.todo)
<1>1. /\ Top.todo # <<>> /\ Head(Top.todo) = "else" /\ UNCHANGED <<heap, failed, hole, current>>
      /\ IF current = "ELSE"
           THEN stack' = [stack EXCEPT ![Len(stack)].todo = todo]
           ELSE stack' = [stack EXCEPT ![Len(stack)].todo = Tail(Top.todo),
                                       ![Len(stack)].kids = Append(Top.kids, NULL)]
  BY DEF Else, Optional, At, Stay, Top, Then
<1>2. /\ Typed(Top, heap) /\ Top.fn \in Calls /\ "else" \in ItemsOf(Top.fn)
      /\ Tail(Top.todo) \in Seq(ItemsOf(Top.fn)) /\ Top.kids \in Seq(Wild .. Len(heap))
      /\ Len(heap) \in Nat
  BY <1>1, Acts
<1>3. Top.fn = "if"
  BY <1>2, Owners
<1>4. WorkingIf(Top, heap, Good, current, O, E)
  BY <1>3, TopIs DEF Working
<1>5. /\ Top.todo = <<"else">> /\ Len(Top.kids) = 2
      /\ get_infix_bp(current) = 0 /\ Operand(Top.kids[2], heap, Good, current, O, E)
  BY <1>1, <1>4, Tails DEF WorkingIf
<1>6. Good' = Good
  BY <1>1 DEF Good
<1>7. CASE current = "ELSE"
  <2>1. todo = <<"ELSE", "expr">>
    BY <1>5, Tails
  <2> HIDE DEF todo
  <2>2. PICK c : stack' = [stack EXCEPT ![Len(stack)] = c] /\ Like(c, Top, todo, Top.kids)
    BY <1>1, <1>7, TodoChanged
  <2>3. Typed(c, heap)
    <3>1. <<"ELSE", "expr">> \in Seq(ItemsOf("if"))
      BY ItemsHave
    <3> QED
      BY <1>2, <1>3, <2>1, <2>2, <3>1 DEF Typed, Like
  <2>4. Good => Top.kids[2] \notin E
    BY <1>5, <1>7 DEF Operand
  <2>5. WorkingIf(c, heap, Good', current', O, E)
    BY <1>5, <1>6, <2>1, <2>2, <2>4 DEF WorkingIf, Like
  <2>6. Working(c, heap, Good', current', O, E)
    BY <1>3, <2>2, <2>5 DEF Working, Like, Bodies
  <2> QED
    BY <1>1, <1>6, <2>2, <2>3, <2>6, GoesOn DEF Like
<1>8. CASE current # "ELSE"
  <2> DEFINE kids == Append(Top.kids, NULL)
  <2>1. Tail(Top.todo) = <<>>
    BY <1>5, Tails
  <2>2. Len(kids) = 3 /\ kids[2] = Top.kids[2] /\ kids[3] = NULL
    BY <1>2, <1>5, KidsAppended
  <2>3. kids \in Seq(Wild .. Len(heap))
    <3>1. NULL \in Wild .. Len(heap)
      BY <1>2 DEF NULL, Wild
    <3> QED
      BY <1>2, <3>1, KidsAre
  <2> HIDE DEF kids, todo
  <2>4. PICK c : stack' = [stack EXCEPT ![Len(stack)] = c] /\ Like(c, Top, Tail(Top.todo), kids)
    BY <1>1, <1>8, TodoAndKidsChanged DEF kids
  <2>5. Typed(c, heap)
    BY <1>2, <2>3, <2>4 DEF Typed, Like
  <2>6. WorkingIf(c, heap, Good', current', O, E)
    BY <1>1, <1>5, <1>8, <2>1, <2>2, <2>4 DEF WorkingIf, Like
  <2>7. Working(c, heap, Good', current', O, E)
    BY <1>3, <2>4, <2>6 DEF Working, Like, Bodies
  <2> QED
    BY <1>1, <1>6, <2>4, <2>5, <2>7, GoesOn DEF Like
<1> QED
  BY <1>7, <1>8
-----------------------------------------------------------------------------
(* The frames of parse_lvalue: its first kid is a name or a part of one. *)
LEMMA NameHeld ==
  ASSUME NEW O, NEW E, Between(O, E), NEW item \in {"suffix", "field", "index"}, At(item)
  PROVE  /\ Top.fn = "lvalue" /\ Top.kids # <<>> /\ Top.kids[1] \in Names(heap)
         /\ Typed(Top, heap) /\ Top.todo # <<>>
         /\ Tail(Top.todo) \in Seq(ItemsOf("lvalue")) \/ item = "suffix"
<1>1. Top.todo # <<>> /\ Head(Top.todo) = item
  BY DEF At
<1>2. /\ Typed(Top, heap) /\ Top.fn \in Calls /\ item \in ItemsOf(Top.fn)
      /\ Tail(Top.todo) \in Seq(ItemsOf(Top.fn))
  BY <1>1, Acts
<1>3. Top.fn = "lvalue"
  BY <1>2, Owners
<1>4. Top.kids # <<>> /\ Top.kids[1] \in Names(heap)
  <2>1. item # "ID"
    OBVIOUS
  <2> QED
    BY <1>1, <1>3, <2>1, TopIs, Tails DEF Working
<1> QED
  BY <1>1, <1>2, <1>3, <1>4

(* What follows a name: a field, an index, an assignment, or nothing.      *)
LEMMA SuffixShaped ==
  ASSUME NEW O, NEW E, Between(O, E), Suffix
  PROVE  Shaped'
<1>1. Top.fn = "lvalue" /\ Top.kids # <<>> /\ Top.kids[1] \in Names(heap) /\ Typed(Top, heap)
  BY NameHeld DEF Suffix
<1>2. UNCHANGED <<heap, failed, hole, current>>
  BY DEF Suffix, Stay
<1>3. Good' = Good
  BY <1>2 DEF Good
<1>4. PICK values : Top \in Frames(values)
  BY TopIs
<1>5. {"DOT", "ID", "LBRACKET", "RBRACKET", "ASSIGN"} \subseteq Readable
  BY DEF Readable, Punctuation
<1>6. Top.kids \in Seq(Wild .. Len(heap)) /\ Top.min \in Nat
  BY <1>1 DEF Typed
<1>7. ASSUME NEW c, stack' = [stack EXCEPT ![Len(stack)] = c],
             c.fn = "lvalue", c.min = Top.min, c.kids = Top.kids, c.todo \in Seq(ItemsOf("lvalue"))
      PROVE  Shaped'
  <2>1. Typed(c, heap)
    BY <1>6, <1>7 DEF Typed, Calls
  <2>2. Working(c, heap, Good', current', O, E)
    BY <1>1, <1>7 DEF Working, Bodies
  <2> QED
    BY <1>1, <1>2, <1>3, <1>7, <2>1, <2>2, GoesOn
<1>8. CASE current = "DOT"
  <2> DEFINE c == [Top EXCEPT !.todo = <<"DOT", "ID", "field", "suffix">>]
  <2>1. stack' = [stack EXCEPT ![Len(stack)] = c]
    BY <1>8 DEF Suffix, Top
  <2>2. c.fn = "lvalue" /\ c.min = Top.min /\ c.kids = Top.kids
        /\ c.todo = <<"DOT", "ID", "field", "suffix">>
    BY <1>1, <1>4 DEF Frames
  <2> HIDE DEF c
  <2>3. c.todo \in Seq(ItemsOf("lvalue"))
    BY <1>5, <2>2, ItemsHave
  <2> QED
    BY <1>7, <2>1, <2>2, <2>3
<1>9. CASE current = "LBRACKET"
  <2> DEFINE c == [Top EXCEPT !.todo = <<"LBRACKET", "expr", "RBRACKET", "index">>]
  <2>1. stack' = [stack EXCEPT ![Len(stack)] = c]
    BY <1>9 DEF Suffix, Top
  <2>2. c.fn = "lvalue" /\ c.min = Top.min /\ c.kids = Top.kids
        /\ c.todo = <<"LBRACKET", "expr", "RBRACKET", "index">>
    BY <1>1, <1>4 DEF Frames
  <2> HIDE DEF c
  <2>3. c.todo \in Seq(ItemsOf("lvalue"))
    BY <1>5, <2>2, ItemsHave
  <2> QED
    BY <1>7, <2>1, <2>2, <2>3
<1>10. CASE current = "ASSIGN"
  <2> DEFINE c == [Top EXCEPT !.fn = "assign", !.todo = <<"ASSIGN", "expr">>,
                              !.at = heap[Top.kids[1]].at]
  <2>1. stack' = [stack EXCEPT ![Len(stack)] = c]
    BY <1>10 DEF Suffix, Top
  <2>2. c.fn = "assign" /\ c.min = Top.min /\ c.kids = Top.kids /\ c.todo = <<"ASSIGN", "expr">>
    BY <1>4 DEF Frames
  <2> HIDE DEF c
  <2>3. Typed(c, heap)
    <3>1. c.todo \in Seq(Readable \union {"expr"})
      BY <1>5, <2>2
    <3>2. c.fn \in Calls /\ c.fn \in Bodies
      BY <2>2 DEF Calls, Bodies
    <3> QED
      BY <1>6, <2>2, <3>1, <3>2, ItemsHave DEF Typed
  <2>4. Working(c, heap, Good', current', O, E)
    <3>1. c.todo # <<>> /\ c.todo[Len(c.todo)] = "expr"
      BY <2>2
    <3> QED
      BY <2>2, <3>1 DEF Working
  <2> QED
    BY <1>1, <1>2, <1>3, <2>1, <2>2, <2>3, <2>4, GoesOn
<1>11. CASE current \notin {"DOT", "LBRACKET", "ASSIGN"}
  <2> DEFINE c == [Top EXCEPT !.todo = <<>>]
  <2>1. stack' = [stack EXCEPT ![Len(stack)] = c]
    BY <1>11 DEF Suffix, Top
  <2>2. c.fn = "lvalue" /\ c.min = Top.min /\ c.kids = Top.kids /\ c.todo = <<>>
    BY <1>1, <1>4 DEF Frames
  <2> HIDE DEF c
  <2>3. c.todo \in Seq(ItemsOf("lvalue"))
    BY <2>2
  <2> QED
    BY <1>7, <2>1, <2>2, <2>3
<1> QED
  BY <1>8, <1>9, <1>10, <1>11

(* A part of a name becomes the name: Field, and one case of Index. *)
LEMMA NameWrapped ==
  ASSUME NEW O, NEW E, Between(O, E), NEW node, node.kind = "field" \/ node.kind = "index",
         node.kids = Top.kids, heap' = Append(heap, node), UNCHANGED <<failed, hole>>,
         NEW c, stack' = [stack EXCEPT ![Len(stack)] = c],
         Top.fn = "lvalue", c.fn = "lvalue", c.min = Top.min, c.kids = <<Len(heap) + 1>>,
         c.todo \in Seq(ItemsOf("lvalue"))
  PROVE  Shaped'
<1>1. Top.kids \in Seq(Wild .. Len(heap)) /\ Top.min \in Nat
  BY TopIs DEF Typed
<1>2. NodeFits(node, heap, Good, O, E)
  <2>1. node.kind \notin OpenEnded \union {"binop", "if"}
    BY DEF OpenEnded
  <2> QED
    BY <1>1, <2>1 DEF NodeFits
<1>3. ASSUME NEW O2, NEW E2, Added(heap, Good, O, E, node, O2, E2)
      PROVE  Typed(c, heap') /\ Working(c, heap', Good, current', O2, E2)
  <2>1. /\ Len(heap') = Len(heap) + 1 /\ heap'[Len(heap) + 1] = node /\ Len(heap) \in Nat
        /\ Len(heap) + 1 \in Wild .. Len(heap') /\ DOMAIN heap' = 1 .. Len(heap) + 1
    <3>1. Nodes(heap)
      BY TopIs
    <3> QED
      BY <3>1, NodeIsLast
  <2>2. c.kids \in Seq(Wild .. Len(heap')) /\ c.kids # <<>> /\ c.kids[1] = Len(heap) + 1
    BY <2>1
  <2>3. Typed(c, heap')
    BY <1>1, <2>2 DEF Typed, Calls
  <2>4. Len(heap) + 1 \in Names(heap')
    BY <2>1 DEF Names
  <2> QED
    BY <2>2, <2>3, <2>4 DEF Working, Bodies
<1> QED
  BY <1>2, <1>3, GoesOnWith

(* A field's node is a name again.                                         *)
LEMMA FieldShaped ==
  ASSUME NEW O, NEW E, Between(O, E), Field
  PROVE  Shaped'
<1> DEFINE node == Node("field", "DOT", heap[Top.kids[2]].at, Top.kids)
           todo == Tail(Top.todo)
<1>1. Top.fn = "lvalue" /\ todo \in Seq(ItemsOf("lvalue"))
  BY NameHeld DEF Field
<1>2. /\ heap' = Append(heap, node) /\ UNCHANGED <<failed, hole>>
      /\ stack' = [stack EXCEPT ![Len(stack)].todo = todo, ![Len(stack)].kids = <<Len(heap) + 1>>]
  BY DEF Field, Top
<1> HIDE DEF todo
<1>3. PICK n : heap' = Append(heap, n) /\ n.kind = "field" /\ n.kids = Top.kids
  <2>1. node.kind = "field" /\ node.kids = Top.kids
    BY DEF Node
  <2> HIDE DEF node
  <2> QED
    BY <1>2, <2>1
<1> HIDE DEF node
<1>4. PICK c : stack' = [stack EXCEPT ![Len(stack)] = c] /\ Like(c, Top, todo, <<Len(heap) + 1>>)
  BY <1>2, TodoAndKidsChanged
<1>5. /\ c.fn = "lvalue" /\ c.min = Top.min /\ c.kids = <<Len(heap) + 1>>
      /\ c.todo \in Seq(ItemsOf("lvalue"))
  BY <1>1, <1>4 DEF Like
<1>6. /\ heap' = Append(heap, n) /\ (n.kind = "field" \/ n.kind = "index") /\ n.kids = Top.kids
      /\ UNCHANGED <<failed, hole>>
  BY <1>2, <1>3
<1>7. Top.fn = "lvalue" /\ stack' = [stack EXCEPT ![Len(stack)] = c]
  BY <1>1, <1>4
<1> QED
  BY <1>5, <1>6, <1>7, NameWrapped

(* A list whose first element is replaced.                                 *)
LEMMA FirstSet ==
  ASSUME NEW S, NEW kids \in Seq(S), kids # <<>>, NEW v \in S
  PROVE  [kids EXCEPT ![1] = v] \in Seq(S)
OBVIOUS

(* An index's node is a name again; with "of" it becomes an array's.       *)
LEMMA IndexShaped ==
  ASSUME NEW O, NEW E, Between(O, E), Index
  PROVE  Shaped'
<1> DEFINE e == Top.kids[1]
<1>1. /\ Top.fn = "lvalue" /\ Top.kids # <<>> /\ Typed(Top, heap) /\ Top.todo # <<>>
      /\ Top.kids[1] \in Names(heap)
  BY NameHeld DEF Index
<1>2. Top.kids \in Seq(Wild .. Len(heap)) /\ Top.min \in Nat
  BY <1>1 DEF Typed
<1>3. PICK values : Top \in Frames(values)
  BY TopIs
<1>4. {"OF", "ID"} \subseteq Readable
  BY DEF Readable, Keywords
<1>5. CASE /\ current = "OF" /\ UNCHANGED <<heap, failed, hole, current>>
           /\ stack' = [stack EXCEPT ![Len(stack)] =
                [@ EXCEPT !.fn = "array", !.todo = <<"OF", "expr">>, !.at = heap[e].at,
                          !.kids[1] = IF heap[e].kind = "ID" THEN e ELSE Wild]]
  <2> DEFINE w == IF heap[e].kind = "ID" THEN e ELSE Wild
             kids == [Top.kids EXCEPT ![1] = w]
             c == [Top EXCEPT !.fn = "array", !.todo = <<"OF", "expr">>, !.at = heap[e].at,
                              !.kids = kids]
  <2>1. stack' = [stack EXCEPT ![Len(stack)] = c]
    BY <1>5 DEF Top
  <2>2. c.fn = "array" /\ c.min = Top.min /\ c.todo = <<"OF", "expr">> /\ c.kids = kids
    BY <1>3 DEF Frames
  <2>3. kids \in Seq(Wild .. Len(heap))
    <3>1. w \in Wild .. Len(heap)
      <4>1. Wild \in Wild .. Len(heap)
        BY TopIs, HeapIsSeq DEF Wild
      <4> QED
        BY <1>1, <1>2, <4>1, KidsAre
    <3> HIDE DEF w
    <3> QED
      BY <1>1, <1>2, <3>1, FirstSet
  <2> HIDE DEF c, kids
  <2>4. Typed(c, heap)
    <3>1. c.todo \in Seq(Readable \union {"expr"})
      BY <1>4, <2>2
    <3>2. c.fn \in Calls /\ c.fn \in Bodies
      BY <2>2 DEF Calls, Bodies
    <3> QED
      BY <1>2, <2>2, <2>3, <3>1, <3>2, ItemsHave DEF Typed
  <2>5. Working(c, heap, Good', current', O, E)
    <3>1. c.todo # <<>> /\ c.todo[Len(c.todo)] = "expr"
      BY <2>2
    <3> QED
      BY <2>2, <3>1 DEF Working
  <2>6. Good' = Good
    BY <1>5 DEF Good
  <2> QED
    BY <1>1, <1>5, <2>1, <2>2, <2>4, <2>5, <2>6, GoesOn
<1>6. CASE /\ heap' = Append(heap, Node("index", "LBRACKET", heap[e].at, Top.kids))
           /\ UNCHANGED <<failed, hole>>
           /\ stack' = [stack EXCEPT ![Len(stack)] =
                [@ EXCEPT !.todo = <<"suffix">>, !.kids = <<Len(heap) + 1>>]]
  <2> DEFINE node == Node("index", "LBRACKET", heap[e].at, Top.kids)
             c == [Top EXCEPT !.todo = <<"suffix">>, !.kids = <<Len(heap) + 1>>]
  <2>1. stack' = [stack EXCEPT ![Len(stack)] = c] /\ heap' = Append(heap, node)
    BY <1>6 DEF Top
  <2>2. c.fn = Top.fn /\ c.min = Top.min /\ c.todo = <<"suffix">> /\ c.kids = <<Len(heap) + 1>>
    BY <1>3 DEF Frames
  <2> HIDE DEF c
  <2>3. PICK n : heap' = Append(heap, n) /\ n.kind = "index" /\ n.kids = Top.kids
    <3>1. node.kind = "index" /\ node.kids = Top.kids
      BY DEF Node
    <3> HIDE DEF node
    <3> QED
      BY <2>1, <3>1
  <2> HIDE DEF node
  <2>4. c.todo \in Seq(ItemsOf("lvalue"))
    BY <2>2, ItemsHave
  <2>5. /\ heap' = Append(heap, n) /\ (n.kind = "field" \/ n.kind = "index") /\ n.kids = Top.kids
        /\ UNCHANGED <<failed, hole>>
    BY <1>6, <2>3
  <2>6. /\ Top.fn = "lvalue" /\ stack' = [stack EXCEPT ![Len(stack)] = c]
        /\ c.fn = "lvalue" /\ c.min = Top.min /\ c.kids = <<Len(heap) + 1>>
    BY <1>1, <2>1, <2>2
  <2> QED
    BY <2>4, <2>5, <2>6, NameWrapped
<1> QED
  BY <1>5, <1>6 DEF Index, Stay
-----------------------------------------------------------------------------
(* A decision that only a call has to make of which nothing is asked. *)
LEMMA PlainAt ==
  ASSUME NEW O, NEW E, Between(O, E), NEW item \in PlainOnly, At(item)
  PROVE  /\ Top.fn \in PlainCalls /\ Top.todo # <<>> /\ Typed(Top, heap)
         /\ Tail(Top.todo) \in Seq(PlainItems) /\ <<>> \o Tail(Top.todo) = Tail(Top.todo)
         /\ Top.fn # "expr"
<1>1. Top.todo # <<>> /\ Head(Top.todo) = item
  BY DEF At
<1>2. /\ Typed(Top, heap) /\ Top.fn \in Calls /\ item \in ItemsOf(Top.fn)
      /\ Tail(Top.todo) \in Seq(ItemsOf(Top.fn)) /\ <<>> \o Tail(Top.todo) = Tail(Top.todo)
  BY <1>1, Acts
<1>3. Top.fn \in PlainCalls
  BY <1>2, Owners
<1>4. Top.fn # "expr"
  BY <1>3 DEF PlainCalls
<1> QED
  BY <1>1, <1>2, <1>3, <1>4, ItemsHave

(* Lists written out.                                                      *)
LEMMA ListsOf ==
  ASSUME NEW S
  PROVE  /\ <<>> \in Seq(S)
         /\ \A a \in S : <<a>> \in Seq(S)
         /\ \A a, b \in S : <<a, b>> \in Seq(S)
         /\ \A a, b, c \in S : <<a, b, c>> \in Seq(S)
         /\ \A a, b, c, d \in S : <<a, b, c, d>> \in Seq(S)
         /\ \A a, b, c, d, e \in S : <<a, b, c, d, e>> \in Seq(S)
         /\ \A a, b, c, d, e, f, g, h \in S : <<a, b, c, d, e, f, g, h>> \in Seq(S)
OBVIOUS

(* The lists that the functions of which nothing is asked go on with.      *)
LEMMA PlainLists ==
  /\ <<>> \in Seq(PlainItems)
  /\ <<"COLON", "ID">> \in Seq(PlainItems)
  /\ <<"no trailing">> \in Seq(PlainItems)
  /\ <<"ID", "COLON", "ID", "comma">> \in Seq(PlainItems)
  /\ <<"expr", "comma">> \in Seq(PlainItems)
  /\ <<"expr", "seq semicolon">> \in Seq(PlainItems)
  /\ <<"expr", "semicolon">> \in Seq(PlainItems)
  /\ <<"ID", "EQ", "expr", "comma">> \in Seq(PlainItems)
  /\ <<"IN", "body", "END">> \in Seq(PlainItems)
  /\ <<"declarations">> \in Seq(PlainItems)
  /\ <<"LBRACE", "type fields", "RBRACE">> \in Seq(PlainItems)
  /\ <<"ARRAY", "OF", "ID">> \in Seq(PlainItems)
  /\ <<"ID">> \in Seq(PlainItems)
  /\ <<"VAR", "ID", "annotation", "ASSIGN", "expr">> \in Seq(PlainItems)
  /\ <<"FUNCTION", "ID", "LPAREN", "params", "RPAREN", "annotation", "EQ", "expr">>
       \in Seq(PlainItems)
  /\ <<"TYPE", "ID", "EQ", "ty">> \in Seq(PlainItems)
  /\ \A items \in Seq(PlainItems), item \in PlainOnly : items \o <<item>> \in Seq(PlainItems)
  /\ \A items, more \in Seq(PlainItems) : items \o more \in Seq(PlainItems)
<1>1. {"COLON", "ID", "EQ", "IN", "END", "LBRACE", "RBRACE", "ARRAY", "OF", "VAR", "ASSIGN",
       "FUNCTION", "LPAREN", "RPAREN", "TYPE"} \subseteq Readable
  BY DEF Readable, Keywords, Operators, Punctuation
<1>2. Readable \subseteq PlainItems
  BY TokensAreNoItems DEF PlainItems, Items
<1>3. PlainOnly \subseteq PlainItems /\ "expr" \in PlainItems
  BY DEF PlainItems, Items, PlainOnly
<1>4. {"comma", "no trailing", "seq semicolon", "semicolon", "body", "declarations", "type fields",
       "annotation", "params", "ty"} \subseteq PlainItems
  BY <1>3 DEF PlainOnly
<1> DEFINE S == PlainItems
<1> HIDE DEF S
<1>5. /\ "COLON" \in S /\ "ID" \in S /\ "EQ" \in S /\ "IN" \in S
      /\ "END" \in S /\ "LBRACE" \in S /\ "RBRACE" \in S /\ "ARRAY" \in S
      /\ "OF" \in S /\ "TYPE" \in S /\ "expr" \in S /\ "comma" \in S
      /\ "no trailing" \in S /\ "seq semicolon" \in S /\ "semicolon" \in S /\ "body" \in S
      /\ "declarations" \in S /\ "type fields" \in S /\ "ty" \in S /\ "VAR" \in S
      /\ "ASSIGN" \in S /\ "annotation" \in S /\ "FUNCTION" \in S /\ "LPAREN" \in S
      /\ "RPAREN" \in S /\ "params" \in S
  BY <1>1, <1>2, <1>3, <1>4 DEF S
<1>6. /\ <<>> \in Seq(S)
      /\ <<"COLON", "ID">> \in Seq(S)
      /\ <<"no trailing">> \in Seq(S)
      /\ <<"ID", "COLON", "ID", "comma">> \in Seq(S)
      /\ <<"expr", "comma">> \in Seq(S)
      /\ <<"expr", "seq semicolon">> \in Seq(S)
      /\ <<"expr", "semicolon">> \in Seq(S)
      /\ <<"ID", "EQ", "expr", "comma">> \in Seq(S)
  BY <1>5, ListsOf
<1>7. /\ <<"IN", "body", "END">> \in Seq(S)
      /\ <<"declarations">> \in Seq(S)
      /\ <<"LBRACE", "type fields", "RBRACE">> \in Seq(S)
      /\ <<"ARRAY", "OF", "ID">> \in Seq(S)
      /\ <<"ID">> \in Seq(S)
      /\ <<"TYPE", "ID", "EQ", "ty">> \in Seq(S)
  BY <1>5, ListsOf
<1>8. <<"VAR", "ID", "annotation", "ASSIGN", "expr">> \in Seq(S)
  BY <1>5, ListsOf
<1>9. <<"FUNCTION", "ID", "LPAREN", "params", "RPAREN", "annotation", "EQ", "expr">>
        \in Seq(S)
  BY <1>5, ListsOf
<1>10. \A items \in Seq(PlainItems), item \in PlainOnly : items \o <<item>> \in Seq(PlainItems)
  <2> SUFFICES ASSUME NEW items \in Seq(PlainItems), NEW item \in PlainItems
               PROVE  items \o <<item>> \in Seq(PlainItems)
    BY <1>3
  <2> QED
    OBVIOUS
<1>11. \A items, more \in Seq(S) : items \o more \in Seq(S)
  OBVIOUS
<1> QED
  BY <1>6, <1>7, <1>8, <1>9, <1>10, <1>11 DEF S

(* A loop of such a function, ...                                          *)
LEMMA LoopShaped ==
  ASSUME NEW O, NEW E, Between(O, E), NEW item \in PlainOnly, NEW closer,
         NEW items \in Seq(PlainItems), Loop(item, closer, items)
  PROVE  Shaped'
<1> DEFINE next_items == IF current = closer THEN <<>> ELSE items \o <<item>>
<1>1. At(item) /\ Then(next_items) /\ UNCHANGED <<heap, failed, hole>>
  BY DEF Loop
<1>2. next_items \in Seq(PlainItems)
  BY PlainLists
<1> HIDE DEF next_items
<1>3. Top.fn \in PlainCalls /\ Top.todo # <<>>
  BY <1>1, PlainAt
<1> QED
  BY <1>1, <1>2, <1>3, PlainThen

(* ... a separator in it, ...                                              *)
LEMMA SeparatorShaped ==
  ASSUME NEW O, NEW E, Between(O, E), NEW item \in PlainOnly, NEW kind,
         NEW items \in Seq(PlainItems), Separator(item, kind, items)
  PROVE  Shaped'
<1>1. At(item) /\ (Then(items) \/ Then(<<>>)) /\ UNCHANGED <<heap, failed, hole>>
  BY DEF Separator
<1>2. Top.fn \in PlainCalls /\ Top.todo # <<>>
  BY <1>1, PlainAt
<1>3. <<>> \in Seq(PlainItems)
  OBVIOUS
<1> QED
  BY <1>1, <1>2, <1>3, PlainThen

(* ... and an error.                                                       *)
LEMMA FailsAt ==
  ASSUME NEW O, NEW E, Between(O, E), NEW item \in PlainOnly, At(item), Fail \/ FailSilently
  PROVE  Shaped'
<1>1. Top.fn # "expr"
  BY PlainAt
<1> QED
  BY <1>1, Fails

(* The loops over lists, the separators, and what follows those. *)
LEMMA ListsShaped ==
  ASSUME NEW O, NEW E, Between(O, E),
         \/ Comma \/ Semicolon \/ SeqSemicolon \/ NoTrailing
         \/ Params \/ Args \/ Sequence \/ Body \/ Fields \/ TypeFields
  PROVE  Shaped'
<1>1. {"comma", "semicolon", "seq semicolon", "no trailing", "params", "args", "sequence", "body",
       "fields", "type fields"} \subseteq PlainOnly
  BY DEF PlainOnly
<1>2. CASE Comma \/ Semicolon \/ SeqSemicolon
  BY <1>1, <1>2, PlainLists, SeparatorShaped DEF Comma, Semicolon, SeqSemicolon
<1>3. CASE NoTrailing
  <2>1. Top.fn \in PlainCalls /\ Top.todo # <<>>
    BY <1>1, <1>3, PlainAt DEF NoTrailing
  <2>2. CASE Fail
    BY <1>1, <1>3, <2>2, FailsAt DEF NoTrailing
  <2>3. CASE Then(<<>>) /\ UNCHANGED <<heap, failed, hole>>
    BY <2>1, <2>3, PlainLists, PlainThen
  <2> QED
    BY <1>3, <2>2, <2>3 DEF NoTrailing
<1>4. CASE Params
  BY <1>1, <1>4, PlainLists, LoopShaped, FailsAt DEF Params
<1>5. CASE Args
  BY <1>1, <1>5, PlainLists, LoopShaped, FailsAt DEF Args
<1>6. CASE Sequence
  BY <1>1, <1>6, PlainLists, LoopShaped, FailsAt DEF Sequence
<1>7. CASE Body
  BY <1>1, <1>7, PlainLists, LoopShaped, FailsAt DEF Body
<1>8. CASE Fields \/ TypeFields
  BY <1>1, <1>8, PlainLists, LoopShaped DEF Fields, TypeFields
<1> QED
  BY <1>2, <1>3, <1>4, <1>5, <1>6, <1>7, <1>8

(* The optional annotations of declarations.                               *)
LEMMA AnnotationShaped ==
  ASSUME NEW O, NEW E, Between(O, E), Annotation
  PROVE  Shaped'
<1>1. /\ Top.fn \in PlainCalls /\ Top.todo # <<>> /\ Typed(Top, heap)
      /\ Tail(Top.todo) \in Seq(PlainItems)
  BY PlainAt DEF Annotation, Optional, PlainOnly
<1>2. CASE Then(<<"COLON", "ID">>)
  BY <1>1, <1>2, PlainLists, PlainThen DEF Annotation, Optional
<1>3. ASSUME NEW garbage \in {NULL, Wild},
             stack' = [stack EXCEPT ![Len(stack)].todo = Tail(@),
                                    ![Len(stack)].kids = Append(@, garbage)]
      PROVE  Shaped'
  <2> DEFINE todo == Tail(Top.todo)
             kids == Append(Top.kids, garbage)
  <2>1. stack' = [stack EXCEPT ![Len(stack)].todo = todo, ![Len(stack)].kids = kids]
    BY <1>3 DEF Top
  <2>2. kids \in Seq(Wild .. Len(heap))
    <3>1. garbage \in Wild .. Len(heap)
      BY TopIs, HeapIsSeq DEF Wild, NULL
    <3> QED
      BY <1>1, <3>1, KidsAre DEF Typed
  <2>3. UNCHANGED <<heap, failed, hole>> /\ todo \in Seq(PlainItems)
    BY <1>1 DEF Annotation, Optional
  <2> HIDE DEF todo, kids
  <2>4. PICK c : stack' = [stack EXCEPT ![Len(stack)] = c] /\ Like(c, Top, todo, kids)
    BY <2>1, TodoAndKidsChanged
  <2> QED
    BY <1>1, <2>2, <2>3, <2>4, PlainGoesOn DEF Like
<1> QED
  BY <1>2, <1>3 DEF Annotation, Optional

(* The declarations of a let.                                              *)
LEMMA DeclarationsShaped ==
  ASSUME NEW O, NEW E, Between(O, E), Declarations
  PROVE  Shaped'
<1> DEFINE d == CASE current = "VAR" -> parse_vardec
                  [] current = "FUNCTION" -> parse_funcdec
                  [] OTHER -> parse_typedec
           todo == <<"declarations">> \o Tail(Top.todo)
<1>1. At("declarations") /\ "declarations" \in PlainOnly
  BY DEF Declarations, PlainOnly
<1>2. /\ Top.fn \in PlainCalls /\ Top.todo # <<>> /\ Typed(Top, heap)
      /\ Tail(Top.todo) \in Seq(PlainItems)
  BY <1>1, PlainAt
<1>3. CASE ThenCall(<<"declarations">>, d) /\ UNCHANGED <<heap, failed, hole>>
  <2>1. /\ d.min = 0 /\ d.kids = <<>>
        /\ \/ d.fn = "var" /\ d.todo = <<"VAR", "ID", "annotation", "ASSIGN", "expr">>
           \/ d.fn = "func" /\ d.todo = <<"FUNCTION", "ID", "LPAREN", "params", "RPAREN",
                                          "annotation", "EQ", "expr">>
           \/ d.fn = "type" /\ d.todo = <<"TYPE", "ID", "EQ", "ty">>
    <3>1. d = parse_vardec \/ d = parse_funcdec \/ d = parse_typedec
      BY Zenon
    <3> HIDE DEF d
    <3>2. CASE d = parse_vardec
      BY <3>2, CallIs DEF parse_vardec
    <3>3. CASE d = parse_funcdec
      BY <3>3, CallIs DEF parse_funcdec
    <3>4. CASE d = parse_typedec
      BY <3>4, CallIs DEF parse_typedec
    <3> QED
      BY <3>1, <3>2, <3>3, <3>4
  <2>2. stack' = Append([stack EXCEPT ![Len(stack)].todo = todo], d)
    BY <1>3 DEF ThenCall, Top
  <2>3. todo \in Seq(PlainItems)
    BY <1>2, PlainLists
  <2> HIDE DEF d, todo
  <2>4. d.fn \in Calls /\ d.fn \in PlainCalls /\ d.fn # "expr"
    BY <2>1 DEF Calls, PlainCalls, Bodies
  <2>5. Typed(d, heap)
    <3>1. d.todo \in Seq(PlainItems)
      BY <2>1, PlainLists
    <3>2. d.kids \in Seq(Wild .. Len(heap)) /\ d.min \in Nat
      BY <2>1
    <3> QED
      BY <2>4, <3>1, <3>2, ItemsHave DEF Typed
  <2>6. PICK c : /\ [stack EXCEPT ![Len(stack)].todo = todo] = [stack EXCEPT ![Len(stack)] = c]
                 /\ Like(c, Top, todo, Top.kids)
    BY TodoChanged
  <2>7. c.fn = Top.fn /\ c.min = Top.min /\ c.fn \in PlainCalls
    BY <1>2, <2>6 DEF Like
  <2>8. Typed(c, heap)
    BY <1>2, <2>3, <2>6, ItemsHave DEF Typed, Like
  <2>9. Waiting(c, heap, Good, O, E) /\ Above(c, d)
    BY <2>7 DEF Waiting, Above, PlainCalls
  <2>10. Working(d, heap, Good, current', O, E)
    BY <2>4 DEF Working, PlainCalls
  <2>11. stack' = Append([stack EXCEPT ![Len(stack)] = c], d)
    BY <2>2, <2>6
  <2> QED
    BY <1>3, <2>5, <2>7, <2>8, <2>9, <2>10, <2>11, CallsAnother
<1>4. CASE Then(<<"IN", "body", "END">>) /\ UNCHANGED <<heap, failed, hole>>
  BY <1>2, <1>4, PlainLists, PlainThen
<1>5. CASE Fail
  BY <1>1, <1>5, FailsAt
<1> QED
  BY <1>3, <1>4, <1>5 DEF Declarations

(* The three kinds of types.                                               *)
LEMMA TyShaped ==
  ASSUME NEW O, NEW E, Between(O, E), Ty
  PROVE  Shaped'
<1>1. Top.fn \in PlainCalls /\ Typed(Top, heap)
  BY PlainAt DEF Ty, PlainOnly
<1>2. PICK values : Top \in Frames(values)
  BY TopIs
<1> DEFINE c == CASE current = "LBRACE" ->
                       [Top EXCEPT !.fn = "record type",
                                   !.todo = <<"LBRACE", "type fields", "RBRACE">>]
                  [] current = "ARRAY" ->
                       [Top EXCEPT !.fn = "array type", !.todo = <<"ARRAY", "OF", "ID">>]
                  [] OTHER -> [Top EXCEPT !.todo = <<"ID">>]
<1>3. stack' = [stack EXCEPT ![Len(stack)] = c] /\ UNCHANGED <<heap, failed, hole>>
  BY DEF Ty, Top
<1>4. /\ c.fn \in {Top.fn, "record type", "array type"} /\ c.min = Top.min /\ c.kids = Top.kids
      /\ c.todo \in {<<"LBRACE", "type fields", "RBRACE">>, <<"ARRAY", "OF", "ID">>, <<"ID">>}
  BY <1>2 DEF Frames
<1> HIDE DEF c
<1>5. c.fn \in PlainCalls
  BY <1>1, <1>4 DEF PlainCalls, Calls, Bodies
<1>6. c.todo \in Seq(PlainItems)
  BY <1>4, PlainLists
<1> QED
  BY <1>1, <1>3, <1>4, <1>5, <1>6, PlainGoesOn DEF Typed

(* A crash leaves no call.                                                 *)
LEMMA CrashShaped ==
  ASSUME NEW O, NEW E, Between(O, E), Crash
  PROVE  Shaped'
<1>1. stack' = <<>> /\ UNCHANGED <<heap, current, failed, hole>>
  BY DEF Crash, Stay
<1>2. Good' = Good /\ World(stack, heap, Good, current, O, E)
  BY <1>1 DEF Good, Between
<1>3. CallsOK(<<>>, heap, Good, current, O, E)
  <2>1. DOMAIN <<>> = {} /\ 1 .. Len(<<>>) - 1 = {}
    OBVIOUS
  <2> QED
    BY <2>1 DEF CallsOK
<1> QED
  BY <1>1, <1>2, <1>3 DEF Shaped, World
-----------------------------------------------------------------------------
(* A function of which something is asked makes its node at its end, ... *)
LEMMA OpenEndedShaped ==
  ASSUME NEW O, NEW E, Between(O, E), Top.todo = <<>>, Top.fn \in OpenEnded,
         NEW node, node.kind = Top.fn, node.kids = Top.kids,
         ReturnNode(node), UNCHANGED <<current, failed, hole>>
  PROVE  Shaped'
<1> DEFINE v == Len(heap) + 1
           last == node.kids[Len(node.kids)]
<1>1. Typed(Top, heap) /\ Top.kids \in Seq(Wild .. Len(heap))
  BY TopIs DEF Typed
<1>2. heap' = Append(heap, node)
  BY DEF ReturnNode
<1>3. Top.fn = "if" \/ Top.fn \in Bodies
  BY DEF OpenEnded, Bodies
<1>4. node.kind \in OpenEnded /\ node.kind # "binop" /\ Top.fn # "expr"
  BY DEF OpenEnded
<1>5. /\ node.kids # <<>> /\ get_infix_bp(current) = 0
      /\ node.kind = "if" => Len(node.kids) = 3
      /\ Good /\ node.kind = "if" /\ node.kids[3] # NULL => node.kids[2] \notin E
      /\ Good => /\ node.kind = "if" /\ node.kids[3] = NULL => current # "ELSE"
                 /\ last \in E => current # "ELSE"
  <2>1. CASE Top.fn = "if"
    <3>1. WorkingIf(Top, heap, Good, current, O, E)
      BY <2>1, TopIs DEF Working
    <3>2. /\ Len(Top.kids) = 3 /\ get_infix_bp(current) = 0
          /\ Good => \/ Top.kids[3] = NULL /\ current # "ELSE"
                     \/ /\ Top.kids[3] # NULL /\ Top.kids[2] \notin E
                        /\ Top.kids[3] \in E => current # "ELSE"
      BY <3>1 DEF WorkingIf
    <3>3. Top.kids # <<>>
      BY <3>2
    <3> QED
      BY <3>2, <3>3
  <2>2. CASE Top.fn \in Bodies
    <3>1. /\ Top.kids # <<>> /\ get_infix_bp(current) = 0
          /\ Operand(Top.kids[Len(Top.kids)], heap, Good, current, O, E)
      BY <2>2, TopIs DEF Working
    <3>2. Top.fn # "if"
      BY <2>2 DEF Bodies
    <3> QED
      BY <3>1, <3>2 DEF Operand
  <2> QED
    BY <1>3, <2>1, <2>2
<1> HIDE DEF v, last
<1>6. NodeFits(node, heap, Good, O, E)
  BY <1>1, <1>4, <1>5 DEF NodeFits
<1>7. ASSUME NEW O2, NEW E2, Added(heap, Good, O, E, node, O2, E2)
      PROVE  Returns(Top, v, heap', Good, current, O2, E2)
  <2>1. Len(heap') = v /\ heap'[v] = node /\ v \in Wild .. Len(heap') /\ Len(heap) \in Nat
    BY <1>2, TopIs, LengthAdded DEF v
  <2>2. v # NULL
    BY <2>1 DEF v, NULL
  <2>3. v \in E2 => NodeEnds(node, E)
    BY <1>7 DEF Added, v
  <2>4. Good /\ v \in E2 => current # "ELSE"
    BY <1>5, <2>3 DEF NodeEnds, last
  <2>5. ~ InfixAt(heap', v)
    BY <1>4, <2>1 DEF InfixAt
  <2> QED
    BY <1>4, <1>5, <2>1, <2>2, <2>4, <2>5 DEF Returns, Operand
<1> QED
  BY <1>6, <1>7, ReturnsWith DEF v

(* ... and so does one of which nothing is asked. *)
LEMMA PlainEndShaped ==
  ASSUME NEW O, NEW E, Between(O, E), Top.fn \in PlainCalls,
         NEW node, node.kind = Top.fn, node.kids \in Seq(Wild .. Len(heap)),
         ReturnNode(node), UNCHANGED <<current, failed, hole>>
  PROVE  Shaped'
<1> DEFINE v == Len(heap) + 1
<1>1. heap' = Append(heap, node)
  BY DEF ReturnNode
<1>2. node.kind \notin OpenEnded /\ node.kind # "binop" /\ node.kind # "if" /\ Top.fn # "expr"
  BY DEF PlainCalls, Calls, Bodies, OpenEnded
<1>3. NodeFits(node, heap, Good, O, E)
  BY <1>2 DEF NodeFits
<1> HIDE DEF v
<1>4. ASSUME NEW O2, NEW E2, Added(heap, Good, O, E, node, O2, E2)
      PROVE  Returns(Top, v, heap', Good, current, O2, E2)
  <2>1. Len(heap') = v /\ heap'[v] = node /\ v \in Wild .. Len(heap') /\ Len(heap) \in Nat
    BY <1>1, TopIs, LengthAdded DEF v
  <2>2. v # NULL
    BY <2>1 DEF v, NULL
  <2>3. v \notin O2 /\ v \notin E2
    <3>1. ~ NodeOpen(node, O) /\ ~ NodeEnds(node, E)
      BY <1>2 DEF NodeOpen, NodeEnds
    <3> QED
      BY <1>4, <3>1 DEF Added, v
  <2>4. ~ InfixAt(heap', v)
    BY <1>2, <2>1 DEF InfixAt
  <2> QED
    BY <1>2, <2>1, <2>2, <2>3, <2>4 DEF Returns, Operand
<1> QED
  BY <1>3, <1>4, ReturnsWith DEF v

(* A function returns its node: it fits, and is what the caller waits for. *)
LEMMA FinishShaped ==
  ASSUME NEW O, NEW E, Between(O, E), Finish
  PROVE  Shaped'
<1>1. /\ Top.todo = <<>> /\ Top.fn \notin {"main", "minus"} /\ UNCHANGED <<current, failed, hole>>
      /\ IF Top.fn = "lvalue"
           THEN Return(Top.kids[1]) /\ UNCHANGED heap
           ELSE \E end \in ListEnds(Top) :
                  ReturnNode(Node(Top.fn, Top.op, Top.at, Top.kids \o end))
  BY DEF Finish, Stay
<1>2. Typed(Top, heap) /\ Top.fn \in Calls /\ Top.kids \in Seq(Wild .. Len(heap))
  BY TopIs DEF Typed
<1>3. Top.fn # "expr"
  <2>1. ASSUME Top.fn = "expr" PROVE FALSE
    <3>1. WorkingExpr(Top, heap, Good, current, O, E)
      BY <2>1, TopIs DEF Working
    <3> QED
      BY <1>1, <3>1 DEF WorkingExpr
  <2> QED
    BY <2>1
<1>4. CASE Top.fn = "lvalue"
  <2> DEFINE v == Top.kids[1]
  <2>1. v \in Names(heap)
    BY <1>1, <1>4, TopIs DEF Working
  <2>2. v \in DOMAIN heap /\ heap[v].kind \in {"ID", "field", "index"}
    BY <2>1 DEF Names
  <2> HIDE DEF v
  <2>3. v \notin O /\ v \notin E
    BY <2>2, TopIs DEF Colors, OpenEnded
  <2>4. v \in Wild .. Len(heap) /\ v # NULL
    BY <2>2, TopIs, HeapIsSeq DEF Wild, NULL
  <2>5. ~ InfixAt(heap, v)
    BY <2>2 DEF InfixAt
  <2>6. Good' = Good
    BY <1>1 DEF Good
  <2>7. Returns(Top, v, heap, Good', current, O, E)
    BY <1>4, <2>3, <2>4, <2>5 DEF Returns, Operand
  <2>8. Return(v) /\ UNCHANGED <<heap, current>>
    BY <1>1, <1>4 DEF v
  <2> QED
    BY <2>6, <2>7, <2>8, ReturnsOn
<1>5. CASE Top.fn # "lvalue"
  <2>5. PICK end \in ListEnds(Top) : ReturnNode(Node(Top.fn, Top.op, Top.at, Top.kids \o end))
    BY <1>1, <1>5
  <2> DEFINE node == Node(Top.fn, Top.op, Top.at, Top.kids \o end)
  <2>1. node.kind = Top.fn /\ node.kids = Top.kids \o end /\ ReturnNode(node)
    BY <2>5 DEF Node
  <2> HIDE DEF node
  <2>2. CASE Top.fn \in OpenEnded
    <3>1. end = <<>>
      BY <2>2, <2>5 DEF ListEnds, OpenEnded
    <3>2. node.kids = Top.kids
      BY <1>2, <2>1, <3>1
    <3> QED
      BY <1>1, <2>1, <2>2, <3>2, OpenEndedShaped
  <2>3. CASE Top.fn \in PlainCalls
    <3>1. end = <<>> \/ end = <<Wild>>
      BY <2>5 DEF ListEnds
    <3>2. Wild \in Wild .. Len(heap)
      BY TopIs, HeapIsSeq DEF Wild
    <3>3. end \in Seq(Wild .. Len(heap))
      BY <3>1, <3>2, ListsOf
    <3>4. \A S : \A a, b \in Seq(S) : a \o b \in Seq(S)
      OBVIOUS
    <3>5. node.kids \in Seq(Wild .. Len(heap))
      BY <1>2, <2>1, <3>3, <3>4
    <3> QED
      BY <1>1, <2>1, <2>3, <3>5, PlainEndShaped
  <2>4. Bodies \subseteq OpenEnded /\ "if" \in OpenEnded
    BY DEF Bodies, OpenEnded
  <2> QED
    BY <1>1, <1>2, <1>3, <1>5, <2>2, <2>3, <2>4, CallsAre
<1> QED
  BY <1>4, <1>5

(* What grows twice grows.                                                 *)
LEMMA GrowsOn ==
  ASSUME NEW h1, NEW O1, NEW E1, NEW h2, NEW O2, NEW E2, NEW h3, NEW O3, NEW E3,
         Nodes(h1), Nodes(h2), Nodes(h3),
         Grows(h1, O1, E1, h2, O2, E2), Grows(h2, O2, E2, h3, O3, E3)
  PROVE  Grows(h1, O1, E1, h3, O3, E3)
<1>1. Len(h1) \in Nat /\ Len(h2) \in Nat /\ Len(h3) \in Nat
  BY HeapIsSeq
<1>2. Len(h1) <= Len(h2) /\ Len(h2) <= Len(h3)
  BY DEF Grows
<1>3. Len(h1) <= Len(h3)
  BY <1>1, <1>2
<1>4. \A n \in 1 .. Len(h1) : n \in 1 .. Len(h2)
  BY <1>1, <1>2
<1>5. \A n \in Wild .. Len(h1) : n \in Wild .. Len(h2)
  BY <1>1, <1>2 DEF Wild
<1> QED
  BY <1>3, <1>4, <1>5 DEF Grows

(* A list of one with another element in front of it.                      *)
LEMMA PutBefore ==
  ASSUME NEW S, NEW kids \in Seq(S), Len(kids) = 1, NEW v \in S
  PROVE  /\ <<v>> \o kids \in Seq(S) /\ Len(<<v>> \o kids) = 2
         /\ (<<v>> \o kids)[1] = v /\ (<<v>> \o kids)[2] = kids[1]
OBVIOUS

(* A minus returns two nodes: 0, and the subtraction, which is no infix    *)
(* node.                                                                   *)
LEMMA FinishMinusShaped ==
  ASSUME NEW O, NEW E, Between(O, E), FinishMinus
  PROVE  Shaped'
<1> DEFINE zero == Node("zero", "INT", Top.at, <<>>)
           z == Len(heap) + 1
           sub == Node("binop", "MINUS", Top.at, <<z>> \o Top.kids)
           h1 == Append(heap, zero)
           v == Len(heap) + 2
           x == Top.kids[1]
<1>1. /\ Top.todo = <<>> /\ Top.fn = "minus" /\ UNCHANGED <<current, failed, hole>>
      /\ heap' = heap \o <<zero, sub>> /\ Return(v)
  BY DEF FinishMinus, Stay
<1>2. /\ Nodes(heap) /\ Colors(heap, O, E) /\ BindsWell(heap, Good, O, E)
      /\ stack # <<>> /\ CallsOK(stack, heap, Good, current, O, E)
      /\ Top.kids \in Seq(Wild .. Len(heap)) /\ Len(heap) \in Nat
  BY TopIs, HeapIsSeq DEF Between, World, Typed
<1>3. Len(Top.kids) = 1 /\ Operand(x, heap, Good, current, O, E)
  BY <1>1, TopIs DEF Working
<1>4. zero.kind = "zero" /\ zero.kids = <<>>
  BY DEF Node
<1>5. /\ sub.kind = "binop" /\ Len(sub.kids) = 2 /\ sub.kids[1] = z /\ sub.kids[2] = x
      /\ sub.kids \in Seq(Wild .. z)
  <2>1. sub.kind = "binop" /\ sub.kids = <<z>> \o Top.kids
    BY DEF Node
  <2>2. z \in Wild .. z /\ Top.kids \in Seq(Wild .. z)
    BY <1>2, LengthAdded
  <2> HIDE DEF sub, z
  <2> QED
    BY <1>3, <2>1, <2>2, PutBefore
<1>6. heap' = Append(h1, sub)
  <2>1. PICK nodes : heap \in Seq(nodes)
    BY <1>2 DEF Nodes
  <2> HIDE DEF zero, sub
  <2>2. ASSUME NEW S, NEW h \in Seq(S), NEW a, NEW b
        PROVE  h \o <<a, b>> = Append(Append(h, a), b)
    <3>1. h \in Seq(S \union {a, b}) /\ a \in S \union {a, b} /\ b \in S \union {a, b}
      BY <2>2
    <3> DEFINE T == S \union {a, b}
    <3> HIDE DEF T
    <3>2. h \in Seq(T) /\ a \in T /\ b \in T
      BY <3>1 DEF T
    <3> QED
      BY <3>2
  <2> QED
    BY <1>1, <2>1, <2>2
<1> HIDE DEF sub, zero, z, v
<1>7. NodeFits(zero, heap, Good, O, E)
  <2>1. zero.kind \notin OpenEnded \union {"binop", "if"}
    BY <1>4 DEF OpenEnded
  <2> QED
    BY <1>4, <2>1 DEF NodeFits
<1>8. PICK O1, E1 : Added(heap, Good, O, E, zero, O1, E1)
  BY <1>2, <1>7, NodeAdded
<1>9. /\ Nodes(h1) /\ Colors(h1, O1, E1) /\ BindsWell(h1, Good, O1, E1)
      /\ Grows(heap, O, E, h1, O1, E1)
  BY <1>8 DEF Added
<1>10. /\ Len(h1) = z /\ h1[z] = zero /\ z \in Wild .. Len(h1) /\ z > 0
       /\ x \in Wild .. Len(heap) /\ x \in Wild .. Len(h1)
  <2>1. Len(h1) = z /\ h1[z] = zero /\ z \in Wild .. Len(h1)
    BY <1>2, LengthAdded DEF z
  <2>2. x \in Wild .. Len(heap)
    BY <1>3 DEF Operand
  <2> HIDE DEF h1, x
  <2> QED
    BY <1>2, <2>1, <2>2 DEF z, Wild
<1> HIDE DEF h1, x
<1>11. NodeFits(sub, h1, Good, O1, E1)
  <2>1. sub.kids \in Seq(Wild .. Len(h1)) /\ Len(sub.kids) = 2 /\ sub.kids[1] = z
    BY <1>5, <1>10
  <2>2. sub.kind \notin OpenEnded \union {"if"}
    BY <1>5 DEF OpenEnded
  <2> QED
    BY <1>4, <1>5, <1>10, <2>1, <2>2 DEF NodeFits
<1>12. PICK O2, E2 : Added(h1, Good, O1, E1, sub, O2, E2)
  BY <1>9, <1>11, NodeAdded
<1>13. /\ Nodes(heap') /\ Colors(heap', O2, E2) /\ BindsWell(heap', Good, O2, E2)
       /\ Grows(h1, O1, E1, heap', O2, E2)
  BY <1>6, <1>12 DEF Added
<1>14. Grows(heap, O, E, heap', O2, E2)
  BY <1>2, <1>9, <1>13, GrowsOn
<1>15. Len(heap') = v /\ heap'[v] = sub /\ v \in Wild .. Len(heap') /\ v = Len(h1) + 1 /\ v > 0
  <2>1. /\ Len(heap') = Len(h1) + 1 /\ heap'[Len(h1) + 1] = sub
        /\ Len(h1) + 1 \in Wild .. Len(h1) + 1
    BY <1>6, <1>9, LengthAdded
  <2>2. v = Len(h1) + 1 /\ v > 0
    BY <1>2, <1>10 DEF v, z
  <2> QED
    BY <2>1, <2>2
<1>16. Returns(Top, v, heap', Good, current, O2, E2)
  <2>1. (NodeOpen(sub, O1) <=> x \in O1) /\ (NodeEnds(sub, E1) <=> x \in E1)
    BY <1>5 DEF NodeOpen, NodeEnds, OpenEnded
  <2>2. (x \in O1 <=> x \in O) /\ (x \in E1 <=> x \in E)
    BY <1>9, <1>10 DEF Grows
  <2>3. (v \in O2 <=> x \in O) /\ (v \in E2 <=> x \in E)
    BY <1>12, <1>15, <2>1, <2>2 DEF Added
  <2>4. Operand(v, heap', Good, current, O2, E2)
    BY <1>3, <1>15, <2>3 DEF Operand, NULL
  <2>5. ~ InfixAt(heap', v)
    <3>1. z \in 1 .. Len(h1)
      BY <1>2, <1>10 DEF z
    <3>2. heap'[z] = zero
      BY <1>10, <1>13, <3>1 DEF Grows
    <3> QED
      BY <1>4, <1>5, <1>10, <1>15, <3>2 DEF InfixAt
  <2> QED
    BY <1>1, <2>4, <2>5 DEF Returns
<1>17. PICK values : stack \in Seq(Frames(values))
  BY DEF Between
<1>18. Good' = Good /\ current' = current
  BY <1>1 DEF Good
<1>19. CallsOK(stack', heap', Good, current, O2, E2)
  <2>1. /\ Nodes(heap) /\ CallsOK(stack, heap, Good, current, O, E) /\ stack # <<>>
        /\ Nodes(heap') /\ Grows(heap, O, E, heap', O2, E2)
        /\ Return(v) /\ Returns(Top, v, heap', Good, current, O2, E2)
    BY <1>1, <1>2, <1>13, <1>14, <1>16
  <2> QED
    BY <1>17, <2>1, StackReturns
<1> QED
  BY <1>13, <1>18, <1>19 DEF Shaped, World
-----------------------------------------------------------------------------
(* Every step of the parser keeps the calls and the nodes in shape. *)
LEMMA ParseShaped ==
  ASSUME Framed, Shaped, Parse
  PROVE  Shaped'
<1>1. PICK O, E : World(stack, heap, Good, current, O, E)
  BY DEF Shaped
<1>2. Between(O, E)
  BY <1>1 DEF Between, Framed, Parse, Crashed
<1> QED
  BY <1>2, ExpectShaped, ExprShaped, LiteralShaped, CompoundShaped, NoPrimaryShaped,
     InfixShaped, CombineShaped, ElseShaped, AnnotationShaped, ListsShaped,
     DeclarationsShaped, TyShaped, SuffixShaped, FieldShaped, IndexShaped, CrashShaped,
     FinishShaped, FinishMinusShaped
  DEF Parse

(* A token that is delivered is none that a function has looked at. *)
LEMMA DeliverShaped ==
  ASSUME Framed, Shaped, Fresh, NEW t, Deliver(t)
  PROVE  Shaped'
<1>1. PICK O, E : World(stack, heap, Good, current, O, E)
  BY DEF Shaped
<1>2. UNCHANGED <<stack, heap, failed, hole>> /\ (want # 2 => current' = current)
  BY DEF Deliver
<1>3. Good' = Good
  BY <1>2 DEF Good
<1>4. CASE want # 2
  BY <1>1, <1>2, <1>3, <1>4 DEF Shaped
<1>5. CASE want = 2
  <2>1. Len(stack) = 1 /\ Top.fn = "main"
    BY <1>5 DEF Fresh
  <2>2. Working(stack[Len(stack)], heap, Good, current', O, E)
    BY <2>1 DEF Working, Top, Bodies
  <2>3. CallsOK(stack, heap, Good, current', O, E)
    BY <1>1, <2>2 DEF World, CallsOK
  <2> QED
    BY <1>1, <1>2, <1>3, <2>3 DEF World, Shaped
<1> QED
  BY <1>4, <1>5
-----------------------------------------------------------------------------
CommentModes == {"comment", "comment *", "comment /"}

LexTyped == L!TypeOK /\ Spelt /\ (mode \in CommentModes => depth >= 1)

(* The words of lex_id_or_keyword give keywords, ...                       *)
LEMMA WordsAreKeywords == \A c \in DOMAIN L!KeywordOf : L!KeywordOf[c] \in Keywords
BY DEF L!KeywordOf, Keywords

(* ... and next_token gives tokens only.                                   *)
LEMMA LexerGives ==
  /\ \A c : L!OneSymbol(c) \in Tokens
  /\ \A c, d : L!TwoSymbols(c, d) # "none" => L!TwoSymbols(c, d) \in Tokens
  /\ \A c \in {":", "<", ">", "/"} : L!Alone(c) \in Tokens
  /\ "STRING" \in Tokens /\ "ERROR" \in Tokens
<1>1. /\ {"EOF", "ERROR", "INT", "STRING", "ID"} \subseteq Tokens
      /\ Keywords \subseteq Tokens /\ Operators \subseteq Tokens /\ Punctuation \subseteq Tokens
  BY DEF Tokens, Readable
<1>2. {"PLUS", "MINUS", "STAR", "EQ", "AND", "OR", "LE", "NEQ", "GE", "LT", "GT", "SLASH"}
        \subseteq Operators
  BY DEF Operators
<1>3. {"LPAREN", "RPAREN", "LBRACKET", "RBRACKET", "LBRACE", "RBRACE", "DOT", "COMMA",
       "SEMICOLON", "ASSIGN", "COLON"} \subseteq Punctuation
  BY DEF Punctuation
<1>4. ASSUME NEW c PROVE L!lex_id_or_keyword(c) \in Tokens
  BY <1>1, WordsAreKeywords DEF L!lex_id_or_keyword
<1>5. ASSUME NEW c PROVE L!OneSymbol(c) \in Tokens
  <2>1. L!OneSymbol(c) \in {"EOF", "ERROR", "INT"} \union Operators \union Punctuation
                           \union {L!lex_id_or_keyword(c)}
    BY <1>2, <1>3 DEF L!OneSymbol
  <2> QED
    BY <1>1, <1>4, <2>1
<1>6. ASSUME NEW c, NEW d, L!TwoSymbols(c, d) # "none" PROVE L!TwoSymbols(c, d) \in Tokens
  <2>1. L!TwoSymbols(c, d) \in {"ASSIGN", "LE", "NEQ", "GE"}
    BY <1>6 DEF L!TwoSymbols
  <2> QED
    BY <1>1, <1>2, <1>3, <2>1
<1>7. ASSUME NEW c \in {":", "<", ">", "/"} PROVE L!Alone(c) \in Tokens
  <2>1. L!Alone(c) \in {"COLON", "LT", "GT", "SLASH"}
    BY DEF L!Alone
  <2> QED
    BY <1>1, <1>2, <1>3, <2>1
<1> QED
  BY <1>1, <1>5, <1>6, <1>7
(* What a step of the lexer does to the text. *)
LEMMA TextGoesOn ==
  ASSUME LexTyped, L!Advance \/ L!Stay, text' = text
  PROVE  /\ Spelt' /\ (ch \in L!Following(seen))' /\ (text \in DOMAIN Texts)'
         /\ Len(seen) \in Nat /\ Len(seen') \in Nat
         /\ L!Advance => Len(seen') = Len(seen) + 1
         /\ L!Stay => Len(seen') = Len(seen)
<1>1. PICK symbols : seen \in Seq(symbols)
  BY DEF LexTyped, Spelt
<1>2. ch \in L!Following(seen) /\ text \in DOMAIN Texts
  BY DEF LexTyped, L!TypeOK
<1>3. (text \in DOMAIN Texts)'
  BY <1>2
<1>4. CASE L!Advance
  <2>1. seen' = Append(seen, ch) /\ ch' \in L!Following(seen')
    BY <1>4 DEF L!Advance
  <2>2. seen \in Seq(symbols \union {ch}) /\ ch \in symbols \union {ch}
    BY <1>1
  <2> DEFINE T == symbols \union {ch}
  <2> HIDE DEF T
  <2>3. seen \in Seq(T) /\ ch \in T
    BY <2>2 DEF T
  <2>4. seen' \in Seq(T) /\ Len(seen') = Len(seen) + 1 /\ Len(seen) \in Nat
    BY <2>1, <2>3
  <2>5. L!Following(seen') = L!Following(seen)'
    BY DEF L!Following, L!Ended
  <2>6. ~ L!Stay \/ Len(seen') = Len(seen)
    BY DEF L!Stay
  <2> QED
    BY <1>3, <2>1, <2>4, <2>5, <2>6 DEF Spelt
<1>5. CASE L!Stay
  <2>1. seen' = seen /\ ch' = ch
    BY <1>5 DEF L!Stay
  <2>2. L!Following(seen)' = L!Following(seen)
    BY <2>1 DEF L!Following, L!Ended
  <2>3. Spelt' /\ Len(seen') \in Nat /\ Len(seen) \in Nat
    BY <1>1, <2>1 DEF Spelt
  <2>4. ~ L!Advance
    <3>1. L!Advance => Len(seen') = Len(seen) + 1
      <4>1. seen \in Seq(symbols \union {ch}) /\ ch \in symbols \union {ch}
        BY <1>1
      <4> QED
        BY <4>1 DEF L!Advance
    <3> QED
      BY <2>1, <2>3, <3>1
  <2> QED
    BY <1>2, <1>3, <2>1, <2>2, <2>3, <2>4
<1> QED
  BY <1>4, <1>5

(* A step of the lexer keeps its types, and what it gives is a token.      *)
LEMMA LexTypedStep ==
  ASSUME LexTyped, L!NextToken
  PROVE  LexTyped' /\ token' \in Tokens \union {"none"}
<1>1. /\ mode \in L!Modes /\ depth \in 0 .. Len(seen)
      /\ mode \in CommentModes => depth >= 1
  BY DEF LexTyped, L!TypeOK
<1>2. Len(seen) \in Nat
  <2>1. PICK symbols : seen \in Seq(symbols)
    BY DEF LexTyped, Spelt
  <2> QED
    BY <2>1
<1>3. depth \in Nat /\ depth <= Len(seen)
  BY <1>1, <1>2
<1>19. ASSUME depth' = depth
       PROVE  depth' \in Nat /\ depth' <= Len(seen) + 1 /\ depth' <= Len(seen)
  BY <1>2, <1>3, <1>19
<1>4. ASSUME L!Advance \/ L!Stay, text' = text, mode' \in L!Modes,
             depth' \in Nat, depth' <= Len(seen'), mode' \in CommentModes => depth' >= 1
      PROVE  LexTyped'
  <2>1. /\ Spelt' /\ (ch \in L!Following(seen))' /\ (text \in DOMAIN Texts)'
        /\ Len(seen') \in Nat
    BY <1>4, TextGoesOn
  <2>2. depth' \in 0 .. Len(seen')
    BY <1>4, <2>1
  <2> QED
    BY <1>4, <2>1, <2>2 DEF LexTyped, L!TypeOK
<1>5. ASSUME L!Advance \/ L!Stay, text' = text PROVE Len(seen') \in Nat /\ Len(seen') >= Len(seen)
  BY <1>2, <1>5, TextGoesOn
<1>6. ASSUME L!Advance, text' = text PROVE Len(seen') = Len(seen) + 1
  BY <1>2, <1>6, TextGoesOn
<1>7. {"space", "comment", "comment *", "comment /", "escape", "\"", "/", ":", "<", ">"}
        = L!Modes
  BY DEF L!Modes, L!Longer
<1>8. ASSUME NEW t, L!Give(t), t \in Tokens, L!Advance \/ L!Stay
      PROVE  LexTyped' /\ token' \in Tokens \union {"none"}
  <2>1. mode' = "space" /\ depth' = 0 /\ token' = t /\ text' = text
    BY <1>8 DEF L!Give
  <2>2. Len(seen') \in Nat
    BY <1>5, <1>8, <2>1
  <2>3. "space" \in L!Modes /\ "space" \notin CommentModes
    BY <1>7 DEF CommentModes
  <2>4. depth' \in Nat /\ depth' <= Len(seen')
    BY <2>1, <2>2
  <2>5. LexTyped'
    BY <1>4, <1>8, <2>1, <2>3, <2>4
  <2> QED
    BY <1>8, <2>1, <2>5
<1>9. ASSUME NEW m \in L!Modes, L!Go(m), L!Advance \/ L!Stay, depth' \in Nat,
             L!Advance => depth' <= Len(seen) + 1, L!Stay => depth' <= Len(seen),
             m \in CommentModes => depth' >= 1
      PROVE  LexTyped' /\ token' \in Tokens \union {"none"}
  <2>1. mode' = m /\ token' = "none" /\ text' = text
    BY <1>9 DEF L!Go
  <2>2. depth' <= Len(seen')
    BY <1>2, <1>5, <1>6, <1>9, <2>1
  <2> QED
    BY <1>4, <1>9, <2>1, <2>2
<1>10. CASE L!skip_whitespace
  <2>1. "space" \in L!Modes /\ "space" \notin CommentModes
    BY <1>7 DEF CommentModes
  <2>2. L!Advance /\ L!Go("space") /\ depth' = depth
    BY <1>10 DEF L!skip_whitespace
  <2>3. depth' \in Nat /\ depth' <= Len(seen) + 1 /\ (L!Stay => depth' <= Len(seen))
    BY <1>2, <1>3, <2>2
  <2> QED
    BY <1>9, <2>1, <2>2, <2>3
<1>11. CASE L!FirstSymbol
  <2>1. CASE ch \in L!Longer
    <3>1. ch \in L!Modes /\ ch \notin CommentModes
      BY <2>1 DEF L!Longer, L!Modes, CommentModes
    <3>2. L!Advance /\ L!Go(ch) /\ depth' = depth
      BY <1>11, <2>1 DEF L!FirstSymbol
    <3>3. depth' \in Nat /\ depth' <= Len(seen) + 1 /\ (L!Stay => depth' <= Len(seen))
      BY <1>2, <1>3, <3>2
    <3> QED
      BY <1>9, <3>1, <3>2, <3>3
  <2>2. CASE ch \notin L!Longer
    <3>1. L!Advance /\ L!Give(L!OneSymbol(ch))
      BY <1>11, <2>2 DEF L!FirstSymbol
    <3> QED
      BY <1>8, <3>1, LexerGives
  <2> QED
    BY <2>1, <2>2
<1>12. CASE L!SecondSymbol
  <2>1. CASE L!TwoSymbols(mode, ch) # "none" /\ L!Advance /\ L!Give(L!TwoSymbols(mode, ch))
    BY <1>8, <2>1, LexerGives
  <2>2. CASE L!Advance /\ L!Go("comment") /\ depth' = 1
    <3>1. "comment" \in L!Modes
      BY <1>7
    <3>2. depth' \in Nat /\ depth' <= Len(seen) + 1 /\ depth' >= 1
      BY <1>2, <2>2
    <3>3. L!Stay => FALSE
      <4>1. text' = text
        BY <2>2 DEF L!Go
      <4>2. L!Stay => Len(seen') = Len(seen)
        BY DEF L!Stay
      <4> QED
        BY <1>2, <1>6, <2>2, <4>1, <4>2
    <3> QED
      BY <1>9, <2>2, <3>1, <3>2, <3>3
  <2>3. CASE L!Stay /\ L!Give(L!Alone(mode))
    <3>1. mode \in {":", "<", ">", "/"}
      BY <1>12 DEF L!SecondSymbol
    <3> QED
      BY <1>8, <2>3, <3>1, LexerGives
  <2> QED
    BY <1>12, <2>1, <2>2, <2>3 DEF L!SecondSymbol
<1>13. CASE L!InComment
  <2>1. CASE ch = "NUL"
    BY <1>8, <1>13, <2>1, LexerGives DEF L!InComment
  <2>2. CASE ch # "NUL"
    <3>1. PICK m \in {"comment", "comment *", "comment /"} : L!Go(m)
      BY <1>13, <2>2 DEF L!InComment
    <3>2. m \in L!Modes
      BY <1>7
    <3>3. L!Advance /\ depth' = depth /\ mode \in CommentModes
      BY <1>13, <2>2 DEF L!InComment, CommentModes
    <3>4. depth' \in Nat /\ depth' <= Len(seen) + 1 /\ depth' <= Len(seen) /\ depth' >= 1
      <4>1. depth' = depth /\ depth >= 1
        BY <1>1, <3>3
      <4> QED
        BY <1>19, <4>1, Zenon
    <3> QED
      BY <1>9, <3>1, <3>2, <3>3, <3>4
  <2> QED
    BY <2>1, <2>2
<1>14. CASE L!CommentCloses
  <2>1. depth >= 1
    BY <1>1, <1>14 DEF L!CommentCloses, CommentModes
  <2>2. CASE ch = "/"
    <3> DEFINE m == IF depth = 1 THEN "space" ELSE "comment"
    <3>1. L!Advance /\ depth' = depth - 1 /\ L!Go(m)
      BY <1>14, <2>2 DEF L!CommentCloses
    <3>2. m \in L!Modes /\ (m \in CommentModes => depth # 1)
      BY <1>7 DEF CommentModes
    <3> HIDE DEF m
    <3>3. depth' \in Nat /\ depth' <= Len(seen) + 1 /\ (L!Stay => depth' <= Len(seen))
          /\ (m \in CommentModes => depth' >= 1)
      BY <1>2, <1>3, <2>1, <3>1, <3>2
    <3> QED
      BY <1>9, <3>1, <3>2, <3>3
  <2>3. CASE ch # "/"
    <3>1. L!Stay /\ L!Go("comment") /\ depth' = depth /\ "comment" \in L!Modes
      BY <1>7, <1>14, <2>3 DEF L!CommentCloses
    <3>2. depth' \in Nat /\ depth' <= Len(seen) + 1 /\ depth' <= Len(seen) /\ depth' >= 1
      BY <1>2, <1>3, <2>1, <3>1
    <3> QED
      BY <1>9, <3>1, <3>2
  <2> QED
    BY <2>2, <2>3
<1>15. CASE L!CommentOpens
  <2>1. depth >= 1 /\ L!Go("comment") /\ "comment" \in L!Modes
    BY <1>1, <1>7, <1>15 DEF L!CommentOpens, CommentModes
  <2>2. CASE ch = "*"
    <3>1. L!Advance /\ depth' = depth + 1 /\ text' = text
      BY <1>15, <2>2 DEF L!CommentOpens, L!Go
    <3>2. L!Stay => FALSE
      <4>1. L!Stay => Len(seen') = Len(seen)
        BY DEF L!Stay
      <4> QED
        BY <1>2, <1>6, <3>1, <4>1
    <3>3. depth' \in Nat /\ depth' <= Len(seen) + 1 /\ depth' >= 1
      BY <1>2, <1>3, <2>1, <3>1
    <3> QED
      BY <1>9, <2>1, <3>1, <3>2, <3>3
  <2>3. CASE ch # "*"
    <3>1. L!Stay /\ depth' = depth
      BY <1>15, <2>3 DEF L!CommentOpens
    <3>2. depth' \in Nat /\ depth' <= Len(seen) + 1 /\ depth' <= Len(seen) /\ depth' >= 1
      BY <1>2, <1>3, <2>1, <3>1
    <3> QED
      BY <1>9, <2>1, <3>1, <3>2
  <2> QED
    BY <2>2, <2>3
<1>16. ASSUME NEW m \in {"\"", "escape"}, L!Advance, L!Go(m), depth' = depth
       PROVE  LexTyped' /\ token' \in Tokens \union {"none"}
  <2>1. m \in L!Modes /\ m \notin CommentModes
    BY <1>7 DEF CommentModes
  <2>2. depth' \in Nat /\ depth' <= Len(seen) + 1 /\ depth' <= Len(seen)
    <3>1. depth' = depth
      BY <1>16
    <3> QED
      BY <1>19, <3>1, Zenon
  <2> QED
    BY <1>9, <1>16, <2>1, <2>2
<1>17. CASE L!InString
  <2>1. CASE ch = "\"" \/ ch = "NUL"
    BY <1>8, <1>17, <2>1, LexerGives DEF L!InString
  <2>2. CASE ch # "\"" /\ ch # "NUL"
    BY <1>16, <1>17, <2>2 DEF L!InString
  <2> QED
    BY <2>1, <2>2
<1>18. CASE L!Escape
  BY <1>16, <1>18 DEF L!Escape
<1> QED
  BY <1>10, <1>11, <1>12, <1>13, <1>14, <1>15, <1>17, <1>18 DEF L!NextToken
-----------------------------------------------------------------------------
(* All that holds between two steps. *)
TokensTyped == current \in Tokens /\ next \in Tokens /\ read \in Seq(Readable)

Sound == IInv /\ LexTyped /\ TokensTyped /\ Shaped /\ Fresh

(* The tokens that can be read are those but EOF and ERROR.                *)
LEMMA KindsAre ==
  /\ Readable \subseteq Tokens /\ "EOF" \in Tokens /\ "none" \notin Tokens
  /\ \A t \in Tokens : t \notin LastKinds => t \in Readable
BY DEF Tokens, Readable, Keywords, Operators, Punctuation, LastKinds

(* All of it holds in the beginning, ...                                   *)
LEMMA StartsSound == StartUp => Sound
<1> SUFFICES ASSUME StartUp PROVE Sound
  OBVIOUS
<1>1. /\ heap = <<>> /\ read = <<>> /\ current = "EOF" /\ next = "EOF"
      /\ stack = <<main>>
      /\ text \in DOMAIN Texts /\ seen = <<>> /\ ch \in L!Following(<<>>)
      /\ mode = "space" /\ depth = 0
  BY DEF StartUp, Init, L!Init
<1>2. IInv
  BY Starts
<1>3. LexTyped
  <2>1. "space" \in L!Modes /\ "space" \notin CommentModes
    BY DEF L!Modes, CommentModes
  <2>2. depth \in 0 .. Len(seen)
    BY <1>1
  <2> QED
    BY <1>1, <1>2, <2>1, <2>2 DEF LexTyped, L!TypeOK, IInv
<1>4. TokensTyped
  BY <1>1, KindsAre DEF TokensTyped
<1>5. main.fn = "main" /\ main.todo = <<"expr">> /\ main.kids = <<>> /\ main.min = 0
  BY DEF main, Call
<1>6. Len(stack) = 1 /\ stack[1] = main /\ DOMAIN stack = {1} /\ Len(heap) = 0 /\ DOMAIN heap = {}
  BY <1>1
<1>7. Fresh
  BY <1>5, <1>6 DEF Fresh, Top
<1>8. Typed(main, heap)
  <2>1. "main" \in Calls /\ ItemsOf("main") = PlainItems
    BY DEF Calls, ItemsOf, Bodies
  <2>2. "expr" \in PlainItems
    BY DEF PlainItems, Items
  <2>3. <<"expr">> \in Seq(PlainItems)
    BY <2>2
  <2>4. <<>> \in Seq(Wild .. Len(heap))
    OBVIOUS
  <2> QED
    BY <1>5, <2>1, <2>3, <2>4 DEF Typed
<1>9. Working(main, heap, Good, current, {}, {})
  BY <1>5 DEF Working, Bodies
<1>10. CallsOK(stack, heap, Good, current, {}, {})
  <2>1. \A i \in 1 .. Len(stack) - 1 : FALSE
    BY <1>6
  <2> QED
    BY <1>6, <1>8, <1>9, <2>1 DEF CallsOK
<1>11. Nodes(heap)
  <2>1. heap \in Seq({})
    BY <1>1
  <2> QED
    BY <1>6, <2>1 DEF Nodes
<1>12. Colors(heap, {}, {}) /\ BindsWell(heap, Good, {}, {})
  BY <1>6 DEF Colors, BindsWell
<1>13. Shaped
  BY <1>10, <1>11, <1>12 DEF Shaped, World
<1> QED
  BY <1>2, <1>3, <1>4, <1>7, <1>13 DEF Sound

(* ... a step of the parser keeps it, ...                                  *)
LEMMA ParsesSound ==
  ASSUME Sound, Parse, UNCHANGED lexVars
  PROVE  Sound'
<1>1. Framed /\ Shaped /\ LexTyped /\ TokensTyped
  BY DEF Sound, IInv
<1>2. want = 0 /\ (Stay \/ (Advance /\ current \notin LastKinds))
  BY <1>1, ReadsOnlyTokens
<1>3. IInv'
  BY Parses DEF Sound
<1>4. Shaped'
  BY <1>1, ParseShaped
<1>5. Fresh'
  BY <1>2 DEF Stay, Advance, Fresh
<1>6. LexTyped'
  <2>1. UNCHANGED <<text, seen, ch, mode, depth>>
    BY DEF lexVars
  <2> QED
    BY <1>1, <2>1 DEF LexTyped, L!TypeOK, L!Following, L!Ended, L!Modes, Spelt
<1>7. TokensTyped'
  <2>1. CASE Stay
    BY <1>1, <2>1 DEF TokensTyped, Stay
  <2>2. CASE Advance /\ current \notin LastKinds
    <3>1. current \in Readable
      BY <1>1, <2>2, KindsAre DEF TokensTyped
    <3>2. Append(read, current) \in Seq(Readable)
      BY <1>1, <3>1 DEF TokensTyped
    <3> QED
      BY <1>1, <2>2, <3>2 DEF TokensTyped, Advance
  <2> QED
    BY <1>2, <2>1, <2>2
<1> QED
  BY <1>3, <1>4, <1>5, <1>6, <1>7 DEF Sound

(* ... and a step of the lexer, ...                                        *)
LEMMA LexesSound ==
  ASSUME Sound, Lex
  PROVE  Sound'
<1>1. /\ Framed /\ Shaped /\ Fresh /\ LexTyped /\ TokensTyped /\ IInv
      /\ want \in 0 .. 2
  BY DEF Sound, IInv
<1>2. L!NextToken
  BY DEF Lex
<1>3. IInv'
  BY <1>1, Lexes
<1>4. LexTyped' /\ token' \in Tokens \union {"none"}
  BY <1>1, <1>2, LexTypedStep
<1>5. CASE token' = "none"
  <2>1. UNCHANGED vars
    BY <1>5 DEF Lex
  <2>2. TokensTyped' /\ Fresh'
    BY <1>1, <2>1 DEF vars, TokensTyped, Fresh, Top
  <2>3. Shaped'
    BY <1>1, <2>1 DEF vars, Shaped, Good
  <2> QED
    BY <1>3, <1>4, <2>2, <2>3 DEF Sound
<1>6. CASE token' # "none"
  <2>1. Deliver(token') /\ token' \in Tokens
    BY <1>4, <1>6 DEF Lex
  <2>2. Shaped'
    BY <1>1, <2>1, DeliverShaped
  <2>3. TokensTyped'
    BY <1>1, <2>1 DEF TokensTyped, Deliver
  <2>4. Fresh'
    BY <1>1, <2>1 DEF Fresh, Deliver
  <2> QED
    BY <1>3, <1>4, <2>2, <2>3, <2>4 DEF Sound
<1> QED
  BY <1>5, <1>6

(* ... and so any step.                                                    *)
LEMMA RunsSound == Sound /\ [Run \/ Finished]_frontVars => Sound'
<1> SUFFICES ASSUME Sound, [Run \/ Finished]_frontVars PROVE Sound'
  OBVIOUS
<1>1. CASE UNCHANGED frontVars
  <2>1. IInv'
    BY <1>1, Runs DEF Sound
  <2>2. UNCHANGED <<stack, heap, current, next, want, read, failed, hole>>
    BY <1>1 DEF frontVars, vars
  <2>3. UNCHANGED <<text, seen, ch, mode, depth>>
    BY <1>1 DEF frontVars, lexVars
  <2>4. LexTyped'
    BY <2>3 DEF Sound, LexTyped, L!TypeOK, L!Following, L!Ended, L!Modes, Spelt
  <2>5. TokensTyped' /\ Fresh'
    BY <2>2 DEF Sound, TokensTyped, Fresh, Top
  <2>6. Shaped'
    BY <2>2 DEF Sound, Shaped, Good
  <2> QED
    BY <2>1, <2>4, <2>5, <2>6 DEF Sound
<1> QED
  BY <1>1, LexesSound, ParsesSound DEF Run, Finished
-----------------------------------------------------------------------------
(* The open-ended trees are those of the color O, ... *)
LEMMA OpenEndedIs ==
  ASSUME NEW O, NEW E, Nodes(heap), Colors(heap, O, E), NEW n \in Wild .. Len(heap)
  PROVE  IsOpenEnded(n) => n \in O
<1>1. Len(heap) \in Nat /\ DOMAIN heap = 1 .. Len(heap)
  BY HeapIsSeq
<1> DEFINE S == Wild .. n
           again(f) == [i \in S |-> /\ i > 0
                                    /\ \/ heap[i].kind \in OpenEnded
                                       \/ heap[i].kind = "binop" /\ f[heap[i].kids[2]]]
           g == [i \in S |-> i \in O]
           f == CHOOSE f : f = again(f)
<1>2. \A i \in S : i \in Int /\ (i > 0 => i \in DOMAIN heap /\ i \in 1 .. Len(heap))
  BY <1>1 DEF Wild
<1>3. \A i \in S : i \in O => i > 0
  BY <1>1, <1>2 DEF Colors
<1>4. ASSUME NEW i \in S, i > 0, heap[i].kind = "binop"
      PROVE  heap[i].kids[2] \in S /\ heap[i].kids[2] \in Int /\ heap[i].kids[2] < i
  <2>1. heap[i].kids \in Seq(Wild .. i - 1) /\ Len(heap[i].kids) = 2
    BY <1>2, <1>4 DEF Nodes
  <2>2. heap[i].kids[2] \in Wild .. i - 1
    BY <2>1, KidsAre
  <2> QED
    BY <1>1, <1>2, <2>2 DEF Wild
<1>5. \A i \in S : i > 0 =>
        (i \in O <=> (heap[i].kind \in OpenEnded
                       \/ (heap[i].kind = "binop" /\ heap[i].kids[2] \in O)))
  BY <1>2 DEF Colors
<1>6. n \in S /\ n \in Int
  BY <1>1 DEF Wild
<1> HIDE DEF S
<1>7. g = again(g)
  <2>1. ASSUME NEW i \in S
        PROVE  i \in O <=> /\ i > 0
                           /\ \/ heap[i].kind \in OpenEnded
                              \/ heap[i].kind = "binop" /\ g[heap[i].kids[2]]
    <3>1. i > 0 /\ heap[i].kind = "binop" => (g[heap[i].kids[2]] <=> heap[i].kids[2] \in O)
      BY <1>4
    <3> QED
      BY <1>3, <1>5, <3>1
  <2>2. g = [i \in S |-> i \in O]
    OBVIOUS
  <2> HIDE DEF g
  <2>3. \A i \in S : (i \in O) = (/\ i > 0
                                  /\ \/ heap[i].kind \in OpenEnded
                                     \/ heap[i].kind = "binop" /\ g[heap[i].kids[2]])
    <3> SUFFICES ASSUME NEW i \in S
                 PROVE  (i \in O) = (/\ i > 0
                                    /\ \/ heap[i].kind \in OpenEnded
                                       \/ heap[i].kind = "binop" /\ g[heap[i].kids[2]])
      OBVIOUS
    <3> DEFINE b == /\ i > 0
                    /\ \/ heap[i].kind \in OpenEnded
                       \/ heap[i].kind = "binop" /\ g[heap[i].kids[2]]
    <3>1. b \in BOOLEAN
      OBVIOUS
    <3>2. i \in O <=> b
      BY <2>1
    <3> HIDE DEF b
    <3>3. (i \in O) = b
      BY <3>1, <3>2
    <3> QED
      BY <3>3 DEF b
  <2>4. [i \in S |-> i \in O] = again(g)
    BY <2>3, Zenon
  <2> QED
    BY <2>2, <2>4
<1>8. f = again(f)
  BY <1>7
<1>9. IsOpenEnded(n) => f[n]
  BY DEF IsOpenEnded, S
<1> HIDE DEF f
<1>10. \A i \in S : f[i] <=> /\ i > 0
                             /\ \/ heap[i].kind \in OpenEnded
                                \/ heap[i].kind = "binop" /\ f[heap[i].kids[2]]
  BY <1>8
<1> DEFINE Wrong == {i \in S : i > 0 /\ f[i] /\ i \notin O}
<1>11. Wrong = {}
  <2> SUFFICES ASSUME Wrong # {} PROVE FALSE
    OBVIOUS
  <2>1. Wrong \in SUBSET Nat
    BY <1>2
  <2>2. PICK i \in Wrong : \A j \in Wrong : i <= j
    BY <2>1, MinExists
  <2>3. i \in S /\ i > 0 /\ f[i] /\ i \notin O
    BY <2>2
  <2>4. heap[i].kind = "binop" /\ f[heap[i].kids[2]] /\ heap[i].kids[2] \notin O
    BY <1>5, <1>10, <2>3
  <2> DEFINE k == heap[i].kids[2]
  <2>5. k \in S /\ k \in Int /\ k < i /\ i \in Int
    BY <1>2, <1>4, <2>3, <2>4
  <2>6. f[k] /\ k \notin O
    BY <2>4
  <2> HIDE DEF k
  <2>7. k > 0
    BY <1>10, <2>5, <2>6
  <2>8. k \in Wrong
    BY <2>5, <2>6, <2>7
  <2> QED
    BY <2>2, <2>5, <2>8
<1>12. f[n] => n \in O
  BY <1>6, <1>10, <1>11
<1> QED
  BY <1>9, <1>12

(* An element of a list, ...                                               *)
LEMMA KidIs == ASSUME NEW S, NEW kids \in Seq(S), NEW j \in DOMAIN kids PROVE kids[j] \in S
OBVIOUS

(* ... and a list of two.                                                  *)
LEMMA PairIsNotEmpty == \A kids : Len(kids) = 2 => kids # <<>>
OBVIOUS

(* ... and the trees that end in an if without else those of the color E.  *)
LEMMA EndsInIfIs ==
  ASSUME NEW O, NEW E, Nodes(heap), Colors(heap, O, E), NEW n \in Wild .. Len(heap)
  PROVE  EndsInIf(n) => n \in E
<1>1. Len(heap) \in Nat /\ DOMAIN heap = 1 .. Len(heap)
  BY HeapIsSeq
<1> DEFINE S == Wild .. n
           again(f) == [i \in S |-> /\ i > 0
                                    /\ \/ heap[i].kind = "if" /\ heap[i].kids[3] = NULL
                                       \/ /\ heap[i].kind \in OpenEnded \union {"binop"}
                                          /\ f[heap[i].kids[Len(heap[i].kids)]]]
           g == [i \in S |-> i \in E]
           f == CHOOSE f : f = again(f)
<1>2. \A i \in S : i \in Int /\ (i > 0 => i \in DOMAIN heap /\ i \in 1 .. Len(heap))
  BY <1>1 DEF Wild
<1>3. \A i \in S : i \in E => i > 0
  BY <1>1, <1>2 DEF Colors
<1>4. ASSUME NEW i \in S, i > 0, heap[i].kind \in OpenEnded \union {"binop"}
      PROVE  LET k == heap[i].kids[Len(heap[i].kids)] IN k \in S /\ k \in Int /\ k < i
  <2>1. /\ heap[i].kids \in Seq(Wild .. i - 1)
        /\ heap[i].kind = "binop" => Len(heap[i].kids) = 2
        /\ heap[i].kind \in OpenEnded => heap[i].kids # <<>>
    BY <1>2, <1>4 DEF Nodes
  <2>2. heap[i].kids # <<>>
    BY <1>4, <2>1, PairIsNotEmpty
  <2>3. heap[i].kids[Len(heap[i].kids)] \in Wild .. i - 1
    BY <2>1, <2>2, KidsAre
  <2> QED
    BY <1>1, <1>2, <2>3 DEF Wild
<1>5. \A i \in S : i > 0 =>
        (i \in E <=> ((heap[i].kind = "if" /\ heap[i].kids[3] = NULL)
                       \/ (/\ heap[i].kind \in OpenEnded \union {"binop"}
                           /\ heap[i].kids[Len(heap[i].kids)] \in E)))
  BY <1>2 DEF Colors
<1>6. n \in S /\ n \in Int
  BY <1>1 DEF Wild
<1> HIDE DEF S
<1>7. g = again(g)
  <2>1. ASSUME NEW i \in S
        PROVE  i \in E <=> /\ i > 0
                           /\ \/ heap[i].kind = "if" /\ heap[i].kids[3] = NULL
                              \/ /\ heap[i].kind \in OpenEnded \union {"binop"}
                                 /\ g[heap[i].kids[Len(heap[i].kids)]]
    <3>1. i > 0 /\ heap[i].kind \in OpenEnded \union {"binop"} =>
            (g[heap[i].kids[Len(heap[i].kids)]] <=> heap[i].kids[Len(heap[i].kids)] \in E)
      BY <1>4
    <3> HIDE DEF g
    <3> QED
      BY <1>3, <1>5, <3>1
  <2>2. g = [i \in S |-> i \in E]
    OBVIOUS
  <2> HIDE DEF g
  <2>3. \A i \in S : (i \in E) = (/\ i > 0
                                  /\ \/ heap[i].kind = "if" /\ heap[i].kids[3] = NULL
                                     \/ /\ heap[i].kind \in OpenEnded \union {"binop"}
                                        /\ g[heap[i].kids[Len(heap[i].kids)]])
    <3> SUFFICES ASSUME NEW i \in S
                 PROVE  (i \in E) = (/\ i > 0
                                    /\ \/ heap[i].kind = "if" /\ heap[i].kids[3] = NULL
                                       \/ /\ heap[i].kind \in OpenEnded \union {"binop"}
                                          /\ g[heap[i].kids[Len(heap[i].kids)]])
      OBVIOUS
    <3> DEFINE b == /\ i > 0
                    /\ \/ heap[i].kind = "if" /\ heap[i].kids[3] = NULL
                       \/ /\ heap[i].kind \in OpenEnded \union {"binop"}
                          /\ g[heap[i].kids[Len(heap[i].kids)]]
    <3>1. b \in BOOLEAN
      OBVIOUS
    <3>2. i \in E <=> b
      BY <2>1
    <3> HIDE DEF b
    <3>3. (i \in E) = b
      BY <3>1, <3>2
    <3> QED
      BY <3>3 DEF b
  <2>4. [i \in S |-> i \in E] = again(g)
    BY <2>3, Zenon
  <2> QED
    BY <2>2, <2>4
<1>8. f = again(f)
  BY <1>7
<1>9. EndsInIf(n) => f[n]
  BY DEF EndsInIf, S
<1> HIDE DEF f
<1>10. \A i \in S : f[i] <=> /\ i > 0
                             /\ \/ heap[i].kind = "if" /\ heap[i].kids[3] = NULL
                                \/ /\ heap[i].kind \in OpenEnded \union {"binop"}
                                   /\ f[heap[i].kids[Len(heap[i].kids)]]
  BY <1>8
<1> DEFINE Wrong == {i \in S : i > 0 /\ f[i] /\ i \notin E}
<1>11. Wrong = {}
  <2> SUFFICES ASSUME Wrong # {} PROVE FALSE
    OBVIOUS
  <2>1. Wrong \in SUBSET Nat
    BY <1>2
  <2>2. PICK i \in Wrong : \A j \in Wrong : i <= j
    BY <2>1, MinExists
  <2>3. i \in S /\ i > 0 /\ f[i] /\ i \notin E
    BY <2>2
  <2> DEFINE k == heap[i].kids[Len(heap[i].kids)]
  <2>4. heap[i].kind \in OpenEnded \union {"binop"} /\ f[k] /\ k \notin E
    BY <1>5, <1>10, <2>3
  <2>5. k \in S /\ k \in Int /\ k < i /\ i \in Int
    BY <1>2, <1>4, <2>3, <2>4
  <2>6. f[k] /\ k \notin E
    BY <2>4
  <2> HIDE DEF k
  <2>7. k > 0
    BY <1>10, <2>5, <2>6
  <2>8. k \in Wrong
    BY <2>5, <2>6, <2>7
  <2> QED
    BY <2>2, <2>5, <2>8
<1>12. f[n] => n \in E
  BY <1>6, <1>10, <1>11
<1> QED
  BY <1>9, <1>12
-----------------------------------------------------------------------------
(* The two properties follow: the types from the shapes, ...               *)
LEMMA SoundTypes == Sound => TypeOK
<1> SUFFICES ASSUME Sound PROVE TypeOK
  OBVIOUS
<1>1. L!TypeOK /\ want \in 0 .. 2
  BY DEF Sound, LexTyped, IInv
<1>2. {current, next} \subseteq Tokens /\ \A i \in DOMAIN read : read[i] \in Readable
  BY DEF Sound, TokensTyped
<1>3. PICK O, E : World(stack, heap, Good, current, O, E)
  BY DEF Sound, Shaped
<1>4. Len(heap) \in Nat /\ DOMAIN heap = 1 .. Len(heap)
  BY <1>3, HeapIsSeq DEF World
<1>5. ASSUME NEW i \in DOMAIN heap, NEW j \in DOMAIN heap[i].kids PROVE heap[i].kids[j] < i
  <2>1. heap[i].kids \in Seq(Wild .. i - 1)
    BY <1>3 DEF World, Nodes
  <2>2. heap[i].kids[j] \in Wild .. i - 1
    BY <1>5, <2>1, KidIs
  <2> QED
    BY <1>4, <2>2 DEF Wild
<1>6. Wild .. Len(heap) \subseteq Pointers
  BY <1>4 DEF Wild, Pointers, NULL
<1>7. ASSUME NEW i \in DOMAIN stack
      PROVE  stack[i].fn \in Calls /\ \A j \in DOMAIN stack[i].kids : stack[i].kids[j] \in Pointers
  <2>1. stack[i].fn \in Calls /\ stack[i].kids \in Seq(Wild .. Len(heap))
    BY <1>3, <1>7 DEF World, CallsOK, Typed
  <2>2. \A j \in DOMAIN stack[i].kids : stack[i].kids[j] \in Wild .. Len(heap)
    BY <2>1, KidIs
  <2> QED
    BY <1>6, <2>1, <2>2
<1> QED
  BY <1>1, <1>2, <1>5, <1>7 DEF TypeOK

(* ... and how things bind from the colors.                                *)
LEMMA SoundBinds == Sound => Binds
<1> SUFFICES ASSUME Sound PROVE Binds
  OBVIOUS
<1>1. PICK O, E : World(stack, heap, Good, current, O, E)
  BY DEF Sound, Shaped
<1>2. Nodes(heap) /\ Colors(heap, O, E) /\ BindsWell(heap, Good, O, E)
  BY <1>1 DEF World
<1>3. Len(heap) \in Nat /\ DOMAIN heap = 1 .. Len(heap)
  BY <1>2, HeapIsSeq
<1>4. \A n : IsInfix(n) <=> InfixAt(heap, n)
  BY DEF IsInfix, InfixAt
<1>5. PowersRespected
  BY <1>2, <1>4 DEF PowersRespected, BindsWell
<1>6. ASSUME NEW n \in DOMAIN heap, IsInfix(n) PROVE ~ IsOpenEnded(heap[n].kids[1])
  <2> DEFINE l == heap[n].kids[1]
  <2>1. l \notin O
    BY <1>2, <1>4, <1>6 DEF BindsWell
  <2>2. heap[n].kids \in Seq(Wild .. n - 1) /\ Len(heap[n].kids) = 2
    BY <1>2, <1>6 DEF IsInfix, Nodes
  <2>3. l \in Wild .. n - 1
    BY <2>2, KidsAre
  <2>4. l \in Wild .. Len(heap)
    BY <1>3, <2>3 DEF Wild
  <2> HIDE DEF l
  <2>5. ~ IsOpenEnded(l)
    BY <1>2, <2>1, <2>4, OpenEndedIs
  <2> QED
    BY <2>5 DEF l
<1>7. ASSUME ~ failed /\ ~ hole, NEW n \in DOMAIN heap, heap[n].kind = "if", heap[n].kids[3] # NULL
      PROVE  ~ EndsInIf(heap[n].kids[2])
  <2> DEFINE l == heap[n].kids[2]
  <2>1. l \notin E
    BY <1>2, <1>7 DEF BindsWell, Good
  <2>2. heap[n].kids \in Seq(Wild .. n - 1) /\ Len(heap[n].kids) = 3
    BY <1>2, <1>7 DEF Nodes
  <2>3. l \in Wild .. n - 1
    BY <2>2, KidsAre
  <2>4. l \in Wild .. Len(heap)
    BY <1>3, <2>3 DEF Wild
  <2> HIDE DEF l
  <2>5. ~ EndsInIf(l)
    BY <1>2, <2>1, <2>4, EndsInIfIs
  <2> QED
    BY <2>5 DEF l
<1> QED
  BY <1>5, <1>6, <1>7 DEF Binds

(* Whatever text is compiled, every pointer the parser holds or puts into  *)
(* a node is at a node it made before, NULL, or one nobody has written     *)
(* (parser.c:233, 338, 455), so that what it makes has no cycles; and the  *)
(* tokens it reads are never EOF or ERROR (parser.c:53).                   *)
THEOREM TextTyped == FrontEndSpec => []TypeOK
BY StartsSound, RunsSound, SoundTypes, PTL DEF FrontEndSpec

(* Whatever text is compiled, and whatever is wrong with it: in every tree *)
(* at any time, operators bind as their powers say and to the left among   *)
(* equals (parser.c:531), no construct that ends with an expression is a   *)
(* left operand (parser.c:471), and while nothing is missing or wrong an   *)
(* else belongs to the nearest if (parser.c:135).                          *)
THEOREM AlwaysBinds == FrontEndSpec => []Binds
BY StartsSound, RunsSound, SoundBinds, PTL DEF FrontEndSpec
-----------------------------------------------------------------------------
(* The lexer's reference is defined by recursion over the text.  Its three *)
(* functions exist (Minima's RecursionExists), and are what they are       *)
(* defined to be.                                                          *)

(* What StringEnd is, and that it is a place after the first of the string, *)
(* of the text or behind it.                                               *)
LEMMA StringEnds ==
  ASSUME NEW symbols, NEW s \in Seq(symbols), NEW i \in 1 .. Len(s) + 2
  PROVE  /\ StringEnd(s)[i] = IF i > Len(s) \/ s[i] = "\"" THEN i + 1
                              ELSE IF s[i] = "\\" THEN StringEnd(s)[i + 2] ELSE StringEnd(s)[i + 1]
         /\ StringEnd(s)[i] \in i + 1 .. Len(s) + 3
<1> DEFINE n == Len(s)
           S == 1 .. n + 2
           V == 1 .. n + 3
           body(f, k) == IF k > n \/ s[k] = "\"" THEN k + 1
                         ELSE IF s[k] = "\\" THEN f[k + 2] ELSE f[k + 1]
           again(f) == [k \in S |-> body(f, k)]
           end == CHOOSE f : f = again(f)
           F == [f \in [S -> V] |-> again(f)]
           m == [k \in S |-> n + 2 - k]
           start == [k \in S |-> 1]
           N == n + 2
<1>1. n \in Nat /\ i \in S
  OBVIOUS
<1> HIDE DEF n
<1>2. N \in Nat /\ m \in [S -> 0 .. N] /\ start \in [S -> V]
  BY <1>1
<1>3. ASSUME NEW k \in S, k <= n
      PROVE  k + 1 \in S /\ k + 2 \in S /\ m[k + 1] < m[k] /\ m[k + 2] < m[k]
  BY <1>1, <1>3
<1>4. ASSUME NEW k \in S PROVE k + 1 \in V /\ (~ (k > n) => k <= n)
  BY <1>1
<1>5. ASSUME NEW f \in [S -> V], NEW k \in S PROVE body(f, k) \in V
  BY <1>3, <1>4
<1>6. ASSUME NEW f \in [S -> V], NEW g \in [S -> V], NEW k \in S,
             \A j \in S : m[j] < m[k] => f[j] = g[j]
      PROVE  body(f, k) = body(g, k)
  <2>1. k <= n => f[k + 1] = g[k + 1] /\ f[k + 2] = g[k + 2]
    BY <1>3, <1>6
  <2> QED
    BY <1>4, <2>1
<1> HIDE DEF body, m, start, S, V, N
<1>7. F \in [[S -> V] -> [S -> V]] /\ \A f \in [S -> V] : F[f] = again(f)
  BY <1>5
<1>8. Recursive(F, S, V, N, m)
  <2>1. \A f, g \in [S -> V] : \A k \in S :
          (\A j \in S : m[j] < m[k] => f[j] = g[j]) => F[f][k] = F[g][k]
    BY <1>6, <1>7
  <2> HIDE DEF F
  <2>2. [S -> V] # {}
    BY <1>2
  <2> QED
    BY <1>2, <1>7, <2>1, <2>2, Zenon DEF Recursive
<1> HIDE DEF F, again, end
<1>9. \E f \in [S -> V] : F[f] = f
  BY <1>8, RecursionExists
<1>10. end = again(end)
  BY <1>7, <1>9 DEF end
<1>11. StringEnd(s) = end
  BY DEF StringEnd, body, S, n, end, again
<1>12. \A k \in S : end[k] = body(end, k)
  BY <1>10 DEF again
<1> DEFINE After(k) == k + 1 .. n + 3
           Wrong == {m[k] : k \in {j \in S : end[j] \notin After(j)}}
<1>13. Wrong = {}
  <2> SUFFICES ASSUME Wrong # {} PROVE FALSE
    OBVIOUS
  <2>1. Wrong \in SUBSET Nat
    BY <1>2
  <2>2. PICK w \in Wrong : \A v \in Wrong : w <= v
    BY <2>1, MinExists
  <2>3. PICK k \in S : w = m[k] /\ end[k] \notin After(k)
    BY <2>2
  <2>4. \A j \in S : m[j] < m[k] => end[j] \in After(j)
    <3> SUFFICES ASSUME NEW j \in S, m[j] < m[k], end[j] \notin After(j) PROVE FALSE
      OBVIOUS
    <3>1. m[j] \in Wrong
      OBVIOUS
    <3>2. m[k] <= m[j] /\ m[j] \in Nat /\ m[k] \in Nat
      BY <1>2, <2>2, <2>3, <3>1
    <3> QED
      BY <3>2
  <2>5. k <= n => end[k + 1] \in After(k + 1) /\ end[k + 2] \in After(k + 2)
    BY <1>3, <2>4
  <2>6. k \in Int /\ n \in Int /\ k + 1 \in After(k)
    BY <1>1 DEF S
  <2>7. After(k + 1) \subseteq After(k) /\ After(k + 2) \subseteq After(k)
    BY <2>6
  <2> HIDE DEF After
  <2>8. body(end, k) \in After(k)
    BY <1>4, <2>5, <2>6, <2>7 DEF body
  <2> QED
    BY <1>12, <2>3, <2>8
<1>14. end[i] = body(end, i) /\ end[i] \in After(i)
  BY <1>1, <1>12, <1>13
<1> QED
  BY <1>11, <1>14 DEF body, n

(* What CommentEnd is, and that it is a place not before i, of the text or *)
(* behind it.                                                              *)
LEMMA CommentEnds ==
  ASSUME NEW symbols, NEW s \in Seq(symbols), NEW i \in 1 .. Len(s) + 2, NEW d \in Nat
  PROVE  /\ CommentEnd(s)[i][d] =
              IF d = 0 \/ i > Len(s) THEN i
              ELSE IF Pair(s, i, "*", "/") THEN CommentEnd(s)[i + 2][d - 1]
              ELSE IF Pair(s, i, "/", "*") THEN CommentEnd(s)[i + 2][d + 1]
              ELSE CommentEnd(s)[i + 1][d]
         /\ CommentEnd(s)[i][d] \in i .. Len(s) + 2
<1> DEFINE n == Len(s)
           S == 1 .. n + 2
           V == [Nat -> S]
           val(f, k, e) == IF e = 0 \/ k > n THEN k
                           ELSE IF Pair(s, k, "*", "/") THEN f[k + 2][e - 1]
                           ELSE IF Pair(s, k, "/", "*") THEN f[k + 2][e + 1]
                           ELSE f[k + 1][e]
           body(f, k) == [e \in Nat |-> val(f, k, e)]
           again(f) == [k \in S |-> body(f, k)]
           end == CHOOSE f : f = again(f)
           F == [f \in [S -> V] |-> again(f)]
           m == [k \in S |-> n + 2 - k]
           start == [k \in S |-> [e \in Nat |-> 1]]
           N == n + 2
<1>1. n \in Nat /\ i \in S
  OBVIOUS
<1>2. \A k : Pair(s, k, "*", "/") \/ Pair(s, k, "/", "*") => k < n
  BY DEF Pair
<1> HIDE DEF n
<1>3. N \in Nat /\ m \in [S -> 0 .. N] /\ start \in [S -> V]
  BY <1>1
<1>4. ASSUME NEW k \in S, k <= n
      PROVE  /\ k + 1 \in S /\ m[k + 1] < m[k]
             /\ k < n => k + 2 \in S /\ m[k + 2] < m[k]
  BY <1>1, <1>4
<1>5. ASSUME NEW k \in S PROVE ~ (k > n) => k <= n
  BY <1>1
<1>6. ASSUME NEW e \in Nat PROVE e + 1 \in Nat /\ (e # 0 => e - 1 \in Nat)
  OBVIOUS
<1> HIDE DEF S, m, start, N
<1>7. ASSUME NEW f \in [S -> V], NEW k \in S PROVE body(f, k) \in V
  <2> SUFFICES ASSUME NEW e \in Nat PROVE val(f, k, e) \in S
    OBVIOUS
  <2>1. \A j \in S, g \in Nat : f[j][g] \in S
    OBVIOUS
  <2> QED
    BY <1>2, <1>4, <1>5, <1>6, <2>1
<1>8. ASSUME NEW f, NEW g, NEW k \in S, \A j \in S : m[j] < m[k] => f[j] = g[j]
      PROVE  body(f, k) = body(g, k)
  <2>1. k <= n => f[k + 1] = g[k + 1] /\ (k < n => f[k + 2] = g[k + 2])
    BY <1>4, <1>8
  <2>2. \A e \in Nat : val(f, k, e) = val(g, k, e)
    BY <1>2, <1>5, <2>1
  <2> QED
    BY <2>2
<1> HIDE DEF val, body, V
<1>9. F \in [[S -> V] -> [S -> V]] /\ \A f \in [S -> V] : F[f] = again(f)
  BY <1>7
<1>10. Recursive(F, S, V, N, m)
  <2>1. \A f, g \in [S -> V] : \A k \in S :
          (\A j \in S : m[j] < m[k] => f[j] = g[j]) => F[f][k] = F[g][k]
    BY <1>8, <1>9
  <2> HIDE DEF F
  <2>2. [S -> V] # {}
    BY <1>3
  <2> QED
    BY <1>3, <1>9, <2>1, <2>2, Zenon DEF Recursive
<1> HIDE DEF F, again, end
<1>11. \E f \in [S -> V] : F[f] = f
  BY <1>10, RecursionExists
<1>12. end = again(end)
  BY <1>9, <1>11 DEF end
<1>13. CommentEnd(s) = end
  BY DEF CommentEnd, body, val, S, n, end, again
<1>14. \A k \in S, e \in Nat : end[k][e] = val(end, k, e)
  <2>1. \A k \in S : end[k] = body(end, k)
    BY <1>12 DEF again
  <2> QED
    BY <2>1 DEF body
<1> DEFINE After(k) == k .. n + 2
           Wrong == {m[k] : k \in {j \in S : ~ \A e \in Nat : end[j][e] \in After(j)}}
<1>15. Wrong = {}
  <2> SUFFICES ASSUME Wrong # {} PROVE FALSE
    OBVIOUS
  <2>1. Wrong \in SUBSET Nat
    BY <1>3
  <2>2. PICK w \in Wrong : \A v \in Wrong : w <= v
    BY <2>1, MinExists
  <2> HIDE DEF After
  <2>3. PICK k \in S : w = m[k] /\ ~ \A e \in Nat : end[k][e] \in After(k)
    BY <2>2
  <2>4. \A j \in S : m[j] < m[k] => \A e \in Nat : end[j][e] \in After(j)
    <3> SUFFICES ASSUME NEW j \in S, m[j] < m[k], ~ \A e \in Nat : end[j][e] \in After(j)
                 PROVE  FALSE
      OBVIOUS
    <3>1. m[j] \in Wrong
      OBVIOUS
    <3>2. m[k] <= m[j] /\ m[j] \in Nat /\ m[k] \in Nat
      BY <1>3, <2>2, <2>3, <3>1
    <3> QED
      BY <3>2
  <2>5. PICK e \in Nat : end[k][e] \notin After(k)
    BY <2>3
  <2>6. k <= n => \A g \in Nat : end[k + 1][g] \in After(k + 1)
    BY <1>4, <2>4
  <2>7. k < n => \A g \in Nat : end[k + 2][g] \in After(k + 2)
    <3>1. k < n => k <= n
      BY <1>1 DEF S
    <3> QED
      BY <1>4, <2>4, <3>1
  <2>8. k \in Int /\ n \in Int /\ k \in After(k)
    BY <1>1 DEF S, After
  <2>9. After(k + 1) \subseteq After(k) /\ After(k + 2) \subseteq After(k)
    BY <2>8 DEF After
  <2>10. val(end, k, e) \in After(k)
    BY <1>2, <1>5, <1>6, <2>6, <2>7, <2>8, <2>9 DEF val
  <2> QED
    BY <1>14, <2>5, <2>10
<1>16. end[i][d] = val(end, i, d) /\ end[i][d] \in After(i)
  BY <1>1, <1>14, <1>15
<1> QED
  BY <1>13, <1>16 DEF val, n

(* What TokensFrom is, and that it gives tokens. *)
LEMMA TokensFromIs ==
  ASSUME NEW symbols, NEW s \in Seq(symbols), NEW i \in 1 .. Len(s) + 3
  PROVE  /\ TokensFrom(s)[i] =
              IF i > Len(s) THEN <<>>
              ELSE IF s[i] \in L!Blanks THEN TokensFrom(s)[i + 1]
              ELSE IF Pair(s, i, "/", "*") THEN TokensFrom(s)[CommentEnd(s)[i + 2][1]]
              ELSE IF s[i] = "\"" THEN <<"STRING">> \o TokensFrom(s)[StringEnd(s)[i + 1]]
              ELSE IF i < Len(s) /\ L!TwoSymbols(s[i], s[i + 1]) # "none"
                THEN <<L!TwoSymbols(s[i], s[i + 1])>> \o TokensFrom(s)[i + 2]
              ELSE <<IF s[i] \in L!Longer THEN L!Alone(s[i]) ELSE L!OneSymbol(s[i])>>
                     \o TokensFrom(s)[i + 1]
         /\ TokensFrom(s)[i] \in Seq(Tokens)
<1> DEFINE n == Len(s)
           S == 1 .. n + 3
           V == Seq(Tokens)
           C(k) == CommentEnd(s)[k + 2][1]
           E(k) == StringEnd(s)[k + 1]
           two(k) == L!TwoSymbols(s[k], s[k + 1])
           one(k) == IF s[k] \in L!Longer THEN L!Alone(s[k]) ELSE L!OneSymbol(s[k])
           body(f, k) == IF k > n THEN <<>>
                         ELSE IF s[k] \in L!Blanks THEN f[k + 1]
                         ELSE IF Pair(s, k, "/", "*") THEN f[C(k)]
                         ELSE IF s[k] = "\"" THEN <<"STRING">> \o f[E(k)]
                         ELSE IF k < n /\ two(k) # "none" THEN <<two(k)>> \o f[k + 2]
                         ELSE <<one(k)>> \o f[k + 1]
           again(f) == [k \in S |-> body(f, k)]
           tokens == CHOOSE f : f = again(f)
           F == [f \in [S -> V] |-> again(f)]
           m == [k \in S |-> n + 3 - k]
           start == [k \in S |-> <<>>]
           N == n + 3
<1>1. n \in Nat /\ i \in S
  OBVIOUS
<1>2. \A k : Pair(s, k, "/", "*") => k < n
  BY DEF Pair
<1>3. \A k \in S : k < n => C(k) \in k + 2 .. n + 2
  <2> SUFFICES ASSUME NEW k \in S, k < n PROVE C(k) \in k + 2 .. n + 2
    OBVIOUS
  <2>1. k + 2 \in 1 .. Len(s) + 2
    BY <1>1
  <2> QED
    BY <2>1, CommentEnds
<1>4. \A k \in S : k <= n => E(k) \in k + 2 .. n + 3
  <2> SUFFICES ASSUME NEW k \in S, k <= n PROVE E(k) \in k + 2 .. n + 3
    OBVIOUS
  <2>1. k + 1 \in 1 .. Len(s) + 2 /\ k + 1 + 1 = k + 2
    BY <1>1
  <2>2. StringEnd(s)[k + 1] \in k + 1 + 1 .. Len(s) + 3
    BY <2>1, StringEnds
  <2> QED
    BY <2>1, <2>2
<1>5. \A k : two(k) # "none" => two(k) \in Tokens
  BY LexerGives
<1>6. \A k : s[k] # "\"" => one(k) \in Tokens
  <2> SUFFICES ASSUME NEW k, s[k] # "\"" PROVE one(k) \in Tokens
    OBVIOUS
  <2>1. s[k] \in L!Longer => s[k] \in {":", "<", ">", "/"}
    BY DEF L!Longer
  <2> QED
    BY <2>1, LexerGives
<1> HIDE DEF n, C, E, two, one
<1>7. N \in Nat /\ m \in [S -> 0 .. N] /\ start \in [S -> V]
  BY <1>1
<1>8. ASSUME NEW k \in S
      PROVE  /\ ~ (k > n) => k <= n
             /\ k <= n => k + 1 \in S /\ m[k + 1] < m[k]
             /\ k <= n => E(k) \in S /\ m[E(k)] < m[k]
             /\ k < n => k + 2 \in S /\ m[k + 2] < m[k]
             /\ k < n => C(k) \in S /\ m[C(k)] < m[k]
  <2>1. k \in Int /\ k >= 1 /\ k <= n + 3
    BY <1>1
  <2>2. \A j \in k + 1 .. n + 3 : j \in S /\ m[j] < m[k]
    BY <1>1, <2>1
  <2>3. k <= n => k + 1 \in k + 1 .. n + 3
    BY <1>1, <2>1
  <2>4. k < n => k + 2 \in k + 1 .. n + 3
    BY <1>1, <2>1
  <2>5. k < n => C(k) \in k + 1 .. n + 3
    <3>1. k + 2 .. n + 2 \subseteq k + 1 .. n + 3
      BY <1>1, <2>1
    <3> QED
      BY <1>3, <3>1
  <2>6. k <= n => E(k) \in k + 1 .. n + 3
    <3>1. k + 2 .. n + 3 \subseteq k + 1 .. n + 3
      BY <1>1, <2>1
    <3> QED
      BY <1>4, <3>1
  <2>7. ~ (k > n) => k <= n
    BY <1>1, <2>1
  <2> QED
    BY <2>2, <2>3, <2>4, <2>5, <2>6, <2>7
<1>9. "STRING" \in Tokens
  BY LexerGives
<1> HIDE DEF S, m, start, N
<1>10. ASSUME NEW x \in Tokens, NEW v \in V PROVE <<x>> \o v \in V
  OBVIOUS
<1>11. <<>> \in V
  OBVIOUS
<1> HIDE DEF V
<1>12. ASSUME NEW f, NEW k \in S, \A j \in S : m[j] < m[k] => f[j] \in V
       PROVE  body(f, k) \in V
  <2>1. k <= n => f[k + 1] \in V /\ f[E(k)] \in V
    BY <1>8, <1>12
  <2>2. k < n => f[k + 2] \in V /\ f[C(k)] \in V
    BY <1>8, <1>12
  <2> QED
    BY <1>2, <1>5, <1>6, <1>8, <1>9, <1>10, <1>11, <2>1, <2>2
<1>13. ASSUME NEW f, NEW g, NEW k \in S, \A j \in S : m[j] < m[k] => f[j] = g[j]
       PROVE  body(f, k) = body(g, k)
  <2>1. k <= n => f[k + 1] = g[k + 1] /\ f[E(k)] = g[E(k)]
    BY <1>8, <1>13
  <2>2. k < n => f[k + 2] = g[k + 2] /\ f[C(k)] = g[C(k)]
    BY <1>8, <1>13
  <2> QED
    BY <1>2, <1>8, <2>1, <2>2
<1> HIDE DEF body
<1>14. F \in [[S -> V] -> [S -> V]] /\ \A f \in [S -> V] : F[f] = again(f)
  BY <1>12
<1>15. Recursive(F, S, V, N, m)
  <2>1. \A f, g \in [S -> V] : \A k \in S :
          (\A j \in S : m[j] < m[k] => f[j] = g[j]) => F[f][k] = F[g][k]
    BY <1>13, <1>14
  <2> HIDE DEF F
  <2>2. [S -> V] # {}
    BY <1>7
  <2> QED
    BY <1>7, <1>14, <2>1, <2>2, Zenon DEF Recursive
<1> HIDE DEF F, again, tokens
<1>16. \E f \in [S -> V] : F[f] = f
  BY <1>15, RecursionExists
<1>17. tokens = again(tokens)
  BY <1>14, <1>16 DEF tokens
<1>18. TokensFrom(s) = tokens
  BY DEF TokensFrom, body, S, n, tokens, again, C, E, two, one
<1>19. \A k \in S : tokens[k] = body(tokens, k)
  BY <1>17 DEF again
<1> DEFINE Wrong == {m[k] : k \in {j \in S : tokens[j] \notin V}}
<1>20. Wrong = {}
  <2> SUFFICES ASSUME Wrong # {} PROVE FALSE
    OBVIOUS
  <2>1. Wrong \in SUBSET Nat
    BY <1>7
  <2>2. PICK w \in Wrong : \A v \in Wrong : w <= v
    BY <2>1, MinExists
  <2>3. PICK k \in S : w = m[k] /\ tokens[k] \notin V
    BY <2>2
  <2>4. \A j \in S : m[j] < m[k] => tokens[j] \in V
    <3> SUFFICES ASSUME NEW j \in S, m[j] < m[k], tokens[j] \notin V PROVE FALSE
      OBVIOUS
    <3>1. m[j] \in Wrong
      OBVIOUS
    <3>2. m[k] <= m[j] /\ m[j] \in Nat /\ m[k] \in Nat
      BY <1>7, <2>2, <2>3, <3>1
    <3> QED
      BY <3>2
  <2> QED
    BY <1>12, <1>19, <2>3, <2>4
<1>21. tokens[i] = body(tokens, i) /\ tokens[i] \in V
  BY <1>1, <1>19, <1>20
<1> QED
  BY <1>18, <1>21 DEF body, V, n, C, E, two, one

-----------------------------------------------------------------------------
(* A mode in which next_token has seen the first of two symbols, and which. *)
Marking == {":", "<", ">", "/", "comment *", "comment /", "escape"}
MarkOf(m) ==
  CASE m = "comment *" -> "*" [] m = "comment /" -> "/" [] m = "escape" -> "\\" [] OTHER -> m

(* The tokens of the text s that are not given before next_token is behind *)
(* n symbols of it in mode m, inside of d comments.                        *)
Rest(s, n, m, d) ==
  CASE m = "space" -> TokensFrom(s)[n + 1]
    [] m = "comment" -> TokensFrom(s)[CommentEnd(s)[n + 1][d]]
    [] m \in {"comment *", "comment /"} -> TokensFrom(s)[CommentEnd(s)[n][d]]
    [] m = "\"" -> <<"STRING">> \o TokensFrom(s)[StringEnd(s)[n + 1]]
    [] m = "escape" -> <<"STRING">> \o TokensFrom(s)[StringEnd(s)[n]]
    [] OTHER -> TokensFrom(s)[n]

(* A token t and then those of rest.                                      *)
Before(t, rest) == <<t>> \o rest

(* c is the n-th symbol of the text s.                                     *)
SymbolAt(s, n, c) == (\E symbols : s \in Seq(symbols)) /\ n \in 1 .. Len(s) /\ s[n] = c

(* What TokensFrom is where the symbol is known. *)
LEMMA TokensAt ==
  ASSUME NEW s, NEW n \in Nat, NEW c, SymbolAt(s, n, c)
  PROVE  TokensFrom(s)[n] =
           IF c \in L!Blanks THEN TokensFrom(s)[n + 1]
           ELSE IF Pair(s, n, "/", "*") THEN TokensFrom(s)[CommentEnd(s)[n + 2][1]]
           ELSE IF c = "\"" THEN Before("STRING", TokensFrom(s)[StringEnd(s)[n + 1]])
           ELSE IF n < Len(s) /\ L!TwoSymbols(c, s[n + 1]) # "none"
             THEN Before(L!TwoSymbols(c, s[n + 1]), TokensFrom(s)[n + 2])
           ELSE Before(IF c \in L!Longer THEN L!Alone(c) ELSE L!OneSymbol(c), TokensFrom(s)[n + 1])
<1> DEFINE f == s[n]
           T == TokensFrom(s)
<1>1. PICK symbols : s \in Seq(symbols) /\ n \in 1 .. Len(s) /\ c = f
  BY DEF SymbolAt
<1>2. n \in 1 .. Len(s) + 3 /\ ~ (n > Len(s))
  BY <1>1
<1>3. T[n] =
        IF f \in L!Blanks THEN T[n + 1]
        ELSE IF Pair(s, n, "/", "*") THEN T[CommentEnd(s)[n + 2][1]]
        ELSE IF f = "\"" THEN <<"STRING">> \o T[StringEnd(s)[n + 1]]
        ELSE IF n < Len(s) /\ L!TwoSymbols(f, s[n + 1]) # "none"
          THEN <<L!TwoSymbols(f, s[n + 1])>> \o T[n + 2]
        ELSE <<IF f \in L!Longer THEN L!Alone(f) ELSE L!OneSymbol(f)>> \o T[n + 1]
  BY <1>1, <1>2, TokensFromIs
<1> HIDE DEF f, T
<1> QED
  BY <1>1, <1>3 DEF Before, T

(* Between two tokens, ...                                                 *)
LEMMA RestBlank ==
  ASSUME NEW s, NEW n \in Nat, NEW c \in L!Blanks, NEW d, NEW e, SymbolAt(s, n + 1, c)
  PROVE  Rest(s, n, "space", d) = Rest(s, n + 1, "space", e)
<1>1. n + 1 \in Nat
  OBVIOUS
<1>2. TokensFrom(s)[n + 1] = TokensFrom(s)[n + 1 + 1]
  BY <1>1, TokensAt
<1> QED
  BY <1>2 DEF Rest

(* ... at a symbol that is a token, ...                                    *)
LEMMA RestOne ==
  ASSUME NEW s, NEW n \in Nat, NEW c, c \notin L!Blanks, c \notin L!Longer, NEW d, NEW e,
         SymbolAt(s, n + 1, c)
  PROVE  Rest(s, n, "space", d) = Before(L!OneSymbol(c), Rest(s, n + 1, "space", e))
<1>1. n + 1 \in Nat
  OBVIOUS
<1>2. ~ Pair(s, n + 1, "/", "*") /\ c # "\"" /\ \A b : L!TwoSymbols(c, b) = "none"
  BY DEF Pair, SymbolAt, L!Longer, L!TwoSymbols
<1>3. TokensFrom(s)[n + 1] = Before(L!OneSymbol(c), TokensFrom(s)[n + 1 + 1])
  BY <1>1, <1>2, TokensAt
<1> QED
  BY <1>3 DEF Rest

(* ... at one that may begin a longer token, ...                           *)
LEMMA RestLonger ==
  ASSUME NEW s, NEW n \in Nat, NEW c \in L!Longer, NEW d, NEW e, SymbolAt(s, n + 1, c)
  PROVE  Rest(s, n, "space", d) = Rest(s, n + 1, c, e)
<1>1. n + 1 \in Nat
  OBVIOUS
<1>2. c = "\"" \/ c \in {":", "<", ">", "/"}
  BY DEF L!Longer
<1>3. CASE c = "\""
  <2>1. ~ Pair(s, n + 1, "/", "*") /\ c \notin L!Blanks
    BY <1>3 DEF Pair, SymbolAt, L!Blanks
  <2>2. TokensFrom(s)[n + 1] = Before("STRING", TokensFrom(s)[StringEnd(s)[n + 1 + 1]])
    BY <1>1, <1>3, <2>1, TokensAt
  <2> QED
    BY <1>3, <2>2 DEF Rest, Before
<1>4. CASE c \in {":", "<", ">", "/"}
  BY <1>4 DEF Rest
<1> QED
  BY <1>2, <1>3, <1>4

(* ... behind the first symbol of what may have two, ...                   *)
LEMMA RestTwo ==
  ASSUME NEW s, NEW n \in Nat, NEW c \in {":", "<", ">", "/"}, NEW b, NEW d, NEW e,
         SymbolAt(s, n, c), SymbolAt(s, n + 1, b), L!TwoSymbols(c, b) # "none"
  PROVE  Rest(s, n, c, d) = Before(L!TwoSymbols(c, b), Rest(s, n + 1, "space", e))
<1>1. n < Len(s) /\ s[n + 1] = b
  BY DEF SymbolAt
<1>2. ~ Pair(s, n, "/", "*") /\ c # "\"" /\ c \notin L!Blanks
  BY DEF Pair, SymbolAt, L!Blanks, L!TwoSymbols
<1>3. TokensFrom(s)[n] = Before(L!TwoSymbols(c, b), TokensFrom(s)[n + 2])
  BY <1>1, <1>2, TokensAt
<1>4. n + 1 + 1 = n + 2
  OBVIOUS
<1> QED
  BY <1>3, <1>4 DEF Rest

(* ... where a comment opens, ...                                          *)
LEMMA RestOpens ==
  ASSUME NEW s, NEW n \in Nat, NEW d, SymbolAt(s, n, "/"), SymbolAt(s, n + 1, "*")
  PROVE  Rest(s, n, "/", d) = Rest(s, n + 1, "comment", 1)
<1>1. Pair(s, n, "/", "*") /\ "/" \notin L!Blanks
  BY DEF SymbolAt, Pair, L!Blanks
<1>2. TokensFrom(s)[n] = TokensFrom(s)[CommentEnd(s)[n + 2][1]]
  BY <1>1, TokensAt
<1>3. n + 1 + 1 = n + 2
  OBVIOUS
<1> QED
  BY <1>2, <1>3 DEF Rest

(* ... where the first symbol turns out to be a token, ...                 *)
LEMMA RestAlone ==
  ASSUME NEW s, NEW n \in Nat, NEW c \in {":", "<", ">", "/"}, NEW b, NEW d, NEW e,
         SymbolAt(s, n, c), SymbolAt(s, n + 1, b) \/ n = Len(s),
         L!TwoSymbols(c, b) = "none", ~ (c = "/" /\ b = "*")
  PROVE  Rest(s, n, c, d) = Before(L!Alone(c), Rest(s, n, "space", e))
<1>1. n < Len(s) => s[n + 1] = b
  BY DEF SymbolAt
<1>2. c # "\"" /\ c \notin L!Blanks /\ c \in L!Longer
  BY DEF L!Blanks, L!Longer
<1>3. ~ Pair(s, n, "/", "*")
  BY <1>1 DEF Pair, SymbolAt
<1>4. TokensFrom(s)[n] = Before(L!Alone(c), TokensFrom(s)[n + 1])
  BY <1>1, <1>2, <1>3, TokensAt
<1> QED
  BY <1>4 DEF Rest

(* ... in a comment, ...                                                   *)
LEMMA RestOfComment ==
  ASSUME NEW symbols, NEW s \in Seq(symbols), NEW n \in 0 .. Len(s), NEW d \in Nat, d >= 1
  PROVE  /\ n < Len(s) /\ s[n + 1] \notin {"*", "/"} =>
              Rest(s, n, "comment", d) = Rest(s, n + 1, "comment", d)
         /\ \A m \in {"comment *", "comment /"} : Rest(s, n, "comment", d) = Rest(s, n + 1, m, d)
         /\ n >= 1 /\ s[n] = "*" =>
              /\ n < Len(s) /\ s[n + 1] = "/" =>
                   Rest(s, n, "comment *", d)
                     = Rest(s, n + 1, IF d = 1 THEN "space" ELSE "comment", d - 1)
              /\ ~ (n < Len(s) /\ s[n + 1] = "/") =>
                   Rest(s, n, "comment *", d) = Rest(s, n, "comment", d)
         /\ n >= 1 /\ s[n] = "/" =>
              /\ n < Len(s) /\ s[n + 1] = "*" =>
                   Rest(s, n, "comment /", d) = Rest(s, n + 1, "comment", d + 1)
              /\ ~ (n < Len(s) /\ s[n + 1] = "*") =>
                   Rest(s, n, "comment /", d) = Rest(s, n, "comment", d)
<1> DEFINE T == TokensFrom(s)
           C == CommentEnd(s)
<1>1. n + 1 \in 1 .. Len(s) + 2 /\ n + 1 + 1 = n + 2 /\ d # 0 /\ d - 1 \in Nat /\ d + 1 \in Nat
      /\ (n < Len(s) => ~ (n + 1 > Len(s)))
  OBVIOUS
<1>2. n < Len(s) /\ s[n + 1] \notin {"*", "/"} => C[n + 1][d] = C[n + 2][d]
  <2>1. Pair(s, n + 1, "*", "/") \/ Pair(s, n + 1, "/", "*") => s[n + 1] \in {"*", "/"}
    BY DEF Pair
  <2> QED
    BY <1>1, <2>1, CommentEnds
<1>3. ASSUME n >= 1
      PROVE  C[n][d] = IF Pair(s, n, "*", "/") THEN C[n + 2][d - 1]
                       ELSE IF Pair(s, n, "/", "*") THEN C[n + 2][d + 1]
                       ELSE C[n + 1][d]
  <2>1. n \in 1 .. Len(s) + 2 /\ ~ (n > Len(s))
    BY <1>3
  <2> QED
    BY <1>1, <2>1, CommentEnds
<1>4. n < Len(s) => C[n + 2][0] = n + 2
  <2>1. n < Len(s) => n + 2 \in 1 .. Len(s) + 2
    OBVIOUS
  <2> QED
    BY <2>1, CommentEnds
<1>5. \A a, c : Pair(s, n, a, c) <=> n < Len(s) /\ s[n] = a /\ s[n + 1] = c
  BY DEF Pair
<1>6. \A e : /\ Rest(s, n, "comment", e) = T[C[n + 1][e]]
             /\ Rest(s, n + 1, "comment", e) = T[C[n + 2][e]]
             /\ Rest(s, n + 1, "space", e) = T[n + 2]
             /\ \A m \in {"comment *", "comment /"} :
                  Rest(s, n, m, e) = T[C[n][e]] /\ Rest(s, n + 1, m, e) = T[C[n + 1][e]]
  BY <1>1 DEF Rest
<1> HIDE DEF T, C
<1>7. d = 1 => d - 1 = 0
  OBVIOUS
<1>8. n < Len(s) /\ s[n + 1] \notin {"*", "/"} =>
        Rest(s, n, "comment", d) = Rest(s, n + 1, "comment", d)
  <2>1. Rest(s, n, "comment", d) = T[C[n + 1][d]] /\ Rest(s, n + 1, "comment", d) = T[C[n + 2][d]]
    BY <1>6
  <2> QED
    BY <1>2, <2>1, Zenon
<1>9. \A m \in {"comment *", "comment /"} : Rest(s, n, "comment", d) = Rest(s, n + 1, m, d)
  BY <1>6
<1>10. ASSUME n >= 1, s[n] = "*"
       PROVE  /\ n < Len(s) /\ s[n + 1] = "/" =>
                   Rest(s, n, "comment *", d)
                     = Rest(s, n + 1, IF d = 1 THEN "space" ELSE "comment", d - 1)
              /\ ~ (n < Len(s) /\ s[n + 1] = "/") =>
                   Rest(s, n, "comment *", d) = Rest(s, n, "comment", d)
  <2>1. CASE n < Len(s) /\ s[n + 1] = "/"
    <3>1. C[n][d] = C[n + 2][d - 1]
      BY <1>3, <1>5, <1>10, <2>1
    <3>2. Rest(s, n, "comment *", d) = T[C[n][d]]
      BY <1>6
    <3>3. d = 1 => Rest(s, n + 1, "space", d - 1) = T[C[n + 2][d - 1]]
      BY <1>4, <1>6, <1>7, <2>1
    <3>4. Rest(s, n + 1, "comment", d - 1) = T[C[n + 2][d - 1]]
      BY <1>6
    <3> QED
      BY <2>1, <3>1, <3>2, <3>3, <3>4
  <2>2. CASE ~ (n < Len(s) /\ s[n + 1] = "/")
    <3>1. C[n][d] = C[n + 1][d]
      BY <1>3, <1>5, <1>10, <2>2
    <3>2. Rest(s, n, "comment *", d) = T[C[n][d]]
      BY <1>6
    <3>3. Rest(s, n, "comment", d) = T[C[n + 1][d]]
      BY <1>6
    <3> QED
      BY <2>2, <3>1, <3>2, <3>3
  <2> QED
    BY <2>1, <2>2
<1>11. ASSUME n >= 1, s[n] = "/"
       PROVE  /\ n < Len(s) /\ s[n + 1] = "*" =>
                   Rest(s, n, "comment /", d) = Rest(s, n + 1, "comment", d + 1)
              /\ ~ (n < Len(s) /\ s[n + 1] = "*") =>
                   Rest(s, n, "comment /", d) = Rest(s, n, "comment", d)
  <2>1. CASE n < Len(s) /\ s[n + 1] = "*"
    <3>1. C[n][d] = C[n + 2][d + 1]
      BY <1>3, <1>5, <1>11, <2>1
    <3>2. Rest(s, n, "comment /", d) = T[C[n][d]]
      BY <1>6
    <3>3. Rest(s, n + 1, "comment", d + 1) = T[C[n + 2][d + 1]]
      BY <1>6
    <3> QED
      BY <2>1, <3>1, <3>2, <3>3
  <2>2. CASE ~ (n < Len(s) /\ s[n + 1] = "*")
    <3>1. C[n][d] = C[n + 1][d]
      BY <1>3, <1>5, <1>11, <2>2
    <3>2. Rest(s, n, "comment /", d) = T[C[n][d]]
      BY <1>6
    <3>3. Rest(s, n, "comment", d) = T[C[n + 1][d]]
      BY <1>6
    <3> QED
      BY <2>2, <3>1, <3>2, <3>3
  <2> QED
    BY <2>1, <2>2
<1> QED
  BY <1>8, <1>9, <1>10, <1>11

(* In the context of the quote mark, arithmetic needs a lemma.             *)
LEMMA Successor == \A n \in Nat : n + 1 \in Nat
OBVIOUS

(* What StringEnd is where the symbol is known.                            *)
LEMMA StringEndAt ==
  ASSUME NEW s, NEW n \in Nat, NEW c, SymbolAt(s, n, c)
  PROVE  StringEnd(s)[n] = IF c = "\"" THEN n + 1
                           ELSE IF c = "\\" THEN StringEnd(s)[n + 2] ELSE StringEnd(s)[n + 1]
<1>1. PICK symbols : s \in Seq(symbols) /\ n \in 1 .. Len(s) /\ c = s[n]
  BY DEF SymbolAt
<1>2. n \in 1 .. Len(s) + 2 /\ ~ (n > Len(s))
  BY <1>1
<1> QED
  BY <1>1, <1>2, StringEnds

(* ... at the end of a string, ...                                         *)
LEMMA RestQuote ==
  ASSUME NEW s, NEW n \in Nat, NEW d, NEW e, SymbolAt(s, n + 1, "\"")
  PROVE  Rest(s, n, "\"", d) = Before("STRING", Rest(s, n + 1, "space", e))
<1>1. n + 1 \in Nat
  BY Successor
<1>2. StringEnd(s)[n + 1] = n + 1 + 1
  BY <1>1, StringEndAt
<1> QED
  BY <1>2 DEF Rest, Before

(* ... at a backslash in it, ...                                           *)
LEMMA RestBackslash ==
  ASSUME NEW s, NEW n, NEW d, NEW e
  PROVE  Rest(s, n, "\"", d) = Rest(s, n + 1, "escape", e)
BY DEF Rest

(* In a string, the n-th symbol of s stands for itself.                    *)
LetterAt(s, n) == \E c : SymbolAt(s, n, c) /\ c # "\"" /\ c # "\\"

(* ... at any other symbol in it, ...                                      *)
LEMMA RestLetter ==
  ASSUME NEW s, NEW n \in Nat, NEW d, NEW e, LetterAt(s, n + 1)
  PROVE  Rest(s, n, "\"", d) = Rest(s, n + 1, "\"", e)
<1>1. n + 1 \in Nat
  BY Successor
<1>2. PICK c : SymbolAt(s, n + 1, c) /\ c # "\"" /\ c # "\\"
  BY DEF LetterAt
<1>3. StringEnd(s)[n + 1] = StringEnd(s)[n + 1 + 1]
  BY <1>1, <1>2, StringEndAt
<1> QED
  BY <1>3 DEF Rest

(* ... and at the symbol behind a backslash.                              *)
LEMMA RestEscaped ==
  ASSUME NEW s, NEW n \in Nat, NEW d, NEW e, SymbolAt(s, n, "\\")
  PROVE  Rest(s, n, "escape", d) = Rest(s, n + 1, "\"", e)
<1>1. n + 1 + 1 = n + 2
  OBVIOUS
<1>2. StringEnd(s)[n] = StringEnd(s)[n + 2]
  BY StringEndAt
<1> QED
  BY <1>1, <1>2 DEF Rest

(* The symbol before lexer->pos is the one that the mode is about.         *)
Marked ==
  mode \in Marking => Len(seen) >= 1 /\ seen[Len(seen)] = MarkOf(mode)

(* s begins with what has been read, and with lexer->pos if it goes on.    *)
Agrees(s) ==
  /\ Len(seen) <= Len(s)
  /\ \A i \in 1 .. Len(seen) : s[i] = seen[i]
  /\ Len(seen) < Len(s) => s[Len(seen) + 1] = ch

Ahead(s) == Rest(s, Len(seen), mode, depth)

(* A step of the lexer knows the symbol that its mode is about ...         *)
LEMMA MarkedStep ==
  ASSUME Spelt, L!NextToken
  PROVE  Marked'
<1>1. Len(seen) \in Nat
  BY DEF Spelt
<1>2. L!Advance => Len(seen') = Len(seen) + 1 /\ seen'[Len(seen')] = ch
  BY DEF L!Advance, Spelt
<1>3. ASSUME L!Advance, mode' \in Marking => ch = MarkOf(mode') PROVE Marked'
  <2>1. Len(seen') >= 1
    BY <1>1, <1>2, <1>3
  <2> QED
    BY <1>2, <1>3, <2>1 DEF Marked
<1>4. ASSUME mode' \in {"space", "comment", "\""} PROVE Marked'
  <2>1. mode' \notin Marking
    BY <1>4 DEF Marking
  <2> QED
    BY <2>1 DEF Marked
<1>5. CASE L!skip_whitespace
  BY <1>4, <1>5 DEF L!skip_whitespace, L!Go
<1>6. CASE L!FirstSymbol
  <2>1. CASE ch \in L!Longer
    <3>1. L!Advance /\ mode' = ch
      BY <1>6, <2>1 DEF L!FirstSymbol, L!Go
    <3>2. MarkOf(ch) = ch
      BY <2>1 DEF MarkOf, L!Longer
    <3> QED
      BY <1>3, <3>1, <3>2
  <2>2. CASE ch \notin L!Longer
    BY <1>4, <1>6, <2>2 DEF L!FirstSymbol, L!Give
  <2> QED
    BY <2>1, <2>2
<1>7. CASE L!SecondSymbol
  BY <1>4, <1>7 DEF L!SecondSymbol, L!Give, L!Go
<1>8. CASE L!InComment
  <2>1. L!Advance
    BY <1>8 DEF L!InComment
  <2>2. \/ mode' \in {"space", "comment"}
        \/ mode' = "comment *" /\ ch = "*"
        \/ mode' = "comment /" /\ ch = "/"
    BY <1>8 DEF L!InComment, L!Give, L!Go
  <2> QED
    BY <1>3, <1>4, <2>1, <2>2 DEF MarkOf
<1>9. CASE L!CommentCloses
  BY <1>4, <1>9 DEF L!CommentCloses, L!Go
<1>10. CASE L!CommentOpens
  BY <1>4, <1>10 DEF L!CommentOpens, L!Go
<1>11. CASE L!InString
  <2>1. L!Advance /\ mode = "\""
    BY <1>11 DEF L!InString
  <2>2. mode' \in {"space", "\""} \/ (mode' = "escape" /\ ch = "\\")
    BY <1>11 DEF L!InString, L!Give, L!Go
  <2> QED
    BY <1>3, <1>4, <2>1, <2>2 DEF MarkOf
<1>12. CASE L!Escape
  BY <1>4, <1>12 DEF L!Escape, L!Go
<1> QED
  BY <1>5, <1>6, <1>7, <1>8, <1>9, <1>10, <1>11, <1>12 DEF L!NextToken

(* ... and takes a token it gives from what is left of the text.           *)
LEMMA AheadAfter ==
  ASSUME LexTyped, Marked, L!NextToken, NEW symbols, NEW s \in Seq(symbols), Agrees(s)'
  PROVE  /\ Agrees(s)
         /\ token' = "none" => Ahead(s)' = Ahead(s)
         /\ token' \notin {"none", "ERROR"} => Ahead(s) = Before(token', Ahead(s)')
<1> DEFINE n == Len(seen)
<1>1. n \in Nat /\ Spelt /\ depth \in Nat /\ (mode \in CommentModes => depth >= 1)
  <2>1. Spelt /\ (mode \in CommentModes => depth >= 1) /\ depth \in 0 .. n
    BY DEF LexTyped, L!TypeOK
  <2>2. n \in Nat
    BY <2>1 DEF Spelt
  <2> QED
    BY <2>1, <2>2
<1>2. ASSUME L!Advance
      PROVE  Agrees(s) /\ n < Len(s) /\ SymbolAt(s, n + 1, ch) /\ Len(seen') = n + 1
  <2>1. Len(seen') = n + 1 /\ seen'[n + 1] = ch /\ \A i \in 1 .. n : seen'[i] = seen[i]
    BY <1>1, <1>2 DEF L!Advance, Spelt
  <2>2. n + 1 <= Len(s) /\ \A i \in 1 .. n + 1 : s[i] = seen'[i]
    BY <2>1 DEF Agrees
  <2> QED
    BY <1>1, <2>1, <2>2 DEF Agrees, SymbolAt
<1>3. ASSUME L!Stay
      PROVE  Agrees(s) /\ Len(seen') = n /\ (SymbolAt(s, n + 1, ch) \/ n = Len(s))
  <2>1. Agrees(s) /\ Len(seen') = n
    BY <1>3 DEF L!Stay, Agrees
  <2> QED
    BY <1>1, <2>1 DEF Agrees, SymbolAt
<1>4. ASSUME L!Advance \/ L!Stay
      PROVE  /\ n \in 0 .. Len(s)
             /\ mode \in Marking => SymbolAt(s, n, MarkOf(mode))
  <2>1. Agrees(s)
    BY <1>2, <1>3, <1>4
  <2> QED
    BY <1>1, <2>1 DEF Agrees, Marked, SymbolAt
<1> HIDE DEF n
<1>5. n \in Nat
  BY <1>1
<1>6. ASSUME NEW k \in Nat, NEW c, SymbolAt(s, k, c)
       PROVE  k \in 1 .. Len(s) /\ k >= 1 /\ s[k] = c
  BY <1>6 DEF SymbolAt
<1>7. Ahead(s) = Rest(s, n, mode, depth)
  BY DEF Ahead, n
<1>8. ASSUME L!Advance PROVE Ahead(s)' = Rest(s, n + 1, mode', depth')
  BY <1>2, <1>8 DEF Ahead
<1>9. ASSUME L!Stay PROVE Ahead(s)' = Rest(s, n, mode', depth')
  BY <1>3, <1>9 DEF Ahead
<1>10. \A t \in Tokens : t # "none"
  BY KindsAre
<1>11. CASE L!skip_whitespace
  <2>1. L!Advance /\ mode = "space" /\ mode' = "space" /\ token' = "none" /\ ch \in L!Blanks
    BY <1>11 DEF L!skip_whitespace, L!Go
  <2>2. SymbolAt(s, n + 1, ch)
    BY <1>2, <2>1
  <2>3. Rest(s, n, "space", depth) = Rest(s, n + 1, "space", depth')
    BY <1>5, <2>1, <2>2, RestBlank
  <2> QED
    BY <1>2, <1>7, <1>8, <2>1, <2>3
<1>12. CASE L!FirstSymbol
  <2>1. L!Advance /\ mode = "space" /\ ch \notin L!Blanks
    BY <1>12 DEF L!FirstSymbol
  <2>2. SymbolAt(s, n + 1, ch)
    BY <1>2, <2>1
  <2>3. CASE ch \in L!Longer
    <3>1. mode' = ch /\ token' = "none"
      BY <1>12, <2>3 DEF L!FirstSymbol, L!Go
    <3>2. Rest(s, n, "space", depth) = Rest(s, n + 1, ch, depth')
      BY <1>5, <2>3, <2>2, RestLonger
    <3> QED
      BY <1>2, <1>7, <1>8, <2>1, <3>1, <3>2
  <2>4. CASE ch \notin L!Longer
    <3>1. mode' = "space" /\ token' = L!OneSymbol(ch)
      BY <1>12, <2>4 DEF L!FirstSymbol, L!Give
    <3>2. token' # "none"
      BY <1>10, <3>1, LexerGives
    <3>3. Rest(s, n, "space", depth) = Before(L!OneSymbol(ch), Rest(s, n + 1, "space", depth'))
      BY <1>5, <2>1, <2>4, <2>2, RestOne
    <3> QED
      BY <1>2, <1>7, <1>8, <2>1, <3>1, <3>2, <3>3
  <2> QED
    BY <2>3, <2>4
<1>13. CASE L!SecondSymbol
  <2>1. mode \in {":", "<", ">", "/"} /\ mode \in Marking /\ MarkOf(mode) = mode
    BY <1>13 DEF L!SecondSymbol, Marking, MarkOf
  <2>2. CASE L!TwoSymbols(mode, ch) # "none" /\ L!Advance /\ L!Give(L!TwoSymbols(mode, ch))
    <3>1. mode' = "space" /\ token' = L!TwoSymbols(mode, ch) /\ token' # "none"
      BY <2>2 DEF L!Give
    <3>2. SymbolAt(s, n, mode) /\ SymbolAt(s, n + 1, ch)
      BY <1>2, <1>4, <2>1, <2>2
    <3>3. Rest(s, n, mode, depth) = Before(L!TwoSymbols(mode, ch), Rest(s, n + 1, "space", depth'))
      BY <1>5, <2>1, <2>2, <3>2, RestTwo
    <3> QED
      BY <1>2, <1>7, <1>8, <2>2, <3>1, <3>3
  <2>3. CASE mode = "/" /\ ch = "*" /\ L!Advance /\ L!Go("comment") /\ depth' = 1
    <3>1. mode' = "comment" /\ token' = "none"
      BY <2>3 DEF L!Go
    <3>2. SymbolAt(s, n, mode) /\ SymbolAt(s, n + 1, ch)
      BY <1>2, <1>4, <2>1, <2>3
    <3>3. Rest(s, n, mode, depth) = Rest(s, n + 1, "comment", 1)
      BY <1>5, <2>1, <2>3, <3>2, RestOpens
    <3> QED
      BY <1>2, <1>7, <1>8, <2>3, <3>1, <3>3
  <2>4. CASE /\ L!TwoSymbols(mode, ch) = "none" /\ ~ (mode = "/" /\ ch = "*")
             /\ L!Stay /\ L!Give(L!Alone(mode))
    <3>1. mode' = "space" /\ token' = L!Alone(mode)
      BY <2>4 DEF L!Give
    <3>2. token' # "none"
      BY <1>10, <2>1, <3>1, LexerGives
    <3>3. SymbolAt(s, n, mode) /\ (SymbolAt(s, n + 1, ch) \/ n = Len(s))
      BY <1>3, <1>4, <2>1, <2>4
    <3>4. Rest(s, n, mode, depth) = Before(L!Alone(mode), Rest(s, n, "space", depth'))
      BY <1>5, <2>1, <2>4, <3>3, RestAlone
    <3> QED
      BY <1>3, <1>7, <1>9, <2>4, <3>1, <3>2, <3>4
  <2> QED
    BY <1>13, <2>2, <2>3, <2>4 DEF L!SecondSymbol
<1>14. CASE L!InComment
  <2>1. L!Advance /\ mode = "comment" /\ depth >= 1
    BY <1>1, <1>14 DEF L!InComment, CommentModes
  <2>2. CASE ch = "NUL"
    <3>1. token' = "ERROR"
      BY <1>14, <2>2 DEF L!InComment, L!Give
    <3> QED
      BY <1>2, <2>1, <3>1
  <2>3. CASE ch # "NUL"
    <3>1. token' = "none" /\ depth' = depth
          /\ mode' = IF ch = "*" THEN "comment *" ELSE IF ch = "/" THEN "comment /" ELSE "comment"
      BY <1>14, <2>3 DEF L!InComment, L!Go
    <3>2. n \in 0 .. Len(s) /\ n < Len(s) /\ s[n + 1] = ch
      <4>1. SymbolAt(s, n + 1, ch) /\ n \in 0 .. Len(s) /\ n < Len(s)
        BY <1>2, <1>4, <2>1
      <4>2. n + 1 \in Nat
        BY <1>5
      <4> QED
        BY <1>6, <4>1, <4>2
    <3>3. /\ ch \notin {"*", "/"} => Rest(s, n, "comment", depth) = Rest(s, n + 1, "comment", depth)
          /\ Rest(s, n, "comment", depth) = Rest(s, n + 1, "comment *", depth)
          /\ Rest(s, n, "comment", depth) = Rest(s, n + 1, "comment /", depth)
      BY <1>1, <2>1, <3>2, RestOfComment
    <3> QED
      BY <1>2, <1>7, <1>8, <2>1, <3>1, <3>3
  <2> QED
    BY <2>2, <2>3
<1>15. CASE L!CommentCloses
  <2>1. mode = "comment *" /\ depth >= 1 /\ mode \in Marking /\ MarkOf(mode) = "*" /\ token' = "none"
    BY <1>1, <1>15 DEF L!CommentCloses, L!Go, CommentModes, Marking, MarkOf
  <2>2. CASE ch = "/"
    <3>1. L!Advance /\ depth' = depth - 1 /\ mode' = IF depth = 1 THEN "space" ELSE "comment"
      BY <1>15, <2>2 DEF L!CommentCloses, L!Go
    <3>2. n \in 0 .. Len(s) /\ n >= 1 /\ s[n] = "*" /\ n < Len(s) /\ s[n + 1] = "/"
      <4>1. /\ SymbolAt(s, n, MarkOf(mode)) /\ SymbolAt(s, n + 1, ch)
            /\ n \in 0 .. Len(s) /\ n < Len(s)
        BY <1>2, <1>4, <2>1, <3>1
      <4>2. n + 1 \in Nat
        BY <1>5
      <4> QED
        BY <1>5, <1>6, <2>1, <2>2, <4>1, <4>2
    <3>3. Rest(s, n, "comment *", depth)
            = Rest(s, n + 1, IF depth = 1 THEN "space" ELSE "comment", depth - 1)
      BY <1>1, <2>1, <3>2, RestOfComment, Zenon
    <3> QED
      BY <1>2, <1>7, <1>8, <2>1, <3>1, <3>3
  <2>3. CASE ch # "/"
    <3>1. L!Stay /\ depth' = depth /\ mode' = "comment"
      BY <1>15, <2>3 DEF L!CommentCloses, L!Go
    <3>2. n \in 0 .. Len(s) /\ n >= 1 /\ s[n] = "*" /\ ~ (n < Len(s) /\ s[n + 1] = "/")
      <4>1. /\ SymbolAt(s, n, MarkOf(mode)) /\ (SymbolAt(s, n + 1, ch) \/ n = Len(s))
            /\ n \in 0 .. Len(s)
        BY <1>3, <1>4, <2>1, <3>1
      <4>2. n + 1 \in Nat /\ (n = Len(s) => ~ (n < Len(s)))
        BY <1>5
      <4>3. SymbolAt(s, n + 1, ch) => s[n + 1] = ch
        BY <1>6, <4>2
      <4>4. n >= 1 /\ s[n] = MarkOf(mode)
        BY <1>5, <1>6, <4>1
      <4> QED
        BY <2>1, <2>3, <4>1, <4>2, <4>3, <4>4
    <3>3. Rest(s, n, "comment *", depth) = Rest(s, n, "comment", depth)
      BY <1>1, <2>1, <3>2, RestOfComment
    <3> QED
      BY <1>3, <1>7, <1>9, <2>1, <3>1, <3>3
  <2> QED
    BY <2>2, <2>3
<1>16. CASE L!CommentOpens
  <2>1. /\ mode = "comment /" /\ depth >= 1 /\ mode \in Marking /\ MarkOf(mode) = "/"
        /\ token' = "none" /\ mode' = "comment"
    BY <1>1, <1>16 DEF L!CommentOpens, L!Go, CommentModes, Marking, MarkOf
  <2>2. CASE ch = "*"
    <3>1. L!Advance /\ depth' = depth + 1
      BY <1>16, <2>2 DEF L!CommentOpens
    <3>2. n \in 0 .. Len(s) /\ n >= 1 /\ s[n] = "/" /\ n < Len(s) /\ s[n + 1] = "*"
      <4>1. /\ SymbolAt(s, n, MarkOf(mode)) /\ SymbolAt(s, n + 1, ch)
            /\ n \in 0 .. Len(s) /\ n < Len(s)
        BY <1>2, <1>4, <2>1, <3>1
      <4>2. n + 1 \in Nat
        BY <1>5
      <4> QED
        BY <1>5, <1>6, <2>1, <2>2, <4>1, <4>2
    <3>3. Rest(s, n, "comment /", depth) = Rest(s, n + 1, "comment", depth + 1)
      BY <1>1, <2>1, <3>2, RestOfComment, Zenon
    <3> QED
      BY <1>2, <1>7, <1>8, <2>1, <3>1, <3>3
  <2>3. CASE ch # "*"
    <3>1. L!Stay /\ depth' = depth
      BY <1>16, <2>3 DEF L!CommentOpens
    <3>2. n \in 0 .. Len(s) /\ n >= 1 /\ s[n] = "/" /\ ~ (n < Len(s) /\ s[n + 1] = "*")
      <4>1. /\ SymbolAt(s, n, MarkOf(mode)) /\ (SymbolAt(s, n + 1, ch) \/ n = Len(s))
            /\ n \in 0 .. Len(s)
        BY <1>3, <1>4, <2>1, <3>1
      <4>2. n + 1 \in Nat /\ (n = Len(s) => ~ (n < Len(s)))
        BY <1>5
      <4>3. SymbolAt(s, n + 1, ch) => s[n + 1] = ch
        BY <1>6, <4>2
      <4>4. n >= 1 /\ s[n] = MarkOf(mode)
        BY <1>5, <1>6, <4>1
      <4> QED
        BY <2>1, <2>3, <4>1, <4>2, <4>3, <4>4
    <3>3. Rest(s, n, "comment /", depth) = Rest(s, n, "comment", depth)
      BY <1>1, <2>1, <3>2, RestOfComment
    <3> QED
      BY <1>3, <1>7, <1>9, <2>1, <3>1, <3>3
  <2> QED
    BY <2>2, <2>3
<1>17. CASE L!InString
  <2>1. L!Advance /\ mode = "\""
    BY <1>17 DEF L!InString
  <2>2. SymbolAt(s, n + 1, ch)
    BY <1>2, <2>1
  <2>3. CASE ch = "\"" /\ mode' = "space" /\ token' = "STRING"
    <3>1. Rest(s, n, "\"", depth) = Before("STRING", Rest(s, n + 1, "space", depth'))
      BY <1>5, <2>3, <2>2, RestQuote
    <3> QED
      BY <1>2, <1>7, <1>8, <2>1, <2>3, <3>1
  <2>4. CASE token' = "ERROR"
    BY <1>2, <2>1, <2>4
  <2>5. CASE ch = "\\" /\ mode' = "escape" /\ token' = "none"
    <3>1. Rest(s, n, "\"", depth) = Rest(s, n + 1, "escape", depth')
      BY RestBackslash
    <3> QED
      BY <1>2, <1>7, <1>8, <2>1, <2>5, <3>1
  <2>6. CASE ch # "\"" /\ ch # "\\" /\ mode' = "\"" /\ token' = "none"
    <3>1. Rest(s, n, "\"", depth) = Rest(s, n + 1, "\"", depth')
      <4>1. LetterAt(s, n + 1)
        BY <2>2, <2>6 DEF LetterAt
      <4> QED
        BY <1>5, <4>1, RestLetter
    <3> QED
      BY <1>2, <1>7, <1>8, <2>1, <2>6, <3>1
  <2> QED
    BY <1>17, <2>3, <2>4, <2>5, <2>6 DEF L!InString, L!Give, L!Go
<1>18. CASE L!Escape
  <2>1. L!Advance /\ mode = "escape" /\ mode' = "\"" /\ token' = "none"
        /\ mode \in Marking /\ MarkOf(mode) = "\\"
    BY <1>18 DEF L!Escape, L!Go, Marking, MarkOf
  <2>2. SymbolAt(s, n, "\\") /\ SymbolAt(s, n + 1, ch)
    BY <1>2, <1>4, <2>1
  <2>3. Rest(s, n, "escape", depth) = Rest(s, n + 1, "\"", depth')
    BY <1>5, <2>2, RestEscaped
  <2> QED
    BY <1>2, <1>7, <1>8, <2>1, <2>3
<1> QED
  BY <1>11, <1>12, <1>13, <1>14, <1>15, <1>16, <1>17, <1>18 DEF L!NextToken

(* What is left of a text are tokens, ...                                  *)
LEMMA RestTyped ==
  ASSUME NEW symbols, NEW s \in Seq(symbols), NEW n \in 0 .. Len(s), NEW m \in L!Modes,
         NEW d \in Nat, m \in Marking => n >= 1
  PROVE  Rest(s, n, m, d) \in Seq(Tokens)
<1>1. /\ n + 1 \in 1 .. Len(s) + 3 /\ n + 1 \in 1 .. Len(s) + 2
      /\ m \in Marking => n \in 1 .. Len(s) + 3 /\ n \in 1 .. Len(s) + 2
  OBVIOUS
<1>2. \A i \in 1 .. Len(s) + 3 : TokensFrom(s)[i] \in Seq(Tokens)
  BY TokensFromIs
<1>3. \A i \in 1 .. Len(s) + 2 : CommentEnd(s)[i][d] \in 1 .. Len(s) + 3
  <2> SUFFICES ASSUME NEW i \in 1 .. Len(s) + 2
               PROVE  CommentEnd(s)[i][d] \in 1 .. Len(s) + 3
    OBVIOUS
  <2>1. CommentEnd(s)[i][d] \in i .. Len(s) + 2
    BY CommentEnds
  <2> QED
    BY <2>1
<1>4. \A i \in 1 .. Len(s) + 2 : StringEnd(s)[i] \in 1 .. Len(s) + 3
  <2> SUFFICES ASSUME NEW i \in 1 .. Len(s) + 2 PROVE StringEnd(s)[i] \in 1 .. Len(s) + 3
    OBVIOUS
  <2>1. StringEnd(s)[i] \in i + 1 .. Len(s) + 3
    BY StringEnds
  <2> QED
    BY <2>1
<1>5. \A r \in Seq(Tokens) : <<"STRING">> \o r \in Seq(Tokens)
  <2>1. "STRING" \in Tokens
    BY LexerGives
  <2> QED
    BY <2>1
<1>6. CASE m \in {"space", "comment"}
  BY <1>1, <1>2, <1>3, <1>6 DEF Rest
<1>7. CASE m \in {"comment *", "comment /"}
  <2>1. m \in Marking
    BY <1>7 DEF Marking
  <2>2. Rest(s, n, m, d) = TokensFrom(s)[CommentEnd(s)[n][d]]
    BY <1>7 DEF Rest
  <2> QED
    BY <1>1, <1>2, <1>3, <2>1, <2>2
<1>8. CASE m = "\""
  <2>1. Rest(s, n, m, d) = <<"STRING">> \o TokensFrom(s)[StringEnd(s)[n + 1]]
    BY <1>8 DEF Rest
  <2> QED
    BY <1>1, <1>2, <1>4, <1>5, <2>1
<1>9. CASE m = "escape"
  <2>1. Rest(s, n, m, d) = <<"STRING">> \o TokensFrom(s)[StringEnd(s)[n]]
    BY <1>9 DEF Rest
  <2>2. m \in Marking
    BY <1>9 DEF Marking
  <2> QED
    BY <1>1, <1>2, <1>4, <1>5, <2>1, <2>2
<1>10. CASE m \in {":", "<", ">", "/"}
  <2>1. m \in Marking /\ Rest(s, n, m, d) = TokensFrom(s)[n]
    BY <1>10 DEF Rest, Marking
  <2> QED
    BY <1>1, <1>2, <2>1
<1> QED
  BY <1>6, <1>7, <1>8, <1>9, <1>10 DEF L!Modes, L!Longer

(* ... of the text that the lexer is in as well.                           *)
LEMMA AheadTyped ==
  ASSUME LexTyped, Marked, NEW symbols, NEW s \in Seq(symbols), Agrees(s)
  PROVE  Ahead(s) \in Seq(Tokens)
<1>1. Spelt /\ depth \in 0 .. Len(seen) /\ mode \in L!Modes
  BY DEF LexTyped, L!TypeOK
<1>2. Len(seen) \in Nat
  BY <1>1 DEF Spelt
<1>3. Len(seen) \in 0 .. Len(s) /\ depth \in Nat /\ (mode \in Marking => Len(seen) >= 1)
  BY <1>1, <1>2 DEF Agrees, Marked
<1> QED
  BY <1>1, <1>3, RestTyped DEF Ahead
-----------------------------------------------------------------------------
(* What the lexer has given, as long as it has not given the last token.   *)
Given ==
  IF want = 2 THEN read
  ELSE IF want = 1 THEN Append(read, current) ELSE Append(Append(read, current), next)

Going == want = 2 \/ (current \notin LastKinds /\ (want = 1 \/ next \notin LastKinds))

Begins(x, t) == \E rest \in Seq(Tokens) : t = x \o rest

(* Until the last token, the tokens of the text are those that were given  *)
(* and those ahead; the tokens up to EOF are the first of the text.        *)
Divided(s) ==
  /\ Going => TokensOf(s) = Given \o Ahead(s)
  /\ Begins(IF want = 2 \/ current = "ERROR" THEN read ELSE Append(read, current), TokensOf(s))
  /\ want = 0 /\ current \notin LastKinds /\ next = "EOF" => Begins(Given, TokensOf(s))

(* What has been read may be the beginning of many texts, and it is so of  *)
(* each of them.                                                           *)
Lexed == Marked /\ \A symbols : \A s \in Seq(symbols) : Agrees(s) => Divided(s)

(* A token that is taken joins those given.                                *)
LEMMA TokenTaken ==
  ASSUME NEW x \in Seq(Tokens), NEW t \in Tokens, NEW r \in Seq(Tokens)
  PROVE  x \o Before(t, r) = Append(x, t) \o r
BY DEF Before

(* Two ways to say that one sequence begins another.                       *)
LEMMA BeginsHere ==
  ASSUME NEW x, NEW r \in Seq(Tokens), NEW t, t = x \o r
  PROVE  Begins(x, t)
BY DEF Begins

LEMMA PrefixIs ==
  ASSUME NEW x \in Seq(Tokens), NEW t, Begins(x, t)
  PROVE  IsPrefix(x, t)
<1>1. PICK r \in Seq(Tokens) : t = x \o r
  BY DEF Begins
<1>2. Len(x) \in Nat /\ Len(x) <= Len(t) /\ t \in Seq(Tokens) /\ \A i \in 1 .. Len(x) : t[i] = x[i]
  BY <1>1
<1>3. SubSeq(x, 1, Len(x)) = SubSeq(t, 1, Len(x))
  BY <1>2
<1> QED
  BY <1>2, <1>3 DEF IsPrefix

(* It is so in the beginning, ...                                          *)
LEMMA StartsLexed == StartUp => Lexed
<1> SUFFICES ASSUME StartUp PROVE Lexed
  OBVIOUS
<1>1. read = <<>> /\ want = 2 /\ seen = <<>> /\ mode = "space" /\ depth = 0
  BY DEF StartUp, Init, L!Init
<1>2. Marked
  BY <1>1 DEF Marked, Marking
<1>3. ASSUME NEW symbols, NEW s \in Seq(symbols) PROVE Divided(s)
  <2>1. 1 \in 1 .. Len(s) + 3
    OBVIOUS
  <2>2. TokensOf(s) \in Seq(Tokens)
    BY <2>1, TokensFromIs DEF TokensOf
  <2>3. Ahead(s) = TokensOf(s)
    BY <1>1 DEF Ahead, Rest, TokensOf
  <2>4. TokensOf(s) = read \o Ahead(s)
    BY <1>1, <2>2, <2>3
  <2>5. Begins(read, TokensOf(s))
    BY <2>2, <2>3, <2>4, BeginsHere
  <2> QED
    BY <1>1, <2>4, <2>5 DEF Divided, Given
<1> QED
  BY <1>2, <1>3 DEF Lexed

(* ... after a step of the parser, ...                                     *)
LEMMA ParsesLexed ==
  ASSUME Sound, Lexed, Parse, UNCHANGED lexVars
  PROVE  Lexed'
<1>1. want = 0 /\ (Stay \/ (Advance /\ current \notin LastKinds))
  BY ReadsOnlyTokens DEF Sound, IInv
<1>2. UNCHANGED <<seen, ch, mode, depth>>
  BY DEF lexVars
<1>3. Marked'
  BY <1>2 DEF Lexed, Marked
<1>4. ASSUME NEW symbols, NEW s \in Seq(symbols), Agrees(s)' PROVE Divided(s)'
  <2>1. Agrees(s) /\ Ahead(s)' = Ahead(s)
    BY <1>2, <1>4 DEF Agrees, Ahead
  <2>2. Divided(s)
    BY <2>1 DEF Lexed
  <2>3. CASE Stay
    BY <2>1, <2>2, <2>3 DEF Stay, Divided, Given, Going
  <2>4. CASE Advance /\ current \notin LastKinds
    <3>1. read' = Append(read, current) /\ current' = next /\ want' = 1 /\ want = 0
      BY <1>1, <2>4 DEF Advance
    <3>2. Given = Append(Append(read, current), next) /\ Given' = Given
      BY <3>1 DEF Given
    <3>3. Going' => Going
      BY <2>4, <3>1 DEF Going
    <3>4. next \notin LastKinds => Going
      BY <2>4, <3>1 DEF Going
    <3>5. current # "ERROR"
      BY <2>4 DEF LastKinds
    <3>6. Begins(Append(read, current), TokensOf(s))
      BY <2>2, <3>1, <3>5 DEF Divided
    <3>7. next # "ERROR" => Begins(Given, TokensOf(s))
      <4>1. CASE next = "EOF"
        BY <2>2, <2>4, <3>1, <4>1 DEF Divided
      <4>2. CASE next \notin LastKinds
        <5>1. TokensOf(s) = Given \o Ahead(s)
          BY <2>2, <3>4, <4>2 DEF Divided
        <5>2. Ahead(s) \in Seq(Tokens)
          BY <2>1, AheadTyped DEF Sound, Lexed
        <5> QED
          BY <5>1, <5>2, BeginsHere
      <4> QED
        BY <4>1, <4>2 DEF LastKinds
    <3>8. Going' => TokensOf(s) = Given \o Ahead(s)
      BY <2>2, <3>3 DEF Divided
    <3>9. Begins(IF next = "ERROR" THEN Append(read, current) ELSE Given, TokensOf(s))
      BY <3>6, <3>7
    <3> HIDE DEF Given, Going
    <3> QED
      BY <2>1, <3>1, <3>2, <3>8, <3>9 DEF Divided
  <2> QED
    BY <1>1, <2>3, <2>4
<1> QED
  BY <1>3, <1>4 DEF Lexed

(* ... after a step of the lexer, ...                                      *)
LEMMA LexesLexed ==
  ASSUME Sound, Lexed, Lex
  PROVE  Lexed'
<1>1. /\ LexTyped /\ Spelt /\ Marked /\ want \in {1, 2} /\ L!NextToken
      /\ read \in Seq(Tokens) /\ current \in Tokens
  <2>1. read \in Seq(Tokens)
    BY KindsAre DEF Sound, TokensTyped
  <2>2. want \in 0 .. 2 /\ want > 0
    BY DEF Sound, IInv, Lex
  <2> QED
    BY <2>1, <2>2 DEF Sound, LexTyped, TokensTyped, Lexed, Lex
<1>2. Marked'
  BY <1>1, MarkedStep
<1>3. LexTyped' /\ token' \in Tokens \union {"none"}
  BY <1>1, LexTypedStep
<1>4. ASSUME NEW symbols, NEW s \in Seq(symbols), Agrees(s)' PROVE Divided(s)'
  <2>1. /\ Agrees(s)
        /\ token' = "none" => Ahead(s)' = Ahead(s)
        /\ token' \notin {"none", "ERROR"} => Ahead(s) = Before(token', Ahead(s)')
    BY <1>1, <1>4, AheadAfter
  <2>2. Divided(s)
    BY <2>1 DEF Lexed
  <2>3. Ahead(s) \in Seq(Tokens)
    BY <1>1, <2>1, AheadTyped
  <2>4. Ahead(s)' \in Seq(Tokens)
    <3>1. Spelt' /\ depth' \in 0 .. Len(seen') /\ mode' \in L!Modes
      BY <1>3 DEF LexTyped, L!TypeOK
    <3>2. Len(seen') \in Nat
      BY <3>1 DEF Spelt
    <3>3. /\ Len(seen') \in 0 .. Len(s) /\ depth' \in Nat
          /\ mode' \in Marking => Len(seen') >= 1
      BY <1>2, <1>4, <3>1, <3>2 DEF Agrees, Marked
    <3> QED
      BY <3>1, <3>3, RestTyped DEF Ahead
  <2>5. CASE token' = "none"
    <3>1. UNCHANGED vars
      BY <2>5 DEF Lex
    <3> QED
      BY <2>1, <2>2, <2>5, <3>1 DEF vars, Divided, Given, Going
  <2> DEFINE k == token'
             t == TokensOf(s)
  <2>6. CASE k # "none"
    <3>1. Deliver(k) /\ k \in Tokens
      BY <1>3, <2>6 DEF Lex
    <3>2. CASE want = 2
      <4>1. want' = 1 /\ current' = k /\ read' = read
        BY <3>1, <3>2 DEF Deliver
      <4>2. t = read \o Ahead(s)
        BY <2>2, <3>2 DEF Divided, Going, Given
      <4>3. CASE k = "ERROR"
        <5>1. Begins(read, t)
          BY <2>3, <4>2, BeginsHere
        <5> QED
          BY <4>1, <4>3, <5>1 DEF Divided, Going, LastKinds
      <4>4. CASE k # "ERROR"
        <5>1. t = Append(read, k) \o Ahead(s)'
          <6>1. t = read \o Before(k, Ahead(s)')
            BY <2>1, <2>6, <4>2, <4>4
          <6> HIDE DEF k, t
          <6> QED
            BY <1>1, <2>4, <3>1, <6>1, TokenTaken
        <5>2. Begins(Append(read, k), t)
          BY <2>4, <5>1, BeginsHere
        <5> QED
          BY <4>1, <4>4, <5>1, <5>2 DEF Divided, Given
      <4> QED
        BY <4>3, <4>4
    <3>3. CASE want = 1
      <4>1. want' = 0 /\ next' = k /\ current' = current /\ read' = read
        BY <3>1, <3>3 DEF Deliver
      <4>2. Begins(IF current = "ERROR" THEN read ELSE Append(read, current), t)
        BY <2>2, <3>3 DEF Divided
      <4>3. CASE current \in LastKinds
        BY <4>1, <4>2, <4>3 DEF Divided, Going
      <4>4. CASE current \notin LastKinds /\ k = "ERROR"
        BY <4>1, <4>2, <4>4 DEF Divided, Going, LastKinds
      <4>5. CASE current \notin LastKinds /\ k # "ERROR"
        <5>1. t = Append(read, current) \o Ahead(s)
          BY <2>2, <3>3, <4>5 DEF Divided, Going, Given
        <5>2. Append(read, current) \in Seq(Tokens)
          BY <1>1
        <5>3. t = Append(Append(read, current), k) \o Ahead(s)'
          <6>1. t = Append(read, current) \o Before(k, Ahead(s)')
            BY <2>1, <2>6, <4>5, <5>1
          <6> HIDE DEF k, t
          <6> QED
            BY <2>4, <3>1, <5>2, <6>1, TokenTaken
        <5>4. Begins(Append(Append(read, current), k), t)
          BY <2>4, <5>3, BeginsHere
        <5> QED
          BY <4>1, <4>2, <5>3, <5>4 DEF Divided, Given
      <4> QED
        BY <4>3, <4>4, <4>5
    <3> QED
      BY <1>1, <3>2, <3>3
  <2> QED
    BY <2>5, <2>6
<1> QED
  BY <1>2, <1>4 DEF Lexed

(* ... and so after any step.                                              *)
LEMMA RunsLexed == Sound /\ Lexed /\ [Run \/ Finished]_frontVars => Lexed'
<1> SUFFICES ASSUME Sound, Lexed, [Run \/ Finished]_frontVars PROVE Lexed'
  OBVIOUS
<1>1. CASE UNCHANGED frontVars
  <2>1. UNCHANGED <<current, next, want, read, seen, ch, mode, depth>>
    BY <1>1 DEF frontVars, vars, lexVars
  <2>2. \A s : /\ Agrees(s)' <=> Agrees(s)
               /\ Divided(s)' <=> Divided(s)
    BY <2>1 DEF Agrees, Divided, Going, Given, Ahead
  <2>3. Marked'
    BY <2>1 DEF Lexed, Marked
  <2> QED
    BY <2>2, <2>3 DEF Lexed
<1> QED
  BY <1>1, LexesLexed, ParsesLexed DEF Run, Finished

(* ... so that what the parser reads is the text.                          *)
LEMMA LexedRead == Sound /\ Lexed => TokensRead
<1> SUFFICES ASSUME Sound, Lexed PROVE TokensRead
  OBVIOUS
<1>1. PICK symbols : seen \in Seq(symbols)
  BY DEF Sound, IInv, Spelt
<1>2. Agrees(seen)
  BY <1>1 DEF Agrees
<1>3. Divided(seen)
  BY <1>1, <1>2 DEF Lexed
<1> DEFINE x == IF want = 2 \/ current = "ERROR" THEN read ELSE Append(read, current)
<1>4. Begins(x, TokensOf(seen))
  BY <1>3 DEF Divided
<1>5. x \in Seq(Tokens)
  <2>1. read \in Seq(Tokens) /\ current \in Tokens
    BY KindsAre DEF Sound, TokensTyped
  <2> QED
    BY <2>1
<1> HIDE DEF x
<1>6. IsPrefix(x, TokensOf(seen))
  BY <1>4, <1>5, PrefixIs
<1> QED
  BY <1>6 DEF TokensRead, x

(* Whatever text is compiled, the parser reads its tokens, in their order  *)
(* and no others, as far as it reads (next_token, lexer.c:183; advance,    *)
(* parser.c:10): comments and strings end where they should, whatever they *)
(* hold, and two symbols of lookahead are enough to cut the text.          *)
THEOREM ReadsTheText == FrontEndSpec => []TokensRead
<1>1. StartUp => Sound /\ Lexed
  BY StartsSound, StartsLexed
<1>2. Sound /\ Lexed /\ [Run \/ Finished]_frontVars => (Sound /\ Lexed)'
  BY RunsSound, RunsLexed
<1> QED
  BY <1>1, <1>2, LexedRead, PTL DEF FrontEndSpec
=============================================================================
