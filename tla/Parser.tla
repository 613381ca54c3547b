------------------------------- MODULE Parser -------------------------------
(***************************************************************************)
(* parser.c.  The recursion of its functions is a stack of frames, one for *)
(* each call that has not returned.  What a function still has to do is a  *)
(* list of items:                                                          *)
(*   a kind of token    expect it, and return NULL if it is not there      *)
(*   "expr", "primary"  call parse_expr or parse_primary                   *)
(*   any other          a decision, made by the action that At(item) names *)
(* A step does one item, so it reads at most one token.  next_token is the *)
(* environment: after a token is read, parsing waits for Deliver.          *)
(***************************************************************************)
EXTENDS Integers, Sequences

CONSTANT MaxList   \* bound: a list that grows without reading stops growing here

Keywords == {"IF", "THEN", "ELSE", "WHILE", "FOR", "TO", "DO", "LET", "IN", "OF", "END",
             "BREAK", "NIL", "FUNCTION", "VAR", "TYPE", "ARRAY"}
Operators == {"PLUS", "MINUS", "STAR", "SLASH", "EQ", "NEQ", "LT", "GT", "LE", "GE",
              "AND", "OR"}
Punctuation == {"ASSIGN", "LPAREN", "RPAREN", "LBRACKET", "RBRACKET", "LBRACE", "RBRACE",
                "DOT", "COMMA", "SEMICOLON", "COLON"}
Readable == {"INT", "STRING", "ID"} \union Keywords \union Operators \union Punctuation
Tokens == Readable \union {"EOF", "ERROR"}

VARIABLES stack,     \* the calls under way, main's first
          heap,      \* the nodes made so far; a number is a pointer to one
          current,   \* parser->current
          next,      \* parser->next
          want,      \* calls of next_token to be made before parsing goes on
          read,      \* the tokens that were current and no longer are
          failed,    \* error_count > 0
          hole       \* NULL was returned for an expression or call without an error
vars == <<stack, heap, current, next, want, read, failed, hole>>

NULL == 0
Wild == -1   \* a pointer nobody has written
-----------------------------------------------------------------------------
get_infix_bp(kind) ==
  CASE kind = "OR" -> 2
    [] kind = "AND" -> 4
    [] kind \in {"EQ", "NEQ", "LT", "GT", "LE", "GE"} -> 6
    [] kind \in {"PLUS", "MINUS"} -> 8
    [] kind \in {"STAR", "SLASH"} -> 10
    [] OTHER -> 0

(* make_expr, make_dec, make_binop.  at: the token whose place is noted. *)
Node(kind, op, at, kids) == [kind |-> kind, op |-> op, at |-> at, kids |-> kids]

(* A call of function fn; min is the argument min_bp of parse_expr_bp.  op *)
(* and at: the token it was called at, for parse_expr_bp the operator.     *)
Call(fn, todo, min) ==
  [fn |-> fn, todo |-> todo, kids |-> <<>>, at |-> Len(read) + 1, op |-> current, min |-> min]

(* Faulty variant: the right operand takes in operators of the same power. *)
FaultyParseExprBp(min_bp) ==
  Call("expr", <<"primary", "infix">>, IF min_bp = 0 THEN 0 ELSE min_bp - 2)

parse_expr_bp(min_bp) == Call("expr", <<"primary", "infix">>, min_bp)
parse_if == Call("if", <<"IF", "expr", "THEN", "expr", "else">>, 0)
parse_while == Call("while", <<"WHILE", "expr", "DO", "expr">>, 0)
parse_for == Call("for", <<"FOR", "ID", "ASSIGN", "expr", "TO", "expr", "DO", "expr">>, 0)
parse_let == Call("let", <<"LET", "declarations">>, 0)
parse_vardec == Call("var", <<"VAR", "ID", "annotation", "ASSIGN", "expr">>, 0)
parse_funcdec ==
  Call("func", <<"FUNCTION", "ID", "LPAREN", "params", "RPAREN", "annotation", "EQ", "expr">>, 0)
parse_typedec == Call("type", <<"TYPE", "ID", "EQ", "ty">>, 0)
parse_call == Call("call", <<"ID", "LPAREN", "args", "RPAREN">>, 0)
parse_record == Call("record", <<"ID", "LBRACE", "fields", "RBRACE">>, 0)
parse_lvalue == Call("lvalue", <<"ID", "suffix">>, 0)
parse_seq == Call("seq", <<"LPAREN", "sequence", "RPAREN">>, 0)
parse_minus == Call("minus", <<"MINUS", "primary">>, 0)   \* a case of parse_primary
main == Call("main", <<"expr">>, 0)
-----------------------------------------------------------------------------
Top == stack[Len(stack)]

At(item) == want = 0 /\ Top.todo # <<>> /\ Head(Top.todo) = item

(* advance *)
Advance ==
  /\ read' = Append(read, current)
  /\ current' = next
  /\ want' = 1
  /\ UNCHANGED next

Stay == UNCHANGED <<current, next, want, read>>

(* The top call goes on with items instead of the one it has done. *)
Then(items) ==
  stack' = [stack EXCEPT ![Len(stack)].todo = items \o Tail(@)]

ThenCall(items, call) ==
  stack' = Append([stack EXCEPT ![Len(stack)].todo = items \o Tail(@)], call)

(* Faulty variant: exprseq_insert puts an expression in front of the list. *)
FaultyTook(call, v) ==
  [call EXCEPT !.kids = IF call.fn = "seq" THEN <<v>> \o @ ELSE Append(@, v)]

(* declist_insert, exprlist_insert, exprseq_insert, which drops a NULL, or *)
(* an assignment to the next field.                                        *)
Took(call, v) ==
  IF v = NULL /\ \/ call.fn = "seq"
                 \/ call.fn \in {"call", "let"} /\ Len(call.kids) >= MaxList
    THEN call
    ELSE [call EXCEPT !.kids = Append(@, v)]

Return(v) ==
  stack' = [i \in 1 .. Len(stack) - 1 |->
              IF i = Len(stack) - 1 THEN Took(stack[i], v) ELSE stack[i]]

(* Faulty variant: it returns a pointer to the node that will come next. *)
FaultyReturnNode(node) ==
  /\ heap' = Append(heap, node)
  /\ Return(Len(heap) + 2)

ReturnNode(node) ==
  /\ heap' = Append(heap, node)
  /\ Return(Len(heap) + 1)

(* Faulty variant: an error skips the token it is about. *)
FaultyFail == Return(NULL) /\ failed' = TRUE /\ Advance /\ UNCHANGED <<heap, hole>>

Fail == Return(NULL) /\ failed' = TRUE /\ Stay /\ UNCHANGED <<heap, hole>>

FailSilently == Return(NULL) /\ hole' = TRUE /\ Stay /\ UNCHANGED <<heap, failed>>
-----------------------------------------------------------------------------
(* parser_init; the two tokens are delivered first *)
Init ==
  /\ heap = <<>> /\ read = <<>> /\ current = "EOF" /\ next = "EOF"
  /\ want = 2 /\ failed = FALSE /\ hole = FALSE
  /\ stack = <<main>>

(* The lexer returns t. *)
Deliver(t) ==
  /\ want > 0
  /\ want' = want - 1
  /\ IF want = 2 THEN current' = t /\ UNCHANGED next
                 ELSE next' = t /\ UNCHANGED current
  /\ UNCHANGED <<stack, heap, read, failed, hole>>

(* expect, which is never asked for EOF or ERROR.  The string of an       *)
(* identifier is kept.                                                     *)
Expect ==
  /\ want = 0
  /\ Top.todo # <<>>
  /\ Head(Top.todo) \in Readable
  /\ \/ /\ current = Head(Top.todo)
        /\ Advance
        /\ IF current = "ID"
             THEN /\ heap' = Append(heap, Node("ID", "ID", Len(read) + 1, <<>>))
                  /\ stack' = [stack EXCEPT ![Len(stack)].todo = Tail(@),
                                            ![Len(stack)].kids = Append(@, Len(heap) + 1)]
             ELSE /\ UNCHANGED heap
                  /\ stack' = [stack EXCEPT ![Len(stack)].todo = Tail(@)]
        /\ UNCHANGED <<failed, hole>>
     \/ /\ current # Head(Top.todo)
        /\ Fail

(* parse_expr *)
Expr ==
  /\ At("expr")
  /\ ThenCall(<<>>, parse_expr_bp(0))
  /\ Stay /\ UNCHANGED <<heap, failed, hole>>

(* parse_int, parse_string, parse_nil *)
Literal ==
  /\ At("primary")
  /\ current \in {"INT", "STRING", "NIL"}
  /\ Advance
  /\ heap' = Append(heap, Node(current, current, Len(read) + 1, <<>>))
  /\ stack' = [stack EXCEPT ![Len(stack)].todo = Tail(@),
                            ![Len(stack)].kids = Append(@, Len(heap) + 1)]
  /\ UNCHANGED <<failed, hole>>

(* The function that parse_primary calls for the two tokens it looks at. *)
Chosen ==
  CASE current = "IF" -> parse_if
    [] current = "WHILE" -> parse_while
    [] current = "FOR" -> parse_for
    [] current = "LET" -> parse_let
    [] current = "LPAREN" -> parse_seq
    [] current = "MINUS" -> parse_minus
    [] current = "ID" /\ next = "LPAREN" -> parse_call
    [] current = "ID" /\ next = "LBRACE" -> parse_record
    [] OTHER -> parse_lvalue

Starters == {"IF", "WHILE", "FOR", "LET", "LPAREN", "MINUS", "ID"}
Literals == {"INT", "STRING", "NIL"}

Compound ==
  /\ At("primary")
  /\ current \in Starters
  /\ ~ (current = "ID" /\ next = "NIL")
  /\ ThenCall(<<>>, Chosen)
  /\ Stay /\ UNCHANGED <<heap, failed, hole>>

(* The two ways for parse_primary to return without having read anything: *)
(* nil after a name, and a token that begins no expression.               *)
NoPrimary ==
  /\ At("primary")
  /\ stack' = [stack EXCEPT ![Len(stack)] = Took([Top EXCEPT !.todo = Tail(@)], NULL)]
  /\ \/ current = "ID" /\ next = "NIL" /\ failed' = TRUE /\ UNCHANGED hole
     \/ current \notin Starters \union Literals /\ hole' = TRUE /\ UNCHANGED failed
  /\ Stay /\ UNCHANGED heap

(* The loop of parse_expr_bp. *)
Infix ==
  /\ At("infix")
  /\ \/ LET bp == get_infix_bp(current) IN
        /\ bp > Top.min
        /\ Advance
        /\ stack' = Append([stack EXCEPT ![Len(stack)] =
                              [@ EXCEPT !.todo = <<"combine", "infix">>,
                                        !.op = current, !.at = Len(read) + 1]],
                           parse_expr_bp(bp + 1))
        /\ UNCHANGED heap
     \/ /\ get_infix_bp(current) <= Top.min
        /\ Return(Top.kids[1])
        /\ Stay /\ UNCHANGED heap
  /\ UNCHANGED <<failed, hole>>

Combine ==
  /\ At("combine")
  /\ heap' = Append(heap, Node("binop", Top.op, Top.at, Top.kids))
  /\ stack' = [stack EXCEPT ![Len(stack)].todo = Tail(@),
                            ![Len(stack)].kids = <<Len(heap) + 1>>]
  /\ Stay /\ UNCHANGED <<failed, hole>>
-----------------------------------------------------------------------------
(* An optional part: items if the current token is kind, else absent.      *)
Optional(item, kind, items, absent) ==
  /\ At(item)
  /\ IF current = kind
       THEN Then(items)
       ELSE stack' = [stack EXCEPT ![Len(stack)].todo = Tail(@),
                                   ![Len(stack)].kids = Append(@, absent)]
  /\ Stay /\ UNCHANGED <<heap, failed, hole>>

Else == Optional("else", "ELSE", <<"ELSE", "expr">>, NULL)

(* Without an annotation, type_name keeps what malloc returned.            *)
Annotation ==
  \E garbage \in {NULL, Wild} :
    Optional("annotation", "COLON", <<"COLON", "ID">>, garbage)

(* An optional separator. *)
Separator(item, kind, items) ==
  /\ At(item)
  /\ IF current = kind THEN Advance /\ Then(items) ELSE Stay /\ Then(<<>>)
  /\ UNCHANGED <<heap, failed, hole>>

Comma == Separator("comma", "COMMA", <<>>)
Semicolon == Separator("semicolon", "SEMICOLON", <<>>)
SeqSemicolon == Separator("seq semicolon", "SEMICOLON", <<"no trailing">>)

NoTrailing ==
  /\ At("no trailing")
  /\ IF current = "RPAREN"
       THEN Fail
       ELSE Then(<<>>) /\ Stay /\ UNCHANGED <<heap, failed, hole>>

(* A loop that ends at the token closer. *)
Loop(item, closer, items) ==
  /\ At(item)
  /\ Then(IF current = closer THEN <<>> ELSE items \o <<item>>)
  /\ Stay /\ UNCHANGED <<heap, failed, hole>>

(* Faulty variant: the last parameter needs a comma too. *)
FaultyParams ==
  IF current = "EOF" THEN At("params") /\ FailSilently
                     ELSE Loop("params", "RPAREN", <<"ID", "COLON", "ID", "COMMA">>)

Params ==
  IF current = "EOF" THEN At("params") /\ FailSilently
                     ELSE Loop("params", "RPAREN", <<"ID", "COLON", "ID", "comma">>)
(* Faulty variant: the end of the text does not end the list. *)
FaultyArgs == Loop("args", "RPAREN", <<"expr", "comma">>)

Args ==
  IF current = "EOF" THEN At("args") /\ FailSilently
                     ELSE Loop("args", "RPAREN", <<"expr", "comma">>)
Sequence ==
  IF current = "EOF" THEN At("sequence") /\ Fail
                     ELSE Loop("sequence", "RPAREN", <<"expr", "seq semicolon">>)
Body ==
  IF current = "EOF" THEN At("body") /\ Fail
                     ELSE Loop("body", "END", <<"expr", "semicolon">>)
Fields == Loop("fields", "RBRACE", <<"ID", "EQ", "expr", "comma">>)
TypeFields == Loop("type fields", "RBRACE", <<"ID", "COLON", "ID", "comma">>)

Declarations ==
  /\ At("declarations")
  /\ \/ /\ current \in {"VAR", "FUNCTION", "TYPE"}
        /\ ThenCall(<<"declarations">>,
                    CASE current = "VAR" -> parse_vardec
                      [] current = "FUNCTION" -> parse_funcdec
                      [] OTHER -> parse_typedec)
        /\ Stay /\ UNCHANGED <<heap, failed, hole>>
     \/ /\ current = "IN"
        /\ Then(<<"IN", "body", "END">>)
        /\ Stay /\ UNCHANGED <<heap, failed, hole>>
     \/ /\ current \notin {"VAR", "FUNCTION", "TYPE", "IN"}
        /\ Fail

(* The three kinds of type. *)
Ty ==
  /\ At("ty")
  /\ stack' = [stack EXCEPT ![Len(stack)] =
       CASE current = "LBRACE" ->
              [@ EXCEPT !.fn = "record type", !.todo = <<"LBRACE", "type fields", "RBRACE">>]
         [] current = "ARRAY" -> [@ EXCEPT !.fn = "array type", !.todo = <<"ARRAY", "OF", "ID">>]
         [] OTHER -> [@ EXCEPT !.todo = <<"ID">>]]
  /\ Stay /\ UNCHANGED <<heap, failed, hole>>

(* The loop of parse_lvalue, and what follows it. *)
Suffix ==
  /\ At("suffix")
  /\ stack' = [stack EXCEPT ![Len(stack)] =
       CASE current = "DOT" -> [@ EXCEPT !.todo = <<"DOT", "ID", "field", "suffix">>]
         [] current = "LBRACKET" -> [@ EXCEPT !.todo = <<"LBRACKET", "expr", "RBRACKET", "index">>]
         [] current = "ASSIGN" -> [@ EXCEPT !.fn = "assign", !.todo = <<"ASSIGN", "expr">>,
                                            !.at = heap[Top.kids[1]].at]
         [] OTHER -> [@ EXCEPT !.todo = <<>>]]
  /\ Stay /\ UNCHANGED <<heap, failed, hole>>

(* e becomes a node around it. *)
Field ==
  /\ At("field")
  /\ heap' = Append(heap, Node("field", "DOT", heap[Top.kids[2]].at, Top.kids))
  /\ stack' = [stack EXCEPT ![Len(stack)].todo = Tail(@),
                            ![Len(stack)].kids = <<Len(heap) + 1>>]
  /\ Stay /\ UNCHANGED <<failed, hole>>

(* With "of" the name in front is a type.  e->id is taken whatever e is. *)
Index ==
  /\ At("index")
  /\ LET e == Top.kids[1] IN
     \/ /\ current = "OF"
        /\ UNCHANGED heap
        /\ stack' = [stack EXCEPT ![Len(stack)] =
             [@ EXCEPT !.fn = "array", !.todo = <<"OF", "expr">>, !.at = heap[e].at,
                       !.kids[1] = IF heap[e].kind = "ID" THEN e ELSE Wild]]
     \/ /\ current # "OF"
        /\ heap' = Append(heap, Node("index", "LBRACKET", heap[e].at, Top.kids))
        /\ stack' = [stack EXCEPT ![Len(stack)] =
             [@ EXCEPT !.todo = <<"suffix">>, !.kids = <<Len(heap) + 1>>]]
  /\ Stay /\ UNCHANGED <<failed, hole>>

(* paramlist_insert and fieldlist_insert follow next pointers; the head of *)
(* a record type's list and the next of a record's first field are as      *)
(* malloc left them.  Unless that is NULL, the walk ends in a crash.       *)
FollowsWild ==
  /\ At("comma")
  /\ \/ Top.fn = "record type" /\ Len(Top.kids) = 3
     \/ Top.fn = "record" /\ Len(Top.kids) = 5

Crash ==
  /\ FollowsWild
  /\ stack' = <<>>
  /\ Stay /\ UNCHANGED <<heap, failed, hole>>

Crashed == stack = <<>>
-----------------------------------------------------------------------------
(* How a list can end: where nothing was written, memory may hold a       *)
(* pointer to more of it.                                                  *)
ListEnds(call) ==
  IF (call.fn = "record" /\ Len(call.kids) = 3) \/ (call.fn = "record type" /\ Len(call.kids) = 1)
    THEN {<<>>, <<Wild>>} ELSE {<<>>}

(* A function has done its items. *)
Finish ==
  /\ want = 0
  /\ Top.todo = <<>>
  /\ Top.fn \notin {"main", "minus"}
  /\ IF Top.fn = "lvalue"
       THEN Return(Top.kids[1]) /\ UNCHANGED heap
       ELSE \E end \in ListEnds(Top) :
              ReturnNode(Node(Top.fn, Top.op, Top.at, Top.kids \o end))
  /\ Stay /\ UNCHANGED <<failed, hole>>

(* - operand is 0 - operand, with a 0 that stands nowhere in the text. *)
FinishMinus ==
  /\ want = 0
  /\ Top.todo = <<>>
  /\ Top.fn = "minus"
  /\ heap' = heap \o <<Node("zero", "INT", Top.at, <<>>),
                       Node("binop", "MINUS", Top.at, <<Len(heap) + 1>> \o Top.kids)>>
  /\ Return(Len(heap) + 2)
  /\ Stay /\ UNCHANGED <<failed, hole>>

Parse ==
  /\ ~ Crashed
  /\ \/ Expect \/ Expr \/ Literal \/ Compound \/ NoPrimary \/ Infix \/ Combine
     \/ Else \/ Annotation \/ Comma \/ Semicolon \/ SeqSemicolon \/ NoTrailing
     \/ Params \/ Args \/ Sequence \/ Body \/ Fields \/ TypeFields
     \/ Declarations \/ Ty \/ Suffix \/ Field \/ Index
     \/ Crash \/ Finish \/ FinishMinus

Done == want = 0 /\ ~ Crashed /\ Top.fn = "main" /\ Top.todo = <<>>

Result == Top.kids[1]

Next == Parse \/ \E t \in Tokens : Deliver(t)

Spec == Init /\ [][Next]_vars
=============================================================================
