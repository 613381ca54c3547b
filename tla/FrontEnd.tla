------------------------------ MODULE FrontEnd ------------------------------
(***************************************************************************)
(* main.c, lines 38 to 50: the parser reads a text through the lexer.  The *)
(* parser is Parser with the tokens that Lexer makes of the text.          *)
(***************************************************************************)
EXTENDS Parser, Grammar

CONSTANTS Texts, Garbage, MaxGarbage,
          MaxFull, MaxSingle, MaxFew   \* bounds: tokens of the reference's texts

VARIABLES text, seen, ch, mode, depth, token

L == INSTANCE Lexer

lexVars == <<text, seen, ch, mode, depth, token>>
frontVars == <<vars, lexVars>>

StartUp == Init /\ L!Init

Lex ==
  /\ want > 0
  /\ L!NextToken
  /\ IF token' = "none" THEN UNCHANGED vars ELSE Deliver(token')

Finished == (Done \/ Crashed) /\ UNCHANGED frontVars

Run == Lex \/ (Parse /\ UNCHANGED lexVars)

FrontEndSpec == StartUp /\ [][Run \/ Finished]_frontVars /\ WF_frontVars(Run)
-----------------------------------------------------------------------------
(* Every variable has its type: the lexer's, and for the parser that every *)
(* pointer it holds points at a node (parser.c, lexer.c).                  *)
Pointers == {NULL, Wild} \union DOMAIN heap
Calls == {"main", "expr", "if", "while", "for", "let", "var", "func", "type", "record type",
          "array type", "call", "record", "lvalue", "assign", "array", "seq", "minus"}

TypeOK ==
  /\ L!TypeOK
  /\ {current, next} \subseteq Tokens
  /\ want \in 0 .. 2
  /\ \A i \in DOMAIN read : read[i] \in Readable
  /\ \A i \in DOMAIN heap : \A j \in DOMAIN heap[i].kids : heap[i].kids[j] < i
  /\ \A i \in DOMAIN stack :
       stack[i].fn \in Calls /\ \A j \in DOMAIN stack[i].kids : stack[i].kids[j] \in Pointers
-----------------------------------------------------------------------------
(* The reference for the lexer: the tokens of a whole text s. *)
Pair(s, i, c, d) == i < Len(s) /\ s[i] = c /\ s[i + 1] = d

(* CommentEnd(s)[i][d]: where d comments that are open before the i-th     *)
(* symbol have ended.                                                      *)
CommentEnd(s) ==
  LET end[i \in 1 .. Len(s) + 2] ==
        [d \in Nat |->
           IF d = 0 \/ i > Len(s) THEN i
           ELSE IF Pair(s, i, "*", "/") THEN end[i + 2][d - 1]
           ELSE IF Pair(s, i, "/", "*") THEN end[i + 2][d + 1]
           ELSE end[i + 1][d]]
  IN end

(* StringEnd(s)[i]: where a string that is open there has ended. *)
StringEnd(s) ==
  LET end[i \in 1 .. Len(s) + 2] ==
        IF i > Len(s) \/ s[i] = "\"" THEN i + 1
        ELSE IF s[i] = "\\" THEN end[i + 2] ELSE end[i + 1]
  IN end

(* TokensFrom(s)[i]: the tokens from there on. *)
TokensFrom(s) ==
  LET tokens[i \in 1 .. Len(s) + 3] ==
        IF i > Len(s) THEN <<>>
        ELSE IF s[i] \in L!Blanks THEN tokens[i + 1]
        ELSE IF Pair(s, i, "/", "*") THEN tokens[CommentEnd(s)[i + 2][1]]
        ELSE IF s[i] = "\"" THEN <<"STRING">> \o tokens[StringEnd(s)[i + 1]]
        ELSE IF i < Len(s) /\ L!TwoSymbols(s[i], s[i + 1]) # "none"
          THEN <<L!TwoSymbols(s[i], s[i + 1])>> \o tokens[i + 2]
        ELSE <<IF s[i] \in L!Longer THEN L!Alone(s[i]) ELSE L!OneSymbol(s[i])>> \o tokens[i + 1]
  IN tokens

TokensOf(s) == TokensFrom(s)[1]

(* However much of a text has been read, the tokens that the parser has    *)
(* read and the one it is at are the first tokens of that text: nothing in *)
(* a comment or a string becomes a token, whatever is nested or escaped in *)
(* it, and no token is lost, doubled, cut or joined (next_token; its two   *)
(* symbols of lookahead are ch and the mode).                              *)
TokensRead ==
  IsPrefix(IF want = 2 \/ current = "ERROR" THEN read ELSE Append(read, current),
           TokensOf(seen))
-----------------------------------------------------------------------------
(* The reference for the parser: how a tree is written.  In a layout,      *)
(* "own" is the token whose place the node notes, a number is a field.     *)
Layout ==
  [if |-> <<"own", "1", "THEN", "2", "else">>,
   while |-> <<"own", "1", "DO", "2">>,
   for |-> <<"own", "1", "ASSIGN", "2", "TO", "3", "DO", "4">>,
   let |-> <<"own", "declarations", "IN", "expressions", "END">>,
   var |-> <<"own", "1", "annotation", "ASSIGN", "3">>,
   func |-> <<"own", "1", "LPAREN", "params", "RPAREN", "result", "EQ", "last">>,
   type |-> <<"own", "1", "EQ", "2">>,
   call |-> <<"1", "LPAREN", "rest", "RPAREN">>,
   record |-> <<"1", "LBRACE", "fields", "RBRACE">>,
   array |-> <<"1", "LBRACKET", "2", "RBRACKET", "OF", "3">>,
   index |-> <<"1", "LBRACKET", "2", "RBRACKET">>,
   field |-> <<"1", "DOT", "2">>,
   assign |-> <<"1", "ASSIGN", "2">>,
   seq |-> <<"own", "all", "RPAREN">>,
   binop |-> <<"1", "own", "2">>,
   zero |-> <<>>]

LayoutOf(kind) ==
  CASE kind \in DOMAIN Layout -> Layout[kind]
    [] kind = "array type" -> <<"own", "1", "EQ", "ARRAY", "OF", "2">>
    [] kind = "record type" -> <<"own", "1", "EQ", "LBRACE", "type fields", "RBRACE">>
    [] OTHER -> <<"own">>

Declarators == {"var", "func", "type", "array type", "record type"}

(* The tokens of a tree, each with its place in the text; 0 is any place. *)
Spell(root) ==
  LET spelled[n \in NULL .. Len(heap)] ==
        IF n = NULL THEN <<>> ELSE
        LET node == heap[n]
            kids == node.kids
            last == Len(kids)
            Key(tok) == <<[tok |-> tok, at |-> 0]>>
            Kid(i) == spelled[kids[i]]
            Kids(is) == FlattenSeq([i \in 1 .. last |-> IF i \in is THEN Kid(i) ELSE <<>>])
            Pairs(from, to, mid) ==
              FlattenSeq([i \in 1 .. (to - from + 1) \div 2 |->
                           Kid(from + 2 * i - 2) \o Key(mid) \o Kid(from + 2 * i - 1)])
            After(tok, i) == IF kids[i] = NULL THEN <<>> ELSE Key(tok) \o Kid(i)
            declared == {i \in 1 .. last : kids[i] # NULL /\ heap[kids[i]].kind \in Declarators}
            Item(x) ==
              CASE x = "own" -> <<[tok |-> node.op, at |-> node.at]>>
                [] x = "1" -> Kid(1)  [] x = "2" -> Kid(2)
                [] x = "3" -> Kid(3)  [] x = "4" -> Kid(4)
                [] x = "last" -> Kid(last)
                [] x = "all" -> Kids(1 .. last)
                [] x = "rest" -> Kids(2 .. last)
                [] x = "declarations" -> Kids(declared)
                [] x = "expressions" -> Kids((1 .. last) \ declared)
                [] x = "else" -> After("ELSE", 3)
                [] x = "annotation" -> After("COLON", 2)
                [] x = "result" -> After("COLON", last - 1)
                [] x = "params" -> Pairs(2, last - 2, "COLON")
                [] x = "fields" -> Pairs(2, last, "EQ")
                [] x = "type fields" -> Pairs(2, last, "COLON")
                [] OTHER -> Key(x)
            layout == LayoutOf(node.kind)
        IN FlattenSeq([i \in DOMAIN layout |-> Item(layout[i])])
  IN spelled[root]

(* A tree with a pointer in it that was never written spells nothing. *)
Written == \A i \in DOMAIN heap : \A j \in DOMAIN heap[i].kids : heap[i].kids[j] # Wild

Separators == {"COMMA", "SEMICOLON"}

(* If main goes on with the tree (main.c:45), no operand was missing and   *)
(* every pointer in it was written, or is NULL by the luck of malloc, the  *)
(* tree written out is the tokens read, each node with the place it notes: *)
(* nothing is lost, doubled or misplaced.  NoTypeIsNull is about pointers  *)
(* that were not.                                                          *)
Spelled ==
  (Done /\ ~ failed /\ ~ hole /\ Written) =>
    LET places == SelectSeq([i \in DOMAIN read |-> i], LAMBDA i : read[i] \notin Separators)
        spelled == Spell(Result)
    IN /\ Len(spelled) = Len(places)
       /\ \A i \in DOMAIN places : /\ spelled[i].tok = read[places[i]]
                                   /\ spelled[i].at \in {0, places[i]}

(* What tests/parser_test.c:408 says: a function, or variable, declared    *)
(* without a type has type_name = NULL (make_dec, parser.c:88, sets it for *)
(* neither).                                                               *)
NoTypeIsNull ==
  \A i \in DOMAIN heap :
    /\ heap[i].kind = "var" => heap[i].kids[2] # Wild
    /\ heap[i].kind = "func" => heap[i].kids[Len(heap[i].kids) - 1] # Wild
-----------------------------------------------------------------------------
IsInfix(n) ==
  n > 0 /\ heap[n].kind = "binop" /\ ~ (heap[n].kids[1] > 0 /\ heap[heap[n].kids[1]].kind = "zero")

(* Constructs that end with an expression take in every operator after it. *)
OpenEnded == {"if", "while", "for", "assign", "array"}
IsOpenEnded(n) ==
  LET open[i \in Wild .. n] ==
        /\ i > 0
        /\ \/ heap[i].kind \in OpenEnded
           \/ heap[i].kind = "binop" /\ open[heap[i].kids[2]]
  IN open[n]

(* An if without else at the right end of the tree. *)
EndsInIf(n) ==
  LET ends[i \in Wild .. n] ==
        /\ i > 0
        /\ \/ heap[i].kind = "if" /\ heap[i].kids[3] = NULL
           \/ /\ heap[i].kind \in OpenEnded \union {"binop"}
              /\ ends[heap[i].kids[Len(heap[i].kids)]]
  IN ends[n]

PowersRespected ==
  \A n \in DOMAIN heap : IsInfix(n) =>
    LET l == heap[n].kids[1]  r == heap[n].kids[2] IN
    /\ IsInfix(l) => get_infix_bp(heap[l].op) >= get_infix_bp(heap[n].op)
    /\ IsInfix(r) => get_infix_bp(heap[r].op) > get_infix_bp(heap[n].op)

(* Operators bind as their powers say, to the left among equals            *)
(* (parser.c:531), and what ends with an expression takes in every         *)
(* operator after it, so it is no left operand (parser.c:471).  An else    *)
(* belongs to the nearest if (parser.c:135); only where an expression is   *)
(* missing or wrong does an else leave the tree of an if without one.      *)
Binds ==
  /\ PowersRespected
  /\ \A n \in DOMAIN heap : IsInfix(n) => ~ IsOpenEnded(heap[n].kids[1])
  /\ (~ failed /\ ~ hole) =>
       \A n \in DOMAIN heap :
         heap[n].kind = "if" /\ heap[n].kids[3] # NULL => ~ EndsInIf(heap[n].kids[2])
-----------------------------------------------------------------------------
(* What the parser knows of the text. *)
Known ==
  IF want > 0 \/ current \in {"EOF", "ERROR"} THEN Append(read, current)
                                              ELSE read \o <<current, next>>

(* What the reference calls a token. *)
Class(tok) ==
  IF tok \in Literals THEN "INT"
  ELSE IF tok \in Operators \ {"MINUS", "EQ"} THEN "OP" ELSE tok

LegalBeginnings ==
  Beginnings(Full, MaxFull) \union Beginnings(Single, MaxSingle) \union Beginnings(Few, MaxFew)

MaybeLegal == [i \in DOMAIN Known |-> Class(Known[i])] \in LegalBeginnings

(* As long as what the parser has seen can be the beginning of a legal     *)
(* text of the reference's, it reports no error, misses no operand, and    *)
(* does not stop before the end: two tokens of lookahead are enough        *)
(* (parser.c:571-599).  A crash is no rejection (see Crash in Parser).     *)
NothingLegalRejected ==
  (failed \/ hole \/ (Done /\ current # "EOF")) => ~ MaybeLegal
-----------------------------------------------------------------------------
(* Behind the NUL the lexer reads what happens to lie there.  It does that *)
(* only for the token after the last, which is then EOF or ERROR, so that  *)
(* nothing depends on what it finds (lexer.c:45, lexer.c:91, lexer.c:185;  *)
(* parser.c:10).  A backslash that ends the text is an exception: the NUL  *)
(* is taken for an escaped symbol (lexer.c:81).                            *)
Escaped == \E i \in 2 .. Len(seen) : seen[i] = "NUL" /\ seen[i - 1] = "\\"

NotPastTheEnd ==
  (want > 0 /\ mode = "space" /\ L!Ended(seen)) =>
     Escaped \/ (want = 1 /\ current \in {"EOF", "ERROR"})

(* The only ways not to end (parser.c:397, 422, 505): a loop over          *)
(* expressions at a token that neither begins nor continues one, nor       *)
(* separates or ends the list, or at a name before nil.                    *)
Loops == [sequence |-> {"RPAREN", "SEMICOLON", "EOF"}, args |-> {"RPAREN", "COMMA", "EOF"},
          body |-> {"END", "SEMICOLON", "EOF"}]

Stuck ==
  /\ want = 0 /\ ~ Crashed /\ ~ Done
  /\ Top.todo # <<>> /\ Head(Top.todo) \in DOMAIN Loops
  /\ current \notin Loops[Head(Top.todo)]
  /\ \/ current \notin Starters \union Literals \union Operators
     \/ current = "ID" /\ next = "NIL"

(* Parsing ends, unless it comes to one of these (parser.c, lexer.c). *)
Terminates == <>(Done \/ Crashed \/ Stuck)
=============================================================================
