------------------------------- MODULE Grammar ------------------------------
(***************************************************************************)
(* A reference for parser.c: texts of the language up to a length.  It     *)
(* generates them from rules, ambiguous ones where the language has        *)
(* precedence, and knows of no lookahead and of no order of reading.       *)
(*                                                                         *)
(* All rules together yield too much for long texts, so there are three    *)
(* families of texts: short ones of everything, longer ones of one         *)
(* construct each, and the longest of declarations and lists.              *)
(*                                                                         *)
(* Tokens that stand in the same places are one: INT is any literal, OP    *)
(* any operator but MINUS, which is also a prefix, and EQ, which also      *)
(* stands in declarations and fields.                                      *)
(***************************************************************************)
EXTENDS Integers, Sequences, SequencesExt, TLC

(* The rules of a symbol; a string that has none is a token.  No rule is   *)
(* empty, and one that is a single symbol names an earlier one of Order.   *)
Order == <<"lvalue", "exp", "seq", "args", "fields", "params", "dec", "decs", "text">>

Lists ==
  [seq |-> {<<"exp">>, <<"exp", "SEMICOLON", "seq">>},
   args |-> {<<"exp">>, <<"exp", "COMMA", "args">>},
   fields |-> {<<"ID", "EQ", "exp">>, <<"ID", "EQ", "exp", "COMMA", "fields">>},
   params |-> {<<"ID", "COLON", "ID">>, <<"ID", "COLON", "ID", "COMMA", "params">>},
   decs |-> {<<"dec">>, <<"dec", "decs">>},
   dec |-> {<<"VAR", "ID", "ASSIGN", "exp">>, <<"VAR", "ID", "COLON", "ID", "ASSIGN", "exp">>,
            <<"FUNCTION", "ID", "LPAREN", "RPAREN", "EQ", "exp">>,
            <<"FUNCTION", "ID", "LPAREN", "params", "RPAREN", "EQ", "exp">>,
            <<"FUNCTION", "ID", "LPAREN", "params", "RPAREN", "COLON", "ID", "EQ", "exp">>,
            <<"TYPE", "ID", "EQ", "ID">>, <<"TYPE", "ID", "EQ", "ARRAY", "OF", "ID">>,
            <<"TYPE", "ID", "EQ", "LBRACE", "RBRACE">>,
            <<"TYPE", "ID", "EQ", "LBRACE", "params", "RBRACE">>}]

Let == {<<"LET", "decs", "IN", "seq", "END">>, <<"LET", "IN", "seq", "END">>}

Infixes == {<<"exp", "OP", "exp">>, <<"exp", "EQ", "exp">>, <<"exp", "MINUS", "exp">>}
Applied == {<<"ID", "LPAREN", "RPAREN">>, <<"ID", "LPAREN", "args", "RPAREN">>}
Constructs ==
  {<<"lvalue", "ASSIGN", "exp">>,
   <<"WHILE", "exp", "DO", "exp">>, <<"FOR", "ID", "ASSIGN", "exp", "TO", "exp", "DO", "exp">>,
   <<"IF", "exp", "THEN", "exp">>, <<"IF", "exp", "THEN", "exp", "ELSE", "exp">>,
   <<"LPAREN", "RPAREN">>, <<"LPAREN", "seq", "RPAREN">>,
   <<"ID", "LBRACE", "RBRACE">>, <<"ID", "LBRACE", "fields", "RBRACE">>,
   <<"ID", "LBRACKET", "exp", "RBRACKET", "OF", "exp">>}
LValue ==
  {<<"ID">>, <<"lvalue", "DOT", "ID">>, <<"lvalue", "LBRACKET", "exp", "RBRACKET">>}

(* All expressions. *)
Full ==
  [lvalue |-> LValue,
   exp |-> {<<"lvalue">>, <<"INT">>, <<"MINUS", "exp">>}
           \union Infixes \union Applied \union Constructs \union Let,
   text |-> {<<"exp">>}] @@ Lists

(* One construct of simple expressions. *)
Single ==
  [lvalue |-> LValue,
   exp |-> {<<"ID">>, <<"INT">>, <<"MINUS", "exp">>} \union Applied,
   text |-> {<<"exp">>} \union Infixes \union Constructs] @@ Lists

(* Declarations and lists, of the simplest expressions. *)
Few ==
  [lvalue |-> {<<"ID">>}, exp |-> Let \union {<<"lvalue">>}, text |-> {<<"exp">>}] @@ Lists

(* The sentences of each symbol of Order, by their length up to max. *)
Sentences(rules, max) ==
  LET Empty == [s \in ToSet(Order) |-> {}]
      \* what a rule yields with n tokens, table[m] being known for m < n and now for n
      Yield(rule, n, table, now) ==
        LET yields[i \in 1 .. Len(rule) + 1, m \in 0 .. n] ==
              IF i > Len(rule) THEN IF m = 0 THEN {<<>>} ELSE {}
              ELSE IF Len(rule) - i + 1 > m THEN {}
              ELSE IF rule[i] \notin ToSet(Order)
                THEN {<<rule[i]>> \o x : x \in yields[i + 1, m - 1]}
              ELSE UNION {LET firsts == IF k = n THEN now[rule[i]] ELSE table[k][rule[i]]
                          IN IF firsts = {} THEN {}
                             ELSE {x \o y : x \in firsts, y \in yields[i + 1, m - k]} :
                          k \in 1 .. m - (Len(rule) - i)}
        IN yields[1, n]
      Row(table, n) ==
        FoldLeft(LAMBDA now, s :
                   [now EXCEPT ![s] = UNION {Yield(r, n, table, now) : r \in rules[s]}],
                 Empty, Order)
  IN FoldLeft(LAMBDA table, n : Append(table, Row(table, n)), <<>>, [n \in 1 .. max |-> n])

(* The texts of at most max tokens, and all their beginnings. *)
TextsOf(rules, max) ==
  LET table == Sentences(rules, max) IN UNION {table[n]["text"] : n \in 1 .. max}

Beginnings(rules, max) ==
  UNION {{SubSeq(s \o <<"EOF">>, 1, n) : n \in 0 .. Len(s) + 1} : s \in TextsOf(rules, max)}
=============================================================================
