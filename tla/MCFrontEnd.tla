----------------------------- MODULE MCFrontEnd -----------------------------
(***************************************************************************)
(* Texts: short ones in which every place varies, for the operators, for   *)
(* lists and dangling parts, and for comments and strings; and one legal   *)
(* text for each construct, with any symbol in the place of any one.       *)
(* Three of the texts of tests/parser_test.c stand alone.                  *)
(***************************************************************************)
EXTENDS FrontEnd

Times(n, set) == [i \in 1 .. n |-> set]

Words ==
  {"x", "while", "let", "var", "then", "nil", "for", "in", "type", "else", "to", "end", "do",
   "break", "function", "if", "of", "array"}
AnySymbol ==
  Words \union {"1", "\"", "+", "*", "/", "-", "=", "&", "|", "(", ")", "[", "]", "{", "}",
                ".", ",", ";", ":", "<", ">", "?", "NUL"}

Varied ==
  <<<<{"x", "-"}, {"x", "+", "*", "="}, {"x", "-", "("}, {"+", "*", "=", ")"}, {"x"},
     {"+", "*", "-", ")"}, {"x", "NUL"}>>,
   <<{"("}>> \o Times(3, {"x", "-", ";", "(", ")", "then", "nil"}) \o <<{")", ";", "NUL"}>>,
   <<{"x"}, {"("}>> \o Times(3, {"x", ",", ";", ")", "+"}) \o <<{")", "NUL"}>>,
   <<{"let"}, {"in"}>> \o Times(3, {"x", ",", ";", "do", "end"}) \o <<{"end", "NUL"}>>,
   <<{"if", "while"}, {"x"}, {"then", "do"}, {"if", "x"}, {"x", "else"}, {"then", "+"}, {"x"},
     {"else", "+", "*"}, {"x", "else"}, {"else", "+"}, {"x"}>>,
   Times(7, {"/", "*", "x"}),
   Times(4, {"\"", "\\", "x", "/", "NUL"}),
   <<{"x", ":"}>> \o Times(2, {":", "=", "<", ">", "\n"}) \o <<{"x", "="}>>>>

Legal ==
  <<<<"let", "var", "x", ":", "x", ":", "=", "x", "in", "x", ";", "x", "end">>,
   <<"let", "type", "x", "=", "{", "x", ":", "x", ",", "x", ":", "x", "}", "in", "x", "end">>,
   <<"let", "type", "x", "=", "array", "of", "x", "type", "x", "=", "x", "in", "x", "end">>,
   <<"let", "function", "x", "(", "x", ":", "x", ",", "x", ":", "x", ")", "=", "x", "in", "x",
     "end">>,
   <<"let", "function", "x", "(", ")", ":", "x", "=", "x", "in", "x", "end">>,
   <<"for", "x", ":", "=", "1", "to", "x", "do", "x">>,
   <<"x", "{", "x", "=", "1", ",", "x", "=", "x", "}">>,
   <<"x", ".", "x", "[", "1", "]", ":", "=", "x">>,
   <<"x", "[", "x", "]", "of", "x", "(", "-", "x", ")">>>>

Slips(s) == [j \in DOMAIN s |-> [i \in DOMAIN s |-> IF i = j THEN AnySymbol ELSE {s[i]}]]

MCTexts == Varied \o FlattenSeq([n \in DOMAIN Legal |-> Slips(Legal[n])])

(* let function greet() = 0 in greet() end *)
NoReturnType ==
  <<<<{"let"}, {"function"}, {"x"}, {"("}, {")"}, {"="}, {"1"}, {"in"}, {"x"}, {"("}, {")"},
     {"end"}>>>>

MCGarbage == {"x", "\"", "NUL"}
=============================================================================
