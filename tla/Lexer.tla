------------------------------- MODULE Lexer --------------------------------
(***************************************************************************)
(* lexer.c.  A symbol of the text is a character, or a whole number or     *)
(* word, which ends where the next symbol begins.  The text is made up as  *)
(* it is read.  An action reads at most one symbol; what next_token has    *)
(* seen of its token is the mode.  Lines and columns are left out.         *)
(***************************************************************************)
EXTENDS Integers, Sequences

CONSTANTS Texts,       \* for each text, the sets of symbols that may stand at each place
          Garbage,     \* symbols that may stand behind the text in memory
          MaxGarbage   \* bound: behind so many of them there is a NUL

VARIABLES text,    \* which of Texts, never changed
          seen,    \* the symbols in front of lexer->pos
          ch,      \* peek: the symbol at lexer->pos
          mode,    \* how much next_token knows; "space" also if it was not called
          depth,   \* the local variable of skip_comment
          token    \* what next_token has just returned, or "none"
lexVars == <<text, seen, ch, mode, depth, token>>

Ended(symbols) == \E i \in DOMAIN symbols : symbols[i] = "NUL"

(* What may follow the symbols s. *)
Following(s) ==
  IF Ended(s) THEN IF Len(s) < Len(Texts[text]) + MaxGarbage THEN Garbage ELSE {"NUL"}
  ELSE IF Len(s) < Len(Texts[text]) THEN Texts[text][Len(s) + 1]
  ELSE {"NUL"}
-----------------------------------------------------------------------------
Blanks == {" ", "\n"}

(* Tokens that the first symbol decides, the last branch of next_token and *)
(* the words of lex_id_or_keyword among them.                              *)
KeywordOf ==
  [while |-> "WHILE", let |-> "LET", var |-> "VAR", then |-> "THEN", nil |-> "NIL",
   for |-> "FOR", in |-> "IN", type |-> "TYPE", else |-> "ELSE", to |-> "TO", end |-> "END",
   do |-> "DO", break |-> "BREAK", function |-> "FUNCTION", if |-> "IF", of |-> "OF",
   array |-> "ARRAY"]

lex_id_or_keyword(word) == IF word \in DOMAIN KeywordOf THEN KeywordOf[word] ELSE "ID"

Identifiers == {"x", "y"}

OneSymbol(c) ==
  CASE c = "NUL" -> "EOF"
    [] c = "+" -> "PLUS"      [] c = "-" -> "MINUS"     [] c = "*" -> "STAR"
    [] c = "=" -> "EQ"        [] c = "&" -> "AND"       [] c = "|" -> "OR"
    [] c = "(" -> "LPAREN"    [] c = ")" -> "RPAREN"
    [] c = "[" -> "LBRACKET"  [] c = "]" -> "RBRACKET"
    [] c = "{" -> "LBRACE"    [] c = "}" -> "RBRACE"
    [] c = "." -> "DOT"       [] c = "," -> "COMMA"     [] c = ";" -> "SEMICOLON"
    [] c = "1" -> "INT"
    [] c \in Identifiers \union DOMAIN KeywordOf -> lex_id_or_keyword(c)
    [] OTHER -> "ERROR"

(* The symbols after which next_token has to look at another one. *)
Longer == {"/", ":", "<", ">", "\""}

(* Two symbols, and what the first is by itself. *)
TwoSymbols(c, d) ==
  CASE c = ":" /\ d = "=" -> "ASSIGN"
    [] c = "<" /\ d = "=" -> "LE"
    [] c = "<" /\ d = ">" -> "NEQ"
    [] c = ">" /\ d = "=" -> "GE"
    [] OTHER -> "none"
Alone(c) ==
  CASE c = ":" -> "COLON" [] c = "<" -> "LT" [] c = ">" -> "GT" [] c = "/" -> "SLASH"
-----------------------------------------------------------------------------
Init ==
  /\ text \in DOMAIN Texts
  /\ seen = <<>>
  /\ ch \in Following(<<>>)
  /\ mode = "space" /\ depth = 0 /\ token = "none"

(* advance *)
Advance ==
  /\ seen' = Append(seen, ch)
  /\ ch' \in Following(seen')

Stay == UNCHANGED <<seen, ch>>

Go(m) == mode' = m /\ token' = "none" /\ UNCHANGED text
Give(t) == mode' = "space" /\ depth' = 0 /\ token' = t /\ UNCHANGED text

skip_whitespace ==
  /\ mode = "space" /\ ch \in Blanks
  /\ Advance /\ Go("space") /\ UNCHANGED depth

FirstSymbol ==
  /\ mode = "space" /\ ch \notin Blanks
  /\ Advance
  /\ IF ch \in Longer THEN Go(ch) /\ UNCHANGED depth ELSE Give(OneSymbol(ch))

SecondSymbol ==
  /\ mode \in {":", "<", ">", "/"}
  /\ \/ /\ TwoSymbols(mode, ch) # "none"
        /\ Advance /\ Give(TwoSymbols(mode, ch))
     \/ /\ mode = "/" /\ ch = "*"
        /\ Advance /\ Go("comment") /\ depth' = 1
     \/ /\ TwoSymbols(mode, ch) = "none" /\ ~ (mode = "/" /\ ch = "*")
        /\ Stay /\ Give(Alone(mode))

(* skip_comment.  After a * or a / it looks at the next symbol. *)
InComment ==
  /\ mode = "comment"
  /\ Advance
  /\ IF ch = "NUL" THEN Give("ERROR")
     ELSE /\ Go(IF ch = "*" THEN "comment *" ELSE IF ch = "/" THEN "comment /" ELSE "comment")
          /\ UNCHANGED depth

CommentCloses ==
  /\ mode = "comment *"
  /\ IF ch = "/"
       THEN /\ Advance
            /\ depth' = depth - 1
            /\ Go(IF depth = 1 THEN "space" ELSE "comment")
       ELSE Stay /\ Go("comment") /\ UNCHANGED depth

(* Faulty variant: comments do not nest. *)
FaultyCommentOpens ==
  /\ mode = "comment /"
  /\ Go("comment")
  /\ IF ch = "*" THEN Advance /\ UNCHANGED depth ELSE Stay /\ UNCHANGED depth

CommentOpens ==
  /\ mode = "comment /"
  /\ Go("comment")
  /\ IF ch = "*" THEN Advance /\ depth' = depth + 1 ELSE Stay /\ UNCHANGED depth

(* lex_string.  The symbol after a backslash is taken unseen. *)
InString ==
  /\ mode = "\""
  /\ Advance
  /\ CASE ch = "\"" -> Give("STRING")
       [] ch = "NUL" -> Give("ERROR")
       [] ch = "\\" -> Go("escape") /\ UNCHANGED depth
       [] OTHER -> Go(mode) /\ UNCHANGED depth

Escape ==
  /\ mode = "escape"
  /\ Advance /\ Go("\"") /\ UNCHANGED depth

NextToken ==
  \/ skip_whitespace \/ FirstSymbol \/ SecondSymbol
  \/ InComment \/ CommentCloses \/ CommentOpens
  \/ InString \/ Escape
-----------------------------------------------------------------------------
Modes == {"space", "comment", "comment *", "comment /", "escape"} \union Longer

TypeOK ==
  /\ text \in DOMAIN Texts
  /\ ch \in Following(seen)
  /\ mode \in Modes
  /\ depth \in 0 .. Len(seen)
=============================================================================
