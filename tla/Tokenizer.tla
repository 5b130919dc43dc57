------------------------------ MODULE Tokenizer ------------------------------
(***************************************************************************)
(* tokenizer_c (libs/ingestion/src/tokenize.cpp): a source text is cut     *)
(* into tokens, one next_token call at a time.                             *)
(*                                                                         *)
(* A text is a string; At(p) is its p-th character and End stands for the  *)
(* '\0' that current_char and peek_char return past the end.  The kind of  *)
(* a token is its own text for keywords, operators and punctuation, and    *)
(* the name of its class otherwise.  Lines and columns, which only error   *)
(* messages use, are left out; the token's position is kept.               *)
(***************************************************************************)
EXTENDS Integers, Sequences, FiniteSets

End == ""

Char(src, p) == IF p <= Len(src) THEN SubSeq(src, p, p) ELSE End

Text(src, from, to) == SubSeq(src, from, to - 1)

-----------------------------------------------------------------------------
(* Character classes.                                                      *)

Chars(text) == {SubSeq(text, i, i) : i \in 1..Len(text)}

Blanks    == {" ", "\t", "\r", "\n"}
BinDigits == Chars("01")
OctDigits == Chars("01234567")
Digits    == Chars("0123456789")
HexDigits == Digits \cup Chars("abcdefABCDEF")
Letters   == Chars("abcdefghijklmnopqrstuvwxyz_") \cup Chars("ABCDEFGHIJKLMNOPQRSTUVWXYZ")

-----------------------------------------------------------------------------
(* Positions: where something stops, and what next_token skips.            *)

\* where a run of characters of S that starts at p ends
PastRun(src, p, S) ==
    CHOOSE i \in p..(Len(src) + 1) :
        Char(src, i) \notin S /\ \A j \in p..(i - 1) : Char(src, j) \in S

\* the first character of S from p on, or the end of the text
Find(src, p, S) ==
    CHOOSE i \in p..(Len(src) + 1) :
        Char(src, i) \in S \cup {End} /\ \A j \in p..(i - 1) : Char(src, j) \notin S

\* bug: the star of the opening mark may close the comment
PastBlock_Short(src, p) ==
    LET closes(i) == Char(src, i) = "*" /\ Char(src, i + 1) = "/"
        at        == CHOOSE i \in (p + 1)..(Len(src) + 1) :
                        (closes(i) \/ i > Len(src)) /\ \A j \in (p + 1)..(i - 1) : ~closes(j)
    IN  IF closes(at) THEN at + 2 ELSE at

\* skip_block_comment: past the first closing mark behind the opening one, or to the end
PastBlock(src, p) ==
    LET closes(i) == Char(src, i) = "*" /\ Char(src, i + 1) = "/"
        at        == CHOOSE i \in (p + 2)..(Len(src) + 1) :
                        (closes(i) \/ i > Len(src)) /\ \A j \in (p + 2)..(i - 1) : ~closes(j)
    IN  IF closes(at) THEN at + 2 ELSE at

\* blanks and comments before the next token; the newline behind a // comment is a blank
Skip(src, p) ==
    LET skip[i \in 1..(Len(src) + 1)] ==
          LET q == PastRun(src, i, Blanks)
          IN  CASE Char(src, q) = "/" /\ Char(src, q + 1) = "/" -> skip[Find(src, q, {"\n"})]
                [] Char(src, q) = "/" /\ Char(src, q + 1) = "*" -> skip[PastBlock(src, q)]
                [] OTHER -> q
    IN  skip[p]

-----------------------------------------------------------------------------
(* Tokens.                                                                 *)

Keywords == {"fn", "struct", "enum", "var", "const", "let", "if", "else", "while", "for",
             "in", "return", "break", "continue", "defer", "as", "true", "false", "nil",
             "import", "cimport", "extern", "shard", "match", "case", "i8", "i16", "i32",
             "i64", "u8", "u16", "u32", "u64", "f32", "f64", "bool", "void", "map"}

Operators == {"+", "+=", "-", "->", "-=", "*", "*=", "/", "/=", "%", "%=", "=", "==", "=>",
              "!", "!=", "<", "<=", "<<", ">", ">=", ">>", "&", "&&", "|", "||", "^", "~",
              "(", ")", "{", "}", "[", "]", ",", ";", ":", ".", "...", "@"}

\* the result of next_token: a token and the position behind it
Token(kind, src, from, to) == [kind |-> kind, text |-> Text(src, from, to), at |-> from, next |-> to]

EndToken(src)   == Token("eof", src, Len(src) + 1, Len(src) + 1)
ThrowToken(src, p) == Token("error", src, p, p)

tokenize_number(src, p) ==
    LET marker   == IF Char(src, p) = "0" THEN Char(src, p + 1) ELSE End
        whole    == PastRun(src, p, Digits)
        fraction == IF Char(src, whole) = "." /\ Char(src, whole + 1) \in Digits
                    THEN PastRun(src, whole + 1, Digits) ELSE whole
        exponent == IF Char(src, fraction) \in {"e", "E"}
                    THEN PastRun(src, IF Char(src, fraction + 1) \in {"+", "-"}
                                      THEN fraction + 2 ELSE fraction + 1, Digits)
                    ELSE fraction
    IN  CASE marker \in {"x", "X"} -> Token("int", src, p, PastRun(src, p + 2, HexDigits))
          [] marker \in {"b", "B"} -> Token("int", src, p, PastRun(src, p + 2, BinDigits))
          [] marker \in {"o", "O"} -> Token("int", src, p, PastRun(src, p + 2, OctDigits))
          [] OTHER -> Token(IF exponent = whole THEN "int" ELSE "float", src, p, exponent)

\* an escape takes the character behind it along; the end of the text closes the string
tokenize_string(src, p) ==
    LET close[i \in 1..(Len(src) + 2)] ==
          LET q == Find(src, i, {"\"", "\\"})
          IN  CASE i > Len(src)        -> Len(src) + 1
                [] Char(src, q) = End  -> q
                [] Char(src, q) = "\"" -> q + 1
                [] OTHER               -> close[q + 2]
    IN  Token("string", src, p, close[p + 1])

tokenize_char(src, p) ==
    LET escaped == Char(src, p + 1) = "\\"
        hex     == escaped /\ Char(src, p + 2) = "x"
        legal   == IF escaped
                   THEN \/ Char(src, p + 2) \in {"n", "t", "r", "0", "\\", "'", "\""}
                        \/ hex /\ {Char(src, p + 3), Char(src, p + 4)} \subseteq HexDigits
                   ELSE Char(src, p + 1) \notin {End, "'"}
        close   == IF hex THEN p + 5 ELSE IF escaped THEN p + 3 ELSE p + 2
    IN  IF legal /\ Char(src, close) = "'"
        THEN Token("char", src, p, close + 1)
        ELSE ThrowToken(src, p)

tokenize_identifier(src, p) ==
    LET to   == PastRun(src, p, Letters \cup Digits)
        word == Text(src, p, to)
    IN  Token(IF word \in Keywords THEN word ELSE "id", src, p, to)

\* bug: no operator has three characters
tokenize_operator_Two(src, p) ==
    LET sizes == {n \in 1..2 : p + n <= Len(src) + 1 /\ Text(src, p, p + n) \in Operators}
        size  == CHOOSE n \in sizes : \A m \in sizes : m <= n
    IN  IF sizes = {} THEN Token("unknown", src, p, p + 1)
        ELSE Token(Text(src, p, p + size), src, p, p + size)

\* the longest operator that starts here; any other character is a token of its own
tokenize_operator(src, p) ==
    LET sizes == {n \in 1..3 : p + n <= Len(src) + 1 /\ Text(src, p, p + n) \in Operators}
        size  == CHOOSE n \in sizes : \A m \in sizes : m <= n
    IN  IF sizes = {} THEN Token("unknown", src, p, p + 1)
        ELSE Token(Text(src, p, p + size), src, p, p + size)

next_token(src, from) ==
    LET p == Skip(src, from)
        c == Char(src, p)
    IN  CASE c = End         -> EndToken(src)
          [] c \in Digits    -> tokenize_number(src, p)
          [] c \in Letters   -> tokenize_identifier(src, p)
          [] c = "\""        -> tokenize_string(src, p)
          [] c = "'"         -> tokenize_char(src, p)
          [] OTHER           -> tokenize_operator(src, p)
=============================================================================
