----------------------------- MODULE StoreText -----------------------------
(***************************************************************************)
(* Stores as text: the lexer, the parser and the writer of                 *)
(* src/src/modules/store.                                                  *)
(***************************************************************************)
EXTENDS Store

Digits == {ToString(d) : d \in 0 .. 9} \cup {"-"}

\* getStoreLexCharType
CharType(c) ==
  CASE c \in {" ", "\n", "\t", ";", ","} -> "SPACE"
    [] c \in Digits -> "DIGIT"
    [] c = "." -> "DECIMAL"
    [] c = "\"" -> "QUOTATION"
    [] c = "\\" -> "ESCAPE"
    [] c \in {"/", "#"} -> "COMMENT"
    [] c \in {"(", ")", "{", "}", "="} -> "DELIMITER"
    [] c = "" -> "END"
    [] OTHER -> "LETTER"

\* The states of the lexer, and the type of the token that a state reads.
Reading == [SIMPLE |-> "string", INT |-> "integer", FLOAT |-> "float"]

\* yylex returns a token: its value is what has been assembled, atoi of it, or atof.
TokenOf(state, text) ==
  CASE state = "SIMPLE" -> [string |-> text]
    [] state = "INT" -> [integer |-> Atoi(text)]
    [] OTHER -> [float |-> text]

Error == [error |-> TRUE]

\* lexStateStart; `type` is the type of the character c, here and below.
LexStart(lex, c, type) ==
  LET Go(state, text) == [lex EXCEPT !.state = state, !.text = text] IN
  CASE type = "DELIMITER" -> [lex EXCEPT !.tokens = Append(@, [delimiter |-> c])]
    [] type = "SPACE" -> lex
    [] type = "QUOTATION" -> Go("EXTENDED", "")
    [] type = "COMMENT" -> Go("COMMENTING", "")
    [] type = "DECIMAL" -> Go("FLOAT", c)
    [] type = "DIGIT" -> Go("INT", c)
    [] type = "END" -> Go("ENDED", "")
    [] OTHER -> Go("SIMPLE", c)

\* A token is complete: the next character starts a new one if it was not consumed.
Emit(lex, token) == [lex EXCEPT !.state = "START", !.text = "", !.tokens = Append(@, token)]

\* lexStateReadingStringSimple, lexStateReadingNumberInt, lexStateReadingNumberFloat
LexReading(lex, c, type) ==
  LET Consume(state) == [lex EXCEPT !.text = @ \o c, !.state = state]
  IN  CASE type = "DIGIT" -> Consume(lex.state)
        [] type = "DECIMAL" /\ lex.state = "FLOAT" -> Emit(lex, Error)
        [] type = "DECIMAL" -> Consume(IF lex.state = "INT" THEN "FLOAT" ELSE "SIMPLE")
        [] type = "LETTER" -> Consume("SIMPLE")
        [] type = "ESCAPE" /\ lex.state = "SIMPLE" -> Consume("SIMPLE")
        [] OTHER -> LexStart(Emit(lex, TokenOf(lex.state, lex.text)), c, type)

\* lexStateReadingStringExtended, lexStateReadingStringExtendedEscaping.  After an end
\* inside quotation marks the lexer reads on behind the text; what it would find there
\* no caller uses, the token before it being an error.
LexExtended(lex, c, type) ==
  CASE lex.state = "ESCAPING" /\ type \in {"QUOTATION", "ESCAPE"} ->
         [lex EXCEPT !.state = "EXTENDED", !.text = @ \o c]
    [] lex.state = "ESCAPING" -> Emit(lex, Error)
    [] type = "QUOTATION" -> Emit(lex, [string |-> lex.text])
    [] type = "ESCAPE" -> [lex EXCEPT !.state = "ESCAPING"]
    [] type = "END" -> [Emit(lex, Error) EXCEPT !.state = "ENDED"]
    [] OTHER -> [lex EXCEPT !.text = @ \o c]

LexTyped(lex, c, type) ==
  CASE lex.state = "ENDED" -> lex
    [] lex.state = "START" -> LexStart(lex, c, type)
    [] lex.state = "COMMENTING" -> IF c = "\n" THEN [lex EXCEPT !.state = "START"] ELSE lex
    [] lex.state \in DOMAIN Reading -> LexReading(lex, c, type)
    [] OTHER -> LexExtended(lex, c, type)

LexChar(lex, c) == LexTyped(lex, c, CharType(c))

\* lexStore: the tokens of a text up to its end, the empty character.
RECURSIVE LexFrom(_, _, _)
LexFrom(lex, text, i) ==
  IF lex.state = "ENDED" \/ i > Len(text) + 1 THEN lex
  ELSE LexFrom(LexChar(lex, IF i > Len(text) THEN "" ELSE Char(text, i)), text, i + 1)

LexStore(text) == LexFrom([state |-> "START", text |-> "", tokens |-> <<>>], text, 1).tokens

-----------------------------------------------------------------------------
(* The parser, by recursive descent; Null is a syntax error. *)

NoParse == [value |-> Null, rest |-> <<>>]
Starts(tokens, c) == tokens # <<>> /\ Head(tokens) = [delimiter |-> c]

\* parser.y: value, list, node, array, root.
RECURSIVE ParseValue(_), ParseList(_, _), ParseNodes(_, _)
ParseValue(tokens) ==
  CASE tokens = <<>> -> NoParse
    [] Starts(tokens, "(") -> ParseList(Tail(tokens), <<>>)
    [] Starts(tokens, "{") ->
         LET nodes == ParseNodes(Tail(tokens), EmptyArray.array) IN
         IF nodes.value # Null /\ Starts(nodes.rest, "}")
         THEN [nodes EXCEPT !.rest = Tail(@)] ELSE NoParse
    [] Is(Head(tokens), "delimiter") \/ Head(tokens) = Error -> NoParse
    [] OTHER -> [value |-> Head(tokens), rest |-> Tail(tokens)]

ParseList(tokens, read) ==
  IF Starts(tokens, ")") THEN [value |-> List(read), rest |-> Tail(tokens)]
  ELSE LET next == ParseValue(tokens) IN
       IF next.value = Null THEN NoParse ELSE ParseList(next.rest, Append(read, next.value))

ParseNodes(tokens, read) ==
  IF Len(tokens) < 2 \/ ~ Is(Head(tokens), "string") \/ ~ Starts(Tail(tokens), "=")
  THEN [value |-> Array(read), rest |-> tokens]
  ELSE LET next == ParseValue(Tail(Tail(tokens))) IN
       IF next.value = Null THEN NoParse
       ELSE ParseNodes(next.rest, With(read, Head(tokens).string, next.value))

\* parseStoreString, parseStoreFile
Whole(root) == IF root.rest = <<>> THEN root.value ELSE Null
ParseStore(text) == Whole(ParseNodes(LexStore(text), EmptyArray.array))

-----------------------------------------------------------------------------
(* The writer *)

\* checkSimpleStoreStringCapability: a string that the lexer reads as itself.
IsSimple(s) == LexStore(s) = <<[string |-> s]>>

\* mutant: backslashes are not escaped
RECURSIVE EscapeQuotes(_)
EscapeQuotes(s) ==
  IF s = "" THEN ""
  ELSE (IF Char(s, 1) = "\"" THEN "\\" ELSE "") \o Char(s, 1) \o EscapeQuotes(SubSeq(s, 2, Len(s)))

\* escapeStoreString
RECURSIVE EscapeStoreString(_)
EscapeStoreString(s) ==
  IF s = "" THEN ""
  ELSE (IF Char(s, 1) \in {"\"", "\\"} THEN "\\" ELSE "") \o Char(s, 1)
         \o EscapeStoreString(SubSeq(s, 2, Len(s)))

WriteString(s) == IF IsSimple(s) THEN s ELSE "\"" \o EscapeStoreString(s) \o "\""

\* dumpStore, dumpStoreNode: indentation is left out.
RECURSIVE DumpStore(_), DumpNodes(_, _)
DumpStore(v) ==
  CASE Is(v, "string") -> WriteString(v.string)
    [] Is(v, "integer") -> ToString(v.integer)
    [] Is(v, "float") -> v.float
    [] Is(v, "list") ->
         "(" \o FoldLeft(LAMBDA t, i : t \o (IF i > 1 THEN ", " ELSE "") \o DumpStore(v.list[i]),
                         "", [i \in DOMAIN v.list |-> i]) \o ")"
    [] Is(v, "array") -> "{\n" \o DumpNodes(v.array, DOMAIN v.array) \o "\n}"

DumpNodes(array, keys) ==
  IF keys = {} THEN ""
  ELSE LET k == CHOOSE x \in keys : TRUE IN
       WriteString(k) \o " = " \o DumpStore(array[k])
         \o (IF keys = {k} THEN "" ELSE "\n") \o DumpNodes(array, keys \ {k})

\* writeStoreString, writeStoreFile: the root's braces are left out.
WriteStore(store) == DumpNodes(store.array, DOMAIN store.array)
=============================================================================
