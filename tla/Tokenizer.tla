----------------------------- MODULE Tokenizer -----------------------------
(***************************************************************************)
(* The tokenizer of Forth source (Tokenizer.ts): from the characters so    *)
(* far to the next token.  A tokenizer is a record:                        *)
(*   buffer   what the token so far stands for                             *)
(*   type     of the token: "bareword", "comment", "single" or "double"    *)
(*   quotes   the open quotes that await their close, innermost first      *)
(*   escape   whether a backslash was read                                 *)
(*   start    line and column where the token starts                       *)
(*   place    line and column of the next character                        *)
(* A character is a string that names it.  Those without a role stand for  *)
(* themselves; a word may stand for a run of them, as wide as one.         *)
(***************************************************************************)
EXTENDS Integers, Sequences, TLC

NewTokenizer ==
  [buffer |-> <<>>, type |-> "bareword", quotes |-> <<>>, escape |-> FALSE,
   start |-> <<1, 1>>, place |-> <<1, 1>>]

(* postChar *)
PlaceAfter(place, c) ==
  CASE c = "newline" -> <<place[1] + 1, 1>>
    [] c = "tab"     -> <<place[1], ((place[2] - 1) \div 8 + 1) * 8 + 1>>
    [] OTHER         -> <<place[1], place[2] + 1>>

White == {"space", "newline", "tab"}

(* quoteStyles, by the open quote; the close quote *)
QuoteType ==
  [c \in {"quote", "open", "apostrophe"} |-> IF c = "apostrophe" THEN "single" ELSE "double"]
Close(open) == IF open = "open" THEN "close" ELSE open

(* What a character stands for after a backslash; others are refused. *)
Unescaped ==
  [c \in {"n", "t", "backslash", "quote", "apostrophe"} |->
     CASE c = "n" -> "newline" [] c = "t" -> "tab" [] OTHER -> c]

Moved(t, c) == [t EXCEPT !.place = PlaceAfter(t.place, c)]
Put(t, c) == [t EXCEPT !.buffer = Append(@, c)]
Start(t, type) == [t EXCEPT !.type = type, !.start = t.place]

(* Mutant of IsToken: an empty text in quotes is no token. *)
IsNotEmpty(t) == t.buffer # <<>>

(* flushToken *)
IsToken(t) == t.buffer # <<>> \/ t.type # "bareword"
Token(t) == [text |-> t.buffer, type |-> t.type, start |-> t.start, end |-> t.place]
Flushed(t) == [t EXCEPT !.buffer = <<>>, !.type = "bareword"]

(* What reading a character does: to the tokenizer, the tokens it gives to *)
(* the listener, and whether it throws.                                    *)
Goes(t) == [tokenizer |-> t, tokens |-> <<>>, throws |-> FALSE]
Throws(t) == [Goes(t) EXCEPT !.throws = TRUE]
Gives(t, next) ==
  [Goes(next) EXCEPT !.tokens = IF IsToken(t) THEN <<Token(t)>> ELSE <<>>]

(* _char *)
ReadInComment(t, c) ==
  IF c = "newline" THEN Gives(t, Moved(Flushed(t), c)) ELSE Goes(Moved(Put(t, c), c))

ReadEscaped(t, c) ==
  IF c \in DOMAIN Unescaped
  THEN Goes([Moved(Put(t, Unescaped[c]), c) EXCEPT !.escape = FALSE])
  ELSE Throws(t)

ReadBare(t, c) ==
  CASE c \in White -> Gives(t, Moved(Flushed(t), c))
    [] c = "sharp" -> Gives(t, Moved(Start(Flushed(t), "comment"), c))
    [] c \in DOMAIN QuoteType /\ t.buffer # <<>> -> Throws(t)
    [] c \in DOMAIN QuoteType /\ t.buffer = <<>> ->
         Goes([Moved(Start(t, QuoteType[c]), c) EXCEPT !.quotes = <<c>>])
    [] OTHER -> Goes(Moved(Put(IF t.buffer = <<>> THEN Start(t, "bareword") ELSE t, c), c))

ReadQuoted(t, c) ==
  LET open == t.quotes[1]
      rest == [t EXCEPT !.quotes = Tail(@)]
  IN  CASE c = Close(open) /\ rest.quotes = <<>> -> Gives(Moved(rest, c), Flushed(Moved(rest, c)))
        [] c = Close(open) /\ rest.quotes # <<>> -> Goes(Moved(Put(rest, c), c))
        [] c = "backslash" /\ open # "open" -> Goes([Moved(t, c) EXCEPT !.escape = TRUE])
        [] c = open /\ c # Close(open) -> Goes(Moved(Put([t EXCEPT !.quotes = <<c>> \o @], c), c))
        [] OTHER -> Goes(Moved(Put(t, c), c))

Read(t, c) ==
  CASE t.type = "comment"                  -> ReadInComment(t, c)
    [] t.type # "comment" /\ t.escape      -> ReadEscaped(t, c)
    [] t.type # "comment" /\ ~ t.escape    ->
         IF t.quotes = <<>> THEN ReadBare(t, c) ELSE ReadQuoted(t, c)

(* end: the last token, and that of the end of the file *)
End(t) ==
  IF t.escape \/ t.quotes # <<>> THEN Throws(t)
  ELSE [Gives(t, Flushed(t)) EXCEPT
          !.tokens = Append(@, [Token(Flushed(t)) EXCEPT !.type = "end", !.start = t.place])]
=============================================================================
