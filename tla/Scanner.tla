------------------------------- MODULE Scanner -------------------------------
(* The scanner of ail/ail.l, as far as it is more than a table of words: the *)
(* buffer flex makes of a program, input() and unput(), and what the actions *)
(* for comments and string literals do with them.  Characters are "*", "/",  *)
(* backslash and so on; a C string holds no NUL, which is flex's mark for    *)
(* the end of a buffer.                                                      *)
EXTENDS Integers, Sequences

EOB == "EOB"   \* YY_END_OF_BUFFER_CHAR
EOF == "EOF"   \* what input() returns at the end, and its char

\* ail_setup_buffer, which copies the program and puts two marks behind it.
\* pos is yy_c_buf_p and token yytext_ptr, counted from the buffer's start.
SetupBuffer(text) ==
    [chars |-> text \o <<EOB, EOB>>, size |-> Len(text), n |-> Len(text),
     pos |-> 0, token |-> 0, fill |-> FALSE]

\* yyrestart of the buffer: from now on flex would read from a file.
Restarted(b) ==
    [b EXCEPT !.chars[1] = EOB, !.chars[2] = EOB, !.n = 0, !.pos = 0, !.token = 0, !.fill = TRUE]

\* input() can give a character, or the end for the first time.  Later it
\* would read from yyin, which is NULL.
CanInput(b) == b.chars[b.pos + 1] # EOB \/ b.pos < b.n \/ ~b.fill

InputChar(b) == IF b.chars[b.pos + 1] = EOB /\ b.pos >= b.n THEN EOF ELSE b.chars[b.pos + 1]

AfterInput(b) ==
    IF InputChar(b) = EOF /\ b.pos >= b.n /\ b.chars[b.pos + 1] = EOB
    THEN Restarted(b)
    ELSE [b EXCEPT !.pos = @ + 1]

\* unput(): if there is no room before pos, what is left moves to the end.
Unput(b, c) ==
    LET shift == b.size - b.n
        moved == [b EXCEPT !.chars = [i \in DOMAIN b.chars |->
                                        IF i > shift THEN b.chars[i - shift] ELSE b.chars[i]],
                           !.n = b.size,
                           !.pos = @ + shift]
        r == IF b.pos < 2 THEN moved ELSE b
    IN  [r EXCEPT !.chars[r.pos] = c, !.pos = @ - 1]

\* The escapes ail_parse_string knows; another one stays as it is.
Escape(c) ==
    CASE c \in {"n", "r", "t", "b"} -> <<"escape " \o c>>
      [] c \in {"\\", "\"", "'"} -> <<c>>
      [] OTHER -> <<"\\", c>>

\* ail_parse_string: a literal without its quotes.
ParseString(str) ==
    LET from[i \in 2..(Len(str) + 1)] ==
            CASE i >= Len(str) -> <<>>
              [] i < Len(str) /\ str[i] = "\\" -> Escape(str[i + 1]) \o from[i + 2]
              [] i < Len(str) /\ str[i] # "\\" -> <<str[i]>> \o from[i + 1]
    IN  from[2]

\* The literals the scanner's pattern matches.
IsLiteral(str) ==
    LET closed[i \in 2..(Len(str) + 1)] ==
            CASE i > Len(str) -> FALSE
              [] i <= Len(str) /\ str[i] = "\"" -> i = Len(str)
              [] i < Len(str) /\ str[i] = "\\" -> closed[i + 2]
              [] OTHER -> IF i = Len(str) THEN FALSE ELSE closed[i + 1]
    IN  Len(str) >= 2 /\ str[1] = "\"" /\ closed[2]
=============================================================================
