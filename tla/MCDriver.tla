------------------------------ MODULE MCDriver ------------------------------
(***************************************************************************)
(* Driver on two kinds of files.  All of up to four characters: empty      *)
(* lines, a last line without a newline, carriage returns that end no      *)
(* line, bare line feeds.  And all of three lines that end in CR LF, with  *)
(* base: in front and elsewhere.  The addresses wrap around at 4.          *)
(***************************************************************************)
EXTENDS Driver

MCChars == {"CR", "LF", "a", "b", "base:"}

ShortFiles == UNION {[1 .. n -> {"CR", "LF", "a", "b"}] : n \in 0 .. 4}

LineTexts == {<<"a">>, <<"b", "a">>, <<"b", "CR">>, <<"base:", "b">>, <<"a", "base:">>}

MCFiles == ShortFiles
           \union {p \o <<"CR", "LF">> \o q \o <<"CR", "LF">> \o r \o <<"CR", "LF">> :
                       p \in LineTexts, q \in LineTexts, r \in LineTexts}
=============================================================================
