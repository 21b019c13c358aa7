---------------------------- MODULE MCReadText -----------------------------
(* Small instances of ReadText for TLC. *)
EXTENDS ReadText
LOCAL INSTANCE SequencesExt

\* Addresses of eight fields are longer than the texts that are built.  Each field
\* is empty or holds a word of its own; a house may begin with a year, a village may
\* have a second word, a mark behind a blank or inside its word, or blanks around it.
Plain(n) == [kind |-> "plain", word |-> 100 + n]
Mark(n) == [kind |-> "mark", word |-> 100 + n]
Digits(n) == [kind |-> "digits", word |-> 100 + n]

Houses == {<<Plain(1)>>, <<Digits(1)>>, <<Digits(1), Blank>>, <<Digits(1), Blank, Plain(11)>>}
OneWord(n) == {<< >>, <<Plain(n)>>}
Villages ==
    OneWord(4) \cup {<<Blank, Plain(4)>>, <<Plain(4), Blank, Plain(14)>>,
                    <<Plain(4), Mark(14)>>, <<Plain(4), Blank, Mark(14)>>}
Subdistricts == OneWord(6) \cup {<<Mark(6)>>, <<Plain(6), Blank>>}

Line(fields) == FoldLeft(LAMBDA s, f : s \o <<Sep>> \o f, Head(fields), Tail(fields))

MCTexts ==
    {Line(f) : f \in Houses \X OneWord(2) \X OneWord(3) \X Villages \X OneWord(5)
                        \X Subdistricts \X OneWord(7) \X OneWord(8)}
=============================================================================
