---------------------------- MODULE MCExternalSort ----------------------------
(***************************************************************************)
(* Up to ten tuples of a key and a number that tells tuples of one key     *)
(* apart; as strings "10" < "1a" < "9" < "9e999" < "b".                    *)
(***************************************************************************)
EXTENDS ExternalSort

Tagged(s) == [k \in DOMAIN s |-> <<s[k], Numeral(k, k)>>]
Columns(S, n) == {Tagged(s) : s \in SeqOf(S, n)}

Ten == Numeral(1, 10)
TenA == NumeralAndWord(2, 1)
Nine == Numeral(3, 9)
NineAgain == Numeral(4, 9)      \* "9.0"
B == Word(5)
Huge == HugeNumeral(4, 99, 9)

\* as many tuples as make one run more than there are streams
TooMany == Tagged(<<Ten, Nine, Ten, NineAgain, Nine, Ten, Nine, Nine, Ten, Nine>>)

\* A tuple with one field that may be empty, and the one without any: a line with nothing on
\* it but a carriage return.
Ragged == {<<B>>, <<Word(0)>>, <<>>}

MCInputs ==
    Columns({Ten, Nine, NineAgain}, 4) \cup Columns({Ten, B}, 5) \cup {TooMany}
        \cup {Tagged(s) : s \in [1 .. 7 -> {Nine, Ten}]}
        \cup Columns({Ten, TenA, Nine}, 4) \cup Columns({Huge, Ten, B}, 4)
        \cup SeqOf(Ragged, 4) \cup {<< <<>>, <<Ten>> >>}
=============================================================================
