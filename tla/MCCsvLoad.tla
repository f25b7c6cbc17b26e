------------------------------ MODULE MCCsvLoad ------------------------------
(* CsvLoad with the lines of a file, which a cfg cannot write: records of    *)
(* different lengths, one that fills a page, one that fits in none, one      *)
(* whose second field is no number, and a blank one with a carriage return.  *)
EXTENDS CsvLoad

Line(length, key) == [length |-> length, cr |-> FALSE, key |-> key]

Blank == [length |-> 0, cr |-> TRUE, key |-> NoField]

MCLines == {Line(2, 1), Line(3, 2), Line(8, 1), Line(9, 2), Line(2, Throws), Blank}
=============================================================================
