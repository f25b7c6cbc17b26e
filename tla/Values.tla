-------------------------------- MODULE Values --------------------------------
(***************************************************************************)
(* The field values of tuples.  A value is a string; what the operators    *)
(* tell apart is its place in the order of strings and what strtod, stod   *)
(* and stoi make of it.  "25abc" is not numeric for SortOperator (strtod   *)
(* must use all of it), is 25 for build_plan (stod) and for the optimizer  *)
(* (stoi).  "1e999" is numeric for SortOperator, and stod throws: it has   *)
(* no double.  "nan" is left out.  A tuple is a sequence of values.        *)
(***************************************************************************)
EXTENDS Integers, SequencesExt

CONSTANT NotANumber     \* no conversion: the call throws, or is_numeric is false

Number == Int \cup {NotANumber}
Value == [text : Nat, num : Number, stod : Number, stoi : Number]

\* A word that is no number, the numeral of an integer, and a numeral with a word after it.
Word(text) == [text |-> text, num |-> NotANumber, stod |-> NotANumber, stoi |-> NotANumber]
Numeral(text, n) == [text |-> text, num |-> n, stod |-> n, stoi |-> n]
NumeralAndWord(text, n) == [text |-> text, num |-> NotANumber, stod |-> n, stoi |-> n]

\* A numeral beyond the range of double; stoi reads the digits before its exponent.
HugeNumeral(text, n, digits) ==
    [text |-> text, num |-> n, stod |-> NotANumber, stoi |-> digits]

\* SortOperator::lessThan on the values of the sort column, where it returns
LessThan(a, b) ==
    IF a.num # NotANumber /\ b.num # NotANumber THEN a.num < b.num ELSE a.text < b.text

\* Where it does not: both are numeric, and stod throws out_of_range for one.
Raises(a, b) ==
    a.num # NotANumber /\ b.num # NotANumber /\ NotANumber \in {a.stod, b.stod}

\* The comparison of two of the tuples s, and that of some two, by column.
RaisesAt(s, column, i, j) ==
    /\ i # j /\ {i, j} \subseteq DOMAIN s
    /\ column \in DOMAIN s[i] /\ column \in DOMAIN s[j]
    /\ Raises(s[i][column], s[j][column])
MayRaise(s, column) == \E i, j \in DOMAIN s : RaisesAt(s, column, i, j)

\* The four orderings, of numbers or of places in the order of strings.
Compare(op, x, y) ==
    \/ op = "<" /\ x < y
    \/ op = ">" /\ x > y
    \/ op = "<=" /\ x <= y
    \/ op = ">=" /\ x >= y

\* The predicate of build_plan: a is the tuple's value, b the one of the WHERE clause.
Holds(op, a, b) ==
    CASE op \in {"=", "=="} -> a.text = b.text
      [] op = "!=" -> a.text # b.text
      [] OTHER -> IF a.stod # NotANumber /\ b.stod # NotANumber
                  THEN Compare(op, a.stod, b.stod)
                  ELSE Compare(op, a.text, b.text)

\* s in order: i comes before j if it is less, or neither is and it stood before.
Before(s, Less(_, _), i, j) == Less(s[i], s[j]) \/ (i < j /\ ~Less(s[j], s[i]))
StablySorted(s, Less(_, _)) ==
    LET Position(i) == Cardinality({j \in DOMAIN s : j # i /\ Before(s, Less, j, i)}) + 1
    IN [k \in DOMAIN s |-> s[CHOOSE i \in DOMAIN s : Position(i) = k]]
=============================================================================
