---------------------------- MODULE SheetPositions ----------------------------
(* How a place named in a message becomes a cell of a spreadsheet or a page of a
   PDF (src/src/flago/agent/assistant.py): Chinese numerals, column letters, and
   the range a request names.

   A numeral is [arabic |-> n, chinese |-> s]: n is its value when it is written
   in digits and -1 otherwise, and s the sequence of its characters, each given
   by its value: 0..9 for a digit, 10, 100, 1000 and 10000 for a unit.  A cell is
   [column |-> letters, row |-> n] with the letters as numbers from 0 ("A"). *)
EXTENDS Integers, Sequences, SequencesExt

NoCell == [column |-> <<>>, row |-> 0]
CellType == [column : Seq(Nat), row : Nat]
NumeralType == [arabic : Int, chinese : Seq(Nat)]

Arabic(n) == [arabic |-> n, chinese |-> <<>>]
Chinese(s) == [arabic |-> -1, chinese |-> s]

-------------------------------------------------------------------------------
(* What the code computes. *)

(* One character of a numeral: a digit waits for its unit, a unit closes the
   pending digit (1 when there is none), and 10000 closes the whole section. *)
ReadCharacter(acc, c) ==
    IF c < 10 THEN [acc EXCEPT !.number = c]
    ELSE IF c = 10000
    THEN [total |-> acc.total + (acc.section + acc.number) * c,
          section |-> 0, number |-> 0]
    ELSE [acc EXCEPT !.section = @ + c * (IF acc.number = 0 THEN 1 ELSE acc.number),
                     !.number = 0]

ParseChineseInteger(s) ==
    LET end == FoldLeft(ReadCharacter, [total |-> 0, section |-> 0, number |-> 0], s)
    IN  end.total + end.section + end.number

ParseSheetPositionNumber(numeral) ==
    IF numeral.arabic >= 0 THEN numeral.arabic ELSE ParseChineseInteger(numeral.chinese)

(* The letters of a column: a numeral of base 26 without a zero. *)
ColumnNumberToLetters[column \in Nat] ==
    IF column = 0 THEN <<>>
    ELSE Append(ColumnNumberToLetters[(column - 1) \div 26], (column - 1) % 26)

(* mutant of CellFromRowColumn: the column counted from zero *)
CellFromZero(row, column) ==
    IF row < 1 \/ column < 1 THEN NoCell
    ELSE [column |-> ColumnNumberToLetters[column - 1], row |-> row]

CellFromRowColumn(row, column) ==
    IF row < 1 \/ column < 1 THEN NoCell
    ELSE [column |-> ColumnNumberToLetters[column], row |-> row]

(* A place is [ref, rowcol, behind, means]: the cell that one of the patterns for
   references finds, the numerals that one of those for rows and columns finds,
   whether they stand behind the first link of the text, and what the user has in
   mind (see PlaceIsMeant).  A cell in other words is none for the code. *)
PlaceType ==
    [ref : CellType, rowcol : Seq(NumeralType), behind : BOOLEAN, means : Nat \X Nat]

(* The cell a text names: written as a reference, which is looked for first, or
   as a row and a column in either order.  Row 0 names no cell, and only the text
   in front of the first link is looked at. *)
SheetRangeFromText(place) ==
    IF place.behind THEN NoCell
    ELSE IF place.ref # NoCell THEN place.ref
    ELSE IF place.rowcol = <<>> THEN NoCell
    ELSE CellFromRowColumn(ParseSheetPositionNumber(place.rowcol[1]),
                           ParseSheetPositionNumber(place.rowcol[2]))

(* The number of pages or the page a text asks of a PDF; 0 when it names none.
   Only the ten digits and the unit 10 are looked for. *)
Digit(s, missing) == IF Len(s) = 1 /\ s[1] \in 1..9 THEN s[1] ELSE missing

(* mutant of ChinesePageNumber: a bare unit read as no number *)
PageBareUnitLost(numeral) ==
    LET s == numeral.chinese
    IN  IF numeral.arabic >= 0 THEN numeral.arabic
        ELSE IF Contains(s, 10)
        THEN LET i == SelectInSeq(s, LAMBDA c : c = 10)
             IN  10 * Digit(SubSeq(s, 1, i - 1), 0) + Digit(SubSeq(s, i + 1, Len(s)), 0)
        ELSE Digit(s, 0)

ChinesePageNumber(numeral) ==
    LET s == numeral.chinese
    IN  IF numeral.arabic >= 0 THEN numeral.arabic
        ELSE IF Contains(s, 10)
        THEN LET i == SelectInSeq(s, LAMBDA c : c = 10)
             IN  10 * Digit(SubSeq(s, 1, i - 1), 1) + Digit(SubSeq(s, i + 1, Len(s)), 0)
        ELSE Digit(s, 0)

NoPage == [kind |-> "none", page |-> 0]
PageType == [kind : STRING, page : Int]

(* "the first n pages" is looked for before "page n"; a number with other
   characters than these is not seen at all. *)
PageCharacters == 1..10
PdfPageHint(ask) ==
    IF \/ ask.kind = "none"
       \/ \E i \in DOMAIN ask.numeral.chinese : ask.numeral.chinese[i] \notin PageCharacters
       \/ ChinesePageNumber(ask.numeral) = 0
    THEN NoPage
    ELSE [kind |-> ask.kind, page |-> ChinesePageNumber(ask.numeral)]

-------------------------------------------------------------------------------
(* References the results are compared with. *)

(* The numeral a writer of Chinese uses for n, up to 9999 times 10000: a unit is
   preceded by its digit, except that a number from 10 to 19 begins with the bare
   unit, and what is left after a unit begins with a zero if a place is skipped. *)
Rest(n, unit, spelt) ==
    IF n = 0 THEN <<>> ELSE IF n < unit \div 10 THEN <<0>> \o spelt ELSE spelt

Tens(n) == IF n < 10 THEN <<n>> ELSE <<n \div 10, 10>> \o Rest(n % 10, 10, <<n % 10>>)
Hundreds(n) ==
    IF n < 100 THEN Tens(n) ELSE <<n \div 100, 100>> \o Rest(n % 100, 100, Tens(n % 100))
Thousands(n) ==
    IF n < 1000 THEN Hundreds(n)
    ELSE <<n \div 1000, 1000>> \o Rest(n % 1000, 1000, Hundreds(n % 1000))
Section(n) == IF n \in 10..19 THEN Tail(Tens(n)) ELSE Thousands(n)
Numeral(n) ==
    IF n < 10000 THEN Section(n)
    ELSE Section(n \div 10000) \o <<10000>> \o Rest(n % 10000, 10000, Thousands(n % 10000))

(* A numeral that is written for n. *)
Writes(numeral, n) ==
    /\ n \in Nat \ {0} /\ n < 100000000
    /\ numeral \in {Arabic(n), Chinese(Numeral(n))}

(* The number of a column from its letters. *)
ColumnOf(letters) == FoldLeft(LAMBDA v, d : 26 * v + d + 1, 0, letters)

(* means is what the user has in mind: a row and a column, a number of pages or a
   page; zeros where the words are no numeral as above, so that nobody can say.
   Where no pattern finds anything, or only behind a link, it may be any cell. *)
IsSeen(place) == ~place.behind /\ (place.ref # NoCell \/ place.rowcol # <<>>)

PlaceIsMeant(place) ==
    \/ ~IsSeen(place)
    \/ place.means = <<0, 0>>
    \/ /\ place.ref # NoCell
       /\ place.means = <<place.ref.row, ColumnOf(place.ref.column)>>
    \/ /\ place.ref = NoCell /\ Len(place.rowcol) = 2
       /\ Writes(place.rowcol[1], place.means[1])
       /\ Writes(place.rowcol[2], place.means[2])

PageIsMeant(ask) == ask.kind = "none" \/ ask.means = 0 \/ Writes(ask.numeral, ask.means)
===============================================================================
