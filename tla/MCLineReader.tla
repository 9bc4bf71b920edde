---------------------------- MODULE MCLineReader ----------------------------
(***************************************************************************)
(* A buffer for eight characters and the terminator.  Files of up to three *)
(* lines whose lengths lie around one, two and three chunks, with and      *)
(* without the last newline; and every short line over three alphabets.    *)
(* WrittenFiles are for LinesAreReadAsWritten.                             *)
(***************************************************************************)
EXTENDS LineReader

x == "x"
o == "o"
one == "1"
space == " "
quote == "\""
return == "\r"

Alphabet == {o, x, one, space, ":", COMMA, COMMENT_CHAR}

OperandAlphabet == {x, space, return, COMMA, quote}

Characters == Alphabet \cup OperandAlphabet \cup {NEWLINE}

(* n letters and a newline. *)
LineOf(n) == [i \in 1 .. n + 1 |-> IF i <= n THEN x ELSE NEWLINE]

Lengths == {0, 6, 7, 8, 14, 15, 16, 23}

LongLines == {FlattenSeq([i \in DOMAIN lengths |-> LineOf(lengths[i])]) :
                lengths \in BoundedSeq(Lengths, 3)}

SourceFiles ==
  LongLines \cup {Front(f) : f \in LongLines \ {<<>>}}
  \cup BoundedSeq(Alphabet, 4)
  \cup {<<o>> \o s : s \in BoundedSeq(OperandAlphabet, 5)}
  \cup {<<x, ":", space, o>> \o s : s \in BoundedSeq(OperandAlphabet, 3)}

(* Every file of these four pieces: a line of MAX_LINE_LENGTH characters, a  *)
(* longer one whose last chunk fills the buffer and a short one behind it, a *)
(* line with a comma in a string, and a line without one.                    *)
WrittenFiles ==
  {FlattenSeq(pieces) : pieces \in
     SetToSeqs({LineOf(8), LineOf(15) \o <<o, NEWLINE>>,
                <<o, space, quote, x, COMMA, x, quote, NEWLINE>>, <<o, space, x, NEWLINE>>})}

Letters == {x, o}
Digits == {one}
Spaces == {space, return, NEWLINE}
Separators == {space}
Commands == {<<o>>}
Reserved == {<<o>>}
=============================================================================
