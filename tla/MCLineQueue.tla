---------------------------- MODULE MCLineQueue ----------------------------
(***************************************************************************)
(* Four nodes for up to four lines.  Sources of three lines that declare,  *)
(* mark and use two symbols in every order, and one of four lines without  *)
(* symbols.                                                                *)
(***************************************************************************)
EXTENDS SourceObjects

CONSTANTS n1, n2, n3, n4, A, B

FourNodes == {n1, n2, n3, n4}

Declaration(name, sec, external) ==
  [NoSymbol EXCEPT !.declares = name, !.section = sec, !.is_extern = external]

Reference(way, to) == [NoSymbol EXCEPT !.refers = way, !.name = to]

SymbolLines ==
  {Declaration(A, "Data", FALSE), Declaration(A, "Data", TRUE), Declaration(B, "Data", FALSE),
   [Declaration(B, "Code", FALSE) EXCEPT !.refers = "use", !.name = A],
   Reference("use", A), Reference("mark", A)}

SourceFiles == [1 .. 3 -> SymbolLines] \cup {[i \in 1 .. 4 |-> NoSymbol]}
=============================================================================
