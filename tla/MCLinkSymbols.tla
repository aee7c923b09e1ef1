--------------------------- MODULE MCLinkSymbols ---------------------------
(* An instance of LinkSymbols for TLC.  "x" may be an indirection to "y".  *)
(* The archives need each other, and an element of the first is not needed *)
(* when it is checked for its common symbol, but may be later.             *)
EXTENDS LinkSymbols

S(row, name, value) == [name |-> name, row |-> row, value |-> value, string |-> "y"]

MCNames == {"x", "y", "z"}
MCSymbols ==
  {S(row, "x", 0) : row \in Rows \ {"COMMON_ROW"}}
  \cup {S("DEF_ROW", "x", 1), S("COMMON_ROW", "x", 1), S("COMMON_ROW", "y", 1), S("UNDEFW_ROW", "y", 0)}
MCArchives ==
  << << <<S("COMMON_ROW", "y", 2), S("DEF_ROW", "z", 0)>>,
        <<S("DEF_ROW", "x", 0), S("UNDEF_ROW", "z", 0)>>,
        <<S("DEF_ROW", "y", 0), S("DEF_ROW", "x", 0)>> >>,
     << <<S("UNDEFW_ROW", "x", 0), S("DEF_ROW", "y", 0), S("UNDEF_ROW", "x", 0)>>,
        <<S("DEFW_ROW", "z", 0)>> >> >>

\* The map of the first archive also names an element that is no object file.
MCForeign == {<<1, 3>>}
=============================================================================
