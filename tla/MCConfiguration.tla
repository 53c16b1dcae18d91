--------------------------- MODULE MCConfiguration ---------------------------
EXTENDS Configuration

(* Any two entries of two options and two spots, with every set of codes   *)
(* but one symbol's; and what can be wrong with a document otherwise.      *)
MCEntries ==
  [valid : {TRUE}, symbol : {"o1", "o2"}, spot_symbol : {"b1", "b2"},
   type : {"call", "put", "other"}]
MCOptions == {<<>>} \cup [1..1 -> MCEntries] \cup [1..2 -> MCEntries]
MCSound ==
  [wellFormed : {TRUE}, codesValid : {TRUE}, size : {100}, rate : Rates,
   options : MCOptions, codes : {Symbols, Symbols \ {"o2"}, Symbols \ {"b2"}}]
MCInvalid == [valid |-> FALSE, symbol |-> "o1", spot_symbol |-> "b1", type |-> "call"]
MCOther ==
  [wellFormed : BOOLEAN, codesValid : BOOLEAN, size : {-1, 0, 1, 65535, 65536},
   rate : {"nonneg"}, codes : {{}},
   options : {<<>>, <<MCInvalid>>, <<[MCInvalid EXCEPT !.valid = TRUE], MCInvalid>>}]
MCDocuments == MCSound \cup MCOther
=============================================================================
