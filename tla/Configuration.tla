---------------------------- MODULE Configuration ----------------------------
(***************************************************************************)
(* The configuration repository (configuration_repository.cpp, Option in   *)
(* models.hpp): main fills it from a document before it makes the engine,  *)
(* which asks it for the option and the codes of each estimation.          *)
(*                                                                         *)
(* A document is what the JSON parser gives.  Its settings are well formed *)
(* if all three are there and are numbers; an entry is valid if its five   *)
(* keys are there and convert; a list that is missing counts as one that   *)
(* has an invalid entry.  An option is the number of its entry: the two    *)
(* maps share their options.                                               *)
(***************************************************************************)
EXTENDS Valuation, Integers, Sequences

CONSTANTS Symbols,   \* the symbols of options and spots
          Documents, \* the documents main may be given
          NoSymbol

Entries == [valid : BOOLEAN, symbol : Symbols, spot_symbol : Symbols,
            type : {"call", "put", "other"}]

ASSUME ConfigurationAssumption ==
  /\ NoSymbol \notin Symbols
  /\ \A d \in Documents :
       /\ {d.wellFormed, d.codesValid} \subseteq BOOLEAN
       /\ d.size \in Int /\ d.rate \in Rates
       /\ d.options \in Seq(Entries) /\ d.codes \subseteq Symbols

VARIABLES
  doc,           \* the document
  process,       \* "settings", "options", "codes", "running", "aborted" or "terminated"
  buffer_size_,  \* buffer_size_for_estimation_
  types,         \* the type of each option made so far, as it is in memory
  options_, spot_options_, \* the options by their symbol and by their spot's
  symbol_codes_, \* the symbols with a code
  asked          \* the symbol of the tick being priced, or NoSymbol

repository == <<buffer_size_, types, options_, spot_options_, symbol_codes_>>
confVars == <<doc, process, repository, asked, valuationVars>>

ConfTypeOK ==
  /\ ValuationTypeOK
  /\ doc \in Documents
  /\ process \in {"settings", "options", "codes", "running", "aborted", "terminated"}
  /\ buffer_size_ \in Nat /\ buffer_size_ < 65536
  /\ types \in Seq(Types) /\ Len(types) <= Len(doc.options)
  /\ \A map \in {options_, spot_options_} :
       DOMAIN map \subseteq Symbols /\ map \in [DOMAIN map -> 1..Len(types)]
  /\ symbol_codes_ \subseteq Symbols
  /\ asked \in DOMAIN options_ \cup {NoSymbol}

ConfInit ==
  /\ ValuationInit
  /\ doc \in Documents
  /\ process = "settings"
  /\ buffer_size_ = 10
  /\ types = <<>> /\ options_ = <<>> /\ spot_options_ = <<>> /\ symbol_codes_ = {}
  /\ asked = NoSymbol

-----------------------------------------------------------------------------
(* from_json.  A missing setting fails an assertion of the parser, a value *)
(* of another kind throws, and nothing in main catches: both abort.        *)

\* Mutant: the size keeps all its bits.
ReadSettingsWide ==
  /\ process = "settings"
  /\ doc.wellFormed
  /\ process' = "options"
  /\ buffer_size_' = doc.size
  /\ UNCHANGED <<doc, types, options_, spot_options_, symbol_codes_, asked, valuationVars>>

ReadSettings ==
  /\ process = "settings"
  /\ \/ /\ doc.wellFormed
        /\ process' = "options"
        /\ buffer_size_' = doc.size % 65536  \* uint16_t
     \/ /\ ~doc.wellFormed
        /\ process' = "aborted"
        /\ UNCHANGED buffer_size_
  /\ UNCHANGED <<doc, types, options_, spot_options_, symbol_codes_, asked, valuationVars>>

\* Option::from_json leaves the type as it was in memory if it does not know it.
TypesOf(entry) == IF entry.type = "other" THEN Types ELSE {entry.type}

\* Mutant: the last entry of a key wins.
insertOrAssign(map, key, o) ==
  [y \in DOMAIN map \cup {key} |-> IF y = key THEN o ELSE map[y]]

\* unordered_map::insert: the first entry of a key stays.
insert(map, key, o) ==
  [y \in DOMAIN map \cup {key} |-> IF y \in DOMAIN map THEN map[y] ELSE o]

ReadOption ==
  LET o == Len(types) + 1
      entry == doc.options[o] IN
  /\ process = "options" /\ o <= Len(doc.options)
  /\ \/ /\ entry.valid
        /\ \E type \in TypesOf(entry) : types' = Append(types, type)
        /\ options_' = insert(options_, entry.symbol, o)
        /\ spot_options_' = insert(spot_options_, entry.spot_symbol, o)
        /\ UNCHANGED process
     \/ /\ ~entry.valid
        /\ process' = "aborted"
        /\ UNCHANGED <<types, options_, spot_options_>>
  /\ UNCHANGED <<doc, buffer_size_, symbol_codes_, asked, valuationVars>>

OptionsRead ==
  /\ process = "options" /\ Len(types) = Len(doc.options)
  /\ process' = "codes"
  /\ UNCHANGED <<doc, repository, asked, valuationVars>>

\* Mutant: only the codes of options are kept.
ReadCodesOfOptions ==
  /\ process = "codes"
  /\ process' = "running"
  /\ symbol_codes_' = doc.codes \cap DOMAIN options_
  /\ UNCHANGED <<doc, buffer_size_, types, options_, spot_options_, asked, valuationVars>>

ReadCodes ==
  /\ process = "codes"
  /\ \/ /\ doc.codesValid
        /\ process' = "running"
        /\ symbol_codes_' = doc.codes
     \/ /\ ~doc.codesValid
        /\ process' = "aborted"
        /\ UNCHANGED symbol_codes_
  /\ UNCHANGED <<doc, buffer_size_, types, options_, spot_options_, asked, valuationVars>>

-----------------------------------------------------------------------------
(* The engine's use of it, for a tick of an option when parameters and     *)
(* spot price are known.  A symbol that get_option does not find is left.  *)

OptionTick(y) ==
  /\ process = "running" /\ asked = NoSymbol
  /\ y \in DOMAIN options_
  /\ Estimate(types[options_[y]])
  /\ question'.rate = doc.rate
  /\ asked' = y
  /\ UNCHANGED <<doc, process, repository>>

EstimateStep ==
  /\ asked # NoSymbol
  /\ ValuationStep
  /\ UNCHANGED <<doc, process, repository, asked>>

spot_symbol(y) == doc.options[options_[y]].spot_symbol

\* sendEstimation throws a pointer to an exception for a missing code, which
\* leaves the receiver thread.
sendEstimation ==
  /\ process = "running" /\ asked # NoSymbol /\ pc = "done"
  /\ \/ /\ {asked, spot_symbol(asked)} \subseteq symbol_codes_
        /\ asked' = NoSymbol
        /\ UNCHANGED process
     \/ /\ ~({asked, spot_symbol(asked)} \subseteq symbol_codes_)
        /\ process' = "terminated"
        /\ UNCHANGED asked
  /\ UNCHANGED <<doc, repository, valuationVars>>

from_json == ReadSettings \/ ReadOption \/ OptionsRead \/ ReadCodes
ConfNext ==
  from_json \/ (\E y \in Symbols : OptionTick(y)) \/ EstimateStep \/ sendEstimation

ConfSpec == ConfInit /\ [][ConfNext]_confVars

-----------------------------------------------------------------------------
\* What the entries are kept under.
SymbolOf == [o \in 1..Len(doc.options) |-> doc.options[o].symbol]
SpotOf == [o \in 1..Len(doc.options) |-> doc.options[o].spot_symbol]

\* The entries that come first among those of one key, and their index.
FirstOf(key) == {o \in DOMAIN key : \A i \in 1..(o - 1) : key[i] # key[o]}
IndexOf(key) ==
  [y \in {key[o] : o \in FirstOf(key)} |-> CHOOSE o \in FirstOf(key) : key[o] = y]

(* LoadedAsWritten: an engine exists only if the whole document was read;  *)
(* the repository then has for each symbol and each spot the first entry   *)
(* that names it, entries that share one but not the other included, with  *)
(* the type it gives, and a window of the size written, if 16 bits hold it *)
(* (configuration_repository.cpp:24-42).                                   *)
LoadedAsWritten ==
  process \in {"running", "terminated"} =>
    /\ doc.wellFormed /\ doc.codesValid /\ symbol_codes_ = doc.codes
    /\ 0 < doc.size /\ doc.size < 65536 => buffer_size_ = doc.size
    /\ \A o \in 1..Len(doc.options) :
         doc.options[o].valid /\ types[o] \in TypesOf(doc.options[o])
    /\ options_ = IndexOf(SymbolOf) /\ spot_options_ = IndexOf(SpotOf)

(* EndsForAReason: the process ends while loading only for a malformed     *)
(* document, and while pricing only for an option that has no code or      *)
(* whose spot has none: with a document that has all codes the pointer     *)
(* thrown in sendEstimation is never thrown (pricing_engine.cpp:171-175).  *)
EndsForAReason ==
  /\ process = "aborted" =>
       ~doc.wellFormed \/ ~doc.codesValid \/ \E o \in 1..Len(doc.options) : ~doc.options[o].valid
  /\ process = "terminated" =>
       \E o \in FirstOf(SymbolOf) :
         SymbolOf[o] = asked /\ ~({asked, SpotOf[o]} \subseteq doc.codes)

(* DeclaredPutIsNumber: an option whose first entry says put, on a spot    *)
(* with a price, is sent a number until it has expired, unless the rate is *)
(* negative: entries of the same symbol after it, of other types or of a   *)
(* type left unset, do not change what is estimated.                       *)
DeclaredPutIsNumber ==
  pc = "done" /\ option.spot = "num" /\ question.T # "past" /\ doc.rate = "nonneg" =>
    \A o \in FirstOf(SymbolOf) :
      SymbolOf[o] = asked /\ doc.options[o].type = "put" => sum \in {"zero", "num"}
=============================================================================
