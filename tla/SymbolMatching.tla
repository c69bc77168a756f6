---------------------------- MODULE SymbolMatching ----------------------------
(***************************************************************************)
(* services/instrument_catalog.py: how a symbol of one exchange is matched  *)
(* with the rows another exchange lists, and which limits a row states.     *)
(* A symbol is the sequence of its parts: prefix, base, separator, quote,   *)
(* suffix; a base may itself begin with the letters of a prefix.            *)
(***************************************************************************)
EXTENDS Integers, Sequences, SequencesExt

Separators == {"-", "_", "/"}
ContractPrefixes == {"PI", "PF", "FF", "FI", "IN"}
ContractSuffixes == {"SWAP", "PERP", "PERPETUAL", "FUTURES", "FUTURE"}
Quotes == {"USDT", "USDC", "USD", "EUR", "BTC", "ETH"}
Alias(part) == IF part = "XBT" THEN "BTC" ELSE part

\* What a row may state of a limit: a positive number; nothing or the number 0,
\* which are falsy; or what is truthy and no use: "0", a negative, no number.
Absent == 0
Unusable == -1

Normalized(symbol) ==
    LET letters == SelectSeq(symbol, LAMBDA part : part \notin Separators)
    IN  [n \in 1 .. Len(letters) |-> Alias(letters[n])]

DropPrefix(symbol) ==
    IF symbol # <<>> /\ Head(symbol) \in ContractPrefixes THEN Tail(symbol) ELSE symbol
DropSuffix(symbol) ==
    IF symbol # <<>> /\ Last(symbol) \in ContractSuffixes THEN Front(symbol) ELSE symbol

\* Mutant of CanonicalOf: the contract's prefix and suffix are left on.
CanonicalUnstripped(symbol) == Normalized(symbol)

\* The key of a symbol without its row: base and quote, if they can be told.
CanonicalOf(symbol) ==
    LET pair == DropSuffix(DropPrefix(Normalized(symbol)))
    IN  IF Len(pair) > 1 /\ Last(pair) \in Quotes THEN pair ELSE Normalized(symbol)

\* _alias: a field is taken as it is, or for another name.
Aliased(field) == IF Len(field) = 1 THEN <<Alias(field[1])>> ELSE field

\* The key of a listed row, which may state base and quote in fields of its own.
PairKey(row) == Aliased(row.base) \o Aliased(row.quote)
Canonical(row) == IF row.typed THEN PairKey(row) ELSE CanonicalOf(row.symbol)

\* row.get(a) or row.get(b) or ...
FirstTruthy(raws) ==
    LET truthy == {n \in DOMAIN raws : raws[n] # Absent}
    IN  IF truthy = {} THEN Absent ELSE raws[Min(truthy)]

\* _decimal_value: what cannot be used becomes the default.
DecimalValue(raw, default) == IF raw \in {Absent, Unusable} THEN default ELSE raw

Constraints(row, defaults) ==
    [step |-> DecimalValue(FirstTruthy(row.steps), defaults.step),
     min |-> DecimalValue(FirstTruthy(row.mins), defaults.min)]

\* A row without a symbol gets no entry.
NamedRows(rows) == {n \in DOMAIN rows : rows[n].symbol # <<>>}
BuildEntries(rows, defaults) ==
    [n \in NamedRows(rows) |->
        [symbol |-> rows[n].symbol, canonical |-> Canonical(rows[n]),
         limits |-> Constraints(rows[n], defaults)]]

\* The spelling used when the symbol is not found.
FallbackSymbol(hyphenated, symbol) ==
    IF hyphenated # <<>> /\ "-" \notin ToSet(symbol)
          /\ symbol # <<>> /\ Last(symbol) = "USDT"
    THEN Front(symbol) \o hyphenated ELSE symbol

\* resolve_symbol: the first row with the key, then the first row spelled alike.
Resolve(entries, hyphenated, symbol, defaults) ==
    LET keyed == {n \in DOMAIN entries : entries[n].canonical = CanonicalOf(symbol)}
        alike == {n \in DOMAIN entries : Normalized(entries[n].symbol) = Normalized(symbol)}
        found == IF keyed # {} THEN keyed ELSE alike
        first == entries[Min(found)]
    IN  IF found # {}
        THEN [listed |-> TRUE, symbol |-> first.symbol, limits |-> first.limits]
        ELSE [listed |-> FALSE, symbol |-> FallbackSymbol(hyphenated, symbol),
              limits |-> defaults]
=============================================================================
