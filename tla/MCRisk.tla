------------------------------- MODULE MCRisk -------------------------------
(***************************************************************************)
(* Risk with machine integers of one byte and one fractional digit.        *)
(***************************************************************************)
EXTENDS Risk, TLC

T(digits, frac) == [neg |-> FALSE, digits |-> digits, frac |-> frac]

\* 12 takes a sum beyond the integer, 13.0 does not parse.
MCQuantities == {T(5, 1), T(10, 1), T(12, 0), T(130, 1)}
MCPrices == {Empty, T(31, 1), T(200, 1)}

\* BTC has an entry of its own, ETH takes the defaults.
MCDefaults == [max_qty |-> Empty, max_notional |-> Empty, max_position |-> T(25, 1)]
MCInstruments ==
    [s \in {"BTC"} |-> [max_qty |-> T(1, 0), max_notional |-> T(3, 0), max_position |-> T(15, 1)]]

IdSymmetry == Permutations(Ids)

=============================================================================
