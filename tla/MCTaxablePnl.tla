---------------------------- MODULE MCTaxablePnl ----------------------------
\* Two brokers and two years of two days: lots of one broker split by sells,
\* sells beyond what is held, ties within a day, a gain after a loss and before
\* one, with and without exemption, and a dividend in the year of a loss.
EXTENDS TaxablePnl

Op(kind, entity, at, qty, total, exempt) ==
  [kind |-> kind, entity |-> entity, at |-> at, qty |-> qty, total |-> total, exempt |-> exempt]

MCEntries ==
  { Op("buy", 1, 0, 2, 4, FALSE), Op("buy", 1, 1, 1, 5, FALSE), Op("buy", 2, 1, 1, 1, FALSE),
    Op("sell", 1, 1, 1, 1, FALSE), Op("sell", 1, 2, 2, 12, TRUE), Op("sell", 1, 3, 1, 1, FALSE),
    Op("sell", 2, 2, 2, 6, FALSE), Op("dividend", 1, 3, 1, 4, TRUE),
    Op("buy", 1, 0, 3, NoTotal, FALSE), Op("sell", 2, 2, -1, 3, FALSE) }

MCRuleAt == [t \in Times |-> CASE t = 1 -> "japan" [] t = 3 -> "latest" [] OTHER -> NoRule]

MCRate == [t \in Times |-> 1 + (t % 2)]

MCExemption == [rate |-> 50, limit |-> 3, fixed |-> 1]

Both == {"sell", "dividend"}

MCBases ==
  { [since |-> 0, categories |-> {"sell"}, progressive |-> FALSE, bands |-> {}, flat |-> 2],
    [since |-> 1, categories |-> Both, progressive |-> TRUE, flat |-> 0,
     bands |-> {[from |-> 0, to |-> 4, rate |-> 1], [from |-> 4, to |-> NoLimit, rate |-> 3]}] }
=============================================================================
