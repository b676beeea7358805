--------------------------- MODULE MCMarketCycle ---------------------------
(***************************************************************************)
(* Instances of MarketCycle for TLC.                                       *)
(***************************************************************************)
EXTENDS MarketCycle

\* Three levels of each rate, among them a real rate that is high, low and in
\* between; a month before the policy rate is known; a month without inflation.
MCRates ==
  {<<1, 0>>, <<1, 1>>, <<1, 2>>, <<2, 0>>, <<2, 2>>, <<3, 2>>,
   <<NoLevel, 1>>, <<2, NoLevel>>}

\* Policy rates at no inflation.
MCHikes == {0, 1, 2, 3} \X {0}
=============================================================================
