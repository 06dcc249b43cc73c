--------------------------- MODULE MCTrailingBot ---------------------------
(***************************************************************************)
(* Instance of TrailingBot: ETH and BTC as update_markets writes them, and *)
(* asks that make every branch of the callback happen.                     *)
(***************************************************************************)
EXTENDS TrailingBot

MCOrder == <<"eth", "btc">>
MCTraded == <<"btc">>
\* 40 then 43 is a dip on either side; 53 is over the ceiling of the first two
\* minutes only; 67 is the stop loss after a first buy at 43.
MCAsks == {[up |-> 50, down |-> 53], [up |-> 40, down |-> 67],
           [up |-> 67, down |-> 40], [up |-> 43, down |-> 43]}
=============================================================================
