-------------------------- MODULE MCActivityStream --------------------------
(* Two buys and a sell.  The feed may deliver each again and again: a fill  *)
(* of the same transaction and a repeated message look alike.  With         *)
(* MaxSeen = 2 the third id evicts one of the first two.                    *)
EXTENDS ActivityStream

MCPayloads == {[id |-> "tx1", side |-> "BUY"],
               [id |-> "tx2", side |-> "SELL"],
               [id |-> "tx3", side |-> "BUY"]}
=============================================================================
