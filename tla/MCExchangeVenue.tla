-------------------------- MODULE MCExchangeVenue --------------------------
EXTENDS ExchangeVenue

(* A coin of four units; OKX and KuCoin trade contracts of two units, and  *)
(* Binance steps of two; what the adapters make up is one unit.            *)
Specs ==
    [hyperliquid |-> [step |-> 1, contract |-> 1],
     okx         |-> [step |-> 1, contract |-> 2],
     binance     |-> [step |-> 2, contract |-> 1],
     kucoin      |-> [step |-> 1, contract |-> 2]]

Guesses ==
    [hyperliquid |-> [step |-> 1, contract |-> 1],
     okx         |-> [step |-> 4, contract |-> 1],
     binance     |-> [step |-> 1, contract |-> 1],
     kucoin      |-> [step |-> 1, contract |-> 1]]
=============================================================================
