----------------------------- MODULE MCGateway ------------------------------
EXTENDS Gateway

Block1 == [method |-> "getBlockByNumber", params |-> <<[t |-> "hex", n |-> 1]>>]

Trace == [method |-> "other", params |-> << >>]

Asked == {Block1, Trace}

\* What no guard and no property of this module reads is left out of the state.
View == <<chain, now, cache, neg, flight, call,
          healthy, height, probe, pc, best, mark, real, via, calm>>
=============================================================================
