---------------------------- MODULE MCRpcHandler ----------------------------
EXTENDS RpcHandler

Hex(k) == [t |-> "hex", n |-> k]

Block1 == [method |-> "getBlockByNumber", params |-> <<Hex(1)>>]
Receipt == [method |-> "byHash", params |-> <<>>]

Numbered == {Block1}
ByHash == {Receipt}
=============================================================================
