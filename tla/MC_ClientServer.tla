--------------------------- MODULE MC_ClientServer ---------------------------
(* A small instance of ClientServer: a client that handles sampling, over    *)
(* stdio, as its users start it, and a server that has everything.           *)
EXTENDS ClientServer
CONSTANTS g1

TwoGoroutines == {g1, Reader}
CombinedConfig ==
  { [caps |-> Caps, providers |-> Providers, client |-> {"sampling"},
     stdio |-> TRUE, combined |-> TRUE] }
=============================================================================
