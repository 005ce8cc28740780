----------------------------- MODULE MCShipper -----------------------------
(***************************************************************************)
(* The writer goroutine of the proxy and the bot append to the file the    *)
(* shipper ships.                                                          *)
(***************************************************************************)
EXTENDS Shipper

CONSTANTS w1, b1, proxy, bot

MCProcOf == [w \in Writers |-> IF w = b1 THEN bot ELSE proxy]

MCMaxCalls == [w \in Writers |-> IF w = b1 THEN 1 ELSE 2]

=============================================================================
