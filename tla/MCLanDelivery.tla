--------------------------- MODULE MCLanDelivery ----------------------------
\* Two neighbours hash to one entry; a third one makes the cache full.
EXTENDS LanDelivery
CONSTANTS hostA, hostB, hostC, macA, macB, macC

MCMacOf == hostA :> macA @@ hostB :> macB @@ hostC :> macC
MCPolicyHosts == <<hostB, hostA>>
MCHash == hostA :> 0 @@ hostB :> 0 @@ hostC :> 1
=============================================================================
