------------------------------ MODULE MCSyncSocket ------------------------------
(* Two sockets, three native handles, a few addresses of each family. *)
EXTENDS SyncSocket

\* 10.0.0.200 and fe80::c8: the last byte makes the 32-bit address negative
Ten == [i \in 0 .. 3 |-> IF i = 0 THEN 10 ELSE IF i = 3 THEN 200 ELSE 0]
LinkLocal == [i \in 0 .. 15 |-> IF i = 0 THEN 254 ELSE IF i = 1 THEN 128 ELSE IF i = 15 THEN 200 ELSE 0]

Text(host, brackets, shape, value) ==
  [host |-> host, brackets |-> brackets, port |-> [shape |-> shape, value |-> value]]

\* With a port, without one, with one too large for 16 bits or for an int, or no number
MCTexts ==
  {Text(Host("IPv4", Ten), FALSE, "number", p) : p \in {63000, 65536}}
  \cup {Text(Host("IPv4", Ten), FALSE, shape, 0) : shape \in {"none", "huge", "other"}}
  \cup {Text(Host("IPv6", LinkLocal), TRUE, "number", 49200),
        Text(Host("IPv6", LinkLocal), TRUE, "none", 0),
        Text(Host("name", <<>>), FALSE, "number", 80),
        Text(Host("dotted name", <<>>), FALSE, "number", 80)}

\* Port 49200 in memory, high byte first
MCEphemeral == 192 + 256 * 48
MCPeers == {[family |-> "IPv4", port |-> MCEphemeral, bytes |-> Ten],
            [family |-> "IPv6", port |-> MCEphemeral, bytes |-> LinkLocal]}

MCTimeouts == {-500, 0, 500, 1500}
================================================================================
