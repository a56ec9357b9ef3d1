------------------------------- MODULE MCFcc -------------------------------
EXTENDS Fcc, TLC

Server(ip, port) == [ip |-> ip, port |-> port]
Says(kind, ip, port) == [kind |-> kind, ip |-> ip, port |-> port]

A == Server("a", 1)
A2 == Server("a", 2)
B == Server("b", 1)
B2 == Server("b", 2)

Telecom(answer) == [type |-> "telecom", answer |-> answer]
Huawei(answer) == [type |-> "huawei", answer |-> answer]

TwoHops == A :> Says("redirect", Unset, 2) @@ A2 :> Says("redirect", "b", 1)

\* One server that grants (from its own or another address), declines or fails,
\* and chains of redirects by port and by address, within and over the limit.
MCScenarios ==
  {Telecom(A :> Says("unicast", Unset, Unset)),
   Huawei(A :> Says("unicast", "b", 2)),
   Telecom(A :> Says("mcast", "b", Unset)),
   Huawei(A :> Says("error", Unset, Unset)),
   Telecom(TwoHops @@ B :> Says("unicast", "b", 2)),
   Huawei(TwoHops @@ B :> Says("redirect", Unset, 2) @@ B2 :> Says("redirect", "a", 1))}

\* A server that grants, for the runs about one hand-over.
=============================================================================
