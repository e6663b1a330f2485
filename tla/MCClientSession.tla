-------------------------- MODULE MCClientSession --------------------------
(* Instances of ClientSession: a few requests that meet each other in two   *)
(* sessions and two networks of a service that holds a1 in both.           *)
EXTENDS ClientSession

CONSTANTS s1, s2, n1, n2, g1, g2, a1, a2

Req(op, s, n, a, over, bg, b) ==
    [op |-> op, sess |-> s, net |-> n, snap |-> a, over |-> over, bg |-> bg,
     base |-> b]

FreshNetworks == <<g1, g2>>

HeldSnapshots == {n1, n2} \X {a1}

MixedRequests ==
    {Req("ask", s1, n1, a1, FALSE, FALSE, None),
     Req("ask", s1, None, None, FALSE, FALSE, None),
     Req("ask", s1, n2, a1, FALSE, FALSE, None),
     Req("set_network", s1, None, None, FALSE, FALSE, None),
     Req("init_snapshot", s1, None, a2, TRUE, FALSE, None),
     Req("init_snapshot", s2, n1, a1, FALSE, TRUE, None),
     Req("fork_snapshot", s2, n1, a2, TRUE, FALSE, a1),
     Req("delete_snapshot", s2, n1, a1, FALSE, FALSE, None),
     Req("delete_network", s2, n1, None, FALSE, FALSE, None),
     Req("generate_dataplane", s1, n1, a1, FALSE, FALSE, None),
     Req("list_snapshots", s2, n1, None, FALSE, FALSE, None)}

SharedRequests ==
    {Req("ask", s1, n1, a1, FALSE, FALSE, None),
     Req("ask", s1, n2, a1, FALSE, FALSE, None)}
=============================================================================
