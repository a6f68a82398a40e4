-------------------------- MODULE MCA2ADNSFetcher --------------------------
(* An instance of A2ADNSFetcher: an agent found by SVCB behind a record of *)
(* another protocol, with another in TXT; one found by TXT only, behind    *)
(* other records; a TXT record without url, although a good one follows,   *)
(* behind a failing SVCB server; and a domain without an agent.            *)
EXTENDS A2ADNSFetcher, TLC

SVCB(agent, target) == [a2a |-> agent, target |-> target]
TXT(ans, agent, host) ==
    [ans1 |-> ans, a2a |-> agent,
     url |-> [host |-> host, path |-> IF host = "y" THEN "card" ELSE ""]]
Answer(rcode, records) == [rcode |-> rcode, records |-> records]

MCZone ==
    "d1" :> [svcb |-> Answer("success", <<SVCB(FALSE, "w"), SVCB(TRUE, "."), SVCB(TRUE, "x")>>),
             txt |-> Answer("success", <<TXT(TRUE, TRUE, "z")>>)]
    @@ "d2" :> [svcb |-> Answer("success", <<SVCB(FALSE, "w")>>),
                txt |-> Answer("success", <<TXT(FALSE, TRUE, "v"), TXT(TRUE, FALSE, "w"),
                                            TXT(TRUE, TRUE, "y"), TXT(TRUE, TRUE, "z")>>)]
    @@ "d3" :> [svcb |-> Answer("failure", <<>>),
                txt |-> Answer("success", <<TXT(TRUE, TRUE, ""), TXT(TRUE, TRUE, "z")>>)]
    @@ "d4" :> [svcb |-> Answer("nxdomain", <<>>),
                txt |-> Answer("nxdomain", <<>>)]
=============================================================================
