----------------------------- MODULE MCGateway -----------------------------
(* Three listeners in a row, each of which may be a QQ client; two        *)
(* sessions with a message, an event of another type and a message each.  *)
EXTENDS Gateway
CONSTANTS t1, t2
MCMayBe == [r \in 1..MaxRuns |->
              {"qq"} \cup CASE r = 1 -> {"webhook"} [] r = 2 -> {"wecom"}
                            [] OTHER -> {"openclaw"}]
============================================================================
