--------------------------- MODULE MCProvisioning ---------------------------
(***************************************************************************)
(* Two subjects with one email localpart. Alice opens the dashboard in two *)
(* tabs and is back for a third request; Bob's first sign-in races with    *)
(* both, and with Carol's, whose localpart is what Alice or Bob is offered *)
(* second.                                                                 *)
(***************************************************************************)
EXTENDS Provisioning, TLC

CONSTANTS alice1, alice2, alice3, bob1, carol1, alice, bob, carol

MCSubOf == alice1 :> alice @@ alice2 :> alice @@ alice3 :> alice
           @@ bob1 :> bob @@ carol1 :> carol
MCBaseOf == [r \in Requests |-> IF r = carol1 THEN "info-2" ELSE "info"]
MCHashOf == alice :> 1 @@ bob :> 2 @@ carol :> 1
MCCandidate ==
    [b \in {"info", "info-2"} |->
        [i \in 1..SlugLimit |->
            IF b = "info" THEN <<"info", "info-2", "info-3">>[i]
                          ELSE <<"info-2", "info-2-2", "info-2-3">>[i]]]
=============================================================================
