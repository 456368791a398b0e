----------------------------- MODULE MCService -----------------------------
(* Two runs: one that starts the service, one of any command. The three    *)
(* maintenance commands take the same steps, so one stands for them.       *)
EXTENDS Service, TLC

CONSTANTS s1, s2

StartAndAny ==
    (s1 :> {"start"})
        @@ (s2 :> AllKinds \ {"export-eth1-data", "import-eth1-data"})

ConfigOnly == (s1 :> {"config"})
=============================================================================
