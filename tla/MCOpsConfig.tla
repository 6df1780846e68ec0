---------------------------- MODULE MCOpsConfig -----------------------------
(* One key of each kind; texts that are right and texts with one fault.     *)
EXTENDS OpsConfig, TLC

SomeKeys == << [key |-> "IDLE_TIMEOUT", kind |-> "int"],
               [key |-> "KNOCK_ENABLED", kind |-> "bool"],
               [key |-> "KNOCK_TOKEN", kind |-> "token"] >>

Config(i, b, t) == ("IDLE_TIMEOUT" :> i) @@ ("KNOCK_ENABLED" :> b) @@ ("KNOCK_TOKEN" :> t)
NoSeeds == [k \in Keys |-> Unset]

SomeEnvs == {NoSeeds, Config("5", "", "a"), Config("5", "yes", Unset)}

Right == Render(Config("0", "false", "a"))
SomeEdits ==
  { Right, <<Right[2], Right[1], Right[3]>>, <<Right[1], Right[2], Right[3], Right[1]>>,
    <<Right[1], Right[2]>>, [Right EXCEPT ![1].canon = FALSE],
    [Right EXCEPT ![2].val = "yes"] }

SomePayloads ==
  { "IDLE_TIMEOUT" :> [t |-> "int", s |-> "5"],
    "KNOCK_ENABLED" :> [t |-> "bool", s |-> "false"],
    "KNOCK_TOKEN" :> Text("b"),
    "IDLE_TIMEOUT" :> [t |-> "bool", s |-> "true"] }
=============================================================================
