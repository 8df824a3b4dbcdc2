---------------------------- MODULE MCReferences ----------------------------
(***************************************************************************)
(* One object of each kind, and a second VPC to choose from.               *)
(***************************************************************************)
EXTENDS References, TLC

MCKindOf ==
    [o \in Objects |->
        CASE o = "project"          -> "project"
          [] o \in {"net1", "net2"} -> "vpc"
          [] o = "subnet"           -> "subnet"
          [] o = "group"            -> "securityGroup"
          [] o = "rule"             -> "securityRule"
          [] o = "disk"             -> "blockStorage"
          [] o = "address"          -> "elasticIp"
          [] o = "key"              -> "keyPair"
          [] o = "server"           -> "cloudServer"]

InProject(more) == [project |-> {"project"}] @@ more
InNet(net) == InProject([vpc |-> {net}])

MCServer ==
    InNet("net1") @@ [securityGroups |-> {"group"}, subnets |-> {"subnet"},
                      bootVolume |-> {"disk"}, keyPair |-> {"key"}, elasticIp |-> {"address"}]

MCRule(net) == InNet(net) @@ [securityGroup |-> {"group"}]

MCFirstRefs ==
    [o \in Objects |->
        CASE o = "project" -> << >>
          [] o \in {"net1", "net2", "disk", "address", "key"} -> InProject(<< >>)
          [] o \in {"subnet", "group"} -> InNet("net1")
          [] o = "rule"   -> MCRule("net1")
          [] o = "server" -> MCServer]

\* A rule is still to be created, or a server is.
MCBegins == {Objects \ {"rule"}, Objects \ {"server"}}

\* A security group and its rule may be moved to the other VPC.
MCChoices ==
    [o \in Objects |->
        CASE o = "group" -> {InNet("net1"), InNet("net2")}
          [] o = "rule"  -> {MCRule("net1"), MCRule("net2")}
          [] OTHER -> {MCFirstRefs[o]}]
=============================================================================
