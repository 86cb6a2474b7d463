---------------------------- MODULE MCPolicyRules ----------------------------
(* One component; rules that differ in their values only, in their priority   *)
(* only, and in what the dialog no longer shows.                              *)
EXTENDS PolicyRules

Input(t, p, w, h, k, o, v) ==
    [component |-> "engine", type |-> t, priority |-> p, weight |-> w,
     topology |-> h, key |-> k, op |-> o, values |-> v]

\* A topology key and a weight were entered before the type was changed to node
\* affinity and the priority to required, values before the operator to Exists.
NodeRequired == Input("nodeAffinity", "required", 1, "host", "disk", "In", "ssd")
PodRequired == Input("podAntiAffinity", "required", 2, "host", "app", "Exists", "db")
NoValues == Input("nodeAffinity", "required", 1, "", "disk", "In", "")
OtherDisk == Input("nodeAffinity", "required", 1, "", "disk", "In", "hdd")

MCFormInputs == {NodeRequired, PodRequired, NoValues}
MCForeign == {OtherDisk}
\* A preference for a disk: adding NodeRequired to it throws.
MCFirstConfig ==
    [engine |-> [nodeAffinity |-> [preferred |->
        <<[weight |-> 1, topology |-> "", key |-> "disk", op |-> "In", values |-> "ssd"]>>]]]
=============================================================================
