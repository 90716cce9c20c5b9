----------------------------- MODULE MCController -----------------------------
EXTENDS Controller

Baseline == [baseline |-> "true"]
Unset == [form |-> "unset"]
Says(labels) == [form |-> "labels", labels |-> labels]
Every(amount, unit) == [form |-> "number", amount |-> amount, unit |-> unit]

Deployed(observed, credentials, selector) ==
  [instances |-> observed, credentials |-> credentials, insecure |-> "unset",
   platformURL |-> TRUE, interval |-> Unset, syncInterval |-> Unset,
   selector |-> selector]

Everything == [form |-> "null"]
Chart == Deployed("true", "true", Everything)

(* As the chart has it but with all Clusters selected; without credentials*)
(* and this cluster; without instances; an unusable combination; and with *)
(* a sync in every pass.                                                   *)
ToggledSettings ==
  {Chart,
   Deployed("true", "unset", Unset),
   Deployed("false", "blank", Everything),
   Deployed("false", "true", Unset),
   [Chart EXCEPT !.syncInterval = Every(0, "m")]}

LabelSettings ==
  {Deployed("false", "false", Says([stage |-> "prod"])),
   Deployed("false", "false", Says(Baseline)),
   Deployed("false", "false", Says([baseline |-> "true", stage |-> "prod"]))}

ChartOnly == {Chart}

ProdCluster == {[labels |-> [stage |-> "prod"], argoCD |-> TRUE]}
TurnedOffCluster == ProdCluster \cup {[labels |-> [stage |-> "prod"], argoCD |-> FALSE]}

MCKeyName == [i \in Instances |-> i]

Site(tenants, creates, local) == [tenants |-> tenants, creates |-> creates, local |-> local]
NoRefusals == {Site({}, {}, {})}

(* Nothing is refused to an instance in the controller's namespace; one in *)
(* another namespace has a tenant, or a binding, that is.                  *)
OneRefusal == {Site({}, {}, {"v1"}), Site({"v1"}, {}, {}), Site({}, {"v1"}, {})}
==============================================================================
