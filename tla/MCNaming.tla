------------------------------- MODULE MCNaming -------------------------------
(* Two requests of one pass, over short words: joined they exceed the limit.*)
EXTENDS Naming

MCAlnum == {"a", "l", "p", "v", "w"}
MCLower == [c \in MCAlnum \cup {"-", ".", "_", "A"} |-> IF c = "A" THEN "a" ELSE c]
MCFallback == <<"w">>
MCInfix == <<"v">>
MCPrefix == <<"w">>
MCLoftNamespace == <<"l", "-", "p", "-">>
MCProjectNamespace == <<"p", "-">>

(* One digit.  Many words share one, and short ones end in it.             *)
MCDigest(w) ==
  <<IF Cardinality({i \in DOMAIN w : w[i] = "a"}) % 2 = 0 THEN "a" ELSE "v">>

Templates ==
  {<<"a">>, <<"a", "a">>, <<"a", "-", "a">>, <<"a", "-", "v">>,
   <<"a", "a", "a", ".", "a">>, <<"A", "_", "_">>, <<"_", ".">>}
TargetNames ==
  {<<"a">>, <<"a", "a">>, <<"a", "-", "a">>, <<"a", ".", "a">>, <<"v", "-", "a">>,
   <<"a", "a", "a", "a">>}
Namespaces ==
  {<<"p", "-", "a">>, <<"p", "-", "-", "a">>, <<"p", "-", "v">>,
   <<"l", "-", "p", "-", "a", "-", "a">>}

Asked ==
  [kind : {"Cluster"}, namespace : {<<"p", "-", "a">>},
   template : Templates, target : TargetNames]
  \cup [kind : {"VirtualClusterInstance"}, namespace : Namespaces,
        template : Templates, target : TargetNames]
MCRequests == {{r, q} : r \in Asked, q \in Asked}
==============================================================================
