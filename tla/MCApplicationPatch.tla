-------------------------- MODULE MCApplicationPatch --------------------------
(* Instances of ApplicationPatch.  The server stores the body "raw" as     *)
(* "plain"; "other" is a body of its own (another destination).            *)
EXTENDS ApplicationPatch

MCBodies == {"raw", "plain", "other"}
MCNormal == [b \in MCBodies |-> IF b = "raw" THEN "plain" ELSE b]

MCTemplates == {"t", "u"}
MCTemplate == [b \in MCBodies |-> IF b = "other" THEN "u" ELSE "t"]

(* "other" has a default for one parameter.                                *)
MCDefaults == [b \in MCBodies |-> [k \in IF b = "other" THEN {"x"} ELSE {} |-> "w"]]

Ask(b, S) == [body |-> b, annotations |-> [k \in S |-> "v"]]

(* The body the server rewrites, with two parameters, one, and annotations *)
(* that are none of its parameters; and one that the server leaves alone,  *)
(* with its default overridden and as it is.                               *)
MCSources ==
  {Ask("raw", {<<"t", "x">>, <<"t", "y">>}), Ask("raw", {<<"t", "x">>}),
   Ask("raw", {<<"t", None>>, <<"u", "y">>}), Ask("other", {<<"u", "x">>}), Ask("other", {})}
OneBody == {Ask("other", {<<"u", "y">>}), Ask("other", {})}
==============================================================================
