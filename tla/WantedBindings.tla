---------------------------- MODULE WantedBindings ----------------------------
(***************************************************************************)
(* A pass lists profiles, targets and applications one after another, so   *)
(* what it computes from may never have been true at one moment.  This     *)
(* module adds three history variables to Reconcile that say what was true *)
(* while a pass ran; they restrict nothing.                                *)
(***************************************************************************)
EXTENDS Reconcile

VARIABLES
  unwanted,  \* names that were not wanted at some moment of this pass
  edited,    \* how often targets or profiles changed during this pass
  misread    \* whether this pass took a 404 for a list without profiles or targets

hvars == <<vars, unwanted, edited, misread>>

(* The names of the bindings a configuration asks for. *)
Asked(specs, profiles) ==
  UNION {{BindingName[<<a, t>>] : a \in DOMAIN Graph(t, specs[t], profiles)} :
           t \in Resolved(specs, profiles)}

(* A name is wanted when the configuration asks for it, or when it belongs *)
(* to a target whose configuration is invalid and so preserved.            *)
WantedOf(specs, profiles, store) ==
  Asked(specs, profiles)
    \cup {k \in Names : store[k] # None /\ store[k].target \in Preserved(specs, profiles)}

NotWanted == Names \ WantedOf(targets, fleetProfiles, apps)

HInit ==
  /\ Init
  /\ unwanted = {}
  /\ edited = 0
  /\ misread = FALSE

(* A list request that fails without ending the pass found nothing.        *)
Misreads == pc \in {"idle", "clusters", "instances"} /\ faults' # faults

(* What is wanted only changes with the API. *)
HNext ==
  /\ Next
  /\ unwanted' = IF pc' = "idle" THEN {}
                 ELSE IF pc # "idle" /\ UNCHANGED api THEN unwanted
                 ELSE unwanted \cup NotWanted'
  /\ edited' = IF pc' = "idle" THEN 0 ELSE edited + (edits' - edits)
  /\ misread' = (pc' # "idle" /\ (misread \/ Misreads))

HSpec == HInit /\ [][HNext]_hvars

HFairSpec == HSpec /\ Fairness

(* As long as at most one object is edited while a pass runs and no list   *)
(* of profiles or targets is answered with a 404 in it, the pass prunes a  *)
(* binding only if at some moment of that pass the API did not ask for it: *)
(* reading the lists one by one (reconcile.go:11-37) never makes up a state*)
(* in which it is unwanted, whatever earlier passes went through, whoever's*)
(* credential fails and whatever the list of applications says.            *)
WantedBindingsKept ==
  [][\A k \in Names : Prunes(k) /\ edited <= 1 /\ ~misread => k \in unwanted]_hvars
==============================================================================
