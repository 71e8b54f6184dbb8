-------------------------- MODULE DetectionPolicyMC --------------------------
(* Instances of DetectionPolicy: a domain, its subdomain, and two actions. *)
EXTENDS DetectionPolicy, TLC

MCParents(n) == IF n = "api.ai" THEN {"ai"} ELSE {}

Plain == "ai" :> "WARN"
Mixed == "ai" :> "LOG_ONLY" @@ "api.ai" :> "ESCALATE"
MCLists == {Plain, Mixed}
MCUpdates ==
    {[domains |-> Plain, processes |-> NoRules], [domains |-> Mixed, processes |-> Plain]}

=============================================================================
