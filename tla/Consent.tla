------------------------------- MODULE Consent -------------------------------
(***************************************************************************)
(* One store of grants, filled by the host and by what is admitted on      *)
(* precedent, and read back as the reach of a turn and the card of an      *)
(* agent while other operations spend of it.                               *)
(***************************************************************************)
EXTENDS Admission, AgentCards

vars == <<admissionVars, store, read>>

Init == AdmissionInit /\ StoreInit /\ CardsInit

(* The bound on interleaving: a read shares only the store with what leads *)
(* to a grant, and only issuing it writes there, so a read is tried before *)
(* anything is asked and around the issuing, and nothing else beside it.   *)
noReads == \A reader \in Readers : read[reader].at = "none"

isDecided(p) ==
    /\ p.at = "admitted" /\ p.width # None
    /\ asked = p.cited \cup {p.request}
    /\ rows = {p.loaded[i] : i \in DOMAIN p.loaded}

readsMayRun == asked = {} \/ \E m \in Matchers : isDecided(proposal[m])

Next ==
    \/ noReads /\ Consents /\ UNCHANGED read
    \/ ~noReads /\ (\E m \in Matchers : IssuesAdmitted(m, 0)) /\ UNCHANGED read
    \/ readsMayRun /\ (\E reader \in Readers : Reads(reader)) /\ UNCHANGED admissionVars
    \/ (\E grant \in issued : Spends(grant)) /\ UNCHANGED <<admissionVars, read>>

Spec == Init /\ [][Next]_vars

=============================================================================
