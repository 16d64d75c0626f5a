------------------------------ MODULE Services ------------------------------
(***************************************************************************)
(* The services of the server that share no state and no request with the  *)
(* trips or with one another: gear sets, uploaded lists, heartbeats, what  *)
(* a request goes through to reach a service, the limits of attempts, the  *)
(* registration of an address, and the system flags.  A behaviour of this  *)
(* composition is one of any of them; interleaving them would show nothing *)
(* more.                                                                   *)
(***************************************************************************)
EXTENDS GearSets, GearLists, Heartbeats, Gateway, RateLimits, Registration, FlagCache

VARIABLE part  \* the part this behaviour is of

Parts == {"sets", "lists", "beats", "requests", "limits", "codes", "flags"}

servicesVars == <<setVars, listVars, beatVars, gateVars, limitVars, registrationVars, flagVars, part>>

ServicesInit ==
    /\ part \in Parts
    /\ SetsInit /\ ListsInit /\ BeatsInit /\ GateInit
    /\ LimitsInit /\ RegistrationInit /\ FlagsInit

\* The parts that do not move.
Resting ==
    /\ part # "sets" => UNCHANGED setVars
    /\ part # "lists" => UNCHANGED listVars
    /\ part # "beats" => UNCHANGED beatVars
    /\ part # "requests" => UNCHANGED gateVars
    /\ part # "limits" => UNCHANGED limitVars
    /\ part # "codes" => UNCHANGED registrationVars
    /\ part # "flags" => UNCHANGED flagVars

ServicesNext ==
    /\ UNCHANGED part
    /\ \/ part = "sets" /\ SetsNext
       \/ part = "lists" /\ ListsNext
       \/ part = "beats" /\ BeatsNext
       \/ part = "requests" /\ GateNext
       \/ part = "limits" /\ LimitsNext
       \/ part = "codes" /\ RegistrationNext
       \/ part = "flags" /\ FlagsNext
    /\ Resting

ServicesSpec == ServicesInit /\ [][ServicesNext]_servicesVars

(* Rows and requests of all parts keep their types.                        *)
ServicesTypeOK ==
    /\ GearSetTypeOK /\ ListsTypeOK /\ BeatsTypeOK /\ GateTypeOK
    /\ LimitsTypeOK /\ RegistrationTypeOK /\ FlagsTypeOK
=============================================================================
