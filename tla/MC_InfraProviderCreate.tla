------------------------- MODULE MC_InfraProviderCreate -------------------------
(* Two input resources, one provider type of each kind, and a caller that  *)
(* sends the input up to three times.                                      *)
EXTENDS InfraProviderCreate

CONSTANTS r1, r2

MCInputResources == <<r1, r2>>
MCProviderTypes == {"docker", "templated", "unknown"}
MCTemplatedTypes == {"templated"}
MCRegisteredTypes == {"docker", "templated"}
=============================================================================
