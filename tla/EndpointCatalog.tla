-------------------------- MODULE EndpointCatalog --------------------------
(* The rows of source_endpoints: the unit everything else is keyed by.     *)

CONSTANT Endpoints

ASSUME EndpointsAssumption == Endpoints # {}

=============================================================================
