-------------------------- MODULE MCTelemetryStore --------------------------
(***************************************************************************)
(* TLC instance of TelemetryStore.  The bounds end a behaviour that goes   *)
(* on in the browser, so steps that change nothing are added.              *)
(***************************************************************************)
EXTENDS TelemetryStore

\* The hypothesis under which CatalogKept is proved.
ASSUME SingleTab == OneTab

Idle == UNCHANGED storeVars

MCSpec == StoreInit /\ [][StoreNext \/ Idle]_storeVars /\ StoreFairness
=============================================================================
