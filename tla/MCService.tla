----------------------------- MODULE MCService ------------------------------
(***************************************************************************)
(* Service with one request of each kind of header.                         *)
(***************************************************************************)
EXTENDS Service, TLC

CONSTANTS bare, named, blank, trace, healthy, silent

MCRequests == {bare, named, blank}
MCClusters == {healthy, silent}
MCSilent == {silent}
MCHeader == bare :> NoHeader @@ named :> trace @@ blank :> Blank
=============================================================================
