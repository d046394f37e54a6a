---------------------------- MODULE MCSessions ------------------------------
(***************************************************************************)
(* Sessions with one account, two passwords and two scopes.                 *)
(***************************************************************************)
EXTENDS Sessions, TLC

CONSTANTS alice, old, new, cluster_api, command_api, client

MCAccounts == {alice}
MCSecrets == {old, new}
MCScopes == {cluster_api, command_api}
MCClients == {client}
=============================================================================
