SPECIFICATION Spec
CONSTANTS
  alice = alice
  old = old
  new = new
  cluster_api = cluster_api
  command_api = command_api
  client = client
  Accounts <- MCAccounts
  Secrets <- MCSecrets
  Scopes <- MCScopes
  Clients <- MCClients
  Ttl = 1
  MaxTime = 3
  MaxEdits = 2
  NoUser = NoUser
  NoToken = NoToken
INVARIANTS
  TypeOK
  AccessWasGranted
