--------------------------- MODULE SessionsProofs ---------------------------
(***************************************************************************)
(* Proofs about Sessions, for any accounts, passwords, scopes, clients and  *)
(* token lifetime.                                                          *)
(***************************************************************************)
EXTENDS Sessions, TLAPS

\* A token stems from a record: users.json held it when the token was issued,
\* a token's lifetime before it expires.
Stems(token) ==
  \E w \in was : /\ w.account = token.sub
                 /\ w.user.secret = token.secret
                 /\ w.user.scopes = token.scopes
                 /\ w.at = token.exp - Ttl /\ w.at <= now

\* The inductive invariant: every token that is held stems from a record, and
\* what stands in users.json now is in the history.
TokensStem ==
  /\ \A c \in Clients : bearer[c] # NoToken => Stems(bearer[c])
  /\ \A c \in Clients : cookie[c] # NoToken => Stems(cookie[c])
NowInHistory ==
  \A a \in Accounts : users[a] # NoUser =>
    [at |-> now, account |-> a, user |-> users[a]] \in was
SessionsInv == TokensStem /\ NowInHistory /\ AccessWasGranted

-----------------------------------------------------------------------------
(* Type correctness                                                         *)

\* The records that stand in users.json are entries of the history.
LEMMA StandingHolds ==
  ASSUME NEW t \in Nat, NEW us \in [Accounts -> User \cup {NoUser}]
  PROVE  StandsAt(t, us) \subseteq Standing
<1> SUFFICES ASSUME NEW a \in Accounts, us[a] # NoUser
             PROVE  [at |-> t, account |-> a, user |-> us[a]] \in Standing
  BY DEF StandsAt
<1>1. us[a] \in User
  OBVIOUS
<1> QED
  BY <1>1 DEF Standing

\* A token is issued for the record it was read from.
LEMMA IssuedIsToken ==
  ASSUME TypeOK, NEW a \in Accounts, users[a] # NoUser
  PROVE  IssuedToken(a) \in Token
<1>1. users[a] \in User
  BY DEF TypeOK
<1>2. now + Ttl \in Nat
  BY SessionsAssumption DEF TypeOK
<1> QED
  BY <1>1, <1>2 DEF IssuedToken, Token, User

\* A call is accepted or rejected.
LEMMA DecisionIsReply ==
  ASSUME NEW token \in Token \cup {NoToken}, NEW required \in SUBSET Scopes
  PROVE  Decide(token, required) \in Accepted \cup Rejected
  BY DEF Decide, Accepted, Rejected, Token

\* What a call presents is a token one of its client's places holds, or none.
LEMMA CredentialIsHeld ==
  ASSUME TypeOK, NEW c \in Clients, NEW kind, NEW header \in {bearer[c], NoToken}
  PROVE  /\ Credential(kind, header, cookie[c]) \in {bearer[c], cookie[c], NoToken}
         /\ Credential(kind, header, cookie[c]) \in Token \cup {NoToken}
  BY DEF Credential, TypeOK

\* The initial states have their types.
LEMMA InitTypeOK == Init => TypeOK
<1> SUFFICES ASSUME Init PROVE TypeOK
  OBVIOUS
<1>1. was \subseteq Standing
  BY StandingHolds DEF Init
<1> QED
  BY <1>1, SessionsAssumption DEF Init, TypeOK, NoReply, Rejected

\* Every step keeps them.
LEMMA NextTypeOK == TypeOK /\ [Next]_vars => TypeOK'
<1> SUFFICES ASSUME TypeOK, [Next]_vars PROVE TypeOK'
  OBVIOUS
<1>1. NoReply \in Rejected /\ [kind |-> "unauthorized"] \in Rejected
  BY DEF NoReply, Rejected
<1>2. ASSUME NEW a \in Accounts, Edit(a) PROVE TypeOK'
  <2>1. users' \in [Accounts -> User \cup {NoUser}]
    BY <1>2 DEF Edit, TypeOK
  <2>2. was' \subseteq Standing
    BY <1>2, <2>1, StandingHolds DEF Edit, TypeOK
  <2>3. edits' \in 0..MaxEdits
    BY <1>2, SessionsAssumption DEF Edit, TypeOK
  <2> QED
    BY <1>1, <1>2, <2>1, <2>2, <2>3 DEF Edit, TypeOK
<1>3. ASSUME NEW a \in Accounts, NEW password \in Secrets, NEW c \in Clients,
             LoginForToken(c, a, password) \/ LoginForm(c, a, password)
      PROVE  TypeOK'
  <2>1. IssuedToken(a) \in Token
    BY <1>3, IssuedIsToken DEF LoginForToken, LoginForm, Authenticates
  <2> QED
    BY <1>1, <1>3, <2>1 DEF LoginForToken, LoginForm, TypeOK
<1>4. ASSUME NEW a \in Accounts, NEW password \in Secrets, LoginFails(a, password) PROVE TypeOK'
  BY <1>1, <1>4 DEF LoginFails, TypeOK
<1>5. ASSUME NEW c \in Clients, NEW kind \in {"header", "either"}, NEW required \in SUBSET Scopes,
             Call(c, kind, required)
      PROVE  TypeOK'
  <2>1. reply' \in Accepted \cup Rejected
    BY <1>5, CredentialIsHeld, DecisionIsReply DEF Call
  <2> QED
    BY <1>5, <2>1 DEF Call, TypeOK
<1>6. CASE Tick
  <2>1. was' \subseteq Standing
    BY <1>6, StandingHolds DEF Tick, TypeOK
  <2> QED
    BY <1>1, <1>6, <2>1 DEF Tick, TypeOK
<1>7. CASE UNCHANGED vars
  BY <1>7 DEF vars, TypeOK
<1> QED
  BY <1>2, <1>3, <1>4, <1>5, <1>6, <1>7 DEF Next

\* users.json, tokens and answers keep their types.
THEOREM SessionsTypeCorrect == Spec => []TypeOK
<1>1. Init => TypeOK
  BY InitTypeOK
<1>2. TypeOK /\ [Next]_vars => TypeOK'
  BY NextTypeOK
<1> QED
  BY <1>1, <1>2, PTL DEF Spec

-----------------------------------------------------------------------------
(* How stale a permission can be                                            *)

\* A token that stems from a record goes on to.
LEMMA StemsOn ==
  ASSUME TypeOK, TypeOK', NEW token, Stems(token), was \subseteq was', now <= now'
  PROVE  Stems(token)'
<1>1. PICK w \in was : /\ w.account = token.sub
                       /\ w.user.secret = token.secret
                       /\ w.user.scopes = token.scopes
                       /\ w.at = token.exp - Ttl /\ w.at <= now
  BY DEF Stems
<1>2. w \in was' /\ w.at \in Nat
  BY DEF TypeOK, Standing
<1>3. w.at <= now'
  BY <1>1, <1>2 DEF TypeOK
<1> QED
  BY <1>1, <1>2, <1>3 DEF Stems

\* A token that is issued stems from the record it is issued for.
LEMMA IssuedStems ==
  ASSUME TypeOK, NowInHistory, NEW a \in Accounts, users[a] # NoUser
  PROVE  Stems(IssuedToken(a))
<1> DEFINE w == [at |-> now, account |-> a, user |-> users[a]]
<1>1. w \in was
  BY DEF NowInHistory
<1>2. now \in Nat /\ Ttl \in Nat
  BY SessionsAssumption DEF TypeOK
<1>3. w.at = IssuedToken(a).exp - Ttl
  BY <1>2 DEF IssuedToken
<1> QED
  BY <1>1, <1>2, <1>3 DEF Stems, IssuedToken

\* An accepted call was granted: its token is not older than Ttl, and stems
\* from a record with the scopes.
LEMMA AcceptedWasGranted ==
  ASSUME TypeOK, NEW token \in Token \cup {NoToken}, token # NoToken => Stems(token),
         NEW required \in SUBSET Scopes, reply' = Decide(token, required),
         now' = now, was' = was
  PROVE  AccessWasGranted'
<1> SUFFICES ASSUME reply'.kind = "ok" PROVE AccessWasGranted'
  BY DEF AccessWasGranted
<1>1. /\ token \in Token /\ ~(now > token.exp) /\ required \subseteq token.scopes
      /\ reply' = [kind |-> "ok", sub |-> token.sub, secret |-> token.secret,
                   required |-> required]
  BY DEF Decide, Grants
<1>2. PICK w \in was : /\ w.account = token.sub
                       /\ w.user.secret = token.secret
                       /\ w.user.scopes = token.scopes
                       /\ w.at = token.exp - Ttl /\ w.at <= now
  BY <1>1, SessionsAssumption DEF Stems
<1>3. token.exp \in Nat /\ now \in Nat /\ Ttl \in Nat
  BY <1>1, SessionsAssumption DEF Token, TypeOK
<1>4. now - Ttl <= w.at
  BY <1>1, <1>2, <1>3
<1>5. reply'.sub = token.sub /\ reply'.secret = token.secret /\ reply'.required = required
  BY <1>1
<1> QED
  BY <1>1, <1>2, <1>4, <1>5 DEF AccessWasGranted

\* An answer that grants nothing.
LEMMA NothingGranted ==
  ASSUME reply' \in Rejected
  PROVE  AccessWasGranted'
  BY DEF Rejected, AccessWasGranted

\* Tokens that are held, and stay as they are or are dropped, stem on.
LEMMA HeldStem ==
  ASSUME TypeOK, TypeOK', TokensStem, was \subseteq was', now <= now', bearer' = bearer,
         \A c \in Clients : cookie'[c] \in {cookie[c], NoToken}
  PROVE  TokensStem'
  BY StemsOn DEF TokensStem

\* The inductive invariant holds at the start.
LEMMA InitSessionsInv == Init => SessionsInv
<1> SUFFICES ASSUME Init PROVE SessionsInv
  OBVIOUS
<1>1. TokensStem
  BY DEF Init, TokensStem
<1>2. NowInHistory
  BY DEF Init, NowInHistory, StandsAt
<1>3. AccessWasGranted
  BY DEF Init, AccessWasGranted, NoReply
<1> QED
  BY <1>1, <1>2, <1>3 DEF SessionsInv

\* Every step keeps it.
LEMMA NextSessionsInv == TypeOK /\ TypeOK' /\ SessionsInv /\ [Next]_vars => SessionsInv'
<1> SUFFICES ASSUME TypeOK, TypeOK', SessionsInv, [Next]_vars PROVE SessionsInv'
  OBVIOUS
<1> USE DEF SessionsInv
<1>1. now \in Nat
  BY DEF TypeOK
<1>2. NoReply \in Rejected /\ [kind |-> "unauthorized"] \in Rejected
  BY DEF NoReply, Rejected
<1>3. ASSUME NEW a \in Accounts, Edit(a) PROVE SessionsInv'
  <2>1. TokensStem'
    BY <1>1, <1>3, HeldStem DEF Edit
  <2>2. NowInHistory'
    BY <1>3 DEF Edit, NowInHistory, StandsAt
  <2> QED
    BY <1>2, <1>3, <2>1, <2>2, NothingGranted DEF Edit
<1>4. ASSUME NEW a \in Accounts, NEW password \in Secrets, NEW c \in Clients,
             LoginForToken(c, a, password) \/ LoginForm(c, a, password)
      PROVE  SessionsInv'
  <2>1. users[a] # NoUser /\ UNCHANGED <<now, users, was>> /\ reply' = NoReply
    BY <1>4 DEF LoginForToken, LoginForm, Authenticates
  <2>2. Stems(IssuedToken(a))
    BY <2>1, IssuedStems
  <2>3. \A b \in Clients : /\ bearer'[b] \in {bearer[b], IssuedToken(a)}
                           /\ cookie'[b] \in {cookie[b], IssuedToken(a)}
    BY <1>4 DEF LoginForToken, LoginForm, TypeOK
  <2>4. \A b \in Clients : /\ bearer'[b] # NoToken => Stems(bearer'[b])
                           /\ cookie'[b] # NoToken => Stems(cookie'[b])
    BY <2>2, <2>3 DEF TokensStem
  <2>5. TokensStem'
    BY <2>1, <2>4 DEF TokensStem, Stems
  <2> QED
    BY <1>2, <2>1, <2>5, NothingGranted DEF NowInHistory
<1>5. ASSUME NEW a \in Accounts, NEW password \in Secrets, LoginFails(a, password)
      PROVE  SessionsInv'
  <2>1. TokensStem'
    BY <1>1, <1>5, HeldStem DEF LoginFails
  <2> QED
    BY <1>2, <1>5, <2>1, NothingGranted DEF LoginFails, NowInHistory
<1>6. ASSUME NEW c \in Clients, NEW kind \in {"header", "either"}, NEW required \in SUBSET Scopes,
             Call(c, kind, required)
      PROVE  SessionsInv'
  <2>1. PICK header \in {bearer[c], NoToken} :
          reply' = Decide(Credential(kind, header, cookie[c]), required)
    BY <1>6 DEF Call
  <2> DEFINE token == Credential(kind, header, cookie[c])
  <2>2. token \in Token \cup {NoToken} /\ token \in {bearer[c], cookie[c], NoToken}
    BY CredentialIsHeld
  <2>3. token # NoToken => Stems(token)
    BY <2>2 DEF TokensStem
  <2>4. UNCHANGED <<now, users, bearer, cookie, was>>
    BY <1>6 DEF Call
  <2>5. AccessWasGranted'
    BY <2>1, <2>2, <2>3, <2>4, AcceptedWasGranted
  <2>6. TokensStem'
    BY <1>1, <2>4, HeldStem
  <2> QED
    BY <2>4, <2>5, <2>6 DEF NowInHistory
<1>7. CASE Tick
  <2>1. now <= now' /\ was \subseteq was'
    BY <1>1, <1>7 DEF Tick
  <2>2. TokensStem'
    BY <1>7, <2>1, HeldStem DEF Tick
  <2>3. NowInHistory'
    BY <1>7 DEF Tick, NowInHistory, StandsAt
  <2> QED
    BY <1>2, <1>7, <2>2, <2>3, NothingGranted DEF Tick
<1>8. CASE UNCHANGED vars
  BY <1>8 DEF vars, TokensStem, Stems, NowInHistory, AccessWasGranted
<1> QED
  BY <1>3, <1>4, <1>5, <1>6, <1>7, <1>8 DEF Next

\* A permission is never older than the lifetime of a token, for any lifetime
\* and any history of users.json.
THEOREM PermissionsEnd == Spec => []AccessWasGranted
<1>1. Init => TypeOK /\ SessionsInv
  BY InitTypeOK, InitSessionsInv
<1>2. TypeOK /\ SessionsInv /\ [Next]_vars => TypeOK' /\ SessionsInv'
  BY NextTypeOK, NextSessionsInv
<1>3. SessionsInv => AccessWasGranted
  BY DEF SessionsInv
<1> QED
  BY <1>1, <1>2, <1>3, PTL DEF Spec
=============================================================================
