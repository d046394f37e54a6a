------------------------------ MODULE Sessions ------------------------------
(***************************************************************************)
(* Who may call what: users.json, which an operator edits at any time and   *)
(* every login reads anew (app/repositories/json_user_repository.py), the   *)
(* tokens a login issues (app/services/auth_service.py,                     *)
(* app/core/security.py), and the two ways a route takes a token            *)
(* (app/core/dependencies.py).  A token is never looked up: it carries the  *)
(* scopes of its login until it expires.                                    *)
(*                                                                          *)
(* Signatures and hashes are taken to be perfect: a token a client holds is *)
(* one that was issued, and a password matches the hash of itself only.     *)
(***************************************************************************)
EXTENDS Integers

CONSTANTS
  Accounts,  \* the account names
  Secrets,   \* passwords
  Scopes,    \* the scopes routes ask for
  Clients,   \* browsers and API clients
  Ttl,       \* ACCESS_TOKEN_EXPIRE_MINUTES, and the cookie's max_age
  MaxTime,   \* bound: how long the clock runs
  MaxEdits,  \* bound: how often users.json is edited
  NoUser,    \* no record in users.json
  NoToken    \* no header, no cookie

User == [secret : Secrets, scopes : SUBSET Scopes]
Token == [sub : Accounts, scopes : SUBSET Scopes, secret : Secrets, exp : Nat]

ASSUME SessionsAssumption ==
  /\ Ttl \in Nat \ {0} /\ MaxTime \in Nat /\ MaxEdits \in Nat
  /\ NoUser \notin User
  /\ NoToken \notin Token

VARIABLES
  now,      \* the clock
  users,    \* account -> its record in users.json
  edits,
  bearer,   \* client -> the token it got from POST /token
  cookie,   \* client -> the token in its access_token cookie
  reply,    \* the last answer to a call of a route
  was       \* history: the records of users.json, and when they stood there

vars == <<now, users, edits, bearer, cookie, reply, was>>

\* secret is history: the password whose login issued the token in question.
Accepted == [kind : {"ok"}, sub : Accounts, secret : Secrets, required : SUBSET Scopes]
Rejected == {[kind |-> "none"], [kind |-> "unauthorized"], [kind |-> "forbidden"]}
NoReply == [kind |-> "none"]

Standing == [at : Nat, account : Accounts, user : User]
StandsAt(t, us) == {[at |-> t, account |-> a, user |-> us[a]] :
                      a \in {b \in Accounts : us[b] # NoUser}}

Init ==
  /\ now = 0
  /\ users \in [Accounts -> User \cup {NoUser}]
  /\ edits = 0
  /\ bearer = [c \in Clients |-> NoToken]
  /\ cookie = [c \in Clients |-> NoToken]
  /\ reply = NoReply
  /\ was = StandsAt(0, users)

\* An operator edits a record; the file is replaced as a whole.
Edit(a) ==
  /\ edits < MaxEdits
  /\ \E u \in User \cup {NoUser} : users' = [users EXCEPT ![a] = u]
  /\ edits' = edits + 1
  /\ was' = was \cup StandsAt(now, users')
  /\ reply' = NoReply
  /\ UNCHANGED <<now, bearer, cookie>>

\* generate_token for the record authenticate has just read.
IssuedToken(a) == [sub |-> a, scopes |-> users[a].scopes, secret |-> users[a].secret,
                   exp |-> now + Ttl]

\* authenticate: the record is read and the password compared in one step of
\* the loop, the token issued in the same.
Authenticates(a, password) == users[a] # NoUser /\ users[a].secret = password

\* POST /token answers with the token, and sets the cookie where it can.
LoginForToken(c, a, password) ==
  /\ Authenticates(a, password)
  /\ bearer' = [bearer EXCEPT ![c] = IssuedToken(a)]
  /\ cookie' \in {cookie, [cookie EXCEPT ![c] = IssuedToken(a)]}
  /\ reply' = NoReply
  /\ UNCHANGED <<now, users, edits, was>>

\* POST /login sets the cookie and redirects.
LoginForm(c, a, password) ==
  /\ Authenticates(a, password)
  /\ cookie' = [cookie EXCEPT ![c] = IssuedToken(a)]
  /\ reply' = NoReply
  /\ UNCHANGED <<now, users, edits, bearer, was>>

\* Slip: an account that does not exist is told apart.
LoginFailsTelling(a, password) ==
  /\ ~Authenticates(a, password)
  /\ reply' = [kind |-> IF users[a] = NoUser THEN "not_found" ELSE "unauthorized"]
  /\ UNCHANGED <<now, users, edits, bearer, cookie, was>>

\* A wrong password and an unknown account are answered alike.
LoginFails(a, password) ==
  /\ ~Authenticates(a, password)
  /\ reply' = [kind |-> "unauthorized"]
  /\ UNCHANGED <<now, users, edits, bearer, cookie, was>>

\* Most routes take the header only; those of the log viewer take the cookie
\* when there is no header.
Credential(kind, header, jar) ==
  IF kind = "header" \/ header # NoToken THEN header ELSE jar

\* Slip: one of the required scopes is enough.
GrantsAny(token, required) == required \cap token.scopes # {}
\* missing = []
Grants(token, required) == required \subseteq token.scopes

Decide(token, required) ==
  IF token = NoToken THEN [kind |-> "unauthorized"]
  ELSE IF now > token.exp THEN [kind |-> "unauthorized"]
  ELSE IF ~Grants(token, required) THEN [kind |-> "forbidden"]
  ELSE [kind |-> "ok", sub |-> token.sub, secret |-> token.secret, required |-> required]

\* A call of a route, with or without the header.
Call(c, kind, required) ==
  /\ \E header \in {bearer[c], NoToken} :
       reply' = Decide(Credential(kind, header, cookie[c]), required)
  /\ UNCHANGED <<now, users, edits, bearer, cookie, was>>

\* Time passes, and a browser drops the cookie whose max_age is over.
Tick ==
  /\ now < MaxTime
  /\ now' = now + 1
  /\ cookie' = [c \in Clients |-> IF cookie[c] # NoToken /\ cookie[c].exp <= now + 1
                                    THEN NoToken ELSE cookie[c]]
  /\ was' = was \cup StandsAt(now + 1, users)
  /\ reply' = NoReply
  /\ UNCHANGED <<users, edits, bearer>>

Next ==
  \/ \E a \in Accounts : Edit(a)
  \/ \E a \in Accounts, password \in Secrets :
       \/ LoginFails(a, password)
       \/ \E c \in Clients : LoginForToken(c, a, password) \/ LoginForm(c, a, password)
  \/ \E c \in Clients, kind \in {"header", "either"}, required \in SUBSET Scopes :
       Call(c, kind, required)
  \/ Tick

Spec == Init /\ [][Next]_vars

-----------------------------------------------------------------------------
(* Properties                                                               *)

\* The type invariant of users.json, the tokens and the answers.
TypeOK ==
  /\ now \in Nat
  /\ users \in [Accounts -> User \cup {NoUser}]
  /\ edits \in 0..MaxEdits
  /\ bearer \in [Clients -> Token \cup {NoToken}]
  /\ cookie \in [Clients -> Token \cup {NoToken}]
  /\ reply \in Accepted \cup Rejected
  /\ was \subseteq Standing

\* How stale a permission can be: a call is accepted only if, not longer ago
\* than the lifetime of a token, users.json gave the account all the scopes it
\* needs, at once, and with the password that was used.  Whatever is edited,
\* removed and added again, a permission taken away is gone after that time.
AccessWasGranted ==
  reply.kind = "ok" =>
    \E w \in was :
      /\ w.account = reply.sub
      /\ w.user.secret = reply.secret
      /\ reply.required \subseteq w.user.scopes
      /\ now - Ttl <= w.at /\ w.at <= now
=============================================================================
