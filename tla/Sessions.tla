------------------------------ MODULE Sessions ------------------------------
(***************************************************************************)
(* AuthService: registration, login and the rotation of refresh tokens.    *)
(*                                                                         *)
(* A client exchanges a refresh token for its successor in four awaited    *)
(* calls: the row is read, deleted, expired rows of the user are cleaned   *)
(* up, the successor is created.  No transaction spans them, so any other  *)
(* request may run in between; each action is one call with the code up to *)
(* the next await.  Access tokens, and the role that changeRole sets, are  *)
(* the subject of module Access.                                           *)
(***************************************************************************)
EXTENDS Integers

CONSTANTS
    Users,        \* normalized emails
    Tokens,       \* random refresh tokens, told apart by their hashes
    NoUser, NoToken,
    Handlers,     \* requests in flight at once
    Lifetime,     \* REFRESH_TOKEN_EXPIRES_DAYS, in ticks
    MaxTime,      \* bound: the clock
    MaxFailures   \* bound: rejected calls, lost answers and crashes

Exchange == {"cleanUp", "createToken"}     \* generateRefreshToken
Steps == {"idle", "createUser", "dropExpired", "redeem"} \cup Exchange

ASSUME NullTypes == NoUser \notin Users /\ NoToken \notin Tokens
ASSUME BoundTypes == Lifetime \in Nat /\ MaxTime \in Nat /\ MaxFailures \in Nat

VARIABLES
    registered,   \* users: the emails with a row
    rows,         \* refresh_tokens: the tokens with a row
    owner,        \* their userId
    expiresAt,    \* their expiresAt
    created,      \* tokens that ever had a row (history)
    parent,       \* the token each was exchanged for (history)
    held,         \* tokens a client has received
    loggedOut,    \* tokens whose logout has returned (history)
    pc,           \* the await each handler has reached
    tok,          \* the token it was presented; NoToken: registration or login
    usr,          \* the user it serves
    until,        \* the expiresAt it has computed for the successor
    now, failures

db == <<registered, rows, owner, expiresAt, created, parent>>
clients == <<held, loggedOut>>
procs == <<pc, tok, usr, until>>
vars == <<db, clients, procs, now, failures>>

Enter(h, step, t, u) ==
    /\ pc' = [pc EXCEPT ![h] = step]
    /\ tok' = [tok EXCEPT ![h] = t]
    /\ usr' = [usr EXCEPT ![h] = u]
Await(h, step) == Enter(h, step, tok[h], usr[h])
Return(h) == Enter(h, "idle", NoToken, NoUser)

Expired(t) == expiresAt[t] < now

\* Mutation: the lifetime is subtracted.
GenerateExpired(h, t, u) ==
    /\ Enter(h, "cleanUp", t, u)
    /\ until' = [until EXCEPT ![h] = now - Lifetime]
\* generateRefreshToken, up to its first await.
Generate(h, t, u) ==
    /\ Enter(h, "cleanUp", t, u)
    /\ until' = [until EXCEPT ![h] = now + Lifetime]

Init ==
    /\ registered = {} /\ rows = {} /\ created = {} /\ held = {} /\ loggedOut = {}
    /\ owner = [t \in Tokens |-> NoUser]
    /\ expiresAt = [t \in Tokens |-> 0]
    /\ parent = [t \in Tokens |-> NoToken]
    /\ pc = [h \in Handlers |-> "idle"]
    /\ tok = [h \in Handlers |-> NoToken]
    /\ usr = [h \in Handlers |-> NoUser]
    /\ until = [h \in Handlers |-> 0]
    /\ now = 0 /\ failures = 0

-----------------------------------------------------------------------------
(* register and login *)

\* findUnique(email); a taken email is refused and leaves no trace.
Register(h, u) ==
    /\ pc[h] = "idle"
    /\ u \notin registered
    /\ Enter(h, "createUser", NoToken, u)
    /\ UNCHANGED <<db, clients, until, now, failures>>

\* user.create: the unique index on the email refuses the second of two
\* registrations that both found it free.
CreateUser(h) ==
    /\ pc[h] = "createUser"
    /\ IF usr[h] \in registered
       THEN Return(h) /\ UNCHANGED <<registered, until>>
       ELSE /\ registered' = registered \cup {usr[h]}
            /\ Generate(h, NoToken, usr[h])
    /\ UNCHANGED <<rows, owner, expiresAt, created, parent, clients, now, failures>>

\* findUnique(email) and a password that matches.
Login(h, u) ==
    /\ pc[h] = "idle"
    /\ u \in registered
    /\ Generate(h, NoToken, u)
    /\ UNCHANGED <<db, clients, now, failures>>

-----------------------------------------------------------------------------
(* refresh and logout *)

\* findUnique(token): no row, no trace; an expired row is to be deleted.
Refresh(h, t) ==
    /\ pc[h] = "idle"
    /\ t \in held \cap rows
    /\ Enter(h, IF Expired(t) THEN "dropExpired" ELSE "redeem", t, owner[t])
    /\ UNCHANGED <<db, clients, until, now, failures>>

\* refreshToken.delete; it throws when the row is gone already.
DropExpired(h) ==
    /\ pc[h] = "dropExpired"
    /\ rows' = rows \ {tok[h]}
    /\ Return(h)
    /\ UNCHANGED <<registered, owner, expiresAt, created, parent, clients, until,
                   now, failures>>

\* Mutation: the count of deleted rows is not looked at.
RedeemUnchecked(h) ==
    /\ pc[h] = "redeem"
    /\ rows' = rows \ {tok[h]}
    /\ Generate(h, tok[h], usr[h])
    /\ UNCHANGED <<registered, owner, expiresAt, created, parent, clients, now, failures>>

\* deleteMany(id), which goes on only when it deleted the row itself.
Redeem(h) ==
    /\ pc[h] = "redeem"
    /\ rows' = rows \ {tok[h]}
    /\ IF tok[h] \in rows
       THEN Generate(h, tok[h], usr[h])
       ELSE Return(h) /\ UNCHANGED until
    /\ UNCHANGED <<registered, owner, expiresAt, created, parent, clients, now, failures>>

\* logout: one deleteMany by hash.
Logout(t) ==
    /\ t \in held
    /\ rows' = rows \ {t}
    /\ loggedOut' = loggedOut \cup {t}
    /\ UNCHANGED <<registered, owner, expiresAt, created, parent, held, procs, now, failures>>

-----------------------------------------------------------------------------
(* generateRefreshToken *)

\* Mutation: every token of the user is cleaned up.
AllOf(u) == {t \in rows : owner[t] = u}
ExpiredOf(u) == {t \in rows : owner[t] = u /\ Expired(t)}

CleanUp(h) ==
    /\ pc[h] = "cleanUp"
    /\ rows' = rows \ ExpiredOf(usr[h])
    /\ Await(h, "createToken")
    /\ UNCHANGED <<registered, owner, expiresAt, created, parent, clients, until,
                   now, failures>>

\* The successor's row, and the answer, which the client may fail to receive.
CreateToken(h, t) ==
    /\ pc[h] = "createToken"
    /\ t \notin created
    /\ created' = created \cup {t}
    /\ rows' = rows \cup {t}
    /\ owner' = [owner EXCEPT ![t] = usr[h]]
    /\ expiresAt' = [expiresAt EXCEPT ![t] = until[h]]
    /\ parent' = [parent EXCEPT ![t] = tok[h]]
    /\ \/ held' = held \cup {t} /\ UNCHANGED failures
       \/ failures < MaxFailures /\ failures' = failures + 1 /\ UNCHANGED held
    /\ Return(h)
    /\ UNCHANGED <<registered, loggedOut, until, now>>

-----------------------------------------------------------------------------
(* Failures and time *)

\* The awaited call rejects: the request ends with an error.
Rejects(h) ==
    /\ pc[h] # "idle"
    /\ failures < MaxFailures
    /\ failures' = failures + 1
    /\ Return(h)
    /\ UNCHANGED <<db, clients, until, now>>

Crash ==
    /\ failures < MaxFailures
    /\ failures' = failures + 1
    /\ pc' = [h \in Handlers |-> "idle"]
    /\ tok' = [h \in Handlers |-> NoToken]
    /\ usr' = [h \in Handlers |-> NoUser]
    /\ UNCHANGED <<db, clients, until, now>>

Tick ==
    /\ now < MaxTime
    /\ now' = now + 1
    /\ UNCHANGED <<db, clients, procs, failures>>

Continue(h) ==
    \/ CreateUser(h) \/ DropExpired(h) \/ Redeem(h) \/ CleanUp(h)
    \/ \E t \in Tokens : CreateToken(h, t)
    \/ Rejects(h)

Arrive(h) ==
    \/ \E u \in Users : Register(h, u) \/ Login(h, u)
    \/ \E t \in Tokens : Refresh(h, t)

Next ==
    \/ \E h \in Handlers : Continue(h) \/ Arrive(h)
    \/ \E t \in Tokens : Logout(t)
    \/ Crash
    \/ Tick

Spec == Init /\ [][Next]_vars

-----------------------------------------------------------------------------
(* Properties *)

\* Every variable has its type, and a request in flight serves a user.
TypeOK ==
    /\ registered \subseteq Users
    /\ rows \subseteq created /\ created \subseteq Tokens
    /\ owner \in [Tokens -> Users \cup {NoUser}]
    /\ \A t \in created : owner[t] \in Users
    /\ expiresAt \in [Tokens -> Nat]
    /\ parent \in [Tokens -> Tokens \cup {NoToken}]
    /\ held \subseteq created /\ loggedOut \subseteq held
    /\ pc \in [Handlers -> Steps]
    /\ tok \in [Handlers -> Tokens \cup {NoToken}]
    /\ usr \in [Handlers -> Users \cup {NoUser}]
    /\ \A h \in Handlers : pc[h] # "idle" => usr[h] \in Users
    /\ until \in [Handlers -> Nat]
    /\ now \in Nat /\ failures \in Nat

\* A refresh token is exchanged for one successor, however many requests
\* present it at once: whoever holds a copy of a used token gets nothing.
OneSuccessor ==
    \A s, t \in created : parent[s] = parent[t] /\ parent[s] # NoToken => s = t

\* A logout that has returned stops the requests that had already read the
\* token: none of them exchanges it afterwards.
LogoutStopsExchange ==
    [][\A h \in Handlers :
          pc[h] = "redeem" /\ pc'[h] = "cleanUp" => tok[h] \notin loggedOut]_vars

\* Handler h is exchanging t.
Exchanging(h, t) == pc[h] \in Exchange /\ tok[h] = t

\* As long as no call has failed, no client loses its session: a token it holds
\* works until it is logged out, expires, or is exchanged for one it holds too.
KeepsSession ==
    failures = 0 =>
        \A t \in held \ loggedOut :
            \/ t \in rows
            \/ Expired(t)
            \/ \E h \in Handlers : Exchanging(h, t)
            \/ \E s \in held : parent[s] = t

\* Why OneSuccessor and LogoutStopsExchange hold (their strengthening): a token
\* that is being exchanged, has been exchanged or was logged out has no row.
SpentHaveNoRow ==
    /\ rows \cap loggedOut = {}
    /\ \A t \in created : parent[t] \notin rows
    /\ \A t \in Tokens : parent[t] # NoToken => t \in created /\ parent[t] \in created
    /\ \A h \in Handlers : pc[h] \in {"redeem", "dropExpired"} => tok[h] \in created
    /\ \A h \in Handlers : \A t \in Tokens :
          Exchanging(h, t) => /\ t \in created \ rows
                              /\ \A s \in created : parent[s] # t
                              /\ \A g \in Handlers : Exchanging(g, t) => g = h

=============================================================================
