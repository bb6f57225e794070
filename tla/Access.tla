------------------------------- MODULE Access -------------------------------
(***************************************************************************)
(* Who may do what, and for how long: accounts and their roles, the access *)
(* tokens signed by register, login and refresh, and the guards in front   *)
(* of every route.  An access token carries the role its handler read, and *)
(* no request looks the role up again.                                     *)
(*                                                                         *)
(* A handler in flight is a slot h with the await it has reached in pc[h]. *)
(* How refresh tokens rotate and expire is the subject of Sessions; here a *)
(* row of refresh_tokens is its number and its owner.                      *)
(***************************************************************************)
EXTENDS Integers, FiniteSets

CONSTANTS
    Users,        \* the accounts, one per normalized email
    Seeded,       \* those the database starts with, all ADMIN
    NoUser,
    Handlers,     \* HTTP requests that can be in flight at once
    Life,         \* ACCESS_TOKEN_EXPIRES_IN, in ticks
    MaxLatency,   \* bound: ticks a request stays in flight
    MaxRows,      \* bound: refresh tokens that are created
    MaxTime       \* bound: ticks

ASSUME UsersType == Seeded \subseteq Users /\ NoUser \notin Users
ASSUME TimesType == /\ Life \in Nat \ {0} /\ MaxLatency \in Nat
                    /\ MaxRows \in Nat /\ MaxTime \in Nat

Role == {"CUSTOMER", "ADMIN"}
Rows == 1..MaxRows

VARIABLES
    role,         \* users.role; "NONE" without a row
    rows,         \* the owner of each refresh token; NoUser once redeemed
    created,      \* refresh tokens created so far
    held,         \* access tokens that clients hold
    pc,           \* the await each handler has reached
    who,          \* the user it serves
    claim,        \* the role it is going to sign, or to set
    exp,          \* the expiry of the token it has signed
    arg,          \* the refresh token it redeems
    target,       \* the user whose role it changes
    since,        \* when it was admitted
    now,
    lastAdmin,    \* history: when each user was last ADMIN
    lastSession   \* history: when each user last had a refresh token

slotVars == <<pc, who, claim, exp, arg, target, since>>
vars == <<role, rows, created, held, slotVars, now, lastAdmin, lastSession>>

Token == [user : Users, role : Role, exp : Nat]

-----------------------------------------------------------------------------
(* The routes and their guards *)

Public == [guards |-> {}, roles |-> {}]
SignedIn == [guards |-> {"JwtAuthGuard"}, roles |-> {}]
AdminOnly == [guards |-> {"JwtAuthGuard", "RolesGuard"}, roles |-> {"ADMIN"}]
\* Mutation: @Roles without the guard that reads it.
RolesUnread == [guards |-> {"JwtAuthGuard"}, roles |-> {"ADMIN"}]

AuthRoutes ==
    [register |-> Public, login |-> Public, refresh |-> Public, logout |-> Public,
     changeRole |-> AdminOnly]

EventRoutes ==
    [create |-> AdminOnly, findAll |-> Public, findOne |-> Public, update |-> AdminOnly,
     updateStatus |-> AdminOnly, remove |-> AdminOnly]

CategoryRoutesUnread ==
    [create |-> AdminOnly, findByEvent |-> Public, remove |-> RolesUnread]
CategoryRoutes ==
    [create |-> AdminOnly, findByEvent |-> Public, remove |-> AdminOnly]

\* The guard of the controller stands in front of each of its routes.
OrderRoutes ==
    [checkout |-> SignedIn, refund |-> SignedIn, findMyOrders |-> SignedIn,
     findOne |-> SignedIn]

Api == [auth |-> AuthRoutes, events |-> EventRoutes,
        categories |-> CategoryRoutes, orders |-> OrderRoutes]
Route(r) == Api[r[1]][r[2]]

\* Whatever its guards say, this is what the service behind a route does:
\* change the catalogue, change a role, serve the user's own orders.
CatalogueWrites == ({"events"} \X {"create", "update", "updateStatus", "remove"})
                     \cup ({"categories"} \X {"create", "remove"})
RoleWrite == <<"auth", "changeRole">>
OwnOrders == {"orders"} \X {"checkout", "refund", "findMyOrders", "findOne"}

\* Mutation: ignoreExpiration.
AnyAge(t) == TRUE
\* JwtStrategy: ignoreExpiration is false.
NotExpired(t) == now < t.exp

\* RolesGuard.canActivate: a route without roles is open to it; a request that
\* no JwtAuthGuard gave a user has none of the roles.
HasRole(g, t) == g.roles = {} \/ ("JwtAuthGuard" \in g.guards /\ t.role \in g.roles)

Admits(r, t) ==
    /\ "JwtAuthGuard" \in Route(r).guards => NotExpired(t)
    /\ "RolesGuard" \in Route(r).guards => HasRole(Route(r), t)

-----------------------------------------------------------------------------
(* Helpers *)

AuthSteps == {"create", "compare", "redeem", "saveToken"}
RouteSteps == {"writeCatalogue", "updateRole", "serveOrders"}
Steps == {"idle"} \cup AuthSteps \cup RouteSteps

\* Slot h starts to serve user u, with what it has read.
Enter(h, u, step, c) ==
    /\ pc[h] = "idle"
    /\ pc' = [pc EXCEPT ![h] = step]
    /\ who' = [who EXCEPT ![h] = u]
    /\ claim' = [claim EXCEPT ![h] = c]
    /\ since' = [since EXCEPT ![h] = now]
    /\ UNCHANGED exp

Return(h) ==
    /\ pc' = [pc EXCEPT ![h] = "idle"]
    /\ who' = [who EXCEPT ![h] = NoUser]
    /\ claim' = [claim EXCEPT ![h] = "CUSTOMER"]
    /\ exp' = [exp EXCEPT ![h] = 0]
    /\ arg' = [arg EXCEPT ![h] = 0]
    /\ target' = [target EXCEPT ![h] = NoUser]
    /\ since' = [since EXCEPT ![h] = 0]

\* signAccessToken, and on to generateRefreshToken.
Sign(h) ==
    /\ exp' = [exp EXCEPT ![h] = now + Life]
    /\ pc' = [pc EXCEPT ![h] = "saveToken"]
    /\ UNCHANGED <<who, claim, arg, target, since>>

HasSession(u) == \E i \in Rows : rows[i] = u

Init ==
    /\ role = [u \in Users |-> IF u \in Seeded THEN "ADMIN" ELSE "NONE"]
    /\ rows = [i \in Rows |-> NoUser]
    /\ created = 0 /\ now = 0
    /\ held = {}
    /\ pc = [h \in Handlers |-> "idle"]
    /\ who = [h \in Handlers |-> NoUser]
    /\ claim = [h \in Handlers |-> "CUSTOMER"]
    /\ exp = [h \in Handlers |-> 0]
    /\ arg = [h \in Handlers |-> 0]
    /\ target = [h \in Handlers |-> NoUser]
    /\ since = [h \in Handlers |-> 0]
    \* far enough in the past: never
    /\ lastAdmin = [u \in Users |-> IF u \in Seeded THEN 0 ELSE -(Life + MaxLatency)]
    /\ lastSession = [u \in Users |-> -Life]

-----------------------------------------------------------------------------
(* AuthService *)

\* register: no row with this email, then bcrypt.hash.
Register(h, u) ==
    /\ role[u] = "NONE"
    /\ Enter(h, u, "create", "CUSTOMER")
    /\ UNCHANGED <<role, rows, created, held, arg, target, now>>

\* Mutation: an upsert.
UpsertUser(h) ==
    /\ pc[h] = "create"
    /\ role' = [role EXCEPT ![who[h]] = claim[h]]
    /\ Sign(h)
    /\ UNCHANGED <<rows, created, held, now>>
\* user.create: the unique index on email refuses a second row.
CreateUser(h) ==
    /\ pc[h] = "create"
    /\ IF role[who[h]] = "NONE"
       THEN role' = [role EXCEPT ![who[h]] = claim[h]] /\ Sign(h)
       ELSE UNCHANGED role /\ Return(h)
    /\ UNCHANGED <<rows, created, held, now>>

\* Mutation: no check that the user was found.
LoginUnchecked(h, u) ==
    /\ Enter(h, u, "compare", role[u])
    /\ UNCHANGED <<role, rows, created, held, arg, target, now>>
\* login: the user is read, then bcrypt.compare.  A wrong password leaves no
\* trace, so it is no step.
Login(h, u) ==
    /\ role[u] # "NONE"
    /\ Enter(h, u, "compare", role[u])
    /\ UNCHANGED <<role, rows, created, held, arg, target, now>>

Compared(h) ==
    /\ pc[h] = "compare"
    /\ Sign(h)
    /\ UNCHANGED <<role, rows, created, held, now>>

\* refresh: the refresh token with its user.
Refresh(h, i) ==
    /\ rows[i] # NoUser
    /\ Enter(h, rows[i], "redeem", role[rows[i]])
    /\ arg' = [arg EXCEPT ![h] = i]
    /\ UNCHANGED <<role, rows, created, held, target, now>>

\* deleteMany: only one request redeems a token.
Redeem(h) ==
    /\ pc[h] = "redeem"
    /\ rows' = [rows EXCEPT ![arg[h]] = NoUser]
    /\ IF rows[arg[h]] = NoUser THEN Return(h) ELSE Sign(h)
    /\ UNCHANGED <<role, created, held, now>>

\* The refresh token is stored, then the client gets both tokens.
SaveToken(h) ==
    /\ pc[h] = "saveToken"
    /\ created < MaxRows
    /\ created' = created + 1
    /\ rows' = [rows EXCEPT ![created'] = who[h]]
    /\ held' = held \cup {[user |-> who[h], role |-> claim[h], exp |-> exp[h]]}
    /\ Return(h)
    /\ UNCHANGED <<role, now>>

\* logout; refresh and generateRefreshToken remove a row that has expired in the
\* same way.
Logout(i) ==
    /\ rows[i] # NoUser
    /\ rows' = [rows EXCEPT ![i] = NoUser]
    /\ UNCHANGED <<role, created, held, slotVars, now>>

\* changeRole: the target is read; it must exist and have another role.
ChangeRole(h, t, u, r) ==
    /\ t \in held /\ Admits(RoleWrite, t)
    /\ role[u] \notin {"NONE", r}
    /\ Enter(h, t.user, "updateRole", r)
    /\ target' = [target EXCEPT ![h] = u]
    /\ UNCHANGED <<role, rows, created, held, arg, now>>

UpdateRole(h) ==
    /\ pc[h] = "updateRole"
    /\ role' = [role EXCEPT ![target[h]] = claim[h]]
    /\ Return(h)
    /\ UNCHANGED <<rows, created, held, now>>

-----------------------------------------------------------------------------
(* Requests to the other guarded routes *)

\* The guards let the request through to its service.
Request(h, t, r) ==
    /\ t \in held /\ Admits(r, t)
    /\ Enter(h, t.user, IF r \in CatalogueWrites THEN "writeCatalogue" ELSE "serveOrders", t.role)
    /\ UNCHANGED <<role, rows, created, held, arg, target, now>>

\* What it does there is the subject of EventsCatalog and Orders.
Answer(h) ==
    /\ pc[h] \in {"writeCatalogue", "serveOrders"}
    /\ Return(h)
    /\ UNCHANGED <<role, rows, created, held, now>>

\* The awaited call rejects, or the process dies under the request.
Rejects(h) ==
    /\ pc[h] # "idle"
    /\ Return(h)
    /\ UNCHANGED <<role, rows, created, held, now>>

\* Time passes, but no request stays in flight for longer than MaxLatency.
Tick ==
    /\ now < MaxTime
    /\ \A h \in Handlers : pc[h] # "idle" => now < since[h] + MaxLatency
    /\ now' = now + 1
    /\ UNCHANGED <<role, rows, created, held, slotVars>>

\* The history variables only record.
Record ==
    /\ lastAdmin' = [u \in Users |-> IF role'[u] = "ADMIN" THEN now' ELSE lastAdmin[u]]
    /\ lastSession' = [u \in Users |->
                         IF HasSession(u)' THEN now' ELSE lastSession[u]]

Act(h) ==
    \/ \E u \in Users : Register(h, u) \/ Login(h, u)
    \/ \E i \in Rows : Refresh(h, i)
    \/ CreateUser(h) \/ Compared(h) \/ Redeem(h) \/ SaveToken(h) \/ UpdateRole(h)
    \/ \E t \in held, u \in Users, r \in Role : ChangeRole(h, t, u, r)
    \/ \E t \in held, r \in CatalogueWrites \cup OwnOrders : Request(h, t, r)
    \/ Answer(h) \/ Rejects(h)

Next ==
    /\ \/ \E h \in Handlers : Act(h)
       \/ \E i \in Rows : Logout(i)
       \/ Tick
    /\ Record

Spec == Init /\ [][Next]_vars

-----------------------------------------------------------------------------
(* Properties *)

\* Every variable has its type.
TypeOK ==
    /\ role \in [Users -> Role \cup {"NONE"}]
    /\ rows \in [Rows -> Users \cup {NoUser}]
    /\ created \in 0..MaxRows /\ now \in Nat
    /\ held \subseteq Token
    /\ pc \in [Handlers -> Steps]
    /\ who \in [Handlers -> Users \cup {NoUser}]
    /\ \A h \in Handlers : pc[h] # "idle" => who[h] \in Users
    /\ claim \in [Handlers -> Role]
    /\ exp \in [Handlers -> Nat]
    /\ arg \in [Handlers -> Rows \cup {0}]
    /\ \A h \in Handlers : pc[h] = "redeem" => arg[h] \in Rows
    /\ target \in [Handlers -> Users \cup {NoUser}]
    /\ \A h \in Handlers : pc[h] = "updateRole" => target[h] \in Users
    /\ since \in [Handlers -> Nat]
    /\ lastAdmin \in [Users -> Int]
    /\ lastSession \in [Users -> Int]

\* Nobody gets to change the catalogue or a role who has not been ADMIN lately:
\* a demotion is felt once the tokens signed until then, and those signed from
\* a row read before it, have expired.
PowerIsRecent ==
    \A h \in Handlers :
        pc[h] \in {"writeCatalogue", "updateRole"}
            => since[h] < lastAdmin[who[h]] + Life + MaxLatency

\* The API serves nobody on a token who had no session within a token's life:
\* once the last refresh token of a user is gone, the access tokens follow.
AccessEndsWithSession ==
    \A h \in Handlers :
        pc[h] \in RouteSteps => since[h] < lastSession[who[h]] + Life

\* Whatever registrations and role changes interleave, an account keeps its
\* role until a changeRole of an admin writes it.
RoleKept ==
    [][\A u \in Users :
          role[u] # "NONE" /\ role'[u] # role[u]
              => \E h \in Handlers : pc[h] = "updateRole" /\ target[h] = u]_vars

=============================================================================
