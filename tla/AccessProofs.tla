---------------------------- MODULE AccessProofs ----------------------------
(***************************************************************************)
(* Who may do what, for any number of accounts, requests and refresh       *)
(* tokens, any token life and any latency: the power of an admin and the   *)
(* access of a user end in bounded time, and roles are changed by admins.  *)
(***************************************************************************)
EXTENDS Access, TLAPS

USE DEF vars, slotVars
USE UsersType, TimesType

-----------------------------------------------------------------------------
(* The guards *)

LEMMA CatalogueIsGuarded == \A r \in CatalogueWrites : Route(r) = AdminOnly
<1> SUFFICES ASSUME NEW r \in CatalogueWrites PROVE Route(r) = AdminOnly
  OBVIOUS
<1>1. CASE r \in {"events"} \X {"create", "update", "updateStatus", "remove"}
  <2>1. r[1] = "events" /\ r[2] \in {"create", "update", "updateStatus", "remove"}
    BY <1>1
  <2>2. Route(r) = EventRoutes[r[2]]
    BY <2>1 DEF Route, Api
  <2> QED BY <2>1, <2>2 DEF EventRoutes
<1>2. CASE r \in {"categories"} \X {"create", "remove"}
  <2>1. r[1] = "categories" /\ r[2] \in {"create", "remove"}
    BY <1>2
  <2>2. Route(r) = CategoryRoutes[r[2]]
    BY <2>1 DEF Route, Api
  <2> QED BY <2>1, <2>2 DEF CategoryRoutes
<1> QED BY <1>1, <1>2 DEF CatalogueWrites

LEMMA OrdersAreGuarded == \A r \in OwnOrders : Route(r) = SignedIn
<1> SUFFICES ASSUME NEW r \in OwnOrders PROVE Route(r) = SignedIn
  OBVIOUS
<1>1. r[1] = "orders" /\ r[2] \in {"checkout", "refund", "findMyOrders", "findOne"}
  BY DEF OwnOrders
<1>2. Route(r) = OrderRoutes[r[2]]
  BY <1>1 DEF Route, Api
<1> QED BY <1>1, <1>2 DEF OrderRoutes

LEMMA RoleWriteIsGuarded == Route(RoleWrite) = AdminOnly
BY DEF Route, RoleWrite, Api, AuthRoutes

\* What a request needs to get past the guards.
LEMMA OnlyAdminsPass ==
    ASSUME NEW t, NEW r, Route(r) = AdminOnly, Admits(r, t)
    PROVE  now < t.exp /\ t.role = "ADMIN"
BY DEF Admits, AdminOnly, NotExpired, HasRole

LEMMA OnlySignedInPass ==
    ASSUME NEW t, NEW r, Route(r) = SignedIn, Admits(r, t)
    PROVE  now < t.exp
BY DEF Admits, SignedIn, NotExpired

-----------------------------------------------------------------------------
(* Types *)

LEMMA InitTyped == Init => TypeOK
<1> SUFFICES ASSUME Init PROVE TypeOK
  OBVIOUS
<1>1. role \in [Users -> Role \cup {"NONE"}] /\ rows \in [Rows -> Users \cup {NoUser}]
  BY DEF Init, Role
<1>2. /\ created \in 0..MaxRows /\ now \in Nat /\ held \subseteq Token
      /\ pc \in [Handlers -> Steps] /\ claim \in [Handlers -> Role]
      /\ \A h \in Handlers : pc[h] = "idle"
  BY DEF Init, Role, Steps
<1>3. /\ who \in [Handlers -> Users \cup {NoUser}] /\ exp \in [Handlers -> Nat]
      /\ arg \in [Handlers -> Rows \cup {0}] /\ target \in [Handlers -> Users \cup {NoUser}]
      /\ since \in [Handlers -> Nat]
  BY DEF Init
<1>4. lastAdmin \in [Users -> Int] /\ lastSession \in [Users -> Int]
  BY DEF Init
<1> QED BY <1>1, <1>2, <1>3, <1>4 DEF TypeOK

LEMMA RecordTyped ==
    ASSUME TypeOK, Record, now' \in Nat
    PROVE  lastAdmin' \in [Users -> Int] /\ lastSession' \in [Users -> Int]
BY DEF TypeOK, Record

\* The owner of a refresh token, or of one about to be made, has an account.
OwnersExist ==
    /\ \A i \in Rows : rows[i] # NoUser => role[rows[i]] \in Role
    /\ \A h \in Handlers :
          pc[h] \in {"compare", "redeem", "saveToken"} => role[who[h]] \in Role

LEMMA ActTyped ==
    ASSUME TypeOK, OwnersExist, NEW h \in Handlers, Act(h), Record PROVE TypeOK'
<1>0. now' = now
  BY DEF Act, Register, CreateUser, Login, Compared, Refresh, Redeem, SaveToken,
         ChangeRole, UpdateRole, Request, Answer, Rejects
<1>1. lastAdmin' \in [Users -> Int] /\ lastSession' \in [Users -> Int]
  BY <1>0, RecordTyped DEF TypeOK
<1> USE <1>1 DEF TypeOK, Steps, AuthSteps, RouteSteps
<1>2. ASSUME NEW u \in Users, Register(h, u) PROVE TypeOK'
  BY <1>2 DEF Register, Enter, Role
<1>3. ASSUME NEW u \in Users, Login(h, u) PROVE TypeOK'
  BY <1>3 DEF Login, Enter
<1>4. ASSUME NEW i \in Rows, Refresh(h, i) PROVE TypeOK'
  <2>1. rows[i] \in Users /\ role[rows[i]] \in Role
    BY <1>4 DEF Refresh, OwnersExist
  <2> QED BY <1>4, <2>1 DEF Refresh, Enter
<1>5. CASE CreateUser(h)
  BY <1>5 DEF CreateUser, Sign, Return, Role
<1>6. CASE Compared(h)
  BY <1>6 DEF Compared, Sign
<1>7. CASE Redeem(h)
  BY <1>7 DEF Redeem, Sign, Return, Role
<1>8. CASE SaveToken(h)
  <2>1. created' \in Rows /\ who[h] \in Users
    BY <1>8 DEF SaveToken, Rows
  <2>2. held' \subseteq Token
    BY <1>8, <2>1 DEF SaveToken, Token
  <2> QED BY <1>8, <2>1, <2>2 DEF SaveToken, Return, Role, Rows
<1>9. CASE UpdateRole(h)
  BY <1>9 DEF UpdateRole, Return, Role
<1>10. ASSUME NEW t \in held, NEW u \in Users, NEW r \in Role, ChangeRole(h, t, u, r)
       PROVE  TypeOK'
  <2>1. t.user \in Users
    BY DEF Token
  <2> QED BY <1>10, <2>1 DEF ChangeRole, Enter
<1>11. ASSUME NEW t \in held, NEW r \in CatalogueWrites \cup OwnOrders, Request(h, t, r)
       PROVE  TypeOK'
  <2>1. t.user \in Users /\ t.role \in Role
    BY DEF Token
  <2> QED BY <1>11, <2>1 DEF Request, Enter
<1>12. CASE Answer(h) \/ Rejects(h)
  BY <1>12 DEF Answer, Rejects, Return, Role
<1> QED BY <1>2, <1>3, <1>4, <1>5, <1>6, <1>7, <1>8, <1>9, <1>10, <1>11, <1>12 DEF Act

LEMMA OwnersKept == TypeOK /\ OwnersExist /\ [Next]_vars => OwnersExist'
<1> SUFFICES ASSUME TypeOK, OwnersExist, [Next]_vars PROVE OwnersExist'
  OBVIOUS
<1> USE DEF TypeOK, OwnersExist
<1>1. ASSUME NEW h \in Handlers, NEW u \in Users, Register(h, u) \/ Login(h, u)
      PROVE  OwnersExist'
  BY <1>1 DEF Register, Login, Enter, Role
<1>2. ASSUME NEW h \in Handlers, NEW i \in Rows, Refresh(h, i) PROVE OwnersExist'
  BY <1>2 DEF Refresh, Enter
<1>3. ASSUME NEW h \in Handlers, CreateUser(h) PROVE OwnersExist'
  <2>1. role' \in [Users -> Role \cup {"NONE"}] /\ \A u \in Users : role[u] \in Role => role'[u] \in Role
    BY <1>3 DEF CreateUser, Role
  <2>2. pc'[h] = "saveToken" => role'[who'[h]] \in Role
    BY <1>3 DEF CreateUser, Sign, Return
  <2>3. UNCHANGED rows
    BY <1>3 DEF CreateUser
  <2>4. \A k \in Handlers : k # h => pc'[k] = pc[k] /\ who'[k] = who[k]
    BY <1>3 DEF CreateUser, Sign, Return
  <2>5. pc'[h] \in {"idle", "saveToken"}
    BY <1>3 DEF CreateUser, Sign, Return
  <2> QED BY <2>1, <2>2, <2>3, <2>4, <2>5
<1>4. ASSUME NEW h \in Handlers, Compared(h) PROVE OwnersExist'
  BY <1>4 DEF Compared, Sign
<1>5. ASSUME NEW h \in Handlers, Redeem(h) PROVE OwnersExist'
  BY <1>5 DEF Redeem, Sign, Return
<1>6. ASSUME NEW h \in Handlers, SaveToken(h) PROVE OwnersExist'
  BY <1>6 DEF SaveToken, Return, Rows
<1>7. ASSUME NEW h \in Handlers, UpdateRole(h) PROVE OwnersExist'
  <2>1. \A u \in Users : role[u] \in Role => role'[u] \in Role
    BY <1>7 DEF UpdateRole
  <2>2. /\ UNCHANGED rows /\ pc'[h] = "idle"
        /\ \A k \in Handlers : k # h => pc'[k] = pc[k] /\ who'[k] = who[k]
    BY <1>7 DEF UpdateRole, Return
  <2> QED BY <2>1, <2>2
<1>8. ASSUME NEW h \in Handlers, NEW t \in held, NEW u \in Users, NEW r \in Role,
             ChangeRole(h, t, u, r)
      PROVE  OwnersExist'
  BY <1>8 DEF ChangeRole, Enter
<1>9. ASSUME NEW h \in Handlers, NEW t \in held, NEW r \in CatalogueWrites \cup OwnOrders,
             Request(h, t, r)
      PROVE  OwnersExist'
  BY <1>9 DEF Request, Enter
<1>10. ASSUME NEW h \in Handlers, Answer(h) \/ Rejects(h) PROVE OwnersExist'
  BY <1>10 DEF Answer, Rejects, Return
<1>11. ASSUME NEW i \in Rows, Logout(i) PROVE OwnersExist'
  BY <1>11 DEF Logout
<1>12. CASE Tick \/ UNCHANGED vars
  BY <1>12 DEF Tick
<1> QED BY <1>1, <1>2, <1>3, <1>4, <1>5, <1>6, <1>7, <1>8, <1>9, <1>10, <1>11, <1>12
        DEF Next, Act

LEMMA TypeKept == TypeOK /\ OwnersExist /\ [Next]_vars => TypeOK'
<1> SUFFICES ASSUME TypeOK, OwnersExist, [Next]_vars PROVE TypeOK'
  OBVIOUS
<1>1. ASSUME NEW h \in Handlers, Act(h), Record PROVE TypeOK'
  BY <1>1, ActTyped
<1>2. ASSUME NEW i \in Rows, Logout(i), Record PROVE TypeOK'
  BY <1>2, RecordTyped DEF Logout, TypeOK
<1>3. CASE Tick /\ Record
  BY <1>3, RecordTyped DEF Tick, TypeOK
<1>4. CASE UNCHANGED vars
  BY <1>4 DEF TypeOK
<1> QED BY <1>1, <1>2, <1>3, <1>4 DEF Next

LEMMA TypedAlways == Spec => [](TypeOK /\ OwnersExist)
<1>1. Init => OwnersExist
  BY DEF Init, OwnersExist
<1> QED BY <1>1, InitTyped, TypeKept, OwnersKept, PTL DEF Spec

\* Every variable keeps its type.
THEOREM TypeCorrect == Spec => []TypeOK
BY TypedAlways, PTL

-----------------------------------------------------------------------------
(* Histories *)

\* An account that is ADMIN has been so until now.
HistoryOK ==
    /\ \A u \in Users : role[u] = "ADMIN" => lastAdmin[u] = now
    /\ \A u \in Users : lastAdmin[u] <= now /\ lastSession[u] <= now

\* What the request in slot h may still do, and since when.
SlotOK(h) ==
    /\ pc[h] # "idle" => since[h] <= now /\ now <= since[h] + MaxLatency
    /\ pc[h] \in {"compare", "redeem"} /\ claim[h] = "ADMIN"
         => since[h] <= lastAdmin[who[h]]
    /\ pc[h] = "create" => claim[h] = "CUSTOMER"
    /\ pc[h] = "saveToken" =>
         /\ exp[h] <= now + Life
         /\ claim[h] = "ADMIN" => exp[h] <= lastAdmin[who[h]] + MaxLatency + Life
    /\ pc[h] \in {"writeCatalogue", "updateRole"}
         => since[h] < lastAdmin[who[h]] + Life + MaxLatency
    /\ pc[h] \in RouteSteps => since[h] < lastSession[who[h]] + Life

\* How long an access token lasts after its owner's session and power ended.
HeldOK ==
    \A t \in held :
        /\ t.exp <= lastSession[t.user] + Life
        /\ t.role = "ADMIN" => t.exp <= lastAdmin[t.user] + MaxLatency + Life

AccessInv == HistoryOK /\ HeldOK /\ \A h \in Handlers : SlotOK(h)

\* Histories only grow.
Later ==
    /\ now' >= now
    /\ \A u \in Users : lastAdmin'[u] >= lastAdmin[u] /\ lastSession'[u] >= lastSession[u]

LEMMA RecordKeeps ==
    ASSUME TypeOK, HistoryOK, Record, now' \in Nat, now' >= now
    PROVE  HistoryOK' /\ Later
<1>1. \A u \in Users : lastAdmin'[u] = IF role'[u] = "ADMIN" THEN now' ELSE lastAdmin[u]
  BY DEF Record
<1>2. \A u \in Users : lastSession'[u] = now' \/ lastSession'[u] = lastSession[u]
  BY DEF Record
<1>3. \A u \in Users : lastAdmin[u] \in Int /\ lastSession[u] \in Int /\ now \in Nat
  BY DEF TypeOK
<1> QED BY <1>1, <1>2, <1>3 DEF HistoryOK, Later

\* A slot that no step touches keeps what it may do, if it is not overdue.
LEMMA OthersKept ==
    ASSUME TypeOK, NEW k \in Handlers, SlotOK(k), Later, now' \in Nat,
           lastAdmin' \in [Users -> Int], lastSession' \in [Users -> Int],
           pc'[k] = pc[k], who'[k] = who[k], claim'[k] = claim[k], exp'[k] = exp[k],
           since'[k] = since[k],
           pc[k] # "idle" => now' <= since[k] + MaxLatency
    PROVE  SlotOK(k)'
<1>1. CASE pc[k] = "idle"
  BY <1>1 DEF SlotOK, RouteSteps
<1>2. CASE pc[k] # "idle"
  <2>1. who[k] \in Users /\ since[k] \in Nat /\ exp[k] \in Nat /\ now \in Nat
    BY <1>2 DEF TypeOK
  <2>2. /\ lastAdmin[who[k]] \in Int /\ lastAdmin'[who[k]] \in Int
        /\ lastSession[who[k]] \in Int /\ lastSession'[who[k]] \in Int
        /\ lastAdmin'[who[k]] >= lastAdmin[who[k]]
        /\ lastSession'[who[k]] >= lastSession[who[k]]
    BY <2>1 DEF TypeOK, Later
  <2> DEFINE w == who[k]
             a == lastAdmin[w]
             a2 == lastAdmin'[w]
             s == lastSession[w]
             s2 == lastSession'[w]
  <2>3. /\ pc'[k] # "idle" => since'[k] <= now' /\ now' <= since'[k] + MaxLatency
        /\ pc'[k] \in {"compare", "redeem"} /\ claim'[k] = "ADMIN" => since'[k] <= a2
        /\ pc'[k] = "create" => claim'[k] = "CUSTOMER"
    BY <1>2, <2>1, <2>2 DEF SlotOK, Later
  <2>4. pc'[k] = "saveToken" =>
          /\ exp'[k] <= now' + Life
          /\ claim'[k] = "ADMIN" => exp'[k] <= a2 + MaxLatency + Life
    BY <2>1, <2>2 DEF SlotOK, Later
  <2>5. /\ pc'[k] \in {"writeCatalogue", "updateRole"} => since'[k] < a2 + Life + MaxLatency
        /\ pc'[k] \in RouteSteps => since'[k] < s2 + Life
    BY <2>1, <2>2 DEF SlotOK
  <2> QED BY <2>3, <2>4, <2>5 DEF SlotOK
<1> QED BY <1>1, <1>2

\* Tokens that are held already stay within their bounds.
LEMMA HeldKept ==
    ASSUME TypeOK, HeldOK, Later, held' = held,
           lastAdmin' \in [Users -> Int], lastSession' \in [Users -> Int]
    PROVE  HeldOK'
<1> SUFFICES ASSUME NEW t \in held
             PROVE  /\ t.exp <= lastSession'[t.user] + Life
                    /\ t.role = "ADMIN" => t.exp <= lastAdmin'[t.user] + MaxLatency + Life
  BY DEF HeldOK
<1>1. t.user \in Users /\ t.exp \in Nat
  BY DEF TypeOK, Token
<1>2. /\ lastAdmin[t.user] \in Int /\ lastAdmin'[t.user] \in Int
      /\ lastSession[t.user] \in Int /\ lastSession'[t.user] \in Int
      /\ lastAdmin'[t.user] >= lastAdmin[t.user]
      /\ lastSession'[t.user] >= lastSession[t.user]
  BY <1>1 DEF TypeOK, Later
<1> QED BY <1>1, <1>2 DEF HeldOK

\* A handler's step leaves the other slots and the clock alone.
LEMMA ActIsLocal ==
    ASSUME TypeOK, NEW h \in Handlers, Act(h), NEW k \in Handlers, k # h
    PROVE  /\ pc'[k] = pc[k] /\ who'[k] = who[k] /\ claim'[k] = claim[k]
           /\ exp'[k] = exp[k] /\ since'[k] = since[k]
BY DEF TypeOK, Act, Register, CreateUser, Login, Compared, Refresh, Redeem, SaveToken,
       ChangeRole, UpdateRole, Request, Answer, Rejects, Enter, Return, Sign

\* The slot that acts, action by action.
LEMMA ActorKept ==
    ASSUME TypeOK, OwnersExist, AccessInv, NEW h \in Handlers, Act(h), Record,
           Later, HistoryOK', now' = now,
           lastAdmin' \in [Users -> Int], lastSession' \in [Users -> Int]
    PROVE  SlotOK(h)'
<1> USE DEF AccessInv
<1>0. now \in Nat /\ (pc[h] # "idle" => who[h] \in Users /\ since[h] \in Nat)
  BY DEF TypeOK
<1>a. \A u \in Users : /\ lastAdmin[u] \in Int /\ lastAdmin'[u] \in Int
                        /\ lastSession[u] \in Int /\ lastSession'[u] \in Int
                        /\ lastAdmin'[u] >= lastAdmin[u]
                        /\ lastSession'[u] >= lastSession[u]
  BY DEF TypeOK, Later
<1>b. ASSUME Return(h) PROVE SlotOK(h)'
  <2>1. pc'[h] = "idle"
    BY <1>b DEF Return, TypeOK
  <2> QED BY <2>1 DEF SlotOK, RouteSteps
<1>1. ASSUME NEW u \in Users, Register(h, u) PROVE SlotOK(h)'
  <2>1. pc'[h] = "create" /\ claim'[h] = "CUSTOMER" /\ since'[h] = now
    BY <1>1 DEF Register, Enter, TypeOK
  <2> QED BY <2>1, <1>0 DEF SlotOK, RouteSteps
<1>2. ASSUME NEW u \in Users, Login(h, u) PROVE SlotOK(h)'
  <2>1. /\ pc'[h] = "compare" /\ claim'[h] = role[u] /\ since'[h] = now /\ who'[h] = u
        /\ role' = role
    BY <1>2 DEF Login, Enter, TypeOK
  <2>2. role[u] = "ADMIN" => lastAdmin'[u] = now
    BY <2>1 DEF HistoryOK
  <2> QED BY <2>1, <2>2, <1>0 DEF SlotOK, RouteSteps
<1>3. ASSUME NEW i \in Rows, Refresh(h, i) PROVE SlotOK(h)'
  <2> DEFINE u == rows[i]
  <2>0. u \in Users
    BY <1>3 DEF Refresh, TypeOK
  <2>1. /\ pc'[h] = "redeem" /\ claim'[h] = role[u] /\ since'[h] = now /\ who'[h] = u
        /\ role' = role
    BY <1>3 DEF Refresh, Enter, TypeOK
  <2>2. role[u] = "ADMIN" => lastAdmin'[u] = now
    BY <2>0, <2>1 DEF HistoryOK
  <2> QED BY <2>1, <2>2, <1>0 DEF SlotOK, RouteSteps
<1>c. ASSUME Sign(h), pc[h] \in {"create", "compare", "redeem"},
             pc[h] = "create" => claim[h] = "CUSTOMER"
      PROVE  SlotOK(h)'
  <2>1. /\ pc'[h] = "saveToken" /\ exp'[h] = now + Life
        /\ claim'[h] = claim[h] /\ since'[h] = since[h] /\ who'[h] = who[h]
    BY <1>c DEF Sign, TypeOK
  <2>2. /\ who[h] \in Users /\ since[h] \in Nat
        /\ since[h] <= now /\ now <= since[h] + MaxLatency
        /\ claim[h] = "ADMIN" => since[h] <= lastAdmin[who[h]]
    BY <1>c, <1>0 DEF SlotOK
  <2>3. claim[h] = "ADMIN" => now + Life <= lastAdmin'[who[h]] + MaxLatency + Life
    BY <2>2, <1>a, <1>0
  <2> QED BY <2>1, <2>2, <2>3, <1>0 DEF SlotOK, RouteSteps
<1>4. CASE CreateUser(h) \/ Compared(h) \/ Redeem(h)
  <2>1. Sign(h) \/ Return(h)
    BY <1>4 DEF CreateUser, Compared, Redeem
  <2>2. pc[h] \in {"create", "compare", "redeem"}
    BY <1>4 DEF CreateUser, Compared, Redeem
  <2> QED BY <2>1, <2>2, <1>b, <1>c DEF SlotOK
<1>5. CASE SaveToken(h) \/ UpdateRole(h) \/ Answer(h) \/ Rejects(h)
  BY <1>5, <1>b DEF SaveToken, UpdateRole, Answer, Rejects
<1>d. ASSUME NEW t \in held, now < t.exp
      PROVE  /\ t.user \in Users
             /\ now < lastSession'[t.user] + Life
             /\ t.role = "ADMIN" => now < lastAdmin'[t.user] + Life + MaxLatency
  <2>1. t.user \in Users /\ t.exp \in Nat
    BY DEF TypeOK, Token
  <2> QED BY <2>1, <1>a, <1>d, <1>0 DEF HeldOK
<1>6. ASSUME NEW t \in held, NEW u \in Users, NEW r \in Role, ChangeRole(h, t, u, r)
      PROVE  SlotOK(h)'
  <2>1. now < t.exp /\ t.role = "ADMIN"
    BY <1>6, RoleWriteIsGuarded, OnlyAdminsPass DEF ChangeRole
  <2>2. pc'[h] = "updateRole" /\ since'[h] = now /\ who'[h] = t.user
    BY <1>6 DEF ChangeRole, Enter, TypeOK
  <2> QED BY <2>1, <2>2, <1>d, <1>0 DEF SlotOK, RouteSteps
<1>7. ASSUME NEW t \in held, NEW r \in CatalogueWrites, Request(h, t, r)
      PROVE  SlotOK(h)'
  <2>1. now < t.exp /\ t.role = "ADMIN"
    BY <1>7, CatalogueIsGuarded, OnlyAdminsPass DEF Request
  <2>2. pc'[h] = "writeCatalogue" /\ since'[h] = now /\ who'[h] = t.user
    BY <1>7 DEF Request, Enter, TypeOK
  <2> QED BY <2>1, <2>2, <1>d, <1>0 DEF SlotOK, RouteSteps
<1>8. ASSUME NEW t \in held, NEW r \in OwnOrders, r \notin CatalogueWrites, Request(h, t, r)
      PROVE  SlotOK(h)'
  <2>1. now < t.exp
    BY <1>8, OrdersAreGuarded, OnlySignedInPass DEF Request
  <2>2. pc'[h] = "serveOrders" /\ since'[h] = now /\ who'[h] = t.user
    BY <1>8 DEF Request, Enter, TypeOK
  <2> QED BY <2>1, <2>2, <1>d, <1>0 DEF SlotOK, RouteSteps
<1> QED BY <1>1, <1>2, <1>3, <1>4, <1>5, <1>6, <1>7, <1>8 DEF Act

\* A client gets an access token only with a refresh token.
LEMMA SavedHeldOK ==
    ASSUME TypeOK, AccessInv, NEW h \in Handlers, SaveToken(h), Record, Later,
           lastAdmin' \in [Users -> Int], lastSession' \in [Users -> Int]
    PROVE  HeldOK'
<1> DEFINE w == who[h]
           n == [user |-> w, role |-> claim[h], exp |-> exp[h]]
<1>1. w \in Users /\ exp[h] \in Nat /\ now \in Nat /\ pc[h] = "saveToken" /\ now' = now
  BY DEF SaveToken, TypeOK
<1>2. created' \in Rows /\ rows'[created'] = w
  BY DEF SaveToken, Rows, TypeOK
<1>3. lastSession'[w] = now
  BY <1>1, <1>2 DEF Record, HasSession
<1>4. /\ exp[h] <= lastSession'[w] + Life
      /\ claim[h] = "ADMIN" => exp[h] <= lastAdmin[w] + MaxLatency + Life
  BY <1>1, <1>3 DEF AccessInv, SlotOK
<1>5. claim[h] = "ADMIN" => exp[h] <= lastAdmin'[w] + MaxLatency + Life
  BY <1>1, <1>4 DEF Later, TypeOK
<1>6. held' = held \cup {n}
  BY DEF SaveToken
<1>7. ASSUME NEW t \in held
      PROVE  /\ t.exp <= lastSession'[t.user] + Life
             /\ t.role = "ADMIN" => t.exp <= lastAdmin'[t.user] + MaxLatency + Life
  <2>1. t.user \in Users /\ t.exp \in Nat
    BY DEF TypeOK, Token
  <2>2. /\ lastAdmin[t.user] \in Int /\ lastAdmin'[t.user] \in Int
        /\ lastSession[t.user] \in Int /\ lastSession'[t.user] \in Int
        /\ lastAdmin'[t.user] >= lastAdmin[t.user]
        /\ lastSession'[t.user] >= lastSession[t.user]
    BY <2>1 DEF TypeOK, Later
  <2> QED BY <2>1, <2>2 DEF AccessInv, HeldOK
<1> QED BY <1>4, <1>5, <1>6, <1>7 DEF HeldOK

LEMMA InvKept == TypeOK /\ OwnersExist /\ AccessInv /\ [Next]_vars => AccessInv'
<1> SUFFICES ASSUME TypeOK, OwnersExist, AccessInv, [Next]_vars PROVE AccessInv'
  OBVIOUS
<1>1. TypeOK'
  BY TypeKept
<1>2. /\ lastAdmin' \in [Users -> Int] /\ lastSession' \in [Users -> Int]
      /\ now \in Nat /\ now' \in Nat
  BY <1>1 DEF TypeOK
<1>3. ASSUME NEW h \in Handlers, Act(h), Record PROVE AccessInv'
  <2>0. now' = now
    BY <1>3 DEF Act, Register, CreateUser, Login, Compared, Refresh, Redeem, SaveToken,
           ChangeRole, UpdateRole, Request, Answer, Rejects
  <2>1. HistoryOK' /\ Later
    BY <1>2, <1>3, <2>0, RecordKeeps DEF AccessInv
  <2>2. SlotOK(h)'
    BY <1>2, <1>3, <2>0, <2>1, ActorKept
  <2>3. ASSUME NEW k \in Handlers, k # h PROVE SlotOK(k)'
    <3>1. /\ pc'[k] = pc[k] /\ who'[k] = who[k] /\ claim'[k] = claim[k]
          /\ exp'[k] = exp[k] /\ since'[k] = since[k]
      BY <1>3, <2>3, ActIsLocal
    <3>2. SlotOK(k) /\ (pc[k] # "idle" => now' <= since[k] + MaxLatency)
      BY <2>0 DEF AccessInv, SlotOK
    <3> QED BY <1>2, <2>1, <3>1, <3>2, OthersKept
  <2>4. HeldOK'
    <3>1. CASE SaveToken(h)
      BY <3>1, <1>2, <1>3, <2>1, SavedHeldOK
    <3>2. CASE held' = held
      BY <3>2, <1>2, <2>1, HeldKept DEF AccessInv
    <3> QED BY <3>1, <3>2, <1>3 DEF Act, Register, CreateUser, Login, Compared, Refresh,
               Redeem, ChangeRole, UpdateRole, Request, Answer, Rejects
  <2> QED BY <2>1, <2>2, <2>3, <2>4 DEF AccessInv
<1>4. ASSUME NEW i \in Rows, Logout(i), Record PROVE AccessInv'
  <2>1. HistoryOK' /\ Later
    BY <1>2, <1>4, RecordKeeps DEF AccessInv, Logout
  <2>2. ASSUME NEW k \in Handlers PROVE SlotOK(k)'
    <3>1. SlotOK(k) /\ (pc[k] # "idle" => now' <= since[k] + MaxLatency)
      BY <1>4 DEF AccessInv, SlotOK, Logout
    <3> QED BY <1>2, <1>4, <2>1, <3>1, OthersKept DEF Logout
  <2>3. HeldOK'
    BY <1>2, <1>4, <2>1, HeldKept DEF AccessInv, Logout
  <2> QED BY <2>1, <2>2, <2>3 DEF AccessInv
<1>5. ASSUME Tick, Record PROVE AccessInv'
  <2>1. HistoryOK' /\ Later
    BY <1>2, <1>5, RecordKeeps DEF AccessInv, Tick
  <2>2. ASSUME NEW k \in Handlers PROVE SlotOK(k)'
    <3>1. SlotOK(k) /\ (pc[k] # "idle" => now' <= since[k] + MaxLatency)
      BY <1>2, <1>5 DEF AccessInv, Tick, TypeOK
    <3> QED BY <1>2, <1>5, <2>1, <3>1, OthersKept DEF Tick
  <2>3. HeldOK'
    BY <1>2, <1>5, <2>1, HeldKept DEF AccessInv, Tick
  <2> QED BY <2>1, <2>2, <2>3 DEF AccessInv
<1>6. CASE UNCHANGED vars
  BY <1>6 DEF AccessInv, HistoryOK, HeldOK, SlotOK
<1> QED BY <1>3, <1>4, <1>5, <1>6 DEF Next

LEMMA InvAlways == Spec => [](TypeOK /\ OwnersExist /\ AccessInv)
<1>1. Init => AccessInv
  <2> SUFFICES ASSUME Init PROVE AccessInv
    OBVIOUS
  <2>1. HistoryOK
    BY DEF Init, HistoryOK
  <2>2. HeldOK /\ \A h \in Handlers : SlotOK(h)
    BY DEF Init, HeldOK, SlotOK, RouteSteps
  <2> QED BY <2>1, <2>2 DEF AccessInv
<1> QED BY <1>1, InvKept, TypedAlways, PTL DEF Spec

\* Nobody gets to change the catalogue or a role later than a token's life and
\* a request's latency after having last been ADMIN.
THEOREM PowerEnds == Spec => []PowerIsRecent
<1>1. AccessInv => PowerIsRecent
  BY DEF AccessInv, SlotOK, PowerIsRecent
<1> QED BY <1>1, InvAlways, PTL

\* The API serves nobody who had no session within a token's life.
THEOREM AccessEnds == Spec => []AccessEndsWithSession
<1>1. AccessInv => AccessEndsWithSession
  BY DEF AccessInv, SlotOK, AccessEndsWithSession
<1> QED BY <1>1, InvAlways, PTL

\* Only a changeRole of an admin changes the role of an account: a second
\* registration of its email never does.
THEOREM RolesAreKept == Spec => RoleKept
<1>1. TypeOK /\ [Next]_vars =>
        [\A u \in Users :
           role[u] # "NONE" /\ role'[u] # role[u]
             => \E h \in Handlers : pc[h] = "updateRole" /\ target[h] = u]_vars
  <2> SUFFICES ASSUME TypeOK, Next, NEW u \in Users, role[u] # "NONE", role'[u] # role[u]
               PROVE  \E h \in Handlers : pc[h] = "updateRole" /\ target[h] = u
    OBVIOUS
  <2>1. PICK h \in Handlers : CreateUser(h) \/ UpdateRole(h)
    BY DEF Next, Act, Register, Login, Compared, Refresh, Redeem, SaveToken,
           ChangeRole, Request, Answer, Rejects, Logout, Tick
  <2>2. ~CreateUser(h)
    BY DEF CreateUser, TypeOK
  <2>3. UpdateRole(h)
    BY <2>1, <2>2
  <2> QED BY <2>3 DEF UpdateRole, TypeOK
<1> QED BY <1>1, TypedAlways, PTL DEF Spec, RoleKept
=============================================================================
