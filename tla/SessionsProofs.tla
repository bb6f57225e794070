--------------------------- MODULE SessionsProofs ---------------------------
(***************************************************************************)
(* A refresh token is exchanged once, whatever requests present it and     *)
(* whatever is cut off: the row that Redeem deletes is the token's one     *)
(* chance.                                                                 *)
(***************************************************************************)
EXTENDS Sessions, TLAPS

USE DEF vars, db, clients, procs

LEMMA StepNames == Exchange \subseteq Steps /\ {"idle", "createUser", "dropExpired", "redeem"} \subseteq Steps
BY DEF Steps, Exchange

\* Every variable has its type, for any users, tokens and handlers.
THEOREM SessionsTyped == Spec => []TypeOK
<1>1. Init => TypeOK
  BY StepNames DEF Init, TypeOK
<1>2. TypeOK /\ [Next]_vars => TypeOK'
  <2> SUFFICES ASSUME TypeOK, [Next]_vars PROVE TypeOK'
    OBVIOUS
  <2> USE StepNames DEF Enter, Await, Return, Generate, Exchange
  <2>1. ASSUME NEW h \in Handlers, NEW u \in Users, Register(h, u) \/ Login(h, u)
        PROVE TypeOK'
    BY <2>1, BoundTypes DEF Register, Login, TypeOK
  <2>2. ASSUME NEW h \in Handlers, CreateUser(h) PROVE TypeOK'
    BY <2>2, BoundTypes DEF CreateUser, TypeOK
  <2>3. ASSUME NEW h \in Handlers, NEW t \in Tokens, Refresh(h, t) PROVE TypeOK'
    BY <2>3 DEF Refresh, TypeOK
  <2>4. ASSUME NEW h \in Handlers, DropExpired(h) \/ Redeem(h) \/ CleanUp(h) PROVE TypeOK'
    BY <2>4, BoundTypes DEF DropExpired, Redeem, CleanUp, TypeOK
  <2>5. ASSUME NEW h \in Handlers, NEW t \in Tokens, CreateToken(h, t) PROVE TypeOK'
    BY <2>5 DEF CreateToken, TypeOK
  <2>6. ASSUME NEW t \in Tokens, Logout(t) PROVE TypeOK'
    BY <2>6 DEF Logout, TypeOK
  <2>7. ASSUME \/ \E h \in Handlers : Rejects(h)
               \/ Crash \/ Tick \/ UNCHANGED vars
        PROVE TypeOK'
    BY <2>7 DEF Rejects, Crash, Tick, TypeOK
  <2> QED BY <2>1, <2>2, <2>3, <2>4, <2>5, <2>6, <2>7 DEF Next, Continue, Arrive
<1> QED BY <1>1, <1>2, PTL DEF Spec

-----------------------------------------------------------------------------
(* Spent tokens have no row *)

\* A step that creates no row and no child and starts no exchange.
LEMMA SpentOther ==
    ASSUME TypeOK, SpentHaveNoRow,
           rows' \subseteq rows, UNCHANGED <<created, parent, loggedOut>>,
           \A h \in Handlers : /\ pc'[h] \in {"redeem", "dropExpired"} => tok'[h] \in created
                               /\ \A t \in Tokens : Exchanging(h, t)' => Exchanging(h, t)
    PROVE  SpentHaveNoRow'
BY DEF SpentHaveNoRow, TypeOK

LEMMA SpentRedeem ==
    ASSUME TypeOK, SpentHaveNoRow, NEW h \in Handlers, Redeem(h)
    PROVE  SpentHaveNoRow'
<1>1. CASE tok[h] \notin rows
  <2>1. \A g \in Handlers : /\ pc'[g] # "idle" => pc'[g] = pc[g] /\ tok'[g] = tok[g]
    BY <1>1 DEF Redeem, Return, Enter, TypeOK
  <2>2. \A g \in Handlers : \A t \in Tokens : Exchanging(g, t)' => Exchanging(g, t)
    BY <2>1 DEF Exchanging, Exchange
  <2>3. \A g \in Handlers : pc'[g] \in {"redeem", "dropExpired"} => tok'[g] \in created
    BY <2>1 DEF SpentHaveNoRow
  <2> QED BY <1>1, <2>2, <2>3, SpentOther DEF Redeem
<1>2. CASE tok[h] \in rows
  <2> DEFINE t == tok[h]
  <2>1. /\ rows' = rows \ {t} /\ t \in created /\ t \in Tokens
        /\ UNCHANGED <<created, parent, loggedOut>>
    BY <1>2 DEF Redeem, TypeOK
  <2>2. /\ pc' = [pc EXCEPT ![h] = "cleanUp"]
        /\ \A g \in Handlers : tok'[g] = tok[g]
    BY <1>2 DEF Redeem, Generate, Enter, TypeOK
  <2>3. /\ \A s \in created : parent[s] # t
        /\ \A g \in Handlers : ~Exchanging(g, t)
    BY <1>2, <2>1 DEF SpentHaveNoRow
  <2>4. \A g \in Handlers : \A s \in Tokens :
           Exchanging(g, s)' => \/ g = h /\ s = t
                                \/ Exchanging(g, s)
    BY <2>2 DEF Exchanging, TypeOK
  <2>5. \A g \in Handlers : \A s \in Tokens :
           Exchanging(g, s)' => /\ s \in created' \ rows'
                                /\ \A r \in created' : parent'[r] # s
                                /\ \A f \in Handlers : Exchanging(f, s)' => f = g
    <3>1. ASSUME NEW g \in Handlers, NEW s \in Tokens, Exchanging(g, s)'
          PROVE /\ s \in created' \ rows'
                /\ \A r \in created' : parent'[r] # s
                /\ \A f \in Handlers : Exchanging(f, s)' => f = g
      <4>1. CASE s = t
        BY <2>1, <2>3, <2>4, <3>1, <4>1
      <4>2. CASE s # t
        BY <2>1, <2>4, <3>1, <4>2 DEF SpentHaveNoRow
      <4> QED BY <4>1, <4>2
    <3> QED BY <3>1
  <2>6. \A g \in Handlers : pc'[g] \in {"redeem", "dropExpired"} => tok'[g] \in created'
    BY <2>1, <2>2 DEF SpentHaveNoRow, TypeOK
  <2> QED BY <2>1, <2>5, <2>6 DEF SpentHaveNoRow
<1> QED BY <1>1, <1>2

LEMMA SpentCreate ==
    ASSUME TypeOK, SpentHaveNoRow, NEW h \in Handlers, NEW t \in Tokens, CreateToken(h, t)
    PROVE  SpentHaveNoRow'
<1>1. /\ t \notin created /\ created' = created \cup {t} /\ rows' = rows \cup {t}
      /\ parent' = [parent EXCEPT ![t] = tok[h]] /\ UNCHANGED loggedOut
  BY DEF CreateToken
<1>2. tok[h] = NoToken \/ (tok[h] \in Tokens /\ Exchanging(h, tok[h]))
  BY DEF CreateToken, Exchanging, Exchange, TypeOK
<1>3. /\ tok[h] # NoToken => tok[h] \in created \ rows
      /\ tok[h] # t
  BY <1>1, <1>2, NullTypes DEF SpentHaveNoRow
<1>4. \A g \in Handlers :
         /\ g # h => pc'[g] = pc[g] /\ tok'[g] = tok[g]
         /\ g = h => pc'[g] = "idle"
  BY DEF CreateToken, Return, Enter, TypeOK
<1>5. \A g \in Handlers : \A s \in Tokens : Exchanging(g, s)' => g # h /\ Exchanging(g, s)
  BY <1>4 DEF Exchanging, Exchange
<1>6. t \notin loggedOut /\ t \notin rows /\ NoToken \notin rows'
  BY <1>1, NullTypes DEF TypeOK
<1>7. \A s \in Tokens : s # t => parent'[s] = parent[s]
  BY <1>1 DEF TypeOK
<1>8. parent'[t] = tok[h]
  BY <1>1 DEF TypeOK
<1>9. rows' \cap loggedOut' = {}
  BY <1>1, <1>6 DEF SpentHaveNoRow
<1>10. \A s \in Tokens : parent'[s] # NoToken => s \in created' /\ parent'[s] \in created'
  <2>1. ASSUME NEW s \in Tokens, parent'[s] # NoToken
        PROVE s \in created' /\ parent'[s] \in created'
    BY <1>1, <1>3, <1>7, <1>8, <2>1 DEF SpentHaveNoRow
  <2> QED BY <2>1
<1>11. \A s \in created' : parent'[s] \notin rows'
  <2>1. ASSUME NEW s \in created' PROVE parent'[s] \notin rows'
    <3>1. CASE s = t
      BY <1>1, <1>3, <1>6, <1>8, <3>1
    <3>2. CASE s # t
      <4>1. s \in created /\ s \in Tokens /\ parent'[s] = parent[s] /\ parent[s] \notin rows
        BY <1>1, <1>7, <2>1, <3>2 DEF TypeOK, SpentHaveNoRow
      <4>2. parent[s] # t
        BY <1>1, <1>6, <4>1, NullTypes DEF SpentHaveNoRow
      <4> QED BY <1>1, <4>1, <4>2
    <3> QED BY <3>1, <3>2
  <2> QED BY <2>1
<1>12. \A g \in Handlers : pc'[g] \in {"redeem", "dropExpired"} => tok'[g] \in created'
  BY <1>1, <1>4 DEF SpentHaveNoRow
<1>13. \A g \in Handlers : \A s \in Tokens :
           Exchanging(g, s)' => /\ s \in created' \ rows'
                                /\ \A r \in created' : parent'[r] # s
                                /\ \A f \in Handlers : Exchanging(f, s)' => f = g
  <2>1. ASSUME NEW g \in Handlers, NEW s \in Tokens, Exchanging(g, s)'
        PROVE /\ s \in created' \ rows'
              /\ \A r \in created' : parent'[r] # s
              /\ \A f \in Handlers : Exchanging(f, s)' => f = g
    <3>1. g # h /\ Exchanging(g, s) /\ s \in created \ rows /\ s # t
      BY <1>1, <1>5, <2>1 DEF SpentHaveNoRow
    <3>2. tok[h] # s
      BY <1>2, <3>1, NullTypes DEF SpentHaveNoRow
    <3>3. \A r \in created' : parent'[r] # s
      BY <1>1, <1>7, <1>8, <3>1, <3>2 DEF SpentHaveNoRow, TypeOK
    <3> QED BY <1>1, <1>5, <3>1, <3>3 DEF SpentHaveNoRow
  <2> QED BY <2>1
<1> QED BY <1>9, <1>10, <1>11, <1>12, <1>13 DEF SpentHaveNoRow

LEMMA SpentKept ==
    ASSUME TypeOK, SpentHaveNoRow, [Next]_vars
    PROVE  SpentHaveNoRow'
<1>1. ASSUME NEW h \in Handlers, Continue(h) PROVE SpentHaveNoRow'
  <2>1. ASSUME CreateUser(h) \/ DropExpired(h) \/ CleanUp(h) \/ Rejects(h)
        PROVE SpentHaveNoRow'
    <3>1. rows' \subseteq rows /\ UNCHANGED <<created, parent, loggedOut>>
      BY <2>1 DEF CreateUser, DropExpired, CleanUp, Rejects
    <3>2. \A g \in Handlers : g # h => pc'[g] = pc[g] /\ tok'[g] = tok[g]
      BY <2>1 DEF CreateUser, DropExpired, CleanUp, Rejects, Generate, Await, Return, Enter,
                  TypeOK
    <3>3. \/ pc'[h] = "idle"
          \/ pc'[h] \in Exchange /\ tok'[h] = NoToken
          \/ pc'[h] \in Exchange /\ pc[h] \in Exchange /\ tok'[h] = tok[h]
      BY <2>1 DEF CreateUser, DropExpired, CleanUp, Rejects, Generate, Await, Return, Enter,
                  Exchange, TypeOK
    <3>4. \A g \in Handlers :
             /\ pc'[g] \in {"redeem", "dropExpired"} => tok'[g] \in created
             /\ \A t \in Tokens : Exchanging(g, t)' => Exchanging(g, t)
      BY <3>2, <3>3, NullTypes DEF Exchanging, Exchange, SpentHaveNoRow
    <3> QED BY <3>1, <3>4, SpentOther
  <2> QED BY <1>1, <2>1, SpentRedeem, SpentCreate DEF Continue
<1>2. ASSUME NEW h \in Handlers, Arrive(h) PROVE SpentHaveNoRow'
  <2>1. UNCHANGED <<rows, created, parent, loggedOut>>
    BY <1>2 DEF Arrive, Register, Login, Refresh
  <2>2. \A g \in Handlers : g # h => pc'[g] = pc[g] /\ tok'[g] = tok[g]
    BY <1>2 DEF Arrive, Register, Login, Refresh, Generate, Enter, TypeOK
  <2>3. \/ pc'[h] \in {"createUser", "cleanUp"} /\ tok'[h] = NoToken
        \/ pc'[h] \in {"redeem", "dropExpired"} /\ tok'[h] \in created
    BY <1>2 DEF Arrive, Register, Login, Refresh, Generate, Enter, TypeOK
  <2>4. \A g \in Handlers :
           /\ pc'[g] \in {"redeem", "dropExpired"} => tok'[g] \in created
           /\ \A t \in Tokens : Exchanging(g, t)' => Exchanging(g, t)
    BY <2>2, <2>3, NullTypes DEF Exchanging, Exchange, SpentHaveNoRow
  <2> QED BY <2>1, <2>4, SpentOther
<1>3. ASSUME NEW t \in Tokens, Logout(t) PROVE SpentHaveNoRow'
  BY <1>3 DEF Logout, SpentHaveNoRow, Exchanging
<1>4. ASSUME Crash \/ Tick \/ UNCHANGED vars PROVE SpentHaveNoRow'
  BY <1>4, SpentOther DEF Crash, Tick, Exchanging, Exchange, SpentHaveNoRow
<1> QED BY <1>1, <1>2, <1>3, <1>4 DEF Next

\* A token that is being exchanged, was exchanged or was logged out has no row.
THEOREM SpentTokensHaveNoRow == Spec => []SpentHaveNoRow
<1>1. Init => SpentHaveNoRow
  BY DEF Init, SpentHaveNoRow, Exchanging, Exchange
<1>2. TypeOK /\ SpentHaveNoRow /\ [Next]_vars => SpentHaveNoRow'
  BY SpentKept
<1> QED BY <1>1, <1>2, SessionsTyped, PTL DEF Spec

\* A refresh token is exchanged for one successor.
THEOREM TokensAreUsedOnce == Spec => []OneSuccessor
<1>1. Init => OneSuccessor
  BY DEF Init, OneSuccessor
<1>2. ASSUME TypeOK, SpentHaveNoRow, OneSuccessor, [Next]_vars
      PROVE  OneSuccessor'
  <2>1. CASE UNCHANGED <<created, parent>>
    BY <1>2, <2>1 DEF OneSuccessor
  <2>2. ASSUME NEW h \in Handlers, NEW t \in Tokens, CreateToken(h, t) PROVE OneSuccessor'
    <3>1. created' = created \cup {t} /\ parent' = [parent EXCEPT ![t] = tok[h]]
      BY <2>2 DEF CreateToken
    <3>2. \A s \in created : parent[s] = tok[h] => tok[h] = NoToken
      BY <1>2, <2>2 DEF CreateToken, SpentHaveNoRow, Exchanging, Exchange, TypeOK
    <3>3. \A s \in Tokens : s # t => parent'[s] = parent[s]
      BY <1>2, <3>1 DEF TypeOK
    <3>4. parent'[t] = tok[h]
      BY <1>2, <3>1 DEF TypeOK
    <3> QED BY <1>2, <3>1, <3>2, <3>3, <3>4 DEF OneSuccessor, TypeOK
  <2> QED
    BY <1>2, <2>1, <2>2
       DEF Next, Continue, Arrive, CreateUser, DropExpired, Redeem, CleanUp, Rejects,
           Register, Login, Refresh, Logout, Crash, Tick
<1> QED BY <1>1, <1>2, SessionsTyped, SpentTokensHaveNoRow, PTL DEF Spec

\* A request that read the token before its logout does not exchange it after.
THEOREM LogoutWins == Spec => LogoutStopsExchange
<1>1. ASSUME TypeOK, SpentHaveNoRow, Next, NEW h \in Handlers,
             pc[h] = "redeem", pc'[h] = "cleanUp"
      PROVE  tok[h] \notin loggedOut
  <2>1. ASSUME NEW g \in Handlers, Continue(g), g # h PROVE pc'[h] = pc[h]
    BY <1>1, <2>1 DEF Continue, CreateUser, DropExpired, Redeem, CleanUp, CreateToken, Rejects,
                      Generate, Await, Return, Enter, TypeOK
  <2>2. ASSUME NEW g \in Handlers, Arrive(g) PROVE pc'[h] = pc[h] \/ pc[h] = "idle"
    BY <1>1, <2>2 DEF Arrive, Register, Login, Refresh, Generate, Enter, TypeOK
  <2>3. ASSUME Continue(h) PROVE Redeem(h) /\ tok[h] \in rows
    BY <1>1, <2>3 DEF Continue, CreateUser, DropExpired, Redeem, CleanUp, CreateToken, Rejects,
                      Return, Enter, TypeOK
  <2>4. CASE \/ \E t \in Tokens : Logout(t)
             \/ Crash \/ Tick
    BY <1>1, <2>4 DEF Logout, Crash, Tick
  <2> QED BY <1>1, <2>1, <2>2, <2>3, <2>4 DEF Next, SpentHaveNoRow
<1>2. TypeOK /\ SpentHaveNoRow /\ [Next]_vars =>
         [\A h \in Handlers :
             pc[h] = "redeem" /\ pc'[h] = "cleanUp" => tok[h] \notin loggedOut]_vars
  BY <1>1
<1> QED BY <1>2, SessionsTyped, SpentTokensHaveNoRow, PTL DEF Spec, LogoutStopsExchange

-----------------------------------------------------------------------------
(* Who loses a session *)

\* Only a token that has expired is dropped.
DropsExpired ==
    \A h \in Handlers : pc[h] = "dropExpired" => tok[h] \in created /\ Expired(tok[h])

\* A request other than h in the step goes on with its token.
LEMMA OthersGoOn ==
    ASSUME TypeOK, NEW h \in Handlers, Continue(h) \/ Arrive(h)
    PROVE  \A g \in Handlers : g # h => pc'[g] = pc[g] /\ tok'[g] = tok[g]
BY DEF Continue, Arrive, CreateUser, DropExpired, Redeem, CleanUp, CreateToken, Rejects,
       Register, Login, Refresh, Generate, Await, Return, Enter, TypeOK

\* The expiry of a token that exists does not change, and stays passed.
LEMMA ExpiredForGood ==
    ASSUME TypeOK, [Next]_vars, NEW t \in created, Expired(t) PROVE t \in created' /\ Expired(t)'
<1>1. UNCHANGED <<created, expiresAt>> /\ now' \in Nat /\ now' >= now => t \in created' /\ Expired(t)'
  BY DEF Expired, TypeOK
<1>2. ASSUME NEW h \in Handlers, NEW s \in Tokens, CreateToken(h, s)
      PROVE  t \in created' /\ Expired(t)'
  BY <1>2 DEF CreateToken, Expired, TypeOK
<1>3. CASE UNCHANGED <<created, expiresAt, now>>
  BY <1>1, <1>3 DEF TypeOK
<1>4. CASE Tick
  BY <1>1, <1>4 DEF Tick, TypeOK
<1> QED BY <1>2, <1>3, <1>4
        DEF Next, Continue, Arrive, CreateUser, DropExpired, Redeem, CleanUp, Rejects,
            Register, Login, Refresh, Logout, Crash

LEMMA DropsExpiredAlways == Spec => []DropsExpired
<1>1. Init => DropsExpired
  BY DEF Init, DropsExpired
<1>2. ASSUME TypeOK, DropsExpired, [Next]_vars, NEW h \in Handlers, pc'[h] = "dropExpired"
      PROVE  tok'[h] \in created' /\ expiresAt'[tok'[h]] < now'
  <2>1. \/ pc[h] = "dropExpired" /\ tok'[h] = tok[h]
        \/ \E t \in Tokens : Refresh(h, t)
    <3>1. ASSUME NEW g \in Handlers, Continue(g) \/ Arrive(g), g # h
          PROVE  pc[h] = "dropExpired" /\ tok'[h] = tok[h]
      BY <1>2, <3>1, OthersGoOn
    <3>2. ~Continue(h)
      <4>1. ~CreateUser(h) /\ ~DropExpired(h)
        BY <1>2 DEF CreateUser, DropExpired, Return, Generate, Enter, TypeOK
      <4>2. ~Redeem(h) /\ ~CleanUp(h)
        BY <1>2 DEF Redeem, CleanUp, Return, Await, Generate, Enter, TypeOK
      <4>3. ~Rejects(h) /\ \A t \in Tokens : ~CreateToken(h, t)
        BY <1>2 DEF Rejects, CreateToken, Return, Enter, TypeOK
      <4> QED BY <4>1, <4>2, <4>3 DEF Continue
    <3>3. ASSUME Arrive(h) PROVE \E t \in Tokens : Refresh(h, t)
      <4>1. \A u \in Users : ~Register(h, u) /\ ~Login(h, u)
        BY <1>2 DEF Register, Login, Generate, Enter, TypeOK
      <4> QED BY <3>3, <4>1 DEF Arrive
    <3>4. CASE Crash
      BY <1>2, <3>4 DEF Crash
    <3>5. CASE (\E t \in Tokens : Logout(t)) \/ Tick \/ UNCHANGED vars
      BY <1>2, <3>5 DEF Logout, Tick, vars, procs
    <3> QED BY <1>2, <3>1, <3>2, <3>3, <3>4, <3>5 DEF Next
  <2>2. CASE pc[h] = "dropExpired" /\ tok'[h] = tok[h]
    BY <1>2, <2>2, ExpiredForGood DEF DropsExpired, Expired
  <2>3. ASSUME NEW t \in Tokens, Refresh(h, t) PROVE tok'[h] \in created' /\ expiresAt'[tok'[h]] < now'
    BY <1>2, <2>3 DEF Refresh, Enter, Expired, TypeOK, db
  <2> QED BY <2>1, <2>2, <2>3
<1>3. TypeOK /\ DropsExpired /\ [Next]_vars => DropsExpired'
  BY <1>2 DEF DropsExpired, Expired
<1> QED BY <1>1, <1>3, SessionsTyped, PTL DEF Spec

\* What keeps the session of t.
Kept(t) ==
    \/ t \in rows
    \/ Expired(t)
    \/ \E h \in Handlers : Exchanging(h, t)
    \/ \E s \in held : parent[s] = t

LEMMA SessionKept ==
    ASSUME TypeOK, SpentHaveNoRow, DropsExpired, [Next]_vars, failures' = 0,
           NEW t \in held, t \notin loggedOut', Kept(t)
    PROVE  Kept(t)'
<1>0. t \in created /\ t \in Tokens
  BY DEF TypeOK
<1>1. CASE Expired(t)
  BY <1>0, <1>1, ExpiredForGood DEF Kept
<1>2. ASSUME NEW s \in held, parent[s] = t PROVE Kept(t)'
  <2>1. s \in created /\ s \in held'
    BY <1>2 DEF TypeOK, Next, Continue, Arrive, CreateUser, DropExpired, Redeem, CleanUp,
                CreateToken, Rejects, Register, Login, Refresh, Logout, Crash, Tick
  <2>2. parent'[s] = parent[s]
    BY <1>2, <2>1 DEF TypeOK, Next, Continue, Arrive, CreateUser, DropExpired, Redeem, CleanUp,
                CreateToken, Rejects, Register, Login, Refresh, Logout, Crash, Tick
  <2> QED BY <1>2, <2>1, <2>2 DEF Kept
<1>3. ASSUME NEW h \in Handlers, Exchanging(h, t) PROVE Kept(t)'
  <2>1. ASSUME NEW g \in Handlers, Continue(g) \/ Arrive(g), g # h PROVE Exchanging(h, t)'
    BY <1>3, <2>1, OthersGoOn DEF Exchanging
  <2>2. CASE CleanUp(h)
    BY <1>3, <2>2 DEF CleanUp, Await, Enter, Exchanging, Exchange, Kept, TypeOK
  <2>3. ASSUME NEW s \in Tokens, CreateToken(h, s) PROVE Kept(t)'
    <3>1. failures' = failures => s \in held'
      BY <2>3 DEF CreateToken, TypeOK
    <3>2. failures' = failures
      BY <2>3 DEF CreateToken, TypeOK
    <3>3. parent'[s] = t
      BY <1>3, <2>3 DEF CreateToken, Exchanging, TypeOK
    <3> QED BY <3>1, <3>2, <3>3 DEF Kept
  <2>4. ~(Rejects(h) \/ Crash)
    BY DEF Rejects, Crash, TypeOK
  <2>5. ~(CreateUser(h) \/ DropExpired(h) \/ Redeem(h) \/ Arrive(h))
    BY <1>3 DEF CreateUser, DropExpired, Redeem, Arrive, Register, Login, Refresh, Exchanging, Exchange
  <2>6. ASSUME UNCHANGED <<pc, tok>> PROVE Exchanging(h, t)'
    BY <1>3, <2>6 DEF Exchanging
  <2>7. Exchanging(h, t)' => Kept(t)'
    BY DEF Kept
  <2> QED BY <2>1, <2>2, <2>3, <2>4, <2>5, <2>6, <2>7 DEF Next, Continue, Logout, Tick
<1>4. CASE t \in rows
  <2>1. ASSUME NEW h \in Handlers, DropExpired(h) PROVE Kept(t)'
    <3>1. CASE t = tok[h]
      BY <1>0, <2>1, <3>1, ExpiredForGood DEF DropExpired, DropsExpired, Kept
    <3>2. CASE t # tok[h]
      BY <1>4, <2>1, <3>2 DEF DropExpired, Kept
    <3> QED BY <3>1, <3>2
  <2>2. ASSUME NEW h \in Handlers, Redeem(h) PROVE Kept(t)'
    <3>1. CASE t = tok[h]
      <4>1. Exchanging(h, t)'
        BY <1>4, <2>2, <3>1 DEF Redeem, Generate, Enter, Exchanging, Exchange, TypeOK
      <4> QED BY <4>1 DEF Kept
    <3>2. CASE t # tok[h]
      BY <1>4, <2>2, <3>2 DEF Redeem, Kept
    <3> QED BY <3>1, <3>2
  <2>3. ASSUME NEW h \in Handlers, CleanUp(h) PROVE Kept(t)'
    <3>1. CASE Expired(t)
      BY <1>1, <3>1
    <3>2. CASE ~Expired(t)
      BY <1>4, <2>3, <3>2 DEF CleanUp, ExpiredOf, Kept
    <3> QED BY <3>1, <3>2
  <2>4. ASSUME NEW s \in Tokens, Logout(s) PROVE Kept(t)'
    BY <1>4, <2>4 DEF Logout, Kept
  <2>5. t \in rows' => Kept(t)'
    BY DEF Kept
  <2> QED BY <1>4, <2>1, <2>2, <2>3, <2>4, <2>5
          DEF Next, Continue, Arrive, CreateUser, CreateToken, Rejects, Register, Login,
              Refresh, Crash, Tick
<1> QED BY <1>1, <1>2, <1>3, <1>4 DEF Kept

\* As long as no call has failed, no client loses its session.
THEOREM SessionsAreKept == Spec => []KeepsSession
<1>1. Init => KeepsSession
  BY DEF Init, KeepsSession
<1>2. ASSUME TypeOK, SpentHaveNoRow, DropsExpired, KeepsSession, [Next]_vars
      PROVE  KeepsSession'
  <2> SUFFICES ASSUME failures' = 0, NEW t \in held' \ loggedOut' PROVE Kept(t)'
    BY DEF KeepsSession, Kept
  <2>1. failures = 0 /\ loggedOut \subseteq loggedOut'
    BY <1>2 DEF TypeOK, Next, Continue, Arrive, CreateUser, DropExpired, Redeem, CleanUp,
                CreateToken, Rejects, Register, Login, Refresh, Logout, Crash, Tick
  <2>2. CASE t \in held
    <3>1. Kept(t)
      BY <1>2, <2>1, <2>2 DEF KeepsSession, Kept
    <3> QED BY <1>2, <2>2, <3>1, SessionKept
  <2>3. CASE t \notin held
    <3>1. t \in rows'
      BY <1>2, <2>3 DEF Next, Continue, Arrive, CreateUser, DropExpired, Redeem, CleanUp,
                CreateToken, Rejects, Register, Login, Refresh, Logout, Crash, Tick
    <3> QED BY <3>1 DEF Kept
  <2> QED BY <2>2, <2>3
<1> QED BY <1>1, <1>2, SessionsTyped, SpentTokensHaveNoRow, DropsExpiredAlways, PTL DEF Spec
=============================================================================
