--------------------------- MODULE SessionsProofs ---------------------------
(***************************************************************************)
(* Token rotation for any number of calls, handlers and tokens: a refresh  *)
(* token has one successor, the tab holds no dead token, and reuse         *)
(* detection never goes off by itself.                                     *)
(***************************************************************************)
EXTENDS Sessions, TLAPS

Labels == {"idle", "get", "revoke", "create", "sweep", "200", "401", "500"}
Requests == [kind : {"free", "refresh", "logout", "login"}, tok : TokenOr0, new : TokenOr0,
             pc : Labels]
Open == [at : {"idle", "sent", "wait", "resent"}, tok : TokenOr0, h : Handlers \cup {None}]
Rows == [state : {"none", "active", "revoked"}, from : TokenOr0]

Types ==
  /\ tokens \in [Token -> Rows] /\ srv \in [Handlers -> Requests] /\ call \in [Asks -> Open]
  /\ held \in TokenOr0 /\ flight \in Handlers \cup {None} /\ login \in Handlers \cup {None}
  /\ leaving \in BOOLEAN /\ left \in BOOLEAN /\ swept \in BOOLEAN /\ out \in BOOLEAN
  /\ cut \in BOOLEAN

Issued(k) == tokens[k].state # "none"
Active(k) == tokens[k].state = "active"
Spent(k)  == \E j \in Token : tokens[j].from = k

\* A refresh that may still rotate its token, and that has not yet revoked it.
Rotating(h) == srv[h].kind = "refresh" /\ srv[h].pc \in {"get", "revoke", "create"}
Looking(h)  == srv[h].kind = "refresh" /\ srv[h].pc \in {"get", "revoke"}

-----------------------------------------------------------------------------
(* The inductive invariant. Unconditionally: what kind of request a        *)
(* handler serves, whom the tab waits for, and that tokens are mentioned   *)
(* only once they are issued.                                              *)

Kinds ==
  \A h \in Handlers :
    /\ srv[h].tok = 0 <=> srv[h].kind \in {"free", "login"}
    /\ srv[h].pc = "idle" <=> srv[h].kind = "free"
    /\ srv[h].kind = "logout" => srv[h].pc \notin {"create", "sweep"}
    /\ srv[h].kind = "login" => srv[h].pc \notin {"get", "revoke", "sweep"}

\* Only a refresh or a login that has succeeded carries a new token.
Answers ==
  \A h \in Handlers :
    srv[h].new # 0 <=> srv[h].pc = "200" /\ srv[h].kind # "logout"

Waits ==
  /\ flight # None => srv[flight].kind = "refresh"
  /\ login # None => srv[login].kind = "login"
  /\ call[Out].h # None => srv[call[Out].h].kind = "logout"
  /\ call[Out] # Idle => call[Out].at # "idle" /\ call[Out].tok # 0

References ==
  /\ held # 0 => Issued(held)
  /\ call[Out].tok # 0 => Issued(call[Out].tok)
  /\ \A h \in Handlers : /\ srv[h].tok # 0 => Issued(srv[h].tok)
                         /\ srv[h].new # 0 => Issued(srv[h].new)
  /\ \A j \in Token : tokens[j].from # 0 => Issued(tokens[j].from)

\* Before the first logout nobody serves one.
NotLeft ==
  ~left => call[Out] = Idle /\ \A h \in Handlers : srv[h].kind # "logout"

-----------------------------------------------------------------------------
(* Until a page load cuts the tab off from what it has asked for.          *)

\* A token is presented for rotation once, and not after it was rotated; the
\* tab waits for the rotation of the token that it holds.
PresentedOnce ==
  /\ \A g, h \in Handlers :
       Rotating(g) /\ Rotating(h) /\ srv[g].tok = srv[h].tok => g = h
  /\ \A h \in Handlers : Rotating(h) => ~Spent(srv[h].tok)
  /\ \A h \in Handlers : Rotating(h) /\ srv[h].tok = held => flight = h
  /\ held # 0 /\ Spent(held) => flight # None

\* A token that is on its way to the tab is known to nobody else.
NewIsFresh ==
  \A h \in Handlers : srv[h].new # 0 =>
    /\ srv[h].new # held /\ srv[h].new # call[Out].tok
    /\ ~Spent(srv[h].new)
    /\ \A g \in Handlers : srv[g].tok # srv[h].new /\ (srv[g].new = srv[h].new => g = h)
    /\ Active(srv[h].new) \/ swept

\* The logout of the token that the tab holds is one the tab waits for.
LogoutAwaited ==
  \A h \in Handlers :
    srv[h].kind = "logout" /\ srv[h].pc \in {"get", "revoke"} /\ srv[h].tok = held
      => call[Out] # Idle

\* Without a logout either, a refresh finds its token active.
RefreshFinds ==
  ~left => /\ ~swept
           /\ \A h \in Handlers : srv[h].pc # "sweep" /\ (Looking(h) => Active(srv[h].tok))

IInv ==
  /\ Types
  /\ Kinds /\ Answers /\ Waits /\ References /\ NotLeft
  /\ SingleSuccessor /\ HeldIsLive
  /\ ~cut => PresentedOnce /\ NewIsFresh /\ LogoutAwaited /\ RefreshFinds

-----------------------------------------------------------------------------
(* Types.                                                                  *)

\* The types are those of Sessions.
LEMMA TypesAreTypeOK == Types <=> TypeOK
  BY Zenon DEF Types, TypeOK, Rows, Requests, Open, Labels

\* The records that steps put into the tables.
LEMMA RecordTypes ==
  /\ Free \in Requests /\ Idle \in Open /\ NoToken \in Rows
  /\ \A k \in TokenOr0 : /\ Request("refresh", k) \in Requests
                         /\ Request("logout", k) \in Requests
                         /\ Request("login", k) \in Requests
                         /\ [state |-> "active", from |-> k] \in Rows
<1>1. 0 \in TokenOr0 /\ None \in Handlers \cup {None}
  BY SessionAssumption DEF TokenOr0
<1> QED
  BY <1>1 DEF Free, Idle, NoToken, Request, Requests, Open, Rows, Labels

\* A handler goes on to another label, and to that only.
LEMMA Proceeds ==
  ASSUME Types, NEW h \in Handlers, NEW l \in Labels, Proceed(h, l)
  PROVE  /\ srv' \in [Handlers -> Requests]
         /\ \A g \in Handlers : /\ srv'[g].kind = srv[g].kind /\ srv'[g].tok = srv[g].tok
                                /\ srv'[g].new = srv[g].new
                                /\ srv'[g].pc = IF g = h THEN l ELSE srv[g].pc
<1>1. srv \in [Handlers -> Requests] /\ srv' = [srv EXCEPT ![h].pc = l]
  BY DEF Types, Proceed
<1>2. ASSUME NEW r \in Requests
      PROVE  /\ [r EXCEPT !.pc = l] \in Requests /\ [r EXCEPT !.pc = l].pc = l
             /\ [r EXCEPT !.pc = l].kind = r.kind /\ [r EXCEPT !.pc = l].tok = r.tok
             /\ [r EXCEPT !.pc = l].new = r.new
  BY DEF Requests
<1>3. srv' = [srv EXCEPT ![h] = [srv[h] EXCEPT !.pc = l]]
  BY <1>1
<1> QED BY <1>1, <1>2, <1>3

\* The fields of the requests the tab sends.
LEMMA Fields ==
  /\ Free.kind = "free" /\ Free.tok = 0 /\ Free.new = 0 /\ Free.pc = "idle"
  /\ Idle.at = "idle" /\ Idle.tok = 0 /\ Idle.h = None
  /\ \A k \in TokenOr0 :
       /\ Request("refresh", k).kind = "refresh" /\ Request("refresh", k).pc = "get"
       /\ Request("logout", k).kind = "logout" /\ Request("logout", k).pc = "get"
       /\ Request("login", k).kind = "login" /\ Request("login", k).pc = "create"
       /\ \A kind \in {"refresh", "logout", "login"} :
            Request(kind, k).tok = k /\ Request(kind, k).new = 0
  BY DEF Free, Idle, Request

\* Types and fields of single handlers, tokens and calls.
LEMMA Parts ==
  ASSUME Types
  PROVE  /\ \A h \in Handlers : /\ srv[h] \in Requests /\ srv[h].pc \in Labels
                                /\ srv[h].tok \in TokenOr0 /\ srv[h].new \in TokenOr0
                                /\ srv[h].kind \in {"free", "refresh", "logout", "login"}
         /\ \A k \in Token : /\ tokens[k] \in Rows /\ tokens[k].from \in TokenOr0
                             /\ tokens[k].state \in {"none", "active", "revoked"}
         /\ \A c \in Asks : /\ call[c] \in Open /\ call[c].tok \in TokenOr0
                            /\ call[c].h \in Handlers \cup {None}
         /\ Out \in Asks /\ TokenOr0 = Token \cup {0} /\ 0 \notin Token
<1>1. \A h \in Handlers : srv[h] \in Requests
  BY DEF Types
<1>2. \A k \in Token : tokens[k] \in Rows
  BY DEF Types
<1>3. \A c \in Asks : call[c] \in Open
  BY DEF Types
<1>4. Out \in Asks /\ TokenOr0 = Token \cup {0} /\ 0 \notin Token
  BY SessionAssumption DEF Asks, TokenOr0, Token
<1> QED BY <1>1, <1>2, <1>3, <1>4 DEF Requests, Rows, Open

-----------------------------------------------------------------------------
(* The statements of the server.                                           *)

\* A handler that goes on without a statement that changes a row.
LEMMA Advance ==
  ASSUME IInv, NEW h \in Handlers, NEW l \in {"revoke", "sweep", "401", "500"},
         Proceed(h, l), UNCHANGED <<tokens, tab, ghosts>>, Running(h),
         l = "revoke" => srv[h].pc = "get" /\ Active(srv[h].tok),
         l = "sweep" => srv[h].pc = "get" /\ ~Active(srv[h].tok) /\ srv[h].kind = "refresh"
  PROVE  IInv'
<1>1. l \in Labels
  BY DEF Labels
<1>2. /\ srv' \in [Handlers -> Requests]
      /\ \A g \in Handlers : /\ srv'[g].kind = srv[g].kind /\ srv'[g].tok = srv[g].tok
                             /\ srv'[g].new = srv[g].new
                             /\ srv'[g].pc = IF g = h THEN l ELSE srv[g].pc
  BY <1>1, Proceeds DEF IInv
<1>3. UNCHANGED <<tokens, held, flight, call, login, leaving, left, swept, out, cut>>
  BY DEF tab, ghosts
<1>4. srv[h].pc \in {"get", "revoke", "create", "sweep"} /\ srv[h].new = 0
  BY DEF Running, IInv, Answers
<1>5. Types'
  BY <1>2, <1>3 DEF IInv, Types
<1>6. Kinds' /\ Answers'
  BY <1>2, <1>4 DEF IInv, Kinds, Answers
<1>7. Waits' /\ NotLeft'
  <2>1. /\ flight \in Handlers \cup {None} /\ login \in Handlers \cup {None}
        /\ call[Out].h \in Handlers \cup {None}
    BY Parts DEF IInv, Types
  <2>2. Waits'
    BY <1>2, <1>3, <2>1 DEF IInv, Waits
  <2>3. NotLeft'
    BY <1>2, <1>3 DEF IInv, NotLeft
  <2> QED BY <2>2, <2>3
<1>8. References' /\ SingleSuccessor' /\ HeldIsLive'
  BY <1>2, <1>3 DEF IInv, References, SingleSuccessor, HeldIsLive, Issued
<1>9. ASSUME ~cut PROVE PresentedOnce' /\ NewIsFresh' /\ LogoutAwaited' /\ RefreshFinds'
  <2>1. PresentedOnce /\ NewIsFresh /\ LogoutAwaited /\ RefreshFinds
    BY <1>9 DEF IInv
  <2>2. \A g \in Handlers : /\ Rotating(g)' => Rotating(g)
                            /\ Looking(g)' => Looking(g)
    BY <1>2, <1>4 DEF Rotating, Looking
  <2>3. PresentedOnce'
    BY <1>2, <1>3, <2>1, <2>2 DEF PresentedOnce, Spent
  <2>4. NewIsFresh'
    BY <1>2, <1>3, <2>1 DEF NewIsFresh, Spent, Active
  <2>5. LogoutAwaited'
    BY <1>2, <1>3, <1>4, <2>1 DEF LogoutAwaited
  <2>6. RefreshFinds'
    BY <1>2, <1>3, <1>4, <2>1, <2>2 DEF RefreshFinds, Looking, Active
  <2> QED BY <2>3, <2>4, <2>5, <2>6
<1> QED
  BY <1>3, <1>5, <1>6, <1>7, <1>8, <1>9 DEF IInv

\* Looking up a token, and a handler that dies.
LEMMA AdvanceSteps ==
  ASSUME IInv, NEW h \in Handlers, GetByJTI(h) \/ HandlerFails(h)
  PROVE  IInv'
<1>1. CASE GetByJTI(h)
  <2>1. Running(h) /\ UNCHANGED <<tokens, tab, ghosts>> /\ srv[h].pc = "get"
    BY <1>1 DEF GetByJTI, Running
  <2>2. CASE Active(srv[h].tok)
    <3>1. Proceed(h, "revoke")
      BY <1>1, <2>2 DEF GetByJTI, Active
    <3> QED BY <2>1, <2>2, <3>1, Advance
  <2>3. CASE ~Active(srv[h].tok) /\ srv[h].kind = "refresh"
    <3>1. Proceed(h, "sweep")
      BY <1>1, <2>3 DEF GetByJTI, Active
    <3> QED BY <2>1, <2>3, <3>1, Advance
  <2>4. CASE ~Active(srv[h].tok) /\ srv[h].kind # "refresh"
    <3>1. Proceed(h, "401")
      BY <1>1, <2>4 DEF GetByJTI, Active
    <3> QED BY <2>1, <3>1, Advance
  <2> QED BY <2>2, <2>3, <2>4
<1>2. CASE HandlerFails(h)
  <2>1. Running(h) /\ UNCHANGED <<tokens, tab, ghosts>> /\ Proceed(h, "500")
    BY <1>2 DEF HandlerFails
  <2> QED BY <2>1, Advance
<1> QED BY <1>1, <1>2

\* The row of a token changes its state.
LEMMA Revoked ==
  ASSUME Types, NEW t \in Token, tokens' = [tokens EXCEPT ![t].state = "revoked"]
  PROVE  /\ tokens' \in [Token -> Rows]
         /\ \A k \in Token : /\ tokens'[k].from = tokens[k].from
                             /\ tokens'[k].state = IF k = t THEN "revoked" ELSE tokens[k].state
<1>1. tokens \in [Token -> Rows]
  BY DEF Types
<1>2. ASSUME NEW r \in Rows
      PROVE  /\ [r EXCEPT !.state = "revoked"] \in Rows /\ [r EXCEPT !.state = "revoked"].from = r.from
             /\ [r EXCEPT !.state = "revoked"].state = "revoked"
  BY DEF Rows
<1>3. tokens' = [tokens EXCEPT ![t] = [tokens[t] EXCEPT !.state = "revoked"]]
  OBVIOUS
<1> QED BY <1>1, <1>2, <1>3

\* Only a token that the tab is not left with is revoked.
LEMMA RevokeStep ==
  ASSUME IInv, NEW h \in Handlers, Revoke(h)
  PROVE  IInv'
<1> DEFINE t == srv[h].tok
           l == IF srv[h].kind = "refresh" THEN "create" ELSE "200"
<1>1. srv[h].pc = "revoke" /\ srv[h].new = 0 /\ srv[h].kind \in {"refresh", "logout"} /\ t \in Token
  <2>1. srv[h].pc = "revoke" /\ srv[h].kind \in {"free", "refresh", "logout", "login"} /\ t \in Token \cup {0}
    BY Parts DEF Revoke, IInv
  <2> QED BY <2>1 DEF IInv, Kinds, Answers
<1>2. UNCHANGED <<held, flight, call, login, leaving, left, swept, out, cut>>
  BY DEF Revoke, tab, ghosts
<1>3. /\ srv' \in [Handlers -> Requests]
      /\ \A g \in Handlers : /\ srv'[g].kind = srv[g].kind /\ srv'[g].tok = srv[g].tok
                             /\ srv'[g].new = srv[g].new
                             /\ srv'[g].pc = IF g = h THEN l ELSE srv[g].pc
  <2>1. l \in Labels /\ Proceed(h, l)
    BY DEF Revoke, Labels
  <2> HIDE DEF l
  <2> QED BY <2>1, Proceeds DEF IInv
<1>4. /\ tokens' \in [Token -> Rows]
      /\ \A k \in Token : /\ tokens'[k].from = tokens[k].from
                          /\ tokens'[k].state = IF k = t THEN "revoked" ELSE tokens[k].state
  BY <1>1, Revoked DEF Revoke, IInv
<1>5. Types'
  BY <1>2, <1>3, <1>4 DEF IInv, Types
<1>6. Kinds' /\ Answers'
  BY <1>1, <1>3 DEF IInv, Kinds, Answers
<1>7. Waits' /\ NotLeft'
  <2>1. /\ flight \in Handlers \cup {None} /\ login \in Handlers \cup {None}
        /\ call[Out].h \in Handlers \cup {None}
    BY Parts DEF IInv, Types
  <2>2. Waits'
    BY <1>2, <1>3, <2>1 DEF IInv, Waits
  <2>3. NotLeft'
    BY <1>2, <1>3 DEF IInv, NotLeft
  <2> QED BY <2>2, <2>3
<1>8. \A k \in Token : (Issued(k)' <=> Issued(k)) /\ (k # t => (Active(k)' <=> Active(k)))
  BY <1>1, <1>4 DEF IInv, Kinds, References, Issued, Active
<1>9. \A k \in TokenOr0 : Spent(k)' <=> Spent(k)
  BY <1>4 DEF Spent
<1>10. References'
  <2>1. /\ held \in Token \cup {0} /\ call[Out].tok \in Token \cup {0}
        /\ \A g \in Handlers : srv[g].tok \in Token \cup {0} /\ srv[g].new \in Token \cup {0}
        /\ \A j \in Token : tokens[j].from \in Token \cup {0}
    BY Parts DEF IInv, Types
  <2> QED BY <1>2, <1>3, <1>4, <1>8, <2>1 DEF IInv, References
<1>11. SingleSuccessor'
  BY <1>2, <1>4 DEF IInv, SingleSuccessor
<1>12. HeldIsLive'
  <2>1. held \in Token \cup {0}
    BY Parts DEF IInv, Types
  <2>2. held = t /\ ~cut => flight = h \/ call[Out] # Idle
    BY <1>1 DEF IInv, PresentedOnce, LogoutAwaited, Rotating
  <2>3. h # None
    BY SessionAssumption
  <2> QED BY <1>2, <1>4, <2>1, <2>2, <2>3 DEF IInv, HeldIsLive
<1>13. ASSUME ~cut PROVE PresentedOnce' /\ NewIsFresh' /\ LogoutAwaited' /\ RefreshFinds'
  <2>1. PresentedOnce /\ NewIsFresh /\ LogoutAwaited /\ RefreshFinds
    BY <1>13 DEF IInv
  <2>2. \A g \in Handlers : /\ Rotating(g)' => Rotating(g)
                            /\ Looking(g)' => Looking(g) /\ Rotating(g) /\ g # h
    BY <1>1, <1>3 DEF Rotating, Looking
  <2>3. /\ held \in TokenOr0 /\ call[Out].tok \in TokenOr0
        /\ \A g \in Handlers : srv[g].tok \in TokenOr0 /\ srv[g].new \in TokenOr0
        /\ TokenOr0 = Token \cup {0}
    BY Parts DEF IInv, Types
  <2>4. PresentedOnce'
    BY <1>2, <1>3, <1>9, <2>1, <2>2, <2>3 DEF PresentedOnce
  <2>5. NewIsFresh'
    BY <1>2, <1>3, <1>8, <1>9, <2>1, <2>3 DEF NewIsFresh
  <2>6. LogoutAwaited'
    BY <1>1, <1>2, <1>3, <2>1 DEF LogoutAwaited
  <2>7. RefreshFinds'
    <3>1. ASSUME ~left, NEW g \in Handlers, Looking(g)' PROVE Active(srv[g].tok)'
      <4>1. srv[h].kind = "refresh" /\ Rotating(h)
        BY <1>1, <3>1 DEF IInv, NotLeft, Rotating
      <4>2. srv[g].tok # t /\ Active(srv[g].tok) /\ srv[g].tok # 0
        BY <2>1, <2>2, <3>1, <4>1 DEF PresentedOnce, RefreshFinds, IInv, Kinds, Looking
      <4> QED BY <1>3, <1>8, <2>3, <4>2
    <3> QED BY <1>1, <1>2, <1>3, <2>1, <3>1 DEF RefreshFinds
  <2> QED BY <2>4, <2>5, <2>6, <2>7
<1> QED
  BY <1>2, <1>5, <1>6, <1>7, <1>10, <1>11, <1>12, <1>13 DEF IInv

\* A successor is a token nobody has heard of, and the first of its kind.
LEMMA CreateStep ==
  ASSUME IInv, NEW h \in Handlers, Create(h)
  PROVE  IInv'
<1>1. /\ srv[h].pc = "create" /\ srv[h].new = 0 /\ srv[h].tok \in TokenOr0
      /\ \/ srv[h].kind = "refresh" /\ srv[h].tok # 0
         \/ srv[h].kind = "login" /\ srv[h].tok = 0
  <2>1. /\ srv[h].pc = "create" /\ srv[h].kind \in {"free", "refresh", "logout", "login"}
        /\ srv[h].tok \in TokenOr0
    BY Parts DEF Create, IInv
  <2> QED BY <2>1 DEF IInv, Kinds, Answers
<1>2. CASE Proceed(h, "500") /\ UNCHANGED tokens
  <2>1. Running(h) /\ UNCHANGED <<tab, ghosts>>
    BY <1>1 DEF Running, Create
  <2> QED BY <1>2, <2>1, Advance
<1>3. ASSUME NEW k \in Unused,
             tokens' = [tokens EXCEPT ![k] = [state |-> "active", from |-> srv[h].tok]],
             srv' = [srv EXCEPT ![h].pc = "200", ![h].new = k]
      PROVE  IInv'
  <2>1. k \in Token /\ tokens[k].state = "none" /\ ~Issued(k) /\ k # 0
    BY Parts DEF Unused, Issued, IInv
  <2>2. UNCHANGED <<held, flight, call, login, leaving, left, swept, out, cut>>
    BY DEF Create, tab, ghosts
  <2>3. /\ tokens' \in [Token -> Rows]
        /\ tokens'[k].state = "active" /\ tokens'[k].from = srv[h].tok
        /\ \A j \in Token : j # k => tokens'[j] = tokens[j]
    <3>1. tokens \in [Token -> Rows] /\ [state |-> "active", from |-> srv[h].tok] \in Rows
      BY <1>1, RecordTypes DEF IInv, Types
    <3> QED BY <1>3, <2>1, <3>1
  <2>4. /\ srv' \in [Handlers -> Requests]
        /\ \A g \in Handlers : /\ srv'[g].kind = srv[g].kind /\ srv'[g].tok = srv[g].tok
                               /\ srv'[g].new = IF g = h THEN k ELSE srv[g].new
                               /\ srv'[g].pc = IF g = h THEN "200" ELSE srv[g].pc
    <3> DEFINE r == [srv[h] EXCEPT !.pc = "200", !.new = k]
    <3>1. srv \in [Handlers -> Requests] /\ k \in TokenOr0
      BY <2>1, Parts DEF IInv, Types
    <3>2. srv' = [srv EXCEPT ![h] = r]
      BY <1>3
    <3>3. r \in Requests
      <4>1. ASSUME NEW q \in Requests
            PROVE  [q EXCEPT !.pc = "200"] \in Requests /\ [q EXCEPT !.new = k] \in Requests
        BY <3>1 DEF Requests, Labels
      <4> QED BY <3>1, <4>1
    <3>4. r.kind = srv[h].kind /\ r.tok = srv[h].tok /\ r.new = k /\ r.pc = "200"
      BY <3>1 DEF Requests
    <3> HIDE DEF r
    <3> QED BY <3>1, <3>2, <3>3, <3>4
  <2>5. Types'
    BY <2>2, <2>3, <2>4 DEF IInv, Types
  <2>6. Kinds' /\ Answers'
    BY <1>1, <2>1, <2>4 DEF IInv, Kinds, Answers
  <2>7. Waits' /\ NotLeft'
    <3>1. /\ flight \in Handlers \cup {None} /\ login \in Handlers \cup {None}
          /\ call[Out].h \in Handlers \cup {None}
      BY Parts DEF IInv, Types
    <3>2. Waits'
      BY <2>2, <2>4, <3>1 DEF IInv, Waits
    <3>3. NotLeft'
      BY <2>2, <2>4 DEF IInv, NotLeft
    <3> QED BY <3>2, <3>3
  <2>8. /\ held # k /\ call[Out].tok # k /\ srv[h].tok # k
        /\ \A g \in Handlers : srv[g].tok # k /\ srv[g].new # k
        /\ \A j \in Token : tokens[j].from # k
    BY <2>1 DEF IInv, References
  <2>9. \A j \in Token : j # k => (Issued(j)' <=> Issued(j)) /\ (Active(j)' <=> Active(j))
    BY <2>3 DEF Issued, Active
  <2>10. \A j \in TokenOr0 : Spent(j)' => Spent(j) \/ j = srv[h].tok
    BY <2>3 DEF Spent
  <2>11. Active(k)' /\ Issued(k)' /\ ~Spent(k)
    BY <2>3, <2>8 DEF Active, Issued, Spent
  <2>12. /\ held \in TokenOr0 /\ call[Out].tok \in TokenOr0
         /\ \A g \in Handlers : srv[g].tok \in TokenOr0 /\ srv[g].new \in TokenOr0
         /\ \A j \in Token : tokens[j].from \in TokenOr0
         /\ TokenOr0 = Token \cup {0} /\ k \in TokenOr0
    BY <2>1, Parts DEF IInv, Types
  <2>13. References'
    BY <2>2, <2>3, <2>4, <2>8, <2>9, <2>11, <2>12 DEF IInv, References
  <2>14. SingleSuccessor'
    <3>1. ~cut /\ srv[h].tok # 0 => ~Spent(srv[h].tok)
      BY <1>1 DEF IInv, PresentedOnce, Rotating
    <3> QED BY <2>2, <2>3, <3>1 DEF IInv, SingleSuccessor, Spent
  <2>15. HeldIsLive'
    BY <2>2, <2>3, <2>8, <2>12 DEF IInv, HeldIsLive
  <2>16. ASSUME ~cut PROVE PresentedOnce' /\ NewIsFresh' /\ LogoutAwaited' /\ RefreshFinds'
    <3>1. PresentedOnce /\ NewIsFresh /\ LogoutAwaited /\ RefreshFinds
      BY <2>16 DEF IInv
    <3>2. \A g \in Handlers : /\ Rotating(g)' => Rotating(g) /\ g # h
                              /\ Looking(g)' => Looking(g)
      BY <1>1, <2>4 DEF Rotating, Looking
    <3>3. \A g \in Handlers : Rotating(g) => srv[g].tok # 0
      BY DEF IInv, Kinds, Rotating
    <3>4. srv[h].tok # 0 => Rotating(h)
      BY <1>1 DEF Rotating
    <3>5. h # None
      BY SessionAssumption
    <3>6. PresentedOnce'
      BY <2>2, <2>4, <2>10, <2>12, <3>1, <3>2, <3>3, <3>4, <3>5 DEF PresentedOnce
    <3>7. NewIsFresh'
      <4>1. ASSUME NEW g \in Handlers, g # h, srv[g].new # 0
            PROVE  ~Spent(srv[g].new)' /\ (Active(srv[g].new)' <=> Active(srv[g].new))
        BY <2>4, <2>8, <2>9, <2>10, <2>12, <3>1, <4>1 DEF NewIsFresh
      <4>2. ~Spent(k)'
        BY <2>8, <2>10, <2>11, <2>12
      <4>3. ASSUME NEW g \in Handlers, srv'[g].new # 0
            PROVE  /\ srv'[g].new # held' /\ srv'[g].new # call'[Out].tok
                   /\ ~Spent(srv[g].new)'
                   /\ \A f \in Handlers : /\ srv'[f].tok # srv'[g].new
                                          /\ srv'[f].new = srv'[g].new => f = g
                   /\ Active(srv[g].new)' \/ swept'
        <5>1. CASE g = h
          BY <2>2, <2>4, <2>8, <2>11, <4>2, <5>1
        <5>2. CASE g # h
          BY <2>2, <2>4, <2>8, <3>1, <4>1, <4>3, <5>2 DEF NewIsFresh
        <5> QED BY <5>1, <5>2
      <4> QED BY <4>3 DEF NewIsFresh
    <3>8. LogoutAwaited'
      BY <2>2, <2>4, <3>1 DEF LogoutAwaited
    <3>9. RefreshFinds'
      <4>1. ASSUME ~left, NEW g \in Handlers, Looking(g)' PROVE Active(srv[g].tok)'
        <5>1. Active(srv[g].tok) /\ srv[g].tok \in Token /\ srv[g].tok # k
          BY <2>8, <2>12, <3>1, <3>2, <3>3, <4>1 DEF RefreshFinds, Looking, Rotating
        <5> QED BY <2>4, <2>9, <5>1
      <4> QED BY <2>2, <2>4, <3>1, <4>1 DEF RefreshFinds
    <3> QED BY <3>6, <3>7, <3>8, <3>9
  <2> QED
    BY <2>2, <2>5, <2>6, <2>7, <2>13, <2>14, <2>15, <2>16 DEF IInv
<1> QED
  BY <1>2, <1>3 DEF Create

\* Reuse detection revokes whatever is active, and says so.
LEMMA SweepStep ==
  ASSUME IInv, NEW h \in Handlers, Sweep(h)
  PROVE  IInv'
<1>1. srv[h].pc = "sweep" /\ srv[h].new = 0 /\ Proceed(h, "401")
  BY DEF Sweep, IInv, Answers
<1>2. CASE UNCHANGED <<tokens, swept>>
  <2>1. Running(h) /\ UNCHANGED <<tokens, tab, ghosts>>
    BY <1>1, <1>2 DEF Running, Sweep, ghosts
  <2> QED BY <1>1, <2>1, Advance
<1>3. CASE /\ tokens' = [k \in Token |-> IF tokens[k].state = "active"
                                         THEN [tokens[k] EXCEPT !.state = "revoked"]
                                         ELSE tokens[k]]
           /\ swept' = TRUE
  <2>1. UNCHANGED <<held, flight, call, login, leaving, left, out, cut>>
    BY DEF Sweep, tab
  <2>2. /\ srv' \in [Handlers -> Requests]
        /\ \A g \in Handlers : /\ srv'[g].kind = srv[g].kind /\ srv'[g].tok = srv[g].tok
                               /\ srv'[g].new = srv[g].new
                               /\ srv'[g].pc = IF g = h THEN "401" ELSE srv[g].pc
    BY <1>1, Proceeds DEF IInv, Labels
  <2>3. /\ tokens' \in [Token -> Rows]
        /\ \A k \in Token : tokens'[k].from = tokens[k].from /\ (Issued(k)' <=> Issued(k))
    <3>1. ASSUME NEW r \in Rows
          PROVE  /\ [r EXCEPT !.state = "revoked"] \in Rows
                 /\ [r EXCEPT !.state = "revoked"].from = r.from
                 /\ [r EXCEPT !.state = "revoked"].state = "revoked"
      BY DEF Rows
    <3>2. \A k \in Token : tokens[k] \in Rows
      BY DEF IInv, Types
    <3> QED BY <1>3, <3>1, <3>2 DEF Issued
  <2>4. \A k \in TokenOr0 : Spent(k)' <=> Spent(k)
    BY <2>3 DEF Spent
  <2>5. Types'
    BY <1>3, <2>1, <2>2, <2>3 DEF IInv, Types
  <2>6. Kinds' /\ Answers'
    BY <1>1, <2>2 DEF IInv, Kinds, Answers
  <2>7. Waits' /\ NotLeft'
    <3>1. /\ flight \in Handlers \cup {None} /\ login \in Handlers \cup {None}
          /\ call[Out].h \in Handlers \cup {None}
      BY Parts DEF IInv, Types
    <3>2. Waits'
      BY <2>1, <2>2, <3>1 DEF IInv, Waits
    <3>3. NotLeft'
      BY <2>1, <2>2 DEF IInv, NotLeft
    <3> QED BY <3>2, <3>3
  <2>8. /\ held \in TokenOr0 /\ call[Out].tok \in TokenOr0
        /\ \A g \in Handlers : srv[g].tok \in TokenOr0 /\ srv[g].new \in TokenOr0
        /\ \A j \in Token : tokens[j].from \in TokenOr0
        /\ TokenOr0 = Token \cup {0}
    BY Parts DEF IInv, Types
  <2>9. References'
    BY <2>1, <2>2, <2>3, <2>8 DEF IInv, References
  <2>10. SingleSuccessor' /\ HeldIsLive'
    BY <1>3, <2>1, <2>3 DEF IInv, SingleSuccessor, HeldIsLive
  <2>11. ASSUME ~cut PROVE PresentedOnce' /\ NewIsFresh' /\ LogoutAwaited' /\ RefreshFinds'
    <3>1. PresentedOnce /\ NewIsFresh /\ LogoutAwaited /\ RefreshFinds
      BY <2>11 DEF IInv
    <3>2. \A g \in Handlers : Rotating(g)' => Rotating(g)
      BY <2>2 DEF Rotating
    <3>3. PresentedOnce'
      BY <2>1, <2>2, <2>4, <2>8, <3>1, <3>2 DEF PresentedOnce
    <3>4. NewIsFresh'
      BY <1>3, <2>1, <2>2, <2>4, <2>8, <3>1 DEF NewIsFresh
    <3>5. LogoutAwaited' /\ RefreshFinds'
      BY <1>1, <2>1, <2>2, <3>1 DEF LogoutAwaited, RefreshFinds
    <3> QED BY <3>3, <3>4, <3>5
  <2> QED
    BY <2>1, <2>5, <2>6, <2>7, <2>9, <2>10, <2>11 DEF IInv
<1> QED BY <1>2, <1>3 DEF Sweep

-----------------------------------------------------------------------------
(* The tab.                                                                *)

\* What the tab may do to the sessions: drop handlers, hand in a new request,
\* and take a token that was on its way. It gives up a refresh or a logout
\* under way only together with the token it holds.
LEMMA TabStep ==
  ASSUME IInv, Types', UNCHANGED <<tokens, swept>>, cut => cut', left => left',
         held' = held \/ held' = 0
           \/ \E h \in Handlers : held' = srv[h].new /\ srv'[h].new = 0,
         call'[Out].tok \in {0, held, call[Out].tok},
         \A g \in Handlers :
           \/ srv'[g] = srv[g] \/ srv'[g] = Free \/ srv'[g] = Request("login", 0)
           \/ /\ srv'[g] = Request("refresh", held)
              /\ held # 0 /\ flight = None /\ flight' = g
           \/ srv'[g] = Request("logout", call'[Out].tok) /\ call'[Out].tok # 0,
         ~cut' /\ held' = held /\ held # 0 =>
           /\ flight' = flight \/ flight = None
           /\ call[Out] # Idle => call'[Out] # Idle,
         Waits', NotLeft'
  PROVE  IInv'
<1>1. /\ held \in TokenOr0 /\ call[Out].tok \in TokenOr0 /\ call'[Out].tok \in TokenOr0
      /\ 0 \in TokenOr0 /\ TokenOr0 = Token \cup {0}
      /\ \A g \in Handlers : srv[g].tok \in TokenOr0 /\ srv[g].new \in TokenOr0
      /\ None \notin Handlers
  BY Parts, SessionAssumption DEF IInv, Types
<1>2. \A g \in Handlers :
        \/ srv'[g] = srv[g]
        \/ /\ srv'[g].kind = "free" /\ srv'[g].tok = 0 /\ srv'[g].new = 0 /\ srv'[g].pc = "idle"
        \/ /\ srv'[g].kind = "login" /\ srv'[g].tok = 0 /\ srv'[g].new = 0 /\ srv'[g].pc = "create"
        \/ /\ srv'[g].kind = "refresh" /\ srv'[g].tok = held /\ srv'[g].new = 0 /\ srv'[g].pc = "get"
           /\ held # 0 /\ flight = None /\ flight' = g
        \/ /\ srv'[g].kind = "logout" /\ srv'[g].tok = call'[Out].tok /\ srv'[g].new = 0
           /\ srv'[g].pc = "get" /\ call'[Out].tok # 0
  BY <1>1, Fields
<1>3. Kinds' /\ Answers'
  BY <1>2 DEF IInv, Kinds, Answers
<1>4. \A k \in TokenOr0 : (Spent(k)' <=> Spent(k)) /\ (Issued(k)' <=> Issued(k))
                          /\ (Active(k)' <=> Active(k))
  BY DEF Spent, Issued, Active
<1>5. References'
  <2>1. held' # 0 => Issued(held')
    BY DEF IInv, References
  <2>2. call'[Out].tok # 0 => Issued(call'[Out].tok)
    BY DEF IInv, References
  <2>3. \A g \in Handlers : /\ srv'[g].tok # 0 => Issued(srv'[g].tok)
                            /\ srv'[g].new # 0 => Issued(srv'[g].new)
    BY <1>2, <2>2 DEF IInv, References
  <2>4. \A j \in Token : tokens[j].from # 0 => Issued(tokens[j].from)
    BY DEF IInv, References
  <2> QED BY <2>1, <2>2, <2>3, <2>4 DEF References, Issued
<1>6. SingleSuccessor'
  BY DEF IInv, SingleSuccessor
<1>7. ASSUME ~cut'
      PROVE HeldIsLive' /\ PresentedOnce' /\ NewIsFresh' /\ LogoutAwaited' /\ RefreshFinds'
  <2>1. PresentedOnce /\ NewIsFresh /\ LogoutAwaited /\ RefreshFinds /\ HeldIsLive /\ ~cut
    BY <1>7 DEF IInv
  <2>2. \/ held' = 0
        \/ /\ held' = held /\ held # 0 /\ (flight' = flight \/ flight = None)
           /\ call[Out] # Idle => call'[Out] # Idle
        \/ /\ held' \in TokenOr0 /\ held' # 0 /\ ~Spent(held') /\ (Active(held') \/ swept)
           /\ \A g \in Handlers : srv[g].tok # held' /\ srv'[g].new # held'
           /\ held' # held /\ held' # call[Out].tok
    <3>1. CASE held' = held /\ held # 0
      BY <1>7, <3>1
    <3>2. ASSUME NEW h \in Handlers, held' = srv[h].new, srv'[h].new = 0, held' # 0
          PROVE  /\ held' \in TokenOr0 /\ ~Spent(held') /\ (Active(held') \/ swept)
                 /\ \A g \in Handlers : srv[g].tok # held' /\ srv'[g].new # held'
                 /\ held' # held /\ held' # call[Out].tok
      BY <1>1, <1>2, <2>1, <3>2 DEF NewIsFresh
    <3> QED BY <3>1, <3>2
  <2>3. HeldIsLive'
    BY <1>4, <2>1, <2>2 DEF HeldIsLive, Active
  <2>4. PresentedOnce'
    <3>1. \A g \in Handlers : Rotating(g)' =>
            \/ srv'[g] = srv[g] /\ Rotating(g)
            \/ srv'[g].tok = held /\ held # 0 /\ flight = None /\ flight' = g
      BY <1>2 DEF Rotating
    <3>2. \A g \in Handlers : Rotating(g) => srv[g].tok # 0
      BY DEF IInv, Kinds, Rotating
    <3>3. \A g, h \in Handlers : Rotating(g)' /\ Rotating(h)' /\ srv'[g].tok = srv'[h].tok => g = h
      BY <1>1, <2>1, <3>1 DEF PresentedOnce
    <3>4. \A g \in Handlers : Rotating(g)' => ~Spent(srv'[g].tok)
      BY <1>1, <2>1, <3>1 DEF PresentedOnce
    <3>5. \A g \in Handlers : Rotating(g)' /\ srv'[g].tok = held' => flight' = g
      BY <1>1, <2>1, <2>2, <3>1, <3>2 DEF PresentedOnce
    <3>6. held' # 0 /\ Spent(held') => flight' # None
      BY <2>1, <2>2 DEF PresentedOnce
    <3> QED BY <3>3, <3>4, <3>5, <3>6 DEF PresentedOnce, Spent
  <2>5. NewIsFresh'
    <3>1. ASSUME NEW h \in Handlers, srv'[h].new # 0
          PROVE  /\ srv'[h].new # held' /\ srv'[h].new # call'[Out].tok /\ ~Spent(srv'[h].new)
                 /\ \A g \in Handlers : /\ srv'[g].tok # srv'[h].new
                                        /\ srv'[g].new = srv'[h].new => g = h
                 /\ Active(srv'[h].new) \/ swept'
      <4>1. srv'[h] = srv[h]
        BY <1>2, <3>1
      <4>2. srv'[h].new # held' /\ srv'[h].new # call'[Out].tok
        BY <2>1, <2>2, <3>1, <4>1 DEF NewIsFresh
      <4> QED BY <1>2, <2>1, <3>1, <4>1, <4>2 DEF NewIsFresh
    <3> QED BY <3>1 DEF NewIsFresh, Spent, Active
  <2>6. LogoutAwaited'
    <3>1. ASSUME NEW h \in Handlers, srv'[h].kind = "logout", srv'[h].pc \in {"get", "revoke"},
                 srv'[h].tok = held'
          PROVE  call'[Out] # Idle
      <4>1. CASE srv'[h] = srv[h]
        <5>1. srv[h].tok # 0
          BY <3>1, <4>1 DEF IInv, Kinds
        <5> QED BY <2>1, <2>2, <3>1, <4>1, <5>1 DEF LogoutAwaited
      <4>2. CASE call'[Out].tok # 0
        BY <4>2, Fields
      <4> QED BY <1>2, <3>1, <4>1, <4>2
    <3> QED BY <3>1 DEF LogoutAwaited
  <2>7. RefreshFinds'
    <3>1. ASSUME ~left' PROVE ~swept' /\ \A h \in Handlers : srv'[h].pc # "sweep"
      BY <1>2, <2>1, <3>1 DEF RefreshFinds
    <3>2. ASSUME ~left', NEW h \in Handlers, Looking(h)' PROVE Active(srv'[h].tok)
      <4>1. CASE srv'[h] = srv[h]
        BY <2>1, <3>2, <4>1 DEF RefreshFinds, Looking
      <4>2. CASE srv'[h].tok = held /\ held # 0 /\ flight = None
        BY <2>1, <3>2, <4>2 DEF IInv, HeldIsLive, NotLeft, RefreshFinds, Active
      <4> QED BY <1>2, <3>2, <4>1, <4>2 DEF Looking
    <3> QED BY <3>1, <3>2 DEF RefreshFinds, Active
  <2> QED BY <2>3, <2>4, <2>5, <2>6, <2>7
<1>8. HeldIsLive'
  BY <1>7 DEF HeldIsLive
<1> QED
  BY <1>3, <1>5, <1>6, <1>7, <1>8 DEF IInv

\* What is changed in a call that waits.
LEMMA Waiting ==
  ASSUME Types, NEW c \in Asks, call' = [call EXCEPT ![c].at = "wait", ![c].h = None]
  PROVE  /\ call' \in [Asks -> Open] /\ \A d \in Asks : d # c => call'[d] = call[d]
         /\ call'[c].at = "wait" /\ call'[c].tok = call[c].tok /\ call'[c].h = None
<1> DEFINE w == [call[c] EXCEPT !.at = "wait", !.h = None]
<1>1. call \in [Asks -> Open] /\ call[c] \in Open
  BY DEF Types
<1>2. w \in Open /\ w.at = "wait" /\ w.tok = call[c].tok /\ w.h = None
  BY <1>1 DEF Open
<1>3. call' = [call EXCEPT ![c] = w]
  OBVIOUS
<1> HIDE DEF w
<1> QED BY <1>1, <1>2, <1>3

\* A call or the logout of the tab awaits a refresh, or gives up without one.
\* The handler it leaves, if any, is one of a logout.
LEMMA AwaitStep ==
  ASSUME IInv, NEW c \in Asks, call[c] # Idle, UNCHANGED <<tokens, login, left, swept, cut>>,
         call' \in [Asks -> Open], \A d \in Asks : d # c => call'[d] = call[d],
         srv' \in [Handlers -> Requests],
         \A g \in Handlers :
           \/ srv'[g] = srv[g]
           \/ srv'[g] = Free /\ c = Out /\ srv[g].kind = "logout"
           \/ /\ srv'[g] = Request("refresh", held) /\ flight = None /\ flight' = g /\ held # 0
              /\ srv[g].kind = "free" \/ (c = Out /\ srv[g].kind = "logout"),
         \/ /\ call'[c].at = "wait" /\ call'[c].tok = call[c].tok /\ call'[c].h = None
            /\ UNCHANGED <<held, leaving, out>>
         \/ held = 0 /\ leaving' = TRUE /\ Settle(c),
         \/ flight' = flight
         \/ flight = None /\ flight' \in Handlers /\ srv'[flight'] = Request("refresh", held)
  PROVE  IInv'
<1>1. /\ flight \in Handlers \cup {None} /\ login \in Handlers \cup {None} /\ None \notin Handlers
      /\ call[Out].h \in Handlers \cup {None} /\ Out \in Asks /\ held \in TokenOr0
      /\ leaving \in BOOLEAN /\ out \in BOOLEAN /\ call \in [Asks -> Open]
  BY Parts, SessionAssumption DEF IInv, Types
<1>2. /\ flight # None => srv[flight].kind = "refresh"
      /\ login # None => srv[login].kind = "login"
      /\ call[Out].h # None => srv[call[Out].h].kind = "logout"
      /\ call[Out] # Idle => call[Out].at # "idle" /\ call[Out].tok # 0
      /\ ~left => c # Out /\ call[Out] = Idle /\ \A g \in Handlers : srv[g].kind # "logout"
  BY DEF IInv, Waits, NotLeft
<1>3. (c # Out => call'[Out] = call[Out]) /\ Idle.tok = 0
  BY <1>1, Fields
<1>4. /\ held' \in TokenOr0 /\ leaving' \in BOOLEAN /\ out' \in BOOLEAN
      /\ held' = held \/ held' = 0
      /\ held' # 0 => \/ call'[c].at = "wait" /\ call'[c].tok = call[c].tok /\ call'[c].h = None
                      \/ c # Out
      /\ c = Out => \/ call'[Out].at = "wait" /\ call'[Out].tok = call[Out].tok /\ call'[Out].h = None
                    \/ call'[Out] = Idle
  BY <1>1 DEF Settle, TokenOr0
<1>5. Types'
  BY <1>1, <1>4 DEF IInv, Types
<1>6. \A g \in Handlers : /\ srv[g].kind = "login" => srv'[g] = srv[g]
                          /\ srv[g].kind = "refresh" => srv'[g] = srv[g]
                          /\ c # Out /\ srv[g].kind = "logout" => srv'[g] = srv[g]
                          /\ srv'[g].kind = "logout" => srv[g].kind = "logout"
  BY <1>1, Fields
<1>7. Waits'
  <2>1. flight' # None => srv'[flight'].kind = "refresh"
    BY <1>1, <1>2, <1>6, Fields
  <2>2. login' # None => srv'[login'].kind = "login"
    BY <1>1, <1>2, <1>6
  <2>3. call'[Out].h # None => srv'[call'[Out].h].kind = "logout"
    BY <1>1, <1>2, <1>3, <1>4, <1>6, Fields
  <2>4. call'[Out] # Idle => call'[Out].at # "idle" /\ call'[Out].tok # 0
    BY <1>2, <1>3, <1>4
  <2> QED BY <2>1, <2>2, <2>3, <2>4 DEF Waits
<1>8. NotLeft'
  BY <1>2, <1>3, <1>6 DEF NotLeft
<1>9. /\ call'[Out].tok \in {0, held, call[Out].tok}
      /\ held' # 0 /\ call[Out] # Idle => call'[Out] # Idle
  BY <1>3, <1>4, Fields
<1> QED BY <1>4, <1>5, <1>7, <1>8, <1>9, TabStep

\* The calls of the pages: sent, refused, answered.
LEMMA CallSteps ==
  ASSUME IInv, NEW c \in Asks,
         (c \in Calls /\ (StartCall(c) \/ Unauthorized(c))) \/ Return(c)
  PROVE  IInv'
<1>1. /\ srv \in [Handlers -> Requests] /\ call \in [Asks -> Open] /\ Out \in Asks
      /\ leaving \in BOOLEAN /\ out \in BOOLEAN /\ 0 \in TokenOr0 /\ held \in TokenOr0
  BY Parts DEF IInv, Types
<1>2. CASE c \in Calls /\ StartCall(c)
  <2>1. [Idle EXCEPT !.at = "sent"] \in Open
    BY RecordTypes DEF Open
  <2>2. call' \in [Asks -> Open] /\ call'[Out] = call[Out]
    BY <1>1, <1>2, <2>1, SessionAssumption DEF StartCall
  <2>3. UNCHANGED <<tokens, srv, held, flight, login, leaving, left, swept, out, cut>>
    BY <1>2 DEF StartCall, server, ghosts
  <2>4. Types' /\ Waits' /\ NotLeft'
    BY <2>2, <2>3 DEF IInv, Types, Waits, NotLeft
  <2> QED BY <2>2, <2>3, <2>4, TabStep
<1>3. CASE c \in Calls /\ Unauthorized(c)
  <2>1. call[c] # Idle
    BY <1>3, Fields DEF Unauthorized
  <2>2. UNCHANGED <<tokens, login, left, swept, cut>> /\ AwaitRefresh(c, srv)
    BY <1>3 DEF Unauthorized
  <2>3. CASE /\ Flying /\ srv' = srv /\ UNCHANGED <<held, flight, leaving, out>>
             /\ call' = [call EXCEPT ![c].at = "wait", ![c].h = None]
    BY <1>1, <2>1, <2>2, <2>3, Waiting, AwaitStep DEF IInv
  <2>4. ASSUME NEW h \in Handlers, ~Flying, held # 0, srv[h] = Free,
               call' = [call EXCEPT ![c].at = "wait", ![c].h = None],
               srv' = [srv EXCEPT ![h] = Request("refresh", held)], flight' = h,
               UNCHANGED <<held, leaving, out>>
        PROVE  IInv'
    <3>1. /\ srv' \in [Handlers -> Requests] /\ srv'[h] = Request("refresh", held)
          /\ flight = None /\ srv[h].kind = "free"
          /\ \A g \in Handlers : g # h => srv'[g] = srv[g]
      <4>1. Request("refresh", held) \in Requests /\ flight = None
        BY <1>1, <2>4, RecordTypes DEF Flying
      <4> QED BY <1>1, <2>4, <4>1, Fields
    <3>2. /\ call' \in [Asks -> Open] /\ \A d \in Asks : d # c => call'[d] = call[d]
          /\ call'[c].at = "wait" /\ call'[c].tok = call[c].tok /\ call'[c].h = None
      BY <2>4, Waiting DEF IInv
    <3>3. flight' \in Handlers /\ flight' = h /\ UNCHANGED <<held, leaving, out>> /\ held # 0
      BY <2>4
    <3>4. \A g \in Handlers :
            \/ srv'[g] = srv[g]
            \/ /\ srv'[g] = Request("refresh", held) /\ flight = None /\ flight' = g /\ held # 0
               /\ srv[g].kind = "free"
      BY <3>1, <3>3
    <3>5. flight = None /\ flight' \in Handlers /\ srv'[flight'] = Request("refresh", held)
      BY <3>1, <3>3
    <3>6. srv' \in [Handlers -> Requests] /\ UNCHANGED <<held, leaving, out>>
      BY <3>1, <3>3
    <3> QED BY <2>1, <2>2, <3>2, <3>4, <3>5, <3>6, AwaitStep
  <2>5. CASE held = 0 /\ leaving' = TRUE /\ Settle(c) /\ srv' = srv /\ UNCHANGED flight
    <3>1. call' \in [Asks -> Open] /\ \A d \in Asks : d # c => call'[d] = call[d]
      BY <1>1, <2>5, RecordTypes DEF Settle
    <3> QED BY <1>1, <2>1, <2>2, <2>5, <3>1, AwaitStep
  <2> QED BY <2>2, <2>3, <2>4, <2>5 DEF AwaitRefresh
<1>4. CASE Return(c)
  <2>1. /\ call' \in [Asks -> Open] /\ call'[c] = Idle /\ (c # Out => call'[Out] = call[Out])
        /\ (c = Out => held' = 0) /\ (c # Out => held' = held) /\ out' \in BOOLEAN
    BY <1>1, <1>4, RecordTypes DEF Return, Settle
  <2>2. UNCHANGED <<tokens, srv, flight, login, leaving, left, swept, cut>>
    BY <1>4 DEF Return, server
  <2>3. Types'
    BY <1>1, <2>1, <2>2 DEF IInv, Types
  <2>4. Waits' /\ NotLeft'
    BY <2>1, <2>2, Fields DEF IInv, Waits, NotLeft
  <2>5. call'[Out].tok \in {0, held, call[Out].tok}
    BY <2>1, Fields
  <2> QED BY <2>1, <2>2, <2>3, <2>4, <2>5, TabStep
<1> QED BY <1>2, <1>3, <1>4

\* Logging out.
LEMMA LogoutSteps ==
  ASSUME IInv, NEW h \in Handlers, StartLogout(h) \/ AnswerLogout(h)
  PROVE  IInv'
<1>1. /\ srv \in [Handlers -> Requests] /\ call \in [Asks -> Open] /\ Out \in Asks
      /\ leaving \in BOOLEAN /\ out \in BOOLEAN /\ 0 \in TokenOr0 /\ held \in TokenOr0
      /\ flight \in Handlers \cup {None} /\ login \in Handlers \cup {None}
      /\ None \notin Handlers
  BY Parts, SessionAssumption DEF IInv, Types
<1>2. CASE StartLogout(h)
  <2> DEFINE r == [at |-> "sent", tok |-> held, h |-> h]
  <2>1. r \in Open /\ r.at = "sent" /\ r.tok = held /\ r.h = h /\ held # 0
    BY <1>1, <1>2 DEF Open, StartLogout
  <2>2. call' \in [Asks -> Open] /\ call'[Out] = r
    BY <1>1, <1>2, <2>1 DEF StartLogout
  <2> HIDE DEF r
  <2>3. /\ srv' \in [Handlers -> Requests] /\ srv'[h] = Request("logout", held)
        /\ \A g \in Handlers : g # h => srv'[g] = srv[g]
    BY <1>1, <1>2, RecordTypes DEF StartLogout
  <2>4. UNCHANGED <<tokens, held, flight, login, leaving, swept, out, cut>> /\ left' = TRUE
    BY <1>2 DEF StartLogout
  <2>5. Types'
    BY <1>1, <2>2, <2>3, <2>4 DEF IInv, Types
  <2>6. srv[h].kind = "free" /\ srv'[h].kind = "logout"
    BY <1>1, <1>2, <2>3, Fields DEF StartLogout
  <2>7. Waits' /\ NotLeft'
    BY <1>1, <2>1, <2>2, <2>3, <2>4, <2>6 DEF IInv, Waits, NotLeft
  <2>8. call'[Out] # Idle
    BY <2>1, <2>2, Fields
  <2> QED BY <2>1, <2>2, <2>3, <2>4, <2>5, <2>7, <2>8, TabStep
<1>3. CASE AnswerLogout(h)
  <2> DEFINE free == [srv EXCEPT ![h] = Free]
  <2>1. /\ srv[h].kind = "logout" /\ call[Out] # Idle
        /\ UNCHANGED <<tokens, login, left, swept, cut>>
    <3>1. call[Out].h = h
      BY <1>3 DEF AnswerLogout
    <3> QED BY <1>1, <1>3, <3>1, Fields DEF AnswerLogout, IInv, Waits
  <2>2. /\ free \in [Handlers -> Requests] /\ free[h] = Free
        /\ \A g \in Handlers : g # h => free[g] = srv[g]
    BY <1>1, RecordTypes
  <2>3. \/ AwaitRefresh(Out, free)
        \/ Settle(Out) /\ srv' = free /\ UNCHANGED <<flight, leaving>>
    BY <1>3 DEF AnswerLogout
  <2> HIDE DEF free
  <2>4. CASE AwaitRefresh(Out, free)
    <3>1. CASE /\ Flying /\ srv' = free /\ UNCHANGED <<held, flight, leaving, out>>
               /\ call' = [call EXCEPT ![Out].at = "wait", ![Out].h = None]
      BY <1>1, <2>1, <2>2, <3>1, Waiting, AwaitStep DEF IInv
    <3>2. ASSUME NEW g \in Handlers, ~Flying, held # 0, free[g] = Free,
                 call' = [call EXCEPT ![Out].at = "wait", ![Out].h = None],
                 srv' = [free EXCEPT ![g] = Request("refresh", held)], flight' = g,
                 UNCHANGED <<held, leaving, out>>
          PROVE  IInv'
      <4>1. /\ srv' \in [Handlers -> Requests] /\ srv'[g] = Request("refresh", held)
            /\ flight = None
            /\ \A f \in Handlers : f # g => srv'[f] = free[f]
            /\ srv[g].kind = "free" \/ srv[g].kind = "logout"
        <5>1. Request("refresh", held) \in Requests /\ flight = None
          BY <1>1, <3>2, RecordTypes DEF Flying
        <5> QED BY <1>1, <2>1, <2>2, <3>2, <5>1, Fields
      <4>2. /\ call' \in [Asks -> Open] /\ \A d \in Asks : d # Out => call'[d] = call[d]
            /\ call'[Out].at = "wait" /\ call'[Out].tok = call[Out].tok /\ call'[Out].h = None
        BY <1>1, <3>2, Waiting DEF IInv
      <4>3. flight' \in Handlers /\ flight' = g /\ UNCHANGED <<held, leaving, out>> /\ held # 0
        BY <3>2
      <4>4. \A f \in Handlers :
              \/ srv'[f] = srv[f]
              \/ srv'[f] = Free /\ srv[f].kind = "logout"
              \/ /\ srv'[f] = Request("refresh", held) /\ flight = None /\ flight' = f /\ held # 0
                 /\ srv[f].kind = "free" \/ srv[f].kind = "logout"
        BY <2>1, <2>2, <4>1, <4>3
      <4>5. flight = None /\ flight' \in Handlers /\ srv'[flight'] = Request("refresh", held)
        BY <4>1, <4>3
      <4>6. srv' \in [Handlers -> Requests] /\ UNCHANGED <<held, leaving, out>> /\ Out \in Asks
        BY <1>1, <4>1, <4>3
      <4> QED BY <2>1, <4>2, <4>4, <4>5, <4>6, AwaitStep
    <3>3. CASE held = 0 /\ leaving' = TRUE /\ Settle(Out) /\ srv' = free /\ UNCHANGED flight
      <4>1. call' \in [Asks -> Open] /\ \A d \in Asks : d # Out => call'[d] = call[d]
        BY <1>1, <3>3, RecordTypes DEF Settle
      <4> QED BY <1>1, <2>1, <2>2, <3>3, <4>1, AwaitStep
    <3> QED BY <2>4, <3>1, <3>2, <3>3 DEF AwaitRefresh
  <2>5. CASE Settle(Out) /\ srv' = free /\ UNCHANGED <<flight, leaving>>
    <3>1. /\ call' \in [Asks -> Open] /\ call'[Out] = Idle /\ held' = 0 /\ out' \in BOOLEAN
      BY <1>1, <2>5, RecordTypes DEF Settle
    <3>2. Types'
      BY <1>1, <2>1, <2>2, <2>5, <3>1 DEF IInv, Types
    <3>3. Waits' /\ NotLeft'
      BY <1>1, <2>1, <2>2, <2>5, <3>1, Fields DEF IInv, Waits, NotLeft
    <3>4. call'[Out].tok \in {0, held, call[Out].tok}
      BY <3>1, Fields
    <3> QED BY <2>1, <2>2, <2>5, <3>1, <3>2, <3>3, <3>4, TabStep
  <2> QED BY <2>3, <2>4, <2>5
<1> QED BY <1>2, <1>3

\* The answer of a refresh; the tab takes the new token over, or drops its own.
LEMMA RefreshSteps ==
  ASSUME IInv, NEW h \in Handlers, Refreshed(h) \/ RefreshFails(h)
  PROVE  IInv'
<1>1. /\ srv \in [Handlers -> Requests] /\ call \in [Asks -> Open] /\ Out \in Asks
      /\ leaving \in BOOLEAN /\ out \in BOOLEAN /\ 0 \in TokenOr0
      /\ flight \in Handlers \cup {None} /\ login \in Handlers \cup {None}
      /\ None \notin Handlers /\ call[Out].h \in Handlers \cup {None}
      /\ call[Out].tok \in TokenOr0 /\ srv[h].new \in TokenOr0
  BY Parts, SessionAssumption DEF IInv, Types
<1>2. flight = h /\ srv[h].kind = "refresh" /\ UNCHANGED <<tokens, login, left, swept, cut>>
  BY <1>1 DEF IInv, Waits, Refreshed, RefreshFails, ghosts
<1>3. /\ login # None => login # h /\ srv[login].kind = "login"
      /\ call[Out].h # None => call[Out].h # h /\ srv[call[Out].h].kind = "logout"
      /\ call[Out] # Idle => call[Out].at # "idle" /\ call[Out].tok # 0
      /\ ~left => call[Out] = Idle /\ \A g \in Handlers : srv[g].kind # "logout"
  BY <1>1, <1>2 DEF IInv, Waits, NotLeft
<1>4. CASE Refreshed(h)
  <2>1. /\ srv[h].new # 0 /\ held' = srv[h].new /\ flight' = None
        /\ UNCHANGED <<leaving, out>>
    BY <1>2, <1>4 DEF IInv, Answers, Refreshed, ghosts
  <2>2. ~cut' => held' # held
    BY <1>2, <2>1 DEF IInv, NewIsFresh
  <2>3. ASSUME NEW c \in Asks
        PROVE  /\ Resent(c, h) \in Open /\ Resent(c, h).tok = call[c].tok
               /\ Resent(c, h).at = "resent" /\ (c = Out => Resent(c, h).h = h)
    <3> DEFINE x == IF c = Out THEN h ELSE None
    <3>1. x \in Handlers \cup {None} /\ (c = Out => x = h)
      OBVIOUS
    <3>2. Resent(c, h) = [call[c] EXCEPT !.at = "resent", !.h = x]
      BY Zenon DEF Resent
    <3> HIDE DEF x
    <3>3. call[c] \in Open
      BY <1>1
    <3>4. /\ [call[c] EXCEPT !.at = "resent", !.h = x] \in Open
          /\ [call[c] EXCEPT !.at = "resent", !.h = x].tok = call[c].tok
          /\ [call[c] EXCEPT !.at = "resent", !.h = x].at = "resent"
          /\ [call[c] EXCEPT !.at = "resent", !.h = x].h = x
      BY <3>1, <3>3 DEF Open
    <3> QED BY Zenon, <3>1, <3>2, <3>4
  <2>4. /\ call' \in [Asks -> Open] /\ call'[Out].tok = call[Out].tok
        /\ Woken(Out) => call'[Out].at = "resent" /\ call'[Out].h = h
        /\ ~Woken(Out) => call'[Out] = call[Out]
    BY <1>1, <1>4, <2>3 DEF Refreshed
  <2>5. Woken(Out) => call[Out] # Idle
    BY Fields DEF Woken
  <2>6. /\ srv' \in [Handlers -> Requests]
        /\ Woken(Out) => srv'[h] = Request("logout", call[Out].tok)
        /\ ~Woken(Out) => srv'[h] = Free
        /\ \A g \in Handlers : g # h => srv'[g] = srv[g]
    BY <1>1, <1>4, RecordTypes DEF Refreshed
  <2>7. srv'[h].new = 0 /\ (Woken(Out) => srv'[h].kind = "logout")
        /\ (~Woken(Out) => srv'[h].kind = "free")
    BY <1>1, <2>6, Fields
  <2>8. Types'
    BY <1>1, <1>2, <2>1, <2>4, <2>6 DEF IInv, Types
  <2>9. Waits'
    BY <1>1, <1>2, <1>3, <2>1, <2>4, <2>5, <2>6, <2>7 DEF Waits
  <2>10. NotLeft'
    BY <1>2, <1>3, <2>4, <2>5, <2>6, <2>7 DEF NotLeft
  <2>11. \A g \in Handlers :
           \/ srv'[g] = srv[g] \/ srv'[g] = Free
           \/ srv'[g] = Request("logout", call'[Out].tok) /\ call'[Out].tok # 0
    BY <1>3, <2>4, <2>5, <2>6
  <2> QED BY <1>2, <2>1, <2>2, <2>4, <2>7, <2>8, <2>9, <2>10, <2>11, TabStep
<1>5. CASE RefreshFails(h)
  <2>1. held' = 0 /\ flight' = None /\ leaving' = TRUE
    BY <1>5 DEF RefreshFails, AfterFailure
  <2>2. /\ call' \in [Asks -> Open] /\ (call'[Out] = call[Out] \/ call'[Out] = Idle)
    BY <1>1, <1>5, RecordTypes DEF RefreshFails
  <2>3. /\ srv' \in [Handlers -> Requests]
        /\ \A g \in Handlers : srv'[g] = srv[g] \/ (srv'[g] = Free /\ g = h)
    BY <1>1, <1>5, RecordTypes DEF RefreshFails
  <2>4. out' \in BOOLEAN
    BY <1>1, <1>5 DEF RefreshFails
  <2>5. Types'
    BY <1>1, <1>2, <2>1, <2>2, <2>3, <2>4 DEF IInv, Types
  <2>6. Waits' /\ NotLeft'
    BY <1>1, <1>2, <1>3, <2>1, <2>2, <2>3, Fields DEF Waits, NotLeft
  <2>7. call'[Out].tok \in {0, held, call[Out].tok}
    BY <2>2, Fields
  <2> QED BY <1>2, <2>1, <2>2, <2>3, <2>5, <2>6, <2>7, TabStep
<1> QED BY <1>4, <1>5

\* Logging in again, and answers nobody waits for.
LEMMA LoginSteps ==
  ASSUME IInv, NEW h \in Handlers, StartLogin(h) \/ AnswerLogin(h) \/ Discard(h)
  PROVE  IInv'
<1>1. /\ srv \in [Handlers -> Requests] /\ out \in BOOLEAN /\ 0 \in TokenOr0
      /\ flight \in Handlers \cup {None} /\ login \in Handlers \cup {None}
      /\ None \notin Handlers /\ call[Out].h \in Handlers \cup {None}
      /\ srv[h].new \in TokenOr0
  BY Parts, SessionAssumption DEF IInv, Types
<1>2. CASE StartLogin(h)
  <2>1. UNCHANGED <<tokens, held, flight, call, leaving, left, swept, out, cut>>
        /\ login' = h /\ held = 0
    BY <1>2 DEF StartLogin, ghosts
  <2>2. /\ srv' \in [Handlers -> Requests] /\ srv'[h] = Request("login", 0)
        /\ \A g \in Handlers : g # h => srv'[g] = srv[g]
    BY <1>1, <1>2, RecordTypes DEF StartLogin
  <2>3. srv[h].kind = "free" /\ srv'[h].kind = "login"
    BY <1>1, <1>2, <2>2, Fields DEF StartLogin
  <2>4. Types'
    BY <2>1, <2>2 DEF IInv, Types
  <2>5. Waits' /\ NotLeft'
    BY <1>1, <2>1, <2>2, <2>3 DEF IInv, Waits, NotLeft
  <2> QED BY <2>1, <2>2, <2>4, <2>5, TabStep
<1>3. CASE AnswerLogin(h)
  <2>1. UNCHANGED <<tokens, flight, call, leaving, left, swept, cut>> /\ login' = None
        /\ srv[h].kind = "login" /\ srv[h].tok = 0
    BY <1>1, <1>3 DEF AnswerLogin, IInv, Waits, Kinds
  <2>2. /\ srv' \in [Handlers -> Requests] /\ srv'[h] = Free
        /\ \A g \in Handlers : g # h => srv'[g] = srv[g]
    BY <1>1, <1>3, RecordTypes DEF AnswerLogin
  <2>3. held' \in {held, srv[h].new} /\ out' \in {FALSE, out}
    BY <1>3 DEF AnswerLogin
  <2>4. Types'
    BY <1>1, <2>1, <2>2, <2>3 DEF IInv, Types
  <2>5. srv'[h].kind = "free" /\ srv'[h].new = 0
    BY <2>2, Fields
  <2>6. Waits' /\ NotLeft'
    BY <1>1, <2>1, <2>2, <2>5 DEF IInv, Waits, NotLeft
  <2> QED BY <2>1, <2>2, <2>3, <2>4, <2>5, <2>6, TabStep
<1>4. CASE Discard(h)
  <2>1. UNCHANGED <<tokens, held, flight, call, login, leaving, left, swept, out, cut>>
    BY <1>4 DEF Discard, tab, ghosts
  <2>2. /\ srv' \in [Handlers -> Requests] /\ srv'[h] = Free
        /\ \A g \in Handlers : g # h => srv'[g] = srv[g]
    BY <1>1, <1>4, RecordTypes DEF Discard
  <2>3. h # flight /\ h # login /\ h # call[Out].h /\ srv'[h].kind = "free"
    BY <1>4, <2>2, Fields DEF Discard, Awaited
  <2>4. Types'
    BY <2>1, <2>2 DEF IInv, Types
  <2>5. Waits' /\ NotLeft'
    BY <1>1, <2>1, <2>2, <2>3 DEF IInv, Waits, NotLeft
  <2> QED BY <2>1, <2>2, <2>4, <2>5, TabStep
<1> QED BY <1>2, <1>3, <1>4

\* What the tab forgets.
LEMMA ForgetSteps ==
  ASSUME IInv, LoginLost \/ Load
  PROVE  IInv'
<1>1. /\ call \in [Asks -> Open] /\ Out \in Asks /\ cut \in BOOLEAN
      /\ flight \in Handlers \cup {None}
  BY Parts DEF IInv, Types
<1>2. CASE LoginLost
  <2>1. UNCHANGED <<tokens, srv, held, flight, call, leaving, left, swept, out, cut>>
        /\ login' = None
    BY <1>2 DEF LoginLost, server, ghosts
  <2>2. Types' /\ Waits' /\ NotLeft'
    BY <2>1 DEF IInv, Types, Waits, NotLeft
  <2> QED BY <2>1, <2>2, TabStep
<1>3. CASE Load
  <2>1. UNCHANGED <<tokens, srv, held, left, swept, out>>
        /\ flight' = None /\ login' = None /\ leaving' = FALSE
    BY <1>3 DEF Load, server
  <2>2. call' \in [Asks -> Open] /\ call'[Out] = Idle
    BY <1>1, <1>3, RecordTypes DEF Load
  <2>3. cut' = (cut \/ flight # None \/ call[Out] # Idle)
    BY <1>3 DEF Load
  <2>4. cut' \in BOOLEAN
    BY <2>3
  <2>5. Types'
    BY <2>1, <2>2, <2>4 DEF IInv, Types
  <2>6. Waits' /\ NotLeft'
    BY <2>1, <2>2, Fields DEF IInv, Waits, NotLeft
  <2>7. call'[Out].tok \in {0, held, call[Out].tok}
    BY <2>2, Fields
  <2>8. cut => cut'
    BY <2>3
  <2>9. ~cut' => flight = None /\ call[Out] = Idle
    BY <2>3
  <2> QED BY <2>1, <2>5, <2>6, <2>7, <2>8, <2>9, TabStep
<1> QED BY <1>2, <1>3

-----------------------------------------------------------------------------
(* The theorems.                                                           *)

\* The user has just logged in: one active token, and nothing under way.
LEMMA InitIInv == Init => IInv
<1> SUFFICES ASSUME Init PROVE IInv
  OBVIOUS
<1>1. /\ srv \in [Handlers -> Requests] /\ \A h \in Handlers : srv[h] = Free
      /\ call \in [Asks -> Open] /\ call[Out] = Idle
  BY RecordTypes DEF Init, Asks
<1>2. 1 \in Token /\ TokenOr0 = Token \cup {0}
  BY SessionAssumption DEF Token, TokenOr0
<1>3. /\ [NoToken EXCEPT !.state = "active"] \in Rows
      /\ [NoToken EXCEPT !.state = "active"].state = "active"
      /\ [NoToken EXCEPT !.state = "active"].from = 0
      /\ NoToken \in Rows /\ NoToken.from = 0
  BY <1>2 DEF NoToken, Rows
<1>4. /\ tokens \in [Token -> Rows] /\ tokens[1].state = "active"
      /\ \A k \in Token : tokens[k].from = 0
  BY <1>2, <1>3 DEF Init
<1>5. /\ held = 1 /\ flight = None /\ login = None /\ leaving = FALSE /\ left = FALSE
      /\ swept = FALSE /\ out = FALSE /\ cut = FALSE
  BY DEF Init
<1>6. Types
  BY <1>1, <1>2, <1>4, <1>5 DEF Types
<1>7. Kinds /\ Answers /\ Waits /\ NotLeft
  BY <1>1, <1>5, Fields DEF Kinds, Answers, Waits, NotLeft
<1>8. References /\ SingleSuccessor /\ HeldIsLive
  BY <1>1, <1>4, <1>5, Fields DEF References, SingleSuccessor, HeldIsLive, Issued
<1>9. PresentedOnce /\ NewIsFresh /\ LogoutAwaited /\ RefreshFinds
  BY <1>1, <1>2, <1>4, <1>5, Fields
     DEF PresentedOnce, NewIsFresh, LogoutAwaited, RefreshFinds, Rotating, Looking, Spent
<1> QED BY <1>6, <1>7, <1>8, <1>9 DEF IInv

\* Every step keeps the invariant.
LEMMA NextIInv == IInv /\ [Next]_vars => IInv'
<1> SUFFICES ASSUME IInv, [Next]_vars PROVE IInv'
  OBVIOUS
<1>1. CASE UNCHANGED vars
  BY <1>1 DEF vars, IInv, Types, Kinds, Answers, Waits, References, NotLeft, SingleSuccessor,
              HeldIsLive, PresentedOnce, NewIsFresh, LogoutAwaited, RefreshFinds, Issued, Active,
              Spent, Rotating, Looking
<1>2. ASSUME NEW h \in Handlers, Serve(h) PROVE IInv'
  BY <1>2, AdvanceSteps, RevokeStep, CreateStep, SweepStep, LoginSteps DEF Serve, Statement
<1>3. ASSUME NEW h \in Handlers, Deliver(h) \/ StartLogout(h) \/ StartLogin(h) PROVE IInv'
  BY <1>3, LogoutSteps, RefreshSteps, LoginSteps DEF Deliver
<1>4. ASSUME NEW c \in Calls, StartCall(c) \/ Unauthorized(c) PROVE IInv'
  BY <1>4, CallSteps DEF Asks
<1>5. ASSUME NEW c \in Asks, Return(c) PROVE IInv'
  BY <1>5, CallSteps
<1>6. CASE LoginLost \/ Load
  BY <1>6, ForgetSteps
<1> QED BY <1>1, <1>2, <1>3, <1>4, <1>5, <1>6 DEF Next

\* The inductive invariant of the sessions holds in every reachable state
\* (auth_service.go:154-330, client.ts:26-86, useLogout.ts, useLogin.ts).
THEOREM SessionsInvariant == Spec => []IInv
<1> QED BY InitIInv, NextIInv, PTL DEF Spec

\* Tokens, handlers and calls keep their types.
THEOREM SessionsTypes == Spec => []TypeOK
<1>1. IInv => TypeOK
  BY TypesAreTypeOK DEF IInv
<1> QED BY <1>1, SessionsInvariant, PTL

\* A refresh token is exchanged at most once (auth_service.go:263), although
\* looking it up, revoking it and storing its successor are three statements:
\* the tab's single refresh promise (client.ts:26) presents each token once.
THEOREM SingleSuccessorHolds == Spec => []SingleSuccessor
<1>1. IInv => SingleSuccessor
  BY DEF IInv
<1> QED BY <1>1, SessionsInvariant, PTL

\* A tab that waits for nothing holds no token that a refresh has rotated or
\* a logout revoked (client.ts:32-43): a failed refresh drops it.
THEOREM HeldIsLiveHolds == Spec => []HeldIsLive
<1>1. IInv => HeldIsLive
  BY DEF IInv
<1> QED BY <1>1, SessionsInvariant, PTL

\* Reuse detection (auth_service.go:253) is never set off by the tab alone:
\* before a logout or a page load, whoever looks up a token finds it active.
THEOREM SweptHasCauseHolds == Spec => []SweptHasCause
<1>1. IInv => SweptHasCause
  BY DEF IInv, RefreshFinds, SweptHasCause
<1> QED BY <1>1, SessionsInvariant, PTL

=============================================================================
