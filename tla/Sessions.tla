------------------------------ MODULE Sessions ------------------------------
(***************************************************************************)
(* A user's login session: the refresh tokens of the server                *)
(* (internal/service/auth_service.go) and the browser tab that holds them  *)
(* (frontend/src/api/client.ts, stores/auth.ts, useLogin, useLogout).      *)
(*                                                                         *)
(* The authentication handlers run without a transaction: every SQL        *)
(* statement commits on its own, so a handler of Refresh, Logout or Login  *)
(* is a row of steps that others may come between, and one that fails      *)
(* leaves what it did. The tab runs JavaScript: between two awaits nothing *)
(* else of it happens. All its API calls share one refresh promise. The    *)
(* access token that comes with each refresh token is checked without the  *)
(* database; when it expires is up to the clock, so any API call may be    *)
(* answered with 401.                                                      *)
(***************************************************************************)
EXTENDS Naturals

CONSTANTS
  Calls,      \* API calls the tab may have open at the same time
  Handlers,   \* authentication requests the server may be serving
  MaxToken,   \* bound: refresh tokens issued over a whole behaviour
  Disturb,    \* which of "logout" and "reload" the user does
  None

Out  == "logout"          \* the logout mutation, a call like the others
Asks == Calls \cup {Out}

ASSUME SessionAssumption ==
  /\ MaxToken \in Nat \ {0}
  /\ Disturb \subseteq {"logout", "reload"}
  /\ Out \notin Calls
  /\ None \notin Handlers

VARIABLES
  tokens,     \* rows of refresh_tokens
  srv,        \* what each handler of the server is doing
  held,       \* the refresh token in the tab's store, 0 for none
  flight,     \* the handler refreshPromise waits for
  call,       \* the API calls of the tab
  login,      \* the handler the login form waits for
  leaving,    \* window.location.href was set, the page is not yet gone
  left,       \* a logout has been sent
  swept,      \* reuse detection has revoked every session of the user
  out,        \* a logout settled, and no login succeeded since
  cut         \* a page load has dropped a refresh or a logout under way

server == <<tokens, srv>>
tab    == <<held, flight, call, login, leaving>>
ghosts == <<left, swept, out, cut>>
vars   == <<tokens, srv, held, flight, call, login, leaving,
            left, swept, out, cut>>

Token    == 1 .. MaxToken
TokenOr0 == 0 .. MaxToken

(* "from" is the token a token was rotated out of, 0 after a login. *)
NoToken == [state |-> "none", from |-> 0]
Free    == [kind |-> "free", tok |-> 0, pc |-> "idle", new |-> 0]
Idle    == [at |-> "idle", tok |-> 0, h |-> None]

Awaited == {flight, login, call[Out].h}

TypeOK ==
  /\ tokens \in [Token -> [state : {"none", "active", "revoked"}, from : TokenOr0]]
  /\ srv \in [Handlers -> [kind : {"free", "refresh", "logout", "login"},
                           tok : TokenOr0, new : TokenOr0,
                           pc : {"idle", "get", "revoke", "create", "sweep",
                                 "200", "401", "500"}]]
  /\ held \in TokenOr0
  /\ flight \in Handlers \cup {None}
  /\ call \in [Asks -> [at : {"idle", "sent", "wait", "resent"},
                        tok : TokenOr0, h : Handlers \cup {None}]]
  /\ login \in Handlers \cup {None}
  /\ leaving \in BOOLEAN
  /\ left \in BOOLEAN
  /\ swept \in BOOLEAN
  /\ out \in BOOLEAN
  /\ cut \in BOOLEAN

(* The user has just logged in. *)
Init ==
  /\ tokens = [k \in Token |-> IF k = 1 THEN [NoToken EXCEPT !.state = "active"]
                               ELSE NoToken]
  /\ srv = [h \in Handlers |-> Free]
  /\ held = 1
  /\ flight = None
  /\ call = [c \in Asks |-> Idle]
  /\ login = None
  /\ leaving = FALSE
  /\ left = FALSE
  /\ swept = FALSE
  /\ out = FALSE
  /\ cut = FALSE
-----------------------------------------------------------------------------
(* The server. *)

Request(kind, k) ==
  [kind |-> kind, tok |-> k, new |-> 0,
   pc |-> IF kind = "login" THEN "create" ELSE "get"]

Proceed(h, label) == srv' = [srv EXCEPT ![h].pc = label]

(* GetByJTI and the is_revoked check. *)
GetByJTI(h) ==
  /\ srv[h].pc = "get"
  /\ IF tokens[srv[h].tok].state = "active" THEN Proceed(h, "revoke")
     ELSE Proceed(h, IF srv[h].kind = "refresh" THEN "sweep" ELSE "401")
  /\ UNCHANGED <<tokens, tab, ghosts>>

(* Revoke: UPDATE ... WHERE jti = $1, whatever is_revoked is by now. *)
Revoke(h) ==
  /\ srv[h].pc = "revoke"
  /\ tokens' = [tokens EXCEPT ![srv[h].tok].state = "revoked"]
  /\ Proceed(h, IF srv[h].kind = "refresh" THEN "create" ELSE "200")
  /\ UNCHANGED <<tab, ghosts>>

(* A fresh jti for the successor, or for the first token of a session.     *)
(* Without one left (the bound of the model) the handler fails.            *)
Unused == {k \in Token : tokens[k].state = "none"}

Create(h) ==
  /\ srv[h].pc = "create"
  /\ \/ \E k \in Unused :
          /\ \A j \in Unused : k <= j
          /\ tokens' = [tokens EXCEPT ![k] = [state |-> "active", from |-> srv[h].tok]]
          /\ srv' = [srv EXCEPT ![h].pc = "200", ![h].new = k]
     \/ Unused = {} /\ Proceed(h, "500") /\ UNCHANGED tokens
  /\ UNCHANGED <<tab, ghosts>>

(* Reuse detection: RevokeAllByUserID. If it fails the error is logged and *)
(* the answer is the same.                                                 *)
Sweep(h) ==
  /\ srv[h].pc = "sweep"
  /\ Proceed(h, "401")
  /\ \/ /\ tokens' = [k \in Token |-> IF tokens[k].state = "active"
                                      THEN [tokens[k] EXCEPT !.state = "revoked"]
                                      ELSE tokens[k]]
        /\ swept' = TRUE
     \/ UNCHANGED <<tokens, swept>>
  /\ UNCHANGED <<tab, left, out, cut>>

Statement(h) == GetByJTI(h) \/ Revoke(h) \/ Create(h) \/ Sweep(h)

Running(h) == srv[h].pc \in {"get", "revoke", "create", "sweep"}

(* A statement fails, the process dies, or the request's context ends with *)
(* the connection: whatever statements came before stay done.              *)
HandlerFails(h) ==
  /\ Running(h)
  /\ Proceed(h, "500")
  /\ UNCHANGED <<tokens, tab, ghosts>>

(* Nobody waits for the answer any more. *)
Discard(h) ==
  /\ srv[h] # Free /\ ~Running(h) /\ h \notin Awaited
  /\ srv' = [srv EXCEPT ![h] = Free]
  /\ UNCHANGED <<tokens, tab, ghosts>>
-----------------------------------------------------------------------------
(* The tab. The pages of AppLayout make calls; after a logout they are     *)
(* gone, after a failed refresh they stay until the browser has left.      *)
AppLayout == held # 0 \/ leaving

StartCall(c) ==
  /\ call[c] = Idle
  /\ AppLayout
  /\ call' = [call EXCEPT ![c] = [Idle EXCEPT !.at = "sent"]]
  /\ UNCHANGED <<server, held, flight, login, leaving, ghosts>>

(* The call returns or throws; a logout then drops the tokens (onSettled). *)
Settle(c) ==
  /\ call' = [call EXCEPT ![c] = Idle]
  /\ held' = IF c = Out THEN 0 ELSE held
  /\ out' = (out \/ c = Out)

EachForItself == FALSE   \* faulty form of Flying: no shared promise
Flying        == flight # None

(* refreshAccessToken after a 401, the answered handler being free again:  *)
(* join the refresh that is under way, start one with the refresh token of *)
(* this moment, or give up without one.                                    *)
AwaitRefresh(c, free) ==
  LET wait == call' = [call EXCEPT ![c].at = "wait", ![c].h = None] IN
  \/ /\ Flying
     /\ wait /\ srv' = free
     /\ UNCHANGED <<held, flight, leaving, out>>
  \/ /\ ~Flying /\ held # 0
     /\ wait
     /\ \E h \in Handlers :
          /\ free[h] = Free
          /\ srv' = [free EXCEPT ![h] = Request("refresh", held)]
          /\ flight' = h
     /\ UNCHANGED <<held, leaving, out>>
  \/ /\ ~Flying /\ held = 0
     /\ leaving' = TRUE
     /\ Settle(c) /\ srv' = free
     /\ UNCHANGED flight

(* The Auth middleware refuses the access token. *)
Unauthorized(c) ==
  /\ call[c].at = "sent"
  /\ AwaitRefresh(c, srv)
  /\ UNCHANGED <<tokens, login, left, swept, cut>>

(* Any other answer, a second 401 included, is for the caller, and so is a *)
(* request that is lost or aborted.                                        *)
Return(c) ==
  /\ call[c].at \in {"sent", "resent"}
  /\ Settle(c)
  /\ UNCHANGED <<server, flight, login, leaving, left, swept, cut>>

(* Logout sends the refresh token in its body, which a retry repeats. The  *)
(* user clicks nothing on a page the browser is leaving.                   *)
StartLogout(h) ==
  /\ "logout" \in Disturb
  /\ call[Out] = Idle /\ held # 0 /\ ~leaving /\ srv[h] = Free
  /\ call' = [call EXCEPT ![Out] = [at |-> "sent", tok |-> held, h |-> h]]
  /\ srv' = [srv EXCEPT ![h] = Request("logout", held)]
  /\ left' = TRUE
  /\ UNCHANGED <<tokens, held, flight, login, leaving, swept, out, cut>>

AnswerLogout(h) ==
  /\ h = call[Out].h /\ srv[h].pc \in {"200", "401", "500"}
  /\ LET free == [srv EXCEPT ![h] = Free] IN
     IF call[Out].at = "sent" /\ srv[h].pc = "401"
     THEN AwaitRefresh(Out, free)
     ELSE Settle(Out) /\ srv' = free /\ UNCHANGED <<flight, leaving>>
  /\ UNCHANGED <<tokens, login, left, swept, cut>>

(* doRefresh succeeds: setTokens, and every call that waits is sent again, *)
(* a logout with the body it had.                                          *)
OnlyOneIsWoken(c) ==   \* faulty form of Woken: joiners are forgotten
  call[c].at = "wait" /\ \A d \in Calls : call[d].at = "wait" => d = c

Woken(c) == call[c].at = "wait"

Resent(c, h) ==
  [call[c] EXCEPT !.at = "resent", !.h = IF c = Out THEN h ELSE None]

Refreshed(h) ==
  /\ flight = h /\ srv[h].pc = "200"
  /\ held' = srv[h].new
  /\ flight' = None
  /\ call' = [c \in Asks |-> IF Woken(c) THEN Resent(c, h) ELSE call[c]]
  /\ srv' = [srv EXCEPT ![h] = IF Woken(Out) THEN Request("logout", call[Out].tok) ELSE Free]
  /\ UNCHANGED <<tokens, login, leaving, ghosts>>

(* doRefresh fails, whatever the reason: the tab cannot know whether its   *)
(* token was rotated. clearTokens, and the browser leaves for /login.      *)
KeptAfterFailure  == held   \* faulty: the old token is tried again
UnsetAfterFailure == None   \* faulty: the store holds no token pair at all
AfterFailure      == 0

RefreshFails(h) ==
  /\ flight = h
  /\ \/ srv[h].pc \in {"401", "500"} /\ srv' = [srv EXCEPT ![h] = Free]
     \/ UNCHANGED srv                        \* the connection is lost
  /\ held' = AfterFailure
  /\ flight' = None
  /\ leaving' = TRUE
  /\ call' = [c \in Asks |-> IF call[c].at = "wait" THEN Idle ELSE call[c]]
  /\ out' = (out \/ call[Out].at = "wait")
  /\ UNCHANGED <<tokens, login, left, swept, cut>>
-----------------------------------------------------------------------------
(* The login page. Wrong credentials end like a failed handler.            *)
StartLogin(h) ==
  /\ held = 0 /\ ~leaving /\ login = None /\ srv[h] = Free
  /\ login' = h
  /\ srv' = [srv EXCEPT ![h] = Request("login", 0)]
  /\ UNCHANGED <<tokens, held, flight, call, leaving, ghosts>>

AnswerLogin(h) ==
  /\ login = h /\ srv[h].pc \in {"200", "500"}
  /\ login' = None
  /\ srv' = [srv EXCEPT ![h] = Free]
  /\ IF srv[h].pc = "200" THEN held' = srv[h].new /\ out' = FALSE
     ELSE UNCHANGED <<held, out>>
  /\ UNCHANGED <<tokens, flight, call, leaving, left, swept, cut>>

LoginLost ==
  /\ login # None
  /\ login' = None
  /\ UNCHANGED <<server, held, flight, call, leaving, ghosts>>

(* A page load ends everything the old page was waiting for; sessionStorage*)
(* keeps the tokens.                                                       *)
Load ==
  /\ leaving \/ "reload" \in Disturb
  /\ flight' = None
  /\ login' = None
  /\ call' = [c \in Asks |-> Idle]
  /\ leaving' = FALSE
  /\ cut' = (cut \/ flight # None \/ call[Out] # Idle)
  /\ UNCHANGED <<server, held, left, swept, out>>
-----------------------------------------------------------------------------
Serve(h) == Statement(h) \/ HandlerFails(h) \/ Discard(h)

Deliver(h) == AnswerLogout(h) \/ Refreshed(h) \/ RefreshFails(h) \/ AnswerLogin(h)

Next ==
  \/ \E h \in Handlers : Serve(h) \/ Deliver(h) \/ StartLogout(h) \/ StartLogin(h)
  \/ \E c \in Calls : StartCall(c) \/ Unauthorized(c)
  \/ \E c \in Asks : Return(c)
  \/ LoginLost \/ Load

Spec == Init /\ [][Next]_vars

(* Handlers run to their end and every fetch settles. Users, crashes and   *)
(* the clock owe nothing.                                                  *)
FairSpec ==
  /\ Spec
  /\ \A h \in Handlers : WF_vars(Statement(h) \/ Discard(h)) /\ SF_vars(Deliver(h))
  /\ \A c \in Calls : SF_vars(Return(c) \/ Unauthorized(c))
-----------------------------------------------------------------------------
(* Properties.                                                             *)

(* Token rotation (auth_service.go:263): a refresh token is exchanged at   *)
(* most once. GetByJTI and Revoke are separate statements and Revoke does  *)
(* not look at is_revoked, so only the tab's single refresh promise keeps  *)
(* two refreshes of one token from both succeeding; it does so until a     *)
(* page load forgets the promise.                                          *)
SingleSuccessor ==
  ~cut => \A j, k \in Token :
            tokens[j].from # 0 /\ tokens[j].from = tokens[k].from => j = k

(* A tab that waits neither for a refresh nor for a logout holds nothing   *)
(* or a token the server still accepts: a lost or failed refresh never     *)
(* leaves it with a rotated token, whose next use would sign the user out  *)
(* everywhere (client.ts:32-43). The exceptions are the sessions reuse     *)
(* detection revoked, and a page load in the middle of a refresh.          *)
HeldIsLive ==
  held # 0 /\ flight = None /\ call[Out] = Idle /\ ~swept /\ ~cut
    => tokens[held].state = "active"

(* Every API call returns or throws: no call is forgotten on a refresh     *)
(* promise that another one resolves (client.ts:47-55).                    *)
CallEnds == \A c \in Calls : call[c] # Idle ~> call[c] = Idle

(* useLogout.ts:3: whether it succeeds or fails, logging out discards the  *)
(* local tokens; the tab stays without until the next login.               *)
LogoutClearsTokens == out => held = 0

(* Reuse detection (auth_service.go:253) ends every session of the user.   *)
(* Whatever is lost, fails or comes late, the tab that has the token never *)
(* sets it off by itself, as long as no page load interrupts it and the    *)
(* user has not logged out: a logout revokes a token that a refresh under  *)
(* way is about to look up.                                                *)
SweptHasCause == swept => cut \/ left
=============================================================================
