------------------------ MODULE ReportScreensProofs ------------------------
(***************************************************************************)
(* What the pages of a report guarantee for any number of requests,        *)
(* versions and page changes: types, updates over what was seen, and the   *)
(* error of a rejection in its own dialog.                                 *)
(***************************************************************************)
EXTENDS ReportScreens, TLAPS

Request == [op : Operations, pc : {"idle", "sent", "served", "done", "over"},
            mount : Mounts, ver : Versions, base : Versions,
            end : {"none", "ok", "conflict", "failed"},
            made : Versions, orphan : BOOLEAN]

\* The dialogs that stay open until their mutation is answered.
Waiting == {"submit", "delete", "reject"}

\* A mutation under way that belongs to the page on the screen.
Live(r) == /\ req[r].pc \in {"sent", "served"} /\ ~req[r].orphan
           /\ req[r].mount = mount /\ page # "away"

\* A mounting is never used again: no request comes from a later one.
PastMounts == \A r \in Requests : req[r].mount <= mount

\* Only the edit page leads on by itself, and not to another form.
LastMount == mount > MaxMount => page \notin {"edit", "create"}

\* A form on the screen has its values from what the cache has now.
FormOfCache == page \in {"edit", "create"} => form.base = cache.ver

\* A mutation under way keeps the user where it was sent from.
UpdateFromEdit == \A r \in Requests : Live(r) /\ req[r].op = "update" => page = "edit"
DialogOfLive == \A r \in Requests : Live(r) /\ req[r].op \in Waiting => ui.dialog = req[r].op
OneLive == \A q, r \in Requests :
    Live(q) /\ Live(r) /\ req[q].op \in Waiting /\ req[q].op = req[r].op => q = r

\* The values of an update that is under way are those of the version it names.
SentOverSeen ==
    \A r \in Requests : req[r].op = "update" /\ req[r].pc = "sent" => req[r].base = req[r].ver

Inv ==
    /\ TypeOK
    /\ PastMounts /\ LastMount /\ FormOfCache
    /\ UpdateFromEdit /\ DialogOfLive /\ OneLive
    /\ SentOverSeen /\ UpdateOverSeen
    /\ RejectErrorInDialog

-----------------------------------------------------------------------------
(* The initial state.                                                      *)

\* Nothing was sent, nothing is shown.
LEMMA InvInit == Init => Inv
<1> SUFFICES ASSUME Init PROVE Inv
  OBVIOUS
<1>1. NoRequest \in Request /\ NoRequest.pc = "idle" /\ NoRequest.mount = 0
  BY ScreensAssumption DEF NoRequest, Request, Operations, Actions, Mounts, Versions
<1>2. req \in [Requests -> Request] /\ \A r \in Requests : req[r] = NoRequest
  BY <1>1 DEF Init
<1>3. TypeOK
  BY <1>2, ScreensAssumption
     DEF Init, TypeOK, Request, Row, Statuses, Viewers, Pages, Mounts, Versions, NoFetch,
         FreshUi, FreshForm, Actions, Decisions
<1> QED
  BY <1>1, <1>2, <1>3, ScreensAssumption
     DEF Init, Inv, PastMounts, LastMount, FormOfCache, UpdateFromEdit, DialogOfLive,
         OneLive, SentOverSeen, UpdateOverSeen, RejectErrorInDialog, Live, FreshUi

-----------------------------------------------------------------------------
(* Steps by what they do to the requests.                                  *)

\* A step that leaves the requests and the page alone, but may change the
\* dialog when nothing waits behind it.
LEMMA Quiet ==
  ASSUME Inv, TypeOK', UNCHANGED <<req, page, mount>>,
         \/ UNCHANGED ui
         \/ /\ RejectErrorInDialog'
            /\ \A r \in Requests : ~(Live(r) /\ req[r].op \in Waiting),
         FormOfCache'
  PROVE  Inv'
BY DEF Inv, PastMounts, LastMount, FormOfCache, UpdateFromEdit, DialogOfLive,
       OneLive, SentOverSeen, UpdateOverSeen, RejectErrorInDialog, Live

\* A step that leaves the page for another mounting, or for no page at all:
\* nothing that is under way belongs to what is shown then.
LEMMA Moves ==
  ASSUME Inv, TypeOK',
         \A r \in Requests :
            /\ req'[r].op = req[r].op /\ req'[r].pc = req[r].pc
            /\ req'[r].mount = req[r].mount /\ req'[r].ver = req[r].ver
            /\ req'[r].base = req[r].base /\ req'[r].made = req[r].made,
         (page' = "away" /\ mount' \in {mount, mount + 1}) \/ mount' = mount + 1,
         ui' = FreshUi, FormOfCache', LastMount'
  PROVE  Inv'
<1>1. \A r \in Requests : req[r].mount \in Nat /\ mount \in Nat
  BY ScreensAssumption DEF Inv, TypeOK, Mounts
<1>2. \A r \in Requests : ~Live(r)'
  BY <1>1 DEF Inv, PastMounts, Live
<1>3. PastMounts'
  BY <1>1 DEF Inv, PastMounts
<1>4. SentOverSeen' /\ UpdateOverSeen'
  BY DEF Inv, SentOverSeen, UpdateOverSeen
<1> QED
  BY <1>2, <1>3, <1>4
     DEF Inv, UpdateFromEdit, DialogOfLive, OneLive, RejectErrorInDialog, FreshUi

-----------------------------------------------------------------------------
(* Types.                                                                  *)

\* The numbers behind the sets, and the types of what most steps replace.
LEMMA Kinds ==
  ASSUME TypeOK
  PROVE  /\ MaxRequests \in Nat /\ MaxVersion \in Nat /\ MaxMount \in Nat
         /\ mount \in Nat /\ cache.ver \in Versions /\ server.ver \in Versions
         /\ req \in [Requests -> Request]
         /\ NoRequest \in Request /\ NoFetch \in [pc : {"none"}, st : Statuses, ver : Versions]
         /\ FreshUi \in [dialog : {"none"}, pending : {"none"}, banner : BOOLEAN, rejectError : BOOLEAN]
         /\ FreshForm \in [base : Versions, typed : BOOLEAN]
<1>1. MaxRequests \in Nat /\ MaxVersion \in Nat /\ MaxMount \in Nat
  BY ScreensAssumption
<1>2. mount \in Nat /\ cache.ver \in Versions /\ server.ver \in Versions
  BY <1>1 DEF TypeOK, Mounts, Row
<1>3. req \in [Requests -> Request]
  BY DEF TypeOK, Request
<1>4. NoRequest \in Request /\ NoFetch \in [pc : {"none"}, st : Statuses, ver : Versions]
  BY <1>1 DEF NoRequest, Request, Operations, Actions, Mounts, Versions, NoFetch, Statuses
<1>5. /\ FreshUi \in [dialog : {"none"}, pending : {"none"}, banner : BOOLEAN, rejectError : BOOLEAN]
      /\ FreshForm \in [base : Versions, typed : BOOLEAN]
  BY <1>1 DEF FreshUi, FreshForm, Versions
<1> QED BY <1>1, <1>2, <1>3, <1>4, <1>5

\* A page that is mounted: the types of what it starts with.
LEMMA MountingType ==
  ASSUME TypeOK, NEW to \in Pages, Mounting(to), mount \in 0 .. MaxMount,
         UNCHANGED <<viewer, server, cache, req>>
  PROVE  TypeOK'
<1> USE Kinds
<1>1. mount' \in Mounts /\ page' \in Pages
  BY DEF Mounting, Mounts
<1>2. ui' \in [dialog : {"none", "deleteItem"} \cup Actions,
               pending : {"none"} \cup Decisions,
               banner : BOOLEAN, rejectError : BOOLEAN]
  BY DEF Mounting, FreshUi
<1>3. form' \in [base : Versions, typed : BOOLEAN]
  BY DEF Mounting, Rendered, FreshForm
<1>4. fetch' \in [pc : {"none", "sent", "read"}, st : Statuses, ver : Versions]
  BY DEF Mounting, Ensured, TypeOK, NoFetch
<1> QED
  BY <1>1, <1>2, <1>3, <1>4 DEF TypeOK

\* Answers to the query keep the types; only the edit page is left by one.
LEMMA FetchType == ASSUME TypeOK, LastMount, FetchRead \/ FetchDone PROVE TypeOK'
<1> USE Kinds
<1>1. CASE FetchRead
  BY <1>1 DEF FetchRead, TypeOK, Row
<1>2. CASE FetchDone
  <2> PICK failed \in BOOLEAN :
         LET error == failed \/ fetch.st = "deleted"
             new == IF error THEN [cache EXCEPT !.error = TRUE]
                    ELSE [has |-> TRUE, error |-> FALSE,
                          st |-> fetch.st, ver |-> fetch.ver]
         IN  /\ cache' = new
             /\ fetch' = IF PageOver(new) \in {page, "away"} THEN NoFetch
                         ELSE [NoFetch EXCEPT !.pc = "sent"]
             /\ page' = PageOver(new)
             /\ form' = IF PageOver(new) # page THEN FreshForm
                        ELSE IF new = cache \/ page \notin {"edit", "create"} \/ error
                        THEN form ELSE Rendered(new)
             /\ mount' = IF PageOver(new) = page THEN mount ELSE mount + 1
             /\ ui' = IF PageOver(new) = page THEN ui ELSE FreshUi
    BY <1>2 DEF FetchDone
  <2>1. /\ fetch.st \in Statuses /\ fetch.ver \in Versions
        /\ UNCHANGED <<viewer, server, req>>
    BY <1>2 DEF FetchDone, TypeOK
  <2>2. cache' \in [has : BOOLEAN, error : BOOLEAN, st : Statuses, ver : Versions]
    BY <2>1 DEF TypeOK
  <2>3. page' = PageOver(cache') /\ page' \in Pages /\ (page' # page => page = "edit")
    BY <2>1 DEF TypeOK, PageOver, Pages
  <2>4. mount' \in Mounts
    BY <2>3 DEF TypeOK, LastMount, Mounts
  <2>5. form' \in [base : Versions, typed : BOOLEAN]
    BY <2>1, <2>2, <2>3 DEF TypeOK, Rendered
  <2>6. ui' = ui \/ ui' = FreshUi
    OBVIOUS
  <2>7. fetch' \in [pc : {"none", "sent", "read"}, st : Statuses, ver : Versions]
    BY DEF NoFetch
  <2> QED
    BY <2>1, <2>2, <2>3, <2>4, <2>5, <2>6, <2>7 DEF TypeOK, FreshUi
<1> QED BY <1>1, <1>2

\* Going from page to page keeps the types: the user opens MaxMount pages.
LEMMA PageType ==
  ASSUME TypeOK, LastMount, OpenDetail \/ OpenEdit \/ OpenCreate \/ CancelEdit \/ Leave \/ Reload
  PROVE  TypeOK'
<1> USE Kinds
<1>1. CASE OpenDetail \/ OpenEdit \/ OpenCreate
  <2> PICK to \in Pages : Opening(to)
    BY <1>1 DEF OpenDetail, OpenEdit, OpenCreate, Pages
  <2> QED
    BY MountingType DEF Opening
<1>2. CASE CancelEdit
  <2>1. mount \in 0 .. MaxMount
    BY <1>2 DEF CancelEdit, LastMount, TypeOK, Mounts
  <2> QED
    BY <1>2, <2>1, MountingType DEF CancelEdit, Pages
<1>3. CASE Leave
  BY <1>3 DEF Leave, TypeOK, Pages, FreshUi, FreshForm
<1>4. CASE Reload
  <2>1. req' \in [Requests -> Request]
    <3> SUFFICES ASSUME NEW r \in Requests
                 PROVE  [req[r] EXCEPT !.orphan = req[r].pc \in {"sent", "served"}] \in Request
      BY <1>4 DEF Reload
    <3>1. ASSUME NEW b \in BOOLEAN PROVE [req[r] EXCEPT !.orphan = b] \in Request
      BY DEF Request
    <3>2. (req[r].pc \in {"sent", "served"}) \in BOOLEAN
      OBVIOUS
    <3> QED BY <3>1, <3>2, Zenon
  <2>2. mount' \in Mounts
    BY <1>4 DEF Reload, Mounts
  <2> QED
    BY <1>4, <2>1, <2>2 DEF Reload, TypeOK, Request, Pages, FreshUi, FreshForm, NoFetch
<1> QED BY <1>1, <1>2, <1>3, <1>4

\* Opening and cancelling dialogs, typing, and what others do.
LEMMA DialogType ==
  ASSUME TypeOK,
         \/ \E op \in Actions : Ask(op)
         \/ AskDeleteItem \/ CancelDialog \/ Type \/ OthersChange
  PROVE  TypeOK'
<1> USE Kinds
<1>1. ASSUME NEW op \in Actions, Ask(op) PROVE TypeOK'
  BY <1>1 DEF Ask, TypeOK
<1>2. CASE AskDeleteItem
  BY <1>2 DEF AskDeleteItem, TypeOK
<1>3. CASE CancelDialog
  BY <1>3 DEF CancelDialog, TypeOK
<1>4. CASE Type
  BY <1>4 DEF Type, TypeOK
<1>5. CASE OthersChange
  <2>1. PICK op \in Actions \cup {"update"} : Changed(op)
    BY <1>5 DEF OthersChange
  <2>2. server' \in Row
    BY <2>1 DEF Changed, After, Row, Statuses, Versions
  <2> QED
    BY <1>5, <2>2 DEF OthersChange, TypeOK
<1> QED BY <1>1, <1>2, <1>3, <1>4, <1>5

\* mutate: a new request, all others as they were.
LEMMA SendType ==
  ASSUME TypeOK, NEW r \in Requests, NEW op \in Operations, Send(r, op)
  PROVE  /\ req' \in [Requests -> Request]
         /\ \A q \in Requests : q # r => req'[q] = req[q]
         /\ req'[r].op = op /\ req'[r].pc = "sent" /\ req'[r].mount = mount
         /\ req'[r].made = 0
         /\ op = "update" => req'[r].ver = cache.ver /\ req'[r].base = form.base
<1> USE Kinds
<1> DEFINE new == [NoRequest EXCEPT
                  !.op = op, !.pc = "sent", !.mount = mount,
                  !.ver = IF Checked(op) THEN cache.ver ELSE 0,
                  !.base = IF op = "update" THEN form.base ELSE 0]
<1>1. req' = [req EXCEPT ![r] = new]
  BY DEF Send
<1>2. form.base \in Versions /\ mount \in Mounts /\ 0 \in Versions
  BY DEF TypeOK, Versions
<1>3. /\ new \in Request
      /\ new.op = op /\ new.pc = "sent" /\ new.mount = mount /\ new.made = 0
      /\ op = "update" => new.ver = cache.ver /\ new.base = form.base
  BY <1>2 DEF NoRequest, Request, Checked
<1> HIDE DEF new
<1> QED
  BY <1>1, <1>3

\* Sending a request keeps the types.
LEMMA SendingType ==
  ASSUME TypeOK, NEW r \in Requests, Confirm(r) \/ Save(r)
  PROVE  TypeOK'
<1> USE Kinds
<1>1. CASE Confirm(r)
  <2>1. ui.dialog \in Operations
    BY <1>1 DEF Confirm, DialogTakes, TypeOK, Operations
  <2>2. req' \in [Requests -> Request]
    BY <1>1, <2>1, SendType DEF Confirm
  <2> QED
    BY <1>1, <2>2 DEF Confirm, TypeOK, Request
<1>2. CASE Save(r)
  <2>1. FormOp \in Operations
    BY DEF FormOp, Operations
  <2>2. req' \in [Requests -> Request]
    BY <1>2, <2>1, SendType DEF Save
  <2>3. form' \in [base : Versions, typed : BOOLEAN]
    BY <1>2 DEF Save, Rendered, TypeOK
  <2> QED
    BY <1>2, <2>2, <2>3 DEF Save, TypeOK, Request
<1> QED BY <1>1, <1>2

\* What the server's answer leaves in a request.
LEMMA ServeType ==
  ASSUME TypeOK, NEW r \in Requests, Serve(r) \/ Lose(r)
  PROVE  /\ TypeOK'
         /\ UNCHANGED <<viewer, cache, fetch, page, mount, ui, form>>
         /\ \A q \in Requests : q # r => req'[q] = req[q]
         /\ req'[r].op = req[r].op /\ req'[r].mount = req[r].mount
         /\ req'[r].base = req[r].base /\ req'[r].orphan = req[r].orphan
         /\ req[r].pc \in {"sent", "served"} /\ req'[r].pc = "served"
         /\ \/ req'[r].made = 0
            \/ req[r].pc = "served" /\ req'[r].made = req[r].made
            \/ /\ req[r].pc = "sent" /\ req'[r].made = server.ver + 1
               /\ Checked(req[r].op) => server.ver = req[r].ver
<1> USE Kinds
<1>0. req[r] \in Request
  OBVIOUS
<1>1. CASE Lose(r)
  BY <1>0, <1>1 DEF Lose, TypeOK, Request
<1>2. CASE Serve(r)
  <2>1. PICK end \in {"ok", "conflict", "failed"}, made \in Versions :
          /\ Ends(r, end, made)
          /\ \/ made = 0 /\ UNCHANGED server
             \/ /\ Changed(req[r].op) /\ made = server.ver + 1
                /\ Checked(req[r].op) => server.ver = req[r].ver
    <3>1. Changed(req[r].op) => server.ver + 1 \in Versions
      BY DEF Changed, Versions
    <3> QED BY <1>2, <3>1 DEF Serve, Versions
  <2>2. server' \in Row
    BY <2>1 DEF Changed, After, Row, Statuses, Versions, TypeOK
  <2>3. [req[r] EXCEPT !.pc = "served", !.ver = 0, !.end = end, !.made = made] \in Request
    <3>1. 0 \in Versions /\ end \in {"none", "ok", "conflict", "failed"}
      BY DEF Versions
    <3> HIDE <2>1
    <3> QED BY <1>0, <3>1 DEF Request
  <2>4. req' \in [Requests -> Request] /\ req[r].pc = "sent"
    BY <1>2, <2>1, <2>3 DEF Ends, Serve
  <2>5. /\ \A q \in Requests : q # r => req'[q] = req[q]
        /\ req'[r] = [req[r] EXCEPT !.pc = "served", !.ver = 0, !.end = end, !.made = made]
    BY <2>1 DEF Ends
  <2>6. UNCHANGED <<viewer, cache, fetch, page, mount, ui, form>>
    BY <1>2 DEF Serve
  <2>7. TypeOK'
    BY <2>2, <2>4, <2>6 DEF TypeOK, Request
  <2> QED
    BY <1>0, <2>1, <2>4, <2>5, <2>6, <2>7 DEF Request
<1> QED BY <1>1, <1>2

\* A request that was answered is over; whatever it leaves behind is not Live.
LEMMA DoneType ==
  ASSUME TypeOK, NEW r \in Requests, Answer(r)
  PROVE  /\ req' \in [Requests -> Request]
         /\ \A q \in Requests : q # r => req'[q] = req[q]
         /\ req'[r].pc \in {"done", "over"} /\ req'[r].mount \in {req[r].mount, 0}
<1> USE Kinds
<1>0. req[r] \in Request /\ 0 \in Versions
  BY DEF Versions
<1> DEFINE kept == [req[r] EXCEPT !.pc = "done", !.base = 0]
           over == [NoRequest EXCEPT !.pc = "over"]
<1>1. req' = [req EXCEPT ![r] = kept] \/ req' = [req EXCEPT ![r] = over]
  BY DEF Answer, Done
<1>2. kept \in Request /\ kept.pc = "done" /\ kept.mount = req[r].mount
  BY <1>0 DEF Request
<1>3. over \in Request /\ over.pc = "over" /\ over.mount = 0
  BY DEF NoRequest, Request
<1> HIDE DEF kept, over
<1> QED BY <1>1, <1>2, <1>3

\* The three ways an answer is received: its page is gone; it leads to another
\* page; or the page stays and takes the callbacks.
Unseen(r) == ~Here(r) /\ UNCHANGED <<page, mount, ui, form>>
LeadsOn(r) ==
  /\ Here(r) /\ ui' = FreshUi /\ form' = FreshForm
  /\ \/ /\ req[r].op = "update"
        /\ page' = "detail" /\ mount' = mount + 1
     \/ page' = "away" /\ mount' = mount
Stays(r) ==
  /\ Here(r) /\ UNCHANGED <<page, mount>>
  /\ \/ ui' = Succeeded(req[r].op)
     \/ \E end \in {"none", "ok", "conflict", "failed"} : ui' = Failed(req[r].op, end)
  /\ form' = form \/ form' = Rendered(cache)

\* Every answer is received in one of these ways.
LEMMA AnswerKinds ==
  ASSUME TypeOK, NEW r \in Requests, Answer(r)
  PROVE  /\ req[r].pc = "served" /\ ~req[r].orphan
         /\ UNCHANGED <<viewer, server, cache>>
         /\ fetch' \in [pc : {"none", "sent", "read"}, st : Statuses, ver : Versions]
         /\ Unseen(r) \/ LeadsOn(r) \/ Stays(r)
<1> USE Kinds
<1>1. fetch' \in [pc : {"none", "sent", "read"}, st : Statuses, ver : Versions]
  BY DEF Answer, Invalidated, TypeOK, NoFetch
<1>2. req[r].end \in {"none", "ok", "conflict", "failed"}
  BY DEF Request
<1> DEFINE op == req[r].op
           ok == req[r].end = "ok"
           goes == Here(r) /\ ok /\ op \in {"delete", "update", "create"}
<1>3. /\ req[r].pc = "served" /\ ~req[r].orphan
      /\ UNCHANGED <<viewer, server, cache>>
      /\ IF ~Here(r) THEN UNCHANGED <<page, mount, ui, form>>
         ELSE IF goes
         THEN /\ page' = IF op = "update" THEN "detail" ELSE "away"
              /\ mount' = IF op = "update" THEN mount + 1 ELSE mount
              /\ ui' = FreshUi /\ form' = FreshForm
         ELSE /\ ui' = IF ok THEN Succeeded(op) ELSE Failed(op, req[r].end)
              /\ form' = IF op = "update" THEN Rendered(cache) ELSE form
              /\ UNCHANGED <<page, mount>>
  BY DEF Answer
<1> QED
  BY <1>1, <1>2, <1>3 DEF Unseen, LeadsOn, Stays

\* An answer keeps the types: an update leads on from the edit page only.
LEMMA AnswerType ==
  ASSUME TypeOK, LastMount, UpdateFromEdit, NEW r \in Requests, Answer(r)
  PROVE  TypeOK'
<1> USE Kinds
<1>1. req' \in [Requests -> Request]
  BY DoneType
<1>2. ui' \in [dialog : {"none", "deleteItem"} \cup Actions,
               pending : {"none"} \cup Decisions,
               banner : BOOLEAN, rejectError : BOOLEAN]
  <2>1. Succeeded(req[r].op) \in [dialog : {"none", "deleteItem"} \cup Actions,
               pending : {"none"} \cup Decisions,
               banner : BOOLEAN, rejectError : BOOLEAN]
    BY DEF Succeeded, TypeOK
  <2>2. ASSUME NEW end
        PROVE  Failed(req[r].op, end) \in [dialog : {"none", "deleteItem"} \cup Actions,
               pending : {"none"} \cup Decisions,
               banner : BOOLEAN, rejectError : BOOLEAN]
    BY DEF Failed, TypeOK
  <2> QED
    BY <2>1, <2>2, AnswerKinds DEF Unseen, LeadsOn, Stays, TypeOK
<1>3. form' \in [base : Versions, typed : BOOLEAN]
  <2>1. form' = form \/ form' = FreshForm \/ form' = Rendered(cache)
    BY AnswerKinds DEF Unseen, LeadsOn, Stays
  <2>2. Rendered(cache) \in [base : Versions, typed : BOOLEAN]
    BY DEF Rendered
  <2> QED
    BY <2>1, <2>2 DEF TypeOK
<1>4. page' \in Pages /\ mount' \in Mounts
  <2>1. CASE Here(r) /\ req[r].op = "update"
    <3>1. page = "edit"
      BY <2>1, AnswerKinds DEF Unseen, LeadsOn, Stays, Here, UpdateFromEdit, Live
    <3> QED BY <3>1, AnswerKinds DEF Unseen, LeadsOn, Stays, LastMount, Mounts, TypeOK, Pages
  <2> QED BY <2>1, AnswerKinds DEF Unseen, LeadsOn, Stays, TypeOK, Pages
<1> QED
  BY <1>1, <1>2, <1>3, <1>4, AnswerKinds DEF Unseen, LeadsOn, Stays, TypeOK, Request

-----------------------------------------------------------------------------
(* The steps.                                                              *)

\* An answer to the query renders the form anew or leaves the page.
LEMMA FetchStep == ASSUME Inv, FetchRead \/ FetchDone PROVE Inv'
<1>1. TypeOK'
  BY FetchType DEF Inv
<1>2. CASE FetchRead
  BY <1>1, <1>2, Quiet DEF FetchRead, Inv, FormOfCache
<1>3. CASE FetchDone /\ page' = page
  <2>1. UNCHANGED <<req, mount, ui>>
    BY <1>3 DEF FetchDone
  <2>2. PICK error \in BOOLEAN :
          LET new == IF error THEN [cache EXCEPT !.error = TRUE]
                     ELSE [has |-> TRUE, error |-> FALSE, st |-> fetch.st, ver |-> fetch.ver]
          IN  /\ cache' = new
              /\ form' = IF new = cache \/ page \notin {"edit", "create"} \/ error
                         THEN form ELSE Rendered(new)
    BY <1>3 DEF FetchDone
  <2>3. error => cache'.ver = cache.ver
    BY <2>2 DEF Inv, TypeOK
  <2>4. FormOfCache'
    BY <1>3, <2>2, <2>3 DEF Inv, FormOfCache, Rendered
  <2> QED BY <1>1, <1>3, <2>1, <2>4, Quiet
<1>4. CASE FetchDone /\ page' # page
  <2>1. UNCHANGED req /\ mount' = mount + 1 /\ ui' = FreshUi /\ page' \in {"away", "detail"}
    BY <1>4 DEF FetchDone, PageOver
  <2>2. FormOfCache' /\ LastMount'
    BY <2>1 DEF FormOfCache, LastMount
  <2> QED BY <1>1, <2>1, <2>2, Moves
<1> QED BY <1>2, <1>3, <1>4

\* Another mounting has nothing under way.
LEMMA PageStep ==
  ASSUME Inv, OpenDetail \/ OpenEdit \/ OpenCreate \/ CancelEdit \/ Leave \/ Reload
  PROVE  Inv'
<1>1. TypeOK'
  BY PageType DEF Inv
<1>2. CASE OpenDetail \/ OpenEdit \/ OpenCreate
  <2>1. PICK to \in Pages : Opening(to)
    BY <1>2 DEF OpenDetail, OpenEdit, OpenCreate, Pages
  <2>2. UNCHANGED <<req, cache>> /\ mount' = mount + 1 /\ ui' = FreshUi /\ mount < MaxMount
    BY <2>1 DEF Opening, Mounting
  <2>3. FormOfCache'
    BY <2>1, <2>2 DEF Opening, Mounting, FormOfCache, Rendered
  <2>4. LastMount'
    BY <2>2, Kinds DEF LastMount, Inv
  <2> QED BY <1>1, <2>2, <2>3, <2>4, Moves
<1>3. CASE CancelEdit
  <2>1. /\ UNCHANGED req /\ mount' = mount + 1 /\ ui' = FreshUi /\ page' = "detail"
    BY <1>3 DEF CancelEdit, Mounting
  <2> QED BY <1>1, <2>1, Moves DEF FormOfCache, LastMount
<1>4. CASE Leave
  BY <1>1, <1>4, Moves DEF Leave, FormOfCache, LastMount
<1>5. CASE Reload
  <2>1. \A r \in Requests :
            /\ req'[r].op = req[r].op /\ req'[r].pc = req[r].pc
            /\ req'[r].mount = req[r].mount /\ req'[r].ver = req[r].ver
            /\ req'[r].base = req[r].base /\ req'[r].made = req[r].made
    <3> SUFFICES ASSUME NEW r \in Requests, NEW b,
                        req'[r] = [req[r] EXCEPT !.orphan = b]
                 PROVE  /\ req'[r].op = req[r].op /\ req'[r].pc = req[r].pc
                        /\ req'[r].mount = req[r].mount /\ req'[r].ver = req[r].ver
                        /\ req'[r].base = req[r].base /\ req'[r].made = req[r].made
      BY <1>5 DEF Reload
    <3> QED BY Kinds DEF Inv, Request
  <2>2. mount' = mount + 1 /\ ui' = FreshUi /\ page' = "detail"
    BY <1>5 DEF Reload
  <2> QED BY <1>1, <2>1, <2>2, Moves DEF FormOfCache, LastMount
<1> QED BY <1>2, <1>3, <1>4, <1>5

\* A dialog opens or is cancelled only while nothing waits behind it.
LEMMA DialogStep ==
  ASSUME Inv,
         \/ \E op \in Actions : Ask(op)
         \/ AskDeleteItem \/ CancelDialog \/ Type \/ OthersChange
  PROVE  Inv'
<1>1. TypeOK'
  BY DialogType DEF Inv
<1>2. ASSUME ui.dialog = "none", page = "detail"
      PROVE  \A r \in Requests : ~(Live(r) /\ req[r].op \in Waiting)
  BY <1>2 DEF Inv, DialogOfLive, Waiting
<1>3. ASSUME NEW op \in Actions, Ask(op) PROVE Inv'
  <2>1. /\ ui.dialog = "none" /\ page = "detail"
        /\ UNCHANGED <<req, page, mount, form, cache>>
        /\ ui' = [ui EXCEPT !.dialog = op,
                        !.rejectError = IF op = "reject" THEN FALSE ELSE @]
    BY <1>3 DEF Ask, Bar
  <2>2. RejectErrorInDialog'
    BY <2>1 DEF Inv, TypeOK, RejectErrorInDialog
  <2> QED BY <1>1, <1>2, <2>1, <2>2, Quiet DEF Inv, FormOfCache
<1>4. CASE AskDeleteItem
  <2>1. /\ ui.dialog = "none" /\ page = "detail"
        /\ UNCHANGED <<req, page, mount, form, cache>>
        /\ ui' = [ui EXCEPT !.dialog = "deleteItem"]
    BY <1>4 DEF AskDeleteItem
  <2>2. RejectErrorInDialog'
    BY <2>1 DEF Inv, TypeOK, RejectErrorInDialog
  <2> QED BY <1>1, <1>2, <2>1, <2>2, Quiet DEF Inv, FormOfCache
<1>5. CASE CancelDialog
  <2>1. /\ page = "detail" /\ ~Pending(ui.dialog)
        /\ UNCHANGED <<req, page, mount, form, cache>>
        /\ ui' = [ui EXCEPT !.dialog = "none",
                        !.rejectError = IF ui.dialog \in Decisions THEN FALSE ELSE @]
    BY <1>5 DEF CancelDialog, DialogTakes
  <2>2. RejectErrorInDialog'
    BY <2>1 DEF Inv, TypeOK, RejectErrorInDialog, Decisions
  <2>3. \A r \in Requests : ~(Live(r) /\ req[r].op \in Waiting)
    BY <2>1 DEF Inv, DialogOfLive, Live, Pending
  <2> QED BY <1>1, <2>1, <2>2, <2>3, Quiet DEF Inv, FormOfCache
<1>6. CASE Type
  <2>1. UNCHANGED <<req, page, mount, ui, cache>> /\ form'.base = form.base
    BY <1>6 DEF Type, Inv, TypeOK
  <2> QED BY <1>1, <2>1, Quiet DEF Inv, FormOfCache
<1>7. CASE OthersChange
  <2>1. UNCHANGED <<req, page, mount, ui, form, cache>>
    BY <1>7 DEF OthersChange
  <2> QED BY <1>1, <2>1, Quiet DEF Inv, FormOfCache
<1> QED BY <1>3, <1>4, <1>5, <1>6, <1>7

\* A dialog sends its request; one that waits stays open.
LEMMA ConfirmStep ==
  ASSUME Inv, NEW r \in Requests, Confirm(r)
  PROVE  Inv'
<1> DEFINE op == ui.dialog
<1>1. TypeOK'
  BY SendingType DEF Inv
<1>2. /\ page = "detail" /\ ~Pending(op) /\ Send(r, op) /\ op \in Operations \ {"update"}
      /\ UNCHANGED <<page, mount, form, cache>>
      /\ ui'.rejectError = ui.rejectError
      /\ ui'.dialog = IF op \in {"approve", "pay", "deleteItem"} THEN "none" ELSE op
  BY DEF Confirm, DialogTakes, Inv, TypeOK, Operations, Actions
<1>3. /\ \A q \in Requests : q # r => req'[q] = req[q]
      /\ req'[r].op = op /\ req'[r].pc = "sent" /\ req'[r].mount = mount /\ req'[r].made = 0
  BY <1>2, SendType DEF Inv
<1>4. \A q \in Requests : Live(q) /\ req[q].op \in Waiting => op \in Waiting /\ req[q].op = op
  BY DEF Inv, DialogOfLive
<1>5. \A q \in Requests : Live(q) => req[q].op # op
  BY <1>2 DEF Pending, Live
<1>6. \A q \in Requests : q # r => Live(q)' = Live(q) /\ req'[q].op = req[q].op
  BY <1>2, <1>3 DEF Live
<1> HIDE DEF op
<1>7. PastMounts'
  BY <1>2, <1>3, Kinds DEF PastMounts, Inv
<1>8. LastMount' /\ FormOfCache' /\ UpdateFromEdit'
  BY <1>2, <1>3, <1>6 DEF Inv, LastMount, FormOfCache, UpdateFromEdit
<1>9. DialogOfLive' /\ OneLive'
  <2>1. \A q \in Requests : Live(q)' /\ req'[q].op \in Waiting => q = r
    BY <1>4, <1>5, <1>6
  <2>2. op \in Waiting => ui'.dialog = op
    BY <1>2 DEF Waiting
  <2> QED BY <1>3, <2>1, <2>2 DEF DialogOfLive, OneLive
<1>10. SentOverSeen' /\ UpdateOverSeen'
  BY <1>2, <1>3 DEF Inv, SentOverSeen, UpdateOverSeen
<1>11. RejectErrorInDialog'
  BY <1>2 DEF Inv, RejectErrorInDialog, op
<1> QED BY <1>1, <1>7, <1>8, <1>9, <1>10, <1>11 DEF Inv

\* A form sends its values with the version in the cache.
LEMMA SaveStep ==
  ASSUME Inv, NEW r \in Requests, Save(r)
  PROVE  Inv'
<1>1. TypeOK'
  BY SendingType DEF Inv
<1>2. /\ Send(r, FormOp) /\ FormOp \in Operations
      /\ FormOp \in {"update", "create"} /\ (FormOp = "update" => page = "edit")
      /\ UNCHANGED <<page, mount, ui, cache>>
      /\ form' = form \/ form' = Rendered(cache)
  BY DEF Save, FormOp, Operations
<1>3. /\ \A q \in Requests : q # r => req'[q] = req[q]
      /\ req'[r].op = FormOp /\ req'[r].pc = "sent" /\ req'[r].mount = mount /\ req'[r].made = 0
      /\ FormOp = "update" => req'[r].ver = cache.ver /\ req'[r].base = form.base
  BY <1>2, SendType DEF Inv
<1>4. \A q \in Requests : q # r => Live(q)' = Live(q) /\ req'[q].op = req[q].op
  BY <1>2, <1>3 DEF Live
<1>5. PastMounts'
  BY <1>2, <1>3, Kinds DEF PastMounts, Inv
<1>6. LastMount' /\ FormOfCache' /\ UpdateFromEdit'
  BY <1>2, <1>3, <1>4 DEF Inv, LastMount, FormOfCache, UpdateFromEdit, Rendered
<1>7. DialogOfLive' /\ OneLive'
  BY <1>2, <1>3, <1>4 DEF Inv, DialogOfLive, OneLive, Waiting
<1>8. SentOverSeen' /\ UpdateOverSeen'
  BY <1>2, <1>3 DEF Inv, SentOverSeen, UpdateOverSeen, FormOfCache
<1>9. RejectErrorInDialog'
  BY <1>2 DEF Inv, RejectErrorInDialog
<1> QED BY <1>1, <1>5, <1>6, <1>7, <1>8, <1>9 DEF Inv

\* The server takes an update over the version it names only.
LEMMA ServerStep ==
  ASSUME Inv, NEW r \in Requests, Serve(r) \/ Lose(r)
  PROVE  Inv'
<1>1. /\ TypeOK'
      /\ UNCHANGED <<viewer, cache, fetch, page, mount, ui, form>>
      /\ \A q \in Requests : q # r => req'[q] = req[q]
      /\ req'[r].op = req[r].op /\ req'[r].mount = req[r].mount
      /\ req'[r].base = req[r].base /\ req'[r].orphan = req[r].orphan
      /\ req[r].pc \in {"sent", "served"} /\ req'[r].pc = "served"
      /\ \/ req'[r].made = 0
         \/ req[r].pc = "served" /\ req'[r].made = req[r].made
         \/ /\ req[r].pc = "sent" /\ req'[r].made = server.ver + 1
            /\ Checked(req[r].op) => server.ver = req[r].ver
  BY ServeType DEF Inv
<1>2. \A q \in Requests : Live(q)' = Live(q) /\ req'[q].op = req[q].op
  BY <1>1 DEF Live
<1>3. PastMounts'
  BY <1>1 DEF Inv, PastMounts
<1>4. LastMount' /\ FormOfCache' /\ RejectErrorInDialog'
  BY <1>1 DEF Inv, LastMount, FormOfCache, RejectErrorInDialog
<1>5. UpdateFromEdit' /\ DialogOfLive' /\ OneLive'
  BY <1>1, <1>2 DEF Inv, UpdateFromEdit, DialogOfLive, OneLive
<1>6. SentOverSeen'
  BY <1>1 DEF Inv, SentOverSeen
<1>7. server.ver \in Nat
  BY Kinds DEF Inv, Versions
<1>8. UpdateOverSeen'
  BY <1>1, <1>7 DEF Inv, SentOverSeen, UpdateOverSeen, Checked
<1> QED BY <1>1, <1>3, <1>4, <1>5, <1>6, <1>8 DEF Inv

\* An answer closes no dialog but its own.
LEMMA AnswerStep ==
  ASSUME Inv, NEW r \in Requests, Answer(r)
  PROVE  Inv'
<1>1. TypeOK'
  BY AnswerType DEF Inv
<1>2. /\ req[r].pc = "served" /\ ~req[r].orphan
      /\ UNCHANGED cache
      /\ \A q \in Requests : q # r => req'[q] = req[q]
      /\ req'[r].pc \in {"done", "over"} /\ req'[r].mount \in {req[r].mount, 0}
  BY AnswerKinds, DoneType DEF Inv
<1>3. SentOverSeen' /\ UpdateOverSeen'
  BY <1>2 DEF Inv, SentOverSeen, UpdateOverSeen
<1>4. mount \in Nat /\ (mount' = mount \/ mount' = mount + 1)
  BY AnswerKinds, Kinds DEF Inv, Unseen, LeadsOn, Stays
<1>5. PastMounts' /\ \A q \in Requests : req[q].mount \in Nat /\ req[q].mount <= mount
  BY <1>2, <1>4, Kinds DEF Inv, PastMounts, Request, Mounts
<1>6. ~Live(r)'
  BY <1>2 DEF Live
<1>7. CASE Unseen(r)
  <2>1. \A q \in Requests : Live(q)' => Live(q) /\ req'[q] = req[q]
    BY <1>2, <1>6, <1>7 DEF Live, Unseen
  <2>2. UpdateFromEdit' /\ DialogOfLive' /\ OneLive'
    BY <1>7, <2>1 DEF Unseen, Inv, UpdateFromEdit, DialogOfLive, OneLive
  <2>3. LastMount' /\ FormOfCache' /\ RejectErrorInDialog'
    BY <1>2, <1>7 DEF Unseen, Inv, LastMount, FormOfCache, RejectErrorInDialog
  <2> QED BY <1>1, <1>3, <1>5, <2>2, <2>3 DEF Inv
<1>8. CASE LeadsOn(r)
  <2>1. \A q \in Requests : ~Live(q)'
    BY <1>2, <1>4, <1>5, <1>6, <1>8 DEF Live, LeadsOn
  <2>2. UpdateFromEdit' /\ DialogOfLive' /\ OneLive'
    BY <2>1 DEF UpdateFromEdit, DialogOfLive, OneLive
  <2>3. LastMount' /\ FormOfCache' /\ RejectErrorInDialog'
    BY <1>8 DEF LeadsOn, LastMount, FormOfCache, RejectErrorInDialog, FreshUi
  <2> QED BY <1>1, <1>3, <1>5, <2>2, <2>3 DEF Inv
<1>9. CASE Stays(r)
  <2> DEFINE op == req[r].op
  <2>1. Live(r)
    BY <1>2, <1>9 DEF Live, Here, Stays
  <2>2. \A q \in Requests : Live(q)' => q # r /\ Live(q) /\ req'[q] = req[q]
    BY <1>2, <1>6, <1>9 DEF Live, Stays
  <2>3. /\ op \in Waiting => ui.dialog = op
        /\ \A q \in Requests : Live(q) /\ req[q].op \in Waiting /\ q # r
             => op \notin Waiting /\ ui.dialog = req[q].op
    BY <2>1 DEF Inv, DialogOfLive, OneLive
  <2>0. ui'.rejectError => \/ ui.rejectError /\ op # "reject"
                           \/ op = "reject" /\ ui'.dialog = ui.dialog
    <3>1. CASE ui' = Succeeded(op)
      <4>1. ui'.rejectError = (ui.rejectError /\ op # "reject")
        BY <3>1 DEF Succeeded
      <4> QED BY <4>1
    <3>2. ASSUME NEW end, ui' = Failed(op, end)
          PROVE  ui'.rejectError => \/ ui.rejectError /\ op # "reject"
                                    \/ op = "reject" /\ ui'.dialog = ui.dialog
      <4>1. ui'.rejectError = (ui.rejectError \/ op = "reject")
        BY <3>2 DEF Failed
      <4>2. op = "reject" => ui'.dialog = ui.dialog
        BY <3>2 DEF Failed
      <4> QED BY <4>1, <4>2
    <3> QED BY <1>9, <3>1, <3>2 DEF Stays
  <2>4. ui'.dialog = ui.dialog \/ op \in Waiting
    BY <1>9 DEF Stays, Succeeded, Failed, Waiting
  <2> HIDE DEF op
  <2>5. UpdateFromEdit' /\ DialogOfLive' /\ OneLive'
    BY <1>9, <2>2, <2>3, <2>4 DEF Stays, Inv, UpdateFromEdit, DialogOfLive, OneLive
  <2>6. RejectErrorInDialog'
    BY <2>0, <2>3, <2>4 DEF Inv, RejectErrorInDialog, Waiting
  <2>7. LastMount' /\ FormOfCache'
    BY <1>2, <1>9 DEF Stays, Inv, LastMount, FormOfCache, Rendered
  <2> QED BY <1>1, <1>3, <1>5, <2>5, <2>6, <2>7 DEF Inv
<1>10. TypeOK
  BY DEF Inv
<1> QED
  BY <1>7, <1>8, <1>9, <1>10, AnswerKinds

\* One step of any kind.
LEMMA InvStep == Inv /\ [Next]_vars => Inv'
<1> SUFFICES ASSUME Inv, [Next]_vars PROVE Inv'
  OBVIOUS
<1>1. CASE UNCHANGED vars
  <2>1. /\ UNCHANGED <<viewer, server, cache, fetch>>
        /\ UNCHANGED <<page, mount, ui, form, req>>
    BY <1>1 DEF vars
  <2>2. TypeOK'
    BY <2>1 DEF Inv, TypeOK
  <2>3. FormOfCache'
    BY <2>1 DEF Inv, FormOfCache
  <2> QED BY <2>1, <2>2, <2>3, Quiet
<1>2. ASSUME NEW r \in Requests, Confirm(r) \/ Save(r) \/ Serve(r) \/ Lose(r) \/ Answer(r)
      PROVE  Inv'
  BY <1>2, ConfirmStep, SaveStep, ServerStep, AnswerStep
<1>3. CASE FetchRead \/ FetchDone
  BY <1>3, FetchStep
<1>4. CASE OpenDetail \/ OpenEdit \/ OpenCreate \/ CancelEdit \/ Leave \/ Reload
  BY <1>4, PageStep
<1>5. CASE (\E op \in Actions : Ask(op)) \/ AskDeleteItem \/ CancelDialog \/ Type \/ OthersChange
  BY <1>5, DialogStep
<1> QED
  BY <1>1, <1>2, <1>3, <1>4, <1>5, Zenon DEF Next

-----------------------------------------------------------------------------
\* The inductive invariant of the report pages (ReportDetailPage, ReportEditPage,
\* ReportForm): a mounting is never used again, a mutation under way keeps its
\* page and dialog, and a form has the values of the version in the cache.
THEOREM ScreensInvariant == Spec => []Inv
  BY InvInit, InvStep, PTL DEF Spec

\* Types, for any number of requests, versions and mountings: among others
\* that what is pending is always one of the three decisions.
THEOREM ScreensTypes == Spec => []TypeOK
<1>1. Inv => TypeOK
  BY DEF Inv
<1> QED BY <1>1, ScreensInvariant, PTL

\* No update that the server took overwrites a version its author's form was
\* not filled from (ReportEditPage.handleSubmit with ReportForm's reset).
THEOREM UpdateOverSeenHolds == Spec => []UpdateOverSeen
<1>1. Inv => UpdateOverSeen
  BY DEF Inv
<1> QED BY <1>1, ScreensInvariant, PTL

\* The error of a rejection is never left for another dialog
\* (ReportDetailPage.handleReject, handleWorkflowDialogConfirm and -Cancel).
THEOREM RejectErrorHolds == Spec => []RejectErrorInDialog
<1>1. Inv => RejectErrorInDialog
  BY DEF Inv
<1> QED BY <1>1, ScreensInvariant, PTL
=============================================================================
