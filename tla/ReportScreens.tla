--------------------------- MODULE ReportScreens ---------------------------
(***************************************************************************)
(* The pages of one report: its detail page with the dialogs for deciding  *)
(* on it, the page that edits it and the page that resubmits it, over the   *)
(* query cache they share and a server that other users change as well.    *)
(*                                                                         *)
(* A mutation goes on when its page is gone: its hook still invalidates    *)
(* the cache, but the callbacks given to mutate run only in the mounting   *)
(* that sent it.  The cache serves old data at once and fetches in the     *)
(* background; every fetch reads the server at one moment and is written   *)
(* into the cache at a later one.                                          *)
(***************************************************************************)
EXTENDS Naturals

CONSTANTS
    MaxRequests, \* bound on the mutations sent
    MaxVersion,  \* bound on the report's versions
    MaxMount     \* bound on the pages the user opens

ASSUME ScreensAssumption ==
    MaxRequests \in Nat /\ MaxVersion \in Nat /\ MaxMount \in Nat

Requests == 1 .. MaxRequests

Statuses == {"draft", "submitted", "approved", "rejected", "paid", "deleted"}
Viewers == {"owner", "approver", "accounting"}
Pages == {"away", "detail", "edit", "create"}

\* What a dialog of the detail page asks for; the edit and the create form.
Actions == {"submit", "delete", "approve", "reject", "pay"}
Operations == Actions \cup {"deleteItem", "update", "create"}
Decisions == {"approve", "reject", "pay"}

VARIABLES
    viewer,  \* the signed-in user, as this report sees him
    server,  \* the row of the report: status and version (updated_at)
    cache,   \* the query ['reports', 'detail', id]
    fetch,   \* its fetch: not running, sent, or read with what was read
    page,    \* the page shown, and mount, which mounting it is
    mount,
    ui,      \* the state of the detail page
    form,    \* the report form: the version its values come from, and whether
             \* the user has typed since
    req      \* the mutations

vars == <<viewer, server, cache, fetch, page, mount, ui, form, req>>

Versions == 0 .. MaxVersion

\* The edit page leads on by itself once more after the last page opened.
Mounts == 0 .. MaxMount + 1

Row == [st : Statuses, ver : Versions]

FreshUi == [dialog |-> "none", pending |-> "none", banner |-> FALSE,
            rejectError |-> FALSE]
FreshForm == [base |-> 0, typed |-> FALSE]
NoFetch == [pc |-> "none", st |-> "draft", ver |-> 0]
NoRequest == [op |-> "submit", pc |-> "idle", mount |-> 0, ver |-> 0,
              base |-> 0, end |-> "none", made |-> 0, orphan |-> FALSE]

TypeOK ==
    /\ viewer \in Viewers
    /\ server \in Row
    /\ cache \in [has : BOOLEAN, error : BOOLEAN, st : Statuses, ver : Versions]
    /\ fetch \in [pc : {"none", "sent", "read"}, st : Statuses, ver : Versions]
    /\ page \in Pages /\ mount \in Mounts
    /\ ui \in [dialog : {"none", "deleteItem"} \cup Actions,
               pending : {"none"} \cup Decisions,
               banner : BOOLEAN, rejectError : BOOLEAN]
    /\ form \in [base : Versions, typed : BOOLEAN]
    /\ req \in [Requests -> [op : Operations, pc : {"idle", "sent", "served", "done", "over"},
                             mount : Mounts, ver : Versions, base : Versions,
                             end : {"none", "ok", "conflict", "failed"},
                             made : Versions, orphan : BOOLEAN]]

Init ==
    /\ viewer \in Viewers
    /\ server \in [st : {"draft", "submitted", "approved", "rejected"}, ver : {0}]
    /\ cache = [has |-> FALSE, error |-> FALSE, st |-> "draft", ver |-> 0]
    /\ fetch = NoFetch
    /\ page = "away" /\ mount = 0
    /\ ui = FreshUi /\ form = FreshForm
    /\ req = [r \in Requests |-> NoRequest]

-----------------------------------------------------------------------------
(* The query and its cache.                                                *)

\* Mounting a page fetches in the background unless a fetch is running.
Ensured == IF fetch.pc = "none" THEN [NoFetch EXCEPT !.pc = "sent"] ELSE fetch

\* Faulty form of Invalidated: a running fetch is kept.
InvalidatedIdle == IF page = "away" THEN fetch ELSE Ensured

\* invalidateQueries: a query on the screen is fetched anew, a fetch that is
\* running is given up; any other query is fetched when it is mounted again.
Invalidated == IF page = "away" THEN fetch ELSE [NoFetch EXCEPT !.pc = "sent"]

Shown == cache.has /\ ~cache.error

FetchRead ==
    /\ fetch.pc = "sent"
    /\ fetch' = [pc |-> "read", st |-> server.st, ver |-> server.ver]
    /\ UNCHANGED <<viewer, server, cache, page, mount, ui, form, req>>

\* The edit page's effects: an error leads to the list, a report that is no
\* draft back to its detail page.
PageOver(c) ==
    CASE page = "edit" /\ c.error -> "away"
      [] page = "edit" /\ c.st # "draft" -> "detail"
      [] OTHER -> page

\* Faulty form of Rendered: what was typed is kept.
KeepsTyped(c) == IF form.typed THEN form ELSE [base |-> c.ver, typed |-> FALSE]

\* ReportForm resets itself to the default values it is given: the edit page
\* gives it a new object whenever it is rendered, the create page when the
\* report it refers to has changed.
Rendered(c) == [base |-> c.ver, typed |-> FALSE]

\* The answer.  A deleted report is not found; a fetch that failed twice keeps
\* the data next to the error.  Data that did not change renders nothing.  The
\* detail page that the edit page leads to fetches once more.
FetchDone ==
    /\ fetch.pc = "read"
    /\ \E failed \in BOOLEAN :
         LET error == failed \/ fetch.st = "deleted"
             new == IF error THEN [cache EXCEPT !.error = TRUE]
                    ELSE [has |-> TRUE, error |-> FALSE,
                          st |-> fetch.st, ver |-> fetch.ver]
         IN  /\ cache' = new
             /\ fetch' = IF PageOver(new) \in {page, "away"} THEN NoFetch
                         ELSE [NoFetch EXCEPT !.pc = "sent"]
             /\ page' = PageOver(new)
             /\ form' = IF PageOver(new) # page THEN FreshForm
                        ELSE IF new = cache \/ page \notin {"edit", "create"} \/ error
                        THEN form ELSE Rendered(new)
             /\ mount' = IF PageOver(new) = page THEN mount ELSE mount + 1
             /\ ui' = IF PageOver(new) = page THEN ui ELSE FreshUi
    /\ UNCHANGED <<viewer, server, req>>

-----------------------------------------------------------------------------
(* Going from page to page.                                                *)

\* A page that is mounted starts afresh and takes its form from the cache.
Mounting(to) ==
    /\ page' = to /\ mount' = mount + 1
    /\ ui' = FreshUi
    /\ form' = IF to \in {"edit", "create"} THEN Rendered(cache) ELSE FreshForm
    /\ fetch' = Ensured

Opening(to) ==
    /\ mount < MaxMount
    /\ Mounting(to)
    /\ UNCHANGED <<viewer, server, cache, req>>

\* A row of a list, a link of the dashboard.
OpenDetail ==
    /\ page = "away"
    /\ Opening("detail")

\* The buttons of the bar, for the report as the cache has it.
OwnerActions(op) ==
    /\ viewer = "owner"
    /\ \/ op \in {"edit", "submit", "delete"} /\ cache.st = "draft"
       \/ op = "resubmit" /\ cache.st = "rejected"

WorkflowActions(op) ==
    \/ op \in {"approve", "reject"} /\ viewer = "approver" /\ cache.st = "submitted"
    \/ op = "pay" /\ viewer = "accounting" /\ cache.st = "approved"

Bar(op) ==
    /\ page = "detail" /\ Shown
    /\ ui.dialog = "none" /\ ui.pending = "none"
    /\ OwnerActions(op) \/ WorkflowActions(op)

OpenEdit == Bar("edit") /\ Opening("edit")

OpenCreate == Bar("resubmit") /\ Opening("create")

\* The menu, the browser's back button, a form's cancel button.
Leave ==
    /\ page # "away"
    /\ page' = "away" /\ ui' = FreshUi /\ form' = FreshForm
    /\ UNCHANGED <<viewer, server, cache, fetch, mount, req>>

CancelEdit ==
    /\ page = "edit" /\ Shown
    /\ Mounting("detail")
    /\ UNCHANGED <<viewer, server, cache, req>>

\* window.location.reload, offered with a conflict: the cache is gone, and the
\* answers to what was sent reach nobody.
Reload ==
    /\ page = "detail" /\ ui.banner /\ Shown
    /\ mount < MaxMount
    /\ page' = "detail" /\ mount' = mount + 1
    /\ ui' = FreshUi /\ form' = FreshForm
    /\ cache' = [cache EXCEPT !.has = FALSE]
    /\ fetch' = [NoFetch EXCEPT !.pc = "sent"]
    /\ req' = [r \in Requests |->
                 [req[r] EXCEPT !.orphan = req[r].pc \in {"sent", "served"}]]
    /\ UNCHANGED <<viewer, server>>

-----------------------------------------------------------------------------
(* Dialogs, the forms, and the requests they send.                         *)

\* isPending of the mutation op in this mounting of the page.
Pending(op) ==
    \E r \in Requests : /\ req[r].op = op /\ req[r].mount = mount
                        /\ req[r].pc \in {"sent", "served"} /\ ~req[r].orphan

\* A button opens the dialog for op; a rejection starts without an old error.
Ask(op) ==
    /\ Bar(op)
    /\ ui' = [ui EXCEPT !.dialog = op,
                        !.rejectError = IF op = "reject" THEN FALSE ELSE @]
    /\ UNCHANGED <<viewer, server, cache, fetch, page, mount, form, req>>

\* The bin in a row of the items; the table does not look at the bar.
AskDeleteItem ==
    /\ page = "detail" /\ Shown /\ ui.dialog = "none"
    /\ viewer = "owner" /\ cache.st = "draft"
    /\ ui' = [ui EXCEPT !.dialog = "deleteItem"]
    /\ UNCHANGED <<viewer, server, cache, fetch, page, mount, form, req>>

\* ConfirmDialog takes neither button while its mutation is under way.
DialogTakes == page = "detail" /\ Shown /\ ui.dialog # "none" /\ ~Pending(ui.dialog)

CancelDialog ==
    /\ DialogTakes
    /\ ui' = [ui EXCEPT !.dialog = "none",
                        !.rejectError = IF ui.dialog \in Decisions THEN FALSE ELSE @]
    /\ UNCHANGED <<viewer, server, cache, fetch, page, mount, form, req>>

\* Only the deletions do not carry the version their user has seen.
Checked(op) == op \notin {"delete", "deleteItem", "create"}

\* mutate: the request carries the version in the cache and, in an update, the
\* values of the form.  Requests are numbered as they are sent.
Send(r, op) ==
    /\ req[r].pc = "idle" /\ \A q \in 1 .. (r - 1) : req[q].pc # "idle"
    /\ req' = [req EXCEPT ![r] = [NoRequest EXCEPT
                  !.op = op, !.pc = "sent", !.mount = mount,
                  !.ver = IF Checked(op) THEN cache.ver ELSE 0,
                  !.base = IF op = "update" THEN form.base ELSE 0]]

\* Faulty form of Confirm: every dialog sets what is pending.
ConfirmAnyPending(r) ==
    /\ DialogTakes
    /\ Send(r, ui.dialog)
    /\ ui' = [ui EXCEPT !.dialog = IF @ \in {"approve", "pay", "deleteItem"} THEN "none" ELSE @,
                        !.pending = ui.dialog]
    /\ UNCHANGED <<viewer, server, cache, fetch, page, mount, form>>

\* "Yes": the dialogs for approving, paying and deleting an item close at once.
Confirm(r) ==
    /\ DialogTakes
    /\ Send(r, ui.dialog)
    /\ ui' = [ui EXCEPT
           !.dialog = IF @ \in {"approve", "pay", "deleteItem"} THEN "none" ELSE @,
           !.pending = IF ui.dialog \in Decisions THEN ui.dialog ELSE @]
    /\ UNCHANGED <<viewer, server, cache, fetch, page, mount, form>>

FormShown ==
    \/ page = "edit" /\ Shown /\ cache.st = "draft" /\ viewer = "owner"
    \/ page = "create"

FormOp == IF page = "edit" THEN "update" ELSE "create"

\* The fields are disabled while the form is being saved.
Type ==
    /\ FormShown /\ ~Pending(FormOp) /\ ~form.typed
    /\ form' = [form EXCEPT !.typed = TRUE]
    /\ UNCHANGED <<viewer, server, cache, fetch, page, mount, ui, req>>

\* The page is rendered anew when its mutation starts (and ends), and the edit
\* page's form is reset by it.
Save(r) ==
    /\ FormShown /\ ~Pending(FormOp)
    /\ Send(r, FormOp)
    /\ form' = IF page = "edit" THEN Rendered(cache) ELSE form
    /\ UNCHANGED <<viewer, server, cache, fetch, page, mount, ui>>

-----------------------------------------------------------------------------
(* The server: one request is one step here (ReportTx has the steps), and  *)
(* other users work on the report too.                                     *)

After(op) ==
    CASE op = "submit" -> "submitted" [] op = "approve" -> "approved"
      [] op = "reject" -> "rejected"  [] op = "pay" -> "paid"
      [] op = "delete" -> "deleted"   [] OTHER -> "draft"

From(op) ==
    CASE op \in {"approve", "reject"} -> "submitted"
      [] op = "pay" -> "approved"
      [] OTHER -> "draft"

Changed(op) ==
    /\ server.ver < MaxVersion
    /\ server' = [st |-> After(op), ver |-> server.ver + 1]

OthersChange ==
    /\ \E op \in Actions \cup {"update"} : server.st = From(op) /\ Changed(op)
    /\ UNCHANGED <<viewer, cache, fetch, page, mount, ui, form, req>>

Ends(r, end, made) ==
    req' = [req EXCEPT ![r].pc = "served", ![r].ver = 0, ![r].end = end, ![r].made = made]

\* A copy of a rejected report leaves that report alone.
Serve(r) ==
    /\ req[r].pc = "sent"
    /\ LET op == req[r].op
       IN  \/ /\ op = "create"
             /\ Ends(r, "ok", 0) /\ UNCHANGED server
          \/ /\ op # "create" /\ server.st = From(op)
             /\ Checked(op) => server.ver = req[r].ver
             /\ Changed(op)
             /\ Ends(r, "ok", server.ver + 1)
          \/ /\ op # "create" /\ server.st # "deleted"
             /\ Checked(op) /\ server.ver # req[r].ver
             /\ Ends(r, "conflict", 0)
             /\ UNCHANGED server
          \/ /\ Ends(r, "failed", 0) /\ UNCHANGED server
    /\ UNCHANGED <<viewer, cache, fetch, page, mount, ui, form>>

\* The connection breaks after the server has done what it was asked.
Lose(r) ==
    /\ req[r].pc = "served" /\ req[r].end = "ok"
    /\ req' = [req EXCEPT ![r].end = "failed"]
    /\ UNCHANGED <<viewer, server, cache, fetch, page, mount, ui, form>>

-----------------------------------------------------------------------------
(* The answers.                                                            *)

\* The callbacks given to mutate run only while their page is mounted.
Here(r) == page # "away" /\ req[r].mount = mount

\* The hooks that invalidate the report's query; the one that deletes the
\* report and the one that creates another do not.
Invalidates(op) == op \notin {"delete", "create"}

\* Of the requests answered, those are remembered whose change has to show:
\* it is on a page of the report that the answer arrives.
Done(r) ==
    req' = [req EXCEPT ![r] =
              IF page # "away" /\ @.end = "ok" /\ Invalidates(@.op)
              THEN [@ EXCEPT !.pc = "done", !.base = 0]
              ELSE [NoRequest EXCEPT !.pc = "over"]]

\* Faulty form of Failed: what is pending left in place.
FailedPending(op, end) ==
    [ui EXCEPT !.dialog = IF @ = op /\ op \in {"submit", "delete"} THEN "none" ELSE @,
               !.banner = @ \/ (op \in {"submit", "delete"} /\ end = "conflict"),
               !.rejectError = @ \/ op = "reject"]

\* The mutation failed: its dialog closes, except for the rejection's, which
\* shows the error; a conflict on submitting raises the banner.
Failed(op, end) ==
    [dialog |-> IF ui.dialog = op /\ op \in {"submit", "delete"} THEN "none" ELSE ui.dialog,
     pending |-> IF op \in Decisions THEN "none" ELSE ui.pending,
     banner |-> ui.banner \/ (op \in {"submit", "delete"} /\ end = "conflict"),
     rejectError |-> ui.rejectError \/ op = "reject"]

\* Faulty form of Succeeded: the error left in place.
SucceededWithError(op) ==
    [ui EXCEPT !.dialog = IF op \in {"submit", "reject"} THEN "none" ELSE @,
               !.pending = IF op \in Decisions THEN "none" ELSE @]

Succeeded(op) ==
    [dialog |-> IF op \in {"submit", "reject"} THEN "none" ELSE ui.dialog,
     pending |-> IF op \in Decisions THEN "none" ELSE ui.pending,
     banner |-> ui.banner,
     rejectError |-> ui.rejectError /\ op # "reject"]

Answer(r) ==
    /\ req[r].pc = "served" /\ ~req[r].orphan
    /\ Done(r)
    /\ LET op == req[r].op
           ok == req[r].end = "ok"
           goes == Here(r) /\ ok /\ op \in {"delete", "update", "create"}
           again == IF ok /\ Invalidates(op) THEN Invalidated ELSE fetch
       IN  /\ fetch' = again
           /\ IF ~Here(r) THEN UNCHANGED <<page, mount, ui, form>>
              ELSE IF goes
              THEN /\ page' = IF op = "update" THEN "detail" ELSE "away"
                   /\ mount' = IF op = "update" THEN mount + 1 ELSE mount
                   /\ ui' = FreshUi /\ form' = FreshForm
              ELSE /\ ui' = IF ok THEN Succeeded(op) ELSE Failed(op, req[r].end)
                   /\ form' = IF op = "update" THEN Rendered(cache) ELSE form
                   /\ UNCHANGED <<page, mount>>
    /\ UNCHANGED <<viewer, server, cache>>

-----------------------------------------------------------------------------
Next ==
    \/ FetchRead \/ FetchDone
    \/ OpenDetail \/ OpenEdit \/ OpenCreate \/ CancelEdit \/ Leave \/ Reload
    \/ (\E op \in Actions : Ask(op)) \/ AskDeleteItem \/ CancelDialog
    \/ Type \/ OthersChange
    \/ \E r \in Requests : Confirm(r) \/ Save(r) \/ Serve(r) \/ Lose(r) \/ Answer(r)

Spec == Init /\ [][Next]_vars

\* fetch and the server answer; nobody has to press anything.
Fairness ==
    /\ WF_vars(FetchRead) /\ WF_vars(FetchDone)
    /\ \A r \in Requests : WF_vars(Serve(r)) /\ WF_vars(Answer(r))

FairSpec == Spec /\ Fairness

-----------------------------------------------------------------------------
\* An update that the server took had its values from the very version that it
\* replaced: what another user wrote meanwhile is refused, not overwritten,
\* although the form and the version it sends come from different renderings.
UpdateOverSeen ==
    \A r \in Requests :
        req[r].op = "update" /\ req[r].pc = "served" /\ req[r].made > 0
        => req[r].base = req[r].made - 1

\* The error of a rejection is on the screen as long as it is kept: it never
\* shows up in a dialog opened later.
RejectErrorInDialog == ui.rejectError => ui.dialog = "reject"

\* What this user changed gets onto his screen: the page does not stay with the
\* report as it was, whatever fetch was under way when the answer came.
\* (Deleting is left out: its hook does not invalidate this query; so is an
\* answer that finds none of the report's pages, for nothing is fetched then.)
Caught(r) == page = "away" \/ cache.error \/ cache.ver >= req[r].made

ChangeIsShown ==
    \A r \in Requests : (req[r].pc = "done") ~> Caught(r)

\* The bar and the dialogs become usable again after every answer or failure.
PendingEnds == (ui.pending # "none") ~> (ui.pending = "none")
=============================================================================
