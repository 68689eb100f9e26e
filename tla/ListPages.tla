----------------------------- MODULE ListPages -----------------------------
(***************************************************************************)
(* The pages that list reports: the user's own, all of the tenant, those   *)
(* waiting for an approver or for the accounting, and those an approver    *)
(* has decided on.  The URL holds the page number, the page size and the    *)
(* filter; the answers are cached per URL; a filter that is typed reaches   *)
(* the URL after a pause.  Meanwhile a change the user made on another page *)
(* is served, answered, and invalidates the cache.                         *)
(***************************************************************************)
EXTENDS Naturals

CONSTANTS
    Visited,    \* the lists looked at in this instance
    Names,      \* values of the filter ("" is none)
    Changes,    \* what the user may change in this instance
    MaxMoves    \* bound on what the user does

Lists == {"mine", "all", "pending", "payable", "processed"}

\* The changes that are anybody's, of his own reports, and those of a role.
Own == {"create", "update", "submit", "delete"}
Kinds == Own \cup {"approve", "reject", "pay"}

ASSUME ListsAssumption ==
    Visited \subseteq Lists /\ "" \in Names /\ Changes \subseteq Kinds /\ MaxMoves \in Nat

\* The lists of the workflow are good for 30 s; the others are always stale.
Patient == {"pending", "payable", "processed"}

\* The filter of these is a field that waits for a pause; mine and all have
\* selections that act at once, and the decided reports have no filter.
Typed == {"pending", "payable"}
Selected == {"mine", "all"}

\* The lists that the hook of each change invalidates.
Invalidates ==
    [create |-> {"mine"}, update |-> {"mine"}, delete |-> {"mine"},
     submit |-> {"mine", "pending"},
     approve |-> {"pending", "payable"}, reject |-> {"pending"},
     pay |-> {"payable", "all"}]

\* What those who may see a list can change: its role decides or pays.
Permitted ==
    [mine |-> Kinds, all |-> Own \cup {"pay"}, payable |-> Own \cup {"pay"},
     pending |-> Own \cup {"approve", "reject"},
     processed |-> Own \cup {"approve", "reject"}]

Urls == [page : 1 .. 2, size : {20, 50}, name : Names]
Bare == [page |-> 1, size |-> 20, name |-> ""]

VARIABLES
    list,    \* the list this user looks at, and whether he may
    may,
    at,      \* where the user is
    url,     \* the address bar
    entries, \* the other addresses of the list in the tab's history
    field, debounced,
    strayed, \* whether the history or the menu changed the address after the
             \* field last did
    cache,   \* the query of every URL
    fetch,
    ver,     \* versions of the list in the database: 1 with the user's change
    kind,    \* what the user changes
    change,  \* his change: none, sent, served, answered, or answered where the
             \* cache can do something about it
    moves

vars == <<list, may, at, url, entries, field, debounced, strayed, cache, fetch,
          ver, kind, change, moves>>

TypeOK ==
    /\ list \in Lists /\ may \in BOOLEAN
    /\ at \in {"list", "elsewhere", "dashboard"}
    /\ url \in Urls /\ entries \subseteq Urls
    /\ field \in Names /\ debounced \in Names /\ strayed \in BOOLEAN
    /\ cache \in [Urls -> [has : BOOLEAN, error : BOOLEAN, stale : BOOLEAN,
                           ver : 0 .. 1, of : Urls]]
    /\ fetch \in [Urls -> [pc : {"none", "sent", "read"}, ver : 0 .. 1, of : Urls]]
    /\ ver \in 0 .. 1 /\ kind \in Kinds \cup {"none"}
    /\ change \in {"none", "sent", "served", "answered", "noted"}
    /\ moves \in 0 .. MaxMoves

NoFetch == [pc |-> "none", ver |-> 0, of |-> Bare]
NoAnswer == [has |-> FALSE, error |-> FALSE, stale |-> TRUE, ver |-> 0, of |-> Bare]

Init ==
    /\ list \in Visited /\ may \in BOOLEAN /\ (list = "mine" => may)
    /\ at = "elsewhere" /\ url = Bare /\ entries = {}
    /\ field = "" /\ debounced = "" /\ strayed = FALSE
    /\ cache = [k \in Urls |-> NoAnswer]
    /\ fetch = [k \in Urls |-> NoFetch]
    /\ ver = 0 /\ kind = "none" /\ change = "none" /\ moves = 0

-----------------------------------------------------------------------------
(* The queries.                                                            *)

\* Faulty form of Key: the size is not in the key.
KeyWithoutSize(u) == [u EXCEPT !.size = 20]

\* The key under which the answer for the parameters u is kept.
Key(u) == u

\* The request for the parameters u.
Request(u) == [pc |-> "sent", ver |-> 0, of |-> u]

\* Observing u fetches it unless its answer is fresh or already under way.
Ensured(f, u) ==
    IF f[Key(u)].pc = "none" /\ (~cache[Key(u)].has \/ cache[Key(u)].stale \/ list \notin Patient)
    THEN [f EXCEPT ![Key(u)] = Request(u)]
    ELSE f

Current == cache[Key(url)]
Loading == ~Current.has /\ ~Current.error

FetchRead(k) ==
    /\ fetch[k].pc = "sent"
    /\ fetch' = [fetch EXCEPT ![k].pc = "read", ![k].ver = ver]
    /\ UNCHANGED <<list, may, at, url, entries, field, debounced, strayed, cache,
                   ver, kind, change, moves>>

\* The answer, or a failure after the retry; what was there before stays.  Who
\* may not see the list is told so (403), and led away if he looks at it.
FetchDone(k) ==
    /\ fetch[k].pc = "read"
    /\ fetch' = [fetch EXCEPT ![k] = NoFetch]
    /\ \/ /\ may
          /\ cache' = [cache EXCEPT ![k] =
                         [has |-> TRUE, error |-> FALSE, stale |-> FALSE,
                          ver |-> fetch[k].ver, of |-> fetch[k].of]]
          /\ UNCHANGED at
       \/ /\ cache' = [cache EXCEPT ![k].error = TRUE]
          /\ at' = at
       \/ /\ ~may
          /\ cache' = [cache EXCEPT ![k].error = TRUE]
          /\ at' = IF at = "list" /\ k = Key(url) THEN "dashboard" ELSE at
    /\ UNCHANGED <<list, may, url, entries, field, debounced, strayed, ver, kind, change, moves>>

\* Thirty seconds pass.
Age(k) ==
    /\ list \in Patient /\ cache[k].has /\ ~cache[k].stale
    /\ cache' = [cache EXCEPT ![k].stale = TRUE]
    /\ UNCHANGED <<list, may, at, url, entries, field, debounced, strayed, fetch,
                   ver, kind, change, moves>>

-----------------------------------------------------------------------------
(* Coming and going.                                                       *)

Move == moves < MaxMoves /\ moves' = moves + 1

\* The page is mounted at u: the field takes the filter of the URL, and the
\* effect that reports the field to the URL runs for the first time.
Mounted(u) ==
    LET to == IF list \in Typed THEN [u EXCEPT !.page = 1] ELSE u
    IN  /\ at' = "list" /\ url' = to
        /\ field' = u.name /\ debounced' = u.name
        /\ strayed' = FALSE
        /\ fetch' = Ensured(Ensured(fetch, u), to)

\* The menu, or an address with parameters that the user kept.  The layout
\* mounts no page before it knows the user.
Open ==
    /\ Move /\ at = "elsewhere"
    /\ \E u \in {Bare} \cup {[page |-> 2, size |-> 20, name |-> n] : n \in Names} :
         Mounted(u)
    /\ UNCHANGED <<list, may, entries, cache, ver, kind, change>>

\* The buttons of the browser lead back to the list from another page.
Return ==
    /\ Move /\ at = "elsewhere"
    /\ \E u \in entries : Mounted(u)
    /\ UNCHANGED <<list, may, entries, cache, ver, kind, change>>

\* Faulty form of RoleRedirect: to another page.
RedirectToLogin ==
    /\ at = "list" /\ ~may
    /\ at' = "login"
    /\ UNCHANGED <<list, may, url, entries, field, debounced, strayed, cache, fetch,
                   ver, kind, change, moves>>

RoleRedirect ==
    /\ at = "list" /\ ~may
    /\ at' = "dashboard"
    /\ UNCHANGED <<list, may, url, entries, field, debounced, strayed, cache, fetch,
                   ver, kind, change, moves>>

\* The pages of the workflow and of the decided reports render nothing for
\* others than their role; the others render their frame at once.
Approvals == list = "pending" /\ may
Payments == list = "payable" /\ may
Processed == list = "processed" /\ may
Rendered == at = "list" /\ (Approvals \/ Payments \/ Processed \/ list \in Selected)

\* A row is clicked, or the menu's entry of another page, which is always there.
Leave ==
    /\ Move /\ at = "list"
    /\ at' = "elsewhere"
    /\ entries' = entries \cup {url}
    /\ UNCHANGED <<list, may, url, field, debounced, strayed, cache, fetch,
                   ver, kind, change>>

-----------------------------------------------------------------------------
(* The URL.                                                                *)

\* The address is replaced, or pushed onto the history; the page stays.
Goto(u, push) ==
    /\ url' = u
    /\ entries' = IF push THEN entries \cup {url} ELSE entries
    /\ fetch' = Ensured(fetch, u)

\* The footer is there, and enabled, when the answer is.
PageChange ==
    /\ Move /\ Rendered /\ ~Loading
    /\ \E p \in 1 .. 2 : p # url.page /\ Goto([url EXCEPT !.page = p], TRUE)
    /\ UNCHANGED <<list, may, at, field, debounced, strayed, cache, ver, kind, change>>

SizeChange ==
    /\ Move /\ Rendered /\ ~Loading
    /\ \E s \in {20, 50} : s # url.size /\ Goto([url EXCEPT !.page = 1, !.size = s], TRUE)
    /\ UNCHANGED <<list, may, at, field, debounced, strayed, cache, ver, kind, change>>

\* The selections of mine and all.
Select ==
    /\ Move /\ Rendered /\ list \in Selected
    /\ \E n \in Names : n # url.name /\ Goto([url EXCEPT !.page = 1, !.name = n], TRUE)
    /\ UNCHANGED <<list, may, at, field, debounced, strayed, cache, ver, kind, change>>

Type ==
    /\ Move /\ Rendered /\ list \in Typed
    /\ \E n \in Names : n # field /\ field' = n
    /\ UNCHANGED <<list, may, at, url, entries, debounced, strayed, cache, fetch,
                   ver, kind, change>>

\* Faulty form of Pause: the effect does not run again.
DebounceOnly ==
    /\ at = "list" /\ field # debounced
    /\ debounced' = field /\ strayed' = FALSE
    /\ UNCHANGED <<list, may, at, url, entries, field, cache, fetch, ver, kind, change, moves>>

\* 300 ms without a key; the effect then replaces the URL.
Pause ==
    /\ at = "list" /\ field # debounced
    /\ debounced' = field /\ strayed' = FALSE
    /\ Goto([url EXCEPT !.page = 1, !.name = field], FALSE)
    /\ UNCHANGED <<list, may, at, field, cache, ver, kind, change, moves>>

\* The reset pushes the bare URL.  When that changes the debounced value its
\* effect comes first, with the parameters as they were: the size survives.
ResetUrl == IF debounced = "" THEN Bare ELSE [url EXCEPT !.page = 1, !.name = ""]

\* Faulty form of FilterReset: the field is not reset.
UrlResetOnly ==
    /\ Move /\ Rendered /\ list \in Typed /\ url.name # ""
    /\ strayed' = FALSE
    /\ Goto(Bare, TRUE)
    /\ UNCHANGED <<list, may, at, field, debounced, cache, ver, kind, change>>

FilterReset ==
    /\ Move /\ Rendered /\ list \in Typed /\ url.name # ""
    /\ field' = "" /\ debounced' = "" /\ strayed' = FALSE
    /\ Goto(ResetUrl, TRUE)
    /\ UNCHANGED <<list, may, at, cache, ver, kind, change>>

\* The menu's entry of the list he is on: a link to the bare address of a page
\* that is not mounted again.  Field and debounced value stay.
Menu ==
    /\ Move /\ at = "list" /\ may /\ url # Bare
    /\ strayed' = TRUE
    /\ Goto(Bare, TRUE)
    /\ UNCHANGED <<list, may, at, field, debounced, cache, ver, kind, change>>

\* The browser's buttons within the list: the field does not follow either.
Browse ==
    /\ Move /\ at = "list"
    /\ strayed' = TRUE
    /\ \E u \in entries : u # url /\ Goto(u, TRUE)
    /\ UNCHANGED <<list, may, at, field, debounced, cache, ver, kind, change>>

-----------------------------------------------------------------------------
(* The user's change: sent from the page of a report, answered anywhere.   *)

Change ==
    /\ at = "elsewhere" /\ may /\ change = "none"
    /\ kind' \in Changes \cap Permitted[list]
    /\ change' = "sent"
    /\ UNCHANGED <<list, may, at, url, entries, field, debounced, strayed, cache, fetch,
                   ver, moves>>

Serve ==
    /\ change = "sent"
    /\ change' = "served" /\ ver' = 1
    /\ UNCHANGED <<list, may, at, url, entries, field, debounced, strayed, cache, fetch,
                   kind, moves>>

Observed(k) == at = "list" /\ k = Key(url)

\* Faulty form of Invalidated: a running fetch is kept.
InvalidatedIdle(k) ==
    IF Observed(k) /\ fetch[k].pc = "none"
    THEN Request(url) ELSE fetch[k]

\* invalidateQueries: what is observed is fetched anew, dropping the fetch that
\* runs if there is data; a first fetch that runs goes on, and so does a fetch
\* of what is not observed.
Invalidated(k) ==
    IF Observed(k) /\ (fetch[k].pc = "none" \/ cache[k].has)
    THEN Request(url) ELSE fetch[k]

\* Whether nothing that was asked for earlier can still get into the cache.
Clean == \A k \in Urls : fetch[k].pc = "none" \/ (Observed(k) /\ cache[k].has)

\* The hook of the change invalidates the lists it names, and no others.
Answer ==
    /\ change = "served"
    /\ IF list \in Invalidates[kind]
       THEN /\ change' = IF Clean THEN "noted" ELSE "answered"
            /\ fetch' = [k \in Urls |-> Invalidated(k)]
            /\ cache' = [k \in Urls |-> [cache[k] EXCEPT !.stale = TRUE]]
       ELSE change' = "answered" /\ UNCHANGED <<fetch, cache>>
    /\ UNCHANGED <<list, may, at, url, entries, field, debounced, strayed, ver, kind, moves>>

-----------------------------------------------------------------------------
Next ==
    \/ \E k \in Urls : FetchRead(k) \/ FetchDone(k) \/ Age(k)
    \/ Open \/ Return \/ Leave \/ RoleRedirect
    \/ PageChange \/ SizeChange \/ Select \/ Type \/ Pause \/ FilterReset
    \/ Menu \/ Browse
    \/ Change \/ Serve \/ Answer

Spec == Init /\ [][Next]_vars

\* Requests are answered, timers fire and effects run; users owe nothing.
Fairness ==
    /\ \A k \in Urls : WF_vars(FetchRead(k)) /\ WF_vars(FetchDone(k))
    /\ WF_vars(RoleRedirect) /\ WF_vars(Pause)
    /\ WF_vars(Serve) /\ WF_vars(Answer)

FairSpec == Spec /\ Fairness

-----------------------------------------------------------------------------
\* The rows on the screen are the answer to what the address bar asks for,
\* however the answers of earlier pages and filters come in.
ShownIsAsked == at = "list" /\ Current.has => Current.of = url

\* Field and filter agree once the pause is over: the text on the screen is what
\* the rows are filtered by.  Only the browser's buttons and the menu's link to
\* the list he is on part them, and the next pause or reset joins them again.
FieldIsFilter ==
    at = "list" /\ list \in Typed /\ ~strayed /\ field = debounced => url.name = field

\* What stands in the field is in the end what the rows on the screen are
\* filtered by, whatever pages, resets and invalidations come between, if the
\* address has not been parted from the field for good.
TypedFilterShows ==
    \A n \in Names :
        (at = "list" /\ list \in Typed /\ field = n)
            ~> \/ at # "list" \/ field # n \/ (strayed /\ field = debounced)
               \/ Current.error \/ (Current.has /\ Current.of.name = n)

\* A change of the user's own that was answered, and whose hook invalidates this
\* list, is in the list whenever he stays on it: a report he has approved does
\* not go on waiting for a decision.
OwnChangeShows ==
    (change = "noted" /\ at = "list")
        ~> (at # "list" \/ Current.error \/ (Current.has /\ Current.ver = 1))
=============================================================================
