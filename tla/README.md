# A verification project for expense-saas

expense-saas is a multi-tenant expense system: a Go server (chi, pgx, sqlc) on
PostgreSQL with row level security, and a React frontend (TanStack Query). This
directory holds TLA+ models of its core, TLC configurations that check them on
small instances, and TLAPS proofs for every size.

## 1. Inventory

| Component | State | Operations | What is hard | Correct means |
|---|---|---|---|---|
| Report life cycle (`internal/domain/report.go`, `authorizer.go`, roles in `cmd/server/main.go`) | status and `*_by` columns | submit, approve, reject, pay, delete, edit guards | nothing by itself: pure functions | segregation of duties, one decision, history is final |
| Report and item transactions (`service/report_service.go`, `item_service.go`, `workflow_service.go`, `repository/postgres`, `middleware/tenant.go`) | rows of `expense_reports`, `expense_items`; per request: one transaction and the entity read in it | create, copy, update, delete, submit, approve, reject, pay, get, add / update / delete item | READ COMMITTED without `FOR UPDATE`; checks on an entity read earlier; sums under a statement snapshot; row locks; failure of COMMIT | the statements implement the atomic life cycle; decisions are made on what was shown; totals are sums; only drafts change |
| Sessions (`service/auth_service.go`, `frontend/src/api/client.ts`, `stores/auth.ts`, `useLogin`, `useLogout`) | rows of `refresh_tokens`; per tab: token pair, refresh promise, open calls | login, refresh with rotation and reuse detection, logout, API call with one retry | the statements of a handler commit one by one; answers are lost or late; one promise for many calls; page loads | a token is exchanged once; the tab never keeps a rotated token; calls end; logout is final |
| Password reset (`auth_service.go:383-500`) | `password_reset_tokens`, the pool of five owner connections | request, execute | token read outside the transaction; two connections per request | a token is used once; requests end |
| Signup | users, tenants, memberships | signup | two signups with one email | one tenant per admin, a conflict for the loser |
| Attachments (`service/attachment_service.go`, `pkg/s3`) | rows of `attachments`, objects in S3 | upload, list, presign, delete | S3 and PostgreSQL do not commit together; draft check repeated nowhere; two lock orders | every live row has its object; no change after submission; requests end |
| Rate limiter (`middleware/ratelimit.go`) | token buckets in a `sync.Map` | allow, cleanup goroutine | cleanup against use | no more than the burst in a window |
| Dashboard, tenant settings | none | reads | several statements, several snapshots | one answer is consistent |
| Tenant context, RLS | `app.current_tenant` of a connection | begin, commit, rollback | the answer is written before COMMIT | no row of another tenant |
| Item panel (`pages/reports/ItemSlidePanel.tsx`, `ItemForm`, `AttachmentArea`, `AttachmentUploader`, their hooks) | mode and key of the panel, form, files to upload, locks, dialogs, requests under way | add, view, edit, type, choose and remove files, save, save and continue, delete a file, close, discard | an async function outlives the panel that called it; uploads one by one with aborts; locks set and released in many branches | a success is complete; requests belong to the item shown; one creation at a time; nothing typed vanishes without cause; the spinner stops |
| Report pages (`ReportDetailPage`, `ReportEditPage`, `ReportCreatePage`, `ReportForm`, `hooks/useReports.ts`) | query cache, dialogs, pending action, form, mutations | open, edit, resubmit, submit, decide, delete, reload | a cache that others make stale; callbacks of mutations after the page is gone; the form is reset by renderings; conflicts | an update is over the version its values came from; what the user changed is shown; the bar becomes usable again |
| List pages (`ReportListPage`, `AllReportsPage`, `ApprovalListPage`, `PaymentListPage`, `ProcessedReportsPage`) | URL, filter field, debounced filter, cache by key | type, select, page, size, reset, menu, browser's buttons, leave, return | a timer and an effect that write the URL; answers out of order; addresses that change under a mounted page; hooks that invalidate some lists only | rows are what the URL asks for; field and filter agree; what is typed filters the rows in the end; own changes show |

The components interact in four ways: the browser calls the HTTP handlers;
handlers share nothing but the database; the database is the only place where
requests wait for each other (row locks); the pages share the query cache,
which a mutation's hook invalidates even when its page is gone.

## 2. Modules

| Module | Models | Notes |
|---|---|---|
| `ExpenseDomain` | the entity, its guards and transitions, ownership and role rules | operators only, no state |
| `Workflow` | the life of a report as atomic steps | abstract specification |
| `ReportTx` | the endpoints as transactions, one worker per request | implements `Workflow`; extends `ExpenseDomain` |
| `Sessions` | refresh tokens, authentication handlers, one browser tab | stands alone |
| `Attachments` | files, their rows and objects, the cascades of deletions, row locks | extends `ExpenseDomain` |
| `ItemPanel` | the slide panel of items and its attachment area | stands alone |
| `ReportScreens` | the pages of one report over the cache and a server that others change too | one request is one step of the server; `ReportTx` has the statements |
| `ListPages` | the five list pages | stands alone |
| `WorkflowProofs` | theorems about `Workflow` | |
| `CoreProofs` | the types and shapes of `ReportTx`; its report rows: `CoreInvariant` | section 5 |
| `LifeCycleProofs` | `ReportTx` implements `Workflow`; items, versions, what a client was shown | extends `CoreProofs`, instantiates `WorkflowProofs` |
| `SessionsProofs` | the invariant of `Sessions` and its safety | |
| `AttachmentsProofs` | the invariant of `Attachments` and its safety | |
| `ItemPanelProofs` | the invariant of `ItemPanel`, its safety and `LossHasCause` | |
| `ReportScreensProofs` | the invariant of `ReportScreens` and its safety | |
| `ListPagesProofs` | the invariant of `ListPages` and its safety | |
| `MCReportTx`, `MCSessions`, `MCAttachments`, `MCItemPanel`, `MCReportScreens`, `MCListPages` | instances for TLC | |

### ReportTx

A worker is a request: `pc` names the next SQL statement or decision of its
handler, `req` what the client sent, `row` the entity loaded by `GetByID`,
`stamp` the transaction's `now()`, `pend` and `ipend` the rows it has written
and not committed. Between any two statements other requests run.

| Code | Action |
|---|---|
| router, `RequireRole`, BEGIN in `TenantContext` | `Begin...` via `Open` |
| `reportRepo.GetByID` and the checks right after it | `Load` (`LoadOK`, `Passes`) |
| `HasApprover`, `ListByReportID`, `Submit` | `CheckSubmit` |
| `UpdateReport`, `UpdateReportStatus` with `updated_at = $n` | `Cas` |
| `itemRepo.GetByID`; INSERT, UPDATE, DELETE of an item | `FindItem`; `InsertItem`, `UpdateItem`, `DeleteItem` |
| `UpdateReportTotalAmount`: its subquery, then its write | `SumItems`, `WriteTotal` |
| `SoftDelete`: items, then the report | `Cascade`, `DeleteRow` |
| `CreateReport` with the copies of a resubmission | `InsertReport` |
| `buildDetail` and the answer of a GET | `Respond` |
| COMMIT; a 4xx and ROLLBACK; anything that breaks | `Commit`; `Refuse`; `Fail` |

Decisions of the model:
- `updated_at` is `now()`, which PostgreSQL fixes when the transaction begins,
  to the microsecond. The model takes two transactions never to share one, and
  lets later ones commit first (stamps are not monotone in commit order).
- A client learns versions from GET answers only (`useReports.ts` invalidates
  and refetches; it never writes an answer of a mutation into the cache).
- `UpdateReportTotalAmount` is two steps because its subquery uses the snapshot
  of the statement, while the row is taken in its newest version once the lock
  is granted (READ COMMITTED re-evaluates the row, not the subquery's rows).
- Totals are kept as the vector of amounts that were added, so that a wrong
  total cannot hide behind two errors that cancel.
- The statements of `CreateReport` are one step: nobody sees the new rows
  before the commit, and the items of the report that is copied are read in one
  statement. `Cascade` takes all item locks at once.
- Roles and memberships are constant: only signup and the seed write them.

### Sessions

Refresh tokens are numbered in the order they are issued. A handler (`srv`)
executes its statements one by one, each committed at once. The tab has the
token `held`, the handler `flight` that `refreshPromise` waits for, and its
calls, of which the logout is one. The expiry of access tokens is left to the
clock: any API call may be answered with 401. A fetch may lose its answer at
any moment; a page load forgets everything but `held`, which is in
`sessionStorage`. A statement may fail (`HandlerFails`), and then what came
before it stays. `left`, `swept`, `out` and `cut` are history variables: no
action reads them.

### Attachments

A worker is again a request with its transaction. `ReportTx` takes all row locks
of a cascade at once; here every `UPDATE` takes them one row at a time
(`Start` fixes the rows its snapshot matched, `LockRow` locks the next one and
looks at its `deleted_at` again), so that two requests can wait for each other.
`Statements` lists the UPDATEs of `itemRepo.SoftDelete` and
`reportRepo.SoftDelete` in their order, `Pos` the order in which one UPDATE
meets the rows of its table. `Put` is `PutObject`, which no ROLLBACK undoes;
`Insert` is `CreateAttachment`, whose foreign keys do not conflict with UPDATEs
of `deleted_at`. `Abort` is PostgreSQL's deadlock detection. The submission of
the report is one step, as `ReportTx` justifies. `stale` and `late` are history
variables: requests whose checks a commit has overtaken, and attachments that
were committed in a race with a deletion. An unused key is reused only if
nothing was ever stored under it.

### The pages

JavaScript runs to the next `await`: everything between two awaits is one step,
a request is sent in one step and answered in another, and answers come in any
order. An effect that depends on a state which a step changes is part of that
step, in the order React runs it. TanStack Query, the router and the
browser's history are external: `fetch`, `cache`, `Invalidated`, `Ensured`,
`Goto` and `Back` do what the code in `src/` relies on (a running fetch with
data is dropped by an invalidation, one without data goes on; the callbacks
given to `mutate` run only while the component is mounted, those of the hook
always; a mutation is sent once, a query is retried once).

`ItemPanel`. `panel` is `panelState`, `selectedItem` and `formKey` of the page;
a new key mounts a fresh panel (`Remount`), while `handleAddModeSubmit` of the
old one goes on. `saves` are the calls of that function: `create` waits for the
POST, `upload` for one file. Each knows the key it was sent from (`Mine`), and
what it does to a panel that is gone is lost, but its calls back to the page
are not (`AfterSubmit`). `form.ctl` is `abortControllerRef`, `form.seq` and
`form.busy` are the locks. Entries are numbered: `form.text` is the latest one
typed, `form.files` those that chose a file; so a form that lost its input can
be told from one that kept it. The drawer can be hidden, open or sliding out;
a click lands on the uppermost layer only.

`ReportScreens`. `cache` and `fetch` are the query of one report, `server` its
row as a version and a status, `mount` the mounting of the page shown. `form.base`
is the version the values of the form come from: `Rendered` resets them, as
`ReportForm` does whenever its default values are a new object. On the edit page
that is every rendering, those at the start and at the end of a save included.
`req` are the mutations; `Here` says whether the callbacks given to `mutate`
still run. `OthersChange` is any other user's transition.

`ListPages`. `url` is the address, `field` and `debounced` the two filter states
of the pages that filter by a name, `cache` and `fetch` one query per `Key`.
`Pause` is the timer with the effect that replaces the URL, `Mounted` includes
that effect's first run. `AppLayout` mounts a page only when it knows the user, so
the role check has what it needs from the start. Two ways lead to another address
under a page that stays mounted: `Menu`, the entry of the list that is shown
(`AppSidebar.tsx:126`), and `Browse`, the browser's buttons, whose addresses are in
`entries`; `strayed` says that the field has not changed the address since. A change
of the user's is sent from the page of a report and answered on any page; `kind` is
which change it is, `Invalidates` the lists its hook invalidates, `ver` whether the
database has it.

## 3. Runs

| Run | Question | Bounds |
|---|---|---|
| `decisions` | do update, submit, approve, reject, pay and get, two at a time, implement `Workflow`; segregation of duties, one decision, final history, types | 3 users (owner who is an approver, approver, accountant), 1 report, 1 item, 2 workers, 5 writing transactions: the shortest full life needs 3, two more leave room for a rival at every stage |
| `edits` | are decisions made on the content that was shown; are submissions never empty; are item edits never blind; does every request end | 2 users, 2 items, 2 workers, 4 writing transactions |
| `serial` | with one request at a time, totals are sums, a report that left the draft status keeps its contents and is not deleted, a deleted report is empty, a resubmission is of a rejected report | 1 worker, amounts 1 and 2, 5 transactions |
| `after_submit` (violation) | RPT-011 and RPT-013, `errors.go:31` and `:39` | as `edits` |
| `lost_total` (violation) | RPT-006, migration 000007, line 12 | as `edits` |
| `rotation` | token rotation: one successor per token, no dead token in the tab, reuse detection not set off by the tab itself | 2 calls and a logout, 2 handlers, 3 tokens: a login's token, its successor, the next login or refresh |
| `calls_end` | every API call ends | 2 calls, 2 handlers, 2 tokens |
| `attachments` | has every row and every URL its object; what survives a deletion or changes after the submission; who waits for whom; does every request end | 2 users, 2 items, 2 attachments (one from the start), 2 workers, 3 requests: two that meet and one that uses what they left |
| `logout_race` (violation) | `useLogout.ts:3` | as `rotation`, no page loads by the user |
| `panel` | is a success complete; do requests for attachments belong to the item shown; can two POSTs of one panel meet; what makes typed values vanish; does the spinner stop | 1 item, 2 additions, 3 entries, keys up to 1 by clicks: one panel, its successor, and an answer for the first while the second is used |
| `screens` | can an update overwrite what its user has not seen; does an error of a rejection stay in its dialog; does the user's own change get on the screen; does the bar become usable again | 2 mutations, 3 versions, 2 pages opened by the user: a mutation, another user's change, and a mutation that meets both |
| `lists` | are the rows those the URL asks for; do field and filter agree; does what is typed filter the rows in the end; does an own change show | 3 of the five lists (one of each kind: typed, selected, without a filter; the two left out have the code of a sibling), 2 pages, 2 sizes, 2 filters, 3 kinds of change (two that a list shown is invalidated by, one that none is), 3 moves of the user: come with an address, do something, and go back, reset or use the menu |

The pairs of a passing and a violation run belong together: `serial` shows that
the code keeps RPT-006, RPT-011 and RPT-013 for one request at a time, the
violation runs that it does not when two requests meet. What holds under every
interleaving is in `decisions` and `edits`: the optimistic version
check of `UpdateReport` and `UpdateReportStatus` is enough to make the life
cycle atomic, and because every item edit restamps its report, also to make an
approval one of the content that was shown. That a resubmission is of a
rejected report is checked in `serial` and proved for every interleaving
(`ResubmissionHolds`).

`DeletedReportIsEmpty` is checked and proved without overlap only: an item inserted while the
cascade runs survives under the deleted report, where no query shows it. The
inventory of hazards lists it; nothing in the repository promises otherwise.

`rotation`: the reuse detection of `RefreshToken` takes any revoked token for a
stolen one (`auth_service.go:253`). `SweptHasCause` says when a tab can set it
off by itself: after a page load in the middle of a refresh, and after a logout,
which revokes the token that a call answered with 401 is about to refresh with.
Both are real: the user is then signed out of every other session too.

What the runs of the pages say has limits worth knowing. `LossHasCause` lists
the causes that empty a form; one of them is the answer to another save. A
save that is answered late calls `onSaveSuccess` or `onSaveAndContinue` of the
page (`ReportDetailPage.tsx:594-602`), which close or replace whatever panel is
open by then, and its input goes with it: an item created in a panel closed
before the answer can close the panel that was opened next. `UpdateOverSeen`
holds because `Rendered` resets the form whenever the cache has a new version;
the price is that what was typed is lost then, and also when the save fails or
is sent, as the edit page hands over a new object of default values at each
rendering (`ReportForm.tsx:99`). `ChangeIsShown` leaves out the deletion of a
report, whose hook does not invalidate the query of that report, and answers
that find the user on another page, where nothing is fetched until he returns.
`FieldIsFilter` has two exceptions. The browser's buttons and the menu's entry of
the list that is shown (`AppSidebar.tsx:126-131`) change the address without mounting
the page again (`App.tsx:48`): the field keeps its text, the effect of the debounced
value does not run, and the rows are filtered otherwise until the next pause, reset
or mounting (`strayed`). Entering a list with a page number in the address drops
the number, for the debounce effect runs at mounting (`ApprovalListPage.tsx:108`).
A hook invalidates the lists it names only (`Invalidates`), and `OwnChangeShows` is
about those. The list of the decided reports is invalidated by none and shows a
decision after its 30 seconds only (`useApproveReport.ts:43`). The list of all
reports is invalidated by a payment alone (`useMarkAsPaid.ts:40`): who opens it
before his own submission is committed keeps the old row until he comes to the list
again. A change answered while an answer to an
earlier request for another address is under way is not `noted`: that answer may
put the old rows into the cache as fresh.

`attachments` states what the code does keep: `SurvivorsAreLate` and
`OnlyOvertakenChange` allow a file to outlive a deletion, or to change after a
submission, only in a request that had made its check before. An upload or a
deletion of a file does not restamp the report, so in that window an approver's
version check does not notice it. `CircleOfDeletions` says that the deletion of
an item (attachments, then the item) and that of its report (items, then
attachments) can block each other and nothing else can; PostgreSQL answers one
of them with an error, which `RequestEnds` relies on.

Two workers are enough for the races found here: each is between one request
that checked and one that wrote. Two reports matter to resubmission only.
`CHECK_DEADLOCK FALSE` stands in every configuration because the bounds on
transactions, tokens and moves stop the system, and because a user may stop;
`RequestEnds`, `CallEnds`, `SpinnerStops` and `PendingEnds` are the checks that
nobody waits for ever.

Fairness. `FairSpec` of `ReportTx`: strong fairness of a worker's next
statement. A handler goroutine is scheduled again and again, and PostgreSQL
queues the transactions that wait for a row lock, so one whose turn comes up
again and again is served; clients and failures owe nothing. That of
`Attachments` adds weak fairness of the deadlock detection. `FairSpec` of
`Sessions`: weak fairness of a handler's next statement, strong fairness of
the delivery or loss of an answer (a fetch settles: the browser reports a dead
connection as an error). No fairness on users, crashes or the clock. The pages:
weak fairness of every answer (the fetch settles), of the server's step, of
timers, effects and the end of an animation; none of clicks, typing, other
users or the 30 seconds of a cached answer.

## 4. Findings

1. An item request that read the report as a draft edits it after a submission
   (`after_submit`): the item statements have no condition on the report. A
   delete request does the same: `SoftDeleteReport` looks at neither status nor
   version.
2. Two concurrent item requests lose part of the total (`lost_total`).
3. A refresh in flight signs the tab in again after a logout (`logout_race`).

`Submit`'s comment (`domain/report.go:17`) says that the total is recomputed;
`UpdateReportStatus` does not write it, so a total lost before a submission is
what gets approved and paid.

The induction for `OneAdditionAtATime` shows another race, which has no run of its
own. The rejection of an aborted upload takes off the lock of the panel and clears
its controller, whichever save they belong to by then (`ItemSlidePanel.tsx:425`
and `:461`). It is late when the upload waits for the token refresh, whose promise
knows no signal (`client.ts:89`). If the user has reopened the panel and sent the
next addition meanwhile, closing the panel no longer stops that one's uploads,
although the toast says so; with a further addition, the panel takes it while the
files of the one before are uploaded. `ClosingWithControlHolds` and the exception in
`OneAdditionAtATime` (`Disturbed`) say that this is the only way.

The history variable `cut` in `Sessions` marks one more behaviour: a page load
in the middle of a refresh leaves the old token in `sessionStorage` while the
server revokes it, and the next refresh is then a reuse. The properties of
`rotation` hold up to that point.

## 5. Proofs

Everything below is proved for every number of users, tenants, reports, items,
workers and transactions, of tokens, calls and handlers, of attachments, and for
the pages for every number of requests, additions, versions, filters and moves.
The assumptions are `DomainAssumption` (users have a tenant and a role; `Null` is
none of the ids), `TxAssumption` (seeded items belong to seeded reports),
`SessionAssumption` and `PanelAssumption` (bounds are numbers, `None` is not an
identity, the additions are finitely many), `AttAssumption` (the kinds of rows
are disjoint, no two rows have the same place),
`ScreensAssumption` and `ListsAssumption` (bounds are numbers; what an instance
looks at and changes exists; the empty filter is among the filters).

| Theorem | Module | Says |
|---|---|---|
| `LifeInvariant`, `LifeSafety`, `LifeHistoryIsFinal` | `WorkflowProofs` | the atomic life cycle keeps its promises |
| `TypeCorrectness`, `ShapeInvariant` | `CoreProofs` | `[]TypeOK`; what a worker may hold at each label |
| `CoreInvariant` | `CoreProofs` | `[]Core`, the inductive invariant of the report rows |
| `Refinement` | `LifeCycleProofs` | `Spec => LifeCycle`: `ReportTx` implements `Workflow` |
| `SegregationHolds`, `DecidedOnceHolds`, `ResubmissionHolds`, `HistoryHolds` | `LifeCycleProofs` | the four properties of `Workflow`, for `ReportTx`, by `Refinement` |
| `IInvariant` | `LifeCycleProofs` | `[]IInv`, the whole inductive invariant |
| `DecisionHolds`, `SubmitNonEmptyHolds`, `ItemEditHolds` | `LifeCycleProofs` | decisions on seen content, no empty submission, no blind item edit |
| `TotalIsSumHolds`, `DeletedIsEmptyHolds`, `FrozenHolds` | `LifeCycleProofs` | under `[]OneWriterPerReport`: totals are sums, deleted reports are empty, submitted reports keep their items |
| `SessionsInvariant`, `SessionsTypes` | `SessionsProofs` | the inductive invariant of token rotation, `[]TypeOK` |
| `SingleSuccessorHolds`, `HeldIsLiveHolds`, `SweptHasCauseHolds` | `SessionsProofs` | a token has one successor; the tab keeps no rotated token; what sets reuse detection off |
| `AttachmentsInvariant`, `AttachmentsTypes` | `AttachmentsProofs` | the inductive invariant of files and row locks, `[]TypeOK` |
| `StoredObjectsHolds`, `SurvivorsAreLateHolds`, `OnlyOvertakenChangeHolds` | `AttachmentsProofs` | rows have objects; only late files survive a deletion; only overtaken requests change a submitted report's files |
| `CircleOfDeletionsHolds` | `AttachmentsProofs` | which two requests can block each other |
| `PanelInvariant`, `PanelTypes` | `ItemPanelProofs` | the inductive invariant of the item panel, `[]TypeOK` |
| `SuccessIsCompleteHolds`, `RequestsOfTheScreenHolds`, `OneAdditionHolds` | `ItemPanelProofs` | a success has all its files; requests are for the item shown; one POST at a time |
| `LossHasCauseHolds`, `ClosingWithControlHolds` | `ItemPanelProofs` | what empties a form; when closing stops the uploads |
| `ScreensInvariant`, `ScreensTypes` | `ReportScreensProofs` | the inductive invariant of the report pages, `[]TypeOK` |
| `UpdateOverSeenHolds`, `RejectErrorHolds` | `ReportScreensProofs` | an update is over the version its values came from; the error of a rejection stays in its dialog |
| `ListsInvariant`, `ListsTypes` | `ListPagesProofs` | the inductive invariant of the list pages, `[]TypeOK` |
| `ShownIsAskedHolds`, `FieldIsFilterHolds` | `ListPagesProofs` | rows are what the address asks for; field and filter agree |

The argument.

1. A step of one worker leaves the private state of the others alone (`Frame`),
   so an invariant about a worker has to be shown for the one that moves, by
   kind of step (`StepKinds`), and for the others only when a COMMIT moves the
   tables.
2. No property is inductive as it stands: a decision is made on a row read
   earlier. `FreshStamps` says that the timestamp of a running transaction is
   nowhere else: in no row, no entity, no client. So a COMMIT changes the
   version of its row to one nobody waits for, and a row that still has the
   version a handler loaded is the row it loaded (`LoadedRows`).
3. A staged report row locks the report (`RowLocks`); what a handler staged
   after its version check is therefore still a transition of the committed row
   when it commits (`StagedRows`). With the checks made at the load and in
   `Submit` (`CheckedSubmits`) this is `CheckedRow`: the row a version-checked
   request commits is made from the committed row, which passes every check.
4. Refinement: `CommitRefines` maps a COMMIT to the step of `Workflow` its
   request asks for, or to a stutter; `StepRefines` maps the other steps to
   stutters. The deletion that loses a race with a deletion writes nothing
   (`Unwritten`).
5. Contents: items are staged for the report of the request only and one
   transaction at a time (`StagedItems`, `ItemLocks`), and every transaction
   that stages one restamps the report. So a COMMIT leaves the contents of
   other reports alone (`ContentsFrame`), and a version that it leaves current
   still names the same items (`NamesKept`, `ViewContents`). A GET reads the
   items after the row; it may show newer items under an older version, and
   `Names` claims nothing of a version that is no longer current.
   Without overlap: `TotalIsSum`, `SubmittedIsFrozen` and `DeletedReportIsEmpty` fail
   when two requests meet, so they are proved under an assumption on the
   behaviour, `[]OneWriterPerReport`: of the requests other than GETs that are past the
   SELECT of their report, no two have the same report. It allows more than the
   single worker of `serial`: any number of requests interleave on different
   reports, wait before the SELECT, and GETs run anywhere. The code does not ensure
   it; `FOR UPDATE` in that SELECT would, and these theorems are what it would buy.
   What a request loads is then the committed row until it ends
   (`LoadedIsCurrent`). `SInv` adds that the sum an item edit has found is
   still the sum (`SumIsCurrent`), that a cascade covers every item
   (`CascadeCovers`), that the total of a copy is that of the copied items
   (`CopyCounted`), and that no item is live in a report that does not exist
   (`Vacant`). Totals are kept as the amounts they were summed over, so no law
   about sums is needed.
6. Report pages: a mounting is never used again (`PastMounts`), so a late answer
   belongs to no page shown. A mutation of the page shown keeps its dialog open
   (`DialogOfLive`) and there is one of each kind (`OneLive`): an error is set
   while its dialog is open, and closing clears it. The form is reset whenever
   the cache changes under it (`FormOfCache`), so the version that `submit`
   takes from the cache is the one of the form's values (`SentOverSeen`), and
   the server accepts that version only.
7. List pages: `Asked` and `Kept` say that a request and an answer stay under the
   key they were asked for, whatever starts, drops or repeats fetches.
   `FilterInUrl` says that the debounced value is the filter in the address;
   of all ways to another address only `Menu` and `Browse` break it, which mark it
   (`strayed`), and a pause, a reset and a mounting restore it. `History` says that
   the browser's buttons lead to addresses of the list.
8. Sessions: `SingleSuccessor` is about the server, `HeldIsLive` about the tab,
   and neither is inductive. `PresentedOnce` says that a token is presented for
   rotation by one handler at a time, because the tab has one refresh promise
   and forgets it only when the handler has answered or the page is loaded
   again. `NewIsFresh` says that a token on its way to the tab is the newest and
   known to nobody else, `RefreshFinds` that without a logout or an interrupted
   load the token that a refresh looks up is still active. So a handler that
   finds a revoked token was not sent by an undisturbed tab (`SweptHasCause`).
9. Attachments: `Uploaded` orders the object before the row; `Overtaken` says
   that whoever goes on after a commit has contradicted one of its checks is in
   `stale`. `Cascades` is the heart of `SurvivorsAreLate`: once the UPDATE of the
   attachments has its snapshot, an attachment that has to go and lives is one of
   its rows, locked by it, or was committed after the snapshot. For the circle of
   waiting requests, `Turns` says that a request locks rows in a fixed order of
   tables and places (`Before`); two requests that wait for each other use
   different orders, and only the two deletions do.
10. Item panel: `Loop` accounts for every file of an addition: stored, still to
   do, or failed; the counter of failures is zero exactly when the files stored
   and to do are all of them. `Layers` ties the dialogs to the drawer and to the
   mode shown. `Controlled` says that the panel holds the controller and the lock
   of its running save as long as no save of the panel has ended by an abort
   (`Disturbed`), and `AskedBefore` that the dialog about the period stands before
   a save, not beside one. Saves of panels that are gone cannot become saves of
   the panel shown, for a key is never used again (`SaveKeys`).

Proving `OneAdditionAtATime` corrected it. Its earlier form claimed that beside a
POST only aborted uploads run, and the run with two additions agreed; the missing
step of the induction is the late rejection of section 4, which three additions
show to TLC. The property now names that exception. The invariants of points 8,
9 and 10 were checked by TLC on the instances of the runs before they were proved,
that of point 10 also with three additions (5.9 million states); `SInv` was checked
with two workers and `OneWriterPerReport` as a state constraint (1.5 million states).

What the proofs rest on, and what a change of the code would break: the
uniqueness of `updated_at` (point 2; two transactions that begin in the same
microsecond are outside the model), and the restamp of the report by
`UpdateReportTotalAmount` in the transaction of the item statement (point 5).

Model-checked only: liveness (`RequestEnds`, `CallEnds`, `SpinnerStops`,
`ChangeIsShown`, `PendingEnds`, `TypedFilterShows`, `OwnChangeShows`), which is out of the
prover's reach with its fairness. That the three properties without overlap fail
with it is shown by TLC: for totals and frozen reports in the two violation runs.

## 6. Plan

Every safety property that a passing run checks is proved, three of them for
behaviours without overlapping writers. What is left:

1. `PasswordReset`: token read outside the transaction; the owner pool as a
   counter, with the resets that hold one connection and wait for another.

## 7. Not modelled

- Password reset, signup, rate limiter, dashboard and tenant settings: see the
  components in `PROJECT.json`; they share little with what is modelled.
- Row level security: a policy of PostgreSQL on every statement. The tenant
  condition that the queries repeat is in `Found`.
- The answer that is written before COMMIT (`middleware/tenant.go:57`): in
  `ReportTx` a failed COMMIT publishes nothing, what its client believes is not
  kept.
- In the panel: previews and downloads, which open another window; the
  browser's warning before it leaves the page; clicks into the drawer while it
  slides out; the texts of validation errors and toasts.
- In the report pages: the create page without a reference, the header fields
  one by one. In the lists: the SQL, counts, page numbers beyond 2, and what
  the footer shows when the page in the address is beyond the last one.
- Start-up, configuration, health, static files, seed data, deployment. They
  keep no state that requests share.
