----------------------------- MODULE Attachments -----------------------------
(***************************************************************************)
(* Files attached to the items of one report. The file is an object in S3, *)
(* its metadata a row of PostgreSQL; the object is put while the request's *)
(* transaction is open and is not part of it. Deleting an attachment, an   *)
(* item or the report marks rows as deleted, with one UPDATE per table     *)
(* that takes its row locks one after another and keeps them until the     *)
(* transaction ends.                                                       *)
(*                                                                         *)
(* The submission of the report is one step here: ReportTx shows that its  *)
(* statements amount to one.                                               *)
(***************************************************************************)
EXTENDS ExpenseDomain, FiniteSets, Sequences

CONSTANTS
  Atts,       \* attachment ids, which are object keys as well
  TheReport,  \* the id of the report
  Owner,      \* its owner
  SeedItem,   \* SeedItem[a]: the item that a belongs to at the start, or Null
  Pos,        \* where a row lies in its table: UPDATEs lock in this order
  Workers,    \* connections of the pool, one per open transaction
  MaxReq      \* bound: requests that are served

Rows == Items \cup Atts \cup {TheReport}

ASSUME AttAssumption ==
  /\ TheReport \in Reports \ (Items \cup Atts)
  /\ Items \cap Atts = {} /\ Null \notin Atts
  /\ Owner \in Users
  /\ SeedItem \in [Atts -> Items \cup {Null}]
  /\ Pos \in [Rows -> Nat]
  /\ \A x, y \in Rows : Pos[x] = Pos[y] => x = y
  /\ MaxReq \in Nat \ {0}

VARIABLES
  report,   \* the committed row of the report
  items,    \* items[i]: "live" or "deleted", committed
  atts,     \* the committed rows of the attachments
  store,    \* the objects in S3
  links,    \* attachments a signed URL was handed out for
  pc,       \* what worker w does next
  req,      \* its request
  stmt,     \* how many UPDATEs of the request have been started
  todo,     \* rows the current UPDATE has matched and not yet locked
  locks,    \* rows the transaction has updated
  left,     \* requests still to come
  stale,    \* history: workers whose checks were overtaken by a commit
  late      \* history: attachments committed in a race with a deletion

tables  == <<report, items, atts>>
s3      == <<store, links>>
work    == <<pc, req, stmt, todo, locks>>
history == <<stale, late>>
vars    == <<tables, s3, work, left, history>>

Ops    == {"upload", "link", "delatt", "delitem", "delreport"}
Labels == {"idle", "load", "find", "put", "insert", "run"}

AttRow  == [state : {"none", "live", "deleted"}, item : ItemOrNull]
NoReq   == [op |-> "none", user |-> Null, item |-> Null, att |-> Null]
Request == [op : Ops \cup {"none"}, user : UserOrNull,
            item : ItemOrNull, att : Atts \cup {Null}]

TypeOK ==
  /\ report \in ReportRow
  /\ items \in [Items -> {"live", "deleted"}]
  /\ atts \in [Atts -> AttRow]
  /\ store \subseteq Atts /\ links \subseteq Atts
  /\ pc \in [Workers -> Labels]
  /\ req \in [Workers -> Request]
  /\ stmt \in [Workers -> 0..3]
  /\ todo \in [Workers -> SUBSET Rows]
  /\ locks \in [Workers -> SUBSET Rows]
  /\ left \in 0..MaxReq
  /\ stale \subseteq Workers /\ late \subseteq Atts
-----------------------------------------------------------------------------
Init ==
  /\ report = NewReport(Owner, Null)
  /\ items = [i \in Items |-> "live"]
  /\ atts = [a \in Atts |-> IF SeedItem[a] = Null
                            THEN [state |-> "none", item |-> Null]
                            ELSE [state |-> "live", item |-> SeedItem[a]]]
  /\ store = {a \in Atts : SeedItem[a] # Null}
  /\ links = {}
  /\ pc = [w \in Workers |-> "idle"]
  /\ req = [w \in Workers |-> NoReq]
  /\ stmt = [w \in Workers |-> 0]
  /\ todo = [w \in Workers |-> {}]
  /\ locks = [w \in Workers |-> {}]
  /\ left = MaxReq
  /\ stale = {} /\ late = {}

Goto(w, l) == pc' = [pc EXCEPT ![w] = l]

(* The transaction of w is over. *)
Reset(w) ==
  /\ Goto(w, "idle")
  /\ req' = [req EXCEPT ![w] = NoReq]
  /\ stmt' = [stmt EXCEPT ![w] = 0]
  /\ todo' = [todo EXCEPT ![w] = {}]
  /\ locks' = [locks EXCEPT ![w] = {}]

ItemLive(i) == items[i] = "live"
AttLive(a)  == atts[a].state = "live"

(* A request arrives, for ids that exist. The routes let every role pass.  *)
Begin(w) ==
  /\ pc[w] = "idle" /\ left > 0
  /\ \E op \in Ops, u \in Users :
       \/ /\ op \in {"upload", "delitem"}
          /\ \E i \in Items : req' = [req EXCEPT ![w] =
               [op |-> op, user |-> u, item |-> i, att |-> Null]]
       \/ /\ op \in {"link", "delatt"}
          /\ \E a \in Atts :
               /\ atts[a].state # "none"
               /\ req' = [req EXCEPT ![w] =
                    [op |-> op, user |-> u, item |-> atts[a].item, att |-> a]]
       \/ /\ op = "delreport"
          /\ req' = [req EXCEPT ![w] = [NoReq EXCEPT !.op = op, !.user = u]]
  /\ left' = left - 1
  /\ Goto(w, "load")
  /\ UNCHANGED <<tables, s3, stmt, todo, locks, history>>
-----------------------------------------------------------------------------
(* reportRepo.GetByID, ownership or visibility, CanEdit or CanDelete. *)
AnyStatusLoads(w) ==   \* faulty form of LoadOK
  /\ ~report.deleted
  /\ req[w].op = "link" \/ CanModifyReport(req[w].user, report)

LoadOK(w) ==
  /\ ~report.deleted
  /\ TenantOf[report.owner] = TenantOf[req[w].user]
  /\ IF req[w].op = "link"
     THEN CanViewReport(req[w].user, report)
     ELSE CanModifyReport(req[w].user, report) /\ CanEdit(report)

Load(w) ==
  /\ pc[w] = "load"
  /\ LoadOK(w)
  /\ Goto(w, IF req[w].op = "delreport" THEN "run" ELSE "find")
  /\ UNCHANGED <<tables, s3, req, stmt, todo, locks, left, history>>

(* itemRepo.GetByID for an upload and an item deletion (it looks at the    *)
(* item only), attachmentRepo.GetByID for the others.                      *)
NoItemCheck(w) ==   \* faulty form of FindOK
  req[w].op \in {"link", "delatt"} => AttLive(req[w].att)

FindOK(w) ==
  IF req[w].op \in {"link", "delatt"} THEN AttLive(req[w].att) ELSE ItemLive(req[w].item)

Find(w) ==
  /\ pc[w] = "find" /\ req[w].op # "link"
  /\ FindOK(w)
  /\ Goto(w, IF req[w].op = "upload" THEN "put" ELSE "run")
  /\ UNCHANGED <<tables, s3, req, stmt, todo, locks, left, history>>

(* PresignGetObject signs without asking S3; the URL outlives the request. *)
Sign(w) ==
  /\ pc[w] = "find" /\ req[w].op = "link"
  /\ FindOK(w)
  /\ links' = links \cup {req[w].att}
  /\ Reset(w)
  /\ stale' = stale \ {w}
  /\ UNCHANGED <<tables, store, left, late>>

FreshAtt(a) ==
  /\ atts[a].state = "none" /\ a \notin store
  /\ \A v \in Workers : req[v].att # a

(* storage.Upload under a new key; refused files never get here. *)
RowBeforeObject(w) ==   \* faulty form of Put
  /\ pc[w] = "put"
  /\ \E a \in Atts : FreshAtt(a) /\ req' = [req EXCEPT ![w].att = a]
  /\ Goto(w, "insert")
  /\ UNCHANGED <<tables, s3, stmt, todo, locks, left, history>>

Put(w) ==
  /\ pc[w] = "put"
  /\ \E a \in Atts :
       /\ FreshAtt(a)
       /\ store' = store \cup {a}
       /\ req' = [req EXCEPT ![w].att = a]
  /\ Goto(w, "insert")
  /\ UNCHANGED <<tables, links, stmt, todo, locks, left, history>>

(* CreateAttachment. Nobody sees the row before the COMMIT; its foreign    *)
(* keys share the item and report rows with every UPDATE modelled here.    *)
Insert(w) ==
  /\ pc[w] = "insert"
  /\ Goto(w, "run")
  /\ UNCHANGED <<tables, s3, req, stmt, todo, locks, left, history>>
-----------------------------------------------------------------------------
(* The UPDATEs of a request, in the order its repository method runs them. *)
ItemAlone(op) ==   \* faulty form of Statements: no cascade from an item
  CASE op = "delatt"    -> <<"att">>
    [] op = "delitem"   -> <<"item", "total">>
    [] op = "delreport" -> <<"items", "atts", "report">>
    [] OTHER            -> <<>>

StampsFirst(op) ==   \* faulty form of Statements: restamp before deleting
  CASE op = "delatt"    -> <<"total", "att">>
    [] op = "delitem"   -> <<"attsOfItem", "item", "total">>
    [] op = "delreport" -> <<"items", "atts", "report">>
    [] OTHER            -> <<>>

Statements(op) ==
  CASE op = "delatt"    -> <<"att">>
    [] op = "delitem"   -> <<"attsOfItem", "item", "total">>
    [] op = "delreport" -> <<"items", "atts", "report">>
    [] OTHER            -> <<>>

(* deleted_at IS NULL, in every WHERE clause but that of the total. *)
Live(x) ==
  \/ x \in Items /\ ItemLive(x)
  \/ x \in Atts /\ AttLive(x)
  \/ x = TheReport /\ ~report.deleted

Matched(w, s) ==
  CASE s = "att"        -> {req[w].att} \cap {a \in Atts : AttLive(a)}
    [] s = "attsOfItem" -> {a \in Atts : AttLive(a) /\ atts[a].item = req[w].item}
    [] s = "atts"       -> {a \in Atts : AttLive(a)}
    [] s = "item"       -> {req[w].item} \cap {i \in Items : ItemLive(i)}
    [] s = "items"      -> {i \in Items : ItemLive(i)}
    [] s = "report"     -> IF report.deleted THEN {} ELSE {TheReport}
    [] s = "total"      -> {TheReport}

Done(w) == stmt[w] = Len(Statements(req[w].op)) /\ todo[w] = {}

(* An UPDATE starts: its snapshot decides which rows it looks at. *)
Start(w) ==
  /\ pc[w] = "run" /\ todo[w] = {} /\ ~Done(w)
  /\ stmt' = [stmt EXCEPT ![w] = @ + 1]
  /\ todo' = [todo EXCEPT ![w] = Matched(w, Statements(req[w].op)[stmt[w] + 1])]
  /\ UNCHANGED <<tables, s3, pc, req, locks, left, history>>

NextRow(w) == CHOOSE x \in todo[w] : \A y \in todo[w] : Pos[x] <= Pos[y]
Waits(w, v) == todo[w] # {} /\ v # w /\ NextRow(w) \in locks[v]

(* It locks the next of them, waiting if need be, and looks again: a row   *)
(* that was deleted in the meantime is passed over.                        *)
SkipsLocked(w) ==   \* faulty form of LockRow
  /\ pc[w] = "run" /\ todo[w] # {}
  /\ LET x == NextRow(w) IN
     /\ todo' = [todo EXCEPT ![w] = @ \ {x}]
     /\ locks' = [locks EXCEPT ![w] =
          IF \E v \in Workers : Waits(w, v) THEN @ ELSE @ \cup {x}]
  /\ UNCHANGED <<tables, s3, pc, req, stmt, left, history>>

LockRow(w) ==
  /\ pc[w] = "run" /\ todo[w] # {}
  /\ \A v \in Workers : ~Waits(w, v)
  /\ LET x == NextRow(w) IN
     /\ todo' = [todo EXCEPT ![w] = @ \ {x}]
     /\ locks' = [locks EXCEPT ![w] =
          IF Live(x) \/ (x = TheReport /\ req[w].op # "delreport") THEN @ \cup {x} ELSE @]
  /\ UNCHANGED <<tables, s3, pc, req, stmt, left, history>>

(* COMMIT of a deletion or an upload. "total" locks the report without     *)
(* deleting it. The workers that have already made a check this commit     *)
(* contradicts become stale.                                               *)
Deletes(w) == IF req[w].op = "delreport" THEN locks[w] ELSE locks[w] \ {TheReport}

(* Its UPDATE of the attachments has its snapshot: a later row escapes it. *)
CascadeBegun(v) ==
  \/ req[v].op = "delitem" /\ stmt[v] >= 1
  \/ req[v].op = "delreport" /\ stmt[v] >= 2

PastLoad(v) == pc[v] \notin {"idle", "load"}
PastFind(v) == pc[v] \notin {"idle", "load", "find"}

Commit(w) ==
  /\ pc[w] = "run" /\ Done(w)
  /\ report' = [report EXCEPT !.deleted = @ \/ TheReport \in Deletes(w)]
  /\ items' = [i \in Items |-> IF i \in Deletes(w) THEN "deleted" ELSE items[i]]
  /\ atts' = [a \in Atts |->
       IF a \in Deletes(w) THEN [atts[a] EXCEPT !.state = "deleted"]
       ELSE IF req[w].op = "upload" /\ req[w].att = a
            THEN [state |-> "live", item |-> req[w].item] ELSE atts[a]]
  /\ Reset(w)
  /\ stale' = (stale \ {w}) \cup
       {v \in Workers \ {w} : \/ TheReport \in Deletes(w) /\ PastLoad(v)
                              \/ req[v].item \in Deletes(w) /\ PastFind(v)}
  /\ late' = IF /\ req[w].op = "upload"
                /\ w \in stale \/ \E v \in Workers : CascadeBegun(v)
             THEN late \cup {req[w].att} ELSE late
  /\ UNCHANGED <<s3, left>>

(* SubmitReport of another request commits (RowFree: no open transaction   *)
(* has the row). What it says about items is ReportTx's business.          *)
Submit ==
  /\ CanSubmit(report, \E i \in Items : ItemLive(i), HasApprover(TenantOf[Owner]))
  /\ ~report.deleted
  /\ \A w \in Workers : TheReport \notin locks[w]
  /\ report' = Submitted(report, Owner)
  /\ stale' = stale \cup {v \in Workers : PastLoad(v)}
  /\ UNCHANGED <<items, atts, s3, work, left, late>>

(* A 4xx, and out of ids the bound of the model. *)
NotFoundHangs(w) ==   \* faulty form of Refuses: a missing row is not answered
  \/ pc[w] = "load" /\ ~LoadOK(w)
  \/ pc[w] = "put" /\ ~\E a \in Atts : FreshAtt(a)

Refuses(w) ==
  \/ pc[w] = "load" /\ ~LoadOK(w)
  \/ pc[w] = "find" /\ ~FindOK(w)
  \/ pc[w] = "put" /\ ~\E a \in Atts : FreshAtt(a)

Ends(w) ==
  /\ Reset(w)
  /\ stale' = stale \ {w}
  /\ UNCHANGED <<tables, s3, left, late>>

Refuse(w) == Refuses(w) /\ Ends(w)

(* S3 or a statement fails, the client aborts, the server stops: what the  *)
(* transaction wrote is gone, an object already put stays.                 *)
Fail(w) == pc[w] # "idle" /\ Ends(w)

(* PostgreSQL looks for circles of waiting transactions after a second     *)
(* (deadlock_timeout) and aborts one that is in it; the client gets a 500. *)
InCircle(w) ==
  \E S \in SUBSET Workers :
    /\ w \in S
    /\ \A v \in S : (\E u \in S : Waits(v, u)) /\ (\E u \in S : Waits(u, v))
    /\ Cardinality(S) > 1

Abort(w) == InCircle(w) /\ Ends(w)

Step(w) ==
  \/ Load(w) \/ Find(w) \/ Sign(w) \/ Put(w) \/ Insert(w)
  \/ Start(w) \/ LockRow(w) \/ Commit(w) \/ Refuse(w)

Next ==
  \/ \E w \in Workers : Begin(w) \/ Step(w) \/ Fail(w) \/ Abort(w)
  \/ Submit

Spec == Init /\ [][Next]_vars

(* Handlers run on; PostgreSQL serves the waiters of a row in turn and     *)
(* looks for circles. Requests, submissions and failures just happen.      *)
FairSpec ==
  /\ Spec
  /\ \A w \in Workers : SF_vars(Step(w))
  /\ WF_vars(\E w \in Workers : Abort(w))
-----------------------------------------------------------------------------
(* Every attachment that is listed, and every URL that was handed out, has *)
(* its object in S3, whatever failed between the upload and the COMMIT     *)
(* (UploadAttachment puts the object first and nothing here deletes one).  *)
StoredObjects ==
  /\ links \subseteq store
  /\ \A a \in Atts : AttLive(a) => a \in store

(* domain/repository.go:104 and :133: deletions take the attachments with  *)
(* them. What survives under a deleted item or report was uploaded while   *)
(* the deletion ran, and only that; waiting for another deletion that then *)
(* fails leaves nothing behind.                                            *)
SurvivorsAreLate ==
  \A a \in Atts :
    AttLive(a) /\ (report.deleted \/ ~ItemLive(atts[a].item))
      => a \in late

(* After the submission or the deletion of the report its attachments only *)
(* change by requests that had loaded it as a draft before                 *)
(* (attachment_service.go:69 and :239).                                    *)
OnlyOvertakenChange ==
  [][ ~CanEdit(report) \/ report.deleted =>
        \/ atts' = atts
        \/ \E w \in stale : pc[w] = "run" /\ pc'[w] = "idle" ]_vars

(* The only requests that wait for each other are the deletion of an item, *)
(* which locks attachments first, and that of the report, which locks      *)
(* items first.                                                            *)
CircleOfDeletions ==
  \A v, w \in Workers :
    Waits(v, w) /\ Waits(w, v) => {req[v].op, req[w].op} = {"delitem", "delreport"}

(* Every request is answered, those in a circle by an error. *)
RequestEnds == \A w \in Workers : pc[w] # "idle" ~> pc[w] = "idle"
=============================================================================
