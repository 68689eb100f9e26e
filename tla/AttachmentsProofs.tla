-------------------------- MODULE AttachmentsProofs --------------------------
(***************************************************************************)
(* The files of a report, for any number of items, attachments and         *)
(* requests: every row has its object, a deletion takes the attachments    *)
(* with it but for late ones, and only two kinds of requests can wait for  *)
(* each other.                                                             *)
(***************************************************************************)
EXTENDS Attachments, WellFoundedInduction, TLAPS

Deleting == {"delatt", "delitem", "delreport"}

\* Which UPDATE of its request locks row x: the order of the tables.
Turn(op, x) ==
  CASE op = "delitem"   -> IF x \in Atts THEN 1 ELSE IF x \in Items THEN 2 ELSE 3
    [] op = "delreport" -> IF x \in Items THEN 1 ELSE IF x \in Atts THEN 2 ELSE 3
    [] OTHER            -> 1

\* A request of this kind locks x before y.
Before(op, x, y) ==
  \/ Turn(op, x) < Turn(op, y)
  \/ Turn(op, x) = Turn(op, y) /\ Pos[x] < Pos[y]

-----------------------------------------------------------------------------
(* The inductive invariant.                                                *)

\* What a worker serves at each label, and when it holds locks.
Shapes(w) ==
  /\ pc[w] = "idle" <=> req[w].op = "none"
  /\ pc[w] \in {"put", "insert"} => req[w].op = "upload"
  /\ pc[w] = "run" => req[w].op # "link"
  /\ req[w].op \in {"upload", "delitem"} => req[w].item \in Items
  /\ req[w].op \in {"link", "delatt"} => req[w].att \in Atts
  /\ (pc[w] # "run" \/ req[w].op \notin Deleting)
       => stmt[w] = 0 /\ todo[w] = {} /\ locks[w] = {}

\* Rows are locked in turn, and which they may be.
Turns(w) ==
  /\ stmt[w] <= Len(Statements(req[w].op))
  /\ \A y \in todo[w] : Turn(req[w].op, y) = stmt[w]
  /\ \A x \in locks[w] : /\ Turn(req[w].op, x) <= stmt[w]
                         /\ \A y \in todo[w] : Before(req[w].op, x, y)
  /\ req[w].op = "delatt" => todo[w] \cup locks[w] \subseteq {req[w].att} \cap Atts
  /\ req[w].op = "delitem" => (todo[w] \cup locks[w]) \cap Items \subseteq {req[w].item}

\* The object comes before the row.
Uploaded(w) ==
  pc[w] \in {"insert", "run"} /\ req[w].op = "upload" => req[w].att \in store

\* Whoever goes on although what it has checked is no longer so is stale.
Overtaken(w) ==
  /\ PastLoad(w) /\ report.deleted => w \in stale
  /\ PastLoad(w) /\ req[w].op # "link" /\ ~CanEdit(report) => w \in stale
  /\ PastFind(w) /\ req[w].op = "upload" /\ ~ItemLive(req[w].item) => w \in stale

\* Once the UPDATE of the attachments has its snapshot, an attachment that
\* is to go and lives is one of its rows, or late.
Cascades(w) ==
  \A a \in Atts :
    AttLive(a) /\ CascadeBegun(w) /\ (req[w].op = "delitem" => atts[a].item = req[w].item)
      => a \in todo[w] \cup locks[w] \cup late

\* A live attachment belongs to an item.
Homed == \A a \in Atts : AttLive(a) => atts[a].item \in Items

Good(w) == Shapes(w) /\ Turns(w) /\ Uploaded(w) /\ Overtaken(w) /\ Cascades(w)

IInv ==
  /\ TypeOK /\ StoredObjects /\ SurvivorsAreLate /\ Homed
  /\ \A w \in Workers : Good(w)

-----------------------------------------------------------------------------
(* What the operators of the model yield.                                  *)

\* A nonempty set of numbers has a least element.
LEMMA Least ==
  ASSUME NEW S \in SUBSET Nat, S # {}
  PROVE  \E n \in S : \A m \in S : n <= m
<1> DEFINE R == OpToRel(<, Nat)
<1>1. \E n \in S : \A m \in S : <<m, n>> \notin R
  <2> HIDE DEF R
  <2>1. IsWellFoundedOn(R, Nat)
    BY NatLessThanWellFounded DEF R
  <2> QED BY <2>1, WFMin
<1>2. \A m, n \in Nat : m < n => <<m, n>> \in R
  BY DEF OpToRel
<1> HIDE DEF R
<1>3. PICK n \in S : \A m \in S : <<m, n>> \notin R
  BY <1>1
<1>4. ASSUME NEW m \in S PROVE n <= m
  <2>1. m \in Nat /\ n \in Nat
    OBVIOUS
  <2>2. ~(m < n)
    BY <1>2, <1>3, <2>1
  <2> QED BY <2>1, <2>2
<1> QED BY <1>4

\* The row that an UPDATE locks next is one it still has to lock, and the
\* first of them.
LEMMA NextRowIsFirst ==
  ASSUME TypeOK, NEW w \in Workers, todo[w] # {}
  PROVE  /\ NextRow(w) \in todo[w] /\ NextRow(w) \in Rows
         /\ \A y \in todo[w] \ {NextRow(w)} : Pos[NextRow(w)] < Pos[y]
<1>1. todo[w] \subseteq Rows /\ Pos \in [Rows -> Nat]
  BY AttAssumption DEF TypeOK
<1>2. \E x \in todo[w] : \A y \in todo[w] : Pos[x] <= Pos[y]
  <2> DEFINE S == {Pos[x] : x \in todo[w]}
  <2>1. S \in SUBSET Nat /\ S # {}
    BY <1>1
  <2>2. \E n \in S : \A m \in S : n <= m
    BY <2>1, Least
  <2> QED BY <2>2
<1>3. NextRow(w) \in todo[w] /\ \A y \in todo[w] : Pos[NextRow(w)] <= Pos[y]
  BY <1>2 DEF NextRow
<1>4. \A x, y \in Rows : Pos[x] = Pos[y] => x = y
  BY AttAssumption
<1> QED BY <1>1, <1>3, <1>4

\* The UPDATEs of each kind of request.
LEMMA Plans ==
  /\ Len(Statements("delatt")) = 1 /\ Statements("delatt")[1] = "att"
  /\ Len(Statements("delitem")) = 3 /\ Statements("delitem")[1] = "attsOfItem"
  /\ Statements("delitem")[2] = "item" /\ Statements("delitem")[3] = "total"
  /\ Len(Statements("delreport")) = 3 /\ Statements("delreport")[1] = "items"
  /\ Statements("delreport")[2] = "atts" /\ Statements("delreport")[3] = "report"
  /\ \A op : op \notin Deleting => Len(Statements(op)) = 0
  BY DEF Statements, Deleting

\* Items, attachments and the report are different rows.
LEMMA RowKinds ==
  /\ Items \cap Atts = {} /\ TheReport \notin Items \cup Atts /\ Null \notin Items \cup Atts
  /\ Rows = Items \cup Atts \cup {TheReport} /\ ItemOrNull = Items \cup {Null}
  BY AttAssumption, DomainAssumption DEF Rows, ItemOrNull

\* The rows an UPDATE looks at have their turn in it.
LEMMA MatchedTurns ==
  ASSUME NEW w \in Workers, req[w].op \in Deleting,
         NEW n \in 1 .. Len(Statements(req[w].op)),
         NEW y \in Matched(w, Statements(req[w].op)[n])
  PROVE  /\ y \in Rows /\ Turn(req[w].op, y) = n
         /\ req[w].op = "delatt" => y = req[w].att /\ y \in Atts
         /\ req[w].op = "delitem" /\ y \in Items => y = req[w].item
<1>1. CASE req[w].op = "delatt"
  <2>1. n = 1
    BY <1>1, Plans
  <2>2. y = req[w].att /\ y \in Atts
    BY <1>1, <2>1, Plans DEF Matched
  <2> QED BY <1>1, <2>1, <2>2, RowKinds DEF Turn
<1>2. CASE req[w].op = "delitem"
  <2>1. n \in {1, 2, 3}
    BY <1>2, Plans
  <2>2. /\ n = 1 => y \in Atts
        /\ n = 2 => y \in Items /\ y = req[w].item
        /\ n = 3 => y = TheReport
    BY <1>2, <2>1, Plans DEF Matched
  <2> QED BY <1>2, <2>1, <2>2, RowKinds DEF Turn
<1>3. CASE req[w].op = "delreport"
  <2>1. n \in {1, 2, 3}
    BY <1>3, Plans
  <2>2. /\ n = 1 => y \in Items
        /\ n = 2 => y \in Atts
        /\ n = 3 => y = TheReport
    BY <1>3, <2>1, Plans DEF Matched
  <2> QED BY <1>3, <2>1, <2>2, RowKinds DEF Turn
<1> QED BY <1>1, <1>2, <1>3 DEF Deleting

-----------------------------------------------------------------------------
(* Frames.                                                                 *)

\* The types of the state of one worker, and of one row.
LEMMA Parts ==
  ASSUME TypeOK, NEW w \in Workers
  PROVE  /\ pc[w] \in Labels /\ req[w] \in Request /\ stmt[w] \in 0..3
         /\ todo[w] \subseteq Rows /\ locks[w] \subseteq Rows
         /\ req[w].op \in Ops \cup {"none"} /\ req[w].user \in UserOrNull
         /\ req[w].item \in ItemOrNull /\ req[w].att \in Atts \cup {Null}
<1>1. req[w] \in Request
  BY DEF TypeOK
<1> QED BY <1>1 DEF TypeOK, Request

\* What is true of a worker stays so while it rests and no row changes.
LEMMA Kept ==
  ASSUME NEW v \in Workers, Good(v), pc'[v] = pc[v], req'[v] = req[v], stmt'[v] = stmt[v],
         todo'[v] = todo[v], locks'[v] = locks[v], v \in stale' <=> v \in stale,
         store \subseteq store', UNCHANGED <<report, items, atts, late>>
  PROVE  Good(v)'
<1>1. Shapes(v)' /\ Turns(v)' /\ Uploaded(v)'
  BY DEF Good, Shapes, Turns, Uploaded
<1>2. Overtaken(v)'
  BY DEF Good, Overtaken, PastLoad, PastFind, ItemLive
<1>3. Cascades(v)'
  BY DEF Good, Cascades, AttLive, CascadeBegun
<1> QED BY <1>1, <1>2, <1>3 DEF Good

\* A worker without a request.
LEMMA Released ==
  ASSUME TypeOK, NEW w \in Workers, Reset(w)
  PROVE  /\ pc' \in [Workers -> Labels] /\ req' \in [Workers -> Request]
         /\ stmt' \in [Workers -> 0..3]
         /\ todo' \in [Workers -> SUBSET Rows] /\ locks' \in [Workers -> SUBSET Rows]
         /\ Good(w)' /\ pc'[w] = "idle"
         /\ \A v \in Workers \ {w} :
              /\ pc'[v] = pc[v] /\ req'[v] = req[v] /\ stmt'[v] = stmt[v]
              /\ todo'[v] = todo[v] /\ locks'[v] = locks[v]
<1>1. /\ NoReq \in Request /\ NoReq.op = "none"
  BY DEF NoReq, Request, UserOrNull, ItemOrNull
<1>2. /\ pc \in [Workers -> Labels] /\ req \in [Workers -> Request] /\ stmt \in [Workers -> 0..3]
      /\ todo \in [Workers -> SUBSET Rows] /\ locks \in [Workers -> SUBSET Rows]
  BY DEF TypeOK
<1>3. /\ pc'[w] = "idle" /\ req'[w] = NoReq /\ stmt'[w] = 0 /\ todo'[w] = {} /\ locks'[w] = {}
  BY <1>2 DEF Reset, Goto
<1>4. /\ pc' \in [Workers -> Labels] /\ req' \in [Workers -> Request]
      /\ stmt' \in [Workers -> 0..3]
      /\ todo' \in [Workers -> SUBSET Rows] /\ locks' \in [Workers -> SUBSET Rows]
  BY <1>1, <1>2 DEF Reset, Goto, Labels
<1>5. \A v \in Workers \ {w} :
        /\ pc'[v] = pc[v] /\ req'[v] = req[v] /\ stmt'[v] = stmt[v]
        /\ todo'[v] = todo[v] /\ locks'[v] = locks[v]
  BY <1>2 DEF Reset, Goto
<1>6. Good(w)'
  <2>1. Shapes(w)'
    BY <1>1, <1>3 DEF Shapes
  <2>2. Len(Statements(req'[w].op)) = 0
    BY <1>1, <1>3, Plans DEF Deleting
  <2>3. Turns(w)'
    BY <1>1, <1>3, <2>2 DEF Turns
  <2>4. Uploaded(w)' /\ Overtaken(w)' /\ Cascades(w)'
    BY <1>1, <1>3 DEF Uploaded, Overtaken, PastLoad, PastFind, Cascades, CascadeBegun
  <2> QED BY <2>1, <2>3, <2>4 DEF Good
<1> QED BY <1>3, <1>4, <1>5, <1>6

\* A request that ends without a change of a row.
LEMMA EndsStep ==
  ASSUME IInv, NEW w \in Workers, Reset(w), stale' = stale \ {w},
         UNCHANGED <<tables, store, left, late>>, links' \subseteq store
  PROVE  IInv'
<1>1. UNCHANGED <<report, items, atts>>
  BY DEF tables
<1>2. TypeOK'
  BY <1>1, Released DEF IInv, TypeOK
<1>3. StoredObjects' /\ SurvivorsAreLate' /\ Homed'
  BY <1>1 DEF IInv, StoredObjects, SurvivorsAreLate, Homed, AttLive, ItemLive
<1>4. \A v \in Workers : Good(v)'
  BY <1>1, Released, Kept DEF IInv
<1> QED BY <1>2, <1>3, <1>4 DEF IInv

\* Refusals, failures, aborted deadlocks, and signed URLs.
LEMMA EndSteps ==
  ASSUME IInv, NEW w \in Workers, Refuse(w) \/ Fail(w) \/ Abort(w) \/ Sign(w)
  PROVE  IInv'
<1>1. CASE Refuse(w) \/ Fail(w) \/ Abort(w)
  <2>1. Ends(w)
    BY <1>1 DEF Refuse, Fail, Abort
  <2>2. links' \subseteq store
    BY <2>1 DEF Ends, s3, IInv, StoredObjects
  <2> QED BY <2>1, <2>2, EndsStep DEF Ends, s3
<1>2. CASE Sign(w)
  <2>1. AttLive(req[w].att) /\ req[w].att \in Atts
    BY <1>2 DEF Sign, FindOK, IInv, Good, Shapes
  <2>2. links' \subseteq store
    BY <1>2, <2>1 DEF Sign, IInv, StoredObjects
  <2> QED BY <1>2, <2>2, EndsStep DEF Sign
<1> QED BY <1>1, <1>2

-----------------------------------------------------------------------------
(* The steps before the first UPDATE.                                      *)

\* A step of one worker that changes no row: the rest is as before.
LEMMA OwnStep ==
  ASSUME IInv, NEW w \in Workers, TypeOK', Good(w)',
         \A v \in Workers \ {w} :
           /\ pc'[v] = pc[v] /\ req'[v] = req[v] /\ stmt'[v] = stmt[v]
           /\ todo'[v] = todo[v] /\ locks'[v] = locks[v],
         store \subseteq store', UNCHANGED <<tables, links, history>>
  PROVE  IInv'
<1>1. UNCHANGED <<report, items, atts, stale, late>>
  BY DEF tables, history
<1>2. StoredObjects' /\ SurvivorsAreLate' /\ Homed'
  BY <1>1 DEF IInv, StoredObjects, SurvivorsAreLate, Homed, AttLive, ItemLive
<1>3. \A v \in Workers : Good(v)'
  BY <1>1, Kept DEF IInv
<1> QED BY <1>2, <1>3 DEF IInv

\* A step that only moves a worker on, past a check that has succeeded.
LEMMA GoesOn ==
  ASSUME IInv, NEW w \in Workers, NEW l \in Labels, Goto(w, l),
         UNCHANGED <<tables, s3, req, stmt, todo, locks, left, history>>,
         pc[w] \in {"load", "find", "insert"}, l \in {"find", "put", "run"},
         pc[w] = "load" => LoadOK(w) /\ l # "put" /\ (l = "run" => req[w].op = "delreport"),
         pc[w] = "find" => req[w].op # "link" /\ FindOK(w) /\ (l = "put" <=> req[w].op = "upload"),
         pc[w] = "find" => l # "find",
         pc[w] = "insert" => l = "run"
  PROVE  IInv'
<1>1. /\ UNCHANGED <<report, items, atts, store, links, req, stmt, todo, locks, left, stale, late>>
      /\ pc' = [pc EXCEPT ![w] = l] /\ pc \in [Workers -> Labels] /\ Good(w)
  BY DEF tables, s3, history, Goto, IInv, TypeOK
<1>2. pc' \in [Workers -> Labels] /\ pc'[w] = l /\ \A v \in Workers \ {w} : pc'[v] = pc[v]
  BY <1>1
<1>3. TypeOK'
  BY <1>1, <1>2 DEF IInv, TypeOK
<1>4. Shapes(w)'
  BY <1>1, <1>2 DEF Good, Shapes
<1>5. Turns(w)' /\ Cascades(w)'
  BY <1>1, <1>2 DEF Good, Turns, Cascades, CascadeBegun, AttLive
<1>6. Uploaded(w)'
  BY <1>1, <1>2 DEF Good, Uploaded, Shapes
<1>7. Overtaken(w)'
  BY <1>1, <1>2 DEF Good, Overtaken, PastLoad, PastFind, LoadOK, FindOK, ItemLive, Shapes
<1>8. Good(w)'
  BY <1>4, <1>5, <1>6, <1>7 DEF Good
<1> QED BY <1>1, <1>2, <1>3, <1>8, OwnStep

\* The checks, and the INSERT of an upload.
LEMMA CheckSteps ==
  ASSUME IInv, NEW w \in Workers, Load(w) \/ Find(w) \/ Insert(w)
  PROVE  IInv'
<1>1. CASE Load(w)
  <2> DEFINE l == IF req[w].op = "delreport" THEN "run" ELSE "find"
  <2>1. /\ pc[w] = "load" /\ LoadOK(w) /\ Goto(w, l)
        /\ UNCHANGED <<tables, s3, req, stmt, todo, locks, left, history>>
    BY <1>1 DEF Load
  <2>2. l \in Labels /\ l \in {"find", "run"} /\ (l = "run" => req[w].op = "delreport")
    BY DEF Labels
  <2> HIDE DEF l
  <2> QED BY <2>1, <2>2, GoesOn
<1>2. CASE Find(w)
  <2> DEFINE l == IF req[w].op = "upload" THEN "put" ELSE "run"
  <2>1. /\ pc[w] = "find" /\ req[w].op # "link" /\ FindOK(w) /\ Goto(w, l)
        /\ UNCHANGED <<tables, s3, req, stmt, todo, locks, left, history>>
    BY <1>2 DEF Find
  <2>2. l \in Labels /\ l \in {"put", "run"} /\ (l = "put" <=> req[w].op = "upload")
    BY DEF Labels
  <2> HIDE DEF l
  <2> QED BY <2>1, <2>2, GoesOn
<1>3. CASE Insert(w)
  <2>1. /\ pc[w] = "insert" /\ Goto(w, "run") /\ "run" \in Labels
        /\ UNCHANGED <<tables, s3, req, stmt, todo, locks, left, history>>
    BY <1>3 DEF Insert, Labels
  <2> QED BY <2>1, GoesOn
<1> QED BY <1>1, <1>2, <1>3

\* A request arrives.
LEMMA BeginStep ==
  ASSUME IInv, NEW w \in Workers, Begin(w)
  PROVE  IInv'
<1>1. /\ pc[w] = "idle" /\ left > 0 /\ left' = left - 1 /\ Goto(w, "load")
      /\ UNCHANGED <<report, items, atts, store, links, stmt, todo, locks, stale, late>>
  BY DEF Begin, tables, s3, history
<1>2. /\ pc \in [Workers -> Labels] /\ req \in [Workers -> Request] /\ left \in 0..MaxReq
      /\ MaxReq \in Nat
  BY AttAssumption DEF IInv, TypeOK
<1>3. \E q \in Request :
        /\ req' = [req EXCEPT ![w] = q] /\ q.op \in Ops
        /\ q.op \in {"upload", "delitem"} => q.item \in Items
        /\ q.op \in {"link", "delatt"} => q.att \in Atts
  <2>1. PICK op \in Ops, u \in Users :
          \/ /\ op \in {"upload", "delitem"}
             /\ \E i \in Items : req' = [req EXCEPT ![w] =
                  [op |-> op, user |-> u, item |-> i, att |-> Null]]
          \/ /\ op \in {"link", "delatt"}
             /\ \E a \in Atts :
                  /\ atts[a].state # "none"
                  /\ req' = [req EXCEPT ![w] =
                       [op |-> op, user |-> u, item |-> atts[a].item, att |-> a]]
          \/ /\ op = "delreport"
             /\ req' = [req EXCEPT ![w] = [NoReq EXCEPT !.op = op, !.user = u]]
    BY DEF Begin
  <2>2. ASSUME NEW i \in ItemOrNull, NEW a \in Atts \cup {Null}
        PROVE  [op |-> op, user |-> u, item |-> i, att |-> a] \in Request
    BY DEF Request, UserOrNull
  <2>3. \A a \in Atts : atts[a].item \in ItemOrNull
    BY DEF IInv, TypeOK, AttRow
  <2>4. /\ [NoReq EXCEPT !.op = op, !.user = u] \in Request
        /\ [NoReq EXCEPT !.op = op, !.user = u].op = op
    <3>1. NoReq \in Request
      BY DEF NoReq, Request, UserOrNull, ItemOrNull
    <3> QED BY <3>1 DEF Request, UserOrNull
  <2>5. CASE op \in {"upload", "delitem"}
    <3> PICK i \in Items : req' = [req EXCEPT ![w] = [op |-> op, user |-> u, item |-> i, att |-> Null]]
      BY <2>1, <2>5
    <3> DEFINE q == [op |-> op, user |-> u, item |-> i, att |-> Null]
    <3>1. q \in Request /\ q.op = op /\ q.item = i
      BY <2>2, RowKinds
    <3> QED BY <2>5, <3>1
  <2>6. CASE op \in {"link", "delatt"}
    <3> PICK a \in Atts : req' = [req EXCEPT ![w] = [op |-> op, user |-> u, item |-> atts[a].item, att |-> a]]
      BY <2>1, <2>6
    <3> DEFINE q == [op |-> op, user |-> u, item |-> atts[a].item, att |-> a]
    <3>1. q \in Request /\ q.op = op /\ q.att = a
      BY <2>2, <2>3
    <3> QED BY <2>6, <3>1
  <2>7. CASE op = "delreport"
    <3> DEFINE q == [NoReq EXCEPT !.op = op, !.user = u]
    <3>1. req' = [req EXCEPT ![w] = q]
      BY <2>1, <2>7
    <3>2. q \in Request /\ q.op = op
      BY <2>4
    <3> HIDE DEF q
    <3> QED BY <2>7, <3>1, <3>2
  <2> QED BY <2>1, <2>5, <2>6, <2>7
<1>4. PICK q \in Request :
        /\ req' = [req EXCEPT ![w] = q] /\ q.op \in Ops
        /\ q.op \in {"upload", "delitem"} => q.item \in Items
        /\ q.op \in {"link", "delatt"} => q.att \in Atts
  BY <1>3
<1>5. /\ pc' \in [Workers -> Labels] /\ pc'[w] = "load" /\ req' \in [Workers -> Request]
      /\ req'[w] = q
      /\ \A v \in Workers \ {w} : pc'[v] = pc[v] /\ req'[v] = req[v]
  BY <1>1, <1>2, <1>4 DEF Goto, Labels
<1>6. TypeOK'
  BY <1>1, <1>2, <1>5 DEF IInv, TypeOK
<1>7. stmt[w] = 0 /\ todo[w] = {} /\ locks[w] = {}
  BY <1>1 DEF IInv, Good, Shapes
<1>8. Good(w)'
  <2>1. Shapes(w)'
    BY <1>1, <1>4, <1>5, <1>7 DEF Shapes, Ops
  <2>2. 0 <= Len(Statements(q.op))
    BY Plans DEF Deleting
  <2>3. Turns(w)'
    BY <1>1, <1>5, <1>7, <2>2 DEF Turns
  <2>4. Uploaded(w)' /\ Overtaken(w)' /\ Cascades(w)'
    BY <1>1, <1>5, <1>7 DEF Uploaded, Overtaken, PastLoad, PastFind, Cascades, CascadeBegun
  <2> QED BY <2>1, <2>3, <2>4 DEF Good
<1> QED BY <1>1, <1>5, <1>6, <1>8, OwnStep DEF tables, history

\* The object is stored.
LEMMA PutStep ==
  ASSUME IInv, NEW w \in Workers, Put(w)
  PROVE  IInv'
<1>1. PICK a \in Atts : store' = store \cup {a} /\ req' = [req EXCEPT ![w].att = a]
  BY DEF Put
<1>2. /\ pc[w] = "put" /\ Goto(w, "insert")
      /\ UNCHANGED <<report, items, atts, links, stmt, todo, locks, left, stale, late>>
  BY DEF Put, tables, history
<1>3. /\ pc \in [Workers -> Labels] /\ req \in [Workers -> Request] /\ store \subseteq Atts
      /\ req[w].op = "upload" /\ Good(w)
  BY <1>2 DEF IInv, TypeOK, Good, Shapes
<1>4. /\ req' \in [Workers -> Request] /\ req'[w].op = "upload" /\ req'[w].att = a
      /\ req'[w].item = req[w].item
      /\ \A v \in Workers \ {w} : req'[v] = req[v]
  <2> DEFINE q == [req[w] EXCEPT !.att = a]
  <2>1. req' = [req EXCEPT ![w] = q]
    BY <1>1
  <2>2. q \in Request /\ q.op = req[w].op /\ q.att = a /\ q.item = req[w].item
    <3>1. req[w] \in Request
      BY <1>3
    <3> QED BY <3>1 DEF Request
  <2> HIDE DEF q
  <2> QED BY <1>3, <2>1, <2>2
<1>5. /\ pc' \in [Workers -> Labels] /\ pc'[w] = "insert"
      /\ \A v \in Workers \ {w} : pc'[v] = pc[v]
  BY <1>2, <1>3 DEF Goto, Labels
<1>6. TypeOK'
  BY <1>1, <1>2, <1>3, <1>4, <1>5 DEF IInv, TypeOK
<1>7. Good(w)'
  <2>1. Shapes(w)'
    BY <1>2, <1>3, <1>4, <1>5 DEF Good, Shapes
  <2>2. Turns(w)' /\ Cascades(w)'
    BY <1>2, <1>3, <1>4, <1>5 DEF Good, Shapes, Turns, Cascades, CascadeBegun, Deleting
  <2>3. Uploaded(w)'
    BY <1>1, <1>4 DEF Uploaded
  <2>4. Overtaken(w)'
    BY <1>2, <1>3, <1>4, <1>5 DEF Good, Overtaken, PastLoad, PastFind, ItemLive
  <2> QED BY <2>1, <2>2, <2>3, <2>4 DEF Good
<1> QED BY <1>1, <1>2, <1>4, <1>5, <1>6, <1>7, OwnStep DEF tables, history

-----------------------------------------------------------------------------
(* The UPDATEs.                                                            *)

\* An UPDATE starts.
LEMMA StartStep ==
  ASSUME IInv, NEW w \in Workers, Start(w)
  PROVE  IInv'
<1> DEFINE op == req[w].op
           n == stmt[w] + 1
           m == Matched(w, Statements(op)[n])
<1>1. /\ pc[w] = "run" /\ todo[w] = {} /\ stmt[w] # Len(Statements(op))
      /\ stmt' = [stmt EXCEPT ![w] = stmt[w] + 1] /\ todo' = [todo EXCEPT ![w] = m]
      /\ UNCHANGED <<report, items, atts, store, links, pc, req, locks, left, stale, late>>
  BY DEF Start, Done, tables, s3, history
<1>2. /\ Good(w) /\ stmt \in [Workers -> 0..3] /\ todo \in [Workers -> SUBSET Rows]
      /\ stmt[w] \in 0..3
  BY DEF IInv, TypeOK
<1>3. op \in Deleting
  <2>1. op \notin Deleting => Len(Statements(op)) = 0
    BY Plans
  <2>2. op \notin Deleting => stmt[w] = 0
    BY <1>2 DEF Good, Shapes
  <2> QED BY <1>1, <2>1, <2>2
<1>4. Len(Statements(op)) \in 1..3
  BY <1>3, Plans DEF Deleting
<1>5. n \in 1 .. Len(Statements(op))
  BY <1>1, <1>2, <1>4 DEF Good, Turns
<1>6. \A y \in m : /\ y \in Rows /\ Turn(op, y) = n
                   /\ op = "delatt" => y = req[w].att /\ y \in Atts
                   /\ op = "delitem" /\ y \in Items => y = req[w].item
  BY <1>3, <1>5, MatchedTurns
<1>7. /\ CascadeBegun(w)' /\ ~CascadeBegun(w) =>
           {a \in Atts : AttLive(a) /\ (op = "delitem" => atts[a].item = req[w].item)} \subseteq m
  BY <1>1, <1>2, Plans DEF CascadeBegun, Matched
<1> HIDE DEF m, n
<1>8. /\ stmt' \in [Workers -> 0..3] /\ stmt'[w] = n /\ n = stmt[w] + 1
      /\ todo' \in [Workers -> SUBSET Rows] /\ todo'[w] = m
      /\ \A v \in Workers \ {w} : stmt'[v] = stmt[v] /\ todo'[v] = todo[v]
  <2>1. n \in 0..3 /\ n = stmt[w] + 1 /\ stmt' = [stmt EXCEPT ![w] = n]
    <3>1. stmt' = [stmt EXCEPT ![w] = n] /\ n = stmt[w] + 1
      BY <1>1 DEF n
    <3>2. \A k \in 1..3 : \A j \in 1..k : j \in 0..3
      OBVIOUS
    <3>3. n \in 0..3
      BY <1>4, <1>5, <3>2
    <3> QED BY <3>1, <3>3
  <2>2. m \in SUBSET Rows
    BY <1>6
  <2> QED BY <1>1, <1>2, <2>1, <2>2
<1>9. TypeOK'
  BY <1>1, <1>8 DEF IInv, TypeOK
<1>10. Good(w)'
  <2>1. Shapes(w)' /\ Uploaded(w)' /\ Overtaken(w)'
    BY <1>1, <1>2, <1>3 DEF Good, Shapes, Uploaded, Overtaken, PastLoad, PastFind, ItemLive
  <2>2. \A x \in locks[w] : Turn(op, x) <= stmt[w] /\ Turn(op, x) \in Nat
    BY <1>2 DEF Good, Turns, Turn
  <2>3. \A x \in locks[w] : Turn(op, x) <= n /\ \A y \in m : Before(op, x, y)
    BY <1>2, <1>6, <1>8, <2>2 DEF Before
  <2>4. Turns(w)'
    BY <1>1, <1>2, <1>5, <1>6, <1>8, <2>3 DEF Good, Turns
  <2>5. Cascades(w)'
    BY <1>1, <1>2, <1>7, <1>8 DEF Good, Cascades, AttLive
  <2> QED BY <2>1, <2>4, <2>5 DEF Good
<1> QED BY <1>1, <1>8, <1>9, <1>10, OwnStep DEF tables, history

\* An UPDATE locks its next row, or passes over it.
LEMMA LockStep ==
  ASSUME IInv, NEW w \in Workers, LockRow(w)
  PROVE  IInv'
<1> DEFINE op == req[w].op
           x == NextRow(w)
<1>1. /\ pc[w] = "run" /\ todo[w] # {}
      /\ todo' = [todo EXCEPT ![w] = todo[w] \ {x}]
      /\ locks' = [locks EXCEPT ![w] =
           IF Live(x) \/ (x = TheReport /\ req[w].op # "delreport") THEN locks[w] \cup {x}
           ELSE locks[w]]
      /\ UNCHANGED <<report, items, atts, store, links, pc, req, stmt, left, stale, late>>
  BY DEF LockRow, tables, s3, history
<1>2. /\ Good(w) /\ locks \in [Workers -> SUBSET Rows] /\ todo \in [Workers -> SUBSET Rows]
      /\ stmt[w] \in 0..3
  BY DEF IInv, TypeOK
<1>3. /\ x \in todo[w] /\ x \in Rows /\ \A y \in todo[w] \ {x} : Pos[x] < Pos[y]
  BY <1>1, NextRowIsFirst DEF IInv
<1> HIDE DEF x
<1>4. /\ todo' \in [Workers -> SUBSET Rows] /\ todo'[w] = todo[w] \ {x}
      /\ locks' \in [Workers -> SUBSET Rows]
      /\ locks'[w] \in {locks[w], locks[w] \cup {x}}
      /\ Live(x) => locks'[w] = locks[w] \cup {x}
      /\ \A v \in Workers \ {w} : todo'[v] = todo[v] /\ locks'[v] = locks[v]
  BY <1>1, <1>2, <1>3
<1>5. TypeOK'
  BY <1>1, <1>4 DEF IInv, TypeOK
<1>6. Good(w)'
  <2>1. Shapes(w)' /\ Uploaded(w)' /\ Overtaken(w)'
    BY <1>1, <1>2, <1>3, <1>4 DEF Good, Shapes, Uploaded, Overtaken, PastLoad, PastFind, ItemLive
  <2>2. \A y \in todo[w] : Turn(op, y) = stmt[w]
    BY <1>2 DEF Good, Turns
  <2>3. \A y \in todo[w] \ {x} : Before(op, x, y)
    BY <1>3, <2>2 DEF Before
  <2>4. Turns(w)'
    BY <1>1, <1>2, <1>3, <1>4, <2>2, <2>3 DEF Good, Turns
  <2>5. ASSUME NEW a \in Atts, AttLive(a), a \in todo[w] PROVE a \in todo'[w] \cup locks'[w]
    BY <1>4, <2>5 DEF Live
  <2>6. Cascades(w)'
    BY <1>1, <1>2, <1>4, <2>5 DEF Good, Cascades, CascadeBegun, AttLive
  <2> QED BY <2>1, <2>4, <2>6 DEF Good
<1> QED BY <1>1, <1>4, <1>5, <1>6, OwnStep DEF tables, history

-----------------------------------------------------------------------------
(* The steps that change rows.                                             *)

\* Another request submits the report: whoever is past its load is stale.
LEMMA SubmitStep ==
  ASSUME IInv, Submit
  PROVE  IInv'
<1>1. /\ ~report.deleted /\ report' = Submitted(report, Owner)
      /\ stale' = stale \cup {v \in Workers : PastLoad(v)}
      /\ UNCHANGED <<items, atts, store, links, pc, req, stmt, todo, locks, left, late>>
  BY DEF Submit, s3, work
<1>2. report' \in ReportRow /\ report'.deleted = report.deleted
  <2>1. report \in ReportRow /\ Owner \in UserOrNull
    BY AttAssumption DEF IInv, TypeOK, UserOrNull
  <2> QED BY <1>1, <2>1 DEF Submitted, ReportRow, Statuses
<1>3. TypeOK'
  BY <1>1, <1>2 DEF IInv, TypeOK
<1>4. StoredObjects' /\ SurvivorsAreLate' /\ Homed'
  BY <1>1, <1>2 DEF IInv, StoredObjects, SurvivorsAreLate, Homed, AttLive, ItemLive
<1>5. ASSUME NEW v \in Workers PROVE Good(v)'
  <2>1. Good(v)
    BY DEF IInv
  <2>2. Shapes(v)' /\ Turns(v)' /\ Uploaded(v)' /\ Cascades(v)'
    BY <1>1, <2>1 DEF Good, Shapes, Turns, Uploaded, Cascades, CascadeBegun, AttLive
  <2>3. Overtaken(v)'
    BY <1>1 DEF Overtaken, PastLoad, PastFind
  <2> QED BY <2>2, <2>3 DEF Good
<1> QED BY <1>3, <1>4, <1>5 DEF IInv

\* What a COMMIT publishes.
LEMMA CommitRows ==
  ASSUME IInv, NEW w \in Workers, Commit(w)
  PROVE  /\ report' \in ReportRow /\ report'.status = report.status
         /\ report'.deleted = (report.deleted \/ TheReport \in Deletes(w))
         /\ items' \in [Items -> {"live", "deleted"}]
         /\ \A i \in Items : ItemLive(i)' <=> ItemLive(i) /\ i \notin Deletes(w)
         /\ atts' \in [Atts -> AttRow]
         /\ \A a \in Atts :
              \/ AttLive(a)' /\ req[w].op = "upload" /\ req[w].att = a /\ atts'[a].item = req[w].item
              \/ ~AttLive(a)'
              \/ AttLive(a) /\ a \notin Deletes(w) /\ atts'[a] = atts[a]
<1>1. report \in ReportRow /\ items \in [Items -> {"live", "deleted"}] /\ atts \in [Atts -> AttRow]
  BY DEF IInv, TypeOK
<1>2. /\ report' \in ReportRow /\ report'.status = report.status
      /\ report'.deleted = (report.deleted \/ TheReport \in Deletes(w))
  <2> DEFINE d == report.deleted \/ TheReport \in Deletes(w)
  <2>1. d \in BOOLEAN
    BY Zenon
  <2>2. report' = [report EXCEPT !.deleted = d]
    BY DEF Commit
  <2> HIDE DEF d
  <2>3. report' \in ReportRow /\ report'.status = report.status /\ report'.deleted = d
    BY <1>1, <2>1, <2>2 DEF ReportRow
  <2> QED BY <2>3 DEF d
<1>3. /\ items' \in [Items -> {"live", "deleted"}]
      /\ \A i \in Items : ItemLive(i)' <=> ItemLive(i) /\ i \notin Deletes(w)
  BY <1>1 DEF Commit, ItemLive
<1>4. ASSUME NEW a \in Atts
      PROVE  /\ atts'[a] \in AttRow
             /\ \/ AttLive(a)' /\ req[w].op = "upload" /\ req[w].att = a /\ atts'[a].item = req[w].item
                \/ ~AttLive(a)'
                \/ AttLive(a) /\ a \notin Deletes(w) /\ atts'[a] = atts[a]
  <2>1. atts'[a] = IF a \in Deletes(w) THEN [atts[a] EXCEPT !.state = "deleted"]
                   ELSE IF req[w].op = "upload" /\ req[w].att = a
                        THEN [state |-> "live", item |-> req[w].item] ELSE atts[a]
    BY DEF Commit
  <2>2. atts[a] \in AttRow
    BY <1>1
  <2>3. req[w].op = "upload" => req[w].item \in ItemOrNull
    BY Parts DEF IInv
  <2>4. CASE a \in Deletes(w)
    <3>1. atts'[a] = [atts[a] EXCEPT !.state = "deleted"]
      BY <2>1, <2>4
    <3>2. atts'[a] \in AttRow /\ atts'[a].state = "deleted"
      BY <2>2, <3>1 DEF AttRow
    <3> QED BY <3>2 DEF AttLive
  <2>5. CASE a \notin Deletes(w) /\ req[w].op = "upload" /\ req[w].att = a
    <3>1. atts'[a] = [state |-> "live", item |-> req[w].item]
      BY <2>1, <2>5
    <3>2. atts'[a] \in AttRow /\ atts'[a].state = "live" /\ atts'[a].item = req[w].item
      BY <2>3, <2>5, <3>1 DEF AttRow
    <3> QED BY <2>5, <3>2 DEF AttLive
  <2>6. CASE a \notin Deletes(w) /\ ~(req[w].op = "upload" /\ req[w].att = a)
    <3>1. atts'[a] = atts[a]
      BY <2>1, <2>6
    <3> QED BY <2>2, <2>6, <3>1 DEF AttLive
  <2> QED BY <2>4, <2>5, <2>6
<1>5. atts' \in [Atts -> AttRow]
  <2>1. atts' = [a \in Atts |-> atts'[a]]
    BY DEF Commit
  <2> QED BY <1>4, <2>1
<1> QED BY <1>2, <1>3, <1>4, <1>5

\* A deletion or an upload becomes visible.
LEMMA CommitStep ==
  ASSUME IInv, NEW w \in Workers, Commit(w)
  PROVE  IInv'
<1> DEFINE op == req[w].op
           D == Deletes(w)
<1>1. /\ pc[w] = "run" /\ stmt[w] = Len(Statements(op)) /\ todo[w] = {} /\ Reset(w)
      /\ UNCHANGED <<store, links, left>>
      /\ stale' = (stale \ {w}) \cup
           {v \in Workers \ {w} : \/ TheReport \in D /\ PastLoad(v)
                                  \/ req[v].item \in D /\ PastFind(v)}
      /\ late' = IF /\ op = "upload"
                    /\ w \in stale \/ \E v \in Workers : CascadeBegun(v)
                 THEN late \cup {req[w].att} ELSE late
  BY DEF Commit, Done, s3
<1>2. /\ report' \in ReportRow /\ report'.status = report.status
      /\ report'.deleted = (report.deleted \/ TheReport \in D)
      /\ items' \in [Items -> {"live", "deleted"}]
      /\ \A i \in Items : ItemLive(i)' <=> ItemLive(i) /\ i \notin D
      /\ atts' \in [Atts -> AttRow]
  BY CommitRows
<1>3. \A a \in Atts :
        \/ AttLive(a)' /\ op = "upload" /\ req[w].att = a /\ atts'[a].item = req[w].item
        \/ ~AttLive(a)'
        \/ AttLive(a) /\ a \notin D /\ atts'[a] = atts[a]
  BY CommitRows
<1>4. /\ Good(w) /\ late \subseteq Atts /\ stale \subseteq Workers
      /\ op \in Ops \cup {"none"} /\ req[w].item \in ItemOrNull
  BY Parts DEF IInv, TypeOK
<1>5. op = "upload" => /\ req[w].att \in store /\ req[w].item \in Items /\ store \subseteq Atts
  BY <1>1, <1>4 DEF Good, Uploaded, Shapes, IInv, TypeOK
<1>6. /\ op \notin Deleting => D = {}
      /\ op = "delatt" => D \subseteq Atts
      /\ op = "delitem" => D \cap Items \subseteq {req[w].item} /\ TheReport \notin D
  BY <1>1, <1>4 DEF Good, Turns, Shapes, Deletes
<1>7. late \subseteq late' /\ late' \subseteq Atts /\ stale' \subseteq Workers
  BY <1>1, <1>4, <1>5
<1>8. TypeOK'
  BY <1>1, <1>2, <1>7, Released DEF IInv, TypeOK
<1>9. StoredObjects' /\ Homed'
  BY <1>1, <1>3, <1>5 DEF IInv, StoredObjects, Homed
<1>10. ASSUME NEW a \in Atts, AttLive(a)', op = "upload", req[w].att = a
       PROVE  a \in late' \/ /\ w \notin stale /\ ~report.deleted /\ ItemLive(req[w].item)
                             /\ \A v \in Workers : ~CascadeBegun(v)
  <2>1. w \notin stale => ~report.deleted /\ ItemLive(req[w].item)
    BY <1>1, <1>4, <1>10 DEF Good, Overtaken, PastLoad, PastFind
  <2> QED BY <1>1, <1>10, <2>1
<1>11. SurvivorsAreLate'
  <2> SUFFICES ASSUME NEW a \in Atts, AttLive(a)', report'.deleted \/ ~ItemLive(atts[a].item)'
               PROVE  a \in late'
    BY DEF SurvivorsAreLate
  <2>1. CASE op = "upload" /\ req[w].att = a /\ atts'[a].item = req[w].item
    BY <1>2, <1>5, <1>6, <1>10, <2>1 DEF Deleting
  <2>2. CASE AttLive(a) /\ a \notin D /\ atts'[a] = atts[a]
    <3>1. CASE report.deleted \/ ~ItemLive(atts[a].item)
      BY <1>7, <2>2, <3>1 DEF IInv, SurvivorsAreLate
    <3>2. CASE ~report.deleted /\ ItemLive(atts[a].item) /\ op = "delreport"
      <4>1. CascadeBegun(w)
        BY <1>1, <3>2, Plans DEF CascadeBegun
      <4>2. a \in locks[w] \cup late
        BY <1>1, <1>4, <2>2, <3>2, <4>1 DEF Good, Cascades
      <4> QED BY <1>7, <2>2, <3>2, <4>2 DEF Deletes
    <3>3. CASE ~report.deleted /\ ItemLive(atts[a].item) /\ op = "delitem"
      <4>1. CascadeBegun(w)
        BY <1>1, <3>3, Plans DEF CascadeBegun
      <4>2. atts[a].item \in Items
        BY <2>2 DEF IInv, Homed
      <4>3. atts[a].item = req[w].item
        BY <1>2, <1>6, <2>2, <3>3, <4>2
      <4>4. a \in locks[w] \cup late
        BY <1>1, <1>4, <2>2, <3>3, <4>1, <4>3 DEF Good, Cascades
      <4> QED BY <1>7, <2>2, <3>3, <4>4, <4>2, RowKinds DEF Deletes
    <3>4. CASE ~report.deleted /\ ItemLive(atts[a].item) /\ op \notin {"delreport", "delitem"}
      <4>1. atts[a].item \in Items
        BY <2>2 DEF IInv, Homed
      <4>2. atts[a].item \notin D /\ TheReport \notin D
        BY <1>4, <1>6, <3>4, <4>1, RowKinds DEF Deleting
      <4> QED BY <1>2, <2>2, <3>4, <4>1, <4>2
    <3> QED BY <3>1, <3>2, <3>3, <3>4
  <2> QED BY <1>3, <2>1, <2>2
<1>12. ASSUME NEW v \in Workers, v # w PROVE Good(v)'
  <2>1. Good(v) /\ pc'[v] = pc[v] /\ req'[v] = req[v] /\ stmt'[v] = stmt[v]
        /\ todo'[v] = todo[v] /\ locks'[v] = locks[v]
    BY <1>1, <1>12, Released DEF IInv
  <2>2. Shapes(v)' /\ Turns(v)' /\ Uploaded(v)'
    BY <1>1, <2>1 DEF Good, Shapes, Turns, Uploaded
  <2>3. /\ v \in stale => v \in stale'
        /\ TheReport \in D /\ PastLoad(v) => v \in stale'
        /\ req[v].item \in D /\ PastFind(v) => v \in stale'
    BY <1>1, <1>12
  <2>4. /\ PastLoad(v)' <=> PastLoad(v)
        /\ PastFind(v)' <=> PastFind(v)
        /\ CanEdit(report)' <=> CanEdit(report)
    BY <1>2, <2>1 DEF PastLoad, PastFind, CanEdit, IsDraft
  <2>5. req[v].op = "upload" => req[v].item \in Items
    BY <2>1 DEF Good, Shapes
  <2>6. Overtaken(v)'
    BY <1>2, <2>1, <2>3, <2>4, <2>5 DEF Good, Overtaken, ItemLive
  <2>7. Cascades(v)'
    <3> SUFFICES ASSUME NEW a \in Atts, AttLive(a)', CascadeBegun(v)',
                        req'[v].op = "delitem" => atts'[a].item = req'[v].item
                 PROVE  a \in todo'[v] \cup locks'[v] \cup late'
      BY DEF Cascades
    <3>1. CascadeBegun(v)
      BY <2>1 DEF CascadeBegun
    <3>2. CASE op = "upload" /\ req[w].att = a
      BY <1>10, <3>1, <3>2
    <3>3. CASE AttLive(a) /\ atts'[a] = atts[a]
      BY <1>7, <2>1, <3>1, <3>3 DEF Good, Cascades
    <3> QED BY <1>3, <3>2, <3>3
  <2> QED BY <2>2, <2>6, <2>7 DEF Good
<1>13. Good(w)'
  BY <1>1, Released DEF IInv
<1> QED BY <1>8, <1>9, <1>11, <1>12, <1>13 DEF IInv

-----------------------------------------------------------------------------
(* The theorems.                                                           *)

\* At the start the attachments of the seed have their objects.
LEMMA InitIInv == Init => IInv
<1> SUFFICES ASSUME Init PROVE IInv
  OBVIOUS
<1>1. /\ items = [i \in Items |-> "live"] /\ store = {a \in Atts : SeedItem[a] # Null}
      /\ links = {} /\ left = MaxReq /\ stale = {} /\ late = {}
      /\ pc = [w \in Workers |-> "idle"] /\ req = [w \in Workers |-> NoReq]
      /\ stmt = [w \in Workers |-> 0] /\ todo = [w \in Workers |-> {}]
      /\ locks = [w \in Workers |-> {}]
  BY DEF Init
<1>2. report \in ReportRow /\ report.deleted = FALSE
  <2>1. NoRow \in ReportRow /\ NoRow.deleted = FALSE
    BY DEF NoRow, ReportRow, UserOrNull, ReportOrNull, Statuses, Sums, NoSum
  <2>2. Owner \in UserOrNull /\ Null \in ReportOrNull
    BY AttAssumption DEF UserOrNull, ReportOrNull
  <2> QED BY <2>1, <2>2 DEF Init, NewReport, ReportRow, Statuses
<1>3. ASSUME NEW a \in Atts
      PROVE  /\ atts[a] \in AttRow
             /\ AttLive(a) => SeedItem[a] # Null /\ atts[a].item \in Items
  <2>1. atts[a] = IF SeedItem[a] = Null THEN [state |-> "none", item |-> Null]
                  ELSE [state |-> "live", item |-> SeedItem[a]]
    BY DEF Init
  <2>2. SeedItem[a] \in Items \cup {Null} /\ ItemOrNull = Items \cup {Null}
    BY AttAssumption, RowKinds
  <2>3. CASE SeedItem[a] = Null
    <3>1. atts[a] = [state |-> "none", item |-> Null]
      BY <2>1, <2>3
    <3> QED BY <2>2, <3>1 DEF AttRow, AttLive
  <2>4. CASE SeedItem[a] # Null
    <3>1. atts[a] = [state |-> "live", item |-> SeedItem[a]]
      BY <2>1, <2>4
    <3> QED BY <2>2, <2>4, <3>1 DEF AttRow
  <2> QED BY <2>3, <2>4
<1>4. atts \in [Atts -> AttRow]
  <2>1. atts = [a \in Atts |-> atts[a]]
    BY DEF Init
  <2> QED BY <1>3, <2>1
<1>5. NoReq \in Request /\ NoReq.op = "none"
  BY DEF NoReq, Request, UserOrNull, ItemOrNull
<1>6. TypeOK
  BY <1>1, <1>2, <1>4, <1>5, AttAssumption DEF TypeOK, Labels
<1>7. StoredObjects /\ SurvivorsAreLate /\ Homed
  BY <1>1, <1>2, <1>3 DEF StoredObjects, SurvivorsAreLate, Homed, ItemLive
<1>8. ASSUME NEW w \in Workers PROVE Good(w)
  <2>1. pc[w] = "idle" /\ req[w] = NoReq /\ stmt[w] = 0 /\ todo[w] = {} /\ locks[w] = {}
    BY <1>1
  <2>2. Len(Statements(req[w].op)) = 0
    BY <1>5, <2>1, Plans DEF Deleting
  <2> QED BY <1>5, <2>1, <2>2
      DEF Good, Shapes, Turns, Uploaded, Overtaken, Cascades, CascadeBegun, PastLoad, PastFind
<1> QED BY <1>6, <1>7, <1>8 DEF IInv

\* Every step keeps the invariant.
LEMMA NextIInv == IInv /\ [Next]_vars => IInv'
<1> SUFFICES ASSUME IInv, [Next]_vars PROVE IInv'
  OBVIOUS
<1>1. CASE UNCHANGED vars
  <2>1. UNCHANGED <<report, items, atts, store, links, pc, req, stmt, todo, locks, left, stale, late>>
    BY <1>1 DEF vars, tables, s3, work, history
  <2>2. TypeOK' /\ StoredObjects' /\ SurvivorsAreLate' /\ Homed'
    BY <2>1 DEF IInv, TypeOK, StoredObjects, SurvivorsAreLate, Homed, AttLive, ItemLive
  <2>3. \A v \in Workers : Good(v)'
    BY <2>1, Kept DEF IInv
  <2> QED BY <2>2, <2>3 DEF IInv
<1>2. ASSUME NEW w \in Workers, Begin(w) \/ Step(w) \/ Fail(w) \/ Abort(w) PROVE IInv'
  BY <1>2, BeginStep, CheckSteps, PutStep, StartStep, LockStep, CommitStep, EndSteps DEF Step
<1>3. CASE Submit
  BY <1>3, SubmitStep
<1> QED BY <1>1, <1>2, <1>3 DEF Next

\* Requests that wait for each other are deletions of an item and a report.
LEMMA CirclesAreOfDeletions == IInv => CircleOfDeletions
<1> SUFFICES ASSUME IInv, NEW v \in Workers, NEW w \in Workers, Waits(v, w), Waits(w, v)
             PROVE  {req[v].op, req[w].op} = {"delitem", "delreport"}
  BY DEF CircleOfDeletions
<1> DEFINE x == NextRow(v)
           y == NextRow(w)
<1>1. /\ x \in todo[v] /\ x \in locks[w] /\ x \in Rows
      /\ y \in todo[w] /\ y \in locks[v] /\ y \in Rows
  BY NextRowIsFirst DEF Waits, IInv
<1>2. Good(v) /\ Good(w) /\ Pos[x] \in Nat /\ Pos[y] \in Nat
  BY <1>1, AttAssumption DEF IInv
<1> HIDE DEF x, y
<1>3. req[v].op \in Deleting /\ req[w].op \in Deleting
  BY <1>1, <1>2 DEF Good, Shapes
<1>4. Before(req[v].op, y, x) /\ Before(req[w].op, x, y)
  BY <1>1, <1>2 DEF Good, Turns
<1>5. \A op : Turn(op, x) \in Nat /\ Turn(op, y) \in Nat
  BY DEF Turn
<1>6. \A op : ~(Before(op, x, y) /\ Before(op, y, x)) /\ (x = y => ~Before(op, x, y))
  BY <1>2, <1>5 DEF Before
<1>7. req[v].op # req[w].op
  BY <1>4, <1>6
<1>8. req[v].op # "delatt"
  BY <1>1, <1>2, <1>4, <1>6 DEF Good, Turns
<1>9. req[w].op # "delatt"
  BY <1>1, <1>2, <1>4, <1>6 DEF Good, Turns
<1> QED BY <1>3, <1>7, <1>8, <1>9 DEF Deleting

\* Only a COMMIT changes a row of an attachment.
LEMMA AttachmentsChange ==
  ASSUME [Next]_vars, atts' # atts
  PROVE  \E w \in Workers : Commit(w)
<1>1. atts' = atts \/ \E w \in Workers : Commit(w)
  <2>1. CASE UNCHANGED vars
    BY <2>1 DEF vars, tables
  <2>2. CASE Submit
    BY <2>2 DEF Submit
  <2>3. ASSUME NEW w \in Workers, Begin(w) \/ Load(w) \/ Find(w) \/ Sign(w) \/ Put(w) \/ Insert(w)
                                  \/ Start(w) \/ LockRow(w)
        PROVE  atts' = atts
    BY <2>3 DEF Begin, Load, Find, Sign, Put, Insert, Start, LockRow, tables
  <2>4. ASSUME NEW w \in Workers, Refuse(w) \/ Fail(w) \/ Abort(w) PROVE atts' = atts
    BY <2>4 DEF Refuse, Fail, Abort, Ends, tables
  <2> QED BY <2>1, <2>2, <2>3, <2>4 DEF Next, Step
<1> QED BY <1>1

\* The inductive invariant of the attachments holds in every reachable state
\* (attachment_service.go, item_repo.go and report_repo.go: SoftDelete).
THEOREM AttachmentsInvariant == Spec => []IInv
<1> QED BY InitIInv, NextIInv, PTL DEF Spec

\* Rows, objects, requests and locks keep their types.
THEOREM AttachmentsTypes == Spec => []TypeOK
<1>1. IInv => TypeOK
  BY DEF IInv
<1> QED BY <1>1, AttachmentsInvariant, PTL

\* Every attachment that is listed and every URL that was handed out has its
\* object, whatever fails between PutObject and COMMIT
\* (attachment_service.go:69).
THEOREM StoredObjectsHolds == Spec => []StoredObjects
<1>1. IInv => StoredObjects
  BY DEF IInv
<1> QED BY <1>1, AttachmentsInvariant, PTL

\* Deleting an item or a report takes every attachment with it but those
\* uploaded while it runs (domain/repository.go:104 and :133).
THEOREM SurvivorsAreLateHolds == Spec => []SurvivorsAreLate
<1>1. IInv => SurvivorsAreLate
  BY DEF IInv
<1> QED BY <1>1, AttachmentsInvariant, PTL

\* Two requests wait for each other's rows only if one deletes an item and
\* the other the report: the one locks attachments first, the other items.
THEOREM CircleOfDeletionsHolds == Spec => []CircleOfDeletions
<1> QED BY CirclesAreOfDeletions, AttachmentsInvariant, PTL

\* After the submission or the deletion of the report its attachments change
\* only by requests that had passed their check before
\* (attachment_service.go:69 and :239).
THEOREM OnlyOvertakenChangeHolds == Spec => OnlyOvertakenChange
<1>1. ASSUME IInv, [Next]_vars, ~CanEdit(report) \/ report.deleted
      PROVE  atts' = atts \/ \E w \in stale : pc[w] = "run" /\ pc'[w] = "idle"
  <2> SUFFICES ASSUME atts' # atts PROVE \E w \in stale : pc[w] = "run" /\ pc'[w] = "idle"
    OBVIOUS
  <2>1. PICK w \in Workers : Commit(w)
    BY <1>1, AttachmentsChange
  <2>2. Good(w) /\ pc[w] = "run" /\ pc'[w] = "idle"
    BY <1>1, <2>1, Released DEF IInv, Commit
  <2>3. w \in stale
    BY <1>1, <2>2 DEF Good, Shapes, Overtaken, PastLoad
  <2> QED BY <2>2, <2>3
<1> QED BY <1>1, AttachmentsInvariant, PTL DEF Spec, OnlyOvertakenChange

=============================================================================
