--------------------------- MODULE ItemPanelProofs ---------------------------
(***************************************************************************)
(* The item panel, for any number of items, additions, entries and clicks: *)
(* what is reported complete is complete, requests for attachments belong  *)
(* to the item shown, one addition is sent at a time, and typed values do  *)
(* not vanish without a cause.                                             *)
(***************************************************************************)
EXTENDS ItemPanel, FiniteSetTheorems, WellFoundedInduction, TLAPS

FormType == [text : 0 .. MaxEdits, files : SUBSET Entries,
             callback : Callback \cup {None}, seq : BOOLEAN,
             busy : [Kinds -> BOOLEAN], ctl : Saves \cup {None}]

SaveType == [pc : {"idle", "create", "upload", "done"},
             key : Keys, again : BOOLEAN,
             text : 0 .. MaxEdits, files : SUBSET Entries,
             todo : SUBSET Entries, stored : SUBSET Entries,
             failed : 0 .. MaxEdits, aborted : BOOLEAN,
             end : {"none", "created", "partly", "failed", "stopped"}]

PanelType == [mode : Modes \cup {"closed"}, last : Modes,
              item : Items \cup {None}, key : Keys]

AttType == [Kinds -> [pc : {"idle", "flight", "aborted"}, item : Items \cup {None}]]

-----------------------------------------------------------------------------
(* The inductive invariant.                                                *)

Underway(s) == saves[s].pc \in {"create", "upload"}

\* Only the end of a save raises the key beyond the bound on clicks, and no
\* save is of a panel that has not been mounted yet.
Done == {s \in Saves : saves[s].pc = "done"}
KeyBound == panel.key <= MaxKey + Cardinality(Done)
SaveKeys == \A s \in Saves : saves[s].pc # "idle" => saves[s].key <= panel.key

\* The loop over the files: each is stored, still to do, or has failed.
Loop(c) ==
  /\ c.todo # {} /\ c.todo \subseteq c.files
  /\ c.stored \subseteq c.files /\ c.stored \cap c.todo = {}
  /\ c.failed + Cardinality(c.todo) <= MaxEdits
  /\ c.failed = 0 => c.stored \cup c.todo = c.files
  /\ c.failed # 0 => c.stored \cup c.todo # c.files

SaveShape(c) ==
  /\ c.pc # "done" => c.end = "none"
  /\ c.pc = "create" => c.todo = c.files /\ c.stored = {} /\ c.failed = 0
  /\ c.pc = "upload" => Loop(c)
  /\ c.end = "created" => c.stored = c.files
  /\ c.end = "partly" => c.stored # c.files
Shapes == \A s \in Saves : SaveShape(saves[s])

\* Which layers there are, and what they ask about.
Layers ==
  /\ drawer = "open" <=> panel.mode # "closed"
  /\ panel.mode # "closed" => panel.last = panel.mode
  /\ drawer # "open" => form.text = 0
  /\ dialog \in {"period", "attachment"} => drawer # "hidden"
  /\ dialog = "period" => form.callback \in Callback
  /\ dialog = "attachment" => Mode = "edit"

OnePost ==
  \A s, t \in Saves :
    s # t /\ saves[s].key = saves[t].key /\ saves[s].pc = "create" => saves[t].pc # "create"

\* Until a late rejection disturbs it, the panel holds the controller of its
\* save, and the lock while the save uploads.
Controlled ==
  ~Disturbed(panel.key) =>
    \A s \in Saves : Mine(s) /\ Underway(s) /\ ~saves[s].aborted =>
      /\ form.ctl = s
      /\ saves[s].pc = "upload" => form.seq

\* The dialog about the period stands before a save, not beside one.
AskedBefore ==
  dialog = "period" =>
    /\ ~CreatePending
    /\ ~Disturbed(panel.key) =>
         \A s \in Saves : Mine(s) /\ saves[s].pc = "upload" => saves[s].aborted

\* What the panel knows of its saves.
SaveInv ==
  /\ KeyBound /\ SaveKeys /\ Shapes
  /\ OnePost /\ OneAdditionAtATime /\ Controlled /\ AskedBefore

IInv == TypeOK /\ Layers /\ RequestsOfTheScreen /\ SaveInv

-----------------------------------------------------------------------------
(* What the operators of the model yield.                                  *)

\* The type invariant, component by component.
LEMMA Types ==
  TypeOK <=> /\ panel \in PanelType /\ drawer \in {"hidden", "open", "closing"}
             /\ form \in FormType
             /\ dialog \in {"none", "discard", "period", "attachment"}
             /\ att \in AttType /\ saves \in [Saves -> SaveType]
             /\ update \in (0 .. MaxEdits) \cup {None} /\ edits \in 0 .. MaxEdits
  BY DEF TypeOK, PanelType, FormType, AttType, SaveType

\* None is neither a save nor a callback.
LEMMA Distinct ==
  /\ None \notin Saves /\ None \notin Items /\ None \notin 0 .. MaxEdits
  /\ MaxEdits \in Nat /\ MaxKey \in Nat
  BY PanelAssumption

\* Resetting a form empties it and leaves its locks and its callback.
LEMMA ResetForm ==
  ASSUME NEW f \in FormType
  PROVE  /\ Reset(f) \in FormType
         /\ Reset(f).text = 0 /\ Reset(f).files = {}
         /\ Reset(f).callback = f.callback /\ Reset(f).seq = f.seq
         /\ Reset(f).ctl = f.ctl
<1>1. MaxEdits \in Nat
  BY Distinct
<1> DEFINE g == FormReset(f)
<1>2. /\ g \in FormType /\ g.text = 0 /\ g.callback = f.callback /\ g.seq = f.seq
      /\ g.ctl = f.ctl
  BY <1>1 DEF FormReset, FormType
<1>3. Reset(f) = [g EXCEPT !.files = {}]
  BY DEF Reset
<1> HIDE DEF g
<1> QED BY <1>2, <1>3 DEF FormType

\* Aborting the uploads takes the lock off, if the panel has a controller.
LEMMA AbortForm ==
  ASSUME NEW f \in FormType
  PROVE  /\ AbortSequential(f) \in FormType
         /\ AbortSequential(f).text = f.text
         /\ AbortSequential(f).callback = f.callback
         /\ f.ctl = None => AbortSequential(f) = f
         /\ AbortSequential(f).ctl = None
         /\ f.ctl # None => AbortSequential(f).seq = FALSE
<1>1. CASE f.ctl = None
  BY <1>1 DEF AbortSequential, FormType
<1>2. CASE f.ctl # None
  BY <1>2 DEF AbortSequential, FormType
<1> QED BY <1>1, <1>2

\* Taking the lock off.
LEMMA UnlockForm ==
  ASSUME NEW f \in FormType
  PROVE  /\ Unlock(f) \in FormType /\ Unlock(f).seq = FALSE
         /\ Unlock(f).text = f.text /\ Unlock(f).callback = f.callback
         /\ Unlock(f).ctl = f.ctl
  BY DEF Unlock, FormType

\* The finally block.
LEMMA FinishForm ==
  ASSUME form \in FormType, NEW s \in Saves, NEW f \in FormType
  PROVE  /\ Finish(s, f) \in FormType
         /\ ~Mine(s) => Finish(s, f) = form
         /\ Mine(s) => /\ Finish(s, f).ctl = None /\ Finish(s, f).seq = f.seq
                       /\ Finish(s, f).text = f.text
                       /\ Finish(s, f).callback = f.callback
<1>1. CASE Mine(s)
  BY <1>1 DEF Finish, FormType
<1>2. CASE ~Mine(s)
  BY <1>2 DEF Finish
<1> QED BY <1>1, <1>2

\* A fresh form.
LEMMA Fresh ==
  /\ FreshForm \in FormType /\ FreshForm.text = 0 /\ FreshForm.ctl = None
  BY Distinct DEF FreshForm, FormType

\* Requests that are cancelled or forgotten are not in flight.
LEMMA StoppedRequests ==
  ASSUME NEW a \in AttType
  PROVE  /\ Cancelled(a) \in AttType /\ Unmounted(a) \in AttType
         /\ \A k \in Kinds : Cancelled(a)[k].pc # "flight" /\ Unmounted(a)[k].pc # "flight"
<1>1. ASSUME NEW k \in Kinds
      PROVE  /\ Cancelled(a)[k] \in [pc : {"idle", "flight", "aborted"}, item : Items \cup {None}]
             /\ Cancelled(a)[k].pc # "flight"
  <2>1. CASE a[k].pc = "flight"
    BY <2>1 DEF Cancelled, AttType
  <2>2. CASE a[k].pc # "flight"
    BY <2>2 DEF Cancelled, AttType
  <2> QED BY <2>1, <2>2
<1>2. Cancelled(a) \in AttType
  BY <1>1 DEF Cancelled, AttType
<1> QED BY <1>1, <1>2 DEF Unmounted, Idle, AttType

\* The saves after an abort: one more of them is aborted.
LEMMA Aborting ==
  ASSUME TypeOK
  PROVE  /\ AbortedSaves \in [Saves -> SaveType]
         /\ form.ctl = None => AbortedSaves = saves
         /\ form.ctl \in Saves => AbortedSaves[form.ctl].aborted
         /\ \A s \in Saves : /\ s # form.ctl => AbortedSaves[s] = saves[s]
                             /\ AbortedSaves[s] = [saves[s] EXCEPT !.aborted = AbortedSaves[s].aborted]
<1>1. form \in FormType /\ saves \in [Saves -> SaveType] /\ None \notin Saves
  BY Types, Distinct
<1>2. CASE form.ctl = None
  BY <1>1, <1>2 DEF AbortedSaves, SaveType
<1>3. CASE form.ctl # None
  <2> DEFINE c == form.ctl
  <2>1. c \in Saves
    BY <1>1, <1>3 DEF FormType
  <2>2. AbortedSaves = [saves EXCEPT ![c] = [saves[c] EXCEPT !.aborted = TRUE]]
    BY <1>3 DEF AbortedSaves
  <2>3. [saves[c] EXCEPT !.aborted = TRUE] \in SaveType
    BY <1>1, <2>1 DEF SaveType
  <2> HIDE DEF c
  <2>4. \A s \in Saves : s # c => AbortedSaves[s] = saves[s]
    BY <1>1, <2>2
  <2>5. AbortedSaves[c] = [saves[c] EXCEPT !.aborted = TRUE]
    BY <1>1, <2>1, <2>2
  <2>6. \A s \in Saves : AbortedSaves[s] = [saves[s] EXCEPT !.aborted = AbortedSaves[s].aborted]
    <3> TAKE s \in Saves
    <3>1. saves[s] \in SaveType
      BY <1>1
    <3>2. CASE s = c
      BY <2>5, <3>1, <3>2 DEF SaveType
    <3>3. CASE s # c
      BY <2>4, <3>1, <3>3 DEF SaveType
    <3> QED BY <3>2, <3>3
  <2>7. AbortedSaves[c].aborted
    BY <1>1, <2>1, <2>5 DEF SaveType
  <2>8. AbortedSaves \in [Saves -> SaveType]
    BY <1>1, <2>2, <2>3
  <2> QED BY <1>3, <2>4, <2>6, <2>7, <2>8 DEF c
<1> QED BY <1>2, <1>3

\* A nonempty set of numbers has a least element.
LEMMA Least ==
  ASSUME NEW S \in SUBSET Nat, S # {}
  PROVE  \E n \in S : \A m \in S : n <= m
<1> DEFINE R == OpToRel(<, Nat)
<1>1. \E n \in S : \A m \in S : <<m, n>> \notin R
  <2> HIDE DEF R
  <2>1. IsWellFoundedOn(R, Nat)
    BY NatLessThanWellFounded DEF R
  <2> QED BY <2>1, WFMin
<1>2. \A m, n \in Nat : m < n => <<m, n>> \in R
  BY DEF OpToRel
<1> HIDE DEF R
<1>3. PICK n \in S : \A m \in S : <<m, n>> \notin R
  BY <1>1
<1>4. ASSUME NEW m \in S PROVE n <= m
  <2>1. m \in Nat /\ n \in Nat
    OBVIOUS
  <2>2. ~(m < n)
    BY <1>2, <1>3, <2>1
  <2> QED BY <2>1, <2>2
<1> QED BY <1>4

\* The first file of the loop is one that it still has to upload.
LEMMA CurrentIsNext ==
  ASSUME NEW s \in Saves, saves[s].todo \subseteq Entries, saves[s].todo # {}
  PROVE  Current(s) \in saves[s].todo
<1>1. Entries \subseteq Nat
  BY Distinct DEF Entries
<1>2. \E f \in saves[s].todo : \A g \in saves[s].todo : f <= g
  BY <1>1, Least
<1> QED BY <1>2 DEF Current

\* Sets of entries are finite and no larger than the bound.
LEMMA FewEntries ==
  ASSUME NEW S \in SUBSET Entries
  PROVE  IsFiniteSet(S) /\ Cardinality(S) \in Nat /\ Cardinality(S) <= MaxEdits
<1>1. IsFiniteSet(Entries) /\ Cardinality(Entries) = MaxEdits
  BY Distinct, FS_Interval DEF Entries
<1>2. IsFiniteSet(S) /\ Cardinality(S) <= Cardinality(Entries)
  BY <1>1, FS_Subset
<1> QED BY <1>1, <1>2, FS_CardinalityType

\* The saves that are done are finitely many.
LEMMA FewSaves ==
  ASSUME NEW S \in SUBSET Saves
  PROVE  /\ IsFiniteSet(S) /\ Cardinality(S) \in Nat /\ Cardinality(Saves) \in Nat
         /\ Cardinality(S) <= Cardinality(Saves)
  BY PanelAssumption, FS_Subset, FS_CardinalityType

\* What the end of a save leaves.
LEMMA Ending ==
  ASSUME TypeOK, NEW s \in Saves, NEW stored \in SUBSET Entries,
         NEW end \in {"created", "partly", "failed", "stopped"}, End(s, end, stored)
  PROVE  /\ saves' \in [Saves -> SaveType]
         /\ \A t \in Saves \ {s} : saves'[t] = saves[t]
         /\ saves'[s].pc = "done" /\ saves'[s].end = end /\ saves'[s].stored = stored
         /\ saves'[s].key = saves[s].key /\ saves'[s].files = saves[s].files
         /\ saves'[s].text = saves[s].text
<1> DEFINE c == saves[s]
           d == [c EXCEPT !.pc = "done", !.end = end, !.todo = {}, !.stored = stored, !.failed = 0]
<1>1. saves \in [Saves -> SaveType] /\ c \in SaveType
  BY Types
<1>2. saves' = [saves EXCEPT ![s] = d]
  BY <1>1 DEF End
<1>3. /\ d \in SaveType /\ d.pc = "done" /\ d.end = end /\ d.stored = stored
      /\ d.key = c.key /\ d.files = c.files /\ d.text = c.text
  <2> HIDE DEF c
  <2>1. d = [pc |-> "done", key |-> c.key, again |-> c.again, text |-> c.text,
             files |-> c.files, todo |-> {}, stored |-> stored, failed |-> 0,
             aborted |-> c.aborted, end |-> end]
    <3> DEFINE c1 == [c EXCEPT !.pc = "done"]
               c2 == [c1 EXCEPT !.end = end]
               c3 == [c2 EXCEPT !.todo = {}]
               c4 == [c3 EXCEPT !.stored = stored]
               c5 == [c4 EXCEPT !.failed = 0]
    <3>1. c1 = [c EXCEPT !.pc = "done"] /\ c2 = [c1 EXCEPT !.end = end]
          /\ c3 = [c2 EXCEPT !.todo = {}] /\ c4 = [c3 EXCEPT !.stored = stored]
          /\ c5 = [c4 EXCEPT !.failed = 0] /\ d = c5
      OBVIOUS
    <3> HIDE DEF d, c1, c2, c3, c4, c5
    <3>2. c1 = [pc |-> "done", key |-> c.key, again |-> c.again, text |-> c.text,
                files |-> c.files, todo |-> c.todo, stored |-> c.stored, failed |-> c.failed,
                aborted |-> c.aborted, end |-> c.end]
      BY <1>1, <3>1 DEF SaveType
    <3>3. c3 = [pc |-> "done", key |-> c.key, again |-> c.again, text |-> c.text,
                files |-> c.files, todo |-> {}, stored |-> c.stored, failed |-> c.failed,
                aborted |-> c.aborted, end |-> end]
      BY <3>1, <3>2
    <3> QED BY <3>1, <3>3
  <2> HIDE DEF d
  <2> QED BY <1>1, <2>1, Distinct DEF SaveType
<1> HIDE DEF d
<1> QED BY <1>1, <1>2, <1>3

\* What the start of an addition leaves.
LEMMA Starting ==
  ASSUME TypeOK, NEW s \in Saves, NEW data \in Callback, StartAdd(s, data)
  PROVE  /\ saves' \in [Saves -> SaveType]
         /\ \A t \in Saves \ {s} : saves'[t] = AbortedSaves[t]
         /\ saves[s].pc = "idle" /\ saves'[s].pc = "create"
         /\ saves'[s].key = panel.key /\ saves'[s].end = "none"
         /\ saves'[s].todo = saves'[s].files /\ saves'[s].stored = {} /\ saves'[s].failed = 0
         /\ form' \in FormType /\ form'.ctl = s /\ form'.callback = None
         /\ form'.seq = form.seq /\ form'.text = form.text
<1> DEFINE d == [NoSave EXCEPT !.pc = "create", !.key = panel.key, !.again = data.again,
                               !.text = data.text, !.files = data.files, !.todo = data.files]
<1>1. panel.key \in Keys /\ form \in FormType /\ AbortedSaves \in [Saves -> SaveType]
  BY Types, Aborting DEF PanelType
<1>2. /\ d \in SaveType /\ d.pc = "create" /\ d.key = panel.key /\ d.end = "none"
      /\ d.todo = d.files /\ d.stored = {} /\ d.failed = 0
  <2>1. d = [pc |-> "create", key |-> panel.key, again |-> data.again, text |-> data.text,
             files |-> data.files, todo |-> data.files, stored |-> {}, failed |-> 0,
             aborted |-> FALSE, end |-> "none"]
    <3> DEFINE c1 == [NoSave EXCEPT !.pc = "create"]
               c2 == [c1 EXCEPT !.key = panel.key]
               c3 == [c2 EXCEPT !.again = data.again]
               c4 == [c3 EXCEPT !.text = data.text]
               c5 == [c4 EXCEPT !.files = data.files]
               c6 == [c5 EXCEPT !.todo = data.files]
    <3>1. c1 = [NoSave EXCEPT !.pc = "create"] /\ c2 = [c1 EXCEPT !.key = panel.key]
          /\ c3 = [c2 EXCEPT !.again = data.again]
      OBVIOUS
    <3>2. c4 = [c3 EXCEPT !.text = data.text] /\ c5 = [c4 EXCEPT !.files = data.files]
          /\ c6 = [c5 EXCEPT !.todo = data.files] /\ d = c6
      OBVIOUS
    <3> HIDE DEF d, c1, c2, c3, c4, c5, c6
    <3>3. c3 = [pc |-> "create", key |-> panel.key, again |-> data.again, text |-> 0,
                files |-> {}, todo |-> {}, stored |-> {}, failed |-> 0,
                aborted |-> FALSE, end |-> "none"]
      BY <3>1 DEF NoSave
    <3> QED BY <3>2, <3>3
  <2> HIDE DEF d
  <2>2. data.again \in BOOLEAN /\ data.text \in 0 .. MaxEdits /\ data.files \in SUBSET Entries
    BY DEF Callback
  <2> QED BY <1>1, <2>1, <2>2, Distinct DEF SaveType
<1>3. saves' = [AbortedSaves EXCEPT ![s] = d] /\ saves[s].pc = "idle"
  BY DEF StartAdd
<1> HIDE DEF d
<1>4. /\ saves' \in [Saves -> SaveType] /\ saves'[s] = d
      /\ \A t \in Saves \ {s} : saves'[t] = AbortedSaves[t]
  BY <1>1, <1>2, <1>3
<1>5. /\ form' \in FormType /\ form'.ctl = s /\ form'.callback = None
      /\ form'.seq = form.seq /\ form'.text = form.text
  BY <1>1 DEF StartAdd, FormType
<1> QED BY <1>2, <1>3, <1>4, <1>5

\* A new panel.
LEMMA Mounting ==
  ASSUME TypeOK, NEW mode \in Modes, NEW item \in Items \cup {None}, Remount(mode, item),
         panel.key + 1 \in Keys
  PROVE  /\ panel' \in PanelType /\ panel'.mode = mode /\ panel'.last = mode
         /\ panel'.key = panel.key + 1
         /\ drawer' = "open" /\ dialog' = "none"
         /\ form' \in FormType /\ form'.text = 0
         /\ att' \in AttType /\ \A k \in Kinds : att'[k].pc # "flight"
<1>1. att \in AttType
  BY Types
<1> QED BY <1>1, Fresh, StoppedRequests DEF Remount, PanelType

\* A panel that slides out.
LEMMA Sliding ==
  ASSUME TypeOK, NEW f \in FormType, ClosePanel(f)
  PROVE  /\ panel' \in PanelType /\ panel'.mode = "closed" /\ panel'.last = panel.last
         /\ panel'.key = panel.key /\ panel'.item = panel.item
         /\ drawer' \in {"hidden", "closing"} /\ (drawer' = "hidden" <=> drawer = "hidden")
         /\ form' \in FormType /\ form'.text = 0 /\ form'.callback = f.callback
         /\ form'.seq = f.seq /\ form'.ctl = f.ctl
<1>1. panel \in PanelType /\ drawer \in {"hidden", "open", "closing"}
  BY Types
<1> QED BY <1>1, ResetForm DEF ClosePanel, PanelType

-----------------------------------------------------------------------------
(* The saves and what the panel knows of them, by the way a step treats     *)
(* them.                                                                   *)

\* A step that leaves the saves, the locks and the key alone keeps SaveInv,
\* unless it opens the dialog about the period.
LEMMA SavesKept ==
  ASSUME SaveInv, saves' = saves, panel'.key = panel.key,
         form'.ctl = form.ctl, form'.seq = form.seq,
         dialog' = "period" => dialog = "period"
  PROVE  SaveInv'
<1>1. KeyBound' /\ SaveKeys' /\ Shapes' /\ OnePost' /\ OneAdditionAtATime'
  BY DEF SaveInv, KeyBound, SaveKeys, Shapes, SaveShape, Loop, OnePost, OneAdditionAtATime,
         Done, Disturbed, Stopped
<1>2. Controlled' /\ AskedBefore'
  BY DEF SaveInv, Controlled, AskedBefore, Underway, Mine, Disturbed, Stopped, CreatePending
<1> QED BY <1>1, <1>2 DEF SaveInv

\* A click that mounts a new panel.
LEMMA SavesOfOthers ==
  ASSUME TypeOK, SaveInv, saves' = saves, panel.key < MaxKey, panel'.key = panel.key + 1,
         dialog' = "none"
  PROVE  SaveInv'
<1>1. /\ panel.key \in Nat /\ saves \in [Saves -> SaveType]
      /\ \A s \in Saves : saves[s].key \in Nat
  BY Types, FewSaves, Distinct DEF PanelType, SaveType, Keys
<1>2. Cardinality(Done) \in Nat
  BY FewSaves DEF Done
<1>3. KeyBound'
  BY <1>1, <1>2, Distinct DEF KeyBound, Done
<1>4. SaveKeys'
  BY <1>1 DEF SaveInv, SaveKeys
<1>5. Shapes' /\ OnePost' /\ OneAdditionAtATime'
  BY DEF SaveInv, Shapes, SaveShape, Loop, OnePost, OneAdditionAtATime, Disturbed, Stopped
<1>6. ASSUME NEW s \in Saves, Underway(s)' PROVE ~Mine(s)'
  <2>1. saves[s].key <= panel.key
    BY <1>6 DEF SaveInv, SaveKeys, Underway
  <2> QED BY <1>1, <2>1 DEF Mine
<1>7. Controlled' /\ AskedBefore'
  BY <1>6 DEF Controlled, AskedBefore
<1> QED BY <1>3, <1>4, <1>5, <1>7 DEF SaveInv

\* Closing or discarding aborts the save whose controller the panel has.
LEMMA SavesAborted ==
  ASSUME TypeOK, SaveInv, saves' = AbortedSaves, panel'.key = panel.key,
         form'.ctl = None, dialog' # "period"
  PROVE  SaveInv'
<1>1. saves \in [Saves -> SaveType] /\ None \notin Saves
  BY Types, Distinct
<1>2. ASSUME NEW s \in Saves
      PROVE  /\ saves'[s].pc = saves[s].pc /\ saves'[s].key = saves[s].key
             /\ saves'[s].end = saves[s].end /\ saves'[s].files = saves[s].files
             /\ saves'[s].todo = saves[s].todo /\ saves'[s].stored = saves[s].stored
             /\ saves'[s].failed = saves[s].failed
             /\ saves[s].aborted => saves'[s].aborted
             /\ s # form.ctl => saves'[s] = saves[s]
             /\ s = form.ctl => saves'[s].aborted
  <2>1. saves[s] \in SaveType /\ saves'[s] = [saves[s] EXCEPT !.aborted = saves'[s].aborted]
    BY <1>1, Aborting
  <2>2. /\ s # form.ctl => saves'[s] = saves[s]
        /\ s = form.ctl => saves'[s].aborted
    BY Aborting
  <2>3. saves[s].aborted => saves'[s].aborted
    BY <2>2
  <2> HIDE DEF SaveType
  <2>4. /\ saves'[s].pc = saves[s].pc /\ saves'[s].key = saves[s].key
        /\ saves'[s].end = saves[s].end /\ saves'[s].files = saves[s].files
        /\ saves'[s].todo = saves[s].todo /\ saves'[s].stored = saves[s].stored
        /\ saves'[s].failed = saves[s].failed
    <3> DEFINE b == saves'[s].aborted
    <3>1. saves'[s] = [saves[s] EXCEPT !.aborted = b]
      BY <2>1
    <3> HIDE DEF b
    <3> QED BY <2>1, <3>1 DEF SaveType
  <2> QED BY <2>2, <2>3, <2>4
<1>3. Done' = Done
  BY <1>2 DEF Done
<1>4. KeyBound' /\ SaveKeys' /\ OnePost'
  BY <1>2, <1>3 DEF SaveInv, KeyBound, SaveKeys, OnePost
<1>5. Shapes'
  BY <1>2 DEF SaveInv, Shapes, SaveShape, Loop
<1>6. \A key : Disturbed(key)' <=> Disturbed(key)
  BY <1>2 DEF Disturbed, Stopped
<1>7. OneAdditionAtATime'
  BY <1>2 DEF SaveInv, OneAdditionAtATime, Disturbed, Stopped
<1>8. Controlled'
  <2> SUFFICES ASSUME ~Disturbed(panel.key)', NEW s \in Saves,
                      Mine(s)', Underway(s)', ~saves'[s].aborted
               PROVE  FALSE
    BY DEF Controlled
  <2>1. s # form.ctl /\ saves'[s] = saves[s]
    BY <1>2
  <2>2. ~Disturbed(panel.key)
    BY <1>2 DEF Disturbed, Stopped
  <2> QED BY <2>1, <2>2 DEF SaveInv, Controlled, Mine, Underway
<1>9. AskedBefore'
  BY DEF AskedBefore
<1> QED BY <1>4, <1>5, <1>7, <1>8, <1>9 DEF SaveInv

\* The start of an addition: nothing else of this panel is sent or uploads,
\* unless a late rejection has disturbed it.
LEMMA SaveStarts ==
  ASSUME TypeOK, SaveInv, NEW s \in Saves, NEW data \in Callback, StartAdd(s, data),
         panel'.key = panel.key, ~CreatePending,
         ~Disturbed(panel.key) =>
            \A t \in Saves : Mine(t) /\ saves[t].pc = "upload" => saves[t].aborted,
         dialog' # "period"
  PROVE  SaveInv'
<1>1. /\ saves' \in [Saves -> SaveType]
      /\ saves[s].pc = "idle" /\ saves'[s].pc = "create"
      /\ saves'[s].key = panel.key /\ saves'[s].end = "none"
      /\ saves'[s].todo = saves'[s].files /\ saves'[s].stored = {} /\ saves'[s].failed = 0
      /\ form'.ctl = s
  BY Starting
<1>2. ASSUME NEW t \in Saves, t # s
      PROVE  /\ saves'[t].pc = saves[t].pc /\ saves'[t].key = saves[t].key
             /\ saves'[t].end = saves[t].end /\ saves'[t].files = saves[t].files
             /\ saves'[t].todo = saves[t].todo /\ saves'[t].stored = saves[t].stored
             /\ saves'[t].failed = saves[t].failed
             /\ saves[t].aborted => saves'[t].aborted
  <2> DEFINE b == AbortedSaves[t].aborted
  <2>1. /\ saves'[t] = AbortedSaves[t] /\ saves[t] \in SaveType
        /\ AbortedSaves[t] = [saves[t] EXCEPT !.aborted = b]
    BY <1>2, Starting, Aborting, Types
  <2>2. saves[t].aborted => b
    BY Aborting
  <2> HIDE DEF b
  <2>3. AbortedSaves[t].aborted = b
    BY <2>1 DEF SaveType
  <2> QED BY <2>1, <2>2, <2>3 DEF SaveType
<1>3. panel.key \in Nat
  BY Types, FewSaves, Distinct DEF PanelType, Keys
<1>4. Done' = Done
  BY <1>1, <1>2 DEF Done
<1>5. KeyBound' /\ SaveKeys'
  BY <1>1, <1>2, <1>3, <1>4 DEF SaveInv, KeyBound, SaveKeys
<1>6. Shapes'
  BY <1>1, <1>2 DEF SaveInv, Shapes, SaveShape, Loop
<1>7. \A key : Disturbed(key) => Disturbed(key)'
  BY <1>1, <1>2 DEF Disturbed, Stopped, SaveInv, Shapes, SaveShape
<1>8. \A t \in Saves : t # s /\ saves'[t].key = panel.key => saves'[t].pc # "create"
  BY <1>2 DEF CreatePending, Mine
<1>9. OnePost'
  BY <1>1, <1>2, <1>8 DEF SaveInv, OnePost
<1>10. OneAdditionAtATime'
  <2> SUFFICES ASSUME NEW r \in Saves, NEW t \in Saves, r # t,
                      saves'[r].key = saves'[t].key, saves'[r].pc = "create"
               PROVE  /\ saves'[t].pc # "create"
                      /\ \/ saves'[t].pc = "upload" => saves'[t].aborted
                         \/ Disturbed(saves[r].key)'
    BY DEF OneAdditionAtATime, Disturbed, Stopped
  <2>1. saves'[t].pc # "create"
    BY <1>9 DEF OnePost
  <2>2. CASE r = s
    BY <1>1, <1>2, <1>7, <2>1, <2>2 DEF Mine, Disturbed, Stopped
  <2>3. CASE r # s
    <3>1. saves'[r].key = saves[r].key /\ saves[r].pc = "create"
      BY <1>2, <2>3
    <3>2. CASE t = s
      BY <1>1, <2>1, <3>2
    <3>3. CASE t # s
      <4>1. Disturbed(saves[r].key) => Disturbed(saves[r].key)'
        BY <1>7, <3>1 DEF Disturbed, Stopped
      <4> QED BY <1>2, <2>1, <2>3, <3>1, <3>3, <4>1 DEF SaveInv, OneAdditionAtATime
    <3> QED BY <3>2, <3>3
  <2> QED BY <2>2, <2>3
<1>11. Controlled'
  <2> SUFFICES ASSUME ~Disturbed(panel.key)', NEW t \in Saves, t # s,
                      Mine(t)', Underway(t)', ~saves'[t].aborted
               PROVE  FALSE
    BY <1>1 DEF Controlled
  <2>1. Mine(t) /\ saves[t].pc # "create" /\ ~saves[t].aborted /\ Underway(t)
    BY <1>2, <1>8 DEF Mine, Underway
  <2>2. ~Disturbed(panel.key)
    BY <1>7 DEF Disturbed, Stopped
  <2> QED BY <2>1, <2>2 DEF Underway
<1>12. AskedBefore'
  BY DEF AskedBefore
<1> QED BY <1>5, <1>6, <1>9, <1>10, <1>11, <1>12 DEF SaveInv

\* The end of a save, in whatever panel it was sent from.
LEMMA SaveEnds ==
  ASSUME TypeOK, SaveInv, NEW s \in Saves, NEW stored \in SUBSET Entries,
         NEW end \in {"created", "partly", "failed", "stopped"}, End(s, end, stored),
         Underway(s), end # "stopped" => saves[s].pc = "create" \/ ~saves[s].aborted,
         end = "created" => stored = saves[s].files,
         end = "partly" => stored # saves[s].files,
         \/ /\ panel'.key = panel.key
            /\ dialog' = dialog
            /\ Mine(s) => form'.ctl = None
            /\ ~Mine(s) => form'.ctl = form.ctl /\ form'.seq = form.seq
         \/ panel'.key = panel.key + 1 /\ dialog' = "none"
  PROVE  SaveInv'
<1>1. /\ saves' \in [Saves -> SaveType]
      /\ \A t \in Saves \ {s} : saves'[t] = saves[t]
      /\ saves'[s].pc = "done" /\ saves'[s].end = end /\ saves'[s].stored = stored
      /\ saves'[s].key = saves[s].key /\ saves'[s].files = saves[s].files
  BY Ending
<1>2. /\ panel.key \in Nat /\ panel'.key \in Nat /\ panel'.key <= panel.key + 1
      /\ panel.key <= panel'.key /\ \A t \in Saves : saves[t].key \in Nat
  BY Types, FewSaves, Distinct DEF PanelType, SaveType, Keys
<1>3. KeyBound'
  <2>1. Done' = Done \cup {s} /\ s \notin Done
    BY <1>1 DEF Done, Underway
  <2>2. IsFiniteSet(Done) /\ Cardinality(Done) \in Nat
    BY FewSaves DEF Done
  <2>3. Cardinality(Done') = Cardinality(Done) + 1
    BY <2>1, <2>2, FS_AddElement
  <2> QED BY <1>2, <2>2, <2>3, Distinct DEF SaveInv, KeyBound
<1>4. SaveKeys'
  BY <1>1, <1>2 DEF SaveInv, SaveKeys, Underway
<1>5. Shapes'
  BY <1>1 DEF SaveInv, Shapes, SaveShape, Loop
<1>6. \A key : Disturbed(key) => Disturbed(key)'
  BY <1>1 DEF SaveInv, Shapes, SaveShape, Disturbed, Stopped, Underway
<1>7. OnePost'
  BY <1>1 DEF SaveInv, OnePost
<1>8. OneAdditionAtATime'
  <2> SUFFICES ASSUME NEW r \in Saves, NEW t \in Saves, r # t,
                      saves'[r].key = saves'[t].key, saves'[r].pc = "create"
               PROVE  /\ saves'[t].pc # "create"
                      /\ \/ saves'[t].pc = "upload" => saves'[t].aborted
                         \/ Disturbed(saves[r].key)'
    BY DEF OneAdditionAtATime, Disturbed, Stopped
  <2>1. r # s /\ saves'[r] = saves[r]
    BY <1>1
  <2>2. CASE t = s
    BY <1>1, <2>2
  <2>3. CASE t # s
    <3>1. Disturbed(saves[r].key) => Disturbed(saves[r].key)'
      BY <1>6, <2>1 DEF Disturbed, Stopped
    <3> QED BY <1>1, <2>1, <2>3, <3>1 DEF SaveInv, OneAdditionAtATime
  <2> QED BY <2>2, <2>3
<1>9. CASE panel'.key = panel.key + 1 /\ dialog' = "none"
  <2>1. ASSUME NEW t \in Saves, Underway(t)' PROVE ~Mine(t)'
    <3>1. t # s /\ saves'[t] = saves[t] /\ saves[t].key <= panel.key
      BY <1>1, <2>1 DEF SaveInv, SaveKeys, Underway
    <3> QED BY <1>2, <1>9, <3>1 DEF Mine
  <2>2. Controlled' /\ AskedBefore'
    BY <1>9, <2>1 DEF Controlled, AskedBefore
  <2> QED BY <1>3, <1>4, <1>5, <1>7, <1>8, <2>2 DEF SaveInv
<1>10. CASE /\ panel'.key = panel.key
            /\ dialog' = dialog
            /\ Mine(s) => form'.ctl = None
            /\ ~Mine(s) => form'.ctl = form.ctl /\ form'.seq = form.seq
  <2>1. Disturbed(panel.key) => Disturbed(panel.key)'
    BY <1>6, <1>10 DEF Disturbed, Stopped
  <2>2. Controlled'
    <3> SUFFICES ASSUME ~Disturbed(panel.key)', NEW t \in Saves,
                        Mine(t)', Underway(t)', ~saves'[t].aborted
                 PROVE  /\ form'.ctl = t
                        /\ saves'[t].pc = "upload" => form'.seq
      BY DEF Controlled
    <3>1. t # s /\ saves'[t] = saves[t] /\ Mine(t) /\ Underway(t) /\ ~saves[t].aborted
      BY <1>1, <1>10 DEF Mine, Underway
    <3>2. form.ctl = t /\ (saves[t].pc = "upload" => form.seq)
      BY <2>1, <3>1 DEF SaveInv, Controlled
    <3>3. CASE ~Mine(s)
      BY <1>10, <3>1, <3>2, <3>3
    <3>4. CASE Mine(s)
      <4>1. end # "stopped"
        BY <1>1, <1>10, <3>4 DEF Disturbed, Stopped, Mine
      <4>2. CASE saves[s].pc = "create"
        BY <2>1, <3>1, <3>4, <4>2 DEF SaveInv, OnePost, OneAdditionAtATime, Mine, Underway
      <4>3. CASE saves[s].pc = "upload"
        BY <2>1, <3>1, <3>2, <3>4, <4>1, <4>3 DEF SaveInv, Controlled, Underway
      <4> QED BY <4>2, <4>3 DEF Underway
    <3> QED BY <3>3, <3>4
  <2>3. AskedBefore'
    <3> SUFFICES ASSUME dialog' = "period"
                 PROVE  /\ ~CreatePending'
                        /\ ~Disturbed(panel.key)' =>
                             \A t \in Saves : Mine(t)' /\ saves'[t].pc = "upload"
                                                => saves'[t].aborted
      BY DEF AskedBefore
    <3>1. dialog = "period"
      BY <1>10
    <3>2. \A t \in Saves : Mine(t)' /\ saves'[t].pc \in {"create", "upload"}
                             => Mine(t) /\ saves'[t] = saves[t]
      BY <1>1, <1>10 DEF Mine
    <3> QED BY <2>1, <3>1, <3>2 DEF SaveInv, AskedBefore, CreatePending
  <2> QED BY <1>3, <1>4, <1>5, <1>7, <1>8, <2>2, <2>3 DEF SaveInv
<1> QED BY <1>9, <1>10

\* A save that goes on: to its first file, or to the next one.
LEMMA SaveGoesOn ==
  ASSUME TypeOK, SaveInv, NEW s \in Saves, Underway(s),
         saves' \in [Saves -> SaveType],
         \A t \in Saves \ {s} : saves'[t] = saves[t],
         saves'[s].pc = "upload", saves'[s].key = saves[s].key,
         saves'[s].end = saves[s].end, saves'[s].aborted = saves[s].aborted,
         ~saves[s].aborted, Loop(saves'[s]),
         panel'.key = panel.key, dialog' = dialog,
         form'.ctl = form.ctl,
         form.seq => form'.seq,
         saves[s].pc = "create" /\ Mine(s) => form'.seq
  PROVE  SaveInv'
<1>1. Done' = Done
  BY DEF Done, Underway
<1>2. KeyBound' /\ SaveKeys'
  BY <1>1 DEF SaveInv, KeyBound, SaveKeys, Underway
<1>3. Shapes'
  BY DEF SaveInv, Shapes, SaveShape, Loop, Underway
<1>4. \A key : Disturbed(key) <=> Disturbed(key)'
  BY DEF Disturbed, Stopped
<1>5. OnePost'
  BY DEF SaveInv, OnePost
<1>6. OneAdditionAtATime'
  <2> SUFFICES ASSUME NEW r \in Saves, NEW t \in Saves, r # t,
                      saves'[r].key = saves'[t].key, saves'[r].pc = "create"
               PROVE  /\ saves'[t].pc # "create"
                      /\ \/ saves'[t].pc = "upload" => saves'[t].aborted
                         \/ Disturbed(saves[r].key)'
    BY DEF OneAdditionAtATime, Disturbed, Stopped
  <2>1. r # s /\ saves'[r] = saves[r]
    OBVIOUS
  <2>2. Disturbed(saves[r].key) => Disturbed(saves[r].key)'
    BY <1>4, <2>1 DEF Disturbed, Stopped
  <2>3. CASE t = s /\ saves[s].pc = "create"
    BY <2>1, <2>3 DEF SaveInv, OnePost
  <2>4. CASE t # s \/ saves[s].pc = "upload"
    BY <2>1, <2>2, <2>4 DEF SaveInv, OneAdditionAtATime
  <2> QED BY <2>3, <2>4 DEF Underway
<1>7. Disturbed(panel.key) <=> Disturbed(panel.key)'
  BY <1>4 DEF Disturbed, Stopped
<1>8. Controlled'
  <2> SUFFICES ASSUME ~Disturbed(panel.key)', NEW t \in Saves,
                      Mine(t)', Underway(t)', ~saves'[t].aborted
               PROVE  /\ form'.ctl = t
                      /\ saves'[t].pc = "upload" => form'.seq
    BY DEF Controlled
  <2>1. Mine(t) /\ Underway(t) /\ ~saves[t].aborted
    BY DEF Mine, Underway
  <2>2. form.ctl = t /\ (saves[t].pc = "upload" => form.seq)
    BY <1>7, <2>1 DEF SaveInv, Controlled
  <2>3. CASE t = s
    BY <2>1, <2>2, <2>3 DEF Underway
  <2>4. CASE t # s
    BY <2>2, <2>4
  <2> QED BY <2>3, <2>4
<1>9. AskedBefore'
  <2> SUFFICES ASSUME dialog' = "period"
               PROVE  /\ ~CreatePending'
                      /\ ~Disturbed(panel.key)' =>
                           \A t \in Saves : Mine(t)' /\ saves'[t].pc = "upload"
                                              => saves'[t].aborted
    BY DEF AskedBefore
  <2>1. /\ ~CreatePending
        /\ ~Disturbed(panel.key) =>
             \A t \in Saves : Mine(t) /\ saves[t].pc = "upload" => saves[t].aborted
    BY DEF SaveInv, AskedBefore
  <2>2. Mine(s) => saves[s].pc = "upload"
    BY <2>1 DEF CreatePending, Underway
  <2> QED BY <1>7, <2>1, <2>2 DEF CreatePending, Mine
<1> QED BY <1>2, <1>3, <1>5, <1>6, <1>8, <1>9 DEF SaveInv

-----------------------------------------------------------------------------
(* Opening, typing, choosing.                                              *)

\* What every step of the user may rely on.
LEMMA Facts ==
  ASSUME IInv
  PROVE  /\ TypeOK /\ Layers /\ RequestsOfTheScreen /\ SaveInv
         /\ panel \in PanelType /\ form \in FormType /\ att \in AttType
         /\ saves \in [Saves -> SaveType]
         /\ drawer \in {"hidden", "open", "closing"}
         /\ dialog \in {"none", "discard", "period", "attachment"}
         /\ update \in (0 .. MaxEdits) \cup {None} /\ edits \in 0 .. MaxEdits
         /\ panel.key \in Nat /\ None \notin Saves /\ MaxEdits \in Nat
  BY Types, FewSaves, Distinct DEF IInv, PanelType, Keys

\* handleAddItem.
LEMMA AddItemStep ==
  ASSUME IInv, AddItem PROVE IInv'
<1> USE Facts
<1>1. /\ panel' \in PanelType /\ panel'.mode = "add" /\ panel'.last = "add"
      /\ panel'.key = panel.key
  <2> DEFINE p1 == [panel EXCEPT !.mode = "add"]
             p2 == [p1 EXCEPT !.last = "add"]
             p3 == [p2 EXCEPT !.item = None]
  <2>1. panel' = p3
    BY DEF AddItem
  <2>2. p1 \in PanelType /\ p1.mode = "add" /\ p1.key = panel.key
    BY DEF PanelType, Modes
  <2> HIDE DEF p1
  <2>3. p2 \in PanelType /\ p2.mode = "add" /\ p2.last = "add" /\ p2.key = panel.key
    BY <2>2 DEF PanelType, Modes
  <2> HIDE DEF p2
  <2>4. p3 \in PanelType /\ p3.mode = "add" /\ p3.last = "add" /\ p3.key = panel.key
    BY <2>3 DEF PanelType, Modes
  <2> HIDE DEF p3
  <2> QED BY <2>1, <2>4
<1>2. TypeOK'
  BY <1>1, Types DEF AddItem, TypeOK, PanelType
<1>3. Layers'
  BY <1>1 DEF AddItem, RowsClickable, Layers
<1>4. RequestsOfTheScreen'
  BY DEF AddItem, RowsClickable, RequestsOfTheScreen
<1>5. SaveInv'
  BY <1>1, SavesKept DEF AddItem, RowsClickable
<1> QED BY <1>2, <1>3, <1>4, <1>5 DEF IInv

\* handleItemClick and handleEditItem.
LEMMA OpenItemStep ==
  ASSUME IInv, NEW mode \in {"view", "edit"}, NEW i \in Items, OpenItem(mode, i) PROVE IInv'
<1> USE Facts
<1>1. panel.key < MaxKey /\ Remount(mode, i) /\ UNCHANGED <<saves, update, edits>>
  BY DEF OpenItem
<1>2. panel.key + 1 \in Keys
  BY <1>1, FewSaves, Distinct DEF Keys
<1>3. /\ panel' \in PanelType /\ panel'.mode = mode /\ panel'.last = mode
      /\ panel'.key = panel.key + 1
      /\ drawer' = "open" /\ dialog' = "none"
      /\ form' \in FormType
      /\ att' \in AttType /\ \A k \in Kinds : att'[k].pc # "flight"
  BY <1>1, <1>2, Mounting DEF Modes
<1>4. TypeOK'
  BY <1>1, <1>3 DEF TypeOK, PanelType, FormType, AttType, SaveType
<1>5. Layers'
  BY <1>3 DEF Layers
<1>6. RequestsOfTheScreen'
  BY <1>3 DEF RequestsOfTheScreen
<1>7. SaveInv'
  BY <1>1, <1>3, SavesOfOthers
<1> QED BY <1>4, <1>5, <1>6, <1>7 DEF IInv

\* A step that changes only the input, the locks of the area, its requests and
\* the dialog, in the panel that takes clicks or while a dialog is open.
LEMMA InputStep ==
  ASSUME IInv, UNCHANGED <<panel, drawer, saves>>,
         form' \in FormType, form'.ctl = form.ctl, form'.seq = form.seq,
         drawer # "open" => form'.text = form.text,
         att' \in AttType, dialog' \in {"none", "discard", "period", "attachment"},
         update' \in (0 .. MaxEdits) \cup {None}, edits' \in 0 .. MaxEdits,
         dialog' # dialog => dialog' # "period",
         dialog' # dialog /\ dialog' = "attachment" => Mode = "edit" /\ drawer # "hidden",
         dialog' = "period" => form'.callback = form.callback,
         \A k \in Kinds : att'[k].pc = "flight" =>
             att[k] = att'[k] \/ (drawer # "hidden" /\ Mode = "edit" /\ att'[k].item = panel.item)
  PROVE  IInv'
<1> USE Facts
<1>1. TypeOK'
  BY DEF TypeOK, PanelType, FormType, AttType, SaveType
<1>2. Layers'
  BY DEF Layers, Mode
<1>3. RequestsOfTheScreen'
  BY DEF RequestsOfTheScreen, Mode
<1>4. SaveInv'
  BY SavesKept
<1> QED BY <1>1, <1>2, <1>3, <1>4 DEF IInv

\* Typing into a field.
LEMMA TypeStep ==
  ASSUME IInv, Type PROVE IInv'
<1> USE Facts
<1>1. /\ form' = [form EXCEPT !.text = edits + 1] /\ edits' = edits + 1 /\ edits < MaxEdits
      /\ drawer = "open" /\ UNCHANGED <<panel, drawer, dialog, att, saves, update>>
  BY DEF Type, Enter, NextEntry, Clickable
<1>2. edits' \in 0 .. MaxEdits
  BY <1>1
<1>3. /\ form' \in FormType /\ form'.ctl = form.ctl /\ form'.seq = form.seq
      /\ form'.callback = form.callback
  BY <1>1, <1>2 DEF FormType
<1> QED BY <1>1, <1>2, <1>3, InputStep

\* Choosing a file.
LEMMA ChooseFileStep ==
  ASSUME IInv, ChooseFile PROVE IInv'
<1> USE Facts
<1>1. drawer = "open" /\ UNCHANGED <<panel, drawer, dialog, saves, update>>
  BY DEF ChooseFile, Clickable
<1>2. CASE AddArea /\ Enter /\ form' = [form EXCEPT !.files = @ \cup {NextEntry}] /\ att' = att
  <2>1. edits' \in 0 .. MaxEdits /\ NextEntry \in Entries
    BY <1>2 DEF Enter, NextEntry, Entries
  <2>2. /\ form' \in FormType /\ form'.ctl = form.ctl /\ form'.seq = form.seq
        /\ form'.callback = form.callback /\ form'.text = form.text
    BY <1>2, <2>1 DEF FormType
  <2> QED BY <1>1, <1>2, <2>1, <2>2, InputStep
<1>3. CASE /\ EditArea /\ form' = [form EXCEPT !.busy["upload"] = TRUE]
           /\ att' = Requested("upload") /\ edits' = edits
  <2>1. /\ form' \in FormType /\ form'.ctl = form.ctl /\ form'.seq = form.seq
        /\ form'.callback = form.callback /\ form'.text = form.text
    BY <1>3 DEF FormType, Kinds
  <2>2. Mode = "edit"
    BY <1>3 DEF EditArea, AreaContent, CanModify, Mode, PanelType, Modes
  <2>3. /\ att' \in AttType
        /\ \A k \in Kinds : att'[k] = att[k] \/ att'[k].item = panel.item
    BY <1>3 DEF Requested, AttType, PanelType
  <2> QED BY <1>1, <1>3, <2>1, <2>2, <2>3, InputStep
<1> QED BY <1>2, <1>3 DEF ChooseFile

\* Taking a chosen file back.
LEMMA RemoveFileStep ==
  ASSUME IInv, NEW f \in form.files, RemoveFile(f) PROVE IInv'
<1> USE Facts
<1>1. /\ form' = [form EXCEPT !.files = @ \ {f}]
      /\ UNCHANGED <<panel, drawer, dialog, att, saves, update, edits>>
  BY DEF RemoveFile
<1>2. /\ form' \in FormType /\ form'.ctl = form.ctl /\ form'.seq = form.seq
      /\ form'.callback = form.callback /\ form'.text = form.text
  BY <1>1 DEF FormType
<1> QED BY <1>1, <1>2, InputStep

\* Asking for the deletion of a file, and the dialog's answer.
LEMMA DeleteSteps ==
  ASSUME IInv, AskDelete \/ ConfirmDelete PROVE IInv'
<1> USE Facts
<1>1. CASE AskDelete
  <2>1. Mode = "edit" /\ drawer # "hidden"
    BY <1>1 DEF AskDelete, Clickable, EditArea, AreaContent, CanModify, Mode, PanelType, Modes
  <2> QED BY <1>1, <2>1, InputStep DEF AskDelete
<1>2. CASE ConfirmDelete
  <2>1. /\ Mode = "edit" /\ drawer # "hidden" /\ dialog' = "none"
        /\ UNCHANGED <<panel, drawer, saves, update, edits>>
    BY <1>2 DEF ConfirmDelete, Layers
  <2>2. CASE UNCHANGED <<form, att>>
    BY <2>1, <2>2, InputStep
  <2>3. CASE form' = [form EXCEPT !.busy["delete"] = TRUE] /\ att' = Requested("delete")
    <3>1. /\ form' \in FormType /\ form'.ctl = form.ctl /\ form'.seq = form.seq
          /\ form'.text = form.text
      BY <2>3 DEF FormType, Kinds
    <3>2. /\ att' \in AttType
          /\ \A k \in Kinds : att'[k] = att[k] \/ att'[k].item = panel.item
      BY <2>3 DEF Requested, AttType, PanelType
    <3> QED BY <2>1, <3>1, <3>2, InputStep
  <2> QED BY <1>2, <2>2, <2>3 DEF ConfirmDelete
<1> QED BY <1>1, <1>2

\* The answer to a request for an attachment.
LEMMA AttachmentAnswerStep ==
  ASSUME IInv, NEW k \in Kinds, AttachmentAnswer(k) PROVE IInv'
<1> USE Facts
<1>1. /\ att' = [att EXCEPT ![k] = Idle] /\ form' = [form EXCEPT !.busy[k] = FALSE]
      /\ UNCHANGED <<panel, drawer, dialog, saves, update, edits>>
  BY DEF AttachmentAnswer
<1>2. /\ form' \in FormType /\ form'.ctl = form.ctl /\ form'.seq = form.seq
      /\ form'.callback = form.callback /\ form'.text = form.text
  BY <1>1 DEF FormType
<1>3. att' \in AttType /\ \A j \in Kinds : att'[j].pc = "flight" => att'[j] = att[j]
  BY <1>1 DEF Idle, AttType
<1> QED BY <1>1, <1>2, <1>3, InputStep

\* Dialogs that are dismissed.
LEMMA DismissSteps ==
  ASSUME IInv, CancelPeriod \/ DiscardCancel PROVE IInv'
<1> USE Facts
<1>1. CASE DiscardCancel
  BY <1>1, InputStep DEF DiscardCancel
<1>2. CASE CancelPeriod
  <2>1. /\ form' \in FormType /\ form'.ctl = form.ctl /\ form'.seq = form.seq
        /\ form'.text = form.text
    BY <1>2 DEF CancelPeriod, FormType
  <2> QED BY <1>2, <2>1, InputStep DEF CancelPeriod
<1> QED BY <1>1, <1>2

-----------------------------------------------------------------------------
(* Saving and closing.                                                     *)

\* handleAddModeSubmit and handleItemSubmit, from a panel that waits for no
\* POST and uploads nothing.
LEMMA SendStep ==
  ASSUME IInv, NEW data \in Callback, Send(data), UNCHANGED <<panel, drawer, att, edits>>,
         dialog' = "none",
         ~CreatePending,
         ~Disturbed(panel.key) =>
            \A t \in Saves : Mine(t) /\ saves[t].pc = "upload" => saves[t].aborted
  PROVE  IInv'
<1> USE Facts
<1>1. RequestsOfTheScreen'
  BY DEF RequestsOfTheScreen, Mode
<1>2. ASSUME NEW s \in Saves, StartAdd(s, data) PROVE IInv'
  <2>1. /\ saves' \in [Saves -> SaveType] /\ form' \in FormType /\ form'.text = form.text
        /\ UNCHANGED update
    BY <1>2, Starting DEF StartAdd
  <2>2. TypeOK'
    BY <2>1 DEF TypeOK, PanelType, FormType, AttType, SaveType
  <2>3. Layers'
    BY <2>1 DEF Layers, Mode
  <2>4. SaveInv'
    BY <1>2, SaveStarts
  <2> QED BY <1>1, <2>2, <2>3, <2>4 DEF IInv
<1>3. CASE StartUpdate(data)
  <2>1. /\ form' \in FormType /\ form'.ctl = form.ctl /\ form'.seq = form.seq
        /\ form'.text = form.text
        /\ update' \in 0 .. MaxEdits /\ UNCHANGED saves
    BY <1>3 DEF StartUpdate, FormType, Callback
  <2> QED BY <2>1, InputStep
<1> QED BY <1>2, <1>3 DEF Send

\* Pressing a save button: SaveDisabled has looked at the mutation and the lock.
LEMMA PressSaveStep ==
  ASSUME IInv, NEW again \in BOOLEAN, PressSave(again) PROVE IInv'
<1> USE Facts
<1> DEFINE data == [again |-> again, text |-> form.text, files |-> form.files]
<1>1. data \in Callback
  BY DEF Callback, FormType
<1>2. /\ dialog = "none" /\ drawer = "open" /\ ~CreatePending /\ ~form.seq
      /\ UNCHANGED <<panel, drawer, att, edits>>
  BY DEF PressSave, SaveButton, SaveDisabled, Clickable
<1>3. ~Disturbed(panel.key) =>
         \A t \in Saves : Mine(t) /\ saves[t].pc = "upload" => saves[t].aborted
  BY <1>2 DEF SaveInv, Controlled, Underway
<1>4. \/ Send(data) /\ dialog' = dialog
      \/ /\ dialog' = "period" /\ form' = [form EXCEPT !.callback = data]
         /\ UNCHANGED <<saves, update>>
  BY DEF PressSave
<1> HIDE DEF data
<1>5. CASE Send(data) /\ dialog' = dialog
  BY <1>1, <1>2, <1>3, <1>5, SendStep
<1>6. CASE /\ dialog' = "period" /\ form' = [form EXCEPT !.callback = data]
           /\ UNCHANGED <<saves, update>>
  <2>1. /\ form' \in FormType /\ form'.ctl = form.ctl /\ form'.seq = form.seq
        /\ form'.text = form.text /\ form'.callback = data
    BY <1>1, <1>6 DEF FormType
  <2>2. TypeOK'
    BY <1>2, <1>6, <2>1 DEF TypeOK, PanelType, FormType, AttType, SaveType
  <2>3. Layers' /\ RequestsOfTheScreen'
    BY <1>1, <1>2, <1>6, <2>1 DEF Layers, RequestsOfTheScreen, Mode
  <2>4. /\ KeyBound' /\ SaveKeys' /\ Shapes' /\ OnePost' /\ OneAdditionAtATime' /\ Controlled'
    BY <1>2, <1>6, <2>1 DEF SaveInv, KeyBound, SaveKeys, Shapes, SaveShape, Loop, OnePost,
       OneAdditionAtATime, Controlled, Done, Disturbed, Stopped, Mine, Underway
  <2>5. AskedBefore'
    BY <1>2, <1>3, <1>6 DEF AskedBefore, CreatePending, Disturbed, Stopped, Mine
  <2> QED BY <2>2, <2>3, <2>4, <2>5 DEF IInv, SaveInv
<1> QED BY <1>4, <1>5, <1>6

\* The save that was asked for before the dialog.
LEMMA ConfirmPeriodStep ==
  ASSUME IInv, ConfirmPeriod PROVE IInv'
<1> USE Facts
<1>1. /\ dialog = "period" /\ Send(form.callback) /\ dialog' = "none"
      /\ UNCHANGED <<panel, drawer, att, edits>>
  BY DEF ConfirmPeriod
<1>2. form.callback \in Callback
  BY <1>1 DEF Layers
<1>3. /\ ~CreatePending
      /\ ~Disturbed(panel.key) =>
           \A t \in Saves : Mine(t) /\ saves[t].pc = "upload" => saves[t].aborted
  BY <1>1 DEF SaveInv, AskedBefore
<1> QED BY <1>1, <1>2, <1>3, SendStep

\* Closing keeps the mode that is shown while the drawer slides out, and with
\* it the dialogs and the requests.
LEMMA ScreenCloses ==
  ASSUME IInv, NEW f \in FormType, ClosePanel(f), f.callback = form.callback,
         dialog' = dialog \/ dialog' = "none",
         att' \in AttType, \A k \in Kinds : att'[k].pc = "flight" => att'[k] = att[k]
  PROVE  Layers' /\ RequestsOfTheScreen'
<1> USE Facts
<1>1. /\ panel'.mode = "closed" /\ panel'.last = panel.last /\ panel'.item = panel.item
      /\ drawer' \in {"hidden", "closing"} /\ (drawer' = "hidden" <=> drawer = "hidden")
      /\ form'.text = 0 /\ form'.callback = form.callback
  BY Sliding
<1>2. Mode' = Mode
  BY <1>1 DEF Mode, Layers
<1> QED BY <1>1, <1>2 DEF Layers, RequestsOfTheScreen

\* The answer to the update of an item.
LEMMA UpdateAnswerStep ==
  ASSUME IInv, UpdateAnswer PROVE IInv'
<1> USE Facts
<1>1. update' = None /\ UNCHANGED <<dialog, att, saves, edits>>
  BY DEF UpdateAnswer
<1>2. CASE ClosePanel(form)
  <2>1. Layers' /\ RequestsOfTheScreen'
    BY <1>1, <1>2, ScreenCloses
  <2>2. /\ panel' \in PanelType /\ panel'.key = panel.key
        /\ drawer' \in {"hidden", "open", "closing"}
        /\ form' \in FormType /\ form'.ctl = form.ctl /\ form'.seq = form.seq
    BY <1>2, Sliding
  <2>3. TypeOK'
    BY <1>1, <2>2 DEF TypeOK, PanelType, FormType, AttType, SaveType
  <2>4. SaveInv'
    BY <1>1, <2>2, SavesKept
  <2> QED BY <2>1, <2>3, <2>4 DEF IInv
<1>3. CASE UNCHANGED <<panel, drawer, form>>
  BY <1>1, <1>3, InputStep
<1> QED BY <1>2, <1>3 DEF UpdateAnswer

\* The closing of a panel that aborts what the panel can abort.
LEMMA AbortingClose ==
  ASSUME IInv, saves' = AbortedSaves, ClosePanel(AbortSequential(form)),
         dialog' = "none", UNCHANGED <<update, edits>>,
         att' \in AttType, \A k \in Kinds : att'[k].pc = "flight" => att'[k] = att[k]
  PROVE  IInv'
<1> USE Facts
<1>1. /\ AbortSequential(form) \in FormType /\ AbortSequential(form).ctl = None
      /\ AbortSequential(form).callback = form.callback
  BY AbortForm
<1>2. Layers' /\ RequestsOfTheScreen'
  BY <1>1, ScreenCloses
<1>3. /\ panel' \in PanelType /\ panel'.key = panel.key
      /\ drawer' \in {"hidden", "open", "closing"}
      /\ form' \in FormType /\ form'.ctl = None
  BY <1>1, Sliding
<1>4. saves' \in [Saves -> SaveType]
  BY Aborting
<1>5. TypeOK'
  BY <1>3, <1>4 DEF TypeOK, PanelType, FormType, AttType, SaveType
<1>6. SaveInv'
  BY <1>3, SavesAborted
<1> QED BY <1>2, <1>5, <1>6 DEF IInv

\* handleCloseAttempt.
LEMMA CloseAttemptStep ==
  ASSUME IInv, CloseAttempt PROVE IInv'
<1> USE Facts
<1>1. dialog = "none" /\ drawer = "open" /\ UNCHANGED <<update, edits>>
  BY DEF CloseAttempt, Clickable
<1>2. CASE form.seq
  <2>1. saves' = AbortedSaves /\ ClosePanel(AbortSequential(form)) /\ UNCHANGED <<dialog, att>>
    BY <1>2 DEF CloseAttempt
  <2> QED BY <1>1, <2>1, AbortingClose
<1>3. CASE ~form.seq /\ IsDirty
  <2>1. dialog' = "discard" /\ UNCHANGED <<panel, drawer, form, att, saves>>
    BY <1>3 DEF CloseAttempt
  <2> QED BY <1>1, <2>1, InputStep
<1>4. CASE ~form.seq /\ ~IsDirty
  <2>1. att' = Cancelled(att) /\ ClosePanel(form) /\ UNCHANGED <<dialog, saves>>
    BY <1>4 DEF CloseAttempt
  <2>2. att' \in AttType /\ \A k \in Kinds : att'[k].pc # "flight"
    BY <2>1, StoppedRequests
  <2>3. Layers' /\ RequestsOfTheScreen'
    BY <2>1, <2>2, ScreenCloses
  <2>4. /\ panel' \in PanelType /\ panel'.key = panel.key
        /\ drawer' \in {"hidden", "open", "closing"}
        /\ form' \in FormType /\ form'.ctl = form.ctl /\ form'.seq = form.seq
    BY <2>1, Sliding
  <2>5. TypeOK'
    BY <1>1, <2>1, <2>2, <2>4 DEF TypeOK, PanelType, FormType, AttType, SaveType
  <2>6. SaveInv'
    BY <2>1, <2>4, SavesKept
  <2> QED BY <2>3, <2>5, <2>6 DEF IInv
<1> QED BY <1>2, <1>3, <1>4

\* handleDiscard.
LEMMA DiscardStep ==
  ASSUME IInv, Discard PROVE IInv'
<1> USE Facts
<1>1. /\ dialog' = "none" /\ att' = Cancelled(att) /\ saves' = AbortedSaves
      /\ ClosePanel(AbortSequential(form)) /\ UNCHANGED <<update, edits>>
  BY DEF Discard
<1>2. att' \in AttType /\ \A k \in Kinds : att'[k].pc # "flight"
  BY <1>1, StoppedRequests
<1> QED BY <1>1, <1>2, AbortingClose

\* The end of the slide.
LEMMA ExitedStep ==
  ASSUME IInv, Exited PROVE IInv'
<1> USE Facts
<1>1. /\ drawer = "closing" /\ drawer' = "hidden" /\ panel' = [panel EXCEPT !.item = None]
      /\ att' = Unmounted(att) /\ form' = [form EXCEPT !.callback = None]
      /\ dialog' \in {"discard", "none"} /\ UNCHANGED <<saves, update, edits>>
  BY DEF Exited, SlideEnds
<1>2. /\ panel' \in PanelType /\ panel'.key = panel.key /\ panel'.mode = panel.mode
      /\ panel'.last = panel.last
  BY <1>1 DEF PanelType
<1>3. /\ form' \in FormType /\ form'.ctl = form.ctl /\ form'.seq = form.seq
      /\ form'.text = form.text
  BY <1>1 DEF FormType
<1>4. att' \in AttType /\ \A k \in Kinds : att'[k].pc # "flight"
  BY <1>1, StoppedRequests
<1>5. TypeOK'
  BY <1>1, <1>2, <1>3, <1>4 DEF TypeOK, PanelType, FormType, AttType, SaveType
<1>6. Layers'
  BY <1>1, <1>2, <1>3 DEF Layers
<1>7. RequestsOfTheScreen'
  BY <1>4 DEF RequestsOfTheScreen
<1>8. SaveInv'
  BY <1>1, <1>2, <1>3, SavesKept
<1> QED BY <1>5, <1>6, <1>7, <1>8 DEF IInv

-----------------------------------------------------------------------------
(* The answers to the requests of an addition.                             *)

\* A save that ends and does not call the page back.
LEMMA EndsQuietly ==
  ASSUME IInv, NEW s \in Saves, NEW f \in FormType, NEW stored \in SUBSET Entries,
         NEW end \in {"created", "partly", "failed", "stopped"}, End(s, end, stored),
         Leave(s, f), UNCHANGED <<update, edits>>,
         f.callback = form.callback, f.text = form.text,
         Underway(s), end # "stopped" => saves[s].pc = "create" \/ ~saves[s].aborted,
         end = "created" => stored = saves[s].files,
         end = "partly" => stored # saves[s].files
  PROVE  IInv'
<1> USE Facts
<1>1. form' = Finish(s, f) /\ UNCHANGED <<panel, drawer, dialog, att>>
  BY DEF Leave
<1>2. /\ form' \in FormType /\ form'.text = form.text /\ form'.callback = form.callback
      /\ Mine(s) => form'.ctl = None
      /\ ~Mine(s) => form'.ctl = form.ctl /\ form'.seq = form.seq
  BY <1>1, FinishForm
<1>3. saves' \in [Saves -> SaveType]
  BY Ending
<1>4. TypeOK'
  BY <1>1, <1>2, <1>3 DEF TypeOK, PanelType, FormType, AttType, SaveType
<1>5. Layers' /\ RequestsOfTheScreen'
  BY <1>1, <1>2 DEF Layers, RequestsOfTheScreen, Mode
<1>6. SaveInv'
  BY <1>1, <1>2, SaveEnds
<1> QED BY <1>4, <1>5, <1>6 DEF IInv

\* A save that ends and calls the page back, which closes the panel shown or
\* replaces it, whichever panel the save was sent from.
LEMMA EndsWithCallback ==
  ASSUME IInv, NEW s \in Saves, NEW f \in FormType, NEW stored \in SUBSET Entries,
         NEW end \in {"created", "partly", "failed", "stopped"}, End(s, end, stored),
         AfterSubmit(s, f), UNCHANGED <<update, edits>>,
         f.callback = form.callback,
         Underway(s), end # "stopped" => saves[s].pc = "create" \/ ~saves[s].aborted,
         end = "created" => stored = saves[s].files,
         end = "partly" => stored # saves[s].files
  PROVE  IInv'
<1> USE Facts
<1>1. saves' \in [Saves -> SaveType]
  BY Ending
<1>2. CASE saves[s].again
  <2>1. Remount("add", None)
    BY <1>2 DEF AfterSubmit
  <2>2. panel.key + 1 \in Keys
    <3>1. Cardinality(Done \cup {s}) = Cardinality(Done) + 1
      BY FewSaves, FS_AddElement DEF Done, Underway
    <3>2. /\ Cardinality(Done \cup {s}) <= Cardinality(Saves)
          /\ Cardinality(Done) \in Nat /\ Cardinality(Saves) \in Nat
      BY FewSaves DEF Done
    <3> QED BY <3>1, <3>2, Distinct DEF SaveInv, KeyBound, Keys
  <2>3. /\ panel' \in PanelType /\ panel'.mode = "add" /\ panel'.last = "add"
        /\ panel'.key = panel.key + 1
        /\ drawer' = "open" /\ dialog' = "none"
        /\ form' \in FormType
        /\ att' \in AttType /\ \A k \in Kinds : att'[k].pc # "flight"
    BY <2>1, <2>2, Mounting DEF Modes
  <2>4. TypeOK'
    BY <1>1, <2>3 DEF TypeOK, PanelType, FormType, AttType, SaveType
  <2>5. Layers' /\ RequestsOfTheScreen'
    BY <2>3 DEF Layers, RequestsOfTheScreen
  <2>6. SaveInv'
    BY <2>3, SaveEnds
  <2> QED BY <2>4, <2>5, <2>6 DEF IInv
<1>3. CASE ~saves[s].again
  <2>1. ClosePanel(Finish(s, f)) /\ UNCHANGED <<dialog, att>>
    BY <1>3 DEF AfterSubmit
  <2>2. /\ Finish(s, f) \in FormType /\ Finish(s, f).callback = form.callback
        /\ Mine(s) => Finish(s, f).ctl = None
        /\ ~Mine(s) => Finish(s, f) = form
    BY FinishForm
  <2>3. Layers' /\ RequestsOfTheScreen'
    BY <2>1, <2>2, ScreenCloses
  <2>4. /\ panel' \in PanelType /\ panel'.key = panel.key
        /\ drawer' \in {"hidden", "open", "closing"} /\ form' \in FormType
        /\ Mine(s) => form'.ctl = None
        /\ ~Mine(s) => form'.ctl = form.ctl /\ form'.seq = form.seq
    BY <2>1, <2>2, Sliding
  <2>5. TypeOK'
    BY <1>1, <2>1, <2>4 DEF TypeOK, PanelType, FormType, AttType, SaveType
  <2>6. SaveInv'
    BY <2>1, <2>4, SaveEnds
  <2> QED BY <2>3, <2>5, <2>6 DEF IInv
<1> QED BY <1>2, <1>3

\* The answer to the POST.
LEMMA CreateAnswerStep ==
  ASSUME IInv, NEW s \in Saves, CreateAnswer(s) PROVE IInv'
<1> USE Facts
<1> DEFINE c == saves[s]
<1>1. c.pc = "create" /\ Underway(s) /\ UNCHANGED <<update, edits>>
  BY DEF CreateAnswer, Underway
<1>2. c \in SaveType /\ {} \in SUBSET Entries
  OBVIOUS
<1>3. CASE End(s, "failed", {}) /\ Leave(s, form)
  BY <1>1, <1>2, <1>3, EndsQuietly
<1>4. CASE c.files = {} /\ End(s, "created", {}) /\ AfterSubmit(s, form)
  BY <1>1, <1>2, <1>4, EndsWithCallback
<1>5. CASE c.files # {} /\ c.aborted /\ End(s, "stopped", {}) /\ Leave(s, Unlock(form))
  BY <1>1, <1>2, <1>5, EndsQuietly, UnlockForm
<1>6. CASE /\ c.files # {} /\ ~c.aborted
           /\ saves' = [saves EXCEPT ![s].pc = "upload"]
           /\ form' = IF Mine(s) THEN [form EXCEPT !.seq = TRUE] ELSE form
           /\ UNCHANGED <<panel, drawer, dialog, att>>
  <2> DEFINE d == [c EXCEPT !.pc = "upload"]
  <2>1. saves' = [saves EXCEPT ![s] = d]
    BY <1>6
  <2>2. /\ d \in SaveType /\ d.pc = "upload" /\ d.key = c.key /\ d.end = c.end
        /\ d.aborted = c.aborted /\ d.files = c.files /\ d.todo = c.todo
        /\ d.stored = c.stored /\ d.failed = c.failed
    <3> HIDE DEF c
    <3> QED BY <1>2 DEF SaveType
  <2>3. c.todo = c.files /\ c.stored = {} /\ c.failed = 0
    BY <1>1 DEF SaveInv, Shapes, SaveShape
  <2>4. Loop(d)
    <3>1. c.files \in SUBSET Entries
      BY <1>2 DEF SaveType
    <3>2. Cardinality(c.files) \in Nat /\ Cardinality(c.files) <= MaxEdits
      BY <3>1, FewEntries
    <3> HIDE DEF c, d
    <3> QED BY <1>6, <2>2, <2>3, <3>2 DEF Loop
  <2> HIDE DEF d
  <2>5. /\ saves' \in [Saves -> SaveType] /\ saves'[s] = d
        /\ \A t \in Saves \ {s} : saves'[t] = saves[t]
    BY <2>1, <2>2
  <2>6. /\ form' \in FormType /\ form'.ctl = form.ctl /\ form'.text = form.text
        /\ form'.callback = form.callback
        /\ ~Mine(s) => form'.seq = form.seq
        /\ Mine(s) => form'.seq
    BY <1>6 DEF FormType
  <2>7. TypeOK'
    BY <1>1, <1>6, <2>5, <2>6 DEF TypeOK, PanelType, FormType, AttType, SaveType
  <2>8. Layers' /\ RequestsOfTheScreen'
    BY <1>6, <2>6 DEF Layers, RequestsOfTheScreen, Mode
  <2>9. SaveInv'
    BY <1>1, <1>6, <2>2, <2>4, <2>5, <2>6, SaveGoesOn
  <2> QED BY <2>7, <2>8, <2>9 DEF IInv
<1> QED BY <1>3, <1>4, <1>5, <1>6 DEF CreateAnswer

\* One file less, stored or failed.
LEMMA FileAnswered ==
  ASSUME TypeOK, NEW s \in Saves, Loop(saves[s]), NEW ok \in BOOLEAN
  PROVE  LET stored == saves[s].stored \cup (IF ok THEN {Current(s)} ELSE {})
             todo == saves[s].todo \ {Current(s)}
         IN  /\ stored \in SUBSET Entries /\ todo \in SUBSET Entries
             /\ todo \subseteq saves[s].files /\ stored \subseteq saves[s].files
             /\ stored \cap todo = {}
             /\ Failures(s, ok) \in Nat /\ Failures(s, ok) + Cardinality(todo) <= MaxEdits
             /\ Cardinality(todo) \in Nat
             /\ Failures(s, ok) = 0 => stored \cup todo = saves[s].files
             /\ Failures(s, ok) # 0 => stored \cup todo # saves[s].files
<1> DEFINE stored == saves[s].stored \cup (IF ok THEN {Current(s)} ELSE {})
           todo == saves[s].todo \ {Current(s)}
<1> DEFINE c == saves[s]
           g == Current(s)
<1>1. c \in SaveType
  BY Types
<1>2. /\ c.todo \in SUBSET Entries /\ c.stored \in SUBSET Entries /\ c.files \in SUBSET Entries
      /\ c.failed \in Nat
  BY <1>1 DEF SaveType
<1>3. /\ c.todo # {} /\ c.todo \subseteq c.files /\ c.stored \subseteq c.files
      /\ c.stored \cap c.todo = {}
      /\ c.failed + Cardinality(c.todo) <= MaxEdits
      /\ c.failed = 0 => c.stored \cup c.todo = c.files
      /\ c.failed # 0 => c.stored \cup c.todo # c.files
  BY DEF Loop
<1>4. g \in c.todo
  BY <1>2, <1>3, CurrentIsNext
<1>5. /\ IsFiniteSet(c.todo) /\ Cardinality(c.todo) \in Nat
      /\ Cardinality(todo) \in Nat /\ Cardinality(todo) = Cardinality(c.todo) - 1
  BY <1>2, <1>4, FewEntries, FS_RemoveElement
<1>6. Failures(s, ok) = IF ok THEN c.failed ELSE c.failed + 1
  BY <1>2 DEF Failures
<1>7. MaxEdits \in Nat
  BY Distinct
<1>8. /\ stored = c.stored \cup (IF ok THEN {g} ELSE {}) /\ todo = c.todo \ {g}
  OBVIOUS
<1> HIDE DEF c, g, stored, todo
<1>9. /\ Failures(s, ok) \in Nat /\ Failures(s, ok) + Cardinality(todo) <= MaxEdits
  BY <1>2, <1>3, <1>5, <1>6, <1>7
<1>10. /\ stored \in SUBSET Entries /\ todo \in SUBSET Entries
       /\ todo \subseteq c.files /\ stored \subseteq c.files /\ stored \cap todo = {}
       /\ Failures(s, ok) = 0 => stored \cup todo = c.files
       /\ Failures(s, ok) # 0 => stored \cup todo # c.files
  <2>1. CASE ok
    <3>1. stored \cup todo = c.stored \cup c.todo
      BY <1>4, <1>8, <2>1
    <3> QED BY <1>2, <1>3, <1>4, <1>6, <1>8, <2>1, <3>1
  <2>2. CASE ~ok
    <3>1. g \notin stored \cup todo /\ g \in c.files
      BY <1>3, <1>4, <1>8, <2>2
    <3>2. Failures(s, ok) # 0
      BY <1>2, <1>6, <2>2
    <3> QED BY <1>2, <1>3, <1>4, <1>8, <2>2, <3>1, <3>2
  <2> QED BY <2>1, <2>2
<1> QED BY <1>5, <1>9, <1>10 DEF stored, todo, c, g

\* The answer to one upload.
LEMMA UploadAnswerStep ==
  ASSUME IInv, NEW s \in Saves, UploadAnswer(s) PROVE IInv'
<1> USE Facts
<1> DEFINE c == saves[s]
<1>1. c.pc = "upload" /\ Underway(s) /\ UNCHANGED <<update, edits>>
  BY DEF UploadAnswer, Underway
<1>2. c \in SaveType /\ c.stored \in SUBSET Entries /\ Loop(c)
  <2>1. c \in SaveType
    OBVIOUS
  <2> QED BY <1>1, <2>1 DEF SaveType, SaveInv, Shapes, SaveShape
<1>3. CASE c.aborted
  <2>1. End(s, "stopped", c.stored) /\ Leave(s, Unlock(form))
    BY <1>3 DEF UploadAnswer
  <2> QED BY <1>1, <1>2, <2>1, EndsQuietly, UnlockForm
<1>4. CASE ~c.aborted
  <2>1. PICK ok \in BOOLEAN :
          LET stored == c.stored \cup (IF ok THEN {Current(s)} ELSE {})
              todo == c.todo \ {Current(s)}
          IN  CASE todo # {} ->
                     /\ saves' = [saves EXCEPT ![s].todo = todo, ![s].stored = stored,
                                               ![s].failed = Failures(s, ok)]
                     /\ UNCHANGED <<panel, drawer, form, dialog, att>>
                [] todo = {} /\ Failures(s, ok) = 0 ->
                     End(s, "created", stored) /\ AfterSubmit(s, Unlock(form))
                [] OTHER ->
                     /\ End(s, "partly", stored)
                     /\ IF Mine(s) THEN AfterSubmit(s, Unlock(form))
                                   ELSE Leave(s, Unlock(form))
    BY <1>4 DEF UploadAnswer
  <2> DEFINE stored == c.stored \cup (IF ok THEN {Current(s)} ELSE {})
             todo == c.todo \ {Current(s)}
             n == Failures(s, ok)
  <2>2. /\ stored \in SUBSET Entries /\ todo \in SUBSET Entries
        /\ todo \subseteq c.files /\ stored \subseteq c.files /\ stored \cap todo = {}
        /\ n \in Nat /\ n + Cardinality(todo) <= MaxEdits /\ Cardinality(todo) \in Nat
        /\ n = 0 => stored \cup todo = c.files
        /\ n # 0 => stored \cup todo # c.files
    BY <1>2, FileAnswered
  <2>3. CASE todo # {}
    <3>1. /\ saves' = [saves EXCEPT ![s].todo = todo, ![s].stored = stored, ![s].failed = n]
          /\ UNCHANGED <<panel, drawer, form, dialog, att>>
      BY <2>1, <2>3
    <3> DEFINE d1 == [c EXCEPT !.todo = todo]
               d2 == [d1 EXCEPT !.stored = stored]
               d == [d2 EXCEPT !.failed = n]
    <3>2. saves' = [saves EXCEPT ![s] = d]
      BY <3>1
    <3>3. n \in 0 .. MaxEdits
      BY <2>2
    <3>4. d1 = [c EXCEPT !.todo = todo] /\ d2 = [d1 EXCEPT !.stored = stored]
          /\ d = [d2 EXCEPT !.failed = n]
      OBVIOUS
    <3> HIDE DEF c, d1, d2, d, stored, todo, n
    <3>5. /\ d1 \in SaveType /\ d1.pc = c.pc /\ d1.key = c.key /\ d1.end = c.end
          /\ d1.aborted = c.aborted /\ d1.files = c.files /\ d1.todo = todo
      BY <1>2, <2>2, <3>4 DEF SaveType
    <3>6. /\ d2 \in SaveType /\ d2.pc = c.pc /\ d2.key = c.key /\ d2.end = c.end
          /\ d2.aborted = c.aborted /\ d2.files = c.files /\ d2.todo = todo
          /\ d2.stored = stored
      BY <2>2, <3>4, <3>5 DEF SaveType
    <3>7. /\ d \in SaveType /\ d.pc = c.pc /\ d.key = c.key /\ d.end = c.end
          /\ d.aborted = c.aborted /\ d.files = c.files /\ d.todo = todo
          /\ d.stored = stored /\ d.failed = n
      BY <3>3, <3>4, <3>6 DEF SaveType
    <3>8. Loop(d)
      BY <2>2, <2>3, <3>7 DEF Loop
    <3>9. /\ saves' \in [Saves -> SaveType] /\ saves'[s] = d
          /\ \A t \in Saves \ {s} : saves'[t] = saves[t]
      BY <3>2, <3>7
    <3>10. TypeOK'
      BY <1>1, <3>1, <3>9 DEF TypeOK, PanelType, FormType, AttType, SaveType
    <3>11. Layers' /\ RequestsOfTheScreen'
      BY <3>1 DEF Layers, RequestsOfTheScreen, Mode
    <3>12. SaveInv'
      BY <1>1, <1>4, <3>1, <3>7, <3>8, <3>9, SaveGoesOn DEF c
    <3> QED BY <3>10, <3>11, <3>12 DEF IInv
  <2>4. CASE todo = {} /\ n = 0
    <3>1. End(s, "created", stored) /\ AfterSubmit(s, Unlock(form))
      BY <2>1, <2>4
    <3>2. stored = c.files
      BY <2>2, <2>4
    <3> HIDE DEF stored, todo, n
    <3> QED BY <1>1, <1>4, <2>2, <3>1, <3>2, EndsWithCallback, UnlockForm
  <2>5. CASE todo = {} /\ n # 0
    <3>1. /\ End(s, "partly", stored)
          /\ IF Mine(s) THEN AfterSubmit(s, Unlock(form)) ELSE Leave(s, Unlock(form))
      BY <2>1, <2>5
    <3>2. stored # c.files
      BY <2>2, <2>5
    <3> HIDE DEF stored, todo, n
    <3>3. CASE Mine(s)
      BY <1>1, <1>4, <2>2, <3>1, <3>2, <3>3, EndsWithCallback, UnlockForm
    <3>4. CASE ~Mine(s)
      BY <1>1, <1>4, <2>2, <3>1, <3>2, <3>4, EndsQuietly, UnlockForm
    <3> QED BY <3>3, <3>4
  <2> QED BY <2>3, <2>4, <2>5
<1> QED BY <1>3, <1>4

-----------------------------------------------------------------------------
(* The theorems.                                                           *)

\* The page before any click.
LEMMA AtFirst ==
  ASSUME Init PROVE IInv
<1>1. Cardinality({}) = 0 /\ 0 \in Keys
  BY FS_EmptySet, FewSaves, Distinct DEF Keys
<1>2. NoSave \in SaveType /\ NoSave.pc = "idle" /\ NoSave.end = "none"
  BY <1>1, Distinct DEF NoSave, SaveType
<1>3. \A s \in Saves : saves[s] = NoSave
  BY DEF Init
<1>4. panel \in PanelType
  BY <1>1 DEF Init, PanelType, Modes
<1>5. att \in AttType /\ \A k \in Kinds : att[k].pc # "flight"
  BY DEF Init, Idle, AttType
<1>6. TypeOK
  BY <1>2, <1>4, <1>5, Fresh, Distinct, Types DEF Init
<1>7. Layers /\ RequestsOfTheScreen
  BY <1>5, Fresh DEF Init, Layers, RequestsOfTheScreen
<1>8. Done = {}
  BY <1>2, <1>3 DEF Done
<1>9. KeyBound
  BY <1>1, <1>8, Distinct DEF Init, KeyBound
<1>10. SaveKeys /\ Shapes /\ OnePost /\ OneAdditionAtATime /\ Controlled /\ AskedBefore
  BY <1>2, <1>3 DEF Init, SaveKeys, Shapes, SaveShape, OnePost, OneAdditionAtATime,
     Controlled, AskedBefore, Underway
<1> QED BY <1>6, <1>7, <1>9, <1>10 DEF IInv, SaveInv

\* Every step keeps the invariant.
LEMMA StepKeeps ==
  ASSUME IInv, [Next]_vars PROVE IInv'
<1>1. CASE AddItem
  BY <1>1, AddItemStep
<1>2. ASSUME NEW i \in Items, ItemClick(i) \/ EditItem(i) PROVE IInv'
  BY <1>2, OpenItemStep DEF ItemClick, EditItem
<1>3. CASE Type
  BY <1>3, TypeStep
<1>4. CASE ChooseFile
  BY <1>4, ChooseFileStep
<1>5. ASSUME NEW f \in form.files, RemoveFile(f) PROVE IInv'
  BY <1>5, RemoveFileStep
<1>6. CASE AskDelete \/ ConfirmDelete
  BY <1>6, DeleteSteps
<1>7. ASSUME NEW again \in BOOLEAN, PressSave(again) PROVE IInv'
  BY <1>7, PressSaveStep
<1>8. CASE ConfirmPeriod
  BY <1>8, ConfirmPeriodStep
<1>9. CASE CancelPeriod \/ DiscardCancel
  BY <1>9, DismissSteps
<1>10. CASE CloseAttempt
  BY <1>10, CloseAttemptStep
<1>11. CASE Discard
  BY <1>11, DiscardStep
<1>12. ASSUME NEW s \in Saves, CreateAnswer(s) PROVE IInv'
  BY <1>12, CreateAnswerStep
<1>13. ASSUME NEW s \in Saves, UploadAnswer(s) PROVE IInv'
  BY <1>13, UploadAnswerStep
<1>14. CASE UpdateAnswer
  BY <1>14, UpdateAnswerStep
<1>15. ASSUME NEW k \in Kinds, AttachmentAnswer(k) PROVE IInv'
  BY <1>15, AttachmentAnswerStep
<1>16. CASE Exited
  BY <1>16, ExitedStep
<1>17. CASE UNCHANGED vars
  BY <1>17, Facts, InputStep DEF vars
<1> QED
  BY <1>1, <1>2, <1>3, <1>4, <1>5, <1>6, <1>7, <1>8, <1>9, <1>10, <1>11, <1>12, <1>13,
     <1>14, <1>15, <1>16, <1>17 DEF Next, User, Answer

\* The inductive invariant of the panel: layers and dialogs fit together,
\* saves are of panels that were mounted, and the panel holds the lock and the
\* controller of its save until a late rejection disturbs it.
THEOREM PanelInvariant == Spec => []IInv
<1>1. Init => IInv
  BY AtFirst
<1>2. IInv /\ [Next]_vars => IInv'
  BY StepKeeps
<1> QED BY <1>1, <1>2, PTL DEF Spec

\* The state of the panel has its types; its key grows by clicks and by saves
\* that continue with another item only.
THEOREM PanelTypes == Spec => []TypeOK
<1>1. IInv => TypeOK
  BY DEF IInv
<1> QED BY <1>1, PanelInvariant, PTL

\* An addition reported as complete has every file, one reported as partial
\* lacks some: the loop of handleAddModeSubmit loses no file.
THEOREM SuccessIsCompleteHolds == Spec => []SuccessIsComplete
<1>1. IInv => SuccessIsComplete
  BY DEF IInv, SaveInv, Shapes, SaveShape, SuccessIsComplete
<1> QED BY <1>1, PanelInvariant, PTL

\* Requests for attachments are for the item on the screen, whatever closes
\* or replaces the panel.
THEOREM RequestsOfTheScreenHolds == Spec => []RequestsOfTheScreen
<1>1. IInv => RequestsOfTheScreen
  BY DEF IInv
<1> QED BY <1>1, PanelInvariant, PTL

\* Of one panel, one POST is under way at a time, and beside it only uploads
\* that were aborted, up to a late rejection.
THEOREM OneAdditionHolds == Spec => []OneAdditionAtATime
<1>1. IInv => OneAdditionAtATime
  BY DEF IInv, SaveInv
<1> QED BY <1>1, PanelInvariant, PTL

\* Closing a panel aborts the uploads that run in it, as long as no late
\* rejection has made it forget their controller (ItemSlidePanel.tsx:537).
ClosingWithControl ==
  CloseAttempt /\ ~Disturbed(panel.key) =>
    \A s \in Saves : Mine(s) /\ saves[s].pc = "upload" => saves'[s].aborted

\* A close aborts the uploads of a panel that no late rejection has disturbed,
\* for any number of additions (handleCloseAttempt, abortSequentialUpload).
THEOREM ClosingWithControlHolds == Spec => [][ClosingWithControl]_vars
<1>1. ASSUME IInv, CloseAttempt, ~Disturbed(panel.key),
             NEW s \in Saves, Mine(s), saves[s].pc = "upload"
      PROVE  saves'[s].aborted
  <2> USE <1>1, Facts
  <2>1. CASE saves[s].aborted
    <3>1. saves' = saves \/ saves' = AbortedSaves
      BY DEF CloseAttempt
    <3>2. AbortedSaves[s].aborted
      BY <2>1, Aborting
    <3> QED BY <2>1, <3>1, <3>2
  <2>2. CASE ~saves[s].aborted
    <3>1. form.ctl = s /\ form.seq
      BY <2>2 DEF SaveInv, Controlled, Underway
    <3>2. saves' = AbortedSaves
      BY <3>1 DEF CloseAttempt
    <3> QED BY <3>1, <3>2, Aborting
  <2> QED BY <2>1, <2>2
<1>2. IInv => [ClosingWithControl]_vars
  BY <1>1 DEF ClosingWithControl
<1> QED BY <1>2, PanelInvariant, PTL

\* A step that empties the form does it for one of the causes that
\* LossHasCause names.
LEMMA EmptyingHasCause ==
  ASSUME IInv, [Next]_vars, Emptied
  PROVE  \/ dialog = "discard" \/ form.seq
         \/ form.text \in Sent
         \/ update # update'
         \/ \E s \in Saves : saves[s].pc # saves'[s].pc
<1> USE Facts
<1> DEFINE Cause == \/ dialog = "discard" \/ form.seq
                    \/ form.text \in Sent
                    \/ update # update'
                    \/ \E s \in Saves : saves[s].pc # saves'[s].pc
<1>1. form.text # 0 /\ form'.text = 0 /\ drawer = "open"
  BY DEF Emptied, Layers
<1>2. ASSUME form'.text = form.text PROVE FALSE
  BY <1>1, <1>2
<1>3. ~AddItem /\ ~Exited /\ ~UNCHANGED vars
  BY <1>1 DEF AddItem, RowsClickable, Exited, SlideEnds, vars
<1>4. \A i \in Items : ~ItemClick(i) /\ ~EditItem(i)
  BY <1>1 DEF ItemClick, EditItem, OpenItem, RowsClickable
<1>5. ~Type
  <2>1. Type => form'.text = edits + 1
    BY DEF Type, NextEntry, FormType
  <2> QED BY <1>1, <2>1
<1>6. ~ChooseFile
  BY <1>2 DEF ChooseFile, FormType
<1>7. \A f \in form.files : ~RemoveFile(f)
  BY <1>2 DEF RemoveFile, FormType
<1>8. ~AskDelete /\ ~ConfirmDelete /\ ~CancelPeriod /\ ~DiscardCancel
  BY <1>2 DEF AskDelete, ConfirmDelete, CancelPeriod, DiscardCancel, FormType
<1>9. \A data : ~Send(data)
  BY <1>2 DEF Send, StartAdd, StartUpdate, FormType
<1>10. (\A again \in BOOLEAN : ~PressSave(again)) /\ ~ConfirmPeriod
  BY <1>2, <1>9 DEF PressSave, ConfirmPeriod, FormType
<1>11. CloseAttempt \/ Discard => Cause
  BY <1>1, <1>2 DEF CloseAttempt, IsDirty, Discard
<1>12. ASSUME NEW s \in Saves, CreateAnswer(s) PROVE Cause
  <2>1. saves[s].pc = "create"
    BY <1>12 DEF CreateAnswer
  <2>2. saves'[s].pc \in {"done", "upload"}
    <3>1. CASE saves' = [saves EXCEPT ![s].pc = "upload"]
      BY <3>1 DEF SaveType
    <3>2. CASE \E end \in {"created", "failed", "stopped"} : End(s, end, {})
      BY <3>2, Ending
    <3> QED BY <1>12, <3>1, <3>2 DEF CreateAnswer
  <2> QED BY <2>1, <2>2
<1>13. ASSUME NEW s \in Saves, UploadAnswer(s) PROVE Cause
  <2>1. form' # form
    BY <1>2
  <2>2. saves[s].pc = "upload" /\ \E end, stored : End(s, end, stored)
    BY <1>13, <2>1 DEF UploadAnswer
  <2>3. saves'[s].pc = "done"
    BY <2>2 DEF End, SaveType
  <2> QED BY <2>2, <2>3
<1>14. UpdateAnswer => Cause
  BY DEF UpdateAnswer, UpdatePending
<1>15. \A k \in Kinds : ~AttachmentAnswer(k)
  BY <1>2 DEF AttachmentAnswer, FormType
<1> QED
  BY <1>3, <1>4, <1>5, <1>6, <1>7, <1>8, <1>10, <1>11, <1>12, <1>13, <1>14, <1>15
     DEF Next, User, Answer

\* Typed values vanish for the causes of LossHasCause only.
THEOREM LossHasCauseHolds == Spec => LossHasCause
<1>1. IInv /\ [Next]_vars =>
        [Emptied => \/ dialog = "discard" \/ form.seq
                    \/ form.text \in Sent
                    \/ update # update'
                    \/ \E s \in Saves : saves[s].pc # saves'[s].pc]_vars
  BY EmptyingHasCause
<1> QED BY <1>1, PanelInvariant, PTL DEF Spec, LossHasCause

=============================================================================
