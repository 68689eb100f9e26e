----------------------------- MODULE ItemPanel -----------------------------
(***************************************************************************)
(* The slide panel of a report page (ReportDetailPage, ItemSlidePanel,     *)
(* ItemForm, AttachmentArea, AttachmentUploader and their hooks): the       *)
(* owner of a draft adds, edits and views items with their attachments.    *)
(*                                                                         *)
(* The page keeps the mode of the panel and a key; a new key mounts a new  *)
(* panel with fresh state, while the asynchronous functions of the old one *)
(* go on and still call back the page.  A request is sent in one step and  *)
(* answered in a later one; everything between two awaits is one step, as  *)
(* JavaScript runs it.  Several requests are under way at once and are     *)
(* answered in any order.                                                  *)
(*                                                                         *)
(* Modal layers: the rows of the page can be clicked when the drawer is    *)
(* hidden, the drawer when no dialog is open.                              *)
(***************************************************************************)
EXTENDS Naturals, FiniteSets

CONSTANTS
    Items,      \* the items the report holds at the start
    Saves,      \* identities of the additions the user sends (bound)
    MaxEdits,   \* bound on the user's entries: values typed, files chosen
    MaxKey,     \* bound on formKey where a click raises it
    None

ASSUME PanelAssumption ==
    /\ MaxEdits \in Nat /\ MaxKey \in Nat
    /\ IsFiniteSet(Saves)
    /\ None \notin Items \cup Saves \cup Nat

Modes == {"add", "edit", "view"}
Kinds == {"upload", "delete"}
Entries == 1 .. MaxEdits
Keys == 0 .. (MaxKey + Cardinality(Saves))

VARIABLES
    panel,    \* panelState, lastModeRef, selectedItem and formKey of the page
    drawer,   \* the Drawer: its children are mounted unless it is hidden
    form,     \* the state of the mounted panel and its form
    dialog,   \* the modal dialog over the panel
    att,      \* the two mutations of the mounted attachment area
    saves,    \* the calls of handleAddModeSubmit
    update,   \* the entry that the page's updateItem mutation sends, or None
    edits     \* number of entries the user has made

vars == <<panel, drawer, form, dialog, att, saves, update, edits>>

Idle == [pc |-> "idle", item |-> None]

\* A form that was just mounted: text is the last entry of its fields, files
\* are the entries that chose a file to be uploaded with a new item.
FreshForm == [text |-> 0, files |-> {}, callback |-> None, seq |-> FALSE,
              busy |-> [k \in Kinds |-> FALSE], ctl |-> None]

NoSave == [pc |-> "idle", key |-> 0, again |-> FALSE, text |-> 0, files |-> {},
           todo |-> {}, stored |-> {}, failed |-> 0, aborted |-> FALSE, end |-> "none"]

Callback == [again : BOOLEAN, text : 0 .. MaxEdits, files : SUBSET Entries]

TypeOK ==
    /\ panel \in [mode : Modes \cup {"closed"}, last : Modes,
                  item : Items \cup {None}, key : Keys]
    /\ drawer \in {"hidden", "open", "closing"}
    /\ form \in [text : 0 .. MaxEdits, files : SUBSET Entries,
                 callback : Callback \cup {None}, seq : BOOLEAN,
                 busy : [Kinds -> BOOLEAN], ctl : Saves \cup {None}]
    /\ dialog \in {"none", "discard", "period", "attachment"}
    /\ att \in [Kinds -> [pc : {"idle", "flight", "aborted"},
                          item : Items \cup {None}]]
    /\ saves \in [Saves -> [pc : {"idle", "create", "upload", "done"},
                            key : Keys, again : BOOLEAN,
                            text : 0 .. MaxEdits, files : SUBSET Entries,
                            todo : SUBSET Entries, stored : SUBSET Entries,
                            failed : 0 .. MaxEdits,
                            aborted : BOOLEAN,
                            end : {"none", "created", "partly", "failed",
                                   "stopped"}]]
    /\ update \in (0 .. MaxEdits) \cup {None}
    /\ edits \in 0 .. MaxEdits

-----------------------------------------------------------------------------
(* What the page and the panel derive from their state.                    *)

Mode == IF panel.mode = "closed" THEN panel.last ELSE panel.mode

\* createItemMutation belongs to the panel that sent the request.
Mine(s) == saves[s].key = panel.key
\* Faulty form of CreatePending: no look at the mutation.
NotLocked == FALSE

CreatePending == \E s \in Saves : Mine(s) /\ saves[s].pc = "create"

UpdatePending == update # None

SaveDisabled ==
    \/ UpdatePending
    \/ CreatePending
    \/ \E k \in Kinds : form.busy[k]
    \/ form.seq

\* Faulty form of IsDirty: the form not asked.
FilesOnly == Mode = "add" /\ form.files # {}

IsDirty == form.text # 0 \/ (Mode = "add" /\ form.files # {})

\* The panel takes clicks; the fields are there to be edited.
Clickable == drawer = "open" /\ panel.mode # "closed" /\ dialog = "none"
CanModify == Mode # "view"

\* AttachmentArea: a new item keeps its files in the form; an item that exists
\* has a list, to which files can be added and from which they can be deleted.
AddArea == Mode = "add" /\ CanModify
AreaContent == Mode # "add" /\ panel.item # None
EditArea == AreaContent /\ CanModify

\* useUploadAttachment and useDeleteAttachment: mutate() sends, cancel() aborts the request
\* that is under way; its rejection arrives later.
Requested(k) == [att EXCEPT ![k] = [pc |-> "flight", item |-> panel.item]]
Cancelled(requests) ==
    [k \in Kinds |-> IF requests[k].pc = "flight"
                     THEN [requests[k] EXCEPT !.pc = "aborted"]
                     ELSE requests[k]]

\* Faulty form of Unmounted: nothing aborted.
OutlivesItsArea(requests) == requests

\* Their cleanup when the area is unmounted aborts; the new area has none.
Unmounted(requests) == [k \in Kinds |-> Idle]

\* The form's reset function and the panel's resetDirtyState, whose new key
\* also empties the uploader.
FormReset(f) == [f EXCEPT !.text = 0]
Reset(f) == [FormReset(f) EXCEPT !.files = {}]

\* abortSequentialUpload: without a controller it does nothing.
AbortSequential(f) ==
    IF f.ctl = None THEN f ELSE [f EXCEPT !.ctl = None, !.seq = FALSE]
AbortedSaves ==
    IF form.ctl = None THEN saves
    ELSE [saves EXCEPT ![form.ctl].aborted = TRUE]

\* setPanelState('closed') and what follows from it at once: the drawer starts
\* to slide out and the panel's effect on open resets the input.
ClosePanel(f) ==
    /\ panel' = [panel EXCEPT !.mode = "closed"]
    /\ drawer' = IF drawer = "open" THEN "closing" ELSE drawer
    /\ form' = Reset(f)

\* A new formKey: the old panel is unmounted, its requests for attachments are
\* aborted and its dialogs disappear.
Remount(mode, item) ==
    /\ panel' = [mode |-> mode, last |-> mode, item |-> item,
                 key |-> panel.key + 1]
    /\ drawer' = "open"
    /\ form' = FreshForm
    /\ dialog' = "none"
    /\ att' = Unmounted(att)

Init ==
    /\ panel = [mode |-> "closed", last |-> "add", item |-> None, key |-> 0]
    /\ drawer = "hidden"
    /\ form = FreshForm
    /\ dialog = "none"
    /\ att = [k \in Kinds |-> Idle]
    /\ saves = [s \in Saves |-> NoSave]
    /\ update = None
    /\ edits = 0

-----------------------------------------------------------------------------
(* Opening the panel from the page.                                        *)

RowsClickable == drawer = "hidden" /\ dialog = "none"

\* handleAddItem: the panel that is mounted is used again.
AddItem ==
    /\ RowsClickable
    /\ panel' = [panel EXCEPT !.mode = "add", !.last = "add", !.item = None]
    /\ drawer' = "open"
    /\ UNCHANGED <<form, dialog, att, saves, update, edits>>

\* handleItemClick and handleEditItem: flushSync commits 'closed' first, so
\* that the new panel opens from the closed state.
OpenItem(mode, i) ==
    /\ RowsClickable /\ panel.key < MaxKey
    /\ Remount(mode, i)
    /\ UNCHANGED <<saves, update, edits>>
ItemClick(i) == OpenItem("view", i)
EditItem(i) == OpenItem("edit", i)

-----------------------------------------------------------------------------
(* Entries into the form.                                                  *)

NextEntry == edits + 1
Enter == edits < MaxEdits /\ edits' = NextEntry

\* A field of the form: read-only while files are uploaded, disabled while the
\* page saves an item.
Type ==
    /\ Clickable /\ CanModify
    /\ ~form.seq /\ ~UpdatePending
    /\ Enter
    /\ form' = [form EXCEPT !.text = NextEntry]
    /\ UNCHANGED <<panel, drawer, dialog, att, saves, update>>

\* The button and the drop zone are closed while the mutation is pending.
UploaderTakes == Mode = "add" \/ att["upload"].pc = "idle"

\* handleFile with a valid file: a new item keeps it until it is saved, an
\* existing item gets it at once.
ChooseFile ==
    /\ Clickable /\ UploaderTakes
    /\ \/ /\ AddArea
          /\ Enter
          /\ form' = [form EXCEPT !.files = @ \cup {NextEntry}]
          /\ att' = att
       \/ /\ EditArea
          /\ form' = [form EXCEPT !.busy["upload"] = TRUE]
          /\ att' = Requested("upload")
          /\ edits' = edits
    /\ UNCHANGED <<panel, drawer, dialog, saves, update>>

\* handlePendingFileRemove.
RemoveFile(f) ==
    /\ Clickable /\ AddArea /\ f \in form.files
    /\ form' = [form EXCEPT !.files = @ \ {f}]
    /\ UNCHANGED <<panel, drawer, dialog, att, saves, update, edits>>

\* handleDeleteRequest asks; handleConfirmDelete sends, handleCancelDelete does
\* not.  The dialog's buttons wait for the deletion that is pending.
AskDelete ==
    /\ Clickable /\ EditArea
    /\ dialog' = "attachment"
    /\ UNCHANGED <<panel, drawer, form, att, saves, update, edits>>

ConfirmDelete ==
    /\ dialog = "attachment" /\ att["delete"].pc = "idle"
    /\ dialog' = "none"
    /\ \/ /\ form' = [form EXCEPT !.busy["delete"] = TRUE]
          /\ att' = Requested("delete")
       \/ UNCHANGED <<form, att>>
    /\ UNCHANGED <<panel, drawer, saves, update, edits>>

\* The answer, or the rejection of an aborted request: the callbacks given to
\* mutate run only while the area is mounted.
AttachmentAnswer(k) ==
    /\ att[k].pc # "idle"
    /\ att' = [att EXCEPT ![k] = Idle]
    /\ form' = [form EXCEPT !.busy[k] = FALSE]
    /\ UNCHANGED <<panel, drawer, dialog, saves, update, edits>>

-----------------------------------------------------------------------------
(* Saving.                                                                 *)

\* handleAddModeSubmit up to its first await: the POST of the item, with the
\* values and the files of this moment.  A controller that is still there is
\* aborted and replaced.
StartAdd(s, data) ==
    /\ saves[s].pc = "idle"
    /\ saves' = [AbortedSaves EXCEPT ![s] =
           [NoSave EXCEPT !.pc = "create", !.key = panel.key,
                          !.again = data.again, !.text = data.text,
                          !.files = data.files, !.todo = data.files]]
    /\ form' = [form EXCEPT !.ctl = s, !.callback = None]
    /\ UNCHANGED update

\* Faulty form of StartUpdate: a save in the edit mode that keeps no identity of its own.
UpdateInPlace(data) ==
    update' = panel.item /\ form' = [form EXCEPT !.callback = None] /\ UNCHANGED saves

\* handleItemSubmit for an existing item.
StartUpdate(data) ==
    /\ update' = data.text
    /\ form' = [form EXCEPT !.callback = None]
    /\ UNCHANGED saves

Send(data) == IF Mode = "add" THEN \E s \in Saves : StartAdd(s, data)
                              ELSE StartUpdate(data)

\* The save buttons of the form, and its schema: a new item has to be filled in.
SaveButton(again) ==
    /\ Clickable /\ CanModify /\ ~SaveDisabled
    /\ again => Mode = "add"
Valid == Mode = "add" => form.text # 0

\* A date outside the report's
\* period opens a dialog that keeps the callback (executeSaveWithPeriodCheck).
PressSave(again) ==
    /\ SaveButton(again) /\ Valid
    /\ LET data == [again |-> again, text |-> form.text, files |-> form.files]
       IN  \/ Send(data) /\ dialog' = dialog
          \/ /\ dialog' = "period"
             /\ form' = [form EXCEPT !.callback = data]
             /\ UNCHANGED <<saves, update>>
    /\ UNCHANGED <<panel, drawer, att, edits>>

\* handlePeriodWarningConfirm and handlePeriodWarningCancel: the save that was
\* asked for, whatever has happened to the panel since.
ConfirmPeriod ==
    /\ dialog = "period"
    /\ Send(form.callback)
    /\ dialog' = "none"
    /\ UNCHANGED <<panel, drawer, att, edits>>

CancelPeriod ==
    /\ dialog = "period"
    /\ dialog' = "none"
    /\ form' = [form EXCEPT !.callback = None]
    /\ UNCHANGED <<panel, drawer, att, saves, update, edits>>

\* The finally block: the panel forgets its controller, whichever save set it.
\* What a save sets in the panel it was sent from is lost when that is gone.
Finish(s, f) == IF Mine(s) THEN [f EXCEPT !.ctl = None] ELSE form
\* Faulty form of Unlock: the lock left on.
KeptLocked(f) == f

Unlock(f) == [f EXCEPT !.seq = FALSE]

\* A save ends without calling back.
Leave(s, f) ==
    /\ form' = Finish(s, f)
    /\ UNCHANGED <<panel, drawer, dialog, att>>

\* resetDirtyState and afterSubmit, in the panel that is mounted now:
\* onSaveSuccess closes it, onSaveAndContinue replaces it by an empty one.
AfterSubmit(s, f) ==
    IF saves[s].again
    THEN Remount("add", None)
    ELSE /\ ClosePanel(Finish(s, f))
         /\ UNCHANGED <<dialog, att>>

End(s, end, stored) ==
    saves' = [saves EXCEPT ![s].pc = "done", ![s].end = end, ![s].todo = {},
                           ![s].stored = stored, ![s].failed = 0]

\* The answer to the POST.  Without files the addition is complete; with files
\* the first upload starts, unless the panel was closed meanwhile.
CreateAnswer(s) ==
    /\ saves[s].pc = "create"
    /\ \/ \* refused or failed
          End(s, "failed", {}) /\ Leave(s, form)
       \/ /\ saves[s].files = {}
          /\ End(s, "created", {})
          /\ AfterSubmit(s, form)
       \/ /\ saves[s].files # {} /\ ~saves[s].aborted
          /\ saves' = [saves EXCEPT ![s].pc = "upload"]
          /\ form' = IF Mine(s) THEN [form EXCEPT !.seq = TRUE] ELSE form
          /\ UNCHANGED <<panel, drawer, dialog, att>>
       \/ /\ saves[s].files # {} /\ saves[s].aborted
          /\ End(s, "stopped", {}) /\ Leave(s, Unlock(form))
    /\ UNCHANGED <<update, edits>>

\* The file that the loop uploads now: files are taken in the order chosen.
Current(s) == CHOOSE f \in saves[s].todo : \A g \in saves[s].todo : f <= g

\* Faulty form of Failures: a success forgets the failures before it.
LastFailureOnly(s, ok) == IF ok THEN 0 ELSE 1

Failures(s, ok) == saves[s].failed + (IF ok THEN 0 ELSE 1)

\* The answer to one upload.  An aborted one ends the loop; one that failed is
\* counted.  After the last one a partial failure is told by a toast, and the
\* effect on that toast, which only a mounted panel has, calls back.
UploadAnswer(s) ==
    /\ saves[s].pc = "upload"
    /\ IF saves[s].aborted
       THEN End(s, "stopped", saves[s].stored) /\ Leave(s, Unlock(form))
       ELSE \E ok \in BOOLEAN :
            LET stored == saves[s].stored \cup (IF ok THEN {Current(s)} ELSE {})
                todo == saves[s].todo \ {Current(s)}
            IN  CASE todo # {} ->
                       /\ saves' = [saves EXCEPT ![s].todo = todo, ![s].stored = stored,
                                                 ![s].failed = Failures(s, ok)]
                       /\ UNCHANGED <<panel, drawer, form, dialog, att>>
                  [] todo = {} /\ Failures(s, ok) = 0 ->
                       End(s, "created", stored) /\ AfterSubmit(s, Unlock(form))
                  [] OTHER ->
                       /\ End(s, "partly", stored)
                       /\ IF Mine(s) THEN AfterSubmit(s, Unlock(form))
                                     ELSE Leave(s, Unlock(form))
    /\ UNCHANGED <<update, edits>>

\* The answer to updateItem: success closes the panel, whatever it shows.
UpdateAnswer ==
    /\ UpdatePending
    /\ update' = None
    /\ \/ ClosePanel(form)
       \/ UNCHANGED <<panel, drawer, form>>
    /\ UNCHANGED <<dialog, att, saves, edits>>

-----------------------------------------------------------------------------
(* Closing.                                                                *)

\* handleCloseAttempt: the cross, the cancel button, the backdrop.
CloseAttempt ==
    /\ Clickable
    /\ CASE form.seq ->
              /\ saves' = AbortedSaves
              /\ ClosePanel(AbortSequential(form))
              /\ UNCHANGED <<dialog, att>>
         [] ~form.seq /\ IsDirty ->
              /\ dialog' = "discard"
              /\ UNCHANGED <<panel, drawer, form, att, saves>>
         [] OTHER ->
              /\ att' = Cancelled(att)
              /\ ClosePanel(form)
              /\ UNCHANGED <<dialog, saves>>
    /\ UNCHANGED <<update, edits>>

\* handleDiscard and handleDiscardCancel: the dialog belongs to the panel, not
\* to the drawer, and stays when an answer closes the drawer below it.
Discard ==
    /\ dialog = "discard"
    /\ dialog' = "none"
    /\ att' = Cancelled(att)
    /\ saves' = AbortedSaves
    /\ ClosePanel(AbortSequential(form))
    /\ UNCHANGED <<update, edits>>

DiscardCancel ==
    /\ dialog = "discard"
    /\ dialog' = "none"
    /\ UNCHANGED <<panel, drawer, form, att, saves, update, edits>>

\* The end of the slide: the children of the drawer are unmounted, which
\* aborts the area's requests without running the callbacks given to mutate,
\* and onTransitionExited forgets the item.
SlideEnds == drawer = "closing"
Exited ==
    /\ SlideEnds
    /\ drawer' = "hidden"
    /\ panel' = [panel EXCEPT !.item = None]
    /\ att' = Unmounted(att)
    /\ form' = [form EXCEPT !.callback = None]
    /\ dialog' = IF dialog = "discard" THEN dialog ELSE "none"
    /\ UNCHANGED <<saves, update, edits>>

-----------------------------------------------------------------------------

User ==
    \/ AddItem
    \/ \E i \in Items : ItemClick(i) \/ EditItem(i)
    \/ Type \/ ChooseFile \/ (\E f \in form.files : RemoveFile(f))
    \/ AskDelete \/ ConfirmDelete
    \/ \E again \in BOOLEAN : PressSave(again)
    \/ ConfirmPeriod \/ CancelPeriod
    \/ CloseAttempt \/ Discard \/ DiscardCancel

Answer ==
    \/ \E s \in Saves : CreateAnswer(s) \/ UploadAnswer(s)
    \/ UpdateAnswer
    \/ \E k \in Kinds : AttachmentAnswer(k)

Next == User \/ Answer \/ Exited

Spec == Init /\ [][Next]_vars

\* Every request is answered, rejected or fails; an animation ends.  The user
\* may stop at any moment.
FairSpec ==
    /\ Spec
    /\ \A s \in Saves : WF_vars(CreateAnswer(s)) /\ WF_vars(UploadAnswer(s))
    /\ WF_vars(UpdateAnswer)
    /\ \A k \in Kinds : WF_vars(AttachmentAnswer(k))
    /\ WF_vars(Exited)

-----------------------------------------------------------------------------
(* Properties.                                                             *)

\* An addition that was reported as successful is one whose item has every
\* file that was chosen when it was saved (handleAddModeSubmit), and one
\* reported as partial lacks some.
SuccessIsComplete ==
    \A s \in Saves :
        /\ saves[s].end = "created" => saves[s].stored = saves[s].files
        /\ saves[s].end = "partly" => saves[s].stored # saves[s].files

\* A request for an attachment that has not been aborted is one for the item
\* on the screen: closing, discarding and unmounting abort the others.
RequestsOfTheScreen ==
    \A k \in Kinds : att[k].pc = "flight" =>
        drawer # "hidden" /\ Mode = "edit" /\ att[k].item = panel.item

\* Two POSTs of one panel are never under way together: nobody could stop the
\* second item from being created, an abort does not reach the POST.  Next to a
\* POST only a save that was aborted waits for an upload, until the rejection
\* of an aborted upload reaches the panel, whose lock it takes off and whose
\* controller it forgets, whichever save they belong to by then.
Stopped(s) == saves[s].end = "stopped"
Disturbed(key) == \E s \in Saves : Stopped(s) /\ saves[s].key = key
OneAdditionAtATime ==
    \A s, t \in Saves :
        /\ s # t /\ saves[s].key = saves[t].key
        /\ saves[s].pc = "create"
        => /\ saves[t].pc # "create"
           /\ \/ saves[t].pc = "upload" => saves[t].aborted
              \/ Disturbed(saves[s].key)

\* Values typed into a form vanish when the user confirms to discard them, when
\* they were sent, when the user closes the panel over running uploads, or, and
\* this is the only other way, when the answer to another save arrives.
Emptied == form.text # 0 /\ form'.text = 0
Sent == {saves[s].text : s \in Saves} \cup {update}
LossHasCause ==
    [][Emptied => \/ dialog = "discard" \/ form.seq
                  \/ form.text \in Sent
                  \/ update # update'
                  \/ \E s \in Saves : saves[s].pc # saves'[s].pc]_vars

\* The spinner of the save button stops: every save ends and takes its lock
\* along.
Spinning == CreatePending \/ form.seq \/ UpdatePending
SpinnerStops == Spinning ~> ~Spinning
=============================================================================
