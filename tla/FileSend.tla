------------------------------- MODULE FileSend -------------------------------
(***************************************************************************)
(* One send of a file: send_whatsapp (whatsapp.py:1000-1051) under the     *)
(* portrait guard (adb.py), images, videos and sounds through the attach   *)
(* menu of the chat (media_picker.py, appium_media.py), other files        *)
(* through an intent.  The attach menu shows whatever the gallery has      *)
(* indexed; taps go to measured points, whatever is there; the phone       *)
(* handles them late, and what an earlier job left is still there.         *)
(***************************************************************************)
EXTENDS Naturals, SequencesExt, FiniteSets

CONSTANT MaxPending \* bound: taps on the send button that are not handled yet

ASSUME FileSendAssumption == MaxPending \in Nat \ {0}

VARIABLES step,     \* where send_whatsapp is
          plan,     \* whether the file goes through the attach menu, and has a caption
          result,   \* what became of the job
          saved,    \* the guard could read the rotation settings
          showing,  \* the phone: what it shows
          coming,   \* the screens that are yet to come up
          drafts,   \* the chats with something in their compose field
          pending,  \* taps on the send button that are not handled yet
          strip,    \* the rows of the gallery, by date
          staged,   \* the file is on the phone
          agent,    \* the registration of uiautomator2 is held
          rotation, \* the rotation settings are as they were found, or portrait
          fixed,    \* the flags of the window manager are set
          messages, \* history: what has left the phone
          doubts,   \* history: what the code took for granted
          excused   \* history: what a call that failed has left as it is

runVars == <<step, plan, result, saved>>
shownVars == <<showing, coming, drafts, pending, messages>>
leftVars == <<strip, staged, agent, rotation, fixed, excused>>
fileVars == <<runVars, shownVars, leftVars, doubts>>

(* The pictures of the gallery: one of before, the row that an earlier job  *)
(* left of its file, the file of this job, one that arrives meanwhile.      *)
Item == {"old", "stale", "own", "new"}
Side == {"own", "other"}   \* the chat of the job's number, and another one

Screens(at, items) == [at : {at}, chat : Side, item : items]
In(at, chat, item) == [at |-> at, chat |-> chat, item |-> item]
ChatOf(c) == In("chat", c, "none")
PanelOf(c) == In("panel", c, "none")
PreviewOf(c, i) == In("preview", c, i)
Away == In("away", "other", "none")
Picker == In("picker", "other", "none")
ShownScreen == {Away, Picker} \cup Screens("chat", {"none"}) \cup Screens("panel", {"none"})
               \cup Screens("preview", Item)

FileStep == {"idle", "guard", "wake", "stage", "index", "chat", "attach", "pick", "caption",
             "send", "verify", "push", "intent", "click", "confirm", "reconfirm", "missing",
             "stop", "clean", "restore"}

Doubt == {"link", "unopened", "newer", "blind", "unread", "empty", "late", "draft"}

FileTypeOK ==
  /\ step \in FileStep
  /\ plan \in [media : BOOLEAN, caption : BOOLEAN]
  /\ result \in {"none", "ok", "raised"}
  /\ showing \in ShownScreen
  /\ coming \in SUBSET ShownScreen
  /\ drafts \in SUBSET Side
  /\ pending \in 0..MaxPending
  /\ strip \in Seq(Item)
  /\ {saved, staged, agent, fixed} \subseteq BOOLEAN
  /\ rotation \in {"found", "portrait"}
  /\ messages \in Seq([chat : Side, item : Item \cup {"words"}])
  /\ doubts \in SUBSET Doubt
  /\ excused \in SUBSET {"rotation", "fixed", "agent", "file", "row"}

(* Whatever an earlier job left: a chat or a preview that is open, that of  *)
(* the same number too, a tap that the phone has not handled, a draft, a    *)
(* row of the gallery.                                                      *)
FileInit ==
  /\ step = "guard" /\ result = "none" /\ saved = FALSE
  /\ plan \in [media : BOOLEAN, caption : BOOLEAN]
  /\ showing \in {Away} \cup {ChatOf(c) : c \in Side} \cup {PreviewOf(c, "old") : c \in Side}
  /\ coming = {}
  /\ drafts \in {{}, {"own"}, {"other"}}
  /\ pending \in IF showing.at = "chat" THEN {0, 1} ELSE {0}
  /\ strip \in {<<"old">>, <<"old", "stale">>}
  /\ staged = FALSE /\ agent = FALSE /\ fixed = FALSE
  /\ rotation = "found"
  /\ messages = <<>>
  /\ doubts = (IF drafts # {} THEN {"draft"} ELSE {})
              \cup (IF pending > 0 \/ showing.at = "preview" THEN {"late"} ELSE {})
  /\ excused = {}

GoesOn(label) == step' = label /\ UNCHANGED <<plan, result, saved>>
EndsBody(how, label) == step' = label /\ result' = how /\ UNCHANGED <<plan, saved>>
Doubts(flags) == doubts' = doubts \cup flags
PutsUp(screen) == showing' = screen /\ UNCHANGED <<coming, drafts, pending, messages>>
Excuses(things) == excused' = excused \cup things

(* The doubt of going on while something called up has not come up. *)
Unopened == IF coming # {} THEN {"unopened"} ELSE {}

-----------------------------------------------------------------------------
(* The frame of send_whatsapp.                                              *)

(* portrait_orientation_guard, ensure_portrait_orientation: each call may   *)
(* fail, none raises; what could not be forced need not be put back, so     *)
(* that the case of all being forced is the worst.                          *)
EnterGuard ==
  /\ step = "guard"
  /\ saved' \in BOOLEAN
  /\ rotation' = "portrait"
  /\ fixed' = TRUE
  /\ Excuses(IF saved' THEN {} ELSE {"rotation"})
  /\ step' = "wake"
  /\ UNCHANGED <<plan, result, shownVars, strip, staged, agent, doubts>>

(* KEYCODE_WAKEUP, and what should_use_gallery_media_flow decides. *)
Wake ==
  /\ step = "wake"
  /\ \/ GoesOn(IF plan.media THEN "stage" ELSE "push")
     \/ EndsBody("raised", "restore")
  /\ UNCHANGED <<shownVars, leftVars, doubts>>

(* stop_u2_uiautomator *)
StopAgent ==
  /\ step = "stop"
  /\ \E fails \in BOOLEAN :
       /\ agent' = (fails /\ agent)
       /\ Excuses(IF agent' THEN {"agent"} ELSE {})
  /\ GoesOn(IF plan.media THEN "clean" ELSE "restore")
  /\ UNCHANGED <<shownVars, strip, staged, rotation, fixed, doubts>>

(* Mutant: only a send that succeeds has its settings restored. *)
LeaveGuardUnlessRaised ==
  /\ step = "restore"
  /\ rotation' = IF saved /\ result = "ok" THEN "found" ELSE rotation
  /\ fixed' = FALSE
  /\ GoesOn("idle")
  /\ UNCHANGED <<shownVars, strip, staged, agent, excused, doubts>>

(* The end of the guard: settings that could not be read are not restored. *)
LeaveGuard ==
  /\ step = "restore"
  /\ \E rotationFails, flagsFail \in BOOLEAN :
       /\ rotation' = IF saved /\ ~rotationFails THEN "found" ELSE rotation
       /\ fixed' = flagsFail
       /\ Excuses((IF rotationFails THEN {"rotation"} ELSE {})
                   \cup (IF flagsFail THEN {"fixed"} ELSE {}))
  /\ GoesOn("idle")
  /\ UNCHANGED <<shownVars, strip, staged, agent, doubts>>

-----------------------------------------------------------------------------
(* The attach menu: send_media_via_gallery_picker.                          *)

(* The row of a file that could not be given the date of now may be behind  *)
(* others.                                                                  *)
Indexed(rows) == {Append(rows, "own"), <<"own">> \o rows}

(* stage_latest_media, up to the push, which may leave a file although it   *)
(* raises; before the try block, so that nothing is cleaned.                *)
PushMedia ==
  /\ step = "stage"
  /\ \/ GoesOn("index") /\ staged' = TRUE /\ UNCHANGED excused
     \/ /\ EndsBody("raised", "restore")
        /\ staged' \in BOOLEAN
        /\ Excuses(IF staged' THEN {"file"} ELSE {})
  /\ UNCHANGED <<shownVars, strip, agent, rotation, fixed, doubts>>

(* Mutant: the picker is opened all the same. *)
MediaIsPickedBlind ==
  /\ step = "index"
  /\ strip' \in {strip} \cup Indexed(strip)
  /\ GoesOn("chat")
  /\ UNCHANGED <<shownVars, staged, agent, rotation, fixed, excused, doubts>>

(* wait_for_media_indexed: the row is there. *)
MediaIsIndexed ==
  /\ step = "index"
  /\ strip' \in Indexed(strip)
  /\ GoesOn("chat")
  /\ UNCHANGED <<shownVars, staged, agent, rotation, fixed, excused, doubts>>

(* It is not, or not yet, or no query works: stage_latest_media raises. *)
IndexTimesOut ==
  /\ step = "index"
  /\ EndsBody("raised", "restore")
  /\ strip' \in {strip} \cup Indexed(strip)
  /\ Excuses({"file", "row"})
  /\ UNCHANGED <<shownVars, staged, agent, rotation, fixed, doubts>>

(* open_whatsapp_chat, verify_whatsapp_chat_ready: the chat opens, a dialog *)
(* comes up, or nothing has happened yet when the code goes on.             *)
OpenChat ==
  /\ step = "chat"
  /\ \/ showing' \in {ChatOf("own"), Away} /\ UNCHANGED coming
     \/ UNCHANGED showing /\ coming' = {ChatOf("own")}
  /\ GoesOn("attach")
  /\ UNCHANGED <<drafts, pending, messages, leftVars, doubts>>

(* tap_fixed_point on the attach button, which opens and closes the menu;   *)
(* then uiautomator2 is connected.  Nothing checks that the chat that is    *)
(* there is the one of the link.                                            *)
TapAttach ==
  /\ step = "attach"
  /\ \/ PutsUp(showing)
     \/ showing.at = "chat" /\ PutsUp(PanelOf(showing.chat))
     \/ showing.at = "panel" /\ PutsUp(ChatOf(showing.chat))
  /\ agent' = TRUE
  /\ GoesOn("pick")
  /\ Doubts((IF showing.chat # "own" THEN {"link"} ELSE {}) \cup Unopened)
  /\ UNCHANGED <<strip, staged, rotation, fixed, excused>>

(* wait_and_click_first on the first thumbnail, if need be after the tile   *)
(* of the gallery: the preview comes up, now or later, or the click is      *)
(* lost, as it is on a row whose file is gone.                              *)
PickMedia ==
  /\ step = "pick"
  /\ showing.at = "panel"
  /\ LET item == Last(strip)
         preview == PreviewOf(showing.chat, item)
     IN  /\ \/ PutsUp(showing)
            \/ item # "stale" /\ PutsUp(preview)
            \/ item # "stale" /\ coming' = coming \cup {preview}
               /\ UNCHANGED <<showing, drafts, pending, messages>>
         /\ Doubts((IF item # "own" /\ Contains(strip, "own") THEN {"newer"} ELSE {})
                   \cup (IF showing.chat # "own" THEN {"link"} ELSE {}))
  /\ GoesOn(IF plan.caption THEN "caption" ELSE "send")
  /\ UNCHANGED leftVars

(* The caption is typed into the preview or, blindly, into whatever chat is *)
(* there; one that is not all ASCII is left out.                            *)
TypeCaption ==
  /\ step = "caption"
  /\ GoesOn("send")
  /\ IF showing.at \in {"chat", "panel"}
       THEN /\ drafts' \in {drafts, drafts \cup {showing.chat}}
            /\ Doubts({"blind"})
       ELSE UNCHANGED <<drafts, doubts>>
  /\ UNCHANGED <<showing, coming, pending, messages, leftVars>>

(* enter_caption_and_send taps where the button should be. *)
TapSendPoint ==
  /\ step = "send" /\ pending < MaxPending
  /\ pending' = pending + 1
  /\ GoesOn("verify") \/ EndsBody("raised", "stop")
  /\ Doubts(IF showing.at # "preview" THEN {"blind"} ELSE {})
  /\ UNCHANGED <<showing, coming, drafts, messages, leftVars>>

ButtonIsShown ==
  \/ showing.at = "preview"
  \/ showing.at \in {"chat", "panel"} /\ showing.chat \in drafts

(* Mutant: the timeout is taken for success. *)
GoneOrTimedOut ==
  /\ step = "verify"
  /\ EndsBody("ok", "stop")
  /\ UNCHANGED <<shownVars, leftVars, doubts>>

(* wait_for_send_button_gone: selectors that cannot be read count as gone.  *)
ButtonIsGone ==
  /\ step = "verify"
  /\ \/ ~ButtonIsShown /\ UNCHANGED doubts
     \/ Doubts({"unread"})
  /\ EndsBody("ok", "stop")
  /\ UNCHANGED <<shownVars, leftVars>>

(* Any step before the end may raise: an adb command, the connection to     *)
(* uiautomator2, a restricted account, no thumbnail, a button that stays.   *)
PickerRaises ==
  /\ step \in {"chat", "attach", "pick", "caption", "verify"}
  /\ EndsBody("raised", "stop")
  /\ UNCHANGED <<shownVars, leftVars, doubts>>

(* The row of a file goes; a file has no more than one. *)
RowsOf(rows, item) == {i \in DOMAIN rows : rows[i] = item}
Unindexed(rows) ==
  IF RowsOf(rows, "own") = {} THEN {rows} ELSE {RemoveAt(rows, i) : i \in RowsOf(rows, "own")}

(* cleanup_staged_media: every call is best effort, and a query that fails  *)
(* ends the wait for the row to go.                                         *)
CleanUp ==
  /\ step = "clean"
  /\ \E rmFails, deleteFails \in BOOLEAN :
       /\ staged' = rmFails
       /\ strip' \in IF deleteFails THEN {strip} ELSE Unindexed(strip)
       /\ Excuses((IF rmFails THEN {"file"} ELSE {}) \cup (IF deleteFails THEN {"row"} ELSE {}))
  /\ GoesOn("restore")
  /\ UNCHANGED <<shownVars, agent, rotation, fixed, doubts>>

-----------------------------------------------------------------------------
(* The intent with a document: launch_whatsapp_direct_media and             *)
(* click_send_button without a text to confirm.                             *)

PushDocument ==
  /\ step = "push"
  /\ GoesOn("intent") \/ EndsBody("raised", "stop")
  /\ UNCHANGED <<shownVars, leftVars, doubts>>

(* The preview for the chat comes up, the contact picker, or nothing yet. *)
LaunchIntent ==
  /\ step = "intent"
  /\ \/ showing' \in {PreviewOf("own", "own"), Picker, Away} /\ UNCHANGED coming
     \/ UNCHANGED showing /\ coming' = {PreviewOf("own", "own")}
  /\ agent' = TRUE
  /\ GoesOn("click")
  /\ UNCHANGED <<drafts, pending, messages, strip, staged, rotation, fixed, excused, doubts>>

(* The button is clicked; a click that raises, before or after the phone    *)
(* has it, leads back to the search.                                        *)
ClickSend ==
  /\ step \in {"click", "confirm"} /\ pending < MaxPending
  /\ ButtonIsShown
  /\ pending' = pending + 1
  /\ GoesOn("click") \/ GoesOn(IF step = "click" THEN "confirm" ELSE "reconfirm")
  /\ Doubts(IF showing # PreviewOf("own", "own") THEN {"link"} ELSE {})
  /\ UNCHANGED <<showing, coming, drafts, messages, leftVars>>

(* The second click finds no button. *)
ClickRaises ==
  /\ step = "confirm"
  /\ GoesOn("click")
  /\ UNCHANGED <<shownVars, leftVars, doubts>>

(* No button in time. *)
NoButton ==
  /\ step = "click"
  /\ GoesOn("missing")
  /\ UNCHANGED <<shownVars, leftVars, doubts>>

(* message_entry_is_empty: some field is empty, that of the caption or of   *)
(* another screen too, or that of a chat which was open all the time.       *)
EntryIsEmpty ==
  /\ step \in {"confirm", "reconfirm", "missing"}
  /\ \/ /\ showing.at \in {"chat", "panel"} /\ showing.chat \notin drafts
        /\ Doubts((IF showing.chat # "own" THEN {"empty"} ELSE {}) \cup Unopened)
     \/ /\ \/ showing.at \in {"away", "picker"}
           \/ showing.at = "preview" /\ ~plan.caption
        /\ Doubts({"empty"})
  /\ EndsBody("ok", "stop")
  /\ UNCHANGED <<shownVars, leftVars>>

(* The contact picker, a restricted account, no connection, a field that is *)
(* not empty, or an adb command that fails.                                 *)
IntentRaises ==
  /\ step \in {"intent", "click", "reconfirm", "missing"}
  /\ EndsBody("raised", "stop")
  /\ UNCHANGED <<shownVars, leftVars, doubts>>

-----------------------------------------------------------------------------
(* The phone.                                                               *)

(* A tap on the point of the button sends what is there, or is lost.  What  *)
(* is pending when the job ends is what the next one finds.                 *)
TapIsHandled ==
  /\ step # "idle" /\ pending > 0
  /\ pending' = pending - 1
  /\ \/ UNCHANGED <<showing, drafts, messages>>
     \/ /\ ButtonIsShown
        /\ messages' = Append(messages,
             [chat |-> showing.chat,
              item |-> IF showing.at = "preview" THEN showing.item ELSE "words"])
        /\ showing' = ChatOf(showing.chat)
        /\ drafts' = IF showing.at = "preview" THEN drafts ELSE drafts \ {showing.chat}
  /\ UNCHANGED <<runVars, coming, leftVars, doubts>>

ScreenComesUp ==
  /\ step # "idle"
  /\ showing' \in coming /\ coming' = coming \ {showing'}
  /\ UNCHANGED <<runVars, drafts, pending, messages, leftVars, doubts>>

(* One that came before the file of the job is as good as an old one. *)
PictureArrives ==
  /\ step \in {"chat", "attach", "pick"}
  /\ ~Contains(strip, "new")
  /\ strip' = Append(strip, "new")
  /\ UNCHANGED <<runVars, shownVars, staged, agent, rotation, fixed, excused, doubts>>

(* The server dies, and nothing is put back. *)
SenderDies ==
  /\ step # "idle"
  /\ EndsBody("raised", "idle")
  /\ Excuses({"rotation", "fixed", "agent", "file", "row"})
  /\ UNCHANGED <<shownVars, strip, staged, agent, rotation, fixed, doubts>>

FileNext ==
  \/ EnterGuard \/ Wake \/ StopAgent \/ LeaveGuard
  \/ PushMedia \/ MediaIsIndexed \/ IndexTimesOut \/ OpenChat \/ TapAttach
  \/ PickMedia \/ TypeCaption \/ TapSendPoint \/ ButtonIsGone \/ PickerRaises \/ CleanUp
  \/ PushDocument \/ LaunchIntent \/ ClickSend \/ ClickRaises \/ NoButton
  \/ EntryIsEmpty \/ IntentRaises
  \/ TapIsHandled \/ ScreenComesUp \/ PictureArrives \/ SenderDies

FileSpec == FileInit /\ [][FileNext]_fileVars

-----------------------------------------------------------------------------
(* Properties.                                                              *)

(* Property: a send of a file sends that file, once, to the chat of the     *)
(* number, and nothing else.  It may send another picture only if one newer *)
(* than its own was in the gallery, words only if a draft stood in a chat   *)
(* or the caption was typed blindly, and to another chat only if what the   *)
(* link or intent called up was not there in time; and a tap or a preview   *)
(* that an earlier job left may be handled now (media_picker.py:162-207,    *)
(* 247-320, appium_media.py:431-440, whatsapp.py:505-601).                  *)
SentFileIsOwn ==
  /\ \A i \in DOMAIN messages :
       /\ messages[i].item \in {"own", "words"} \/ {"newer", "late"} \cap doubts # {}
       /\ messages[i].item = "words" => {"draft", "blind"} \cap doubts # {}
       /\ messages[i].chat = "own" \/ {"link", "late"} \cap doubts # {}
  /\ \/ "late" \in doubts
     \/ \A i, j \in DOMAIN messages :
          {messages[i].item, messages[j].item} \cap {"words"} = {} => i = j

(* Property: a job that reports success has sent its file to its chat,      *)
(* unless the code could not know: a newer picture, a link or an intent     *)
(* that had not come up when the code went on, no preview under the tap, a  *)
(* button that could not be read, an empty field that was not that of the   *)
(* chat (media_picker.py:210-259, whatsapp.py:366-401).                     *)
ReportedFileIsSent ==
  result = "ok" =>
    \/ \E i \in DOMAIN messages : messages[i] = [chat |-> "own", item |-> "own"]
    \/ {"unopened", "blind", "unread", "empty", "newer"} \cap doubts # {}

(* Property: when the send has ended, whatever raised on the way, the       *)
(* rotation is as it was found, the flags of the window manager and the     *)
(* registration of uiautomator2 are given back, and neither the staged file *)
(* nor its row is left, unless the call that does it failed, the settings   *)
(* could not be read, staging raised before there was anything to clean, or *)
(* the server died (adb.py:348-388, media_picker.py:335-345,                *)
(* appium_media.py:164-207).                                                *)
LeavesPhoneClean ==
  step = "idle" =>
    /\ rotation = "found" \/ "rotation" \in excused
    /\ fixed => "fixed" \in excused
    /\ agent => "agent" \in excused
    /\ staged => "file" \in excused
    /\ Contains(strip, "own") => "row" \in excused
===============================================================================
