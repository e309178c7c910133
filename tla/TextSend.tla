------------------------------- MODULE TextSend -------------------------------
(***************************************************************************)
(* One text message through the screens of WhatsApp: send_whatsapp         *)
(* (whatsapp.py) with the navigation that opens the chat                   *)
(* (chat_navigation.py).  The code sees the phone only through screens     *)
(* that may be slow, unreadable or gone, and decides by what it could      *)
(* read; the phone keeps a draft for each chat, handles taps when it gets  *)
(* to them, and opens a chat some time after it was told to.  A text is    *)
(* the intended one or another; a screen is the chat it shows, or          *)
(* Elsewhere.                                                              *)
(***************************************************************************)
EXTENDS Integers, Sequences, FiniteSets

CONSTANTS Chat,      \* the chats of the account
          Target,    \* the one of the phone number of the job
          Elsewhere, \* any other screen
          MaxRows,   \* bound: search results that are looked at
          MaxTaps    \* bound: taps on the send button that are not handled yet

ASSUME TextSendAssumption ==
  /\ Target \in Chat
  /\ Elsewhere \notin Chat
  /\ MaxRows \in Nat
  /\ MaxTaps \in Nat \ {0}

VARIABLES pc,      \* where send_whatsapp is
          route,   \* known_contact: None, True or False
          attempt, \* the first call of click_send_button, or the one without a keyboard
          screen,  \* the phone: what it shows
          opening, \* the chats that a row or a link has yet to open
          draft,   \* what stands in the compose field of each chat
          taps,    \* taps that the phone has not handled
          account, \* what became of the account
          old,     \* an earlier message with the same text shows its status icon
          sent,    \* history: the messages that left the phone
          trusted  \* history: what the code took for granted

code == <<pc, route, attempt, trusted>>
phone == <<screen, opening, draft, taps, account, old, sent>>
textVars == <<code, phone>>

Place == Chat \cup {Elsewhere}
TextPc == {"home", "search", "form", "verify", "link", "focus", "type", "check",
           "recheck", "fallback", "prefill", "click", "confirm", "reconfirm",
           "missing", "dismiss", "done", "failed"}
Draft == {"empty", "text", "other"}

(* Where the code looks for the send button, or is through with it. *)
AtButton == {"click", "confirm", "reconfirm", "missing", "dismiss", "done", "failed"}

(* A chat that opens late, as it is or with the text of the link. *)
Opening == [chat : Chat, fills : BOOLEAN]
Opens(c) == [chat |-> c, fills |-> FALSE]
OpensFilled(c) == [chat |-> c, fills |-> TRUE]

(* A row of the results, by what its digits are to those of the job: all of *)
(* them, their last eight, none (a contact with a name), or others.         *)
ResultRow == [chat : Chat, shows : {"number", "suffix", "name", "others"}]
Results == {rows \in UNION {[1..n -> ResultRow] : n \in 0..MaxRows} :
              \A i \in DOMAIN rows :
                /\ rows[i].shows = "number" => rows[i].chat = Target
                /\ rows[i].shows = "others" => rows[i].chat # Target}

TextTypeOK ==
  /\ pc \in TextPc
  /\ route \in {"none", "known", "new"}
  /\ attempt \in 1..2
  /\ screen \in Place
  /\ opening \in SUBSET Opening
  /\ draft \in [Place -> Draft]
  /\ taps \in 0..MaxTaps
  /\ account \in {"ok", "restricted", "logged_out"}
  /\ old \in BOOLEAN
  /\ sent \in Seq([chat : Chat, text : Draft \ {"empty"}])
  /\ trusted \in SUBSET {"running", "number", "row", "moved", "typed", "prefill",
                         "late", "again"}

(* Whatever an earlier job left: a chat that is open, drafts. *)
TextInit ==
  /\ pc = "home"
  /\ route \in {"none", "known", "new"}
  /\ attempt = 1
  /\ screen \in Place
  /\ opening = {}
  /\ draft \in [Place -> {"empty", "other"}]
  /\ taps = 0
  /\ account = "ok"
  /\ old \in BOOLEAN
  /\ sent = <<>>
  /\ trusted = {}

GoesTo(label) == pc' = label /\ UNCHANGED <<route, attempt>>
Trusts(flags) == trusted' = trusted \cup flags
Shows(places) == screen' \in places /\ UNCHANGED <<opening, draft, taps, account, old, sent>>
CallsUp(o) == opening' = opening \cup {o} /\ UNCHANGED <<screen, draft, taps, account, old, sent>>
Writes(texts) ==
  /\ \E text \in texts : draft' = [draft EXCEPT ![screen] = text]
  /\ UNCHANGED <<screen, opening, taps, account, old, sent>>

-----------------------------------------------------------------------------
(* Navigation: open_chat_via_ui.                                            *)

RowsThat(rows, shows) == {i \in DOMAIN rows : rows[i].shows = shows}
FirstOf(S) == CHOOSE i \in S : \A j \in S : i <= j

(* Mutant: the first row that could be the contact is taken. *)
FindFirstVisibleRow(rows, allowFirstVisible) ==
  LET some == {i \in DOMAIN rows : rows[i].shows # "others"}
  IN  IF some # {} THEN FirstOf(some) ELSE 0

(* find_matching_result_row, or 0. *)
FindMatchingResultRow(rows, allowFirstVisible) ==
  LET numbers  == RowsThat(rows, "number")
      suffixes == RowsThat(rows, "suffix")
      names    == RowsThat(rows, "name")
  IN  IF numbers # {} THEN FirstOf(numbers)
      ELSE IF suffixes # {} THEN FirstOf(suffixes)
      ELSE IF allowFirstVisible /\ names # {} THEN FirstOf(names)
      ELSE 0

(* known_contact is None, or there is no connection to the device: whatever *)
(* WhatsApp shows, it is not stopped.                                       *)
SkipNavigation ==
  /\ pc = "home"
  /\ GoesTo("link")
  /\ Trusts({"running"})
  /\ UNCHANGED phone

(* ensure_whatsapp_home: by its fast path, by BACK keys or by a restart. *)
ReachHome ==
  /\ pc = "home"
  /\ route # "none"
  /\ GoesTo(IF route = "known" THEN "search" ELSE "form")
  /\ Shows({Elsewhere})
  /\ UNCHANGED trusted

(* A row is matched and tapped; if the results changed in between, the row  *)
(* with its index, or at its place, is another one; a chat may open late.   *)
TapRow(allowFirstVisible) ==
  \E rows \in Results, c \in Chat :
    LET i == FindMatchingResultRow(rows, allowFirstVisible)
    IN  /\ i # 0
        /\ CallsUp(Opens(c))
        /\ Trusts((IF RowsThat(rows, "number") = {} THEN {"row"} ELSE {})
                   \cup (IF c # rows[i].chat THEN {"moved"} ELSE {}))

(* open_known_chat_via_search. *)
OpenKnownChat ==
  /\ pc = "search"
  /\ TapRow(TRUE)
  /\ GoesTo("verify")

(* create_contact_and_open_chat up to the snackbar of the saved contact,    *)
(* whose number is another one only if the field could not be read back.    *)
OpenSavedContact ==
  /\ pc = "form"
  /\ \/ CallsUp(Opens(Target)) /\ UNCHANGED trusted
     \/ (\E c \in Chat : CallsUp(Opens(c))) /\ Trusts({"number"})
  /\ GoesTo("verify")

(* The snackbar is missed: the row of the new contact is tapped. *)
OpenSavedRow ==
  /\ pc = "form"
  /\ TapRow(FALSE)
  /\ GoesTo("verify")

(* wait_for_message_entry: some chat is open. *)
VerifyChat ==
  /\ pc = "verify"
  /\ screen \in Chat
  /\ GoesTo("focus")
  /\ UNCHANGED <<trusted, phone>>

(* abort_navigation, from any step that fails or finds nothing in time:     *)
(* WhatsApp is stopped, unless adb fails too, and the link is tried.        *)
AbortNavigation ==
  /\ route # "none"
  /\ pc \in {"home", "search", "form", "verify"}
  /\ GoesTo("link")
  /\ \/ /\ screen' = Elsewhere /\ opening' = {}
        /\ UNCHANGED <<draft, taps, account, old, sent, trusted>>
     \/ UNCHANGED phone /\ Trusts({"running"})

(* launch_whatsapp_text: the chat of the number opens, a dialog comes up,   *)
(* or nothing has happened yet when the code goes on, and the chat opens    *)
(* later, or never.                                                         *)
LaunchWhatsAppText ==
  /\ pc = "link"
  /\ GoesTo("focus")
  /\ Shows({Target, Elsewhere}) \/ CallsUp(Opens(Target))
  /\ UNCHANGED trusted

-----------------------------------------------------------------------------
(* The compose field.                                                       *)

(* focus_message_entry finds a field, if need be any EditText. *)
FocusMessageEntry ==
  /\ pc = "focus"
  /\ account = "ok"
  /\ GoesTo("type")
  /\ UNCHANGED <<trusted, phone>>

(* None is found in time; only a restricted account is looked for again. *)
FocusFails ==
  /\ pc = "focus"
  /\ account # "restricted"
  /\ GoesTo("prefill")
  /\ UNCHANGED <<trusted, phone>>

(* human_type_text: the text is added to what stands in the field, or is    *)
(* set at the end if it is not all ASCII; and a key may be lost.            *)
HumanTypeText ==
  /\ pc = "type"
  /\ Writes({"text", "other"})
  /\ GoesTo("check")
  /\ UNCHANGED trusted

TypingRaises ==
  /\ pc = "type"
  /\ Writes({draft[screen], "other"})
  /\ GoesTo("fallback")
  /\ UNCHANGED trusted

(* verify_message_typed reads the text it typed. *)
TextIsVerified ==
  /\ pc \in {"check", "recheck"}
  /\ draft[screen] = "text"
  /\ GoesTo("click")
  /\ UNCHANGED <<trusted, phone>>

(* It reads nothing, and assumes that the text is correct. *)
TextIsUnreadable ==
  /\ pc \in {"check", "recheck"}
  /\ GoesTo("click")
  /\ Trusts({"typed"})
  /\ UNCHANGED phone

(* It reads something else, and sets the text at once. *)
TextIsSet ==
  /\ pc = "check"
  /\ draft[screen] # "text"
  /\ Writes({"text", "other"})
  /\ GoesTo("recheck")
  /\ UNCHANGED trusted

(* set_text raises, or the text is still another one. *)
VerifyRaises ==
  /\ pc \in {"check", "recheck"}
  /\ pc = "recheck" => draft[screen] # "text"
  /\ GoesTo("fallback")
  /\ UNCHANGED <<trusted, phone>>

(* clear_message_draft, as far as it gets. *)
ClearMessageDraft ==
  /\ pc = "fallback"
  /\ Writes({"empty", draft[screen]})
  /\ GoesTo("prefill")
  /\ UNCHANGED trusted

(* launch_whatsapp_prefilled_text: as with the other link, and what         *)
(* WhatsApp makes of the text in it is not verified.                        *)
Fills(c) == \E text \in {"text", draft[c]} : draft' = [draft EXCEPT ![c] = text]
Prefill ==
  /\ pc = "prefill"
  /\ \/ CallsUp(OpensFilled(Target))
     \/ Shows({Elsewhere})
     \/ screen' = Target /\ Fills(Target) /\ UNCHANGED <<opening, taps, account, old, sent>>
  /\ GoesTo("click")
  /\ Trusts({"prefill"})

-----------------------------------------------------------------------------
(* The send button: click_send_button.                                      *)

(* In a chat, the button is there as long as something stands in the field. *)
ButtonShown == account = "ok" /\ screen \in Chat /\ draft[screen] # "empty"

(* _outgoing_status_present: a message of this text has a status icon. *)
StatusShown ==
  /\ screen \in Chat
  /\ \/ old
     \/ \E i \in DOMAIN sent : sent[i] = [chat |-> screen, text |-> "text"]

(* The button is found and tapped; a tap that raises, after the phone got   *)
(* it or before, leads back to the search for the button.                   *)
TapSend ==
  /\ pc = "click"
  /\ ButtonShown
  /\ taps < MaxTaps
  /\ taps' = taps + 1
  /\ GoesTo("confirm") \/ GoesTo("click")
  /\ UNCHANGED <<trusted, screen, opening, draft, account, old, sent>>

(* The message is seen with its icon, or the field is seen empty; outside   *)
(* of a chat that may be any field.                                         *)
Confirmed ==
  /\ pc \in {"confirm", "reconfirm", "missing"}
  /\ StatusShown \/ draft[screen] = "empty" \/ screen = Elsewhere
  /\ GoesTo("done")
  /\ UNCHANGED <<trusted, phone>>

(* Neither is seen in time: the button is tapped once more, or the second   *)
(* tap raises since the button is gone.                                     *)
TapAgain ==
  /\ pc = "confirm"
  /\ \/ /\ ButtonShown /\ taps < MaxTaps /\ taps' = taps + 1
        /\ GoesTo("reconfirm") \/ GoesTo("click")
     \/ taps' = taps /\ GoesTo("click")
  /\ UNCHANGED <<trusted, screen, opening, draft, account, old, sent>>

(* Mutant: the second tap is not confirmed again. *)
GivesUpQuietly ==
  /\ pc \in {"reconfirm", "missing"}
  /\ GoesTo(IF pc = "reconfirm" THEN "done" ELSE "dismiss")
  /\ UNCHANGED <<trusted, phone>>

(* Mutant: every call that raises has its keyboard dismissed. *)
GivesUpNever ==
  /\ pc \in {"reconfirm", "missing"}
  /\ GoesTo("dismiss")
  /\ UNCHANGED <<trusted, phone>>

(* Neither is seen again, or no button was there: the first call raises and *)
(* the keyboard is dismissed, the second call is the end.                   *)
GivesUp ==
  /\ pc \in {"reconfirm", "missing"}
  /\ GoesTo(IF attempt = 1 THEN "dismiss" ELSE "failed")
  /\ UNCHANGED <<trusted, phone>>

(* No button in time; only a restricted account is looked for again. *)
ButtonMissing ==
  /\ pc = "click"
  /\ account # "restricted"
  /\ GoesTo("missing")
  /\ UNCHANGED <<trusted, phone>>

(* Mutant: the link with the text is opened again. *)
DismissAndPrefill ==
  /\ pc = "dismiss"
  /\ taps = 0
  /\ screen' = Target
  /\ draft' = [draft EXCEPT ![Target] = "text"]
  /\ attempt' = attempt + 1
  /\ pc' = "click"
  /\ UNCHANGED <<route, trusted, opening, taps, account, old, sent>>

(* The BACK key: without a keyboard it leaves the chat.  The phone handles  *)
(* keys and taps in their order.                                            *)
DismissKeyboard ==
  /\ pc = "dismiss"
  /\ taps = 0
  /\ Shows({screen, Elsewhere})
  /\ attempt' = attempt + 1
  /\ pc' = "click"
  /\ UNCHANGED <<route, trusted>>

(* There is no connection to uiautomator: no field, no button. *)
ConnectFails ==
  /\ pc \in {"focus", "click"}
  /\ GoesTo(IF pc = "focus" THEN "prefill"
            ELSE IF attempt = 1 THEN "dismiss" ELSE "failed")
  /\ UNCHANGED <<trusted, phone>>

(* raise_if_whatsapp_restricted, raise_if_whatsapp_logged_out. *)
RaiseIfLost ==
  /\ pc \in {"focus", "click"}
  /\ account # "ok"
  /\ GoesTo("failed")
  /\ UNCHANGED <<trusted, phone>>

(* WhatsApp is not installed, or an adb command fails. *)
AdbRaises ==
  /\ pc \in {"home", "link", "prefill", "dismiss"}
  /\ GoesTo("failed")
  /\ UNCHANGED <<trusted, phone>>

-----------------------------------------------------------------------------
(* The phone.                                                               *)

(* It handles a tap: on the button, the message leaves; anywhere else, or   *)
(* if the tap is lost, nothing happens.                                     *)
HandleTap ==
  /\ taps > 0
  /\ taps' = taps - 1
  /\ \/ UNCHANGED <<draft, sent>>
     \/ /\ ButtonShown
        /\ sent' = Append(sent, [chat |-> screen, text |-> draft[screen]])
        /\ draft' = [draft EXCEPT ![screen] = "empty"]
  /\ UNCHANGED <<code, screen, opening, account, old>>

(* A chat opens that was tapped or called up; the code notices nothing: at  *)
(* the button, it takes what was seen before for what is there.             *)
ChatOpens ==
  /\ account = "ok"
  /\ \E o \in opening :
       /\ screen' = o.chat
       /\ opening' = opening \ {o}
       /\ IF o.fills THEN Fills(o.chat) ELSE UNCHANGED draft
  /\ Trusts((IF pc \in AtButton THEN {"late"} ELSE {})
             \cup (IF sent # <<>> THEN {"again"} ELSE {}))
  /\ UNCHANGED <<pc, route, attempt, taps, account, old, sent>>

AccountIsLost ==
  /\ account = "ok"
  /\ account' \in {"restricted", "logged_out"}
  /\ screen' = Elsewhere
  /\ UNCHANGED <<code, opening, draft, taps, old, sent>>

TextNext ==
  \/ SkipNavigation \/ ReachHome \/ OpenKnownChat \/ OpenSavedContact \/ OpenSavedRow
  \/ VerifyChat \/ AbortNavigation \/ LaunchWhatsAppText
  \/ FocusMessageEntry \/ FocusFails \/ HumanTypeText \/ TypingRaises
  \/ TextIsVerified \/ TextIsUnreadable \/ TextIsSet \/ VerifyRaises
  \/ ClearMessageDraft \/ Prefill
  \/ TapSend \/ Confirmed \/ TapAgain \/ GivesUp \/ ButtonMissing \/ DismissKeyboard
  \/ ConnectFails \/ RaiseIfLost \/ AdbRaises
  \/ HandleTap \/ ChatOpens \/ AccountIsLost

TextSpec == TextInit /\ [][TextNext]_textVars

-----------------------------------------------------------------------------
(* Properties.                                                              *)

(* Property: the retries of one job send at most one message: however late  *)
(* the phone handles taps and whatever could not be confirmed, no field is  *)
(* filled again, unless a chat that was called up opens only after the      *)
(* message has left (whatsapp.py:505-638).                                  *)
SentByOneTap == Len(sent) <= 1 \/ "again" \in trusted

(* Property: what is sent is the text of the job unless the field could not *)
(* be read back or was filled by a link, or another chat opened since; and  *)
(* it is sent to the chat of the number, unless navigation was skipped      *)
(* while another chat was open, the number in the form could not be read    *)
(* back, the results changed before the tap, or no row of the results       *)
(* showed the number (chat_navigation.py:728-769, whatsapp.py:919-944).     *)
SentAsIntended ==
  \A i \in DOMAIN sent :
    /\ sent[i].text = "text" \/ {"typed", "prefill", "late"} \cap trusted # {}
    /\ sent[i].chat = Target \/ {"running", "number", "row", "moved"} \cap trusted # {}

(* Property: a job that reports success has sent a message, unless an       *)
(* earlier message of the same text stood in the chat, the chat was left,   *)
(* the text was not verified, or a chat opened when the code was already at *)
(* the button: a draft is never taken for a message (whatsapp.py:505-601,   *)
(* "callers never move on while a draft is still sitting unsent in the      *)
(* box").                                                                   *)
ReportedIsSent ==
  pc = "done" =>
    \/ sent # <<>>
    \/ old \/ screen = Elsewhere
    \/ {"typed", "prefill", "late"} \cap trusted # {}
=============================================================================
