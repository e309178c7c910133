---------------------------- MODULE RecoveryScreens ----------------------------
(***************************************************************************)
(* One recovery on the screens of WhatsApp: the stages of the recovery     *)
(* worker (recovery_worker.py:199-276) and the UI automation they run      *)
(* (whatsapp_recovery.py).  A stage dumps the screen, decides by the       *)
(* markers it finds, and taps where a control was; by then the phone may   *)
(* show something else.  The phone answers a tap later, the account        *)
(* changes when WhatsApp decides, a dump may be an old one, and what the   *)
(* chats say looks like a marker.                                          *)
(***************************************************************************)
EXTENDS UiDump

CONSTANTS Own,            \* the digits of the number of the phone
          Shown,          \* what the country field may show by itself
          Astray,         \* what the form may hold when taps or keys were lost
          Previews,       \* the markers that texts of chats may contain
          NationalDigits, \* NATIONAL_NUMBER_DIGITS
          MaxAttempts     \* ADB_AUTOMATION_RECOVERY_MAX_ATTEMPTS

ASSUME RecoveryScreensAssumption ==
  /\ Own \in Seq(0..9) /\ Own # <<>>
  /\ Shown \subseteq Seq(0..9)
  /\ Astray \subseteq [{"country", "national"} -> Seq(0..9)]
  /\ {} \in Previews
  /\ NationalDigits \in Nat \ {0, 1}
  /\ MaxAttempts \in Nat \ {0}

VARIABLES status,   \* the status of the recovery job
          error,    \* and why it failed
          attempts,
          pc,       \* where the stage is
          looked,   \* has it dumped the screen for this step? the dump is in xml
          taps,     \* _tap_through_submit: the taps so far
          late,     \* _wait_for_login: has the deadline passed?
          before,   \* history: the file on the phone is of before the recovery
          unsure,   \* history: the verdict in status was read off such a file, or off
                    \* a screen that was misread
          screen,   \* the phone: what it shows
          coming,   \* the screen that a tap has called up, or NoFile
          form,     \* the two fields of the registration form
          slip,     \* history: what went wrong when they were last typed
          account,
          appealed  \* history: an appeal has reached WhatsApp

jobVars == <<status, error, attempts, pc, looked, taps, late, before, unsure>>
phoneVars == <<screen, coming, form, slip, account, appealed>>
screenVars == <<dumpVars, jobVars, phoneVars>>

(* The screens, by the markers of the selector tables that they carry. *)
Marks == [home     |-> {"home"},
          banner   |-> {"restricted", "home"},
          appeal   |-> {"review", "restricted"},
          detail   |-> {"restricted", "submit"},
          sent     |-> {"pending", "restricted"},
          banned   |-> {"ban", "restricted", "review"},
          welcome  |-> {"agree"},
          number   |-> {"register", "submit"},
          dialog   |-> {"submit"},
          code     |-> {},
          notice   |-> {"submit"},
          chat     |-> {},
          launcher |-> {}]
Screen == DOMAIN Marks

(* A look is a screen with what the country field on it shows and the       *)
(* markers in the texts of the chats on it.                                 *)
Look == [screen : Screen, country : Seq(0..9), texts : Previews]
LooksOf(shown, country) ==
  [screen : {shown},
   country : {IF shown = "number" THEN country ELSE <<>>},
   texts : IF shown \in {"home", "banner", "chat"} THEN Previews ELSE {{}}]

ASSUME NoFileAssumption == NoFile \notin Screen \cup Look

Account == {"restricted", "reviewing", "banned", "open", "in"}

(* What WhatsApp shows of an account when it comes to the front. *)
ScreensOf == [restricted |-> {"banner", "appeal"}, reviewing |-> {"sent"},
              banned |-> {"banned"}, open |-> {"welcome", "number"}, in |-> {"home"}]

Stage == {"requesting_review", "review_pending", "relogin"}
Verdict == {"review_pending", "recovered", "failed"}
ScreensPc == {"idle", "open", "look", "submit", "reread",
              "reopen", "agree", "number", "send", "confirm", "login", "code", "relogin"}
LoginPc == {"login", "relogin"}
Field == {"country", "national"}
Slip == {"none", "unseen", "country", "lost"}

(* The form as it comes up; it may hold what an earlier recovery left. *)
Drafts ==
  {[field \in Field |-> IF field = "country" THEN code ELSE <<>>] : code \in Shown \cup {<<>>}}
  \cup Astray
FormComesUp == form' \in Drafts /\ slip' = "unseen"

ScreensTypeOK ==
  /\ DumpTypeOK(Look)
  /\ status \in Stage \cup {"recovered", "failed"}
  /\ error \in {"none", "banned", "attempts"}
  /\ attempts \in 0..(MaxAttempts - 1)
  /\ pc \in ScreensPc
  /\ looked \in BOOLEAN /\ late \in BOOLEAN
  /\ taps \in 0..2
  /\ before \in BOOLEAN /\ unsure \in BOOLEAN
  /\ screen \in Screen
  /\ coming \in Screen \cup {NoFile}
  /\ form \in [Field -> Seq(0..9)]
  /\ slip \in Slip
  /\ account \in Account
  /\ appealed \in BOOLEAN

(* mark_requesting_review is done; the phone shows the ban, a chat, a       *)
(* notice, or not even WhatsApp.  Its file is of any screen that an earlier *)
(* recovery or send has seen.                                               *)
ScreensInit ==
  /\ DumpInit({NoFile} \cup UNION {LooksOf(shown, country) :
                                  shown \in Screen, country \in Shown \cup {<<>>}})
  /\ status = "requesting_review"
  /\ error = "none" /\ attempts = 0 /\ pc = "idle" /\ taps = 0
  /\ looked = FALSE /\ late = FALSE /\ before = TRUE /\ unsure = FALSE
  /\ screen \in {"banner", "appeal", "chat", "notice", "launcher"}
  /\ coming = NoFile
  /\ form = [field \in Field |-> <<>>] /\ slip = "unseen"
  /\ account = "restricted"
  /\ appealed = FALSE

-----------------------------------------------------------------------------
(* What the code makes of a dump.                                           *)

(* Mutant: the markers of the home screen are checked first. *)
ClassifyHomeFirst(marks) ==
  LET has(mark) == mark \in marks
  IN  IF has("home") THEN "logged_in"
      ELSE IF has("ban") THEN "permanent_ban"
      ELSE IF has("pending") THEN "review_pending"
      ELSE IF has("review") \/ has("restricted") THEN "restricted"
      ELSE IF has("register") \/ has("agree") THEN "can_register"
      ELSE "unknown"

(* classify_elements: the first rule that matches. *)
ClassifyElements(marks) ==
  LET has(mark) == mark \in marks
  IN  IF has("ban") THEN "permanent_ban"
      ELSE IF has("pending") THEN "review_pending"
      ELSE IF has("review") \/ has("restricted") THEN "restricted"
      ELSE IF has("register") \/ has("agree") THEN "can_register"
      ELSE IF has("home") THEN "logged_in"
      ELSE "unknown"

Carries(look) == Marks[look.screen] \cup look.texts
Class == ClassifyElements(Carries(xml))
Has(mark) == mark \in Carries(xml)

(* The texts of chats make the screen look like another one. *)
Misread == xml # NoFile /\ Class # ClassifyElements(Marks[xml.screen])

Settled == {"review_pending", "can_register", "logged_in", "permanent_ban"}

(* split_country_and_national *)
SplitCountryAndNational(digits, shown) ==
  LET k == Len(shown)
      n == Len(digits) - NationalDigits
      Cut(i) == [country |-> SubSeq(digits, 1, i),
                 national |-> SubSeq(digits, i + 1, Len(digits))]
  IN  IF k > 0
        THEN IF k < Len(digits) /\ SubSeq(digits, 1, k) = shown
               THEN Cut(k)
               ELSE [country |-> shown, national |-> digits]
        ELSE IF n \in 1..2 /\ SubSeq(digits, 1, 2) = <<5, 5>> THEN Cut(2)
        ELSE IF n > 0 THEN Cut(n)
        ELSE [country |-> <<>>, national |-> digits]

-----------------------------------------------------------------------------
(* The dump that a step begins with.                                        *)

GoesTo(label) ==
  /\ pc' = label /\ looked' = FALSE
  /\ UNCHANGED <<status, error, attempts, unsure>>

Dumping == pc \notin {"idle", "open", "reopen", "code"} /\ ~looked

Looks ==
  /\ Dumping
  /\ \/ \E look \in LooksOf(screen, form.country) : DumpShows(look) /\ before' = FALSE
     \/ DumpShowsOld /\ UNCHANGED before
  /\ looked' = TRUE
  /\ UNCHANGED <<status, error, attempts, pc, taps, late, unsure, phoneVars>>

RunsLadder ==
  /\ Dumping
  /\ NextRung
  /\ UNCHANGED <<jobVars, phoneVars>>

RebootsPhone ==
  /\ Dumping
  /\ RebootRung
  /\ screen' = "launcher" /\ coming' = NoFile
  /\ \/ UNCHANGED <<form, slip>>
     \/ account = "open" /\ FormComesUp
  /\ UNCHANGED <<jobVars, account, appealed>>

-----------------------------------------------------------------------------
(* What a tap does on the phone.                                            *)

Calls(screens) ==
  /\ coming' \in screens
  /\ UNCHANGED <<screen, form, slip, account, appealed>>

(* The appeal is in. *)
Appeals ==
  /\ account = "restricted"
  /\ account' = "reviewing" /\ appealed' = TRUE
  /\ coming' = "sent"
  /\ UNCHANGED <<screen, form, slip>>

(* WhatsApp is asked to register the number in the form. *)
Registers == account = "open" /\ Calls({"code"})

Press(mark) ==
  \/ /\ screen \in {"appeal", "detail"} /\ mark \in {"review", "submit"}
     /\ Calls({"detail"}) \/ Appeals
  \/ screen = "welcome" /\ mark = "agree" /\ Calls({"number"})
  \/ /\ screen = "number" /\ mark = "submit"
     /\ form.country # <<>> /\ form.national # <<>>
     /\ Calls({"dialog"}) \/ Registers
  \/ screen = "dialog" /\ mark = "submit" /\ Registers
  \/ screen = "notice" /\ mark = "submit" /\ Calls(ScreensOf[account])
  \/ screen \in {"home", "banner"} /\ Calls({"chat"})
  \/ screen = "banner" /\ Calls({"appeal"})

(* tap_element: where the dump showed the control.  The tap may be lost, or *)
(* hit any control of the screen that is there by now.                      *)
Tap(mark) ==
  /\ \/ UNCHANGED phoneVars
     \/ screen = xml.screen /\ Press(mark)
     \/ screen # xml.screen /\ \E other \in Marks[screen] : Press(other)
  /\ UNCHANGED <<dumpVars, before>>

Leaves == UNCHANGED <<before, phoneVars, dumpVars>>

-----------------------------------------------------------------------------
(* The end of a stage.                                                      *)

(* The locals of the stage are gone. *)
Forgets == taps' = 0 /\ late' = FALSE

Ends(outcome, why) ==
  /\ pc' = "idle" /\ looked' = FALSE
  /\ status' = outcome /\ error' = why
  /\ unsure' = /\ outcome \in Verdict
               /\ before \/ Misread \/ (unsure /\ outcome = status)
  /\ Forgets
  /\ UNCHANGED attempts

(* Mutant: one attempt too many. *)
RetryOrFailLate ==
  IF attempts >= MaxAttempts
    THEN Ends("failed", "attempts")
    ELSE /\ attempts' = attempts + 1
         /\ pc' = "idle" /\ looked' = FALSE
         /\ Forgets
         /\ UNCHANGED <<status, error, unsure>>

(* _retry_or_fail *)
RetryOrFail ==
  IF attempts + 1 >= MaxAttempts
    THEN Ends("failed", "attempts")
    ELSE /\ attempts' = attempts + 1
         /\ pc' = "idle" /\ looked' = FALSE
         /\ Forgets
         /\ UNCHANGED <<status, error, unsure>>

(* Mutant: after the taps the appeal is taken to be in. *)
ApplyScreenHopeful(class) ==
  IF class = "can_register" THEN Ends("relogin", "none")
  ELSE IF class = "logged_in" THEN Ends("recovered", "none")
  ELSE IF class = "permanent_ban" THEN Ends("failed", "banned")
  ELSE IF class = "restricted" /\ status = "review_pending"
    THEN Ends("requesting_review", "none")
  ELSE Ends("review_pending", "none")

(* _apply_screen *)
ApplyScreen(class) ==
  IF class = "can_register" THEN Ends("relogin", "none")
  ELSE IF class = "logged_in" THEN Ends("recovered", "none")
  ELSE IF class = "permanent_ban" THEN Ends("failed", "banned")
  ELSE IF class = "review_pending" THEN Ends("review_pending", "none")
  ELSE IF status = "requesting_review" THEN RetryOrFail
  ELSE IF class = "restricted" THEN Ends("requesting_review", "none")
  ELSE Ends("review_pending", "none")

(* The exception of a step whose adb command failed, or whose control is    *)
(* not there: _handle_stage_error.                                          *)
CommandRaises ==
  /\ pc \in {"open", "reopen"} \/ looked
  /\ RetryOrFail
  /\ Leaves

LadderRaises ==
  /\ Dumping
  /\ DumpRaises
  /\ RetryOrFail
  /\ UNCHANGED <<before, phoneVars>>

-----------------------------------------------------------------------------
(* The stages.                                                              *)

(* The job is due and claimed. *)
BeginStage ==
  /\ pc = "idle"
  /\ status \in Stage
  /\ GoesTo("open")
  /\ UNCHANGED <<dumpVars, taps, late, before, phoneVars>>

(* open_whatsapp: WhatsApp is as it was left, or shows what it has to show  *)
(* of the account, under a notice or not.                                   *)
OpenWhatsApp ==
  /\ pc \in {"open", "reopen"}
  /\ GoesTo(IF pc = "open" THEN "look" ELSE "agree")
  /\ screen' \in {screen, "notice"} \cup ScreensOf[account]
  /\ UNCHANGED <<dumpVars, taps, late, before, coming, form, slip, account, appealed>>

(* request_account_review, up to the tap on the review button. *)
RequestReview ==
  /\ pc = "look" /\ looked
  /\ status = "requesting_review"
  /\ \/ Class \in Settled /\ ApplyScreen(Class) /\ Leaves
     \/ Class \notin Settled /\ ~Has("review") /\ RetryOrFail /\ Leaves
     \/ /\ Class \notin Settled /\ Has("review")
        /\ Tap("review")
        /\ GoesTo("submit")
        /\ Forgets

(* _tap_through_submit *)
TapThroughSubmit ==
  /\ pc = "submit" /\ looked
  /\ IF Class \in Settled \/ ~Has("submit")
       THEN GoesTo("reread") /\ Forgets /\ Leaves
       ELSE /\ Tap("submit")
            /\ \/ taps < 2 /\ GoesTo("submit") /\ taps' = taps + 1 /\ UNCHANGED late
               \/ taps = 2 /\ GoesTo("reread") /\ Forgets

(* The registration_state after the taps, and that of a pending review. *)
StateIsRead ==
  /\ \/ pc = "reread"
     \/ pc = "look" /\ status = "review_pending"
  /\ looked
  /\ ApplyScreen(Class)
  /\ Leaves

(* _handle_relogin_stage *)
ReloginStage ==
  /\ pc = "look" /\ looked
  /\ status = "relogin"
  /\ IF Class \in Settled \ {"can_register"}
       THEN ApplyScreen(Class)
       ELSE GoesTo("reopen") /\ UNCHANGED <<taps, late>>
  /\ Leaves

(* perform_relogin: _tap_text of the button of the welcome screen. *)
TapAgree ==
  /\ pc = "agree" /\ looked
  /\ IF Has("agree") THEN Tap("agree") ELSE Leaves
  /\ GoesTo("number")
  /\ UNCHANGED <<taps, late>>

Split == SplitCountryAndNational(Own, xml.country)

(* Mutant: the field is not cleared first. *)
TypeAfterLeftover(old, digits) == old \o digits

(* _replace_field_digits, when all the keys arrive. *)
ReplaceFieldDigits(old, digits) == digits

(* _enter_phone_number types a country only where the dump shows none. *)
TypesCountry == Split.country \notin {<<>>, xml.country}

Entered ==
  [field \in Field |->
     IF field = "national" THEN ReplaceFieldDigits(form.national, Split.national)
     ELSE IF TypesCountry THEN ReplaceFieldDigits(form.country, Split.country)
     ELSE form.country]

(* The dump shows the code of another country, or another code than the     *)
(* field that is left alone has by now.                                     *)
WrongCountry ==
  \/ Len(xml.country) >= Len(Own)
  \/ xml.country # SubSeq(Own, 1, Len(xml.country))
  \/ ~TypesCountry /\ form.country # xml.country

(* A tap that was lost leaves the focus on the other field, and of the DEL  *)
(* keys and the digits some may be lost.                                    *)
TypesNumber ==
  \/ form' = Entered /\ slip' = IF WrongCountry THEN "country" ELSE "none"
  \/ form' \in Astray /\ slip' = "lost"

(* _enter_phone_number, with the fields in the dump.  On another screen its *)
(* taps hit what is there, and the keys do nothing.                         *)
EnterPhoneNumber ==
  /\ pc = "number" /\ looked
  /\ xml.screen = "number"
  /\ IF screen = "number"
       THEN TypesNumber /\ UNCHANGED <<dumpVars, before, screen, coming, account, appealed>>
       ELSE Tap("field")
  /\ GoesTo("send")
  /\ UNCHANGED <<taps, late>>

(* Without them, the national number goes to whatever has the focus, or to  *)
(* the last text field of the screen in the dump.                           *)
EnterBlindly ==
  /\ pc = "number" /\ looked
  /\ xml.screen # "number"
  /\ \/ Tap("field")
     \/ /\ screen = "number"
        /\ form' \in {[form EXCEPT !.national = ReplaceFieldDigits(@, Split.national)]}
                     \cup Astray
        /\ slip' = "unseen"
        /\ UNCHANGED <<dumpVars, before, screen, coming, account, appealed>>
  /\ GoesTo("send")
  /\ UNCHANGED <<taps, late>>

(* The connection is lost before both fields are filled. *)
EnterRaises ==
  /\ pc = "number" /\ looked
  /\ screen = "number"
  /\ \/ /\ xml.screen = "number" /\ TypesCountry
        /\ form' = [form EXCEPT !.country = ReplaceFieldDigits(@, Split.country)]
     \/ form' \in Astray
  /\ slip' = "unseen"
  /\ RetryOrFail
  /\ UNCHANGED <<dumpVars, before, screen, coming, account, appealed>>

(* The number is submitted, and confirmed if the dialog comes up. *)
TapSubmit ==
  /\ pc \in {"send", "confirm"} /\ looked
  /\ IF Has("submit") THEN Tap("submit") ELSE Leaves
  /\ GoesTo(IF pc = "send" THEN "confirm" ELSE "login")
  /\ Forgets

(* _wait_for_login *)
WaitForLogin ==
  /\ pc \in LoginPc /\ looked
  /\ \/ Class = "logged_in" /\ Ends("recovered", "none")
     \/ Class # "logged_in" /\ ~late /\ GoesTo(pc) /\ UNCHANGED <<taps, late>>
     \/ Class # "logged_in" /\ late /\ pc = "login" /\ GoesTo("code") /\ Forgets
     \/ Class # "logged_in" /\ late /\ pc = "relogin" /\ RetryOrFail
  /\ Leaves

DeadlinePasses ==
  /\ pc \in LoginPc /\ ~late
  /\ late' = TRUE
  /\ UNCHANGED <<dumpVars, status, error, attempts, pc, looked, taps, before, unsure, phoneVars>>

(* The code for the number in the form has come, if that is the phone's.    *)
LogsIn ==
  /\ screen = "code" /\ account = "open"
  /\ form.country \o form.national = Own
  /\ account' = "in"
  /\ coming' = "home"
  /\ UNCHANGED <<screen, form, slip, appealed>>

(* read_sms_otp, _type_otp_code: the code may be an old one, and the field  *)
(* may not be empty.                                                        *)
TypeOtpCode ==
  /\ pc = "code"
  /\ LogsIn \/ UNCHANGED phoneVars
  /\ GoesTo("relogin")
  /\ Forgets
  /\ UNCHANGED <<dumpVars, before>>

(* No code can be read. *)
NoOtpCode ==
  /\ pc = "code"
  /\ RetryOrFail
  /\ Leaves

-----------------------------------------------------------------------------
(* The phone, and what becomes of the account.                              *)

AppShows ==
  /\ coming # NoFile
  /\ screen' = coming /\ coming' = NoFile
  /\ UNCHANGED <<dumpVars, jobVars, form, slip, account, appealed>>

(* The screens that WhatsApp leaves up. *)
Fits == ScreensOf[account] \cup {"notice", "launcher"}
        \cup (IF account = "restricted" THEN {"detail", "chat"} ELSE {})
        \cup (IF account = "in" THEN {"chat"} ELSE {})
        \cup (IF account = "open" THEN {"dialog", "code"} ELSE {})

AppRefreshes ==
  /\ coming = NoFile /\ screen \notin Fits
  /\ screen' \in ScreensOf[account]
  /\ UNCHANGED <<dumpVars, jobVars, coming, form, slip, account, appealed>>

WhatsAppDecides ==
  /\ coming = NoFile
  /\ account' \in IF account = "reviewing" THEN Account
                 ELSE IF account = "restricted" THEN {"open", "banned"} ELSE {}
  /\ IF account' = "open" THEN FormComesUp ELSE UNCHANGED <<form, slip>>
  /\ UNCHANGED <<dumpVars, jobVars, screen, coming, appealed>>

AutoFill == LogsIn /\ UNCHANGED <<dumpVars, jobVars>>

(* The server dies; the job is claimed again by the next one. *)
ServerRestarts ==
  /\ pc # "idle"
  /\ GoesTo("idle")
  /\ rung' = 0
  /\ Forgets
  /\ UNCHANGED <<xml, before, phoneVars>>

StageStep ==
  \/ Looks \/ RunsLadder \/ RebootsPhone \/ LadderRaises \/ CommandRaises
  \/ OpenWhatsApp \/ RequestReview \/ TapThroughSubmit \/ StateIsRead
  \/ ReloginStage \/ TapAgree \/ EnterPhoneNumber \/ EnterBlindly \/ EnterRaises
  \/ TapSubmit \/ WaitForLogin \/ TypeOtpCode \/ NoOtpCode

PhoneStep ==
  \/ AppShows \/ AppRefreshes \/ WhatsAppDecides \/ AutoFill

ScreensNext ==
  \/ BeginStage \/ StageStep \/ DeadlinePasses \/ ServerRestarts
  \/ status \in Stage /\ PhoneStep

ScreensSpec == ScreensInit /\ [][ScreensNext]_screenVars

(* Fairness: the recovery thread's calls return or raise (adb commands have *)
(* a timeout), and the clock advances.                                      *)
ScreensFairSpec ==
  /\ ScreensSpec
  /\ WF_screenVars(StageStep)
  /\ WF_screenVars(DeadlinePasses)

-----------------------------------------------------------------------------
(* Properties.                                                              *)

(* Property: what the job ends in is what the account was: a recovered one  *)
(* was logged in again, and one that failed as banned was banned, however   *)
(* the phone and the code missed each other; only the file of before the    *)
(* recovery, or a chat whose text looks like a marker, can make it          *)
(* otherwise (whatsapp_recovery.py:135-150, 202-225,                        *)
(* recovery_worker.py:217-262, adb_ui.py:186-191).                          *)
VerdictIsTrue ==
  /\ status = "recovered" => account = "in" \/ unsure
  /\ error = "banned" => account = "banned" \/ unsure

(* Property: a job waits for a review only if the appeal reached WhatsApp:  *)
(* taps that were lost or hit another screen are not taken for an appeal;   *)
(* with the same two exceptions (whatsapp_recovery.py:281-318,              *)
(* adb_ui.py:186-191).                                                      *)
ReviewIsAwaited == status = "review_pending" => appealed \/ unsure

(* Property: WhatsApp is never asked to register another number than that   *)
(* of the phone, whatever an earlier attempt left in the form, unless the   *)
(* number was not typed at all or without the fields in the dump, the       *)
(* country field showed the code of another country or another code than    *)
(* in the dump, or a tap or keys were lost: the fields are never read back  *)
(* (whatsapp_recovery.py:326-345, 422-467).                                 *)
RegistersOwnNumber ==
  [][(coming # "code" /\ coming' = "code") =>
       form.country \o form.national = Own \/ slip # "none"]_screenVars

(* Liveness: a stage ends, whatever the phone shows, loses or refuses: the  *)
(* ladder runs out, the taps are counted, the wait for the login has a      *)
(* deadline (adb_ui.py:186-216, whatsapp_recovery.py:296-318, 476-489).     *)
StageEnds == []<>(pc = "idle")
===============================================================================
