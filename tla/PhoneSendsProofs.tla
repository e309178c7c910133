--------------------------- MODULE PhoneSendsProofs ---------------------------
(***************************************************************************)
(* Theorems about PhoneSends, for all chats and any number of search       *)
(* results and taps.                                                       *)
(*                                                                         *)
(* TextInv says what the code has made sure of at each point of the send   *)
(* of a text: nothing is sent and no tap is pending before the search for  *)
(* the send button, no field is filled after it, and which doubts are on   *)
(* record about the chat and the text on the screen.  FileInv does so for  *)
(* a file: which chat and which preview can be on the screen or about to   *)
(* come up, that there is one preview, and what the job still holds.       *)
(***************************************************************************)
EXTENDS PhoneSends, WellFoundedInduction, TLAPS

(* Where the code navigates and fills the field. *)
Before == {"home", "search", "form", "verify", "link", "focus", "type", "check",
           "recheck", "fallback", "prefill"}

(* What the code took for granted about the chat, and about the text. *)
ChatInDoubt == {"running", "number", "row", "moved"} \cap trusted # {}
TextInDoubt == {"typed", "prefill", "late"} \cap trusted # {}

ButtonOnlyThen ==
  /\ pc \in Before => taps = 0 /\ sent = <<>>
  /\ pc = "dismiss" => attempt = 1

AgainIsLate == "again" \in trusted => "late" \in trusted

(* What is yet to open was called up by navigation or a link.               *)
OpeningsAreKnown ==
  /\ pc \in {"home", "search", "form"} => opening = {}
  /\ pc \in {"search", "form"} => screen = Elsewhere
  /\ \A o \in opening : ChatInDoubt \/ o.chat = Target

(* Nothing was tapped, and nothing will be. *)
Idle == pc = "failed" /\ taps = 0

SentLeavesNoDraft ==
  sent # <<>> =>
    \/ "again" \in trusted
    \/ Len(sent) = 1 /\ (screen \in Chat => draft[screen] = "empty")

TextIsThere ==
  (pc \notin Before /\ ~Idle /\ screen \in Chat /\ sent = <<>>) =>
    TextInDoubt \/ draft[screen] = "text"

ChatIsThere ==
  (pc \notin {"home", "search", "form"} /\ ~Idle /\ screen \in Chat) =>
    ChatInDoubt \/ screen = Target

TextInv ==
  /\ TextTypeOK
  /\ ButtonOnlyThen
  /\ AgainIsLate
  /\ OpeningsAreKnown
  /\ SentLeavesNoDraft
  /\ TextIsThere
  /\ ChatIsThere
  /\ SentAsIntended
  /\ ReportedIsSent

-----------------------------------------------------------------------------
(* The rows of the results.                                                 *)

(* A set of natural numbers has a first one. *)
LEMMA FirstOfIsMember ==
  ASSUME NEW S \in SUBSET Nat, S # {}
  PROVE  FirstOf(S) \in S
<1>1. \E R : /\ \A i, j \in Nat : <<i, j>> \in R <=> i < j
             /\ \E i \in S : \A j \in S : ~(<<j, i>> \in R)
  <2>1. \A i, j \in Nat : <<i, j>> \in OpToRel(<, Nat) <=> i < j
    BY DEF OpToRel
  <2>2. \E i \in S : \A j \in S : ~(<<j, i>> \in OpToRel(<, Nat))
    BY NatLessThanWellFounded, WFMin
  <2> QED  BY <2>1, <2>2
<1>2. PICK R : /\ \A i, j \in Nat : <<i, j>> \in R <=> i < j
               /\ \E i \in S : \A j \in S : ~(<<j, i>> \in R)
  BY <1>1
<1>3. PICK i \in S : \A j \in S : ~(<<j, i>> \in R)
  BY <1>2
<1>4. ASSUME NEW j \in S PROVE i <= j
  <2>1. i \in Nat /\ j \in Nat
    OBVIOUS
  <2>2. ~(j < i)
    BY <1>2, <1>3, <2>1
  <2> QED  BY <2>1, <2>2
<1> QED  BY <1>4 DEF FirstOf

LEMMA RowsAreNumbered ==
  ASSUME NEW rows \in Results
  PROVE  DOMAIN rows \subseteq Nat /\ rows \in [DOMAIN rows -> ResultRow]
BY TextSendAssumption DEF Results

(* The row that is tapped is one of the results; if one of them shows the   *)
(* number, it opens the chat of the number.                                 *)
LEMMA RowMatches ==
  ASSUME NEW rows \in Results, NEW visible \in BOOLEAN,
         FindMatchingResultRow(rows, visible) # 0
  PROVE  LET i == FindMatchingResultRow(rows, visible)
         IN  /\ i \in DOMAIN rows
             /\ rows[i].chat \in Chat
             /\ rows # <<>>
             /\ RowsThat(rows, "number") # {} => rows[i].chat = Target
<1> DEFINE i == FindMatchingResultRow(rows, visible)
<1>1. \A shows : RowsThat(rows, shows) # {} =>
         FirstOf(RowsThat(rows, shows)) \in RowsThat(rows, shows)
  BY RowsAreNumbered, FirstOfIsMember DEF RowsThat
<1>2. \/ i \in RowsThat(rows, "number")
      \/ RowsThat(rows, "number") = {} /\ i \in DOMAIN rows
  BY <1>1 DEF FindMatchingResultRow, RowsThat
<1>3. i \in DOMAIN rows
  BY <1>2 DEF RowsThat
<1>4. rows[i].chat \in Chat /\ rows # <<>>
  BY <1>3, RowsAreNumbered DEF ResultRow
<1>5. i \in RowsThat(rows, "number") => rows[i].chat = Target
  BY DEF RowsThat, Results
<1> QED  BY <1>2, <1>3, <1>4, <1>5

-----------------------------------------------------------------------------
(* Types.                                                                   *)

LEMMA TextInitOK == TextInit => TextInv
<1> SUFFICES ASSUME TextInit PROVE TextInv
  OBVIOUS
<1>1. TextTypeOK
  BY TextSendAssumption DEF TextInit, TextTypeOK, TextPc, Draft
<1>2. /\ ButtonOnlyThen /\ AgainIsLate /\ OpeningsAreKnown /\ SentLeavesNoDraft
      /\ TextIsThere /\ ChatIsThere /\ SentAsIntended /\ ReportedIsSent
  BY DEF TextInit, ButtonOnlyThen, AgainIsLate, OpeningsAreKnown, SentLeavesNoDraft,
    TextIsThere, ChatIsThere, SentAsIntended, ReportedIsSent, Before
<1> QED  BY <1>1, <1>2 DEF TextInv

(* What is told to open is a chat. *)
LEMMA Called ==
  ASSUME NEW c \in Chat
  PROVE  /\ Opens(c) \in Opening /\ Opens(c).chat = c
         /\ OpensFilled(c) \in Opening /\ OpensFilled(c).chat = c
BY DEF Opening, Opens, OpensFilled

(* Whichever row is tapped, a doubt is recorded unless it is the one that   *)
(* shows the number.                                                        *)
KnownIsCalled == \E c \in Chat : CallsUp(Opens(c)) /\ (ChatInDoubt' \/ c = Target)

LEMMA TapRowCalls ==
  ASSUME NEW visible \in BOOLEAN, TapRow(visible)
  PROVE  /\ UNCHANGED <<screen, draft, taps, account, old, sent>>
         /\ trusted \subseteq trusted' /\ trusted' \subseteq trusted \cup {"row", "moved"}
         /\ KnownIsCalled
<1>1. PICK rows \in Results, c \in Chat :
         /\ FindMatchingResultRow(rows, visible) # 0
         /\ CallsUp(Opens(c))
         /\ Trusts((IF RowsThat(rows, "number") = {} THEN {"row"} ELSE {})
                    \cup (IF c # rows[FindMatchingResultRow(rows, visible)].chat
                          THEN {"moved"} ELSE {}))
  BY DEF TapRow
<1>2. RowsThat(rows, "number") # {} =>
        rows[FindMatchingResultRow(rows, visible)].chat = Target
  BY <1>1, RowMatches
<1>3. ChatInDoubt' \/ c = Target
  BY <1>1, <1>2 DEF Trusts, ChatInDoubt
<1>4. KnownIsCalled
  BY <1>1, <1>3 DEF KnownIsCalled
<1> QED  BY <1>1, <1>4 DEF CallsUp, Trusts

LEMMA TextTypesStep ==
  ASSUME TextTypeOK, ButtonOnlyThen, TextNext
  PROVE  TextTypeOK'
<1> USE TextSendAssumption DEF TextTypeOK, GoesTo, Shows, Trusts, phone, TextPc, Place
<1>1. CASE SkipNavigation \/ ReachHome \/ VerifyChat \/ AbortNavigation
  BY <1>1 DEF SkipNavigation, ReachHome, VerifyChat, AbortNavigation
<1>2. CASE OpenKnownChat \/ OpenSavedRow
  <2>1. PICK visible \in BOOLEAN : TapRow(visible)
    BY <1>2 DEF OpenKnownChat, OpenSavedRow
  <2>2. /\ UNCHANGED <<screen, draft, taps, account, old, sent>>
        /\ trusted' \subseteq trusted \cup {"row", "moved"}
        /\ KnownIsCalled
    BY <2>1, TapRowCalls
  <2>3. opening' \in SUBSET Opening
    BY <2>2, Called DEF KnownIsCalled, CallsUp
  <2>4. pc' = "verify" /\ UNCHANGED <<route, attempt>>
    BY <1>2 DEF OpenKnownChat, OpenSavedRow
  <2> QED  BY <2>2, <2>3, <2>4
<1>3. CASE OpenSavedContact
  BY <1>3, Called DEF OpenSavedContact, CallsUp
<1>4. CASE \/ FocusMessageEntry \/ FocusFails
           \/ TextIsVerified \/ TextIsUnreadable \/ VerifyRaises
  <2>1. CASE FocusMessageEntry \/ FocusFails
    BY <2>1 DEF FocusMessageEntry, FocusFails
  <2>2. CASE TextIsVerified \/ TextIsUnreadable \/ VerifyRaises
    BY <2>2 DEF TextIsVerified, TextIsUnreadable, VerifyRaises
  <2> QED  BY <1>4, <2>1, <2>2
<1>5. CASE HumanTypeText \/ TypingRaises \/ TextIsSet \/ ClearMessageDraft
  <2>1. CASE HumanTypeText \/ TypingRaises
    BY <2>1 DEF HumanTypeText, TypingRaises, Writes, Draft
  <2>2. CASE TextIsSet \/ ClearMessageDraft
    BY <2>2 DEF TextIsSet, ClearMessageDraft, Writes, Draft
  <2> QED  BY <1>5, <2>1, <2>2
<1>6. CASE LaunchWhatsAppText \/ Prefill
  <2>1. CASE LaunchWhatsAppText
    BY <2>1, Called DEF LaunchWhatsAppText, CallsUp
  <2>2. CASE Prefill
    BY <2>2, Called DEF Prefill, CallsUp, Fills, Draft
  <2> QED  BY <1>6, <2>1, <2>2
<1>7. CASE TapSend \/ TapAgain
  <2>1. (taps' = taps) \/ (taps < MaxTaps /\ taps' = taps + 1)
    BY <1>7 DEF TapSend, TapAgain
  <2>2. taps' \in 0..MaxTaps
    BY <2>1
  <2>3. UNCHANGED <<route, attempt, trusted, screen, opening, draft, account, old, sent>>
    BY <1>7 DEF TapSend, TapAgain
  <2>4. pc' \in TextPc
    BY <1>7 DEF TapSend, TapAgain
  <2> QED  BY <2>2, <2>3, <2>4
<1>8. CASE Confirmed \/ GivesUp \/ ButtonMissing \/ ConnectFails \/ RaiseIfLost \/ AdbRaises
  BY <1>8 DEF Confirmed, GivesUp, ButtonMissing, ConnectFails, RaiseIfLost, AdbRaises
<1>9. CASE DismissKeyboard
  BY <1>9 DEF DismissKeyboard, ButtonOnlyThen
<1>10. CASE HandleTap
  <2>1. taps' \in 0..MaxTaps
    BY <1>10 DEF HandleTap
  <2>2. sent' \in Seq([chat : Chat, text : Draft \ {"empty"}])
    <3>1. CASE UNCHANGED sent
      BY <3>1
    <3>2. CASE ~UNCHANGED sent
      <4>1. /\ screen \in Chat /\ draft[screen] \in Draft \ {"empty"}
            /\ sent' = Append(sent, [chat |-> screen, text |-> draft[screen]])
        BY <1>10, <3>2 DEF HandleTap, ButtonShown
      <4> QED  BY <4>1
    <3> QED  BY <3>1, <3>2
  <2>3. draft' \in [Place -> Draft]
    BY <1>10 DEF HandleTap, Draft
  <2> QED  BY <1>10, <2>1, <2>2, <2>3 DEF HandleTap, code
<1>11. CASE ChatOpens
  <2>1. PICK o \in opening : /\ screen' = o.chat /\ opening' = opening \ {o}
                             /\ IF o.fills THEN Fills(o.chat) ELSE UNCHANGED draft
    BY <1>11 DEF ChatOpens
  <2>2. o.chat \in Chat
    BY DEF Opening
  <2>3. draft' \in [Place -> Draft]
    BY <2>1, <2>2 DEF Fills, Draft
  <2>4. trusted' \subseteq trusted \cup {"late", "again"}
    BY <1>11 DEF ChatOpens
  <2>5. UNCHANGED <<pc, route, attempt, taps, account, old, sent>>
    BY <1>11 DEF ChatOpens
  <2> QED  BY <2>1, <2>2, <2>3, <2>4, <2>5
<1>12. CASE AccountIsLost
  BY <1>12 DEF AccountIsLost, code
<1> QED
  BY <1>1, <1>2, <1>3, <1>4, <1>5, <1>6, <1>7, <1>8, <1>9, <1>10, <1>11, <1>12 DEF TextNext

-----------------------------------------------------------------------------
(* Steps.                                                                   *)

(* Before the button nothing is sent: the chat is all there is to know. *)
LEMMA BeforeStep ==
  ASSUME TextInv, pc \in Before, pc' \in Before, UNCHANGED <<taps, sent>>
  PROVE  /\ ButtonOnlyThen' /\ SentLeavesNoDraft' /\ TextIsThere'
         /\ SentAsIntended' /\ ReportedIsSent'
<1>1. sent' = <<>> /\ taps' = 0
  BY DEF TextInv, ButtonOnlyThen
<1> QED
  BY <1>1 DEF ButtonOnlyThen, SentLeavesNoDraft, TextIsThere, SentAsIntended,
    ReportedIsSent, Before

(* A chat that is shown stays as much in doubt as it was. *)
LEMMA ChatStays ==
  ASSUME ChatIsThere, pc \notin {"home", "search", "form"},
         trusted \subseteq trusted',
         screen' \in {screen, Target, Elsewhere}, ~Idle
  PROVE  ChatIsThere'
BY TextSendAssumption DEF ChatIsThere, ChatInDoubt

LEMMA NavigationStep ==
  ASSUME TextInv,
         \/ SkipNavigation \/ ReachHome \/ OpenKnownChat \/ OpenSavedContact
         \/ OpenSavedRow \/ VerifyChat \/ AbortNavigation \/ LaunchWhatsAppText
  PROVE  /\ pc \in Before /\ pc' \in Before /\ UNCHANGED <<taps, sent>>
         /\ ChatIsThere'
<1> USE TextSendAssumption DEF GoesTo, Shows, Trusts, phone, Before, Idle
<1>1. CASE SkipNavigation
  BY <1>1 DEF SkipNavigation, ChatIsThere, ChatInDoubt
<1>2. CASE ReachHome
  BY <1>2 DEF ReachHome, ChatIsThere
<1>3. CASE OpenKnownChat
  BY <1>3, TapRowCalls DEF OpenKnownChat, TextInv, OpeningsAreKnown, ChatIsThere
<1>4. CASE OpenSavedContact
  BY <1>4 DEF OpenSavedContact, CallsUp, TextInv, OpeningsAreKnown, ChatIsThere
<1>5. CASE OpenSavedRow
  BY <1>5, TapRowCalls DEF OpenSavedRow, TextInv, OpeningsAreKnown, ChatIsThere
<1>6. CASE VerifyChat
  BY <1>6, ChatStays DEF VerifyChat, TextInv
<1>7. CASE AbortNavigation
  BY <1>7 DEF AbortNavigation, ChatIsThere, ChatInDoubt
<1>8. CASE LaunchWhatsAppText
  BY <1>8, ChatStays DEF LaunchWhatsAppText, CallsUp, TextInv
<1> QED  BY <1>1, <1>2, <1>3, <1>4, <1>5, <1>6, <1>7, <1>8

LEMMA FieldStep ==
  ASSUME TextInv,
         \/ FocusMessageEntry \/ FocusFails \/ HumanTypeText \/ TypingRaises
         \/ TextIsSet \/ VerifyRaises \/ ClearMessageDraft
  PROVE  /\ pc \in Before /\ pc' \in Before /\ UNCHANGED <<taps, sent>>
         /\ ChatIsThere'
<1>1. /\ pc \in Before \ {"home", "search", "form"} /\ pc' \in Before
      /\ UNCHANGED <<taps, sent, trusted, screen>>
  BY DEF GoesTo, Writes, phone, Before, FocusMessageEntry, FocusFails, HumanTypeText,
    TypingRaises, TextIsSet, VerifyRaises, ClearMessageDraft
<1> QED  BY <1>1, ChatStays DEF TextInv, Before, Idle

(* The text was read, or it is in doubt. *)
LEMMA FilledStep ==
  ASSUME TextInv, TextIsVerified \/ TextIsUnreadable \/ Prefill
  PROVE  /\ ButtonOnlyThen' /\ SentLeavesNoDraft' /\ TextIsThere' /\ ChatIsThere'
         /\ SentAsIntended' /\ ReportedIsSent'
<1>1. /\ pc \in Before \ {"home", "search", "form"} /\ pc' = "click"
      /\ UNCHANGED <<taps, sent>>
      /\ trusted \subseteq trusted'
      /\ screen' \in {screen, Target, Elsewhere}
  BY DEF GoesTo, Trusts, Shows, CallsUp, phone, Before, TextIsVerified, TextIsUnreadable,
    Prefill
<1>2. sent' = <<>>
  BY <1>1 DEF TextInv, ButtonOnlyThen
<1>3. TextInDoubt' \/ draft'[screen'] = "text"
  BY DEF TextIsVerified, TextIsUnreadable, Prefill, Trusts, TextInDoubt, phone
<1>4. ChatIsThere'
  BY <1>1, ChatStays DEF TextInv, Before, Idle
<1>5. /\ ButtonOnlyThen' /\ SentLeavesNoDraft' /\ TextIsThere'
      /\ SentAsIntended' /\ ReportedIsSent'
  BY <1>1, <1>2, <1>3 DEF ButtonOnlyThen, SentLeavesNoDraft, TextIsThere,
    SentAsIntended, ReportedIsSent, Before
<1> QED  BY <1>4, <1>5

(* Once the search for the button has begun, the code changes nothing that  *)
(* the invariant is about; it reports success on what it saw.               *)
LEMMA AfterStep ==
  ASSUME TextInv, pc \notin Before, pc' \notin Before, ~Idle,
         UNCHANGED <<trusted, draft, account, old, sent>>,
         screen' \in {screen, Elsewhere},
         pc' = "dismiss" => attempt' = 1,
         pc' = "done" => pc = "done" \/ StatusShown \/ draft[screen] = "empty" \/ screen = Elsewhere
  PROVE  /\ ButtonOnlyThen' /\ SentLeavesNoDraft' /\ TextIsThere' /\ ChatIsThere'
         /\ SentAsIntended' /\ ReportedIsSent'
<1> USE TextSendAssumption DEF TextInv
<1>1. ButtonOnlyThen' /\ SentLeavesNoDraft'
  BY DEF ButtonOnlyThen, SentLeavesNoDraft
<1>2. TextIsThere'
  BY DEF TextIsThere, TextInDoubt
<1>3. ChatIsThere'
  BY DEF ChatIsThere, ChatInDoubt, Before
<1>4. SentAsIntended'
  BY DEF SentAsIntended
<1>5. ReportedIsSent'
  <2> SUFFICES ASSUME pc' = "done", sent = <<>>, ~old, screen' # Elsewhere,
                      {"typed", "prefill", "late"} \cap trusted = {}
               PROVE  FALSE
    BY DEF ReportedIsSent
  <2>1. screen \in Chat
    BY DEF TextTypeOK, Place
  <2>2. draft[screen] = "text"
    BY <2>1 DEF TextIsThere, TextInDoubt
  <2>3. ~StatusShown
    BY DEF StatusShown
  <2>4. pc = "done"
    BY <2>1, <2>2, <2>3
  <2> QED  BY <2>4 DEF ReportedIsSent
<1> QED  BY <1>1, <1>2, <1>3, <1>4, <1>5

LEMMA ButtonStep ==
  ASSUME TextInv,
         \/ TapSend \/ Confirmed \/ TapAgain \/ GivesUp \/ ButtonMissing
         \/ DismissKeyboard
  PROVE  /\ ButtonOnlyThen' /\ SentLeavesNoDraft' /\ TextIsThere' /\ ChatIsThere'
         /\ SentAsIntended' /\ ReportedIsSent'
<1>1. /\ pc \notin Before /\ pc' \notin Before /\ ~Idle
      /\ UNCHANGED <<trusted, draft, account, old, sent>>
      /\ screen' \in {screen, Elsewhere}
      /\ pc' = "dismiss" => attempt' = 1
      /\ pc' = "done" => StatusShown \/ draft[screen] = "empty" \/ screen = Elsewhere
  BY DEF TapSend, Confirmed, TapAgain, GivesUp, ButtonMissing, DismissKeyboard,
    GoesTo, Shows, phone, Before, Idle
<1> QED  BY <1>1, AfterStep

LEMMA FailureStep ==
  ASSUME TextInv, ConnectFails \/ RaiseIfLost \/ AdbRaises
  PROVE  /\ ButtonOnlyThen' /\ SentLeavesNoDraft' /\ TextIsThere' /\ ChatIsThere'
         /\ SentAsIntended' /\ ReportedIsSent'
<1>1. /\ UNCHANGED <<trusted, phone>>
      /\ pc' \in {"prefill", "dismiss", "failed"}
      /\ pc # "failed"
      /\ pc' = "prefill" => pc = "focus"
      /\ pc' = "dismiss" => pc = "click" /\ attempt' = 1
  BY DEF ConnectFails, RaiseIfLost, AdbRaises, GoesTo
<1>2. CASE pc \in Before
  <2>1. sent' = <<>> /\ taps' = 0
    BY <1>1, <1>2 DEF TextInv, ButtonOnlyThen, phone
  <2>2. pc' \in {"prefill", "failed"}
    BY <1>1, <1>2 DEF Before
  <2>3. ChatIsThere'
    BY <1>1, <2>1, <2>2 DEF TextInv, ChatIsThere, ChatInDoubt, Idle, phone
  <2> QED
    BY <2>1, <2>2, <2>3 DEF ButtonOnlyThen, SentLeavesNoDraft, TextIsThere,
      SentAsIntended, ReportedIsSent, Before, Idle
<1>3. CASE pc \notin Before
  <2>1. pc' \in {"dismiss", "failed"} /\ ~Idle
    BY <1>1, <1>3 DEF Before, Idle
  <2> QED  BY <1>1, <1>3, <2>1, AfterStep DEF Before, phone
<1> QED  BY <1>2, <1>3

(* A tap that is handled sends what stands in the field of the chat. *)
LEMMA HandleTapStep ==
  ASSUME TextInv, HandleTap
  PROVE  /\ ButtonOnlyThen' /\ SentLeavesNoDraft' /\ TextIsThere' /\ ChatIsThere'
         /\ SentAsIntended' /\ ReportedIsSent'
<1> USE TextSendAssumption
<1>1. /\ UNCHANGED <<code, screen, old>> /\ taps > 0 /\ taps \in Nat
      /\ pc \notin Before /\ ~Idle
  BY DEF HandleTap, TextInv, TextTypeOK, ButtonOnlyThen, Idle
<1>2. CASE UNCHANGED <<draft, sent>>
  BY <1>1, <1>2 DEF TextInv, ButtonOnlyThen, SentLeavesNoDraft, TextIsThere,
    TextInDoubt, ChatIsThere, ChatInDoubt, SentAsIntended, ReportedIsSent, code,
    Before, Idle
<1>3. CASE ~UNCHANGED <<draft, sent>>
  <2>1. /\ screen \in Chat /\ draft[screen] # "empty"
        /\ sent' = Append(sent, [chat |-> screen, text |-> draft[screen]])
        /\ draft' = [draft EXCEPT ![screen] = "empty"]
    BY <1>3 DEF HandleTap, ButtonShown
  <2>2. CASE "again" \in trusted
    <3>1. /\ "late" \in trusted
          /\ sent' # <<>> /\ sent \in Seq([chat : Chat, text : Draft \ {"empty"}])
      BY <2>1, <2>2 DEF TextInv, AgainIsLate, TextTypeOK
    <3>2. ChatInDoubt \/ screen = Target
      BY <1>1, <2>1 DEF TextInv, ChatIsThere, Before
    <3>3. ASSUME NEW i \in DOMAIN sent'
          PROVE  /\ sent'[i].text = "text" \/ TextInDoubt
                 /\ sent'[i].chat = Target \/ ChatInDoubt
      <4>1. CASE i \in DOMAIN sent
        BY <2>1, <3>1, <4>1 DEF TextInv, SentAsIntended, TextInDoubt, ChatInDoubt
      <4>2. CASE i \notin DOMAIN sent
        BY <2>1, <3>1, <3>2, <4>2 DEF TextInDoubt
      <4> QED  BY <4>1, <4>2
    <3>4. SentAsIntended'
      BY <1>1, <3>3 DEF SentAsIntended, TextInDoubt, ChatInDoubt, code
    <3> QED
      BY <1>1, <2>2, <3>1, <3>2, <3>4 DEF TextInv, ButtonOnlyThen, SentLeavesNoDraft,
        TextIsThere, ChatIsThere, ChatInDoubt, ReportedIsSent, code
  <2>3. CASE "again" \notin trusted
    <3>1. sent = <<>>
      BY <2>1, <2>3 DEF TextInv, SentLeavesNoDraft
    <3>2. sent' = <<[chat |-> screen, text |-> draft[screen]]>>
      BY <2>1, <3>1
    <3>3. draft'[screen'] = "empty"
      BY <1>1, <2>1 DEF TextInv, TextTypeOK, code
    <3>4. TextInDoubt \/ draft[screen] = "text"
      BY <1>1, <2>1, <3>1 DEF TextInv, TextIsThere
    <3>5. ChatInDoubt \/ screen = Target
      BY <1>1, <2>1 DEF TextInv, ChatIsThere, Before
    <3>6. SentAsIntended'
      BY <1>1, <3>2, <3>4, <3>5 DEF SentAsIntended, TextInDoubt, ChatInDoubt, code
    <3>7. sent' # <<>> /\ Len(sent') = 1
      BY <3>2
    <3>8. ChatIsThere'
      BY <1>1, <3>5 DEF ChatIsThere, ChatInDoubt, code
    <3> QED
      BY <1>1, <3>3, <3>6, <3>7, <3>8 DEF TextInv, ButtonOnlyThen, SentLeavesNoDraft,
        TextIsThere, ReportedIsSent, code
  <2> QED  BY <2>2, <2>3
<1> QED  BY <1>2, <1>3

(* A chat that opens was called up; at the button, the code is in doubt     *)
(* from then on, and a message that has left may have a second one.         *)
LEMMA ChatOpensStep ==
  ASSUME TextInv, ChatOpens
  PROVE  /\ ButtonOnlyThen' /\ SentLeavesNoDraft' /\ TextIsThere' /\ ChatIsThere'
         /\ SentAsIntended' /\ ReportedIsSent'
<1>1. PICK o \in opening : screen' = o.chat
  BY DEF ChatOpens
<1>2. /\ UNCHANGED <<pc, attempt, taps, old, sent>>
      /\ trusted \subseteq trusted'
      /\ pc \in AtButton => "late" \in trusted'
      /\ sent # <<>> => "again" \in trusted'
      /\ pc \in Before \/ pc \in AtButton
  BY DEF ChatOpens, Trusts, TextInv, TextTypeOK, TextPc, Before, AtButton
<1>3. ButtonOnlyThen' /\ SentLeavesNoDraft'
  BY <1>2 DEF TextInv, ButtonOnlyThen, SentLeavesNoDraft
<1>4. TextIsThere' /\ ReportedIsSent'
  BY <1>2 DEF TextIsThere, TextInDoubt, ReportedIsSent, AtButton
<1>5. ChatIsThere'
  BY <1>1, <1>2 DEF TextInv, OpeningsAreKnown, ChatIsThere, ChatInDoubt
<1>6. SentAsIntended'
  BY <1>2 DEF TextInv, SentAsIntended
<1> QED  BY <1>3, <1>4, <1>5, <1>6

LEMMA AccountIsLostStep ==
  ASSUME TextInv, AccountIsLost
  PROVE  /\ ButtonOnlyThen' /\ SentLeavesNoDraft' /\ TextIsThere' /\ ChatIsThere'
         /\ SentAsIntended' /\ ReportedIsSent'
BY TextSendAssumption DEF TextInv, AccountIsLost, code, ButtonOnlyThen,
  SentLeavesNoDraft, TextIsThere, ChatIsThere, SentAsIntended, ReportedIsSent

(* Navigation calls up the chat of the number, or a doubt is recorded; the  *)
(* links call up no other.                                                  *)
LEMMA OpeningStep ==
  ASSUME TextInv, TextNext
  PROVE  AgainIsLate' /\ OpeningsAreKnown'
<1> DEFINE Keeps == /\ trusted \subseteq trusted'
                    /\ "again" \in trusted' => "again" \in trusted
           Goes == pc' \notin {"home", "search", "form"}
<1> USE DEF GoesTo, Trusts, phone
<1>1. CASE SkipNavigation \/ ReachHome \/ VerifyChat
  <2>1. Keeps
    BY <1>1 DEF SkipNavigation, ReachHome, VerifyChat
  <2>2. OpeningsAreKnown'
    BY <1>1 DEF SkipNavigation, ReachHome, VerifyChat, Shows, TextInv, OpeningsAreKnown,
      ChatInDoubt
  <2> QED  BY <2>1, <2>2 DEF TextInv, AgainIsLate
<1>2. CASE OpenKnownChat \/ OpenSavedRow
  <2>1. Goes /\ opening = {}
    BY <1>2 DEF OpenKnownChat, OpenSavedRow, TextInv, OpeningsAreKnown
  <2>2. /\ Keeps
        /\ KnownIsCalled
    BY <1>2, TapRowCalls DEF OpenKnownChat, OpenSavedRow
  <2>3. OpeningsAreKnown'
    BY <2>1, <2>2, Called DEF OpeningsAreKnown, KnownIsCalled, CallsUp
  <2> QED  BY <2>2, <2>3 DEF TextInv, AgainIsLate
<1>3. CASE OpenSavedContact
  <2>1. Goes /\ Keeps /\ opening = {}
    BY <1>3 DEF OpenSavedContact, TextInv, OpeningsAreKnown
  <2>2. \E c \in Chat : opening' = {Opens(c)} /\ (ChatInDoubt' \/ c = Target)
    BY <1>3, <2>1, TextSendAssumption DEF OpenSavedContact, CallsUp, ChatInDoubt
  <2> QED  BY <2>1, <2>2, Called DEF TextInv, AgainIsLate, OpeningsAreKnown
<1>4. CASE AbortNavigation
  BY <1>4 DEF AbortNavigation, TextInv, AgainIsLate, OpeningsAreKnown, ChatInDoubt
<1>5. CASE LaunchWhatsAppText \/ Prefill
  <2>1. Goes /\ Keeps
    BY <1>5 DEF LaunchWhatsAppText, Prefill
  <2>2. opening' \subseteq opening \cup {Opens(Target), OpensFilled(Target)}
    BY <1>5 DEF LaunchWhatsAppText, Prefill, Shows, CallsUp
  <2> QED
    BY <2>1, <2>2, Called, TextSendAssumption DEF TextInv, AgainIsLate, OpeningsAreKnown,
      ChatInDoubt
<1>6. CASE \/ FocusMessageEntry \/ FocusFails \/ HumanTypeText \/ TypingRaises
           \/ TextIsVerified \/ TextIsUnreadable \/ TextIsSet \/ VerifyRaises
           \/ ClearMessageDraft
  <2>1. Goes /\ Keeps /\ UNCHANGED opening
    BY <1>6 DEF FocusMessageEntry, FocusFails, HumanTypeText, TypingRaises, TextIsVerified,
      TextIsUnreadable, TextIsSet, VerifyRaises, ClearMessageDraft, Writes
  <2> QED  BY <2>1 DEF TextInv, AgainIsLate, OpeningsAreKnown, ChatInDoubt
<1>7. CASE \/ TapSend \/ Confirmed \/ TapAgain \/ GivesUp \/ ButtonMissing \/ DismissKeyboard
           \/ ConnectFails \/ RaiseIfLost \/ AdbRaises
  <2>1. Goes /\ UNCHANGED <<trusted, opening>>
    BY <1>7 DEF TapSend, Confirmed, TapAgain, GivesUp, ButtonMissing, DismissKeyboard,
      ConnectFails, RaiseIfLost, AdbRaises, Shows
  <2> QED  BY <2>1 DEF TextInv, AgainIsLate, OpeningsAreKnown, ChatInDoubt
<1>8. CASE ChatOpens
  <2>1. opening # {} /\ opening' \subseteq opening /\ pc' = pc
    BY <1>8 DEF ChatOpens
  <2>2. /\ trusted \subseteq trusted'
        /\ "again" \in trusted' => "again" \in trusted \/ sent # <<>>
        /\ pc \in AtButton => "late" \in trusted'
    BY <1>8 DEF ChatOpens
  <2>3. sent # <<>> => pc \in AtButton
    BY DEF TextInv, TextTypeOK, TextPc, ButtonOnlyThen, Before, AtButton
  <2> QED
    BY <2>1, <2>2, <2>3 DEF TextInv, AgainIsLate, OpeningsAreKnown, ChatInDoubt
<1>9. CASE HandleTap \/ AccountIsLost
  BY <1>9 DEF HandleTap, AccountIsLost, code, TextInv, AgainIsLate, OpeningsAreKnown,
    ChatInDoubt
<1> QED
  BY <1>1, <1>2, <1>3, <1>4, <1>5, <1>6, <1>7, <1>8, <1>9 DEF TextNext

LEMMA TextInvStep ==
  ASSUME TextInv, [TextNext]_textVars
  PROVE  TextInv'
<1>1. CASE TextNext
  <2>1. TextTypeOK'
    BY <1>1, TextTypesStep DEF TextInv
  <2>2. AgainIsLate' /\ OpeningsAreKnown'
    BY <1>1, OpeningStep
  <2>3. /\ ButtonOnlyThen' /\ SentLeavesNoDraft' /\ TextIsThere' /\ ChatIsThere'
        /\ SentAsIntended' /\ ReportedIsSent'
    BY <1>1, NavigationStep, FieldStep, BeforeStep, FilledStep, ButtonStep, FailureStep,
      HandleTapStep, ChatOpensStep, AccountIsLostStep DEF TextNext
  <2> QED  BY <2>1, <2>2, <2>3 DEF TextInv
<1>2. CASE UNCHANGED textVars
  BY <1>2 DEF textVars, code, phone, TextInv, TextTypeOK, ButtonOnlyThen,
    AgainIsLate, OpeningsAreKnown, SentLeavesNoDraft, TextIsThere, TextInDoubt, ChatIsThere, ChatInDoubt, Idle,
    SentAsIntended, ReportedIsSent
<1> QED  BY <1>1, <1>2

-----------------------------------------------------------------------------
(* Files.  Where the code is: it has not called up a chat or a preview yet, *)
(* in the attach menu, after the intent, before the first tap, at the end.  *)
NotCalled == {"guard", "wake", "stage", "index", "chat", "push", "intent"}
Picking == {"pick", "caption", "send", "verify"}
Attaching == {"index", "chat", "attach"} \cup Picking
AttachPath == {"stage"} \cup Attaching \cup {"clean"}
Clicking == {"click", "confirm", "reconfirm", "missing"}
Untapped == NotCalled \cup {"attach", "pick", "caption", "send"}
Over == {"stop", "clean", "restore", "idle"}

Doubted(flags) == flags \cap doubts # {}
OwnPreview == PreviewOf("own", "own")
IsPreview == showing.at = "preview"
ComesPreview == \E s \in coming : s.at = "preview"
AllShow(c) == \A s \in {showing} \cup coming : s.chat = c
OwnIsSent == \E i \in DOMAIN messages : messages[i] = [chat |-> "own", item |-> "own"]
FileIsSent == \E i \in DOMAIN messages : messages[i].item # "words"

PathIsPlanned ==
  /\ step \in AttachPath => plan.media
  /\ result # "none" => step \in Over

(* The file has one row, from the end of staging until the picker is done.  *)
OneRow ==
  /\ \A i, j \in RowsOf(strip, "own") : i = j
  /\ step \in {"guard", "wake", "stage", "index"} => RowsOf(strip, "own") = {}
  /\ step \in {"chat", "attach", "pick"} => RowsOf(strip, "own") # {}

(* What the job holds, and the step by which it has given it back.          *)
HoldsFile ==
  \/ step \in Attaching \cup {"clean"}
  \/ step = "stop" /\ plan.media
GivenBack ==
  /\ step = "guard" => rotation = "found" /\ ~fixed
  /\ step \notin {"guard", "idle"} => saved \/ "rotation" \in excused
  /\ agent => step \in Picking \cup Clicking \cup {"stop"} \/ "agent" \in excused
  /\ staged => HoldsFile \/ "file" \in excused
  /\ RowsOf(strip, "own") # {} => HoldsFile \/ "row" \in excused

(* Before a chat or a preview is called up, the phone shows what it was     *)
(* left with; before the first tap, only the tap of an earlier job pends.   *)
NotCalledUp == step \in NotCalled => coming = {}
NothingTapped ==
  step \in Untapped => Doubted({"late"}) \/ (pending = 0 /\ messages = <<>>)

(* There is one preview of a file, and none after it was sent.              *)
OnePreview ==
  \/ Doubted({"late"})
  \/ /\ step \in NotCalled \cup {"attach", "pick"} => ~IsPreview /\ ~ComesPreview
     /\ ~(IsPreview /\ ComesPreview)
     /\ FileIsSent => ~IsPreview /\ ~ComesPreview
     /\ \A s, r \in coming : s.at = "preview" /\ r.at = "preview" => s = r
     /\ \A i, j \in DOMAIN messages :
          {messages[i].item, messages[j].item} \cap {"words"} = {} => i = j
PreviewIsOwn ==
  \A s \in {showing} \cup coming :
    s.at = "preview" => s.item = "own" \/ Doubted({"newer", "late"})
DraftIsDoubted == drafts # {} => Doubted({"draft", "blind"})

(* A tap that pends will be handled in the chat of the number.              *)
TapsAreForOwn == pending > 0 => Doubted({"late", "link"}) \/ AllShow("own")

(* In the attach menu: a chat that is there while none is called up is that *)
(* of the number, and a preview that is there or comes is that of its file. *)
SureOfChat == coming = {} /\ (showing = Away \/ (showing.chat = "own" /\ ~IsPreview))
ChatIsPicked ==
  /\ step \in {"attach", "pick"} => coming \subseteq {ChatOf("own")}
  /\ step = "attach" => coming # {} \/ SureOfChat
  /\ step = "pick" => Doubted({"unopened"}) \/ SureOfChat
  /\ step \in Picking => Doubted({"link"}) \/ AllShow("own")
  /\ step \in {"caption", "send"} =>
       \/ Doubted({"unopened", "newer"})
       \/ ~IsPreview /\ coming \subseteq {OwnPreview}
       \/ showing = OwnPreview /\ coming = {}
PreviewIsTapped ==
  step = "verify" =>
    \/ Doubted({"unopened", "blind", "newer"})
    \/ showing = OwnPreview /\ coming = {}
    \/ OwnIsSent

(* After the intent, once nothing is yet to come, the chat of the number is *)
(* there only with the preview of the file, or after the file was sent.     *)
IntentIsShown ==
  step \in Clicking =>
    /\ coming \subseteq {OwnPreview}
    /\ coming = {} /\ showing.chat = "own" => showing = OwnPreview \/ OwnIsSent

ScreenInv ==
  /\ NotCalledUp /\ NothingTapped /\ OnePreview /\ PreviewIsOwn /\ DraftIsDoubted
  /\ TapsAreForOwn /\ ChatIsPicked /\ PreviewIsTapped /\ IntentIsShown /\ SentFileIsOwn

FileInv ==
  /\ FileTypeOK
  /\ PathIsPlanned /\ OneRow /\ GivenBack
  /\ ScreenInv
  /\ ReportedFileIsSent /\ LeavesPhoneClean

-----------------------------------------------------------------------------
(* Screens, rows and messages.                                              *)

LEMMA ScreenFields ==
  /\ \A c \in Side : /\ ChatOf(c) \in ShownScreen
                     /\ ChatOf(c).at = "chat" /\ ChatOf(c).chat = c
                     /\ PanelOf(c) \in ShownScreen
                     /\ PanelOf(c).at = "panel" /\ PanelOf(c).chat = c
  /\ \A c \in Side, i \in Item :
       /\ PreviewOf(c, i) \in ShownScreen
       /\ PreviewOf(c, i).at = "preview"
       /\ PreviewOf(c, i).chat = c /\ PreviewOf(c, i).item = i
  /\ Away \in ShownScreen /\ Away.at = "away" /\ Away.chat = "other"
  /\ Picker \in ShownScreen /\ Picker.at = "picker" /\ Picker.chat = "other"
BY DEF Side, Item, ShownScreen, Screens, In, ChatOf, PanelOf, PreviewOf, Away, Picker

(* A screen is known by what it shows. *)
LEMMA ScreenKinds ==
  ASSUME NEW s \in ShownScreen
  PROVE  /\ s.chat \in Side
         /\ s.at \in {"away", "picker", "chat", "panel", "preview"}
         /\ s.at = "chat" => s = ChatOf(s.chat)
         /\ s.at = "panel" => s = PanelOf(s.chat)
         /\ s.at = "preview" => s.item \in Item /\ s = PreviewOf(s.chat, s.item)
<1>1. CASE s \in {Away, Picker}
  BY <1>1 DEF Side, In, Away, Picker
<1>2. CASE s \in Screens("chat", {"none"})
  BY <1>2 DEF Screens, In, ChatOf, Side
<1>3. CASE s \in Screens("panel", {"none"})
  BY <1>3 DEF Screens, In, PanelOf, Side
<1>4. CASE s \in Screens("preview", Item)
  BY <1>4 DEF Screens, In, PreviewOf, Side
<1> QED  BY <1>1, <1>2, <1>3, <1>4 DEF ShownScreen

(* Rows of other pictures change nothing about the row of the file; it      *)
(* comes once, and is gone when its row is deleted.                         *)
LEMMA RowsGrow ==
  ASSUME NEW rows \in Seq(Item), NEW i \in Item
  PROVE  /\ Append(rows, i) \in Seq(Item)
         /\ i # "own" => RowsOf(Append(rows, i), "own") = RowsOf(rows, "own")
BY DEF RowsOf

LEMMA RowsIndexed ==
  ASSUME NEW rows \in Seq(Item), RowsOf(rows, "own") = {}, NEW more \in Indexed(rows)
  PROVE  /\ more \in Seq(Item)
         /\ RowsOf(more, "own") # {}
         /\ \A i, j \in RowsOf(more, "own") : i = j
<1>1. CASE more = Append(rows, "own")
  BY <1>1 DEF RowsOf, Item
<1>2. CASE more = <<"own">> \o rows
  <2>1. more \in Seq(Item) /\ more[1] = "own" /\ 1 \in DOMAIN more
    BY <1>2 DEF Item
  <2>2. \A i \in DOMAIN more : i # 1 => more[i] = rows[i - 1] /\ i - 1 \in DOMAIN rows
    BY <1>2
  <2> QED  BY <2>1, <2>2 DEF RowsOf
<1> QED  BY <1>1, <1>2 DEF Indexed

LEMMA Concatenated ==
  ASSUME NEW S, NEW s \in Seq(S), NEW t \in Seq(S)
  PROVE  /\ s \o t \in Seq(S)
         /\ Len(s \o t) = Len(s) + Len(t)
         /\ \A k \in 1..Len(s) : (s \o t)[k] = s[k]
         /\ \A k \in 1..Len(t) : (s \o t)[Len(s) + k] = t[k]
OBVIOUS

LEMMA RowsShrink ==
  ASSUME NEW rows \in Seq(Item), \A i, j \in RowsOf(rows, "own") : i = j,
         NEW less \in Unindexed(rows)
  PROVE  less \in Seq(Item) /\ RowsOf(less, "own") = {}
<1>1. CASE RowsOf(rows, "own") = {}
  BY <1>1 DEF Unindexed
<1>2. CASE RowsOf(rows, "own") # {}
  <2>1. PICK i \in RowsOf(rows, "own") : less = RemoveAt(rows, i)
    BY <1>2 DEF Unindexed
  <2>2. i \in 1..Len(rows) /\ rows[i] = "own"
    BY DEF RowsOf
  <2> DEFINE front == SubSeq(rows, 1, i - 1)
             back == SubSeq(rows, i + 1, Len(rows))
  <2>3. /\ front \in Seq(Item) /\ Len(front) = i - 1
        /\ \A k \in 1..(i - 1) : front[k] = rows[k]
    BY <2>2
  <2>4. /\ back \in Seq(Item) /\ Len(back) = Len(rows) - i
        /\ \A k \in 1..(Len(rows) - i) : back[k] = rows[k + i]
    BY <2>2
  <2>5. less = front \o back
    BY <2>1 DEF RemoveAt
  <2> HIDE DEF front, back
  <2>6. less \in Seq(Item) /\ Len(less) = Len(rows) - 1
    <3>1. front \in Seq(Item) /\ back \in Seq(Item)
      BY <2>3, <2>4
    <3>2. less \in Seq(Item) /\ Len(less) = Len(front) + Len(back)
      BY <2>5, <3>1, Concatenated
    <3> QED  BY <2>2, <2>3, <2>4, <3>2
  <2>7. \A k \in 1..Len(less) : less[k] = IF k < i THEN rows[k] ELSE rows[k + 1]
    <3> SUFFICES ASSUME NEW k \in 1..Len(less)
                 PROVE  less[k] = IF k < i THEN rows[k] ELSE rows[k + 1]
      OBVIOUS
    <3>1. CASE k < i
      <4>1. k \in 1..Len(front) /\ less[k] = front[k]
        BY <2>2, <2>3, <2>4, <2>5, <3>1, Concatenated
      <4> QED  BY <2>2, <2>3, <3>1, <4>1
    <3>2. CASE ~(k < i)
      <4>1. k - (i - 1) \in 1..Len(back) /\ k = Len(front) + (k - (i - 1))
        BY <2>2, <2>3, <2>4, <2>6, <3>2
      <4>2. less[k] = back[k - (i - 1)]
        BY <2>3, <2>4, <2>5, <4>1, Concatenated
      <4>3. (k - (i - 1)) + i = k + 1
        BY <2>2
      <4> QED  BY <2>4, <3>2, <4>1, <4>2, <4>3
    <3> QED  BY <3>1, <3>2
  <2>8. \A k \in 1..Len(rows) : k # i => rows[k] # "own"
    BY <2>2 DEF RowsOf
  <2>9. \A k \in 1..Len(less) : less[k] # "own"
    <3> TAKE k \in 1..Len(less)
    <3>1. /\ k \in 1..Len(rows) /\ k + 1 \in 1..Len(rows)
          /\ k < i \/ k + 1 # i
      BY <2>2, <2>6
    <3> QED  BY <2>2, <2>7, <2>8, <3>1
  <2> QED  BY <2>6, <2>9 DEF RowsOf
<1> QED  BY <1>1, <1>2

(* What a tap sends, when it sends. *)
Message == [chat : Side, item : Item \cup {"words"}]
Sends(m) ==
  /\ messages' = Append(messages, m)
  /\ m.chat = showing.chat
  /\ showing' = ChatOf(showing.chat)
  /\ \/ /\ showing.at = "preview"
        /\ m.item = showing.item /\ m.item \in Item
        /\ UNCHANGED drafts
     \/ /\ showing.at \in {"chat", "panel"}
        /\ showing.chat \in drafts
        /\ m.item = "words" /\ drafts' = drafts \ {showing.chat}

LEMMA TapSends ==
  ASSUME FileTypeOK, TapIsHandled
  PROVE  /\ pending > 0 /\ pending' = pending - 1
         /\ UNCHANGED <<runVars, coming, leftVars, doubts>>
         /\ UNCHANGED <<showing, drafts, messages>> \/ \E m \in Message : Sends(m)
<1>1. CASE UNCHANGED <<showing, drafts, messages>>
  BY <1>1 DEF TapIsHandled
<1>2. CASE ~UNCHANGED <<showing, drafts, messages>>
  <2> DEFINE thing == IF showing.at = "preview" THEN showing.item ELSE "words"
             m == [chat |-> showing.chat, item |-> thing]
  <2>1. messages' = Append(messages, m) /\ ButtonIsShown /\ showing' = ChatOf(showing.chat)
        /\ drafts' = IF showing.at = "preview" THEN drafts ELSE drafts \ {showing.chat}
    BY <1>2 DEF TapIsHandled
  <2>2. showing.chat \in Side /\ (showing.at = "preview" => showing.item \in Item)
    BY ScreenKinds DEF FileTypeOK
  <2>3. m \in Message /\ m.chat = showing.chat /\ m.item = thing
    BY <2>2 DEF Message
  <2>4. Sends(m)
    <3>1. CASE showing.at = "preview"
      BY <2>1, <2>2, <2>3, <3>1 DEF Sends
    <3>2. CASE showing.at # "preview"
      BY <2>1, <2>3, <3>2 DEF Sends, ButtonIsShown
    <3> QED  BY <3>1, <3>2
  <2> QED  BY <1>2, <2>3, <2>4 DEF TapIsHandled
<1> QED  BY <1>1, <1>2

-----------------------------------------------------------------------------
(* Types, rows, and what the job holds.                                     *)

LEMMA FileTypesStep ==
  ASSUME FileTypeOK, OneRow, FileNext
  PROVE  FileTypeOK'
<1> USE FileSendAssumption DEF FileTypeOK, Doubt, GoesOn, EndsBody, Doubts, Excuses, PutsUp, FileStep,
      shownVars, leftVars, runVars
<1>1. CASE EnterGuard \/ Wake \/ StopAgent \/ LeaveGuard
  <2>1. CASE EnterGuard \/ Wake
    BY <2>1 DEF EnterGuard, Wake
  <2>2. CASE StopAgent
    BY <2>2 DEF StopAgent
  <2>3. CASE LeaveGuard
    BY <2>3 DEF LeaveGuard
  <2> QED  BY <1>1, <2>1, <2>2, <2>3
<1>2. CASE PushMedia
  BY <1>2 DEF PushMedia
<1>3. CASE MediaIsIndexed \/ IndexTimesOut
  <2>1. strip' \in Seq(Item)
    BY <1>3, RowsIndexed DEF MediaIsIndexed, IndexTimesOut, OneRow
  <2>2. CASE MediaIsIndexed
    BY <2>1, <2>2 DEF MediaIsIndexed
  <2>3. CASE IndexTimesOut
    BY <2>1, <2>3 DEF IndexTimesOut
  <2> QED  BY <1>3, <2>2, <2>3
<1>4. CASE OpenChat
  BY <1>4, ScreenFields DEF OpenChat, Side
<1>5. CASE TapAttach
  BY <1>5, ScreenFields, ScreenKinds DEF TapAttach, Unopened
<1>6. CASE PickMedia
  <2>1. /\ UNCHANGED leftVars
        /\ doubts' \in SUBSET Doubt
    BY <1>6 DEF PickMedia
  <2>2. step' \in FileStep /\ UNCHANGED <<plan, result, saved, drafts, pending, messages>>
    BY <1>6 DEF PickMedia
  <2>3. strip # <<>>
    BY <1>6 DEF PickMedia, OneRow, RowsOf
  <2>4. Last(strip) \in Item
    BY <2>3 DEF Last
  <2>5. showing' \in ShownScreen /\ coming' \subseteq ShownScreen
    BY <1>6, <2>4, ScreenFields, ScreenKinds DEF PickMedia
  <2> QED  BY <2>1, <2>2, <2>5
<1>7. CASE TypeCaption
  <2>1. drafts' \in SUBSET Side
    BY <1>7, ScreenKinds DEF TypeCaption
  <2> QED  BY <1>7, <2>1 DEF TypeCaption
<1>8. CASE TapSendPoint \/ ClickSend
  <2>1. pending' \in 0..MaxPending
    BY <1>8 DEF TapSendPoint, ClickSend
  <2>2. step' \in FileStep /\ result' \in {"none", "ok", "raised"} /\ UNCHANGED <<plan, saved>>
    BY <1>8 DEF TapSendPoint, ClickSend
  <2>3. doubts' \in SUBSET Doubt
    BY <1>8 DEF TapSendPoint, ClickSend
  <2>4. UNCHANGED <<showing, coming, drafts, messages, leftVars>>
    BY <1>8 DEF TapSendPoint, ClickSend
  <2> QED  BY <2>1, <2>2, <2>3, <2>4
<1>9. CASE ButtonIsGone \/ PickerRaises
  BY <1>9 DEF ButtonIsGone, PickerRaises
<1>10. CASE CleanUp
  <2>1. strip' \in Seq(Item)
    BY <1>10, RowsShrink DEF CleanUp, OneRow
  <2> QED  BY <1>10, <2>1 DEF CleanUp
<1>11. CASE PushDocument \/ ClickRaises \/ NoButton \/ IntentRaises
  BY <1>11 DEF PushDocument, ClickRaises, NoButton, IntentRaises
<1>12. CASE LaunchIntent
  BY <1>12, ScreenFields DEF LaunchIntent, Side, Item
<1>13. CASE EntryIsEmpty
  BY <1>13 DEF EntryIsEmpty, Unopened
<1>14. CASE TapIsHandled
  <2>1. pending' \in 0..MaxPending /\ UNCHANGED <<runVars, coming, leftVars, doubts>>
    BY <1>14, TapSends
  <2>2. CASE UNCHANGED <<showing, drafts, messages>>
    BY <2>1, <2>2
  <2>3. CASE \E m \in Message : Sends(m)
    <3>1. PICK m \in Message : Sends(m)
      BY <2>3
    <3>2. showing' \in ShownScreen /\ drafts' \in SUBSET Side
      BY <3>1, ScreenFields, ScreenKinds DEF Sends
    <3>3. messages' \in Seq(Message)
      BY <3>1 DEF Sends, Message
    <3> QED  BY <2>1, <3>2, <3>3 DEF Message
  <2> QED  BY <1>14, <2>2, <2>3, TapSends
<1>15. CASE ScreenComesUp
  BY <1>15 DEF ScreenComesUp
<1>16. CASE PictureArrives
  <2>1. strip' \in Seq(Item)
    BY <1>16, RowsGrow DEF PictureArrives, Item
  <2> QED  BY <1>16, <2>1 DEF PictureArrives
<1>17. CASE SenderDies
  BY <1>17 DEF SenderDies
<1> QED
  BY <1>1, <1>2, <1>3, <1>4, <1>5, <1>6, <1>7, <1>8, <1>9, <1>10, <1>11, <1>12, <1>13,
    <1>14, <1>15, <1>16, <1>17 DEF FileNext

LEMMA FileInitOK == FileInit => FileInv
<1> SUFFICES ASSUME FileInit PROVE FileInv
  OBVIOUS
<1>1. strip \in Seq(Item) /\ RowsOf(strip, "own") = {}
  <2>1. CASE strip = <<"old">>
    <3>1. <<"old">> \in Seq(Item)
      BY DEF Item
    <3>2. RowsOf(<<"old">>, "own") = {}
      BY DEF RowsOf
    <3> QED  BY <2>1, <3>1, <3>2
  <2>2. CASE strip = <<"old", "stale">>
    <3>1. <<"old", "stale">> \in Seq(Item)
      BY DEF Item
    <3>2. RowsOf(<<"old", "stale">>, "own") = {}
      BY DEF RowsOf
    <3> QED  BY <2>2, <3>1, <3>2
  <2> QED  BY <2>1, <2>2 DEF FileInit
<1>2. /\ showing \in ShownScreen
      /\ showing.at = "preview" => showing.item = "old"
  BY ScreenFields DEF FileInit, Side, Item
<1>3. FileTypeOK
  <2>1. strip \in Seq(Item)
    BY <1>1
  <2>2. pending \in 0..MaxPending
    BY FileSendAssumption DEF FileInit
  <2>3. /\ doubts \in SUBSET Doubt
        /\ messages \in Seq([chat : Side, item : Item \cup {"words"}])
    BY DEF FileInit, Doubt
  <2> QED  BY <1>2, <2>1, <2>2, <2>3 DEF FileInit, FileTypeOK, FileStep, Side
<1>4. PathIsPlanned /\ GivenBack
  BY <1>1 DEF FileInit, PathIsPlanned, GivenBack, HoldsFile, AttachPath, Attaching,
    Over, Picking
<1>5. OneRow /\ LeavesPhoneClean
  BY <1>1 DEF FileInit, OneRow, LeavesPhoneClean
<1>6. /\ NotCalledUp /\ NothingTapped /\ OnePreview
      /\ PreviewIsOwn /\ DraftIsDoubted /\ TapsAreForOwn
  <2>1. /\ coming = {} /\ messages = <<>>
        /\ pending > 0 => Doubted({"late"})
        /\ showing.at = "preview" => Doubted({"late"})
        /\ drafts # {} => Doubted({"draft"})
        /\ pending \in {0, 1}
    BY DEF FileInit, Doubted
  <2>2. NotCalledUp /\ NothingTapped /\ DraftIsDoubted /\ TapsAreForOwn
    BY <2>1 DEF NotCalledUp, NothingTapped, DraftIsDoubted, TapsAreForOwn, Doubted
  <2>3. OnePreview
    BY <2>1 DEF OnePreview, IsPreview, ComesPreview, FileIsSent
  <2>4. PreviewIsOwn
    BY <2>1 DEF PreviewIsOwn, Doubted
  <2> QED  BY <2>2, <2>3, <2>4
<1>7. ChatIsPicked /\ PreviewIsTapped /\ IntentIsShown
  BY DEF FileInit, ChatIsPicked, PreviewIsTapped, IntentIsShown, Picking, Clicking
<1>8. SentFileIsOwn /\ ReportedFileIsSent
  BY DEF FileInit, SentFileIsOwn, ReportedFileIsSent
<1> QED  BY <1>3, <1>4, <1>6, <1>7, <1>8, <1>5 DEF FileInv, ScreenInv

LEMMA PathStep ==
  ASSUME FileTypeOK, PathIsPlanned, FileNext
  PROVE  PathIsPlanned'
<1> USE DEF PathIsPlanned, AttachPath, Attaching, Over, Picking, GoesOn, EndsBody, runVars
<1>1. CASE EnterGuard \/ Wake \/ StopAgent \/ LeaveGuard
  BY <1>1 DEF EnterGuard, Wake, StopAgent, LeaveGuard
<1>2. CASE PushMedia \/ MediaIsIndexed \/ IndexTimesOut \/ OpenChat \/ TapAttach
  BY <1>2 DEF PushMedia, MediaIsIndexed, IndexTimesOut, OpenChat, TapAttach
<1>3. CASE PickMedia \/ TypeCaption \/ TapSendPoint
  BY <1>3 DEF PickMedia, TypeCaption, TapSendPoint
<1>4. CASE ButtonIsGone \/ PickerRaises \/ CleanUp
  BY <1>4 DEF ButtonIsGone, PickerRaises, CleanUp
<1>5. CASE PushDocument \/ LaunchIntent \/ ClickSend \/ ClickRaises \/ NoButton
  BY <1>5 DEF PushDocument, LaunchIntent, ClickSend, ClickRaises, NoButton
<1>6. CASE EntryIsEmpty \/ IntentRaises \/ TapIsHandled \/ ScreenComesUp \/ PictureArrives
  BY <1>6 DEF EntryIsEmpty, IntentRaises, TapIsHandled, ScreenComesUp, PictureArrives
<1>7. CASE SenderDies
  BY <1>7 DEF SenderDies
<1> QED  BY <1>1, <1>2, <1>3, <1>4, <1>5, <1>6, <1>7 DEF FileNext

LEMMA RowStep ==
  ASSUME FileTypeOK, OneRow, FileNext
  PROVE  OneRow'
<1> USE DEF OneRow, GoesOn, EndsBody, runVars, leftVars
<1>1. CASE EnterGuard \/ Wake \/ StopAgent \/ LeaveGuard
  BY <1>1 DEF EnterGuard, Wake, StopAgent, LeaveGuard
<1>2. CASE PushMedia \/ OpenChat \/ TapAttach
  BY <1>2 DEF PushMedia, OpenChat, TapAttach
<1>3. CASE MediaIsIndexed \/ IndexTimesOut
  <2>1. /\ RowsOf(strip, "own") = {} /\ strip \in Seq(Item)
        /\ strip' \in {strip} \cup Indexed(strip)
    BY <1>3 DEF MediaIsIndexed, IndexTimesOut, FileTypeOK
  <2>2. \A i, j \in RowsOf(strip', "own") : i = j
    BY <2>1, RowsIndexed
  <2>3. CASE MediaIsIndexed
    <3>1. RowsOf(strip', "own") # {} /\ step' = "chat"
      BY <2>1, <2>3, RowsIndexed DEF MediaIsIndexed
    <3> QED  BY <2>2, <3>1
  <2>4. CASE IndexTimesOut
    BY <2>2, <2>4 DEF IndexTimesOut
  <2> QED  BY <1>3, <2>3, <2>4
<1>4. CASE PickMedia \/ TypeCaption \/ TapSendPoint \/ ButtonIsGone \/ PickerRaises
  BY <1>4 DEF PickMedia, TypeCaption, TapSendPoint, ButtonIsGone, PickerRaises
<1>5. CASE CleanUp
  <2>1. step' = "restore" /\ (strip' = strip \/ strip' \in Unindexed(strip))
    BY <1>5 DEF CleanUp
  <2>2. \A i, j \in RowsOf(strip', "own") : i = j
    BY <2>1, RowsShrink DEF FileTypeOK
  <2> QED  BY <2>1, <2>2
<1>6. CASE PushDocument \/ LaunchIntent \/ ClickSend \/ ClickRaises \/ NoButton
  BY <1>6 DEF PushDocument, LaunchIntent, ClickSend, ClickRaises, NoButton
<1>7. CASE EntryIsEmpty \/ IntentRaises \/ TapIsHandled \/ ScreenComesUp
  BY <1>7 DEF EntryIsEmpty, IntentRaises, TapIsHandled, ScreenComesUp
<1>8. CASE PictureArrives
  <2>1. RowsOf(strip', "own") = RowsOf(strip, "own") /\ UNCHANGED step
    BY <1>8, RowsGrow DEF PictureArrives, FileTypeOK, Item
  <2> QED  BY <2>1
<1>9. CASE SenderDies
  BY <1>9 DEF SenderDies
<1> QED  BY <1>1, <1>2, <1>3, <1>4, <1>5, <1>6, <1>7, <1>8, <1>9 DEF FileNext

LEMMA HeldStep ==
  ASSUME FileTypeOK, PathIsPlanned, OneRow, GivenBack, FileNext
  PROVE  GivenBack'
<1> USE DEF GivenBack, HoldsFile, GoesOn, EndsBody, Excuses, runVars, leftVars, Picking,
      Clicking, Attaching
<1>1. CASE EnterGuard \/ Wake
  BY <1>1 DEF EnterGuard, Wake, OneRow
<1>2. CASE StopAgent
  BY <1>2 DEF StopAgent
<1>3. CASE LeaveGuard
  BY <1>3 DEF LeaveGuard
<1>4. CASE PushMedia \/ OpenChat \/ TapAttach
  BY <1>4 DEF PushMedia, OpenChat, TapAttach, OneRow
<1>5. CASE MediaIsIndexed
  BY <1>5 DEF MediaIsIndexed
<1>6. CASE IndexTimesOut
  BY <1>6 DEF IndexTimesOut
<1>7. CASE PickMedia \/ TypeCaption \/ TapSendPoint \/ ButtonIsGone \/ PickerRaises
  BY <1>7 DEF PickMedia, TypeCaption, TapSendPoint, ButtonIsGone, PickerRaises,
    PathIsPlanned, AttachPath
<1>8. CASE CleanUp
  BY <1>8, RowsShrink DEF CleanUp, OneRow, FileTypeOK
<1>9. CASE PushDocument \/ LaunchIntent \/ ClickSend \/ ClickRaises \/ NoButton
  BY <1>9 DEF PushDocument, LaunchIntent, ClickSend, ClickRaises, NoButton
<1>10. CASE EntryIsEmpty \/ IntentRaises \/ TapIsHandled \/ ScreenComesUp
  BY <1>10 DEF EntryIsEmpty, IntentRaises, TapIsHandled, ScreenComesUp
<1>11. CASE PictureArrives
  <2>1. RowsOf(strip', "own") = RowsOf(strip, "own")
    BY <1>11, RowsGrow DEF PictureArrives, FileTypeOK, Item
  <2> QED  BY <1>11, <2>1 DEF PictureArrives
<1>12. CASE SenderDies
  BY <1>12 DEF SenderDies
<1> QED
  BY <1>1, <1>2, <1>3, <1>4, <1>5, <1>6, <1>7, <1>8, <1>9, <1>10, <1>11, <1>12
    DEF FileNext

(* The job ends with the guard, or with the server. *)
LEMMA CleanStep ==
  ASSUME FileTypeOK, GivenBack, LeavesPhoneClean, FileNext
  PROVE  LeavesPhoneClean'
<1>1. (step' = "idle") => \/ LeaveGuard \/ SenderDies
                          \/ UNCHANGED <<step, leftVars>> /\ step = "idle"
  BY DEF FileNext, GoesOn, EndsBody, runVars, EnterGuard, Wake, StopAgent, PushMedia,
    MediaIsIndexed, IndexTimesOut, OpenChat, TapAttach, PickMedia, TypeCaption,
    TapSendPoint, ButtonIsGone, PickerRaises, CleanUp, PushDocument, LaunchIntent,
    ClickSend, ClickRaises, NoButton, EntryIsEmpty, IntentRaises, TapIsHandled,
    ScreenComesUp, PictureArrives
<1>2. CASE LeaveGuard
  BY <1>2 DEF LeaveGuard, LeavesPhoneClean, GivenBack, HoldsFile, GoesOn, Excuses,
    Picking, Clicking, Attaching, Contains, RowsOf, FileTypeOK
<1>3. CASE SenderDies
  BY <1>3 DEF SenderDies, LeavesPhoneClean, Excuses
<1>4. CASE UNCHANGED <<step, leftVars>>
  BY <1>4 DEF leftVars, LeavesPhoneClean
<1> QED  BY <1>1, <1>2, <1>3, <1>4 DEF LeavesPhoneClean

-----------------------------------------------------------------------------
(* Screens and messages: the steps that leave the phone as it is, then the  *)
(* others one by one.                                                       *)

LeavesScreen ==
  \/ EnterGuard \/ Wake \/ StopAgent \/ LeaveGuard
  \/ PushMedia \/ MediaIsIndexed \/ IndexTimesOut \/ ButtonIsGone \/ PickerRaises \/ CleanUp
  \/ PushDocument \/ ClickRaises \/ NoButton \/ EntryIsEmpty \/ IntentRaises
  \/ PictureArrives \/ SenderDies

LEMMA LeavesScreenStep ==
  ASSUME LeavesScreen
  PROVE  /\ UNCHANGED shownVars
         /\ doubts \subseteq doubts'
         /\ \/ step' \in Over
            \/ step \in NotCalled /\ step' \in NotCalled
            \/ step \in Clicking /\ step' \in Clicking
            \/ step' = step
<1> USE DEF GoesOn, EndsBody, Doubts, runVars, leftVars, Over, NotCalled, Clicking
<1>1. CASE EnterGuard \/ Wake \/ StopAgent \/ LeaveGuard
  BY <1>1 DEF EnterGuard, Wake, StopAgent, LeaveGuard
<1>2. CASE \/ PushMedia \/ MediaIsIndexed \/ IndexTimesOut
           \/ ButtonIsGone \/ PickerRaises \/ CleanUp
  BY <1>2 DEF PushMedia, MediaIsIndexed, IndexTimesOut, ButtonIsGone, PickerRaises,
    CleanUp
<1>3. CASE PushDocument \/ ClickRaises \/ NoButton \/ EntryIsEmpty \/ IntentRaises
  BY <1>3 DEF PushDocument, ClickRaises, NoButton, EntryIsEmpty, IntentRaises
<1>4. CASE PictureArrives \/ SenderDies
  BY <1>4 DEF PictureArrives, SenderDies
<1> QED  BY <1>1, <1>2, <1>3, <1>4 DEF LeavesScreen

LEMMA LeavesScreenKeeps ==
  ASSUME ScreenInv, LeavesScreen
  PROVE  ScreenInv'
<1> USE LeavesScreenStep DEF shownVars
<1>1. NotCalledUp' /\ NothingTapped'
  BY DEF ScreenInv, NotCalledUp, NothingTapped, Over, NotCalled, Clicking, Untapped,
    Doubted
<1>2. OnePreview'
  BY DEF ScreenInv, OnePreview, Over, NotCalled, Clicking, Doubted, IsPreview,
    ComesPreview, FileIsSent
<1>3. PreviewIsOwn' /\ DraftIsDoubted' /\ TapsAreForOwn'
  BY DEF ScreenInv, PreviewIsOwn, DraftIsDoubted, TapsAreForOwn, Doubted, AllShow
<1>4. ChatIsPicked'
  BY DEF ScreenInv, ChatIsPicked, Doubted, IsPreview, Over, NotCalled, Clicking,
    Picking, SureOfChat, AllShow
<1>5. PreviewIsTapped' /\ IntentIsShown'
  BY DEF ScreenInv, PreviewIsTapped, IntentIsShown, Doubted, OwnIsSent, Over,
    NotCalled, Clicking, Picking
<1>6. SentFileIsOwn'
  BY DEF ScreenInv, SentFileIsOwn
<1> QED  BY <1>1, <1>2, <1>3, <1>4, <1>5, <1>6 DEF ScreenInv

LEMMA OpenChatKeeps ==
  ASSUME FileTypeOK, ScreenInv, OpenChat
  PROVE  ScreenInv'
<1> USE ScreenFields DEF Side
<1>1. /\ step = "chat" /\ step' = "attach"
      /\ UNCHANGED <<drafts, pending, messages, doubts>>
      /\ \/ showing' \in {ChatOf("own"), Away} /\ coming' = {}
         \/ UNCHANGED showing /\ coming' = {ChatOf("own")}
      /\ coming = {}
  BY DEF OpenChat, GoesOn, ScreenInv, NotCalledUp, NotCalled
<1>2. NotCalledUp' /\ NothingTapped'
  BY <1>1 DEF ScreenInv, NotCalledUp, NothingTapped, NotCalled, Untapped, Doubted
<1>3. OnePreview' /\ PreviewIsOwn'
  BY <1>1 DEF ScreenInv, OnePreview, PreviewIsOwn, NotCalled, Doubted, IsPreview,
    ComesPreview, FileIsSent
<1>4. DraftIsDoubted' /\ TapsAreForOwn'
  BY <1>1 DEF ScreenInv, DraftIsDoubted, TapsAreForOwn, NothingTapped, Doubted,
    Untapped, NotCalled
<1>5. ChatIsPicked' /\ PreviewIsTapped' /\ IntentIsShown'
  BY <1>1 DEF ChatIsPicked, PreviewIsTapped, IntentIsShown, Picking, Clicking,
    IsPreview, SureOfChat
<1>6. SentFileIsOwn'
  BY <1>1 DEF ScreenInv, SentFileIsOwn
<1> QED  BY <1>2, <1>3, <1>4, <1>5, <1>6 DEF ScreenInv

LEMMA TapAttachKeeps ==
  ASSUME FileTypeOK, ScreenInv, TapAttach
  PROVE  ScreenInv'
<1> USE ScreenFields DEF Side
<1>1. /\ step = "attach" /\ step' = "pick"
      /\ UNCHANGED <<coming, drafts, pending, messages>>
      /\ doubts \subseteq doubts'
      /\ showing.chat # "own" => "link" \in doubts'
      /\ coming # {} => "unopened" \in doubts'
      /\ \/ showing' = showing
         \/ /\ showing.at \in {"chat", "panel"}
            /\ showing' \in {PanelOf(showing.chat), ChatOf(showing.chat)}
  BY DEF TapAttach, GoesOn, Doubts, PutsUp, Unopened
<1>2. showing.chat \in Side
  BY ScreenKinds DEF FileTypeOK
<1>3. NotCalledUp' /\ NothingTapped'
  BY <1>1 DEF ScreenInv, NotCalledUp, NothingTapped, NotCalled, Untapped, Doubted
<1>4. OnePreview' /\ PreviewIsOwn'
  BY <1>2, <1>1 DEF ScreenInv, OnePreview, PreviewIsOwn, NotCalled, Doubted,
    IsPreview, ComesPreview, FileIsSent
<1>5. DraftIsDoubted' /\ TapsAreForOwn'
  BY <1>2, <1>1 DEF ScreenInv, DraftIsDoubted, TapsAreForOwn, NothingTapped, Doubted,
    Untapped, NotCalled
<1>6. ChatIsPicked' /\ PreviewIsTapped' /\ IntentIsShown'
  BY <1>2, <1>1 DEF ScreenInv, ChatIsPicked, PreviewIsTapped, IntentIsShown, Picking,
    Clicking, IsPreview, Doubted, SureOfChat, AllShow
<1>7. SentFileIsOwn'
  BY <1>1 DEF ScreenInv, SentFileIsOwn
<1> QED  BY <1>3, <1>4, <1>5, <1>6, <1>7 DEF ScreenInv

LEMMA PickMediaKeeps ==
  ASSUME FileTypeOK, OneRow, ScreenInv, PickMedia
  PROVE  ScreenInv'
<1> USE ScreenFields
<1> DEFINE item == Last(strip)
           preview == PreviewOf(showing.chat, item)
<1>1. /\ step = "pick" /\ step' \in {"caption", "send"}
      /\ UNCHANGED <<drafts, pending, messages>>
      /\ showing.at = "panel"
      /\ \/ UNCHANGED <<showing, coming>>
         \/ showing' = preview /\ UNCHANGED coming
         \/ UNCHANGED showing /\ coming' = coming \cup {preview}
  BY DEF PickMedia, GoesOn, PutsUp
<1>2. showing.chat \in Side /\ item \in Item
  <2>1. strip # <<>>
    BY <1>1 DEF OneRow, RowsOf
  <2> QED  BY <2>1, ScreenKinds DEF FileTypeOK, Last
<1>3. /\ doubts \subseteq doubts'
      /\ item # "own" => "newer" \in doubts'
      /\ showing.chat # "own" => "link" \in doubts'
  <2>1. Contains(strip, "own")
    BY <1>1 DEF OneRow, RowsOf, Contains, FileTypeOK
  <2> QED  BY <2>1 DEF PickMedia, Doubts
<1>4. /\ preview \in ShownScreen /\ preview.at = "preview"
      /\ preview.chat = showing.chat /\ preview.item = item
  BY <1>2
<1> HIDE DEF item, preview
<1>5. NotCalledUp' /\ NothingTapped'
  BY <1>1, <1>3 DEF ScreenInv, NotCalledUp, NothingTapped, NotCalled, Untapped,
    Doubted
<1>6. OnePreview' /\ PreviewIsOwn'
  BY <1>1, <1>3, <1>4 DEF ScreenInv, NothingTapped, OnePreview, PreviewIsOwn,
    NotCalled, Doubted, Untapped, IsPreview, ComesPreview, FileIsSent
<1>7. DraftIsDoubted' /\ TapsAreForOwn'
  BY <1>1, <1>3, <1>4 DEF ScreenInv, DraftIsDoubted, TapsAreForOwn, NothingTapped,
    Doubted, Untapped, NotCalled
<1>8. ChatIsPicked' /\ PreviewIsTapped' /\ IntentIsShown'
  BY <1>1, <1>2, <1>3, <1>4 DEF ScreenInv, ChatIsPicked, PreviewIsTapped,
    IntentIsShown, Picking, Clicking, IsPreview, Doubted, OwnPreview, preview, SureOfChat,
    AllShow
<1>9. SentFileIsOwn'
  BY <1>1, <1>3 DEF ScreenInv, SentFileIsOwn
<1> QED  BY <1>5, <1>6, <1>7, <1>8, <1>9 DEF ScreenInv

LEMMA TypeCaptionKeeps ==
  ASSUME FileTypeOK, ScreenInv, TypeCaption
  PROVE  ScreenInv'
<1>1. /\ step = "caption" /\ step' = "send"
      /\ UNCHANGED <<showing, coming, pending, messages>>
      /\ doubts \subseteq doubts'
      /\ drafts' = drafts \/ "blind" \in doubts'
  BY DEF TypeCaption, GoesOn, Doubts
<1>2. /\ NotCalledUp' /\ NothingTapped' /\ OnePreview'
      /\ PreviewIsOwn' /\ DraftIsDoubted' /\ TapsAreForOwn'
  BY <1>1 DEF ScreenInv, NotCalledUp, NothingTapped, NotCalled, Untapped, Doubted,
    OnePreview, PreviewIsOwn, IsPreview, ComesPreview, FileIsSent, DraftIsDoubted,
    TapsAreForOwn, AllShow
<1>3. ChatIsPicked' /\ PreviewIsTapped' /\ IntentIsShown'
  BY <1>1 DEF ScreenInv, ChatIsPicked, PreviewIsTapped, IntentIsShown, Picking,
    Clicking, IsPreview, Doubted, AllShow
<1>4. SentFileIsOwn'
  BY <1>1 DEF ScreenInv, SentFileIsOwn
<1> QED  BY <1>2, <1>3, <1>4 DEF ScreenInv

LEMMA TapSendKeeps ==
  ASSUME FileTypeOK, ScreenInv, TapSendPoint
  PROVE  ScreenInv'
<1>1. /\ step = "send" /\ step' \in {"verify", "stop"}
      /\ UNCHANGED <<showing, coming, drafts, messages>>
      /\ doubts \subseteq doubts'
      /\ showing.at = "preview" \/ "blind" \in doubts'
  BY DEF TapSendPoint, GoesOn, Doubts, EndsBody
<1>2. NotCalledUp' /\ NothingTapped' /\ OnePreview' /\ PreviewIsOwn' /\ DraftIsDoubted'
  BY <1>1 DEF ScreenInv, NotCalledUp, NothingTapped, NotCalled, Untapped, Doubted,
    OnePreview, PreviewIsOwn, IsPreview, ComesPreview, FileIsSent, DraftIsDoubted
<1>3. TapsAreForOwn'
  BY <1>1 DEF ScreenInv, TapsAreForOwn, ChatIsPicked, Picking, Doubted, AllShow
<1>4. ChatIsPicked' /\ PreviewIsTapped' /\ IntentIsShown'
  BY <1>1 DEF ScreenInv, ChatIsPicked, PreviewIsTapped, IntentIsShown, Picking,
    Clicking, IsPreview, Doubted, AllShow
<1>5. SentFileIsOwn'
  BY <1>1 DEF ScreenInv, SentFileIsOwn
<1> QED  BY <1>2, <1>4, <1>3, <1>5 DEF ScreenInv

LEMMA LaunchKeeps ==
  ASSUME FileTypeOK, ScreenInv, LaunchIntent
  PROVE  ScreenInv'
<1> USE ScreenFields
<1>1. /\ step = "intent" /\ step' = "click"
      /\ UNCHANGED <<drafts, pending, messages, doubts>>
      /\ \/ showing' \in {PreviewOf("own", "own"), Picker, Away} /\ coming' = {}
         \/ UNCHANGED showing /\ coming' = {PreviewOf("own", "own")}
      /\ coming = {}
  BY DEF LaunchIntent, GoesOn, ScreenInv, NotCalledUp, NotCalled
<1>2. "own" \in Side /\ "own" \in Item
  BY DEF Side, Item
<1>3. NotCalledUp' /\ NothingTapped' /\ DraftIsDoubted'
  BY <1>1 DEF ScreenInv, NotCalledUp, NothingTapped, NotCalled, Untapped, Doubted,
    DraftIsDoubted
<1>4. OnePreview' /\ PreviewIsOwn'
  BY <1>2, <1>1 DEF ScreenInv, NothingTapped, OnePreview, PreviewIsOwn, NotCalled,
    Untapped, Doubted, IsPreview, ComesPreview, FileIsSent
<1>5. TapsAreForOwn'
  BY <1>1 DEF ScreenInv, NothingTapped, TapsAreForOwn, NotCalled, Untapped, Doubted
<1>6. ChatIsPicked' /\ PreviewIsTapped' /\ IntentIsShown'
  BY <1>2, <1>1 DEF ChatIsPicked, PreviewIsTapped, IntentIsShown, Picking, Clicking,
    OwnPreview
<1>7. SentFileIsOwn'
  BY <1>1 DEF ScreenInv, SentFileIsOwn
<1> QED  BY <1>3, <1>4, <1>5, <1>6, <1>7 DEF ScreenInv

LEMMA ClickSendKeeps ==
  ASSUME FileTypeOK, ScreenInv, ClickSend
  PROVE  ScreenInv'
<1> USE ScreenFields
<1>1. /\ step \in Clicking /\ step' \in Clicking
      /\ UNCHANGED <<showing, coming, drafts, messages>>
      /\ doubts \subseteq doubts'
      /\ showing = OwnPreview \/ "link" \in doubts'
  BY DEF ClickSend, GoesOn, Doubts, OwnPreview, Clicking
<1>2. "own" \in Side /\ "own" \in Item
  BY DEF Side, Item
<1>3. NotCalledUp' /\ NothingTapped' /\ OnePreview' /\ PreviewIsOwn' /\ DraftIsDoubted'
  BY <1>1 DEF ScreenInv, NotCalledUp, NothingTapped, NotCalled, Untapped, Doubted,
    OnePreview, PreviewIsOwn, IsPreview, ComesPreview, FileIsSent, DraftIsDoubted,
    Clicking
<1>4. TapsAreForOwn'
  BY <1>2, <1>1 DEF ScreenInv, TapsAreForOwn, IntentIsShown, Doubted, OwnPreview, AllShow
<1>5. ChatIsPicked' /\ PreviewIsTapped' /\ IntentIsShown'
  BY <1>1 DEF ScreenInv, ChatIsPicked, PreviewIsTapped, IntentIsShown, Picking,
    Clicking, IsPreview, Doubted, OwnIsSent
<1>6. SentFileIsOwn'
  BY <1>1 DEF ScreenInv, SentFileIsOwn
<1> QED  BY <1>3, <1>5, <1>4, <1>6 DEF ScreenInv

LEMMA ScreenComesKeeps ==
  ASSUME FileTypeOK, ScreenInv, ScreenComesUp
  PROVE  ScreenInv'
<1> USE ScreenFields
<1>1. /\ showing' \in coming /\ coming' = coming \ {showing'}
      /\ UNCHANGED <<step, drafts, pending, messages, doubts>>
  BY DEF ScreenComesUp, runVars
<1>2. "own" \in Side /\ "own" \in Item
  BY DEF Side, Item
<1>3. NotCalledUp' /\ NothingTapped' /\ DraftIsDoubted'
  BY <1>1 DEF ScreenInv, NotCalledUp, NothingTapped, NotCalled, Untapped, Doubted,
    DraftIsDoubted
<1>4. OnePreview' /\ PreviewIsOwn'
  BY <1>1 DEF ScreenInv, OnePreview, PreviewIsOwn, NotCalled, Untapped, Doubted,
    IsPreview, ComesPreview, FileIsSent
<1>5. TapsAreForOwn'
  BY <1>1 DEF ScreenInv, TapsAreForOwn, Doubted, AllShow
<1>6. ChatIsPicked'
  BY <1>2, <1>1 DEF ScreenInv, ChatIsPicked, Picking, Doubted, OwnPreview, IsPreview,
    SureOfChat, AllShow
<1>7. PreviewIsTapped' /\ IntentIsShown'
  BY <1>2, <1>1 DEF ScreenInv, PreviewIsTapped, IntentIsShown, ChatIsPicked, Picking,
    Clicking, OwnPreview, Doubted, OwnIsSent
<1>8. SentFileIsOwn'
  BY <1>1 DEF ScreenInv, SentFileIsOwn
<1> QED  BY <1>3, <1>4, <1>5, <1>6, <1>8, <1>7 DEF ScreenInv

(* One message more leaves the earlier ones as they are. *)
LEMMA MessageAdded ==
  ASSUME FileTypeOK, NEW m \in Message, messages' = Append(messages, m)
  PROVE  /\ \A i \in DOMAIN messages' :
              messages'[i] = m \/ (i \in DOMAIN messages /\ messages'[i] = messages[i])
         /\ \A i, j \in DOMAIN messages' :
              \/ i = j
              \/ i \in DOMAIN messages /\ messages'[i] = messages[i]
              \/ j \in DOMAIN messages /\ messages'[j] = messages[j]
         /\ \E i \in DOMAIN messages' : messages'[i] = m
         /\ OwnIsSent => OwnIsSent'
<1>1. messages \in Seq(Message)
  BY DEF FileTypeOK, Message
<1>2. /\ DOMAIN messages = 1..Len(messages) /\ Len(messages) \in Nat
      /\ DOMAIN messages' = 1..(Len(messages) + 1)
      /\ \A i \in DOMAIN messages : messages'[i] = messages[i]
      /\ messages'[Len(messages) + 1] = m
  BY <1>1
<1> QED  BY <1>2 DEF OwnIsSent

LEMMA TapHandledKeeps ==
  ASSUME FileTypeOK, ScreenInv, TapIsHandled
  PROVE  ScreenInv'
<1> USE ScreenFields
<1>1. /\ pending > 0 /\ UNCHANGED <<step, coming, doubts>> /\ pending' = pending - 1
      /\ UNCHANGED <<showing, drafts, messages>> \/ \E m \in Message : Sends(m)
  BY TapSends DEF runVars
<1>2. CASE UNCHANGED <<showing, drafts, messages>>
  <2>1. /\ NotCalledUp' /\ NothingTapped' /\ OnePreview'
        /\ PreviewIsOwn' /\ DraftIsDoubted' /\ TapsAreForOwn'
    BY <1>1, <1>2 DEF ScreenInv, NotCalledUp, NothingTapped, NotCalled, Untapped,
      Doubted, OnePreview, PreviewIsOwn, IsPreview, ComesPreview, FileIsSent,
      DraftIsDoubted, TapsAreForOwn, AllShow
  <2>2. ChatIsPicked' /\ PreviewIsTapped' /\ IntentIsShown' /\ SentFileIsOwn'
    BY <1>1, <1>2 DEF ScreenInv, ChatIsPicked, PreviewIsTapped, IntentIsShown,
      Picking, Clicking, IsPreview, Doubted, OwnIsSent, SentFileIsOwn, SureOfChat, AllShow
  <2> QED  BY <2>1, <2>2 DEF ScreenInv
<1>3. CASE \E m \in Message : Sends(m)
  <2>1. PICK m \in Message : Sends(m)
    BY <1>3
  <2> DEFINE c == showing.chat
  <2>2. /\ messages' = Append(messages, m) /\ m.chat = c
        /\ showing' = ChatOf(c) /\ c \in Side
        /\ drafts' \subseteq drafts
        /\ \/ showing.at = "preview" /\ m.item = showing.item /\ m.item \in Item
           \/ showing.at # "preview" /\ c \in drafts /\ m.item = "words"
    BY <2>1, ScreenKinds DEF Sends, FileTypeOK
  <2>3. showing'.at = "chat" /\ showing'.chat = c /\ "words" \notin Item
    BY <2>2 DEF Item
  <2> HIDE DEF c
  <2>4. NotCalledUp' /\ NothingTapped' /\ DraftIsDoubted' /\ TapsAreForOwn'
    BY <1>1, <2>2, <2>3 DEF ScreenInv, NotCalledUp, NothingTapped, NotCalled,
      Untapped, Doubted, DraftIsDoubted, TapsAreForOwn, AllShow, c
  <2>5. SentFileIsOwn'
    <3>1. m.item \in {"own", "words"} \/ {"newer", "late"} \cap doubts # {}
      BY <2>2 DEF ScreenInv, PreviewIsOwn, IsPreview, Doubted
    <3>2. m.item = "words" => {"draft", "blind"} \cap doubts # {}
      BY <2>2, <2>3 DEF ScreenInv, DraftIsDoubted, Doubted
    <3>3. m.chat = "own" \/ {"link", "late"} \cap doubts # {}
      BY <1>1, <2>2 DEF ScreenInv, TapsAreForOwn, AllShow, Doubted, c
    <3>4. \A i \in DOMAIN messages' :
            /\ messages'[i].item \in {"own", "words"} \/ {"newer", "late"} \cap doubts # {}
            /\ messages'[i].item = "words" => {"draft", "blind"} \cap doubts # {}
            /\ messages'[i].chat = "own" \/ {"link", "late"} \cap doubts # {}
      BY <2>2, <3>1, <3>2, <3>3, MessageAdded DEF ScreenInv, SentFileIsOwn
    <3>5. ASSUME "late" \notin doubts,
                 NEW i \in DOMAIN messages', NEW j \in DOMAIN messages',
                 {messages'[i].item, messages'[j].item} \cap {"words"} = {}
          PROVE  i = j
      <4>1. messages'[i].item # "words" /\ messages'[j].item # "words"
        BY <3>5
      <4>2. CASE m.item = "words"
        <5>1. /\ i \in DOMAIN messages /\ messages'[i] = messages[i]
              /\ j \in DOMAIN messages /\ messages'[j] = messages[j]
          BY <2>2, <4>1, <4>2, MessageAdded
        <5>2. {messages[i].item, messages[j].item} \cap {"words"} = {}
          BY <4>1, <5>1
        <5> QED  BY <3>5, <5>1, <5>2 DEF ScreenInv, SentFileIsOwn
      <4>3. CASE m.item # "words"
        <5>1. \A k \in DOMAIN messages : messages[k].item = "words"
          BY <2>2, <3>5, <4>3 DEF ScreenInv, OnePreview, Doubted, IsPreview,
            FileIsSent
        <5> QED  BY <2>2, <4>1, <5>1, MessageAdded
      <4> QED  BY <4>2, <4>3
    <3> QED  BY <1>1, <3>4, <3>5 DEF SentFileIsOwn
  <2>6. OnePreview' /\ PreviewIsOwn'
    <3>1. "late" \in doubts \/ (FileIsSent' => ~ComesPreview)
      BY <2>2, MessageAdded DEF ScreenInv, OnePreview, Doubted, IsPreview,
        ComesPreview, FileIsSent
    <3>2. PreviewIsOwn'
      BY <1>1, <2>3 DEF ScreenInv, PreviewIsOwn, IsPreview, ComesPreview, Doubted
    <3> QED
      BY <1>1, <2>3, <2>5, <3>1, <3>2 DEF ScreenInv, SentFileIsOwn, OnePreview,
        Doubted, IsPreview, ComesPreview
  <2>7. ChatIsPicked'
    <3>1. /\ showing'.chat = showing.chat /\ ~IsPreview' /\ UNCHANGED <<step, coming, doubts>>
          /\ showing.at # "away"
      BY <1>1, <2>2, <2>3, <2>1 DEF IsPreview, c, Sends
    <3>2. showing # Away /\ (SureOfChat => SureOfChat')
      BY <3>1 DEF SureOfChat
    <3>3. AllShow("own") => AllShow("own")'
      BY <3>1 DEF AllShow
    <3>4. CASE step \in {"caption", "send"}
      BY <3>1, <3>3, <3>4 DEF ScreenInv, ChatIsPicked, Picking, Doubted
    <3>5. CASE step \notin {"caption", "send"}
      BY <3>1, <3>2, <3>3, <3>5 DEF ScreenInv, ChatIsPicked, Picking, Doubted
    <3> QED  BY <3>4, <3>5
  <2>8. showing = OwnPreview => OwnIsSent'
    <3>1. showing = OwnPreview => m = [chat |-> "own", item |-> "own"]
      BY <2>2 DEF OwnPreview, Message, Side, Item, c
    <3> QED  BY <2>2, <3>1, MessageAdded DEF OwnIsSent
  <2>9. PreviewIsTapped' /\ IntentIsShown'
    BY <1>1, <2>3, <2>2, <2>8, MessageAdded DEF ScreenInv, PreviewIsTapped,
      IntentIsShown, Clicking, Doubted, c
  <2> QED  BY <2>4, <2>5, <2>6, <2>7, <2>9 DEF ScreenInv
<1> QED  BY <1>1, <1>2, <1>3

-----------------------------------------------------------------------------
(* The invariant.                                                           *)

LEMMA ScreenStep ==
  ASSUME FileTypeOK, OneRow, ScreenInv, FileNext
  PROVE  ScreenInv'
<1>1. CASE LeavesScreen
  BY <1>1, LeavesScreenKeeps
<1>2. CASE OpenChat \/ TapAttach \/ PickMedia
  BY <1>2, OpenChatKeeps, TapAttachKeeps, PickMediaKeeps
<1>3. CASE TypeCaption \/ TapSendPoint \/ LaunchIntent
  BY <1>3, TypeCaptionKeeps, TapSendKeeps, LaunchKeeps
<1>4. CASE ClickSend \/ TapIsHandled \/ ScreenComesUp
  BY <1>4, ClickSendKeeps, TapHandledKeeps, ScreenComesKeeps
<1> QED  BY <1>1, <1>2, <1>3, <1>4 DEF FileNext, LeavesScreen

(* A send is reported on the word of the preview or of the chat. *)
LEMMA ReportedStep ==
  ASSUME FileTypeOK, PathIsPlanned, ScreenInv, ReportedFileIsSent, FileNext
  PROVE  ReportedFileIsSent'
<1>1. doubts \subseteq doubts' /\ (OwnIsSent => OwnIsSent')
  <2>1. CASE TapIsHandled
    BY <2>1, TapSends, MessageAdded DEF Sends, OwnIsSent
  <2>2. CASE LeavesScreen
    BY <2>2, LeavesScreenStep DEF OwnIsSent, shownVars
  <2>3. CASE ~TapIsHandled /\ ~LeavesScreen
    BY <2>3 DEF FileNext, LeavesScreen, OwnIsSent, OpenChat, TapAttach, PickMedia,
      TypeCaption, TapSendPoint, LaunchIntent, ClickSend, ScreenComesUp, Doubts,
      PutsUp
  <2> QED  BY <2>1, <2>2, <2>3
<1>2. CASE ButtonIsGone
  <2>1. step = "verify" /\ (~ButtonIsShown \/ "unread" \in doubts') /\ UNCHANGED messages
    BY <1>2 DEF ButtonIsGone, Doubts, shownVars
  <2>2. ~ButtonIsShown => showing # OwnPreview
    BY ScreenFields DEF ButtonIsShown, OwnPreview, Side, Item
  <2> QED  BY <1>1, <2>1, <2>2 DEF ReportedFileIsSent, ScreenInv, PreviewIsTapped,
    Doubted, OwnIsSent
<1>3. CASE EntryIsEmpty
  <2>1. step \in Clicking /\ UNCHANGED messages
        /\ \/ showing.at \in {"chat", "panel"} /\ showing.chat = "own" /\ coming = {}
           \/ {"empty", "unopened"} \cap doubts' # {}
    BY <1>3, ScreenKinds DEF EntryIsEmpty, Doubts, Unopened, shownVars, Clicking, FileTypeOK,
      Side
  <2>2. showing.at \in {"chat", "panel"} => showing # OwnPreview
    BY ScreenFields DEF OwnPreview, Side, Item
  <2> QED  BY <1>1, <2>1, <2>2 DEF ReportedFileIsSent, ScreenInv, IntentIsShown,
    OwnIsSent
<1>4. CASE ~ButtonIsGone /\ ~EntryIsEmpty
  <2>1. result' = "ok" => result = "ok"
    BY <1>4 DEF FileNext, GoesOn, EndsBody, runVars, EnterGuard, Wake, StopAgent,
      LeaveGuard, PushMedia, MediaIsIndexed, IndexTimesOut, OpenChat, TapAttach,
      PickMedia, TypeCaption, TapSendPoint, PickerRaises, CleanUp, PushDocument,
      LaunchIntent, ClickSend, ClickRaises, NoButton, IntentRaises, TapIsHandled,
      ScreenComesUp, PictureArrives, SenderDies
  <2> QED  BY <1>1, <2>1 DEF ReportedFileIsSent, OwnIsSent
<1> QED  BY <1>2, <1>3, <1>4

LEMMA FileInvStep ==
  ASSUME FileInv, [FileNext]_fileVars
  PROVE  FileInv'
<1>1. CASE FileNext
  <2>1. FileTypeOK' /\ PathIsPlanned' /\ OneRow' /\ GivenBack'
    BY <1>1, FileTypesStep, PathStep, RowStep, HeldStep DEF FileInv
  <2>2. ScreenInv' /\ ReportedFileIsSent' /\ LeavesPhoneClean'
    BY <1>1, ScreenStep, ReportedStep, CleanStep DEF FileInv
  <2> QED  BY <2>1, <2>2 DEF FileInv
<1>2. CASE UNCHANGED fileVars
  <2>1. FileTypeOK' /\ PathIsPlanned' /\ OneRow' /\ GivenBack'
    BY <1>2 DEF fileVars, runVars, shownVars, leftVars, FileInv, FileTypeOK, PathIsPlanned,
      OneRow, GivenBack, HoldsFile
  <2>2. ScreenInv'
    BY <1>2 DEF fileVars, runVars, shownVars, leftVars, FileInv, ScreenInv, NotCalledUp,
      NothingTapped, OnePreview, PreviewIsOwn, DraftIsDoubted, TapsAreForOwn, ChatIsPicked,
      PreviewIsTapped, IntentIsShown, SentFileIsOwn, Doubted, IsPreview, ComesPreview,
      OwnIsSent, FileIsSent, SureOfChat, AllShow
  <2>3. ReportedFileIsSent' /\ LeavesPhoneClean'
    BY <1>2 DEF fileVars, runVars, shownVars, leftVars, FileInv, ReportedFileIsSent,
      LeavesPhoneClean
  <2> QED  BY <2>1, <2>2, <2>3 DEF FileInv
<1> QED  BY <1>1, <1>2

-----------------------------------------------------------------------------
(* Theorems: a call of send_whatsapp is a send of a text or of a file, and  *)
(* leaves the variables of the other alone.                                 *)

PhoneInv == file_path \in BOOLEAN /\ TextInv /\ FileInv

LEMMA BranchStep ==
  ASSUME [SendNext]_sendVars
  PROVE  UNCHANGED file_path /\ [TextNext]_textVars /\ [FileNext]_fileVars
BY DEF SendNext, sendVars

(* Every reachable state of a call satisfies the invariants of both         *)
(* branches: what the code knows of the chat, the text or file, and the     *)
(* taps wherever it is (whatsapp.py:966-1111).                              *)
THEOREM PhoneInvariant == SendSpec => []PhoneInv
<1>1. SendInit => PhoneInv
  BY TextInitOK, FileInitOK DEF SendInit, NoFile, NoText, PhoneInv
<1>2. PhoneInv /\ [SendNext]_sendVars => PhoneInv'
  BY BranchStep, TextInvStep, FileInvStep DEF PhoneInv
<1> QED  BY <1>1, <1>2, PTL DEF SendSpec

(* The variables keep their types, for all chats and bounds. *)
THEOREM PhoneTypes == SendSpec => []PhoneTypeOK
<1>1. PhoneInv => PhoneTypeOK
  BY DEF PhoneInv, TextInv, FileInv, PhoneTypeOK
<1> QED  BY <1>1, PhoneInvariant, PTL

(* The retries of one job send at most one message, since no field is       *)
(* filled again, unless a chat opens after it has left                      *)
(* (whatsapp.py:505-638).                                                   *)
THEOREM TextIsSentOnce == SendSpec => []SentByOneTap
<1>1. PhoneInv => SentByOneTap
  <2> SUFFICES ASSUME PhoneInv PROVE SentByOneTap
    OBVIOUS
  <2>1. CASE sent = <<>>
    <3>1. Len(sent) = 0
      BY <2>1
    <3> QED  BY <3>1 DEF SentByOneTap
  <2>2. CASE sent # <<>>
    <3>1. "again" \in trusted \/ Len(sent) = 1
      BY <2>2 DEF PhoneInv, TextInv, SentLeavesNoDraft
    <3> QED  BY <3>1 DEF SentByOneTap
  <2> QED  BY <2>1, <2>2
<1> QED  BY <1>1, PhoneInvariant, PTL

(* The message is the text of the job and goes to the chat of its number,   *)
(* but for the doubts that the code lets pass (chat_navigation.py:728-769,  *)
(* whatsapp.py:919-944).                                                    *)
THEOREM TextIsAsIntended == SendSpec => []SentAsIntended
<1>1. PhoneInv => SentAsIntended
  BY DEF PhoneInv, TextInv
<1> QED  BY <1>1, PhoneInvariant, PTL

(* A draft that the code could verify is never taken for a message          *)
(* (whatsapp.py:505-601).                                                   *)
THEOREM TextReportIsTrue == SendSpec => []ReportedIsSent
<1>1. PhoneInv => ReportedIsSent
  BY DEF PhoneInv, TextInv
<1> QED  BY <1>1, PhoneInvariant, PTL

(* A send of a file sends that file, once, to the chat of the number, and   *)
(* nothing else, but for what the code took for granted: every preview that *)
(* comes up is that of the row it tapped, and there is one                  *)
(* (media_picker.py:162-207, 247-320, whatsapp.py:505-601).                 *)
THEOREM FileIsAsIntended == SendSpec => []SentFileIsOwn
<1>1. PhoneInv => SentFileIsOwn
  BY DEF PhoneInv, FileInv, ScreenInv
<1> QED  BY <1>1, PhoneInvariant, PTL

(* A file that is reported as sent has left the phone for the chat of the   *)
(* number, unless the code could not know (media_picker.py:210-259,         *)
(* whatsapp.py:366-401).                                                    *)
THEOREM FileReportIsTrue == SendSpec => []ReportedFileIsSent
<1>1. PhoneInv => ReportedFileIsSent
  BY DEF PhoneInv, FileInv
<1> QED  BY <1>1, PhoneInvariant, PTL

(* Whatever raises on the way, the phone is left as it was found, but for   *)
(* the calls of the cleanup that failed (adb.py:348-388,                    *)
(* media_picker.py:335-345, appium_media.py:164-207).                       *)
THEOREM PhoneIsLeftClean == SendSpec => []LeavesPhoneClean
<1>1. PhoneInv => LeavesPhoneClean
  BY DEF PhoneInv, FileInv
<1> QED  BY <1>1, PhoneInvariant, PTL
=============================================================================
