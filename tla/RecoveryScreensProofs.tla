------------------------- MODULE RecoveryScreensProofs -------------------------
(***************************************************************************)
(* Theorems about RecoveryScreens, for every number, calling code, chat    *)
(* and limit of attempts.  ScreensInv is the inductive invariant: what a   *)
(* screen, a screen to come and a dump of this recovery tell is true of    *)
(* the account, and what the code knows at each point of a stage.          *)
(***************************************************************************)
EXTENDS RecoveryScreens, SequenceTheorems, TLAPS

(* The screens that tell something of the account which does not become     *)
(* false again.                                                             *)
Tells(s) ==
  /\ s = "home" => account = "in"
  /\ s = "banned" => account = "banned"
  /\ s = "sent" => appealed

PhoneTells ==
  /\ Tells(screen)
  /\ Tells(coming)
  /\ account = "reviewing" => appealed

(* So does a dump, once the file of before the recovery is overwritten.     *)
DumpTells ==
  (xml \in Look /\ ~before) =>
    /\ xml.screen = "banned" => account = "banned"
    /\ xml.screen = "sent" => appealed
    /\ xml.screen = "home" => account = "in"

(* Where the code is: a job that has ended is left alone, only a request    *)
(* for a review taps through the submit buttons, and a dump that is looked  *)
(* at is there.                                                             *)
PlaceOK ==
  /\ status \notin Stage => pc = "idle"
  /\ pc \in {"submit", "reread"} => status = "requesting_review"
  /\ looked => pc \notin {"idle", "open", "reopen", "code"} /\ xml \in Look

(* A form that was typed without a slip holds the number. *)
FormIsOwn == slip = "none" => form.country \o form.national = Own

ScreensInv ==
  /\ ScreensTypeOK
  /\ PhoneTells /\ DumpTells
  /\ PlaceOK
  /\ FormIsOwn
  /\ VerdictIsTrue /\ ReviewIsAwaited

-----------------------------------------------------------------------------
(* What the code makes of a dump.                                           *)

LEMMA ScreenNames ==
  Screen = {"home", "banner", "appeal", "detail", "sent", "banned", "welcome", "number",
            "dialog", "code", "notice", "chat", "launcher"}
BY DEF Screen, Marks

(* Only the screen itself is classified as the end of a recovery, or as a   *)
(* review that is pending, when no text of a chat is on it.                 *)
LEMMA ClassTells ==
  ASSUME NEW s \in Screen
  PROVE  /\ ClassifyElements(Marks[s]) = "logged_in" <=> s = "home"
         /\ ClassifyElements(Marks[s]) = "permanent_ban" <=> s = "banned"
         /\ ClassifyElements(Marks[s]) = "review_pending" <=> s = "sent"
BY ScreenNames DEF ClassifyElements, Marks

LEMMA ScreensOfTell ==
  ASSUME account \in Account, account = "reviewing" => appealed,
         NEW s \in ScreensOf[account]
  PROVE  s \in Screen /\ Tells(s)
BY ScreenNames DEF Account, ScreensOf, Tells

(* The two parts of a number, put together, are the number. *)
Parts(p) ==
  /\ p.country \in Seq(0..9) /\ p.national \in Seq(0..9)
  /\ p.country \o p.national = Own

Cut(k) == [country |-> SubSeq(Own, 1, k), national |-> SubSeq(Own, k + 1, Len(Own))]

LEMMA CutIsWhole ==
  ASSUME NEW k \in 0..Len(Own)
  PROVE  Parts(Cut(k)) /\ Cut(k).country = SubSeq(Own, 1, k) /\ Len(Cut(k).country) = k
<1>1. Own \in Seq(0..9) /\ Len(Own) \in Nat
  BY RecoveryScreensAssumption, LenProperties
<1>2. \A i \in 1..Len(Own) : Own[i] \in 0..9
  BY <1>1, ElementOfSeq
<1>3. SubSeq(Own, 1, k) \in Seq(0..9) /\ Len(SubSeq(Own, 1, k)) = k
  <2>1. \A i \in 1..k : Own[i] \in 0..9
    BY <1>1, <1>2
  <2> QED
    BY <1>1, <2>1, SubSeqProperties
<1>4. SubSeq(Own, k + 1, Len(Own)) \in Seq(0..9)
  <2>1. \A i \in (k + 1)..Len(Own) : Own[i] \in 0..9
    BY <1>1, <1>2
  <2> QED
    BY <1>1, <2>1, SubSeqProperties
<1>5. SubSeq(Own, 1, k) \o SubSeq(Own, k + 1, Len(Own)) = SubSeq(Own, 1, Len(Own))
  <2>1. /\ 1 \in 1..(Len(Own) + 1) /\ k \in (1 - 1)..Len(Own)
        /\ Len(Own) \in k..Len(Own)
    BY <1>1
  <2> QED
    BY <1>1, <2>1, ConcatAdjacentSubSeq
<1>6. /\ Cut(k).country = SubSeq(Own, 1, k)
      /\ Cut(k).national = SubSeq(Own, k + 1, Len(Own))
  BY DEF Cut
<1>7. Cut(k).country \o Cut(k).national = Own
  BY <1>1, <1>5, <1>6, SubSeqFull
<1> QED
  BY <1>3, <1>4, <1>6, <1>7 DEF Parts

(* A field that is empty: the parts are those of the number, or all of it   *)
(* is the national part.                                                    *)
LEMMA SplitOfEmpty == Parts(SplitCountryAndNational(Own, <<>>))
<1>1. /\ Own \in Seq(0..9) /\ Len(Own) \in Nat /\ Len(Own) > 0
      /\ NationalDigits \in Nat /\ NationalDigits > 1
  BY RecoveryScreensAssumption, LenProperties, EmptySeq
<1> DEFINE n == Len(Own) - NationalDigits
           split == SplitCountryAndNational(Own, <<>>)
<1>2. split = IF n \in 1..2 /\ SubSeq(Own, 1, 2) = <<5, 5>> THEN Cut(2)
              ELSE IF n > 0 THEN Cut(n)
              ELSE [country |-> <<>>, national |-> Own]
  BY DEF SplitCountryAndNational, Cut
<1>3. ASSUME NEW k \in 0..Len(Own), k < Len(Own), split = Cut(k)
      PROVE  Parts(split)
  BY <1>3, CutIsWhole
<1>4. CASE n \in 1..2 /\ SubSeq(Own, 1, 2) = <<5, 5>>
  <2>1. 2 \in 0..Len(Own) /\ 2 < Len(Own)
    BY <1>1, <1>4
  <2> QED
    BY <1>2, <1>3, <1>4, <2>1
<1>5. CASE ~(n \in 1..2 /\ SubSeq(Own, 1, 2) = <<5, 5>>) /\ n > 0
  <2>1. n \in 0..Len(Own) /\ n < Len(Own)
    BY <1>1, <1>5
  <2>2. split = Cut(n)
    BY <1>2, <1>5
  <2> QED
    BY <1>3, <2>1, <2>2
<1>6. CASE ~(n > 0)
  <2>1. split = [country |-> <<>>, national |-> Own]
    BY <1>1, <1>2, <1>6
  <2>2. split.country = <<>> /\ split.national = Own
    BY <2>1
  <2>3. <<>> \in Seq(0..9) /\ <<>> \o Own = Own /\ Len(<<>>) = 0
    BY <1>1, ConcatEmptySeq, EmptySeq
  <2>4. split.country \o split.national = Own
    BY <2>2, <2>3
  <2> QED
    BY <1>1, <2>2, <2>3, <2>4 DEF Parts
<1> QED
  BY <1>4, <1>5, <1>6

(* A field that shows a calling code: it stays, before the rest of the      *)
(* number or, when the number is of another country, before all of it.      *)
LEMMA SplitOfShown ==
  ASSUME NEW shown \in Seq(0..9), shown # <<>>
  PROVE  LET split == SplitCountryAndNational(Own, shown)
         IN  /\ split.country = shown
             /\ split.national \in Seq(0..9)
             /\ (Len(shown) < Len(Own) /\ shown = SubSeq(Own, 1, Len(shown))) =>
                  shown \o split.national = Own
<1>1. Own \in Seq(0..9) /\ Len(Own) \in Nat /\ Len(shown) \in Nat /\ Len(shown) > 0
  BY RecoveryScreensAssumption, LenProperties, EmptySeq
<1>2. PICK split : split = SplitCountryAndNational(Own, shown)
  OBVIOUS
<1>3. CASE Len(shown) < Len(Own) /\ SubSeq(Own, 1, Len(shown)) = shown
  <2>1. split = Cut(Len(shown))
    BY <1>1, <1>2, <1>3 DEF SplitCountryAndNational, Cut
  <2>2. Len(shown) \in 0..Len(Own)
    BY <1>1, <1>3
  <2>3. Parts(split) /\ split.country = shown
    BY <1>3, <2>1, <2>2, CutIsWhole
  <2> QED
    BY <1>2, <2>3 DEF Parts
<1>4. CASE ~(Len(shown) < Len(Own) /\ SubSeq(Own, 1, Len(shown)) = shown)
  <2>1. split = [country |-> shown, national |-> Own]
    BY <1>1, <1>2, <1>4 DEF SplitCountryAndNational
  <2> QED
    BY <1>1, <1>2, <1>4, <2>1
<1> QED
  BY <1>3, <1>4

LEMMA SplitIsTyped ==
  ASSUME NEW shown \in Seq(0..9)
  PROVE  /\ SplitCountryAndNational(Own, shown).country \in Seq(0..9)
         /\ SplitCountryAndNational(Own, shown).national \in Seq(0..9)
<1>1. CASE shown = <<>>
  BY <1>1, SplitOfEmpty DEF Parts
<1>2. CASE shown # <<>>
  BY <1>2, SplitOfShown
<1> QED
  BY <1>1, <1>2

-----------------------------------------------------------------------------
(* What a step may do to the phone, to the form and to the job.             *)

PhoneGoesOn ==
  /\ screen' \in Screen /\ coming' \in Screen \cup {NoFile}
  /\ account' \in Account /\ appealed' \in BOOLEAN
  /\ account = "in" => account' = "in"
  /\ account = "banned" => account' = "banned"
  /\ appealed => appealed'
  /\ PhoneTells'

FormGoesOn ==
  /\ form' \in [Field -> Seq(0..9)]
  /\ slip' \in Slip
  /\ FormIsOwn'

JobGoesOn ==
  /\ status' \in Stage \cup {"recovered", "failed"}
  /\ error' \in {"none", "banned", "attempts"}
  /\ attempts' \in 0..(MaxAttempts - 1)
  /\ pc' \in ScreensPc
  /\ taps' \in 0..2 /\ late' \in BOOLEAN
  /\ looked' \in BOOLEAN
  /\ looked' => looked /\ pc' \notin {"idle", "open", "reopen", "code"}
  /\ status' \notin Stage => pc' = "idle"
  /\ pc' \in {"submit", "reread"} => status' = "requesting_review"
  /\ unsure' \in BOOLEAN
  /\ status' = "recovered" => account = "in" \/ unsure'
  /\ error' = "banned" => account = "banned" \/ unsure'
  /\ status' = "review_pending" => appealed \/ unsure'

DumpKept == rung' \in 0..Len(Ladder) /\ UNCHANGED <<xml, before>>

(* All but the look at a new dump are made of such steps. *)
LEMMA StepKeepsInv ==
  ASSUME ScreensInv, PhoneGoesOn, FormGoesOn, JobGoesOn, DumpKept
  PROVE  ScreensInv'
<1>1. ScreensTypeOK'
  BY DEF ScreensInv, ScreensTypeOK, DumpTypeOK, PhoneGoesOn, FormGoesOn, JobGoesOn, DumpKept
<1>2. PhoneTells'
  BY DEF PhoneGoesOn
<1>3. DumpTells'
  BY DEF ScreensInv, DumpTells, PhoneGoesOn, JobGoesOn, DumpKept
<1>4. PlaceOK'
  BY DEF ScreensInv, PlaceOK, JobGoesOn, DumpKept
<1>5. FormIsOwn'
  BY DEF FormGoesOn
<1>6. VerdictIsTrue' /\ ReviewIsAwaited'
  BY DEF JobGoesOn, PhoneGoesOn, DumpKept, VerdictIsTrue, ReviewIsAwaited
<1> QED
  BY <1>1, <1>2, <1>3, <1>4, <1>5, <1>6 DEF ScreensInv

LEMMA PhoneStays ==
  ASSUME ScreensInv, UNCHANGED <<screen, coming, account, appealed>>
  PROVE  PhoneGoesOn
BY DEF ScreensInv, ScreensTypeOK, PhoneTells, Tells, PhoneGoesOn

LEMMA FormStays ==
  ASSUME ScreensInv, UNCHANGED <<form, slip>>
  PROVE  FormGoesOn
BY DEF ScreensInv, ScreensTypeOK, FormIsOwn, FormGoesOn

LEMMA DraftOK ==
  ASSUME FormComesUp
  PROVE  FormGoesOn
<1>1. Drafts \subseteq [Field -> Seq(0..9)]
  <2>1. ASSUME NEW code \in Shown \cup {<<>>}
        PROVE  [field \in Field |-> IF field = "country" THEN code ELSE <<>>]
                 \in [Field -> Seq(0..9)]
    <3>1. code \in Seq(0..9)
      BY RecoveryScreensAssumption, EmptySeq
    <3> QED
      BY <3>1, EmptySeq
  <2> QED
    BY <2>1, RecoveryScreensAssumption DEF Drafts, Field
<1>2. slip' = "unseen" /\ form' \in [Field -> Seq(0..9)]
  BY <1>1 DEF FormComesUp
<1> QED
  BY <1>2 DEF FormGoesOn, FormIsOwn, Slip

LEMMA JobStays ==
  ASSUME ScreensInv, UNCHANGED jobVars
  PROVE  JobGoesOn
BY DEF jobVars, ScreensInv, ScreensTypeOK, PlaceOK, VerdictIsTrue, ReviewIsAwaited, JobGoesOn

LEMMA DumpStays ==
  ASSUME ScreensInv, UNCHANGED <<dumpVars, before>>
  PROVE  DumpKept
BY DEF dumpVars, ScreensInv, ScreensTypeOK, DumpTypeOK, DumpKept

-----------------------------------------------------------------------------
(* The phone.                                                               *)

LEMMA CallsOK ==
  ASSUME ScreensInv, NEW S, Calls(S), \A s \in S : s \in Screen /\ Tells(s)
  PROVE  PhoneGoesOn /\ UNCHANGED <<form, slip>>
BY DEF Calls, ScreensInv, ScreensTypeOK, PhoneTells, Tells, PhoneGoesOn

LEMMA AppealsOK ==
  ASSUME ScreensInv, Appeals
  PROVE  PhoneGoesOn /\ UNCHANGED <<form, slip>>
BY ScreenNames DEF Appeals, ScreensInv, ScreensTypeOK, PhoneTells, Tells, PhoneGoesOn, Account

LEMMA PressOK ==
  ASSUME ScreensInv, NEW mark, Press(mark)
  PROVE  PhoneGoesOn /\ UNCHANGED <<form, slip>>
<1>1. \A s \in {"detail", "number", "dialog", "code", "chat", "appeal"} : s \in Screen /\ Tells(s)
  BY ScreenNames DEF Tells
<1>2. \A s \in ScreensOf[account] : s \in Screen /\ Tells(s)
  BY ScreensOfTell DEF ScreensInv, ScreensTypeOK, PhoneTells
<1>3. CASE Appeals
  BY <1>3, AppealsOK
<1>4. CASE \/ Calls({"detail"}) \/ Calls({"number"}) \/ Calls({"dialog"}) \/ Calls({"code"})
           \/ Calls(ScreensOf[account]) \/ Calls({"chat"}) \/ Calls({"appeal"})
  BY <1>1, <1>2, <1>4, CallsOK
<1> QED
  BY <1>3, <1>4 DEF Press, Registers

LEMMA TapOK ==
  ASSUME ScreensInv, NEW mark, Tap(mark)
  PROVE  PhoneGoesOn /\ FormGoesOn /\ DumpKept
<1>1. PhoneGoesOn /\ UNCHANGED <<form, slip>>
  <2>1. CASE UNCHANGED phoneVars
    BY <2>1, PhoneStays DEF phoneVars
  <2>2. CASE \E other : Press(other)
    BY <2>2, PressOK
  <2> QED
    BY <2>1, <2>2 DEF Tap
<1> QED
  BY <1>1, FormStays, DumpStays DEF Tap

LEMMA LeavesOK ==
  ASSUME ScreensInv, Leaves
  PROVE  PhoneGoesOn /\ FormGoesOn /\ DumpKept
BY PhoneStays, FormStays, DumpStays DEF Leaves, phoneVars

LEMMA LogsInOK ==
  ASSUME ScreensInv, LogsIn
  PROVE  PhoneGoesOn /\ UNCHANGED <<form, slip>>
BY ScreenNames DEF LogsIn, ScreensInv, ScreensTypeOK, PhoneTells, Tells, PhoneGoesOn, Account

LEMMA PhoneStepOK ==
  ASSUME ScreensInv, PhoneStep
  PROVE  ScreensInv'
<1>1. CASE AppShows
  <2>1. PhoneGoesOn
    BY <1>1, ScreenNames, NoFileAssumption
    DEF AppShows, ScreensInv, ScreensTypeOK, PhoneTells, Tells, PhoneGoesOn
  <2> QED
    BY <1>1, <2>1, FormStays, JobStays, DumpStays, StepKeepsInv DEF AppShows, jobVars
<1>2. CASE AppRefreshes
  <2>1. screen' \in Screen /\ Tells(screen')
    BY <1>2, ScreensOfTell DEF AppRefreshes, ScreensInv, ScreensTypeOK, PhoneTells
  <2>2. PhoneGoesOn
    BY <1>2, <2>1
    DEF AppRefreshes, ScreensInv, ScreensTypeOK, PhoneTells, Tells, PhoneGoesOn
  <2> QED
    BY <1>2, <2>2, FormStays, JobStays, DumpStays, StepKeepsInv DEF AppRefreshes, jobVars
<1>3. CASE WhatsAppDecides
  <2>1. /\ account \in {"reviewing", "restricted"}
        /\ account' \in Account
        /\ account' = "reviewing" => account = "reviewing"
    BY <1>3 DEF WhatsAppDecides, Account
  <2>2. PhoneGoesOn
    BY <1>3, <2>1
    DEF WhatsAppDecides, ScreensInv, ScreensTypeOK, PhoneTells, Tells, PhoneGoesOn
  <2>3. FormGoesOn
    <3>1. CASE UNCHANGED <<form, slip>>
      BY <3>1, FormStays
    <3>2. CASE FormComesUp
      BY <3>2, DraftOK
    <3> QED
      BY <1>3, <3>1, <3>2 DEF WhatsAppDecides
  <2> QED
    BY <1>3, <2>2, <2>3, JobStays, DumpStays, StepKeepsInv DEF WhatsAppDecides, jobVars
<1>4. CASE AutoFill
  BY <1>4, LogsInOK, FormStays, JobStays, DumpStays, StepKeepsInv DEF AutoFill, jobVars
<1> QED
  BY <1>1, <1>2, <1>3, <1>4 DEF PhoneStep

-----------------------------------------------------------------------------
(* The job.                                                                 *)

LEMMA EndsOK ==
  ASSUME ScreensInv, NEW outcome \in Stage \cup {"recovered", "failed"},
         NEW why \in {"none", "banned", "attempts"}, Ends(outcome, why),
         why = "banned" => outcome = "failed",
         outcome = "recovered" => account = "in" \/ before \/ Misread,
         why = "banned" => account = "banned" \/ before \/ Misread,
         outcome = "review_pending" =>
           \/ appealed \/ before \/ Misread
           \/ unsure /\ status = "review_pending"
  PROVE  JobGoesOn
<1>1. /\ status' = outcome /\ error' = why /\ attempts' = attempts
      /\ pc' = "idle" /\ looked' = FALSE /\ taps' = 0 /\ late' = FALSE
  BY DEF Ends, Forgets
<1>2. attempts \in 0..(MaxAttempts - 1) /\ "idle" \in ScreensPc /\ 0 \in 0..2
  BY DEF ScreensInv, ScreensTypeOK, ScreensPc
<1>3. /\ unsure' \in BOOLEAN
      /\ (outcome \in Verdict /\ (before \/ Misread \/ (unsure /\ outcome = status))) => unsure'
  BY Zenon DEF Ends
<1>4. /\ status' = "recovered" => account = "in" \/ unsure'
      /\ error' = "banned" => account = "banned" \/ unsure'
      /\ status' = "review_pending" => appealed \/ unsure'
  BY <1>1, <1>3 DEF Verdict
<1> QED
  BY <1>1, <1>2, <1>3, <1>4 DEF JobGoesOn

LEMMA RetryOrFailOK ==
  ASSUME ScreensInv, status \in Stage, RetryOrFail
  PROVE  JobGoesOn
<1>1. CASE attempts + 1 >= MaxAttempts
  <2>1. Ends("failed", "attempts")
    BY <1>1 DEF RetryOrFail
  <2>2. "failed" \in Stage \cup {"recovered", "failed"}
    OBVIOUS
  <2> QED
    BY <2>1, <2>2, EndsOK
<1>2. CASE ~(attempts + 1 >= MaxAttempts)
  <2>1. attempts' \in 0..(MaxAttempts - 1)
    BY <1>2, RecoveryScreensAssumption DEF RetryOrFail, ScreensInv, ScreensTypeOK
  <2>2. /\ pc' = "idle" /\ looked' = FALSE /\ taps' = 0 /\ late' = FALSE
        /\ status' = status /\ error' = error /\ unsure' = unsure /\ "idle" \in ScreensPc /\ 0 \in 0..2
    BY <1>2 DEF RetryOrFail, Forgets, ScreensPc
  <2>3. /\ error \in {"none", "banned", "attempts"} /\ unsure \in BOOLEAN
        /\ status = "recovered" => account = "in" \/ unsure
        /\ error = "banned" => account = "banned" \/ unsure
        /\ status = "review_pending" => appealed \/ unsure
    BY DEF ScreensInv, ScreensTypeOK, ReviewIsAwaited, VerdictIsTrue
  <2> QED
    BY <2>1, <2>2, <2>3 DEF JobGoesOn
<1> QED
  BY <1>1, <1>2

LEMMA GoesToOK ==
  ASSUME ScreensInv, status \in Stage, NEW label \in ScreensPc, GoesTo(label),
         label \in {"submit", "reread"} => status = "requesting_review",
         taps' \in 0..2, late' \in BOOLEAN
  PROVE  JobGoesOn
BY DEF GoesTo, ScreensInv, ScreensTypeOK, VerdictIsTrue, ReviewIsAwaited, JobGoesOn

LEMMA ForgetsOK ==
  ASSUME Forgets
  PROVE  taps' \in 0..2 /\ late' \in BOOLEAN
<1>1. taps' \in 0..2
  BY DEF Forgets
<1>2. late' \in BOOLEAN
  BY DEF Forgets
<1> QED
  BY <1>1, <1>2

(* What a dump that is looked at says of account and appeal. *)
LEMMA ClassIsTrue ==
  ASSUME ScreensInv, looked
  PROVE  /\ status \in Stage
         /\ Class = "logged_in" => account = "in" \/ before \/ Misread
         /\ Class = "permanent_ban" => account = "banned" \/ before \/ Misread
         /\ Class = "review_pending" => appealed \/ before \/ Misread
<1>1. xml.screen \in Screen /\ xml \in Look /\ xml # NoFile
  BY NoFileAssumption DEF ScreensInv, PlaceOK, Look
<1>2. ~Misread => Class = ClassifyElements(Marks[xml.screen])
  BY <1>1 DEF Misread
<1> QED
  BY <1>1, <1>2, ClassTells DEF ScreensInv, PlaceOK, DumpTells

LEMMA ApplyScreenOK ==
  ASSUME ScreensInv, looked, ApplyScreen(Class),
         Class \in Settled \/ status \in {"requesting_review", "review_pending"}
  PROVE  JobGoesOn
<1>1. CASE RetryOrFail
  BY <1>1, RetryOrFailOK, ClassIsTrue
<1>2. CASE Ends("relogin", "none") \/ Ends("requesting_review", "none")
  BY <1>2, EndsOK DEF Stage
<1>3. CASE Class = "logged_in" /\ Ends("recovered", "none")
  BY <1>3, EndsOK, ClassIsTrue
<1>4. CASE Class = "permanent_ban" /\ Ends("failed", "banned")
  BY <1>4, EndsOK, ClassIsTrue
<1>5. CASE Class = "review_pending" /\ Ends("review_pending", "none")
  BY <1>5, EndsOK, ClassIsTrue DEF Stage
<1>6. CASE status = "review_pending" /\ Ends("review_pending", "none")
  BY <1>6, EndsOK DEF ScreensInv, ReviewIsAwaited, Stage
<1> QED
  BY <1>1, <1>2, <1>3, <1>4, <1>5, <1>6 DEF ApplyScreen, Settled

(* The code runs stages of a job that has not ended. *)
LEMMA Staged ==
  ASSUME ScreensInv, pc # "idle" \/ looked
  PROVE  status \in Stage
BY DEF ScreensInv, PlaceOK

-----------------------------------------------------------------------------
(* The steps of a stage.                                                    *)

LEMMA LooksAreLooks ==
  ASSUME NEW shown \in Screen, NEW country \in Seq(0..9), NEW look \in LooksOf(shown, country)
  PROVE  look \in Look /\ look.screen = shown
BY EmptySeq, RecoveryScreensAssumption DEF LooksOf, Look

LEMMA CountryIsTyped ==
  ASSUME form \in [Field -> Seq(0..9)]
  PROVE  form.country \in Seq(0..9) /\ form.national \in Seq(0..9)
BY DEF Field

LEMMA LooksOK ==
  ASSUME ScreensInv, Looks
  PROVE  ScreensInv'
<1>1. /\ pc \notin {"idle", "open", "reopen", "code"}
      /\ UNCHANGED <<status, error, attempts, pc, taps, late, unsure, phoneVars>> /\ looked' = TRUE
      /\ status \in Stage
  BY Staged DEF Looks, Dumping
<1>2. rung' = 0 /\ 0 \in 0..Len(Ladder)
  BY DEF Looks, DumpShows, DumpShowsOld, ScreensInv, ScreensTypeOK, DumpTypeOK
<1>3. /\ xml' \in Look /\ before' \in BOOLEAN
      /\ ~before' => /\ xml'.screen = "banned" => account = "banned"
                     /\ xml'.screen = "sent" => appealed
                     /\ xml'.screen = "home" => account = "in"
  <2>1. CASE \E look \in LooksOf(screen, form.country) : DumpShows(look) /\ before' = FALSE
    <3>1. PICK look \in LooksOf(screen, form.country) : DumpShows(look) /\ before' = FALSE
      BY <2>1
    <3>2. look \in Look /\ look.screen = screen
      BY LooksAreLooks, CountryIsTyped DEF ScreensInv, ScreensTypeOK
    <3> QED
      BY <3>1, <3>2 DEF DumpShows, ScreensInv, PhoneTells, Tells
  <2>2. CASE DumpShowsOld /\ UNCHANGED before
    BY <2>2 DEF DumpShowsOld, ScreensInv, ScreensTypeOK, DumpTypeOK, DumpTells
  <2> QED
    BY <2>1, <2>2 DEF Looks
<1>4. ScreensTypeOK'
  BY <1>1, <1>2, <1>3 DEF phoneVars, ScreensInv, ScreensTypeOK, DumpTypeOK, Ladder
<1>5. PhoneTells' /\ DumpTells'
  BY <1>1, <1>3 DEF phoneVars, ScreensInv, PhoneTells, Tells, DumpTells
<1>7. FormIsOwn'
  BY <1>1 DEF phoneVars, ScreensInv, FormIsOwn
<1>6. PlaceOK' /\ ReviewIsAwaited' /\ VerdictIsTrue'
  BY <1>1, <1>3
  DEF phoneVars, ScreensInv, PlaceOK, ReviewIsAwaited, VerdictIsTrue, Stage
<1> QED
  BY <1>4, <1>5, <1>6, <1>7 DEF ScreensInv

LEMMA LadderOK ==
  ASSUME ScreensInv, RunsLadder \/ RebootsPhone \/ LadderRaises
  PROVE  ScreensInv'
<1>1. status \in Stage
  BY Staged DEF RunsLadder, RebootsPhone, LadderRaises, Dumping
<1>2. CASE RunsLadder
  <2>1. DumpKept
    BY <1>2 DEF RunsLadder, NextRung, DumpKept, jobVars, ScreensInv, ScreensTypeOK, DumpTypeOK,
                Ladder
  <2> QED
    BY <1>2, <2>1, PhoneStays, FormStays, JobStays, StepKeepsInv DEF RunsLadder, phoneVars
<1>3. CASE RebootsPhone
  <2>1. DumpKept
    BY <1>3 DEF RebootsPhone, RebootRung, NextRung, DumpKept, jobVars, ScreensInv,
                ScreensTypeOK, DumpTypeOK, Ladder
  <2>2. PhoneGoesOn
    BY <1>3, ScreenNames, NoFileAssumption
    DEF RebootsPhone, ScreensInv, ScreensTypeOK, PhoneTells, Tells, PhoneGoesOn
  <2>3. FormGoesOn
    BY <1>3, FormStays, DraftOK DEF RebootsPhone
  <2> QED
    BY <1>3, <2>1, <2>2, <2>3, JobStays, StepKeepsInv DEF RebootsPhone
<1>4. CASE LadderRaises
  <2>1. DumpKept
    BY <1>4 DEF LadderRaises, DumpRaises, DumpKept, ScreensInv, ScreensTypeOK, DumpTypeOK,
                Ladder
  <2> QED
    BY <1>1, <1>4, <2>1, PhoneStays, FormStays, RetryOrFailOK, StepKeepsInv
    DEF LadderRaises, phoneVars
<1> QED
  BY <1>2, <1>3, <1>4

LEMMA CommandRaisesOK ==
  ASSUME ScreensInv, CommandRaises
  PROVE  ScreensInv'
<1>1. status \in Stage
  BY Staged DEF CommandRaises
<1> QED
  BY <1>1, LeavesOK, RetryOrFailOK, StepKeepsInv DEF CommandRaises

LEMMA OpenWhatsAppOK ==
  ASSUME ScreensInv, OpenWhatsApp
  PROVE  ScreensInv'
<1>1. status \in Stage
  BY Staged DEF OpenWhatsApp
<1>2. PICK label \in {"look", "agree"} : GoesTo(label)
  BY DEF OpenWhatsApp
<1>3. taps' \in 0..2 /\ late' \in BOOLEAN /\ label \in ScreensPc
  BY DEF OpenWhatsApp, ScreensInv, ScreensTypeOK, ScreensPc
<1>4. JobGoesOn
  BY <1>1, <1>2, <1>3, GoesToOK
<1>5. screen' \in Screen /\ Tells(screen')
  BY ScreenNames, ScreensOfTell
  DEF OpenWhatsApp, ScreensInv, ScreensTypeOK, PhoneTells, Tells
<1>6. PhoneGoesOn
  BY <1>5 DEF OpenWhatsApp, ScreensInv, ScreensTypeOK, PhoneTells, Tells, PhoneGoesOn
<1> QED
  BY <1>4, <1>6, FormStays, DumpStays, StepKeepsInv DEF OpenWhatsApp

LEMMA BeginStageOK ==
  ASSUME ScreensInv, BeginStage
  PROVE  ScreensInv'
<1>1. taps' \in 0..2 /\ late' \in BOOLEAN /\ "open" \in ScreensPc
  BY DEF BeginStage, ScreensInv, ScreensTypeOK, ScreensPc
<1>2. JobGoesOn
  BY <1>1, GoesToOK DEF BeginStage
<1> QED
  BY <1>2, PhoneStays, FormStays, DumpStays, StepKeepsInv DEF BeginStage, phoneVars

LEMMA RequestReviewOK ==
  ASSUME ScreensInv, RequestReview
  PROVE  ScreensInv'
<1>1. looked /\ status = "requesting_review" /\ status \in Stage
  BY DEF RequestReview, Stage
<1>2. CASE Class \in Settled /\ ApplyScreen(Class) /\ Leaves
  BY <1>1, <1>2, ApplyScreenOK, LeavesOK, StepKeepsInv
<1>3. CASE RetryOrFail /\ Leaves
  BY <1>1, <1>3, RetryOrFailOK, LeavesOK, StepKeepsInv
<1>4. CASE Tap("review") /\ GoesTo("submit") /\ Forgets
  <2>1. taps' \in 0..2 /\ late' \in BOOLEAN /\ "submit" \in ScreensPc
    BY <1>4, ForgetsOK DEF ScreensPc
  <2> QED
    BY <1>1, <1>4, <2>1, GoesToOK, TapOK, StepKeepsInv
<1> QED
  BY <1>2, <1>3, <1>4 DEF RequestReview

LEMMA TapThroughSubmitOK ==
  ASSUME ScreensInv, TapThroughSubmit
  PROVE  ScreensInv'
<1>1. looked /\ status = "requesting_review" /\ status \in Stage
  BY DEF TapThroughSubmit, ScreensInv, PlaceOK, Stage
<1>2. \/ Leaves /\ GoesTo("reread") /\ Forgets
      \/ Tap("submit") /\ GoesTo("submit") /\ taps < 2 /\ taps' = taps + 1 /\ UNCHANGED late
      \/ Tap("submit") /\ GoesTo("reread") /\ Forgets
  BY DEF TapThroughSubmit
<1>3. taps' \in 0..2 /\ late' \in BOOLEAN
  <2>1. taps \in 0..2 /\ late \in BOOLEAN
    BY DEF ScreensInv, ScreensTypeOK
  <2>2. CASE taps < 2 /\ taps' = taps + 1 /\ UNCHANGED late
    BY <2>1, <2>2
  <2>3. CASE Forgets
    BY <2>3, ForgetsOK
  <2> QED
    BY <1>2, <2>2, <2>3
<1>4. JobGoesOn
  BY <1>1, <1>2, <1>3, GoesToOK DEF ScreensPc
<1> QED
  BY <1>2, <1>4, LeavesOK, TapOK, StepKeepsInv

LEMMA StateIsReadOK ==
  ASSUME ScreensInv, StateIsRead
  PROVE  ScreensInv'
<1>1. looked /\ status \in {"requesting_review", "review_pending"}
  BY DEF StateIsRead, ScreensInv, PlaceOK
<1> QED
  BY <1>1, ApplyScreenOK, LeavesOK, StepKeepsInv DEF StateIsRead

LEMMA ReloginStageOK ==
  ASSUME ScreensInv, ReloginStage
  PROVE  ScreensInv'
<1>1. CASE Class \in Settled /\ ApplyScreen(Class)
  BY <1>1, ApplyScreenOK, LeavesOK, StepKeepsInv DEF ReloginStage
<1>2. CASE GoesTo("reopen") /\ UNCHANGED <<taps, late>>
  <2>1. taps' \in 0..2 /\ late' \in BOOLEAN /\ "reopen" \in ScreensPc /\ status \in Stage
    BY <1>2 DEF ReloginStage, ScreensPc, ScreensInv, ScreensTypeOK, Stage
  <2> QED
    BY <1>2, <2>1, GoesToOK, LeavesOK, StepKeepsInv DEF ReloginStage
<1> QED
  BY <1>1, <1>2 DEF ReloginStage

LEMMA TapAgreeOK ==
  ASSUME ScreensInv, TapAgree
  PROVE  ScreensInv'
<1>1. taps' \in 0..2 /\ late' \in BOOLEAN /\ "number" \in ScreensPc /\ status \in Stage
  BY Staged DEF TapAgree, ScreensPc, ScreensInv, ScreensTypeOK
<1>2. Tap("agree") \/ Leaves
  BY DEF TapAgree
<1> QED
  BY <1>1, <1>2, GoesToOK, LeavesOK, TapOK, StepKeepsInv DEF TapAgree

LEMMA TapSubmitOK ==
  ASSUME ScreensInv, TapSubmit
  PROVE  ScreensInv'
<1>1. PICK label \in {"confirm", "login"} : GoesTo(label)
  BY DEF TapSubmit
<1>2. taps' \in 0..2 /\ late' \in BOOLEAN /\ label \in ScreensPc /\ status \in Stage
  BY Staged, ForgetsOK DEF TapSubmit, ScreensPc
<1>3. Tap("submit") \/ Leaves
  BY DEF TapSubmit
<1> QED
  BY <1>1, <1>2, <1>3, GoesToOK, LeavesOK, TapOK, StepKeepsInv

LEMMA WaitForLoginOK ==
  ASSUME ScreensInv, WaitForLogin
  PROVE  ScreensInv'
<1>1. status \in Stage /\ looked /\ Leaves /\ pc \in LoginPc
  BY Staged DEF WaitForLogin
<1>2. CASE Class = "logged_in" /\ Ends("recovered", "none")
  BY <1>1, <1>2, ClassIsTrue, EndsOK, LeavesOK, StepKeepsInv
<1>3. CASE GoesTo(pc) /\ UNCHANGED <<taps, late>>
  <2>1. taps' \in 0..2 /\ late' \in BOOLEAN /\ pc \in ScreensPc /\ pc \notin {"submit", "reread"}
    BY <1>1, <1>3 DEF LoginPc, ScreensPc, ScreensInv, ScreensTypeOK
  <2> QED
    BY <1>1, <1>3, <2>1, GoesToOK, LeavesOK, StepKeepsInv
<1>4. CASE GoesTo("code") /\ Forgets
  <2>1. taps' \in 0..2 /\ late' \in BOOLEAN /\ "code" \in ScreensPc
    BY <1>4, ForgetsOK DEF ScreensPc
  <2> QED
    BY <1>1, <1>4, <2>1, GoesToOK, LeavesOK, StepKeepsInv
<1>5. CASE RetryOrFail
  BY <1>1, <1>5, RetryOrFailOK, LeavesOK, StepKeepsInv
<1> QED
  BY <1>2, <1>3, <1>4, <1>5 DEF WaitForLogin

LEMMA OtpCodeOK ==
  ASSUME ScreensInv, TypeOtpCode \/ NoOtpCode
  PROVE  ScreensInv'
<1>1. status \in Stage
  BY Staged DEF TypeOtpCode, NoOtpCode
<1>2. CASE NoOtpCode
  BY <1>1, <1>2, RetryOrFailOK, LeavesOK, StepKeepsInv DEF NoOtpCode
<1>3. CASE TypeOtpCode
  <2>1. taps' \in 0..2 /\ late' \in BOOLEAN /\ "relogin" \in ScreensPc
    BY <1>3, ForgetsOK DEF TypeOtpCode, ScreensPc
  <2>2. PhoneGoesOn /\ UNCHANGED <<form, slip>>
    BY <1>3, LogsInOK, PhoneStays DEF TypeOtpCode, phoneVars
  <2> QED
    BY <1>1, <1>3, <2>1, <2>2, GoesToOK, FormStays, DumpStays, StepKeepsInv DEF TypeOtpCode
<1> QED
  BY <1>2, <1>3

LEMMA RestartsOK ==
  ASSUME ScreensInv, ServerRestarts \/ DeadlinePasses
  PROVE  ScreensInv'
<1>1. status \in Stage
  BY Staged DEF ServerRestarts, DeadlinePasses, LoginPc
<1>2. CASE ServerRestarts
  <2>1. taps' \in 0..2 /\ late' \in BOOLEAN /\ "idle" \in ScreensPc
    BY <1>2, ForgetsOK DEF ServerRestarts, ScreensPc
  <2>2. DumpKept
    BY <1>2 DEF ServerRestarts, DumpKept, ScreensInv, ScreensTypeOK, DumpTypeOK, Ladder
  <2> QED
    BY <1>1, <1>2, <2>1, <2>2, GoesToOK, PhoneStays, FormStays, StepKeepsInv
    DEF ServerRestarts, phoneVars
<1>3. CASE DeadlinePasses
  <2>1. JobGoesOn
    BY <1>3
    DEF DeadlinePasses, ScreensInv, ScreensTypeOK, PlaceOK, VerdictIsTrue, ReviewIsAwaited,
        JobGoesOn
  <2> QED
    BY <1>3, <2>1, PhoneStays, FormStays, DumpStays, StepKeepsInv DEF DeadlinePasses, phoneVars
<1> QED
  BY <1>2, <1>3

-----------------------------------------------------------------------------
(* The number.                                                              *)

LEMMA SplitOK ==
  ASSUME ScreensInv, xml \in Look
  PROVE  Split.country \in Seq(0..9) /\ Split.national \in Seq(0..9)
<1>1. xml.country \in Seq(0..9)
  BY DEF Look
<1> QED
  BY <1>1, SplitIsTyped DEF Split

(* The country of the dump, with the rest of the number, is the number; an  *)
(* empty field is filled, or no country is needed.                          *)
LEMMA EnteredIsOwn ==
  ASSUME ScreensInv, xml \in Look, ~WrongCountry
  PROVE  Entered.country \o Entered.national = Own
<1>1. xml.country \in Seq(0..9)
  BY DEF Look
<1>2. /\ Len(xml.country) < Len(Own) /\ xml.country = SubSeq(Own, 1, Len(xml.country))
      /\ TypesCountry \/ form.country = xml.country
  <2>1. Len(xml.country) \in Nat /\ Len(Own) \in Nat
    BY <1>1, RecoveryScreensAssumption, LenProperties
  <2> QED
    BY <2>1 DEF WrongCountry
<1>3. Split.country \o Split.national = Own
  <2>1. CASE xml.country = <<>>
    BY <2>1, SplitOfEmpty DEF Split, Parts
  <2>2. CASE xml.country # <<>>
    <3>1. PICK shown \in Seq(0..9) : shown = xml.country
      BY <1>1
    <3> QED
      BY <1>2, <2>2, <3>1, SplitOfShown DEF Split
  <2> QED
    BY <2>1, <2>2
<1>4. /\ Entered.national = Split.national
      /\ Entered.country = IF TypesCountry THEN Split.country ELSE form.country
  BY DEF Entered, ReplaceFieldDigits, Field
<1>5. CASE TypesCountry
  BY <1>3, <1>4, <1>5
<1>6. CASE ~TypesCountry
  <2>1. form.country = xml.country /\ Split.country \in {<<>>, xml.country}
    BY <1>2, <1>6 DEF TypesCountry
  <2>2. CASE xml.country = <<>>
    BY <1>3, <1>4, <1>6, <2>1, <2>2
  <2>3. CASE xml.country # <<>>
    <3>1. PICK shown \in Seq(0..9) : shown = xml.country
      BY <1>1
    <3>2. Split.country = xml.country
      BY <2>3, <3>1, SplitOfShown DEF Split
    <3> QED
      BY <1>3, <1>4, <1>6, <2>1, <3>2
  <2> QED
    BY <2>2, <2>3
<1> QED
  BY <1>5, <1>6

LEMMA StrayOK ==
  ASSUME form' \in Astray, slip' \in {"unseen", "lost"}
  PROVE  FormGoesOn
<1>1. form' \in [Field -> Seq(0..9)]
  BY RecoveryScreensAssumption DEF Field
<1> QED
  BY <1>1 DEF FormGoesOn, FormIsOwn, Slip

LEMMA TypesNumberOK ==
  ASSUME ScreensInv, xml \in Look, TypesNumber
  PROVE  FormGoesOn
<1>1. CASE form' \in Astray /\ slip' = "lost"
  BY <1>1, StrayOK
<1>2. CASE form' = Entered /\ slip' = IF WrongCountry THEN "country" ELSE "none"
  <2>1. Entered \in [Field -> Seq(0..9)]
    <3>1. form.country \in Seq(0..9) /\ form.national \in Seq(0..9)
      BY CountryIsTyped DEF ScreensInv, ScreensTypeOK
    <3> QED
      BY <3>1, SplitOK DEF Entered, ReplaceFieldDigits
  <2>2. CASE WrongCountry
    <3>1. slip' = "country"
      BY <1>2, <2>2
    <3> QED
      BY <1>2, <2>1, <3>1 DEF FormGoesOn, FormIsOwn, Slip
  <2>3. CASE ~WrongCountry
    <3>1. slip' = "none" /\ form' = Entered
      BY <1>2, <2>3
    <3>2. form'.country \o form'.national = Own
      BY <2>3, <3>1, EnteredIsOwn
    <3> QED
      BY <2>1, <3>1, <3>2 DEF FormGoesOn, FormIsOwn, Slip
  <2> QED
    BY <2>2, <2>3
<1> QED
  BY <1>1, <1>2 DEF TypesNumber

LEMMA EnterPhoneNumberOK ==
  ASSUME ScreensInv, EnterPhoneNumber
  PROVE  ScreensInv'
<1>1. status \in Stage /\ xml \in Look
  BY Staged DEF EnterPhoneNumber, ScreensInv, PlaceOK
<1>2. taps' \in 0..2 /\ late' \in BOOLEAN
  BY DEF EnterPhoneNumber, ScreensInv, ScreensTypeOK
<1>3. JobGoesOn
  BY <1>1, <1>2, GoesToOK DEF EnterPhoneNumber, ScreensPc
<1>4. CASE TypesNumber /\ UNCHANGED <<dumpVars, before, screen, coming, account, appealed>>
  BY <1>1, <1>3, <1>4, TypesNumberOK, PhoneStays, DumpStays, StepKeepsInv
<1>5. CASE Tap("field")
  BY <1>3, <1>5, TapOK, StepKeepsInv
<1> QED
  BY <1>4, <1>5 DEF EnterPhoneNumber

LEMMA EnterBlindlyOK ==
  ASSUME ScreensInv, EnterBlindly
  PROVE  ScreensInv'
<1>1. status \in Stage /\ xml \in Look
  BY Staged DEF EnterBlindly, ScreensInv, PlaceOK
<1>2. taps' \in 0..2 /\ late' \in BOOLEAN
  BY DEF EnterBlindly, ScreensInv, ScreensTypeOK
<1>3. JobGoesOn
  BY <1>1, <1>2, GoesToOK DEF EnterBlindly, ScreensPc
<1>4. CASE Tap("field")
  BY <1>3, <1>4, TapOK, StepKeepsInv
<1>5. ASSUME slip' = "unseen",
             UNCHANGED <<dumpVars, before, screen, coming, account, appealed>>,
             \/ form' = [form EXCEPT !.national =
                                       ReplaceFieldDigits(form.national, Split.national)]
             \/ form' \in Astray
      PROVE  ScreensInv'
  <2>1. CASE form' \in Astray
    BY <1>3, <1>5, <2>1, StrayOK, PhoneStays, DumpStays, StepKeepsInv
  <2>2. CASE form' = [form EXCEPT !.national =
                                    ReplaceFieldDigits(form.national, Split.national)]
    <3>1. form' \in [Field -> Seq(0..9)]
      BY <1>1, <2>2, SplitOK DEF ReplaceFieldDigits, Field, ScreensInv, ScreensTypeOK
    <3>2. FormGoesOn
      BY <1>5, <3>1 DEF FormGoesOn, FormIsOwn, Slip
    <3> QED
      BY <1>3, <1>5, <3>2, PhoneStays, DumpStays, StepKeepsInv
  <2> QED
    BY <1>5, <2>1, <2>2
<1> QED
  BY <1>4, <1>5 DEF EnterBlindly

LEMMA EnterRaisesOK ==
  ASSUME ScreensInv, EnterRaises
  PROVE  ScreensInv'
<1>1. status \in Stage /\ xml \in Look
  BY Staged DEF EnterRaises, ScreensInv, PlaceOK
<1>2. JobGoesOn
  BY <1>1, RetryOrFailOK DEF EnterRaises
<1>3. FormGoesOn
  <2>1. CASE form' \in Astray
    BY <2>1, StrayOK DEF EnterRaises
  <2>2. CASE form' = [form EXCEPT !.country =
                                    ReplaceFieldDigits(form.country, Split.country)]
    <3>1. form' \in [Field -> Seq(0..9)]
      BY <1>1, <2>2, SplitOK DEF ReplaceFieldDigits, Field, ScreensInv, ScreensTypeOK
    <3> QED
      BY <3>1 DEF EnterRaises, FormGoesOn, FormIsOwn, Slip
  <2> QED
    BY <2>1, <2>2 DEF EnterRaises
<1> QED
  BY <1>2, <1>3, PhoneStays, DumpStays, StepKeepsInv DEF EnterRaises

-----------------------------------------------------------------------------
(* The theorems.                                                            *)

LEMMA ScreensInitOK ==
  ASSUME ScreensInit
  PROVE  ScreensInv
<1>1. /\ status = "requesting_review" /\ error = "none" /\ pc = "idle" /\ attempts = 0
      /\ taps = 0 /\ looked = FALSE /\ late = FALSE /\ before = TRUE /\ unsure = FALSE
      /\ coming = NoFile /\ account = "restricted" /\ appealed = FALSE
      /\ slip = "unseen"
  BY DEF ScreensInit
<1>2. screen \in {"banner", "appeal", "chat", "notice", "launcher"} /\ screen \in Screen
  BY ScreenNames DEF ScreensInit
<1>3. form \in [Field -> Seq(0..9)]
  BY EmptySeq DEF ScreensInit
<1>4. rung \in 0..Len(Ladder) /\ xml \in Look \cup {NoFile}
  <2>1. ASSUME NEW shown \in Screen, NEW country \in Shown \cup {<<>>},
               NEW look \in LooksOf(shown, country)
        PROVE  look \in Look
    <3>1. country \in Seq(0..9)
      BY RecoveryScreensAssumption, EmptySeq
    <3> QED
      BY <3>1, LooksAreLooks
  <2>2. rung = 0 /\ 0 \in 0..Len(Ladder)
    BY DEF ScreensInit, DumpInit, Ladder
  <2> QED
    BY <2>1, <2>2 DEF ScreensInit, DumpInit
<1>5. attempts \in 0..(MaxAttempts - 1)
  BY <1>1, RecoveryScreensAssumption
<1>6. ScreensTypeOK
  <2>1. DumpTypeOK(Look)
    BY <1>4 DEF DumpTypeOK
  <2>2. /\ status \in Stage \cup {"recovered", "failed"}
        /\ error \in {"none", "banned", "attempts"}
        /\ pc \in ScreensPc /\ account \in Account /\ taps \in 0..2 /\ slip \in Slip
        /\ screen \in Screen /\ coming \in Screen \cup {NoFile}
    BY <1>1, <1>2 DEF Stage, ScreensPc, Account, Slip
  <2>3. /\ looked \in BOOLEAN /\ late \in BOOLEAN /\ before \in BOOLEAN
        /\ unsure \in BOOLEAN /\ appealed \in BOOLEAN
    BY <1>1, Zenon
  <2> QED
    BY <1>3, <1>5, <2>1, <2>2, <2>3 DEF ScreensTypeOK
<1>7. PhoneTells
  BY <1>1, <1>2, NoFileAssumption, ScreenNames DEF PhoneTells, Tells
<1>8. DumpTells /\ FormIsOwn
  BY <1>1 DEF DumpTells, FormIsOwn
<1>9. PlaceOK /\ VerdictIsTrue /\ ReviewIsAwaited
  BY <1>1 DEF PlaceOK, VerdictIsTrue, ReviewIsAwaited, Stage
<1> QED
  BY <1>6, <1>7, <1>8, <1>9 DEF ScreensInv

LEMMA ScreensStepOK ==
  ASSUME ScreensInv, [ScreensNext]_screenVars
  PROVE  ScreensInv'
<1>1. CASE UNCHANGED screenVars
  BY <1>1, PhoneStays, FormStays, JobStays, DumpStays, StepKeepsInv
  DEF screenVars, jobVars, phoneVars
<1>2. CASE StageStep
  BY <1>2, LooksOK, LadderOK, CommandRaisesOK, OpenWhatsAppOK, RequestReviewOK,
     TapThroughSubmitOK, StateIsReadOK, ReloginStageOK, TapAgreeOK, EnterPhoneNumberOK,
     EnterBlindlyOK, EnterRaisesOK, TapSubmitOK, WaitForLoginOK, OtpCodeOK
  DEF StageStep
<1>3. CASE BeginStage \/ DeadlinePasses \/ ServerRestarts \/ PhoneStep
  BY <1>3, BeginStageOK, RestartsOK, PhoneStepOK
<1> QED
  BY <1>1, <1>2, <1>3 DEF ScreensNext

(* Theorem: however the phone and the code miss each other, a screen, a     *)
(* dump and the place where the stage is say what is true of the account,   *)
(* the appeal and the form (whatsapp_recovery.py:202-345, 422-489,          *)
(* recovery_worker.py:199-276).                                             *)
THEOREM ScreensInvariant == ScreensSpec => []ScreensInv
<1>1. ScreensInit => ScreensInv
  BY ScreensInitOK
<1>2. ScreensInv /\ [ScreensNext]_screenVars => ScreensInv'
  BY ScreensStepOK
<1> QED
  BY <1>1, <1>2, PTL DEF ScreensSpec

(* Theorem: the variables have their types; the attempts stay below the     *)
(* limit (recovery_worker.py:264-276).                                      *)
THEOREM ScreensTypes == ScreensSpec => []ScreensTypeOK
<1>1. ScreensInv => ScreensTypeOK
  BY DEF ScreensInv
<1> QED
  BY <1>1, ScreensInvariant, PTL

(* Theorem: a recovered job was logged in and one that failed as banned was *)
(* banned, unless that was read off the file of before the recovery or a    *)
(* screen whose chats show a marker; whatever the file holds, whatever the  *)
(* chats say, and for every limit of attempts (whatsapp_recovery.py:135-150,*)
(* 202-225, recovery_worker.py:217-262, adb_ui.py:186-191).                 *)
THEOREM VerdictsAreTrue == ScreensSpec => []VerdictIsTrue
<1>1. ScreensInv => VerdictIsTrue
  BY DEF ScreensInv
<1> QED
  BY <1>1, ScreensInvariant, PTL

(* Theorem: a job waits for a review only when the appeal has reached       *)
(* WhatsApp, with the same exceptions (whatsapp_recovery.py:281-318).       *)
THEOREM ReviewsAreAwaited == ScreensSpec => []ReviewIsAwaited
<1>1. ScreensInv => ReviewIsAwaited
  BY DEF ScreensInv
<1> QED
  BY <1>1, ScreensInvariant, PTL

(* Theorem: a form in which the code typed the number without a slip asks   *)
(* for the number of the phone; for every number and every code in the      *)
(* country field, whatever split_country_and_national makes of them         *)
(* (whatsapp_recovery.py:326-345, 422-467).                                 *)
THEOREM NumberIsOwn == ScreensSpec => RegistersOwnNumber
<1>1. ScreensInv => FormIsOwn
  BY DEF ScreensInv
<1>2. ScreensInv /\ [ScreensNext]_screenVars =>
        [(coming # "code" /\ coming' = "code") =>
           form.country \o form.national = Own \/ slip # "none"]_screenVars
  BY <1>1 DEF FormIsOwn
<1> QED
  BY <1>2, ScreensInvariant, PTL DEF RegistersOwnNumber, ScreensSpec
=============================================================================
