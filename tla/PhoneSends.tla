------------------------------ MODULE PhoneSends ------------------------------
(***************************************************************************)
(* One call of send_whatsapp (whatsapp.py:966-1111), with a file or        *)
(* without: it branches on file_path before it touches WhatsApp, and the   *)
(* two branches share the phone but no step.                               *)
(***************************************************************************)
EXTENDS TextSend, FileSend

VARIABLE file_path   \* there is one

sendVars == <<file_path, textVars, fileVars>>

PhoneTypeOK == file_path \in BOOLEAN /\ TextTypeOK /\ FileTypeOK

(* The branch that is not taken has nothing to say. *)
NoText ==
  /\ TextInit
  /\ route = "none" /\ screen = Elsewhere /\ ~old
  /\ draft = [place \in Place |-> "empty"]
NoFile ==
  /\ FileInit
  /\ showing = Away /\ drafts = {} /\ pending = 0 /\ strip = <<"old">>
  /\ plan = [media |-> TRUE, caption |-> FALSE]

SendInit ==
  \/ file_path = FALSE /\ TextInit /\ NoFile
  \/ file_path = TRUE /\ FileInit /\ NoText

SendNext ==
  /\ UNCHANGED file_path
  /\ \/ ~file_path /\ TextNext /\ UNCHANGED fileVars
     \/ file_path /\ FileNext /\ UNCHANGED textVars

SendSpec == SendInit /\ [][SendNext]_sendVars
===============================================================================
