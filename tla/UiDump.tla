-------------------------------- MODULE UiDump --------------------------------
(***************************************************************************)
(* One look at a phone: dump_ui_xml (adb_ui.py).  `uiautomator dump` needs *)
(* the phone's only UiAutomation registration and writes the screen to a   *)
(* file, which is then read.  Any process on the phone may hold the        *)
(* registration, and adb may lose the phone: whether a dump works is not   *)
(* known before.  While it fails, the rungs of a ladder are run, each a    *)
(* bigger hammer than the one before.                                      *)
(***************************************************************************)
EXTENDS Integers, Sequences

CONSTANTS Reconnects, \* ADB_AUTOMATION_APPIUM_RECONNECT_ON_WEDGE
          Reboots,    \* ADB_AUTOMATION_APPIUM_REBOOT_ON_WEDGE
          NoFile      \* the file was never written

ASSUME UiDumpAssumption == Reconnects \in BOOLEAN /\ Reboots \in BOOLEAN

VARIABLES rung,  \* the rungs of the ladder that this dump has run
          xml    \* what the file on the phone shows

dumpVars == <<rung, xml>>

(* build_uiautomation_recovery_ladder *)
Ladder == <<"kill", "uninstall">>
          \o (IF Reconnects THEN <<"reconnect">> ELSE <<>>)
          \o (IF Reboots THEN <<"reboot">> ELSE <<>>)

DumpTypeOK(looks) ==
  /\ rung \in 0..Len(Ladder)
  /\ xml \in looks \cup {NoFile}

DumpInit(files) == rung = 0 /\ xml \in files

(* The screen is written and read. *)
DumpShows(shown) == rung' = 0 /\ xml' = shown

(* `uiautomator dump` gives up on a screen that does not come to rest; it   *)
(* still exits with 0, and the file of an earlier dump is read.             *)
DumpShowsOld == xml # NoFile /\ rung' = 0 /\ UNCHANGED xml

(* Mutant: the ladder is started over. *)
NextRungOver ==
  /\ rung < Len(Ladder)
  /\ rung' = (rung + 1) % Len(Ladder)
  /\ UNCHANGED xml

(* The dump failed, and the next rung is run before it is tried again.      *)
(* Whether it helped shows then: a killed process may leave its             *)
(* registration behind, a reboot is skipped when adb does not see the       *)
(* phone, and no rung raises.                                               *)
NextRung ==
  /\ rung < Len(Ladder)
  /\ rung' = rung + 1
  /\ UNCHANGED xml

(* reboot_device_and_wait, when the phone did reboot. *)
RebootRung == NextRung /\ Ladder[rung + 1] = "reboot"

(* The last rung did not help. *)
DumpRaises ==
  /\ rung = Len(Ladder)
  /\ rung' = 0
  /\ UNCHANGED xml
===============================================================================
