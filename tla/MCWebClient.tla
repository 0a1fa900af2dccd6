---------------------------- MODULE MCWebClient ----------------------------
(* A small instance of WebClient.                                          *)
EXTENDS WebClient, TLC

CONSTANTS p1, k1, k2, d1, d2, a1, a2, x1, x2

\* Devices hang at all three levels of one branch.
OneBranch == {<<"category">>, <<"category", "sub">>, <<"category", "sub", "group">>}

\* Which device is which makes no difference.
Alike == Permutations(Devices)

(***************************************************************************)
(* What a page keeps but does not read again before it sets it anew: states*)
(* that differ in nothing else go on alike, and are one for TLC.           *)
(***************************************************************************)

\* The case mode begins with no case, a zone is asked for after a device, and
\* a job is read in the outtake mode and by the dialog of the LEDs.
ScanLive ==
  [ui EXCEPT
     !.scannedCase = IF ui.action = "case" THEN @ ELSE None,
     !.caseDevices = IF ui.action = "case" THEN @ ELSE {},
     !.device = IF ui.action = "intake" /\ ui.step = "zone" THEN @ ELSE None,
     !.job = IF ui.action = "outtake" \/ ui.ledModal THEN @ ELSE None]

\* What the form is of counts while it is open, will open, or its devices are chosen.
FormLives == ui.formOpen \/ ui.tree = "edit" \/ \E h \in calls : h.ask = "edit"

\* No handler reads of which case the devices in the details or the form are.
CasesLive ==
  [ui EXCEPT !.devicesOf = None, !.editDevicesOf = None,
             !.selected = IF ui.open THEN @ ELSE None,
             !.formOf = IF FormLives THEN @ ELSE None,
             !.editing = IF FormLives THEN @ ELSE None]

\* What a text is beside what it parses to is for the eye.
LEDsLive ==
  [ui EXCEPT !.pixelsInput = [p \in DOMAIN ui.pixelsInput |-> ui.pixelsInput[p].parse]]

Live ==
  <<page, calls,
    CASE page = "scan" -> ScanLive [] page = "cases" -> CasesLive
      [] page = "leds" -> LEDsLive [] OTHER -> ui>>
=============================================================================
