------------------------------ MODULE ScanPage ------------------------------
(***************************************************************************)
(* The scan page of the web client (web/src/pages/ScanPage.tsx).           *)
(*                                                                         *)
(* Codes come from the form or from a scanner, which reads on while a scan *)
(* is being answered.  A page that was left ignores what its handlers set, *)
(* and they go on.  How many of a consumable are moved is not followed.    *)
(***************************************************************************)
EXTENDS ReactPage

CONSTANTS Devices, Consumables, Zones, Jobs, Cases, \* what a code can name
          Scanners     \* the scanners the browser supports

Items == Devices \union Consumables
Codes == Items \union Zones \union Jobs \union Cases
Actions == {"intake", "outtake", "check", "case"}
Steps == {"device", "zone", "case", "device-for-case", "job"}

\* `checked': the result shown is a successful check of a device, for which the
\* page offers the details and a defect report.
Fresh ==
  [page |-> "scan", action |-> "check", step |-> "device", loading |-> FALSE,
   method |-> "keyboard", device |-> None, scannedCase |-> None, caseDevices |-> {},
   message |-> FALSE, timer |-> FALSE,
   job |-> None, ledModal |-> FALSE, checked |-> FALSE,
   viewDevice |-> FALSE, service |-> "closed"]

Init ==
  /\ ui = Fresh
  /\ calls = {}

\* A handler as it stands at an `await': what it asked, and what of its
\* closure it still reads.
Handler(ask, code) ==
  LET Reads(asks, value, unread) == IF ask \in asks THEN value ELSE unread
  IN  [ask |-> ask, code |-> code,
       action |-> Reads({"getJob", "checkBefore", "process"}, ui.action, None),
       zoneStep |-> ui.step = "zone" /\ ask \in {"getZone", "checkBefore", "process"},
       device |-> Reads({"getZone"}, ui.device, None),
       case |-> Reads({"checkForCase", "remove"}, ui.scannedCase, None),
       ids |-> Reads({"checkForCase"}, ui.caseDevices, {}),
       job |-> Reads({"checkBefore"}, ui.job, None)]

Mounted == ui.page = "scan"
Render(u) == ui' = IF Mounted THEN u ELSE ui
Navigate(u, page) == ui' = IF page = "scan" THEN u ELSE [Fresh EXCEPT !.page = page]

\* Mutant: a message whose timer is not set.
AnnounceForGood(u) == [u EXCEPT !.message = TRUE]

\* A message always comes with the timer that takes it away again.
Announce(u) == [u EXCEPT !.message = TRUE, !.timer = TRUE]

\* A modal covers the page; a scanner reads on behind it.
Covered == ui.ledModal \/ ui.viewDevice \/ ui.service # "closed"
Reachable == Mounted /\ ~Covered

(***************************************************************************)
(* A code arrives, from the form or from a scanner.                        *)
(***************************************************************************)

\* processCode and handleJobCodeScan up to their first request.
FirstRequest ==
  IF ui.action = "case"
  THEN IF ui.step = "case" THEN "getCase" ELSE "checkForCase"
  ELSE IF ui.action = "intake" /\ ui.step = "device" THEN "checkForIntake"
  ELSE IF ui.action = "intake" /\ ui.step = "zone" THEN "getZone"
  ELSE IF ui.action = "check" THEN "process"
  ELSE "checkBefore"

\* In the case mode a step that is not one of the case workflow does nothing.
Idle == ui.action = "case" /\ ui.step \notin {"case", "device-for-case"}

\* A code that names nothing of the kind asked for is one that fails, and any
\* request may fail.
Expected(ask) ==
  CASE ask = "getCase" -> Cases
    [] ask = "checkForCase" -> Devices
    [] ask = "getZone" -> Zones
    [] OTHER -> Items

processCode(code) ==
  /\ code \in Jobs \union Expected(FirstRequest)
  /\ ui' = [ui EXCEPT !.loading = code \in Jobs \/ ~Idle]
  /\ IF code \in Jobs THEN Begins(Handler("getJob", code))
     ELSE IF Idle THEN UNCHANGED calls
     ELSE Begins(Handler(FirstRequest, code))

Submit(code) == Reachable /\ ~ui.loading /\ processCode(code)
Detect(code) == Mounted /\ ui.method \in Scanners /\ processCode(code)

(***************************************************************************)
(* Answers.  A refused or failed request ends the handler in Fails(h).     *)
(***************************************************************************)

\* Mutant: the step is kept, only the item is forgotten.
ForgetItem(h, u) == IF h.zoneStep THEN [u EXCEPT !.device = None] ELSE u

\* A failure in the zone step leads back to the first step.
StartOver(h, u) ==
  IF h.zoneStep THEN [u EXCEPT !.step = "device", !.device = None] ELSE u

\* The catch block, and the answers that say the scan did not succeed.
Fails(h) ==
  /\ Awaits(h, {"getCase", "checkForCase", "addToCase", "checkForIntake",
                "getZone", "intake", "checkBefore", "process"})
  /\ Render(IF h.ask \in {"getCase", "checkForCase", "addToCase"}
            THEN [Announce(ui) EXCEPT !.loading = FALSE]
            ELSE [StartOver(h, ui) EXCEPT !.loading = FALSE, !.checked = FALSE])
  /\ Ends(h)

\* An answer "not successful" leaves the step as it is.
Refused(h) ==
  /\ Awaits(h, {"checkForIntake", "checkBefore"})
  /\ Render([ui EXCEPT !.loading = FALSE, !.checked = FALSE])
  /\ Ends(h)

CaseFound(h) ==
  /\ Awaits(h, {"getCase"})
  /\ Render([ui EXCEPT !.loading = FALSE, !.scannedCase = h.code,
                       !.caseDevices = {}, !.message = FALSE,
                       !.step = "device-for-case", !.checked = FALSE])
  /\ Ends(h)

CheckedForCase(h) ==
  /\ Awaits(h, {"checkForCase"})
  /\ IF h.code \in h.ids
     THEN Ends(h) /\ Render([Announce(ui) EXCEPT !.loading = FALSE])
     ELSE /\ GoesOnAs(h, [h EXCEPT !.ask = "addToCase", !.ids = {}])
          /\ UNCHANGED ui

AddedToCase(h) ==
  /\ Awaits(h, {"addToCase"})
  /\ Render([Announce(ui) EXCEPT !.loading = FALSE,
                                 !.caseDevices = @ \union {h.code}])
  /\ Ends(h)

\* The first step of an intake; a consumable asks for its quantity.
CheckedForIntake(h) ==
  /\ Awaits(h, {"checkForIntake"})
  /\ Render([ui EXCEPT !.loading = FALSE, !.checked = FALSE, !.step = "zone",
                       !.device = h.code])
  /\ Ends(h)

ZoneFound(h) ==
  /\ Awaits(h, {"getZone"})
  /\ GoesOn(h, "intake")
  /\ UNCHANGED ui

\* The second step is done: the whole workflow is reset.
IntakeDone(h) ==
  /\ Awaits(h, {"intake"})
  /\ Render([ui EXCEPT !.loading = FALSE, !.checked = FALSE, !.step = "device",
                       !.device = None])
  /\ Ends(h)

\* Mutant: any action may go on without a job.
AlwaysAllowed(h) == TRUE

\* The check before an outtake: a consumable asks for a quantity, a device
\* needs a job.
Allowed(h) ==
  h.code \in Consumables \/ h.action # "outtake" \/ h.job # None

CheckedBefore(h) ==
  /\ Awaits(h, {"checkBefore"})
  /\ IF Allowed(h)
     THEN /\ GoesOnAs(h, [h EXCEPT
                !.ask = "process",
                !.job = IF h.code \in Consumables \/ h.action # "outtake"
                        THEN None ELSE @])
          /\ UNCHANGED ui
     ELSE Ends(h) /\ Render([ui EXCEPT !.loading = FALSE, !.checked = FALSE])

Processed(h) ==
  /\ Awaits(h, {"process"})
  /\ \E success \in BOOLEAN :
       Render([ui EXCEPT !.loading = FALSE,
                 !.checked = success /\ h.action = "check" /\ h.code \in Devices])
  /\ Ends(h)

JobFound(h) ==
  /\ Awaits(h, {"getJob"})
  /\ IF h.action = "outtake"
     THEN Ends(h) /\ Render([ui EXCEPT !.loading = FALSE, !.job = h.code,
                                       !.step = "device", !.checked = FALSE])
     ELSE GoesOn(h, "getStatus") /\ UNCHANGED ui

LedOff(h) ==
  /\ Awaits(h, {"getStatus"})
  /\ Render([ui EXCEPT !.loading = FALSE, !.job = h.code, !.ledModal = TRUE])
  /\ Ends(h)

LedOn(h) ==
  /\ Awaits(h, {"getStatus"})
  /\ GoesOn(h, "highlight")
  /\ UNCHANGED ui

\* The page moves on to the job, even when the user has left it meanwhile.
Highlighted(h) ==
  /\ Awaits(h, {"highlight"})
  /\ Navigate([ui EXCEPT !.loading = FALSE], "job")
  /\ Ends(h)

JobFails(h) ==
  /\ Awaits(h, {"getJob", "getStatus", "highlight"})
  /\ Render([ui EXCEPT !.loading = FALSE, !.checked = FALSE])
  /\ Ends(h)

Answer(h) ==
  \/ Fails(h) \/ Refused(h) \/ CaseFound(h) \/ CheckedForCase(h) \/ AddedToCase(h)
  \/ CheckedForIntake(h) \/ ZoneFound(h) \/ IntakeDone(h) \/ CheckedBefore(h)
  \/ Processed(h) \/ JobFound(h) \/ LedOff(h) \/ LedOn(h) \/ Highlighted(h)
  \/ JobFails(h)

(***************************************************************************)
(* What the user does beside scanning.                                     *)
(***************************************************************************)

SelectorShown ==
  \/ ui.step \in {"case", "job"}
  \/ ui.step = "device" /\ (ui.action = "outtake" => ui.job = None)

handleActionChange(a) ==
  /\ Reachable /\ SelectorShown
  /\ ui' = [ui EXCEPT
       !.action = a,
       !.step = IF a = "case" THEN "case" ELSE IF a = "outtake" THEN "job" ELSE "device",
       !.scannedCase = IF a = "case" THEN None ELSE @,
       !.caseDevices = IF a = "case" THEN {} ELSE @,
       !.message = IF a = "case" THEN FALSE ELSE @,
       !.job = None, !.device = None, !.checked = FALSE]
  /\ UNCHANGED calls

handleInputMethodChange(m) ==
  /\ Reachable
  /\ ui' = [ui EXCEPT !.method = m, !.checked = FALSE]
  /\ UNCHANGED calls

CasePanel == ui.action = "case" /\ ui.step = "device-for-case" /\ ui.scannedCase # None

ChangeCase ==
  /\ Reachable /\ CasePanel /\ ~ui.loading
  /\ ui' = [ui EXCEPT !.step = "case", !.scannedCase = None, !.caseDevices = {},
                      !.message = FALSE]
  /\ UNCHANGED calls

\* Removing a device does not set `loading'.
RemoveDevice(d) ==
  /\ Reachable /\ CasePanel /\ ~ui.loading
  /\ d \in ui.caseDevices
  /\ Begins(Handler("remove", d))
  /\ UNCHANGED ui

DeviceRemoved(h) ==
  /\ Awaits(h, {"remove"})
  /\ \E gone \in {{}, {h.code}} :
       Render([Announce(ui) EXCEPT !.caseDevices = @ \ gone])
  /\ Ends(h)

ClearJob ==
  /\ Reachable /\ ui.action = "outtake" /\ ~ui.loading
  /\ ui.job # None \/ ui.step = "device"
  /\ ui' = [ui EXCEPT !.job = None, !.checked = FALSE, !.step = "job"]
  /\ UNCHANGED calls

SkipJob ==
  /\ Reachable /\ ui.action = "outtake" /\ ui.step = "job"
  /\ ui' = [ui EXCEPT !.checked = FALSE, !.step = "device"]
  /\ UNCHANGED calls

\* The timer of a message, set again by every message.
Dismiss ==
  /\ Mounted /\ ui.timer
  /\ ui' = [ui EXCEPT !.message = FALSE, !.timer = FALSE]
  /\ UNCHANGED calls

ConfirmLed ==
  /\ Mounted /\ ui.ledModal /\ ui.job # None /\ ~ui.loading
  /\ ui' = [ui EXCEPT !.loading = TRUE]
  /\ Begins(Handler("confirmLed", ui.job))

\* It goes on to the job whether the request succeeds or not.
LedConfirmed(h) ==
  /\ Awaits(h, {"confirmLed"})
  /\ Navigate([ui EXCEPT !.ledModal = FALSE], "job")
  /\ Ends(h)

CancelLed ==
  /\ Mounted /\ ui.ledModal
  /\ Navigate([ui EXCEPT !.ledModal = FALSE, !.job = None],
              IF ui.job # None THEN "job" ELSE "scan")
  /\ UNCHANGED calls

(***************************************************************************)
(* The details of a checked device and the report of a defect.             *)
(***************************************************************************)

ViewDevice ==
  /\ Reachable /\ ui.checked
  /\ ui' = [ui EXCEPT !.viewDevice = TRUE]
  /\ UNCHANGED calls

\* Closing the details, or going on to the device's form.
CloseDevice ==
  /\ Mounted /\ ui.viewDevice
  /\ \E page \in {"scan", "elsewhere"} :
       Navigate([ui EXCEPT !.viewDevice = FALSE], page)
  /\ UNCHANGED calls

openServiceModal ==
  /\ Reachable /\ ui.checked
  /\ ui' = [ui EXCEPT !.service = "open"]
  /\ UNCHANGED calls

handleServiceSubmit ==
  /\ Mounted /\ ui.service = "open"
  /\ ui' = [ui EXCEPT !.service = "saving"]
  /\ Begins(Handler("createDefect", None))

DefectCreated(h) ==
  /\ Awaits(h, {"createDefect"})
  /\ \E outcome \in {"sent", "open"} : Render([ui EXCEPT !.service = outcome])
  /\ Ends(h)

handleServiceModalClose ==
  /\ Mounted /\ ui.service \in {"open", "sent"}
  /\ ui' = [ui EXCEPT !.service = "closed"]
  /\ UNCHANGED calls

\* The user leaves the page, and comes back to a fresh one.
Leave ==
  /\ Reachable
  /\ Navigate([ui EXCEPT !.timer = FALSE], "elsewhere")
  /\ UNCHANGED calls

Return ==
  /\ ~Mounted /\ calls = {}
  /\ ui' = Fresh
  /\ UNCHANGED calls

User ==
  \/ \E code \in Codes : Submit(code) \/ Detect(code)
  \/ \E a \in Actions : handleActionChange(a)
  \/ \E m \in {"keyboard"} \union Scanners : handleInputMethodChange(m)
  \/ \E d \in Devices : RemoveDevice(d)
  \/ ChangeCase \/ ClearJob \/ SkipJob \/ ConfirmLed \/ CancelLed
  \/ ViewDevice \/ CloseDevice \/ openServiceModal \/ handleServiceSubmit
  \/ handleServiceModalClose \/ Leave \/ Return

Continue(h) == Answer(h) \/ DeviceRemoved(h) \/ LedConfirmed(h) \/ DefectCreated(h)

Next == User \/ Dismiss \/ \E h \in calls : Continue(h)

Spec == Init /\ [][Next]_vars
(***************************************************************************)
(* Properties.                                                             *)
(***************************************************************************)

TypeOK ==
  /\ ui \in [page : {"scan", "job", "elsewhere"}, action : Actions, step : Steps,
             loading : BOOLEAN, method : {"keyboard"} \union Scanners,
             device : Items \union {None}, scannedCase : Cases \union {None},
             caseDevices : SUBSET Devices, message : BOOLEAN, timer : BOOLEAN,
             job : Jobs \union {None}, ledModal : BOOLEAN, checked : BOOLEAN,
             viewDevice : BOOLEAN, service : {"closed", "open", "saving", "sent"}]
  /\ \A h \in calls :
       h.code \in Codes \union {None} /\ h.ids \subseteq Devices
  /\ Cardinality(calls) <= MaxCalls

\* The second step of an intake, however scans, failures and changes of the
\* mode interleave, is sent for an item that the first step checked: never for
\* an empty code (processCode and its catch block).
IntakeNamesItem == \A h \in calls : h.ask = "intake" => h.device \in Items

\* A device goes out only with a job, whatever was scanned and cleared since the
\* code came (processCode, lines 315-334).
DeviceOuttakeNamesJob ==
  \A h \in calls : h.ask = "process" /\ h.action = "outtake" /\ h.code \in Devices
                    => h.job \in Jobs

\* Whichever answer shows a message, one is never left on the page without the
\* timer that takes it away (scheduleCaseActionDismiss).
MessageGoesAway == ui.message => ui.timer

\* When nothing is in flight the page is not waiting (the finally blocks).
NoSpinnerLeft ==
  Mounted /\ calls = {} => ~ui.loading /\ ui.service # "saving"
=============================================================================
