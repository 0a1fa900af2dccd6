--------------------------- MODULE ScanFieldModal ---------------------------
(***************************************************************************)
(* The dialog that scans a value into a form field                         *)
(* (web/src/components/ScanFieldModal.tsx) with its two scanners           *)
(* (web/src/hooks/useBarcodeScanner.ts, useNFCScanner.ts).                 *)
(*                                                                         *)
(* `ui' holds the state of the dialog and the refs of the hooks, and what  *)
(* the browser has turned on: camera streams and NFC readers that nobody   *)
(* has stopped.  Effects run with the render that causes them.             *)
(***************************************************************************)
EXTENDS ReactPage

CONSTANTS Scanners,   \* of "camera" and "nfc", those the browser supports
          MaxStreams  \* bound: camera streams and readers ever alive at once

Methods == {"keyboard", "camera", "nfc"}
Ids == 1 .. MaxStreams

\* `stream', `frame' and `abort' are the refs: the stream to stop, the loop
\* whose animation frame to cancel (0: none), the reader to abort.
Closed ==
  [open |-> FALSE, method |-> "keyboard", value |-> None,
   stream |-> 0, frame |-> 0, loops |-> {}, abort |-> 0,
   cameraError |-> FALSE, nfcError |-> FALSE, nfcReady |-> FALSE,
   streams |-> {}, readers |-> {}]

Init ==
  /\ ui = Closed
  /\ calls = {}

Ask(what, id) == [ask |-> what, id |-> id]
Asked(what) == {c.id : c \in {d \in calls : d.ask = what}}

\* The video element is there only while the dialog shows the camera.
Video == ui.open /\ ui.method = "camera" /\ ~ui.cameraError

(***************************************************************************)
(* stopScanning and startScanning of the two hooks.                        *)
(***************************************************************************)

StopCamera(u) ==
  [u EXCEPT !.streams = @ \ {u.stream}, !.stream = 0,
            !.loops = @ \ {u.frame}, !.frame = 0]

\* Mutant: the controller is dropped without a call of its abort().
ForgetController(u) == [u EXCEPT !.abort = 0, !.nfcReady = FALSE]

\* abort() ends a scan that runs and one that is still being started.
StopNfc(u) ==
  [u EXCEPT !.readers = @ \ {u.abort}, !.abort = 0, !.nfcReady = FALSE]

\* The effect of a change of the method, in which u is the state after it.
Stopped(u) ==
  LET c == IF u.method # "camera" THEN StopCamera(u) ELSE u
  IN  IF u.method # "nfc" THEN StopNfc(c) ELSE c

CamerasKnown(u) ==
  {u.stream, u.frame} \union u.streams \union u.loops
    \union Asked("getUserMedia") \union Asked("play") \union Asked("detect")

StartCamera(u) ==
  \/ /\ \E id \in Ids \ CamerasKnown(u) :
          Begins(Ask("getUserMedia", id))
     /\ ui' = [u EXCEPT !.cameraError = FALSE]
  \/ /\ ui' = [u EXCEPT !.cameraError = TRUE]   \* no detector of these formats
     /\ UNCHANGED calls

\* The reader listens from scan() on; while its promise is open the dialog
\* does not say "ready" yet.
StartNfc(u) ==
  \E id \in Ids \ (u.readers \union Asked("scan")) :
    /\ Begins(Ask("scan", id))
    /\ ui' = [u EXCEPT !.abort = id, !.nfcError = FALSE, !.readers = @ \union {id}]

(***************************************************************************)
(* The user.                                                               *)
(***************************************************************************)

Open ==
  /\ ~ui.open
  /\ ui' = [ui EXCEPT !.open = TRUE]
  /\ UNCHANGED calls

handleInputMethodChange(m) ==
  LET u == [ui EXCEPT !.method = m, !.value = None]
  IN  /\ ui.open
      /\ \/ m = ui.method /\ ui' = u /\ UNCHANGED calls
         \/ m # ui.method /\ m = "camera" /\ StartCamera(Stopped(u))
         \/ m # ui.method /\ m = "nfc" /\ StartNfc(Stopped(u))
         \/ m # ui.method /\ m = "keyboard" /\ ui' = Stopped(u) /\ UNCHANGED calls

Type ==
  /\ ui.open /\ ui.method = "keyboard"
  /\ ui' = [ui EXCEPT !.value = "typed"]
  /\ UNCHANGED calls

\* Escape, the backdrop, cancel, or confirming a value.
Close ==
  LET u == [ui EXCEPT !.open = FALSE, !.method = "keyboard", !.value = None]
  IN  /\ ui.open
      /\ ui' = Stopped(u)
      /\ UNCHANGED calls

(***************************************************************************)
(* The camera.                                                             *)
(***************************************************************************)

Denied(id) ==
  /\ id \in Asked("getUserMedia")
  /\ Ends(Ask("getUserMedia", id))
  /\ ui' = [ui EXCEPT !.cameraError = TRUE]

\* The next animation frame is asked for.
Loops(u, id) == [u EXCEPT !.loops = @ \union {id}, !.frame = id]

\* The permission is granted: whoever asked for it may have left meanwhile,
\* and a stream that was held is not looked at again.
Granted(id) ==
  /\ id \in Asked("getUserMedia")
  /\ LET u == [ui EXCEPT !.streams = @ \union {id}, !.stream = id]
     IN  IF Video
         THEN GoesOnAs(Ask("getUserMedia", id), Ask("play", id)) /\ ui' = u
         ELSE Ends(Ask("getUserMedia", id)) /\ ui' = Loops(u, id)

Plays(id) ==
  /\ id \in Asked("play")
  /\ Ends(Ask("play", id))
  /\ ui' = Loops(ui, id)

PlayFails(id) ==
  /\ id \in Asked("play")
  /\ Ends(Ask("play", id))
  /\ ui' = [StopCamera(ui) EXCEPT !.cameraError = TRUE]

\* An animation frame: the loop ends when there is no video.
Frame(id) ==
  /\ id \in ui.loops
  /\ ui' = [ui EXCEPT !.loops = @ \ {id}]
  /\ IF Video THEN Joins(Ask("detect", id), calls) ELSE UNCHANGED calls

\* The picture was searched; the next frame is asked for in any case.
Searched(id) ==
  /\ id \in Asked("detect")
  /\ Ends(Ask("detect", id))
  /\ \E v \in {ui.value, "scanned"} :
       ui' = [Loops(ui, id) EXCEPT !.value = v]

(***************************************************************************)
(* NFC.                                                                    *)
(***************************************************************************)

ScanStarted(id) ==
  /\ id \in Asked("scan") \intersect ui.readers
  /\ Ends(Ask("scan", id))
  /\ ui' = [ui EXCEPT !.nfcReady = TRUE]

ScanRefused(id) ==
  /\ id \in Asked("scan") \intersect ui.readers
  /\ Ends(Ask("scan", id))
  /\ ui' = [ui EXCEPT !.nfcError = TRUE, !.nfcReady = FALSE,
                      !.readers = @ \ {id}]

\* An aborted scan is rejected with AbortError, which the hook ignores.
ScanAborted(id) ==
  /\ id \in Asked("scan") \ ui.readers
  /\ Ends(Ask("scan", id))
  /\ UNCHANGED ui

TagRead ==
  /\ ui.readers # {}
  /\ \E error \in BOOLEAN :
       ui' = IF error THEN [ui EXCEPT !.nfcError = TRUE]
             ELSE [ui EXCEPT !.value = "scanned"]
  /\ UNCHANGED calls

Browser ==
  \E id \in Ids :
    \/ Denied(id) \/ Granted(id) \/ Plays(id) \/ PlayFails(id) \/ Frame(id)
    \/ Searched(id) \/ ScanStarted(id) \/ ScanRefused(id) \/ ScanAborted(id)

Next ==
  \/ Open \/ Type \/ Close \/ TagRead
  \/ \E m \in {"keyboard"} \union Scanners : handleInputMethodChange(m)
  \/ Browser

Spec == Init /\ [][Next]_vars

(***************************************************************************)
(* Properties.                                                             *)
(***************************************************************************)

TypeOK ==
  /\ ui \in [open : BOOLEAN, method : Methods, value : {None, "typed", "scanned"},
             stream : 0 .. MaxStreams, frame : 0 .. MaxStreams, loops : SUBSET Ids,
             abort : 0 .. MaxStreams, cameraError : BOOLEAN, nfcError : BOOLEAN,
             nfcReady : BOOLEAN, streams : SUBSET Ids, readers : SUBSET Ids]
  /\ calls \subseteq [ask : {"getUserMedia", "play", "detect", "scan"}, id : Ids]

\* An NFC reader listens only while the open dialog shows NFC, one at a time,
\* and the dialog says "ready" only of a reader that listens, however often it
\* is closed or switched while a scan is being started (useNFCScanner).
ReaderFollowsDialog ==
  /\ ui.readers # {} => ui.open /\ ui.method = "nfc" /\ ui.readers = {ui.abort}
  /\ ui.nfcReady => ui.readers # {}

\* Nothing of the camera is on in a closed dialog once the browser has
\* answered: "Stop scanners when modal closes" (line 42).
CameraStopsWithDialog ==
  ~ui.open /\ Asked("getUserMedia") = {} => ui.streams = {}
=============================================================================
