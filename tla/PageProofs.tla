----------------------------- MODULE PageProofs -----------------------------
(***************************************************************************)
(* Proofs about the single pages of WebClient.                             *)
(*                                                                         *)
(* ReactPage: what becomes of the handlers in flight when one begins, goes *)
(* on or ends.  The proofs about all pages cite these facts.               *)
(*                                                                         *)
(* ScanPage: for any number of items, zones, jobs, cases, scanners and     *)
(* handlers in flight.                                                     *)
(*                                                                         *)
(* DeviceDetailModal: the light changes when the server handles a request, *)
(* the dialog when it hears of it, and requests overtake each other: that  *)
(* no light is left on takes more than either knows.                       *)
(*                                                                         *)
(* ScanFieldModal: for any scanners and any number of streams and readers. *)
(*                                                                         *)
(* DevicePlaces, DeviceTreeModal, DeviceTreeTab: what a search in the tree *)
(* of devices shows, opens and counts, for any tree of up to three levels. *)
(***************************************************************************)
EXTENDS WebClient, SumProofs, SequenceTheorems, TLAPS

(***************************************************************************)
(* ReactPage.                                                              *)
(***************************************************************************)

\* c has what h says, perhaps as one that began again.
Like(c, h) ==
  /\ DOMAIN c \subseteq DOMAIN h \union {"again"}
  /\ \A f \in DOMAIN h : f \in DOMAIN c /\ c[f] = h[f]

\* A handler that joins others is there, as itself or as another like it, and
\* nothing else is new.
LEMMA Joined ==
  ASSUME NEW h, NEW others, "again" \notin DOMAIN h, Joins(h, others)
  PROVE  /\ others \subseteq calls'
         /\ \A c \in calls' : c \in others \/ Like(c, h)
         /\ \E c \in calls' : Like(c, h)
<1>1. Like(h, h)
  BY DEF Like
<1>2. Like(Again(h), h)
  BY DEF Like, Again
<1>3. calls' = others \union {IF h \in others THEN Again(h) ELSE h}
  BY DEF Joins
<1>4. CASE h \in others
  BY <1>1, <1>2, <1>3, <1>4
<1>5. CASE h \notin others
  BY <1>1, <1>3, <1>5
<1>6. QED
  BY <1>4, <1>5

\* What is taken away is the handler that was answered, or another like it.
LEMMA Left ==
  ASSUME NEW h, "again" \notin DOMAIN h
  PROVE  /\ Without(h) \subseteq calls
         /\ \A c \in calls \ Without(h) : Like(c, h)
<1>1. Like(h, h)
  BY DEF Like
<1>2. Like(Again(h), h)
  BY DEF Like, Again
<1>3. QED
  BY <1>1, <1>2 DEF Without

\* The three ways in which a step changes what is in flight.
LEMMA Begun ==
  ASSUME NEW h, "again" \notin DOMAIN h, Begins(h)
  PROVE  /\ \A c \in calls' : c \in calls \/ Like(c, h)
         /\ \E c \in calls' : Like(c, h)
         /\ calls \subseteq calls'
BY Joined DEF Begins

LEMMA Ended ==
  ASSUME NEW h, "again" \notin DOMAIN h, Ends(h)
  PROVE  /\ calls' \subseteq calls
         /\ \A c \in calls \ calls' : Like(c, h)
BY Left DEF Ends

LEMMA WentOn ==
  ASSUME NEW h, NEW next, "again" \notin DOMAIN h, "again" \notin DOMAIN next,
         GoesOnAs(h, next)
  PROVE  /\ \A c \in calls' : c \in calls \/ Like(c, next)
         /\ \E c \in calls' : Like(c, next)
         /\ \A c \in calls \ calls' : Like(c, h)
BY Left, Joined DEF GoesOnAs

(***************************************************************************)
(* The bound on the handlers in flight.                                    *)
(***************************************************************************)
Bounded == IsFiniteSet(calls) /\ Cardinality(calls) <= MaxCalls

\* What a step may do to the handlers.
CallsStep ==
  \/ UNCHANGED calls
  \/ \E h : Begins(h)
  \/ \E h \in calls : Ends(h) \/ \E next : GoesOnAs(h, next)

\* A handler that goes on leaves room for itself.
LEMMA FewHandlers == Bounded /\ CallsStep => Bounded'
<1> SUFFICES ASSUME Bounded, CallsStep PROVE Bounded'
  OBVIOUS
<1>1. Cardinality(calls) \in Nat /\ MaxCalls \in Nat
  BY FS_CardinalityType, MaxCallsAssumption DEF Bounded
<1>2. ASSUME NEW h, NEW others, IsFiniteSet(others), Joins(h, others)
      PROVE  IsFiniteSet(calls') /\ Cardinality(calls') <= Cardinality(others) + 1
  <2>1. PICK c : calls' = others \union {c}
    BY <1>2 DEF Joins
  <2>2. Cardinality(others) \in Nat
    BY <1>2, FS_CardinalityType
  <2>3. /\ IsFiniteSet(others \union {c})
        /\ \/ Cardinality(others \union {c}) = Cardinality(others)
           \/ Cardinality(others \union {c}) = Cardinality(others) + 1
    BY <1>2, FS_AddElement, Zenon
  <2>4. QED
    BY <2>1, <2>2, <2>3
<1>3. ASSUME NEW h \in calls
      PROVE  IsFiniteSet(Without(h)) /\ Cardinality(Without(h)) + 1 = Cardinality(calls)
  <2>1. PICK c \in calls : Without(h) = calls \ {c}
    BY DEF Without
  <2>2. QED
    BY <1>1, <2>1, FS_RemoveElement DEF Bounded
<1>4. CASE UNCHANGED calls
  BY <1>4 DEF Bounded
<1>5. CASE \E h : Begins(h)
  <2>1. PICK h : ~Busy /\ Joins(h, calls)
    BY <1>5 DEF Begins
  <2>2. IsFiniteSet(calls') /\ Cardinality(calls') <= Cardinality(calls) + 1
    BY <1>2, <2>1 DEF Bounded
  <2>3. Cardinality(calls') \in Nat
    BY <2>2, FS_CardinalityType
  <2>4. QED
    BY <1>1, <2>1, <2>2, <2>3 DEF Bounded, Busy
<1>6. CASE \E h \in calls : Ends(h)
  <2>1. PICK h \in calls : calls' = Without(h)
    BY <1>6 DEF Ends
  <2>2. Cardinality(calls') \in Nat
    BY <1>3, <2>1, FS_CardinalityType
  <2>3. QED
    BY <1>1, <1>3, <2>1, <2>2 DEF Bounded
<1>7. CASE \E h \in calls : \E next : GoesOnAs(h, next)
  <2>1. PICK h \in calls : \E next : Joins(next, Without(h))
    BY <1>7 DEF GoesOnAs
  <2>2. PICK next : Joins(next, Without(h))
    BY <2>1
  <2>3. /\ IsFiniteSet(calls')
        /\ Cardinality(calls') <= Cardinality(Without(h)) + 1
    BY <1>2, <1>3, <2>2
  <2>4. Cardinality(calls') \in Nat
    BY <2>3, FS_CardinalityType
  <2>5. QED
    BY <1>1, <1>3, <2>3, <2>4 DEF Bounded
<1>8. QED
  BY <1>4, <1>5, <1>6, <1>7 DEF CallsStep

(***************************************************************************)
(* ScanPage.                                                               *)
(***************************************************************************)

\* The requests the page waits for, and all of them.
ScanLoading == {"getCase", "checkForCase", "addToCase", "checkForIntake", "getZone",
            "intake", "checkBefore", "process", "getJob", "getStatus", "highlight",
            "confirmLed"}
ScanAsks == ScanLoading \union {"remove", "createDefect"}

ScanFields ==
  ui \in [page : {"scan", "job", "elsewhere"}, action : Scan!Actions, step : Scan!Steps,
          loading : BOOLEAN, method : {"keyboard"} \union Cameras,
          device : Scan!Items \union {Scan!None},
          scannedCase : ScannedCases \union {Scan!None},
          caseDevices : SUBSET ScannedDevices, message : BOOLEAN, timer : BOOLEAN,
          job : Jobs \union {Scan!None}, ledModal : BOOLEAN, checked : BOOLEAN,
          viewDevice : BOOLEAN, service : {"closed", "open", "saving", "sent"}]

\* A handler that this page has begun: what each request may be sent with.
ScanKnown(c) ==
  /\ {"ask", "code", "action", "zoneStep", "device", "case", "ids", "job"} \subseteq DOMAIN c
  /\ c.ask \in ScanAsks
  /\ c.code \in Scan!Codes \union {Scan!None} /\ c.ids \in SUBSET ScannedDevices
  /\ c.job \in Jobs \union {Scan!None}
  /\ c.ask = "getCase" => c.code \in ScannedCases
  /\ c.ask \in {"checkForCase", "addToCase", "remove"} => c.code \in ScannedDevices
  /\ c.ask \in {"checkForIntake", "checkBefore", "process"} => c.code \in Scan!Items
  /\ c.ask \in {"getJob", "getStatus", "highlight"} => c.code \in Jobs
  /\ c.ask \in {"getZone", "intake"} => c.device \in Scan!Items
  /\ c.ask = "process" /\ c.action = "outtake" /\ c.code \notin Consumables
       => c.job \in Jobs

\* The zone is asked for only once an item is checked.
ZoneForItem == ui.step = "zone" => ui.device \in Scan!Items

\* A page that was left shows nothing that waits.
LeftAlone == ~Scan!Mounted => ~ui.loading /\ ui.service = "closed"

\* A flag that is set has a handler that will reset it.
ScanLoads(C) == \E c \in C : c.ask \in ScanLoading
ScanSaves(C) == \E c \in C : c.ask = "createDefect"
\* What the page waits for is on the way.
ScanWaits ==
  /\ ui.loading => ScanLoads(calls)
  /\ ui.service = "saving" => ScanSaves(calls)

\* What the steps below keep of the page itself.
ScanUi == ScanFields /\ ZoneForItem /\ LeftAlone /\ Scan!MessageGoesAway

\* The invariant that the steps of the page keep.
ScanInv == ScanUi /\ (\A c \in calls : ScanKnown(c)) /\ ScanWaits

\* The page counts its handlers as ReactPage does.
LEMMA ScanSameCount == Scan!Cardinality(calls) = Cardinality(calls)
BY DEF Scan!Cardinality, Cardinality

\* What the page does to its handlers is what ReactPage says.
LEMMA ScanSameBegins == \A h : Scan!Begins(h) <=> Begins(h)
BY ScanSameCount
   DEF Scan!Begins, Begins, Scan!Joins, Joins, Scan!Again, Again, Scan!Busy, Busy

\* The same when a handler ends.
LEMMA ScanSameEnds == \A h : Scan!Ends(h) <=> Ends(h)
BY DEF Scan!Ends, Ends, Scan!Without, Without, Scan!Again, Again

\* The same when a handler goes on.
LEMMA ScanSameGoesOnAs == \A h, next : Scan!GoesOnAs(h, next) <=> GoesOnAs(h, next)
BY DEF Scan!GoesOnAs, GoesOnAs, Scan!Joins, Joins, Scan!Without, Without, Scan!Again,
       Again

\* One that is like a known handler is known.
LEMMA ScanLikeKnown ==
  ASSUME NEW c, NEW h, Like(c, h), ScanKnown(h)
  PROVE  ScanKnown(c)
BY DEF Like, ScanKnown

\* A fresh page waits for nothing.
LEMMA FreshPage ==
  ASSUME NEW shown \in {"job", "elsewhere"},
         ui' = Scan!Fresh \/ ui' = [Scan!Fresh EXCEPT !.page = shown]
  PROVE  ScanUi' /\ ~ui'.loading /\ ui'.service = "closed"
<1> USE DEF Scan!Fresh, ScanUi, ScanFields, Scan!Actions, Scan!Steps, ZoneForItem, LeftAlone,
            Scan!Mounted, Scan!MessageGoesAway
<1>1. CASE ui' = Scan!Fresh
  BY <1>1
<1>2. CASE ui' = [Scan!Fresh EXCEPT !.page = shown]
  BY <1>2
<1>3. QED
  BY <1>1, <1>2

\* The page begins with its invariant.
LEMMA ScanInits == Scan!Init => ScanInv
<1>1. SUFFICES ASSUME Scan!Init PROVE ScanInv
  OBVIOUS
<1>2. QED
  BY <1>1 DEF Scan!Init, Scan!Fresh, ScanInv, ScanUi, ScanFields, Scan!Actions,
              Scan!Steps,
              ZoneForItem, LeftAlone, Scan!Mounted, Scan!MessageGoesAway, ScanWaits

(***************************************************************************)
(* The handlers.                                                           *)
(***************************************************************************)

\* Beginning a handler resets no flag and forgets no other handler.
LEMMA ScanBeginKnown ==
  ASSUME NEW h, "again" \notin DOMAIN h, Scan!Begins(h), ScanKnown(h), ScanInv
  PROVE  /\ \A c \in calls' : ScanKnown(c)
         /\ ScanLoads(calls) \/ h.ask \in ScanLoading => ScanLoads(calls')
         /\ ScanSaves(calls) \/ h.ask = "createDefect" => ScanSaves(calls')
<1>1. \A c \in calls' : ScanKnown(c)
  BY ScanSameBegins, Begun, ScanLikeKnown DEF ScanInv
<1>2. PICK c \in calls' : Like(c, h)
  BY ScanSameBegins, Begun
<1>3. c.ask = h.ask
  BY <1>2 DEF Like, ScanKnown
<1>4. calls \subseteq calls'
  BY ScanSameBegins, Begun
<1>5. QED
  BY <1>1, <1>3, <1>4 DEF ScanLoads, ScanSaves

\* A handler that ended, and the page no longer waits for it.
LEMMA ScanEndKnown ==
  ASSUME NEW h \in calls, "again" \notin DOMAIN h, Scan!Ends(h), ScanInv, ScanUi',
         h.ask \in ScanLoading => ~ui'.loading,
         ui'.loading => ui.loading,
         h.ask = "createDefect" => ui'.service # "saving",
         ui'.service = "saving" => ui.service = "saving"
  PROVE  ScanInv'
<1>1. /\ calls' \subseteq calls
      /\ \A c \in calls \ calls' : Like(c, h)
  BY ScanSameEnds, Ended
<1>2. \A c \in calls \ calls' : c.ask = h.ask
  BY <1>1 DEF Like, ScanInv, ScanKnown
<1>3. ui'.loading => ScanLoads(calls')
  BY <1>2 DEF ScanInv, ScanWaits, ScanLoads
<1>4. ui'.service = "saving" => ScanSaves(calls')
  BY <1>2 DEF ScanInv, ScanWaits, ScanSaves
<1>5. QED
  BY <1>1, <1>3, <1>4 DEF ScanInv, ScanWaits

\* A handler that goes on with a further request, and the page waits on.
LEMMA ScanGoOnKnown ==
  ASSUME NEW h \in calls, NEW next, "again" \notin DOMAIN h, "again" \notin DOMAIN next,
         Scan!GoesOnAs(h, next), h.ask \in ScanLoading, next.ask \in ScanLoading, ScanKnown(next),
         ScanInv, UNCHANGED ui
  PROVE  ScanInv'
<1>1. /\ \A c \in calls' : c \in calls \/ Like(c, next)
      /\ \E c \in calls' : Like(c, next)
      /\ \A c \in calls \ calls' : Like(c, h)
  BY ScanSameGoesOnAs, WentOn
<1>2. \A c \in calls' : ScanKnown(c)
  BY <1>1, ScanLikeKnown DEF ScanInv
<1>3. ScanLoads(calls')
  BY <1>1 DEF ScanLoads, Like, ScanKnown
<1>4. \A c \in calls \ calls' : c.ask # "createDefect"
  BY <1>1 DEF Like, ScanInv, ScanKnown, ScanLoading
<1>5. ScanSaves(calls) => ScanSaves(calls')
  BY <1>4 DEF ScanSaves
<1>6. QED
  BY <1>2, <1>3, <1>5 DEF ScanInv, ScanUi, ScanFields, ZoneForItem, LeftAlone,
                          Scan!Mounted,
                          Scan!MessageGoesAway, ScanWaits

(***************************************************************************)
(* What the user does.                                                     *)
(***************************************************************************)

\* A page that changes without a new or an answered handler.
LEMMA ShownAnew ==
  ASSUME ScanInv, UNCHANGED calls, ScanUi',
         ui'.loading => ui.loading, ui'.service = "saving" => ui.service = "saving"
  PROVE  ScanInv'
BY DEF ScanInv, ScanWaits, ScanLoads, ScanSaves

\* A scanned or typed code begins the request that its step asks for.
LEMMA CodeArrives ==
  ASSUME ScanInv, NEW code, Scan!Mounted, Scan!processCode(code)
  PROVE  ScanInv'
<1>1. /\ code \in Jobs \union Scan!Expected(Scan!FirstRequest)
      /\ ui' = [ui EXCEPT !.loading = code \in Jobs \/ ~Scan!Idle]
  BY DEF Scan!processCode
<1>2. ScanUi'
  BY <1>1, ZenonT(60) DEF ScanInv, ScanUi, ScanFields, ZoneForItem, LeftAlone, Scan!Mounted,
              Scan!MessageGoesAway
<1>3. CASE code \notin Jobs /\ Scan!Idle
  <2>1. UNCHANGED calls /\ ~ui'.loading /\ ui'.service = ui.service
    BY <1>1, <1>3 DEF Scan!processCode, ScanInv, ScanUi, ScanFields
  <2>2. QED
    BY <1>2, <2>1, ShownAnew
<1>4. CASE code \in Jobs \/ ~Scan!Idle
  <2> DEFINE ask == IF code \in Jobs THEN "getJob" ELSE Scan!FirstRequest
             h == Scan!Handler(ask, code)
  <2>1. Scan!Begins(h)
    BY <1>4 DEF Scan!processCode
  <2>2. /\ DOMAIN h = {"ask", "code", "action", "zoneStep", "device", "case", "ids", "job"}
        /\ h.ask = ask /\ h.code = code
    BY DEF Scan!Handler
  <2>3. ask \in ScanLoading
    BY DEF Scan!FirstRequest, ScanLoading
  <2>4. ScanKnown(h)
    <3>1. h.code \in Scan!Codes \union {Scan!None}
      BY <1>1, <2>2 DEF Scan!Codes, Scan!Expected, Scan!Items
    <3>2. h.ids \in SUBSET ScannedDevices /\ h.job \in Jobs \union {Scan!None}
      BY DEF Scan!Handler, ScanInv, ScanUi, ScanFields
    <3>3. h.ask = "getZone" => h.device \in Scan!Items
      BY DEF Scan!Handler, Scan!FirstRequest, ScanInv, ScanUi, ZoneForItem
    <3>4. h.ask = "process" => h.action = "check"
      BY DEF Scan!Handler, Scan!FirstRequest
    <3>5. /\ h.ask = "getJob" => code \in Jobs
          /\ h.ask = "getCase" => code \in ScannedCases
          /\ h.ask = "checkForCase" => code \in ScannedDevices
          /\ h.ask \in {"checkForIntake", "checkBefore", "process"} => code \in Scan!Items
      BY <1>1, <2>2 DEF Scan!FirstRequest, Scan!Expected
    <3>6. h.ask \notin {"addToCase", "remove", "getStatus", "highlight", "intake"}
      BY <2>2 DEF Scan!FirstRequest
    <3>7. QED
      BY <2>2, <2>3, <3>1, <3>2, <3>3, <3>4, <3>5, <3>6 DEF ScanKnown, ScanAsks
  <2>5. ui'.service = ui.service
    BY <1>1 DEF ScanInv, ScanUi, ScanFields
  <2> HIDE DEF h, ask
  <2>6. QED
    BY <1>2, <2>1, <2>2, <2>3, <2>4, <2>5, ScanBeginKnown DEF ScanInv, ScanWaits
<1>5. QED
  BY <1>3, <1>4

\* The choices on the page that ask for nothing.
LEMMA ScanChoices ==
  ASSUME ScanInv,
         \/ \E a \in Scan!Actions : Scan!handleActionChange(a)
         \/ \E m \in {"keyboard"} \union Cameras : Scan!handleInputMethodChange(m)
         \/ Scan!ChangeCase \/ Scan!ClearJob \/ Scan!SkipJob \/ Scan!Dismiss
         \/ Scan!ViewDevice \/ Scan!openServiceModal \/ Scan!handleServiceModalClose
  PROVE  ScanInv'
<1> USE DEF ScanInv, ScanUi, ScanFields, Scan!Actions, Scan!Steps, ZoneForItem, LeftAlone,
            Scan!Mounted, Scan!MessageGoesAway, Scan!Reachable
<1>1. CASE \E a \in Scan!Actions : Scan!handleActionChange(a)
  <2>1. PICK a \in Scan!Actions : Scan!handleActionChange(a)
    BY <1>1
  <2>2. /\ UNCHANGED calls /\ ui'.step \in {"case", "job", "device"}
        /\ ui' \in [page : {ui.page}, action : Scan!Actions, step : Scan!Steps,
                    loading : {ui.loading}, method : {ui.method},
                    device : {Scan!None}, scannedCase : {ui.scannedCase, Scan!None},
                    caseDevices : {ui.caseDevices, {}}, message : {ui.message, FALSE},
                    timer : {ui.timer}, job : {Scan!None}, ledModal : {ui.ledModal},
                    checked : {FALSE}, viewDevice : {ui.viewDevice},
                    service : {ui.service}]
    BY <2>1, ZenonT(60) DEF Scan!handleActionChange
  <2>3. Scan!Mounted /\ ScanFields'
    <3>1. Scan!Mounted
      BY <2>1 DEF Scan!handleActionChange
    <3>2. ScanFields'
      BY <2>2
    <3>3. QED
      BY <3>1, <3>2
  <2>4. ScanUi'
    BY <2>2, <2>3
  <2>5. QED
    BY <2>2, <2>4, ShownAnew
<1>2. CASE \E m \in {"keyboard"} \union Cameras : Scan!handleInputMethodChange(m)
  <2>1. PICK m \in {"keyboard"} \union Cameras :
               /\ Scan!Mounted /\ ui' = [ui EXCEPT !.method = m, !.checked = FALSE]
               /\ UNCHANGED calls
    BY <1>2 DEF Scan!handleInputMethodChange
  <2>2. ScanFields'
    BY <2>1
  <2>3. /\ ui'.step = ui.step /\ ui'.device = ui.device /\ ui'.page = ui.page
        /\ ui'.loading = ui.loading /\ ui'.service = ui.service
        /\ ui'.message = ui.message /\ ui'.timer = ui.timer
    BY <2>1
  <2>4. ScanUi'
    BY <2>1, <2>2, <2>3
  <2>5. QED
    BY <2>1, <2>3, <2>4, ShownAnew
<1>3. CASE Scan!ChangeCase
  BY <1>3, ShownAnew DEF Scan!ChangeCase
<1>4. CASE Scan!ClearJob \/ Scan!SkipJob
  <2>1. CASE Scan!ClearJob
    BY <2>1, ShownAnew DEF Scan!ClearJob
  <2>2. CASE Scan!SkipJob
    BY <2>2, ShownAnew, ZenonT(60) DEF Scan!SkipJob
  <2>3. QED
    BY <1>4, <2>1, <2>2
<1>5. CASE Scan!Dismiss
  BY <1>5, ShownAnew, ZenonT(60) DEF Scan!Dismiss
<1>6. CASE Scan!ViewDevice
  BY <1>6, ShownAnew DEF Scan!ViewDevice
<1>7. CASE Scan!openServiceModal \/ Scan!handleServiceModalClose
  BY <1>7, ShownAnew DEF Scan!openServiceModal, Scan!handleServiceModalClose
<1>8. QED
  BY <1>1, <1>2, <1>3, <1>4, <1>5, <1>6, <1>7

\* Leaving the page and coming back to it.
LEMMA Navigations ==
  ASSUME ScanInv, Scan!CancelLed \/ Scan!CloseDevice \/ Scan!Leave \/ Scan!Return
  PROVE  ScanInv'
<1>1. CASE Scan!CancelLed
  <2>1. CASE ui.job # Scan!None
    BY <1>1, <2>1, FreshPage, ShownAnew DEF Scan!CancelLed, Scan!Navigate
  <2>2. CASE ui.job = Scan!None
    BY <1>1, <2>2, ShownAnew, ZenonT(60) DEF Scan!CancelLed, Scan!Navigate, ScanInv, ScanUi,
                                 ScanFields,
                                 ZoneForItem, LeftAlone, Scan!Mounted,
                                 Scan!MessageGoesAway
  <2>3. QED
    BY <2>1, <2>2
<1>2. CASE Scan!CloseDevice
  <2>1. PICK shown \in {"scan", "elsewhere"} :
          /\ Scan!Navigate([ui EXCEPT !.viewDevice = FALSE], shown)
          /\ UNCHANGED calls /\ Scan!Mounted
    BY <1>2 DEF Scan!CloseDevice
  <2>2. CASE shown = "scan"
    BY <2>1, <2>2, ShownAnew, ZenonT(60) DEF Scan!Navigate, ScanInv, ScanUi, ScanFields,
                                 ZoneForItem,
                                 LeftAlone, Scan!Mounted, Scan!MessageGoesAway
  <2>3. CASE shown = "elsewhere"
    BY <2>1, <2>3, FreshPage, ShownAnew DEF Scan!Navigate
  <2>4. QED
    BY <2>1, <2>2, <2>3
<1>3. CASE Scan!Leave
  BY <1>3, FreshPage, ShownAnew DEF Scan!Leave, Scan!Navigate
<1>4. CASE Scan!Return
  BY <1>4, FreshPage, ShownAnew DEF Scan!Return
<1>5. QED
  BY <1>1, <1>2, <1>3, <1>4

\* The buttons that ask for something.
LEMMA ScanRequests ==
  ASSUME ScanInv, \/ \E d \in ScannedDevices : Scan!RemoveDevice(d)
               \/ Scan!ConfirmLed \/ Scan!handleServiceSubmit
  PROVE  ScanInv'
<1>1. CASE \E d \in ScannedDevices : Scan!RemoveDevice(d)
  <2>1. PICK d \in ScannedDevices : Scan!RemoveDevice(d)
    BY <1>1
  <2> DEFINE h == Scan!Handler("remove", d)
  <2>2. ScanKnown(h) /\ "again" \notin DOMAIN h
    BY DEF Scan!Handler, ScanKnown, ScanAsks, ScanLoading, Scan!Codes, Scan!Items
  <2>3. Scan!Begins(h) /\ UNCHANGED ui
    BY <2>1 DEF Scan!RemoveDevice
  <2> HIDE DEF h
  <2>4. QED
    BY <2>2, <2>3, ScanBeginKnown DEF ScanInv, ScanUi, ScanFields, ZoneForItem,
                                      LeftAlone,
                                  Scan!Mounted, Scan!MessageGoesAway, ScanWaits
<1>2. CASE Scan!ConfirmLed
  <2> DEFINE h == Scan!Handler("confirmLed", ui.job)
  <2>1. ScanKnown(h) /\ "again" \notin DOMAIN h /\ h.ask = "confirmLed"
    BY DEF Scan!Handler, ScanKnown, ScanAsks, ScanLoading, Scan!Codes, Scan!Items,
           ScanInv, ScanUi,
           ScanFields
  <2>2. Scan!Begins(h) /\ ui' = [ui EXCEPT !.loading = TRUE] /\ Scan!Mounted
    BY <1>2 DEF Scan!ConfirmLed
  <2> HIDE DEF h
  <2>3. ScanUi'
    BY <2>2 DEF ScanInv, ScanUi, ScanFields, ZoneForItem, LeftAlone, Scan!Mounted,
                Scan!MessageGoesAway
  <2>4. ui'.service = ui.service
    BY <2>2 DEF ScanInv, ScanUi, ScanFields
  <2>5. QED
    BY <2>1, <2>2, <2>3, <2>4, ScanBeginKnown DEF ScanInv, ScanWaits, ScanLoading
<1>3. CASE Scan!handleServiceSubmit
  <2> DEFINE h == Scan!Handler("createDefect", Scan!None)
  <2>1. ScanKnown(h) /\ "again" \notin DOMAIN h /\ h.ask = "createDefect"
    BY DEF Scan!Handler, ScanKnown, ScanAsks, ScanLoading, ScanInv, ScanUi, ScanFields
  <2>2. Scan!Begins(h) /\ ui' = [ui EXCEPT !.service = "saving"] /\ Scan!Mounted
    BY <1>3 DEF Scan!handleServiceSubmit
  <2> HIDE DEF h
  <2>3. ScanUi'
    BY <2>2 DEF ScanInv, ScanUi, ScanFields, ZoneForItem, LeftAlone, Scan!Mounted,
                Scan!MessageGoesAway
  <2>4. ui'.loading = ui.loading
    BY <2>2 DEF ScanInv, ScanUi, ScanFields
  <2>5. QED
    BY <2>1, <2>2, <2>3, <2>4, ScanBeginKnown DEF ScanInv, ScanWaits
<1>4. QED
  BY <1>1, <1>2, <1>3

(***************************************************************************)
(* Answers.                                                                *)
(***************************************************************************)

\* An answer that ends its handler, and renders u if the page is still there.
LEMMA Finishes ==
  ASSUME ScanInv, NEW h \in calls, "again" \notin DOMAIN h, Scan!Ends(h), h.ask \in ScanLoading,
         NEW u, Scan!Render(u),
         Scan!Mounted /\ ui' = u => ScanUi' /\ ~ui'.loading /\ ui'.service = ui.service
  PROVE  ScanInv'
<1>1. h.ask # "createDefect"
  BY DEF ScanLoading
<1>2. ScanUi' /\ ~ui'.loading /\ ui'.service = ui.service
  BY DEF Scan!Render, ScanInv, ScanUi, ScanFields, ZoneForItem, LeftAlone, Scan!Mounted,
         Scan!MessageGoesAway
<1>3. QED
  BY <1>1, <1>2, ScanEndKnown

\* The answers of the workflows.
LEMMA ScanAnswers ==
  ASSUME ScanInv, NEW h \in calls, Scan!Answer(h)
  PROVE  ScanInv'
<1> USE DEF Scan!Awaits
<1>0. ScanKnown(h) /\ "again" \notin DOMAIN h
  BY DEF ScanInv, Scan!Answer, Scan!Fails, Scan!Refused, Scan!CaseFound,
         Scan!CheckedForCase,
         Scan!AddedToCase, Scan!CheckedForIntake, Scan!ZoneFound, Scan!IntakeDone,
         Scan!CheckedBefore, Scan!Processed, Scan!JobFound, Scan!LedOff, Scan!LedOn,
         Scan!Highlighted, Scan!JobFails
<1> DEFINE Shown(u) ==
      Scan!Mounted /\ ui' = u => ScanUi' /\ ~ui'.loading /\ ui'.service = ui.service
<1>1. CASE Scan!Fails(h)
  <2>1. h.ask \in ScanLoading /\ Scan!Ends(h)
    BY <1>1 DEF Scan!Fails, ScanLoading
  <2>2. CASE h.ask \in {"getCase", "checkForCase", "addToCase"}
    <3>1. Scan!Render([Scan!Announce(ui) EXCEPT !.loading = FALSE])
      BY <1>1, <2>2 DEF Scan!Fails
    <3>2. Shown([Scan!Announce(ui) EXCEPT !.loading = FALSE])
      BY DEF Scan!Announce, ScanInv, ScanUi, ScanFields, ZoneForItem, LeftAlone,
             Scan!Mounted,
             Scan!MessageGoesAway
    <3>3. QED
      BY <1>0, <2>1, <3>1, <3>2, Finishes
  <2>3. CASE h.ask \notin {"getCase", "checkForCase", "addToCase"}
    <3>1. Scan!Render([Scan!StartOver(h, ui) EXCEPT !.loading = FALSE, !.checked = FALSE])
      BY <1>1, <2>3 DEF Scan!Fails
    <3>2. Shown([Scan!StartOver(h, ui) EXCEPT !.loading = FALSE, !.checked = FALSE])
      BY ZenonT(60) DEF Scan!StartOver, ScanInv, ScanUi, ScanFields, Scan!Steps, ZoneForItem,
             LeftAlone,
             Scan!Mounted, Scan!MessageGoesAway
    <3>3. QED
      BY <1>0, <2>1, <3>1, <3>2, Finishes
  <2>4. QED
    BY <2>2, <2>3
<1>2. CASE Scan!Refused(h)
  <2> DEFINE u == [ui EXCEPT !.loading = FALSE, !.checked = FALSE]
  <2>1. h.ask \in ScanLoading /\ Scan!Ends(h) /\ Scan!Render(u)
    BY <1>2 DEF Scan!Refused, ScanLoading
  <2>2. Shown(u)
    BY ZenonT(60) DEF ScanInv, ScanUi, ScanFields, ZoneForItem, LeftAlone, Scan!Mounted,
           Scan!MessageGoesAway
  <2>3. QED
    BY <1>0, <2>1, <2>2, Finishes
<1>3. CASE Scan!CaseFound(h)
  <2> DEFINE u == [ui EXCEPT !.loading = FALSE, !.scannedCase = h.code,
                             !.caseDevices = {}, !.message = FALSE,
                             !.step = "device-for-case", !.checked = FALSE]
  <2>1. h.ask \in ScanLoading /\ Scan!Ends(h) /\ Scan!Render(u) /\ h.code \in ScannedCases
    BY <1>0, <1>3 DEF Scan!CaseFound, ScanLoading, ScanKnown
  <2>2. Shown(u)
    BY <2>1, ZenonT(60) DEF ScanInv, ScanUi, ScanFields, Scan!Steps, ZoneForItem, LeftAlone,
                Scan!Mounted,
                Scan!MessageGoesAway
  <2>3. QED
    BY <1>0, <2>1, <2>2, Finishes
<1>4. CASE Scan!CheckedForCase(h)
  <2>1. h.ask = "checkForCase" /\ h.ask \in ScanLoading
    BY <1>4 DEF Scan!CheckedForCase, ScanLoading
  <2>2. CASE h.code \in h.ids
    <3>1. Scan!Ends(h) /\ Scan!Render([Scan!Announce(ui) EXCEPT !.loading = FALSE])
      BY <1>4, <2>2 DEF Scan!CheckedForCase
    <3>2. Shown([Scan!Announce(ui) EXCEPT !.loading = FALSE])
      BY DEF Scan!Announce, ScanInv, ScanUi, ScanFields, ZoneForItem, LeftAlone,
             Scan!Mounted,
             Scan!MessageGoesAway
    <3>3. QED
      BY <1>0, <2>1, <3>1, <3>2, Finishes
  <2>3. CASE h.code \notin h.ids
    <3> DEFINE next == [h EXCEPT !.ask = "addToCase", !.ids = {}]
    <3>1. Scan!GoesOnAs(h, next) /\ UNCHANGED ui
      BY <1>4, <2>3 DEF Scan!CheckedForCase
    <3>2. ScanKnown(next) /\ next.ask \in ScanLoading /\ "again" \notin DOMAIN next
      BY <1>0, <2>1 DEF ScanKnown, ScanAsks, ScanLoading
    <3> HIDE DEF next
    <3>3. QED
      BY <1>0, <2>1, <3>1, <3>2, ScanGoOnKnown
  <2>4. QED
    BY <2>2, <2>3
<1>5. CASE Scan!AddedToCase(h)
  <2> DEFINE u == [Scan!Announce(ui) EXCEPT !.loading = FALSE,
                                       !.caseDevices = @ \union {h.code}]
  <2>1. h.ask \in ScanLoading /\ Scan!Ends(h) /\ Scan!Render(u) /\ h.code \in ScannedDevices
    BY <1>0, <1>5 DEF Scan!AddedToCase, ScanLoading, ScanKnown
  <2>2. ui.caseDevices \union {h.code} \in SUBSET ScannedDevices
    BY <2>1 DEF ScanInv, ScanUi, ScanFields
  <2>3. Shown(u)
    BY <2>2, ZenonT(60) DEF Scan!Announce, ScanInv, ScanUi, ScanFields, ZoneForItem, LeftAlone,
                Scan!Mounted,
                Scan!MessageGoesAway
  <2>4. QED
    BY <1>0, <2>1, <2>3, Finishes
<1>6. CASE Scan!CheckedForIntake(h)
  <2> DEFINE u == [ui EXCEPT !.loading = FALSE, !.checked = FALSE, !.step = "zone",
                             !.device = h.code]
  <2>1. h.ask \in ScanLoading /\ Scan!Ends(h) /\ Scan!Render(u) /\ h.code \in Scan!Items
    BY <1>0, <1>6 DEF Scan!CheckedForIntake, ScanLoading, ScanKnown
  <2>2. Shown(u)
    BY <2>1, ZenonT(60) DEF ScanInv, ScanUi, ScanFields, Scan!Steps, ZoneForItem, LeftAlone,
                Scan!Mounted,
                Scan!MessageGoesAway
  <2>3. QED
    BY <1>0, <2>1, <2>2, Finishes
<1>7. ASSUME NEW ask, h.ask \in ScanLoading, Scan!GoesOn(h, ask), UNCHANGED ui, ask \in ScanLoading,
             ScanKnown([h EXCEPT !.ask = ask])
      PROVE  ScanInv'
  <2> DEFINE next == [h EXCEPT !.ask = ask]
  <2>1. Scan!GoesOnAs(h, next) /\ next.ask \in ScanLoading /\ "again" \notin DOMAIN next
    BY <1>0, <1>7 DEF Scan!GoesOn, ScanKnown
  <2> HIDE DEF next
  <2>2. ScanKnown(next)
    BY <1>7 DEF next
  <2>3. QED
    BY <1>0, <1>7, <2>1, <2>2, ScanGoOnKnown
<1>8. CASE Scan!ZoneFound(h)
  <2>1. h.ask = "getZone" /\ Scan!GoesOn(h, "intake") /\ UNCHANGED ui
    BY <1>8 DEF Scan!ZoneFound
  <2>2. ScanKnown([h EXCEPT !.ask = "intake"])
    BY <1>0, <2>1 DEF ScanKnown, ScanAsks, ScanLoading
  <2>3. QED
    BY <1>7, <2>1, <2>2 DEF ScanLoading
<1>9. CASE Scan!IntakeDone(h)
  <2> DEFINE u == [ui EXCEPT !.loading = FALSE, !.checked = FALSE, !.step = "device",
                             !.device = Scan!None]
  <2>1. h.ask \in ScanLoading /\ Scan!Ends(h) /\ Scan!Render(u)
    BY <1>9 DEF Scan!IntakeDone, ScanLoading
  <2>2. Shown(u)
    BY ZenonT(60) DEF ScanInv, ScanUi, ScanFields, Scan!Steps, ZoneForItem, LeftAlone,
           Scan!Mounted,
           Scan!MessageGoesAway
  <2>3. QED
    BY <1>0, <2>1, <2>2, Finishes
<1>10. CASE Scan!CheckedBefore(h)
  <2>1. h.ask = "checkBefore" /\ h.ask \in ScanLoading
    BY <1>10 DEF Scan!CheckedBefore, ScanLoading
  <2>2. CASE Scan!Allowed(h)
    <3> DEFINE job == IF h.code \in Consumables \/ h.action # "outtake" THEN Scan!None
                      ELSE h.job
               next == [h EXCEPT !.ask = "process", !.job = job]
    <3>1. Scan!GoesOnAs(h, next) /\ UNCHANGED ui
      BY <1>10, <2>2 DEF Scan!CheckedBefore
    <3>2. job \in Jobs \union {Scan!None}
      BY <1>0 DEF ScanKnown
    <3>3. h.action = "outtake" /\ h.code \notin Consumables => job \in Jobs
      BY <1>0, <2>2 DEF ScanKnown, Scan!Allowed
    <3> HIDE DEF job
    <3>4. ScanKnown(next) /\ next.ask \in ScanLoading /\ "again" \notin DOMAIN next
      BY <1>0, <2>1, <3>2, <3>3 DEF ScanKnown, ScanAsks, ScanLoading
    <3> HIDE DEF next
    <3>5. QED
      BY <1>0, <2>1, <3>1, <3>4, ScanGoOnKnown
  <2>3. CASE ~Scan!Allowed(h)
    <3>1. Scan!Ends(h) /\ Scan!Render([ui EXCEPT !.loading = FALSE, !.checked = FALSE])
      BY <1>10, <2>3 DEF Scan!CheckedBefore
    <3>2. Shown([ui EXCEPT !.loading = FALSE, !.checked = FALSE])
      BY DEF ScanInv, ScanUi, ScanFields, ZoneForItem, LeftAlone, Scan!Mounted,
             Scan!MessageGoesAway
    <3>3. QED
      BY <1>0, <2>1, <3>1, <3>2, Finishes
  <2>4. QED
    BY <2>2, <2>3
<1>11. CASE Scan!Processed(h)
  <2>1. PICK checked \in BOOLEAN :
          Scan!Render([ui EXCEPT !.loading = FALSE, !.checked = checked])
    BY <1>11 DEF Scan!Processed
  <2>2. h.ask \in ScanLoading /\ Scan!Ends(h)
    BY <1>11 DEF Scan!Processed, ScanLoading
  <2>3. Shown([ui EXCEPT !.loading = FALSE, !.checked = checked])
    BY ZenonT(60) DEF ScanInv, ScanUi, ScanFields, ZoneForItem, LeftAlone, Scan!Mounted,
           Scan!MessageGoesAway
  <2>4. QED
    BY <1>0, <2>1, <2>2, <2>3, Finishes
<1>12. CASE Scan!JobFound(h)
  <2>1. h.ask = "getJob" /\ h.ask \in ScanLoading /\ h.code \in Jobs
    BY <1>0, <1>12 DEF Scan!JobFound, ScanKnown, ScanLoading
  <2>2. CASE h.action = "outtake"
    <3> DEFINE u == [ui EXCEPT !.loading = FALSE, !.job = h.code, !.step = "device",
                               !.checked = FALSE]
    <3>1. Scan!Ends(h) /\ Scan!Render(u)
      BY <1>12, <2>2 DEF Scan!JobFound
    <3>2. Shown(u)
      BY <2>1, ZenonT(60) DEF ScanInv, ScanUi, ScanFields, Scan!Steps, ZoneForItem, LeftAlone,
                  Scan!Mounted,
                  Scan!MessageGoesAway
    <3>3. QED
      BY <1>0, <2>1, <3>1, <3>2, Finishes
  <2>3. CASE h.action # "outtake"
    <3>1. ScanKnown([h EXCEPT !.ask = "getStatus"])
      BY <1>0, <2>1 DEF ScanKnown, ScanAsks, ScanLoading
    <3>2. QED
      BY <1>7, <1>12, <2>1, <2>3, <3>1 DEF Scan!JobFound, ScanLoading
  <2>4. QED
    BY <2>2, <2>3
<1>13. CASE Scan!LedOff(h)
  <2> DEFINE u == [ui EXCEPT !.loading = FALSE, !.job = h.code, !.ledModal = TRUE]
  <2>1. h.ask \in ScanLoading /\ Scan!Ends(h) /\ Scan!Render(u) /\ h.code \in Jobs
    BY <1>0, <1>13 DEF Scan!LedOff, ScanLoading, ScanKnown
  <2>2. Shown(u)
    BY <2>1, ZenonT(60) DEF ScanInv, ScanUi, ScanFields, ZoneForItem, LeftAlone, Scan!Mounted,
                Scan!MessageGoesAway
  <2>3. QED
    BY <1>0, <2>1, <2>2, Finishes
<1>14. CASE Scan!LedOn(h)
  <2>1. h.ask = "getStatus" /\ Scan!GoesOn(h, "highlight") /\ UNCHANGED ui
    BY <1>14 DEF Scan!LedOn
  <2>2. ScanKnown([h EXCEPT !.ask = "highlight"])
    BY <1>0, <2>1 DEF ScanKnown, ScanAsks, ScanLoading
  <2>3. QED
    BY <1>7, <2>1, <2>2 DEF ScanLoading
<1>15. CASE Scan!Highlighted(h)
  <2>1. h.ask \in ScanLoading /\ h.ask # "createDefect" /\ Scan!Ends(h)
    BY <1>15 DEF Scan!Highlighted, ScanLoading
  <2>2. ui' = [Scan!Fresh EXCEPT !.page = "job"]
    BY <1>15 DEF Scan!Highlighted, Scan!Navigate
  <2>3. QED
    BY <1>0, <2>1, <2>2, FreshPage, ScanEndKnown
<1>16. CASE Scan!JobFails(h)
  <2> DEFINE u == [ui EXCEPT !.loading = FALSE, !.checked = FALSE]
  <2>1. h.ask \in ScanLoading /\ Scan!Ends(h) /\ Scan!Render(u)
    BY <1>16 DEF Scan!JobFails, ScanLoading
  <2>2. Shown(u)
    BY DEF ScanInv, ScanUi, ScanFields, ZoneForItem, LeftAlone, Scan!Mounted,
           Scan!MessageGoesAway
  <2>3. QED
    BY <1>0, <2>1, <2>2, Finishes
<1>17. QED
  BY <1>1, <1>2, <1>3, <1>4, <1>5, <1>6, <1>8, <1>9, <1>10, <1>11, <1>12, <1>13, <1>14,
     <1>15, <1>16 DEF Scan!Answer

\* Answers to the requests that do not make the page wait, or that leave it.
LEMMA ScanOtherAnswers ==
  ASSUME ScanInv, NEW h \in calls,
         Scan!DeviceRemoved(h) \/ Scan!LedConfirmed(h) \/ Scan!DefectCreated(h)
  PROVE  ScanInv'
<1> USE DEF Scan!Awaits
<1>1. CASE Scan!DeviceRemoved(h)
  <2>1. h.ask = "remove" /\ "again" \notin DOMAIN h /\ Scan!Ends(h)
    BY <1>1 DEF Scan!DeviceRemoved
  <2>2. PICK gone \in {{}, {h.code}} :
          Scan!Render([Scan!Announce(ui) EXCEPT !.caseDevices = @ \ gone])
    BY <1>1 DEF Scan!DeviceRemoved
  <2>3. ScanUi' /\ ui'.loading = ui.loading /\ ui'.service = ui.service
    BY <2>2 DEF Scan!Announce, Scan!Render, ScanInv, ScanUi, ScanFields, ZoneForItem,
                LeftAlone,
                Scan!Mounted, Scan!MessageGoesAway
  <2>4. h.ask \notin ScanLoading
    BY <2>1 DEF ScanLoading
  <2>5. QED
    BY <2>1, <2>3, <2>4, ScanEndKnown
<1>2. CASE Scan!LedConfirmed(h)
  <2>1. h.ask # "createDefect" /\ "again" \notin DOMAIN h /\ Scan!Ends(h)
    BY <1>2 DEF Scan!LedConfirmed
  <2>2. ui' = [Scan!Fresh EXCEPT !.page = "job"]
    BY <1>2 DEF Scan!LedConfirmed, Scan!Navigate
  <2>3. QED
    BY <2>1, <2>2, FreshPage, ScanEndKnown
<1>3. CASE Scan!DefectCreated(h)
  <2>1. h.ask = "createDefect" /\ "again" \notin DOMAIN h /\ Scan!Ends(h)
    BY <1>3 DEF Scan!DefectCreated
  <2>2. PICK outcome \in {"sent", "open"} : Scan!Render([ui EXCEPT !.service = outcome])
    BY <1>3 DEF Scan!DefectCreated
  <2>3. ScanUi' /\ ui'.loading = ui.loading /\ ui'.service # "saving"
    BY <2>2 DEF Scan!Render, ScanInv, ScanUi, ScanFields, ZoneForItem, LeftAlone,
                Scan!Mounted,
                Scan!MessageGoesAway
  <2>4. h.ask \notin ScanLoading
    BY <2>1 DEF ScanLoading
  <2>5. QED
    BY <2>1, <2>3, <2>4, ScanEndKnown
<1>4. QED
  BY <1>1, <1>2, <1>3

\* Every step of the page keeps it.
LEMMA ScanSteps == ScanInv /\ [Scan!Next]_vars => ScanInv'
<1> SUFFICES ASSUME ScanInv, [Scan!Next]_vars PROVE ScanInv'
  OBVIOUS
<1>1. CASE UNCHANGED vars
  BY <1>1 DEF vars, ScanInv, ScanUi, ScanFields, ZoneForItem, LeftAlone, Scan!Mounted,
              Scan!MessageGoesAway, ScanWaits, ScanLoads, ScanSaves
<1>2. CASE Scan!User
  <2>1. CASE \E code \in Scan!Codes : Scan!Submit(code) \/ Scan!Detect(code)
    BY <2>1, CodeArrives DEF Scan!Submit, Scan!Detect, Scan!Reachable
  <2>2. QED
    BY <1>2, <2>1, ScanChoices, Navigations, ScanRequests DEF Scan!User
<1>3. CASE Scan!Dismiss
  BY <1>3, ScanChoices
<1>4. CASE \E h \in calls : Scan!Continue(h)
  BY <1>4, ScanAnswers, ScanOtherAnswers DEF Scan!Continue
<1>5. QED
  BY <1>1, <1>2, <1>3, <1>4 DEF Scan!Next

\* So it holds whenever the page is shown.
LEMMA ScanAlways == Spec => [](page = "scan" => ScanInv)
<1>1. Init => (page = "scan" => ScanInv)
  BY ScanInits DEF Init
<1>2. (page = "scan" => ScanInv) /\ [Next]_<<page, ui, calls>> => (page = "scan" => ScanInv)'
  BY ScanSteps DEF Next, vars
<1>3. QED
  BY <1>1, <1>2, PTL DEF Spec

\* No step leaves more handlers in flight than the bound.
LEMMA ScanCallsSteps == [Scan!Next]_vars => CallsStep
<1> SUFFICES ASSUME [Scan!Next]_vars PROVE CallsStep
  OBVIOUS
<1> USE ScanSameBegins, ScanSameEnds, ScanSameGoesOnAs DEF CallsStep
<1>1. CASE UNCHANGED vars
  BY <1>1 DEF vars
<1>2. CASE Scan!User
  <2>1. CASE \E code \in Scan!Codes : Scan!Submit(code) \/ Scan!Detect(code)
    <3>1. PICK code \in Scan!Codes : Scan!processCode(code)
      BY <2>1 DEF Scan!Submit, Scan!Detect
    <3>2. QED
      BY <3>1 DEF Scan!processCode
  <2>2. CASE \/ \E d \in ScannedDevices : Scan!RemoveDevice(d)
             \/ Scan!ConfirmLed \/ Scan!handleServiceSubmit
    BY <2>2 DEF Scan!RemoveDevice, Scan!ConfirmLed, Scan!handleServiceSubmit
  <2>3. CASE \/ \E a \in Scan!Actions : Scan!handleActionChange(a)
             \/ \E m \in {"keyboard"} \union Cameras : Scan!handleInputMethodChange(m)
             \/ Scan!ChangeCase \/ Scan!ClearJob \/ Scan!SkipJob \/ Scan!CancelLed
             \/ Scan!ViewDevice \/ Scan!CloseDevice \/ Scan!openServiceModal
             \/ Scan!handleServiceModalClose \/ Scan!Leave \/ Scan!Return
    BY <2>3 DEF Scan!handleActionChange, Scan!handleInputMethodChange, Scan!ChangeCase,
                Scan!ClearJob, Scan!SkipJob, Scan!CancelLed, Scan!ViewDevice,
                Scan!CloseDevice, Scan!openServiceModal, Scan!handleServiceModalClose,
                Scan!Leave, Scan!Return
  <2>4. QED
    BY <1>2, <2>1, <2>2, <2>3 DEF Scan!User
<1>3. CASE Scan!Dismiss
  BY <1>3 DEF Scan!Dismiss
<1>4. CASE \E h \in calls : Scan!Continue(h)
  <2>1. PICK h \in calls : Scan!Continue(h)
    BY <1>4
  <2>2. CASE \/ Scan!Fails(h) \/ Scan!Refused(h) \/ Scan!CaseFound(h)
             \/ Scan!AddedToCase(h)
             \/ Scan!CheckedForIntake(h) \/ Scan!IntakeDone(h) \/ Scan!Processed(h)
             \/ Scan!LedOff(h)
             \/ Scan!Highlighted(h) \/ Scan!JobFails(h)
             \/ Scan!DeviceRemoved(h) \/ Scan!LedConfirmed(h) \/ Scan!DefectCreated(h)
    BY <2>2 DEF Scan!Fails, Scan!Refused, Scan!CaseFound, Scan!AddedToCase,
                Scan!CheckedForIntake, Scan!IntakeDone, Scan!Processed, Scan!LedOff,
                Scan!Highlighted, Scan!JobFails, Scan!DeviceRemoved, Scan!LedConfirmed,
                Scan!DefectCreated
  <2>3. CASE Scan!ZoneFound(h) \/ Scan!LedOn(h)
    BY <2>3 DEF Scan!ZoneFound, Scan!LedOn, Scan!GoesOn
  <2>4. CASE Scan!CheckedForCase(h) \/ Scan!CheckedBefore(h)
    BY <2>4 DEF Scan!CheckedForCase, Scan!CheckedBefore
  <2>5. CASE Scan!JobFound(h)
    BY <2>5 DEF Scan!JobFound, Scan!GoesOn
  <2>6. QED
    BY <2>1, <2>2, <2>3, <2>4, <2>5 DEF Scan!Continue, Scan!Answer
<1>5. QED
  BY <1>1, <1>2, <1>3, <1>4 DEF Scan!Next

\* What the page waits for is on the way, and so is the end of its message.
LEMMA ScanWaitsForAnswers == ScanInv => Scan!NoSpinnerLeft /\ Scan!MessageGoesAway
BY DEF ScanInv, ScanUi, ScanWaits, ScanLoads, ScanSaves, Scan!NoSpinnerLeft

(***************************************************************************)
(* The theorems.                                                           *)
(***************************************************************************)

\* State and handlers have their types.
THEOREM ScanTypesAreKept == Spec => [](page = "scan" => Scan!TypeOK)
<1> DEFINE Few == page = "scan" => Bounded
<1>1. Init => Few
  BY FS_EmptySet, MaxCallsAssumption DEF Init, Scan!Init, Bounded
<1>2. Few /\ [Next]_<<page, ui, calls>> => Few'
  BY ScanCallsSteps, FewHandlers DEF Next, vars
<1>3. ASSUME page = "scan" => ScanInv, Few PROVE page = "scan" => Scan!TypeOK
  <2>1. CASE page # "scan"
    BY <2>1
  <2>2. CASE page = "scan"
    <3>1. ScanInv /\ Cardinality(calls) <= MaxCalls
      BY <1>3, <2>2 DEF Bounded
    <3>2. \A h \in calls : /\ h.code \in Scan!Codes \union {Scan!None}
                           /\ h.ids \subseteq ScannedDevices
      BY <3>1 DEF ScanInv, ScanKnown
    <3>3. ScanFields
      BY <3>1 DEF ScanInv, ScanUi
    <3>4. QED
      BY <3>1, <3>2, <3>3, ScanSameCount DEF ScanFields, Scan!TypeOK
  <2>3. QED
    BY <2>1, <2>2
<1>4. QED
  BY <1>1, <1>2, <1>3, ScanAlways, PTL DEF Spec

\* The second step of an intake is sent for an item that the first one checked,
\* however scans, failures and changes of the mode interleave.
THEOREM IntakesNameAnItem == Spec => []IntakeNamesItem
<1>1. (page = "scan" => ScanInv) => IntakeNamesItem
  BY DEF ScanInv, ScanKnown, IntakeNamesItem, Scan!IntakeNamesItem
<1>2. QED
  BY <1>1, ScanAlways, PTL

\* A device goes out only with a job, whatever was scanned and cleared since its
\* code came.  The server tells devices from consumables, so no code is both.
THEOREM DevicesGoOutWithAJob == Spec => []DeviceOuttakeNamesJob
<1>1. (page = "scan" => ScanInv) => DeviceOuttakeNamesJob
  BY CodesAssumption DEF ScanInv, ScanKnown, DeviceOuttakeNamesJob, Scan!DeviceOuttakeNamesJob
<1>2. QED
  BY <1>1, ScanAlways, PTL

(***************************************************************************)
(* DeviceDetailModal.                                                      *)
(***************************************************************************)

\* What the dialog and the server know of a request.
LightRequests == [ask : {"locate", "clear", "cleanup"}, done : BOOLEAN]

\* The request a button waits for; the others are cleanups nobody waits for.
LightAsked == {h \in calls : h.ask # "cleanup"}

\* One request of each of the two kinds is in flight at most.
OneOfAKind ==
  \A a, b \in calls : (a.ask = "cleanup" <=> b.ask = "cleanup") => a = b
\* The button is off exactly while its request is in flight.
ButtonWaits == ui.locating <=> LightAsked # {}

\* What the dialog holds to be lit was located and answered; closed, it holds
\* nothing to be lit, and after a cleanup has been sent nothing is located.
KnowsLight ==
  /\ ui.ledActive => ui.open /\ (\A h \in calls : h.ask # "locate")
  /\ ~ui.open => \A a, b \in calls : a.ask = "cleanup" => b.ask # "locate"

\* A light that is on will be put out: the dialog knows of it, or will when an
\* answer comes, or it has sent what puts it out.
Remembered ==
  \/ ui.ledActive
  \/ \E h \in calls : h.ask = "locate" /\ h.done
  \/ \E h \in calls : h.ask # "locate" /\ ~h.done
LightIsRemembered ==
  /\ ui.lit /\ ~ui.lost => Remembered
  /\ \A h \in calls : h.ask = "clear" /\ h.done => ~ui.lit

\* The invariant that the steps of the dialog keep.
DeviceInv ==
  /\ DeviceD!TypeOK
  /\ OneOfAKind
  /\ ButtonWaits
  /\ KnowsLight
  /\ LightIsRemembered
  /\ DeviceD!MessageGoesAway

\* The dialog begins with it.
LEMMA DeviceInits == DeviceD!Init => DeviceInv
BY DEF DeviceD!Init, DeviceInv, DeviceD!TypeOK, OneOfAKind, ButtonWaits, LightAsked,
       KnowsLight,
       LightIsRemembered, Remembered, DeviceD!MessageGoesAway

\* No request has a twin, so that one that ends is taken away itself.
LEMMA LightAlone ==
  ASSUME DeviceInv, NEW h \in calls
  PROVE  DeviceD!Without(h) = calls \ {h}
<1>1. "again" \in DOMAIN DeviceD!Again(h)
  BY DEF DeviceD!Again
<1>2. \A c \in calls : "again" \notin DOMAIN c
  BY DEF DeviceInv, DeviceD!TypeOK
<1>3. DeviceD!Again(h) \notin calls
  BY <1>1, <1>2
<1>4. QED
  BY <1>3 DEF DeviceD!Without

(***************************************************************************)
(* The steps.                                                              *)
(***************************************************************************)
LEMMA Presses ==
  ASSUME DeviceInv, DeviceD!handleLocate \/ DeviceD!handleClearLED
  PROVE  DeviceInv'
<1>1. PICK ask \in {"locate", "clear"} :
        /\ ui.open /\ ~ui.locating
        /\ IF ask = "locate" THEN ~ui.ledActive ELSE ui.ledActive
        /\ DeviceD!Begins(DeviceD!Request(ask))
        /\ ui' = [ui EXCEPT !.locating = TRUE, !.message = FALSE]
  BY DEF DeviceD!handleLocate, DeviceD!handleClearLED
<1>2. /\ DeviceD!Request(ask) \in LightRequests
      /\ DeviceD!Request(ask).ask = ask /\ ~DeviceD!Request(ask).done
  BY DEF DeviceD!Request, LightRequests
<1>3. \A c \in calls : c.ask = "cleanup"
  BY <1>1 DEF DeviceInv, ButtonWaits, LightAsked
<1>4. calls' = calls \union {DeviceD!Request(ask)}
  BY <1>1, <1>2, <1>3 DEF DeviceD!Begins, DeviceD!Joins
<1> DEFINE r == DeviceD!Request(ask)
<1> HIDE DEF r
<1>5. /\ calls' = calls \union {r} /\ r \in LightRequests /\ r.ask = ask /\ ~r.done
  BY <1>2, <1>4 DEF r
<1>6. DeviceD!TypeOK' /\ DeviceD!MessageGoesAway'
  BY <1>1, <1>5 DEF DeviceInv, DeviceD!TypeOK, DeviceD!MessageGoesAway, LightRequests
<1>7. OneOfAKind' /\ ButtonWaits'
  BY <1>1, <1>3, <1>5 DEF DeviceInv, DeviceD!TypeOK, OneOfAKind, ButtonWaits, LightAsked
<1>8. KnowsLight'
  BY <1>1, <1>3, <1>5 DEF DeviceInv, DeviceD!TypeOK, KnowsLight
<1>9. LightIsRemembered'
  BY <1>1, <1>3, <1>5 DEF DeviceInv, DeviceD!TypeOK, LightIsRemembered, Remembered
<1>10. QED
  BY <1>6, <1>7, <1>8, <1>9 DEF DeviceInv

\* Opening the dialog changes neither the light nor the requests.
LEMMA Opens == DeviceInv /\ DeviceD!Open => DeviceInv'
BY ZenonT(60) DEF DeviceD!Open, DeviceInv, DeviceD!TypeOK, OneOfAKind, ButtonWaits, LightAsked,
       KnowsLight,
       LightIsRemembered, Remembered, DeviceD!MessageGoesAway

\* The timer takes the message away.
LEMMA Dismisses == DeviceInv /\ DeviceD!Dismiss => DeviceInv'
BY DEF DeviceD!Dismiss, DeviceInv, DeviceD!TypeOK, OneOfAKind, ButtonWaits, LightAsked,
       KnowsLight,
       LightIsRemembered, Remembered, DeviceD!MessageGoesAway

\* Closing the dialog over a light sends a cleanup, the only one.
LEMMA Closes == DeviceInv /\ DeviceD!Close => DeviceInv'
<1> SUFFICES ASSUME DeviceInv, DeviceD!Close PROVE DeviceInv'
  OBVIOUS
<1> DEFINE r == DeviceD!Request("cleanup")
<1>1. r \in LightRequests /\ r.ask = "cleanup" /\ ~r.done
  BY DEF DeviceD!Request, LightRequests
<1> HIDE DEF r
<1>2. \A h \in calls : h.ask # "cleanup"
  BY DEF DeviceD!Close
<1>3. CASE ui.ledActive
  <2>1. /\ ui' = [ui EXCEPT !.open = FALSE, !.ledActive = FALSE]
        /\ calls' = calls \union {r}
    BY <1>3 DEF DeviceD!Close, DeviceD!Cleanup, DeviceInv, DeviceD!TypeOK, r
  <2>2. DeviceD!TypeOK' /\ DeviceD!MessageGoesAway' /\ OneOfAKind' /\ ButtonWaits'
    BY <1>1, <1>2, <2>1 DEF DeviceInv, DeviceD!TypeOK, DeviceD!MessageGoesAway,
                            LightRequests,
                            OneOfAKind, ButtonWaits, LightAsked
  <2>3. KnowsLight'
    BY <1>1, <1>2, <1>3, <2>1 DEF DeviceInv, DeviceD!TypeOK, KnowsLight
  <2>4. LightIsRemembered'
    BY <1>1, <1>2, <2>1 DEF DeviceInv, DeviceD!TypeOK, LightIsRemembered, Remembered
  <2>5. QED
    BY <2>2, <2>3, <2>4 DEF DeviceInv
<1>4. CASE ~ui.ledActive
  <2>1. ui' = [ui EXCEPT !.open = FALSE] /\ UNCHANGED calls
    BY <1>4 DEF DeviceD!Close, DeviceD!Cleanup, DeviceInv, DeviceD!TypeOK
  <2>2. QED
    BY <1>2, <1>4, <2>1 DEF DeviceInv, DeviceD!TypeOK, DeviceD!MessageGoesAway,
                            OneOfAKind,
                            ButtonWaits, LightAsked, KnowsLight, LightIsRemembered,
                            Remembered
<1>5. QED
  BY <1>3, <1>4

\* The server handles a request.
LEMMA Handles ==
  ASSUME DeviceInv, NEW h \in calls, DeviceD!Handled(h)
  PROVE  DeviceInv'
<1> DEFINE d == [h EXCEPT !.done = TRUE]
<1>1. h \in LightRequests /\ d \in LightRequests /\ d.ask = h.ask /\ d.done /\ ~h.done /\ d # h
  BY DEF DeviceD!Handled, DeviceInv, DeviceD!TypeOK, LightRequests
<1>2. d \notin calls
  BY <1>1 DEF DeviceInv, OneOfAKind
<1>3. DeviceD!Joins(d, calls \ {h}) /\ ui' = [ui EXCEPT !.lit = (h.ask = "locate")]
  BY LightAlone DEF DeviceD!Handled, DeviceD!GoesOnAs
<1> HIDE DEF d
<1>4. calls' = (calls \ {h}) \union {d}
  BY <1>2, <1>3 DEF DeviceD!Joins
<1>5. DeviceD!TypeOK' /\ DeviceD!MessageGoesAway'
  BY <1>1, <1>3, <1>4 DEF DeviceInv, DeviceD!TypeOK, DeviceD!MessageGoesAway,
                          LightRequests
<1>6. OneOfAKind'
  BY <1>1, <1>4 DEF DeviceInv, OneOfAKind
<1>7. ButtonWaits'
  BY <1>1, <1>3, <1>4 DEF DeviceInv, DeviceD!TypeOK, ButtonWaits, LightAsked
<1>8. KnowsLight'
  BY <1>1, <1>3, <1>4 DEF DeviceInv, DeviceD!TypeOK, KnowsLight
<1>9. LightIsRemembered'
  BY <1>1, <1>3, <1>4
     DEF DeviceInv, DeviceD!TypeOK, LightRequests, OneOfAKind, LightIsRemembered,
         Remembered
<1>10. QED
  BY <1>5, <1>6, <1>7, <1>8, <1>9 DEF DeviceInv

\* A light comes on in a dialog that may be closed by now, which puts it out.
LEMMA Locates ==
  ASSUME DeviceInv, NEW h \in calls, DeviceD!Located(h)
  PROVE  DeviceInv'
<1> DEFINE r == DeviceD!Request("cleanup")
<1>1. r \in LightRequests /\ r.ask = "cleanup" /\ ~r.done
  BY DEF DeviceD!Request, LightRequests
<1> HIDE DEF r
<1>2. h \in LightRequests /\ h.ask = "locate" /\ h.done
  BY DEF DeviceD!Located, DeviceD!Awaits, DeviceInv, DeviceD!TypeOK, LightRequests
<1>3. \A c \in calls \ {h} : c.ask = "cleanup"
  BY <1>2 DEF DeviceInv, OneOfAKind
<1>4. CASE ui.open
  <2>1. /\ ui' = [ui EXCEPT !.ledActive = TRUE, !.locating = FALSE, !.message = TRUE,
                            !.timer = TRUE]
        /\ calls' = calls \ {h}
    BY <1>4 DEF DeviceD!Located, DeviceD!Cleanup, DeviceD!Announce, DeviceInv,
                DeviceD!TypeOK
  <2>2. QED
    BY <1>3, <1>4, <2>1 DEF DeviceInv, DeviceD!TypeOK, DeviceD!MessageGoesAway,
                            OneOfAKind,
                            ButtonWaits, LightAsked, KnowsLight, LightIsRemembered,
                            Remembered
<1>5. CASE ~ui.open
  <2>1. /\ ui' = [ui EXCEPT !.ledActive = FALSE, !.locating = FALSE, !.message = TRUE,
                            !.timer = TRUE]
        /\ calls' = (calls \ {h}) \union {r}
    BY <1>5 DEF DeviceD!Located, DeviceD!Cleanup, DeviceD!Announce, DeviceInv,
                DeviceD!TypeOK,
                r
  <2>2. calls' = {r}
    BY <1>2, <1>3, <1>5, <2>1 DEF DeviceInv, KnowsLight
  <2>3. /\ DeviceD!TypeOK' /\ DeviceD!MessageGoesAway'
        /\ OneOfAKind' /\ ButtonWaits' /\ KnowsLight'
    BY <1>1, <1>5, <2>1, <2>2 DEF DeviceInv, DeviceD!TypeOK, LightRequests,
                                  DeviceD!MessageGoesAway,
                                  OneOfAKind, ButtonWaits, LightAsked, KnowsLight
  <2>4. LightIsRemembered'
    BY <1>1, <2>1, <2>2 DEF LightIsRemembered, Remembered
  <2>5. QED
    BY <2>3, <2>4 DEF DeviceInv
<1>6. QED
  BY <1>4, <1>5

\* The answer to a request to put the light out.
LEMMA Clears ==
  ASSUME DeviceInv, NEW h \in calls, DeviceD!Cleared(h)
  PROVE  DeviceInv'
<1>1. h \in LightRequests /\ h.ask = "clear" /\ h.done /\ ~ui.lit
  BY DEF DeviceD!Cleared, DeviceD!Awaits, DeviceInv, DeviceD!TypeOK, LightRequests,
         LightIsRemembered
<1>2. /\ ui' = [ui EXCEPT !.ledActive = FALSE, !.locating = FALSE, !.message = TRUE,
                          !.timer = TRUE]
      /\ calls' = calls \ {h}
  BY DEF DeviceD!Cleared, DeviceD!Cleanup, DeviceD!Announce, DeviceInv, DeviceD!TypeOK
<1>3. \A c \in calls \ {h} : c.ask = "cleanup"
  BY <1>1 DEF DeviceInv, OneOfAKind
<1>4. /\ DeviceD!TypeOK' /\ DeviceD!MessageGoesAway'
      /\ OneOfAKind' /\ ButtonWaits' /\ KnowsLight'
  BY <1>2, <1>3 DEF DeviceInv, DeviceD!TypeOK, DeviceD!MessageGoesAway, OneOfAKind,
                    ButtonWaits, LightAsked, KnowsLight
<1>5. LightIsRemembered'
  BY <1>1, <1>2 DEF DeviceInv, DeviceD!TypeOK, LightIsRemembered
<1>6. QED
  BY <1>4, <1>5 DEF DeviceInv

\* The answer to a cleanup, which nobody waits for.
LEMMA CleansUp ==
  ASSUME DeviceInv, NEW h \in calls, DeviceD!CleanedUp(h)
  PROVE  DeviceInv'
<1>1. h.ask = "cleanup" /\ h.done /\ calls' = calls \ {h} /\ UNCHANGED ui
  BY LightAlone DEF DeviceD!CleanedUp, DeviceD!Awaits, DeviceD!Ends
<1>2. QED
  BY <1>1 DEF DeviceInv, DeviceD!TypeOK, DeviceD!MessageGoesAway, OneOfAKind,
              ButtonWaits,
              LightAsked, KnowsLight, LightIsRemembered, Remembered

\* A request that failed: from here on the dialog does not know the light.
LEMMA Fails ==
  ASSUME DeviceInv, NEW h \in calls, DeviceD!Failed(h)
  PROVE  DeviceInv'
<1>1. calls' = calls \ {h}
  BY LightAlone DEF DeviceD!Failed, DeviceD!Ends
<1>2. CASE h.ask = "cleanup"
  <2>1. ui' = [ui EXCEPT !.lost = TRUE]
    BY <1>2 DEF DeviceD!Failed
  <2>2. QED
    BY <1>1, <1>2, <2>1 DEF DeviceInv, DeviceD!TypeOK, DeviceD!MessageGoesAway,
                            OneOfAKind,
                            ButtonWaits, LightAsked, KnowsLight, LightIsRemembered
<1>3. CASE h.ask # "cleanup"
  <2>1. ui' = [ui EXCEPT !.lost = TRUE, !.locating = FALSE, !.message = TRUE, !.timer = TRUE]
    BY <1>3 DEF DeviceD!Failed, DeviceD!Announce, DeviceInv, DeviceD!TypeOK
  <2>2. \A c \in calls \ {h} : c.ask = "cleanup"
    BY <1>3 DEF DeviceInv, OneOfAKind
  <2>3. QED
    BY <1>1, <2>1, <2>2 DEF DeviceInv, DeviceD!TypeOK, DeviceD!MessageGoesAway,
                            OneOfAKind,
                            ButtonWaits, LightAsked, KnowsLight, LightIsRemembered
<1>4. QED
  BY <1>2, <1>3

\* Every step of the dialog keeps the invariant.
LEMMA DeviceSteps == DeviceInv /\ [DeviceD!Next]_vars => DeviceInv'
<1> SUFFICES ASSUME DeviceInv, [DeviceD!Next]_vars PROVE DeviceInv'
  OBVIOUS
<1>1. CASE UNCHANGED vars
  BY <1>1 DEF vars, DeviceInv, DeviceD!TypeOK, DeviceD!MessageGoesAway, OneOfAKind,
              ButtonWaits, LightAsked, KnowsLight, LightIsRemembered, Remembered
<1>2. CASE DeviceD!Next
  BY <1>2, Opens, Closes, Presses, Dismisses, Handles, Locates, Clears, CleansUp, Fails
     DEF DeviceD!Next
<1>3. QED
  BY <1>1, <1>2

\* So it holds whenever the dialog is there.
LEMMA DeviceAlways == Spec => [](page = "device" => DeviceInv)
<1>1. Init => (page = "device" => DeviceInv)
  BY DeviceInits DEF Init
<1>2. (page = "device" => DeviceInv) /\ [Next]_<<page, ui, calls>> => (page = "device" => DeviceInv)'
  BY DeviceSteps DEF Next, vars
<1>3. QED
  BY <1>1, <1>2, PTL DEF Spec

\* Its button waits for an answer that will come, its message for its timer.
LEMMA DeviceWaitsForAnswers == DeviceInv => DeviceD!NoSpinnerLeft /\ DeviceD!MessageGoesAway
BY DEF DeviceInv, ButtonWaits, LightAsked, DeviceD!NoSpinnerLeft

(***************************************************************************)
(* The theorems about DeviceDetailModal.                                   *)
(***************************************************************************)

\* State and requests have their types.
THEOREM DeviceTypesAreKept == Spec => [](page = "device" => DeviceD!TypeOK)
<1>1. (page = "device" => DeviceInv) => (page = "device" => DeviceD!TypeOK)
  BY DEF DeviceInv
<1>2. QED
  BY <1>1, DeviceAlways, PTL

\* A dialog that is closed leaves no light on, in whatever order the server
\* handles the requests and the dialog hears of them.
THEOREM ClosedLeavesNoLight == Spec => []LightGoesOut
<1>1. (page = "device" => DeviceInv) => LightGoesOut
  BY DEF DeviceInv, KnowsLight, LightIsRemembered, Remembered, DeviceD!TypeOK,
         LightGoesOut, DeviceD!LightGoesOut
<1>2. QED
  BY <1>1, DeviceAlways, PTL

(***************************************************************************)
(* ScanFieldModal.                                                         *)
(***************************************************************************)

\* The states of the dialog.
Dialog ==
  [open : BOOLEAN, method : Field!Methods, value : {Field!None, "typed", "scanned"},
   stream : 0 .. MaxStreams, frame : 0 .. MaxStreams, loops : SUBSET Field!Ids,
   abort : 0 .. MaxStreams, cameraError : BOOLEAN, nfcError : BOOLEAN,
   nfcReady : BOOLEAN, streams : SUBSET Field!Ids, readers : SUBSET Field!Ids]
\* What it asks of the browser.
FieldAsks == [ask : {"getUserMedia", "play", "detect", "scan"}, id : Field!Ids]

\* A camera that was asked for has one thing to come: the permission, the first
\* picture, the next frame or the end of a search.  So no request has a twin.
OneThingToCome ==
  /\ \A a, b \in calls : a.id = b.id /\ (a.ask = "scan" <=> b.ask = "scan") => a = b
  /\ \A a \in calls : a.ask # "scan" => a.id \notin ui.loops

\* The invariant that the steps of the dialog keep.
FieldInv ==
  /\ ui \in Dialog
  /\ calls \subseteq FieldAsks
  /\ OneThingToCome
  /\ Field!ReaderFollowsDialog

\* The dialog begins with it.
LEMMA FieldInits == Field!Init => FieldInv
BY ReadersAssumption DEF Field!Init, Field!Closed, FieldInv, Dialog, Field!Methods,
       Field!Ids, FieldAsks, OneThingToCome, Field!ReaderFollowsDialog

\* No request has a twin, so that one that ends is taken away itself.
LEMMA FieldAlone ==
  ASSUME FieldInv, NEW h \in calls
  PROVE  Field!Without(h) = calls \ {h}
<1>1. "again" \in DOMAIN Field!Again(h)
  BY DEF Field!Again
<1>2. \A c \in calls : "again" \notin DOMAIN c
  BY DEF FieldInv, FieldAsks
<1>3. Field!Again(h) \notin calls
  BY <1>1, <1>2
<1>4. QED
  BY <1>3 DEF Field!Without

\* A request that is in flight is there with the id it is known by.
LEMMA AskedFor ==
  ASSUME NEW what, NEW id, id \in Field!Asked(what), FieldInv
  PROVE  /\ Field!Ask(what, id) \in calls
         /\ Field!Ask(what, id).ask = what /\ Field!Ask(what, id).id = id
         /\ id \in Field!Ids
<1>1. PICK c \in calls : c.ask = what /\ c.id = id
  BY DEF Field!Asked
<1>2. c = Field!Ask(what, id) /\ id \in Field!Ids
  BY <1>1 DEF FieldInv, FieldAsks, Field!Ask
<1>3. QED
  BY <1>1, <1>2 DEF Field!Ask

\* Stopping a scanner, and what it leaves as it is.
LEMMA CameraStops ==
  ASSUME NEW u \in Dialog, MaxStreams \in Nat
  PROVE  /\ Field!StopCamera(u) \in Dialog
         /\ Field!StopCamera(u).loops \subseteq u.loops
         /\ \A f \in {"open", "method", "readers", "abort", "nfcReady"} :
              Field!StopCamera(u)[f] = u[f]
<1>1. 0 \in 0 .. MaxStreams
  OBVIOUS
<1>2. QED
  BY <1>1 DEF Field!StopCamera, Dialog

\* stopScanning of useNFCScanner ends the reader that it knows.
LEMMA NfcStops ==
  ASSUME NEW u \in Dialog, MaxStreams \in Nat
  PROVE  /\ Field!StopNfc(u) \in Dialog
         /\ Field!StopNfc(u).readers = u.readers \ {u.abort}
         /\ ~Field!StopNfc(u).nfcReady
         /\ \A f \in {"open", "method", "loops"} : Field!StopNfc(u)[f] = u[f]
<1>1. 0 \in 0 .. MaxStreams
  OBVIOUS
<1>2. QED
  BY <1>1 DEF Field!StopNfc, Dialog

\* What stopping the scanner of the method leaves of the dialog.
LEMMA Stops ==
  ASSUME NEW u \in Dialog, MaxStreams \in Nat
  PROVE  /\ Field!Stopped(u) \in Dialog
         /\ Field!Stopped(u).loops \subseteq u.loops
         /\ Field!Stopped(u).open = u.open /\ Field!Stopped(u).method = u.method
         /\ u.method # "nfc" =>
              Field!Stopped(u).readers = u.readers \ {u.abort} /\ ~Field!Stopped(u).nfcReady
         /\ u.method = "nfc" =>
              /\ Field!Stopped(u).readers = u.readers
              /\ Field!Stopped(u).abort = u.abort
              /\ Field!Stopped(u).nfcReady = u.nfcReady
<1>1. CASE u.method = "camera"
  BY <1>1, NfcStops DEF Field!Stopped
<1>2. CASE u.method = "nfc"
  BY <1>2, CameraStops DEF Field!Stopped
<1>3. CASE u.method \notin {"camera", "nfc"}
  <2> DEFINE c == Field!StopCamera(u)
  <2>1. c \in Dialog /\ c.loops \subseteq u.loops /\ c.open = u.open /\ c.method = u.method
        /\ c.readers = u.readers /\ c.abort = u.abort
    BY CameraStops
  <2>2. Field!Stopped(u) = Field!StopNfc(c)
    BY <1>3, <2>1 DEF Field!Stopped
  <2> HIDE DEF c
  <2>3. QED
    BY <1>3, <2>1, <2>2, NfcStops
<1>4. QED
  BY <1>1, <1>2, <1>3

(***************************************************************************)
(* The handlers.                                                           *)
(***************************************************************************)

\* A request for a camera of its own, or a reader of its own, begins.
LEMMA FieldAsking ==
  ASSUME NEW what \in {"getUserMedia", "play", "detect", "scan"}, NEW id \in Field!Ids,
         NEW others \in SUBSET FieldAsks, Field!Joins(Field!Ask(what, id), others),
         \A a, b \in others : a.id = b.id /\ (a.ask = "scan" <=> b.ask = "scan") => a = b,
         \A a \in others : a.ask # "scan" => a.id \notin ui'.loops,
         \A a \in others : a.id = id => (a.ask = "scan" /\ what # "scan")
                                        \/ (a.ask # "scan" /\ what = "scan"),
         what # "scan" => id \notin ui'.loops
  PROVE  (calls \subseteq FieldAsks)' /\ OneThingToCome'
<1> DEFINE r == Field!Ask(what, id)
<1>1. r \in FieldAsks /\ r.ask = what /\ r.id = id
  BY DEF Field!Ask, FieldAsks
<1>2. r \notin others
  BY <1>1
<1>3. calls' = others \union {r}
  BY <1>2 DEF Field!Joins
<1> HIDE DEF r
<1>4. QED
  BY <1>1, <1>3 DEF OneThingToCome

\* A request that was answered leaves room for what comes next.
LEMMA FieldAnswered ==
  ASSUME FieldInv, NEW what \in {"getUserMedia", "play", "detect", "scan"}, NEW id,
         id \in Field!Asked(what), Field!Ends(Field!Ask(what, id)),
         \/ ui'.loops \subseteq ui.loops
         \/ what # "scan" /\ ui'.loops \subseteq ui.loops \union {id}
  PROVE  (calls \subseteq FieldAsks)' /\ OneThingToCome'
<1>1. /\ Field!Ask(what, id) \in calls
      /\ Field!Ask(what, id).ask = what /\ Field!Ask(what, id).id = id
  BY AskedFor
<1>2. calls' = calls \ {Field!Ask(what, id)}
  BY <1>1, FieldAlone DEF Field!Ends
<1>3. \A a \in calls' : a.ask # "scan" /\ what # "scan" => a.id # id
  BY <1>1, <1>2 DEF FieldInv, OneThingToCome
<1>4. QED
  BY <1>2, <1>3 DEF FieldInv, OneThingToCome

(***************************************************************************)
(* The steps.                                                              *)
(***************************************************************************)
LEMMA FieldChoices ==
  ASSUME FieldInv,
         Field!Open \/ Field!Type \/ Field!TagRead \/ Field!Close
         \/ \E m \in {"keyboard"} \union Readers : Field!handleInputMethodChange(m)
  PROVE  FieldInv'
<1> USE ReadersAssumption
<1>0. ui \in Dialog /\ (\A i \in Field!Ids : i \in 0 .. MaxStreams)
  BY DEF FieldInv, Field!Ids
<1>1. CASE Field!Open
  BY <1>1 DEF Field!Open, FieldInv, Dialog, OneThingToCome, Field!ReaderFollowsDialog
<1>2. CASE Field!Type
  BY <1>2 DEF Field!Type, FieldInv, Dialog, OneThingToCome, Field!ReaderFollowsDialog
<1>3. CASE Field!TagRead
  <2>1. /\ UNCHANGED calls
        /\ \/ ui' = [ui EXCEPT !.nfcError = TRUE]
           \/ ui' = [ui EXCEPT !.value = "scanned"]
    BY <1>3 DEF Field!TagRead
  <2>2. ui' \in Dialog /\ ui'.loops = ui.loops
    BY <1>0, <2>1, ZenonT(60) DEF Dialog
  <2>3. ui'.open = ui.open /\ ui'.method = ui.method /\ ui'.readers = ui.readers
        /\ ui'.abort = ui.abort /\ ui'.nfcReady = ui.nfcReady
    BY <1>0, <2>1 DEF Dialog
  <2>4. QED
    BY <2>1, <2>2, <2>3 DEF FieldInv, OneThingToCome, Field!ReaderFollowsDialog
<1>4. CASE Field!Close
  <2> DEFINE u == [ui EXCEPT !.open = FALSE, !.method = "keyboard", !.value = Field!None]
  <2>1. /\ u \in Dialog /\ u.loops = ui.loops /\ u.method = "keyboard" /\ u.open = FALSE
        /\ u.readers = ui.readers /\ u.abort = ui.abort
    BY <1>0 DEF Dialog, Field!Methods
  <2>2. ui' = Field!Stopped(u) /\ UNCHANGED calls
    BY <1>4 DEF Field!Close
  <2> HIDE DEF u
  <2>3. ui' \in Dialog /\ ui'.loops \subseteq ui.loops /\ ui'.readers = {} /\ ~ui'.nfcReady
    BY <2>1, <2>2, Stops DEF FieldInv, Field!ReaderFollowsDialog
  <2>4. QED
    BY <2>2, <2>3 DEF FieldInv, OneThingToCome, Field!ReaderFollowsDialog
<1>5. CASE \E m \in {"keyboard"} \union Readers : Field!handleInputMethodChange(m)
  <2>1. PICK m \in {"keyboard"} \union Readers : Field!handleInputMethodChange(m)
    BY <1>5
  <2> DEFINE u == [ui EXCEPT !.method = m, !.value = Field!None]
             s == Field!Stopped(u)
  <2>2. /\ u \in Dialog /\ u.loops = ui.loops /\ u.method = m /\ u.open = ui.open
        /\ u.readers = ui.readers /\ u.abort = ui.abort /\ u.nfcReady = ui.nfcReady
    BY <1>0 DEF Dialog, Field!Methods
  <2>3. ui.open
    BY <2>1 DEF Field!handleInputMethodChange
  <2>4. CASE m = ui.method
    <3>1. ui' = u /\ UNCHANGED calls
      BY <2>1, <2>4 DEF Field!handleInputMethodChange
    <3> HIDE DEF u
    <3>2. QED
      BY <2>2, <2>4, <3>1 DEF FieldInv, OneThingToCome, Field!ReaderFollowsDialog
  <2>5. CASE m # ui.method
    <3>1. /\ s \in Dialog /\ s.loops \subseteq ui.loops /\ s.open /\ s.method = m
          /\ s.readers = {} /\ ~s.nfcReady
      <4> HIDE DEF u
      <4>1. QED
        BY <2>2, <2>3, <2>5, Stops DEF FieldInv, Field!ReaderFollowsDialog
    <3>2. \/ m = "camera" /\ Field!StartCamera(s)
          \/ m = "nfc" /\ Field!StartNfc(s)
          \/ m = "keyboard" /\ ui' = s /\ UNCHANGED calls
      BY <2>1, <2>5 DEF Field!handleInputMethodChange
    <3> HIDE DEF u, s
    <3>3. CASE m = "keyboard" /\ ui' = s /\ UNCHANGED calls
      BY <3>1, <3>3 DEF FieldInv, OneThingToCome, Field!ReaderFollowsDialog
    <3>4. CASE /\ ui' = [s EXCEPT !.cameraError = TRUE]
               /\ UNCHANGED calls
      BY <3>1, <3>4 DEF FieldInv, Dialog, OneThingToCome, Field!ReaderFollowsDialog
    <3>5. ASSUME NEW id \in Field!Ids \ Field!CamerasKnown(s),
                 Field!Begins(Field!Ask("getUserMedia", id)),
                 ui' = [s EXCEPT !.cameraError = FALSE]
          PROVE  FieldInv'
      <4>1. Field!Joins(Field!Ask("getUserMedia", id), calls)
        BY <3>5 DEF Field!Begins
      <4>2. ui' \in Dialog /\ ui'.loops = s.loops /\ Field!ReaderFollowsDialog'
        BY <3>1, <3>5 DEF Dialog, Field!ReaderFollowsDialog
      <4>3. id \notin s.loops
        BY <3>5 DEF Field!CamerasKnown
      <4>4. \A a \in calls : a.id = id => a.ask = "scan"
        BY <3>5 DEF Field!CamerasKnown, Field!Asked, FieldInv, FieldAsks
      <4>5. (calls \subseteq FieldAsks)' /\ OneThingToCome'
        <5>1. calls \in SUBSET FieldAsks
          BY DEF FieldInv
        <5>2. \A a, b \in calls :
                a.id = b.id /\ (a.ask = "scan" <=> b.ask = "scan") => a = b
          BY DEF FieldInv, OneThingToCome
        <5>3. \A a \in calls : a.ask # "scan" => a.id \notin ui'.loops
          BY <3>1, <4>2 DEF FieldInv, OneThingToCome
        <5>4. QED
          BY <4>1, <4>2, <4>3, <4>4, <5>1, <5>2, <5>3, FieldAsking
      <4>6. QED
        BY <4>2, <4>5 DEF FieldInv
    <3>6. CASE m = "nfc" /\ Field!StartNfc(s)
      <4>1. PICK id \in Field!Ids \ (s.readers \union Field!Asked("scan")) :
              /\ Field!Begins(Field!Ask("scan", id))
              /\ ui' = [s EXCEPT !.abort = id, !.nfcError = FALSE, !.readers = @ \union {id}]
        BY <3>6 DEF Field!StartNfc
      <4>2. Field!Joins(Field!Ask("scan", id), calls)
        BY <4>1 DEF Field!Begins
      <4>3. ui' \in Dialog /\ ui'.loops = s.loops
        BY <1>0, <3>1, <4>1 DEF Dialog
      <4>4. Field!ReaderFollowsDialog'
        BY <3>1, <3>6, <4>1 DEF Dialog, Field!ReaderFollowsDialog
      <4>5. \A a \in calls : a.id = id => a.ask # "scan"
        BY <4>1 DEF Field!Asked
      <4>6. (calls \subseteq FieldAsks)' /\ OneThingToCome'
        <5>1. calls \in SUBSET FieldAsks
          BY DEF FieldInv
        <5>2. \A a, b \in calls :
                a.id = b.id /\ (a.ask = "scan" <=> b.ask = "scan") => a = b
          BY DEF FieldInv, OneThingToCome
        <5>3. \A a \in calls : a.ask # "scan" => a.id \notin ui'.loops
          BY <3>1, <4>3 DEF FieldInv, OneThingToCome
        <5>4. QED
          BY <4>1, <4>2, <4>5, <5>1, <5>2, <5>3, FieldAsking
      <4>7. QED
        BY <4>3, <4>4, <4>6 DEF FieldInv
    <3>7. CASE m = "camera" /\ Field!StartCamera(s)
      BY <3>4, <3>5, <3>7 DEF Field!StartCamera
    <3>8. QED
      BY <3>2, <3>3, <3>6, <3>7
  <2>6. QED
    BY <2>4, <2>5
<1>6. QED
  BY <1>1, <1>2, <1>3, <1>4, <1>5

\* The browser goes on with a camera or a reader.
LEMMA BrowserSteps ==
  ASSUME FieldInv, Field!Browser
  PROVE  FieldInv'
<1> USE ReadersAssumption
<1>0. ui \in Dialog /\ (\A i \in Field!Ids : i \in 0 .. MaxStreams)
  BY DEF FieldInv, Field!Ids
<1>1. PICK id \in Field!Ids :
        \/ Field!Denied(id) \/ Field!Granted(id) \/ Field!Plays(id)
        \/ Field!PlayFails(id) \/ Field!Frame(id)
        \/ Field!Searched(id) \/ Field!ScanStarted(id) \/ Field!ScanRefused(id)
        \/ Field!ScanAborted(id)
  BY DEF Field!Browser
<1>2. CASE Field!Denied(id)
  <2>1. ui' \in Dialog /\ ui'.loops = ui.loops /\ Field!ReaderFollowsDialog'
    BY <1>0, <1>2 DEF Field!Denied, Dialog, FieldInv, Field!ReaderFollowsDialog
  <2>2. QED
    BY <1>2, <2>1, FieldAnswered DEF Field!Denied, FieldInv
<1>3. CASE Field!Granted(id)
  <2> DEFINE u == [ui EXCEPT !.streams = @ \union {id}, !.stream = id]
  <2>1. id \in Field!Asked("getUserMedia")
    BY <1>3 DEF Field!Granted
  <2>2. u \in Dialog /\ u.loops = ui.loops /\ u.readers = ui.readers
        /\ u.open = ui.open /\ u.method = ui.method /\ u.abort = ui.abort
        /\ u.nfcReady = ui.nfcReady
    BY <1>0 DEF Dialog
  <2>3. CASE Field!GoesOnAs(Field!Ask("getUserMedia", id), Field!Ask("play", id)) /\ ui' = u
    <3> HIDE DEF u
    <3> DEFINE h == Field!Ask("getUserMedia", id)
    <3>1. h \in calls /\ h.ask = "getUserMedia" /\ h.id = id
      BY <2>1, AskedFor
    <3>2. Field!Joins(Field!Ask("play", id), calls \ {h})
      BY <2>3, <3>1, FieldAlone DEF Field!GoesOnAs
    <3> HIDE DEF h
    <3>3. \A a \in calls \ {h} : a.id = id => a.ask = "scan"
      BY <3>1 DEF FieldInv, OneThingToCome
    <3>4. calls \ {h} \in SUBSET FieldAsks
      BY DEF FieldInv
    <3>5. \A a, b \in calls \ {h} :
            a.id = b.id /\ (a.ask = "scan" <=> b.ask = "scan") => a = b
      BY DEF FieldInv, OneThingToCome
    <3>6. \A a \in calls \ {h} : a.ask # "scan" => a.id \notin ui'.loops
      BY <2>2, <2>3 DEF FieldInv, OneThingToCome
    <3>7. id \notin ui'.loops
      BY <2>2, <2>3, <3>1 DEF FieldInv, OneThingToCome
    <3>8. (calls \subseteq FieldAsks)' /\ OneThingToCome'
      BY <3>2, <3>3, <3>4, <3>5, <3>6, <3>7, FieldAsking
    <3>9. QED
      BY <2>2, <2>3, <3>8 DEF FieldInv, Field!ReaderFollowsDialog
  <2>4. CASE Field!Ends(Field!Ask("getUserMedia", id)) /\ ui' = Field!Loops(u, id)
    <3>1. ui' \in Dialog /\ ui'.loops = ui.loops \union {id} /\ Field!ReaderFollowsDialog'
      <4> HIDE DEF u
      <4>1. QED
        BY <1>0, <2>2, <2>4, ZenonT(60) DEF Field!Loops, Dialog, FieldInv,
           Field!ReaderFollowsDialog
    <3>2. (calls \subseteq FieldAsks)' /\ OneThingToCome'
      BY <2>1, <2>4, <3>1, FieldAnswered
    <3>3. QED
      BY <3>1, <3>2 DEF FieldInv
  <2>5. QED
    BY <1>3, <2>3, <2>4 DEF Field!Granted
<1>4. CASE Field!Plays(id)
  <2>1. ui' \in Dialog /\ ui'.loops = ui.loops \union {id} /\ Field!ReaderFollowsDialog'
    BY <1>0, <1>4 DEF Field!Plays, Field!Loops, Dialog, FieldInv,
                      Field!ReaderFollowsDialog
  <2>2. QED
    BY <1>4, <2>1, FieldAnswered DEF Field!Plays, FieldInv
<1>5. CASE Field!PlayFails(id)
  <2> DEFINE c == Field!StopCamera(ui)
  <2>1. /\ c \in Dialog /\ c.loops \subseteq ui.loops /\ c.readers = ui.readers
        /\ c.open = ui.open /\ c.method = ui.method /\ c.abort = ui.abort
        /\ c.nfcReady = ui.nfcReady
    BY <1>0, CameraStops
  <2>2. ui' = [c EXCEPT !.cameraError = TRUE]
    BY <1>5 DEF Field!PlayFails
  <2> HIDE DEF c
  <2>3. ui' \in Dialog /\ ui'.loops \subseteq ui.loops /\ Field!ReaderFollowsDialog'
    BY <2>1, <2>2 DEF Dialog, FieldInv, Field!ReaderFollowsDialog
  <2>4. QED
    BY <1>5, <2>3, FieldAnswered DEF Field!PlayFails, FieldInv
<1>6. CASE Field!Frame(id)
  <2>1. id \in ui.loops /\ ui' = [ui EXCEPT !.loops = @ \ {id}]
    BY <1>6 DEF Field!Frame
  <2>2. ui' \in Dialog /\ ui'.loops = ui.loops \ {id} /\ Field!ReaderFollowsDialog'
    BY <1>0, <2>1 DEF Dialog, FieldInv, Field!ReaderFollowsDialog
  <2>3. CASE UNCHANGED calls
    BY <2>2, <2>3 DEF FieldInv, OneThingToCome
  <2>4. CASE Field!Joins(Field!Ask("detect", id), calls)
    <3>1. calls \in SUBSET FieldAsks /\ id \notin ui'.loops
      BY <2>2 DEF FieldInv
    <3>2. /\ \A a, b \in calls :
               a.id = b.id /\ (a.ask = "scan" <=> b.ask = "scan") => a = b
          /\ \A a \in calls : a.ask # "scan" => a.id \notin ui'.loops
          /\ \A a \in calls : a.id = id => a.ask = "scan"
      BY <2>1, <2>2 DEF FieldInv, OneThingToCome
    <3>3. (calls \subseteq FieldAsks)' /\ OneThingToCome'
      BY <2>4, <3>1, <3>2, FieldAsking
    <3>4. QED
      BY <2>2, <3>3 DEF FieldInv
  <2>5. QED
    BY <1>6, <2>3, <2>4 DEF Field!Frame
<1>7. CASE Field!Searched(id)
  <2>1. PICK v \in {ui.value, "scanned"} : ui' = [Field!Loops(ui, id) EXCEPT !.value = v]
    BY <1>7 DEF Field!Searched
  <2>2. ui' \in Dialog /\ ui'.loops = ui.loops \union {id} /\ Field!ReaderFollowsDialog'
    BY <1>0, <2>1 DEF Field!Loops, Dialog, FieldInv, Field!ReaderFollowsDialog
  <2>3. QED
    BY <1>7, <2>2, FieldAnswered DEF Field!Searched, FieldInv
<1>8. CASE Field!ScanStarted(id)
  <2>1. ui' \in Dialog /\ ui'.loops = ui.loops /\ Field!ReaderFollowsDialog'
    BY <1>0, <1>8 DEF Field!ScanStarted, Dialog, FieldInv, Field!ReaderFollowsDialog
  <2>2. QED
    BY <1>8, <2>1, FieldAnswered DEF Field!ScanStarted, FieldInv
<1>9. CASE Field!ScanRefused(id)
  <2>1. ui' \in Dialog /\ ui'.loops = ui.loops /\ Field!ReaderFollowsDialog'
    BY <1>0, <1>9 DEF Field!ScanRefused, Dialog, FieldInv, Field!ReaderFollowsDialog
  <2>2. QED
    BY <1>9, <2>1, FieldAnswered DEF Field!ScanRefused, FieldInv
<1>10. CASE Field!ScanAborted(id)
  <2>1. ui' \in Dialog /\ ui'.loops = ui.loops /\ Field!ReaderFollowsDialog'
    BY <1>0, <1>10 DEF Field!ScanAborted, FieldInv, Field!ReaderFollowsDialog
  <2>2. QED
    BY <1>10, <2>1, FieldAnswered DEF Field!ScanAborted, FieldInv
<1>11. QED
  BY <1>1, <1>2, <1>3, <1>4, <1>5, <1>6, <1>7, <1>8, <1>9, <1>10

\* Every step of dialog and browser keeps the invariant.
LEMMA FieldSteps == FieldInv /\ [Field!Next]_vars => FieldInv'
<1> SUFFICES ASSUME FieldInv, [Field!Next]_vars PROVE FieldInv'
  OBVIOUS
<1>1. CASE UNCHANGED vars
  BY <1>1 DEF vars, FieldInv, OneThingToCome, Field!ReaderFollowsDialog
<1>2. CASE Field!Next
  BY <1>2, FieldChoices, BrowserSteps DEF Field!Next
<1>3. QED
  BY <1>1, <1>2

\* So it holds whenever the dialog is there.
LEMMA FieldAlways == Spec => [](page = "scanField" => FieldInv)
<1>1. Init => (page = "scanField" => FieldInv)
  BY FieldInits DEF Init
<1>2. (page = "scanField" => FieldInv) /\ [Next]_<<page, ui, calls>>
        => (page = "scanField" => FieldInv)'
  BY FieldSteps DEF Next, vars
<1>3. QED
  BY <1>1, <1>2, PTL DEF Spec

(***************************************************************************)
(* The theorems about ScanFieldModal.                                      *)
(***************************************************************************)

\* State and requests have their types.
THEOREM FieldTypesAreKept == Spec => [](page = "scanField" => Field!TypeOK)
<1>1. (page = "scanField" => FieldInv) => (page = "scanField" => Field!TypeOK)
  BY DEF FieldInv, Dialog, FieldAsks, Field!TypeOK
<1>2. QED
  BY <1>1, FieldAlways, PTL

\* However often the dialog is closed or switched while a scan is being started,
\* one reader at most listens, and only to the open dialog.
THEOREM ReadersListenToTheDialog == Spec => []ReaderFollowsDialog
<1>1. (page = "scanField" => FieldInv) => ReaderFollowsDialog
  BY DEF FieldInv, ReaderFollowsDialog
<1>2. QED
  BY <1>1, FieldAlways, PTL

(***************************************************************************)
(* The tree of devices: categories, subcategories and product groups, where*)
(* devices hang at any of the three.                                       *)
(***************************************************************************)

\* The tree, as both pages with it read it.
Tree == INSTANCE DevicePlaces

\* The lengths of the nodes.
LEMMA OneToThree ==
  ASSUME NEW l \in 1 .. 3
  PROVE  l \in Nat /\ l <= 3 /\ (l = 1 \/ l = 2 \/ l = 3)
OBVIOUS

\* The beginning of a sequence, and the beginning of that.
LEMMA Beginnings ==
  ASSUME NEW X, NEW s \in Seq(X), NEW k \in 0 .. Len(s)
  PROVE  /\ SubSeq(s, 1, k) \in Seq(X) /\ Len(SubSeq(s, 1, k)) = k
         /\ \A j \in 0 .. k : SubSeq(SubSeq(s, 1, k), 1, j) = SubSeq(s, 1, j)
         /\ k = Len(s) => SubSeq(s, 1, k) = s
<1>0. Len(s) \in Nat /\ k \in Nat /\ k <= Len(s) /\ \A i \in 1 .. Len(s) : s[i] \in X
  BY LenProperties, ElementOfSeq
<1>1. ASSUME NEW j \in 0 .. k
      PROVE  /\ SubSeq(s, 1, j) \in Seq(X) /\ Len(SubSeq(s, 1, j)) = j
             /\ \A i \in 1 .. j : SubSeq(s, 1, j)[i] = s[i]
  <2>1. \A i \in 1 .. j : s[i] \in X
    BY <1>0
  <2>2. /\ SubSeq(s, 1, j) \in Seq(X)
        /\ Len(SubSeq(s, 1, j)) = IF 1 <= j THEN j - 1 + 1 ELSE 0
        /\ \A i \in 1 .. j - 1 + 1 : SubSeq(s, 1, j)[i] = s[1 + i - 1]
    BY <1>0, <2>1, SubSeqProperties
  <2>3. j - 1 + 1 = j /\ \A i \in 1 .. j : 1 + i - 1 = i
    BY <1>0
  <2>4. QED
    BY <1>0, <2>2, <2>3
<1> DEFINE t == SubSeq(s, 1, k)
<1>2. t \in Seq(X) /\ Len(t) = k /\ \A i \in 1 .. k : t[i] = s[i]
  BY <1>0, <1>1
<1>3. ASSUME NEW j \in 0 .. k PROVE SubSeq(t, 1, j) = SubSeq(s, 1, j)
  <2>1. \A i \in 1 .. j : t[i] \in X /\ t[i] = s[i]
    BY <1>0, <1>2
  <2> HIDE DEF t
  <2>2. /\ SubSeq(t, 1, j) \in Seq(X)
        /\ Len(SubSeq(t, 1, j)) = IF 1 <= j THEN j - 1 + 1 ELSE 0
        /\ \A i \in 1 .. j - 1 + 1 : SubSeq(t, 1, j)[i] = t[1 + i - 1]
    BY <1>0, <2>1, SubSeqProperties
  <2>3. j - 1 + 1 = j /\ \A i \in 1 .. j : 1 + i - 1 = i
    BY <1>0
  <2>4. Len(SubSeq(t, 1, j)) = j /\ \A i \in 1 .. j : SubSeq(t, 1, j)[i] = SubSeq(s, 1, j)[i]
    BY <1>0, <1>1, <2>1, <2>2, <2>3
  <2>5. QED
    BY <1>1, <2>2, <2>4, SeqEqual
<1>4. k = Len(s) => t = s
  BY <1>2, SeqEqual
<1>5. QED
  BY <1>2, <1>3, <1>4

\* What a node is: a beginning of a place.
LEMMA NodeIs ==
  ASSUME NEW n \in Tree!Nodes
  PROVE  /\ Len(n) \in 1 .. 3
         /\ \E X : n \in Seq(X)
         /\ Tree!Path(n) \subseteq Tree!Nodes
<1>1. PICK p \in Places : n \in Tree!Path(p)
  BY DEF Tree!Nodes
<1>2. PICK k \in 1 .. Len(p) : n = SubSeq(p, 1, k)
  BY <1>1 DEF Tree!Path
<1> DEFINE X == {p[i] : i \in DOMAIN p}
<1>3. p \in Seq(X) /\ Len(p) \in 1 .. 3
  BY TreeAssumption
<1> HIDE DEF X
<1>4. k \in 0 .. Len(p) /\ k \in 1 .. 3
  <2>1. Len(p) \in Nat /\ Len(p) <= 3
    BY <1>3, OneToThree
  <2>2. QED
    BY <2>1
<1>5. /\ n \in Seq(X) /\ Len(n) = k
      /\ \A j \in 0 .. k : SubSeq(n, 1, j) = SubSeq(p, 1, j)
  BY <1>2, <1>3, <1>4, Beginnings
<1>6. ASSUME NEW m \in Tree!Path(n) PROVE m \in Tree!Path(p)
  <2>1. PICK j \in 1 .. Len(n) : m = SubSeq(n, 1, j)
    BY DEF Tree!Path
  <2>2. j \in 1 .. Len(p) /\ m = SubSeq(p, 1, j)
    BY <1>3, <1>4, <1>5, <2>1
  <2>3. QED
    BY <2>2 DEF Tree!Path
<1>7. QED
  BY <1>4, <1>5, <1>6 DEF Tree!Nodes

\* The nodes above a node and the node itself: one of each length, each with
\* the shorter ones above it.
LEMMA PathIs ==
  ASSUME NEW n \in Tree!Nodes
  PROVE  /\ n \in Tree!Path(n)
         /\ \A m \in Tree!Path(n) : Len(m) \in 1 .. Len(n)
         /\ \A k \in 1 .. Len(n) : \E m \in Tree!Path(n) : Len(m) = k
         /\ \A m, l \in Tree!Path(n) : Len(l) <= Len(m) => l \in Tree!Path(m)
         /\ \A m, l \in Tree!Path(n) : Len(l) = Len(m) => l = m
         /\ \A m \in Tree!Path(n) : Tree!Path(m) \subseteq Tree!Path(n)
<1>1. PICK X : n \in Seq(X)
  BY NodeIs
<1>2. Len(n) \in 1 .. 3
  BY NodeIs
<1>3. ASSUME NEW k \in 1 .. Len(n)
      PROVE  /\ Len(SubSeq(n, 1, k)) = k
             /\ \A j \in 1 .. k : SubSeq(SubSeq(n, 1, k), 1, j) = SubSeq(n, 1, j)
             /\ k = Len(n) => SubSeq(n, 1, k) = n
  <2>1. k \in 0 .. Len(n)
    BY <1>2
  <2>2. QED
    BY <1>1, <1>2, <2>1, Beginnings
<1>4. \A k \in 1 .. Len(n) : \A j \in 1 .. k : j \in 1 .. Len(n)
  BY <1>2
<1>5. Len(n) \in 1 .. Len(n)
  BY <1>2
<1>6. \A m \in Tree!Path(n) : Len(m) \in 1 .. Len(n) /\ m = SubSeq(n, 1, Len(m))
  BY <1>3 DEF Tree!Path
<1>7. \A k \in 1 .. Len(n) : SubSeq(n, 1, k) \in Tree!Path(n)
  BY DEF Tree!Path
<1>8. ASSUME NEW m \in Tree!Path(n), NEW l \in Tree!Path(n), Len(l) <= Len(m)
      PROVE  l \in Tree!Path(m)
  <2>1. Len(l) \in 1 .. Len(m)
    BY <1>2, <1>6, <1>8
  <2>2. SubSeq(m, 1, Len(l)) = l
    BY <1>3, <1>6, <2>1
  <2>3. QED
    BY <2>1, <2>2 DEF Tree!Path
<1>9. ASSUME NEW m \in Tree!Path(n), NEW l \in Tree!Path(m) PROVE l \in Tree!Path(n)
  <2>1. PICK j \in 1 .. Len(m) : l = SubSeq(m, 1, j)
    BY DEF Tree!Path
  <2>2. j \in 1 .. Len(n) /\ l = SubSeq(n, 1, j)
    BY <1>3, <1>4, <1>6, <2>1, SMTT(60)
  <2>3. QED
    BY <1>7, <2>2
<1>10. QED
  BY <1>3, <1>5, <1>6, <1>7, <1>8, <1>9

\* Places are nodes.
LEMMA PlacesAreNodes == Places \subseteq Tree!Nodes
<1>1. SUFFICES ASSUME NEW p \in Places PROVE p \in Tree!Path(p)
  BY DEF Tree!Nodes
<1> DEFINE X == {p[i] : i \in DOMAIN p}
<1>2. p \in Seq(X) /\ Len(p) \in 1 .. 3
  BY TreeAssumption
<1> HIDE DEF X
<1>3. Len(p) \in 0 .. Len(p) /\ Len(p) \in 1 .. Len(p)
  BY <1>2, SMTT(60)
<1>4. SubSeq(p, 1, Len(p)) = p
  BY <1>2, <1>3, Beginnings
<1>5. QED
  BY <1>3, <1>4 DEF Tree!Path

\* There are finitely many of them.
LEMMA NodesAreFinite == IsFiniteSet(Tree!Nodes)
<1> DEFINE pairs == {q \in Places \X (1 .. 3) : q[2] <= Len(q[1])}
           node == [q \in pairs |-> SubSeq(q[1], 1, q[2])]
<1>1. IsFiniteSet(pairs)
  <2>1. IsFiniteSet(1 .. 3)
    <3>1. PICK n \in Int : n = 3
      OBVIOUS
    <3>2. IsFiniteSet(1 .. n)
      BY FS_Interval
    <3>3. QED
      BY <3>1, <3>2, Zenon
  <2>2. IsFiniteSet(Places \X (1 .. 3))
    BY <2>1, TreeAssumption, FS_Product
  <2>3. QED
    BY <2>2, FS_Subset
<1>2. node \in Surjection(pairs, Tree!Nodes)
  <2>1. ASSUME NEW q \in pairs PROVE node[q] \in Tree!Nodes
    <3>1. q[1] \in Places /\ q[2] \in 1 .. Len(q[1])
      BY TreeAssumption
    <3>2. QED
      BY <3>1 DEF Tree!Nodes, Tree!Path
  <2>2. ASSUME NEW n \in Tree!Nodes PROVE \E q \in pairs : node[q] = n
    <3>1. PICK p \in Places : n \in Tree!Path(p)
      BY DEF Tree!Nodes
    <3>2. PICK k \in 1 .. Len(p) : n = SubSeq(p, 1, k)
      BY <3>1 DEF Tree!Path
    <3>3. Len(p) \in 1 .. 3
      BY TreeAssumption
    <3>4. k \in 1 .. 3 /\ k <= Len(p)
      <4>1. Len(p) \in Nat /\ Len(p) <= 3
        BY <3>3, OneToThree
      <4>2. QED
        BY <4>1
    <3>5. <<p, k>> \in pairs
      BY <3>4
    <3>6. node[<<p, k>>] = n
      BY <3>2, <3>5
    <3>7. QED
      BY <3>5, <3>6
  <2>3. node \in [pairs -> Tree!Nodes]
    BY <2>1
  <2> HIDE DEF node, pairs
  <2>4. QED
    BY <2>2, <2>3 DEF Surjection
<1> HIDE DEF node, pairs
<1>3. QED
  BY <1>1, <1>2, FS_Surjection

\* The nodes of a level are those of that length.
LEMMA LevelIs == \A n : Tree!Level(n) = {node \in Tree!Nodes : Len(node) = n}
<1>1. SUFFICES ASSUME NEW n PROVE Tree!Level(n) = {node \in Tree!Nodes : Len(node) = n}
  OBVIOUS
<1>2. ASSUME NEW p \in Places, NEW k \in 1 .. Len(p)
      PROVE  SubSeq(p, 1, k) \in Tree!Nodes /\ Len(SubSeq(p, 1, k)) = k
  <2> DEFINE X == {p[i] : i \in DOMAIN p}
  <2>1. p \in Seq(X) /\ Len(p) \in 1 .. 3
    BY TreeAssumption
  <2> HIDE DEF X
  <2>2. k \in 0 .. Len(p)
    BY <2>1
  <2>3. Len(SubSeq(p, 1, k)) = k
    BY <2>1, <2>2, Beginnings
  <2>4. SubSeq(p, 1, k) \in Tree!Nodes
    BY DEF Tree!Nodes, Tree!Path
  <2>5. QED
    BY <2>3, <2>4
<1>3. ASSUME NEW node \in Tree!Level(n) PROVE node \in Tree!Nodes /\ Len(node) = n
  BY <1>2 DEF Tree!Level
<1>4. ASSUME NEW node \in Tree!Nodes, Len(node) = n PROVE node \in Tree!Level(n)
  <2>1. PICK p \in Places : node \in Tree!Path(p)
    BY DEF Tree!Nodes
  <2>2. PICK k \in 1 .. Len(p) : node = SubSeq(p, 1, k)
    BY <2>1 DEF Tree!Path
  <2>3. k = n
    BY <1>2, <1>4, <2>2
  <2>4. QED
    BY <2>2, <2>3 DEF Tree!Level
<1>5. QED
  BY <1>3, <1>4

\* The children of a node are one level below it.
LEMMA ChildrenIs ==
  \A node : Tree!Children(node) =
              {n \in Tree!Nodes : Len(n) = Len(node) + 1 /\ node \in Tree!Path(n)}
BY LevelIs DEF Tree!Children

\* How many levels there can be between two nodes.
LEMMA Levels ==
  ASSUME NEW k \in 1 .. 3, NEW l \in 1 .. 3
  PROVE  /\ k <= l => k = l \/ l = k + 1 \/ (k = 1 /\ l = 3)
         /\ l = k + 1 <=> (k = 1 /\ l = 2) \/ (k = 2 /\ l = 3)
OBVIOUS

\* How long the way down from a node of a path to its end can be.
LEMMA WayDown ==
  ASSUME NEW p \in Tree!Nodes, NEW node \in Tree!Path(p)
  PROVE  /\ node \in Tree!Nodes /\ Len(node) \in 1 .. 3 /\ Len(p) \in 1 .. 3
         /\ \/ node = p
            \/ p \in Tree!Children(node) /\ Len(p) = Len(node) + 1
            \/ /\ Len(node) = 1 /\ Len(p) = 3
               /\ \E m \in Tree!Path(p) : /\ m \in Tree!Children(node) /\ Len(m) = 2
                                          /\ p \in Tree!Children(m)
<1>1. node \in Tree!Nodes /\ Len(node) \in 1 .. 3 /\ Len(p) \in 1 .. 3
  BY NodeIs
<1>2. Len(node) \in 1 .. Len(p) /\ p \in Tree!Path(p)
  BY PathIs
<1>3. \A m \in Tree!Path(p) : /\ m \in Tree!Nodes
                              /\ Len(node) <= Len(m) => node \in Tree!Path(m)
  BY NodeIs, PathIs
<1>4. CASE Len(node) = Len(p)
  BY <1>1, <1>2, <1>4, PathIs
<1>5. CASE Len(p) = Len(node) + 1
  BY <1>1, <1>5, ChildrenIs
<1>6. CASE Len(node) = 1 /\ Len(p) = 3
  <2>1. PICK m \in Tree!Path(p) : Len(m) = 2
    <3>1. 2 \in 1 .. Len(p)
      BY <1>6
    <3>2. QED
      BY <3>1, PathIs
  <2>2. /\ Len(m) = Len(node) + 1 /\ Len(p) = Len(m) + 1
        /\ m \in Tree!Nodes /\ node \in Tree!Path(m)
    BY <1>3, <1>6, <2>1
  <2>3. m \in Tree!Children(node)
    BY <2>2, ChildrenIs
  <2>4. p \in Tree!Children(m)
    BY <2>1, <2>2, ChildrenIs
  <2>5. QED
    BY <1>1, <1>6, <2>1, <2>3, <2>4
<1>7. QED
  <2>1. Len(node) <= Len(p)
    BY <1>2
  <2>2. Len(node) = Len(p) \/ Len(p) = Len(node) + 1 \/ (Len(node) = 1 /\ Len(p) = 3)
    BY <1>1, <2>1, Levels
  <2>3. QED
    BY <1>4, <1>5, <1>6, <2>2

(***************************************************************************)
(* The search of the dialog with the tree.                                 *)
(***************************************************************************)

\* The dialog with the tree, as every step leaves it (WebClientWaitProofs).
TreeDUi ==
  [open : BOOLEAN, tree : TreeD!Trees, loading : BOOLEAN, searching : BOOLEAN,
   query : SUBSET Devices, selected : SUBSET Devices, expanded : SUBSET TreeD!Nodes]

\* Its nodes are those of the tree.
LEMMA TreeDNodes ==
  /\ TreeD!Nodes = Tree!Nodes
  /\ \A n : /\ TreeD!Path(n) = Tree!Path(n) /\ TreeD!Level(n) = Tree!Level(n)
            /\ TreeD!Children(n) = Tree!Children(n)
<1>1. \A n : TreeD!Path(n) = Tree!Path(n)
  BY DEF TreeD!Path, Tree!Path
<1>2. TreeD!Nodes = Tree!Nodes
  BY <1>1 DEF TreeD!Nodes, Tree!Nodes
<1>3. \A n : TreeD!Level(n) = Tree!Level(n)
  BY DEF TreeD!Level, Tree!Level
<1>4. \A n : TreeD!Children(n) = Tree!Children(n)
  BY <1>1, <1>3 DEF TreeD!Children, Tree!Children
<1>5. QED
  BY <1>1, <1>2, <1>3, <1>4

\* A search in the dialog opens and shows all that is above what it finds.
LEMMA DialogShowsMatches ==
  ASSUME ui \in TreeDUi, ui.searching, NEW d \in TreeD!matchingDeviceIds,
         NEW node \in Tree!Path(ui.tree[d])
  PROVE  TreeD!VisibleNode(node) /\ node \in TreeD!effectiveExpanded
<1> DEFINE p == ui.tree[d]
           groups == {g \in TreeD!Level(3) : TreeD!HasMatch(g)}
           subs == {s \in TreeD!Level(2) :
                      TreeD!HasMatch(s) \/ TreeD!Children(s) \intersect groups # {}}
           cats == {c \in TreeD!Level(1) :
                      TreeD!HasMatch(c) \/ TreeD!Children(c) \intersect subs # {}}
<1>1. d \in DOMAIN ui.tree /\ p \in Places
  <2>1. d \in DOMAIN ui.tree
    BY DEF TreeD!matchingDeviceIds
  <2>2. PICK D \in SUBSET Devices : ui.tree \in [D -> Places]
    BY DEF TreeDUi, TreeD!Trees
  <2>3. QED
    BY <2>1, <2>2
<1>2. TreeD!HasMatch(p)
  BY <1>1 DEF TreeD!HasMatch, TreeD!At
<1>3. p \in Tree!Nodes
  BY <1>1, PlacesAreNodes
<1>4. TreeD!effectiveExpanded = ui.expanded \union (groups \union subs \union cats)
  BY DEF TreeD!effectiveExpanded, TreeD!searchExpandedNodes
<1> HIDE DEF p
<1>5. node \in Tree!Path(p)
  BY DEF p
<1>6. /\ node \in Tree!Nodes /\ Len(node) \in 1 .. 3 /\ Len(p) \in 1 .. 3
      /\ \/ node = p
         \/ p \in Tree!Children(node) /\ Len(p) = Len(node) + 1
         \/ /\ Len(node) = 1 /\ Len(p) = 3
            /\ \E m \in Tree!Path(p) : /\ m \in Tree!Children(node) /\ Len(m) = 2
                                       /\ p \in Tree!Children(m)
  BY <1>3, <1>5, WayDown
<1>7. /\ Len(p) = 1 \/ Len(p) = 2 \/ Len(p) = 3
      /\ Len(node) = 1 \/ Len(node) = 2 \/ Len(node) = 3
  BY <1>6, OneToThree
<1>8. \A n \in Tree!Nodes : \A k : Len(n) = k => n \in TreeD!Level(k)
  BY TreeDNodes, LevelIs
<1>9. CASE node = p
  <2>1. TreeD!VisibleNode(node)
    BY <1>2, <1>9 DEF TreeD!VisibleNode
  <2>2. p \in groups \union subs \union cats
    BY <1>2, <1>3, <1>7, <1>8
  <2>3. QED
    BY <1>4, <1>9, <2>1, <2>2
<1>10. CASE p \in Tree!Children(node) /\ Len(p) = Len(node) + 1
  <2>1. p \in TreeD!Children(node)
    BY <1>10, TreeDNodes
  <2>2. TreeD!VisibleNode(node)
    BY <1>2, <2>1 DEF TreeD!VisibleNode
  <2>0. (Len(node) = 1 /\ Len(p) = 2) \/ (Len(node) = 2 /\ Len(p) = 3)
    BY <1>6, <1>10, Levels
  <2>3. CASE Len(node) = 1 /\ Len(p) = 2
    <3>1. p \in subs
      BY <1>2, <1>3, <1>8, <2>3
    <3>2. node \in cats
      BY <1>6, <1>8, <2>1, <2>3, <3>1
    <3>3. QED
      BY <1>4, <2>2, <3>2
  <2>4. CASE Len(node) = 2 /\ Len(p) = 3
    <3>1. p \in groups
      BY <1>2, <1>3, <1>8, <2>4
    <3>2. node \in subs
      BY <1>6, <1>8, <2>1, <2>4, <3>1
    <3>3. QED
      BY <1>4, <2>2, <3>2
  <2>5. QED
    BY <2>0, <2>3, <2>4
<1>11. CASE /\ Len(node) = 1 /\ Len(p) = 3
            /\ \E m \in Tree!Path(p) : /\ m \in Tree!Children(node) /\ Len(m) = 2
                                       /\ p \in Tree!Children(m)
  <2>1. PICK m \in Tree!Path(p) : /\ m \in Tree!Children(node) /\ Len(m) = 2
                                  /\ p \in Tree!Children(m)
    BY <1>11
  <2>2. m \in TreeD!Children(node) /\ p \in TreeD!Children(m) /\ m \in Tree!Nodes
    BY <1>3, <2>1, TreeDNodes, NodeIs
  <2>3. TreeD!VisibleNode(node)
    BY <1>2, <2>2 DEF TreeD!VisibleNode
  <2>4. p \in groups
    BY <1>2, <1>3, <1>8, <1>11
  <2>5. m \in subs
    BY <1>8, <2>1, <2>2, <2>4
  <2>6. node \in cats
    BY <1>6, <1>8, <1>11, <2>2, <2>5
  <2>7. QED
    BY <1>4, <2>3, <2>6
<1>12. QED
  BY <1>6, <1>9, <1>10, <1>11

\* And nothing else.
LEMMA DialogShowsTheMatches ==
  ui \in TreeDUi => TreeD!EveryMatchIsShown
<1> SUFFICES ASSUME ui \in TreeDUi, ui.searching
             PROVE  TreeD!VisibleDevices = TreeD!matchingDeviceIds
  BY DEF TreeD!EveryMatchIsShown
<1>1. TreeD!VisibleDevices \subseteq TreeD!matchingDeviceIds
  BY DEF TreeD!VisibleDevices
<1>2. ASSUME NEW d \in TreeD!matchingDeviceIds PROVE d \in TreeD!VisibleDevices
  <2>1. d \in DOMAIN ui.tree
    BY DEF TreeD!matchingDeviceIds
  <2>2. \A node \in TreeD!Path(ui.tree[d]) :
          TreeD!VisibleNode(node) /\ node \in TreeD!effectiveExpanded
    BY DialogShowsMatches, TreeDNodes
  <2>3. QED
    BY <2>1, <2>2 DEF TreeD!VisibleDevices
<1>3. QED
  BY <1>1, <1>2

(***************************************************************************)
(* The search of the tab with the tree: what it keeps, what it opens and what*)
(* it counts.                                                              *)
(***************************************************************************)

\* The tab with the tree, as every step leaves it (WebClientWaitProofs).
TreeTUi ==
  [tree : TreeT!Trees, treeLoading : BOOLEAN, deviceLoading : BOOLEAN, searching : BOOLEAN,
   term : [named : SUBSET TreeT!Nodes, finds : SUBSET Devices],
   expanded : SUBSET TreeT!Nodes, detailOpen : BOOLEAN, productOpen : BOOLEAN,
   message : BOOLEAN, timer : BOOLEAN]

\* Its nodes are those of the tree.
LEMMA TreeTNodes ==
  /\ TreeT!Nodes = Tree!Nodes
  /\ \A n : /\ TreeT!Path(n) = Tree!Path(n) /\ TreeT!Level(n) = Tree!Level(n)
            /\ TreeT!Children(n) = Tree!Children(n)
<1>1. \A n : TreeT!Path(n) = Tree!Path(n)
  BY DEF TreeT!Path, Tree!Path
<1>2. TreeT!Nodes = Tree!Nodes
  BY <1>1 DEF TreeT!Nodes, Tree!Nodes
<1>3. \A n : TreeT!Level(n) = Tree!Level(n)
  BY DEF TreeT!Level, Tree!Level
<1>4. \A n : TreeT!Children(n) = Tree!Children(n)
  BY <1>1, <1>3 DEF TreeT!Children, Tree!Children
<1>5. QED
  BY <1>1, <1>2, <1>3, <1>4

\* The devices that the search keeps for a node itself, for a subcategory and
\* what is in it, and for a category and what is in it (filteredTree).
Under ==
  [n \in TreeT!Nodes |->
     IF TreeT!Named(n) THEN TreeT!Below(ui.tree, n) ELSE TreeT!Matches(n)]

UnderSub ==
  [s \in TreeT!Level(2) |->
     Under[s] \union IF TreeT!Named(s) THEN {}
                     ELSE UNION {Under[g] : g \in TreeT!Children(s) \intersect TreeT!Kept}]

UnderCat ==
  [c \in TreeT!Level(1) |->
     Under[c] \union IF TreeT!Named(c) THEN {}
                     ELSE UNION {UnderSub[s] : s \in TreeT!Children(c) \intersect TreeT!Kept}]

\* The search keeps what it keeps for the categories.
LEMMA KeptByCategory ==
  ui.searching =>
    TreeT!filteredTree = UNION {UnderCat[c] : c \in TreeT!Level(1) \intersect TreeT!Kept}
BY DEF TreeT!filteredTree, UnderCat, UnderSub, Under

\* Devices hang at nodes.
LEMMA DevicesHangAtNodes ==
  ASSUME ui \in TreeTUi
  PROVE  /\ DOMAIN ui.tree \subseteq Devices
         /\ \A d \in DOMAIN ui.tree : /\ ui.tree[d] \in Places
                                      /\ ui.tree[d] \in Tree!Nodes
<1>1. PICK D \in SUBSET Devices : ui.tree \in [D -> Places]
  BY DEF TreeTUi, TreeT!Trees
<1>2. QED
  BY <1>1, PlacesAreNodes

\* What is kept for a node itself: all below it when it is found by its name,
\* else the devices at it that are found.
LEMMA UnderIs ==
  ASSUME ui \in TreeTUi, NEW n \in Tree!Nodes
  PROVE  Under[n] = {d \in DOMAIN ui.tree :
                       /\ n \in Tree!Path(ui.tree[d])
                       /\ n \in ui.term.named \/ (ui.tree[d] = n /\ d \in ui.term.finds)}
<1>1. Under[n] = IF n \in ui.term.named
                 THEN {d \in DOMAIN ui.tree : n \in Tree!Path(ui.tree[d])}
                 ELSE {d \in DOMAIN ui.tree : ui.tree[d] = n} \intersect ui.term.finds
  BY TreeTNodes DEF Under, TreeT!Named, TreeT!Below, TreeT!Matches, TreeT!At
<1>2. n \in Tree!Path(n)
  BY PathIs
<1>3. QED
  BY <1>1, <1>2

\* Nodes that are kept: the ones for which something is, and those above them.
LEMMA KeptIs ==
  ASSUME ui \in TreeTUi, NEW n \in Tree!Nodes
  PROVE  /\ Under[n] # {} \/ n \in ui.term.named => n \in TreeT!Kept
         /\ Tree!Children(n) \intersect TreeT!Kept # {} => n \in TreeT!Kept
<1> DEFINE groups == {g \in TreeT!Level(3) : TreeT!Named(g) \/ TreeT!Matches(g) # {}}
           subs == {s \in TreeT!Level(2) : TreeT!Named(s) \/ TreeT!Matches(s) # {}
                                      \/ TreeT!Children(s) \intersect groups # {}}
           cats == {c \in TreeT!Level(1) : TreeT!Named(c) \/ TreeT!Matches(c) # {}
                                      \/ TreeT!Children(c) \intersect subs # {}}
<1>1. TreeT!Kept = groups \union subs \union cats
  BY DEF TreeT!Kept
<1>2. n \in ui.term.named <=> TreeT!Named(n)
  BY DEF TreeT!Named
<1>3. Under[n] # {} => TreeT!Named(n) \/ TreeT!Matches(n) # {}
  BY TreeTNodes DEF Under
<1>4. Len(n) \in 1 .. 3 /\ (Len(n) = 1 \/ Len(n) = 2 \/ Len(n) = 3)
  BY NodeIs, OneToThree
<1>5. \A m \in Tree!Nodes : \A k : m \in TreeT!Level(k) <=> Len(m) = k
  BY TreeTNodes, LevelIs
<1>6. TreeT!Named(n) \/ TreeT!Matches(n) # {} => n \in TreeT!Kept
  BY <1>1, <1>4, <1>5
<1>7. ASSUME NEW m \in Tree!Children(n), m \in TreeT!Kept PROVE n \in TreeT!Kept
  <2>1. /\ m \in Tree!Nodes /\ m \in TreeT!Children(n)
        /\ Len(m) = Len(n) + 1 /\ Len(m) \in 1 .. 3
    BY <1>7, TreeTNodes, NodeIs, ChildrenIs
  <2>2. (Len(n) = 1 /\ Len(m) = 2) \/ (Len(n) = 2 /\ Len(m) = 3)
    BY <1>4, <2>1, Levels
  <2>3. CASE Len(n) = 1 /\ Len(m) = 2
    <3>1. m \in subs
      <4>1. m \notin TreeT!Level(3) /\ m \notin TreeT!Level(1)
        <5>1. /\ m \in TreeT!Level(3) => Len(m) = 3
              /\ m \in TreeT!Level(1) => Len(m) = 1
          BY <1>5, <2>1
        <5>2. QED
          BY <2>3, <5>1
      <4>2. QED
        BY <1>1, <1>7, <4>1
    <3>2. n \in cats
      BY <1>5, <2>1, <2>3, <3>1
    <3>3. QED
      BY <1>1, <3>2
  <2>4. CASE Len(n) = 2 /\ Len(m) = 3
    <3>1. m \in groups
      <4>1. m \notin TreeT!Level(2) /\ m \notin TreeT!Level(1)
        <5>1. /\ m \in TreeT!Level(2) => Len(m) = 2
              /\ m \in TreeT!Level(1) => Len(m) = 1
          BY <1>5, <2>1
        <5>2. QED
          BY <2>4, <5>1
      <4>2. QED
        BY <1>1, <1>7, <4>1
    <3>2. n \in subs
      BY <1>5, <2>1, <2>4, <3>1
    <3>3. QED
      BY <1>1, <3>2
  <2>5. QED
    BY <2>2, <2>3, <2>4
<1>8. QED
  BY <1>2, <1>3, <1>6, <1>7

\* Above a node that is not a category is one of which it is a child.
LEMMA Parent ==
  ASSUME NEW n \in Tree!Nodes, NEW k \in {1, 2}, Len(n) = k + 1
  PROVE  \E m \in Tree!Nodes : /\ Len(m) = k /\ m \in Tree!Path(n)
                               /\ n \in Tree!Children(m)
<1>1. k \in 1 .. Len(n)
  OBVIOUS
<1>2. PICK m \in Tree!Path(n) : Len(m) = k
  BY <1>1, PathIs
<1>3. m \in Tree!Nodes
  BY NodeIs
<1>4. QED
  BY <1>2, <1>3, ChildrenIs

\* What is kept for a node is kept by the search: from its parent to its category,
\* or to the first of them that is found by its name.
LEMMA KeptForANode ==
  ASSUME ui \in TreeTUi, ui.searching, NEW n \in Tree!Nodes
  PROVE  Under[n] \subseteq TreeT!filteredTree
<1>1. /\ TreeT!filteredTree = UNION {UnderCat[c] : c \in TreeT!Level(1) \intersect TreeT!Kept}
      /\ \A m \in Tree!Nodes : \A k : m \in TreeT!Level(k) <=> Len(m) = k
  BY KeptByCategory, TreeTNodes, LevelIs
<1>2. ASSUME NEW m \in Tree!Nodes, NEW d \in Under[m]
      PROVE  /\ m \in TreeT!Kept
             /\ \A l \in Tree!Path(m) :
                  l \in Tree!Nodes /\ (TreeT!Named(l) => d \in Under[l])
  <2>1. m \in TreeT!Kept
    BY KeptIs
  <2>2. /\ d \in DOMAIN ui.tree /\ m \in Tree!Path(ui.tree[d])
        /\ ui.tree[d] \in Tree!Nodes
    BY UnderIs, DevicesHangAtNodes
  <2>3. \A l \in Tree!Path(m) : l \in Tree!Nodes /\ l \in Tree!Path(ui.tree[d])
    BY <2>2, NodeIs, PathIs
  <2>4. QED
    BY <2>1, <2>2, <2>3, UnderIs DEF TreeT!Named
<1>3. \A c \in Tree!Nodes : Len(c) = 1 => Under[c] \subseteq TreeT!filteredTree
  <2>1. SUFFICES ASSUME NEW c \in Tree!Nodes, Len(c) = 1, NEW d \in Under[c]
                 PROVE  d \in TreeT!filteredTree
    OBVIOUS
  <2>2. c \in TreeT!Level(1) \intersect TreeT!Kept
    BY <1>1, <1>2, <2>1
  <2>3. d \in UnderCat[c]
    BY <2>2 DEF UnderCat
  <2>4. QED
    BY <1>1, <2>2, <2>3
<1>4. \A s \in Tree!Nodes : \A d \in UnderSub[s] :
        Len(s) = 2 /\ s \in TreeT!Kept
          /\ (\A l \in Tree!Path(s) : TreeT!Named(l) => d \in Under[l])
        => d \in TreeT!filteredTree
  <2>1. SUFFICES ASSUME NEW s \in Tree!Nodes, NEW d \in UnderSub[s], Len(s) = 2,
                        s \in TreeT!Kept,
                        \A l \in Tree!Path(s) : TreeT!Named(l) => d \in Under[l]
                 PROVE  d \in TreeT!filteredTree
    OBVIOUS
  <2>2. PICK c \in Tree!Nodes : /\ Len(c) = 1 /\ c \in Tree!Path(s)
                                /\ s \in Tree!Children(c)
    <3>1. 1 \in {1, 2} /\ Len(s) = 1 + 1
      BY <2>1
    <3>2. QED
      BY <3>1, Parent
  <2>3. CASE TreeT!Named(c)
    BY <1>3, <2>1, <2>2, <2>3
  <2>4. CASE ~TreeT!Named(c)
    <3>1. c \in TreeT!Level(1) \intersect TreeT!Kept
      BY <1>1, <2>1, <2>2, KeptIs
    <3>2. s \in TreeT!Children(c) \intersect TreeT!Kept
      BY <2>1, <2>2, TreeTNodes
    <3>3. d \in UnderCat[c]
      BY <2>1, <2>4, <3>1, <3>2 DEF UnderCat
    <3>4. QED
      BY <1>1, <3>1, <3>3
  <2>5. QED
    BY <2>3, <2>4
<1>5. \A s \in Tree!Nodes : Len(s) = 2 => Under[s] \subseteq TreeT!filteredTree
  <2>1. SUFFICES ASSUME NEW s \in Tree!Nodes, Len(s) = 2, NEW d \in Under[s]
                 PROVE  d \in TreeT!filteredTree
    OBVIOUS
  <2>2. d \in UnderSub[s]
    BY <1>1, <2>1 DEF UnderSub
  <2>3. QED
    BY <1>2, <1>4, <2>1, <2>2
<1>6. \A g \in Tree!Nodes : Len(g) = 3 => Under[g] \subseteq TreeT!filteredTree
  <2>1. SUFFICES ASSUME NEW g \in Tree!Nodes, Len(g) = 3, NEW d \in Under[g]
                 PROVE  d \in TreeT!filteredTree
    OBVIOUS
  <2>2. PICK s \in Tree!Nodes : /\ Len(s) = 2 /\ s \in Tree!Path(g)
                                /\ g \in Tree!Children(s)
    <3>1. 2 \in {1, 2} /\ Len(g) = 2 + 1
      BY <2>1
    <3>2. QED
      BY <3>1, Parent
  <2>3. CASE TreeT!Named(s)
    BY <1>2, <1>5, <2>1, <2>2, <2>3
  <2>4. CASE ~TreeT!Named(s)
    <3>1. g \in TreeT!Children(s) \intersect TreeT!Kept
      BY <1>2, <2>1, <2>2, TreeTNodes
    <3>2. s \in TreeT!Level(2) /\ s \in TreeT!Kept
      BY <1>1, <2>2, <3>1, KeptIs, TreeTNodes
    <3>3. d \in UnderSub[s]
      BY <2>1, <2>4, <3>1, <3>2 DEF UnderSub
    <3>4. \A l \in Tree!Path(s) : TreeT!Named(l) => d \in Under[l]
      <4>1. Tree!Path(s) \subseteq Tree!Path(g)
        BY <2>2, PathIs
      <4>2. QED
        BY <1>2, <2>1, <4>1
    <3>5. QED
      BY <1>4, <2>2, <3>2, <3>3, <3>4
  <2>5. QED
    BY <2>3, <2>4
<1>7. Len(n) = 1 \/ Len(n) = 2 \/ Len(n) = 3
  BY NodeIs, OneToThree
<1>8. QED
  BY <1>3, <1>5, <1>6, <1>7

\* What is kept for a subcategory or a category hangs below it.
LEMMA UnderIsBelow ==
  ASSUME ui \in TreeTUi
  PROVE  /\ \A n \in Tree!Nodes : \A d \in Under[n] :
              d \in DOMAIN ui.tree /\ n \in Tree!Path(ui.tree[d])
         /\ \A s \in TreeT!Level(2) : \A d \in UnderSub[s] :
              d \in DOMAIN ui.tree /\ s \in Tree!Path(ui.tree[d])
         /\ \A c \in TreeT!Level(1) : \A d \in UnderCat[c] :
              d \in DOMAIN ui.tree /\ c \in Tree!Path(ui.tree[d])
<1>1. \A n \in Tree!Nodes : \A d \in Under[n] :
        d \in DOMAIN ui.tree /\ n \in Tree!Path(ui.tree[d])
  BY UnderIs
<1>2. \A k : TreeT!Level(k) \subseteq Tree!Nodes
  BY TreeTNodes, LevelIs
<1>3. ASSUME NEW n \in Tree!Nodes, NEW m \in Tree!Children(n), NEW d \in DOMAIN ui.tree,
             m \in Tree!Path(ui.tree[d])
      PROVE  n \in Tree!Path(ui.tree[d])
  <2>1. n \in Tree!Path(m) /\ ui.tree[d] \in Tree!Nodes
    BY DevicesHangAtNodes, ChildrenIs
  <2>2. QED
    BY <1>3, <2>1, PathIs
<1>4. ASSUME NEW s \in TreeT!Level(2), NEW d \in UnderSub[s]
      PROVE  d \in DOMAIN ui.tree /\ s \in Tree!Path(ui.tree[d])
  <2>1. s \in Tree!Nodes
    BY <1>2
  <2>2. d \in Under[s] \/ \E g \in Tree!Children(s) : d \in Under[g]
    BY TreeTNodes DEF UnderSub
  <2>3. CASE d \in Under[s]
    BY <1>1, <2>1, <2>3
  <2>4. CASE \E g \in Tree!Children(s) : d \in Under[g]
    <3>1. PICK g \in Tree!Children(s) : d \in Under[g]
      BY <2>4
    <3>2. g \in Tree!Nodes
      BY ChildrenIs
    <3>3. QED
      BY <1>1, <1>3, <2>1, <3>1, <3>2
  <2>5. QED
    BY <2>2, <2>3, <2>4
<1>5. ASSUME NEW c \in TreeT!Level(1), NEW d \in UnderCat[c]
      PROVE  d \in DOMAIN ui.tree /\ c \in Tree!Path(ui.tree[d])
  <2>1. c \in Tree!Nodes
    BY <1>2
  <2>2. d \in Under[c] \/ \E s \in Tree!Children(c) : d \in UnderSub[s]
    BY TreeTNodes DEF UnderCat
  <2>3. CASE d \in Under[c]
    BY <1>1, <2>1, <2>3
  <2>4. CASE \E s \in Tree!Children(c) : d \in UnderSub[s]
    <3>1. PICK s \in Tree!Children(c) : d \in UnderSub[s]
      BY <2>4
    <3>2. s \in TreeT!Level(2)
      <4>1. s \in Tree!Nodes /\ Len(s) = Len(c) + 1 /\ Len(c) = 1
        BY TreeTNodes, LevelIs, ChildrenIs
      <4>2. Len(s) = 2
        BY <4>1
      <4>3. QED
        BY <4>1, <4>2, TreeTNodes, LevelIs
    <3>3. QED
      BY <1>3, <1>4, <2>1, <3>1, <3>2
  <2>5. QED
    BY <2>2, <2>3, <2>4
<1>6. QED
  BY <1>1, <1>4, <1>5

\* What a search keeps.
LEMMA KeptBySearch ==
  ASSUME ui \in TreeTUi, ui.searching
  PROVE  TreeT!filteredTree =
           {d \in DOMAIN ui.tree : \/ d \in ui.term.finds
                                   \/ TreeT!Path(ui.tree[d]) \intersect ui.term.named # {}}
<1> DEFINE found == {d \in DOMAIN ui.tree :
                       \/ d \in ui.term.finds
                       \/ TreeT!Path(ui.tree[d]) \intersect ui.term.named # {}}
<1>1. ASSUME NEW d \in found PROVE d \in TreeT!filteredTree
  <2>1. ui.tree[d] \in Tree!Nodes
    BY DevicesHangAtNodes
  <2>2. CASE d \in ui.term.finds
    <3>1. ui.tree[d] \in Tree!Path(ui.tree[d])
      BY <2>1, PathIs
    <3>2. d \in Under[ui.tree[d]]
      BY <2>1, <2>2, <3>1, UnderIs
    <3>3. QED
      BY <2>1, <3>2, KeptForANode
  <2>3. CASE TreeT!Path(ui.tree[d]) \intersect ui.term.named # {}
    <3>1. PICK n \in Tree!Path(ui.tree[d]) : n \in ui.term.named
      BY <2>3, TreeTNodes
    <3>2. n \in Tree!Nodes
      BY <2>1, NodeIs
    <3>3. d \in Under[n]
      BY <3>1, <3>2, UnderIs
    <3>4. QED
      BY <3>2, <3>3, KeptForANode
  <2>4. QED
    BY <2>2, <2>3
<1>2. ASSUME NEW n \in Tree!Nodes, NEW d \in Under[n] PROVE d \in found
  BY UnderIs, TreeTNodes
<1> HIDE DEF found
<1>3. ASSUME NEW d \in TreeT!filteredTree PROVE d \in found
  <2>1. PICK c \in TreeT!Level(1) \intersect TreeT!Kept : d \in UnderCat[c]
    BY KeptByCategory
  <2>2. c \in Tree!Nodes /\ \A k, n : n \in TreeT!Level(k) => n \in Tree!Nodes
    BY TreeTNodes, LevelIs
  <2>3. d \in Under[c] \/ \E s \in Tree!Children(c) : d \in UnderSub[s]
    BY <2>1, TreeTNodes DEF UnderCat
  <2>4. ASSUME NEW s \in Tree!Children(c), d \in UnderSub[s]
        PROVE  \E g \in Tree!Nodes : d \in Under[g]
    <3>1. s \in Tree!Nodes /\ Len(s) = Len(c) + 1 /\ Len(c) = 1
      BY <2>1, TreeTNodes, LevelIs, ChildrenIs
    <3>2. Len(s) = 2
      BY <3>1
    <3>3. s \in TreeT!Level(2)
      BY <3>1, <3>2, TreeTNodes, LevelIs
    <3>4. d \in Under[s] \/ \E g \in Tree!Children(s) : d \in Under[g]
      BY <2>4, <3>3, TreeTNodes DEF UnderSub
    <3>5. \A g \in Tree!Children(s) : g \in Tree!Nodes
      BY ChildrenIs
    <3>6. QED
      BY <3>1, <3>4, <3>5
  <2>5. QED
    BY <1>2, <2>2, <2>3, <2>4
<1>4. QED
  BY <1>1, <1>3 DEF found

\* And it opens all that is above a device that is found.
LEMMA FoundIsRendered ==
  ASSUME ui \in TreeTUi, ui.searching
  PROVE  DOMAIN ui.tree \intersect ui.term.finds \subseteq TreeT!Rendered
<1>1. SUFFICES ASSUME NEW d \in DOMAIN ui.tree, d \in ui.term.finds
               PROVE  /\ d \in TreeT!filteredTree
                      /\ TreeT!Path(ui.tree[d]) \subseteq TreeT!autoExpandKeys
  BY DEF TreeT!Rendered, TreeT!effectiveExpandedNodes
<1>2. d \in TreeT!filteredTree
  BY <1>1, KeptBySearch
<1> DEFINE p == ui.tree[d]
<1>3. p \in Tree!Nodes
  BY DevicesHangAtNodes
<1>4. d \in TreeT!Matches(p)
  BY <1>1 DEF TreeT!Matches, TreeT!At
<1> HIDE DEF p
<1>5. p \in TreeT!Kept
  <2>1. p \in Tree!Path(p)
    BY <1>3, PathIs
  <2>2. d \in Under[p]
    BY <1>1, <1>3, <2>1, UnderIs DEF p
  <2>3. QED
    BY <1>3, <2>2, KeptIs
<1>6. \A k : Len(p) = k => p \in TreeT!Level(k)
  BY <1>3, TreeTNodes, LevelIs
<1> DEFINE groups == TreeT!Kept \intersect TreeT!Level(3)
           subs == {n \in TreeT!Level(2) : TreeT!Matches(n) # {}}
           cats == {c \in TreeT!Level(1) :
                      TreeT!Matches(c) # {} \/ TreeT!Children(c) \intersect TreeT!Kept # {}}
<1>7. TreeT!autoExpandKeys = (UNION {TreeT!Path(g) : g \in groups})
                               \union (UNION {TreeT!Path(s) : s \in subs}) \union cats
  BY DEF TreeT!autoExpandKeys
<1>8. /\ Len(p) = 3 => p \in groups
      /\ Len(p) = 2 => p \in subs
      /\ Len(p) = 1 => p \in cats
  BY <1>4, <1>5, <1>6
<1> HIDE DEF groups, subs, cats
<1>9. /\ \A g \in groups : TreeT!Path(g) \subseteq TreeT!autoExpandKeys
      /\ \A s \in subs : TreeT!Path(s) \subseteq TreeT!autoExpandKeys
      /\ cats \subseteq TreeT!autoExpandKeys
  BY <1>7, Zenon
<1>10. TreeT!Path(p) \subseteq TreeT!autoExpandKeys
  <2>1. CASE Len(p) = 3
    BY <1>8, <1>9, <2>1
  <2>2. CASE Len(p) = 2
    BY <1>8, <1>9, <2>2
  <2>3. CASE Len(p) = 1
    <3>1. p \in TreeT!autoExpandKeys
      BY <1>8, <1>9, <2>3
    <3>2. ASSUME NEW n \in Tree!Path(p) PROVE n = p
      <4>1. Len(n) \in 1 .. 1 /\ p \in Tree!Path(p)
        BY <1>3, <2>3, PathIs
      <4>2. Len(n) = Len(p)
        BY <2>3, <4>1
      <4>3. QED
        BY <1>3, <4>1, <4>2, PathIs
    <3>3. QED
      BY <3>1, <3>2, TreeTNodes
  <2>4. QED
    BY <1>3, <2>1, <2>2, <2>3, NodeIs, OneToThree
<1>11. QED
  BY <1>2, <1>10 DEF p

\* What totalDevices counts for a node itself, for a subcategory and what is in
\* it, and for a category and what is in it.
Own ==
  [n \in TreeT!Nodes |->
     TreeT!Cardinality(IF TreeT!Named(n) THEN TreeT!Below(ui.tree, n) ELSE TreeT!Matches(n))]

OwnSub ==
  [s \in TreeT!Level(2) |->
     Own[s] + IF TreeT!Named(s) THEN 0
              ELSE TreeT!SumOf(Own, TreeT!Children(s) \intersect TreeT!Kept)]

OwnCat ==
  [c \in TreeT!Level(1) |->
     Own[c] + IF TreeT!Named(c) THEN 0
              ELSE TreeT!SumOf(OwnSub, TreeT!Children(c) \intersect TreeT!Kept)]

\* The number it states is what it counts for the categories.
LEMMA TotalIs ==
  ui.searching =>
    TreeT!totalDevices = TreeT!SumOf(OwnCat, TreeT!Level(1) \intersect TreeT!Kept)
BY DEF TreeT!totalDevices, OwnCat, OwnSub, Own

\* The tab counts and adds as the lemmas on sums do.
LEMMA CardinalityIs == \A S : TreeT!Cardinality(S) = Cardinality(S)
BY DEF TreeT!Cardinality, Cardinality

\* The same of sums.
LEMMA SumOfIs ==
  ASSUME NEW f, NEW S
  PROVE  TreeT!SumOf(f, S) = SumOf(f, S)
BY DEF TreeT!SumOf, TreeT!MapThenSumSet, TreeT!MapThenFoldSet,
       SumOf, MapThenSumSet, MapThenFoldSet

\* Nodes side by side have nothing in common: each device is counted once.
LEMMA SideBySide ==
  ASSUME ui \in TreeTUi, NEW u, NEW k, NEW S, S \subseteq TreeT!Level(k),
         \A n \in S : \A d \in u[n] : d \in DOMAIN ui.tree /\ n \in Tree!Path(ui.tree[d])
  PROVE  /\ \A n, m \in S : n # m => u[n] \intersect u[m] = {}
         /\ \A n \in S : IsFiniteSet(u[n])
         /\ IsFiniteSet(S)
<1>1. S \subseteq Tree!Nodes /\ \A n \in S : Len(n) = k
  BY TreeTNodes, LevelIs
<1>2. ASSUME NEW n \in S, NEW m \in S, NEW d \in u[n], d \in u[m] PROVE n = m
  <2>1. /\ n \in Tree!Path(ui.tree[d]) /\ m \in Tree!Path(ui.tree[d])
        /\ ui.tree[d] \in Tree!Nodes
    BY <1>2, DevicesHangAtNodes
  <2>2. Len(n) = Len(m)
    BY <1>1
  <2>3. QED
    BY <2>1, <2>2, PathIs
<1>3. ASSUME NEW n \in S PROVE IsFiniteSet(u[n])
  <2>1. u[n] \subseteq Devices
    BY DevicesHangAtNodes
  <2>2. QED
    BY <2>1, TreeAssumption, FS_Subset
<1>4. IsFiniteSet(S)
  BY <1>1, NodesAreFinite, FS_Subset
<1>5. QED
  BY <1>2, <1>3, <1>4

\* What is kept for a node that is not found by its name hangs at it, and so not
\* below a child of it.
LEMMA BesideItsChildren ==
  ASSUME ui \in TreeTUi, NEW n \in Tree!Nodes, ~TreeT!Named(n), NEW m \in Tree!Children(n),
         NEW d \in Under[n]
  PROVE  m \notin Tree!Path(ui.tree[d])
<1>1. ui.tree[d] = n
  BY UnderIs DEF TreeT!Named
<1>2. Len(m) = Len(n) + 1 /\ Len(n) \in 1 .. 3
  BY NodeIs, ChildrenIs
<1>3. SUFFICES ASSUME m \in Tree!Path(n) PROVE FALSE
  BY <1>1
<1>4. Len(m) \in 1 .. Len(n)
  BY <1>3, PathIs
<1>5. QED
  BY <1>2, <1>4

\* What is counted for a node itself.
LEMMA OwnIs ==
  ASSUME ui \in TreeTUi, NEW n \in Tree!Nodes
  PROVE  IsFiniteSet(Under[n]) /\ Own[n] = Cardinality(Under[n])
<1>1. Under[n] \subseteq Devices
  BY UnderIsBelow, DevicesHangAtNodes
<1>2. Own[n] = Cardinality(Under[n])
  BY TreeTNodes, CardinalityIs DEF Own, Under
<1>3. QED
  BY <1>1, <1>2, TreeAssumption, FS_Subset

\* What is counted for a subcategory is what is kept for it.
LEMMA OwnSubIs ==
  ASSUME ui \in TreeTUi, NEW s \in TreeT!Level(2)
  PROVE  IsFiniteSet(UnderSub[s]) /\ OwnSub[s] = Cardinality(UnderSub[s])
<1> DEFINE groups == TreeT!Children(s) \intersect TreeT!Kept
<1>1. s \in Tree!Nodes /\ Len(s) = 2
  BY TreeTNodes, LevelIs
<1>2. IsFiniteSet(Under[s]) /\ Own[s] = Cardinality(Under[s]) /\ Cardinality(Under[s]) \in Nat
  BY <1>1, OwnIs, FS_CardinalityType
<1>3. CASE TreeT!Named(s)
  <2>1. UnderSub[s] = Under[s] /\ OwnSub[s] = Own[s] + 0
    BY <1>3 DEF UnderSub, OwnSub
  <2>2. QED
    BY <1>2, <2>1
<1>4. CASE ~TreeT!Named(s)
  <2>1. /\ UnderSub[s] = Under[s] \union UNION {Under[g] : g \in groups}
        /\ OwnSub[s] = Own[s] + SumOf(Own, groups)
    BY <1>4, SumOfIs DEF UnderSub, OwnSub
  <2>2. groups \subseteq TreeT!Level(3) /\ groups \subseteq Tree!Children(s)
        /\ groups \subseteq Tree!Nodes
    <3>1. ASSUME NEW g \in groups
          PROVE  g \in Tree!Children(s) /\ g \in Tree!Nodes /\ Len(g) = Len(s) + 1
      BY TreeTNodes, ChildrenIs
    <3>2. 2 + 1 = 3
      OBVIOUS
    <3>3. QED
      BY <1>1, <3>1, <3>2, TreeTNodes, LevelIs
  <2> HIDE DEF groups
  <2>3. \A g \in groups : \A d \in Under[g] :
          d \in DOMAIN ui.tree /\ g \in Tree!Path(ui.tree[d])
    BY <2>2, UnderIsBelow
  <2>4. /\ \A g, h \in groups : g # h => Under[g] \intersect Under[h] = {}
        /\ IsFiniteSet(groups)
    BY <2>2, <2>3, SideBySide
  <2>5. \A g \in groups : IsFiniteSet(Under[g]) /\ Own[g] = Cardinality(Under[g])
    BY <2>2, OwnIs
  <2>6. \A g \in groups : Under[s] \intersect Under[g] = {}
    BY <1>1, <1>4, <2>2, <2>3, BesideItsChildren
  <2>7. AllOf(Under, groups) = UNION {Under[g] : g \in groups}
    BY DEF AllOf
  <2>8. Counts(Own, Under, groups, Under[s])
    BY <1>2, <2>4, <2>5, <2>6 DEF Counts
  <2>9. /\ IsFiniteSet(Under[s] \union AllOf(Under, groups))
        /\ Cardinality(Under[s]) + SumOf(Own, groups) =
             Cardinality(Under[s] \union AllOf(Under, groups))
    BY <2>8, SumOfSizesBeside
  <2>10. QED
    BY <1>2, <2>1, <2>7, <2>9
<1>5. QED
  BY <1>3, <1>4

\* And for a category.
LEMMA OwnCatIs ==
  ASSUME ui \in TreeTUi, NEW c \in TreeT!Level(1)
  PROVE  IsFiniteSet(UnderCat[c]) /\ OwnCat[c] = Cardinality(UnderCat[c])
<1> DEFINE subs == TreeT!Children(c) \intersect TreeT!Kept
<1>1. c \in Tree!Nodes /\ Len(c) = 1
  BY TreeTNodes, LevelIs
<1>2. IsFiniteSet(Under[c]) /\ Own[c] = Cardinality(Under[c]) /\ Cardinality(Under[c]) \in Nat
  BY <1>1, OwnIs, FS_CardinalityType
<1>3. CASE TreeT!Named(c)
  <2>1. UnderCat[c] = Under[c] /\ OwnCat[c] = Own[c] + 0
    BY <1>3 DEF UnderCat, OwnCat
  <2>2. QED
    BY <1>2, <2>1
<1>4. CASE ~TreeT!Named(c)
  <2>1. /\ UnderCat[c] = Under[c] \union UNION {UnderSub[s] : s \in subs}
        /\ OwnCat[c] = Own[c] + SumOf(OwnSub, subs)
    BY <1>4, SumOfIs DEF UnderCat, OwnCat
  <2>2. subs \subseteq TreeT!Level(2) /\ subs \subseteq Tree!Children(c)
    <3>1. ASSUME NEW s \in subs
          PROVE  s \in Tree!Children(c) /\ s \in Tree!Nodes /\ Len(s) = Len(c) + 1
      BY TreeTNodes, ChildrenIs
    <3>2. 1 + 1 = 2
      OBVIOUS
    <3>3. QED
      BY <1>1, <3>1, <3>2, TreeTNodes, LevelIs
  <2> HIDE DEF subs
  <2>3. \A s \in subs : \A d \in UnderSub[s] :
          d \in DOMAIN ui.tree /\ s \in Tree!Path(ui.tree[d])
    BY <2>2, UnderIsBelow
  <2>4. /\ \A s, t \in subs : s # t => UnderSub[s] \intersect UnderSub[t] = {}
        /\ IsFiniteSet(subs)
    BY <2>2, <2>3, SideBySide
  <2>5. \A s \in subs : IsFiniteSet(UnderSub[s]) /\ OwnSub[s] = Cardinality(UnderSub[s])
    BY <2>2, OwnSubIs
  <2>6. \A s \in subs : Under[c] \intersect UnderSub[s] = {}
    BY <1>1, <1>4, <2>2, <2>3, BesideItsChildren
  <2>7. AllOf(UnderSub, subs) = UNION {UnderSub[s] : s \in subs}
    BY DEF AllOf
  <2>8. Counts(OwnSub, UnderSub, subs, Under[c])
    BY <1>2, <2>4, <2>5, <2>6 DEF Counts
  <2>9. /\ IsFiniteSet(Under[c] \union AllOf(UnderSub, subs))
        /\ Cardinality(Under[c]) + SumOf(OwnSub, subs) =
             Cardinality(Under[c] \union AllOf(UnderSub, subs))
    BY <2>8, SumOfSizesBeside
  <2>10. QED
    BY <1>2, <2>1, <2>7, <2>9
<1>5. QED
  BY <1>3, <1>4

\* The number that a search states is the number of devices it keeps.
LEMMA SearchCounts ==
  ASSUME ui \in TreeTUi, ui.searching
  PROVE  TreeT!totalDevices = TreeT!Cardinality(TreeT!filteredTree)
<1> DEFINE cats == TreeT!Level(1) \intersect TreeT!Kept
<1>1. /\ TreeT!totalDevices = SumOf(OwnCat, cats)
      /\ TreeT!filteredTree = UNION {UnderCat[c] : c \in cats}
  BY TotalIs, SumOfIs, KeptByCategory
<1>2. cats \subseteq TreeT!Level(1)
  OBVIOUS
<1> HIDE DEF cats
<1>3. \A c \in cats : IsFiniteSet(UnderCat[c]) /\ OwnCat[c] = Cardinality(UnderCat[c])
  BY <1>2, OwnCatIs
<1>4. \A c \in cats : \A d \in UnderCat[c] :
        d \in DOMAIN ui.tree /\ c \in Tree!Path(ui.tree[d])
  BY <1>2, UnderIsBelow
<1>5. /\ \A c, b \in cats : c # b => UnderCat[c] \intersect UnderCat[b] = {}
      /\ IsFiniteSet(cats)
  BY <1>2, <1>4, SideBySide
<1>6. SumOf(OwnCat, cats) = Cardinality(UNION {UnderCat[c] : c \in cats})
  BY <1>3, <1>5, SumOfSizes
<1>7. QED
  BY <1>1, <1>6, CardinalityIs

\* So a search shows all that it finds, and says how much that is.
LEMMA TabShowsMatches == ui \in TreeTUi => TreeT!EveryMatchIsShown
BY FoundIsRendered, KeptBySearch, SearchCounts DEF TreeT!EveryMatchIsShown
=============================================================================
