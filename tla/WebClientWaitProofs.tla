------------------------ MODULE WebClientWaitProofs -------------------------
(***************************************************************************)
(* That no page waits for an answer that will not come, that messages go   *)
(* away, and that state and handlers keep their types, for any bounds and  *)
(* constants.  Of each page: what it waits for (Needs), what the answer to *)
(* a handler brings (Brings), and that what is waited for is brought by a  *)
(* handler in flight (Waits); then what its state is (Ui), what a handler  *)
(* of it carries (Typed), and that both last (Types), for the pages that   *)
(* WebClientProofs leaves.                                                 *)
(***************************************************************************)
EXTENDS WebClientProofs

(***************************************************************************)
(* The cases page: messages and what it waits for.                         *)
(***************************************************************************)

\* What a handler tells of itself.
CasesPKnown(c) ==
  /\ "ask" \in DOMAIN c
  /\ c.ask = "list" => "from" \in DOMAIN c

\* What the page waits for, and what the answer to a handler brings.
CasesPNeeds(u) ==
  {n \in {"loading", "opening", "submitting", "message"} :
     \/ n = "loading" /\ u.loading
     \/ n = "opening" /\ u.opening
     \/ n = "submitting" /\ u.submitting
     \/ n = "message" /\ u.message /\ ~u.timer}

CasesPBrings(c) ==
  {n \in {"loading", "opening", "submitting", "message"} :
     \/ n = "loading" /\ c.ask = "list"
     \/ n = "opening" /\ c.ask = "details"
     \/ n = "submitting" /\ (c.ask = "save" \/ (c.ask = "list" /\ c.from = "submit"))
     \/ /\ n = "message"
        /\ \/ c.ask = "devices"
           \/ c.ask = "list" /\ c.from \in {"submit", "delete"}}

\* What it waits for is on the way.
CasesPWaits ==
  /\ {"loading", "opening", "submitting", "message", "timer"} \subseteq DOMAIN ui
  /\ \A c \in calls : CasesPKnown(c)
  /\ \A n \in CasesPNeeds(ui) : \E c \in calls : n \in CasesPBrings(c)

\* A handler that is like another brings the same.
LEMMA CasesPAlike ==
  ASSUME NEW c, NEW h, Like(c, h), CasesPKnown(h)
  PROVE  CasesPKnown(c) /\ CasesPBrings(c) = CasesPBrings(h)
BY DEF Like, CasesPKnown, CasesPBrings

\* What a step may do: it waits for no more, or for what a new handler brings;
\* what an answer brings is no longer waited for.
CasesPStep ==
  /\ {"loading", "opening", "submitting", "message", "timer"} \subseteq DOMAIN ui'
  /\ \/ UNCHANGED calls /\ CasesPNeeds(ui') \subseteq CasesPNeeds(ui)
     \/ \E h : /\ CasesPKnown(h) /\ "again" \notin DOMAIN h /\ CasesP!Begins(h)
              /\ CasesPNeeds(ui') \subseteq CasesPNeeds(ui) \union CasesPBrings(h)
     \/ \E h \in calls : /\ "again" \notin DOMAIN h /\ CasesP!Ends(h)
                       /\ CasesPNeeds(ui') \subseteq CasesPNeeds(ui) \ CasesPBrings(h)
     \/ \E h \in calls : \E next :
          /\ "again" \notin DOMAIN h /\ "again" \notin DOMAIN next /\ CasesPKnown(next)
          /\ CasesP!GoesOnAs(h, next)
          /\ CasesPNeeds(ui')
               \subseteq (CasesPNeeds(ui) \ CasesPBrings(h)) \union CasesPBrings(next)

\* Such a step leaves nothing waiting for an answer that will not come.
LEMMA CasesPKept == CasesPWaits /\ CasesPStep => CasesPWaits'
BY CasesPHandlers, CasesPAlike DEF CasesPWaits, CasesPStep


\* Every step of the page is one.
LEMMA CasesPWaitSteps == CasesPWaits /\ CasesP!Next => CasesPWaits'
<1> SUFFICES ASSUME CasesPWaits, CasesP!Next PROVE CasesPStep
  BY CasesPKept
<1> USE DEF CasesPWaits, CasesPStep
<1>0. /\ \A ask, of, from : /\ "again" \notin DOMAIN CasesP!Handler(ask, of, from)
                            /\ CasesPKnown(CasesP!Handler(ask, of, from))
      /\ \A from : /\ "again" \notin DOMAIN CasesP!Load(from)
                   /\ CasesPKnown(CasesP!Load(from))
                   /\ CasesPBrings(CasesP!Load(from)) = {"loading"}
                        \union (IF from = "submit" THEN {"submitting", "message"} ELSE {})
                        \union (IF from = "delete" THEN {"message"} ELSE {})
  BY DEF CasesP!Handler, CasesP!Load, CasesPKnown, CasesPBrings
<1>1. CASE \/ CasesP!Dismiss \/ CasesP!CloseCase \/ CasesP!CloseDevice
           \/ CasesP!CancelTree \/ CasesP!handleOpenCreateModal \/ CasesP!CloseForm
           \/ \E x \in {"detail", "edit"} : CasesP!handleAddDevices(x)
  BY <1>1 DEF CasesPNeeds, CasesP!Dismiss, CasesP!CloseCase, CasesP!CloseDevice,
              CasesP!CancelTree, CasesP!handleOpenCreateModal, CasesP!CloseForm,
              CasesP!handleAddDevices
<1>2. CASE \/ CasesP!loadCases \/ CasesP!handleConfirmAddDevices
  BY <1>0, <1>2 DEF CasesPNeeds, CasesP!loadCases, CasesP!handleConfirmAddDevices
<1>3. CASE \/ CasesP!handleLocateDevice \/ CasesP!handleOpenDevice
           \/ \E c \in Cases : CasesP!handleDelete(c)
           \/ \E x \in {"detail", "edit"} : CasesP!handleRemoveDevice(x)
  BY <1>0, <1>3 DEF CasesPNeeds, CasesP!handleLocateDevice, CasesP!handleOpenDevice,
              CasesP!handleDelete, CasesP!handleRemoveDevice,
              CasesP!Say, CasesP!clearActionMessage
<1>4. CASE \E c \in Cases : CasesP!handleOpenCase(c)
  <2>1. PICK c \in Cases : CasesP!handleOpenCase(c)
    BY <1>4
  <2>2. "opening" \in CasesPBrings(CasesP!Handler("details", c, "open"))
    BY DEF CasesP!Handler, CasesPBrings
  <2>3. QED
    BY <1>0, <2>1, <2>2 DEF CasesPNeeds, CasesP!handleOpenCase
<1>5. CASE \E c \in Cases : CasesP!handleOpenEditModal(c)
  BY <1>0, <1>5 DEF CasesPNeeds, CasesP!handleOpenEditModal
<1>6. CASE CasesP!handleFormSubmit
  <2>1. "submitting" \in CasesPBrings(CasesP!Handler("save", ui.editing, ui.formOf))
    BY DEF CasesP!Handler, CasesPBrings
  <2>2. CASE ui' = CasesP!clearActionMessage(CasesP!Say(ui)) /\ UNCHANGED calls
    BY <2>2 DEF CasesPNeeds, CasesP!Say, CasesP!clearActionMessage
  <2>3. CASE /\ ui' = [ui EXCEPT !.submitting = TRUE]
             /\ CasesP!Begins(CasesP!Handler("save", ui.editing, ui.formOf))
    BY <1>0, <2>1, <2>3 DEF CasesPNeeds
  <2>4. QED
    BY <1>6, <2>2, <2>3 DEF CasesP!handleFormSubmit
<1>7. CASE \E h \in calls : CasesP!Answer(h)
  <2>1. PICK h \in calls : CasesP!Answer(h)
    BY <1>7
  <2>2. "again" \notin DOMAIN h /\ CasesPKnown(h)
    BY <2>1 DEF CasesP!Answer, CasesP!Awaits, CasesP!Listed, CasesP!CaseOpened,
                CasesP!Located, CasesP!DeviceOpened, CasesP!Changed, CasesP!NotChanged,
                CasesP!Reloaded, CasesP!EditOpened, CasesP!Saved, CasesP!Deleted
  <2> DEFINE Less(new) == /\ {"loading", "opening", "submitting", "message", "timer"}
                               \subseteq DOMAIN ui'
                          /\ CasesPNeeds(ui')
                               \subseteq (CasesPNeeds(ui) \ CasesPBrings(h)) \union new
  <2>3. CASE CasesP!Listed(h) \/ CasesP!CaseOpened(h) \/ CasesP!EditOpened(h)
    <3>1. CasesP!Ends(h) /\ Less({})
      BY <2>3, ZenonT(60) DEF CasesPNeeds, CasesPBrings, CasesP!Awaits, CasesP!Say,
                  CasesP!clearActionMessage, CasesP!Listed, CasesP!CaseOpened,
                  CasesP!EditOpened
    <3>2. QED
      BY <2>2, <3>1
  <2>5. CASE CasesP!Located(h) \/ CasesP!DeviceOpened(h) \/ CasesP!NotChanged(h)
    <3>1. CasesP!Ends(h) /\ Less({})
      BY <2>5, ZenonT(60) DEF CasesPNeeds, CasesPBrings, CasesP!Awaits, CasesP!Say,
                  CasesP!clearActionMessage, CasesP!Located, CasesP!DeviceOpened,
                  CasesP!NotChanged
    <3>2. QED
      BY <2>2, <3>1
  <2>6. CASE CasesP!Changed(h)
    <3>1. /\ "again" \notin DOMAIN [h EXCEPT !.ask = "devices"]
          /\ CasesPKnown([h EXCEPT !.ask = "devices"])
          /\ "message" \in CasesPBrings([h EXCEPT !.ask = "devices"])
      BY <2>2 DEF CasesPKnown, CasesPBrings
    <3>2. CasesP!GoesOnAs(h, [h EXCEPT !.ask = "devices"]) /\ Less({"message"})
      BY <2>6 DEF CasesPNeeds, CasesPBrings, CasesP!Awaits, CasesP!Say,
                  CasesP!clearActionMessage, CasesP!Changed, CasesP!GoesOn
    <3>3. QED
      BY <2>2, <3>1, <3>2
  <2>7. CASE CasesP!Reloaded(h)
    <3>1. CasesP!GoesOnAs(h, CasesP!Load("load")) /\ Less({"loading"})
      BY <2>7 DEF CasesPNeeds, CasesPBrings, CasesP!Awaits, CasesP!Say,
                  CasesP!clearActionMessage, CasesP!Reloaded
    <3>2. QED
      BY <1>0, <2>2, <3>1
  <2>8. CASE CasesP!Saved(h)
    <3>1. \/ CasesP!Ends(h) /\ Less({})
          \/ /\ CasesP!GoesOnAs(h, CasesP!Load("submit"))
             /\ Less({"loading", "submitting", "message"})
      BY <2>8, ZenonT(60) DEF CasesPNeeds, CasesPBrings, CasesP!Awaits, CasesP!Say,
                  CasesP!clearActionMessage, CasesP!Saved
    <3>2. QED
      BY <1>0, <2>2, <3>1
  <2>9. CASE CasesP!Deleted(h)
    <3>1. \/ CasesP!Ends(h) /\ Less({})
          \/ CasesP!GoesOnAs(h, CasesP!Load("delete")) /\ Less({"loading", "message"})
      BY <2>9, ZenonT(60) DEF CasesPNeeds, CasesPBrings, CasesP!Awaits, CasesP!Say,
                  CasesP!clearActionMessage, CasesP!Deleted
    <3>2. QED
      BY <1>0, <2>2, <3>1
  <2>10. QED
    BY <2>1, <2>3, <2>5, <2>6, <2>7, <2>8, <2>9 DEF CasesP!Answer
<1>8. QED
  BY <1>1, <1>2, <1>3, <1>4, <1>5, <1>6, <1>7 DEF CasesP!Next

\* At first it waits for what is asked for at once.
LEMMA CasesPWaitInits == CasesP!Init => CasesPWaits
BY DEF CasesP!Init, CasesPWaits, CasesPKnown, CasesPNeeds, CasesPBrings

\* So it does not wait for an answer that will not come.
LEMMA CasesPWaitsForAnswers == CasesPWaits => CasesP!NoSpinnerLeft /\ CasesP!MessageGoesAway
BY DEF CasesPWaits, CasesPNeeds, CasesPBrings, CasesP!NoSpinnerLeft,
       CasesP!MessageGoesAway

(***************************************************************************)
(* The cases tab: messages and what it waits for.                          *)
(***************************************************************************)

\* What a handler tells of itself.
CasesTKnown(c) ==
  /\ "ask" \in DOMAIN c
  /\ c.ask = "list" => "from" \in DOMAIN c

\* What the page waits for, and what the answer to a handler brings.
CasesTNeeds(u) ==
  {n \in {"loading", "refreshing", "submitting", "message"} :
     \/ n = "loading" /\ u.loading
     \/ n = "refreshing" /\ u.refreshing
     \/ n = "submitting" /\ u.submitting
     \/ n = "message" /\ u.message /\ ~u.timer}

CasesTBrings(c) ==
  {n \in {"loading", "refreshing", "submitting", "message"} :
     \/ n = "loading" /\ c.ask = "list"
     \/ n = "refreshing" /\ c.ask = "list" /\ c.from = "refresh"
     \/ n = "submitting" /\ (c.ask = "save" \/ (c.ask = "list" /\ c.from = "submit"))
     \/ n = "message" /\ c.ask = "list" /\ c.from \in {"submit", "delete"}}

\* What it waits for is on the way.
CasesTWaits ==
  /\ {"loading", "refreshing", "submitting", "message", "timer"} \subseteq DOMAIN ui
  /\ \A c \in calls : CasesTKnown(c)
  /\ \A n \in CasesTNeeds(ui) : \E c \in calls : n \in CasesTBrings(c)

\* A handler that is like another brings the same.
LEMMA CasesTAlike ==
  ASSUME NEW c, NEW h, Like(c, h), CasesTKnown(h)
  PROVE  CasesTKnown(c) /\ CasesTBrings(c) = CasesTBrings(h)
BY DEF Like, CasesTKnown, CasesTBrings

\* What a step may do: it waits for no more, or for what a new handler brings;
\* what an answer brings is no longer waited for.
CasesTStep ==
  /\ {"loading", "refreshing", "submitting", "message", "timer"} \subseteq DOMAIN ui'
  /\ \/ UNCHANGED calls /\ CasesTNeeds(ui') \subseteq CasesTNeeds(ui)
     \/ \E h : /\ CasesTKnown(h) /\ "again" \notin DOMAIN h /\ CasesT!Begins(h)
              /\ CasesTNeeds(ui') \subseteq CasesTNeeds(ui) \union CasesTBrings(h)
     \/ \E h \in calls : /\ "again" \notin DOMAIN h /\ CasesT!Ends(h)
                       /\ CasesTNeeds(ui') \subseteq CasesTNeeds(ui) \ CasesTBrings(h)
     \/ \E h \in calls : \E next :
          /\ "again" \notin DOMAIN h /\ "again" \notin DOMAIN next /\ CasesTKnown(next)
          /\ CasesT!GoesOnAs(h, next)
          /\ CasesTNeeds(ui')
               \subseteq (CasesTNeeds(ui) \ CasesTBrings(h)) \union CasesTBrings(next)

\* Such a step leaves nothing waiting for an answer that will not come.
LEMMA CasesTKept == CasesTWaits /\ CasesTStep => CasesTWaits'
BY CasesTHandlers, CasesTAlike DEF CasesTWaits, CasesTStep

\* Every step of the page is one.
LEMMA CasesTWaitSteps == CasesTWaits /\ CasesT!Next => CasesTWaits'
<1> SUFFICES ASSUME CasesTWaits, CasesT!Next PROVE CasesTStep
  BY CasesTKept
<1> USE DEF CasesTWaits, CasesTStep
<1>0. \A from : /\ "again" \notin DOMAIN CasesT!Load(from) /\ CasesTKnown(CasesT!Load(from))
               /\ CasesTBrings(CasesT!Load(from))
                    = {"loading"} \union (IF from = "refresh" THEN {"refreshing"} ELSE {})
                        \union (IF from = "submit" THEN {"submitting", "message"} ELSE {})
                        \union (IF from = "delete" THEN {"message"} ELSE {})
  BY DEF CasesT!Load, CasesTKnown, CasesTBrings
<1>1. CASE \/ CasesT!Dismiss \/ CasesT!SearchTyped \/ CasesT!CloseView
           \/ CasesT!openCreateModal \/ CasesT!CloseForm
  BY <1>1 DEF CasesTNeeds, CasesT!Dismiss, CasesT!SearchTyped, CasesT!CloseView,
            CasesT!openCreateModal, CasesT!CloseForm
<1>2. CASE CasesT!EditViewed \/ \E c \in Cases : CasesT!EditCase(c)
  BY <1>2, ZenonT(60) DEF CasesTNeeds, CasesT!EditViewed, CasesT!EditCase, CasesT!openEditModal
<1>3. CASE CasesT!FilterChanged \/ CasesT!handleRefresh
  <2>1. \/ /\ CasesT!Begins(CasesT!Load("load"))
           /\ ui' = [ui EXCEPT !.typed = FALSE, !.loading = TRUE]
        \/ /\ CasesT!Begins(CasesT!Load("refresh"))
           /\ ui' = [ui EXCEPT !.refreshing = TRUE, !.loading = TRUE]
    BY <1>3 DEF CasesT!FilterChanged, CasesT!handleRefresh
  <2>2. \/ /\ CasesT!Begins(CasesT!Load("load"))
           /\ CasesTNeeds(ui') \subseteq CasesTNeeds(ui) \union {"loading"}
        \/ /\ CasesT!Begins(CasesT!Load("refresh"))
           /\ CasesTNeeds(ui') \subseteq CasesTNeeds(ui) \union {"loading", "refreshing"}
    BY <2>1 DEF CasesTNeeds
  <2>3. {"loading", "refreshing", "submitting", "message", "timer"} \subseteq DOMAIN ui'
    BY <2>1
  <2>4. QED
    BY <1>0, <2>2, <2>3
<1>4. CASE \E c \in Cases :
             CasesT!handleDelete(c) \/ CasesT!handlePrintLabel(c) \/ CasesT!handleViewCase(c)
  <2>1. PICK c \in Cases : \/ CasesT!Begins([ask |-> "delete"])
                           \/ CasesT!Begins([ask |-> "templates"])
                           \/ CasesT!Begins([ask |-> "view", of |-> c])
    BY <1>4 DEF CasesT!handleDelete, CasesT!handlePrintLabel, CasesT!handleViewCase
  <2>2. \A h \in {[ask |-> "delete"], [ask |-> "templates"], [ask |-> "view", of |-> c]} :
          CasesTKnown(h) /\ "again" \notin DOMAIN h
    BY DEF CasesTKnown
  <2>3. UNCHANGED ui
    BY <1>4 DEF CasesT!handleDelete, CasesT!handlePrintLabel, CasesT!handleViewCase
  <2>4. QED
    BY <2>1, <2>2, <2>3
<1>5. CASE CasesT!handleSubmit
  <2> DEFINE h == [ask |-> "save", of |-> ui.editing, form |-> ui.formOf]
  <2>1. CasesTKnown(h) /\ "again" \notin DOMAIN h /\ "submitting" \in CasesTBrings(h)
    BY DEF CasesTKnown, CasesTBrings
  <2>2. CASE CasesT!Begins(h) /\ ui' = [ui EXCEPT !.submitting = TRUE]
    <3> HIDE DEF h
    <3>1. QED
      BY <2>1, <2>2 DEF CasesTNeeds
  <2>3. CASE ui' = CasesT!clearActionMessage(CasesT!Say(ui)) /\ UNCHANGED calls
    BY <2>3 DEF CasesTNeeds, CasesT!Say, CasesT!clearActionMessage
  <2>4. QED
    BY <1>5, <2>2, <2>3 DEF CasesT!handleSubmit
<1>6. CASE \E h \in calls : CasesT!Answer(h)
  <2>1. PICK h \in calls : CasesT!Answer(h)
    BY <1>6
  <2>2. "again" \notin DOMAIN h /\ CasesTKnown(h)
    BY <2>1 DEF CasesT!Answer, CasesT!Awaits, CasesT!fetchCases, CasesT!Deleted,
                CasesT!Printed, CasesT!Viewed, CasesT!Saved
  <2> DEFINE Less(new) ==
        /\ {"loading", "refreshing", "submitting", "message", "timer"} \subseteq DOMAIN ui'
        /\ CasesTNeeds(ui')
             \subseteq (CasesTNeeds(ui) \ CasesTBrings(h)) \union new
  <2>3. CASE CasesT!fetchCases(h)
    <3>1. CasesT!Ends(h) /\ Less({})
      BY <2>3 DEF CasesTNeeds, CasesTBrings, CasesT!Awaits, CasesT!clearActionMessage,
                  CasesT!fetchCases
    <3>2. QED
      BY <2>2, <3>1
  <2>4. CASE CasesT!Viewed(h)
    <3>1. CasesT!Ends(h) /\ Less({})
      BY <2>4 DEF CasesTNeeds, CasesTBrings, CasesT!Awaits, CasesT!clearActionMessage,
                  CasesT!Say, CasesT!Viewed
    <3>2. QED
      BY <2>2, <3>1
  <2>5. CASE CasesT!Deleted(h)
    <3>1. \/ CasesT!Ends(h) /\ Less({})
          \/ CasesT!GoesOnAs(h, CasesT!Load("delete")) /\ Less({"loading", "message"})
      BY <2>5, ZenonT(60) DEF CasesTNeeds, CasesTBrings, CasesT!Awaits,
         CasesT!clearActionMessage,
                  CasesT!Say, CasesT!Deleted
    <3>2. QED
      BY <1>0, <2>2, <3>1
  <2>6. CASE CasesT!Saved(h)
    <3>1. \/ CasesT!Ends(h) /\ Less({})
          \/ /\ CasesT!GoesOnAs(h, CasesT!Load("submit"))
             /\ Less({"loading", "submitting", "message"})
      BY <2>6, ZenonT(60) DEF CasesTNeeds, CasesTBrings, CasesT!Awaits,
         CasesT!clearActionMessage,
                  CasesT!Say, CasesT!Saved
    <3>2. QED
      BY <1>0, <2>2, <3>1
  <2>7. CASE CasesT!Printed(h)
    <3>1. /\ CasesT!Ends(h) \/ CasesT!GoesOnAs(h, [h EXCEPT !.ask = "label"])
          /\ Less({})
      BY <2>7 DEF CasesTNeeds, CasesTBrings, CasesT!Awaits, CasesT!Printed,
                  CasesT!GoesOn
    <3>2. /\ "again" \notin DOMAIN [h EXCEPT !.ask = "label"]
          /\ CasesTKnown([h EXCEPT !.ask = "label"])
      BY <2>2 DEF CasesTKnown
    <3>3. QED
      BY <2>2, <3>1, <3>2
  <2>8. QED
    BY <2>1, <2>3, <2>4, <2>5, <2>6, <2>7 DEF CasesT!Answer
<1>7. QED
  BY <1>1, <1>2, <1>3, <1>4, <1>5, <1>6 DEF CasesT!Next

\* At first it waits for what is asked for at once.
LEMMA CasesTWaitInits == CasesT!Init => CasesTWaits
BY DEF CasesT!Init, CasesTWaits, CasesTKnown, CasesTNeeds, CasesTBrings, CasesT!Load

\* So it does not wait for an answer that will not come.
LEMMA CasesTWaitsForAnswers == CasesTWaits => CasesT!NoSpinnerLeft /\ CasesT!MessageGoesAway
BY DEF CasesTWaits, CasesTNeeds, CasesTBrings, CasesT!NoSpinnerLeft,
       CasesT!MessageGoesAway

(***************************************************************************)
(* The LED settings: what they wait for.                                   *)
(***************************************************************************)

\* What the page does to its handlers is what ReactPage says.
LEMMA LEDsHandlers ==
  ASSUME NEW h, "again" \notin DOMAIN h
  PROVE  /\ LEDs!Begins(h)
              => /\ calls \subseteq calls'
                 /\ \A c \in calls' : c \in calls \/ Like(c, h)
                 /\ \E c \in calls' : Like(c, h)
         /\ LEDs!Ends(h) => /\ calls' \subseteq calls
                             /\ \A c \in calls \ calls' : Like(c, h)
         /\ \A next : "again" \notin DOMAIN next /\ LEDs!GoesOnAs(h, next)
              => /\ \A c \in calls' : c \in calls \/ Like(c, next)
                 /\ \E c \in calls' : Like(c, next)
                 /\ \A c \in calls \ calls' : Like(c, h)
<1>1. LEDs!Begins(h) => Joins(h, calls)
  BY DEF LEDs!Begins, LEDs!Joins, Joins, LEDs!Again, Again
<1>2. LEDs!Ends(h) <=> Ends(h)
  BY DEF LEDs!Ends, Ends, LEDs!Without, Without, LEDs!Again, Again
<1>3. \A next : LEDs!GoesOnAs(h, next) => GoesOnAs(h, next)
  BY DEF LEDs!GoesOnAs, GoesOnAs, LEDs!Joins, Joins, LEDs!Without, Without,
         LEDs!Again, Again
<1>4. QED
  BY <1>1, <1>2, <1>3, Joined, Ended, WentOn

\* The buttons that each have a save of their own.
Buttons == {"defaults", "job", "mapping", "validate"}

LEDFlags ==
  {"loading", "zoneTypeLoading", "mappingLoading", "loaded", "mapping", "pixelsInput",
   "saving", "zoneTypeSaving", "previewLoading", "previewActive", "stopLoading"}

\* What a handler tells of itself.
LEDsKnown(c) ==
  /\ "ask" \in DOMAIN c
  /\ c.ask = "save" => "what" \in DOMAIN c
  /\ c.ask = "preview" => "target" \in DOMAIN c /\ c.target \in Targets \union {"all"}

\* What the page waits for, and what the answer to a handler brings.
LEDsNeeds(u) ==
  {n \in {"loading", "zoneTypeLoading", "mappingLoading", "zoneTypeSaving",
          "previewLoading", "stopLoading"} \union Buttons :
     \/ n = "loading" /\ u.loading
     \/ n = "zoneTypeLoading" /\ u.zoneTypeLoading
     \/ n = "mappingLoading" /\ u.mappingLoading
     \/ n = "zoneTypeSaving" /\ u.zoneTypeSaving # LEDs!None
     \/ n = "previewLoading" /\ u.previewLoading
     \/ n = "stopLoading" /\ u.stopLoading
     \/ n \in Buttons /\ n \in u.saving}

LEDsBrings(c) ==
  {n \in {"loading", "zoneTypeLoading", "mappingLoading", "zoneTypeSaving",
          "previewLoading", "stopLoading"} \union Buttons :
     \/ n = "loading" /\ c.ask = "defaults"
     \/ n = "zoneTypeLoading" /\ c.ask = "zoneTypes"
     \/ n = "mappingLoading" /\ c.ask = "mapping"
     \/ n = "zoneTypeSaving" /\ c.ask = "zoneType"
     \/ n = "previewLoading" /\ c.ask = "preview"
     \/ n = "stopLoading" /\ c.ask = "clear"
     \/ n \in Buttons /\ c.ask = "save" /\ n = c.what}

\* What it waits for is on the way.
LEDsWaits ==
  /\ LEDFlags \subseteq DOMAIN ui /\ ui.saving \subseteq Buttons
  /\ \A c \in calls : LEDsKnown(c)
  /\ \A n \in LEDsNeeds(ui) : \E c \in calls : n \in LEDsBrings(c)

\* A handler that is like another brings the same.
LEMMA LEDsAlike ==
  ASSUME NEW c, NEW h, Like(c, h), LEDsKnown(h)
  PROVE  LEDsKnown(c) /\ LEDsBrings(c) = LEDsBrings(h)
BY DEF Like, LEDsKnown, LEDsBrings

\* What a step may do: it waits for no more, or for what a new handler brings;
\* what an answer brings is no longer waited for.
LEDsStep ==
  /\ LEDFlags \subseteq DOMAIN ui' /\ ui'.saving \subseteq Buttons
  /\ \/ UNCHANGED calls /\ LEDsNeeds(ui') \subseteq LEDsNeeds(ui)
     \/ \E h : /\ LEDsKnown(h) /\ "again" \notin DOMAIN h /\ LEDs!Begins(h)
              /\ LEDsNeeds(ui') \subseteq LEDsNeeds(ui) \union LEDsBrings(h)
     \/ \E h \in calls : /\ "again" \notin DOMAIN h /\ LEDs!Ends(h)
                       /\ LEDsNeeds(ui') \subseteq LEDsNeeds(ui) \ LEDsBrings(h)
     \/ \E h \in calls : \E next :
          /\ "again" \notin DOMAIN h /\ "again" \notin DOMAIN next /\ LEDsKnown(next)
          /\ LEDs!GoesOnAs(h, next)
          /\ LEDsNeeds(ui')
               \subseteq (LEDsNeeds(ui) \ LEDsBrings(h)) \union LEDsBrings(next)

\* Such a step leaves nothing waiting for an answer that will not come.
LEMMA LEDsKept == LEDsWaits /\ LEDsStep => LEDsWaits'
BY LEDsHandlers, LEDsAlike DEF LEDsWaits, LEDsStep

\* Every step of the page is one.
LEMMA LEDsWaitSteps == LEDsWaits /\ LEDs!Next => LEDsWaits'
<1> SUFFICES ASSUME LEDsWaits, LEDs!Next PROVE LEDsStep
  BY LEDsKept, SMTT(60)
<1> USE DEF LEDsWaits, LEDsStep
<1>1. CASE LEDs!addShelf \/ \E s \in DOMAIN ui.mapping : LEDs!removeShelf(s) \/ LEDs!addBin(s)
  BY <1>1, ZenonT(60) DEF LEDsNeeds, LEDFlags, Buttons, LEDs!addShelf, LEDs!removeShelf,
              LEDs!addBin,
            LEDs!Rebuild
<1>2. CASE \E p \in LEDs!Positions(ui.mapping) :
             \/ LEDs!removeBin(p[1], p[2])
             \/ \E t \in LEDs!Text : LEDs!handlePixelInputChange(p[1], p[2], t)
  BY <1>2, ZenonT(60) DEF LEDsNeeds, LEDFlags, Buttons, LEDs!removeBin, LEDs!Rebuild,
            LEDs!handlePixelInputChange
<1>3. CASE LEDs!loadMapping
  <2> DEFINE h == [ask |-> "mapping"]
  <2>1. LEDsKnown(h) /\ "again" \notin DOMAIN h /\ "mappingLoading" \in LEDsBrings(h)
    BY DEF LEDsKnown, LEDsBrings, Buttons
  <2>2. LEDs!Begins(h) /\ ui' = [ui EXCEPT !.mappingLoading = TRUE]
    BY <1>3 DEF LEDs!loadMapping
  <2> HIDE DEF h
  <2>3. QED
    BY <2>1, <2>2 DEF LEDsNeeds, LEDFlags, Buttons
<1>4. CASE \E target \in Targets \union {"all"} : LEDs!triggerPreview(target)
  <2>0. PICK target \in Targets \union {"all"} : LEDs!triggerPreview(target)
    BY <1>4
  <2> DEFINE h == [ask |-> "preview", target |-> target]
  <2>1. LEDsKnown(h) /\ "again" \notin DOMAIN h /\ "previewLoading" \in LEDsBrings(h)
    BY DEF LEDsKnown, LEDsBrings, Buttons
  <2>2. LEDs!Begins(h) /\ ui' = [ui EXCEPT !.previewLoading = TRUE]
    BY <2>0 DEF LEDs!triggerPreview
  <2> HIDE DEF h
  <2>3. QED
    BY <2>1, <2>2 DEF LEDsNeeds, LEDFlags, Buttons
<1>5. CASE LEDs!handlePreviewStop
  <2> DEFINE h == [ask |-> "clear"]
  <2>1. LEDsKnown(h) /\ "again" \notin DOMAIN h /\ "stopLoading" \in LEDsBrings(h)
    BY DEF LEDsKnown, LEDsBrings, Buttons
  <2>2. LEDs!Begins(h) /\ ui' = [ui EXCEPT !.stopLoading = TRUE]
    BY <1>5 DEF LEDs!handlePreviewStop
  <2> HIDE DEF h
  <2>3. QED
    BY <2>1, <2>2 DEF LEDsNeeds, LEDFlags, Buttons
<1>6. CASE \E z \in ZoneTypes : LEDs!handleZoneTypeSave(z)
  <2> DEFINE h == [ask |-> "zoneType"]
  <2>1. LEDsKnown(h) /\ "again" \notin DOMAIN h /\ "zoneTypeSaving" \in LEDsBrings(h)
    BY DEF LEDsKnown, LEDsBrings, Buttons
  <2>2. LEDs!Begins(h) /\ \E z \in ZoneTypes : ui' = [ui EXCEPT !.zoneTypeSaving = z]
    BY <1>6 DEF LEDs!handleZoneTypeSave
  <2> HIDE DEF h
  <2>3. QED
    BY <2>1, <2>2 DEF LEDsNeeds, LEDFlags, Buttons
<1>7. CASE \/ LEDs!handleSave \/ LEDs!handleJobSettingsSave
           \/ LEDs!handleMappingSave \/ LEDs!handleMappingValidate
  <2>1. PICK what \in Buttons : LEDs!Save(what)
    BY <1>7 DEF Buttons, LEDs!handleSave, LEDs!handleJobSettingsSave,
              LEDs!handleMappingSave, LEDs!handleMappingValidate
  <2> DEFINE h == [ask |-> "save", what |-> what]
  <2>2. LEDsKnown(h) /\ "again" \notin DOMAIN h /\ what \in LEDsBrings(h)
    BY DEF LEDsKnown, LEDsBrings, Buttons
  <2>3. LEDs!Begins(h) /\ ui' = [ui EXCEPT !.saving = @ \union {what}]
    BY <2>1 DEF LEDs!Save
  <2> HIDE DEF h
  <2>4. /\ LEDFlags \subseteq DOMAIN ui' /\ ui'.saving \subseteq Buttons
        /\ LEDsNeeds(ui') \subseteq LEDsNeeds(ui) \union {what}
    BY <2>3 DEF LEDsNeeds, LEDFlags, Buttons
  <2>5. QED
    BY <2>2, <2>3, <2>4
<1>8. CASE \E h \in calls : LEDs!Answer(h)
  <2>1. PICK h \in calls : LEDs!Answer(h)
    BY <1>8
  <2>2. "again" \notin DOMAIN h /\ LEDsKnown(h)
    BY <2>1 DEF LEDs!Answer, LEDs!Awaits, LEDs!loadDefaults, LEDs!loadZoneTypes,
                LEDs!MappingLoaded, LEDs!Saved, LEDs!ZoneTypeSaved, LEDs!Previewed,
                LEDs!Stopped
  <2> DEFINE Less(new) ==
        /\ LEDFlags \subseteq DOMAIN ui' /\ ui'.saving \subseteq Buttons
        /\ LEDsNeeds(ui')
             \subseteq (LEDsNeeds(ui) \ LEDsBrings(h)) \union new
  <2>3. CASE LEDs!loadDefaults(h)
    <3>1. LEDs!Ends(h) /\ Less({})
      BY <2>3 DEF LEDsNeeds, LEDsBrings, LEDFlags, Buttons, LEDs!Awaits,
                  LEDs!loadDefaults
    <3>2. QED
      BY <2>2, <3>1
  <2>4. CASE LEDs!loadZoneTypes(h)
    <3>1. LEDs!Ends(h) /\ Less({})
      BY <2>4 DEF LEDsNeeds, LEDsBrings, LEDFlags, Buttons, LEDs!Awaits,
                  LEDs!loadZoneTypes
    <3>2. QED
      BY <2>2, <3>1
  <2>5. CASE LEDs!MappingLoaded(h)
    <3>1. LEDs!Ends(h) /\ Less({})
      BY <2>5 DEF LEDsNeeds, LEDsBrings, LEDFlags, Buttons, LEDs!Awaits,
                  LEDs!MappingLoaded
    <3>2. QED
      BY <2>2, <3>1
  <2>6. CASE LEDs!Saved(h)
    <3>1. LEDs!Ends(h) /\ Less({})
      BY <2>6 DEF LEDsNeeds, LEDsBrings, LEDFlags, Buttons, LEDs!Awaits, LEDs!Saved
    <3>2. QED
      BY <2>2, <3>1
  <2>7. CASE LEDs!Previewed(h)
    <3>1. LEDs!Ends(h) /\ Less({})
      BY <2>7 DEF LEDsNeeds, LEDsBrings, LEDFlags, Buttons, LEDs!Awaits, LEDs!Previewed
    <3>2. QED
      BY <2>2, <3>1
  <2>8. CASE LEDs!Stopped(h)
    <3>1. \/ ui' = [ui EXCEPT !.stopLoading = FALSE]
          \/ ui' = [ui EXCEPT !.stopLoading = FALSE, !.previewActive = FALSE,
                              !.previewTarget = LEDs!None]
      BY <2>8 DEF LEDs!Stopped
    <3>2. /\ LEDFlags \subseteq DOMAIN ui' /\ ui'.saving \subseteq Buttons
          /\ LEDsNeeds(ui') \subseteq LEDsNeeds(ui) \ {"stopLoading"}
      BY <3>1 DEF LEDsNeeds, LEDFlags, Buttons
    <3>3. LEDs!Ends(h) /\ LEDsBrings(h) \subseteq {"stopLoading"}
      BY <2>8 DEF LEDs!Stopped, LEDs!Awaits, LEDsBrings, Buttons
    <3>4. QED
      BY <2>2, <3>2, <3>3
  <2>9. CASE LEDs!ZoneTypeSaved(h)
    <3>1. /\ LEDs!Ends(h) \/ LEDs!GoesOnAs(h, [h EXCEPT !.ask = "zoneTypes"])
          /\ Less({})
      BY <2>9 DEF LEDsNeeds, LEDsBrings, LEDFlags, Buttons, LEDs!Awaits,
                  LEDs!ZoneTypeSaved, LEDs!GoesOn
    <3>2. /\ "again" \notin DOMAIN [h EXCEPT !.ask = "zoneTypes"]
          /\ LEDsKnown([h EXCEPT !.ask = "zoneTypes"])
      BY <2>2 DEF LEDsKnown
    <3>3. QED
      BY <2>2, <3>1, <3>2
  <2>10. QED
    BY <2>1, <2>3, <2>4, <2>5, <2>6, <2>7, <2>8, <2>9 DEF LEDs!Answer
<1>9. QED
  BY <1>1, <1>2, <1>3, <1>4, <1>5, <1>6, <1>7, <1>8, LEDsButtons DEF LEDs!Next

\* At first it waits for what is asked for at once.
LEMMA LEDsWaitInits == LEDs!Init => LEDsWaits
BY DEF LEDs!Init, LEDsWaits, LEDsKnown, LEDsNeeds, LEDsBrings, LEDFlags

\* So it does not wait for an answer that will not come.
LEMMA LEDsWaitsForAnswers == LEDsWaits => LEDs!NoSpinnerLeft
BY DEF LEDsWaits, LEDsNeeds, LEDsBrings, LEDs!NoSpinnerLeft, Buttons, LEDFlags

(***************************************************************************)
(* The packages tab: what it waits for.                                    *)
(***************************************************************************)

\* What the page does to its handlers is what ReactPage says.
LEMMA PackagesTHandlers ==
  ASSUME NEW h, "again" \notin DOMAIN h
  PROVE  /\ PackagesT!Begins(h)
              => /\ calls \subseteq calls'
                 /\ \A c \in calls' : c \in calls \/ Like(c, h)
                 /\ \E c \in calls' : Like(c, h)
         /\ PackagesT!Ends(h) => /\ calls' \subseteq calls
                                  /\ \A c \in calls \ calls' : Like(c, h)
         /\ \A next : "again" \notin DOMAIN next /\ PackagesT!GoesOnAs(h, next)
              => /\ \A c \in calls' : c \in calls \/ Like(c, next)
                 /\ \E c \in calls' : Like(c, next)
                 /\ \A c \in calls \ calls' : Like(c, h)
<1>1. PackagesT!Begins(h) => Joins(h, calls)
  BY DEF PackagesT!Begins, PackagesT!Joins, Joins, PackagesT!Again, Again
<1>2. PackagesT!Ends(h) <=> Ends(h)
  BY DEF PackagesT!Ends, Ends, PackagesT!Without, Without, PackagesT!Again, Again
<1>3. \A next : PackagesT!GoesOnAs(h, next) => GoesOnAs(h, next)
  BY DEF PackagesT!GoesOnAs, GoesOnAs, PackagesT!Joins, Joins, PackagesT!Without,
         Without,
         PackagesT!Again, Again
<1>4. QED
  BY <1>1, <1>2, <1>3, Joined, Ended, WentOn

\* What a handler tells of itself.
PackagesTKnown(c) ==
  /\ "ask" \in DOMAIN c

\* What the page waits for, and what the answer to a handler brings.
PackagesTNeeds(u) ==
  {n \in {"loading", "loadingDevices", "submitting"} :
     \/ n = "loading" /\ u.loading
     \/ n = "loadingDevices" /\ u.loadingDevices
     \/ n = "submitting" /\ u.submitting}

PackagesTBrings(c) ==
  {n \in {"loading", "loadingDevices", "submitting"} :
     \/ n = "loading" /\ c.ask = "list"
     \/ n = "loadingDevices" /\ c.ask \in {"devices", "added"}
     \/ n = "submitting" /\ c.ask \in {"save", "saved", "saveDevices", "pictures"}}

\* What it waits for is on the way.
PackagesTWaits ==
  /\ {"loading", "loadingDevices", "submitting"} \subseteq DOMAIN ui
  /\ \A c \in calls : PackagesTKnown(c)
  /\ \A n \in PackagesTNeeds(ui) : \E c \in calls : n \in PackagesTBrings(c)

\* A handler that is like another brings the same.
LEMMA PackagesTAlike ==
  ASSUME NEW c, NEW h, Like(c, h), PackagesTKnown(h)
  PROVE  PackagesTKnown(c) /\ PackagesTBrings(c) = PackagesTBrings(h)
BY DEF Like, PackagesTKnown, PackagesTBrings

\* What a step may do: it waits for no more, or for what a new handler brings;
\* what an answer brings is no longer waited for.
PackagesTStep ==
  /\ {"loading", "loadingDevices", "submitting"} \subseteq DOMAIN ui'
  /\ \/ UNCHANGED calls /\ PackagesTNeeds(ui') \subseteq PackagesTNeeds(ui)
     \/ \E h : /\ PackagesTKnown(h) /\ "again" \notin DOMAIN h /\ PackagesT!Begins(h)
              /\ PackagesTNeeds(ui') \subseteq PackagesTNeeds(ui) \union PackagesTBrings(h)
     \/ \E h \in calls : /\ "again" \notin DOMAIN h /\ PackagesT!Ends(h)
                       /\ PackagesTNeeds(ui') \subseteq PackagesTNeeds(ui) \ PackagesTBrings(h)
     \/ \E h \in calls : \E next :
          /\ "again" \notin DOMAIN h /\ "again" \notin DOMAIN next
          /\ PackagesTKnown(next)
          /\ PackagesT!GoesOnAs(h, next)
          /\ PackagesTNeeds(ui')
               \subseteq (PackagesTNeeds(ui) \ PackagesTBrings(h)) \union PackagesTBrings(next)

\* Such a step leaves nothing waiting for an answer that will not come.
LEMMA PackagesTKept == PackagesTWaits /\ PackagesTStep => PackagesTWaits'
BY PackagesTHandlers, PackagesTAlike DEF PackagesTWaits, PackagesTStep

\* Every step of the page is one.
LEMMA PackagesTWaitSteps == PackagesTWaits /\ PackagesT!Next => PackagesTWaits'
<1> SUFFICES ASSUME PackagesTWaits, PackagesT!Next PROVE PackagesTStep
  BY PackagesTKept
<1> USE DEF PackagesTWaits, PackagesTStep
<1>0. /\ "again" \notin DOMAIN PackagesT!Load /\ PackagesTKnown(PackagesT!Load)
      /\ PackagesTBrings(PackagesT!Load) = {"loading"}
  BY DEF PackagesT!Load, PackagesTKnown, PackagesTBrings
<1>1. CASE \/ PackagesT!CloseView \/ PackagesT!OpenNew \/ PackagesT!handleRemoveDevice
           \/ PackagesT!handleCloseModal
  BY <1>1 DEF PackagesTNeeds, PackagesT!CloseView, PackagesT!OpenNew,
            PackagesT!handleRemoveDevice, PackagesT!handleCloseModal, PackagesT!Closed
<1>2. CASE \/ \E f \in Pictures : PackagesT!handleImageFileChange(f)
           \/ \E i \in DOMAIN ui.imageFiles :
                PackagesT!handleSetThumbnail(i) \/ PackagesT!handleRemoveImage(i)
  BY <1>2 DEF PackagesTNeeds, PackagesT!handleImageFileChange,
            PackagesT!handleSetThumbnail, PackagesT!handleRemoveImage
<1>3. CASE \/ PackagesT!handleDelete \/ PackagesT!handleViewPackage
           \/ PackagesT!handleAddDevices
           \/ \E p \in Packages : PackagesT!handleOpenModal(p)
  <2>1. \E h \in {[ask |-> "delete"], [ask |-> "view"], [ask |-> "product"],
               [ask |-> "package"]} :
          PackagesT!Begins(h)
    BY <1>3 DEF PackagesT!handleDelete, PackagesT!handleViewPackage,
              PackagesT!handleAddDevices, PackagesT!handleOpenModal
  <2>2. \A h \in {[ask |-> "delete"], [ask |-> "view"], [ask |-> "product"],
               [ask |-> "package"]} :
          PackagesTKnown(h) /\ "again" \notin DOMAIN h
    BY DEF PackagesTKnown
  <2>3. /\ {"loading", "loadingDevices", "submitting"} \subseteq DOMAIN ui'
        /\ PackagesTNeeds(ui') \subseteq PackagesTNeeds(ui)
    BY <1>3 DEF PackagesTNeeds, PackagesT!handleDelete, PackagesT!handleViewPackage,
              PackagesT!handleAddDevices, PackagesT!handleOpenModal
  <2>4. QED
    BY <2>1, <2>2, <2>3
<1>4. CASE PackagesT!fetchPackages
  <2>1. /\ PackagesTKnown(PackagesT!Load) /\ "again" \notin DOMAIN PackagesT!Load
        /\ "loading" \in PackagesTBrings(PackagesT!Load)
    BY DEF PackagesT!Load, PackagesTKnown, PackagesTBrings
  <2>2. QED
    BY <1>4, <2>1 DEF PackagesTNeeds, PackagesT!fetchPackages
<1>5. CASE PackagesT!handleSubmit
  <2> DEFINE h == [ask |-> "save", of |-> ui.editing, marked |-> ui.marked,
                    pictures |-> ui.imageFiles # <<>>]
  <2>1. PackagesTKnown(h) /\ "again" \notin DOMAIN h /\ "submitting" \in PackagesTBrings(h)
    BY DEF PackagesTKnown, PackagesTBrings
  <2>2. PackagesT!Begins(h) /\ ui' = [ui EXCEPT !.submitting = TRUE]
    BY <1>5 DEF PackagesT!handleSubmit
  <2> HIDE DEF h
  <2>3. QED
    BY <2>1, <2>2 DEF PackagesTNeeds
<1>6. CASE \E h \in calls : PackagesT!Answer(h)
  <2>1. PICK h \in calls : PackagesT!Answer(h)
    BY <1>6
  <2>2. "again" \notin DOMAIN h /\ PackagesTKnown(h)
    BY <2>1 DEF PackagesT!Answer, PackagesT!Awaits, PackagesT!Listed,
                PackagesT!Deleted, PackagesT!Viewed, PackagesT!PackageLoaded,
                PackagesT!DevicesLoaded, PackagesT!ProductKnown,
                PackagesT!DevicesAdded, PackagesT!AddedLoaded, PackagesT!Saved,
                PackagesT!SavedLoaded, PackagesT!DevicesSaved, PackagesT!PicturesSaved
  <2> DEFINE Less(new) ==
        /\ {"loading", "loadingDevices", "submitting"} \subseteq DOMAIN ui'
        /\ PackagesTNeeds(ui')
             \subseteq (PackagesTNeeds(ui) \ PackagesTBrings(h)) \union new
  <2>3. CASE PackagesT!Listed(h) \/ PackagesT!Viewed(h)
    <3>1. PackagesT!Ends(h) /\ Less({})
      BY <2>3 DEF PackagesTNeeds, PackagesTBrings, PackagesT!Awaits, PackagesT!Listed,
                  PackagesT!Viewed
    <3>2. QED
      BY <2>2, <3>1
  <2>4. CASE PackagesT!DevicesLoaded(h) \/ PackagesT!AddedLoaded(h)
    <3>1. PackagesT!Ends(h) /\ Less({})
      BY <2>4 DEF PackagesTNeeds, PackagesTBrings, PackagesT!Awaits,
                  PackagesT!DevicesLoaded, PackagesT!AddedLoaded,
                  PackagesT!loadPackageDevices
    <3>2. QED
      BY <2>2, <3>1
  <2>5. CASE PackagesT!Deleted(h)
    <3>1. \/ PackagesT!Ends(h) /\ Less({})
          \/ PackagesT!GoesOnAs(h, PackagesT!Load) /\ Less({"loading"})
      BY <2>5 DEF PackagesTNeeds, PackagesTBrings, PackagesT!Awaits, PackagesT!Deleted
    <3>2. QED
      BY <1>0, <2>2, <3>1
  <2>6. CASE \/ PackagesT!PackageLoaded(h) \/ PackagesT!DevicesAdded(h)
             \/ PackagesT!ProductKnown(h)
    <3>1. \/ PackagesT!Ends(h) /\ Less({})
          \/ \E ask \in {"devices", "added"} :
               PackagesT!GoesOnAs(h, [h EXCEPT !.ask = ask]) /\ Less({"loadingDevices"})
          \/ PackagesT!GoesOnAs(h, [h EXCEPT !.ask = "add"]) /\ Less({})
      BY <2>6 DEF PackagesTNeeds, PackagesTBrings, PackagesT!Awaits,
                  PackagesT!PackageLoaded, PackagesT!DevicesAdded,
                  PackagesT!ProductKnown, PackagesT!GoesOn
    <3>2. \A ask : /\ "again" \notin DOMAIN [h EXCEPT !.ask = ask]
                   /\ PackagesTKnown([h EXCEPT !.ask = ask])
                   /\ ask \in {"devices", "added"}
                        => "loadingDevices" \in PackagesTBrings([h EXCEPT !.ask = ask])
      BY <2>2 DEF PackagesTKnown, PackagesTBrings
    <3>3. QED
      BY <2>2, <3>1, <3>2
  <2>7. CASE \/ PackagesT!Saved(h) \/ PackagesT!SavedLoaded(h)
             \/ PackagesT!DevicesSaved(h) \/ PackagesT!PicturesSaved(h)
    <3>1. \/ PackagesT!Ends(h) /\ Less({})
          \/ PackagesT!GoesOnAs(h, PackagesT!Load) /\ Less({"loading"})
          \/ \E ask \in {"saved", "saveDevices", "pictures"} :
               PackagesT!GoesOnAs(h, [h EXCEPT !.ask = ask]) /\ Less({"submitting"})
      BY <2>7 DEF PackagesTNeeds, PackagesTBrings, PackagesT!Awaits, PackagesT!Saved,
                  PackagesT!SavedLoaded, PackagesT!DevicesSaved,
                  PackagesT!PicturesSaved, PackagesT!Upload, PackagesT!Finish,
                  PackagesT!NotSaved, PackagesT!Closed, PackagesT!GoesOn
    <3>2. \A ask : /\ "again" \notin DOMAIN [h EXCEPT !.ask = ask]
                   /\ PackagesTKnown([h EXCEPT !.ask = ask])
                   /\ ask \in {"saved", "saveDevices", "pictures"}
                        => "submitting" \in PackagesTBrings([h EXCEPT !.ask = ask])
      BY <2>2 DEF PackagesTKnown, PackagesTBrings
    <3>3. QED
      BY <1>0, <2>2, <3>1, <3>2
  <2>8. QED
    BY <2>1, <2>3, <2>4, <2>5, <2>6, <2>7 DEF PackagesT!Answer
<1>7. QED
  BY <1>1, <1>2, <1>3, <1>4, <1>5, <1>6 DEF PackagesT!Next

\* At first it waits for what is asked for at once.
LEMMA PackagesTWaitInits == PackagesT!Init => PackagesTWaits
BY DEF PackagesT!Init, PackagesTWaits, PackagesTKnown, PackagesTNeeds, PackagesTBrings,
       PackagesT!Load

\* So it does not wait for an answer that will not come.
LEMMA PackagesTWaitsForAnswers == PackagesTWaits => PackagesT!NoSpinnerLeft
BY DEF PackagesTWaits, PackagesTNeeds, PackagesTBrings, PackagesT!NoSpinnerLeft

(***************************************************************************)
(* The products tab: what it waits for.                                    *)
(***************************************************************************)

\* What the page does to its handlers is what ReactPage says.
LEMMA ProductsTHandlers ==
  ASSUME NEW h, "again" \notin DOMAIN h
  PROVE  /\ ProductsT!Begins(h)
              => /\ calls \subseteq calls'
                 /\ \A c \in calls' : c \in calls \/ Like(c, h)
                 /\ \E c \in calls' : Like(c, h)
         /\ ProductsT!Ends(h) => /\ calls' \subseteq calls
                                  /\ \A c \in calls \ calls' : Like(c, h)
         /\ \A next : "again" \notin DOMAIN next /\ ProductsT!GoesOnAs(h, next)
              => /\ \A c \in calls' : c \in calls \/ Like(c, next)
                 /\ \E c \in calls' : Like(c, next)
                 /\ \A c \in calls \ calls' : Like(c, h)
<1>1. ProductsT!Begins(h) => Joins(h, calls)
  BY DEF ProductsT!Begins, ProductsT!Joins, Joins, ProductsT!Again, Again
<1>2. ProductsT!Ends(h) <=> Ends(h)
  BY DEF ProductsT!Ends, Ends, ProductsT!Without, Without, ProductsT!Again, Again
<1>3. \A next : ProductsT!GoesOnAs(h, next) => GoesOnAs(h, next)
  BY DEF ProductsT!GoesOnAs, GoesOnAs, ProductsT!Joins, Joins, ProductsT!Without,
         Without,
         ProductsT!Again, Again
<1>4. QED
  BY <1>1, <1>2, <1>3, Joined, Ended, WentOn

\* What a handler tells of itself.
ProductsTKnown(c) ==
  /\ "ask" \in DOMAIN c
  /\ c.ask = "list" => "from" \in DOMAIN c

\* What the page waits for, and what the answer to a handler brings.
ProductsTNeeds(u) ==
  {n \in {"loading", "refreshing", "loadingDevices", "submitting"} :
     \/ n = "loading" /\ u.loading
     \/ n = "refreshing" /\ u.refreshing
     \/ n = "loadingDevices" /\ u.loadingDevices
     \/ n = "submitting" /\ u.submitting}

ProductsTBrings(c) ==
  {n \in {"loading", "refreshing", "loadingDevices", "submitting"} :
     \/ n = "loading" /\ c.ask = "list"
     \/ n = "refreshing" /\ c.ask = "list" /\ c.from = "refresh"
     \/ n = "loadingDevices" /\ c.ask \in {"devices", "added"}
     \/ /\ n = "submitting"
        /\ \/ c.ask \in {"save", "saveDevices", "values"}
           \/ c.ask = "list" /\ c.from = "submit"}

\* What it waits for is on the way.
ProductsTWaits ==
  /\ {"loading", "refreshing", "loadingDevices", "submitting"} \subseteq DOMAIN ui
  /\ \A c \in calls : ProductsTKnown(c)
  /\ \A n \in ProductsTNeeds(ui) : \E c \in calls : n \in ProductsTBrings(c)

\* A handler that is like another brings the same.
LEMMA ProductsTAlike ==
  ASSUME NEW c, NEW h, Like(c, h), ProductsTKnown(h)
  PROVE  ProductsTKnown(c) /\ ProductsTBrings(c) = ProductsTBrings(h)
BY DEF Like, ProductsTKnown, ProductsTBrings

\* What a step may do: it waits for no more, or for what a new handler brings;
\* what an answer brings is no longer waited for.
ProductsTStep ==
  /\ {"loading", "refreshing", "loadingDevices", "submitting"} \subseteq DOMAIN ui'
  /\ \/ UNCHANGED calls /\ ProductsTNeeds(ui') \subseteq ProductsTNeeds(ui)
     \/ \E h : /\ ProductsTKnown(h) /\ "again" \notin DOMAIN h /\ ProductsT!Begins(h)
              /\ ProductsTNeeds(ui') \subseteq ProductsTNeeds(ui) \union ProductsTBrings(h)
     \/ \E h \in calls : /\ "again" \notin DOMAIN h /\ ProductsT!Ends(h)
                       /\ ProductsTNeeds(ui') \subseteq ProductsTNeeds(ui) \ ProductsTBrings(h)
     \/ \E h \in calls : \E next :
          /\ "again" \notin DOMAIN h /\ "again" \notin DOMAIN next
          /\ ProductsTKnown(next)
          /\ ProductsT!GoesOnAs(h, next)
          /\ ProductsTNeeds(ui')
               \subseteq (ProductsTNeeds(ui) \ ProductsTBrings(h)) \union ProductsTBrings(next)

\* Such a step leaves nothing waiting for an answer that will not come.
LEMMA ProductsTKept == ProductsTWaits /\ ProductsTStep => ProductsTWaits'
BY ProductsTHandlers, ProductsTAlike DEF ProductsTWaits, ProductsTStep

\* Every step of the page is one.
LEMMA ProductsTWaitSteps == ProductsTWaits /\ ProductsT!Next => ProductsTWaits'
<1> SUFFICES ASSUME ProductsTWaits, ProductsT!Next PROVE ProductsTStep
  BY ProductsTKept
<1> USE DEF ProductsTWaits, ProductsTStep
<1>0. /\ \A from : /\ "again" \notin DOMAIN ProductsT!Load(from)
                   /\ ProductsTKnown(ProductsT!Load(from))
                   /\ ProductsTBrings(ProductsT!Load(from))
                        = {"loading"} \union (IF from = "refresh" THEN {"refreshing"} ELSE {})
                            \union (IF from = "submit" THEN {"submitting"} ELSE {})
      /\ \A then, of : /\ "again" \notin DOMAIN ProductsT!Metadata(then, of)
                       /\ ProductsTKnown(ProductsT!Metadata(then, of))
      /\ \A p : /\ "again" \notin DOMAIN ProductsT!Product(p)
                /\ ProductsTKnown(ProductsT!Product(p))
  BY DEF ProductsT!Load, ProductsT!Metadata, ProductsT!Product, ProductsTKnown,
         ProductsTBrings
<1>1. CASE \/ ProductsT!DeselectAll \/ ProductsT!OpenBulkEdit
           \/ ProductsT!CloseBulkEdit \/ ProductsT!OpenDependencies
           \/ ProductsT!CloseOverlay \/ ProductsT!TypeField
           \/ ProductsT!handleRemoveDevice \/ ProductsT!CloseForm
           \/ \E view \in ProductsT!Views : ProductsT!setViewMode(view)
  BY <1>1 DEF ProductsTNeeds, ProductsT!setViewMode, ProductsT!DeselectAll, ProductsT!OpenBulkEdit,
            ProductsT!CloseBulkEdit, ProductsT!OpenDependencies,
            ProductsT!CloseOverlay, ProductsT!TypeField, ProductsT!handleRemoveDevice,
            ProductsT!CloseForm, ProductsT!closeModal
<1>2. CASE \/ ProductsT!toggleSelectAllProducts
           \/ \E p \in Products : ProductsT!toggleProductSelection(p)
  BY <1>2 DEF ProductsTNeeds, ProductsT!toggleSelectAllProducts,
            ProductsT!toggleProductSelection
<1>3. CASE \/ ProductsT!handleBulkDeleteProducts
           \/ ProductsT!handleBulkEditProductsSubmit \/ ProductsT!handleDelete
           \/ ProductsT!handleConvertToCase \/ ProductsT!handleViewProduct
           \/ ProductsT!handleAddDevices
  <2> DEFINE Asks == {"bulkDelete", "bulkEdit", "delete", "convert", "view", "add"}
  <2>1. \/ UNCHANGED calls
        \/ \E ask \in Asks : ProductsT!Begins([ask |-> ask])
    BY <1>3 DEF ProductsT!handleBulkDeleteProducts,
                ProductsT!handleBulkEditProductsSubmit,
              ProductsT!handleDelete, ProductsT!handleConvertToCase,
              ProductsT!handleViewProduct, ProductsT!handleAddDevices
  <2>2. \A ask \in Asks : /\ ProductsTKnown([ask |-> ask])
                         /\ "again" \notin DOMAIN [ask |-> ask]
    BY DEF ProductsTKnown
  <2>3. /\ {"loading", "refreshing", "loadingDevices", "submitting"} \subseteq DOMAIN ui'
        /\ ProductsTNeeds(ui') \subseteq ProductsTNeeds(ui)
    BY <1>3 DEF ProductsTNeeds, ProductsT!handleBulkDeleteProducts,
              ProductsT!handleBulkEditProductsSubmit, ProductsT!handleDelete,
              ProductsT!handleConvertToCase, ProductsT!handleViewProduct,
              ProductsT!handleAddDevices
  <2>4. QED
    BY <2>1, <2>2, <2>3
<1>4. CASE ProductsT!FilterChanged \/ ProductsT!handleRefresh
  <2>1. \/ /\ ProductsT!Begins(ProductsT!Load("load"))
           /\ ui' = [ui EXCEPT !.loading = TRUE, !.selected = {}]
        \/ /\ ProductsT!Begins(ProductsT!Load("refresh"))
           /\ ui' = [ui EXCEPT !.loading = TRUE, !.refreshing = TRUE]
    BY <1>4 DEF ProductsT!FilterChanged, ProductsT!handleRefresh
  <2>2. \/ /\ ProductsT!Begins(ProductsT!Load("load"))
           /\ ProductsTNeeds(ui') \subseteq ProductsTNeeds(ui) \union {"loading"}
        \/ /\ ProductsT!Begins(ProductsT!Load("refresh"))
           /\ ProductsTNeeds(ui') \subseteq ProductsTNeeds(ui) \union {"loading", "refreshing"}
    BY <2>1 DEF ProductsTNeeds
  <2>3. {"loading", "refreshing", "loadingDevices", "submitting"} \subseteq DOMAIN ui'
    BY <2>1
  <2>4. QED
    BY <1>0, <2>2, <2>3
<1>5. CASE ProductsT!handleOpenCreateModal \/ \E p \in Products : ProductsT!handleEditProduct(p)
  <2>1. \/ UNCHANGED calls
        \/ \E then, of : ProductsT!Begins(ProductsT!Metadata(then, of))
        \/ \E p : ProductsT!Begins(ProductsT!Product(p))
    BY <1>5 DEF ProductsT!handleOpenCreateModal, ProductsT!handleEditProduct
  <2>2. /\ {"loading", "refreshing", "loadingDevices", "submitting"} \subseteq DOMAIN ui'
        /\ ProductsTNeeds(ui') \subseteq ProductsTNeeds(ui)
    BY <1>5 DEF ProductsTNeeds, ProductsT!handleOpenCreateModal,
                ProductsT!handleEditProduct,
              ProductsT!OpenCreate
  <2>3. QED
    BY <1>0, <2>1, <2>2
<1>6. CASE ProductsT!handleSubmit
  <2> DEFINE h == [ask |-> "save", of |-> ui.editing, filled |-> ui.filled,
                    defs |-> ui.defs, marked |-> ui.marked]
  <2>1. ProductsTKnown(h) /\ "again" \notin DOMAIN h /\ "submitting" \in ProductsTBrings(h)
    BY DEF ProductsTKnown, ProductsTBrings
  <2>2. ProductsT!Begins(h) /\ ui' = [ui EXCEPT !.submitting = TRUE]
    BY <1>6 DEF ProductsT!handleSubmit
  <2> HIDE DEF h
  <2>3. QED
    BY <2>1, <2>2 DEF ProductsTNeeds
<1>7. CASE \E h \in calls : ProductsT!Answer(h)
  <2>1. PICK h \in calls : ProductsT!Answer(h)
    BY <1>7, SMTT(60)
  <2>2. "again" \notin DOMAIN h /\ ProductsTKnown(h)
    BY <2>1 DEF ProductsT!Answer, ProductsT!Awaits, ProductsT!Listed,
                ProductsT!BulkDone, ProductsT!Deleted, ProductsT!Converted,
                ProductsT!Viewed, ProductsT!MetadataLoaded,
                ProductsT!DefinitionsLoaded, ProductsT!ProductLoaded,
                ProductsT!DevicesLoaded, ProductsT!FieldsLoaded,
                ProductsT!DevicesAdded, ProductsT!AddedLoaded, ProductsT!Saved,
                ProductsT!DevicesSaved, ProductsT!FieldsSaved
  <2> DEFINE Less(new) ==
        /\ {"loading", "refreshing", "loadingDevices", "submitting"} \subseteq DOMAIN ui'
        /\ ProductsTNeeds(ui')
             \subseteq (ProductsTNeeds(ui) \ ProductsTBrings(h)) \union new
  <2>3. CASE ProductsT!Listed(h)
    <3>1. ProductsT!Ends(h) /\ Less({})
      BY <2>3, ZenonT(60) DEF ProductsTNeeds, ProductsTBrings, ProductsT!Awaits,
         ProductsT!Listed,
                  ProductsT!Show, ProductsT!closeModal
    <3>2. QED
      BY <2>2, <3>1
  <2>4. CASE ProductsT!Converted(h) \/ ProductsT!Viewed(h) \/ ProductsT!FieldsLoaded(h)
    <3>1. ProductsT!Ends(h) /\ Less({})
      BY <2>4 DEF ProductsTNeeds, ProductsTBrings, ProductsT!Awaits,
                  ProductsT!Converted, ProductsT!Viewed, ProductsT!FieldsLoaded
    <3>2. QED
      BY <2>2, <3>1
  <2>5. CASE ProductsT!AddedLoaded(h)
    <3>1. ProductsT!Ends(h) /\ Less({})
      BY <2>5 DEF ProductsTNeeds, ProductsTBrings, ProductsT!Awaits,
                  ProductsT!AddedLoaded, ProductsT!loadProductDevices
    <3>2. QED
      BY <2>2, <3>1
  <2>6. CASE ProductsT!BulkDone(h) \/ ProductsT!Deleted(h)
    <3>1. \/ ProductsT!Ends(h) /\ Less({})
          \/ ProductsT!GoesOnAs(h, ProductsT!Load("load")) /\ Less({"loading"})
      BY <2>6, ZenonT(60) DEF ProductsTNeeds, ProductsTBrings, ProductsT!Awaits,
                  ProductsT!BulkDone, ProductsT!Deleted, ProductsT!LoadAgain
    <3>2. QED
      BY <1>0, <2>2, <3>1
  <2>7. CASE ProductsT!MetadataLoaded(h) \/ ProductsT!DevicesLoaded(h)
    <3>1. \E ask \in {"definitions", "fields"} :
            ProductsT!GoesOnAs(h, [h EXCEPT !.ask = ask]) /\ Less({})
      BY <2>7 DEF ProductsTNeeds, ProductsTBrings, ProductsT!Awaits,
                  ProductsT!MetadataLoaded, ProductsT!DevicesLoaded,
                  ProductsT!loadProductDevices, ProductsT!GoesOn
    <3>2. \A ask \in {"definitions", "fields"} :
            /\ "again" \notin DOMAIN [h EXCEPT !.ask = ask]
            /\ ProductsTKnown([h EXCEPT !.ask = ask])
      BY <2>2 DEF ProductsTKnown, ProductsTBrings
    <3>3. QED
      BY <1>0, <2>2, <3>1, <3>2
  <2>8. CASE ProductsT!DefinitionsLoaded(h)
    <3>1. PICK u \in {[ui EXCEPT !.defs = TRUE, !.defsFailed = FALSE],
                     [ui EXCEPT !.defsFailed = TRUE]} :
            ui' = ProductsT!OpenCreate(u) \/ ui' = u
      BY <2>8 DEF ProductsT!DefinitionsLoaded
    <3>2. /\ {"loading", "refreshing", "loadingDevices", "submitting"} \subseteq DOMAIN ui'
          /\ ProductsTNeeds(ui') \subseteq ProductsTNeeds(ui)
      BY <3>1 DEF ProductsTNeeds, ProductsT!OpenCreate
    <3>3. ProductsTBrings(h) = {}
      BY <2>8 DEF ProductsTBrings, ProductsT!DefinitionsLoaded, ProductsT!Awaits
    <3>4. \/ ProductsT!Ends(h)
          \/ \E p : ProductsT!GoesOnAs(h, ProductsT!Product(p))
      BY <2>8 DEF ProductsT!DefinitionsLoaded
    <3>5. QED
      BY <1>0, <2>2, <3>2, <3>3, <3>4
  <2>9. CASE ProductsT!ProductLoaded(h) \/ ProductsT!DevicesAdded(h)
    <3>1. \/ ProductsT!Ends(h) /\ Less({})
          \/ \E ask \in {"devices", "added"} :
               ProductsT!GoesOnAs(h, [h EXCEPT !.ask = ask]) /\ Less({"loadingDevices"})
      BY <2>9 DEF ProductsTNeeds, ProductsTBrings, ProductsT!Awaits,
                  ProductsT!ProductLoaded, ProductsT!DevicesAdded, ProductsT!GoesOn
    <3>2. \A ask \in {"devices", "added"} :
            /\ "again" \notin DOMAIN [h EXCEPT !.ask = ask]
            /\ ProductsTKnown([h EXCEPT !.ask = ask])
            /\ "loadingDevices" \in ProductsTBrings([h EXCEPT !.ask = ask])
      BY <2>2 DEF ProductsTKnown, ProductsTBrings
    <3>3. QED
      BY <1>0, <2>2, <3>1, <3>2
  <2>10. CASE ProductsT!Saved(h) \/ ProductsT!DevicesSaved(h) \/ ProductsT!FieldsSaved(h)
    <3>1. \/ ProductsT!Ends(h) /\ Less({})
          \/ ProductsT!GoesOnAs(h, ProductsT!Load("submit")) /\ Less({"loading", "submitting"})
          \/ \E ask \in {"saveDevices", "values"} :
               ProductsT!GoesOnAs(h, [h EXCEPT !.ask = ask]) /\ Less({"submitting"})
      BY <2>10 DEF ProductsTNeeds, ProductsTBrings, ProductsT!Awaits, ProductsT!Saved,
                   ProductsT!DevicesSaved, ProductsT!FieldsSaved,
                   ProductsT!SaveFields, ProductsT!NotSaved, ProductsT!LoadAgain,
                   ProductsT!GoesOn
    <3>2. \A ask \in {"saveDevices", "values"} :
            /\ "again" \notin DOMAIN [h EXCEPT !.ask = ask]
            /\ ProductsTKnown([h EXCEPT !.ask = ask])
            /\ "submitting" \in ProductsTBrings([h EXCEPT !.ask = ask])
      BY <2>2 DEF ProductsTKnown, ProductsTBrings
    <3>3. QED
      BY <1>0, <2>2, <3>1, <3>2
  <2>11. QED
    BY <2>1, <2>3, <2>4, <2>5, <2>6, <2>7, <2>8, <2>9, <2>10 DEF ProductsT!Answer
<1>8. QED
  BY <1>1, <1>2, <1>3, <1>4, <1>5, <1>6, <1>7 DEF ProductsT!Next

\* At first it waits for what is asked for at once.
LEMMA ProductsTWaitInits == ProductsT!Init => ProductsTWaits
<1> SUFFICES ASSUME ProductsT!Init PROVE ProductsTWaits
  OBVIOUS
<1>1. /\ {"loading", "refreshing", "loadingDevices", "submitting"} \subseteq DOMAIN ui
      /\ ProductsTNeeds(ui) \subseteq {"loading"}
  BY DEF ProductsT!Init, ProductsTNeeds
<1>2. /\ \A c \in calls : ProductsTKnown(c)
      /\ \E c \in calls : "loading" \in ProductsTBrings(c)
  BY DEF ProductsT!Init, ProductsT!Load, ProductsT!Metadata, ProductsTKnown,
         ProductsTBrings
<1>3. QED
  BY <1>1, <1>2 DEF ProductsTWaits

\* So it does not wait for an answer that will not come.
LEMMA ProductsTWaitsForAnswers == ProductsTWaits => ProductsT!NoSpinnerLeft
BY DEF ProductsTWaits, ProductsTNeeds, ProductsTBrings, ProductsT!NoSpinnerLeft

(***************************************************************************)
(* The details of a product: what they wait for.                           *)
(***************************************************************************)

\* What a handler tells of itself.
ProductDKnown(c) ==
  /\ "ask" \in DOMAIN c
  /\ c.ask = "pictures" => "from" \in DOMAIN c

\* What the page waits for, and what the answer to a handler brings.
ProductDNeeds(u) ==
  {n \in {"loading", "uploading", "deleting", "saving"} :
     \/ n = "loading" /\ u.loading
     \/ n = "uploading" /\ u.uploading
     \/ n = "deleting" /\ u.deleting # ProductD!None
     \/ n = "saving" /\ u.saving}

ProductDBrings(c) ==
  {n \in {"loading", "uploading", "deleting", "saving"} :
     \/ n = "loading" /\ c.ask = "pictures"
     \/ n = "uploading" /\ (c.ask = "upload" \/ (c.ask = "pictures" /\ c.from = "upload"))
     \/ n = "deleting" /\ (c.ask = "delete" \/ (c.ask = "pictures" /\ c.from = "delete"))
     \/ n = "saving" /\ c.ask = "website"}

\* What it waits for is on the way.
ProductDWaits ==
  /\ {"loading", "uploading", "deleting", "saving"} \subseteq DOMAIN ui
  /\ \A c \in calls : ProductDKnown(c)
  /\ \A n \in ProductDNeeds(ui) : \E c \in calls : n \in ProductDBrings(c)

\* A handler that is like another brings the same.
LEMMA ProductDAlike ==
  ASSUME NEW c, NEW h, Like(c, h), ProductDKnown(h)
  PROVE  ProductDKnown(c) /\ ProductDBrings(c) = ProductDBrings(h)
BY DEF Like, ProductDKnown, ProductDBrings

\* What a step may do: it waits for no more, or for what a new handler brings;
\* what an answer brings is no longer waited for.
ProductDStep ==
  /\ {"loading", "uploading", "deleting", "saving"} \subseteq DOMAIN ui'
  /\ \/ UNCHANGED calls /\ ProductDNeeds(ui') \subseteq ProductDNeeds(ui)
     \/ \E h : /\ ProductDKnown(h) /\ "again" \notin DOMAIN h /\ ProductD!Begins(h)
              /\ ProductDNeeds(ui') \subseteq ProductDNeeds(ui) \union ProductDBrings(h)
     \/ \E h \in calls : /\ "again" \notin DOMAIN h /\ ProductD!Ends(h)
                       /\ ProductDNeeds(ui') \subseteq ProductDNeeds(ui) \ ProductDBrings(h)
     \/ \E h \in calls : \E next :
          /\ "again" \notin DOMAIN h /\ "again" \notin DOMAIN next
          /\ ProductDKnown(next)
          /\ ProductD!GoesOnAs(h, next)
          /\ ProductDNeeds(ui')
               \subseteq (ProductDNeeds(ui) \ ProductDBrings(h)) \union ProductDBrings(next)

\* Such a step leaves nothing waiting for an answer that will not come.
LEMMA ProductDKept == ProductDWaits /\ ProductDStep => ProductDWaits'
BY ProductDHandlers, ProductDAlike DEF ProductDWaits, ProductDStep

\* Every step of the page is one.
LEMMA ProductDWaitSteps == ProductDWaits /\ ProductD!Next => ProductDWaits'
<1> SUFFICES ASSUME ProductDWaits, ProductD!Next PROVE ProductDStep
  BY ProductDKept
<1> USE DEF ProductDWaits, ProductDStep
<1>0. \A from : /\ "again" \notin DOMAIN ProductD!Load(from)
               /\ ProductDKnown(ProductD!Load(from))
               /\ ProductDBrings(ProductD!Load(from))
                    = {"loading"} \union (IF from = "upload" THEN {"uploading"} ELSE {})
                        \union (IF from = "delete" THEN {"deleting"} ELSE {})
  BY DEF ProductD!Load, ProductDKnown, ProductDBrings
<1>1. CASE ProductD!Close \/ ProductD!setPreviewIndex
  BY <1>1 DEF ProductDNeeds, ProductD!Close, ProductD!setPreviewIndex
<1>2. CASE \E p \in Pictures : ProductD!toggleWebsiteImage(p) \/ ProductD!setWebsiteThumbnail(p)
  BY <1>2 DEF ProductDNeeds, ProductD!toggleWebsiteImage, ProductD!setWebsiteThumbnail
<1>3. CASE ProductD!Open
  <2>1. PICK images, visible, thumbnail :
               ui' = ProductD!loadPictures([ui EXCEPT !.open = TRUE, !.visible = visible,
                                            !.selected = images, !.thumbnail = thumbnail])
    BY <1>3 DEF ProductD!Open
  <2>2. /\ {"loading", "uploading", "deleting", "saving"} \subseteq DOMAIN ui'
        /\ ProductDNeeds(ui') \subseteq ProductDNeeds(ui) \union {"loading"}
    BY <2>1 DEF ProductDNeeds, ProductD!loadPictures
  <2>3. ProductD!Begins(ProductD!Load("open"))
    BY <1>3 DEF ProductD!Open
  <2>4. QED
    BY <1>0, <2>2, <2>3
<1>4. CASE ProductD!handleUploadPictures
  <2> DEFINE h == [ask |-> "upload"]
  <2>1. ProductDKnown(h) /\ "again" \notin DOMAIN h /\ "uploading" \in ProductDBrings(h)
    BY DEF ProductDKnown, ProductDBrings
  <2>2. ProductD!Begins(h) /\ ui' = [ui EXCEPT !.temporary = TRUE, !.uploading = TRUE]
    BY <1>4 DEF ProductD!handleUploadPictures
  <2> HIDE DEF h
  <2>3. QED
    BY <2>1, <2>2 DEF ProductDNeeds
<1>5. CASE \E p \in Pictures : ProductD!handleDeletePicture(p)
  <2> DEFINE h == [ask |-> "delete"]
  <2>1. ProductDKnown(h) /\ "again" \notin DOMAIN h /\ "deleting" \in ProductDBrings(h)
    BY DEF ProductDKnown, ProductDBrings
  <2>2. ProductD!Begins(h) /\ \E p : ui' = [ui EXCEPT !.deleting = p]
    BY <1>5 DEF ProductD!handleDeletePicture
  <2> HIDE DEF h
  <2>3. QED
    BY <2>1, <2>2 DEF ProductDNeeds
<1>6. CASE ProductD!setWebsiteVisible \/ ProductD!handleSaveWebsite
  <2> DEFINE h == [ask |-> "website", images |-> ui.selected, thumbnail |-> ui.thumbnail]
  <2>1. ProductDKnown(h) /\ "again" \notin DOMAIN h /\ "saving" \in ProductDBrings(h)
    BY DEF ProductDKnown, ProductDBrings
  <2>2. ProductD!Begins(h) /\ \E visible : ui' = [ui EXCEPT !.visible = visible, !.saving = TRUE]
    BY <1>6 DEF ProductD!setWebsiteVisible, ProductD!handleSaveWebsite,
              ProductD!persistWebsiteSettings
  <2> HIDE DEF h
  <2>3. QED
    BY <2>1, <2>2 DEF ProductDNeeds
<1>7. CASE \E h \in calls : ProductD!Answer(h)
  <2>1. PICK h \in calls : ProductD!Answer(h)
    BY <1>7
  <2>2. "again" \notin DOMAIN h /\ ProductDKnown(h)
    BY <2>1 DEF ProductD!Answer, ProductD!Awaits, ProductD!PicturesLoaded,
                ProductD!Uploaded, ProductD!Deleted, ProductD!WebsiteSaved
  <2> DEFINE Less(new) ==
        /\ {"loading", "uploading", "deleting", "saving"} \subseteq DOMAIN ui'
        /\ ProductDNeeds(ui')
             \subseteq (ProductDNeeds(ui) \ ProductDBrings(h)) \union new
  <2>3. CASE ProductD!PicturesLoaded(h)
    <3> DEFINE Loaded(list, unavailable) ==
          [ui EXCEPT !.temporary = FALSE, !.loading = FALSE,
                     !.pictures = IF unavailable THEN {} ELSE list,
                     !.unavailable = @ \/ unavailable]
    <3>1. h.ask = "pictures" /\ ProductD!Ends(h)
      BY <2>3 DEF ProductD!PicturesLoaded, ProductD!Awaits
    <3>2. PICK list \in SUBSET Pictures, unavailable \in BOOLEAN :
               CASE h.from = "upload" -> ui' = [Loaded(list, unavailable) EXCEPT !.uploading = FALSE]
                 [] h.from = "delete" ->
                      \E preview \in {Loaded(list, unavailable).preview, FALSE} :
                        ui' = [Loaded(list, unavailable) EXCEPT !.deleting = ProductD!None,
                                                                !.preview = preview]
                 [] OTHER -> ui' = Loaded(list, unavailable)
      BY <2>3 DEF ProductD!PicturesLoaded
    <3> DEFINE u == Loaded(list, unavailable)
    <3>3. /\ DOMAIN u = DOMAIN ui /\ u.loading = FALSE /\ u.uploading = ui.uploading
          /\ u.deleting = ui.deleting /\ u.saving = ui.saving
      OBVIOUS
    <3> HIDE DEF u, Loaded
    <3>4. ASSUME h.from = "upload" PROVE Less({})
      <4>1. ui' = [u EXCEPT !.uploading = FALSE]
        BY <3>2, <3>4 DEF u
      <4>2. /\ DOMAIN ui' = DOMAIN ui /\ ui'.loading = FALSE /\ ui'.uploading = FALSE
            /\ ui'.deleting = ui.deleting /\ ui'.saving = ui.saving
        BY <4>1, <3>3
      <4>3. QED
        BY <3>1, <3>4, <4>2 DEF ProductDNeeds, ProductDBrings
    <3>5. ASSUME h.from = "delete" PROVE Less({})
      <4>1. \E preview : ui' = [u EXCEPT !.deleting = ProductD!None, !.preview = preview]
        BY <3>2, <3>5 DEF u
      <4>2. /\ DOMAIN ui' = DOMAIN ui /\ ui'.loading = FALSE
            /\ ui'.uploading = ui.uploading
            /\ ui'.deleting = ProductD!None /\ ui'.saving = ui.saving
        BY <4>1, <3>3
      <4>3. QED
        BY <3>1, <3>5, <4>2 DEF ProductDNeeds, ProductDBrings
    <3>6. ASSUME h.from # "upload", h.from # "delete" PROVE Less({})
      <4>1. ui' = u
        BY <3>2, <3>6 DEF u
      <4>3. QED
        BY <3>1, <3>3, <3>6, <4>1 DEF ProductDNeeds, ProductDBrings
    <3>7. Less({})
      BY <3>4, <3>5, <3>6
    <3>8. QED
      BY <2>2, <3>1, <3>7
  <2>4. CASE ProductD!WebsiteSaved(h)
    <3>1. ProductD!Ends(h) /\ Less({})
      BY <2>4 DEF ProductDNeeds, ProductDBrings, ProductD!Awaits,
                  ProductD!WebsiteSaved
    <3>2. QED
      BY <2>2, <3>1
  <2>5. CASE ProductD!Uploaded(h)
    <3>1. \/ ProductD!Ends(h) /\ Less({})
          \/ ProductD!GoesOnAs(h, ProductD!Load("upload")) /\ Less({"loading", "uploading"})
      BY <2>5, ZenonT(60) DEF ProductDNeeds, ProductDBrings, ProductD!Awaits,
         ProductD!Uploaded,
                  ProductD!loadPictures
    <3>2. QED
      BY <1>0, <2>2, <3>1
  <2>6. CASE ProductD!Deleted(h)
    <3>1. \/ ProductD!Ends(h) /\ Less({})
          \/ ProductD!GoesOnAs(h, ProductD!Load("delete")) /\ Less({"loading", "deleting"})
      BY <2>6, ZenonT(60) DEF ProductDNeeds, ProductDBrings, ProductD!Awaits, ProductD!Deleted,
                  ProductD!loadPictures
    <3>2. QED
      BY <1>0, <2>2, <3>1
  <2>7. QED
    BY <2>1, <2>3, <2>4, <2>5, <2>6 DEF ProductD!Answer
<1>8. QED
  BY <1>1, <1>2, <1>3, <1>4, <1>5, <1>6, <1>7 DEF ProductD!Next

\* At first it waits for what is asked for at once.
LEMMA ProductDWaitInits == ProductD!Init => ProductDWaits
BY DEF ProductD!Init, ProductDWaits, ProductDKnown, ProductDNeeds, ProductDBrings

\* So it does not wait for an answer that will not come.
LEMMA ProductDWaitsForAnswers == ProductDWaits => ProductD!NoSpinnerLeft
BY DEF ProductDWaits, ProductDNeeds, ProductDBrings, ProductD!NoSpinnerLeft

(***************************************************************************)
(* The dialog with the device tree: what it waits for.                     *)
(***************************************************************************)

\* What the page does to its handlers is what ReactPage says.
LEMMA TreeDHandlers ==
  ASSUME NEW h, "again" \notin DOMAIN h
  PROVE  /\ TreeD!Begins(h)
              => /\ calls \subseteq calls'
                 /\ \A c \in calls' : c \in calls \/ Like(c, h)
                 /\ \E c \in calls' : Like(c, h)
         /\ TreeD!Ends(h) => /\ calls' \subseteq calls
                              /\ \A c \in calls \ calls' : Like(c, h)
         /\ \A next : "again" \notin DOMAIN next /\ TreeD!GoesOnAs(h, next)
              => /\ \A c \in calls' : c \in calls \/ Like(c, next)
                 /\ \E c \in calls' : Like(c, next)
                 /\ \A c \in calls \ calls' : Like(c, h)
<1>1. TreeD!Begins(h) => Joins(h, calls)
  BY DEF TreeD!Begins, TreeD!Joins, Joins, TreeD!Again, Again
<1>2. TreeD!Ends(h) <=> Ends(h)
  BY DEF TreeD!Ends, Ends, TreeD!Without, Without, TreeD!Again, Again
<1>3. \A next : TreeD!GoesOnAs(h, next) => GoesOnAs(h, next)
  BY DEF TreeD!GoesOnAs, GoesOnAs, TreeD!Joins, Joins, TreeD!Without, Without,
         TreeD!Again, Again
<1>4. QED
  BY <1>1, <1>2, <1>3, Joined, Ended, WentOn

\* What a handler tells of itself.
TreeDKnown(c) ==
  /\ "ask" \in DOMAIN c

\* What the page waits for, and what the answer to a handler brings.
TreeDNeeds(u) ==
  {n \in {"loading"} : n = "loading" /\ u.loading}

TreeDBrings(c) ==
  {n \in {"loading"} : n = "loading" /\ c.ask = "tree"}

\* What it waits for is on the way.
TreeDWaits ==
  /\ {"loading"} \subseteq DOMAIN ui
  /\ \A c \in calls : TreeDKnown(c)
  /\ \A n \in TreeDNeeds(ui) : \E c \in calls : n \in TreeDBrings(c)

\* A handler that is like another brings the same.
LEMMA TreeDAlike ==
  ASSUME NEW c, NEW h, Like(c, h), TreeDKnown(h)
  PROVE  TreeDKnown(c) /\ TreeDBrings(c) = TreeDBrings(h)
BY DEF Like, TreeDKnown, TreeDBrings

\* What a step may do: it waits for no more, or for what a new handler brings;
\* what an answer brings is no longer waited for.
TreeDStep ==
  /\ {"loading"} \subseteq DOMAIN ui'
  /\ \/ UNCHANGED calls /\ TreeDNeeds(ui') \subseteq TreeDNeeds(ui)
     \/ \E h : /\ TreeDKnown(h) /\ "again" \notin DOMAIN h /\ TreeD!Begins(h)
              /\ TreeDNeeds(ui') \subseteq TreeDNeeds(ui) \union TreeDBrings(h)
     \/ \E h \in calls : /\ "again" \notin DOMAIN h /\ TreeD!Ends(h)
                       /\ TreeDNeeds(ui') \subseteq TreeDNeeds(ui) \ TreeDBrings(h)
     \/ \E h \in calls : \E next :
          /\ "again" \notin DOMAIN h /\ "again" \notin DOMAIN next /\ TreeDKnown(next)
          /\ TreeD!GoesOnAs(h, next)
          /\ TreeDNeeds(ui')
               \subseteq (TreeDNeeds(ui) \ TreeDBrings(h)) \union TreeDBrings(next)

\* Such a step leaves nothing waiting for an answer that will not come.
LEMMA TreeDKept == TreeDWaits /\ TreeDStep => TreeDWaits'
BY TreeDHandlers, TreeDAlike DEF TreeDWaits, TreeDStep

\* Every step of the dialog is one.
LEMMA TreeDWaitSteps == TreeDWaits /\ TreeD!Next => TreeDWaits'
<1> SUFFICES ASSUME TreeDWaits, TreeD!Next PROVE TreeDStep
  BY TreeDKept
<1> USE DEF TreeDWaits, TreeDStep
<1>1. CASE TreeD!setSearch \/ TreeD!handleClose \/ TreeD!handleConfirm
  BY <1>1 DEF TreeDNeeds, TreeD!setSearch, TreeD!handleClose, TreeD!handleConfirm
<1>2. CASE \/ \E node \in TreeD!Nodes : TreeD!toggleNode(node)
           \/ \E d \in Devices : TreeD!toggleDeviceSelection(d)
  BY <1>2 DEF TreeDNeeds, TreeD!toggleNode, TreeD!toggleDeviceSelection
<1>3. CASE \E from \in 1 .. MaxCalls : TreeD!Open(from)
  <2>1. PICK from : /\ TreeD!Begins([ask |-> "tree", from |-> from])
                    /\ ui' = [ui EXCEPT !.open = TRUE, !.loading = TRUE]
    BY <1>3 DEF TreeD!Open
  <2> DEFINE h == [ask |-> "tree", from |-> from]
  <2>2. TreeDKnown(h) /\ "again" \notin DOMAIN h /\ "loading" \in TreeDBrings(h)
    BY DEF TreeDKnown, TreeDBrings
  <2> HIDE DEF h
  <2>3. TreeD!Begins(h)
    BY <2>1 DEF h
  <2>4. QED
    BY <2>1, <2>2, <2>3 DEF TreeDNeeds
<1>4. CASE \E h \in calls : TreeD!loadDeviceTree(h)
  <2>1. PICK h \in calls : TreeD!loadDeviceTree(h)
    BY <1>4
  <2>2. /\ "again" \notin DOMAIN h /\ TreeD!Ends(h) /\ "loading" \in DOMAIN ui'
        /\ TreeDNeeds(ui') = {}
    BY <2>1 DEF TreeD!loadDeviceTree, TreeD!Awaits, TreeDNeeds
  <2>3. QED
    BY <2>2
<1>5. QED
  BY <1>1, <1>2, <1>3, <1>4 DEF TreeD!Next

\* At first it waits for what is asked for at once.
LEMMA TreeDWaitInits == TreeD!Init => TreeDWaits
BY DEF TreeD!Init, TreeDWaits, TreeDKnown, TreeDNeeds, TreeDBrings

\* So it does not wait for an answer that will not come.
LEMMA TreeDWaitsForAnswers == TreeDWaits => TreeD!NoSpinnerLeft
BY DEF TreeDWaits, TreeDNeeds, TreeDBrings, TreeD!NoSpinnerLeft

(***************************************************************************)
(* The device tree: messages and what it waits for.                        *)
(***************************************************************************)

\* What the page does to its handlers is what ReactPage says.
LEMMA TreeTHandlers ==
  ASSUME NEW h, "again" \notin DOMAIN h
  PROVE  /\ TreeT!Begins(h)
              => /\ calls \subseteq calls'
                 /\ \A c \in calls' : c \in calls \/ Like(c, h)
                 /\ \E c \in calls' : Like(c, h)
         /\ TreeT!Ends(h) => /\ calls' \subseteq calls
                              /\ \A c \in calls \ calls' : Like(c, h)
         /\ \A next : "again" \notin DOMAIN next /\ TreeT!GoesOnAs(h, next)
              => /\ \A c \in calls' : c \in calls \/ Like(c, next)
                 /\ \E c \in calls' : Like(c, next)
                 /\ \A c \in calls \ calls' : Like(c, h)
<1>1. TreeT!Begins(h) => Joins(h, calls)
  BY DEF TreeT!Begins, TreeT!Joins, Joins, TreeT!Again, Again
<1>2. TreeT!Ends(h) <=> Ends(h)
  BY DEF TreeT!Ends, Ends, TreeT!Without, Without, TreeT!Again, Again
<1>3. \A next : TreeT!GoesOnAs(h, next) => GoesOnAs(h, next)
  BY DEF TreeT!GoesOnAs, GoesOnAs, TreeT!Joins, Joins, TreeT!Without, Without,
         TreeT!Again, Again
<1>4. QED
  BY <1>1, <1>2, <1>3, Joined, Ended, WentOn

\* What a handler tells of itself.
TreeTKnown(c) ==
  /\ "ask" \in DOMAIN c

\* What the page waits for, and what the answer to a handler brings.
TreeTNeeds(u) ==
  {n \in {"treeLoading", "deviceLoading", "message"} :
     \/ n = "treeLoading" /\ u.treeLoading
     \/ n = "deviceLoading" /\ u.deviceLoading
     \/ n = "message" /\ u.message /\ ~u.timer}

TreeTBrings(c) ==
  {n \in {"treeLoading", "deviceLoading"} :
     \/ n = "treeLoading" /\ c.ask = "tree"
     \/ n = "deviceLoading" /\ c.ask = "devices"}

\* What it waits for is on the way.
TreeTWaits ==
  /\ {"treeLoading", "deviceLoading", "message", "timer"} \subseteq DOMAIN ui
  /\ \A c \in calls : TreeTKnown(c)
  /\ \A n \in TreeTNeeds(ui) : \E c \in calls : n \in TreeTBrings(c)

\* A handler that is like another brings the same.
LEMMA TreeTAlike ==
  ASSUME NEW c, NEW h, Like(c, h), TreeTKnown(h)
  PROVE  TreeTKnown(c) /\ TreeTBrings(c) = TreeTBrings(h)
BY DEF Like, TreeTKnown, TreeTBrings

\* What a step may do: it waits for no more, or for what a new handler brings;
\* what an answer brings is no longer waited for.
TreeTStep ==
  /\ {"treeLoading", "deviceLoading", "message", "timer"} \subseteq DOMAIN ui'
  /\ \/ UNCHANGED calls /\ TreeTNeeds(ui') \subseteq TreeTNeeds(ui)
     \/ \E h : /\ TreeTKnown(h) /\ "again" \notin DOMAIN h /\ TreeT!Begins(h)
              /\ TreeTNeeds(ui') \subseteq TreeTNeeds(ui) \union TreeTBrings(h)
     \/ \E h \in calls : /\ "again" \notin DOMAIN h /\ TreeT!Ends(h)
                       /\ TreeTNeeds(ui') \subseteq TreeTNeeds(ui) \ TreeTBrings(h)
     \/ /\ \A c \in calls' : TreeTKnown(c)
        /\ \A n \in TreeTNeeds(ui') : \E c \in calls' : n \in TreeTBrings(c)
     \/ \E h \in calls : \E next :
          /\ "again" \notin DOMAIN h /\ "again" \notin DOMAIN next /\ TreeTKnown(next)
          /\ TreeT!GoesOnAs(h, next)
          /\ TreeTNeeds(ui')
               \subseteq (TreeTNeeds(ui) \ TreeTBrings(h)) \union TreeTBrings(next)

\* Such a step leaves nothing waiting for an answer that will not come.
LEMMA TreeTKept == TreeTWaits /\ TreeTStep => TreeTWaits'
BY TreeTHandlers, TreeTAlike DEF TreeTWaits, TreeTStep

\* Every step of the tab is one.
LEMMA TreeTWaitSteps == TreeTWaits /\ TreeT!Next => TreeTWaits'
<1> SUFFICES ASSUME TreeTWaits, TreeT!Next PROVE TreeTStep
  BY TreeTKept, SMTT(60)
<1> USE DEF TreeTWaits, TreeTStep
<1>1. CASE \/ TreeT!setSearch \/ TreeT!Dismiss \/ TreeT!handleOpenProduct
           \/ TreeT!CloseDialog
           \/ \E node \in TreeT!Nodes : TreeT!toggleNode(node)
  BY <1>1 DEF TreeTNeeds, TreeT!setSearch, TreeT!Dismiss, TreeT!handleOpenProduct,
              TreeT!CloseDialog, TreeT!toggleNode
<1>2. CASE TreeT!Update \/ TreeT!handleOpenZone
  <2> DEFINE OneTree == TreeT!Load("tree")
             Devs == TreeT!Load("devices")
  <2>0. \/ ui' = [ui EXCEPT !.treeLoading = TRUE, !.deviceLoading = TRUE]
        \/ ui' = TreeT!Mounted
    BY <1>2 DEF TreeT!Update, TreeT!handleOpenZone
  <2>1. /\ \A c \in calls' : c \in calls \/ Like(c, OneTree) \/ Like(c, Devs)
        /\ \E c \in calls' : Like(c, OneTree)
        /\ \E c \in calls' : Like(c, Devs)
    <3>1. /\ Like(OneTree, OneTree) /\ Like(TreeT!Again(OneTree), OneTree)
          /\ Like(Devs, Devs) /\ Like(TreeT!Again(Devs), Devs)
      BY DEF Like, TreeT!Again, TreeT!Load
    <3>2. CASE TreeT!handleOpenZone
      BY <3>1, <3>2 DEF TreeT!handleOpenZone, TreeT!Loads
    <3>3. CASE TreeT!Update
      BY <3>1, <3>3 DEF TreeT!Update, TreeT!Loads
    <3>4. QED
      BY <1>2, <3>2, <3>3
  <2>2. {"treeLoading", "deviceLoading", "message", "timer"} \subseteq DOMAIN ui'
    <3>1. CASE ui' = [ui EXCEPT !.treeLoading = TRUE, !.deviceLoading = TRUE]
      BY <3>1
    <3>2. CASE ui' = TreeT!Mounted
      BY <3>2 DEF TreeT!Mounted
    <3>3. QED
      BY <2>0, <3>1, <3>2
  <2>3. /\ TreeTKnown(OneTree) /\ TreeTBrings(OneTree) = {"treeLoading"}
        /\ TreeTKnown(Devs) /\ TreeTBrings(Devs) = {"deviceLoading"}
    BY DEF TreeT!Load, TreeTBrings, TreeTKnown
  <2> HIDE DEF OneTree, Devs
  <2>4. "message" \notin TreeTNeeds(ui)
    BY DEF TreeTBrings
  <2>5. "message" \notin TreeTNeeds(ui')
    <3>1. CASE ui' = [ui EXCEPT !.treeLoading = TRUE, !.deviceLoading = TRUE]
      BY <2>4, <3>1 DEF TreeTNeeds
    <3>2. CASE ui' = TreeT!Mounted
      <4>1. ui'.message = FALSE
        BY <3>2 DEF TreeT!Mounted
      <4>2. QED
        BY <4>1 DEF TreeTNeeds
    <3>3. QED
      BY <2>0, <3>1, <3>2
  <2>6. TreeTNeeds(ui') \subseteq {"treeLoading", "deviceLoading"}
    BY <2>5 DEF TreeTNeeds
  <2>7. QED
    BY <2>1, <2>2, <2>3, <2>6, TreeTAlike
<1>3. CASE TreeT!handleLocateDevice \/ TreeT!handleOpenDevice
  <2>1. /\ {"treeLoading", "deviceLoading", "message", "timer"} \subseteq DOMAIN ui'
        /\ TreeTNeeds(ui') \subseteq TreeTNeeds(ui)
    BY <1>3 DEF TreeTNeeds, TreeT!handleLocateDevice, TreeT!handleOpenDevice,
                TreeT!Announce
  <2>2. UNCHANGED calls \/ \E ask \in {"locate", "device"} : TreeT!Begins([ask |-> ask])
    BY <1>3 DEF TreeT!handleLocateDevice, TreeT!handleOpenDevice
  <2>3. \A ask : TreeTKnown([ask |-> ask]) /\ "again" \notin DOMAIN [ask |-> ask]
    BY DEF TreeTKnown
  <2>4. QED
    BY <2>1, <2>2, <2>3
<1>4. CASE \E h \in calls : \/ TreeT!loadDeviceTree(h) \/ TreeT!loadDevices(h)
                           \/ TreeT!Located(h) \/ TreeT!DeviceOpened(h)
  <2>1. PICK h \in calls : \/ TreeT!loadDeviceTree(h) \/ TreeT!loadDevices(h)
                          \/ TreeT!Located(h) \/ TreeT!DeviceOpened(h)
    BY <1>4
  <2>2. "again" \notin DOMAIN h /\ TreeT!Ends(h)
    BY <2>1 DEF TreeT!loadDeviceTree, TreeT!loadDevices, TreeT!Located,
                TreeT!DeviceOpened, TreeT!Awaits
  <2>3. /\ {"treeLoading", "deviceLoading", "message", "timer"} \subseteq DOMAIN ui'
        /\ TreeTNeeds(ui') \subseteq TreeTNeeds(ui) \ TreeTBrings(h)
    BY <2>1 DEF TreeTNeeds, TreeTBrings, TreeT!loadDeviceTree, TreeT!loadDevices,
                TreeT!Located, TreeT!DeviceOpened, TreeT!Announce, TreeT!Awaits
  <2>4. QED
    BY <2>2, <2>3
<1>5. QED
  BY <1>1, <1>2, <1>3, <1>4 DEF TreeT!Next

\* At first it waits for what is asked for at once.
LEMMA TreeTWaitInits == TreeT!Init => TreeTWaits
BY DEF TreeT!Init, TreeTWaits, TreeTKnown, TreeTNeeds, TreeTBrings, TreeT!Mounted,
       TreeT!Loads, TreeT!Load

\* So it does not wait for an answer that will not come.
LEMMA TreeTWaitsForAnswers == TreeTWaits => TreeT!NoSpinnerLeft /\ TreeT!MessageGoesAway
BY DEF TreeTWaits, TreeTNeeds, TreeTBrings, TreeT!NoSpinnerLeft, TreeT!MessageGoesAway

(***************************************************************************)
(* The client.                                                             *)
(***************************************************************************)
PagesWait ==
  /\ page = "cases" => CasesPWaits
  /\ page = "casesTab" => CasesTWaits
  /\ page = "products" => ProductsTWaits
  /\ page = "packages" => PackagesTWaits
  /\ page = "leds" => LEDsWaits
  /\ page = "product" => ProductDWaits
  /\ page = "treeDialog" => TreeDWaits
  /\ page = "tree" => TreeTWaits

\* The page that is shown keeps its invariant; the others do nothing.
LEMMA PagesWaitStep == PagesWait /\ [Next]_<<page, ui, calls>> => PagesWait'
<1> SUFFICES ASSUME PagesWait, [Next]_<<page, ui, calls>> PROVE PagesWait'
  OBVIOUS
<1>1. CASE UNCHANGED vars /\ page' = page
  BY <1>1 DEF PagesWait, vars, CasesPWaits, CasesTWaits, ProductsTWaits,
              PackagesTWaits, LEDsWaits, ProductDWaits, TreeDWaits, TreeTWaits
<1>2. CASE Next
  BY <1>2, CasesPWaitSteps, CasesTWaitSteps, ProductsTWaitSteps, PackagesTWaitSteps,
     LEDsWaitSteps, ProductDWaitSteps, TreeDWaitSteps, TreeTWaitSteps
     DEF Next, PagesWait
<1>3. QED
  BY <1>1, <1>2 DEF vars

\* Every page begins with its invariant and keeps it.
LEMMA PagesAlwaysWait == Spec => []PagesWait
<1>1. Init => PagesWait
  BY CasesPWaitInits, CasesTWaitInits, ProductsTWaitInits, PackagesTWaitInits,
     LEDsWaitInits, ProductDWaitInits, TreeDWaitInits, TreeTWaitInits
     DEF Init, PagesWait
<1>2. QED
  BY <1>1, PagesWaitStep, PTL DEF Spec

(***************************************************************************)
(* The types of the products tab.                                          *)
(***************************************************************************)

\* The page, and what a handler of it carries.
ProductsTUi ==
  [products : SUBSET Products, selected : SUBSET Products, view : ProductsT!Views,
   loading : BOOLEAN, refreshing : BOOLEAN, metadata : BOOLEAN, defs : BOOLEAN, defsFailed : BOOLEAN,
   open : BOOLEAN, editing : Products \union {None}, devices : BOOLEAN, marked : BOOLEAN,
   loadingDevices : BOOLEAN, filled : BOOLEAN, valuesLoaded : BOOLEAN,
   submitting : BOOLEAN, bulkOpen : BOOLEAN, overlay : BOOLEAN]

ProductsTTyped(c) ==
  /\ "ask" \in DOMAIN c
  /\ c.ask \in {"lists", "definitions"} => {"then", "of"} \subseteq DOMAIN c
  /\ c.ask = "product" => "of" \in DOMAIN c
  /\ "of" \in DOMAIN c => c.of \in Products \union {None}

ProductsTTypes == ui \in ProductsTUi /\ \A c \in calls : ProductsTTyped(c)

\* A handler that is like another carries the same.
LEMMA ProductsTTypedAlike ==
  ASSUME NEW c, NEW h, Like(c, h), ProductsTTyped(h)
  PROVE  ProductsTTyped(c)
BY DEF Like, ProductsTTyped

\* What a step may do with the handlers.
ProductsTTypedCalls ==
  \/ UNCHANGED calls
  \/ \E h : ProductsTTyped(h) /\ "again" \notin DOMAIN h /\ ProductsT!Begins(h)
  \/ \E h \in calls : "again" \notin DOMAIN h /\ ProductsT!Ends(h)
  \/ \E h \in calls : \E next : /\ "again" \notin DOMAIN h /\ "again" \notin DOMAIN next
                                /\ ProductsTTyped(next) /\ ProductsT!GoesOnAs(h, next)

\* Such a step keeps their types.
LEMMA ProductsTTypesKept ==
  ProductsTTypes /\ ui' \in ProductsTUi /\ ProductsTTypedCalls => ProductsTTypes'
BY ProductsTHandlers, ProductsTTypedAlike DEF ProductsTTypes, ProductsTTypedCalls

\* At first.
LEMMA ProductsTTypeInits == ProductsT!Init => ProductsTTypes
BY DEF ProductsT!Init, ProductsT!Load, ProductsT!Metadata, ProductsTTypes, ProductsTUi,
       ProductsT!Views, ProductsTTyped, ProductsT!None, None

\* So the page keeps its types.
LEMMA ProductsTTypesHold == ProductsTTypes => ProductsT!TypeOK
BY DEF ProductsTTypes, ProductsTUi, ProductsTTyped, ProductsT!TypeOK, ProductsT!None,
       None

\* A page whose form is closed keeps its types.
LEMMA FormClosed ==
  ASSUME NEW u \in ProductsTUi
  PROVE  ProductsT!closeModal(u) \in ProductsTUi
BY ZenonT(60) DEF ProductsT!closeModal, ProductsTUi, ProductsT!None, None

\* A page into which the devices of a product were loaded, or not, keeps its types.
LEMMA ProductDevicesTyped ==
  ASSUME ui \in ProductsTUi, ProductsT!loadProductDevices
  PROVE  ui' \in ProductsTUi
<1>1. PICK u \in {[ui EXCEPT !.devices = TRUE, !.marked = FALSE],
                [ui EXCEPT !.devices = FALSE, !.marked = FALSE],
                [ui EXCEPT !.devices = FALSE]} :
        ui' = [u EXCEPT !.loadingDevices = FALSE]
  BY DEF ProductsT!loadProductDevices
<1>2. [ui EXCEPT !.devices = TRUE, !.marked = FALSE] \in ProductsTUi
  BY ZenonT(60) DEF ProductsTUi
<1>3. [ui EXCEPT !.devices = FALSE, !.marked = FALSE] \in ProductsTUi
  BY ZenonT(60) DEF ProductsTUi
<1>4. [ui EXCEPT !.devices = FALSE] \in ProductsTUi
  BY ZenonT(60) DEF ProductsTUi
<1>5. u \in ProductsTUi
  BY <1>1, <1>2, <1>3, <1>4
<1>6. [u EXCEPT !.loadingDevices = FALSE] \in ProductsTUi
  BY <1>5, ZenonT(60) DEF ProductsTUi
<1>7. QED
  BY <1>1, <1>6

\* Every step keeps the types.
LEMMA ProductsTTypeSteps == ProductsTTypes /\ ProductsT!Next => ProductsTTypes'
<1> SUFFICES ASSUME ProductsTTypes, ProductsT!Next
             PROVE  ui' \in ProductsTUi /\ ProductsTTypedCalls
  BY ProductsTTypesKept
<1>1. ui \in ProductsTUi /\ \A c \in calls : ProductsTTyped(c)
  BY DEF ProductsTTypes
<1>2. /\ \A from : /\ "again" \notin DOMAIN ProductsT!Load(from)
                   /\ ProductsTTyped(ProductsT!Load(from))
      /\ \A then, of : /\ "again" \notin DOMAIN ProductsT!Metadata(then, of)
                       /\ of \in Products \union {None}
                            => ProductsTTyped(ProductsT!Metadata(then, of))
      /\ \A of : /\ "again" \notin DOMAIN ProductsT!Product(of)
                 /\ of \in Products \union {None} => ProductsTTyped(ProductsT!Product(of))
  BY DEF ProductsT!Load, ProductsT!Metadata, ProductsT!Product, ProductsTTyped
<1> USE DEF ProductsTUi, ProductsTTypedCalls, ProductsT!None, None
<1>3. CASE ProductsT!FilterChanged
  BY <1>1, <1>2, <1>3 DEF ProductsT!FilterChanged
<1>4. CASE ProductsT!handleRefresh
  BY <1>1, <1>2, <1>4 DEF ProductsT!handleRefresh
<1>5. CASE ProductsT!toggleSelectAllProducts
  BY <1>1, <1>2, <1>5 DEF ProductsT!toggleSelectAllProducts
<1>6. CASE ProductsT!DeselectAll
  BY <1>1, <1>2, <1>6 DEF ProductsT!DeselectAll
<1>7. CASE ProductsT!handleBulkDeleteProducts
  BY <1>1, <1>2, <1>7 DEF ProductsT!handleBulkDeleteProducts, ProductsTTyped
<1>8. CASE ProductsT!OpenBulkEdit
  BY <1>1, <1>2, <1>8 DEF ProductsT!OpenBulkEdit
<1>9. CASE ProductsT!handleBulkEditProductsSubmit
  BY <1>1, <1>2, <1>9, ZenonT(60) DEF ProductsT!handleBulkEditProductsSubmit, ProductsTTyped
<1>10. CASE ProductsT!CloseBulkEdit
  BY <1>1, <1>2, <1>10 DEF ProductsT!CloseBulkEdit
<1>11. CASE ProductsT!handleDelete
  BY <1>1, <1>2, <1>11 DEF ProductsT!handleDelete, ProductsTTyped
<1>12. CASE ProductsT!handleConvertToCase
  BY <1>1, <1>2, <1>12 DEF ProductsT!handleConvertToCase, ProductsTTyped
<1>13. CASE ProductsT!handleViewProduct
  BY <1>1, <1>2, <1>13 DEF ProductsT!handleViewProduct, ProductsTTyped
<1>14. CASE ProductsT!OpenDependencies
  BY <1>1, <1>2, <1>14 DEF ProductsT!OpenDependencies
<1>15. CASE ProductsT!CloseOverlay
  BY <1>1, <1>2, <1>15 DEF ProductsT!CloseOverlay
<1>16. CASE ProductsT!handleOpenCreateModal
  BY <1>1, <1>2, <1>16, ZenonT(60) DEF ProductsT!handleOpenCreateModal, ProductsT!OpenCreate
<1>17. CASE ProductsT!TypeField
  BY <1>1, <1>2, <1>17 DEF ProductsT!TypeField
<1>18. CASE ProductsT!handleRemoveDevice
  BY <1>1, <1>2, <1>18, ZenonT(60) DEF ProductsT!handleRemoveDevice
<1>19. CASE ProductsT!handleAddDevices
  BY <1>1, <1>2, <1>19 DEF ProductsT!handleAddDevices, ProductsTTyped
<1>20. CASE ProductsT!CloseForm
  <2>1. ui' = ProductsT!closeModal(ui) /\ UNCHANGED calls
    BY <1>20 DEF ProductsT!CloseForm
  <2>2. QED
    BY <1>1, <2>1, FormClosed
<1>21. CASE ProductsT!handleSubmit
  BY <1>1, <1>2, <1>21 DEF ProductsT!handleSubmit, ProductsTTyped
<1>22. CASE \E p \in Products : ProductsT!toggleProductSelection(p)
  BY <1>1, <1>2, <1>22 DEF ProductsT!toggleProductSelection
<1>23. CASE \E p \in Products : ProductsT!handleEditProduct(p)
  BY <1>1, <1>2, <1>23 DEF ProductsT!handleEditProduct
<1>24. CASE \E h \in calls : ProductsT!Answer(h)
  <2>1. PICK h \in calls : ProductsT!Answer(h)
    BY <1>24, SMTT(60)
  <2>2. "again" \notin DOMAIN h /\ ProductsTTyped(h)
    BY <1>1, <2>1 DEF
                ProductsT!Answer, ProductsT!Listed, ProductsT!BulkDone,
                ProductsT!Deleted,
                ProductsT!Converted, ProductsT!Viewed, ProductsT!MetadataLoaded,
                ProductsT!DefinitionsLoaded, ProductsT!ProductLoaded,
                ProductsT!DevicesLoaded, ProductsT!FieldsLoaded, ProductsT!DevicesAdded,
                ProductsT!AddedLoaded, ProductsT!Saved, ProductsT!DevicesSaved,
                ProductsT!FieldsSaved, ProductsT!Awaits
  <2>3. \A ask : ask \notin {"lists", "definitions", "product"} =>
                  /\ "again" \notin DOMAIN [h EXCEPT !.ask = ask]
                  /\ ProductsTTyped([h EXCEPT !.ask = ask])
    BY <2>2 DEF ProductsTTyped
  <2>4. CASE ProductsT!Listed(h)
    <3>1. PICK list \in SUBSET Products :
            LET u == [ProductsT!Show(ui, list) EXCEPT !.loading = FALSE]
            IN  ui' = CASE h.from = "submit" ->
                             [ProductsT!closeModal(u) EXCEPT !.submitting = FALSE]
                        [] h.from = "refresh" -> [u EXCEPT !.refreshing = FALSE]
                        [] OTHER -> u
      BY <2>4 DEF ProductsT!Listed
    <3> DEFINE u == [ProductsT!Show(ui, list) EXCEPT !.loading = FALSE]
    <3>2. ui' \in {u, [u EXCEPT !.refreshing = FALSE],
                   [ProductsT!closeModal(u) EXCEPT !.submitting = FALSE]}
      BY <3>1
    <3>3. u \in ProductsTUi
      BY <1>1 DEF ProductsT!Show
    <3>4. ui' \in ProductsTUi
      <4> HIDE DEF u
      <4>1. [u EXCEPT !.refreshing = FALSE] \in ProductsTUi
        BY <3>3
      <4>2. [ProductsT!closeModal(u) EXCEPT !.submitting = FALSE] \in ProductsTUi
        BY <3>3, FormClosed, ZenonT(60)
      <4>3. QED
        BY <3>2, <3>3, <4>1, <4>2
    <3>5. QED
      BY <2>2, <2>4, <3>4 DEF ProductsT!Listed
  <2>5. CASE ProductsT!BulkDone(h)
    BY <1>1, <1>2, <2>2, <2>3, <2>5, ZenonT(60) DEF ProductsT!BulkDone, ProductsT!LoadAgain
  <2>6. CASE ProductsT!Deleted(h)
    BY <1>1, <1>2, <2>2, <2>3, <2>6 DEF ProductsT!Deleted, ProductsT!LoadAgain
  <2>7. CASE ProductsT!Converted(h)
    BY <1>1, <1>2, <2>2, <2>3, <2>7 DEF ProductsT!Converted
  <2>8. CASE ProductsT!Viewed(h)
    BY <1>1, <1>2, <2>2, <2>3, <2>8, ZenonT(60) DEF ProductsT!Viewed
  <2>9. CASE ProductsT!MetadataLoaded(h)
    BY <1>1, <1>2, <2>2, <2>3, <2>9, ZenonT(60) DEF ProductsT!MetadataLoaded, ProductsT!GoesOn,
                                        ProductsT!Awaits, ProductsTTyped
  <2>10. CASE ProductsT!DefinitionsLoaded(h)
    <3>1. PICK u \in {[ui EXCEPT !.defs = TRUE, !.defsFailed = FALSE],
                    [ui EXCEPT !.defsFailed = TRUE]} :
            ui' = IF h.then = "create" THEN ProductsT!OpenCreate(u) ELSE u
      BY <2>10 DEF ProductsT!DefinitionsLoaded
    <3>2. u \in ProductsTUi
      <4>1. [ui EXCEPT !.defs = TRUE, !.defsFailed = FALSE] \in ProductsTUi
        BY <1>1, ZenonT(60)
      <4>2. [ui EXCEPT !.defsFailed = TRUE] \in ProductsTUi
        BY <1>1, ZenonT(60)
      <4>3. QED
        BY <3>1, <4>1, <4>2
    <3>3. ui' \in ProductsTUi
      BY <3>1, <3>2 DEF ProductsT!OpenCreate
    <3>4. h \in calls /\ h.ask = "definitions" /\ h.of \in Products \union {None}
      BY <2>2, <2>10 DEF ProductsT!DefinitionsLoaded, ProductsT!Awaits, ProductsTTyped
    <3>5. ProductsTTyped(ProductsT!Product(h.of))
          /\ "again" \notin DOMAIN ProductsT!Product(h.of)
      BY <1>2, <3>4
    <3>6. ProductsT!GoesOnAs(h, ProductsT!Product(h.of)) \/ ProductsT!Ends(h)
      BY <2>10 DEF ProductsT!DefinitionsLoaded
    <3>7. QED
      BY <2>2, <3>3, <3>5, <3>6
  <2>11. CASE ProductsT!ProductLoaded(h)
    BY <1>1, <1>2, <2>2, <2>3, <2>11, ZenonT(60) DEF ProductsT!ProductLoaded, ProductsT!GoesOn,
              ProductsT!Awaits, ProductsTTyped
  <2>12. CASE ProductsT!DevicesLoaded(h)
    <3>1. ui' \in ProductsTUi
      BY <1>1, <2>12, ProductDevicesTyped DEF ProductsT!DevicesLoaded
    <3>2. QED
      BY <2>2, <2>3, <2>12, <3>1 DEF ProductsT!DevicesLoaded, ProductsT!GoesOn
  <2>13. CASE ProductsT!FieldsLoaded(h)
    BY <1>1, <1>2, <2>2, <2>3, <2>13, ZenonT(60) DEF ProductsT!FieldsLoaded
  <2>14. CASE ProductsT!DevicesAdded(h)
    BY <1>1, <1>2, <2>2, <2>3, <2>14, ZenonT(60) DEF ProductsT!DevicesAdded, ProductsT!GoesOn
  <2>15. CASE ProductsT!AddedLoaded(h)
    <3>1. ui' \in ProductsTUi
      BY <1>1, <2>15, ProductDevicesTyped DEF ProductsT!AddedLoaded
    <3>2. QED
      BY <2>2, <2>15, <3>1 DEF ProductsT!AddedLoaded
  <2>16. CASE ProductsT!Saved(h)
    BY <1>1, <1>2, <2>2, <2>3, <2>16, ZenonT(60) DEF ProductsT!Saved, ProductsT!SaveFields,
              ProductsT!LoadAgain, ProductsT!GoesOn, ProductsT!NotSaved
  <2>17. CASE ProductsT!DevicesSaved(h)
    BY <1>1, <1>2, <2>2, <2>3, <2>17, ZenonT(60) DEF ProductsT!DevicesSaved,
       ProductsT!SaveFields,
              ProductsT!LoadAgain, ProductsT!GoesOn
  <2>18. CASE ProductsT!FieldsSaved(h)
    BY <1>1, <1>2, <2>2, <2>3, <2>18, ZenonT(60) DEF ProductsT!FieldsSaved,
       ProductsT!LoadAgain,
              ProductsT!NotSaved
  <2>19. QED
    BY <2>1, <2>4, <2>5, <2>6, <2>7, <2>8, <2>9, <2>10, <2>11, <2>12,
                          <2>13, <2>14, <2>15, <2>16, <2>17, <2>18 DEF ProductsT!Answer
<1>25. CASE \E view \in ProductsT!Views : ProductsT!setViewMode(view)
  BY <1>1, <1>25 DEF ProductsT!setViewMode
<1>26. QED
  BY <1>3, <1>4, <1>5, <1>6, <1>7, <1>8, <1>9, <1>10, <1>11, <1>12, <1>13,
                <1>14, <1>15, <1>16, <1>17, <1>18, <1>19, <1>20, <1>21, <1>22, <1>23,
                <1>24, <1>25 DEF ProductsT!Next

(***************************************************************************)
(* The types of the packages tab.                                          *)
(***************************************************************************)

\* The page, and what a handler of it carries.
PackagesTUi ==
  [loading : BOOLEAN, open : BOOLEAN, editing : Packages \union {None},
   devices : BOOLEAN, marked : BOOLEAN, loadingDevices : BOOLEAN, submitting : BOOLEAN,
   imageFiles : Seq(Pictures), thumbnailIndex : Nat, chosen : Pictures \union {None},
   overlay : BOOLEAN]

PackagesTTyped(c) ==
  "ask" \in DOMAIN c /\ ("of" \in DOMAIN c => c.of \in Packages \union {None})

PackagesTTypes == ui \in PackagesTUi /\ \A c \in calls : PackagesTTyped(c)

\* A handler that is like another carries the same.
LEMMA PackagesTTypedAlike ==
  ASSUME NEW c, NEW h, Like(c, h), PackagesTTyped(h)
  PROVE  PackagesTTyped(c)
BY DEF Like, PackagesTTyped

\* What a step may do with the handlers.
PackagesTTypedCalls ==
  \/ UNCHANGED calls
  \/ \E h : PackagesTTyped(h) /\ "again" \notin DOMAIN h /\ PackagesT!Begins(h)
  \/ \E h \in calls : "again" \notin DOMAIN h /\ PackagesT!Ends(h)
  \/ \E h \in calls : \E next : /\ "again" \notin DOMAIN h /\ "again" \notin DOMAIN next
                                /\ PackagesTTyped(next) /\ PackagesT!GoesOnAs(h, next)

\* Such a step keeps their types.
LEMMA PackagesTTypesKept ==
  PackagesTTypes /\ ui' \in PackagesTUi /\ PackagesTTypedCalls => PackagesTTypes'
BY PackagesTHandlers, PackagesTTypedAlike DEF PackagesTTypes, PackagesTTypedCalls

\* At first.
LEMMA PackagesTTypeInits == PackagesT!Init => PackagesTTypes
BY DEF PackagesT!Init, PackagesT!Load, PackagesTTypes, PackagesTUi, PackagesTTyped,
       PackagesT!None, None

\* So the page keeps its types.
LEMMA PackagesTTypesHold == PackagesTTypes /\ PackagesInv => PackagesT!TypeOK
BY DEF PackagesInv, PackagesT!ThumbnailIsChosen, PackagesTTypes, PackagesTUi,
       PackagesTTyped, PackagesT!TypeOK, PackagesT!None,
       None

\* The devices of a package are loaded into a page that keeps its types.
LEMMA PackageDevicesTyped ==
  ASSUME NEW u \in PackagesTUi
  PROVE  PackagesT!loadPackageDevices(u) \subseteq PackagesTUi
BY ZenonT(60) DEF PackagesT!loadPackageDevices, PackagesTUi

\* Every step keeps the types.
LEMMA PackagesTTypeSteps == PackagesTTypes /\ PackagesT!Next => PackagesTTypes'
<1> SUFFICES ASSUME PackagesTTypes, PackagesT!Next
             PROVE  ui' \in PackagesTUi /\ PackagesTTypedCalls
  BY PackagesTTypesKept
<1>1. ui \in PackagesTUi /\ \A c \in calls : PackagesTTyped(c)
  BY DEF PackagesTTypes
<1>2. "again" \notin DOMAIN PackagesT!Load /\ PackagesTTyped(PackagesT!Load)
  BY DEF PackagesT!Load, PackagesTTyped
<1>3. <<>> \in Seq(Pictures) /\ 0 \in Nat
  OBVIOUS
<1>4. /\ \A h : PackagesT!Finish(h) => ui' \in PackagesTUi
      /\ \A h : PackagesT!NotSaved(h) => ui' \in PackagesTUi
      /\ UNCHANGED ui => ui' \in PackagesTUi
  BY <1>1, <1>3, ZenonT(60) DEF PackagesT!Finish, PackagesT!NotSaved, PackagesT!Closed,
     PackagesTUi,
     PackagesT!None, None
<1> USE DEF PackagesTUi, PackagesTTypedCalls, PackagesT!None, None
<1>5. CASE PackagesT!fetchPackages
  BY <1>1, <1>2, <1>3, <1>4, <1>5 DEF PackagesT!fetchPackages
<1>6. CASE PackagesT!handleDelete
  BY <1>1, <1>2, <1>3, <1>4, <1>6 DEF PackagesT!handleDelete, PackagesTTyped
<1>7. CASE PackagesT!handleViewPackage
  BY <1>1, <1>2, <1>3, <1>4, <1>7 DEF PackagesT!handleViewPackage, PackagesTTyped
<1>8. CASE PackagesT!CloseView
  BY <1>1, <1>2, <1>3, <1>4, <1>8 DEF PackagesT!CloseView
<1>9. CASE PackagesT!OpenNew
  BY <1>1, <1>2, <1>3, <1>4, <1>9 DEF PackagesT!OpenNew
<1>10. CASE PackagesT!handleCloseModal
  BY <1>1, <1>3, <1>10 DEF PackagesT!handleCloseModal, PackagesT!Closed
<1>11. CASE PackagesT!handleRemoveDevice
  BY <1>1, <1>2, <1>3, <1>4, <1>11 DEF PackagesT!handleRemoveDevice
<1>12. CASE PackagesT!handleAddDevices
  BY <1>1, <1>2, <1>3, <1>4, <1>12 DEF PackagesT!handleAddDevices, PackagesTTyped
<1>13. CASE PackagesT!handleSubmit
  BY <1>1, <1>2, <1>3, <1>4, <1>13 DEF PackagesT!handleSubmit, PackagesTTyped
<1>14. CASE \E p \in Packages : PackagesT!handleOpenModal(p)
  BY <1>1, <1>2, <1>3, <1>4, <1>14, SMTT(60) DEF PackagesT!handleOpenModal, PackagesTTyped
<1>15. CASE \E f \in Pictures : PackagesT!handleImageFileChange(f)
  <2>1. PICK f \in Pictures : /\ ui' = [ui EXCEPT !.imageFiles = Append(@, f)]
                             /\ UNCHANGED calls
    BY <1>15 DEF PackagesT!handleImageFileChange
  <2> DEFINE files == Append(ui.imageFiles, f)
  <2>2. ui' = [ui EXCEPT !.imageFiles = files]
    BY <1>1, <2>1
  <2>3. files \in Seq(Pictures)
    BY <1>1
  <2> HIDE DEF files
  <2>4. QED
    BY <1>1, <2>1, <2>2, <2>3
<1>16. CASE \E i \in DOMAIN ui.imageFiles : PackagesT!handleSetThumbnail(i)
  <2>1. PICK i \in DOMAIN ui.imageFiles :
          /\ ui' = [ui EXCEPT !.thumbnailIndex = i, !.chosen = ui.imageFiles[i]]
          /\ UNCHANGED calls
    BY <1>16 DEF PackagesT!handleSetThumbnail
  <2>2. ui.imageFiles \in Seq(Pictures)
    BY <1>1
  <2>3. i \in Nat /\ ui.imageFiles[i] \in Pictures
    BY <2>2
  <2>4. QED
    BY <1>1, <2>1, <2>3
<1>17. CASE \E i \in DOMAIN ui.imageFiles : PackagesT!handleRemoveImage(i)
  <2>1. PICK i \in DOMAIN ui.imageFiles : PackagesT!handleRemoveImage(i)
    BY <1>17
  <2> DEFINE files == PackagesT!RemoveAt(ui.imageFiles, i)
             at == IF ui.thumbnailIndex = i THEN 0
                   ELSE IF ui.thumbnailIndex > i THEN ui.thumbnailIndex - 1
                        ELSE ui.thumbnailIndex
  <2>2. ui' = [ui EXCEPT !.imageFiles = files, !.thumbnailIndex = at] /\ UNCHANGED calls
    BY <1>1, <2>1 DEF PackagesT!handleRemoveImage
  <2>3. ui.imageFiles \in Seq(Pictures)
    BY <1>1
  <2>4. files \in Seq(Pictures)
    BY <2>3, Removed
  <2>5. i \in Nat /\ ui.thumbnailIndex \in Nat
    BY <1>1, <2>3
  <2>6. at \in Nat
    BY <2>5
  <2> HIDE DEF files, at
  <2>7. QED
    BY <1>1, <2>2, <2>4, <2>6
<1>18. CASE \E h \in calls : PackagesT!Answer(h)
  <2>1. PICK h \in calls : PackagesT!Answer(h)
    BY <1>18
  <2>2. "again" \notin DOMAIN h /\ PackagesTTyped(h)
    BY <1>1, <2>1 DEF
                PackagesT!Answer, PackagesT!Listed, PackagesT!Deleted, PackagesT!Viewed,
                PackagesT!PackageLoaded, PackagesT!DevicesLoaded,
                PackagesT!ProductKnown,
                PackagesT!DevicesAdded, PackagesT!AddedLoaded, PackagesT!Saved,
                PackagesT!SavedLoaded, PackagesT!DevicesSaved, PackagesT!PicturesSaved,
                PackagesT!Awaits
  <2>3. \A ask : /\ "again" \notin DOMAIN [h EXCEPT !.ask = ask]
                /\ PackagesTTyped([h EXCEPT !.ask = ask])
    BY <2>2 DEF PackagesTTyped
  <2>4. CASE PackagesT!Listed(h)
    BY <1>1, <1>2, <1>3, <1>4, <2>2, <2>3, <2>4 DEF PackagesT!Listed
  <2>5. CASE PackagesT!Deleted(h)
    BY <1>1, <1>2, <1>3, <1>4, <2>2, <2>3, <2>5, ZenonT(60) DEF PackagesT!Deleted
  <2>6. CASE PackagesT!Viewed(h)
    BY <1>1, <1>2, <1>3, <1>4, <2>2, <2>3, <2>6, ZenonT(60) DEF PackagesT!Viewed
  <2>7. CASE PackagesT!PackageLoaded(h)
    BY <1>1, <1>2, <1>3, <1>4, <2>2, <2>3, <2>7, ZenonT(60) DEF PackagesT!PackageLoaded,
              PackagesT!GoesOn
  <2>8. CASE PackagesT!DevicesLoaded(h)
    <3> DEFINE u == [ui EXCEPT !.open = TRUE]
    <3>1. u \in PackagesTUi
      BY <1>1
    <3>2. ui' \in PackagesT!loadPackageDevices(u) /\ PackagesT!Ends(h)
      BY <2>8 DEF PackagesT!DevicesLoaded
    <3>3. QED
      BY <2>2, <3>1, <3>2, PackageDevicesTyped
  <2>9. CASE PackagesT!ProductKnown(h)
    BY <1>1, <1>2, <1>3, <1>4, <2>2, <2>3, <2>9 DEF PackagesT!ProductKnown,
              PackagesT!GoesOn
  <2>10. CASE PackagesT!DevicesAdded(h)
    BY <1>1, <1>2, <1>3, <1>4, <2>2, <2>3, <2>10 DEF PackagesT!DevicesAdded,
              PackagesT!GoesOn
  <2>11. CASE PackagesT!AddedLoaded(h)
    BY <1>1, <2>2, <2>11, PackageDevicesTyped DEF PackagesT!AddedLoaded
  <2>12. CASE PackagesT!Saved(h)
    <3>1. UNCHANGED ui \/ PackagesT!Finish(h) \/ PackagesT!NotSaved(h)
      BY <2>12 DEF PackagesT!Saved, PackagesT!Upload
    <3>2. PackagesTTypedCalls
      BY <1>2, <2>2, <2>3, <2>12 DEF PackagesT!Saved, PackagesT!Upload,
                                     PackagesT!Finish,
         PackagesT!NotSaved, PackagesT!GoesOn
    <3>3. QED
      BY <1>4, <3>1, <3>2
  <2>13. CASE PackagesT!SavedLoaded(h)
    <3>1. UNCHANGED ui \/ PackagesT!Finish(h) \/ PackagesT!NotSaved(h)
      BY <2>13 DEF PackagesT!SavedLoaded, PackagesT!Upload
    <3>2. PackagesTTypedCalls
      BY <1>2, <2>2, <2>3, <2>13 DEF PackagesT!SavedLoaded, PackagesT!Upload,
         PackagesT!Finish, PackagesT!NotSaved, PackagesT!GoesOn
    <3>3. QED
      BY <1>4, <3>1, <3>2
  <2>14. CASE PackagesT!DevicesSaved(h)
    <3>1. UNCHANGED ui \/ PackagesT!Finish(h)
      BY <2>14 DEF PackagesT!DevicesSaved, PackagesT!Upload
    <3>2. PackagesTTypedCalls
      BY <1>2, <2>2, <2>3, <2>14 DEF PackagesT!DevicesSaved, PackagesT!Upload,
         PackagesT!Finish, PackagesT!GoesOn
    <3>3. QED
      BY <1>4, <3>1, <3>2
  <2>15. CASE PackagesT!PicturesSaved(h)
    BY <1>2, <1>4, <2>2, <2>15 DEF PackagesT!PicturesSaved, PackagesT!Finish
  <2>16. QED
    BY <2>1, <2>4, <2>5, <2>6, <2>7, <2>8, <2>9, <2>10, <2>11, <2>12,
                          <2>13, <2>14, <2>15 DEF PackagesT!Answer
<1>19. QED
  BY <1>5, <1>6, <1>7, <1>8, <1>9, <1>10, <1>11, <1>12, <1>13, <1>14, <1>15,
                <1>16, <1>17, <1>18 DEF PackagesT!Next

(***************************************************************************)
(* The types of the dialog with the tree.                                  *)
(***************************************************************************)

\* What a handler of it carries.
TreeDTyped(c) ==
  "ask" \in DOMAIN c /\ c.ask = "tree"

TreeDTypes == ui \in TreeDUi /\ \A c \in calls : TreeDTyped(c)

\* A handler that is like another carries the same.
LEMMA TreeDTypedAlike ==
  ASSUME NEW c, NEW h, Like(c, h), TreeDTyped(h)
  PROVE  TreeDTyped(c)
BY DEF Like, TreeDTyped

\* What a step may do with the handlers.
TreeDTypedCalls ==
  \/ UNCHANGED calls
  \/ \E h : TreeDTyped(h) /\ "again" \notin DOMAIN h /\ TreeD!Begins(h)
  \/ \E h \in calls : "again" \notin DOMAIN h /\ TreeD!Ends(h)
  \/ \E h \in calls : \E next : /\ "again" \notin DOMAIN h /\ "again" \notin DOMAIN next
                                /\ TreeDTyped(next) /\ TreeD!GoesOnAs(h, next)

\* Such a step keeps their types.
LEMMA TreeDTypesKept ==
  TreeDTypes /\ ui' \in TreeDUi /\ TreeDTypedCalls => TreeDTypes'
BY TreeDHandlers, TreeDTypedAlike DEF TreeDTypes, TreeDTypedCalls

\* At first.
LEMMA TreeDTypeInits == TreeD!Init => TreeDTypes
<1>1. <<>> \in [{} -> Places] /\ {} \in SUBSET Devices
  OBVIOUS
<1>2. <<>> \in TreeD!Trees
  BY <1>1 DEF TreeD!Trees
<1>3. QED
  BY <1>2 DEF TreeD!Init, TreeDTypes, TreeDUi

\* So the page keeps its types.
LEMMA TreeDTypesHold == TreeDTypes => TreeD!TypeOK
BY DEF TreeDTypes, TreeDUi, TreeDTyped, TreeD!TypeOK, TreeD!None, None

\* Every step keeps the types.
LEMMA TreeDTypeSteps == TreeDTypes /\ TreeD!Next => TreeDTypes'
<1> SUFFICES ASSUME TreeDTypes, TreeD!Next PROVE ui' \in TreeDUi /\ TreeDTypedCalls
  BY TreeDTypesKept
<1>1. ui \in TreeDUi /\ \A c \in calls : TreeDTyped(c)
  BY DEF TreeDTypes
<1> USE DEF TreeDUi, TreeDTypedCalls, TreeD!None, None
<1>2. CASE TreeD!setSearch
  BY <1>1, <1>2 DEF TreeD!setSearch
<1>3. CASE TreeD!handleClose
  BY <1>1, <1>3 DEF TreeD!handleClose
<1>4. CASE TreeD!handleConfirm
  BY <1>1, <1>4 DEF TreeD!handleConfirm, TreeD!handleClose
<1>5. CASE \E from \in 1 .. MaxCalls : TreeD!Open(from)
  BY <1>1, <1>5 DEF TreeD!Open, TreeDTyped
<1>6. CASE \E node \in TreeD!Nodes : TreeD!toggleNode(node)
  BY <1>1, <1>6 DEF TreeD!toggleNode
<1>7. CASE \E d \in Devices : TreeD!toggleDeviceSelection(d)
  BY <1>1, <1>7 DEF TreeD!toggleDeviceSelection
<1>8. CASE \E h \in calls : TreeD!loadDeviceTree(h)
  <2>1. PICK h \in calls : TreeD!loadDeviceTree(h)
    BY <1>8
  <2>2. "again" \notin DOMAIN h /\ TreeDTyped(h)
    BY <1>1, <2>1 DEF
                TreeD!loadDeviceTree, TreeD!Awaits
  <2>3. \A ask : ask = "tree" => /\ "again" \notin DOMAIN [h EXCEPT !.ask = ask]
                                /\ TreeDTyped([h EXCEPT !.ask = ask])
    BY <2>2 DEF TreeDTyped
  <2>4. CASE TreeD!loadDeviceTree(h)
    BY <1>1, <2>2, <2>3, <2>4 DEF TreeD!loadDeviceTree
  <2>5. QED
    BY <2>1, <2>4
<1>9. QED
  BY <1>2, <1>3, <1>4, <1>5, <1>6, <1>7, <1>8 DEF TreeD!Next

(***************************************************************************)
(* The types of the tab with the tree.  What its handlers carry does not   *)
(* matter to them.                                                         *)
(***************************************************************************)

\* What it begins with.
LEMMA TreeTTypeMounts == TreeT!Mounted \in TreeTUi
<1>1. <<>> \in [{} -> Places] /\ {} \in SUBSET Devices
  OBVIOUS
<1>2. <<>> \in TreeT!Trees
  BY <1>1 DEF TreeT!Trees
<1>3. QED
  BY <1>2 DEF TreeT!Mounted, TreeT!NoTerm, TreeTUi

\* So the page keeps its types.
LEMMA TreeTTypesHold == ui \in TreeTUi => TreeT!TypeOK
BY DEF TreeTUi, TreeT!TypeOK

\* Every step keeps the types.
LEMMA TreeTTypeSteps == ui \in TreeTUi /\ TreeT!Next => ui' \in TreeTUi
<1> SUFFICES ASSUME ui \in TreeTUi, TreeT!Next PROVE ui' \in TreeTUi
  OBVIOUS
<1>1. CASE TreeT!setSearch
  <2>1. CASE ui' = [ui EXCEPT !.searching = FALSE, !.term = TreeT!NoTerm]
    BY <2>1 DEF TreeTUi, TreeT!NoTerm
  <2>2. CASE \E finds \in SUBSET Devices : \E named \in {{}} \union {{n} : n \in TreeT!Nodes} :
               ui' = [ui EXCEPT !.searching = TRUE,
                                !.term = [named |-> named, finds |-> finds]]
    <3>1. PICK finds \in SUBSET Devices :
            \E named \in {{}} \union {{n} : n \in TreeT!Nodes} :
              ui' = [ui EXCEPT !.searching = TRUE,
                               !.term = [named |-> named, finds |-> finds]]
      BY <2>2
    <3>2. PICK named \in {{}} \union {{n} : n \in TreeT!Nodes} :
            ui' = [ui EXCEPT !.searching = TRUE,
                             !.term = [named |-> named, finds |-> finds]]
      BY <3>1
    <3>3. named \in SUBSET TreeT!Nodes
      OBVIOUS
    <3>4. QED
      BY <3>2, <3>3 DEF TreeTUi
  <2>3. QED
    BY <1>1, <2>1, <2>2 DEF TreeT!setSearch
<1>2. CASE TreeT!Update
  BY <1>2 DEF TreeT!Update, TreeTUi
<1>3. CASE TreeT!Dismiss
  BY <1>3 DEF TreeT!Dismiss, TreeTUi
<1>4. CASE TreeT!handleLocateDevice
  BY <1>4 DEF TreeT!handleLocateDevice, TreeT!Announce, TreeTUi
<1>5. CASE TreeT!handleOpenDevice
  BY <1>5 DEF TreeT!handleOpenDevice, TreeTUi
<1>6. CASE TreeT!handleOpenProduct
  BY <1>6 DEF TreeT!handleOpenProduct, TreeTUi
<1>7. CASE TreeT!handleOpenZone
  BY <1>7, TreeTTypeMounts DEF TreeT!handleOpenZone
<1>8. CASE TreeT!CloseDialog
  BY <1>8 DEF TreeT!CloseDialog, TreeTUi
<1>9. CASE \E node \in TreeT!Nodes : TreeT!toggleNode(node)
  BY <1>9 DEF TreeT!toggleNode, TreeTUi
<1>10. CASE \E h \in calls : TreeT!loadDeviceTree(h)
  BY <1>10 DEF TreeT!loadDeviceTree, TreeTUi
<1>11. CASE \E h \in calls : TreeT!loadDevices(h)
  BY <1>11 DEF TreeT!loadDevices, TreeTUi
<1>12. CASE \E h \in calls : TreeT!Located(h)
  BY <1>12 DEF TreeT!Located, TreeT!Announce, TreeTUi
<1>13. CASE \E h \in calls : TreeT!DeviceOpened(h)
  BY <1>13, ZenonT(60) DEF TreeT!DeviceOpened, TreeT!Announce, TreeTUi
<1>14. QED
  BY <1>1, <1>2, <1>3, <1>4, <1>5, <1>6, <1>7, <1>8, <1>9, <1>10, <1>11, <1>12, <1>13
     DEF TreeT!Next

(***************************************************************************)
(* The types of the LED settings.  What its handlers carry is in what it   *)
(* knows of them (LEDsKnown).                                              *)
(***************************************************************************)

\* A mapping, and the texts that are written beside its bins.
Mappings == Seq(Seq(PixelLists))

LEDFields == {"loading", "zoneTypeLoading", "mappingLoading", "loaded", "mapping",
              "pixelsInput", "saving", "zoneTypeSaving", "previewLoading",
              "previewActive", "previewTarget", "stopLoading"}

PreviewTargets == Targets \union {"all", LEDs!None}

LEDsTypes ==
  /\ DOMAIN ui = LEDFields
  /\ ui.mapping \in Mappings
  /\ \A p \in DOMAIN ui.pixelsInput : ui.pixelsInput[p] \in LEDs!Text
  /\ ui.zoneTypeSaving \in ZoneTypes \union {LEDs!None}
  /\ ui.previewTarget \in PreviewTargets

\* The page has its types.
LEMMA LEDsTypesHold == LEDsTypes => LEDs!TypeOK
BY DEF LEDsTypes, LEDFields, Mappings, PreviewTargets, LEDs!TypeOK

\* At first.
LEMMA LEDsTypeInits == LEDs!Init => LEDsTypes
<1> SUFFICES ASSUME LEDs!Init PROVE LEDsTypes
  OBVIOUS
<1>1. <<>> \in Seq(Seq(PixelLists)) /\ DOMAIN <<>> = {}
  OBVIOUS
<1>2. ui.mapping = <<>> /\ ui.pixelsInput = <<>> /\ ui.zoneTypeSaving = LEDs!None
      /\ ui.previewTarget = LEDs!None /\ DOMAIN ui = LEDFields
  BY DEF LEDs!Init, LEDFields
<1>3. QED
  BY <1>1, <1>2 DEF LEDsTypes, Mappings, PreviewTargets

\* Texts that are made anew from a mapping are what its bins have.
LEMMA LEDsTypesRebuilt ==
  ASSUME LEDsTypes, NEW mapping \in Mappings, ui'.mapping = mapping, DOMAIN ui' = LEDFields,
         ui'.pixelsInput = LEDs!rebuildPixelInputs(mapping),
         ui'.zoneTypeSaving = ui.zoneTypeSaving, ui'.previewTarget = ui.previewTarget
  PROVE  LEDsTypes'
<1>1. ASSUME NEW p \in LEDs!Positions(mapping)
      PROVE  LEDs!rebuildPixelInputs(mapping)[p] \in LEDs!Text
  <2>1. PICK s \in DOMAIN mapping : \E b \in DOMAIN mapping[s] : p = <<s, b>>
    BY DEF LEDs!Positions
  <2>2. PICK b \in DOMAIN mapping[s] : p = <<s, b>>
    BY <2>1
  <2>3. mapping[s] \in Seq(PixelLists)
    BY DEF Mappings
  <2>4. mapping[s][b] \in PixelLists
    BY <2>3
  <2>5. LEDs!rebuildPixelInputs(mapping)[p] = [parse |-> mapping[s][b], neat |-> TRUE]
    BY <2>2 DEF LEDs!rebuildPixelInputs
  <2>6. QED
    BY <2>4, <2>5 DEF LEDs!Text
<1>2. DOMAIN LEDs!rebuildPixelInputs(mapping) = LEDs!Positions(mapping)
  BY DEF LEDs!rebuildPixelInputs
<1>3. QED
  BY <1>1, <1>2 DEF LEDsTypes

\* A change of a shelf or a bin makes a mapping again.
LEMMA ChangedMappings ==
  ASSUME NEW mapping \in Mappings
  PROVE  /\ Append(mapping, <<>>) \in Mappings
         /\ \A s \in DOMAIN mapping :
              /\ LEDs!RemoveAt(mapping, s) \in Mappings
              /\ [mapping EXCEPT ![s] = Append(@, NoPixels)] \in Mappings
              /\ \A b \in DOMAIN mapping[s] :
                   /\ [mapping EXCEPT ![s] = LEDs!RemoveAt(@, b)] \in Mappings
                   /\ \A l \in PixelLists : [mapping EXCEPT ![s][b] = l] \in Mappings
<1>1. Append(mapping, <<>>) \in Mappings
  BY DEF Mappings
<1>2. ASSUME NEW s \in DOMAIN mapping
      PROVE  /\ mapping[s] \in Seq(PixelLists)
             /\ \A shelf \in Seq(PixelLists) : [mapping EXCEPT ![s] = shelf] \in Mappings
  BY DEF Mappings
<1>3. \A S : \A q \in Seq(S) : \A i \in DOMAIN q : LEDs!RemoveAt(q, i) \in Seq(S)
  <2>1. \A q, i : LEDs!RemoveAt(q, i) = PackagesT!RemoveAt(q, i)
    BY DEF LEDs!RemoveAt, PackagesT!RemoveAt
  <2>2. QED
    BY <2>1, Removed
<1>4. ASSUME NEW s \in DOMAIN mapping
      PROVE  /\ LEDs!RemoveAt(mapping, s) \in Mappings
             /\ [mapping EXCEPT ![s] = Append(@, NoPixels)] \in Mappings
  <2>1. Append(mapping[s], NoPixels) \in Seq(PixelLists)
    BY <1>2, PixelsAssumption
  <2>2. QED
    BY <1>2, <1>3, <2>1 DEF Mappings
<1>5. ASSUME NEW s \in DOMAIN mapping, NEW b \in DOMAIN mapping[s]
      PROVE  /\ [mapping EXCEPT ![s] = LEDs!RemoveAt(@, b)] \in Mappings
             /\ \A l \in PixelLists : [mapping EXCEPT ![s][b] = l] \in Mappings
  <2>1. LEDs!RemoveAt(mapping[s], b) \in Seq(PixelLists)
    BY <1>2, <1>3
  <2>2. ASSUME NEW l \in PixelLists PROVE [mapping[s] EXCEPT ![b] = l] \in Seq(PixelLists)
    BY <1>2
  <2>3. QED
    BY <1>2, <2>1, <2>2
<1>6. QED
  BY <1>1, <1>4, <1>5

\* Every step keeps the types.
LEMMA LEDsTypeSteps == LEDsTypes /\ LEDsWaits /\ LEDs!Next => LEDsTypes'
<1> SUFFICES ASSUME LEDsTypes, LEDsWaits, LEDs!Next PROVE LEDsTypes'
  OBVIOUS
<1>0. ui.mapping \in Mappings
  BY DEF LEDsTypes
<1>1. ASSUME NEW mapping \in Mappings, LEDs!Rebuild(mapping) PROVE LEDsTypes'
  <2>1. /\ ui'.mapping = mapping /\ DOMAIN ui' = LEDFields
        /\ ui'.pixelsInput = LEDs!rebuildPixelInputs(mapping)
        /\ ui'.zoneTypeSaving = ui.zoneTypeSaving /\ ui'.previewTarget = ui.previewTarget
    BY <1>1 DEF LEDs!Rebuild, LEDsTypes, LEDFields
  <2>2. QED
    BY <2>1, LEDsTypesRebuilt
<1>2. CASE /\ ui'.mapping = ui.mapping /\ ui'.pixelsInput = ui.pixelsInput
           /\ DOMAIN ui' = DOMAIN ui
           /\ ui'.zoneTypeSaving \in ZoneTypes \union {LEDs!None}
           /\ ui'.previewTarget \in PreviewTargets
  BY <1>2 DEF LEDsTypes
<1>3. CASE LEDs!addShelf
  BY <1>0, <1>1, <1>3, ChangedMappings DEF LEDs!addShelf
<1>4. CASE \E s \in DOMAIN ui.mapping : LEDs!removeShelf(s) \/ LEDs!addBin(s)
  BY <1>0, <1>1, <1>4, ChangedMappings DEF LEDs!removeShelf, LEDs!addBin
<1>5. CASE \E p \in LEDs!Positions(ui.mapping) : LEDs!removeBin(p[1], p[2])
  <2>1. PICK p \in LEDs!Positions(ui.mapping) : LEDs!removeBin(p[1], p[2])
    BY <1>5
  <2>2. p[1] \in DOMAIN ui.mapping /\ p[2] \in DOMAIN ui.mapping[p[1]]
    BY DEF LEDs!Positions
  <2>3. [ui.mapping EXCEPT ![p[1]] = LEDs!RemoveAt(@, p[2])] \in Mappings
    BY <1>0, <2>2, ChangedMappings
  <2>4. QED
    BY <1>1, <2>1, <2>3 DEF LEDs!removeBin
<1>6. CASE \E p \in LEDs!Positions(ui.mapping) : \E t \in LEDs!Text :
             LEDs!handlePixelInputChange(p[1], p[2], t)
  <2>1. PICK p \in LEDs!Positions(ui.mapping) : \E t \in LEDs!Text :
               LEDs!handlePixelInputChange(p[1], p[2], t)
    BY <1>6
  <2>2. PICK t \in LEDs!Text : LEDs!handlePixelInputChange(p[1], p[2], t)
    BY <2>1
  <2>3. p[1] \in DOMAIN ui.mapping /\ p[2] \in DOMAIN ui.mapping[p[1]]
        /\ t.parse \in PixelLists
    BY DEF LEDs!Positions, LEDs!Text
  <2>4. [ui.mapping EXCEPT ![p[1]][p[2]] = t.parse] \in Mappings
    BY <1>0, <2>3, ChangedMappings
  <2>5. /\ ui'.mapping = [ui.mapping EXCEPT ![p[1]][p[2]] = t.parse]
        /\ ui'.pixelsInput = [ui.pixelsInput EXCEPT ![<<p[1], p[2]>>] = t]
        /\ ui'.zoneTypeSaving = ui.zoneTypeSaving /\ ui'.previewTarget = ui.previewTarget
        /\ DOMAIN ui' = DOMAIN ui
    BY <2>2 DEF LEDs!handlePixelInputChange, LEDsTypes, LEDFields
  <2>6. \A q \in DOMAIN ui'.pixelsInput : ui'.pixelsInput[q] \in LEDs!Text
    BY <2>5 DEF LEDsTypes
  <2>7. QED
    BY <2>4, <2>5, <2>6 DEF LEDsTypes
<1>7. CASE \/ LEDs!loadMapping \/ LEDs!handlePreviewStop
           \/ \E target \in Targets \union {"all"} : LEDs!triggerPreview(target)
           \/ LEDs!handleSave \/ LEDs!handleJobSettingsSave \/ LEDs!handleMappingSave
           \/ LEDs!handleMappingValidate
  BY <1>2, <1>7
     DEF LEDsTypes, LEDFields, LEDs!loadMapping, LEDs!triggerPreview,
         LEDs!handlePreviewStop,
         LEDs!handleSave, LEDs!handleJobSettingsSave, LEDs!handleMappingSave,
         LEDs!handleMappingValidate, LEDs!Save
<1>8. CASE \E z \in ZoneTypes : LEDs!handleZoneTypeSave(z)
  BY <1>2, <1>8 DEF LEDsTypes, LEDFields, LEDs!handleZoneTypeSave
<1>9. CASE \E h \in calls : LEDs!Answer(h)
  <2>1. PICK h \in calls : LEDs!Answer(h)
    BY <1>9
  <2>2. CASE LEDs!MappingLoaded(h)
    <3>1. PICK found \in {<<>>} \union {<< <<l>> >> : l \in PixelLists} : \E ok \in BOOLEAN :
            LET mapping == IF ok THEN found ELSE <<>>
            IN  ui' = [ui EXCEPT !.loaded = ok, !.mapping = mapping,
                                 !.pixelsInput = LEDs!rebuildPixelInputs(mapping),
                                 !.mappingLoading = FALSE]
      BY <2>2 DEF LEDs!MappingLoaded
    <3>2. found \in Mappings /\ <<>> \in Mappings
      <4>1. \A l \in PixelLists : <<l>> \in Seq(PixelLists)
        OBVIOUS
      <4>2. \A q \in Seq(PixelLists) : <<q>> \in Seq(Seq(PixelLists))
        OBVIOUS
      <4>3. <<>> \in Seq(Seq(PixelLists))
        OBVIOUS
      <4>4. QED
        BY <4>1, <4>2, <4>3 DEF Mappings
    <3>3. PICK mapping \in Mappings :
            \E ok \in BOOLEAN :
              ui' = [ui EXCEPT !.loaded = ok, !.mapping = mapping,
                               !.pixelsInput = LEDs!rebuildPixelInputs(mapping),
                               !.mappingLoading = FALSE]
      BY <3>1, <3>2
    <3>4. /\ ui'.mapping = mapping /\ DOMAIN ui' = LEDFields
          /\ ui'.pixelsInput = LEDs!rebuildPixelInputs(mapping)
          /\ ui'.zoneTypeSaving = ui.zoneTypeSaving /\ ui'.previewTarget = ui.previewTarget
      BY <3>3 DEF LEDsTypes, LEDFields
    <3>5. QED
      BY <3>4, LEDsTypesRebuilt
  <2>3. CASE \/ LEDs!loadDefaults(h) \/ LEDs!loadZoneTypes(h) \/ LEDs!Saved(h)
             \/ LEDs!ZoneTypeSaved(h)
    BY <1>2, <2>3
       DEF LEDsTypes, LEDFields, LEDs!loadDefaults, LEDs!loadZoneTypes, LEDs!Saved,
           LEDs!ZoneTypeSaved
  <2>4. CASE LEDs!Previewed(h) \/ LEDs!Stopped(h)
    <3>1. LEDs!Previewed(h) => h.target \in PreviewTargets
      BY DEF LEDs!Previewed, LEDs!Awaits, LEDsWaits, LEDsKnown, PreviewTargets
    <3>2. LEDs!None \in PreviewTargets
      BY DEF PreviewTargets
    <3>3. QED
      BY <1>2, <2>4, <3>1, <3>2 DEF LEDsTypes, LEDFields, LEDs!Previewed, LEDs!Stopped
  <2>5. QED
    BY <2>1, <2>2, <2>3, <2>4 DEF LEDs!Answer
<1>10. QED
  BY <1>3, <1>4, <1>5, <1>6, <1>7, <1>8, <1>9, LEDsButtons DEF LEDs!Next

(***************************************************************************)
(* The types of the client.                                                *)
(***************************************************************************)

\* The pages above have their types.
PagesTyped ==
  /\ page = "cases" => CasesPTypes
  /\ page = "casesTab" => CasesTTypes
  /\ page = "products" => ProductsTTypes
  /\ page = "packages" => PackagesTTypes
  /\ page = "leds" => LEDsTypes
  /\ page = "product" => ProductDTypes
  /\ page = "treeDialog" => TreeDTypes
  /\ page = "tree" => ui \in TreeTUi

\* The page that is shown keeps its types; the others do nothing.
LEMMA PagesTypedStep == PagesTyped /\ PagesWait /\ [Next]_<<page, ui, calls>> => PagesTyped'
<1> SUFFICES ASSUME PagesTyped, PagesWait, [Next]_<<page, ui, calls>> PROVE PagesTyped'
  OBVIOUS
<1>1. CASE UNCHANGED vars /\ page' = page
  BY <1>1 DEF PagesTyped, vars, CasesPTypes, CasesTTypes, ProductsTTypes,
              PackagesTTypes, LEDsTypes, ProductDTypes, TreeDTypes
<1>2. CASE Next
  BY <1>2, CasesPTypeSteps, CasesTTypeSteps, ProductsTTypeSteps, PackagesTTypeSteps,
     LEDsTypeSteps, ProductDTypeSteps, TreeDTypeSteps, TreeTTypeSteps
     DEF Next, PagesTyped, PagesWait
<1>3. QED
  BY <1>1, <1>2 DEF vars

\* Every page begins with its types and keeps them.
LEMMA PagesAlwaysTyped == Spec => []PagesTyped
<1>0. TreeT!Init => ui \in TreeTUi
  BY TreeTTypeMounts DEF TreeT!Init
<1>1. Init => PagesTyped
  BY <1>0, CasesPTypeInits, CasesTTypeInits, ProductsTTypeInits, PackagesTTypeInits,
     LEDsTypeInits, ProductDTypeInits, TreeDTypeInits
     DEF Init, PagesTyped
<1>2. QED
  BY <1>1, PagesTypedStep, PagesAlwaysWait, PTL DEF Spec

(***************************************************************************)
(* The theorems.                                                           *)
(***************************************************************************)

\* Whatever fails and in whatever order answers come, no page is left waiting
\* with a spinner or a button that stays off.
THEOREM NothingWaitsForNoAnswer == Spec => []NoSpinnerLeft
<1> DEFINE All == /\ PagesWait /\ PagesInv
                  /\ page = "scan" => ScanInv
                  /\ page = "device" => DeviceInv
<1>1. DevicesInv => DevicesT!NoSpinnerLeft
  BY DEF DevicesInv, DevicesWait, Loads, Refreshes, Submits, DevicesT!NoSpinnerLeft
<1>2. All => NoSpinnerLeft
  BY <1>1, ScanWaitsForAnswers, DeviceWaitsForAnswers, CasesPWaitsForAnswers,
     CasesTWaitsForAnswers, ProductsTWaitsForAnswers, PackagesTWaitsForAnswers,
     LEDsWaitsForAnswers, ProductDWaitsForAnswers, TreeDWaitsForAnswers,
     TreeTWaitsForAnswers
     DEF PagesWait, PagesInv, NoSpinnerLeft
<1>3. QED
  BY <1>2, PagesAlwaysWait, PagesAlways, ScanAlways, DeviceAlways, PTL

\* A message about an action is taken away again, by a timer that runs or by a
\* handler that will set one, on every page that shows one.
THEOREM MessagesGoAway == Spec => []MessageGoesAway
<1> DEFINE All == /\ PagesWait
                  /\ page = "scan" => ScanInv
                  /\ page = "device" => DeviceInv
<1>1. All => MessageGoesAway
  BY ScanWaitsForAnswers, DeviceWaitsForAnswers, CasesPWaitsForAnswers,
     CasesTWaitsForAnswers, TreeTWaitsForAnswers
     DEF PagesWait, MessageGoesAway
<1>2. QED
  BY <1>1, PagesAlwaysWait, ScanAlways, DeviceAlways, PTL

\* On every page, state and handlers keep their types.
THEOREM TypesAreKept == Spec => []TypeOK
<1> DEFINE Rest == /\ page = "scan" => Scan!TypeOK
                   /\ page = "scanField" => Field!TypeOK
                   /\ page = "device" => DeviceD!TypeOK
                   /\ page = "devices" => DevicesT!TypeOK
<1>1. PagesTyped /\ PagesInv /\ Rest => TypeOK
  <2>1. page = "packages" /\ PagesTyped /\ PagesInv => PackagesT!TypeOK
    BY PackagesTTypesHold DEF PagesTyped, PagesInv
  <2>2. QED
    BY <2>1, CasesPTypesHold, CasesTTypesHold, ProductsTTypesHold, LEDsTypesHold,
       ProductDTypesHold, TreeDTypesHold, TreeTTypesHold
       DEF PagesTyped, TypeOK
<1>2. QED
  BY <1>1, PagesAlwaysTyped, PagesAlways, ScanTypesAreKept, FieldTypesAreKept,
     DeviceTypesAreKept, DevicesTypesAreKept, PTL

\* A search in the tree of devices shows all that it finds, wherever it hangs,
\* and in the tab it states how many devices it keeps.
THEOREM SearchShowsEveryMatch == Spec => []EveryMatchIsShown
<1>1. PagesTyped => EveryMatchIsShown
  BY DialogShowsTheMatches, TabShowsMatches DEF PagesTyped, TreeDTypes, EveryMatchIsShown
<1>2. QED
  BY <1>1, PagesAlwaysTyped, PTL
=============================================================================
