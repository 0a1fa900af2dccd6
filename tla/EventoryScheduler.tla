-------------------------- MODULE EventoryScheduler --------------------------
(***************************************************************************)
(* The background scheduler of the Eventory product sync                   *)
(* (internal/services/eventory_scheduler.go), with everything that calls   *)
(* it: the settings handler, the manual-sync handler and main.             *)
(*                                                                         *)
(* Every goroutine is a process.  Main boots with a Reset, serves, and on  *)
(* SIGTERM stops the scheduler, closes the database and exits.  An editor  *)
(* is an UpdateEventorySettings request: it saves an interval and then     *)
(* calls Reset.  A manual is a SyncEventoryProducts request.  A ticker is  *)
(* the goroutine a Reset starts; it launches workers, one per accepted     *)
(* tick.  A ticker doubles as the identity of its stop channel.            *)
(*                                                                         *)
(* What a sync fetches and writes, and the other settings, are outside     *)
(* this module.                                                            *)
(***************************************************************************)
EXTENDS Integers, FiniteSets

CONSTANTS
  Editors,      \* concurrent PUT /eventory/settings requests
  Manuals,      \* concurrent POST /eventory/sync requests
  Tickers,      \* ticker goroutines (and their stop channels); reused once gone
  Workers,      \* goroutines that run syncFn for a tick; reused once gone
  Main,         \* the main goroutine
  Intervals,    \* the keys of allowedSyncIntervals
  Disabled,     \* sync_interval_minutes <= 0
  Unsupported,  \* a stored interval outside allowedSyncIntervals
  ReadError,    \* configFn returned an error
  Nil           \* no holder, no channel

ASSUME SchedulerAssumption ==
  /\ Tickers \cap (Workers \cup Manuals) = {}
  /\ Workers \cap Manuals = {}
  /\ Main \notin Editors
  /\ Nil \notin Tickers \cup Editors \cup {Main}
  /\ {Disabled, Unsupported, ReadError} \cap Intervals = {}
  /\ ReadError \notin {Disabled, Unsupported}
  /\ IsFiniteSet(Tickers) /\ IsFiniteSet(Workers) /\ IsFiniteSet(Manuals)

Resetters == Editors \cup {Main}      \* the goroutines that call Reset
Syncers   == Workers \cup Manuals     \* the goroutines that run a sync
Stored    == Intervals \cup {Disabled, Unsupported}

VARIABLES
  pc,        \* where each Resetter is
  mu,        \* holder of s.mu, across a step boundary
  resetMu,   \* holder of s.resetMu
  stopped,   \* s.stopped
  stopCh,    \* s.stopCh
  closed,    \* channels that have been closed
  tickerWg,  \* counter of s.tickerWg
  wg,        \* counter of s.wg
  running,   \* s.running, 0 or 1
  tick,      \* where each ticker goroutine is
  every,     \* the interval a ticker goroutine was started with
  sync,      \* where each Syncer is
  config,    \* sync_interval_minutes in app_settings
  seen,      \* what configFn returned to the latest Reset that called it
  dbOpen     \* the pool that syncs write through has not been closed

muVars   == <<mu, resetMu, stopped, stopCh, closed>>
runVars  == <<wg, running, sync>>
tickVars == <<tickerWg, tick, every>>
cfgVars  == <<config, seen, dbOpen>>
vars == <<pc, muVars, runVars, tickVars, cfgVars>>

ResetPc == {"reset", "locked", "waiting", "relock", "reading", "starting"}
StopPc  == {"stop", "waitTicker", "waitSync", "closing", "closed", "exited"}
PcOf(p) == {"idle"} \cup ResetPc \cup (IF p = Main THEN StopPc ELSE {})

\* The HTTP server is started after main's own Reset has returned.
ServerUp == pc[Main] \notin ResetPc

Init ==
  /\ pc = [p \in Resetters |-> IF p = Main THEN "reset" ELSE "idle"]
  /\ mu = Nil /\ resetMu = Nil
  /\ stopped = FALSE /\ stopCh = Nil /\ closed = {}
  /\ tickerWg = 0 /\ wg = 0 /\ running = 0
  /\ tick = [t \in Tickers |-> "none"]
  /\ every = [t \in Tickers |-> Disabled]
  /\ sync = [s \in Syncers |-> "none"]
  /\ config \in Stored
  /\ seen = ReadError
  /\ dbOpen = TRUE

Goto(p, l) == pc' = [pc EXCEPT ![p] = l]

\* Mutant: the channel is forgotten but not closed.
ForgetStopCh == stopCh' = Nil /\ UNCHANGED closed

\* close(s.stopCh); s.stopCh = nil, when there is a channel.
CloseStopCh ==
  /\ closed' = IF stopCh = Nil THEN closed ELSE closed \cup {stopCh}
  /\ stopCh' = Nil

-----------------------------------------------------------------------------
(* UpdateEventorySettings: save a validated interval, then Reset.          *)

\* Mutant: the new interval is stored but the scheduler is not reset.
SaveWithoutReset(e) ==
  /\ pc[e] = "idle" /\ ServerUp
  /\ config' \in Intervals \cup {Disabled}
  /\ UNCHANGED <<pc, muVars, runVars, tickVars, seen, dbOpen>>

Save(e) ==
  /\ pc[e] = "idle" /\ ServerUp
  /\ config' \in Intervals \cup {Disabled, config}  \* omitted: preserved
  /\ config' # Unsupported                          \* validated
  /\ Goto(e, "reset")
  /\ UNCHANGED <<muVars, runVars, tickVars, seen, dbOpen>>

-----------------------------------------------------------------------------
(* Reset, one step per lock, wait and unlocked region.                     *)

ResetLock(p) ==
  /\ pc[p] = "reset" /\ resetMu = Nil
  /\ resetMu' = p
  /\ Goto(p, "locked")
  /\ UNCHANGED <<mu, stopped, stopCh, closed, runVars, tickVars, cfgVars>>

\* First critical section: give up once stopped, else signal the old ticker.
ResetSignal(p) ==
  /\ pc[p] = "locked" /\ mu = Nil
  /\ \/ /\ stopped
        /\ resetMu' = Nil
        /\ Goto(p, "idle")
        /\ UNCHANGED <<stopCh, closed>>
     \/ /\ ~stopped
        /\ CloseStopCh
        /\ Goto(p, "waiting")
        /\ UNCHANGED resetMu
  /\ UNCHANGED <<mu, stopped, runVars, tickVars, cfgVars>>

\* Mutant: the new ticker is started without waiting for the old one.
ResetNoWait(p) ==
  /\ pc[p] = "waiting"
  /\ Goto(p, "relock")
  /\ UNCHANGED <<muVars, runVars, tickVars, cfgVars>>

ResetWait(p) ==
  /\ pc[p] = "waiting" /\ tickerWg = 0
  /\ Goto(p, "relock")
  /\ UNCHANGED <<muVars, runVars, tickVars, cfgVars>>

\* Mutant: stopped is not checked again after the wait.
ResetNoRecheck(p) ==
  /\ pc[p] = "relock" /\ mu = Nil
  /\ mu' = p
  /\ Goto(p, "reading")
  /\ UNCHANGED <<resetMu, stopped, stopCh, closed, runVars, tickVars, cfgVars>>

\* Second critical section, which keeps s.mu across the configuration read.
ResetRelock(p) ==
  /\ pc[p] = "relock" /\ mu = Nil
  /\ \/ /\ stopped
        /\ resetMu' = Nil
        /\ Goto(p, "idle")
        /\ UNCHANGED mu
     \/ /\ ~stopped
        /\ mu' = p
        /\ Goto(p, "reading")
        /\ UNCHANGED resetMu
  /\ UNCHANGED <<stopped, stopCh, closed, runVars, tickVars, cfgVars>>

\* configFn: the stored interval, or an error.
ResetRead(p) ==
  /\ pc[p] = "reading"
  /\ seen' \in {config, ReadError}
  /\ Goto(p, "starting")
  /\ UNCHANGED <<muVars, runVars, tickVars, config, dbOpen>>

\* Start a ticker for a supported interval; release both mutexes either way.
ResetStart(p) ==
  /\ pc[p] = "starting"
  /\ \/ /\ seen \notin Intervals
        /\ UNCHANGED <<stopCh, closed, tickVars>>
     \/ /\ seen \in Intervals
        /\ \E t \in Tickers :
             /\ tick[t] = "none"
             /\ stopCh' = t
             /\ closed' = closed \ {t}
             /\ tick' = [tick EXCEPT ![t] = "select"]
             /\ every' = [every EXCEPT ![t] = seen]
        /\ tickerWg' = tickerWg + 1
  /\ mu' = Nil /\ resetMu' = Nil
  /\ Goto(p, "idle")
  /\ UNCHANGED <<stopped, runVars, cfgVars>>

-----------------------------------------------------------------------------
(* The ticker goroutine.                                                   *)

\* Mutant: the tick does not test the flag.
TickUnguarded(t) ==
  /\ tick[t] = "select"
  /\ running' = 1
  /\ tick' = [tick EXCEPT ![t] = "acquired"]
  /\ UNCHANGED <<pc, muVars, wg, sync, tickerWg, every, cfgVars>>

\* A tick that finds running = 1 is skipped and changes nothing.
TickAcquire(t) ==
  /\ tick[t] = "select" /\ running = 0
  /\ running' = 1
  /\ tick' = [tick EXCEPT ![t] = "acquired"]
  /\ UNCHANGED <<pc, muVars, wg, sync, tickerWg, every, cfgVars>>

TickLaunch(t) ==
  /\ tick[t] = "acquired"
  /\ \E w \in Workers :
       /\ sync[w] = "none"
       /\ sync' = [sync EXCEPT ![w] = "run"]
  /\ wg' = wg + 1
  /\ tick' = [tick EXCEPT ![t] = "select"]
  /\ UNCHANGED <<pc, muVars, running, tickerWg, every, cfgVars>>

TickExit(t) ==
  /\ tick[t] = "select" /\ t \in closed
  /\ tick' = [tick EXCEPT ![t] = "none"]
  /\ tickerWg' = tickerWg - 1
  /\ UNCHANGED <<pc, muVars, runVars, every, cfgVars>>

-----------------------------------------------------------------------------
(* Syncs.  A refused TryAcquireSync answers 409 and changes nothing.       *)

\* Mutant: TryAcquireSync does not look at stopped.
AcquireWhenStopped(m) ==
  /\ sync[m] = "none" /\ ServerUp
  /\ mu = Nil /\ running = 0
  /\ running' = 1
  /\ wg' = wg + 1
  /\ sync' = [sync EXCEPT ![m] = "run"]
  /\ UNCHANGED <<pc, muVars, tickVars, cfgVars>>

TryAcquireSync(m) ==
  /\ sync[m] = "none" /\ ServerUp
  /\ mu = Nil /\ ~stopped /\ running = 0
  /\ running' = 1
  /\ wg' = wg + 1
  /\ sync' = [sync EXCEPT ![m] = "run"]
  /\ UNCHANGED <<pc, muVars, tickVars, cfgVars>>

\* Mutant: the panic path of a worker does not clear the flag.
ReleaseNotOnPanic(s) ==
  /\ sync[s] = "run"
  /\ running' \in IF s \in Workers THEN {0, 1} ELSE {0}
  /\ sync' = [sync EXCEPT ![s] = "cleared"]
  /\ UNCHANGED <<pc, muVars, wg, tickVars, cfgVars>>

\* The sync has returned, failed or panicked: the flag is cleared ...
ReleaseFlag(s) ==
  /\ sync[s] = "run"
  /\ running' = 0
  /\ sync' = [sync EXCEPT ![s] = "cleared"]
  /\ UNCHANGED <<pc, muVars, wg, tickVars, cfgVars>>

\* Mutant: an error path releases by hand and the deferred call releases again.
ReleaseTwice(s) ==
  /\ sync[s] = "cleared"
  /\ wg' \in {wg - 1, wg - 2}
  /\ sync' = [sync EXCEPT ![s] = "none"]
  /\ UNCHANGED <<pc, muVars, running, tickVars, cfgVars>>

\* ... and then the WaitGroup is told.
ReleaseDone(s) ==
  /\ sync[s] = "cleared"
  /\ wg' = wg - 1
  /\ sync' = [sync EXCEPT ![s] = "none"]
  /\ UNCHANGED <<pc, muVars, running, tickVars, cfgVars>>

-----------------------------------------------------------------------------
(* Shutdown: a signal, Stop, CloseDatabase, exit.  The HTTP server is      *)
(* never shut down, so requests go on being served until the process ends. *)
(* CloseDatabase closes the pool RunEventorySync takes its transaction     *)
(* from; the settings are read and saved through GORM's own, which stays.  *)

Signal ==
  /\ pc[Main] = "idle"
  /\ Goto(Main, "stop")
  /\ UNCHANGED <<muVars, runVars, tickVars, cfgVars>>

StopSignal ==
  /\ pc[Main] = "stop" /\ mu = Nil
  /\ stopped' = TRUE
  /\ CloseStopCh
  /\ Goto(Main, "waitTicker")
  /\ UNCHANGED <<mu, resetMu, runVars, tickVars, cfgVars>>

\* Mutant: Stop skips its first phase.
StopNoTickerWait ==
  /\ pc[Main] = "waitTicker"
  /\ Goto(Main, "waitSync")
  /\ UNCHANGED <<muVars, runVars, tickVars, cfgVars>>

StopTicker ==
  /\ pc[Main] = "waitTicker" /\ tickerWg = 0
  /\ Goto(Main, "waitSync")
  /\ UNCHANGED <<muVars, runVars, tickVars, cfgVars>>

StopSync ==
  /\ pc[Main] = "waitSync" /\ wg = 0
  /\ Goto(Main, "closing")
  /\ UNCHANGED <<muVars, runVars, tickVars, cfgVars>>

CloseDatabase ==
  /\ pc[Main] = "closing"
  /\ dbOpen' = FALSE
  /\ Goto(Main, "closed")
  /\ UNCHANGED <<muVars, runVars, tickVars, config, seen>>

Exit ==
  /\ pc[Main] = "closed"
  /\ Goto(Main, "exited")
  /\ UNCHANGED <<muVars, runVars, tickVars, cfgVars>>

-----------------------------------------------------------------------------
Reset(p) ==
  \/ ResetLock(p) \/ ResetSignal(p) \/ ResetWait(p)
  \/ ResetRelock(p) \/ ResetRead(p) \/ ResetStart(p)

Stop == StopSignal \/ StopTicker \/ StopSync

Step ==
  \/ \E e \in Editors : Save(e)
  \/ \E p \in Resetters : Reset(p)
  \/ \E t \in Tickers : TickAcquire(t) \/ TickLaunch(t) \/ TickExit(t)
  \/ \E m \in Manuals : TryAcquireSync(m)
  \/ \E s \in Syncers : ReleaseFlag(s) \/ ReleaseDone(s)
  \/ Signal \/ Stop \/ CloseDatabase \/ Exit

\* The process is gone: no goroutine of it takes a step any more.
Exited == pc[Main] = "exited" /\ UNCHANGED vars

Next == (pc[Main] # "exited" /\ Step) \/ Exited

Spec == Init /\ [][Next]_vars

(***************************************************************************)
(* Fairness, one conjunct per goroutine.  A sync.Mutex in starvation mode  *)
(* hands itself to the longest waiter, so a goroutine whose Lock is        *)
(* enabled again and again gets it (SF).  select picks pseudo-randomly     *)
(* among ready cases, so a closed stop channel is eventually preferred to  *)
(* a tick that keeps being ready (SF).  Other steps of a goroutine are     *)
(* taken because the Go runtime runs it (WF).  A sync ends because its     *)
(* HTTP client has a timeout.  Nothing makes a request, a tick or the      *)
(* signal happen.                                                          *)
(***************************************************************************)
Fairness ==
  /\ \A p \in Resetters : SF_vars(Reset(p))
  /\ \A t \in Tickers : WF_vars(TickLaunch(t)) /\ SF_vars(TickExit(t))
  /\ \A s \in Syncers : WF_vars(ReleaseFlag(s) \/ ReleaseDone(s))
  /\ SF_vars(Stop \/ CloseDatabase \/ Exit)

FairSpec == Spec /\ Fairness

-----------------------------------------------------------------------------
(* Properties.                                                             *)

TypeOK ==
  /\ pc \in [Resetters -> {"idle"} \cup ResetPc \cup StopPc]
  /\ \A p \in Resetters : pc[p] \in PcOf(p)
  /\ mu \in Resetters \cup {Nil}
  /\ resetMu \in Resetters \cup {Nil}
  /\ stopped \in BOOLEAN
  /\ stopCh \in Tickers \cup {Nil}
  /\ closed \in SUBSET Tickers
  /\ tickerWg \in Nat /\ wg \in Nat /\ running \in {0, 1}
  /\ tick \in [Tickers -> {"none", "select", "acquired"}]
  /\ every \in [Tickers -> Intervals \cup {Disabled}]
  /\ sync \in [Syncers -> {"none", "run", "cleared"}]
  /\ config \in Stored
  /\ seen \in Stored \cup {ReadError}
  /\ dbOpen \in BOOLEAN

Live     == {t \in Tickers : tick[t] # "none"}   \* ticker goroutines that exist
Counted  == {s \in Syncers : sync[s] # "none"}   \* Syncers that Stop waits for
InFlight == {s \in Syncers : sync[s] = "run"}    \* syncs that use the database
Claims   == {t \in Tickers : tick[t] = "acquired"} \cup InFlight

(* Two syncs never overlap, whether they were asked for by ticks, by       *)
(* requests or by both: they would interleave their upserts into           *)
(* rental_equipment (TestScheduler_NoOverlap).                             *)
NoOverlap == \A s, r \in InFlight : s = r

(* At most one ticker goroutine exists, however Resets overlap, and it can *)
(* always be told to exit: its channel is s.stopCh or already closed.  An  *)
(* orphan would keep syncing at an old interval and make Stop hang.        *)
OneTicker ==
  /\ \A t, u \in Live : t = u
  /\ \A t \in Live : t = stopCh \/ t \in closed

(* Once Stop has returned there is no ticker, no sync in flight and none   *)
(* can start, so the database is closed under nobody's feet.               *)
StopIsFinal ==
  /\ pc[Main] \in {"closing", "closed", "exited"} =>
       Live = {} /\ Claims = {} /\ wg = 0
  /\ InFlight # {} => dbOpen

(* When nobody is between a save and the end of its Reset, automatic sync  *)
(* runs at exactly the stored interval, or not at all when that is         *)
(* disabled, unsupported, or could not be read by the last Reset.          *)
Quiescent == \A p \in Resetters : pc[p] = "idle"
TickerMatchesConfig ==
  Quiescent =>
    /\ seen \in {config, ReadError}
    /\ \A t \in Live \ closed : every[t] = config
    /\ (Live \subseteq closed) <=> (seen \notin Intervals)

(* The scheduler implements SyncGate: see there.  A claim on the flag is a *)
(* sync in flight; the gate is closed when Stop returns.                   *)
ScheduledClaim == \E c \in Claims : c \in Tickers \cup Workers
busyBar  == IF Claims = {} THEN "none"
            ELSE IF ScheduledClaim THEN "scheduled" ELSE "manual"
phaseBar == IF pc[Main] \in {"closing", "closed", "exited"} THEN "closed"
            ELSE IF stopped THEN "draining" ELSE "open"
Gate == INSTANCE SyncGate WITH busy <- busyBar, phase <- phaseBar
ImplementsGate == Gate!GateSpec

(* WaitGroup contract (quoted by the comments of Reset and Stop): a        *)
(* counter never leaves zero while a Wait on it is pending, and is never   *)
(* driven below zero.                                                      *)
WaitGroupUse ==
  /\ (tickerWg = 0 /\ tickerWg' > 0) =>
        \A p \in Resetters : pc[p] \notin {"waiting", "waitTicker"}
  /\ (wg = 0 /\ wg' > 0) => pc[Main] # "waitSync"
  /\ tickerWg' >= 0 /\ wg' >= 0
NoAddDuringWait == [][WaitGroupUse]_vars

(* After SIGTERM the process exits: neither the two waits of Stop, nor a   *)
(* Reset in progress, nor requests that keep arriving hold it up.          *)
ShutdownCompletes == (pc[Main] = "stop") ~> (pc[Main] = "exited")

(* A settings request is answered: its Reset does not wait forever for the *)
(* mutexes or for the old ticker (unless the process exits first).         *)
ResetReturns ==
  \A p \in Resetters :
    (pc[p] = "reset") ~> (pc[p] = "idle" \/ pc[Main] = "exited")

(* The flag is never left set: a sync that fails or panics, or one whose   *)
(* ticker is told to exit, does not block every later sync.                *)
FlagReleased == (running = 1) ~> (running = 0)

(* "Manual syncs via TryAcquireSync only occur during HTTP request         *)
(* handling, which completes before graceful shutdown calls Stop()."       *)
ManualsDoneBeforeStop ==
  pc[Main] \in StopPc => \A m \in Manuals : sync[m] = "none"

-----------------------------------------------------------------------------
(* The inductive invariant: what the properties above rest on.             *)

\* The two mutexes are held exactly where the code holds them, and never
\* s.mu without resetMu.
LockInv ==
  /\ \A p \in Resetters : resetMu = p <=> pc[p] \in ResetPc \ {"reset"}
  /\ \A p \in Resetters : mu = p <=> pc[p] \in {"reading", "starting"}

\* Each WaitGroup counts the goroutines between their Add and their Done.
CountInv == tickerWg = Cardinality(Live) /\ wg = Cardinality(Counted)

\* The flag guards the syncs in flight and the tick about to launch one.
FlagInv == (\A c, d \in Claims : c = d) /\ (Claims # {} => running = 1)

\* A Reset past its wait has seen the old ticker exit, and holds off others.
TickerInv ==
  /\ OneTicker
  /\ \A p \in Resetters : pc[p] \in {"relock", "reading", "starting"} => Live = {}

\* stopped is set once and for all; each phase of Stop leaves nothing behind.
StopInv ==
  /\ stopped <=> pc[Main] \in StopPc \ {"stop"}
  /\ stopped => mu = Nil
  /\ pc[Main] \in {"waitSync", "closing", "closed", "exited"} => Live = {}
  /\ pc[Main] \in {"closing", "closed", "exited"} => Counted = {}
  /\ dbOpen <=> pc[Main] \notin {"closed", "exited"}

IInv == TypeOK /\ LockInv /\ CountInv /\ FlagInv /\ TickerInv /\ StopInv

\* What the latest Reset read is what is stored, unless another Reset that
\* has yet to read is under way; the ticker that may go on ticking runs at
\* that interval, from the end of that Reset to the next one's close.
Resetting(p) == pc[p] \in {"waiting", "relock", "reading", "starting"}
ConfigInv ==
  /\ \/ stopped
     \/ \E p \in Resetters : pc[p] \in ResetPc \ {"starting"}
     \/ seen \in {config, ReadError}
  /\ (\E p \in Resetters : Resetting(p)) => Live \subseteq closed
  /\ ~stopped /\ (\A p \in Resetters : ~Resetting(p)) =>
       /\ \A t \in Live \ closed : every[t] = seen
       /\ (Live \subseteq closed) <=> (seen \notin Intervals)
=============================================================================
