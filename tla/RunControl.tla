----------------------------- MODULE RunControl -----------------------------
(***************************************************************************)
(* One run of a program at a time, asked for by the toolbar of MainWindow  *)
(* on the GUI thread and done by ProcessorBase::Run on the thread that     *)
(* ProcessorManager was moved to.  The single-cycle and the pipelined      *)
(* processors write the loop of Run alike; it is modelled once.            *)
(*                                                                         *)
(* The threads share the two request flags, the place the program is at,   *)
(* and two event queues: runSlot calls to the worker, signals to the GUI.  *)
(* A part of Run under pause_mutex_ is one action; Step runs outside it    *)
(* and is two, with the other thread in between.  What Step computes is    *)
(* left out, except for the place it leaves the program at.                *)
(***************************************************************************)
EXTENDS Integers, Sequences

CONSTANTS
  Size,          \* places of the program; the program has ended at Size
  Breakpoints,   \* the places the user wants to stop at
  MaxQueued,     \* bound: runs the user queues before the worker takes one
  MaxEvents      \* bound: signals outstanding when the user starts or resumes a run

ASSUME SizeAssumption        == Size \in Nat
ASSUME BreakpointsAssumption == Breakpoints \subseteq 0 .. Size

VARIABLES
  stop,          \* stop_requested_
  pause,         \* pause_requested_
  at,            \* program_counter_ (and whether the pipeline is drained)
  lastBreak,     \* last_breakpoint_pc_
  loaded,        \* program_size_ is that of the program, not 0
  worker,        \* where the worker thread is in runSlot
  late,          \* history: steps begun since a stop or pause stands (2: two or more)
  queued,        \* runProcessorSignal not delivered yet
  events,        \* signals to MainWindow not delivered yet
  toolbar,       \* the texts and states of the actions of the toolbar
  closing,       \* ~MainWindow has begun
  overlap        \* history: Run was clicked before the GUI knew the last run was over

shared == <<stop, pause, at, lastBreak, loaded>>
gui    == <<toolbar, closing, overlap>>
vars   == <<shared, worker, late, queued, events, gui>>

Places  == 0 .. Size
NoPlace == -1

Locations == {"idle", "clear", "test", "break", "mark", "gate", "waiting", "step",
              "stepping", "reading", "after", "delay", "end", "returned", "gone"}

\* Run has been called and has not returned; or will be called.
Running == worker \notin {"idle", "returned", "gone"}
Going   == Running \/ queued > 0

\* No runSlot is under way, and MainWindow has been told of the end of each.
Quiet == worker = "idle" /\ queued = 0 /\ events = <<>>

Toolbars == [run : {"Run", "Stop"}, pauseText : {"Pause", "Resume"},
             pause : BOOLEAN, processor : BOOLEAN, undo : BOOLEAN]

\* The toolbar as it is before the first run.
Ready(t) == t.run = "Run" /\ t.pauseText = "Pause" /\ ~t.pause /\ t.processor

-----------------------------------------------------------------------------
(* The worker thread. *)

\* wakeAll: a waiting worker tests its conditions again.
Woken == CASE worker = "waiting" -> "gate"
           [] worker = "delay"   -> "test"
           [] OTHER              -> worker

Signal(s) == events' = Append(events, s)

\* The event loop of the worker thread calls runSlot, which calls Run.
RunSlot ==
  /\ worker = "idle" /\ queued > 0
  /\ worker' = "clear" /\ queued' = queued - 1
  /\ UNCHANGED <<shared, late, events, gui>>

ClearStop ==
  /\ worker = "clear"
  /\ worker' = "test" /\ stop' = FALSE /\ pause' = FALSE /\ late' = 0
  /\ UNCHANGED <<at, lastBreak, loaded, queued, events, gui>>

\* The condition of the loop.
TestLoop ==
  /\ worker = "test"
  /\ worker' = IF ~stop /\ loaded /\ at # Size THEN "break" ELSE "end"
  /\ UNCHANGED <<shared, late, queued, events, gui>>

\* Is this a breakpoint at which the run has not paused yet?
LookForBreakpoint ==
  /\ worker = "break"
  /\ lastBreak' = IF at = lastBreak THEN at ELSE NoPlace
  /\ worker' = IF at \in Breakpoints /\ at # lastBreak THEN "mark" ELSE "gate"
  /\ UNCHANGED <<stop, pause, at, loaded, late, queued, events, gui>>

PauseAtBreakpoint ==
  /\ worker = "mark"
  /\ worker' = "gate" /\ pause' = TRUE /\ lastBreak' = at /\ Signal("breakpoint")
  /\ UNCHANGED <<stop, at, loaded, late, queued, gui>>

\* mutant: Run does not look at stop_requested_ after the wait.
PassGateDeafToStop ==
  /\ worker = "gate"
  /\ worker' = IF pause THEN "waiting" ELSE "step"
  /\ UNCHANGED <<shared, late, queued, events, gui>>
\* mutant: Run does not wait while paused.
PassGateDeafToPause ==
  /\ worker = "gate"
  /\ worker' = IF stop THEN "end" ELSE "step"
  /\ UNCHANGED <<shared, late, queued, events, gui>>
\* Under the mutex: wait while paused, leave when stopped.
PassGate ==
  /\ worker = "gate"
  /\ worker' = IF stop THEN "end" ELSE IF pause THEN "waiting" ELSE "step"
  /\ UNCHANGED <<shared, late, queued, events, gui>>

\* mutant: an if for the while around the wait.
SpuriousWakeupUnchecked ==
  /\ worker = "waiting"
  /\ worker' = "step"
  /\ UNCHANGED <<shared, late, queued, events, gui>>
\* "this wait can be interrupted by spurious wakeups"
SpuriousWakeup ==
  /\ worker = "waiting"
  /\ worker' = "gate"
  /\ UNCHANGED <<shared, late, queued, events, gui>>

BeginStep ==
  /\ worker = "step"
  /\ worker' = "stepping"
  /\ late' = IF ~stop /\ ~pause THEN 0 ELSE IF late < 2 THEN late + 1 ELSE 2
  /\ UNCHANGED <<shared, queued, events, gui>>

EndStep ==
  /\ worker = "stepping"
  /\ worker' = "after" /\ at' \in Places
  /\ UNCHANGED <<stop, pause, lastBreak, loaded, late, queued, events, gui>>

\* mutant: the error is signalled by Run itself.
FailStepInsideRun ==
  /\ worker = "stepping"
  /\ worker' = "end" /\ at' \in Places /\ Signal("error")
  /\ UNCHANGED <<stop, pause, lastBreak, loaded, late, queued, gui>>
\* Step throws, and ProcessorManager::run catches.
FailStep ==
  /\ worker = "stepping"
  /\ worker' = "returned" /\ at' \in Places /\ Signal("error")
  /\ UNCHANGED <<stop, pause, lastBreak, loaded, late, queued, gui>>

\* The program reads its standard input: Step waits for PushInput, which nothing in the
\* application calls.  No request wakes it, and it has no way out but that the window kills it.
AwaitInput ==
  /\ worker = "stepping"
  /\ worker' = "reading"
  /\ UNCHANGED <<shared, late, queued, events, gui>>

\* Under the mutex: no delay when a request stands.
BeginDelay ==
  /\ worker = "after"
  /\ worker' = IF stop \/ pause THEN "test" ELSE "delay"
  /\ UNCHANGED <<shared, late, queued, events, gui>>

\* step_delay_ has passed.
EndDelay ==
  /\ worker = "delay"
  /\ worker' = "test"
  /\ UNCHANGED <<shared, late, queued, events, gui>>

\* The signal and the dumps after the loop, and the return to runSlot.
LeaveRun ==
  /\ worker = "end"
  /\ worker' = "returned"
  /\ UNCHANGED <<shared, late, queued, events, gui>>

EndRunSlot ==
  /\ worker = "returned"
  /\ worker' = "idle" /\ Signal("finished")
  /\ UNCHANGED <<shared, late, queued, gui>>

RunLoop == \/ ClearStop \/ TestLoop \/ LookForBreakpoint \/ PauseAtBreakpoint \/ PassGate
           \/ BeginStep \/ EndStep \/ FailStep \/ AwaitInput \/ BeginDelay \/ EndDelay
             \/ LeaveRun \/ EndRunSlot

-----------------------------------------------------------------------------
(* The GUI thread. *)

Reset == at' = 0 /\ lastBreak' = NoPlace

RequestStop  == stop' = TRUE /\ worker' = Woken /\ Reset
RequestPause == pause' = TRUE
\* mutant: RequestResume forgets to wake the run.
RequestResumeSilent == pause' = FALSE /\ worker' = worker /\ late' = IF stop THEN late ELSE 0
RequestResume == pause' = FALSE /\ worker' = Woken /\ late' = IF stop THEN late ELSE 0

\* runFinishedSlot on the actions of the toolbar; Undo and Redo are not touched.
\* mutant: runFinishedSlot forgets a pending Resume.
RunFinishedSlotKeepingResume(t) ==
  [t EXCEPT !.run = "Run", !.pause = FALSE, !.processor = TRUE]
RunFinishedSlot(t) ==
  [t EXCEPT !.run = "Run", !.pauseText = "Pause", !.pause = FALSE, !.processor = TRUE]

Interactive == ~closing /\ worker # "gone"

\* Run resets the processor, assembles the source and loads it; it queues the
\* run, or shows the errors and calls runFinishedSlot.
ClickRun ==
  /\ Interactive /\ toolbar.run = "Run"
  /\ queued < MaxQueued /\ Len(events) < MaxEvents
  /\ Reset
  /\ overlap' = ~Quiet
  /\ \/ /\ toolbar' = [toolbar EXCEPT !.run = "Stop", !.pause = TRUE, !.processor = FALSE]
        /\ loaded' = TRUE /\ queued' = queued + 1
     \/ /\ toolbar' = RunFinishedSlot(toolbar)
        /\ UNCHANGED <<loaded, queued>>
  /\ UNCHANGED <<stop, pause, worker, late, events, closing>>

ClickStop ==
  /\ Interactive /\ toolbar.run = "Stop"
  /\ RequestStop
  /\ toolbar' = [toolbar EXCEPT !.run = "Run"]
  /\ UNCHANGED <<pause, loaded, late, queued, events, closing, overlap>>

ClickPause ==
  /\ Interactive /\ toolbar.pause /\ toolbar.pauseText = "Pause"
  /\ RequestPause
  /\ toolbar' = [toolbar EXCEPT !.pauseText = "Resume", !.undo = TRUE]
  /\ UNCHANGED <<stop, at, lastBreak, loaded, worker, late, queued, events, closing, overlap>>

ClickResume ==
  /\ Interactive /\ toolbar.pause /\ toolbar.pauseText = "Resume"
  /\ Len(events) < MaxEvents
  /\ RequestResume
  /\ toolbar' = [toolbar EXCEPT !.pauseText = "Pause", !.undo = FALSE]
  /\ UNCHANGED <<stop, at, lastBreak, loaded, queued, events, closing, overlap>>

\* mutant: undoing with an empty stack.
ClickUndoPastStart ==
  /\ Interactive /\ toolbar.undo
  /\ at' \in {at - 1}
  /\ UNCHANGED <<stop, pause, lastBreak, loaded, worker, late, queued, events, gui>>
\* Undo and Redo move the program to an earlier or a later place, on this thread.
ClickUndo ==
  /\ Interactive /\ toolbar.undo
  /\ at' \in Places
  /\ UNCHANGED <<stop, pause, lastBreak, loaded, worker, late, queued, events, gui>>

\* The processor is destroyed and a new one made.  What a Run inside the old
\* one does next is undefined: the model ends there.
ChangeProcessor ==
  /\ Interactive /\ toolbar.processor
  /\ stop' = FALSE /\ pause' = FALSE /\ Reset /\ loaded' = FALSE
  /\ worker' = IF Running THEN "gone" ELSE worker
  /\ late' = 0
  /\ UNCHANGED <<queued, events, gui>>

\* mutant: the signal of a breakpoint is not connected (to a new processor).
HandleEventNotBreakpoint ==
  /\ Interactive /\ events # <<>>
  /\ events' = Tail(events)
  /\ toolbar' = IF Head(events) = "breakpoint" THEN toolbar ELSE RunFinishedSlot(toolbar)
  /\ UNCHANGED <<shared, worker, late, queued, closing, overlap>>
\* The connections of MainWindow to ProcessorManager.
HandleEvent ==
  /\ Interactive /\ events # <<>>
  /\ events' = Tail(events)
  /\ toolbar' = IF Head(events) = "breakpoint"
                  THEN [toolbar EXCEPT !.pauseText = "Resume"]
                  ELSE RunFinishedSlot(toolbar)
  /\ UNCHANGED <<shared, worker, late, queued, closing, overlap>>

\* ~MainWindow stops the run, ends the worker's event loop and waits for it.
Close ==
  /\ Interactive
  /\ closing' = TRUE /\ RequestStop
  /\ UNCHANGED <<pause, loaded, late, queued, events, toolbar, overlap>>

User == ClickRun \/ ClickStop \/ ClickPause \/ ClickResume \/ ClickUndo
          \/ ChangeProcessor \/ Close

-----------------------------------------------------------------------------
Init ==
  /\ stop = FALSE /\ pause = FALSE /\ at = 0 /\ lastBreak = NoPlace /\ loaded = FALSE
  /\ worker = "idle" /\ late = 0 /\ queued = 0 /\ events = <<>>
  /\ toolbar = [run |-> "Run", pauseText |-> "Pause", pause |-> FALSE,
                processor |-> TRUE, undo |-> FALSE]
  /\ closing = FALSE /\ overlap = FALSE

Next == RunSlot \/ RunLoop \/ SpuriousWakeup \/ HandleEvent \/ User

\* The threads are scheduled and their event loops deliver: a Step ends, fails or
\* comes to wait for input, and no fairness brings it out of that.  The worker's loop may
\* end without delivering once the window closes.  The user need not click,
\* and no condition variable wakes without cause for ever.
Fairness == WF_vars(RunLoop) /\ WF_vars(RunSlot /\ ~closing) /\ WF_vars(HandleEvent)

Spec == Init /\ [][Next]_vars /\ Fairness

-----------------------------------------------------------------------------
(* Properties. *)

TypeOK ==
  /\ stop \in BOOLEAN /\ pause \in BOOLEAN /\ loaded \in BOOLEAN
  /\ at \in Places /\ lastBreak \in Places \cup {NoPlace}
  /\ worker \in Locations /\ late \in {0, 1, 2} /\ queued \in Nat
  /\ events \in Seq({"breakpoint", "error", "finished"})
  /\ toolbar \in Toolbars /\ closing \in BOOLEAN /\ overlap \in BOOLEAN

\* Run waits on pause_wait_condition_ only while it is paused and not stopped:
\* no RequestResume or RequestStop slips in between its test and its wait.
NoLostWakeup == worker = "waiting" => pause /\ ~stop

\* Once a pause or a stop is requested, Run begins at most one more Step (that
\* for which it has already left the mutex), however the loop is interleaved.
AtMostOneLateStep == late <= 1

\* When every run is over and MainWindow knows it, the toolbar offers the next
\* one: whatever order the end of a run, its errors, its breakpoints and the
\* clicks came in, runFinishedSlot leaves no button behind.
QuietIsReady == Quiet => Ready(toolbar)

\* A run that MainWindow started with the last one known to be over cannot lose
\* its processor, from the click on Run until Run has returned.
RunKeepsProcessor == Going /\ ~overlap => ~toolbar.processor

\* Such a run, paused by the user or at a breakpoint, can be resumed: as soon
\* as the signals have arrived, the toolbar offers Resume.
PausedOffersResume ==
  worker = "waiting" /\ events = <<>> /\ ~overlap =>
    toolbar.pause /\ toolbar.pauseText = "Resume"

\* A stop requested while Run is paused, delayed or between two Steps ends it, and one
\* requested inside Step does if that Step returns: if it waits for input, or comes to,
\* the run never ends.  A stop requested before Run clears the flags is lost.
StopEndsRun ==
  (worker \notin {"idle", "clear"} /\ stop) ~> (~Running \/ worker = "reading")

\* A pause requested anywhere in the loop holds: Run comes to wait for a resume, unless it
\* is resumed, stopped or over before, or the Step under way does not return from a read.
PauseTakesHold ==
  (worker \notin {"idle", "clear"} /\ pause) ~>
    (worker \in {"waiting", "reading"} \/ ~pause \/ stop \/ ~Running)

=============================================================================
