-------------------------- MODULE RunControlProofs --------------------------
(***************************************************************************)
(* The safety properties of RunControl hold for a program of any size, any *)
(* breakpoints and any number of clicks outstanding.  The argument is one  *)
(* inductive invariant, with a part for each property.                     *)
(***************************************************************************)
EXTENDS RunControl, SequenceTheorems, TLAPS

Signals == {"breakpoint", "error", "finished"}

\* A step begun late leaves by way of the gate, which does not let a second pass.
LateSteps ==
  /\ late <= 1
  /\ ~stop /\ ~pause => late = 0
  /\ worker = "step" => late = 0

\* What MainWindow has yet to hear when no run is left ends with the word that
\* makes the toolbar ready.
LastWord ==
  worker = "idle" /\ queued = 0 =>
    IF events = <<>> THEN Ready(toolbar) ELSE events[Len(events)] = "finished"

\* A run that does not overlap another: it is queued or it runs, nothing is to
\* be heard that would free its toolbar, and its pause shows or will show.
SoleRun ==
  ~overlap =>
    /\ queued > 0 => queued = 1 /\ worker = "idle" /\ events = <<>>
    /\ Going => /\ ~toolbar.processor /\ toolbar.pause
                /\ \A i \in 1 .. Len(events) : events[i] = "breakpoint"
    /\ Running /\ worker # "clear" /\ pause =>
         toolbar.pauseText = "Resume" \/ events # <<>>

Inv == TypeOK /\ NoLostWakeup /\ LateSteps /\ LastWord /\ SoleRun

-----------------------------------------------------------------------------
(* Sequences. *)

\* Appending a signal keeps the older ones and makes it the last.
LEMMA AppendSignal ==
  ASSUME NEW s \in Seq(Signals), NEW x \in Signals
  PROVE  /\ Append(s, x) \in Seq(Signals) /\ Append(s, x) # <<>>
         /\ Len(Append(s, x)) = Len(s) + 1
         /\ Append(s, x)[Len(Append(s, x))] = x
         /\ \A i \in 1 .. Len(s) : Append(s, x)[i] = s[i]
  OBVIOUS

\* Taking the first signal moves the others up and keeps the last.
LEMMA TailSignal ==
  ASSUME NEW s \in Seq(Signals), s # <<>>
  PROVE  /\ Tail(s) \in Seq(Signals) /\ Head(s) = s[1] /\ Head(s) \in Signals
         /\ Len(s) \in Nat \ {0} /\ Len(Tail(s)) = Len(s) - 1
         /\ Tail(s) = <<>> <=> Len(s) = 1
         /\ \A i \in 1 .. Len(s) - 1 : Tail(s)[i] = s[i + 1]
<1>1. /\ Head(s) \in Signals /\ Tail(s) \in Seq(Signals)
      /\ Len(Tail(s)) = Len(s) - 1
      /\ \A i \in 1 .. Len(Tail(s)) : Tail(s)[i] = s[i + 1]
  BY HeadTailProperties
<1>2. Len(s) \in Nat \ {0}
  BY EmptySeq
<1>3. Tail(s) = <<>> <=> Len(Tail(s)) = 0
  BY <1>1, EmptySeq
<1>4. Head(s) = s[1]
  OBVIOUS
<1> QED BY <1>1, <1>2, <1>3, <1>4

-----------------------------------------------------------------------------
(* The worker thread. *)

\* The steps of the worker that neither signal nor take a run leave the queues
\* and the toolbar alone.
LEMMA InvWorker ==
  ASSUME Inv, \/ ClearStop \/ TestLoop \/ LookForBreakpoint \/ PassGate \/ SpuriousWakeup
              \/ BeginStep \/ EndStep \/ AwaitInput \/ BeginDelay \/ EndDelay \/ LeaveRun
  PROVE  Inv'
<1> USE SizeAssumption DEF Inv, shared, gui
<1>1. worker # "idle" /\ worker' \notin {"idle", "clear", "gone"} /\ worker' \in Locations
      /\ worker \in Locations \ {"idle", "gone", "returned"}
      /\ UNCHANGED <<loaded, queued, events, gui>>
  BY DEF TypeOK, Locations, ClearStop, TestLoop, LookForBreakpoint, PassGate, SpuriousWakeup,
         BeginStep, EndStep, AwaitInput, BeginDelay, EndDelay, LeaveRun
<1>2. TypeOK'
  <2>1. stop' \in BOOLEAN /\ pause' \in BOOLEAN
    BY DEF TypeOK, ClearStop, TestLoop, LookForBreakpoint, PassGate, SpuriousWakeup,
           BeginStep, EndStep, AwaitInput, BeginDelay, EndDelay, LeaveRun
  <2>2. at' \in Places /\ lastBreak' \in Places \cup {NoPlace}
    BY DEF TypeOK, ClearStop, TestLoop, LookForBreakpoint, PassGate, SpuriousWakeup,
           BeginStep, EndStep, AwaitInput, BeginDelay, EndDelay, LeaveRun
  <2>3. late' \in {0, 1, 2}
    BY DEF TypeOK, ClearStop, TestLoop, LookForBreakpoint, PassGate, SpuriousWakeup,
           BeginStep, EndStep, AwaitInput, BeginDelay, EndDelay, LeaveRun
  <2> QED BY <1>1, <2>1, <2>2, <2>3 DEF TypeOK
<1>3. NoLostWakeup'
  BY <1>1 DEF NoLostWakeup, ClearStop, TestLoop, LookForBreakpoint, PassGate,
              SpuriousWakeup, BeginStep, EndStep, AwaitInput, BeginDelay, EndDelay, LeaveRun
<1>4. LateSteps'
  BY <1>1 DEF LateSteps, ClearStop, TestLoop, LookForBreakpoint, PassGate,
              SpuriousWakeup, BeginStep, EndStep, AwaitInput, BeginDelay, EndDelay, LeaveRun
<1>5. LastWord'
  BY <1>1 DEF LastWord
<1>6. pause' => pause /\ worker # "clear"
  BY DEF ClearStop, TestLoop, LookForBreakpoint, PassGate, SpuriousWakeup,
         BeginStep, EndStep, AwaitInput, BeginDelay, EndDelay, LeaveRun
<1>7. SoleRun'
  BY <1>1, <1>6 DEF SoleRun, Going, Running
<1> QED BY <1>2, <1>3, <1>4, <1>5, <1>7

\* The event loop starts the run that waits.
LEMMA InvRunSlot ==
  ASSUME Inv, RunSlot
  PROVE  Inv'
<1> USE DEF Inv, RunSlot, shared, gui
<1>1. TypeOK'
  BY DEF TypeOK, Locations
<1>2. NoLostWakeup' /\ LateSteps' /\ LastWord'
  BY DEF TypeOK, NoLostWakeup, LateSteps, LastWord
<1>3. SoleRun'
  BY DEF TypeOK, SoleRun, Going, Running
<1> QED BY <1>1, <1>2, <1>3

\* A breakpoint sets the pause and signals it.
LEMMA InvPauseAtBreakpoint ==
  ASSUME Inv, PauseAtBreakpoint
  PROVE  Inv'
<1> USE DEF Inv, PauseAtBreakpoint, Signal, gui
<1>1. /\ events' \in Seq(Signals) /\ events' # <<>>
      /\ Len(events') = Len(events) + 1 /\ Len(events) \in Nat
      /\ events'[Len(events')] = "breakpoint"
      /\ \A i \in 1 .. Len(events) : events'[i] = events[i]
  BY AppendSignal DEF TypeOK, Signals
<1>2. TypeOK'
  BY <1>1 DEF TypeOK, Locations, Signals
<1>3. NoLostWakeup' /\ LateSteps' /\ LastWord'
  BY DEF NoLostWakeup, LateSteps, LastWord
<1>4. SoleRun'
  BY <1>1 DEF SoleRun, Going, Running, TypeOK
<1> QED BY <1>2, <1>3, <1>4

\* A step that fails ends Run with an error to show.
LEMMA InvFailStep ==
  ASSUME Inv, FailStep
  PROVE  Inv'
<1> USE DEF Inv, FailStep, Signal, gui
<1>1. events' \in Seq(Signals)
  BY AppendSignal DEF TypeOK, Signals
<1>2. TypeOK'
  BY <1>1 DEF TypeOK, Locations, Signals
<1>3. NoLostWakeup' /\ LateSteps' /\ LastWord'
  BY DEF NoLostWakeup, LateSteps, LastWord
<1>4. SoleRun'
  BY DEF SoleRun, Going, Running, TypeOK
<1> QED BY <1>2, <1>3, <1>4

\* The end of runSlot is the last word of a run.
LEMMA InvEndRunSlot ==
  ASSUME Inv, EndRunSlot
  PROVE  Inv'
<1> USE DEF Inv, EndRunSlot, Signal, shared, gui
<1>1. /\ events' \in Seq(Signals) /\ events' # <<>>
      /\ events'[Len(events')] = "finished"
  BY AppendSignal DEF TypeOK, Signals
<1>2. TypeOK'
  BY <1>1 DEF TypeOK, Locations, Signals
<1>3. NoLostWakeup' /\ LateSteps' /\ LastWord'
  BY <1>1 DEF NoLostWakeup, LateSteps, LastWord
<1>4. SoleRun'
  BY DEF SoleRun, Going, Running, TypeOK
<1> QED BY <1>2, <1>3, <1>4

-----------------------------------------------------------------------------
(* The GUI thread. *)

\* Waking moves a run that sleeps, and keeps one that does not run.
LEMMA WokenRuns ==
  ASSUME worker \in Locations
  PROVE  /\ Woken \in Locations \ {"waiting", "delay"}
         /\ Woken # worker => /\ Woken \in {"gate", "test"}
                             /\ worker \in {"waiting", "delay"}
  BY DEF Woken, Locations

\* Only a quiet program starts a run of its own.
LEMMA InvClickRun ==
  ASSUME Inv, ClickRun
  PROVE  Inv'
<1> USE DEF Inv, ClickRun
<1>1. /\ toolbar' \in Toolbars
      /\ \/ queued' = queued + 1 /\ toolbar'.pause /\ ~toolbar'.processor
         \/ queued' = queued /\ Ready(toolbar')
  BY DEF TypeOK, Toolbars, RunFinishedSlot, Ready
<1>2. TypeOK'
  <2>1. overlap' \in BOOLEAN /\ loaded' \in BOOLEAN
    BY Zenon DEF TypeOK
  <2>2. at' \in Places /\ lastBreak' \in Places \cup {NoPlace} /\ queued' \in Nat
    BY <1>1, SizeAssumption DEF TypeOK, Reset, Places
  <2> QED BY <1>1, <2>1, <2>2 DEF TypeOK
<1>3. NoLostWakeup' /\ LateSteps'
  BY DEF NoLostWakeup, LateSteps
<1>4. LastWord'
  <2>1. Ready(toolbar)' <=> Ready(toolbar')
    BY DEF Ready
  <2> QED BY <1>1, <2>1 DEF LastWord, TypeOK
<1>5. SoleRun'
  <2> SUFFICES ASSUME Quiet PROVE SoleRun'
    BY DEF SoleRun
  <2>1. worker' = "idle" /\ queued = 0 /\ events' = <<>>
    BY DEF Quiet
  <2> QED BY <1>1, <2>1, EmptySeq DEF SoleRun, Going, Running
<1> QED BY <1>2, <1>3, <1>4, <1>5

\* A stop wakes the run that waits.
LEMMA InvClickStop ==
  ASSUME Inv, ClickStop \/ Close
  PROVE  Inv'
<1> USE WokenRuns DEF Inv, ClickStop, Close, RequestStop
<1>1. toolbar' \in Toolbars /\ toolbar'.pauseText = toolbar.pauseText
      /\ toolbar'.pause = toolbar.pause /\ toolbar'.processor = toolbar.processor
      /\ toolbar'.run \in {"Run", toolbar.run}
  BY DEF TypeOK, Toolbars
<1>2. TypeOK'
  <2>1. at' \in Places /\ lastBreak' \in Places \cup {NoPlace}
    BY SizeAssumption DEF Reset, Places
  <2> QED BY <1>1, <2>1 DEF TypeOK
<1>3. NoLostWakeup' /\ LateSteps'
  BY DEF NoLostWakeup, LateSteps, TypeOK
<1>4. LastWord'
  BY <1>1 DEF LastWord, TypeOK, Ready
<1>5. SoleRun'
  BY <1>1 DEF SoleRun, TypeOK, Going, Running
<1> QED BY <1>2, <1>3, <1>4, <1>5

\* A pause shows at once.
LEMMA InvClickPause ==
  ASSUME Inv, ClickPause
  PROVE  Inv'
<1> USE DEF Inv, ClickPause, RequestPause
<1>1. toolbar' \in Toolbars /\ toolbar'.pauseText = "Resume"
      /\ toolbar'.pause = toolbar.pause /\ toolbar'.processor = toolbar.processor
  BY DEF TypeOK, Toolbars
<1>2. TypeOK'
  BY <1>1 DEF TypeOK
<1>3. NoLostWakeup' /\ LateSteps'
  BY DEF NoLostWakeup, LateSteps
<1>4. LastWord'
  BY DEF LastWord, Ready
<1>5. SoleRun'
  BY <1>1 DEF SoleRun, Going, Running
<1> QED BY <1>2, <1>3, <1>4, <1>5

\* A resume wakes the run that waits.
LEMMA InvClickResume ==
  ASSUME Inv, ClickResume
  PROVE  Inv'
<1> USE WokenRuns DEF Inv, ClickResume, RequestResume
<1>1. toolbar' \in Toolbars
      /\ toolbar'.pause = toolbar.pause /\ toolbar'.processor = toolbar.processor
  BY DEF TypeOK, Toolbars
<1>2. TypeOK'
  BY <1>1 DEF TypeOK
<1>3. NoLostWakeup' /\ LateSteps'
  BY DEF NoLostWakeup, LateSteps, TypeOK
<1>4. LastWord'
  BY DEF LastWord, Ready, TypeOK
<1>5. SoleRun'
  BY <1>1 DEF SoleRun, Going, Running, TypeOK
<1> QED BY <1>2, <1>3, <1>4, <1>5

\* Neither an undo nor another processor touches the queues or the toolbar.
LEMMA InvClickOther ==
  ASSUME Inv, ClickUndo \/ ChangeProcessor
  PROVE  Inv'
<1> USE DEF Inv, ClickUndo, ChangeProcessor, shared, gui
<1>1. TypeOK'
  <2>1. at' \in Places /\ lastBreak' \in Places \cup {NoPlace}
    BY SizeAssumption DEF TypeOK, Reset, Places
  <2>2. worker' \in Locations
    BY DEF TypeOK, Locations
  <2>3. stop' \in BOOLEAN /\ pause' \in BOOLEAN /\ loaded' \in BOOLEAN /\ late' \in {0, 1, 2}
    <3>1. CASE ClickUndo
      BY <3>1, Zenon DEF TypeOK
    <3>2. CASE ChangeProcessor
      BY <3>2 DEF TypeOK
    <3> QED BY <3>1, <3>2
  <2> QED BY <2>1, <2>2, <2>3 DEF TypeOK
<1>2. NoLostWakeup' /\ LateSteps' /\ LastWord'
  BY DEF NoLostWakeup, LateSteps, LastWord, Running
<1>3. SoleRun'
  BY DEF SoleRun, Going, Running
<1> QED BY <1>1, <1>2, <1>3

\* A signal that arrives is the last word, or leaves one behind it.
LEMMA InvHandleEvent ==
  ASSUME Inv, HandleEvent
  PROVE  Inv'
<1> USE DEF Inv, HandleEvent
<1>1. /\ events' \in Seq(Signals) /\ Head(events) = events[1] /\ Head(events) \in Signals
      /\ Len(events) \in Nat \ {0} /\ Len(events') = Len(events) - 1
      /\ events' = <<>> <=> Len(events) = 1
      /\ \A i \in 1 .. Len(events) - 1 : events'[i] = events[i + 1]
  BY TailSignal DEF TypeOK, Signals
<1>2. /\ toolbar' \in Toolbars
      /\ Head(events) = "breakpoint" =>
           /\ toolbar'.pauseText = "Resume"
           /\ toolbar'.pause = toolbar.pause /\ toolbar'.processor = toolbar.processor
      /\ Head(events) # "breakpoint" => Ready(toolbar')
  BY DEF TypeOK, Toolbars, RunFinishedSlot, Ready
<1>3. TypeOK'
  BY <1>1, <1>2 DEF TypeOK, Signals, shared
<1>4. NoLostWakeup' /\ LateSteps'
  BY DEF NoLostWakeup, LateSteps, shared
<1>5. LastWord'
  <2> SUFFICES ASSUME worker = "idle", queued = 0
               PROVE  IF events' = <<>> THEN Ready(toolbar') ELSE events'[Len(events')] = "finished"
    BY DEF LastWord, Ready
  <2>1. events[Len(events)] = "finished"
    BY DEF LastWord
  <2>2. CASE Len(events) = 1
    BY <1>1, <1>2, <2>1, <2>2
  <2>3. CASE Len(events) # 1
    BY <1>1, <2>1, <2>3
  <2> QED BY <2>2, <2>3
<1>6. SoleRun'
  <2> SUFFICES ASSUME ~overlap, Going
               PROVE  SoleRun'
    BY <1>1 DEF SoleRun, Going, Running, shared
  <2>1. queued = 0 /\ Head(events) = "breakpoint"
    BY <1>1 DEF SoleRun, TypeOK
  <2>2. \A i \in 1 .. Len(events') : events'[i] = "breakpoint"
    BY <1>1 DEF SoleRun
  <2> QED BY <1>2, <2>1, <2>2 DEF SoleRun, Going, Running, shared
<1> QED BY <1>3, <1>4, <1>5, <1>6

-----------------------------------------------------------------------------
(* The theorems. *)

\* A fresh window satisfies the invariant.
LEMMA InvInit == Init => Inv
<1> SUFFICES ASSUME Init PROVE Inv
  OBVIOUS
<1> USE DEF Init
<1>1. TypeOK
  <2>1. at \in Places /\ lastBreak \in Places \cup {NoPlace}
    BY SizeAssumption DEF Places
  <2>2. toolbar \in Toolbars
    BY DEF Toolbars
  <2>3. events \in Seq({"breakpoint", "error", "finished"})
    BY EmptySeq
  <2> QED BY <2>1, <2>2, <2>3 DEF TypeOK, Locations
<1>2. NoLostWakeup /\ LateSteps /\ LastWord
  BY DEF NoLostWakeup, LateSteps, LastWord, Ready
<1>3. SoleRun
  BY DEF SoleRun, Going, Running
<1> QED BY <1>1, <1>2, <1>3 DEF Inv

\* Every step keeps it.
LEMMA InvNext == Inv /\ [Next]_vars => Inv'
<1> SUFFICES ASSUME Inv, [Next]_vars PROVE Inv'
  OBVIOUS
<1>1. CASE RunSlot
  BY <1>1, InvRunSlot
<1>2. CASE RunLoop
  BY <1>2, InvWorker, InvPauseAtBreakpoint, InvFailStep, InvEndRunSlot DEF RunLoop
<1>3. CASE SpuriousWakeup
  BY <1>3, InvWorker
<1>4. CASE HandleEvent
  BY <1>4, InvHandleEvent
<1>5. CASE User
  BY <1>5, InvClickRun, InvClickStop, InvClickPause, InvClickResume, InvClickOther DEF User
<1>6. CASE UNCHANGED vars
  BY <1>6 DEF vars, shared, gui, Inv, TypeOK, NoLostWakeup, LateSteps, LastWord, SoleRun,
              Going, Running, Ready
<1> QED BY <1>1, <1>2, <1>3, <1>4, <1>5, <1>6 DEF Next

\* The invariant holds of every behaviour.
LEMMA Invariant == Spec => []Inv
  BY InvInit, InvNext, PTL DEF Spec

\* The variables of both threads stay in their types, whatever is clicked when.
THEOREM TypeCorrect == Spec => []TypeOK
<1>1. Inv => TypeOK
  BY DEF Inv
<1> QED BY Invariant, <1>1, PTL

\* No wake-up of RequestStop or RequestResume is lost between the test of the flags and
\* the wait of Run.
THEOREM WakeupsArrive == Spec => []NoLostWakeup
<1>1. Inv => NoLostWakeup
  BY DEF Inv
<1> QED BY Invariant, <1>1, PTL

\* No more than one Step begins after a request.
THEOREM RequestsTakeHold == Spec => []AtMostOneLateStep
<1>1. Inv => AtMostOneLateStep
  BY DEF Inv, LateSteps, AtMostOneLateStep
<1> QED BY Invariant, <1>1, PTL

\* The toolbar is ready when the run is over and all its signals were delivered.
THEOREM ToolbarFollowsRun == Spec => []QuietIsReady
<1>1. Inv => QuietIsReady
  BY DEF Inv, LastWord, QuietIsReady, Quiet
<1> QED BY Invariant, <1>1, PTL

\* A run that overlaps no other keeps its processor until it ends.
THEOREM ProcessorOutlivesRun == Spec => []RunKeepsProcessor
<1>1. Inv => RunKeepsProcessor
  BY DEF Inv, SoleRun, RunKeepsProcessor
<1> QED BY Invariant, <1>1, PTL

\* A run that waits can be resumed: the text of the button says so.
THEOREM PausedRunCanResume == Spec => []PausedOffersResume
<1>1. Inv => PausedOffersResume
  BY DEF Inv, NoLostWakeup, SoleRun, PausedOffersResume, Going, Running
<1> QED BY Invariant, <1>1, PTL
=============================================================================
