------------------------------ MODULE FrameDriver ------------------------------
(***************************************************************************)
(* The elapsed-delta driver: it measures real time between two frames and  *)
(* sends it to the engine, which has no clock of its own.  Every operation *)
(* takes the client and returns it; client.driver is whether it runs, the  *)
(* time of the last frame and whether a frame is scheduled.                *)
(***************************************************************************)
EXTENDS PlayData

StoppedDriver == [running |-> FALSE, last |-> Nothing, scheduled |-> FALSE]

\* queue()
Queue(c) == [c EXCEPT !.driver.scheduled = @ \/ c.driver.running]

\* resetBaseline()
ResetBaseline(c) == [c EXCEPT !.driver.last = Nothing]

Start(c) ==
  Queue([c EXCEPT !.driver = [StoppedDriver EXCEPT !.running = TRUE]])

Stop(c) == [c EXCEPT !.driver = StoppedDriver]

\* Wrong on purpose: a change of visibility goes unnoticed.
OnVisibilityIgnored(c) == c

\* The listener subscribed at the start, gone after a stop.
OnVisibility(c) == IF c.driver.running THEN ResetBaseline(c) ELSE c

\* What a frame would advance: nothing when it only sets the baseline.
Elapsed(c, now) == IF c.driver.last = Nothing THEN 0 ELSE now - c.driver.last

\* frame()
Frame(c, now) ==
  LET d == [c EXCEPT !.driver.scheduled = FALSE, !.driver.last = now]
  IN  IF c.driver.last = Nothing THEN Queue(d) ELSE Send(d, "advance", {}, Elapsed(c, now))

\* The answer of an advance: then(), and finally().
OnAdvanced(c, answer) ==
  Queue(IF answer.ok THEN AnswerAutosave(ApplyInvalidations(c, answer.invalid), answer) ELSE c)

OnAdvanceFailed(c) == Queue(c)

=============================================================================
