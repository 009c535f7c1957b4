------------------------------ MODULE AudioTools ------------------------------
(***************************************************************************)
(* One call of ffmpeg or ffprobe (lib/audio): a child process, a timer, a  *)
(* limit for its output and a promise.  The events of the process, of its  *)
(* pipe and of the timer arrive in any order.  Three wrappers treat them   *)
(* differently: runAudioTool ("tool") rejects when the process has ended,  *)
(* decodeMonoPcmForAnalysis ("pcm") and encodeAnalysisExcerpt ("excerpt")  *)
(* as soon as they give up.                                                *)
(***************************************************************************)
EXTENDS Naturals

CONSTANTS
  MaxOutput,   \* bound: chunks of output a process may have to write
  OutputLimit  \* chunks the wrapper accepts

ASSUME OutputBounds == MaxOutput \in Nat /\ OutputLimit \in Nat

VARIABLES
  wrapper,   \* which of the three wrappers is called
  total,     \* the chunks the process has to write
  child,     \* the process
  written,   \* chunks the process has written to its pipe
  read,      \* chunks the wrapper has been given
  kept,      \* chunks the wrapper has kept
  exceeded,  \* outputExceeded of runAudioTool
  armed,     \* whether the timer is running
  closed,    \* whether the close event has been emitted
  outcome    \* what the promise is settled with

toolVars == <<wrapper, total, child, written, read, kept, exceeded, armed, closed, outcome>>

\* A promise is settled once.
SettleCall(result) == outcome' = IF outcome = "pending" THEN result ELSE outcome

\* Killing a process that has ended does nothing.
Kill == child' = IF child = "running" THEN "killed" ELSE child

-------------------------------------------------------------------------------
(* The process.                                                            *)

\* The binary is missing or cannot be started: the error event, before anything else.
SpawnFails ==
  /\ child = "not_started" /\ armed
  /\ armed' = FALSE
  /\ SettleCall("failed")
  /\ UNCHANGED <<wrapper, total, child, written, read, kept, exceeded, closed>>

ChildWrites ==
  /\ child = "running" /\ written < total
  /\ written' = written + 1
  /\ UNCHANGED <<wrapper, total, child, read, kept, exceeded, armed, closed, outcome>>

\* It ends with its work done, rejects the audio, or is killed by the host.
ChildEnds ==
  /\ child = "running"
  /\ \/ written = total /\ child' = "exited_0"
     \/ child' = "exited_1"
     \/ child' = "killed"
  /\ UNCHANGED <<wrapper, total, written, read, kept, exceeded, armed, closed, outcome>>

-------------------------------------------------------------------------------
(* What the wrappers do with the events.                                   *)

Keep == kept' = kept + 1 /\ UNCHANGED <<child, exceeded, armed, outcome>>

GiveUp(result) == SettleCall(result) /\ armed' = FALSE /\ Kill

CaptureOutput ==
  IF read' > OutputLimit
  THEN exceeded' = TRUE /\ Kill /\ UNCHANGED <<kept, armed, outcome>>
  ELSE Keep

\* Chunks that come after it has given up are kept for nothing.
CollectPcm ==
  IF read' > OutputLimit /\ outcome = "pending"
  THEN GiveUp("limit") /\ UNCHANGED <<kept, exceeded>>
  ELSE Keep

CollectExcerpt ==
  IF read' > OutputLimit
  THEN GiveUp("limit") /\ UNCHANGED <<kept, exceeded>>
  ELSE Keep

\* A data event.
OutputArrives ==
  /\ read < written
  /\ read' = read + 1
  /\ CASE wrapper = "tool" -> CaptureOutput
       [] wrapper = "pcm" -> CollectPcm
       [] wrapper = "excerpt" -> CollectExcerpt
  /\ UNCHANGED <<wrapper, total, written, closed>>

TimerFires ==
  /\ armed /\ child # "not_started"
  /\ armed' = FALSE
  /\ Kill
  /\ IF wrapper = "tool" THEN UNCHANGED outcome ELSE SettleCall("timeout")
  /\ UNCHANGED <<wrapper, total, written, read, kept, exceeded, closed>>

\* How the process ended.
VerdictOfProcess ==
  CASE child = "killed" -> "timeout"
    [] child \in {"exited_1", "not_started"} -> "failed"
    [] OTHER -> "resolved"

\* Output beyond the limit has been dropped, however the process ended.
VerdictOfTool == IF exceeded THEN "limit" ELSE VerdictOfProcess

\* The other two refuse a process that wrote nothing, too.
VerdictOfStream == IF child = "exited_0" /\ kept > 0 THEN "resolved" ELSE "failed"

\* The close event: the process has ended and its pipe is drained.
CallCloses ==
  /\ child # "running" /\ (child = "not_started" => ~armed)
  /\ read = written /\ ~closed
  /\ closed' = TRUE /\ armed' = FALSE
  /\ SettleCall(IF wrapper = "tool" THEN VerdictOfTool ELSE VerdictOfStream)
  /\ UNCHANGED <<wrapper, total, child, written, read, kept, exceeded>>

-------------------------------------------------------------------------------
ToolInit ==
  /\ wrapper \in {"tool", "pcm", "excerpt"}
  /\ total \in 0 .. MaxOutput
  /\ child \in {"running", "not_started"}
  /\ written = 0 /\ read = 0 /\ kept = 0
  /\ exceeded = FALSE /\ armed = TRUE /\ closed = FALSE
  /\ outcome = "pending"

ToolNext ==
  \/ SpawnFails \/ ChildWrites \/ ChildEnds
  \/ OutputArrives \/ TimerFires \/ CallCloses

ToolSpec == ToolInit /\ [][ToolNext]_toolVars

ToolTypeOK ==
  /\ wrapper \in {"tool", "pcm", "excerpt"}
  /\ total \in 0 .. MaxOutput
  /\ child \in {"running", "not_started", "exited_0", "exited_1", "killed"}
  /\ written \in 0 .. total /\ read \in 0 .. written /\ kept \in 0 .. read
  /\ exceeded \in BOOLEAN /\ armed \in BOOLEAN /\ closed \in BOOLEAN
  /\ outcome \in {"pending", "resolved", "failed", "timeout", "limit"}

\* A call that is resolved hands over everything the process wrote, from a process that did
\* its work; one that is settled leaves neither a running process nor a timer behind,
\* whichever of the exit, the last output, the limit and the timer came first
\* (audio/process.ts, audio/pcm.ts, audio/analysis-excerpt.ts).
ResolvedCallIsWhole ==
  /\ outcome = "resolved" => kept = total /\ total <= OutputLimit /\ child = "exited_0"
  /\ outcome # "pending" => ~armed /\ child # "running"
=============================================================================
