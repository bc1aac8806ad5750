----------------------------- MODULE CommandLoop -----------------------------
(***************************************************************************)
(* The life of the reactor thread from main() to the return of run(), the  *)
(* stop() that another thread or a signal handler may call at any point,   *)
(* and the command input: a descriptor read to its end on every event, a   *)
(* line buffer with a cap, and the callback per line.  FeedSimulator has   *)
(* the same code.                                                          *)
(*                                                                         *)
(* Input is a sequence of pieces; a piece stands for a stretch of bytes of *)
(* one line, and the last piece of a line carries its newline.  What       *)
(* commands other than quit do is in modules Connection and FeedMonitor.   *)
(***************************************************************************)
EXTENDS Integers, Sequences, SequencesExt

CONSTANTS
  Input,        \* everything the operator will type, pipe in or redirect
  MaxBuffer,    \* kMaxCommandLineBufferBytes, in pieces
  ReadSize,     \* sizeof(buf), in pieces
  Stops         \* whether someone calls stop() from outside

Piece == [line : Nat, newline : BOOLEAN, quit : BOOLEAN]

ASSUME InputAssumption ==
  /\ Input \in Seq(Piece)
  /\ MaxBuffer \in Nat \ {0} /\ ReadSize \in Nat \ {0}
  /\ Stops \in BOOLEAN

VARIABLES
  pc,                  \* where the reactor thread is
  stop_requested,      \* stop_requested_
  wake,                \* wake_fd_ is readable
  stopper,             \* the outside call of stop(): "idle", "stored", "done"
  batch,               \* events of the current epoll_wait still to be dispatched
  pollable,            \* command_fd_ is a pipe or terminal, not a regular file
  registered,          \* command_fd_ is in the epoll set
  edge,                \* epoll owes a report of command_fd_
  pipe, closed,        \* what can be read, and whether EOF follows
  written,             \* how much of Input was written
  buffer,              \* command_line_buffer_
  eof,                 \* on_command_fd_readable's local
  handled,             \* the lines given to the callback
  discarded            \* history: the cap was hit

thread == <<pc, batch>>
stopping == <<stop_requested, wake, stopper>>
operator == <<pollable, pipe, closed, written>>
lines == <<buffer, eof, handled, discarded>>
vars == <<thread, stopping, registered, edge, operator, lines>>

Init ==
  /\ pc = "boot" /\ batch = {}
  /\ stop_requested = FALSE /\ wake = FALSE /\ stopper = "idle"
  /\ registered = FALSE /\ edge = FALSE
  /\ pollable \in BOOLEAN
  /\ pipe = IF pollable THEN <<>> ELSE Input
  /\ closed = ~pollable
  /\ written = Len(pipe)
  /\ buffer = <<>> /\ eof = FALSE /\ handled = <<>> /\ discarded = FALSE

-----------------------------------------------------------------------------
(* The operator, and stop() from outside                                   *)

Write ==
  /\ ~closed /\ written < Len(Input)
  /\ pipe' = Append(pipe, Input[written + 1])
  /\ written' = written + 1
  /\ edge' = registered
  /\ UNCHANGED <<thread, stopping, registered, pollable, closed, lines>>

\* The writer closes its end after the last piece.
Close ==
  /\ ~closed /\ written = Len(Input)
  /\ closed' = TRUE
  /\ edge' = registered
  /\ UNCHANGED <<thread, stopping, registered, pollable, pipe, written, lines>>

\* stop(): the store, then the write to the eventfd.  The signal handlers are
\* in place once main() has left "boot".
StopStore ==
  /\ Stops /\ stopper = "idle" /\ pc \notin {"boot", "ended"}
  /\ stop_requested' = TRUE
  /\ stopper' = "stored"
  /\ UNCHANGED <<thread, wake, registered, edge, operator, lines>>

StopWake ==
  /\ stopper = "stored"
  /\ wake' = TRUE
  /\ stopper' = "done"
  /\ UNCHANGED <<thread, stop_requested, registered, edge, operator, lines>>

-----------------------------------------------------------------------------
(* main and run                                                            *)

\* The monitor is built and the signal handlers are installed.
InstallHandlers ==
  /\ pc = "boot"
  /\ pc' = "ready"
  /\ UNCHANGED <<batch, stopping, registered, edge, operator, lines>>

\* set_command_input.  EPOLL_CTL_ADD refuses a regular file (EPERM), and its
\* result is not looked at.
SetCommandInput ==
  /\ pc = "ready"
  /\ pc' = "set"
  /\ registered' = pollable
  /\ edge' = (registered' /\ (pipe # <<>> \/ closed))
  /\ UNCHANGED <<batch, stopping, operator, lines>>

\* run() starts by clearing the flag.
Run ==
  /\ pc = "set"
  /\ pc' = "test"
  /\ stop_requested' = FALSE
  /\ UNCHANGED <<batch, wake, stopper, registered, edge, operator, lines>>

BugTestOnWake == pc' = IF stop_requested /\ wake THEN "ended" ELSE "wait"

\* Where the while condition leads.
WhileNotStopped == pc' = IF stop_requested THEN "ended" ELSE "wait"

TestStop ==
  /\ pc = "test"
  /\ WhileNotStopped
  /\ UNCHANGED <<batch, stopping, registered, edge, operator, lines>>

\* epoll_wait returns some of what is ready; the timer always is, in time.
EpollWait ==
  /\ pc = "wait"
  /\ pc' = "dispatch"
  /\ batch' \in SUBSET ({"timer"} \cup (IF wake THEN {"wake"} ELSE {})
                                  \cup (IF edge THEN {"command"} ELSE {})) \ {{}}
  /\ edge' = (edge /\ "command" \notin batch')
  /\ UNCHANGED <<stopping, registered, operator, lines>>

\* EINTR: a signal handler ran, back to the condition.
EpollInterrupted ==
  /\ pc = "wait" /\ stopper # "idle"
  /\ pc' = "test"
  /\ UNCHANGED <<batch, stopping, registered, edge, operator, lines>>

\* The eventfd is read and thereby reset.
DispatchWake ==
  /\ pc = "dispatch" /\ "wake" \in batch
  /\ batch' = batch \ {"wake"}
  /\ wake' = FALSE
  /\ UNCHANGED <<pc, stop_requested, stopper, registered, edge, operator, lines>>

DispatchTimer ==
  /\ pc = "dispatch" /\ "timer" \in batch
  /\ batch' = batch \ {"timer"}
  /\ UNCHANGED <<pc, stopping, registered, edge, operator, lines>>

DispatchCommand ==
  /\ pc = "dispatch" /\ "command" \in batch
  /\ batch' = batch \ {"command"}
  /\ pc' = "read"
  /\ eof' = FALSE
  /\ UNCHANGED <<stopping, registered, edge, operator, buffer, handled, discarded>>

BatchDone ==
  /\ pc = "dispatch" /\ batch = {}
  /\ pc' = "test"
  /\ UNCHANGED <<batch, stopping, registered, edge, operator, lines>>

-----------------------------------------------------------------------------
(* on_command_fd_readable                                                  *)

BugReadOnce == "split"

\* After a chunk the loop reads again.
ReadAgain == "read"

BugCapBeforeAppend(grown) == Len(buffer) > MaxBuffer

OverCap(grown) == Len(grown) > MaxBuffer

\* read() returns a chunk; over the cap the whole buffer is thrown away.
ReadChunk ==
  /\ pc = "read" /\ pipe # <<>>
  /\ \E n \in 1 .. ReadSize :
       /\ n <= Len(pipe)
       /\ pipe' = SubSeq(pipe, n + 1, Len(pipe))
       /\ LET grown == buffer \o SubSeq(pipe, 1, n) IN
          IF OverCap(grown)
          THEN buffer' = <<>> /\ discarded' = TRUE
          ELSE buffer' = grown /\ UNCHANGED discarded
  /\ pc' = ReadAgain
  /\ UNCHANGED <<batch, stopping, registered, edge, pollable, closed, written, eof, handled>>

\* EAGAIN, or EOF.
ReadEnd ==
  /\ pc = "read" /\ pipe = <<>>
  /\ eof' = closed
  /\ pc' = "split"
  /\ UNCHANGED <<batch, stopping, registered, edge, operator, buffer, handled, discarded>>

\* handle_command_line: quit calls stop().
Callback(line) ==
  /\ handled' = Append(handled, line)
  /\ IF Len(line) = 1 /\ line[1].quit
     THEN stop_requested' = TRUE /\ wake' = TRUE
     ELSE UNCHANGED <<stop_requested, wake>>
  /\ UNCHANGED stopper

Newlines == {i \in DOMAIN buffer : buffer[i].newline}

BugLastNewline == CHOOSE i \in Newlines : \A j \in Newlines : i >= j

\* command_line_buffer_.find
FirstNewline == CHOOSE i \in Newlines : \A j \in Newlines : i <= j

\* One complete line is cut off the front of the buffer.
SplitLine ==
  /\ pc = "split" /\ Newlines # {}
  /\ Callback(SubSeq(buffer, 1, FirstNewline))
  /\ buffer' = SubSeq(buffer, FirstNewline + 1, Len(buffer))
  /\ UNCHANGED <<thread, registered, edge, operator, eof, discarded>>

BugFinalLineDropped == UNCHANGED <<handled, stopping>>

\* At EOF a last line without a newline is a command too.
FinalLine ==
  IF buffer # <<>> THEN Callback(buffer) ELSE UNCHANGED <<handled, stopping>>

BugPartialDropped == <<>>

\* A partial line waits in the buffer, unless the input has ended.
Leftover == IF eof THEN <<>> ELSE buffer

\* No complete line is left.  After EOF the descriptor leaves the epoll set.
SplitDone ==
  /\ pc = "split" /\ Newlines = {}
  /\ pc' = "dispatch"
  /\ buffer' = Leftover
  /\ IF eof
     THEN FinalLine /\ registered' = FALSE /\ edge' = FALSE
     ELSE UNCHANGED <<handled, stopping, registered, edge>>
  /\ UNCHANGED <<batch, operator, eof, discarded>>

-----------------------------------------------------------------------------
Thread ==
  \/ InstallHandlers \/ SetCommandInput \/ Run
  \/ TestStop \/ EpollWait \/ EpollInterrupted
  \/ DispatchWake \/ DispatchTimer \/ DispatchCommand \/ BatchDone
  \/ ReadChunk \/ ReadEnd \/ SplitLine \/ SplitDone

Done == pc = "ended" /\ UNCHANGED vars

Next == Write \/ Close \/ StopStore \/ StopWake \/ Thread \/ Done

Spec == Init /\ [][Next]_vars

EpollWaitCommand == EpollWait /\ "command" \in batch'

\* The reactor thread keeps running and a stop() once begun is finished; epoll
\* serves ready descriptors in turn.
FairSpec ==
  /\ Spec
  /\ WF_vars(Thread) /\ WF_vars(StopWake) /\ SF_vars(EpollWaitCommand)

-----------------------------------------------------------------------------
(* Properties                                                              *)

\* Every variable keeps its type.
TypeOK ==
  /\ pc \in {"boot", "ready", "set", "test", "wait", "dispatch", "read", "split", "ended"}
  /\ batch \subseteq {"wake", "timer", "command"}
  /\ stop_requested \in BOOLEAN /\ wake \in BOOLEAN /\ stopper \in {"idle", "stored", "done"}
  /\ registered \in BOOLEAN /\ edge \in BOOLEAN /\ closed \in BOOLEAN /\ pollable \in BOOLEAN
  /\ pipe \in Seq(Piece) /\ written \in 0 .. Len(Input)
  /\ buffer \in Seq(Piece) /\ Len(buffer) <= MaxBuffer
  /\ eof \in BOOLEAN /\ handled \in Seq(Seq(Piece)) /\ discarded \in BOOLEAN

\* Unless the cap was hit, nothing typed is lost, repeated or reordered between
\* the pipe, the buffer and the callback, however the input is chunked and
\* wherever EOF falls (the final read() with "the final batch of real commands").
InputConserved ==
  ~discarded =>
    FlattenSeq(handled) \o buffer \o pipe
      = SubSeq(Input, 1, written)

\* Unless the cap was hit, the callback gets whole lines: a newline at its end
\* (or the end of the input) and none before.
LinesIntact ==
  ~discarded =>
    \A i \in DOMAIN handled : LET line == handled[i] IN
      /\ \A k \in 1 .. Len(line) - 1 : ~line[k].newline
      /\ line[Len(line)].newline \/ (i = Len(handled) /\ closed /\ pipe = <<>>)

\* Input that arrived is never overlooked by the edge-triggered reactor: epoll
\* still owes the report, or it is being handled.
InputNoticed ==
  registered /\ (pipe # <<>> \/ closed)
    => edge \/ "command" \in batch \/ pc \in {"read", "split"}

Running == pc \notin {"boot", "ready", "set"}

\* A stop() that comes after run() has started, from a signal, another thread or
\* the quit command, makes run() return.
StopReturns == (Running /\ stop_requested) ~> (pc = "ended")

\* All commands of an input that has ended run, unless the cap or a stop()
\* intervenes.  A regular file is left out: epoll refuses it, see SetCommandInput.
InputRuns ==
  (pollable /\ closed)
    ~> (discarded \/ stop_requested \/ FlattenSeq(handled) = Input)

\* feed_monitor.h: run() "blocks until stop() is called", and stop() is "safe to
\* call from another thread or a signal handler": every stop() ends the run.
StopHonoured == (stopper = "done") ~> (pc = "ended")
=============================================================================
