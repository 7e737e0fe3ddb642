----------------------------- MODULE Subprocess -----------------------------
(***************************************************************************)
(* One call of Subprocess.Locate (internal/locator/subprocess.go): the     *)
(* user's command is started, gets the document's location on its stdin,   *)
(* and what it writes to stdout is the document.                           *)
(*                                                                         *)
(* os/exec runs goroutines of its own: one copies cmd.Stdin, which is a    *)
(* bytes.Buffer, into the command's stdin; one watches the context and,    *)
(* when it is done, kills the command (the default Cancel); the copying of *)
(* stdout ends when every process that inherited it has closed it, or when *)
(* WaitDelay is over.                                                      *)
(***************************************************************************)
EXTENDS Naturals, Sequences

CONSTANT RunTimeouts     \* values of RunTimeout: "unset" or "set"

ASSUME SubprocessAssumption == RunTimeouts \subseteq {"unset", "set"}

VARIABLES
  context,   \* "live", or "done" once RunTimeout is over
  caller,    \* how far Locate is
  buffer,    \* cmd.stdin: "empty", "grown" with its bytes unwritten, "line"
  copier,    \* exec's goroutine for stdin
  stdin,     \* what the command can read: "open" until that goroutine wrote
  command,   \* the process
  holder,    \* has a process of its own left that keeps stdout open
  watcher,   \* exec's goroutine for the context
  signals,   \* sent to the command
  cut,       \* stdout was closed on this side before the writers had
  err,       \* what Wait is going to return
  result

inside  == <<buffer, copier, stdin>>
outside == <<command, holder>>
waiting == <<watcher, signals, cut, err>>

commandVars == <<context, caller, inside, outside, waiting, result>>

(* WithTimeout with no time left returns a context that is done. *)
CommandInit ==
  /\ context \in {IF t = "unset" THEN "done" ELSE "live" : t \in RunTimeouts}
  /\ caller = "starting"
  /\ buffer = "empty"
  /\ copier = "none"
  /\ stdin = "open"
  /\ command = "none"
  /\ holder = FALSE
  /\ watcher = "none"
  /\ signals = <<>>
  /\ cut = FALSE
  /\ err = "none"
  /\ result = "none"

(* RunTimeout is over. *)
Deadline ==
  /\ context = "live"
  /\ context' = "done"
  /\ UNCHANGED <<caller, inside, outside, waiting, result>>

-----------------------------------------------------------------------------
(* Locate *)

(* No command line, no such program, or no time left. *)
StartFails ==
  /\ caller = "starting"
  /\ caller' = "returned"
  /\ result' = "error"
  /\ UNCHANGED <<context, inside, outside, waiting>>

Start ==
  /\ caller = "starting" /\ context = "live"
  /\ caller' = "started"
  /\ command' = "running"
  /\ copier' = "copying"
  /\ watcher' = "watching"
  /\ UNCHANGED <<context, buffer, stdin, holder, signals, cut, err, result>>

(* Fprintln to the buffer: Write makes room, then puts the bytes there,    *)
(* with no lock against the goroutine that reads the buffer.               *)
GrowBuffer ==
  /\ caller = "started"
  /\ caller' = "writing"
  /\ buffer' = "grown"
  /\ UNCHANGED <<context, copier, stdin, outside, waiting, result>>

WriteLine ==
  /\ caller = "writing"
  /\ caller' = "waiting"
  /\ buffer' = "line"
  /\ UNCHANGED <<context, copier, stdin, outside, waiting, result>>

(* Mutant: Locate does not wait for the command when its time is over. *)
ReapAtDeadline ==
  /\ caller = "waiting" /\ (command # "running" \/ context = "done")
  /\ caller' = "reaped"
  /\ err' = IF command = "succeeded" THEN "none" ELSE "exit status"
  /\ UNCHANGED <<context, inside, outside, watcher, signals, cut, result>>

(* Wait: the process has ended. *)
Reap ==
  /\ caller = "waiting" /\ command \in {"succeeded", "failed", "killed"}
  /\ caller' = "reaped"
  /\ err' = IF command = "succeeded" THEN "none" ELSE "exit status"
  /\ UNCHANGED <<context, inside, outside, watcher, signals, cut, result>>

(* Mutant: Wait does not ask the watcher. *)
MeetWatcherNot ==
  /\ caller = "reaped"
  /\ caller' = "awaiting pipes"
  /\ UNCHANGED <<context, inside, outside, waiting, result>>

(* Wait meets the watcher; a watcher that has interrupted the command      *)
(* makes a success an error.                                               *)
MeetWatcher ==
  /\ caller = "reaped"
  /\ caller' = "awaiting pipes"
  /\ err' = IF err = "none" /\ watcher = "interrupted" THEN "timeout" ELSE err
  /\ watcher' = "ended"
  /\ UNCHANGED <<context, inside, outside, signals, cut, result>>

PipesDone == copier = "ended" /\ (~holder \/ cut)

Return ==
  /\ caller = "awaiting pipes" /\ PipesDone
  /\ caller' = "returned"
  /\ result' = IF err = "none" THEN "answer" ELSE "error"
  /\ UNCHANGED <<context, inside, outside, waiting>>

-----------------------------------------------------------------------------
(* The goroutines of os/exec *)

Running == command = "running"
Reaped  == caller \in {"reaped", "awaiting pipes", "returned"}

(* What is in the buffer goes to the command and its stdin is closed; a    *)
(* race with Fprintln may pass bytes that are not written yet.             *)
CopyStdin ==
  /\ copier = "copying"
  /\ copier' = "ended"
  /\ stdin' = CASE ~Running -> stdin
                [] Running /\ buffer = "empty" -> "nothing"
                [] Running /\ buffer = "grown" -> "garbage"
                [] Running /\ buffer = "line"  -> "location"
  /\ UNCHANGED <<context, caller, buffer, outside, waiting, result>>

(* The default Cancel of CommandContext.  A process that has ended but is  *)
(* not waited for can still be signalled.                                  *)
KillCommand ==
  /\ watcher = "watching" /\ context = "done"
  /\ IF Reaped
     THEN watcher' = "too late" /\ UNCHANGED <<command, signals>>
     ELSE /\ watcher' = "interrupted"
          /\ signals' = Append(signals, "KILL")
          /\ command' = IF Running THEN "killed" ELSE command
  /\ UNCHANGED <<context, caller, inside, holder, cut, err, result>>

(* Mutant: WaitDelay is not set. *)
DelayPassesNever == FALSE /\ UNCHANGED commandVars

(* WaitDelay is over, counted from the interrupt or from the end of the    *)
(* process: stdout is closed whoever else has it, and a process that       *)
(* succeeded counts as failed.                                             *)
DelayPasses ==
  /\ holder /\ ~cut
  /\ watcher = "interrupted" \/ caller = "awaiting pipes"
  /\ cut' = TRUE
  /\ err' = IF err = "none" THEN "wait delay" ELSE err
  /\ UNCHANGED <<context, caller, inside, outside, watcher, signals, result>>

-----------------------------------------------------------------------------
(* The command: it may end before it reads stdin, run forever, or leave a  *)
(* process in the background that keeps its stdout.                        *)

CommandEnds ==
  /\ Running
  /\ command' \in {"succeeded", "failed"}
  /\ UNCHANGED <<context, caller, inside, holder, waiting, result>>

ForkHolder ==
  /\ Running /\ ~holder
  /\ holder' = TRUE
  /\ UNCHANGED <<context, caller, inside, command, waiting, result>>

HolderEnds ==
  /\ holder
  /\ holder' = FALSE
  /\ UNCHANGED <<context, caller, inside, command, waiting, result>>

Locate ==
  StartFails \/ Start \/ GrowBuffer \/ WriteLine \/ Reap \/ MeetWatcher \/ Return

CommandNext ==
  \/ Deadline \/ Locate
  \/ CopyStdin \/ KillCommand \/ DelayPasses
  \/ CommandEnds \/ ForkHolder \/ HolderEnds

(* Time passes and the tool's goroutines go on; what the user's command    *)
(* does is not promised.                                                   *)
Fairness ==
  /\ WF_commandVars(Deadline) /\ WF_commandVars(Locate)
  /\ WF_commandVars(CopyStdin) /\ WF_commandVars(KillCommand) /\ WF_commandVars(DelayPasses)

CommandSpec == CommandInit /\ [][CommandNext]_commandVars /\ Fairness

-----------------------------------------------------------------------------
(* Properties *)

(* Locate only passes on a document when the command ended with success    *)
(* on its own and everything that was written to stdout has been read, in  *)
(* whatever order the exit, the deadline and the end of stdout come.       *)
AnswersAreWhole == result = "answer" => command = "succeeded" /\ signals = <<>> /\ ~cut

(* When Locate has returned the command is not running any more. *)
CommandIsGone == caller = "returned" => ~Running

(* Locate returns, also when the command hangs or leaves a process behind  *)
(* that never closes stdout.                                               *)
LocateReturns == <>(caller = "returned")

(* What the doc comment of Subprocess says: the command finds the location *)
(* on its stdin.                                                           *)
CommandGetsLocation == stdin \in {"open", "location"}
=============================================================================
