------------------------------ MODULE ProcessRun ------------------------------
(***************************************************************************)
(* A command of coding.run-command in a LocalProcessSandbox: output of two *)
(* streams up to one limit, against the child's end, an error and an abort.*)
(***************************************************************************)
EXTENDS Integers, Sequences

CONSTANTS
  Commands,     \* [dangerous, cwd]: what dangerousCommandRule says, and
                \* whether the directory exists inside the repository
  ExitCodes,    \* a number, or None for a child a signal ended
  MaxOutput,    \* options.maxOutputBytes
  MaxChunk,     \* bytes of a chunk
  MaxArrived,   \* chunks
  None

Streams == {"stdout", "stderr"}

VARIABLES
  command,
  pc,          \* "idle", "exec", "running", "exited", "done"
  exitCode,
  aborted,
  killed,      \* SIGTERM was sent
  arrived,     \* history: the chunks, in order, as [to, bytes]
  kept,        \* kept[stream]: the bytes in its buffer
  counted,     \* outputBytes
  truncated,   \* outputTruncated
  outcome

vars == <<command, pc, exitCode, aborted, killed, arrived, kept, counted, truncated, outcome>>

output == <<arrived, kept, counted, truncated>>

Init ==
  /\ command \in Commands
  /\ pc = "idle"
  /\ exitCode = None
  /\ aborted = FALSE /\ killed = FALSE
  /\ arrived = <<>>
  /\ kept = [s \in Streams |-> 0]
  /\ counted = 0
  /\ truncated = FALSE
  /\ outcome = None

Settles(o) == pc' = "done" /\ outcome' = o

(* RunCommandTool.execute up to its await.                                 *)
Execute ==
  /\ pc = "idle"
  /\ CASE aborted -> Settles("aborted")
       [] ~aborted /\ command.dangerous -> Settles("failed")
       [] OTHER -> pc' = "exec" /\ UNCHANGED outcome
  /\ UNCHANGED <<command, exitCode, aborted, killed, output>>

(* exec resolves the directory and spawns the child.                       *)
Spawn ==
  /\ pc = "exec"
  /\ CASE ~command.cwd -> Settles("rejected")
       [] command.cwd /\ aborted -> Settles("aborted")
       [] OTHER -> pc' = "running" /\ UNCHANGED outcome
  /\ UNCHANGED <<command, exitCode, aborted, killed, output>>

Abort ==
  /\ ~aborted /\ pc # "done"
  /\ aborted' = TRUE
  /\ killed' = (killed \/ pc \in {"running", "exited"})
  /\ UNCHANGED <<command, pc, exitCode, output, outcome>>

(* Mutant: each stream has the whole limit to itself.                      *)
RemainingOf(stream) == MaxOutput - kept[stream]

(* What is left of the limit, which both streams share.                    *)
Remaining(stream) == MaxOutput - counted

(* append: the chunk that exceeds the limit is cut and ends the child.     *)
Output(stream, bytes) ==
  /\ pc \in {"running", "exited"}
  /\ Len(arrived) < MaxArrived
  /\ arrived' = Append(arrived, [to |-> stream, bytes |-> bytes])
  /\ IF truncated THEN UNCHANGED <<kept, counted, truncated, killed>>
     ELSE IF bytes > Remaining(stream)
     THEN /\ kept' = [kept EXCEPT ![stream] = @ + Remaining(stream)]
          /\ truncated' = TRUE /\ killed' = TRUE
          /\ UNCHANGED counted
     ELSE /\ kept' = [kept EXCEPT ![stream] = @ + bytes]
          /\ counted' = counted + bytes
          /\ UNCHANGED <<truncated, killed>>
  /\ UNCHANGED <<command, pc, exitCode, aborted, outcome>>

(* The child may end at any time, by itself or by a signal, and may finish *)
(* what it does before SIGTERM ends it, or ignore it.                      *)
Exit ==
  /\ pc = "running"
  /\ pc' = "exited"
  /\ exitCode' \in ExitCodes
  /\ UNCHANGED <<command, aborted, killed, output, outcome>>

(* 'close': the child has ended and its streams too.                       *)
Close ==
  /\ pc = "exited"
  /\ Settles(IF aborted THEN "aborted" ELSE IF exitCode = 0 THEN "succeeded" ELSE "failed")
  /\ UNCHANGED <<command, exitCode, aborted, killed, output>>

SpawnFails ==
  /\ pc = "running"
  /\ Settles("rejected")
  /\ UNCHANGED <<command, exitCode, aborted, killed, output>>

Next ==
  \/ Execute \/ Spawn \/ Abort \/ Exit \/ Close \/ SpawnFails
  \/ \E stream \in Streams, bytes \in 1..MaxChunk : Output(stream, bytes)

Spec == Init /\ [][Next]_vars

-----------------------------------------------------------------------------
(* Printed(streams)[n]: the bytes of the first n chunks that they brought. *)
Printed(streams) ==
  LET bytes[n \in 0..Len(arrived)] ==
        IF n = 0 THEN 0 ELSE bytes[n - 1] + (IF arrived[n].to \in streams THEN arrived[n].bytes ELSE 0)
  IN  bytes

Total == kept["stdout"] + kept["stderr"]

(* What a command printed is all there and not cut, or it is cut at the    *)
(* limit, to the byte, the two streams counted together as they came, and  *)
(* reported as cut: every chunk before that is whole (sandbox.ts, append). *)
OutputIsAllOrCut ==
  LET all == Printed(Streams)[Len(arrived)]
      fit == {n \in 0..Len(arrived) : Printed(Streams)[n] <= MaxOutput}
  IN  /\ truncated <=> all > MaxOutput
      /\ Total = IF truncated THEN MaxOutput ELSE all
      /\ \A s \in Streams, n \in fit : kept[s] >= Printed({s})[n]
=============================================================================
