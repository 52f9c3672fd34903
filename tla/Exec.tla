-------------------------------- MODULE Exec --------------------------------
(***************************************************************************)
(* PerformExecCommand (exec.go): one command at a time, with the           *)
(* environment exec_security.go lets through and the output                *)
(* bounded_buffer.go keeps.                                                *)
(*                                                                         *)
(* os/exec, which is external, runs beside it: Start refuses a finished    *)
(* context; a watcher kills the command when the context ends; Run         *)
(* collects the command, then waits for the two copying goroutines, which  *)
(* read until everybody who inherited the pipes has closed them.  No       *)
(* WaitDelay is set, so nothing bounds that last wait.  An environment is  *)
(* nil or the set of its entries KEY=VALUE; a command whose Env is nil     *)
(* inherits the host's.                                                    *)
(***************************************************************************)
EXTENDS Integers

CONSTANTS
    Entry,                  \* the entries of an environment
    Key,                    \* their keys, as they are spelled
    NoKey,                  \* in place of the key of an entry without "="
    KeyOf,                  \* strings.Cut: the key of an entry
    UpperKey,               \* strings.ToUpper on keys
    LinkerKey,              \* the keys with a prefix of alwaysBlockedEnvPrefixes
    alwaysBlockedEnvExact,  \* the other keys that are always dropped
    capabilityGatedEnv,     \* the keys that need a capability
    GrantedEnv,             \* the keys whose capability the getter grants
    NilEnv,                 \* the environment that is no slice at all
    Envs,                   \* the values of a request's environment
    HostEnv,                \* the environment of the host's own process
    MaxOutput,      \* cfg.maxOutputSize, in units of output
    MaxWritten      \* bound on what is written to one stream

ASSUME EnvAssumption ==
    /\ KeyOf \in [Entry -> Key \cup {NoKey}] /\ NoKey \notin Key
    /\ UpperKey \in [Key -> Key]
    /\ LinkerKey \cup alwaysBlockedEnvExact \cup capabilityGatedEnv
        \cup GrantedEnv \subseteq Key
    /\ \A env \in SUBSET Entry : env # NilEnv
    /\ \A env \in Envs : env = NilEnv \/ env \subseteq Entry
    /\ Envs # {}
    /\ HostEnv \subseteq Entry
ASSUME OutputAssumption == MaxOutput \in Nat \ {0} /\ MaxWritten \in Nat

Stream == {"stdout", "stderr"}

\* What a caller asks for: whether the command is empty, the environment,
\* WithEnvSanitization and whether it comes with a getter.
Commands ==
    [empty : BOOLEAN, env : Envs, sanitizeEnv : BOOLEAN, getter : BOOLEAN]

VARIABLES
    execPc,     \* where the call is
    cmd,        \* its request
    childEnv,   \* the environment the command is started with
    ctxErr,     \* execCtx.Err(): the first cause wins
    status,     \* the command: not started, alive, or how it ended
    watchErr,   \* the watcher has signalled the command
    held,       \* a descendant of the command has the pipes open
    out,        \* per stream: written, not yet copied, kept, truncated
    runErr,     \* what cmd.Run returned
    execResp,   \* the response
    inTime      \* history: the command was collected before execCtx ended

execVars == <<execPc, cmd, childEnv, ctxErr, status, watchErr, held, out,
              runErr, execResp, inTime>>
run == <<execPc, cmd, childEnv, ctxErr, status, watchErr, held, runErr,
         execResp, inTime>>

NoCommand == CHOOSE c \in Commands : c.empty
NoOutput == [written |-> 0, unread |-> 0, kept |-> 0, truncated |-> FALSE]

-----------------------------------------------------------------------------
(* The environment.                                                        *)

\* The entries of a slice; len(nil) is 0.
Entries(env) == IF env = NilEnv THEN {} ELSE env

IsAlwaysBlockedEnv(upperKey) == upperKey \in LinkerKey \cup alwaysBlockedEnvExact

\* An entry passes when it has a key, and the key in capitals is not blocked
\* and, if it is gated, granted; without a getter none is.
Passes(e, getter) ==
    /\ KeyOf[e] # NoKey
    /\ LET upperKey == UpperKey[KeyOf[e]]
       IN  /\ ~IsAlwaysBlockedEnv(upperKey)
           /\ upperKey \in capabilityGatedEnv => getter /\ upperKey \in GrantedEnv

\* An empty environment is returned as it is, nil or not.
SanitizeEnv(env, getter) ==
    IF Entries(env) = {} THEN env ELSE {e \in env : Passes(e, getter)}

\* The environment a request is left with.
Sanitized(c) == IF c.sanitizeEnv THEN SanitizeEnv(c.env, c.getter) ELSE c.env

MutantCmdEnv(c) == Sanitized(c)

\* cmd.Env: an empty slice in place of nil.
CmdEnv(c) == IF Entries(Sanitized(c)) # {} THEN Sanitized(c) ELSE {}

\* What os/exec starts the command with.
Environ(env) == IF env = NilEnv THEN HostEnv ELSE env

-----------------------------------------------------------------------------
(* BoundedBuffer: what the buffer holds after a write of n.                *)

UpToLimit(n) == IF n > MaxOutput THEN MaxOutput ELSE n

MutantWrite(o, n) ==
    [o EXCEPT !.kept = UpToLimit(@ + n),
              !.truncated = @ \/ o.kept + n >= MaxOutput]

Write(o, n) ==
    IF o.kept >= MaxOutput
    THEN [o EXCEPT !.truncated = TRUE]
    ELSE LET remaining == MaxOutput - o.kept
         IN  IF n > remaining
             THEN [o EXCEPT !.truncated = TRUE, !.kept = @ + remaining]
             ELSE [o EXCEPT !.kept = @ + n]

-----------------------------------------------------------------------------
ExecInit ==
    /\ execPc = "idle"
    /\ cmd = NoCommand
    /\ childEnv = {}
    /\ ctxErr = "none"
    /\ status = "none"
    /\ watchErr = FALSE
    /\ held = FALSE
    /\ out = [s \in Stream |-> NoOutput]
    /\ runErr = "nil"
    /\ execResp = "none"
    /\ inTime = FALSE

\* PerformExecCommand up to cmd.Run: an empty command ends it; otherwise the
\* timer of execCtx is started.
ExecCall(c) ==
    /\ execPc = "idle"
    /\ cmd' = c
    /\ IF c.empty
       THEN /\ execPc' = "done" /\ execResp' = "INVALID_REQUEST"
            /\ UNCHANGED childEnv
       ELSE /\ execPc' = "start" /\ childEnv' = Environ(CmdEnv(c))
            /\ UNCHANGED execResp
    /\ UNCHANGED <<ctxErr, status, watchErr, held, out, runErr, inTime>>

\* The caller has the response; the next call starts afresh.
ExecTaken ==
    /\ execPc = "done" /\ execPc' = "idle"
    /\ cmd' = NoCommand /\ childEnv' = {}
    /\ ctxErr' = "none" /\ status' = "none" /\ watchErr' = FALSE
    /\ out' = [s \in Stream |-> NoOutput]
    /\ runErr' = "nil" /\ execResp' = "none" /\ inTime' = FALSE
    /\ UNCHANGED held

\* The context ends: the timeout of the request, or the caller's own end.
DeadlinePasses ==
    /\ execPc \notin {"idle", "done"} /\ ctxErr = "none"
    /\ ctxErr' = "deadline"
    /\ UNCHANGED <<execPc, cmd, childEnv, status, watchErr, held, out,
                   runErr, execResp, inTime>>

CallerCancels ==
    /\ execPc \notin {"idle", "done"} /\ ctxErr = "none"
    /\ ctxErr' = "canceled"
    /\ UNCHANGED <<execPc, cmd, childEnv, status, watchErr, held, out,
                   runErr, execResp, inTime>>

\* cmd.Start: it fails when the context has ended or when the command
\* cannot be found or executed.
Start ==
    /\ execPc = "start"
    /\ \/ /\ ctxErr = "none"
          /\ execPc' = "run" /\ status' = "alive" /\ UNCHANGED runErr
       \/ execPc' = "ran" /\ runErr' = "other" /\ UNCHANGED status
    /\ UNCHANGED <<cmd, childEnv, ctxErr, watchErr, held, out, execResp, inTime>>

-----------------------------------------------------------------------------
(* The command and its descendants.                                        *)

\* Somebody writes n to a stream.
Output(s, n) ==
    /\ status = "alive" \/ held
    /\ out[s].written + n <= MaxWritten
    /\ out' = [out EXCEPT ![s].written = @ + n, ![s].unread = @ + n]
    /\ UNCHANGED run

\* The command leaves a descendant behind, and the last descendant closes
\* the pipes or ends.
Descendants ==
    /\ \/ status = "alive" /\ ~held /\ held' = TRUE
       \/ held /\ held' = FALSE
    /\ UNCHANGED <<execPc, cmd, childEnv, ctxErr, status, watchErr, out,
                   runErr, execResp, inTime>>

\* The command ends by itself.
Exit(ended) ==
    /\ status = "alive"
    /\ status' = ended
    /\ UNCHANGED <<execPc, cmd, childEnv, ctxErr, watchErr, held, out,
                   runErr, execResp, inTime>>

-----------------------------------------------------------------------------
(* cmd.Wait.                                                               *)

MutantKill == FALSE /\ UNCHANGED execVars

\* The watcher kills the command.  One that has ended and is not collected
\* yet takes the signal too, without effect but for watchErr.
Kill ==
    /\ execPc = "run" /\ ctxErr # "none" /\ ~watchErr
    /\ watchErr' = TRUE
    /\ status' = IF status = "alive" THEN "killed" ELSE status
    /\ UNCHANGED <<execPc, cmd, childEnv, ctxErr, held, out, runErr,
                   execResp, inTime>>

\* Process.Wait returns.  A failure of the command is preferred to the
\* watcher's; success after a signal counts as the context's error.
Collect ==
    /\ execPc = "run" /\ status # "alive"
    /\ execPc' = "drain"
    /\ runErr' = IF status # "zero" THEN "exit"
                 ELSE IF watchErr THEN "other" ELSE "nil"
    /\ inTime' = (ctxErr = "none")
    /\ UNCHANGED <<cmd, childEnv, ctxErr, status, watchErr, held, out,
                   execResp>>

\* A copying goroutine passes on what it has read.
Copy(s, n) ==
    /\ execPc \in {"run", "drain"}
    /\ n <= out[s].unread
    /\ LET read == [out[s] EXCEPT !.unread = @ - n]
       IN  out' = [out EXCEPT ![s] = Write(read, n)]
    /\ UNCHANGED run

\* Both goroutines have met the end of their pipes: cmd.Run returns.
Drained ==
    /\ execPc = "drain" /\ ~held /\ \A s \in Stream : out[s].unread = 0
    /\ execPc' = "ran"
    /\ UNCHANGED <<cmd, childEnv, ctxErr, status, watchErr, held, out,
                   runErr, execResp, inTime>>

-----------------------------------------------------------------------------
MutantReport ==
    /\ execPc = "ran" /\ execPc' = "done"
    /\ execResp' = IF ctxErr = "deadline" THEN "timeout"
                   ELSE IF runErr = "nil" THEN "zero"
                   ELSE IF runErr = "exit" THEN status
                   ELSE "EXECUTION_FAILED"
    /\ UNCHANGED <<cmd, childEnv, ctxErr, status, watchErr, held, out,
                   runErr, inTime>>

\* PerformExecCommand after cmd.Run: success, then a timeout whatever else
\* went wrong, then the command's own exit code.
Report ==
    /\ execPc = "ran" /\ execPc' = "done"
    /\ execResp' = IF runErr = "nil" THEN "zero"
                   ELSE IF ctxErr = "deadline" THEN "timeout"
                   ELSE IF runErr = "exit" THEN status
                   ELSE "EXECUTION_FAILED"
    /\ UNCHANGED <<cmd, childEnv, ctxErr, status, watchErr, held, out,
                   runErr, inTime>>

ExecNext ==
    \/ \E c \in Commands : ExecCall(c)
    \/ ExecTaken
    \/ DeadlinePasses \/ CallerCancels
    \/ Start
    \/ \E s \in Stream, n \in 1..MaxWritten : Output(s, n) \/ Copy(s, n)
    \/ Descendants
    \/ \E ended \in {"zero", "nonzero"} : Exit(ended)
    \/ Kill \/ Collect \/ Drained \/ Report

ExecSpec == ExecInit /\ [][ExecNext]_execVars

\* Timers fire, and what the runtime has to do gets done.  Nothing is
\* assumed of the command and its descendants: they may run for ever.
ExecFairness ==
    /\ WF_execVars(DeadlinePasses)
    /\ WF_execVars(Start)
    /\ WF_execVars(Kill)
    /\ WF_execVars(Collect)
    /\ \A s \in Stream :
        WF_execVars(\E n \in 1..MaxWritten : Copy(s, n))
    /\ WF_execVars(Drained)
    /\ WF_execVars(Report)

-----------------------------------------------------------------------------
\* Every variable keeps its type.
ExecTypeOK ==
    /\ execPc \in {"idle", "start", "run", "drain", "ran", "done"}
    /\ cmd \in Commands
    /\ childEnv \subseteq Entry
    /\ ctxErr \in {"none", "deadline", "canceled"}
    /\ status \in {"none", "alive", "zero", "nonzero", "killed"}
    /\ watchErr \in BOOLEAN /\ held \in BOOLEAN /\ inTime \in BOOLEAN
    /\ out \in [Stream -> [written : 0..MaxWritten, unread : 0..MaxWritten,
                           kept : 0..MaxOutput, truncated : BOOLEAN]]
    /\ runErr \in {"nil", "exit", "other"}
    /\ execResp \in {"none", "INVALID_REQUEST", "EXECUTION_FAILED", "timeout",
                     "zero", "nonzero", "killed"}

\* The response of PerformExecCommand holds everything the command and its
\* descendants wrote up to the limit, however the copying was cut into
\* writes and whether or not the command was killed in between; and it says
\* of a stream that it was truncated exactly when something is missing.
OutputIsWholeOrFlagged ==
    execPc = "done" => \A s \in Stream :
        /\ out[s].kept = UpToLimit(out[s].written)
        /\ out[s].truncated <=> out[s].written > MaxOutput

\* PerformExecCommand never hands the host's environment to a command:
\* whatever a request leaves out and SanitizeEnv takes away, what a command
\* finds in its environment was asked for.
NothingInherited == childEnv \subseteq Entries(cmd.env)

\* The response tells how the command ended, whatever the order in which
\* the deadline, the caller's cancellation, the command's end and the end of
\* its descendants come: success means that it exited with 0; a timeout,
\* that the deadline has passed first; a command that the watcher killed for
\* the deadline times out; and one that exited with 0 and was collected in
\* time succeeds, however long its descendants hold the pipes.
ReportIsTruthful ==
    /\ execResp = "zero" => status = "zero"
    /\ execResp \in {"nonzero", "killed"} =>
        status = execResp /\ ctxErr # "deadline"
    /\ execResp = "timeout" => ctxErr = "deadline"
    /\ execResp # "none" /\ status = "killed" /\ ctxErr = "deadline" =>
        execResp = "timeout"
    /\ execResp # "none" /\ status = "zero" /\ inTime => execResp = "zero"

\* A command that never ends is killed at the deadline and the call returns,
\* unless a descendant keeps the pipes open for ever.
CommandReturns == execPc = "start" ~> (execPc = "done" \/ []held)
=============================================================================
