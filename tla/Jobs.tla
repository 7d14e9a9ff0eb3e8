-------------------------------- MODULE Jobs --------------------------------
(***************************************************************************)
(* Shell commands and background jobs of one agent.                        *)
(*                                                                         *)
(*   tools/shell.py   BashTool (a foreground command, its promotion to a   *)
(*                    job) and JobTool (start, status, wait, write, kill)  *)
(*   session/jobs.py  BackgroundJob                                        *)
(*   agent/lifecycle.py, session/__init__.py  shutdown and running_jobs    *)
(*                                                                         *)
(* Four actors interleave: the agent's tool calls on the event loop, the   *)
(* worker thread of a kill, the drainer thread of a promoted job, and the  *)
(* operating system's processes.  A command is a shell (the leader of its  *)
(* process group) and possibly a child that holds the same output pipe;    *)
(* either may ignore SIGTERM.  One pipe stands for stdout and stderr: each *)
(* has its own decoder and its own handover.  Bytes are numbered, and two  *)
(* of them make a character, so that a read may end inside one.            *)
(***************************************************************************)
EXTENDS Integers, Sequences, FiniteSets, SequencesExt, Functions

CONSTANTS
    Shapes,         \* what commands are like: [child, deafLeader, deafChild]
    MaxProcs,       \* bound: commands started in a run
    MaxBytes,       \* bound: bytes the commands write together
    MAX_JOBS,       \* JobTool.MAX_JOBS
    BUFFER_LIMIT,   \* BackgroundJob.BUFFER_LIMIT, in characters
    Promotes        \* BOOLEAN: 0 < bash_wait_timeout < shell_timeout

VARIABLES
    procs,      \* <<command, ...>>: the operating system's view, by start
    jobs,       \* session.jobs: job number -> BackgroundJob
    counter,    \* session.job_counter
    agent,      \* the tool call at work
    killer,     \* BackgroundJob.kill on its worker thread
    glance,     \* update_status of the loop thread, between poll and write
    phase       \* "open", "closing", "closed": the owning session

vars == <<procs, jobs, counter, agent, killer, glance, phase>>

Idle == [pc |-> "idle", p |-> 0, text |-> <<>>, held |-> 0, clock |-> "early", timedOut |-> FALSE]
NoKill == [pc |-> "none", j |-> 0]

Init ==
    /\ procs = <<>> /\ jobs = <<>> /\ counter = 0
    /\ agent = Idle /\ killer = NoKill /\ glance = 0 /\ phase = "open"

-----------------------------------------------------------------------------
(* Processes.                                                              *)

Spawned(shape, kind) ==
    [leader |-> TRUE, why |-> "none", child |-> shape.child, deafLeader |-> shape.deafLeader,
     deafChild |-> shape.deafChild, wrote |-> 0, read |-> 0, eof |-> FALSE, kind |-> kind, ended |-> "no"]

alive(p) == procs[p].leader                 \* Popen.poll() is None
HoldsPipe(p) == procs[p].leader \/ procs[p].child

(* Mutant: the signal reaches the shell alone.                             *)
kill_process_group_mut(ps, p) ==
    [ps EXCEPT ![p].leader = FALSE, ![p].why = IF ps[p].leader THEN "KILL" ELSE @]

(* killpg(SIGKILL): the whole group, the shell's children included.        *)
kill_process_group(ps, p) ==
    [ps EXCEPT ![p].leader = FALSE, ![p].child = FALSE,
               ![p].why = IF ps[p].leader THEN "KILL" ELSE @]

(* killpg(SIGTERM): a process that ignores it stays.                       *)
Terminate(ps, p) ==
    [ps EXCEPT ![p].leader = @ /\ ps[p].deafLeader, ![p].child = @ /\ ps[p].deafChild,
               ![p].why = IF ps[p].leader /\ ~ps[p].deafLeader THEN "TERM" ELSE @]

(* What the operating system does on its own: output, exits.  A job with a *)
(* log file writes there; its bytes are not followed.                      *)
Write(p) ==
    /\ HoldsPipe(p) /\ procs[p].kind = "bash" /\ ~procs[p].eof
    /\ FoldFunction(LAMBDA q, n : q.wrote + n, 0, procs) < MaxBytes
    /\ procs' = [procs EXCEPT ![p].wrote = @ + 1]
    /\ UNCHANGED <<jobs, counter, agent, killer, glance, phase>>

Exit(p) ==
    /\ procs[p].leader
    /\ procs' = [procs EXCEPT ![p].leader = FALSE, ![p].why = "exit"]
    /\ UNCHANGED <<jobs, counter, agent, killer, glance, phase>>

ChildExit(p) ==
    /\ procs[p].child
    /\ procs' = [procs EXCEPT ![p].child = FALSE]
    /\ UNCHANGED <<jobs, counter, agent, killer, glance, phase>>

-----------------------------------------------------------------------------
(* Decoding.  Characters are named by their number; 0 is the replacement   *)
(* character, what a decoder makes of half a character.                    *)

Decoded(from, to, final) ==
    (IF from <= to /\ from % 2 = 0 THEN <<0>> ELSE <<>>)
    \o [k \in 1..((to \div 2) - (from \div 2)) |-> (from \div 2) + k]
    \o (IF final /\ to >= from /\ to % 2 = 1 THEN <<0>> ELSE <<>>)

Held(to, final) == IF ~final /\ to % 2 = 1 THEN 1 ELSE 0

Empty(p) == procs[p].read = procs[p].wrote

(* One read: some of what the pipe holds, or its end when nobody can write *)
(* to it any more.                                                         *)
Readable(p) ==
    IF Empty(p) THEN (IF HoldsPipe(p) THEN {} ELSE {procs[p].read}) ELSE (procs[p].read + 1)..procs[p].wrote

-----------------------------------------------------------------------------
(* BackgroundJob.                                                          *)

Job(p, log, buffer, held) ==
    [p |-> p, status |-> "running", code |-> "none", log |-> log, buffer |-> buffer, cut |-> FALSE,
     held |-> held, drain |-> IF log THEN "none" ELSE "on", stop |-> FALSE]

(* Old parts go first; a single part too long keeps its end.               *)
append_stream(job, text) ==
    LET parts == Append(job.buffer, text)
        fits(k) == Len(FlattenSeq(SubSeq(parts, k, Len(parts)))) <= BUFFER_LIMIT
        first == CHOOSE k \in 1..Len(parts) :
                     /\ fits(k) \/ k = Len(parts)
                     /\ \A i \in 1..(k - 1) : ~fits(i)
        kept == SubSeq(parts, first, Len(parts))
        one == parts[Len(parts)]
    IN IF text = <<>> THEN job
       ELSE IF fits(first) THEN [job EXCEPT !.buffer = kept, !.cut = @ \/ first > 1]
       ELSE [job EXCEPT !.buffer = <<SubSeq(one, Len(one) - BUFFER_LIMIT + 1, Len(one))>>, !.cut = TRUE]

(* poll, and the end of a run recorded once.                               *)
update_status(j) ==
    IF jobs[j].status = "running" /\ ~alive(jobs[j].p)
    THEN [jobs[j] EXCEPT !.status = "done", !.code = procs[jobs[j].p].why]
    ELSE jobs[j]

Refreshed == [j \in DOMAIN jobs |-> update_status(j)]
running_jobs(js) == {j \in DOMAIN js : js[j].status = "running"}

-----------------------------------------------------------------------------
(* BashTool.call: a foreground command.                                    *)

Ready == phase = "open" /\ agent.pc = "idle" /\ Len(procs) < MaxProcs

BashCall ==
    /\ Ready
    /\ \E s \in Shapes : procs' = Append(procs, Spawned(s, "bash"))
    /\ agent' = [Idle EXCEPT !.pc = "loop", !.p = Len(procs) + 1]
    /\ UNCHANGED <<jobs, counter, killer, glance, phase>>

(* stream_process.read_ready, a callback of the event loop: also while the *)
(* call waits for a killed group.                                          *)
ReadReady ==
    /\ agent.pc \in {"loop", "killing"} /\ ~procs[agent.p].eof
    /\ \E to \in Readable(agent.p) :
          LET eof == Empty(agent.p)
              from == procs[agent.p].read + 1 - agent.held IN
          /\ procs' = [procs EXCEPT ![agent.p].read = to, ![agent.p].eof = eof]
          /\ agent' = [agent EXCEPT !.text = @ \o Decoded(from, to, eof), !.held = Held(to, eof)]
    /\ UNCHANGED <<jobs, counter, killer, glance, phase>>

(* Time passes: the foreground wait is over, then the shell timeout.       *)
Tick ==
    /\ agent.pc = "loop"
    /\ agent' = [agent EXCEPT !.clock = CASE @ = "early" -> "waited" [] OTHER -> "over"]
    /\ agent.clock # "over"
    /\ UNCHANGED <<procs, jobs, counter, killer, glance, phase>>

(* A call that is over closes its pipes; what went through them is no      *)
(* longer told apart.                                                      *)
Over(how) ==
    /\ procs' = [procs EXCEPT ![agent.p].ended = how, ![agent.p].eof = TRUE, ![agent.p].wrote = 0,
                             ![agent.p].read = 0, ![agent.p].why = "none"]
    /\ agent' = Idle

(* The loop ends when the pipes have reached their end and the shell is    *)
(* reaped.                                                                 *)
BashReturns ==
    /\ agent.pc = "loop" /\ procs[agent.p].eof /\ ~alive(agent.p)
    /\ Over(IF agent.timedOut THEN "timeout" ELSE "exit")
    /\ UNCHANGED <<jobs, counter, killer, glance, phase>>

MayPromote ==
    /\ agent.pc = "loop" /\ Promotes /\ ~agent.timedOut
    /\ agent.clock # "early" /\ alive(agent.p)

(* Mutant: the half character stays behind in the loop's decoder.          *)
Promoted_mut(text, held) == append_stream(Job(agent.p, FALSE, <<>>, 0), text)

(* promote_to_job: the buffer starts with what the loop has read, and the  *)
(* drainer with the bytes its decoder still holds.                         *)
Promoted(text, held) == append_stream(Job(agent.p, FALSE, <<>>, held), text)

Promote ==
    /\ MayPromote
    /\ counter' = counter + 1
    /\ jobs' = [j \in DOMAIN jobs \union {counter + 1} |->
                  IF j = counter + 1 THEN Promoted(agent.text, agent.held) ELSE jobs[j]]
    /\ procs' = [procs EXCEPT ![agent.p].ended = "promoted"]
    /\ agent' = Idle
    /\ UNCHANGED <<killer, glance, phase>>

(* The deadline kills the group once; the loop drains on until the end.    *)
Timeout ==
    /\ agent.pc = "loop" /\ agent.clock = "over" /\ ~agent.timedOut /\ ~MayPromote
    /\ alive(agent.p) \/ ~procs[agent.p].eof
    /\ procs' = kill_process_group(procs, agent.p)
    /\ agent' = [agent EXCEPT !.timedOut = TRUE]
    /\ UNCHANGED <<jobs, counter, killer, glance, phase>>

(* Cancellation, or any failure of the loop: kill, wait for the shell,     *)
(* close the pipes, re-raise.                                              *)
Cancel ==
    /\ agent.pc = "loop"
    /\ procs' = kill_process_group(procs, agent.p)
    /\ agent' = [agent EXCEPT !.pc = "killing"]
    /\ UNCHANGED <<jobs, counter, killer, glance, phase>>

CancelReaped ==
    /\ agent.pc = "killing" /\ ~alive(agent.p)
    /\ Over("cancelled")
    /\ UNCHANGED <<jobs, counter, killer, glance, phase>>

(* promote_to_job.drain_pipes, the job's own thread.                       *)
Drain(j) ==
    /\ jobs[j].drain = "on" /\ ~jobs[j].stop
    /\ LET p == jobs[j].p IN
       \E to \in Readable(p) :
          LET eof == Empty(p)
              from == procs[p].read + 1 - jobs[j].held
              read == append_stream(jobs[j], Decoded(from, to, eof)) IN
          /\ procs' = [procs EXCEPT ![p].read = to, ![p].eof = eof]
          /\ jobs' = [jobs EXCEPT ![j] = [read EXCEPT !.held = Held(to, eof), !.drain = IF eof THEN "off" ELSE "on"]]
    /\ UNCHANGED <<counter, agent, killer, glance, phase>>

DrainStops(j) ==
    /\ jobs[j].drain = "on" /\ jobs[j].stop
    /\ jobs' = [jobs EXCEPT ![j].drain = "off"]
    /\ UNCHANGED <<procs, counter, agent, killer, glance, phase>>

-----------------------------------------------------------------------------
(* JobTool.                                                                *)

(* _start: jobs that finished give their place back first.  A spawn that   *)
(* fails takes a number and leaves nothing else.                           *)
StartJob ==
    /\ Ready
    /\ Cardinality(running_jobs(Refreshed)) < MAX_JOBS
    /\ counter' = counter + 1
    /\ \/ \E s \in Shapes :
            /\ procs' = Append(procs, Spawned(s, "job"))
            /\ jobs' = [j \in DOMAIN jobs \union {counter + 1} |->
                          IF j = counter + 1 THEN Job(Len(procs) + 1, TRUE, <<>>, 0) ELSE update_status(j)]
       \/ counter < MaxProcs /\ jobs' = Refreshed /\ UNCHANGED procs
    /\ UNCHANGED <<agent, killer, glance, phase>>

(* status, list, write to a job that has gone, a start that is refused:    *)
(* each looks at the processes first.                                      *)
Look ==
    /\ phase = "open" /\ agent.pc = "idle" /\ jobs # Refreshed
    /\ jobs' = Refreshed
    /\ UNCHANGED <<procs, counter, agent, killer, glance, phase>>

(* wait, and status with a timeout: in slices, until the process is gone,  *)
(* the budget is spent or the call is interrupted.  The job is left alone. *)
WaitJob(j) ==
    /\ phase = "open" /\ agent.pc = "idle" /\ update_status(j).status = "running"
    /\ agent' = [Idle EXCEPT !.pc = "wait", !.p = j]
    /\ UNCHANGED <<procs, jobs, counter, killer, glance, phase>>

WaitEnds ==
    /\ agent.pc = "wait"
    /\ jobs' = [jobs EXCEPT ![agent.p] = update_status(agent.p)]
    /\ agent' = Idle
    /\ UNCHANGED <<procs, counter, killer, glance, phase>>

(* _kill: a worker does it, and the call waits for the worker even when it *)
(* is cancelled.                                                           *)
Killing(j) == killer' = [pc |-> IF update_status(j).status = "running" THEN "term" ELSE "settle", j |-> j]

KillJob(j) ==
    /\ phase = "open" /\ agent.pc = "idle" /\ killer = NoKill
    /\ jobs' = [jobs EXCEPT ![j] = update_status(j)]
    /\ Killing(j)
    /\ agent' = [Idle EXCEPT !.pc = "kill", !.p = j]
    /\ UNCHANGED <<procs, counter, glance, phase>>

-----------------------------------------------------------------------------
(* BackgroundJob.kill, on its thread.                                      *)

KillTerm ==
    /\ killer.pc = "term"
    /\ procs' = Terminate(procs, jobs[killer.j].p)
    /\ killer' = [killer EXCEPT !.pc = "wait"]
    /\ UNCHANGED <<jobs, counter, agent, glance, phase>>

KillAfterGrace ==
    /\ killer.pc = "wait" /\ alive(jobs[killer.j].p)
    /\ procs' = kill_process_group(procs, jobs[killer.j].p)
    /\ UNCHANGED <<jobs, counter, agent, killer, glance, phase>>

KillReaps ==
    /\ killer.pc = "wait" /\ ~alive(jobs[killer.j].p)
    /\ jobs' = [jobs EXCEPT ![killer.j] =
                  LET seen == update_status(killer.j) IN
                  IF seen.status = "done" THEN [seen EXCEPT !.status = "killed"] ELSE seen]
    /\ killer' = [killer EXCEPT !.pc = "settle"]
    /\ UNCHANGED <<procs, counter, agent, glance, phase>>

(* Mutant: the drainer of a job is not told.                               *)
Settled_mut(job) == [job EXCEPT !.log = FALSE]

(* The log goes, the drainer is told to stop.                              *)
Settled(job) == [job EXCEPT !.log = FALSE, !.stop = TRUE]

KillSettles ==
    /\ killer.pc = "settle"
    /\ jobs' = [jobs EXCEPT ![killer.j] = Settled(@)]
    /\ killer' = [killer EXCEPT !.pc = "join"]
    /\ UNCHANGED <<procs, counter, agent, glance, phase>>

KillJoins ==
    /\ killer.pc = "join" /\ jobs[killer.j].drain # "on"
    /\ killer' = IF phase = "closing" THEN [killer EXCEPT !.pc = "next"] ELSE NoKill
    /\ agent' = IF agent.pc = "kill" THEN Idle ELSE agent
    /\ UNCHANGED <<procs, jobs, counter, glance, phase>>

(* running_jobs from the command line (/ps, /status) while a kill runs on  *)
(* its worker: the poll and the write of update_status are two moments.    *)
Glance(j) ==
    /\ phase = "open" /\ agent.pc = "kill" /\ glance = 0
    /\ jobs[j].status = "running" /\ ~alive(jobs[j].p)
    /\ glance' = j
    /\ UNCHANGED <<procs, jobs, counter, agent, killer, phase>>

GlanceWrites ==
    /\ glance # 0
    /\ jobs' = [jobs EXCEPT ![glance].status = "done", ![glance].code = procs[jobs[glance].p].why]
    /\ glance' = 0
    /\ UNCHANGED <<procs, counter, agent, killer, phase>>

-----------------------------------------------------------------------------
(* close_agent_resources: every job is killed, one after the other, before *)
(* the session is closed.                                                  *)

(* Mutant: only the jobs that are running are looked at.                   *)
Victims_mut == running_jobs(jobs)

Victims == DOMAIN jobs

Shutdown ==
    /\ phase = "open" /\ agent.pc = "idle" /\ glance = 0
    /\ phase' = "closing"
    /\ killer' = [pc |-> "next", j |-> 0]
    /\ UNCHANGED <<procs, jobs, counter, agent, glance>>

ShutdownNext ==
    /\ phase = "closing" /\ killer.pc = "next"
    /\ LET left == {j \in Victims : j > killer.j} IN
       IF left = {} THEN phase' = "closed" /\ killer' = NoKill
       ELSE LET j == CHOOSE i \in left : \A k \in left : i <= k IN
            /\ killer' = [pc |-> IF jobs[j].status = "running" THEN "term" ELSE "settle", j |-> j]
            /\ UNCHANGED phase
    /\ UNCHANGED <<procs, jobs, counter, agent, glance>>

-----------------------------------------------------------------------------
Kernel == phase # "closed" /\ \E p \in DOMAIN procs : Write(p) \/ Exit(p) \/ ChildExit(p)
Bash == ReadReady \/ Tick \/ BashReturns \/ Promote \/ Timeout \/ Cancel \/ CancelReaped
Threads == \/ KillTerm \/ KillAfterGrace \/ KillReaps \/ KillSettles \/ KillJoins \/ GlanceWrites \/ ShutdownNext
           \/ \E j \in DOMAIN jobs : Drain(j) \/ DrainStops(j)

Next ==
    \/ Kernel \/ Bash \/ Threads
    \/ BashCall \/ StartJob \/ Look \/ WaitEnds \/ Shutdown
    \/ \E j \in DOMAIN jobs : WaitJob(j) \/ KillJob(j) \/ Glance(j)

(* The event loop runs its callbacks and its timers, the threads run, and  *)
(* a killed process dies.  Commands need neither write nor exit.           *)
Fairness ==
    /\ WF_vars(ReadReady) /\ WF_vars(Tick) /\ WF_vars(BashReturns) /\ WF_vars(Promote) /\ WF_vars(Timeout)
    /\ WF_vars(CancelReaped) /\ WF_vars(WaitEnds) /\ WF_vars(Threads)

Spec == Init /\ [][Next]_vars /\ Fairness

-----------------------------------------------------------------------------
(* Properties.                                                             *)

(* What a job shows of a promoted command is what the command wrote, from  *)
(* its first byte on: nothing is lost, doubled or garbled where the event  *)
(* loop hands the pipe and its half-read character to the drainer          *)
(* (tools/shell.py:397-405, 468-490), and a full buffer keeps an unbroken  *)
(* end of it (session/jobs.py:120-132).                                    *)
HistoryIsWhole ==
    \A j \in DOMAIN jobs : procs[jobs[j].p].kind = "bash" =>
        LET p == procs[jobs[j].p]
            text == Decoded(1, p.read, p.eof)
            shown == FlattenSeq(jobs[j].buffer) IN
        /\ IsSuffix(shown, text)
        /\ Len(shown) <= BUFFER_LIMIT
        /\ ~jobs[j].cut => shown = text

(* A foreground command that was not promoted leaves nothing behind when   *)
(* its call is over: shell and child are gone, by whichever end            *)
(* (tools/shell.py:406-424).                                               *)
CallLeavesNothing ==
    \A p \in DOMAIN procs : procs[p].ended \in {"exit", "timeout", "cancelled"} => ~HoldsPipe(p)

(* Closing the session reaps every job's shell, ends every drainer and     *)
(* removes every log, whatever state a job was in when the shutdown met it *)
(* (agent/lifecycle.py:171-176, session/jobs.py:67-96).                    *)
ShutdownReapsJobs ==
    phase = "closed" =>
        \A j \in DOMAIN jobs : ~alive(jobs[j].p) /\ jobs[j].drain # "on" /\ ~jobs[j].log

(* docs/tools.md:73 says of jobs that "exiting wizolt stops them".  A kill *)
(* escalates to SIGKILL for the sake of the shell alone: once that has     *)
(* gone, a child that ignored SIGTERM is left, so this is not kept.        *)
ExitStopsJobs ==
    phase = "closed" => \A j \in DOMAIN jobs : jobs[j].status = "killed" => ~HoldsPipe(jobs[j].p)

(* Every call comes back and every shutdown ends, however deaf the         *)
(* processes are: a timeout, a promotion, the end of a wait or the second  *)
(* signal sees to it (tools/shell.py:391-419, session/jobs.py:78-96).      *)
CallsComeBack ==
    /\ agent.pc # "idle" ~> agent.pc = "idle"
    /\ phase = "closing" ~> phase = "closed"
=============================================================================
