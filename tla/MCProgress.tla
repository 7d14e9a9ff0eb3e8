------------------------------ MODULE MCProgress ------------------------------
(* What an agent sets going and must get back: the calls of a batch, the       *)
(* children of its group, and the commands it runs, some of them as background *)
(* jobs.  Each of the three keeps state the others do not touch, so a          *)
(* behaviour moves one of them; the others rest in their initial states, where *)
(* nothing that fairness could demand is enabled.                              *)
EXTENDS ToolRunner

CONSTANTS Siblings, Root, None, Shapes, MaxProcs, MaxBytes, MAX_JOBS, BUFFER_LIMIT, Promotes

\* What the shell of a command and its child ignore is fixed when they start, and a
\* buffer holds a number of characters.
ASSUME JobConstants ==
    /\ Shapes \subseteq [child : BOOLEAN, deafLeader : BOOLEAN, deafChild : BOOLEAN]
    /\ BUFFER_LIMIT \in Nat

VARIABLES part,
          limit, attached, parent, inbox, at, cancel, restart, status, sending, lock, retiring,
          closing, closed, manifest, rootLog, log, byUser, stopped, parked, inputs, crashes,
          procs, jobs, counter, agent, killer, glance, phase

\* One slot: archives and a shutdown meet calls, submissions and turn ends.
Group == INSTANCE Subagents WITH
    Children <- Siblings, Limits <- {1}, MaxRetained <- 2, Faults <- {}, MaxInputs <- 2,
    MaxCrashes <- 0
Job == INSTANCE Jobs

\* Batches in which every kind of call meets the others, and what scripts ask for.
Emitted == {<<"read", "read", "fetch", "write">>, <<"edit", "read", "edit", "look">>,
            <<"builtin", "unknown", "script", "edit">>, <<"wrapped", "write", "read">>}
Scripted == {[calls |-> <<"read", "read", "edit">>, many |-> TRUE],
             [calls |-> <<"write", "read">>, many |-> TRUE],
             [calls |-> <<"wrapped">>, many |-> FALSE]}
\* A command that exits on its own, and a child that ignores SIGTERM.
Commands == {[child |-> FALSE, deafLeader |-> TRUE, deafChild |-> FALSE],
             [child |-> TRUE, deafLeader |-> FALSE, deafChild |-> TRUE]}

groupVars == <<limit, attached, parent, inbox, at, cancel, restart, status, sending, lock,
               retiring, closing, closed, manifest, rootLog, log, byUser, stopped, parked,
               inputs, crashes>>
jobVars == <<procs, jobs, counter, agent, killer, glance, phase>>

AllInit == part \in {"batch", "group", "job"} /\ Init /\ Group!Init /\ Job!Init
AllNext ==
    \/ part = "batch" /\ Next /\ UNCHANGED <<part, groupVars, jobVars>>
    \/ part = "group" /\ Group!Next /\ UNCHANGED <<part, vars, jobVars>>
    \/ part = "job" /\ Job!Next /\ UNCHANGED <<part, vars, groupVars>>
AllFair == WF_vars(Progress) /\ Group!Fairness /\ Job!Fairness
AllSpec == AllInit /\ [][AllNext]_<<part, vars, groupVars, jobVars>> /\ AllFair

\* Nothing waits for ever: a batch ends unless it waits for the user's answer, no
\* operation keeps the group's admission lock and a shutdown ends with every
\* consumer joined, although both join turns that may wait for that lock, and every
\* call of a command comes back and every shutdown of jobs ends, however deaf the
\* processes are (agent/runner.py:600-660, agent/subagents.py:503-540,
\* tools/shell.py:391-419, session/jobs.py:78-96).
EverythingComesBack ==
    /\ NeverStuck
    /\ Group!LockIsReleased /\ Group!ShutdownCompletes
    /\ Job!CallsComeBack
\* A promoted command's output is shown whole, a call that was not promoted leaves
\* nothing, and closing the session reaps every job (tools/shell.py:397-424,
\* session/jobs.py:67-96).
JobsAreAccounted == Job!HistoryIsWhole /\ Job!CallLeavesNothing /\ Job!ShutdownReapsJobs
==============================================================================
