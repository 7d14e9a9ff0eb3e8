-------------------------------- MODULE CallGate --------------------------------
(***************************************************************************)
(* What stands between a model's call and its effect (agent/runner.py,     *)
(* shellhooks.py, utils/process.py, skill/).  The user's hooks run as      *)
(* shells around prompts, calls and answers; loaded skills add hooks and   *)
(* approve calls in advance; a repository's own skills wait for trust; a   *)
(* held skill waits for its user to name it; the rest is asked.  One turn  *)
(* after another, with compactions that rebuild the context in between.    *)
(***************************************************************************)
EXTENDS Naturals, FiniteSets

CONSTANTS Files,         \* SKILL.md files: [name, source, open, commands, hook, rule, fork]
          Configured,    \* hook events of the config file, one hook each
          MAX_REDIRECTS, \* engine.MAX_STOP_REDIRECTS
          MaxEpoch       \* bound on context rebuilds

VARIABLES
  lib,       \* library.skills, as a set of files
  listing,   \* session.skill_listing
  epoch,     \* session.context_epoch
  active,    \* session.active_skills
  pc,        \* where the turn is
  fire,      \* the hook event being fired
  said,      \* names the message being admitted mentions, and where it goes on
  call,      \* the call in hand
  redirects, \* _stop_redirects
  cancelled, \* the turn's task is being cancelled
  named,     \* history: names the user wrote since the context was last rebuilt
  asked,     \* history: names the live turn's messages mention
  heard      \* history: how often the model was told of a name in this listing

history == <<named, asked, heard>>
vars == <<lib, listing, epoch, active, pc, fire, said, call, redirects, cancelled, history>>

Names == {f.name : f \in Files}
NoFire == [event |-> "none", left |-> 0, got |-> {}, shell |-> "none"]
NoCall == [kind |-> "none", name |-> "none", file |-> {}, pre |-> {}, permission |-> {}, user |-> "unasked", free |-> FALSE]
Unlisted == [epoch |-> 0, tool |-> FALSE, told |-> {}, authorized |-> {}]

------------------------------------------------------------------------------
(* The library and what the model is told of it *)

Executable(f) == f.commands \/ f.hook \/ f.rule

Outranked(f, files) == \E g \in files : g.name = f.name /\ g.source = "project" /\ f.source = "user"

scan(files) == {f \in files : ~Outranked(f, files)}

\* A project skill that acts on its own hides its namesake and is itself held back.
Loaded(files, trust) == {f \in scan(files) : f.source = "project" /\ Executable(f) => trust}

get(name) == {f \in lib : f.name = name}
Active == UNION {get(name) : name \in active}
Visible(files) == {f.name : f \in {g \in files : g.open}}

of(l, now) ==
  IF l.epoch = now THEN l
  ELSE [epoch |-> now, tool |-> Visible(lib) # {}, told |-> Visible(lib),
        authorized |-> IF l.epoch > 0 THEN {} ELSE l.authorized]

\* The index a refreeze puts in the prefix is heard instead of what was there.
Hears(l, now) == IF l.epoch = now THEN heard ELSE [n \in Names |-> IF n \in Visible(lib) THEN 1 ELSE 0]

announcement_mut(l) == {}   \* Mutant: a skill that appears later is never announced

announcement(l) == IF l.tool THEN Visible(lib) \ l.told ELSE {}

------------------------------------------------------------------------------
(* A hook event: its hooks one after the other, each a shell of its own *)

Hooks(event) ==
  Cardinality({event} \cap Configured)
    + (IF event = "PreToolUse" THEN Cardinality({f \in Active : f.hook}) ELSE 0)

Fire(event) == [event |-> event, left |-> Hooks(event), got |-> {}, shell |-> "none"]
Fired == fire.left = 0 /\ fire.shell = "none" /\ ~cancelled

\* What a hook may answer; only events that can be blocked are.
Answers(event) ==
  CASE event = "PreToolUse" -> {"none", "failed", "block", "allow", "ask"}
    [] event = "PermissionRequest" -> {"none", "failed", "block", "allow"}
    [] event = "commands" -> {"none"}
    [] OTHER -> {"none", "failed", "block"}

combine(got) ==
  [blocked |-> "block" \in got,
   permission |-> IF "ask" \in got THEN "ask" ELSE IF "allow" \in got THEN "allow" ELSE ""]

Spawn ==
  /\ fire.left > 0 /\ fire.shell = "none" /\ ~cancelled
  /\ fire' = [fire EXCEPT !.shell = "spawning"]
  /\ UNCHANGED <<lib, listing, epoch, active, pc, said, call, redirects, cancelled, history>>

\* The process exists before its handle does: a cancelled spawn is finished first.
Spawned ==
  /\ fire.shell = "spawning"
  /\ \/ fire' = [fire EXCEPT !.shell = "up"]
     \/ fire' = [fire EXCEPT !.shell = "none", !.left = @ - 1, !.got = @ \cup {"failed"}]   \* it cannot start
  /\ UNCHANGED <<lib, listing, epoch, active, pc, said, call, redirects, cancelled, history>>

HookAnswers ==
  /\ fire.shell = "up" /\ ~cancelled
  /\ \E answer \in Answers(fire.event) :
       fire' = [fire EXCEPT !.shell = "none", !.left = @ - 1, !.got = @ \cup {answer}]
  /\ UNCHANGED <<lib, listing, epoch, active, pc, said, call, redirects, cancelled, history>>

\* Past its timeout, or with its turn cancelled, the hook's group is killed and reaped.
KillHook ==
  /\ fire.shell = "up"
  /\ fire' = [fire EXCEPT !.shell = "none", !.left = @ - 1, !.got = @ \cup {"failed"}]
  /\ UNCHANGED <<lib, listing, epoch, active, pc, said, call, redirects, cancelled, history>>

Settled_mut == TRUE   \* Mutant: a cancelled fire does not wait for its shell

Settled == fire.shell = "none"

------------------------------------------------------------------------------
(* A turn *)

Cancel ==
  /\ pc # "idle" /\ ~cancelled
  /\ cancelled' = TRUE
  /\ UNCHANGED <<lib, listing, epoch, active, pc, fire, said, call, redirects, history>>

Idle ==
  /\ pc' = "idle" /\ call' = NoCall /\ said' = {} /\ asked' = {} /\ redirects' = 0
  /\ fire' = IF fire.shell = "none" THEN NoFire ELSE fire

CancelEnds ==
  /\ cancelled /\ Settled
  /\ cancelled' = FALSE
  /\ Idle
  /\ UNCHANGED <<lib, listing, epoch, active, named, heard>>

Submit(names) ==
  /\ pc = "idle"
  /\ pc' = "submit"
  /\ said' = names
  /\ fire' = Fire("UserPromptSubmit")
  /\ UNCHANGED <<lib, listing, epoch, active, call, redirects, cancelled, history>>

FollowUp(names) ==
  /\ pc = "prepare" /\ ~cancelled
  /\ pc' = "followup"
  /\ said' = names
  /\ fire' = Fire("UserPromptSubmit")
  /\ UNCHANGED <<lib, listing, epoch, active, call, redirects, cancelled, history>>

\* The library here is the one of the last scan.
resolve_mentions ==
  LET found == {n \in said : get(n) # {}}
  IN /\ listing' = [listing EXCEPT !.authorized = @ \cup found]
     /\ named' = named \cup found
     /\ asked' = asked \cup found

Refused == pc = "submit" /\ Fired /\ combine(fire.got).blocked /\ Idle
           /\ UNCHANGED <<lib, listing, epoch, active, cancelled, named, heard>>

Withheld ==
  /\ pc = "followup" /\ Fired /\ combine(fire.got).blocked
  /\ pc' = "offer"
  /\ said' = {}
  /\ UNCHANGED <<lib, listing, epoch, active, fire, call, redirects, cancelled, history>>

Admitted ==
  /\ pc \in {"submit", "followup"} /\ Fired /\ ~combine(fire.got).blocked
  /\ resolve_mentions
  /\ pc' = IF pc = "submit" THEN "rescan" ELSE "offer"
  /\ said' = {}
  /\ UNCHANGED <<lib, epoch, active, fire, call, redirects, cancelled, heard>>

\* Skill folders and trusted-projects.json belong to the user and to other
\* processes: a scan finds whatever they hold by then.
reload == \E files \in SUBSET Files, trust \in BOOLEAN : lib' = Loaded(files, trust)

\* On a thread; a cancelled turn leaves the rescan to finish behind it.
Rescan ==
  /\ pc = "rescan"
  /\ reload
  /\ pc' = "announce"
  /\ UNCHANGED <<listing, epoch, active, fire, said, call, redirects, cancelled, history>>

skill_announcement ==
  /\ pc = "announce" /\ ~cancelled
  /\ LET l == of(listing, epoch)
         new == announcement(l)
         h == Hears(listing, epoch)
     IN /\ listing' = [l EXCEPT !.told = @ \cup new]
        /\ heard' = [n \in Names |-> IF n \in new THEN h[n] + 1 ELSE h[n]]
        /\ named' = IF l.epoch = listing.epoch \/ listing.epoch = 0 THEN named ELSE asked
  /\ pc' = "prepare"
  /\ UNCHANGED <<lib, epoch, active, fire, said, call, redirects, cancelled, asked>>

\* Tool.resolved_schemas asks for the listing, with the follow-ups admitted.
Refrozen(now) ==
  /\ listing' = of(listing, now)
  /\ heard' = Hears(listing, now)
  /\ named' = IF listing.epoch = now \/ listing.epoch = 0 THEN named ELSE asked

Offer ==
  /\ pc \in {"prepare", "offer"} /\ ~cancelled
  /\ Refrozen(epoch)
  /\ pc' = "fit"
  /\ UNCHANGED <<lib, epoch, active, fire, said, call, redirects, cancelled, asked>>

\* The request fits, or the prefix is composed again after a compaction.
Request ==
  /\ pc \in {"fit", "compacted"} /\ ~cancelled
  /\ Refrozen(epoch)
  /\ pc' = "asked"
  /\ UNCHANGED <<lib, epoch, active, fire, said, call, redirects, cancelled, asked>>

\* An automatic pass applies its trim even when it is cancelled meanwhile.
AutoCompaction ==
  /\ pc = "fit" /\ epoch < MaxEpoch
  /\ epoch' = epoch + 1
  /\ pc' = "compacted"
  /\ UNCHANGED <<lib, listing, active, fire, said, call, redirects, cancelled, history>>

\* /compact recounts the context at once; so does /status after a cancelled pass.
compact_command ==
  /\ pc = "idle" /\ epoch < MaxEpoch
  /\ epoch' = epoch + 1
  /\ Refrozen(epoch')
  /\ UNCHANGED <<lib, active, pc, fire, said, call, redirects, cancelled, asked>>

status_command ==
  /\ pc = "idle"
  /\ Refrozen(epoch)
  /\ UNCHANGED <<lib, epoch, active, pc, fire, said, call, redirects, cancelled, asked>>

\* The model answers with a call ...
Calls ==
  /\ pc = "asked" /\ ~cancelled
  /\ \/ \E kind \in {"reads", "acts"} : call' = [NoCall EXCEPT !.kind = kind]
     \/ listing.tool /\ \E n \in Names : call' = [NoCall EXCEPT !.kind = "skill", !.name = n]
  /\ fire' = Fire("PreToolUse")
  /\ pc' = "pre"
  /\ UNCHANGED <<lib, listing, epoch, active, said, redirects, cancelled, history>>

\* ... or with text, which Stop hooks may send back.
Answers_text ==
  /\ pc = "asked" /\ ~cancelled
  /\ pc' = "stop"
  /\ fire' = IF redirects < MAX_REDIRECTS THEN Fire("Stop") ELSE NoFire
  /\ UNCHANGED <<lib, listing, epoch, active, said, call, redirects, cancelled, history>>

stop_redirected ==
  /\ pc = "stop" /\ Fired /\ combine(fire.got).blocked
  /\ redirects' = redirects + 1
  /\ pc' = "prepare"
  /\ UNCHANGED <<lib, listing, epoch, active, fire, said, call, cancelled, history>>

TurnEnds ==
  /\ pc = "stop" /\ Fired /\ ~combine(fire.got).blocked
  /\ Idle
  /\ UNCHANGED <<lib, listing, epoch, active, cancelled, named, heard>>

------------------------------------------------------------------------------
(* A call *)

\* The skill a call starts, if the model may start it; found once per call.
Resolution_mut == get(call.name)   \* Mutant: a held skill is open to the model

Resolution == {f \in get(call.name) : f.open \/ f.name \in listing.authorized}

Forks(file) == \E f \in file : f.fork
needs_confirmation(file) == call.kind = "acts" \/ Forks(file) \/ \E f \in file : f.commands
approves == call.kind = "acts" /\ \E f \in Active : f.rule

pre_approved_mut(pre, yolo) == yolo \/ pre.permission = "allow" \/ approves   \* Mutant: an allow or yolo outranks a hook's ask

pre_approved(pre, yolo) == pre.permission # "ask" /\ (yolo \/ pre.permission = "allow" \/ approves)

Start(c) ==
  /\ pc' = IF \E f \in c.file : f.commands /\ ~f.fork THEN "commands" ELSE "run"
  /\ fire' = IF \E f \in c.file : f.commands /\ ~f.fork THEN [NoFire EXCEPT !.event = "commands", !.left = 1] ELSE NoFire
  /\ call' = c

\* After the PreToolUse hooks: refused, free to run, or to be confirmed.
Decide ==
  /\ pc = "pre" /\ Fired
  /\ \E yolo \in BOOLEAN :   \* settings.yolo, which the user may turn at any time
     LET pre == combine(fire.got)
         file == IF call.kind = "skill" THEN Resolution ELSE {}
         needs == needs_confirmation(file) \/ pre.permission = "ask"
         free == pre_approved(pre, yolo) /\ ~Forks(file)
         judged == [call EXCEPT !.file = file, !.pre = fire.got, !.free = yolo \/ approves]
     IN \/ pre.blocked /\ pc' = "prepare" /\ call' = NoCall /\ fire' = NoFire
        \/ ~pre.blocked /\ (needs => free) /\ Start(judged)
        \/ ~pre.blocked /\ needs /\ ~free
             /\ pc' = "permission" /\ fire' = Fire("PermissionRequest") /\ call' = judged
  /\ UNCHANGED <<lib, listing, epoch, active, said, redirects, cancelled, history>>

\* PermissionRequest hooks may refuse, or approve what nothing forces to the user.
Permission ==
  /\ pc = "permission" /\ Fired
  /\ LET answer == combine(fire.got)
         heardHooks == [call EXCEPT !.permission = fire.got]
         forced == combine(call.pre).permission = "ask" \/ Forks(call.file)
     IN \/ answer.blocked /\ pc' = "prepare" /\ call' = NoCall /\ fire' = NoFire
        \/ ~answer.blocked /\ answer.permission = "allow" /\ ~forced /\ Start(heardHooks)
        \/ ~answer.blocked /\ (answer.permission = "allow" => forced)
             /\ pc' = "prompt" /\ call' = heardHooks /\ fire' = NoFire
  /\ UNCHANGED <<lib, listing, epoch, active, said, redirects, cancelled, history>>

Prompt ==
  /\ pc = "prompt" /\ ~cancelled
  /\ \/ Start([call EXCEPT !.user = "yes"])
     \/ pc' = "prepare" /\ call' = NoCall /\ fire' = NoFire      \* no, a reason, or a cancelled prompt
  /\ UNCHANGED <<lib, listing, epoch, active, said, redirects, cancelled, history>>

\* A skill is in force once its commands are through.
Activate ==
  /\ active' = active \cup {f.name : f \in {g \in call.file : ~g.fork}}
  /\ fire' = Fire("PostToolUse")
  /\ pc' = "post"

Execute ==
  /\ pc \in {"run", "commands"} /\ Fired
  /\ Activate
  /\ UNCHANGED <<lib, listing, epoch, said, call, redirects, cancelled, history>>

Finish ==
  /\ pc = "post" /\ Fired
  /\ pc' = "prepare"
  /\ call' = NoCall
  /\ fire' = NoFire
  /\ UNCHANGED <<lib, listing, epoch, active, said, redirects, cancelled, history>>

------------------------------------------------------------------------------
(* The user, between turns *)

\* /skills reload, trust and untrust; refused while a turn runs.
skills_reload ==
  /\ pc = "idle"
  /\ reload
  /\ UNCHANGED <<listing, epoch, active, pc, fire, said, call, redirects, cancelled, history>>

Init ==
  /\ lib = {}
  /\ listing = Unlisted
  /\ epoch = 1
  /\ active = {}
  /\ pc = "idle" /\ fire = NoFire /\ said = {} /\ call = NoCall
  /\ redirects = 0 /\ cancelled = FALSE
  /\ named = {} /\ asked = {} /\ heard = [n \in Names |-> 0]

Next ==
  \/ Spawn \/ Spawned \/ HookAnswers \/ KillHook
  \/ Cancel \/ CancelEnds
  \/ \E names \in SUBSET Names : Submit(names) \/ FollowUp(names)
  \/ Refused \/ Withheld \/ Admitted \/ Rescan \/ skill_announcement
  \/ Offer \/ Request \/ AutoCompaction \/ compact_command \/ status_command
  \/ Calls \/ Answers_text \/ stop_redirected \/ TurnEnds
  \/ Decide \/ Permission \/ Prompt \/ Execute \/ Finish
  \/ skills_reload

Spec == Init /\ [][Next]_vars

------------------------------------------------------------------------------
(* Properties *)

\* A call takes effect only past every hook that could refuse it; a hook's
\* "ask" and a fork are settled by the user alone, whatever a skill or
\* another hook allows, and everything else that needs consent has one
\* (agent/runner.py:866-892, 1155-1162).
ConsentBeforeEffect ==
  pc \in {"run", "commands"} =>
    /\ "block" \notin call.pre \cup call.permission
    /\ "ask" \in call.pre \/ Forks(call.file) => call.user = "yes"
    /\ needs_confirmation(call.file) => call.user = "yes" \/ call.free \/ "allow" \in call.pre \cup call.permission

\* A held skill is started only when the user named it in a message the
\* context still holds (tools/skill.py:46-50, skill/listing.py:45-48).
HeldSkillsNeedAName ==
  pc \in {"run", "commands"} => \A f \in call.file : f.open \/ f.name \in named

\* At every request the model has been told once, and only once, of each
\* skill it may load: by the index it was frozen in or by one announcement
\* (agent/engine.py:964-973, skill/listing.py:35-64).
SkillsAreToldOnce ==
  pc = "asked" /\ listing.tool => \A n \in Visible(lib) : heard[n] = 1

\* No hook's shell outlives the turn that fired it, however the turn ended
\* (utils/process.py:64-102).
NoHookOutlivesItsTurn == pc = "idle" => fire.shell = "none"

\* Naming a held skill opens it for the turn that names it
\* (docs/skills.md:104, agent/engine.py:975-977).
\* Not kept: a compaction later in that turn freezes a new listing, which forgets it.
MentionOpensASkill ==
  pc = "asked" => \A f \in lib : f.name \in asked => f.open \/ f.name \in listing.authorized
==============================================================================
