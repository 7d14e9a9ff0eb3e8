------------------------------- MODULE MCGates -------------------------------
(* What stands between a call of the model and its effect: hooks, skills and    *)
(* approvals of the host, the plugin workers that intercept operations, and    *)
(* the login to an MCP server.  None touches another's state, so a behaviour   *)
(* moves one of them.                                                          *)
EXTENDS Naturals, TLC

CONSTANTS Files, Configured, MAX_REDIRECTS, MaxEpoch, Plugins, Order, Gens, Chained, CallSlots,
          WithActions, Kinds, MaxRequests, a, b, Flows, MaxGrants

\* No flow is called nobody, and 0 numbers no generation.
ASSUME GateConstants == "nobody" \notin Flows /\ 0 \notin Gens

VARIABLES part, lib, listing, epoch, active, pc, fire, said, call, redirects, cancelled, named,
          asked, heard, kind, gens, worker, idle, failed, reg, manager, requests, saved,
          loaded, off, turn, closed, ops, flow, stored, accepted, issued, expired, oauth_gate,
          refresh_gate, logins, catalog, mcpClosed, spoiled

\* Hooks, skill approvals and the skill index of one session.
Gate == INSTANCE CallGate
\* The generations of plugin workers and the operations that pin them.
Plugin == INSTANCE PluginRuntime WITH Names <- Plugins, Calls <- CallSlots
\* Connecting to an MCP server, its grants and their refresh.
Mcp == INSTANCE McpManager WITH closed <- mcpClosed

File(n, s, o, c, h, r, k) ==
    [name |-> n, source |-> s, open |-> o, commands |-> c, hook |-> h, rule |-> r, fork |-> k]
MCFiles == {File("guard", "user", TRUE, FALSE, TRUE, TRUE, FALSE),
            File("guard", "project", FALSE, TRUE, FALSE, FALSE, FALSE),
            File("notes", "project", TRUE, FALSE, FALSE, FALSE, TRUE)}

Order2 == <<a, b>>
\* Both plugins are resident, or b has actions only and is parked when idle.
Nested == [n \in Plugins |-> TRUE]
Parked == [n \in Plugins |-> n = a]
MCKinds == {Nested, Parked}
OneEach == [k \in MCKinds |-> 1]

Interchangeable == Permutations(Gens) \cup Permutations(Flows)

gateVars == <<lib, listing, epoch, active, pc, fire, said, call, redirects, cancelled, named,
              asked, heard>>
pluginVars == <<kind, gens, worker, idle, failed, reg, manager, requests, saved, loaded, off,
                turn, closed, ops>>
mcpVars == <<flow, stored, accepted, issued, expired, oauth_gate, refresh_gate, logins,
             catalog, mcpClosed, spoiled>>
vars == <<part, gateVars, pluginVars, mcpVars>>

\* The part that moves; the others stay in their initial states, of which a part
\* that rests has one.
Init ==
    /\ part \in {"gate", "plugin", "mcp"}
    /\ Gate!Init
    /\ Plugin!Init /\ (part = "plugin" \/ kind = Nested)
    /\ Mcp!Init /\ (part = "mcp" \/ (issued = 0 /\ expired = 0))
Next ==
    \/ /\ part = "gate" /\ Gate!Next
       /\ UNCHANGED <<part, pluginVars, mcpVars>>
    \/ /\ part = "plugin" /\ Plugin!Next
       /\ UNCHANGED <<part, gateVars, mcpVars>>
    \/ /\ part = "mcp" /\ Mcp!Next
       /\ UNCHANGED <<part, gateVars, pluginVars>>
    \* any other may stop
    \/ part # "gate" /\ UNCHANGED vars
Spec == Init /\ [][Next]_vars

\* A call takes effect only past every hook that could refuse it and with the
\* consent it needs; a held skill starts only for a user who named it; the
\* model is told of each skill once; no hook runs on after its turn
\* (agent/runner.py:866-892, tools/skill.py:46-50, agent/engine.py:964-973,
\* utils/process.py:64-102).
GatesHold ==
    part = "gate" =>
        /\ Gate!ConsentBeforeEffect /\ Gate!HeldSkillsNeedAName /\ Gate!SkillsAreToldOnce
        /\ Gate!NoHookOutlivesItsTurn
\* An operation keeps the generations it pinned, an accepted disable is not
\* undone by an activation that was already under way and waits for no window a
\* person would have to close, and a closed runtime leaves no worker
\* (plugins/runtime.py:272, 458, 475, 740, plugins/session.py:249).
PluginsArePinned ==
    part = "plugin" =>
        /\ Plugin!PinnedIsNotReplaced /\ Plugin!DisableIsNotUndone
        /\ Plugin!DisableWaitsForNoPerson /\ Plugin!ShutdownLeavesNoWorker
\* An intercepted operation reports success only when everything below every
\* handler succeeded (plugins/interception.py:225, plugins/process.py:172).
OutcomesAreHonest == Plugin!OutcomesAreHonest
\* A refresh token is used once, a connect that just logged in keeps its
\* credentials for its own discovery, and nothing of the manager runs once its
\* close has returned (oauth.py:172, manager.py:228, 535).
GrantsAreKept ==
    /\ Mcp!RefreshTokensAreUsedOnce /\ Mcp!LoginsAreNotPulled
    /\ [](part = "mcp" => Mcp!ClosedIsQuiet)
==============================================================================
