------------------------------ MODULE McpManager ------------------------------
(***************************************************************************)
(* One OAuth-protected MCP server as the manager of a process sees it:     *)
(* discoveries, connects and tool calls that run at the same time, the     *)
(* login gate, the refresh gate, the token file, and close                 *)
(* (mcp/manager.py, mcp/oauth.py, mcp/tokens.py).                          *)
(*                                                                         *)
(* Credentials are numbered by the grant they come from; each carries an   *)
(* access token that expires and a refresh token the authorization server  *)
(* accepts once, answering with the next number.                           *)
(***************************************************************************)
EXTENDS Naturals, FiniteSets

CONSTANTS Flows,      \* coroutines that may be inside the manager at a time
          MaxGrants   \* bound on the grants the authorization server makes

VARIABLES
  flow,        \* [Flows -> what the coroutine does]
  stored,      \* the credentials in the token file, 0 for none
  accepted,    \* the grants whose refresh token the server accepts
  issued,      \* how many grants there were
  expired,     \* the access tokens up to this grant have expired
  oauth_gate,  \* the flow that logs in
  refresh_gate,\* the flow that refreshes
  logins,      \* _logins: interactive logins completed
  catalog,     \* what is recorded of the server: tools, an error, nothing
  closed,      \* _closed, and whether close() has returned
  spoiled      \* history: an answer of the server was lost, or it revoked its grants

grants == <<stored, accepted, issued, expired, spoiled>>
gates == <<oauth_gate, refresh_gate>>
vars == <<flow, grants, gates, logins, catalog, closed>>

Nobody == "nobody"
Idle == [kind |-> "none", pc |-> "idle", next |-> "end", token |-> 0, seen |-> 0]

\* Phases in which an operation runs as a task the manager owns (_bounded).
InOperation == {"load", "wait", "refresh", "store", "request", "login", "logged"}

Init ==
  /\ flow = [f \in Flows |-> Idle]
  /\ issued \in 0..1 /\ stored = issued /\ accepted = 1..issued
  /\ expired \in 0..issued
  /\ spoiled = FALSE
  /\ oauth_gate = Nobody /\ refresh_gate = Nobody
  /\ logins = 0 /\ catalog = "none" /\ closed = "no"

Goto(f, pc) == flow' = [flow EXCEPT ![f].pc = pc]
At(f, pc) == flow[f].pc = pc
Discovers(f) == flow[f].kind # "call"

------------------------------------------------------------------------------
(* Discovery, the part every connect shares *)

\* discover_server enters _discovery; _discover_one first looks for tokens.
Discover(f, kind, next, seen) ==
  /\ flow' = [flow EXCEPT ![f] = [kind |-> kind, pc |-> "check", next |-> next, token |-> 0, seen |-> seen]]

StartDiscovery(f) ==
  /\ At(f, "idle")
  /\ Discover(f, "discover", "end", 0)
  /\ UNCHANGED <<grants, gates, logins, catalog, closed>>

\* Where a discovery goes on: it ends, its result is judged, or the login
\* gate it ran under is released.
Discovered(f, result) ==
  /\ catalog' = result
  /\ flow' = [flow EXCEPT ![f] = IF @.next = "judge" THEN [@ EXCEPT !.pc = "judge"] ELSE Idle]
  /\ oauth_gate' = IF flow[f].next = "unlock" THEN Nobody ELSE oauth_gate

CheckMut(f) ==   \* Mutant: operations start after close
  /\ At(f, "check")
  /\ IF stored = 0 THEN Discovered(f, "unauthorized") ELSE Goto(f, "load") /\ UNCHANGED <<oauth_gate, catalog>>
  /\ UNCHANGED <<grants, refresh_gate, logins, closed>>

\* _discover_one without tokens, and _bounded once the manager is closed.
Check(f) ==
  /\ At(f, "check")
  /\ IF stored = 0 THEN Discovered(f, "unauthorized")
     ELSE IF closed # "no" THEN Discovered(f, "error")
     ELSE Goto(f, "load") /\ UNCHANGED <<oauth_gate, catalog>>
  /\ UNCHANGED <<grants, refresh_gate, logins, closed>>

\* An operation that ends badly: a discovery records the error, a call only
\* reports it.
Failed(f, result) ==
  IF Discovers(f) THEN Discovered(f, result)
  ELSE /\ flow' = [flow EXCEPT ![f] = Idle]
       /\ UNCHANGED <<oauth_gate, catalog>>

------------------------------------------------------------------------------
(* One operation: load the credentials, refresh them under the gate when    *)
(* the access token has expired, make the request (WizoltOAuth._auth_flow). *)

Stale(token) == token \in 1..expired

Load(f) ==
  /\ At(f, "load")
  /\ flow' = [flow EXCEPT ![f].token = stored, ![f].pc = IF Stale(stored) THEN "wait" ELSE "request"]
  /\ UNCHANGED <<grants, gates, logins, catalog, closed>>

\* Inside the gate the stored credentials are loaded again: another operation
\* may have refreshed them.
EnterRefreshMut(f) ==   \* Mutant: what was loaded before the gate is used
  /\ At(f, "wait") /\ refresh_gate = Nobody
  /\ flow' = [flow EXCEPT ![f].pc = "refresh"]
  /\ refresh_gate' = f
  /\ UNCHANGED <<grants, oauth_gate, logins, catalog, closed>>

EnterRefresh(f) ==
  /\ At(f, "wait") /\ refresh_gate = Nobody
  /\ IF Stale(stored)
     THEN /\ flow' = [flow EXCEPT ![f].token = stored, ![f].pc = "refresh"]
          /\ refresh_gate' = f
     ELSE /\ flow' = [flow EXCEPT ![f].token = stored, ![f].pc = "request"]
          /\ UNCHANGED refresh_gate
  /\ UNCHANGED <<grants, oauth_gate, logins, catalog, closed>>

\* A login adds a grant; a refresh replaces the one it used.
Grant(replaced) ==
  /\ issued < MaxGrants
  /\ issued' = issued + 1 /\ accepted' = (accepted \ replaced) \cup {issued + 1}

Refreshed(f) ==
  /\ At(f, "refresh") /\ closed = "no"
  /\ IF flow[f].token \in accepted
     THEN /\ Grant({flow[f].token})
          /\ flow' = [flow EXCEPT ![f].token = issued + 1, ![f].pc = "store"]
          /\ UNCHANGED refresh_gate
     ELSE /\ flow' = [flow EXCEPT ![f].token = 0, ![f].pc = "request"]
          /\ refresh_gate' = Nobody
          /\ UNCHANGED <<issued, accepted>>
  /\ UNCHANGED <<stored, expired, spoiled, oauth_gate, logins, catalog, closed>>

\* set_tokens, still inside the gate.
StoreTokens(f) ==
  /\ At(f, "store") /\ closed = "no"
  /\ stored' = flow[f].token
  /\ refresh_gate' = Nobody
  /\ Goto(f, "request")
  /\ UNCHANGED <<accepted, issued, expired, spoiled, oauth_gate, logins, catalog, closed>>

Valid(token) == token > expired

\* The server answers; whatever the token, the request may also fail.
Request(f, ok) ==
  /\ At(f, "request") /\ closed = "no"
  /\ ok => Valid(flow[f].token)
  /\ IF ok /\ Discovers(f) THEN Discovered(f, "tools")
     ELSE Failed(f, IF Valid(flow[f].token) THEN "error" ELSE "unauthorized")
  /\ UNCHANGED <<grants, refresh_gate, logins, closed>>

\* call_tool: a server with an issue, or not connected, is refused at once.
StartCall(f) ==
  /\ At(f, "idle") /\ stored # 0 /\ catalog = "tools" /\ closed = "no"
  /\ flow' = [flow EXCEPT ![f] = [Idle EXCEPT !.kind = "call", !.pc = "load"]]
  /\ UNCHANGED <<grants, gates, logins, catalog, closed>>

------------------------------------------------------------------------------
(* Interactive connect *)

\* The look for tokens and the count of logins are one step: the file read
\* comes back to the loop long before a login could finish.
StartConnect(f) ==
  /\ At(f, "idle")
  /\ IF stored # 0 THEN Discover(f, "connect", "judge", logins)
     ELSE /\ flow' = [flow EXCEPT ![f] = [Idle EXCEPT !.kind = "connect", !.pc = "lock", !.seen = logins]]
         
  /\ UNCHANGED <<grants, gates, logins, catalog, closed>>

\* Only an authentication failure asks for a login.
Judge(f) ==
  /\ At(f, "judge")
  /\ flow' = [flow EXCEPT ![f] = IF catalog = "unauthorized" THEN [@ EXCEPT !.pc = "lock"] ELSE Idle]
  /\ UNCHANGED <<grants, gates, logins, catalog, closed>>

TakeGateMut(f) ==   \* Mutant: a login finished meanwhile is not looked for
  /\ At(f, "lock") /\ oauth_gate = Nobody
  /\ oauth_gate' = f /\ Goto(f, "clear")
  /\ UNCHANGED <<grants, refresh_gate, logins, catalog, closed>>

\* A login somebody else finished while this connect waited is used.
TakeGate(f) ==
  /\ At(f, "lock") /\ oauth_gate = Nobody
  /\ oauth_gate' = f
  /\ IF logins # flow[f].seen THEN Discover(f, "connect", "unlock", logins)
     ELSE Goto(f, "clear")
  /\ UNCHANGED <<grants, refresh_gate, logins, catalog, closed>>

\* The rejected credentials go, token and client together; then the login
\* starts unless the manager has been closed.
ClearServer(f) ==
  /\ At(f, "clear")
  /\ stored' = 0
  /\ IF closed = "no"
     THEN Goto(f, "login") /\ UNCHANGED <<oauth_gate, catalog>>
     ELSE /\ flow' = [flow EXCEPT ![f] = Idle]
          /\ oauth_gate' = Nobody /\ catalog' = "error"
  /\ UNCHANGED <<accepted, issued, expired, spoiled, refresh_gate, logins, closed>>

\* The person signs in, the callback arrives and the SDK stores the tokens.
LoggedIn(f) ==
  /\ At(f, "login") /\ closed = "no"
  /\ Grant({})
  /\ stored' = issued + 1
  /\ Goto(f, "logged")
  /\ UNCHANGED <<expired, spoiled, gates, logins, catalog, closed>>

\* The probe that carried the login succeeds: the login counts, the gate is
\* released and the server is discovered with it.
LoginCounts(f) ==
  /\ At(f, "logged") /\ closed = "no"
  /\ logins' = logins + 1
  /\ oauth_gate' = Nobody
  /\ Discover(f, "connect", "end", logins + 1)
  /\ UNCHANGED <<grants, refresh_gate, catalog, closed>>

LoginFails(f) ==
  /\ flow[f].pc \in {"login", "logged"}
  /\ flow' = [flow EXCEPT ![f] = Idle]
  /\ oauth_gate' = Nobody /\ catalog' = "error"
  /\ UNCHANGED <<grants, refresh_gate, logins, closed>>

------------------------------------------------------------------------------
(* Disconnect, cancellation, teardown, and what the server does by itself *)

Disconnect ==
  /\ stored' = 0 /\ catalog' = "none"
  /\ UNCHANGED <<flow, accepted, issued, expired, spoiled, gates, logins, closed>>

\* Released by whoever stops holding it.
Released(gate, f) == IF gate = f THEN Nobody ELSE gate

\* An answer on its way to a cancelled refresh is lost with it; the server
\* may have rotated the token.
AbandonRefresh(f) ==
  CASE At(f, "store") -> spoiled' = TRUE /\ UNCHANGED <<issued, accepted>>
    [] At(f, "refresh") /\ flow[f].token \in accepted ->
         \/ Grant({flow[f].token}) /\ spoiled' = TRUE
         \/ UNCHANGED <<issued, accepted, spoiled>>
    [] OTHER -> UNCHANGED <<issued, accepted, spoiled>>

\* The turn or the command is cancelled: the operation is settled and gates
\* are left; a cancelled discovery takes back an error recorded before it.
Cancel(f) ==
  /\ ~At(f, "idle")
  /\ flow' = [flow EXCEPT ![f] = Idle]
  /\ oauth_gate' = Released(oauth_gate, f) /\ refresh_gate' = Released(refresh_gate, f)
  /\ AbandonRefresh(f)
  /\ catalog' = IF Discovers(f) /\ flow[f].pc \in {"load", "wait", "refresh", "store", "request"}
                   /\ catalog # "tools" THEN "none" ELSE catalog
  /\ UNCHANGED <<stored, expired, logins, closed>>

\* The deadline of _bounded, or close() cancelling the operation's scope.
Abort(f) ==
  /\ flow[f].pc \in {"load", "wait", "refresh", "store", "request"}
  /\ refresh_gate' = Released(refresh_gate, f)
  /\ Failed(f, "error")
  /\ AbandonRefresh(f)
  /\ UNCHANGED <<stored, expired, logins, closed>>

Close ==
  /\ closed = "no" /\ closed' = "closing"
  /\ UNCHANGED <<flow, grants, gates, logins, catalog>>

\* close gathers every operation that was in flight.
CloseReturns ==
  /\ closed = "closing" /\ \A f \in Flows : flow[f].pc \notin InOperation
  /\ closed' = "done"
  /\ UNCHANGED <<flow, grants, gates, logins, catalog>>

Expire ==
  /\ expired < issued /\ expired' \in (expired + 1)..issued
  /\ UNCHANGED <<flow, stored, accepted, issued, spoiled, gates, logins, catalog, closed>>

Revoke ==
  /\ accepted # {} /\ accepted' = {} /\ expired' = issued /\ spoiled' = TRUE
  /\ UNCHANGED <<flow, stored, issued, gates, logins, catalog, closed>>

------------------------------------------------------------------------------
Step(f) ==
  \/ Check(f) \/ Load(f) \/ EnterRefresh(f) \/ Refreshed(f) \/ StoreTokens(f)
  \/ (\E ok \in BOOLEAN : Request(f, ok)) \/ Abort(f)
  \/ Judge(f) \/ TakeGate(f) \/ ClearServer(f) \/ LoggedIn(f) \/ LoginCounts(f) \/ LoginFails(f)

Next ==
  \/ \E f \in Flows : StartDiscovery(f) \/ StartConnect(f) \/ StartCall(f) \/ Step(f) \/ Cancel(f)
  \/ Disconnect \/ Close \/ CloseReturns \/ Expire \/ Revoke

Spec == Init /\ [][Next]_vars

------------------------------------------------------------------------------
(* Properties *)

\* A refresh token is used once: the authorization server turns a refresh
\* down only after it revoked its grants or an answer to an earlier refresh
\* was lost with a cancelled operation (oauth.py:172).
RefreshTokensAreUsedOnce ==
  [][\A f \in Flows : At(f, "refresh") /\ flow'[f].pc = "request" => spoiled]_vars

\* A connect that just logged in keeps its credentials for its own discovery:
\* a connect that started before that login and waited for the gate does not
\* clear them to log in again (manager.py:228).
LoginsAreNotPulled ==
  [][\A f, g \in Flows : At(f, "clear") /\ ~At(f, "clear")' /\ Discovers(g)
        => flow[g].seen <= flow[f].seen]_vars

\* Once close has returned nothing of the manager runs (manager.py:535).
ClosedIsQuiet == closed = "done" => \A f \in Flows : flow[f].pc \notin InOperation
==============================================================================
