----------------------------- MODULE GatesProofs -----------------------------
(***************************************************************************)
(* Theorems of MCGates, for any number of plugins, generations, calls,     *)
(* flows and skill files and any bounds: what stands between a call of the *)
(* model and its effect holds (GatesHold), an operation keeps the plugin   *)
(* generations it pinned (PluginsArePinned) and reports what happened      *)
(* below it (OutcomesAreHonest), and a grant of an MCP server is used once *)
(* and survives the login that brought it (GrantsAreKept).                 *)
(*                                                                         *)
(* Each part has an inductive invariant of its own: McpInv, GateInv and    *)
(* PluginInv.                                                              *)
(***************************************************************************)
EXTENDS MCGates, Sequences, TLAPS

(***************************************************************************)
(* The MCP client: grants, gates and logins.                               *)
(***************************************************************************)

\* Where a flow of the manager may stand.
FlowState == [kind : {"none", "discover", "connect", "call"},
              pc : {"idle", "check", "judge", "load", "wait", "refresh", "store", "request", "lock", "clear",
                    "login", "logged"},
              next : {"end", "judge", "unlock"}, token : Nat, seen : Nat]

\* The kinds of the state of the MCP client.
FlowsAre == /\ flow \in [Flows -> FlowState]
            /\ stored \in Nat /\ issued \in Nat /\ logins \in Nat /\ accepted \subseteq 1..issued
            /\ mcpClosed \in {"no","closing","done"}

\* A refresh is under way only in the flow that holds the refresh gate, a login only under the login gate.
GatesAreHeld ==
    \A f \in Flows :
        /\ flow[f].pc \in {"refresh", "store"} => refresh_gate = f
        /\ flow[f].pc \in {"clear", "login", "logged"} \/ flow[f].next = "unlock" => oauth_gate = f
        /\ flow[f].kind = "call" => flow[f].next = "end"

\* Unless somebody outside spent one, a refresh token about to be used is one the server still takes, and
\* so is the stored one when no rotation waits to be stored.
TokensAreGood ==
    ~spoiled =>
        /\ \A f \in Flows : flow[f].pc \in {"refresh", "store"} => flow[f].token \in accepted
        /\ (\A f \in Flows : flow[f].pc # "store") => stored \in accepted \cup {0}

\* A flow that is about to clear the credentials has seen every login.
LoginsAreSeen ==
    \A f \in Flows : flow[f].seen <= logins /\ (flow[f].pc = "clear" => flow[f].seen = logins)

\* The inductive invariant of the MCP client.
McpInv == FlowsAre /\ GatesAreHeld /\ TokensAreGood /\ LoginsAreSeen /\ Mcp!ClosedIsQuiet

\* No flow is under way at the start.
LEMMA McpInit == Mcp!Init => McpInv
  BY GateConstants DEF Mcp!Init, McpInv, FlowsAre, FlowState, GatesAreHeld, TokensAreGood, LoginsAreSeen,
     Mcp!ClosedIsQuiet, Mcp!Idle, Mcp!InOperation, Mcp!Nobody

\* An idle flow.
LEMMA Idles == Mcp!Idle \in FlowState /\ Mcp!Idle.kind = "none" /\ Mcp!Idle.pc = "idle"
        /\ Mcp!Idle.next = "end"
               /\ Mcp!Idle.token = 0 /\ Mcp!Idle.seen = 0
  BY DEF Mcp!Idle, FlowState

\* Flow f moves to r and no other flow moves.
Becomes(f, r) == flow' = [flow EXCEPT ![f] = r]

\* What r has to be for flow f to stay within the invariant.
Fits(f, r) ==
    /\ r.pc \in {"refresh", "store"} => refresh_gate' = f /\ (~spoiled' => r.token \in accepted')
    /\ r.pc \in {"clear", "login", "logged"} \/ r.next = "unlock" => oauth_gate' = f
    /\ r.kind = "call" => r.next = "end"
    /\ r.seen <= logins'
    /\ r.pc = "clear" => r.seen = logins'
    /\ r.pc \in Mcp!InOperation => mcpClosed = "no" \/ flow[f].pc \in Mcp!InOperation
    /\ flow[f].pc = "refresh" /\ r.pc = "request" => spoiled

\* What a step of flow f leaves to the other flows.
Leaves(f) ==
    /\ \A x \in Flows : x # f => (refresh_gate = x => refresh_gate' = x) /\ (oauth_gate = x
            => oauth_gate' = x)
    /\ logins' = logins \/ (logins' = logins + 1 /\ oauth_gate = f)
    /\ mcpClosed' = mcpClosed

\* What a step of flow f that ends in r does to the grants.
Grants(f, r) ==
    /\ stored' \in Nat /\ issued' \in Nat /\ accepted' \subseteq 1..issued'
    /\ ~spoiled' => /\ ~spoiled
                    /\ accepted \subseteq accepted' \/ refresh_gate = f
                    /\ \/ r.pc = "store" 
                       \/ stored' \in accepted' \cup {0}
                       \/ stored' = stored /\ accepted \subseteq accepted' /\ flow[f].pc # "store"

\* The step takes a refresh token a second time only when it was spent outside.
UsedOnce == \A f \in Flows : flow[f].pc = "refresh" /\ flow'[f].pc = "request" => spoiled

\* A step of one flow that fits keeps the invariant.
LEMMA FlowMoves ==
  ASSUME McpInv, NEW f \in Flows, NEW r \in FlowState, Becomes(f, r), Fits(f, r), Leaves(f), Grants(f, r)
  PROVE  McpInv' /\ UsedOnce
  <1>1. /\ flow' \in [Flows -> FlowState] /\ flow'[f] = r
        /\ \A x \in Flows : x # f => flow'[x] = flow[x]
    BY DEF Becomes, McpInv, FlowsAre
  <1>2. FlowsAre'
    BY <1>1 DEF Leaves, Grants, McpInv, FlowsAre
  <1>3. GatesAreHeld'
    BY ONLY McpInv, <1>1, Fits(f, r), Leaves(f) DEF Fits, Leaves, McpInv, GatesAreHeld
  <1>4. ASSUME ~spoiled' PROVE ~spoiled /\ \A x \in Flows : flow'[x].pc \in {"refresh", "store"}
          => flow'[x].token \in accepted'
    <2>1. ASSUME NEW x \in Flows, x # f, flow[x].pc \in {"refresh", "store"} PROVE flow[x].token \in accepted'
      BY ONLY McpInv, <1>4, <2>1, f \in Flows, Grants(f, r) DEF Grants, McpInv, GatesAreHeld, TokensAreGood
    <2> QED BY ONLY <1>1, <1>4, <2>1, Fits(f, r), Grants(f, r) DEF Fits, Grants
  <1>5. ASSUME ~spoiled', \A x \in Flows : flow'[x].pc # "store" PROVE stored' \in accepted' \cup {0}
    <2>1. \A x \in Flows \ {f} : flow[x].pc # "store"
      BY ONLY <1>1, <1>5
    <2>2. r.pc # "store"
      BY ONLY <1>1, <1>5, f \in Flows
    <2> QED BY ONLY McpInv, <1>5, <2>1, <2>2, Grants(f, r) DEF Grants, McpInv, TokensAreGood
  <1>6. TokensAreGood'
    BY ONLY <1>4, <1>5 DEF TokensAreGood
  <1>7. LoginsAreSeen'
    <2>1. ASSUME NEW x \in Flows, x # f PROVE flow'[x].seen <= logins' /\ (flow'[x].pc = "clear"
            => flow'[x].seen = logins')
      <3>1. flow[x] \in FlowState /\ flow[x].seen \in Nat /\ logins \in Nat
        BY DEF McpInv, FlowsAre, FlowState
      <3> QED BY ONLY McpInv, <1>1, <2>1, <3>1, f \in Flows, Leaves(f) DEF Leaves, McpInv, GatesAreHeld,
              LoginsAreSeen
    <2> QED BY ONLY <1>1, <2>1, Fits(f, r) DEF Fits, LoginsAreSeen
  <1>8. Mcp!ClosedIsQuiet'
    BY ONLY McpInv, <1>1, Fits(f, r), Leaves(f), f \in Flows DEF Fits, Leaves, McpInv, Mcp!ClosedIsQuiet
  <1>9. UsedOnce
    BY ONLY <1>1, Fits(f, r) DEF Fits, UsedOnce
  <1> QED BY ONLY <1>2, <1>3, <1>6, <1>7, <1>8, <1>9 DEF McpInv

\* What the invariant says of one flow.
LEMMA Typed ==
  ASSUME McpInv, NEW f \in Flows
  PROVE  /\ flow[f] \in FlowState /\ stored \in Nat /\ issued \in Nat /\ logins \in Nat
            /\ accepted \subseteq 1..issued
         /\ flow[f].kind \in {"none", "discover", "connect", "call"} /\ flow[f].next \in {"end", "judge",
                 "unlock"}
         /\ flow[f].token \in Nat /\ flow[f].seen \in Nat /\ flow[f].seen <= logins /\ 0 <= logins
         /\ flow[f].pc \in {"refresh", "store"} => refresh_gate = f
         /\ flow[f].pc \in {"clear", "login", "logged"} \/ flow[f].next = "unlock" => oauth_gate = f
         /\ flow[f].kind = "call" => flow[f].next = "end"
         /\ flow[f].pc = "clear" => flow[f].seen = logins
         /\ flow[f] = [flow[f] EXCEPT !.pc = @]
         /\ f # "nobody"
  BY GateConstants DEF McpInv, FlowsAre, FlowState, GatesAreHeld, LoginsAreSeen

\* No grant, gate or login moves.
Untouched == UNCHANGED <<Mcp!grants, Mcp!gates, logins, mcpClosed>>

\* A step of a flow that touches no grant fits.
LEMMA Quiet ==
  ASSUME McpInv, NEW f \in Flows, NEW r \in FlowState, Untouched,
         r.pc \in {"idle", "check", "judge", "lock", "load", "wait", "request"},
         r.next = "unlock" => flow[f].next = "unlock", r.kind = "call" => r.next = "end", r.seen <= logins,
         r.pc \in {"load", "wait", "request"} => mcpClosed = "no" \/ flow[f].pc \in Mcp!InOperation,
         flow[f].pc \notin {"refresh", "store"}
  PROVE  Fits(f, r) /\ Leaves(f) /\ Grants(f, r)
  <1>1. Fits(f, r)
    BY Typed DEF Fits, Untouched, Mcp!gates, Mcp!grants, Mcp!InOperation
  <1>2. Leaves(f)
    BY DEF Leaves, Untouched, Mcp!gates
  <1>3. Grants(f, r)
    BY Typed DEF Grants, Untouched, Mcp!grants
  <1> QED BY <1>1, <1>2, <1>3

\* A flow begins.
LEMMA StartsKeep ==
  ASSUME McpInv, NEW f \in Flows, Mcp!StartDiscovery(f) \/ Mcp!StartConnect(f) \/ Mcp!StartCall(f)
  PROVE  McpInv' /\ UsedOnce
  <1>0. logins \in Nat
    BY ONLY McpInv DEF McpInv, FlowsAre
  <1>a. logins <= logins /\ 0 <= logins
    BY ONLY <1>0
  <1>1. Untouched /\ flow[f].pc = "idle"
    BY DEF Untouched, Mcp!StartDiscovery, Mcp!StartConnect, Mcp!StartCall, Mcp!At
  <1>2. CASE Mcp!StartDiscovery(f)
    <2> DEFINE r == [kind |-> "discover", pc |-> "check", next |-> "end", token |-> 0, seen |-> 0]
    <2>1. r \in FlowState /\ r.kind = "discover" /\ r.pc = "check" /\ r.next = "end" /\ r.seen <= logins
      BY <1>0 DEF FlowState
    <2>2. Becomes(f, r)
      BY <1>2 DEF Becomes, Mcp!StartDiscovery, Mcp!Discover
    <2> HIDE DEF r
    <2>3. Fits(f, r) /\ Leaves(f) /\ Grants(f, r)
      BY ONLY McpInv, f \in Flows, <1>1, <2>1, Quiet
    <2> QED BY ONLY McpInv, f \in Flows, <2>1, <2>2, <2>3, FlowMoves
  <1>3. CASE Mcp!StartConnect(f) /\ stored # 0
    <2> DEFINE r == [kind |-> "connect", pc |-> "check", next |-> "judge", token |-> 0, seen |-> logins]
    <2>1. r \in FlowState /\ r.kind = "connect" /\ r.pc = "check" /\ r.next = "judge" /\ r.seen <= logins
      BY <1>0 DEF FlowState
    <2>2. Becomes(f, r)
      BY <1>3 DEF Becomes, Mcp!StartConnect, Mcp!Discover
    <2> HIDE DEF r
    <2>3. Fits(f, r) /\ Leaves(f) /\ Grants(f, r)
      BY ONLY McpInv, f \in Flows, <1>1, <2>1, Quiet
    <2> QED BY ONLY McpInv, f \in Flows, <2>1, <2>2, <2>3, FlowMoves
  <1>4. CASE Mcp!StartConnect(f) /\ stored = 0
    <2> DEFINE r == [Mcp!Idle EXCEPT !.kind = "connect", !.pc = "lock", !.seen = logins]
    <2>1. r \in FlowState /\ r.kind = "connect" /\ r.pc = "lock" /\ r.next = "end" /\ r.seen <= logins
      BY ONLY <1>0, <1>a DEF FlowState, Mcp!Idle
    <2>2. Becomes(f, r)
      BY <1>4 DEF Becomes, Mcp!StartConnect
    <2> HIDE DEF r
    <2>3. Fits(f, r) /\ Leaves(f) /\ Grants(f, r)
      BY ONLY McpInv, f \in Flows, <1>1, <2>1, Quiet
    <2> QED BY ONLY McpInv, f \in Flows, <2>1, <2>2, <2>3, FlowMoves
  <1>5. CASE Mcp!StartCall(f)
    <2> DEFINE r == [Mcp!Idle EXCEPT !.kind = "call", !.pc = "load"]
    <2>1. r \in FlowState /\ r.kind = "call" /\ r.pc = "load" /\ r.next = "end" /\ r.seen <= logins
      BY ONLY <1>0, <1>a DEF FlowState, Mcp!Idle
    <2>2. Becomes(f, r) /\ mcpClosed = "no"
      BY <1>5 DEF Becomes, Mcp!StartCall
    <2> HIDE DEF r
    <2>3. Fits(f, r) /\ Leaves(f) /\ Grants(f, r)
      BY ONLY McpInv, f \in Flows, <1>1, <2>1, <2>2, Quiet
    <2> QED BY ONLY McpInv, f \in Flows, <2>1, <2>2, <2>3, FlowMoves
  <1> QED BY <1>2, <1>3, <1>4, <1>5 DEF Mcp!StartConnect

\* Flow f ends, or has its outcome judged.
Rests(f) ==
    \E r \in FlowState :
        Becomes(f, r) /\ r.pc \in {"idle", "judge"} /\ r.next # "unlock" /\ (r.kind = "call"
                => r.next = "end")
        /\ r.seen <= logins

\* What a step that ends flow f does to the grants.
Gives(f) ==
    /\ stored' \in Nat /\ issued' \in Nat /\ accepted' \subseteq 1..issued'
    /\ ~spoiled' => /\ ~spoiled /\ accepted \subseteq accepted'
                    /\ stored' \in accepted' \cup {0} \/ (stored' = stored /\ flow[f].pc # "store")

\* A flow that ends keeps the invariant.
LEMMA RestKeeps ==
  ASSUME McpInv, NEW f \in Flows, Rests(f), Leaves(f), Gives(f), logins' = logins
  PROVE  McpInv' /\ UsedOnce
  <1>1. PICK r \in FlowState :
            Becomes(f, r) /\ r.pc \in {"idle", "judge"} /\ r.next # "unlock" /\ (r.kind = "call"
                    => r.next = "end")
            /\ r.seen <= logins
    BY DEF Rests
  <1>2. Fits(f, r)
    BY <1>1 DEF Fits, Mcp!InOperation
  <1>3. Grants(f, r)
    BY <1>1 DEF Gives, Grants
  <1> QED BY ONLY McpInv, f \in Flows, Leaves(f), <1>1, <1>2, <1>3, FlowMoves

\* A flow that becomes idle ends.
LEMMA IdleRests ==
  ASSUME McpInv, NEW f \in Flows, flow' = [flow EXCEPT ![f] = Mcp!Idle]
  PROVE  Rests(f)
  <1>1. Becomes(f, Mcp!Idle)
    BY DEF Becomes
  <1>2. logins \in Nat
    BY DEF McpInv, FlowsAre
  <1>3. Mcp!Idle.seen <= logins
    BY ONLY <1>2, Idles
  <1> QED BY ONLY <1>1, <1>3, Idles DEF Rests

\* A discovery that is over.
LEMMA DiscoveredRests ==
  ASSUME McpInv, NEW f \in Flows, NEW result, Mcp!Discovered(f, result)
  PROVE  /\ Rests(f)
         /\ \A x \in Flows : x # f => (oauth_gate = x => oauth_gate' = x)
  <1>1. flow[f] \in FlowState /\ flow \in [Flows -> FlowState]
    BY DEF McpInv, FlowsAre
  <1>2. CASE flow[f].next = "judge"
    <2> DEFINE r == [flow[f] EXCEPT !.pc = "judge"]
    <2>1. Becomes(f, r)
      BY <1>1, <1>2 DEF Becomes, Mcp!Discovered
    <2>2. r \in FlowState /\ r.pc = "judge" /\ r.next = flow[f].next /\ r.kind = flow[f].kind
            /\ r.seen = flow[f].seen
      BY <1>1 DEF FlowState
    <2> HIDE DEF r
    <2>3. (flow[f].kind = "call" => flow[f].next = "end") /\ flow[f].seen <= logins
      BY DEF McpInv, GatesAreHeld, LoginsAreSeen
    <2>4. r.next # "unlock" /\ (r.kind = "call" => r.next = "end") /\ r.seen <= logins
      BY ONLY <1>2, <2>2, <2>3
    <2> QED
      <3>1. Rests(f)
        BY ONLY <2>1, <2>2, <2>4 DEF Rests
      <3>2. oauth_gate' = oauth_gate
        BY <1>2 DEF Mcp!Discovered
      <3> QED BY <3>1, <3>2
  <1>3. CASE flow[f].next # "judge"
    <2>1. flow' = [flow EXCEPT ![f] = Mcp!Idle]
      BY <1>1, <1>3 DEF Mcp!Discovered
    <2>2. \A x \in Flows : x # f => (oauth_gate = x => oauth_gate' = x)
      BY DEF Mcp!Discovered, McpInv, GatesAreHeld
    <2> QED BY <2>1, <2>2, IdleRests
  <1> QED BY <1>2, <1>3

\* A discovery that failed.
LEMMA FailedRests ==
  ASSUME McpInv, NEW f \in Flows, NEW result, Mcp!Failed(f, result)
  PROVE  /\ Rests(f)
         /\ \A x \in Flows : x # f => (oauth_gate = x => oauth_gate' = x)
  BY DiscoveredRests, IdleRests DEF Mcp!Failed

\* The places of a flow.
Phases == {"idle", "check", "judge", "load", "wait", "refresh", "store", "request", "lock", "clear", "login",
        "logged"}

\* A step that only goes to another place.
LEMMA Goes ==
  ASSUME McpInv, NEW f \in Flows, NEW p \in Phases, Mcp!Goto(f, p)
  PROVE  \E r \in FlowState :
             /\ Becomes(f, r) /\ r.pc = p /\ r.next = flow[f].next /\ r.kind = flow[f].kind
             /\ r.token = flow[f].token /\ r.seen = flow[f].seen
  <1> DEFINE r == [flow[f] EXCEPT !.pc = p]
  <1>1. flow[f] \in FlowState /\ flow \in [Flows -> FlowState]
    BY DEF McpInv, FlowsAre
  <1>2. Becomes(f, r)
    BY <1>1 DEF Becomes, Mcp!Goto
  <1>3. /\ r \in FlowState /\ r.pc = p /\ r.next = flow[f].next /\ r.kind = flow[f].kind
        /\ r.token = flow[f].token /\ r.seen = flow[f].seen
    BY <1>1 DEF FlowState, Phases
  <1> HIDE DEF r
  <1> QED BY ONLY <1>2, <1>3

\* Flow f takes token t and goes to p.
Taking(f, t, p) == flow' = [flow EXCEPT ![f].token = t, ![f].pc = p]

\* A step that takes a token and goes on.
LEMMA Takes ==
  ASSUME McpInv, NEW f \in Flows, NEW p \in Phases, NEW t \in Nat, Taking(f, t, p)
  PROVE  \E r \in FlowState :
             /\ Becomes(f, r) /\ r.pc = p /\ r.next = flow[f].next /\ r.kind = flow[f].kind
             /\ r.token = t /\ r.seen = flow[f].seen
  <1> DEFINE r == [flow[f] EXCEPT !.token = t, !.pc = p]
  <1>1. flow[f] \in FlowState /\ flow \in [Flows -> FlowState]
    BY DEF McpInv, FlowsAre
  <1>2. Becomes(f, r)
    BY <1>1 DEF Becomes, Taking
  <1>3. /\ r \in FlowState /\ r.pc = p /\ r.next = flow[f].next /\ r.kind = flow[f].kind
        /\ r.token = t /\ r.seen = flow[f].seen
    BY <1>1 DEF FlowState, Phases
  <1> HIDE DEF r
  <1> QED BY ONLY <1>2, <1>3

\* What the invariant says of the logins a flow has seen.
LEMMA Seen ==
  ASSUME McpInv, NEW f \in Flows
  PROVE  (flow[f].kind = "call" => flow[f].next = "end") /\ flow[f].seen <= logins
         /\ (flow[f].next = "unlock" => oauth_gate = f)
  BY DEF McpInv, GatesAreHeld, LoginsAreSeen

\* The check before a connection.
LEMMA CheckKeeps ==
  ASSUME McpInv, NEW f \in Flows, Mcp!Check(f)
  PROVE  McpInv' /\ UsedOnce
  <1>1. flow[f].pc = "check" /\ UNCHANGED <<Mcp!grants, refresh_gate, logins, mcpClosed>>
    BY DEF Mcp!Check, Mcp!At
  <1>2. CASE \E result : Mcp!Discovered(f, result)
    <2>1. Rests(f) /\ \A x \in Flows : x # f => (oauth_gate = x => oauth_gate' = x)
      BY <1>2, DiscoveredRests
    <2>2. Leaves(f)
      BY <1>1, <2>1 DEF Leaves
    <2>3. Gives(f)
      BY <1>1, Typed DEF Gives, Mcp!grants
    <2> QED BY ONLY McpInv, f \in Flows, <1>1, <2>1, <2>2, <2>3, RestKeeps
  <1>3. CASE mcpClosed = "no" /\ Mcp!Goto(f, "load") /\ UNCHANGED oauth_gate
    <2>1. PICK r \in FlowState :
              /\ Becomes(f, r) /\ r.pc = "load" /\ r.next = flow[f].next /\ r.kind = flow[f].kind
              /\ r.token = flow[f].token /\ r.seen = flow[f].seen
      BY <1>3, Goes DEF Phases
    <2>2. Untouched
      BY <1>1, <1>3 DEF Untouched, Mcp!gates
    <2>3. Fits(f, r) /\ Leaves(f) /\ Grants(f, r)
      BY ONLY McpInv, f \in Flows, <1>1, <1>3, <2>1, <2>2, Quiet, Seen
    <2> QED BY ONLY McpInv, f \in Flows, <2>1, <2>3, FlowMoves
  <1> QED BY <1>2, <1>3 DEF Mcp!Check

\* OAuth tokens are read from the store.
LEMMA LoadKeeps ==
  ASSUME McpInv, NEW f \in Flows, Mcp!Load(f)
  PROVE  McpInv' /\ UsedOnce
  <1>1. flow[f].pc = "load" /\ Untouched
    BY DEF Mcp!Load, Mcp!At, Untouched
  <1>2. stored \in Nat
    BY DEF McpInv, FlowsAre
  <1>3. PICK p \in {"wait", "request"} : Taking(f, stored, p)
    BY DEF Mcp!Load, Taking
  <1>4. PICK r \in FlowState :
            /\ Becomes(f, r) /\ r.pc = p /\ r.next = flow[f].next /\ r.kind = flow[f].kind
            /\ r.token = stored /\ r.seen = flow[f].seen
    <2>1. p \in Phases
      BY DEF Phases
    <2> QED BY <1>2, <1>3, <2>1, Takes
  <1>5. "load" \in Mcp!InOperation
    BY DEF Mcp!InOperation
  <1>6. Fits(f, r) /\ Leaves(f) /\ Grants(f, r)
    BY ONLY McpInv, f \in Flows, p \in {"wait", "request"}, <1>1, <1>4, <1>5, Quiet, Seen
  <1> QED BY ONLY McpInv, f \in Flows, <1>4, <1>6, FlowMoves

\* The refresh gate is taken and the token read again under it.
LEMMA EnterRefreshKeeps ==
  ASSUME McpInv, NEW f \in Flows, Mcp!EnterRefresh(f)
  PROVE  McpInv' /\ UsedOnce
  <1>1. flow[f].pc = "wait" /\ refresh_gate = "nobody" /\ UNCHANGED <<Mcp!grants, oauth_gate, logins,
          mcpClosed>>
    BY DEF Mcp!EnterRefresh, Mcp!At, Mcp!Nobody
  <1>2. stored \in Nat /\ stored' = stored /\ "wait" \in Mcp!InOperation /\ \A x \in Flows : x # "nobody"
    BY <1>1, GateConstants DEF McpInv, FlowsAre, Mcp!grants, Mcp!InOperation
  <1>3. CASE Mcp!Stale(stored) /\ refresh_gate' = f /\ Taking(f, stored, "refresh")
    <2>1. PICK r \in FlowState :
              /\ Becomes(f, r) /\ r.pc = "refresh" /\ r.next = flow[f].next /\ r.kind = flow[f].kind
              /\ r.token = stored /\ r.seen = flow[f].seen
      BY <1>2, <1>3, Takes DEF Phases
    <2>2. \A x \in Flows : flow[x].pc # "store"
      BY ONLY McpInv, <1>1, <1>2 DEF McpInv, GatesAreHeld
    <2>3. ~spoiled' => stored \in accepted'
      <3>1. ~spoiled => stored \in accepted \cup {0}
        BY ONLY McpInv, <2>2 DEF McpInv, TokensAreGood
      <3>2. stored # 0
        BY <1>3 DEF Mcp!Stale
      <3> QED BY <1>1, <3>1, <3>2 DEF Mcp!grants
    <2>4. Fits(f, r)
      BY ONLY McpInv, f \in Flows, <1>1, <1>2, <1>3, <2>1, <2>3, Seen DEF Fits
    <2>5. Leaves(f)
      BY ONLY <1>1, <1>2 DEF Leaves
    <2>6. Grants(f, r)
      BY ONLY McpInv, <1>1, <2>1 DEF Grants, Mcp!grants, McpInv, FlowsAre
    <2> QED BY ONLY McpInv, f \in Flows, <2>1, <2>4, <2>5, <2>6, FlowMoves
  <1>4. CASE UNCHANGED refresh_gate /\ Taking(f, stored, "request")
    <2>1. PICK r \in FlowState :
              /\ Becomes(f, r) /\ r.pc = "request" /\ r.next = flow[f].next /\ r.kind = flow[f].kind
              /\ r.token = stored /\ r.seen = flow[f].seen
      BY <1>2, <1>4, Takes DEF Phases
    <2>2. Untouched
      BY <1>1, <1>4 DEF Untouched, Mcp!gates
    <2>3. Fits(f, r) /\ Leaves(f) /\ Grants(f, r)
      BY ONLY McpInv, f \in Flows, <1>1, <1>2, <2>1, <2>2, Quiet, Seen
    <2> QED BY ONLY McpInv, f \in Flows, <2>1, <2>3, FlowMoves
  <1> QED BY <1>3, <1>4 DEF Mcp!EnterRefresh, Taking

\* The server answers a refresh: it takes the token and gives a new one.
LEMMA RefreshedKeeps ==
  ASSUME McpInv, NEW f \in Flows, Mcp!Refreshed(f)
  PROVE  McpInv' /\ UsedOnce
  <1>1. /\ flow[f].pc = "refresh" /\ mcpClosed = "no" /\ refresh_gate = f
        /\ UNCHANGED <<stored, expired, spoiled, oauth_gate, logins, mcpClosed>>
    BY DEF Mcp!Refreshed, Mcp!At, McpInv, GatesAreHeld
  <1>2. /\ stored \in Nat /\ issued \in Nat /\ accepted \subseteq 1..issued /\ f # "nobody"
        /\ "request" \in Mcp!InOperation /\ "store" \in Mcp!InOperation
    BY GateConstants DEF McpInv, FlowsAre, Mcp!InOperation
  <1>3. Leaves(f) 
    BY <1>1, <1>2 DEF Leaves
  <1>4. CASE flow[f].token \in accepted
    <2>1. /\ issued' = issued + 1 /\ accepted' = (accepted \ {flow[f].token}) \cup {issued + 1}
          /\ Taking(f, issued + 1, "store") /\ refresh_gate' = refresh_gate
      BY <1>4 DEF Mcp!Refreshed, Mcp!Grant, Taking
    <2>2. PICK r \in FlowState :
              /\ Becomes(f, r) /\ r.pc = "store" /\ r.next = flow[f].next /\ r.kind = flow[f].kind
              /\ r.token = issued + 1 /\ r.seen = flow[f].seen
      BY <1>2, <2>1, Takes DEF Phases
    <2>3. Fits(f, r)
      BY ONLY McpInv, f \in Flows, <1>1, <1>2, <2>1, <2>2, Seen DEF Fits
    <2>4. Grants(f, r)
      <3>1. issued + 1 \in Nat /\ accepted' \subseteq 1..(issued + 1)
        <4>1. ASSUME NEW x \in accepted' PROVE x \in 1..(issued + 1)
          BY ONLY <1>2, <2>1, <4>1
        <4> QED BY ONLY <1>2, <4>1
      <3> QED BY ONLY <1>1, <1>2, <2>1, <2>2, <3>1 DEF Grants
    <2> QED BY ONLY McpInv, f \in Flows, <1>3, <2>2, <2>3, <2>4, FlowMoves
  <1>5. CASE flow[f].token \notin accepted
    <2>1. Taking(f, 0, "request") /\ issued' = issued /\ accepted' = accepted
      BY <1>5 DEF Mcp!Refreshed, Taking
    <2>2. PICK r \in FlowState :
              /\ Becomes(f, r) /\ r.pc = "request" /\ r.next = flow[f].next /\ r.kind = flow[f].kind
              /\ r.token = 0 /\ r.seen = flow[f].seen
      BY <2>1, Takes DEF Phases
    <2>3. spoiled
      BY ONLY McpInv, f \in Flows, <1>1, <1>5 DEF McpInv, TokensAreGood
    <2>4. Fits(f, r)
      BY ONLY McpInv, f \in Flows, <1>1, <1>2, <2>1, <2>2, <2>3, Seen DEF Fits
    <2>5. Grants(f, r)
      BY ONLY <1>1, <1>2, <2>1, <2>2, <2>3 DEF Grants
    <2> QED BY ONLY McpInv, f \in Flows, <1>3, <2>2, <2>4, <2>5, FlowMoves
  <1> QED BY <1>4, <1>5

\* The rotated tokens are stored.
LEMMA StoreTokensKeeps ==
  ASSUME McpInv, NEW f \in Flows, Mcp!StoreTokens(f)
  PROVE  McpInv' /\ UsedOnce
  <1>1. /\ flow[f].pc = "store" /\ mcpClosed = "no" /\ refresh_gate = f /\ Mcp!Goto(f, "request")
        /\ stored' = flow[f].token
        /\ UNCHANGED <<accepted, issued, expired, spoiled, oauth_gate, logins, mcpClosed>>
    BY DEF Mcp!StoreTokens, Mcp!At, McpInv, GatesAreHeld
  <1>2. issued \in Nat /\ accepted \subseteq 1..issued /\ flow[f].token \in Nat
          /\ "request" \in Mcp!InOperation
    BY DEF McpInv, FlowsAre, FlowState, Mcp!InOperation
  <1>3. Leaves(f) 
    BY <1>1, GateConstants DEF Leaves
  <1>4. PICK r \in FlowState :
            /\ Becomes(f, r) /\ r.pc = "request" /\ r.next = flow[f].next /\ r.kind = flow[f].kind
            /\ r.token = flow[f].token /\ r.seen = flow[f].seen
    BY <1>1, Goes DEF Phases
  <1>5. Fits(f, r)
    BY ONLY McpInv, f \in Flows, <1>1, <1>4, Seen DEF Fits
  <1>6. ~spoiled => flow[f].token \in accepted
    BY ONLY McpInv, f \in Flows, <1>1 DEF McpInv, TokensAreGood
  <1>7. Grants(f, r)
    BY ONLY <1>1, <1>2, <1>4, <1>6 DEF Grants
  <1> QED BY ONLY McpInv, f \in Flows, <1>3, <1>4, <1>5, <1>7, FlowMoves

\* The request of a discovery or a call ends.
LEMMA RequestKeeps ==
  ASSUME McpInv, NEW f \in Flows, NEW ok \in BOOLEAN, Mcp!Request(f, ok)
  PROVE  McpInv' /\ UsedOnce
  <1>1. flow[f].pc = "request" /\ UNCHANGED <<Mcp!grants, refresh_gate, logins, mcpClosed>>
    BY DEF Mcp!Request, Mcp!At
  <1>2. \E result : Mcp!Discovered(f, result) \/ Mcp!Failed(f, result)
    BY DEF Mcp!Request
  <1>3. Rests(f) /\ \A x \in Flows : x # f => (oauth_gate = x => oauth_gate' = x)
    BY <1>2, DiscoveredRests, FailedRests
  <1>4. Leaves(f)
    BY <1>1, <1>3 DEF Leaves
  <1>5. Gives(f)
    BY <1>1, Typed DEF Gives, Mcp!grants
  <1> QED BY ONLY McpInv, f \in Flows, <1>1, <1>3, <1>4, <1>5, RestKeeps

\* manager.connect judges what its discovery came to.
LEMMA JudgeKeeps ==
  ASSUME McpInv, NEW f \in Flows, Mcp!Judge(f)
  PROVE  McpInv' /\ UsedOnce
  <1>1. flow[f].pc = "judge" /\ Untouched
    BY DEF Mcp!Judge, Mcp!At, Untouched
  <1>2. CASE catalog = "unauthorized"
    <2>1. Mcp!Goto(f, "lock")
      BY <1>2 DEF Mcp!Judge, Mcp!Goto, McpInv, FlowsAre
    <2>2. PICK r \in FlowState :
              /\ Becomes(f, r) /\ r.pc = "lock" /\ r.next = flow[f].next /\ r.kind = flow[f].kind
              /\ r.token = flow[f].token /\ r.seen = flow[f].seen
      BY <2>1, Goes DEF Phases
    <2>3. Fits(f, r) /\ Leaves(f) /\ Grants(f, r)
      BY ONLY McpInv, f \in Flows, <1>1, <2>2, Quiet, Seen
    <2> QED BY ONLY McpInv, f \in Flows, <2>2, <2>3, FlowMoves
  <1>3. CASE catalog # "unauthorized"
    <2>1. flow' = [flow EXCEPT ![f] = Mcp!Idle]
      BY <1>3 DEF Mcp!Judge, McpInv, FlowsAre
    <2>2. Rests(f)
      BY <2>1, IdleRests
    <2>3. Leaves(f) /\ logins' = logins
      BY <1>1 DEF Leaves, Untouched, Mcp!gates
    <2>4. Gives(f)
      BY <1>1, Typed DEF Gives, Untouched, Mcp!grants
    <2> QED BY ONLY McpInv, f \in Flows, <2>2, <2>3, <2>4, RestKeeps
  <1> QED BY <1>2, <1>3

\* A flow begins to discover.
LEMMA Discovering ==
  ASSUME McpInv, NEW f \in Flows, NEW k \in {"discover", "connect"}, NEW n \in {"end", "judge", "unlock"},
          NEW s \in Nat,
         Mcp!Discover(f, k, n, s)
  PROVE  \E r \in FlowState :
             Becomes(f, r) /\ r.kind = k /\ r.pc = "check" /\ r.next = n /\ r.token = 0 /\ r.seen = s
  <1> DEFINE r == [kind |-> k, pc |-> "check", next |-> n, token |-> 0, seen |-> s]
  <1>1. r \in FlowState
    BY DEF FlowState
  <1>2. Becomes(f, r)
    BY DEF Becomes, Mcp!Discover
  <1>3. r.kind = k /\ r.pc = "check" /\ r.next = n /\ r.token = 0 /\ r.seen = s
    OBVIOUS
  <1> HIDE DEF r
  <1> QED BY ONLY <1>1, <1>2, <1>3

\* The login gate is taken: somebody else may have logged in meanwhile.
LEMMA TakeGateKeeps ==
  ASSUME McpInv, NEW f \in Flows, Mcp!TakeGate(f)
  PROVE  McpInv' /\ UsedOnce
  <1>1. /\ flow[f].pc = "lock" /\ oauth_gate = "nobody" /\ oauth_gate' = f
        /\ UNCHANGED <<Mcp!grants, refresh_gate, logins, mcpClosed>>
    BY DEF Mcp!TakeGate, Mcp!At, Mcp!Nobody
  <1>2. Leaves(f) 
    BY <1>1, GateConstants DEF Leaves
  <1>3. logins \in Nat /\ flow[f].seen \in Nat
    BY DEF McpInv, FlowsAre, FlowState
  <1>4. CASE logins # flow[f].seen
    <2>1. Mcp!Discover(f, "connect", "unlock", logins)
      BY <1>4 DEF Mcp!TakeGate
    <2>2. PICK r \in FlowState :
              Becomes(f, r) /\ r.kind = "connect" /\ r.pc = "check" /\ r.next = "unlock" /\ r.token = 0
                      /\ r.seen = logins
      BY <1>3, <2>1, Discovering
    <2>3. Fits(f, r)
      BY ONLY <1>1, <1>3, <2>2 DEF Fits, Mcp!InOperation
    <2>4. Grants(f, r)
      BY ONLY McpInv, <1>1, <2>2 DEF Grants, Mcp!grants, McpInv, FlowsAre
    <2> QED BY ONLY McpInv, f \in Flows, <1>2, <2>2, <2>3, <2>4, FlowMoves
  <1>5. CASE logins = flow[f].seen
    <2>1. Mcp!Goto(f, "clear")
      BY <1>5 DEF Mcp!TakeGate
    <2>2. PICK r \in FlowState :
              /\ Becomes(f, r) /\ r.pc = "clear" /\ r.next = flow[f].next /\ r.kind = flow[f].kind
              /\ r.token = flow[f].token /\ r.seen = flow[f].seen
      BY <2>1, Goes DEF Phases
    <2>3. Fits(f, r)
      BY ONLY McpInv, f \in Flows, <1>1, <1>3, <1>5, <2>2, Seen DEF Fits, Mcp!InOperation
    <2>4. Grants(f, r)
      BY ONLY McpInv, <1>1, <2>2 DEF Grants, Mcp!grants, McpInv, FlowsAre
    <2> QED BY ONLY McpInv, f \in Flows, <1>2, <2>2, <2>3, <2>4, FlowMoves
  <1> QED BY <1>4, <1>5

\* The credentials are cleared before a login.
LEMMA ClearServerKeeps ==
  ASSUME McpInv, NEW f \in Flows, Mcp!ClearServer(f)
  PROVE  McpInv' /\ UsedOnce
  <1>1. /\ flow[f].pc = "clear" /\ oauth_gate = f /\ stored' = 0
        /\ UNCHANGED <<accepted, issued, expired, spoiled, refresh_gate, logins, mcpClosed>>
    BY DEF Mcp!ClearServer, Mcp!At, McpInv, GatesAreHeld
  <1>2. issued \in Nat /\ accepted \subseteq 1..issued /\ \A x \in Flows : x # "nobody"
    BY GateConstants DEF McpInv, FlowsAre
  <1>3. CASE mcpClosed = "no"
    <2>1. Mcp!Goto(f, "login") /\ UNCHANGED oauth_gate
      BY <1>3 DEF Mcp!ClearServer
    <2>2. PICK r \in FlowState :
              /\ Becomes(f, r) /\ r.pc = "login" /\ r.next = flow[f].next /\ r.kind = flow[f].kind
              /\ r.token = flow[f].token /\ r.seen = flow[f].seen
      BY <2>1, Goes DEF Phases
    <2>3. Fits(f, r)
      BY ONLY McpInv, f \in Flows, <1>1, <1>3, <2>1, <2>2, Seen DEF Fits
    <2>4. Leaves(f)
      BY <1>1, <2>1 DEF Leaves
    <2>5. Grants(f, r)
      BY ONLY <1>1, <1>2, <2>2 DEF Grants
    <2> QED BY ONLY McpInv, f \in Flows, <2>2, <2>3, <2>4, <2>5, FlowMoves
  <1>4. CASE mcpClosed # "no"
    <2>1. flow' = [flow EXCEPT ![f] = Mcp!Idle] /\ oauth_gate' = "nobody"
      BY <1>4 DEF Mcp!ClearServer, Mcp!Nobody
    <2>2. Rests(f)
      BY <2>1, IdleRests
    <2>3. Leaves(f) /\ logins' = logins
      BY <1>1, <1>2, <2>1 DEF Leaves
    <2>4. Gives(f)
      BY ONLY <1>1, <1>2 DEF Gives
    <2> QED BY ONLY McpInv, f \in Flows, <2>2, <2>3, <2>4, RestKeeps
  <1> QED BY <1>3, <1>4

\* A login stored its grant.
LEMMA LoggedInKeeps ==
  ASSUME McpInv, NEW f \in Flows, Mcp!LoggedIn(f)
  PROVE  McpInv' /\ UsedOnce
  <1>1. /\ flow[f].pc = "login" /\ oauth_gate = f /\ mcpClosed = "no" /\ Mcp!Goto(f, "logged")
        /\ issued' = issued + 1 /\ accepted' = accepted \cup {issued + 1} /\ stored' = issued + 1
        /\ UNCHANGED <<expired, spoiled, oauth_gate, refresh_gate, logins, mcpClosed>>
    BY DEF Mcp!LoggedIn, Mcp!At, Mcp!Grant, Mcp!gates, McpInv, GatesAreHeld
  <1>2. issued \in Nat /\ accepted \subseteq 1..issued
    BY DEF McpInv, FlowsAre
  <1>3. PICK r \in FlowState :
            /\ Becomes(f, r) /\ r.pc = "logged" /\ r.next = flow[f].next /\ r.kind = flow[f].kind
            /\ r.token = flow[f].token /\ r.seen = flow[f].seen
    BY <1>1, Goes DEF Phases
  <1>4. Fits(f, r)
    BY ONLY McpInv, f \in Flows, <1>1, <1>3, Seen DEF Fits
  <1>5. Leaves(f)
    BY <1>1 DEF Leaves
  <1>6. Grants(f, r)
    BY ONLY <1>1, <1>2, <1>3 DEF Grants
  <1> QED BY ONLY McpInv, f \in Flows, <1>3, <1>4, <1>5, <1>6, FlowMoves

\* A login is counted and the connect discovers again, its gate held.
LEMMA LoginCountsKeeps ==
  ASSUME McpInv, NEW f \in Flows, Mcp!LoginCounts(f)
  PROVE  McpInv' /\ UsedOnce
  <1>1. /\ flow[f].pc = "logged" /\ oauth_gate = f /\ oauth_gate' = "nobody" /\ logins' = logins + 1
        /\ Mcp!Discover(f, "connect", "end", logins + 1)
        /\ UNCHANGED <<Mcp!grants, refresh_gate, mcpClosed>>
    BY DEF Mcp!LoginCounts, Mcp!At, Mcp!Nobody, McpInv, GatesAreHeld
  <1>2. logins \in Nat /\ logins + 1 \in Nat
    BY DEF McpInv, FlowsAre
  <1>3. PICK r \in FlowState :
            Becomes(f, r) /\ r.kind = "connect" /\ r.pc = "check" /\ r.next = "end" /\ r.token = 0
                    /\ r.seen = logins + 1
    BY <1>1, <1>2, Discovering
  <1>4. Fits(f, r)
    BY ONLY <1>1, <1>2, <1>3 DEF Fits, Mcp!InOperation
  <1>5. Leaves(f)
    BY <1>1, GateConstants DEF Leaves
  <1>6. Grants(f, r)
    BY ONLY McpInv, <1>1, <1>3 DEF Grants, Mcp!grants, McpInv, FlowsAre
  <1> QED BY ONLY McpInv, f \in Flows, <1>3, <1>4, <1>5, <1>6, FlowMoves

\* A login fails.
LEMMA LoginFailsKeeps ==
  ASSUME McpInv, NEW f \in Flows, Mcp!LoginFails(f)
  PROVE  McpInv' /\ UsedOnce
  <1>1. /\ flow[f].pc \in {"login", "logged"} /\ oauth_gate = f /\ oauth_gate' = "nobody"
        /\ flow' = [flow EXCEPT ![f] = Mcp!Idle]
        /\ UNCHANGED <<Mcp!grants, refresh_gate, logins, mcpClosed>>
    BY DEF Mcp!LoginFails, Mcp!Nobody, McpInv, GatesAreHeld
  <1>2. Rests(f)
    BY <1>1, IdleRests
  <1>3. Leaves(f)
    BY <1>1, GateConstants DEF Leaves
  <1>4. Gives(f)
    BY <1>1, Typed DEF Gives, Mcp!grants
  <1> QED BY ONLY McpInv, f \in Flows, <1>1, <1>2, <1>3, <1>4, RestKeeps

\* A refresh that is abandoned leaves the grants as good as they were.
LEMMA AbandonGives ==
  ASSUME McpInv, NEW f \in Flows, Mcp!AbandonRefresh(f), stored' = stored
  PROVE  Gives(f)
  <1>1. stored \in Nat /\ issued \in Nat /\ accepted \subseteq 1..issued
    BY DEF McpInv, FlowsAre
  <1>2. CASE flow[f].pc = "store"
    BY <1>1, <1>2 DEF Mcp!AbandonRefresh, Mcp!At, Gives
  <1>3. CASE flow[f].pc = "refresh" /\ flow[f].token \in accepted
    BY <1>1, <1>3 DEF Mcp!AbandonRefresh, Mcp!At, Mcp!Grant, Gives
  <1>4. CASE flow[f].pc # "store" /\ ~(flow[f].pc = "refresh" /\ flow[f].token \in accepted)
    BY <1>1, <1>4 DEF Mcp!AbandonRefresh, Mcp!At, Gives
  <1> QED BY <1>2, <1>3, <1>4

\* A flow is cancelled.
LEMMA CancelKeeps ==
  ASSUME McpInv, NEW f \in Flows, Mcp!Cancel(f)
  PROVE  McpInv' /\ UsedOnce
  <1>1. /\ flow' = [flow EXCEPT ![f] = Mcp!Idle] /\ Mcp!AbandonRefresh(f)
        /\ oauth_gate' = Mcp!Released(oauth_gate, f) /\ refresh_gate' = Mcp!Released(refresh_gate, f)
        /\ UNCHANGED <<stored, expired, logins, mcpClosed>>
    BY DEF Mcp!Cancel
  <1>2. Rests(f)
    BY <1>1, IdleRests
  <1>3. Leaves(f)
    BY <1>1 DEF Leaves, Mcp!Released
  <1>4. Gives(f)
    BY <1>1, AbandonGives
  <1> QED BY ONLY McpInv, f \in Flows, <1>1, <1>2, <1>3, <1>4, RestKeeps

\* A flow is aborted by the close of the manager.
LEMMA AbortKeeps ==
  ASSUME McpInv, NEW f \in Flows, Mcp!Abort(f)
  PROVE  McpInv' /\ UsedOnce
  <1>1. /\ Mcp!Failed(f, "error") /\ Mcp!AbandonRefresh(f) /\ refresh_gate' = Mcp!Released(refresh_gate, f)
        /\ UNCHANGED <<stored, expired, logins, mcpClosed>>
    BY DEF Mcp!Abort
  <1>2. Rests(f) /\ \A x \in Flows : x # f => (oauth_gate = x => oauth_gate' = x)
    BY <1>1, FailedRests
  <1>3. Leaves(f)
    BY <1>1, <1>2 DEF Leaves, Mcp!Released
  <1>4. Gives(f)
    BY <1>1, AbandonGives
  <1> QED BY ONLY McpInv, f \in Flows, <1>1, <1>2, <1>3, <1>4, RestKeeps

\* Disconnecting, closing, and what happens at the server.
LEMMA OthersKeep ==
  ASSUME McpInv, Mcp!Disconnect \/ Mcp!Close \/ Mcp!CloseReturns \/ Mcp!Expire \/ Mcp!Revoke
          \/ UNCHANGED mcpVars
  PROVE  McpInv' /\ UsedOnce
  <1>1. UNCHANGED <<flow, oauth_gate, refresh_gate, logins>>
    BY DEF Mcp!Disconnect, Mcp!Close, Mcp!CloseReturns, Mcp!Expire, Mcp!Revoke, mcpVars, Mcp!gates
  <1>2. FlowsAre'
    <2>1. CASE Mcp!Disconnect
      BY <1>1, <2>1 DEF Mcp!Disconnect, McpInv, FlowsAre
    <2>4. CASE Mcp!Revoke
      <3>1. accepted' = {} /\ UNCHANGED <<flow, stored, issued, logins, mcpClosed>>
        BY <2>4 DEF Mcp!Revoke, Mcp!gates
      <3> QED BY ONLY McpInv, <3>1 DEF McpInv, FlowsAre
    <2>2. CASE Mcp!Close \/ Mcp!CloseReturns
      BY <1>1, <2>2 DEF Mcp!Close, Mcp!CloseReturns, Mcp!grants, McpInv, FlowsAre
    <2>3. CASE Mcp!Expire \/ UNCHANGED mcpVars
      BY <1>1, <2>3 DEF Mcp!Expire, mcpVars, McpInv, FlowsAre
    <2> QED BY <2>1, <2>2, <2>3, <2>4
  <1>3. GatesAreHeld' /\ LoginsAreSeen' /\ UsedOnce
    BY <1>1 DEF McpInv, GatesAreHeld, LoginsAreSeen, UsedOnce
  <1>4. TokensAreGood'
    BY <1>1 DEF Mcp!Disconnect, Mcp!Close, Mcp!CloseReturns, Mcp!Expire, Mcp!Revoke, mcpVars, Mcp!grants,
            McpInv, TokensAreGood
  <1>5. Mcp!ClosedIsQuiet'
    BY <1>1 DEF Mcp!Disconnect, Mcp!Close, Mcp!CloseReturns, Mcp!Expire, Mcp!Revoke, mcpVars, McpInv,
            Mcp!ClosedIsQuiet
  <1> QED BY <1>2, <1>3, <1>4, <1>5 DEF McpInv

\* Each step of the MCP client keeps McpInv.
LEMMA McpStep ==
  ASSUME McpInv, Mcp!Next \/ UNCHANGED mcpVars
  PROVE  McpInv' /\ UsedOnce
  <1>1. ASSUME NEW f \in Flows, Mcp!Step(f)
        PROVE  McpInv' /\ UsedOnce
    BY <1>1, CheckKeeps, LoadKeeps, EnterRefreshKeeps, RefreshedKeeps, StoreTokensKeeps, RequestKeeps,
            AbortKeeps,
       JudgeKeeps, TakeGateKeeps, ClearServerKeeps, LoggedInKeeps, LoginCountsKeeps, LoginFailsKeeps
               DEF Mcp!Step
  <1> QED BY <1>1, StartsKeep, CancelKeeps, OthersKeep DEF Mcp!Next

\* oauth.py and manager.py: a refresh token is used once, a connect that just logged in keeps its credentials
\* for its own discovery, and nothing of the manager runs once its close has returned.
THEOREM GrantsStayKept == Spec => GrantsAreKept
  <1>1. Init => McpInv
    BY McpInit DEF Init
  <1>2. ASSUME McpInv, [Next]_vars
        PROVE  McpInv' /\ UsedOnce
    <2>1. Mcp!Next \/ UNCHANGED mcpVars
      BY <1>2 DEF Next, vars
    <2> QED BY <1>2, <2>1, McpStep
  <1>3. McpInv => (part = "mcp" => Mcp!ClosedIsQuiet)
    BY DEF McpInv
  <1>4. UsedOnce => [\A f \in Flows : Mcp!At(f, "refresh") /\ flow'[f].pc = "request" => spoiled]_(Mcp!vars)
    BY DEF UsedOnce, Mcp!At
  <1>5. McpInv => [\A f, g \in Flows : Mcp!At(f, "clear") /\ ~Mcp!At(f, "clear")' /\ Mcp!Discovers(g)
                       => flow[g].seen <= flow[f].seen]_(Mcp!vars)
    BY DEF McpInv, LoginsAreSeen, Mcp!At
  <1> QED BY <1>1, <1>2, <1>3, <1>4, <1>5, PTL DEF Spec, GrantsAreKept, Mcp!RefreshTokensAreUsedOnce,
          Mcp!LoginsAreNotPulled

(***************************************************************************)
(* Hooks, skills and approvals.                                            *)
(***************************************************************************)

\* What the session lists to the model, and what it has heard of.
ListingIsKept ==
    /\ listing = [epoch |-> listing.epoch, tool |-> listing.tool, told |-> listing.told,
                  authorized |-> listing.authorized]
    /\ listing.tool \in BOOLEAN /\ lib \subseteq Files /\ epoch \in Nat /\ listing.epoch \in Nat
    /\ listing.authorized \subseteq named
    /\ heard = [n \in Gate!Names |-> IF n \in listing.told THEN 1 ELSE 0]
    /\ pc \notin {"idle", "submit", "rescan", "announce"} =>
           (listing.tool = TRUE => Gate!Visible(lib) \subseteq listing.told)

\* A call that is being judged has only the answers it could have so far.
CallIsJudged ==
    /\ call = [kind |-> call.kind, name |-> call.name, file |-> call.file, pre |-> call.pre,
               permission |-> call.permission, user |-> call.user, free |-> call.free]
    /\ pc \in {"pre", "permission"} => call.permission = {}
    /\ pc \in {"permission", "prompt"} => "block" \notin call.pre \cup call.permission
    /\ Gate!ConsentBeforeEffect

\* A held skill is called only when a user named it.
HeldAreNamed ==
    pc \in {"permission", "prompt", "run", "commands"} => \A f \in call.file : f.open \/ f.name \in named

\* No hook runs between turns.
IdleIsQuiet == pc = "idle" => fire = Gate!NoFire

\* The inductive invariant of the gates.
GateInv == ListingIsKept /\ CallIsJudged /\ HeldAreNamed /\ IdleIsQuiet

\* Nothing is listed, called or running at the start.
LEMMA GateInit == Gate!Init => GateInv
  <1> SUFFICES ASSUME Gate!Init PROVE GateInv
    OBVIOUS
  <1>1. ListingIsKept
    BY DEF Gate!Init, ListingIsKept, Gate!Unlisted
  <1>2. CallIsJudged
    BY DEF Gate!Init, CallIsJudged, Gate!NoCall, Gate!ConsentBeforeEffect
  <1> QED BY <1>1, <1>2 DEF Gate!Init, GateInv, HeldAreNamed, IdleIsQuiet

\* The places at which the listing may be behind the library.
Away == {"idle", "submit", "rescan", "announce"}

\* A step that touches no listing.
LEMMA ListingStays ==
  ASSUME ListingIsKept, UNCHANGED <<lib, listing, epoch, named, heard>>, pc' \in Away \/ pc \notin Away
  PROVE  ListingIsKept'
  BY DEF ListingIsKept, Away, Gate!Visible

\* Steps that leave the listing alone.
Unlisting ==
    \/ Gate!Spawn \/ Gate!Spawned \/ Gate!HookAnswers \/ Gate!KillHook \/ Gate!Cancel \/ Gate!CancelEnds
    \/ (\E names \in SUBSET Gate!Names : Gate!Submit(names) \/ Gate!FollowUp(names))
    \/ Gate!Refused \/ Gate!Withheld \/ Gate!AutoCompaction
    \/ Gate!Calls \/ Gate!Answers_text \/ Gate!stop_redirected \/ Gate!TurnEnds
    \/ Gate!Decide \/ Gate!Permission \/ Gate!Prompt \/ Gate!Execute \/ Gate!Finish

\* Those steps keep the listing.
LEMMA UnlistingStays ==
  ASSUME ListingIsKept, Unlisting
  PROVE  ListingIsKept'
  <1>1. CASE Gate!Spawn \/ Gate!Spawned \/ Gate!HookAnswers \/ Gate!KillHook \/ Gate!Cancel
    <2>1. UNCHANGED <<lib, listing, epoch, named, heard, pc>>
      BY <1>1 DEF Gate!Spawn, Gate!Spawned, Gate!HookAnswers, Gate!KillHook, Gate!Cancel, Gate!history
    <2> QED BY <2>1, ListingStays DEF Away
  <1>2. CASE Gate!CancelEnds \/ Gate!Refused \/ Gate!TurnEnds
          \/ \E names \in SUBSET Gate!Names : Gate!Submit(names)
    <2>1. UNCHANGED <<lib, listing, epoch, named, heard>> /\ pc' \in Away
      BY <1>2 DEF Gate!CancelEnds, Gate!Refused, Gate!TurnEnds, Gate!Submit, Gate!Idle, Gate!history, Away
    <2> QED BY <2>1, ListingStays
  <1>3. CASE \/ \E names \in SUBSET Gate!Names : Gate!FollowUp(names)
             \/ Gate!Withheld \/ Gate!Calls \/ Gate!Answers_text \/ Gate!stop_redirected
             \/ Gate!Decide \/ Gate!Permission \/ Gate!Prompt \/ Gate!Execute \/ Gate!Finish
    <2>1. UNCHANGED <<lib, listing, epoch, named, heard>> /\ pc \notin Away
      BY <1>3 DEF Gate!FollowUp, Gate!Withheld, Gate!Calls, Gate!Answers_text, Gate!stop_redirected,
              Gate!Decide,
         Gate!Permission, Gate!Prompt, Gate!Execute, Gate!Finish, Gate!history, Away
    <2> QED BY SMTT(40), <2>1, ListingStays
  <1>4. CASE Gate!AutoCompaction
    BY <1>4 DEF Gate!AutoCompaction, Gate!history, ListingIsKept, Gate!Visible
  <1> QED BY <1>1, <1>2, <1>3, <1>4 DEF Unlisting

\* A scan finds skills that there are.
LEMMA Scanned ==
  ASSUME Gate!reload
  PROVE  lib' \subseteq Files
  BY DEF Gate!reload, Gate!Loaded, Gate!scan

\* Listing.of for the epoch now: what is new is heard once, and what the old listing told is still told.
LEMMA FreshListing ==
  ASSUME ListingIsKept, NEW now \in Nat
  PROVE  LET l == Gate!of(listing, now) IN
         /\ l = [epoch |-> l.epoch, tool |-> l.tool, told |-> l.told, authorized |-> l.authorized]
         /\ l.epoch = now /\ l.tool \in BOOLEAN
         /\ Gate!Hears(listing, now) = [n \in Gate!Names |-> IF n \in l.told THEN 1 ELSE 0]
         /\ listing.epoch # now => (l.tool = TRUE => Gate!Visible(lib) \subseteq l.told)
         /\ listing.epoch = now => l = listing
         /\ l.authorized \subseteq IF listing.epoch = now \/ listing.epoch = 0 THEN named ELSE asked
  <1>1. CASE listing.epoch = now
    BY <1>1 DEF Gate!of, Gate!Hears, ListingIsKept
  <1>2. CASE listing.epoch # now
    BY <1>2 DEF Gate!of, Gate!Hears, ListingIsKept
  <1> QED BY <1>1, <1>2

\* The listing is frozen again.
LEMMA RefrozenStays ==
  ASSUME ListingIsKept, NEW now \in Nat, epoch' = now, Gate!Refrozen(now), lib' = lib,
         pc' \in Away \/ pc \notin Away
  PROVE  ListingIsKept'
  <1> DEFINE l == Gate!of(listing, now)
  <1>1. listing' = l /\ heard' = Gate!Hears(listing, now)
        /\ named' = IF listing.epoch = now \/ listing.epoch = 0 THEN named ELSE asked
    BY DEF Gate!Refrozen
  <1>2. /\ l = [epoch |-> l.epoch, tool |-> l.tool, told |-> l.told, authorized |-> l.authorized]
        /\ l.epoch = now /\ l.tool \in BOOLEAN
        /\ Gate!Hears(listing, now) = [n \in Gate!Names |-> IF n \in l.told THEN 1 ELSE 0]
        /\ listing.epoch # now => (l.tool = TRUE => Gate!Visible(lib) \subseteq l.told)
        /\ listing.epoch = now => l = listing
        /\ l.authorized \subseteq IF listing.epoch = now \/ listing.epoch = 0 THEN named ELSE asked
    BY FreshListing
  <1> HIDE DEF l
  <1>3. Gate!Visible(lib)' = Gate!Visible(lib)
    BY DEF Gate!Visible
  <1>4. pc' \notin Away => (l.tool = TRUE => Gate!Visible(lib) \subseteq l.told)
    BY <1>2 DEF ListingIsKept, Away
  <1> QED BY ONLY ListingIsKept, now \in Nat, epoch' = now, lib' = lib, <1>1, <1>2, <1>3, <1>4
          DEF ListingIsKept, Away

\* A user names skills.
LEMMA AdmittedStays ==
  ASSUME ListingIsKept, Gate!Admitted
  PROVE  ListingIsKept'
  <1> DEFINE found == {n \in said : Gate!get(n) # {}}
  <1>1. /\ listing' = [listing EXCEPT !.authorized = @ \cup found] /\ named' = named \cup found
        /\ UNCHANGED <<lib, epoch, heard>> /\ (pc' = "rescan" \/ pc \notin Away)
    BY DEF Gate!Admitted, Gate!resolve_mentions, Away
  <1> HIDE DEF found
  <1>2. /\ listing' = [epoch |-> listing.epoch, tool |-> listing.tool, told |-> listing.told,
                       authorized |-> listing.authorized \cup found]
    BY <1>1 DEF ListingIsKept
  <1>3. /\ listing'.epoch = listing.epoch /\ listing'.tool = listing.tool /\ listing'.told = listing.told
        /\ listing'.authorized = listing.authorized \cup found
    BY <1>2
  <1>4. Gate!Visible(lib)' = Gate!Visible(lib)
    BY <1>1 DEF Gate!Visible
  <1> QED BY ONLY ListingIsKept, <1>1, <1>2, <1>3, <1>4 DEF ListingIsKept, Away

\* The library is scanned again.
LEMMA ScanStays ==
  ASSUME ListingIsKept, Gate!Rescan \/ Gate!skills_reload
  PROVE  ListingIsKept'
  <1>1. lib' \subseteq Files /\ UNCHANGED <<listing, epoch, named, heard>> /\ pc' \in {"announce", "idle"}
    BY Scanned DEF Gate!Rescan, Gate!skills_reload, Gate!history
  <1> QED BY <1>1 DEF ListingIsKept

\* New skills are announced.
LEMMA AnnouncementStays ==
  ASSUME ListingIsKept, Gate!skill_announcement
  PROVE  ListingIsKept'
  <1> DEFINE l == Gate!of(listing, epoch)
             new == Gate!announcement(l)
             h == Gate!Hears(listing, epoch)
  <1>0. epoch \in Nat
    BY DEF ListingIsKept
  <1>1. /\ listing' = [l EXCEPT !.told = @ \cup new]
        /\ heard' = [n \in Gate!Names |-> IF n \in new THEN h[n] + 1 ELSE h[n]]
        /\ named' = IF l.epoch = listing.epoch \/ listing.epoch = 0 THEN named ELSE asked
        /\ lib' = lib /\ epoch' = epoch
    BY DEF Gate!skill_announcement
  <1>2. /\ l = [epoch |-> l.epoch, tool |-> l.tool, told |-> l.told, authorized |-> l.authorized]
        /\ l.epoch = epoch /\ l.tool \in BOOLEAN
        /\ h = [n \in Gate!Names |-> IF n \in l.told THEN 1 ELSE 0]
        /\ l.authorized \subseteq IF listing.epoch = epoch \/ listing.epoch = 0 THEN named ELSE asked
    BY <1>0, FreshListing
  <1>3. new = IF l.tool = TRUE THEN Gate!Visible(lib) \ l.told ELSE {}
    BY <1>2 DEF Gate!announcement
  <1> HIDE DEF l, new, h
  <1>4. listing' = [epoch |-> l.epoch, tool |-> l.tool, told |-> l.told \cup new, authorized |-> l.authorized]
    BY <1>1, <1>2
  <1>5. /\ listing'.epoch = epoch /\ listing'.tool = l.tool /\ listing'.told = l.told \cup new
        /\ listing'.authorized = l.authorized
    BY <1>2, <1>4
  <1>6. heard' = [n \in Gate!Names |-> IF n \in l.told \cup new THEN 1 ELSE 0]
    <2>1. ASSUME NEW n \in Gate!Names
          PROVE  (IF n \in new THEN h[n] + 1 ELSE h[n]) = IF n \in l.told \cup new THEN 1 ELSE 0
      BY ONLY <1>2, <1>3, <2>1
    <2> QED BY ONLY <1>1, <2>1
  <1>7. l.tool = TRUE => Gate!Visible(lib) \subseteq l.told \cup new
    BY <1>3
  <1>8. Gate!Visible(lib)' = Gate!Visible(lib)
    BY <1>1 DEF Gate!Visible
  <1>9. named' = IF listing.epoch = epoch \/ listing.epoch = 0 THEN named ELSE asked
    BY ONLY <1>1, <1>2
  <1> QED BY ONLY ListingIsKept, <1>0, <1>1, <1>2, <1>4, <1>5, <1>6, <1>7, <1>8, <1>9 DEF ListingIsKept

\* The steps at which the listing is read for a request.
LEMMA RefreezesStay ==
  ASSUME ListingIsKept, Gate!Offer \/ Gate!Request \/ Gate!compact_command \/ Gate!status_command
  PROVE  ListingIsKept'
  <1>1. CASE Gate!Offer \/ Gate!Request \/ Gate!status_command
    <2>1. /\ Gate!Refrozen(epoch) /\ epoch' = epoch /\ lib' = lib /\ (pc' \in Away \/ pc \notin Away)
      BY <1>1 DEF Gate!Offer, Gate!Request, Gate!status_command, Away
    <2>2. epoch \in Nat
      BY DEF ListingIsKept
    <2> QED BY <2>1, <2>2, RefrozenStays
  <1>2. CASE Gate!compact_command
    <2>1. /\ Gate!Refrozen(epoch + 1) /\ epoch' = epoch + 1 /\ lib' = lib /\ pc' \in Away
      BY <1>2 DEF Gate!compact_command, Away, Gate!Refrozen
    <2>2. epoch + 1 \in Nat
      BY DEF ListingIsKept
    <2> QED BY <2>1, <2>2, RefrozenStays
  <1> QED BY <1>1, <1>2

\* Each step keeps the listing.
LEMMA ListingStep ==
  ASSUME ListingIsKept, Gate!Next
  PROVE  ListingIsKept'
  BY UnlistingStays, AdmittedStays, ScanStays, AnnouncementStays, RefreezesStay DEF Gate!Next, Unlisting

\* -----------------------------------------------------------------
\* Steps at which no call is judged.
LEMMA CallStays ==
  ASSUME CallIsJudged, UNCHANGED call, pc' \notin {"pre", "permission", "prompt", "run", "commands"}
          \/ pc' = pc
  PROVE  CallIsJudged'
  <1>1. Gate!ConsentBeforeEffect'
    BY DEF CallIsJudged, Gate!ConsentBeforeEffect, Gate!needs_confirmation, Gate!Forks
  <1> QED BY <1>1 DEF CallIsJudged

\* A step after which there is no call.
LEMMA NoCallStays ==
  ASSUME call' = Gate!NoCall, pc' \in {"idle", "prepare"}
  PROVE  CallIsJudged'
  BY DEF CallIsJudged, Gate!NoCall, Gate!ConsentBeforeEffect

\* The model calls a tool or a skill.
LEMMA CallsJudged ==
  ASSUME CallIsJudged, Gate!Calls
  PROVE  CallIsJudged'
  <1>1. pc' = "pre"
    BY DEF Gate!Calls
  <1>2. PICK k, n : call' = [kind |-> k, name |-> n, file |-> {}, pre |-> {}, permission |-> {},
          user |-> "unasked", free |-> FALSE]
    BY DEF Gate!Calls, Gate!NoCall
  <1> QED BY <1>1, <1>2 DEF CallIsJudged, Gate!ConsentBeforeEffect

\* combine: one block blocks, one ask asks, and an allow counts only when nobody asks.
LEMMA CombineMeans ==
  ASSUME NEW got
  PROVE  /\ Gate!combine(got).blocked = ("block" \in got)
         /\ Gate!combine(got).permission = "ask" <=> "ask" \in got
         /\ Gate!combine(got).permission = "allow" => "allow" \in got /\ "ask" \notin got
  <1> DEFINE p == IF "ask" \in got THEN "ask" ELSE IF "allow" \in got THEN "allow" ELSE ""
  <1>1. Gate!combine(got).permission = p /\ Gate!combine(got).blocked = ("block" \in got)
    BY DEF Gate!combine
  <1>2. "" # "ask" /\ "" # "allow" /\ "ask" # "allow"
    OBVIOUS
  <1> QED BY Zenon, <1>1, <1>2

\* The fields of a call.
CallShape(c) == c = [kind |-> c.kind, name |-> c.name, file |-> c.file, pre |-> c.pre,
                     permission |-> c.permission, user |-> c.user, free |-> c.free]

\* The consent a call needs before its effect.
Consented(c) ==
    /\ "block" \notin c.pre \cup c.permission
    /\ "ask" \in c.pre \/ Gate!Forks(c.file) => c.user = "yes"
    /\ c.kind = "acts" \/ Gate!Forks(c.file) \/ (\E f \in c.file : f.commands) =>
           c.user = "yes" \/ c.free \/ "allow" \in c.pre \cup c.permission

\* A call with its consent starts.
LEMMA StartStays ==
  ASSUME NEW c, Gate!Start(c), CallShape(c), Consented(c)
  PROVE  CallIsJudged' /\ call' = c /\ pc' \in {"run", "commands"}
  <1>1. call' = c /\ pc' \in {"run", "commands"}
    BY DEF Gate!Start
  <1>2. Gate!ConsentBeforeEffect'
    BY <1>1 DEF Consented, Gate!ConsentBeforeEffect, Gate!needs_confirmation, Gate!Forks
  <1> QED BY <1>1, <1>2 DEF CallIsJudged, CallShape

\* A call with its file, its answers and its grant.
Judged(c, x, y, z) == [c EXCEPT !.file = x, !.pre = y, !.free = z]

\* The fields of a judged call.
LEMMA JudgedShape ==
  ASSUME NEW c, CallShape(c), NEW x, NEW y, NEW z
  PROVE  LET j == Judged(c, x, y, z) IN
         /\ CallShape(j) /\ j.kind = c.kind /\ j.file = x /\ j.pre = y /\ j.permission = c.permission
                 /\ j.free = z
  <1>1. Judged(c, x, y, z) = [kind |-> c.kind, name |-> c.name, file |-> x, pre |-> y,
                              permission |-> c.permission, user |-> c.user, free |-> z]
    <2>1. c \in [kind : {c.kind}, name : {c.name}, file : {c.file}, pre : {c.pre},
            permission : {c.permission},
                user : {c.user}, free : {c.free}]
      BY DEF CallShape
    <2>2. Judged(c, x, y, z) \in [kind : {c.kind}, name : {c.name}, file : {x}, pre : {y},
            permission : {c.permission},
                                 user : {c.user}, free : {z}]
      BY ONLY <2>1 DEF Judged
    <2> HIDE DEF Judged
    <2> QED BY ONLY <2>2
  <1> HIDE DEF Judged
  <1> QED BY <1>1 DEF CallShape

\* The answers of the hooks before a call are combined.
LEMMA DecideJudged ==
  ASSUME CallIsJudged, Gate!Decide
  PROVE  CallIsJudged'
  <1>1. PICK yolo \in BOOLEAN :
         LET pre == Gate!combine(fire.got)
             file == IF call.kind = "skill" THEN Gate!Resolution ELSE {}
             needs == Gate!needs_confirmation(file) \/ pre.permission = "ask"
             free == Gate!pre_approved(pre, yolo) /\ ~Gate!Forks(file)
             judged == [call EXCEPT !.file = file, !.pre = fire.got, !.free = yolo \/ Gate!approves]
         IN \/ pre.blocked /\ pc' = "prepare" /\ call' = Gate!NoCall /\ fire' = Gate!NoFire
            \/ ~pre.blocked /\ (needs => free) /\ Gate!Start(judged)
            \/ ~pre.blocked /\ needs /\ ~free
                 /\ pc' = "permission" /\ fire' = Gate!Fire("PermissionRequest") /\ call' = judged
    BY DEF Gate!Decide
  <1> DEFINE got == fire.got
             pre == Gate!combine(got)
             file == IF call.kind = "skill" THEN Gate!Resolution ELSE {}
             granted == (yolo \/ Gate!approves)
             needs == Gate!needs_confirmation(file) \/ pre.permission = "ask"
             free == Gate!pre_approved(pre, yolo) /\ ~Gate!Forks(file)
             judged == Judged(call, file, got, granted)
  <1>2. /\ pre.blocked = ("block" \in got)
        /\ pre.permission = "ask" <=> "ask" \in got
        /\ pre.permission = "allow" => "allow" \in got
    BY CombineMeans
  <1>3. pc = "pre" /\ call.permission = {} /\ CallShape(call)
    BY DEF Gate!Decide, CallIsJudged, CallShape
  <1>4. needs <=> call.kind = "acts" \/ Gate!Forks(file) \/ (\E f \in file : f.commands) \/ "ask" \in got
    BY <1>2 DEF Gate!needs_confirmation
  <1>5. free => "ask" \notin got /\ ~Gate!Forks(file) /\ (granted \/ "allow" \in got)
    BY <1>2 DEF Gate!pre_approved
  <1>6. \/ call' = Gate!NoCall /\ pc' = "prepare"
        \/ "block" \notin got /\ (needs => free) /\ Gate!Start(judged)
        \/ "block" \notin got /\ pc' = "permission" /\ call' = judged
    BY <1>1, <1>2 DEF Judged
  <1> HIDE DEF got, pre, file, granted, needs, free
  <1>7. /\ CallShape(judged) /\ judged.kind = call.kind /\ judged.file = file /\ judged.pre = got
        /\ judged.permission = {} /\ judged.free = granted
    BY <1>3, JudgedShape
  <1> HIDE DEF judged
  <1>8. CASE call' = Gate!NoCall /\ pc' = "prepare"
    BY <1>8, NoCallStays
  <1>9. CASE "block" \notin got /\ (needs => free) /\ Gate!Start(judged)
    <2>1. Consented(judged)
      BY ONLY <1>4, <1>5, <1>7, <1>9 DEF Consented
    <2> QED BY <1>7, <1>9, <2>1, StartStays
  <1>10. CASE "block" \notin got /\ pc' = "permission" /\ call' = judged
    <2>1. CallShape(call') /\ call'.permission = {} /\ "block" \notin call'.pre
      BY <1>7, <1>10
    <2> QED BY <1>10, <2>1 DEF CallIsJudged, Gate!ConsentBeforeEffect, CallShape
  <1> QED BY <1>6, <1>8, <1>9, <1>10

\* The answers of the permission hooks are combined.
LEMMA PermissionJudged ==
  ASSUME CallIsJudged, Gate!Permission
  PROVE  CallIsJudged'
  <1> DEFINE got == fire.got
             answer == Gate!combine(got)
             heardHooks == [call EXCEPT !.permission = got]
             forced == Gate!combine(call.pre).permission = "ask" \/ Gate!Forks(call.file)
  <1>1. /\ answer.blocked = ("block" \in got) /\ (answer.permission = "allow" => "allow" \in got)
        /\ forced <=> "ask" \in call.pre \/ Gate!Forks(call.file)
    BY CombineMeans
  <1>2. \/ call' = Gate!NoCall /\ pc' = "prepare"
        \/ "block" \notin got /\ "allow" \in got /\ ~forced /\ Gate!Start(heardHooks)
        \/ "block" \notin got /\ pc' = "prompt" /\ call' = heardHooks
    BY <1>1 DEF Gate!Permission
  <1>3. pc = "permission" /\ "block" \notin call.pre /\ CallShape(call)
    BY DEF Gate!Permission, CallIsJudged, CallShape
  <1> HIDE DEF got, answer, forced
  <1>4. /\ CallShape(heardHooks) /\ heardHooks.file = call.file /\ heardHooks.pre = call.pre
        /\ heardHooks.permission = got
    BY <1>3 DEF CallShape
  <1> HIDE DEF heardHooks
  <1>5. CASE call' = Gate!NoCall /\ pc' = "prepare"
    BY <1>5, NoCallStays
  <1>6. CASE "block" \notin got /\ "allow" \in got /\ ~forced /\ Gate!Start(heardHooks)
    <2>1. Consented(heardHooks)
      BY ONLY <1>1, <1>3, <1>4, <1>6 DEF Consented
    <2> QED BY <1>4, <1>6, <2>1, StartStays
  <1>7. CASE "block" \notin got /\ pc' = "prompt" /\ call' = heardHooks
    <2>1. CallShape(call') /\ "block" \notin call'.pre \cup call'.permission
      BY <1>3, <1>4, <1>7
    <2> QED BY <1>7, <2>1 DEF CallIsJudged, Gate!ConsentBeforeEffect, CallShape
  <1> QED BY <1>2, <1>5, <1>6, <1>7

\* A person decides.
LEMMA PromptJudged ==
  ASSUME CallIsJudged, Gate!Prompt
  PROVE  CallIsJudged'
  <1> DEFINE c == [call EXCEPT !.user = "yes"]
  <1>1. pc = "prompt" /\ "block" \notin call.pre \cup call.permission /\ CallShape(call)
    BY DEF Gate!Prompt, CallIsJudged, CallShape
  <1>2. Gate!Start(c) \/ (call' = Gate!NoCall /\ pc' = "prepare")
    BY DEF Gate!Prompt
  <1>3. CallShape(c) /\ c.pre = call.pre /\ c.permission = call.permission /\ c.user = "yes"
    BY <1>1 DEF CallShape
  <1> HIDE DEF c
  <1>4. Consented(c)
    BY <1>1, <1>3 DEF Consented
  <1> QED BY <1>2, <1>3, <1>4, StartStays, NoCallStays

\* Each step keeps the call judged.
LEMMA CallStep ==
  ASSUME CallIsJudged, Gate!Next
  PROVE  CallIsJudged'
  <1>1. CASE Gate!Calls \/ Gate!Decide \/ Gate!Permission \/ Gate!Prompt
    BY <1>1, CallsJudged, DecideJudged, PermissionJudged, PromptJudged
  <1>2. CASE \/ Gate!Spawn \/ Gate!Spawned \/ Gate!HookAnswers \/ Gate!KillHook \/ Gate!Cancel
             \/ Gate!compact_command \/ Gate!status_command \/ Gate!skills_reload
    <2>1. UNCHANGED <<call, pc>>
      BY <1>2 DEF Gate!Spawn, Gate!Spawned, Gate!HookAnswers, Gate!KillHook, Gate!Cancel,
              Gate!compact_command,
         Gate!status_command, Gate!skills_reload
    <2> QED BY <2>1, CallStays
  <1>3. CASE \/ \E names \in SUBSET Gate!Names : Gate!Submit(names) \/ Gate!FollowUp(names)
             \/ Gate!Withheld \/ Gate!Admitted \/ Gate!Rescan \/ Gate!skill_announcement
             \/ Gate!Offer \/ Gate!Request \/ Gate!AutoCompaction
             \/ Gate!Answers_text \/ Gate!stop_redirected \/ Gate!Execute
    <2>1. UNCHANGED call /\ pc' \notin {"pre", "permission", "prompt", "run", "commands"}
      BY <1>3 DEF Gate!Submit, Gate!FollowUp, Gate!Withheld, Gate!Admitted, Gate!Rescan,
              Gate!skill_announcement,
         Gate!Offer, Gate!Request, Gate!AutoCompaction, Gate!Answers_text, Gate!stop_redirected, Gate!Execute,
         Gate!Activate
    <2> QED BY <2>1, CallStays
  <1>4. CASE Gate!CancelEnds \/ Gate!Refused \/ Gate!TurnEnds \/ Gate!Finish
    <2>1. call' = Gate!NoCall /\ pc' \in {"idle", "prepare"}
      BY <1>4 DEF Gate!CancelEnds, Gate!Refused, Gate!TurnEnds, Gate!Finish, Gate!Idle
    <2> QED BY <2>1, NoCallStays
  <1> QED BY <1>1, <1>2, <1>3, <1>4 DEF Gate!Next

\* Each step calls only skills that may be called.
LEMMA HeldStep ==
  ASSUME ListingIsKept, CallIsJudged, HeldAreNamed, Gate!Next
  PROVE  HeldAreNamed'
  <1> DEFINE Held == {"permission", "prompt", "run", "commands"}
  <1>1. CASE pc' \notin Held
    BY <1>1 DEF HeldAreNamed
  <1>2. CASE pc' = pc /\ UNCHANGED <<call, named>>
    BY <1>2 DEF HeldAreNamed
  <1>3. CASE Gate!Decide
    <2>1. named' = named /\ CallShape(call)
      BY <1>3 DEF Gate!Decide, Gate!history, CallIsJudged, CallShape
    <2>2. \A f \in Gate!Resolution : f.open \/ f.name \in named
      BY DEF Gate!Resolution, ListingIsKept
    <2>3. pc' \notin Held \/ call'.file \subseteq Gate!Resolution
      <3>1. CASE pc' = "prepare"
        BY <3>1
      <3>2. CASE \E got, free, file : file \subseteq Gate!Resolution /\ call' = Judged(call, file, got, free)
        BY <2>1, <3>2, JudgedShape
      <3>3. (IF call.kind = "skill" THEN Gate!Resolution ELSE {}) \subseteq Gate!Resolution
        OBVIOUS
      <3>4. PICK yolo \in BOOLEAN :
                \/ pc' = "prepare"
                \/ call' = Judged(call, IF call.kind = "skill" THEN Gate!Resolution ELSE {}, fire.got,
                                  yolo \/ Gate!approves)
        BY <1>3 DEF Gate!Decide, Gate!Start, Judged
      <3> QED BY <3>1, <3>2, <3>3, <3>4
    <2> QED BY <2>1, <2>2, <2>3 DEF HeldAreNamed
  <1>4. CASE Gate!Permission \/ Gate!Prompt
    <2>1. named' = named /\ pc \in Held /\ CallShape(call)
      BY <1>4 DEF Gate!Permission, Gate!Prompt, Gate!history, CallIsJudged, CallShape
    <2>2. pc' \notin Held \/ call'.file = call.file
      <3>1. \/ pc' = "prepare"
            \/ \E x : call' = [call EXCEPT !.permission = x]
            \/ call' = [call EXCEPT !.user = "yes"]
        BY <1>4 DEF Gate!Permission, Gate!Prompt, Gate!Start
      <3> QED BY <2>1, <3>1 DEF CallShape
    <2> QED BY <2>1, <2>2 DEF HeldAreNamed
  <1>5. \/ pc' \notin Held \/ (pc' = pc /\ UNCHANGED <<call, named>>)
        \/ Gate!Decide \/ Gate!Permission \/ Gate!Prompt
    <2>1. CASE Gate!Spawn \/ Gate!Spawned \/ Gate!HookAnswers \/ Gate!KillHook \/ Gate!Cancel
      BY <2>1 DEF Gate!Spawn, Gate!Spawned, Gate!HookAnswers, Gate!KillHook, Gate!Cancel, Gate!history
    <2>2. CASE Gate!compact_command \/ Gate!status_command \/ Gate!skills_reload
      BY <2>2 DEF Gate!compact_command, Gate!status_command, Gate!skills_reload
    <2>3. CASE \/ \E names \in SUBSET Gate!Names : Gate!Submit(names) \/ Gate!FollowUp(names)
               \/ Gate!Withheld \/ Gate!Admitted \/ Gate!Rescan \/ Gate!skill_announcement
               \/ Gate!Offer \/ Gate!Request \/ Gate!AutoCompaction \/ Gate!Calls
               \/ Gate!Answers_text \/ Gate!stop_redirected \/ Gate!Execute
      BY <2>3 DEF Gate!Submit, Gate!FollowUp, Gate!Withheld, Gate!Admitted, Gate!Rescan,
              Gate!skill_announcement,
         Gate!Offer, Gate!Request, Gate!AutoCompaction, Gate!Calls, Gate!Answers_text, Gate!stop_redirected,
         Gate!Execute, Gate!Activate
    <2>4. CASE Gate!CancelEnds \/ Gate!Refused \/ Gate!TurnEnds \/ Gate!Finish
      BY <2>4 DEF Gate!CancelEnds, Gate!Refused, Gate!TurnEnds, Gate!Finish, Gate!Idle
    <2> QED BY <2>1, <2>2, <2>3, <2>4 DEF Gate!Next
  <1> QED BY <1>1, <1>2, <1>3, <1>4, <1>5

\* Each step that ends a turn leaves no hook running.
LEMMA IdleStep ==
  ASSUME IdleIsQuiet, Gate!Next
  PROVE  IdleIsQuiet'
  <1>0. Gate!NoFire.left = 0 /\ Gate!NoFire.shell = "none"
    BY DEF Gate!NoFire
  <1>1. CASE Gate!CancelEnds \/ Gate!Refused \/ Gate!TurnEnds
    BY <1>1 DEF Gate!CancelEnds, Gate!Refused, Gate!TurnEnds, Gate!Idle, Gate!Settled, Gate!Fired, IdleIsQuiet
  <1>2. CASE Gate!Spawn \/ Gate!Spawned \/ Gate!HookAnswers \/ Gate!KillHook
    <2>1. pc' = pc /\ (fire.left > 0 \/ fire.shell # "none")
      BY <1>2 DEF Gate!Spawn, Gate!Spawned, Gate!HookAnswers, Gate!KillHook
    <2> QED BY <1>0, <2>1 DEF IdleIsQuiet
  <1>3. CASE Gate!Cancel \/ Gate!compact_command \/ Gate!status_command \/ Gate!skills_reload
    BY <1>3 DEF Gate!Cancel, Gate!compact_command, Gate!status_command, Gate!skills_reload, IdleIsQuiet
  <1>4. CASE \/ \E names \in SUBSET Gate!Names : Gate!Submit(names) \/ Gate!FollowUp(names)
             \/ Gate!Withheld \/ Gate!Admitted \/ Gate!Rescan \/ Gate!skill_announcement
             \/ Gate!Offer \/ Gate!Request \/ Gate!AutoCompaction \/ Gate!Calls
             \/ Gate!Answers_text \/ Gate!stop_redirected \/ Gate!Execute \/ Gate!Finish
    BY <1>4 DEF Gate!Submit, Gate!FollowUp, Gate!Withheld, Gate!Admitted, Gate!Rescan,
            Gate!skill_announcement,
         Gate!Offer, Gate!Request, Gate!AutoCompaction, Gate!Calls, Gate!Answers_text, Gate!stop_redirected,
         Gate!Execute, Gate!Activate, Gate!Finish, IdleIsQuiet
  <1>5. CASE Gate!Decide \/ Gate!Permission \/ Gate!Prompt
    BY <1>5 DEF Gate!Decide, Gate!Permission, Gate!Prompt, Gate!Start, IdleIsQuiet
  <1> QED BY <1>1, <1>2, <1>3, <1>4, <1>5 DEF Gate!Next

\* Each step of the gates keeps GateInv.
LEMMA GateStep ==
  ASSUME GateInv, Gate!Next \/ UNCHANGED gateVars
  PROVE  GateInv'
  <1>1. CASE Gate!Next
    BY <1>1, ListingStep, CallStep, HeldStep, IdleStep DEF GateInv
  <1>2. CASE UNCHANGED gateVars
    BY <1>2 DEF gateVars, GateInv, ListingIsKept, CallIsJudged, HeldAreNamed, IdleIsQuiet, Gate!Visible,
       Gate!ConsentBeforeEffect, Gate!needs_confirmation, Gate!Forks
  <1> QED BY <1>1, <1>2

\* The invariant implies what the gates promise.
LEMMA GateHolds ==
  ASSUME GateInv
  PROVE  GatesHold
  <1>1. Gate!SkillsAreToldOnce
    BY DEF GateInv, ListingIsKept, Gate!SkillsAreToldOnce, Gate!Visible, Gate!Names
  <1>2. Gate!HeldSkillsNeedAName
    BY DEF GateInv, HeldAreNamed, Gate!HeldSkillsNeedAName
  <1>3. Gate!NoHookOutlivesItsTurn
    BY DEF GateInv, IdleIsQuiet, Gate!NoFire, Gate!NoHookOutlivesItsTurn
  <1> QED BY <1>1, <1>2, <1>3 DEF GateInv, CallIsJudged, GatesHold

\* agent/runner.py, tools/skill.py, utils/process.py: a call takes effect only past every hook that could refuse
\* it and with the consent it needs, a held skill starts only for a user who named it, the model is told of each
\* skill once, and no hook outlives its turn.
THEOREM GatesAlwaysHold == Spec => []GatesHold
  <1>1. Init => GateInv
    BY GateInit DEF Init
  <1>2. GateInv /\ [Next]_vars => GateInv'
    <2>1. ASSUME [Next]_vars PROVE Gate!Next \/ UNCHANGED gateVars
      BY <2>1 DEF Next, vars
    <2> QED BY <2>1, GateStep
  <1> QED BY <1>1, <1>2, GateHolds, PTL DEF Spec

(***************************************************************************)
(* The plugin host: the registry, its switch and the operations.           *)
(***************************************************************************)

\* A generation, or none.
GenOrNone == Gens \cup {0}
\* What the registry may be.
RegState == [active : [Plugins -> GenOrNone], pending : [Plugins -> GenOrNone],
             staged : [Plugins -> GenOrNone], disabling : SUBSET Plugins]
\* What a worker may be.
WorkerState == {"closed", "launching", "up", "closing"}
\* The slots of the operations.
OpNames == Chained \cup CallSlots
\* What the continuation of a handler may be.
NextState == {"unused", "open", "ok", "error", "invalid"}
\* What an operation may be.
OpState == [kind : {"none", "intercept", "invoke"}, chain : Seq(Gens), at : Nat, next : Seq(NextState),
            core : {"no", "running", "done", "failed", "cancelled"}, view : BOOLEAN, cut : BOOLEAN,
            resuming : BOOLEAN, out : {"none", "ok", "running"}]
\* What the management operation may be.
ManagerState == [op : {"none", "load", "enable", "reload", "hot"}, todo : SUBSET Plugins,
                 cand : [Plugins -> GenOrNone]]

\* The kinds of the state of the plugin host.
PluginsAre ==
    /\ gens = [g \in Gens |-> gens[g]]
    /\ worker \in [Gens -> WorkerState]
    /\ manager \in ManagerState
    /\ ops \in [OpNames -> OpState]
    /\ closed \in {"no", "closing", "done"}
    /\ loaded \in BOOLEAN

\* What the registry holds was launched for the name it stands under; a plugin waits for its first
\* switch or for its next one.
RegSound(r) ==
    /\ r \in RegState
    /\ \A n \in Plugins :
        /\ r.active[n] # 0 => gens[r.active[n]] = n
        /\ r.pending[n] # 0 => gens[r.pending[n]] = n /\ r.active[n] # 0 /\ n \notin r.disabling
        /\ r.staged[n] # 0 => gens[r.staged[n]] = n /\ r.active[n] = 0

\* Operations all under the registry r, z being the parked generations: what one pinned is live still, and is
\* parked only while the call is about to restart it.
Pins(r, z, all) ==
    closed = "no" =>
        \A o \in OpNames : all[o].out = "running" =>
            \A i \in DOMAIN all[o].chain :
                /\ r.active[gens[all[o].chain[i]]] = all[o].chain[i] /\ gens[all[o].chain[i]] \in Plugins
                /\ all[o].chain[i] \in z => all[o].resuming = TRUE

\* Only a generation that is not resident is parked.
Parks(z) == \A g \in z : ~Plugin!Resident(g)

\* The names in gone were disabled: nothing of them waits, and what lives is on its way out.
Undone(r, gone) ==
    \A n \in gone : r.staged[n] = 0 /\ r.pending[n] = 0 /\ (r.active[n] # 0 => n \in r.disabling)

\* A call of a plugin that is being disabled shows no window.
Windows(r, all) ==
    \A o \in CallSlots : all[o].out = "running" /\ gens[all[o].chain[1]] \in r.disabling
            => all[o].view = FALSE

\* The registry refers to g.
Holds(r, g) == \E n \in Plugins : g \in {r.active[n], r.pending[n], r.staged[n]}
\* The management operation is launching g.
IsCandidate(m, g) == \E n \in Plugins : m.cand[n] = g

\* A call is restarting g.
Resumed(g, all) ==
    \E o \in CallSlots : all[o].out = "running" /\ all[o].resuming = TRUE /\ all[o].chain = <<g>>

\* A worker that is up is in the registry, is a candidate or is about to be retired, and the runtime is open;
\* one that is launching is a candidate or is being restarted by a call.
Workers(r, w, z, gone, m, all) ==
    \A g \in Gens :
        /\ w[g] = "up" => closed = "no" /\ (g \in gone \/ Holds(r, g) \/ IsCandidate(m, g))
        /\ w[g] = "launching" => \/ closed = "no" /\ IsCandidate(m, g)
                                 \/ g \in z /\ Resumed(g, all)

\* At most one candidate outside startup, launched for its name and never for a disabled one.
Managed(m, gone) ==
    /\ m.op = "none" => \A n \in Plugins : m.cand[n] = 0
    /\ m.op # "load" => \A n, k \in Plugins : m.cand[n] # 0 /\ m.cand[k] # 0 => n = k
    /\ \A n \in Plugins : m.cand[n] # 0 =>
           /\ gens[m.cand[n]] = n
           /\ m.op # "load" => closed = "no" /\ n \notin gone

\* The registry is empty and no operation runs.
NothingLives(r, z, gone, all) ==
    /\ r = [active |-> [n \in Plugins |-> 0], pending |-> [n \in Plugins |-> 0],
            staged |-> [n \in Plugins |-> 0], disabling |-> {}]
    /\ z = {} /\ gone = {} /\ \A o \in OpNames : all[o].out # "running"

\* Until startup has published, nothing lives; before it, nothing is launched.
Loading ==
    /\ manager.op = "load" \/ ~loaded => NothingLives(reg, idle, off, ops)
    /\ ~loaded => manager.op = "none" /\ \A g \in Gens : worker[g] = "closed"

\* Where an operation that runs stands: the frames above the deepest one wait in next(), the ones below it have
\* not begun, and an inner failure has reached the frame above it.
OpFits(op) ==
    op.out = "running" =>
        /\ Len(op.next) = Len(op.chain) /\ op.at >= 1 /\ op.at <= Len(op.chain) + 1
        /\ \A i \in 1..Len(op.chain) : (i < op.at => op.next[i] = "open") /\ (i > op.at
                => op.next[i] = "unused")
        /\ op.core = "running" <=> op.at > Len(op.chain)
        /\ op.core \in {"failed", "cancelled"} => op.next[op.at] = "error"
        /\ op.kind = "invoke" => Len(op.chain) = 1 /\ op.core = "no" /\ op.next[1] = "unused" 
        /\ op.kind # "none" /\ Len(op.chain) >= 1

\* Every operation fits, and only a call restarts a worker.
OpsFit ==
    \A o \in OpNames :
        /\ OpFits(ops[o])
        /\ ops[o].resuming = TRUE => ops[o].out = "running" /\ o \in CallSlots /\ Len(ops[o].chain) = 1
                                     /\ ops[o].kind = "invoke"

\* The inductive invariant of the plugin host.
PluginInv ==
    /\ PluginsAre /\ RegSound(reg) /\ Pins(reg, idle, ops) /\ Parks(idle) /\ Undone(reg, off)
            /\ off \subseteq Plugins
    /\ Windows(reg, ops) /\ Workers(reg, worker, idle, {}, manager, ops) /\ Managed(manager, off) /\ Loading
    /\ OpsFit

\* The live generations.
LEMMA LiveIs ==
  ASSUME NEW r \in RegState, NEW g
  PROVE  g \in Plugin!Live(r) <=> g # 0 /\ \E n \in Plugins : r.active[n] = g
  BY DEF RegState, Plugin!Live, Plugin!NoGen, Plugin!Range

\* The generations that wait.
LEMMA StagedIs ==
  ASSUME NEW r \in RegState, NEW g
  PROVE  g \in Plugin!Staged(r) <=> g # 0 /\ \E n \in Plugins : r.pending[n] = g \/ r.staged[n] = g
  BY DEF RegState, Plugin!Staged, Plugin!NoGen, Plugin!Range

\* The pinned generations.
LEMMA PinnedIs ==
  ASSUME NEW all, NEW g
  PROVE  g \in Plugin!PinnedBy(all) <=>
             \E o \in OpNames : all[o].out = "running" /\ \E i \in DOMAIN all[o].chain : all[o].chain[i] = g
  BY DEF Plugin!PinnedBy, Plugin!ToSet, Plugin!Ops, OpNames

\* What tearing down some workers does to each.
LEMMA ClosingIs ==
  ASSUME NEW w \in [Gens -> WorkerState], NEW gs
  PROVE  /\ Plugin!Closing(w, gs) \in [Gens -> WorkerState]
         /\ \A g \in Gens : /\ Plugin!Closing(w, gs)[g] = "up" <=> w[g] = "up" /\ g \notin gs
                            /\ Plugin!Closing(w, gs)[g] = "launching" <=> w[g] = "launching"
                            /\ w[g] = "closed" => Plugin!Closing(w, gs)[g] = "closed"
  BY DEF WorkerState, Plugin!Closing

\* The registry s is r after its switch, p being the pinned generations.
Switches(r, p, s) ==
    \A n \in Plugins :
        LET go == r.active[n] # 0 /\ r.active[n] \notin p /\ (n \in r.disabling \/ r.pending[n] # 0) IN
        /\ s.active[n] = IF r.staged[n] # 0 THEN r.staged[n]
                         ELSE IF ~go THEN r.active[n] ELSE IF n \in r.disabling THEN 0 ELSE r.pending[n]
        /\ s.pending[n] = IF go THEN 0 ELSE r.pending[n]
        /\ s.staged[n] = 0
        /\ n \in s.disabling <=> n \in r.disabling /\ ~go

\* Switched makes the switch.
LEMMA SwitchedIs ==
  ASSUME NEW r \in RegState, NEW p
  PROVE  Plugin!Switched(r, p) \in RegState /\ Switches(r, p, Plugin!Switched(r, p))
  <1> DEFINE go == Plugin!Eligible(r, p)
             s == Plugin!Switched(r, p)
             A == [n \in Plugins |->
                      IF r.staged[n] # 0 THEN r.staged[n] ELSE IF n \notin go THEN r.active[n]
                      ELSE IF n \in r.disabling THEN 0 ELSE r.pending[n]]
             P == [n \in Plugins |-> IF n \in go THEN 0 ELSE r.pending[n]]
             Z == [n \in Plugins |-> 0]
  <1>1. s = [active |-> A, pending |-> P, staged |-> Z, disabling |-> r.disabling \ go]
    BY DEF Plugin!Switched, Plugin!NoGen, Plugin!Absent
  <1>2. \A n \in Plugins : n \in go <=> r.active[n] # 0 /\ r.active[n] \notin p /\ (n \in r.disabling
          \/ r.pending[n] # 0)
    BY DEF Plugin!Eligible, Plugin!NoGen
  <1>3. /\ r.active \in [Plugins -> GenOrNone] /\ r.pending \in [Plugins -> GenOrNone]
        /\ r.staged \in [Plugins -> GenOrNone] /\ r.disabling \subseteq Plugins
    BY DEF RegState
  <1> HIDE DEF go, s
  <1>4. /\ A \in [Plugins -> GenOrNone] /\ P \in [Plugins -> GenOrNone] /\ Z \in [Plugins -> GenOrNone]
        /\ r.disabling \ go \subseteq Plugins
    BY <1>3 DEF GenOrNone
  <1>5. /\ \A n \in Plugins : A[n] = IF r.staged[n] # 0 THEN r.staged[n] ELSE IF n \notin go THEN r.active[n]
                                     ELSE IF n \in r.disabling THEN 0 ELSE r.pending[n]
        /\ \A n \in Plugins : P[n] = IF n \in go THEN 0 ELSE r.pending[n]
        /\ \A n \in Plugins : Z[n] = 0
    OBVIOUS
  <1> HIDE DEF A, P, Z
  <1>6. s.active = A /\ s.pending = P /\ s.staged = Z /\ s.disabling = r.disabling \ go
    BY <1>1
  <1>7. s \in RegState
    BY <1>1, <1>4 DEF RegState
  <1>8. Switches(r, p, s)
    BY <1>2, <1>5, <1>6 DEF Switches
  <1> QED BY <1>7, <1>8 DEF s

\* A switch keeps the registry sound.
LEMMA SwitchSound ==
  ASSUME NEW r, RegSound(r), NEW p, NEW s \in RegState, Switches(r, p, s)
  PROVE  RegSound(s)
  <1>1. ASSUME NEW n \in Plugins
        PROVE  /\ s.active[n] # 0 => gens[s.active[n]] = n
               /\ s.pending[n] # 0 => gens[s.pending[n]] = n /\ s.active[n] # 0 /\ n \notin s.disabling
               /\ s.staged[n] # 0 => gens[s.staged[n]] = n /\ s.active[n] = 0
    BY DEF Switches, RegSound
  <1> QED BY <1>1 DEF RegSound

\* A switch undoes no disable.
LEMMA SwitchUndone ==
  ASSUME NEW r, RegSound(r), NEW p, NEW s \in RegState, Switches(r, p, s), NEW gone \in SUBSET Plugins,
          Undone(r, gone)
  PROVE  Undone(s, gone)
  BY DEF Switches, Undone

\* What the registry held and holds no longer was live.
LEMMA SwitchHolds ==
  ASSUME NEW r, RegSound(r), NEW p, NEW s \in RegState, Switches(r, p, s), NEW g \in Gens, Holds(r, g)
  PROVE  Holds(s, g) \/ (g \in Plugin!Live(r) /\ g \notin Plugin!Live(s))
  <1>0. g # 0 /\ r \in RegState
    BY GateConstants DEF RegSound
  <1>1. PICK n \in Plugins : g \in {r.active[n], r.pending[n], r.staged[n]}
    BY DEF Holds
  <1>2. CASE r.active[n] = g
    BY <1>0, <1>2, LiveIs DEF Holds
  <1>3. CASE r.pending[n] = g
    <2>1. s.pending[n] = g \/ s.active[n] = g
      BY <1>0, <1>3 DEF Switches, RegSound
    <2> QED BY <2>1 DEF Holds
  <1>4. CASE r.staged[n] = g
    <2>1. s.active[n] = g
      BY <1>0, <1>4 DEF Switches
    <2> QED BY <2>1 DEF Holds
  <1> QED BY <1>1, <1>2, <1>3, <1>4

\* A switch replaces no pinned generation.
LEMMA SwitchPins ==
  ASSUME NEW r, RegSound(r), NEW p, NEW s \in RegState, Switches(r, p, s), NEW g \in p, g \in Gens,
         gens[g] \in Plugins, r.active[gens[g]] = g
  PROVE  s.active[gens[g]] = g
  BY GateConstants DEF Switches, RegSound

\* What _publish does with the registry r, the workers w, the parked generations z and the ones retired besides.
Settles(r, w, z, gone, p) ==
    LET s == Plugin!Switched(r, p)
        out == Plugin!Live(r) \ Plugin!Live(s)
        parked == {g \in Plugin!Live(s) \ Plugin!Live(r) : ~Plugin!Resident(g)}
    IN \/ reg' = r /\ worker' = Plugin!Closing(w, gone) /\ idle' = z
       \/ /\ closed = "no" /\ reg' = s
          /\ worker' = Plugin!Closing(w, gone \cup out \cup parked)
          /\ idle' = (z \cup parked) \ out

\* Whatever a running operation has in its chain is in p.
PinsAll(p, all) ==
    \A o \in OpNames : all[o].out = "running" => \A i \in DOMAIN all[o].chain : all[o].chain[i] \in p
            /\ all[o].chain[i] \in Gens

\* A switch, or none, keeps every part of the invariant.
LEMMA Settled ==
  ASSUME NEW r, NEW w \in [Gens -> WorkerState], NEW z, NEW gone, NEW p, NEW all,
          NEW given \in SUBSET Plugins, NEW m,
         Settles(r, w, z, gone, p), PinsAll(p, all),
         RegSound(r), Pins(r, z, all), Parks(z), Undone(r, given), Windows(r, all), Workers(r, w, z, gone, m,
                 all)
  PROVE  /\ worker' \in [Gens -> WorkerState]
         /\ RegSound(reg') /\ Pins(reg', idle', all) /\ Parks(idle') /\ Undone(reg', given) /\ Windows(reg',
                 all)
         /\ Workers(reg', worker', idle', {}, m, all)
  <1> DEFINE s == Plugin!Switched(r, p)
             out == Plugin!Live(r) \ Plugin!Live(s)
             parked == {g \in Plugin!Live(s) \ Plugin!Live(r) : ~Plugin!Resident(g)}
  <1>0. r \in RegState /\ s \in RegState /\ Switches(r, p, s)
    BY SwitchedIs DEF RegSound
  <1>1. CASE reg' = r /\ worker' = Plugin!Closing(w, gone) /\ idle' = z
    <2>1. /\ worker' \in [Gens -> WorkerState]
          /\ \A g \in Gens : /\ worker'[g] = "up" <=> w[g] = "up" /\ g \notin gone
                             /\ worker'[g] = "launching" <=> w[g] = "launching"
      BY <1>1, ClosingIs
    <2>2. Workers(reg', worker', idle', {}, m, all)
      BY <1>1, <2>1 DEF Workers
    <2> QED BY <1>1, <2>1, <2>2
  <1>2. CASE /\ closed = "no" /\ reg' = s
             /\ worker' = Plugin!Closing(w, gone \cup out \cup parked)
             /\ idle' = (z \cup parked) \ out
    <2> HIDE DEF s
    <2>1. /\ worker' \in [Gens -> WorkerState]
          /\ \A g \in Gens : /\ worker'[g] = "up" <=> w[g] = "up" /\ g \notin gone \cup out \cup parked
                             /\ worker'[g] = "launching" <=> w[g] = "launching"
      BY <1>2, ClosingIs
    <2>2. RegSound(s) /\ Undone(s, given)
      BY <1>0, SwitchSound, SwitchUndone
    <2>3. Windows(s, all)
      BY <1>0 DEF Switches, Windows, RegState
    <2>4. ASSUME NEW o \in OpNames, all[o].out = "running", NEW i \in DOMAIN all[o].chain
          PROVE  LET g == all[o].chain[i] IN
                 /\ s.active[gens[g]] = g /\ gens[g] \in Plugins /\ g \in Plugin!Live(r)
                         /\ g \in Plugin!Live(s)
                 /\ g \in z => all[o].resuming = TRUE
      <3> DEFINE g == all[o].chain[i]
      <3>1. r.active[gens[g]] = g /\ gens[g] \in Plugins /\ (g \in z => all[o].resuming = TRUE)
        BY <1>2, <2>4 DEF Pins
      <3>2. g \in p /\ g \in Gens /\ g # 0
        BY <2>4, GateConstants DEF PinsAll
      <3> HIDE DEF g
      <3>3. s.active[gens[g]] = g
        BY <1>0, <3>1, <3>2, SwitchPins
      <3>4. g \in Plugin!Live(r) /\ g \in Plugin!Live(s)
        BY SMTT(40), <1>0, <3>1, <3>2, <3>3, LiveIs
      <3> QED BY <3>1, <3>3, <3>4 DEF g
    <2>5. Pins(s, idle', all)
      BY ZenonT(60), <1>2, <2>4 DEF Pins
    <2>6. Parks(idle')
      BY <1>2 DEF Parks
    <2>7. ASSUME NEW g \in Gens, worker'[g] = "up" PROVE Holds(s, g) \/ IsCandidate(m, g)
      <3>1. w[g] = "up" /\ g \notin gone /\ g \notin out
        BY <2>1, <2>7
      <3>2. Holds(r, g) \/ IsCandidate(m, g)
        BY <3>1 DEF Workers
      <3> QED BY <1>0, <3>1, <3>2, SwitchHolds
    <2>8. ASSUME NEW g \in Gens, g \in z, Resumed(g, all) PROVE g \in idle'
      <3>1. PICK o \in CallSlots : all[o].out = "running" /\ all[o].resuming = TRUE /\ all[o].chain = <<g>>
        BY <2>8 DEF Resumed
      <3>2. o \in OpNames /\ 1 \in DOMAIN all[o].chain /\ all[o].chain[1] = g
        BY <3>1 DEF OpNames
      <3>3. g \in Plugin!Live(s)
        BY <2>4, <3>1, <3>2
      <3> QED BY <1>2, <2>8, <3>3
    <2>9. Workers(s, worker', idle', {}, m, all)
      BY <1>2, <2>1, <2>7, <2>8 DEF Workers
    <2> QED BY <1>2, <2>1, <2>2, <2>3, <2>5, <2>6, <2>9
  <1> QED BY <1>1, <1>2 DEF Settles

\* _publish settles.
LEMMA PublishSettles ==
  ASSUME NEW r, NEW w, NEW z, NEW gone, NEW p, Plugin!Publish(r, w, z, gone, p)
  PROVE  Settles(r, w, z, gone, p)
  BY DEF Plugin!Publish, Settles

\* The operations with these fields.
RecordOf(k, c, a_, n, d, v, u, e, x) ==
    [kind : {k}, chain : {c}, at : {a_}, next : {n}, core : {d}, view : {v}, cut : {u}, resuming : {e},
            out : {x}]

\* The fields of an operation.
IsOp(op, k, c, a_, n, d, v, u, e, x) ==
    /\ op.kind = k /\ op.chain = c /\ op.at = a_ /\ op.next = n /\ op.core = d /\ op.view = v /\ op.cut = u
    /\ op.resuming = e /\ op.out = x

\* An operation with these fields has these fields.
LEMMA RecordIs ==
  ASSUME NEW k, NEW c, NEW a_, NEW n, NEW d, NEW v, NEW u, NEW e, NEW x, NEW op \in RecordOf(k, c, a_, n, d,
          v, u, e, x)
  PROVE  IsOp(op, k, c, a_, n, d, v, u, e, x)
  BY DEF RecordOf, IsOp

\* An operation has its own fields.
LEMMA OpIsRecord ==
  ASSUME NEW op \in OpState
  PROVE  op \in RecordOf(op.kind, op.chain, op.at, op.next, op.core, op.view, op.cut, op.resuming, op.out)
  BY DEF OpState, RecordOf

\* The kinds of the fields of an operation.
LEMMA OpTyped ==
  ASSUME PluginsAre, NEW o \in OpNames
  PROVE  LET op == ops[o] IN
         /\ op \in OpState /\ op.kind \in {"none", "intercept", "invoke"} /\ op.chain \in Seq(Gens)
                 /\ op.at \in Nat
         /\ op.next \in Seq(NextState) /\ op.core \in {"no", "running", "done", "failed", "cancelled"}
         /\ op.view \in BOOLEAN /\ op.cut \in BOOLEAN /\ op.resuming \in BOOLEAN /\ op.out \in {"none", "ok",
                 "running"}
  BY DEF PluginsAre, OpState

\* Slot o now holds op.
OpBecomes(o, op) == ops' = [ops EXCEPT ![o] = op]

\* Only that slot moves.
LEMMA OpMoves ==
  ASSUME PluginsAre, NEW o \in OpNames, NEW op \in OpState, OpBecomes(o, op)
  PROVE  ops' \in [OpNames -> OpState] /\ ops'[o] = op /\ \A x \in OpNames : x # o => ops'[x] = ops[x]
  BY DEF PluginsAre, OpBecomes

\* Everything below the handlers of op succeeded.
OpHonest(op) == op.core \in {"no", "done"} /\ \A i \in DOMAIN op.next : op.next[i] \in {"unused", "ok"}

\* Operation op becomes q: it is over, honestly, or it keeps its pins and shows no new window.
OpKept(q, op) ==
    \/ q.out # "running" /\ q.resuming = FALSE /\ (op.out = "running" /\ q.out = "ok" => OpHonest(op))
    \/ /\ q.out = op.out /\ q.chain = op.chain /\ q.resuming = op.resuming /\ q.kind = op.kind
       /\ q.view = op.view \/ q.view = FALSE

\* Every operation is kept.
OpsKept == ops' \in [OpNames -> OpState] /\ \A o \in OpNames : OpKept(ops'[o], ops[o])

\* One place of a sequence changes.
LEMMA SeqSet ==
  ASSUME NEW S, NEW n \in Seq(S), NEW i \in 1..Len(n), NEW x \in S
  PROVE  LET q == [n EXCEPT ![i] = x] IN
         /\ q \in Seq(S) /\ Len(q) = Len(n) /\ q[i] = x /\ \A j \in 1..Len(n) : j # i => q[j] = n[j]
  OBVIOUS

\* One operation moves and fits.
LEMMA OneOpMoves ==
  ASSUME PluginsAre, OpsFit, NEW o \in OpNames, NEW op \in OpState, OpBecomes(o, op), OpKept(op, ops[o]),
          OpFits(op)
  PROVE  OpsKept /\ OpsFit'
  <1>1. ops' \in [OpNames -> OpState] /\ ops'[o] = op /\ \A x \in OpNames : x # o => ops'[x] = ops[x]
    BY OpMoves
  <1>2. OpsKept
    BY <1>1 DEF OpsKept, OpKept
  <1>3. \A x \in OpNames : OpFits(ops'[x])
    BY <1>1 DEF OpsFit
  <1>4. ASSUME NEW x \in OpNames, ops'[x].resuming = TRUE
        PROVE  ops'[x].out = "running" /\ x \in CallSlots /\ Len(ops'[x].chain) = 1 /\ ops'[x].kind = "invoke"
    BY <1>1, <1>4 DEF OpsFit, OpKept
  <1>5. OpsFit'
    BY ZenonT(60), <1>3, <1>4 DEF OpsFit, OpFits
  <1> QED BY <1>2, <1>5

\* An operation ends.
LEMMA EndedOps ==
  ASSUME PluginsAre, OpsFit, NEW o \in OpNames, NEW out, ops' = Plugin!Ended(o, out), out = "ok"
          => OpHonest(ops[o])
  PROVE  OpsKept /\ OpsFit'
  <1> DEFINE x == IF o \in Chained /\ out = "ok" THEN "ok" ELSE "none"
             op == [Plugin!NoOp EXCEPT !.out = x]
  <1>1. op \in RecordOf("none", <<>>, 0, <<>>, "no", FALSE, FALSE, FALSE, x)
    BY DEF Plugin!NoOp, RecordOf
  <1>2. OpBecomes(o, op)
    BY DEF OpBecomes, Plugin!Ended
  <1>3. x \in {"none", "ok"} /\ (x = "ok" => out = "ok")
    OBVIOUS
  <1> HIDE DEF op, x
  <1>4. op \in OpState
    <2>1. <<>> \in Seq(Gens) /\ <<>> \in Seq(NextState) /\ 0 \in Nat
      OBVIOUS
    <2> QED BY ONLY <1>1, <1>3, <2>1 DEF RecordOf, OpState
  <1>5. op.out = x /\ op.resuming = FALSE
    BY <1>1 DEF RecordOf
  <1>6. OpKept(op, ops[o]) /\ OpFits(op)
    BY <1>3, <1>5 DEF OpKept, OpFits
  <1> QED BY <1>2, <1>4, <1>6, OneOpMoves

\* A window is closed.
LEMMA ViewOps ==
  ASSUME PluginsAre, OpsFit, NEW o \in OpNames, ops' = [ops EXCEPT ![o].view = FALSE]
  PROVE  OpsKept /\ OpsFit'
  <1> DEFINE p == ops[o]
             op == [p EXCEPT !.view = FALSE]
  <1>1. p \in OpState /\ OpFits(p)
    BY OpTyped DEF OpsFit
  <1>2. OpBecomes(o, op)
    BY DEF OpBecomes, PluginsAre
  <1> HIDE DEF p
  <1>3. op \in RecordOf(p.kind, p.chain, p.at, p.next, p.core, FALSE, p.cut, p.resuming, p.out)
    BY ZenonT(60), <1>1, OpIsRecord DEF RecordOf
  <1>4. op \in OpState
    BY <1>1, <1>3 DEF RecordOf, OpState
  <1> HIDE DEF op
  <1>5. IsOp(op, p.kind, p.chain, p.at, p.next, p.core, FALSE, p.cut, p.resuming, p.out)
    BY <1>3, RecordIs
  <1>6. OpKept(op, p) /\ OpFits(op)
    BY <1>1, <1>5 DEF OpKept, OpFits, IsOp
  <1> QED BY <1>2, <1>4, <1>6, OneOpMoves DEF p

\* A handler calls next().
LEMMA HandlerNextOps ==
  ASSUME PluginsAre, OpsFit, NEW o \in OpNames, NEW valid \in BOOLEAN, Plugin!HandlerNext(o, valid)
  PROVE  OpsKept /\ OpsFit'
  <1> DEFINE p == ops[o]
             i == p.at
             c == p.chain
  <1>1. /\ p \in OpState /\ OpFits(p) /\ p.chain \in Seq(Gens) /\ p.at \in Nat /\ p.next \in Seq(NextState)
        /\ p.resuming \in BOOLEAN /\ p.view \in BOOLEAN /\ p.cut \in BOOLEAN
        /\ p.kind \in {"none", "intercept", "invoke"} /\ p.core \in {"no", "running", "done", "failed",
                "cancelled"}
    BY OpTyped DEF OpsFit
  <1>2. p.out = "running" /\ p.kind = "intercept" /\ i <= Len(c) /\ p.next[i] = "unused"
    BY <1>1 DEF Plugin!HandlerNext, Plugin!Steady, Plugin!Running, Plugin!InCore, Plugin!Deepest
  <1>3. i \in 1..Len(c) /\ Len(p.next) = Len(c)
    BY <1>1, <1>2 DEF OpFits
  <1>4. p.core \in {"no", "done"}
    BY <1>1, <1>2, <1>3 DEF OpFits
  <1>5. p \in RecordOf(p.kind, p.chain, p.at, p.next, p.core, p.view, p.cut, p.resuming, p.out)
    BY SMTT(40), <1>1, OpIsRecord
  <1>6. \/ \E x \in {"invalid", "error"} : ops' = [ops EXCEPT ![o].next[i] = x]
        \/ i = Len(c) /\ ops' = [ops EXCEPT ![o].next[i] = "open", ![o].at = i + 1, ![o].core = "running"]
        \/ i # Len(c) /\ ops' = [ops EXCEPT ![o].next[i] = "open", ![o].at = i + 1]
    BY DEF Plugin!HandlerNext, Plugin!Deepest
  <1>7. CASE \E x \in {"invalid", "error"} : ops' = [ops EXCEPT ![o].next[i] = x]
    <2>1. PICK x \in {"invalid", "error"} : ops' = [ops EXCEPT ![o].next[i] = x]
      BY <1>7
    <2> DEFINE q == [p.next EXCEPT ![i] = x]
               op == [p EXCEPT !.next = q]
    <2>2. OpBecomes(o, op)
      BY <2>1 DEF OpBecomes, PluginsAre
    <2>3. q \in Seq(NextState) /\ Len(q) = Len(p.next) /\ q[i] = x /\ \A j \in 1..Len(p.next) : j # i
            => q[j] = p.next[j]
      <3>1. x \in NextState
        BY DEF NextState
      <3> QED BY <1>1, <1>3, <3>1, SeqSet
    <2> HIDE DEF p, q, i, c
    <2>4. op \in RecordOf(p.kind, p.chain, p.at, q, p.core, p.view, p.cut, p.resuming, p.out)
      BY <1>5 DEF RecordOf
    <2> HIDE DEF op
    <2>5. op \in OpState
      BY <1>1, <1>2, <2>3, <2>4 DEF RecordOf, OpState
    <2>6. IsOp(op, p.kind, p.chain, p.at, q, p.core, p.view, p.cut, p.resuming, p.out)
      BY <2>4, RecordIs
    <2>7. OpFits(op)
      BY SMTT(40), <1>1, <1>2, <1>3, <1>4, <2>3, <2>6 DEF OpFits, IsOp, i, c
    <2>8. OpKept(op, p)
      BY <2>6 DEF OpKept, IsOp
    <2> QED BY <2>2, <2>5, <2>7, <2>8, OneOpMoves DEF p
  <1>8. CASE i = Len(c) /\ ops' = [ops EXCEPT ![o].next[i] = "open", ![o].at = i + 1, ![o].core = "running"]
    <2> DEFINE q == [p.next EXCEPT ![i] = "open"]
               op == [p EXCEPT !.next = q, !.at = i + 1, !.core = "running"]
    <2>2. OpBecomes(o, op)
      BY <1>8 DEF OpBecomes, PluginsAre
    <2>3. q \in Seq(NextState) /\ Len(q) = Len(p.next) /\ q[i] = "open" /\ \A j \in 1..Len(p.next) : j # i
            => q[j] = p.next[j]
      <3>1. "open" \in NextState
        BY DEF NextState
      <3> QED BY <1>1, <1>3, <3>1, SeqSet
    <2>a. i = p.at /\ c = p.chain /\ i + 1 \in Nat
      BY <1>1
    <2> HIDE DEF p, q, i, c
    <2>4. op \in RecordOf(p.kind, p.chain, i + 1, q, "running", p.view, p.cut, p.resuming, p.out)
      BY <1>5 DEF RecordOf
    <2> HIDE DEF op
    <2>5. op \in OpState
      BY <1>1, <1>2, <2>3, <2>4, <2>a DEF RecordOf, OpState
    <2>6. IsOp(op, p.kind, p.chain, i + 1, q, "running", p.view, p.cut, p.resuming, p.out)
      BY <2>4, RecordIs
    <2>7. OpFits(op)
      <3>1. /\ \A j \in 1..Len(c) : (j < i => p.next[j] = "open") /\ (j > i => p.next[j] = "unused")
            /\ p.kind = "intercept" /\ Len(c) \in Nat /\ i \in Nat
        BY ONLY <1>1, <1>2, <2>a DEF OpFits
      <3>2. \A j \in 1..Len(c) : (j < i + 1 => q[j] = "open") /\ (j > i + 1 => q[j] = "unused")
        BY ONLY <1>3, <2>3, <3>1
      <3>3. /\ op.kind = "intercept" /\ op.chain = c /\ op.at = i + 1 /\ op.next = q /\ Len(q) = Len(c)
            /\ op.core = "running" /\ i = Len(c)
        BY ONLY <1>2, <1>3, <1>4, <1>8, <2>3, <2>6, <2>a DEF IsOp
      <3> QED BY ONLY <1>3, <3>1, <3>2, <3>3 DEF OpFits
    <2>8. OpKept(op, p)
      BY <2>6 DEF OpKept, IsOp
    <2> QED BY <2>2, <2>5, <2>7, <2>8, OneOpMoves DEF p
  <1>9. CASE i # Len(c) /\ ops' = [ops EXCEPT ![o].next[i] = "open", ![o].at = i + 1]
    <2> DEFINE q == [p.next EXCEPT ![i] = "open"]
               op == [p EXCEPT !.next = q, !.at = i + 1]
    <2>2. OpBecomes(o, op)
      BY <1>9 DEF OpBecomes, PluginsAre
    <2>3. q \in Seq(NextState) /\ Len(q) = Len(p.next) /\ q[i] = "open" /\ \A j \in 1..Len(p.next) : j # i
            => q[j] = p.next[j]
      <3>1. "open" \in NextState
        BY DEF NextState
      <3> QED BY <1>1, <1>3, <3>1, SeqSet
    <2>a. i = p.at /\ c = p.chain /\ i + 1 \in Nat
      BY <1>1
    <2> HIDE DEF p, q, i, c
    <2>4. op \in RecordOf(p.kind, p.chain, i + 1, q, p.core, p.view, p.cut, p.resuming, p.out)
      BY <1>5 DEF RecordOf
    <2> HIDE DEF op
    <2>5. op \in OpState
      BY <1>1, <1>2, <2>3, <2>4, <2>a DEF RecordOf, OpState
    <2>6. IsOp(op, p.kind, p.chain, i + 1, q, p.core, p.view, p.cut, p.resuming, p.out)
      BY <2>4, RecordIs
    <2>7. OpFits(op)
      <3>1. /\ \A j \in 1..Len(c) : (j < i => p.next[j] = "open") /\ (j > i => p.next[j] = "unused")
            /\ p.kind = "intercept" /\ Len(c) \in Nat /\ i \in Nat
        BY ONLY <1>1, <1>2, <2>a DEF OpFits
      <3>2. \A j \in 1..Len(c) : (j < i + 1 => q[j] = "open") /\ (j > i + 1 => q[j] = "unused")
        BY ONLY <1>3, <2>3, <3>1
      <3>3. /\ op.kind = "intercept" /\ op.chain = c /\ op.at = i + 1 /\ op.next = q /\ Len(q) = Len(c)
            /\ op.core \in {"no", "done"} /\ i # Len(c)
        BY ONLY <1>2, <1>3, <1>4, <1>9, <2>3, <2>6, <2>a DEF IsOp
      <3> QED BY ONLY <1>3, <3>1, <3>2, <3>3 DEF OpFits
    <2>8. OpKept(op, p)
      BY <2>6 DEF OpKept, IsOp
    <2> QED BY <2>2, <2>5, <2>7, <2>8, OneOpMoves DEF p
  <1> QED BY <1>6, <1>7, <1>8, <1>9

\* The operation itself ends.
LEMMA CoreEndsOps ==
  ASSUME PluginsAre, OpsFit, NEW o \in OpNames, NEW ok \in BOOLEAN, Plugin!CoreEnds(o, ok)
  PROVE  OpsKept /\ OpsFit'
  <1> DEFINE p == ops[o]
             n == Len(p.chain)
             d == IF ok THEN "done" ELSE "failed"
             x == IF ok THEN "ok" ELSE "error"
             q == [p.next EXCEPT ![n] = x]
             op == [p EXCEPT !.core = d, !.next = q, !.at = n]
  <1>1. /\ p \in OpState /\ OpFits(p) /\ p.chain \in Seq(Gens) /\ p.at \in Nat /\ p.next \in Seq(NextState)
        /\ p.resuming \in BOOLEAN /\ p.view \in BOOLEAN /\ p.cut \in BOOLEAN
        /\ p.kind \in {"none", "intercept", "invoke"} /\ p.core \in {"no", "running", "done", "failed",
                "cancelled"}
    BY OpTyped DEF OpsFit
  <1>2. p.out = "running" /\ p.at > Len(p.chain)
    BY <1>1 DEF Plugin!CoreEnds, Plugin!Steady, Plugin!Running, Plugin!InCore
  <1>3. n \in 1..Len(p.next) /\ Len(p.next) = n /\ p.kind = "intercept" /\ n \in Nat /\ p.at = n + 1
    BY SMTT(40), <1>1, <1>2 DEF OpFits
  <1>4. OpBecomes(o, op)
    BY ZenonT(60) DEF Plugin!CoreEnds, OpBecomes, PluginsAre
  <1>5. x \in NextState /\ d \in {"done", "failed"} /\ (d = "failed" => x = "error")
    BY DEF NextState
  <1>6. q \in Seq(NextState) /\ Len(q) = Len(p.next) /\ q[n] = x /\ \A j \in 1..Len(p.next) : j # n
          => q[j] = p.next[j]
    BY <1>1, <1>3, <1>5, SeqSet
  <1>7. p \in RecordOf(p.kind, p.chain, p.at, p.next, p.core, p.view, p.cut, p.resuming, p.out)
    BY <1>1, OpIsRecord
  <1>8. n = Len(p.chain)
    OBVIOUS
  <1> HIDE DEF p, n, d, x, q
  <1>9. op \in RecordOf(p.kind, p.chain, n, q, d, p.view, p.cut, p.resuming, p.out)
    BY <1>7 DEF RecordOf
  <1> HIDE DEF op
  <1>10. op \in OpState
    BY <1>1, <1>2, <1>3, <1>5, <1>6, <1>9 DEF RecordOf, OpState
  <1>11. IsOp(op, p.kind, p.chain, n, q, d, p.view, p.cut, p.resuming, p.out)
    BY <1>9, RecordIs
  <1>12. OpFits(op)
    <2>1. \A j \in 1..n : j < n => p.next[j] = "open"
      BY ONLY <1>1, <1>2, <1>3, <1>8 DEF OpFits
    <2>2. \A j \in 1..n : (j < n => q[j] = "open") /\ (j > n => q[j] = "unused")
      BY ONLY <1>3, <1>6, <2>1
    <2>3. /\ op.kind = "intercept" /\ Len(op.chain) = n /\ op.at = n /\ op.next = q /\ Len(q) = n /\ q[n] = x
            /\ op.core = d
      BY ONLY <1>3, <1>6, <1>8, <1>11 DEF IsOp
    <2> QED BY ONLY <1>3, <1>5, <2>2, <2>3 DEF OpFits
  <1>13. OpKept(op, p)
    BY <1>11 DEF OpKept, IsOp
  <1> QED BY <1>4, <1>10, <1>12, <1>13, OneOpMoves DEF p

\* Interception.call: a handler is found to have succeeded only when everything below it did.
LEMMA HandlerVerdict ==
  ASSUME PluginsAre, OpsFit, NEW o \in OpNames, NEW i \in Nat, NEW how, ops[o].out = "running",
         i \in 1..ops[o].at, i <= Len(ops[o].chain)
  PROVE  LET p == ops[o]
             verdict == IF p.kind = "intercept" THEN Plugin!Verdict(how, p.next[i])
                        ELSE IF how = "answer" THEN "ok" ELSE "error"
         IN /\ verdict = "ok" => p.at = i /\ p.core \in {"no", "done"} /\ p.next[i] \in {"unused", "ok"}
            /\ verdict = "ok" /\ i = 1 => OpHonest(p)
  <1> DEFINE p == ops[o]
             verdict == IF p.kind = "intercept" THEN Plugin!Verdict(how, p.next[i])
                        ELSE IF how = "answer" THEN "ok" ELSE "error"
  <1>1. /\ OpFits(p) /\ p.chain \in Seq(Gens) /\ p.at \in Nat /\ p.next \in Seq(NextState)
        /\ p.kind \in {"none", "intercept", "invoke"} /\ p.core \in {"no", "running", "done", "failed",
                "cancelled"}
    BY OpTyped DEF OpsFit
  <1>2. i \in 1..Len(p.next) /\ Len(p.next) = Len(p.chain) /\ Len(p.chain) \in Nat
    BY <1>1 DEF OpFits
  <1>3. p.next[i] \in NextState
    BY <1>1, <1>2
  <1> SUFFICES ASSUME verdict = "ok"
      PROVE  /\ p.at = i /\ p.core \in {"no", "done"} /\ p.next[i] \in {"unused", "ok"}
             /\ i = 1 => OpHonest(p)
    OBVIOUS
  <1>4. CASE p.kind = "intercept"
    <2>1. p.next[i] \in {"unused", "ok"}
      BY <1>3, <1>4 DEF Plugin!Verdict, NextState
    <2> HIDE DEF verdict
    <2>2. p.at = i
      BY <1>1, <1>2, <2>1 DEF OpFits
    <2>3. p.core \in {"no", "done"}
      BY <1>1, <1>2, <2>1, <2>2 DEF OpFits
    <2>4. i = 1 => \A j \in 1..Len(p.next) : p.next[j] \in {"unused", "ok"}
      BY <1>1, <1>2, <2>1, <2>2 DEF OpFits
    <2> QED BY <1>1, <2>1, <2>2, <2>3, <2>4 DEF OpHonest
  <1>5. CASE p.kind = "invoke"
    <2>1. Len(p.chain) = 1 /\ p.core = "no" /\ p.next[1] = "unused" /\ i = 1 /\ p.at = 1 /\ Len(p.next) = 1
      BY <1>1, <1>2, <1>5 DEF OpFits
    <2>2. \A j \in DOMAIN p.next : j = 1
      BY <1>1, <2>1
    <2> QED BY <2>1, <2>2 DEF OpHonest
  <1> QED BY <1>1, <1>4, <1>5 DEF OpFits

\* Frame i of operation o ends with the result, and a frame is above it.
HandlerFrame(o, i, result) ==
    ops' = [ops EXCEPT ![o].at = i - 1, ![o].view = FALSE,
                ![o].next = [j \in DOMAIN @ |-> IF j = i - 1 THEN result ELSE IF j >= i THEN "unused" ELSE @[j]],
                ![o].core = IF @ = "running" THEN "cancelled" ELSE @]

\* An inner frame ends.
LEMMA FrameOps ==
  ASSUME PluginsAre, OpsFit, NEW o \in OpNames, NEW i \in Nat, NEW result \in {"ok", "error"},
          ops[o].out = "running",
         i \in 1..ops[o].at, i <= Len(ops[o].chain), i # 1, HandlerFrame(o, i, result),
         result = "ok" => ops[o].at = i /\ ops[o].core \in {"no", "done"}
  PROVE  OpsKept /\ OpsFit'
  <1> DEFINE p == ops[o]
             q == [j \in DOMAIN p.next |-> IF j = i - 1 THEN result ELSE IF j >= i THEN "unused" ELSE p.next[j]]
             d == IF p.core = "running" THEN "cancelled" ELSE p.core
             op == [p EXCEPT !.at = i - 1, !.view = FALSE, !.next = q, !.core = d]
  <1>1. /\ p \in OpState /\ OpFits(p) /\ p.chain \in Seq(Gens) /\ p.at \in Nat /\ p.next \in Seq(NextState)
        /\ p.resuming \in BOOLEAN /\ p.view \in BOOLEAN /\ p.cut \in BOOLEAN
        /\ p.kind \in {"none", "intercept", "invoke"} /\ p.core \in {"no", "running", "done", "failed",
                "cancelled"}
    BY OpTyped DEF OpsFit
  <1>2. /\ i - 1 \in 1..Len(p.next) /\ Len(p.next) = Len(p.chain) /\ Len(p.chain) \in Nat
          /\ p.kind = "intercept"
        /\ i - 1 \in Nat /\ i - 1 < p.at /\ i <= Len(p.chain)
    BY SMTT(40), <1>1 DEF OpFits
  <1>3. OpBecomes(o, op)
    BY DEF HandlerFrame, OpBecomes, PluginsAre
  <1>4. /\ q \in Seq(NextState) /\ Len(q) = Len(p.next) /\ q[i - 1] = result
        /\ \A j \in 1..Len(p.next) : q[j] = IF j = i - 1 THEN result ELSE IF j >= i THEN "unused" ELSE p.next[j]
    <2>1. DOMAIN p.next = 1..Len(p.next) /\ Len(p.next) \in Nat
      BY <1>1
    <2>2. \A j \in 1..Len(p.next) : p.next[j] \in NextState
      BY <1>1
    <2>3. q \in [1..Len(p.next) -> NextState]
      BY <2>1, <2>2 DEF NextState
    <2>4. q \in Seq(NextState) /\ Len(q) = Len(p.next)
      BY <2>1, <2>3
    <2> QED BY <1>2, <2>1, <2>4
  <1>5. d \in {"no", "done", "failed", "cancelled"} /\ (d \in {"failed", "cancelled"} => result = "error")
    BY <1>1
  <1>6. p \in RecordOf(p.kind, p.chain, p.at, p.next, p.core, p.view, p.cut, p.resuming, p.out)
    BY <1>1, OpIsRecord
  <1>7. \A j \in 1..Len(p.next) : j < i - 1 => p.next[j] = "open"
    BY SMTT(40), <1>1, <1>2 DEF OpFits
  <1>8. p.out = "running"
    OBVIOUS
  <1> HIDE DEF p, q, d
  <1>9. op \in RecordOf(p.kind, p.chain, i - 1, q, d, FALSE, p.cut, p.resuming, p.out)
    BY ZenonT(60), <1>6 DEF RecordOf
  <1> HIDE DEF op
  <1>10. op \in OpState
    BY ZenonT(60), <1>1, <1>2, <1>4, <1>5, <1>8, <1>9 DEF RecordOf, OpState
  <1>11. IsOp(op, p.kind, p.chain, i - 1, q, d, FALSE, p.cut, p.resuming, p.out)
    BY <1>9, RecordIs
  <1>12. OpFits(op)
    <2>1. \A j \in 1..Len(p.chain) : (j < i - 1 => q[j] = "open") /\ (j > i - 1 => q[j] = "unused")
      BY ONLY SMTT(40), i \in Nat, <1>2, <1>4, <1>7
    <2>2. /\ op.kind = "intercept" /\ op.chain = p.chain /\ op.at = i - 1 /\ op.next = q
            /\ Len(q) = Len(p.chain)
          /\ q[i - 1] = result /\ op.core = d
      BY ONLY <1>2, <1>4, <1>11 DEF IsOp
    <2> QED BY ONLY i \in Nat, <1>2, <1>5, <2>1, <2>2 DEF OpFits
  <1>13. OpKept(op, p)
    BY <1>11 DEF OpKept, IsOp
  <1> QED BY <1>3, <1>10, <1>12, <1>13, OneOpMoves DEF p

\* An operation whose window may have been closed and which may have been cut.
Redrawn(q, p) ==
    \E v \in {p.view, FALSE}, u \in BOOLEAN :
        q \in RecordOf(p.kind, p.chain, p.at, p.next, p.core, v, u, p.resuming, p.out)

\* Such an operation is kept.
LEMMA RedrawnOp ==
  ASSUME NEW p \in OpState, NEW q, Redrawn(q, p)
  PROVE  q \in OpState /\ OpKept(q, p) /\ (OpFits(p) => OpFits(q))
  <1>1. PICK v \in {p.view, FALSE}, u \in BOOLEAN :
            q \in RecordOf(p.kind, p.chain, p.at, p.next, p.core, v, u, p.resuming, p.out)
    BY DEF Redrawn
  <1>2. q \in OpState
    BY ZenonT(60), <1>1 DEF OpState, RecordOf
  <1>3. IsOp(q, p.kind, p.chain, p.at, p.next, p.core, v, u, p.resuming, p.out)
    BY <1>1, RecordIs
  <1> QED BY ZenonT(60), <1>1, <1>2, <1>3 DEF IsOp, OpKept, OpFits

\* Operations of which each is redrawn.
LEMMA RedrawnOps ==
  ASSUME PluginsAre, OpsFit, DOMAIN ops' = OpNames, ops' = [o \in OpNames |-> ops'[o]],
         \A o \in OpNames : Redrawn(ops'[o], ops[o])
  PROVE  OpsKept /\ OpsFit'
  <1>1. \A o \in OpNames : ops[o] \in OpState /\ OpFits(ops[o])
    BY OpTyped DEF OpsFit
  <1>2. \A o \in OpNames : ops'[o] \in OpState /\ OpKept(ops'[o], ops[o]) /\ OpFits(ops'[o])
    BY <1>1, RedrawnOp
  <1>3. OpsKept
    BY <1>2 DEF OpsKept
  <1>4. ASSUME NEW x \in OpNames, ops'[x].resuming = TRUE
        PROVE  ops'[x].out = "running" /\ x \in CallSlots /\ Len(ops'[x].chain) = 1 /\ ops'[x].kind = "invoke"
    BY <1>2, <1>4 DEF OpsFit, OpKept
  <1>5. OpsFit'
    BY ZenonT(60), <1>2, <1>4 DEF OpsFit, OpFits
  <1> QED BY <1>3, <1>5

\* dismiss: only windows of that plugin close.
LEMMA DismissedIs ==
  ASSUME PluginsAre, NEW n
  PROVE  /\ Plugin!Dismissed(n) = [o \in OpNames |-> Plugin!Dismissed(n)[o]]
         /\ \A o \in OpNames : LET p == ops[o] IN
                /\ Plugin!Dismissed(n)[o] \in RecordOf(p.kind, p.chain, p.at, p.next, p.core,
                       IF p.out = "running" /\ gens[p.chain[1]] = n THEN FALSE ELSE p.view, p.cut,
                               p.resuming, p.out)
  <1>1. Plugin!Dismissed(n) = [o \in OpNames |-> IF ops[o].out = "running" /\ gens[ops[o].chain[1]] = n
                                                 THEN [ops[o] EXCEPT !.view = FALSE] ELSE ops[o]]
    BY DEF Plugin!Dismissed, Plugin!Ops, OpNames, Plugin!Running
  <1>2. ASSUME NEW o \in OpNames
        PROVE  LET p == ops[o] IN
               Plugin!Dismissed(n)[o] \in RecordOf(p.kind, p.chain, p.at, p.next, p.core,
                       IF p.out = "running" /\ gens[p.chain[1]] = n THEN FALSE ELSE p.view, p.cut,
                               p.resuming, p.out)
    <2> DEFINE p == ops[o]
    <2>1. p \in RecordOf(p.kind, p.chain, p.at, p.next, p.core, p.view, p.cut, p.resuming, p.out)
      BY OpTyped, OpIsRecord
    <2>2. Plugin!Dismissed(n)[o] = IF p.out = "running"
            /\ gens[p.chain[1]] = n THEN [p EXCEPT !.view = FALSE] ELSE p
      BY <1>1
    <2> HIDE DEF p
    <2>3. [p EXCEPT !.view = FALSE] \in RecordOf(p.kind, p.chain, p.at, p.next, p.core, FALSE, p.cut,
            p.resuming, p.out)
      BY ONLY <2>1 DEF RecordOf
    <2> QED BY <2>1, <2>2, <2>3 DEF p
  <1> QED BY <1>1, <1>2

\* dismiss keeps every operation and leaves no window of the plugin.
LEMMA DismissedOps ==
  ASSUME PluginsAre, OpsFit, NEW n, ops' = Plugin!Dismissed(n)
  PROVE  /\ OpsKept /\ OpsFit'
         /\ \A o \in OpNames : ops'[o].out = "running" /\ gens[ops'[o].chain[1]] = n => ops'[o].view = FALSE
  <1>1. \A o \in OpNames : LET p == ops[o] IN ops'[o] \in RecordOf(p.kind, p.chain, p.at, p.next, p.core,
                       IF p.out = "running" /\ gens[p.chain[1]] = n THEN FALSE ELSE p.view, p.cut,
                               p.resuming, p.out)
    BY DismissedIs
  <1>2. DOMAIN ops' = OpNames /\ ops' = [o \in OpNames |-> ops'[o]]
    BY DismissedIs
  <1>3. ASSUME NEW o \in OpNames
        PROVE  /\ Redrawn(ops'[o], ops[o])
               /\ ops'[o].out = "running" /\ gens[ops'[o].chain[1]] = n => ops'[o].view = FALSE
    <2> DEFINE p == ops[o]
               v == IF p.out = "running" /\ gens[p.chain[1]] = n THEN FALSE ELSE p.view
    <2>1. ops'[o] \in RecordOf(p.kind, p.chain, p.at, p.next, p.core, v, p.cut, p.resuming, p.out)
      BY <1>1
    <2>2. IsOp(ops'[o], p.kind, p.chain, p.at, p.next, p.core, v, p.cut, p.resuming, p.out)
      BY <2>1, RecordIs
    <2>3. v \in {p.view, FALSE} /\ p.cut \in BOOLEAN
      BY OpTyped
    <2>4. Redrawn(ops'[o], p)
      BY <2>1, <2>3 DEF Redrawn
    <2> QED BY <2>2, <2>4 DEF IsOp
  <1> QED BY <1>2, <1>3, RedrawnOps

\* The operations after a disable of n: its windows closed, those that its interceptor is in cut.
Cut(n) ==
    LET intercepted(o) == /\ Plugin!Running(o) /\ ops[o].kind = "intercept"
                          /\ reg.active[n] \in Plugin!ToSet(ops[o].chain)
    IN [o \in Plugin!Ops |-> [Plugin!Dismissed(n)[o] EXCEPT !.cut = @ \/ intercepted(o)]]

\* That too keeps every operation and leaves no window of the plugin.
LEMMA CutOps ==
  ASSUME PluginsAre, OpsFit, NEW n, ops' = Cut(n)
  PROVE  /\ OpsKept /\ OpsFit'
         /\ \A o \in OpNames : ops'[o].out = "running" /\ gens[ops'[o].chain[1]] = n => ops'[o].view = FALSE
  <1> DEFINE intercepted(o) == /\ Plugin!Running(o) /\ ops[o].kind = "intercept"
                               /\ reg.active[n] \in Plugin!ToSet(ops[o].chain)
  <1>1. ops' = [o \in OpNames |-> [Plugin!Dismissed(n)[o] EXCEPT !.cut = @ \/ intercepted(o)]]
    BY DEF Cut, Plugin!Ops, OpNames
  <1>2. DOMAIN ops' = OpNames /\ ops' = [o \in OpNames |-> ops'[o]]
    BY <1>1
  <1>3. ASSUME NEW o \in OpNames
        PROVE  /\ Redrawn(ops'[o], ops[o])
               /\ ops'[o].out = "running" /\ gens[ops'[o].chain[1]] = n => ops'[o].view = FALSE
    <2> DEFINE p == ops[o]
               v == IF p.out = "running" /\ gens[p.chain[1]] = n THEN FALSE ELSE p.view
               u == p.cut \/ intercepted(o)
               d == Plugin!Dismissed(n)[o]
    <2>1. d \in RecordOf(p.kind, p.chain, p.at, p.next, p.core, v, p.cut, p.resuming, p.out)
      BY DismissedIs
    <2>2. d.cut = p.cut
      BY <2>1 DEF RecordOf
    <2>3. ops'[o] = [d EXCEPT !.cut = u]
      BY <1>1, <2>2
    <2>4. v \in {p.view, FALSE} /\ u \in BOOLEAN
      BY OpTyped
    <2> HIDE DEF v, u, d, p
    <2>5. [d EXCEPT !.cut = u] \in RecordOf(p.kind, p.chain, p.at, p.next, p.core, v, u, p.resuming, p.out)
      BY ONLY <2>1 DEF RecordOf
    <2>6. IsOp(ops'[o], p.kind, p.chain, p.at, p.next, p.core, v, u, p.resuming, p.out)
      BY <2>3, <2>5, RecordIs
    <2>7. Redrawn(ops'[o], p)
      BY <2>3, <2>4, <2>5 DEF Redrawn
    <2> QED BY <2>6, <2>7 DEF IsOp, v, p
  <1> QED BY <1>2, <1>3, RedrawnOps

\* The pinned generations are the ones in chains that run.
LEMMA PinnedAll ==
  ASSUME NEW all \in [OpNames -> OpState]
  PROVE  PinsAll(Plugin!PinnedBy(all), all)
  <1>1. ASSUME NEW o \in OpNames, all[o].out = "running", NEW i \in DOMAIN all[o].chain
        PROVE  all[o].chain[i] \in Plugin!PinnedBy(all) /\ all[o].chain[i] \in Gens
    <2>1. all[o].chain \in Seq(Gens)
      BY DEF OpState
    <2>2. all[o].chain[i] \in Gens
      BY <1>1, <2>1
    <2> QED BY <1>1, <2>2, PinnedIs
  <1> QED BY <1>1 DEF PinsAll

\* Operations that are kept keep what they pinned.
LEMMA PinsKept ==
  ASSUME OpsKept, NEW r, NEW z, NEW y, Pins(r, z, ops), y \subseteq z
  PROVE  Pins(r, y, ops')
  <1>1. ASSUME closed = "no", NEW o \in OpNames, ops'[o].out = "running", NEW i \in DOMAIN ops'[o].chain
        PROVE  /\ r.active[gens[ops'[o].chain[i]]] = ops'[o].chain[i] /\ gens[ops'[o].chain[i]] \in Plugins
               /\ ops'[o].chain[i] \in y => ops'[o].resuming = TRUE
    <2>1. ops[o].out = "running" /\ ops'[o].chain = ops[o].chain /\ ops'[o].resuming = ops[o].resuming
      BY <1>1 DEF OpsKept, OpKept
    <2> QED BY <1>1, <2>1 DEF Pins
  <1> QED BY <1>1 DEF Pins

\* Operations that are kept show no new window.
LEMMA WindowsKept ==
  ASSUME OpsKept, NEW r, Windows(r, ops)
  PROVE  Windows(r, ops')
  <1>1. ASSUME NEW o \in CallSlots, ops'[o].out = "running", gens[ops'[o].chain[1]] \in r.disabling
        PROVE  ops'[o].view = FALSE
    <2>1. o \in OpNames
      BY DEF OpNames
    <2>2. ops[o].out = "running" /\ ops'[o].chain = ops[o].chain /\ (ops'[o].view = ops[o].view
            \/ ops'[o].view = FALSE)
      BY <1>1, <2>1 DEF OpsKept, OpKept
    <2> QED BY <1>1, <2>2 DEF Windows
  <1> QED BY <1>1 DEF Windows

\* No call that restarts a worker ends in this step.
RestartsGoOn == \A o \in CallSlots : ops[o].resuming = TRUE => ops'[o].out = ops[o].out

\* A worker that a call restarts is still restarted.
LEMMA ResumedKept ==
  ASSUME OpsKept, RestartsGoOn, NEW g, Resumed(g, ops)
  PROVE  Resumed(g, ops')
  <1>1. PICK o \in CallSlots : ops[o].out = "running" /\ ops[o].resuming = TRUE /\ ops[o].chain = <<g>>
    BY DEF Resumed
  <1>2. o \in OpNames /\ ops'[o].out = "running"
    BY <1>1 DEF OpNames, RestartsGoOn
  <1>3. ops'[o].resuming = TRUE /\ ops'[o].chain = <<g>>
    BY <1>1, <1>2 DEF OpsKept, OpKept
  <1> QED BY <1>2, <1>3 DEF Resumed

\* Operations that are kept do not start.
LEMMA NothingStarts ==
  ASSUME OpsKept, \A o \in OpNames : ops[o].out # "running"
  PROVE  \A o \in OpNames : ops'[o].out # "running"
  BY DEF OpsKept, OpKept

\* Workers stay accounted for when the restarts do.
LEMMA WorkersKept ==
  ASSUME NEW r, NEW w, NEW z, NEW gone, NEW m, NEW all, NEW new,
         Workers(r, w, z, gone, m, all), \A g \in Gens : g \in z /\ Resumed(g, all) => Resumed(g, new)
  PROVE  Workers(r, w, z, gone, m, new)
  BY DEF Workers

\* The names of the generations, the state of the runtime and of startup do not move.
Still == UNCHANGED <<kind, gens, closed, loaded>>

\* The parts of the invariant, put together after a step.
LEMMA Holding ==
  ASSUME Still, PluginsAre, worker' \in [Gens -> WorkerState], manager' \in ManagerState,
          ops' \in [OpNames -> OpState],
         RegSound(reg'), Pins(reg', idle', ops'), Parks(idle'), Undone(reg', off'), off' \subseteq Plugins,
         Windows(reg', ops'), Workers(reg', worker', idle', {}, manager', ops'), Managed(manager', off'),
         manager'.op = "load" \/ ~loaded => NothingLives(reg', idle', off', ops'),
         ~loaded => manager'.op = "none" /\ \A g \in Gens : worker'[g] = "closed",
         OpsFit'
  PROVE  PluginInv'
  <1>1. PluginsAre'
    BY DEF Still, PluginsAre
  <1>2. RegSound(reg)' /\ Pins(reg, idle, ops)' /\ Undone(reg, off)' /\ Windows(reg, ops)'
    BY DEF Still, RegSound, Pins, Undone, Windows
  <1>3. Parks(idle)'
    BY DEF Still, Parks, Plugin!Resident
  <1>4. Workers(reg, worker, idle, {}, manager, ops)'
    BY DEF Still, Workers, Holds, IsCandidate, Resumed
  <1>5. Managed(manager, off)'
    BY DEF Still, Managed
  <1>6. Loading'
    BY DEF Still, Loading, NothingLives
  <1> QED BY <1>1, <1>2, <1>3, <1>4, <1>5, <1>6 DEF PluginInv

\* A step that settles the registry keeps the invariant.
LEMMA SettleKeeps ==
  ASSUME PluginInv, Still, NEW r, NEW w \in [Gens -> WorkerState], NEW z, NEW gone, NEW p,
         Settles(r, w, z, gone, p), PinsAll(p, ops'), ops' \in [OpNames -> OpState], OpsFit',
         RegSound(r), Pins(r, z, ops'), Parks(z), Undone(r, off'), off' \subseteq Plugins, Windows(r, ops'),
         Workers(r, w, z, gone, manager', ops'), manager' \in ManagerState, Managed(manager', off'),
         loaded, manager'.op # "load"
  PROVE  PluginInv'
  <1>1. /\ worker' \in [Gens -> WorkerState]
        /\ RegSound(reg') /\ Pins(reg', idle', ops') /\ Parks(idle') /\ Undone(reg', off') /\ Windows(reg',
                ops')
        /\ Workers(reg', worker', idle', {}, manager', ops')
    BY Settled
  <1> QED BY <1>1, Holding DEF PluginInv

(***************************************************************************)
(* The steps of an operation.                                              *)
(***************************************************************************)

\* Only the operations move.
OthersRest == UNCHANGED <<kind, gens, worker, reg, idle, manager, closed, loaded, off>>

\* A step of the operations alone keeps the invariant.
LEMMA OpsMove ==
  ASSUME PluginInv, OthersRest, ops' \in [OpNames -> OpState], OpsFit', Pins(reg, idle, ops'), Windows(reg,
          ops'),
         \A g \in Gens : g \in idle /\ Resumed(g, ops) => Resumed(g, ops'),
         manager.op = "load" \/ ~loaded => \A o \in OpNames : ops'[o].out # "running"
  PROVE  PluginInv'
  <1>1. Workers(reg, worker, idle, {}, manager, ops')
    BY WorkersKept DEF PluginInv
  <1>2. manager.op = "load" \/ ~loaded => NothingLives(reg, idle, off, ops')
    BY DEF PluginInv, Loading, NothingLives
  <1>3. manager \in ManagerState /\ worker \in [Gens -> WorkerState]
    BY DEF PluginInv, PluginsAre
  <1> QED BY <1>1, <1>2, <1>3, Holding DEF PluginInv, OthersRest, Still, Loading

\* A step that keeps every operation and ends no restart.
LEMMA OpsKeep ==
  ASSUME PluginInv, OthersRest, OpsKept, RestartsGoOn, OpsFit'
  PROVE  PluginInv'
  <1>1. ops' \in [OpNames -> OpState]
    BY DEF OpsKept
  <1>2. Pins(reg, idle, ops') /\ Windows(reg, ops')
    BY PinsKept, WindowsKept DEF PluginInv
  <1>3. \A g \in Gens : Resumed(g, ops) => Resumed(g, ops')
    BY ResumedKept
  <1>4. manager.op = "load" \/ ~loaded => \A o \in OpNames : ops'[o].out # "running"
    BY NothingStarts DEF PluginInv, Loading, NothingLives
  <1> QED BY <1>1, <1>2, <1>3, <1>4, OpsMove

\* A step of an operation that is not a restart.
LEMMA InterceptsGoOn ==
  ASSUME PluginInv, NEW o \in OpNames, ops[o].resuming = FALSE, \A x \in OpNames : x # o => ops'[x] = ops[x]
  PROVE  RestartsGoOn
  BY DEF RestartsGoOn, OpNames

\* A handler calls next().
LEMMA HandlerNextKeeps ==
  ASSUME PluginInv, NEW o \in OpNames, NEW valid \in BOOLEAN, Plugin!HandlerNext(o, valid)
  PROVE  OpsKept /\ PluginInv'
  <1>1. PluginsAre /\ OpsFit /\ OthersRest
    BY DEF PluginInv, Plugin!HandlerNext, Plugin!registry, OthersRest
  <1>2. OpsKept /\ OpsFit'
    BY <1>1, HandlerNextOps
  <1>3. ops[o].kind = "intercept" /\ ops[o].resuming \in BOOLEAN
    BY <1>1, OpTyped DEF Plugin!HandlerNext
  <1>4. ops[o].resuming = FALSE
    BY <1>1, <1>3 DEF OpsFit
  <1>5. \A x \in OpNames : x # o => ops'[x] = ops[x]
    BY <1>1 DEF Plugin!HandlerNext, PluginsAre
  <1> QED BY <1>1, <1>2, <1>4, <1>5, InterceptsGoOn, OpsKeep

\* The operation itself ends.
LEMMA CoreEndsKeeps ==
  ASSUME PluginInv, NEW o \in OpNames, NEW ok \in BOOLEAN, Plugin!CoreEnds(o, ok)
  PROVE  OpsKept /\ PluginInv'
  <1>1. PluginsAre /\ OpsFit /\ OthersRest
    BY DEF PluginInv, Plugin!CoreEnds, Plugin!registry, OthersRest
  <1>2. OpsKept /\ OpsFit'
    BY <1>1, CoreEndsOps
  <1>3. ops[o].out = "running" /\ ops[o].at > Len(ops[o].chain) /\ ops[o].resuming \in BOOLEAN
    BY <1>1, OpTyped DEF Plugin!CoreEnds, Plugin!Steady, Plugin!Running, Plugin!InCore
  <1>4. ops[o].resuming = FALSE
    <2>1. ops[o].core = "running"
      BY <1>1, <1>3 DEF OpsFit, OpFits
    <2> QED BY <1>1, <1>3, <2>1 DEF OpsFit, OpFits
  <1>5. \A x \in OpNames : x # o => ops'[x] = ops[x]
    BY <1>1 DEF Plugin!CoreEnds, PluginsAre
  <1> QED BY <1>1, <1>2, <1>4, <1>5, InterceptsGoOn, OpsKeep

\* A person closes a window.
LEMMA CloseViewKeeps ==
  ASSUME PluginInv, NEW o \in OpNames, Plugin!CloseView(o)
  PROVE  OpsKept /\ PluginInv'
  <1>1. PluginsAre /\ OpsFit /\ OthersRest
    BY DEF PluginInv, Plugin!CloseView, Plugin!registry, OthersRest
  <1>2. OpsKept /\ OpsFit'
    BY <1>1, ViewOps DEF Plugin!CloseView
  <1>3. RestartsGoOn
    BY <1>1 DEF Plugin!CloseView, PluginsAre, OpState, RestartsGoOn, OpNames
  <1> QED BY <1>1, <1>2, <1>3, OpsKeep

\* ShowView: no window opens while the plugin is being disabled.
LEMMA ShowViewKeeps ==
  ASSUME PluginInv, NEW o \in CallSlots, Plugin!ShowView(o)
  PROVE  /\ PluginInv'
         /\ \A x \in OpNames : ops'[x].out = ops[x].out
  <1>1. PluginsAre /\ OpsFit /\ OthersRest /\ o \in OpNames
    BY DEF PluginInv, Plugin!ShowView, Plugin!registry, OthersRest, OpNames
  <1> DEFINE p == ops[o]
             op == [p EXCEPT !.view = TRUE]
  <1>2. p \in OpState /\ OpFits(p)
    BY <1>1, OpTyped DEF OpsFit
  <1>3. OpBecomes(o, op) /\ p.out = "running" /\ gens[p.chain[1]] \notin reg.disabling
    BY <1>1 DEF Plugin!ShowView, Plugin!Steady, Plugin!Running, OpBecomes, PluginsAre
  <1>4. op \in RecordOf(p.kind, p.chain, p.at, p.next, p.core, TRUE, p.cut, p.resuming, p.out)
    <2>1. p \in RecordOf(p.kind, p.chain, p.at, p.next, p.core, p.view, p.cut, p.resuming, p.out)
      BY <1>2, OpIsRecord
    <2> HIDE DEF p
    <2> QED BY <2>1 DEF RecordOf
  <1>5. p = ops[o]
    OBVIOUS
  <1> HIDE DEF p, op
  <1>6. op \in OpState
    BY <1>2, <1>4 DEF RecordOf, OpState
  <1>7. IsOp(op, p.kind, p.chain, p.at, p.next, p.core, TRUE, p.cut, p.resuming, p.out)
    BY <1>4, RecordIs
  <1>8. OpFits(op) /\ op.out = p.out /\ op.chain = p.chain /\ op.resuming = p.resuming /\ op.kind = p.kind
    BY <1>2, <1>7 DEF OpFits, IsOp
  <1>9. ops' \in [OpNames -> OpState] /\ ops'[o] = op /\ \A x \in OpNames : x # o => ops'[x] = ops[x]
    BY <1>1, <1>3, <1>6, OpMoves
  <1>10. \A x \in OpNames : /\ ops'[x].out = ops[x].out /\ ops'[x].chain = ops[x].chain
                            /\ ops'[x].resuming = ops[x].resuming /\ ops'[x].kind = ops[x].kind
    BY <1>5, <1>8, <1>9
  <1>11. OpsFit'
    <2>1. \A x \in OpNames : OpFits(ops'[x])
      BY <1>1, <1>8, <1>9 DEF OpsFit
    <2>2. \A x \in OpNames : ops'[x].resuming = TRUE => /\ ops'[x].out = "running" /\ x \in CallSlots
                                                       /\ Len(ops'[x].chain) = 1 /\ ops'[x].kind = "invoke"
      BY <1>1, <1>10 DEF OpsFit
    <2> QED BY <2>1, <2>2 DEF OpsFit, OpFits
  <1>12. Pins(reg, idle, ops')
    BY <1>10 DEF PluginInv, Pins
  <1>13. Windows(reg, ops')
    <2>1. ASSUME NEW x \in CallSlots, ops'[x].out = "running", gens[ops'[x].chain[1]] \in reg.disabling
          PROVE  ops'[x].view = FALSE
      <3>1. x \in OpNames
        BY DEF OpNames
      <3>2. x # o
        BY <1>3, <1>8, <1>9, <2>1
      <3> QED BY <1>9, <2>1, <3>1, <3>2 DEF PluginInv, Windows
    <2> QED BY <2>1 DEF Windows
  <1>14. \A g \in Gens : Resumed(g, ops) => Resumed(g, ops')
    BY <1>10 DEF Resumed, OpNames
  <1>15. manager.op = "load" \/ ~loaded => \A x \in OpNames : ops'[x].out # "running"
    BY <1>10 DEF PluginInv, Loading, NothingLives
  <1> QED BY <1>1, <1>9, <1>10, <1>11, <1>12, <1>13, <1>14, <1>15, OpsMove

\* An operation that may run under the registry as it is.
OpJoins(o, op) ==
    /\ OpFits(op)
    /\ op.resuming = TRUE => op.out = "running" /\ o \in CallSlots /\ Len(op.chain) = 1 /\ op.kind = "invoke"
    /\ op.out = "running" /\ gens[op.chain[1]] \in reg.disabling => op.view = FALSE
    /\ closed = "no" => \A i \in DOMAIN op.chain :
           /\ reg.active[gens[op.chain[i]]] = op.chain[i] /\ gens[op.chain[i]] \in Plugins
           /\ op.chain[i] \in idle => op.resuming = TRUE

\* Such an operation joins.
LEMMA JoinKeeps ==
  ASSUME PluginInv, OthersRest, NEW o \in OpNames, NEW op \in OpState, OpBecomes(o, op), OpJoins(o, op),
         ops[o].resuming = TRUE => ops[o].chain[1] \notin idle, manager.op # "load", loaded
  PROVE  PluginInv'
  <1>1. PluginsAre /\ OpsFit
    BY DEF PluginInv
  <1>2. ops' \in [OpNames -> OpState] /\ ops'[o] = op /\ \A x \in OpNames : x # o => ops'[x] = ops[x]
    BY <1>1, OpMoves
  <1>3. OpsFit'
    <2>1. \A x \in OpNames : OpFits(ops'[x])
      BY <1>1, <1>2 DEF OpsFit, OpJoins
    <2>2. \A x \in OpNames : ops'[x].resuming = TRUE => /\ ops'[x].out = "running" /\ x \in CallSlots
                                                       /\ Len(ops'[x].chain) = 1 /\ ops'[x].kind = "invoke"
      BY <1>1, <1>2 DEF OpsFit, OpJoins
    <2> QED BY <2>1, <2>2 DEF OpsFit, OpFits
  <1>4. Pins(reg, idle, ops')
    <2>1. ASSUME closed = "no", NEW x \in OpNames, ops'[x].out = "running", NEW i \in DOMAIN ops'[x].chain
          PROVE  /\ reg.active[gens[ops'[x].chain[i]]] = ops'[x].chain[i]
                    /\ gens[ops'[x].chain[i]] \in Plugins
                 /\ ops'[x].chain[i] \in idle => ops'[x].resuming = TRUE
      <3>1. CASE x = o
        BY <1>2, <2>1, <3>1 DEF OpJoins
      <3>2. CASE x # o
        BY <1>2, <2>1, <3>2 DEF PluginInv, Pins
      <3> QED BY <3>1, <3>2
    <2> QED BY <2>1 DEF Pins
  <1>5. Windows(reg, ops')
    <2>1. ASSUME NEW x \in CallSlots, ops'[x].out = "running", gens[ops'[x].chain[1]] \in reg.disabling
          PROVE  ops'[x].view = FALSE
      <3>1. x \in OpNames
        BY DEF OpNames
      <3> QED BY <1>2, <2>1, <3>1 DEF PluginInv, Windows, OpJoins
    <2> QED BY <2>1 DEF Windows
  <1>6. ASSUME NEW g \in Gens, g \in idle, Resumed(g, ops) PROVE Resumed(g, ops')
    <2>1. PICK x \in CallSlots : ops[x].out = "running" /\ ops[x].resuming = TRUE /\ ops[x].chain = <<g>>
      BY <1>6 DEF Resumed
    <2>2. x \in OpNames /\ x # o
      BY <1>6, <2>1 DEF OpNames
    <2> QED BY <1>2, <2>1, <2>2 DEF Resumed
  <1> QED BY <1>2, <1>3, <1>4, <1>5, <1>6, OpsMove

\* A live generation is in the registry under its name, and startup is over.
LEMMA Live ==
  ASSUME PluginInv, NEW g \in Plugin!Live(reg)
  PROVE  /\ g \in Gens /\ reg.active[gens[g]] = g /\ gens[g] \in Plugins
         /\ manager.op # "load" /\ loaded = TRUE
  <1>1. reg \in RegState /\ RegSound(reg)
    BY DEF PluginInv, RegSound
  <1>2. PICK n \in Plugins : reg.active[n] = g /\ g # 0
    BY <1>1, LiveIs
  <1>3. g \in Gens /\ gens[g] = n
    BY <1>1, <1>2 DEF RegState, RegSound, GenOrNone
  <1>4. ASSUME manager.op = "load" \/ ~loaded PROVE FALSE
    <2>1. reg.active = [k \in Plugins |-> 0]
      BY <1>4 DEF PluginInv, Loading, NothingLives
    <2> QED BY <1>2, <2>1
  <1> QED BY <1>2, <1>3, <1>4 DEF PluginInv, PluginsAre

\* Interception.chain: an operation pins live, resident generations.
LEMMA InterceptKeeps ==
  ASSUME PluginInv, NEW o \in OpNames, Plugin!Intercept(o)
  PROVE  PluginInv'
  <1>1. PluginsAre /\ OpsFit /\ OthersRest /\ ops[o].out # "running" /\ ops[o].resuming # TRUE
    BY DEF PluginInv, Plugin!Intercept, Plugin!registry, OthersRest, Plugin!Running, OpsFit
  <1> DEFINE links == {g \in Plugin!Live(reg) : Plugin!Resident(g) /\ gens[g] \notin reg.disabling}
             op(c) == [Plugin!NoOp EXCEPT !.kind = "intercept", !.chain = c, !.at = 1,
                                    !.next = [i \in DOMAIN c |-> "unused"], !.out = "running"]
  <1>2. PICK c \in Plugin!SeqOf(links, Len(Order)) : c # <<>> /\ ops' = [ops EXCEPT ![o] = op(c)]
    BY DEF Plugin!Intercept, Plugin!Chains
  <1>3. PICK m \in 0..Len(Order) : c \in [1..m -> links]
    BY DEF Plugin!SeqOf
  <1>4. m \in Nat /\ m # 0
    BY <1>2, <1>3
  <1> DEFINE q == [i \in DOMAIN c |-> "unused"]
  <1>5. /\ c \in Seq(Gens) /\ Len(c) = m /\ q \in Seq(NextState) /\ Len(q) = m
        /\ \A i \in 1..m : q[i] = "unused" /\ c[i] \in links
    <2>1. links \subseteq Gens
      BY Live
    <2>2. \A i \in 1..m : c[i] \in Gens
      BY <1>3, <2>1
    <2>3. c \in [1..m -> Gens]
      BY <1>3, <2>2
    <2>4. q \in [1..m -> NextState]
      BY <1>3 DEF NextState
    <2>5. DOMAIN c = 1..m
      BY <1>3
    <2>6. \A i \in 1..m : q[i] = "unused" /\ c[i] \in links
      BY <1>3, <2>5
    <2> HIDE DEF q, links
    <2> QED BY <1>4, <2>3, <2>4, <2>6
  <1>6. op(c) \in RecordOf("intercept", c, 1, q, "no", FALSE, FALSE, FALSE, "running")
    <2> HIDE DEF q, links
    <2> QED BY DEF Plugin!NoOp, RecordOf, q
  <1>7. OpBecomes(o, op(c))
    BY <1>2 DEF OpBecomes
  <1>8. \A i \in 1..m : /\ reg.active[gens[c[i]]] = c[i] /\ gens[c[i]] \in Plugins /\ c[i] \notin idle
                        /\ manager.op # "load" /\ loaded
    <2>1. \A i \in 1..m : c[i] \in Plugin!Live(reg) /\ Plugin!Resident(c[i])
      BY <1>5
    <2> HIDE DEF links
    <2>2. Parks(idle)
      BY DEF PluginInv
    <2> QED BY <2>1, <2>2, Live DEF Parks
  <1> HIDE DEF op, q, links
  <1>9. op(c) \in OpState
    <2>1. c \in Seq(Gens) /\ q \in Seq(NextState) /\ 1 \in Nat
      BY <1>5
    <2> QED BY ONLY <1>6, <2>1 DEF RecordOf, OpState
  <1>10. IsOp(op(c), "intercept", c, 1, q, "no", FALSE, FALSE, FALSE, "running")
    BY <1>6, RecordIs
  <1>11. OpFits(op(c))
    BY ONLY <1>4, <1>5, <1>10 DEF OpFits, IsOp
  <1>12. OpJoins(o, op(c))
    <2>1. DOMAIN c = 1..m
      BY <1>5
    <2> QED BY <1>8, <1>10, <1>11, <2>1 DEF OpJoins, IsOp
  <1>13. manager.op # "load" /\ loaded
    BY <1>4, <1>8
  <1> QED BY <1>1, <1>7, <1>9, <1>12, <1>13, JoinKeeps

\* invoke: a call pins the live generation, and restarts it if it is parked.
LEMMA InvokeKeeps ==
  ASSUME PluginInv, NEW o \in CallSlots, NEW n \in Plugins, Plugin!Invoke(o, n)
  PROVE  PluginInv'
  <1>1. PluginsAre /\ OpsFit /\ OthersRest /\ ops[o].out # "running" /\ ops[o].resuming # TRUE
          /\ o \in OpNames
    BY DEF PluginInv, Plugin!Invoke, Plugin!registry, OthersRest, Plugin!Running, OpsFit, OpNames
  <1> DEFINE g == reg.active[n]
             e == g \in idle
             op == [Plugin!NoOp EXCEPT !.kind = "invoke", !.chain = <<g>>, !.at = 1,
                                  !.next = <<"unused">>, !.out = "running", !.resuming = e]
  <1>2. g # 0 /\ n \notin reg.disabling /\ ops' = [ops EXCEPT ![o] = op]
    BY DEF Plugin!Invoke, Plugin!NoGen
  <1>3. reg \in RegState
    BY DEF PluginInv, RegSound
  <1>4. g \in Plugin!Live(reg)
    BY <1>2, <1>3, LiveIs
  <1>5. gens[g] = n /\ g \in Gens /\ reg.active[gens[g]] = g /\ manager.op # "load" /\ loaded
    BY <1>2, <1>4, Live DEF PluginInv, RegSound
  <1>6. op \in RecordOf("invoke", <<g>>, 1, <<"unused">>, "no", FALSE, FALSE, e, "running")
    <2> HIDE DEF g, e
    <2> QED BY DEF Plugin!NoOp, RecordOf
  <1>7. OpBecomes(o, op)
    BY <1>2 DEF OpBecomes
  <1>8. (e <=> g \in idle) /\ e \in BOOLEAN
    OBVIOUS
  <1> HIDE DEF op, g, e
  <1>9. op \in OpState
    <2>1. <<g>> \in Seq(Gens) /\ <<"unused">> \in Seq(NextState) /\ 1 \in Nat
      BY <1>5 DEF NextState
    <2> QED BY ONLY <1>6, <1>8, <2>1 DEF RecordOf, OpState
  <1>10. IsOp(op, "invoke", <<g>>, 1, <<"unused">>, "no", FALSE, FALSE, e, "running")
    BY <1>6, RecordIs
  <1>11. OpFits(op)
    BY ONLY <1>10 DEF OpFits, IsOp
  <1>12. OpJoins(o, op)
    BY <1>2, <1>5, <1>8, <1>10, <1>11 DEF OpJoins, IsOp
  <1> QED BY <1>1, <1>5, <1>7, <1>9, <1>12, JoinKeeps

\* What a running operation has pinned; startup is over.
LEMMA Pinned ==
  ASSUME PluginInv, NEW o \in OpNames, ops[o].out = "running"
  PROVE  /\ ops[o].chain[1] \in Gens /\ 1 \in DOMAIN ops[o].chain /\ ops[o].chain \in Seq(Gens)
         /\ manager.op # "load" /\ loaded = TRUE
         /\ ops[o].resuming = TRUE => o \in CallSlots /\ ops[o].chain = <<ops[o].chain[1]>>
  <1>1. ops[o].chain \in Seq(Gens)
    BY OpTyped DEF PluginInv
  <1>2. Len(ops[o].chain) >= 1
    BY DEF PluginInv, OpsFit, OpFits
  <1>3. ops[o].resuming = TRUE => o \in CallSlots /\ Len(ops[o].chain) = 1
    BY DEF PluginInv, OpsFit
  <1>4. manager.op # "load" /\ loaded
    BY DEF PluginInv, Loading, NothingLives
  <1>5. loaded \in BOOLEAN
    BY DEF PluginInv, PluginsAre
  <1>6. ops[o].resuming = TRUE => ops[o].chain = <<ops[o].chain[1]>>
    BY <1>1, <1>3
  <1> QED BY <1>1, <1>2, <1>3, <1>4, <1>5, <1>6

\* _resume: a call goes on, or launches the parked worker again.
LEMMA ResumeStartKeeps ==
  ASSUME PluginInv, NEW o \in OpNames, Plugin!ResumeStart(o)
  PROVE  /\ PluginInv'
         /\ \A x \in OpNames : ops'[x].out = ops[x].out
  <1> DEFINE p == ops[o]
             g == p.chain[1]
  <1>1. /\ p.out = "running" /\ p.resuming = TRUE /\ UNCHANGED <<kind, gens, reg, idle, manager, closed,
          loaded, off>>
        /\ PluginsAre /\ OpsFit
    <2>1. p.resuming \in BOOLEAN
      BY OpTyped DEF PluginInv
    <2> QED BY <2>1 DEF PluginInv, Plugin!ResumeStart, Plugin!Steady, Plugin!Running
  <1>2. g \in Gens /\ o \in CallSlots /\ p.chain = <<g>> /\ manager.op # "load" /\ loaded
    BY <1>1, Pinned
  <1>3. CASE g \notin idle
    <2> DEFINE op == [p EXCEPT !.resuming = FALSE]
    <2>1. OthersRest /\ OpBecomes(o, op)
      BY <1>1, <1>3 DEF Plugin!ResumeStart, OthersRest, OpBecomes, PluginsAre
    <2>2. p \in OpState /\ OpFits(p) /\ p = ops[o]
      BY <1>1, OpTyped DEF OpsFit
    <2>3. \A i \in DOMAIN p.chain : p.chain[i] = g
      BY <1>2
    <2> HIDE DEF p
    <2>4. op \in RecordOf(p.kind, p.chain, p.at, p.next, p.core, p.view, p.cut, FALSE, p.out)
      <3>1. p \in RecordOf(p.kind, p.chain, p.at, p.next, p.core, p.view, p.cut, p.resuming, p.out)
        BY <2>2, OpIsRecord
      <3> QED BY ONLY <3>1 DEF RecordOf
    <2>5. op \in OpState
      BY <2>2, <2>4 DEF RecordOf, OpState
    <2> HIDE DEF op
    <2>6. IsOp(op, p.kind, p.chain, p.at, p.next, p.core, p.view, p.cut, FALSE, p.out)
      BY <2>4, RecordIs
    <2>7. OpFits(op)
      BY <2>2, <2>6 DEF OpFits, IsOp
    <2>8. gens[p.chain[1]] \in reg.disabling => p.view = FALSE
      BY <1>1, <1>2, <2>2 DEF PluginInv, Windows
    <2>9. ASSUME closed = "no", NEW i \in DOMAIN p.chain
          PROVE  reg.active[gens[p.chain[i]]] = p.chain[i] /\ gens[p.chain[i]] \in Plugins
                  /\ p.chain[i] \notin idle
      BY <1>1, <1>3, <2>2, <2>3, <2>9 DEF PluginInv, Pins
    <2>10. OpJoins(o, op)
      BY <2>6, <2>7, <2>8, <2>9 DEF OpJoins, IsOp
    <2>11. PluginInv'
      BY <1>2, <1>3, <2>1, <2>2, <2>5, <2>10, JoinKeeps
    <2>12. \A x \in OpNames : ops'[x].out = ops[x].out
      BY <1>1, <2>1, <2>2, <2>5, <2>6, OpMoves DEF IsOp
    <2> QED BY <2>11, <2>12
  <1>4. CASE g \in idle
    <2>1. UNCHANGED ops /\ worker' = [worker EXCEPT ![g] = "launching"]
      BY <1>4 DEF Plugin!ResumeStart
    <2> HIDE DEF g
    <2>2. worker' \in [Gens -> WorkerState] /\ worker'[g] = "launching" /\ \A h \in Gens : h # g
            => worker'[h] = worker[h]
      BY <1>1, <1>2, <2>1 DEF PluginsAre, WorkerState
    <2>3. Resumed(g, ops)
      BY <1>1, <1>2 DEF Resumed
    <2>4. Workers(reg, worker', idle, {}, manager, ops)
      <3>1. Workers(reg, worker, idle, {}, manager, ops)
        BY DEF PluginInv
      <3>2. ASSUME NEW h \in Gens
            PROVE  /\ worker'[h] = "up" => closed = "no" /\ (h \in {} \/ Holds(reg, h)
                      \/ IsCandidate(manager, h))
                   /\ worker'[h] = "launching" => (closed = "no" /\ IsCandidate(manager, h)) \/ (h \in idle
                           /\ Resumed(h, ops))
        BY <1>4, <2>2, <2>3, <3>1 DEF Workers
      <3> QED BY <3>2 DEF Workers
    <2>a. manager \in ManagerState /\ ops \in [OpNames -> OpState]
      BY <1>1 DEF PluginsAre
    <2>b. OpsFit'
      BY SMTT(40), <1>1, <2>1 DEF OpsFit, OpFits
    <2>c. /\ RegSound(reg) /\ Pins(reg, idle, ops) /\ Parks(idle) /\ Undone(reg, off) /\ off \subseteq Plugins
          /\ Windows(reg, ops) /\ Managed(manager, off)
      BY DEF PluginInv
    <2>5. PluginInv'
      BY ONLY <1>1, <1>2, <2>1, <2>2, <2>4, <2>a, <2>b, <2>c, Holding DEF Still
    <2> QED BY <2>1, <2>5
  <1> QED BY <1>3, <1>4

\* A worker that another call restarts is still restarted.
LEMMA OthersResume ==
  ASSUME NEW o \in OpNames, \A x \in OpNames : x # o => ops'[x] = ops[x], NEW g, Resumed(g, ops),
          ops[o].chain # <<g>>
  PROVE  Resumed(g, ops')
  <1>1. PICK x \in CallSlots : ops[x].out = "running" /\ ops[x].resuming = TRUE /\ ops[x].chain = <<g>>
    BY DEF Resumed
  <1>2. x \in OpNames /\ x # o
    BY <1>1 DEF OpNames
  <1> QED BY <1>1, <1>2 DEF Resumed

\* Other operations do not move.
LEMMA EndedOthers ==
  ASSUME PluginsAre, NEW o \in OpNames, NEW out, ops' = Plugin!Ended(o, out)
  PROVE  \A x \in OpNames : x # o => ops'[x] = ops[x]
  BY DEF Plugin!Ended, PluginsAre

\* _resume ends: the worker is up, or the call failed and leaves none behind.
LEMMA ResumeEndsKeeps ==
  ASSUME PluginInv, NEW o \in OpNames, NEW ok \in BOOLEAN, Plugin!ResumeEnds(o, ok)
  PROVE  /\ PluginInv'
         /\ \A x \in OpNames : ops'[x].out = "ok" => ops[x].out = "ok"
  <1> DEFINE p == ops[o]
             g == p.chain[1]
  <1>1. /\ p.out = "running" /\ p.resuming = TRUE /\ UNCHANGED <<kind, gens, manager, closed, loaded, off>>
        /\ PluginsAre /\ OpsFit /\ g \in idle /\ worker[g] = "launching"
    <2>1. p.resuming \in BOOLEAN
      BY OpTyped DEF PluginInv
    <2> QED BY <2>1 DEF PluginInv, Plugin!ResumeEnds, Plugin!Steady, Plugin!Running
  <1>2. g \in Gens /\ o \in CallSlots /\ p.chain = <<g>> /\ manager.op # "load" /\ loaded
          /\ 1 \in DOMAIN p.chain
    BY <1>1, Pinned
  <1>w. worker \in [Gens -> WorkerState] /\ manager \in ManagerState
    BY <1>1 DEF PluginsAre
  <1>i. /\ RegSound(reg) /\ Pins(reg, idle, ops) /\ Parks(idle) /\ Undone(reg, off) /\ off \subseteq Plugins
        /\ Windows(reg, ops) /\ Workers(reg, worker, idle, {}, manager, ops) /\ Managed(manager, off)
    BY DEF PluginInv
  <1>3. \/ /\ closed = "no" /\ worker' = [worker EXCEPT ![g] = "up"] /\ idle' = idle \ {g}
           /\ ops' = [ops EXCEPT ![o].resuming = FALSE] /\ UNCHANGED reg
        \/ /\ closed # "no" /\ ops' = Plugin!Ended(o, "error") /\ worker' = [worker EXCEPT ![g] = "closing"]
           /\ UNCHANGED <<reg, idle>>
        \/ /\ ops' = Plugin!Ended(o, "error")
           /\ Plugin!Publish(reg, [worker EXCEPT ![g] = "closed"], idle \ {g}, {}, Plugin!PinnedBy(ops'))
    BY DEF Plugin!ResumeEnds
  <1>4. CASE /\ closed = "no" /\ worker' = [worker EXCEPT ![g] = "up"] /\ idle' = idle \ {g}
             /\ ops' = [ops EXCEPT ![o].resuming = FALSE] /\ UNCHANGED reg
    <2> DEFINE op == [p EXCEPT !.resuming = FALSE]
    <2>1. OpBecomes(o, op)
      BY <1>1, <1>4 DEF OpBecomes, PluginsAre
    <2>2. p \in OpState /\ OpFits(p) /\ p = ops[o]
      BY <1>1, OpTyped DEF OpsFit
    <2>3. reg.active[gens[g]] = g /\ gens[g] \in Plugins
      BY <1>1, <1>2, <1>4, <1>i DEF Pins
    <2>a. /\ worker' \in [Gens -> WorkerState] /\ worker'[g] = "up" /\ \A h \in Gens : h # g
            => worker'[h] = worker[h]
          /\ idle' = idle \ {g} /\ closed = "no"
      BY <1>2, <1>4, <1>w DEF WorkerState
    <2> HIDE DEF p, g
    <2>4. op \in RecordOf(p.kind, p.chain, p.at, p.next, p.core, p.view, p.cut, FALSE, p.out)
      <3>1. p \in RecordOf(p.kind, p.chain, p.at, p.next, p.core, p.view, p.cut, p.resuming, p.out)
        BY <2>2, OpIsRecord
      <3> QED BY ONLY <3>1 DEF RecordOf
    <2>5. op \in OpState
      BY <2>2, <2>4 DEF RecordOf, OpState
    <2> HIDE DEF op
    <2>6. IsOp(op, p.kind, p.chain, p.at, p.next, p.core, p.view, p.cut, FALSE, p.out)
      BY <2>4, RecordIs
    <2>7. OpFits(op)
      BY <2>2, <2>6 DEF OpFits, IsOp
    <2>8. ops' \in [OpNames -> OpState] /\ ops'[o] = op /\ \A x \in OpNames : x # o => ops'[x] = ops[x]
      BY <1>1, <2>1, <2>5, OpMoves
    <2>9. OpsFit'
      <3>1. \A x \in OpNames : OpFits(ops'[x])
        BY <1>1, <2>7, <2>8 DEF OpsFit
      <3>2. \A x \in OpNames : ops'[x].resuming = TRUE => /\ ops'[x].out = "running" /\ x \in CallSlots
                                                         /\ Len(ops'[x].chain) = 1 /\ ops'[x].kind = "invoke"
        BY <1>1, <2>6, <2>8 DEF OpsFit, IsOp
      <3> QED BY <3>1, <3>2 DEF OpsFit, OpFits
    <2>10. \A x \in OpNames : /\ ops'[x].out = ops[x].out /\ ops'[x].chain = ops[x].chain
                                 /\ ops'[x].view = ops[x].view
                              /\ x # o => ops'[x].resuming = ops[x].resuming
      BY <2>2, <2>6, <2>8 DEF IsOp
    <2>11. Pins(reg, idle', ops')
      <3>1. ASSUME NEW x \in OpNames, ops'[x].out = "running", NEW i \in DOMAIN ops'[x].chain
            PROVE  /\ reg.active[gens[ops'[x].chain[i]]] = ops'[x].chain[i]
                      /\ gens[ops'[x].chain[i]] \in Plugins
                   /\ ops'[x].chain[i] \in idle' => ops'[x].resuming = TRUE
        <4>1. /\ ops[x].out = "running" /\ i \in DOMAIN ops[x].chain /\ ops'[x].chain = ops[x].chain
          BY <2>10, <3>1
        <4>2. /\ reg.active[gens[ops[x].chain[i]]] = ops[x].chain[i] /\ gens[ops[x].chain[i]] \in Plugins
              /\ ops[x].chain[i] \in idle => ops[x].resuming = TRUE
          BY <1>i, <2>a, <4>1 DEF Pins
        <4>3. x = o => ops[x].chain[i] = g
          BY <1>2, <2>2, <4>1
        <4> QED BY <2>a, <2>10, <4>1, <4>2, <4>3
      <3> QED BY <3>1 DEF Pins
    <2>12. Windows(reg, ops')
      BY <1>i, <2>10 DEF Windows, OpNames
    <2>13. Workers(reg, worker', idle', {}, manager, ops')
      <3>1. Holds(reg, g)
        BY <2>3 DEF Holds
      <3>2. ASSUME NEW h \in Gens
            PROVE  /\ worker'[h] = "up" => closed = "no" /\ (h \in {} \/ Holds(reg, h)
                      \/ IsCandidate(manager, h))
                   /\ worker'[h] = "launching" => (closed = "no" /\ IsCandidate(manager, h)) \/ (h \in idle'
                           /\ Resumed(h, ops'))
        <4>1. CASE h = g
          BY <2>a, <3>1, <4>1
        <4>2. CASE h # g
          <5>1. ops[o].chain # <<h>>
            BY <1>2, <2>2, <4>2
          <5>2. Resumed(h, ops) => Resumed(h, ops')
            BY <2>8, <5>1, OthersResume
          <5> QED BY <1>i, <2>a, <4>2, <5>2 DEF Workers
        <4> QED BY <4>1, <4>2
      <3> QED BY <3>2 DEF Workers
    <2>14. Parks(idle')
      BY <1>i, <2>a DEF Parks
    <2>15. PluginInv'
      BY <1>1, <1>2, <1>4, <1>i, <1>w, <2>a, <2>8, <2>9, <2>11, <2>12, <2>13, <2>14, Holding DEF Still
    <2> QED BY <2>10, <2>15
  <1>5. CASE ops' = Plugin!Ended(o, "error")
    <2>1. OpsKept /\ OpsFit' /\ ops' \in [OpNames -> OpState]
      BY <1>1, <1>5, EndedOps DEF OpsKept
    <2>2. \A x \in OpNames : x # o => ops'[x] = ops[x]
      BY <1>1, <1>5, EndedOthers
    <2>3. ops'[o].out = "none"
      BY <1>1, <1>5 DEF Plugin!Ended, Plugin!NoOp, PluginsAre
    <2>4. \A h \in Gens : h # g /\ Resumed(h, ops) => Resumed(h, ops')
      <3>1. \A h \in Gens : h # g => p.chain # <<h>>
        BY <1>2
      <3> QED BY <2>2, <3>1, OthersResume
    <2>5. Windows(reg, ops') /\ Pins(reg, idle, ops') /\ Pins(reg, idle \ {g}, ops')
      BY <1>i, <2>1, PinsKept, WindowsKept
    <2> HIDE DEF p, g
    <2>6. CASE closed # "no" /\ worker' = [worker EXCEPT ![g] = "closing"] /\ UNCHANGED <<reg, idle>>
      <3>1. worker' \in [Gens -> WorkerState] /\ worker'[g] = "closing" /\ \A h \in Gens : h # g
              => worker'[h] = worker[h]
        BY <1>2, <1>w, <2>6 DEF WorkerState
      <3>2. Workers(reg, worker', idle, {}, manager, ops')
        BY <1>i, <2>4, <3>1 DEF Workers
      <3> QED BY <1>1, <1>2, <1>i, <1>w, <2>1, <2>2, <2>3, <2>5, <2>6, <3>1, <3>2, Holding DEF Still
    <2>7. CASE Plugin!Publish(reg, [worker EXCEPT ![g] = "closed"], idle \ {g}, {}, Plugin!PinnedBy(ops'))
      <3> DEFINE w == [worker EXCEPT ![g] = "closed"]
      <3>1. w \in [Gens -> WorkerState] /\ w[g] = "closed" /\ \A h \in Gens : h # g => w[h] = worker[h]
        BY <1>2, <1>w DEF WorkerState
      <3>2. Settles(reg, w, idle \ {g}, {}, Plugin!PinnedBy(ops'))
        BY <2>7, PublishSettles
      <3>3. PinsAll(Plugin!PinnedBy(ops'), ops')
        BY <2>1, PinnedAll
      <3> HIDE DEF w
      <3>4. Workers(reg, w, idle \ {g}, {}, manager', ops')
        BY <1>1, <1>i, <2>4, <3>1 DEF Workers
      <3>5. Parks(idle \ {g})
        BY <1>i DEF Parks
      <3>6. /\ Undone(reg, off') /\ off' \subseteq Plugins /\ manager' \in ManagerState /\ Managed(manager',
              off')
            /\ manager'.op # "load" /\ Still
        BY <1>1, <1>2, <1>i, <1>w DEF Still
      <3>7. PluginInv'
        BY <1>2, <1>i, <2>1, <2>5, <3>1, <3>2, <3>3, <3>4, <3>5, <3>6, SettleKeeps
      <3> QED BY <2>2, <2>3, <3>7
    <2> QED BY <1>3, <1>4, <1>5, <2>6, <2>7
  <1> QED BY <1>3, <1>4, <1>5

\* Interception.call: a frame ends, and with the last one its operation.
LEMMA HandlerEndsKeeps ==
  ASSUME PluginInv, NEW o \in OpNames, NEW i \in Nat, NEW how, Plugin!HandlerEnds(o, i, how)
  PROVE  OpsKept /\ PluginInv'
  <1> DEFINE p == ops[o]
             g == p.chain[i]
             verdict == IF p.kind = "intercept" THEN Plugin!Verdict(how, p.next[i])
                        ELSE IF how = "answer" THEN "ok" ELSE "error"
             result == IF verdict = "ok" THEN "ok" ELSE "error"
  <1>1. /\ PluginsAre /\ OpsFit /\ UNCHANGED <<kind, gens, manager, closed, loaded, off>>
        /\ p.out = "running" /\ p.resuming = FALSE /\ i \in 1..p.at /\ i <= Len(p.chain)
    <2>1. p.resuming \in BOOLEAN
      BY OpTyped DEF PluginInv
    <2> QED BY <2>1 DEF PluginInv, Plugin!HandlerEnds, Plugin!Steady, Plugin!Running, Plugin!Deepest
  <1>2. manager.op # "load" /\ loaded
    BY <1>1, Pinned
  <1>i. /\ RegSound(reg) /\ Pins(reg, idle, ops) /\ Parks(idle) /\ Undone(reg, off) /\ off \subseteq Plugins
        /\ Windows(reg, ops) /\ Workers(reg, worker, idle, {}, manager, ops) /\ Managed(manager, off)
        /\ worker \in [Gens -> WorkerState] /\ manager \in ManagerState
    BY DEF PluginInv, PluginsAre
  <1>3. /\ verdict = "ok" => p.at = i /\ p.core \in {"no", "done"} /\ p.next[i] \in {"unused", "ok"}
        /\ verdict = "ok" /\ i = 1 => OpHonest(p)
    <2>1. /\ PluginsAre /\ OpsFit /\ ops[o].out = "running"
          /\ i \in 1..ops[o].at /\ i <= Len(ops[o].chain)
      BY <1>1
    <2> QED BY SMTT(40), <2>1, HandlerVerdict
  <1>4. PICK stopped :
           \/ i = 1 /\ ops' = Plugin!Ended(o, result) /\ Plugin!Publish(reg, worker, idle, stopped,
                   Plugin!PinnedBy(ops'))
           \/ i # 1 /\ HandlerFrame(o, i, result) /\ worker' = Plugin!Closing(worker, stopped)
                   /\ UNCHANGED <<reg, idle>>
    BY DEF Plugin!HandlerEnds, HandlerFrame
  <1>5. result \in {"ok", "error"} /\ (result = "ok" => verdict = "ok")
    OBVIOUS
  <1>6. p = ops[o]
    OBVIOUS
  <1> HIDE DEF p, g, verdict, result
  <1>7. OpsKept /\ OpsFit' /\ Settles(reg, worker, idle, stopped, Plugin!PinnedBy(ops'))
          /\ \A x \in OpNames : x # o => ops'[x] = ops[x]
    <2>1. CASE i = 1 /\ ops' = Plugin!Ended(o, result) /\ Plugin!Publish(reg, worker, idle, stopped,
            Plugin!PinnedBy(ops'))
      <3>1. OpsKept /\ OpsFit'
        BY <1>1, <1>3, <1>5, <1>6, <2>1, EndedOps
      <3>2. \A x \in OpNames : x # o => ops'[x] = ops[x]
        BY <1>1, <2>1, EndedOthers
      <3> QED BY <2>1, <3>1, <3>2, PublishSettles
    <2>2. CASE i # 1 /\ HandlerFrame(o, i, result) /\ worker' = Plugin!Closing(worker, stopped)
            /\ UNCHANGED <<reg, idle>>
      <3>1. OpsKept /\ OpsFit'
        BY <1>1, <1>3, <1>5, <1>6, <2>2, FrameOps
      <3>2. \A x \in OpNames : x # o => ops'[x] = ops[x]
        BY <1>1, <2>2 DEF HandlerFrame, PluginsAre
      <3>3. Settles(reg, worker, idle, stopped, Plugin!PinnedBy(ops'))
        BY <2>2 DEF Settles
      <3> QED BY <3>1, <3>2, <3>3
    <2> QED BY <1>4, <2>1, <2>2
  <1>8. RestartsGoOn
    BY <1>1, <1>6, <1>7, InterceptsGoOn
  <1>9. ops' \in [OpNames -> OpState] /\ Pins(reg, idle, ops') /\ Windows(reg, ops')
    BY <1>7, <1>i, PinsKept, WindowsKept DEF OpsKept
  <1>10. \A h \in Gens : Resumed(h, ops) => Resumed(h, ops')
    BY <1>7, <1>8, ResumedKept
  <1>11. Workers(reg, worker, idle, stopped, manager', ops')
    <2>1. Workers(reg, worker, idle, {}, manager, ops')
      BY <1>i, <1>10, WorkersKept
    <2> QED BY <1>1, <2>1 DEF Workers
  <1>12. PinsAll(Plugin!PinnedBy(ops'), ops')
    BY <1>9, PinnedAll
  <1>13. /\ Undone(reg, off') /\ off' \subseteq Plugins /\ manager' \in ManagerState /\ Managed(manager',
          off')
         /\ manager'.op # "load" /\ Still
    BY <1>1, <1>2, <1>i DEF Still
  <1>14. PluginInv'
    BY <1>2, <1>i, <1>7, <1>9, <1>11, <1>12, <1>13, SettleKeeps
  <1> QED BY <1>7, <1>14

\* A cancelled operation: a restart that only it made is given up.
LEMMA UnwindKeeps ==
  ASSUME PluginInv, NEW o \in OpNames, Plugin!Unwind(o)
  PROVE  OpsKept /\ PluginInv'
  <1> DEFINE p == ops[o]
             g == p.chain[1]
             shared == \E x \in Plugin!Ops \ {o} : Plugin!Running(x) /\ ops[x].resuming
                     /\ ops[x].chain = p.chain
             restart == p.resuming /\ g \in idle /\ worker[g] = "launching" /\ ~shared
             w == IF restart THEN [worker EXCEPT ![g] = "closed"] ELSE worker
  <1>1. /\ PluginsAre /\ OpsFit /\ UNCHANGED <<kind, gens, manager, closed, loaded, off>>
        /\ p.out = "running" /\ p.resuming \in BOOLEAN
    <2>1. p.resuming \in BOOLEAN
      BY OpTyped DEF PluginInv
    <2> QED BY <2>1 DEF PluginInv, Plugin!Unwind, Plugin!Running
  <1>2. g \in Gens /\ manager.op # "load" /\ loaded /\ (p.resuming = TRUE => o \in CallSlots
          /\ p.chain = <<g>>)
    BY <1>1, Pinned
  <1>i. /\ RegSound(reg) /\ Pins(reg, idle, ops) /\ Parks(idle) /\ Undone(reg, off) /\ off \subseteq Plugins
        /\ Windows(reg, ops) /\ Workers(reg, worker, idle, {}, manager, ops) /\ Managed(manager, off)
        /\ worker \in [Gens -> WorkerState] /\ manager \in ManagerState
    BY DEF PluginInv, PluginsAre
  <1>4. PICK deaf : ops' = Plugin!Ended(o, "cancelled") /\ Plugin!Publish(reg, w, idle, deaf,
                                                           Plugin!PinnedBy(ops'))
    BY DEF Plugin!Unwind
  <1>5. OpsKept /\ OpsFit' /\ \A x \in OpNames : x # o => ops'[x] = ops[x]
    BY <1>1, <1>4, EndedOps, EndedOthers
  <1>6. ops' \in [OpNames -> OpState] /\ Pins(reg, idle, ops') /\ Windows(reg, ops')
    BY <1>5, <1>i, PinsKept, WindowsKept DEF OpsKept
  <1>7. w \in [Gens -> WorkerState] /\ (restart => w[g] = "closed") /\ \A h \in Gens : w[h] = worker[h]
          \/ (h = g /\ restart)
    BY <1>2, <1>i DEF WorkerState
  <1>8. ASSUME NEW h \in Gens, h \in idle, Resumed(h, ops), w[h] = "launching" PROVE Resumed(h, ops')
    <2>1. PICK x \in CallSlots : ops[x].out = "running" /\ ops[x].resuming = TRUE /\ ops[x].chain = <<h>>
      BY <1>8 DEF Resumed
    <2>2. x \in OpNames
      BY DEF OpNames
    <2>3. CASE x # o
      BY <1>5, <2>1, <2>2, <2>3 DEF Resumed
    <2>4. CASE x = o
      <3>1. p.resuming = TRUE /\ p.chain = <<h>> /\ h = g
        BY <2>1, <2>4
      <3>2. shared
        <4>1. w[g] # "closed"
          BY <1>8, <3>1
        <4>2. ~restart
          BY <1>7, <4>1
        <4>3. w = worker
          BY <4>2
        <4>4. worker[g] = "launching"
          BY <1>8, <3>1, <4>3
        <4> QED BY <1>8, <3>1, <4>2, <4>4
      <3>3. PICK y \in Plugin!Ops \ {o} : Plugin!Running(y) /\ ops[y].resuming /\ ops[y].chain = p.chain
        BY <3>2
      <3>4. y \in OpNames /\ ops[y].resuming = TRUE /\ ops[y].out = "running" /\ ops[y].chain = <<h>> /\ y # o
        <4>1. y \in OpNames
          BY DEF Plugin!Ops, OpNames
        <4>2. ops[y].resuming \in BOOLEAN
          BY <1>1, <4>1, OpTyped
        <4> QED BY <3>1, <3>3, <4>1, <4>2 DEF Plugin!Running
      <3>5. y \in CallSlots
        BY <1>1, <3>4 DEF OpsFit
      <3> QED BY <1>5, <3>4, <3>5 DEF Resumed
    <2> QED BY <2>3, <2>4
  <1> HIDE DEF p, g, shared, restart, w
  <1>9. \A h \in Gens : w[h] \in {"up", "launching"} => worker[h] = w[h]
    BY <1>7
  <1>10. Workers(reg, w, idle, deaf, manager', ops')
    BY <1>1, <1>i, <1>8, <1>9 DEF Workers
  <1>11. PinsAll(Plugin!PinnedBy(ops'), ops') /\ Settles(reg, w, idle, deaf, Plugin!PinnedBy(ops'))
    BY <1>4, <1>6, PinnedAll, PublishSettles
  <1>12. /\ Undone(reg, off') /\ off' \subseteq Plugins /\ manager' \in ManagerState /\ Managed(manager',
          off')
         /\ manager'.op # "load" /\ Still
    BY <1>1, <1>2, <1>i DEF Still
  <1>13. PluginInv'
    BY <1>2, <1>i, <1>5, <1>6, <1>7, <1>10, <1>11, <1>12, SettleKeeps
  <1> QED BY <1>5, <1>13

\* An operation that succeeds in this step is honest.
Honest == \A o \in OpNames : ops[o].out = "running" /\ ops'[o].out = "ok" => OpHonest(ops[o])

\* Each step of an operation keeps the invariant and is honest.
LEMMA OperationKeeps ==
  ASSUME PluginInv, NEW o \in OpNames, Plugin!Operation(o)
  PROVE  PluginInv' /\ Honest
  <1>0. PluginsAre /\ (OpsKept => Honest)
    BY DEF PluginInv, OpsKept, OpKept, Honest
  <1>1. CASE o \in Chained /\ Plugin!Intercept(o)
    <2>1. ops[o].out # "running" /\ \A x \in OpNames : x # o => ops'[x] = ops[x]
      BY <1>0, <1>1 DEF Plugin!Intercept, Plugin!Running, PluginsAre
    <2> QED BY <1>1, <2>1, InterceptKeeps DEF Honest
  <1>2. CASE o \in CallSlots /\ \E n \in Plugins : Plugin!Invoke(o, n)
    <2>1. ops[o].out # "running" /\ \A x \in OpNames : x # o => ops'[x] = ops[x]
      BY <1>0, <1>2 DEF Plugin!Invoke, Plugin!Running, PluginsAre
    <2> QED BY <1>2, <2>1, InvokeKeeps DEF Honest
  <1>3. CASE Plugin!ResumeStart(o)
    BY <1>3, ResumeStartKeeps DEF Honest
  <1>4. CASE \E ok \in BOOLEAN : Plugin!ResumeEnds(o, ok)
    BY <1>4, ResumeEndsKeeps DEF Honest
  <1>5. CASE \E valid \in BOOLEAN : Plugin!HandlerNext(o, valid)
    BY <1>0, <1>5, HandlerNextKeeps
  <1>6. CASE \E ok \in BOOLEAN : Plugin!CoreEnds(o, ok)
    BY <1>0, <1>6, CoreEndsKeeps
  <1>7. CASE \E i \in 1..Len(Order), how \in {"answer", "bad", "timeout", "dead"} : Plugin!HandlerEnds(o, i,
          how)
    <2>1. PICK i \in 1..Len(Order), how \in {"answer", "bad", "timeout", "dead"} : Plugin!HandlerEnds(o, i,
            how)
      BY <1>7
    <2>2. i \in Nat
      BY <2>1
    <2> QED BY <1>0, <2>1, <2>2, HandlerEndsKeeps
  <1>8. CASE o \in CallSlots /\ Plugin!ShowView(o)
    BY <1>8, ShowViewKeeps DEF Honest
  <1>9. CASE Plugin!CloseView(o)
    BY <1>0, <1>9, CloseViewKeeps
  <1>10. CASE Plugin!Unwind(o)
    BY <1>0, <1>10, UnwindKeeps
  <1> QED BY <1>1, <1>2, <1>3, <1>4, <1>5, <1>6, <1>7, <1>8, <1>9, <1>10 DEF Plugin!Operation

(***************************************************************************)
(* Workers, turns and the end of the runtime.                              *)
(***************************************************************************)

\* The parts of the invariant, their kinds included.
Parts ==
    /\ RegSound(reg) /\ Pins(reg, idle, ops) /\ Parks(idle) /\ Undone(reg, off) /\ off \subseteq Plugins
    /\ Windows(reg, ops) /\ Workers(reg, worker, idle, {}, manager, ops) /\ Managed(manager, off)
    /\ worker \in [Gens -> WorkerState] /\ manager \in ManagerState /\ ops \in [OpNames -> OpState]
            /\ PluginsAre
    /\ manager.op = "load" \/ ~loaded => NothingLives(reg, idle, off, ops)
    /\ ~loaded => manager.op = "none" /\ \A g \in Gens : worker[g] = "closed"

\* The invariant has these parts.
LEMMA PartsAre == PluginInv => Parts
  BY DEF PluginInv, Parts, PluginsAre, Loading

\* Operations that do not move fit.
LEMMA OpsFitKept ==
  ASSUME OpsFit, UNCHANGED ops
  PROVE  OpsFit'
  BY DEF OpsFit, OpFits

\* A worker dies or is reaped.
LEMMA WorkerKeeps ==
  ASSUME PluginInv, NEW g \in Gens, UNCHANGED <<kind, gens, idle, reg, manager, loaded, off, closed, ops>>,
         NEW end, worker' = [worker EXCEPT ![g] = end], end = "closed", worker[g] # "closed"
  PROVE  PluginInv'
  <1>1. Parts /\ OpsFit'
    BY PartsAre, OpsFitKept DEF PluginInv
  <1>2. worker' \in [Gens -> WorkerState] /\ worker'[g] = "closed" /\ \A h \in Gens : h # g
          => worker'[h] = worker[h]
    BY <1>1 DEF WorkerState, Parts
  <1>3. Workers(reg, worker', idle, {}, manager, ops)
    BY <1>1, <1>2 DEF Workers, Parts
  <1>4. ~loaded => \A h \in Gens : worker'[h] = "closed"
    BY <1>1, <1>2 DEF Parts
  <1> QED BY <1>1, <1>2, <1>3, <1>4, Holding DEF Parts, Still

\* The idle sweep parks a generation that nobody pins.
LEMMA SweepKeeps ==
  ASSUME PluginInv, Plugin!Sweep
  PROVE  PluginInv'
  <1>1. Parts /\ OpsFit'
    BY PartsAre, OpsFitKept DEF PluginInv, Plugin!Sweep
  <1>2. PICK g \in Plugin!Live(reg) : Plugin!Sweepable(g) /\ idle' = idle \cup {g}
                                                             /\ worker' = Plugin!Closing(worker, {g})
    BY DEF Plugin!Sweep
  <1>3. UNCHANGED <<kind, gens, reg, manager, loaded, off, closed, ops>>
    BY DEF Plugin!Sweep
  <1>4. g \in Gens /\ manager.op # "load" /\ loaded
    BY Live
  <1>5. ~Plugin!Resident(g) /\ g \notin Plugin!PinnedBy(ops)
    BY <1>2 DEF Plugin!Sweepable
  <1>6. worker' \in [Gens -> WorkerState] /\ \A h \in Gens : /\ worker'[h] = "up" => worker[h] = "up"
                                                             /\ worker'[h] = "launching"
                                                                     => worker[h] = "launching"
    BY <1>1, <1>2, ClosingIs DEF Parts
  <1>7. Workers(reg, worker', idle', {}, manager, ops)
    BY <1>1, <1>2, <1>6 DEF Workers, Parts
  <1>8. Pins(reg, idle', ops)
    <2>1. ASSUME closed = "no", NEW o \in OpNames, ops[o].out = "running", NEW i \in DOMAIN ops[o].chain
          PROVE  /\ reg.active[gens[ops[o].chain[i]]] = ops[o].chain[i] /\ gens[ops[o].chain[i]] \in Plugins
                 /\ ops[o].chain[i] \in idle' => ops[o].resuming = TRUE
      <3>1. ops[o].chain[i] # g
        BY <1>5, <2>1, PinnedIs
      <3> QED BY <1>1, <1>2, <2>1, <3>1 DEF Parts, Pins
    <2> QED BY <2>1 DEF Pins
  <1>9. Parks(idle')
    BY <1>1, <1>2, <1>5 DEF Parks, Parts
  <1> QED BY <1>1, <1>3, <1>4, <1>6, <1>7, <1>8, <1>9, Holding DEF Parts, Still

\* The empty registry.
Nothing == [active |-> [n \in Plugins |-> 0], pending |-> [n \in Plugins |-> 0],
            staged |-> [n \in Plugins |-> 0], disabling |-> {}]

\* The empty registry has nothing to switch.
LEMMA NothingSwitches ==
  ASSUME NEW p
  PROVE  Plugin!Switched(Nothing, p) = Nothing
  <1> DEFINE s == Plugin!Switched(Nothing, p)
  <1>1. Nothing \in RegState
    BY DEF Nothing, RegState, GenOrNone
  <1>2. s \in RegState /\ Switches(Nothing, p, s)
    BY <1>1, SwitchedIs
  <1>3. /\ \A n \in Plugins : Nothing.active[n] = 0 /\ Nothing.pending[n] = 0 /\ Nothing.staged[n] = 0
        /\ Nothing.disabling = {}
    BY DEF Nothing
  <1> HIDE DEF s
  <1>4. \A n \in Plugins : s.active[n] = 0 /\ s.pending[n] = 0 /\ s.staged[n] = 0 /\ n \notin s.disabling
    BY <1>2, <1>3 DEF Switches
  <1>5. /\ s = [active |-> s.active, pending |-> s.pending, staged |-> s.staged, disabling |-> s.disabling]
        /\ s.active \in [Plugins -> GenOrNone] /\ s.pending \in [Plugins -> GenOrNone]
        /\ s.staged \in [Plugins -> GenOrNone] /\ s.disabling \subseteq Plugins
    BY <1>2 DEF RegState
  <1>6. s.active = [n \in Plugins |-> 0] /\ s.pending = [n \in Plugins |-> 0]
          /\ s.staged = [n \in Plugins |-> 0]
        /\ s.disabling = {}
    BY <1>4, <1>5
  <1> QED BY <1>5, <1>6 DEF Nothing, s

\* finish_turn: what waited for the turn is published.
LEMMA FinishTurnKeeps ==
  ASSUME PluginInv, Plugin!FinishTurn
  PROVE  PluginInv'
  <1>1. Parts /\ OpsFit'
    BY PartsAre, OpsFitKept DEF PluginInv, Plugin!FinishTurn
  <1>2. UNCHANGED <<kind, gens, manager, loaded, off, closed, ops>>
    BY DEF Plugin!FinishTurn
  <1>3. worker = Plugin!Closing(worker, {})
    BY <1>1 DEF Plugin!Closing, Parts, WorkerState
  <1> DEFINE p == Plugin!PinnedBy(ops)
             s == Plugin!Switched(reg, p)
             out == Plugin!Live(reg) \ Plugin!Live(s)
             parked == {g \in Plugin!Live(s) \ Plugin!Live(reg) : ~Plugin!Resident(g)}
  <1>4. \/ reg' = reg /\ worker' = worker /\ idle' = idle
        \/ /\ closed = "no" /\ reg' = s /\ worker' = Plugin!Closing(worker, out \cup parked)
           /\ idle' = (idle \cup parked) \ out /\ s # reg
    BY DEF Plugin!FinishTurn, Plugin!registry
  <1>5. Settles(reg, worker, idle, {}, p)
    <2>1. {} \cup out \cup parked = out \cup parked
      OBVIOUS
    <2> HIDE DEF s, out, parked
    <2>2. \/ reg' = reg /\ worker' = Plugin!Closing(worker, {}) /\ idle' = idle
          \/ /\ closed = "no" /\ reg' = s /\ worker' = Plugin!Closing(worker, {} \cup out \cup parked)
             /\ idle' = (idle \cup parked) \ out
      BY <1>3, <1>4, <2>1
    <2> QED BY <2>2 DEF Settles, s, out, parked
  <1>6. PinsAll(p, ops')
    BY <1>1, <1>2, PinnedAll DEF Parts
  <1>7. CASE manager.op # "load" /\ loaded
    <2>1. Undone(reg, off') /\ off' \subseteq Plugins /\ Pins(reg, idle, ops') /\ Windows(reg, ops')
            /\ Parks(idle)
      BY <1>1, <1>2 DEF Parts
    <2>2. Workers(reg, worker, idle, {}, manager', ops') /\ manager' \in ManagerState /\ Managed(manager',
            off')
      BY <1>1, <1>2 DEF Parts
    <2>3. ops' \in [OpNames -> OpState] /\ worker \in [Gens -> WorkerState] /\ RegSound(reg)
            /\ manager'.op # "load" /\ Still
      BY <1>1, <1>2, <1>7 DEF Parts, Still
    <2> HIDE DEF p
    <2> QED BY <1>1, <1>5, <1>6, <1>7, <2>1, <2>2, <2>3, SettleKeeps
  <1>8. CASE manager.op = "load" \/ ~loaded
    <2>1. reg = Nothing
      BY <1>1, <1>8 DEF Parts, NothingLives, Nothing
    <2>2. reg' = reg /\ worker' = worker /\ idle' = idle
      BY <1>4, <2>1, NothingSwitches
    <2> QED BY <1>1, <1>2, <2>2, Holding DEF Parts, Still
  <1> QED BY <1>7, <1>8

\* close: no worker is left up, and only a restart under way stays.
LEMMA CloseKeeps ==
  ASSUME PluginInv, Plugin!Close
  PROVE  PluginInv'
  <1>1. Parts /\ OpsFit'
    BY PartsAre, OpsFitKept DEF PluginInv, Plugin!Close
  <1>2. /\ UNCHANGED <<kind, gens, idle, manager, loaded, off, ops>> /\ closed = "no" /\ closed' = "closing"
        /\ reg' = Nothing
    BY DEF Plugin!Close, Plugin!Absent, Plugin!NoGen, Nothing
  <1> DEFINE started == Plugin!Range(manager.cand) \ {0}
             mine == started \cup Plugin!Live(reg) \cup Plugin!Staged(reg)
             w == Plugin!Closing(worker, mine)
  <1>3. worker' = [g \in Gens |-> IF g \in started /\ worker[g] = "launching" THEN "closed" ELSE w[g]]
    BY DEF Plugin!Close, Plugin!NoGen
  <1>4. \A g \in Gens : IsCandidate(manager, g) => g \in started
    BY <1>1, GateConstants DEF Parts, ManagerState, IsCandidate, Plugin!Range
  <1>5. \A g \in Gens : Holds(reg, g) => g \in Plugin!Live(reg) \cup Plugin!Staged(reg)
    BY <1>1, GateConstants, LiveIs, StagedIs DEF Parts, RegSound, Holds
  <1>6. /\ w \in [Gens -> WorkerState]
        /\ \A g \in Gens : /\ w[g] = "up" <=> worker[g] = "up" /\ g \notin mine
                           /\ w[g] = "launching" <=> worker[g] = "launching"
                           /\ worker[g] = "closed" => w[g] = "closed"
    BY <1>1, ClosingIs DEF Parts
  <1>7. \A g \in Gens : worker[g] = "up" => g \in mine
    BY <1>1, <1>4, <1>5 DEF Parts, Workers
  <1> HIDE DEF w, mine, started
  <1>8. /\ worker' \in [Gens -> WorkerState]
        /\ \A g \in Gens : /\ worker'[g] # "up"
                           /\ worker'[g] = "launching" => worker[g] = "launching" /\ g \notin started
                           /\ worker[g] = "closed" => worker'[g] = "closed"
    BY <1>3, <1>6, <1>7 DEF WorkerState
  <1>9. \A g \in Gens : worker'[g] = "launching" => g \in idle /\ Resumed(g, ops)
    BY <1>1, <1>4, <1>8 DEF Parts, Workers
  <1>10. PluginsAre'
    BY <1>1, <1>2, <1>8 DEF Parts, PluginsAre
  <1>11. RegSound(reg)' /\ Undone(reg, off)' /\ Windows(reg, ops)' /\ Pins(reg, idle, ops)'
          /\ (off \subseteq Plugins)'
    <2>1. Nothing \in RegState
      BY DEF Nothing, RegState, GenOrNone
    <2>2. /\ \A n \in Plugins : Nothing.active[n] = 0 /\ Nothing.pending[n] = 0 /\ Nothing.staged[n] = 0
          /\ Nothing.disabling = {} /\ off \subseteq Plugins
      BY <1>1 DEF Nothing, Parts
    <2> QED BY <1>2, <2>1, <2>2 DEF RegSound, Undone, Windows, Pins
  <1>12. Parks(idle)'
    BY <1>1, <1>2 DEF Parks, Parts, Plugin!Resident
  <1>13. Workers(reg, worker, idle, {}, manager, ops)'
    BY <1>2, <1>8, <1>9 DEF Workers, Resumed
  <1>14. Managed(manager, off)'
    <2>1. manager.op # "load" => \A n \in Plugins : manager.cand[n] = 0
      <3>1. CASE manager.op = "none"
        BY <1>1, <3>1 DEF Parts, Managed
      <3>2. CASE manager.op \in {"enable", "reload", "hot"}
        <4>1. manager.cand = [n \in Plugins |-> 0]
          BY <3>2 DEF Plugin!Close, Plugin!RegistryLocked, Plugin!Absent, Plugin!NoGen
        <4> QED BY <4>1
      <3> QED BY <1>1, <3>1, <3>2 DEF Parts, ManagerState
    <2> QED BY <1>1, <1>2, <2>1 DEF Parts, Managed
  <1>15. Loading'
    <2>1. manager.op = "load" \/ ~loaded => NothingLives(Nothing, idle, off, ops)
      BY <1>1 DEF Parts, NothingLives, Nothing
    <2> QED BY <1>1, <1>2, <1>8, <2>1 DEF Parts, Loading, NothingLives
  <1> QED BY <1>1, <1>10, <1>11, <1>12, <1>13, <1>14, <1>15 DEF PluginInv

\* Steps that move nothing of the invariant but the end of close.
LEMMA RestKeepsPlugins ==
  ASSUME PluginInv, UNCHANGED <<kind, gens, idle, reg, worker, manager, loaded, off, ops>>,
         closed' = closed \/ (closed # "no" /\ closed' = "done")
  PROVE  PluginInv'
  <1>1. Parts /\ OpsFit'
    BY PartsAre, OpsFitKept DEF PluginInv
  <1>2. PluginsAre'
    BY <1>1 DEF PluginsAre, Parts
  <1>3. /\ RegSound(reg)' /\ Undone(reg, off)' /\ Windows(reg, ops)' /\ Pins(reg, idle, ops)'
          /\ (off \subseteq Plugins)'
        /\ Parks(idle)'
    BY <1>1 DEF Parts, RegSound, Undone, Windows, Pins, Parks, Plugin!Resident
  <1>4. Workers(reg, worker, idle, {}, manager, ops)'
    BY <1>1 DEF Parts, Workers, Holds, IsCandidate, Resumed
  <1>5. Managed(manager, off)'
    BY <1>1 DEF Parts, Managed
  <1>6. Loading'
    BY <1>1 DEF Parts, Loading, NothingLives
  <1> QED BY <1>1, <1>2, <1>3, <1>4, <1>5, <1>6 DEF PluginInv

(***************************************************************************)
(* Management: enable, reload, disable and the load at startup.            *)
(***************************************************************************)

\* Nothing is being launched.
NoCandidate(m) == \A n \in Plugins : m.cand[n] = 0

\* Generation g is launched for n by the management operation m.
Launches(n, m, g) ==
    /\ gens' = [gens EXCEPT ![g] = n] /\ worker' = [worker EXCEPT ![g] = "launching"]
    /\ idle' = idle \ {g} /\ manager' = [m EXCEPT !.cand[n] = g]

\* launch takes a number that nothing refers to.
LEMMA LaunchKeeps ==
  ASSUME PluginInv, UNCHANGED <<kind, closed, loaded, reg, ops>>, NEW n \in Plugins, NEW m \in ManagerState,
         Plugin!Launch(n, m), off' = off \ {n}, NoCandidate(manager), NoCandidate(m), m.op \notin {"load",
                 "none"},
         closed = "no", manager.op # "load", loaded
  PROVE  PluginInv'
  <1>1. Parts /\ OpsFit'
    BY PartsAre, OpsFitKept DEF PluginInv
  <1>2. PICK g \in Plugin!Unused : Launches(n, m, g)
    BY DEF Plugin!Launch, Launches
  <1>3. /\ g \in Gens /\ worker[g] = "closed" /\ g \notin Plugin!Live(reg) /\ g \notin Plugin!Staged(reg)
        /\ g \notin Plugin!PinnedBy(ops)
    BY DEF Plugin!Unused
  <1>4. /\ \A h \in Gens : h # g => gens'[h] = gens[h] /\ worker'[h] = worker[h]
        /\ gens'[g] = n /\ worker'[g] = "launching" /\ worker' \in [Gens -> WorkerState]
        /\ gens' = [h \in Gens |-> gens'[h]]
    BY <1>1, <1>2, <1>3 DEF Parts, PluginsAre, WorkerState, Launches
  <1>5. /\ manager' \in ManagerState /\ manager'.op = m.op /\ manager'.cand[n] = g
        /\ \A k \in Plugins : k # n => manager'.cand[k] = 0
    <2>1. m.cand \in [Plugins -> GenOrNone]
      BY DEF ManagerState
    <2>2. [m.cand EXCEPT ![n] = g] \in [Plugins -> GenOrNone]
      BY <1>3, <2>1 DEF GenOrNone
    <2>3. manager' = [m EXCEPT !.cand = [m.cand EXCEPT ![n] = g]]
      BY <1>2 DEF Launches
    <2> QED BY <2>1, <2>2, <2>3 DEF ManagerState, NoCandidate
  <1>6. reg \in RegState /\ RegSound(reg)
    BY <1>1 DEF Parts, RegSound
  <1>7. g # 0 /\ \A k \in Plugins : reg.active[k] # g /\ reg.pending[k] # g /\ reg.staged[k] # g
    BY <1>3, <1>6, LiveIs, StagedIs, GateConstants
  <1>8. \A k \in Plugins : /\ reg.active[k] # 0 => reg.active[k] \in Gens
                           /\ reg.pending[k] # 0 => reg.pending[k] \in Gens
                           /\ reg.staged[k] # 0 => reg.staged[k] \in Gens
    BY <1>6 DEF RegState, GenOrNone
  <1>9. \A o \in OpNames : ops[o].out = "running" => \A i \in DOMAIN ops[o].chain : ops[o].chain[i] # g
          /\ ops[o].chain[i] \in Gens
    BY <1>1, <1>3, PinnedIs, PinnedAll DEF Parts, PinsAll
  <1>10. PluginsAre'
    BY <1>1, <1>4, <1>5 DEF Parts, PluginsAre
  <1>11. RegSound(reg)'
    <2>1. ASSUME NEW k \in Plugins
          PROVE  /\ reg.active[k] # 0 => gens'[reg.active[k]] = k
                 /\ reg.pending[k] # 0 => gens'[reg.pending[k]] = k /\ reg.active[k] # 0
                         /\ k \notin reg.disabling
                 /\ reg.staged[k] # 0 => gens'[reg.staged[k]] = k /\ reg.active[k] = 0
      BY <1>4, <1>6, <1>7, <1>8 DEF RegSound
    <2> QED BY <1>6, <2>1 DEF RegSound
  <1>12. Pins(reg, idle, ops)'
    <2>1. ASSUME NEW o \in OpNames, ops[o].out = "running", NEW i \in DOMAIN ops[o].chain
          PROVE  /\ reg.active[gens'[ops[o].chain[i]]] = ops[o].chain[i] /\ gens'[ops[o].chain[i]] \in Plugins
                 /\ ops[o].chain[i] \in idle' => ops[o].resuming = TRUE
      <3>1. ops[o].chain[i] # g /\ ops[o].chain[i] \in Gens
        BY <1>9, <2>1
      <3>2. /\ reg.active[gens[ops[o].chain[i]]] = ops[o].chain[i] /\ gens[ops[o].chain[i]] \in Plugins
            /\ ops[o].chain[i] \in idle => ops[o].resuming = TRUE
        BY <1>1, <2>1 DEF Parts, Pins
      <3>3. gens'[ops[o].chain[i]] = gens[ops[o].chain[i]]
        BY <1>4, <3>1
      <3> QED BY <1>2, <3>2, <3>3 DEF Launches
    <2> QED BY <2>1 DEF Pins
  <1>13. Parks(idle)'
    <2>1. \A h \in idle : h \in Gens \/ ~(h \in Gens)
      OBVIOUS
    <2>2. ASSUME NEW h \in idle' PROVE ~Plugin!Resident(h)'
      <3>1. h \in idle /\ h # g
        BY <1>2 DEF Launches
      <3>2. gens'[h] = gens[h]
        BY <1>2, <3>1 DEF Launches
      <3> QED BY <1>1, <3>1, <3>2 DEF Parts, Parks, Plugin!Resident
    <2> QED BY <2>2 DEF Parks
  <1>14. Undone(reg, off)' /\ (off \subseteq Plugins)'
    BY <1>1 DEF Parts, Undone
  <1>15. Windows(reg, ops)'
    <2>1. ASSUME NEW o \in CallSlots, ops[o].out = "running", gens'[ops[o].chain[1]] \in reg.disabling
          PROVE  ops[o].view = FALSE
      <3>1. o \in OpNames
        BY DEF OpNames
      <3>2. 1 \in DOMAIN ops[o].chain
        BY <2>1, <3>1, Pinned
      <3>3. gens'[ops[o].chain[1]] = gens[ops[o].chain[1]]
        BY <1>4, <1>9, <2>1, <3>1, <3>2
      <3> QED BY <1>1, <2>1, <3>3 DEF Parts, Windows
    <2> QED BY <2>1 DEF Windows
  <1>16. Workers(reg, worker, idle, {}, manager, ops)'
    <2>1. ASSUME NEW h \in Gens
          PROVE  /\ worker'[h] = "up" => closed = "no" /\ (h \in {} \/ Holds(reg, h) \/ IsCandidate(manager',
                    h))
                 /\ worker'[h] = "launching" => (closed = "no" /\ IsCandidate(manager', h)) \/ (h \in idle'
                         /\ Resumed(h, ops))
      <3>1. CASE h = g
        BY <1>4, <1>5, <3>1 DEF IsCandidate
      <3>2. CASE h # g
        <4>1. h # 0 /\ ~IsCandidate(manager, h)
          BY GateConstants DEF IsCandidate, NoCandidate
        <4>2. worker'[h] = worker[h] /\ (h \in idle => h \in idle')
          BY <1>2, <1>4, <3>2 DEF Launches
        <4> QED BY <1>1, <4>1, <4>2 DEF Parts, Workers
      <3> QED BY <3>1, <3>2
    <2> QED BY <2>1 DEF Workers, Holds, IsCandidate, Resumed
  <1>17. Managed(manager, off)'
    <2>1. ASSUME NEW k \in Plugins, manager'.cand[k] # 0
          PROVE  k = n /\ gens'[manager'.cand[k]] = k /\ k \notin off'
      BY <1>4, <1>5, <2>1
    <2> QED BY <1>5, <2>1 DEF Managed
  <1>18. Loading'
    BY <1>5 DEF Loading
  <1> QED BY <1>1, <1>10, <1>11, <1>12, <1>13, <1>14, <1>15, <1>16, <1>17, <1>18 DEF PluginInv

\* Management at rest, and as it begins.
LEMMA RestIs ==
  /\ Plugin!Rest \in ManagerState /\ Plugin!Rest.op = "none" /\ NoCandidate(Plugin!Rest)
  /\ \A x \in {"enable", "reload", "hot", "load"} : LET m == [Plugin!Rest EXCEPT !.op = x] IN
        m \in ManagerState /\ m.op = x /\ NoCandidate(m)
  /\ LET m == [Plugin!Rest EXCEPT !.op = "hot", !.todo = Plugins] IN
        m \in ManagerState /\ m.op = "hot" /\ NoCandidate(m)
  <1> DEFINE c == [n \in Plugins |-> 0]
  <1>1. c \in [Plugins -> GenOrNone] /\ \A n \in Plugins : c[n] = 0
    BY DEF GenOrNone
  <1>2. Plugin!Rest = [op |-> "none", todo |-> {}, cand |-> c]
    BY DEF Plugin!Rest, Plugin!Absent, Plugin!NoGen
  <1> HIDE DEF c
  <1>3. Plugin!Rest \in ManagerState /\ Plugin!Rest.op = "none" /\ NoCandidate(Plugin!Rest)
    BY <1>1, <1>2 DEF ManagerState, NoCandidate
  <1>4. ASSUME NEW x \in {"enable", "reload", "hot", "load"}
        PROVE  LET m == [Plugin!Rest EXCEPT !.op = x] IN m \in ManagerState /\ m.op = x /\ NoCandidate(m)
    BY <1>1, <1>2 DEF ManagerState, NoCandidate
  <1>5. LET m == [Plugin!Rest EXCEPT !.op = "hot", !.todo = Plugins] IN
        m \in ManagerState /\ m.op = "hot" /\ NoCandidate(m)
    BY <1>1, <1>2 DEF ManagerState, NoCandidate
  <1> QED BY <1>3, <1>4, <1>5

\* A management request starts only when none is under way and the runtime is open.
LEMMA IsManaged ==
  ASSUME PluginInv, Plugin!Managed
  PROVE  manager.op = "none" /\ NoCandidate(manager) /\ loaded /\ closed = "no"
  BY DEF Plugin!Managed, Plugin!Managing, PluginInv, Managed, NoCandidate

\* manage: enable and reload begin.
LEMMA EnableKeeps ==
  ASSUME PluginInv, NEW n \in Plugins, Plugin!Enable(n) \/ Plugin!Reload(n)
  PROVE  PluginInv'
  <1>1. PICK x \in {"enable", "reload"} : Plugin!Launch(n, [Plugin!Rest EXCEPT !.op = x])
    BY DEF Plugin!Enable, Plugin!Reload
  <1>2. /\ manager.op = "none" /\ NoCandidate(manager) /\ loaded /\ closed = "no"
        /\ UNCHANGED <<kind, closed, loaded, reg, ops>> /\ off' = off \ {n}
    BY IsManaged DEF Plugin!Enable, Plugin!Reload
  <1> QED BY <1>1, <1>2, RestIs, LaunchKeeps

\* Only the management operation moves, and its candidates do not.
LEMMA ManagerKeeps ==
  ASSUME PluginInv, UNCHANGED <<kind, gens, closed, reg, worker, idle, off, ops>>, manager' \in ManagerState,
         loaded' = TRUE, manager'.op # "load",
         \A n \in Plugins : manager'.cand[n] = manager.cand[n], manager.op # "load", manager'.op = "none"
                 => NoCandidate(manager)
  PROVE  PluginInv'
  <1>1. Parts /\ OpsFit'
    BY PartsAre, OpsFitKept DEF PluginInv
  <1>2. PluginsAre'
    BY <1>1 DEF PluginsAre, Parts
  <1>3. /\ RegSound(reg)' /\ Undone(reg, off)' /\ Windows(reg, ops)' /\ Pins(reg, idle, ops)'
          /\ (off \subseteq Plugins)'
        /\ Parks(idle)'
    BY <1>1 DEF Parts, RegSound, Undone, Windows, Pins, Parks, Plugin!Resident
  <1>4. Workers(reg, worker, idle, {}, manager, ops)'
    <2>1. \A h \in Gens : IsCandidate(manager, h) <=> IsCandidate(manager', h)
      BY DEF IsCandidate
    <2>2. Workers(reg, worker, idle, {}, manager', ops)
      BY <1>1, <2>1 DEF Parts, Workers
    <2> QED BY <2>2 DEF Workers, Holds, IsCandidate, Resumed
  <1>5. Managed(manager, off)'
    BY <1>1 DEF Parts, Managed, NoCandidate
  <1>6. Loading'
    BY <1>1 DEF Parts, Loading, NothingLives
  <1> QED BY <1>1, <1>2, <1>3, <1>4, <1>5, <1>6 DEF PluginInv

\* hot_reload begins.
LEMMA HotReloadKeeps ==
  ASSUME PluginInv, Plugin!HotReload
  PROVE  PluginInv'
  <1> DEFINE m == [Plugin!Rest EXCEPT !.op = "hot", !.todo = Plugins]
  <1>1. /\ UNCHANGED <<kind, gens, closed, reg, worker, idle, off, ops>> /\ loaded' = TRUE
          /\ manager.op = "none"
        /\ manager' = m
    BY DEF Plugin!HotReload, Plugin!registry, Plugin!Managing
  <1>2. NoCandidate(manager)
    BY <1>1 DEF PluginInv, Managed, NoCandidate
  <1>3. m \in ManagerState /\ m.op = "hot" /\ NoCandidate(m)
    BY RestIs
  <1> HIDE DEF m
  <1> QED BY <1>1, <1>2, <1>3, ManagerKeeps DEF NoCandidate

\* hot_reload ends.
LEMMA HotDoneKeeps ==
  ASSUME PluginInv, Plugin!HotDone
  PROVE  PluginInv'
  <1>1. /\ UNCHANGED <<kind, gens, closed, reg, worker, idle, off, ops>> /\ loaded' = loaded
          /\ manager.op = "hot"
        /\ manager' = Plugin!Rest /\ manager.cand = [n \in Plugins |-> 0]
    BY DEF Plugin!HotDone, Plugin!registry, Plugin!Absent, Plugin!NoGen
  <1>2. loaded = TRUE
    BY <1>1 DEF PluginInv, Loading, PluginsAre
  <1>3. NoCandidate(manager)
    BY <1>1 DEF NoCandidate
  <1> QED BY <1>1, <1>2, <1>3, RestIs, ManagerKeeps DEF NoCandidate

\* The registry r has p pending and s staged for n, is disabling n or not, and is as now for the others.
RegWith(r, n, p, s, d) ==
    /\ r \in RegState
    /\ \A k \in Plugins : /\ r.active[k] = reg.active[k]
                          /\ r.pending[k] = IF k = n THEN p ELSE reg.pending[k]
                          /\ r.staged[k] = IF k = n THEN s ELSE reg.staged[k]
                          /\ k \in r.disabling <=> (k \in reg.disabling /\ k # n) \/ (k = n /\ d)

\* The registries with these fields.
RegOf(a_, p, s, d) == [active : {a_}, pending : {p}, staged : {s}, disabling : {d}]

\* A registry changed at one name.
LEMMA RegOfIs ==
  ASSUME NEW n \in Plugins, NEW r, NEW p \in [Plugins -> GenOrNone], NEW s \in [Plugins -> GenOrNone],
         NEW d \in SUBSET Plugins, reg.active \in [Plugins -> GenOrNone], NEW e, r \in RegOf(reg.active, p,
                 s, d),
         \A k \in Plugins : k # n => p[k] = reg.pending[k] /\ s[k] = reg.staged[k]
                 /\ (k \in d <=> k \in reg.disabling),
         n \in d <=> e
  PROVE  RegWith(r, n, p[n], s[n], e)
  <1>1. r.active = reg.active /\ r.pending = p /\ r.staged = s /\ r.disabling = d
    BY DEF RegOf
  <1>2. r \in RegState
    BY DEF RegOf, RegState
  <1> QED BY <1>1, <1>2 DEF RegWith

\* The changes management makes to the registry.
LEMMA RegEdits ==
  ASSUME reg \in RegState, NEW n \in Plugins, NEW g \in GenOrNone
  PROVE  /\ RegWith([reg EXCEPT !.pending[n] = g, !.disabling = @ \ {n}], n, g, reg.staged[n], FALSE)
         /\ RegWith([reg EXCEPT !.pending[n] = g, !.disabling = @ \cup {n}], n, g, reg.staged[n], TRUE)
         /\ RegWith([reg EXCEPT !.staged[n] = g], n, reg.pending[n], g, n \in reg.disabling)
  <1>1. /\ reg.active \in [Plugins -> GenOrNone] /\ reg.pending \in [Plugins -> GenOrNone]
        /\ reg.staged \in [Plugins -> GenOrNone] /\ reg.disabling \in SUBSET Plugins
        /\ reg \in RegOf(reg.active, reg.pending, reg.staged, reg.disabling)
    BY DEF RegState, RegOf
  <1> DEFINE P == [reg.pending EXCEPT ![n] = g]
             S == [reg.staged EXCEPT ![n] = g]
             D == reg.disabling \ {n}
             E == reg.disabling \cup {n}
             r1 == [reg EXCEPT !.pending = P, !.disabling = D]
             r2 == [reg EXCEPT !.pending = P, !.disabling = E]
             r3 == [reg EXCEPT !.staged = S]
  <1>2. /\ P \in [Plugins -> GenOrNone] /\ P[n] = g /\ \A k \in Plugins : k # n => P[k] = reg.pending[k]
        /\ S \in [Plugins -> GenOrNone] /\ S[n] = g /\ \A k \in Plugins : k # n => S[k] = reg.staged[k]
        /\ D \in SUBSET Plugins /\ E \in SUBSET Plugins /\ n \notin D /\ n \in E
        /\ \A k \in Plugins : k # n => (k \in D <=> k \in reg.disabling) /\ (k \in E <=> k \in reg.disabling)
    BY <1>1
  <1>3. /\ [reg EXCEPT !.pending[n] = g, !.disabling = @ \ {n}] = r1
        /\ [reg EXCEPT !.pending[n] = g, !.disabling = @ \cup {n}] = r2
        /\ [reg EXCEPT !.staged[n] = g] = r3
    OBVIOUS
  <1> HIDE DEF P, S, D, E
  <1>4. /\ r1 \in RegOf(reg.active, P, reg.staged, D)
        /\ r2 \in RegOf(reg.active, P, reg.staged, E)
        /\ r3 \in RegOf(reg.active, reg.pending, S, reg.disabling)
    BY <1>1 DEF RegOf
  <1> HIDE DEF r1, r2, r3
  <1>5. RegWith(r1, n, P[n], reg.staged[n], FALSE)
    BY <1>1, <1>2, <1>4, RegOfIs
  <1>6. RegWith(r2, n, P[n], reg.staged[n], TRUE)
    BY <1>1, <1>2, <1>4, RegOfIs
  <1>7. RegWith(r3, n, reg.pending[n], S[n], n \in reg.disabling)
    BY <1>1, <1>2, <1>4, RegOfIs
  <1> QED BY <1>2, <1>3, <1>5, <1>6, <1>7

\* None of them touches what is live.
LEMMA WithPins ==
  ASSUME NEW n \in Plugins, NEW p, NEW s, NEW d, NEW r, RegWith(r, n, p, s, d), NEW z, NEW all, Pins(reg, z,
          all)
  PROVE  Pins(r, z, all)
  BY DEF Pins, RegWith

\* Management with nothing launching, startup apart.
AfterOK(m) == m \in ManagerState /\ NoCandidate(m) /\ m.op # "load"

\* What management is once its candidate is through.
LEMMA AfterIs ==
  ASSUME PluginInv, manager.op \in {"enable", "reload", "hot"}
  PROVE  AfterOK(Plugin!AfterCandidate)
  <1>1. manager \in ManagerState
    BY DEF PluginInv, PluginsAre
  <1> DEFINE c == [n \in Plugins |-> 0]
  <1>2. c \in [Plugins -> GenOrNone] /\ \A n \in Plugins : c[n] = 0
    BY DEF GenOrNone
  <1>3. Plugin!Absent = c
    BY DEF Plugin!Absent, Plugin!NoGen
  <1> HIDE DEF c
  <1>4. CASE manager.op = "hot"
    <2>1. [manager EXCEPT !.cand = c] \in ManagerState
      BY <1>1, <1>2 DEF ManagerState
    <2>2. [manager EXCEPT !.cand = c].op = "hot" /\ [manager EXCEPT !.cand = c].cand = c
      BY <1>1, <1>4 DEF ManagerState
    <2> QED BY <1>2, <1>3, <1>4, <2>1, <2>2 DEF Plugin!AfterCandidate, AfterOK, NoCandidate
  <1>5. CASE manager.op # "hot"
    BY <1>5, RestIs DEF Plugin!AfterCandidate, AfterOK
  <1> QED BY <1>4, <1>5

\* The candidate of the operation that holds the registry lock.
LEMMA CandidateIs ==
  ASSUME PluginInv, NEW n \in Plugins, Plugin!RegistryLocked, manager.cand[n] # 0
  PROVE  /\ manager.op \in {"enable", "reload", "hot"} /\ manager.cand[n] \in Gens
            /\ gens[manager.cand[n]] = n
         /\ closed = "no" /\ n \notin off /\ loaded = TRUE
         /\ \A g \in Gens : IsCandidate(manager, g) => g = manager.cand[n]
  <1>1. manager.op \in {"enable", "reload", "hot"}
    BY DEF Plugin!RegistryLocked
  <1>2. manager \in ManagerState /\ Managed(manager, off) /\ (~loaded => manager.op = "none")
          /\ loaded \in BOOLEAN
    BY DEF PluginInv, PluginsAre, Loading
  <1>3. manager.cand[n] \in Gens
    BY <1>2 DEF ManagerState, GenOrNone
  <1>4. \A k \in Plugins : manager.cand[k] # 0 => k = n
    BY <1>1, <1>2 DEF Managed
  <1>5. \A g \in Gens : IsCandidate(manager, g) => g = manager.cand[n]
    BY <1>4, GateConstants DEF IsCandidate
  <1> QED BY <1>1, <1>2, <1>3, <1>5 DEF Managed

\* _enable and _replace: a candidate that is ready is staged, or published at once.
LEMMA CandidateReadyKeeps ==
  ASSUME PluginInv, NEW n \in Plugins, Plugin!CandidateReady(n)
  PROVE  OpsKept /\ PluginInv'
  <1> DEFINE g == manager.cand[n]
             w == [worker EXCEPT ![g] = "up"]
  <1>1. Parts /\ OpsFit /\ PluginsAre /\ reg \in RegState
    BY PartsAre DEF PluginInv, RegSound
  <1>2. /\ g \in Gens /\ gens[g] = n /\ closed = "no" /\ n \notin off /\ loaded = TRUE /\ g # 0
        /\ manager.op \in {"enable", "reload", "hot"}
        /\ \A h \in Gens : IsCandidate(manager, h) => h = g
    BY CandidateIs DEF Plugin!CandidateReady, Plugin!NoGen
  <1>3. UNCHANGED <<kind, gens, loaded, off, closed>> /\ manager' = Plugin!AfterCandidate /\ Plugin!Stage(n,
          g, w)
    BY DEF Plugin!CandidateReady
  <1>4. AfterOK(manager')
    BY <1>2, <1>3, AfterIs
  <1>5. w \in [Gens -> WorkerState] /\ \A h \in Gens : h # g => w[h] = worker[h]
    BY <1>1, <1>2 DEF Parts, WorkerState
  <1>6. w[g] = "up"
    BY <1>1, <1>2 DEF Parts
  <1> HIDE DEF g, w
  <1>7. Managed(manager', off')
    BY <1>4 DEF AfterOK, Managed, NoCandidate
  <1>8. g \in GenOrNone
    BY <1>2 DEF GenOrNone
  <1>9. ASSUME NEW r, NEW earlier, OpsKept, OpsFit', RestartsGoOn, RegSound(r), Undone(r, off), Windows(r,
          ops'),
               Pins(r, idle, ops), Plugin!Publish(r, w, idle, {earlier} \ {0}, Plugin!PinnedBy(ops)),
                       Holds(r, g),
               \A h \in Gens : Holds(reg, h) => Holds(r, h) \/ h = earlier
        PROVE  PluginInv'
    <2>1. ops' \in [OpNames -> OpState] /\ Pins(r, idle, ops')
      BY <1>9, PinsKept DEF OpsKept
    <2>2. \A h \in Gens : Resumed(h, ops) => Resumed(h, ops')
      BY <1>9, ResumedKept
    <2>3. PinsAll(Plugin!PinnedBy(ops), ops')
      <3>1. PinsAll(Plugin!PinnedBy(ops), ops)
        BY <1>1, PinnedAll DEF Parts
      <3> QED BY <1>9, <3>1 DEF PinsAll, OpsKept, OpKept
    <2>4. Settles(r, w, idle, {earlier} \ {0}, Plugin!PinnedBy(ops))
      BY <1>9, PublishSettles
    <2>5. Workers(r, w, idle, {earlier} \ {0}, manager', ops')
      <3>1. ASSUME NEW h \in Gens
            PROVE  /\ w[h] = "up" => closed = "no" /\ (h \in {earlier} \ {0} \/ Holds(r, h)
                      \/ IsCandidate(manager', h))
                   /\ w[h] = "launching" => (closed = "no" /\ IsCandidate(manager', h)) \/ (h \in idle
                           /\ Resumed(h, ops'))
        <4>0. h # 0
          BY GateConstants
        <4>1. CASE h = g
          BY <1>2, <1>6, <1>9, <4>1
        <4>2. CASE h # g
          BY <1>1, <1>2, <1>5, <1>9, <2>2, <4>0, <4>2 DEF Parts, Workers
        <4> QED BY <4>1, <4>2
      <3> QED BY <3>1 DEF Workers
    <2>6. /\ Undone(r, off') /\ off' \subseteq Plugins /\ manager' \in ManagerState /\ manager'.op # "load"
            /\ Still /\ Parks(idle)
      BY <1>1, <1>3, <1>4, <1>9 DEF Still, Parts, AfterOK
    <2> QED BY <1>2, <1>5, <1>7, <1>9, <2>1, <2>3, <2>4, <2>5, <2>6, SettleKeeps
  <1>10. CASE reg.active[n] # 0
    <2> DEFINE r == [reg EXCEPT !.pending[n] = g, !.disabling = @ \ {n}]
    <2>1. RegWith(r, n, g, reg.staged[n], FALSE)
      BY <1>1, <1>8, RegEdits
    <2>2. /\ Plugin!Publish(r, w, idle, {reg.pending[n]} \ {0}, Plugin!PinnedBy(ops))
            /\ ops' = Plugin!Dismissed(n)
      BY <1>3, <1>10 DEF Plugin!Stage, Plugin!NoGen
    <2> HIDE DEF r
    <2>3. OpsKept /\ OpsFit'
      BY <1>1, <2>2, DismissedOps
    <2>4. RestartsGoOn
      <3>1. \A o \in OpNames : ops'[o].out = ops[o].out
        BY ZenonT(60), <1>1, <2>2, DismissedIs DEF RecordOf
      <3> QED BY <3>1 DEF RestartsGoOn, OpNames
    <2>5. RegSound(r)
      BY <1>1, <1>2, <1>10, <2>1 DEF RegWith, RegSound, Parts
    <2>6. Undone(r, off) /\ Pins(r, idle, ops)
      <3>1. Undone(r, off)
        BY <1>1, <1>2, <2>1 DEF RegWith, Undone, Parts
      <3>2. Pins(r, idle, ops)
        BY <1>1, <2>1, WithPins DEF Parts
      <3> QED BY <3>1, <3>2
    <2>7. Windows(r, ops')
      <3>1. Windows(reg, ops')
        BY <1>1, <2>3, WindowsKept DEF Parts
      <3>2. r.disabling \subseteq reg.disabling
        BY <1>1, <2>1 DEF RegWith, RegState
      <3> QED BY <3>1, <3>2 DEF Windows
    <2>8. Holds(r, g) /\ \A h \in Gens : Holds(reg, h) => Holds(r, h) \/ h = reg.pending[n]
      BY <2>1 DEF RegWith, Holds
    <2>9. PluginInv'
      BY <1>9, <2>2, <2>3, <2>4, <2>5, <2>6, <2>7, <2>8
    <2> QED BY SMTT(40), <2>3, <2>9
  <1>11. CASE reg.active[n] = 0
    <2> DEFINE r == [reg EXCEPT !.staged[n] = g]
    <2>1. RegWith(r, n, reg.pending[n], g, n \in reg.disabling)
      BY <1>1, <1>8, RegEdits
    <2>2. /\ Plugin!Publish(r, w, idle, {reg.staged[n]} \ {0}, Plugin!PinnedBy(ops)) /\ ops' = ops
      BY <1>3, <1>11 DEF Plugin!Stage, Plugin!NoGen
    <2> HIDE DEF r
    <2>3. OpsKept /\ OpsFit'
      BY <1>1, <2>2, OpsFitKept DEF OpsKept, OpKept, Parts
    <2>4. RestartsGoOn
      BY <2>2 DEF RestartsGoOn
    <2>5. RegSound(r)
      BY <1>1, <1>2, <1>11, <2>1 DEF RegWith, RegSound, Parts
    <2>6. Undone(r, off) /\ Pins(r, idle, ops)
      <3>1. Undone(r, off)
        BY <1>1, <1>2, <2>1 DEF RegWith, Undone, Parts
      <3>2. Pins(r, idle, ops)
        BY <1>1, <2>1, WithPins DEF Parts
      <3> QED BY <3>1, <3>2
    <2>7. Windows(r, ops')
      <3>1. r.disabling \subseteq reg.disabling
        BY <1>1, <2>1 DEF RegWith, RegState
      <3> QED BY <1>1, <2>2, <3>1 DEF Windows, Parts
    <2>8. Holds(r, g) /\ \A h \in Gens : Holds(reg, h) => Holds(r, h) \/ h = reg.staged[n]
      BY <2>1 DEF RegWith, Holds
    <2>9. PluginInv'
      BY <1>9, <2>2, <2>3, <2>4, <2>5, <2>6, <2>7, <2>8
    <2> QED BY <2>3, <2>9
  <1> QED BY <1>10, <1>11

\* A candidate that fails is discarded.
LEMMA CandidateFailsKeeps ==
  ASSUME PluginInv, NEW n \in Plugins, Plugin!CandidateFails(n)
  PROVE  PluginInv'
  <1> DEFINE g == manager.cand[n]
  <1>1. Parts /\ OpsFit'
    BY PartsAre, OpsFitKept DEF PluginInv, Plugin!CandidateFails
  <1>2. /\ g \in Gens /\ loaded = TRUE /\ manager.op \in {"enable", "reload", "hot"}
        /\ \A h \in Gens : IsCandidate(manager, h) => h = g
    BY CandidateIs DEF Plugin!CandidateFails, Plugin!NoGen
  <1>3. /\ UNCHANGED <<kind, gens, reg, idle, loaded, off, closed, ops>> /\ manager' = Plugin!AfterCandidate
        /\ worker' = [worker EXCEPT ![g] = "closed"]
    BY DEF Plugin!CandidateFails
  <1>4. AfterOK(manager')
    BY <1>2, <1>3, AfterIs
  <1>5. worker' \in [Gens -> WorkerState] /\ worker'[g] = "closed" /\ \A h \in Gens : h # g
          => worker'[h] = worker[h]
    BY <1>1, <1>2, <1>3 DEF Parts, WorkerState
  <1> HIDE DEF g
  <1>6. Managed(manager', off')
    BY <1>4 DEF AfterOK, Managed, NoCandidate
  <1>7. Workers(reg, worker', idle, {}, manager', ops)
    BY <1>1, <1>2, <1>5 DEF Parts, Workers
  <1> QED BY <1>1, <1>2, <1>3, <1>4, <1>5, <1>6, <1>7, Holding DEF Parts, Still, AfterOK

\* manage("disable"): what waits is retired, windows close, what the plugin intercepts is cut.
LEMMA RetireKeeps ==
  ASSUME PluginInv, NEW n \in Plugins, Plugin!Retire(n), Still, off' \in {off, off \cup {n}},
         AfterOK(manager'), NoCandidate(manager), loaded, manager.op # "load"
  PROVE  OpsKept /\ PluginInv'
  <1>1. Parts /\ OpsFit /\ PluginsAre /\ reg \in RegState /\ 0 \in GenOrNone
    BY PartsAre DEF PluginInv, RegSound, GenOrNone
  <1>2. Managed(manager', off') /\ off' \subseteq Plugins /\ manager' \in ManagerState /\ manager'.op # "load"
    BY <1>1 DEF AfterOK, Managed, NoCandidate, Parts
  <1>3. \A g \in Gens : ~IsCandidate(manager, g)
    BY GateConstants DEF IsCandidate, NoCandidate
  <1>4. ASSUME NEW r, NEW gone, NEW p, OpsKept, OpsFit', RestartsGoOn, RegSound(r), Undone(r, off'),
          Windows(r, ops'),
               Pins(r, idle, ops), Settles(r, worker, idle, gone, p), PinsAll(p, ops'),
               \A h \in Gens : Holds(reg, h) => Holds(r, h) \/ h \in gone
        PROVE  PluginInv'
    <2>1. ops' \in [OpNames -> OpState] /\ Pins(r, idle, ops')
      BY <1>4, PinsKept DEF OpsKept
    <2>2. \A h \in Gens : Resumed(h, ops) => Resumed(h, ops')
      BY <1>4, ResumedKept
    <2>3. Workers(r, worker, idle, gone, manager', ops')
      BY <1>1, <1>3, <1>4, <2>2 DEF Workers, Parts
    <2>4. worker \in [Gens -> WorkerState] /\ Parks(idle)
      BY <1>1 DEF Parts
    <2> QED BY <1>2, <1>4, <2>1, <2>3, <2>4, SettleKeeps
  <1>5. CASE reg.active[n] = 0
    <2> DEFINE r == [reg EXCEPT !.staged[n] = 0]
    <2>1. RegWith(r, n, reg.pending[n], 0, n \in reg.disabling)
      BY <1>1, RegEdits
    <2>2. reg' = r /\ worker' = Plugin!Closing(worker, {reg.staged[n]}) /\ idle' = idle /\ ops' = ops
      BY <1>5 DEF Plugin!Retire, Plugin!NoGen
    <2> HIDE DEF r
    <2>3. OpsKept /\ OpsFit' /\ RestartsGoOn
      BY <1>1, <2>2, OpsFitKept DEF OpsKept, OpKept, Parts, RestartsGoOn
    <2>4. RegSound(reg) /\ Undone(reg, off) /\ off \subseteq Plugins
      BY <1>1 DEF Parts
    <2>5. RegSound(r)
      BY <2>1, <2>4 DEF RegWith, RegSound
    <2>6. Undone(r, off')
      BY <1>5, <2>1, <2>4 DEF RegWith, Undone, RegSound
    <2>7. Pins(r, idle, ops)
      BY <1>1, <2>1, WithPins DEF Parts
    <2>8. Windows(r, ops')
      <3>1. r.disabling \subseteq reg.disabling
        BY <1>1, <2>1 DEF RegWith, RegState
      <3> QED BY <1>1, <2>2, <3>1 DEF Windows, Parts
    <2>9. \A h \in Gens : Holds(reg, h) => Holds(r, h) \/ h \in {reg.staged[n]}
      BY <2>1 DEF RegWith, Holds
    <2>10. Settles(r, worker, idle, {reg.staged[n]}, Plugin!PinnedBy(ops'))
      BY <2>2 DEF Settles
    <2>11. PinsAll(Plugin!PinnedBy(ops'), ops')
      BY <2>3, PinnedAll DEF OpsKept
    <2> QED BY SMTT(40), <1>4, <2>3, <2>5, <2>6, <2>7, <2>8, <2>9, <2>10, <2>11
  <1>6. CASE reg.active[n] # 0
    <2> DEFINE r == [reg EXCEPT !.pending[n] = 0, !.disabling = @ \cup {n}]
    <2>1. RegWith(r, n, 0, reg.staged[n], TRUE)
      BY <1>1, RegEdits
    <2>2. ops' = Cut(n) /\ Plugin!Publish(r, worker, idle, {reg.pending[n]} \ {0}, Plugin!PinnedBy(Cut(n)))
      BY <1>6 DEF Plugin!Retire, Plugin!NoGen, Cut
    <2> HIDE DEF r
    <2>3. /\ OpsKept /\ OpsFit'
          /\ \A o \in OpNames : ops'[o].out = "running" /\ gens[ops'[o].chain[1]] = n => ops'[o].view = FALSE
      BY <1>1, <2>2, CutOps
    <2>4. RestartsGoOn
      <3>1. \A o \in OpNames : ops'[o].out = ops[o].out
        <4>1. ASSUME NEW o \in OpNames PROVE ops'[o].out = ops[o].out
          <5>1. Plugin!Dismissed(n)[o].out = ops[o].out
            BY ZenonT(60), <1>1, DismissedIs DEF RecordOf
          <5> DEFINE d == Plugin!Dismissed(n)[o]
          <5>2. \E u : ops'[o] = [d EXCEPT !.cut = u]
            BY <2>2 DEF Cut, Plugin!Ops, OpNames
          <5>3. d.out = ops[o].out
            BY <5>1
          <5>4. \A u : [d EXCEPT !.cut = u].out = d.out
            <6> HIDE DEF d
            <6> QED OBVIOUS
          <5> HIDE DEF d
          <5> QED BY <5>2, <5>3, <5>4
        <4> QED BY <4>1
      <3> QED BY <3>1 DEF RestartsGoOn, OpNames
    <2>5. RegSound(reg) /\ Undone(reg, off) /\ off \subseteq Plugins /\ Windows(reg, ops)
      BY <1>1 DEF Parts
    <2>6. RegSound(r)
      BY <2>1, <2>5 DEF RegWith, RegSound
    <2>7. Undone(r, off')
      BY <1>6, <2>1, <2>5 DEF RegWith, Undone, RegSound
    <2>8. Pins(r, idle, ops)
      BY <1>1, <2>1, WithPins DEF Parts
    <2>9. Windows(r, ops')
      <3>1. Windows(reg, ops')
        BY <2>3, <2>5, WindowsKept
      <3>2. \A k \in r.disabling : k \in reg.disabling \/ k = n
        BY <1>1, <2>1 DEF RegWith, RegState
      <3> QED BY <2>3, <3>1, <3>2 DEF Windows, OpNames
    <2>10. \A h \in Gens : Holds(reg, h) => Holds(r, h) \/ h \in {reg.pending[n]} \ {0}
      BY <2>1, GateConstants DEF RegWith, Holds
    <2>11. Settles(r, worker, idle, {reg.pending[n]} \ {0}, Plugin!PinnedBy(ops'))
      BY <2>2, PublishSettles
    <2>12. PinsAll(Plugin!PinnedBy(ops'), ops')
      BY <2>3, PinnedAll DEF OpsKept
    <2> QED BY SMTT(40), <1>4, <2>3, <2>4, <2>6, <2>7, <2>8, <2>9, <2>10, <2>11, <2>12
  <1> QED BY <1>5, <1>6

\* A disable, of a plugin that lives or of one that does not.
LEMMA DisableKeeps ==
  ASSUME PluginInv, NEW n \in Plugins, Plugin!Disable(n)
  PROVE  OpsKept /\ PluginInv'
  <1>1. manager.op = "none" /\ NoCandidate(manager) /\ loaded /\ closed = "no" /\ Parts
    BY IsManaged, PartsAre DEF Plugin!Disable
  <1>2. UNCHANGED <<kind, gens, manager, loaded, closed>> /\ off' = off \cup {n}
    BY DEF Plugin!Disable
  <1>3. AfterOK(manager') /\ Still
    BY <1>1, <1>2 DEF AfterOK, Still, Parts, NoCandidate
  <1>4. CASE Plugin!Retire(n)
    BY <1>1, <1>2, <1>3, <1>4, RetireKeeps
  <1>5. CASE reg.active[n] = 0 /\ reg.staged[n] = 0 /\ UNCHANGED <<reg, worker, idle, ops>>
    <2>1. OpsFit' /\ OpsKept
      BY <1>1, <1>5, OpsFitKept DEF PluginInv, OpsKept, OpKept, Parts
    <2>2. Undone(reg, off') /\ off' \subseteq Plugins
      BY <1>1, <1>2, <1>5 DEF Parts, Undone, RegSound
    <2>3. Managed(manager, off')
      BY <1>1 DEF Managed, NoCandidate
    <2> QED BY <1>1, <1>2, <1>3, <1>5, <2>1, <2>2, <2>3, Holding DEF Parts
  <1> QED BY <1>4, <1>5 DEF Plugin!Disable, Plugin!registry, Plugin!NoGen

\* hot_reload goes to the next name.
LEMMA HotNextKeeps ==
  ASSUME PluginInv, NEW n \in Plugins, Plugin!HotNext(n)
  PROVE  PluginInv' /\ Honest
  <1> DEFINE rest == [manager EXCEPT !.todo = @ \ {n}]
  <1>1. Parts /\ OpsFit
    BY PartsAre DEF PluginInv
  <1>2. manager.op = "hot" /\ manager.cand = Plugin!Absent /\ UNCHANGED <<kind, loaded, closed>> /\ loaded
    BY <1>1 DEF Plugin!HotNext, Parts
  <1>3. NoCandidate(manager)
    BY <1>2 DEF NoCandidate, Plugin!Absent, Plugin!NoGen
  <1>4. rest \in ManagerState /\ rest.op = "hot" /\ rest.cand = manager.cand
    BY <1>1, <1>2 DEF Parts, ManagerState
  <1>5. \/ /\ closed # "no" /\ manager' = rest /\ UNCHANGED <<gens, reg, worker, idle, off, ops>>
        \/ /\ closed = "no" /\ Plugin!Launch(n, rest) /\ off' = off \ {n} /\ UNCHANGED <<reg, ops>>
        \/ /\ manager' = rest /\ UNCHANGED <<reg, worker, idle, gens, off, ops>>
        \/ /\ manager' = rest /\ Plugin!Retire(n) /\ UNCHANGED <<gens, off>>
    BY DEF Plugin!HotNext, Plugin!registry
  <1> HIDE DEF rest
  <1>6. NoCandidate(rest) /\ AfterOK(rest)
    BY <1>3, <1>4 DEF NoCandidate, AfterOK
  <1>7. CASE manager' = rest /\ UNCHANGED <<gens, reg, worker, idle, off, ops>>
    <2>1. loaded' = TRUE
      BY <1>1, <1>2 DEF Parts, PluginsAre
    <2>2. PluginInv'
      BY <1>2, <1>3, <1>4, <1>7, <2>1, ManagerKeeps
    <2> QED BY <1>7, <2>2 DEF Honest
  <1>8. CASE closed = "no" /\ Plugin!Launch(n, rest) /\ off' = off \ {n} /\ UNCHANGED <<reg, ops>>
    <2>1. PluginInv'
      BY <1>2, <1>3, <1>4, <1>6, <1>8, LaunchKeeps
    <2> QED BY <1>8, <2>1 DEF Honest
  <1>9. CASE manager' = rest /\ Plugin!Retire(n) /\ UNCHANGED <<gens, off>>
    <2>1. Still /\ AfterOK(manager') /\ off' \in {off, off \cup {n}}
      BY <1>2, <1>6, <1>9 DEF Still
    <2>2. OpsKept /\ PluginInv'
      BY <1>2, <1>3, <1>9, <2>1, RetireKeeps
    <2> QED BY <2>2 DEF OpsKept, OpKept, Honest
  <1> QED BY <1>5, <1>7, <1>8, <1>9

\* A launch at startup ends.
LEMMA LoadLaunchedKeeps ==
  ASSUME PluginInv, NEW n \in Plugins, Plugin!LoadLaunched(n)
  PROVE  PluginInv'
  <1> DEFINE g == manager.cand[n]
  <1>1. Parts /\ OpsFit'
    BY PartsAre, OpsFitKept DEF PluginInv, Plugin!LoadLaunched
  <1>2. /\ manager.op = "load" /\ g # 0 /\ worker[g] = "launching"
        /\ UNCHANGED <<kind, gens, manager, reg, idle, loaded, off, closed, ops>>
    BY DEF Plugin!LoadLaunched, Plugin!NoGen
  <1>3. PICK end \in {"up", "closed"} : worker' = [worker EXCEPT ![g] = end]
    BY DEF Plugin!LoadLaunched
  <1>4. g \in Gens /\ idle = {} /\ IsCandidate(manager, g) /\ loaded
    BY <1>1, <1>2 DEF Parts, ManagerState, GenOrNone, NothingLives, IsCandidate
  <1> HIDE DEF g
  <1>5. worker' \in [Gens -> WorkerState] /\ worker'[g] = end /\ \A h \in Gens : h # g
          => worker'[h] = worker[h]
    BY <1>1, <1>3, <1>4 DEF Parts, WorkerState
  <1>6. closed = "no"
    BY <1>1, <1>2, <1>4 DEF Parts, Workers
  <1>7. Workers(reg, worker', idle, {}, manager, ops)
    BY <1>1, <1>4, <1>5, <1>6 DEF Parts, Workers
  <1> QED BY <1>1, <1>2, <1>4, <1>5, <1>7, Holding DEF Parts, Still

\* enable_many: the plugins that came up are admitted together.
LEMMA AdmitLaunchedKeeps ==
  ASSUME PluginInv, Plugin!AdmitLaunched
  PROVE  PluginInv'
  <1>1. Parts /\ OpsFit'
    BY PartsAre, OpsFitKept DEF PluginInv, Plugin!AdmitLaunched
  <1> DEFINE up == {n \in Plugins : manager.cand[n] # 0 /\ worker[manager.cand[n]] = "up"}
             S(a_) == [n \in Plugins |-> IF n \in a_ THEN manager.cand[n] ELSE 0]
             gone(a_) == {manager.cand[n] : n \in up \ a_}
  <1>2. /\ manager.op = "load" /\ \A n \in Plugins : manager.cand[n] # 0
          => worker[manager.cand[n]] # "launching"
        /\ manager' = Plugin!Rest /\ UNCHANGED <<kind, gens, loaded, off, closed, ops>>
    BY DEF Plugin!AdmitLaunched, Plugin!NoGen
  <1>3. PICK adm \in SUBSET up : Plugin!Publish([reg EXCEPT !.staged = S(adm)], worker, idle, gone(adm),
          Plugin!PinnedBy(ops))
    BY DEF Plugin!AdmitLaunched, Plugin!NoGen
  <1> DEFINE r == [reg EXCEPT !.staged = S(adm)]
  <1>4. NothingLives(reg, idle, off, ops) /\ reg = Nothing /\ loaded
    BY <1>1, <1>2 DEF Parts, NothingLives, Nothing
  <1>5. manager.cand \in [Plugins -> GenOrNone]
    BY <1>1 DEF Parts, ManagerState
  <1>6. S(adm) \in [Plugins -> GenOrNone]
          /\ \A n \in Plugins : S(adm)[n] = IF n \in adm THEN manager.cand[n] ELSE 0
    BY <1>5 DEF GenOrNone
  <1>7. \A n \in Plugins : n \in up <=> manager.cand[n] # 0 /\ worker[manager.cand[n]] = "up"
    OBVIOUS
  <1>8. \A g : g \in gone(adm) <=> \E n \in up : n \notin adm /\ g = manager.cand[n]
    OBVIOUS
  <1> HIDE DEF up, S, gone
  <1>9. /\ r = [active |-> [n \in Plugins |-> 0], pending |-> [n \in Plugins |-> 0], staged |-> S(adm),
          disabling |-> {}]
    BY <1>4 DEF Nothing
  <1>10. r \in RegState
    BY <1>6, <1>9 DEF RegState, GenOrNone
  <1>11. /\ \A n \in Plugins : /\ r.active[n] = 0 /\ r.pending[n] = 0
                               /\ r.staged[n] = IF n \in adm THEN manager.cand[n] ELSE 0
         /\ r.disabling = {}
    BY <1>6, <1>9
  <1> HIDE DEF r
  <1>12. RegSound(r)
    BY <1>1, <1>2, <1>7, <1>10, <1>11 DEF RegSound, Parts, Managed
  <1>13. Pins(r, idle, ops') /\ Parks(idle) /\ Undone(r, off') /\ off' \subseteq Plugins /\ Windows(r, ops')
    BY <1>1, <1>2, <1>4, <1>11 DEF NothingLives, Pins, Parks, Undone, Windows, OpNames
  <1>14. Workers(r, worker, idle, gone(adm), manager', ops')
    <2>1. ASSUME NEW g \in Gens
          PROVE  /\ worker[g] = "up" => closed = "no" /\ (g \in gone(adm) \/ Holds(r, g)
                    \/ IsCandidate(manager', g))
                 /\ worker[g] # "launching"
      <3>1. g # 0 /\ ~Holds(reg, g) /\ g \notin idle
        BY <1>4, GateConstants DEF Holds, Nothing, NothingLives
      <3>2. worker[g] # "launching"
        BY <1>1, <1>2, <3>1 DEF Parts, Workers, IsCandidate
      <3>3. ASSUME worker[g] = "up" PROVE closed = "no" /\ (g \in gone(adm) \/ Holds(r, g))
        <4>1. closed = "no" /\ IsCandidate(manager, g)
          BY <1>1, <3>1, <3>3 DEF Parts, Workers
        <4>2. PICK n \in Plugins : manager.cand[n] = g
          BY <4>1 DEF IsCandidate
        <4>3. n \in up
          BY <1>7, <3>1, <3>3, <4>2
        <4> QED BY <1>8, <1>11, <4>1, <4>2, <4>3 DEF Holds
      <3> QED BY <3>2, <3>3
    <2> QED BY <2>1 DEF Workers
  <1>15. manager' \in ManagerState /\ Managed(manager', off') /\ manager'.op # "load" /\ Still
    BY <1>2, RestIs DEF Managed, NoCandidate, Still
  <1>16. PinsAll(Plugin!PinnedBy(ops), ops') /\ ops' \in [OpNames -> OpState]
    BY <1>1, <1>2, PinnedAll DEF Parts
  <1>17. Settles(r, worker, idle, gone(adm), Plugin!PinnedBy(ops)) /\ worker \in [Gens -> WorkerState]
    BY <1>1, <1>3, PublishSettles DEF r, Parts
  <1> QED BY <1>1, <1>4, <1>12, <1>13, <1>14, <1>15, <1>16, <1>17, SettleKeeps

\* _load: every enabled plugin is launched under a number of its own.
LEMMA LoadPluginsKeeps ==
  ASSUME PluginInv, Plugin!Load
  PROVE  PluginInv'
  <1>1. Parts /\ OpsFit'
    BY PartsAre, OpsFitKept DEF PluginInv, Plugin!Load
  <1> DEFINE on == {n \in Plugins : saved[n]}
  <1>2. /\ manager.op = "none" /\ ~loaded /\ closed = "no" /\ loaded' = TRUE
        /\ UNCHANGED <<kind, reg, idle, off, closed, ops>>
    BY DEF Plugin!Load, Plugin!Managing
  <1>3. PICK f \in [on -> Gens] :
           /\ Plugin!IsInjective(f)
           /\ gens' = [g \in Gens |-> IF g \in Plugin!Range(f) THEN Plugin!Inverse(f, on,
                   Plugin!Range(f))[g] ELSE gens[g]]
           /\ worker' = [g \in Gens |-> IF g \in Plugin!Range(f) THEN "launching" ELSE worker[g]]
           /\ manager' = IF on = {} THEN Plugin!Rest
                         ELSE [op |-> "load", todo |-> {},
                               cand |-> [n \in Plugins |-> IF n \in on THEN f[n] ELSE 0]]
    BY DEF Plugin!Load, Plugin!NoGen
  <1>4. \A g : g \in Plugin!Range(f) <=> \E n \in on : f[n] = g
    BY DEF Plugin!Range
  <1>5. \A n, k \in on : f[n] = f[k] => n = k
    BY <1>3 DEF Plugin!IsInjective
  <1>6. on \subseteq Plugins
    OBVIOUS
  <1> HIDE DEF on
  <1>7. ASSUME NEW n \in on PROVE gens'[f[n]] = n
    <2>1. f[n] \in Plugin!Range(f) /\ f[n] \in Gens
      BY <1>4
    <2>2. Plugin!Inverse(f, on, Plugin!Range(f))[f[n]] = CHOOSE s \in on : f[n] \in Plugin!Range(f)
            => f[s] = f[n]
      BY <2>1 DEF Plugin!Inverse
    <2>3. (CHOOSE s \in on : f[n] \in Plugin!Range(f) => f[s] = f[n]) = n
      BY <1>5, <2>1
    <2> QED BY <1>3, <2>1, <2>2, <2>3
  <1>8. gens' = [g \in Gens |-> gens'[g]] /\ worker' \in [Gens -> WorkerState]
    BY <1>1, <1>3 DEF Parts, WorkerState
  <1>9. /\ manager' \in ManagerState /\ manager'.op \in {"load", "none"}
        /\ \A n \in Plugins : manager'.cand[n] = IF n \in on THEN f[n] ELSE 0
    <2> DEFINE c == [n \in Plugins |-> IF n \in on THEN f[n] ELSE 0]
    <2>1. c \in [Plugins -> GenOrNone]
      BY DEF GenOrNone
    <2>2. CASE on = {}
      BY <1>3, <2>2, RestIs DEF NoCandidate
    <2>3. CASE on # {}
      <3>1. manager' = [op |-> "load", todo |-> {}, cand |-> c]
        BY <1>3, <2>3
      <3>2. \A n \in Plugins : c[n] = IF n \in on THEN f[n] ELSE 0
        OBVIOUS
      <3> HIDE DEF c
      <3> QED BY <2>1, <3>1, <3>2 DEF ManagerState
    <2> QED BY <2>2, <2>3
  <1>10. manager'.op = "none" => on = {}
    BY <1>3
  <1>11. NothingLives(reg, idle, off, ops) /\ reg = Nothing /\ \A g \in Gens : worker[g] = "closed"
    BY <1>1, <1>2 DEF Parts, NothingLives, Nothing
  <1>12. PluginsAre'
    BY <1>1, <1>2, <1>8, <1>9 DEF Parts, PluginsAre
  <1>13. RegSound(reg)' /\ Undone(reg, off)' /\ Windows(reg, ops)' /\ Pins(reg, idle, ops)'
          /\ (off \subseteq Plugins)'
         /\ Parks(idle)'
    <2>1. Nothing \in RegState
      BY DEF Nothing, RegState, GenOrNone
    <2>2. /\ \A n \in Plugins : Nothing.active[n] = 0 /\ Nothing.pending[n] = 0 /\ Nothing.staged[n] = 0
          /\ Nothing.disabling = {}
      BY DEF Nothing
    <2> QED BY <1>2, <1>11, <2>1, <2>2 DEF RegSound, Undone, Windows, Pins, Parks, NothingLives
  <1>14. Workers(reg, worker, idle, {}, manager, ops)'
    <2>1. ASSUME NEW g \in Gens
          PROVE  worker'[g] # "up" /\ (worker'[g] = "launching" => IsCandidate(manager', g))
      BY <1>3, <1>4, <1>6, <1>9, <1>11 DEF IsCandidate
    <2> QED BY <1>2, <2>1 DEF Workers, IsCandidate
  <1>15. Managed(manager, off)'
    BY <1>7, <1>9, <1>10 DEF Managed
  <1>16. Loading'
    BY <1>2, <1>11 DEF Loading, NothingLives
  <1> QED BY <1>1, <1>12, <1>13, <1>14, <1>15, <1>16 DEF PluginInv

\* Each step of management keeps the invariant.
LEMMA ManagementKeeps ==
  ASSUME PluginInv, Plugin!Management
  PROVE  PluginInv' /\ Honest
  <1>0. (OpsKept => Honest) /\ (UNCHANGED ops => Honest)
    BY DEF OpsKept, OpKept, Honest
  <1>1. ASSUME NEW n \in Plugins,
               \/ Plugin!Enable(n) \/ Plugin!Reload(n) \/ Plugin!Disable(n) \/ Plugin!HotNext(n)
               \/ Plugin!CandidateReady(n) \/ Plugin!CandidateFails(n) \/ Plugin!LoadLaunched(n)
        PROVE  PluginInv' /\ Honest
    <2>1. CASE Plugin!Enable(n) \/ Plugin!Reload(n)
      BY <1>0, <2>1, EnableKeeps DEF Plugin!Enable, Plugin!Reload
    <2>2. CASE Plugin!Disable(n)
      BY <1>0, <2>2, DisableKeeps
    <2>3. CASE Plugin!HotNext(n)
      BY <2>3, HotNextKeeps
    <2>4. CASE Plugin!CandidateReady(n)
      BY <1>0, <2>4, CandidateReadyKeeps
    <2>5. CASE Plugin!CandidateFails(n)
      BY <1>0, <2>5, CandidateFailsKeeps DEF Plugin!CandidateFails
    <2>6. CASE Plugin!LoadLaunched(n)
      BY <1>0, <2>6, LoadLaunchedKeeps DEF Plugin!LoadLaunched
    <2> QED BY <1>1, <2>1, <2>2, <2>3, <2>4, <2>5, <2>6
  <1>2. CASE Plugin!HotReload
    BY <1>0, <1>2, HotReloadKeeps DEF Plugin!HotReload
  <1>3. CASE Plugin!HotDone
    BY <1>0, <1>3, HotDoneKeeps DEF Plugin!HotDone
  <1>4. CASE Plugin!Load
    BY <1>0, <1>4, LoadPluginsKeeps DEF Plugin!Load
  <1>5. CASE Plugin!AdmitLaunched
    BY <1>0, <1>5, AdmitLaunchedKeeps DEF Plugin!AdmitLaunched
  <1> QED BY <1>1, <1>2, <1>3, <1>4, <1>5 DEF Plugin!Management

\* Each step of the plugin host keeps PluginInv and is honest.
LEMMA PluginStep ==
  ASSUME PluginInv, Next
  PROVE  PluginInv' /\ Honest
  <1>0. UNCHANGED ops => Honest
    BY DEF Honest
  <1>1. CASE part = "plugin" /\ Plugin!Next
    <2>1. CASE Plugin!Management
      BY <2>1, ManagementKeeps
    <2>2. CASE \E o \in OpNames : Plugin!Operation(o)
      BY <2>2, OperationKeeps
    <2>3. CASE \E g \in Gens : Plugin!WorkerDies(g) \/ Plugin!WorkerClosed(g)
      <3>1. PICK g \in Gens : Plugin!WorkerDies(g) \/ Plugin!WorkerClosed(g)
        BY <2>3
      <3>2. /\ UNCHANGED <<kind, gens, idle, reg, manager, loaded, off, closed, ops>>
            /\ worker' = [worker EXCEPT ![g] = "closed"] /\ worker[g] # "closed"
        BY <3>1 DEF Plugin!WorkerDies, Plugin!WorkerClosed
      <3> QED BY <1>0, <3>2, WorkerKeeps
    <2>4. CASE Plugin!StartTurn \/ Plugin!Closed
      BY <1>0, <2>4, RestKeepsPlugins DEF Plugin!StartTurn, Plugin!Closed, Plugin!registry
    <2>5. CASE Plugin!FinishTurn
      BY <1>0, <2>5, FinishTurnKeeps DEF Plugin!FinishTurn
    <2>6. CASE Plugin!Sweep
      BY <1>0, <2>6, SweepKeeps DEF Plugin!Sweep
    <2>7. CASE Plugin!Close
      BY <1>0, <2>7, CloseKeeps DEF Plugin!Close
    <2> QED BY <1>1, <2>1, <2>2, <2>3, <2>4, <2>5, <2>6, <2>7 DEF Plugin!Next, Plugin!Ops, OpNames
  <1>2. CASE UNCHANGED pluginVars
    BY <1>0, <1>2, RestKeepsPlugins DEF pluginVars
  <1> QED BY <1>1, <1>2 DEF Next, vars

\* Nothing lives at the start.
LEMMA PluginInit == Init => PluginInv
  <1> SUFFICES ASSUME Init PROVE PluginInv
    OBVIOUS
  <1>1. Plugin!Init
    BY DEF Init
  <1>2. /\ reg = Nothing /\ idle = {} /\ off = {} /\ manager = Plugin!Rest /\ closed = "no" /\ loaded = FALSE
        /\ worker = [g \in Gens |-> "closed"] /\ gens = [g \in Gens |-> CHOOSE n \in Plugins : TRUE]
        /\ ops = [o \in OpNames |-> Plugin!NoOp]
    BY <1>1 DEF Plugin!Init, Plugin!Absent, Plugin!NoGen, Nothing, Plugin!Ops, OpNames
  <1>3. Plugin!NoOp \in OpState /\ Plugin!NoOp.out = "none" /\ Plugin!NoOp.resuming = FALSE
    <2>1. <<>> \in Seq(Gens) /\ <<>> \in Seq(NextState) /\ 0 \in Nat
      OBVIOUS
    <2> QED BY <2>1 DEF Plugin!NoOp, OpState
  <1>4. /\ Nothing \in RegState /\ Nothing.disabling = {}
        /\ \A n \in Plugins : Nothing.active[n] = 0 /\ Nothing.pending[n] = 0 /\ Nothing.staged[n] = 0
    BY DEF Nothing, RegState, GenOrNone
  <1>5. \A o \in OpNames : ops[o].out = "none" /\ ops[o].resuming = FALSE
    BY <1>2, <1>3
  <1>6. PluginsAre
    <2>1. ops \in [OpNames -> OpState]
      BY <1>2, <1>3
    <2>2. worker \in [Gens -> WorkerState] /\ gens = [g \in Gens |-> gens[g]]
      BY <1>2 DEF WorkerState
    <2> QED BY ONLY <1>2, <2>1, <2>2, RestIs DEF PluginsAre
  <1>7. RegSound(reg) /\ Undone(reg, off) /\ off \subseteq Plugins /\ Parks(idle)
    BY <1>2, <1>4 DEF RegSound, Undone, Parks
  <1>8. Pins(reg, idle, ops) /\ Windows(reg, ops) /\ OpsFit
    BY <1>5 DEF Pins, Windows, OpsFit, OpFits, OpNames
  <1>9. Workers(reg, worker, idle, {}, manager, ops)
    BY <1>2 DEF Workers
  <1>10. Managed(manager, off)
    BY <1>2, RestIs DEF Managed, NoCandidate
  <1>11. Loading
    BY <1>2, <1>5, RestIs DEF Loading, NothingLives, Nothing
  <1> QED BY <1>6, <1>7, <1>8, <1>9, <1>10, <1>11 DEF PluginInv

\* The invariant implies what the plugin host promises.
LEMMA PluginHolds == PluginInv => PluginsArePinned
  <1> SUFFICES ASSUME PluginInv PROVE PluginsArePinned
    OBVIOUS
  <1>1. Parts /\ OpsFit
    BY PartsAre DEF PluginInv
  <1>2. Plugin!PinnedIsNotReplaced
    <2>1. ASSUME closed = "no", NEW o \in OpNames, ops[o].out = "running", NEW i \in DOMAIN ops[o].chain
          PROVE  LET g == ops[o].chain[i] IN reg.active[gens[g]] = g /\ (g \in idle => ops[o].resuming)
      BY <1>1, <2>1 DEF Parts, Pins
    <2> QED BY <2>1 DEF Plugin!PinnedIsNotReplaced, Plugin!Ops, OpNames, Plugin!Running, Plugin!ToSet
  <1>3. Plugin!DisableIsNotUndone
    BY <1>1 DEF Parts, Undone, Plugin!DisableIsNotUndone, Plugin!NoGen
  <1>4. Plugin!DisableWaitsForNoPerson
    BY <1>1 DEF Parts, Windows, Plugin!DisableWaitsForNoPerson, Plugin!Running
  <1>5. Plugin!ShutdownLeavesNoWorker
    <2>1. ASSUME closed = "done", NEW g \in Gens
          PROVE  \/ worker[g] \in {"closed", "closing"}
                 \/ worker[g] = "launching" /\ \E o \in CallSlots : ops[o].resuming /\ ops[o].chain = <<g>>
      <3>1. worker[g] \in WorkerState /\ worker[g] # "up"
        BY <1>1, <2>1 DEF Parts, Workers
      <3>2. worker[g] = "launching" => Resumed(g, ops)
        BY <1>1, <2>1 DEF Parts, Workers
      <3> QED BY <3>1, <3>2 DEF WorkerState, Resumed
    <2> QED BY <2>1 DEF Plugin!ShutdownLeavesNoWorker
  <1> QED BY <1>2, <1>3, <1>4, <1>5 DEF PluginsArePinned

\* PluginInv always holds.
LEMMA PluginInvariant == Spec => []PluginInv
  <1>1. ASSUME PluginInv, [Next]_vars PROVE PluginInv'
    <2>1. CASE UNCHANGED vars
      BY <1>1, <2>1, RestKeepsPlugins DEF vars, pluginVars
    <2> QED BY <1>1, <2>1, PluginStep
  <1> QED BY <1>1, PluginInit, PTL DEF Spec

\* plugins/runtime.py and plugins/session.py: an operation keeps the generations it pinned, an accepted disable
\* is not undone by an activation under way and waits for no person, and a closed runtime leaves no worker.
THEOREM PluginsStayPinned == Spec => []PluginsArePinned
  BY PluginInvariant, PluginHolds, PTL

\* plugins/interception.py and plugins/process.py: an intercepted operation reports success only when everything
\* below every handler succeeded.
THEOREM OutcomesStayHonest == Spec => OutcomesAreHonest
  <1>1. ASSUME PluginInv, [Next]_vars
        PROVE  [\A o \in Chained : Plugin!Running(o) /\ ops'[o].out = "ok" =>
                  /\ ops[o].core \in {"no", "done"}
                  /\ \A i \in DOMAIN ops[o].next : ops[o].next[i] \in {"unused", "ok"}]_(Plugin!vars)
    <2>1. CASE UNCHANGED vars
      BY <2>1 DEF vars, pluginVars, Plugin!vars
    <2>2. CASE Next
      <3>1. Honest
        BY <1>1, <2>2, PluginStep
      <3> QED BY <3>1 DEF Honest, OpHonest, OpNames, Plugin!Running
    <2> QED BY <1>1, <2>1, <2>2
  <1> QED BY <1>1, PluginInvariant, PTL DEF Spec, OutcomesAreHonest, Plugin!OutcomesAreHonest

==============================================================================
