---------------------------- MODULE ModelChoice ----------------------------
(***************************************************************************)
(* Which model answers, at which effort, and what its request carries: the *)
(* provider entries of a session and the commands that switch them         *)
(* (ui/cli/commands.py, session/__init__.py, config.py), and the policy    *)
(* compiled from a catalog document that turns an entry into a request     *)
(* (providers/compat.py, providers/schema.py, providers/catalog.py).       *)
(*                                                                         *)
(* A selector is the set of models it matches, a document's text its       *)
(* fields.  Paths into a request body are sequences of keys; the body is   *)
(* the function of its leaves.                                             *)
(***************************************************************************)
EXTENDS Naturals, Sequences, SequencesExt, FiniteSets, FiniteSetsExt, Functions, TLC

CONSTANTS Documents,  \* catalog documents that may be fetched, ascending
          Files,      \* what the config file may declare: [entries, active, compaction, subagent]
          Models,     \* model ids a provider may list
          Bare,       \* gateway ids: [vendor/model id -> its model part]
          Apis,       \* wires /api chooses among
          None        \* no value

VARIABLES
    entries,    \* Config.providers: [name -> [url, model, reasoning, api, declared, dialect]]
    active,     \* Config.active_provider
    overrides,  \* Session.provider_overrides: [active, providers]
    doc,        \* index of the active document in Documents, the policy of the agent group
    file,       \* the config file
    picked,     \* history: the effort picked for the active model since its last switch, or ""
    request     \* history: the last request [purpose, entry, effort, body], or the last resume, or NoRequest

vars == <<entries, active, overrides, doc, file, picked, request>>


NoRequest == [purpose |-> "none"]
Sent == request.purpose \in {"turn", "compaction", "subagent"}
Policy == Documents[doc]

-----------------------------------------------------------------------------
(* CompatibilityResolver.                                                  *)

\* provider_for_url: the most specific host entry, at label and path-segment boundaries.
Serves(entry, url) == IsSuffix(entry.domain, url.domain) /\ IsPrefix(entry.path, url.path)
provider_for_url(policy, url) ==
    LET found == {f \in UNION {{p} \X policy.providers[p].hosts : p \in DOMAIN policy.providers} : Serves(f[2], url)}
        length(h) == Len(h.domain) + Len(h.path)
    IN  IF found = {} THEN None ELSE (CHOOSE f \in found : \A g \in found : length(f[2]) >= length(g[2]))[1]

\* _first_setting_rule: the first rule that matches the full id and sets the path, then the first
\* that matches the model part of a gateway id; 0 when none does.
first_setting_rule(rules, model, path) ==
    LET setting(m) == {i \in DOMAIN rules : m \in rules[i].models /\ path \in DOMAIN rules[i].set}
        part == IF model \in DOMAIN Bare THEN setting(Bare[model]) ELSE {}
    IN  IF setting(model) # {} THEN Min(setting(model)) ELSE IF part # {} THEN Min(part) ELSE 0

\* Mutant: a namespace the provider ignores is answered by the general rules all the same.
Ignores_mut(provider, path) == FALSE
\* ProviderRule.ignores: OpenRouter rewrites effort itself, so general rules do not speak for it.
Ignores(provider, path) == path \in provider.ignores

\* field_value: provider rules, general rules, provider defaults, generic defaults.
field_value(policy, url, model, path) ==
    LET name == provider_for_url(policy, url)
        general == first_setting_rule(policy.rules, model, path)
        generic == IF path \in DOMAIN policy.defaults THEN policy.defaults[path] ELSE None
    IN  IF name = None THEN IF general # 0 THEN policy.rules[general].set[path] ELSE generic
        ELSE LET provider == policy.providers[name]
                 own == first_setting_rule(provider.rules, model, path)
             IN  IF own # 0 THEN provider.rules[own].set[path]
                 ELSE IF general # 0 /\ ~Ignores(provider, path) THEN policy.rules[general].set[path]
                 ELSE IF path \in DOMAIN provider.defaults THEN provider.defaults[path]
                 ELSE generic

-----------------------------------------------------------------------------
(* ProviderPolicy: efforts.                                                *)

Declared(entry, model) == IF model \in DOMAIN entry.declared THEN entry.declared[model] ELSE <<>>

\* supported_efforts: a declaration wins, then the catalog, else the full scale.
supported_efforts(policy, entry, model) ==
    LET levels == field_value(policy, entry.url, model, "levels")
    IN  IF Declared(entry, model) # <<>> THEN Declared(entry, model)
        ELSE IF levels # None THEN levels ELSE policy.effort_order

\* reasoning_values: what may be stored.
reasoning_values(policy, entry, model) ==
    {"off"} \cup ToSet(policy.effort_order) \cup ToSet(Declared(entry, model))
mandatory(policy, entry, model) == field_value(policy, entry.url, model, "mandatory") = "yes"
reasoning_choices(policy, entry, model) ==
    (IF mandatory(policy, entry, model) THEN <<>> ELSE <<"off">>) \o supported_efforts(policy, entry, model)

Rank(order, level) == CHOOSE i \in DOMAIN order : order[i] = level
Distance(a, b) == IF a > b THEN a - b ELSE b - a

\* nearest_reasoning_effort: the closest supported level, the higher one on a tie.
nearest_reasoning_effort(effort, levels, order) ==
    LET known == {l \in ToSet(levels) : l \in ToSet(order)}
        off(l) == Distance(Rank(order, l), Rank(order, effort))
    IN  IF effort \notin ToSet(order) \/ known = {} THEN effort
        ELSE CHOOSE l \in known : \A m \in known :
                 off(l) < off(m) \/ (off(l) = off(m) /\ Rank(order, l) >= Rank(order, m))

Middle(s) == s[(Len(s) \div 2) + 1]

\* Mutant: an effort no listed level compares with is sent as it is.
nearest_supported_effort_mut(effort, levels, order) == nearest_reasoning_effort(effort, levels, order)
\* nearest_supported_effort: an effort moved onto a model's own scale.
nearest_supported_effort(effort, levels, order) ==
    LET nearest == nearest_reasoning_effort(effort, levels, order)
    IN  IF levels = <<>> \/ effort \in ToSet(levels) THEN effort
        ELSE IF nearest \in ToSet(levels) THEN nearest ELSE Middle(levels)

\* reasoning_effort_value: the stored effort if known, else the scale's midpoint.
reasoning_effort_value(policy, entry) ==
    IF entry.reasoning \in ToSet(policy.effort_order) \cup ToSet(Declared(entry, entry.model))
    THEN entry.reasoning ELSE Middle(policy.effort_order)

normalized_reasoning(policy, entry, model) ==
    IF entry.reasoning = "off" THEN reasoning_choices(policy, entry, model)[1]
    ELSE nearest_supported_effort(reasoning_effort_value(policy, entry),
                                  supported_efforts(policy, entry, model), policy.effort_order)

-----------------------------------------------------------------------------
(* RequestRuleEngine: the recipe applied to a body an adapter assembled.   *)

\* RecipeCondition.matches: every key of "when" has one of its values; an empty one always matches.
Matches(when, context) == \A k \in DOMAIN when : context[k] \in when[k]
Below(path, p) == IsPrefix(path, p)
\* _set: a leaf replaces what was under its path.
SetLeaf(body, path, value) ==
    [p \in {q \in DOMAIN body : ~Below(path, q) /\ ~Below(q, path)} \cup {path} |-> IF p = path THEN value ELSE body[p]]
RemovePath(body, path) == [p \in {q \in DOMAIN body : ~Below(path, q)} |-> body[p]]
\* _eval_value: a literal, or a value of the context.
Eval(value, context) == IF value \in DOMAIN context THEN context[value] ELSE value

Step(body, step, context) ==
    LET with == FoldLeft(LAMBDA b, a : SetLeaf(b, a.path, Eval(a.value, context)), body, step.set)
    IN  IF Matches(step.when, context) THEN FoldLeft(RemovePath, with, step.remove) ELSE body
Apply(body, recipe, context) == FoldLeft(LAMBDA b, s : Step(b, s, context), body, recipe)

-----------------------------------------------------------------------------
(* CatalogCodec: a document is taken whole or not at all.                  *)

PROTECTED_BODY_ROOTS == {"model", "messages", "input"}
PolicyValues(policy) ==
    {policy.defaults} \cup {r.set : r \in ToSet(policy.rules)}
    \cup UNION {{p.defaults} \cup {r.set : r \in ToSet(p.rules)} : p \in Range(policy.providers)}

\* Mutant: only the paths a recipe sets are checked.
Touched_mut(step) == {a.path : a \in ToSet(step.set)}
\* _validate_recipe_step: the paths a step sets and removes.
Touched(step) == {a.path : a \in ToSet(step.set)} \cup ToSet(step.remove)

\* _validate_document: references resolve, scales repeat nothing, recipes stay off protected fields.
Valid(policy) ==
    /\ policy.effort_order # <<>> /\ IsInjective(policy.effort_order)
    /\ \A v \in PolicyValues(policy) :
        /\ "recipe" \in DOMAIN v => v.recipe \in DOMAIN policy.recipes
        /\ "levels" \in DOMAIN v => v.levels # <<>> /\ IsInjective(v.levels)
    /\ \A d \in DOMAIN policy.dialects : policy.dialects[d] \in DOMAIN policy.recipes
    /\ "recipe" \in DOMAIN policy.defaults
    /\ \A p, q \in DOMAIN policy.providers : p # q => policy.providers[p].hosts \cap policy.providers[q].hosts = {}
    /\ \A r \in Range(policy.recipes) : \A s \in ToSet(r) :
        /\ Touched(s) # {}
        /\ \A path \in Touched(s) : path # <<>> /\ path[1] \notin PROTECTED_BODY_ROOTS
AcceptedDocuments == {d \in DOMAIN Documents : Valid(Documents[d])}

-----------------------------------------------------------------------------
(* Requests.                                                               *)

\* resolve and apply_request: what an entry's request carries.
wire(policy, entry) ==
    IF entry.api # "auto" THEN entry.api ELSE field_value(policy, entry.url, entry.model, "api")
Recipe(policy, entry) ==
    IF entry.dialect # "auto" THEN policy.dialects[entry.dialect]
    ELSE field_value(policy, entry.url, entry.model, "recipe")
Effort(policy, entry) ==
    IF entry.reasoning = "off" THEN field_value(policy, entry.url, entry.model, "off")
    ELSE nearest_supported_effort(reasoning_effort_value(policy, entry),
                                  supported_efforts(policy, entry, entry.model), policy.effort_order)
Body(entry) == <<"model">> :> entry.model @@ <<"messages">> :> "history"
resolve(purpose, policy, entry) ==
    LET context == [wire |-> wire(policy, entry), effort |-> Effort(policy, entry),
                    enabled |-> entry.reasoning # "off", mandatory |-> mandatory(policy, entry, entry.model)]
    IN  [purpose |-> purpose, entry |-> entry, effort |-> Effort(policy, entry),
         body |-> Apply(Body(entry), policy.recipes[Recipe(policy, entry)], context)]

\* Folded over an entry, an empty value inherits.
Fold(entry, over) == [f \in DOMAIN entry |-> IF f \in DOMAIN over /\ over[f] # "" THEN over[f] ELSE entry[f]]

\* compaction_provider_config: the entry's own [compaction] table, then the global one.
CompactionEntry ==
    LET base == entries[IF file.compaction.provider = "" THEN active ELSE file.compaction.provider]
    IN  Fold(Fold(base, file.compaction), base.compaction)
\* Config.for_subagent: creation defaults over the live choice; refused when the live model has no
\* such effort.
SubagentEntry == Fold(entries[IF file.subagent.provider = "" THEN active ELSE file.subagent.provider], file.subagent)
MayCreate ==
    file.subagent.reasoning # "" =>
        file.subagent.reasoning \in reasoning_values(Policy, SubagentEntry, SubagentEntry.model)

Request ==
    /\ request' = resolve("turn", Policy, entries[active])
    /\ UNCHANGED <<entries, active, overrides, doc, file, picked>>
Compact ==
    /\ request' = resolve("compaction", Policy, CompactionEntry)
    /\ UNCHANGED <<entries, active, overrides, doc, file, picked>>
SpawnSubagent ==
    /\ MayCreate
    /\ request' = resolve("subagent", Policy, SubagentEntry)
    /\ UNCHANGED <<entries, active, overrides, doc, file, picked>>

-----------------------------------------------------------------------------
(* Commands.                                                               *)

Empty == [x \in {} |-> None]
NoOverrides == [active |-> None, providers |-> Empty]
\* record_provider_override.
Record(o, name, field, value) ==
    LET old == IF name \in DOMAIN o.providers THEN o.providers[name] ELSE Empty
    IN  [o EXCEPT !.providers = (name :> ((field :> value) @@ old)) @@ @]

\* Mutant: the move to the new model's scale is not recorded.
Realigned_mut(o, name, old, new) == o
\* realign_reasoning: a stored effort moves onto the new scale, and the move is recorded.
Realigned(o, name, old, new) == IF old = new THEN o ELSE Record(o, name, "reasoning", new)

\* set_provider.
SetProvider(name) ==
    LET entry == entries[name]
        aligned == normalized_reasoning(Policy, entry, entry.model)
    IN  /\ active' = name
        /\ entries' = [entries EXCEPT ![name].reasoning = aligned]
        /\ overrides' = Realigned([overrides EXCEPT !.active = name], name, entry.reasoning, aligned)
        /\ picked' = "" /\ request' = NoRequest
        /\ UNCHANGED <<doc, file>>

\* set_model: the effort is picked from the new model's scale, or the stored one is moved onto it.
SetModel(model) ==
    LET entry == [entries[active] EXCEPT !.model = model]
        aligned == normalized_reasoning(Policy, entry, model)
    IN  /\ \E choice \in ToSet(reasoning_choices(Policy, entries[active], model)) \cup {None} :
            LET effort == IF choice = None THEN aligned ELSE choice
                named  == Record(overrides, active, "model", model)
            IN  /\ entries' = [entries EXCEPT ![active] = [entry EXCEPT !.reasoning = effort]]
                /\ overrides' = IF choice = None THEN Realigned(named, active, entry.reasoning, aligned)
                                ELSE Record(named, active, "reasoning", choice)
                /\ picked' = IF choice = None THEN "" ELSE choice
        /\ request' = NoRequest
        /\ UNCHANGED <<active, doc, file>>

\* /reason: typed efforts are held to the list the picker offers.
SetReasoning ==
    \E effort \in ToSet(reasoning_choices(Policy, entries[active], entries[active].model)) :
        /\ entries' = [entries EXCEPT ![active].reasoning = effort]
        /\ overrides' = Record(overrides, active, "reasoning", effort)
        /\ picked' = effort /\ request' = NoRequest
        /\ UNCHANGED <<active, doc, file>>

\* set_api.
SetApi ==
    \E api \in Apis :
        /\ entries[active].api # api
        /\ entries' = [entries EXCEPT ![active].api = api]
        /\ overrides' = Record(overrides, active, "api", api)
        /\ request' = NoRequest
        /\ UNCHANGED <<active, doc, file, picked>>

\* /catalog sync: a newer valid document is the group's policy from now on.
CatalogSync ==
    \E d \in AcceptedDocuments :
        /\ d > doc
        /\ doc' = d /\ request' = NoRequest
        /\ UNCHANGED <<entries, active, overrides, file, picked>>

-----------------------------------------------------------------------------
(* Snapshots and resume.                                                   *)

Shown(name, all) == [name |-> name, model |-> all[name].model, reasoning |-> all[name].reasoning, api |-> all[name].api]

\* apply_provider_overrides: what was switched is set again, unless its value means nothing now.
Restored(name, o) ==
    LET entry == file.entries[name]
        f == IF name \in DOMAIN o.providers THEN o.providers[name] ELSE Empty
        model == IF "model" \in DOMAIN f THEN f.model ELSE entry.model
        keeps == "reasoning" \in DOMAIN f /\ f.reasoning \in reasoning_values(Policy, entry, model)
    IN  [entry EXCEPT !.model = model, !.reasoning = IF keeps THEN f.reasoning ELSE @,
                      !.api = IF "api" \in DOMAIN f THEN f.api ELSE @]

\* The session is left, its last snapshot saved, and resumed by a process that reads the config
\* file again.
Resume ==
    LET all == [n \in DOMAIN file.entries |-> Restored(n, overrides)]
        name == IF overrides.active \in DOMAIN file.entries THEN overrides.active ELSE file.active
    IN  /\ entries' = all /\ active' = name
        /\ picked' = "" /\ request' = [purpose |-> "resume", before |-> Shown(active, entries)]
        /\ UNCHANGED <<overrides, doc, file>>

Init ==
    /\ file \in Files
    /\ entries = file.entries /\ active = file.active
    /\ overrides = NoOverrides
    /\ doc = 1 /\ 1 \in AcceptedDocuments
    /\ picked = "" /\ request = NoRequest

Next ==
    \/ Request \/ Compact \/ SpawnSubagent
    \/ \E n \in DOMAIN entries : SetProvider(n)
    \/ \E m \in Models : SetModel(m)
    \/ SetReasoning \/ SetApi \/ CatalogSync \/ Resume

Spec == Init /\ [][Next]_vars

-----------------------------------------------------------------------------
(* Properties.                                                             *)

\* The levels of a model, by the source that outranks the others.
Documented(policy, url, model) ==
    LET name == provider_for_url(policy, url)
        ids == {model} \cup IF model \in DOMAIN Bare THEN {Bare[model]} ELSE {}
        sets(rules) == {i \in DOMAIN rules : rules[i].models \cap ids # {} /\ "levels" \in DOMAIN rules[i].set}
        by(rules) == {rules[i].set.levels : i \in sets(rules)}
    IN  IF name # None /\ sets(policy.providers[name].rules) # {} THEN by(policy.providers[name].rules)
        ELSE IF (name = None \/ "levels" \notin policy.providers[name].ignores) /\ sets(policy.rules) # {} THEN by(policy.rules)
        ELSE IF name # None /\ "levels" \in DOMAIN policy.providers[name].defaults
        THEN {policy.providers[name].defaults.levels} ELSE {policy.effort_order}

\* However the session came to its model - a switch, a catalog update, a resume under another
\* config, a compaction or subagent override - the effort sent is one that model documents
\* (providers/compat.py:58-73, docs/configuration.md:139-140).
SentIsAccepted ==
    Sent /\ request.entry.reasoning # "off" =>
        LET e == request.entry
        IN  IF Declared(e, e.model) # <<>> THEN request.effort \in ToSet(Declared(e, e.model))
            ELSE \E levels \in Documented(Policy, e.url, e.model) : request.effort \in ToSet(levels)

\* A catalog recipe shapes a request and never touches what it asks: whatever documents were
\* fetched, the body's model and messages are the adapter's (providers/catalog.py:65-67).
BodyIsProtected ==
    Sent =>
        \A p \in {<<"model">>, <<"messages">>} : p \in DOMAIN request.body /\ request.body[p] = Body(request.entry)[p]

\* What was on screen when the session was saved is on screen when it is resumed, if the effort
\* is one the scale or the config names (session/__init__.py:231-257, ui/cli/commands.py:789-804).
ResumeKeepsChoices ==
    request.purpose = "resume" =>
        LET before == request.before
        IN  \/ before = Shown(active, entries)
            \/ before.reasoning \notin reasoning_values(Policy, file.entries[before.name], before.model)

\* "/reason offers the levels the active model documents, and sends the one you pick"
\* (docs/configuration.md:139).
\* Not kept: a subagent or a fallback with another scale sends the nearest level.
PickedIsSent ==
    request.purpose = "turn" /\ picked \notin {"", "off"} => request.effort = picked
=============================================================================
