------------------------------ MODULE MCSettings ------------------------------
(* What a session keeps between and across runs: the model it talks to and the *)
(* catalog behind it, the configuration and the appearance, stored images and  *)
(* the sessions themselves.  Each part keeps state no other part touches, so a *)
(* behaviour moves one of them and the others rest.                            *)
EXTENDS Naturals, Sequences, TLC

CONSTANTS Documents, Files, Models, Bare, Apis, NoDocument, Procs, Published, Bundled, MaxFaults,
          MaxFetches, Entries, ApiKeys, Themes, Shortcuts, MaxEdits, MaxOps, MigratesAlone,
          Contents, Routes, HasVision, Overlaps, MaxImages, MaxRetries, MaxSwitches,
          MaxCrashes, Terminal, Presets, Texts, Styles, Records, MaxKeys, MaxOpens,
          MaxEvents, Sessions, MaxRecords, MaxStarts, MaxSweeps

VARIABLES part, entries, active, overrides, doc, file, picked, request, remote, cache, etag, lock,
          task, proc, faults, fetches, files, temp, kept, lease, configProc, saved, edits,
          ops, imagesFile, draft, consumer, opening, queue, engine, turn, staged, history,
          current, imagesRequest, pinned, gate, plan, assets, durable, route, learned,
          rawSent, failed, paid, count, published, projected, focused, mode, barTheme,
          layout, prefix, cfg, picker, opens, events, logs, aged, saves, latest, storeLease,
          run, pass, starts, passes

\* A process is not nobody; a uid is neither nobody nor a word of the command line.
ASSUME StoreConstants == "none" \notin Procs \cup Sessions /\ "new" \notin Sessions /\ "latest" \notin Sessions

\* There is something to serve, and a document has a version.
ASSUME CatalogConstants ==
    /\ Len(Published) \in Nat \ {0} /\ MaxFaults \in Nat
    /\ \A i \in 1..Len(Published) : Published[i] # NoDocument /\ Published[i].version \in Nat
    /\ \A p \in Procs : Bundled[p] # NoDocument /\ Bundled[p].version \in Nat
    /\ NoDocument \notin Procs \X {"refresh", "sync"}

\* A key is not the empty string.
ASSUME ConfigConstants == "" \notin ApiKeys

\* Which model, effort and recipe a request is sent with.
Choice == INSTANCE ModelChoice WITH None <- NoDocument
\* The provider catalog, fetched, cached and handed out by two processes.
Catalog == INSTANCE CatalogSync WITH None <- NoDocument
\* The two files of the configuration, written by two processes.
Config == INSTANCE ConfigFiles WITH proc <- configProc, Keys <- ApiKeys
\* The assets behind the images of a conversation.
Image == INSTANCE Images WITH file <- imagesFile, request <- imagesRequest
\* Themes and bars: what is configured, previewed and shown.
Looks == INSTANCE Appearance
\* Opening, handing on and expiring sessions in two processes.
Store == INSTANCE SessionStore WITH lease <- storeLease

NoTable == [model |-> "", reasoning |-> "", api |-> ""]
Entry(domain, path, model, declared) ==
    [url |-> [domain |-> domain, path |-> path], model |-> model, reasoning |-> "medium", api |-> "auto",
     dialect |-> "auto", declared |-> declared, compaction |-> NoTable]
Host(domain, path) == [domain |-> domain, path |-> path]
Rule(models, set) == [models |-> models, set |-> set]
Set(path, value) == [path |-> path, value |-> value]
Always == [wire |-> {"chat", "responses"}]
EffortStep == [when |-> [enabled |-> {TRUE}], set |-> <<Set(<<"reasoning_effort">>, "effort")>>, remove |-> <<>>]
NestedStep == [when |-> Always, set |-> <<Set(<<"extra_body", "thinking">>, "on")>>, remove |-> <<<<"extra_body", "budget">>>>]
BadStep == [when |-> Always, set |-> <<Set(<<"extra_body", "thinking">>, "on")>>, remove |-> <<<<"messages">>>>]
Order == <<"low", "medium", "high">>
Document(rules, go, recipes) ==
    [effort_order |-> Order,
     defaults |-> [api |-> "chat", recipe |-> "effort", off |-> "none"],
     rules |-> rules,
     providers |-> [router |-> [hosts |-> {Host(<<"router", "ai">>, <<>>)}, ignores |-> {"levels"},
                                defaults |-> [recipe |-> "object"], rules |-> <<>>],
                    go |-> [hosts |-> {Host(<<"router", "ai">>, <<"go">>)}, ignores |-> {}, defaults |-> [api |-> "responses"],
                            rules |-> go]],
     recipes |-> recipes,
     dialects |-> [effort |-> "effort"]]
Recipes == [effort |-> <<EffortStep>>, object |-> <<NestedStep, EffortStep>>]
Catalogs ==
    <<Document(<<Rule({"m1"}, [levels |-> <<"low", "medium", "high">>]), Rule({"m2"}, [levels |-> <<"low", "high">>])>>,
               <<Rule({"m2"}, [levels |-> <<"high">>, mandatory |-> "yes"])>>, Recipes),
      Document(<<Rule({"m1"}, [levels |-> <<"low", "high">>]), Rule({"m2"}, [levels |-> <<"deep", "wide">>])>>,
               <<Rule({"m1"}, [levels |-> <<"wide", "deep">>])>>, Recipes),
      Document(<<>>, <<>>, [effort |-> <<BadStep>>, object |-> <<EffortStep>>])>>
Configs == {
    [entries |-> [a |-> Entry(<<"api", "router", "ai">>, <<"go", "v1">>, "m1", <<>>),
                  b |-> Entry(<<"router", "ai">>, <<>>, "v/m2", ("m1" :> <<"low", "ultra">>))],
     active |-> "a",
     compaction |-> [provider |-> "b", model |-> "m2", reasoning |-> "medium", api |-> ""],
     subagent |-> [provider |-> "b", model |-> "m1", reasoning |-> "ultra", api |-> ""]],
    [entries |-> [a |-> Entry(<<"example", "org">>, <<>>, "v/m2", <<>>)],
     active |-> "a",
     compaction |-> [provider |-> "", model |-> "", reasoning |-> "", api |-> ""],
     subagent |-> [provider |-> "", model |-> "", reasoning |-> "high", api |-> ""]]}
Models2 == {"m1", "v/m2"}
BareNames == ("v/m2" :> "m2")

Version(v, t) == [version |-> v, text |-> t]
Releases == <<Version(2, "a"), Version(3, "a"), Version(3, "b")>>
Shipped == [p1 |-> Version(1, "a"), p2 |-> Version(2, "b")]

InterchangeableSessions == Permutations(Sessions)

choiceVars == <<entries, active, overrides, doc, file, picked, request>>
catalogVars == <<remote, cache, etag, lock, task, proc, faults, fetches>>
configVars == <<files, temp, kept, lease, configProc, saved, edits, ops>>
imagesVars == <<imagesFile, draft, consumer, opening, queue, engine, turn, staged, history,
                current, imagesRequest, pinned, gate, plan, assets, durable, route, learned,
                rawSent, failed, paid, count>>
looksVars == <<published, projected, focused, mode, barTheme, layout, prefix, cfg, picker,
               opens, events>>
storeVars == <<logs, aged, saves, latest, storeLease, run, pass, starts, passes>>
vars == <<part, choiceVars, catalogVars, configVars, imagesVars, looksVars, storeVars>>

\* The part that moves; the others stay in their initial states, of which a part
\* that rests has one.
Init ==
    /\ part \in {"choice", "catalog", "config", "images", "looks", "store"}
    /\ Choice!Init /\ (part = "choice" \/ file = CHOOSE x \in Files : TRUE)
    /\ Catalog!Init
    /\ Config!Init /\ (part = "config" \/ files.config.keys = [e \in Entries |-> "k1"])
    /\ Image!Init /\ (part = "images" \/ route = "r")
    /\ Looks!Init /\ (part = "looks" \/ (cfg.theme = "auto" /\ cfg.statusbar.name = "mine"))
    /\ Store!Init /\ (part = "store" \/ logs = {})
Next ==
    \/ /\ part = "choice" /\ Choice!Next
       /\ UNCHANGED <<part, catalogVars, configVars, imagesVars, looksVars, storeVars>>
    \/ /\ part = "catalog" /\ Catalog!Next
       /\ UNCHANGED <<part, choiceVars, configVars, imagesVars, looksVars, storeVars>>
    \/ /\ part = "config" /\ Config!Next
       /\ UNCHANGED <<part, choiceVars, catalogVars, imagesVars, looksVars, storeVars>>
    \/ /\ part = "images" /\ Image!Next
       /\ UNCHANGED <<part, choiceVars, catalogVars, configVars, looksVars, storeVars>>
    \/ /\ part = "looks" /\ Looks!Next
       /\ UNCHANGED <<part, choiceVars, catalogVars, configVars, imagesVars, storeVars>>
    \/ /\ part = "store" /\ Store!Next
       /\ UNCHANGED <<part, choiceVars, catalogVars, configVars, imagesVars, looksVars>>
Spec == Init /\ [][Next]_vars

\* However the session came to its model, the effort sent is one that model
\* documents, the body asks what the adapter wrote whatever a catalog recipe
\* says, and what was on screen when a session was saved is on screen when it
\* is resumed (providers/compat.py:58-73, providers/catalog.py:65-67,
\* session/__init__.py:231-257).
ChoicesAreKept ==
    part = "choice" =>
        /\ Choice!SentIsAccepted /\ Choice!BodyIsProtected /\ Choice!ResumeKeepsChoices
\* A successful fetch answers with a catalog at least as new as the one
\* published when it was asked, through rewrites and a crash between the two
\* cache files, and a refresh never shuts a later one out
\* (providers/sync.py:157-190, 346-382).
CatalogIsCurrent == part = "catalog" => Catalog!AnswerIsCurrent /\ Catalog!CheckIsReleased
\* Every start finds a key for every entry through a migration interrupted
\* between its two files, no crash leaves half a file and no process erases
\* what another saved, and two validated edits do not between them save a table
\* neither validated (config.py:797-811, 843-845, 897-934).
ConfigIsKept ==
    part = "config" =>
        /\ Config!LoadsFindTheirKeys /\ Config!SavesAreKept /\ Config!SettingsStayValid
\* Whatever in memory or on disk still names a stored image finds its asset,
\* and pixels of a failed turn are in no later request
\* (session/__init__.py:703-704, image.py:432-433).
PixelsAreKept == part = "images" => Image!ImagesAreKept /\ Image!FailedIsNotResent
\* Outside the picker the theme, the bars and the input style are those
\* configured and published, whatever was previewed and reloaded before, and in
\* the picker the screen shows exactly what is focused and selected
\* (ui/cli/appearance.py).
AppearanceIsConfigured == part = "looks" => Looks!LiveIsConfigured /\ Looks!PreviewIsExact
\* What an open session remembers is its log, and a process owns just what it
\* has open, has reserved or is sweeping, through handoffs, failures and
\* retention passes (session/lifecycle.py:50-52, session/store.py:558-559,
\* ui/cli/commands.py:439-441).
SessionsAreOwned ==
    part = "store" =>
        /\ Store!SessionsKnowTheirLog /\ Store!OwnershipIsAccounted
\* The catalog cache is never downgraded, and a retention pass removes a log
\* only while it is older than the retention time (providers/sync.py:161-163,
\* session/store.py:433-434).
StoresOnlyMoveOn == Catalog!CacheNeverDowngraded /\ Store!OnlyTheExpiredGo
==============================================================================
