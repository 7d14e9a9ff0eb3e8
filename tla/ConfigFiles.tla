---------------------------- MODULE ConfigFiles ----------------------------
(***************************************************************************)
(* The configuration on disk and the processes that write it (config.py    *)
(* ConfigFile, __main__.py offer_key_migration, plugins/settings.py,       *)
(* plugins/preferences.py, ui/cli/plugin_keys.py): config.toml is read,    *)
(* edited and replaced as a whole under a sidecar lease; the migration of  *)
(* API keys into secrets.toml replaces both files and takes no lease.      *)
(*                                                                         *)
(* A document is what is told apart in it: the inline keys, one value of   *)
(* the user interface, the shortcut table, and one plugin's settings.      *)
(***************************************************************************)
EXTENDS Naturals, Sequences, SequencesExt, FiniteSets

CONSTANTS Procs,          \* wizolt processes of one user
          Entries,        \* provider entries
          Keys,           \* API keys
          Themes,         \* values /theme saves
          Shortcuts,      \* bindings a manager plugin adds
          MaxEdits,       \* bound on the user's own edits of an inline key
          MaxOps,         \* bound on the operations started
          MigratesAlone   \* whether a migration has the files to itself

VARIABLES
    files,  \* [config, secrets -> document, or Torn]
    temp,   \* [config, secrets -> document, Torn or Missing]: the sibling a write goes through
    kept,   \* the (entry, key) pairs whose move was declined
    lease,  \* the process that holds config.toml.lock, or None
    proc,   \* [Procs -> [op, at, arg, seen, todo, fd]]
    saved,  \* history: the preferences whose save was reported
    edits, ops

vars == <<files, temp, kept, lease, proc, saved, edits, ops>>

None == "none"
Torn == [torn |-> TRUE]
Missing == [missing |-> TRUE]
NoKey == ""
Idle == [op |-> "idle", at |-> "idle", arg |-> None, seen |-> Missing, todo |-> <<>>, fd |-> None]

config == files.config
\* Two settings of the plugin's schema that are valid together only in order.
Tables == [lo : 0..1, hi : 0..1]
ValidTable(t) == t.lo <= t.hi

-----------------------------------------------------------------------------
(* Edits of a document.                                                    *)

Inline(doc) == {e \in Entries : doc.keys[e] # NoKey}
fingerprints(doc) == {<<e, doc.keys[e]>> : e \in Inline(doc)}

Preferences(doc) == [theme |-> doc.theme, shortcuts |-> doc.shortcuts, table |-> doc.table]

\* Mutant: an edit is committed whatever the table was when it was validated.
Unchanged_mut(doc, expected) == TRUE
\* patch_table: only if its read snapshot still matches.
Unchanged(doc, expected) == doc.table = expected

-----------------------------------------------------------------------------
(* write_atomic: one sibling per file, named after it, whoever writes.     *)

Put(doc, old) == IF old = Torn THEN doc ELSE IF old = doc THEN doc ELSE Torn

\* O_CREAT | O_TRUNC.
Open(p) ==
    LET f == Head(proc[p].todo)[1]
    IN  /\ proc[p].at = "open"
        /\ temp' = [temp EXCEPT ![f] = Torn]
        /\ proc' = [proc EXCEPT ![p].at = "fill", ![p].fd = "temp"]
        /\ UNCHANGED <<files, kept, lease, saved, edits, ops>>

\* write, flush, fsync: into the file the descriptor is of, wherever it is now.
Fill(p) ==
    LET f == Head(proc[p].todo)[1]
        doc == Head(proc[p].todo)[2]
    IN  /\ proc[p].at = "fill"
        /\ temp' = IF proc[p].fd = "temp" THEN [temp EXCEPT ![f] = Put(doc, @)] ELSE temp
        /\ files' = IF proc[p].fd = "path" THEN [files EXCEPT ![f] = Put(doc, @)] ELSE files
        /\ proc' = [proc EXCEPT ![p].at = "rename"]
        /\ UNCHANGED <<kept, lease, saved, edits, ops>>

\* Where another writer's descriptor points once this file's sibling has been renamed or removed.
Moved(f, p, to) ==
    [q \in Procs |->
        IF q # p /\ proc[q].at \in {"fill", "rename"} /\ Head(proc[q].todo)[1] = f
        THEN [proc[q] EXCEPT !.fd = IF @ = "temp" THEN to ELSE IF to = "path" THEN "gone" ELSE @]
        ELSE proc[q]]

Released(p) == IF lease = p THEN None ELSE lease

\* Mutant: the config is written first.
MigrateOrder_mut == <<"config", "secrets">>
\* migrate_keys: secrets are saved before the config.
MigrateOrder == <<"secrets", "config">>

Rename(p) ==
    LET f == Head(proc[p].todo)[1]
        rest == Tail(proc[p].todo)
    IN  /\ proc[p].at = "rename" /\ temp[f] # Missing
        /\ files' = [files EXCEPT ![f] = temp[f]]
        /\ temp' = [temp EXCEPT ![f] = Missing]
        /\ proc' = [Moved(f, p, "path") EXCEPT ![p] = IF rest = <<>> THEN Idle ELSE [@ EXCEPT !.at = "open", !.todo = rest, !.fd = None]]
        /\ lease' = IF rest = <<>> THEN Released(p) ELSE lease
        /\ saved' = IF proc[p].op = "migrate" THEN saved ELSE Preferences(Head(proc[p].todo)[2])
        /\ UNCHANGED <<kept, edits, ops>>

\* A step of it fails: the sibling is removed and the operation reports the error.
Fails(p) ==
    LET f == Head(proc[p].todo)[1]
    IN  /\ proc[p].at \in {"open", "fill", "rename"}
        /\ temp' = [temp EXCEPT ![f] = Missing]
        /\ proc' = [Moved(f, p, "gone") EXCEPT ![p] = Idle]
        /\ lease' = Released(p)
        /\ UNCHANGED <<files, kept, saved, edits, ops>>

-----------------------------------------------------------------------------
(* Saves under the lease.                                                  *)

Writes(q) == proc[q].op \notin {"idle", "load"}
Start(p, record) ==
    /\ proc[p].at = "idle" /\ ops < MaxOps /\ ops' = ops + 1
    /\ MigratesAlone => record.op = "load" \/ \A q \in Procs : proc[q].op # "migrate"
    /\ proc' = [proc EXCEPT ![p] = record]

\* /theme and the appearance picker: set_ui_value with one value.
SaveTheme(p, theme) ==
    /\ Start(p, [Idle EXCEPT !.op = "theme", !.at = "lease", !.arg = theme])
    /\ UNCHANGED <<files, temp, kept, lease, saved, edits>>

\* ui.shortcuts.bind: the table is read again, then saved whole.
Bind(p, key) ==
    /\ config # Torn
    /\ Start(p, [Idle EXCEPT !.op = "bind", !.at = "lease", !.arg = config.shortcuts \cup {key}])
    /\ UNCHANGED <<files, temp, kept, lease, saved, edits>>

\* Settings.update in a plugin's worker: what was read, edited and valid.
Update(p, table) ==
    /\ config # Torn /\ ValidTable(table)
    /\ \/ table.lo = config.table.lo
       \/ table.hi = config.table.hi
    /\ Start(p, [Idle EXCEPT !.op = "update", !.at = "lease", !.arg = table, !.seen = config.table])
    /\ UNCHANGED <<files, temp, kept, lease, saved, edits>>

\* Mutant: the lease is not taken.
CanLease_mut == TRUE
\* flock with LOCK_NB on the sidecar.
CanLease == lease = None

Lease(p) ==
    /\ proc[p].at = "lease"
    /\ IF CanLease THEN lease' = p /\ proc' = [proc EXCEPT ![p].at = "read"]
       ELSE proc' = [proc EXCEPT ![p] = Idle] /\ UNCHANGED lease  \* "retry shortly"
    /\ UNCHANGED <<files, temp, kept, saved, edits, ops>>

\* The fields an update edits, over the table as it is.
Patched(doc, p) ==
    [lo |-> IF proc[p].arg.lo # proc[p].seen.lo THEN proc[p].arg.lo ELSE doc.table.lo,
     hi |-> IF proc[p].arg.hi # proc[p].seen.hi THEN proc[p].arg.hi ELSE doc.table.hi]
Edited(doc, p) ==
    CASE proc[p].op = "theme" -> [doc EXCEPT !.theme = proc[p].arg]
      [] proc[p].op = "bind" -> [doc EXCEPT !.shortcuts = proc[p].arg]
      [] proc[p].op = "update" -> [doc EXCEPT !.table = Patched(doc, p)]

\* The document is read inside the transaction; a torn one does not parse.
ReadLeased(p) ==
    /\ proc[p].at = "read" /\ proc[p].op # "migrate"
    /\ IF config = Torn \/ (proc[p].op = "update" /\ ~Unchanged(config, proc[p].seen))
       THEN proc' = [proc EXCEPT ![p] = Idle] /\ lease' = Released(p)
       ELSE proc' = [proc EXCEPT ![p].at = "open", ![p].todo = <<<<"config", Edited(config, p)>>>>] /\ UNCHANGED lease
    /\ UNCHANGED <<files, temp, kept, saved, edits, ops>>

-----------------------------------------------------------------------------
(* Keys.                                                                   *)

\* offer_key_migration at a start, or --migrate-secrets: a kept key only draws a reminder.
Offer(p) ==
    /\ config # Torn /\ Inline(config) # {} /\ ~(fingerprints(config) \subseteq kept)
    /\ MigratesAlone => \A q \in Procs : ~Writes(q)
    /\ Start(p, [Idle EXCEPT !.op = "migrate", !.at = "read", !.seen = config])
    /\ UNCHANGED <<files, temp, kept, lease, saved, edits>>

\* decline replaces the record.
Decline(p) ==
    /\ proc[p].op = "migrate" /\ proc[p].at = "read"
    /\ kept' = fingerprints(proc[p].seen)
    /\ proc' = [proc EXCEPT ![p] = Idle]
    /\ UNCHANGED <<files, temp, lease, saved, edits, ops>>

\* migrate_keys: both documents are read, then both are written.
Migrate(p) ==
    LET moved == Inline(config)
        doc == [secrets |-> [e \in Entries |-> IF e \in moved THEN config.keys[e] ELSE files.secrets[e]],
                config |-> [config EXCEPT !.keys = [e \in Entries |-> NoKey]]]
    IN  /\ proc[p].op = "migrate" /\ proc[p].at = "read"
        /\ proc' = [proc EXCEPT ![p] =
               IF config = Torn \/ files.secrets = Torn \/ moved = {} THEN Idle
               ELSE [@ EXCEPT !.at = "open", !.seen = Missing, !.todo = [i \in 1..2 |-> <<MigrateOrder[i], doc[MigrateOrder[i]]>>]]]
        /\ UNCHANGED <<files, temp, kept, lease, saved, edits, ops>>

\* load: the config, then the secrets beside it; a key in the config wins.
LoadConfig(p) ==
    /\ config # Torn
    /\ Start(p, [Idle EXCEPT !.op = "load", !.at = "secrets", !.seen = config.keys])
    /\ UNCHANGED <<files, temp, kept, lease, saved, edits>>
LoadSecrets(p) ==
    /\ proc[p].at = "secrets" /\ files.secrets # Torn
    /\ proc' = [proc EXCEPT ![p].at = "loaded",
                            ![p].seen = [e \in Entries |-> IF @[e] # NoKey THEN @[e] ELSE files.secrets[e]]]
    /\ UNCHANGED <<files, temp, kept, lease, saved, edits, ops>>
Loaded(p) ==
    /\ proc[p].at = "loaded"
    /\ proc' = [proc EXCEPT ![p] = Idle]
    /\ UNCHANGED <<files, temp, kept, lease, saved, edits, ops>>

-----------------------------------------------------------------------------
(* Around it.                                                              *)

\* The user's editor writes a key, while no process writes.
UserEdit(e, key) ==
    /\ edits < MaxEdits /\ edits' = edits + 1
    /\ config # Torn /\ config.keys[e] # key /\ \A q \in Procs : ~Writes(q)
    /\ files' = [files EXCEPT !.config.keys[e] = key]
    /\ UNCHANGED <<temp, kept, lease, proc, saved, ops>>

\* A process is killed: its lease is gone, its sibling stays.
Crash(p) ==
    /\ Writes(p)
    /\ proc' = [proc EXCEPT ![p] = Idle] /\ lease' = Released(p)
    /\ UNCHANGED <<files, temp, kept, saved, edits, ops>>

Init ==
    /\ \E keys \in [Entries -> Keys] :
        files = [config |-> [keys |-> keys, theme |-> "auto", shortcuts |-> {}, table |-> [lo |-> 0, hi |-> 1]],
                 secrets |-> [e \in Entries |-> NoKey]]
    /\ temp = [config |-> Missing, secrets |-> Missing]
    /\ kept = {} /\ lease = None /\ edits = 0 /\ ops = 0
    /\ proc = [p \in Procs |-> Idle]
    /\ saved = Preferences(files.config)

Next ==
    \/ \E p \in Procs :
        \/ \E t \in Themes : SaveTheme(p, t)
        \/ \E k \in Shortcuts : Bind(p, k)
        \/ \E t \in Tables : Update(p, t)
        \/ Lease(p) \/ ReadLeased(p) \/ Open(p) \/ Fill(p) \/ Rename(p) \/ Fails(p)
        \/ Offer(p) \/ Decline(p) \/ Migrate(p)
        \/ LoadConfig(p) \/ LoadSecrets(p) \/ Loaded(p) \/ Crash(p)
    \/ \E e \in Entries, k \in Keys : UserEdit(e, k)

Spec == Init /\ [][Next]_vars

-----------------------------------------------------------------------------
(* Properties.                                                             *)

\* Every start finds a key for every entry: a migration interrupted between its two files leaves a
\* key in both, never in neither, and a load that reads them one after the other sees one
\* (config.py:843-845, 797-811).
LoadsFindTheirKeys ==
    \A p \in Procs : proc[p].at = "loaded" => \A e \in Entries : proc[p].seen[e] # NoKey

\* The config is whole and holds what the last reported save saved and what earlier ones saved
\* beside it: no crash leaves half a file, no process erases what another wrote
\* (config.py:897-901, 912-913).
SavesAreKept == config # Torn /\ Preferences(config) = saved

\* Two sessions that each validated an edit of a plugin's settings do not between them save a table
\* that neither validated (config.py:930-934, sdk/settings.py:45-49).
SettingsStayValid == config = Torn \/ ValidTable(config.table)

\* "Re-read before changing so another live session's preferences are not discarded"
\* (ui/cli/plugin_keys.py:95): a bound key stays bound.
\* Not kept: the record is read before the lease is taken.
BindingsAreKept == [][config.shortcuts \subseteq config'.shortcuts]_vars
=============================================================================
