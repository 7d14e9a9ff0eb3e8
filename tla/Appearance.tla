---- MODULE Appearance ----
(* How wizolt looks: the compiled bar layout, the process-wide theme, the
   input prefix and the record format; the tabbed /theme picker that previews
   them, its format panel, what Enter saves and Esc puts back; the direct
   /theme forms; and the catalogs that plugins publish in the background.
   One tab of each kind is modelled: rows that are chosen as the cursor lands
   on them (colours, input), rows that are only previewed (the status bar,
   whose placement `p` toggles; the divider is the same code) and rows that
   move without a preview (the transcript).  A format is the name of a preset
   and a placement, or a name of its own; typing is a choice of a format.     *)
EXTENDS Naturals, Sequences

CONSTANTS Themes,    \* themes of the build, without "auto"
          Terminal,  \* the theme "auto" gives on this terminal
          Presets,   \* status bar presets of the build
          Texts,     \* formats that no preset spells
          Styles,    \* input presets
          Records,   \* record format presets
          Overlaps,  \* may a plugin publish while the picker is open?
          MaxKeys, MaxOpens, MaxEvents  \* bounds: keys that choose, openings, and
                                        \* publications, direct forms and changes of focus

VARIABLES published, \* does the plugin "plug" publish its theme and preset?
          projected, \* Theme._plugins: the catalog of the focused agent
          focused,   \* is this agent the one on the screen?
          mode,      \* Theme._mode
          barTheme,  \* Theme._bar_themes["statusbar"]
          layout,    \* StatusBar.layout
          prefix,    \* presentation.input_style
          cfg,       \* session.config and settings: what was chosen, written to the file or not
          picker,    \* the open AppearancePicker, or one that is closed
          opens, events

vars == <<published, projected, focused, mode, barTheme, layout, prefix, cfg, picker, opens, events>>

CUSTOM == "custom"
Plug == "plugins.plug"
Default == [name |-> CHOOSE n \in Presets : TRUE, split |-> FALSE]
Settings == {"theme", "statusbar", "statusbar_theme", "transcript", "input"}
Tabs == <<"theme", "statusbar", "input", "transcript">>

\* ---- themes ---------------------------------------------------------------
Known(plugins) == {"auto"} \cup Themes \cup (IF plugins THEN {Plug} ELSE {})
Resolve(name, plugins) == IF name \notin Known(plugins) THEN "dark" ELSE IF name = "auto" THEN Terminal ELSE name
SetMode(name, plugins) == IF name \in Known(plugins) \ {"auto"} THEN name ELSE "dark"
BarThemes(plugins) == {"inherit"} \cup Known(plugins)
ConfiguredBarTheme(name, plugins) == IF name \in BarThemes(plugins) THEN name ELSE "inherit"

\* ---- formats and layouts --------------------------------------------------
StatusLayout(source) == source.name \in Presets
Compiles(source, plugins) == StatusLayout(source) \/ source.name \in Texts \/ (source.name = Plug /\ plugins)

Configure(l, source) ==
    IF Compiles(source, l.presets) THEN [l EXCEPT !.source = source, !.drawn = source] ELSE l

\* A missing plugin preset falls back without erasing what was asked for.
\* Mutant: a preset that comes back is not compiled again.
ProjectPresets_mut(l, plugins) ==
    LET named == [l EXCEPT !.presets = plugins]
    IN  IF l.source.name # Plug \/ plugins THEN named ELSE [named EXCEPT !.drawn = Default]

ProjectPresets(l, plugins) ==
    LET named == [l EXCEPT !.presets = plugins]
    IN  IF l.source.name # Plug THEN named
        ELSE [named EXCEPT !.drawn = IF plugins THEN l.source ELSE Default]

Load(source, plugins) == ProjectPresets([source |-> source, drawn |-> source, presets |-> plugins], plugins)

\* ---- the picker -----------------------------------------------------------
Closed(keys) == [open |-> FALSE, keys |-> keys]
NoPanel == [kind |-> "none"]
Tab == Tabs[picker.tab]

\* The preset and the placement that a saved format reads as when the picker opens.
PresetOf(source, plugins) ==
    IF source.name = Plug /\ plugins THEN Plug ELSE IF StatusLayout(source) THEN source.name ELSE CUSTOM
PlacementOf(source) == IF ~StatusLayout(source) THEN CUSTOM ELSE IF source.split THEN "split" ELSE "left"

\* What a selection stands for.
Source(p, chosen) ==
    IF chosen.statusbar = CUSTOM THEN p.custom
    ELSE IF chosen.statusbar \in Presets
         THEN [name |-> chosen.statusbar, split |-> chosen.placement = "split"]
         ELSE [name |-> chosen.statusbar, split |-> FALSE]
InputStyle(p, name) == IF name = CUSTOM THEN p.customInput ELSE name
RecordSource(p, name) == IF name = CUSTOM THEN p.customRecord ELSE name

Choice(p, setting, name) ==
    LET chosen == [p.selected EXCEPT ![setting] = name]
    IN  IF setting = "statusbar" /\ (name \notin Presets \/ p.selected.placement = CUSTOM)
        THEN [chosen EXCEPT !.placement = IF name \in Presets THEN "left" ELSE CUSTOM]
        ELSE chosen

\* The rows of each tab; a custom row is listed while there is one in hand.
BarRows(p, plugins) ==
    {<<"statusbar", n>> : n \in Presets \cup (IF layout.presets THEN {Plug} ELSE {})
                                        \cup (IF p.custom.name # "none" THEN {CUSTOM} ELSE {})}
    \cup {<<"statusbar_theme", n>> : n \in BarThemes(plugins) \cup {p.selected.statusbar_theme}}
RecordRows(p) == Records \cup (IF p.customRecord # "none" THEN {CUSTOM} ELSE {})

Seen(p) ==
    [theme |-> p.selected.theme, statusbar |-> Source(p, p.selected), statusbar_theme |-> p.selected.statusbar_theme,
     transcript |-> RecordSource(p, p.selected.transcript), input |-> InputStyle(p, p.selected.input)]

Init ==
    /\ published = FALSE /\ projected = FALSE /\ focused = TRUE
    /\ \E theme \in {"auto", Plug}, bar \in {[name |-> n, split |-> FALSE] : n \in {Default.name, Plug} \cup Texts} :
         cfg = [theme |-> theme, statusbar |-> bar, statusbar_theme |-> "inherit",
                transcript |-> CHOOSE r \in Records : TRUE, input |-> CHOOSE s \in Styles : TRUE]
    /\ mode = Resolve(cfg.theme, FALSE)
    /\ barTheme = ConfiguredBarTheme(cfg.statusbar_theme, FALSE)
    /\ layout = Load(cfg.statusbar, FALSE)
    /\ prefix = cfg.input
    /\ picker = Closed(0) /\ opens = 0 /\ events = 0

Environment == <<published, projected, focused, events>>
Live == <<mode, barTheme, layout, prefix>>

\* ---- plugins and focus ----------------------------------------------------
\* PluginAppearance.activate: the focused agent's catalog and configuration.
Activated(plugins) ==
    /\ projected' = plugins
    /\ mode' = SetMode(Resolve(cfg.theme, plugins), plugins)
    /\ barTheme' = ConfiguredBarTheme(cfg.statusbar_theme, plugins)

Publish ==
    /\ events < MaxEvents
    /\ Overlaps \/ ~picker.open
    /\ events' = events + 1
    /\ published' = ~published
    /\ layout' = ProjectPresets(layout, published')
    /\ \/ focused /\ Activated(published')
       \/ ~focused /\ UNCHANGED <<projected, mode, barTheme>>
    /\ UNCHANGED <<focused, prefix, picker, opens, cfg>>

\* Another agent is shown: it projects its own catalog and colours.
Leave ==
    /\ focused /\ ~picker.open /\ events < MaxEvents
    /\ events' = events + 1
    /\ focused' = FALSE /\ projected' = FALSE
    /\ mode' = Terminal /\ barTheme' = "inherit"
    /\ UNCHANGED <<published, layout, prefix, picker, opens, cfg>>

Return ==
    /\ ~focused
    /\ focused' = TRUE
    /\ Activated(published)
    /\ UNCHANGED <<published, events, layout, prefix, picker, opens, cfg>>

\* ---- opening and leaving the picker ----------------------------------------
\* theme_command reads the theme files again, which drops a bar theme that is gone.
Open ==
    /\ focused /\ ~picker.open /\ opens < MaxOpens
    /\ opens' = opens + 1
    /\ barTheme' = ConfiguredBarTheme(barTheme, projected)
    /\ LET theme == IF cfg.theme \in Known(projected) THEN cfg.theme ELSE mode
           bar == PresetOf(layout.source, layout.presets)
           original == [theme |-> theme, statusbar |-> bar, placement |-> PlacementOf(layout.source),
                        statusbar_theme |-> barTheme', transcript |-> cfg.transcript,
                        input |-> IF prefix \in Styles THEN prefix ELSE CUSTOM]
           record == IF cfg.transcript \in Records THEN cfg.transcript ELSE CUSTOM
       IN  picker' = [open |-> TRUE, keys |-> picker.keys, tab |-> 1,
                      layout |-> layout, mode |-> mode, input |-> prefix,
                      original |-> [original EXCEPT !.transcript = record],
                      selected |-> [original EXCEPT !.transcript = record],
                      custom |-> IF bar = CUSTOM THEN layout.source ELSE [name |-> "none", split |-> FALSE],
                      customRecord |-> IF record = CUSTOM THEN cfg.transcript ELSE "none",
                      customInput |-> prefix,
                      focus |-> <<"statusbar", bar>>, recordFocus |-> record, recordEdit |-> record,
                      panel |-> NoPanel, inputEdit |-> "none"]
    /\ UNCHANGED <<mode, layout, prefix, Environment, cfg>>

\* set_bar_theme raises for a theme that went away; the rest of restore is then not reached.
RestoreRaises == picker.original.statusbar_theme \notin BarThemes(projected)
\* Mutant: Esc keeps the bar colours that were previewed last.
Restored_mut ==
    /\ layout' = picker.layout
    /\ mode' = SetMode(picker.mode, projected)
    /\ barTheme' = barTheme
    /\ prefix' = picker.input

Restored ==
    /\ layout' = picker.layout
    /\ mode' = SetMode(picker.mode, projected)
    /\ barTheme' = IF RestoreRaises THEN barTheme ELSE picker.original.statusbar_theme
    /\ prefix' = IF RestoreRaises THEN prefix ELSE picker.input

List == picker.open /\ picker.panel = NoPanel /\ picker.inputEdit = "none"

Cancel ==
    /\ List
    /\ Restored
    /\ picker' = Closed(picker.keys)
    /\ UNCHANGED <<opens, Environment, cfg>>

\* Ctrl-C leaves from the panel and the input fields as well.
Interrupted ==
    /\ picker.open /\ ~List
    /\ Restored
    /\ picker' = Closed(picker.keys)
    /\ UNCHANGED <<opens, Environment, cfg>>

\* AppearancePicker.save writes the settings a tab changed.  A theme is resolved anew, a
\* format that no longer compiles is not selected.  A choice whose write to the file fails is
\* in force for this session all the same.
Changed(setting) ==
    LET s == picker.selected
    IN  CASE setting = "statusbar"  -> Source(picker, s) # picker.layout.source
          [] setting = "transcript" -> RecordSource(picker, s.transcript) # cfg.transcript
          [] setting = "input"      -> s.input # picker.original.input \/ InputStyle(picker, s.input) # picker.input
          [] OTHER                  -> s[setting] # picker.original[setting]

Usable(setting, value, plugins, presets) ==
    /\ setting = "statusbar" => Compiles(value, presets)
    /\ setting = "statusbar_theme" => value \in BarThemes(plugins)

\* What selecting the values of `which` does to the screen and the configuration.
Applied(which, values, from, oldMode, oldBar, oldPrefix) ==
    /\ cfg' = [k \in Settings |-> IF k \in which THEN values[k] ELSE cfg[k]]
    /\ mode' = IF "theme" \in which THEN SetMode(Resolve(values.theme, projected), projected) ELSE oldMode
    /\ barTheme' = IF "statusbar_theme" \in which THEN values.statusbar_theme ELSE oldBar
    /\ layout' = IF "statusbar" \in which THEN Configure(from, values.statusbar) ELSE from
    /\ prefix' = IF "input" \in which THEN values.input ELSE oldPrefix

Save ==
    /\ List /\ ~RestoreRaises
    /\ LET values == Seen(picker)
           which == {k \in Settings : Changed(k) /\ Usable(k, values[k], projected, picker.layout.presets)}
       IN  Applied(which, values, picker.layout, SetMode(picker.mode, projected), picker.original.statusbar_theme, picker.input)
    /\ picker' = Closed(picker.keys)
    /\ UNCHANGED <<opens, Environment>>

\* /theme NAME, /theme statusbar NAME, /theme statusbar theme NAME and /theme input NAME.
Direct(setting, value) ==
    /\ focused /\ ~picker.open /\ events < MaxEvents
    /\ events' = events + 1
    /\ LET values == [cfg EXCEPT ![setting] = value]
           fresh == ConfiguredBarTheme(barTheme, projected)
       IN  /\ Usable(setting, value, projected, layout.presets)
           /\ Applied({setting}, values, layout, mode, fresh, prefix)
    /\ UNCHANGED <<published, projected, focused, picker, opens>>

DirectForms ==
    \/ \E name \in Known(projected) : Direct("theme", name)
    \/ \E name \in Presets \cup {Plug} : Direct("statusbar", [name |-> name, split |-> FALSE])
    \/ \E name \in BarThemes(projected) : Direct("statusbar_theme", name)
    \/ \E name \in Styles : Direct("input", name)

\* ---- keys in the list -------------------------------------------------------
Key == picker.keys < MaxKeys  \* a bound on the keys that change more than the place
Pressed == [picker EXCEPT !.keys = @ + 1]
Quiet == UNCHANGED <<opens, Environment, cfg>>

\* The cursor lands on another row: j/k, a page, a digit or a search.
Land(name) ==
    /\ List /\ Key /\ Tab \in {"theme", "input"}
    /\ name \in IF Tab = "theme" THEN Known(projected) ELSE Styles \cup {CUSTOM}
    /\ name # picker.selected[Tab]
    /\ picker' = [picker EXCEPT !.keys = @ + 1, !.selected[Tab] = name]
    /\ mode' = IF Tab = "theme" THEN SetMode(Resolve(name, projected), projected) ELSE mode
    /\ prefix' = IF Tab = "input" THEN InputStyle(picker, name) ELSE prefix
    /\ UNCHANGED <<barTheme, layout>> /\ Quiet

\* preview_bar: the row as if it were chosen, the other groups as they are.  (A colour
\* theme that went away raises out of the key handler, which ends the picker's steps.)
PreviewBar(p, row) ==
    LET chosen == Choice(p, row[1], row[2])
    IN  /\ chosen.statusbar_theme \in BarThemes(projected)
        /\ picker' = [p EXCEPT !.focus = row]
        /\ barTheme' = chosen.statusbar_theme
        /\ layout' = Configure(layout, Source(p, chosen))
        /\ UNCHANGED <<mode, prefix>> /\ Quiet

MoveInBar(row) ==
    /\ List /\ Key /\ Tab = "statusbar" /\ row \in BarRows(picker, projected) \ {picker.focus}
    /\ PreviewBar(Pressed, row)

ChooseInBar ==
    /\ List /\ Key /\ Tab = "statusbar"
    /\ PreviewBar([Pressed EXCEPT !.selected = Choice(picker, picker.focus[1], picker.focus[2])], picker.focus)

OtherGroup ==
    /\ List /\ Key /\ Tab = "statusbar"
    /\ LET other == IF picker.focus[1] = "statusbar" THEN "statusbar_theme" ELSE "statusbar"
           chosen == <<other, picker.selected[other]>>
       IN  PreviewBar(Pressed, IF chosen \in BarRows(picker, projected) THEN chosen ELSE <<other, Default.name>>)

Place ==
    /\ List /\ Key /\ Tab = "statusbar" /\ picker.selected.placement # CUSTOM
    /\ LET other == IF picker.selected.placement = "split" THEN "left" ELSE "split"
       IN  PreviewBar([Pressed EXCEPT !.selected.placement = other], picker.focus)

MoveInRecords(name) ==
    /\ List /\ Key /\ Tab = "transcript" /\ name \in RecordRows(picker) \ {picker.recordFocus}
    /\ picker' = [picker EXCEPT !.keys = @ + 1, !.recordFocus = name]
    /\ UNCHANGED Live /\ Quiet

ChooseRecord ==
    /\ List /\ Key /\ Tab = "transcript"
    /\ picker' = [picker EXCEPT !.keys = @ + 1, !.selected.transcript = picker.recordFocus]
    /\ UNCHANGED Live /\ Quiet

\* h/l.  Leaving the bar's tab puts back what is chosen there and keeps the cursor's row;
\* entering it previews that row again.
\* Mutant: leaving the tab keeps the highlighted row's preview.
Unpreviewed_mut(p, l) == [bar |-> barTheme, layout |-> l]

Unpreviewed(p, l) == [bar |-> p.selected.statusbar_theme, layout |-> Configure(l, Source(p, p.selected))]
SwitchTab(tab) ==
    /\ List
    /\ tab \in {1 + (picker.tab % Len(Tabs)), 1 + ((picker.tab + Len(Tabs) - 2) % Len(Tabs))}
    /\ LET moved == [picker EXCEPT !.tab = tab]
       IN  \/ /\ Tab = "statusbar"
              /\ picker.selected.statusbar_theme \in BarThemes(projected)
              /\ LET back == Unpreviewed(picker, layout) IN barTheme' = back.bar /\ layout' = back.layout
              /\ picker' = moved /\ UNCHANGED <<mode, prefix>> /\ Quiet
           \/ /\ Tab # "statusbar" /\ Tabs[tab] = "statusbar"
              /\ PreviewBar(moved, picker.focus)
           \/ /\ Tab # "statusbar" /\ Tabs[tab] # "statusbar"
              /\ picker' = moved /\ UNCHANGED Live /\ Quiet

\* ---- the format panel -------------------------------------------------------
\* `f`: the status bar's panel shows the selection, the record's the highlighted row.
OpenFormat ==
    /\ List /\ Key /\ Tab = "statusbar"
    /\ picker' = [picker EXCEPT !.keys = @ + 1, !.panel = [kind |-> "statusbar", editing |-> FALSE, draft |-> Source(picker, picker.selected), valid |-> TRUE]]
    /\ layout' = Configure(layout, Source(picker, picker.selected))
    /\ UNCHANGED <<mode, barTheme, prefix>> /\ Quiet

OpenRecordFormat ==
    /\ List /\ Key /\ Tab = "transcript"
    /\ picker' = [picker EXCEPT !.keys = @ + 1, !.recordEdit = picker.recordFocus,
                                !.panel = [kind |-> "transcript", editing |-> FALSE, draft |-> RecordSource(picker, picker.recordFocus), valid |-> TRUE]]
    /\ UNCHANGED Live /\ Quiet

Current(p) == IF p.panel.kind = "statusbar" THEN Source(p, p.selected) ELSE RecordSource(p, p.recordEdit)

Panel(kind) == picker.open /\ picker.panel.kind = kind /\ Key

EditFormat ==
    /\ picker.open /\ picker.panel # NoPanel
    /\ ~picker.panel.editing
    /\ picker' = [picker EXCEPT !.panel = [@ EXCEPT !.editing = TRUE, !.draft = Current(picker), !.valid = TRUE]]
    /\ UNCHANGED Live /\ Quiet

\* Every edit is checked through the setting's own path, which also previews a valid one.
TypeBar(draft) ==
    /\ Panel("statusbar") /\ picker.panel.editing /\ draft # picker.panel.draft
    /\ picker' = [picker EXCEPT !.keys = @ + 1, !.panel = [@ EXCEPT !.draft = draft, !.valid = Compiles(draft, layout.presets)]]
    /\ layout' = Configure(layout, draft)
    /\ UNCHANGED <<mode, barTheme, prefix>> /\ Quiet

TypeRecord(draft) ==
    /\ Panel("transcript") /\ picker.panel.editing /\ draft # picker.panel.draft
    /\ picker' = [picker EXCEPT !.keys = @ + 1, !.panel = [@ EXCEPT !.draft = draft, !.valid = draft \in Records \cup Texts]]
    /\ UNCHANGED Live /\ Quiet

\* Mutant: discarding a draft leaves its preview on the screen.
Reapplied_mut(l, p) == l

Reapplied(l, p) == IF p.panel.kind = "statusbar" THEN Configure(l, Current(p)) ELSE l

DiscardDraft ==
    /\ picker.open /\ picker.panel # NoPanel
    /\ picker.panel.editing
    /\ picker' = [picker EXCEPT !.panel.editing = FALSE]
    /\ layout' = Reapplied(layout, picker)
    /\ UNCHANGED <<mode, barTheme, prefix>> /\ Quiet

\* Ctrl-S: the draft is the preset and placement it spells, or the custom row.
AcceptedBar(draft) ==
    LET name == IF StatusLayout(draft) THEN draft.name ELSE IF draft.name = Plug /\ layout.presets THEN Plug ELSE CUSTOM
        placement == PlacementOf(draft)
    IN  [picker EXCEPT !.keys = @ + 1, !.panel.editing = FALSE,
                       !.selected = [@ EXCEPT !.statusbar = name, !.placement = placement],
                       !.custom = IF name = CUSTOM THEN draft ELSE @,
                       !.focus = <<"statusbar", name>>]

AcceptBar ==
    /\ Panel("statusbar") /\ picker.panel.editing /\ picker.panel.valid
    /\ picker' = AcceptedBar(picker.panel.draft)
    /\ layout' = Configure(layout, Source(picker', picker'.selected))
    /\ UNCHANGED <<mode, barTheme, prefix>> /\ Quiet

AcceptRecord ==
    /\ Panel("transcript") /\ picker.panel.editing /\ picker.panel.valid
    /\ LET name == IF picker.panel.draft \in Records THEN picker.panel.draft ELSE CUSTOM
       IN  picker' = [picker EXCEPT !.keys = @ + 1, !.panel.editing = FALSE, !.selected.transcript = name,
                                    !.customRecord = IF name = CUSTOM THEN picker.panel.draft ELSE @,
                                    !.recordEdit = name, !.recordFocus = name]
    /\ UNCHANGED Live /\ Quiet

\* Esc out of the panel previews the highlighted row again.
ClosePanel ==
    /\ picker.open /\ picker.panel # NoPanel /\ ~picker.panel.editing
    /\ LET left == [picker EXCEPT !.panel = NoPanel]
       IN  \/ picker.panel.kind = "statusbar" /\ PreviewBar(left, picker.focus)
           \/ /\ picker.panel.kind = "transcript"
              /\ picker' = left
              /\ UNCHANGED Live /\ Quiet

\* ---- the input fields -------------------------------------------------------
EditInput ==
    /\ List /\ Key /\ Tab = "input"
    /\ picker' = [picker EXCEPT !.keys = @ + 1, !.inputEdit = InputStyle(picker, picker.selected.input)]
    /\ UNCHANGED Live /\ Quiet

TypeInput(text) ==
    /\ picker.open /\ picker.inputEdit # "none" /\ Key /\ text # picker.inputEdit
    /\ picker' = [picker EXCEPT !.keys = @ + 1, !.inputEdit = text]
    /\ UNCHANGED Live /\ Quiet

AcceptInput ==
    /\ picker.open /\ picker.inputEdit \notin {"none", "broken"} /\ Key
    /\ picker' = [picker EXCEPT !.keys = @ + 1, !.customInput = picker.inputEdit, !.selected.input = CUSTOM, !.inputEdit = "none"]
    /\ prefix' = picker.inputEdit
    /\ UNCHANGED <<mode, barTheme, layout>> /\ Quiet

LeaveInput ==
    /\ picker.open /\ picker.inputEdit # "none"
    /\ picker' = [picker EXCEPT !.inputEdit = "none"]
    /\ UNCHANGED Live /\ Quiet

Keys ==
    \/ \E name \in Known(TRUE) \cup Styles \cup {CUSTOM} : Land(name)
    \/ picker.open /\ \E row \in BarRows(picker, projected) : MoveInBar(row)
    \/ ChooseInBar \/ OtherGroup \/ Place
    \/ \E name \in Records \cup {CUSTOM} : MoveInRecords(name)
    \/ ChooseRecord
    \/ \E tab \in 1..Len(Tabs) : SwitchTab(tab)
    \/ OpenFormat \/ OpenRecordFormat \/ EditFormat \/ DiscardDraft \/ AcceptBar \/ AcceptRecord \/ ClosePanel
    \/ \E n \in Texts \cup {"broken", Default.name}, split \in BOOLEAN :
         (n \notin Presets => ~split) /\ TypeBar([name |-> n, split |-> split])
    \/ \E text \in Texts \cup Records \cup {"broken"} : TypeRecord(text)
    \/ EditInput \/ AcceptInput \/ LeaveInput
    \/ \E text \in Texts \cup {"broken"} : TypeInput(text)

Next == Publish \/ Leave \/ Return \/ Open \/ Cancel \/ Interrupted \/ Save \/ DirectForms \/ Keys

Spec == Init /\ [][Next]_vars

\* ---- properties -------------------------------------------------------------
(* When the picker is closed and this agent is on the screen, what is drawn is
   what the configuration asks for and the published catalog can give: leaving
   the picker, through the list, its panel or an input field, undoes every
   preview and adds nothing but what Enter saved (appearance.py:7-8, 722-728,
   787), and a plugin that comes or goes changes only what names it.           *)
LiveIsConfigured ==
    focused /\ ~picker.open =>
        /\ projected = published /\ layout.presets = published
        /\ mode = SetMode(Resolve(cfg.theme, published), published)
        /\ barTheme = ConfiguredBarTheme(cfg.statusbar_theme, published)
        /\ layout.source = cfg.statusbar
        /\ layout.drawn = Load(cfg.statusbar, published).drawn
        /\ prefix = cfg.input

(* While the picker is open the screen around it is its preview
   (appearance.py:4-6): in the status bar's tab the highlighted row over the
   chosen rest, in the panel the draft or the selection, and everywhere else the
   selection; a format that does not compile leaves the preview as it was.     *)
PreviewIsExact ==
    picker.open =>
        LET p == picker
            over == IF Tab = "statusbar" /\ p.panel = NoPanel THEN Choice(p, p.focus[1], p.focus[2]) ELSE p.selected
            shown == IF p.panel.kind = "statusbar" /\ p.panel.editing THEN p.panel.draft ELSE Source(p, over)
        IN  /\ Compiles(shown, layout.presets) => layout.source = shown
            /\ p.panel = NoPanel => barTheme = over.statusbar_theme
            /\ mode = SetMode(Resolve(p.selected.theme, projected), projected)
            /\ prefix = InputStyle(p, p.selected.input)
====
