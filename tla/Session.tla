-------------------------------- MODULE Session --------------------------------
(***************************************************************************)
(* The windows of a session and the file it is saved to and restored from  *)
(* (mainwindow.cpp), without a connection: on_actionRestore_Session closes *)
(* it first.  The state of the program is a record, and what a handler     *)
(* does one after the other are operators from one record to the next.     *)
(*                                                                         *)
(* Register numbers are the real ones, from 1 to 9999 (coils), 10001       *)
(* (inputs), 30001 and 40001 (registers).  Positions and sizes on the      *)
(* screen are left out, and so is what a trend shows (Trend.tla).          *)
(***************************************************************************)
EXTENDS BaseDialog, Integers, Sequences, FiniteSets

CONSTANTS
    OpenedKinds,  \* the classes of windows the user opens, a subset of Kinds
    Applied,      \* start and count the user may apply to a window
    SettingsOf,   \* timeout and port the user may enter
    Spoilt,       \* elements somebody may have written into a session file
    MaxWindows, MaxTrends,  \* bounds: the user opens no more than these
    MaxRestores   \* bound: sessions restored

Kinds == {"CoilsDisplay", "InputsDisplay", "RegisterDisplay", "HoldingRegisterDisplay"}

\* The register numbers a start register's spin box goes through.
StartRegisters == 1..9999 \cup 10001..19999 \cup 30001..39999 \cup 40001..49999

\* The register numbers load_base_data() lets pass.
FileRegisters == 1..19999 \cup 30001..49999

\* A window's element of the file, whatever somebody may have made of it: one of
\* another name, numbers that are none (0) or beyond anything.
Elements == [kind : Kinds \cup {"other"}, start : Int, count : Int, node : Int, max : Int]

ASSUME SessionAssumption ==
    /\ OpenedKinds \subseteq Kinds
    /\ Applied \subseteq [start : StartRegisters, count : 1..2000]
    /\ SettingsOf \subseteq [timeout : Int, port : Int]
    /\ Spoilt \subseteq Elements
    /\ {MaxWindows, MaxTrends, MaxRestores} \subseteq Nat

VARIABLES
    ui,        \* the windows, see Empty
    file,      \* the session on the disk
    outcome,   \* of the last Restore: "none", "restored", "failed", "crashed", "exited"
    forgotten, \* trends a failed Restore has left behind
    restores   \* how many the bound still allows

vars == <<ui, file, outcome, forgotten, restores>>

NoTrend == 0
NoFile == [windows |-> <<>>, trend |-> "none", damage |-> "missing"]

Empty(settings) ==
    [windows |-> <<>>,       \* every register window ever opened
     registered |-> {},      \* m_register_windows
     trends |-> <<>>,        \* every trend window ever opened
     trend |-> NoTrend,      \* m_trend
     trend_menu |-> TRUE,    \* actionTrend is enabled
     settings |-> settings]  \* timeoutEdit and portEdit

Init ==
    /\ \E settings \in SettingsOf : ui = Empty(settings)
    /\ file = NoFile
    /\ outcome = "none" /\ forgotten = {}
    /\ restores = MaxRestores

-----------------------------------------------------------------------------
(* Windows.                                                                *)

FirstRegister(kind) ==
    CASE kind = "CoilsDisplay" -> 1
      [] kind = "InputsDisplay" -> 10001
      [] kind = "RegisterDisplay" -> 30001
      [] kind = "HoldingRegisterDisplay" -> 40001

\* m_max_regs, from the start register the window was made with
MaxRegs(start) == IF start <= 19999 THEN 2000 ELSE 125

\* Where the start register's spin box ends.
LastRegister(start) ==
    IF start <= 9999 THEN 9999
    ELSE IF start <= 19999 THEN 19999 ELSE IF start <= 39999 THEN 39999 ELSE 49999

\* The window is shown, wired to the scheduler and noted.
add_window(s, config) ==
    [s EXCEPT !.windows = Append(@, [config |-> config, dialog |-> showEvent(NewDialog), wired |-> TRUE]),
              !.registered = @ \cup {Len(s.windows) + 1}]

\* What a window shows that nothing refers to any more is dropped.
NoConfig == [kind |-> "closed"]

register_window_destroyed(s, id) ==
    IF id \in s.registered
    THEN [s EXCEPT !.registered = @ \ {id},
                   !.windows[id] = [@ EXCEPT !.wired = FALSE, !.config = NoConfig]]
    ELSE s

\* The dialog of window id becomes d; who listens to window_closed is told.
WindowBecomes(s, id, d) ==
    LET closed == [s EXCEPT !.windows[id].dialog = d]
    IN  IF d.closes > s.windows[id].dialog.closes
        THEN register_window_destroyed(closed, id) ELSE closed

\* close() of the windows ids, one after the other: what one of them tells the
\* main window concerns no other, so the order is of no account.
CloseWindows(s, ids) ==
    LET Told(id) == closeEvent(s.windows[id].dialog)
        destroyed == {id \in ids \cap s.registered : Told(id).closes > s.windows[id].dialog.closes}
    IN  [s EXCEPT !.windows = [id \in DOMAIN @ |->
                      IF id \in destroyed
                      THEN [config |-> NoConfig, dialog |-> Told(id), wired |-> FALSE]
                      ELSE IF id \in ids THEN [@[id] EXCEPT !.dialog = Told(id)] ELSE @[id]],
                  !.registered = @ \ destroyed]

on_actionTrend_triggered(s) ==
    IF s.trend # NoTrend
    THEN s
    ELSE [s EXCEPT !.trends = Append(@, [dialog |-> showEvent(NewDialog), wired |-> TRUE]),
                   !.trend = Len(s.trends) + 1, !.trend_menu = FALSE]

trend_on_closed(s, id) ==
    IF id = s.trend
    THEN [s EXCEPT !.trends[id].wired = FALSE, !.trend = NoTrend, !.trend_menu = TRUE]
    ELSE s

TrendBecomes(s, id, d) ==
    LET closed == [s EXCEPT !.trends[id].dialog = d]
    IN  IF d.closes > s.trends[id].dialog.closes THEN trend_on_closed(closed, id) ELSE closed

CloseTrend(s, id) == TrendBecomes(s, id, closeEvent(s.trends[id].dialog))

-----------------------------------------------------------------------------
(* The file.                                                               *)

\* A window's element, and what a window made from it shows.
Entry(config) ==
    [kind |-> config.kind, start |-> config.start, count |-> config.count, node |-> config.node,
     max |-> MaxRegs(config.start)]

Config(entry) ==
    [kind |-> entry.kind, start |-> entry.start, count |-> entry.count, node |-> entry.node]

\* The i-th window of ids, as they were opened.
Nth(ids, i) == CHOOSE id \in ids : Cardinality({other \in ids : other <= id}) = i

\* save_config(): the windows in any order, here that of their opening.
save_config(s) ==
    [settings |-> s.settings,
     windows |-> [i \in 1..Cardinality(s.registered) |->
                     Entry(s.windows[Nth(s.registered, i)].config)],
     trend |-> IF s.trend = NoTrend THEN "none" ELSE "saved",
     damage |-> "no"]

\* What may be wrong with a file: it cannot be opened or parsed, a window's
\* element or the trend's is spoilt.
Damages == {"no", "unreadable", "window", "trend"}

\* An element takes the place of another, or comes after the last one.
WithEntry(entries, i, entry) ==
    IF i \in DOMAIN entries THEN [entries EXCEPT ![i] = entry] ELSE Append(entries, entry)

\* Somebody changes the file, or nobody does; what is spoilt may be spoilt further.
Spoil(damage) ==
    \/ /\ damage = "no" \/ file.damage = "unreadable"
       /\ UNCHANGED file
    \/ /\ damage = "unreadable" /\ file.damage # "unreadable"
       /\ file' = [file EXCEPT !.damage = damage]
    \/ /\ damage = "window" /\ file.damage # "unreadable"
       /\ \E i \in 1..Len(file.windows) + 1, entry \in Spoilt :
             file' = [file EXCEPT !.windows = WithEntry(@, i, entry), !.damage = damage]
    \/ /\ damage = "trend" /\ file.damage # "unreadable"
       /\ file' = [file EXCEPT !.trend = "spoilt", !.damage = damage]

\* Mutant of load_base_data: the end of the range is not looked at.
load_base_data_NoEnd(entry) ==
    /\ entry.node \in 0..255 /\ entry.count \in 1..entry.max
    /\ entry.start \in FileRegisters

\* load_base_data(), when it does not throw.  The register after the last one
\* must be of the same range.
load_base_data(entry) ==
    /\ entry.node \in 0..255 /\ entry.count \in 1..entry.max
    /\ entry.start \in FileRegisters
    /\ (entry.start + entry.count) \div 10000 = entry.start \div 10000

\* Mutant of load_configuration_parameters: the class's range is not looked at.
load_configuration_parameters_AnyClass(entry) == entry.max = MaxRegs(entry.start)

\* load_configuration_parameters() of the four classes
load_configuration_parameters(entry) ==
    /\ CASE entry.kind = "CoilsDisplay" -> entry.start < 10000
         [] entry.kind = "InputsDisplay" -> entry.start > 10000 /\ entry.start < 20000
         [] entry.kind = "HoldingRegisterDisplay" -> entry.start >= 40001 /\ entry.start < 50000
         [] entry.kind = "RegisterDisplay" -> TRUE
    /\ entry.max = MaxRegs(entry.start)

Loadable(entry) == entry.kind \in Kinds /\ load_base_data(entry)

\* load_windows(): up to the first entry that throws; an entry that is refused
\* otherwise is skipped.
load_windows(s, entries) ==
    LET Read(i) == \A j \in 1..i : Loadable(entries[j])
        after[k \in 0..Len(entries)] ==
            IF k = 0 THEN s
            ELSE IF Read(k) /\ load_configuration_parameters(entries[k])
                 THEN add_window(after[k - 1], Config(entries[k]))
                 ELSE after[k - 1]
    IN  [s |-> after[Len(entries)], ok |-> Read(Len(entries))]

\* Where the port's spin box goes.
Ports == 1..65535

\* load_communications_config(): the timeout is shown before the port is read.
load_communications_config(s, settings) ==
    IF settings.timeout < 1
    THEN [s |-> s, ok |-> FALSE]
    ELSE LET timed == [s EXCEPT !.settings.timeout = settings.timeout]
         IN  IF settings.port \in Ports
             THEN [s |-> [timed EXCEPT !.settings.port = settings.port], ok |-> TRUE]
             ELSE [s |-> timed, ok |-> FALSE]

load_trend(s, trend) ==
    IF trend = "none" THEN [s |-> s, ok |-> TRUE]
    ELSE [s |-> on_actionTrend_triggered(s), ok |-> trend = "saved"]

load_config(s, f) ==
    IF f.damage = "unreadable" THEN [s |-> s, ok |-> FALSE]
    ELSE LET comms == load_communications_config(s, f.settings)
             windows == load_windows(comms.s, f.windows)
         IN  IF ~comms.ok THEN comms
             ELSE IF ~windows.ok THEN windows
             ELSE load_trend(windows.s, f.trend)

\* Mutant of RestoreFailed: the settings read so far stay.
RestoreFailed_SettingsKept(loaded, before) ==
    LET closed == IF loaded.trend = NoTrend THEN loaded
                  ELSE [CloseTrend(trend_on_closed(loaded, loaded.trend), loaded.trend)
                           EXCEPT !.trend = before.trend]
    IN  CloseWindows(closed, before.registered)

\* The catch clause: a trend opened meanwhile gives way to the old one, which
\* otherwise is forgotten; of the windows the old ones are closed.
RestoreFailed(loaded, before) ==
    LET closed == IF loaded.trend = NoTrend THEN loaded
                  ELSE [CloseTrend(trend_on_closed(loaded, loaded.trend), loaded.trend)
                           EXCEPT !.trend = before.trend]
    IN  [CloseWindows(closed, before.registered) EXCEPT !.settings = before.settings]

\* Mutant of Restored: the two trends are not swapped before the old one is closed.
Restored_NotSwapped(loaded, before) ==
    LET closed == IF before.trend = NoTrend THEN loaded
                  ELSE CloseTrend(loaded, before.trend)
    IN  CloseWindows(closed, before.registered)

\* Mutant of Restored: the pointer to the new trend is not restored.
Restored_TrendLost(loaded, before) ==
    LET old == before.trend
        closed == IF old = NoTrend THEN loaded
                  ELSE CloseTrend(trend_on_closed([loaded EXCEPT !.trend = old], old), old)
    IN  CloseWindows(closed, before.registered)

\* All went well: the old trend takes the place of the new one to be closed, and
\* the old windows are.
Restored(loaded, before) ==
    LET old == before.trend
        closed == IF old = NoTrend THEN loaded
                  ELSE [CloseTrend(trend_on_closed([loaded EXCEPT !.trend = old], old), old)
                           EXCEPT !.trend = loaded.trend]
    IN  CloseWindows(closed, before.registered)

-----------------------------------------------------------------------------
(* The user.                                                               *)

Running == outcome \notin {"crashed", "exited"}

NewWindow(kind) ==
    /\ Running /\ Len(ui.windows) < MaxWindows
    /\ ui' = add_window(ui, [kind |-> kind, start |-> FirstRegister(kind), count |-> 32, node |-> 0])
    /\ UNCHANGED <<file, outcome, forgotten, restores>>

\* on_apply_clicked(), as far as the file is concerned; the spin boxes are of
\* the window's own range, and m_node stays the one the window was opened with,
\* whatever node the user has selected.
Apply(id, a) ==
    /\ Running /\ id \in ui.registered
    /\ LastRegister(a.start) = LastRegister(ui.windows[id].config.start)
    /\ a.count <= MaxRegs(a.start)
    /\ ui' = [ui EXCEPT !.windows[id].config = [@ EXCEPT !.start = a.start, !.count = a.count]]
    /\ UNCHANGED <<file, outcome, forgotten, restores>>

\* The close button, or Escape.
LeaveWindow(id) ==
    /\ Running /\ ui.windows[id].dialog.visible
    /\ \E d \in {closeEvent(ui.windows[id].dialog), rejected(ui.windows[id].dialog)} :
          ui' = WindowBecomes(ui, id, d)
    /\ UNCHANGED <<file, outcome, forgotten, restores>>

OpenTrend ==
    /\ Running /\ ui.trend_menu /\ Len(ui.trends) < MaxTrends
    /\ ui' = on_actionTrend_triggered(ui)
    /\ UNCHANGED <<file, outcome, forgotten, restores>>

LeaveTrend(id) ==
    /\ Running /\ ui.trends[id].dialog.visible
    /\ \E d \in {closeEvent(ui.trends[id].dialog), rejected(ui.trends[id].dialog)} :
          ui' = TrendBecomes(ui, id, d)
    /\ UNCHANGED <<file, outcome, forgotten, restores>>

EnterSettings(settings) ==
    /\ Running /\ settings # ui.settings
    /\ ui' = [ui EXCEPT !.settings = settings]
    /\ UNCHANGED <<file, outcome, forgotten, restores>>

on_actionSave_Session_triggered ==
    /\ Running
    /\ file' = save_config(ui)
    /\ UNCHANGED <<ui, outcome, forgotten, restores>>

\* The file as it was saved, or damaged since.
on_actionRestore_Session_triggered(damage) ==
    /\ Running /\ file # NoFile
    /\ restores > 0 /\ restores' = restores - 1
    /\ Spoil(damage)
    /\ LET load == load_config([ui EXCEPT !.trend = NoTrend], file')
           after == IF load.ok THEN Restored(load.s, ui) ELSE RestoreFailed(load.s, ui)
       IN  /\ ui' = [after EXCEPT !.trend_menu = (after.trend = NoTrend)]
           /\ forgotten' = IF load.ok \/ load.s.trend # NoTrend THEN forgotten
                           ELSE forgotten \cup ({ui.trend} \ {NoTrend})
           /\ \/ outcome' = IF load.ok THEN "restored" ELSE "failed"
              \* The catch clause walks m_register_windows while it shrinks.
              \/ ~load.ok /\ ui.registered # {} /\ outcome' = "crashed"

\* closeEvent() of the main window.
Exit ==
    /\ Running
    /\ outcome' = "exited"
    /\ LET closed == CloseWindows([ui EXCEPT !.registered = {}], ui.registered)
       IN  ui' = IF ui.trend = NoTrend THEN closed ELSE CloseTrend(closed, ui.trend)
    /\ UNCHANGED <<file, forgotten, restores>>

Next ==
    \/ \E kind \in OpenedKinds : NewWindow(kind)
    \/ \E id \in DOMAIN ui.windows : LeaveWindow(id) \/ \E a \in Applied : Apply(id, a)
    \/ OpenTrend
    \/ \E id \in DOMAIN ui.trends : LeaveTrend(id)
    \/ \E settings \in SettingsOf : EnterSettings(settings)
    \/ on_actionSave_Session_triggered
    \/ \E damage \in Damages : on_actionRestore_Session_triggered(damage)
    \/ Exit

Spec == Init /\ [][Next]_vars

-----------------------------------------------------------------------------

\* What the two kinds of dialogs are, while they are shown and after.
Shown == showEvent(NewDialog)
Closed == closeEvent(Shown)

\* What a window of a class may show.  RegisterDisplay looks at no range: from a
\* file it takes what load_base_data() lets pass, coils and 10000 and 40000 as well.
RegistersOf(kind) ==
    IF kind = "RegisterDisplay" THEN FileRegisters
    ELSE FirstRegister(kind)..LastRegister(FirstRegister(kind))

Configs ==
    {c \in [kind : Kinds, start : FileRegisters, count : 1..2000, node : 0..255] :
        c.start \in RegistersOf(c.kind) /\ c.count <= MaxRegs(c.start)}

UI == [windows : Seq([config : Configs \cup {NoConfig}, dialog : {Shown, Closed}, wired : BOOLEAN]),
       registered : SUBSET Nat,
       trends : Seq([dialog : {Shown, Closed}, wired : BOOLEAN]),
       trend : Nat, trend_menu : BOOLEAN, settings : [timeout : Int, port : Int]]

TypeOK ==
    /\ ui \in UI
    /\ ui.registered \subseteq DOMAIN ui.windows
    /\ \A id \in ui.registered : ui.windows[id].config \in Configs
    /\ ui.trend \in {NoTrend} \cup DOMAIN ui.trends
    /\ ui.settings \in SettingsOf
    /\ outcome \in {"none", "restored", "failed", "crashed", "exited"}
    /\ restores \in 0..MaxRestores

Dialogs == {ui.windows[id] : id \in DOMAIN ui.windows} \cup {ui.trends[id] : id \in DOMAIN ui.trends}

\* However a window is closed, and whatever Restore closes, window_closed is
\* emitted once and setupUi() has run once ("Guaranteed to be emitted exactly once
\* when the window is closed regardless of method", README.md).
LifeCycleKept ==
    \A w \in Dialogs :
        w.dialog.setups = 1 /\ w.dialog.closes = (IF w.dialog.visible THEN 0 ELSE 1)

\* The windows on the screen are those the program knows, polls and saves; but a
\* trend forgotten by a failed Restore stays on the screen.
NoOrphans ==
    outcome # "exited" =>
        /\ \A id \in DOMAIN ui.windows :
              /\ ui.windows[id].dialog.visible <=> id \in ui.registered
              /\ ui.windows[id].wired <=> id \in ui.registered
        /\ \A id \in DOMAIN ui.trends :
              id \notin forgotten =>
                  /\ ui.trends[id].dialog.visible <=> id = ui.trend
                  /\ ui.trends[id].wired <=> id = ui.trend
        /\ ui.trend_menu <=> ui.trend = NoTrend

Restores == restores' # restores

\* A restored session would be saved as it was: the windows with their registers
\* and nodes, the trend and the settings, and nothing of the session before.
RestoreExact ==
    [][Restores /\ outcome' = "restored" /\ file'.damage = "no" => save_config(ui') = file']_vars

\* A session the program has saved can be restored exactly if its settings make
\* sense and no window shows the last register of its range.
SavedRestores ==
    [][Restores /\ file'.damage = "no" =>
          (outcome' = "restored" <=>
              /\ file.settings.timeout >= 1 /\ file.settings.port \in Ports
              /\ \A i \in DOMAIN file.windows :
                    LET w == file.windows[i] IN w.start + w.count - 1 < LastRegister(w.start))]_vars

\* A Restore that fails, wherever it does, changes neither timeout nor port.
FailureKeepsSettings ==
    [][Restores /\ outcome' # "restored" => ui'.settings = ui.settings]_vars

-----------------------------------------------------------------------------
(* The inductive invariant behind the safety properties.                   *)

\* A saved window can be opened again, and is refused only for its last register;
\* of a damaged file nothing is certain but that it has elements.
SessionFile(f) ==
    /\ f.settings \in SettingsOf
    /\ f.windows \in Seq(Elements)
    /\ f = [settings |-> f.settings, windows |-> f.windows, trend |-> f.trend, damage |-> f.damage]
    /\ f.damage \in Damages
    /\ f.damage = "no" =>
          /\ f.trend \in {"none", "saved"}
          /\ \A i \in DOMAIN f.windows :
                /\ Config(f.windows[i]) \in Configs
                /\ f.windows[i] = Entry(Config(f.windows[i]))

FileInv == file = NoFile \/ SessionFile(file)

\* What Restore has left behind it does not take for the trend again.
ForgottenInv == forgotten \subseteq DOMAIN ui.trends /\ ui.trend \notin forgotten

SessionInv == TypeOK /\ FileInv /\ ForgottenInv /\ LifeCycleKept /\ NoOrphans

=============================================================================
