# QModbusTool in TLA+

A verification project for QModbusTool, a Qt program that polls Modbus/TCP
devices. The TLA+ modules model its polling core (the worker thread that talks to
the device, the scheduler that decides what to ask next, the main window that owns
the connection), the register windows with their values, encodings and metadata, the
trend, the import of CSV files, and the saving and restoring of sessions. TLC checks
small instances; TLAPS proves, for any number of windows, requests, registers, lines and
columns, the safety properties of the core, of the register windows, of the trend, with
its refinement, of sessions and of the CSV import.

## The system

| part | state | operations | talks to |
|---|---|---|---|
| `ModbusThread` (modbusthread.cpp) | `m_quit`, the one request (`m_reg_number`, `m_count`, `m_node`, `m_write_request`, `m_raw_request`), `m_regs`, a mutex and a condition variable | `run` (own thread); `modbus_request` (three forms), `modbus_result`, `get_*`, `close` (GUI thread) | signals `complete`, `modbus_error`, queued for the GUI thread |
| `Scheduler` (scheduler.cpp) | three deques (writes, metadata, reads), `m_active`, `m_current_action`, `m_current_request`, the thread pointer | `enqueue_request`, `modbus_on_write_request`, `modbus_on_poll_meta`, `remove_reference`, `start_modbus`, `stop_modbus`; slots `modbus_on_data`, `modbus_on_error`; `figure_next` | hands requests to the thread; signals `new_register_data`, `polling_complete`, `poll_exception`, called directly |
| `MainWindow` (mainwindow.cpp) | `m_connected`, `m_connecting`, `m_connecting2`, the set of register windows, the trend, the thread | connect, disconnect, close, Once, Continuous, add and remove windows, sessions, CSV import | creates the thread, starts and stops the scheduler, asks for the device id itself |
| `RegisterDisplay` and its three subclasses | register range, node, raw values, encodings, metadata flags, the edited field | poll, apply, refresh metadata, edit and write | signals to the scheduler; receives values and exceptions |
| `BaseDialog` | first-display and close flags | show, close, reject | `window_closed` |
| `TrendWindow`, `TrendLine` | timestamps, a ring buffer and a last value per line | new value, scan, add, remove, resize, load | receives `new_register_data` |
| CSV import, session restore | a table, column roles; an XML tree | autoconfiguration, gathering writes; open the file's windows, close the old ones | scheduler, windows |
| `MetadataWrapper` | a loaded plugin | create, encode, decode | scheduler |

Two threads run: the GUI thread, which executes one handler at a time, and the
worker. They share the fields of `ModbusThread` under one mutex, and the worker's
signals reach the GUI thread later, through Qt's event queue.

What is hard here:

- the request is handed over through a condition variable without a predicate;
- the signals carry no request: the slots interpret them by the state they find;
- posted signals outlive the connection, the request and the window they are about;
- `m_regs` holds values to be written, results and nothing at different times;
- the device id request goes past the scheduler while the scheduler is running;
- `figure_next()` emits `polling_complete`, whose slot enqueues and re-enters it;
- windows are closed while any of three queues and a request in flight refer to them;
- values, metadata and failures reach a register window between any two clicks, while
  the user is typing or has just changed the window's range;
- a trend advances only when all its lines have a value, and polls fail;
- a session is restored over a running one, and may fail half way.

Every hazard, with its line and the properties that cover it, is listed in
`PROJECT.json`. Two have no property: a plugin that refuses a register (no plugin is in
the repository), and a window whose node the user changes, which polls the new node and
listens to the old one: the model does the same, and nothing the source says about it
but a comment that is not true (register_display.h:151) is left to check.

What makes each part correct: the thread answers every request once, performs
each write with the values it was given and ends when told to; the scheduler has
one request under way exactly while it is active, attributes each answer to its
request, refers only to open windows and never rests on a request; the main window
takes only the device id for the device id and owns no running thread once closed.
A register window never writes what the device has just said, never types over the
user, and shows a description beside its own register; a trend's readings stay aligned
with its times and one round of polling is one column; a CSV file is written register by
register, in order and to the right nodes, and an export can be imported; a session is
restored exactly, and one that cannot be leaves no setting changed.

## The modules

    ModbusThread <- Scheduler <- MainWindow <- Polling <- MCPolling
                                               Polling <- PollingProof <- CarefulProof  (TLAPS)

    RegisterData <- RegisterWindow <- RegisterPolling <- MCRegisters
                                      RegisterPolling <- RegisterProof   (TLAPS)
                                   <- CsvImport <- CsvRoundTrip <- MCCsv
                                                   CsvRoundTrip <- CsvProof   (TLAPS)
    RegisterData <- TrendLine <- Trend <- MCTrend
                                 Trend <- TrendProof   (TLAPS)
                 TrendHistory <- Trend   (INSTANCE: the abstract specification)
    BaseDialog <- Session <- MCSession
                  Session <- SessionProof   (TLAPS)
    BoundedInduction <- RegisterProof, SessionProof, CsvProof   (TLAPS)

- **ModbusThread** models `modbusthread.cpp`. `worker` is the thread's place in
  `run()`. A request is a record of its kind (device id, read, write, metadata), the
  window it is for and, for writes, a number; that is all the properties tell
  apart, so registers, counts and nodes are left out, and which window's request it
  is stands for them. `regs` says whose data `m_regs` holds: the values of a write,
  the result of a request, nothing, or zeros when `resize` filled it. `asked` and
  `device` are history variables: the request not answered yet, and the
  writes the device performed. libmodbus is external; a transaction succeeds or fails.
- **Scheduler** models `scheduler.cpp`. Queues are sequences. `pick_next` is
  `figure_next()`, with the queues it finds as parameters so that a slot that first
  appends and then calls it is one operator. `polling_complete` is a direct call in
  the middle of it: `refill` is what the connected slot enqueues meanwhile.
- **MainWindow** models the slots of `mainwindow.cpp` that concern the connection,
  polling and windows, and composes all three parts. Each GUI handler is an action;
  one that uses the thread's mutex twice, or joins the thread, is two actions, and
  `gui` tells where it stands: `modbus_on_data` of the main window (request,
  then `post_connected`), `modbus_on_data` of the scheduler (take the result, then
  `figure_next`), Disconnect and `closeEvent` (tell the thread, then join it).
- **Polling** states what the core promises, and the inductive invariants.
- **MCPolling** and the configurations are the instances. **PollingProof** holds the
  proofs of what is true for every user, **CarefulProof** of what is true for one who
  waits.
- **RegisterData** has the conversions between a register's word and its text:
  `decode_register`, `encode_register`, the cells of an export. A text is a form (decimal,
  hexadecimal, pair, word) with its numbers. `Byte` is the number of values of a byte, so
  that two's complement and narrowing are exact while the words stay few.
- **RegisterWindow** models a window of any of the four classes as a record and each of
  its handlers as an operator from the window before to the window after, with what the
  handler emits. The widget of a row keeps the index it was created with (`index`), since
  `setupUi()` and `on_apply_clicked()` do not choose it alike.
- **RegisterPolling** makes the handlers actions and puts them beside as much of the
  scheduler as one window can tell: one request under way, writes before metadata before
  reads, sequences that go on or are given up, values of other origin. The whole
  scheduler is in `Scheduler`; here its queues are what the window put there, and a
  disconnect drops what is under way, as `stop_modbus()` does. The values of an answer
  are taken over register by register (`after`, a recursive function), the loop of
  `new_value()`.
- **TrendHistory** is the abstract specification of a trend: a list of readings for every
  line; when all lines have a new one, all lists move on by one. **TrendLine** is the ring
  buffer of one line, **Trend** the window with both its dialogs and its part of the
  session; `Trend` implements `TrendHistory`, reading the rings through `operator[]`.
  The limits a column leaves are stated by what they are (`Stretch`): the old ones,
  moved just as far as the column's values make necessary.
- **CsvImport** models the dialog, from the guess `attempt_autoconfig()` makes to the
  configuration it returns, and `load_csv_data()` with `append_write()`, whose loop is the
  recursive function in `Gathered`.
  **CsvRoundTrip** states what it promises, also of the files `save_register_set()` of
  `RegisterWindow` writes.
- **BaseDialog** is the life of a dialog; **Session** the windows and the trend of the
  program, the file, and Restore with each way it can fail. What a window and a trend
  contain beyond what the file names is left to the other modules. Closing a set of
  windows is stated by its outcome (`CloseWindows`): what one of them tells the main
  window concerns no other. Before a Restore the file may be changed by somebody (`Spoil`):
  it cannot be read, the trend's element is spoilt, or any element (`Spoilt`) stands in
  place of a window's or behind the last.
- **BoundedInduction** has what the proofs use for loops: induction over the numbers up
  to a bound, and that a step taken again and again leads somewhere.

Each operator named like a function of the source is that function; a suffix
(`_Kept`, `_AtOnce`, ...) marks a mutant: the same function with a plausible mistake,
which some property has to notice.

### Decisions worth knowing

- *The mutex.* The worker holds it from waking until it has emitted its signals.
  Handlers that lock it are disabled while the worker is `busy`; a transaction,
  the emissions and the unlock are one step, as nothing the GUI thread could do
  between an emission and the unlock goes on without the mutex and is told apart
  from doing it earlier or later. The gap that matters, between the unlock and the
  next wait, is there: `top`.
- *Qt's wait has no spurious wakeups* (it counts them), so none are modelled.
- *Emission.* Both objects connect to the same signals, the main window first, so a
  signal is posted to the main window and then, while it polls, to the scheduler.
  Posted calls survive `disconnect()`.
- *Connect.* A click on Connect is only taken when nothing is posted: the event
  loop delivers posted calls before it looks at the next click.
- *A register window of any range.* `RegisterDisplay` checks no range of its own
  (register_display.cpp:358), so a file may make one that shows coils, or begins at 10000
  or 40000, which `load_base_data()` lets pass. `TypeOK` of `Session` says so: only the
  other three classes are confined to their range.
- *Reading three fields.* `modbus_result`, `get_unit_id` and `get_start_reg` are
  one step: only the GUI thread changes what they read while no request is out.
- *Failures.* A failed write may or may not have been performed by the device.
- *Undefined behaviour.* `front()` or `pop_front()` on an empty deque ends in
  `gui = "crashed"`, after which nothing is claimed.
- *Illegal addresses.* `Unreadable` are windows whose start register no branch of
  `run()` serves, such as 10000 from a session file.
- *Apply and the focus.* A click moves the keyboard focus, which ends the editing of a
  row (`Leave`) before the click is handled. Return pressed in a row of a holding
  register window does not also click a button: that class gives up the default button.
- *Rows that Apply adds* are called with the next row's index (`row_index`). Where this
  goes past the rows, `undefined` is set and nothing happens any more; the properties
  that speak of rows being edited or toggled do so while every row has its own index.
- *Misreading.* `encode_register()` drops two characters of a text for bits and reads the
  rest as hexadecimal; what comes of a text that does not begin with 0x is any word or
  none.
- *Time in a trend* is counted in rounds: a column's time is the round it was added
  in. Numbers are written to the session and read back exactly (the code writes six
  digits). Nobody clicks in the 160 ms between loading a trend and its timer, nor before
  the guess of the CSV dialog; values do arrive meanwhile.
- *Restore's catch clause* walks `m_register_windows` while closing a window erases from
  it. The model lets it finish or crash. A trend that was there before a restore that
  fails early is forgotten, though it stays on the screen (`forgotten`).
- *Left out*: `modbus_on_timer_expired`, since its timer is never started, and
  `poll_devid_request`, since nothing selects it; counters, texts and the
  `new_register_data` values.

### What the user does

`Patience` says what the user is assumed to wait for:

- `"devid"`: no poll, write or metadata request while the device id exchange of a new
  connection is under way;
- `"meta"`: no disconnect while a metadata request is under way;
- `"exit"`: the program is not closed while it connects.

Without these the program breaks in the ways the violation runs show (and, for
`"exit"`, a running thread is destroyed with its parent). With all three, everything
in `Polling` holds. Nothing in the program enforces them.

## The runs

| run | asks | result |
|---|---|---|
| `core_careful` | all ten safety properties, careful user, two windows, two sessions, two writes, a sequence of two metadata registers | hold, 1.9 million states |
| `core_anyuser` | `WorkConserving`, `NoDangling` for any user, with a window at an illegal address | hold, 1.7 million states |
| `core_liveness` | `CloseReturns`, `PollStarts` | hold, 195 thousand states |
| `lost_wakeup` | `RequestsEnd`: what is handed over is answered or timed out | violated |
| `device_id_race` | `WritesFaithful` for a user who writes at once | violated |
| `stale_error` | `NoUndefinedBehaviour` for a user who disconnects at any time | violated |
| `illegal_address` | `SingleRequestResponse` with a window at an illegal address | violated |
| `registers` | eight properties of a register window under polling, metadata, failures and clicks | hold, 498 thousand states |
| `row_index` | `RowIndex`: a row is called with its own index | violated |
| `trend` | seven properties of the trend, with the refinement of `TrendHistory` | hold, 1.1 million states |
| `csv` | four properties of the import | hold, 58 thousand states |
| `session` | six properties of sessions and the life of windows | hold, 1.5 million states |

The five violated runs are disagreements between the code and its own comments or
README; `PROJECT.json` quotes the lines under `findings`. In short:

- **lost_wakeup.** The worker emits `complete()`, the GUI thread hands over the next
  request and notifies, then the worker locks and waits: the notification is gone, and
  the timer meant for this is never started. Polling stops until the user disconnects
  or a write or poll from another handler notifies again.
- **device_id_race.** Connect, write before the device id has been shown: the main
  window takes the write's values for the id, and the worker writes zeros.
- **stale_error.** A metadata request fails, the user disconnects before the error is
  delivered: the error pops a queue that has been cleared.
- **illegal_address.** One poll, two answers; the scheduler sends the next request on
  the first and attributes the second to it.

- **row_index.** A window is made larger with Apply: the new rows have the index of the
  row after them, the last one an index past the end.

The properties, by what they relate. The core:

- `SingleRequestResponse`: `m_active` against requests at the worker and answers
  under way.
- `ReplyAttribution`: an answer under way against the scheduler's and the thread's
  current fields.
- `DeviceIdAttribution`: the next answer the main window takes for the id against
  the request it answers and the data in `m_regs`.
- `WorkConserving`: an inactive scheduler against its queues.
- `NoDangling`: closed windows against every reference of the scheduler.
- `WritesFaithful`: the writes performed against the writes requested: order, no
  repetition, values.
- `RawPduOwned`: a PDU the worker may be reading against the head of the queue that
  owns its memory.
- `NoUndefinedBehaviour`, `NoThreadAfterExit`: see above.
- `CloseReturns`, `PollStarts`, `RequestsEnd`: progress.

A register window:

- `DeviceNeverWrites`: every write against who caused it. `setChecked()` calls the
  slot that writes; only the order of two assignments keeps the device's own state from
  being written back.
- `RefreshTracked`: the flag that locks Requery against the sequences queued in the
  scheduler, through Apply, failures and reconnecting.
- `LabelsMatch`, `MetadataComplete`: descriptions against the registers shown, and the
  claim to have them against the rows that do. Apply in the middle of a sequence may leave
  the claim too early (`torn` says when), never a wrong description.
- `EditKept`, `EditedRowExists`: text being typed and the row being edited against
  polls, the idle timer, Return and Apply.
- `ReturnIsHarmless`: `encode_register` against `decode_register`: an unedited value is
  written as it was or is refused (the byte encodings are always refused).

The trend:

- `OncePerRound`: a column per round ("The trend will be updated once for each set of
  registers polled", README.md:21), however polls fail, as long as the set of lines
  stays the same during it (`edited`).
- `Aged`: how far apart the readings of one column may be: not at all if no poll has
  failed and no line came or went within a round, one more round for each failure and
  one for ever after a change (`lag`).
- `LimitsCover`: the axis against the readings recorded since its limits were set.
  Accepting Configure Graph sets them: the limits shown when the dialog was opened are put
  back even if the axis has been extended meanwhile (trend_window.cpp:263), and what
  is recorded from then on is covered again.
- `Redrawable`: what `redraw_graph()` indexes: lengths of rings, times and graphs.
- `RestoresAlike`: the trend a session restores against the file.
- `Implements`: rings, indices and last values against plain lists.

The CSV import:

- `RoundTrip`: importing an export, as the dialog understood it, tells every window the
  values it had, provided they could be read (`Readable`).
- `WritesExact`: the writes, laid end to end, against the rows of the file that can
  be written, the columns chosen and the fixed node.
- `WritesFit`: no write is longer than its limit, and none is split without need. The
  limits themselves, 2000 coils and 127 registers, exceed those of the protocol (1968
  and 123); libmodbus refuses such a request.

Sessions:

- `LifeCycleKept`: set up once, reported closed once, for every way of closing.
- `NoOrphans`: what is on the screen against what the program knows and is wired to.
- `RestoreExact`, `SavedRestores`: the file against the session restored from it, and
  which saved sessions can be: not those with a window that shows the last register
  of its range, which `load_base_data()` refuses.
- `FailureKeepsSettings`: a restore that fails changes neither timeout nor port.

### Bounds

`MaxSessions`, `MaxWrites` and `MaxSequences` bound how often the user connects, writes
and asks for metadata, `MaxLength` the registers in a sequence, and `MaxQueue` how
many reads may wait when Once is clicked (Continuous refills without a bound of its
own; the queue never outgrows the windows then). Two windows are enough for
every order of polling, for closing the one that is polled, the one that waits, or
both, and for re-filling the queue from inside `figure_next()`. Two
sessions are what a signal of an old connection needs to meet a new one; two
writes what an order needs; two metadata registers what it takes for a sequence to
go on after an answer. `core_anyuser` adds `ShortPosted`: answers counted twice
start requests whose answers are again counted twice if the window keeps being polled,
so at most three posted calls are explored. The safety runs use the symmetry of
the windows where both are alike; the liveness run does not.

`registers`: one window over three registers, of one or two rows, so that Apply can
grow, shrink and move it, with words of four bits (`Byte` = 4); two clicks that change
something (typing, Return, a check box, Apply) beside any number of others, and
two sequences queued, as many as can get in each other's way. `trend`: two registers,
four rounds, two or three columns: the rings turn and both lines can be out of step; two
clicks, enough to save and restore, or to add and remove. `csv`: full width; files of
three rows around 9999 and 40001 and one of four coils in a row, limits of three coils
and two holding registers, so that neither can stand for the other, one change by the user;
exports of a two-row window in every state of its metadata. `session`: the user opens two windows of
coils and two trends, and restores twice, which opens more windows; a failed restore can
be followed by another. The file may get an element of no class, a `RegisterDisplay` over
coils or at 10000, or a holding register window at 40000, which is refused; one
setting has a port that is none. A timeout below one is left to the proof. Runs with `CHECK_DEADLOCK FALSE` (`trend`, `csv`, `session`)
end: the rounds are bounded, the dialog closes, the program exits.

### Fairness

Weak fairness of the worker's steps (libmodbus has time limits for connecting and
answering, and the thread is scheduled) and of the GUI thread's own steps (Qt's
event loop delivers what is posted, a handler in progress goes on). The user is
not fair: he may never click again. `PollStarts` allows for the wakeup that
`lost_wakeup` is about, and for nothing else that the program could be blamed for.

## The proofs

Every theorem below is checked by TLAPS from the assumptions its modules name, which
TLC evaluates on the instances of the runs. Each inductive invariant was checked by TLC
on an instance before it was proved.

### The core, for every user: `PollingProof`

From `WindowsAssumption` (the null pointer is no window), `PluginAssumption` and
`BoundsAssumption` (finitely many windows, natural bounds), thus also for the careless
user and with illegal addresses:

- `PollingInvariant`: `Spec => []PollingInv`;
- `TypeCorrect`: `TypeOK`. It says more than it seems to: the read queue holds
  windows, never the null pointer that `remove_reference` puts into the other two
  queues and that `poll_read_request` would dereference;
- `NoDanglingReferences`: `NoDangling`;
- `SchedulerWorkConserving`: `WorkConserving`.

None of the last two is inductive. That no deleted window is referred to rests on
"only open windows are referred to" (`RefersOnlyTo(windows)`) and on open and closed
windows being disjoint; this in turn breaks in `closeEvent()`, which empties the set
of windows without telling the scheduler, unless a scheduler that does not poll has
empty queues and no current request, and unless `m_connected` says whether it polls.
`WorkConserving` is false inside `modbus_on_data()`, between the answer and
`figure_next()`, so the invariant speaks of all other places. `PollingInv` is the
conjunction of these.

The argument follows the program: lemmas about the data operators (a walk over the
windows, disowning a window, dropping it from the reads), one about `figure_next()`
for any queues (`pick_nextType`), three for the ways a handler can end (the request
is queued, the next one is picked, the scheduler is empty), then one lemma per
group of actions: worker, user, GUI thread.

### The core, for a user who waits: `CarefulProof`

`NoThreadOutlivesWindow` needs `"exit" \in Patience` only. The others assume
`CarefulUser`: all three kinds of patience, and no window at an illegal address. The
runs `device_id_race`, `stale_error` and `illegal_address` show what becomes of the
properties without the wait for the device id, without that for metadata, and with an
illegal address.

- `ConnectionInvariant`, and `NoThreadOutlivesWindow` for `NoThreadAfterExit`: there is a
  thread exactly from the click on Connect to the disconnect or the failure. What makes
  it inductive is where the GUI thread may stand meanwhile.
- `CarefulInvariant` carries five properties: `OneRequestAtATime`
  (`SingleRequestResponse`), `RepliesAttributed`, `DeviceIdAttributed`, `PduOwned`,
  `NoSlotUndefined`. None of them is inductive alone: each says what an answer
  meets when it arrives, and this was settled when its request was handed over.
  `HandoverInv` says that the request is with the worker or its answer is under way, and
  then in one of three shapes (on its way to the main window, to both, to the scheduler
  only), with the thread's fields still describing it. `DeviceIdInv` says that between
  Connect and the device id nothing else can be on the way. `ExchangeInv` ties the
  scheduler's fields to the thread's. `SingleRequestResponse` then follows by counting
  the shapes.
- `WritesInvariant`, and `WritesPerformed` for `WritesFaithful`: writes are numbered as
  they are requested, and from the queue over the thread to the device the numbers only
  fall (`WritesInv`). That values are kept is `HandoverInv`: while a write is asked for,
  `m_regs` holds its own values.

Handlers are first reduced to what they come to (`Picks`: the next request is handed
over, or the scheduler rests; `UserRequestOutcome`: it is queued, or picked at once), so
each invariant is proved against a few outcomes instead of twenty actions.

### A register window: `RegisterProof`

From `ByteAssumption`, `WindowAssumption` and `PollingAssumption`: any even number of
byte values, any number of registers, rows, nodes and queued sequences, any device values
and typed texts.

- `RegisterInvariant`: `Spec => []RegisterInv`, the conjunction of the properties with
  what they need of each other;
- `RegisterTypes`, `PollsNeverWrite` (`DeviceNeverWrites`), `RequeryAlive`
  (`RefreshTracked`), `LabelsStay` (`LabelsMatch`), `MetadataWhole`
  (`MetadataComplete`), `ActiveRowExists` (`EditedRowExists`), `ReturnWritesBack`
  (`ReturnIsHarmless`);
- `TypingKept`: the action property `EditKept`.

`EditedRowExists` speaks of windows where each row has its own index, and Apply can end
that; `EditingInv` says for all windows that the active row is the one the focused row's
widget has told. `LabelsMatch` survives a metadata answer because the answer is for the
register the request asked for, on the node it was sent to (`FlightInv`).
`MetadataComplete` needs `SequencesInv`: unless Apply came in between, every queued
sequence is about the rows shown, those behind the first have not begun, and the rows
before the point the first has reached are described. When its last answer
arrives, all are. `RefreshTracked` follows the same sequences through failures.

The values of an answer are taken over one register after another. This is an induction
over data; it is done here with a set instead of an operator (`InductionUpTo`, from the
well-foundedness of `<`), on the relation `Polled` between a window before and after
values from the device. `ReturnIsHarmless` is arithmetic: `SignedBack` inverts two's
complement, `ReadBack` goes through the encodings.

An earlier form of `TypeOK` bounded `unanswered` by the clicks. The proof of it failed
for a reason: in a window whose rows are mis-indexed, one answer can make check boxes
write, as often as it arrives, so there is no such bound. The instance of the run is
too small to show it. `TypeOK` says `unanswered \in Nat` now.

### The trend: `TrendProof`

From `TrendAssumption`: any number of lines, points, rounds and failures.

- `TrendInvariant`: `Spec => []TrendInv`;
- `TrendTypes`, `AlwaysRedrawable` (`Redrawable`), `OneColumnPerRound` (`OncePerRound`),
  `ReadingsAge` (`Aged`), `AxisCovers` (`LimitsCover`);
- `SessionsRestoreAlike`: the action property `RestoresAlike`;
- `TrendImplementsHistory`: `Implements`, the refinement of `TrendHistory`.

`ContentsInv` makes every ring as long as the list of times; `PendingInv` says what is
there between loading a session and its timer. `OncePerRound` is not inductive: that a
round has had its column must be seen from the state (`ColumnsInv`: some line polled
in this round waits again). `Aged` rests on how old a value that waits can be,
one round more for each failure (`WaitingInv`).

The refinement goes step by step: a value is `Read`, which moves the lists on if it
was the last one waited for, or stutters when its register has no line; `AddLine` and the timer of `load_configuration` add lines; `DeleteLine` removes
one; an accepted dialog resizes, or stutters where only limits change;
`load_configuration` reopens. The lemma it rests on is `UpdateTurns`: writing at the
ring's index and moving the index on shows, through `operator[]`, the old readings without
the first and with the new one at the end.

### Sessions: `SessionProof`

From `SessionAssumption`: any number of windows, trends and restores, any registers the
spin boxes go through, any settings, sensible or not, and any elements in a spoilt file.

- `SessionInvariant`: `Spec => []SessionInv`;
- `SessionTypeCorrect` (`TypeOK`), `LifeCycleIsKept` (`LifeCycleKept`),
  `NothingOrphaned` (`NoOrphans`);
- three action properties: `SettingsSurviveFailure` (`FailureKeepsSettings`),
  `SavedSessionRestored` (`SavedRestores`), `RestoredExactly` (`RestoreExact`).

`NoOrphans` is not inductive: a failed Restore leaves a trend on the screen that
`m_trend` no longer points to, and what keeps it from being taken up again is that new
trends have new numbers (`ForgottenInv`). `FileInv` says what the program can find in a
file: undamaged, it is what `save_config()` writes from windows the program may have;
damaged, its list of windows is any sequence of elements, of any name and any numbers.
What makes `SessionTypeCorrect` hold then is what the program refuses: `LoadedConfig`
shows that an element that gets past `load_base_data()` and its class's own check
makes a window in `Configs`.

Restore goes through states where `NoOrphans` does not hold: the old trend is on the
screen while `m_trend` is null or points to the new one, and old and new windows
are there side by side. The proof follows the handler. `WindowsKnown` and `TrendsKnown` are
`NoOrphans` for windows and trends apart, the second with the trends left behind as
a parameter; each operator (`add_window`, `CloseWindows`, `trend_on_closed`,
`CloseTrend`, `load_windows`, `load_config`) has a lemma for what it does to them, and
`RestoreEffects` puts these together for each of the ways Restore can end.

`load_windows()` is a loop, the recursive function `after`; what it leaves is proved by
`InductionUpTo`. `SavedRestores` rests on two lemmas about one element:
`load_configuration_parameters()` accepts what its own class has saved, and
`load_base_data()` refuses it for the last register of the range and for nothing else.
For `RestoreExact` the windows saved are those with the numbers `m + 1` to `m + n`, all
that the loop has added behind the `m` old ones; `Nth` of such an interval is found by
counting.

### The import: `CsvProof`

From `ImportAssumption` and `RoundTripAssumption`: tables of any number of rows of any
lengths and cells, any limits of a write, and register windows of any size, whose exports
are among the tables. Register numbers are the real ones: 10000, 40001 and 49999 decide
what is written and how long a write may be, so `Byte` is 256 here.

- `ImportInvariant`: `Spec => []ImportInv`;
- `ImportTypes` (`TypeOK`), `WritesAreFit` (`WritesFit`), `WritesAreExact`
  (`WritesExact`), `ExportReadBack` (`RoundTrip`).

The work is in the loop of `load_csv_data()`. A recursive function is a `CHOOSE`, so
first `GatheredIs` shows, with `Iteration`, that there is such a function, one request
after each row. `GoodRequest` is the loop's invariant: every write put aside keeps its
limit, and none could have gone on with the first register of the next. Its argument
needs that a write never crosses from the coils to the holding registers (`Filled`), or
the limit the code takes from the register to be added would not be that of the write.
`Laid` is what has been asked for so far, and `Appended` says that `append_write()` adds
one item to it, in each of its three ways (`FirstBegins`, `NextBegins`, `GoesOn`).
`GatheredLaid` then goes over the rows: what the writes say, laid end to end, is what the
rows ask for. `FlattenSeq` of the community modules is a recursive function too;
`FlattenIs` and `FlattenAppend` are what is needed of it.

`Chosen` ties this to the dialog: `on_ok_clicked()` leaves one column for each role, and a
fixed node survives being turned into a negative column and back. That numbers are
narrowed changes no register that can be written (`RowItem`).

`RoundTrip` rests on `Exported`: from the guess until the first change, the dialog of a
file that a window has written shows the columns of its registers, its raw values (or
values, if there are no raw ones) and its nodes (`AutoconfigExport`, from the titles).
`ExportLoaded` reads them back, also from a window without rows.

### Only model-checked

- `CloseReturns`, `PollStarts`: liveness; the prover handles neither fairness nor
  `ENABLED`.
- The violated properties, where the counterexample is the result.

## Plan

Done: the polling core, register windows, trend, CSV import and sessions with their
runs; the proofs of the core, the register windows, the trend, sessions and the import:
every safety and action property of the passing runs is stated by a theorem. What is left:

1. **PollService**: an abstract single-request service (queued, under way, done)
   that the core implements for a careful user, as a refinement.

## Not modelled

- Forms, layout, colours, translations, plotting, screenshots, the trend's data file:
  they present state and change none.
- XML and CSV syntax, the plugin, libmodbus and Qt: external; what is assumed of them
  is named above.
- `modbus_on_timer_expired` and `poll_devid_request`, which nothing reaches, and the
  handlers of `BaseDialog` that only throw and that no window leaves in place.
- `main.cpp` and the exceptions have no state.
